--------------------------- MODULE Navputter_proofs ---------------------------
(***************************************************************************)
(* Proofs about the keypad, and about the way from the hand to the host    *)
(* that it is the first part of, for every size of the matrix, key map,    *)
(* set of key sequences, hold time and size of the key buffer.             *)
(*                                                                         *)
(* The first three sections are about the keypad alone and use only the    *)
(* assumptions of Keypad.                                                  *)
(***************************************************************************)
EXTENDS Navputter, SequenceTheorems, TLAPS

H == INSTANCE HidReport_proofs WITH mouse <- MouseNow, Step <- MouseStep

-----------------------------------------------------------------------------
(* Where trigger() looks is a position of the matrix. *)
LEMMA AtFacts ==
  ASSUME TypeOK, InColumn
  PROVE  /\ row \in Rows /\ tcol \in Cols /\ at = <<row, tcol>> /\ at \in Matrix
         /\ row + 1 \in 0..MaxRows /\ tcol + 1 \in 0..MaxCols
         /\ size[1] \in 1..MaxRows /\ size[2] \in 1..MaxCols
<1>1. at \in (0..MaxRows) \X (0..MaxCols) /\ size \in (1..MaxRows) \X (1..MaxCols)
  BY DEF TypeOK, InColumn
<1>2. at = <<row, tcol>> /\ row \in 0..MaxRows /\ tcol \in 0..MaxCols
  BY <1>1 DEF row, tcol
<1>3. size[1] \in 1..MaxRows /\ size[2] \in 1..MaxCols
  BY <1>1
<1>4. row < size[1] /\ tcol < size[2] /\ MaxRows \in Nat /\ MaxCols \in Nat
  BY KeypadAssumption DEF InColumn
<1> HIDE DEF row, tcol
<1>5. row \in Rows /\ tcol \in Cols /\ row + 1 \in 0..MaxRows /\ tcol + 1 \in 0..MaxCols
  BY <1>2, <1>3, <1>4 DEF Rows, Cols
<1>6. QED
  BY <1>2, <1>3, <1>5 DEF Matrix

(* The key sequences an event of a key may run have an action. *)
LEMMA SeqFacts ==
  ASSUME NEW k \in Matrix, NEW edge
  PROVE  /\ KeyMap[k] \in Seqs /\ SeqFor(KeyMap[k], edge) \in Seqs
         /\ ActionOf[SeqFor(KeyMap[k], edge)] \in Actions
<1>1. KeyMap[k] \in Seqs
  BY KeypadAssumption
<1>2. SeqFor(KeyMap[k], edge) \in Seqs
  BY <1>1, KeypadAssumption DEF SeqFor, HoldFires
<1>3. QED
  BY <1>1, <1>2, KeypadAssumption

(* What a key event may do keeps the types. *)
LEMMA PressType ==
  ASSUME TypeOK, NEW edge, NEW k \in Matrix, Press(edge, k)
  PROVE  /\ arrows' \in Mouse..FastKey /\ step' \in 1..(MaxMouseStep - 1)
         /\ size' = size /\ dir' \in [Dirs -> 0..(MaxMouseStep - 1)]
         /\ clicks' \subseteq Clicks /\ held' \in 0..MaxHeld
         /\ carried' \subseteq Dirs /\ event'.key = k
<1> DEFINE a == ActionOf[SeqFor(KeyMap[k], edge)]
<1>1. /\ held' = IF KeyMap[k] \in HoldSeqs /\ edge = "down" THEN 0 ELSE held
      /\ arrows' = IF a = "toggle" /\ edge = "down" THEN NextArrows ELSE arrows
      /\ step' = IF a = "step" /\ edge # "down" THEN NextStep ELSE step
      /\ dir' = IF a \in Dirs /\ MovesMouse
                  THEN [dir EXCEPT ![a] = Motion(edge = "down")]
                  ELSE dir
      /\ clicks' = IF a \notin Clicks THEN clicks
                   ELSE IF edge = "down" THEN clicks \union {a} ELSE clicks \ {a}
      /\ size' = size
  BY DEF Press
<1>2. event'.key = k
  BY DEF Press
<1>3. carried' \subseteq Dirs
  BY DEF Press, Carry
<1>4. MaxMouseStep \in Nat /\ MaxHeld \in Nat
  BY KeypadAssumption
<1> HIDE DEF a
<1>5. arrows' \in Mouse..FastKey
  BY <1>1 DEF TypeOK, NextArrows, Mouse, FastKey
<1>6. step' \in 1..(MaxMouseStep - 1)
  BY <1>1, <1>4 DEF TypeOK, NextStep
<1>7. Motion(edge = "down") \in 0..(MaxMouseStep - 1)
  BY <1>4 DEF TypeOK, Motion
<1>8. dir' \in [Dirs -> 0..(MaxMouseStep - 1)]
  BY <1>1, <1>7 DEF TypeOK
<1>9. clicks' \subseteq Clicks
  BY <1>1 DEF TypeOK
<1>10. held' \in 0..MaxHeld
  BY <1>1, <1>4 DEF TypeOK
<1>11. QED
  BY <1>1, <1>2, <1>3, <1>5, <1>6, <1>8, <1>9, <1>10

(* Stepping on through the matrix stays in its bounds. *)
LEMMA AdvanceType ==
  ASSUME TypeOK, Advance
  PROVE  /\ at' \in {Idle} \union ((0..MaxRows) \X (0..MaxCols))
         /\ last' \in [Cols -> (SUBSET Rows) \union {NeverRead}]
<1>1. /\ row + 1 \in 0..MaxRows /\ tcol + 1 \in 0..MaxCols /\ tcol \in Cols /\ row \in Rows
  BY AtFacts DEF Advance
<1>2. keystate[tcol] \in SUBSET Rows
  BY <1>1 DEF TypeOK
<1>3. tcol \in 0..MaxCols /\ 0 \in 0..MaxRows
  BY <1>1, KeypadAssumption DEF Cols
<1>4. \/ at' = <<row + 1, tcol>> /\ last' = last
      \/ at' = <<0, tcol + 1>> /\ last' = [last EXCEPT ![tcol] = keystate[tcol]]
  BY DEF Advance
<1> HIDE DEF row, tcol
<1>5. at' \in (0..MaxRows) \X (0..MaxCols)
  BY <1>1, <1>3, <1>4
<1>6. last' \in [Cols -> (SUBSET Rows) \union {NeverRead}]
  BY <1>1, <1>2, <1>4 DEF TypeOK
<1>7. QED
  BY <1>5, <1>6

(* Every step keeps every variable in its range. *)
LEMMA TypeStep == TypeOK /\ [Next]_vars => TypeOK'
<1> SUFFICES ASSUME TypeOK, [Next]_vars PROVE TypeOK'
  OBVIOUS
<1>0. /\ SettleTicks = 1 /\ MaxRows \in Nat /\ MaxCols \in Nat /\ MaxHeld \in Nat
      /\ MaxRows > 0 /\ MaxCols > 0
      /\ Presses \subseteq SUBSET Matrix /\ ArrowsSet \subseteq Mouse..FastKey
      /\ Sizes \subseteq (1..MaxRows) \X (1..MaxCols)
  BY KeypadAssumption DEF SettleTicks
<1> USE DEF TypeOK
<1>1. CASE Hand
  BY <1>0, <1>1 DEF Hand, matrixVars, effectVars
<1>2. CASE Tick
  <2>1. settle' \in 0..SettleTicks /\ held' \in 0..MaxHeld
    BY <1>0, <1>2 DEF Tick, Later
  <2>2. since' \in [HoldKeys -> 0..MaxHeld]
    BY <1>0, <1>2 DEF Tick, Later
  <2>3. QED
    BY <1>2, <2>1, <2>2 DEF Tick
<1>3. ASSUME NEW a \in ArrowsSet, SetArrows(a) PROVE TypeOK'
  BY <1>0, <1>3 DEF SetArrows, Carry, matrixVars
<1>4. ASSUME NEW s \in Sizes, SetSize(s) PROVE TypeOK'
  BY <1>0, <1>4 DEF SetSize, matrixVars
<1>5. CASE SetCols
  BY <1>0, <1>5 DEF SetCols, effectVars
<1>6. CASE Settled
  BY <1>0, <1>6 DEF Settled, effectVars
<1>7. CASE ReadRows
  <2>1. {r \in Rows : <<r, col>> \in pins} \in SUBSET Rows
    OBVIOUS
  <2>2. keystate' \in [Cols -> SUBSET Rows]
    BY <1>7, <2>1 DEF ReadRows
  <2>3. size[2] \in 1..MaxCols
    OBVIOUS
  <2>4. col' \in Cols
    BY <1>0, <1>7, <2>3 DEF ReadRows, NextCol, Cols
  <2>5. at' \in {Idle} \union ((0..MaxRows) \X (0..MaxCols))
    BY <1>0, <1>7 DEF ReadRows
  <2>6. QED
    BY <1>7, <2>2, <2>4, <2>5 DEF ReadRows, effectVars
<1>8. CASE SkipColumn
  <2>1. at' \in {Idle} \union ((0..MaxRows) \X (0..MaxCols))
    <3>1. InColumn /\ at' = <<0, tcol + 1>>
      BY <1>8 DEF SkipColumn
    <3>2. tcol + 1 \in 0..MaxCols /\ 0 \in 0..MaxRows
      BY <1>0, <3>1, AtFacts
    <3>3. QED
      BY <3>1, <3>2
  <2>2. event'.key \in Matrix \union {Idle}
    BY <1>8 DEF SkipColumn, Quiet
  <2>3. QED
    BY <1>8, <2>1, <2>2 DEF SkipColumn
<1>9. CASE KeyDown
  <2>1. /\ row \in Rows /\ tcol \in Cols /\ <<row, tcol>> \in Matrix
        /\ Press("down", <<row, tcol>>)
        /\ keydown' = [keydown EXCEPT ![tcol] = @ \union {row}]
        /\ since' = [k \in HoldKeys |-> IF k = at THEN 0 ELSE since[k]]
        /\ UNCHANGED <<pins, scan, settle, col, keystate>>
    BY <1>9, AtFacts DEF KeyDown, Advance
  <2>2. /\ at' \in {Idle} \union ((0..MaxRows) \X (0..MaxCols))
        /\ last' \in [Cols -> (SUBSET Rows) \union {NeverRead}]
    BY <1>9, AdvanceType DEF KeyDown
  <2>3. /\ arrows' \in Mouse..FastKey /\ step' \in 1..(MaxMouseStep - 1)
        /\ size' = size /\ dir' \in [Dirs -> 0..(MaxMouseStep - 1)]
        /\ clicks' \subseteq Clicks /\ held' \in 0..MaxHeld
        /\ carried' \subseteq Dirs /\ event'.key = <<row, tcol>>
    BY <2>1, PressType
  <2> HIDE DEF row, tcol
  <2>4. keydown' \in [Cols -> SUBSET Rows]
    BY <2>1
  <2>5. since' \in [HoldKeys -> 0..MaxHeld]
    BY <1>0, <2>1
  <2>6. QED
    BY <2>1, <2>2, <2>3, <2>4, <2>5
<1>10. CASE KeyUp
  <2>1. /\ row \in Rows /\ tcol \in Cols /\ <<row, tcol>> \in Matrix
        /\ Press("up", <<row, tcol>>)
        /\ keydown' = [keydown EXCEPT ![tcol] = @ \ {row}]
        /\ UNCHANGED <<pins, scan, settle, col, keystate, since>>
    BY <1>10, AtFacts DEF KeyUp, Advance
  <2>2. /\ at' \in {Idle} \union ((0..MaxRows) \X (0..MaxCols))
        /\ last' \in [Cols -> (SUBSET Rows) \union {NeverRead}]
    BY <1>10, AdvanceType DEF KeyUp
  <2>3. /\ arrows' \in Mouse..FastKey /\ step' \in 1..(MaxMouseStep - 1)
        /\ size' = size /\ dir' \in [Dirs -> 0..(MaxMouseStep - 1)]
        /\ clicks' \subseteq Clicks /\ held' \in 0..MaxHeld
        /\ carried' \subseteq Dirs /\ event'.key = <<row, tcol>>
    BY <2>1, PressType
  <2> HIDE DEF row, tcol
  <2>4. keydown' \in [Cols -> SUBSET Rows]
    BY <2>1
  <2>5. QED
    BY <2>1, <2>2, <2>3, <2>4
<1>11. CASE NoEdge
  <2>1. /\ at' \in {Idle} \union ((0..MaxRows) \X (0..MaxCols))
        /\ last' \in [Cols -> (SUBSET Rows) \union {NeverRead}]
    BY <1>11, AdvanceType DEF NoEdge
  <2>2. event'.key \in Matrix \union {Idle}
    BY <1>11 DEF NoEdge, Quiet
  <2>3. QED
    BY <1>11, <2>1, <2>2 DEF NoEdge, Advance
<1>12. CASE TriggerDone
  <2>1. event'.key \in Matrix \union {Idle}
    BY <1>12 DEF TriggerDone, Quiet
  <2>2. QED
    BY <1>12, <2>1 DEF TriggerDone
<1>13. CASE UNCHANGED vars
  BY <1>13 DEF vars, matrixVars, effectVars
<1>14. QED
  BY <1>1, <1>2, <1>3, <1>4, <1>5, <1>6, <1>7, <1>8, <1>9, <1>10, <1>11, <1>12, <1>13
     DEF Next, Poll, Trigger

(* The keypad starts with every variable in its range. *)
LEMMA TypeInit == Init => TypeOK
<1> SUFFICES ASSUME Init PROVE TypeOK
  OBVIOUS
<1>1. /\ MaxRows \in Nat /\ MaxRows > 0 /\ MaxCols \in Nat /\ MaxCols > 0 /\ MaxHeld \in Nat
      /\ MaxMouseStep \in Nat /\ Steps \subseteq 1..(MaxMouseStep - 1)
  BY KeypadAssumption
<1>2. step \in 1..(MaxMouseStep - 1) /\ 0 \in 0..(MaxMouseStep - 1)
  BY <1>1 DEF Init
<1>3. dir \in [Dirs -> 0..(MaxMouseStep - 1)]
  BY <1>2 DEF Init
<1>4. size \in (1..MaxRows) \X (1..MaxCols) /\ col \in Cols /\ held \in 0..MaxHeld
  BY <1>1 DEF Init, Cols
<1>5. since \in [HoldKeys -> 0..MaxHeld]
  BY <1>1 DEF Init
<1>6. /\ keystate \in [Cols -> SUBSET Rows] /\ keydown \in [Cols -> SUBSET Rows]
      /\ last \in [Cols -> (SUBSET Rows) \union {NeverRead}]
  BY DEF Init
<1>7. QED
  BY <1>2, <1>3, <1>4, <1>5, <1>6 DEF Init, TypeOK, SettleTicks, Quiet, Mouse, FastKey

(* Every variable keeps its range, whatever the hand, the serial line and  *)
(* the timer do in the middle of a scan.                                   *)
THEOREM TypeCorrect == Spec => []TypeOK
BY TypeInit, TypeStep, PTL DEF Spec

-----------------------------------------------------------------------------
(* A key event changes what is down by its own key. *)
LEMMA DownFacts ==
  ASSUME TypeOK, NEW r \in Rows, NEW c \in Cols
  PROVE  /\ keydown' = [keydown EXCEPT ![c] = @ \union {r}] => Down' = Down \union {<<r, c>>}
         /\ keydown' = [keydown EXCEPT ![c] = @ \ {r}] => Down' = Down \ {<<r, c>>}
         /\ keydown' = keydown => Down' = Down
<1>1. keydown \in [Cols -> SUBSET Rows]
  BY DEF TypeOK
<1>2. \A k \in Matrix : k[1] \in Rows /\ k[2] \in Cols /\ k = <<k[1], k[2]>>
  BY DEF Matrix
<1>3. <<r, c>> \in Matrix /\ <<r, c>>[1] = r /\ <<r, c>>[2] = c
  BY DEF Matrix
<1>4. ASSUME keydown' = [keydown EXCEPT ![c] = @ \union {r}], NEW k \in Matrix
      PROVE  k \in Down' <=> k \in Down \union {<<r, c>>}
  <2>1. CASE k[2] = c
    <3>1. keydown'[k[2]] = keydown[c] \union {r}
      BY <1>1, <1>4, <2>1
    <3>2. k = <<r, c>> <=> k[1] = r
      BY <1>2, <1>3, <2>1
    <3>3. QED
      BY <2>1, <3>1, <3>2 DEF Down
  <2>2. CASE k[2] # c
    <3>1. keydown'[k[2]] = keydown[k[2]] /\ k # <<r, c>>
      BY <1>1, <1>2, <1>3, <1>4, <2>2
    <3>2. QED
      BY <3>1 DEF Down
  <2>3. QED
    BY <2>1, <2>2
<1>5. ASSUME keydown' = [keydown EXCEPT ![c] = @ \ {r}], NEW k \in Matrix
      PROVE  k \in Down' <=> k \in Down \ {<<r, c>>}
  <2>1. CASE k[2] = c
    <3>1. keydown'[k[2]] = keydown[c] \ {r}
      BY <1>1, <1>5, <2>1
    <3>2. k = <<r, c>> <=> k[1] = r
      BY <1>2, <1>3, <2>1
    <3>3. QED
      BY <2>1, <3>1, <3>2 DEF Down
  <2>2. CASE k[2] # c
    <3>1. keydown'[k[2]] = keydown[k[2]] /\ k # <<r, c>>
      BY <1>1, <1>2, <1>3, <1>5, <2>2
    <3>2. QED
      BY <3>1 DEF Down
  <2>3. QED
    BY <2>1, <2>2
<1>6. Down \subseteq Matrix /\ Down' \subseteq Matrix
  BY DEF Down
<1>7. QED
  BY <1>3, <1>4, <1>5, <1>6 DEF Down

(* No key that has a hold action moves the mouse or clicks itself, as in   *)
(* the built-in key map, whose one such key zooms.                         *)
HoldKeysAreStill == \A k \in HoldKeys : ActionOf[KeyMap[k]] \notin Dirs \union Clicks

MouseInv == TypeOK /\ MouseFollowsKeys

(* A step that leaves motion, buttons and mode alone.                      *)
LEMMA MouseStays ==
  ASSUME MouseInv, UNCHANGED <<dir, clicks, arrows, keydown, carried>>
  PROVE  MouseFollowsKeys'
<1>1. Down' = Down
  BY DEF Down
<1>2. QED
  BY <1>1 DEF MouseInv, MouseFollowsKeys

(* A key going down: what starts to move or is clicked is its own, and a   *)
(* change of the mode carries what moves.                                  *)
LEMMA MouseOnDown ==
  ASSUME MouseInv, NEW k \in Matrix, Press("down", k), Down' = Down \union {k}
  PROVE  MouseFollowsKeys'
<1> DEFINE a == ActionOf[KeyMap[k]]
<1>1. SeqFor(KeyMap[k], "down") = KeyMap[k]
  BY DEF SeqFor, HoldFires
<1>2. /\ arrows' = IF a = "toggle" THEN NextArrows ELSE arrows
      /\ dir' = IF a \in Dirs /\ MovesMouse THEN [dir EXCEPT ![a] = step] ELSE dir
      /\ clicks' = IF a \notin Clicks THEN clicks ELSE clicks \union {a}
      /\ carried' = {d \in Dirs : dir'[d] > 0 /\ (d \in carried \/ arrows' # arrows)}
  BY <1>1 DEF Press, Motion, Carry
<1>3. dir \in [Dirs -> 0..(MaxMouseStep - 1)]
  BY DEF MouseInv, TypeOK
<1>4. "toggle" \notin Dirs
  BY DEF Dirs
<1> HIDE DEF a
<1>5. ASSUME NEW d \in Dirs \ carried', dir'[d] > 0
      PROVE  arrows' = Mouse /\ \E j \in Down' : ActionOf[KeyMap[j]] = d
  <2>1. d \notin carried /\ arrows' = arrows
    BY <1>2, <1>5
  <2>2. CASE a = d /\ MovesMouse
    BY <2>1, <2>2 DEF MovesMouse, a
  <2>3. CASE ~(a = d /\ MovesMouse)
    <3>1. dir'[d] = dir[d]
      BY <1>2, <1>3, <1>5, <2>3
    <3>2. arrows = Mouse /\ \E j \in Down : ActionOf[KeyMap[j]] = d
      BY <1>5, <2>1, <3>1 DEF MouseInv, MouseFollowsKeys
    <3>3. QED
      BY <2>1, <3>2
  <2>4. QED
    BY <2>2, <2>3
<1>6. ASSUME NEW b \in clicks'
      PROVE  \E j \in Down' : ActionOf[KeyMap[j]] = b
  <2>1. CASE b \in clicks
    BY <2>1 DEF MouseInv, MouseFollowsKeys
  <2>2. CASE b \notin clicks
    BY <1>2, <1>6, <2>2 DEF a
  <2>3. QED
    BY <2>1, <2>2
<1>7. QED
  BY <1>5, <1>6 DEF MouseFollowsKeys

(* A key let go takes its motion and its button with it, because a hold    *)
(* action never stands in for an arrow or a button.                        *)
LEMMA MouseOnUp ==
  ASSUME HoldKeysAreStill, MouseInv, NEW k \in Matrix, Press("up", k), Down' = Down \ {k}
  PROVE  MouseFollowsKeys'
<1> DEFINE a == ActionOf[SeqFor(KeyMap[k], "up")]
<1>1. /\ arrows' = arrows
      /\ dir' = IF a \in Dirs /\ MovesMouse THEN [dir EXCEPT ![a] = 0] ELSE dir
      /\ clicks' = IF a \notin Clicks THEN clicks ELSE clicks \ {a}
      /\ carried' = {d \in Dirs : dir'[d] > 0 /\ d \in carried}
  BY DEF Press, Motion, Carry
<1>2. ActionOf[KeyMap[k]] \in Dirs \union Clicks => a = ActionOf[KeyMap[k]]
  BY DEF HoldKeysAreStill, HoldKeys, SeqFor, HoldFires
<1>3. dir \in [Dirs -> 0..(MaxMouseStep - 1)] /\ clicks \subseteq Clicks
  BY DEF MouseInv, TypeOK
<1>4. \A d \in Dirs : d \notin Clicks
  BY DEF Dirs, Clicks
<1> HIDE DEF a
<1>5. ASSUME NEW d \in Dirs \ carried', dir'[d] > 0
      PROVE  arrows' = Mouse /\ \E j \in Down' : ActionOf[KeyMap[j]] = d
  <2>1. d \notin carried
    BY <1>1, <1>5
  <2>2. dir[d] > 0 /\ ~(a = d /\ MovesMouse)
    BY <1>1, <1>3, <1>5
  <2>3. arrows = Mouse
    BY <1>5, <2>1, <2>2 DEF MouseInv, MouseFollowsKeys
  <2>4. PICK j \in Down : ActionOf[KeyMap[j]] = d
    BY <1>5, <2>1, <2>2 DEF MouseInv, MouseFollowsKeys
  <2>5. j # k
    BY <1>2, <1>5, <2>2, <2>3, <2>4 DEF MovesMouse
  <2>6. QED
    BY <1>1, <2>3, <2>4, <2>5
<1>6. ASSUME NEW b \in clicks'
      PROVE  \E j \in Down' : ActionOf[KeyMap[j]] = b
  <2>1. b \in clicks /\ b \in Clicks /\ a # b
    BY <1>1, <1>3, <1>6
  <2>2. PICK j \in Down : ActionOf[KeyMap[j]] = b
    BY <2>1 DEF MouseInv, MouseFollowsKeys
  <2>3. j # k
    BY <1>2, <2>1, <2>2
  <2>4. QED
    BY <2>2, <2>3
<1>7. QED
  BY <1>5, <1>6 DEF MouseFollowsKeys

(* No step leaves a motion or a button without its key. *)
LEMMA FollowStep ==
  ASSUME HoldKeysAreStill
  PROVE  MouseInv /\ [Next]_vars => MouseInv'
<1> SUFFICES ASSUME MouseInv, [Next]_vars PROVE MouseFollowsKeys'
  BY TypeStep DEF MouseInv
<1>1. CASE Hand
  BY <1>1, MouseStays DEF Hand, matrixVars, effectVars
<1>2. CASE Tick
  BY <1>2, MouseStays DEF Tick
<1>3. ASSUME NEW a \in ArrowsSet, SetArrows(a) PROVE MouseFollowsKeys'
  <2>1. UNCHANGED <<dir, clicks, keydown>> /\ Carry
    BY <1>3 DEF SetArrows, matrixVars
  <2>2. Down' = Down
    BY <2>1 DEF Down
  <2>3. ASSUME NEW d \in Dirs \ carried', dir'[d] > 0
        PROVE  d \notin carried /\ arrows' = arrows /\ dir[d] > 0
    BY <2>1, <2>3 DEF Carry
  <2>4. QED
    BY <2>1, <2>2, <2>3 DEF MouseInv, MouseFollowsKeys
<1>4. ASSUME NEW s \in Sizes, SetSize(s) PROVE MouseFollowsKeys'
  BY <1>4, MouseStays DEF SetSize, matrixVars
<1>5. CASE SetCols \/ Settled \/ ReadRows
  BY <1>5, MouseStays DEF SetCols, Settled, ReadRows, effectVars
<1>6. CASE SkipColumn \/ NoEdge \/ TriggerDone
  BY <1>6, MouseStays DEF SkipColumn, NoEdge, TriggerDone
<1>7. CASE KeyDown
  <2>1. row \in Rows /\ tcol \in Cols /\ <<row, tcol>> \in Matrix
    BY <1>7, AtFacts DEF MouseInv, KeyDown, Advance
  <2>2. Down' = Down \union {<<row, tcol>>} /\ Press("down", <<row, tcol>>)
    BY <1>7, <2>1, DownFacts DEF MouseInv, KeyDown
  <2>3. QED
    BY <2>1, <2>2, MouseOnDown
<1>8. CASE KeyUp
  <2>1. row \in Rows /\ tcol \in Cols /\ <<row, tcol>> \in Matrix
    BY <1>8, AtFacts DEF MouseInv, KeyUp, Advance
  <2>2. Down' = Down \ {<<row, tcol>>} /\ Press("up", <<row, tcol>>)
    BY <1>8, <2>1, DownFacts DEF MouseInv, KeyUp
  <2>3. QED
    BY <2>1, <2>2, MouseOnUp
<1>9. CASE UNCHANGED vars
  BY <1>9, MouseStays DEF vars, matrixVars, effectVars
<1>10. QED
  BY <1>1, <1>2, <1>3, <1>4, <1>5, <1>6, <1>7, <1>8, <1>9 DEF Next, Poll, Trigger

(* At first nothing moves. *)
LEMMA FollowInit == Init => MouseInv
<1>1. Init => MouseFollowsKeys
  BY DEF Init, MouseFollowsKeys
<1>2. QED
  BY <1>1, TypeInit DEF MouseInv

(* The mouse moves, and its buttons are down, only under a key that says   *)
(* so, for every key map whose hold keys are not themselves arrows or      *)
(* buttons: of all that the two modes, the serial line and a mode change   *)
(* in the middle of a press can do, only the carried motion is left.       *)
THEOREM MouseStopsWithKeys ==
  ASSUME HoldKeysAreStill
  PROVE  Spec => []MouseFollowsKeys
<1>1. MouseInv => MouseFollowsKeys
  BY DEF MouseInv
<1>2. QED
  BY <1>1, FollowInit, FollowStep, PTL DEF Spec

-----------------------------------------------------------------------------
(* last_hold is the time of the last press of any hold key, so no key of   *)
(* them was pressed after it; a single one was pressed just then.          *)
HoldInv ==
    /\ TypeOK
    /\ \A k \in HoldKeys : held <= since[k]
    /\ (\A j, k \in HoldKeys : j = k) => \A k \in HoldKeys : since[k] = held

(* The history of hold times and last_hold agree at every step. *)
LEMMA HoldStep == HoldInv /\ [Next]_vars => HoldInv'
<1> SUFFICES ASSUME HoldInv, [Next]_vars
             PROVE  /\ \A k \in HoldKeys : held' <= since'[k]
                    /\ (\A j, k \in HoldKeys : j = k) => \A k \in HoldKeys : since'[k] = held'
  BY TypeStep DEF HoldInv
<1>1. /\ held \in 0..MaxHeld /\ since \in [HoldKeys -> 0..MaxHeld] /\ MaxHeld \in Nat
      /\ \A k \in HoldKeys : held <= since[k]
      /\ (\A j, k \in HoldKeys : j = k) => \A k \in HoldKeys : since[k] = held
  BY KeypadAssumption DEF HoldInv, TypeOK
<1>2. CASE UNCHANGED <<held, since>>
  BY <1>1, <1>2
<1>3. CASE Tick
  BY <1>1, <1>3 DEF Tick, Later
<1>4. CASE KeyDown
  <2>1. at = <<row, tcol>> /\ at \in Matrix
    BY <1>4, AtFacts DEF HoldInv, KeyDown, Advance
  <2>2. /\ held' = IF KeyMap[at] \in HoldSeqs THEN 0 ELSE held
        /\ since' = [k \in HoldKeys |-> IF k = at THEN 0 ELSE since[k]]
    BY <1>4, <2>1 DEF KeyDown, Press
  <2>3. CASE at \in HoldKeys
    BY <1>1, <2>2, <2>3 DEF HoldKeys
  <2>4. CASE at \notin HoldKeys
    BY <1>1, <2>1, <2>2, <2>4 DEF HoldKeys
  <2>5. QED
    BY <2>3, <2>4
<1>5. CASE KeyUp
  BY <1>2, <1>5 DEF KeyUp, Press
<1>6. CASE ~Tick /\ ~KeyDown /\ ~KeyUp
  <2>1. UNCHANGED <<held, since>>
    BY <1>6 DEF Next, Poll, Trigger, Hand, SetArrows, SetSize, SetCols, Settled, ReadRows,
                SkipColumn, NoEdge, TriggerDone, effectVars, vars
  <2>2. QED
    BY <1>2, <2>1
<1>7. QED
  BY <1>3, <1>4, <1>5, <1>6

(* What press() does with the hold action of a key it reports up. *)
LEMMA UpFacts ==
  ASSUME HoldInv, [Next]_vars, event'.edge = "up", event' # event
  PROVE  /\ event'.key \in Matrix /\ UNCHANGED since
         /\ event'.held = HoldFires(KeyMap[event'.key], "up")
<1>1. CASE KeyUp
  <2>1. at = <<row, tcol>> /\ at \in Matrix /\ Press("up", at) /\ UNCHANGED since
    BY <1>1, AtFacts DEF HoldInv, KeyUp, Advance
  <2>2. event'.key = at /\ event'.held = HoldFires(KeyMap[at], "up")
    BY <2>1 DEF Press
  <2>3. QED
    BY <2>1, <2>2
<1>2. CASE KeyDown
  BY <1>2 DEF KeyDown, Press
<1>3. CASE ~KeyUp /\ ~KeyDown
  <2>1. event' = event \/ event' = Quiet
    BY <1>3 DEF Next, Poll, Trigger, Hand, Tick, SetArrows, SetSize, SetCols, Settled, ReadRows,
                SkipColumn, NoEdge, TriggerDone, effectVars, vars
  <2>2. QED
    BY <2>1 DEF Quiet
<1>4. QED
  BY <1>1, <1>2, <1>3

(* The hold keys start with a time beyond every maximum. *)
LEMMA HoldInit == Init => HoldInv
<1>1. Init => held = MaxHeld /\ \A k \in HoldKeys : since[k] = MaxHeld
  BY DEF Init
<1>2. MaxHeld \in Nat
  BY KeypadAssumption
<1>3. QED
  BY <1>1, <1>2, TypeInit DEF HoldInv

(* With one hold key on the pad, as in the built-in key map, its hold      *)
(* action runs exactly if it was itself held for between the two times,    *)
(* whatever other keys are pressed meanwhile (press, last_hold).           *)
THEOREM HoldMeasuresItsKey ==
  ASSUME \A j, k \in HoldKeys : j = k
  PROVE  Spec => HoldActionInTime
<1>1. ASSUME HoldInv, [Next]_vars, event'.edge = "up", event'.key \in HoldKeys, event' # event
      PROVE  event'.held <=> since[event'.key] \in HoldOf[KeyMap[event'.key]].min
                                                  ..HoldOf[KeyMap[event'.key]].max
  <2>1. since[event'.key] = held
    BY <1>1 DEF HoldInv
  <2>2. event'.held = HoldFires(KeyMap[event'.key], "up")
    BY <1>1, UpFacts
  <2>3. KeyMap[event'.key] \in HoldSeqs
    BY <1>1 DEF HoldKeys
  <2>4. QED
    BY <2>1, <2>2, <2>3 DEF HoldFires
<1>2. HoldInv /\ [Next]_vars =>
        [event'.edge = "up" /\ event'.key \in HoldKeys /\ event' # event =>
           LET h == HoldOf[KeyMap[event'.key]]
           IN  event'.held <=> since[event'.key] \in h.min..h.max]_vars
  BY <1>1
<1>3. QED
  BY <1>2, HoldInit, HoldStep, PTL DEF Spec, HoldActionInTime

(* A hold action never runs before its key was held for the minimum time.  *)
HoldNotEarly ==
    [][event'.edge = "up" /\ event'.key \in HoldKeys /\ event'.held /\ event' # event =>
         since[event'.key] >= HoldOf[KeyMap[event'.key]].min]_vars

(* However many keys have a hold action and share last_hold: a press of    *)
(* another can only make the measured time too short.                      *)
THEOREM HoldNeverTooEarly == Spec => HoldNotEarly
<1>1. ASSUME HoldInv, [Next]_vars, event'.edge = "up", event'.key \in HoldKeys, event'.held,
             event' # event
      PROVE  since[event'.key] >= HoldOf[KeyMap[event'.key]].min
  <2>1. held <= since[event'.key] /\ held \in Nat /\ since[event'.key] \in Nat
    BY <1>1, KeypadAssumption DEF HoldInv, TypeOK
  <2>2. HoldFires(KeyMap[event'.key], "up")
    BY <1>1, UpFacts
  <2>3. /\ KeyMap[event'.key] \in HoldSeqs
        /\ HoldOf[KeyMap[event'.key]].min <= held
        /\ HoldOf[KeyMap[event'.key]].min \in Nat
    BY <2>1, <2>2, KeypadAssumption DEF HoldFires
  <2> DEFINE m == HoldOf[KeyMap[event'.key]].min
             t == since[event'.key]
  <2> HIDE DEF m, t
  <2>4. m <= held /\ held <= t /\ m \in Nat /\ held \in Nat /\ t \in Nat
    BY <2>1, <2>3, Zenon DEF m, t
  <2>5. t >= m
    BY <2>4
  <2>6. QED
    BY <2>5, Zenon DEF m, t
<1>2. HoldInv /\ [Next]_vars =>
        [event'.edge = "up" /\ event'.key \in HoldKeys /\ event'.held /\ event' # event =>
           since[event'.key] >= HoldOf[KeyMap[event'.key]].min]_vars
  BY <1>1
<1>3. QED
  BY <1>2, HoldInit, HoldStep, PTL DEF Spec, HoldNotEarly
-----------------------------------------------------------------------------
(* Every step of the whole is a step of the keypad or leaves it alone. *)
LEMMA NavIsPad == [NavNext]_navVars => [Next]_vars
<1> SUFFICES ASSUME [NavNext]_navVars PROVE [Next]_vars
  OBVIOUS
<1>1. CASE HandMoves \/ TimerTicks
  BY <1>1 DEF HandMoves, TimerTicks, Next
<1>2. ASSUME NEW a \in ArrowsSet, MenuSetsArrows(a) PROVE [Next]_vars
  BY <1>2 DEF MenuSetsArrows, Next
<1>3. CASE Bus \/ UsbTask
  BY <1>3 DEF Bus, UsbTask
<1>4. CASE PadPoll
  BY <1>4 DEF PadPoll, KeyEvent, QuietPoll, Next, Poll, Trigger
<1>5. CASE UNCHANGED navVars
  BY <1>5 DEF navVars
<1>6. QED
  BY <1>1, <1>2, <1>3, <1>4, <1>5 DEF NavNext, MainLoop

(* What holds of the keypad alone holds of it in the main loop, where the  *)
(* HID task and the bus come between its steps: the mouse never moves      *)
(* without its key.                                                        *)
THEOREM MouseStopsInLoop ==
  ASSUME HoldKeysAreStill
  PROVE  NavSpec => []MouseFollowsKeys
<1>1. NavInit => MouseInv
  BY FollowInit DEF NavInit
<1>2. MouseInv /\ [NavNext]_navVars => MouseInv'
  BY FollowStep, NavIsPad
<1>3. MouseInv => MouseFollowsKeys
  BY DEF MouseInv
<1>4. QED
  BY <1>1, <1>2, <1>3, PTL DEF NavSpec

(* With every key reported up, and nothing carried over a change of the    *)
(* mode, there is no motion and no button to report.                       *)
MouseRests == Down = {} /\ carried = {} => MouseNow = {}

(* Letting go of the keys is enough to still the mouse the HID task reads: *)
(* no hand, scan, mode change or report leaves a motion in MOUSE that no   *)
(* key is down for, so that the next mouse report is one of rest (press,   *)
(* get_mouse_status).                                                      *)
THEOREM MouseRestsInLoop ==
  ASSUME HoldKeysAreStill
  PROVE  NavSpec => []MouseRests
<1>1. TypeOK /\ MouseFollowsKeys => MouseRests
  <2> SUFFICES ASSUME TypeOK, MouseFollowsKeys, Down = {}, carried = {} PROVE MouseNow = {}
    BY DEF MouseRests
  <2>1. {d \in Dirs : dir[d] > 0} = {} /\ clicks = {}
    BY DEF MouseFollowsKeys
  <2>2. QED
    BY <2>1 DEF MouseNow, MouseOf
<1>2. NavInit => TypeOK
  BY TypeInit DEF NavInit
<1>3. TypeOK /\ [NavNext]_navVars => TypeOK'
  BY TypeStep, NavIsPad
<1>4. NavSpec => []TypeOK
  BY <1>2, <1>3, PTL DEF NavSpec
<1>5. QED
  BY <1>1, <1>4, MouseStopsInLoop, PTL

-----------------------------------------------------------------------------
(* How often a position can still be reported down, and up, if the hand    *)
(* does not close it again: what was read closed, or will be, and is not   *)
(* reported yet; what is reported down and will be read open first.        *)
Read(k) == k[1] \in keystate[k[2]]
DownsToCome(k) ==
    IF \/ k \notin Down /\ (Read(k) \/ k \in pins)
       \/ k \in Down /\ ~Read(k) /\ k \in pins
      THEN 1 ELSE 0
UpsToCome(k) == DownsToCome(k) + (IF k \in Down THEN 1 ELSE 0)

(* The presses that may yet come of a position. *)
Owed(k) == DownsToCome(k) + (IF SendsOnRelease(k) THEN UpsToCome(k) ELSE 0)

WarrantInv ==
    /\ TypeOK
    /\ due \in [Matrix -> Int]
    /\ \A k \in Matrix : due[k] >= Owed(k)

(* A position whose reading, report and switch stay owes what it owed. *)
LEMMA OwedStays ==
  ASSUME NEW k \in Matrix,
         k \in Down' <=> k \in Down, Read(k)' <=> Read(k), k \in pins' => k \in pins
  PROVE  Owed(k)' <= Owed(k)
BY DEF Owed, DownsToCome, UpsToCome, SendsOnRelease

(* A key that does not send on its release queues nothing then, nor does   *)
(* its hold action.                                                        *)
LEMMA SilentUp ==
  ASSUME NEW k \in Matrix, Press("up", k), ~SendsOnRelease(k)
  PROVE  event'.sent = << >>
<1> DEFINE s == SeqFor(KeyMap[k], "up")
<1>1. ActionOf[s] \notin Dirs
  BY DEF SendsOnRelease, SeqFor, HoldFires, HoldKeys
<1>2. event'.sent = Sent(s, "up")
  BY DEF Press
<1> HIDE DEF s
<1>3. Sent(s, "up") = << >>
  BY <1>1 DEF Sent
<1>4. QED
  BY <1>2, <1>3

(* What a key event counts. *)
LEMMA DueAfterEvent ==
  ASSUME TypeOK, due \in [Matrix -> Int], NEW j \in Matrix, NEW edge, Press(edge, j),
         due' = [due EXCEPT ![event'.key] = IF event'.sent = << >> THEN @ ELSE @ - 1]
  PROVE  /\ due' \in [Matrix -> Int]
         /\ \A k \in Matrix : k # j => due'[k] = due[k]
         /\ due'[j] \in {due[j], due[j] - 1}
         /\ event'.sent = << >> => due'[j] = due[j]
<1>1. event'.key = j
  BY PressType
<1>2. \/ due' = [due EXCEPT ![j] = @] /\ event'.sent = << >>
      \/ due' = [due EXCEPT ![j] = @ - 1] /\ event'.sent # << >>
  BY <1>1
<1>3. CASE due' = [due EXCEPT ![j] = @] /\ event'.sent = << >>
  BY <1>3
<1>4. CASE due' = [due EXCEPT ![j] = @ - 1] /\ event'.sent # << >>
  BY <1>4
<1>5. QED
  BY <1>2, <1>3, <1>4

(* What is due always covers what is owed.                                 *)
LEMMA WarrantStep == WarrantInv /\ [NavNext]_navVars => WarrantInv'
<1> SUFFICES ASSUME WarrantInv, [NavNext]_navVars
             PROVE  due' \in [Matrix -> Int] /\ \A k \in Matrix : due'[k] >= Owed(k)'
  BY NavIsPad, TypeStep DEF WarrantInv
<1>0. /\ TypeOK /\ due \in [Matrix -> Int]
      /\ \A k \in Matrix : due[k] >= Owed(k) /\ due[k] \in Int
  BY DEF WarrantInv
<1>01. \A k \in Matrix : Owed(k) \in Int /\ Owed(k)' \in Int
  BY DEF Owed, DownsToCome, UpsToCome
<1>02. ASSUME UNCHANGED due,
             \A k \in Matrix : /\ k \in Down' <=> k \in Down
                               /\ Read(k)' <=> Read(k)
                               /\ k \in pins' => k \in pins
      PROVE  due' \in [Matrix -> Int] /\ \A k \in Matrix : due'[k] >= Owed(k)'
  <2>1. \A k \in Matrix : Owed(k)' <= Owed(k)
    BY <1>02, OwedStays
  <2> HIDE DEF Owed
  <2>2. QED
    BY <1>0, <1>01, <1>02, <2>1
<1>03. UNCHANGED <<keystate, keydown>> =>
        \A k \in Matrix : (k \in Down' <=> k \in Down) /\ (Read(k)' <=> Read(k))
  BY DEF Down, Read
<1>1. CASE HandMoves
  <2>1. /\ UNCHANGED <<keystate, keydown>>
        /\ due' = [k \in Matrix |-> IF k \in pins' \ pins THEN Warrant(k) ELSE due[k]]
    BY <1>1 DEF HandMoves, Hand, matrixVars
  <2>2. \A k \in Matrix : Warrant(k) \in Int
    BY DEF Warrant
  <2>3. ASSUME NEW k \in Matrix PROVE due'[k] >= Owed(k)'
    <3>1. (k \in Down' <=> k \in Down) /\ (Read(k)' <=> Read(k))
      BY <1>03, <2>1
    <3>2. CASE k \in pins' \ pins
      <4>1. due'[k] = Warrant(k)
        BY <2>1, <3>2
      <4>2. Warrant(k) >= Owed(k)'
        BY <3>1 DEF Warrant, Owed, DownsToCome, UpsToCome, SendsOnRelease
      <4>3. QED
        BY <4>1, <4>2
    <3>3. CASE k \notin pins' \ pins
      <4>1. due'[k] = due[k]
        BY <2>1, <3>3
      <4>2. Owed(k)' <= Owed(k)
        BY <3>1, <3>3, OwedStays
      <4> HIDE DEF Owed
      <4>3. QED
        BY <1>0, <1>01, <4>1, <4>2
    <3>4. QED
      BY <3>2, <3>3
  <2>4. QED
    BY <1>0, <2>1, <2>2, <2>3
<1>2. CASE TimerTicks
  BY <1>02, <1>03, <1>2 DEF TimerTicks, Tick
<1>3. ASSUME NEW a \in ArrowsSet, MenuSetsArrows(a)
      PROVE  due' \in [Matrix -> Int] /\ \A k \in Matrix : due'[k] >= Owed(k)'
  BY <1>02, <1>03, <1>3 DEF MenuSetsArrows, SetArrows, matrixVars
<1>4. CASE Bus \/ UsbTask \/ UNCHANGED navVars
  BY <1>02, <1>03, <1>4 DEF Bus, UsbTask, navVars, vars, matrixVars
<1>5. CASE KeyEvent /\ KeyDown
  <2>1. /\ row \in Rows /\ tcol \in Cols /\ <<row, tcol>> \in Matrix
        /\ Press("down", <<row, tcol>>)
        /\ row \in keystate[tcol] /\ row \notin keydown[tcol]
        /\ keydown' = [keydown EXCEPT ![tcol] = @ \union {row}]
        /\ UNCHANGED <<pins, keystate>>
    BY <1>0, <1>5, AtFacts DEF KeyDown, Advance
  <2>2. due' = [due EXCEPT ![event'.key] = IF event'.sent = << >> THEN @ ELSE @ - 1]
    BY <1>5 DEF KeyEvent
  <2>3. PICK j \in Matrix : j = <<row, tcol>> /\ Down' = Down \union {j}
    BY <1>0, <2>1, DownFacts
  <2>4. j \notin Down /\ Read(j) /\ Press("down", j)
    BY <2>1, <2>3 DEF Down, Read
  <2>5. \A k \in Matrix : (Read(k)' <=> Read(k)) /\ (k \in pins' <=> k \in pins)
    BY <2>1 DEF Read
  <2>6. /\ due' \in [Matrix -> Int] /\ due'[j] \in {due[j], due[j] - 1}
        /\ \A k \in Matrix : k # j => due'[k] = due[k]
    BY <1>0, <2>2, <2>4, DueAfterEvent
  <2>7. Owed(j)' <= Owed(j) - 1
    <3>1. j \in Down' /\ j \notin Down /\ Read(j)' /\ Read(j)
      BY <2>3, <2>4, <2>5
    <3>2. DownsToCome(j) = 1 /\ DownsToCome(j)' = 0
      BY <3>1 DEF DownsToCome
    <3>3. UpsToCome(j) = 1 /\ UpsToCome(j)' = 1
      BY <3>1, <3>2 DEF UpsToCome
    <3>4. QED
      BY <3>2, <3>3 DEF Owed, SendsOnRelease
  <2>8. \A k \in Matrix : k # j => Owed(k)' <= Owed(k)
    BY <2>3, <2>5, OwedStays
  <2> HIDE DEF Owed
  <2>9. ASSUME NEW k \in Matrix PROVE due'[k] >= Owed(k)'
    <3>1. /\ Owed(k) \in Int /\ Owed(k)' \in Int /\ due[k] \in Int /\ due[k] >= Owed(k)
      BY <1>0, <1>01
    <3>2. CASE k = j
      BY <2>4, <2>6, <2>7, <3>1, <3>2
    <3>3. CASE k # j
      BY <2>6, <2>8, <3>1, <3>3
    <3>4. QED
      BY <3>2, <3>3
  <2>10. QED
    BY <2>6, <2>9
<1>6. CASE KeyEvent /\ KeyUp
  <2>1. /\ row \in Rows /\ tcol \in Cols /\ <<row, tcol>> \in Matrix
        /\ Press("up", <<row, tcol>>)
        /\ row \notin keystate[tcol] /\ row \in keydown[tcol]
        /\ keydown' = [keydown EXCEPT ![tcol] = @ \ {row}]
        /\ UNCHANGED <<pins, keystate>>
    BY <1>0, <1>6, AtFacts DEF KeyUp, Advance
  <2>2. due' = [due EXCEPT ![event'.key] = IF event'.sent = << >> THEN @ ELSE @ - 1]
    BY <1>6 DEF KeyEvent
  <2>3. PICK j \in Matrix : j = <<row, tcol>> /\ Down' = Down \ {j}
    BY <1>0, <2>1, DownFacts
  <2>4. j \in Down /\ ~Read(j) /\ Press("up", j)
    BY <2>1, <2>3 DEF Down, Read
  <2>5. \A k \in Matrix : (Read(k)' <=> Read(k)) /\ (k \in pins' <=> k \in pins)
    BY <2>1 DEF Read
  <2>6. /\ due' \in [Matrix -> Int] /\ due'[j] \in {due[j], due[j] - 1}
        /\ \A k \in Matrix : k # j => due'[k] = due[k]
        /\ event'.sent = << >> => due'[j] = due[j]
    BY <1>0, <2>2, <2>4, DueAfterEvent
  <2>7. Owed(j)' = IF SendsOnRelease(j) THEN Owed(j) - 1 ELSE Owed(j)
    <3>1. j \notin Down' /\ j \in Down /\ ~Read(j)' /\ ~Read(j) /\ (j \in pins' <=> j \in pins)
      BY <2>3, <2>4, <2>5
    <3>2. DownsToCome(j)' = DownsToCome(j) /\ DownsToCome(j) \in {0, 1}
      BY <3>1 DEF DownsToCome
    <3>3. UpsToCome(j) = DownsToCome(j) + 1 /\ UpsToCome(j)' = DownsToCome(j)
      BY <3>1, <3>2 DEF UpsToCome
    <3>4. QED
      BY <3>2, <3>3 DEF Owed, SendsOnRelease
  <2>8. ~SendsOnRelease(j) => due'[j] = due[j]
    BY <2>4, <2>6, SilentUp
  <2>9. \A k \in Matrix : k # j => Owed(k)' <= Owed(k)
    BY <2>3, <2>5, OwedStays
  <2> HIDE DEF Owed, SendsOnRelease
  <2>10. ASSUME NEW k \in Matrix PROVE due'[k] >= Owed(k)'
    <3>1. /\ Owed(k) \in Int /\ Owed(k)' \in Int /\ due[k] \in Int /\ due[k] >= Owed(k)
      BY <1>0, <1>01
    <3>2. CASE k = j
      BY <2>4, <2>6, <2>7, <2>8, <3>1, <3>2
    <3>3. CASE k # j
      BY <2>6, <2>9, <3>1, <3>3
    <3>4. QED
      BY <3>2, <3>3
  <2>11. QED
    BY <2>6, <2>10
<1>7. CASE ReadRows /\ UNCHANGED due
  <2>1. /\ keystate' = [keystate EXCEPT ![col] = {r \in Rows : <<r, col>> \in pins}]
        /\ UNCHANGED <<pins, keydown>> /\ keystate \in [Cols -> SUBSET Rows]
    BY <1>0, <1>7 DEF ReadRows, TypeOK
  <2>2. ASSUME NEW k \in Matrix PROVE Owed(k)' <= Owed(k)
    <3>1. k \in Down' <=> k \in Down
      BY <2>1 DEF Down
    <3>2. k[1] \in Rows /\ k[2] \in Cols /\ k = <<k[1], k[2]>>
      BY DEF Matrix
    <3>3. CASE k[2] = col
      <4>1. Read(k)' <=> k \in pins
        BY <2>1, <3>2, <3>3 DEF Read
      <4>2. QED
        BY <2>1, <3>1, <4>1 DEF Owed, DownsToCome, UpsToCome, SendsOnRelease
    <3>4. CASE k[2] # col
      <4>1. Read(k)' <=> Read(k)
        BY <2>1, <3>2, <3>4 DEF Read
      <4>2. QED
        BY <2>1, <3>1, <4>1, OwedStays
    <3>5. QED
      BY <3>3, <3>4
  <2> HIDE DEF Owed
  <2>3. QED
    BY <1>0, <1>01, <1>7, <2>2
<1>8. CASE PadPoll /\ ~KeyEvent /\ ~ReadRows
  BY <1>02, <1>03, <1>8
     DEF PadPoll, QuietPoll, SetCols, Settled, SkipColumn, NoEdge, Advance, TriggerDone,
         vars, matrixVars
<1>9. CASE PadPoll
  <2>1. KeyEvent => KeyDown \/ KeyUp
    BY DEF KeyEvent
  <2>2. ReadRows => ~KeyDown /\ ~KeyUp
    BY DEF ReadRows, KeyDown, KeyUp, Advance, InColumn
  <2>3. ReadRows => UNCHANGED due
    BY <1>9, <2>1, <2>2 DEF PadPoll, QuietPoll
  <2>4. QED
    BY <1>5, <1>6, <1>7, <1>8, <1>9, <2>1, <2>3
<1>10. QED
  BY <1>1, <1>2, <1>3, <1>4, <1>9 DEF NavNext, MainLoop

(* The host never sees more presses of a key than the hand's closings of   *)
(* it warrant: for every key map, with or without hold actions, a switch   *)
(* that closes and opens in the middle of the scan, before its column is   *)
(* read or while its edge is still to be reported, is not typed twice      *)
(* (poll, trigger, press).                                                 *)
THEOREM NoPressWithoutHand == NavSpec => []NoPhantomPress
<1>1. NavInit => WarrantInv
  <2> SUFFICES ASSUME NavInit PROVE WarrantInv
    OBVIOUS
  <2>1. TypeOK /\ due = [k \in Matrix |-> 0]
    BY TypeInit DEF NavInit
  <2>2. Down = {} /\ pins = {} /\ \A k \in Matrix : ~Read(k)
    BY DEF NavInit, Init, Down, Read, Matrix
  <2>3. \A k \in Matrix : Owed(k) = 0
    BY <2>2 DEF Owed, DownsToCome, UpsToCome
  <2>4. QED
    BY <2>1, <2>3 DEF WarrantInv
<1>2. WarrantInv => NoPhantomPress
  <2>1. \A k \in Matrix : Owed(k) \in Nat
    BY DEF Owed, DownsToCome, UpsToCome
  <2> HIDE DEF Owed
  <2>2. QED
    BY <2>1 DEF WarrantInv, NoPhantomPress
<1>3. QED
  BY <1>1, <1>2, WarrantStep, PTL DEF NavSpec

-----------------------------------------------------------------------------
(* What HidReport assumes of its parameters holds of the keypad's keys and *)
(* motions.                                                                *)
LEMMA HidParameters == H!HidAssumption
<1>1. Keys \subseteq ((0..255) \X (0..255)) \ {<<0, 0>>}
  <2>1. \A s \in Seqs : KeyPress[s][1] \in Keypairs /\ KeyPress[s][2] \in Keypairs
    BY NavAssumption
  <2>2. QED
    BY <2>1, NavAssumption DEF Keys, Keypairs
<1>2. ASSUME NEW ds \in SUBSET Dirs, NEW bs \in SUBSET Clicks
      PROVE  MouseOf(ds, bs) \subseteq {"up", "down", "left", "right", "lclick", "rclick"}
  <2>1. \A d \in ds : d \in {"mouse_up", "mouse_down", "mouse_left", "mouse_right"}
    BY DEF Dirs
  <2>2. \A b \in bs \ {"click_middle"} : b \in {"click_left", "click_right"}
    BY DEF Clicks
  <2>3. QED
    BY <2>1, <2>2 DEF MouseOf
<1>3. Moves \subseteq SUBSET {"up", "down", "left", "right", "lclick", "rclick"}
  BY <1>2 DEF Moves
<1>4. {} \in Moves
  <2>1. MouseOf({}, {}) = {}
    BY DEF MouseOf
  <2>2. QED
    BY <2>1 DEF Moves
<1>5. QED
  BY <1>1, <1>3, <1>4, NavAssumption DEF H!HidAssumption, H!Moving, H!ZeroKey

(* Hid, and the HidReport that the instance of its proofs extends, are the *)
(* same: they start in the same states.                                    *)
LEMMA SameInit == Hid!Init <=> H!Init
BY DEF Hid!Init, H!Init, Hid!Empty, H!Empty, Hid!Zeros, H!Zeros, Hid!ZeroKey, H!ZeroKey

(* And they take the same steps. *)
LEMMA SameNext == [Hid!Next]_(Hid!vars) <=> [H!Next]_(H!vars)
BY DEF Hid!Next, H!Next, Hid!Bursts, H!Bursts, Hid!Pressed, H!Pressed,
       Hid!Task, H!Task, Hid!StartTask, H!StartTask, Hid!Fill, H!Fill,
       Hid!Create, H!Create, Hid!Reports, H!Reports, Hid!KeyReport,
       H!KeyReport, Hid!MouseReport, H!MouseReport, Hid!Amount, H!Amount,
       Hid!Compare, H!Compare, Hid!Forced, H!Forced, Hid!Write, H!Write,
       Hid!IsPress, H!IsPress, Hid!Settled, H!Settled, Hid!Receive,
       H!Receive, Hid!KeyOf, H!KeyOf, Hid!Host, H!Host, Hid!NextFrame,
       H!NextFrame, Hid!PollEndpoint, H!PollEndpoint, Hid!Configure,
       H!Configure, Hid!BusReset, H!BusReset, Hid!GetReport, H!GetReport,
       Hid!MayControl, H!MayControl, Hid!Zeros, H!Zeros, Hid!Empty, H!Empty,
       Hid!ZeroKey, H!ZeroKey, Hid!vars, H!vars, Hid!taskVars, H!taskVars,
       Hid!usbVars, H!usbVars, Hid!hostVars, H!hostVars

-----------------------------------------------------------------------------
(* Only what some key can do moves the mouse or clicks.                    *)
MotionInv ==
    /\ \A d \in Dirs : dir[d] > 0 => d \in Actable
    /\ clicks \subseteq Actable

(* A key event does what the key says, or its hold action. *)
LEMMA MotionOnPress ==
  ASSUME TypeOK, MotionInv, NEW edge, NEW k \in Matrix, Press(edge, k)
  PROVE  MotionInv'
<1> DEFINE a == ActionOf[SeqFor(KeyMap[k], edge)]
<1>1. a \in Actable
  BY DEF Actable, SeqFor, HoldFires, HoldKeys
<1>2. /\ dir' = IF a \in Dirs /\ MovesMouse
                  THEN [dir EXCEPT ![a] = Motion(edge = "down")]
                  ELSE dir
      /\ clicks' = IF a \notin Clicks THEN clicks
                   ELSE IF edge = "down" THEN clicks \union {a} ELSE clicks \ {a}
  BY DEF Press
<1>3. dir \in [Dirs -> 0..(MaxMouseStep - 1)]
  BY DEF TypeOK
<1> HIDE DEF a, Actable
<1>4. \A d \in Dirs : d = a \/ dir'[d] = dir[d]
  BY <1>2, <1>3
<1>5. Actable' = Actable
  BY DEF Actable
<1>6. QED
  BY <1>1, <1>2, <1>4, <1>5 DEF MotionInv

(* So does every step of the keypad. *)
LEMMA MotionStep == TypeOK /\ MotionInv /\ [Next]_vars => MotionInv'
<1> SUFFICES ASSUME TypeOK, MotionInv, [Next]_vars PROVE MotionInv'
  OBVIOUS
<1>1. UNCHANGED <<dir, clicks>> => MotionInv'
  BY DEF MotionInv, Actable
<1>2. CASE KeyDown \/ KeyUp
  <2>1. <<row, tcol>> \in Matrix
    BY <1>2, AtFacts DEF KeyDown, KeyUp, Advance
  <2>2. \E edge \in {"down", "up"} : Press(edge, <<row, tcol>>)
    BY <1>2 DEF KeyDown, KeyUp
  <2>3. QED
    BY <2>1, <2>2, MotionOnPress
<1>3. CASE ~KeyDown /\ ~KeyUp
  BY <1>1, <1>3 DEF Next, Poll, Trigger, Hand, Tick, SetArrows, SetSize, SetCols, Settled,
                    ReadRows, SkipColumn, NoEdge, TriggerDone, effectVars, vars
<1>4. QED
  BY <1>2, <1>3

(* The mouse is always in a state that the HID interface knows. *)
LEMMA MouseInMoves ==
  /\ MotionInv /\ TypeOK => MouseNow \in Moves
  /\ MotionInv' /\ TypeOK' => MouseNow' \in Moves
<1>1. ASSUME NEW ds \in SUBSET (Dirs \cap Actable), NEW bs \in SUBSET (Clicks \cap Actable)
      PROVE  MouseOf(ds, bs) \in Moves
  BY DEF Moves
<1>2. MotionInv /\ TypeOK => MouseNow \in Moves
  BY <1>1 DEF MotionInv, TypeOK, MouseNow
<1>3. MotionInv' /\ TypeOK' => MouseNow' \in Moves
  BY <1>1 DEF MotionInv, TypeOK, MouseNow, Actable
<1>4. QED
  BY <1>2, <1>3

(* Every direction the mouse moves in, it moves in by mouse_step. *)
MotionIsStep == step = MouseStep /\ \A d \in Dirs : dir[d] \in {0, MouseStep}

(* A key event sets a motion to the step or to 0. *)
LEMMA StepOnPress ==
  ASSUME TypeOK, MotionIsStep, NEW edge, NEW k \in Matrix, Press(edge, k)
  PROVE  MotionIsStep'
<1> DEFINE a == ActionOf[SeqFor(KeyMap[k], edge)]
<1>1. a # "step"
  BY SeqFacts, NavAssumption
<1>2. /\ step' = IF a = "step" /\ edge # "down" THEN NextStep ELSE step
      /\ dir' = IF a \in Dirs /\ MovesMouse
                  THEN [dir EXCEPT ![a] = Motion(edge = "down")]
                  ELSE dir
  BY DEF Press
<1>3. Motion(edge = "down") \in {0, MouseStep}
  BY DEF Motion, MotionIsStep
<1>4. dir \in [Dirs -> 0..(MaxMouseStep - 1)]
  BY DEF TypeOK
<1> HIDE DEF a
<1>5. QED
  BY <1>1, <1>2, <1>3, <1>4 DEF MotionIsStep

(* The set of directions that HidReport is given says all there is to say  *)
(* of m_mouse_moves: with a mouse_step that nothing changes, each holds    *)
(* either nothing or that step, through every change of the mode (press).  *)
THEOREM MotionIsAlwaysStep == NavSpec => []MotionIsStep
<1>1. NavInit => TypeOK /\ MotionIsStep
  BY TypeInit, NavAssumption DEF NavInit, Init, MotionIsStep
<1>2. TypeOK /\ MotionIsStep /\ [NavNext]_navVars => MotionIsStep'
  <2> SUFFICES ASSUME TypeOK, MotionIsStep, [Next]_vars PROVE MotionIsStep'
    BY NavIsPad
  <2>1. UNCHANGED <<step, dir>> => MotionIsStep'
    BY DEF MotionIsStep
  <2>2. CASE KeyDown \/ KeyUp
    <3>1. <<row, tcol>> \in Matrix
      BY <2>2, AtFacts DEF KeyDown, KeyUp, Advance
    <3>2. \E edge \in {"down", "up"} : Press(edge, <<row, tcol>>)
      BY <2>2 DEF KeyDown, KeyUp
    <3>3. QED
      BY <3>1, <3>2, StepOnPress
  <2>3. CASE ~KeyDown /\ ~KeyUp
    BY <2>1, <2>3 DEF Next, Poll, Trigger, Hand, Tick, SetArrows, SetSize, SetCols, Settled,
                      ReadRows, SkipColumn, NoEdge, TriggerDone, effectVars, vars
  <2>4. QED
    BY <2>2, <2>3
<1>3. TypeOK /\ [NavNext]_navVars => TypeOK'
  BY TypeStep, NavIsPad
<1>4. QED
  BY <1>1, <1>2, <1>3, PTL DEF NavSpec

-----------------------------------------------------------------------------
(* What write_scancode puts into the queue for two keypairs. *)
LEMMA WrittenFacts ==
  ASSUME NEW s \in Seqs
  PROVE  /\ Written(KeyPress[s][1]) \o Written(KeyPress[s][2]) \in Hid!Bursts
         /\ Written(KeyPress[s][1]) \in Hid!Bursts
         /\ Written(KeyPress[s][2]) \in Hid!Bursts
<1>1. ASSUME NEW k \in {KeyPress[s][1], KeyPress[s][2]}, k # NoKey PROVE k \in Keys
  BY <1>1 DEF Keys
<1> DEFINE j == KeyPress[s][1]
           k == KeyPress[s][2]
<1>2. /\ j # NoKey => j \in Keys
      /\ k # NoKey => k \in Keys
  BY <1>1
<1> HIDE DEF j, k
<1>3. Written(j) \in {<< >>} \union {<<i>> : i \in Keys}
  BY <1>2 DEF Written
<1>4. Written(k) \in {<< >>} \union {<<i>> : i \in Keys}
  BY <1>2 DEF Written
<1>5. /\ Written(j) = << >> \/ \E i \in Keys : Written(j) = <<i>>
      /\ Written(k) = << >> \/ \E i \in Keys : Written(k) = <<i>>
  BY <1>3, <1>4
<1>6. ASSUME NEW h \in Keys, NEW i \in Keys PROVE <<h>> \o <<i>> = <<h, i>>
  <2>1. /\ <<h>> \in Seq(Keys) /\ <<i>> \in Seq(Keys) /\ <<h, i>> \in Seq(Keys)
        /\ Len(<<h>>) = 1 /\ Len(<<i>>) = 1 /\ Len(<<h, i>>) = 2
    OBVIOUS
  <2>2. /\ <<h>> \o <<i>> \in Seq(Keys) /\ Len(<<h>> \o <<i>>) = 2
        /\ \A n \in 1..2 : (<<h>> \o <<i>>)[n] = IF n <= 1 THEN <<h>>[n] ELSE <<i>>[n - 1]
    BY <2>1, ConcatProperties
  <2>3. \A n \in 1..2 : (<<h>> \o <<i>>)[n] = <<h, i>>[n]
    BY <2>2
  <2>4. QED
    BY <2>1, <2>2, <2>3, SeqEqual
<1>7. Written(j) \o Written(k) \in Hid!Bursts
  <2>0. << >> \in Seq(Keys) /\ \A i \in Keys : <<i>> \in Seq(Keys)
    OBVIOUS
  <2>1. CASE Written(j) = << >>
    <3>1. Written(k) \in Seq(Keys)
      BY <1>5, <2>0
    <3>2. Written(j) \o Written(k) = Written(k)
      BY <2>1, <3>1, ConcatEmptySeq
    <3>3. QED
      BY <1>4, <3>2 DEF Hid!Bursts
  <2>2. CASE Written(k) = << >>
    <3>1. Written(j) \in Seq(Keys)
      BY <1>5, <2>0
    <3>2. Written(j) \o Written(k) = Written(j)
      BY <2>2, <3>1, ConcatEmptySeq
    <3>3. QED
      BY <1>3, <3>2 DEF Hid!Bursts
  <2>3. ASSUME NEW h \in Keys, NEW i \in Keys, Written(j) = <<h>>, Written(k) = <<i>>
        PROVE  Written(j) \o Written(k) \in Hid!Bursts
    <3>1. Written(j) \o Written(k) = <<h, i>>
      BY <1>6, <2>3
    <3>2. QED
      BY <3>1 DEF Hid!Bursts
  <2>4. QED
    BY <1>5, <2>1, <2>2, <2>3
<1>8. Written(j) \in Hid!Bursts /\ Written(k) \in Hid!Bursts
  BY <1>3, <1>4 DEF Hid!Bursts
<1>9. QED
  BY <1>7, <1>8 DEF j, k

(* What a key event hands over is a burst of presses. *)
LEMMA SentFacts ==
  ASSUME NEW edge, NEW k \in Matrix, Press(edge, k)
  PROVE  event'.sent \in Hid!Bursts
<1> DEFINE s == SeqFor(KeyMap[k], edge)
<1>1. s \in Seqs
  BY SeqFacts
<1>2. event'.sent = Sent(s, edge)
  BY DEF Press
<1> HIDE DEF s
<1>3. << >> \in Hid!Bursts
  BY DEF Hid!Bursts
<1>4. Sent(s, edge) \in Hid!Bursts
  BY <1>1, <1>3, WrittenFacts DEF Sent
<1>5. QED
  BY <1>2, <1>4

(* What of it finds room is one, too. *)
LEMMA AcceptedFacts ==
  ASSUME NEW sent \in Hid!Bursts, Len(queue) \in 0..Capacity
  PROVE  Accepted(sent) \in Hid!Bursts
<1>1. Capacity \in Nat /\ Len(queue) \in Nat /\ Len(queue) <= Capacity
  BY NavAssumption
<1> DEFINE room == Capacity - Len(queue)
<1>2. room \in Nat
  BY <1>1
<1>3. Accepted(sent) = IF Len(sent) <= room THEN sent ELSE SubSeq(sent, 1, room)
  BY DEF Accepted
<1> HIDE DEF room
<1>4. CASE Len(sent) <= room
  BY <1>3, <1>4
<1>5. CASE ~(Len(sent) <= room)
  <2>1. CASE sent = << >>
    BY <1>2, <1>5, <2>1
  <2>2. ASSUME NEW k \in Keys, sent = <<k>> PROVE SubSeq(sent, 1, room) \in Hid!Bursts
    <3>1. room = 0
      BY <1>2, <1>5, <2>2
    <3>2. SubSeq(sent, 1, 0) = << >>
      BY <2>2
    <3>3. QED
      BY <3>1, <3>2 DEF Hid!Bursts
  <2>3. ASSUME NEW j \in Keys, NEW k \in Keys, sent = <<j, k>>
        PROVE  SubSeq(sent, 1, room) \in Hid!Bursts
    <3>1. room = 0 \/ room = 1
      BY <1>2, <1>5, <2>3
    <3>2. SubSeq(<<j, k>>, 1, 0) = << >>
      OBVIOUS
    <3>3. SubSeq(<<j, k>>, 1, 1) = <<j>>
      <4>1. <<j, k>> \in Seq(Keys) /\ <<j>> \in Seq(Keys) /\ \A n \in 1..1 : <<j, k>>[n] \in Keys
        OBVIOUS
      <4>2. /\ SubSeq(<<j, k>>, 1, 1) \in Seq(Keys) /\ Len(SubSeq(<<j, k>>, 1, 1)) = 1
            /\ SubSeq(<<j, k>>, 1, 1)[1] = j
        BY <4>1, SubSeqProperties
      <4> DEFINE t == SubSeq(<<j, k>>, 1, 1)
                 u == <<j>>
      <4>3. Len(u) = 1 /\ u[1] = j /\ u \in Seq(Keys)
        BY <4>1
      <4> HIDE DEF t, u
      <4>4. t \in Seq(Keys) /\ Len(t) = 1 /\ t[1] = j
        BY <4>2 DEF t
      <4>5. t = u
        BY <4>3, <4>4, SeqEqual
      <4>6. QED
        BY <4>5 DEF t, u
    <3>4. QED
      BY <2>3, <3>1, <3>2, <3>3 DEF Hid!Bursts
  <2>4. SubSeq(sent, 1, room) \in Hid!Bursts
    BY <2>1, <2>2, <2>3 DEF Hid!Bursts
  <2>5. QED
    BY <1>3, <1>5, <2>4
<1>6. QED
  BY <1>4, <1>5

-----------------------------------------------------------------------------
ReportInv == TypeOK /\ MotionInv /\ H!TypeOK

(* Every step of the whole is one of the HID reports, or leaves them alone *)
LEMMA NavIsHid == ReportInv /\ [NavNext]_navVars => [Hid!Next]_(Hid!vars)
<1> SUFFICES ASSUME ReportInv, [NavNext]_navVars PROVE [Hid!Next]_(Hid!vars)
  OBVIOUS
<1>1. TypeOK' /\ MotionInv'
  BY NavIsPad, TypeStep, MotionStep DEF ReportInv
<1>2. MouseNow' \in Moves
  BY <1>1, MouseInMoves
<1>3. UNCHANGED <<hidVars, dir, clicks>> => UNCHANGED Hid!vars
  BY DEF Hid!vars, Hid!taskVars, Hid!usbVars, Hid!hostVars, hidVars, MouseNow
<1>4. CASE KeyEvent
  <2>1. <<row, tcol>> \in Matrix
    BY <1>4, AtFacts DEF ReportInv, KeyEvent, KeyDown, KeyUp, Advance
  <2>2. \E edge \in {"down", "up"} : Press(edge, <<row, tcol>>)
    BY <1>4 DEF KeyEvent, KeyDown, KeyUp
  <2>3. event'.sent \in Hid!Bursts
    BY <2>1, <2>2, SentFacts
  <2>4. Len(queue) \in 0..Capacity
    BY NavAssumption DEF ReportInv, H!TypeOK
  <2>5. Accepted(event'.sent) \in Hid!Bursts
    BY <2>3, <2>4, AcceptedFacts
  <2>6. Hid!Pressed(Accepted(event'.sent), MouseNow')
    BY <1>4 DEF KeyEvent
  <2>7. QED
    BY <1>2, <2>5, <2>6 DEF Hid!Next
<1>5. CASE HandMoves \/ TimerTicks
  BY <1>3, <1>5 DEF HandMoves, Hand, TimerTicks, Tick, effectVars
<1>6. ASSUME NEW a \in ArrowsSet, MenuSetsArrows(a) PROVE UNCHANGED Hid!vars
  BY <1>3, <1>6 DEF MenuSetsArrows, SetArrows
<1>7. CASE Bus
  BY <1>7 DEF Bus, Hid!Next
<1>8. CASE UsbTask
  <2>1. Hid!Task \/ UNCHANGED <<hidVars, vars>>
    BY <1>8 DEF UsbTask
  <2>2. UNCHANGED vars => UNCHANGED <<dir, clicks>>
    BY DEF vars, effectVars
  <2>3. QED
    BY <1>3, <2>1, <2>2 DEF Hid!Next
<1>9. CASE PadPoll /\ ~KeyEvent
  <2>1. UNCHANGED hidVars
    BY <1>9 DEF PadPoll, QuietPoll
  <2>2. UNCHANGED <<dir, clicks>>
    BY <1>9 DEF PadPoll, QuietPoll, SetCols, Settled, ReadRows, SkipColumn, NoEdge, TriggerDone,
                effectVars, vars
  <2>3. QED
    BY <1>3, <2>1, <2>2
<1>10. CASE UNCHANGED navVars
  BY <1>3, <1>10 DEF navVars, vars, effectVars
<1>11. QED
  BY <1>4, <1>5, <1>6, <1>7, <1>8, <1>9, <1>10 DEF NavNext, MainLoop

(* Every step keeps what HidReport is typed by. *)
LEMMA ReportStep == ReportInv /\ [NavNext]_navVars => ReportInv'
<1> SUFFICES ASSUME ReportInv, [NavNext]_navVars PROVE ReportInv'
  OBVIOUS
<1>1. TypeOK' /\ MotionInv'
  BY NavIsPad, TypeStep, MotionStep DEF ReportInv
<1>2. [H!Next]_(H!vars)
  BY NavIsHid, SameNext
<1>3. H!TypeOK'
  BY <1>2, HidParameters, H!TypeStep DEF ReportInv
<1>4. QED
  BY <1>1, <1>3 DEF ReportInv

(* It holds at first. *)
LEMMA ReportInit == NavInit => ReportInv
<1> SUFFICES ASSUME NavInit PROVE ReportInv
  OBVIOUS
<1>1. TypeOK /\ H!Init
  BY TypeInit, SameInit DEF NavInit
<1>2. MotionInv
  BY DEF NavInit, Init, MotionInv
<1>3. H!TypeOK
  BY <1>1, HidParameters, H!TypeInit
<1>4. QED
  BY <1>1, <1>2, <1>3 DEF ReportInv

(* The main loop with the keypad and the HID task implements HidReport,    *)
(* which knows nothing of keys and hands: what trigger() queues and does   *)
(* to the mouse in one event is a press that HidReport allows for.         *)
THEOREM NavImplementsHid == NavSpec => Hid!Init /\ [][Hid!Next]_(Hid!vars)
<1>1. NavInit => Hid!Init
  BY DEF NavInit
<1>2. QED
  BY <1>1, NavIsHid, ReportInit, ReportStep, PTL DEF NavSpec

(* So what HidReport promises of its reports holds of the presses of the   *)
(* keypad: if the host uses GET_REPORT only between reports, every press   *)
(* that found room in the key buffer reaches it once and in order, however *)
(* the scan, the HID task and the bus take turns (trigger, key_state,      *)
(* USBTask).                                                               *)
THEOREM NavPressesInOrder ==
  ASSUME Control = "between"
  PROVE  NavSpec => []Hid!PressesInOrder
<1>1. NavInit => H!FlowInv
  BY SameInit, HidParameters, H!FlowInit DEF NavInit
<1>2. H!FlowInv /\ ReportInv /\ [NavNext]_navVars => H!FlowInv'
  BY NavIsHid, SameNext, HidParameters, H!FlowStep
<1>3. H!FlowInv => Hid!PressesInOrder
  BY DEF H!FlowInv, H!PressesInOrder, Hid!PressesInOrder, H!InFlight, Hid!InFlight,
         H!IsPress, Hid!IsPress, H!KeyOf, Hid!KeyOf, H!Zeros, Hid!Zeros
<1>4. QED
  BY <1>1, <1>2, <1>3, ReportInit, ReportStep, PTL DEF NavSpec
=============================================================================
