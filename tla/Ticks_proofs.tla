---------------------------- MODULE Ticks_proofs ----------------------------
(***************************************************************************)
(* Proofs about global_ticks and its torn readings, for every width of the *)
(* counter and of its bytes, every step of the timer and every hold time.  *)
(***************************************************************************)
EXTENDS Ticks, TLAPS

(* Division with a positive divisor, and its one quotient and remainder.   *)
LEMMA Division ==
  ASSUME NEW m \in Nat, NEW p \in Nat \ {0}
  PROVE  /\ m \div p \in Nat /\ m % p \in 0..p - 1
         /\ m = p * (m \div p) + (m % p)
OBVIOUS

(* The quotient and the remainder of p * q + r are q and r. *)
LEMMA Quotient ==
  ASSUME NEW p \in Nat \ {0}, NEW q \in Nat, NEW r \in 0..p - 1
  PROVE  /\ (p * q + r) \div p = q
         /\ (p * q + r) % p = r
OBVIOUS

(* Dividing by p and then by b is dividing by p * b. *)
LEMMA Nested ==
  ASSUME NEW m \in Nat, NEW p \in Nat \ {0}, NEW b \in Nat \ {0}
  PROVE  (m \div p) \div b = m \div (p * b)
OBVIOUS

(* Differences and sums of counts, modulo Mod. *)
LEMMA Wrap ==
  /\ \A x, y \in Counts : (x - y) % Mod = IF x >= y THEN x - y ELSE x - y + Mod
  /\ \A x, y \in Counts : (x + y) % Mod = IF x + y < Mod THEN x + y ELSE x + y - Mod
BY TicksAssumption DEF Counts

-----------------------------------------------------------------------------
(* A step is less than what a byte can say. *)
LEMMA PlaceFacts ==
  /\ Mod \in Nat \ {0} /\ Mod \in Places /\ 1 \in Places /\ Base \in Nat \ {0, 1}
  /\ Step \in Nat \ {0} /\ Step \in Counts
  /\ \A p \in Places : /\ p \in Nat \ {0} /\ p <= Mod /\ Mod = p * (Mod \div p)
                       /\ p > 1 => Step < p
                       /\ p # Mod => p * Base \in Places
<1>1. /\ Mod \in Nat \ {0} /\ Mod \in Places /\ 1 \in Places /\ Base \in Nat \ {0, 1}
      /\ Step \in 1..Base - 1
  BY TicksAssumption
<1>2. ASSUME NEW p \in Places
      PROVE  /\ p \in Nat \ {0} /\ p <= Mod
             /\ p > 1 => Step < p
             /\ p # Mod => p * Base \in Places
  BY <1>1, TicksAssumption
<1>3. ASSUME NEW p \in Places PROVE Mod = p * (Mod \div p)
  <2>1. Mod % p = 0
    BY TicksAssumption
  <2>2. QED
    BY <1>1, <1>2, <2>1, Division
<1>4. Step < Mod
  <2>1. Mod > 1
    BY TicksAssumption
  <2>2. QED
    BY <1>1, <1>2, <2>1
<1>5. QED
  BY <1>1, <1>2, <1>3, <1>4 DEF Counts

-----------------------------------------------------------------------------
(* Of the reading under way: its bytes fit their places, at most one tick  *)
(* has cut into it, and without one it will come to what ticks is.         *)
ReadInv ==
    /\ TypeOK
    /\ acc < place
    /\ place > 1 => ticks \in {from, (from + Step) % Mod}
    /\ place > 1 /\ ticks = from => Reading = from
    /\ NeverBehind

(* Of a deadline that is waited for: set from a reading that began age     *)
(* ticks ago and that at most one tick cut into.                           *)
DeadlineInv(d) ==
    waiting[d] /\ ~spoiled[d] =>
      /\ place > 1 => from <= ticks
      /\ until[d] - HoldOf[d] \in Nat
      /\ age[d] - Step <= ticks - (until[d] - HoldOf[d])
      /\ age[d] < MaxAge => ticks - (until[d] - HoldOf[d]) <= age[d]

(* Of a key that is held: likewise, modulo Mod; a reading under way has    *)
(* begun after the key went down.                                          *)
HoldInv ==
    pressed /\ ~spoiled["hold"] /\ age["hold"] < MaxAge =>
      /\ (ticks - lastHold) % Mod \in age["hold"] - Step..age["hold"]
      /\ place > 1 => (ticks - from) % Mod <= (ticks - lastHold) % Mod

-----------------------------------------------------------------------------
(* What the next byte adds to a reading was in what it came to already.    *)
LEMMA NextByte ==
  ASSUME NEW t \in Nat, NEW p \in Nat \ {0}, NEW b \in Nat \ {0}, NEW a \in 0..p - 1
  PROVE  /\ a + p * ((t \div p) % b) \in 0..p * b - 1
         /\ (t \div (p * b)) * (p * b) + (a + p * ((t \div p) % b)) = (t \div p) * p + a
<1> DEFINE q == t \div p
           n == q \div b
           r == q % b
<1>1. q \in Nat
  BY Division
<1>2. n \in Nat /\ r \in 0..b - 1 /\ q = b * n + r
  BY <1>1, Division
<1>3. t \div (p * b) = n
  BY Nested
<1> HIDE DEF q, n, r
<1>4. a + p * r \in 0..p * b - 1
  BY <1>2
<1>5. ASSUME NEW i \in Nat, NEW j \in Nat
      PROVE  i * (p * b) + (a + p * j) = (b * i + j) * p + a
  OBVIOUS
<1>6. n * (p * b) + (a + p * r) = (b * n + r) * p + a
  BY <1>2, <1>5
<1>7. QED
  BY <1>2, <1>3, <1>4, <1>6 DEF q, r

(* A tick that does not carry into the bytes still to be read leaves the   *)
(* reading what it was; one that does leaves it ahead by less than the     *)
(* bytes already read can say.                                             *)
LEMMA TickCutsIn ==
  ASSUME NEW t \in Counts, NEW p \in Places, p > 1
  PROVE  LET next == (t + Step) % Mod
             read == (next \div p) * p + (t % p)
         IN  read = t \/ (read - next) % Mod < p
<1> DEFINE next == (t + Step) % Mod
           q == t \div p
           r == t % p
           k == Mod \div p
<1>1. /\ p \in Nat \ {0} /\ p <= Mod /\ Step < p /\ Step \in Nat \ {0} /\ Mod \in Nat
      /\ t \in Nat /\ t < Mod
  <2>1. p \in Nat \ {0} /\ p <= Mod /\ Step < p
    BY PlaceFacts
  <2>2. Step \in Nat \ {0} /\ Mod \in Nat
    BY PlaceFacts
  <2>3. QED
    BY <2>1, <2>2 DEF Counts
<1>2. q \in Nat /\ r \in 0..p - 1 /\ t = p * q + r
  BY <1>1, Division
<1>3. k \in Nat /\ Mod = p * k
  <2>1. Mod = p * k
    BY PlaceFacts
  <2>2. QED
    BY <1>1, <2>1, Division
<1>4. t + Step < Mod => next = t + Step
  BY PlaceFacts, Wrap
<1>5. t + Step >= Mod => next = t + Step - Mod
  BY PlaceFacts, Wrap
<1> HIDE DEF next, q, r, k
<1>6. CASE t + Step < Mod /\ r + Step < p
  <2>1. next = p * q + (r + Step)
    BY <1>1, <1>2, <1>4, <1>6
  <2>2. next \div p = q
    BY <1>1, <1>2, <1>6, <2>1, Quotient
  <2>3. (next \div p) * p + r = t
    BY <1>1, <1>2, <2>2
  <2>4. QED
    BY <2>3 DEF next, r
<1>7. CASE t + Step < Mod /\ r + Step >= p
  <2>1. next = p * (q + 1) + (r + Step - p) /\ r + Step - p \in 0..p - 1
    BY <1>1, <1>2, <1>4, <1>7
  <2>2. next \div p = q + 1
    <3> DEFINE j == q + 1
    <3>1. j \in Nat
      BY <1>2
    <3>2. next = p * j + (r + Step - p)
      BY <2>1
    <3> HIDE DEF j
    <3>3. next \div p = j
      BY <1>1, <2>1, <3>1, <3>2, Quotient
    <3>4. QED
      BY <3>3 DEF j
  <2>3. ((next \div p) * p + r) - next = p - Step
    BY <1>1, <1>2, <2>1, <2>2
  <2>4. (p - Step) % Mod = p - Step
    BY <1>1
  <2>5. QED
    BY <1>1, <2>3, <2>4 DEF next, r
<1>8. CASE t + Step >= Mod
  <2>1. q = k - 1
    BY <1>1, <1>2, <1>3, <1>8
  <2>2. next = p * 0 + (r + Step - p) /\ r + Step - p \in 0..p - 1
    BY <1>1, <1>2, <1>3, <1>5, <1>8, <2>1
  <2>3. next \div p = 0
    BY <1>1, <2>2, Quotient
  <2>4. ((next \div p) * p + r) - next = p - Step
    BY <1>1, <1>2, <2>2, <2>3
  <2>5. (p - Step) % Mod = p - Step
    BY <1>1
  <2>6. QED
    BY <1>1, <2>4, <2>5 DEF next, r
<1>9. QED
  BY <1>1, <1>2, <1>6, <1>7, <1>8

(* A reading under way has seen one tick, or none. *)
LEMMA OneTick ==
  ASSUME ReadInv, place > 1
  PROVE  (ticks - from) % Mod = IF ticks = from THEN 0 ELSE Step
<1>1. ticks \in Counts /\ from \in Counts /\ Step \in Counts
  BY PlaceFacts DEF ReadInv, TypeOK
<1>2. (ticks - from) % Mod = IF ticks >= from THEN ticks - from ELSE ticks - from + Mod
  BY <1>1, Wrap
<1>3. (from + Step) % Mod = IF from + Step < Mod THEN from + Step ELSE from + Step - Mod
  BY <1>1, Wrap
<1>4. ticks = from \/ ticks = (from + Step) % Mod
  BY DEF ReadInv
<1>5. QED
  BY <1>1, <1>2, <1>3, <1>4, PlaceFacts DEF Counts

(* What a deadline or the hold key remembers of a reading keeps its type.  *)
LEMMA MarkType ==
  ASSUME ReadInv, place > 1, NEW m \in Marks, NEW overflow \in BOOLEAN, Mark(m, overflow)
  PROVE  age' \in [Marks -> 0..MaxAge] /\ spoiled' \in [Marks -> BOOLEAN]
<1>1. (ticks - from) % Mod \in {0, Step}
  BY OneTick
<1>2. Step \in 0..MaxAge /\ 0 \in 0..MaxAge
  <2>1. HoldOf["pad"] \in 1..Mod - 1 /\ HoldOf["pad"] + 2 * Step <= MaxAge /\ MaxAge \in Nat
    BY TicksAssumption DEF Deadlines
  <2>2. QED
    BY <2>1, PlaceFacts
<1>3. spoiled' \in [Marks -> BOOLEAN]
  BY DEF Mark, ReadInv, TypeOK, IsTorn
<1>4. age' \in [Marks -> 0..MaxAge]
  BY <1>1, <1>2 DEF Mark, ReadInv, TypeOK
<1>5. QED
  BY <1>3, <1>4

(* Dating a mark anew keeps the types of its age and of its flag. *)
LEMMA ForgetType ==
  ASSUME TypeOK, NEW m \in Marks, Forget(m)
  PROVE  age' \in [Marks -> 0..MaxAge] /\ spoiled' \in [Marks -> BOOLEAN]
BY TicksAssumption DEF Forget, TypeOK

(* A statement that ends leaves nothing read for the next one.             *)
LEMMA GotoReads ==
  ASSUME ReadInv, NEW s \in Statements, Goto(s), TypeOK'
  PROVE  ReadInv'
BY DEF ReadInv, Goto, NeverBehind

(* Going to the next statement keeps the types of what it changes. *)
LEMMA GotoType ==
  ASSUME TypeOK, NEW s \in Statements, Goto(s)
  PROVE  /\ ticks' \in Counts /\ acc' \in Counts /\ from' \in Counts
         /\ pc' \in Statements /\ place' \in Places /\ round' \in 0..PerRound
BY PlaceFacts, TicksAssumption DEF TypeOK, Goto, Counts

(* Setting and testing a deadline keeps the types of what it changes.      *)
LEMMA DeadlineType ==
  ASSUME ReadInv, place > 1, NEW d \in Deadlines, Deadline(d)
  PROVE  /\ until' \in [Deadlines -> Counts] /\ waiting' \in [Deadlines -> BOOLEAN]
         /\ age' \in [Marks -> 0..MaxAge] /\ spoiled' \in [Marks -> BOOLEAN]
         /\ UNCHANGED lastWork /\ UNCHANGED lastHold /\ UNCHANGED pressed
<1> USE DEF ReadInv, TypeOK
<1>1. d \in Marks /\ UNCHANGED lastWork /\ UNCHANGED lastHold /\ UNCHANGED pressed
  BY DEF Deadline, Marks
<1>2. CASE SetDeadline(d)
  <2>1. (acc + HoldOf[d]) % Mod \in Counts
    BY PlaceFacts, TicksAssumption DEF Counts
  <2>2. until' \in [Deadlines -> Counts] /\ waiting' \in [Deadlines -> BOOLEAN]
    BY <1>2, <2>1 DEF SetDeadline
  <2>3. PICK overflow \in BOOLEAN : Mark(d, overflow)
    BY <1>2 DEF SetDeadline
  <2>4. QED
    BY <1>1, <2>2, <2>3, MarkType
<1>3. CASE TestDeadline(d) /\ ~Passed(d)
  BY <1>1, <1>3 DEF TestDeadline, pastVars
<1>4. CASE TestDeadline(d) /\ Passed(d)
  <2>1. 0 \in Counts
    BY PlaceFacts DEF Counts
  <2>2. until' \in [Deadlines -> Counts] /\ waiting' \in [Deadlines -> BOOLEAN] /\ Forget(d)
    BY <1>4, <2>1 DEF TestDeadline
  <2>3. QED
    BY <1>1, <2>2, ForgetType
<1>5. QED
  BY <1>2, <1>3, <1>4 DEF Deadline

(* A step of the timer or of the main loop keeps what is known of the      *)
(* reading under way.                                                      *)
LEMMA ReadStep == ReadInv /\ [Next]_vars => ReadInv'
<1> SUFFICES ASSUME ReadInv, [Next]_vars PROVE ReadInv'
  OBVIOUS
<1>1. Mod > 1
  <2>1. MaxAge \in 1..Mod - 1
    BY TicksAssumption
  <2>2. QED
    BY <2>1, PlaceFacts
<1>2. CASE Tick
  <2>1. TypeOK'
    <3>1. ticks' \in Counts /\ round' \in 0..PerRound
      BY <1>2, PlaceFacts, TicksAssumption DEF Tick, ReadInv, TypeOK, Counts
    <3>2. spoiled' \in [Marks -> BOOLEAN]
      BY <1>2 DEF Tick, ReadInv, TypeOK
    <3>3. age' \in [Marks -> 0..MaxAge]
      <4>1. MaxAge \in Nat /\ \A m \in Marks : Later(m) \in 0..MaxAge
        BY PlaceFacts, TicksAssumption DEF Later, ReadInv, TypeOK
      <4>2. QED
        BY <1>2, <4>1 DEF Tick
    <3>4. QED
      BY <1>2, <3>1, <3>2, <3>3 DEF Tick, ReadInv, TypeOK, readVars, setVars
  <2>2. CASE place = 1
    BY <1>2, <2>1, <2>2 DEF Tick, ReadInv, readVars, NeverBehind
  <2>3. CASE place > 1
    <3>1. /\ ticks = from /\ ticks' = (from + Step) % Mod /\ from \in Counts
          /\ UNCHANGED <<place, acc, from>>
      BY <1>2, <2>3 DEF Tick, readVars, ReadInv, TypeOK
    <3>2. from # ticks'
      <4>1. Step \in Counts /\ Step \in Nat \ {0} /\ Mod \in Nat
        BY PlaceFacts
      <4>2. ticks' = IF from + Step < Mod THEN from + Step ELSE from + Step - Mod
        BY <3>1, <4>1, Wrap
      <4>3. QED
        BY <3>1, <4>1, <4>2 DEF Counts
    <3>3. acc = from % place
      <4>1. place \in Nat \ {0} /\ acc \in Nat /\ from \in Nat
        BY PlaceFacts DEF ReadInv, TypeOK, Counts
      <4>2. from = place * (from \div place) + acc
        BY <2>3, <3>1, <4>1, Division DEF ReadInv, Reading
      <4>3. from = place * (from \div place) + (from % place)
        BY <4>1, Division
      <4>4. QED
        BY <4>1, <4>2, <4>3, Division
    <3>4. place \in Places
      BY DEF ReadInv, TypeOK
    <3>5. NeverBehind'
      BY <2>3, <3>1, <3>3, <3>4, TickCutsIn DEF NeverBehind, Reading
    <3>6. QED
      BY <2>1, <3>1, <3>2, <3>5 DEF ReadInv
  <2>4. QED
    BY <2>2, <2>3, PlaceFacts DEF ReadInv, TypeOK
<1>3. CASE ReadByte
  <2> DEFINE p == place * Base
             a == acc + place * ((ticks \div place) % Base)
             read == (ticks \div p) * p + a
  <2>1. place \in Places /\ place \in Nat \ {0} /\ place # Mod
    BY <1>3, PlaceFacts DEF ReadByte, ReadInv, TypeOK
  <2>2. p \in Places
    BY <2>1, PlaceFacts
  <2>3. p > place
    BY <2>1, PlaceFacts
  <2>4. ticks \in Nat /\ acc \in 0..place - 1 /\ Base \in Nat \ {0}
    BY <2>1, PlaceFacts DEF ReadInv, TypeOK, Counts
  <2>5. a \in 0..p - 1 /\ read = Reading
    <3>1. ASSUME NEW t \in Nat, NEW q \in Nat \ {0}, NEW b \in Nat \ {0}, NEW c \in 0..q - 1,
                 t = ticks, q = place, b = Base, c = acc
          PROVE  a \in 0..p - 1 /\ read = Reading
      <4>1. /\ c + q * ((t \div q) % b) \in 0..q * b - 1
            /\ (t \div (q * b)) * (q * b) + (c + q * ((t \div q) % b)) = (t \div q) * q + c
        BY NextByte
      <4>2. QED
        BY <3>1, <4>1, Zenon DEF Reading
    <3>2. QED
      BY <2>1, <2>4, <3>1, Zenon
  <2>6. /\ acc' = a /\ place' = p /\ ticks' = ticks
        /\ from' = IF place = 1 THEN ticks ELSE from
        /\ UNCHANGED <<pc, setVars, round, pastVars>>
    BY <1>3 DEF ReadByte
  <2>7. Reading' = read
    BY <2>6 DEF Reading
  <2> HIDE DEF p, a, read
  <2>8. p \in Nat /\ p <= Mod /\ Mod \in Nat
    BY <2>2, PlaceFacts
  <2>9. a \in Counts /\ a < p
    BY <2>5, <2>8 DEF Counts
  <2>10. TypeOK'
    BY <2>2, <2>6, <2>9 DEF ReadInv, TypeOK, setVars, pastVars
  <2>11. CASE place = 1
    <3>1. ticks \div 1 = ticks /\ acc = 0
      BY <2>4, <2>11
    <3>2. Reading = ticks
      BY <2>4, <2>11, <3>1 DEF Reading
    <3>3. Reading' = from' /\ from' = ticks'
      BY <2>5, <2>6, <2>7, <2>11, <3>2
    <3>4. QED
      BY <2>6, <2>9, <2>10, <3>3 DEF ReadInv, NeverBehind
  <2>12. CASE place > 1
    <3>1. from' = from /\ ticks' = ticks /\ Reading' = Reading /\ place' = p
      BY <2>5, <2>6, <2>7, <2>12
    <3>2. Reading = from \/ (Reading - ticks) % Mod < p
      <4>1. Reading - ticks \in Int
        BY <2>1, <2>4, Division DEF Reading
      <4>2. (Reading - ticks) % Mod \in Int
        BY <4>1, PlaceFacts
      <4>3. Reading = from \/ (Reading - ticks) % Mod < place
        BY <2>12 DEF ReadInv, NeverBehind
      <4>4. QED
        BY <2>1, <2>3, <2>8, <4>2, <4>3
    <3>3. NeverBehind'
      BY <3>1, <3>2, Zenon DEF NeverBehind
    <3>4. QED
      BY <2>6, <2>9, <2>10, <2>12, <3>1, <3>3 DEF ReadInv
  <2>13. QED
    BY <2>1, <2>11, <2>12
<1>4. ASSUME NEW d \in Deadlines, NEW s \in Statements, Read(d), Deadline(d), Goto(s)
      PROVE  ReadInv'
  <2>1. place > 1
    BY <1>1, <1>4 DEF Read
  <2>2. TypeOK'
    BY <1>4, <2>1, DeadlineType, GotoType DEF ReadInv, TypeOK
  <2>3. QED
    BY <1>4, <2>2, GotoReads
<1>5. CASE HoldDown
  <2>1. place > 1 /\ Mark("hold", FALSE) /\ Goto("work")
    BY <1>1, <1>5 DEF HoldDown, Read
  <2>2. "hold" \in Marks /\ "work" \in Statements
    BY DEF Marks, Statements
  <2>3. TypeOK'
    BY <1>5, <2>1, <2>2, MarkType, GotoType DEF HoldDown, ReadInv, TypeOK
  <2>4. QED
    BY <2>1, <2>2, <2>3, GotoReads
<1>6. CASE HoldUp
  <2>1. Forget("hold") /\ Goto("work") /\ 0 \in Counts
    BY <1>6, PlaceFacts DEF HoldUp, Counts
  <2>2. "hold" \in Marks /\ "work" \in Statements
    BY DEF Marks, Statements
  <2>3. TypeOK'
    BY <1>6, <2>1, <2>2, ForgetType, GotoType DEF HoldUp, ReadInv, TypeOK
  <2>4. QED
    BY <2>1, <2>2, <2>3, GotoReads
<1>7. CASE TimerTest
  <2>1. PICK s \in Statements : Goto(s)
    BY <1>7 DEF TimerTest, Statements
  <2>2. TypeOK'
    BY <1>7, <2>1, GotoType DEF TimerTest, setVars, pastVars, ReadInv, TypeOK
  <2>3. QED
    BY <2>1, <2>2, GotoReads
<1>8. CASE TimerCopy
  <2>1. Goto("job") /\ "job" \in Statements
    BY <1>8 DEF TimerCopy, Statements
  <2>2. TypeOK'
    BY <1>8, <2>1, GotoType DEF TimerCopy, pastVars, ReadInv, TypeOK
  <2>3. QED
    BY <2>1, <2>2, GotoReads
<1>9. CASE UNCHANGED vars
  BY <1>9 DEF vars, readVars, setVars, pastVars, ReadInv, TypeOK, NeverBehind, Reading
<1>10. CASE PadPoll \/ RunJob
  BY <1>4, <1>10 DEF PadPoll, RunJob, Deadlines, Statements
<1>11. QED
  BY <1>2, <1>3, <1>5, <1>6, <1>7, <1>8, <1>9, <1>10 DEF Next, MainLoop

(* Nothing has been read at first. *)
LEMMA ReadInit == Init => ReadInv
<1>1. 0 \in Counts /\ 1 \in Places /\ MaxAge \in Nat /\ PerRound \in Nat
  BY PlaceFacts, TicksAssumption DEF Counts
<1>2. Init => TypeOK
  <2>1. Init => /\ until \in [Deadlines -> Counts] /\ waiting \in [Deadlines -> BOOLEAN]
                /\ age \in [Marks -> 0..MaxAge] /\ spoiled \in [Marks -> BOOLEAN]
    <3>1. 0 \in 0..MaxAge
      BY <1>1
    <3>2. QED
      BY <1>1, <3>1 DEF Init
  <2>2. Init => /\ ticks \in Counts /\ acc \in Counts /\ from \in Counts /\ lastWork \in Counts
                /\ lastHold \in Counts /\ pc \in Statements /\ pressed \in BOOLEAN
    BY <1>1 DEF Init, Statements
  <2>3. Init => place \in Places /\ round \in 0..PerRound
    BY <1>1 DEF Init
  <2>4. QED
    BY <2>1, <2>2, <2>3 DEF TypeOK
<1>3. QED
  BY <1>2 DEF Init, ReadInv, NeverBehind

(* ReadInv holds throughout. *)
LEMMA ReadCorrect == Spec => []ReadInv
BY ReadInit, ReadStep, PTL DEF Spec

(* Every variable keeps its range: a copy of global_ticks that a tick has  *)
(* torn is still a count, and the saturating ages are long enough.         *)
THEOREM TypeCorrect == Spec => []TypeOK
<1>1. ReadInv => TypeOK
  BY DEF ReadInv
<1>2. QED
  BY <1>1, ReadCorrect, PTL

(* A torn reading of global_ticks is never behind what the counter was     *)
(* when the reading began, and is ahead of the counter by less than the    *)
(* bytes read before the tick can say, whatever the widths and the step.   *)
THEOREM ReadingNeverBehind == Spec => []NeverBehind
<1>1. ReadInv => NeverBehind
  BY DEF ReadInv
<1>2. QED
  BY <1>1, ReadCorrect, PTL

-----------------------------------------------------------------------------
(* The deadlines are not the hold key, and leave the ages room. *)
LEMMA DeadlineFacts ==
  ASSUME NEW d \in Deadlines
  PROVE  /\ d # "hold" /\ d \in Marks
         /\ HoldOf[d] \in Nat /\ MaxAge \in Nat /\ HoldOf[d] + 2 * Step <= MaxAge
BY TicksAssumption, PlaceFacts DEF Deadlines, Marks

(* A statement that neither sets nor tests a deadline keeps what is known  *)
(* of it.                                                                  *)
LEMMA DeadlineRests ==
  ASSUME NEW d \in Deadlines, DeadlineInv(d), place' = 1, ticks' = ticks,
         until'[d] = until[d], waiting'[d] = waiting[d], age'[d] = age[d],
         spoiled'[d] = spoiled[d]
  PROVE  DeadlineInv(d)'
BY DEF DeadlineInv

(* A reading that is not torn and during which the counter has not         *)
(* wrapped is what the counter was at its beginning or is at its end.      *)
LEMMA CleanReading ==
  ASSUME ReadInv, place > 1, ~IsTorn, from <= ticks
  PROVE  /\ ticks \in {from, from + Step}
         /\ acc \in {from, ticks}
         /\ (ticks - from) % Mod = ticks - from
<1>1. ticks \in Counts /\ from \in Counts /\ Step \in Counts
  BY PlaceFacts DEF ReadInv, TypeOK
<1>2. (ticks - from) % Mod = ticks - from
  BY <1>1, Wrap
<1>3. (from + Step) % Mod = IF from + Step < Mod THEN from + Step ELSE from + Step - Mod
  BY <1>1, Wrap
<1>4. ticks \in {from, from + Step}
  BY <1>1, <1>3, PlaceFacts DEF ReadInv, Counts
<1>5. QED
  BY <1>2, <1>4 DEF IsTorn

(* A step keeps what is known of a deadline. *)
LEMMA DeadlineStep ==
  ASSUME NEW d \in Deadlines
  PROVE  ReadInv /\ DeadlineInv(d) /\ [Next]_vars => DeadlineInv(d)'
<1> SUFFICES ASSUME ReadInv, DeadlineInv(d), [Next]_vars PROVE DeadlineInv(d)'
  OBVIOUS
<1>1. /\ d # "hold" /\ d \in Marks
      /\ HoldOf[d] \in Nat /\ MaxAge \in Nat /\ HoldOf[d] + 2 * Step <= MaxAge
  BY DeadlineFacts
<1>2. /\ ticks \in Counts /\ ticks \in Nat /\ from \in Nat /\ until[d] \in Nat /\ age[d] \in Nat
      /\ Step \in Nat \ {0} /\ Step \in Counts /\ Mod \in Nat
  BY <1>1, PlaceFacts DEF ReadInv, TypeOK, Counts
<1>3. CASE Tick
  <2> SUFFICES ASSUME waiting'[d], ~spoiled'[d]
               PROVE  DeadlineInv(d)'
    BY DEF DeadlineInv
  <2>1. waiting[d] /\ ~spoiled[d] /\ ~(ticks' < ticks)
    BY <1>1, <1>3 DEF Tick, setVars, InUse
  <2>2. ticks' = ticks + Step
    <3>1. ticks' = (ticks + Step) % Mod
      BY <1>3 DEF Tick
    <3>2. (ticks + Step) % Mod = IF ticks + Step < Mod THEN ticks + Step ELSE ticks + Step - Mod
      BY <1>2, Wrap
    <3>3. QED
      BY <1>2, <2>1, <3>1, <3>2 DEF Counts
  <2>3. age'[d] = IF age[d] + Step < MaxAge THEN age[d] + Step ELSE MaxAge
    BY <1>1, <1>3, <2>1 DEF Tick, InUse, Later
  <2>4. until'[d] = until[d] /\ place' = place /\ from' = from
    BY <1>3 DEF Tick, setVars, readVars
  <2>5. QED
    BY <1>1, <1>2, <2>1, <2>2, <2>3, <2>4 DEF DeadlineInv
<1>4. CASE ReadByte
  <2>1. /\ from' = IF place = 1 THEN ticks ELSE from
        /\ UNCHANGED <<ticks, until, waiting, age, spoiled>>
    BY <1>4 DEF ReadByte, setVars, pastVars
  <2>2. place > 1 \/ place = 1
    BY PlaceFacts DEF ReadInv, TypeOK
  <2>3. QED
    BY <1>2, <2>1, <2>2 DEF DeadlineInv
<1>5. ASSUME NEW e \in Deadlines, NEW s \in Statements, Read(e), Deadline(e), Goto(s)
      PROVE  DeadlineInv(d)'
  <2>1. place' = 1 /\ ticks' = ticks
    BY <1>5 DEF Goto
  <2>2. place > 1
    <3>1. HoldOf[d] + 2 * Step <= Mod - 1
      BY <1>1, <1>2, TicksAssumption
    <3>2. QED
      BY <1>1, <1>2, <1>5, <3>1 DEF Read
  <2>3. CASE e # d
    <3>1. /\ until'[d] = until[d] /\ waiting'[d] = waiting[d]
          /\ age'[d] = age[d] /\ spoiled'[d] = spoiled[d]
      BY <1>1, <1>5, <2>3 DEF Deadline, SetDeadline, TestDeadline, Mark, Forget, pastVars, ReadInv, TypeOK
    <3>2. QED
      BY <2>1, <3>1, DeadlineRests
  <2>4. CASE e = d /\ SetDeadline(d)
    <3>1. /\ until'[d] = (acc + HoldOf[d]) % Mod
          /\ spoiled'[d] = (IsTorn \/ (acc + HoldOf[d] >= Mod \/ ticks < from))
          /\ ~spoiled'[d] => age'[d] = (ticks - from) % Mod
      BY <1>1, <2>4 DEF SetDeadline, Mark, ReadInv, TypeOK
    <3> SUFFICES ASSUME ~spoiled'[d] PROVE DeadlineInv(d)'
      BY DEF DeadlineInv
    <3>2. acc \in Nat /\ ~IsTorn /\ from <= ticks /\ acc + HoldOf[d] < Mod
      <4>1. ~IsTorn /\ ~(acc + HoldOf[d] >= Mod) /\ ~(ticks < from)
        BY <3>1, Zenon
      <4>2. QED
        BY <1>1, <1>2, <4>1 DEF ReadInv, TypeOK, Counts
    <3>3. until'[d] = acc + HoldOf[d]
      BY <1>1, <1>2, <3>1, <3>2
    <3>4. age'[d] = ticks - from /\ ticks \in {from, from + Step} /\ acc \in {from, ticks}
      BY <2>2, <3>1, <3>2, CleanReading
    <3>5. QED
      BY <1>1, <1>2, <2>1, <3>2, <3>3, <3>4 DEF DeadlineInv
  <2>5. CASE e = d /\ TestDeadline(d) /\ Passed(d)
    BY <2>5 DEF TestDeadline, DeadlineInv, ReadInv, TypeOK
  <2>6. CASE e = d /\ TestDeadline(d) /\ ~Passed(d)
    BY <2>1, <2>6, DeadlineRests DEF TestDeadline, pastVars
  <2>7. QED
    BY <1>5, <2>3, <2>4, <2>5, <2>6 DEF Deadline
<1>6. CASE PadPoll \/ RunJob
  BY <1>5, <1>6 DEF PadPoll, RunJob, Deadlines, Statements
<1>7. CASE HoldDown \/ HoldUp
  BY <1>1, <1>7, DeadlineRests DEF HoldDown, HoldUp, Goto, Mark, Forget, ReadInv, TypeOK
<1>8. CASE TimerTest \/ TimerCopy
  BY <1>8, DeadlineRests DEF TimerTest, TimerCopy, Goto, setVars, pastVars
<1>9. CASE UNCHANGED vars
  BY <1>9 DEF vars, readVars, setVars, pastVars, DeadlineInv
<1>10. QED
  BY <1>3, <1>4, <1>6, <1>7, <1>8, <1>9 DEF Next, MainLoop

(* What is known of the deadlines holds of a device just started, and      *)
(* stays.                                                                  *)
LEMMA DeadlinesCorrect == Spec => [](ReadInv /\ \A d \in Deadlines : DeadlineInv(d))
<1>1. Init => \A d \in Deadlines : DeadlineInv(d)
  BY DEF Init, DeadlineInv
<1>2. (\A d \in Deadlines : DeadlineInv(d)) /\ ReadInv /\ [Next]_vars
        => (\A d \in Deadlines : DeadlineInv(d))'
  BY DeadlineStep
<1>3. QED
  BY <1>1, <1>2, ReadInit, ReadStep, PTL DEF Spec

(* A deadline passes no earlier than its hold time, and is not waited for  *)
(* two steps beyond it, for every hold time: unless the reading that set   *)
(* or tests it was torn, or its sum or the counter has wrapped since.      *)
THEOREM DeadlinesAreKept == Spec => DeadlineKept
<1>1. ReadInv /\ (\A d \in Deadlines : DeadlineInv(d)) /\ [Next]_vars =>
        [\A d \in Deadlines : Read(d) /\ pc' # pc /\ waiting[d] /\ ~IsTorn /\ ~spoiled[d] =>
           IF waiting'[d] THEN age[d] < HoldOf[d] + 2 * Step
                          ELSE age[d] >= HoldOf[d]]_vars
  <2> SUFFICES ASSUME ReadInv, NEW d \in Deadlines, DeadlineInv(d), Next,
                      Read(d), pc' # pc, waiting[d], ~IsTorn, ~spoiled[d]
               PROVE  IF waiting'[d] THEN age[d] < HoldOf[d] + 2 * Step
                                     ELSE age[d] >= HoldOf[d]
    OBVIOUS
  <2>1. /\ HoldOf[d] \in Nat /\ MaxAge \in Nat /\ HoldOf[d] + 2 * Step <= MaxAge
        /\ Step \in Nat \ {0} /\ Mod \in Nat
    BY DeadlineFacts, PlaceFacts
  <2>2. /\ ticks \in Nat /\ from \in Nat /\ acc \in Nat /\ until[d] \in Nat
        /\ age[d] \in 0..MaxAge
    BY <2>1, DeadlineFacts DEF ReadInv, TypeOK, Counts
  <2>3. place > 1
    <3>1. MaxAge \in 1..Mod - 1
      BY TicksAssumption
    <3>2. QED
      BY <2>1, <3>1 DEF Read
  <2>4. TestDeadline(d)
    <3>1. pc = d /\ d \in {"pad", "job"}
      BY DEF Read, Deadlines
    <3>2. PadPoll \/ RunJob
      BY <3>1 DEF Next, MainLoop, Tick, ReadByte, HoldDown, HoldUp, TimerTest, TimerCopy, Read
    <3>3. Deadline(d)
      BY <3>1, <3>2 DEF PadPoll, RunJob, Read
    <3>4. QED
      BY <3>3 DEF Deadline, SetDeadline
  <2>5. /\ from <= ticks
        /\ until[d] - HoldOf[d] \in Nat
        /\ age[d] - Step <= ticks - (until[d] - HoldOf[d])
        /\ age[d] < MaxAge => ticks - (until[d] - HoldOf[d]) <= age[d]
    BY <2>3 DEF DeadlineInv
  <2>6. ticks \in {from, from + Step} /\ acc \in {from, ticks}
    BY <2>3, <2>5, CleanReading
  <2>7. CASE Passed(d)
    <3>1. ~waiting'[d]
      BY <2>4, <2>7 DEF TestDeadline, ReadInv, TypeOK
    <3>2. age[d] >= HoldOf[d]
      BY <2>1, <2>2, <2>5, <2>6, <2>7 DEF Passed
    <3>3. QED
      BY <3>1, <3>2
  <2>8. CASE ~Passed(d)
    <3>1. waiting'[d]
      BY <2>4, <2>8 DEF TestDeadline
    <3>2. age[d] < HoldOf[d] + 2 * Step
      BY <2>1, <2>2, <2>5, <2>6, <2>8 DEF Passed
    <3>3. QED
      BY <3>1, <3>2
  <2>9. QED
    BY <2>7, <2>8
<1>2. QED
  BY <1>1, DeadlinesCorrect, PTL DEF Spec, DeadlineKept

-----------------------------------------------------------------------------
(* A difference that has room for a step grows with the counter.           *)
LEMMA DifferenceGrows ==
  ASSUME NEW t \in Counts, NEW l \in Counts
  PROVE  LET n == (t + Step) % Mod
             x == (t - l) % Mod
             y == (n - l) % Mod
         IN  x + Step < Mod \/ y >= Step => y = x + Step
<1> DEFINE n == (t + Step) % Mod
           x == (t - l) % Mod
           y == (n - l) % Mod
<1>1. Mod \in Nat /\ Step \in Counts /\ Step \in Nat \ {0} /\ t \in Nat /\ l \in Nat
  BY PlaceFacts DEF Counts
<1>2. n = IF t + Step < Mod THEN t + Step ELSE t + Step - Mod
  BY <1>1, Wrap
<1>3. n \in Counts
  BY <1>1, <1>2 DEF Counts
<1>4. x = IF t >= l THEN t - l ELSE t - l + Mod
  BY Wrap
<1>5. y = IF n >= l THEN n - l ELSE n - l + Mod
  BY <1>3, Wrap
<1> HIDE DEF n, x, y
<1>6. x + Step < Mod \/ y >= Step => y = x + Step
  BY <1>1, <1>2, <1>3, <1>4, <1>5 DEF Counts
<1>7. QED
  BY <1>6 DEF n, x, y

(* A step keeps what is known of the key that is held, also when the       *)
(* counter wraps.                                                          *)
LEMMA HoldStep == ReadInv /\ HoldInv /\ [Next]_vars => HoldInv'
<1> SUFFICES ASSUME ReadInv, HoldInv, [Next]_vars PROVE HoldInv'
  OBVIOUS
<1> DEFINE past == (ticks - lastHold) % Mod
<1>1. /\ ticks \in Counts /\ from \in Counts /\ lastHold \in Counts /\ acc \in Counts
      /\ "hold" \in Marks /\ "hold" \notin Deadlines /\ age["hold"] \in Nat
      /\ MaxAge \in Nat /\ MaxAge < Mod /\ Mod > 1 /\ Step \in Nat \ {0} /\ Step \in Counts /\ Mod \in Nat
  <2>1. MaxAge \in 1..Mod - 1
    BY TicksAssumption
  <2>2. "hold" \in Marks /\ "hold" \notin Deadlines
    BY DEF Marks, Deadlines
  <2>3. QED
    BY <2>1, <2>2, PlaceFacts DEF ReadInv, TypeOK
<1>2. past \in Nat
  BY <1>1, Wrap DEF Counts
<1>3. ASSUME place' = 1, ticks' = ticks, lastHold' = lastHold, pressed' = pressed,
             age'["hold"] = age["hold"], spoiled'["hold"] = spoiled["hold"]
      PROVE  HoldInv'
  BY <1>3 DEF HoldInv
<1>4. CASE Tick
  <2> SUFFICES ASSUME pressed', ~spoiled'["hold"], age'["hold"] < MaxAge
               PROVE  HoldInv'
    BY DEF HoldInv
  <2>1. pressed /\ ~spoiled["hold"]
    BY <1>1, <1>4 DEF Tick, setVars
  <2>2. age'["hold"] = age["hold"] + Step /\ age["hold"] + Step < MaxAge
    BY <1>1, <1>4, <2>1 DEF Tick, InUse, Later
  <2>3. past \in age["hold"] - Step..age["hold"]
    BY <1>1, <2>1, <2>2 DEF HoldInv
  <2>4. ticks' = (ticks + Step) % Mod /\ lastHold' = lastHold /\ place' = place /\ from' = from
    BY <1>4 DEF Tick, setVars, readVars
  <2>5. past' = past + Step
    BY <1>1, <1>2, <2>2, <2>3, <2>4, DifferenceGrows
  <2>6. place > 1 => (ticks' - from) % Mod = Step
    <3>1. CASE place > 1
      <4>1. ticks = from /\ (ticks - from) % Mod = 0
        BY <1>4, <3>1, OneTick DEF Tick
      <4>2. 0 + Step < Mod
        BY <1>1, <2>2
      <4>3. QED
        BY <1>1, <2>4, <4>1, <4>2, DifferenceGrows
    <3>2. QED
      BY <3>1
  <2> HIDE DEF past
  <2>7. past + Step \in (age["hold"] + Step) - Step..age["hold"] + Step /\ Step <= past + Step
    BY <1>1, <1>2, <2>3
  <2>8. past' \in age'["hold"] - Step..age'["hold"]
    BY <2>2, <2>5, <2>7, Zenon
  <2>9. place' > 1 => (ticks' - from') % Mod <= past'
    BY <2>4, <2>5, <2>6, <2>7
  <2>10. QED
    BY <2>8, <2>9, Zenon DEF HoldInv, past
<1>5. CASE ReadByte
  <2>1. /\ from' = IF place = 1 THEN ticks ELSE from
        /\ UNCHANGED <<ticks, lastHold, pressed, age, spoiled>>
    BY <1>5 DEF ReadByte, setVars, pastVars
  <2>2. place > 1 \/ place = 1
    BY PlaceFacts DEF ReadInv, TypeOK
  <2>3. (ticks - ticks) % Mod = 0
    BY <1>1, Wrap DEF Counts
  <2>4. QED
    BY <1>2, <2>1, <2>2, <2>3 DEF HoldInv
<1>6. CASE HoldDown
  <2>1. place > 1 /\ Mark("hold", FALSE)
    BY <1>1, <1>6 DEF HoldDown, Read
  <2>2. lastHold' = acc /\ ticks' = ticks /\ place' = 1
    BY <1>6 DEF HoldDown, Goto
  <2> SUFFICES ASSUME ~spoiled'["hold"] PROVE HoldInv'
    BY DEF HoldInv
  <2>3. ~IsTorn /\ age'["hold"] = (ticks - from) % Mod
    BY <1>1, <2>1 DEF Mark, ReadInv, TypeOK
  <2>4. (ticks - from) % Mod \in {0, Step} /\ (ticks - ticks) % Mod = 0
    <3>1. (ticks - from) % Mod \in {0, Step}
      BY <2>1, OneTick
    <3>2. (ticks - ticks) % Mod = ticks - ticks
      BY <1>1, Wrap DEF Counts
    <3>3. QED
      BY <1>1, <3>1, <3>2 DEF Counts
  <2>5. (ticks - acc) % Mod \in {0, (ticks - from) % Mod}
    BY <2>3, <2>4 DEF IsTorn
  <2>6. QED
    BY <1>1, <2>2, <2>3, <2>4, <2>5 DEF HoldInv
<1>7. CASE HoldUp
  BY <1>7 DEF HoldUp, HoldInv
<1>8. ASSUME NEW e \in Deadlines, NEW s \in Statements, Deadline(e), Goto(s)
      PROVE  HoldInv'
  <2>1. place' = 1 /\ ticks' = ticks /\ lastHold' = lastHold /\ pressed' = pressed
    BY <1>8 DEF Goto, Deadline
  <2>2. age'["hold"] = age["hold"] /\ spoiled'["hold"] = spoiled["hold"]
    BY <1>1, <1>8 DEF Deadline, SetDeadline, TestDeadline, Mark, Forget, pastVars, ReadInv, TypeOK
  <2>3. QED
    BY <1>3, <2>1, <2>2
<1>9. CASE PadPoll \/ RunJob
  BY <1>8, <1>9 DEF PadPoll, RunJob, Deadlines, Statements
<1>10. CASE TimerTest \/ TimerCopy
  BY <1>3, <1>10 DEF TimerTest, TimerCopy, Goto, setVars, pastVars
<1>11. CASE UNCHANGED vars
  BY <1>11 DEF vars, readVars, setVars, pastVars, HoldInv
<1>12. QED
  BY <1>4, <1>5, <1>6, <1>7, <1>9, <1>10, <1>11 DEF Next, MainLoop

(* HoldInv holds throughout, with ReadInv. *)
LEMMA HoldCorrect == Spec => [](ReadInv /\ HoldInv)
<1>1. Init => HoldInv
  BY DEF Init, HoldInv
<1>2. QED
  BY <1>1, HoldStep, ReadInit, ReadStep, PTL DEF Spec

(* The time a key was held is measured right to two steps, and never too   *)
(* long, also when the counter wraps meanwhile, if neither reading of it   *)
(* was torn and the key came up before the counter could come round        *)
(* (press, delta).                                                         *)
THEOREM HoldIsMeasured == Spec => HoldMeasured
<1>1. ReadInv /\ HoldInv /\ [Next]_vars =>
        [Read("hold") /\ pc' # pc /\ pressed /\ ~IsTorn /\ ~spoiled["hold"] /\ age["hold"] < MaxAge =>
           Elapsed \in (age["hold"] - 2 * Step)..age["hold"]]_vars
  <2> SUFFICES ASSUME ReadInv, HoldInv, Read("hold"), pressed, ~IsTorn, ~spoiled["hold"],
                      age["hold"] < MaxAge
               PROVE  Elapsed \in (age["hold"] - 2 * Step)..age["hold"]
    OBVIOUS
  <2> DEFINE past == (ticks - lastHold) % Mod
  <2>1. /\ ticks \in Counts /\ from \in Counts /\ lastHold \in Counts /\ age["hold"] \in Nat
        /\ Step \in Nat \ {0} /\ Step \in Counts /\ Mod \in Nat
    BY PlaceFacts DEF ReadInv, TypeOK, Marks
  <2>2. place > 1
    <3>1. MaxAge \in 1..Mod - 1
      BY TicksAssumption
    <3>2. QED
      BY <2>1, <3>1 DEF Read
  <2>3. past \in Nat /\ past \in age["hold"] - Step..age["hold"] /\ (ticks - from) % Mod <= past
    <3>1. past \in Nat
      BY <2>1, Wrap DEF Counts
    <3>2. QED
      BY <2>2, <3>1 DEF HoldInv
  <2>4. CASE acc = ticks
    BY <2>1, <2>3, <2>4 DEF Elapsed
  <2>5. CASE acc = from /\ ticks # from
    <3>1. ticks = (from + Step) % Mod /\ (ticks - from) % Mod = Step
      BY <2>2, <2>5, OneTick DEF ReadInv
    <3>2. past = Elapsed + Step
      BY <2>1, <2>3, <2>5, <3>1, DifferenceGrows DEF Elapsed
    <3>3. Elapsed \in Nat
      BY <2>1, <2>5, Wrap DEF Elapsed, Counts
    <3> HIDE DEF past
    <3>4. QED
      BY <2>1, <2>3, <3>2, <3>3
  <2>6. QED
    BY <2>4, <2>5 DEF IsTorn
<1>2. QED
  BY <1>1, HoldCorrect, PTL DEF Spec, HoldMeasured
=============================================================================
