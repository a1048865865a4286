---------------------------- MODULE Console_proofs ----------------------------
(***************************************************************************)
(* Proofs about the serial menus, for every width and base of the gpio     *)
(* menu, every set of ports, and every set of key sequences and fields of  *)
(* the editor.                                                             *)
(***************************************************************************)
EXTENDS Console, TLAPS

(* Where the menu object is: the allocator always gives address 1 back,    *)
(* because the object there is freed before the next is made.              *)
LifeInv ==
    /\ heap \in [Addresses -> Kinds \union {Free}]
    /\ menu = 1
    /\ heap[1] \in Kinds /\ heap[2] = Free
    /\ pc \in {"poll", "usage", "aborted"}
    /\ caller \in Addresses \union {NULL}
    /\ pc = "usage" => caller = 1

(* The next menu takes the address of the last.                            *)
LEMMA ReplaceKeepsAddress ==
  ASSUME LifeInv, NEW kind \in Kinds, Replace(kind)
  PROVE  heap' = [heap EXCEPT ![1] = kind] /\ menu' = 1
<1> USE DEF Addresses, Free, Kinds
<1> DEFINE h == End(heap, menu)
<1>1. /\ h \in [Addresses -> Kinds \union {Free}]
      /\ h[1] = Free /\ h[2] = Free
  BY DEF LifeInv, End
<1>2. Lowest(h) = 1
  <2> DEFINE P(a) == h[a] = Free /\ \A b \in 1..a - 1 : h[b] # Free
  <2>1. 1 \in Addresses /\ P(1)
    BY <1>1
  <2>2. \A a \in Addresses : P(a) => a = 1
    BY <1>1
  <2>3. QED
    BY <2>1, <2>2 DEF Lowest
<1>3. QED
  BY <1>1, <1>2 DEF Replace, LifeInv, End

(* Every menu that is opened, left or restarted is at address 1.           *)
LEMMA LifeStep == LifeInv /\ [Next]_vars => LifeInv'
<1> SUFFICES ASSUME LifeInv, [Next]_vars PROVE LifeInv'
  OBVIOUS
<1> USE DEF Addresses, Free, Kinds, NULL
<1>0. ASSUME NEW kind \in Kinds, Replace(kind), pc' = "usage" => caller' = 1,
             pc' \in {"poll", "usage", "aborted"}, caller' \in Addresses \union {NULL}
      PROVE  LifeInv'
  <2>1. heap' = [heap EXCEPT ![1] = kind] /\ menu' = 1
    BY <1>0, ReplaceKeepsAddress
  <2>2. QED
    BY <1>0, <2>1 DEF LifeInv
<1>1. ASSUME NEW c \in Chars, MainPoll(c) PROVE LifeInv'
  <2>1. pc' = "usage" /\ caller' = 1
    BY <1>1 DEF MainPoll, LifeInv
  <2>2. CASE MainSubmenu(c) = "main"
    BY <1>1, <2>1, <2>2 DEF MainPoll, LifeInv
  <2>3. CASE MainSubmenu(c) # "main"
    <3>1. MainSubmenu(c) \in Kinds
      BY DEF MainSubmenu
    <3>2. Replace(MainSubmenu(c))
      BY <1>1, <2>3 DEF MainPoll
    <3>3. QED
      BY <2>1, <3>1, <3>2, <1>0
  <2>4. QED
    BY <2>2, <2>3
<1>2. CASE MainUsage
  BY <1>2 DEF MainUsage, LifeInv
<1>3. ASSUME QuitToMain PROVE LifeInv'
  <2>1. pc' = pc /\ caller' = caller /\ Replace("main")
    BY <1>3 DEF QuitToMain
  <2>2. QED
    BY <2>1, <1>0 DEF LifeInv
<1>4. ASSUME UNCHANGED lifeVars PROVE LifeInv'
  BY <1>4 DEF lifeVars, LifeInv
<1>5. ASSUME NEW c \in Chars, GpioPoll(c) PROVE LifeInv'
  BY <1>5, <1>3, <1>4 DEF GpioPoll
<1>6. ASSUME NEW c \in Chars, EditorPoll(c) PROVE LifeInv'
  BY <1>6, <1>3, <1>4 DEF EditorPoll
<1>7. ASSUME NEW c \in Chars, EepromPoll(c) PROVE LifeInv'
  BY <1>7, <1>3, <1>4 DEF EepromPoll
<1>8. CASE GpioCompute \/ EditorCompute \/ EepromSetValue
  BY <1>8, <1>4 DEF GpioCompute, EditorCompute, EepromSetValue
<1>9. CASE EditorAbort
  BY <1>9 DEF EditorAbort, LifeInv
<1>10. CASE WatchdogReset
  BY <1>10 DEF WatchdogReset, LifeInv
<1>11. CASE IdlePoll \/ UNCHANGED vars
  BY <1>11, <1>4 DEF IdlePoll, vars
<1>12. QED
  BY <1>1, <1>2, <1>5, <1>6, <1>7, <1>8, <1>9, <1>10, <1>11 DEF Next, Type, Compute

(* The first main menu is at address 1.                                    *)
LEMMA LifeInit == Init => LifeInv
  BY DEF Init, LifeInv, Addresses, Free, Kinds, NULL

(* usage(), called on an object that was freed, finds one in its place.    *)
THEOREM UsageIsSafe == Spec => []UsageOnLiveObject
<1>1. LifeInv => UsageOnLiveObject
  BY DEF LifeInv, UsageOnLiveObject, Live, Addresses, Free, Kinds
<1>2. QED
  BY <1>1, LifeInit, LifeStep, PTL DEF Spec

(* Opening and leaving menus neither leaks an object nor loses the last.   *)
THEOREM MenuIsOne == Spec => []OneMenuObject
<1>1. LifeInv => OneMenuObject
  BY DEF LifeInv, OneMenuObject, Live, Addresses, Free, Kinds, NULL
<1>2. QED
  BY <1>1, LifeInit, LifeStep, PTL DEF Spec
-----------------------------------------------------------------------------
(* The editor.  What is selected is edited; the field's pointer leads into *)
(* a sequence that was selected, as soon as there is a field at all.       *)
EditInv ==
    /\ EditorTypeOK
    /\ editor = "edit_key" => seq \in selected
    /\ described # NoField => target \in selected
    /\ UnselectedKept

(* A store through the field pointer reaches one byte of the target only.  *)
LEMMA StoreStep ==
  ASSUME EditInv, NEW v, Turn(v)
  PROVE  /\ keys' \in [Seqs -> KeySeqs]
         /\ \A s \in Seqs \ selected : keys'[s] = keys[s]
<1>1. CASE described.place \notin DOMAIN keys[target].bytes
  BY <1>1 DEF Turn, EditInv, EditorTypeOK
<1>2. CASE described.place \in DOMAIN keys[target].bytes
  <2> DEFINE p == described.place
             new == (keys[target].bytes[p] \ described.mask) \union Bits(v * 2^described.shift)
  <2>1. target \in Seqs /\ keys \in [Seqs -> KeySeqs]
    BY DEF EditInv, EditorTypeOK
  <2>2. keys[target].bytes \in [Places -> Octets] /\ p \in Places
    BY <1>2, <2>1 DEF KeySeqs
  <2>3. new \in Octets
    <3>1. Bits(v * 2^described.shift) \in Octets
      BY DEF Bits, Octets
    <3>2. keys[target].bytes[p] \in Octets
      BY <2>2
    <3>3. QED
      BY <3>1, <3>2 DEF Octets
  <2>4. keys' = [keys EXCEPT ![target].bytes[p] = new]
    BY <1>2 DEF Turn, Store
  <2>5. described # NoField
    BY <2>2, EditorAssumption DEF NoField
  <2>6. target \in selected
    BY <2>5 DEF EditInv
  <2> HIDE DEF p, new
  <2>7. [keys[target] EXCEPT !.bytes[p] = new] \in KeySeqs
    BY <2>1, <2>2, <2>3 DEF KeySeqs
  <2>8. keys' = [keys EXCEPT ![target] = [keys[target] EXCEPT !.bytes[p] = new]]
    BY <2>1, <2>4
  <2>9. QED
    BY <2>1, <2>6, <2>7, <2>8
<1>3. QED
  BY <1>1, <1>2

(* A change of the selected key's action reaches no other sequence.        *)
LEMMA ActionStep ==
  ASSUME EditInv, editor = "edit_key", NEW a \in 0..LastAction, SetAction(a)
  PROVE  /\ keys' \in [Seqs -> KeySeqs]
         /\ \A s \in Seqs \ selected : keys'[s] = keys[s]
<1>1. seq \in selected /\ seq \in Seqs /\ keys \in [Seqs -> KeySeqs]
  BY DEF EditInv, EditorTypeOK
<1>2. [keys[seq] EXCEPT !.action = a] \in KeySeqs
  BY <1>1 DEF KeySeqs
<1>3. keys' = [keys EXCEPT ![seq] = [keys[seq] EXCEPT !.action = a]]
  BY <1>1 DEF SetAction
<1>4. QED
  BY <1>1, <1>2, <1>3

(* What is left to show of a step that edits the selected key.             *)
LEMMA EditingStep ==
  ASSUME EditInv, editor = "edit_key",
         keys' \in [Seqs -> KeySeqs],
         \A s \in Seqs \ selected : keys'[s] = keys[s],
         UNCHANGED <<editor, seq, field, described, target, selected>>, UNCHANGED entry
  PROVE  EditInv'
BY DEF EditInv, EditorTypeOK, UnselectedKept, entry

(* Every key of the editing menu keeps the invariant.                      *)
LEMMA EditKeyStep ==
  ASSUME EditInv, NEW c, EditKey(c)
  PROVE  EditInv'
<1>1. editor = "edit_key" /\ UNCHANGED entry
  BY DEF EditKey
<1>2. LastAction \in Nat \ {0} /\ \A a \in 0..LastAction - 1 : a + 1 \in Actions
  BY EditorAssumption DEF LastAction, Actions
<1>3. seq \in Seqs /\ keys[seq].action \in 0..LastAction
  BY DEF EditInv, EditorTypeOK, KeySeqs
<1>4. CASE NextAction
  <2> DEFINE a == IF keys[seq].action >= LastAction THEN 0 ELSE keys[seq].action + 1
  <2>1. a \in 0..LastAction
    BY <1>2, <1>3
  <2>2. SetAction(a) /\ UNCHANGED <<editor, seq, field, described, target, selected>>
    BY <1>4 DEF NextAction
  <2>3. QED
    BY <1>1, <2>1, <2>2, ActionStep, EditingStep
<1>5. CASE PrevAction
  <2> DEFINE a == IF keys[seq].action = 0 THEN LastAction - 1 ELSE keys[seq].action - 1
  <2>1. a \in 0..LastAction
    BY <1>2, <1>3
  <2>2. SetAction(a) /\ UNCHANGED <<editor, seq, field, described, target, selected>>
    BY <1>5 DEF PrevAction
  <2>3. QED
    BY <1>1, <2>1, <2>2, ActionStep, EditingStep
<1>6. CASE NextField
  <2> DEFINE fields == IF keys[seq].action = LastAction
                         THEN <<>> ELSE FieldsOfAction(keys[seq].action)
             next == IF field + 1 < Len(fields) THEN field + 1 ELSE 0
  <2>1. /\ field' = next
        /\ IF fields = <<>> THEN UNCHANGED <<described, target>>
                            ELSE described' = fields[next + 1] /\ target' = seq
        /\ UNCHANGED <<editor, keys, seq, selected>>
    BY <1>6 DEF NextField
  <2>2. fields \in Seq(Fields) /\ Len(fields) \in 0..MaxByte + 1
    <3>1. CASE keys[seq].action = LastAction
      BY <3>1 DEF MaxByte
    <3>2. CASE keys[seq].action # LastAction
      <4>1. keys[seq].action + 1 \in Actions
        BY <3>2, <1>2, <1>3
      <4>2. fields = FieldsOf[keys[seq].action + 1]
        BY <3>2 DEF FieldsOfAction
      <4> HIDE DEF fields, next
      <4>3. \A a \in Actions : FieldsOf[a] \in Seq(Fields)
        BY EditorAssumption DEF Actions
      <4>4. \A a \in Actions : Len(FieldsOf[a]) \in 1..MaxByte + 1
        BY EditorAssumption, Zenon
      <4>5. fields \in Seq(Fields) /\ Len(fields) \in 1..MaxByte + 1
        BY <4>1, <4>2, <4>3, <4>4, Zenon
      <4>6. QED
        BY <4>5 DEF MaxByte
    <3>3. QED
      BY <3>1, <3>2
  <2>3. field \in 0..MaxByte
    BY DEF EditInv, EditorTypeOK
  <2>4. next \in 0..MaxByte /\ (fields # <<>> => next + 1 \in 1..Len(fields))
    <3> HIDE DEF fields, next
    <3>1. Len(fields) \in 0..256 /\ field \in 0..255
      BY <2>2, <2>3 DEF MaxByte
    <3>2. fields # <<>> => Len(fields) # 0
      BY <2>2
    <3>3. ASSUME NEW n \in 0..256, NEW f \in 0..255
          PROVE  LET m == IF f + 1 < n THEN f + 1 ELSE 0
                 IN  m \in 0..255 /\ (n # 0 => m + 1 \in 1..n)
      BY <3>3
    <3>4. next = IF field + 1 < Len(fields) THEN field + 1 ELSE 0
      BY DEF next
    <3>5. QED
      BY <3>1, <3>2, <3>3, <3>4 DEF MaxByte
  <2> HIDE DEF fields, next
  <2>5. CASE fields = <<>>
    BY <1>1, <2>1, <2>4, <2>5 DEF EditInv, EditorTypeOK, UnselectedKept, entry
  <2>6. CASE fields # <<>>
    <3>1. described' \in Fields /\ target' = seq
      BY <2>1, <2>2, <2>4, <2>6
    <3>2. QED
      BY <1>1, <2>1, <2>4, <3>1 DEF EditInv, EditorTypeOK, UnselectedKept, entry
  <2>7. QED
    BY <2>5, <2>6
<1>7. CASE NextValue \/ PrevValue
  <2>1. PICK v : Turn(v)
    BY <1>7 DEF NextValue, PrevValue
  <2>2. UNCHANGED <<editor, seq, field, described, target, selected>>
    BY <1>7 DEF NextValue, PrevValue
  <2>3. QED
    BY <1>1, <2>1, <2>2, StoreStep, EditingStep
<1>8. CASE QuitEdit
  BY <1>1, <1>8 DEF QuitEdit, editing, entry, EditInv, EditorTypeOK, EditorStates, UnselectedKept
<1>9. CASE UNCHANGED <<editor, editing>>
  BY <1>1, <1>9 DEF editing, entry, EditInv, EditorTypeOK, UnselectedKept
<1>10. QED
  BY <1>4, <1>5, <1>6, <1>7, <1>8, <1>9 DEF EditKey

(* So does every other character, in every state of the editor.            *)
LEMMA EditorReadStep ==
  ASSUME EditInv, NEW c, EditorRead(c)
  PROVE  EditInv'
<1> DEFINE Entries == DOMAIN Digit \union {NoDigit}
<1>1. MaxDigits \in Nat
  BY EditorAssumption
<1>2. editor \in EditorStates /\ index \in 0..MaxDigits /\ number \in [0..MaxDigits -> Entries]
  BY DEF EditInv, EditorTypeOK
<1>3. ASSUME number' \in [0..MaxDigits -> Entries], index' \in 0..MaxDigits,
             editor' \in EditorStates \ {"edit_key"}, UNCHANGED editing
      PROVE  EditInv'
  BY <1>3 DEF editing, EditInv, EditorTypeOK, UnselectedKept
<1>4. ASSUME NEW d \in Entries, NEW i \in 0..MaxDigits
      PROVE  [number EXCEPT ![i] = d] \in [0..MaxDigits -> Entries]
  BY <1>2, <1>4
<1>5. CASE SelectKey(c)
  <2>1. KeyOf[c] \in Seqs
    BY <1>5, EditorAssumption DEF SelectKey
  <2>2. QED
    BY <1>5, <2>1 DEF SelectKey, SelectedSeq, entry, EditInv, EditorTypeOK, EditorStates,
                      UnselectedKept
<1>6. CASE EditKey(c)
  BY <1>6, EditKeyStep
<1> HIDE DEF Entries
<1>7. CASE Choose(c)
  <2>1. editor' \in {"read_load_int", "read_save_int", "edit_command", "edit_pinmap",
                     "read_command"}
    BY <1>7 DEF Choose, GoTo
  <2>2. index' \in {0, index} /\ number' = number /\ UNCHANGED editing
    BY <1>7 DEF Choose
  <2>3. QED
    BY <1>1, <1>2, <1>3, <2>1, <2>2 DEF EditorStates
<1>8. CASE EditCommandOther(c)
  BY <1>1, <1>2, <1>3, <1>8 DEF EditCommandOther, entry, EditorStates
<1>9. CASE TypeDigit(c)
  <2>1. c \in Entries /\ index' = index + 1 /\ index < MaxDigits
    BY <1>9 DEF TypeDigit, Entries
  <2>2. number' \in [0..MaxDigits -> Entries] /\ index' \in 0..MaxDigits
    BY <1>1, <1>2, <1>4, <1>9, <2>1 DEF TypeDigit
  <2>3. QED
    BY <1>3, <1>9, <2>2 DEF TypeDigit, EditorStates
<1>10. NoDigit \in Entries
  BY DEF Entries
<1>11. CASE EndLoadNumber(c)
  BY <1>2, <1>3, <1>4, <1>10, <1>11 DEF EndLoadNumber, AfterLoadNumber, EditorStates
<1>12. CASE EndSaveNumber(c)
  BY <1>2, <1>3, <1>4, <1>10, <1>12 DEF EndSaveNumber, EditorStates
<1>13. CASE EditPinmap(c)
  <2>1. editor' \in {"edit_pin_entry", "read_command", "edit_pinmap"}
    BY <1>13 DEF EditPinmap
  <2>2. index' \in {0, index} /\ number' = number /\ UNCHANGED editing
    BY <1>13 DEF EditPinmap
  <2>3. QED
    BY <1>1, <1>2, <1>3, <2>1, <2>2 DEF EditorStates
<1>14. CASE EditPinEntry(c)
  <2>1. number' \in [0..MaxDigits -> Entries]
    BY <1>2, <1>4, <1>14 DEF EditPinEntry, Entries
  <2>2. QED
    BY <1>1, <1>3, <1>14, <2>1 DEF EditPinEntry, EditorStates
<1>15. QED
  BY <1>5, <1>6, <1>7, <1>8, <1>9, <1>11, <1>12, <1>13, <1>14 DEF EditorRead

(* The editor starts with the firmware's sequences.                        *)
LEMMA EditorInitial == EditorInit => EditInv
<1> SUFFICES ASSUME EditorInit PROVE EditInv
  OBVIOUS
<1>1. keys \in [Seqs -> KeySeqs]
  BY EditorAssumption DEF EditorInit
<1>2. FirstSeq \in Seqs /\ MaxDigits \in Nat
  BY EditorAssumption
<1>3. number \in [0..MaxDigits -> DOMAIN Digit \union {NoDigit}] /\ index \in 0..MaxDigits
  <2>1. number = [i \in 0..MaxDigits |-> NoDigit] /\ index = 0
    BY DEF EditorInit
  <2>2. QED
    BY <1>2, <2>1
<1>4. QED
  BY <1>1, <1>2, <1>3
     DEF EditorInit, EditInv, EditorTypeOK, EditorStates, UnselectedKept, MaxByte

(* So does every new editor.                                               *)
LEMMA EditorBegins == EditorBegin => EditInv'
<1> SUFFICES ASSUME EditorBegin PROVE EditInv'
  OBVIOUS
<1>1. (keys \in [Seqs -> KeySeqs])'
  BY EditorAssumption DEF EditorBegin
<1>2. FirstSeq \in Seqs /\ MaxDigits \in Nat
  BY EditorAssumption
<1>3. (number \in [0..MaxDigits -> DOMAIN Digit \union {NoDigit}] /\ index \in 0..MaxDigits)'
  <2>1. number' = [i \in 0..MaxDigits |-> NoDigit] /\ index' = 0
    BY DEF EditorBegin
  <2>2. QED
    BY <1>2, <2>1
<1>4. QED
  BY <1>1, <1>2, <1>3
     DEF EditorBegin, EditInv, EditorTypeOK, EditorStates, UnselectedKept, MaxByte

(* No step of any menu breaks the editor's invariant.                      *)
LEMMA EditStep == EditInv /\ [Next]_vars => EditInv'
<1> SUFFICES ASSUME EditInv, [Next]_vars PROVE EditInv'
  OBVIOUS
<1>1. ASSUME UNCHANGED editorVars PROVE EditInv'
  BY <1>1 DEF editorVars, editing, entry, EditInv, EditorTypeOK, UnselectedKept
<1>2. ASSUME NEW c \in Chars, EditorPoll(c) PROVE EditInv'
  BY <1>2, EditorReadStep, EditorBegins DEF EditorPoll
<1>3. CASE EditorCompute
  BY <1>3 DEF EditorCompute, SaveKeymap, editing, entry,
              EditInv, EditorTypeOK, EditorStates, UnselectedKept
<1>4. CASE WatchdogReset
  BY <1>4, EditorBegins DEF WatchdogReset
<1>5. ASSUME NEW c \in Chars, MainPoll(c) \/ GpioPoll(c) \/ EepromPoll(c) PROVE EditInv'
  BY <1>5, <1>1 DEF MainPoll, GpioPoll, EepromPoll
<1>6. CASE MainUsage \/ GpioCompute \/ EepromSetValue \/ EditorAbort
  BY <1>6, <1>1 DEF MainUsage, GpioCompute, EepromSetValue, EditorAbort
<1>7. CASE IdlePoll \/ UNCHANGED vars
  BY <1>7, <1>1 DEF IdlePoll, vars
<1>8. QED
  BY <1>2, <1>3, <1>4, <1>5, <1>6, <1>7 DEF Next, Type, Compute

(* The editor never touches the sequence of a key that was not selected,   *)
(* although its field pointer outlives the key it was taken from.          *)
THEOREM KeysAreKept == Spec => []UnselectedKept
<1>1. Init => EditInv
  BY EditorInitial DEF Init
<1>2. EditInv => UnselectedKept
  BY DEF EditInv
<1>3. QED
  BY <1>1, <1>2, EditStep, PTL DEF Spec
-----------------------------------------------------------------------------
(* The gpio menu.  While a command is taken in, what the parser holds is   *)
(* what was typed: the command, the port letter, the digits so far.        *)
Parsed ==
    /\ gpio = "read_port" => Len(typed) = 1 /\ count = ParamCount(cmd) /\ digits = <<>>
    /\ gpio \in {"read_param", "convert_value"} =>
         /\ count = 1 /\ cmd # "i"
         /\ Len(typed) = 2 + Len(digits) /\ typed[2] = letter
         /\ \A i \in 1..Len(digits) : typed[i + 2] = digits[i]
    /\ gpio = "call_func" =>
         /\ typed[2] = letter
         /\ IF cmd = "i" THEN Len(typed) = 2
                         ELSE Len(typed) = 4 /\ params[0] = TypedValue

GpioInv ==
    /\ GpioTypeOK
    /\ typed \in Seq(Chars)
    /\ gpio # "read_command" => cmd \in Commands /\ Len(typed) > 0 /\ typed[1] = cmd
    /\ gpio = "read_port" => cmd \notin AnalogCommands
    /\ gpio = "read_param" => Len(digits) < HexDigits
    /\ gpio = "convert_value" => Len(digits) = HexDigits
    /\ gpio \in {"read_param", "convert_value"} => count > 0
    /\ cmd \notin AnalogCommands => Parsed

(* Only i takes no parameter, only A takes two.                            *)
LEMMA ParamCounts == \A c \in Commands : ParamCount(c) \in 0..ParamsMax
                                          /\ (ParamCount(c) = 0 <=> c = "i")
                                          /\ (c \notin AnalogCommands => ParamCount(c) < 2)
  BY DEF ParamCount, ParamsMax, Commands, AnalogCommands

(* Two digits say a number below the square of the base.                   *)
LEMMA ValueInRange ==
  ASSUME NEW d \in Seq(DOMAIN Hex), Len(d) = 2
  PROVE  Value(d) \in Values
<1>1. Base \in Nat /\ Hex[d[1]] \in 0..Base - 1 /\ Hex[d[2]] \in 0..Base - 1
  <2>1. d[1] \in DOMAIN Hex /\ d[2] \in DOMAIN Hex
    OBVIOUS
  <2>2. QED
    BY <2>1, GpioAssumption
<1>2. ASSUME NEW b \in Nat, NEW x \in 0..b - 1, NEW y \in 0..b - 1
      PROVE  b * x + y \in 0..b * b - 1
  <2>1. b * x \in Nat /\ b * (b - 1) = b * b - b
    BY <1>2
  <2>2. b * x <= b * (b - 1)
    BY <1>2
  <2>3. QED
    BY <2>1, <2>2
<1>3. QED
  BY <1>1, <1>2 DEF Value, Values

(* What Append adds and what it keeps.                                     *)
LEMMA AppendFacts ==
  ASSUME NEW T, NEW s \in Seq(T), NEW c \in T
  PROVE  /\ Append(s, c) \in Seq(T) /\ Len(Append(s, c)) = Len(s) + 1
         /\ Append(s, c)[Len(s) + 1] = c
         /\ \A i \in 1..Len(s) : Append(s, c)[i] = s[i]
OBVIOUS

(* The type of a step of the parser that leaves the registers alone.       *)
LEMMA RestOfType ==
  ASSUME GpioInv, gpio' \in GpioStates, cmd' \in Commands, letter' \in PortLetters \union {letter},
         digits' \in {<<>>, digits}, params' \in {params} \union [0..ParamsMax - 1 -> Values],
         count' \in 0..ParamsMax, UNCHANGED registers
  PROVE  GpioTypeOK'
<1>1. digits' \in Seq(DOMAIN Hex) /\ Len(digits') <= HexDigits
  <2>1. digits \in Seq(DOMAIN Hex) /\ Len(digits) <= HexDigits
    BY DEF GpioInv, GpioTypeOK
  <2>2. CASE digits' = digits
    BY <2>1, <2>2
  <2>3. CASE digits' = <<>>
    BY <2>3 DEF HexDigits
  <2>4. QED
    BY <2>2, <2>3
<1>2. out' = out /\ ddr' = ddr
  BY DEF registers
<1>3. params' \in [0..ParamsMax - 1 -> Values]
  BY DEF GpioInv, GpioTypeOK
<1>4. letter' \in PortLetters \union {NoCommand}
  BY DEF GpioInv, GpioTypeOK
<1>5. ({out, ddr} \subseteq [Ports -> Octets])'
  BY <1>2 DEF GpioInv, GpioTypeOK
<1>6. QED
  BY <1>1, <1>3, <1>4, <1>5 DEF GpioTypeOK

(* A prompt starts with nothing typed and nothing parsed.                  *)
LEMMA FreshStep ==
  ASSUME GpioFresh, registers' \in [Ports -> Octets] \X [Ports -> Octets]
  PROVE  GpioInv'
<1>1. 0 \in Values
  BY GpioAssumption DEF Values
<1>2. params' \in [0..ParamsMax - 1 -> Values]
  BY <1>1 DEF GpioFresh
<1>3. GpioTypeOK'
  BY <1>2 DEF GpioFresh, GpioTypeOK, GpioStates, NoCommand, HexDigits, ParamsMax, registers
<1>4. gpio' = "read_command" /\ typed' = <<>>
  BY DEF GpioFresh
<1>5. QED
  BY <1>3, <1>4 DEF GpioInv, Parsed

(* A command letter is the first thing typed.                              *)
LEMMA ReadCommandStep ==
  ASSUME GpioInv, NEW c \in Chars, ReadCommand(c)
  PROVE  GpioInv'
<1> USE DEF ReadCommand, HexDigits
<1>1. c \in Commands /\ ParamCount(c) \in 0..ParamsMax
  BY ParamCounts
<1>2. GpioTypeOK'
  BY <1>1 DEF GpioInv, GpioTypeOK, GpioStates, registers
<1>3. typed' \in Seq(Chars) /\ Len(typed') = 1 /\ typed'[1] = c
  OBVIOUS
<1>4. CASE c \in AnalogCommands
  <2>1. count' > 0 /\ gpio' = "read_param"
    BY <1>4 DEF AnalogCommands, ParamCount
  <2>2. QED
    BY <1>1, <1>2, <1>3, <1>4, <2>1 DEF GpioInv
<1>5. CASE c \notin AnalogCommands
  BY <1>1, <1>2, <1>3, <1>5 DEF GpioInv, Parsed
<1>6. QED
  BY <1>4, <1>5

(* A port letter is the second.                                            *)
LEMMA ReadPortStep ==
  ASSUME GpioInv, NEW c \in Chars, ReadPort(c)
  PROVE  GpioInv'
<1> USE DEF HexDigits
<1>1. /\ cmd \in Commands \ AnalogCommands /\ count = ParamCount(cmd) /\ digits = <<>>
      /\ typed \in Seq(Chars) /\ Len(typed) = 1 /\ typed[1] = cmd
  BY DEF GpioInv, Parsed, ReadPort
<1>2. /\ c \in PortLetters /\ letter' = c /\ typed' = Append(typed, c) /\ digits' = <<>>
      /\ gpio' = IF count > 0 THEN "read_param" ELSE "call_func"
      /\ cmd' = cmd /\ params' = params /\ count' = count /\ UNCHANGED registers
  BY <1>1 DEF ReadPort, ReadParamNext
<1>3. typed' \in Seq(Chars) /\ Len(typed') = 2 /\ typed'[1] = cmd /\ typed'[2] = letter'
  <2>1. typed \in Seq(Chars)
    BY <1>1
  <2>2. /\ Append(typed, c) \in Seq(Chars) /\ Len(Append(typed, c)) = Len(typed) + 1
        /\ Append(typed, c)[Len(typed) + 1] = c
        /\ \A i \in 1..Len(typed) : Append(typed, c)[i] = typed[i]
    BY <2>1, AppendFacts
  <2>3. Len(typed) = 1 /\ typed[1] = cmd /\ typed' = Append(typed, c) /\ letter' = c
    BY <1>1, <1>2
  <2>4. QED
    BY <2>2, <2>3
<1>4. count \in {0, 1} /\ (count = 0 <=> cmd = "i")
  BY <1>1, ParamCounts DEF ParamsMax
<1>5. GpioTypeOK'
  <2>1. gpio' \in GpioStates /\ count' \in 0..ParamsMax
    BY <1>2, <1>4 DEF GpioStates, ParamsMax
  <2>2. /\ cmd' \in Commands /\ letter' \in PortLetters \union {letter}
        /\ digits' \in {<<>>, digits} /\ params' \in {params} \union [0..ParamsMax - 1 -> Values]
        /\ UNCHANGED registers
    BY <1>1, <1>2, Zenon
  <2>3. QED
    BY <2>1, <2>2, RestOfType, Zenon
<1>6. CASE count = 0
  BY <1>1, <1>2, <1>3, <1>4, <1>5, <1>6 DEF GpioInv, Parsed
<1>7. CASE count = 1
  BY <1>1, <1>2, <1>3, <1>4, <1>5, <1>7 DEF GpioInv, Parsed
<1>8. QED
  BY <1>4, <1>6, <1>7

(* A digit is typed as it is put in m_value.                               *)
LEMMA ReadParamStep ==
  ASSUME GpioInv, NEW c \in Chars, ReadParam(c)
  PROVE  GpioInv'
<1> USE DEF ReadParam, HexDigits
<1>1. /\ digits \in Seq(DOMAIN Hex) /\ Len(digits) < 2
      /\ typed \in Seq(Chars) /\ Len(typed) > 0 /\ typed[1] = cmd
  BY DEF GpioInv, GpioTypeOK
<1>2. /\ digits' \in Seq(DOMAIN Hex) /\ Len(digits') = Len(digits) + 1
      /\ digits'[Len(digits')] = c
      /\ \A i \in 1..Len(digits) : digits'[i] = digits[i]
  BY <1>1
<1>3. /\ typed' \in Seq(Chars) /\ Len(typed') = Len(typed) + 1 /\ typed'[Len(typed')] = c
      /\ \A i \in 1..Len(typed) : typed'[i] = typed[i]
  BY <1>1
<1>4. gpio' = IF Len(digits') = 2 THEN "convert_value" ELSE "read_param"
  OBVIOUS
<1>5. GpioTypeOK'
  BY <1>1, <1>2, <1>4 DEF GpioInv, GpioTypeOK, GpioStates, registers
<1>6. ASSUME cmd \notin AnalogCommands PROVE Parsed'
  <2>1. /\ count = 1 /\ cmd # "i"
        /\ Len(typed) = 2 + Len(digits) /\ typed[2] = letter
        /\ \A i \in 1..Len(digits) : typed[i + 2] = digits[i]
    BY <1>6 DEF GpioInv, Parsed
  <2>2. Len(typed') = 2 + Len(digits') /\ typed'[2] = letter'
    BY <1>1, <1>2, <1>3, <2>1
  <2>3. \A i \in 1..Len(digits') : typed'[i + 2] = digits'[i]
    BY <1>1, <1>2, <1>3, <2>1
  <2>4. QED
    BY <1>4, <2>1, <2>2, <2>3 DEF Parsed
<1>7. cmd \in Commands /\ count > 0 /\ cmd' = cmd /\ count' = count /\ typed'[1] = cmd
  BY <1>1, <1>3 DEF GpioInv
<1>8. QED
  BY <1>1, <1>2, <1>3, <1>4, <1>5, <1>6, <1>7 DEF GpioInv

(* Two digits become the parameter they were typed for.                    *)
LEMMA ConvertValueStep ==
  ASSUME GpioInv, ConvertValue
  PROVE  GpioInv'
<1> USE DEF ConvertValue, ReadParamNext, HexDigits, ParamsMax
<1>1. /\ digits \in Seq(DOMAIN Hex) /\ Len(digits) = 2
      /\ count \in 1..2 /\ params \in [0..1 -> Values]
      /\ cmd \in Commands
  BY DEF GpioInv, GpioTypeOK
<1>2. Value(digits) \in Values
  BY <1>1, ValueInRange
<1>3. params' \in [0..1 -> Values] /\ params'[count - 1] = Value(digits)
  BY <1>1, <1>2
<1>4. count' = count - 1 /\ count' \in 0..1
  BY <1>1
<1>5. GpioTypeOK'
  <2>1. digits' \in {<<>>, digits} /\ gpio' \in GpioStates
        /\ cmd' = cmd /\ letter' = letter /\ UNCHANGED registers
    BY DEF GpioStates
  <2>2. QED
    BY <1>1, <1>3, <1>4, <2>1, RestOfType
<1>6. ASSUME cmd \notin AnalogCommands PROVE Parsed'
  <2>1. /\ count = 1 /\ cmd # "i"
        /\ Len(typed) = 4 /\ typed[2] = letter
        /\ typed[3] = digits[1] /\ typed[4] = digits[2]
    BY <1>1, <1>6 DEF GpioInv, Parsed
  <2>2. params'[0] = Value(digits) /\ gpio' = "call_func"
    BY <1>3, <1>4, <2>1
  <2>3. TypedValue = Value(digits)
    BY <2>1 DEF TypedValue, Value
  <2>4. TypedValue' = TypedValue
    BY DEF TypedValue
  <2>5. QED
    BY <2>1, <2>2, <2>3, <2>4 DEF Parsed
<1>7. gpio' \in {"call_func", "read_param"} /\ (gpio' = "read_param" => digits' = <<>> /\ count' > 0)
  BY <1>4
<1>8. cmd' = cmd /\ typed' = typed /\ typed \in Seq(Chars) /\ Len(typed) > 0 /\ typed[1] = cmd
  BY DEF GpioInv
<1>9. QED
  BY <1>1, <1>5, <1>6, <1>7, <1>8 DEF GpioInv

(* The function of a command leaves octets in the registers.               *)
LEMMA CallFuncStep ==
  ASSUME GpioInv, CallFunc
  PROVE  GpioInv'
<1>1. 0 \in 0..Width - 1
  BY WidthAssumption
<1>2. \A n : Bits(n) \in Octets /\ Bit(n) \in Octets
  BY DEF Bits, Bit, Octets
<1>3. ASSUME NEW r \in Octets PROVE PortFunc(cmd, r) \in Octets /\ DdrFunc(cmd, r) \in Octets
  BY <1>1, <1>2, <1>3 DEF PortFunc, DdrFunc, Octets
<1>4. out \in [Ports -> Octets] /\ ddr \in [Ports -> Octets]
  BY DEF GpioInv, GpioTypeOK
<1>5. out' \in [Ports -> Octets] /\ ddr' \in [Ports -> Octets]
  BY <1>3, <1>4 DEF CallFunc
<1>6. registers' \in [Ports -> Octets] \X [Ports -> Octets]
  BY <1>5 DEF registers
<1>7. QED
  BY <1>6, FreshStep DEF CallFunc

(* Whatever is read keeps the parser to what was typed.                    *)
LEMMA GpioReadStep ==
  ASSUME GpioInv, NEW c \in Chars, GpioRead(c)
  PROVE  GpioInv'
<1>1. CASE ReadError(c)
  <2>1. registers \in [Ports -> Octets] \X [Ports -> Octets]
    BY DEF GpioInv, GpioTypeOK, registers
  <2>2. QED
    BY <1>1, <2>1, FreshStep DEF ReadError
<1>2. CASE PassOver(c)
  BY <1>2 DEF PassOver, gpioVars, parse, registers, GpioInv, GpioTypeOK, Parsed, TypedValue
<1>3. QED
  BY <1>1, <1>2, ReadCommandStep, ReadPortStep, ReadParamStep DEF GpioRead

(* A command is taken in only while the gpio menu is up.                   *)
CommandInMenu == gpio # "read_command" => pc = "poll" /\ heap[1] = "gpio"

ConsoleInv == LifeInv /\ GpioInv /\ CommandInMenu

(* A menu opened or freed has no command in hand.                          *)
LEMMA GpioBegins ==
  ASSUME GpioBegin \/ GpioEnd
  PROVE  GpioInv' /\ gpio' = "read_command"
<1>1. {} \in Octets
  BY DEF Octets
<1>2. registers' \in [Ports -> Octets] \X [Ports -> Octets]
  BY <1>1 DEF GpioBegin, GpioEnd, registers
<1>3. QED
  BY <1>2, FreshStep DEF GpioBegin, GpioEnd, GpioFresh

(* The main menu starts with no command in hand.                           *)
LEMMA ConsoleInit == Init => ConsoleInv
<1> SUFFICES ASSUME Init PROVE ConsoleInv
  OBVIOUS
<1>1. /\ gpio = "read_command" /\ cmd = NoCommand /\ letter = NoCommand
      /\ digits = <<>> /\ count = 0 /\ typed = <<>>
      /\ params = [i \in 0..ParamsMax - 1 |-> 0]
      /\ out = [p \in Ports |-> {}] /\ ddr = [p \in Ports |-> {}]
  BY DEF Init, GpioInit
<1>2. 0 \in Values /\ {} \in Octets
  BY GpioAssumption DEF Values, Octets
<1>3. GpioTypeOK
  BY <1>1, <1>2 DEF GpioTypeOK, GpioStates, NoCommand, HexDigits, ParamsMax
<1>4. GpioInv
  BY <1>1, <1>3 DEF GpioInv, Parsed
<1>5. QED
  BY <1>1, <1>4, LifeInit DEF ConsoleInv, CommandInMenu

(* Commands are taken in and run in their own menu only.                   *)
LEMMA ConsoleStep == ConsoleInv /\ [Next]_vars => ConsoleInv'
<1> SUFFICES ASSUME ConsoleInv, [Next]_vars PROVE GpioInv' /\ CommandInMenu'
  BY LifeStep DEF ConsoleInv
<1>1. LifeInv /\ GpioInv /\ CommandInMenu /\ menu = 1
  BY DEF ConsoleInv, LifeInv
<1>2. ASSUME UNCHANGED gpioVars PROVE GpioInv'
  BY <1>1, <1>2 DEF gpioVars, parse, registers, GpioInv, GpioTypeOK, Parsed, TypedValue
<1>3. ASSUME UNCHANGED gpioVars, gpio = "read_command" PROVE GpioInv' /\ CommandInMenu'
  BY <1>2, <1>3 DEF gpioVars, CommandInMenu
<1>4. ASSUME UNCHANGED gpioVars, UNCHANGED lifeVars PROVE GpioInv' /\ CommandInMenu'
  BY <1>1, <1>2, <1>4 DEF gpioVars, lifeVars, CommandInMenu
<1>5. ASSUME pc = "poll", heap[1] = "gpio", UNCHANGED lifeVars PROVE CommandInMenu'
  BY <1>5 DEF lifeVars, CommandInMenu
<1>6. ASSUME NEW c \in Chars, MainPoll(c) PROVE GpioInv' /\ CommandInMenu'
  <2>1. gpio = "read_command"
    BY <1>1, <1>6 DEF MainPoll, In, CommandInMenu
  <2>2. CASE c = "g"
    BY <1>6, <2>2, GpioBegins DEF MainPoll, CommandInMenu
  <2>3. CASE c # "g"
    BY <1>3, <1>6, <2>1, <2>3 DEF MainPoll
  <2>4. QED
    BY <2>2, <2>3
<1>7. ASSUME NEW c \in Chars, GpioPoll(c) PROVE GpioInv' /\ CommandInMenu'
  <2>1. pc = "poll" /\ heap[1] = "gpio"
    BY <1>1, <1>7 DEF GpioPoll, In
  <2>2. CASE GpioQuits(c)
    BY <1>7, <2>2, GpioBegins DEF GpioPoll, CommandInMenu
  <2>3. CASE ~GpioQuits(c)
    BY <1>1, <1>5, <1>7, <2>1, <2>3, GpioReadStep DEF GpioPoll
  <2>4. QED
    BY <2>2, <2>3
<1>8. CASE GpioCompute
  <2>1. pc = "poll" /\ heap[1] = "gpio" /\ UNCHANGED lifeVars
    BY <1>1, <1>8 DEF GpioCompute, In
  <2>2. QED
    BY <1>1, <1>5, <1>8, <2>1, ConvertValueStep, CallFuncStep DEF GpioCompute, GpioStep
<1>9. ASSUME NEW c \in Chars, EditorPoll(c) \/ EepromPoll(c) PROVE GpioInv' /\ CommandInMenu'
  <2>1. gpio = "read_command" /\ UNCHANGED gpioVars
    BY <1>1, <1>9 DEF EditorPoll, EepromPoll, In, CommandInMenu
  <2>2. QED
    BY <1>3, <2>1
<1>10. CASE EditorCompute \/ EepromSetValue
  BY <1>4, <1>10 DEF EditorCompute, EepromSetValue
<1>11. CASE EditorAbort \/ MainUsage
  <2>1. gpio = "read_command" /\ UNCHANGED gpioVars
    BY <1>1, <1>11 DEF EditorAbort, MainUsage, In, CommandInMenu
  <2>2. QED
    BY <1>3, <2>1
<1>12. CASE WatchdogReset
  BY <1>12, GpioBegins DEF WatchdogReset, CommandInMenu
<1>13. CASE IdlePoll \/ UNCHANGED vars
  BY <1>4, <1>13 DEF IdlePoll, vars
<1>14. QED
  BY <1>6, <1>7, <1>8, <1>9, <1>10, <1>11, <1>12, <1>13 DEF Next, Type, Compute

(* The step that runs a command changes the port that was typed as the     *)
(* help text says, if the command is not one of the two that do otherwise. *)
LEMMA CallFuncHelps ==
  ASSUME {"s", "^"} \subseteq Divergent, ConsoleInv, CallFunc,
         typed[1] \notin Divergent \union AnalogCommands, NEW p \in Ports
  PROVE  /\ out'[p] = IF p = typed[2] THEN HelpPort(typed[1], TypedValue, out[p]) ELSE out[p]
         /\ ddr'[p] = IF p = typed[2] THEN HelpDdr(typed[1], TypedValue, ddr[p]) ELSE ddr[p]
<1>1. /\ typed[1] = cmd /\ typed[2] = letter /\ cmd \in Commands
      /\ cmd # "i" => params[0] = TypedValue
  BY DEF ConsoleInv, GpioInv, Parsed, CallFunc
<1>2. /\ out'[p] = IF p = letter THEN PortFunc(cmd, out[p]) ELSE out[p]
      /\ ddr'[p] = IF p = letter THEN DdrFunc(cmd, ddr[p]) ELSE ddr[p]
  BY DEF CallFunc
<1>3. PortFunc(cmd, out[p]) = HelpPort(cmd, TypedValue, out[p])
  <2>1. cmd # "s" /\ cmd # "^"
    BY <1>1
  <2>2. QED
    BY <1>1, <2>1 DEF PortFunc, HelpPort
<1>4. DdrFunc(cmd, ddr[p]) = HelpDdr(cmd, TypedValue, ddr[p])
  BY <1>1 DEF DdrFunc, HelpDdr
<1>5. QED
  BY <1>1, <1>2, <1>3, <1>4

(* Whatever was typed before it, abandoned or in error, a gpio command     *)
(* acts on the port and with the value that were typed for it, as the help *)
(* text says, for every width of a register and every base.                *)
THEOREM HelpIsRight ==
  ASSUME {"s", "^"} \subseteq Divergent
  PROVE  Spec => CommandsDoWhatHelpSays
<1> DEFINE Helps == gpio = "call_func" /\ typed[1] \notin Divergent \union AnalogCommands =>
                      \A p \in Ports :
                        /\ out'[p] = IF p = typed[2] THEN HelpPort(typed[1], TypedValue, out[p])
                                                     ELSE out[p]
                        /\ ddr'[p] = IF p = typed[2] THEN HelpDdr(typed[1], TypedValue, ddr[p])
                                                     ELSE ddr[p]
<1>1. ConsoleInv /\ [Next]_vars => [Helps]_gpioVars
  <2> SUFFICES ASSUME ConsoleInv, [Next]_vars, gpio = "call_func", ~UNCHANGED gpioVars,
                      typed[1] \notin Divergent \union AnalogCommands
               PROVE  Helps
    OBVIOUS
  <2>1. pc = "poll" /\ heap[1] = "gpio" /\ menu = 1
    BY DEF ConsoleInv, CommandInMenu, LifeInv
  <2>2. ~(\E c \in Chars : Type(c))
    BY <2>1 DEF Type, MainPoll, GpioPoll, EditorPoll, EepromPoll, In, GpioReading
  <2>3. GpioCompute
    BY <2>1, <2>2 DEF Next, Compute, MainUsage, EditorCompute, EepromSetValue, EditorAbort,
                      WatchdogReset, IdlePoll, In, vars
  <2>4. CallFunc
    BY <2>3 DEF GpioCompute, GpioStep, ConvertValue
  <2>5. QED
    BY <2>4, CallFuncHelps
<1>2. QED
  BY <1>1, ConsoleInit, ConsoleStep, PTL DEF Spec, CommandsDoWhatHelpSays

-----------------------------------------------------------------------------
(* Every variable of the menus keeps its range: in particular no state of  *)
(* a parser outgrows its digits, its parameters or its array.              *)
THEOREM ConsoleTypeCorrect == Spec => []TypeOK
<1> DEFINE EepromOK == eeprom \in {"read_command", "read_int", "set_value"}
<1>1. Init => EepromOK /\ EditInv
  BY EditorInitial DEF Init
<1>2. EepromOK /\ [Next]_vars => EepromOK'
  BY DEF Next, Type, Compute, MainPoll, GpioPoll, EditorPoll, EepromPoll, MainUsage,
         GpioCompute, EditorCompute, EepromSetValue, EditorAbort, WatchdogReset, IdlePoll, vars
<1>3. EepromOK /\ EditInv /\ ConsoleInv => TypeOK
  BY DEF TypeOK, ConsoleInv, LifeInv, EditInv, GpioInv, Addresses
<1>4. QED
  BY <1>1, <1>2, <1>3, ConsoleInit, ConsoleStep, EditStep, PTL DEF Spec
=============================================================================
