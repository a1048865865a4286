------------------------ MODULE EepromConfig_proofs ------------------------
(***************************************************************************)
(* Proofs about the configuration header, for every header, list of ranges *)
(* and list of numbers the user types.                                     *)
(***************************************************************************)
EXTENDS EepromConfig, TLAPS

(* The header holds its version, in its first two bytes, and the byte of   *)
(* every other field.                                                      *)
LEMMA HeaderBytes ==
    /\ Len(Order) \in Nat /\ Len(Order) > 2
    /\ VersionBytes \subseteq Bytes
    /\ {"rows", "mouse_step", "key_arrows", "default_keymap"} \subseteq Bytes \ VersionBytes
    /\ \A i \in 1..Len(Order) : Order[i] \in Bytes
<1>1. Len(Order) \in Nat
  BY ConfigAssumption
<1>2. \A i \in 1..Len(Order) : Order[i] \in Bytes
  BY DEF Bytes
<1>3. {"rows", "mouse_step", "key_arrows", "default_keymap"} \subseteq Bytes \ VersionBytes
  BY ConfigAssumption DEF Fields
<1>4. PICK i \in 1..Len(Order) : Order[i] = "rows"
  BY <1>3 DEF Bytes
<1>5. i # 1 /\ i # 2
  BY <1>4, ConfigAssumption
<1>6. Len(Order) > 2
  BY <1>1, <1>4, <1>5
<1>7. VersionBytes \subseteq Bytes
  BY <1>1, <1>2, <1>6, ConfigAssumption DEF VersionBytes
<1>8. QED
  BY <1>1, <1>2, <1>3, <1>6, <1>7

(* The factory defaults and the zeroed RAM are headers, and a header stays *)
(* one when one of its bytes is stored.                                    *)
LEMMA HeaderStore ==
    /\ Default \in Headers /\ Zeros \in Headers
    /\ \A h \in Headers : \A b \in Bytes : h[b] \in 0..255
    /\ \A h \in Headers : \A n \in 0..255 : \A b : [h EXCEPT ![b] = n] \in Headers
<1>1. Default \in Headers /\ Zeros \in Headers
  BY ConfigAssumption DEF Headers, Zeros
<1>2. ASSUME NEW h \in Headers, NEW n \in 0..255, NEW b
      PROVE  [h EXCEPT ![b] = n] \in Headers
  BY DEF Headers
<1>3. ASSUME NEW h \in Headers, NEW b \in Bytes
      PROVE  h[b] \in 0..255
  BY DEF Headers
<1>4. QED
  BY <1>1, <1>2, <1>3

(* What the menus and the keys make of CONFIG is a header.                 *)
LEMMA NewConfig ==
  ASSUME config \in Headers
  PROVE  /\ \A n \in 0..255 : \A f : Assign(f, n) \in Headers
         /\ [config EXCEPT !["mouse_step"] = Doubled(@)] \in Headers
         /\ [config EXCEPT !["key_arrows"] = IF @ < MaxArrows THEN @ + 1 ELSE 0] \in Headers
<1>1. ASSUME NEW n \in 0..255, NEW f PROVE Assign(f, n) \in Headers
  <2>1. CASE f = "version"
    <3> DEFINE h == [config EXCEPT !["version_lo"] = n]
    <3>1. Assign(f, n) = [h EXCEPT !["version_hi"] = 0]
      BY <2>1 DEF Assign
    <3>2. h \in Headers
      BY HeaderStore
    <3>3. 0 \in 0..255
      OBVIOUS
    <3>4. \A g \in Headers : [g EXCEPT !["version_hi"] = 0] \in Headers
      BY <3>3, HeaderStore, Zenon
    <3> HIDE DEF h
    <3>5. QED
      BY <3>1, <3>2, <3>4, Zenon
  <2>2. CASE f # "version"
    BY <2>2, HeaderStore DEF Assign
  <2>3. QED
    BY <2>1, <2>2
<1>2. [config EXCEPT !["mouse_step"] = Doubled(@)] \in Headers
  <2>1. config["mouse_step"] \in 0..255
    BY HeaderBytes, HeaderStore
  <2>2. Doubled(config["mouse_step"]) \in 0..255
    BY <2>1 DEF Doubled
  <2>3. QED
    BY <2>2, HeaderStore
<1>3. [config EXCEPT !["key_arrows"] = IF @ < MaxArrows THEN @ + 1 ELSE 0] \in Headers
  <2>1. config["key_arrows"] \in 0..255
    BY HeaderBytes, HeaderStore
  <2>2. (IF config["key_arrows"] < MaxArrows THEN config["key_arrows"] + 1 ELSE 0) \in 0..255
    BY <2>1 DEF MaxArrows
  <2>3. QED
    BY <2>2, HeaderStore
<1>4. QED
  BY <1>1, <1>2, <1>3

(* A step of the device, its user or its power supply keeps every variable *)
(* in its range.                                                           *)
LEMMA TypeStep == TypeOK /\ [Next]_vars => TypeOK'
<1> SUFFICES ASSUME TypeOK, [Next]_vars PROVE TypeOK'
  OBVIOUS
<1> USE HeaderBytes, HeaderStore DEF TypeOK
<1>1. CASE BootReset
  BY <1>1 DEF BootReset, menuVars
<1>2. CASE BootRead
  BY <1>2 DEF BootRead
<1>3. CASE WriteByte
  <2>1. rom' \in Headers
    BY <1>3 DEF WriteByte
  <2>2. at' \in 1..Len(Order)
    BY <1>3 DEF WriteByte, MoreBytes
  <2>3. QED
    BY <1>3, <2>1, <2>2 DEF WriteByte
<1>4. CASE PowerCut
  BY <1>4 DEF PowerCut, BuiltIn
<1>5. CASE EraseLocation0
  <2>1. Erased \in 0..255
    BY ConfigAssumption
  <2>2. rom' \in Headers /\ saved' \in Headers
    BY <1>5, <2>1 DEF EraseLocation0
  <2>3. QED
    BY <1>5, <2>2 DEF EraseLocation0, menuVars
<1>6. CASE WriteEeprom
  BY <1>6 DEF WriteEeprom, menuVars
<1>7. CASE HandleEeprom
  BY <1>7 DEF HandleEeprom
<1>8. CASE Quit
  BY <1>8 DEF Quit
<1>9. ASSUME NEW f \in Fields, ChooseField(f) PROVE TypeOK'
  BY <1>9 DEF ChooseField
<1>10. ASSUME NEW n \in 0..255, TypeNumber(n) PROVE TypeOK'
  BY <1>10 DEF TypeNumber
<1>11. CASE TypeError
  BY <1>11 DEF TypeError
<1>12. CASE SetValue
  <2>1. config' \in Headers
    BY <1>12, NewConfig DEF SetValue
  <2>2. QED
    BY <1>12, <2>1 DEF SetValue
<1>13. CASE ToggleArrows
  BY <1>13, NewConfig DEF ToggleArrows, menuVars
<1>14. CASE DoubleStep
  BY <1>14, NewConfig DEF DoubleStep, menuVars
<1>15. CASE UNCHANGED vars
  BY <1>15 DEF vars, menuVars
<1>16. QED
  BY <1>1, <1>2, <1>3, <1>4, <1>5, <1>6, <1>7, <1>8, <1>9, <1>10, <1>11, <1>12, <1>13, <1>14, <1>15
     DEF Next, Boot, Menus

(* So do the values of a device fresh from the programmer.                 *)
LEMMA InitType == Init => TypeOK
<1>1. [b \in Bytes |-> Erased] \in Headers
  BY ConfigAssumption DEF Headers
<1>2. QED
  BY <1>1, HeaderBytes, HeaderStore DEF Init, TypeOK, BuiltIn

(* Every variable keeps its range, wherever the power fails.               *)
THEOREM TypeCorrect == Spec => []TypeOK
BY InitType, TypeStep, PTL DEF Spec

-----------------------------------------------------------------------------
(* While write() is busy, the bytes before the one it stores next are      *)
(* CONFIG's; unless a write was cut short, EEPROM holds the last one.      *)
Copied == pc = "write" => \A i \in 1..at - 1 : rom[Order[i]] = config[Order[i]]
RomIsSaved == ~torn => rom = saved

SaveInv == TypeOK /\ Copied /\ RomIsSaved

(* The byte that write() stores joins those before it, and after the last  *)
(* one EEPROM holds CONFIG.                                                *)
LEMMA ByteStored ==
  ASSUME SaveInv, WriteByte
  PROVE  /\ \A i \in 1..at : rom'[Order[i]] = config[Order[i]]
         /\ ~MoreBytes => rom' = config
<1> USE HeaderBytes DEF SaveInv, TypeOK
<1>1. Order[at] \in Bytes /\ rom \in Headers /\ config \in Headers
  OBVIOUS
<1>2. rom' = [rom EXCEPT ![Order[at]] = config[Order[at]]]
  BY DEF WriteByte
<1>3. ASSUME NEW i \in 1..at PROVE rom'[Order[i]] = config[Order[i]]
  <2>1. Order[i] \in Bytes
    OBVIOUS
  <2>2. CASE Order[i] = Order[at]
    BY <1>1, <1>2, <2>2 DEF Headers
  <2>3. CASE Order[i] # Order[at]
    <3>1. i \in 1..at - 1
      BY <2>3
    <3>2. rom[Order[i]] = config[Order[i]]
      BY <3>1 DEF WriteByte, Copied
    <3>3. QED
      BY <1>1, <1>2, <2>1, <2>3, <3>2 DEF Headers
  <2>4. QED
    BY <2>2, <2>3
<1>4. ASSUME ~MoreBytes PROVE rom' = config
  <2>1. at = Len(Order)
    BY <1>4 DEF MoreBytes
  <2>2. \A b \in Bytes : rom'[b] = config[b]
    BY <1>3, <2>1 DEF Bytes
  <2>3. QED
    BY <1>1, <1>2, <2>2 DEF Headers
<1>5. QED
  BY <1>3, <1>4

(* A step keeps what EEPROM and the copy of the last complete write share. *)
LEMMA SaveStep == SaveInv /\ [Next]_vars => SaveInv'
<1> SUFFICES ASSUME SaveInv, [Next]_vars PROVE Copied' /\ RomIsSaved'
  BY TypeStep DEF SaveInv
<1> USE DEF SaveInv, Copied, RomIsSaved
<1>1. CASE BootReset
  BY <1>1 DEF BootReset
<1>2. CASE BootRead
  BY <1>2 DEF BootRead
<1>3. CASE WriteByte
  <2>1. at \in Nat
    BY HeaderBytes DEF TypeOK
  <2>2. CASE MoreBytes
    BY <1>3, <2>1, <2>2, ByteStored DEF WriteByte
  <2>3. CASE ~MoreBytes
    BY <1>3, <2>3, ByteStored DEF WriteByte
  <2>4. QED
    BY <2>2, <2>3
<1>4. CASE PowerCut
  BY <1>4 DEF PowerCut
<1>5. CASE EraseLocation0
  BY <1>5 DEF EraseLocation0
<1>6. CASE WriteEeprom
  BY <1>6 DEF WriteEeprom
<1>7. CASE HandleEeprom
  BY <1>7 DEF HandleEeprom, Running
<1>8. CASE Quit
  BY <1>8 DEF Quit, Running
<1>9. ASSUME NEW f \in Fields, ChooseField(f) PROVE Copied' /\ RomIsSaved'
  BY <1>9 DEF ChooseField, Running
<1>10. ASSUME NEW n \in 0..255, TypeNumber(n) PROVE Copied' /\ RomIsSaved'
  BY <1>10 DEF TypeNumber, Running
<1>11. CASE TypeError
  BY <1>11 DEF TypeError, Running
<1>12. CASE SetValue
  BY <1>12 DEF SetValue, Running
<1>13. CASE ToggleArrows
  BY <1>13 DEF ToggleArrows, Running
<1>14. CASE DoubleStep
  BY <1>14 DEF DoubleStep, Running
<1>15. CASE UNCHANGED vars
  BY <1>15 DEF vars
<1>16. QED
  BY <1>1, <1>2, <1>3, <1>4, <1>5, <1>6, <1>7, <1>8, <1>9, <1>10, <1>11, <1>12, <1>13, <1>14, <1>15
     DEF Next, Boot, Menus

(* What a device fresh from the programmer holds is of type and counts as  *)
(* cut short.                                                              *)
LEMMA SaveInit == Init => SaveInv
BY InitType DEF Init, SaveInv, Copied, RomIsSaved

(* A boot brings back what the last complete save wrote, or the factory    *)
(* defaults if its version is not theirs, wherever power has failed since  *)
(* before or after it (init, write, write_eeprom).                         *)
THEOREM BootRestoresSaved == Spec => BootRestores
<1>1. SaveInv /\ [Next]_vars =>
        [pc = "off" /\ pc' # "off" /\ ~torn =>
           config' = IF Version(saved) = Version(Default) THEN saved ELSE Default]_vars
  <2> SUFFICES ASSUME SaveInv, Next, pc = "off", pc' # "off", ~torn
               PROVE  config' = IF Version(saved) = Version(Default) THEN saved ELSE Default
    BY DEF vars
  <2>1. rom = saved
    BY DEF SaveInv, RomIsSaved
  <2>2. CASE Boot
    BY <2>1, <2>2 DEF Boot, BootReset, BootRead
  <2>3. CASE EraseLocation0
    BY <2>3 DEF EraseLocation0
  <2>4. CASE WriteByte \/ PowerCut \/ Menus \/ ToggleArrows \/ DoubleStep
    BY <2>4 DEF WriteByte, PowerCut, ToggleArrows, DoubleStep, Menus, WriteEeprom, HandleEeprom,
                Quit, ChooseField, TypeNumber, TypeError, SetValue, Running
  <2>5. QED
    BY <2>2, <2>3, <2>4 DEF Next
<1>2. QED
  BY <1>1, SaveInit, SaveStep, PTL DEF Spec, BootRestores

-----------------------------------------------------------------------------
(* The two fields whose values the keypad's code relies on, and those      *)
(* values.                                                                 *)
Guarded == {"rows", "mouse_step"}
Sound(b) == IF b = "rows" THEN 1..MaxRows ELSE 1..MaxMouseStep - 1

(* Such a byte is erased in EEPROM only until the first write has ended,   *)
(* and a header whose write was cut off before it has no valid version.    *)
Kept(b) ==
    /\ pc # "off" => config[b] \in Sound(b)
    /\ rom[b] \in Sound(b) \union {Erased}
    /\ pc = "run" => rom[b] # Erased
    /\ pc = "off" /\ rom[b] = Erased => rom["version_hi"] = Erased

IInv == SaveInv /\ \A b \in Guarded : Kept(b)

(* The header's list keeps both fields sound by default and in their menu  *)
(* entries, whose numbers are bytes that erased memory does not hold.      *)
LEMMA SoundRange ==
  ASSUME NEW b \in Guarded
  PROVE  /\ b \in Bytes \ VersionBytes
         /\ b \notin {"version", "key_arrows", "version_lo", "version_hi"}
         /\ Erased \notin Sound(b)
         /\ Default[b] \in Sound(b)
         /\ \A n : InRange(b, n) => n \in Sound(b)
<1>1. b \in Bytes \ VersionBytes
  BY HeaderBytes DEF Guarded
<1>2. Erased \notin Sound(b) /\ Default[b] \in Sound(b)
  BY ConfigAssumption, RangeAssumption DEF Guarded, Sound
<1>3. ASSUME NEW n, InRange(b, n) PROVE n \in Sound(b)
  BY <1>3, RangeAssumption DEF InRange, Guarded, Sound
<1>4. QED
  BY <1>1, <1>2, <1>3 DEF Guarded

(* The key that doubles the mouse step comes round before it reaches the   *)
(* maximum, and never to 0.                                                *)
LEMMA DoubledSound == \A n \in Sound("mouse_step") : Doubled(n) \in Sound("mouse_step")
BY RangeAssumption DEF Sound, Doubled

(* One step keeps a field sound, if power never fails before the first     *)
(* write to an erased EEPROM has ended.                                    *)
LEMMA KeptStep ==
  ASSUME CutErased = FALSE, NEW b \in Guarded
  PROVE  SaveInv /\ Kept(b) /\ [Next]_vars => Kept(b)'
<1> SUFFICES ASSUME SaveInv, Kept(b), [Next]_vars PROVE Kept(b)'
  OBVIOUS
<1> USE DEF Kept
<1>1. CASE BootReset
  BY <1>1, SoundRange DEF BootReset
<1>2. CASE BootRead
  <2>1. rom["version_hi"] = Default["version_hi"]
    BY <1>2 DEF BootRead, Version
  <2>2. Default["version_hi"] # Erased
    <3>1. Default["version_hi"] \in 1..Erased - 1 /\ Erased = 255
      BY ConfigAssumption, Zenon
    <3>2. QED
      BY <3>1
  <2>3. rom[b] # Erased
    BY <1>2, <2>1, <2>2 DEF BootRead
  <2>4. QED
    BY <1>2, <2>3 DEF BootRead
<1>3. CASE WriteByte
  <2>1. config' = config /\ config[b] \in Sound(b) /\ config[b] # Erased
    BY <1>3, SoundRange DEF WriteByte
  <2>2. rom'[b] \in {rom[b], config[b]}
    BY <1>3 DEF WriteByte, SaveInv, TypeOK, Headers
  <2>3. CASE MoreBytes
    BY <1>3, <2>1, <2>2, <2>3 DEF WriteByte
  <2>4. CASE ~MoreBytes
    <3>1. rom'[b] = config[b]
      BY <1>3, <2>4, ByteStored, Zenon
    <3>2. pc' = "run"
      BY <1>3, <2>4 DEF WriteByte
    <3>3. QED
      BY <2>1, <3>1, <3>2
  <2>5. QED
    BY <2>3, <2>4
<1>4. CASE PowerCut
  <2>1. rom[b] # Erased
    BY <1>4, SoundRange DEF PowerCut
  <2>2. QED
    BY <1>4, <2>1 DEF PowerCut
<1>5. CASE EraseLocation0
  <2>1. rom'[b] = rom[b] /\ rom'["version_hi"] = rom["version_hi"]
    BY <1>5, SoundRange DEF EraseLocation0, SaveInv, TypeOK, Headers
  <2>2. QED
    BY <1>5, <2>1 DEF EraseLocation0
<1>6. CASE WriteEeprom
  BY <1>6 DEF WriteEeprom, Running
<1>7. CASE HandleEeprom
  BY <1>7 DEF HandleEeprom, Running
<1>8. CASE Quit
  BY <1>8 DEF Quit, Running
<1>9. ASSUME NEW f \in Fields, ChooseField(f) PROVE Kept(b)'
  BY <1>9 DEF ChooseField, Running
<1>10. ASSUME NEW n \in 0..255, TypeNumber(n) PROVE Kept(b)'
  BY <1>10 DEF TypeNumber, Running
<1>11. CASE TypeError
  BY <1>11 DEF TypeError, Running
<1>12. CASE SetValue
  <2>1. config'[b] \in Sound(b)
    <3>1. config[b] \in Sound(b) /\ config \in Headers
      BY <1>12 DEF SetValue, Running, SaveInv, TypeOK
    <3>2. CASE config' = config
      BY <3>1, <3>2
    <3>3. CASE InRange(command, number) /\ config' = Assign(command, number)
      <4>1. CASE command = b
        BY <3>1, <3>3, <4>1, SoundRange DEF Assign, Headers
      <4>2. CASE command # b
        BY <3>1, <3>3, <4>2, SoundRange DEF Assign, Headers
      <4>3. QED
        BY <4>1, <4>2
    <3>4. QED
      BY <1>12, <3>2, <3>3 DEF SetValue
  <2>2. QED
    BY <1>12, <2>1 DEF SetValue, Running
<1>13. CASE ToggleArrows
  <2>1. config'[b] = config[b]
    BY <1>13, SoundRange DEF ToggleArrows, SaveInv, TypeOK, Headers
  <2>2. QED
    BY <1>13, <2>1 DEF ToggleArrows, Running
<1>14. CASE DoubleStep
  <2>1. config'[b] \in Sound(b)
    <3>1. config[b] \in Sound(b) /\ config \in Headers
      BY <1>14 DEF DoubleStep, Running, SaveInv, TypeOK
    <3>2. CASE b = "mouse_step"
      BY <1>14, <3>1, <3>2, SoundRange, DoubledSound DEF DoubleStep, Headers
    <3>3. CASE b # "mouse_step"
      BY <1>14, <3>1, <3>3, SoundRange DEF DoubleStep, Headers
    <3>4. QED
      BY <3>2, <3>3
  <2>2. QED
    BY <1>14, <2>1 DEF DoubleStep, Running
<1>15. CASE UNCHANGED vars
  BY <1>15 DEF vars
<1>16. QED
  BY <1>1, <1>2, <1>3, <1>4, <1>5, <1>6, <1>7, <1>8, <1>9, <1>10, <1>11, <1>12, <1>13, <1>14, <1>15
     DEF Next, Boot, Menus

(* In a device fresh from the programmer both fields and the version are   *)
(* erased.                                                                 *)
LEMMA KeptInit == ASSUME NEW b \in Guarded PROVE Init => Kept(b)
BY SoundRange, HeaderBytes DEF Init, Kept, VersionBytes

(* Both fields stay sound together with what EEPROM holds.                 *)
LEMMA FieldsKept ==
  ASSUME CutErased = FALSE
  PROVE  Spec => []IInv
<1>1. Init => IInv
  BY SaveInit, KeptInit DEF IInv
<1>2. IInv /\ [Next]_vars => IInv'
  BY SaveStep, KeptStep DEF IInv
<1>3. QED
  BY <1>1, <1>2, PTL DEF Spec

(* If power does not fail before the first write to an erased EEPROM has   *)
(* ended, the scan of the keypad stays inside its arrays: whatever fields  *)
(* are set, however later saves are cut short and however often the        *)
(* device restarts (init, SET_VALUE, write).                               *)
THEOREM RowsStayInArray ==
  ASSUME CutErased = FALSE
  PROVE  Spec => []RowsInArray
<1>1. IInv => RowsInArray
  BY DEF IInv, Kept, Guarded, Sound, RowsInArray, Running
<1>2. QED
  BY <1>1, FieldsKept, PTL

(* Under the same condition the mouse step is never 0 and never reaches    *)
(* its maximum, doubled by its key however often (KA_MOUSE_STEP).          *)
THEOREM StepAlwaysMoves ==
  ASSUME CutErased = FALSE
  PROVE  Spec => []StepMovesMouse
<1>1. IInv => StepMovesMouse
  BY DEF IInv, Kept, Guarded, Sound, StepMovesMouse, Running
<1>2. QED
  BY <1>1, FieldsKept, PTL
=============================================================================
