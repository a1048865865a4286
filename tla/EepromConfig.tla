---------------------------- MODULE EepromConfig ----------------------------
(***************************************************************************)
(* The configuration header: its copy CONFIG in RAM, its bytes in EEPROM,  *)
(* the boot that reads or formats it (navputter_eeprom_class::init), the   *)
(* serial menus that change and save it, and the power failing at any      *)
(* moment, also between two of the bytes that write() stores one by one.   *)
(*                                                                         *)
(* The header is version, in two bytes, and one byte for each field that   *)
(* the firmware acts on.                                                   *)
(***************************************************************************)
EXTENDS Integers, Sequences

CONSTANTS
    Order,      \* the header's bytes in ascending address order
    Default,    \* byte -> its value in the factory defaults (_EEPROM_DESC_)
    Least,      \* field -> the least value its menu entry takes
    Most,       \* field -> the greatest
    Typed,      \* field -> the numbers the user types for it
    Erased,     \* an erased byte, 0xff
    MaxRows,    \* MAX_KEY_ROWS
    MaxMouseStep,   \* MAX_MOUSE_STEP
    CutErased   \* whether power may fail while the header has erased bytes

Bytes == {Order[i] : i \in 1..Len(Order)}
VersionBytes == {"version_lo", "version_hi"}
Fields == (Bytes \ VersionBytes) \union {"version"}
BuiltIn == 255      \* BUILT_IN_MAP
MaxArrows == 2      \* MAX_KEY_ARROW_STATE

ASSUME ConfigAssumption ==
    /\ Order \in Seq(STRING) /\ Order[1] = "version_lo" /\ Order[2] = "version_hi"
    /\ {"rows", "mouse_step", "key_maps", "default_keymap", "key_arrows"} \subseteq Fields
    /\ Default \in [Bytes -> 0..255]
    /\ {Least, Most} \subseteq [Fields -> 0..255]
    /\ Typed \in [Fields -> SUBSET (0..255)]
    /\ Default["version_hi"] \in 1..Erased - 1
    /\ Erased = 255 /\ CutErased \in BOOLEAN

(* The header's list gives the rows and the mouse step ranges, and         *)
(* defaults within them, that the keypad's arrays and the largest step     *)
(* allow.                                                                  *)
ASSUME RangeAssumption ==
    /\ MaxRows \in 1..Erased - 1 /\ MaxMouseStep \in 2..128
    /\ {Default["rows"], Least["rows"], Most["rows"]} \subseteq 1..MaxRows
    /\ {Default["mouse_step"], Least["mouse_step"], Most["mouse_step"]}
         \subseteq 1..MaxMouseStep - 1

VARIABLES
    rom,        \* the header's bytes in EEPROM
    config,     \* CONFIG
    map,        \* the key map in m_cur_map and m_seq_map, or BuiltIn
    pc,         \* "off", "run", or "write" while write() is busy
    at,         \* the byte write() stores next
    menu,       \* the menu and its state
    command,    \* the eeprom menu's m_command
    number,     \* the number in its m_int_value
    saved,      \* history: the last header written to its end
    torn        \* history: a write has begun since and not ended

menuVars == <<menu, command, number>>
vars == <<rom, config, map, pc, at, menuVars, saved, torn>>

Headers == [Bytes -> 0..255]
Zeros == [b \in Bytes |-> 0]
NoField == "none"

TypeOK ==
    /\ rom \in Headers /\ config \in Headers /\ saved \in Headers
    /\ map \in 0..255
    /\ pc \in {"off", "run", "write"}
    /\ at \in 1..Len(Order)
    /\ menu \in {"none", "main", "read_command", "read_int", "set_value"}
    /\ command \in Fields \union {NoField}
    /\ number \in 0..255
    /\ torn \in BOOLEAN

(* A device fresh from the programmer.                                     *)
Init ==
    /\ rom = [b \in Bytes |-> Erased]
    /\ config = Zeros /\ map = BuiltIn
    /\ pc = "off" /\ at = 1
    /\ menu = "none" /\ command = NoField /\ number = 0
    /\ saved = rom /\ torn = TRUE

Version(h) == <<h["version_lo"], h["version_hi"]>>

----------------------------------------------------------------------------
(* Boot and power *)

(* begin() and init(): the keypad has set up the built-in map; a header of *)
(* another version is overwritten with the defaults, and a key map other   *)
(* than the built-in one is read over it.                                  *)
BootReset ==
    /\ pc = "off" /\ Version(rom) # Version(Default)
    /\ config' = Default
    /\ pc' = "write" /\ at' = 1
    /\ UNCHANGED <<rom, map, menuVars, saved, torn>>

BootRead ==
    /\ pc = "off" /\ Version(rom) = Version(Default)
    /\ config' = rom
    /\ map' = rom["default_keymap"]
    /\ pc' = "run" /\ menu' = "main"
    /\ UNCHANGED <<rom, at, command, number, saved, torn>>

(* Mutants: the loop runs one byte too far, or ends one byte early.        *)
MoreBytesLong == at <= Len(Order)
MoreBytesShort == at < Len(Order) - 1

(* write()'s loop goes on to another byte. *)
MoreBytes == at < Len(Order)

(* write(): one eeprom_update_byte after the other, in address order.      *)
WriteByte ==
    /\ pc = "write"
    /\ rom' = [rom EXCEPT ![Order[at]] = config[Order[at]]]
    /\ IF MoreBytes
         THEN /\ at' = at + 1
              /\ torn' = TRUE
              /\ UNCHANGED <<pc, menu, saved>>
         ELSE /\ at' = 1
              /\ pc' = "run" /\ menu' = "main"
              /\ saved' = config /\ torn' = FALSE
    /\ UNCHANGED <<config, map, command, number>>

(* Power lost, or the watchdog biting: RAM starts zeroed, EEPROM stays.    *)
PowerCut ==
    /\ pc # "off"
    /\ \/ CutErased \/ pc = "run"
       \/ \A b \in Bytes \ VersionBytes : rom[b] # Erased \/ config[b] = Erased
    /\ pc' = "off" /\ at' = 1
    /\ config' = Zeros /\ map' = BuiltIn
    /\ menu' = "none" /\ command' = NoField /\ number' = 0
    /\ UNCHANGED <<rom, saved, torn>>

(* An external programmer writes 0xff to EEPROM location 0.                *)
EraseLocation0 ==
    /\ pc = "off"
    /\ rom' = [rom EXCEPT !["version_lo"] = Erased]
    /\ saved' = [saved EXCEPT !["version_lo"] = Erased]
    /\ UNCHANGED <<config, map, pc, at, menuVars, torn>>

----------------------------------------------------------------------------
(* Menus and keys, while the main loop runs *)

Running == pc = "run"

(* 'w' in the main menu. *)
WriteEeprom ==
    /\ Running /\ menu = "main"
    /\ pc' = "write" /\ at' = 1
    /\ UNCHANGED <<rom, config, map, menuVars, saved, torn>>

HandleEeprom ==
    /\ Running /\ menu = "main"
    /\ menu' = "read_command"
    /\ UNCHANGED <<rom, config, map, pc, at, command, number, saved, torn>>

Quit ==
    /\ Running /\ menu = "read_command"
    /\ menu' = "main"
    /\ UNCHANGED <<rom, config, map, pc, at, command, number, saved, torn>>

ChooseField(f) ==
    /\ Running /\ menu = "read_command"
    /\ command' = f /\ menu' = "read_int"
    /\ UNCHANGED <<rom, config, map, pc, at, number, saved, torn>>

(* Digits up to the end of the line; none at all read as 0.                *)
TypeNumber(n) ==
    /\ Running /\ menu = "read_int"
    /\ n \in Typed[command] \union {0}
    /\ number' = n /\ menu' = "set_value"
    /\ UNCHANGED <<rom, config, map, pc, at, command, saved, torn>>

(* A character that is no digit, or one digit too many.  What m_command    *)
(* and m_int_value keep is not read again and is dropped.                  *)
TypeError ==
    /\ Running /\ menu = "read_int"
    /\ menu' = "read_command" /\ command' = NoField
    /\ UNCHANGED <<rom, config, map, pc, at, number, saved, torn>>

(* Mutant: the lower bound is not checked. *)
InRangeAbove(f, n) == n <= Most[f]

InRange(f, n) == n \in Least[f]..Most[f]

(* validate_keymap, the one check beyond the range. *)
ValidKeymap(n) == n <= config["key_maps"]

Assign(f, n) ==
    IF f = "version"
      THEN [config EXCEPT !["version_lo"] = n, !["version_hi"] = 0]
      ELSE [config EXCEPT ![f] = n]

SetValue ==
    /\ Running /\ menu = "set_value"
    /\ menu' = "read_command" /\ command' = NoField /\ number' = 0
    /\ config' = IF InRange(command, number)
                      /\ (command = "default_keymap" => ValidKeymap(number))
                   THEN Assign(command, number) ELSE config
    /\ UNCHANGED <<rom, map, pc, at, saved, torn>>

(* The key that toggles the arrows changes CONFIG, past the menu's range.  *)
ToggleArrows ==
    /\ Running
    /\ config' = [config EXCEPT !["key_arrows"] = IF @ < MaxArrows THEN @ + 1 ELSE 0]
    /\ UNCHANGED <<rom, map, pc, at, menuVars, saved, torn>>

(* Mutant: MAX_MOUSE_STEP itself is taken. *)
DoubledLate(n) == IF (2 * n) % 256 > MaxMouseStep THEN 1 ELSE (2 * n) % 256

(* In the field's eight bits. *)
Doubled(n) == IF (2 * n) % 256 >= MaxMouseStep THEN 1 ELSE (2 * n) % 256

(* So does the key that doubles the mouse step. *)
DoubleStep ==
    /\ Running
    /\ config' = [config EXCEPT !["mouse_step"] = Doubled(@)]
    /\ UNCHANGED <<rom, map, pc, at, menuVars, saved, torn>>

Menus == \/ WriteEeprom \/ HandleEeprom \/ Quit \/ TypeError \/ SetValue
         \/ \E f \in Fields : ChooseField(f)
         \/ \E n \in 0..255 : TypeNumber(n)

Boot == BootReset \/ BootRead

Next == Boot \/ WriteByte \/ PowerCut \/ EraseLocation0 \/ Menus \/ ToggleArrows \/ DoubleStep

Spec == Init /\ [][Next]_vars

----------------------------------------------------------------------------
(* Scanning the keypad stays inside the arrays of MAX_KEY_ROWS elements,   *)
(* in whatever order fields are changed, saves are cut short and the       *)
(* device is restarted (init, SET_VALUE, write).                           *)
RowsInArray == Running => config["rows"] \in 1..MaxRows

(* The arrow keys always move the mouse, and the way they point: a step of *)
(* 0 would stay 0 however often it is doubled, and one beyond the maximum  *)
(* could be negative to the host (SET_VALUE, KA_MOUSE_STEP, init).         *)
StepMovesMouse == Running => config["mouse_step"] \in 1..MaxMouseStep - 1

(* A boot brings back what the last complete save wrote, changes that were *)
(* never saved do not come back, and a save with another version number,   *)
(* or location 0 written with 0xff, brings back the factory defaults       *)
(* (init, write_eeprom).                                                   *)
BootRestores ==
    [][pc = "off" /\ pc' # "off" /\ ~torn =>
         config' = IF Version(saved) = Version(Default) THEN saved ELSE Default]_vars
=============================================================================
