---------------------------- MODULE KeymapEditor ----------------------------
(***************************************************************************)
(* The menu that edits key sequences and the pin map in a copy of its own  *)
(* (navputter_keycode_menu_class).  One life of the menu object; Console   *)
(* says when it is made and freed.                                         *)
(*                                                                         *)
(* The pin map and the place in it are shown and never read otherwise, and *)
(* are left out; so is the display.  At most MaxDigits digits follow one   *)
(* another: m_int_value holds eight bytes and its index is not checked.    *)
(***************************************************************************)
EXTENDS Octet, Sequences, SequencesExt

CONSTANTS
    KeyOf,      \* the characters of KP_KEY_LIST -> their key sequence
    Places,     \* the bytes of a key sequence besides its action
    SeqMap,     \* myputter.m_seq_map: key sequence -> [action, bytes]
    FieldsOf,   \* action -> its fields (KEY_ACTION_LIST)
    Digit,      \* the digits that are typed -> their values
    KeyMaps,    \* CONFIG.key_maps
    MaxDigits

Seqs == DOMAIN SeqMap
Actions == DOMAIN FieldsOf
LastAction == Len(FieldsOf)         \* KA_LAST_ACTION; actions count from 0
Newline == "\n"
MaxByte == 255
FirstSeq == 0
NoDigit == ""                       \* a zero byte

(* A field of a sequence: the byte it is in, the bits of that byte that    *)
(* are the field's, how far they are shifted, and its least and greatest   *)
(* value.  NoField is what the zeroed object describes.                    *)
Fields == [place : Places \union {"action"}, mask : Octets, shift : Nat, least : Nat, most : Nat]
NoField == [place |-> "none", mask |-> {}, shift |-> 0, least |-> 0, most |-> 0]
FieldsOfAction(a) == FieldsOf[a + 1]

KeySeqs == [action : 0..LastAction, bytes : [Places -> Octets]]

ASSUME EditorAssumption ==
    /\ KeyMaps \in 0..MaxByte
    /\ KeyOf \in [DOMAIN KeyOf -> Seqs] /\ DOMAIN KeyOf \intersect {"q", "w"} = {}
    /\ Digit \in [DOMAIN Digit -> 0..9]
    /\ MaxDigits \in 0..7
    /\ FieldsOf \in Seq(Seq(Fields)) /\ FieldsOf # <<>>
    /\ \A a \in Actions : Len(FieldsOf[a]) \in 1..MaxByte + 1
    /\ {"none", "action"} \intersect Places = {}
    /\ SeqMap \in [Seqs -> KeySeqs] /\ FirstSeq \in Seqs
    /\ \A s \in Seqs : SeqMap[s].action < LastAction

VARIABLES
    editor,     \* m_state
    keys,       \* m_key_seq_map
    seq,        \* m_seq
    field,      \* m_edit_field
    described,  \* m_field_min, _max, _mask, _shift, and the place of m_field_ptr
    target,     \* the key sequence that m_field_ptr points into
    number,     \* m_int_value: digits and zero bytes
    index,      \* m_int_ix
    selected    \* history: the key sequences that were selected

editing == <<keys, seq, field, described, target, selected>>
entry == <<number, index>>
editorVars == <<editor, editing, entry>>

EditorStates == {"read_command", "edit_command", "edit_key", "read_load_int", "load_keymap",
           "read_save_int", "save_keymap", "edit_pinmap", "edit_pin_entry",
           "write_command"}
EditorReading == editor \in {"read_command", "edit_command", "edit_key", "read_load_int",
                      "read_save_int", "edit_pinmap", "edit_pin_entry"}

EditorTypeOK ==
    /\ editor \in EditorStates
    /\ keys \in [Seqs -> KeySeqs]
    /\ seq \in Seqs /\ target \in Seqs /\ selected \subseteq Seqs
    /\ field \in 0..MaxByte
    /\ described \in Fields \union {NoField}
    /\ number \in [0..MaxDigits -> DOMAIN Digit \union {NoDigit}] /\ index \in 0..MaxDigits

(* new and begin(): zero bytes, and the firmware's sequences copied.       *)
EditorInit ==
    /\ editor = "read_command"
    /\ keys = SeqMap
    /\ seq = FirstSeq /\ target = FirstSeq /\ selected = {}
    /\ field = 0 /\ described = NoField
    /\ number = [i \in 0..MaxDigits |-> NoDigit] /\ index = 0

EditorBegin ==
    /\ editor' = "read_command"
    /\ keys' = SeqMap
    /\ seq' = FirstSeq /\ target' = FirstSeq /\ selected' = {}
    /\ field' = 0 /\ described' = NoField
    /\ number' = [i \in 0..MaxDigits |-> NoDigit] /\ index' = 0

GoTo(s) == editor' = s

----------------------------------------------------------------------------
(* The key map's own menu *)

Choose(c) ==
    /\ editor = "read_command"
    /\ CASE c = "l" -> GoTo("read_load_int") /\ UNCHANGED index
         [] c = "s" -> GoTo("read_save_int") /\ UNCHANGED index
         [] c = "e" -> GoTo("edit_command") /\ UNCHANGED index
         [] c = "p" -> GoTo("edit_pinmap") /\ index' = 0
         [] OTHER -> UNCHANGED <<editor, index>>
    /\ UNCHANGED <<editing, number>>

----------------------------------------------------------------------------
(* Key sequences *)

(* Mutant: the key is looked up and not remembered. *)
SelectedSeqOld(c) == seq

SelectedSeq(c) == KeyOf[c]

SelectKey(c) ==
    /\ editor = "edit_command" /\ c \in DOMAIN KeyOf
    /\ seq' = SelectedSeq(c) /\ selected' = selected \union {KeyOf[c]}
    /\ editor' = "edit_key"
    /\ UNCHANGED <<keys, field, described, target, entry>>

(* 'w' goes to a state that poll() has no case for. *)
EditCommandOther(c) ==
    /\ editor = "edit_command" /\ c \notin DOMAIN KeyOf
    /\ editor' = CASE c = "q" -> "read_command"
                   [] c = "w" -> "write_command"
                   [] OTHER -> editor
    /\ UNCHANGED <<editing, entry>>

SetAction(a) == keys' = [keys EXCEPT ![seq].action = a]

NextAction ==
    /\ SetAction(IF keys[seq].action >= LastAction THEN 0 ELSE keys[seq].action + 1)
    /\ UNCHANGED <<editor, seq, field, described, target, selected>>

PrevAction ==
    /\ SetAction(IF keys[seq].action = 0 THEN LastAction - 1 ELSE keys[seq].action - 1)
    /\ UNCHANGED <<editor, seq, field, described, target, selected>>

(* The field after the one last edited, or the first; an action of         *)
(* KA_LAST_ACTION has no field and leaves the last description.            *)
NextField ==
    LET fields == IF keys[seq].action = LastAction THEN <<>>
                                                   ELSE FieldsOfAction(keys[seq].action)
        next == IF field + 1 < Len(fields) THEN field + 1 ELSE 0
    IN  /\ field' = next
        /\ IF fields = <<>> THEN UNCHANGED <<described, target>>
                            ELSE described' = fields[next + 1] /\ target' = seq
        /\ UNCHANGED <<editor, keys, seq, selected>>

(* The byte that m_field_ptr points to is given the value v.  NO_FIELDS    *)
(* points to the action with an empty mask, a new object to nothing: both  *)
(* take only the value 0 and nothing changes.                              *)
OldValue == (Number(keys[target].bytes[described.place] \intersect described.mask))
          \div 2^described.shift
Store(v) ==
    keys' = [keys EXCEPT ![target].bytes[described.place] =
               (@ \ described.mask) \union Bits(v * 2^described.shift)]

Turn(v) == IF described.place \in DOMAIN keys[target].bytes THEN Store(v) ELSE UNCHANGED keys

NextValue ==
    /\ Turn(IF OldValue < described.most THEN OldValue + 1 ELSE described.least)
    /\ UNCHANGED <<editor, seq, field, described, target, selected>>

PrevValue ==
    /\ Turn(IF OldValue > described.least THEN OldValue - 1 ELSE described.most)
    /\ UNCHANGED <<editor, seq, field, described, target, selected>>

QuitEdit == editor' = "read_command" /\ UNCHANGED editing

EditKey(c) ==
    /\ editor = "edit_key"
    /\ \/ c = "d" /\ NextAction
       \/ c = "f" /\ PrevAction
       \/ c = " " /\ NextField
       \/ c = "j" /\ NextValue
       \/ c = "k" /\ PrevValue
       \/ c = "q" /\ QuitEdit
       \/ c \notin {"d", "f", " ", "j", "k", "q"} /\ UNCHANGED <<editor, editing>>
    /\ UNCHANGED <<entry>>

----------------------------------------------------------------------------
(* Numbers of key maps to load and to save *)

(* atoi, and the low byte of it.                                           *)
Atoi(n) ==
    LET end == CHOOSE i \in 0..MaxDigits :
                 n[i] = NoDigit /\ \A j \in 0..i - 1 : n[j] # NoDigit
    IN  FoldLeft(LAMBDA v, i : 10 * v + Digit[n[i - 1]], 0, [i \in 1..end |-> i])
          % (MaxByte + 1)

TypeDigit(c) ==
    /\ editor \in {"read_load_int", "read_save_int"} /\ c \in DOMAIN Digit
    /\ index < MaxDigits
    /\ number' = [number EXCEPT ![index] = c] /\ index' = index + 1
    /\ UNCHANGED <<editor, editing>>

(* Mutant: an accepted number stays accepted, as the code seems to mean.   *)
AfterLoadNumberKept(c) ==
    IF c = Newline /\ Atoi(number') < KeyMaps THEN "load_keymap" ELSE "read_command"

(* The state after the number of a key map to load: LOAD_KEYMAP is set,    *)
(* and read_command() replaces it whatever was typed.                      *)
AfterLoadNumber(c) == "read_command"

EndLoadNumber(c) ==
    /\ editor = "read_load_int" /\ c \notin DOMAIN Digit
    /\ number' = IF c = Newline THEN [number EXCEPT ![index] = NoDigit] ELSE number
    /\ editor' = AfterLoadNumber(c)
    /\ UNCHANGED <<editing, index>>

(* A number out of range is not forgotten: the digits that follow are      *)
(* added to it.                                                            *)
EndSaveNumber(c) ==
    /\ editor = "read_save_int" /\ c \notin DOMAIN Digit
    /\ number' = IF c = Newline THEN [number EXCEPT ![index] = NoDigit] ELSE number
    /\ editor' = IF c = Newline
                  THEN IF Atoi(number') > KeyMaps THEN editor ELSE "save_keymap"
                  ELSE "read_command"
    /\ UNCHANGED <<editing, index>>

(* The write to EEPROM is compiled out.  LOAD_KEYMAP has no step: it does  *)
(* nothing, not even leave.                                                *)
SaveKeymap ==
    /\ editor = "save_keymap" /\ editor' = "read_command"
    /\ UNCHANGED <<editing, entry>>

----------------------------------------------------------------------------
(* The pin map *)

EditPinmap(c) ==
    /\ editor = "edit_pinmap"
    /\ CASE c = "e" -> editor' = "edit_pin_entry" /\ index' = 0 
         [] c = "q" -> editor' = "read_command" /\ UNCHANGED index
         [] OTHER -> UNCHANGED <<editor, index>>
    /\ UNCHANGED <<editing, number>>

(* One digit, or anything else for no key; then edit_pin_map() again.      *)
EditPinEntry(c) ==
    /\ editor = "edit_pin_entry"
    /\ number' = IF c \in DOMAIN Digit THEN [number EXCEPT ![index] = c] ELSE number
    /\ editor' = "edit_pinmap" /\ index' = 0
    /\ UNCHANGED editing

EditorRead(c) == \/ Choose(c) \/ SelectKey(c) \/ EditCommandOther(c) \/ EditKey(c)
           \/ TypeDigit(c) \/ EndLoadNumber(c) \/ EndSaveNumber(c)
           \/ EditPinmap(c) \/ EditPinEntry(c)

----------------------------------------------------------------------------
(* However fields, actions and keys are gone through, a sequence whose key *)
(* was never selected since the menu was opened is as the firmware has it  *)
(* (m_seq, m_field_ptr, next_value, next_action).                          *)
UnselectedKept == \A s \in Seqs \ selected : keys[s] = SeqMap[s]
=============================================================================
