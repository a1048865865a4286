------------------------------ MODULE Console ------------------------------
(***************************************************************************)
(* The serial console: the main menu, and the menus it opens.  There is    *)
(* one menu object; a handler frees its own object, allocates the next and *)
(* goes on to the end of poll(), where the main menu calls usage() once    *)
(* more on the object it began with.                                       *)
(*                                                                         *)
(* SERIAL.read() gives any character the host may type, or none; that      *)
(* covers what the receive ring drops.                                     *)
(***************************************************************************)
EXTENDS GpioMenu, KeymapEditor

CONSTANTS
    EepromFields,   \* the command letters of the eeprom menu
    Chars           \* the characters the host types

VARIABLES
    heap,       \* address -> the kind of object allocated there, or Free
    menu,       \* m_cur_menu, an address or NULL
    pc,         \* "poll"; "usage" when usage() is to be called on caller;
                \* "aborted" when the watchdog is to bite
    caller,     \* `this' of the poll() that is running
    eeprom      \* m_state of the eeprom menu

lifeVars == <<heap, menu, pc, caller>>
vars == <<lifeVars, eeprom, gpioVars, editorVars>>

NULL == 0
Addresses == 1..2       \* one object is alive at a time, one more while `new' precedes `free'
Free == "free"
Kinds == {"main", "eeprom", "gpio", "editor"}
Live == {a \in Addresses : heap[a] # Free}
In(kind) == pc = "poll" /\ menu # NULL /\ heap[menu] = kind

TypeOK ==
    /\ heap \in [Addresses -> Kinds \union {Free}]
    /\ menu \in Addresses \union {NULL}
    /\ pc \in {"poll", "usage", "aborted"}
    /\ caller \in Addresses \union {NULL}
    /\ eeprom \in {"read_command", "read_int", "set_value"}
    /\ GpioTypeOK /\ EditorTypeOK

(* main() makes the first main menu.                                       *)
Init ==
    /\ heap = [a \in Addresses |-> IF a = 1 THEN "main" ELSE Free]
    /\ menu = 1
    /\ pc = "poll" /\ caller = NULL
    /\ eeprom = "read_command"
    /\ GpioInit /\ EditorInit

----------------------------------------------------------------------------
(* The life of menu objects.  The heap holds nothing else: `new' takes the *)
(* lowest free address.                                                    *)

(* Mutant: a menu ends without freeing itself. *)
EndKeeps(h, a) == h

End(h, a) == [h EXCEPT ![a] = Free]

Lowest(h) == CHOOSE a \in Addresses : h[a] = Free /\ \A b \in 1..a - 1 : h[b] # Free

(* Mutant: the next menu is made before the old one is cleared. *)
ReplaceLate(kind) ==
    LET a == Lowest(heap)
    IN  heap' = End([heap EXCEPT ![a] = kind], menu) /\ menu' = a

(* clear_menu(), new, and set_menu(), which finds no menu to end.          *)
Replace(kind) ==
    LET h == End(heap, menu)
    IN  heap' = [h EXCEPT ![Lowest(h)] = kind] /\ menu' = Lowest(h)

(* The menus other than the main one do not touch themselves once freed.   *)
QuitToMain == Replace("main") /\ UNCHANGED <<pc, caller>>

----------------------------------------------------------------------------
(* One poll() of the menu there is, with the character c read.             *)

MainSubmenu(c) ==
    CASE c = "e" -> "eeprom" [] c = "g" -> "gpio" [] c = "k" -> "editor" [] OTHER -> "main"

(* A command, then usage() in any case; 'w' writes the configuration,      *)
(* which EepromConfig models.                                              *)
MainPoll(c) ==
    /\ In("main")
    /\ pc' = "usage" /\ caller' = menu
    /\ IF MainSubmenu(c) = "main" THEN UNCHANGED <<heap, menu>> ELSE Replace(MainSubmenu(c))
    /\ IF c = "g" THEN GpioBegin ELSE UNCHANGED gpioVars
    /\ UNCHANGED <<eeprom, editorVars>>

MainUsage ==
    /\ pc = "usage"
    /\ pc' = "poll" /\ caller' = NULL
    /\ UNCHANGED <<heap, menu, eeprom, gpioVars, editorVars>>

(* Mutant: 'q' leaves only where a command is expected. *)
GpioQuitsAtCommand(c) == c = "q" /\ gpio = "read_command"

(* After the switch, 'q' leaves from every state that reads.               *)
GpioQuits(c) == c = "q"

GpioPoll(c) ==
    /\ In("gpio") /\ GpioReading
    /\ IF GpioQuits(c) THEN QuitToMain /\ GpioEnd ELSE GpioRead(c) /\ UNCHANGED lifeVars
    /\ UNCHANGED <<eeprom, editorVars>>

GpioCompute == In("gpio") /\ GpioStep /\ UNCHANGED <<lifeVars, eeprom, editorVars>>

EditorPoll(c) ==
    /\ In("editor") /\ EditorReading
    /\ IF editor = "read_command" /\ c = "q"
         THEN QuitToMain /\ EditorBegin
         ELSE EditorRead(c) /\ UNCHANGED lifeVars
    /\ UNCHANGED <<eeprom, gpioVars>>

EditorCompute == In("editor") /\ SaveKeymap /\ UNCHANGED <<lifeVars, eeprom, gpioVars>>

(* The default case of the editor's poll(): assert(0), and abort() waits   *)
(* with interrupts off until the watchdog restarts the device.             *)
EditorAbort ==
    /\ In("editor") /\ editor = "write_command"
    /\ pc' = "aborted"
    /\ UNCHANGED <<heap, menu, caller, eeprom, gpioVars, editorVars>>

(* The device starts again.                                                *)
WatchdogReset ==
    /\ pc = "aborted"
    /\ heap' = [a \in Addresses |-> IF a = 1 THEN "main" ELSE Free] /\ menu' = 1
    /\ pc' = "poll" /\ caller' = NULL
    /\ eeprom' = "read_command"
    /\ GpioEnd /\ EditorBegin

(* The states of the eeprom menu; what it does to CONFIG is EepromConfig's.*)
EepromPoll(c) ==
    /\ In("eeprom")
    /\ IF eeprom = "read_command" /\ c = "q"
         THEN QuitToMain /\ UNCHANGED eeprom
         ELSE /\ \/ /\ eeprom = "read_command"
                    /\ eeprom' = IF c \in EepromFields THEN "read_int" ELSE "read_command"
                 \/ /\ eeprom = "read_int" /\ c = "\n" /\ eeprom' = "set_value"
                 \/ /\ eeprom = "read_int" /\ c \in DOMAIN Digit /\ UNCHANGED eeprom
                 \/ /\ eeprom = "read_int" /\ c # "\n" /\ eeprom' = "read_command"
              /\ UNCHANGED lifeVars
    /\ UNCHANGED <<gpioVars, editorVars>>

EepromSetValue ==
    /\ In("eeprom") /\ eeprom = "set_value"
    /\ eeprom' = "read_command"
    /\ UNCHANGED <<lifeVars, gpioVars, editorVars>>

Type(c) == MainPoll(c) \/ GpioPoll(c) \/ EditorPoll(c) \/ EepromPoll(c)
Compute == \/ MainUsage \/ GpioCompute \/ EditorCompute \/ EepromSetValue
           \/ EditorAbort \/ WatchdogReset

Reads == \/ In("main")
         \/ In("eeprom") /\ eeprom # "set_value"
         \/ In("gpio") /\ GpioReading
         \/ In("editor") /\ EditorReading

(* A poll that finds no character, or comes to LOAD_KEYMAP.                *)
IdlePoll == /\ Reads \/ (In("editor") /\ editor = "load_keymap")
            /\ UNCHANGED vars

Next == Compute \/ IdlePoll \/ \E c \in Chars : Type(c)

(* The main loop polls the menu for ever.                                  *)
Spec == Init /\ [][Next]_vars /\ WF_vars(Compute)

----------------------------------------------------------------------------
(* What the main menu calls usage() on after its command is an object in   *)
(* being, though the command has freed the one that poll() began with: the *)
(* next menu takes its place (navputter_main_menu_class::poll,             *)
(* clear_menu, handle_eeprom, serial_gpio, handle_keymaps).                *)
UsageOnLiveObject == pc = "usage" => caller \in Live

(* There is exactly one menu object, the current one: opening and leaving  *)
(* menus neither leaks an object nor loses the last (set_menu, clear_menu, *)
(* end).                                                                   *)
OneMenuObject == menu # NULL /\ Live = {menu}

(* No menu comes to rest in a state that reads no input (the states of     *)
(* every poll(); the editor's LOAD_KEYMAP is one that would).              *)
InputIsRead == ~Reads ~> Reads

MainIsUp == menu # NULL /\ heap[menu] = "main"

(* From any state of any menu, a host that types nothing but 'q' gets back *)
(* to the main menu (every poll() and its 'q').                            *)
QuitLeavesMenus ==
    WF_vars(Type("q")) /\ <>[][Type("q") \/ Compute]_vars => <>[]MainIsUp
=============================================================================
