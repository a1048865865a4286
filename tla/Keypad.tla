------------------------------- MODULE Keypad -------------------------------
(***************************************************************************)
(* The matrix keypad of navputter.cpp: the column scan driven from the     *)
(* main loop (navputter_tenkey_keypad_class::poll), the change detection   *)
(* that turns scans into key-down and key-up events (trigger) and what an  *)
(* event does (press): keys sent, mouse motion, mode changes, pulses.      *)
(*                                                                         *)
(* Keys are closed and opened by a hand at any moment; the main loop runs  *)
(* poll(); the timer interrupt counts ticks, also in the middle of         *)
(* trigger(), which is taken one matrix position at a time.  Deadlines     *)
(* and durations are kept relative to global_ticks.                        *)
(***************************************************************************)
EXTENDS Integers, Sequences, FiniteSets

CONSTANTS
    MaxRows, MaxCols,   \* MAX_KEY_ROWS, MAX_KEY_COLS
    KeyMap,         \* m_cur_map: matrix position -> key sequence
    ActionOf,       \* m_seq_map[].action: key sequence -> action
    HoldOf,         \* its hold_time and hold_action, NoHold if hold_action is 0
    NoHold,
    KeyPress,       \* its key_press[0..1]: a pair of keypairs
    NoKey,          \* the keypair 0
    MaxMouseStep,   \* MAX_MOUSE_STEP
    MaxHeld,        \* durations saturate here, beyond every maximum hold time
    Presses,        \* the sets of positions the hand may close together
    ArrowsSet,      \* values key_arrows may be given over the serial menu
    Sizes,          \* values <<rows, cols>> may be given there
    KeysUp,         \* whether that is done only while the pad is at rest
    Steps           \* values mouse_step may start with

Rows == 0..(MaxRows - 1)
Cols == 0..(MaxCols - 1)
Matrix == Rows \X Cols
Dirs == {"mouse_up", "mouse_down", "mouse_left", "mouse_right"}
Clicks == {"click_left", "click_middle", "click_right"}
Actions == Dirs \union Clicks \union
           {"scancode", "toggle", "step", "report", "pulse", "none"}
Seqs == DOMAIN ActionOf
HoldSeqs == {s \in Seqs : HoldOf[s] # NoHold}
HoldKeys == {k \in Matrix : KeyMap[k] \in HoldSeqs}

(* key_arrows: ARROW_CONFIG_MOUSE, ARROW_CONFIG_SLOW_KEY, ..._FAST_KEY *)
Mouse == 0
SlowKey == 1
FastKey == 2

SettleTicks == 1    \* SETTLE_KEY_BOUNCE

ASSUME KeypadAssumption ==
    /\ MaxRows \in Nat \ {0} /\ MaxCols \in Nat \ {0}
    /\ KeyMap \in [Matrix -> Seqs]
    /\ ActionOf \in [Seqs -> Actions]
    /\ DOMAIN HoldOf = Seqs /\ DOMAIN KeyPress = Seqs
    /\ \A s \in HoldSeqs : /\ HoldOf[s].to \in Seqs
                           /\ HoldOf[s].min \in Nat
                           /\ HoldOf[s].max \in 0..(MaxHeld - 1)
    /\ MaxHeld \in Nat /\ MaxMouseStep \in Nat
    /\ Presses \subseteq SUBSET Matrix
    /\ ArrowsSet \subseteq Mouse..FastKey
    /\ Sizes \subseteq (1..MaxRows) \X (1..MaxCols)
    /\ KeysUp \in BOOLEAN
    /\ Steps \subseteq 1..(MaxMouseStep - 1)

VARIABLES
    pins,       \* the positions whose switch is closed
    scan,       \* m_keypad_state
    settle,     \* ticks until m_until
    col,        \* the tenkey class's m_col
    keystate,   \* m_keystate: per column, the rows read closed
    last,       \* m_last_keystate, likewise
    keydown,    \* m_keydown, likewise
    at,         \* trigger()'s loop position <<row, col>>, Idle outside it
    arrows,     \* CONFIG.key_arrows
    step,       \* CONFIG.mouse_step
    size,       \* CONFIG.rows and CONFIG.cols
    dir,        \* m_mouse_moves
    clicks,     \* the buttons set in m_mouse_clicks
    held,       \* ticks since last_hold, saturating at MaxHeld
    since,      \* history: ticks since each hold key's own key-down event
    carried,    \* history: directions in which the mouse moved when the mode
                \* changed, and has not stopped since
    event       \* history: what the last step of trigger() did, and the
                \* keypairs it handed to KEY.write_scancode

matrixVars == <<scan, settle, col, keystate, last, keydown, at>>
effectVars == <<arrows, step, size, dir, clicks, held, carried, event>>
vars == <<pins, matrixVars, effectVars, since>>

Idle == <<-1, -1>>
NeverRead == {-1}   \* m_last_keystate before the first scan
Quiet == [key |-> Idle, edge |-> "none", held |-> FALSE, sent |-> << >>]

TypeOK ==
    /\ pins \subseteq Matrix
    /\ scan \in {"set_cols", "wait", "read_rows"}
    /\ settle \in 0..SettleTicks
    /\ col \in Cols
    /\ keystate \in [Cols -> SUBSET Rows] /\ keydown \in [Cols -> SUBSET Rows]
    /\ last \in [Cols -> (SUBSET Rows) \union {NeverRead}]
    /\ at \in {Idle} \union ((0..MaxRows) \X (0..MaxCols))
    /\ arrows \in Mouse..FastKey
    /\ step \in 1..(MaxMouseStep - 1)
    /\ size \in (1..MaxRows) \X (1..MaxCols)
    /\ dir \in [Dirs -> 0..(MaxMouseStep - 1)]
    /\ clicks \subseteq Clicks
    /\ held \in 0..MaxHeld
    /\ since \in [HoldKeys -> 0..MaxHeld]
    /\ carried \subseteq Dirs
    /\ event.key \in Matrix \union {Idle}

(* Globals start zeroed, begin() fills m_keystate with 0xff (all open).    *)
(* m_last_keystate stays 0, which no reading equals: the two bits above    *)
(* the six row bits stay set in m_keystate.                                *)
Init ==
    /\ pins = {}
    /\ scan = "set_cols" /\ settle = 0 /\ col = 0 /\ at = Idle
    /\ keystate = [c \in Cols |-> {}]
    /\ last = [c \in Cols |-> NeverRead]
    /\ keydown = [c \in Cols |-> {}]
    /\ arrows = Mouse
    /\ step \in Steps
    /\ size = <<MaxRows, MaxCols>>
    /\ dir = [d \in Dirs |-> 0]
    /\ clicks = {}
    /\ held = MaxHeld
    /\ since = [k \in HoldKeys |-> MaxHeld]
    /\ carried = {}
    /\ event = Quiet

(* The positions reported down and not yet up. *)
Down == {k \in Matrix : k[1] \in keydown[k[2]]}

----------------------------------------------------------------------------
(* The world around the main loop *)

Hand ==
    /\ pins' \in Presses \ {pins}
    /\ UNCHANGED <<matrixVars, effectVars, since>>

Later(t) == IF t < MaxHeld THEN t + 1 ELSE t

(* The timer interrupt. *)
Tick ==
    /\ settle' = IF settle > 0 THEN settle - 1 ELSE 0
    /\ held' = Later(held)
    /\ since' = [k \in HoldKeys |-> Later(since[k])]
    /\ <<settle, held, since>>' # <<settle, held, since>>
    /\ UNCHANGED <<pins, scan, col, keystate, last, keydown, at>>
    /\ UNCHANGED <<arrows, step, size, dir, clicks, carried, event>>

(* What a change of the mode leaves behind (no state of the firmware). *)
Carry ==
    carried' = {d \in Dirs : dir'[d] > 0 /\ (d \in carried \/ arrows' # arrows)}

(* The eeprom menu sets CONFIG.key_arrows from the serial line, between    *)
(* two polls of the keypad.                                                *)
SetArrows(a) ==
    /\ at = Idle
    /\ arrows' = a
    /\ UNCHANGED <<pins, matrixVars, step, size, dir, clicks, held, event, since>>
    /\ Carry

AtRest == pins = {} /\ Down = {} /\ \A c \in Cols : keystate[c] = {}

(* It sets CONFIG.rows and CONFIG.cols likewise. *)
SetSize(s) ==
    /\ at = Idle
    /\ KeysUp => AtRest
    /\ size' = s
    /\ UNCHANGED <<pins, matrixVars, arrows, step, dir, clicks, held, carried, event, since>>

----------------------------------------------------------------------------
(* poll *)

SetCols ==
    /\ at = Idle /\ scan = "set_cols"
    /\ scan' = "wait"
    /\ settle' = SettleTicks
    /\ UNCHANGED <<pins, col, keystate, last, keydown, at, effectVars, since>>

Settled ==
    /\ at = Idle /\ scan = "wait" /\ settle = 0
    /\ scan' = "read_rows"
    /\ UNCHANGED <<pins, settle, col, keystate, last, keydown, at, effectVars, since>>

(* Mutant: the last column is never driven. *)
NextColShort == IF col + 2 < size[2] THEN col + 1 ELSE 0

NextCol == IF col + 1 < size[2] THEN col + 1 ELSE 0

(* All the row pins of the driven column, also those beyond CONFIG.rows,   *)
(* and after the last column trigger().                                    *)
ReadRows ==
    /\ at = Idle /\ scan = "read_rows"
    /\ keystate' = [keystate EXCEPT ![col] = {r \in Rows : <<r, col>> \in pins}]
    /\ col' = NextCol
    /\ scan' = "set_cols"
    /\ at' = IF col' = 0 THEN <<0, 0>> ELSE Idle
    /\ UNCHANGED <<pins, settle, last, keydown, effectVars, since>>

----------------------------------------------------------------------------
(* press: what one key event does *)

(* Mutant: a tap fires the hold action too. *)
HoldFiresEarly(s, edge) ==
    /\ s \in HoldSeqs /\ edge = "up"
    /\ held <= HoldOf[s].max

(* The hold action replaces the key's own on release, if the time since    *)
(* the last press of any key with a hold action is in this key's range.    *)
HoldFires(s, edge) ==
    /\ s \in HoldSeqs /\ edge = "up"
    /\ held \in HoldOf[s].min..HoldOf[s].max

SeqFor(s, edge) == IF HoldFires(s, edge) THEN HoldOf[s].to ELSE s

(* KEY.write_scancode ignores the keypair 0. *)
Written(k) == IF k = NoKey THEN << >> ELSE <<k>>

(* Mutant: a key sends its keys on the release too. *)
SentTwice(s, edge) ==
    IF ActionOf[s] = "scancode"
      THEN Written(KeyPress[s][1]) \o Written(KeyPress[s][2]) ELSE << >>

Sent(s, edge) ==
    CASE ActionOf[s] = "scancode" /\ edge = "down" ->
             Written(KeyPress[s][1]) \o Written(KeyPress[s][2])
      [] ActionOf[s] \in Dirs /\ arrows = SlowKey -> Written(KeyPress[s][1])
      [] ActionOf[s] \in Dirs /\ arrows = FastKey -> Written(KeyPress[s][2])
      [] OTHER -> << >>

NextArrows == IF arrows < FastKey THEN arrows + 1 ELSE Mouse

(* Mutant: the step may reach MAX_MOUSE_STEP. *)
NextStepBig == IF 2 * step > MaxMouseStep THEN 1 ELSE 2 * step

NextStep == IF 2 * step >= MaxMouseStep THEN 1 ELSE 2 * step

(* Mutant: letting go of the key does not stop the mouse. *)
MotionSticky(down) == step

Motion(down) == IF down THEN step ELSE 0

(* The arrow keys move the mouse, and send no keys. *)
MovesMouse == arrows = Mouse

Press(edge, k) ==
    LET s == SeqFor(KeyMap[k], edge)
        a == ActionOf[s]
        down == edge = "down"
    IN  /\ held' = IF KeyMap[k] \in HoldSeqs /\ down THEN 0 ELSE held
        /\ arrows' = IF a = "toggle" /\ down THEN NextArrows ELSE arrows
        /\ step' = IF a = "step" /\ ~down THEN NextStep ELSE step
        /\ dir' = IF a \in Dirs /\ MovesMouse
                    THEN [dir EXCEPT ![a] = Motion(down)]
                    ELSE dir
        /\ clicks' = IF a \notin Clicks THEN clicks
                     ELSE IF down THEN clicks \union {a} ELSE clicks \ {a}
        /\ event' = [key |-> k, edge |-> edge, held |-> HoldFires(KeyMap[k], edge),
                     sent |-> Sent(s, edge)]
        /\ Carry
        /\ UNCHANGED size

----------------------------------------------------------------------------
(* trigger *)

row == at[1]
tcol == at[2]
InColumn == at # Idle /\ tcol < size[2] /\ row < size[1]

SkipColumn ==
    /\ InColumn /\ row = 0 /\ keystate[tcol] = last[tcol]
    /\ at' = <<0, tcol + 1>>
    /\ event' = Quiet
    /\ UNCHANGED <<pins, scan, settle, col, keystate, last, keydown>>
    /\ UNCHANGED <<arrows, step, size, dir, clicks, held, carried, since>>

(* The loop over the rows of a changed column; the column's state becomes  *)
(* the last one after its last row.                                        *)
Advance ==
    /\ InColumn /\ keystate[tcol] # last[tcol]
    /\ IF row + 1 < size[1]
         THEN at' = <<row + 1, tcol>> /\ UNCHANGED last
         ELSE at' = <<0, tcol + 1>> /\ last' = [last EXCEPT ![tcol] = keystate[tcol]]
    /\ UNCHANGED <<pins, scan, settle, col, keystate>>

KeyDown ==
    /\ Advance
    /\ row \in keystate[tcol] \ keydown[tcol]
    /\ Press("down", <<row, tcol>>)
    /\ keydown' = [keydown EXCEPT ![tcol] = @ \union {row}]
    /\ since' = [k \in HoldKeys |-> IF k = at THEN 0 ELSE since[k]]

KeyUp ==
    /\ Advance
    /\ row \in keydown[tcol] \ keystate[tcol]
    /\ keydown' = [keydown EXCEPT ![tcol] = @ \ {row}]
    /\ Press("up", <<row, tcol>>)
    /\ UNCHANGED since

NoEdge ==
    /\ Advance
    /\ row \in keydown[tcol] <=> row \in keystate[tcol]
    /\ event' = Quiet
    /\ UNCHANGED <<keydown, arrows, step, size, dir, clicks, held, carried, since>>

TriggerDone ==
    /\ at # Idle /\ tcol = size[2]
    /\ at' = Idle
    /\ event' = Quiet
    /\ UNCHANGED <<pins, scan, settle, col, keystate, last, keydown>>
    /\ UNCHANGED <<arrows, step, size, dir, clicks, held, carried, since>>

Trigger == SkipColumn \/ KeyDown \/ KeyUp \/ NoEdge \/ TriggerDone

Poll == SetCols \/ Settled \/ ReadRows \/ Trigger

Next ==
    \/ Hand \/ Tick \/ Poll
    \/ \E a \in ArrowsSet : SetArrows(a)
    \/ \E s \in Sizes : SetSize(s)

(* The main loop polls the keypad in every round and the timer runs; the   *)
(* hand and the serial line owe nothing.                                   *)
Fairness == WF_vars(Poll) /\ WF_vars(Tick)

Spec == Init /\ [][Next]_vars /\ Fairness

----------------------------------------------------------------------------
Scanned(k) == k[1] < size[1] /\ k[2] < size[2]

(* A key that stays closed is reported down in the end, and one that stays *)
(* open is reported up: no edge is lost to the scan, whatever the other    *)
(* keys do meanwhile and however the size of the pad was changed while it  *)
(* was at rest (poll, trigger, m_last_keystate).                           *)
ScanFollowsHand ==
    \A k \in Matrix :
        /\ <>[](k \in pins /\ Scanned(k)) => <>[](k \in Down)
        /\ <>[](k \notin pins /\ Scanned(k)) => <>[](k \notin Down)

(* The mouse moves and its buttons are pressed only while a key that says  *)
(* so is down: letting go of every key leaves the mouse still.  In the key *)
(* modes it never moves.  The one exception is a direction in which it     *)
(* moved when the mode changed, by a key or from the serial line (press).  *)
MouseFollowsKeys ==
    /\ \A d \in Dirs \ carried :
           dir[d] > 0 => arrows = Mouse /\ \E k \in Down : ActionOf[KeyMap[k]] = d
    /\ \A b \in clicks : \E k \in Down : ActionOf[KeyMap[k]] = b

(* A hold action runs when the key that has it is let go, exactly if that  *)
(* very key was held for between its minimum and its maximum time          *)
(* (press, with its one last_hold for all keys).                           *)
HoldActionInTime ==
    [][event'.edge = "up" /\ event'.key \in HoldKeys /\ event' # event =>
         LET h == HoldOf[KeyMap[event'.key]]
         IN  event'.held <=> since[event'.key] \in h.min..h.max]_vars
=============================================================================
