------------------------------ MODULE Navputter ------------------------------
(***************************************************************************)
(* The way from the hand to the host's screen: the keypad, the queue of    *)
(* key presses, the mouse state and the HID interface, in the order in     *)
(* which main() takes them: each round polls the keypad once, with all of  *)
(* trigger() if the poll gets there, and then runs the HID task to its     *)
(* end.  The hand, the timer interrupt, the control endpoint's interrupt   *)
(* and the bus come in between any two steps.                              *)
(*                                                                         *)
(* Keypad, which this module extends, and HidReport give the steps; this   *)
(* module says what they share: a key event of the one is the press of the *)
(* other, to whose queue it adds and whose mouse it sets.                  *)
(***************************************************************************)
EXTENDS Keypad

CONSTANTS
    MouseStep,      \* CONFIG.mouse_step, which nothing changes here
    Capacity,       \* how many presses the key buffer holds
    Control         \* as in HidReport

VARIABLES
    queue, keyState, pc, report, changed, framed, prev,
    bank, configured, hostKey, hostMouse, expect,           \* of HidReport
    turn,   \* what the main loop does next
    due     \* history: per position, how many presses the hand's last
            \* closing still warrants

hidVars == <<queue, keyState, pc, report, changed, framed, prev,
             bank, configured, hostKey, hostMouse, expect>>
navVars == <<vars, hidVars, turn, due>>

(* MOUSE: the directions and buttons get_mouse_status finds in it. *)
MouseOf(dirs, buttons) ==
    {CASE d = "mouse_up" -> "up"     [] d = "mouse_down" -> "down"
       [] d = "mouse_left" -> "left" [] d = "mouse_right" -> "right" : d \in dirs}
    \union {CASE b = "click_left" -> "lclick" [] b = "click_right" -> "rclick" :
            b \in buttons \ {"click_middle"}}

MouseNow == MouseOf({d \in Dirs : dir[d] > 0}, clicks)

(* The keypairs and the states of the mouse that the keys can make. *)
Keys == {KeyPress[s][i] : s \in Seqs, i \in 1..2} \ {NoKey}
Actable == {ActionOf[KeyMap[k]] : k \in Matrix}
           \union {ActionOf[HoldOf[KeyMap[k]].to] : k \in HoldKeys}
Moves == {MouseOf(ds, bs) : ds \in SUBSET (Dirs \cap Actable),
                            bs \in SUBSET (Clicks \cap Actable)}

Hid == INSTANCE HidReport WITH mouse <- MouseNow, Step <- MouseStep

Keypairs == (0..255) \X (0..255)

ASSUME NavAssumption ==
    /\ NoKey = <<0, 0>>
    /\ KeyPress \in [Seqs -> Keypairs \X Keypairs]
    /\ MouseStep \in 1..63 /\ Steps = {MouseStep}
    /\ \A s \in Seqs : ActionOf[s] # "step"
    /\ Capacity \in Nat \ {0}
    /\ Control \in {"between", "any"}

NavInit ==
    /\ Init /\ Hid!Init
    /\ turn = "pad"
    /\ due = [k \in Matrix |-> 0]

----------------------------------------------------------------------------
(* The world.  A closing warrants one press; of a key whose release sends  *)
(* too, two, and the release of the press before it may still be to come.  *)

(* In a key mode an arrow sends its key on the press and on the release,   *)
(* also one that stands in as a hold action.                               *)
SendsOnRelease(k) ==
    \/ ActionOf[KeyMap[k]] \in Dirs
    \/ k \in HoldKeys /\ ActionOf[HoldOf[KeyMap[k]].to] \in Dirs

Warrant(k) ==
    IF ~SendsOnRelease(k) THEN 1
    ELSE IF k \in Down THEN 3 ELSE 2

HandMoves ==
    /\ Hand
    /\ due' = [k \in Matrix |-> IF k \in pins' \ pins THEN Warrant(k) ELSE due[k]]
    /\ UNCHANGED <<hidVars, turn>>

TimerTicks == Tick /\ UNCHANGED <<hidVars, turn, due>>

MenuSetsArrows(a) ==
    /\ pc = "idle"
    /\ KeysUp => Down = {}
    /\ SetArrows(a)
    /\ UNCHANGED <<hidVars, turn, due>>

(* The bus and the interrupt of the control endpoint. *)
Bus ==
    /\ UNCHANGED <<vars, turn, due>>
    /\ Hid!Host \/ Hid!BusReset \/ Hid!GetReport

----------------------------------------------------------------------------
(* The main loop *)

(* The keypairs of one event that find room, and are queued. *)
Accepted(sent) ==
    LET room == Capacity - Len(queue)
    IN  IF Len(sent) <= room THEN sent ELSE SubSeq(sent, 1, room)

(* One event of trigger(), with the keys it queues (write_scancode). *)
KeyEvent ==
    /\ KeyDown \/ KeyUp
    /\ Hid!Pressed(Accepted(event'.sent), MouseNow')
    /\ due' = [due EXCEPT ![event'.key] = IF event'.sent = << >> THEN @ ELSE @ - 1]

QuietPoll ==
    /\ SetCols \/ Settled \/ ReadRows \/ SkipColumn \/ NoEdge \/ TriggerDone
    /\ UNCHANGED <<hidVars, due>>

(* PAD.poll, which may find the column still settling. *)
PadPoll ==
    /\ turn = "pad"
    /\ \/ KeyEvent \/ QuietPoll
       \/ /\ scan = "wait" /\ settle > 0
          /\ UNCHANGED <<vars, hidVars, due>>
    /\ turn' = IF at' = Idle THEN "usb" ELSE "pad"

(* HID_Device_USBTask, to its end or to one of its early returns. *)
UsbTask ==
    /\ turn = "usb"
    /\ UNCHANGED <<vars, due>>
    /\ \/ Hid!Task
       \/ /\ pc = "idle" /\ (~configured \/ framed \/ bank # Hid!Empty)
          /\ UNCHANGED hidVars
    /\ turn' = IF pc' = "idle" THEN "pad" ELSE "usb"

MainLoop == PadPoll \/ UsbTask

NavNext == HandMoves \/ TimerTicks \/ Bus \/ MainLoop \/ \E a \in ArrowsSet : MenuSetsArrows(a)

(* The main loop and the timer run, frames pass and a host polls the       *)
(* device it has configured; nothing else is owed.  After a report both    *)
(* the frame and the poll must come before the next one, so that fairness  *)
(* to either is fairness to both.                                          *)
Frame == UNCHANGED <<vars, turn, due>> /\ (Hid!NextFrame \/ Hid!PollEndpoint)

NavFairness == WF_navVars(MainLoop) /\ WF_navVars(TimerTicks) /\ WF_navVars(Frame)

NavSpec == NavInit /\ [][NavNext]_navVars /\ NavFairness

----------------------------------------------------------------------------
(* What the keys in hand say to the mouse: the sum of the arrow keys, and  *)
(* the buttons.                                                            *)
MotionOf(hand) ==
    LET acts == {ActionOf[KeyMap[k]] : k \in hand}
    IN  Hid!MouseReport(MouseOf(Dirs \cap acts, Clicks \cap acts)).bytes

(* Whatever went before, presses lost on a full queue, mode changes, bus   *)
(* resets and GET_REPORTs included: when the hand rests, the host's mouse  *)
(* moves in the end as the keys in hand say, and it sees no key down       *)
(* (poll, trigger, press, CreateHIDReport, USBTask).                       *)
HostFollowsHand ==
    /\ <>[][pins' = pins]_navVars
    /\ <>[](configured /\ arrows = Mouse)
    => <>[](hostMouse = MotionOf(pins) /\ hostKey = NoKey)

(* The host never sees a press the hand did not make: each closing of a    *)
(* switch warrants one, or two of an arrow key in a key mode, however the  *)
(* scan, the mode changes and the releases fall (trigger, press).          *)
NoPhantomPress == \A k \in Matrix : due[k] >= 0
=============================================================================
