----------------------------- MODULE HidReport -----------------------------
(***************************************************************************)
(* One HID interface carries the keyboard and the mouse: how queued key    *)
(* presses and the mouse state become reports, and what the host makes of  *)
(* them.  CALLBACK_HID_Device_CreateHIDReport alternates between a report  *)
(* with a key (or, with no key queued, the mouse) and one with no key.     *)
(*                                                                         *)
(* The main loop's HID_Device_USBTask calls it once a frame when the       *)
(* endpoint bank is free and drops a report that neither is forced nor     *)
(* differs from the one before.  The control-endpoint interrupt calls it   *)
(* too, to answer GET_REPORT.  The key buffer is the queue of KeyFifo,     *)
(* which KeyRing is shown to implement.  The host has set the idle rate to *)
(* 0, so no report is repeated for its age.                                *)
(***************************************************************************)
EXTENDS Integers, Sequences

CONSTANTS
    Keys,       \* the keypairs, <<modifier, key code>>, that can be pressed
    Capacity,   \* how many presses the key buffer holds
    Moves,      \* the mouse states, sets of held directions and buttons
    Step,       \* CONFIG.mouse_step
    Control     \* when the host uses GET_REPORT: "between" reports or "any" time

ZeroKey == <<0, 0>>     \* the keypair 0
Moving == {"up", "down", "left", "right", "lclick", "rclick"}

ASSUME HidAssumption ==
    /\ Keys \subseteq ((0..255) \X (0..255)) \ {ZeroKey}
    /\ Capacity \in Nat \ {0}
    /\ Moves \subseteq SUBSET Moving /\ {} \in Moves
    /\ Step \in 1..63
    /\ Control \in {"between", "any"}

VARIABLES
    queue,      \* key presses in out_key_buffer
    mouse,      \* what MOUSE holds
    keyState,   \* key_state
    pc,         \* where the main loop is inside HID_Device_USBTask
    report,     \* the report it is building
    changed,    \* whether it is to be sent
    framed,     \* PrevFrameNum is the current frame
    prev,       \* the bytes in PrevHIDReportBuffer
    bank,       \* the IN endpoint's bank: the report in it, or Empty
    configured, \* USB_DeviceState is DEVICE_STATE_Configured
    hostKey,    \* the keypair the host sees down
    hostMouse,  \* the motion and buttons the host last saw
    expect      \* history: presses accepted that the host has not yet seen

taskVars == <<keyState, pc, report, changed, framed, prev>>
usbVars  == <<bank, configured>>
hostVars == <<hostKey, hostMouse, expect>>
vars == <<queue, mouse, taskVars, usbVars, hostVars>>

Zeros == <<0, 0, 0>>
Empty == [id |-> "none", bytes |-> Zeros]

(* Mutant: CONVERT_KEYPAIR's halves swapped. *)
KeyReportSwapped(k) == [id |-> "keyboard", bytes |-> <<k[2], 0, k[1]>>]

(* USB_KeyboardReport_Data_t starts modifier, reserved, key code;          *)
(* USB_MouseReport_Data_t is buttons, x, y: they share the buffer's bytes. *)
KeyReport(k) == [id |-> "keyboard", bytes |-> <<k[1], 0, k[2]>>]

(* get_mouse_status.  The condition of the right button is parsed as the   *)
(* alternative of the left one's, so a held left button hides it.          *)
Amount(m, d) == IF d \in m THEN Step ELSE 0
MouseReport(m) ==
    [id |-> "mouse",
     bytes |-> <<IF "lclick" \in m THEN 1 ELSE IF "rclick" \in m THEN 2 ELSE 0,
                 Amount(m, "right") - Amount(m, "left"),
                 Amount(m, "down") - Amount(m, "up")>>]

Reports == {KeyReport(k) : k \in Keys \union {ZeroKey}} \union {MouseReport(m) : m \in Moves}
IsPress(r) == r.id = "keyboard" /\ r.bytes # Zeros
KeyOf(r) == <<r.bytes[1], r.bytes[3]>>

TypeOK ==
    /\ queue \in Seq(Keys) /\ Len(queue) <= Capacity
    /\ mouse \in Moves
    /\ keyState \in {"SEND_KEY", "CLEAR_KEY"}
    /\ pc \in {"idle", "SEND_KEY", "CLEAR_KEY", "compare", "write"}
    /\ report \in Reports \union {Empty} /\ bank \in Reports \union {Empty}
    /\ changed \in BOOLEAN /\ framed \in BOOLEAN /\ configured \in BOOLEAN
    /\ prev \in {r.bytes : r \in Reports}
    /\ hostKey \in Keys \union {ZeroKey}
    /\ hostMouse \in {MouseReport(m).bytes : m \in Moves}
    /\ expect \in Seq(Keys)

Init ==
    /\ queue = << >> /\ mouse = {}
    /\ keyState = "SEND_KEY" /\ pc = "idle"
    /\ report = Empty /\ bank = Empty
    /\ changed = FALSE /\ framed = FALSE /\ configured = FALSE
    /\ prev = Zeros
    /\ hostKey = ZeroKey /\ hostMouse = Zeros
    /\ expect = << >>

----------------------------------------------------------------------------
(* The keypad, in the main loop and so never inside the HID task *)

(* What one key event can queue: write_scancode is called at most twice. *)
Bursts == {<< >>} \union {<<k>> : k \in Keys} \union (Keys \X Keys)

(* press: the presses that found room, and the mouse as it leaves it. *)
Pressed(ks, m) ==
    /\ pc = "idle"
    /\ Len(queue) + Len(ks) <= Capacity
    /\ queue' = queue \o ks
    /\ expect' = expect \o ks
    /\ mouse' = m
    /\ UNCHANGED <<taskVars, usbVars, hostKey, hostMouse>>

----------------------------------------------------------------------------
(* Mutant: key_state is not set to CLEAR_KEY. *)
CreateNoClear(st, r) ==
    \/ /\ st = "SEND_KEY" /\ queue # << >>
       /\ r = KeyReport(Head(queue))
       /\ queue' = Tail(queue)
       /\ UNCHANGED keyState
    \/ /\ st = "SEND_KEY" /\ queue = << >>
       /\ r = MouseReport(mouse)
       /\ UNCHANGED <<queue, keyState>>

(* CALLBACK_HID_Device_CreateHIDReport: the report r made in state st,     *)
(* with the press it takes from the queue and the state it leaves.         *)
Create(st, r) ==
    \/ /\ st = "SEND_KEY" /\ queue # << >>
       /\ r = KeyReport(Head(queue))
       /\ queue' = Tail(queue)
       /\ keyState' = "CLEAR_KEY"
    \/ /\ st = "SEND_KEY" /\ queue = << >>
       /\ r = MouseReport(mouse)
       /\ keyState' = "CLEAR_KEY"
       /\ UNCHANGED queue
    \/ /\ st = "CLEAR_KEY"
       /\ r = KeyReport(ZeroKey)
       /\ keyState' = "SEND_KEY"
       /\ UNCHANGED queue

(* Mutant: mouse reports are left to the comparison, like the keys. *)
ForcedNever(r) == FALSE

(* It asks for its mouse reports to be sent even if nothing changed.       *)
Forced(r) == r.id = "mouse"

----------------------------------------------------------------------------
(* HID_Device_USBTask, main loop *)

(* The task's early returns, and the callback's test of key_state.         *)
StartTask ==
    /\ pc = "idle"
    /\ configured /\ ~framed /\ bank = Empty
    /\ pc' = keyState
    /\ UNCHANGED <<queue, mouse, keyState, report, changed, framed, prev>>
    /\ UNCHANGED <<usbVars, hostVars>>

Fill ==
    /\ pc \in {"SEND_KEY", "CLEAR_KEY"}
    /\ \E r \in Reports : Create(pc, r) /\ report' = r
    /\ pc' = "compare"
    /\ UNCHANGED <<mouse, changed, framed, prev, usbVars, hostVars>>

Compare ==
    /\ pc = "compare"
    /\ changed' = (Forced(report) \/ report.bytes # prev)
    /\ pc' = "write"
    /\ UNCHANGED <<queue, mouse, keyState, report, framed, prev>>
    /\ UNCHANGED <<usbVars, hostVars>>

(* What is still expected when a press is seen, or is lost. *)
Settled == IF expect = << >> THEN expect ELSE Tail(expect)

(* On an endpoint a bus reset has disabled the report goes nowhere.        *)
Write ==
    /\ pc = "write"
    /\ prev' = report.bytes
    /\ bank' = IF changed /\ configured THEN report ELSE bank
    /\ expect' = IF IsPress(report) /\ ~configured THEN Settled ELSE expect
    /\ report' = Empty /\ changed' = FALSE
    /\ framed' = TRUE
    /\ pc' = "idle"
    /\ UNCHANGED <<queue, mouse, keyState, configured, hostKey, hostMouse>>

Task == StartTask \/ Fill \/ Compare \/ Write

----------------------------------------------------------------------------
(* The host *)

(* What a report tells the host; a press is one it did not see before.     *)
Receive(r) ==
    /\ hostMouse' = IF r.id = "mouse" THEN r.bytes ELSE hostMouse
    /\ hostKey' = IF r.id = "keyboard" THEN KeyOf(r) ELSE hostKey
    /\ expect' = IF IsPress(r) /\ hostKey' # hostKey THEN Settled ELSE expect

NextFrame ==
    /\ framed
    /\ framed' = FALSE
    /\ UNCHANGED <<queue, mouse, keyState, pc, report, changed, prev>>
    /\ UNCHANGED <<usbVars, hostVars>>

PollEndpoint ==
    /\ bank # Empty
    /\ Receive(bank)
    /\ bank' = Empty
    /\ UNCHANGED <<queue, mouse, taskVars, configured>>

MayControl ==
    /\ configured
    /\ \/ Control = "any"
       \/ Control = "between" /\ pc = "idle" /\ bank = Empty

(* GET_REPORT, served by the interrupt: whichever report the host asks for *)
(* the callback makes the next one, which goes to the host and into        *)
(* PrevHIDReportBuffer.                                                    *)
GetReport ==
    /\ MayControl
    /\ \E r \in Reports :
          /\ Create(keyState, r)
          /\ prev' = r.bytes
          /\ Receive(r)
    /\ UNCHANGED <<mouse, pc, report, changed, framed, usbVars>>

(* SET_CONFIGURATION sets the endpoints up afresh.                         *)
Configure ==
    /\ ~configured
    /\ configured' = TRUE /\ bank' = Empty
    /\ UNCHANGED <<queue, mouse, taskVars, hostVars>>

(* A bus reset: the bank is lost, and the host forgets the device's keys.  *)
BusReset ==
    /\ configured
    /\ configured' = FALSE /\ bank' = Empty
    /\ expect' = IF IsPress(bank) THEN Settled ELSE expect
    /\ hostKey' = ZeroKey /\ hostMouse' = Zeros
    /\ UNCHANGED <<queue, mouse, taskVars>>

Host == NextFrame \/ PollEndpoint \/ Configure

Next ==
    \/ \E ks \in Bursts, m \in Moves : Pressed(ks, m)
    \/ Task \/ Host \/ BusReset
    \/ GetReport

(* The main loop keeps calling the task, frames pass and a host polls a    *)
(* configured device; presses, resets and GET_REPORTs may stop.            *)
Fairness == WF_vars(Task) /\ WF_vars(NextFrame) /\ WF_vars(PollEndpoint) /\ WF_vars(Configure)

Spec == Init /\ [][Next]_vars /\ Fairness

----------------------------------------------------------------------------
(* The press on its way between the buffer and the host.                   *)
InFlight ==
    IF pc \in {"compare", "write"} /\ IsPress(report)
      THEN <<KeyOf(report)>>
    ELSE IF IsPress(bank) THEN <<KeyOf(bank)>>
    ELSE << >>

(* The host sees every accepted press as a press of its own, in order: a   *)
(* report that is dropped as unchanged never hides one, and between two    *)
(* presses of the same key it sees the key released (key_state, USBTask's  *)
(* comparison with the previous report).  A bus reset alone loses a press. *)
PressesInOrder == expect = InFlight \o queue

(* A key the host sees down it will see released, whatever the mouse does  *)
(* meanwhile (CLEAR_KEY, and a zero report that differs from the previous  *)
(* report whichever device that one was for).                              *)
KeyReleased == \A k \in Keys : hostKey = k ~> hostKey # k

(* The mouse the hand has stopped changing is what the host sees in the    *)
(* end, whatever the keyboard sends in between, as long as the keys let    *)
(* the mouse through at all (PROCESS_MOUSE only with an empty buffer).     *)
MouseArrives ==
    \A m \in Moves :
        <>[](mouse = m /\ configured /\ queue = << >>)
            => <>[](hostMouse = MouseReport(m).bytes)
=============================================================================
