----------------------------- MODULE SerialLine -----------------------------
(***************************************************************************)
(* The serial line between the host and the menus, both ways: the bulk OUT *)
(* endpoint, from which each round of the main loop takes one byte into    *)
(* the ring of usb_serial_class, the menu that reads the ring one byte a   *)
(* poll and computes for some polls without reading, and what it prints,   *)
(* byte by byte through the IN endpoint, waiting for the host while its    *)
(* bank is full, with the watchdog running.                                *)
(*                                                                         *)
(* A command is CmdLen bytes, as those of the GPIO menu are, and its reply *)
(* ReplyLen; what commands mean is the subject of Console.  Time passes in *)
(* USB frames, and only while the main loop waits: the rest takes none.    *)
(***************************************************************************)
EXTENDS Integers, Sequences, FiniteSets

CONSTANTS
    Size,           \* SERIAL_BUFFER_SIZE
    EpSize,         \* CDC_TXRX_EPSIZE
    CmdLen,         \* bytes of a command
    ComputePolls,   \* polls from its last byte to its reply
    ReplyLen,       \* bytes of a reply
    ReportLen,      \* bytes of a key report
    Ahead,          \* commands the host sends before it has the first reply
    Latency,        \* frames in which a host that listens takes the IN bank
    Timeout,        \* USB_STREAM_TIMEOUT_MS
    Dog             \* WDTO_250MS

ASSUME SerialAssumption ==
    /\ Size \in Nat \ {0, 1}
    /\ {EpSize, CmdLen, ComputePolls, ReplyLen, ReportLen, Ahead} \subseteq Nat \ {0}
    /\ {Latency, Timeout, Dog} \subseteq Nat \ {0}

Ids == 0..Ahead - 1       \* tell the commands on the way apart
Command(id) == [i \in 1..CmdLen |-> <<id, i>>]
Bytes == Ids \X (1..CmdLen)
NoByte == <<-1, -1>>        \* 0xff

VARIABLES
    line,       \* "closed": no line encoding is set; "open"; "gone": the host
                \* has it open and does not read
    pending,    \* bytes the host has still to send
    asked,      \* commands it has sent or begun to send, and not seen answered
    seen,       \* reply bytes it has seen of the first of these
    outBank,    \* the OUT endpoint's bank
    buf, head, tail,    \* m_serial_buffer, m_head, m_tail
    popped,     \* what the last pop() returned
    pushed,     \* history: what became of the last push()
    cmd,        \* the bytes the menu has of a command
    compute,    \* polls it will compute for
    pc,         \* where the main loop is
    left,       \* bytes it has still to print
    kind,       \* and what they are
    bank,       \* the IN endpoint's bank
    armed,      \* it is the host's turn with it
    waited,     \* frames spent in Endpoint_WaitUntilReady
    dog,        \* frames since the watchdog was kicked
    absent,     \* history: in some of them the host was gone
    todo,       \* history: commands sent and not executed
    cut         \* history: a byte of a reply was not sent

hostVars == <<line, pending, asked, seen>>
ringVars == <<buf, head, tail, popped, pushed>>
menuVars == <<cmd, compute>>
outVars  == <<left, kind, bank, armed, waited>>
dogVars  == <<dog, absent>>
vars == <<hostVars, outBank, ringVars, menuVars, pc, outVars, dogVars, todo, cut>>

Slots == 0..Size - 1
Kinds == {"reply", "echo", "report"}
Waits == {"flush_wait", "print_wait"}
Points == {"round", "flush", "receive", "poll", "print"} \union Waits

TypeOK ==
    /\ line \in {"closed", "open", "gone"}
    /\ pending \in Seq(Bytes) /\ outBank \in Seq(Bytes) /\ Len(outBank) <= EpSize
    /\ asked \in Seq(Ids) /\ Len(asked) <= Ahead /\ todo \in Seq(Ids)
    /\ seen \in 0..ReplyLen - 1
    /\ buf \in [Slots -> Bytes \union {NoByte}]
    /\ head \in Slots /\ tail \in Slots
    /\ popped \in Bytes \union {NoByte}
    /\ pushed \in {"nothing", "accepted", "refused"}
    /\ cmd \in Seq(Bytes) /\ Len(cmd) <= CmdLen
    /\ compute \in 0..ComputePolls
    /\ pc \in Points
    /\ left \in 0..ReplyLen + ReportLen /\ kind \in Kinds
    /\ bank \in Seq({"reply", "other"}) /\ Len(bank) <= EpSize
    /\ armed \in BOOLEAN /\ absent \in BOOLEAN /\ cut \in BOOLEAN
    /\ waited \in 0..Timeout /\ dog \in 0..Dog

Init ==
    /\ line = "closed" /\ pending = << >> /\ asked = << >> /\ seen = 0
    /\ outBank = << >>
    /\ buf = [i \in Slots |-> NoByte] /\ head = 0 /\ tail = 0
    /\ popped = NoByte /\ pushed = "nothing"
    /\ cmd = << >> /\ compute = 0
    /\ pc = "round" /\ left = 0 /\ kind = "reply" /\ bank = << >>
    /\ armed = FALSE /\ waited = 0
    /\ dog = 0 /\ absent = FALSE
    /\ todo = << >> /\ cut = FALSE

----------------------------------------------------------------------------
(* The host.  It sends nothing before it has opened the line, which sets   *)
(* the line encoding, and packets only when the OUT bank is free.          *)

OpenLine ==
    /\ line = "closed"
    /\ line' = "open"
    /\ UNCHANGED <<pending, asked, seen, outBank, ringVars, menuVars, pc, outVars, dogVars, todo, cut>>

Leave ==
    /\ line = "open"
    /\ line' = "gone"
    /\ UNCHANGED <<pending, asked, seen, outBank, ringVars, menuVars, pc, outVars, dogVars, todo, cut>>

Return ==
    /\ line = "gone"
    /\ line' = "open"
    /\ UNCHANGED <<pending, asked, seen, outBank, ringVars, menuVars, pc, outVars, dogVars, todo, cut>>

Waiting(id) == \E i \in 1..Len(asked) : asked[i] = id

Ask(id) ==
    /\ line = "open" /\ Len(asked) < Ahead
    /\ ~Waiting(id) /\ \A lower \in 0..id - 1 : Waiting(lower)
    /\ asked' = Append(asked, id) /\ todo' = Append(todo, id)
    /\ pending' = pending \o Command(id)
    /\ UNCHANGED <<line, seen, outBank, ringVars, menuVars, pc, outVars, dogVars, cut>>

SendPacket(n) ==
    /\ line = "open" /\ outBank = << >> /\ n <= Len(pending)
    /\ outBank' = SubSeq(pending, 1, n)
    /\ pending' = SubSeq(pending, n + 1, Len(pending))
    /\ UNCHANGED <<line, asked, seen, ringVars, menuVars, pc, outVars, dogVars, todo, cut>>

Replies(b) == Cardinality({i \in 1..Len(b) : b[i] = "reply"})

(* The host takes the IN bank; echoes and reports it passes over.          *)
TakeBank ==
    /\ line = "open" /\ armed
    /\ LET now == seen + Replies(bank)
       IN  /\ seen' = now % ReplyLen
           /\ asked' = IF now >= ReplyLen /\ asked # << >> THEN Tail(asked) ELSE asked
    /\ bank' = << >> /\ armed' = FALSE
    /\ UNCHANGED <<line, pending, outBank, ringVars, menuVars, pc, left, kind, waited, dogVars, todo, cut>>

Host == \/ OpenLine \/ Leave \/ Return \/ TakeBank
        \/ \E id \in Ids : Ask(id)
        \/ \E n \in 1..EpSize : SendPacket(n)

----------------------------------------------------------------------------
(* Printing: fputs and CDC_Device_SendByte, and the flush of               *)
(* CDC_Device_USBTask *)

(* A bank that is full, or that the host has, takes no byte.               *)
Room == ~armed /\ Len(bank) < EpSize

(* On a closed line output goes nowhere, at once.                          *)
PrintByte ==
    /\ pc = "print" /\ dog < Dog /\ left > 0
    /\ \/ /\ line = "closed"
          /\ left' = left - 1
          /\ UNCHANGED <<pc, bank, armed, waited>>
       \/ /\ line # "closed" /\ Room
          /\ left' = left - 1 /\ bank' = Append(bank, IF kind = "reply" THEN kind ELSE "other")
          /\ UNCHANGED <<pc, armed, waited>>
       \/ /\ line # "closed" /\ ~Room
          /\ armed' = TRUE /\ waited' = 0
          /\ pc' = "print_wait"
          /\ UNCHANGED <<left, bank>>
    /\ UNCHANGED <<hostVars, outBank, ringVars, menuVars, kind, dogVars, todo, cut>>

(* Endpoint_WaitUntilReady ends: the bank is free, or the time is up and   *)
(* the byte is lost.                                                       *)
WaitEnds ==
    /\ pc \in Waits /\ dog < Dog
    /\ ~armed \/ waited = Timeout
    /\ waited' = 0
    /\ \/ /\ pc = "print_wait" /\ pc' = "print"
          /\ left' = left - 1
          /\ bank' = IF armed THEN bank ELSE Append(bank, IF kind = "reply" THEN kind ELSE "other")
          /\ cut' = (cut \/ (armed /\ kind = "reply"))
          /\ UNCHANGED armed
       \/ /\ pc = "flush_wait" /\ pc' = "receive"
          /\ armed' = TRUE
          /\ UNCHANGED <<left, bank, cut>>
    /\ UNCHANGED <<hostVars, outBank, ringVars, menuVars, kind, dogVars, todo>>

(* A report is printed by PAD.poll, before the kick; the rest by the menu. *)
PrintDone ==
    /\ pc = "print" /\ dog < Dog /\ left = 0
    /\ pc' = IF kind = "report" THEN "flush" ELSE "round"
    /\ kind' = "reply"
    /\ UNCHANGED <<hostVars, outBank, ringVars, menuVars, left, bank, armed, waited, dogVars, todo, cut>>

----------------------------------------------------------------------------
(* The main loop *)

(* PAD.poll, with or without a key to report. *)
PadPoll ==
    /\ pc = "round" /\ dog < Dog
    /\ \/ /\ pc' = "flush"
          /\ UNCHANGED <<left, kind>>
       \/ /\ pc' = "print"
          /\ left' = ReportLen /\ kind' = "report"
    /\ UNCHANGED <<hostVars, outBank, ringVars, menuVars, bank, armed, waited, dogVars, todo, cut>>

(* Mutant: only a full bank is handed over. *)
FlushableFull == bank # << >> /\ ~armed /\ Len(bank) = EpSize

Flushable == bank # << >> /\ ~armed

(* Mutant: the watchdog is not kicked. *)
KickNever == UNCHANGED dogVars

Kick == dog' = 0 /\ absent' = FALSE

(* DOG.kick, then the flush; a full bank is waited for, and followed by an *)
(* empty packet.                                                           *)
Flush ==
    /\ pc = "flush" /\ dog < Dog
    /\ Kick
    /\ armed' = (armed \/ (line # "closed" /\ Flushable))
    /\ pc' = IF line # "closed" /\ Flushable /\ Len(bank) = EpSize THEN "flush_wait" ELSE "receive"
    /\ UNCHANGED <<hostVars, outBank, ringVars, menuVars, left, kind, bank, waited, todo, cut>>

(* Mutant: the index wraps one slot too late. *)
FollowingLate(i) == IF i = Size THEN 0 ELSE i + 1

Following(i) == IF i + 1 = Size THEN 0 ELSE i + 1

(* Mutant: a slot too many stays free. *)
RingFullEarly == Following(Following(head)) = tail

RingFull == head + 1 = tail \/ (head + 1 = Size /\ tail = 0)

Push(c) ==
    \/ /\ RingFull
       /\ pushed' = "refused"
       /\ UNCHANGED <<buf, head>>
    \/ /\ ~RingFull
       /\ buf' = [buf EXCEPT ![head] = c]
       /\ head' = Following(head)
       /\ pushed' = "accepted"

(* CDC_Device_ReceiveByte and ser_push: one byte a round. *)
Receive ==
    /\ pc = "receive" /\ dog < Dog
    /\ pc' = "poll"
    /\ \/ /\ (line = "closed" \/ outBank = << >>)
          /\ UNCHANGED <<outBank, buf, head, pushed>>
       \/ /\ line # "closed" /\ outBank # << >>
          /\ outBank' = Tail(outBank)
          /\ Push(Head(outBank))
    /\ UNCHANGED <<hostVars, tail, popped, menuVars, outVars, dogVars, todo, cut>>

(* A poll that reads: SERIAL.read kicks the watchdog, the byte is echoed.  *)
PollRead ==
    /\ pc = "poll" /\ dog < Dog /\ compute = 0
    /\ Kick
    /\ \/ /\ head = tail
          /\ popped' = NoByte
          /\ pc' = "round"
          /\ UNCHANGED <<tail, menuVars, left, kind>>
       \/ /\ head # tail
          /\ popped' = buf[tail] /\ tail' = Following(tail)
          /\ cmd' = Append(cmd, buf[tail])
          /\ compute' = IF Len(cmd') = CmdLen THEN ComputePolls ELSE 0
          /\ pc' = "print" /\ left' = 1 /\ kind' = "echo"
    /\ UNCHANGED <<hostVars, outBank, buf, head, pushed, bank, armed, waited, todo, cut>>

(* A poll that computes; the last one runs the command and prints.         *)
PollCompute ==
    /\ pc = "poll" /\ dog < Dog /\ compute > 0
    /\ compute' = compute - 1
    /\ \/ /\ compute > 1 /\ pc' = "round"
          /\ UNCHANGED <<cmd, left, kind, todo>>
       \/ /\ compute = 1
          /\ cmd' = << >>
          /\ todo' = IF todo # << >> THEN Tail(todo) ELSE todo
          /\ pc' = "print" /\ left' = ReplyLen /\ kind' = "reply"
    /\ UNCHANGED <<hostVars, outBank, ringVars, bank, armed, waited, dogVars, cut>>

MainLoop == \/ PadPoll \/ Flush \/ Receive \/ PollRead \/ PollCompute
            \/ PrintByte \/ WaitEnds \/ PrintDone

----------------------------------------------------------------------------
(* A frame of the bus.  A host that listens takes the IN bank in Latency.  *)
Frame ==
    /\ pc \in Waits /\ dog < Dog /\ armed /\ waited < Timeout
    /\ line = "open" => waited < Latency
    /\ waited' = waited + 1 /\ dog' = dog + 1
    /\ absent' = (absent \/ line = "gone")
    /\ UNCHANGED <<hostVars, outBank, ringVars, menuVars, pc, left, kind, bank, armed, todo, cut>>

(* The watchdog restarts the device, which leaves the bus: the line is     *)
(* closed and the host begins anew.                                        *)
DogBite ==
    /\ dog = Dog
    /\ line' = "closed" /\ pending' = << >> /\ asked' = << >> /\ seen' = 0
    /\ outBank' = << >>
    /\ buf' = [i \in Slots |-> NoByte] /\ head' = 0 /\ tail' = 0
    /\ popped' = NoByte /\ pushed' = "nothing"
    /\ cmd' = << >> /\ compute' = 0
    /\ pc' = "round" /\ left' = 0 /\ kind' = "reply" /\ bank' = << >>
    /\ armed' = FALSE /\ waited' = 0
    /\ dog' = 0 /\ absent' = FALSE
    /\ todo' = << >> /\ cut' = FALSE

Next == Host \/ MainLoop \/ Frame \/ DogBite

(* The main loop runs and frames pass; a host that has the line open reads *)
(* it and sends what it has to send.                                       *)
Fairness ==
    /\ WF_vars(MainLoop) /\ WF_vars(Frame) /\ WF_vars(DogBite) /\ WF_vars(TakeBank)
    /\ WF_vars(\E n \in 1..EpSize : SendPacket(n))

Spec == Init /\ [][Next]_vars /\ Fairness

----------------------------------------------------------------------------
QueueLen == IF tail <= head THEN head - tail ELSE head + Size - tail
SlotOf(i) == IF tail + i - 1 < Size THEN tail + i - 1 ELSE tail + i - 1 - Size
QueueSeq == [i \in 1..QueueLen |-> buf[SlotOf(i)]]

(* Between two starts of the device the ring is the bounded queue of       *)
(* KeyFifo with a place less than slots: it hands out every byte it took,  *)
(* once and in order, and refuses one only when it is full (push, pop).    *)
Fifo == INSTANCE KeyFifo WITH
            queue <- QueueSeq, Keys <- Bytes, NoKey <- NoByte, Capacity <- Size - 1

RingIsFifo == Fifo!FifoInit /\ [][Fifo!FifoNext \/ DogBite]_(Fifo!fifoVars)

(* Of a host that waits for replies, every command arrives whole: what the *)
(* menu runs is the command the host sent first of those not yet run, byte *)
(* for byte, though its computing polls leave the ring unread, and however *)
(* the host goes away and comes back (lufa_main_loop, push, poll).         *)
CommandsWhole ==
    [][pc = "poll" /\ compute = 1 /\ pc' = "print" =>
         todo # << >> /\ cmd = Command(Head(todo))]_vars

(* Output that the host takes never makes the watchdog bite, also when a   *)
(* report, an echo and a reply are waited for in one round: it bites only  *)
(* after the host was gone (SendByte's waits between two kicks).           *)
DogNeedsAbsentHost == dog = Dog => absent

(* A host that keeps reading sees every command answered: the end of a     *)
(* reply does not stay behind in a bank that is not full (USBTask's flush, *)
(* WaitUntilReady).                                                        *)
EveryCommandAnswered ==
    []<>(line = "gone") \/ \A id \in Ids : Waiting(id) ~> ~Waiting(id) \/ cut
=============================================================================
