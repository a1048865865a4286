-------------------------- MODULE HidReport_proofs --------------------------
(***************************************************************************)
(* Proofs about the HID reports, for every set of keys, set of mouse       *)
(* states and size of the key buffer.                                      *)
(***************************************************************************)
EXTENDS HidReport, SequenceTheorems, TLAPS

(* A report of the keys says which key it carries, one of the mouse is     *)
(* none of theirs, whatever their bytes.                                   *)
LEMMA ReportFacts ==
  /\ \A k \in Keys \union {ZeroKey} :
        /\ KeyReport(k) \in Reports /\ KeyReport(k).id = "keyboard"
        /\ KeyOf(KeyReport(k)) = k
        /\ KeyReport(k).bytes = Zeros <=> k = ZeroKey
  /\ \A m \in Moves : MouseReport(m) \in Reports /\ MouseReport(m).id = "mouse"
  /\ \A r \in Reports : \/ \E k \in Keys \union {ZeroKey} : r = KeyReport(k)
                        \/ \E m \in Moves : r = MouseReport(m)
  /\ Empty.id = "none" /\ Empty.bytes = Zeros /\ ZeroKey \notin Keys
<1>1. ASSUME NEW k \in Keys \union {ZeroKey}
      PROVE  /\ KeyReport(k) \in Reports /\ KeyReport(k).id = "keyboard"
             /\ KeyOf(KeyReport(k)) = k
             /\ KeyReport(k).bytes = Zeros <=> k = ZeroKey
  <2>1. k \in (0..255) \X (0..255)
    BY HidAssumption DEF ZeroKey
  <2>2. k = <<k[1], k[2]>>
    BY <2>1
  <2>3. KeyReport(k) \in Reports
    BY DEF Reports
  <2>4. KeyReport(k).id = "keyboard" /\ KeyReport(k).bytes = <<k[1], 0, k[2]>>
    BY DEF KeyReport
  <2>5. KeyOf(KeyReport(k)) = k
    BY <2>2, <2>4 DEF KeyOf
  <2>6. KeyReport(k).bytes = Zeros <=> k = ZeroKey
    BY <2>2, <2>4 DEF Zeros, ZeroKey
  <2>7. QED
    BY <2>3, <2>4, <2>5, <2>6
<1>2. ASSUME NEW m \in Moves PROVE MouseReport(m) \in Reports /\ MouseReport(m).id = "mouse"
  BY DEF Reports, MouseReport
<1>3. ASSUME NEW r \in Reports
      PROVE  \/ \E k \in Keys \union {ZeroKey} : r = KeyReport(k)
             \/ \E m \in Moves : r = MouseReport(m)
  BY DEF Reports
<1>4. Empty.id = "none" /\ Empty.bytes = Zeros /\ ZeroKey \notin Keys
  BY HidAssumption DEF Empty
<1>5. QED
  BY <1>1, <1>2, <1>3, <1>4

(* The sequences that a press joins, and leaves first. *)
LEMMA QueueFacts ==
  ASSUME NEW q \in Seq(Keys)
  PROVE  /\ << >> \in Seq(Keys) /\ Len(q) \in Nat
         /\ << >> \o q = q
         /\ \A k \in Keys : <<k>> \o q # << >> /\ Tail(<<k>> \o q) = q
         /\ q # << >> => /\ Head(q) \in Keys /\ Tail(q) \in Seq(Keys) /\ Len(Tail(q)) = Len(q) - 1
                         /\ <<Head(q)>> \o Tail(q) = q
<1>1. << >> \in Seq(Keys) /\ Len(q) \in Nat /\ << >> \o q = q
  BY ConcatEmptySeq
<1>2. ASSUME NEW k \in Keys PROVE <<k>> \o q # << >> /\ Tail(<<k>> \o q) = q
  <2>1. <<k>> \in Seq(Keys) /\ Len(<<k>>) = 1
    OBVIOUS
  <2>2. <<k>> \o q \in Seq(Keys) /\ Len(<<k>> \o q) = 1 + Len(q)
        /\ \A i \in 1..1 + Len(q) : (<<k>> \o q)[i] = IF i <= 1 THEN <<k>>[i] ELSE q[i - 1]
    BY <2>1, ConcatProperties
  <2>3. <<k>> \o q # << >>
    BY <1>1, <2>2
  <2>4. /\ Tail(<<k>> \o q) \in Seq(Keys) /\ Len(Tail(<<k>> \o q)) = Len(q)
        /\ \A i \in 1..Len(q) : Tail(<<k>> \o q)[i] = (<<k>> \o q)[i + 1]
    BY <1>1, <2>2, <2>3, HeadTailProperties
  <2>5. \A i \in 1..Len(q) : Tail(<<k>> \o q)[i] = q[i]
    BY <1>1, <2>2, <2>4
  <2>6. QED
    BY <2>3, <2>4, <2>5, SeqEqual
<1>3. ASSUME q # << >>
      PROVE  /\ Head(q) \in Keys /\ Tail(q) \in Seq(Keys) /\ Len(Tail(q)) = Len(q) - 1
             /\ <<Head(q)>> \o Tail(q) = q
  <2>1. /\ Head(q) \in Keys /\ Tail(q) \in Seq(Keys) /\ Len(Tail(q)) = Len(q) - 1
        /\ \A i \in 1..Len(Tail(q)) : Tail(q)[i] = q[i + 1]
    BY <1>3, HeadTailProperties
  <2>2. <<Head(q)>> \in Seq(Keys) /\ Len(<<Head(q)>>) = 1 /\ Head(q) = q[1]
    BY <2>1
  <2>3. /\ <<Head(q)>> \o Tail(q) \in Seq(Keys)
        /\ Len(<<Head(q)>> \o Tail(q)) = Len(q)
        /\ \A i \in 1..Len(q) : (<<Head(q)>> \o Tail(q))[i] = IF i <= 1 THEN <<Head(q)>>[i] ELSE Tail(q)[i - 1]
    BY <1>1, <2>1, <2>2, ConcatProperties
  <2>4. \A i \in 1..Len(q) : (<<Head(q)>> \o Tail(q))[i] = q[i]
    BY <1>1, <2>1, <2>2, <2>3
  <2>5. QED
    BY <2>1, <2>3, <2>4, SeqEqual
<1>4. QED
  BY <1>1, <1>2, <1>3

(* The presses that one key event queues are a sequence of keys. *)
LEMMA BurstFacts == \A ks \in Bursts : ks \in Seq(Keys)
<1>1. << >> \in Seq(Keys) /\ \A k \in Keys : <<k>> \in Seq(Keys)
  OBVIOUS
<1>2. ASSUME NEW ks \in Keys \X Keys PROVE ks \in Seq(Keys)
  <2>1. ks = <<ks[1], ks[2]>> /\ ks[1] \in Keys /\ ks[2] \in Keys
    OBVIOUS
  <2>2. \A j, k \in Keys : <<j, k>> \in Seq(Keys)
    OBVIOUS
  <2>3. QED
    BY <2>1, <2>2
<1>3. QED
  BY <1>1, <1>2 DEF Bursts

-----------------------------------------------------------------------------
(* What the host makes of a report keeps its type. *)
LEMMA ReceiveType ==
  ASSUME TypeOK, NEW r \in Reports, Receive(r)
  PROVE  /\ hostKey' \in Keys \union {ZeroKey}
         /\ hostMouse' \in {MouseReport(m).bytes : m \in Moves}
         /\ expect' \in Seq(Keys)
<1>1. hostKey' \in Keys \union {ZeroKey}
  BY ReportFacts DEF Receive, TypeOK
<1>2. hostMouse' \in {MouseReport(m).bytes : m \in Moves}
  BY ReportFacts DEF Receive, TypeOK
<1>3. Settled \in Seq(Keys)
  BY QueueFacts DEF Settled, TypeOK
<1>4. expect' \in Seq(Keys)
  BY <1>3 DEF Receive, TypeOK
<1>5. QED
  BY <1>1, <1>2, <1>4

(* Making a report takes at most one press from the queue. *)
LEMMA CreateType ==
  ASSUME TypeOK, NEW st, NEW r, Create(st, r)
  PROVE  /\ queue' \in Seq(Keys) /\ Len(queue') <= Capacity
         /\ keyState' \in {"SEND_KEY", "CLEAR_KEY"}
<1>1. Capacity \in Nat
  BY HidAssumption
<1>2. CASE queue = << >> \/ queue' = queue
  BY <1>2 DEF Create, TypeOK
<1>3. CASE queue # << >> /\ queue' = Tail(queue)
  BY <1>1, <1>3, QueueFacts DEF Create, TypeOK
<1>4. QED
  BY <1>2, <1>3 DEF Create

(* Every step keeps every variable in its range. *)
LEMMA TypeStep == TypeOK /\ [Next]_vars => TypeOK'
<1> SUFFICES ASSUME TypeOK, [Next]_vars PROVE TypeOK'
  OBVIOUS
<1> USE DEF TypeOK
<1>1. ASSUME NEW ks \in Bursts, NEW m \in Moves, Pressed(ks, m) PROVE TypeOK'
  <2>1. ks \in Seq(Keys) /\ queue \in Seq(Keys) /\ expect \in Seq(Keys)
    BY BurstFacts
  <2>2. /\ queue \o ks \in Seq(Keys) /\ Len(queue \o ks) = Len(queue) + Len(ks)
        /\ expect \o ks \in Seq(Keys)
    BY <2>1, ConcatProperties
  <2>3. queue' \in Seq(Keys) /\ Len(queue') <= Capacity /\ expect' \in Seq(Keys)
    BY <1>1, <2>2 DEF Pressed
  <2>4. QED
    BY <1>1, <2>3 DEF Pressed, taskVars, usbVars
<1>2. CASE StartTask
  BY <1>2 DEF StartTask, usbVars, hostVars
<1>3. CASE Fill
  <2>1. PICK r \in Reports : Create(pc, r) /\ report' = r
    BY <1>3 DEF Fill
  <2>2. /\ queue' \in Seq(Keys) /\ Len(queue') <= Capacity
        /\ keyState' \in {"SEND_KEY", "CLEAR_KEY"}
    BY <2>1, CreateType
  <2>3. QED
    BY <1>3, <2>1, <2>2 DEF Fill, usbVars, hostVars
<1>4. CASE Compare
  BY <1>4 DEF Compare, usbVars, hostVars, Forced
<1>5. CASE Write
  <2>1. prev' \in {r.bytes : r \in Reports}
    BY <1>5, ReportFacts DEF Write
  <2>2. expect' \in Seq(Keys)
    BY <1>5, QueueFacts DEF Write, Settled
  <2>3. QED
    BY <1>5, <2>1, <2>2 DEF Write
<1>6. CASE NextFrame
  BY <1>6 DEF NextFrame, usbVars, hostVars
<1>7. CASE PollEndpoint
  <2>1. bank \in Reports /\ Receive(bank)
    BY <1>7 DEF PollEndpoint
  <2>2. QED
    BY <1>7, <2>1, ReceiveType DEF PollEndpoint, taskVars
<1>8. CASE Configure
  BY <1>8 DEF Configure, taskVars, hostVars
<1>9. CASE BusReset
  <2>1. Zeros \in {MouseReport(m).bytes : m \in Moves}
    BY HidAssumption DEF MouseReport, Amount, Zeros
  <2>2. expect' \in Seq(Keys)
    BY <1>9, QueueFacts DEF BusReset, Settled
  <2>3. QED
    BY <1>9, <2>1, <2>2 DEF BusReset, taskVars
<1>10. CASE GetReport
  <2>1. PICK r \in Reports : Create(keyState, r) /\ prev' = r.bytes /\ Receive(r)
    BY <1>10 DEF GetReport
  <2>2. /\ queue' \in Seq(Keys) /\ Len(queue') <= Capacity
        /\ keyState' \in {"SEND_KEY", "CLEAR_KEY"}
    BY <2>1, CreateType
  <2>3. /\ hostKey' \in Keys \union {ZeroKey}
        /\ hostMouse' \in {MouseReport(m).bytes : m \in Moves}
        /\ expect' \in Seq(Keys)
    BY <2>1, ReceiveType
  <2>4. QED
    BY <1>10, <2>1, <2>2, <2>3 DEF GetReport, usbVars
<1>11. CASE UNCHANGED vars
  BY <1>11 DEF vars, taskVars, usbVars, hostVars
<1>12. QED
  BY <1>1, <1>2, <1>3, <1>4, <1>5, <1>6, <1>7, <1>8, <1>9, <1>10, <1>11
     DEF Next, Task, Host

(* The first state is well typed: LUFA's previous report is all zeros. *)
LEMMA TypeInit == Init => TypeOK
<1>1. Zeros \in {MouseReport(m).bytes : m \in Moves}
  BY HidAssumption DEF MouseReport, Amount, Zeros
<1>2. Zeros \in {r.bytes : r \in Reports}
  BY ReportFacts
<1>3. Init => queue \in Seq(Keys) /\ Len(queue) <= Capacity /\ expect \in Seq(Keys)
  <2>1. Len(<< >>) = 0 /\ << >> \in Seq(Keys) /\ Capacity \in Nat
    BY HidAssumption
  <2>2. QED
    BY <2>1 DEF Init
<1>4. Init => mouse \in Moves
  BY HidAssumption DEF Init
<1>5. QED
  BY <1>1, <1>2, <1>3, <1>4 DEF Init, TypeOK

(* Every variable keeps its range, whenever the host uses GET_REPORT.      *)
THEOREM TypeCorrect == Spec => []TypeOK
BY TypeInit, TypeStep, PTL DEF Spec

-----------------------------------------------------------------------------
Building == pc \in {"compare", "write"}

(* Where the reports are: the report made in state SEND_KEY carries a      *)
(* press or the mouse and follows a zero report, the one made in CLEAR_KEY *)
(* is a zero report; and the endpoint's bank is filled only by the task    *)
(* that found it empty.                                                    *)
TaskInv ==
    /\ pc \in {"SEND_KEY", "CLEAR_KEY"} => keyState = pc
    /\ keyState = "SEND_KEY" /\ ~Building => prev = Zeros
    /\ Building => IF keyState = "SEND_KEY" THEN report = KeyReport(ZeroKey)
                                            ELSE report \in Reports /\ prev = Zeros
    /\ pc = "write" => changed = (Forced(report) \/ report.bytes # prev)
    /\ pc # "idle" => bank = Empty
    /\ bank # Empty => prev = bank.bytes
    /\ IsPress(bank) => keyState = "CLEAR_KEY"

(* The host sees a key down only while its release is to come: the next    *)
(* report is a zero report and differs from the one before.                *)
HostInv ==
    /\ ~configured => bank = Empty /\ hostKey = ZeroKey
    /\ hostKey # ZeroKey => \/ bank = KeyReport(ZeroKey)
                          \/ /\ bank = Empty
                             /\ prev = KeyReport(hostKey).bytes
                             /\ keyState = IF Building THEN "SEND_KEY" ELSE "CLEAR_KEY"

FlowInv == TypeOK /\ TaskInv /\ HostInv /\ PressesInOrder

(* A report that is a press carries one of the keys. *)
LEMMA PressFacts ==
  /\ \A r \in Reports : IsPress(r) => KeyOf(r) \in Keys /\ r = KeyReport(KeyOf(r))
  /\ \A k \in Keys : IsPress(KeyReport(k))
  /\ ~IsPress(KeyReport(ZeroKey)) /\ ~IsPress(Empty)
  /\ \A m \in Moves : ~IsPress(MouseReport(m))
  /\ Empty \notin Reports
BY ReportFacts DEF IsPress

(* What is on its way to the host is a sequence of keys. *)
LEMMA FlightType == TypeOK => InFlight \in Seq(Keys)
<1> SUFFICES ASSUME TypeOK PROVE InFlight \in Seq(Keys)
  OBVIOUS
<1>1. \A k \in Keys : <<k>> \in Seq(Keys)
  OBVIOUS
<1>2. << >> \in Seq(Keys)
  OBVIOUS
<1>3. QED
  BY <1>1, <1>2, PressFacts DEF InFlight, TypeOK

(* One step keeps the presses in order, if the host uses GET_REPORT only   *)
(* between reports.                                                        *)
LEMMA FlowStep ==
  ASSUME Control = "between"
  PROVE  FlowInv /\ [Next]_vars => FlowInv'
<1> SUFFICES ASSUME FlowInv, [Next]_vars
             PROVE  TaskInv' /\ HostInv' /\ PressesInOrder'
  BY TypeStep DEF FlowInv
<1>0. expect' = InFlight' \o queue' => PressesInOrder'
  BY DEF PressesInOrder
<1> USE DEF FlowInv, TaskInv, HostInv, PressesInOrder, InFlight, Building
<1>1. ASSUME NEW ks \in Bursts, NEW m \in Moves, Pressed(ks, m)
      PROVE  TaskInv' /\ HostInv' /\ PressesInOrder'
  <2>1. UNCHANGED <<taskVars, usbVars, hostKey, hostMouse>>
    BY <1>1 DEF Pressed
  <2>2. TaskInv' /\ HostInv'
    BY <2>1 DEF taskVars, usbVars
  <2>3. InFlight' = InFlight
    BY <2>1 DEF taskVars, usbVars
  <2>4. InFlight \in Seq(Keys) /\ queue \in Seq(Keys) /\ ks \in Seq(Keys)
    BY FlightType, BurstFacts DEF TypeOK
  <2> HIDE DEF InFlight
  <2>5. expect' = (InFlight \o queue) \o ks /\ queue' = queue \o ks
    BY <1>1 DEF Pressed
  <2>6. (InFlight \o queue) \o ks = InFlight \o (queue \o ks)
    BY <2>4, ConcatAssociative
  <2>7. expect' = InFlight' \o queue'
    BY <2>3, <2>5, <2>6
  <2>8. QED
    BY <1>0, <2>2, <2>7
<1>2. CASE StartTask
  <2>1. /\ pc = "idle" /\ bank = Empty /\ pc' = keyState /\ keyState \in {"SEND_KEY", "CLEAR_KEY"}
        /\ UNCHANGED <<queue, keyState, report, changed, prev, bank, configured, hostKey, expect>>
    BY <1>2 DEF StartTask, usbVars, hostVars, TypeOK
  <2>2. TaskInv' /\ HostInv'
    BY <2>1, PressFacts
  <2>3. InFlight' = InFlight
    BY <2>1
  <2>4. QED
    BY <2>1, <2>2, <2>3
<1>3. CASE Fill
  <2>1. PICK r \in Reports : Create(pc, r) /\ report' = r
    BY <1>3 DEF Fill
  <2>2. /\ pc \in {"SEND_KEY", "CLEAR_KEY"} /\ pc' = "compare"
        /\ UNCHANGED <<prev, bank, configured, hostKey, expect>>
    BY <1>3 DEF Fill, usbVars, hostVars
  <2>3. bank = Empty /\ keyState = pc /\ ~IsPress(bank)
    BY <2>2, PressFacts
  <2>4. expect = queue
    BY <2>2, <2>3, QueueFacts DEF TypeOK
  <2>5. CASE pc = "SEND_KEY" /\ queue # << >>
    <3>1. /\ r = KeyReport(Head(queue)) /\ queue' = Tail(queue) /\ keyState' = "CLEAR_KEY"
          /\ Head(queue) \in Keys
      BY <2>1, <2>5, QueueFacts DEF Create, TypeOK
    <3>2. IsPress(r) /\ KeyOf(r) = Head(queue)
      BY <3>1, PressFacts, ReportFacts
    <3>3. expect = <<KeyOf(r)>> \o queue'
      BY <2>4, <2>5, <3>1, <3>2, QueueFacts DEF TypeOK
    <3>4. TaskInv' /\ HostInv'
      BY <2>1, <2>2, <2>3, <2>5, <3>1, PressFacts
    <3>5. InFlight' = <<KeyOf(r)>>
      BY <2>1, <2>2, <3>2
    <3>6. expect' = InFlight' \o queue'
      <4> HIDE DEF InFlight
      <4>1. QED
        BY <2>2, <3>3, <3>5, Zenon
    <3>7. QED
      BY <1>0, <3>4, <3>6, Zenon
  <2>6. CASE pc = "SEND_KEY" /\ queue = << >>
    <3>1. r = MouseReport(mouse) /\ queue' = queue /\ keyState' = "CLEAR_KEY" /\ ~IsPress(r)
      BY <2>1, <2>6, PressFacts DEF Create, TypeOK
    <3>2. TaskInv' /\ HostInv'
      BY <2>1, <2>2, <2>3, <2>6, <3>1
    <3>3. InFlight' = << >>
      BY <2>1, <2>2, <2>3, <3>1
    <3>4. QED
      BY <2>2, <2>4, <3>1, <3>2, <3>3, QueueFacts DEF TypeOK
  <2>7. CASE pc = "CLEAR_KEY"
    <3>1. r = KeyReport(ZeroKey) /\ queue' = queue /\ keyState' = "SEND_KEY" /\ ~IsPress(r)
      BY <2>1, <2>7, PressFacts DEF Create
    <3>2. TaskInv' /\ HostInv'
      BY <2>1, <2>2, <2>3, <2>7, <3>1
    <3>3. InFlight' = << >>
      BY <2>1, <2>2, <2>3, <3>1
    <3>4. QED
      BY <2>2, <2>4, <3>1, <3>2, <3>3, QueueFacts DEF TypeOK
  <2>8. QED
    BY <2>2, <2>5, <2>6, <2>7
<1>4. CASE Compare
  BY <1>4, PressFacts DEF Compare, usbVars, hostVars
<1>5. CASE Write
  <2>1. /\ pc = "write" /\ pc' = "idle" /\ prev' = report.bytes
        /\ bank' = IF changed /\ configured THEN report ELSE bank
        /\ expect' = IF IsPress(report) /\ ~configured THEN Settled ELSE expect
        /\ UNCHANGED <<queue, keyState, configured, hostKey>>
    BY <1>5 DEF Write
  <2>2. bank = Empty /\ ~IsPress(bank)
    BY <2>1, PressFacts
  <2>3. keyState \in {"SEND_KEY", "CLEAR_KEY"} /\ report \in Reports
    BY <2>1, ReportFacts DEF TypeOK
  <2>4. keyState = "SEND_KEY" => report = KeyReport(ZeroKey) /\ report.bytes = Zeros
    BY <2>1, ReportFacts
  <2>5. TaskInv'
    BY <2>1, <2>2, <2>3, <2>4, PressFacts
  <2>6. HostInv'
    <3>1. hostKey # ZeroKey => changed /\ configured /\ report = KeyReport(ZeroKey)
      <4>1. hostKey # ZeroKey => configured /\ prev = KeyReport(hostKey).bytes /\ keyState = "SEND_KEY"
        BY <2>1, <2>2, ReportFacts
      <4>2. hostKey # ZeroKey => prev # Zeros
        BY <4>1, ReportFacts DEF TypeOK
      <4>3. QED
        BY <2>1, <2>4, <4>1, <4>2
    <3>2. QED
      BY <2>1, <2>2, <3>1
  <2>7. CASE IsPress(report)
    <3>1. KeyOf(report) \in Keys /\ changed
      BY <2>1, <2>3, <2>4, <2>7, PressFacts DEF IsPress
    <3>2. expect = <<KeyOf(report)>> \o queue
      BY <2>1, <2>7
    <3>3. CASE configured
      <4>1. InFlight' = <<KeyOf(report)>>
        BY <2>1, <2>7, <3>1, <3>3
      <4>2. expect' = expect /\ queue' = queue
        BY <2>1, <3>3
      <4>3. expect' = InFlight' \o queue'
        <5> HIDE DEF InFlight
        <5>1. QED
          BY <3>2, <4>1, <4>2, Zenon
      <4>4. QED
        BY <1>0, <2>5, <2>6, <4>3, Zenon
    <3>4. CASE ~configured
      <4>1. expect' = queue
        BY <2>1, <2>7, <3>1, <3>2, <3>4, QueueFacts DEF Settled, TypeOK
      <4>2. InFlight' = << >>
        BY <2>1, <2>2, <3>4
      <4>3. QED
        BY <2>1, <2>5, <2>6, <4>1, <4>2, QueueFacts DEF TypeOK
    <3>5. QED
      BY <2>5, <2>6, <3>3, <3>4
  <2>8. CASE ~IsPress(report)
    <3>1. InFlight = << >> /\ InFlight' = << >>
      BY <2>1, <2>2, <2>8
    <3>2. QED
      BY <2>1, <2>5, <2>6, <2>8, <3>1
  <2>9. QED
    BY <2>7, <2>8
<1>6. CASE NextFrame
  BY <1>6 DEF NextFrame, usbVars, hostVars
<1>7. CASE PollEndpoint
  <2>1. /\ bank \in Reports /\ bank # Empty /\ Receive(bank) /\ bank' = Empty /\ pc = "idle"
        /\ UNCHANGED <<queue, keyState, pc, report, changed, prev, configured>>
    BY <1>7 DEF PollEndpoint, taskVars, TypeOK
  <2>2. CASE IsPress(bank)
    <3>1. KeyOf(bank) \in Keys /\ bank = KeyReport(KeyOf(bank)) /\ hostKey = ZeroKey
      BY <2>1, <2>2, PressFacts
    <3>2. hostKey' = KeyOf(bank) /\ hostKey' # ZeroKey
      BY <2>1, <2>2, <3>1, ReportFacts DEF Receive, IsPress
    <3>3. expect = <<KeyOf(bank)>> \o queue /\ expect' = Settled
      BY <2>1, <2>2, <3>1, <3>2 DEF Receive
    <3>4. expect' = queue
      BY <3>1, <3>3, QueueFacts DEF Settled, TypeOK
    <3>5. TaskInv' /\ InFlight' = << >>
      BY <2>1, PressFacts
    <3>6. HostInv'
      BY <2>1, <2>2, <3>1, <3>2
    <3>7. QED
      BY <2>1, <3>4, <3>5, <3>6, QueueFacts DEF TypeOK
  <2>3. CASE ~IsPress(bank)
    <3>1. hostKey' = ZeroKey
      <4>1. CASE bank.id = "keyboard"
        <5>1. PICK k \in Keys \union {ZeroKey} : bank = KeyReport(k)
          BY <2>1, <4>1, ReportFacts
        <5>2. bank = KeyReport(ZeroKey)
          BY <2>3, <5>1, PressFacts
        <5>3. QED
          BY <2>1, <5>2, ReportFacts DEF Receive
      <4>2. CASE bank.id # "keyboard"
        BY <2>1, <4>2, ReportFacts DEF Receive
      <4>3. QED
        BY <4>1, <4>2
    <3>2. expect' = expect /\ InFlight = << >>
      BY <2>1, <2>3 DEF Receive
    <3>3. TaskInv' /\ HostInv' /\ InFlight' = << >>
      BY <2>1, <3>1, PressFacts
    <3>4. QED
      BY <2>1, <3>2, <3>3
  <2>4. QED
    BY <2>2, <2>3
<1>8. CASE Configure
  BY <1>8 DEF Configure, taskVars, hostVars
<1>9. CASE BusReset
  <2>1. /\ configured' = FALSE /\ bank' = Empty /\ hostKey' = ZeroKey
        /\ expect' = IF IsPress(bank) THEN Settled ELSE expect
        /\ UNCHANGED <<queue, keyState, pc, report, changed, prev>>
    BY <1>9 DEF BusReset, taskVars
  <2>2. TaskInv' /\ HostInv'
    BY <2>1, PressFacts
  <2>3. CASE IsPress(bank)
    <3>1. bank \in Reports /\ pc = "idle" /\ KeyOf(bank) \in Keys
      BY <2>3, PressFacts DEF TypeOK
    <3>2. expect = <<KeyOf(bank)>> \o queue /\ InFlight' = << >>
      BY <2>1, <2>3, <3>1, PressFacts
    <3>3. expect' = queue
      BY <2>1, <2>3, <3>1, <3>2, QueueFacts DEF Settled, TypeOK
    <3>4. QED
      BY <2>1, <2>2, <3>2, <3>3, QueueFacts DEF TypeOK
  <2>4. CASE ~IsPress(bank)
    <3>1. InFlight' = InFlight
      BY <2>1, <2>4, PressFacts
    <3>2. QED
      BY <2>1, <2>2, <2>4, <3>1
  <2>5. QED
    BY <2>3, <2>4
<1>10. CASE GetReport
  <2>1. PICK r \in Reports : Create(keyState, r) /\ prev' = r.bytes /\ Receive(r)
    BY <1>10 DEF GetReport
  <2>2. /\ pc = "idle" /\ bank = Empty /\ configured /\ InFlight = << >> /\ expect = queue
        /\ UNCHANGED <<pc, report, changed, bank, configured>>
    BY <1>10, PressFacts, QueueFacts DEF GetReport, MayControl, usbVars, TypeOK
  <2>3. InFlight' = << >>
    BY <2>2, PressFacts
  <2>4. keyState = "SEND_KEY" => hostKey = ZeroKey
    BY <2>2, ReportFacts
  <2>5. CASE keyState = "SEND_KEY" /\ queue # << >>
    <3>1. /\ r = KeyReport(Head(queue)) /\ queue' = Tail(queue) /\ keyState' = "CLEAR_KEY"
          /\ Head(queue) \in Keys
      BY <2>1, <2>5, QueueFacts DEF Create, TypeOK
    <3>2. hostKey' = Head(queue) /\ hostKey' # ZeroKey /\ IsPress(r)
      BY <2>1, <3>1, ReportFacts, PressFacts DEF Receive
    <3>3. expect' = queue'
      BY <2>1, <2>2, <2>4, <2>5, <3>1, <3>2 DEF Receive, Settled
    <3>4. TaskInv' /\ HostInv'
      BY <2>1, <2>2, <3>1, <3>2, PressFacts
    <3>5. << >> \o Tail(queue) = Tail(queue)
      BY <2>5, QueueFacts DEF TypeOK
    <3>6. expect' = InFlight' \o queue'
      <4> HIDE DEF InFlight
      <4>1. QED
        BY <2>3, <3>1, <3>3, <3>5, Zenon
    <3>7. QED
      BY <1>0, <3>4, <3>6, Zenon
  <2>6. CASE keyState = "SEND_KEY" /\ queue = << >>
    <3>1. r = MouseReport(mouse) /\ queue' = queue /\ keyState' = "CLEAR_KEY" /\ ~IsPress(r)
          /\ r.id = "mouse"
      BY <2>1, <2>6, PressFacts, ReportFacts DEF Create, TypeOK
    <3>2. hostKey' = ZeroKey /\ expect' = queue
      BY <2>1, <2>2, <2>4, <2>6, <3>1 DEF Receive
    <3>3. TaskInv' /\ HostInv'
      BY <2>1, <2>2, <3>1, <3>2, PressFacts
    <3>4. QED
      BY <2>3, <3>1, <3>2, <3>3, QueueFacts DEF TypeOK
  <2>7. CASE keyState = "CLEAR_KEY"
    <3>1. r = KeyReport(ZeroKey) /\ queue' = queue /\ keyState' = "SEND_KEY" /\ ~IsPress(r)
      BY <2>1, <2>7, PressFacts DEF Create
    <3>2. hostKey' = ZeroKey /\ expect' = queue
      BY <2>1, <2>2, <3>1, ReportFacts DEF Receive
    <3>3. TaskInv' /\ HostInv'
      BY <2>1, <2>2, <3>1, <3>2, PressFacts, ReportFacts
    <3>4. QED
      BY <2>3, <3>1, <3>2, <3>3, QueueFacts DEF TypeOK
  <2>8. QED
    BY <2>5, <2>6, <2>7 DEF TypeOK
<1>11. CASE UNCHANGED vars
  BY <1>11 DEF vars, taskVars, usbVars, hostVars
<1>12. QED
  BY <1>1, <1>2, <1>3, <1>4, <1>5, <1>6, <1>7, <1>8, <1>9, <1>10, <1>11
     DEF Next, Task, Host

(* At first nothing is on its way and nothing expected. *)
LEMMA FlowInit == Init => FlowInv
<1>1. Init => InFlight = << >>
  BY PressFacts DEF Init, InFlight
<1>2. << >> \o << >> = << >>
  BY QueueFacts
<1>3. Init => TaskInv /\ HostInv
  BY PressFacts DEF Init, TaskInv, HostInv, Building
<1>4. QED
  BY <1>1, <1>2, <1>3, TypeInit DEF FlowInv, PressesInOrder, Init

(* If the host uses GET_REPORT only between reports, it sees each press    *)
(* once, in the order the keypad made them, whatever bus resets and frames *)
(* come in between: at every moment what it has not seen is the press in   *)
(* flight and then the buffer (key_state, USBTask's comparison).           *)
THEOREM PressesStayInOrder ==
  ASSUME Control = "between"
  PROVE  Spec => []PressesInOrder
<1>1. FlowInv => PressesInOrder
  BY DEF FlowInv
<1>2. QED
  BY <1>1, FlowInit, FlowStep, PTL DEF Spec

(* A key the host sees down has its release in the endpoint's bank, or is  *)
(* the key of the last report, and the one being made, or the next to be   *)
(* made, has none.                                                         *)
ReleasePending ==
    \A k \in Keys :
        hostKey = k =>
            \/ bank = KeyReport(ZeroKey)
            \/ /\ prev = KeyReport(k).bytes
               /\ IF Building THEN report = KeyReport(ZeroKey) ELSE keyState = "CLEAR_KEY"

(* No key can stick: at every moment the release of the key the host sees  *)
(* down is either in the endpoint's bank, or the report being made or the  *)
(* next to be made, which differs from the last one and so is not dropped. *)
(* KeyReleased adds that it arrives (CLEAR_KEY, USBTask's comparison).     *)
THEOREM ReleaseIsPending ==
  ASSUME Control = "between"
  PROVE  Spec => []ReleasePending
<1>1. FlowInv => ReleasePending
  BY ReportFacts DEF FlowInv, TaskInv, HostInv, Building, ReleasePending
<1>2. QED
  BY <1>1, FlowInit, FlowStep, PTL DEF Spec
=============================================================================
