-------------------------- MODULE SerialLine_proofs --------------------------
(***************************************************************************)
(* Proofs about the serial line, for every size of the ring and of the     *)
(* endpoints, every length of commands, replies and reports, and every     *)
(* timeout.                                                                *)
(***************************************************************************)
EXTENDS SerialLine, SequenceTheorems, FiniteSetTheorems, TLAPS

(* The sizes and times are positive. *)
LEMMA Sizes ==
  /\ Size \in Nat /\ Size > 1 /\ EpSize \in Nat /\ EpSize > 0
  /\ CmdLen \in Nat /\ CmdLen > 0 /\ ComputePolls \in Nat /\ ComputePolls > 0
  /\ ReplyLen \in Nat /\ ReplyLen > 0 /\ ReportLen \in Nat /\ ReportLen > 0
  /\ Ahead \in Nat /\ Ahead > 0 /\ Latency \in Nat /\ Latency > 0
  /\ Timeout \in Nat /\ Timeout > 0 /\ Dog \in Nat /\ Dog > 0
BY SerialAssumption

(* The ring's indices stay within its slots. *)
LEMMA FollowingType ==
  ASSUME NEW i \in Slots
  PROVE  Following(i) \in Slots /\ Following(i) = IF i + 1 < Size THEN i + 1 ELSE 0
BY Sizes DEF Following, Slots

RingOK ==
    /\ head \in Slots /\ tail \in Slots /\ buf \in [Slots -> Bytes \union {NoByte}]
    /\ QueueSeq \in Seq(Bytes)

(* The ring is as long as its indices say, and full one byte before they   *)
(* would meet.                                                             *)
LEMMA RingLength ==
  ASSUME RingOK
  PROVE  /\ QueueLen \in 0..(Size - 1) /\ Len(QueueSeq) = QueueLen
         /\ RingFull <=> QueueLen = Size - 1
         /\ head = tail <=> QueueSeq = << >>
         /\ \A i \in 1..QueueLen : SlotOf(i) \in Slots /\ QueueSeq[i] = buf[SlotOf(i)]
                                   /\ QueueSeq[i] \in Bytes
<1>1. QueueLen \in 0..(Size - 1) /\ (QueueLen = 0 <=> head = tail)
  BY Sizes DEF RingOK, QueueLen, Slots
<1>2. \A i \in 1..QueueLen : SlotOf(i) \in Slots
  BY <1>1, Sizes DEF RingOK, QueueLen, Slots, SlotOf
<1>3. RingFull <=> QueueLen = Size - 1
  BY Sizes DEF RingOK, RingFull, QueueLen, Slots
<1>4. Len(QueueSeq) = QueueLen /\ DOMAIN QueueSeq = 1..QueueLen
  <2>1. DOMAIN QueueSeq = 1..QueueLen
    BY DEF QueueSeq
  <2>2. DOMAIN QueueSeq = 1..Len(QueueSeq) /\ Len(QueueSeq) \in Nat
    BY LenProperties DEF RingOK
  <2> DEFINE n == QueueLen
             m == Len(QueueSeq)
  <2>3. 1..n = 1..m /\ n \in Nat /\ m \in Nat
    BY <1>1, <2>1, <2>2
  <2> HIDE DEF n, m
  <2>4. n = m
    BY <2>3
  <2>5. QED
    BY <2>1, <2>4 DEF n, m
<1>5. QueueSeq = << >> <=> QueueLen = 0
  BY <1>1, <1>4, EmptySeq DEF RingOK
<1>6. \A i \in 1..QueueLen : QueueSeq[i] = buf[SlotOf(i)] /\ QueueSeq[i] \in Bytes
  <2>1. \A i \in 1..QueueLen : QueueSeq[i] = buf[SlotOf(i)]
    BY DEF QueueSeq
  <2>2. \A i \in 1..QueueLen : QueueSeq[i] \in Bytes
    BY <1>4, ElementOfSeq DEF RingOK
  <2>3. QED
    BY <2>1, <2>2
<1>7. QED
  BY <1>1, <1>2, <1>3, <1>4, <1>5, <1>6

(* push appends the byte it was given, unless the ring is full.            *)
LEMMA RingPush ==
  ASSUME RingOK, NEW c \in Bytes, ~RingFull,
         buf' = [buf EXCEPT ![head] = c], head' = Following(head), tail' = tail
  PROVE  RingOK' /\ QueueSeq' = Append(QueueSeq, c)
<1>1. /\ QueueLen \in 0..(Size - 2) /\ Len(QueueSeq) = QueueLen
      /\ \A i \in 1..QueueLen : SlotOf(i) \in Slots /\ QueueSeq[i] = buf[SlotOf(i)]
                                /\ QueueSeq[i] \in Bytes
  BY RingLength, Sizes
<1>2. head' \in Slots /\ tail' \in Slots /\ buf' \in [Slots -> Bytes \union {NoByte}]
  BY FollowingType DEF RingOK
<1>3. QueueLen' = QueueLen + 1
  <2>1. head' = IF head + 1 < Size THEN head + 1 ELSE 0
    BY FollowingType DEF RingOK
  <2>2. QED
    BY <1>1, <2>1, Sizes DEF RingOK, QueueLen, Slots
<1>4. SlotOf(QueueLen + 1) = head
  BY Sizes DEF RingOK, QueueLen, Slots, SlotOf
<1>5. \A i \in 1..QueueLen : SlotOf(i) # head
  BY Sizes DEF RingOK, QueueLen, Slots, SlotOf
<1>6. \A i : SlotOf(i)' = SlotOf(i)
  BY DEF SlotOf
<1>7. buf'[head] = c /\ \A i \in 1..QueueLen : buf'[SlotOf(i)] = buf[SlotOf(i)]
  BY <1>1, <1>5 DEF RingOK
<1>8. QueueSeq' = [i \in 1..(QueueLen + 1) |-> buf'[SlotOf(i)]]
  BY <1>3, <1>6 DEF QueueSeq
<1>9. \A i \in 1..(QueueLen + 1) :
        buf'[SlotOf(i)] = IF i <= QueueLen THEN QueueSeq[i] ELSE c
  <2> SUFFICES ASSUME NEW i \in 1..(QueueLen + 1)
               PROVE  buf'[SlotOf(i)] = IF i <= QueueLen THEN QueueSeq[i] ELSE c
    OBVIOUS
  <2>1. CASE i <= QueueLen
    BY <1>1, <1>7, <2>1
  <2>2. CASE i = QueueLen + 1
    BY <1>1, <1>4, <1>7, <2>2
  <2>3. QED
    BY <1>1, <2>1, <2>2
<1>10. QueueSeq' \in Seq(Bytes) /\ Len(QueueSeq') = QueueLen + 1
  <2>1. \A i \in 1..(QueueLen + 1) : buf'[SlotOf(i)] \in Bytes
    BY <1>1, <1>9
  <2>2. QED
    BY <1>1, <1>8, <2>1
<1>11. /\ Append(QueueSeq, c) \in Seq(Bytes) /\ Len(Append(QueueSeq, c)) = QueueLen + 1
       /\ \A i \in 1..(QueueLen + 1) :
            Append(QueueSeq, c)[i] = IF i <= QueueLen THEN QueueSeq[i] ELSE c
  BY <1>1, AppendProperties DEF RingOK
<1>12. \A i \in 1..(QueueLen + 1) : QueueSeq'[i] = Append(QueueSeq, c)[i]
  BY <1>8, <1>9, <1>11
<1>13. QueueSeq' = Append(QueueSeq, c)
  BY <1>10, <1>11, <1>12, SeqEqual
<1>14. QED
  BY <1>2, <1>10, <1>13 DEF RingOK

(* pop takes the oldest byte.                                              *)
LEMMA RingPop ==
  ASSUME RingOK, head # tail, tail' = Following(tail), UNCHANGED <<buf, head>>
  PROVE  /\ RingOK' /\ QueueSeq # << >>
         /\ Head(QueueSeq) = buf[tail] /\ QueueSeq' = Tail(QueueSeq)
<1>1. /\ QueueLen \in 0..(Size - 1) /\ Len(QueueSeq) = QueueLen /\ QueueSeq # << >>
      /\ \A i \in 1..QueueLen : SlotOf(i) \in Slots /\ QueueSeq[i] = buf[SlotOf(i)]
                                /\ QueueSeq[i] \in Bytes
  BY RingLength
<1>2. QueueLen > 0 /\ QueueLen \in Nat
  BY <1>1, Sizes DEF RingOK, QueueLen, Slots
<1>3. tail' \in Slots /\ tail' = IF tail + 1 < Size THEN tail + 1 ELSE 0
  BY FollowingType DEF RingOK
<1>4. QueueLen' = QueueLen - 1
  BY <1>3, Sizes DEF RingOK, QueueLen, Slots
<1>5. SlotOf(1) = tail
  BY Sizes DEF RingOK, Slots, SlotOf
<1>6. \A i \in 1..(QueueLen - 1) : SlotOf(i)' = SlotOf(i + 1)
  BY <1>3, Sizes DEF RingOK, QueueLen, Slots, SlotOf
<1>7. Head(QueueSeq) = buf[tail]
  BY <1>1, <1>2, <1>5
<1>8. QueueSeq' = [i \in 1..(QueueLen - 1) |-> buf[SlotOf(i + 1)]]
  BY <1>4, <1>6 DEF QueueSeq
<1>9. \A i \in 1..(QueueLen - 1) : buf[SlotOf(i + 1)] = QueueSeq[i + 1] /\ QueueSeq[i + 1] \in Bytes
  BY <1>1, <1>2
<1>10. QueueSeq' \in Seq(Bytes) /\ Len(QueueSeq') = QueueLen - 1
  BY <1>2, <1>8, <1>9
<1>11. /\ Tail(QueueSeq) \in Seq(Bytes) /\ Len(Tail(QueueSeq)) = QueueLen - 1
       /\ \A i \in 1..(QueueLen - 1) : Tail(QueueSeq)[i] = QueueSeq[i + 1]
  BY <1>1, HeadTailProperties DEF RingOK
<1>12. \A i \in 1..(QueueLen - 1) : QueueSeq'[i] = Tail(QueueSeq)[i]
  BY <1>8, <1>9, <1>11
<1>13. QueueSeq' = Tail(QueueSeq)
  BY <1>10, <1>11, <1>12, SeqEqual
<1>14. RingOK'
  BY <1>3, <1>10 DEF RingOK
<1>15. QED
  BY <1>1, <1>7, <1>13, <1>14

(* While buf, head and tail stand still so does the queue.                 *)
LEMMA RingStands ==
  ASSUME UNCHANGED <<buf, head, tail>>
  PROVE  QueueSeq' = QueueSeq /\ QueueLen' = QueueLen /\ (RingOK => RingOK')
<1>1. QueueSeq' = QueueSeq /\ QueueLen' = QueueLen
  BY DEF QueueSeq, QueueLen, SlotOf
<1>2. QED
  BY <1>1 DEF RingOK

-----------------------------------------------------------------------------
Printing == pc \in {"print", "print_wait"}

(* What the main loop knows at each point: the menu computes when it has a *)
(* whole command, something is left to print only while it prints, and a   *)
(* bank it waits for is full or has been taken.                            *)
LoopInv ==
    /\ Len(cmd) \in IF compute = 0 THEN 0..(CmdLen - 1) ELSE {CmdLen}
    /\ ~Printing => left = 0 /\ kind = "reply"
    /\ pc = "print_wait" => left > 0
    /\ pc \in Waits => line # "closed" /\ (armed \/ bank = << >>)

TypeInv == TypeOK /\ RingOK /\ LoopInv

(* The bank as bytes are put into it. *)
LEMMA BankAppend ==
  ASSUME TypeOK, Len(bank) < EpSize
  PROVE  LET b == Append(bank, IF kind = "reply" THEN kind ELSE "other")
         IN  b \in Seq({"reply", "other"}) /\ Len(b) <= EpSize
<1> DEFINE k == IF kind = "reply" THEN kind ELSE "other"
<1>1. k \in {"reply", "other"}
  OBVIOUS
<1>2. bank \in Seq({"reply", "other"}) /\ EpSize \in Nat
  BY Sizes DEF TypeOK
<1> HIDE DEF k
<1>3. Append(bank, k) \in Seq({"reply", "other"}) /\ Len(Append(bank, k)) = Len(bank) + 1
  BY <1>1, <1>2, AppendProperties
<1>4. Len(bank) \in Nat
  BY <1>2
<1>5. Append(bank, k) \in Seq({"reply", "other"}) /\ Len(Append(bank, k)) <= EpSize
  BY <1>2, <1>3, <1>4
<1>6. QED
  BY <1>5 DEF k

(* A command is a sequence of bytes. *)
LEMMA CommandType ==
  ASSUME NEW id \in Ids
  PROVE  /\ Command(id) \in Seq(Bytes) /\ Len(Command(id)) = CmdLen
         /\ \A i \in 1..CmdLen : Command(id)[i] = <<id, i>>
<1>1. \A i \in 1..CmdLen : <<id, i>> \in Bytes
  BY DEF Bytes
<1>2. QED
  BY <1>1, Sizes DEF Command

(* A packet is the beginning of what the host has to send. *)
LEMMA PacketType ==
  ASSUME pending \in Seq(Bytes), NEW n \in 1..EpSize, n <= Len(pending)
  PROVE  /\ SubSeq(pending, 1, n) \in Seq(Bytes) /\ Len(SubSeq(pending, 1, n)) = n
         /\ SubSeq(pending, n + 1, Len(pending)) \in Seq(Bytes)
         /\ SubSeq(pending, 1, n) \o SubSeq(pending, n + 1, Len(pending)) = pending
<1>1. Len(pending) \in Nat /\ n \in Nat /\ n > 0
  BY Sizes
<1>2. \A i \in 1..n : pending[i] \in Bytes
  BY <1>1, ElementOfSeq
<1>3. SubSeq(pending, 1, n) \in Seq(Bytes) /\ Len(SubSeq(pending, 1, n)) = n
  BY <1>1, <1>2, SubSeqProperties
<1>4. \A i \in n + 1..Len(pending) : pending[i] \in Bytes
  BY <1>1, ElementOfSeq
<1>5. SubSeq(pending, n + 1, Len(pending)) \in Seq(Bytes)
  BY <1>1, <1>4, SubSeqProperties
<1>6. SubSeq(pending, 1, n) \o SubSeq(pending, n + 1, Len(pending)) = SubSeq(pending, 1, Len(pending))
  BY <1>1, ConcatAdjacentSubSeq
<1>7. SubSeq(pending, 1, Len(pending)) = pending
  BY SubSeqFull
<1>8. QED
  BY <1>3, <1>5, <1>6, <1>7

(* How many bytes of replies the bank holds. *)
LEMMA ReplyCount ==
  /\ Replies(<< >>) = 0
  /\ \A b \in Seq({"reply", "other"}) :
        /\ Replies(b) \in Nat
        /\ Replies(Append(b, "reply")) = Replies(b) + 1
        /\ Replies(Append(b, "other")) = Replies(b)
<1> DEFINE At(b) == {i \in 1..Len(b) : b[i] = "reply"}
<1>1. \A b : Replies(b) = Cardinality(At(b))
  BY DEF Replies
<1>2. At(<< >>) = {}
  OBVIOUS
<1>3. ASSUME NEW b \in Seq({"reply", "other"})
      PROVE  /\ Replies(b) \in Nat
             /\ Replies(Append(b, "reply")) = Replies(b) + 1
             /\ Replies(Append(b, "other")) = Replies(b)
  <2>1. Len(b) \in Nat /\ IsFiniteSet(1..Len(b)) /\ At(b) \in SUBSET (1..Len(b))
    BY FS_Interval
  <2>2. IsFiniteSet(At(b))
    BY <2>1, FS_Subset
  <2>3. ASSUME NEW k \in {"reply", "other"}
        PROVE  At(Append(b, k)) = IF k = "reply" THEN At(b) \union {Len(b) + 1} ELSE At(b)
    <3>1. /\ Len(Append(b, k)) = Len(b) + 1 /\ Append(b, k)[Len(b) + 1] = k
          /\ \A i \in 1..Len(b) : Append(b, k)[i] = b[i]
      BY AppendProperties
    <3>2. 1..(Len(b) + 1) = (1..Len(b)) \union {Len(b) + 1}
      BY <2>1
    <3>3. QED
      BY <3>1, <3>2
  <2>4. Len(b) + 1 \notin At(b)
    BY <2>1
  <2>5. Cardinality(At(b) \union {Len(b) + 1}) = Cardinality(At(b)) + 1
    BY <2>2, <2>4, FS_AddElement
  <2>6. Cardinality(At(b)) \in Nat
    BY <2>2, FS_CardinalityType
  <2>7. At(Append(b, "reply")) = At(b) \union {Len(b) + 1} /\ At(Append(b, "other")) = At(b)
    BY <2>3
  <2> HIDE DEF At
  <2>8. QED
    BY <1>1, <2>5, <2>6, <2>7
<1>4. Replies(<< >>) = 0
  BY <1>1, <1>2, FS_EmptySet
<1>5. QED
  BY <1>3, <1>4

(* The remainder of a positive number. *)
LEMMA Remainder ==
  ASSUME NEW m \in Nat, NEW r \in Nat, r > 0
  PROVE  /\ m % r \in 0..(r - 1) /\ m % r <= m
         /\ m >= r => m % r <= m - r
<1>1. m % r \in 0..(r - 1) /\ m \div r \in Nat /\ m = r * (m \div r) + (m % r)
  OBVIOUS
<1> DEFINE q == m \div r
           s == m % r
<1>2. q \in Nat /\ s \in Nat /\ s < r /\ m = r * q + s
  BY <1>1
<1> HIDE DEF q, s
<1>3. q >= 1 => r * q >= r
  BY <1>2
<1>4. q = 0 => r * q = 0
  BY <1>2
<1>5. r * q \in Nat
  BY <1>2
<1>6. s <= m /\ (m >= r => s <= m - r)
  BY <1>2, <1>3, <1>4, <1>5
<1>7. QED
  BY <1>1, <1>6 DEF s

-----------------------------------------------------------------------------
(* The steps of the host keep the types. *)
LEMMA HostType == TypeInv /\ Host => TypeInv'
<1> SUFFICES ASSUME TypeInv, Host PROVE TypeInv'
  OBVIOUS
<1>0. UNCHANGED <<buf, head, tail>>
  BY DEF Host, OpenLine, Leave, Return, TakeBank, Ask, SendPacket, ringVars
<1> SUFFICES (TypeOK /\ LoopInv)'
  BY <1>0, RingStands DEF TypeInv
<1> USE DEF TypeInv, TypeOK, LoopInv, Printing, ringVars, menuVars, outVars, dogVars
<1>1. CASE OpenLine
  BY <1>1 DEF OpenLine
<1>2. CASE Leave
  BY <1>2 DEF Leave
<1>3. CASE Return
  BY <1>3 DEF Return
<1>4. CASE TakeBank
  <2>1. /\ UNCHANGED <<line, pending, outBank, buf, head, tail, popped, pushed, cmd, compute,
                       pc, left, kind, waited, dog, absent, todo, cut>>
        /\ bank' = << >> /\ armed' = FALSE
    BY <1>4 DEF TakeBank
  <2>2. seen' \in 0..(ReplyLen - 1)
    <3>1. seen \in Nat /\ Replies(bank) \in Nat
      BY Sizes, ReplyCount
    <3>2. seen + Replies(bank) \in Nat
      BY <3>1
    <3>3. seen' = (seen + Replies(bank)) % ReplyLen
      BY <1>4 DEF TakeBank
    <3>4. QED
      BY <3>2, <3>3, Sizes, Remainder
  <2>3. asked' \in Seq(Ids) /\ Len(asked') <= Ahead
    <3>1. asked' = asked \/ (asked # << >> /\ asked' = Tail(asked))
      BY <1>4 DEF TakeBank
    <3>2. CASE asked # << >> /\ asked' = Tail(asked)
      BY <3>2, HeadTailProperties, Sizes
    <3>3. QED
      BY <3>1, <3>2
  <2>4. << >> \in Seq({"reply", "other"}) /\ Len(<< >>) <= EpSize
    BY Sizes
  <2>5. TypeOK'
    BY <2>1, <2>2, <2>3, <2>4
  <2>6. LoopInv'
    BY <2>1
  <2>7. QED
    BY <2>5, <2>6
<1>5. ASSUME NEW id \in Ids, Ask(id) PROVE (TypeOK /\ LoopInv)'
  <2>1. /\ UNCHANGED <<line, seen, outBank, buf, head, tail, popped, pushed, cmd, compute,
                       pc, left, kind, bank, armed, waited, dog, absent, cut>>
        /\ asked' = Append(asked, id) /\ todo' = Append(todo, id) /\ Len(asked) < Ahead
        /\ pending' = pending \o Command(id)
    BY <1>5 DEF Ask
  <2>2. asked' \in Seq(Ids) /\ Len(asked') <= Ahead /\ todo' \in Seq(Ids)
    BY <2>1, AppendProperties, Sizes
  <2>3. pending' \in Seq(Bytes)
    BY <2>1, CommandType, ConcatProperties
  <2>4. TypeOK'
    BY <2>1, <2>2, <2>3
  <2>5. QED
    BY <2>1, <2>4
<1>6. ASSUME NEW n \in 1..EpSize, SendPacket(n) PROVE (TypeOK /\ LoopInv)'
  <2>1. /\ UNCHANGED <<line, asked, seen, buf, head, tail, popped, pushed, cmd, compute,
                       pc, left, kind, bank, armed, waited, dog, absent, todo, cut>>
        /\ outBank' = SubSeq(pending, 1, n) /\ n <= Len(pending)
        /\ pending' = SubSeq(pending, n + 1, Len(pending))
    BY <1>6 DEF SendPacket
  <2>2. outBank' \in Seq(Bytes) /\ Len(outBank') <= EpSize /\ pending' \in Seq(Bytes)
    BY <2>1, PacketType, Sizes
  <2>3. TypeOK'
    BY <2>1, <2>2
  <2>4. QED
    BY <2>1, <2>3
<1>7. QED
  BY <1>1, <1>2, <1>3, <1>4, <1>5, <1>6 DEF Host

(* The printing of bytes keeps the types. *)
LEMMA PrintType == TypeInv /\ (PrintByte \/ WaitEnds \/ PrintDone) => TypeInv'
<1> SUFFICES ASSUME TypeInv, PrintByte \/ WaitEnds \/ PrintDone PROVE TypeInv'
  OBVIOUS
<1>0. UNCHANGED <<buf, head, tail>>
  BY DEF PrintByte, WaitEnds, PrintDone, ringVars
<1> SUFFICES (TypeOK /\ LoopInv)'
  BY <1>0, RingStands DEF TypeInv
<1> DEFINE longer == Append(bank, IF kind = "reply" THEN kind ELSE "other")
<1>1. Len(bank) < EpSize => longer \in Seq({"reply", "other"}) /\ Len(longer) <= EpSize
  BY BankAppend DEF TypeInv
<1> HIDE DEF longer
<1>2. left \in Nat /\ left <= ReplyLen + ReportLen /\ Timeout \in Nat /\ EpSize \in Nat /\ EpSize > 0
  BY Sizes DEF TypeInv, TypeOK
<1>3. ReplyLen + ReportLen \in Nat /\ 0 \in 0..Timeout
  BY Sizes
<1>4. left > 0 => left - 1 \in 0..ReplyLen + ReportLen
  BY <1>2, <1>3
<1> USE DEF TypeInv, TypeOK, LoopInv, Printing
<1>5. CASE PrintByte
  <2>1. /\ UNCHANGED <<line, pending, asked, seen, outBank, buf, head, tail, popped, pushed, cmd,
                       compute, kind, dog, absent, todo, cut>>
        /\ pc = "print" /\ left > 0
    BY <1>5 DEF PrintByte, hostVars, ringVars, menuVars, dogVars
  <2>2. ASSUME UNCHANGED <<pc, armed, waited>>, left' = left - 1,
               bank' = bank \/ (bank' = longer /\ Len(bank) < EpSize)
        PROVE  (TypeOK /\ LoopInv)'
    <3>1. bank' \in Seq({"reply", "other"}) /\ Len(bank') <= EpSize
      BY <1>1, <2>2
    <3>2. TypeOK'
      BY <1>4, <2>1, <2>2, <3>1
    <3>3. LoopInv'
      BY <2>1, <2>2 DEF Waits
    <3>4. QED
      BY <3>2, <3>3
  <2>3. CASE /\ line # "closed" /\ armed' = TRUE /\ waited' = 0 /\ pc' = "print_wait"
             /\ UNCHANGED <<left, bank>>
    <3>1. TypeOK'
      BY <1>3, <2>1, <2>3 DEF Points, Waits
    <3>2. LoopInv'
      BY <2>1, <2>3
    <3>3. QED
      BY <3>1, <3>2
  <2>4. \/ line = "closed" /\ left' = left - 1 /\ UNCHANGED <<pc, bank, armed, waited>>
        \/ Room /\ left' = left - 1 /\ bank' = longer /\ UNCHANGED <<pc, armed, waited>>
        \/ /\ line # "closed" /\ armed' = TRUE /\ waited' = 0 /\ pc' = "print_wait"
           /\ UNCHANGED <<left, bank>>
    BY <1>5 DEF PrintByte, longer
  <2>5. CASE line = "closed" /\ left' = left - 1 /\ UNCHANGED <<pc, bank, armed, waited>>
    BY <2>2, <2>5
  <2>6. CASE Room /\ left' = left - 1 /\ bank' = longer /\ UNCHANGED <<pc, armed, waited>>
    BY <2>2, <2>6 DEF Room
  <2>7. QED
    BY <2>3, <2>4, <2>5, <2>6
<1>6. CASE WaitEnds
  <2>1. /\ UNCHANGED <<line, pending, asked, seen, outBank, buf, head, tail, popped, pushed, cmd,
                       compute, kind, dog, absent, todo>>
        /\ pc \in Waits /\ waited' = 0 /\ (armed \/ bank = << >>)
    BY <1>6 DEF WaitEnds, hostVars, ringVars, menuVars, dogVars
  <2>2. bank = << >> => Len(bank) < EpSize
    BY <1>2
  <2>3. CASE /\ pc = "print_wait" /\ pc' = "print" /\ left' = left - 1 /\ armed' = armed
             /\ bank' = IF armed THEN bank ELSE longer
             /\ cut' = (cut \/ (armed /\ kind = "reply"))
    <3>1. bank' \in Seq({"reply", "other"}) /\ Len(bank') <= EpSize
      BY <1>1, <2>1, <2>2, <2>3
    <3>2. left' \in 0..ReplyLen + ReportLen
      BY <1>4, <2>3
    <3>3. TypeOK'
      BY <1>3, <2>1, <2>3, <3>1, <3>2 DEF Points
    <3>4. LoopInv'
      BY <2>1, <2>3 DEF Waits
    <3>5. QED
      BY <3>3, <3>4
  <2>4. CASE /\ pc = "flush_wait" /\ pc' = "receive" /\ armed' = TRUE
             /\ UNCHANGED <<left, bank, cut>>
    <3>1. TypeOK'
      BY <1>3, <2>1, <2>4 DEF Points
    <3>2. LoopInv'
      BY <2>1, <2>4 DEF Waits
    <3>3. QED
      BY <3>1, <3>2
  <2>5. QED
    BY <1>6, <2>3, <2>4 DEF WaitEnds, longer
<1>7. CASE PrintDone
  <2>1. /\ UNCHANGED <<line, pending, asked, seen, outBank, buf, head, tail, popped, pushed, cmd,
                       compute, left, bank, armed, waited, dog, absent, todo, cut>>
        /\ left = 0 /\ pc' \in {"flush", "round"} /\ kind' = "reply"
    BY <1>7 DEF PrintDone, hostVars, ringVars, menuVars, dogVars
  <2>2. TypeOK'
    BY <2>1 DEF Points, Kinds
  <2>3. LoopInv'
    BY <2>1 DEF Waits
  <2>4. QED
    BY <2>2, <2>3
<1>8. QED
  BY <1>5, <1>6, <1>7

(* The rounds of the main loop keep the types. *)
LEMMA RoundType == TypeInv /\ (PadPoll \/ Flush \/ Receive \/ PollRead \/ PollCompute) => TypeInv'
<1> SUFFICES ASSUME TypeInv, PadPoll \/ Flush \/ Receive \/ PollRead \/ PollCompute PROVE TypeInv'
  OBVIOUS
<1>0. /\ 0 \in 0..Dog /\ 1 \in 0..ReplyLen + ReportLen
      /\ ReplyLen \in 0..ReplyLen + ReportLen /\ ReportLen \in 0..ReplyLen + ReportLen
      /\ 0 \in 0..ComputePolls /\ ComputePolls \in 0..ComputePolls
  BY Sizes
<1> USE DEF TypeInv, TypeOK, LoopInv, Printing
<1>1. CASE PadPoll
  <2>1. /\ UNCHANGED <<line, pending, asked, seen, outBank, buf, head, tail, popped, pushed, cmd,
                       compute, bank, armed, waited, dog, absent, todo, cut>>
        /\ pc = "round"
        /\ \/ pc' = "flush" /\ UNCHANGED <<left, kind>>
           \/ pc' = "print" /\ left' = ReportLen /\ kind' = "report"
    BY <1>1 DEF PadPoll, hostVars, ringVars, menuVars, dogVars
  <2>2. TypeOK'
    BY <1>0, <2>1 DEF Points, Kinds
  <2>3. LoopInv'
    BY <2>1 DEF Waits
  <2>4. QED
    BY <2>1, <2>2, <2>3, RingStands
<1>2. CASE Flush
  <2>1. /\ UNCHANGED <<line, pending, asked, seen, outBank, buf, head, tail, popped, pushed, cmd,
                       compute, left, kind, bank, waited, todo, cut>>
        /\ pc = "flush" /\ dog' = 0 /\ absent' = FALSE
        /\ armed' = (armed \/ (line # "closed" /\ Flushable))
        /\ pc' = IF line # "closed" /\ Flushable /\ Len(bank) = EpSize THEN "flush_wait" ELSE "receive"
    BY <1>2 DEF Flush, Kick, hostVars, ringVars, menuVars
  <2>2. armed' \in BOOLEAN
    BY <2>1
  <2>3. pc' \in Points
    BY <2>1 DEF Points, Waits
  <2>4. TypeOK'
    BY <1>0, <2>1, <2>2, <2>3
  <2>5. LoopInv'
    <3>1. pc' = "flush_wait" => line # "closed" /\ armed'
      BY <2>1
    <3>2. pc' \in {"flush_wait", "receive"} /\ left = 0 /\ kind = "reply"
      BY <2>1
    <3>3. QED
      BY <2>1, <3>1, <3>2 DEF Waits
  <2>6. QED
    BY <2>1, <2>4, <2>5, RingStands
<1>3. CASE Receive
  <2>1. /\ UNCHANGED <<line, pending, asked, seen, tail, popped, cmd, compute, left, kind, bank,
                       armed, waited, dog, absent, todo, cut>>
        /\ pc = "receive" /\ pc' = "poll"
    BY <1>3 DEF Receive, hostVars, menuVars, outVars, dogVars
  <2>2. outBank' \in Seq(Bytes) /\ Len(outBank') <= EpSize /\ RingOK' /\ pushed' \in {"nothing", "accepted", "refused"}
    <3>1. CASE UNCHANGED <<outBank, buf, head, pushed>>
      BY <2>1, <3>1, RingStands
    <3>2. CASE outBank # << >> /\ outBank' = Tail(outBank) /\ Push(Head(outBank))
      <4>1. /\ Head(outBank) \in Bytes /\ Tail(outBank) \in Seq(Bytes)
            /\ Len(Tail(outBank)) = Len(outBank) - 1 /\ Len(outBank) \in Nat
        BY <3>2, HeadTailProperties
      <4>2. Len(outBank') <= EpSize
        BY <3>2, <4>1, Sizes
      <4>3. CASE RingFull
        BY <2>1, <3>2, <4>1, <4>2, <4>3, RingStands DEF Push
      <4>4. CASE ~RingFull
        BY <2>1, <3>2, <4>1, <4>2, <4>4, RingPush DEF Push
      <4>5. QED
        BY <4>3, <4>4
    <3>3. QED
      BY <1>3, <3>1, <3>2 DEF Receive
  <2>3. TypeOK'
    BY <2>1, <2>2 DEF RingOK, Points
  <2>4. LoopInv'
    BY <2>1 DEF Waits
  <2>5. QED
    BY <2>2, <2>3, <2>4
<1>4. CASE PollRead
  <2>1. /\ UNCHANGED <<line, pending, asked, seen, outBank, buf, head, pushed, bank, armed, waited,
                       todo, cut>>
        /\ pc = "poll" /\ compute = 0 /\ dog' = 0 /\ absent' = FALSE
    BY <1>4 DEF PollRead, Kick, hostVars
  <2>2. CASE head = tail
    <3>1. popped' = NoByte /\ pc' = "round" /\ UNCHANGED <<tail, cmd, compute, left, kind>>
      BY <1>4, <2>2 DEF PollRead, menuVars
    <3>2. TypeOK'
      BY <1>0, <2>1, <3>1 DEF Points
    <3>3. LoopInv'
      BY <2>1, <3>1 DEF Waits
    <3>4. QED
      BY <2>1, <3>1, <3>2, <3>3, RingStands
  <2>3. CASE head # tail
    <3>1. /\ popped' = buf[tail] /\ tail' = Following(tail) /\ cmd' = Append(cmd, buf[tail])
          /\ compute' = IF Len(cmd') = CmdLen THEN ComputePolls ELSE 0
          /\ pc' = "print" /\ left' = 1 /\ kind' = "echo"
      BY <1>4, <2>3 DEF PollRead
    <3>2. RingOK' /\ buf[tail] \in Bytes
      <4>1. RingOK' /\ QueueSeq # << >> /\ Head(QueueSeq) = buf[tail]
        BY <2>1, <2>3, <3>1, RingPop
      <4>2. QueueSeq \in Seq(Bytes)
        BY DEF RingOK
      <4>3. Head(QueueSeq) \in Bytes
        BY <4>1, <4>2, HeadTailProperties
      <4>4. QED
        BY <4>1, <4>3
    <3>3. cmd' \in Seq(Bytes) /\ Len(cmd') = Len(cmd) + 1
      BY <3>1, <3>2, AppendProperties
    <3>4. Len(cmd) \in 0..(CmdLen - 1)
      BY <2>1
    <3>5. Len(cmd') <= CmdLen /\ Len(cmd') \in Nat
      BY <3>3, <3>4, Sizes
    <3>6. TypeOK'
      BY <1>0, <2>1, <3>1, <3>2, <3>3, <3>5 DEF RingOK, Points, Kinds
    <3>7. Len(cmd') \in IF compute' = 0 THEN 0..(CmdLen - 1) ELSE {CmdLen}
      <4>1. CASE Len(cmd') = CmdLen
        BY <3>1, <4>1, Sizes
      <4>2. CASE Len(cmd') # CmdLen
        <5>1. Len(cmd') \in 0..(CmdLen - 1)
          BY <3>5, <4>2, Sizes
        <5>2. QED
          BY <3>1, <4>2, <5>1
      <4>3. QED
        BY <4>1, <4>2
    <3>8. LoopInv'
      BY <3>1, <3>7 DEF Waits
    <3>9. QED
      BY <3>2, <3>6, <3>8
  <2>4. QED
    BY <2>2, <2>3
<1>5. CASE PollCompute
  <2>1. /\ UNCHANGED <<line, pending, asked, seen, outBank, buf, head, tail, popped, pushed, bank,
                       armed, waited, dog, absent, cut>>
        /\ pc = "poll" /\ compute > 0 /\ compute' = compute - 1
        /\ \/ compute > 1 /\ pc' = "round" /\ UNCHANGED <<cmd, left, kind, todo>>
           \/ /\ compute = 1 /\ cmd' = << >>
              /\ todo' = IF todo # << >> THEN Tail(todo) ELSE todo
              /\ pc' = "print" /\ left' = ReplyLen /\ kind' = "reply"
    BY <1>5 DEF PollCompute, hostVars, ringVars, dogVars
  <2>2. compute' \in 0..ComputePolls
    BY <2>1, Sizes
  <2>3. todo' \in Seq(Ids)
    BY <2>1, HeadTailProperties
  <2>4. cmd' \in Seq(Bytes) /\ Len(cmd') <= CmdLen
    <3>1. << >> \in Seq(Bytes) /\ Len(<< >>) = 0
      BY EmptySeq
    <3>2. cmd' = cmd \/ cmd' = << >>
      BY <2>1
    <3>3. CASE cmd' = cmd
      BY <3>3
    <3>4. CASE cmd' = << >>
      BY <3>1, <3>4, Sizes
    <3>5. QED
      BY <3>2, <3>3, <3>4
  <2>5. TypeOK'
    BY <1>0, <2>1, <2>2, <2>3, <2>4 DEF Points, Kinds
  <2>6. Len(cmd') \in IF compute' = 0 THEN 0..(CmdLen - 1) ELSE {CmdLen}
    <3>1. CASE compute > 1
      BY <2>1, <3>1, Sizes
    <3>2. CASE compute = 1
      <4>1. compute' = 0 /\ Len(cmd') = 0
        BY <2>1, <3>2, EmptySeq
      <4>2. QED
        BY <4>1, Sizes
    <3>3. QED
      BY <2>1, <3>1, <3>2
  <2>7. LoopInv'
    BY <2>1, <2>6 DEF Waits
  <2>8. QED
    BY <2>1, <2>5, <2>7, RingStands
<1>6. QED
  BY <1>1, <1>2, <1>3, <1>4, <1>5

(* The device starts with every variable in its range. *)
LEMMA TypeInit == Init => TypeInv
<1> SUFFICES ASSUME Init PROVE TypeInv
  OBVIOUS
<1>1. 0 \in Slots /\ NoByte \in Bytes \union {NoByte}
  BY Sizes DEF Slots
<1>2. buf \in [Slots -> Bytes \union {NoByte}]
  BY <1>1 DEF Init
<1>3. QueueLen = 0
  BY Sizes DEF Init, QueueLen
<1>4. QueueSeq = << >>
  BY <1>3 DEF QueueSeq
<1>5. RingOK
  BY <1>1, <1>2, <1>4, EmptySeq DEF Init, RingOK
<1>6. /\ << >> \in Seq(Bytes) /\ << >> \in Seq(Ids) /\ << >> \in Seq({"reply", "other"})
      /\ Len(<< >>) = 0
  BY EmptySeq
<1>7. 0 <= CmdLen /\ 0 <= EpSize /\ 0 <= Ahead /\ 0 \in 0..CmdLen - 1 /\ 0 \in 0..ReplyLen - 1
      /\ 0 \in 0..ReplyLen + ReportLen /\ 0 \in 0..ComputePolls /\ 0 \in 0..Timeout /\ 0 \in 0..Dog
  BY Sizes
<1>8. TypeOK
  BY <1>1, <1>2, <1>6, <1>7 DEF Init, TypeOK, Points, Kinds
<1>9. LoopInv
  BY <1>6, <1>7 DEF Init, LoopInv, Printing, Waits
<1>10. QED
  BY <1>5, <1>8, <1>9 DEF TypeInv

(* Every step keeps every variable in its range. *)
LEMMA TypeStep == TypeInv /\ [Next]_vars => TypeInv'
<1> SUFFICES ASSUME TypeInv, [Next]_vars PROVE TypeInv'
  OBVIOUS
<1>1. CASE Host
  BY <1>1, HostType
<1>2. CASE MainLoop
  BY <1>2, PrintType, RoundType DEF MainLoop
<1>3. CASE Frame
  <2>1. /\ UNCHANGED <<line, pending, asked, seen, outBank, buf, head, tail, popped, pushed, cmd,
                       compute, pc, left, kind, bank, armed, todo, cut>>
        /\ waited' = waited + 1 /\ dog' = dog + 1 /\ absent' = (absent \/ line = "gone")
        /\ dog < Dog /\ waited < Timeout
    BY <1>3 DEF Frame, hostVars, ringVars, menuVars
  <2>2. waited' \in 0..Timeout /\ dog' \in 0..Dog /\ absent' \in BOOLEAN
    BY <2>1, Sizes DEF TypeInv, TypeOK
  <2>3. TypeOK'
    BY <2>1, <2>2 DEF TypeInv, TypeOK
  <2>4. LoopInv'
    BY <2>1 DEF TypeInv, LoopInv, Printing
  <2>5. QED
    BY <2>1, <2>3, <2>4, RingStands DEF TypeInv
<1>4. CASE DogBite
  <2>1. Init'
    BY <1>4 DEF DogBite, Init
  <2>2. QED
    BY <2>1, TypeInit, PTL
<1>5. CASE UNCHANGED vars
  <2>1. UNCHANGED <<buf, head, tail>>
    BY <1>5 DEF vars, ringVars
  <2>2. QED
    BY <1>5, <2>1, RingStands DEF vars, hostVars, ringVars, menuVars, outVars, dogVars, TypeInv,
                                  TypeOK, LoopInv, Printing
<1>6. QED
  BY <1>1, <1>2, <1>3, <1>4, <1>5 DEF Next

(* The indices of the ring, the banks, the lines and the counters of the   *)
(* main loop stay in their ranges.                                         *)
THEOREM TypeCorrect == Spec => []TypeOK
<1>1. TypeInv => TypeOK
  BY DEF TypeInv
<1>2. QED
  BY <1>1, TypeInit, TypeStep, PTL DEF Spec

-----------------------------------------------------------------------------
(* Every step that does not restart the device is a step of the queue.     *)
LEMMA FifoStep == TypeInv /\ [Next]_vars => [Fifo!FifoNext \/ DogBite]_(Fifo!fifoVars)
<1> SUFFICES ASSUME TypeInv, [Next]_vars, ~DogBite
             PROVE  Fifo!FifoNext \/ UNCHANGED Fifo!fifoVars
  OBVIOUS
<1> USE DEF Fifo!fifoVars, Fifo!FifoNext
<1>0. RingOK /\ QueueSeq \in Seq(Bytes) /\ Size \in Nat
  BY Sizes DEF TypeInv, RingOK
<1>1. ASSUME UNCHANGED <<buf, head, tail, popped, pushed>> PROVE UNCHANGED Fifo!fifoVars
  BY <1>1, RingStands
<1>2. CASE Receive
  <2>1. UNCHANGED <<tail, popped>>
    BY <1>2 DEF Receive
  <2>2. CASE UNCHANGED <<outBank, buf, head, pushed>>
    BY <1>1, <2>1, <2>2
  <2>3. CASE outBank # << >> /\ Push(Head(outBank))
    <3>1. Head(outBank) \in Bytes
      BY <2>3, HeadTailProperties DEF TypeInv, TypeOK
    <3>2. CASE RingFull
      <4>1. pushed' = "refused" /\ UNCHANGED <<buf, head>>
        BY <2>3, <3>2 DEF Push
      <4>2. Len(QueueSeq) = Size - 1
        BY <1>0, <3>2, RingLength
      <4>3. QueueSeq' = QueueSeq
        BY <2>1, <4>1, RingStands
      <4>4. Fifo!Refuse
        BY <2>1, <4>1, <4>2, <4>3 DEF Fifo!Refuse
      <4>5. QED
        BY <4>4
    <3>3. CASE ~RingFull
      <4>1. /\ pushed' = "accepted" /\ head' = Following(head)
            /\ buf' = [buf EXCEPT ![head] = Head(outBank)]
        BY <2>3, <3>3 DEF Push
      <4>2. Len(QueueSeq) < Size - 1
        BY <1>0, <3>3, RingLength
      <4>3. QueueSeq' = Append(QueueSeq, Head(outBank))
        BY <1>0, <2>1, <3>1, <3>3, <4>1, RingPush
      <4>4. Fifo!Push(Head(outBank))
        BY <2>1, <4>1, <4>2, <4>3 DEF Fifo!Push
      <4>5. QED
        BY <3>1, <4>4
    <3>4. QED
      BY <3>2, <3>3
  <2>4. QED
    BY <1>2, <2>2, <2>3 DEF Receive
<1>3. CASE PollRead
  <2>1. UNCHANGED <<buf, head, pushed>>
    BY <1>3 DEF PollRead
  <2>2. CASE head = tail
    <3>1. popped' = NoByte /\ tail' = tail
      BY <1>3, <2>2 DEF PollRead
    <3>2. QueueSeq = << >>
      BY <1>0, <2>2, RingLength
    <3>3. QueueSeq' = QueueSeq
      BY <2>1, <3>1, RingStands
    <3>4. Fifo!PopEmpty
      BY <2>1, <3>1, <3>2, <3>3 DEF Fifo!PopEmpty
    <3>5. QED
      BY <3>4
  <2>3. CASE head # tail
    <3>1. popped' = buf[tail] /\ tail' = Following(tail)
      BY <1>3, <2>3 DEF PollRead
    <3>2. QueueSeq # << >> /\ Head(QueueSeq) = buf[tail] /\ QueueSeq' = Tail(QueueSeq)
      BY <1>0, <2>1, <2>3, <3>1, RingPop
    <3>3. Fifo!Pop
      BY <2>1, <3>1, <3>2 DEF Fifo!Pop
    <3>4. QED
      BY <3>3
  <2>4. QED
    BY <2>2, <2>3
<1>4. CASE Host
  <2>1. UNCHANGED <<buf, head, tail, popped, pushed>>
    BY <1>4 DEF Host, OpenLine, Leave, Return, TakeBank, Ask, SendPacket, ringVars
  <2>2. QED
    BY <1>1, <2>1
<1>5. CASE PadPoll \/ Flush \/ PollCompute \/ PrintByte \/ WaitEnds \/ PrintDone \/ Frame
  <2>1. UNCHANGED <<buf, head, tail, popped, pushed>>
    BY <1>5 DEF PadPoll, Flush, PollCompute, PrintByte, WaitEnds, PrintDone, Frame, ringVars
  <2>2. QED
    BY <1>1, <2>1
<1>6. CASE UNCHANGED vars
  <2>1. UNCHANGED <<buf, head, tail, popped, pushed>>
    BY <1>6 DEF vars, ringVars
  <2>2. QED
    BY <1>1, <2>1
<1>7. QED
  BY <1>2, <1>3, <1>4, <1>5, <1>6 DEF Next, MainLoop

(* push and pop over Size slots are a first-in first-out queue of Size - 1 *)
(* bytes, for every Size: between two starts of the device nothing the     *)
(* ring took is lost, repeated or reordered, and it refuses a byte only    *)
(* when it is full.                                                        *)
THEOREM RingImplementsFifo == Spec => RingIsFifo
<1>1. Init => Fifo!FifoInit
  <2> SUFFICES ASSUME Init PROVE QueueSeq = << >> /\ popped = NoByte /\ pushed = "nothing"
    BY DEF Fifo!FifoInit
  <2>1. RingOK /\ head = tail
    BY TypeInit DEF TypeInv, Init
  <2>2. QED
    BY <2>1, RingLength DEF Init
<1>2. QED
  BY <1>1, TypeInit, TypeStep, FifoStep, PTL DEF Spec, RingIsFifo

-----------------------------------------------------------------------------
(* The frames that W + 1 - w waits may take, and the bytes that w emptied  *)
(* banks hold.                                                             *)
Time(W, w) == Latency * (W + 1 - w)
Places(w) == w * EpSize

(* One wait fewer to come is one Latency more that may have passed and one
   bank less that may be filled; both products are set out here once. *)
LEMMA Budget ==
  ASSUME NEW W \in Nat, NEW w \in 0..W
  PROVE  /\ Time(W, w) \in Nat /\ Latency <= Time(W, w) /\ Time(W, w) <= Latency * (W + 1)
         /\ Time(W, w - 1) = Time(W, w) + Latency
         /\ w > 0 => Time(W, w) + Latency <= Latency * (W + 1)
         /\ Places(w) \in Nat /\ Places(w - 1) + EpSize = Places(w)
         /\ w = 0 => Places(w) = 0
<1> DEFINE v == W - w
           t == Latency * v
           r == Latency * w
<1>1. v \in Nat /\ Latency \in Nat /\ EpSize \in Nat /\ w \in Nat
  BY Sizes
<1>2. t \in Nat /\ r \in Nat /\ w * EpSize \in Nat
  BY <1>1
<1>3. Latency * (v + 1) = t + Latency /\ Latency * (v + 2) = t + Latency + Latency
  BY <1>1
<1>4. Latency * (W + 1) = t + r + Latency
  <2>1. \A a, b, c \in Nat : a * (b + c + 1) = a * b + a * c + a
    OBVIOUS
  <2>2. Latency * (v + w + 1) = t + r + Latency
    BY <1>1, <2>1
  <2>3. v + w + 1 = W + 1
    OBVIOUS
  <2> HIDE DEF t, r, v
  <2>4. QED
    BY <2>2, <2>3
<1>5. w > 0 => r >= Latency
  <2>1. \A a, b \in Nat : b > 0 => a * b >= a
    OBVIOUS
  <2>2. QED
    BY <1>1, <2>1
<1>6. (w - 1) * EpSize + EpSize = w * EpSize /\ (w = 0 => w * EpSize = 0)
  BY <1>1
<1>7. W + 1 - w = v + 1 /\ W + 1 - (w - 1) = v + 2
  OBVIOUS
<1>8. Time(W, w) = t + Latency /\ Time(W, w - 1) = t + Latency + Latency
  BY <1>3, <1>7 DEF Time
<1> HIDE DEF t, r, v
<1>9. QED
  BY <1>1, <1>2, <1>4, <1>5, <1>6, <1>8 DEF Places

(* The bytes that may be printed before the watchdog is kicked again: what *)
(* is left, the reply of the coming poll and the report of the coming      *)
(* PAD.poll.                                                               *)
ToPrint == left + (IF pc \in {"flush_wait", "receive", "poll"} THEN ReplyLen ELSE 0)
                + (IF pc = "flush" \/ kind = "report" THEN 0 ELSE ReportLen)

(* With w waits to come, of W at most, the earlier ones took no more time  *)
(* than theirs, and what is to be printed fits.                            *)
WaitsLeft(W, w) ==
    /\ dog <= Time(W, w) + waited
    /\ waited <= Latency
    /\ IF armed \/ pc \in Waits THEN ToPrint <= Places(w)
                                ELSE ToPrint + Len(bank) <= Places(w) + EpSize

DogInv(W) ==
    /\ pc \notin Waits => waited = 0
    /\ pc = "flush_wait" => dog <= waited
    /\ absent \/ \E w \in 0..W : WaitsLeft(W, w)

(* A kick leaves time for all the waits. *)
LEMMA FullBudget ==
  ASSUME TypeInv, NEW W \in Nat, ReplyLen + ReportLen <= W * EpSize,
         dog = 0, waited = 0, ToPrint <= ReplyLen + ReportLen
  PROVE  \E w \in 0..W : WaitsLeft(W, w)
<1>1. Len(bank) <= EpSize /\ Len(bank) \in Nat /\ ToPrint \in Nat
  BY Sizes DEF TypeInv, TypeOK, ToPrint
<1>2. W \in 0..W /\ Time(W, W) \in Nat /\ Places(W) \in Nat /\ Places(W) = W * EpSize
  BY Budget DEF Places
<1>3. ToPrint <= Places(W) /\ ToPrint + Len(bank) <= Places(W) + EpSize
  BY <1>1, <1>2, Sizes
<1>4. WaitsLeft(W, W)
  BY <1>2, <1>3, Sizes DEF WaitsLeft
<1>5. QED
  BY <1>2, <1>4

(* Steps between two kicks use up the waits one by one. *)
LEMMA WaitsStep ==
  ASSUME TypeInv, NEW W \in Nat, DogInv(W), ~absent, ~absent',
         NEW w \in 0..W, WaitsLeft(W, w), Latency < Timeout,
         Host \/ PadPoll \/ Receive \/ PollCompute \/ PrintByte \/ WaitEnds \/ PrintDone \/ Frame
  PROVE  \E v \in 0..W : WaitsLeft(W, v)'
<1> USE DEF WaitsLeft, ToPrint
<1>0. /\ Time(W, w) \in Nat /\ Latency <= Time(W, w) /\ Time(W, w - 1) = Time(W, w) + Latency
      /\ Places(w) \in Nat /\ Places(w - 1) + EpSize = Places(w) /\ (w = 0 => Places(w) = 0)
  BY Budget
<1>1. /\ left \in Nat /\ Len(bank) \in Nat /\ Len(bank) <= EpSize
      /\ dog \in Nat /\ waited \in Nat /\ armed \in BOOLEAN
      /\ Len(<< >>) = 0
  BY Sizes DEF TypeInv, TypeOK
<1>2. CASE OpenLine \/ Leave \/ Return \/ (\E id \in Ids : Ask(id)) \/ (\E n \in 1..EpSize : SendPacket(n))
  <2>1. UNCHANGED <<pc, left, kind, bank, armed, waited, dog>>
    BY <1>2 DEF OpenLine, Leave, Return, Ask, SendPacket, outVars, dogVars
  <2>2. WaitsLeft(W, w)'
    BY <2>1
  <2>3. QED
    BY <2>2
<1>3. CASE TakeBank
  <2>1. /\ UNCHANGED <<pc, left, kind, waited, dog>>
        /\ armed /\ bank' = << >> /\ armed' = FALSE
    BY <1>3 DEF TakeBank, dogVars
  <2>2. ToPrint <= Places(w) /\ ToPrint' = ToPrint /\ ToPrint \in Nat
    BY <1>1, <2>1, Sizes
  <2>3. ToPrint' + Len(bank') <= Places(w) + EpSize
    BY <1>0, <1>1, <2>1, <2>2, Sizes
  <2>4. WaitsLeft(W, w)'
    BY <2>1, <2>2, <2>3
  <2>5. QED
    BY <2>4
<1>4. CASE PrintByte
  <2>1. /\ UNCHANGED <<dog, kind>> /\ pc = "print" /\ left > 0 /\ waited = 0
        /\ \/ left' = left - 1 /\ UNCHANGED <<pc, bank, armed, waited>>
           \/ /\ ~armed /\ left' = left - 1 /\ Len(bank') = Len(bank) + 1
              /\ UNCHANGED <<pc, armed, waited>>
           \/ /\ ~Room /\ armed' = TRUE /\ waited' = 0 /\ pc' = "print_wait"
              /\ UNCHANGED <<left, bank>>
    <3>1. pc = "print" /\ UNCHANGED <<dog, kind>> /\ left > 0 /\ waited = 0
      BY <1>4 DEF PrintByte, dogVars, DogInv, Waits
    <3>2. \A k : Len(Append(bank, k)) = Len(bank) + 1
      BY DEF TypeInv, TypeOK
    <3>3. QED
      BY <1>4, <3>1, <3>2 DEF PrintByte, Room
  <2>2. CASE left' = left - 1 /\ UNCHANGED <<pc, bank, armed, waited>>
    <3>1. ToPrint' = ToPrint - 1 /\ ToPrint \in Nat
      BY <1>1, <2>1, <2>2, Sizes
    <3>2. WaitsLeft(W, w)'
      <4>1. dog' <= Time(W, w) + waited' /\ waited' <= Latency
        BY <2>1, <2>2
      <4>2. armed => ToPrint' <= Places(w)
        BY <1>0, <3>1
      <4>3. ~armed => ToPrint' + Len(bank) <= Places(w) + EpSize
        BY <1>0, <1>1, <2>1, <3>1, Sizes DEF Waits
      <4>4. QED
        BY <2>1, <2>2, <4>1, <4>2, <4>3 DEF Waits
    <3>3. QED
      BY <3>2
  <2>3. CASE /\ ~armed /\ left' = left - 1 /\ Len(bank') = Len(bank) + 1
             /\ UNCHANGED <<pc, armed, waited>>
    <3>1. ToPrint' = ToPrint - 1 /\ ToPrint \in Nat
      BY <1>1, <2>1, <2>3, Sizes
    <3>2. WaitsLeft(W, w)'
      <4>1. dog' <= Time(W, w) + waited' /\ waited' <= Latency
        BY <2>1, <2>3
      <4>2. ToPrint' + Len(bank') <= Places(w) + EpSize
        BY <1>0, <1>1, <2>1, <2>3, <3>1, Sizes DEF Waits
      <4>3. QED
        BY <2>1, <2>3, <4>1, <4>2 DEF Waits
    <3>3. QED
      BY <3>2
  <2>4. CASE /\ ~Room /\ armed' = TRUE /\ waited' = 0 /\ pc' = "print_wait"
             /\ UNCHANGED <<left, bank>>
    <3>1. ToPrint' = ToPrint /\ ToPrint \in Nat
      BY <1>1, <2>1, <2>4, Sizes
    <3>2. ToPrint <= Places(w)
      <4>1. CASE armed
        BY <4>1
      <4>2. CASE ~armed
        <5>1. ToPrint + Len(bank) <= Places(w) + EpSize /\ Len(bank) = EpSize
          BY <1>1, <2>1, <2>4, <4>2, Sizes DEF Room, Waits
        <5>2. QED
          BY <1>0, <3>1, <5>1, Sizes
      <4>3. QED
        BY <4>1, <4>2
    <3>3. WaitsLeft(W, w)'
      <4>1. dog' <= Time(W, w) + waited' /\ waited' <= Latency
        BY <2>1, <2>4
      <4>2. QED
        BY <2>4, <3>1, <3>2, <4>1
    <3>4. QED
      BY <3>3
  <2>5. QED
    BY <2>1, <2>2, <2>3, <2>4
<1>5. CASE WaitEnds
  <2>1. ~armed /\ bank = << >> /\ waited' = 0 /\ UNCHANGED <<dog, kind>>
    <3>1. (~armed \/ waited = Timeout) /\ pc \in Waits /\ waited' = 0 /\ UNCHANGED <<dog, kind>>
      BY <1>5 DEF WaitEnds, dogVars
    <3>2. waited # Timeout
      BY <1>1, Sizes
    <3>3. QED
      BY <3>1, <3>2 DEF TypeInv, LoopInv
  <2>2. CASE pc = "print_wait"
    <3>1. /\ pc' = "print" /\ left' = left - 1 /\ armed' = FALSE /\ Len(bank') = 1
      <4>1. pc' = "print" /\ left' = left - 1 /\ armed' = FALSE
            /\ bank' = Append(bank, IF kind = "reply" THEN kind ELSE "other")
        BY <1>5, <2>1, <2>2 DEF WaitEnds
      <4>2. \A k : Len(Append(<< >>, k)) = 1
        OBVIOUS
      <4>3. QED
        BY <2>1, <4>1, <4>2
    <3>2. left > 0
      BY <2>2 DEF TypeInv, LoopInv
    <3>3. ToPrint <= Places(w) /\ ToPrint' = ToPrint - 1 /\ ToPrint \in Nat /\ ToPrint > 0
      BY <1>1, <2>1, <2>2, <3>1, <3>2, Sizes DEF Waits
    <3>4. w - 1 \in 0..W
      BY <1>0, <3>3
    <3>5. dog' <= Time(W, w - 1) + waited' /\ waited' <= Latency
      BY <1>0, <1>1, <2>1, Sizes
    <3>6. ToPrint' + Len(bank') <= Places(w - 1) + EpSize
      BY <1>0, <3>1, <3>3
    <3>7. WaitsLeft(W, w - 1)'
      BY <3>1, <3>5, <3>6 DEF Waits
    <3>8. QED
      BY <3>4, <3>7
  <2>3. CASE pc = "flush_wait"
    <3>1. pc' = "receive" /\ armed' = TRUE /\ UNCHANGED left
      BY <1>5, <2>3 DEF WaitEnds
    <3>2. dog <= waited /\ waited <= Latency
      BY <2>3 DEF DogInv
    <3>3. dog' <= Time(W, w) + waited' /\ waited' <= Latency
      BY <1>0, <1>1, <2>1, <3>2, Sizes
    <3>4. ToPrint' = ToPrint /\ ToPrint <= Places(w)
      BY <2>1, <2>3, <3>1 DEF Waits
    <3>5. WaitsLeft(W, w)'
      BY <3>1, <3>3, <3>4
    <3>6. QED
      BY <3>5
  <2>4. QED
    BY <1>5, <2>2, <2>3 DEF WaitEnds, Waits
<1>6. CASE PrintDone
  <2>1. /\ UNCHANGED <<bank, armed, waited, dog, left>>
        /\ pc = "print" /\ left = 0 /\ kind' = "reply"
        /\ pc' = IF kind = "report" THEN "flush" ELSE "round"
    BY <1>6 DEF PrintDone, dogVars
  <2>2. ToPrint' = ToPrint
    BY <1>1, <2>1, Sizes
  <2>3. WaitsLeft(W, w)'
    BY <2>1, <2>2 DEF Waits
  <2>4. QED
    BY <2>3
<1>7. CASE PadPoll \/ PollCompute \/ Receive
  <2>1. UNCHANGED <<bank, armed, waited, dog>> /\ pc \notin Waits /\ pc' \notin Waits
    BY <1>7 DEF PadPoll, PollCompute, Receive, outVars, dogVars, Waits
  <2>2. ToPrint' <= ToPrint /\ ToPrint \in Nat /\ ToPrint' \in Nat
    <3>1. (left = 0 /\ kind = "reply") \/ pc \in {"print", "print_wait"}
      BY DEF TypeInv, LoopInv, Printing
    <3>2. CASE PadPoll
      BY <1>1, <3>1, <3>2, Sizes DEF PadPoll
    <3>3. CASE PollCompute
      BY <1>1, <3>1, <3>3, Sizes DEF PollCompute
    <3>4. CASE Receive
      BY <1>1, <3>1, <3>4, Sizes DEF Receive, outVars
    <3>5. QED
      BY <1>7, <3>2, <3>3, <3>4
  <2>3. WaitsLeft(W, w)'
    <3>1. dog' <= Time(W, w) + waited' /\ waited' <= Latency
      BY <2>1
    <3>2. CASE armed
      <4>1. ToPrint' <= Places(w)
        BY <1>0, <2>2, <3>2
      <4>2. QED
        BY <2>1, <3>1, <3>2, <4>1
    <3>3. CASE ~armed
      <4>1. ToPrint' + Len(bank) <= Places(w) + EpSize
        BY <1>0, <1>1, <2>1, <2>2, <3>3, Sizes
      <4>2. QED
        BY <2>1, <3>1, <3>3, <4>1
    <3>4. QED
      BY <3>2, <3>3
  <2>4. QED
    BY <2>3
<1>8. CASE Frame
  <2>1. /\ UNCHANGED <<bank, armed, left, kind, pc>> /\ waited' = waited + 1 /\ dog' = dog + 1
        /\ pc \in Waits /\ (line = "open" => waited < Latency) /\ line # "gone"
    BY <1>8 DEF Frame
  <2>2. line = "open"
    BY <2>1 DEF TypeInv, LoopInv, TypeOK
  <2>3. ToPrint' = ToPrint
    BY <2>1
  <2>4. dog' <= Time(W, w) + waited' /\ waited' <= Latency
    BY <1>0, <1>1, <2>1, <2>2, Sizes
  <2>5. WaitsLeft(W, w)'
    BY <2>1, <2>3, <2>4
  <2>6. QED
    BY <2>5
<1>9. QED
  BY <1>2, <1>3, <1>4, <1>5, <1>6, <1>7, <1>8 DEF Host

(* Every step keeps the accounts. *)
LEMMA DogStep ==
  ASSUME NEW W \in Nat, ReplyLen + ReportLen <= W * EpSize, Latency < Timeout
  PROVE  TypeInv /\ DogInv(W) /\ [Next]_vars => DogInv(W)'
<1> SUFFICES ASSUME TypeInv, DogInv(W), [Next]_vars PROVE DogInv(W)'
  OBVIOUS
<1> DEFINE Full == \E w \in 0..W : WaitsLeft(W, w)
<1>0. /\ Len(bank) \in Nat /\ Len(bank) <= EpSize /\ dog \in Nat /\ waited \in Nat
      /\ W \in 0..W /\ Time(W, W) \in Nat /\ Places(W) = W * EpSize
      /\ Places(W) \in Nat /\ Latency \in Nat /\ 0 <= Latency
  BY Sizes, Budget DEF TypeInv, TypeOK, Places
<1>1. (pc \notin Waits => waited = 0)'
  <2>1. UNCHANGED <<waited, pc>> \/ (pc \in Waits /\ pc' \in Waits) \/ waited' = 0
    <3>1. CASE Host
      BY <3>1 DEF Host, OpenLine, Leave, Return, TakeBank, Ask, SendPacket, outVars
    <3>2. CASE Frame
      BY <3>2 DEF Frame
    <3>3. CASE WaitEnds \/ DogBite
      BY <3>3 DEF WaitEnds, DogBite
    <3>4. CASE PadPoll \/ Flush \/ Receive \/ PollRead \/ PollCompute \/ PrintByte \/ PrintDone
      <4>1. pc \notin Waits /\ (waited' = waited \/ waited' = 0)
        BY <3>4 DEF PadPoll, Flush, Receive, PollRead, PollCompute, PrintByte, PrintDone, outVars, Waits
      <4>2. QED
        BY <4>1 DEF DogInv
    <3>5. CASE UNCHANGED vars
      BY <3>5 DEF vars, outVars
    <3>6. QED
      BY <3>1, <3>2, <3>3, <3>4, <3>5 DEF Next, MainLoop
  <2>2. QED
    BY <2>1 DEF DogInv
<1>2. (pc = "flush_wait" => dog <= waited)'
  <2>1. CASE Host \/ UNCHANGED vars
    <3>1. UNCHANGED <<pc, dog, waited>>
      BY <2>1 DEF Host, OpenLine, Leave, Return, TakeBank, Ask, SendPacket, outVars, dogVars, vars
    <3>2. QED
      BY <3>1 DEF DogInv
  <2>2. CASE Frame
    <3>1. pc' = pc /\ dog' = dog + 1 /\ waited' = waited + 1
      BY <2>2 DEF Frame
    <3>2. QED
      BY <1>0, <3>1 DEF DogInv
  <2>3. CASE Flush
    <3>1. dog' = 0 /\ waited' = 0
      BY <2>3 DEF Flush, Kick, DogInv, Waits
    <3>2. QED
      BY <3>1
  <2>4. CASE PadPoll \/ Receive \/ PollRead \/ PollCompute \/ PrintByte \/ WaitEnds \/ PrintDone \/ DogBite
    <3>1. pc' # "flush_wait"
      BY <2>4 DEF PadPoll, Receive, PollRead, PollCompute, PrintByte, WaitEnds, PrintDone, DogBite
    <3>2. QED
      BY <3>1
  <2>5. QED
    BY <2>1, <2>2, <2>3, <2>4 DEF Next, MainLoop
<1>3. (absent \/ Full)'
  <2> SUFFICES ASSUME ~absent' PROVE \E v \in 0..W : WaitsLeft(W, v)'
    OBVIOUS
  <2>0. /\ left \in Nat /\ (~Printing => left = 0 /\ kind = "reply")
    BY Sizes DEF TypeInv, TypeOK, LoopInv
  <2>1. CASE Flush \/ PollRead
    <3>1. dog' = 0 /\ waited' = 0 /\ bank' = bank /\ kind = "reply" /\ left = 0
      BY <2>0, <2>1 DEF Flush, PollRead, Kick, DogInv, Waits, Printing
    <3>2. /\ pc' \in Waits => pc' = "flush_wait" /\ Flush
          /\ ToPrint' \in Nat /\ ToPrint' <= ReplyLen + ReportLen
      <4>1. CASE Flush
        <5>1. pc' \in {"flush_wait", "receive"} /\ left' = 0 /\ kind' = "reply"
          BY <2>0, <3>1, <4>1 DEF Flush
        <5>2. QED
          BY <4>1, <5>1, Sizes DEF ToPrint, Waits
      <4>2. CASE PollRead
        <5>1. \/ pc' = "round" /\ left' = 0 /\ kind' = "reply"
              \/ pc' = "print" /\ left' = 1 /\ kind' = "echo"
          BY <3>1, <4>2 DEF PollRead
        <5>2. QED
          BY <5>1, Sizes DEF ToPrint, Waits
      <4>3. QED
        BY <2>1, <4>1, <4>2
    <3>3. ToPrint' <= Places(W) /\ ToPrint' + Len(bank') <= Places(W) + EpSize
      BY <1>0, <3>1, <3>2, Sizes
    <3>4. dog' <= Time(W, W) + waited' /\ waited' <= Latency
      BY <1>0, <3>1
    <3>5. WaitsLeft(W, W)'
      BY <3>3, <3>4 DEF WaitsLeft
    <3>6. QED
      BY <1>0, <3>5
  <2>2. CASE DogBite
    <3>1. dog' = 0 /\ waited' = 0 /\ bank' = << >> /\ kind' = "reply" /\ left' = 0 /\ pc' = "round"
      BY <2>2 DEF DogBite
    <3>2. ToPrint' = ReportLen
      BY <3>1, Sizes DEF ToPrint
    <3>3. ToPrint' <= Places(W) /\ ToPrint' + Len(bank') <= Places(W) + EpSize
      BY <1>0, <3>1, <3>2, Sizes
    <3>4. WaitsLeft(W, W)'
      BY <1>0, <3>1, <3>3 DEF WaitsLeft
    <3>5. QED
      BY <1>0, <3>4
  <2>3. CASE UNCHANGED vars
    <3>1. UNCHANGED <<pc, left, kind, bank, armed, waited, dog, absent>>
      BY <2>3 DEF vars, outVars, dogVars
    <3>2. PICK w \in 0..W : WaitsLeft(W, w)
      BY <3>1 DEF DogInv
    <3>3. WaitsLeft(W, w)'
      BY <3>1, <3>2 DEF WaitsLeft, ToPrint
    <3>4. QED
      BY <3>3
  <2>4. CASE Host \/ PadPoll \/ Receive \/ PollCompute \/ PrintByte \/ WaitEnds \/ PrintDone \/ Frame
    <3>1. ~absent
      <4>1. CASE Host
        BY <4>1 DEF Host, OpenLine, Leave, Return, TakeBank, Ask, SendPacket, dogVars
      <4>2. CASE Frame
        BY <4>2 DEF Frame
      <4>3. CASE PadPoll \/ Receive \/ PollCompute \/ PrintByte \/ WaitEnds \/ PrintDone
        BY <4>3 DEF PadPoll, Receive, PollCompute, PrintByte, WaitEnds, PrintDone, dogVars
      <4>4. QED
        BY <2>4, <4>1, <4>2, <4>3
    <3>2. PICK w \in 0..W : WaitsLeft(W, w)
      BY <3>1 DEF DogInv
    <3>3. QED
      BY <2>4, <3>1, <3>2, WaitsStep
  <2>5. QED
    BY <2>1, <2>2, <2>3, <2>4 DEF Next, MainLoop
<1>4. QED
  BY <1>1, <1>2, <1>3 DEF DogInv

(* Output that the host takes never makes the watchdog bite: when what a   *)
(* round of the main loop can print between two kicks, a reply and a       *)
(* report, fills at most W banks, and W + 1 waits for a host that listens  *)
(* take less than the watchdog's time, it bites only after the host was    *)
(* gone.                                                                   *)
THEOREM ListeningHostKeepsDogQuiet ==
  ASSUME NEW W \in Nat, ReplyLen + ReportLen <= W * EpSize,
         Latency < Timeout, Latency * (W + 1) < Dog
  PROVE  Spec => []DogNeedsAbsentHost
<1>1. Init => DogInv(W)
  <2> SUFFICES ASSUME Init PROVE DogInv(W)
    OBVIOUS
  <2>1. TypeInv /\ dog = 0 /\ waited = 0
    BY TypeInit DEF Init
  <2>2. ToPrint <= ReplyLen + ReportLen
    BY Sizes DEF Init, ToPrint
  <2>3. QED
    BY <2>1, <2>2, FullBudget DEF DogInv
<1>2. TypeInv /\ DogInv(W) => DogNeedsAbsentHost
  <2> SUFFICES ASSUME TypeInv, DogInv(W), ~absent PROVE dog # Dog
    BY DEF DogNeedsAbsentHost
  <2>1. PICK w \in 0..W : WaitsLeft(W, w)
    BY DEF DogInv
  <2>2. /\ Time(W, w) \in Nat /\ Latency <= Time(W, w) /\ Time(W, w) <= Latency * (W + 1)
        /\ w > 0 => Time(W, w) + Latency <= Latency * (W + 1)
        /\ Places(w) \in Nat /\ (w = 0 => Places(w) = 0)
    BY Budget
  <2>3. dog \in Nat /\ waited \in Nat /\ dog <= Time(W, w) + waited /\ waited <= Latency
    BY <2>1, Sizes DEF TypeInv, TypeOK, WaitsLeft
  <2> DEFINE limit == Latency * (W + 1)
  <2>4. limit \in Nat
    BY Sizes
  <2> HIDE DEF limit
  <2>5. CASE pc \notin Waits
    <3>1. waited = 0
      BY <2>5 DEF DogInv
    <3>2. dog <= limit
      BY <2>2, <2>3, <2>4, <3>1 DEF limit
    <3>3. QED
      BY <2>3, <2>4, <3>2, Sizes DEF limit
  <2>6. CASE pc = "flush_wait"
    <3>1. dog <= Latency
      BY <2>3, <2>6, Sizes DEF DogInv
    <3>2. Latency <= limit
      BY <2>2, <2>4, Sizes DEF limit
    <3>3. QED
      BY <2>3, <2>4, <3>1, <3>2, Sizes DEF limit
  <2>7. CASE pc = "print_wait"
    <3>1. ToPrint <= Places(w) /\ left > 0 /\ left \in Nat
      BY <2>1, <2>7, Sizes DEF WaitsLeft, TypeInv, LoopInv, TypeOK, Waits
    <3>2. w > 0
      BY <2>2, <3>1, Sizes DEF ToPrint
    <3>3. dog <= limit
      BY <2>2, <2>3, <2>4, <3>2, Sizes DEF limit
    <3>4. QED
      BY <2>3, <2>4, <3>3, Sizes DEF limit
  <2>8. QED
    BY <2>5, <2>6, <2>7 DEF Waits
<1>3. QED
  BY <1>1, <1>2, TypeInit, TypeStep, DogStep, PTL DEF Spec

-----------------------------------------------------------------------------
(* A byte moved from the front of one sequence to the end of the one       *)
(* before it.                                                              *)
LEMMA MoveHead ==
  ASSUME NEW S, NEW s \in Seq(S), NEW t \in Seq(S), NEW u \in Seq(S), t # << >>
  PROVE  Append(s, Head(t)) \o (Tail(t) \o u) = s \o (t \o u)
<1>1. /\ Head(t) \in S /\ Tail(t) \in Seq(S) /\ Len(Tail(t)) = Len(t) - 1
      /\ \A i \in 1..Len(Tail(t)) : Tail(t)[i] = t[i + 1]
      /\ Len(t) \in Nat /\ Len(s) \in Nat /\ Len(u) \in Nat /\ Len(t) > 0 /\ Head(t) = t[1]
  BY HeadTailProperties, EmptySeq
<1> DEFINE a == Append(s, Head(t))
           r == Tail(t) \o u
           w == t \o u
           ls == Len(s)
           lt == Len(t)
           lu == Len(u)
<1>2. /\ a \in Seq(S) /\ Len(a) = ls + 1 /\ a[ls + 1] = t[1]
      /\ \A i \in 1..ls : a[i] = s[i]
  BY <1>1, AppendProperties
<1>3. /\ r \in Seq(S) /\ Len(r) = lt - 1 + lu
      /\ \A i \in 1..(lt - 1 + lu) : r[i] = IF i <= lt - 1 THEN Tail(t)[i] ELSE u[i - (lt - 1)]
  BY <1>1, ConcatProperties
<1>4. /\ w \in Seq(S) /\ Len(w) = lt + lu
      /\ \A i \in 1..(lt + lu) : w[i] = IF i <= lt THEN t[i] ELSE u[i - lt]
  BY <1>1, ConcatProperties
<1>5. w[1] = t[1] /\ \A i \in 1..(lt - 1 + lu) : w[i + 1] = r[i]
  BY <1>1, <1>3, <1>4
<1> HIDE DEF a, r, w
<1>6. /\ a \o r \in Seq(S) /\ Len(a \o r) = Len(a) + Len(r)
      /\ \A i \in 1..(Len(a) + Len(r)) : (a \o r)[i] = IF i <= Len(a) THEN a[i] ELSE r[i - Len(a)]
  BY <1>2, <1>3, ConcatProperties
<1>7. /\ s \o w \in Seq(S) /\ Len(s \o w) = Len(s) + Len(w)
      /\ \A i \in 1..(Len(s) + Len(w)) : (s \o w)[i] = IF i <= Len(s) THEN s[i] ELSE w[i - Len(s)]
  <2>1. w \in Seq(S)
    BY <1>4
  <2>2. QED
    BY <2>1, ConcatProperties
<1>8. ls \in Nat /\ lt \in Nat /\ lu \in Nat /\ lt > 0 /\ Len(s) = ls
  BY <1>1
<1> HIDE DEF ls, lt, lu
<1>9. Len(a \o r) = ls + lt + lu /\ Len(s \o w) = ls + lt + lu
  BY <1>2, <1>3, <1>4, <1>6, <1>7, <1>8
<1>10. ASSUME NEW i \in 1..(ls + lt + lu)
       PROVE  (a \o r)[i] = (s \o w)[i]
  <2>1. CASE i <= ls
    BY <1>2, <1>3, <1>4, <1>6, <1>7, <1>8, <2>1
  <2>2. CASE i = ls + 1
    BY <1>2, <1>3, <1>4, <1>5, <1>6, <1>7, <1>8, <2>2
  <2>3. CASE i > ls + 1
    <3>1. i - (ls + 1) \in 1..(lt - 1 + lu) /\ i - ls = (i - (ls + 1)) + 1
      BY <1>8, <2>3
    <3>2. (a \o r)[i] = r[i - (ls + 1)]
      <4>1. i \in 1..(Len(a) + Len(r)) /\ ~(i <= Len(a)) /\ Len(a) = ls + 1
        BY <1>2, <1>3, <1>8, <2>3
      <4>2. (a \o r)[i] = r[i - Len(a)]
        BY <1>6, <4>1
      <4>3. QED
        BY <4>1, <4>2
    <3>3. (s \o w)[i] = w[i - ls]
      <4>1. i \in 1..(Len(s) + Len(w)) /\ ~(i <= Len(s)) /\ Len(s) = ls
        BY <1>4, <1>8, <2>3
      <4>2. (s \o w)[i] = w[i - Len(s)]
        BY <1>7, <4>1
      <4>3. QED
        BY <4>1, <4>2
    <3>4. w[(i - (ls + 1)) + 1] = r[i - (ls + 1)]
      BY <1>5, <3>1
    <3>5. QED
      BY <3>1, <3>2, <3>4, <3>3
  <2>4. i <= ls \/ i = ls + 1 \/ i > ls + 1
    BY <1>8
  <2>5. QED
    BY <2>1, <2>2, <2>3, <2>4
<1>11. a \o r = s \o w
  BY <1>6, <1>7, <1>9, <1>10, SeqEqual
<1>12. QED
  BY <1>11 DEF a, r, w

(* The commands t written one after the other. *)
Begin(n) == CmdLen * (n - 1)
AreCommands(s, t) ==
    /\ Len(s) = Begin(Len(t) + 1)
    /\ \A n \in 1..Len(t), i \in 1..CmdLen : s[Begin(n) + i] = <<t[n], i>>

(* A command begins where the one before it ends. *)
LEMMA Begins ==
  /\ Begin(1) = 0
  /\ \A n \in Nat : Begin(n + 1) \in Nat /\ Begin(n + 2) = Begin(n + 1) + CmdLen
  /\ \A m, n \in Nat : m <= n => Begin(m + 1) <= Begin(n + 1)
<1>1. Begin(1) = 0
  BY Sizes DEF Begin
<1>2. ASSUME NEW n \in Nat
      PROVE  Begin(n + 1) \in Nat /\ Begin(n + 2) = Begin(n + 1) + CmdLen
  <2>1. \A a, b \in Nat : a * b \in Nat /\ a * (b + 1) = a * b + a
    OBVIOUS
  <2>2. Begin(n + 1) = CmdLen * n /\ Begin(n + 2) = CmdLen * (n + 1)
    BY Sizes DEF Begin
  <2>3. QED
    BY <2>1, <2>2, Sizes
<1>3. ASSUME NEW m \in Nat, NEW n \in Nat, m <= n PROVE Begin(m + 1) <= Begin(n + 1)
  <2>1. \A a, b, c \in Nat : a * (b + c) = a * b + a * c /\ a * c \in Nat /\ a * b \in Nat
    OBVIOUS
  <2>2. PICK d \in Nat : n = m + d
    <3>1. n - m \in Nat /\ n = m + (n - m)
      BY <1>3
    <3>2. QED
      BY <3>1
  <2>3. Begin(m + 1) = CmdLen * m /\ Begin(n + 1) = CmdLen * (m + d)
    BY <2>2, Sizes DEF Begin
  <2>4. QED
    BY <2>1, <2>3, Sizes
<1>4. QED
  BY <1>1, <1>2, <1>3

(* None, one more at the end, and one less at the front. *)
LEMMA NoCommands == AreCommands(<< >>, << >>)
BY Begins, EmptySeq DEF AreCommands

(* The bytes of a further command behind those of some commands are those
   of one command more: what the host does when it sends. *)
LEMMA OneMoreCommand ==
  ASSUME NEW s \in Seq(Bytes), NEW t \in Seq(Ids), NEW id \in Ids, AreCommands(s, t)
  PROVE  AreCommands(s \o Command(id), Append(t, id))
<1> DEFINE lt == Len(t)
           c == Command(id)
           b == Append(t, id)
<1>1. /\ lt \in Nat /\ Len(b) = lt + 1 /\ b[lt + 1] = id /\ \A n \in 1..lt : b[n] = t[n]
  BY AppendProperties
<1>2. /\ c \in Seq(Bytes) /\ Len(c) = CmdLen /\ \A i \in 1..CmdLen : c[i] = <<id, i>>
  BY CommandType
<1>3. /\ Len(s) = Begin(lt + 1) /\ Begin(lt + 1) \in Nat
      /\ Begin(lt + 2) = Begin(lt + 1) + CmdLen /\ CmdLen \in Nat
  BY <1>1, Begins, Sizes DEF AreCommands
<1> HIDE DEF lt, c, b
<1>4. /\ Len(s \o c) = Begin(lt + 1) + CmdLen
      /\ \A i \in 1..(Begin(lt + 1) + CmdLen) :
            (s \o c)[i] = IF i <= Begin(lt + 1) THEN s[i] ELSE c[i - Begin(lt + 1)]
  <2>1. /\ Len(s \o c) = Len(s) + Len(c)
        /\ \A i \in 1..(Len(s) + Len(c)) : (s \o c)[i] = IF i <= Len(s) THEN s[i] ELSE c[i - Len(s)]
    BY <1>2, ConcatProperties
  <2>2. Len(s) = Begin(lt + 1) /\ Len(c) = CmdLen
    BY <1>2, <1>3
  <2>3. QED
    BY <2>1, <2>2
<1>5. ASSUME NEW n \in 1..(lt + 1), NEW i \in 1..CmdLen
      PROVE  (s \o c)[Begin(n) + i] = <<b[n], i>>
  <2>1. CASE n <= lt
    <3>1. s[Begin(n) + i] = <<t[n], i>>
      BY <1>1, <2>1 DEF AreCommands, lt
    <3>2. n - 1 \in Nat /\ n \in Nat /\ n <= lt /\ (n - 1) + 1 = n /\ (n - 1) + 2 = n + 1
      BY <1>1, <2>1
    <3>3. Begin(n) \in Nat /\ Begin(n + 1) = Begin(n) + CmdLen
      BY <3>2, Begins
    <3>4. Begin(n + 1) <= Begin(lt + 1)
      BY <1>1, <3>2, Begins
    <3>5. Begin(n) + i \in 1..Begin(lt + 1)
      BY <1>3, <3>3, <3>4
    <3>6. (s \o c)[Begin(n) + i] = s[Begin(n) + i]
      BY <1>3, <1>4, <3>5
    <3>7. b[n] = t[n]
      BY <1>1, <3>2, <2>1
    <3>8. QED
      BY <3>1, <3>6, <3>7
  <2>2. CASE n = lt + 1
    <3> DEFINE j == Begin(n) + i
    <3>1. j \in 1..(Begin(lt + 1) + CmdLen) /\ ~(j <= Begin(lt + 1)) /\ j - Begin(lt + 1) = i
      BY <1>3, <2>2
    <3> HIDE DEF j
    <3>2. (s \o c)[j] = c[j - Begin(lt + 1)]
      BY <1>4, <3>1
    <3>3. b[n] = id /\ c[i] = <<id, i>>
      BY <1>1, <1>2, <2>2
    <3>4. (s \o c)[j] = <<b[n], i>>
      BY <3>1, <3>2, <3>3
    <3>5. QED
      BY <3>4 DEF j
  <2>3. n <= lt \/ n = lt + 1
    BY <1>1
  <2>4. QED
    BY <2>1, <2>2, <2>3
<1>6. Len(s \o c) = Begin(Len(b) + 1)
  <2>1. Len(b) + 1 = lt + 2
    BY <1>1
  <2>2. QED
    BY <1>3, <1>4, <2>1
<1>7. AreCommands(s \o c, b)
  BY <1>1, <1>5, <1>6 DEF AreCommands
<1>8. QED
  BY <1>7 DEF c, b

(* CmdLen bytes in front of some commands' bytes are the first command,
   and what follows is the others: what the menu does when it computes. *)
LEMMA OneCommandLess ==
  ASSUME NEW c \in Seq(Bytes), NEW r \in Seq(Bytes), NEW t \in Seq(Ids),
         Len(c) = CmdLen, AreCommands(c \o r, t)
  PROVE  t # << >> /\ c = Command(Head(t)) /\ AreCommands(r, Tail(t))
<1>0. CmdLen \in Nat /\ CmdLen > 0 /\ Len(r) \in Nat
  BY Sizes
<1>1. /\ Len(c \o r) = CmdLen + Len(r)
      /\ \A i \in 1..(CmdLen + Len(r)) : (c \o r)[i] = IF i <= CmdLen THEN c[i] ELSE r[i - CmdLen]
  BY ConcatProperties
<1>2. t # << >>
  <2>1. SUFFICES ASSUME t = << >> PROVE FALSE
    OBVIOUS
  <2>2. Len(t) + 1 = 1
    BY <2>1, EmptySeq
  <2>3. Len(c \o r) = 0
    BY <2>2, Begins DEF AreCommands
  <2>4. QED
    BY <1>0, <1>1, <2>3
<1> DEFINE lt == Len(t)
           u == Tail(t)
<1>3. /\ Head(t) \in Ids /\ Head(t) = t[1] /\ lt \in Nat /\ lt > 0 /\ Len(u) = lt - 1
      /\ \A n \in 1..(lt - 1) : u[n] = t[n + 1]
  BY <1>2, HeadTailProperties, EmptySeq
<1>4. Len(c \o r) = Begin(lt + 1) /\ \A n \in 1..lt, i \in 1..CmdLen : (c \o r)[Begin(n) + i] = <<t[n], i>>
  BY DEF AreCommands
<1>5. c = Command(Head(t))
  <2>1. ASSUME NEW i \in 1..CmdLen PROVE c[i] = <<t[1], i>>
    <3>0. 1 \in 1..lt
      BY <1>3
    <3>1. (c \o r)[Begin(1) + i] = <<t[1], i>>
      BY <1>4, <3>0
    <3>2. Begin(1) + i = i /\ i \in 1..(CmdLen + Len(r)) /\ i <= CmdLen
      BY <1>0, Begins
    <3>3. QED
      BY <1>1, <3>1, <3>2
  <2>2. /\ Command(Head(t)) \in Seq(Bytes) /\ Len(Command(Head(t))) = CmdLen
        /\ \A i \in 1..CmdLen : Command(Head(t))[i] = <<t[1], i>>
    BY <1>3, CommandType
  <2>3. QED
    BY <2>1, <2>2, SeqEqual
<1> HIDE DEF lt, u
<1>6. Begin(lt + 1) = Begin(lt) + CmdLen /\ Begin(lt) \in Nat
  <2>1. lt - 1 \in Nat /\ (lt - 1) + 1 = lt /\ (lt - 1) + 2 = lt + 1
    BY <1>3
  <2>2. QED
    BY <2>1, Begins
<1>7. Len(r) = Begin(Len(u) + 1)
  <2>1. Len(u) + 1 = lt
    BY <1>3
  <2>2. QED
    BY <1>0, <1>1, <1>4, <1>6, <2>1
<1>8. ASSUME NEW n \in 1..(lt - 1), NEW i \in 1..CmdLen
      PROVE  r[Begin(n) + i] = <<u[n], i>>
  <2>1. n - 1 \in Nat /\ n \in Nat /\ (n - 1) + 1 = n /\ (n - 1) + 2 = n + 1 /\ n <= lt - 1 /\ n + 1 \in 1..lt
        /\ lt - 1 \in Nat /\ (lt - 1) + 1 = lt
    BY <1>3
  <2>2. Begin(n) \in Nat /\ Begin(n + 1) = Begin(n) + CmdLen
    BY <2>1, Begins
  <2>3. Begin(n + 1) <= Begin(lt)
    BY <2>1, Begins
  <2>4. (c \o r)[Begin(n + 1) + i] = <<t[n + 1], i>>
    BY <1>4, <2>1
  <2> DEFINE j == Begin(n + 1) + i
  <2>5. j \in 1..(CmdLen + Len(r)) /\ ~(j <= CmdLen) /\ j - CmdLen = Begin(n) + i
    BY <1>0, <1>1, <1>4, <1>6, <2>2, <2>3
  <2>6. (c \o r)[j] = <<t[n + 1], i>>
    BY <2>4
  <2> HIDE DEF j
  <2>7. (c \o r)[j] = r[j - CmdLen]
    BY <1>1, <2>5
  <2>8. r[Begin(n) + i] = <<t[n + 1], i>>
    BY <2>5, <2>7, <2>6
  <2>9. QED
    BY <1>3, <2>8
<1>9. AreCommands(r, u)
  BY <1>3, <1>7, <1>8 DEF AreCommands
<1>10. QED
  BY <1>2, <1>5, <1>9 DEF u

(* The bytes on their way, those the menu has of a command first, are the  *)
(* commands sent and not run.                                              *)
Stream == cmd \o (QueueSeq \o (outBank \o pending))
OrderInv == AreCommands(Stream, todo)

(* The bytes under way are a sequence of bytes, as long as its parts. *)
LEMMA StreamType ==
  ASSUME TypeInv
  PROVE  /\ cmd \in Seq(Bytes) /\ QueueSeq \in Seq(Bytes) /\ outBank \in Seq(Bytes)
         /\ pending \in Seq(Bytes) /\ todo \in Seq(Ids)
         /\ outBank \o pending \in Seq(Bytes) /\ QueueSeq \o (outBank \o pending) \in Seq(Bytes)
         /\ Stream \in Seq(Bytes)
         /\ Len(Stream) = Len(cmd) + Len(QueueSeq) + Len(outBank) + Len(pending)
<1>1. /\ cmd \in Seq(Bytes) /\ QueueSeq \in Seq(Bytes) /\ outBank \in Seq(Bytes)
      /\ pending \in Seq(Bytes) /\ todo \in Seq(Ids)
  BY DEF TypeInv, TypeOK, RingOK
<1>2. /\ outBank \o pending \in Seq(Bytes)
      /\ Len(outBank \o pending) = Len(outBank) + Len(pending)
  BY <1>1, ConcatProperties
<1>3. /\ QueueSeq \o (outBank \o pending) \in Seq(Bytes)
      /\ Len(QueueSeq \o (outBank \o pending)) = Len(QueueSeq) + Len(outBank \o pending)
  BY <1>1, <1>2, ConcatProperties
<1>4. Stream \in Seq(Bytes) /\ Len(Stream) = Len(cmd) + Len(QueueSeq \o (outBank \o pending))
  BY <1>1, <1>3, ConcatProperties DEF Stream
<1>5. Len(cmd) \in Nat /\ Len(QueueSeq) \in Nat /\ Len(outBank) \in Nat /\ Len(pending) \in Nat
  BY <1>1, LenProperties
<1>6. Len(Stream) = Len(cmd) + Len(QueueSeq) + Len(outBank) + Len(pending)
  BY <1>2, <1>3, <1>4, <1>5
<1>7. QED
  BY <1>1, <1>2, <1>3, <1>4, <1>6

(* The menu that computes has the command sent first of those not run.     *)
LEMMA CommandAtHand ==
  ASSUME TypeInv, OrderInv, compute > 0
  PROVE  /\ todo # << >> /\ cmd = Command(Head(todo))
         /\ AreCommands(QueueSeq \o (outBank \o pending), Tail(todo))
<1>1. Len(cmd) = CmdLen
  BY Sizes DEF TypeInv, TypeOK, LoopInv
<1>2. /\ cmd \in Seq(Bytes) /\ QueueSeq \o (outBank \o pending) \in Seq(Bytes) /\ todo \in Seq(Ids)
  BY StreamType
<1>3. AreCommands(cmd \o (QueueSeq \o (outBank \o pending)), todo)
  BY DEF OrderInv, Stream
<1>4. QED
  BY <1>1, <1>2, <1>3, OneCommandLess

(* As long as the ring refuses nothing, no step changes what is on its way *)
(* but by commands.                                                        *)
LEMMA OrderStep ==
  ASSUME TypeInv, OrderInv, [Next]_vars, Receive /\ outBank # << >> => ~RingFull
  PROVE  OrderInv'
<1>0. /\ cmd \in Seq(Bytes) /\ QueueSeq \in Seq(Bytes) /\ outBank \in Seq(Bytes)
      /\ pending \in Seq(Bytes) /\ todo \in Seq(Ids) /\ RingOK
      /\ outBank \o pending \in Seq(Bytes) /\ QueueSeq \o (outBank \o pending) \in Seq(Bytes)
      /\ Stream \in Seq(Bytes)
  BY StreamType DEF TypeInv
<1>move. \A r, t, u \in Seq(Bytes) : t # << >> => Append(r, Head(t)) \o (Tail(t) \o u) = r \o (t \o u)
  BY MoveHead
<1>1. ASSUME Stream' = Stream, todo' = todo PROVE OrderInv'
  BY <1>1 DEF OrderInv
<1>2. ASSUME UNCHANGED <<buf, head, tail, cmd, outBank, pending, todo>> PROVE OrderInv'
  <2>1. Stream' = Stream
    BY <1>2, RingStands DEF Stream
  <2>2. QED
    BY <1>1, <1>2, <2>1
<1>3. ASSUME NEW id \in Ids, Ask(id) PROVE OrderInv'
  <2>1. /\ UNCHANGED <<buf, head, tail, cmd, outBank>>
        /\ pending' = pending \o Command(id) /\ todo' = Append(todo, id)
    BY <1>3 DEF Ask, ringVars, menuVars
  <2> DEFINE c == Command(id)
  <2>2. c \in Seq(Bytes)
    BY CommandType
  <2> HIDE DEF c
  <2>assoc. \A r, t, u \in Seq(Bytes) : (r \o t) \o u = r \o (t \o u)
    BY ConcatAssociative
  <2>3. (outBank \o pending) \o c = outBank \o (pending \o c)
    <3>1. outBank \in Seq(Bytes) /\ pending \in Seq(Bytes)
      BY <1>0
    <3>2. QED
      BY <2>2, <2>assoc, <3>1, Zenon
  <2>4. (QueueSeq \o (outBank \o pending)) \o c = QueueSeq \o ((outBank \o pending) \o c)
    <3>1. QueueSeq \in Seq(Bytes) /\ outBank \o pending \in Seq(Bytes)
      BY <1>0
    <3>2. QED
      BY <2>2, <2>assoc, <3>1, Zenon
  <2>5. (cmd \o (QueueSeq \o (outBank \o pending))) \o c = cmd \o ((QueueSeq \o (outBank \o pending)) \o c)
    <3>1. cmd \in Seq(Bytes) /\ QueueSeq \o (outBank \o pending) \in Seq(Bytes)
      BY <1>0
    <3>2. QED
      BY <2>2, <2>assoc, <3>1, Zenon
  <2>6. Stream' = cmd \o (QueueSeq \o (outBank \o (pending \o c)))
    BY <2>1, RingStands DEF Stream, c
  <2>7. Stream' = Stream \o c
    BY <2>3, <2>4, <2>5, <2>6 DEF Stream
  <2>8. AreCommands(Stream \o c, Append(todo, id))
    BY <1>0, OneMoreCommand DEF OrderInv, c
  <2>9. QED
    BY <2>1, <2>7, <2>8 DEF OrderInv
<1>4. ASSUME NEW n \in 1..EpSize, SendPacket(n) PROVE OrderInv'
  <2>1. /\ UNCHANGED <<buf, head, tail, cmd, todo>> /\ outBank = << >> /\ n <= Len(pending)
        /\ outBank' = SubSeq(pending, 1, n)
        /\ pending' = SubSeq(pending, n + 1, Len(pending))
    BY <1>4 DEF SendPacket, ringVars, menuVars
  <2>2. outBank' \o pending' = pending
    BY <1>0, <2>1, PacketType
  <2>3. outBank \o pending = pending
    BY <1>0, <2>1, ConcatEmptySeq
  <2>4. Stream' = Stream
    BY <2>1, <2>2, <2>3, RingStands DEF Stream
  <2>5. QED
    BY <1>1, <2>1, <2>4
<1>5. CASE Receive
  <2>1. UNCHANGED <<tail, cmd, pending, todo>>
    BY <1>5 DEF Receive, hostVars, menuVars
  <2>2. CASE UNCHANGED <<outBank, buf, head, pushed>>
    BY <1>2, <2>1, <2>2
  <2>3. CASE outBank # << >> /\ outBank' = Tail(outBank) /\ Push(Head(outBank))
    <3>1. ~RingFull /\ Head(outBank) \in Bytes
      BY <1>0, <1>5, <2>3, HeadTailProperties
    <3>2. QueueSeq' = Append(QueueSeq, Head(outBank))
      BY <1>0, <2>1, <2>3, <3>1, RingPush DEF Push
    <3>3. Append(QueueSeq, Head(outBank)) \o (Tail(outBank) \o pending)
            = QueueSeq \o (outBank \o pending)
      <4>1. QueueSeq \in Seq(Bytes) /\ outBank \in Seq(Bytes) /\ pending \in Seq(Bytes)
        BY <1>0
      <4>2. QED
        BY <1>move, <2>3, <4>1, Zenon
    <3>4. Stream' = Stream
      BY <2>1, <2>3, <3>2, <3>3 DEF Stream
    <3>5. QED
      BY <1>1, <2>1, <3>4
  <2>4. QED
    BY <1>5, <2>2, <2>3 DEF Receive
<1>6. CASE PollRead
  <2>1. UNCHANGED <<buf, head, outBank, pending, todo>>
    BY <1>6 DEF PollRead, hostVars
  <2>2. CASE head = tail
    <3>1. UNCHANGED <<tail, cmd>>
      BY <1>6, <2>2 DEF PollRead, menuVars
    <3>2. QED
      BY <1>2, <2>1, <3>1
  <2>3. CASE head # tail
    <3>1. tail' = Following(tail) /\ cmd' = Append(cmd, buf[tail])
      BY <1>6, <2>3 DEF PollRead
    <3>2. QueueSeq # << >> /\ Head(QueueSeq) = buf[tail] /\ QueueSeq' = Tail(QueueSeq)
      BY <1>0, <2>1, <2>3, <3>1, RingPop
    <3>3. Append(cmd, Head(QueueSeq)) \o (Tail(QueueSeq) \o (outBank \o pending))
            = cmd \o (QueueSeq \o (outBank \o pending))
      <4>1. cmd \in Seq(Bytes) /\ QueueSeq \in Seq(Bytes) /\ outBank \o pending \in Seq(Bytes)
        BY <1>0
      <4>2. QED
        BY <1>move, <3>2, <4>1, Zenon
    <3>4. Stream' = Stream
      BY <2>1, <3>1, <3>2, <3>3 DEF Stream
    <3>5. QED
      BY <1>1, <2>1, <3>4
  <2>4. QED
    BY <2>2, <2>3
<1>7. CASE PollCompute
  <2>1. UNCHANGED <<buf, head, tail, outBank, pending>> /\ compute > 0
    BY <1>7 DEF PollCompute, hostVars, ringVars
  <2>2. CASE UNCHANGED <<cmd, todo>>
    BY <1>2, <2>1, <2>2
  <2>3. CASE cmd' = << >> /\ todo' = IF todo # << >> THEN Tail(todo) ELSE todo
    <3>1. todo # << >> /\ AreCommands(QueueSeq \o (outBank \o pending), Tail(todo))
      BY <2>1, CommandAtHand
    <3>2. << >> \o (QueueSeq \o (outBank \o pending)) = QueueSeq \o (outBank \o pending)
      BY <1>0, ConcatEmptySeq
    <3>3. Stream' = QueueSeq \o (outBank \o pending)
      BY <2>1, <2>3, <3>2, RingStands DEF Stream
    <3>4. QED
      BY <2>3, <3>1, <3>3 DEF OrderInv
  <2>4. QED
    BY <1>7, <2>2, <2>3 DEF PollCompute
<1>8. CASE DogBite
  <2>1. /\ cmd' = << >> /\ outBank' = << >> /\ pending' = << >> /\ todo' = << >>
        /\ head' = 0 /\ tail' = 0
    BY <1>8 DEF DogBite
  <2>2. QueueLen' = 0
    BY <2>1, Sizes DEF QueueLen
  <2>3. QueueSeq' = << >>
    BY <2>2 DEF QueueSeq
  <2>4. << >> \o << >> = << >>
    BY EmptySeq, ConcatEmptySeq
  <2>5. Stream' = << >>
    BY <2>1, <2>3, <2>4 DEF Stream
  <2>6. QED
    BY <2>1, <2>5, NoCommands DEF OrderInv
<1>9. CASE OpenLine \/ Leave \/ Return \/ TakeBank
  BY <1>2, <1>9 DEF OpenLine, Leave, Return, TakeBank, ringVars, menuVars
<1>10. CASE PadPoll \/ Flush \/ PrintByte \/ WaitEnds \/ PrintDone \/ Frame
  BY <1>2, <1>10 DEF PadPoll, Flush, PrintByte, WaitEnds, PrintDone, Frame, hostVars, ringVars, menuVars
<1>11. CASE UNCHANGED vars
  BY <1>2, <1>11 DEF vars, hostVars, ringVars, menuVars
<1>12. QED
  BY <1>3, <1>4, <1>5, <1>6, <1>7, <1>8, <1>9, <1>10, <1>11 DEF Next, Host, MainLoop

(* What the host may still see of replies: those of the commands run that  *)
(* it has not seen answered.                                               *)
Owed == ReplyLen * (Len(asked) - Len(todo))
Coming == seen + Replies(bank) + (IF kind = "reply" THEN left ELSE 0)

AnswerInv == Len(todo) <= Len(asked) /\ Coming <= Owed

(* One reply more is ReplyLen bytes more. *)
LEMMA Multiples ==
  ASSUME NEW d \in Nat
  PROVE  /\ ReplyLen * d \in Nat /\ ReplyLen * (d + 1) = ReplyLen * d + ReplyLen
         /\ ReplyLen * d >= ReplyLen => d > 0
<1>1. \A a, b \in Nat : a * b \in Nat /\ a * (b + 1) = a * b + a /\ (b = 0 => a * b = 0)
  OBVIOUS
<1>2. ReplyLen * d \in Nat /\ ReplyLen * (d + 1) = ReplyLen * d + ReplyLen /\ (d = 0 => ReplyLen * d = 0)
  BY <1>1, Sizes
<1>3. ReplyLen * d >= ReplyLen => d > 0
  BY <1>2, Sizes
<1>4. QED
  BY <1>2, <1>3

(* A host never counts a reply as seen before its command has run.         *)
LEMMA AnswerStep ==
  ASSUME TypeInv, OrderInv, AnswerInv, [Next]_vars
  PROVE  AnswerInv'
<1> DEFINE d == Len(asked) - Len(todo)
           m == ReplyLen * d
           r == Replies(bank)
<1>0. /\ asked \in Seq(Ids) /\ todo \in Seq(Ids) /\ bank \in Seq({"reply", "other"})
      /\ Len(asked) \in Nat /\ Len(todo) \in Nat /\ seen \in Nat /\ left \in Nat /\ r \in Nat
      /\ kind \in Kinds /\ ReplyLen \in Nat /\ ReplyLen > 0
  BY Sizes, ReplyCount DEF TypeInv, TypeOK
<1>1. d \in Nat /\ m \in Nat /\ ReplyLen * (d + 1) = m + ReplyLen /\ (m >= ReplyLen => d > 0)
  <2>1. d \in Nat
    BY <1>0 DEF AnswerInv
  <2> HIDE DEF d
  <2>2. QED
    BY <2>1, Multiples
<1>2. Owed = m /\ seen + r + (IF kind = "reply" THEN left ELSE 0) <= m /\ Len(todo) <= Len(asked)
  BY DEF Owed, AnswerInv, Coming
<1>3. ASSUME UNCHANGED <<asked, todo, bank, seen>>,
             (IF kind' = "reply" THEN left' ELSE 0) <= IF kind = "reply" THEN left ELSE 0,
             left' \in Nat
      PROVE  AnswerInv'
  <2>1. Owed' = m
    BY <1>3 DEF Owed
  <2>2. Replies(bank)' = r
    BY <1>3
  <2> HIDE DEF m, r, d
  <2> DEFINE x == IF kind = "reply" THEN left ELSE 0
             y == IF kind' = "reply" THEN left' ELSE 0
  <2>3. x \in Nat /\ y \in Nat /\ y <= x /\ seen + r + x <= m
    BY <1>0, <1>2, <1>3
  <2>4. Coming' = seen + r + y
    BY <1>3, <2>2 DEF Coming
  <2> HIDE DEF x, y
  <2>5. Coming' <= m
    BY <1>0, <1>1, <2>3, <2>4
  <2>6. QED
    BY <1>2, <1>3, <2>1, <2>5 DEF AnswerInv
<1>4. CASE OpenLine \/ Leave \/ Return \/ (\E n \in 1..EpSize : SendPacket(n)) \/ Flush \/ Receive \/ Frame
  <2>1. UNCHANGED <<asked, todo, bank, seen, left, kind>>
    BY <1>4 DEF OpenLine, Leave, Return, SendPacket, Flush, Receive, Frame, hostVars, outVars
  <2>2. QED
    BY <1>0, <1>3, <2>1
<1>5. ASSUME NEW id \in Ids, Ask(id) PROVE AnswerInv'
  <2>1. /\ UNCHANGED <<bank, seen, left, kind>> /\ asked' = Append(asked, id) /\ todo' = Append(todo, id)
    BY <1>5 DEF Ask, outVars
  <2>2. Len(asked') = Len(asked) + 1 /\ Len(todo') = Len(todo) + 1
    BY <1>0, <2>1
  <2>3. Len(asked') - Len(todo') = d /\ Len(todo') <= Len(asked')
    BY <1>0, <1>2, <2>2
  <2>4. Owed' = m
    BY <2>3 DEF Owed
  <2>5. Coming' = Coming
    BY <2>1 DEF Coming
  <2>6. QED
    BY <1>2, <2>3, <2>4, <2>5 DEF AnswerInv
<1>6. CASE TakeBank
  <2>1. /\ UNCHANGED <<left, kind, todo>> /\ bank' = << >>
        /\ seen' = (seen + r) % ReplyLen
        /\ asked' = IF seen + r >= ReplyLen /\ asked # << >> THEN Tail(asked) ELSE asked
    BY <1>6 DEF TakeBank
  <2>2. Replies(bank)' = 0
    BY <2>1, ReplyCount
  <2>3. /\ seen' \in Nat /\ seen' <= seen + r
        /\ seen + r >= ReplyLen => seen' <= seen + r - ReplyLen
    <3>1. seen + r \in Nat
      BY <1>0
    <3>2. ASSUME NEW k \in Nat
          PROVE  /\ k % ReplyLen \in 0..(ReplyLen - 1) /\ k % ReplyLen <= k
                 /\ k >= ReplyLen => k % ReplyLen <= k - ReplyLen
      BY <1>0, Remainder
    <3>3. ASSUME NEW k \in Nat, k = seen + r
          PROVE  seen' \in Nat /\ seen' <= k /\ (k >= ReplyLen => seen' <= k - ReplyLen)
      <4> DEFINE z == k % ReplyLen
      <4>1. seen' = z
        BY <2>1, <3>3
      <4>2. z \in 0..(ReplyLen - 1) /\ z <= k /\ (k >= ReplyLen => z <= k - ReplyLen)
        BY <3>2
      <4> HIDE DEF z
      <4>3. QED
        BY <1>0, <4>1, <4>2
    <3>4. QED
      BY <1>0, <3>1, <3>3
  <2>4. CASE seen + r >= ReplyLen
    <3>1. m >= ReplyLen
      BY <1>0, <1>1, <1>2, <2>4
    <3>2. d > 0 /\ asked # << >>
      BY <1>0, <1>1, <3>1, EmptySeq
    <3>3. Len(asked') = Len(asked) - 1
      BY <1>0, <2>1, <2>4, <3>2, HeadTailProperties
    <3>4. Len(asked') - Len(todo') = d - 1 /\ Len(todo') <= Len(asked')
      BY <1>0, <2>1, <3>2, <3>3
    <3>5. Owed' = m - ReplyLen
      <4>1. d - 1 \in Nat /\ (d - 1) + 1 = d
        BY <1>1, <3>2
      <4>2. ReplyLen * d = ReplyLen * (d - 1) + ReplyLen /\ ReplyLen * (d - 1) \in Nat
        BY <4>1, Multiples
      <4>3. Owed' = ReplyLen * (d - 1)
        BY <3>4 DEF Owed
      <4> HIDE DEF d
      <4>4. QED
        BY <1>0, <4>2, <4>3
    <3>6. Coming' <= m - ReplyLen
      <4> HIDE DEF d, m, r
      <4>1. QED
        BY <1>0, <1>1, <1>2, <2>1, <2>2, <2>3, <2>4 DEF Coming
    <3>7. QED
      BY <3>4, <3>5, <3>6 DEF AnswerInv
  <2>5. CASE ~(seen + r >= ReplyLen)
    <3>1. asked' = asked /\ todo' = todo
      BY <2>1, <2>5
    <3>2. Owed' = m
      BY <3>1 DEF Owed
    <3>3. Coming' <= m
      <4> HIDE DEF d, m, r
      <4>1. QED
        BY <1>0, <1>1, <1>2, <2>1, <2>2, <2>3 DEF Coming
    <3>4. QED
      BY <1>2, <3>1, <3>2, <3>3 DEF AnswerInv
  <2>6. QED
    BY <2>4, <2>5
<1>7. CASE PrintByte \/ WaitEnds
  <2>1. UNCHANGED <<asked, todo, seen, kind>>
    BY <1>7 DEF PrintByte, WaitEnds, hostVars
  <2> DEFINE b == IF kind = "reply" THEN kind ELSE "other"
  <2>2. \/ bank' = bank /\ left' \in {left, left - 1} /\ (left' = left - 1 => left > 0)
        \/ bank' = Append(bank, b) /\ left' = left - 1 /\ left > 0
    <3>1. CASE PrintByte
      BY <3>1 DEF PrintByte
    <3>2. CASE WaitEnds
      <4>1. pc = "print_wait" => left > 0
        BY DEF TypeInv, LoopInv
      <4>2. \/ /\ pc = "print_wait" /\ left' = left - 1
               /\ bank' = IF armed THEN bank ELSE Append(bank, b)
            \/ UNCHANGED <<left, bank>>
        BY <3>2 DEF WaitEnds
      <4> HIDE DEF b
      <4>3. QED
        BY <1>0, <4>1, <4>2
    <3>3. QED
      BY <1>7, <3>1, <3>2
  <2>3. CASE bank' = bank /\ left' \in {left, left - 1} /\ (left' = left - 1 => left > 0)
    <3>1. left' \in Nat /\ left' <= left
      BY <1>0, <2>3
    <3>2. QED
      BY <1>0, <1>3, <2>1, <2>3, <3>1
  <2>4. CASE bank' = Append(bank, b) /\ left' = left - 1 /\ left > 0
    <3>1. Replies(bank)' = IF kind = "reply" THEN r + 1 ELSE r
      <4>1. CASE kind = "reply"
        BY <1>0, <2>4, <4>1, ReplyCount
      <4>2. CASE kind # "reply"
        BY <1>0, <2>4, <4>2, ReplyCount
      <4>3. QED
        BY <4>1, <4>2
    <3>2. Owed' = m
      BY <2>1 DEF Owed
    <3>3. Coming' = Coming
      <4> HIDE DEF d, m, r
      <4>1. Coming = seen + r + (IF kind = "reply" THEN left ELSE 0)
        BY DEF Coming, r
      <4>2. Coming' = seen + (IF kind = "reply" THEN r + 1 ELSE r) + (IF kind = "reply" THEN left - 1 ELSE 0)
        BY <2>1, <2>4, <3>1 DEF Coming
      <4>3. QED
        BY <1>0, <2>4, <4>1, <4>2
    <3>4. QED
      BY <1>2, <2>1, <3>2, <3>3 DEF AnswerInv
  <2>5. QED
    BY <2>2, <2>3, <2>4
<1>8. CASE PadPoll \/ PollRead \/ PrintDone
  <2>1. UNCHANGED <<asked, todo, bank, seen>>
    BY <1>8 DEF PadPoll, PollRead, PrintDone, hostVars
  <2>2. left = 0 \/ pc = "print"
    BY <1>8 DEF PadPoll, PollRead, PrintDone, TypeInv, LoopInv, Printing
  <2>3. left' \in Nat /\ (IF kind' = "reply" THEN left' ELSE 0) = 0
    <3>1. CASE PadPoll
      BY <1>0, <2>2, <3>1, Sizes DEF PadPoll
    <3>2. CASE PollRead
      BY <1>0, <2>2, <3>2, Sizes DEF PollRead
    <3>3. CASE PrintDone
      BY <1>0, <3>3 DEF PrintDone
    <3>4. QED
      BY <1>8, <3>1, <3>2, <3>3
  <2>4. QED
    BY <1>0, <1>3, <2>1, <2>3
<1>9. CASE PollCompute
  <2>1. UNCHANGED <<asked, bank, seen>> /\ compute > 0
    BY <1>9 DEF PollCompute, hostVars
  <2>2. CASE UNCHANGED <<todo, left, kind>>
    BY <1>0, <1>3, <2>1, <2>2
  <2>3. CASE todo' = (IF todo # << >> THEN Tail(todo) ELSE todo) /\ left' = ReplyLen /\ kind' = "reply"
    <3>1. todo # << >>
      BY <2>1, CommandAtHand
    <3>2. Len(todo') = Len(todo) - 1
      BY <1>0, <2>3, <3>1, HeadTailProperties
    <3>3. Len(asked') - Len(todo') = d + 1 /\ Len(todo') <= Len(asked')
      BY <1>0, <1>2, <2>1, <3>2
    <3>4. Owed' = ReplyLen * (d + 1)
      BY <3>3 DEF Owed
    <3> HIDE DEF d, m, r
    <3>5. Coming' <= m + ReplyLen
      <4>1. Replies(bank)' = r
        BY <2>1 DEF r
      <4>2. Coming' = seen + r + ReplyLen
        BY <2>1, <2>3, <4>1 DEF Coming
      <4>3. seen + r <= m
        BY <1>0, <1>1, <1>2
      <4>4. QED
        BY <1>0, <1>1, <4>2, <4>3
    <3>6. QED
      BY <1>1, <3>3, <3>4, <3>5 DEF AnswerInv
  <2>4. QED
    BY <1>9, <2>2, <2>3 DEF PollCompute
<1>10. CASE DogBite
  <2>1. asked' = << >> /\ todo' = << >> /\ seen' = 0 /\ bank' = << >> /\ left' = 0
    BY <1>10 DEF DogBite
  <2>2. Owed' = 0 /\ Len(todo') <= Len(asked')
    BY <1>0, <2>1, EmptySeq DEF Owed
  <2>3. Coming' = 0
    BY <2>1, ReplyCount DEF Coming
  <2>4. QED
    BY <2>2, <2>3 DEF AnswerInv
<1>11. CASE UNCHANGED vars
  BY <1>0, <1>3, <1>11 DEF vars, hostVars, outVars
<1>12. QED
  BY <1>4, <1>5, <1>6, <1>7, <1>8, <1>9, <1>10, <1>11 DEF Next, Host, MainLoop

(* While the menu reads, all but the command it has begun fit into the     *)
(* ring, and the byte that came last has not been waited for.              *)
SpaceInv == compute = 0 => QueueLen <= Begin(Ahead) + (IF pc = "poll" THEN 1 ELSE 0)

WholeInv == TypeInv /\ OrderInv /\ AnswerInv /\ SpaceInv

(* No more is on its way than the host sends ahead. *)
LEMMA OnTheWay ==
  ASSUME TypeInv, OrderInv, AnswerInv
  PROVE  /\ Len(cmd) \in Nat /\ QueueLen \in Nat /\ Len(outBank) \in Nat /\ Len(pending) \in Nat
         /\ Begin(Ahead) \in Nat
         /\ Len(cmd) + QueueLen + Len(outBank) + Len(pending) <= Begin(Ahead) + CmdLen
<1>1. /\ Len(cmd) \in Nat /\ Len(outBank) \in Nat /\ Len(pending) \in Nat /\ Len(todo) \in Nat
      /\ QueueLen \in Nat /\ Len(QueueSeq) = QueueLen
  BY StreamType, RingLength, Sizes DEF TypeInv
<1>2. Len(todo) <= Ahead
  <2>1. Len(asked) \in Nat /\ Len(asked) <= Ahead /\ Len(todo) <= Len(asked)
    BY DEF TypeInv, TypeOK, AnswerInv
  <2>2. QED
    BY <1>1, <2>1, Sizes
<1>3. Begin(Len(todo) + 1) <= Begin(Ahead + 1)
  BY <1>1, <1>2, Begins, Sizes
<1>4. Begin(Ahead + 1) = Begin(Ahead) + CmdLen /\ Begin(Ahead) \in Nat /\ Begin(Len(todo) + 1) \in Nat
  <2>1. Ahead - 1 \in Nat /\ (Ahead - 1) + 1 = Ahead /\ (Ahead - 1) + 2 = Ahead + 1
    BY Sizes
  <2>2. QED
    BY <1>1, <2>1, Begins
<1>5. Len(Stream) = Begin(Len(todo) + 1)
  BY DEF OrderInv, AreCommands
<1>6. Len(Stream) = Len(cmd) + QueueLen + Len(outBank) + Len(pending)
  BY <1>1, StreamType
<1>7. Len(cmd) + QueueLen + Len(outBank) + Len(pending) <= Begin(Ahead) + CmdLen
  BY <1>1, <1>3, <1>4, <1>5, <1>6, Sizes
<1>8. QED
  BY <1>1, <1>4, <1>7

(* The ring has room for every byte that comes. *)
LEMMA RoomForEveryByte ==
  ASSUME WholeInv, pc = "receive", outBank # << >>, Begin(Ahead) < Size - 1
  PROVE  ~RingFull
<1>1. /\ Len(cmd) \in Nat /\ QueueLen \in Nat /\ Len(outBank) \in Nat /\ Len(pending) \in Nat
      /\ Begin(Ahead) \in Nat
      /\ Len(cmd) + QueueLen + Len(outBank) + Len(pending) <= Begin(Ahead) + CmdLen
  BY OnTheWay DEF WholeInv
<1>2. QueueLen <= Begin(Ahead)
  <2>1. CASE compute = 0
    BY <1>1, <2>1 DEF WholeInv, SpaceInv
  <2>2. CASE compute # 0
    <3>1. Len(cmd) = CmdLen
      BY <2>2 DEF WholeInv, TypeInv, LoopInv
    <3>2. QED
      BY <1>1, <3>1, Sizes
  <2>3. QED
    BY <2>1, <2>2
<1>3. QueueLen < Size - 1
  BY <1>1, <1>2, Sizes
<1>4. QED
  BY <1>1, <1>3, RingLength, Sizes DEF WholeInv, TypeInv

(* No step of the system fills the ring to its last place. *)
LEMMA SpaceStep ==
  ASSUME WholeInv, [Next]_vars, Begin(Ahead) < Size - 1
  PROVE  SpaceInv'
<1>0. /\ Len(cmd) \in Nat /\ QueueLen \in Nat /\ Len(outBank) \in Nat /\ Len(pending) \in Nat
      /\ Begin(Ahead) \in Nat /\ RingOK
      /\ Len(cmd) + QueueLen + Len(outBank) + Len(pending) <= Begin(Ahead) + CmdLen
  BY OnTheWay DEF WholeInv, TypeInv
<1> USE DEF SpaceInv
<1>1. CASE Host \/ UNCHANGED vars
  <2>1. UNCHANGED <<buf, head, tail, compute, pc>>
    BY <1>1 DEF Host, OpenLine, Leave, Return, TakeBank, Ask, SendPacket, ringVars, menuVars, vars
  <2>2. QED
    BY <2>1, RingStands DEF WholeInv
<1>2. CASE PadPoll \/ Flush \/ PrintByte \/ WaitEnds \/ PrintDone \/ Frame
  <2>1. UNCHANGED <<buf, head, tail, compute>> /\ pc # "poll"
    BY <1>2 DEF PadPoll, Flush, PrintByte, WaitEnds, PrintDone, Frame, ringVars, menuVars, Waits
  <2>2. QueueLen' = QueueLen
    BY <2>1, RingStands
  <2>3. QED
    BY <1>0, <2>1, <2>2 DEF WholeInv
<1>3. CASE Receive
  <2>1. UNCHANGED <<tail, compute>> /\ pc = "receive" /\ pc' = "poll"
    BY <1>3 DEF Receive, menuVars
  <2>2. QueueLen' \in {QueueLen, QueueLen + 1}
    <3>1. CASE UNCHANGED <<buf, head>>
      BY <2>1, <3>1, RingStands
    <3>2. CASE outBank # << >> /\ Push(Head(outBank)) /\ ~RingFull
      <4>1. Head(outBank) \in Bytes
        BY <3>2, HeadTailProperties DEF WholeInv, TypeInv, TypeOK
      <4>2. RingOK' /\ QueueSeq' = Append(QueueSeq, Head(outBank))
        BY <1>0, <2>1, <3>2, <4>1, RingPush DEF Push
      <4>3. head' = Following(head)
        BY <3>2 DEF Push
      <4>4. QueueLen' = QueueLen + 1
        <5>1. head' = IF head + 1 < Size THEN head + 1 ELSE 0
          BY <1>0, <4>3, FollowingType DEF RingOK
        <5>2. QED
          BY <1>0, <2>1, <3>2, <5>1, Sizes DEF RingOK, RingFull, QueueLen, Slots
      <4>5. QED
        BY <4>4
    <3>3. QED
      BY <1>3, <3>1, <3>2 DEF Receive, Push
  <2>3. QED
    BY <1>0, <2>1, <2>2 DEF WholeInv
<1>4. CASE PollRead
  <2>1. UNCHANGED <<buf, head>> /\ pc = "poll" /\ pc' # "poll" /\ compute = 0
    BY <1>4 DEF PollRead
  <2>2. QueueLen <= Begin(Ahead) + 1
    BY <2>1 DEF WholeInv
  <2>3. CASE head = tail
    <3>1. tail' = tail
      BY <1>4, <2>3 DEF PollRead
    <3>2. QueueLen' = 0
      BY <1>0, <2>1, <2>3, <3>1, Sizes DEF RingOK, QueueLen, Slots
    <3>3. QED
      BY <1>0, <2>1, <3>2
  <2>4. CASE head # tail
    <3>1. tail' = IF tail + 1 < Size THEN tail + 1 ELSE 0
      BY <1>0, <1>4, <2>4, FollowingType DEF PollRead, RingOK
    <3>2. QueueLen' = QueueLen - 1
      BY <1>0, <2>1, <2>4, <3>1, Sizes DEF RingOK, QueueLen, Slots
    <3>3. QED
      BY <1>0, <2>1, <2>2, <3>2
  <2>5. QED
    BY <2>3, <2>4
<1>5. CASE PollCompute
  <2>1. UNCHANGED <<buf, head, tail>> /\ compute > 0
    BY <1>5 DEF PollCompute, ringVars
  <2>2. QueueLen' = QueueLen
    BY <2>1, RingStands
  <2>3. Len(cmd) = CmdLen
    BY <2>1 DEF WholeInv, TypeInv, TypeOK, LoopInv
  <2>4. QueueLen <= Begin(Ahead)
    BY <1>0, <2>3, Sizes
  <2>5. QED
    BY <1>0, <2>2, <2>4
<1>6. CASE DogBite
  <2>1. head' = 0 /\ tail' = 0
    BY <1>6 DEF DogBite
  <2>2. QueueLen' = 0
    BY <2>1, Sizes DEF QueueLen
  <2>3. QED
    BY <1>0, <2>2
<1>7. QED
  BY <1>1, <1>2, <1>3, <1>4, <1>5, <1>6 DEF Next, MainLoop

(* A host that waits for replies has its commands run whole and in order,  *)
(* byte for byte, if all but one of those it sends ahead fit into the      *)
(* ring: although polls that compute leave the ring unread, and however    *)
(* the host goes away and comes back (lufa_main_loop, push, pop, poll).    *)
THEOREM CommandsArriveWhole ==
  ASSUME CmdLen * (Ahead - 1) < Size - 1
  PROVE  Spec => CommandsWhole
<1>0. Begin(Ahead) < Size - 1
  BY DEF Begin
<1>1. Init => WholeInv
  <2> SUFFICES ASSUME Init PROVE WholeInv
    OBVIOUS
  <2>1. TypeInv
    BY TypeInit
  <2>2. head = tail /\ QueueSeq = << >> /\ QueueLen = 0
    <3>1. head = 0 /\ tail = 0
      BY DEF Init
    <3>2. QueueLen = 0
      BY <3>1, Sizes DEF QueueLen
    <3>3. QED
      BY <3>1, <3>2 DEF QueueSeq
  <2>3. Stream = << >>
    <3>1. << >> \o << >> = << >>
      BY EmptySeq, ConcatEmptySeq
    <3>2. QED
      BY <2>2, <3>1 DEF Init, Stream
  <2>4. OrderInv
    BY <2>3, NoCommands DEF Init, OrderInv
  <2>5. AnswerInv
    <3>1. Coming = 0
      BY ReplyCount DEF Init, Coming
    <3>2. Owed = 0 /\ Len(todo) <= Len(asked)
      BY EmptySeq, Sizes DEF Init, Owed
    <3>3. QED
      BY <3>1, <3>2 DEF AnswerInv
  <2>6. SpaceInv
    <3>1. Begin(Ahead) \in Nat
      BY <2>1, <2>4, <2>5, OnTheWay
    <3>2. QED
      BY <2>2, <3>1 DEF Init, SpaceInv
  <2>7. QED
    BY <2>1, <2>4, <2>5, <2>6 DEF WholeInv
<1>2. WholeInv /\ [Next]_vars => WholeInv'
  <2> SUFFICES ASSUME WholeInv, [Next]_vars PROVE WholeInv'
    OBVIOUS
  <2>1. TypeInv'
    BY TypeStep DEF WholeInv
  <2>2. Receive /\ outBank # << >> => ~RingFull
    BY <1>0, RoomForEveryByte DEF Receive
  <2>3. OrderInv'
    BY <2>2, OrderStep DEF WholeInv
  <2>4. AnswerInv'
    BY AnswerStep DEF WholeInv
  <2>5. SpaceInv'
    BY <1>0, SpaceStep
  <2>6. QED
    BY <2>1, <2>3, <2>4, <2>5 DEF WholeInv
<1>3. WholeInv /\ [Next]_vars =>
        [pc = "poll" /\ compute = 1 /\ pc' = "print" =>
           todo # << >> /\ cmd = Command(Head(todo))]_vars
  BY CommandAtHand DEF WholeInv
<1>4. QED
  BY <1>1, <1>2, <1>3, PTL DEF Spec, CommandsWhole
=============================================================================
