--------------------------- MODULE KeyRing_proofs ---------------------------
(***************************************************************************)
(* Proofs about the key ring of VirtualSerialMouse.c, for every ring size. *)
(***************************************************************************)
EXTENDS KeyRing, SequenceTheorems, TLAPS

(* The indices and the program counter keep their ranges.                  *)
LEMMA IndexStep == IndexOK /\ [Next]_vars => IndexOK'
<1> SUFFICES ASSUME IndexOK, [Next]_vars PROVE IndexOK'
  OBVIOUS
<1> USE RingAssumption DEF IndexOK, Points, PushPoints, PopPoints, IndexMod
<1>1. ASSUME NEW k \in Keys, PushTest(k) PROVE IndexOK'
  BY <1>1 DEF PushTest
<1>2. CASE PushSlot
  BY <1>2 DEF PushSlot
<1>3. CASE PushHead
  BY <1>3 DEF PushHead, Bump
<1>4. CASE PopTest
  BY <1>4 DEF PopTest
<1>5. CASE PopSlot
  BY <1>5 DEF PopSlot
<1>6. CASE PopWrap
  BY <1>6 DEF PopWrap
<1>7. CASE PopLoad
  BY <1>7 DEF PopLoad
<1>8. CASE PopStore
  BY <1>8 DEF PopStore
<1>9. CASE PopIsr
  BY <1>9 DEF PopIsr, Bump
<1>10. ASSUME NEW c \in Configs, SetConfig(c) PROVE IndexOK'
  BY <1>10 DEF SetConfig
<1>11. CASE UNCHANGED vars
  BY <1>11 DEF vars
<1>12. QED
  BY <1>1, <1>2, <1>3, <1>4, <1>5, <1>6, <1>7, <1>8, <1>9, <1>10, <1>11
     DEF Next, Push, PopMain

(* The cells of the buffer and the copies of them hold only words the      *)
(* program or the USB stack can have stored.                               *)
LEMMA WordStep == IndexOK /\ WordOK /\ [Next]_vars => WordOK'
<1> SUFFICES ASSUME IndexOK, WordOK, [Next]_vars PROVE WordOK'
  OBVIOUS
<1> USE RingAssumption DEF WordOK, Words, Verdicts
<1>1. ASSUME NEW k \in Keys, PushTest(k) PROVE WordOK'
  BY <1>1 DEF PushTest
<1>2. CASE PushSlot
  BY <1>2 DEF PushSlot
<1>3. CASE PushHead
  BY <1>3 DEF PushHead
<1>4. CASE PopTest
  BY <1>4 DEF PopTest
<1>5. CASE PopSlot
  BY <1>5 DEF PopSlot, SlotAt
<1>6. CASE PopWrap
  BY <1>6 DEF PopWrap
<1>7. CASE PopLoad
  BY <1>7 DEF PopLoad
<1>8. CASE PopStore
  BY <1>8 DEF PopStore
<1>9. CASE PopIsr
  BY <1>9 DEF PopIsr, SlotAt
<1>10. ASSUME NEW c \in Configs, SetConfig(c) PROVE WordOK'
  BY <1>10 DEF SetConfig
<1>11. CASE UNCHANGED vars
  BY <1>11 DEF vars
<1>12. QED
  BY <1>1, <1>2, <1>3, <1>4, <1>5, <1>6, <1>7, <1>8, <1>9, <1>10, <1>11
     DEF Next, Push, PopMain

(* Every variable of the ring keeps its range wherever the interrupt cuts  *)
(* in: out_key_head stays within the slots 0..N even when pop_key races.   *)
THEOREM TypeCorrect == Spec => []TypeOK
<1>1. Init => IndexOK
  BY RingAssumption DEF Init, IndexOK, Points, IndexMod
<1>2. Init => WordOK
  BY DEF Init, WordOK, Words, Verdicts
<1>3. TypeOK /\ [Next]_vars => TypeOK'
  BY IndexStep, WordStep DEF TypeOK
<1>4. QED
  BY <1>1, <1>2, <1>3, PTL DEF Spec, TypeOK

-----------------------------------------------------------------------------
(* What the main loop knows in the middle of a pop that no interrupt       *)
(* shares: the ring is not empty and the register holds the next tail.     *)
PopFacts ==
    /\ pc \in PopPoints => tail # head
    /\ pc = "pop_load"  => tail # N
    /\ pc = "pop_store" => reg = Bump(tail)

IInv == IndexOK /\ RingCountsKeys /\ PopFacts

(* One step of the ring keeps its count, if no interrupt pops inside the   *)
(* main loop's own pop_key.                                                *)
LEMMA CountStep ==
  ASSUME IsrWindow \cap PopPoints = {}
  PROVE  IInv /\ [Next]_vars => IInv'
<1> SUFFICES ASSUME IInv, [Next]_vars
             PROVE  RingCountsKeys' /\ PopFacts'
  BY IndexStep DEF IInv
<1> USE RingAssumption
<1> USE DEF Points, PushPoints, PopPoints, IndexMod
<1> USE DEF IInv, IndexOK, RingCountsKeys, PopFacts, QueueLen, Bump
<1>1. ASSUME NEW k \in Keys, PushTest(k) PROVE RingCountsKeys' /\ PopFacts'
  BY <1>1 DEF PushTest, Full
<1>2. CASE PushSlot
  BY <1>2 DEF PushSlot
<1>3. CASE PushHead
  BY <1>3 DEF PushHead
<1>4. CASE PopTest
  BY <1>4 DEF PopTest
<1>5. CASE PopSlot
  BY <1>5 DEF PopSlot
<1>6. CASE PopWrap
  BY <1>6 DEF PopWrap
<1>7. CASE PopLoad
  BY <1>7 DEF PopLoad
<1>8. CASE PopStore
  <2>1. tail # head /\ tail' = Bump(tail) /\ pc' = "idle"
    BY <1>8 DEF PopStore
  <2>2. CASE tail = N
    BY <1>8, <2>1, <2>2 DEF PopStore
  <2>3. CASE tail # N
    <3>1. tail' = tail + 1
      BY <2>1, <2>3
    <3>2. QED
      BY <1>8, <2>1, <2>3, <3>1 DEF PopStore
  <2>4. QED
    BY <2>2, <2>3
<1>9. CASE PopIsr
  <2>1. pc \notin PopPoints
    BY <1>9 DEF PopIsr
  <2>2. CASE tail = head
    BY <1>9, <2>1, <2>2 DEF PopIsr
  <2>3. CASE tail # head /\ tail = N
    BY <1>9, <2>1, <2>3 DEF PopIsr
  <2>4. CASE tail # head /\ tail # N
    BY <1>9, <2>1, <2>4 DEF PopIsr
  <2>5. QED
    BY <2>2, <2>3, <2>4
<1>10. ASSUME NEW c \in Configs, SetConfig(c) PROVE RingCountsKeys' /\ PopFacts'
  BY <1>10 DEF SetConfig
<1>11. CASE UNCHANGED vars
  BY <1>11 DEF vars
<1>12. QED
  BY <1>1, <1>2, <1>3, <1>4, <1>5, <1>6, <1>7, <1>8, <1>9, <1>10, <1>11
     DEF Next, Push, PopMain

(* If GET_REPORT is never served inside the main loop's pop_key, head and  *)
(* tail account for exactly the presses accepted and not handed out, at    *)
(* every point of push_key and pop_key and for every ring size.            *)
THEOREM CountsCorrect ==
  ASSUME IsrWindow \cap PopPoints = {}
  PROVE  Spec => []RingCountsKeys
<1>1. Init => IInv
  BY RingAssumption
     DEF Init, IInv, IndexOK, RingCountsKeys, PopFacts, QueueLen, Points,
         PushPoints, PopPoints, IndexMod
<1>2. IInv /\ [Next]_vars => IInv'
  BY CountStep
<1>3. IInv => RingCountsKeys
  BY DEF IInv
<1>4. QED
  BY <1>1, <1>2, <1>3, PTL DEF Spec

-----------------------------------------------------------------------------
(* What the main loop's registers and the slot it has filled hold while    *)
(* nothing but push_key writes a slot that holds a press.                  *)
WordFacts ==
    /\ pc \in PushPoints => word \in Keys
    /\ pc = "push_head" => buf[head] = word
    /\ pc \in PopPoints \ {"pop_slot"} => word = buf[tail]

(* They hold through every step that spares a press in slot N and pops     *)
(* nothing inside the main loop's pop_key.                                 *)
LEMMA WordFactsStep ==
  ASSUME IsrWindow \cap PopPoints = {}, ~Clash
  PROVE  IInv /\ WordOK /\ WordFacts /\ [Next]_vars => WordFacts'
<1> SUFFICES ASSUME IInv, WordOK, WordFacts, [Next]_vars
             PROVE  WordFacts'
  OBVIOUS
<1> USE RingAssumption
<1> USE DEF PushPoints, PopPoints, WordFacts
<1>1. ASSUME NEW k \in Keys, PushTest(k) PROVE WordFacts'
  BY <1>1 DEF PushTest
<1>2. CASE PushSlot
  <2>1. head \in 0..N /\ buf \in [0..N -> Words]
    BY DEF IInv, IndexOK, WordOK
  <2>2. QED
    BY <1>2, <2>1 DEF PushSlot
<1>3. CASE PushHead
  BY <1>3 DEF PushHead
<1>4. CASE PopTest
  BY <1>4 DEF PopTest
<1>5. CASE PopSlot
  <2>1. tail \in 0..N
    BY RingAssumption DEF IInv, IndexOK, RingCountsKeys, IndexMod
  <2>2. QED
    BY <1>5, <2>1 DEF PopSlot, SlotAt
<1>6. CASE PopWrap
  BY <1>6 DEF PopWrap
<1>7. CASE PopLoad
  BY <1>7 DEF PopLoad
<1>8. CASE PopStore
  BY <1>8 DEF PopStore
<1>9. CASE PopIsr
  BY <1>9 DEF PopIsr
<1>10. ASSUME NEW c \in Configs, SetConfig(c) PROVE WordFacts'
  <2>1. head \in 0..N /\ tail \in 0..N /\ buf \in [0..N -> Words]
    BY DEF IInv, IndexOK, RingCountsKeys, IndexMod, WordOK
  <2>2. ~LastSlotHeld /\ buf' = [buf EXCEPT ![N] = c]
    BY <1>10 DEF SetConfig
  <2>3. pc = "push_head" => buf'[head] = buf[head]
    BY <2>1, <2>2 DEF LastSlotHeld
  <2>4. pc \in PopPoints => buf'[tail] = buf[tail]
    BY <2>1, <2>2 DEF LastSlotHeld, IInv, PopFacts
  <2>5. QED
    BY <1>10, <2>3, <2>4 DEF SetConfig
<1>11. CASE UNCHANGED vars
  BY <1>11 DEF vars
<1>12. QED
  BY <1>1, <1>2, <1>3, <1>4, <1>5, <1>6, <1>7, <1>8, <1>9, <1>10, <1>11
     DEF Next, Push, PopMain

(* The queued presses are a sequence of words, as long as the indices say. *)
LEMMA QueueIsSeq ==
  ASSUME IInv, WordOK
  PROVE  /\ QueueSeq \in Seq(Words)
         /\ Len(QueueSeq) = QueueLen
         /\ QueueLen \in 0..N
<1>1. QueueLen \in 0..N
  BY RingAssumption DEF IInv, IndexOK, RingCountsKeys, QueueLen, IndexMod
<1>2. \A i \in 1..QueueLen : SlotOf(i) \in 0..N
  BY RingAssumption
     DEF IInv, IndexOK, RingCountsKeys, QueueLen, SlotOf, IndexMod
<1>3. \A i \in 1..QueueLen : buf[SlotOf(i)] \in Words
  BY <1>2 DEF WordOK
<1>4. QED
  BY <1>1, <1>3 DEF QueueSeq

(* Storing the head appends the press the slot was filled with.            *)
LEMMA PushAppends ==
  ASSUME IInv, WordOK, WordFacts, IndexOK', WordOK', PushHead
  PROVE  QueueSeq' = Append(QueueSeq, word)
<1> USE RingAssumption
         DEF IInv, IndexOK, RingCountsKeys, PushPoints, IndexMod
<1>1. QueueLen' = QueueLen + 1
  BY DEF PushHead, QueueLen, Bump
<1>2. SlotOf(QueueLen + 1) = head
  BY DEF QueueLen, SlotOf
<1>3. \A i \in 1..(QueueLen + 1) : SlotOf(i)' = SlotOf(i)
  BY DEF PushHead, SlotOf
<1>4. buf' = buf /\ buf[head] = word
  BY DEF PushHead, WordFacts
<1>5. Len(QueueSeq) = QueueLen /\ QueueLen \in Nat /\ QueueSeq \in Seq(Words)
  BY QueueIsSeq
<1>6. QueueSeq' = [i \in 1..(QueueLen + 1) |-> buf[SlotOf(i)]]
  BY <1>1, <1>3, <1>4 DEF QueueSeq
<1>7. \A i \in 1..QueueLen : QueueSeq[i] = buf[SlotOf(i)]
  BY DEF QueueSeq
<1>8. word \in Words
  BY <1>4 DEF WordOK
<1>9. \A i \in 1..(QueueLen + 1) :
        buf[SlotOf(i)] = IF i <= QueueLen THEN QueueSeq[i] ELSE word
  <2> SUFFICES ASSUME NEW i \in 1..(QueueLen + 1)
               PROVE  buf[SlotOf(i)] = IF i <= QueueLen THEN QueueSeq[i] ELSE word
    OBVIOUS
  <2>1. CASE i <= QueueLen
    BY <1>5, <1>7, <2>1
  <2>2. CASE i = QueueLen + 1
    BY <1>2, <1>4, <1>5, <2>2
  <2>3. QED
    BY <1>5, <2>1, <2>2
<1>10. /\ Append(QueueSeq, word) \in Seq(Words)
       /\ Len(Append(QueueSeq, word)) = QueueLen + 1
       /\ \A i \in 1..(QueueLen + 1) :
            Append(QueueSeq, word)[i] = IF i <= QueueLen THEN QueueSeq[i] ELSE word
  BY <1>5, <1>8, AppendProperties
<1>11. QueueSeq' \in Seq(Words) /\ Len(QueueSeq') = QueueLen + 1
  <2>1. \A i \in 1..(QueueLen + 1) : buf[SlotOf(i)] \in Words
    BY <1>5, <1>8, <1>9, ElementOfSeq
  <2>2. QED
    BY <1>5, <1>6, <2>1
<1>12. \A i \in 1..(QueueLen + 1) : QueueSeq'[i] = Append(QueueSeq, word)[i]
  BY <1>6, <1>9, <1>10
<1>13. QED
  BY <1>10, <1>11, <1>12, SeqEqual

(* Below the last slot the next slot is one further.                       *)
LEMMA NextSlot == \A t \in 0..N : t # N => Bump(t) = t + 1
BY RingAssumption DEF Bump, IndexMod

(* Moving the tail takes away the oldest queued press.                     *)
LEMMA PopTakesHead ==
  ASSUME IInv, WordOK, IndexOK', tail # head, tail' = Bump(tail),
         UNCHANGED <<buf, head>>
  PROVE  /\ QueueSeq # << >>
         /\ Head(QueueSeq) = buf[tail]
         /\ QueueSeq' = Tail(QueueSeq)
<1> USE RingAssumption
         DEF IInv, IndexOK, RingCountsKeys, IndexMod
<1>1. QueueLen \in 1..N /\ QueueLen' = QueueLen - 1
  <2>1. CASE tail = N
    BY <2>1 DEF QueueLen, Bump
  <2>2. CASE tail # N
    <3>1. tail' = tail + 1
      BY <2>2, NextSlot
    <3>2. QED
      BY <2>2, <3>1 DEF QueueLen
  <2>3. QED
    BY <2>1, <2>2
<1>2. SlotOf(1) = tail
  BY DEF SlotOf
<1>3. \A i \in 1..(QueueLen - 1) : SlotOf(i)' = SlotOf(i + 1)
  <2>1. CASE tail = N
    BY <1>1, <2>1 DEF SlotOf, Bump
  <2>2. CASE tail # N
    <3>1. tail' = tail + 1
      BY <2>2, NextSlot
    <3>2. QED
      BY <1>1, <2>2, <3>1 DEF SlotOf
  <2>3. QED
    BY <2>1, <2>2
<1>4. Len(QueueSeq) = QueueLen /\ QueueSeq \in Seq(Words)
  BY QueueIsSeq
<1>5. QueueSeq # << >> /\ Head(QueueSeq) = QueueSeq[1]
  BY <1>1, <1>4
<1>6. \A i \in 1..QueueLen : QueueSeq[i] = buf[SlotOf(i)]
  BY DEF QueueSeq
<1>7. QueueSeq' = [i \in 1..(QueueLen - 1) |-> buf[SlotOf(i + 1)]]
  BY <1>1, <1>3 DEF QueueSeq
<1>8. \A i \in 1..(QueueLen - 1) :
        buf[SlotOf(i + 1)] = QueueSeq[i + 1] /\ QueueSeq[i + 1] \in Words
  BY <1>1, <1>4, <1>6, ElementOfSeq
<1>9. QueueSeq' \in Seq(Words) /\ Len(QueueSeq') = QueueLen - 1
  BY <1>1, <1>7, <1>8
<1>10. /\ Tail(QueueSeq) \in Seq(Words)
       /\ Len(Tail(QueueSeq)) = QueueLen - 1
       /\ \A i \in 1..(QueueLen - 1) : Tail(QueueSeq)[i] = QueueSeq[i + 1]
  BY <1>4, <1>5, HeadTailProperties
<1>11. \A i \in 1..(QueueLen - 1) : QueueSeq'[i] = Tail(QueueSeq)[i]
  BY <1>7, <1>8, <1>10
<1>12. QueueSeq' = Tail(QueueSeq)
  BY <1>9, <1>10, <1>11, SeqEqual
<1>13. QED
  BY <1>1, <1>2, <1>5, <1>6, <1>12

(* While buf, head and tail stand still so does the queue.                 *)
LEMMA QueueStands ==
  ASSUME UNCHANGED <<buf, head, tail>> PROVE QueueSeq' = QueueSeq
BY DEF QueueSeq, QueueLen, SlotOf

(* Filling the free slot under the head does not touch a queued press.     *)
LEMMA SlotIsFree ==
  ASSUME IInv, WordOK, PushSlot PROVE QueueSeq' = QueueSeq
<1> USE RingAssumption DEF IInv, IndexOK, RingCountsKeys, IndexMod
<1>1. QueueLen' = QueueLen /\ QueueLen \in 0..N
  BY DEF PushSlot, QueueLen
<1>2. \A i \in 1..QueueLen : SlotOf(i)' = SlotOf(i) /\ SlotOf(i) \in (0..N) \ {head}
  BY DEF PushSlot, QueueLen, SlotOf
<1>3. \A i \in 1..QueueLen : buf'[SlotOf(i)] = buf[SlotOf(i)]
  BY <1>2 DEF PushSlot, WordOK
<1>4. QED
  BY <1>1, <1>2, <1>3 DEF QueueSeq

(* A configuration word stored while slot N holds no press leaves the      *)
(* queued presses alone.                                                   *)
LEMMA ConfigIsApart ==
  ASSUME IInv, WordOK, ~Clash, NEW c \in Configs, SetConfig(c)
  PROVE  QueueSeq' = QueueSeq
<1> USE RingAssumption DEF IInv, IndexOK, RingCountsKeys, IndexMod
<1>1. QueueLen' = QueueLen /\ QueueLen \in 0..N
  BY DEF SetConfig, QueueLen
<1>2. tail <= head
  BY DEF SetConfig, LastSlotHeld
<1>3. \A i \in 1..QueueLen : SlotOf(i)' = SlotOf(i) /\ SlotOf(i) \in 0..(N - 1)
  BY <1>2 DEF SetConfig, QueueLen, SlotOf
<1>4. \A i \in 1..QueueLen : buf'[SlotOf(i)] = buf[SlotOf(i)]
  BY <1>3 DEF SetConfig, WordOK
<1>5. QED
  BY <1>1, <1>3, <1>4 DEF QueueSeq

(* Every step of the ring is a step of the bounded queue, or none.         *)
LEMMA StepRefines ==
  ASSUME IsrWindow \cap PopPoints = {}, ~Clash,
         IInv, WordOK, WordFacts, IndexOK', WordOK', [Next]_vars
  PROVE  [Fifo!FifoNext]_(Fifo!fifoVars)
<1> USE DEF Fifo!fifoVars, Fifo!FifoNext
<1>0. QueueSeq \in Seq(Words) /\ Len(QueueSeq) = QueueLen
  BY QueueIsSeq
<1>1. ASSUME NEW k \in Keys, PushTest(k) PROVE [Fifo!FifoNext]_(Fifo!fifoVars)
  <2>1. QueueSeq' = QueueSeq
    BY <1>1, QueueStands DEF PushTest
  <2>2. CASE Full(head, tail)
    <3>1. QueueLen = N
      BY <2>2, RingAssumption
         DEF Full, IInv, IndexOK, RingCountsKeys, QueueLen, IndexMod
    <3>2. Fifo!Refuse
      BY <1>0, <1>1, <2>1, <2>2, <3>1 DEF PushTest, Fifo!Refuse
    <3>3. QED
      BY <3>2
  <2>3. CASE ~Full(head, tail)
    BY <1>1, <2>1, <2>3 DEF PushTest
  <2>4. QED
    BY <2>2, <2>3
<1>2. CASE PushSlot
  BY <1>2, SlotIsFree DEF PushSlot
<1>3. CASE PushHead
  <2>1. QueueLen < N /\ word \in Keys
    BY <1>3 DEF PushHead, IInv, RingCountsKeys, WordFacts, PushPoints
  <2>2. QueueSeq' = Append(QueueSeq, word)
    BY <1>3, PushAppends
  <2>3. Fifo!Push(word)
    BY <1>0, <1>3, <2>1, <2>2 DEF PushHead, Fifo!Push
  <2>4. QED
    BY <2>1, <2>3
<1>4. CASE PopTest
  <2>1. QueueSeq' = QueueSeq
    BY <1>4, QueueStands DEF PopTest
  <2>2. CASE tail = head
    <3>1. QueueLen = 0
      BY <2>2, RingAssumption DEF QueueLen, IInv, IndexOK
    <3>2. QueueSeq = << >>
      BY <1>0, <3>1
    <3>3. Fifo!PopEmpty
      BY <1>4, <2>1, <2>2, <3>2 DEF PopTest, Fifo!PopEmpty
    <3>4. QED
      BY <3>3
  <2>3. CASE tail # head
    BY <1>4, <2>1, <2>3 DEF PopTest
  <2>4. QED
    BY <2>2, <2>3
<1>5. CASE PopSlot
  BY <1>5, QueueStands DEF PopSlot
<1>6. CASE PopWrap
  BY <1>6, QueueStands DEF PopWrap
<1>7. CASE PopLoad
  BY <1>7, QueueStands DEF PopLoad
<1>8. CASE PopStore
  <2>1. tail # head /\ tail' = Bump(tail) /\ word = buf[tail]
    BY <1>8 DEF PopStore, IInv, PopFacts, WordFacts, PopPoints
  <2>2. /\ QueueSeq # << >>
        /\ Head(QueueSeq) = word
        /\ QueueSeq' = Tail(QueueSeq)
    BY <1>8, <2>1, PopTakesHead DEF PopStore
  <2>3. Fifo!Pop
    BY <1>8, <2>2 DEF PopStore, Fifo!Pop
  <2>4. QED
    BY <2>3
<1>9. CASE PopIsr
  <2>1. CASE tail = head
    <3>1. QueueLen = 0
      BY <2>1, RingAssumption DEF QueueLen, IInv, IndexOK
    <3>2. QueueSeq = << >> /\ QueueSeq' = QueueSeq
      BY <1>0, <1>9, <2>1, <3>1, QueueStands DEF PopIsr
    <3>3. Fifo!PopEmpty
      BY <1>9, <2>1, <3>2 DEF PopIsr, Fifo!PopEmpty
    <3>4. QED
      BY <3>3
  <2>2. CASE tail # head
    <3>1. popped' = buf[tail]
      BY <1>9, <2>2, RingAssumption
         DEF PopIsr, SlotAt, IInv, IndexOK, RingCountsKeys, IndexMod
    <3>2. /\ QueueSeq # << >>
          /\ Head(QueueSeq) = buf[tail]
          /\ QueueSeq' = Tail(QueueSeq)
      BY <1>9, <2>2, PopTakesHead DEF PopIsr
    <3>3. Fifo!Pop
      BY <1>9, <3>1, <3>2 DEF PopIsr, Fifo!Pop
    <3>4. QED
      BY <3>3
  <2>3. QED
    BY <2>1, <2>2
<1>10. ASSUME NEW c \in Configs, SetConfig(c) PROVE [Fifo!FifoNext]_(Fifo!fifoVars)
  BY <1>10, ConfigIsApart DEF SetConfig
<1>11. CASE UNCHANGED vars
  BY <1>11, QueueStands DEF vars
<1>12. QED
  BY <1>1, <1>2, <1>3, <1>4, <1>5, <1>6, <1>7, <1>8, <1>9, <1>10, <1>11
     DEF Next, Push, PopMain

(* With one consumer at a time, and slot N written by others only while it *)
(* holds no press, push_key and pop_key over N+1 slots are a first-in      *)
(* first-out queue of N presses, for every N: nothing accepted is lost,    *)
(* repeated, altered or reordered.                                         *)
THEOREM RingImplementsFifo ==
  ASSUME IsrWindow \cap PopPoints = {}, ~Clash
  PROVE  Spec => ImplementsFifo
<1>1. Init => IInv /\ WordOK /\ WordFacts
  BY RingAssumption
     DEF Init, IInv, IndexOK, RingCountsKeys, PopFacts, QueueLen, Points,
         PushPoints, PopPoints, IndexMod, WordOK, Words, Verdicts, WordFacts
<1>2. Init => Fifo!FifoInit
  BY RingAssumption DEF Init, Fifo!FifoInit, QueueSeq, QueueLen
<1>3. IInv /\ WordOK /\ WordFacts /\ [Next]_vars => (IInv /\ WordOK /\ WordFacts)'
  BY CountStep, WordStep, WordFactsStep DEF IInv
<1>4. /\ IInv /\ WordOK /\ WordFacts
      /\ (IInv /\ WordOK /\ WordFacts)'
      /\ [Next]_vars
      => [Fifo!FifoNext]_(Fifo!fifoVars)
  BY StepRefines DEF IInv
<1>5. QED
  BY <1>1, <1>2, <1>3, <1>4, PTL DEF Spec, ImplementsFifo, Fifo!FifoSpec
=============================================================================
