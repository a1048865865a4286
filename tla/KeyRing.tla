------------------------------ MODULE KeyRing ------------------------------
(***************************************************************************)
(* The key buffer of VirtualSerialMouse.c, at the granularity at which an  *)
(* interrupt can cut into it.                                              *)
(*                                                                         *)
(* The main loop runs push_key (a key was pressed) and pop_key (the HID    *)
(* task builds a report).  The control-endpoint interrupt runs pop_key too *)
(* when the host asks for a report with GET_REPORT, and it writes the USB  *)
(* configuration number when the host selects a configuration or resets    *)
(* the bus.  An interrupt handler runs to completion, so what it does is   *)
(* one step; the main loop's two functions are split at every point where  *)
(* an interrupt makes a difference: between two accesses of the volatile   *)
(* indices or of the buffer, in the order the compiler emitted them        *)
(* (navputter.lss, pop_key and push_key).                                  *)
(*                                                                         *)
(* The indices run over 0..N, N+1 slots, while the array is declared with  *)
(* N elements: slot N is the word behind it, which the linker gave to      *)
(* USB_Device_ConfigurationNumber (navputter.sym: out_key_buffer ends at   *)
(* 0x965, where the configuration number lives).                           *)
(***************************************************************************)
EXTENDS Integers, Sequences

CONSTANTS
    Keys,       \* the nonzero keypairs the keyboard can push
    NoKey,      \* the keypair 0: "no key", and what the zeroed memory holds
    Junk,       \* whatever lies in memory behind slot N
    N,          \* MAX_KEY_BUFFER_SZ
    Configs,    \* configuration words an interrupt may write over slot N
    IsrWindow,  \* the points of the main loop where GET_REPORT may be served
    Clash       \* whether slot N may be written over while it holds a press

IndexMod == 256     \* out_key_head and out_key_tail are uint8_t

PushPoints == {"push_slot", "push_head"}
PopPoints  == {"pop_slot", "pop_wrap", "pop_load", "pop_store"}
Points     == {"idle"} \union PushPoints \union PopPoints

ASSUME RingAssumption ==
    /\ N \in Nat \ {0}
    /\ N < IndexMod - 1
    /\ NoKey \notin Keys
    /\ Junk \notin Keys
    /\ IsrWindow \subseteq Points
    /\ Clash \in BOOLEAN

VARIABLES
    buf,        \* out_key_buffer with the word behind it, 0..N
    head,       \* out_key_head
    tail,       \* out_key_tail
    pc,         \* where the main loop is inside push_key or pop_key
    word,       \* its copy of the keypair being pushed or popped
    reg,        \* the register that will be stored into out_key_tail
    popped,     \* the keypair the last pop_key returned
    pushed,     \* history: what the last push_key did with its press
    owed,       \* history: presses accepted less presses handed out
    hostCfg     \* history: the configuration the host last selected

mainVars == <<pc, word, reg>>
vars == <<buf, head, tail, pc, word, reg, popped, pushed, owed, hostCfg>>

Verdicts == {"nothing", "accepted", "refused"}
Words == Keys \union Configs \union {NoKey, Junk}

Init ==
    /\ buf = [i \in 0..N |-> NoKey]
    /\ head = 0
    /\ tail = 0
    /\ pc = "idle"
    /\ word = NoKey
    /\ reg = 0
    /\ popped = NoKey
    /\ pushed = "nothing"
    /\ owed = 0
    /\ hostCfg = NoKey

(* The keypair at an index; an index past N reads memory that is not ours. *)
SlotAt(i) == IF i \in 0..N THEN buf[i] ELSE Junk

(* Mutant: the test of the last index for a full ring is missing. *)
FullNoWrap(h, t) == h + 1 = t

(* push_key's two tests for a full ring. *)
Full(h, t) == IF h = N THEN t = 0 ELSE h + 1 = t

(* Mutant: the index wraps one slot too late. *)
BumpLate(t) == IF t > N THEN 0 ELSE (t + 1) % IndexMod

(* The tail after one more pop; only the index N wraps to 0. *)
Bump(t) == IF t = N THEN 0 ELSE (t + 1) % IndexMod

----------------------------------------------------------------------------
(* push_key, main loop *)

PushTest(k) ==
    /\ pc = "idle"
    /\ \/ Full(head, tail) /\ pushed' = "refused" /\ UNCHANGED <<pc, word>>
       \/ ~Full(head, tail) /\ pc' = "push_slot" /\ word' = k /\ UNCHANGED pushed
    /\ UNCHANGED <<buf, head, tail, reg, popped, owed, hostCfg>>

PushSlot ==
    /\ pc = "push_slot"
    /\ buf' = [buf EXCEPT ![head] = word]
    /\ pc' = "push_head"
    /\ UNCHANGED <<head, tail, word, reg, popped, pushed, owed, hostCfg>>

PushHead ==
    /\ pc = "push_head"
    /\ head' = Bump(head)
    /\ owed' = owed + 1
    /\ pushed' = "accepted"
    /\ pc' = "idle"
    /\ UNCHANGED <<buf, tail, word, reg, popped, hostCfg>>

----------------------------------------------------------------------------
(* pop_key, main loop *)

PopTest ==
    /\ pc = "idle"
    /\ \/ tail = head /\ popped' = NoKey /\ UNCHANGED pc
       \/ tail # head /\ pc' = "pop_slot" /\ UNCHANGED popped
    /\ UNCHANGED <<buf, head, tail, word, reg, pushed, owed, hostCfg>>

(* Mutant: the index is moved on before the slot is read. *)
PopSlotLate ==
    /\ pc = "pop_slot"
    /\ word' = SlotAt(Bump(tail))
    /\ pc' = "pop_wrap"
    /\ UNCHANGED <<buf, head, tail, reg, popped, pushed, owed, hostCfg>>

PopSlot ==
    /\ pc = "pop_slot"
    /\ word' = SlotAt(tail)
    /\ pc' = "pop_wrap"
    /\ UNCHANGED <<buf, head, tail, reg, popped, pushed, owed, hostCfg>>

(* out_key_tail is read for the comparison with MAX_KEY_BUFFER_SZ ... *)
PopWrap ==
    /\ pc = "pop_wrap"
    /\ \/ tail = N /\ reg' = 0 /\ pc' = "pop_store"
       \/ tail # N /\ pc' = "pop_load" /\ UNCHANGED reg
    /\ UNCHANGED <<buf, head, tail, word, popped, pushed, owed, hostCfg>>

(* ... and once more for the increment. *)
PopLoad ==
    /\ pc = "pop_load"
    /\ reg' = (tail + 1) % IndexMod
    /\ pc' = "pop_store"
    /\ UNCHANGED <<buf, head, tail, word, popped, pushed, owed, hostCfg>>

PopStore ==
    /\ pc = "pop_store"
    /\ tail' = reg
    /\ popped' = word
    /\ owed' = owed - 1
    /\ pc' = "idle"
    /\ UNCHANGED <<buf, head, word, reg, pushed, hostCfg>>

----------------------------------------------------------------------------
(* The control-endpoint interrupt *)

(* GET_REPORT calls the same callback, and pop_key runs to its end. *)
PopIsr ==
    /\ pc \in IsrWindow
    /\ \/ tail = head /\ popped' = NoKey /\ UNCHANGED <<tail, owed>>
       \/ /\ tail # head
          /\ popped' = SlotAt(tail)
          /\ tail' = Bump(tail)
          /\ owed' = owed - 1
    /\ UNCHANGED <<buf, head, pc, word, reg, pushed, hostCfg>>

(* Slot N holds a press: one that is queued, or the one about to be.       *)
LastSlotHeld == head < tail \/ (pc = "push_head" /\ head = N)

(* SET_CONFIGURATION and bus reset store USB_Device_ConfigurationNumber.   *)
(* Without Clash the host does so only while slot N holds no press, as     *)
(* when it enumerates the device before a key is used.                     *)
SetConfig(c) ==
    /\ Clash \/ ~LastSlotHeld
    /\ buf' = [buf EXCEPT ![N] = c]
    /\ hostCfg' = c
    /\ UNCHANGED <<head, tail, pc, word, reg, popped, pushed, owed>>

Push == (\E k \in Keys : PushTest(k)) \/ PushSlot \/ PushHead
PopMain == PopTest \/ PopSlot \/ PopWrap \/ PopLoad \/ PopStore
Next == Push \/ PopMain \/ PopIsr \/ (\E c \in Configs : SetConfig(c))

Spec == Init /\ [][Next]_vars

----------------------------------------------------------------------------
IndexOK ==
    /\ head \in 0..N
    /\ tail \in 0..(IndexMod - 1)
    /\ reg \in 0..(IndexMod - 1)
    /\ owed \in Int
    /\ pc \in Points

WordOK ==
    /\ buf \in [0..N -> Words]
    /\ {word, popped, hostCfg} \subseteq Words
    /\ pushed \in Verdicts

TypeOK == IndexOK /\ WordOK

(* The number of keys head and tail say are queued. *)
QueueLen == IF tail <= head THEN head - tail ELSE head + N + 1 - tail

(* The slot of the i-th oldest queued key. *)
SlotOf(i) == IF tail + i - 1 <= N THEN tail + i - 1 ELSE tail + i - 2 - N

QueueSeq == [i \in 1..QueueLen |-> buf[SlotOf(i)]]

(* The indices always account for exactly the presses that were accepted   *)
(* and not handed out, so a full ring is never taken for an empty one nor  *)
(* the other way round, whichever side last moved: between push_key's test *)
(* of the tail and its store of the head an interrupt may have popped, and *)
(* the slot it is about to fill must still be free (push_key, pop_key).    *)
RingCountsKeys ==
    /\ tail <= N
    /\ owed = QueueLen
    /\ pc \in PushPoints => owed < N

(* The ring is the bounded queue of KeyFifo: every press accepted is       *)
(* handed out once, in order, unchanged, and a press is refused only when  *)
(* N are waiting (push_key, pop_key and the slots between the indices).    *)
Fifo == INSTANCE KeyFifo WITH queue <- QueueSeq, Capacity <- N
ImplementsFifo == Fifo!FifoSpec

(* pop_key "Returns 0 if no more keys queued": it never hands out more     *)
(* presses than push_key accepted.                                         *)
NoGhostKeys == owed >= 0

(* out_key_buffer is declared with MAX_KEY_BUFFER_SZ elements for the "key *)
(* presses going out the USB": keeping presses there leaves the word next  *)
(* to it alone, so the configuration number the USB stack keeps in that    *)
(* word is always the one the host selected last.                          *)
ConfigIntact == buf[N] = hostCfg
=============================================================================
