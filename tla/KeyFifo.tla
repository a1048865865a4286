------------------------------ MODULE KeyFifo ------------------------------
(***************************************************************************)
(* What the key buffer of VirtualSerialMouse.c promises to its two sides:  *)
(* a bounded first-in first-out queue of key presses.  A press that finds  *)
(* the queue full is pushed, a pop that finds it empty returns no key.    *)
(***************************************************************************)
EXTENDS Naturals, Sequences

CONSTANTS
    Keys,       \* the nonzero keypairs that can be pressed
    NoKey,      \* the keypair 0, which pop_key returns for "nothing queued"
    Capacity    \* how many presses the queue holds

VARIABLES
    queue,      \* the presses accepted and not yet handed out, oldest first
    popped,     \* what the last pop returned
    pushed      \* what became of the last push

fifoVars == <<queue, popped, pushed>>

FifoInit == queue = << >> /\ popped = NoKey /\ pushed = "nothing"

Push(k) ==
    /\ Len(queue) < Capacity
    /\ queue' = Append(queue, k)
    /\ pushed' = "accepted"
    /\ UNCHANGED popped

Refuse ==
    /\ Len(queue) = Capacity
    /\ pushed' = "refused"
    /\ UNCHANGED <<queue, popped>>

Pop ==
    /\ queue # << >>
    /\ popped' = Head(queue)
    /\ queue' = Tail(queue)
    /\ UNCHANGED pushed

PopEmpty ==
    /\ queue = << >>
    /\ popped' = NoKey
    /\ UNCHANGED <<queue, pushed>>

FifoNext == (\E k \in Keys : Push(k)) \/ Refuse \/ Pop \/ PopEmpty

FifoSpec == FifoInit /\ [][FifoNext]_fifoVars
=============================================================================
