------------------------------ MODULE MCTicks ------------------------------
(* A counter of three bytes of one bit each, advanced by one: the          *)
(* carries and the wrap come all the time.                                 *)
EXTENDS Ticks

MCHoldOf == [pad |-> 1, job |-> 2]
=============================================================================
