----------------------------- MODULE MCWorkPool -----------------------------
(* The firmware's one pulse job with short pulses of one to four           *)
(* half-cycles and the endless pulse (7 stands for 0xff).                  *)
EXTENDS WorkPool

CONSTANT pulse

MCJobs == {pulse}
MCCycles == {1, 2, 3, 4, 7}
=============================================================================
