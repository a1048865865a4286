----------------------------- MODULE MCKeyRing -----------------------------
(* Small instances of the key ring: a ring of N+1 slots with N = 3, two    *)
(* different key presses, and the places where an interrupt may pop.       *)
EXTENDS KeyRing

CONSTANTS k1, k2, cfg1

MCKeys == {k1, k2}
MCConfigs == {NoKey, cfg1}

(* GET_REPORT is served anywhere but inside the main loop's own pop_key. *)
OutsidePop == {"idle"} \union PushPoints

(* GET_REPORT is served wherever the main loop is. *)
Anywhere == Points
=============================================================================
