---------------------------- MODULE MCHidReport ----------------------------
(* Two keys, one of them with the same bytes as a mouse moving down, and a *)
(* mouse that rests, moves down or holds both buttons.                     *)
EXTENDS HidReport

MCKeys == {<<0, 2>>, <<4, 2>>}
MCMoves == {{}, {"down"}, {"lclick", "rclick"}}
=============================================================================
