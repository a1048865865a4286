----------------------------- MODULE MCNavputter -----------------------------
(* A pad of two keys: an arrow, which moves the mouse or types, and a key  *)
(* that types two keypairs, into a queue of one.                           *)
EXTENDS Navputter, TLC

MCNoKey == <<0, 0>>
MCActionOf == [down |-> "mouse_down", route |-> "scancode"]
MCKeyPress == [down |-> <<<<0, 2>>, MCNoKey>>, route |-> <<<<4, 2>>, <<0, 3>>>>]
MCHoldOf == [s \in {"down", "route"} |-> NoHold]
PadMap == (<<0, 0>> :> "down") @@ (<<0, 1>> :> "route")
Hands == {{}, {<<0, 0>>}, {<<0, 0>>, <<0, 1>>}}
Modes == {0, 1}
=============================================================================
