------------------------------ MODULE MCKeypad ------------------------------
(* Small keypads: two columns of one or two rows, with the kinds of keys   *)
(* of the built-in key map.                                                *)
EXTENDS Keypad, TLC

TwoFingers == {s \in SUBSET Matrix : Cardinality(s) <= 2}

NoPress == <<NoKey, NoKey>>
Arrow == <<"alt_arrow", "arrow">>

MCActionOf == [left |-> "mouse_left", right |-> "mouse_right", lclick |-> "click_left",
               toggle |-> "toggle", speed |-> "step", zoom |-> "scancode",
               route |-> "scancode", power |-> "pulse", show |-> "report"]
MCKeyPress == [left |-> Arrow, right |-> Arrow, lclick |-> NoPress, toggle |-> NoPress,
               speed |-> NoPress, zoom |-> <<"zoom", NoKey>>,
               route |-> <<"route", "route2">>, power |-> NoPress, show |-> NoPress]
NoHolds == [s \in DOMAIN MCActionOf |-> NoHold]
Hold == [min |-> 3, max |-> 4, to |-> "speed"]
ZoomHold == [NoHolds EXCEPT !.zoom = Hold]

(* two rows, two columns: an arrow key, a mouse button, the key that       *)
(* changes the mode, and the zoom key, which changes the step when held    *)
PadMap == (<<0, 0>> :> "left") @@ (<<0, 1>> :> "lclick") @@
          (<<1, 0>> :> "toggle") @@ (<<1, 1>> :> "zoom")
SerialArrows == {0, 1}
OneStep == {1}
Smaller == {<<1, 2>>, <<2, 1>>, <<2, 2>>}
=============================================================================
