----------------------------- MODULE MCConsole -----------------------------
(* Registers and values of two bits, one port; two key sequences, whose    *)
(* actions are one without fields and one with three: the hold times, in   *)
(* the halves of a byte and with greatest values beyond them, and the hold *)
(* action, whose shift is as wide as its byte.                             *)
EXTENDS Console

MCHex == ("0" :> 0) @@ ("b" :> 1)
MCKeyOf == ("1" :> 0) @@ ("a" :> 1)
MCNoFields == <<[place |-> "action", mask |-> {}, shift |-> 0, least |-> 0, most |-> 0]>>
MCKeyFields ==
    <<[place |-> "hold_time", mask |-> {1}, shift |-> 1, least |-> 0, most |-> 3],
      [place |-> "hold_time", mask |-> {0}, shift |-> 0, least |-> 0, most |-> 3],
      [place |-> "hold_action", mask |-> {0, 1}, shift |-> 2, least |-> 0, most |-> 2]>>
MCFieldsOf == <<MCNoFields, MCKeyFields>>
MCPlaces == {"hold_time", "hold_action"}
MCSeqMap == [s \in 0..1 |-> [action |-> 1, bytes |-> [hold_time |-> {}, hold_action |-> {}]]]
MCDigit == "1" :> 1
MCChars == Commands \union PortLetters \union DOMAIN MCHex
             \union DOMAIN MCKeyOf \union DOMAIN MCDigit
             \union {"e", "g", "k", "w", "l", "p", "f", " ", "j", "r", "q", "x", "\n"}
=============================================================================
