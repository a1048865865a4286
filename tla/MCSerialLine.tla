---------------------------- MODULE MCSerialLine ----------------------------
(* A ring of three bytes, which the two commands sent ahead just fit while *)
(* the menu has the first byte; a reply that fills more than a bank; three *)
(* waits that time out exceed the watchdog's time and two do not, as       *)
(* 100 ms and 250 ms.                                                      *)
EXTENDS SerialLine
=============================================================================
