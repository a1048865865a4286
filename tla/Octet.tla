------------------------------- MODULE Octet -------------------------------
(* An 8-bit register as the set of the numbers of its one bits, scaled     *)
(* down to Width bits.  A store keeps the low Width bits of a number.      *)
EXTENDS Naturals

CONSTANT Width

ASSUME WidthAssumption == Width \in Nat \ {0}

Octets == SUBSET (0..Width - 1)

Bits(n) == {i \in 0..Width - 1 : (n \div 2^i) % 2 = 1}

Number(S) == CHOOSE n \in 0..2^Width - 1 : Bits(n) = S

(* 1 << n, stored. *)
Bit(n) == {n} \intersect (0..Width - 1)
=============================================================================
