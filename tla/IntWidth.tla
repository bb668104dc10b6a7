------------------------------ MODULE IntWidth ------------------------------
(***************************************************************************)
(* What becomes of a number that is stored in an int.                      *)
(***************************************************************************)
EXTENDS Integers

CONSTANT Modulus  \* 2^32, the number of values of an int

ASSUME ModulusIsEven == Modulus \in Nat /\ Modulus > 0 /\ Modulus % 2 = 0

ToInt(v) == LET m == v % Modulus
            IN IF m >= Modulus \div 2 THEN m - Modulus ELSE m
=============================================================================
