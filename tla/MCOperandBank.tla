----------------------------- MODULE MCOperandBank -----------------------------
(* OperandBank with one-bit cells; the comparison is neither commutative nor *)
(* independent of an operand, so a misread of either shows.                  *)
EXTENDS OperandBank

LessThan(l, r) == IF l < r THEN 1 ELSE 0
=============================================================================
