------------------------------ MODULE Rounding ------------------------------
(* Python's round, of fractions of whole numbers.                          *)
EXTENDS Integers

\* round() of a / b, for b > 0: to the nearest, halves to the even.
RoundDiv(a, b) ==
  LET q == a \div b
      r == a % b IN
  IF 2 * r < b \/ (2 * r = b /\ q % 2 = 0) THEN q ELSE q + 1
=============================================================================
