------------------------------- MODULE Amount -------------------------------
(* amount.go: token amounts are unbounded integers (math/big).                *)
EXTENDS Integers

(* MulRat: multiplication by the rational num/den (den > 0, as big.Rat keeps  *)
(* it), rounded by big.Int.Div: towards minus infinity for a positive divisor.*)
MulRat(amount, num, den) == (amount * num) \div den
=============================================================================
