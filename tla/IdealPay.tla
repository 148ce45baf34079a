------------------------------ MODULE IdealPay ------------------------------
(* What pays promise, with no deposits, contracts, prunes or clocks.  A sale  *)
(* moves its amount from buyer to seller and a fee from the seller to the     *)
(* collector, in one step.  What is returned of a sale stays within what is   *)
(* left of it, and its share of the fee within what is left of the fee: never *)
(* more than its proportion, and all of it with the whole amount at once.     *)
EXTENDS Integers

CONSTANTS Owner, InitialWealth

VARIABLES
  wealth,     \* by account; what a seller is owed counts, its fees deducted
  sales,      \* all sales, with what is left of amount and fee
  collected   \* fees paid

idealVars == <<wealth, sales, collected>>

IdealInit ==
  /\ wealth \in InitialWealth
  /\ sales = {}
  /\ collected = 0

Move(sale, amount, fee) ==
  /\ wealth' = [wealth EXCEPT ![sale.buyer] = @ - amount, ![sale.seller] = @ + amount - fee]
  /\ collected' = collected + fee

Sell ==
  \E s \in sales' \ sales :
    /\ sales' = sales \cup {s}
    /\ \A r \in sales : r.id # s.id
    /\ s.buyer # s.seller
    /\ s.amount > 0 /\ s.fee >= 0
    /\ s.left = s.amount /\ s.feeLeft = s.fee
    /\ Move(s, s.amount, s.fee)

GiveBack(s) ==
  \E amount \in 1..s.left, fee \in 0..s.feeLeft :
    /\ fee * s.amount <= amount * s.fee
    /\ amount = s.amount => fee = s.fee
    /\ sales' = (sales \ {s}) \cup {[s EXCEPT !.left = @ - amount, !.feeLeft = @ - fee]}
    /\ Move(s, -amount, -fee)

IdealNext == Sell \/ \E s \in sales : GiveBack(s)

IdealSpec == IdealInit /\ [][IdealNext]_idealVars
=============================================================================
