--------------------------- MODULE IdealTransfer ---------------------------
(* What transfers promise, with no pending balances, contracts or clocks.     *)
(* An account has a wealth.  A transfer moves part of it in one step and pays *)
(* a fee out of it, at once or after having been promised.  A promise is kept *)
(* at most once, at exactly the amount and fee it was made for, or dropped    *)
(* without a trace; all promises of an account are covered by its wealth.     *)
EXTENDS Integers, FiniteSets, FiniteSetsExt

CONSTANTS Owner, InitialWealth

VARIABLES
  wealth,     \* by account
  promises,   \* the promises still to be kept or dropped
  collected   \* fees paid

idealVars == <<wealth, promises, collected>>

PromisesOf(a) == {p \in promises : p.from = a}
Promised(a) == SumFunction([p \in PromisesOf(a) |-> p.amount + p.fee])
Free(a) == wealth[a] - Promised(a)

IdealInit ==
  /\ wealth \in InitialWealth
  /\ promises = {}
  /\ collected = 0

Move(from, to, amount, fee) ==
  /\ from # to
  /\ wealth' = [wealth EXCEPT ![from] = @ - amount - fee, ![to] = @ + amount]
  /\ collected' = collected + fee

(* A transfer made at once.                                                   *)
Give ==
  \E from, to \in Owner :
    \E amount \in 1..Free(from) : \E fee \in 0..(Free(from) - amount) :
      Move(from, to, amount, fee) /\ UNCHANGED promises

Promise ==
  /\ UNCHANGED <<wealth, collected>>
  /\ promises \subseteq promises'
  /\ \E p \in promises' \ promises :
       /\ promises' = promises \cup {p}
       /\ \A q \in promises : q.id # p.id
       /\ p.from # p.to
       /\ p.amount > 0 /\ p.fee >= 0
       /\ p.amount + p.fee <= Free(p.from)

Keep(p) == Move(p.from, p.to, p.amount, p.fee) /\ promises' = promises \ {p}

Drop(p) == promises' = promises \ {p} /\ UNCHANGED <<wealth, collected>>

IdealNext == Give \/ Promise \/ \E p \in promises : Keep(p) \/ Drop(p)

IdealSpec == IdealInit /\ [][IdealNext]_idealVars
=============================================================================
