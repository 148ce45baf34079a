----------------------------- MODULE IdealWrap -----------------------------
(* What wraps promise, with no pending balances, contracts, clocks or bridge  *)
(* accounts.  An amount that goes to the external chain is away until it is   *)
(* settled, once, to some account and less a fee that never eats all of it.   *)
(* An external transaction brings money back at most once, out of the wealth  *)
(* of whoever pays for it.                                                    *)
EXTENDS Integers

CONSTANTS Owner, InitialWealth

VARIABLES
  wealth,     \* by account
  away,       \* the amounts sent out and not yet settled
  returned,   \* external transactions already answered
  collected   \* fees paid

idealVars == <<wealth, away, returned, collected>>

IdealInit ==
  /\ wealth \in InitialWealth
  /\ away = {}
  /\ returned = {}
  /\ collected = 0

Send ==
  /\ UNCHANGED <<returned, collected>>
  /\ \E w \in away' \ away :
       /\ away' = away \cup {w}
       /\ \A v \in away : v.id # w.id
       /\ w.amount \in 1..wealth[w.from]
       /\ wealth' = [wealth EXCEPT ![w.from] = @ - w.amount]

Settle(w) ==
  /\ away' = away \ {w}
  /\ UNCHANGED returned
  /\ \E a \in Owner, fee \in 0..(w.amount - 1) :
       /\ wealth' = [wealth EXCEPT ![a] = @ + w.amount - fee]
       /\ collected' = collected + fee

(* An answer that moves nothing is the one to an impossible request.          *)
Return ==
  /\ UNCHANGED <<away, collected>>
  /\ \E x \in returned' \ returned : returned' = returned \cup {x}
  /\ \/ UNCHANGED wealth
     \/ \E from, to \in Owner : \E amount \in 1..wealth[from] :
          /\ from # to
          /\ wealth' = [wealth EXCEPT ![from] = @ - amount, ![to] = @ + amount]

IdealNext == Send \/ Return \/ \E w \in away : Settle(w)

IdealSpec == IdealInit /\ [][IdealNext]_idealVars
=============================================================================
