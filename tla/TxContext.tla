----------------------------- MODULE TxContext -----------------------------
(* What a chaincode handler knows about the transaction it runs in.  The      *)
(* client picks the transaction timestamp; txtime.GetTime refuses one that is *)
(* more than five minutes (Skew) away from the clock of the endorsing peer.   *)
(* Fabric commits a transaction up to Latency after its endorsement and only  *)
(* if no key it read has changed since, so a handler that reads keys and      *)
(* nothing else is one atomic step at its commit, under a timestamp that may  *)
(* lie Skew + Latency in the past or Skew in the future of that step.         *)
EXTENDS Integers

CONSTANTS
  Skew,      \* tolerated distance of a timestamp from the peer's clock
  Latency,   \* longest time between endorsement and commit
  MaxTime,   \* bound of the model: the clock stops here
  MaxTx      \* bound of the model: transaction ids that may be consumed

ASSUME ContextAssumption ==
  Skew \in Nat /\ Latency \in Nat /\ MaxTime \in Nat /\ MaxTx \in Nat

VARIABLES
  now,       \* the time, as the peers' clocks show it
  nextTx     \* the id of the next transaction that stores something under its id

txVars == <<now, nextTx>>

StartTime == Skew + Latency + 1
TxID == 1..MaxTx

TxInit == now = StartTime /\ nextTx = 1

(* The timestamps GetTime accepts, seen from the step that commits.           *)
Timestamps == (now - Skew - Latency)..(now + Skew)

(* GetTxID: the current transaction uses its id in a key.                     *)
UseTxID == nextTx \in TxID /\ nextTx' = nextTx + 1

Tick == now < MaxTime /\ now' = now + 1
=============================================================================
