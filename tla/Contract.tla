------------------------------ MODULE Contract ------------------------------
(* The kiesnet-contract chaincode, which is not part of the repository, as    *)
(* contract_tx.go and the ccpkg client use it.  It stores the document it is  *)
(* given and calls contract/execute back in the transaction of the last       *)
(* signer's approval, or contract/cancel in that of a disapproval.  A call    *)
(* that fails fails the whole transaction and leaves the contract open, so    *)
(* each contract is closed by at most one successful callback.  Nothing in    *)
(* the repository bounds when a callback may come, so the model does not      *)
(* either: also after the expiry time.                                        *)
EXTENDS FiniteSets, Integers

CONSTANTS MaxSigners   \* 128 in the code, checked by the handlers

ASSUME SignersAssumption == MaxSigners \in Nat

VARIABLES contracts

OpenContract(c) == c \in contracts /\ c.status = "open"

(* The new contract is known by the id of the transaction that creates it.    *)
CreateContract(id, type, doc, expiry, signers) ==
  /\ Cardinality(signers) >= 2
  /\ contracts' = contracts \cup
       {[id |-> id, type |-> type, doc |-> doc, expiry |-> expiry, status |-> "open"]}

CloseContract(c, status) ==
  contracts' = (contracts \ {c}) \cup {[c EXCEPT !.status = status]}
=============================================================================
