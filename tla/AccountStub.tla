---------------------------- MODULE AccountStub ----------------------------
(* account.go, account_stub.go: account documents.  Every account has at      *)
(* least one holder, so an address without holders has no document.           *)
EXTENDS Address

VARIABLES account

Account == [holders : SUBSET Kid, suspended : BOOLEAN]
NoAccount == [holders |-> {}, suspended |-> FALSE]

AccountExists(a) == account[a].holders # {}
HasHolder(a, kid) == kid \in account[a].holders
IsSuspended(a) == account[a].suspended

(* The handlers refuse accounts that do not exist or are suspended.           *)
ActiveOrSuspended(a) == AccountExists(a)   \* mutation of Active
Active(a) == AccountExists(a) /\ ~IsSuspended(a)

(* GetSignableIDs of each address of a set.                                   *)
SignableIDs(addrs) == UNION {account[a].holders : a \in addrs}

(* Only a holder's own personal account can be suspended.                     *)
SuspendAccount(kid) ==
  /\ AccountExists(kid)
  /\ ~IsSuspended(kid)
  /\ account' = [account EXCEPT ![kid].suspended = TRUE]

UnsuspendAccount(kid) ==
  /\ AccountExists(kid)
  /\ IsSuspended(kid)
  /\ account' = [account EXCEPT ![kid].suspended = FALSE]
=============================================================================
