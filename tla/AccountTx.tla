----------------------------- MODULE AccountTx -----------------------------
(* account_tx.go: suspending and unsuspending one's own personal account.     *)
EXTENDS AccountStub

accountSuspend(kid) == SuspendAccount(kid)
accountUnsuspend(kid) == UnsuspendAccount(kid)
=============================================================================
