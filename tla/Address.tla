------------------------------ MODULE Address ------------------------------
(* Account addresses of one token.  The address of a personal account (PAOT)  *)
(* is a function of the token code and its holder's kid, so the model uses    *)
(* the kid itself as that address; joint accounts have addresses of their own.*)
(* Both are made of a hash of 20 bytes: there are finitely many.              *)
EXTENDS FiniteSets

CONSTANTS Kid, Joint, NoAddr

ASSUME AddressAssumption ==
  /\ Kid \cap Joint = {} /\ NoAddr \notin Kid \cup Joint
  /\ IsFiniteSet(Kid) /\ IsFiniteSet(Joint)

Addr == Kid \cup Joint
=============================================================================
