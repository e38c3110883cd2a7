----------------------------- MODULE MCAccounts -----------------------------
(***************************************************************************)
(* Instance of Accounts for TLC: two tenants and two addresses, one of     *)
(* them blocked, so that one address exists in both tenants.  No symmetry, *)
(* as the run checks a liveness property.                                  *)
(***************************************************************************)
EXTENDS Accounts, TLC

CONSTANTS acme, demo, alice, spam, t1, t2

DemoKey == <<demo, alice>>
=============================================================================
