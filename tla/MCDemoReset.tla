----------------------------- MODULE MCDemoReset -----------------------------
(* Two resets and the extraction of an e-invoice, whose number is one of the *)
(* seeding or its own.                                                      *)
EXTENDS DemoReset, TLC

CONSTANTS b1, b2, e1, f1, own

MCFileOf == e1 :> f1
=============================================================================
