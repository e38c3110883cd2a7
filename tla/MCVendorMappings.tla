-------------------------- MODULE MCVendorMappings --------------------------
(***************************************************************************)
(* Instances of VendorMappings for TLC.                                    *)
(***************************************************************************)
EXTENDS VendorMappings, TLC

CONSTANTS k1, k2, a1, a2, t1, t2, t3

\* Handlers and learned accounts are interchangeable; the default account is
\* none of the learned ones.
Symmetry == Permutations(Tasks) \cup Permutations(Accounts)

\* A period with two invoices of one vendor; no exports.
TwoInvoices == {<<k1, k1>>}
=============================================================================
