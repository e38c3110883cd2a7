-------------------------- MODULE MCFileExtraction --------------------------
(***************************************************************************)
(* Instances of FileExtraction for TLC.                                    *)
(***************************************************************************)
EXTENDS FileExtraction, TLC

CONSTANTS f1, f2, n1, n2, i1, i2, t1, t2, t3

\* Handlers and invoice keys are interchangeable.
Symmetry == Permutations(Tasks) \cup Permutations(Invoices)

\* No file carries an e-invoice, or the PDF f1 carries one of number n1.
AllPlain == [f \in Files |-> NoNumber]
PdfEinvoice == [f \in Files |-> IF f = f1 THEN n1 ELSE NoNumber]
=============================================================================
