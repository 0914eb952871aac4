--------------------------- MODULE MCFormulariEnte ---------------------------
(***************************************************************************)
(* Instances of FormulariEnte.                                             *)
(***************************************************************************)
EXTENDS FormulariEnte, TLC

CONSTANTS f1, f2, n1, n2, r1, r2, r3

\* FIRs and formulari are interchangeable, and requests of the same kind.
Simmetria == Permutations(Fir) \cup Permutations(Numeri) \cup
             Permutations(ConFirma) \cup Permutations(Richieste \ ConFirma)
===============================================================================
