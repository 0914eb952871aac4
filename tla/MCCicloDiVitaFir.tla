-------------------------- MODULE MCCicloDiVitaFir ---------------------------
(***************************************************************************)
(* Instances of CicloDiVitaFir.                                            *)
(***************************************************************************)
EXTENDS CicloDiVitaFir, TLC

CONSTANTS f1, f2, r1, r2, r3, r4

\* The requests are interchangeable.
Simmetria == Permutations(Richieste)
===============================================================================
