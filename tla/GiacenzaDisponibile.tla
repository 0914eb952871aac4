------------------------- MODULE GiacenzaDisponibile --------------------------
(***************************************************************************)
(* The stock of a waste code (CER) computed from the rows of the register  *)
(* of movements: what giacenzaDisponibileAl asks the database, and the     *)
(* normalisation of units it relies on.                                    *)
(*                                                                         *)
(* A row of waste_movements, for one tenant, is a record with fields anno, *)
(* numero (its progressive), tipo, cer (the digits of the code), quantita, *)
(* unita, giorno (the Italian day of the operation), fir (the linked FIR)  *)
(* and ricopia (whether fir_id_ricopia is set: FALSE in the rows written   *)
(* before that column existed).                                            *)
(***************************************************************************)
EXTENDS Integers, FiniteSets, FiniteSetsExt

\* The aliases of ALIAS_KG and ALIAS_T are already one name here; "LITRI"
\* stands for every unit that is not a mass.
UnitaDiMassa == {"KG", "T"}
Unita == UnitaDiMassa \cup {"LITRI"}

FattoreKg(unita) == IF unita = "T" THEN 1000 ELSE 1

Kg(m) == m.quantita * FattoreKg(m.unita)

\* What a row adds to the balance of its waste.
Delta(m) == IF m.tipo = "CARICO" THEN Kg(m) ELSE -Kg(m)

\* The rows the query sums.
DiMassa(registro, cer) ==
  {m \in registro : m.cer = cer /\ m.unita \in UnitaDiMassa}

SaldoComplessivo(registro, cer) == MapThenSumSet(Delta, DiMassa(registro, cer))

\* The balance at the end of a day.
SaldoAl(registro, cer, giorno) ==
  MapThenSumSet(Delta, {m \in DiMassa(registro, cer) : m.giorno <= giorno})

\* The lowest balance from a day on: the day itself, then the later days on
\* which the waste moved.
DisponibileAllaData(registro, cer, giorno) ==
  Min({SaldoAl(registro, cer, g) :
         g \in {giorno} \cup {m.giorno : m \in {n \in DiMassa(registro, cer) :
                                                  n.giorno > giorno}}})

\* unitaNonDiMassaCaricate is not empty.
CarichiNonDiMassa(registro, cer) ==
  \E m \in registro : /\ m.cer = cer
                      /\ m.tipo = "CARICO"
                      /\ m.unita \notin UnitaDiMassa

===============================================================================
