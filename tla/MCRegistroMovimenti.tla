------------------------- MODULE MCRegistroMovimenti --------------------------
(***************************************************************************)
(* Constants of the runs of RegistroMovimenti.                             *)
(***************************************************************************)
EXTENDS RegistroMovimenti

CONSTANTS f1, cer1

Carico(q, u, g) == [tipo |-> "CARICO", cer |-> cer1, quantita |-> q, unita |-> u,
                    giorno |-> g, fir |-> NessunFir]

Scarico(q, g, f) == [tipo |-> "SCARICO", cer |-> cer1, quantita |-> q,
                     unita |-> "KG", giorno |-> g, fir |-> f]

\* A load of the second day, a discharge that copies the FIR and one without
\* FIR dated before the load.
MCComandi == {Carico(10, "KG", 2), Scarico(10, 2, f1), Scarico(6, 1, NessunFir)}

Storico(n, c) ==
  [anno |-> 1, numero |-> n, tipo |-> c.tipo, cer |-> c.cer,
   quantita |-> c.quantita, unita |-> c.unita, giorno |-> c.giorno,
   fir |-> c.fir, ricopia |-> FALSE]

\* A register that starts with the ten kilos of one discharge; one with litres;
\* one with litres and an old copy of the FIR with other data.
MCStorici == {{Storico(1, Carico(10, "KG", 2))},
              {Storico(1, Carico(5, "LITRI", 1))},
              {Storico(1, Carico(5, "LITRI", 1)), Storico(2, Scarico(6, 2, f1))}}

MCHash == [k \in Chiavi |-> k]

===============================================================================
