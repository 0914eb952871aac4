------------------------- MODULE RegistroCronologico --------------------------
(***************************************************************************)
(* What the register of movements promises to an inspector who only sees   *)
(* committed rows: movements are appended one at a time, numbered without  *)
(* gaps or repetitions within their year; a discharge measured by mass is  *)
(* written only if the waste is there (or if loads in other units make the *)
(* question undecidable); a FIR is copied once for each kind of movement;  *)
(* the first number of a year is chosen once and before the first row.     *)
(***************************************************************************)
EXTENDS GiacenzaDisponibile

CONSTANTS Anni,        \* years
          Comandi,     \* the movements that can be asked for
          Primi,       \* first numbers an administrator may choose
          Storici,     \* the registers the system may start from
          NessunFir    \* a movement without FIR

VARIABLES registro,    \* the rows
          iniziale     \* first number chosen for each year, 0 if none

DellAnno(a) == {m \in registro : m.anno = a}

Prossimo(a) ==
  IF DellAnno(a) = {}
    THEN Max({1, iniziale[a]})
    ELSE 1 + Max({m.numero : m \in DellAnno(a)})

Riga(c, a) ==
  [anno |-> a, numero |-> Prossimo(a), tipo |-> c.tipo, cer |-> c.cer,
   quantita |-> c.quantita, unita |-> c.unita, giorno |-> c.giorno,
   fir |-> c.fir, ricopia |-> c.fir # NessunFir]

\* Writing the row leaves the balance of its waste at zero or more.
Coperta(riga) ==
  \/ riga.tipo = "CARICO"
  \/ riga.unita \notin UnitaDiMassa
  \/ SaldoComplessivo(registro \cup {riga}, riga.cer) >= 0
  \/ CarichiNonDiMassa(registro, riga.cer)

Registra(c, a) ==
  /\ Coperta(Riga(c, a))
  /\ c.fir # NessunFir =>
       \A m \in registro : m.fir # c.fir \/ m.tipo # c.tipo
  /\ registro' = registro \cup {Riga(c, a)}
  /\ UNCHANGED iniziale

ImpostaIniziale(a, p) ==
  /\ iniziale[a] = 0
  /\ DellAnno(a) = {}
  /\ iniziale' = [iniziale EXCEPT ![a] = p]
  /\ UNCHANGED registro

Init ==
  /\ registro \in Storici
  /\ iniziale = [a \in Anni |-> 0]

Next ==
  \E a \in Anni :
    \/ \E c \in Comandi : Registra(c, a)
    \/ \E p \in Primi : ImpostaIniziale(a, p)

Spec == Init /\ [][Next]_<<registro, iniziale>>

===============================================================================
