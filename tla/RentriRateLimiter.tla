-------------------------- MODULE RentriRateLimiter --------------------------
(***************************************************************************)
(* The preventive limiter towards RENTRI: for one tenant, the sliding      *)
(* window of the volume and the places of the calls in flight, two sorted  *)
(* sets of Redis that every process of the tenant shares, changed by one   *)
(* atomic script; and the two callers, the HTTP client around each attempt *)
(* and the interrogation of a signature, which holds a place of its own    *)
(* around a call of the client.  The other clients of RENTRI (vidimazione, *)
(* anagrafiche, codifiche, registri, trasmissioni, copie, xFIR) do not     *)
(* acquire: the limits are about the calls of these two, not about all     *)
(* that a tenant sends to the ente.                                        *)
(*                                                                         *)
(* Time is relative: an entry has an age.  The clock is read before the    *)
(* script reaches Redis, by one process among several, so an entry also    *)
(* has a delay: its score is that much older than it is.                   *)
(***************************************************************************)
EXTENDS Naturals, FiniteSets

CONSTANTS Processi,       \* calls of one tenant that acquire, on any machine
          Interroganti,   \* those made under interrogaAutorizzazione
          SogliaRichieste,     \* RENTRI_RATE_LIMIT_SOGLIA_RICHIESTE
          Finestra,            \* RENTRI_RATE_LIMIT_FINESTRA_MS
          ConcorrenzaMassima,  \* RENTRI_RATE_LIMIT_CONCORRENZA_MASSIMA
          TtlConcorrenza,      \* RENTRI_RATE_LIMIT_TTL_CONCORRENZA_MS
          MaxTentativi,        \* MAX_TENTATIVI_RESILIENZA
          Ritentanti,     \* bound: those that may meet a 429, a 423 or a 5xx
          Guastabili,     \* bound: those that may die, or fail to release
          Durata,              \* bound: of one HTTP call
          Ritardo              \* bound: from the clock to the script, skew included

ASSUME LimiterAssumption ==
  /\ Interroganti \cup Ritentanti \cup Guastabili \subseteq Processi
  /\ SogliaRichieste \in Nat \ {0} /\ ConcorrenzaMassima \in Nat \ {0}
  /\ Finestra \in Nat /\ TtlConcorrenza \in Nat
  /\ MaxTentativi \in Nat \ {0} /\ Durata \in Nat /\ Ritardo \in Nat
  /\ Ritardo < Finestra
  /\ Durata + Ritardo < TtlConcorrenza

VARIABLES
  volume,      \* the sorted set of the volume
  concorrenza, \* the sorted set of the places
  proc,        \* the processes
  concesse     \* history: the recent grants, forgotten by nobody but time

vars == <<volume, concorrenza, proc, concesse>>

\* An acquisition: whose, which one (0 is the place around the interrogation),
\* how long ago it was granted and how old its clock was.
Gettone == [di : Processi, n : 0 .. MaxTentativi, eta : Nat, scarto : 0 .. Ritardo]

Fasi == {"attende", "prova", "inVolo", "esce", "finita", "morta"}

Processo == [fase : Fasi, n : 0 .. MaxTentativi, da : Nat]

\* The ages that can be told apart: older entries are pruned all the same.
EtaVolume == Finestra + Ritardo
EtaPosto  == TtlConcorrenza + Ritardo

\* Within this age an entry of the volume cannot have been pruned.
Recente == Finestra - Ritardo

TypeOK ==
  /\ volume \in SUBSET {t \in Gettone : t.eta <= EtaVolume}
  /\ concorrenza \in SUBSET {t \in Gettone : t.eta <= EtaPosto}
  /\ concesse \in SUBSET {t \in Gettone : t.eta < Recente}
  /\ proc \in [Processi -> Processo]
  /\ \A p \in Processi : /\ proc[p].fase = "prova" => proc[p].da <= Ritardo
                         /\ proc[p].fase = "inVolo" => proc[p].da <= Durata

Init ==
  /\ volume = {}
  /\ concorrenza = {}
  /\ concesse = {}
  /\ proc = [p \in Processi |-> [fase |-> "attende", da |-> 0,
                                 n |-> IF p \in Interroganti THEN 0 ELSE 1]]

-------------------------------------------------------------------------------
\* The scripts.

\* A variant with a bug: nothing grows old.
PotatiMai(entrate, soglia, ritardo) == entrate

\* ZREMRANGEBYSCORE up to now - soglia, now being ritardo old.
Potati(entrate, soglia, ritardo) ==
  {t \in entrate : t.eta + t.scarto < soglia + ritardo}

Passa(p, fase, n) ==
  proc' = [proc EXCEPT ![p] = [fase |-> fase, n |-> n, da |-> 0]]

\* A place granted to the interrogation is spent waiting for another one.
Concessa(p) ==
  IF proc[p].n = 0 THEN Passa(p, "attende", 1) ELSE Passa(p, "inVolo", proc[p].n)

\* A variant with a bug: only the places are checked.
AcquisisciSenzaVolume(p) ==
  LET d == proc[p].da
      t == [di |-> p, n |-> proc[p].n, eta |-> 0, scarto |-> d]
      posti == Potati(concorrenza, TtlConcorrenza, d)
  IN  /\ proc[p].fase = "prova"
      /\ Cardinality(posti) < ConcorrenzaMassima
      /\ volume' = Potati(volume, Finestra, d) \cup {t}
      /\ concorrenza' = posti \cup {t}
      /\ concesse' = concesse \cup {t}
      /\ Concessa(p)

\* A variant with a bug: the places are compared after the grant.
AcquisisciUnoInPiu(p) ==
  LET d == proc[p].da
      t == [di |-> p, n |-> proc[p].n, eta |-> 0, scarto |-> d]
      uso == Potati(volume, Finestra, d)
      posti == Potati(concorrenza, TtlConcorrenza, d)
  IN  /\ proc[p].fase = "prova"
      /\ Cardinality(uso) < SogliaRichieste
      /\ Cardinality(posti) <= ConcorrenzaMassima
      /\ volume' = uso \cup {t}
      /\ concorrenza' = posti \cup {t}
      /\ concesse' = concesse \cup {t}
      /\ Concessa(p)

\* LUA_ACQUISISCI that grants.
Acquisisci(p) ==
  LET d == proc[p].da
      t == [di |-> p, n |-> proc[p].n, eta |-> 0, scarto |-> d]
      uso == Potati(volume, Finestra, d)
      posti == Potati(concorrenza, TtlConcorrenza, d)
  IN  /\ proc[p].fase = "prova"
      /\ Cardinality(uso) < SogliaRichieste
      /\ Cardinality(posti) < ConcorrenzaMassima
      /\ volume' = uso \cup {t}
      /\ concorrenza' = posti \cup {t}
      /\ concesse' = concesse \cup {t}
      /\ Concessa(p)

\* LUA_ACQUISISCI that refuses: it has pruned the volume, and the places when
\* it got to them; the process tries again after the interval.
Attende(p) ==
  LET d == proc[p].da
      uso == Potati(volume, Finestra, d)
      posti == Potati(concorrenza, TtlConcorrenza, d)
  IN  /\ proc[p].fase = "prova"
      /\ volume' = uso
      /\ \/ /\ Cardinality(uso) >= SogliaRichieste
            /\ concorrenza' = concorrenza
         \/ /\ Cardinality(uso) < SogliaRichieste
            /\ Cardinality(posti) >= ConcorrenzaMassima
            /\ concorrenza' = posti
      /\ Passa(p, "attende", proc[p].n)
      /\ UNCHANGED concesse

\* LUA_STATO_ATTUALE, for the diagnostics: it prunes and writes nothing.
StatoAttuale(d) ==
  /\ volume' = Potati(volume, Finestra, d)
  /\ concorrenza' = Potati(concorrenza, TtlConcorrenza, d)
  /\ UNCHANGED <<proc, concesse>>

-------------------------------------------------------------------------------
\* The callers.

\* provaAcquisire: now is read here.
Prova(p) ==
  /\ proc[p].fase = "attende"
  /\ Passa(p, "prova", proc[p].n)
  /\ UNCHANGED <<volume, concorrenza, concesse>>

\* ZREM, or a release that does not arrive.
Libera(p, n) ==
  \/ concorrenza' = {t \in concorrenza : ~(t.di = p /\ t.n = n)}
  \/ p \in Guastabili /\ concorrenza' = concorrenza

\* A variant with a bug: the attempts are not counted.
RilasciaERitenta(p) ==
  LET n == proc[p].n
  IN  /\ proc[p].fase = "inVolo"
      /\ Libera(p, n)
      /\ \/ p \in Ritentanti /\ Passa(p, "attende", n + 1)
         \/ p \in Interroganti /\ Passa(p, "esce", 0)
         \/ p \notin Interroganti /\ Passa(p, "finita", 0)
      /\ UNCHANGED <<volume, concesse>>

\* The answer of the ente, or its time-out, and the finally of conRateLimiter;
\* then another attempt on 429, 423 or 5xx, or the end of the call.  A
\* place whose release fails grows old.
Rilascia(p) ==
  LET n == proc[p].n
  IN  /\ proc[p].fase = "inVolo"
      /\ Libera(p, n)
      /\ \/ n < MaxTentativi /\ p \in Ritentanti /\ Passa(p, "attende", n + 1)
         \/ p \in Interroganti /\ Passa(p, "esce", 0)
         \/ p \notin Interroganti /\ Passa(p, "finita", 0)
      /\ UNCHANGED <<volume, concesse>>

\* The finally of interrogaAutorizzazione.
RilasciaInterrogazione(p) ==
  /\ proc[p].fase = "esce"
  /\ Libera(p, 0)
  /\ Passa(p, "finita", 0)
  /\ UNCHANGED <<volume, concesse>>

\* The process dies and gives nothing back.
Muore(p) ==
  /\ p \in Guastabili
  /\ proc[p].fase \notin {"finita", "morta"}
  /\ Passa(p, "morta", 0)
  /\ UNCHANGED <<volume, concorrenza, concesse>>

Invecchia(t, limite) == [t EXCEPT !.eta = IF @ + t.scarto < limite THEN @ + 1 ELSE @]

\* Time passes, within the bounds of a call and of a script.
Passo ==
  /\ \A p \in Processi : /\ proc[p].fase = "prova" => proc[p].da < Ritardo
                         /\ proc[p].fase = "inVolo" => proc[p].da < Durata
  /\ volume' = {Invecchia(t, EtaVolume) : t \in volume}
  /\ concorrenza' = {Invecchia(t, EtaPosto) : t \in concorrenza}
  /\ concesse' = {[t EXCEPT !.eta = @ + 1] : t \in {c \in concesse : c.eta + 1 < Recente}}
  /\ proc' = [p \in Processi |->
                IF proc[p].fase \in {"prova", "inVolo"}
                THEN [proc[p] EXCEPT !.da = @ + 1] ELSE proc[p]]

Procede(p) ==
  \/ Prova(p)
  \/ Acquisisci(p)
  \/ Attende(p)
  \/ Rilascia(p)
  \/ RilasciaInterrogazione(p)

Next ==
  \/ \E p \in Processi : Procede(p) \/ Muore(p)
  \/ \E d \in 0 .. Ritardo : StatoAttuale(d)
  \/ Passo

\* A process that lives goes on, and so does time.
Fairness == /\ \A p \in Processi : WF_vars(Procede(p))
            /\ WF_vars(Passo)

Spec == Init /\ [][Next]_vars /\ Fairness

-------------------------------------------------------------------------------
\* Properties.

\* The calls that the limiter grants to RENTRIApiClient and interrogaAutorizzazione
\* in any stretch of time shorter than the window by the greatest delay are at
\* most the threshold, whatever has been pruned by a script with a late or an
\* early clock.  The calls of the other clients are not counted.
VolumeRispettato == Cardinality(concesse) <= SogliaRichieste

\* The calls of RENTRIApiClient in flight are never more than the places, although
\* places expire by age, deaths leave places behind, and a release may not
\* arrive.
InVoloLimitate ==
  Cardinality({p \in Processi : proc[p].fase = "inVolo"}) <= ConcorrenzaMassima

\* Who waits for capacity gets it, and ends: interrogations that took every
\* place and wait for a second one included, which only the age of their own
\* places sets free.
AttesaFinita == \A p \in Processi : <>(proc[p].fase \in {"finita", "morta"})
===============================================================================
