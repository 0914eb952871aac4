------------------------ MODULE RentriRateLimiterProof -----------------------
(***************************************************************************)
(* Proofs about RentriRateLimiter: types, the volume and the calls in      *)
(* flight, for any number of calls and any thresholds.                     *)
(***************************************************************************)
EXTENDS RentriRateLimiter, FiniteSetTheorems, TLAPS

-----------------------------------------------------------------------------
(* Entries. *)

Entrate(limite) == {t \in Gettone : t.eta <= limite}

Nuovo(p) == [di |-> p, n |-> proc[p].n, eta |-> 0, scarto |-> proc[p].da]

\* What growing older does to an entry.
LEMMA EntrataInvecchiata ==
  ASSUME NEW limite \in Nat, NEW t \in Gettone, t.eta <= limite
  PROVE  /\ Invecchia(t, limite) \in Entrate(limite)
         /\ Invecchia(t, limite).di = t.di
         /\ Invecchia(t, limite).n = t.n
         /\ Invecchia(t, limite).eta <= t.eta + 1
         /\ t.eta + t.scarto < limite => Invecchia(t, limite) = [t EXCEPT !.eta = @ + 1]
BY LimiterAssumption DEF Entrate, Gettone, Invecchia

\* A finite set grows older without growing.
LEMMA InsiemeInvecchiato ==
  ASSUME NEW S, IsFiniteSet(S), NEW limite
  PROVE  /\ IsFiniteSet({Invecchia(t, limite) : t \in S})
         /\ Cardinality({Invecchia(t, limite) : t \in S}) <= Cardinality(S)
<1> DEFINE T == {Invecchia(t, limite) : t \in S}
           f == [t \in S |-> Invecchia(t, limite)]
<1>1. f \in Surjection(S, T)
  BY DEF Surjection
<1> QED BY <1>1, FS_Surjection

\* A script of the volume keeps the recent entries, and makes room for one.
LEMMA InsiemePotato ==
  ASSUME NEW S, IsFiniteSet(S), NEW soglia, NEW d
  PROVE  /\ Potati(S, soglia, d) \subseteq S
         /\ IsFiniteSet(Potati(S, soglia, d))
         /\ Cardinality(Potati(S, soglia, d)) \in Nat
         /\ Cardinality(S) \in Nat
         /\ Cardinality(Potati(S, soglia, d)) <= Cardinality(S)
<1>1. Potati(S, soglia, d) \in SUBSET S
  BY DEF Potati
<1>2. /\ IsFiniteSet(Potati(S, soglia, d))
      /\ Cardinality(Potati(S, soglia, d)) <= Cardinality(S)
  BY <1>1, FS_Subset
<1>3. Cardinality(Potati(S, soglia, d)) \in Nat /\ Cardinality(S) \in Nat
  BY <1>2, FS_CardinalityType
<1> QED BY <1>1, <1>2, <1>3

\* An entry added to a set that has room for it.
LEMMA InsiemeAumentato ==
  ASSUME NEW S, IsFiniteSet(S), NEW t, NEW m \in Nat, Cardinality(S) < m
  PROVE  /\ IsFiniteSet(S \cup {t})
         /\ Cardinality(S \cup {t}) \in Nat
         /\ Cardinality(S \cup {t}) <= m
<1>1. /\ IsFiniteSet(S \cup {t})
      /\ Cardinality(S \cup {t}) = IF t \in S THEN Cardinality(S) ELSE Cardinality(S) + 1
  BY FS_AddElement
<1>2. Cardinality(S) \in Nat
  BY FS_CardinalityType
<1> QED BY <1>1, <1>2

-----------------------------------------------------------------------------
(* Types. *)

LEMMA Soglie ==
  /\ EtaVolume \in Nat /\ EtaPosto \in Nat /\ Recente \in Nat
  /\ 0 < Recente /\ Recente <= EtaVolume
BY LimiterAssumption DEF EtaVolume, EtaPosto, Recente

\* The new entry of a grant.
LEMMA TipoNuovo ==
  ASSUME TypeOK, NEW p \in Processi, proc[p].fase = "prova"
  PROVE  Nuovo(p) \in Gettone /\ Nuovo(p).eta = 0
<1>1. proc[p] \in Processo /\ proc[p].da <= Ritardo
  BY DEF TypeOK
<1>2. proc[p].n \in 0 .. MaxTentativi /\ proc[p].da \in 0 .. Ritardo
  BY <1>1, LimiterAssumption DEF Processo
<1> QED BY <1>2 DEF Nuovo, Gettone

\* The process that moves.
LEMMA TipoPassa ==
  ASSUME TypeOK, NEW p \in Processi, NEW fase \in Fasi, NEW n \in 0 .. MaxTentativi,
         Passa(p, fase, n)
  PROVE  /\ proc' \in [Processi -> Processo]
         /\ \A q \in Processi : /\ proc'[q].fase = "prova" => proc'[q].da <= Ritardo
                                /\ proc'[q].fase = "inVolo" => proc'[q].da <= Durata
<1>1. [fase |-> fase, n |-> n, da |-> 0] \in Processo
  BY DEF Processo
<1>2. proc \in [Processi -> Processo]
  BY DEF TypeOK
<1>3. \A q \in Processi : proc'[q] = IF q = p THEN [fase |-> fase, n |-> n, da |-> 0]
                                              ELSE proc[q]
  BY <1>2 DEF Passa
<1>4. proc' \in [Processi -> Processo]
  BY <1>1, <1>2 DEF Passa
<1> QED BY <1>3, <1>4, LimiterAssumption DEF TypeOK

\* Every step keeps the types.
LEMMA TypeOKPasso == TypeOK /\ [Next]_vars => TypeOK'
<1> SUFFICES ASSUME TypeOK, [Next]_vars PROVE TypeOK'
  OBVIOUS
<1> USE DEF Entrate
<1>a. /\ volume \subseteq Entrate(EtaVolume)
      /\ concorrenza \subseteq Entrate(EtaPosto)
      /\ concesse \subseteq {t \in Gettone : t.eta < Recente}
      /\ proc \in [Processi -> Processo]
  BY DEF TypeOK
<1>t. SUFFICES
        /\ volume' \subseteq Entrate(EtaVolume)
        /\ concorrenza' \subseteq Entrate(EtaPosto)
        /\ concesse' \subseteq {t \in Gettone : t.eta < Recente}
        /\ proc' \in [Processi -> Processo]
        /\ \A q \in Processi : /\ proc'[q].fase = "prova" => proc'[q].da <= Ritardo
                               /\ proc'[q].fase = "inVolo" => proc'[q].da <= Durata
  BY DEF TypeOK
<1>n. \A p \in Processi : proc[p].n \in 0 .. MaxTentativi
  BY <1>a DEF Processo
<1>1. ASSUME NEW p \in Processi, Prova(p) PROVE TypeOK'
  <2>1. Passa(p, "prova", proc[p].n)
    BY <1>1 DEF Prova
  <2> QED BY <1>a, <1>n, <1>1, <2>1, TipoPassa DEF Prova, Fasi, TypeOK
<1>2. ASSUME NEW p \in Processi, Acquisisci(p) PROVE TypeOK'
  <2>1. /\ volume' = Potati(volume, Finestra, proc[p].da) \cup {Nuovo(p)}
        /\ concorrenza' = Potati(concorrenza, TtlConcorrenza, proc[p].da) \cup {Nuovo(p)}
        /\ concesse' = concesse \cup {Nuovo(p)}
        /\ proc[p].fase = "prova"
        /\ Concessa(p)
    BY <1>2 DEF Acquisisci, Nuovo
  <2>2. Nuovo(p) \in Gettone /\ Nuovo(p).eta = 0
    BY <2>1, TipoNuovo
  <2>3. \E fase \in Fasi, n \in 0 .. MaxTentativi : Passa(p, fase, n)
    BY <2>1, <1>n, LimiterAssumption DEF Concessa, Fasi
  <2>4. /\ proc' \in [Processi -> Processo]
        /\ \A q \in Processi : /\ proc'[q].fase = "prova" => proc'[q].da <= Ritardo
                               /\ proc'[q].fase = "inVolo" => proc'[q].da <= Durata
    BY <2>3, TipoPassa
  <2> QED BY <1>a, <2>1, <2>2, <2>4, Soglie DEF Potati, TypeOK
<1>3. ASSUME NEW p \in Processi, Attende(p) PROVE TypeOK'
  <2>1. /\ volume' \subseteq volume
        /\ concorrenza' \subseteq concorrenza
        /\ concesse' = concesse
        /\ Passa(p, "attende", proc[p].n)
    BY <1>3 DEF Attende, Potati
  <2> QED BY <1>a, <1>n, <2>1, TipoPassa DEF Fasi, TypeOK
<1>4. ASSUME NEW p \in Processi, Rilascia(p) PROVE TypeOK'
  <2>1. /\ volume' = volume
        /\ concorrenza' \subseteq concorrenza
        /\ concesse' = concesse
    BY <1>4 DEF Rilascia, Libera
  <2>2. \E fase \in Fasi, n \in 0 .. MaxTentativi : Passa(p, fase, n)
    <3>1. /\ "attende" \in Fasi /\ "esce" \in Fasi /\ "finita" \in Fasi
          /\ 0 \in 0 .. MaxTentativi
          /\ proc[p].n < MaxTentativi => proc[p].n + 1 \in 0 .. MaxTentativi
      BY <1>n, LimiterAssumption DEF Fasi
    <3> QED BY <1>4, <3>1 DEF Rilascia
  <2> QED BY <1>a, <2>1, <2>2, TipoPassa DEF TypeOK
<1>5. ASSUME NEW p \in Processi, RilasciaInterrogazione(p) PROVE TypeOK'
  <2>1. /\ volume' = volume
        /\ concorrenza' \subseteq concorrenza
        /\ concesse' = concesse
        /\ Passa(p, "finita", 0)
    BY <1>5 DEF RilasciaInterrogazione, Libera
  <2> QED BY <1>a, <2>1, TipoPassa, LimiterAssumption DEF Fasi, TypeOK
<1>6. ASSUME NEW p \in Processi, Muore(p) PROVE TypeOK'
  <2>1. UNCHANGED <<volume, concorrenza, concesse>> /\ Passa(p, "morta", 0)
    BY <1>6 DEF Muore
  <2> QED BY <1>a, <2>1, TipoPassa, LimiterAssumption DEF Fasi, TypeOK
<1>7. ASSUME NEW d \in 0 .. Ritardo, StatoAttuale(d) PROVE TypeOK'
  BY <1>7 DEF StatoAttuale, Potati, TypeOK
<1>8. CASE Passo
  <2>1. /\ volume' = {Invecchia(t, EtaVolume) : t \in volume}
        /\ concorrenza' = {Invecchia(t, EtaPosto) : t \in concorrenza}
        /\ concesse' = {[t EXCEPT !.eta = @ + 1] : t \in {c \in concesse : c.eta + 1 < Recente}}
    BY <1>8 DEF Passo
  <2>2. volume' \subseteq Entrate(EtaVolume) /\ concorrenza' \subseteq Entrate(EtaPosto)
    BY <1>a, <2>1, Soglie, EntrataInvecchiata
  <2>3. concesse' \subseteq {t \in Gettone : t.eta < Recente}
    BY <1>a, <2>1, Soglie DEF Gettone
  <2>4. ASSUME NEW q \in Processi
        PROVE  /\ proc'[q] \in Processo
               /\ proc'[q].fase = "prova" => proc'[q].da <= Ritardo
               /\ proc'[q].fase = "inVolo" => proc'[q].da <= Durata
    <3>1. proc'[q] = IF proc[q].fase \in {"prova", "inVolo"}
                     THEN [proc[q] EXCEPT !.da = @ + 1] ELSE proc[q]
      BY <1>8 DEF Passo
    <3>2. /\ proc[q].fase = "prova" => proc[q].da < Ritardo
          /\ proc[q].fase = "inVolo" => proc[q].da < Durata
      BY <1>8 DEF Passo
    <3>3. proc[q] \in Processo
      BY <1>a
    <3> QED BY <3>1, <3>2, <3>3, LimiterAssumption DEF Processo
  <2>5. proc' = [q \in Processi |-> proc'[q]]
    BY <1>8 DEF Passo
  <2> QED BY <2>2, <2>3, <2>4, <2>5 DEF TypeOK
<1>9. CASE UNCHANGED vars
  BY <1>9 DEF vars, TypeOK
<1> QED BY <1>1, <1>2, <1>3, <1>4, <1>5, <1>6, <1>7, <1>8, <1>9, <1>t
        DEF Next, Procede, TypeOK

\* The types of the two sorted sets, of the processes and of the history, in
\* every state.
THEOREM LimitatoreTypeOK == Spec => []TypeOK
<1>1. Init => TypeOK
  BY LimiterAssumption DEF Init, TypeOK, Processo, Fasi
<1> QED BY <1>1, TypeOKPasso, PTL DEF Spec

-----------------------------------------------------------------------------
(* The volume: the recent grants are all in the sorted set, whose scripts    *)
(* keep it within the threshold.                                             *)

VolumeInv ==
  /\ IsFiniteSet(volume)
  /\ Cardinality(volume) <= SogliaRichieste
  /\ concesse \subseteq volume

\* A script prunes nothing recent.
LEMMA RecentiConservate ==
  ASSUME TypeOK, VolumeInv, NEW d \in Nat
  PROVE  concesse \subseteq Potati(volume, Finestra, d)
<1> SUFFICES ASSUME NEW t \in concesse PROVE t \in Potati(volume, Finestra, d)
  OBVIOUS
<1>1. t \in Gettone /\ t.eta < Recente
  BY DEF TypeOK
<1>2. t.eta + t.scarto < Finestra + d
  BY <1>1, LimiterAssumption DEF Gettone, Recente
<1> QED BY <1>2 DEF Potati, VolumeInv

\* Every step keeps the volume within the threshold.
LEMMA VolumePasso == TypeOK /\ VolumeInv /\ [Next]_vars => VolumeInv'
<1> SUFFICES ASSUME TypeOK, VolumeInv, [Next]_vars PROVE VolumeInv'
  OBVIOUS
<1>a. \A p \in Processi : proc[p].da \in Nat
  BY DEF TypeOK, Processo
<1>b. SogliaRichieste \in Nat
  BY LimiterAssumption
<1>c. ASSUME NEW d \in Nat, volume' = Potati(volume, Finestra, d), concesse' = concesse
      PROVE  VolumeInv'
  <2>1. /\ IsFiniteSet(volume')
        /\ Cardinality(volume') \in Nat
        /\ Cardinality(volume) \in Nat
        /\ Cardinality(volume') <= Cardinality(volume)
    BY <1>c, InsiemePotato DEF VolumeInv
  <2>2. concesse' \subseteq volume'
    BY <1>c, RecentiConservate
  <2> QED BY <1>b, <2>1, <2>2 DEF VolumeInv
<1>d. ASSUME volume' = volume, concesse' = concesse PROVE VolumeInv'
  BY <1>d DEF VolumeInv
<1>1. ASSUME NEW p \in Processi, Prova(p) PROVE VolumeInv'
  BY <1>1, <1>d DEF Prova
<1>2. ASSUME NEW p \in Processi, Acquisisci(p) PROVE VolumeInv'
  <2> DEFINE uso == Potati(volume, Finestra, proc[p].da)
  <2>1. /\ Cardinality(uso) < SogliaRichieste
        /\ volume' = uso \cup {Nuovo(p)}
        /\ concesse' = concesse \cup {Nuovo(p)}
    BY <1>2 DEF Acquisisci, Nuovo
  <2>2. IsFiniteSet(uso)
    BY InsiemePotato DEF VolumeInv
  <2>3. IsFiniteSet(volume') /\ Cardinality(volume') <= SogliaRichieste
    BY <1>b, <2>1, <2>2, InsiemeAumentato
  <2>4. concesse' \subseteq volume'
    BY <1>a, <2>1, RecentiConservate
  <2> QED BY <2>3, <2>4 DEF VolumeInv
<1>3. ASSUME NEW p \in Processi, Attende(p) PROVE VolumeInv'
  BY <1>3, <1>a, <1>c DEF Attende
<1>4. ASSUME NEW p \in Processi, Rilascia(p) PROVE VolumeInv'
  BY <1>4, <1>d DEF Rilascia
<1>5. ASSUME NEW p \in Processi, RilasciaInterrogazione(p) PROVE VolumeInv'
  BY <1>5, <1>d DEF RilasciaInterrogazione
<1>6. ASSUME NEW p \in Processi, Muore(p) PROVE VolumeInv'
  BY <1>6, <1>d DEF Muore
<1>7. ASSUME NEW d \in 0 .. Ritardo, StatoAttuale(d) PROVE VolumeInv'
  <2>1. d \in Nat
    BY LimiterAssumption
  <2> QED BY <1>7, <1>c, <2>1 DEF StatoAttuale
<1>8. CASE Passo
  <2>1. /\ volume' = {Invecchia(t, EtaVolume) : t \in volume}
        /\ concesse' = {[t EXCEPT !.eta = @ + 1] : t \in {c \in concesse : c.eta + 1 < Recente}}
    BY <1>8 DEF Passo
  <2>2. /\ IsFiniteSet(volume')
        /\ Cardinality(volume') <= Cardinality(volume)
    BY <2>1, InsiemeInvecchiato DEF VolumeInv
  <2>3. Cardinality(volume) \in Nat /\ Cardinality(volume') \in Nat
    BY <2>2, FS_CardinalityType DEF VolumeInv
  <2>4. ASSUME NEW c \in concesse, c.eta + 1 < Recente
        PROVE  [c EXCEPT !.eta = c.eta + 1] \in volume'
    <3>1. c \in Gettone /\ c \in volume /\ c.eta <= EtaVolume
      BY DEF TypeOK, VolumeInv
    <3>2. c.eta + c.scarto < EtaVolume
      BY <2>4, <3>1, LimiterAssumption DEF Gettone, Recente, EtaVolume
    <3>3. Invecchia(c, EtaVolume) = [c EXCEPT !.eta = c.eta + 1]
      BY <3>1, <3>2, Soglie, EntrataInvecchiata
    <3> QED BY <2>1, <3>1, <3>3
  <2>5. concesse' \subseteq volume'
    BY <2>1, <2>4
  <2> QED BY <1>b, <2>2, <2>3, <2>5 DEF VolumeInv
<1>9. CASE UNCHANGED vars
  BY <1>9, <1>d DEF vars
<1> QED BY <1>1, <1>2, <1>3, <1>4, <1>5, <1>6, <1>7, <1>8, <1>9 DEF Next, Procede

\* Within any stretch of time shorter than the window by the greatest delay,
\* the calls the limiter grants are at most the threshold.
THEOREM LimitatoreVolume == Spec => []VolumeRispettato
<1>1. Init => TypeOK /\ VolumeInv
  <2>1. Init => TypeOK
    BY LimiterAssumption DEF Init, TypeOK, Processo, Fasi
  <2>2. IsFiniteSet({}) /\ Cardinality({}) = 0
    BY FS_EmptySet
  <2> QED BY <2>1, <2>2, LimiterAssumption DEF Init, VolumeInv
<1>2. VolumeInv => VolumeRispettato
  <2> SUFFICES ASSUME VolumeInv PROVE VolumeRispettato
    OBVIOUS
  <2>1. concesse \in SUBSET volume /\ IsFiniteSet(volume)
    BY DEF VolumeInv
  <2>2. IsFiniteSet(concesse) /\ Cardinality(concesse) <= Cardinality(volume)
    BY <2>1, FS_Subset
  <2>3. Cardinality(concesse) \in Nat /\ Cardinality(volume) \in Nat
    BY <2>1, <2>2, FS_CardinalityType
  <2> QED BY <2>2, <2>3, LimiterAssumption DEF VolumeInv, VolumeRispettato
<1> QED BY <1>1, <1>2, TypeOKPasso, VolumePasso, PTL DEF Spec

-----------------------------------------------------------------------------
(* The calls in flight: each one holds a place of its own, which is neither  *)
(* pruned, being younger than the call, nor released by anybody else.        *)

PostiInv ==
  /\ IsFiniteSet(concorrenza)
  /\ Cardinality(concorrenza) <= ConcorrenzaMassima
  /\ \A p \in Processi : proc[p].fase = "inVolo" =>
       \E t \in concorrenza : t.di = p /\ t.n = proc[p].n /\ t.eta <= proc[p].da

\* A script leaves the places of the calls in flight.
LEMMA PostiConservati ==
  ASSUME TypeOK, PostiInv, NEW d \in Nat, NEW p \in Processi, proc[p].fase = "inVolo"
  PROVE  \E t \in Potati(concorrenza, TtlConcorrenza, d) :
           t.di = p /\ t.n = proc[p].n /\ t.eta <= proc[p].da
<1>1. PICK t \in concorrenza : t.di = p /\ t.n = proc[p].n /\ t.eta <= proc[p].da
  BY DEF PostiInv
<1>2. t \in Gettone /\ proc[p] \in Processo /\ proc[p].da <= Durata
  BY DEF TypeOK
<1>3. t.eta + t.scarto < TtlConcorrenza + d
  BY <1>1, <1>2, LimiterAssumption DEF Gettone, Processo
<1>4. t \in Potati(concorrenza, TtlConcorrenza, d)
  BY <1>3 DEF Potati
<1> QED BY <1>1, <1>4

\* A process that moves without taking off leaves the others as they are.
LEMMA AltriFermi ==
  ASSUME TypeOK, NEW p \in Processi, NEW fase, NEW n, Passa(p, fase, n)
  PROVE  /\ proc'[p] = [fase |-> fase, n |-> n, da |-> 0]
         /\ proc'[p].fase = fase
         /\ proc'[p].n = n
         /\ \A q \in Processi : q # p => proc'[q] = proc[q]
<1>1. proc \in [Processi -> Processo]
  BY DEF TypeOK
<1>2. proc'[p] = [fase |-> fase, n |-> n, da |-> 0]
  BY <1>1 DEF Passa
<1>3. \A q \in Processi : q # p => proc'[q] = proc[q]
  BY <1>1 DEF Passa
<1> QED BY <1>2, <1>3

\* Every step keeps a place for each call in flight.
LEMMA PostiPasso == TypeOK /\ PostiInv /\ [Next]_vars => PostiInv'
<1> SUFFICES ASSUME TypeOK, PostiInv, [Next]_vars PROVE PostiInv'
  OBVIOUS
<1>a. \A p \in Processi : proc[p].da \in Nat
  BY DEF TypeOK, Processo
<1>b. ConcorrenzaMassima \in Nat /\ 0 < ConcorrenzaMassima
  BY LimiterAssumption
<1> DEFINE Posto(p) == \E t \in concorrenza :
                         t.di = p /\ t.n = proc[p].n /\ t.eta <= proc[p].da
\* The scripts that only prune, and the steps that leave the places alone.
<1>c. ASSUME concorrenza' \subseteq concorrenza,
             \A q \in Processi : proc'[q].fase = "inVolo" => Posto(q)'
      PROVE  PostiInv'
  <2>1. concorrenza' \in SUBSET concorrenza /\ IsFiniteSet(concorrenza)
    BY <1>c DEF PostiInv
  <2>2. /\ IsFiniteSet(concorrenza')
        /\ Cardinality(concorrenza') <= Cardinality(concorrenza)
    BY <2>1, FS_Subset
  <2>3. Cardinality(concorrenza') \in Nat /\ Cardinality(concorrenza) \in Nat
    BY <2>1, <2>2, FS_CardinalityType
  <2> QED BY <1>b, <1>c, <2>2, <2>3 DEF PostiInv
\* The moves of one process that does not take off.
<1>d. ASSUME NEW p \in Processi, NEW fase, NEW n, Passa(p, fase, n), fase # "inVolo",
             concorrenza' \subseteq concorrenza,
             \A t \in concorrenza : t.di # p => t \in concorrenza'
      PROVE  PostiInv'
  <2>1. ASSUME NEW q \in Processi, proc'[q].fase = "inVolo" PROVE Posto(q)'
    <3>1. proc'[p].fase = fase /\ (q # p => proc'[q] = proc[q])
      BY <1>d, AltriFermi
    <3>2. q # p /\ proc'[q] = proc[q]
      BY <1>d, <2>1, <3>1
    <3>3. Posto(q)
      BY <2>1, <3>2 DEF PostiInv
    <3> QED BY <1>d, <3>2, <3>3
  <2> QED BY <1>c, <1>d, <2>1
<1>1. ASSUME NEW p \in Processi, Prova(p) PROVE PostiInv'
  BY <1>1, <1>d DEF Prova
<1>2. ASSUME NEW p \in Processi, Acquisisci(p) PROVE PostiInv'
  <2> DEFINE posti == Potati(concorrenza, TtlConcorrenza, proc[p].da)
  <2>1. /\ Cardinality(posti) < ConcorrenzaMassima
        /\ concorrenza' = posti \cup {Nuovo(p)}
        /\ Concessa(p)
        /\ proc[p].fase = "prova"
    BY <1>2 DEF Acquisisci, Nuovo
  <2>2. IsFiniteSet(posti)
    BY InsiemePotato DEF PostiInv
  <2>3. IsFiniteSet(concorrenza') /\ Cardinality(concorrenza') <= ConcorrenzaMassima
    BY <1>b, <2>1, <2>2, InsiemeAumentato
  <2>4. ASSUME NEW q \in Processi, proc'[q].fase = "inVolo" PROVE Posto(q)'
    <3>1. CASE q = p
      <4>1. Passa(p, "inVolo", proc[p].n)
        <5>1. Passa(p, "attende", 1) => proc'[p].fase = "attende"
          BY AltriFermi
        <5> QED BY <2>1, <2>4, <3>1, <5>1 DEF Concessa
      <4>2. proc'[p] = [fase |-> "inVolo", n |-> proc[p].n, da |-> 0]
        BY <4>1, AltriFermi
      <4>3. Nuovo(p) \in concorrenza' /\ Nuovo(p).di = p
            /\ Nuovo(p).n = proc[p].n /\ Nuovo(p).eta = 0
        BY <2>1 DEF Nuovo
      <4> QED BY <3>1, <4>2, <4>3
    <3>2. CASE q # p
      <4>1. proc'[q] = proc[q]
        BY <2>1, <3>2, AltriFermi DEF Concessa
      <4>2. PICK t \in posti : t.di = q /\ t.n = proc[q].n /\ t.eta <= proc[q].da
        BY <1>a, <2>4, <4>1, PostiConservati
      <4> QED BY <2>1, <4>1, <4>2
    <3> QED BY <3>1, <3>2
  <2> QED BY <2>3, <2>4 DEF PostiInv
<1>3. ASSUME NEW p \in Processi, Attende(p) PROVE PostiInv'
  <2>1. /\ Passa(p, "attende", proc[p].n)
        /\ \/ concorrenza' = concorrenza
           \/ concorrenza' = Potati(concorrenza, TtlConcorrenza, proc[p].da)
    BY <1>3 DEF Attende
  <2>2. ASSUME NEW q \in Processi, proc'[q].fase = "inVolo" PROVE Posto(q)'
    <3>1. proc'[q] = proc[q] /\ proc[q].fase = "inVolo"
      <4>1. proc'[p].fase = "attende" /\ (q # p => proc'[q] = proc[q])
        BY <2>1, AltriFermi
      <4> QED BY <2>2, <4>1
    <3>2. Posto(q)
      BY <3>1 DEF PostiInv
    <3>3. \E t \in Potati(concorrenza, TtlConcorrenza, proc[p].da) :
            t.di = q /\ t.n = proc[q].n /\ t.eta <= proc[q].da
      BY <1>a, <3>1, PostiConservati
    <3> QED BY <2>1, <3>1, <3>2, <3>3
  <2> QED BY <1>c, <2>1, <2>2 DEF Potati
<1>4. ASSUME NEW p \in Processi, Rilascia(p) PROVE PostiInv'
  <2>1. /\ concorrenza' \subseteq concorrenza
        /\ \A t \in concorrenza : t.di # p => t \in concorrenza'
    BY <1>4 DEF Rilascia, Libera
  <2>2. \E fase, n : Passa(p, fase, n) /\ fase # "inVolo"
    BY <1>4 DEF Rilascia
  <2> QED BY <1>d, <2>1, <2>2
<1>5. ASSUME NEW p \in Processi, RilasciaInterrogazione(p) PROVE PostiInv'
  <2>1. /\ concorrenza' \subseteq concorrenza
        /\ \A t \in concorrenza : t.di # p => t \in concorrenza'
        /\ Passa(p, "finita", 0)
    BY <1>5 DEF RilasciaInterrogazione, Libera
  <2> QED BY <1>d, <2>1
<1>6. ASSUME NEW p \in Processi, Muore(p) PROVE PostiInv'
  BY <1>6, <1>d DEF Muore
<1>7. ASSUME NEW d \in 0 .. Ritardo, StatoAttuale(d) PROVE PostiInv'
  <2>1. d \in Nat
    BY LimiterAssumption
  <2>2. concorrenza' = Potati(concorrenza, TtlConcorrenza, d) /\ proc' = proc
    BY <1>7 DEF StatoAttuale
  <2>3. ASSUME NEW q \in Processi, proc'[q].fase = "inVolo" PROVE Posto(q)'
    BY <2>1, <2>2, <2>3, PostiConservati
  <2> QED BY <1>c, <2>2, <2>3 DEF Potati
<1>8. CASE Passo
  <2>1. /\ concorrenza' = {Invecchia(t, EtaPosto) : t \in concorrenza}
        /\ proc' = [p \in Processi |->
                      IF proc[p].fase \in {"prova", "inVolo"}
                      THEN [proc[p] EXCEPT !.da = @ + 1] ELSE proc[p]]
    BY <1>8 DEF Passo
  <2>2. /\ IsFiniteSet(concorrenza')
        /\ Cardinality(concorrenza') <= Cardinality(concorrenza)
    BY <2>1, InsiemeInvecchiato DEF PostiInv
  <2>3. Cardinality(concorrenza) \in Nat /\ Cardinality(concorrenza') \in Nat
    BY <2>2, FS_CardinalityType DEF PostiInv
  <2>4. ASSUME NEW q \in Processi, proc'[q].fase = "inVolo" PROVE Posto(q)'
    <3>1. proc[q] \in Processo
      BY DEF TypeOK
    <3>2. /\ proc[q].fase = "inVolo"
          /\ proc'[q].n = proc[q].n
          /\ proc'[q].da = proc[q].da + 1
      BY <2>1, <2>4, <3>1 DEF Processo
    <3>3. PICK t \in concorrenza : t.di = q /\ t.n = proc[q].n /\ t.eta <= proc[q].da
      BY <3>2 DEF PostiInv
    <3>4. t \in Gettone /\ t.eta <= EtaPosto
      BY DEF TypeOK
    <3>5. /\ Invecchia(t, EtaPosto).di = q
          /\ Invecchia(t, EtaPosto).n = proc[q].n
          /\ Invecchia(t, EtaPosto).eta <= t.eta + 1
          /\ Invecchia(t, EtaPosto).eta \in Nat
      BY <3>3, <3>4, Soglie, EntrataInvecchiata DEF Entrate, Gettone
    <3>6. Invecchia(t, EtaPosto).eta <= proc'[q].da
      BY <1>a, <3>2, <3>3, <3>4, <3>5 DEF Gettone
    <3> QED BY <2>1, <3>2, <3>5, <3>6
  <2> QED BY <1>b, <2>2, <2>3, <2>4 DEF PostiInv
<1>9. CASE UNCHANGED vars
  BY <1>9 DEF vars, PostiInv
<1> QED BY <1>1, <1>2, <1>3, <1>4, <1>5, <1>6, <1>7, <1>8, <1>9 DEF Next, Procede

\* The limited calls in flight are never more than the places, whatever dies without
\* giving its place back and whatever expires.
THEOREM LimitatoreInVolo == Spec => []InVoloLimitate
<1>1. Init => TypeOK /\ PostiInv
  <2>1. Init => TypeOK
    BY LimiterAssumption DEF Init, TypeOK, Processo, Fasi
  <2>2. IsFiniteSet({}) /\ Cardinality({}) = 0
    BY FS_EmptySet
  <2>3. Init => /\ concorrenza = {}
                /\ \A p \in Processi : proc[p].fase = "attende"
    BY DEF Init
  <2>4. Init => PostiInv
    <3> SUFFICES ASSUME Init PROVE PostiInv
      OBVIOUS
    <3>1. IsFiniteSet(concorrenza) /\ Cardinality(concorrenza) <= ConcorrenzaMassima
      <4>1. concorrenza = {}
        BY DEF Init
      <4> QED BY <2>2, <4>1, LimiterAssumption
    <3>2. \A p \in Processi : proc[p].fase # "inVolo"
      BY <2>3
    <3> QED BY <3>1, <3>2 DEF PostiInv
  <2> QED BY <2>1, <2>4
<1>2. PostiInv => InVoloLimitate
  <2> SUFFICES ASSUME PostiInv PROVE InVoloLimitate
    OBVIOUS
  <2> DEFINE inVolo == {p \in Processi : proc[p].fase = "inVolo"}
             f == [p \in inVolo |-> CHOOSE t \in concorrenza : t.di = p]
  <2>1. \A p \in inVolo : f[p] \in concorrenza /\ f[p].di = p
    BY DEF PostiInv
  <2>2. f \in Injection(inVolo, concorrenza)
    <3>1. f \in [inVolo -> concorrenza]
      BY <2>1
    <3>2. \A p, q \in inVolo : f[p] = f[q] => p = q
      BY <2>1
    <3>3. DOMAIN f = inVolo
      OBVIOUS
    <3> HIDE DEF f, inVolo
    <3>4. IsInjective(f)
      BY <3>2, <3>3 DEF IsInjective
    <3> QED BY <3>1, <3>4 DEF Injection
  <2>3. IsFiniteSet(concorrenza)
    BY DEF PostiInv
  <2>4. IsFiniteSet(inVolo) /\ Cardinality(inVolo) <= Cardinality(concorrenza)
    BY <2>2, <2>3, FS_Injection
  <2>5. Cardinality(inVolo) \in Nat /\ Cardinality(concorrenza) \in Nat
    BY <2>3, <2>4, FS_CardinalityType
  <2> QED BY <2>4, <2>5, LimiterAssumption DEF PostiInv, InVoloLimitate
<1> QED BY <1>1, <1>2, TypeOKPasso, PostiPasso, PTL DEF Spec
===============================================================================
