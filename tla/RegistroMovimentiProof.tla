------------------------ MODULE RegistroMovimentiProof ------------------------
(***************************************************************************)
(* Proofs about RegistroMovimenti: the inductive invariant NumerazioneInv  *)
(* of the numbering and what follows from it, for any clients, FIRs, years *)
(* and commands, and for any hashtext, collisions included.                *)
(***************************************************************************)
EXTENDS RegistroMovimenti, TLAPS

-----------------------------------------------------------------------------
(* The numbers of a year. *)

\* The highest number of a contiguous year is one of its numbers.
LEMMA MassimoContiguo ==
  ASSUME registro \subseteq Movimento, iniziale \in [Anni -> Nat],
         ProgressiviContigui, NEW a \in Anni
  PROVE  /\ Massimo(a) \in Nat
         /\ Primo(a) \in Nat \ {0}
         /\ NumeriDi(a) = {} => Massimo(a) = 0
         /\ NumeriDi(a) # {} => /\ Massimo(a) \in NumeriDi(a)
                                /\ Primo(a) <= Massimo(a)
                                /\ NumeriDi(a) = Primo(a) .. Massimo(a)
<1>1. Primo(a) \in Nat \ {0}
  BY DEF Primo
<1>2. CASE NumeriDi(a) = {}
  BY <1>1, <1>2 DEF Massimo
<1>3. CASE NumeriDi(a) # {}
  <2>1. PICK u \in NumeriDi(a) : NumeriDi(a) = Primo(a) .. u
    BY <1>3 DEF ProgressiviContigui
  <2>2. NumeriDi(a) \subseteq Nat
    BY DEF NumeriDi, Movimento
  <2>3. \A n \in NumeriDi(a) : u >= n
    BY <1>1, <2>1, <2>2
  <2>4. Max(NumeriDi(a)) \in NumeriDi(a) /\ Max(NumeriDi(a)) >= u
    BY <2>1, <2>3 DEF Max
  <2>5. Max(NumeriDi(a)) = u
    BY <2>2, <2>3, <2>4
  <2> QED BY <1>1, <1>3, <2>1, <2>2, <2>5 DEF Massimo
<1> QED BY <1>2, <1>3

-----------------------------------------------------------------------------
(* The shapes of a step: what it does to the transaction that takes it, and *)
(* that it does nothing to the others.                                      *)

\* The other transactions keep their place, what they read and their locks.
AltriFermi(t) ==
  \A u \in Transazioni \ {t} :
    /\ pc'[u] = pc[u]
    /\ annoDi'[u] = annoDi[u]
    /\ numero'[u] = numero[u]
    /\ u \in Richieste => comando'[u] = comando[u]
    /\ \A l \in Lucchetti : blocco[l] = u => blocco'[l] = u

\* The statements a transaction may be at.
PassiDi(t) == IF t \in Richieste THEN PassiMovimento ELSE PassiIniziale

\* Where a transaction may be.
Luoghi == {"FERMA", "FIR", "FINITA"} \cup PassiMovimento \cup PassiIniziale

\* A transaction moves, the others do not.
LEMMA MuovePc ==
  ASSUME TypeOK, NEW t \in Transazioni, NEW passo \in Luoghi, Vai(t, passo)
  PROVE  /\ pc' \in [Transazioni -> Luoghi]
         /\ pc'[t] = passo
         /\ \A u \in Transazioni \ {t} : pc'[u] = pc[u]
BY DEF TypeOK, Vai, Luoghi

\* What is left to show of TypeOK after a step of a transaction.
LEMMA TipoDa ==
  ASSUME TypeOK, NEW t \in Transazioni,
         pc' \in [Transazioni -> Luoghi],
         pc'[t] \in PassiDi(t) \cup {"FINITA"} \/ (t \in Richieste /\ pc'[t] = "FIR"),
         \A u \in Transazioni \ {t} : pc'[u] = pc[u],
         registro' \subseteq Movimento, iniziale' \in [Anni -> Nat],
         firStato' = firStato, annoCorrente' = annoCorrente,
         blocco' \in [Lucchetti -> Transazioni \cup {Libero}],
         comando' \in [Richieste -> Comandi],
         annoDi' \in [Transazioni -> Anni \cup {NessunAnno}],
         numero' \in [Transazioni -> Nat],
         avviso' \in [Transazioni -> Avvisi],
         esito' \in [Transazioni -> Esiti],
         invii' \in 0 .. MaxInvii,
         \A u \in Transazioni \ {t} : annoDi'[u] = annoDi[u],
         pc'[t] # "FINITA" => annoDi'[t] \in Anni
  PROVE  TypeOK'
<1>1. \A r \in Richieste : pc'[r] \notin PassiIniziale \ PassiMovimento
  <2> SUFFICES ASSUME NEW r \in Richieste PROVE pc'[r] \notin PassiIniziale \ PassiMovimento
    OBVIOUS
  <2>1. CASE r = t
    BY <2>1 DEF PassiDi, PassiMovimento, PassiIniziale
  <2>2. CASE r # t
    BY <2>2 DEF TypeOK, Transazioni
  <2> QED BY <2>1, <2>2
<1>2. \A i \in Impostazioni :
        pc'[i] \notin {"FIR"} \cup (PassiMovimento \ PassiIniziale)
  <2> SUFFICES ASSUME NEW i \in Impostazioni
               PROVE  pc'[i] \notin {"FIR"} \cup (PassiMovimento \ PassiIniziale)
    OBVIOUS
  <2>1. CASE i = t
    BY <2>1, RegistroAssumption DEF PassiDi, PassiMovimento, PassiIniziale
  <2>2. CASE i # t
    BY <2>2 DEF TypeOK, Transazioni
  <2> QED BY <2>1, <2>2
<1>3. \A u \in Transazioni : pc'[u] \notin {"FERMA", "FINITA"} => annoDi'[u] \in Anni
  BY DEF TypeOK
<1>4. firStato' \in [Fir -> StatiFir] /\ annoCorrente' \in Anni
  BY DEF TypeOK
<1> QED BY <1>1, <1>2, <1>3, <1>4 DEF TypeOK, Luoghi

\* The end of an execution.
LEMMA EffettoFinisce ==
  ASSUME TypeOK, NEW t \in Transazioni, NEW e \in Esiti, Finisce(t, e),
         firStato' = firStato, annoCorrente' = annoCorrente, comando' = comando, invii' = invii,
         registro' \subseteq Movimento, iniziale' \in [Anni -> Nat]
  PROVE  TypeOK' /\ AltriFermi(t) /\ pc'[t] = "FINITA"
<1>1. /\ pc' \in [Transazioni -> Luoghi]
      /\ pc'[t] = "FINITA"
      /\ \A u \in Transazioni \ {t} : pc'[u] = pc[u]
  BY MuovePc DEF Finisce, Luoghi
<1>2. blocco' \in [Lucchetti -> Transazioni \cup {Libero}]
  BY DEF Finisce, TypeOK
<1>3. /\ annoDi' \in [Transazioni -> Anni \cup {NessunAnno}]
      /\ numero' \in [Transazioni -> Nat]
      /\ avviso' \in [Transazioni -> Avvisi]
      /\ esito' \in [Transazioni -> Esiti]
  BY DEF Finisce, TypeOK, Avvisi
<1>4. AltriFermi(t) /\ pc'[t] = "FINITA"
  <2>1. \A u \in Transazioni \ {t} : annoDi'[u] = annoDi[u] /\ numero'[u] = numero[u]
    BY DEF Finisce, TypeOK
  <2>2. \A u \in Transazioni \ {t}, l \in Lucchetti : blocco[l] = u => blocco'[l] = u
    BY DEF Finisce, TypeOK
  <2> QED BY <1>1, <2>1, <2>2 DEF AltriFermi
<1>5. comando' \in [Richieste -> Comandi] /\ invii' \in 0 .. MaxInvii
  BY DEF TypeOK
<1>6. TypeOK'
  BY <1>1, <1>2, <1>3, <1>4, <1>5, TipoDa DEF AltriFermi
<1> QED BY <1>4, <1>6

\* A statement that only goes on.
LEMMA EffettoProsegue ==
  ASSUME TypeOK, NEW t \in Transazioni, NEW passo \in PassiDi(t),
         pc[t] \notin {"FERMA", "FINITA"}, Vai(t, passo),
         avviso' \in [Transazioni -> Avvisi], numero' \in [Transazioni -> Nat],
         \A u \in Transazioni \ {t} : numero'[u] = numero[u],
         registro' = registro, iniziale' = iniziale,
         firStato' = firStato, annoCorrente' = annoCorrente,
         blocco' = blocco, comando' = comando, annoDi' = annoDi,
         esito' = esito, invii' = invii
  PROVE  TypeOK' /\ AltriFermi(t) /\ pc'[t] = passo
<1>1. passo \in Luoghi
  BY DEF PassiDi, Luoghi
<1>2. /\ pc' \in [Transazioni -> Luoghi]
      /\ pc'[t] = passo
      /\ \A u \in Transazioni \ {t} : pc'[u] = pc[u]
  BY <1>1, MuovePc
<1>3. AltriFermi(t)
  BY <1>2 DEF AltriFermi
<1>4. /\ registro' \subseteq Movimento /\ iniziale' \in [Anni -> Nat]
      /\ blocco' \in [Lucchetti -> Transazioni \cup {Libero}]
      /\ comando' \in [Richieste -> Comandi]
      /\ annoDi' \in [Transazioni -> Anni \cup {NessunAnno}]
      /\ esito' \in [Transazioni -> Esiti]
      /\ invii' \in 0 .. MaxInvii
      /\ annoDi'[t] \in Anni
  BY DEF TypeOK
<1>5. TypeOK'
  BY <1>2, <1>4, TipoDa
<1> QED BY <1>2, <1>3, <1>5

\* A lock granted.
LEMMA EffettoBlocca ==
  ASSUME TypeOK, NEW t \in Transazioni, NEW passo \in PassiDi(t),
         NEW chiave, pc[t] \notin {"FERMA", "FINITA"},
         Blocca(t, chiave, passo)
  PROVE  /\ TypeOK' /\ AltriFermi(t) /\ pc'[t] = passo
         /\ chiave \in Chiavi => blocco'[Hash[chiave]] = t
         /\ \A l \in Lucchetti : blocco[l] = t => blocco'[l] = t
         /\ registro' = registro /\ iniziale' = iniziale
         /\ comando' = comando /\ annoDi' = annoDi /\ numero' = numero
<1>1. passo \in Luoghi
  BY DEF PassiDi, Luoghi
<1>2. chiave \in Chiavi => Hash[chiave] \in Lucchetti
  BY DEF Lucchetti
<1>3. /\ blocco' \in [Lucchetti -> Transazioni \cup {Libero}]
      /\ chiave \in Chiavi => blocco'[Hash[chiave]] = t
      /\ \A l \in Lucchetti : blocco[l] = t => blocco'[l] = t
      /\ \A l \in Lucchetti, u \in Transazioni \ {t} : blocco[l] = u => blocco'[l] = u
  BY <1>2, RegistroAssumption DEF Blocca, TypeOK
<1>4. /\ registro' = registro /\ iniziale' = iniziale
      /\ firStato' = firStato /\ annoCorrente' = annoCorrente
      /\ comando' = comando /\ annoDi' = annoDi /\ numero' = numero
      /\ avviso' = avviso /\ esito' = esito /\ invii' = invii
  BY DEF Blocca, tabelle, ambiente, locali
<1>5. /\ pc' \in [Transazioni -> Luoghi]
      /\ pc'[t] = passo
      /\ \A u \in Transazioni \ {t} : pc'[u] = pc[u]
  BY <1>1, MuovePc DEF Blocca
<1>6. AltriFermi(t)
  BY <1>3, <1>4, <1>5 DEF AltriFermi
<1>7. /\ registro' \subseteq Movimento /\ iniziale' \in [Anni -> Nat]
      /\ comando' \in [Richieste -> Comandi]
      /\ annoDi' \in [Transazioni -> Anni \cup {NessunAnno}]
      /\ numero' \in [Transazioni -> Nat]
      /\ avviso' \in [Transazioni -> Avvisi]
      /\ esito' \in [Transazioni -> Esiti]
      /\ invii' \in 0 .. MaxInvii
      /\ annoDi'[t] \in Anni
  BY <1>4 DEF TypeOK
<1>8. TypeOK'
  BY <1>3, <1>4, <1>5, <1>7, TipoDa
<1> QED BY <1>3, <1>4, <1>5, <1>6, <1>8

-----------------------------------------------------------------------------
(* The invariant, one transaction at a time.                                *)

TieneFir(r) ==
  pc[r] \in OltreFir /\ comando[r].fir # NessunFir =>
    Possiede(r, ChiaveFir(comando[r].fir))

TieneAnno(t) == pc[t] \in OltreAnno => Possiede(t, ChiaveAnno(annoDi[t]))

LetteDaRichiesta(r) ==
  /\ pc[r] \in OltreFir \ {"RICOPIE"} /\ comando[r].fir # NessunFir =>
       Ricopie(comando[r]) = {}
  /\ pc[r] = "INIZIALE" => numero[r] = Massimo(annoDi[r]) + 1
  /\ pc[r] = "INSERT" =>
       numero[r] = Maggiore(Massimo(annoDi[r]) + 1, Primo(annoDi[r]))

LetteDaImpostazione(i) ==
  /\ pc[i] \in PassiIniziale => numero[i] \in Primi
  /\ pc[i] \in {"PRIMO", "CREA"} => iniziale[annoDi[i]] = 0
  /\ pc[i] = "CREA" => NumeriDi(annoDi[i]) = {}

Regolare(t) ==
  /\ TieneAnno(t)
  /\ t \in Richieste => TieneFir(t) /\ LetteDaRichiesta(t)
  /\ t \in Impostazioni => LetteDaImpostazione(t)

LEMMA InvarianteDiviso ==
  NumerazioneInv <=> /\ TypeOK
                  /\ ProgressiviContigui
                  /\ \A t \in Transazioni : Regolare(t)
BY DEF NumerazioneInv, LucchettiTenuti, LettureValide, Regolare, TieneFir, TieneAnno,
       LetteDaRichiesta, LetteDaImpostazione, Transazioni

LEMMA InvarianteRicomposto ==
  ASSUME TypeOK', ProgressiviContigui', \A t \in Transazioni : Regolare(t)'
  PROVE  NumerazioneInv'
BY DEF NumerazioneInv, LucchettiTenuti, LettureValide, Regolare, TieneFir, TieneAnno,
       LetteDaRichiesta, LetteDaImpostazione, Transazioni

\* The keys of a transaction under way are keys.
LEMMA ChiaviDelle ==
  ASSUME TypeOK
  PROVE  /\ \A a \in Anni : ChiaveAnno(a) \in Chiavi
         /\ \A c \in Cer : ChiaveGiacenza(c) \in Chiavi
         /\ \A f \in Fir : ChiaveFir(f) \in Chiavi
         /\ \A k \in Chiavi : Hash[k] \in Lucchetti
         /\ \A r \in Richieste : /\ comando[r] \in Comando
                                 /\ comando[r].cer \in Cer
                                 /\ comando[r].fir \in Fir \cup {NessunFir}
         /\ \A t \in Transazioni : pc[t] \in OltreAnno => annoDi[t] \in Anni
<1>1. /\ \A a \in Anni : ChiaveAnno(a) \in Chiavi
      /\ \A c \in Cer : ChiaveGiacenza(c) \in Chiavi
      /\ \A f \in Fir : ChiaveFir(f) \in Chiavi
  BY DEF Chiavi
<1>2. \A k \in Chiavi : Hash[k] \in Lucchetti
  BY DEF Lucchetti
<1>3. \A r \in Richieste : comando[r] \in Comando
  BY RegistroAssumption DEF TypeOK
<1>4. \A r \in Richieste : /\ comando[r].cer \in Cer
                           /\ comando[r].fir \in Fir \cup {NessunFir}
  BY <1>3 DEF Comando
<1>5. \A t \in Transazioni : pc[t] \in OltreAnno => annoDi[t] \in Anni
  BY DEF TypeOK, OltreAnno, PassiMovimento, PassiIniziale
<1> QED BY <1>1, <1>2, <1>3, <1>4, <1>5

\* Two transactions that number the same year, or that copy the same FIR,
\* are the same one.
LEMMA UnaSola ==
  ASSUME NumerazioneInv
  PROVE  /\ \A t, u \in Transazioni :
              pc[t] \in OltreAnno /\ pc[u] \in OltreAnno /\ annoDi[t] = annoDi[u]
                => t = u
         /\ \A r, q \in Richieste :
              /\ pc[r] \in OltreFir /\ pc[q] \in OltreFir
              /\ comando[r].fir # NessunFir /\ comando[r].fir = comando[q].fir
              => r = q
BY DEF NumerazioneInv, LucchettiTenuti, Possiede

\* A transaction that does not move keeps its locks.
LEMMA AltriTengono ==
  ASSUME NumerazioneInv, NEW t \in Transazioni, AltriFermi(t),
         NEW u \in Transazioni \ {t}
  PROVE  TieneAnno(u)' /\ (u \in Richieste => TieneFir(u)')
<1>0. TypeOK /\ Regolare(u)
  BY InvarianteDiviso DEF NumerazioneInv
<1>1. TieneAnno(u)'
  <2>1. SUFFICES ASSUME pc[u] \in OltreAnno
                 PROVE  blocco'[Hash[ChiaveAnno(annoDi[u])]] = u
    BY DEF TieneAnno, AltriFermi, Possiede, ChiaveAnno
  <2>2. Hash[ChiaveAnno(annoDi[u])] \in Lucchetti
    BY <1>0, <2>1, ChiaviDelle
  <2>3. blocco[Hash[ChiaveAnno(annoDi[u])]] = u
    BY <1>0, <2>1 DEF Regolare, TieneAnno, Possiede
  <2> QED BY <2>2, <2>3 DEF AltriFermi
<1>2. ASSUME u \in Richieste
      PROVE  TieneFir(u)'
  <2>1. SUFFICES ASSUME pc[u] \in OltreFir, comando[u].fir # NessunFir
                 PROVE  blocco'[Hash[ChiaveFir(comando[u].fir)]] = u
    BY <1>2 DEF TieneFir, AltriFermi, Possiede, ChiaveFir
  <2>2. Hash[ChiaveFir(comando[u].fir)] \in Lucchetti
    BY <1>0, <1>2, <2>1, ChiaviDelle
  <2>3. blocco[Hash[ChiaveFir(comando[u].fir)]] = u
    BY <1>0, <1>2, <2>1 DEF Regolare, TieneFir, Possiede
  <2> QED BY <2>2, <2>3 DEF AltriFermi
<1> QED BY <1>1, <1>2

\* A step that writes nothing preserves the invariant if the transaction that
\* takes it does.
LEMMA PassoSenzaScrittura ==
  ASSUME NumerazioneInv, NEW t \in Transazioni, AltriFermi(t), TypeOK',
         registro' = registro, iniziale' = iniziale, Regolare(t)'
  PROVE  NumerazioneInv'
<1>0. TypeOK /\ ProgressiviContigui /\ \A u \in Transazioni : Regolare(u)
  BY InvarianteDiviso
<1>1. ProgressiviContigui'
  BY <1>0 DEF ProgressiviContigui, NumeriDi, Primo
<1>2. ASSUME NEW u \in Transazioni \ {t}
      PROVE  Regolare(u)'
  <2>1. TieneAnno(u)' /\ (u \in Richieste => TieneFir(u)')
    BY AltriTengono
  <2>2. Regolare(u)
    BY <1>0
  <2>3. ASSUME u \in Richieste
        PROVE  LetteDaRichiesta(u)'
    <3>1. /\ pc'[u] = pc[u] /\ numero'[u] = numero[u] /\ annoDi'[u] = annoDi[u]
          /\ comando'[u] = comando[u]
      BY <2>3 DEF AltriFermi
    <3>2. Ricopie(comando[u])' = Ricopie(comando[u])
      BY <3>1 DEF Ricopie
    <3>3. NumeriDi(annoDi[u])' = NumeriDi(annoDi[u])
      BY <3>1 DEF NumeriDi
    <3>4. Massimo(annoDi[u])' = Massimo(annoDi[u]) /\ Primo(annoDi[u])' = Primo(annoDi[u])
      BY <3>1, <3>3 DEF Massimo, Primo
    <3> QED BY <2>2, <2>3, <3>1, <3>2, <3>4 DEF Regolare, LetteDaRichiesta, Maggiore
  <2>4. ASSUME u \in Impostazioni
        PROVE  LetteDaImpostazione(u)'
    BY <2>2, <2>4 DEF Regolare, LetteDaImpostazione, AltriFermi, NumeriDi
  <2> QED BY <2>1, <2>3, <2>4 DEF Regolare
<1>3. \A u \in Transazioni : Regolare(u)'
  BY <1>2
<1> QED BY <1>1, <1>3, InvarianteRicomposto

\* An execution that ends without writing.
LEMMA FineSenzaScrittura ==
  ASSUME NumerazioneInv, NEW t \in Transazioni, NEW e \in Esiti, Finisce(t, e),
         UNCHANGED <<tabelle, ambiente, comando, invii>>
  PROVE  NumerazioneInv'
<1>1. TypeOK
  BY DEF NumerazioneInv
<1>2. /\ registro' = registro /\ iniziale' = iniziale
      /\ firStato' = firStato /\ annoCorrente' = annoCorrente
      /\ comando' = comando /\ invii' = invii
  BY DEF tabelle, ambiente
<1>3. registro' \subseteq Movimento /\ iniziale' \in [Anni -> Nat]
  BY <1>1, <1>2 DEF TypeOK
<1>4. TypeOK' /\ AltriFermi(t) /\ pc'[t] = "FINITA"
  BY <1>1, <1>2, <1>3, EffettoFinisce
<1>5. Regolare(t)'
  BY <1>4 DEF Regolare, TieneAnno, TieneFir, LetteDaRichiesta, LetteDaImpostazione,
              OltreFir, OltreAnno, PassiMovimento, PassiIniziale
<1> QED BY <1>2, <1>4, <1>5, PassoSenzaScrittura

\* A request that goes on after the statements on its FIR.
LEMMA RichiestaContinua ==
  ASSUME NumerazioneInv, NEW r \in Richieste,
         registro' = registro, iniziale' = iniziale,
         comando' = comando, annoDi' = annoDi,
         pc[r] \in OltreFir, pc'[r] \in OltreFir \ {"RICOPIE"},
         \A l \in Lucchetti : blocco[l] = r => blocco'[l] = r,
         pc[r] = "RICOPIE" => Ricopie(comando[r]) = {},
         pc'[r] \in OltreAnno =>
           pc[r] \in OltreAnno \/ blocco'[Hash[ChiaveAnno(annoDi[r])]] = r,
         pc'[r] = "INIZIALE" => numero'[r] = Massimo(annoDi[r]) + 1,
         pc'[r] = "INSERT" =>
           numero'[r] = Maggiore(Massimo(annoDi[r]) + 1, Primo(annoDi[r]))
  PROVE  Regolare(r)'
<1>0. TypeOK /\ r \in Transazioni /\ Regolare(r)
  BY InvarianteDiviso DEF Transazioni
<1>1. TieneAnno(r)'
  <2>1. SUFFICES ASSUME pc'[r] \in OltreAnno, pc[r] \in OltreAnno
                 PROVE  blocco'[Hash[ChiaveAnno(annoDi[r])]] = r
    BY DEF TieneAnno, Possiede, ChiaveAnno
  <2>2. Hash[ChiaveAnno(annoDi[r])] \in Lucchetti
    BY <1>0, <2>1, ChiaviDelle
  <2>3. blocco[Hash[ChiaveAnno(annoDi[r])]] = r
    BY <1>0, <2>1 DEF Regolare, TieneAnno, Possiede
  <2> QED BY <2>2, <2>3
<1>2. TieneFir(r)'
  <2>1. SUFFICES ASSUME comando[r].fir # NessunFir
                 PROVE  blocco'[Hash[ChiaveFir(comando[r].fir)]] = r
    BY DEF TieneFir, Possiede, ChiaveFir
  <2>2. Hash[ChiaveFir(comando[r].fir)] \in Lucchetti
    BY <1>0, <2>1, ChiaviDelle
  <2>3. blocco[Hash[ChiaveFir(comando[r].fir)]] = r
    BY <1>0, <2>1 DEF Regolare, TieneFir, Possiede
  <2> QED BY <2>2, <2>3
<1>3. LetteDaRichiesta(r)'
  <2>1. Ricopie(comando[r])' = Ricopie(comando[r])
    BY DEF Ricopie
  <2>2. NumeriDi(annoDi[r])' = NumeriDi(annoDi[r])
    BY DEF NumeriDi
  <2>3. Massimo(annoDi[r])' = Massimo(annoDi[r]) /\ Primo(annoDi[r])' = Primo(annoDi[r])
    BY <2>2 DEF Massimo, Primo
  <2>4. comando[r].fir # NessunFir => Ricopie(comando[r]) = {}
    BY <1>0 DEF Regolare, LetteDaRichiesta
  <2> QED BY <2>1, <2>3, <2>4 DEF LetteDaRichiesta, Maggiore
<1>4. r \notin Impostazioni
  BY RegistroAssumption
<1> QED BY <1>1, <1>2, <1>3, <1>4 DEF Regolare

-----------------------------------------------------------------------------
(* Every action preserves the invariant. *)

LEMMA PassoParte ==
  ASSUME NumerazioneInv, NEW r \in Richieste, NEW c \in Comandi,
         pc[r] \in {"FERMA", "FINITA"}, Parte(r, c)
  PROVE  NumerazioneInv'
<1>0. TypeOK /\ r \in Transazioni /\ r \notin Impostazioni
  BY RegistroAssumption DEF NumerazioneInv, Transazioni
<1> DEFINE passo == IF c.fir = NessunFir THEN "BLOCCO_ANNO" ELSE "FIR"
<1>1. /\ pc' \in [Transazioni -> Luoghi]
      /\ pc'[r] = passo
      /\ \A u \in Transazioni \ {r} : pc'[u] = pc[u]
  <2>1. passo \in Luoghi
    BY DEF Luoghi, PassiMovimento
  <2>2. Vai(r, passo)
    BY DEF Parte
  <2> QED BY <1>0, <2>1, <2>2, MuovePc
<1>2. /\ registro' = registro /\ iniziale' = iniziale
      /\ firStato' = firStato /\ annoCorrente' = annoCorrente
      /\ blocco' = blocco /\ numero' = numero /\ avviso' = avviso /\ esito' = esito
  BY DEF Parte, tabelle, ambiente
<1>3. comando' = [comando EXCEPT ![r] = c] /\ annoDi' = [annoDi EXCEPT ![r] = annoCorrente]
  BY DEF Parte
<1>4. invii' \in 0 .. MaxInvii
  BY <1>0, RegistroAssumption DEF Parte, TypeOK
<1>5. /\ comando' \in [Richieste -> Comandi]
      /\ comando'[r] = c
      /\ \A q \in Richieste \ {r} : comando'[q] = comando[q]
      /\ annoDi' \in [Transazioni -> Anni \cup {NessunAnno}]
      /\ annoDi'[r] \in Anni
      /\ \A u \in Transazioni \ {r} : annoDi'[u] = annoDi[u]
  BY <1>0, <1>3 DEF TypeOK
<1>6. /\ registro' \subseteq Movimento /\ iniziale' \in [Anni -> Nat]
      /\ blocco' \in [Lucchetti -> Transazioni \cup {Libero}]
      /\ numero' \in [Transazioni -> Nat]
      /\ avviso' \in [Transazioni -> Avvisi]
      /\ esito' \in [Transazioni -> Esiti]
  BY <1>0, <1>2 DEF TypeOK
<1>7. pc'[r] \in PassiDi(r) \cup {"FINITA"} \/ (r \in Richieste /\ pc'[r] = "FIR")
  BY <1>1 DEF PassiDi, PassiMovimento
<1>8. TypeOK'
  BY <1>0, <1>1, <1>2, <1>4, <1>5, <1>6, <1>7, TipoDa
<1>9. AltriFermi(r)
  BY <1>1, <1>2, <1>5 DEF AltriFermi
<1>10. Regolare(r)'
  BY <1>0, <1>1, <1>5 DEF Regolare, TieneAnno, TieneFir, LetteDaRichiesta, OltreFir,
                          OltreAnno, PassiMovimento, PassiIniziale
<1> QED BY <1>0, <1>2, <1>8, <1>9, <1>10, PassoSenzaScrittura

LEMMA PassoLeggeFir ==
  ASSUME NumerazioneInv, NEW r \in Richieste, LeggeFir(r)
  PROVE  NumerazioneInv'
<1>0. TypeOK /\ r \in Transazioni /\ r \notin Impostazioni
  BY RegistroAssumption DEF NumerazioneInv, Transazioni
<1>1. CASE Finisce(r, "NON_COLLEGABILE")
  BY <1>0, <1>1, FineSenzaScrittura DEF LeggeFir, Esiti
<1>2. CASE Prosegue(r, "BLOCCO_FIR")
  <2>1. /\ registro' = registro /\ iniziale' = iniziale
        /\ firStato' = firStato /\ annoCorrente' = annoCorrente
        /\ blocco' = blocco /\ numero' = numero /\ avviso' = avviso /\ esito' = esito
        /\ comando' = comando /\ annoDi' = annoDi /\ invii' = invii
        /\ Vai(r, "BLOCCO_FIR") /\ pc[r] = "FIR"
    BY <1>2 DEF LeggeFir, Prosegue, tabelle, ambiente, locali
  <2>2. "BLOCCO_FIR" \in PassiDi(r)
    BY DEF PassiDi, PassiMovimento
  <2>3. numero' \in [Transazioni -> Nat] /\ avviso' \in [Transazioni -> Avvisi]
    BY <1>0, <2>1 DEF TypeOK
  <2>4. TypeOK' /\ AltriFermi(r) /\ pc'[r] = "BLOCCO_FIR"
    BY <1>0, <2>1, <2>2, <2>3, EffettoProsegue
  <2>5. Regolare(r)'
    BY <1>0, <2>4 DEF Regolare, TieneAnno, TieneFir, LetteDaRichiesta, OltreFir,
                      OltreAnno, PassiMovimento, PassiIniziale
  <2> QED BY <1>0, <2>1, <2>4, <2>5, PassoSenzaScrittura
<1> QED BY <1>1, <1>2 DEF LeggeFir

LEMMA PassoBloccaFir ==
  ASSUME NumerazioneInv, NEW r \in Richieste, BloccaFir(r)
  PROVE  NumerazioneInv'
<1>0. TypeOK /\ r \in Transazioni /\ r \notin Impostazioni
  BY RegistroAssumption DEF NumerazioneInv, Transazioni
<1> DEFINE k == ChiaveFir(comando[r].fir)
<1>1. "RICOPIE" \in PassiDi(r)
  BY DEF PassiDi, PassiMovimento
<1>2. /\ TypeOK' /\ AltriFermi(r) /\ pc'[r] = "RICOPIE"
      /\ k \in Chiavi => blocco'[Hash[k]] = r
      /\ registro' = registro /\ iniziale' = iniziale /\ comando' = comando
  <2>1. pc[r] = "BLOCCO_FIR" /\ Blocca(r, k, "RICOPIE")
    BY DEF BloccaFir
  <2> HIDE DEF k
  <2> QED BY <1>0, <1>1, <2>1, EffettoBlocca
<1>3. TieneFir(r)'
  BY <1>0, <1>2, ChiaviDelle DEF TieneFir, Possiede, ChiaveFir
<1>4. Regolare(r)'
  BY <1>0, <1>2, <1>3 DEF Regolare, TieneAnno, LetteDaRichiesta, OltreAnno
<1> QED BY <1>0, <1>2, <1>4, PassoSenzaScrittura

LEMMA PassoLeggeRicopie ==
  ASSUME NumerazioneInv, NEW r \in Richieste, LeggeRicopie(r)
  PROVE  NumerazioneInv'
<1>0. TypeOK /\ r \in Transazioni
  BY DEF NumerazioneInv, Transazioni
<1>1. CASE Ricopie(comando[r]) # {}
  <2>1. PICK e \in Esiti : Finisce(r, e)
    BY <1>1 DEF LeggeRicopie, Esiti
  <2> QED BY <1>0, <2>1, FineSenzaScrittura DEF LeggeRicopie
<1>2. CASE Ricopie(comando[r]) = {}
  <2>1. /\ registro' = registro /\ iniziale' = iniziale
        /\ firStato' = firStato /\ annoCorrente' = annoCorrente
        /\ blocco' = blocco /\ numero' = numero /\ avviso' = avviso /\ esito' = esito
        /\ comando' = comando /\ annoDi' = annoDi /\ invii' = invii
        /\ Vai(r, "BLOCCO_ANNO") /\ pc[r] = "RICOPIE"
    BY <1>2 DEF LeggeRicopie, Prosegue, tabelle, ambiente, locali
  <2>2. "BLOCCO_ANNO" \in PassiDi(r)
    BY DEF PassiDi, PassiMovimento
  <2>3. numero' \in [Transazioni -> Nat] /\ avviso' \in [Transazioni -> Avvisi]
    BY <1>0, <2>1 DEF TypeOK
  <2>4. TypeOK' /\ AltriFermi(r) /\ pc'[r] = "BLOCCO_ANNO"
    BY <1>0, <2>1, <2>2, <2>3, EffettoProsegue
  <2>5. Regolare(r)'
    BY <1>2, <2>1, <2>4, RichiestaContinua DEF OltreFir, OltreAnno, PassiMovimento
  <2> QED BY <1>0, <2>1, <2>4, <2>5, PassoSenzaScrittura
<1> QED BY <1>1, <1>2

LEMMA PassoBloccaAnno ==
  ASSUME NumerazioneInv, NEW r \in Richieste, BloccaAnno(r)
  PROVE  NumerazioneInv'
<1>0. TypeOK /\ r \in Transazioni
  BY DEF NumerazioneInv, Transazioni
<1> DEFINE k == ChiaveAnno(annoDi[r])
           passo == IF Controllato(comando[r]) THEN "BLOCCO_GIACENZA" ELSE "MASSIMO"
<1>1. passo \in PassiDi(r) /\ passo \in {"BLOCCO_GIACENZA", "MASSIMO"}
  BY DEF PassiDi, PassiMovimento
<1>2. pc[r] = "BLOCCO_ANNO" /\ Blocca(r, k, passo)
  BY DEF BloccaAnno
<1>3. k \in Chiavi
  BY <1>0, <1>2, ChiaviDelle DEF TypeOK
<1>4. /\ TypeOK' /\ AltriFermi(r) /\ pc'[r] = passo
      /\ blocco'[Hash[k]] = r
      /\ \A l \in Lucchetti : blocco[l] = r => blocco'[l] = r
      /\ registro' = registro /\ iniziale' = iniziale
      /\ comando' = comando /\ annoDi' = annoDi
  <2> HIDE DEF k, passo
  <2> QED BY <1>0, <1>1, <1>2, <1>3, EffettoBlocca
<1>5. Regolare(r)'
  <2>1. pc'[r] \in {"BLOCCO_GIACENZA", "MASSIMO"}
    BY <1>1, <1>4
  <2> HIDE DEF passo
  <2> QED BY <1>2, <1>4, <2>1, RichiestaContinua DEF OltreFir, OltreAnno, PassiMovimento
<1> QED BY <1>0, <1>4, <1>5, PassoSenzaScrittura

LEMMA PassoBloccaGiacenza ==
  ASSUME NumerazioneInv, NEW r \in Richieste, BloccaGiacenza(r)
  PROVE  NumerazioneInv'
<1>0. TypeOK /\ r \in Transazioni
  BY DEF NumerazioneInv, Transazioni
<1> DEFINE k == ChiaveGiacenza(comando[r].cer)
<1>1. "GIACENZA" \in PassiDi(r)
  BY DEF PassiDi, PassiMovimento
<1>2. pc[r] = "BLOCCO_GIACENZA" /\ Blocca(r, k, "GIACENZA")
  BY DEF BloccaGiacenza
<1>3. /\ TypeOK' /\ AltriFermi(r) /\ pc'[r] = "GIACENZA"
      /\ \A l \in Lucchetti : blocco[l] = r => blocco'[l] = r
      /\ registro' = registro /\ iniziale' = iniziale
      /\ comando' = comando /\ annoDi' = annoDi
  <2> HIDE DEF k
  <2> QED BY <1>0, <1>1, <1>2, EffettoBlocca
<1>4. Regolare(r)'
  BY <1>2, <1>3, RichiestaContinua DEF OltreFir, OltreAnno, PassiMovimento
<1> QED BY <1>0, <1>3, <1>4, PassoSenzaScrittura

LEMMA PassoVerificaGiacenza ==
  ASSUME NumerazioneInv, NEW r \in Richieste, VerificaGiacenza(r)
  PROVE  NumerazioneInv'
<1>0. TypeOK /\ r \in Transazioni
  BY DEF NumerazioneInv, Transazioni
<1>1. CASE Finisce(r, "GIACENZA")
  BY <1>0, <1>1, FineSenzaScrittura DEF VerificaGiacenza, Esiti
<1>2. CASE /\ \E a \in Avvisi : avviso' = [avviso EXCEPT ![r] = a]
           /\ Vai(r, "MASSIMO")
           /\ UNCHANGED <<blocco, annoDi, numero, esito>>
  <2>1. /\ registro' = registro /\ iniziale' = iniziale
        /\ firStato' = firStato /\ annoCorrente' = annoCorrente
        /\ blocco' = blocco /\ numero' = numero /\ esito' = esito
        /\ comando' = comando /\ annoDi' = annoDi /\ invii' = invii
        /\ pc[r] = "GIACENZA"
    BY <1>2 DEF VerificaGiacenza, tabelle, ambiente
  <2>2. "MASSIMO" \in PassiDi(r)
    BY DEF PassiDi, PassiMovimento
  <2>3. numero' \in [Transazioni -> Nat] /\ avviso' \in [Transazioni -> Avvisi]
    BY <1>0, <1>2, <2>1 DEF TypeOK
  <2>4. TypeOK' /\ AltriFermi(r) /\ pc'[r] = "MASSIMO"
    BY <1>0, <1>2, <2>1, <2>2, <2>3, EffettoProsegue
  <2>5. Regolare(r)'
    BY <2>1, <2>4, RichiestaContinua DEF OltreFir, OltreAnno, PassiMovimento
  <2> QED BY <1>0, <2>1, <2>4, <2>5, PassoSenzaScrittura
<1>3. \A c, coperto : Avviso(c, coperto) \in Avvisi
  BY DEF Avviso, Avvisi
<1> QED BY <1>1, <1>2, <1>3 DEF VerificaGiacenza

\* The two statements that carry the number.
LEMMA PassoNumera ==
  ASSUME NumerazioneInv, NEW r \in Richieste, NEW n \in Nat,
         NEW passo \in {"INIZIALE", "INSERT"}, pc[r] \in {"MASSIMO", "INIZIALE"},
         Numera(r, n, passo),
         passo = "INIZIALE" => n = Massimo(annoDi[r]) + 1,
         passo = "INSERT" => n = Maggiore(Massimo(annoDi[r]) + 1, Primo(annoDi[r]))
  PROVE  NumerazioneInv'
<1>0. TypeOK /\ r \in Transazioni
  BY DEF NumerazioneInv, Transazioni
<1>1. /\ registro' = registro /\ iniziale' = iniziale
      /\ firStato' = firStato /\ annoCorrente' = annoCorrente
      /\ blocco' = blocco /\ avviso' = avviso /\ esito' = esito
      /\ comando' = comando /\ annoDi' = annoDi /\ invii' = invii
      /\ numero' = [numero EXCEPT ![r] = n] /\ Vai(r, passo)
  BY DEF Numera, tabelle, ambiente
<1>2. passo \in PassiDi(r)
  BY DEF PassiDi, PassiMovimento
<1>3. /\ numero' \in [Transazioni -> Nat] /\ numero'[r] = n
      /\ \A u \in Transazioni \ {r} : numero'[u] = numero[u]
      /\ avviso' \in [Transazioni -> Avvisi]
  BY <1>0, <1>1 DEF TypeOK
<1>4. TypeOK' /\ AltriFermi(r) /\ pc'[r] = passo
  BY <1>0, <1>1, <1>2, <1>3, EffettoProsegue
<1>5. Regolare(r)'
  BY <1>1, <1>3, <1>4, RichiestaContinua DEF OltreFir, OltreAnno, PassiMovimento
<1> QED BY <1>0, <1>1, <1>4, <1>5, PassoSenzaScrittura

LEMMA PassoLeggeMassimo ==
  ASSUME NumerazioneInv, NEW r \in Richieste, LeggeMassimo(r)
  PROVE  NumerazioneInv'
<1>1. TypeOK /\ ProgressiviContigui /\ annoDi[r] \in Anni
  BY DEF NumerazioneInv, TypeOK, LeggeMassimo, Transazioni
<1>2. Massimo(annoDi[r]) + 1 \in Nat
  BY <1>1, MassimoContiguo DEF TypeOK
<1> DEFINE n == Massimo(annoDi[r]) + 1
<1>3. pc[r] = "MASSIMO" /\ Numera(r, n, "INIZIALE") /\ n \in Nat
  BY <1>2 DEF LeggeMassimo
<1>4. n = Massimo(annoDi[r]) + 1
  OBVIOUS
<1> HIDE DEF n
<1> QED BY <1>3, <1>4, PassoNumera

LEMMA PassoLeggeIniziale ==
  ASSUME NumerazioneInv, NEW r \in Richieste, LeggeIniziale(r)
  PROVE  NumerazioneInv'
<1>1. TypeOK /\ ProgressiviContigui /\ annoDi[r] \in Anni
  BY DEF NumerazioneInv, TypeOK, LeggeIniziale, Transazioni
<1>2. Massimo(annoDi[r]) \in Nat /\ Primo(annoDi[r]) \in Nat
  BY <1>1, MassimoContiguo DEF TypeOK
<1> DEFINE n == Maggiore(numero[r], Primo(annoDi[r]))
<1>3. numero[r] = Massimo(annoDi[r]) + 1
  BY DEF LeggeIniziale, NumerazioneInv, LettureValide
<1>4. n = Maggiore(Massimo(annoDi[r]) + 1, Primo(annoDi[r]))
  BY <1>3
<1>5. pc[r] = "INIZIALE" /\ Numera(r, n, "INSERT") /\ n \in Nat
  BY <1>2, <1>3 DEF LeggeIniziale, Maggiore
<1> HIDE DEF n
<1> QED BY <1>4, <1>5, PassoNumera

\* What the row about to be written is worth to the register: its number is
\* the one that follows, and its FIR is not copied yet.
LEMMA RigaNuova ==
  ASSUME NumerazioneInv, NEW r \in Richieste, pc[r] = "INSERT"
  PROVE  /\ annoDi[r] \in Anni
         /\ numero[r] = IF NumeriDi(annoDi[r]) = {} THEN Primo(annoDi[r])
                                                    ELSE Massimo(annoDi[r]) + 1
         /\ Riga(r) \in Movimento
         /\ ~NumeroDoppio(Riga(r)) /\ ~RicopiaDoppia(Riga(r))
<1>0. TypeOK /\ ProgressiviContigui /\ LettureValide /\ annoDi[r] \in Anni
  BY DEF NumerazioneInv, TypeOK, Transazioni
<1> DEFINE a == annoDi[r]
<1>1. /\ Massimo(a) \in Nat /\ Primo(a) \in Nat \ {0}
      /\ NumeriDi(a) = {} => Massimo(a) = 0
      /\ NumeriDi(a) # {} => Primo(a) <= Massimo(a) /\ NumeriDi(a) = Primo(a) .. Massimo(a)
  BY <1>0, MassimoContiguo DEF TypeOK
<1>2. numero[r] = Maggiore(Massimo(a) + 1, Primo(a))
  BY <1>0 DEF LettureValide
<1>3. /\ NumeriDi(a) = {} => numero[r] = Primo(a)
      /\ NumeriDi(a) # {} => numero[r] = Massimo(a) + 1
      /\ numero[r] \in Nat \ {0}
  BY <1>1, <1>2 DEF Maggiore
<1>4. numero[r] \notin NumeriDi(a)
  BY <1>1, <1>3
<1>5. Riga(r) \in Movimento
  <2>1. comando[r] \in Comando
    BY <1>0, ChiaviDelle
  <2> DEFINE b == comando[r].fir # NessunFir
  <2> HIDE DEF b
  <2>2. b \in BOOLEAN
    BY DEF b
  <2> QED BY <1>0, <1>3, <2>1, <2>2 DEF Riga, Movimento, Comando, b
<1>6. ~NumeroDoppio(Riga(r))
  BY <1>4 DEF NumeroDoppio, Riga, NumeriDi
<1>7. ~RicopiaDoppia(Riga(r))
  <2>1. comando[r].fir # NessunFir => Ricopie(comando[r]) = {}
    BY <1>0 DEF LettureValide, OltreFir, PassiMovimento
  <2> QED BY <2>1, Zenon DEF RicopiaDoppia, Riga, Ricopie
<1> QED BY <1>0, <1>3, <1>5, <1>6, <1>7

\* The other transactions do not see the new row: those past the lock number
\* another year, those that copy a FIR copy another one.
LEMMA AltriNonVedono ==
  ASSUME NumerazioneInv, NEW r \in Richieste, pc[r] = "INSERT", AltriFermi(r),
         registro' = registro \cup {Riga(r)}, iniziale' = iniziale,
         NEW u \in Transazioni \ {r}
  PROVE  Regolare(u)'
<1>0. TypeOK /\ Regolare(u) /\ r \in Transazioni
  BY InvarianteDiviso DEF Transazioni
<1>1. TieneAnno(u)' /\ (u \in Richieste => TieneFir(u)')
  BY <1>0, AltriTengono
<1>2. /\ pc'[u] = pc[u] /\ annoDi'[u] = annoDi[u] /\ numero'[u] = numero[u]
      /\ u \in Richieste => comando'[u] = comando[u]
  BY DEF AltriFermi
<1>3. ASSUME pc[u] \in OltreAnno
      PROVE  NumeriDi(annoDi[u])' = NumeriDi(annoDi[u])
  <2>1. annoDi[u] # annoDi[r]
    BY <1>0, <1>3, UnaSola DEF OltreAnno, PassiMovimento
  <2>2. Riga(r).anno = annoDi[r]
    BY DEF Riga
  <2> QED BY <1>2, <2>1, <2>2 DEF NumeriDi
<1>4. ASSUME u \in Richieste, pc[u] \in OltreFir, comando[u].fir # NessunFir
      PROVE  Ricopie(comando[u])' = Ricopie(comando[u])
  <2>1. comando[u].fir # comando[r].fir
    BY <1>4, UnaSola DEF OltreFir, PassiMovimento
  <2>2. Riga(r).fir = comando[r].fir
    BY DEF Riga
  <2> QED BY <1>2, <1>4, <2>1, <2>2 DEF Ricopie
<1>5. ASSUME u \in Richieste
      PROVE  LetteDaRichiesta(u)'
  <2>1. pc[u] \in {"INIZIALE", "INSERT"} =>
          Massimo(annoDi[u])' = Massimo(annoDi[u]) /\ Primo(annoDi[u])' = Primo(annoDi[u])
    BY <1>2, <1>3 DEF Massimo, Primo, OltreAnno, PassiMovimento
  <2> QED BY <1>0, <1>2, <1>4, <1>5, <2>1 DEF Regolare, LetteDaRichiesta, Maggiore
<1>6. ASSUME u \in Impostazioni
      PROVE  LetteDaImpostazione(u)'
  <2>1. pc[u] = "CREA" => NumeriDi(annoDi[u])' = NumeriDi(annoDi[u])
    BY <1>3 DEF OltreAnno, PassiIniziale
  <2> QED BY <1>0, <1>2, <1>6, <2>1 DEF Regolare, LetteDaImpostazione
<1> QED BY <1>1, <1>5, <1>6 DEF Regolare

\* The new row continues its year.
LEMMA RigaContigua ==
  ASSUME NumerazioneInv, NEW r \in Richieste, pc[r] = "INSERT",
         registro' = registro \cup {Riga(r)}, iniziale' = iniziale
  PROVE  ProgressiviContigui'
<1>0. TypeOK /\ ProgressiviContigui
  BY DEF NumerazioneInv
<1> DEFINE a == annoDi[r]
           n == numero[r]
<1>1. /\ a \in Anni
      /\ n = IF NumeriDi(a) = {} THEN Primo(a) ELSE Massimo(a) + 1
      /\ ~NumeroDoppio(Riga(r))
  BY RigaNuova
<1>2. Riga(r).anno = a /\ Riga(r).numero = n
  BY DEF Riga
<1>3. \A m, q \in registro' : m.anno = q.anno /\ m.numero = q.numero => m = q
  BY <1>0, <1>1, <1>2 DEF ProgressiviContigui, NumeroDoppio
<1>4. ASSUME NEW b \in Anni, NumeriDi(b)' # {}
      PROVE  \E ultimo \in NumeriDi(b)' : NumeriDi(b)' = Primo(b)' .. ultimo
  <2>1. Primo(b)' = Primo(b)
    BY DEF Primo
  <2>2. CASE b # a
    <3>1. NumeriDi(b)' = NumeriDi(b)
      BY <1>2, <2>2 DEF NumeriDi
    <3> QED BY <1>0, <1>4, <2>1, <3>1 DEF ProgressiviContigui
  <2>3. CASE b = a
    <3>1. NumeriDi(b)' = NumeriDi(b) \cup {n}
      <4> HIDE DEF n
      <4>1. \A x : x \in NumeriDi(b)' <=> \E m \in registro \cup {Riga(r)} :
                                            m.anno = b /\ x = m.numero
        BY DEF NumeriDi
      <4>2. \A x : x \in NumeriDi(b) <=> \E m \in registro : m.anno = b /\ x = m.numero
        BY DEF NumeriDi
      <4> QED BY <1>2, <2>3, <4>1, <4>2
    <3>2. /\ Massimo(b) \in Nat /\ Primo(b) \in Nat \ {0}
          /\ NumeriDi(b) # {} => Primo(b) <= Massimo(b)
                                 /\ NumeriDi(b) = Primo(b) .. Massimo(b)
      BY <1>0, MassimoContiguo DEF TypeOK
    <3>3. NumeriDi(b)' = Primo(b) .. n
      <4> HIDE DEF n
      <4> QED BY <1>1, <2>3, <3>1, <3>2
    <3> QED BY <2>1, <3>1, <3>3
  <2> QED BY <2>2, <2>3
<1> QED BY <1>3, <1>4 DEF ProgressiviContigui

LEMMA PassoInserisce ==
  ASSUME NumerazioneInv, NEW r \in Richieste, Inserisce(r)
  PROVE  NumerazioneInv'
<1>0. TypeOK /\ r \in Transazioni
  BY DEF NumerazioneInv, Transazioni
<1>1. /\ pc[r] = "INSERT"
      /\ iniziale' = iniziale /\ firStato' = firStato /\ annoCorrente' = annoCorrente
      /\ comando' = comando /\ invii' = invii
  BY DEF Inserisce, ambiente
<1>2. Riga(r) \in Movimento /\ ~NumeroDoppio(Riga(r)) /\ ~RicopiaDoppia(Riga(r))
  BY <1>1, RigaNuova
<1>3. /\ registro' = registro \cup {Riga(r)}
      /\ \E e \in Esiti : Finisce(r, e)
  BY <1>2 DEF Inserisce, Esiti
<1>4. PICK e \in Esiti : Finisce(r, e)
  BY <1>3
<1>5. registro' \subseteq Movimento /\ iniziale' \in [Anni -> Nat]
  BY <1>0, <1>1, <1>2, <1>3 DEF TypeOK
<1>6. TypeOK' /\ AltriFermi(r) /\ pc'[r] = "FINITA"
  BY <1>0, <1>1, <1>4, <1>5, EffettoFinisce
<1>7. Regolare(r)'
  BY <1>6 DEF Regolare, TieneAnno, TieneFir, LetteDaRichiesta, LetteDaImpostazione,
              OltreFir, OltreAnno, PassiMovimento, PassiIniziale
<1>8. ASSUME NEW u \in Transazioni \ {r} PROVE Regolare(u)'
  BY <1>1, <1>3, <1>6, AltriNonVedono
<1>9. ProgressiviContigui'
  BY <1>1, <1>3, RigaContigua
<1> QED BY <1>6, <1>7, <1>8, <1>9, InvarianteRicomposto

LEMMA PassoChiedeIniziale ==
  ASSUME NumerazioneInv, NEW i \in Impostazioni, ChiedeIniziale(i)
  PROVE  NumerazioneInv'
<1>0. TypeOK /\ i \in Transazioni /\ i \notin Richieste
  BY RegistroAssumption DEF NumerazioneInv, Transazioni
<1>1. PICK a \in Anni, p \in Primi : /\ annoDi' = [annoDi EXCEPT ![i] = a]
                                     /\ numero' = [numero EXCEPT ![i] = p]
  BY DEF ChiedeIniziale
<1>2. /\ registro' = registro /\ iniziale' = iniziale
      /\ firStato' = firStato /\ annoCorrente' = annoCorrente
      /\ blocco' = blocco /\ comando' = comando /\ avviso' = avviso
      /\ esito' = esito /\ invii' = invii
      /\ Vai(i, "BLOCCO_ANNO")
  BY DEF ChiedeIniziale, tabelle, ambiente
<1>3. /\ pc' \in [Transazioni -> Luoghi]
      /\ pc'[i] = "BLOCCO_ANNO"
      /\ \A u \in Transazioni \ {i} : pc'[u] = pc[u]
  BY <1>0, <1>2, MuovePc DEF Luoghi, PassiIniziale
<1>4. p \in Nat \ {0}
  BY RegistroAssumption
<1>5. /\ annoDi' \in [Transazioni -> Anni \cup {NessunAnno}] /\ annoDi'[i] = a
      /\ numero' \in [Transazioni -> Nat] /\ numero'[i] = p
      /\ \A u \in Transazioni \ {i} : annoDi'[u] = annoDi[u] /\ numero'[u] = numero[u]
  BY <1>0, <1>1, <1>4 DEF TypeOK
<1>6. /\ registro' \subseteq Movimento /\ iniziale' \in [Anni -> Nat]
      /\ blocco' \in [Lucchetti -> Transazioni \cup {Libero}]
      /\ comando' \in [Richieste -> Comandi]
      /\ avviso' \in [Transazioni -> Avvisi]
      /\ esito' \in [Transazioni -> Esiti]
      /\ invii' \in 0 .. MaxInvii
  BY <1>0, <1>2 DEF TypeOK
<1>7. pc'[i] \in PassiDi(i) \cup {"FINITA"} \/ (i \in Richieste /\ pc'[i] = "FIR")
  BY <1>0, <1>3 DEF PassiDi, PassiIniziale
<1>8. TypeOK'
  BY <1>0, <1>2, <1>3, <1>5, <1>6, <1>7, TipoDa
<1>9. AltriFermi(i)
  BY <1>2, <1>3, <1>5 DEF AltriFermi
<1>10. Regolare(i)'
  BY <1>0, <1>3, <1>4, <1>5 DEF Regolare, TieneAnno, LetteDaImpostazione, OltreAnno
<1> QED BY <1>0, <1>2, <1>8, <1>9, <1>10, PassoSenzaScrittura

\* An administrator's transaction that goes on.
LEMMA ImpostazioneContinua ==
  ASSUME NumerazioneInv, NEW i \in Impostazioni, NEW passo \in {"PRIMO", "CREA"},
         Prosegue(i, passo), UNCHANGED <<tabelle, ambiente, comando, invii>>,
         pc[i] \in OltreAnno \cap PassiIniziale,
         iniziale[annoDi[i]] = 0,
         passo = "CREA" => NumeriDi(annoDi[i]) = {}
  PROVE  NumerazioneInv'
<1>0. TypeOK /\ i \in Transazioni /\ i \notin Richieste /\ Regolare(i)
  BY RegistroAssumption, InvarianteDiviso DEF Transazioni
<1>1. /\ registro' = registro /\ iniziale' = iniziale
      /\ firStato' = firStato /\ annoCorrente' = annoCorrente
      /\ blocco' = blocco /\ numero' = numero /\ avviso' = avviso /\ esito' = esito
      /\ comando' = comando /\ annoDi' = annoDi /\ invii' = invii
      /\ Vai(i, passo)
  BY DEF Prosegue, tabelle, ambiente, locali
<1>2. passo \in PassiDi(i)
  BY <1>0 DEF PassiDi, PassiIniziale
<1>3. numero' \in [Transazioni -> Nat] /\ avviso' \in [Transazioni -> Avvisi]
  BY <1>0, <1>1 DEF TypeOK
<1>4. pc[i] \notin {"FERMA", "FINITA"}
  BY DEF PassiIniziale
<1>5. TypeOK' /\ AltriFermi(i) /\ pc'[i] = passo
  BY <1>0, <1>1, <1>2, <1>3, <1>4, EffettoProsegue
<1>6. TieneAnno(i)'
  BY <1>0, <1>1 DEF Regolare, TieneAnno, Possiede, ChiaveAnno
<1>7. NumeriDi(annoDi[i])' = NumeriDi(annoDi[i])
  BY <1>1 DEF NumeriDi
<1>8. LetteDaImpostazione(i)'
  BY <1>0, <1>1, <1>5, <1>7 DEF Regolare, LetteDaImpostazione
<1>9. Regolare(i)'
  BY <1>0, <1>6, <1>8 DEF Regolare
<1> QED BY <1>0, <1>1, <1>5, <1>9, PassoSenzaScrittura

LEMMA PassoBloccaAnnoIniziale ==
  ASSUME NumerazioneInv, NEW i \in Impostazioni, BloccaAnnoIniziale(i)
  PROVE  NumerazioneInv'
<1>0. TypeOK /\ i \in Transazioni /\ i \notin Richieste /\ Regolare(i)
  BY RegistroAssumption, InvarianteDiviso DEF Transazioni
<1> DEFINE k == ChiaveAnno(annoDi[i])
<1>1. "ESISTENTE" \in PassiDi(i)
  BY <1>0 DEF PassiDi, PassiIniziale
<1>2. pc[i] = "BLOCCO_ANNO" /\ Blocca(i, k, "ESISTENTE")
  BY DEF BloccaAnnoIniziale
<1>3. k \in Chiavi
  BY <1>0, <1>2, ChiaviDelle DEF TypeOK
<1>4. /\ TypeOK' /\ AltriFermi(i) /\ pc'[i] = "ESISTENTE"
      /\ blocco'[Hash[k]] = i
      /\ registro' = registro /\ iniziale' = iniziale
      /\ annoDi' = annoDi /\ numero' = numero
  <2> HIDE DEF k
  <2> QED BY <1>0, <1>1, <1>2, <1>3, EffettoBlocca
<1>5. TieneAnno(i)'
  BY <1>4 DEF TieneAnno, Possiede, ChiaveAnno
<1>6. LetteDaImpostazione(i)'
  BY <1>0, <1>2, <1>4 DEF Regolare, LetteDaImpostazione, PassiIniziale
<1>7. Regolare(i)'
  BY <1>0, <1>5, <1>6 DEF Regolare
<1> QED BY <1>0, <1>4, <1>7, PassoSenzaScrittura

LEMMA PassoLetture ==
  ASSUME NumerazioneInv, NEW i \in Impostazioni, LeggeEsistente(i) \/ LeggePrimo(i)
  PROVE  NumerazioneInv'
<1>0. i \in Transazioni /\ LettureValide
  BY DEF NumerazioneInv, Transazioni
<1>1. CASE Finisce(i, "CONFLITTO")
  BY <1>0, <1>1, FineSenzaScrittura DEF LeggeEsistente, LeggePrimo, Esiti
<1>2. CASE LeggeEsistente(i) /\ Prosegue(i, "PRIMO") /\ iniziale[annoDi[i]] = 0
  BY <1>2, ImpostazioneContinua DEF LeggeEsistente, OltreAnno, PassiIniziale
<1>3. CASE LeggePrimo(i) /\ Prosegue(i, "CREA") /\ NumeriDi(annoDi[i]) = {}
  <2>1. pc[i] = "PRIMO" /\ iniziale[annoDi[i]] = 0
    BY <1>0, <1>3 DEF LeggePrimo, LettureValide
  <2> QED BY <1>3, <2>1, ImpostazioneContinua DEF LeggePrimo, OltreAnno, PassiIniziale
<1> QED BY <1>1, <1>2, <1>3 DEF LeggeEsistente, LeggePrimo

LEMMA PassoCreaIniziale ==
  ASSUME NumerazioneInv, NEW i \in Impostazioni, CreaIniziale(i)
  PROVE  NumerazioneInv'
<1>0. TypeOK /\ ProgressiviContigui /\ i \in Transazioni /\ i \notin Richieste /\ Regolare(i)
  BY RegistroAssumption, InvarianteDiviso DEF Transazioni
<1> DEFINE a == annoDi[i]
<1>1. /\ pc[i] = "CREA"
      /\ registro' = registro /\ firStato' = firStato /\ annoCorrente' = annoCorrente
      /\ comando' = comando /\ invii' = invii
  BY DEF CreaIniziale, ambiente
<1>2. a \in Anni /\ iniziale[a] = 0 /\ NumeriDi(a) = {} /\ numero[i] \in Nat
  BY <1>0, <1>1 DEF Regolare, LetteDaImpostazione, TypeOK
<1>3. /\ iniziale' = [iniziale EXCEPT ![a] = numero[i]]
      /\ \E e \in Esiti : Finisce(i, e)
  BY <1>2 DEF CreaIniziale, Esiti
<1>4. PICK e \in Esiti : Finisce(i, e)
  BY <1>3
<1>5. registro' \subseteq Movimento /\ iniziale' \in [Anni -> Nat]
  BY <1>0, <1>1, <1>2, <1>3 DEF TypeOK
<1>6. TypeOK' /\ AltriFermi(i) /\ pc'[i] = "FINITA"
  BY <1>0, <1>1, <1>4, <1>5, EffettoFinisce
<1>7. Regolare(i)'
  BY <1>6 DEF Regolare, TieneAnno, TieneFir, LetteDaRichiesta, LetteDaImpostazione,
              OltreFir, OltreAnno, PassiMovimento, PassiIniziale
<1>8. \A b \in Anni \ {annoDi[i]} : iniziale'[b] = iniziale[b]
  BY <1>0, <1>3 DEF TypeOK
<1>9. ProgressiviContigui'
  <2>1. \A b \in Anni : NumeriDi(b)' = NumeriDi(b)
    BY <1>1 DEF NumeriDi
  <2>2. \A b \in Anni : NumeriDi(b) # {} => Primo(b)' = Primo(b)
    BY <1>2, <1>8 DEF Primo
  <2> QED BY <1>0, <1>1, <2>1, <2>2 DEF ProgressiviContigui
<1>10. ASSUME NEW u \in Transazioni \ {i}
       PROVE  Regolare(u)'
  <2>1. TieneAnno(u)' /\ (u \in Richieste => TieneFir(u)')
    BY <1>0, <1>6, AltriTengono
  <2>2. /\ pc'[u] = pc[u] /\ annoDi'[u] = annoDi[u] /\ numero'[u] = numero[u]
        /\ u \in Richieste => comando'[u] = comando[u]
    BY <1>6 DEF AltriFermi
  <2>3. Regolare(u)
    BY InvarianteDiviso
  <2>4. pc[u] \in OltreAnno => /\ annoDi[u] \in Anni \ {annoDi[i]}
                               /\ iniziale'[annoDi[u]] = iniziale[annoDi[u]]
    <3>1. pc[i] \in OltreAnno
      BY <1>1 DEF OltreAnno, PassiIniziale
    <3>2. pc[u] \in OltreAnno => annoDi[u] \in Anni
      BY <1>0, ChiaviDelle
    <3> QED BY <1>0, <1>8, <3>1, <3>2, UnaSola
  <2>5. NumeriDi(annoDi[u])' = NumeriDi(annoDi[u])
    BY <1>1, <2>2 DEF NumeriDi
  <2>6. ASSUME u \in Richieste
        PROVE  LetteDaRichiesta(u)'
    <3>1. Massimo(annoDi[u])' = Massimo(annoDi[u])
      BY <2>5 DEF Massimo
    <3>2. pc[u] = "INSERT" => Primo(annoDi[u])' = Primo(annoDi[u])
      BY <2>2, <2>4 DEF Primo, OltreAnno, PassiMovimento
    <3>3. Ricopie(comando[u])' = Ricopie(comando[u])
      BY <1>1 DEF Ricopie
    <3> QED BY <2>2, <2>3, <2>6, <3>1, <3>2, <3>3
            DEF Regolare, LetteDaRichiesta, Maggiore
  <2>7. ASSUME u \in Impostazioni
        PROVE  LetteDaImpostazione(u)'
    BY <2>2, <2>3, <2>4, <2>5, <2>7
       DEF Regolare, LetteDaImpostazione, OltreAnno, PassiIniziale
  <2> QED BY <2>1, <2>6, <2>7 DEF Regolare
<1> QED BY <1>6, <1>7, <1>9, <1>10, InvarianteRicomposto

LEMMA PassoFallisce ==
  ASSUME NumerazioneInv, NEW t \in Transazioni, Fallisce(t)
  PROVE  NumerazioneInv'
BY FineSenzaScrittura DEF Fallisce, Esiti

\* FIRs and the calendar: nothing the transactions rely on.
LEMMA PassoAmbiente ==
  ASSUME NumerazioneInv, firStato' \in [Fir -> StatiFir], annoCorrente' \in Anni,
         UNCHANGED <<tabelle, blocco, pc, comando, locali, esito, invii>>
  PROVE  NumerazioneInv'
<1>1. /\ registro' = registro /\ iniziale' = iniziale /\ blocco' = blocco
      /\ pc' = pc /\ comando' = comando /\ annoDi' = annoDi /\ numero' = numero
      /\ avviso' = avviso /\ esito' = esito /\ invii' = invii
  BY DEF tabelle, locali
<1>2. TypeOK'
  BY <1>1 DEF NumerazioneInv, TypeOK
<1>3. ProgressiviContigui'
  BY <1>1 DEF NumerazioneInv, ProgressiviContigui, NumeriDi, Primo
<1>4. LucchettiTenuti'
  BY <1>1 DEF NumerazioneInv, LucchettiTenuti, Possiede, ChiaveFir, ChiaveAnno
<1>5. LettureValide'
  <2>1. \A t \in Transazioni : NumeriDi(annoDi[t])' = NumeriDi(annoDi[t])
    BY <1>1 DEF NumeriDi
  <2>2. \A t \in Transazioni : /\ Massimo(annoDi[t])' = Massimo(annoDi[t])
                               /\ Primo(annoDi[t])' = Primo(annoDi[t])
    BY <1>1, <2>1 DEF Massimo, Primo
  <2>3. \A r \in Richieste : Ricopie(comando[r])' = Ricopie(comando[r])
    BY <1>1 DEF Ricopie
  <2> QED BY <1>1, <2>1, <2>2, <2>3 DEF NumerazioneInv, LettureValide, Maggiore, Transazioni
<1> QED BY <1>2, <1>3, <1>4, <1>5 DEF NumerazioneInv

LEMMA PassoFirEAnno ==
  ASSUME NumerazioneInv, (\E f \in Fir : Emette(f) \/ Annulla(f)) \/ CambiaAnno
  PROVE  NumerazioneInv'
<1>0. firStato \in [Fir -> StatiFir] /\ annoCorrente \in Anni
  BY DEF NumerazioneInv, TypeOK
<1>1. CASE CambiaAnno
  BY <1>0, <1>1, PassoAmbiente DEF CambiaAnno
<1>2. ASSUME NEW f \in Fir, Emette(f) \/ Annulla(f)
      PROVE  NumerazioneInv'
  <2>1. PICK stato \in StatiFir : CambiaFir(f, stato)
    BY <1>2 DEF Emette, Annulla, StatiFir
  <2>2. firStato' \in [Fir -> StatiFir] /\ annoCorrente' \in Anni
    BY <1>0, <2>1 DEF CambiaFir
  <2> QED BY <2>1, <2>2, PassoAmbiente DEF CambiaFir
<1> QED BY <1>1, <1>2

\* The system starts from registers the invariant describes.
LEMMA InvarianteAllInizio == Init => NumerazioneInv
<1> SUFFICES ASSUME Init PROVE NumerazioneInv
  OBVIOUS
<1>1. \E c \in Comandi : TRUE
  BY RegistroAssumption
<1>2. TypeOK
  <2>1. registro \subseteq Movimento /\ iniziale \in [Anni -> Nat]
    BY StoriciAssumption DEF Init
  <2>2. firStato \in [Fir -> StatiFir] /\ annoCorrente \in Anni
    BY DEF Init, StatiFir
  <2>3. /\ blocco \in [Lucchetti -> Transazioni \cup {Libero}]
        /\ comando \in [Richieste -> Comandi]
        /\ annoDi \in [Transazioni -> Anni \cup {NessunAnno}]
        /\ numero \in [Transazioni -> Nat]
        /\ avviso \in [Transazioni -> Avvisi]
        /\ esito \in [Transazioni -> Esiti]
    BY <1>1 DEF Init, Avvisi, Esiti
  <2>4. invii \in 0 .. MaxInvii
    BY RegistroAssumption DEF Init
  <2>5. \A t \in Transazioni : pc[t] = "FERMA"
    BY DEF Init
  <2>6. pc \in [Transazioni -> {"FERMA", "FIR", "FINITA"} \cup PassiMovimento
                                                         \cup PassiIniziale]
    BY DEF Init
  <2>7. /\ \A r \in Richieste : pc[r] \notin PassiIniziale \ PassiMovimento
        /\ \A i \in Impostazioni :
             pc[i] \notin {"FIR"} \cup (PassiMovimento \ PassiIniziale)
    BY <2>5 DEF PassiIniziale, PassiMovimento, Transazioni
  <2> QED BY <2>1, <2>2, <2>3, <2>4, <2>5, <2>6, <2>7 DEF TypeOK
<1>3. ProgressiviContigui
  <2>1. \A m, n \in registro : m.anno = n.anno /\ m.numero = n.numero => m = n
    BY StoriciAssumption DEF Init
  <2>2. ASSUME NEW a \in Anni, NumeriDi(a) # {}
        PROVE  \E ultimo \in NumeriDi(a) : NumeriDi(a) = Primo(a) .. ultimo
    <3>1. Primo(a) = 1
      BY DEF Init, Primo
    <3>2. PICK ultimo \in {0} \cup NumeriDi(a) : NumeriDi(a) = 1 .. ultimo
      BY StoriciAssumption DEF Init, NumeriDi
    <3> QED BY <2>2, <3>1, <3>2
  <2> QED BY <2>1, <2>2 DEF ProgressiviContigui
<1>4. LucchettiTenuti /\ LettureValide
  BY DEF Init, LucchettiTenuti, LettureValide, Transazioni, OltreFir, OltreAnno,
         PassiMovimento, PassiIniziale
<1> QED BY <1>2, <1>3, <1>4 DEF NumerazioneInv

LEMMA InvariantePreservato == NumerazioneInv /\ [Next]_vars => NumerazioneInv'
<1> SUFFICES ASSUME NumerazioneInv, [Next]_vars PROVE NumerazioneInv'
  OBVIOUS
<1>1. CASE UNCHANGED vars
  <2>1. firStato' \in [Fir -> StatiFir] /\ annoCorrente' \in Anni
    BY <1>1 DEF vars, NumerazioneInv, TypeOK
  <2>2. UNCHANGED <<tabelle, blocco, pc, comando, locali, esito, invii>>
    BY <1>1 DEF vars, tabelle, locali
  <2> QED BY <2>1, <2>2, PassoAmbiente
<1>2. ASSUME NEW r \in Richieste, Invia(r) \/ Riprova(r) \/ Blocchi(r) \/ Passi(r)
      PROVE  NumerazioneInv'
  <2>1. CASE Invia(r)
    BY <2>1, PassoParte DEF Invia
  <2>2. CASE Riprova(r)
    BY <2>2, PassoParte DEF Riprova, NumerazioneInv, TypeOK
  <2>3. CASE Blocchi(r)
    BY <2>3, PassoBloccaFir, PassoBloccaAnno, PassoBloccaGiacenza DEF Blocchi
  <2>4. CASE Passi(r)
    BY <2>4, PassoLeggeFir, PassoLeggeRicopie, PassoVerificaGiacenza,
       PassoLeggeMassimo, PassoLeggeIniziale, PassoInserisce DEF Passi
  <2> QED BY <1>2, <2>1, <2>2, <2>3, <2>4
<1>3. ASSUME NEW i \in Impostazioni,
             ChiedeIniziale(i) \/ BloccaAnnoIniziale(i) \/ PassiDiIniziale(i)
      PROVE  NumerazioneInv'
  BY <1>3, PassoChiedeIniziale, PassoBloccaAnnoIniziale, PassoLetture, PassoCreaIniziale
     DEF PassiDiIniziale
<1>4. ASSUME NEW t \in Transazioni, Fallisce(t)
      PROVE  NumerazioneInv'
  BY <1>4, PassoFallisce
<1> QED BY <1>1, <1>2, <1>3, <1>4, PassoFirEAnno DEF Next

-----------------------------------------------------------------------------
(* The theorems. *)

\* Whatever requests, administrators, failures and years interleave, what a
\* transaction read under its locks is still so when it writes.
THEOREM NumerazioneInvariante == Spec => []NumerazioneInv
BY InvarianteAllInizio, InvariantePreservato, PTL DEF Spec

\* Types: every row, lock and local variable is what the schema and the code say.
THEOREM RegistroTipi == Spec => []TypeOK
<1>1. NumerazioneInv => TypeOK
  BY DEF NumerazioneInv
<1> QED BY <1>1, NumerazioneInvariante, PTL

\* The progressives of a year are contiguous from its first number.
THEOREM ProgressiviSenzaSalti == Spec => []ProgressiviContigui
<1>1. NumerazioneInv => ProgressiviContigui
  BY DEF NumerazioneInv
<1> QED BY <1>1, NumerazioneInvariante, PTL

\* No insert runs into the unique indexes, whatever keys hashtext confuses.
THEOREM InserimentiSenzaConflitto == Spec => []IndiciMaiViolati
<1>1. NumerazioneInv => IndiciMaiViolati
  BY RigaNuova DEF IndiciMaiViolati
<1> QED BY <1>1, NumerazioneInvariante, PTL

\* A step that ends an execution after the read of the copies.
LEMMA FineDaRicopie ==
  ASSUME TypeOK, Next, NEW r \in Richieste, pc[r] \in {"FERMA", "FIR", "BLOCCO_FIR", "RICOPIE"},
         pc'[r] = "FINITA"
  PROVE  LeggeFir(r) \/ LeggeRicopie(r) \/ Fallisce(r)
<1>0. pc \in [Transazioni -> Luoghi] /\ r \in Transazioni /\ r \notin Impostazioni
      /\ pc'[r] # pc[r]
  BY RegistroAssumption DEF TypeOK, Luoghi, Transazioni
<1>1. \A t \in Transazioni : (\E passo : Vai(t, passo)) => t = r
  BY <1>0 DEF Vai
<1>2. ASSUME NEW q \in Richieste, Invia(q) \/ Riprova(q) \/ Blocchi(q) \/ Passi(q)
      PROVE  q = r
  <2>1. \E passo : Vai(q, passo)
    BY <1>2 DEF Invia, Riprova, Parte, Blocchi, BloccaFir, BloccaAnno, BloccaGiacenza,
                Blocca, Passi, LeggeFir, LeggeRicopie, VerificaGiacenza, LeggeMassimo,
                LeggeIniziale, Inserisce, Prosegue, Finisce, Numera
  <2> QED BY <1>1, <2>1 DEF Transazioni
<1>3. ASSUME NEW i \in Impostazioni,
             ChiedeIniziale(i) \/ BloccaAnnoIniziale(i) \/ PassiDiIniziale(i)
      PROVE  FALSE
  <2>1. \E passo : Vai(i, passo)
    BY <1>3 DEF ChiedeIniziale, BloccaAnnoIniziale, PassiDiIniziale, LeggeEsistente,
                LeggePrimo, CreaIniziale, Blocca, Prosegue, Finisce
  <2> QED BY <1>0, <1>1, <2>1 DEF Transazioni
<1>4. ASSUME NEW t \in Transazioni, Fallisce(t)
      PROVE  t = r
  BY <1>1, <1>4 DEF Fallisce, Finisce
<1>5. ~((\E f \in Fir : Emette(f) \/ Annulla(f)) \/ CambiaAnno)
  BY <1>0 DEF Emette, Annulla, CambiaFir, CambiaAnno
<1>6. ASSUME Invia(r) \/ Riprova(r) \/ Blocchi(r) \/ Passi(r)
      PROVE  LeggeFir(r) \/ LeggeRicopie(r)
  <2>1. ~Invia(r) /\ ~Riprova(r)
    BY <1>0 DEF Invia, Riprova, Parte, Vai
  <2>2. ~BloccaFir(r)
    BY <1>0 DEF BloccaFir, Blocca, Vai
  <2>3. ~BloccaAnno(r) /\ ~BloccaGiacenza(r)
    BY DEF BloccaAnno, BloccaGiacenza
  <2>4. /\ ~VerificaGiacenza(r) /\ ~LeggeMassimo(r) /\ ~LeggeIniziale(r) /\ ~Inserisce(r)
    BY DEF VerificaGiacenza, LeggeMassimo, LeggeIniziale, Inserisce
  <2> QED BY <1>6, <2>1, <2>2, <2>3, <2>4 DEF Blocchi, Passi
<1> QED BY <1>2, <1>3, <1>4, <1>5, <1>6 DEF Next

\* A repeated command is recognised at every step.
LEMMA PassoRiconosce ==
  ASSUME NumerazioneInv, Next, NEW r \in Richieste,
         pc[r] # "FINITA", pc'[r] = "FINITA",
         esito'[r] \in {"REGISTRATO", "GIACENZA", "DATI_DIVERSI"},
         comando[r].fir # NessunFir,
         NEW m \in registro, m.fir = comando[r].fir, m.tipo = comando[r].tipo
  PROVE  ~StessiDati(m, comando[r])
<1>0. TypeOK /\ r \in Transazioni /\ pc \in [Transazioni -> Luoghi] /\ r \notin Impostazioni
      /\ esito \in [Transazioni -> Esiti]
  BY RegistroAssumption DEF NumerazioneInv, TypeOK, Luoghi, Transazioni
<1>1. m \in Ricopie(comando[r])
  BY DEF Ricopie
<1>2. pc[r] \notin OltreFir \ {"RICOPIE"}
  BY <1>1 DEF NumerazioneInv, LettureValide
<1>3. pc[r] \in {"FERMA", "FIR", "BLOCCO_FIR", "RICOPIE"}
  BY <1>0, <1>2 DEF Luoghi, TypeOK, OltreFir, PassiMovimento, PassiIniziale
<1>4. LeggeFir(r) \/ LeggeRicopie(r) \/ Fallisce(r)
  BY <1>0, <1>3, FineDaRicopie
<1>5. ~LeggeFir(r) /\ ~Fallisce(r)
  <2>1. \A e : Finisce(r, e) => esito'[r] = e
    BY <1>0 DEF Finisce
  <2>2. ~Prosegue(r, "BLOCCO_FIR")
    BY <1>0 DEF Prosegue, Vai
  <2> QED BY <2>1, <2>2 DEF LeggeFir, Fallisce
<1>6. LeggeRicopie(r)
  BY <1>4, <1>5
<1>7. Finisce(r, IF GiaRicopiato(comando[r]) THEN "GIA_REGISTRATO" ELSE "DATI_DIVERSI")
  BY <1>1, <1>6 DEF LeggeRicopie
<1>8. ~GiaRicopiato(comando[r])
  BY <1>0, <1>7 DEF Finisce
<1> QED BY <1>1, <1>8 DEF GiaRicopiato

\* A retried command is never refused because of its own first copy.
THEOREM RitentativoSempreRiconosciuto == Spec => RitentativoRiconosciuto
<1>1. NumerazioneInv /\ [Next]_vars =>
        [\A r \in Richieste :
           /\ pc[r] # "FINITA" /\ pc'[r] = "FINITA"
           /\ esito'[r] \in {"REGISTRATO", "GIACENZA", "DATI_DIVERSI"}
           /\ comando[r].fir # NessunFir
           => \A m \in registro :
                m.fir = comando[r].fir /\ m.tipo = comando[r].tipo
                  => ~StessiDati(m, comando[r])]_vars
  BY PassoRiconosce
<1> QED BY <1>1, NumerazioneInvariante, PTL DEF Spec, RitentativoRiconosciuto

-----------------------------------------------------------------------------
(* The order of the locks. *)

\* A lock is held only by a transaction past the statement that takes it.
Tenibile(l, passo) ==
  \/ \E f \in Fir : l = Hash[ChiaveFir(f)] /\ passo \in OltreFir \cup OltreAnno
  \/ \E a \in Anni : l = Hash[ChiaveAnno(a)] /\ passo \in OltreAnno
  \/ \E c \in Cer : l = Hash[ChiaveGiacenza(c)] /\ passo \in OltreGiacenza

Dichiarati(t) ==
  /\ \A l \in Lucchetti : blocco[l] = t => Tenibile(l, pc[t])
  /\ t \in Richieste /\ pc[t] \in {"FIR", "BLOCCO_FIR", "RICOPIE"}
       => comando[t].fir # NessunFir

OrdineInv == TypeOK /\ \A t \in Transazioni : Dichiarati(t)

\* The sets of statements past each lock.
LEMMA LuoghiOltre ==
  /\ OltreFir = {"RICOPIE", "BLOCCO_ANNO", "BLOCCO_GIACENZA", "GIACENZA",
                 "MASSIMO", "INIZIALE", "INSERT"}
  /\ OltreAnno = {"BLOCCO_GIACENZA", "GIACENZA", "MASSIMO", "INIZIALE", "INSERT",
                  "ESISTENTE", "PRIMO", "CREA"}
BY DEF OltreFir, OltreAnno, PassiMovimento, PassiIniziale

\* An execution that ends holds nothing, and leaves the others' locks.
LEMMA OrdineFinisce ==
  ASSUME OrdineInv, NEW t \in Transazioni, NEW e \in Esiti, Finisce(t, e),
         comando' = comando, TypeOK'
  PROVE  OrdineInv'
<1>1. pc'[t] = "FINITA" /\ \A u \in Transazioni \ {t} : pc'[u] = pc[u]
  BY DEF Finisce, Vai, OrdineInv, TypeOK
<1>2. /\ \A l \in Lucchetti : blocco'[l] # t
      /\ \A l \in Lucchetti, u \in Transazioni \ {t} : blocco'[l] = u => blocco[l] = u
  BY RegistroAssumption DEF Finisce, OrdineInv, TypeOK
<1>3. ASSUME NEW u \in Transazioni PROVE Dichiarati(u)'
  <2>1. CASE u = t
    BY <1>1, <1>2, <2>1 DEF Dichiarati
  <2>2. CASE u # t
    BY <1>1, <1>2, <2>2 DEF Dichiarati, OrdineInv, Tenibile
  <2> QED BY <2>1, <2>2
<1> QED BY <1>3 DEF OrdineInv

\* A step that takes no lock and goes forward.
LEMMA OrdineProsegue ==
  ASSUME OrdineInv, NEW t \in Transazioni, NEW passo, Vai(t, passo),
         blocco' = blocco, TypeOK',
         \A u \in Transazioni \ {t} : u \in Richieste => comando'[u] = comando[u],
         \A l \in Lucchetti : Tenibile(l, pc[t]) => Tenibile(l, passo),
         t \in Richieste /\ passo \in {"FIR", "BLOCCO_FIR", "RICOPIE"}
           => comando'[t].fir # NessunFir
  PROVE  OrdineInv'
<1>1. pc'[t] = passo /\ \A u \in Transazioni \ {t} : pc'[u] = pc[u]
  BY DEF Vai, OrdineInv, TypeOK
<1>2. ASSUME NEW u \in Transazioni PROVE Dichiarati(u)'
  <2>1. CASE u = t
    BY <1>1, <2>1 DEF Dichiarati, OrdineInv, Tenibile
  <2>2. CASE u # t
    BY <1>1, <2>2 DEF Dichiarati, OrdineInv, Tenibile
  <2> QED BY <2>1, <2>2
<1> QED BY <1>2 DEF OrdineInv

\* A lock granted, at the statement past which it may be held.
LEMMA OrdineBlocca ==
  ASSUME OrdineInv, NEW t \in Transazioni, NEW passo, NEW chiave \in Chiavi,
         Blocca(t, chiave, passo), TypeOK',
         Tenibile(Hash[chiave], passo),
         \A l \in Lucchetti : Tenibile(l, pc[t]) => Tenibile(l, passo),
         t \in Richieste /\ passo \in {"FIR", "BLOCCO_FIR", "RICOPIE"}
           => comando[t].fir # NessunFir
  PROVE  OrdineInv'
<1>0. comando' = comando
  BY DEF Blocca
<1>1. pc'[t] = passo /\ \A u \in Transazioni \ {t} : pc'[u] = pc[u]
  BY DEF Blocca, Vai, OrdineInv, TypeOK
<1>2. /\ \A l \in Lucchetti : blocco'[l] = t => blocco[l] = t \/ l = Hash[chiave]
      /\ \A l \in Lucchetti, u \in Transazioni \ {t} : blocco'[l] = u => blocco[l] = u
  BY DEF Blocca, OrdineInv, TypeOK
<1>3. ASSUME NEW u \in Transazioni PROVE Dichiarati(u)'
  <2>1. CASE u = t
    BY <1>0, <1>1, <1>2, <2>1 DEF Dichiarati, OrdineInv, Tenibile
  <2>2. CASE u # t
    BY <1>0, <1>1, <1>2, <2>2 DEF Dichiarati, OrdineInv, Tenibile
  <2> QED BY <2>1, <2>2
<1> QED BY <1>3 DEF OrdineInv

\* Going forward never leaves the statements past a lock, unless it ends.
LEMMA OrdineAvanza ==
  ASSUME NEW l, NEW da, NEW verso,
         \/ verso \in {"MASSIMO", "INIZIALE", "INSERT"} /\ da \in OltreGiacenza
         \/ verso = "BLOCCO_ANNO" /\ da = "RICOPIE"
         \/ verso \in {"BLOCCO_GIACENZA", "MASSIMO"} /\ da = "BLOCCO_ANNO"
         \/ verso = "GIACENZA" /\ da = "BLOCCO_GIACENZA"
         \/ verso \in {"PRIMO", "CREA"} /\ da \in {"ESISTENTE", "PRIMO"}
         \/ da \in {"FERMA", "FINITA", "FIR", "BLOCCO_FIR"},
         Tenibile(l, da)
  PROVE  Tenibile(l, verso)
BY LuoghiOltre DEF Tenibile, OltreGiacenza

LEMMA OrdinePassi ==
  ASSUME OrdineInv, NEW r \in Richieste, Passi(r), TypeOK'
  PROVE  OrdineInv'
<1>0. r \in Transazioni /\ TypeOK /\ Dichiarati(r)
  BY DEF Transazioni, OrdineInv
<1>1. comando' = comando
  BY DEF Passi, LeggeFir, LeggeRicopie, VerificaGiacenza, LeggeMassimo, LeggeIniziale,
         Inserisce, Numera
<1>2. CASE \E e \in Esiti : Finisce(r, e)
  BY <1>0, <1>1, <1>2, OrdineFinisce
<1>3. ASSUME NEW passo, Vai(r, passo), blocco' = blocco,
             \/ pc[r] = "FIR" /\ passo = "BLOCCO_FIR"
             \/ pc[r] = "RICOPIE" /\ passo = "BLOCCO_ANNO"
             \/ pc[r] \in OltreGiacenza /\ passo \in {"MASSIMO", "INIZIALE", "INSERT"}
      PROVE  OrdineInv'
  <2>1. \A l \in Lucchetti : Tenibile(l, pc[r]) => Tenibile(l, passo)
    BY <1>3, OrdineAvanza
  <2>2. passo \in {"FIR", "BLOCCO_FIR", "RICOPIE"} => comando'[r].fir # NessunFir
    BY <1>0, <1>1, <1>3 DEF Dichiarati
  <2> QED BY <1>0, <1>1, <1>3, <2>1, <2>2, OrdineProsegue
<1>4. CASE LeggeFir(r)
  BY <1>2, <1>3, <1>4 DEF LeggeFir, Prosegue, Esiti
<1>5. CASE LeggeRicopie(r)
  BY <1>2, <1>3, <1>5 DEF LeggeRicopie, Prosegue, Esiti
<1>6. CASE VerificaGiacenza(r)
  BY <1>2, <1>3, <1>6 DEF VerificaGiacenza, Esiti, OltreGiacenza
<1>7. CASE LeggeMassimo(r) \/ LeggeIniziale(r)
  <2>1. PICK passo \in {"INIZIALE", "INSERT"} : \E n : Numera(r, n, passo)
    BY <1>7 DEF LeggeMassimo, LeggeIniziale
  <2>2. Vai(r, passo) /\ blocco' = blocco
    BY <2>1 DEF Numera
  <2>3. pc[r] \in OltreGiacenza
    BY <1>7 DEF LeggeMassimo, LeggeIniziale, OltreGiacenza
  <2> QED BY <1>3, <2>2, <2>3
<1>8. CASE Inserisce(r)
  BY <1>2, <1>8 DEF Inserisce, Esiti
<1> QED BY <1>4, <1>5, <1>6, <1>7, <1>8 DEF Passi

LEMMA OrdineBlocchi ==
  ASSUME OrdineInv, NEW r \in Richieste, Blocchi(r), TypeOK'
  PROVE  OrdineInv'
<1>0. r \in Transazioni /\ TypeOK /\ Dichiarati(r)
  BY DEF Transazioni, OrdineInv
<1>1. CASE BloccaFir(r)
  <2>1. comando[r].fir # NessunFir /\ comando[r].fir \in Fir
    BY <1>0, <1>1, ChiaviDelle DEF BloccaFir, Dichiarati
  <2>2. ChiaveFir(comando[r].fir) \in Chiavi
    BY <1>0, <2>1, ChiaviDelle
  <2>3. Tenibile(Hash[ChiaveFir(comando[r].fir)], "RICOPIE")
    BY <2>1, LuoghiOltre DEF Tenibile
  <2>4. \A l \in Lucchetti : Tenibile(l, pc[r]) => Tenibile(l, "RICOPIE")
    BY <1>1, OrdineAvanza DEF BloccaFir
  <2> DEFINE k == ChiaveFir(comando[r].fir)
  <2>5. Blocca(r, k, "RICOPIE") /\ k \in Chiavi /\ Tenibile(Hash[k], "RICOPIE")
    BY <1>1, <2>2, <2>3 DEF BloccaFir
  <2> HIDE DEF k
  <2> QED BY <1>0, <2>1, <2>4, <2>5, OrdineBlocca
<1>2. CASE BloccaAnno(r)
  <2> DEFINE k == ChiaveAnno(annoDi[r])
             passo == IF Controllato(comando[r]) THEN "BLOCCO_GIACENZA" ELSE "MASSIMO"
  <2>1. annoDi[r] \in Anni
    BY <1>0, <1>2 DEF BloccaAnno, TypeOK
  <2>2. passo \in {"BLOCCO_GIACENZA", "MASSIMO"} /\ Blocca(r, k, passo)
    BY <1>2 DEF BloccaAnno
  <2>3. k \in Chiavi
    BY <1>0, <2>1, ChiaviDelle
  <2>4. Tenibile(Hash[k], passo)
    BY <2>1, <2>2, LuoghiOltre DEF Tenibile
  <2> HIDE DEF passo, k
  <2>5. \A l \in Lucchetti : Tenibile(l, pc[r]) => Tenibile(l, passo)
    BY <1>2, <2>2, OrdineAvanza DEF BloccaAnno
  <2> QED BY <1>0, <2>2, <2>3, <2>4, <2>5, OrdineBlocca
<1>3. CASE BloccaGiacenza(r)
  <2> DEFINE k == ChiaveGiacenza(comando[r].cer)
  <2>1. comando[r].cer \in Cer /\ k \in Chiavi
    BY <1>0, ChiaviDelle
  <2>2. Tenibile(Hash[k], "GIACENZA")
    BY <2>1 DEF Tenibile, OltreGiacenza
  <2>3. Blocca(r, k, "GIACENZA")
    BY <1>3 DEF BloccaGiacenza
  <2> HIDE DEF k
  <2>4. \A l \in Lucchetti : Tenibile(l, pc[r]) => Tenibile(l, "GIACENZA")
    BY <1>3, OrdineAvanza DEF BloccaGiacenza
  <2> QED BY <1>0, <2>1, <2>2, <2>3, <2>4, OrdineBlocca
<1> QED BY <1>1, <1>2, <1>3 DEF Blocchi

LEMMA OrdineImpostazioni ==
  ASSUME OrdineInv, NEW i \in Impostazioni, TypeOK',
         ChiedeIniziale(i) \/ BloccaAnnoIniziale(i) \/ PassiDiIniziale(i)
  PROVE  OrdineInv'
<1>0. i \in Transazioni /\ TypeOK /\ Dichiarati(i) /\ i \notin Richieste
  BY RegistroAssumption DEF Transazioni, OrdineInv
<1>1. comando' = comando
  BY DEF ChiedeIniziale, BloccaAnnoIniziale, Blocca, PassiDiIniziale, LeggeEsistente,
         LeggePrimo, CreaIniziale
<1>2. CASE \E e \in Esiti : Finisce(i, e)
  BY <1>0, <1>1, <1>2, OrdineFinisce
<1>3. ASSUME NEW passo, Vai(i, passo), blocco' = blocco,
             \/ pc[i] = "FERMA"
             \/ pc[i] \in {"ESISTENTE", "PRIMO"} /\ passo \in {"PRIMO", "CREA"}
      PROVE  OrdineInv'
  <2>1. \A l \in Lucchetti : Tenibile(l, pc[i]) => Tenibile(l, passo)
    BY <1>3, OrdineAvanza
  <2> QED BY <1>0, <1>1, <1>3, <2>1, OrdineProsegue
<1>4. CASE ChiedeIniziale(i)
  BY <1>3, <1>4 DEF ChiedeIniziale
<1>5. CASE BloccaAnnoIniziale(i)
  <2> DEFINE k == ChiaveAnno(annoDi[i])
  <2>1. annoDi[i] \in Anni
    BY <1>0, <1>5 DEF BloccaAnnoIniziale, TypeOK
  <2>2. k \in Chiavi /\ Blocca(i, k, "ESISTENTE")
    BY <1>0, <1>5, <2>1, ChiaviDelle DEF BloccaAnnoIniziale
  <2>3. Tenibile(Hash[k], "ESISTENTE")
    BY <2>1, LuoghiOltre DEF Tenibile
  <2> HIDE DEF k
  <2>4. \A l \in Lucchetti : Tenibile(l, pc[i]) => Tenibile(l, "ESISTENTE")
    BY <1>5, LuoghiOltre DEF BloccaAnnoIniziale, Tenibile, OltreGiacenza
  <2> QED BY <1>0, <2>2, <2>3, <2>4, OrdineBlocca
<1>6. CASE LeggeEsistente(i) \/ LeggePrimo(i)
  BY <1>2, <1>3, <1>6 DEF LeggeEsistente, LeggePrimo, Prosegue, Esiti
<1>7. CASE CreaIniziale(i)
  BY <1>2, <1>7 DEF CreaIniziale, Esiti
<1> QED BY <1>4, <1>5, <1>6, <1>7 DEF PassiDiIniziale

LEMMA OrdineParte ==
  ASSUME OrdineInv, NEW r \in Richieste, NEW c \in Comandi,
         pc[r] \in {"FERMA", "FINITA"}, Parte(r, c), TypeOK'
  PROVE  OrdineInv'
<1>0. r \in Transazioni /\ TypeOK
  BY DEF Transazioni, OrdineInv
<1> DEFINE passo == IF c.fir = NessunFir THEN "BLOCCO_ANNO" ELSE "FIR"
<1>1. /\ Vai(r, passo) /\ blocco' = blocco
      /\ passo \in {"FIR", "BLOCCO_FIR", "RICOPIE"} => c.fir # NessunFir
  BY DEF Parte
<1>2. /\ comando'[r] = c
      /\ \A u \in Transazioni \ {r} : u \in Richieste => comando'[u] = comando[u]
  BY <1>0 DEF Parte, TypeOK
<1> HIDE DEF passo
<1>3. \A l \in Lucchetti : Tenibile(l, pc[r]) => Tenibile(l, passo)
  BY OrdineAvanza
<1> QED BY <1>0, <1>1, <1>2, <1>3, OrdineProsegue

LEMMA OrdinePreservato == OrdineInv /\ TypeOK' /\ [Next]_vars => OrdineInv'
<1> SUFFICES ASSUME OrdineInv, TypeOK', [Next]_vars PROVE OrdineInv'
  OBVIOUS
<1>1. ASSUME UNCHANGED <<blocco, pc, comando>>
      PROVE  OrdineInv'
  BY <1>1 DEF OrdineInv, Dichiarati, Tenibile
<1>2. CASE UNCHANGED vars
  BY <1>1, <1>2 DEF vars
<1>3. ASSUME NEW r \in Richieste, Invia(r) \/ Riprova(r)
      PROVE  OrdineInv'
  BY <1>3, OrdineParte DEF Invia, Riprova, OrdineInv, TypeOK
<1>4. ASSUME NEW t \in Transazioni, Fallisce(t)
      PROVE  OrdineInv'
  BY <1>4, OrdineFinisce DEF Fallisce, Esiti
<1>5. CASE (\E f \in Fir : Emette(f) \/ Annulla(f)) \/ CambiaAnno
  BY <1>1, <1>5 DEF Emette, Annulla, CambiaFir, CambiaAnno
<1> QED BY <1>2, <1>3, <1>4, <1>5, OrdinePassi, OrdineBlocchi, OrdineImpostazioni DEF Next

LEMMA OrdineAllInizio == Init => OrdineInv
<1> SUFFICES ASSUME Init PROVE OrdineInv
  OBVIOUS
<1>1. TypeOK
  BY InvarianteAllInizio DEF NumerazioneInv
<1>2. \A t \in Transazioni : (\A l \in Lucchetti : blocco[l] # t) /\ pc[t] = "FERMA"
  BY RegistroAssumption DEF Init
<1> QED BY <1>1, <1>2 DEF OrdineInv, Dichiarati

\* hashtext may confuse two years or two FIRs, not two families of keys.
FamiglieDistinte ==
  /\ \A f \in Fir, a \in Anni : Hash[ChiaveFir(f)] # Hash[ChiaveAnno(a)]
  /\ \A f \in Fir, c \in Cer : Hash[ChiaveFir(f)] # Hash[ChiaveGiacenza(c)]
  /\ \A a \in Anni, c \in Cer : Hash[ChiaveAnno(a)] # Hash[ChiaveGiacenza(c)]

\* Who holds the lock another one waits for is past it, and among the later
\* ones it waits for nothing.
LEMMA ChiTiene ==
  ASSUME OrdineInv, FamiglieDistinte, NEW t \in Transazioni, NEW u \in Transazioni,
         NEW l \in Attesa(t), blocco[l] = u
  PROVE  /\ pc[t] = "BLOCCO_GIACENZA" => Attesa(u) = {}
         /\ pc[t] = "BLOCCO_ANNO" => Attesa(u) = {} \/ pc[u] = "BLOCCO_GIACENZA"
         /\ pc[t] = "BLOCCO_FIR" =>
              Attesa(u) = {} \/ pc[u] \in {"BLOCCO_ANNO", "BLOCCO_GIACENZA"}
<1>0. TypeOK /\ Dichiarati(u) /\ Dichiarati(t)
  BY DEF OrdineInv
<1>1. t \in Richieste \/ pc[t] = "BLOCCO_ANNO"
  BY <1>0 DEF Attesa, TypeOK, Transazioni, PassiMovimento, PassiIniziale
<1>2. CASE pc[t] = "BLOCCO_GIACENZA"
  <2>1. l = Hash[ChiaveGiacenza(comando[t].cer)] /\ comando[t].cer \in Cer
    BY <1>0, <1>1, <1>2, ChiaviDelle DEF Attesa
  <2>2. l \in Lucchetti
    BY <1>0, <2>1, ChiaviDelle
  <2>3. pc[u] \in OltreGiacenza
    BY <1>0, <2>1, <2>2 DEF Dichiarati, Tenibile, FamiglieDistinte
  <2> QED BY <1>2, <2>3 DEF Attesa, OltreGiacenza
<1>3. CASE pc[t] = "BLOCCO_ANNO"
  <2>1. l = Hash[ChiaveAnno(annoDi[t])] /\ annoDi[t] \in Anni
    BY <1>0, <1>3 DEF Attesa, TypeOK
  <2>2. l \in Lucchetti
    BY <1>0, <2>1, ChiaviDelle
  <2>3. pc[u] \in OltreAnno
    BY <1>0, <2>1, <2>2 DEF Dichiarati, Tenibile, FamiglieDistinte
  <2> QED BY <1>3, <2>3, LuoghiOltre DEF Attesa
<1>4. CASE pc[t] = "BLOCCO_FIR"
  <2>1. l = Hash[ChiaveFir(comando[t].fir)] /\ comando[t].fir \in Fir
    BY <1>0, <1>1, <1>4, ChiaviDelle DEF Attesa, Dichiarati
  <2>2. l \in Lucchetti
    BY <1>0, <2>1, ChiaviDelle
  <2>3. pc[u] \in OltreFir \cup OltreAnno
    BY <1>0, <2>1, <2>2 DEF Dichiarati, Tenibile, FamiglieDistinte
  <2> QED BY <1>4, <2>3, LuoghiOltre DEF Attesa
<1> QED BY <1>2, <1>3, <1>4

LEMMA NessunCerchio ==
  ASSUME OrdineInv, FamiglieDistinte
  PROVE  NessunaAttesaCircolare
<1> SUFFICES ASSUME NEW gruppo \in (SUBSET Transazioni) \ {{}},
                    \A t \in gruppo : \E l \in Attesa(t) : blocco[l] \in gruppo \ {t}
             PROVE  FALSE
  BY DEF NessunaAttesaCircolare
<1>1. \A t \in gruppo : pc[t] \in {"BLOCCO_FIR", "BLOCCO_ANNO", "BLOCCO_GIACENZA"}
                        /\ Attesa(t) # {}
  BY DEF Attesa
<1>2. \A t \in gruppo : \E u \in gruppo :
        /\ pc[t] # "BLOCCO_GIACENZA"
        /\ pc[t] = "BLOCCO_ANNO" => pc[u] = "BLOCCO_GIACENZA"
        /\ pc[t] = "BLOCCO_FIR" => pc[u] \in {"BLOCCO_ANNO", "BLOCCO_GIACENZA"}
  <2> SUFFICES ASSUME NEW t \in gruppo
               PROVE  \E u \in gruppo :
                 /\ pc[t] # "BLOCCO_GIACENZA"
                 /\ pc[t] = "BLOCCO_ANNO" => pc[u] = "BLOCCO_GIACENZA"
                 /\ pc[t] = "BLOCCO_FIR" => pc[u] \in {"BLOCCO_ANNO", "BLOCCO_GIACENZA"}
    OBVIOUS
  <2>1. PICK l \in Attesa(t) : blocco[l] \in gruppo
    OBVIOUS
  <2>2. Attesa(blocco[l]) # {}
    BY <1>1, <2>1
  <2> QED BY <2>1, <2>2, ChiTiene
<1>3. \A t \in gruppo : pc[t] = "BLOCCO_FIR"
  BY <1>1, <1>2
<1> QED BY <1>2, <1>3

\* No circular wait, for any number of transactions: PostgreSQL never has to
\* abort one to break it.
THEOREM SenzaAtteseCircolari ==
  ASSUME FamiglieDistinte
  PROVE  Spec => []NessunaAttesaCircolare
<1>1. NumerazioneInv => TypeOK
  BY DEF NumerazioneInv
<1>2. OrdineInv => NessunaAttesaCircolare
  BY NessunCerchio
<1>3. Spec => []OrdineInv
  BY <1>1, NumerazioneInvariante, OrdineAllInizio, OrdinePreservato, PTL DEF Spec
<1> QED BY <1>2, <1>3, PTL

===============================================================================
