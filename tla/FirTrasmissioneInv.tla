------------------------ MODULE FirTrasmissioneInv --------------------------
(***************************************************************************)
(* The inductive invariant of FirTrasmissione, in named parts: TLC checks  *)
(* it on small instances, FirTrasmissioneProof proves it.                  *)
(***************************************************************************)
EXTENDS FirTrasmissione

\* The attempts that have reserved the row and not come to an end.
Vivo(w) == pc[w] \notin {"fermo", "letto"}

\* The ones that still count on the reservation: all but those that repeat a
\* save that may have released it.
Tiene(w) == Vivo(w) /\ pc[w] # "risalva"

\* The row carries the instant of the last reservation; nobody knows a later
\* one, and no two attempts have the same.
Istanti ==
  /\ db.avviato = orologio
  /\ \A w \in Workers :
       /\ copia[w].avviato <= orologio
       /\ ora[w] <= orologio
       /\ Vivo(w) <=> ora[w] # 0
       /\ scaduta[w] => Vivo(w) /\ pc[w] # "prenotato"
       /\ Vivo(w) /\ pc[w] # "prenotato" => copia[w].avviato = ora[w]
  /\ \A r \in Richieste : richiesta[r].fir.avviato <= orologio
  /\ \A v, w \in Workers : Vivo(v) /\ ora[v] = ora[w] => v = w

\* A non-retryable code is that of a final failure.
Coerente(f) ==
  f.sync.code \in NON_RETRYABLE => f.sync.status = "PERMANENTLY_FAILED"

Codifica ==
  /\ Coerente(db)
  /\ \A w \in Workers : Coerente(copia[w])
  /\ \A r \in Richieste : Coerente(richiesta[r].fir)

\* What each step and each operation knows of its copy.
Copie ==
  /\ \A w \in Workers :
       /\ pc[w] = "letto" => copia[w].sync.status # "SYNCED"
       /\ pc[w] \in {"daRegistrare", "inAttesaEsito"} => copia[w].inAttesa # 0
       /\ pc[w] = "salvaEsito" =>
            /\ copia[w].sync.status \in {"SYNCED", "PERMANENTLY_FAILED"}
            /\ ~NuovaPostPossibile(copia[w])
       /\ pc[w] \in {"salvaErrore", "risalva"} =>
            copia[w].sync.status \in {"FAILED", "PERMANENTLY_FAILED"}
  /\ \A r \in Richieste :
       richiesta[r].op = "RIAPRI" => PuoRiaprire(richiesta[r].fir.sync)

\* While an attempt counts on the last reservation, the row is SYNCING or has
\* been closed by the reconciliation, and so are the copies loaded since.
Prenotazioni ==
  \A w \in Workers :
    Tiene(w) =>
      /\ ~scaduta[w] => ora[w] = orologio
      /\ ora[w] = orologio =>
           /\ db.sync.status \in {"SYNCING", "SYNCED"}
           /\ \A v \in Workers :
                pc[v] = "letto" /\ copia[v].avviato = orologio =>
                  copia[v].sync.status = "SYNCING"
           /\ \A r \in Richieste :
                richiesta[r].fir.avviato = orologio =>
                  richiesta[r].fir.sync.status \in {"SYNCING", "SYNCED"}

\* The attempts that are about to send a POST, or to save a failure after
\* which another may be sent.
Titolare(w) ==
  \/ pc[w] = "daSpedire"
  \/ pc[w] \in {"salvaErrore", "risalva"} /\ NuovaPostPossibile(copia[w])

Titolari == {w \in Workers : Titolare(w)}

\* The row allows a POST by itself, or through an attempt that read it before
\* the transmission looked stalled.
PostPossibile ==
  \/ NuovaPostPossibile(db)
  \/ /\ db.inAttesa = 0
     /\ db.sync.status = "SYNCING"
     /\ \E w \in Workers :
          /\ copia[w].sync.status # "SYNCING"
          /\ \/ pc[w] = "prenotato"
             \/ pc[w] = "letto" /\ copia[w].avviato = db.avviato

\* The POSTs sent and the ones that can still be sent without a reopening or
\* an exception are not more than what has been permitted.
Conto ==
  Cardinality(Titolari) + post + (IF PostPossibile THEN 1 ELSE 0)
    <= 1 + riaperture + deroghe

IInv == TypeOK /\ Istanti /\ Codifica /\ Copie /\ Prenotazioni /\ Conto
=============================================================================
