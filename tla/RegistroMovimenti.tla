-------------------------- MODULE RegistroMovimenti ---------------------------
(***************************************************************************)
(* The register of movements of one tenant: concurrent executions of       *)
(* RegistraMovimentoUseCase and of ProgressivoInizialeService.imposta,     *)
(* while formulari are issued and annulled and the year ends.              *)
(*                                                                         *)
(* One step is one statement of the transaction, at READ COMMITTED: it     *)
(* sees what is committed when it runs.  The only protection are the       *)
(* advisory locks, taken in the order FIR, progressive, stock and released *)
(* when the transaction ends.  The insert is one step with the commit that *)
(* follows it: its row is invisible in between, and the rollback that may  *)
(* come instead is the failure of the step before.                         *)
(*                                                                         *)
(* Checks of the command that read nothing another request can change      *)
(* (causale, catalogue of CER codes, dates) are taken as passed.           *)
(***************************************************************************)
EXTENDS GiacenzaDisponibile

CONSTANTS Richieste,      \* clients that register movements
          Impostazioni,   \* administrators that set the first number of a year
          Fir,            \* formulari
          NessunFir,      \* a movement without FIR
          Cer,            \* waste codes
          Anni,           \* solar years, the first is the current one
          Comandi,        \* the commands a client may send
          Primi,          \* first numbers an administrator may choose
          Storici,        \* the registers the system may start from
          Hash,           \* hashtext: the lock a key stands for
          NessunAnno,     \* no execution in progress
          Libero,         \* a lock nobody holds
          MaxInvii        \* bound: commands sent, retries included

Tipi == {"CARICO", "SCARICO"}

Comando == [tipo : Tipi, cer : Cer, quantita : Nat \ {0}, unita : Unita,
            giorno : Nat, fir : Fir \cup {NessunFir}]

Movimento == [anno : Anni, numero : Nat \ {0}, tipo : Tipi, cer : Cer,
              quantita : Nat \ {0}, unita : Unita, giorno : Nat,
              fir : Fir \cup {NessunFir}, ricopia : BOOLEAN]

\* A variant with a bug: the lock of the FIR is the lock of the stock, taken first.
ChiaveFirGiacenza(f) == <<"giacenza", CHOOSE c \in Cer : TRUE>>

\* The keys of the advisory locks.
ChiaveFir(f) == <<"fir-registro", f>>
ChiaveAnno(a) == <<"progressivo", a>>
ChiaveGiacenza(c) == <<"giacenza", c>>

Chiavi == {ChiaveFir(f) : f \in Fir} \cup {ChiaveAnno(a) : a \in Anni}
            \cup {ChiaveGiacenza(c) : c \in Cer}

Lucchetti == {Hash[k] : k \in Chiavi}

Transazioni == Richieste \cup Impostazioni

ASSUME RegistroAssumption ==
  /\ Anni \subseteq Nat
  /\ Anni # {}
  /\ NessunFir \notin Fir
  /\ Comandi \subseteq Comando
  /\ Comandi # {}
  /\ NessunAnno \notin Anni
  /\ Primi \subseteq Nat \ {0}
  /\ Richieste \cap Impostazioni = {}
  /\ Libero \notin Transazioni
  /\ MaxInvii \in Nat
  /\ DOMAIN Hash = Chiavi

\* The rows already there, a finite table: written by the same numbering,
\* before the column of the ricopia existed.
ASSUME StoriciAssumption ==
  \A s \in Storici :
    /\ s \subseteq Movimento
    /\ IsFiniteSet(s)
    /\ \A m \in s : ~m.ricopia
    /\ \A a \in Anni :
         LET numeri == {m.numero : m \in {n \in s : n.anno = a}}
         IN  \E ultimo \in {0} \cup numeri : numeri = 1 .. ultimo
    /\ \A m, n \in s : m.anno = n.anno /\ m.numero = n.numero => m = n

VARIABLES
  registro,    \* waste_movements, committed
  iniziale,    \* registro_progressivi_iniziali, committed: 0 if no row
  firStato,    \* state of each FIR
  annoCorrente,\* the Italian solar year
  blocco,      \* who holds each advisory lock
  pc,          \* next statement of each request
  comando,     \* what each client asked for
  annoDi,      \* year of the movement or of the first number
  numero,      \* number being assigned, or asked for
  avviso,      \* warning for the operator
  esito,       \* how the last execution ended, as its client knows
  invii        \* commands sent

tabelle  == <<registro, iniziale>>
locali   == <<annoDi, numero, avviso>>
ambiente == <<firStato, annoCorrente>>
vars == <<registro, iniziale, firStato, annoCorrente, blocco, pc, comando,
          annoDi, numero, avviso, esito, invii>>

\* collegabilitaFir: a FIR can be linked when it is issued or has a RENTRI
\* number, not while it is a draft nor once annulled.
StatiFir == {"BOZZA", "COLLEGABILE", "ANNULLATO"}

\* Statements of the transaction that registers a movement.
PassiMovimento ==
  {"BLOCCO_FIR", "RICOPIE", "BLOCCO_ANNO", "BLOCCO_GIACENZA", "GIACENZA",
   "MASSIMO", "INIZIALE", "INSERT"}

\* Statements of the transaction that sets the first number of a year.
PassiIniziale == {"BLOCCO_ANNO", "ESISTENTE", "PRIMO", "CREA"}

Esiti == {"NESSUNO", "REGISTRATO", "GIA_REGISTRATO", "DATI_DIVERSI", "GIACENZA",
          "NON_COLLEGABILE", "CONFLITTO", "ERRORE"}

Avvisi == {"NESSUNO", "ORDINE_DATE", "UNITA_NON_DI_MASSA"}

TypeOK ==
  /\ registro \subseteq Movimento
  /\ iniziale \in [Anni -> Nat]
  /\ firStato \in [Fir -> StatiFir]
  /\ annoCorrente \in Anni
  /\ blocco \in [Lucchetti -> Transazioni \cup {Libero}]
  /\ pc \in [Transazioni -> {"FERMA", "FIR", "FINITA"} \cup PassiMovimento
                                                       \cup PassiIniziale]
  /\ \A r \in Richieste : pc[r] \notin PassiIniziale \ PassiMovimento
  /\ \A i \in Impostazioni :
       pc[i] \notin {"FIR"} \cup (PassiMovimento \ PassiIniziale)
  /\ comando \in [Richieste -> Comandi]
  /\ annoDi \in [Transazioni -> Anni \cup {NessunAnno}]
  /\ \A t \in Transazioni : pc[t] \notin {"FERMA", "FINITA"} => annoDi[t] \in Anni
  /\ numero \in [Transazioni -> Nat]
  /\ avviso \in [Transazioni -> Avvisi]
  /\ esito \in [Transazioni -> Esiti]
  /\ invii \in 0 .. MaxInvii

Init ==
  /\ registro \in Storici
  /\ iniziale = [a \in Anni |-> 0]
  /\ firStato = [f \in Fir |-> "BOZZA"]
  /\ annoCorrente \in {a \in Anni : \A b \in Anni : a <= b}
  /\ blocco = [l \in Lucchetti |-> Libero]
  /\ pc = [t \in Transazioni |-> "FERMA"]
  /\ comando = [r \in Richieste |-> CHOOSE c \in Comandi : TRUE]
  /\ annoDi = [t \in Transazioni |-> NessunAnno]
  /\ numero = [t \in Transazioni |-> 0]
  /\ avviso = [t \in Transazioni |-> "NESSUNO"]
  /\ esito = [t \in Transazioni |-> "NESSUNO"]
  /\ invii = 0

-----------------------------------------------------------------------------
(* Statements, and how a transaction ends. *)

Vai(t, passo) == pc' = [pc EXCEPT ![t] = passo]

Prosegue(t, passo) ==
  /\ Vai(t, passo)
  /\ UNCHANGED <<blocco, locali, esito>>

\* A variant with a bug: pg_advisory_lock, which outlives the transaction.
FinisceSenzaRilascio(t, e) ==
  /\ Vai(t, "FINITA")
  /\ esito' = [esito EXCEPT ![t] = e]
  /\ annoDi' = [annoDi EXCEPT ![t] = NessunAnno]
  /\ numero' = [numero EXCEPT ![t] = 0]
  /\ avviso' = [avviso EXCEPT ![t] = "NESSUNO"]
  /\ UNCHANGED blocco

\* The answer, or the exception.  Commit and rollback release the advisory
\* locks; the variables of the execution go away with it.
Finisce(t, e) ==
  /\ Vai(t, "FINITA")
  /\ esito' = [esito EXCEPT ![t] = e]
  /\ blocco' = [l \in Lucchetti |-> IF blocco[l] = t THEN Libero ELSE blocco[l]]
  /\ annoDi' = [annoDi EXCEPT ![t] = NessunAnno]
  /\ numero' = [numero EXCEPT ![t] = 0]
  /\ avviso' = [avviso EXCEPT ![t] = "NESSUNO"]

\* pg_advisory_xact_lock(hashtext(chiave)): waits for the other holder; a
\* lock already held is granted again.
Blocca(t, chiave, passo) ==
  /\ blocco[Hash[chiave]] \in {Libero, t}
  /\ blocco' = [blocco EXCEPT ![Hash[chiave]] = t]
  /\ Vai(t, passo)
  /\ UNCHANGED <<tabelle, ambiente, comando, locali, esito, invii>>

-----------------------------------------------------------------------------
(* A client registers a movement. *)

\* The controller takes the instant of registration; the FIR, if any, is
\* checked first.
Parte(r, c) ==
  /\ invii < MaxInvii
  /\ invii' = invii + 1
  /\ comando' = [comando EXCEPT ![r] = c]
  /\ annoDi' = [annoDi EXCEPT ![r] = annoCorrente]
  /\ Vai(r, IF c.fir = NessunFir THEN "BLOCCO_ANNO" ELSE "FIR")
  /\ UNCHANGED <<tabelle, ambiente, blocco, numero, avviso, esito>>

Invia(r) ==
  /\ pc[r] = "FERMA"
  /\ \E c \in Comandi : Parte(r, c)

\* After an error, or an answer that never arrived, the operator sends the
\* same movement again.
Riprova(r) ==
  /\ pc[r] = "FINITA"
  /\ esito[r] = "ERRORE"
  /\ Parte(r, comando[r])

\* Outside the transaction.
LeggeFir(r) ==
  /\ pc[r] = "FIR"
  /\ IF firStato[comando[r].fir] = "COLLEGABILE"
       THEN Prosegue(r, "BLOCCO_FIR")
       ELSE Finisce(r, "NON_COLLEGABILE")
  /\ UNCHANGED <<tabelle, ambiente, comando, invii>>

\* A variant with a bug: the copies of a FIR are read without its lock.
BloccaFirSenzaAttesa(r) ==
  /\ pc[r] = "BLOCCO_FIR"
  /\ Prosegue(r, "RICOPIE")
  /\ UNCHANGED <<tabelle, ambiente, comando, invii>>

BloccaFir(r) ==
  pc[r] = "BLOCCO_FIR" /\ Blocca(r, ChiaveFir(comando[r].fir), "RICOPIE")

StessiDati(m, c) ==
  /\ m.cer = c.cer
  /\ m.quantita = c.quantita
  /\ m.unita = c.unita
  /\ m.giorno = c.giorno

\* A variant with a bug: only the copies numbered in the current year.
RicopieDellAnno(c) ==
  {m \in registro : m.fir = c.fir /\ m.tipo = c.tipo /\ m.anno = annoCorrente}

\* The movements that already copy the FIR of the command.
Ricopie(c) == {m \in registro : m.fir = c.fir /\ m.tipo = c.tipo}

GiaRicopiato(c) == \E m \in Ricopie(c) : StessiDati(m, c)

\* The same movement again is answered with the row already written.
LeggeRicopie(r) ==
  /\ pc[r] = "RICOPIE"
  /\ IF Ricopie(comando[r]) = {}
       THEN Prosegue(r, "BLOCCO_ANNO")
       ELSE Finisce(r, IF GiaRicopiato(comando[r]) THEN "GIA_REGISTRATO"
                                                   ELSE "DATI_DIVERSI")
  /\ UNCHANGED <<tabelle, ambiente, comando, invii>>

\* Only discharges measured by mass are compared with the stock.
Controllato(c) == c.tipo = "SCARICO" /\ c.unita \in UnitaDiMassa

BloccaAnno(r) ==
  /\ pc[r] = "BLOCCO_ANNO"
  /\ Blocca(r, ChiaveAnno(annoDi[r]),
            IF Controllato(comando[r]) THEN "BLOCCO_GIACENZA" ELSE "MASSIMO")

\* A variant with a bug: the stock is read without its lock.
BloccaGiacenzaSenzaAttesa(r) ==
  /\ pc[r] = "BLOCCO_GIACENZA"
  /\ Prosegue(r, "GIACENZA")
  /\ UNCHANGED <<tabelle, ambiente, comando, invii>>

BloccaGiacenza(r) ==
  /\ pc[r] = "BLOCCO_GIACENZA"
  /\ Blocca(r, ChiaveGiacenza(comando[r].cer), "GIACENZA")

\* The warning of a discharge that is registered.
Avviso(c, coperto) ==
  IF ~coperto THEN "UNITA_NON_DI_MASSA"
  ELSE IF DisponibileAllaData(registro, c.cer, c.giorno) < Kg(c) THEN "ORDINE_DATE"
  ELSE "NESSUNO"

\* verificaGiacenza: refused when the whole balance is too low, unless loads
\* in litres make it undecidable; registered with a warning when the balance
\* is enough, but not on its day.
VerificaGiacenza(r) ==
  /\ pc[r] = "GIACENZA"
  /\ LET c == comando[r]
         coperto == SaldoComplessivo(registro, c.cer) >= Kg(c)
     IN  IF coperto \/ CarichiNonDiMassa(registro, c.cer)
           THEN /\ avviso' = [avviso EXCEPT ![r] = Avviso(c, coperto)]
                /\ Vai(r, "MASSIMO")
                /\ UNCHANGED <<blocco, annoDi, numero, esito>>
           ELSE Finisce(r, "GIACENZA")
  /\ UNCHANGED <<tabelle, ambiente, comando, invii>>

NumeriDi(a) == {m.numero : m \in {n \in registro : n.anno = a}}

\* SELECT MAX(progressive_number), NULL counted as zero.
Massimo(a) == IF NumeriDi(a) = {} THEN 0 ELSE Max(NumeriDi(a))

\* The number goes from a statement to the next.
Numera(r, n, passo) ==
  /\ numero' = [numero EXCEPT ![r] = n]
  /\ Vai(r, passo)
  /\ UNCHANGED <<tabelle, ambiente, blocco, comando, annoDi, avviso, esito, invii>>

LeggeMassimo(r) ==
  pc[r] = "MASSIMO" /\ Numera(r, Massimo(annoDi[r]) + 1, "INIZIALE")

\* Math.max of the number read and of the first number chosen, 1 if none.
Maggiore(x, y) == IF x >= y THEN x ELSE y

Primo(a) == IF iniziale[a] = 0 THEN 1 ELSE iniziale[a]

LeggeIniziale(r) ==
  pc[r] = "INIZIALE" /\ Numera(r, Maggiore(numero[r], Primo(annoDi[r])), "INSERT")

Riga(r) ==
  LET c == comando[r]
  IN  [anno |-> annoDi[r], numero |-> numero[r], tipo |-> c.tipo,
       cer |-> c.cer, quantita |-> c.quantita, unita |-> c.unita,
       giorno |-> c.giorno, fir |-> c.fir, ricopia |-> c.fir # NessunFir]

\* The two unique indexes of waste_movements.
NumeroDoppio(riga) ==
  \E m \in registro : m.anno = riga.anno /\ m.numero = riga.numero

RicopiaDoppia(riga) ==
  /\ riga.ricopia
  /\ \E m \in registro : m.ricopia /\ m.fir = riga.fir /\ m.tipo = riga.tipo

\* The commit may succeed and its answer be lost (restart of the process,
\* broken connection): the client then knows of an error.
Inserisce(r) ==
  /\ pc[r] = "INSERT"
  /\ IF NumeroDoppio(Riga(r)) \/ RicopiaDoppia(Riga(r))
       THEN /\ Finisce(r, IF RicopiaDoppia(Riga(r)) THEN "DATI_DIVERSI"
                                                    ELSE "ERRORE")
            /\ UNCHANGED registro
       ELSE /\ \E e \in {"REGISTRATO", "ERRORE"} : Finisce(r, e)
            /\ registro' = registro \cup {Riga(r)}
  /\ UNCHANGED <<iniziale, ambiente, comando, invii>>

-----------------------------------------------------------------------------
(* An administrator sets the first number of a year. *)

\* The current year or the next, as read before the transaction.
ChiedeIniziale(i) ==
  /\ pc[i] = "FERMA"
  /\ \E a \in Anni \cap {annoCorrente, annoCorrente + 1}, p \in Primi :
       /\ annoDi' = [annoDi EXCEPT ![i] = a]
       /\ numero' = [numero EXCEPT ![i] = p]
  /\ Vai(i, "BLOCCO_ANNO")
  /\ UNCHANGED <<tabelle, ambiente, blocco, comando, avviso, esito, invii>>

\* A variant with a bug: the first number is set without the lock of the numbering.
BloccaAnnoInizialeSenzaAttesa(i) ==
  /\ pc[i] = "BLOCCO_ANNO"
  /\ Prosegue(i, "ESISTENTE")
  /\ UNCHANGED <<tabelle, ambiente, comando, invii>>

\* The lock of the numbering.
BloccaAnnoIniziale(i) ==
  pc[i] = "BLOCCO_ANNO" /\ Blocca(i, ChiaveAnno(annoDi[i]), "ESISTENTE")

LeggeEsistente(i) ==
  /\ pc[i] = "ESISTENTE"
  /\ IF iniziale[annoDi[i]] = 0
       THEN Prosegue(i, "PRIMO")
       ELSE Finisce(i, "CONFLITTO")
  /\ UNCHANGED <<tabelle, ambiente, comando, invii>>

\* A variant with a bug: movements of the year already there are not looked for.
LeggePrimoSenzaControllo(i) ==
  /\ pc[i] = "PRIMO"
  /\ Prosegue(i, "CREA")
  /\ UNCHANGED <<tabelle, ambiente, comando, invii>>

LeggePrimo(i) ==
  /\ pc[i] = "PRIMO"
  /\ IF NumeriDi(annoDi[i]) = {}
       THEN Prosegue(i, "CREA")
       ELSE Finisce(i, "CONFLITTO")
  /\ UNCHANGED <<tabelle, ambiente, comando, invii>>

\* Unique index on tenant and year; the activity log goes with it.
CreaIniziale(i) ==
  /\ pc[i] = "CREA"
  /\ IF iniziale[annoDi[i]] # 0
       THEN Finisce(i, "ERRORE") /\ UNCHANGED iniziale
       ELSE /\ \E e \in {"REGISTRATO", "ERRORE"} : Finisce(i, e)
            /\ iniziale' = [iniziale EXCEPT ![annoDi[i]] = numero[i]]
  /\ UNCHANGED <<registro, ambiente, comando, invii>>

-----------------------------------------------------------------------------
(* Failures, and the rest of the system. *)

InTransazione(t) == pc[t] \in PassiMovimento \cup PassiIniziale

\* A statement fails, the transaction outlives the 5 seconds Prisma gives it
\* (waiting for a lock too), the process restarts: PostgreSQL rolls back.
Fallisce(t) ==
  /\ InTransazione(t) \/ pc[t] = "FIR"
  /\ Finisce(t, "ERRORE")
  /\ UNCHANGED <<tabelle, ambiente, comando, invii>>

CambiaFir(f, stato) ==
  /\ firStato' = [firStato EXCEPT ![f] = stato]
  /\ UNCHANGED <<tabelle, annoCorrente, blocco, pc, comando, locali, esito, invii>>

\* emettiConNumerazione, or a RENTRI number acquired or attached by hand.
Emette(f) == firStato[f] = "BOZZA" /\ CambiaFir(f, "COLLEGABILE")

\* FIR.annulla, or the annulment at the authority brought back by the poll:
\* neither looks at the register.
Annulla(f) == firStato[f] # "ANNULLATO" /\ CambiaFir(f, "ANNULLATO")

\* Midnight of the first of January, in Italy.
CambiaAnno ==
  /\ annoCorrente + 1 \in Anni
  /\ annoCorrente' = annoCorrente + 1
  /\ UNCHANGED <<tabelle, firStato, blocco, pc, comando, locali, esito, invii>>

-----------------------------------------------------------------------------
(* The specification. *)

\* Statements of a movement.
Blocchi(r) == BloccaFir(r) \/ BloccaAnno(r) \/ BloccaGiacenza(r)

Passi(r) ==
  \/ LeggeFir(r)
  \/ LeggeRicopie(r)
  \/ VerificaGiacenza(r)
  \/ LeggeMassimo(r)
  \/ LeggeIniziale(r)
  \/ Inserisce(r)

PassiDiIniziale(i) == LeggeEsistente(i) \/ LeggePrimo(i) \/ CreaIniziale(i)

Next ==
  \/ \E r \in Richieste : Invia(r) \/ Riprova(r) \/ Blocchi(r) \/ Passi(r)
  \/ \E i \in Impostazioni :
       ChiedeIniziale(i) \/ BloccaAnnoIniziale(i) \/ PassiDiIniziale(i)
  \/ \E t \in Transazioni : Fallisce(t)
  \/ \E f \in Fir : Emette(f) \/ Annulla(f)
  \/ CambiaAnno

\* A statement whose locks are granted is executed; the lock manager of
\* PostgreSQL queues the waiting transactions, so a lock that is released
\* again and again is granted in the end.
Fairness ==
  /\ \A r \in Richieste : WF_vars(Passi(r)) /\ SF_vars(Blocchi(r))
  /\ \A i \in Impostazioni :
       WF_vars(PassiDiIniziale(i)) /\ SF_vars(BloccaAnnoIniziale(i))

Spec == Init /\ [][Next]_vars /\ Fairness

-----------------------------------------------------------------------------
(* Properties. *)

\* Within a year the progressives go from the first number to the last one
\* without gaps or repetitions, whatever requests, failures, lost answers and
\* first numbers interleave (MAX + 1 under the lock of the year).
ProgressiviContigui ==
  /\ \A m, n \in registro : m.anno = n.anno /\ m.numero = n.numero => m = n
  /\ \A a \in Anni : NumeriDi(a) # {} =>
       \E ultimo \in NumeriDi(a) : NumeriDi(a) = Primo(a) .. ultimo

\* The unique indexes are a safety net: no insert ever runs into them, so no
\* number is consumed twice and the lock of the FIR is what makes a ricopia
\* unique.
IndiciMaiViolati ==
  \A r \in Richieste : pc[r] = "INSERT" =>
    ~NumeroDoppio(Riga(r)) /\ ~RicopiaDoppia(Riga(r))

\* A discharge measured by mass is written only if the balance of its waste
\* stays at zero or more after it, or with the warning that loads in other
\* units make it undecidable; without a warning no balance from its day on is
\* negative.  The stock was read four statements before, by a request that
\* may be numbering another year.
GiacenzaRispettata ==
  [][\A r \in Richieste :
       /\ pc[r] = "INSERT"
       /\ registro' # registro /\ Riga(r) \in registro'
       /\ Controllato(comando[r])
       => LET cer == comando[r].cer
          IN  /\ avviso[r] # "UNITA_NON_DI_MASSA" =>
                   SaldoComplessivo(registro', cer) >= 0
              /\ avviso[r] = "NESSUNO" =>
                   \A m \in registro' : m.giorno >= comando[r].giorno =>
                     SaldoAl(registro', cer, m.giorno) >= 0
    ]_vars

\* A command whose FIR is already copied with the same data is never refused
\* for the stock (which that very copy may have used up) nor as a copy with
\* other data, and never writes a second row.
RitentativoRiconosciuto ==
  [][\A r \in Richieste :
       /\ pc[r] # "FINITA" /\ pc'[r] = "FINITA"
       /\ esito'[r] \in {"REGISTRATO", "GIACENZA", "DATI_DIVERSI"}
       /\ comando[r].fir # NessunFir
       => \A m \in registro :
            m.fir = comando[r].fir /\ m.tipo = comando[r].tipo
              => ~StessiDati(m, comando[r])
    ]_vars

\* The lock a request is waiting for, if any.
Attesa(t) ==
  IF pc[t] = "BLOCCO_FIR" THEN {Hash[ChiaveFir(comando[t].fir)]}
  ELSE IF pc[t] = "BLOCCO_ANNO" THEN {Hash[ChiaveAnno(annoDi[t])]}
  ELSE IF pc[t] = "BLOCCO_GIACENZA" THEN {Hash[ChiaveGiacenza(comando[t].cer)]}
  ELSE {}

\* No set of transactions in which each waits for another: the order FIR,
\* progressive, stock is the same for all (PostgreSQL would have to abort one
\* of them).
NessunaAttesaCircolare ==
  \A gruppo \in (SUBSET Transazioni) \ {{}} :
    \E t \in gruppo : \A l \in Attesa(t) : blocco[l] \notin gruppo \ {t}

\* Every request that starts ends, without counting on timeouts.
RichiesteFinite ==
  \A t \in Transazioni : pc[t] \notin {"FERMA", "FINITA"} ~> pc[t] = "FINITA"

\* What the locks protect while a transaction is under way.
OltreFir == PassiMovimento \ {"BLOCCO_FIR"}

OltreAnno == (PassiMovimento \cup PassiIniziale)
               \ {"BLOCCO_FIR", "RICOPIE", "BLOCCO_ANNO"}

Possiede(t, chiave) == blocco[Hash[chiave]] = t

LucchettiTenuti ==
  /\ \A r \in Richieste : pc[r] \in OltreFir /\ comando[r].fir # NessunFir =>
       Possiede(r, ChiaveFir(comando[r].fir))
  /\ \A t \in Transazioni : pc[t] \in OltreAnno =>
       Possiede(t, ChiaveAnno(annoDi[t]))

\* What was read under a lock is still so when it is used.
LettureValide ==
  /\ \A r \in Richieste :
       /\ pc[r] \in OltreFir \ {"RICOPIE"} /\ comando[r].fir # NessunFir =>
            Ricopie(comando[r]) = {}
       /\ pc[r] = "INIZIALE" => numero[r] = Massimo(annoDi[r]) + 1
       /\ pc[r] = "INSERT" =>
            numero[r] = Maggiore(Massimo(annoDi[r]) + 1, Primo(annoDi[r]))
  /\ \A i \in Impostazioni :
       /\ pc[i] \in PassiIniziale => numero[i] \in Primi
       /\ pc[i] \in {"PRIMO", "CREA"} => iniziale[annoDi[i]] = 0
       /\ pc[i] = "CREA" => NumeriDi(annoDi[i]) = {}

\* The inductive invariant of the numbering: with it the register is
\* contiguous and the indexes are never violated, whatever hashtext maps to
\* the same lock.
NumerazioneInv ==
  /\ TypeOK
  /\ ProgressiviContigui
  /\ LucchettiTenuti
  /\ LettureValide

\* The statements a checked discharge executes under the lock of the stock.
OltreGiacenza == {"GIACENZA", "MASSIMO", "INIZIALE", "INSERT"}

\* The rows cover a discharge: on the whole and from its day on without a
\* warning, on the whole with the one on the dates, undecidably with the other.
Copre(righe, c, a) ==
  /\ IF a = "UNITA_NON_DI_MASSA"
       THEN CarichiNonDiMassa(righe, c.cer)
       ELSE SaldoComplessivo(righe, c.cer) >= Kg(c)
  /\ a = "NESSUNO" => DisponibileAllaData(righe, c.cer, c.giorno) >= Kg(c)

\* The stock a discharge was compared with is still there when its row is
\* written: who takes of the same waste waits for the lock, who does not wait
\* only adds to it.
GiacenzaLetta ==
  \A r \in Richieste : Controllato(comando[r]) =>
    /\ pc[r] \in OltreGiacenza => Possiede(r, ChiaveGiacenza(comando[r].cer))
    /\ pc[r] \in OltreGiacenza \ {"GIACENZA"} =>
         Copre(registro, comando[r], avviso[r])

\* The inductive invariant: numbering and stock, over a finite table.
RegistroInv ==
  /\ NumerazioneInv
  /\ IsFiniteSet(registro)
  /\ GiacenzaLetta

\* The interleaved transactions implement a register written one row at a time.
Cronologico == INSTANCE RegistroCronologico

RegistroCronologicoRispettato == Cronologico!Spec

===============================================================================
