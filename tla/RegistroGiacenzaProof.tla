------------------------ MODULE RegistroGiacenzaProof -------------------------
(***************************************************************************)
(* Proofs about the stock of RegistroMovimenti: that the sums over the     *)
(* rows of the register follow its inserts, that the stock a discharge was *)
(* compared with is still there when its row is written, and that the      *)
(* interleaved transactions implement RegistroCronologico; for any         *)
(* clients, FIRs, years, commands and initial registers, and for any       *)
(* hashtext.                                                               *)
(***************************************************************************)
EXTENDS RegistroMovimentiProof, FiniteSetTheorems, WellFoundedInduction

-----------------------------------------------------------------------------
(* Sums over finite sets of rows. *)

Somma(S) == MapThenSumSet(Delta, S)

\* The row taken first from a set.
Prima(s) == CHOOSE m \in s : TRUE

\* g is the recursive function whose value at S is the sum of S.
Ricorre(S, g) ==
  g = [s \in SUBSET S |->
         IF s = {} THEN 0 ELSE Delta(Prima(s)) + g[s \ {Prima(s)}]]

\* The sum is the value of that function.
LEMMA SommaDa ==
  ASSUME NEW S
  PROVE  Somma(S) = (CHOOSE g : Ricorre(S, g))[S]
BY DEF Somma, MapThenSumSet, MapThenFoldSet, Ricorre, Prima

\* A non-empty set of finite sets has a minimal element.
LEMMA InsiemeMinimo ==
  ASSUME NEW S, IsFiniteSet(S), NEW T, T \subseteq SUBSET S, T # {}
  PROVE  \E X \in T : \A Y \in T : Y \subseteq X => Y = X
<1>1. IsWellFoundedOn(StrictSubsetOrdering(S), SUBSET S)
  <2>1. FiniteSubsetsOf(S) = SUBSET S
    BY FS_FiniteSubsetsOfFinite
  <2> QED BY <2>1, FS_StrictSubsetOrderingWellFounded
<1>2. PICK X \in T : \A Y \in T : <<Y, X>> \notin StrictSubsetOrdering(S)
  BY <1>1, WFMin
<1>3. ASSUME NEW Y \in T, Y \subseteq X, Y # X PROVE FALSE
  <2>1. <<Y, X>> \in StrictSubsetOrdering(S)
    BY <1>3 DEF StrictSubsetOrdering
  <2> QED BY <1>2, <2>1
<1> QED BY <1>3

\* The row taken first is a row of the set.
LEMMA PrimaDelle == ASSUME NEW s, s # {} PROVE Prima(s) \in s
BY DEF Prima

\* Two such functions agree where both are defined.
LEMMA RicorreUnica ==
  ASSUME NEW S, NEW T, IsFiniteSet(T), T \subseteq S,
         NEW g, Ricorre(S, g), NEW h, Ricorre(T, h)
  PROVE  \A s \in SUBSET T : g[s] = h[s]
<1> DEFINE Diverse == {s \in SUBSET T : g[s] # h[s]}
<1> SUFFICES ASSUME Diverse # {} PROVE FALSE
  OBVIOUS
<1>1. PICK X \in Diverse : \A Y \in Diverse : Y \subseteq X => Y = X
  <2>1. Diverse \subseteq SUBSET T
    OBVIOUS
  <2> HIDE DEF Diverse
  <2> QED BY <2>1, InsiemeMinimo
<1>2. X \in SUBSET T /\ X \in SUBSET S /\ g[X] # h[X]
  OBVIOUS
<1>3. g[X] = IF X = {} THEN 0 ELSE Delta(Prima(X)) + g[X \ {Prima(X)}]
  BY <1>2 DEF Ricorre
<1>4. h[X] = IF X = {} THEN 0 ELSE Delta(Prima(X)) + h[X \ {Prima(X)}]
  BY <1>2 DEF Ricorre
<1>5. X # {}
  BY <1>2, <1>3, <1>4
<1>6. g[X \ {Prima(X)}] = h[X \ {Prima(X)}]
  <2>1. X \ {Prima(X)} # X /\ X \ {Prima(X)} \subseteq X
    BY <1>5, PrimaDelle
  <2>2. X \ {Prima(X)} \notin Diverse
    BY <1>1, <2>1
  <2> QED BY <1>2, <2>2
<1> QED BY <1>2, <1>3, <1>4, <1>5, <1>6

\* Where such a function exists, the sum is its value.
LEMMA SommaRicorre ==
  ASSUME NEW S, IsFiniteSet(S), NEW g, Ricorre(S, g), NEW T \in SUBSET S
  PROVE  Somma(T) = g[T]
<1> DEFINE h == [s \in SUBSET T |-> g[s]]
<1>1. Ricorre(T, h)
  <2>1. ASSUME NEW s \in SUBSET T
        PROVE  g[s] = IF s = {} THEN 0 ELSE Delta(Prima(s)) + h[s \ {Prima(s)}]
    <3>1. s \in SUBSET S
      OBVIOUS
    <3>2. g[s] = IF s = {} THEN 0 ELSE Delta(Prima(s)) + g[s \ {Prima(s)}]
      BY <3>1 DEF Ricorre
    <3>3. s \ {Prima(s)} \in SUBSET T
      OBVIOUS
    <3> QED BY <3>2, <3>3
  <2> QED BY <2>1 DEF Ricorre
<1>2. IsFiniteSet(T)
  BY FS_Subset
<1> DEFINE k == CHOOSE f : Ricorre(T, f)
<1>3. Ricorre(T, k)
  BY <1>1
<1>4. Somma(T) = k[T]
  BY SommaDa
<1> HIDE DEF h, k
<1>5. \A s \in SUBSET T : g[s] = k[s]
  BY <1>2, <1>3, RicorreUnica
<1> QED BY <1>4, <1>5

\* The function exists for every finite set.
LEMMA RicorreEsiste ==
  ASSUME NEW S, IsFiniteSet(S)
  PROVE  \E g : Ricorre(S, g)
<1> DEFINE Senza == {s \in SUBSET S : ~ \E g : Ricorre(s, g)}
<1> SUFFICES ASSUME Senza # {} PROVE FALSE
  OBVIOUS
<1>1. PICK D \in Senza : \A Y \in Senza : Y \subseteq D => Y = D
  <2>1. Senza \subseteq SUBSET S
    OBVIOUS
  <2> HIDE DEF Senza
  <2> QED BY <2>1, InsiemeMinimo
<1>2. D \in SUBSET S /\ IsFiniteSet(D)
  BY FS_Subset
<1>3. ASSUME NEW E \in SUBSET D, E # D PROVE \E g : Ricorre(E, g)
  BY <1>1, <1>2, <1>3
<1> DEFINE f == [s \in SUBSET D |->
                   IF s = {} THEN 0
                   ELSE Delta(Prima(s)) + Somma(s \ {Prima(s)})]
<1>4. ASSUME NEW E \in SUBSET D, E # D PROVE f[E] = Somma(E)
  <2>1. PICK g : Ricorre(E, g)
    BY <1>3, <1>4
  <2>2. IsFiniteSet(E)
    BY <1>2, FS_Subset
  <2>3. Somma(E) = g[E]
    BY <2>1, <2>2, SommaRicorre
  <2>4. Somma(E \ {Prima(E)}) = g[E \ {Prima(E)}]
    BY <2>1, <2>2, SommaRicorre
  <2>5. g[E] = IF E = {} THEN 0 ELSE Delta(Prima(E)) + g[E \ {Prima(E)}]
    BY <2>1 DEF Ricorre
  <2> QED BY <2>3, <2>4, <2>5
<1>5. Ricorre(D, f)
  <2>1. ASSUME NEW s \in SUBSET D, s # {}
        PROVE  Somma(s \ {Prima(s)}) = f[s \ {Prima(s)}]
    <3>1. s \ {Prima(s)} # D /\ s \ {Prima(s)} \in SUBSET D
      BY <2>1, PrimaDelle
    <3> HIDE DEF f
    <3> QED BY <1>4, <3>1
  <2>2. ASSUME NEW s \in SUBSET D
        PROVE  f[s] = IF s = {} THEN 0 ELSE Delta(Prima(s)) + f[s \ {Prima(s)}]
    BY <2>1
  <2>3. f = [s \in SUBSET D |-> f[s]]
    OBVIOUS
  <2> HIDE DEF f
  <2>4. f = [s \in SUBSET D |->
               IF s = {} THEN 0 ELSE Delta(Prima(s)) + f[s \ {Prima(s)}]]
    BY <2>2, <2>3
  <2> QED BY <2>4 DEF Ricorre
<1> QED BY <1>1, <1>5

\* The sum of no row is zero; any other is the first row plus the rest.
LEMMA SommaEquazione ==
  ASSUME NEW S, IsFiniteSet(S)
  PROVE  Somma(S) = IF S = {} THEN 0
                    ELSE Delta(Prima(S)) + Somma(S \ {Prima(S)})
<1>1. PICK g : Ricorre(S, g)
  BY RicorreEsiste
<1>2. Somma(S) = g[S] /\ Somma(S \ {Prima(S)}) = g[S \ {Prima(S)}]
  BY <1>1, SommaRicorre
<1>3. g[S] = IF S = {} THEN 0 ELSE Delta(Prima(S)) + g[S \ {Prima(S)}]
  BY <1>1 DEF Ricorre
<1> QED BY <1>2, <1>3

-----------------------------------------------------------------------------
(* Rows have a whole number of kilos: their sum does not depend on the order. *)

Interi(S) == \A m \in S : Delta(m) \in Int

\* The sum of whole numbers is a whole number.
LEMMA SommaIntera ==
  ASSUME NEW S, IsFiniteSet(S), Interi(S)
  PROVE  Somma(S) \in Int
<1> DEFINE Non == {s \in SUBSET S : Somma(s) \notin Int}
<1> SUFFICES ASSUME Non # {} PROVE FALSE
  OBVIOUS
<1>1. PICK X \in Non : \A Y \in Non : Y \subseteq X => Y = X
  <2>1. Non \subseteq SUBSET S
    OBVIOUS
  <2> HIDE DEF Non
  <2> QED BY <2>1, InsiemeMinimo
<1>2. X \in SUBSET S /\ IsFiniteSet(X)
  BY FS_Subset
<1>3. X # {}
  <2>1. Somma({}) = 0
    BY SommaEquazione, FS_EmptySet
  <2> QED BY <2>1
<1>4. Prima(X) \in X
  BY <1>3, PrimaDelle
<1>5. Somma(X \ {Prima(X)}) \in Int
  BY <1>1, <1>2, <1>4
<1>6. Delta(Prima(X)) \in Int
  BY <1>2, <1>4 DEF Interi
<1>7. Somma(X) = Delta(Prima(X)) + Somma(X \ {Prima(X)})
  BY <1>2, <1>3, SommaEquazione
<1> QED BY <1>1, <1>5, <1>6, <1>7

\* Any row may be taken first.
LEMMA SommaTogli ==
  ASSUME NEW S, IsFiniteSet(S), Interi(S), NEW m \in S
  PROVE  Somma(S) = Delta(m) + Somma(S \ {m})
<1> DEFINE Non == {s \in SUBSET S : \E x \in s : Somma(s) # Delta(x) + Somma(s \ {x})}
<1> SUFFICES ASSUME Non # {} PROVE FALSE
  OBVIOUS
<1>1. PICK X \in Non : \A Y \in Non : Y \subseteq X => Y = X
  <2>1. Non \subseteq SUBSET S
    OBVIOUS
  <2> HIDE DEF Non
  <2> QED BY <2>1, InsiemeMinimo
<1>2. X \in SUBSET S /\ IsFiniteSet(X)
  BY FS_Subset
<1>3. PICK x \in X : Somma(X) # Delta(x) + Somma(X \ {x})
  OBVIOUS
<1> DEFINE z == Prima(X)
<1>4. z \in X
  BY PrimaDelle
<1>5. Somma(X) = Delta(z) + Somma(X \ {z})
  BY <1>2, SommaEquazione
<1> HIDE DEF z
<1>6. x # z
  BY <1>3, <1>5
<1>a. ASSUME NEW Y, Y \subseteq X, Y # X, NEW y \in Y
      PROVE  Somma(Y) = Delta(y) + Somma(Y \ {y})
  BY <1>1, <1>2, <1>a
<1>7. Somma(X \ {z}) = Delta(x) + Somma((X \ {z}) \ {x})
  <2>1. X \ {z} \subseteq X /\ X \ {z} # X /\ x \in X \ {z}
    BY <1>3, <1>4, <1>6
  <2> QED BY <1>a, <2>1
<1>8. Somma(X \ {x}) = Delta(z) + Somma((X \ {x}) \ {z})
  <2>1. X \ {x} \subseteq X /\ X \ {x} # X /\ z \in X \ {x}
    BY <1>3, <1>4, <1>6
  <2> QED BY <1>a, <2>1
<1>9. (X \ {x}) \ {z} = (X \ {z}) \ {x}
  OBVIOUS
<1>10. Somma((X \ {z}) \ {x}) \in Int
  <2>1. IsFiniteSet((X \ {z}) \ {x}) /\ Interi((X \ {z}) \ {x})
    BY <1>2, FS_Subset DEF Interi
  <2> QED BY <2>1, SommaIntera
<1>11. Delta(x) \in Int /\ Delta(z) \in Int
  BY <1>2, <1>4 DEF Interi
<1> DEFINE resto == Somma((X \ {z}) \ {x})
<1>12. /\ Somma(X) = Delta(z) + (Delta(x) + resto)
       /\ Somma(X \ {x}) = Delta(z) + resto
       /\ resto \in Int
  BY <1>5, <1>7, <1>8, <1>9, <1>10
<1> HIDE DEF resto
<1> QED BY <1>3, <1>11, <1>12

\* A new row adds what it weighs.
LEMMA SommaAggiunge ==
  ASSUME NEW S, IsFiniteSet(S), NEW m, m \notin S, Interi(S \cup {m})
  PROVE  Somma(S \cup {m}) = Somma(S) + Delta(m)
<1>1. IsFiniteSet(S \cup {m}) /\ (S \cup {m}) \ {m} = S
  BY FS_AddElement
<1>2. Somma(S \cup {m}) = Delta(m) + Somma(S)
  BY <1>1, SommaTogli
<1>3. Somma(S) \in Int /\ Delta(m) \in Int
  BY SommaIntera DEF Interi
<1> QED BY <1>2, <1>3

-----------------------------------------------------------------------------
(* The balances of the register, and what a new row does to them. *)

\* The rows summed for a day.
FinoAl(R, cer, g) == {m \in DiMassa(R, cer) : m.giorno <= g}

\* The kilos of a row or of a command are a positive whole number, so what it
\* adds to the balance has the sign of its kind.
LEMMA KgPositivi ==
  ASSUME NEW m, m.quantita \in Nat \ {0}, m.tipo \in Tipi
  PROVE  /\ Kg(m) \in Nat \ {0}
         /\ Delta(m) = IF m.tipo = "CARICO" THEN Kg(m) ELSE -Kg(m)
         /\ Delta(m) \in Int
<1>1. FattoreKg(m.unita) \in {1, 1000}
  BY DEF FattoreKg
<1>2. Kg(m) \in Nat \ {0}
  <2>1. CASE FattoreKg(m.unita) = 1
    BY <2>1 DEF Kg
  <2>2. CASE FattoreKg(m.unita) = 1000
    BY <2>2 DEF Kg
  <2> QED BY <1>1, <2>1, <2>2
<1> QED BY <1>2 DEF Delta

\* The rows summed are finitely many, of whole kilos.
LEMMA RigheSommate ==
  ASSUME NEW R, R \subseteq Movimento, IsFiniteSet(R), NEW cer, NEW g
  PROVE  /\ IsFiniteSet(DiMassa(R, cer)) /\ Interi(DiMassa(R, cer))
         /\ IsFiniteSet(FinoAl(R, cer, g)) /\ Interi(FinoAl(R, cer, g))
<1>1. DiMassa(R, cer) \subseteq R /\ FinoAl(R, cer, g) \subseteq R
  BY DEF DiMassa, FinoAl
<1>2. \A m \in R : Delta(m) \in Int
  BY KgPositivi DEF Movimento
<1> QED BY <1>1, <1>2, FS_Subset DEF Interi

\* Balances are whole numbers.
LEMMA SaldiInteri ==
  ASSUME NEW R, R \subseteq Movimento, IsFiniteSet(R), NEW cer, NEW g
  PROVE  /\ SaldoComplessivo(R, cer) = Somma(DiMassa(R, cer))
         /\ SaldoAl(R, cer, g) = Somma(FinoAl(R, cer, g))
         /\ SaldoComplessivo(R, cer) \in Int
         /\ SaldoAl(R, cer, g) \in Int
<1>1. /\ SaldoComplessivo(R, cer) = Somma(DiMassa(R, cer))
      /\ SaldoAl(R, cer, g) = Somma(FinoAl(R, cer, g))
  BY DEF SaldoComplessivo, SaldoAl, Somma, FinoAl
<1> QED BY <1>1, RigheSommate, SommaIntera

\* What a new row adds to the balance of a waste, on the whole and at a day.
Apporto(m, cer) ==
  IF m.cer = cer /\ m.unita \in UnitaDiMassa THEN Delta(m) ELSE 0

\* A new row changes the balance of its own waste, from its day on.
LEMMA SaldiConRiga ==
  ASSUME NEW R, R \subseteq Movimento, IsFiniteSet(R),
         NEW m \in Movimento, m \notin R, NEW cer, NEW g
  PROVE  /\ SaldoComplessivo(R \cup {m}, cer)
              = SaldoComplessivo(R, cer) + Apporto(m, cer)
         /\ SaldoAl(R \cup {m}, cer, g)
              = SaldoAl(R, cer, g)
                  + IF m.giorno <= g THEN Apporto(m, cer) ELSE 0
<1> DEFINE Q == R \cup {m}
<1>1. Q \subseteq Movimento /\ IsFiniteSet(Q)
  BY FS_AddElement
<1>2. DiMassa(Q, cer) = IF m.cer = cer /\ m.unita \in UnitaDiMassa
                          THEN DiMassa(R, cer) \cup {m} ELSE DiMassa(R, cer)
  BY DEF DiMassa
<1>3. FinoAl(Q, cer, g) =
        IF (m.cer = cer /\ m.unita \in UnitaDiMassa) /\ m.giorno <= g
          THEN FinoAl(R, cer, g) \cup {m} ELSE FinoAl(R, cer, g)
  BY <1>2 DEF FinoAl
<1>4. m \notin DiMassa(R, cer) /\ m \notin FinoAl(R, cer, g)
  BY DEF DiMassa, FinoAl
<1> HIDE DEF Q
<1>5. Somma(DiMassa(Q, cer)) = Somma(DiMassa(R, cer)) + Apporto(m, cer)
  <2>1. CASE m.cer = cer /\ m.unita \in UnitaDiMassa
    <3>1. DiMassa(Q, cer) = DiMassa(R, cer) \cup {m}
      BY <1>2, <2>1
    <3>2. Interi(DiMassa(R, cer) \cup {m}) /\ IsFiniteSet(DiMassa(R, cer))
      BY <1>1, <3>1, RigheSommate
    <3> QED BY <1>4, <2>1, <3>1, <3>2, SommaAggiunge DEF Apporto
  <2>2. CASE ~(m.cer = cer /\ m.unita \in UnitaDiMassa)
    <3>1. Somma(DiMassa(R, cer)) \in Int
      BY SaldiInteri
    <3> QED BY <1>2, <2>2, <3>1 DEF Apporto
  <2> QED BY <2>1, <2>2
<1>6. Somma(FinoAl(Q, cer, g)) = Somma(FinoAl(R, cer, g))
                                   + IF m.giorno <= g THEN Apporto(m, cer) ELSE 0
  <2>1. CASE (m.cer = cer /\ m.unita \in UnitaDiMassa) /\ m.giorno <= g
    <3>1. FinoAl(Q, cer, g) = FinoAl(R, cer, g) \cup {m}
      BY <1>3, <2>1
    <3>2. Interi(FinoAl(R, cer, g) \cup {m}) /\ IsFiniteSet(FinoAl(R, cer, g))
      BY <1>1, <3>1, RigheSommate
    <3> QED BY <1>4, <2>1, <3>1, <3>2, SommaAggiunge DEF Apporto
  <2>2. CASE ~((m.cer = cer /\ m.unita \in UnitaDiMassa) /\ m.giorno <= g)
    <3>1. Somma(FinoAl(R, cer, g)) \in Int
      BY SaldiInteri
    <3> QED BY <1>3, <2>2, <3>1 DEF Apporto
  <2> QED BY <2>1, <2>2
<1>7. /\ SaldoComplessivo(Q, cer) = Somma(DiMassa(Q, cer))
      /\ SaldoAl(Q, cer, g) = Somma(FinoAl(Q, cer, g))
  BY <1>1, SaldiInteri
<1>8. /\ SaldoComplessivo(R, cer) = Somma(DiMassa(R, cer))
      /\ SaldoAl(R, cer, g) = Somma(FinoAl(R, cer, g))
  BY SaldiInteri
<1> QED BY <1>5, <1>6, <1>7, <1>8 DEF Q

-----------------------------------------------------------------------------
(* The lowest balance from a day on. *)

\* A finite set of whole numbers has a least and a greatest element.
LEMMA EstremiInteri ==
  ASSUME NEW S, \A y \in S : y \in Int, IsFiniteSet(S), S # {}
  PROVE  /\ \E x \in S : \A y \in S : x <= y
         /\ \E x \in S : \A y \in S : y <= x
<1> DEFINE Sotto(x) == {k \in S : k < x}
           Sopra(x) == {k \in S : k > x}
           I == {Sotto(x) : x \in S}
           A == {Sopra(x) : x \in S}
<1>1. I \subseteq SUBSET S /\ I # {} /\ A \subseteq SUBSET S /\ A # {}
  OBVIOUS
<1>2. PICK X \in I : \A Y \in I : Y \subseteq X => Y = X
  <2>1. I \subseteq SUBSET S /\ I # {}
    BY <1>1
  <2> HIDE DEF I
  <2> QED BY <2>1, InsiemeMinimo
<1>3. PICK Z \in A : \A Y \in A : Y \subseteq Z => Y = Z
  <2>1. A \subseteq SUBSET S /\ A # {}
    BY <1>1
  <2> HIDE DEF A
  <2> QED BY <2>1, InsiemeMinimo
<1>4. PICK x \in S : X = Sotto(x)
  OBVIOUS
<1>5. PICK z \in S : Z = Sopra(z)
  OBVIOUS
<1>6. ASSUME NEW y \in S PROVE x <= y
  <2>1. x \in Int /\ y \in Int
    OBVIOUS
  <2>2. ASSUME y < x PROVE FALSE
    <3>1. \A k \in Sotto(y) : k \in Sotto(x)
      <4>1. \A k \in S : k \in Int
        OBVIOUS
      <4> QED BY <2>1, <2>2, <4>1
    <3>2. Sotto(y) \in I
      OBVIOUS
    <3>3. Sotto(y) = Sotto(x)
      BY <1>2, <1>4, <3>1, <3>2
    <3>4. y \in Sotto(x) /\ y \notin Sotto(y)
      BY <2>1, <2>2
    <3> QED BY <3>3, <3>4
  <2> QED BY <2>1, <2>2
<1>7. ASSUME NEW y \in S PROVE y <= z
  <2>1. z \in Int /\ y \in Int
    OBVIOUS
  <2>2. ASSUME y > z PROVE FALSE
    <3>1. \A k \in Sopra(y) : k \in Sopra(z)
      <4>1. \A k \in S : k \in Int
        OBVIOUS
      <4> QED BY <2>1, <2>2, <4>1
    <3>2. Sopra(y) \in A
      OBVIOUS
    <3>3. Sopra(y) = Sopra(z)
      BY <1>3, <1>5, <3>1, <3>2
    <3>4. y \in Sopra(z) /\ y \notin Sopra(y)
      BY <2>1, <2>2
    <3> QED BY <3>3, <3>4
  <2> QED BY <2>1, <2>2
<1> QED BY <1>6, <1>7

\* The days whose balance is read: the day itself, the later days of movement.
GiorniLetti(R, cer, giorno) ==
  {giorno} \cup {m.giorno : m \in {n \in DiMassa(R, cer) : n.giorno > giorno}}

\* They are finitely many.
LEMMA GiorniFiniti ==
  ASSUME NEW R, R \subseteq Movimento, IsFiniteSet(R), NEW cer, NEW giorno \in Nat
  PROVE  /\ IsFiniteSet(GiorniLetti(R, cer, giorno))
         /\ GiorniLetti(R, cer, giorno) \subseteq Nat
<1> DEFINE T == {n \in DiMassa(R, cer) : n.giorno > giorno}
           G == {m.giorno : m \in T}
           f == [m \in T |-> m.giorno]
<1>1. IsFiniteSet(T) /\ T \subseteq R
  BY FS_Subset DEF DiMassa
<1>2. f \in Surjection(T, G)
  BY DEF Surjection
<1>3. IsFiniteSet(G)
  <2> HIDE DEF T, G, f
  <2> QED BY <1>1, <1>2, FS_Surjection
<1>4. IsFiniteSet(G \cup {giorno})
  BY <1>3, FS_AddElement
<1>5. GiorniLetti(R, cer, giorno) = G \cup {giorno}
  BY DEF GiorniLetti
<1>6. G \subseteq Nat
  BY <1>1 DEF Movimento
<1> QED BY <1>4, <1>5, <1>6

\* From a day on, every day has the balance of one of those.
LEMMA UltimoGiornoLetto ==
  ASSUME NEW R, R \subseteq Movimento, IsFiniteSet(R), NEW cer,
         NEW giorno \in Nat, NEW g \in Nat, g >= giorno
  PROVE  \E h \in GiorniLetti(R, cer, giorno) :
           SaldoAl(R, cer, h) = SaldoAl(R, cer, g)
<1> DEFINE L == {d \in GiorniLetti(R, cer, giorno) : d <= g}
<1>1. L \subseteq Int /\ IsFiniteSet(L) /\ giorno \in L
  <2>1. giorno \in GiorniLetti(R, cer, giorno)
    BY DEF GiorniLetti
  <2>2. IsFiniteSet(GiorniLetti(R, cer, giorno))
    BY GiorniFiniti
  <2>3. GiorniLetti(R, cer, giorno) \subseteq Nat
    BY GiorniFiniti
  <2>4. L \subseteq GiorniLetti(R, cer, giorno)
    OBVIOUS
  <2>5. giorno \in L
    BY <2>1
  <2>6. IsFiniteSet(L)
    BY <2>2, <2>4, FS_Subset
  <2> HIDE DEF L
  <2> QED BY <2>3, <2>4, <2>5, <2>6
<1>2. PICK h \in L : \A d \in L : d <= h
  <2> HIDE DEF L
  <2> QED BY <1>1, EstremiInteri
<1>3. h \in GiorniLetti(R, cer, giorno) /\ h \in Nat /\ h <= g /\ giorno <= h
  BY <1>1, <1>2, GiorniFiniti
<1>4. ASSUME NEW m \in DiMassa(R, cer), m.giorno <= g PROVE m.giorno <= h
  <2>1. m.giorno \in Nat
    BY DEF DiMassa, Movimento
  <2>2. CASE m.giorno > giorno
    <3>1. m.giorno \in L
      BY <1>4, <2>2 DEF GiorniLetti
    <3> QED BY <1>2, <3>1
  <2> QED BY <1>3, <2>1, <2>2
<1>5. ASSUME NEW m \in DiMassa(R, cer), m.giorno <= h PROVE m.giorno <= g
  <2>1. m.giorno \in Nat
    BY DEF DiMassa, Movimento
  <2> QED BY <1>3, <1>5, <2>1
<1>6. FinoAl(R, cer, h) = FinoAl(R, cer, g)
  BY <1>4, <1>5 DEF FinoAl
<1> QED BY <1>3, <1>6 DEF SaldoAl, FinoAl

\* The lowest of those balances is one of them.
LEMMA MinimoDeiGiorni ==
  ASSUME NEW R, R \subseteq Movimento, IsFiniteSet(R), NEW cer, NEW giorno \in Nat
  PROVE  LET V == {SaldoAl(R, cer, g) : g \in GiorniLetti(R, cer, giorno)}
         IN  Min(V) \in V /\ \A v \in V : Min(V) <= v
<1> DEFINE G == GiorniLetti(R, cer, giorno)
           V == {SaldoAl(R, cer, g) : g \in G}
           f == [g \in G |-> SaldoAl(R, cer, g)]
<1>1. IsFiniteSet(G) /\ giorno \in G
  BY GiorniFiniti DEF GiorniLetti
<1>2. IsFiniteSet(V)
  <2>1. f \in Surjection(G, V)
    BY DEF Surjection
  <2> HIDE DEF f, V, G
  <2> QED BY <1>1, <2>1, FS_Surjection
<1>3. (\A v \in V : v \in Int) /\ V # {}
  BY <1>1, SaldiInteri
<1> HIDE DEF V
<1>4. Min(V) \in V /\ \A v \in V : Min(V) <= v
  <2>1. \E x \in V : \A y \in V : x <= y
    BY <1>2, <1>3, EstremiInteri
  <2> QED BY <2>1 DEF Min
<1> QED BY <1>4 DEF V

\* The lowest balance from a day on bounds the balance of every later day.
LEMMA DisponibileMinimo ==
  ASSUME NEW R, R \subseteq Movimento, IsFiniteSet(R), NEW cer,
         NEW giorno \in Nat, NEW q \in Int
  PROVE  DisponibileAllaData(R, cer, giorno) >= q
           <=> \A g \in Nat : g >= giorno => SaldoAl(R, cer, g) >= q
<1> DEFINE G == GiorniLetti(R, cer, giorno)
           V == {SaldoAl(R, cer, g) : g \in G}
<1>1. G \subseteq Nat /\ \A g \in G : g >= giorno
  BY GiorniFiniti DEF GiorniLetti, DiMassa, Movimento
<1>2. \A g : SaldoAl(R, cer, g) \in Int
  BY SaldiInteri
<1>3. Min(V) \in V /\ \A v \in V : Min(V) <= v
  BY MinimoDeiGiorni
<1>4. DisponibileAllaData(R, cer, giorno) = Min(V)
  BY DEF DisponibileAllaData, GiorniLetti
<1>5. Min(V) \in Int
  BY <1>2, <1>3
<1>6. ASSUME Min(V) >= q, NEW g \in Nat, g >= giorno
      PROVE  SaldoAl(R, cer, g) >= q
  <2>1. PICK h \in G : SaldoAl(R, cer, h) = SaldoAl(R, cer, g)
    BY <1>6, UltimoGiornoLetto
  <2>2. Min(V) <= SaldoAl(R, cer, g)
    BY <1>3, <2>1
  <2> HIDE DEF V, G
  <2> QED BY <1>2, <1>5, <1>6, <2>2
<1>7. ASSUME \A g \in Nat : g >= giorno => SaldoAl(R, cer, g) >= q
      PROVE  Min(V) >= q
  <2>1. PICK h \in G : Min(V) = SaldoAl(R, cer, h)
    BY <1>3
  <2> QED BY <1>1, <1>7, <2>1
<1> HIDE DEF V, G
<1> QED BY <1>4, <1>6, <1>7

\* It is a whole number.
LEMMA DisponibileIntero ==
  ASSUME NEW R, R \subseteq Movimento, IsFiniteSet(R), NEW cer, NEW giorno \in Nat
  PROVE  DisponibileAllaData(R, cer, giorno) \in Int
<1> DEFINE G == GiorniLetti(R, cer, giorno)
           V == {SaldoAl(R, cer, g) : g \in G}
<1>1. Min(V) \in V
  BY MinimoDeiGiorni
<1>2. \A g : SaldoAl(R, cer, g) \in Int
  BY SaldiInteri
<1>3. DisponibileAllaData(R, cer, giorno) = Min(V)
  BY DEF DisponibileAllaData, GiorniLetti
<1> QED BY <1>1, <1>2, <1>3

-----------------------------------------------------------------------------
(* The stock read by a discharge, one request at a time. *)

LettaDa(r) ==
  Controllato(comando[r]) =>
    /\ pc[r] \in OltreGiacenza => Possiede(r, ChiaveGiacenza(comando[r].cer))
    /\ pc[r] \in OltreGiacenza \ {"GIACENZA"} =>
         Copre(registro, comando[r], avviso[r])

\* A row that takes nothing of a waste leaves covered what was covered.
LEMMA CopreAncora ==
  ASSUME NEW R, R \subseteq Movimento, IsFiniteSet(R),
         NEW m \in Movimento, m \notin R, NEW c \in Comando,
         NEW a, Copre(R, c, a), Apporto(m, c.cer) >= 0
  PROVE  Copre(R \cup {m}, c, a)
<1> DEFINE Q == R \cup {m}
<1>1. Q \subseteq Movimento /\ IsFiniteSet(Q)
  BY FS_AddElement
<1>2. Kg(c) \in Int /\ c.giorno \in Nat
  BY KgPositivi DEF Comando
<1>3. Apporto(m, c.cer) \in Int
  BY KgPositivi DEF Apporto, Movimento
<1>4. CarichiNonDiMassa(R, c.cer) => CarichiNonDiMassa(Q, c.cer)
  BY DEF CarichiNonDiMassa
<1>5. SaldoComplessivo(R, c.cer) >= Kg(c) => SaldoComplessivo(Q, c.cer) >= Kg(c)
  <2>1. SaldoComplessivo(Q, c.cer) = SaldoComplessivo(R, c.cer) + Apporto(m, c.cer)
    BY SaldiConRiga
  <2>2. SaldoComplessivo(R, c.cer) \in Int
    BY SaldiInteri
  <2> HIDE DEF Q
  <2> QED BY <1>2, <1>3, <2>1, <2>2
<1>6. ASSUME DisponibileAllaData(R, c.cer, c.giorno) >= Kg(c)
      PROVE  DisponibileAllaData(Q, c.cer, c.giorno) >= Kg(c)
  <2>1. ASSUME NEW g \in Nat, g >= c.giorno
        PROVE  SaldoAl(Q, c.cer, g) >= Kg(c)
    <3>1. SaldoAl(R, c.cer, g) >= Kg(c)
      BY <1>2, <1>6, <2>1, DisponibileMinimo
    <3>2. SaldoAl(R, c.cer, g) \in Int
      BY SaldiInteri
    <3>3. SaldoAl(Q, c.cer, g)
            = SaldoAl(R, c.cer, g) + IF m.giorno <= g THEN Apporto(m, c.cer) ELSE 0
      BY SaldiConRiga
    <3> HIDE DEF Q
    <3> QED BY <1>2, <1>3, <3>1, <3>2, <3>3
  <2> HIDE DEF Q
  <2> QED BY <1>1, <1>2, <2>1, DisponibileMinimo
<1> HIDE DEF Q
<1>7. Copre(Q, c, a)
  BY <1>4, <1>5, <1>6 DEF Copre
<1> QED BY <1>7 DEF Q

\* Two checked discharges of the same waste past the lock are the same one.
LEMMA UnSoloScarico ==
  ASSUME GiacenzaLetta, NEW r \in Richieste, NEW u \in Richieste,
         Controllato(comando[r]), Controllato(comando[u]),
         pc[r] \in OltreGiacenza, pc[u] \in OltreGiacenza,
         comando[r].cer = comando[u].cer
  PROVE  r = u
BY DEF GiacenzaLetta, Possiede

\* The request keeps its place, its command, its warning and its locks.
RichiestaFerma(u) ==
  /\ pc'[u] = pc[u] /\ comando'[u] = comando[u] /\ avviso'[u] = avviso[u]
  /\ \A l \in Lucchetti : blocco[l] = u => blocco'[l] = u

\* Before the lock there is nothing to keep.
LEMMA LettaPrima ==
  ASSUME NEW u \in Richieste, pc'[u] \notin OltreGiacenza
  PROVE  LettaDa(u)'
BY DEF LettaDa

\* The lock of the stock is one of the locks.
LEMMA LucchettoGiacenza ==
  ASSUME TypeOK, NEW u \in Richieste
  PROVE  /\ ChiaveGiacenza(comando[u].cer) \in Chiavi
         /\ Hash[ChiaveGiacenza(comando[u].cer)] \in Lucchetti
BY ChiaviDelle

\* A request that does not move sees the stock it had read.
LEMMA LettaSeFerma ==
  ASSUME TypeOK, NEW u \in Richieste, LettaDa(u),
         pc'[u] \in OltreGiacenza => pc[u] \in OltreGiacenza,
         pc'[u] \in OltreGiacenza \ {"GIACENZA"} =>
           pc[u] \in OltreGiacenza \ {"GIACENZA"},
         comando'[u] = comando[u], avviso'[u] = avviso[u],
         \A l \in Lucchetti : blocco[l] = u => blocco'[l] = u,
         registro' = registro
  PROVE  LettaDa(u)'
<1>1. Controllato(comando[u])' = Controllato(comando[u])
  BY DEF Controllato
<1>2. SUFFICES ASSUME Controllato(comando[u])
               PROVE  /\ pc'[u] \in OltreGiacenza =>
                           blocco'[Hash[ChiaveGiacenza(comando[u].cer)]] = u
                      /\ pc'[u] \in OltreGiacenza \ {"GIACENZA"} =>
                           Copre(registro, comando[u], avviso[u])
  BY <1>1 DEF LettaDa, Possiede, ChiaveGiacenza
<1>3. pc[u] \in OltreGiacenza => blocco[Hash[ChiaveGiacenza(comando[u].cer)]] = u
  BY <1>2 DEF LettaDa, Possiede
<1> QED BY <1>2, <1>3, LucchettoGiacenza DEF LettaDa

\* The shapes of a step, as the other requests see them.
LEMMA AltreFerme ==
  ASSUME TypeOK, NEW t \in Transazioni,
         \/ \E e : Finisce(t, e) /\ comando' = comando
         \/ \E passo : Vai(t, passo) /\ blocco' = blocco /\ avviso' = avviso
                         /\ \A u \in Richieste \ {t} : comando'[u] = comando[u]
         \/ \E passo, chiave : Blocca(t, chiave, passo)
  PROVE  \A u \in Richieste \ {t} : RichiestaFerma(u)
<1> SUFFICES ASSUME NEW u \in Richieste \ {t} PROVE RichiestaFerma(u)
  OBVIOUS
<1>0. u \in Transazioni
  BY DEF Transazioni
<1>1. ASSUME NEW e, Finisce(t, e), comando' = comando PROVE RichiestaFerma(u)
  <2>1. pc'[u] = pc[u] /\ avviso'[u] = avviso[u]
    BY <1>0, <1>1 DEF Finisce, Vai, TypeOK
  <2>2. \A l \in Lucchetti : blocco[l] = u => blocco'[l] = u
    BY <1>1 DEF Finisce, TypeOK
  <2> QED BY <1>1, <2>1, <2>2 DEF RichiestaFerma
<1>2. ASSUME NEW passo, Vai(t, passo), blocco' = blocco, avviso' = avviso,
             comando'[u] = comando[u]
      PROVE  RichiestaFerma(u)
  BY <1>0, <1>2 DEF Vai, TypeOK, RichiestaFerma
<1>3. ASSUME NEW passo, NEW chiave, Blocca(t, chiave, passo) PROVE RichiestaFerma(u)
  <2>1. pc'[u] = pc[u] /\ avviso' = avviso /\ comando' = comando
    <3>1. avviso' = avviso /\ comando' = comando
      BY <1>3 DEF Blocca, locali
    <3>2. pc'[u] = pc[u]
      BY <1>0, <1>3 DEF Blocca, Vai, TypeOK
    <3> QED BY <3>1, <3>2
  <2>2. \A l \in Lucchetti : blocco[l] = u => blocco'[l] = u
    BY <1>0, <1>3, RegistroAssumption DEF Blocca, TypeOK
  <2> QED BY <2>1, <2>2 DEF RichiestaFerma
<1> QED BY <1>1, <1>2, <1>3

\* A step that writes no row, taken by a request that keeps or forgets what it
\* had read, or by an administrator.
LEMMA GiacenzaSenzaRiga ==
  ASSUME RegistroInv, NEW t \in Transazioni, registro' = registro,
         \A u \in Richieste \ {t} : RichiestaFerma(u),
         t \in Richieste => LettaDa(t)'
  PROVE  IsFiniteSet(registro)' /\ GiacenzaLetta'
<1>1. TypeOK /\ \A u \in Richieste : LettaDa(u)
  BY DEF RegistroInv, NumerazioneInv, GiacenzaLetta, LettaDa
<1>2. ASSUME NEW u \in Richieste PROVE LettaDa(u)'
  <2>1. CASE u = t
    BY <2>1
  <2>2. CASE u # t
    BY <1>1, <2>2, LettaSeFerma DEF RichiestaFerma
  <2> QED BY <2>1, <2>2
<1>3. GiacenzaLetta'
  BY <1>2 DEF GiacenzaLetta, LettaDa
<1>4. IsFiniteSet(registro)'
  BY DEF RegistroInv
<1> QED BY <1>3, <1>4

\* A request that is not past the lock of the stock after the step.
LEMMA GiacenzaNonLetta ==
  ASSUME RegistroInv, NEW r \in Richieste, registro' = registro,
         \A u \in Richieste \ {r} : RichiestaFerma(u),
         pc'[r] \notin OltreGiacenza
  PROVE  IsFiniteSet(registro)' /\ GiacenzaLetta'
BY LettaPrima, GiacenzaSenzaRiga DEF Transazioni

\* An execution that ends without a new row.
LEMMA GiacenzaFine ==
  ASSUME RegistroInv, NEW t \in Transazioni, NEW e, Finisce(t, e),
         comando' = comando, registro' = registro
  PROVE  IsFiniteSet(registro)' /\ GiacenzaLetta'
<1>1. TypeOK
  BY DEF RegistroInv, NumerazioneInv
<1>2. \A u \in Richieste \ {t} : RichiestaFerma(u)
  BY <1>1, AltreFerme
<1>3. pc'[t] = "FINITA"
  BY <1>1 DEF Finisce, Vai, TypeOK
<1>4. t \in Richieste => LettaDa(t)'
  BY <1>3, LettaPrima DEF OltreGiacenza
<1> QED BY <1>2, <1>4, GiacenzaSenzaRiga

\* The stock is compared under its lock.
LEMMA GiacenzaVerificata ==
  ASSUME RegistroInv, NEW r \in Richieste, VerificaGiacenza(r)
  PROVE  IsFiniteSet(registro)' /\ GiacenzaLetta'
<1>0. /\ TypeOK /\ r \in Transazioni /\ LettaDa(r)
      /\ registro \subseteq Movimento /\ IsFiniteSet(registro)
      /\ comando[r] \in Comando
  BY RegistroAssumption
     DEF RegistroInv, NumerazioneInv, TypeOK, Transazioni, GiacenzaLetta, LettaDa
<1> DEFINE c == comando[r]
           coperto == SaldoComplessivo(registro, c.cer) >= Kg(c)
<1>1. /\ pc[r] = "GIACENZA" /\ registro' = registro /\ comando' = comando
  BY DEF VerificaGiacenza, tabelle
<1>2. CASE Finisce(r, "GIACENZA")
  BY <1>0, <1>1, <1>2, GiacenzaFine
<1>3. CASE /\ coperto \/ CarichiNonDiMassa(registro, c.cer)
           /\ avviso' = [avviso EXCEPT ![r] = Avviso(c, coperto)]
           /\ Vai(r, "MASSIMO")
           /\ blocco' = blocco
  <2>1. /\ pc'[r] = "MASSIMO" /\ \A u \in Transazioni \ {r} : pc'[u] = pc[u]
        /\ avviso'[r] = Avviso(c, coperto)
        /\ \A u \in Transazioni \ {r} : avviso'[u] = avviso[u]
    BY <1>0, <1>3 DEF Vai, TypeOK
  <2>2. \A u \in Richieste \ {r} : RichiestaFerma(u)
    BY <1>1, <1>3, <2>1 DEF RichiestaFerma, Transazioni
  <2>3. Copre(registro, c, Avviso(c, coperto))
    <3>1. Kg(c) \in Int /\ c.giorno \in Nat
      BY <1>0, KgPositivi DEF Comando
    <3>2. DisponibileAllaData(registro, c.cer, c.giorno) \in Int
      BY <1>0, <3>1, DisponibileIntero
    <3> HIDE DEF c
    <3>3. CASE coperto
      BY <3>1, <3>2, <3>3 DEF Copre, Avviso
    <3>4. CASE ~coperto
      BY <1>3, <3>4 DEF Copre, Avviso
    <3> QED BY <3>3, <3>4
  <2>4. LettaDa(r)'
    <3>1. Copre(registro', comando'[r], avviso'[r])
      BY <1>1, <2>1, <2>3
    <3>2. Controllato(comando[r]) =>
            blocco'[Hash[ChiaveGiacenza(comando'[r].cer)]] = r
      BY <1>0, <1>1, <1>3 DEF LettaDa, Possiede, OltreGiacenza
    <3> QED BY <1>1, <3>1, <3>2 DEF LettaDa, Possiede, Controllato, ChiaveGiacenza
  <2> QED BY <1>0, <1>1, <2>2, <2>4, GiacenzaSenzaRiga
<1> QED BY <1>2, <1>3 DEF VerificaGiacenza

\* The steps of a request that write no row.
LEMMA GiacenzaBlocchi ==
  ASSUME RegistroInv, NEW r \in Richieste, Blocchi(r)
  PROVE  IsFiniteSet(registro)' /\ GiacenzaLetta'
<1>0. TypeOK /\ r \in Transazioni /\ LettaDa(r)
  BY DEF RegistroInv, NumerazioneInv, Transazioni, GiacenzaLetta, LettaDa
<1>1. ASSUME NEW passo, NEW chiave, Blocca(r, chiave, passo)
      PROVE  /\ registro' = registro /\ comando' = comando /\ pc'[r] = passo
             /\ \A u \in Richieste \ {r} : RichiestaFerma(u)
  <2>1. registro' = registro /\ comando' = comando
    BY <1>1 DEF Blocca, tabelle
  <2>2. pc'[r] = passo
    BY <1>0, <1>1 DEF Blocca, Vai, TypeOK
  <2> QED BY <1>0, <1>1, <2>1, <2>2, AltreFerme
<1>2. CASE BloccaFir(r)
  <2>1. Blocca(r, ChiaveFir(comando[r].fir), "RICOPIE")
    BY <1>2 DEF BloccaFir
  <2> QED BY <1>1, <2>1, GiacenzaNonLetta DEF OltreGiacenza
<1>3. CASE BloccaAnno(r)
  <2> DEFINE passo == IF Controllato(comando[r]) THEN "BLOCCO_GIACENZA" ELSE "MASSIMO"
  <2>1. Blocca(r, ChiaveAnno(annoDi[r]), passo)
    BY <1>3 DEF BloccaAnno
  <2>2. pc'[r] = passo /\ comando' = comando
    BY <1>1, <2>1
  <2>3. LettaDa(r)'
    BY <2>2 DEF LettaDa, Controllato, OltreGiacenza
  <2> HIDE DEF passo
  <2> QED BY <1>0, <1>1, <2>1, <2>3, GiacenzaSenzaRiga
<1>4. CASE BloccaGiacenza(r)
  <2> DEFINE k == ChiaveGiacenza(comando[r].cer)
  <2>1. Blocca(r, k, "GIACENZA")
    BY <1>4 DEF BloccaGiacenza
  <2>2. pc'[r] = "GIACENZA" /\ comando' = comando
    BY <1>1, <2>1
  <2>3. blocco'[Hash[k]] = r
    BY <1>0, <2>1, LucchettoGiacenza DEF Blocca, TypeOK
  <2>4. LettaDa(r)'
    BY <2>2, <2>3 DEF LettaDa, Possiede, ChiaveGiacenza
  <2> HIDE DEF k
  <2> QED BY <1>0, <1>1, <2>1, <2>4, GiacenzaSenzaRiga
<1> QED BY <1>2, <1>3, <1>4 DEF Blocchi

\* A request that starts has read no stock.
LEMMA GiacenzaParte ==
  ASSUME RegistroInv, NEW r \in Richieste, NEW c, Parte(r, c)
  PROVE  IsFiniteSet(registro)' /\ GiacenzaLetta'
<1>0. TypeOK /\ r \in Transazioni
  BY DEF RegistroInv, NumerazioneInv, Transazioni
<1> DEFINE passo == IF c.fir = NessunFir THEN "BLOCCO_ANNO" ELSE "FIR"
<1>1. /\ registro' = registro /\ blocco' = blocco /\ avviso' = avviso
      /\ Vai(r, passo)
      /\ \A u \in Richieste \ {r} : comando'[u] = comando[u]
  BY <1>0 DEF Parte, tabelle, TypeOK
<1>2. passo \notin OltreGiacenza
  BY DEF OltreGiacenza
<1> HIDE DEF passo
<1>3. pc'[r] = passo
  BY <1>0, <1>1 DEF Vai, TypeOK
<1>4. \A u \in Richieste \ {r} : RichiestaFerma(u)
  BY <1>0, <1>1, AltreFerme
<1> QED BY <1>1, <1>2, <1>3, <1>4, GiacenzaNonLetta

\* The statements that read the FIR, its copies and the numbers write no row.
LEMMA GiacenzaLetture ==
  ASSUME RegistroInv, NEW r \in Richieste,
         LeggeFir(r) \/ LeggeRicopie(r) \/ LeggeMassimo(r) \/ LeggeIniziale(r)
  PROVE  IsFiniteSet(registro)' /\ GiacenzaLetta'
<1>0. TypeOK /\ r \in Transazioni /\ LettaDa(r)
  BY DEF RegistroInv, NumerazioneInv, Transazioni, GiacenzaLetta, LettaDa
<1>1. registro' = registro /\ comando' = comando
  BY DEF LeggeFir, LeggeRicopie, LeggeMassimo, LeggeIniziale, Numera, tabelle
<1>2. CASE \E e : Finisce(r, e)
  BY <1>0, <1>1, <1>2, GiacenzaFine
<1>3. ASSUME NEW passo, Vai(r, passo), blocco' = blocco, avviso' = avviso,
             \/ passo \in {"BLOCCO_FIR", "BLOCCO_ANNO"}
             \/ passo \in {"INIZIALE", "INSERT"} /\ pc[r] \in {"MASSIMO", "INIZIALE"}
      PROVE  IsFiniteSet(registro)' /\ GiacenzaLetta'
  <2>1. pc'[r] = passo
    BY <1>0, <1>3 DEF Vai, TypeOK
  <2>2. \A u \in Richieste \ {r} : RichiestaFerma(u)
    BY <1>0, <1>1, <1>3, AltreFerme
  <2>3. LettaDa(r)'
    BY <1>0, <1>1, <1>3, <2>1, LettaSeFerma DEF OltreGiacenza
  <2> QED BY <1>0, <1>1, <2>2, <2>3, GiacenzaSenzaRiga
<1>4. CASE LeggeFir(r)
  BY <1>2, <1>3, <1>4 DEF LeggeFir, Prosegue, locali
<1>5. CASE LeggeRicopie(r)
  BY <1>2, <1>3, <1>5 DEF LeggeRicopie, Prosegue, locali
<1>6. CASE LeggeMassimo(r) \/ LeggeIniziale(r)
  <2>1. PICK passo \in {"INIZIALE", "INSERT"} : \E n : Numera(r, n, passo)
    BY <1>6 DEF LeggeMassimo, LeggeIniziale
  <2>2. Vai(r, passo) /\ blocco' = blocco /\ avviso' = avviso
    BY <2>1 DEF Numera
  <2>3. pc[r] \in {"MASSIMO", "INIZIALE"}
    BY <1>6 DEF LeggeMassimo, LeggeIniziale
  <2> QED BY <1>3, <2>2, <2>3
<1> QED BY <1>4, <1>5, <1>6

\* The row a request inserts is new, and takes of the stock only what the
\* request was found covered for.
LEMMA GiacenzaInserisce ==
  ASSUME RegistroInv, NEW r \in Richieste, Inserisce(r)
  PROVE  IsFiniteSet(registro)' /\ GiacenzaLetta'
<1>0. /\ NumerazioneInv /\ TypeOK /\ r \in Transazioni /\ GiacenzaLetta
      /\ registro \subseteq Movimento /\ IsFiniteSet(registro)
  BY DEF RegistroInv, NumerazioneInv, TypeOK, Transazioni
<1>1. pc[r] = "INSERT" /\ comando' = comando
  BY DEF Inserisce
<1>2. /\ Riga(r) \in Movimento /\ Riga(r) \notin registro
      /\ ~NumeroDoppio(Riga(r)) /\ ~RicopiaDoppia(Riga(r))
  BY <1>0, <1>1, RigaNuova DEF NumeroDoppio
<1>3. registro' = registro \cup {Riga(r)} /\ \E e : Finisce(r, e)
  BY <1>2 DEF Inserisce
<1>4. IsFiniteSet(registro')
  BY <1>0, <1>3, FS_AddElement
<1>5. \A u \in Richieste \ {r} : RichiestaFerma(u)
  BY <1>0, <1>1, <1>3, AltreFerme
<1>6. pc'[r] = "FINITA"
  BY <1>0, <1>3 DEF Finisce, Vai, TypeOK
<1>7. ASSUME NEW u \in Richieste \ {r} PROVE LettaDa(u)'
  <2>1. /\ pc'[u] = pc[u] /\ comando'[u] = comando[u] /\ avviso'[u] = avviso[u]
        /\ \A l \in Lucchetti : blocco[l] = u => blocco'[l] = u
        /\ LettaDa(u)
    BY <1>0, <1>5 DEF RichiestaFerma, GiacenzaLetta, LettaDa
  <2>2. SUFFICES ASSUME Controllato(comando[u])
                 PROVE  /\ pc[u] \in OltreGiacenza =>
                             blocco'[Hash[ChiaveGiacenza(comando[u].cer)]] = u
                        /\ pc[u] \in OltreGiacenza \ {"GIACENZA"} =>
                             Copre(registro', comando[u], avviso[u])
    BY <2>1 DEF LettaDa, Possiede, ChiaveGiacenza, Controllato
  <2>3. pc[u] \in OltreGiacenza => blocco'[Hash[ChiaveGiacenza(comando[u].cer)]] = u
    BY <1>0, <2>1, <2>2, LucchettoGiacenza DEF LettaDa, Possiede
  <2>4. ASSUME pc[u] \in OltreGiacenza \ {"GIACENZA"}
        PROVE  Copre(registro', comando[u], avviso[u])
    <3>1. Copre(registro, comando[u], avviso[u])
      BY <2>1, <2>2, <2>4 DEF LettaDa
    <3>2. Apporto(Riga(r), comando[u].cer) >= 0
      <4>1. /\ Riga(r).cer = comando[r].cer /\ Riga(r).tipo = comando[r].tipo
            /\ Riga(r).unita = comando[r].unita
        BY DEF Riga
      <4>2. ~(Controllato(comando[r]) /\ comando[r].cer = comando[u].cer)
        BY <1>0, <1>1, <2>2, <2>4, UnSoloScarico DEF OltreGiacenza
      <4>3. Riga(r).tipo \in Tipi
        BY <1>2 DEF Movimento
      <4>4. Riga(r).tipo = "CARICO" => Delta(Riga(r)) \in Nat
        BY <1>2, KgPositivi DEF Movimento
      <4> QED BY <4>1, <4>2, <4>3, <4>4 DEF Apporto, Controllato, Tipi
    <3>3. comando[u] \in Comando
      BY <1>0, ChiaviDelle
    <3> QED BY <1>0, <1>2, <1>3, <3>1, <3>2, <3>3, CopreAncora
  <2> QED BY <2>2, <2>3, <2>4
<1>8. LettaDa(r)'
  BY <1>6, LettaPrima DEF OltreGiacenza
<1>9. GiacenzaLetta'
  BY <1>7, <1>8 DEF GiacenzaLetta, LettaDa
<1> QED BY <1>4, <1>9

\* Every step keeps the stock that was read.
LEMMA GiacenzaPreservata ==
  RegistroInv /\ [Next]_vars => IsFiniteSet(registro)' /\ GiacenzaLetta'
<1> SUFFICES ASSUME RegistroInv, [Next]_vars
             PROVE  IsFiniteSet(registro)' /\ GiacenzaLetta'
  OBVIOUS
<1>0. TypeOK
  BY DEF RegistroInv, NumerazioneInv
<1>1. CASE UNCHANGED <<registro, blocco, pc, comando, avviso>>
  BY <1>1 DEF RegistroInv, GiacenzaLetta, Possiede
<1>2. CASE UNCHANGED vars
  BY <1>1, <1>2 DEF vars
<1>3. ASSUME NEW r \in Richieste, Invia(r) \/ Riprova(r) \/ Blocchi(r) \/ Passi(r)
      PROVE  IsFiniteSet(registro)' /\ GiacenzaLetta'
  <2>1. CASE Invia(r) \/ Riprova(r)
    BY <2>1, GiacenzaParte DEF Invia, Riprova
  <2>2. CASE Blocchi(r)
    BY <2>2, GiacenzaBlocchi
  <2>3. CASE Passi(r)
    BY <2>3, GiacenzaLetture, GiacenzaVerificata, GiacenzaInserisce DEF Passi
  <2> QED BY <1>3, <2>1, <2>2, <2>3
<1>4. ASSUME NEW i \in Impostazioni,
             ChiedeIniziale(i) \/ BloccaAnnoIniziale(i) \/ PassiDiIniziale(i)
      PROVE  IsFiniteSet(registro)' /\ GiacenzaLetta'
  <2>0. i \in Transazioni /\ i \notin Richieste
    BY RegistroAssumption DEF Transazioni
  <2>1. registro' = registro /\ comando' = comando
    BY <1>4 DEF ChiedeIniziale, BloccaAnnoIniziale, Blocca, PassiDiIniziale,
                LeggeEsistente, LeggePrimo, CreaIniziale, tabelle
  <2>2. \/ \E e : Finisce(i, e)
        \/ \E passo : Vai(i, passo) /\ blocco' = blocco /\ avviso' = avviso
        \/ \E passo, chiave : Blocca(i, chiave, passo)
    BY <1>4 DEF ChiedeIniziale, BloccaAnnoIniziale, PassiDiIniziale, LeggeEsistente,
                LeggePrimo, CreaIniziale, Prosegue, locali
  <2>3. \A u \in Richieste \ {i} : RichiestaFerma(u)
    BY <1>0, <2>0, <2>1, <2>2, AltreFerme
  <2> QED BY <2>0, <2>1, <2>3, GiacenzaSenzaRiga
<1>5. ASSUME NEW t \in Transazioni, Fallisce(t)
      PROVE  IsFiniteSet(registro)' /\ GiacenzaLetta'
  BY <1>5, GiacenzaFine DEF Fallisce, tabelle
<1>6. CASE (\E f \in Fir : Emette(f) \/ Annulla(f)) \/ CambiaAnno
  BY <1>1, <1>6 DEF Emette, Annulla, CambiaFir, CambiaAnno, tabelle, locali
<1> QED BY <1>2, <1>3, <1>4, <1>5, <1>6 DEF Next

\* At the start no stock has been read.
LEMMA GiacenzaAllInizio == Init => IsFiniteSet(registro) /\ GiacenzaLetta
<1> SUFFICES ASSUME Init PROVE IsFiniteSet(registro) /\ GiacenzaLetta
  OBVIOUS
<1>1. IsFiniteSet(registro)
  BY StoriciAssumption DEF Init
<1>2. \A r \in Richieste : pc[r] \notin OltreGiacenza
  BY DEF Init, Transazioni, OltreGiacenza
<1> QED BY <1>1, <1>2 DEF GiacenzaLetta

-----------------------------------------------------------------------------
(* The theorems. *)

\* The stock a checked discharge was compared with four statements before is
\* still there when its row is written, whatever the other requests do.
THEOREM RegistroInvariante == Spec => []RegistroInv
<1>1. Init => RegistroInv
  BY InvarianteAllInizio, GiacenzaAllInizio DEF RegistroInv
<1>2. RegistroInv /\ [Next]_vars => RegistroInv'
  <2> SUFFICES ASSUME RegistroInv, [Next]_vars PROVE RegistroInv'
    OBVIOUS
  <2>1. NumerazioneInv'
    BY InvariantePreservato DEF RegistroInv
  <2>2. IsFiniteSet(registro)' /\ GiacenzaLetta'
    BY GiacenzaPreservata
  <2> QED BY <2>1, <2>2 DEF RegistroInv
<1> QED BY <1>1, <1>2, PTL DEF Spec

\* The row of a checked discharge leaves no balance it answers for below zero.
LEMMA ScaricoCoperto ==
  ASSUME RegistroInv, NEW r \in Richieste, pc[r] = "INSERT",
         Controllato(comando[r]), registro' = registro \cup {Riga(r)}
  PROVE  LET cer == comando[r].cer
         IN  /\ avviso[r] # "UNITA_NON_DI_MASSA" =>
                  SaldoComplessivo(registro', cer) >= 0
             /\ avviso[r] = "UNITA_NON_DI_MASSA" => CarichiNonDiMassa(registro, cer)
             /\ avviso[r] = "NESSUNO" =>
                  \A g \in Nat : g >= comando[r].giorno =>
                    SaldoAl(registro', cer, g) >= 0
<1> DEFINE c == comando[r]
           m == Riga(r)
<1>0. /\ NumerazioneInv /\ TypeOK /\ registro \subseteq Movimento /\ IsFiniteSet(registro)
      /\ Copre(registro, c, avviso[r])
  BY DEF RegistroInv, NumerazioneInv, TypeOK, GiacenzaLetta, OltreGiacenza
<1>1. m \in Movimento /\ m \notin registro
  BY <1>0, RigaNuova DEF NumeroDoppio
<1>2. c \in Comando
  BY <1>0, ChiaviDelle
<1>3. Kg(c) \in Int /\ c.giorno \in Nat
  BY <1>2, KgPositivi DEF Comando
<1>4. Apporto(m, c.cer) = -Kg(c)
  <2>1. m.cer = c.cer /\ m.tipo = "SCARICO" /\ m.unita \in UnitaDiMassa /\ Kg(m) = Kg(c)
    BY DEF Riga, Controllato, Kg
  <2> QED BY <2>1 DEF Apporto, Delta
<1>5. /\ SaldoComplessivo(registro', c.cer) = SaldoComplessivo(registro, c.cer) - Kg(c)
      /\ SaldoComplessivo(registro, c.cer) \in Int
  <2>1. SaldoComplessivo(registro', c.cer)
          = SaldoComplessivo(registro, c.cer) + Apporto(m, c.cer)
    BY <1>0, <1>1, SaldiConRiga
  <2>2. SaldoComplessivo(registro, c.cer) \in Int
    BY <1>0, SaldiInteri
  <2> QED BY <1>3, <1>4, <2>1, <2>2
<1>6. ASSUME avviso[r] = "NESSUNO", NEW g \in Nat, g >= c.giorno
      PROVE  SaldoAl(registro', c.cer, g) >= 0
  <2>1. SaldoAl(registro, c.cer, g) >= Kg(c)
    BY <1>0, <1>3, <1>6, DisponibileMinimo DEF Copre
  <2>2. SaldoAl(registro', c.cer, g)
          = SaldoAl(registro, c.cer, g) + IF m.giorno <= g THEN Apporto(m, c.cer) ELSE 0
    BY <1>0, <1>1, SaldiConRiga
  <2>3. SaldoAl(registro, c.cer, g) \in Int
    BY <1>0, SaldiInteri
  <2>4. Kg(c) >= 0
    BY <1>2, KgPositivi DEF Comando
  <2> HIDE DEF m
  <2> QED BY <1>3, <1>4, <2>1, <2>2, <2>3, <2>4
<1>7. avviso[r] # "UNITA_NON_DI_MASSA" => SaldoComplessivo(registro', c.cer) >= 0
  BY <1>0, <1>3, <1>5 DEF Copre
<1> QED BY <1>0, <1>6, <1>7 DEF Copre

\* Only an insert changes the register, and adds its row.
LEMMA ScrittaDaInserisce ==
  ASSUME NumerazioneInv, [Next]_vars, registro' # registro
  PROVE  \E q \in Richieste : /\ pc[q] = "INSERT"
                               /\ registro' = registro \cup {Riga(q)}
                               /\ iniziale' = iniziale
<1>1. \A r \in Richieste : ~(Invia(r) \/ Riprova(r) \/ Blocchi(r))
  BY DEF Invia, Riprova, Parte, Blocchi, BloccaFir, BloccaAnno, BloccaGiacenza, Blocca,
         tabelle
<1>2. \A r \in Richieste : ~(LeggeFir(r) \/ LeggeRicopie(r) \/ VerificaGiacenza(r)
                              \/ LeggeMassimo(r) \/ LeggeIniziale(r))
  BY DEF LeggeFir, LeggeRicopie, VerificaGiacenza, LeggeMassimo, LeggeIniziale, Numera,
         tabelle
<1>3. \A i \in Impostazioni :
        ~(ChiedeIniziale(i) \/ BloccaAnnoIniziale(i) \/ PassiDiIniziale(i))
  BY DEF ChiedeIniziale, BloccaAnnoIniziale, Blocca, PassiDiIniziale, LeggeEsistente,
         LeggePrimo, CreaIniziale, tabelle
<1>4. /\ \A t \in Transazioni : ~Fallisce(t)
      /\ ~((\E f \in Fir : Emette(f) \/ Annulla(f)) \/ CambiaAnno)
      /\ ~UNCHANGED vars
  BY DEF Fallisce, Emette, Annulla, CambiaFir, CambiaAnno, tabelle, vars
<1>5. PICK q \in Richieste : Inserisce(q)
  BY <1>1, <1>2, <1>3, <1>4 DEF Next, Passi
<1> QED BY <1>5 DEF Inserisce

\* Only the administrator's insert changes the first numbers, and sets one.
LEMMA InizialeDaCrea ==
  ASSUME NumerazioneInv, [Next]_vars, iniziale' # iniziale
  PROVE  \E i \in Impostazioni :
           /\ pc[i] = "CREA"
           /\ iniziale' = [iniziale EXCEPT ![annoDi[i]] = numero[i]]
           /\ registro' = registro
<1>1. \A r \in Richieste : ~(Invia(r) \/ Riprova(r) \/ Blocchi(r))
  BY DEF Invia, Riprova, Parte, Blocchi, BloccaFir, BloccaAnno, BloccaGiacenza, Blocca,
         tabelle
<1>2. \A r \in Richieste : ~Passi(r)
  BY DEF Passi, LeggeFir, LeggeRicopie, VerificaGiacenza, LeggeMassimo, LeggeIniziale,
         Numera, Inserisce, tabelle
<1>3. \A i \in Impostazioni :
        ~(ChiedeIniziale(i) \/ BloccaAnnoIniziale(i) \/ LeggeEsistente(i) \/ LeggePrimo(i))
  BY DEF ChiedeIniziale, BloccaAnnoIniziale, Blocca, LeggeEsistente, LeggePrimo, tabelle
<1>4. /\ \A t \in Transazioni : ~Fallisce(t)
      /\ ~((\E f \in Fir : Emette(f) \/ Annulla(f)) \/ CambiaAnno)
      /\ ~UNCHANGED vars
  BY DEF Fallisce, Emette, Annulla, CambiaFir, CambiaAnno, tabelle, vars
<1>5. PICK i \in Impostazioni : CreaIniziale(i)
  BY <1>1, <1>2, <1>3, <1>4 DEF Next, PassiDiIniziale
<1> QED BY <1>5 DEF CreaIniziale

\* No discharge measured by mass is written over a stock that other requests
\* used up after it was read.
THEOREM GiacenzaSempreRispettata == Spec => GiacenzaRispettata
<1>1. RegistroInv /\ [Next]_vars =>
        [\A r \in Richieste :
           /\ pc[r] = "INSERT"
           /\ registro' # registro /\ Riga(r) \in registro'
           /\ Controllato(comando[r])
           => LET cer == comando[r].cer
              IN  /\ avviso[r] # "UNITA_NON_DI_MASSA" =>
                       SaldoComplessivo(registro', cer) >= 0
                  /\ avviso[r] = "NESSUNO" =>
                       \A m \in registro' : m.giorno >= comando[r].giorno =>
                         SaldoAl(registro', cer, m.giorno) >= 0
        ]_vars
  <2> SUFFICES ASSUME RegistroInv, [Next]_vars, NEW r \in Richieste,
                      pc[r] = "INSERT", registro' # registro, Riga(r) \in registro',
                      Controllato(comando[r])
               PROVE  LET cer == comando[r].cer
                      IN  /\ avviso[r] # "UNITA_NON_DI_MASSA" =>
                               SaldoComplessivo(registro', cer) >= 0
                          /\ avviso[r] = "NESSUNO" =>
                               \A m \in registro' : m.giorno >= comando[r].giorno =>
                                 SaldoAl(registro', cer, m.giorno) >= 0
    OBVIOUS
  <2>1. NumerazioneInv /\ TypeOK
    BY DEF RegistroInv, NumerazioneInv
  <2>2. PICK q \in Richieste : pc[q] = "INSERT" /\ registro' = registro \cup {Riga(q)}
    BY <2>1, ScrittaDaInserisce
  <2>3. Riga(r) \notin registro
    BY <2>1, RigaNuova DEF NumeroDoppio
  <2>4. registro' = registro \cup {Riga(r)}
    BY <2>2, <2>3
  <2>5. \A m \in registro' : m.giorno \in Nat
    BY <2>1, <2>2, RigaNuova DEF TypeOK, Movimento
  <2> QED BY <2>4, <2>5, ScaricoCoperto
<1> QED BY <1>1, RegistroInvariante, PTL DEF Spec, GiacenzaRispettata

\* What the register promises of the stock: no balance below zero, unless loads
\* that are not by mass make it undecidable.
SaldoCoperto ==
  \A cer \in Cer : CarichiNonDiMassa(registro, cer) \/ SaldoComplessivo(registro, cer) >= 0

\* So were the registers the system may start from.
StoriciCoperti ==
  \A s \in Storici, cer \in Cer :
    CarichiNonDiMassa(s, cer) \/ SaldoComplessivo(s, cer) >= 0

\* A row that is not a checked discharge of a waste takes nothing from it, and a
\* checked one no more than there is.
LEMMA SaldoRegge ==
  ASSUME RegistroInv, SaldoCoperto, [Next]_vars
  PROVE  SaldoCoperto'
<1>0. /\ NumerazioneInv /\ TypeOK /\ registro \subseteq Movimento /\ IsFiniteSet(registro)
  BY DEF RegistroInv, NumerazioneInv, TypeOK
<1>1. CASE registro' = registro
  BY <1>1 DEF SaldoCoperto
<1>2. CASE registro' # registro
  <2>1. PICK q \in Richieste : pc[q] = "INSERT" /\ registro' = registro \cup {Riga(q)}
    BY <1>0, <1>2, ScrittaDaInserisce
  <2> DEFINE m == Riga(q)
  <2>2. m \in Movimento /\ m \notin registro
    BY <1>0, <2>1, RigaNuova DEF NumeroDoppio
  <2>3. /\ m.tipo = comando[q].tipo /\ m.cer = comando[q].cer
        /\ m.unita = comando[q].unita
    BY DEF Riga
  <2>4. m.tipo \in Tipi /\ (m.tipo = "CARICO" => Delta(m) \in Nat)
    BY <2>2, KgPositivi DEF Movimento
  <2>5. registro' = registro \cup {m}
    BY <2>1
  <2> HIDE DEF m
  <2>6. SUFFICES ASSUME NEW cer \in Cer, ~CarichiNonDiMassa(registro, cer)
                 PROVE  SaldoComplessivo(registro', cer) >= 0
    <3>1. \A cer : CarichiNonDiMassa(registro, cer) => CarichiNonDiMassa(registro', cer)
      BY <2>5 DEF CarichiNonDiMassa
    <3> QED BY <3>1 DEF SaldoCoperto
  <2>7. SaldoComplessivo(registro, cer) >= 0 /\ SaldoComplessivo(registro, cer) \in Int
    BY <1>0, <2>6, SaldiInteri DEF SaldoCoperto
  <2>8. CASE Controllato(comando[q]) /\ comando[q].cer = cer
    BY <2>1, <2>6, <2>8, ScaricoCoperto
  <2>9. CASE ~(Controllato(comando[q]) /\ comando[q].cer = cer)
    <3>1. SaldoComplessivo(registro', cer)
            = SaldoComplessivo(registro, cer) + Apporto(m, cer)
      BY <1>0, <2>2, <2>5, SaldiConRiga
    <3>2. Apporto(m, cer) \in Nat
      BY <2>3, <2>4, <2>9 DEF Apporto, Controllato, Tipi
    <3> QED BY <2>7, <3>1, <3>2
  <2> QED BY <2>8, <2>9
<1> QED BY <1>1, <1>2

\* No interleaving of requests, failures and retries takes the balance of a
\* waste below zero, but for loads that are not by mass, provided it was not
\* below zero at the start.
THEOREM SaldoMaiSottoZero ==
  ASSUME StoriciCoperti
  PROVE  Spec => []SaldoCoperto
<1>1. Init => SaldoCoperto
  BY DEF Init, SaldoCoperto, StoriciCoperti
<1>2. RegistroInv /\ SaldoCoperto /\ [Next]_vars => SaldoCoperto'
  BY SaldoRegge
<1> QED BY <1>1, <1>2, RegistroInvariante, PTL DEF Spec

-----------------------------------------------------------------------------
(* The refinement: RegistroCronologico speaks of the same sums.             *)

\* Its operators, instantiated, are those of the register.
LEMMA StesseDefinizioni ==
  /\ \A S : Cronologico!Max(S) = Max(S)
  /\ \A R, cer : Cronologico!SaldoComplessivo(R, cer) = SaldoComplessivo(R, cer)
  /\ \A R, cer : Cronologico!CarichiNonDiMassa(R, cer) <=> CarichiNonDiMassa(R, cer)
  /\ \A a \in Anni : {m.numero : m \in Cronologico!DellAnno(a)} = NumeriDi(a)
  /\ \A a \in Anni : Cronologico!DellAnno(a) = {} <=> NumeriDi(a) = {}
  /\ Cronologico!UnitaDiMassa = UnitaDiMassa
<1>1. ASSUME NEW S PROVE Cronologico!Max(S) = Max(S)
  BY DEF Max, Cronologico!Max
<1>2. ASSUME NEW R, NEW cer
      PROVE  Cronologico!SaldoComplessivo(R, cer) = SaldoComplessivo(R, cer)
  BY DEF SaldoComplessivo, Cronologico!SaldoComplessivo,
         MapThenSumSet, Cronologico!MapThenSumSet,
         MapThenFoldSet, Cronologico!MapThenFoldSet, DiMassa, Cronologico!DiMassa,
         Delta, Cronologico!Delta, Kg, Cronologico!Kg, FattoreKg, Cronologico!FattoreKg,
         UnitaDiMassa, Cronologico!UnitaDiMassa
<1>3. ASSUME NEW R, NEW cer
      PROVE  Cronologico!CarichiNonDiMassa(R, cer) <=> CarichiNonDiMassa(R, cer)
  BY DEF CarichiNonDiMassa, Cronologico!CarichiNonDiMassa,
         UnitaDiMassa, Cronologico!UnitaDiMassa
<1>4. ASSUME NEW a \in Anni
      PROVE  /\ {m.numero : m \in Cronologico!DellAnno(a)} = NumeriDi(a)
             /\ Cronologico!DellAnno(a) = {} <=> NumeriDi(a) = {}
  BY DEF Cronologico!DellAnno, NumeriDi
<1> QED BY <1>1, <1>2, <1>3, <1>4 DEF UnitaDiMassa, Cronologico!UnitaDiMassa

\* The row inserted is the next one of its year.
LEMMA StessaRiga ==
  ASSUME NumerazioneInv, NEW r \in Richieste, pc[r] = "INSERT"
  PROVE  Cronologico!Riga(comando[r], annoDi[r]) = Riga(r)
<1> DEFINE a == annoDi[r]
<1>0. TypeOK /\ ProgressiviContigui
  BY DEF NumerazioneInv
<1>1. /\ a \in Anni
      /\ numero[r] = IF NumeriDi(a) = {} THEN Primo(a) ELSE Massimo(a) + 1
  BY RigaNuova
<1>2. Massimo(a) \in Nat /\ iniziale[a] \in Nat
  BY <1>0, <1>1, MassimoContiguo DEF TypeOK
<1>3. Max({1, iniziale[a]}) = Primo(a)
  <2> DEFINE i == iniziale[a]
  <2>1. i \in Nat
    BY <1>2
  <2> HIDE DEF i
  <2>2. \E x \in {1, i} : \A y \in {1, i} : x >= y
    BY <2>1
  <2>3. Max({1, i}) \in {1, i} /\ \A y \in {1, i} : Max({1, i}) >= y
    BY <2>2 DEF Max
  <2>4. Max({1, i}) = IF i = 0 THEN 1 ELSE i
    BY <2>1, <2>3
  <2> QED BY <2>4 DEF Primo, i
<1>4. Cronologico!Prossimo(a) = numero[r]
  <2>1. CASE NumeriDi(a) = {}
    BY <1>1, <1>3, <2>1, StesseDefinizioni DEF Cronologico!Prossimo
  <2>2. CASE NumeriDi(a) # {}
    <3>1. Cronologico!Prossimo(a) = 1 + Massimo(a)
      BY <1>1, <2>2, StesseDefinizioni DEF Cronologico!Prossimo, Massimo
    <3> QED BY <1>1, <1>2, <2>2, <3>1
  <2> QED BY <2>1, <2>2
<1> QED BY <1>4 DEF Cronologico!Riga, Riga

\* The insert of a request writes one row of the chronological register.
LEMMA InserisceCronologico ==
  ASSUME RegistroInv, NEW r \in Richieste, pc[r] = "INSERT",
         registro' = registro \cup {Riga(r)}, iniziale' = iniziale
  PROVE  Cronologico!Next
<1> DEFINE c == comando[r]
           a == annoDi[r]
           m == Riga(r)
<1>0. NumerazioneInv /\ TypeOK /\ LettureValide
  BY DEF RegistroInv, NumerazioneInv
<1>1. a \in Anni /\ c \in Comandi /\ m \in Movimento
  BY <1>0, RigaNuova DEF TypeOK
<1>2. Cronologico!Riga(c, a) = m
  BY <1>0, StessaRiga
<1>3. m.cer = c.cer /\ m.tipo = c.tipo /\ m.unita = c.unita
  BY DEF Riga
<1>4. Cronologico!Coperta(m)
  <2>1. CASE Controllato(c)
    <3>1. \/ SaldoComplessivo(registro \cup {m}, m.cer) >= 0
          \/ CarichiNonDiMassa(registro, m.cer)
      BY <1>3, <2>1, ScaricoCoperto
    <3> HIDE DEF m
    <3> QED BY <3>1, StesseDefinizioni DEF Cronologico!Coperta
  <2>2. CASE ~Controllato(c)
    <3>1. m.tipo \in Tipi
      BY <1>1 DEF Movimento
    <3>2. m.tipo = "CARICO" \/ m.unita \notin UnitaDiMassa
      BY <1>3, <2>2, <3>1 DEF Controllato, Tipi
    <3> HIDE DEF m
    <3> QED BY <3>2, StesseDefinizioni DEF Cronologico!Coperta
  <2> QED BY <2>1, <2>2
<1>5. c.fir # NessunFir => \A n \in registro : n.fir # c.fir \/ n.tipo # c.tipo
  <2>1. c.fir # NessunFir => Ricopie(c) = {}
    BY <1>0 DEF LettureValide, OltreFir, PassiMovimento
  <2> QED BY <2>1 DEF Ricopie
<1> HIDE DEF c, a, m
<1>6. Cronologico!Registra(c, a)
  BY <1>2, <1>4, <1>5 DEF Cronologico!Registra, m
<1> QED BY <1>1, <1>6 DEF Cronologico!Next

\* The administrator's insert chooses the first number of a year without rows.
LEMMA CreaCronologico ==
  ASSUME NumerazioneInv, NEW i \in Impostazioni, pc[i] = "CREA",
         iniziale' = [iniziale EXCEPT ![annoDi[i]] = numero[i]],
         registro' = registro
  PROVE  Cronologico!Next
<1>1. /\ annoDi[i] \in Anni
      /\ numero[i] \in Primi /\ iniziale[annoDi[i]] = 0 /\ NumeriDi(annoDi[i]) = {}
  BY DEF NumerazioneInv, TypeOK, LettureValide, PassiIniziale, Transazioni
<1>2. Cronologico!ImpostaIniziale(annoDi[i], numero[i])
  BY <1>1, StesseDefinizioni DEF Cronologico!ImpostaIniziale
<1> QED BY <1>1, <1>2 DEF Cronologico!Next

\* The interleaved transactions write what a register kept one row at a time
\* could have written: an inspector who reads the committed rows sees no trace
\* of the concurrency, of the failures and of the answers lost.
THEOREM RegistroImplementaCronologico == Spec => RegistroCronologicoRispettato
<1>1. Init => Cronologico!Init
  BY DEF Init, Cronologico!Init
<1>2. RegistroInv /\ [Next]_vars => [Cronologico!Next]_<<registro, iniziale>>
  <2> SUFFICES ASSUME RegistroInv, [Next]_vars,
                      registro' # registro \/ iniziale' # iniziale
               PROVE  Cronologico!Next
    OBVIOUS
  <2>0. NumerazioneInv
    BY DEF RegistroInv
  <2>1. CASE registro' # registro
    <3>1. PICK q \in Richieste : /\ pc[q] = "INSERT"
                                 /\ registro' = registro \cup {Riga(q)}
                                 /\ iniziale' = iniziale
      BY <2>0, <2>1, ScrittaDaInserisce
    <3> QED BY <3>1, InserisceCronologico
  <2>2. CASE iniziale' # iniziale
    <3>1. PICK i \in Impostazioni :
            /\ pc[i] = "CREA"
            /\ iniziale' = [iniziale EXCEPT ![annoDi[i]] = numero[i]]
            /\ registro' = registro
      BY <2>0, <2>2, InizialeDaCrea
    <3> QED BY <2>0, <3>1, CreaCronologico
  <2> QED BY <2>1, <2>2
<1> QED BY <1>1, <1>2, RegistroInvariante, PTL
        DEF Spec, RegistroCronologicoRispettato, Cronologico!Spec
===============================================================================
