----------------------- MODULE TrasmissioniSospeseProof -----------------------
(***************************************************************************)
(* Proofs about TrasmissioniSospese, for any set of FIRs and any size of   *)
(* the round: the types, and the order in which the transmissions left     *)
(* behind are taken up, which is the argument of its liveness property.    *)
(***************************************************************************)
EXTENDS TrasmissioniSospese, FiniteSetTheorems, TLAPS

-----------------------------------------------------------------------------
(* Lists without repetitions. *)

\* The place of an element, and the elements before it.
PostoIn(s, f) == CHOOSE i \in 1 .. Len(s) : s[i] = f

PrecedentiIn(s, f) == {s[i] : i \in 1 .. PostoIn(s, f) - 1}

\* An element has one place.
LEMMA PostoUnico ==
  ASSUME NEW S, NEW s \in Seq(S), IsInjective(s), NEW i \in 1 .. Len(s)
  PROVE  PostoIn(s, s[i]) = i
<1>1. PostoIn(s, s[i]) \in 1 .. Len(s) /\ s[PostoIn(s, s[i])] = s[i]
  BY DEF PostoIn
<1>2. \A a, b \in 1 .. Len(s) : s[a] = s[b] => a = b
  BY DEF IsInjective
<1> QED BY <1>1, <1>2

\* The elements of a list are those that have a place in it.
LEMMA PostoDi ==
  ASSUME NEW S, NEW s \in Seq(S), IsInjective(s), NEW f \in ToSet(s)
  PROVE  PostoIn(s, f) \in 1 .. Len(s) /\ s[PostoIn(s, f)] = f
<1>1. PICK i \in 1 .. Len(s) : s[i] = f
  BY DEF ToSet
<1> QED BY <1>1, PostoUnico

\* A list with a place less.
LEMMA ListaTolta ==
  ASSUME NEW S, NEW s \in Seq(S), NEW p \in 1 .. Len(s)
  PROVE  /\ RemoveAt(s, p) \in Seq(S)
         /\ Len(RemoveAt(s, p)) = Len(s) - 1
         /\ \A i \in 1 .. Len(s) - 1 :
              RemoveAt(s, p)[i] = IF i < p THEN s[i] ELSE s[i + 1]
<1> DEFINE a == SubSeq(s, 1, p - 1)
           b == SubSeq(s, p + 1, Len(s))
<1>0. Len(s) \in Nat /\ p \in Nat /\ 1 <= p /\ p <= Len(s)
  OBVIOUS
<1>1. a \in Seq(S) /\ Len(a) = p - 1 /\ \A i \in 1 .. p - 1 : a[i] = s[i]
  BY <1>0
<1>2. b \in Seq(S) /\ Len(b) = Len(s) - p /\ \A i \in 1 .. Len(s) - p : b[i] = s[p + i]
  BY <1>0
<1>3. RemoveAt(s, p) = a \o b
  BY DEF RemoveAt
<1> HIDE DEF a, b
<1>4. /\ a \o b \in Seq(S) /\ Len(a \o b) = Len(s) - 1
      /\ \A i \in 1 .. Len(s) - 1 :
           (a \o b)[i] = IF i <= p - 1 THEN a[i] ELSE b[i - (p - 1)]
  <2>0. a \in Seq(S) /\ b \in Seq(S)
    BY <1>1, <1>2
  <2>1. a \o b \in Seq(S) /\ Len(a \o b) = Len(a) + Len(b)
    BY <2>0
  <2>2. Len(a \o b) = Len(s) - 1
    BY <1>0, <1>1, <1>2, <2>1
  <2>3. ASSUME NEW i \in 1 .. Len(s) - 1
        PROVE  (a \o b)[i] = IF i <= p - 1 THEN a[i] ELSE b[i - (p - 1)]
    <3>1. i \in 1 .. Len(a) + Len(b)
      BY <1>0, <1>1, <1>2
    <3>2. (a \o b)[i] = IF i <= Len(a) THEN a[i] ELSE b[i - Len(a)]
      BY <1>1, <1>2, <3>1
    <3> QED BY <1>1, <3>2
  <2> QED BY <2>1, <2>2, <2>3
<1>5. ASSUME NEW i \in 1 .. Len(s) - 1
      PROVE  (a \o b)[i] = IF i < p THEN s[i] ELSE s[i + 1]
  <2>1. CASE i < p
    BY <1>0, <1>1, <1>4, <2>1
  <2>2. CASE ~(i < p)
    <3>1. (a \o b)[i] = b[i - (p - 1)]
      BY <1>0, <1>4, <2>2
    <3>2. i - (p - 1) \in 1 .. Len(s) - p /\ p + (i - (p - 1)) = i + 1
      BY <1>0, <2>2
    <3> QED BY <1>2, <2>2, <3>1, <3>2
  <2> QED BY <2>1, <2>2
<1> QED BY <1>3, <1>4, <1>5

\* Without an element the others keep their order: those before one of them
\* are the same but for the element removed.
LEMMA ListaSenza ==
  ASSUME NEW S, NEW s \in Seq(S), IsInjective(s), NEW f \in ToSet(s),
         NEW r, r = RemoveAt(s, PostoIn(s, f))
  PROVE  /\ r \in Seq(S) /\ IsInjective(r) /\ Len(r) = Len(s) - 1
         /\ ToSet(r) = ToSet(s) \ {f}
         /\ \A g \in ToSet(r) :
              PostoIn(r, g) = IF PostoIn(s, g) < PostoIn(s, f)
                                THEN PostoIn(s, g) ELSE PostoIn(s, g) - 1
<1> DEFINE p == PostoIn(s, f)
           n == Len(s)
<1>0. n \in Nat /\ p \in 1 .. n /\ s[p] = f /\ DOMAIN s = 1 .. n
  BY PostoDi
<1>1. /\ r \in Seq(S) /\ Len(r) = n - 1 /\ DOMAIN r = 1 .. n - 1
      /\ \A i \in 1 .. n - 1 : r[i] = IF i < p THEN s[i] ELSE s[i + 1]
  <2>1. r = RemoveAt(s, p) /\ p \in 1 .. Len(s)
    BY <1>0
  <2> HIDE DEF p
  <2>2. /\ r \in Seq(S) /\ Len(r) = Len(s) - 1
        /\ \A i \in 1 .. Len(s) - 1 : r[i] = IF i < p THEN s[i] ELSE s[i + 1]
    BY <2>1, ListaTolta
  <2> QED BY <1>0, <2>2
<1>2. \A a, b \in 1 .. n : s[a] = s[b] => a = b
  BY <1>0 DEF IsInjective
<1> HIDE DEF p, n
<1>3. ASSUME NEW i \in 1 .. n - 1, NEW j \in 1 .. n - 1, r[i] = r[j]
      PROVE  i = j
  <2>1. r[i] = s[IF i < p THEN i ELSE i + 1] /\ r[j] = s[IF j < p THEN j ELSE j + 1]
    BY <1>1
  <2>2. /\ (IF i < p THEN i ELSE i + 1) \in 1 .. n
        /\ (IF j < p THEN j ELSE j + 1) \in 1 .. n
    BY <1>0
  <2>3. (IF i < p THEN i ELSE i + 1) = (IF j < p THEN j ELSE j + 1)
    BY <1>2, <1>3, <2>1, <2>2
  <2> QED BY <1>0, <2>3
<1>4. IsInjective(r)
  BY <1>1, <1>3 DEF IsInjective
<1>5. ASSUME NEW i \in 1 .. n - 1
      PROVE  /\ r[i] \in ToSet(s) \ {f}
             /\ PostoIn(s, r[i]) = IF i < p THEN i ELSE i + 1
  <2> DEFINE k == IF i < p THEN i ELSE i + 1
  <2>1. k \in 1 .. n /\ k # p /\ r[i] = s[k]
    BY <1>0, <1>1
  <2> HIDE DEF k
  <2>2. s[k] # f
    BY <1>0, <1>2, <2>1
  <2>3. PostoIn(s, s[k]) = k
    BY <2>1, PostoUnico DEF n
  <2>4. s[k] \in ToSet(s)
    BY <1>0, <2>1 DEF ToSet
  <2> QED BY <2>1, <2>2, <2>3, <2>4 DEF k
<1>6. ASSUME NEW g \in ToSet(s), g # f
      PROVE  g \in ToSet(r)
  <2>1. PICK k \in 1 .. n : s[k] = g
    BY <1>0 DEF ToSet
  <2>2. k # p
    BY <1>0, <1>6, <2>1
  <2> DEFINE i == IF k < p THEN k ELSE k - 1
  <2>3. i \in 1 .. n - 1 /\ k = (IF i < p THEN i ELSE i + 1)
    BY <1>0, <2>2
  <2> HIDE DEF i
  <2>4. r[i] = s[k]
    BY <1>1, <2>3
  <2> QED BY <1>1, <2>1, <2>3, <2>4 DEF ToSet
<1>7. ToSet(r) = ToSet(s) \ {f}
  <2>1. \A g \in ToSet(r) : g \in ToSet(s) \ {f}
    BY <1>1, <1>5 DEF ToSet
  <2> QED BY <1>6, <2>1
<1>8. ASSUME NEW g \in ToSet(r)
      PROVE  PostoIn(r, g) = IF PostoIn(s, g) < p THEN PostoIn(s, g) ELSE PostoIn(s, g) - 1
  <2>1. PICK i \in 1 .. n - 1 : r[i] = g
    BY <1>1 DEF ToSet
  <2>2. PostoIn(r, g) = i
    BY <1>1, <1>4, <2>1, PostoUnico
  <2>3. PostoIn(s, g) = IF i < p THEN i ELSE i + 1
    BY <1>5, <2>1
  <2> QED BY <1>0, <2>2, <2>3
<1> QED BY <1>1, <1>4, <1>7, <1>8 DEF p, n

\* A list with one element more at its end.
InFondo(s, f) == Append(s, f)

\* Its elements keep their places, and the new one has the last.
LEMMA ListaAllungata ==
  ASSUME NEW S, NEW s \in Seq(S), IsInjective(s), NEW f \in S, f \notin ToSet(s),
         NEW r, r = InFondo(s, f)
  PROVE  /\ r \in Seq(S) /\ IsInjective(r) /\ Len(r) = Len(s) + 1
         /\ ToSet(r) = ToSet(s) \cup {f}
         /\ \A g \in ToSet(s) : PostoIn(r, g) = PostoIn(s, g)
         /\ PostoIn(r, f) = Len(s) + 1
<1> DEFINE n == Len(s)
<1>0. n \in Nat /\ DOMAIN s = 1 .. n
  OBVIOUS
<1>1. r \in Seq(S) /\ Len(r) = n + 1 /\ DOMAIN r = 1 .. n + 1
  BY <1>0 DEF InFondo
<1>2. r[n + 1] = f /\ \A i \in 1 .. n : r[i] = s[i]
  BY <1>0 DEF InFondo
<1>3. \A i \in 1 .. n + 1 : i \in 1 .. n \/ i = n + 1
  BY <1>0
<1>4. 1 .. n \subseteq 1 .. n + 1 /\ n + 1 \in 1 .. n + 1
  BY <1>0
<1> HIDE DEF n
<1>5. ToSet(r) = ToSet(s) \cup {f}
  BY <1>0, <1>1, <1>2, <1>3, <1>4 DEF ToSet
<1>6. \A i \in 1 .. n : s[i] # f
  BY <1>0 DEF ToSet
<1>7. \A i, j \in 1 .. n : s[i] = s[j] => i = j
  BY <1>0 DEF IsInjective
<1>8. \A i, j \in 1 .. n + 1 : r[i] = r[j] => i = j
  BY <1>2, <1>3, <1>6, <1>7
<1>9. IsInjective(r)
  BY <1>1, <1>8 DEF IsInjective
<1>10. \A i \in 1 .. n + 1 : PostoIn(r, r[i]) = i
  BY <1>1, <1>9, PostoUnico
<1>11. ASSUME NEW g \in ToSet(s)
       PROVE  PostoIn(r, g) = PostoIn(s, g)
  <2>1. PostoIn(s, g) \in 1 .. n /\ s[PostoIn(s, g)] = g
    BY PostoDi DEF n
  <2> QED BY <1>2, <1>4, <1>10, <2>1
<1>12. PostoIn(r, f) = n + 1
  BY <1>2, <1>4, <1>10
<1> QED BY <1>1, <1>5, <1>9, <1>11, <1>12 DEF n

\* The elements before one are those with a smaller place.
LEMMA PrecedentiPerPosto ==
  ASSUME NEW S, NEW s \in Seq(S), IsInjective(s), NEW g \in ToSet(s)
  PROVE  PrecedentiIn(s, g) = {h \in ToSet(s) : PostoIn(s, h) < PostoIn(s, g)}
<1> DEFINE p == PostoIn(s, g)
<1>1. Len(s) \in Nat /\ DOMAIN s = 1 .. Len(s) /\ p \in 1 .. Len(s)
  BY PostoDi
<1>2. \A i \in 1 .. Len(s) : s[i] \in ToSet(s) /\ PostoIn(s, s[i]) = i
  BY <1>1, PostoUnico DEF ToSet
<1>3. \A h \in ToSet(s) : PostoIn(s, h) \in 1 .. Len(s) /\ s[PostoIn(s, h)] = h
  BY PostoDi
<1> HIDE DEF p
<1>4. \A i \in 1 .. p - 1 : i \in 1 .. Len(s) /\ i < p
  BY <1>1
<1>5. \A i \in 1 .. Len(s) : i < p => i \in 1 .. p - 1
  BY <1>1
<1> DEFINE D == {s[i] : i \in 1 .. p - 1}
           E == {h \in ToSet(s) : PostoIn(s, h) < p}
<1>6. \A h \in D : h \in E
  BY <1>2, <1>4
<1>7. \A h \in E : h \in D
  <2> SUFFICES ASSUME NEW h \in ToSet(s), PostoIn(s, h) < p
               PROVE  h \in D
    OBVIOUS
  <2> DEFINE i == PostoIn(s, h)
  <2>1. i \in 1 .. p - 1 /\ s[i] = h
    BY <1>3, <1>5
  <2> HIDE DEF i
  <2> QED BY <2>1
<1>8. D = E
  BY <1>6, <1>7
<1> QED BY <1>8 DEF PrecedentiIn, p

\* The first v elements are those whose place is at most v.
LEMMA PrimiPerPosto ==
  ASSUME NEW S, NEW s \in Seq(S), IsInjective(s), NEW v \in 0 .. Len(s)
  PROVE  {s[i] : i \in 1 .. v} = {h \in ToSet(s) : PostoIn(s, h) <= v}
<1>1. Len(s) \in Nat /\ DOMAIN s = 1 .. Len(s) /\ v \in Nat
  OBVIOUS
<1>2. \A i \in 1 .. Len(s) : s[i] \in ToSet(s) /\ PostoIn(s, s[i]) = i
  BY <1>1, PostoUnico DEF ToSet
<1>3. \A h \in ToSet(s) : PostoIn(s, h) \in 1 .. Len(s) /\ s[PostoIn(s, h)] = h
  BY PostoDi
<1>4. \A i \in 1 .. v : i \in 1 .. Len(s) /\ i <= v
  BY <1>1
<1>5. \A i \in 1 .. Len(s) : i <= v => i \in 1 .. v
  BY <1>1
<1> DEFINE D == {s[i] : i \in 1 .. v}
           E == {h \in ToSet(s) : PostoIn(s, h) <= v}
<1>6. \A h \in D : h \in E
  BY <1>2, <1>4
<1>7. \A h \in E : h \in D
  <2> SUFFICES ASSUME NEW h \in ToSet(s), PostoIn(s, h) <= v
               PROVE  h \in D
    OBVIOUS
  <2> DEFINE i == PostoIn(s, h)
  <2>1. i \in 1 .. v /\ s[i] = h
    BY <1>3, <1>5
  <2> HIDE DEF i
  <2> QED BY <2>1
<1> QED BY <1>6, <1>7

\* The elements before one are as many as its place, less one.
LEMMA QuantiPrecedenti ==
  ASSUME NEW S, NEW s \in Seq(S), IsInjective(s), NEW g \in ToSet(s)
  PROVE  Cardinality(PrecedentiIn(s, g)) = PostoIn(s, g) - 1
<1> DEFINE p == PostoIn(s, g)
           I == 1 .. p - 1
           D == {s[i] : i \in I}
           F == [i \in I |-> s[i]]
<1>1. Len(s) \in Nat /\ DOMAIN s = 1 .. Len(s) /\ p \in 1 .. Len(s)
  BY PostoDi
<1>2. \A i, j \in 1 .. Len(s) : s[i] = s[j] => i = j
  BY <1>1 DEF IsInjective
<1> HIDE DEF p
<1>3. I \subseteq 1 .. Len(s) /\ 1 \in Int /\ p - 1 \in Int
  BY <1>1
<1>4. IsFiniteSet(I) /\ Cardinality(I) = p - 1
  <2>1. IsFiniteSet(1 .. p - 1)
        /\ Cardinality(1 .. p - 1) = IF 1 > p - 1 THEN 0 ELSE (p - 1) - 1 + 1
    BY <1>3, FS_Interval
  <2>2. Len(s) \in Nat /\ p \in Nat /\ p >= 1
    BY <1>1
  <2> DEFINE c == Cardinality(1 .. p - 1)
  <2>3. c = IF 1 > p - 1 THEN 0 ELSE (p - 1) - 1 + 1
    BY <2>1
  <2> HIDE DEF c
  <2>4. c = p - 1
    BY <2>2, <2>3
  <2> QED BY <2>1, <2>4 DEF c
<1>5. F \in Bijection(I, D)
  BY <1>2, <1>3 DEF Bijection, Injection, Surjection, IsInjective
<1>6. Cardinality(D) = Cardinality(I)
  BY <1>4, <1>5, FS_Bijection DEF ExistsBijection
<1> QED BY <1>4, <1>6 DEF PrecedentiIn, p

-----------------------------------------------------------------------------
(* The steps on the reservations. *)

\* The list and how many of its rows are old, as one step leaves them when it
\* takes f out, and when it then puts f at the end.
Uscita(s, f) == IF f \in ToSet(s) THEN RemoveAt(s, PostoIn(s, f)) ELSE s

Scesa(s, v, f) == IF f \in {s[i] : i \in 1 .. v} THEN v - 1 ELSE v

\* The order of the reservations is kept from (s, v) to (r, w): a row that is
\* old before and after has no new row before it.
Ordinata(s, v, r, w) ==
  \A g \in {s[i] : i \in 1 .. v} :
    g \in {r[i] : i \in 1 .. w} => PrecedentiIn(r, g) \subseteq PrecedentiIn(s, g)

\* Taking out a row, old or absent from the young ones, keeps the order.
LEMMA EsceInOrdine ==
  ASSUME NEW S, NEW s \in Seq(S), IsInjective(s), NEW v \in 0 .. Len(s), NEW f,
         NEW r, r = Uscita(s, f), NEW w, w = Scesa(s, v, f)
  PROVE  /\ r \in Seq(S) /\ IsInjective(r) /\ w \in 0 .. Len(r)
         /\ ToSet(r) = ToSet(s) \ {f}
         /\ Ordinata(s, v, r, w)
<1> DEFINE Vecchi == {s[i] : i \in 1 .. v}
<1>0. Len(s) \in Nat /\ v \in Nat /\ v <= Len(s)
  OBVIOUS
<1>1. Vecchi = {h \in ToSet(s) : PostoIn(s, h) <= v}
  BY PrimiPerPosto
<1> HIDE DEF Vecchi
<1>2. w = IF f \in Vecchi THEN v - 1 ELSE v
  BY DEF Scesa, Vecchi
<1>3. CASE f \notin ToSet(s)
  <2>1. r = s
    BY <1>3 DEF Uscita
  <2>2. w = v
    BY <1>1, <1>2, <1>3
  <2>3. ToSet(r) = ToSet(s) \ {f}
    BY <1>3, <2>1
  <2> QED BY <2>1, <2>2, <2>3 DEF Ordinata
<1>4. CASE f \in ToSet(s)
  <2> DEFINE p == PostoIn(s, f)
  <2>1. r = RemoveAt(s, PostoIn(s, f))
    BY <1>4 DEF Uscita
  <2>2. /\ r \in Seq(S) /\ IsInjective(r) /\ Len(r) = Len(s) - 1
        /\ ToSet(r) = ToSet(s) \ {f}
        /\ \A g \in ToSet(r) :
             PostoIn(r, g) = IF PostoIn(s, g) < p THEN PostoIn(s, g) ELSE PostoIn(s, g) - 1
    BY <1>4, <2>1, ListaSenza
  <2>3. p \in 1 .. Len(s) /\ s[p] = f
    BY <1>4, PostoDi
  <2> HIDE DEF p
  <2>4. w \in 0 .. Len(r)
    <3>1. f \in Vecchi <=> p <= v
      BY <1>1, <1>4 DEF p
    <3> QED BY <1>0, <1>2, <2>2, <2>3, <3>1
  <2>5. \A h \in ToSet(r) : PostoIn(s, h) \in Nat /\ PostoIn(s, h) # p
    <3>1. \A h \in ToSet(s) : PostoIn(s, h) \in 1 .. Len(s) /\ s[PostoIn(s, h)] = h
      BY PostoDi
    <3> QED BY <2>2, <2>3, <3>1
  <2>6. \A g, h \in ToSet(r) :
          PostoIn(r, h) < PostoIn(r, g) => PostoIn(s, h) < PostoIn(s, g)
    <3> SUFFICES ASSUME NEW g \in ToSet(r), NEW h \in ToSet(r)
                 PROVE  PostoIn(r, h) < PostoIn(r, g) => PostoIn(s, h) < PostoIn(s, g)
      OBVIOUS
    <3>1. /\ PostoIn(s, g) \in Nat /\ PostoIn(s, g) # p
          /\ PostoIn(s, h) \in Nat /\ PostoIn(s, h) # p
      BY <2>5
    <3>2. /\ PostoIn(r, g) = IF PostoIn(s, g) < p THEN PostoIn(s, g) ELSE PostoIn(s, g) - 1
          /\ PostoIn(r, h) = IF PostoIn(s, h) < p THEN PostoIn(s, h) ELSE PostoIn(s, h) - 1
      BY <2>2
    <3> QED BY <2>3, <3>1, <3>2
  <2>7. ASSUME NEW g \in ToSet(r)
        PROVE  PrecedentiIn(r, g) \subseteq PrecedentiIn(s, g)
    <3>1. PrecedentiIn(r, g) = {h \in ToSet(r) : PostoIn(r, h) < PostoIn(r, g)}
      BY <2>2, PrecedentiPerPosto
    <3>2. g \in ToSet(s)
      BY <2>2
    <3>3. PrecedentiIn(s, g) = {h \in ToSet(s) : PostoIn(s, h) < PostoIn(s, g)}
      BY <3>2, PrecedentiPerPosto
    <3> QED BY <2>2, <2>6, <3>1, <3>3
  <2>8. \A g \in {r[i] : i \in 1 .. w} : g \in ToSet(r)
    <3>1. {r[i] : i \in 1 .. w} = {h \in ToSet(r) : PostoIn(r, h) <= w}
      BY <2>2, <2>4, PrimiPerPosto
    <3> QED BY <3>1
  <2>9. Ordinata(s, v, r, w)
    BY <2>7, <2>8 DEF Ordinata
  <2> QED BY <2>2, <2>4, <2>9
<1> QED BY <1>3, <1>4

\* A row that enters at the end is before no other.
LEMMA EntraInCoda ==
  ASSUME NEW S, NEW s, NEW v, NEW r \in Seq(S), IsInjective(r),
         NEW w \in 0 .. Len(r), NEW f \in S, f \notin ToSet(r),
         NEW t, t = InFondo(r, f), Ordinata(s, v, r, w)
  PROVE  /\ t \in Seq(S) /\ IsInjective(t) /\ w \in 0 .. Len(t)
         /\ ToSet(t) = ToSet(r) \cup {f}
         /\ Ordinata(s, v, t, w)
<1>1. /\ t \in Seq(S) /\ IsInjective(t) /\ Len(t) = Len(r) + 1
      /\ ToSet(t) = ToSet(r) \cup {f}
      /\ \A g \in ToSet(r) : PostoIn(t, g) = PostoIn(r, g)
      /\ PostoIn(t, f) = Len(r) + 1
  BY ListaAllungata
<1>2. w \in 0 .. Len(t)
  BY <1>1
<1>3. {t[i] : i \in 1 .. w} = {h \in ToSet(t) : PostoIn(t, h) <= w}
  BY <1>1, <1>2, PrimiPerPosto
<1>4. {r[i] : i \in 1 .. w} = {h \in ToSet(r) : PostoIn(r, h) <= w}
  BY PrimiPerPosto
<1>5. ~(PostoIn(t, f) <= w)
  BY <1>1
<1>6. \A g \in {t[i] : i \in 1 .. w} : g \in ToSet(r) /\ g \in {r[i] : i \in 1 .. w}
  BY <1>1, <1>3, <1>4, <1>5
<1>7. ASSUME NEW g \in ToSet(r)
      PROVE  PrecedentiIn(t, g) \subseteq PrecedentiIn(r, g)
  <2>1. g \in ToSet(t)
    BY <1>1
  <2>2. PrecedentiIn(t, g) = {h \in ToSet(t) : PostoIn(t, h) < PostoIn(t, g)}
    BY <1>1, <2>1, PrecedentiPerPosto
  <2>3. PrecedentiIn(r, g) = {h \in ToSet(r) : PostoIn(r, h) < PostoIn(r, g)}
    BY PrecedentiPerPosto
  <2>4. PostoIn(r, g) \in 1 .. Len(r)
    BY PostoDi
  <2>5. ~(PostoIn(t, f) < PostoIn(t, g))
    BY <1>1, <2>4
  <2> QED BY <1>1, <2>2, <2>3, <2>5
<1>8. Ordinata(s, v, t, w)
  BY <1>6, <1>7 DEF Ordinata
<1> QED BY <1>1, <1>2, <1>8

\* The module's operators are those of its list.
LEMMA DellaLista ==
  ASSUME NEW f
  PROVE  /\ Posto(f) = PostoIn(riservate, f)
         /\ Precedenti(f) = PrecedentiIn(riservate, f)
         /\ Senza(f) = Uscita(riservate, f)
BY DEF Posto, PostoIn, Precedenti, PrecedentiIn, Senza, Uscita, Riservate

\* And after a step.
LEMMA DellaListaDopo ==
  ASSUME NEW CONSTANT f
  PROVE  Precedenti(f)' = PrecedentiIn(riservate', f)
BY DEF Posto, PostoIn, Precedenti, PrecedentiIn

-----------------------------------------------------------------------------
(* The invariant and the order. *)

\* The types in terms of the list alone.
Lista(s, v) == s \in Seq(FIR) /\ IsInjective(s) /\ v \in 0 .. Len(s)

\* The order of the reservations is kept by a step.
InOrdine == Ordinata(riservate, vecchie, riservate', vecchie')

\* A row loses its place: the attempt starts again or ends.
LEMMA TogliInOrdine ==
  ASSUME TypeOK, NEW f \in FIR,
         NEW r, r = Senza(f), NEW w, w = IF f \in Sospese THEN vecchie - 1 ELSE vecchie
  PROVE  /\ Lista(r, w) /\ ToSet(r) = Riservate \ {f}
         /\ Ordinata(riservate, vecchie, r, w)
<1>1. riservate \in Seq(FIR) /\ IsInjective(riservate) /\ vecchie \in 0 .. Len(riservate)
  BY DEF TypeOK
<1>2. r = Uscita(riservate, f)
  BY DellaLista
<1>3. w = Scesa(riservate, vecchie, f)
  BY DEF Scesa, Sospese
<1> QED BY <1>1, <1>2, <1>3, EsceInOrdine DEF Lista, Riservate

\* An attempt that starts moves its row to the end.
LEMMA EseguiInOrdine ==
  ASSUME TypeOK, NEW f \in FIR, Esegui(f)
  PROVE  TypeOK' /\ InOrdine
<1> DEFINE r == Senza(f)
           w == IF f \in Sospese THEN vecchie - 1 ELSE vecchie
<1>1. riservate' = InFondo(r, f) /\ vecchie' = w
  BY DEF Esegui, InFondo
<1>2. /\ Lista(r, w) /\ ToSet(r) = Riservate \ {f}
      /\ Ordinata(riservate, vecchie, r, w)
  BY TogliInOrdine
<1> HIDE DEF r, w
<1>3. /\ riservate' \in Seq(FIR) /\ IsInjective(riservate')
      /\ vecchie' \in 0 .. Len(riservate')
      /\ ToSet(riservate') = ToSet(r) \cup {f}
      /\ InOrdine
  <2>1. riservate' = InFondo(r, f) /\ f \notin ToSet(r)
    BY <1>1, <1>2
  <2>2. /\ r \in Seq(FIR) /\ IsInjective(r) /\ w \in 0 .. Len(r)
        /\ Ordinata(riservate, vecchie, r, w)
    BY <1>2 DEF Lista
  <2> DEFINE t == InFondo(r, f)
  <2>3. /\ t \in Seq(FIR) /\ IsInjective(t) /\ w \in 0 .. Len(t)
        /\ ToSet(t) = ToSet(r) \cup {f}
        /\ Ordinata(riservate, vecchie, t, w)
    BY <2>1, <2>2, EntraInCoda
  <2> QED BY <1>1, <2>3 DEF InOrdine
<1>4. inEsecuzione' \subseteq ToSet(riservate')
  BY <1>2, <1>3 DEF Esegui, TypeOK
<1> QED BY <1>3, <1>4 DEF TypeOK, Esegui, esterne, Riservate

\* An attempt that ends takes its row out, unless the save was refused.
LEMMA ConcludeInOrdine ==
  ASSUME TypeOK, NEW f \in FIR, Conclude(f)
  PROVE  TypeOK' /\ InOrdine
<1>1. CASE f \in annullati
  <2>1. UNCHANGED <<riservate, vecchie, trasmessi, legati>>
    BY <1>1 DEF Conclude
  <2> QED BY <2>1 DEF TypeOK, Conclude, Riservate, InOrdine, Ordinata
<1>2. CASE f \notin annullati
  <2> DEFINE r == Senza(f)
             w == IF f \in Sospese THEN vecchie - 1 ELSE vecchie
  <2>1. riservate' = r /\ vecchie' = w
    BY <1>2 DEF Conclude
  <2>2. /\ Lista(r, w) /\ ToSet(r) = Riservate \ {f}
        /\ Ordinata(riservate, vecchie, r, w)
    BY TogliInOrdine
  <2> HIDE DEF r, w
  <2>3. trasmessi' \subseteq FIR /\ legati' \subseteq FIR
    BY <1>2 DEF Conclude, TypeOK
  <2> QED BY <2>1, <2>2, <2>3 DEF TypeOK, Conclude, Riservate, Lista, InOrdine
<1> QED BY <1>1, <1>2

\* Every step keeps the types and the order.
LEMMA PassoInOrdine ==
  ASSUME TypeOK, Next
  PROVE  TypeOK' /\ InOrdine
<1>1. CASE Riprendi
  <2>1. coda' \subseteq FIR
    <3>1. Elenco \subseteq FIR
      BY DEF Elenco, TypeOK
    <3> QED BY <1>1, <3>1 DEF Riprendi, TypeOK
  <2> QED BY <1>1, <2>1 DEF Riprendi, TypeOK, esterne, Riservate, InOrdine, Ordinata
<1>2. CASE Invecchia
  <2>1. vecchie' \in 0 .. Len(riservate')
    BY <1>2 DEF Invecchia, TypeOK
  <2> QED BY <1>2, <2>1 DEF Invecchia, TypeOK, esterne, Riservate, InOrdine, Ordinata
<1>3. ASSUME NEW f \in FIR, Accoda(f) \/ EseguiSaltata(f) \/ Interrompe(f)
      PROVE  TypeOK' /\ InOrdine
  <2>1. UNCHANGED <<riservate, vecchie, trasmessi, esterne>>
    BY <1>3 DEF Accoda, EseguiSaltata, Interrompe
  <2>2. coda' \subseteq FIR /\ inEsecuzione' \subseteq inEsecuzione
    BY <1>3 DEF Accoda, EseguiSaltata, Interrompe, TypeOK
  <2> QED BY <2>1, <2>2 DEF TypeOK, esterne, Riservate, InOrdine, Ordinata
<1>4. ASSUME NEW f \in FIR, Aggancia(f) \/ Rilascia(f) \/ Annulla(f) \/ AnnullaEnte(f)
      PROVE  TypeOK' /\ InOrdine
  <2>1. UNCHANGED <<riservate, vecchie, trasmessi, coda, inEsecuzione>>
    BY <1>4 DEF Aggancia, Rilascia, Annulla, AnnullaEnte
  <2>2. legati' \subseteq FIR /\ annullati' \subseteq FIR /\ annullatiEnte' \subseteq annullati'
    BY <1>4 DEF Aggancia, Rilascia, Annulla, AnnullaEnte, TypeOK
  <2> QED BY <2>1, <2>2 DEF TypeOK, Riservate, InOrdine, Ordinata
<1> QED BY <1>1, <1>2, <1>3, <1>4, EseguiInOrdine, ConcludeInOrdine DEF Next

\* The reservations are a list of FIRs without repetitions, some of them old,
\* and whoever holds one is in it.
THEOREM SospeseTipi == Spec => []TypeOK
<1>1. Init => TypeOK
  <2> SUFFICES ASSUME Init
               PROVE  TypeOK
    OBVIOUS
  <2>1. riservate \in Seq(FIR) /\ IsInjective(riservate)
    BY DEF Init, IsInjective
  <2>2. vecchie \in 0 .. Len(riservate)
    BY DEF Init
  <2> QED BY <2>1, <2>2 DEF Init, TypeOK
<1>2. TypeOK /\ [Next]_vars => TypeOK'
  <2>1. ASSUME TypeOK, UNCHANGED vars
        PROVE  TypeOK'
    BY <2>1 DEF TypeOK, vars, esterne, Riservate
  <2> QED BY <2>1, PassoInOrdine
<1> QED BY <1>1, <1>2, PTL DEF Spec

\* A round leaves out an old row only if the rows before it fill the round.
LEMMA LasciataFuori ==
  ASSUME TypeOK, Riprendi, NEW f \in Sospese, f \notin coda'
  PROVE  Cardinality(Precedenti(f)) >= Limite
<1>1. /\ riservate \in Seq(FIR) /\ IsInjective(riservate)
      /\ vecchie \in 0 .. Len(riservate)
  BY DEF TypeOK
<1>2. f \notin Elenco
  BY DEF Riprendi
<1>3. PICK i \in 1 .. vecchie : riservate[i] = f
  BY DEF Sospese
<1>4. ~(i <= Limite)
  BY <1>2, <1>3 DEF Elenco
<1>5. i \in 1 .. Len(riservate)
  BY <1>1
<1>6. PostoIn(riservate, f) = i
  BY <1>1, <1>3, <1>5, PostoUnico
<1>7. f \in ToSet(riservate)
  BY <1>1, <1>3, <1>5 DEF ToSet
<1>8. Cardinality(Precedenti(f)) = i - 1
  BY <1>1, <1>6, <1>7, QuantiPrecedenti, DellaLista
<1> QED BY <1>4, <1>5, <1>8, TrasmissioniSospeseAssumption

\* A transmission left behind is never overtaken, and a round leaves it out
\* only if the rows reserved before its own fill the round.
THEOREM TurnoSempreRispettato == Spec => TurnoRispettato
<1> DEFINE Turno ==
      \A f \in Sospese :
        /\ f \in Sospese' => Precedenti(f)' \subseteq Precedenti(f)
        /\ Riprendi /\ f \notin coda' => Cardinality(Precedenti(f)) >= Limite
<1>1. TypeOK /\ [Next]_vars => [Turno]_vars
  <2> SUFFICES ASSUME TypeOK, Next, NEW f \in Sospese
               PROVE  /\ f \in Sospese' => Precedenti(f)' \subseteq Precedenti(f)
                      /\ Riprendi /\ f \notin coda' => Cardinality(Precedenti(f)) >= Limite
    OBVIOUS
  <2>1. f \in Sospese' => PrecedentiIn(riservate', f) \subseteq PrecedentiIn(riservate, f)
    BY PassoInOrdine DEF InOrdine, Ordinata, Sospese
  <2> QED BY <2>1, LasciataFuori, DellaLista, DellaListaDopo
<1> QED BY <1>1, SospeseTipi, PTL DEF Spec, TurnoRispettato
===============================================================================
