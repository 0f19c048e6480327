----------------------------- MODULE RecursosProofs -----------------------------
(***************************************************************************)
(* Theorems about Recursos: its types, the balance of the instances, the   *)
(* wake-ups, the degree, the order of the wake-ups, and the exclusion.     *)
(* First come lemmas about its operators: the folds that Suma and          *)
(* SinPropias are made of, and the library's operations on lists.          *)
(***************************************************************************)
EXTENDS Recursos, FiniteSetTheorems, SequenceTheorems, WellFoundedInduction, TLAPS

-----------------------------------------------------------------------------
(* Least elements.                                                         *)

LEMMA MinNat ==
    ASSUME NEW T, T \subseteq Nat, T # {}
    PROVE  \E m \in T : \A k \in T : m <= k
  <1>1. \E m \in T : \A k \in T : <<k, m>> \notin OpToRel(<, Nat)
    BY WFMin, NatLessThanWellFounded
  <1>2. PICK m \in T : \A k \in T : <<k, m>> \notin OpToRel(<, Nat)
    BY <1>1
  <1>3. \A k \in T : <<k, m>> \in Nat \X Nat
    OBVIOUS
  <1>4. \A k \in T : ~(k < m)
    BY <1>2, <1>3 DEF OpToRel
  <1> QED
    BY <1>4

-----------------------------------------------------------------------------
(* What a fold computes.  A fold over a finite set takes its elements one  *)
(* at a time, in an order that depends only on the set that is left: so    *)
(* the recursive function it is defined by exists.                         *)

Elige(E, S) == \A s \in SUBSET S : s # {} => E[s] \in s
Cerrada(F, S, V) == \A x \in S : \A v \in V : F[x][v] \in V
EsPliegue(g, S, V, b, E, F) ==
    /\ g = [s \in SUBSET S |-> IF s = {} THEN b ELSE F[E[s]][g[s \ {E[s]}]]]
    /\ \A s \in SUBSET S : g[s] \in V

LEMMA HayPliegue ==
    ASSUME NEW S, IsFiniteSet(S), NEW V, NEW b \in V, NEW E, Elige(E, S), NEW F, Cerrada(F, S, V)
    PROVE  \E g : EsPliegue(g, S, V, b, E, F)
  <1> USE DEF Elige, Cerrada
  <1> DEFINE Vale(g, s) == g[s] = IF s = {} THEN b ELSE F[E[s]][g[s \ {E[s]}]]
             Bien(g, n) == \A s \in SUBSET S : Cardinality(s) <= n => Vale(g, s) /\ g[s] \in V
             Malos == {n \in Nat : ~\E g \in [SUBSET S -> V] : Bien(g, n)}
  <1>1. \A s \in SUBSET S : IsFiniteSet(s) /\ Cardinality(s) \in Nat /\ Cardinality(s) <= Cardinality(S)
    BY FS_Subset, FS_CardinalityType
  <1>2. \A s \in SUBSET S : s # {} =>
           s \ {E[s]} \in SUBSET S /\ Cardinality(s \ {E[s]}) = Cardinality(s) - 1 
    BY <1>1, FS_RemoveElement
  <1>3. 0 \notin Malos
    <2> DEFINE g == [s \in SUBSET S |-> b]
    <2>1. \A s \in SUBSET S : Cardinality(s) <= 0 => s = {}
      BY <1>1, FS_EmptySet
    <2>2. g \in [SUBSET S -> V] /\ \A s \in SUBSET S : g[s] = b
      OBVIOUS
    <2> HIDE DEF g
    <2>3. Bien(g, 0)
      BY <2>1, <2>2
    <2> QED BY <2>2, <2>3
  <1>4. ASSUME NEW n \in Nat, NEW g \in [SUBSET S -> V], Bien(g, n)
        PROVE  \E h \in [SUBSET S -> V] : Bien(h, n + 1)
    <2> DEFINE h == [s \in SUBSET S |-> IF s = {} THEN b ELSE F[E[s]][g[s \ {E[s]}]]]
    <2>1. h \in [SUBSET S -> V]
      BY <1>2
    <2>2. \A s \in SUBSET S : h[s] = IF s = {} THEN b ELSE F[E[s]][g[s \ {E[s]}]]
      OBVIOUS
    <2> HIDE DEF h
    <2>3. \A s \in SUBSET S : Cardinality(s) <= n => h[s] = g[s]
      BY <1>4, <2>2
    <2>4. ASSUME NEW s \in SUBSET S, Cardinality(s) <= n + 1 PROVE Vale(h, s) /\ h[s] \in V
      <3>1. s # {} => h[s \ {E[s]}] = g[s \ {E[s]}]
        BY <1>1, <1>2, <2>3, <2>4
      <3> QED BY <2>1, <2>2, <3>1
    <2> QED BY <2>1, <2>4
  <1>5. \A n \in Nat : n + 1 \in Malos => n \in Malos
    BY <1>4
  <1>6. Malos = {}
    <2>1. SUFFICES ASSUME Malos # {} PROVE FALSE
      OBVIOUS
    <2>2. Malos \subseteq Nat
      OBVIOUS
    <2> HIDE DEF Malos
    <2>3. PICK m \in Malos : \A k \in Malos : m <= k
      BY <2>1, <2>2, MinNat
    <2>4. m # 0 /\ m \in Nat
      BY <1>3, <2>2
    <2>5. m - 1 \in Nat /\ m = (m - 1) + 1
      BY <2>4
    <2>6. m - 1 \in Malos
      BY <1>5, <2>5
    <2> QED BY <2>3, <2>4, <2>6
  <1>7. Cardinality(S) \in Nat
    BY FS_CardinalityType
  <1>8. PICK g \in [SUBSET S -> V] : Bien(g, Cardinality(S))
    BY <1>6, <1>7
  <1>9. \A s \in SUBSET S : Vale(g, s) /\ g[s] \in V
    BY <1>1, <1>8
  <1>10. g = [s \in SUBSET S |-> IF s = {} THEN b ELSE F[E[s]][g[s \ {E[s]}]]]
    BY <1>9
  <1> QED BY <1>9, <1>10 DEF EsPliegue

(* The sum over a set, element by element.                                 *)
Primero(s) == CHOOSE x \in s : TRUE

PorPasos(g, f, S) ==
    /\ Suma(f, S) = g[S]
    /\ \A s \in SUBSET S : g[s] = IF s = {} THEN 0 ELSE f[Primero(s)] + g[s \ {Primero(s)}]
    /\ \A s \in SUBSET S : g[s] \in Int

LEMMA SumaPorPasos ==
    ASSUME NEW S, IsFiniteSet(S), NEW f, \A x \in S : f[x] \in Int
    PROVE  \E g : PorPasos(g, f, S)
  <1> DEFINE E == [s \in SUBSET S |-> Primero(s)]
             F == [x \in S |-> [v \in Int |-> f[x] + v]]
             Ec(g) == g = [s \in SUBSET S |-> IF s = {} THEN 0 ELSE f[Primero(s)] + g[s \ {Primero(s)}]]
  <1>1. \E g : EsPliegue(g, S, Int, 0, E, F)
    <2>1. Elige(E, S)
      BY DEF Elige, Primero
    <2>2. Cerrada(F, S, Int)
      BY DEF Cerrada
    <2> HIDE DEF E, F
    <2> QED BY <2>1, <2>2, HayPliegue
  <1>2. \E g : Ec(g) /\ \A s \in SUBSET S : g[s] \in Int
    <2>1. PICK g : /\ g = [s \in SUBSET S |-> IF s = {} THEN 0 ELSE F[E[s]][g[s \ {E[s]}]]]
                   /\ \A s \in SUBSET S : g[s] \in Int
      BY <1>1 DEF EsPliegue
    <2>2. \A s \in SUBSET S : s # {} => Primero(s) \in S /\ E[s] = Primero(s)
      BY DEF Primero
    <2>3. \A x \in S : \A v \in Int : F[x][v] = f[x] + v
      OBVIOUS
    <2> HIDE DEF E, F
    <2>4. \A s \in SUBSET S : g[s] = IF s = {} THEN 0 ELSE F[E[s]][g[s \ {E[s]}]]
      BY <2>1
    <2>5. \A s \in SUBSET S : g[s] = IF s = {} THEN 0 ELSE f[Primero(s)] + g[s \ {Primero(s)}]
      BY <2>1, <2>2, <2>3, <2>4
    <2>6. DOMAIN g = SUBSET S /\ g = [s \in DOMAIN g |-> g[s]]
      BY <2>1
    <2> QED BY <2>1, <2>5, <2>6
  <1>3. Suma(f, S) = (CHOOSE g : Ec(g))[S]
    BY DEF Suma, FoldFunctionOnSet, MapThenFoldSet, Primero
  <1>4. PICK g : Suma(f, S) = g[S] /\ Ec(g)
    BY <1>2, <1>3
  <1>5. \A s \in SUBSET S : g[s] = IF s = {} THEN 0 ELSE f[Primero(s)] + g[s \ {Primero(s)}]
    BY <1>4
  <1> DEFINE Malos == {n \in Nat : \E s \in SUBSET S : Cardinality(s) = n /\ g[s] \notin Int}
  <1>6. Malos = {}
    <2>1. SUFFICES ASSUME Malos # {} PROVE FALSE
      OBVIOUS
    <2>2. PICK m \in Malos : \A k \in Malos : m <= k
      BY <2>1, MinNat
    <2>3. PICK s \in SUBSET S : Cardinality(s) = m /\ g[s] \notin Int
      OBVIOUS
    <2>4. s # {}
      <3>1. {} \in SUBSET S
        OBVIOUS
      <3>2. g[{}] = 0
        BY <1>5, <3>1
      <3> QED BY <2>3, <3>2
    <2>5. Primero(s) \in s
      BY <2>4 DEF Primero
    <2>6. Cardinality(s \ {Primero(s)}) = m - 1 /\ m \in Nat /\ m - 1 \in Nat
      <3>1. IsFiniteSet(s) /\ IsFiniteSet(s \ {Primero(s)})
        BY FS_Subset
      <3>2. Cardinality(s \ {Primero(s)}) = Cardinality(s) - 1
        BY <2>5, <3>1, FS_RemoveElement
      <3> QED BY <2>3, <3>1, <3>2, FS_CardinalityType
    <2>7. g[s \ {Primero(s)}] \in Int
      BY <2>2, <2>6
    <2> QED BY <1>5, <2>3, <2>4, <2>5, <2>7
  <1>7. \A s \in SUBSET S : g[s] \in Int
    BY <1>6, FS_Subset, FS_CardinalityType
  <1> QED BY <1>4, <1>5, <1>7 DEF PorPasos

LEMMA SumaCambia ==
    ASSUME NEW S, IsFiniteSet(S), NEW f, NEW h, NEW a \in S, NEW d \in Int,
           \A x \in S : f[x] \in Int, h[a] = f[a] + d, \A x \in S \ {a} : h[x] = f[x]
    PROVE  Suma(f, S) \in Int /\ Suma(h, S) = Suma(f, S) + d
  <1>1. \A x \in S : h[x] \in Int
    OBVIOUS
  <1>2. PICK g : PorPasos(g, f, S)
    BY SumaPorPasos
  <1>3. PICK k : PorPasos(k, h, S)
    BY <1>1, SumaPorPasos
  <1> DEFINE Vale(s) == k[s] = g[s] + (IF a \in s THEN d ELSE 0)
             Malos == {n \in Nat : \E s \in SUBSET S : Cardinality(s) = n /\ ~Vale(s)}
  <1>4. Malos = {}
    <2>1. SUFFICES ASSUME Malos # {} PROVE FALSE
      OBVIOUS
    <2>2. PICK m \in Malos : \A j \in Malos : m <= j
      BY <2>1, MinNat
    <2>3. PICK s \in SUBSET S : Cardinality(s) = m /\ ~Vale(s)
      OBVIOUS
    <2>4. s # {}
      <3>1. {} \in SUBSET S
        OBVIOUS
      <3>2. g[{}] = 0 /\ k[{}] = 0
        BY <1>2, <1>3, <3>1 DEF PorPasos
      <3> QED BY <2>3, <3>2
    <2> DEFINE x == Primero(s)
               t == s \ {x}
    <2>5. x \in s /\ x \in S /\ t \in SUBSET S
      BY <2>4 DEF Primero
    <2>6. Cardinality(t) = m - 1 /\ m \in Nat /\ m - 1 \in Nat
      <3>1. IsFiniteSet(s) /\ IsFiniteSet(t)
        BY FS_Subset
      <3>2. Cardinality(t) = Cardinality(s) - 1
        BY <2>5, <3>1, FS_RemoveElement
      <3> QED BY <2>3, <3>1, <3>2, FS_CardinalityType
    <2>7. Vale(t)
      BY <2>2, <2>5, <2>6
    <2>8. g[s] = f[x] + g[t] /\ k[s] = h[x] + k[t]
      BY <1>2, <1>3, <2>4 DEF PorPasos
    <2>9. g[t] \in Int /\ k[t] \in Int /\ f[x] \in Int
      BY <1>2, <1>3, <2>5 DEF PorPasos
    <2>10. (a \in s) <=> (a = x \/ a \in t)
      BY <2>5
    <2>11. a = x => a \notin t
      OBVIOUS
    <2> HIDE DEF x, t
    <2>12. CASE a = x
      BY <2>3, <2>7, <2>8, <2>9, <2>10, <2>11, <2>12
    <2>13. CASE a # x
      BY <2>3, <2>5, <2>7, <2>8, <2>9, <2>10, <2>13
    <2> QED BY <2>12, <2>13
  <1>5. Cardinality(S) \in Nat
    BY FS_CardinalityType
  <1>6. Vale(S)
    BY <1>4, <1>5
  <1> QED BY <1>2, <1>3, <1>6 DEF PorPasos

-----------------------------------------------------------------------------
(* The loop of liberar_recursos, entry by entry.                           *)

LEMMA MaxDe ==
    ASSUME NEW n \in Nat, NEW s \in SUBSET (1..n), s # {}
    PROVE  Max(s) \in s /\ \A k \in s : k <= Max(s)
  <1> DEFINE Cotas == {j \in Nat : \A k \in s : k <= j}
  <1>1. n \in Cotas
    OBVIOUS
  <1>2. PICK m \in Cotas : \A j \in Cotas : m <= j
    BY <1>1, MinNat
  <1>3. m \in s
    <2>1. SUFFICES ASSUME m \notin s PROVE FALSE
      OBVIOUS
    <2>2. \A k \in s : k <= m - 1
      BY <1>2, <2>1
    <2>3. m - 1 \in Nat
      <3>1. PICK k \in s : TRUE
        OBVIOUS
      <3>2. k >= 1 /\ k <= m - 1 /\ k \in Nat /\ m \in Nat
        BY <1>2, <2>2
      <3> QED BY <3>2
    <2>4. m - 1 \in Cotas
      BY <2>2, <2>3
    <2> QED BY <1>2, <2>4
  <1>4. \A k \in s : m >= k
    BY <1>2
  <1> QED BY <1>3, <1>4 DEF Max

LEMMA MaxTramo ==
    ASSUME NEW k \in Nat \ {0}
    PROVE  Max(1..k) = k /\ (1..k) \ {k} = 1..(k - 1) /\ 1..k # {}
  <1>1. 1..k \in SUBSET (1..k) /\ 1..k # {} /\ k \in 1..k
    OBVIOUS
  <1>2. Max(1..k) \in 1..k /\ \A j \in 1..k : j <= Max(1..k)
    BY <1>1, MaxDe
  <1> QED BY <1>1, <1>2

(* One turn of the loop.                                                   *)
Vuelta(v, x, p) ==
    IF v.salta \/ x # p THEN [l |-> Append(v.l, x), salta |-> FALSE]
                        ELSE [l |-> v.l, salta |-> TRUE]
Vacia == [l |-> <<>>, salta |-> FALSE]
Vueltas(e, l, p) ==
    /\ e[0] = Vacia
    /\ \A k \in 1..Len(l) : e[k] = Vuelta(e[k - 1], l[k], p)

LEMMA PorVueltas ==
    ASSUME NEW P, NEW l \in Seq(P), NEW p
    PROVE  \E e : Vueltas(e, l, p) /\ SinPropias(l, p) = e[Len(l)].l
  <1> DEFINE n == Len(l)
             V == [l : Seq(P), salta : BOOLEAN]
             E == [s \in SUBSET (1..n) |-> Max(s)]
             F == [x \in 1..n |-> [v \in V |-> Vuelta(v, l[x], p)]]
             Ec(g) == g = [s \in SUBSET (1..n) |-> IF s = {} THEN Vacia ELSE Vuelta(g[s \ {Max(s)}], l[Max(s)], p)]
  <1>1. n \in Nat /\ IsFiniteSet(1..n) /\ DOMAIN l = 1..n /\ \A x \in 1..n : l[x] \in P
    BY FS_Interval
  <1>2. Vacia \in V
    BY DEF Vacia
  <1>3. \A v \in V, x \in P : Vuelta(v, x, p) \in V
    BY AppendProperties DEF Vuelta
  <1>4. \A s \in SUBSET (1..n) : s # {} => Max(s) \in s
    BY <1>1, MaxDe
  <1>5. \E g : EsPliegue(g, 1..n, V, Vacia, E, F)
    <2>1. Elige(E, 1..n)
      BY <1>4 DEF Elige
    <2>2. Cerrada(F, 1..n, V)
      BY <1>1, <1>3 DEF Cerrada
    <2> HIDE DEF E, F, V, n
    <2> QED BY <1>1, <1>2, <2>1, <2>2, HayPliegue
  <1>6. \E g : Ec(g)
    <2>1. PICK g : EsPliegue(g, 1..n, V, Vacia, E, F)
      BY <1>5
    <2>2. \A x \in 1..n : \A v \in V : F[x][v] = Vuelta(v, l[x], p)
      OBVIOUS
    <2>3. \A s \in SUBSET (1..n) : E[s] = Max(s)
      OBVIOUS
    <2> HIDE DEF E, F, V, n
    <2>4. \A s \in SUBSET (1..n) : g[s] = IF s = {} THEN Vacia ELSE F[E[s]][g[s \ {E[s]}]]
      BY <2>1 DEF EsPliegue
    <2>5. \A s \in SUBSET (1..n) : s # {} => Max(s) \in 1..n /\ g[s \ {Max(s)}] \in V
      BY <1>4, <2>1 DEF EsPliegue
    <2>6. \A s \in SUBSET (1..n) : g[s] = IF s = {} THEN Vacia ELSE Vuelta(g[s \ {Max(s)}], l[Max(s)], p)
      BY <2>2, <2>3, <2>4, <2>5
    <2>7. DOMAIN g = SUBSET (1..n) /\ g = [s \in DOMAIN g |-> g[s]]
      BY <2>1 DEF EsPliegue
    <2> QED BY <2>6, <2>7
  <1>7. SinPropias(l, p) = ((CHOOSE g : Ec(g))[1..n]).l
    BY <1>1 DEF SinPropias, FoldLeft, MapThenFoldSet, Vuelta, Vacia
  <1>8. PICK g : Ec(g) /\ SinPropias(l, p) = g[1..n].l
    BY <1>6, <1>7
  <1> DEFINE e == [k \in 0..n |-> g[1..k]]
  <1>9. e[0] = Vacia
    <2>1. g[{}] = Vacia /\ 1..0 = {}
      BY <1>8
    <2> QED BY <1>1, <2>1
  <1>10. ASSUME NEW k \in 1..n PROVE e[k] = Vuelta(e[k - 1], l[k], p)
    <2>1. Max(1..k) = k /\ (1..k) \ {k} = 1..(k - 1) /\ 1..k # {} /\ 1..k \in SUBSET (1..n)
      BY MaxTramo
    <2>2. g[1..k] = Vuelta(g[1..(k - 1)], l[k], p)
      BY <1>8, <2>1
    <2> QED BY <2>2
  <1>11. SinPropias(l, p) = e[n].l
    BY <1>1, <1>8
  <1> QED BY <1>9, <1>10, <1>11 DEF Vueltas

Esta(x, s) == \E i \in 1..Len(s) : s[i] = x

LEMMA EstaEnConjunto ==
    ASSUME NEW S, NEW s \in Seq(S)
    PROVE  \A x : x \in ToSet(s) <=> Esta(x, s)
  BY DEF ToSet, Esta

LEMMA AlAgregar ==
    ASSUME NEW S, NEW s \in Seq(S), NEW y \in S
    PROVE  Append(s, y) \in Seq(S) /\ \A x : Esta(x, Append(s, y)) <=> Esta(x, s) \/ x = y
  <1> DEFINE t == Append(s, y)
             n == Len(s)
  <1>1. t \in Seq(S) /\ Len(t) = n + 1 /\ n \in Nat /\ t[n + 1] = y /\ \A i \in 1..n : t[i] = s[i]
    BY AppendProperties
  <1> HIDE DEF t
  <1>2. 1..(n + 1) = (1..n) \cup {n + 1}
    BY <1>1
  <1>3. \A x : Esta(x, t) <=> Esta(x, s) \/ x = y
    BY <1>1, <1>2 DEF Esta
  <1> QED BY <1>1, <1>3 DEF t

LEMMA AlSacar ==
    ASSUME NEW S, NEW s \in Seq(S), s # <<>>
    PROVE  /\ Head(s) \in S /\ Tail(s) \in Seq(S) /\ Len(Tail(s)) = Len(s) - 1
           /\ \A x : Esta(x, Tail(s)) => Esta(x, s)
           /\ \A x : Esta(x, s) => Esta(x, Tail(s)) \/ x = Head(s)
  <1> DEFINE t == Tail(s)
             n == Len(s)
  <1>1. /\ t \in Seq(S) /\ Len(t) = n - 1 /\ n \in Nat \ {0} /\ Head(s) = s[1] /\ s[1] \in S
        /\ \A i \in 1..(n - 1) : t[i] = s[i + 1]
    BY HeadTailProperties, EmptySeq
  <1> HIDE DEF t
  <1>2. \A i \in 1..(n - 1) : i + 1 \in 1..n
    BY <1>1
  <1>3. \A i \in 1..n : i = 1 \/ (i - 1 \in 1..(n - 1) /\ s[i] = t[i - 1])
    BY <1>1
  <1>4. \A x : Esta(x, t) => Esta(x, s)
    BY <1>1, <1>2 DEF Esta
  <1>5. \A x : Esta(x, s) => Esta(x, t) \/ x = Head(s)
    BY <1>1, <1>3 DEF Esta
  <1> QED BY <1>1, <1>4, <1>5 DEF t

(* The loop takes entries of p only.                                       *)
LEMMA PropiasQuitadas ==
    ASSUME NEW P, NEW l \in Seq(P), NEW p
    PROVE  /\ SinPropias(l, p) \in Seq(P) /\ Len(SinPropias(l, p)) <= Len(l)
           /\ \A x : Esta(x, SinPropias(l, p)) => Esta(x, l)
           /\ \A x : Esta(x, l) => Esta(x, SinPropias(l, p)) \/ x = p
  <1>1. PICK e : Vueltas(e, l, p) /\ SinPropias(l, p) = e[Len(l)].l
    BY PorVueltas
  <1> DEFINE n == Len(l)
             Hasta(x, k) == \E i \in 1..k : l[i] = x
             Bien(k) == /\ e[k].l \in Seq(P) /\ Len(e[k].l) <= k
                        /\ \A x : Esta(x, e[k].l) => Hasta(x, k)
                        /\ \A x : Hasta(x, k) => Esta(x, e[k].l) \/ x = p
             Malos == {k \in 0..n : ~Bien(k)}
  <1>2. n \in Nat /\ \A i \in 1..n : l[i] \in P
    OBVIOUS
  <1>3. Bien(0)
    <2>1. e[0].l = <<>>
      BY <1>1 DEF Vueltas, Vacia
    <2>2. e[0].l \in Seq(P) /\ Len(e[0].l) = 0
      BY <2>1
    <2>3. \A x : ~Esta(x, e[0].l) /\ ~Hasta(x, 0)
      BY <2>2 DEF Esta
    <2> QED BY <2>1, <2>2, <2>3
  <1>4. ASSUME NEW k \in 1..n, Bien(k - 1) PROVE Bien(k)
    <2> DEFINE s == e[k - 1].l
    <2>1. e[k] = Vuelta(e[k - 1], l[k], p)
      BY <1>1 DEF Vueltas
    <2>2. \A x : Hasta(x, k) <=> Hasta(x, k - 1) \/ x = l[k]
      <3>1. 1..k = (1..(k - 1)) \cup {k}
        OBVIOUS
      <3> QED BY <3>1
    <2>3. s \in Seq(P) /\ Len(s) <= k - 1 /\ Len(s) \in Nat
      BY <1>4
    <2>4. CASE e[k - 1].salta \/ l[k] # p
      <3>1. e[k].l = Append(s, l[k])
        BY <2>1, <2>4 DEF Vuelta
      <3>2. Len(Append(s, l[k])) = Len(s) + 1
        BY <2>3, <1>2, AppendProperties
      <3>3. /\ Append(s, l[k]) \in Seq(P)
            /\ \A x : Esta(x, Append(s, l[k])) <=> Esta(x, s) \/ x = l[k]
        BY <2>3, <1>2, AlAgregar
      <3> HIDE DEF Hasta
      <3> QED BY <1>2, <1>4, <2>2, <2>3, <3>1, <3>2, <3>3
    <2>5. CASE ~(e[k - 1].salta \/ l[k] # p)
      <3>1. e[k].l = s /\ l[k] = p
        BY <2>1, <2>5 DEF Vuelta
      <3> HIDE DEF Hasta
      <3> QED BY <1>2, <1>4, <2>2, <2>3, <3>1
    <2> QED BY <2>4, <2>5
  <1> HIDE DEF Bien
  <1>5. Malos = {}
    <2>1. SUFFICES ASSUME Malos # {} PROVE FALSE
      OBVIOUS
    <2>2. Malos \subseteq Nat
      BY <1>2
    <2>3. PICK m \in Malos : \A k \in Malos : m <= k
      BY <2>1, <2>2, MinNat
    <2>4. m # 0 /\ m \in 0..n
      BY <1>3
    <2>5. m \in 1..n /\ m - 1 \in 0..n
      BY <1>2, <2>4
    <2>6. Bien(m - 1)
      BY <2>3, <2>5
    <2> QED BY <1>4, <2>3, <2>5, <2>6
  <1>6. Bien(n)
    BY <1>2, <1>5
  <1> QED BY <1>1, <1>6 DEF Bien, Esta

(* list_remove_by_condition.                                               *)
LEMMA AlQuitar ==
    ASSUME NEW S, NEW s \in Seq(S), NEW y
    PROVE  /\ RemoveFirst(s, y) \in Seq(S) /\ Len(RemoveFirst(s, y)) <= Len(s)
           /\ IF Esta(y, s) THEN Len(RemoveFirst(s, y)) = Len(s) - 1 ELSE RemoveFirst(s, y) = s
  <1> USE DEF Esta
  <1>1. CASE ~\E i \in 1..Len(s) : s[i] = y
    BY <1>1 DEF RemoveFirst
  <1>2. CASE \E i \in 1..Len(s) : s[i] = y
    <2> DEFINE I == {i \in 1..Len(s) : s[i] = y}
    <2>1. I \subseteq Nat /\ I # {}
      BY <1>2
    <2> HIDE DEF I
    <2>7. PICK m \in I : \A k \in I : m <= k
      BY <2>1, MinNat
    <2>2. Min(I) \in I
      BY <2>7 DEF Min
    <2>3. RemoveFirst(s, y) = RemoveAt(s, Min(I))
      BY <1>2 DEF RemoveFirst, SelectInSeq, I
    <2>4. PICK m0 \in 1..Len(s) : RemoveFirst(s, y) = SubSeq(s, 1, m0 - 1) \o SubSeq(s, m0 + 1, Len(s))
      BY <2>2, <2>3 DEF RemoveAt, I
    <2>5. SubSeq(s, 1, m0 - 1) \in Seq(S) /\ Len(SubSeq(s, 1, m0 - 1)) = m0 - 1
      BY SubSeqProperties
    <2>6. SubSeq(s, m0 + 1, Len(s)) \in Seq(S) /\ Len(SubSeq(s, m0 + 1, Len(s))) = Len(s) - m0
      BY SubSeqProperties
    <2> DEFINE a == SubSeq(s, 1, m0 - 1)
               b == SubSeq(s, m0 + 1, Len(s))
    <2> HIDE DEF a, b
    <2>8. a \o b \in Seq(S) /\ Len(a \o b) = Len(a) + Len(b)
      BY <2>5, <2>6, ConcatProperties DEF a, b
    <2>9. RemoveFirst(s, y) = a \o b /\ Len(a) = m0 - 1 /\ Len(b) = Len(s) - m0 /\ Len(s) \in Nat /\ m0 \in Nat
      BY <2>4, <2>5, <2>6 DEF a, b
    <2>10. RemoveFirst(s, y) \in Seq(S) /\ Len(RemoveFirst(s, y)) = Len(s) - 1
      BY <2>8, <2>9
    <2> QED BY <1>2, <2>9, <2>10
  <1> QED BY <1>1, <1>2

-----------------------------------------------------------------------------
(* Types.  Besides TypeOK: NULL is in EXIT only, what each statement of a  *)
(* thread has in its locals, and the counter of a waiting queue is its     *)
(* length.                                                                 *)

ConPedido == {"wait", "signal", "busca", "toma", "encola", "saca", "repone"}
ConNombre == {"nombre_wait", "nombre_signal"}
DeAsignar == {"asigna", "asigna_busca", "asigna_toma"}
ConProceso == {"exec", "colas", "saca_cola", "agrega", "libera"} \cup DeAsignar \cup ConNombre

TCola == /\ colas \in [Colas -> Seq(PCB)] /\ contador \in [Colas -> Nat]
         /\ \A c \in Colas \ {"EXIT"} : colas[c] \in Seq(Procesos)
TSem == sem \in [Semaforos -> Nat]
TRec == /\ instancias \in [Recursos -> Nat] /\ contBloqueados \in [Recursos -> Nat]
        /\ bloqueados \in [Recursos -> Seq(Procesos)]
        /\ asignados \in [Procesos -> [Recursos -> Nat]]
        /\ \A r \in Recursos : contBloqueados[r] = Len(bloqueados[r])
HiloBueno(x) ==
    /\ x \in Hilo
    /\ x.paso \in ConPedido => x.p \in Procesos /\ x.r \in Recursos
    /\ x.paso \in ConProceso => x.p \in Procesos
    /\ x.paso \in {"saca_cola", "agrega"} => x.cola # "EXIT"
    /\ x.paso \in DeAsignar => x.q \in Procesos /\ x.r \in Recursos
TFin == /\ pid_a_finalizar \in PCB /\ eliminados \subseteq Procesos /\ resta \in Nat
        /\ hilo \in [HilosFin -> Hilo] /\ \A h \in HilosFin : HiloBueno(hilo[h])
TCpu == /\ programa \in [Procesos -> Programas] /\ PC \in [Procesos -> Nat]
        /\ cpu \in PCB /\ interrupcion_exit \in BOOLEAN
TGra == /\ largo \in BOOLEAN /\ valorGrado \in Nat /\ ajuste \in Int /\ pedido \in Int
        /\ cambios \in Nat /\ bloqueo \in {"espera", "mueve", "guarda"}
TFal == falla \in Fallas
Tipos == TCola /\ TSem /\ TRec /\ TFin /\ TCpu /\ TGra /\ TFal

LEMMA TiposBastan == Tipos => TypeOK
  BY DEF Tipos, TypeOK, TCola, TSem, TRec, TFin, TCpu, TGra, TFal

LEMMA TiposAlInicio == Init => Tipos
  <1> SUFFICES ASSUME Init PROVE Tipos
    OBVIOUS
  <1> USE NuloAssumption, InstanciasAssumption, GradoAssumption, CotasAssumption
  <1>1. TCola
    <2>1. <<>> \in Seq(PCB) /\ <<>> \in Seq(Procesos)
      OBVIOUS
    <2> QED BY <2>1 DEF Init, TCola
  <1>2. TSem
    BY DEF Init, TSem, Semaforos
  <1>3. TRec
    <2>1. <<>> \in Seq(Procesos) /\ Len(<<>>) = 0
      OBVIOUS
    <2> QED BY <2>1 DEF Init, TRec
  <1>4. TFin
    <2>1. HiloBueno(Ocioso) /\ Ocioso \in Hilo
      BY DEF HiloBueno, Ocioso, Hilo, PCB, Colas, ConPedido, ConProceso, DeAsignar, ConNombre
    <2> QED BY <2>1 DEF Init, TFin, PCB
  <1>5. TCpu
    BY DEF Init, TCpu, PCB
  <1>6. TGra
    <2>1. largo = FALSE /\ valorGrado = Grado /\ ajuste = 0 /\ pedido = 0 /\ cambios = MaxCambios
          /\ bloqueo = "espera"
      BY DEF Init
    <2>2. largo \in BOOLEAN
      BY <2>1, Zenon
    <2> QED BY <2>1, <2>2 DEF TGra
  <1>7. TFal
    BY DEF Init, TFal, Fallas
  <1> QED BY <1>1, <1>2, <1>3, <1>4, <1>5, <1>6, <1>7 DEF Tipos

(* What a step leaves alone keeps its type.                                *)
LEMMA Quietos ==
    /\ TCola /\ UNCHANGED vCola => TCola'
    /\ TSem /\ UNCHANGED sem => TSem'
    /\ TRec /\ UNCHANGED vRecurso => TRec'
    /\ TFin /\ UNCHANGED vFin => TFin'
    /\ TCpu /\ UNCHANGED vCpu => TCpu'
    /\ TGra /\ UNCHANGED vGrado => TGra'
    /\ TFal /\ UNCHANGED falla => TFal'
  <1>1. TCola /\ UNCHANGED vCola => TCola'
    BY DEF TCola, vCola
  <1>2. TSem /\ UNCHANGED sem => TSem'
    BY DEF TSem
  <1>3. TRec /\ UNCHANGED vRecurso => TRec'
    BY DEF TRec, vRecurso
  <1>4. TFin /\ UNCHANGED vFin => TFin'
    BY DEF TFin, vFin, HiloBueno
  <1>5. TCpu /\ UNCHANGED vCpu => TCpu'
    BY DEF TCpu, vCpu
  <1>6. TGra /\ UNCHANGED vGrado => TGra'
    BY DEF TGra, vGrado
  <1>7. TFal /\ UNCHANGED falla => TFal'
    BY DEF TFal
  <1> QED BY <1>1, <1>2, <1>3, <1>4, <1>5, <1>6, <1>7

(* The moves between queues.                                               *)
LEMMA TipoMueve ==
    ASSUME TCola, NEW a \in Colas \ {"EXIT"}, NEW b \in Colas, a # b, Mueve(a, b)
    PROVE  TCola' /\ Head(colas[a]) \in Procesos
  <1>1. colas[a] \in Seq(Procesos) /\ colas[a] # <<>> /\ colas[b] \in Seq(PCB)
    BY DEF Mueve, TCola
  <1>2. /\ Head(colas[a]) \in Procesos /\ Tail(colas[a]) \in Seq(Procesos) /\ Tail(colas[a]) \in Seq(PCB)
        /\ Head(colas[a]) \in PCB
    BY <1>1, HeadTailProperties DEF PCB
  <1>3. Append(colas[b], Head(colas[a])) \in Seq(PCB)
    BY <1>1, <1>2, AppendProperties
  <1>4. b # "EXIT" => Append(colas[b], Head(colas[a])) \in Seq(Procesos)
    BY <1>1, <1>2, AppendProperties DEF TCola
  <1> DEFINE t == Tail(colas[a])
             u == Append(colas[b], Head(colas[a]))
  <1>5. colas' = [colas EXCEPT ![a] = t, ![b] = u]
    BY DEF Mueve
  <1> HIDE DEF t, u
  <1>6. contador' \in [Colas -> Nat]
    BY DEF Mueve, TCola
  <1>7. colas' \in [Colas -> Seq(PCB)] /\ \A c \in Colas \ {"EXIT"} : colas'[c] \in Seq(Procesos)
    BY <1>2, <1>3, <1>4, <1>5 DEF TCola, t, u
  <1> QED BY <1>2, <1>6, <1>7 DEF TCola

LEMMA TipoPone ==
    ASSUME TFin, NEW h \in HilosFin, NEW x, HiloBueno(x), Pone(h, x),
           pid_a_finalizar' \in PCB, eliminados' \subseteq Procesos, resta' \in Nat
    PROVE  TFin'
  <1>1. x \in Hilo
    BY DEF HiloBueno
  <1>2. hilo' \in [HilosFin -> Hilo] /\ \A k \in HilosFin : hilo'[k] = x \/ hilo'[k] = hilo[k]
    BY <1>1 DEF Pone, TFin
  <1>3. \A k \in HilosFin : HiloBueno(hilo'[k])
    BY <1>2 DEF TFin
  <1> QED BY <1>2, <1>3 DEF TFin

(* One lemma per kind of operation.                                        *)
LEMMA TiposPlanificadores ==
    ASSUME Tipos, Planificadores PROVE Tipos'
  <1> USE DEF Tipos
  <1>1. CASE LargoToma
    <2>1. TSem'
      BY <1>1 DEF LargoToma, TSem, Semaforos
    <2>2. TGra'
      BY <1>1 DEF LargoToma, TGra
    <2> QED BY <1>1, <2>1, <2>2, Quietos DEF LargoToma
  <1>2. CASE LargoMueve
    <2>1. TCola'
      BY <1>2, TipoMueve DEF LargoMueve, Colas
    <2>2. TGra'
      BY <1>2 DEF LargoMueve, TGra
    <2> QED BY <1>2, <2>1, <2>2, Quietos DEF LargoMueve
  <1>3. CASE CortoPlazo
    <2>1. TCola' /\ Head(colas["READY"]) \in Procesos
      BY <1>3, TipoMueve DEF CortoPlazo, Colas
    <2>2. TSem'
      BY <1>3 DEF CortoPlazo, TSem, Semaforos
    <2>3. TCpu'
      BY <1>3, <2>1 DEF CortoPlazo, TCpu, PCB
    <2>4. TFal'
      BY <1>3 DEF CortoPlazo, TFal, Falla, Fallas
    <2> QED BY <1>3, <2>1, <2>2, <2>3, <2>4, Quietos DEF CortoPlazo
  <1>4. CASE ExecReady
    <2>1. TCola'
      BY <1>4, TipoMueve DEF ExecReady, Colas
    <2>2. TSem'
      BY <1>4 DEF ExecReady, TSem, Semaforos
    <2> QED BY <1>4, <2>1, <2>2, Quietos DEF ExecReady
  <1>5. CASE ExecBlocked
    <2>1. CASE ExecBlockedLibera
      <3>1. TSem'
        BY <2>1 DEF ExecBlockedLibera, TSem, Semaforos
      <3>2. TGra'
        BY <2>1 DEF ExecBlockedLibera, TGra
      <3> QED BY <2>1, <3>1, <3>2, Quietos DEF ExecBlockedLibera
    <2>2. CASE ExecBlockedMueve
      <3>1. TCola'
        BY <2>2, TipoMueve DEF ExecBlockedMueve, Colas
      <3>2. TGra'
        BY <2>2 DEF ExecBlockedMueve, TGra
      <3> QED BY <2>2, <3>1, <3>2, Quietos DEF ExecBlockedMueve
    <2>3. CASE ExecBlockedGuarda
      <3>1. TGra'
        BY <2>3 DEF ExecBlockedGuarda, TGra
      <3> QED BY <2>3, <3>1, Quietos DEF ExecBlockedGuarda
    <2> QED BY <1>5, <2>1, <2>2, <2>3 DEF ExecBlocked
  <1>6. CASE BlockedReady
    <2>1. TCola'
      BY <1>6, TipoMueve DEF BlockedReady, Colas
    <2>2. TSem'
      BY <1>6 DEF BlockedReady, TSem, Semaforos
    <2> QED BY <1>6, <2>1, <2>2, Quietos DEF BlockedReady
  <1>7. CASE ExitLargoPlazo
    <2>1. TCola'
      BY <1>7, TipoMueve DEF ExitLargoPlazo, Colas
    <2>2. TSem'
      BY <1>7 DEF ExitLargoPlazo, TSem, Semaforos
    <2> QED BY <1>7, <2>1, <2>2, Quietos DEF ExitLargoPlazo
  <1> QED BY <1>1, <1>2, <1>3, <1>4, <1>5, <1>6, <1>7 DEF Planificadores

LEMMA TipoPost ==
    ASSUME TSem, NEW s \in Semaforos, Post(s) PROVE TSem'
  BY DEF TSem, Post

LEMMA TipoSale ==
    ASSUME TCpu, NEW p \in Procesos, NEW i, Ejecuta(p, i), cpu' \in PCB, interrupcion_exit' \in BOOLEAN
    PROVE  TCpu'
  BY DEF TCpu, Ejecuta

LEMMA HiloPedido ==
    ASSUME NEW s \in ConNombre, NEW p \in Procesos
    PROVE  HiloBueno([Ocioso EXCEPT !.paso = s, !.p = p])
  BY DEF HiloBueno, Ocioso, Hilo, PCB, Colas, ConPedido, ConProceso, DeAsignar, ConNombre

LEMMA HiloSuelto ==
    /\ HiloBueno(Ocioso) /\ HiloBueno([Ocioso EXCEPT !.paso = "pcb_exec"])
    /\ \A p \in Procesos : HiloBueno([Ocioso EXCEPT !.paso = "exec", !.p = p])
  BY DEF HiloBueno, Ocioso, Hilo, PCB, Colas, ConPedido, ConProceso, DeAsignar, ConNombre

LEMMA HiloEnCola ==
    ASSUME NEW p \in Procesos, NEW c \in Colas \ {"EXIT"}
    PROVE  HiloBueno([Ocioso EXCEPT !.paso = "saca_cola", !.p = p, !.cola = c])
  BY DEF HiloBueno, Ocioso, Hilo, PCB, Colas, ConPedido, ConProceso, DeAsignar, ConNombre

LEMMA HiloLibera ==
    ASSUME NEW p \in Procesos, NEW T \in SUBSET Recursos
    PROVE  HiloBueno([Ocioso EXCEPT !.paso = "libera", !.p = p, !.rs = T])
  BY DEF HiloBueno, Ocioso, Hilo, PCB, Colas, ConPedido, ConProceso, DeAsignar, ConNombre

LEMMA HiloSigue ==
    ASSUME NEW x, HiloBueno(x)
    PROVE  /\ x.paso = "exec" => HiloBueno([x EXCEPT !.paso = "colas"])
           /\ x.paso = "saca_cola" => \A q \in PCB : HiloBueno([x EXCEPT !.paso = "agrega", !.q = q])
           /\ x.paso = "agrega" => \A T \in SUBSET Recursos : HiloBueno([x EXCEPT !.paso = "libera", !.rs = T])
           /\ x.paso = "libera" => \A r \in Recursos : \A q \in Procesos :
                  HiloBueno([x EXCEPT !.paso = "asigna", !.r = r, !.q = q])
  BY DEF HiloBueno, Hilo, PCB, ConPedido, ConProceso, DeAsignar, ConNombre

LEMMA HiloPide ==
    ASSUME NEW x, HiloBueno(x), x.paso \in ConPedido, NEW s \in ConPedido
    PROVE  /\ HiloBueno([x EXCEPT !.paso = s])
           /\ \A b \in BOOLEAN : HiloBueno([x EXCEPT !.paso = s, !.hay = b])
           /\ \A y \in Recursos \cup {NULO} : HiloBueno([x EXCEPT !.paso = s, !.ya = y])
  BY DEF HiloBueno, Hilo, PCB, ConPedido, ConProceso, DeAsignar, ConNombre

LEMMA HiloNombre ==
    ASSUME NEW x, HiloBueno(x), x.paso \in ConNombre
    PROVE  /\ \A s \in ConPedido : \A r \in Recursos : HiloBueno([x EXCEPT !.paso = s, !.r = r])
           /\ HiloBueno([x EXCEPT !.paso = "exec"])
  BY DEF HiloBueno, Hilo, PCB, ConPedido, ConProceso, DeAsignar, ConNombre

LEMMA HiloAsigna ==
    ASSUME NEW x, HiloBueno(x), x.paso \in DeAsignar, NEW s \in DeAsignar \cup {"libera"}
    PROVE  /\ HiloBueno([x EXCEPT !.paso = s])
           /\ \A y \in Recursos \cup {NULO} : HiloBueno([x EXCEPT !.paso = s, !.ya = y])
  BY DEF HiloBueno, Hilo, PCB, ConPedido, ConProceso, DeAsignar, ConNombre

(* A name that no resource has is not an entry of anybody.                 *)
LEMMA TipoAnota ==
    ASSUME TRec, NEW p \in Procesos, NEW x, asignados' = [asignados EXCEPT ![p][x] = @ + 1]
    PROVE  asignados' \in [Procesos -> [Recursos -> Nat]]
  <1> DEFINE g == [asignados[p] EXCEPT ![x] = @ + 1]
  <1>0. PICK a : a = asignados[p]
    OBVIOUS
  <1>1. g \in [Recursos -> Nat]
    <2>1. a \in [Recursos -> Nat] /\ g = [a EXCEPT ![x] = a[x] + 1]
      BY <1>0 DEF TRec
    <2>2. g = [r \in Recursos |-> IF r = x THEN a[x] + 1 ELSE a[r]]
      BY <2>1
    <2>3. \A r \in Recursos : (IF r = x THEN a[x] + 1 ELSE a[r]) \in Nat
      BY <2>1
    <2> HIDE DEF g
    <2> QED BY <2>2, <2>3
  <1>2. asignados' = [asignados EXCEPT ![p] = g]
    OBVIOUS
  <1> HIDE DEF g
  <1> QED BY <1>1, <1>2 DEF TRec

LEMMA TiposCpu ==
    ASSUME Tipos, Cpu PROVE Tipos'
  <1> USE DEF Tipos
  <1>0. "dispatch" \in HilosFin
    BY DEF HilosFin
  <1> SUFFICES ASSUME NEW p \in Procesos,
                      \/ Calcula(p) \/ FinDeQuantum(p) \/ Termina(p) \/ Desincronizado(p) \/ Pisado(p)
                      \/ \E i \in ToSet(programa[p]) : Recibe(p, i)
               PROVE  Tipos'
    BY DEF Cpu
  <1>9. cpu \in PCB /\ NULO \in PCB /\ p \in PCB /\ FALSE \in BOOLEAN
    BY DEF TCpu, PCB
  <1>1. CASE Calcula(p)
    <2>1. TCpu'
      <3>1. interrupcion_exit' \in BOOLEAN
        BY <1>1 DEF Calcula, TCpu
      <3> QED BY <1>1, <1>9, <3>1, TipoSale DEF Calcula
    <2> QED BY <1>1, <2>1, Quietos DEF Calcula
  <1>2. CASE FinDeQuantum(p)
    <2>1. TCpu'
      <3>1. interrupcion_exit' \in BOOLEAN
        BY <1>2 DEF FinDeQuantum, TCpu
      <3> QED BY <1>2, <1>9, <3>1, TipoSale DEF FinDeQuantum, Sale
    <2>2. TSem'
      BY <1>2, TipoPost DEF FinDeQuantum, Semaforos
    <2> QED BY <1>2, <2>1, <2>2, Quietos DEF FinDeQuantum
  <1>3. CASE Termina(p)
    <2>1. TCpu'
      <3>1. interrupcion_exit' \in BOOLEAN
        BY <1>3, <1>9 DEF Termina
      <3> QED BY <1>3, <1>9, <3>1, TipoSale DEF Termina, Sale
    <2>2. TFin'
      <3>1. Pone("dispatch", [Ocioso EXCEPT !.paso = "pcb_exec"]) /\ pid_a_finalizar' = p
            /\ UNCHANGED <<eliminados, resta>>
        BY <1>3 DEF Termina
      <3> QED BY <1>0, <1>9, <3>1, TipoPone, HiloSuelto DEF TFin
    <2>3. TFal'
      BY <1>3 DEF Termina, TFal, Falla, Fallas
    <2> QED BY <1>3, <2>1, <2>2, <2>3, Quietos DEF Termina
  <1>4. CASE Pisado(p)
    <2>1. TCpu'
      <3>1. interrupcion_exit' \in BOOLEAN
        BY <1>4 DEF Pisado, TCpu
      <3> QED BY <1>4, <1>9, <3>1, TipoSale DEF Pisado
    <2>2. TFin'
      <3>1. UNCHANGED vFin
        BY <1>4 DEF Pisado
      <3> QED BY <3>1, Quietos
    <2>3. TFal'
      BY <1>4 DEF Pisado, TFal, Falla, Fallas
    <2> QED BY <1>4, <2>1, <2>2, <2>3, Quietos DEF Pisado
  <1>5. CASE Desincronizado(p)
    <2>1. TCpu'
      <3>1. interrupcion_exit' \in BOOLEAN
        BY <1>5 DEF Desincronizado, TCpu
      <3> QED BY <1>5, <1>9, <3>1, TipoSale DEF Desincronizado, Sale
    <2>2. TFin'
      <3>1. UNCHANGED vFin
        BY <1>5 DEF Desincronizado
      <3> QED BY <3>1, Quietos
    <2>3. TFal'
      BY <1>5 DEF Desincronizado, TFal, Falla, Fallas
    <2> QED BY <1>5, <2>1, <2>2, <2>3, Quietos DEF Desincronizado
  <1>6. ASSUME NEW i \in ToSet(programa[p]), Recibe(p, i) PROVE Tipos'
    <2>1. TCpu'
      <3>1. interrupcion_exit' \in BOOLEAN
        BY <1>6 DEF Recibe, TCpu
      <3> QED BY <1>6, <1>9, <3>1, TipoSale DEF Recibe, Sale
    <2>2. TFin'
      <3>1. PICK s \in ConNombre : Pone("dispatch", [Ocioso EXCEPT !.paso = s, !.p = p])
        BY <1>6 DEF Recibe, ConNombre
      <3>2. UNCHANGED <<pid_a_finalizar, eliminados, resta>>
        BY <1>6 DEF Recibe
      <3> QED BY <1>0, <3>1, <3>2, HiloPedido, TipoPone DEF TFin
    <2>3. TRec'
      BY <1>6 DEF Recibe, TRec
    <2> QED BY <1>6, <2>1, <2>2, <2>3, Quietos DEF Recibe
  <1> QED BY <1>1, <1>2, <1>3, <1>4, <1>5, <1>6

LEMMA TiposDispatch ==
    ASSUME Tipos, Dispatch PROVE Tipos'
  <1> USE DEF Tipos
  <1> DEFINE d == hilo["dispatch"]
  <1>0. "dispatch" \in HilosFin /\ HiloBueno(d) /\ HiloBueno(Ocioso) /\ Ocioso \in Hilo
        /\ pid_a_finalizar \in PCB /\ eliminados \subseteq Procesos /\ resta \in Nat
    BY HiloSuelto DEF HilosFin, TFin, HiloBueno
  <1>1. CASE WaitBusca
    <2>1. d.paso = "busca" /\ UNCHANGED <<pid_a_finalizar, eliminados, resta>>
          /\ \/ UNCHANGED hilo
             \/ Pone("dispatch", [d EXCEPT !.paso = "toma", !.ya = YaTiene(d.p)])
             \/ Sigue("dispatch", "encola")
      BY <1>1 DEF WaitBusca
    <2>2. HiloBueno([d EXCEPT !.paso = "toma", !.ya = YaTiene(d.p)]) /\ HiloBueno([d EXCEPT !.paso = "encola"])
      <3>1. YaTiene(d.p) \in Recursos \cup {NULO}
        BY DEF YaTiene, Tiene
      <3> QED BY <1>0, <2>1, <3>1, HiloPide DEF ConPedido
    <2>3. TFin'
      <3>1. CASE UNCHANGED hilo
        <4>1. UNCHANGED vFin
          BY <2>1, <3>1 DEF vFin
        <4> QED BY <4>1, Quietos
      <3>2. CASE Pone("dispatch", [d EXCEPT !.paso = "toma", !.ya = YaTiene(d.p)])
        BY <1>0, <2>1, <2>2, <3>2, TipoPone
      <3>3. CASE Sigue("dispatch", "encola")
        BY <1>0, <2>1, <2>2, <3>3, TipoPone DEF Sigue
      <3> QED BY <2>1, <3>1, <3>2, <3>3
    <2>4. TSem'
      BY <1>1, TipoPost, Quietos DEF WaitBusca, Semaforos
    <2>5. TFal'
      BY <1>1 DEF WaitBusca, TFal, Falla, Fallas
    <2> QED BY <1>1, <2>3, <2>4, <2>5, Quietos DEF WaitBusca
  <1>2. CASE WaitToma
    <2>1. d.p \in Procesos /\ d.r \in Recursos
      BY <1>0, <1>2 DEF WaitToma, HiloBueno, ConPedido
    <2>2. TRec'
      <3>1. instancias' \in [Recursos -> Nat]
        BY <1>2, <2>1 DEF WaitToma, TRec
      <3>2. asignados' \in [Procesos -> [Recursos -> Nat]]
        BY <1>2, <2>1, TipoAnota DEF WaitToma
      <3> QED BY <1>2, <3>1, <3>2 DEF WaitToma, TRec
    <2>3. TFin'
      BY <1>0, <1>2, TipoPone DEF WaitToma
    <2>4. TCpu'
      BY <1>2, <2>1 DEF WaitToma, TCpu, PCB
    <2>5. TFal'
      BY <1>2 DEF WaitToma, TFal, Falla, Fallas
    <2> QED BY <1>2, <2>2, <2>3, <2>4, <2>5, Quietos DEF WaitToma
  <1>3. CASE WaitEncola
    <2>1. d.p \in Procesos /\ d.r \in Recursos
      BY <1>0, <1>3 DEF WaitEncola, HiloBueno, ConPedido
    <2>2. TRec'
      <3> DEFINE t == Append(bloqueados[d.r], d.p)
      <3>1. t \in Seq(Procesos) /\ Len(t) = Len(bloqueados[d.r]) + 1
        BY <2>1, AppendProperties DEF TRec
      <3>2. bloqueados' = [bloqueados EXCEPT ![d.r] = t]
        BY <1>3 DEF WaitEncola
      <3>3. contBloqueados' = [contBloqueados EXCEPT ![d.r] = @ + 1] /\ UNCHANGED <<instancias, asignados>>
        BY <1>3 DEF WaitEncola
      <3> HIDE DEF t, d
      <3> QED BY <2>1, <3>1, <3>2, <3>3 DEF TRec
    <2>3. TFin'
      BY <1>0, <1>3, TipoPone DEF WaitEncola
    <2> QED BY <1>3, <2>2, <2>3, Quietos DEF WaitEncola
  <1>4. CASE SignalSaca
    <2>1. d.p \in Procesos /\ d.r \in Recursos
      BY <1>0, <1>4 DEF SignalSaca, HiloBueno, ConPedido
    <2>2. TRec'
      <3> DEFINE t == Tail(bloqueados[d.r])
      <3>1. t \in Seq(Procesos) /\ Len(t) = Len(bloqueados[d.r]) - 1 /\ contBloqueados[d.r] > 0
        BY <1>4, <2>1, AlSacar DEF TRec, SignalSaca
      <3>2. bloqueados' = [bloqueados EXCEPT ![d.r] = t]
        BY <1>4 DEF SignalSaca
      <3>3. contBloqueados' = [contBloqueados EXCEPT ![d.r] = @ - 1] /\ UNCHANGED <<instancias, asignados>>
        BY <1>4 DEF SignalSaca
      <3> HIDE DEF t, d
      <3> QED BY <2>1, <3>1, <3>2, <3>3 DEF TRec
    <2>3. TFin'
      <3>1. HiloBueno([d EXCEPT !.paso = "repone"])
        BY <1>0, <1>4, HiloPide DEF SignalSaca, ConPedido
      <3> QED BY <1>0, <1>4, <3>1, TipoPone DEF SignalSaca, Sigue
    <2> QED BY <1>4, <2>2, <2>3, Quietos DEF SignalSaca
  <1>5. CASE SignalRepone
    <2>1. d.p \in Procesos /\ d.r \in Recursos
      BY <1>0, <1>5 DEF SignalRepone, HiloBueno, ConPedido
    <2>2. TRec'
      BY <1>5, <2>1 DEF SignalRepone, TRec
    <2>3. TFin'
      BY <1>0, <1>5, TipoPone DEF SignalRepone
    <2>4. TCpu'
      BY <1>5, <2>1 DEF SignalRepone, TCpu, PCB
    <2> QED BY <1>5, <2>2, <2>3, <2>4, Quietos DEF SignalRepone
  <1>6. CASE PcbExec
    <2>1. UNCHANGED <<pid_a_finalizar, eliminados, resta>>
      BY <1>6 DEF PcbExec
    <2>2. TFin'
      <3>1. CASE UNCHANGED hilo
        <4>1. UNCHANGED vFin
          BY <2>1, <3>1 DEF vFin
        <4> QED BY <4>1, Quietos
      <3>2. CASE /\ pid_a_finalizar \in ToSet(colas["EXEC"]) \ eliminados
                 /\ Pone("dispatch", [Ocioso EXCEPT !.paso = "libera", !.p = pid_a_finalizar,
                                             !.rs = Tiene(pid_a_finalizar)])
        <4>1. colas["EXEC"] \in Seq(Procesos)
          BY DEF TCola, Colas
        <4>2. pid_a_finalizar \in Procesos
          BY <3>2, <4>1 DEF ToSet
        <4>3. Tiene(pid_a_finalizar) \in SUBSET Recursos
          BY DEF Tiene
        <4> QED BY <1>0, <2>1, <3>2, <4>2, <4>3, HiloLibera, TipoPone
      <3> QED BY <1>6, <3>1, <3>2 DEF PcbExec
    <2>3. TFal'
      BY <1>6 DEF PcbExec, TFal, Falla, Fallas
    <2> QED BY <1>6, <2>2, <2>3, Quietos DEF PcbExec
  <1>7. CASE Obtiene
    <2>1. d.paso \in ConNombre /\ nombre_recurso_recibido \in Recursos
      BY <1>7 DEF Obtiene, ConNombre
    <2>2. PICK s \in ConPedido : Pone("dispatch", [d EXCEPT !.paso = s, !.r = nombre_recurso_recibido])
      BY <1>7 DEF Obtiene, ConPedido
    <2>3. TFin'
      <3>1. HiloBueno([d EXCEPT !.paso = s, !.r = nombre_recurso_recibido])
        BY <1>0, <2>1, HiloNombre
      <3>2. UNCHANGED <<pid_a_finalizar, eliminados, resta>>
        BY <1>7 DEF Obtiene
      <3> QED BY <1>0, <2>2, <3>1, <3>2, TipoPone
    <2> QED BY <1>7, <2>3, Quietos DEF Obtiene
  <1>8. CASE RecursoInvalido
    <2>1. d.paso \in ConNombre /\ d.p \in Procesos
      BY <1>0, <1>8 DEF RecursoInvalido, ConNombre, HiloBueno, ConProceso
    <2>2. TFin'
      <3>1. HiloBueno([d EXCEPT !.paso = "exec"])
        BY <1>0, <2>1, HiloNombre
      <3>2. pid_a_finalizar' \in PCB /\ UNCHANGED <<eliminados, resta>>
        BY <1>8, <2>1 DEF RecursoInvalido, PCB
      <3> QED BY <1>0, <1>8, <3>1, <3>2, TipoPone DEF RecursoInvalido, Sigue
    <2> QED BY <1>8, <2>2, Quietos DEF RecursoInvalido
  <1>9. CASE Wait
    <2>1. d.paso \in ConPedido /\ d.p \in Procesos /\ d.p \in PCB
      BY <1>0, <1>9 DEF Wait, ConPedido, HiloBueno, PCB
    <2>2. TFin'
      <3>1. HiloBueno([d EXCEPT !.paso = "busca", !.hay = instancias[d.r] > 0])
        <4>1. (instancias[d.r] > 0) \in BOOLEAN
          OBVIOUS
        <4> QED BY <1>0, <2>1, <4>1, HiloPide DEF ConPedido
      <3>2. pid_a_finalizar' \in PCB /\ UNCHANGED <<eliminados, resta>>
        BY <1>9, <2>1 DEF Wait
      <3> QED BY <1>0, <1>9, <3>1, <3>2, TipoPone DEF Wait
    <2> QED BY <1>9, <2>2, Quietos DEF Wait
  <1>10. CASE Signal
    <2>1. d.paso \in ConPedido /\ UNCHANGED <<pid_a_finalizar, eliminados, resta>>
          /\ (Sigue("dispatch", "saca") \/ Sigue("dispatch", "repone"))
      BY <1>10 DEF Signal, ConPedido
    <2>2. TFin'
      <3>1. HiloBueno([d EXCEPT !.paso = "saca"]) /\ HiloBueno([d EXCEPT !.paso = "repone"])
        BY <1>0, <2>1, HiloPide DEF ConPedido
      <3> QED BY <1>0, <2>1, <3>1, TipoPone DEF Sigue
    <2>3. TSem'
      BY <1>10, TipoPost, Quietos DEF Signal, Semaforos
    <2> QED BY <1>10, <2>2, <2>3, Quietos DEF Signal
  <1> QED BY <1>1, <1>2, <1>3, <1>4, <1>5, <1>6, <1>7, <1>8, <1>9, <1>10 DEF Dispatch

LEMMA TiposFin ==
    ASSUME Tipos, NEW h \in HilosFin, Fin(h) PROVE Tipos'
  <1> USE DEF Tipos
  <1> DEFINE f == hilo[h]
  <1>0. h \in HilosFin /\ HiloBueno(f) /\ HiloBueno(Ocioso) /\ f \in Hilo
        /\ pid_a_finalizar \in PCB /\ eliminados \subseteq Procesos /\ resta \in Nat
    BY HiloSuelto DEF TFin, HiloBueno
  <1>1. CASE BuscaExec(h)
    <2>1. f.p \in Procesos /\ f.p \in PCB /\ f.paso = "exec"
      BY <1>0, <1>1 DEF BuscaExec, HiloBueno, ConProceso, PCB, En
    <2>2. HiloBueno([f EXCEPT !.paso = "colas"])
      BY <1>0, <2>1, HiloSigue
    <2>3. TFin'
      <3>1. pid_a_finalizar' \in PCB /\ UNCHANGED <<eliminados, resta>>
        BY <1>0, <1>1, <2>1 DEF BuscaExec
      <3>2. Pone(h, Ocioso) \/ Pone(h, [f EXCEPT !.paso = "colas"])
        BY <1>1 DEF BuscaExec, Sigue
      <3> QED BY <1>0, <2>2, <3>1, <3>2, TipoPone
    <2>4. TSem'
      BY <1>1, TipoPost, Quietos DEF BuscaExec, Semaforos
    <2>5. TCpu'
      BY <1>1 DEF BuscaExec, TCpu
    <2> QED BY <1>1, <2>3, <2>4, <2>5, Quietos DEF BuscaExec
  <1>2. CASE BuscaColas(h)
    <2>1. UNCHANGED <<pid_a_finalizar, eliminados, resta>>
      BY <1>2 DEF BuscaColas
    <2>2. TFin'
      <3>1. CASE Pone(h, Ocioso)
        BY <1>0, <2>1, <3>1, TipoPone
      <3>2. ASSUME NEW c \in Encuentra,
                   Pone(h, [Ocioso EXCEPT !.paso = "saca_cola", !.p = pid_a_finalizar, !.cola = c])
            PROVE  TFin'
        <4>1. c \in Colas \ {"EXIT"} /\ pid_a_finalizar \in ToSet(colas[c])
          BY DEF Encuentra
        <4>2. colas[c] \in Seq(Procesos)
          BY <4>1 DEF TCola
        <4>3. pid_a_finalizar \in Procesos
          BY <4>1, <4>2 DEF ToSet
        <4> QED BY <1>0, <2>1, <3>2, <4>1, <4>3, HiloEnCola, TipoPone
      <3> QED BY <1>2, <3>1, <3>2 DEF BuscaColas
    <2>3. TSem'
      BY <1>2, TipoPost, Quietos DEF BuscaColas, Semaforos
    <2> QED BY <1>2, <2>2, <2>3, Quietos DEF BuscaColas
  <1>3. CASE SacaCola(h)
    <2>1. f.paso = "saca_cola" /\ f.p \in Procesos /\ f.p \in PCB /\ f.cola \in Colas \ {"EXIT"} /\ NULO \in PCB
      BY <1>0, <1>3 DEF SacaCola, HiloBueno, Hilo, ConProceso, PCB
    <2>2. TFin'
      <3>1. PICK q \in PCB : Pone(h, [f EXCEPT !.paso = "agrega", !.q = q])
        BY <1>3, <2>1 DEF SacaCola
      <3>2. HiloBueno([f EXCEPT !.paso = "agrega", !.q = q])
        BY <1>0, <2>1, HiloSigue
      <3>3. UNCHANGED <<pid_a_finalizar, eliminados, resta>>
        BY <1>3 DEF SacaCola
      <3> QED BY <1>0, <3>1, <3>2, <3>3, TipoPone
    <2>3. TCola'
      <3> DEFINE t == RemoveFirst(colas[f.cola], f.p)
      <3>1. colas[f.cola] \in Seq(Procesos) /\ colas[f.cola] \in Seq(PCB)
        BY <2>1 DEF TCola
      <3>2. t \in Seq(Procesos) /\ t \in Seq(PCB)
        BY <3>1, AlQuitar
      <3>3. colas' = [colas EXCEPT ![f.cola] = t] /\ contador' = [contador EXCEPT ![f.cola] = @ - 1]
            /\ contador[f.cola] > 0
        BY <1>3 DEF SacaCola
      <3> HIDE DEF t, f
      <3> QED BY <2>1, <3>2, <3>3 DEF TCola
    <2> QED BY <1>3, <2>2, <2>3, Quietos DEF SacaCola
  <1>4. CASE Agrega(h)
    <2>1. f.paso = "agrega" /\ f.q \in PCB
      BY <1>0, <1>4 DEF Agrega, Hilo
    <2>2. TFin'
      <3>1. Tiene(f.p) \in SUBSET Recursos
        BY DEF Tiene
      <3>2. HiloBueno([f EXCEPT !.paso = "libera", !.rs = Tiene(f.p)])
        BY <1>0, <2>1, <3>1, HiloSigue
      <3> QED BY <1>0, <1>4, <3>2, TipoPone DEF Agrega
    <2>3. TCola'
      <3> DEFINE t == Append(colas["EXIT"], f.q)
      <3>1. t \in Seq(PCB)
        BY <2>1, AppendProperties DEF TCola, Colas
      <3>2. colas' = [colas EXCEPT !["EXIT"] = t] /\ contador' = [contador EXCEPT !["EXIT"] = @ + 1]
        BY <1>4 DEF Agrega
      <3> HIDE DEF t, f
      <3> QED BY <3>1, <3>2 DEF TCola, Colas
    <2>4. TSem'
      BY <1>4 DEF Agrega, TSem, Semaforos
    <2> QED BY <1>4, <2>2, <2>3, <2>4, Quietos DEF Agrega
  <1>5. CASE AsignaNombre(h)
    <2>1. f.paso \in DeAsignar /\ UNCHANGED <<pid_a_finalizar, eliminados, resta>>
      BY <1>5 DEF AsignaNombre, En, DeAsignar
    <2>2. TFin'
      <3>1. HiloBueno([f EXCEPT !.paso = "asigna_busca"])
        BY <1>0, <2>1, HiloAsigna DEF DeAsignar
      <3> QED BY <1>0, <1>5, <2>1, <3>1, TipoPone DEF AsignaNombre, Sigue
    <2>3. TRec'
      BY <1>5 DEF AsignaNombre, TRec
    <2> QED BY <1>5, <2>2, <2>3, Quietos DEF AsignaNombre
  <1>8. CASE AsignaBusca(h)
    <2>1. f.paso \in DeAsignar /\ UNCHANGED <<pid_a_finalizar, eliminados, resta>>
          /\ YaTiene(f.q) \in Recursos \cup {NULO}
      BY <1>8 DEF AsignaBusca, En, DeAsignar, YaTiene, Tiene
    <2>2. TFin'
      <3>1. HiloBueno([f EXCEPT !.paso = "asigna_toma", !.ya = YaTiene(f.q)])
        BY <1>0, <2>1, HiloAsigna DEF DeAsignar
      <3> QED BY <1>0, <1>8, <2>1, <3>1, TipoPone DEF AsignaBusca
    <2> QED BY <1>8, <2>2, Quietos DEF AsignaBusca
  <1>9. CASE AsignaToma(h)
    <2>1. f.paso \in DeAsignar /\ f.q \in Procesos /\ f.r \in Recursos
      BY <1>0, <1>9 DEF AsignaToma, HiloBueno, DeAsignar
    <2>2. TFin'
      <3>1. HiloBueno([f EXCEPT !.paso = "libera"])
        BY <1>0, <2>1, HiloAsigna
      <3> QED BY <1>0, <1>9, <3>1, TipoPone DEF AsignaToma, Sigue
    <2>3. TRec'
      <3>1. instancias' \in [Recursos -> Nat]
        BY <1>9, <2>1 DEF AsignaToma, TRec
      <3>2. asignados' \in [Procesos -> [Recursos -> Nat]]
        BY <1>9, <2>1, TipoAnota DEF AsignaToma
      <3> QED BY <1>9, <3>1, <3>2 DEF AsignaToma, TRec
    <2>4. TSem'
      BY <1>9, TipoPost DEF AsignaToma, Semaforos
    <2> QED BY <1>9, <2>2, <2>3, <2>4, Quietos DEF AsignaToma
  <1>6. CASE Elimina(h)
    <2>1. f.p \in Procesos
      BY <1>0, <1>6 DEF Elimina, En, HiloBueno, ConProceso
    <2>2. TFin'
      BY <1>0, <1>6, <2>1, TipoPone DEF Elimina
    <2>3. TSem'
      BY <1>6, TipoPost, Quietos DEF Elimina, Semaforos
    <2> QED BY <1>6, <2>2, <2>3, Quietos DEF Elimina
  <1>7. ASSUME NEW r \in Recursos, Devuelve(h, r) PROVE Tipos'
    <2> DEFINE b == bloqueados[r]
               queda == SinPropias(b, f.p)
    <2>1. f.paso = "libera" /\ f.p \in Procesos /\ asignados[f.p][r] > 0
      BY <1>0, <1>7 DEF Devuelve, En, HiloBueno, ConProceso
    <2>2. b \in Seq(Procesos) /\ queda \in Seq(Procesos) /\ Len(queda) <= Len(b) /\ contBloqueados[r] = Len(b)
          /\ Len(queda) \in Nat /\ Len(b) \in Nat
      BY PropiasQuitadas DEF TRec
    <2>3. TRec'
      <3>1. /\ asignados' = [asignados EXCEPT ![f.p][r] = @ - 1]
            /\ instancias' = [instancias EXCEPT ![r] = @ + 1]
            /\ bloqueados' = [bloqueados EXCEPT ![r] = queda]
            /\ contBloqueados' = [contBloqueados EXCEPT ![r] = @ - (Len(b) - Len(queda))]
        BY <1>7 DEF Devuelve
      <3> HIDE DEF b, queda, f
      <3>2. asignados' \in [Procesos -> [Recursos -> Nat]]
        BY <2>1, <3>1 DEF TRec
      <3>3. contBloqueados' = [contBloqueados EXCEPT ![r] = Len(queda)]
        BY <2>2, <3>1 DEF TRec
      <3> QED BY <2>2, <3>1, <3>2, <3>3 DEF TRec
    <2>4. TFin'
      <3>1. UNCHANGED <<pid_a_finalizar, eliminados, resta>>
        BY <1>7 DEF Devuelve
      <3>2. CASE UNCHANGED hilo
        <4>1. UNCHANGED vFin
          BY <3>1, <3>2 DEF vFin
        <4> QED BY <4>1, Quietos
      <3>3. CASE queda # <<>> /\ Pone(h, [f EXCEPT !.paso = "asigna", !.r = r, !.q = Head(queda)])
        <4>1. Head(queda) \in Procesos
          BY <2>2, <3>3, HeadTailProperties
        <4>2. HiloBueno([f EXCEPT !.paso = "asigna", !.r = r, !.q = Head(queda)])
          BY <1>0, <2>1, <4>1, HiloSigue
        <4> QED BY <1>0, <3>1, <3>3, <4>2, TipoPone
      <3> QED BY <1>7, <3>2, <3>3 DEF Devuelve
    <2>5. TFal'
      BY <1>7 DEF Devuelve, TFal, Falla, Fallas
    <2> QED BY <1>7, <2>3, <2>4, <2>5, Quietos DEF Devuelve
  <1> QED BY <1>1, <1>2, <1>3, <1>4, <1>5, <1>6, <1>7, <1>8, <1>9 DEF Fin

LEMMA TiposOperador ==
    ASSUME Tipos, Operador \/ ManejaLee \/ ManejaUno PROVE Tipos'
  <1> USE DEF Tipos
  <1>1. ASSUME NEW p \in Procesos, IniciarProceso(p) PROVE Tipos'
    <2>1. TCola'
      <3> DEFINE t == Append(colas["NEW"], p)
      <3>1. t \in Seq(PCB) /\ t \in Seq(Procesos)
        BY AppendProperties DEF TCola, Colas, PCB
      <3>2. colas' = [colas EXCEPT !["NEW"] = t] /\ contador' = [contador EXCEPT !["NEW"] = @ + 1]
        BY <1>1 DEF IniciarProceso
      <3> HIDE DEF t
      <3> QED BY <3>1, <3>2 DEF TCola, Colas
    <2>2. TSem'
      BY <1>1, TipoPost DEF IniciarProceso, Semaforos
    <2> QED BY <1>1, <2>1, <2>2, Quietos DEF IniciarProceso
  <1>2. ASSUME NEW p \in Procesos, Finalizar(p) PROVE Tipos'
    <2>1. HiloBueno([Ocioso EXCEPT !.paso = "exec", !.p = p]) /\ p \in PCB /\ "consola" \in HilosFin
      BY HiloSuelto DEF PCB, HilosFin
    <2>2. pid_a_finalizar' \in PCB /\ eliminados' \subseteq Procesos /\ resta' \in Nat
          /\ Pone("consola", [Ocioso EXCEPT !.paso = "exec", !.p = p])
      BY <1>2, <2>1 DEF Finalizar, TFin
    <2>3. TFin'
      BY <2>1, <2>2, TipoPone
    <2> QED BY <1>2, <2>3, Quietos DEF Finalizar
  <1>3. ASSUME NEW v \in NuevosGrados, Multiprogramacion(v) PROVE Tipos'
    <2>1. TSem'
      BY <1>3, TipoPost DEF Multiprogramacion, Semaforos
    <2>2. TGra'
      BY <1>3, GradoAssumption DEF Multiprogramacion, TGra
    <2> QED BY <1>3, <2>1, <2>2, Quietos DEF Multiprogramacion
  <1>4. CASE ManejaLee
    <2>1. TSem'
      BY <1>4 DEF ManejaLee, TSem, Semaforos
    <2>2. TGra'
      BY <1>4, GradoAssumption DEF ManejaLee, TGra
    <2> QED BY <1>4, <2>1, <2>2, Quietos DEF ManejaLee
  <1>5. CASE ManejaUno
    <2>1. TSem'
      BY <1>5 DEF ManejaUno, TSem, Semaforos
    <2>2. TGra'
      BY <1>5 DEF ManejaUno, TGra
    <2> QED BY <1>5, <2>1, <2>2, Quietos DEF ManejaUno
  <1> QED BY <1>1, <1>2, <1>3, <1>4, <1>5 DEF Operador

LEMMA TiposSiempre ==
    ASSUME Tipos, [Next]_vars PROVE Tipos'
  <1>1. CASE UNCHANGED vars
    BY <1>1, Quietos DEF vars, Tipos
  <1>2. CASE Next
    <2>1. "dispatch" \in HilosFin /\ "consola" \in HilosFin
      BY DEF HilosFin
    <2> QED BY <1>2, <2>1, TiposPlanificadores, TiposCpu, TiposDispatch, TiposFin, TiposOperador DEF Next
  <1> QED BY <1>1, <1>2

(* Every variable keeps its type, for any processes, resources, programs   *)
(* and commands: no semaphore, no count of instances and no counter of a   *)
(* waiting queue, from which the end of a process subtracts what it takes, *)
(* goes below zero.                                                        *)
THEOREM TiposDeLosRecursos == Spec => []TypeOK
  <1>1. Spec => []Tipos
    BY TiposAlInicio, TiposSiempre, PTL DEF Spec
  <1> QED BY <1>1, TiposBastan, PTL

-----------------------------------------------------------------------------
(* The commands of the console, and the name left in the global.           *)

(* A command, once used, stays used; and the programs stay.                *)
LEMMA Comandos ==
    ASSUME Tipos, Next
    PROVE  programa' = programa /\ resta' \in Int /\ resta' <= resta /\ resta \in Int
  <1>1. resta \in Nat
    BY DEF Tipos, TFin
  <1>2. programa' = programa
    <2>1. Cpu => programa' = programa
      BY DEF Cpu, Calcula, FinDeQuantum, Termina, Desincronizado, Pisado, Recibe, Sale, Ejecuta
    <2>2. Dispatch => programa' = programa
      BY DEF Dispatch, Obtiene, RecursoInvalido, Wait, Signal, WaitBusca, WaitToma, WaitEncola, SignalSaca,
             SignalRepone, PcbExec, vCpu
    <2>3. \A h : Fin(h) => programa' = programa
      BY DEF Fin, BuscaExec, BuscaColas, SacaCola, Agrega, Devuelve, AsignaNombre, AsignaBusca, AsignaToma,
             Elimina, vCpu
    <2>4. Operador \/ Planificadores \/ ManejaLee \/ ManejaUno => programa' = programa
      BY DEF Operador, IniciarProceso, Finalizar, Multiprogramacion, Planificadores, LargoToma, LargoMueve,
             CortoPlazo, ExecReady, ExecBlocked, ExecBlockedLibera, ExecBlockedMueve, ExecBlockedGuarda,
             BlockedReady, ExitLargoPlazo, ManejaLee, ManejaUno, vCpu
    <2> QED BY <2>1, <2>2, <2>3, <2>4 DEF Next
  <1>3. resta' = resta \/ resta' = resta - 1
    <2>1. Cpu => resta' = resta
      BY DEF Cpu, Calcula, FinDeQuantum, Termina, Desincronizado, Pisado, Recibe, vFin
    <2>2. Dispatch => resta' = resta
      BY DEF Dispatch, Obtiene, RecursoInvalido, Wait, Signal, WaitBusca, WaitToma, WaitEncola, SignalSaca,
             SignalRepone, PcbExec, vFin
    <2>3. \A h : Fin(h) => resta' = resta
      BY DEF Fin, BuscaExec, BuscaColas, SacaCola, Agrega, Devuelve, AsignaNombre, AsignaBusca, AsignaToma,
             Elimina, vFin
    <2>4. Operador \/ Planificadores \/ ManejaLee \/ ManejaUno => resta' = resta \/ resta' = resta - 1
      BY DEF Operador, IniciarProceso, Finalizar, Multiprogramacion, Planificadores, LargoToma, LargoMueve,
             CortoPlazo, ExecReady, ExecBlocked, ExecBlockedLibera, ExecBlockedMueve, ExecBlockedGuarda,
             BlockedReady, ExitLargoPlazo, ManejaLee, ManejaUno, vFin
    <2> QED BY <2>1, <2>2, <2>3, <2>4 DEF Next
  <1> QED BY <1>1, <1>2, <1>3

(* The console, once used, stays used.                                     *)
LEMMA SinConsolaAntes ==
    ASSUME Tipos, Next, resta <= MaxFinalizar, SinConsola'
    PROVE  SinConsola /\ resta' = resta /\ falla = "ninguna" /\ falla' = "ninguna"
  <1>1. /\ resta' = MaxFinalizar /\ falla' = "ninguna" /\ falla = "ninguna"
        /\ resta' <= resta /\ resta \in Int /\ MaxFinalizar \in Int
    BY Comandos, CotasAssumption DEF SinConsola, Next
  <1> QED BY <1>1 DEF SinConsola

(* From the moment a thread has left a name in the global there is one, and*)
(* it is a resource's when no program names another thing.  While nobody   *)
(* was ended from the console, it is the name of the resource that the     *)
(* dispatch thread is at, and the entry it found is of that resource.      *)
Nombrado == ConNombre \cup ConPedido \cup {"asigna_busca", "asigna_toma"}
DelNombre(x) ==
    /\ x.paso \in ConPedido \cup {"asigna_busca", "asigna_toma"} => nombre_recurso_recibido = x.r
    /\ x.paso \in {"toma", "asigna_toma"} => x.ya \in {NULO, x.r}
Nombres ==
    /\ RecursosValidos => \A h \in HilosFin : hilo[h].paso \in Nombrado => nombre_recurso_recibido \in Recursos
    /\ resta <= MaxFinalizar
    /\ resta = MaxFinalizar => hilo["consola"].paso = "libre" /\ DelNombre(hilo["dispatch"])

LEMMA NombresAlInicio == Init => Nombres
  <1> SUFFICES ASSUME Init PROVE Nombres
    OBVIOUS
  <1>1. \A h \in HilosFin : hilo[h].paso = "libre"
    BY DEF Init, Ocioso
  <1>2. "libre" \notin Nombrado /\ "libre" \notin ConPedido
    BY DEF Nombrado, ConNombre, ConPedido
  <1>3. "dispatch" \in HilosFin /\ "consola" \in HilosFin
    BY DEF HilosFin
  <1>4. resta = MaxFinalizar /\ MaxFinalizar \in Nat
    BY CotasAssumption DEF Init
  <1> QED BY <1>1, <1>2, <1>3, <1>4 DEF Nombres, DelNombre

LEMMA NombresQuietos ==
    ASSUME Nombres, UNCHANGED <<nombre_recurso_recibido, programa, resta, hilo>> PROVE Nombres'
  BY DEF Nombres, RecursosValidos, DelNombre

LEMMA NombresPone ==
    ASSUME Tipos, Nombres, NEW h \in HilosFin, NEW x, Pone(h, x),
           UNCHANGED <<nombre_recurso_recibido, programa, resta>>,
           hilo[h].paso # "libre", x.paso \in Nombrado => hilo[h].paso \in Nombrado,
           h = "dispatch" /\ DelNombre(hilo[h]) => DelNombre(x)
    PROVE  Nombres'
  <1>1. /\ hilo'[h] = x
        /\ \A k \in HilosFin : k # h => hilo'[k] = hilo[k]
    BY DEF Pone, Tipos, TFin
  <1>2. RecursosValidos' <=> RecursosValidos
    BY DEF RecursosValidos
  <1>3. RecursosValidos' => \A k \in HilosFin : hilo'[k].paso \in Nombrado => nombre_recurso_recibido' \in Recursos
    BY <1>1, <1>2 DEF Nombres
  <1>4. resta' = MaxFinalizar => hilo'["consola"].paso = "libre" /\ DelNombre(hilo["dispatch"])'
    <2> SUFFICES ASSUME resta' = MaxFinalizar
                 PROVE  hilo'["consola"].paso = "libre" /\ DelNombre(hilo["dispatch"])'
      OBVIOUS
    <2>1. hilo["consola"].paso = "libre" /\ DelNombre(hilo["dispatch"])
      BY DEF Nombres
    <2>2. h = "dispatch"
      BY <2>1 DEF HilosFin
    <2>3. hilo'["dispatch"] = x /\ hilo'["consola"] = hilo["consola"]
      BY <1>1, <2>2 DEF HilosFin
    <2>4. DelNombre(x)
      BY <2>1, <2>2
    <2> QED BY <2>1, <2>3, <2>4 DEF DelNombre
  <1> QED BY <1>3, <1>4 DEF Nombres

LEMMA NombresCpu ==
    ASSUME Tipos, Nombres, Cpu PROVE Nombres'
  <1>0. "dispatch" \in HilosFin /\ "consola" \in HilosFin
    BY DEF HilosFin
  <1> SUFFICES ASSUME NEW p \in Procesos,
                      \/ Calcula(p) \/ FinDeQuantum(p) \/ Termina(p) \/ Desincronizado(p) \/ Pisado(p)
                      \/ \E i \in ToSet(programa[p]) : Recibe(p, i)
               PROVE  Nombres'
    BY DEF Cpu
  <1>1. CASE Calcula(p) \/ FinDeQuantum(p) \/ Desincronizado(p) \/ Pisado(p)
    <2>1. UNCHANGED <<nombre_recurso_recibido, programa, resta, hilo>>
      BY <1>1 DEF Calcula, FinDeQuantum, Desincronizado, Pisado, Sale, Ejecuta, vRecurso, vFin
    <2> QED BY <2>1, NombresQuietos
  <1>2. ASSUME UNCHANGED <<programa, resta>>, NEW s \in ConNombre \cup {"pcb_exec"}, NEW x, x.paso = s,
               Pone("dispatch", x),
               s = "pcb_exec" \/ (RecursosValidos => nombre_recurso_recibido' \in Recursos),
               s = "pcb_exec" => UNCHANGED nombre_recurso_recibido
        PROVE  Nombres'
    <2>1. RecursosValidos' <=> RecursosValidos
      BY <1>2 DEF RecursosValidos
    <2>2. hilo'["dispatch"] = x /\ hilo'["consola"] = hilo["consola"]
      BY <1>0, <1>2 DEF Pone, Tipos, TFin
    <2>3. "pcb_exec" \notin Nombrado /\ s \notin ConPedido \cup {"asigna_busca", "asigna_toma"}
      BY DEF Nombrado, ConNombre, ConPedido
    <2>4. RecursosValidos' => \A k \in HilosFin : hilo'[k].paso \in Nombrado => nombre_recurso_recibido' \in Recursos
      <3> SUFFICES ASSUME RecursosValidos, NEW k \in HilosFin, hilo'[k].paso \in Nombrado
                   PROVE  nombre_recurso_recibido' \in Recursos
        BY <2>1
      <3>1. CASE s = "pcb_exec"
        <4>1. k = "consola"
          BY <1>2, <2>2, <2>3, <3>1 DEF HilosFin
        <4> QED BY <1>2, <2>2, <3>1, <4>1 DEF Nombres
      <3> QED BY <1>2, <3>1
    <2>5. DelNombre(hilo["dispatch"])'
      <3>1. s \notin {"toma", "asigna_toma"}
        BY DEF ConNombre
      <3> QED BY <1>2, <2>2, <2>3, <3>1 DEF DelNombre
    <2> QED BY <1>2, <2>2, <2>4, <2>5 DEF Nombres
  <1>3. CASE Termina(p)
    <2>1. UNCHANGED <<nombre_recurso_recibido, programa, resta>>
          /\ Pone("dispatch", [Ocioso EXCEPT !.paso = "pcb_exec"])
      BY <1>3 DEF Termina, Sale, Ejecuta, vRecurso
    <2>2. [Ocioso EXCEPT !.paso = "pcb_exec"].paso = "pcb_exec"
      BY DEF Ocioso
    <2> QED BY <1>2, <2>1, <2>2
  <1>4. ASSUME NEW i \in ToSet(programa[p]), Recibe(p, i) PROVE Nombres'
    <2>1. UNCHANGED <<programa, resta>> /\ nombre_recurso_recibido' = i.r /\ i.op \in {"WAIT", "SIGNAL"}
      BY <1>4 DEF Recibe, Sale, Ejecuta
    <2>2. PICK s \in ConNombre : Pone("dispatch", [Ocioso EXCEPT !.paso = s, !.p = p])
      BY <1>4 DEF Recibe, ConNombre
    <2>3. [Ocioso EXCEPT !.paso = s, !.p = p].paso = s
      BY DEF Ocioso
    <2>4. RecursosValidos => nombre_recurso_recibido' \in Recursos
      BY <1>4, <2>1 DEF RecursosValidos
    <2>5. s # "pcb_exec"
      BY DEF ConNombre
    <2> QED BY <1>2, <2>1, <2>2, <2>3, <2>4, <2>5
  <1> QED BY <1>1, <1>3, <1>4

LEMMA NombresDispatch ==
    ASSUME Tipos, Nombres, Dispatch PROVE Nombres'
  <1> DEFINE d == hilo["dispatch"]
  <1>0. "dispatch" \in HilosFin /\ d \in Hilo /\ HiloBueno(d) /\ Ocioso.paso = "libre"
    BY DEF HilosFin, Tipos, TFin, Ocioso
  <1>n. UNCHANGED <<programa, resta, nombre_recurso_recibido>>
    BY DEF Dispatch, Obtiene, RecursoInvalido, Wait, Signal, WaitBusca, WaitToma, WaitEncola, SignalSaca,
           SignalRepone, PcbExec, vCpu, vFin, vRecurso
  <1>l. "libre" \notin Nombrado /\ "exec" \notin Nombrado /\ "libera" \notin Nombrado
        /\ ConPedido \subseteq Nombrado /\ ConNombre \subseteq Nombrado /\ ConNombre \cap ConPedido = {}
    BY DEF Nombrado, ConNombre, ConPedido
  <1>1. CASE Obtiene
    <2>1. d.paso \in ConNombre
      BY <1>1 DEF Obtiene, ConNombre
    <2>2. PICK s \in {"wait", "signal"} : Pone("dispatch", [d EXCEPT !.paso = s, !.r = nombre_recurso_recibido])
      BY <1>1 DEF Obtiene
    <2>3. DelNombre([d EXCEPT !.paso = s, !.r = nombre_recurso_recibido])
      BY <1>0 DEF DelNombre, Hilo
    <2>4. d.paso # "libre"
      BY <2>1 DEF ConNombre
    <2> QED BY <1>0, <1>n, <1>l, <2>1, <2>2, <2>3, <2>4, NombresPone
  <1>2. CASE RecursoInvalido
    <2>1. d.paso # "libre" /\ Pone("dispatch", [d EXCEPT !.paso = "exec"])
      BY <1>2 DEF RecursoInvalido, Sigue
    <2>2. [d EXCEPT !.paso = "exec"].paso = "exec"
      BY <1>0 DEF Hilo
    <2>3. DelNombre([d EXCEPT !.paso = "exec"])
      BY <2>2 DEF DelNombre, ConPedido
    <2> QED BY <1>0, <1>n, <1>l, <2>1, <2>2, <2>3, NombresPone
  <1>3. CASE Wait
    <2> DEFINE x == [d EXCEPT !.paso = "busca", !.hay = instancias[d.r] > 0]
    <2>1. d.paso = "wait" /\ Pone("dispatch", x)
      BY <1>3 DEF Wait
    <2>2. x.paso = "busca" /\ x.r = d.r
      BY <1>0 DEF Hilo
    <2> HIDE DEF x
    <2>3. DelNombre(d) => DelNombre(x)
      BY <2>1, <2>2 DEF DelNombre, ConPedido
    <2> QED BY <1>0, <1>n, <2>1, <2>2, <2>3, NombresPone DEF Nombrado, ConPedido
  <1>4. CASE Signal
    <2>1. PICK s \in {"saca", "repone"} : d.paso = "signal" /\ Pone("dispatch", [d EXCEPT !.paso = s])
      BY <1>4 DEF Signal, Sigue
    <2> DEFINE x == [d EXCEPT !.paso = s]
    <2>2. x.paso = s /\ x.r = d.r
      BY <1>0 DEF Hilo
    <2> HIDE DEF x
    <2>3. DelNombre(d) => DelNombre(x)
      BY <2>1, <2>2 DEF DelNombre, ConPedido
    <2>4. Pone("dispatch", x)
      BY <2>1 DEF x
    <2> QED BY <1>0, <1>n, <2>1, <2>2, <2>3, <2>4, NombresPone DEF Nombrado, ConPedido
  <1>5. CASE WaitBusca
    <2>1. d.paso = "busca"
      BY <1>5 DEF WaitBusca
    <2>2. CASE UNCHANGED hilo
      BY <1>n, <2>2, NombresQuietos
    <2>3. CASE Pone("dispatch", [d EXCEPT !.paso = "toma", !.ya = YaTiene(d.p)])
      <3> DEFINE x == [d EXCEPT !.paso = "toma", !.ya = YaTiene(d.p)]
      <3>1. x.paso = "toma" /\ x.r = d.r /\ x.ya = YaTiene(d.p)
        BY <1>0 DEF Hilo
      <3>2. Pone("dispatch", x)
        BY <2>3
      <3> HIDE DEF x
      <3>3. DelNombre(d) => DelNombre(x)
        BY <2>1, <3>1 DEF DelNombre, ConPedido, YaTiene
      <3> QED BY <1>0, <1>n, <2>1, <3>1, <3>2, <3>3, NombresPone DEF Nombrado, ConPedido
    <2>4. CASE Sigue("dispatch", "encola")
      <3> DEFINE x == [d EXCEPT !.paso = "encola"]
      <3>1. x.paso = "encola" /\ x.r = d.r
        BY <1>0 DEF Hilo
      <3>2. Pone("dispatch", x)
        BY <2>4 DEF Sigue
      <3> HIDE DEF x
      <3>3. DelNombre(d) => DelNombre(x)
        BY <2>1, <3>1 DEF DelNombre, ConPedido
      <3> QED BY <1>0, <1>n, <2>1, <3>1, <3>2, <3>3, NombresPone DEF Nombrado, ConPedido
    <2> QED BY <1>5, <2>2, <2>3, <2>4 DEF WaitBusca
  <1>6. CASE WaitToma \/ WaitEncola \/ SignalRepone
    <2>1. d.paso # "libre" /\ Pone("dispatch", Ocioso)
      BY <1>6 DEF WaitToma, WaitEncola, SignalRepone
    <2>2. DelNombre(Ocioso)
      BY <1>0 DEF DelNombre, ConPedido
    <2> QED BY <1>0, <1>n, <1>l, <2>1, <2>2, NombresPone
  <1>7. CASE SignalSaca
    <2> DEFINE x == [d EXCEPT !.paso = "repone"]
    <2>1. d.paso = "saca" /\ Pone("dispatch", x)
      BY <1>7 DEF SignalSaca, Sigue
    <2>2. x.paso = "repone" /\ x.r = d.r
      BY <1>0 DEF Hilo
    <2> HIDE DEF x
    <2>3. DelNombre(d) => DelNombre(x)
      BY <2>1, <2>2 DEF DelNombre, ConPedido
    <2> QED BY <1>0, <1>n, <2>1, <2>2, <2>3, NombresPone DEF Nombrado, ConPedido
  <1>8. CASE PcbExec
    <2>1. d.paso = "pcb_exec"
      BY <1>8 DEF PcbExec, En
    <2>2. CASE UNCHANGED hilo
      BY <1>n, <2>2, NombresQuietos
    <2>3. CASE Pone("dispatch", [Ocioso EXCEPT !.paso = "libera", !.p = pid_a_finalizar,
                                             !.rs = Tiene(pid_a_finalizar)])
      <3> DEFINE x == [Ocioso EXCEPT !.paso = "libera", !.p = pid_a_finalizar, !.rs = Tiene(pid_a_finalizar)]
      <3>1. x.paso = "libera"
        BY DEF Ocioso
      <3>2. Pone("dispatch", x)
        BY <2>3
      <3> HIDE DEF x
      <3>3. DelNombre(x)
        BY <3>1 DEF DelNombre, ConPedido
      <3> QED BY <1>0, <1>n, <1>l, <2>1, <3>1, <3>2, <3>3, NombresPone
    <2> QED BY <1>8, <2>2, <2>3 DEF PcbExec
  <1> QED BY <1>1, <1>2, <1>3, <1>4, <1>5, <1>6, <1>7, <1>8 DEF Dispatch

(* A step of finalizar_proceso leaves its thread there, or free.           *)
DeFin == {"exec", "colas", "saca_cola", "agrega", "libera"} \cup DeAsignar

LEMMA PasoDeFin ==
    ASSUME Tipos, NEW h \in HilosFin, Fin(h)
    PROVE  /\ hilo[h].paso \in DeFin
           /\ \/ UNCHANGED hilo
              \/ \E x : Pone(h, x) /\ x.paso \in (DeFin \cup {"libre"}) \ {"exec", "asigna_busca", "asigna_toma"}
              \/ AsignaNombre(h) \/ AsignaBusca(h)
  <1> DEFINE f == hilo[h]
             Quedan == (DeFin \cup {"libre"}) \ {"exec", "asigna_busca", "asigna_toma"}
  <1>0. f \in Hilo /\ Ocioso \in Hilo /\ Ocioso.paso = "libre"
    BY HiloSuelto DEF Tipos, TFin, HiloBueno, Ocioso
  <1>1. f.paso \in DeFin
    BY DEF Fin, BuscaExec, BuscaColas, SacaCola, Agrega, AsignaNombre, AsignaBusca, AsignaToma, Elimina, Devuelve,
           En, DeFin, DeAsignar
  <1>2. \A s \in {"libre", "colas", "saca_cola", "agrega", "libera", "asigna"} : s \in Quedan
    BY DEF DeFin, DeAsignar
  <1> HIDE DEF Quedan
  <1>3. CASE BuscaExec(h)
    <2>1. [f EXCEPT !.paso = "colas"].paso = "colas"
      BY <1>0 DEF Hilo
    <2>2. Pone(h, Ocioso) \/ Pone(h, [f EXCEPT !.paso = "colas"])
      BY <1>3 DEF BuscaExec, Sigue
    <2> QED BY <1>0, <1>1, <1>2, <2>1, <2>2 DEF Quedan
  <1>4. CASE BuscaColas(h)
    <2>1. \A c : [Ocioso EXCEPT !.paso = "saca_cola", !.p = pid_a_finalizar, !.cola = c].paso = "saca_cola"
      BY DEF Ocioso
    <2>2. Pone(h, Ocioso)
          \/ \E c : Pone(h, [Ocioso EXCEPT !.paso = "saca_cola", !.p = pid_a_finalizar, !.cola = c])
      BY <1>4 DEF BuscaColas
    <2> QED BY <1>0, <1>1, <1>2, <2>1, <2>2 DEF Quedan
  <1>5. CASE SacaCola(h)
    <2>1. \A q : [f EXCEPT !.paso = "agrega", !.q = q].paso = "agrega"
      BY <1>0 DEF Hilo
    <2>2. \E q : Pone(h, [f EXCEPT !.paso = "agrega", !.q = q])
      BY <1>5 DEF SacaCola
    <2> QED BY <1>1, <1>2, <2>1, <2>2 DEF Quedan
  <1>6. CASE Agrega(h)
    <2>1. \A T : [f EXCEPT !.paso = "libera", !.rs = T].paso = "libera"
      BY <1>0 DEF Hilo
    <2>2. \E T : Pone(h, [f EXCEPT !.paso = "libera", !.rs = T])
      BY <1>6 DEF Agrega
    <2> QED BY <1>1, <1>2, <2>1, <2>2 DEF Quedan
  <1>7. CASE AsignaToma(h)
    <2>1. [f EXCEPT !.paso = "libera"].paso = "libera"
      BY <1>0 DEF Hilo
    <2>2. Pone(h, [f EXCEPT !.paso = "libera"])
      BY <1>7 DEF AsignaToma, Sigue
    <2> QED BY <1>1, <1>2, <2>1, <2>2 DEF Quedan
  <1>8. CASE Elimina(h)
    <2>1. Pone(h, Ocioso)
      BY <1>8 DEF Elimina
    <2> QED BY <1>0, <1>1, <1>2, <2>1 DEF Quedan
  <1>9. ASSUME NEW r \in Recursos, Devuelve(h, r)
        PROVE  UNCHANGED hilo \/ \E x : Pone(h, x) /\ x.paso \in Quedan
    <2>1. \A q : [f EXCEPT !.paso = "asigna", !.r = r, !.q = q].paso = "asigna"
      BY <1>0 DEF Hilo
    <2>2. UNCHANGED hilo \/ \E q : Pone(h, [f EXCEPT !.paso = "asigna", !.r = r, !.q = q])
      BY <1>9 DEF Devuelve
    <2> QED BY <1>2, <2>1, <2>2
  <1> QED BY <1>1, <1>3, <1>4, <1>5, <1>6, <1>7, <1>8, <1>9 DEF Fin, Quedan

LEMMA NombresFin ==
    ASSUME Tipos, Nombres, NEW h \in HilosFin, Fin(h) PROVE Nombres'
  <1> DEFINE f == hilo[h]
  <1>0. f \in Hilo /\ HiloBueno(f)
    BY DEF Tipos, TFin, HiloBueno
  <1>n. UNCHANGED <<programa, resta>>
    BY DEF Fin, BuscaExec, BuscaColas, SacaCola, Agrega, Devuelve, AsignaNombre, AsignaBusca, AsignaToma, Elimina,
           vCpu, vFin
  <1>1. f.paso # "libre"
    BY PasoDeFin DEF DeFin, DeAsignar
  <1>2. CASE AsignaNombre(h)
    <2> DEFINE x == [f EXCEPT !.paso = "asigna_busca"]
    <2>1. f.paso = "asigna" /\ f.r \in Recursos /\ nombre_recurso_recibido' = f.r /\ Pone(h, x)
      BY <1>0, <1>2 DEF AsignaNombre, En, HiloBueno, DeAsignar, Sigue
    <2>2. x.paso = "asigna_busca" /\ x.r = f.r
      BY <1>0 DEF Hilo
    <2>3. hilo'[h] = x /\ \A k \in HilosFin : k # h => hilo'[k] = hilo[k]
      BY <2>1 DEF Pone, Tipos, TFin
    <2> HIDE DEF x
    <2>4. RecursosValidos' <=> RecursosValidos
      BY <1>n DEF RecursosValidos
    <2>5. resta' = MaxFinalizar => hilo'["consola"].paso = "libre" /\ DelNombre(hilo["dispatch"])'
      <3> SUFFICES ASSUME resta' = MaxFinalizar
                   PROVE  hilo'["consola"].paso = "libre" /\ DelNombre(hilo["dispatch"])'
        OBVIOUS
      <3>1. hilo["consola"].paso = "libre"
        BY <1>n DEF Nombres
      <3>2. h = "dispatch"
        BY <1>1, <3>1 DEF HilosFin
      <3> QED BY <2>1, <2>2, <2>3, <3>1, <3>2 DEF DelNombre, HilosFin
    <2> QED BY <1>n, <2>1, <2>4, <2>5 DEF Nombres
  <1>3. CASE AsignaBusca(h)
    <2> DEFINE x == [f EXCEPT !.paso = "asigna_toma", !.ya = YaTiene(f.q)]
    <2>1. f.paso = "asigna_busca" /\ Pone(h, x) /\ UNCHANGED nombre_recurso_recibido
      BY <1>3 DEF AsignaBusca, En, vRecurso
    <2>2. x.paso = "asigna_toma" /\ x.r = f.r /\ x.ya = YaTiene(f.q)
      BY <1>0 DEF Hilo
    <2> HIDE DEF x
    <2>3. DelNombre(f) => DelNombre(x)
      BY <2>1, <2>2 DEF DelNombre, YaTiene
    <2> QED BY <1>0, <1>1, <1>n, <2>1, <2>2, <2>3, NombresPone DEF Nombrado
  <1>4. CASE ~AsignaNombre(h)
    <2> SUFFICES ASSUME ~AsignaBusca(h) PROVE Nombres'
      BY <1>3
    <2>1. UNCHANGED nombre_recurso_recibido
      BY <1>4 DEF Fin, BuscaExec, BuscaColas, SacaCola, Agrega, Devuelve, AsignaToma, AsignaBusca, Elimina, vRecurso
    <2>2. CASE UNCHANGED hilo
      BY <1>n, <2>1, <2>2, NombresQuietos
    <2>3. ASSUME NEW x, Pone(h, x), x.paso \in (DeFin \cup {"libre"}) \ {"exec", "asigna_busca", "asigna_toma"}
          PROVE  Nombres'
      <3>1. x.paso \notin Nombrado /\ DelNombre(x)
        BY <2>3 DEF DeFin, DeAsignar, Nombrado, ConNombre, ConPedido, DelNombre
      <3> QED BY <1>1, <1>n, <2>1, <2>3, <3>1, NombresPone
    <2> QED BY <1>4, <2>2, <2>3, PasoDeFin
  <1> QED BY <1>2, <1>4

LEMMA NombresResto ==
    ASSUME Tipos, Nombres, Operador \/ Planificadores \/ ManejaLee \/ ManejaUno PROVE Nombres'
  <1>1. CASE UNCHANGED <<nombre_recurso_recibido, programa, resta, hilo>>
    BY <1>1, NombresQuietos
  <1>2. ASSUME NEW p \in Procesos, Finalizar(p) PROVE Nombres'
    <2>1. UNCHANGED <<nombre_recurso_recibido, programa>> /\ resta' = resta - 1 /\ resta \in Nat
          /\ Pone("consola", [Ocioso EXCEPT !.paso = "exec", !.p = p]) /\ MaxFinalizar \in Nat
      BY <1>2, CotasAssumption DEF Finalizar, vRecurso, vCpu, Tipos, TFin
    <2>2. [Ocioso EXCEPT !.paso = "exec", !.p = p].paso = "exec" /\ "exec" \notin Nombrado
      BY DEF Ocioso, Nombrado, ConNombre, ConPedido
    <2>3. \A h \in HilosFin : hilo'[h].paso \in Nombrado => hilo[h].paso \in Nombrado
      BY <2>1, <2>2 DEF Pone, Tipos, TFin
    <2>4. RecursosValidos' <=> RecursosValidos
      BY <2>1 DEF RecursosValidos
    <2>5. resta' <= MaxFinalizar /\ resta' # MaxFinalizar
      BY <2>1 DEF Nombres
    <2> QED BY <2>1, <2>3, <2>4, <2>5 DEF Nombres
  <1>3. Operador \/ Planificadores \/ ManejaLee \/ ManejaUno
        => UNCHANGED <<nombre_recurso_recibido, programa, resta, hilo>> \/ \E p \in Procesos : Finalizar(p)
    BY DEF Operador, IniciarProceso, Multiprogramacion, Planificadores, LargoToma, LargoMueve,
           CortoPlazo, ExecReady, ExecBlocked, ExecBlockedLibera, ExecBlockedMueve, ExecBlockedGuarda,
           BlockedReady, ExitLargoPlazo, ManejaLee, ManejaUno, vRecurso, vCpu, vFin
  <1> QED BY <1>1, <1>2, <1>3

LEMMA NombresSiempre ==
    ASSUME Tipos, Nombres, [Next]_vars PROVE Nombres'
  <1>1. CASE UNCHANGED vars
    BY <1>1, NombresQuietos DEF vars, vRecurso, vCpu, vFin
  <1>2. CASE Next
    <2>1. "dispatch" \in HilosFin /\ "consola" \in HilosFin
      BY DEF HilosFin
    <2> QED BY <1>2, <2>1, NombresCpu, NombresDispatch, NombresFin, NombresResto DEF Next
  <1> QED BY <1>1, <1>2

-----------------------------------------------------------------------------
(* The instances.                                                          *)

Repartidas(r) == Suma([p \in Procesos |-> asignados[p][r]], Procesos)
Senaladas(r) == Suma([p \in Procesos |-> Hechas(p, "SIGNAL", r)], Procesos)
Total == Suma([r \in Recursos |-> Saldo(r)], Recursos)

LEMMA HechasFinitas ==
    ASSUME Tipos, NEW p \in Procesos, NEW o, NEW r
    PROVE  Hechas(p, o, r) \in Nat
  <1>1. PC[p] \in Nat
    BY DEF Tipos, TCpu
  <1>2. IsFiniteSet(1..PC[p])
    BY <1>1, FS_Interval
  <1>3. IsFiniteSet({i \in 1..PC[p] : programa[p][i] = [op |-> o, r |-> r]})
    BY <1>2, FS_Subset
  <1> QED BY <1>3, FS_CardinalityType DEF Hechas

LEMMA HechasAlEjecutar ==
    ASSUME Tipos, NEW p \in Procesos, NEW i, Ejecuta(p, i), NEW o, NEW r
    PROVE  /\ Hechas(p, o, r)' = Hechas(p, o, r) + (IF i = [op |-> o, r |-> r] THEN 1 ELSE 0)
           /\ \A q \in Procesos : q # p => Hechas(q, o, r)' = Hechas(q, o, r)
  <1> DEFINE n == PC[p]
             x == [op |-> o, r |-> r]
             H == {k \in 1..n : programa[p][k] = x}
  <1>1. n \in Nat /\ PC' = [PC EXCEPT ![p] = n + 1] /\ programa' = programa /\ PC \in [Procesos -> Nat]
        /\ programa[p][n + 1] = i
    BY DEF Tipos, TCpu, Ejecuta
  <1>2. IsFiniteSet(H) /\ Cardinality(H) \in Nat
    <2>1. IsFiniteSet(1..n) /\ H \subseteq 1..n
      BY <1>1, FS_Interval
    <2> HIDE DEF H
    <2> QED BY <2>1, FS_Subset, FS_CardinalityType
  <1>3. Hechas(p, o, r) = Cardinality(H)
    BY DEF Hechas
  <1>4. Hechas(p, o, r)' = Cardinality({k \in 1..(n + 1) : programa[p][k] = x})
    BY <1>1 DEF Hechas
  <1>5. \A q \in Procesos : q # p => Hechas(q, o, r)' = Hechas(q, o, r)
    BY <1>1 DEF Hechas
  <1>6. 1..(n + 1) = (1..n) \cup {n + 1} /\ n + 1 \notin 1..n
    BY <1>1
  <1>7. CASE i = x
    <2>1. {k \in 1..(n + 1) : programa[p][k] = x} = H \cup {n + 1} /\ n + 1 \notin H
      BY <1>1, <1>6, <1>7
    <2>2. Cardinality(H \cup {n + 1}) = Cardinality(H) + 1
      BY <1>2, <2>1, FS_AddElement
    <2> QED BY <1>3, <1>4, <1>5, <1>7, <2>1, <2>2
  <1>8. CASE i # x
    <2>1. {k \in 1..(n + 1) : programa[p][k] = x} = H
      BY <1>1, <1>6, <1>8
    <2> QED BY <1>2, <1>3, <1>4, <1>5, <1>8, <2>1
  <1> QED BY <1>7, <1>8

LEMMA SenaladasAlEjecutar ==
    ASSUME Tipos, NEW p \in Procesos, NEW i, Ejecuta(p, i), NEW r \in Recursos
    PROVE  Senaladas(r) \in Int /\ Senaladas(r)' = Senaladas(r) + (IF i = [op |-> "SIGNAL", r |-> r] THEN 1 ELSE 0)
  <1> DEFINE f == [q \in Procesos |-> Hechas(q, "SIGNAL", r)]
             g == [q \in Procesos |-> Hechas(q, "SIGNAL", r)']
             d == IF i = [op |-> "SIGNAL", r |-> r] THEN 1 ELSE 0
  <1>1. \A q \in Procesos : f[q] \in Int
    BY HechasFinitas
  <1>2. g[p] = f[p] + d /\ \A q \in Procesos \ {p} : g[q] = f[q]
    <2>1. /\ Hechas(p, "SIGNAL", r)' = Hechas(p, "SIGNAL", r) + d
          /\ \A q \in Procesos : q # p => Hechas(q, "SIGNAL", r)' = Hechas(q, "SIGNAL", r)
      BY HechasAlEjecutar
    <2>2. \A q \in Procesos : f[q] = Hechas(q, "SIGNAL", r) /\ g[q] = Hechas(q, "SIGNAL", r)'
      OBVIOUS
    <2> QED BY <2>1, <2>2
  <1>3. d \in Int
    BY DEF Uno
  <1>4. Senaladas(r) = Suma(f, Procesos) /\ Senaladas(r)' = Suma(g, Procesos)
    BY DEF Senaladas
  <1> HIDE DEF f, g, d
  <1>5. Suma(f, Procesos) \in Int /\ Suma(g, Procesos) = Suma(f, Procesos) + d
    BY <1>1, <1>2, <1>3, FinitosAssumption, SumaCambia
  <1> QED BY <1>4, <1>5 DEF d

LEMMA SenaladasQuietas ==
    ASSUME Tipos, UNCHANGED <<programa, PC>>, NEW r \in Recursos
    PROVE  Senaladas(r)' = Senaladas(r)
  BY DEF Senaladas, Hechas

LEMMA RepartidasQuietas ==
    ASSUME UNCHANGED asignados, NEW r \in Recursos
    PROVE  Repartidas(r)' = Repartidas(r)
  BY DEF Repartidas

LEMMA RepartidasCambian ==
    ASSUME Tipos, NEW p \in Procesos, NEW s \in Recursos, NEW d \in Int,
           asignados' = [asignados EXCEPT ![p][s] = @ + d]
    PROVE  \A r \in Recursos : /\ Repartidas(r) \in Int
                               /\ Repartidas(r)' = Repartidas(r) + (IF r = s THEN d ELSE 0)
  <1> SUFFICES ASSUME NEW r \in Recursos
               PROVE  /\ Repartidas(r) \in Int
                      /\ Repartidas(r)' = Repartidas(r) + (IF r = s THEN d ELSE 0)
    OBVIOUS
  <1> DEFINE f == [q \in Procesos |-> asignados[q][r]]
             g == [q \in Procesos |-> asignados'[q][r]]
             e == IF r = s THEN d ELSE 0
  <1>1. asignados \in [Procesos -> [Recursos -> Nat]]
    BY DEF Tipos, TRec
  <1>2. \A q \in Procesos : f[q] \in Int
    BY <1>1
  <1>3. g[p] = f[p] + e /\ \A q \in Procesos \ {p} : g[q] = f[q]
    BY <1>1
  <1>4. e \in Int
    OBVIOUS
  <1>5. Repartidas(r) = Suma(f, Procesos) /\ Repartidas(r)' = Suma(g, Procesos)
    BY DEF Repartidas
  <1> HIDE DEF f, g, e
  <1>6. Suma(f, Procesos) \in Int /\ Suma(g, Procesos) = Suma(f, Procesos) + e
    BY <1>2, <1>3, <1>4, FinitosAssumption, SumaCambia
  <1> QED BY <1>5, <1>6 DEF e

LEMMA SumaDeCeros ==
    ASSUME NEW S, IsFiniteSet(S)
    PROVE  Suma([x \in S |-> 0], S) = 0
  <1> DEFINE f == [x \in S |-> 0]
  <1>1. \A x \in S : f[x] = 0
    OBVIOUS
  <1> HIDE DEF f
  <1>2. PICK g : PorPasos(g, f, S)
    BY <1>1, SumaPorPasos
  <1> DEFINE Mal == {n \in Nat : \E s \in SUBSET S : Cardinality(s) = n /\ g[s] # 0}
  <1>3. Mal = {}
    <2>1. SUFFICES ASSUME Mal # {} PROVE FALSE
      OBVIOUS
    <2>2. PICK m \in Mal : \A k \in Mal : m <= k
      BY <2>1, MinNat
    <2>3. PICK s \in SUBSET S : Cardinality(s) = m /\ g[s] # 0
      OBVIOUS
    <2>4. s # {}
      <3>1. {} \in SUBSET S
        OBVIOUS
      <3>2. g[{}] = 0
        BY <1>2, <3>1 DEF PorPasos
      <3> QED BY <2>3, <3>2
    <2> DEFINE x == Primero(s)
               t == s \ {x}
    <2>5. x \in s /\ x \in S /\ t \in SUBSET S
      BY <2>4 DEF Primero
    <2>6. Cardinality(t) = m - 1 /\ m \in Nat /\ m - 1 \in Nat
      <3>1. IsFiniteSet(s) /\ IsFiniteSet(t)
        BY FS_Subset
      <3>2. Cardinality(t) = Cardinality(s) - 1
        BY <2>5, <3>1, FS_RemoveElement
      <3> QED BY <2>3, <3>1, <3>2, FS_CardinalityType
    <2>7. g[t] = 0
      BY <2>2, <2>5, <2>6
    <2>8. g[s] = f[x] + g[t]
      BY <1>2, <2>4 DEF PorPasos
    <2> QED BY <1>1, <2>3, <2>5, <2>7, <2>8
  <1>4. Cardinality(S) \in Nat
    BY FS_CardinalityType
  <1> QED BY <1>2, <1>3, <1>4 DEF PorPasos, f

LEMMA SumaEntera ==
    ASSUME NEW S, IsFiniteSet(S), NEW f, \A x \in S : f[x] \in Int
    PROVE  Suma(f, S) \in Int
  <1>1. PICK g : PorPasos(g, f, S)
    BY SumaPorPasos
  <1> QED BY <1>1 DEF PorPasos

LEMMA RepartidasEnteras ==
    ASSUME Tipos, NEW r \in Recursos
    PROVE  Repartidas(r) \in Int
  <1> DEFINE f == [q \in Procesos |-> asignados[q][r]]
  <1>1. \A q \in Procesos : f[q] \in Int
    BY DEF Tipos, TRec
  <1> HIDE DEF f
  <1>2. Suma(f, Procesos) \in Int
    BY <1>1, FinitosAssumption, SumaEntera
  <1> QED BY <1>2 DEF f, Repartidas

(* What r's account is, and how sums of accounts change.                   *)
LEMMA SaldoEs ==
    ASSUME Tipos, NEW r \in Recursos
    PROVE  /\ Saldo(r) = instancias[r] + Repartidas(r) - Instancias[r] - Senaladas(r)
           /\ instancias[r] \in Int /\ Repartidas(r) \in Int /\ Instancias[r] \in Int /\ Senaladas(r) \in Int
           /\ Saldo(r) \in Int
  <1>1. instancias[r] \in Int /\ Instancias[r] \in Int
    BY InstanciasAssumption DEF Tipos, TRec
  <1>2. Repartidas(r) \in Int
    BY RepartidasEnteras
  <1>3. Senaladas(r) \in Int
    <2> DEFINE f == [q \in Procesos |-> Hechas(q, "SIGNAL", r)]
    <2>1. \A q \in Procesos : f[q] \in Int
      BY HechasFinitas
    <2> HIDE DEF f
    <2>2. Suma(f, Procesos) \in Int
      BY <2>1, FinitosAssumption, SumaEntera
    <2> QED BY <2>2 DEF f, Senaladas
  <1>4. Saldo(r) = instancias[r] + Repartidas(r) - Instancias[r] - Senaladas(r)
    BY DEF Saldo, Repartidas, Senaladas
  <1> QED BY <1>1, <1>2, <1>3, <1>4

LEMMA SaldoSera ==
    ASSUME NEW r \in Recursos
    PROVE  Saldo(r)' = instancias'[r] + Repartidas(r)' - Instancias[r] - Senaladas(r)'
  BY DEF Saldo, Repartidas, Senaladas

LEMMA TotalPasa ==
    ASSUME Tipos, NEW s \in Recursos, NEW t \in Recursos,
           \A r \in Recursos : Saldo(r)' = Saldo(r) + (IF r = s THEN -1 ELSE 0) + (IF r = t THEN 1 ELSE 0)
    PROVE  Total' = Total
  <1> DEFINE f == [r \in Recursos |-> Saldo(r)]
             g == [r \in Recursos |-> Saldo(r) + (IF r = s THEN -1 ELSE 0)]
             h == [r \in Recursos |-> Saldo(r) + (IF r = s THEN -1 ELSE 0) + (IF r = t THEN 1 ELSE 0)]
  <1>1. \A r \in Recursos : Saldo(r) \in Int
    BY SaldoEs
  <1>2. (\A r \in Recursos : f[r] \in Int /\ g[r] \in Int) /\ g[s] = f[s] + (-1)
        /\ \A r \in Recursos \ {s} : g[r] = f[r]
    BY <1>1
  <1>3. h[t] = g[t] + 1 /\ \A r \in Recursos \ {t} : h[r] = g[r]
    BY <1>1
  <1>4. Total = Suma(f, Recursos)
    BY DEF Total
  <1>5. Total' = Suma(h, Recursos)
    <2>1. [r \in Recursos |-> Saldo(r)'] = h
      OBVIOUS
    <2>2. Total' = Suma([r \in Recursos |-> Saldo(r)'], Recursos)
      BY DEF Total
    <2> QED BY <2>1, <2>2
  <1> HIDE DEF f, g, h
  <1>6. Suma(f, Recursos) \in Int /\ Suma(g, Recursos) = Suma(f, Recursos) + (-1)
    <2>1. -1 \in Int
      OBVIOUS
    <2> QED BY <1>2, <2>1, FinitosAssumption, SumaCambia
  <1>7. Suma(g, Recursos) \in Int /\ Suma(h, Recursos) = Suma(g, Recursos) + 1
    <2>1. 1 \in Int
      OBVIOUS
    <2> QED BY <1>2, <1>3, <2>1, FinitosAssumption, SumaCambia
  <1> QED BY <1>4, <1>5, <1>6, <1>7

LEMMA TotalCambia ==
    ASSUME Tipos, NEW s \in Recursos, NEW d \in Int,
           \A r \in Recursos : Saldo(r)' = Saldo(r) + (IF r = s THEN d ELSE 0)
    PROVE  Total \in Int /\ Total' = Total + d
  <1> DEFINE f == [r \in Recursos |-> Saldo(r)]
             g == [r \in Recursos |-> Saldo(r) + (IF r = s THEN d ELSE 0)]
  <1>1. \A r \in Recursos : Saldo(r) \in Int
    BY SaldoEs
  <1>2. (\A r \in Recursos : f[r] \in Int) /\ g[s] = f[s] + d
        /\ \A r \in Recursos \ {s} : g[r] = f[r]
    BY <1>1
  <1>4. Total = Suma(f, Recursos)
    BY DEF Total
  <1>5. Total' = Suma(g, Recursos)
    <2>1. [r \in Recursos |-> Saldo(r)'] = g
      OBVIOUS
    <2>2. Total' = Suma([r \in Recursos |-> Saldo(r)'], Recursos)
      BY DEF Total
    <2> QED BY <2>1, <2>2
  <1> HIDE DEF f, g
  <1>6. Suma(f, Recursos) \in Int /\ Suma(g, Recursos) = Suma(f, Recursos) + d
    BY <1>2, FinitosAssumption, SumaCambia
  <1> QED BY <1>4, <1>5, <1>6

LEMMA TotalQuieto ==
    ASSUME \A r \in Recursos : Saldo(r)' = Saldo(r)
    PROVE  Total' = Total
  <1>1. [r \in Recursos |-> Saldo(r)'] = [r \in Recursos |-> Saldo(r)]
    OBVIOUS
  <1>2. Total' = Suma([r \in Recursos |-> Saldo(r)'], Recursos)
    BY DEF Total
  <1> QED BY <1>1, <1>2 DEF Total

Cuenta ==
    /\ SinConsola => \A r \in Recursos : Saldo(r) = IF EnSignalDe(r) THEN -1 ELSE 0
    /\ falla = "ninguna" /\ RecursosValidos => Total = IF EnSignal THEN -1 ELSE 0

LEMMA CuentaEsContadas == InstanciasContadas <=> Cuenta
  <1>1. \A b \in BOOLEAN : -Uno(b) = IF b THEN -1 ELSE 0
    BY DEF Uno
  <1>2. \A r : EnSignalDe(r) \in BOOLEAN
    BY DEF EnSignalDe, EnSignal
  <1>3. EnSignal \in BOOLEAN
    BY DEF EnSignal
  <1> QED BY <1>1, <1>2, <1>3 DEF InstanciasContadas, Cuenta, Total

LEMMA CuentaAlInicio == Init => Cuenta
  <1> SUFFICES ASSUME Init PROVE Cuenta
    OBVIOUS
  <1>1. \A r \in Recursos : Saldo(r) = 0
    <2> SUFFICES ASSUME NEW r \in Recursos PROVE Saldo(r) = 0
      OBVIOUS
    <2>1. instancias[r] = Instancias[r] /\ Instancias[r] \in Nat
      BY InstanciasAssumption DEF Init
    <2>2. Repartidas(r) = 0
      <3>1. [p \in Procesos |-> asignados[p][r]] = [p \in Procesos |-> 0]
        BY DEF Init
      <3> QED BY <3>1, SumaDeCeros, FinitosAssumption DEF Repartidas
    <2>3. Senaladas(r) = 0
      <3>1. \A p \in Procesos : Hechas(p, "SIGNAL", r) = 0
        <4> SUFFICES ASSUME NEW p \in Procesos PROVE Hechas(p, "SIGNAL", r) = 0
          OBVIOUS
        <4>1. {i \in 1..PC[p] : programa[p][i] = [op |-> "SIGNAL", r |-> r]} = {}
          BY DEF Init
        <4> QED BY <4>1, FS_EmptySet DEF Hechas
      <3>2. [p \in Procesos |-> Hechas(p, "SIGNAL", r)] = [p \in Procesos |-> 0]
        BY <3>1
      <3> QED BY <3>2, SumaDeCeros, FinitosAssumption DEF Senaladas
    <2>4. Saldo(r) = instancias[r] + Repartidas(r) - Instancias[r] - Senaladas(r)
      BY DEF Saldo, Repartidas, Senaladas
    <2> QED BY <2>1, <2>2, <2>3, <2>4
  <1>2. Total = 0
    <2>1. [r \in Recursos |-> Saldo(r)] = [r \in Recursos |-> 0]
      BY <1>1
    <2> QED BY <2>1, SumaDeCeros, FinitosAssumption DEF Total
  <1>3. ~EnSignal
    BY DEF Init, EnSignal, Ocioso, HilosFin
  <1> QED BY <1>1, <1>2, <1>3 DEF Cuenta, EnSignalDe

LEMMA SaldoQuieto ==
    ASSUME UNCHANGED <<instancias, asignados, programa, PC>>
    PROVE  (\A r \in Recursos : Saldo(r)' = Saldo(r)) /\ Total' = Total
  <1>1. ASSUME NEW r \in Recursos PROVE Saldo(r)' = Saldo(r)
    <2>1. Repartidas(r)' = Repartidas(r)
      BY DEF Repartidas
    <2>2. Senaladas(r)' = Senaladas(r)
      BY DEF Senaladas, Hechas
    <2> QED BY <2>1, <2>2, SaldoSera DEF Saldo, Repartidas, Senaladas
  <1> QED BY <1>1, TotalQuieto

LEMMA CuentaQuieta ==
    ASSUME Tipos, Cuenta, falla = "ninguna", UNCHANGED <<instancias, asignados, programa, PC, resta>>,
           EnSignal' <=> EnSignal, SinConsola => \A r \in Recursos : EnSignalDe(r)' <=> EnSignalDe(r)
    PROVE  Cuenta'
  <1>1. (\A r \in Recursos : Saldo(r)' = Saldo(r)) /\ Total' = Total
    BY SaldoQuieto
  <1>2. SinConsola' => SinConsola
    BY DEF SinConsola
  <1>3. RecursosValidos' <=> RecursosValidos
    BY DEF RecursosValidos
  <1>4. SinConsola' => \A r \in Recursos : Saldo(r)' = IF EnSignalDe(r)' THEN -1 ELSE 0
    BY <1>1, <1>2 DEF Cuenta
  <1>5. RecursosValidos => Total' = IF EnSignal' THEN -1 ELSE 0
    BY <1>1 DEF Cuenta
  <1> QED BY <1>3, <1>4, <1>5 DEF Cuenta

Senales == {"nombre_signal", "signal", "saca", "repone"}

(* The thread h is not in a SIGNAL, before or after.                       *)
LEMMA FueraDeSignal ==
    ASSUME Tipos, NEW h \in HilosFin, NEW x, Pone(h, x), x.paso \notin Senales, hilo[h].paso \notin Senales
    PROVE  /\ EnSignal' <=> EnSignal
           /\ UNCHANGED nombre_recurso_recibido \/ h = "dispatch"
              => \A r \in Recursos : EnSignalDe(r)' <=> EnSignalDe(r)
  <1>1. hilo'[h] = x /\ \A k \in HilosFin : k # h => hilo'[k] = hilo[k]
    BY DEF Pone, Tipos, TFin
  <1>2. "dispatch" \in HilosFin
    BY DEF HilosFin
  <1>3. CASE h = "dispatch"
    <2>1. ~EnSignal /\ ~EnSignal'
      BY <1>1, <1>3 DEF EnSignal, Senales
    <2> QED BY <2>1 DEF EnSignalDe
  <1>4. CASE h # "dispatch"
    <2>1. hilo'["dispatch"] = hilo["dispatch"]
      BY <1>1, <1>2, <1>4
    <2> QED BY <1>4, <2>1 DEF EnSignal, EnSignalDe, En
  <1> QED BY <1>3, <1>4

(* An instruction is executed.                                             *)
LEMMA SaldoAlEjecutar ==
    ASSUME Tipos, NEW p \in Procesos, NEW i, Ejecuta(p, i), UNCHANGED <<instancias, asignados>>
    PROVE  \A r \in Recursos : Saldo(r)' = Saldo(r) + (IF i = [op |-> "SIGNAL", r |-> r] THEN -1 ELSE 0)
  <1> SUFFICES ASSUME NEW r \in Recursos
               PROVE  Saldo(r)' = Saldo(r) + (IF i = [op |-> "SIGNAL", r |-> r] THEN -1 ELSE 0)
    OBVIOUS
  <1>1. Repartidas(r)' = Repartidas(r)
    BY DEF Repartidas
  <1>2. Senaladas(r)' = Senaladas(r) + (IF i = [op |-> "SIGNAL", r |-> r] THEN 1 ELSE 0)
    BY SenaladasAlEjecutar
  <1>3. Saldo(r)' = instancias[r] + Repartidas(r)' - Instancias[r] - Senaladas(r)'
    BY SaldoSera
  <1> QED BY <1>1, <1>2, <1>3, SaldoEs

(* Instructions are records.                                               *)
LEMMA InstruccionEs ==
    ASSUME Tipos, NEW p \in Procesos, NEW i \in ToSet(programa[p])
    PROVE  i = [op |-> i.op, r |-> i.r]
  BY ProgramasAssumption DEF Tipos, TCpu

LEMMA CuentaCpu ==
    ASSUME Tipos, Nombres, Cuenta, falla = "ninguna", Cpu PROVE Cuenta'
  <1>0. "dispatch" \in HilosFin
    BY DEF HilosFin
  <1> SUFFICES ASSUME NEW p \in Procesos,
                      \/ Calcula(p) \/ FinDeQuantum(p) \/ Termina(p) \/ Desincronizado(p) \/ Pisado(p)
                      \/ \E i \in ToSet(programa[p]) : Recibe(p, i)
               PROVE  Cuenta'
    BY DEF Cpu
  <1>l. hilo["dispatch"].paso = "libre"
    BY DEF Calcula, FinDeQuantum, Termina, Desincronizado, Pisado, Recibe, Sale, Ejecuta, En
  <1>1. ASSUME NEW i, Ejecuta(p, i), i.op # "SIGNAL", UNCHANGED <<instancias, asignados, resta>>,
               UNCHANGED hilo \/ \E x : Pone("dispatch", x) /\ x.paso \notin Senales
        PROVE  Cuenta'
    <2>1. \A r \in Recursos : i # [op |-> "SIGNAL", r |-> r]
      BY <1>1
    <2>2. \A r \in Recursos : Saldo(r)' = Saldo(r)
      <3> TAKE r \in Recursos
      <3>1. Saldo(r)' = Saldo(r) + 0
        BY <1>1, <2>1, SaldoAlEjecutar
      <3> QED BY <3>1, SaldoEs
    <2>3. Total' = Total
      BY <2>2, TotalQuieto
    <2>4. ~EnSignal /\ ~EnSignal'
      <3>1. CASE UNCHANGED hilo
        BY <1>l, <3>1 DEF EnSignal
      <3>2. CASE \E x : Pone("dispatch", x) /\ x.paso \notin Senales
        BY <1>0, <1>l, <3>2 DEF EnSignal, Senales, Pone, Tipos, TFin
      <3> QED BY <1>1, <3>1, <3>2
    <2>5. (SinConsola' => SinConsola) /\ (RecursosValidos' => RecursosValidos)
      BY <1>1 DEF SinConsola, RecursosValidos, Ejecuta
    <2>6. (\A r \in Recursos : ~EnSignalDe(r)) /\ (\A r \in Recursos : ~EnSignalDe(r)')
      BY <2>4 DEF EnSignalDe
    <2>7. SinConsola' => \A r \in Recursos : Saldo(r)' = IF EnSignalDe(r)' THEN -1 ELSE 0
      BY <2>2, <2>5, <2>6 DEF Cuenta
    <2>8. RecursosValidos' => Total' = IF EnSignal' THEN -1 ELSE 0
      BY <2>3, <2>4, <2>5 DEF Cuenta
    <2> QED BY <2>7, <2>8 DEF Cuenta
  <1>2. CASE Calcula(p)
    <2>1. Ejecuta(p, [op |-> "SET", r |-> NULO]) /\ UNCHANGED <<instancias, asignados, resta, hilo>>
      BY <1>2 DEF Calcula, vRecurso, vFin
    <2> QED BY <1>1, <2>1
  <1>3. CASE FinDeQuantum(p)
    <2>1. Ejecuta(p, [op |-> "SET", r |-> NULO]) /\ UNCHANGED <<instancias, asignados, resta, hilo>>
      BY <1>3 DEF FinDeQuantum, Sale, vRecurso, vFin
    <2> QED BY <1>1, <2>1
  <1>4. CASE Termina(p)
    <2>1. PICK i : i.op # "SIGNAL" /\ Ejecuta(p, i)
      <3>1. [op |-> "EXIT", r |-> NULO].op # "SIGNAL" /\ [op |-> "SET", r |-> NULO].op # "SIGNAL"
        OBVIOUS
      <3>2. Ejecuta(p, [op |-> "EXIT", r |-> NULO]) \/ Ejecuta(p, [op |-> "SET", r |-> NULO])
        BY <1>4 DEF Termina, Sale
      <3> QED BY <3>1, <3>2
    <2>2. UNCHANGED <<instancias, asignados, resta>> /\ Pone("dispatch", [Ocioso EXCEPT !.paso = "pcb_exec"])
      BY <1>4 DEF Termina, vRecurso
    <2>3. [Ocioso EXCEPT !.paso = "pcb_exec"].paso \notin Senales
      BY DEF Ocioso, Senales
    <2>4. \E x : Pone("dispatch", x) /\ x.paso \notin Senales
      BY <2>2, <2>3
    <2> QED BY <1>1, <2>1, <2>2, <2>4
  <1>5. CASE Desincronizado(p) \/ Pisado(p)
    BY <1>5 DEF Desincronizado, Pisado, Falla, Cuenta, SinConsola
  <1>6. ASSUME NEW i \in ToSet(programa[p]), Recibe(p, i) PROVE Cuenta'
    <2>1. /\ Ejecuta(p, i) /\ UNCHANGED <<instancias, asignados, resta, programa>>
          /\ i.op \in {"WAIT", "SIGNAL"} /\ nombre_recurso_recibido' = i.r
      BY <1>6 DEF Recibe, Sale, Ejecuta
    <2> DEFINE x == [Ocioso EXCEPT !.paso = IF i.op = "WAIT" THEN "nombre_wait" ELSE "nombre_signal", !.p = p]
    <2>2. Pone("dispatch", x)
      BY <1>6 DEF Recibe
    <2>3. x.paso = IF i.op = "WAIT" THEN "nombre_wait" ELSE "nombre_signal"
      BY DEF Ocioso
    <2> HIDE DEF x
    <2>4. CASE i.op = "WAIT"
      <3>1. x.paso \notin Senales
        BY <2>3, <2>4 DEF Senales
      <3>2. \E y : Pone("dispatch", y) /\ y.paso \notin Senales
        BY <2>2, <3>1
      <3> QED BY <1>1, <2>1, <2>4, <3>2
    <2>5. CASE i.op = "SIGNAL"
      <3>1. ~EnSignal /\ EnSignal' /\ hilo'["dispatch"].paso = "nombre_signal"
        BY <1>0, <1>l, <2>2, <2>3, <2>5 DEF EnSignal, Pone, Tipos, TFin
      <3>2. \A r \in Recursos : EnSignalDe(r)' <=> r = i.r
        BY <2>1, <3>1 DEF EnSignalDe, En
      <3>3. \A r \in Recursos : i = [op |-> "SIGNAL", r |-> r] <=> r = i.r
        BY <1>6, <2>5, InstruccionEs
      <3>4. \A r \in Recursos : Saldo(r)' = Saldo(r) + (IF r = i.r THEN -1 ELSE 0)
        BY <2>1, <3>3, SaldoAlEjecutar
      <3>5. (SinConsola' => SinConsola) /\ (RecursosValidos' => RecursosValidos)
        BY <2>1 DEF SinConsola, RecursosValidos
      <3>6. SinConsola' => \A r \in Recursos : Saldo(r)' = IF EnSignalDe(r)' THEN -1 ELSE 0
        <4> SUFFICES ASSUME SinConsola', NEW r \in Recursos
                     PROVE  Saldo(r)' = IF EnSignalDe(r)' THEN -1 ELSE 0
          OBVIOUS
        <4>1. Saldo(r) = 0
          BY <3>1, <3>5 DEF Cuenta, EnSignalDe
        <4> QED BY <3>2, <3>4, <4>1
      <3>7. RecursosValidos' => Total' = -1
        <4> SUFFICES ASSUME RecursosValidos PROVE Total' = -1
          BY <3>5
        <4>1. i.r \in Recursos
          BY <1>6, <2>1 DEF RecursosValidos
        <4>2. -1 \in Int
          OBVIOUS
        <4> DEFINE s == i.r
                   e == -1
        <4>5. \A r \in Recursos : Saldo(r)' = Saldo(r) + (IF r = s THEN e ELSE 0)
          BY <3>4
        <4> HIDE DEF s, e
        <4>3. Total' = Total + e
          BY <4>1, <4>2, <4>5, TotalCambia DEF s, e
        <4>4. Total = 0
          BY <3>1 DEF Cuenta
        <4> QED BY <4>3, <4>4 DEF e
      <3> QED BY <3>1, <3>6, <3>7 DEF Cuenta
    <2> QED BY <2>1, <2>4, <2>5
  <1> QED BY <1>2, <1>3, <1>4, <1>5, <1>6

(* An instance of s goes to p, and is filed under t.                       *)
LEMMA CuentaToma ==
    ASSUME Tipos, Cuenta, falla = "ninguna", UNCHANGED <<programa, PC, resta>>,
           NEW p \in Procesos, NEW s \in Recursos, NEW t,
           instancias' = [instancias EXCEPT ![s] = @ - 1], asignados' = [asignados EXCEPT ![p][t] = @ + 1],
           SinConsola => t = s, RecursosValidos => t \in Recursos,
           EnSignal' <=> EnSignal, SinConsola => \A r \in Recursos : EnSignalDe(r)' <=> EnSignalDe(r)
    PROVE  Cuenta'
  <1>1. (SinConsola' => SinConsola) /\ (RecursosValidos' => RecursosValidos)
    BY DEF SinConsola, RecursosValidos
  <1>2. CASE t \notin Recursos
    BY <1>1, <1>2 DEF Cuenta
  <1>3. CASE t \in Recursos
    <2>1. 1 \in Int
      OBVIOUS
    <2>2. \A r \in Recursos : Repartidas(r)' = Repartidas(r) + (IF r = t THEN 1 ELSE 0)
      BY <1>3, <2>1, RepartidasCambian
    <2>3. \A r \in Recursos : Saldo(r)' = Saldo(r) + (IF r = s THEN -1 ELSE 0) + (IF r = t THEN 1 ELSE 0)
      <3> TAKE r \in Recursos
      <3>1. instancias'[r] = instancias[r] + (IF r = s THEN -1 ELSE 0)
        BY DEF Tipos, TRec
      <3>2. Senaladas(r)' = Senaladas(r)
        BY SenaladasQuietas
      <3>3. Saldo(r)' = instancias'[r] + Repartidas(r)' - Instancias[r] - Senaladas(r)'
        BY SaldoSera
      <3> QED BY <2>2, <3>1, <3>2, <3>3, SaldoEs
    <2>4. Total' = Total
      BY <1>3, <2>3, TotalPasa
    <2>5. SinConsola' => \A r \in Recursos : Saldo(r)' = IF EnSignalDe(r)' THEN -1 ELSE 0
      <3> SUFFICES ASSUME SinConsola', NEW r \in Recursos
                   PROVE  Saldo(r)' = IF EnSignalDe(r)' THEN -1 ELSE 0
        OBVIOUS
      <3>1. Saldo(r)' = Saldo(r)
        <4>1. t = s
          BY <1>1
        <4> QED BY <2>3, <4>1, SaldoEs
      <3> QED BY <1>1, <3>1 DEF Cuenta
    <2>6. RecursosValidos' => Total' = IF EnSignal' THEN -1 ELSE 0
      BY <1>1, <2>4 DEF Cuenta
    <2> QED BY <2>5, <2>6 DEF Cuenta
  <1> QED BY <1>2, <1>3

LEMMA CuentaDispatch ==
    ASSUME Tipos, Nombres, Cuenta, falla = "ninguna", Dispatch PROVE Cuenta'
  <1> DEFINE d == hilo["dispatch"]
  <1>0. "dispatch" \in HilosFin /\ d \in Hilo /\ HiloBueno(d) /\ Ocioso.paso = "libre"
    BY DEF HilosFin, Tipos, TFin, Ocioso
  <1>n. UNCHANGED <<programa, PC, resta, nombre_recurso_recibido>>
    BY DEF Dispatch, Obtiene, RecursoInvalido, Wait, Signal, WaitBusca, WaitToma, WaitEncola, SignalSaca,
           SignalRepone, PcbExec, vCpu, vFin, vRecurso
  <1>v. SinConsola => DelNombre(d)
    BY DEF SinConsola, Nombres
  <1>q. ASSUME UNCHANGED <<instancias, asignados>>,
               UNCHANGED hilo \/ \E x : Pone("dispatch", x) /\ x.paso \notin Senales,
               d.paso \notin Senales
        PROVE  Cuenta'
    <2>1. (EnSignal' <=> EnSignal) /\ \A r \in Recursos : EnSignalDe(r)' <=> EnSignalDe(r)
      <3>1. CASE UNCHANGED hilo
        BY <1>n, <3>1 DEF EnSignal, EnSignalDe, En
      <3>2. CASE \E x : Pone("dispatch", x) /\ x.paso \notin Senales
        BY <1>0, <1>n, <1>q, <3>2, FueraDeSignal
      <3> QED BY <1>q, <3>1, <3>2
    <2> QED BY <1>n, <1>q, <2>1, CuentaQuieta
  (* One statement of a SIGNAL after another, at one resource.             *)
  <1>s. ASSUME UNCHANGED <<instancias, asignados>>, NEW x, Pone("dispatch", x),
               d.paso \in Senales, x.paso \in Senales \ {"nombre_signal"},
               x.r = IF d.paso = "nombre_signal" THEN nombre_recurso_recibido ELSE d.r
        PROVE  Cuenta'
    <2>1. hilo'["dispatch"] = x
      BY <1>0, <1>s DEF Pone, Tipos, TFin
    <2>2. EnSignal' <=> EnSignal
      BY <1>s, <2>1 DEF EnSignal, Senales
    <2>3. \A r \in Recursos : EnSignalDe(r)' <=> EnSignalDe(r)
      BY <1>s, <2>1, <2>2 DEF EnSignalDe, En
    <2> QED BY <1>n, <1>s, <2>2, <2>3, CuentaQuieta
  <1>1. CASE WaitBusca
    <2>1. d.paso \notin Senales /\ UNCHANGED <<instancias, asignados>>
          /\ (UNCHANGED hilo \/ Pone("dispatch", [d EXCEPT !.paso = "toma", !.ya = YaTiene(d.p)])
              \/ Pone("dispatch", [d EXCEPT !.paso = "encola"]))
      BY <1>1 DEF WaitBusca, vRecurso, Senales, Sigue
    <2>2. [d EXCEPT !.paso = "toma", !.ya = YaTiene(d.p)].paso \notin Senales
          /\ [d EXCEPT !.paso = "encola"].paso \notin Senales
      BY <1>0 DEF Hilo, Senales
    <2> QED BY <1>q, <2>1, <2>2
  <1>2. CASE WaitToma
    <2>1. /\ d.paso = "toma" /\ d.paso \in ConPedido /\ d.paso \in Nombrado /\ d.paso \notin Senales
          /\ Pone("dispatch", Ocioso) /\ Ocioso.paso \notin Senales
          /\ instancias' = [instancias EXCEPT ![d.r] = @ - 1]
          /\ asignados' = [asignados EXCEPT ![d.p][Anotado(d)] = @ + 1]
      BY <1>0, <1>2 DEF WaitToma, Senales, ConPedido, Nombrado
    <2>2. d.p \in Procesos /\ d.r \in Recursos /\ d.ya \in Recursos \cup {NULO}
      BY <1>0, <2>1 DEF HiloBueno, Hilo
    <2>3. SinConsola => Anotado(d) = d.r
      BY <1>v, <2>1, <2>2 DEF DelNombre, Anotado
    <2>4. RecursosValidos => Anotado(d) \in Recursos
      BY <1>0, <2>1, <2>2 DEF Nombres, Anotado
    <2>5. (EnSignal' <=> EnSignal) /\ \A r \in Recursos : EnSignalDe(r)' <=> EnSignalDe(r)
      BY <1>0, <1>n, <2>1, FueraDeSignal
    <2> HIDE DEF d
    <2> QED BY <1>n, <2>1, <2>2, <2>3, <2>4, <2>5, CuentaToma
  <1>3. CASE WaitEncola
    <2>1. d.paso \notin Senales /\ UNCHANGED <<instancias, asignados>> /\ Pone("dispatch", Ocioso)
          /\ Ocioso.paso \notin Senales
      BY <1>0, <1>3 DEF WaitEncola, Senales
    <2> QED BY <1>q, <2>1
  <1>4. CASE SignalSaca
    <2> DEFINE x == [d EXCEPT !.paso = "repone"]
    <2>1. d.paso = "saca" /\ UNCHANGED <<instancias, asignados>> /\ Pone("dispatch", x)
      BY <1>4 DEF SignalSaca, Sigue
    <2>2. x.paso = "repone" /\ x.r = d.r
      BY <1>0 DEF Hilo
    <2> HIDE DEF x
    <2> QED BY <1>s, <2>1, <2>2 DEF Senales
  <1>5. CASE SignalRepone
    <2>1. d.r \in Recursos /\ d.paso = "repone"
      BY <1>0, <1>5 DEF SignalRepone, HiloBueno, ConPedido
    <2>2. /\ UNCHANGED asignados /\ Pone("dispatch", Ocioso)
          /\ instancias' = [instancias EXCEPT ![d.r] = @ + 1]
      BY <1>5 DEF SignalRepone
    <2>3. hilo'["dispatch"] = Ocioso
      BY <1>0, <2>2 DEF Pone, Tipos, TFin
    <2>4. EnSignal /\ ~EnSignal' /\ \A r \in Recursos : EnSignalDe(r) <=> r = d.r
      BY <1>0, <2>1, <2>3 DEF EnSignal, EnSignalDe, En
    <2> DEFINE s == d.r
    <2>5. \A r \in Recursos : Saldo(r)' = Saldo(r) + (IF r = s THEN 1 ELSE 0)
      <3> TAKE r \in Recursos
      <3>1. Repartidas(r)' = Repartidas(r)
        BY <2>2 DEF Repartidas
      <3>2. Senaladas(r)' = Senaladas(r)
        BY <1>n, SenaladasQuietas
      <3>3. instancias'[r] = instancias[r] + (IF r = d.r THEN 1 ELSE 0)
        BY <2>1, <2>2 DEF Tipos, TRec
      <3>4. Saldo(r)' = instancias'[r] + Repartidas(r)' - Instancias[r] - Senaladas(r)'
        BY SaldoSera
      <3> QED BY <3>1, <3>2, <3>3, <3>4, SaldoEs
    <2>6. (SinConsola' => SinConsola) /\ (RecursosValidos' => RecursosValidos)
      BY <1>n DEF SinConsola, RecursosValidos
    <2>7. SinConsola' => \A r \in Recursos : Saldo(r)' = IF EnSignalDe(r)' THEN -1 ELSE 0
      <3> SUFFICES ASSUME SinConsola', NEW r \in Recursos PROVE Saldo(r)' = 0
        BY <2>4 DEF EnSignalDe
      <3>1. Saldo(r) = IF r = s THEN -1 ELSE 0
        BY <2>4, <2>6 DEF Cuenta
      <3> HIDE DEF s
      <3> QED BY <2>5, <3>1
    <2>8. RecursosValidos' => Total' = 0
      <3> SUFFICES ASSUME RecursosValidos PROVE Total' = 0
        BY <2>6
      <3>1. Total = -1
        BY <2>4 DEF Cuenta
      <3>2. 1 \in Int /\ s \in Recursos
        BY <2>1
      <3> HIDE DEF s
      <3>3. Total' = Total + 1
        BY <2>5, <3>2, TotalCambia
      <3> QED BY <3>1, <3>3
    <2> QED BY <2>4, <2>7, <2>8 DEF Cuenta
  <1>6. CASE PcbExec
    <2> DEFINE x == [Ocioso EXCEPT !.paso = "libera", !.p = pid_a_finalizar, !.rs = Tiene(pid_a_finalizar)]
    <2>1. d.paso \notin Senales /\ UNCHANGED <<instancias, asignados>>
          /\ (UNCHANGED hilo \/ Pone("dispatch", x))
      BY <1>6 DEF PcbExec, En, vRecurso, Senales
    <2>2. x.paso \notin Senales
      BY DEF Ocioso, Senales
    <2> HIDE DEF x
    <2> QED BY <1>q, <2>1, <2>2
  <1>7. CASE Obtiene
    <2>1. d.paso \in ConNombre /\ UNCHANGED <<instancias, asignados>>
      BY <1>7 DEF Obtiene, ConNombre, vRecurso
    <2> DEFINE x == [d EXCEPT !.paso = IF @ = "nombre_wait" THEN "wait" ELSE "signal", !.r = nombre_recurso_recibido]
    <2>2. Pone("dispatch", x)
      BY <1>7 DEF Obtiene
    <2>3. x.paso = (IF d.paso = "nombre_wait" THEN "wait" ELSE "signal") /\ x.r = nombre_recurso_recibido
      BY <1>0 DEF Hilo
    <2> HIDE DEF x
    <2>4. CASE d.paso = "nombre_wait"
      <3>1. d.paso \notin Senales /\ x.paso \notin Senales
        BY <2>3, <2>4 DEF Senales
      <3> QED BY <1>q, <2>1, <2>2, <3>1
    <2>5. CASE d.paso = "nombre_signal"
      <3>1. d.paso \in Senales /\ x.paso \in Senales \ {"nombre_signal"}
        BY <2>3, <2>5 DEF Senales
      <3> QED BY <1>s, <2>1, <2>2, <2>3, <2>5, <3>1
    <2> QED BY <2>1, <2>4, <2>5 DEF ConNombre
  <1>8. CASE RecursoInvalido
    <2>1. d.paso \in ConNombre /\ UNCHANGED <<instancias, asignados>> /\ nombre_recurso_recibido \notin Recursos
          /\ Pone("dispatch", [d EXCEPT !.paso = "exec"])
      BY <1>8 DEF RecursoInvalido, ConNombre, vRecurso, Sigue
    <2>2. [d EXCEPT !.paso = "exec"].paso = "exec"
      BY <1>0 DEF Hilo
    <2>3. hilo'["dispatch"].paso = "exec"
      BY <1>0, <2>1, <2>2 DEF Pone, Tipos, TFin
    <2>4. ~EnSignal'
      BY <2>3 DEF EnSignal
    <2>5. (\A r \in Recursos : ~EnSignalDe(r)) /\ \A r \in Recursos : ~EnSignalDe(r)'
      BY <2>1, <2>4 DEF EnSignalDe, En, ConNombre, EnSignal
    <2>6. ~RecursosValidos
      BY <1>0, <2>1 DEF Nombres, Nombrado
    <2>7. (\A r \in Recursos : Saldo(r)' = Saldo(r)) /\ (SinConsola' => SinConsola) /\ ~RecursosValidos'
      BY <1>n, <2>1, <2>6, SaldoQuieto DEF SinConsola, RecursosValidos
    <2>8. SinConsola' => \A r \in Recursos : Saldo(r)' = IF EnSignalDe(r)' THEN -1 ELSE 0
      BY <2>5, <2>7 DEF Cuenta
    <2> QED BY <2>7, <2>8 DEF Cuenta
  <1>9. CASE Wait
    <2> DEFINE x == [d EXCEPT !.paso = "busca", !.hay = instancias[d.r] > 0]
    <2>1. d.paso \notin Senales /\ UNCHANGED <<instancias, asignados>> /\ Pone("dispatch", x)
      BY <1>9 DEF Wait, Senales, vRecurso
    <2>2. x.paso \notin Senales
      BY <1>0 DEF Hilo, Senales
    <2> HIDE DEF x
    <2> QED BY <1>q, <2>1, <2>2
  <1>10. CASE Signal
    <2>1. PICK s \in {"saca", "repone"} : d.paso = "signal" /\ Pone("dispatch", [d EXCEPT !.paso = s])
      BY <1>10 DEF Signal, Sigue
    <2> DEFINE x == [d EXCEPT !.paso = s]
    <2>2. x.paso = s /\ x.r = d.r
      BY <1>0 DEF Hilo
    <2>3. Pone("dispatch", x) /\ UNCHANGED <<instancias, asignados>>
      BY <1>10, <2>1 DEF Signal, vRecurso
    <2> HIDE DEF x
    <2>4. d.paso \in Senales /\ x.paso \in Senales \ {"nombre_signal"} /\ d.paso # "nombre_signal"
      BY <2>1, <2>2 DEF Senales
    <2> QED BY <1>s, <2>2, <2>3, <2>4
  <1> QED BY <1>1, <1>2, <1>3, <1>4, <1>5, <1>6, <1>7, <1>8, <1>9, <1>10 DEF Dispatch

LEMMA CuentaFin ==
    ASSUME Tipos, Nombres, Cuenta, falla = "ninguna", NEW h \in HilosFin, Fin(h) PROVE Cuenta'
  <1> DEFINE f == hilo[h]
  <1>0. f \in Hilo /\ HiloBueno(f)
    BY DEF Tipos, TFin, HiloBueno
  <1>n. UNCHANGED <<programa, PC, resta>>
    BY DEF Fin, BuscaExec, BuscaColas, SacaCola, Agrega, Devuelve, AsignaNombre, AsignaBusca, AsignaToma, Elimina,
           vCpu, vFin
  <1>v. SinConsola => h = "dispatch" /\ DelNombre(f)
    <2>1. SinConsola => hilo["consola"].paso = "libre" /\ DelNombre(hilo["dispatch"])
      BY DEF SinConsola, Nombres
    <2>2. f.paso # "libre"
      BY PasoDeFin DEF DeFin, DeAsignar
    <2> QED BY <2>1, <2>2 DEF HilosFin
  <1>f. f.paso \notin Senales
    BY PasoDeFin DEF DeFin, DeAsignar, Senales
  <1>e. (EnSignal' <=> EnSignal) /\ (SinConsola => \A r \in Recursos : EnSignalDe(r)' <=> EnSignalDe(r))
    <2>1. ASSUME NEW x, Pone(h, x), x.paso \notin Senales
          PROVE  (EnSignal' <=> EnSignal) /\ (SinConsola => \A r \in Recursos : EnSignalDe(r)' <=> EnSignalDe(r))
      BY <1>f, <1>v, <2>1, FueraDeSignal
    <2>2. CASE AsignaNombre(h)
      <3> DEFINE x == [f EXCEPT !.paso = "asigna_busca"]
      <3>1. x.paso \notin Senales /\ Pone(h, x)
        BY <1>0, <2>2 DEF AsignaNombre, Sigue, Hilo, Senales
      <3> HIDE DEF x
      <3> QED BY <2>1, <3>1
    <2>3. CASE AsignaBusca(h)
      <3> DEFINE x == [f EXCEPT !.paso = "asigna_toma", !.ya = YaTiene(f.q)]
      <3>1. x.paso \notin Senales /\ Pone(h, x)
        BY <1>0, <2>3 DEF AsignaBusca, Hilo, Senales
      <3> HIDE DEF x
      <3> QED BY <2>1, <3>1
    <2>4. CASE UNCHANGED hilo
      <3>1. EnSignal' <=> EnSignal
        BY <2>4 DEF EnSignal
      <3>2. CASE ~AsignaNombre(h)
        <4>1. UNCHANGED nombre_recurso_recibido
          BY <3>2 DEF Fin, BuscaExec, BuscaColas, SacaCola, Agrega, Devuelve, AsignaToma, AsignaBusca, Elimina,
                      vRecurso
        <4> QED BY <2>4, <4>1 DEF EnSignalDe, EnSignal, En
      <3> QED BY <2>2, <3>1, <3>2
    <2>5. ASSUME NEW x, Pone(h, x), x.paso \in (DeFin \cup {"libre"}) \ {"exec", "asigna_busca", "asigna_toma"}
          PROVE  (EnSignal' <=> EnSignal) /\ (SinConsola => \A r \in Recursos : EnSignalDe(r)' <=> EnSignalDe(r))
      <3>1. x.paso \notin Senales
        BY <2>5 DEF DeFin, DeAsignar, Senales
      <3> QED BY <2>1, <2>5, <3>1
    <2> QED BY <2>2, <2>3, <2>4, <2>5, PasoDeFin
  <1>1. CASE BuscaExec(h) \/ BuscaColas(h) \/ SacaCola(h) \/ Agrega(h) \/ Elimina(h) \/ AsignaNombre(h)
             \/ AsignaBusca(h)
    <2>1. UNCHANGED <<instancias, asignados>>
      BY <1>1 DEF BuscaExec, BuscaColas, SacaCola, Agrega, Elimina, AsignaNombre, AsignaBusca, vRecurso
    <2> QED BY <1>e, <1>n, <2>1, CuentaQuieta
  <1>2. CASE AsignaToma(h)
    <2>1. /\ f.paso = "asigna_toma" /\ f.paso \in DeAsignar /\ f.paso \in Nombrado
          /\ instancias' = [instancias EXCEPT ![f.r] = @ - 1]
          /\ asignados' = [asignados EXCEPT ![f.q][Anotado(f)] = @ + 1]
      BY <1>2 DEF AsignaToma, DeAsignar, Nombrado
    <2>2. f.q \in Procesos /\ f.r \in Recursos /\ f.ya \in Recursos \cup {NULO}
      BY <1>0, <2>1 DEF HiloBueno, Hilo
    <2>3. SinConsola => Anotado(f) = f.r
      BY <1>v, <2>1, <2>2 DEF DelNombre, Anotado
    <2>4. RecursosValidos => Anotado(f) \in Recursos
      BY <1>0, <2>1, <2>2 DEF Nombres, Anotado
    <2> HIDE DEF f
    <2> QED BY <1>e, <1>n, <2>1, <2>2, <2>3, <2>4, CuentaToma
  <1>3. ASSUME NEW s \in Recursos, Devuelve(h, s) PROVE Cuenta'
    <2>1. f.p \in Procesos
      BY <1>0, <1>3 DEF Devuelve, En, HiloBueno, ConProceso
    <2>2. /\ asignados' = [asignados EXCEPT ![f.p][s] = @ - 1]
          /\ instancias' = [instancias EXCEPT ![s] = @ + 1]
      BY <1>3 DEF Devuelve
    <2> HIDE DEF f
    <2> DEFINE p == f.p
    <2>3. asignados' = [asignados EXCEPT ![p][s] = @ + (-1)] /\ -1 \in Int
      <3>1. asignados[p][s] - 1 = asignados[p][s] + (-1)
        BY <2>1 DEF Tipos, TRec
      <3>2. asignados' = [asignados EXCEPT ![p][s] = asignados[p][s] - 1]
        BY <2>2
      <3>3. asignados' = [asignados EXCEPT ![p][s] = asignados[p][s] + (-1)]
        BY <3>1, <3>2
      <3> QED BY <3>3
    <2>4. \A r \in Recursos : Repartidas(r)' = Repartidas(r) + (IF r = s THEN -1 ELSE 0)
      BY <2>1, <2>3, RepartidasCambian
    <2>5. \A r \in Recursos : Saldo(r)' = Saldo(r)
      <3> TAKE r \in Recursos
      <3>1. instancias'[r] = instancias[r] + (IF r = s THEN 1 ELSE 0)
        BY <2>2 DEF Tipos, TRec
      <3>2. Senaladas(r)' = Senaladas(r)
        BY <1>n, SenaladasQuietas
      <3>3. Saldo(r)' = instancias'[r] + Repartidas(r)' - Instancias[r] - Senaladas(r)'
        BY SaldoSera
      <3> QED BY <2>4, <3>1, <3>2, <3>3, SaldoEs
    <2>6. Total' = Total
      BY <2>5, TotalQuieto
    <2>7. (SinConsola' => SinConsola) /\ (RecursosValidos' <=> RecursosValidos)
      BY <1>n DEF SinConsola, RecursosValidos
    <2>8. SinConsola' => \A r \in Recursos : Saldo(r)' = IF EnSignalDe(r)' THEN -1 ELSE 0
      BY <1>e, <2>5, <2>7 DEF Cuenta
    <2>9. RecursosValidos => Total' = IF EnSignal' THEN -1 ELSE 0
      BY <1>e, <2>6 DEF Cuenta
    <2> QED BY <2>7, <2>8, <2>9 DEF Cuenta
  <1> QED BY <1>1, <1>2, <1>3 DEF Fin

LEMMA CuentaResto ==
    ASSUME Tipos, Nombres, Cuenta, falla = "ninguna", Operador \/ Planificadores \/ ManejaLee \/ ManejaUno
    PROVE  Cuenta'
  <1>1. UNCHANGED <<instancias, asignados, nombre_recurso_recibido, programa, PC>>
    BY DEF Operador, IniciarProceso, Finalizar, Multiprogramacion, Planificadores, LargoToma, LargoMueve,
           CortoPlazo, ExecReady, ExecBlocked, ExecBlockedLibera, ExecBlockedMueve, ExecBlockedGuarda,
           BlockedReady, ExitLargoPlazo, ManejaLee, ManejaUno, vRecurso, vCpu
  <1>2. CASE UNCHANGED <<hilo, resta>>
    BY <1>1, <1>2, CuentaQuieta DEF EnSignal, EnSignalDe, En
  <1>3. ASSUME NEW p \in Procesos, Finalizar(p) PROVE Cuenta'
    <2>1. hilo'["dispatch"] = hilo["dispatch"] /\ resta' = resta - 1 /\ resta \in Nat /\ MaxFinalizar \in Nat
      BY <1>3, CotasAssumption DEF Finalizar, Pone, Tipos, TFin, HilosFin
    <2>2. ~SinConsola'
      BY <2>1 DEF SinConsola, Nombres
    <2>3. EnSignal' <=> EnSignal
      BY <2>1 DEF EnSignal
    <2>4. Total' = Total /\ (RecursosValidos' <=> RecursosValidos)
      BY <1>1, SaldoQuieto DEF RecursosValidos
    <2> QED BY <2>2, <2>3, <2>4 DEF Cuenta
  <1>4. UNCHANGED <<hilo, resta>> \/ \E p \in Procesos : Finalizar(p)
    BY DEF Operador, IniciarProceso, Multiprogramacion, Planificadores, LargoToma, LargoMueve,
           CortoPlazo, ExecReady, ExecBlocked, ExecBlockedLibera, ExecBlockedMueve, ExecBlockedGuarda,
           BlockedReady, ExitLargoPlazo, ManejaLee, ManejaUno, vFin
  <1> QED BY <1>2, <1>3, <1>4

LEMMA CuentaSiempre ==
    ASSUME Tipos, Nombres, Cuenta, [Next]_vars PROVE Cuenta'
  <1>1. CASE UNCHANGED vars
    <2>1. UNCHANGED <<instancias, asignados, nombre_recurso_recibido, programa, PC, hilo, falla, resta>>
      BY <1>1 DEF vars, vRecurso, vCpu, vFin
    <2>2. CASE falla = "ninguna"
      BY <2>1, <2>2, CuentaQuieta DEF EnSignal, EnSignalDe, En
    <2>3. CASE falla # "ninguna"
      BY <2>1, <2>3 DEF Cuenta, SinConsola
    <2> QED BY <2>2, <2>3
  <1>2. CASE Next
    <2>1. falla = "ninguna" /\ "dispatch" \in HilosFin /\ "consola" \in HilosFin
      BY <1>2 DEF Next, HilosFin
    <2> QED BY <1>2, <2>1, CuentaCpu, CuentaDispatch, CuentaFin, CuentaResto DEF Next
  <1> QED BY <1>1, <1>2

(* While nobody is ended from the console, the instances of each resource, *)
(* free and held by processes, add up to the ones of the configuration and *)
(* one for each SIGNAL.  Whoever is ended, that is so of all the resources *)
(* together when programs name no other: the hand-over of liberar_recursos *)
(* in two threads at a time may file an instance under another name, but   *)
(* neither loses one nor makes one.                                        *)
THEOREM InstanciasSiempreContadas == Spec => []InstanciasContadas
  <1>1. Spec => [](Tipos /\ Nombres /\ Cuenta)
    <2>1. Init => Tipos /\ Nombres /\ Cuenta
      BY TiposAlInicio, NombresAlInicio, CuentaAlInicio
    <2>2. Tipos /\ Nombres /\ Cuenta /\ [Next]_vars => Tipos' /\ Nombres' /\ Cuenta'
      BY TiposSiempre, NombresSiempre, CuentaSiempre
    <2> QED BY <2>1, <2>2, PTL DEF Spec
  <1>2. Cuenta => InstanciasContadas
    BY CuentaEsContadas
  <1> QED BY <1>1, <1>2, PTL

-----------------------------------------------------------------------------
(* The wake-ups.  Nobody ended from the console and no program asking for  *)
(* a resource twice, who holds an instance or waits for one has asked for  *)
(* it, so who is asking now neither holds nor waits.                       *)

Pidio(p, r) == \E i \in 1..PC[p] : programa[p][i] = [op |-> "WAIT", r |-> r]
EnNombre == {"nombre_wait", "wait", "busca", "toma", "encola"}
Atados == EnNombre \cup DeAsignar
Nuevo(p, r) == Pidio(p, r) /\ asignados[p][r] = 0 /\ ~Esta(p, bloqueados[r])
Limpio(d) == d.paso \in EnNombre /\ nombre_recurso_recibido \in Recursos => Nuevo(d.p, nombre_recurso_recibido)
Conocido(d) == d.paso \in DeAsignar => Pidio(d.q, d.r)
Pedidos ==
    /\ hilo["consola"].paso = "libre"
    /\ \A p \in Procesos : PC[p] <= Len(programa[p])
    /\ \A p \in Procesos : \A r \in Recursos : asignados[p][r] > 0 \/ Esta(p, bloqueados[r]) => Pidio(p, r)
    /\ Limpio(hilo["dispatch"]) /\ Conocido(hilo["dispatch"])

Quienes == Suma([r \in Recursos |-> Cardinality(Pendientes(r))], Recursos)
Camino == sem["t_exec_blocked"] + (IF bloqueo = "mueve" THEN 1 ELSE 0)
Avisados == Len(colas["BLOCK"]) + Camino + (IF hilo["dispatch"].paso = "saca" THEN 1 ELSE 0)
            <= Quienes + sem["t_blocked_ready"] + (IF hilo["dispatch"].paso = "encola" THEN 1 ELSE 0)

Simple == SinConsola /\ SinReentrada
Avisos == resta <= MaxFinalizar /\ (Simple => Pedidos /\ Avisados)

LEMMA PedidosAlInicio == Init => Avisos
  <1> SUFFICES ASSUME Init PROVE Avisos
    OBVIOUS
  <1>0. Tipos
    BY TiposAlInicio
  <1>1. resta = MaxFinalizar /\ MaxFinalizar \in Nat /\ Ocioso.paso = "libre"
    BY CotasAssumption DEF Init, Ocioso
  <1>2. \A p \in Procesos : Len(programa[p]) \in Nat /\ PC[p] = 0
    BY ProgramasAssumption DEF Init
  <1>3. \A p \in Procesos : \A r \in Recursos : asignados[p][r] = 0 /\ bloqueados[r] = <<>>
    BY DEF Init
  <1>4. \A p : ~Esta(p, <<>>)
    BY DEF Esta
  <1>5. hilo["dispatch"] = Ocioso /\ hilo["consola"] = Ocioso
    BY DEF Init, HilosFin
  <1>6. Pedidos
    BY <1>1, <1>2, <1>3, <1>4, <1>5 DEF Pedidos, Limpio, Conocido, EnNombre, DeAsignar
  <1>7. Quienes = 0
    <2>1. \A r \in Recursos : Cardinality(Pendientes(r)) = 0
      <3> SUFFICES ASSUME NEW r \in Recursos PROVE Cardinality(Pendientes(r)) = 0
        OBVIOUS
      <3>1. Pendientes(r) = {}
        <4>1. bloqueados[r] \in Seq(Procesos)
          BY <1>0 DEF Tipos, TRec
        <4> QED BY <1>3, <1>4, <4>1, EstaEnConjunto DEF Pendientes
      <3> QED BY <3>1, FS_EmptySet
    <2>2. [r \in Recursos |-> Cardinality(Pendientes(r))] = [r \in Recursos |-> 0]
      BY <2>1
    <2> QED BY <2>2, SumaDeCeros, FinitosAssumption DEF Quienes
  <1>8. Len(colas["BLOCK"]) = 0 /\ sem["t_exec_blocked"] = 0 /\ sem["t_blocked_ready"] = 0 /\ bloqueo = "espera"
    BY DEF Init, Colas, Semaforos
  <1>9. Avisados
    BY <1>1, <1>5, <1>7, <1>8 DEF Avisados, Camino
  <1> QED BY <1>1, <1>6, <1>9 DEF Avisos

LEMMA PedidosQuietos ==
    ASSUME Tipos, Pedidos, UNCHANGED <<bloqueados, asignados, programa, PC>>,
           \/ UNCHANGED <<hilo, nombre_recurso_recibido>>
           \/ \E x : Pone("dispatch", x) /\ x.paso \notin Atados
    PROVE  Pedidos'
  <1>1. \A p, r : Pidio(p, r)' <=> Pidio(p, r)
    BY DEF Pidio
  <1>2. hilo'["consola"] = hilo["consola"]
    BY DEF Pone, Tipos, TFin, HilosFin
  <1>3. Limpio(hilo["dispatch"])' /\ Conocido(hilo["dispatch"])'
    <2>1. CASE UNCHANGED <<hilo, nombre_recurso_recibido>>
      BY <1>1, <2>1 DEF Pedidos, Limpio, Conocido, Nuevo
    <2>2. CASE \E x : Pone("dispatch", x) /\ x.paso \notin Atados
      <3>1. hilo'["dispatch"].paso \notin Atados
        BY <2>2 DEF Pone, Tipos, TFin, HilosFin
      <3> QED BY <3>1 DEF Atados, Limpio, Conocido
    <2> QED BY <2>1, <2>2
  <1> QED BY <1>1, <1>2, <1>3 DEF Pedidos

LEMMA PedidosCpu ==
    ASSUME Tipos, Pedidos, SinReentrada, falla' = "ninguna", Cpu PROVE Pedidos'
  <1> SUFFICES ASSUME NEW p \in Procesos,
                      \/ Calcula(p) \/ FinDeQuantum(p) \/ Termina(p) \/ Desincronizado(p) \/ Pisado(p)
                      \/ \E i \in ToSet(programa[p]) : Recibe(p, i)
               PROVE  Pedidos'
    BY DEF Cpu
  <1>0. /\ hilo \in [HilosFin -> Hilo] /\ "dispatch" \in HilosFin /\ "consola" \in HilosFin
        /\ PC \in [Procesos -> Nat] /\ Len(programa[p]) \in Nat
    <2>1. programa[p] \in Programas
      BY DEF Tipos, TCpu
    <2> QED BY <2>1, ProgramasAssumption DEF Tipos, TFin, TCpu, HilosFin
  <1>1. ASSUME NEW i, Ejecuta(p, i)
        PROVE  /\ programa' = programa /\ \A q \in Procesos : PC'[q] <= Len(programa[q])
               /\ \A q \in Procesos : \A r : Pidio(q, r) => Pidio(q, r)'
               /\ \A r : i = [op |-> "WAIT", r |-> r] => Pidio(p, r)' /\ ~Pidio(p, r)
               /\ hilo["dispatch"].paso = "libre"
    <2>1. /\ programa' = programa /\ PC' = [PC EXCEPT ![p] = @ + 1] /\ PC[p] < Len(programa[p])
          /\ programa[p][PC[p] + 1] = i /\ hilo["dispatch"].paso = "libre"
      BY <1>1 DEF Ejecuta, En
    <2>2. \A q \in Procesos : PC'[q] <= Len(programa[q])
      BY <1>0, <2>1 DEF Pedidos
    <2>3. \A q \in Procesos : 1..PC[q] \subseteq 1..PC'[q]
      BY <1>0, <2>1
    <2>4. \A q \in Procesos : \A r : Pidio(q, r) => Pidio(q, r)'
      BY <2>1, <2>3 DEF Pidio
    <2>5. ASSUME NEW r, i = [op |-> "WAIT", r |-> r] PROVE Pidio(p, r)' /\ ~Pidio(p, r)
      <3>1. PC[p] + 1 \in 1..PC'[p] /\ PC[p] + 1 \in 1..Len(programa[p])
        BY <1>0, <2>1
      <3>2. Pidio(p, r)'
        BY <2>1, <2>5, <3>1 DEF Pidio
      <3>3. i.op = "WAIT"
        BY <2>5
      <3>4. ASSUME NEW k \in 1..PC[p], programa[p][k] = i PROVE FALSE
        <4>1. k \in 1..Len(programa[p]) /\ k # PC[p] + 1
          BY <1>0, <2>1, <3>4
        <4> QED BY <2>1, <3>1, <3>3, <3>4, <4>1 DEF SinReentrada
      <3> QED BY <2>5, <3>2, <3>4 DEF Pidio
    <2> QED BY <2>1, <2>2, <2>4, <2>5
  <1>2. ASSUME NEW i, Ejecuta(p, i), UNCHANGED <<asignados, bloqueados>>,
               \/ UNCHANGED hilo
               \/ \E x : Pone("dispatch", x) /\ x.paso \notin Atados
        PROVE  Pedidos'
    <2>1. hilo'["consola"] = hilo["consola"]
      BY <1>0, <1>2 DEF Pone
    <2>2. hilo'["dispatch"].paso \notin Atados
      BY <1>0, <1>1, <1>2 DEF Pone, Atados, EnNombre, DeAsignar
    <2>3. Limpio(hilo["dispatch"])' /\ Conocido(hilo["dispatch"])'
      BY <2>2 DEF Limpio, Conocido, Atados
    <2> QED BY <1>1, <1>2, <2>1, <2>3 DEF Pedidos
  <1>3. CASE Calcula(p)
    <2>1. Ejecuta(p, [op |-> "SET", r |-> NULO]) /\ UNCHANGED <<asignados, bloqueados, hilo>>
      BY <1>3 DEF Calcula, vRecurso, vFin
    <2> QED BY <1>2, <2>1
  <1>4. CASE FinDeQuantum(p)
    <2>1. Ejecuta(p, [op |-> "SET", r |-> NULO]) /\ UNCHANGED <<asignados, bloqueados, hilo>>
      BY <1>4 DEF FinDeQuantum, Sale, vRecurso, vFin
    <2> QED BY <1>2, <2>1
  <1>5. CASE Termina(p)
    <2>1. \E i : Ejecuta(p, i)
      BY <1>5 DEF Termina, Sale
    <2>2. UNCHANGED <<asignados, bloqueados>> /\ Pone("dispatch", [Ocioso EXCEPT !.paso = "pcb_exec"])
      BY <1>5 DEF Termina, vRecurso
    <2>3. [Ocioso EXCEPT !.paso = "pcb_exec"].paso \notin Atados
      BY DEF Ocioso, Atados, EnNombre, DeAsignar
    <2>4. \E x : Pone("dispatch", x) /\ x.paso \notin Atados
      BY <2>2, <2>3
    <2> QED BY <1>2, <2>1, <2>2, <2>4
  <1>6. CASE Desincronizado(p) \/ Pisado(p)
    BY <1>6 DEF Desincronizado, Pisado, Falla
  <1>7. ASSUME NEW i \in ToSet(programa[p]), Recibe(p, i) PROVE Pedidos'
    <2> DEFINE x == [Ocioso EXCEPT !.paso = IF i.op = "WAIT" THEN "nombre_wait" ELSE "nombre_signal", !.p = p]
    <2>1. Ejecuta(p, i) /\ UNCHANGED <<asignados, bloqueados>> /\ Pone("dispatch", x)
          /\ nombre_recurso_recibido' = i.r
      BY <1>7 DEF Recibe, Sale
    <2>2. x.paso = (IF i.op = "WAIT" THEN "nombre_wait" ELSE "nombre_signal") /\ x.p = p
      BY DEF Ocioso
    <2> HIDE DEF x
    <2>3. CASE i.op # "WAIT"
      <3>1. x.paso \notin Atados
        BY <2>2, <2>3 DEF Atados, EnNombre, DeAsignar
      <3> QED BY <1>2, <2>1, <3>1
    <2>4. CASE i.op = "WAIT"
      <3>1. i = [op |-> "WAIT", r |-> i.r]
        BY <1>7, <2>4, InstruccionEs
      <3>2. Pidio(p, i.r)' /\ ~Pidio(p, i.r) /\ hilo'["dispatch"] = x /\ hilo'["consola"] = hilo["consola"]
        BY <1>0, <1>1, <2>1, <3>1 DEF Pone
      <3>3. i.r \in Recursos => asignados[p][i.r] = 0 /\ ~Esta(p, bloqueados[i.r])
        <4> SUFFICES ASSUME i.r \in Recursos PROVE asignados[p][i.r] = 0 /\ ~Esta(p, bloqueados[i.r])
          OBVIOUS
        <4>1. asignados[p][i.r] \in Nat
          BY DEF Tipos, TRec
        <4> QED BY <3>2, <4>1 DEF Pedidos
      <3>4. Limpio(hilo["dispatch"])'
        BY <2>1, <2>2, <3>2, <3>3 DEF Limpio, Nuevo
      <3>5. Conocido(hilo["dispatch"])'
        BY <2>2, <2>4, <3>2 DEF Conocido, DeAsignar
      <3> QED BY <1>1, <2>1, <3>2, <3>4, <3>5 DEF Pedidos
    <2> QED BY <2>3, <2>4
  <1> QED BY <1>3, <1>4, <1>5, <1>6, <1>7

LEMMA PedidosDispatch ==
    ASSUME Tipos, Nombres, resta = MaxFinalizar, Pedidos, Dispatch PROVE Pedidos'
  <1> DEFINE d == hilo["dispatch"]
  <1>0. /\ "dispatch" \in HilosFin /\ "consola" \in HilosFin /\ HiloBueno(d) /\ Ocioso.paso = "libre"
        /\ d \in Hilo /\ hilo \in [HilosFin -> Hilo] /\ Limpio(d) /\ DelNombre(d)
        /\ bloqueados \in [Recursos -> Seq(Procesos)] /\ asignados \in [Procesos -> [Recursos -> Nat]]
    BY DEF HilosFin, Tipos, TFin, TRec, Ocioso, Pedidos, Nombres
  <1>n. UNCHANGED <<programa, PC, nombre_recurso_recibido>>
    BY DEF Dispatch, Obtiene, RecursoInvalido, Wait, Signal, WaitBusca, WaitToma, WaitEncola, SignalSaca,
           SignalRepone, PcbExec, vCpu, vRecurso
  <1>00. \A p, r : Pidio(p, r)' <=> Pidio(p, r)
    BY <1>n DEF Pidio
  <1>l. "libre" \notin Atados /\ "exec" \notin Atados /\ "libera" \notin Atados /\ "signal" \notin Atados
        /\ "saca" \notin Atados /\ "repone" \notin Atados
    BY DEF Atados, EnNombre, DeAsignar
  <1>q. ASSUME UNCHANGED <<asignados, bloqueados>>,
               UNCHANGED hilo \/ \E x : Pone("dispatch", x) /\ x.paso \notin Atados
        PROVE  Pedidos'
    BY <1>n, <1>q, PedidosQuietos
  (* One statement of a WAIT after another.                                *)
  <1>w. ASSUME UNCHANGED <<asignados, bloqueados>>, NEW x, Pone("dispatch", x),
               d.paso \in EnNombre, x.paso \in EnNombre, x.p = d.p
        PROVE  Pedidos'
    <2>1. hilo'["dispatch"] = x /\ hilo'["consola"] = hilo["consola"]
      BY <1>0, <1>w DEF Pone
    <2>2. Limpio(hilo["dispatch"])'
      BY <1>0, <1>n, <1>00, <1>w, <2>1 DEF Limpio, Nuevo
    <2>3. Conocido(hilo["dispatch"])'
      BY <1>w, <2>1 DEF Conocido, EnNombre, DeAsignar
    <2> QED BY <1>n, <1>00, <1>w, <2>1, <2>2, <2>3 DEF Pedidos
  <1>u. ASSUME d.paso \in {"toma", "encola"} PROVE d.p \in Procesos /\ d.r \in Recursos /\ Pidio(d.p, d.r)
    <2>1. d.p \in Procesos /\ d.r \in Recursos /\ d.r = nombre_recurso_recibido
      BY <1>0, <1>u DEF HiloBueno, ConPedido, DelNombre
    <2> QED BY <1>0, <1>u, <2>1 DEF Limpio, Nuevo, EnNombre
  (* The WAIT is done with.                                                *)
  <1>f. ASSUME Pone("dispatch", Ocioso),
               \A p \in Procesos : \A r \in Recursos :
                   asignados'[p][r] > 0 \/ Esta(p, bloqueados'[r]) => Pidio(p, r)
        PROVE  Pedidos'
    <2>1. hilo'["dispatch"].paso = "libre" /\ hilo'["consola"] = hilo["consola"]
      BY <1>0, <1>f DEF Pone
    <2>2. Limpio(hilo["dispatch"])' /\ Conocido(hilo["dispatch"])'
      BY <1>l, <2>1 DEF Limpio, Conocido, Atados
    <2> QED BY <1>n, <1>00, <1>f, <2>1, <2>2 DEF Pedidos
  <1>1. CASE WaitBusca
    <2>1. d.paso = "busca" /\ UNCHANGED <<bloqueados, asignados>>
          /\ (UNCHANGED hilo \/ Pone("dispatch", [d EXCEPT !.paso = "toma", !.ya = YaTiene(d.p)])
              \/ Pone("dispatch", [d EXCEPT !.paso = "encola"]))
      BY <1>1 DEF WaitBusca, vRecurso, Sigue
    <2>2. [d EXCEPT !.paso = "toma", !.ya = YaTiene(d.p)].paso = "toma"
          /\ [d EXCEPT !.paso = "toma", !.ya = YaTiene(d.p)].p = d.p
          /\ [d EXCEPT !.paso = "encola"].paso = "encola" /\ [d EXCEPT !.paso = "encola"].p = d.p
      BY <1>0 DEF Hilo
    <2>3. d.paso \in EnNombre /\ "toma" \in EnNombre /\ "encola" \in EnNombre
      BY <2>1 DEF EnNombre
    <2> QED BY <1>q, <1>w, <2>1, <2>2, <2>3
  <1>2. CASE WaitToma
    <2>1. d.p \in Procesos /\ d.r \in Recursos /\ d.paso = "toma" /\ Pidio(d.p, d.r)
      BY <1>u, <1>2 DEF WaitToma
    <2>2. Anotado(d) = d.r
      BY <1>0, <2>1 DEF DelNombre, Anotado, ConPedido
    <2>3. /\ UNCHANGED bloqueados /\ Pone("dispatch", Ocioso)
          /\ asignados' = [asignados EXCEPT ![d.p][d.r] = @ + 1]
      BY <1>2, <2>2 DEF WaitToma
    <2>4. \A p \in Procesos : \A r \in Recursos : asignados'[p][r] > 0 => Pidio(p, r)
      <3>1. \A p \in Procesos : \A r \in Recursos :
               (p = d.p /\ r = d.r) \/ asignados'[p][r] = asignados[p][r]
        BY <1>0, <2>1, <2>3
      <3> QED BY <2>1, <3>1 DEF Pedidos
    <2> QED BY <1>f, <2>3, <2>4 DEF Pedidos
  <1>3. CASE WaitEncola
    <2>1. d.p \in Procesos /\ d.r \in Recursos /\ d.paso = "encola" /\ Pidio(d.p, d.r)
      BY <1>u, <1>3 DEF WaitEncola
    <2>2. /\ UNCHANGED asignados /\ Pone("dispatch", Ocioso)
          /\ bloqueados' = [bloqueados EXCEPT ![d.r] = Append(@, d.p)]
      BY <1>3 DEF WaitEncola
    <2>3. \A p \in Procesos : \A r \in Recursos : Esta(p, bloqueados'[r]) => Pidio(p, r)
      <3>1. \A r \in Recursos : r # d.r => bloqueados'[r] = bloqueados[r]
        BY <1>0, <2>2
      <3>2. \A p : Esta(p, bloqueados'[d.r]) => Esta(p, bloqueados[d.r]) \/ p = d.p
        BY <1>0, <2>1, <2>2, AlAgregar
      <3> QED BY <2>1, <3>1, <3>2 DEF Pedidos
    <2> QED BY <1>f, <2>2, <2>3 DEF Pedidos
  <1>4. CASE SignalSaca
    <2> DEFINE x == [d EXCEPT !.paso = "repone"]
    <2>1. d.p \in Procesos /\ d.r \in Recursos /\ d.paso = "saca"
      BY <1>0, <1>4 DEF SignalSaca, HiloBueno, ConPedido
    <2>2. /\ UNCHANGED asignados /\ Pone("dispatch", x)
          /\ bloqueados' = [bloqueados EXCEPT ![d.r] = Tail(@)] /\ bloqueados[d.r] # <<>>
      BY <1>4 DEF SignalSaca, Sigue
    <2>4. hilo'["dispatch"].paso = "repone" /\ hilo'["consola"] = hilo["consola"]
      BY <1>0, <2>2 DEF Pone, Hilo
    <2>5. Limpio(hilo["dispatch"])' /\ Conocido(hilo["dispatch"])'
      BY <1>l, <2>4 DEF Limpio, Conocido, Atados
    <2>6. \A p \in Procesos : \A r \in Recursos : Esta(p, bloqueados'[r]) => Esta(p, bloqueados[r])
      <3>1. \A r \in Recursos : r # d.r => bloqueados'[r] = bloqueados[r]
        BY <1>0, <2>2
      <3>2. \A p : Esta(p, bloqueados'[d.r]) => Esta(p, bloqueados[d.r])
        BY <1>0, <2>1, <2>2, AlSacar
      <3> QED BY <3>1, <3>2
    <2> QED BY <1>n, <1>00, <2>2, <2>4, <2>5, <2>6 DEF Pedidos
  <1>5. CASE SignalRepone
    <2>1. UNCHANGED <<bloqueados, asignados>> /\ Pone("dispatch", Ocioso)
      BY <1>5 DEF SignalRepone
    <2> QED BY <1>0, <1>l, <1>q, <2>1
  <1>6. CASE PcbExec
    <2> DEFINE x == [Ocioso EXCEPT !.paso = "libera", !.p = pid_a_finalizar, !.rs = Tiene(pid_a_finalizar)]
    <2>1. UNCHANGED <<bloqueados, asignados>> /\ (UNCHANGED hilo \/ Pone("dispatch", x))
      BY <1>6 DEF PcbExec, vRecurso
    <2>2. x.paso = "libera"
      BY DEF Ocioso
    <2> HIDE DEF x
    <2> QED BY <1>l, <1>q, <2>1, <2>2
  <1>7. CASE Obtiene
    <2> DEFINE x == [d EXCEPT !.paso = IF @ = "nombre_wait" THEN "wait" ELSE "signal", !.r = nombre_recurso_recibido]
    <2>1. UNCHANGED <<bloqueados, asignados>> /\ Pone("dispatch", x)
      BY <1>7 DEF Obtiene, vRecurso
    <2>2. x.paso = (IF d.paso = "nombre_wait" THEN "wait" ELSE "signal") /\ x.p = d.p
      BY <1>0 DEF Hilo
    <2> HIDE DEF x
    <2>3. CASE d.paso = "nombre_wait"
      <3>1. d.paso \in EnNombre /\ x.paso \in EnNombre
        BY <2>2, <2>3 DEF EnNombre
      <3> QED BY <1>w, <2>1, <2>2, <3>1
    <2>4. CASE d.paso # "nombre_wait"
      BY <1>l, <1>q, <2>1, <2>2, <2>4
    <2> QED BY <2>3, <2>4
  <1>8. CASE RecursoInvalido
    <2> DEFINE x == [d EXCEPT !.paso = "exec"]
    <2>1. UNCHANGED <<bloqueados, asignados>> /\ Pone("dispatch", x)
      BY <1>8 DEF RecursoInvalido, vRecurso, Sigue
    <2>2. x.paso = "exec"
      BY <1>0 DEF Hilo
    <2> HIDE DEF x
    <2> QED BY <1>l, <1>q, <2>1, <2>2
  <1>9. CASE Wait
    <2> DEFINE x == [d EXCEPT !.paso = "busca", !.hay = instancias[d.r] > 0]
    <2>1. UNCHANGED <<bloqueados, asignados>> /\ Pone("dispatch", x) /\ d.paso = "wait"
      BY <1>9 DEF Wait, vRecurso
    <2>2. x.paso = "busca" /\ x.p = d.p
      BY <1>0 DEF Hilo
    <2> HIDE DEF x
    <2>3. d.paso \in EnNombre /\ x.paso \in EnNombre
      BY <2>1, <2>2 DEF EnNombre
    <2> QED BY <1>w, <2>1, <2>2, <2>3
  <1>10. CASE Signal
    <2>1. PICK s \in {"saca", "repone"} : Pone("dispatch", [d EXCEPT !.paso = s])
      BY <1>10 DEF Signal, Sigue
    <2> DEFINE x == [d EXCEPT !.paso = s]
    <2>2. x.paso = s
      BY <1>0 DEF Hilo
    <2>3. Pone("dispatch", x) /\ UNCHANGED <<asignados, bloqueados>>
      BY <1>10, <2>1 DEF Signal, vRecurso
    <2> HIDE DEF x
    <2> QED BY <1>l, <1>q, <2>1, <2>2, <2>3
  <1> QED BY <1>1, <1>2, <1>3, <1>4, <1>5, <1>6, <1>7, <1>8, <1>9, <1>10 DEF Dispatch

LEMMA PedidosFin ==
    ASSUME Tipos, Nombres, resta = MaxFinalizar, Pedidos, Fin("dispatch") PROVE Pedidos'
  <1> DEFINE h == "dispatch"
             f == hilo[h]
  <1>0. /\ h \in HilosFin /\ "consola" \in HilosFin /\ h # "consola" /\ HiloBueno(f)
        /\ f \in Hilo /\ hilo \in [HilosFin -> Hilo] /\ Conocido(f) /\ DelNombre(f)
        /\ bloqueados \in [Recursos -> Seq(Procesos)] /\ asignados \in [Procesos -> [Recursos -> Nat]]
    BY DEF HilosFin, Tipos, TFin, TRec, Pedidos, Nombres
  <1>n. UNCHANGED <<programa, PC>>
    BY DEF Fin, BuscaExec, BuscaColas, SacaCola, Agrega, Devuelve, AsignaNombre, AsignaBusca, AsignaToma, Elimina,
           vCpu
  <1>00. \A p, r : Pidio(p, r)' <=> Pidio(p, r)
    BY <1>n DEF Pidio
  (* The thread is left with a process known to have asked.                *)
  <1>k. ASSUME NEW x, Pone(h, x), x.paso \in DeAsignar => Pidio(x.q, x.r), x.paso \notin EnNombre,
               \A p \in Procesos : \A r \in Recursos :
                   asignados'[p][r] > 0 \/ Esta(p, bloqueados'[r]) => Pidio(p, r)
        PROVE  Pedidos'
    <2>1. hilo'["dispatch"] = x /\ hilo'["consola"] = hilo["consola"]
      BY <1>0, <1>k DEF Pone
    <2>2. Limpio(hilo["dispatch"])' /\ Conocido(hilo["dispatch"])'
      BY <1>00, <1>k, <2>1 DEF Limpio, Conocido
    <2> QED BY <1>n, <1>00, <1>k, <2>1, <2>2 DEF Pedidos
  <1>l. \A s \in {"libre", "colas", "saca_cola", "agrega", "libera"} : s \notin DeAsignar /\ s \notin EnNombre
    BY DEF DeAsignar, EnNombre
  <1>1. CASE BuscaExec(h) \/ BuscaColas(h) \/ SacaCola(h) \/ Agrega(h) \/ Elimina(h)
    <2>1. UNCHANGED <<asignados, bloqueados>>
      BY <1>1 DEF BuscaExec, BuscaColas, SacaCola, Agrega, Elimina, vRecurso
    <2>2. \E x : Pone(h, x) /\ x.paso \in {"libre", "colas", "saca_cola", "agrega", "libera"}
      <3>1. CASE BuscaExec(h)
        <4>1. [f EXCEPT !.paso = "colas"].paso = "colas" /\ Ocioso.paso = "libre"
          BY <1>0 DEF Hilo, Ocioso
        <4>2. Pone(h, Ocioso) \/ Pone(h, [f EXCEPT !.paso = "colas"])
          BY <3>1 DEF BuscaExec, Sigue
        <4> QED BY <4>1, <4>2
      <3>2. CASE BuscaColas(h)
        <4>1. \A c : [Ocioso EXCEPT !.paso = "saca_cola", !.p = pid_a_finalizar, !.cola = c].paso = "saca_cola"
          BY DEF Ocioso
        <4>2. Ocioso.paso = "libre"
          BY DEF Ocioso
        <4> QED BY <3>2, <4>1, <4>2 DEF BuscaColas
      <3>3. CASE SacaCola(h)
        <4>1. \A q : [f EXCEPT !.paso = "agrega", !.q = q].paso = "agrega"
          BY <1>0 DEF Hilo
        <4> QED BY <3>3, <4>1 DEF SacaCola
      <3>4. CASE Agrega(h)
        <4>1. \A T : [f EXCEPT !.paso = "libera", !.rs = T].paso = "libera"
          BY <1>0 DEF Hilo
        <4> QED BY <3>4, <4>1 DEF Agrega
      <3>5. CASE Elimina(h)
        <4>1. Ocioso.paso = "libre"
          BY DEF Ocioso
        <4> QED BY <3>5, <4>1 DEF Elimina
      <3> QED BY <1>1, <3>1, <3>2, <3>3, <3>4, <3>5
    <2>3. PICK x : Pone(h, x) /\ x.paso \in {"libre", "colas", "saca_cola", "agrega", "libera"}
      BY <2>2
    <2>4. x.paso \notin DeAsignar /\ x.paso \notin EnNombre
      BY <1>l, <2>3
    <2> QED BY <1>k, <2>1, <2>3, <2>4 DEF Pedidos
  <1>2. CASE AsignaNombre(h)
    <2> DEFINE x == [f EXCEPT !.paso = "asigna_busca"]
    <2>1. f.paso \in DeAsignar /\ Pone(h, x) /\ UNCHANGED <<asignados, bloqueados>>
      BY <1>2 DEF AsignaNombre, En, DeAsignar, Sigue
    <2>2. x.q = f.q /\ x.r = f.r /\ x.paso = "asigna_busca"
      BY <1>0 DEF Hilo
    <2> HIDE DEF x
    <2>3. Pidio(x.q, x.r) /\ x.paso \notin EnNombre
      BY <1>0, <2>1, <2>2 DEF Conocido, EnNombre
    <2> QED BY <1>k, <2>1, <2>3 DEF Pedidos
  <1>3. CASE AsignaBusca(h)
    <2> DEFINE x == [f EXCEPT !.paso = "asigna_toma", !.ya = YaTiene(f.q)]
    <2>1. f.paso \in DeAsignar /\ Pone(h, x) /\ UNCHANGED <<asignados, bloqueados>>
      BY <1>3 DEF AsignaBusca, En, DeAsignar, vRecurso
    <2>2. x.q = f.q /\ x.r = f.r /\ x.paso = "asigna_toma"
      BY <1>0 DEF Hilo
    <2> HIDE DEF x
    <2>3. Pidio(x.q, x.r) /\ x.paso \notin EnNombre
      BY <1>0, <2>1, <2>2 DEF Conocido, EnNombre
    <2> QED BY <1>k, <2>1, <2>3 DEF Pedidos
  <1>7. CASE AsignaToma(h)
    <2> DEFINE x == [f EXCEPT !.paso = "libera"]
    <2>1. f.paso = "asigna_toma" /\ f.q \in Procesos /\ f.r \in Recursos /\ Pidio(f.q, f.r)
      BY <1>0, <1>7 DEF AsignaToma, HiloBueno, Conocido, DeAsignar
    <2>2. Anotado(f) = f.r
      BY <1>0, <2>1 DEF DelNombre, Anotado
    <2>3. /\ UNCHANGED bloqueados /\ Pone(h, x)
          /\ asignados' = [asignados EXCEPT ![f.q][f.r] = @ + 1]
      BY <1>7, <2>2 DEF AsignaToma, Sigue
    <2>4. x.paso = "libera"
      BY <1>0 DEF Hilo
    <2>5. \A p \in Procesos : \A r \in Recursos : asignados'[p][r] > 0 => Pidio(p, r)
      <3>1. \A p \in Procesos : \A r \in Recursos :
               (p = f.q /\ r = f.r) \/ asignados'[p][r] = asignados[p][r]
        BY <1>0, <2>1, <2>3
      <3> QED BY <2>1, <3>1 DEF Pedidos
    <2> HIDE DEF x
    <2>6. x.paso \notin DeAsignar /\ x.paso \notin EnNombre
      BY <1>l, <2>4
    <2> QED BY <1>k, <2>3, <2>5, <2>6 DEF Pedidos
  <1>8. ASSUME NEW s \in Recursos, Devuelve(h, s) PROVE Pedidos'
    <2> DEFINE queda == SinPropias(bloqueados[s], f.p)
    <2>1. f.p \in Procesos /\ asignados[f.p][s] > 0
      BY <1>0, <1>8 DEF Devuelve, En, HiloBueno, ConProceso
    <2>2. queda \in Seq(Procesos) /\ \A x : Esta(x, queda) => Esta(x, bloqueados[s])
      BY <1>0, PropiasQuitadas
    <2>3. /\ bloqueados' = [bloqueados EXCEPT ![s] = queda]
          /\ asignados' = [asignados EXCEPT ![f.p][s] = @ - 1]
      BY <1>8 DEF Devuelve
    <2>4. \/ UNCHANGED hilo
          \/ queda # <<>> /\ Pone(h, [f EXCEPT !.paso = "asigna", !.r = s, !.q = Head(queda)])
      BY <1>8 DEF Devuelve
    <2>5. f.paso = "libera"
      BY <1>8 DEF Devuelve, En
    <2> HIDE DEF queda
    <2>6. \A p \in Procesos : \A r \in Recursos : asignados'[p][r] > 0 => asignados[p][r] > 0
      BY <1>0, <2>1, <2>3
    <2>7. \A p \in Procesos : \A r \in Recursos : Esta(p, bloqueados'[r]) => Esta(p, bloqueados[r])
      BY <1>0, <2>2, <2>3
    <2>8. CASE UNCHANGED hilo
      <3>1. Limpio(hilo["dispatch"])' /\ Conocido(hilo["dispatch"])'
        BY <1>l, <2>5, <2>8 DEF Limpio, Conocido
      <3> QED BY <1>n, <1>00, <2>6, <2>7, <2>8, <3>1 DEF Pedidos
    <2>9. CASE queda # <<>> /\ Pone(h, [f EXCEPT !.paso = "asigna", !.r = s, !.q = Head(queda)])
      <3> DEFINE x == [f EXCEPT !.paso = "asigna", !.r = s, !.q = Head(queda)]
      <3>1. x.paso = "asigna" /\ x.r = s /\ x.q = Head(queda)
        BY <1>0 DEF Hilo
      <3>2. Head(queda) \in Procesos /\ Esta(Head(queda), queda)
        <4>1. queda[1] \in Procesos /\ Head(queda) = queda[1] /\ 1 \in 1..Len(queda)
          BY <2>2, <2>9, HeadTailProperties, EmptySeq
        <4> QED BY <4>1 DEF Esta
      <3>3. Pidio(Head(queda), s)
        BY <2>2, <3>2 DEF Pedidos
      <3>4. Pone(h, x)
        BY <2>9
      <3> HIDE DEF x
      <3>5. x.paso \notin EnNombre /\ Pidio(x.q, x.r)
        BY <3>1, <3>3 DEF EnNombre
      <3> QED BY <1>k, <2>6, <2>7, <3>4, <3>5 DEF Pedidos
    <2> QED BY <2>4, <2>8, <2>9
  <1> QED BY <1>1, <1>2, <1>3, <1>7, <1>8 DEF Fin

(* Who moves the console, or ends a process from it, has used a command.   *)
LEMMA PedidosSiempre ==
    ASSUME Tipos, Nombres, Pedidos, SinReentrada, falla' = "ninguna", resta' = resta, resta = MaxFinalizar, Next
    PROVE  Pedidos'
  <1>1. ~Fin("consola")
    <2>1. hilo["consola"].paso \notin DeFin
      BY DEF DeFin, DeAsignar, Pedidos
    <2> QED BY <2>1, PasoDeFin DEF HilosFin
  <1>2. ~\E p \in Procesos : Finalizar(p)
    <2> SUFFICES ASSUME NEW p \in Procesos, Finalizar(p) PROVE FALSE
      OBVIOUS
    <2>1. resta' = resta - 1 /\ resta \in Nat
      BY DEF Finalizar, Tipos, TFin
    <2> QED BY <2>1
  <1>3. CASE Planificadores \/ ManejaLee \/ ManejaUno
    <2>1. UNCHANGED <<bloqueados, asignados, programa, PC, hilo, nombre_recurso_recibido>>
      BY <1>3 DEF Planificadores, LargoToma, LargoMueve, CortoPlazo, ExecReady, ExecBlocked, ExecBlockedLibera,
                  ExecBlockedMueve, ExecBlockedGuarda, BlockedReady, ExitLargoPlazo, ManejaLee, ManejaUno,
                  vRecurso, vCpu, vFin
    <2> QED BY <2>1, PedidosQuietos
  <1>4. CASE Operador
    <2>1. UNCHANGED <<bloqueados, asignados, programa, PC, hilo, nombre_recurso_recibido>>
      BY <1>2, <1>4 DEF Operador, IniciarProceso, Multiprogramacion, vRecurso, vCpu, vFin
    <2> QED BY <2>1, PedidosQuietos
  <1> QED BY <1>1, <1>3, <1>4, PedidosCpu, PedidosDispatch, PedidosFin DEF Next

(* The queue of those waiting changes for one resource.                    *)
LEMMA PendientesFinitos ==
    ASSUME Tipos, NEW r \in Recursos
    PROVE  /\ Pendientes(r) \subseteq Procesos /\ IsFiniteSet(Pendientes(r))
           /\ Cardinality(Pendientes(r)) \in Nat
  <1>1. bloqueados[r] \in Seq(Procesos)
    BY DEF Tipos, TRec
  <1>2. Pendientes(r) \subseteq Procesos
    BY <1>1 DEF Pendientes, ToSet
  <1> QED BY <1>2, FinitosAssumption, FS_Subset, FS_CardinalityType

Otros(s) == \A r \in Recursos : r # s => Pendientes(r)' = Pendientes(r)

LEMMA QuienesCambian ==
    ASSUME Tipos, Tipos', NEW s \in Recursos, Otros(s)
    PROVE  /\ Quienes \in Int /\ Quienes' \in Int
           /\ Pendientes(s) \subseteq Pendientes(s)' => Quienes' >= Quienes
           /\ \A q : Pendientes(s) \ {q} \subseteq Pendientes(s)' => Quienes' >= Quienes - 1
           /\ \A q : Pendientes(s)' = Pendientes(s) \cup {q} /\ q \notin Pendientes(s) => Quienes' = Quienes + 1
  <1> DEFINE P == Pendientes(s)
             Q == Pendientes(s)'
             f == [r \in Recursos |-> Cardinality(Pendientes(r))]
             g == [r \in Recursos |-> Cardinality(Pendientes(r)')]
             d == Cardinality(Q) - Cardinality(P)
  <1>1. IsFiniteSet(P) /\ Cardinality(P) \in Nat /\ \A r \in Recursos : f[r] \in Int
    BY PendientesFinitos
  <1>2. IsFiniteSet(Q) /\ Cardinality(Q) \in Nat
    <2>1. Q \subseteq Procesos
      <3>1. bloqueados'[s] \in Seq(Procesos)
        BY DEF Tipos, TRec
      <3> QED BY <3>1 DEF Pendientes, ToSet
    <2> HIDE DEF Q
    <2> QED BY <2>1, FinitosAssumption, FS_Subset, FS_CardinalityType
  <1>3. Quienes = Suma(f, Recursos) /\ Quienes' = Suma(g, Recursos)
    BY DEF Quienes
  <1>4. f[s] = Cardinality(P) /\ g[s] = Cardinality(Q) /\ \A r \in Recursos \ {s} : g[r] = f[r]
    BY DEF Otros
  <1> HIDE DEF P, Q, f, g
  <1>5. d \in Int /\ g[s] = f[s] + d
    BY <1>1, <1>2, <1>4
  <1>6. Quienes \in Int /\ Quienes' = Quienes + d
    <2> HIDE DEF d
    <2> QED BY <1>1, <1>3, <1>4, <1>5, FinitosAssumption, SumaCambia
  <1>7. P \subseteq Q => d >= 0
    BY <1>1, <1>2, FS_Subset
  <1>8. ASSUME NEW q, P \ {q} \subseteq Q PROVE d >= -1
    <2>1. IsFiniteSet(P \ {q}) /\ Cardinality(P \ {q}) >= Cardinality(P) - 1
      <3>1. CASE q \in P
        <4>1. Cardinality(P \ {q}) = Cardinality(P) - 1
          BY <1>1, <3>1, FS_RemoveElement
        <4> QED BY <1>1, <4>1, FS_Subset
      <3>2. CASE q \notin P
        <4>1. P \ {q} = P
          BY <3>2
        <4> QED BY <1>1, <4>1
      <3> QED BY <3>1, <3>2
    <2>2. Cardinality(P \ {q}) <= Cardinality(Q) /\ Cardinality(P \ {q}) \in Nat
      BY <1>2, <1>8, <2>1, FS_Subset, FS_CardinalityType
    <2> QED BY <1>1, <1>2, <2>1, <2>2
  <1>9. ASSUME NEW q, Q = P \cup {q}, q \notin P PROVE d = 1
    BY <1>1, <1>2, <1>9, FS_AddElement
  <1>10. Quienes' \in Int
    BY <1>5, <1>6
  <1> HIDE DEF d
  <1> QED BY <1>5, <1>6, <1>7, <1>8, <1>9, <1>10 DEF P, Q

LEMMA QuienesEnteros ==
    ASSUME Tipos PROVE Quienes \in Int
  <1> DEFINE f == [r \in Recursos |-> Cardinality(Pendientes(r))]
  <1>1. \A r \in Recursos : f[r] \in Int
    BY PendientesFinitos
  <1> HIDE DEF f
  <1>2. Suma(f, Recursos) \in Int
    BY <1>1, FinitosAssumption, SumaEntera
  <1> QED BY <1>2 DEF Quienes, f

(* The orders to exec_blocked, the one it is carrying out included.        *)
LEMMA CaminoNatural ==
    /\ Tipos => Camino \in Nat
    /\ Tipos' => Camino' \in Nat
  BY DEF Camino, Tipos, TSem, TGra, Semaforos

LEMMA CaminoQuieto ==
    ASSUME UNCHANGED bloqueo, sem'["t_exec_blocked"] = sem["t_exec_blocked"] PROVE Camino' = Camino
  BY DEF Camino

(* The queues of those waiting stay; and what else the inequality is about.*)
LEMMA AvisadosQuietos ==
    ASSUME Tipos, Tipos', Avisados, UNCHANGED <<bloqueados, asignados>>,
           Len(colas'["BLOCK"]) + Camino' - sem'["t_blocked_ready"]
           <= Len(colas["BLOCK"]) + Camino - sem["t_blocked_ready"],
           \/ hilo'["dispatch"].paso \notin {"saca", "encola"} /\ hilo["dispatch"].paso # "encola"
           \/ hilo'["dispatch"].paso = hilo["dispatch"].paso
    PROVE  Avisados'
  <1>1. Quienes \in Int /\ Quienes' = Quienes
    BY QuienesEnteros DEF Quienes, Pendientes
  <1>2. Len(colas["BLOCK"]) \in Nat /\ Len(colas'["BLOCK"]) \in Nat
    BY DEF Tipos, TCola, Colas
  <1>3. /\ Camino \in Nat /\ sem["t_blocked_ready"] \in Nat
        /\ Camino' \in Nat /\ sem'["t_blocked_ready"] \in Nat
    BY CaminoNatural DEF Tipos, TSem, Semaforos
  <1> DEFINE n == Len(colas["BLOCK"])
             n1 == Len(colas'["BLOCK"])
             s == IF hilo["dispatch"].paso = "saca" THEN 1 ELSE 0
             e == IF hilo["dispatch"].paso = "encola" THEN 1 ELSE 0
             s1 == IF hilo'["dispatch"].paso = "saca" THEN 1 ELSE 0
             e1 == IF hilo'["dispatch"].paso = "encola" THEN 1 ELSE 0
  <1>4. s \in Int /\ e \in Int /\ s1 \in Int /\ e1 \in Int /\ s1 - e1 <= s - e
    OBVIOUS
  <1>5. n + Camino + s <= Quienes + sem["t_blocked_ready"] + e
    BY DEF Avisados
  <1>6. Avisados' <=> n1 + Camino' + s1 <= Quienes' + sem'["t_blocked_ready"] + e1
    BY DEF Avisados
  <1>7. n \in Nat /\ n1 \in Nat
        /\ n1 + Camino' - sem'["t_blocked_ready"] <= n + Camino - sem["t_blocked_ready"]
    BY <1>2
  <1> DEFINE b == Camino
             b1 == Camino'
             r == sem["t_blocked_ready"]
             r1 == sem'["t_blocked_ready"]
  <1>8. b \in Nat /\ b1 \in Nat /\ r \in Nat /\ r1 \in Nat
    BY <1>3
  <1>9. n + b + s <= Quienes + r + e /\ n1 + b1 - r1 <= n + b - r
    BY <1>5, <1>7
  <1> HIDE DEF n, n1, s, e, s1, e1, b, b1, r, r1
  <1>10. n1 + b1 + s1 <= Quienes + r1 + e1
    BY <1>1, <1>4, <1>7, <1>8, <1>9
  <1> QED BY <1>1, <1>6, <1>10 DEF b1, r1

LEMMA LargosAlMover ==
    ASSUME Tipos, NEW a \in Colas, NEW b \in Colas, a # b, Mueve(a, b), NEW c \in Colas
    PROVE  Len(colas'[c]) = Len(colas[c]) + (IF b = c THEN 1 ELSE 0) - (IF a = c THEN 1 ELSE 0)
  <1> DEFINE t == Tail(colas[a])
             u == Append(colas[b], Head(colas[a]))
  <1>1. colas[a] \in Seq(PCB) /\ colas[a] # <<>> /\ colas[b] \in Seq(PCB) /\ colas[c] \in Seq(PCB)
    BY DEF Mueve, Tipos, TCola
  <1>2. Head(colas[a]) \in PCB /\ Len(t) = Len(colas[a]) - 1
    BY <1>1, AlSacar
  <1>3. Len(u) = Len(colas[b]) + 1
    BY <1>1, <1>2, AppendProperties
  <1>4. colas' = [colas EXCEPT ![a] = t, ![b] = u]
    BY DEF Mueve
  <1> HIDE DEF t, u
  <1>5. colas'[c] = IF b = c THEN u ELSE IF a = c THEN t ELSE colas[c]
    BY <1>1, <1>4 DEF Tipos, TCola
  <1>6. Len(colas[c]) \in Nat
    BY <1>1
  <1>7. CASE b = c
    BY <1>3, <1>5, <1>6, <1>7
  <1>8. CASE a = c
    <2>1. colas'[c] = t /\ colas[a] = colas[c] /\ b # c
      BY <1>5, <1>8
    <2> QED BY <1>2, <1>6, <1>8, <2>1
  <1>9. CASE a # c /\ b # c
    BY <1>5, <1>6, <1>9
  <1> QED BY <1>7, <1>8, <1>9

LEMMA AvisadosPlanificadores ==
    ASSUME Tipos, Tipos', Avisados, Planificadores \/ ManejaLee \/ ManejaUno PROVE Avisados'
  <1>1. UNCHANGED <<bloqueados, asignados, hilo>>
    BY DEF Planificadores, LargoToma, LargoMueve, CortoPlazo, ExecReady, ExecBlocked, ExecBlockedLibera,
           ExecBlockedMueve, ExecBlockedGuarda, BlockedReady, ExitLargoPlazo, ManejaLee, ManejaUno, vRecurso, vFin
  <1> DEFINE n == Len(colas["BLOCK"]) + Camino - sem["t_blocked_ready"]
  <1>2. /\ Len(colas["BLOCK"]) \in Nat /\ sem \in [Semaforos -> Nat]
        /\ sem["t_exec_blocked"] \in Nat /\ sem["t_blocked_ready"] \in Nat /\ Camino \in Nat
        /\ "t_exec_blocked" \in Semaforos /\ "t_blocked_ready" \in Semaforos
    BY CaminoNatural DEF Tipos, TCola, Colas, TSem, Semaforos
  <1>3. n' <= n
    <2> HIDE DEF n
    <2>1. CASE LargoToma \/ ManejaLee \/ ManejaUno
      <3>1. sem'["t_exec_blocked"] = sem["t_exec_blocked"] /\ sem'["t_blocked_ready"] = sem["t_blocked_ready"]
            /\ UNCHANGED <<colas, bloqueo>>
        BY <1>2, <2>1 DEF LargoToma, ManejaLee, ManejaUno, vCola
      <3>2. Camino' = Camino
        BY <3>1, CaminoQuieto
      <3> QED BY <1>2, <3>1, <3>2 DEF n
    <2>2. CASE LargoMueve \/ CortoPlazo \/ ExecReady \/ ExitLargoPlazo
      <3>1. sem'["t_exec_blocked"] = sem["t_exec_blocked"] /\ sem'["t_blocked_ready"] = sem["t_blocked_ready"]
            /\ UNCHANGED bloqueo
        BY <1>2, <2>2 DEF LargoMueve, CortoPlazo, ExecReady, ExitLargoPlazo, vGrado
      <3>2. Mueve("NEW", "READY") \/ Mueve("READY", "EXEC") \/ Mueve("EXEC", "READY") \/ Mueve("EXEC", "EXIT")
        BY <2>2 DEF LargoMueve, CortoPlazo, ExecReady, ExitLargoPlazo
      <3>3. Len(colas'["BLOCK"]) = Len(colas["BLOCK"])
        BY <1>2, <3>2, LargosAlMover DEF Colas
      <3>4. Camino' = Camino
        BY <3>1, CaminoQuieto
      <3> QED BY <1>2, <3>1, <3>3, <3>4 DEF n
    <2>3. CASE ExecBlockedLibera
      <3>1. sem'["t_exec_blocked"] = sem["t_exec_blocked"] - 1 /\ sem'["t_blocked_ready"] = sem["t_blocked_ready"]
            /\ UNCHANGED colas /\ bloqueo = "espera" /\ bloqueo' = "mueve"
        BY <1>2, <2>3 DEF ExecBlockedLibera, Semaforos, vCola
      <3>2. Camino' = Camino
        BY <1>2, <3>1 DEF Camino
      <3> QED BY <1>2, <3>1, <3>2 DEF n
    <2>5. CASE ExecBlockedMueve
      <3>1. Camino' = Camino - 1 /\ sem' = sem
        BY <1>2, <2>5 DEF ExecBlockedMueve, Camino
      <3>2. Len(colas'["BLOCK"]) = Len(colas["BLOCK"]) + 1
        BY <1>2, <2>5, LargosAlMover DEF ExecBlockedMueve, Colas
      <3> QED BY <1>2, <3>1, <3>2 DEF n
    <2>6. CASE ExecBlockedGuarda
      <3>1. Camino' = Camino /\ sem' = sem /\ UNCHANGED colas
        BY <1>2, <2>6 DEF ExecBlockedGuarda, Camino, vCola
      <3> QED BY <1>2, <3>1 DEF n
    <2>4. CASE BlockedReady
      <3>1. sem'["t_exec_blocked"] = sem["t_exec_blocked"] /\ sem'["t_blocked_ready"] = sem["t_blocked_ready"] - 1
            /\ UNCHANGED bloqueo
        BY <1>2, <2>4 DEF BlockedReady, Semaforos, vGrado
      <3>2. Len(colas'["BLOCK"]) = Len(colas["BLOCK"]) - 1
        BY <1>2, <2>4, LargosAlMover DEF BlockedReady, Colas
      <3>3. Camino' = Camino
        BY <3>1, CaminoQuieto
      <3> QED BY <1>2, <3>1, <3>2, <3>3 DEF n
    <2> QED BY <2>1, <2>2, <2>3, <2>4, <2>5, <2>6 DEF Planificadores, ExecBlocked
  <1>4. UNCHANGED hilo
    BY <1>1
  <1> QED BY <1>1, <1>3, <1>4, AvisadosQuietos

LEMMA AvisadosOperador ==
    ASSUME Tipos, Tipos', Avisados, Operador, resta' = resta PROVE Avisados'
  <1>1. /\ Len(colas["BLOCK"]) \in Nat /\ sem \in [Semaforos -> Nat] /\ resta \in Nat
        /\ sem["t_exec_blocked"] \in Nat /\ sem["t_blocked_ready"] \in Nat
        /\ "t_exec_blocked" \in Semaforos /\ "t_blocked_ready" \in Semaforos
    BY DEF Tipos, TCola, Colas, TSem, TFin, Semaforos
  <1>2. ASSUME NEW p \in Procesos, IniciarProceso(p) PROVE Avisados'
    <2>1. UNCHANGED <<bloqueados, asignados, hilo, bloqueo>>
      BY <1>2 DEF IniciarProceso, vRecurso, vFin, vGrado
    <2>2. sem'["t_exec_blocked"] = sem["t_exec_blocked"] /\ sem'["t_blocked_ready"] = sem["t_blocked_ready"]
      BY <1>1, <1>2 DEF IniciarProceso, Post
    <2>3. colas'["BLOCK"] = colas["BLOCK"]
      BY <1>2 DEF IniciarProceso, Tipos, TCola, Colas
    <2>4. Camino' = Camino /\ Camino \in Nat
      BY <2>1, <2>2, CaminoQuieto, CaminoNatural
    <2> QED BY <1>1, <2>1, <2>2, <2>3, <2>4, AvisadosQuietos
  <1>3. ASSUME NEW v \in NuevosGrados, Multiprogramacion(v) PROVE Avisados'
    <2>1. UNCHANGED <<bloqueados, asignados, hilo, colas, bloqueo>>
      BY <1>3 DEF Multiprogramacion, vRecurso, vFin, vCola
    <2>2. sem'["t_exec_blocked"] = sem["t_exec_blocked"] /\ sem'["t_blocked_ready"] = sem["t_blocked_ready"]
      BY <1>1, <1>3 DEF Multiprogramacion, Post
    <2>3. Camino' = Camino /\ Camino \in Nat
      BY <2>1, <2>2, CaminoQuieto, CaminoNatural
    <2> QED BY <1>1, <2>1, <2>2, <2>3, AvisadosQuietos
  <1>4. ASSUME NEW p \in Procesos, Finalizar(p) PROVE FALSE
    <2>1. resta' = resta - 1
      BY <1>4 DEF Finalizar
    <2> QED BY <1>1, <2>1
  <1> QED BY <1>2, <1>3, <1>4 DEF Operador

LEMMA AvisadosCpu ==
    ASSUME Tipos, Tipos', Avisados, falla' = "ninguna", Cpu PROVE Avisados'
  <1> SUFFICES ASSUME NEW p \in Procesos,
                      \/ Calcula(p) \/ FinDeQuantum(p) \/ Termina(p) \/ Desincronizado(p) \/ Pisado(p)
                      \/ \E i \in ToSet(programa[p]) : Recibe(p, i)
               PROVE  Avisados'
    BY DEF Cpu
  <1>1. /\ Len(colas["BLOCK"]) \in Nat /\ sem \in [Semaforos -> Nat]
        /\ sem["t_exec_blocked"] \in Nat /\ sem["t_blocked_ready"] \in Nat /\ Camino \in Nat
        /\ "t_exec_blocked" \in Semaforos /\ "t_blocked_ready" \in Semaforos
        /\ hilo \in [HilosFin -> Hilo] /\ "dispatch" \in HilosFin
    <2>1. Camino \in Nat /\ Len(colas["BLOCK"]) \in Nat
      BY CaminoNatural DEF Tipos, TCola, Colas
    <2>2. hilo \in [HilosFin -> Hilo] /\ "dispatch" \in HilosFin
      BY DEF Tipos, TFin, HilosFin
    <2> QED BY <2>1, <2>2 DEF Tipos, TSem, Semaforos
  <1>2. hilo["dispatch"].paso = "libre" /\ UNCHANGED <<colas, asignados, bloqueados, bloqueo>>
    BY DEF Calcula, FinDeQuantum, Termina, Desincronizado, Pisado, Recibe, Sale, Ejecuta,
           En, vCola, vRecurso, vGrado
  <1>3. ASSUME sem' = sem \/ Post("t_exec_ready"), hilo'["dispatch"].paso \notin {"saca", "encola"}
        PROVE  Avisados'
    <2>1. sem'["t_exec_blocked"] = sem["t_exec_blocked"] /\ sem'["t_blocked_ready"] = sem["t_blocked_ready"]
      BY <1>1, <1>3 DEF Post
    <2>2. Camino' = Camino
      BY <1>2, <2>1, CaminoQuieto
    <2> QED BY <1>1, <1>2, <1>3, <2>1, <2>2, AvisadosQuietos
  <1>4. CASE Calcula(p) \/ FinDeQuantum(p)
    <2>1. UNCHANGED hilo /\ (sem' = sem \/ Post("t_exec_ready"))
      BY <1>4 DEF Calcula, FinDeQuantum, vFin
    <2> QED BY <1>2, <1>3, <2>1
  <1>5. CASE Termina(p)
    <2>1. sem' = sem /\ hilo'["dispatch"] = [Ocioso EXCEPT !.paso = "pcb_exec"]
      BY <1>1, <1>5 DEF Termina, Pone
    <2>2. hilo'["dispatch"].paso = "pcb_exec"
      BY <2>1 DEF Ocioso
    <2> QED BY <1>3, <2>1, <2>2
  <1>6. CASE Desincronizado(p) \/ Pisado(p)
    BY <1>6 DEF Desincronizado, Pisado, Falla
  <1>7. ASSUME NEW i \in ToSet(programa[p]), Recibe(p, i) PROVE Avisados'
    <2>1. sem' = sem
          /\ hilo'["dispatch"] = [Ocioso EXCEPT !.paso = IF i.op = "WAIT" THEN "nombre_wait" ELSE "nombre_signal",
                                                !.p = p]
      BY <1>1, <1>7 DEF Recibe, Pone
    <2>2. hilo'["dispatch"].paso \notin {"saca", "encola"}
      BY <2>1 DEF Ocioso
    <2> QED BY <1>3, <2>1, <2>2
  <1> QED BY <1>4, <1>5, <1>6, <1>7

LEMMA AvisadosDispatch ==
    ASSUME Tipos, Tipos', Nombres, resta = MaxFinalizar, Pedidos, Avisados, Dispatch PROVE Avisados'
  <1> DEFINE d == hilo["dispatch"]
  <1>1. /\ Len(colas["BLOCK"]) \in Nat /\ sem \in [Semaforos -> Nat] /\ Camino \in Nat
        /\ sem["t_exec_blocked"] \in Nat /\ sem["t_blocked_ready"] \in Nat
        /\ "t_exec_blocked" \in Semaforos /\ "t_blocked_ready" \in Semaforos
        /\ hilo \in [HilosFin -> Hilo] /\ "dispatch" \in HilosFin /\ Ocioso.paso = "libre"
        /\ HiloBueno(d) /\ Limpio(d) /\ DelNombre(d)
        /\ bloqueados \in [Recursos -> Seq(Procesos)] /\ asignados \in [Procesos -> [Recursos -> Nat]]
    <2>1. /\ Len(colas["BLOCK"]) \in Nat /\ sem \in [Semaforos -> Nat] /\ Camino \in Nat
          /\ sem["t_exec_blocked"] \in Nat /\ sem["t_blocked_ready"] \in Nat
          /\ "t_exec_blocked" \in Semaforos /\ "t_blocked_ready" \in Semaforos
      BY CaminoNatural DEF Tipos, TCola, Colas, TSem, Semaforos
    <2>2. /\ hilo \in [HilosFin -> Hilo] /\ "dispatch" \in HilosFin /\ Ocioso.paso = "libre"
          /\ HiloBueno(d) /\ Limpio(d) /\ DelNombre(d)
      BY DEF Tipos, TFin, HilosFin, Ocioso, Pedidos, Nombres
    <2>3. bloqueados \in [Recursos -> Seq(Procesos)] /\ asignados \in [Procesos -> [Recursos -> Nat]]
      BY DEF Tipos, TRec
    <2> QED BY <2>1, <2>2, <2>3
  <1>2. Quienes \in Int
    BY QuienesEnteros
  <1>3. UNCHANGED <<colas, bloqueo>>
    BY DEF Dispatch, Obtiene, RecursoInvalido, Wait, Signal, WaitBusca, WaitToma, WaitEncola, SignalSaca,
           SignalRepone, PcbExec, vCola, vGrado
  <1>c. UNCHANGED sem => Camino' = Camino
    BY <1>3, CaminoQuieto
  (* A step that only moves the thread on.                                 *)
  <1>q. ASSUME UNCHANGED <<sem, bloqueados, asignados>>, d.paso \notin {"saca", "encola"}, NEW x,
               Pone("dispatch", x), x.paso \notin {"saca", "encola"}
        PROVE  Avisados'
    <2>1. hilo'["dispatch"] = x
      BY <1>1, <1>q DEF Pone
    <2> QED BY <1>1, <1>3, <1>c, <1>q, <2>1, AvisadosQuietos
  <1>u. ASSUME d.paso \in {"toma", "encola"}
        PROVE  d.p \in Procesos /\ d.r \in Recursos /\ ~Esta(d.p, bloqueados[d.r]) /\ asignados[d.p][d.r] = 0
    <2>1. d.p \in Procesos /\ d.r \in Recursos /\ d.r = nombre_recurso_recibido
      BY <1>1, <1>u DEF HiloBueno, ConPedido, DelNombre
    <2> QED BY <1>1, <1>u, <2>1 DEF Limpio, Nuevo, EnNombre
  <1>4. CASE WaitBusca
    <2>1. d.paso = "busca" /\ UNCHANGED <<bloqueados, asignados>>
      BY <1>4 DEF WaitBusca, vRecurso
    <2>2. CASE UNCHANGED <<hilo, sem>>
      BY <1>1, <1>3, <1>c, <2>1, <2>2, AvisadosQuietos
    <2>3. CASE Pone("dispatch", [d EXCEPT !.paso = "toma", !.ya = YaTiene(d.p)]) /\ UNCHANGED sem
      <3> DEFINE x == [d EXCEPT !.paso = "toma", !.ya = YaTiene(d.p)]
      <3>1. x.paso = "toma"
        BY <1>1 DEF HiloBueno, Hilo
      <3>2. Pone("dispatch", x)
        BY <2>3
      <3> HIDE DEF x
      <3> QED BY <1>q, <2>1, <2>3, <3>1, <3>2
    <2>4. CASE Sigue("dispatch", "encola") /\ Post("t_exec_blocked")
      <3>1. hilo'["dispatch"].paso = "encola"
        BY <1>1, <2>4 DEF Sigue, Pone, Hilo
      <3>2. sem'["t_exec_blocked"] = sem["t_exec_blocked"] + 1 /\ sem'["t_blocked_ready"] = sem["t_blocked_ready"]
        BY <1>1, <2>4 DEF Post
      <3>3. Quienes' = Quienes
        BY <2>1 DEF Quienes, Pendientes
      <3>4. Camino' = Camino + 1
        BY <1>1, <1>3, <3>2 DEF Camino
      <3>5. Len(colas'["BLOCK"]) = Len(colas["BLOCK"])
        BY <1>3
      <3>6. Len(colas["BLOCK"]) + Camino <= Quienes + sem["t_blocked_ready"]
        BY <1>1, <1>2, <2>1 DEF Avisados
      <3>7. Len(colas'["BLOCK"]) + Camino' <= Quienes' + sem'["t_blocked_ready"] + 1
        <4> DEFINE l == Len(colas["BLOCK"])
                   c == Camino
                   b == sem["t_blocked_ready"]
                   k == Quienes
        <4>1. l \in Int /\ c \in Int /\ b \in Int /\ k \in Int /\ l + c <= k + b
          BY <1>1, <1>2, <3>6
        <4>2. Len(colas'["BLOCK"]) = l /\ Camino' = c + 1 /\ Quienes' = k /\ sem'["t_blocked_ready"] = b
          BY <3>2, <3>3, <3>4, <3>5
        <4> HIDE DEF l, c, b, k
        <4>3. l + (c + 1) <= k + b + 1
          BY <4>1
        <4> QED BY <4>2, <4>3
      <3>8. Len(colas'["BLOCK"]) + Camino' + 0 = Len(colas'["BLOCK"]) + Camino'
        BY <1>1, <3>4, <3>5
      <3> QED BY <3>1, <3>7, <3>8 DEF Avisados
    <2> QED BY <1>4, <2>2, <2>3, <2>4 DEF WaitBusca
  <1>5. CASE WaitToma
    <2>1. d.p \in Procesos /\ d.r \in Recursos /\ d.paso = "toma" /\ ~Esta(d.p, bloqueados[d.r])
      BY <1>u, <1>5 DEF WaitToma
    <2>a. Anotado(d) = d.r
      BY <1>1, <2>1 DEF DelNombre, Anotado, ConPedido
    <2>2. /\ UNCHANGED <<bloqueados, sem>> /\ Pone("dispatch", Ocioso)
          /\ asignados' = [asignados EXCEPT ![d.p][d.r] = @ + 1]
      BY <1>5, <2>a DEF WaitToma
    <2>3. hilo'["dispatch"].paso = "libre"
      BY <1>1, <2>2 DEF Pone
    <2>4. \A r \in Recursos : Pendientes(r)' = Pendientes(r)
      <3> SUFFICES ASSUME NEW r \in Recursos PROVE Pendientes(r)' = Pendientes(r)
        OBVIOUS
      <3>1. ToSet(bloqueados[r]) \subseteq Procesos /\ (r = d.r => d.p \notin ToSet(bloqueados[r]))
        <4>1. bloqueados[r] \in Seq(Procesos)
          BY <1>1
        <4> QED BY <2>1, <4>1, EstaEnConjunto DEF ToSet
      <3>2. \A q \in ToSet(bloqueados[r]) : asignados'[q][r] = asignados[q][r]
        BY <1>1, <2>1, <2>2, <3>1
      <3> QED BY <2>2, <3>2 DEF Pendientes
    <2>5. Quienes' = Quienes
      BY <2>4 DEF Quienes
    <2> QED BY <1>1, <1>2, <1>3, <1>c, <2>1, <2>2, <2>3, <2>5 DEF Avisados
  <1>6. CASE WaitEncola
    <2>1. d.p \in Procesos /\ d.r \in Recursos /\ d.paso = "encola"
          /\ ~Esta(d.p, bloqueados[d.r]) /\ asignados[d.p][d.r] = 0
      BY <1>u, <1>6 DEF WaitEncola
    <2>2. /\ UNCHANGED <<asignados, sem>> /\ Pone("dispatch", Ocioso)
          /\ bloqueados' = [bloqueados EXCEPT ![d.r] = Append(@, d.p)]
      BY <1>6 DEF WaitEncola, vCpu
    <2>3. hilo'["dispatch"].paso = "libre"
      BY <1>1, <2>2 DEF Pone
    <2>7. PICK r \in Recursos : r = d.r
      BY <2>1
    <2>4. Otros(r)
      BY <1>1, <2>2, <2>7 DEF Otros, Pendientes
    <2>8. PICK p : p = d.p
      OBVIOUS
    <2>5. Pendientes(r)' = Pendientes(r) \cup {p} /\ p \notin Pendientes(r)
      <3> DEFINE s == bloqueados[r]
                 t == Append(s, p)
      <3>1. s \in Seq(Procesos) /\ t \in Seq(Procesos) /\ \A x : Esta(x, t) <=> Esta(x, s) \/ x = p
        BY <1>1, <2>1, <2>7, <2>8, AlAgregar
      <3>2. bloqueados'[r] = t
        BY <1>1, <2>1, <2>2, <2>7, <2>8
      <3> HIDE DEF s, t
      <3>3. \A x : (x \in ToSet(t) <=> Esta(x, t)) /\ (x \in ToSet(s) <=> Esta(x, s))
        BY <3>1, EstaEnConjunto
      <3> QED BY <2>1, <2>2, <2>7, <2>8, <3>1, <3>2, <3>3 DEF Pendientes, s
    <2>6. Quienes' = Quienes + 1
      BY <2>4, <2>5, QuienesCambian
    <2> QED BY <1>1, <1>2, <1>3, <1>c, <2>1, <2>2, <2>3, <2>6 DEF Avisados
  <1>7. CASE SignalSaca
    <2>1. d.p \in Procesos /\ d.r \in Recursos /\ d.paso = "saca"
      BY <1>1, <1>7 DEF SignalSaca, HiloBueno, ConPedido
    <2>2. /\ UNCHANGED <<asignados, sem>> /\ Sigue("dispatch", "repone")
          /\ bloqueados' = [bloqueados EXCEPT ![d.r] = Tail(@)] /\ bloqueados[d.r] # <<>>
      BY <1>7 DEF SignalSaca, vCpu
    <2>3. hilo'["dispatch"].paso = "repone"
      BY <1>1, <2>2 DEF Sigue, Pone, Hilo
    <2>7. PICK r \in Recursos : r = d.r
      BY <2>1
    <2>4. Otros(r)
      BY <1>1, <2>2, <2>7 DEF Otros, Pendientes
    <2>8. PICK q : q = Head(bloqueados[r])
      OBVIOUS
    <2>5. Pendientes(r) \ {q} \subseteq Pendientes(r)'
      <3> DEFINE s == bloqueados[r]
                 t == Tail(s)
      <3>1. s \in Seq(Procesos) /\ t \in Seq(Procesos) /\ \A x : Esta(x, s) => Esta(x, t) \/ x = Head(s)
        BY <1>1, <2>1, <2>2, <2>7, AlSacar
      <3>2. bloqueados'[r] = t
        BY <1>1, <2>1, <2>2, <2>7
      <3> HIDE DEF s, t
      <3>3. \A x : (x \in ToSet(t) <=> Esta(x, t)) /\ (x \in ToSet(s) <=> Esta(x, s))
        BY <3>1, EstaEnConjunto
      <3> QED BY <2>1, <2>2, <2>7, <2>8, <3>1, <3>2, <3>3 DEF Pendientes, s
    <2>6. Quienes' >= Quienes - 1 /\ Quienes' \in Int
      BY <2>4, <2>5, QuienesCambian
    <2> QED BY <1>1, <1>2, <1>3, <1>c, <2>1, <2>2, <2>3, <2>6 DEF Avisados
  <1>8. CASE SignalRepone
    <2>1. UNCHANGED <<bloqueados, asignados, sem>> /\ Pone("dispatch", Ocioso) /\ d.paso = "repone"
      BY <1>8 DEF SignalRepone
    <2> QED BY <1>1, <1>q, <2>1
  <1>9. CASE PcbExec
    <2> DEFINE x == [Ocioso EXCEPT !.paso = "libera", !.p = pid_a_finalizar, !.rs = Tiene(pid_a_finalizar)]
    <2>1. UNCHANGED <<bloqueados, asignados, sem>> /\ d.paso = "pcb_exec" /\ (UNCHANGED hilo \/ Pone("dispatch", x))
      BY <1>9 DEF PcbExec, En, vRecurso
    <2>2. x.paso = "libera"
      BY DEF Ocioso
    <2> HIDE DEF x
    <2>3. CASE UNCHANGED hilo
      BY <1>1, <1>3, <1>c, <2>1, <2>3, AvisadosQuietos
    <2> QED BY <1>q, <2>1, <2>2, <2>3
  <1>10. CASE Obtiene
    <2> DEFINE x == [d EXCEPT !.paso = IF @ = "nombre_wait" THEN "wait" ELSE "signal", !.r = nombre_recurso_recibido]
    <2>1. UNCHANGED <<bloqueados, asignados, sem>> /\ Pone("dispatch", x) /\ d.paso \notin {"saca", "encola"}
      BY <1>10 DEF Obtiene, vRecurso
    <2>2. x.paso \notin {"saca", "encola"}
      BY <1>1 DEF HiloBueno, Hilo
    <2> HIDE DEF x
    <2> QED BY <1>q, <2>1, <2>2
  <1>11. CASE RecursoInvalido
    <2> DEFINE x == [d EXCEPT !.paso = "exec"]
    <2>1. UNCHANGED <<bloqueados, asignados, sem>> /\ Pone("dispatch", x) /\ d.paso \notin {"saca", "encola"}
      BY <1>11 DEF RecursoInvalido, vRecurso, Sigue
    <2>2. x.paso = "exec"
      BY <1>1 DEF HiloBueno, Hilo
    <2> HIDE DEF x
    <2> QED BY <1>q, <2>1, <2>2
  <1>12. CASE Wait
    <2> DEFINE x == [d EXCEPT !.paso = "busca", !.hay = instancias[d.r] > 0]
    <2>1. UNCHANGED <<bloqueados, asignados, sem>> /\ Pone("dispatch", x) /\ d.paso = "wait"
      BY <1>12 DEF Wait, vRecurso
    <2>2. x.paso = "busca"
      BY <1>1 DEF HiloBueno, Hilo
    <2> HIDE DEF x
    <2> QED BY <1>q, <2>1, <2>2
  <1>13. CASE Signal
    <2>1. UNCHANGED <<bloqueados, asignados>> /\ d.paso = "signal"
      BY <1>13 DEF Signal, vRecurso
    <2>2. CASE Post("t_blocked_ready") /\ Sigue("dispatch", "saca")
      <3>1. hilo'["dispatch"].paso = "saca"
        BY <1>1, <2>2 DEF Sigue, Pone, HiloBueno, Hilo
      <3>2. sem'["t_exec_blocked"] = sem["t_exec_blocked"] /\ sem'["t_blocked_ready"] = sem["t_blocked_ready"] + 1
        BY <1>1, <2>2 DEF Post
      <3>3. Quienes' = Quienes /\ Len(colas'["BLOCK"]) = Len(colas["BLOCK"])
        BY <1>3, <2>1 DEF Quienes, Pendientes
      <3>4. Camino' = Camino
        BY <1>3, <3>2, CaminoQuieto
      <3> QED BY <1>1, <1>2, <2>1, <3>1, <3>2, <3>3, <3>4 DEF Avisados
    <2>3. CASE Sigue("dispatch", "repone") /\ UNCHANGED sem
      <3> DEFINE x == [d EXCEPT !.paso = "repone"]
      <3>1. x.paso = "repone"
        BY <1>1 DEF HiloBueno, Hilo
      <3>2. Pone("dispatch", x)
        BY <2>3 DEF Sigue
      <3> HIDE DEF x
      <3> QED BY <1>q, <2>1, <2>3, <3>1, <3>2
    <2> QED BY <1>13, <2>2, <2>3 DEF Signal
  <1> QED BY <1>4, <1>5, <1>6, <1>7, <1>8, <1>9, <1>10, <1>11, <1>12, <1>13 DEF Dispatch

LEMMA AvisadosFin ==
    ASSUME Tipos, Tipos', Nombres, resta = MaxFinalizar, Avisados, Fin("dispatch") PROVE Avisados'
  <1> DEFINE h == "dispatch"
             f == hilo[h]
  <1>1. /\ Len(colas["BLOCK"]) \in Nat /\ Camino \in Nat /\ sem \in [Semaforos -> Nat] /\ colas \in [Colas -> Seq(PCB)]
        /\ sem["t_exec_blocked"] \in Nat /\ sem["t_blocked_ready"] \in Nat
        /\ "t_exec_blocked" \in Semaforos /\ "t_blocked_ready" \in Semaforos
    BY CaminoNatural DEF Tipos, TCola, Colas, TSem, Semaforos
  <1>2. /\ hilo \in [HilosFin -> Hilo] /\ h \in HilosFin /\ Ocioso.paso = "libre"
        /\ HiloBueno(f) /\ f \in Hilo /\ DelNombre(f)
        /\ bloqueados \in [Recursos -> Seq(Procesos)] /\ asignados \in [Procesos -> [Recursos -> Nat]]
    BY DEF Tipos, TFin, TRec, HilosFin, Ocioso, Nombres
  <1>3. f.paso \notin {"saca", "encola"}
    BY <1>2, PasoDeFin DEF DeFin, DeAsignar
  <1>b. UNCHANGED bloqueo
    BY DEF Fin, BuscaExec, BuscaColas, SacaCola, Agrega, AsignaNombre, AsignaBusca, AsignaToma, Elimina, Devuelve,
           vGrado
  <1>4. Quienes \in Int
    BY QuienesEnteros
  <1>5. ASSUME UNCHANGED <<bloqueados, asignados>>, Len(colas'["BLOCK"]) <= Len(colas["BLOCK"]),
               \/ sem' = sem
               \/ \E s \in Semaforos \ {"t_exec_blocked", "t_blocked_ready"} : Post(s),
               hilo'[h].paso \notin {"saca", "encola"}
        PROVE  Avisados'
    <2>1. sem'["t_exec_blocked"] = sem["t_exec_blocked"] /\ sem'["t_blocked_ready"] = sem["t_blocked_ready"]
      BY <1>1, <1>5 DEF Post
    <2>2. Len(colas'["BLOCK"]) \in Nat
      BY DEF Tipos, TCola, Colas
    <2>3. Camino' = Camino
      BY <1>b, <2>1, CaminoQuieto
    <2> QED BY <1>1, <1>3, <1>5, <2>1, <2>2, <2>3, AvisadosQuietos
  <1>6. "t_exit_largo" \in Semaforos \ {"t_exec_blocked", "t_blocked_ready"}
        /\ "GRADO" \in Semaforos \ {"t_exec_blocked", "t_blocked_ready"}
        /\ "exec_libre" \in Semaforos \ {"t_exec_blocked", "t_blocked_ready"}
    BY DEF Semaforos
  <1>7. CASE BuscaExec(h)
    <2>1. UNCHANGED <<colas, bloqueados, asignados>> /\ (sem' = sem \/ Post("t_exit_largo"))
          /\ (Pone(h, Ocioso) \/ Pone(h, [f EXCEPT !.paso = "colas"]))
      BY <1>7 DEF BuscaExec, Sigue, vCola, vRecurso
    <2>2. hilo'[h].paso \notin {"saca", "encola"}
      BY <1>2, <2>1 DEF Pone, Hilo
    <2> QED BY <1>1, <1>5, <1>6, <2>1, <2>2
  <1>8. CASE BuscaColas(h)
    <2>1. \/ Pone(h, Ocioso)
          \/ \E c : Pone(h, [Ocioso EXCEPT !.paso = "saca_cola", !.p = pid_a_finalizar, !.cola = c])
      BY <1>8 DEF BuscaColas
    <2>6. UNCHANGED <<colas, bloqueados, asignados>> /\ (sem' = sem \/ Post("t_exit_largo"))
      BY <1>8 DEF BuscaColas, vCola, vRecurso
    <2>2. \A c : [Ocioso EXCEPT !.paso = "saca_cola", !.p = pid_a_finalizar, !.cola = c].paso = "saca_cola"
      BY DEF Ocioso
    <2>5. /\ UNCHANGED <<bloqueados, asignados>> /\ Len(colas'["BLOCK"]) <= Len(colas["BLOCK"])
          /\ sem' = sem \/ \E s \in Semaforos \ {"t_exec_blocked", "t_blocked_ready"} : Post(s)
      BY <1>1, <1>6, <2>6
    <2>3. CASE Pone(h, Ocioso)
      <3>1. hilo'[h].paso \notin {"saca", "encola"}
        BY <1>2, <2>3 DEF Pone
      <3> QED BY <1>5, <2>5, <3>1
    <2>4. ASSUME NEW c, Pone(h, [Ocioso EXCEPT !.paso = "saca_cola", !.p = pid_a_finalizar, !.cola = c])
          PROVE  Avisados'
      <3>1. hilo'[h] = [Ocioso EXCEPT !.paso = "saca_cola", !.p = pid_a_finalizar, !.cola = c]
        BY <1>2, <2>4 DEF Pone
      <3>2. hilo'[h].paso = "saca_cola"
        BY <2>2, <3>1
      <3> QED BY <1>5, <2>5, <3>2
    <2> QED BY <2>1, <2>3, <2>4
  <1>9. CASE SacaCola(h)
    <2>1. UNCHANGED <<bloqueados, asignados, sem>> /\ colas' = [colas EXCEPT ![f.cola] = RemoveFirst(@, f.p)]
          /\ \E q : Pone(h, [f EXCEPT !.paso = "agrega", !.q = q])
      BY <1>9 DEF SacaCola, vRecurso
    <2>2. hilo'[h].paso \notin {"saca", "encola"}
      BY <1>2, <2>1 DEF Pone, Hilo
    <2>3. Len(colas'["BLOCK"]) <= Len(colas["BLOCK"])
      <3>1. colas["BLOCK"] \in Seq(PCB)
        BY <1>1 DEF Colas
      <3>2. Len(RemoveFirst(colas["BLOCK"], f.p)) <= Len(colas["BLOCK"])
        BY <3>1, AlQuitar
      <3>3. colas'["BLOCK"] = RemoveFirst(colas["BLOCK"], f.p) \/ colas'["BLOCK"] = colas["BLOCK"]
        BY <1>1, <2>1 DEF Colas
      <3> QED BY <1>1, <3>2, <3>3
    <2> QED BY <1>5, <2>1, <2>2, <2>3
  <1>10. CASE Agrega(h)
    <2>1. /\ UNCHANGED <<bloqueados, asignados>> /\ (sem' = sem \/ Post("GRADO") \/ Post("exec_libre"))
          /\ colas' = [colas EXCEPT !["EXIT"] = Append(@, f.q)]
          /\ \E T : Pone(h, [f EXCEPT !.paso = "libera", !.rs = T])
      BY <1>10 DEF Agrega, Post, vRecurso
    <2>2. hilo'[h].paso \notin {"saca", "encola"}
      BY <1>2, <2>1 DEF Pone, Hilo
    <2>3. colas'["BLOCK"] = colas["BLOCK"]
      BY <1>1, <2>1 DEF Colas
    <2> QED BY <1>1, <1>5, <1>6, <2>1, <2>2, <2>3
  <1>11. CASE Elimina(h)
    <2>1. UNCHANGED <<colas, bloqueados, asignados>> /\ Post("t_exit_largo") /\ Pone(h, Ocioso)
      BY <1>11 DEF Elimina, vCola, vRecurso
    <2>2. hilo'[h].paso \notin {"saca", "encola"}
      BY <1>2, <2>1 DEF Pone
    <2> QED BY <1>1, <1>5, <1>6, <2>1, <2>2
  <1>12. CASE AsignaToma(h)
    <2>1. f.paso = "asigna_toma" /\ f.q \in Procesos /\ f.r \in Recursos
      BY <1>2, <1>12 DEF AsignaToma, HiloBueno, DeAsignar
    <2>a. Anotado(f) = f.r
      BY <1>2, <2>1 DEF DelNombre, Anotado
    <2>2. /\ UNCHANGED <<colas, bloqueados>> /\ Sigue(h, "libera") /\ Post("t_blocked_ready")
          /\ asignados' = [asignados EXCEPT ![f.q][f.r] = @ + 1]
      BY <1>12, <2>a DEF AsignaToma, vCola
    <2>3. hilo'[h].paso = "libera"
      BY <1>2, <2>2 DEF Sigue, Pone, Hilo
    <2>4. PICK r \in Recursos : r = f.r
      BY <2>1
    <2>5. PICK q \in Procesos : q = f.q
      BY <2>1
    <2>6. \A p \in Procesos : \A s \in Recursos : (p = q /\ s = r) \/ asignados'[p][s] = asignados[p][s]
      BY <1>2, <2>2, <2>4, <2>5
    <2>7. \A s \in Recursos : ToSet(bloqueados[s]) \subseteq Procesos
      <3> SUFFICES ASSUME NEW s \in Recursos PROVE ToSet(bloqueados[s]) \subseteq Procesos
        OBVIOUS
      <3>1. bloqueados[s] \in Seq(Procesos)
        BY <1>2
      <3> QED BY <3>1 DEF ToSet
    <2>8. Otros(r)
      <3> SUFFICES ASSUME NEW s \in Recursos, s # r PROVE Pendientes(s)' = Pendientes(s)
        BY DEF Otros
      <3>1. \A p \in ToSet(bloqueados[s]) : asignados'[p][s] = asignados[p][s]
        BY <2>6, <2>7
      <3> QED BY <2>2, <3>1 DEF Pendientes
    <2>9. Pendientes(r) \ {q} \subseteq Pendientes(r)'
      <3>1. \A p \in ToSet(bloqueados[r]) : p # q => asignados'[p][r] = asignados[p][r]
        BY <2>6, <2>7
      <3> QED BY <2>2, <3>1 DEF Pendientes
    <2>10. Quienes' >= Quienes - 1 /\ Quienes' \in Int
      BY <2>8, <2>9, QuienesCambian
    <2>11. sem'["t_exec_blocked"] = sem["t_exec_blocked"] /\ sem'["t_blocked_ready"] = sem["t_blocked_ready"] + 1
      BY <1>1, <2>2 DEF Post
    <2>12. Camino' = Camino
      BY <1>b, <2>11, CaminoQuieto
    <2> QED BY <1>1, <1>3, <1>4, <2>2, <2>3, <2>10, <2>11, <2>12 DEF Avisados
  <1>13. ASSUME NEW s \in Recursos, Devuelve(h, s) PROVE Avisados'
    <2> DEFINE queda == SinPropias(bloqueados[s], f.p)
    <2>1. f.p \in Procesos /\ asignados[f.p][s] > 0
      BY <1>2, <1>13 DEF Devuelve, En, HiloBueno, ConProceso
    <2>2. queda \in Seq(Procesos) /\ \A x : Esta(x, bloqueados[s]) => Esta(x, queda) \/ x = f.p
      BY <1>2, PropiasQuitadas
    <2>3. /\ UNCHANGED <<colas, sem>> /\ bloqueados' = [bloqueados EXCEPT ![s] = queda]
          /\ asignados' = [asignados EXCEPT ![f.p][s] = @ - 1]
      BY <1>13 DEF Devuelve, vCola
    <2>4. UNCHANGED hilo \/ \E q : Pone(h, [f EXCEPT !.paso = "asigna", !.r = s, !.q = q])
      BY <1>13 DEF Devuelve
    <2> HIDE DEF queda
    <2>5. hilo'[h].paso \notin {"saca", "encola"}
      BY <1>2, <1>3, <2>4 DEF Pone, Hilo
    <2>6. PICK p \in Procesos : p = f.p
      BY <2>1
    <2>7. /\ \A r \in Recursos : r # s => bloqueados'[r] = bloqueados[r]
          /\ \A q \in Procesos : \A r \in Recursos : (q = p /\ r = s) \/ asignados'[q][r] = asignados[q][r]
          /\ bloqueados'[s] = queda
      BY <1>2, <2>3, <2>6
    <2>8. \A r \in Recursos : bloqueados[r] \in Seq(Procesos) /\ ToSet(bloqueados[r]) \subseteq Procesos
      <3> SUFFICES ASSUME NEW r \in Recursos
                   PROVE  bloqueados[r] \in Seq(Procesos) /\ ToSet(bloqueados[r]) \subseteq Procesos
        OBVIOUS
      <3>1. bloqueados[r] \in Seq(Procesos)
        BY <1>2
      <3> QED BY <3>1 DEF ToSet
    <2>9. Otros(s)
      <3> SUFFICES ASSUME NEW r \in Recursos, r # s PROVE Pendientes(r)' = Pendientes(r)
        BY DEF Otros
      <3>1. \A q \in ToSet(bloqueados[r]) : asignados'[q][r] = asignados[q][r]
        BY <2>7, <2>8
      <3> QED BY <2>7, <3>1 DEF Pendientes
    <2>10. Pendientes(s) \subseteq Pendientes(s)'
      <3>1. \A q : q \in ToSet(bloqueados[s]) => q \in ToSet(queda) \/ q = p
        BY <2>2, <2>6, <2>8, EstaEnConjunto
      <3>2. p \notin Pendientes(s)
        BY <2>1, <2>6 DEF Pendientes
      <3>3. \A q \in Pendientes(s) : q \in Procesos /\ q # p
        BY <2>8, <3>2 DEF Pendientes
      <3> QED BY <2>7, <3>1, <3>3 DEF Pendientes
    <2>11. Quienes' >= Quienes /\ Quienes' \in Int
      BY <2>9, <2>10, QuienesCambian
    <2>12. Camino' = Camino
      BY <1>b, <2>3, CaminoQuieto
    <2> QED BY <1>1, <1>3, <1>4, <2>3, <2>5, <2>11, <2>12 DEF Avisados
  <1>14. CASE AsignaNombre(h) \/ AsignaBusca(h)
    <2>1. UNCHANGED <<colas, sem, bloqueados, asignados>>
      BY <1>14 DEF AsignaNombre, AsignaBusca, vCola, vRecurso
    <2>2. hilo'[h].paso \notin {"saca", "encola"}
      BY <1>2, <1>14 DEF AsignaNombre, AsignaBusca, Sigue, Pone, Hilo
    <2> QED BY <1>1, <1>5, <2>1, <2>2
  <1> QED BY <1>7, <1>8, <1>9, <1>10, <1>11, <1>12, <1>13, <1>14 DEF Fin

LEMMA AvisadosSiempre ==
    ASSUME Tipos, Tipos', Nombres, Pedidos, Avisados, falla' = "ninguna", resta' = resta, resta = MaxFinalizar, Next
    PROVE  Avisados'
  <1>1. ~Fin("consola")
    <2>1. hilo["consola"].paso \notin DeFin
      BY DEF DeFin, DeAsignar, Pedidos
    <2> QED BY <2>1, PasoDeFin DEF HilosFin
  <1> QED BY <1>1, AvisadosPlanificadores, AvisadosOperador, AvisadosCpu, AvisadosDispatch, AvisadosFin DEF Next

LEMMA AvisosSiempre ==
    ASSUME Tipos, Tipos', Nombres, Avisos, [Next]_vars PROVE Avisos'
  <1>1. CASE UNCHANGED vars
    <2>1. /\ UNCHANGED <<colas, sem, bloqueados, asignados, programa, PC, hilo>>
          /\ UNCHANGED <<resta, falla, nombre_recurso_recibido, bloqueo>>
      BY <1>1 DEF vars, vCola, vRecurso, vCpu, vFin, vGrado
    <2>2. Simple' <=> Simple
      BY <2>1 DEF Simple, SinConsola, SinReentrada
    <2>3. Pedidos => Pedidos'
      BY <2>1, PedidosQuietos
    <2>4. Avisados => Avisados'
      BY <2>1 DEF Avisados, Camino, Quienes, Pendientes
    <2> QED BY <2>1, <2>2, <2>3, <2>4 DEF Avisos
  <1>2. CASE Next
    <2>1. /\ programa' = programa /\ resta' \in Int /\ resta' <= resta /\ resta \in Int
          /\ falla = "ninguna" /\ resta <= MaxFinalizar /\ MaxFinalizar \in Nat
      BY <1>2, Comandos, CotasAssumption DEF Next, Avisos
    <2>2. ASSUME Simple' PROVE Simple /\ resta' = resta /\ falla' = "ninguna" /\ SinReentrada
                                    /\ resta = MaxFinalizar
      <3>1. resta' = MaxFinalizar /\ falla' = "ninguna" /\ SinReentrada
        BY <2>1, <2>2 DEF Simple, SinConsola, SinReentrada
      <3>2. resta = MaxFinalizar
        BY <2>1, <3>1
      <3> QED BY <2>1, <3>1, <3>2 DEF Simple, SinConsola
    <2>3. resta' <= MaxFinalizar
      BY <2>1
    <2>4. ASSUME Simple' PROVE Pedidos' /\ Avisados'
      <3>1. Pedidos /\ Avisados
        BY <2>2, <2>4 DEF Avisos
      <3> QED BY <1>2, <2>1, <2>2, <2>4, <3>1, PedidosSiempre, AvisadosSiempre
    <2> QED BY <2>3, <2>4 DEF Avisos
  <1> QED BY <1>1, <1>2

(* While nobody is ended from the console and no program asks for one      *)
(* resource twice, for each process in BLOCK or on its way there somebody  *)
(* waits in the queue of a resource, or an order to blocked_ready is       *)
(* pending: no order is given for a process that has already been served,  *)
(* and the end of a process takes nobody's place but its own.              *)
THEOREM NadieQuedaOlvidado == Spec => []NadieOlvidado
  <1>1. Spec => [](Tipos /\ Nombres /\ Avisos)
    <2>1. Init => Tipos /\ Nombres /\ Avisos
      BY TiposAlInicio, NombresAlInicio, PedidosAlInicio
    <2>2. Tipos /\ Nombres /\ Avisos /\ [Next]_vars => Tipos' /\ Nombres' /\ Avisos'
      BY TiposSiempre, NombresSiempre, AvisosSiempre
    <2> QED BY <2>1, <2>2, PTL DEF Spec
  <1>2. Tipos /\ Avisos => NadieOlvidado
    BY DEF Avisos, NadieOlvidado, Simple, Avisados, Camino, Quienes, Uno, En, Tipos, TCola, TSem, TGra, Colas, Semaforos
  <1> QED BY <1>1, <1>2, PTL

-----------------------------------------------------------------------------
(* The degree.  The units there are: the semaphore's, the one largo_plazo  *)
(* took, and one per process in READY, EXEC and BLOCK or in the console's  *)
(* hand after leaving them.  A command of the console moves their number   *)
(* by one at most, and does it at the end: until then it is an Encargo.    *)
(* The dispatch thread, with resources that exist, never runs that code.   *)

Ajenos == {"exec", "colas", "saca_cola", "agrega"}
Encargo(x) == IF x.paso \in Ajenos THEN 1 ELSE 0
Llevado(x) == IF x.paso = "agrega" /\ x.q # NULO /\ x.cola # "NEW" THEN 1 ELSE 0
Ocupado == sem["GRADO"] + (IF largo THEN 1 ELSE 0)
           + Len(colas["READY"]) + Len(colas["EXEC"]) + Len(colas["BLOCK"])
Exceso == Ocupado + Llevado(hilo["consola"]) - (Grado + pedido - ajuste)
Hechos == MaxFinalizar - resta - Encargo(hilo["consola"])
Medido == /\ hilo["dispatch"].paso \notin Ajenos
          /\ -Hechos <= Exceso /\ Exceso <= Hechos
Grados == falla = "ninguna" /\ RecursosValidos => Medido

LEMMA Enteros ==
    ASSUME Tipos
    PROVE  /\ sem \in [Semaforos -> Nat] /\ sem["GRADO"] \in Nat /\ "GRADO" \in Semaforos
           /\ Len(colas["READY"]) \in Nat /\ Len(colas["EXEC"]) \in Nat /\ Len(colas["BLOCK"]) \in Nat
           /\ Ocupado \in Int /\ Llevado(hilo["consola"]) \in {0, 1} /\ Encargo(hilo["consola"]) \in {0, 1}
           /\ Grado \in Int /\ pedido \in Int /\ ajuste \in Int /\ resta \in Int /\ MaxFinalizar \in Int
           /\ Exceso \in Int /\ Hechos \in Int
  <1>1. sem \in [Semaforos -> Nat] /\ sem["GRADO"] \in Nat /\ "GRADO" \in Semaforos
    BY DEF Tipos, TSem, Semaforos
  <1>2. Len(colas["READY"]) \in Nat /\ Len(colas["EXEC"]) \in Nat /\ Len(colas["BLOCK"]) \in Nat
    BY DEF Tipos, TCola, Colas
  <1>3. Ocupado \in Int
    <2> DEFINE t == IF largo THEN 1 ELSE 0
               n == sem["GRADO"] + t + Len(colas["READY"]) + Len(colas["EXEC"]) + Len(colas["BLOCK"])
    <2>1. t \in Int
      OBVIOUS
    <2>2. Ocupado = n
      BY DEF Ocupado
    <2> HIDE DEF t
    <2>3. n \in Int
      BY <1>1, <1>2, <2>1
    <2> QED BY <2>2, <2>3
  <1>4. Llevado(hilo["consola"]) \in {0, 1} /\ Encargo(hilo["consola"]) \in {0, 1}
    BY DEF Llevado, Encargo
  <1>5. /\ Grado \in Int /\ pedido \in Int /\ ajuste \in Int /\ resta \in Int /\ MaxFinalizar \in Int
    BY GradoAssumption, CotasAssumption DEF Tipos, TGra, TFin
  <1>6. Exceso \in Int /\ Hechos \in Int
    BY <1>3, <1>4, <1>5 DEF Exceso, Hechos
  <1> QED BY <1>1, <1>2, <1>3, <1>4, <1>5, <1>6

LEMMA EnterosDespues == Tipos' => (Ocupado \in Int /\ pedido \in Int /\ ajuste \in Int)'
  <1>1. Tipos => Ocupado \in Int /\ pedido \in Int /\ ajuste \in Int
    BY Enteros
  <1> QED BY <1>1, PTL

LEMMA GradosAlInicio == Init => Grados
  <1> SUFFICES ASSUME Init PROVE Medido
    BY DEF Grados
  <1>1. /\ hilo["dispatch"].paso = "libre" /\ hilo["consola"].paso = "libre"
        /\ sem["GRADO"] = Grado /\ largo = FALSE /\ pedido = 0 /\ ajuste = 0 /\ resta = MaxFinalizar
        /\ colas["READY"] = <<>> /\ colas["EXEC"] = <<>> /\ colas["BLOCK"] = <<>>
    BY DEF Init, Ocioso, HilosFin, Semaforos, Colas
  <1>2. Ocupado = Grado /\ Encargo(hilo["consola"]) = 0 /\ Llevado(hilo["consola"]) = 0
    BY <1>1, GradoAssumption DEF Ocupado, Encargo, Llevado, Ajenos
  <1> QED BY <1>1, <1>2, GradoAssumption, CotasAssumption DEF Medido, Ajenos, Exceso, Hechos

(* The console is as it was.                                               *)
LEMMA MedidoQuieto ==
    ASSUME Tipos, Tipos', Medido, hilo'["dispatch"].paso \notin Ajenos,
           Ocupado' - (pedido' - ajuste') = Ocupado - (pedido - ajuste),
           hilo'["consola"] = hilo["consola"], resta' = resta
    PROVE  Medido'
  <1>1. Llevado(hilo["consola"])' = Llevado(hilo["consola"]) /\ Encargo(hilo["consola"])' = Encargo(hilo["consola"])
    BY DEF Llevado, Encargo
  <1>2. /\ Ocupado \in Int /\ pedido \in Int /\ ajuste \in Int /\ Llevado(hilo["consola"]) \in Int /\ Grado \in Int
        /\ Ocupado' \in Int /\ pedido' \in Int /\ ajuste' \in Int
    <2>1. Ocupado \in Int /\ pedido \in Int /\ ajuste \in Int /\ Llevado(hilo["consola"]) \in {0, 1} /\ Grado \in Int
      BY Enteros
    <2>2. (Ocupado \in Int /\ pedido \in Int /\ ajuste \in Int)'
      BY EnterosDespues
    <2> QED BY <2>1, <2>2
  <1>3. Hechos' = Hechos
    BY <1>1 DEF Hechos
  <1>5. Exceso = Ocupado + Llevado(hilo["consola"]) - (Grado + pedido - ajuste)
    BY DEF Exceso
  <1>6. Exceso' = Ocupado' + Llevado(hilo["consola"]) - (Grado + pedido' - ajuste')
    BY <1>1 DEF Exceso
  <1>7. Ocupado' + Llevado(hilo["consola"]) - (Grado + pedido' - ajuste')
        = Ocupado + Llevado(hilo["consola"]) - (Grado + pedido - ajuste)
    <2>1. PICK o1 \in Int : o1 = Ocupado'
      BY <1>2
    <2>2. PICK p1 \in Int : p1 = pedido'
      BY <1>2
    <2>3. PICK a1 \in Int : a1 = ajuste'
      BY <1>2
    <2>4. PICK o \in Int : o = Ocupado
      BY <1>2
    <2>5. PICK l \in Int : l = Llevado(hilo["consola"])
      BY <1>2
    <2>6. o1 - (p1 - a1) = o - (pedido - ajuste)
      BY <2>1, <2>2, <2>3, <2>4
    <2>7. o1 + l - (Grado + p1 - a1) = o + l - (Grado + pedido - ajuste)
      BY <1>2, <2>6
    <2> QED BY <2>1, <2>2, <2>3, <2>4, <2>5, <2>7
  <1>8. Exceso' = Exceso
    BY <1>5, <1>6, <1>7, Zenon
  <1> QED BY <1>3, <1>8 DEF Medido

LEMMA MedidoPlanificadores ==
    ASSUME Tipos, Tipos', Medido, Planificadores \/ ManejaLee \/ ManejaUno PROVE Medido'
  <1>1. UNCHANGED <<hilo, resta>>
    BY DEF Planificadores, LargoToma, LargoMueve, CortoPlazo, ExecReady, ExecBlocked, ExecBlockedLibera,
           ExecBlockedMueve, ExecBlockedGuarda, BlockedReady, ExitLargoPlazo, ManejaLee, ManejaUno, vFin
  <1>2. /\ sem \in [Semaforos -> Nat] /\ sem["GRADO"] \in Nat /\ "GRADO" \in Semaforos
        /\ Len(colas["READY"]) \in Nat /\ Len(colas["EXEC"]) \in Nat /\ Len(colas["BLOCK"]) \in Nat
        /\ Grado \in Int /\ pedido \in Int /\ ajuste \in Int /\ Ocupado \in Int /\ largo \in BOOLEAN
    BY Enteros DEF Tipos, TGra
  <1>3. ASSUME NEW a \in Colas, NEW b \in Colas, a # b, Mueve(a, b), NEW c \in Colas
        PROVE  Len(colas'[c]) = Len(colas[c]) + (IF b = c THEN 1 ELSE 0) - (IF a = c THEN 1 ELSE 0)
    BY <1>3, LargosAlMover
  <1> DEFINE g == sem["GRADO"]
             g1 == sem'["GRADO"]
             R == Len(colas["READY"])
             E == Len(colas["EXEC"])
             B == Len(colas["BLOCK"])
             R1 == Len(colas'["READY"])
             E1 == Len(colas'["EXEC"])
             B1 == Len(colas'["BLOCK"])
             t == IF largo THEN 1 ELSE 0
             t1 == IF largo' THEN 1 ELSE 0
  <1>4. Ocupado = g + t + R + E + B /\ Ocupado' = g1 + t1 + R1 + E1 + B1
    BY DEF Ocupado
  <1>5. g \in Int /\ t \in Int /\ R \in Int /\ E \in Int /\ B \in Int
    BY <1>2
  <1>6. CASE LargoToma
    <2>1. g1 = g - 1 /\ t = 0 /\ t1 = 1 /\ UNCHANGED <<colas, pedido, ajuste>>
      BY <1>2, <1>6 DEF LargoToma, vCola, Semaforos
    <2> HIDE DEF g, g1, R, E, B, R1, E1, B1, t, t1
    <2>2. R1 = R /\ E1 = E /\ B1 = B
      BY <2>1 DEF R, E, B, R1, E1, B1
    <2> QED BY <1>1, <1>4, <1>5, <2>1, <2>2, MedidoQuieto DEF Medido
  <1>7. CASE LargoMueve
    <2>1. g1 = g /\ t = 1 /\ t1 = 0 /\ Mueve("NEW", "READY") /\ UNCHANGED <<pedido, ajuste>>
      BY <1>7 DEF LargoMueve
    <2>2. R1 = R + 1 /\ E1 = E /\ B1 = B
      BY <1>3, <1>5, <2>1 DEF Colas
    <2> HIDE DEF g, g1, R, E, B, R1, E1, B1, t, t1
    <2> QED BY <1>1, <1>4, <1>5, <2>1, <2>2, MedidoQuieto DEF Medido
  <1>8. CASE CortoPlazo
    <2>1. g1 = g /\ t1 = t /\ Mueve("READY", "EXEC") /\ UNCHANGED <<pedido, ajuste>>
      BY <1>2, <1>8 DEF CortoPlazo, vGrado, Semaforos
    <2>2. R1 = R - 1 /\ E1 = E + 1 /\ B1 = B
      BY <1>3, <1>5, <2>1 DEF Colas
    <2> HIDE DEF g, g1, R, E, B, R1, E1, B1, t, t1
    <2> QED BY <1>1, <1>4, <1>5, <2>1, <2>2, MedidoQuieto DEF Medido
  <1>9. CASE ExecReady
    <2>1. g1 = g /\ t1 = t /\ Mueve("EXEC", "READY") /\ UNCHANGED <<pedido, ajuste>>
      BY <1>2, <1>9 DEF ExecReady, vGrado, Semaforos
    <2>2. R1 = R + 1 /\ E1 = E - 1 /\ B1 = B
      BY <1>3, <1>5, <2>1 DEF Colas
    <2> HIDE DEF g, g1, R, E, B, R1, E1, B1, t, t1
    <2> QED BY <1>1, <1>4, <1>5, <2>1, <2>2, MedidoQuieto DEF Medido
  <1>10. CASE ExecBlockedMueve
    <2>1. g1 = g /\ t1 = t /\ Mueve("EXEC", "BLOCK") /\ UNCHANGED <<pedido, ajuste>>
      BY <1>2, <1>10 DEF ExecBlockedMueve
    <2>2. R1 = R /\ E1 = E - 1 /\ B1 = B + 1
      BY <1>3, <1>5, <2>1 DEF Colas
    <2> HIDE DEF g, g1, R, E, B, R1, E1, B1, t, t1
    <2> QED BY <1>1, <1>4, <1>5, <2>1, <2>2, MedidoQuieto DEF Medido
  <1>15. CASE ExecBlockedLibera \/ ExecBlockedGuarda
    <2>1. g1 = g /\ UNCHANGED <<colas, largo, pedido, ajuste>>
      BY <1>2, <1>15 DEF ExecBlockedLibera, ExecBlockedGuarda, Semaforos, vCola
    <2>2. R1 = R /\ E1 = E /\ B1 = B /\ t1 = t
      BY <2>1
    <2> HIDE DEF g, g1, R, E, B, R1, E1, B1, t, t1
    <2> QED BY <1>1, <1>4, <1>5, <2>1, <2>2, MedidoQuieto DEF Medido
  <1>11. CASE BlockedReady
    <2>1. g1 = g /\ t1 = t /\ Mueve("BLOCK", "READY") /\ UNCHANGED <<pedido, ajuste>>
      BY <1>2, <1>11 DEF BlockedReady, vGrado, Semaforos
    <2>2. R1 = R + 1 /\ E1 = E /\ B1 = B - 1
      BY <1>3, <1>5, <2>1 DEF Colas
    <2> HIDE DEF g, g1, R, E, B, R1, E1, B1, t, t1
    <2> QED BY <1>1, <1>4, <1>5, <2>1, <2>2, MedidoQuieto DEF Medido
  <1>12. CASE ExitLargoPlazo
    <2>1. g1 = g + 1 /\ t1 = t /\ Mueve("EXEC", "EXIT") /\ UNCHANGED <<pedido, ajuste>>
      BY <1>2, <1>12 DEF ExitLargoPlazo, vGrado, Semaforos
    <2>2. R1 = R /\ E1 = E - 1 /\ B1 = B
      BY <1>3, <1>5, <2>1 DEF Colas
    <2> HIDE DEF g, g1, R, E, B, R1, E1, B1, t, t1
    <2> QED BY <1>1, <1>4, <1>5, <2>1, <2>2, MedidoQuieto DEF Medido
  <1>13. CASE ManejaLee
    <2>1. /\ g1 = g /\ t1 = t /\ UNCHANGED colas /\ ajuste = 0
          /\ ajuste' = valorGrado - Grado /\ pedido' = pedido + valorGrado - Grado
      BY <1>2, <1>13 DEF ManejaLee, vCola, Semaforos
    <2>2. R1 = R /\ E1 = E /\ B1 = B /\ valorGrado \in Int
      BY <2>1 DEF Tipos, TGra
    <2> HIDE DEF g, g1, R, E, B, R1, E1, B1, t, t1
    <2>3. Ocupado' = Ocupado
      BY <1>4, <2>1, <2>2
    <2>4. pedido' - ajuste' = pedido - ajuste
      BY <1>2, <2>1, <2>2
    <2> QED BY <1>1, <2>3, <2>4, MedidoQuieto DEF Medido
  <1>14. CASE ManejaUno
    <2>1. /\ t1 = t /\ UNCHANGED <<colas, pedido>>
          /\ (g1 = g + 1 /\ ajuste' = ajuste - 1) \/ (g1 = g - 1 /\ ajuste' = ajuste + 1)
      BY <1>2, <1>14 DEF ManejaUno, vCola
    <2>2. R1 = R /\ E1 = E /\ B1 = B
      BY <2>1
    <2> HIDE DEF g, g1, R, E, B, R1, E1, B1, t, t1
    <2>3. Ocupado' - (pedido' - ajuste') = Ocupado - (pedido - ajuste)
      BY <1>2, <1>4, <1>5, <2>1, <2>2
    <2> QED BY <1>1, <2>3, MedidoQuieto DEF Medido
  <1> QED BY <1>6, <1>7, <1>8, <1>9, <1>10, <1>11, <1>12, <1>13, <1>14, <1>15
          DEF Planificadores, ExecBlocked

LEMMA MedidoOperador ==
    ASSUME Tipos, Tipos', Medido, Operador PROVE Medido'
  <1>1. /\ sem \in [Semaforos -> Nat] /\ "GRADO" \in Semaforos /\ resta \in Int /\ MaxFinalizar \in Int
        /\ colas \in [Colas -> Seq(PCB)] /\ hilo \in [HilosFin -> Hilo]
        /\ "consola" \in HilosFin /\ "dispatch" \in HilosFin
    BY Enteros DEF Tipos, TCola, TFin, HilosFin
  <1>2. ASSUME NEW p \in Procesos, IniciarProceso(p) PROVE Medido'
    <2>1. /\ sem'["GRADO"] = sem["GRADO"] /\ UNCHANGED <<hilo, resta, largo, pedido, ajuste>>
          /\ UNCHANGED <<colas["READY"], colas["EXEC"], colas["BLOCK"]>>
      BY <1>1, <1>2 DEF IniciarProceso, Post, vFin, vGrado, Semaforos, Colas
    <2> QED BY <2>1, MedidoQuieto DEF Medido, Ocupado
  <1>3. ASSUME NEW v \in NuevosGrados, Multiprogramacion(v) PROVE Medido'
    <2>1. /\ sem'["GRADO"] = sem["GRADO"] /\ UNCHANGED <<hilo, resta, largo, pedido, ajuste, colas>>
      BY <1>1, <1>3 DEF Multiprogramacion, Post, vFin, vCola, Semaforos
    <2> QED BY <2>1, MedidoQuieto DEF Medido, Ocupado
  <1>4. ASSUME NEW p \in Procesos, Finalizar(p) PROVE Medido'
    <2>1. /\ UNCHANGED <<sem, largo, pedido, ajuste, colas>> /\ resta' = resta - 1
          /\ hilo["consola"].paso = "libre" /\ hilo'["dispatch"] = hilo["dispatch"]
          /\ hilo'["consola"] = [Ocioso EXCEPT !.paso = "exec", !.p = p]
      BY <1>1, <1>4 DEF Finalizar, Pone, En, vCola, vGrado
    <2>2. hilo'["consola"].paso = "exec"
      BY <2>1 DEF Ocioso
    <2>3. /\ Encargo(hilo["consola"]) = 0 /\ Llevado(hilo["consola"]) = 0
          /\ Encargo(hilo'["consola"]) = 1 /\ Llevado(hilo'["consola"]) = 0
      BY <2>1, <2>2 DEF Encargo, Llevado, Ajenos
    <2>4. Hechos' = Hechos
      BY <1>1, <2>1, <2>3 DEF Hechos
    <2>5. Ocupado' = Ocupado
      BY <2>1 DEF Ocupado
    <2>6. Exceso' = Exceso
      BY <2>1, <2>3, <2>5 DEF Exceso
    <2> QED BY <2>1, <2>4, <2>6 DEF Medido
  <1> QED BY <1>2, <1>3, <1>4 DEF Operador

LEMMA MedidoCpu ==
    ASSUME Tipos, Tipos', Medido, Cpu PROVE Medido'
  <1>1. /\ sem \in [Semaforos -> Nat] /\ "GRADO" \in Semaforos /\ hilo \in [HilosFin -> Hilo]
        /\ "consola" \in HilosFin /\ "dispatch" \in HilosFin
    BY Enteros DEF Tipos, TFin, HilosFin
  <1> SUFFICES ASSUME NEW p \in Procesos,
                      \/ Calcula(p) \/ FinDeQuantum(p) \/ Termina(p) \/ Desincronizado(p) \/ Pisado(p)
                      \/ \E i \in ToSet(programa[p]) : Recibe(p, i)
               PROVE  Medido'
    BY DEF Cpu
  <1>3. UNCHANGED <<colas, largo, pedido, ajuste, resta>>
    BY DEF Calcula, FinDeQuantum, Termina, Desincronizado, Pisado, Recibe, vCola, vGrado, vFin
  <1>4. ASSUME sem' = sem \/ Post("t_exec_ready"),
               \/ UNCHANGED hilo
               \/ \E x : Pone("dispatch", x) /\ x.paso \notin Ajenos
        PROVE  Medido'
    <2>1. sem'["GRADO"] = sem["GRADO"]
      BY <1>1, <1>4 DEF Post
    <2>2. Ocupado' = Ocupado
      BY <1>3, <2>1 DEF Ocupado
    <2>3. hilo'["consola"] = hilo["consola"] /\ hilo'["dispatch"].paso \notin Ajenos
      BY <1>1, <1>4 DEF Pone, Medido
    <2> QED BY <1>3, <2>2, <2>3, MedidoQuieto
  <1>5. CASE Calcula(p) \/ FinDeQuantum(p) \/ Desincronizado(p) \/ Pisado(p)
    BY <1>4, <1>5 DEF Calcula, FinDeQuantum, Desincronizado, Pisado, vFin
  <1>6. CASE Termina(p)
    <2>1. [Ocioso EXCEPT !.paso = "pcb_exec"].paso \notin Ajenos
      BY DEF Ocioso, Ajenos
    <2> QED BY <1>4, <1>6, <2>1 DEF Termina
  <1>7. ASSUME NEW i \in ToSet(programa[p]), Recibe(p, i) PROVE Medido'
    <2> DEFINE x == [Ocioso EXCEPT !.paso = IF i.op = "WAIT" THEN "nombre_wait" ELSE "nombre_signal", !.p = p]
    <2>1. sem' = sem /\ Pone("dispatch", x)
      BY <1>7 DEF Recibe
    <2>2. x.paso \notin Ajenos
      BY DEF Ocioso, Ajenos
    <2> HIDE DEF x
    <2> QED BY <1>4, <2>1, <2>2
  <1> QED BY <1>5, <1>6, <1>7

LEMMA MedidoDispatch ==
    ASSUME Tipos, Tipos', Nombres, RecursosValidos, Medido, Dispatch \/ Fin("dispatch") PROVE Medido'
  <1> DEFINE d == hilo["dispatch"]
  <1>1. /\ sem \in [Semaforos -> Nat] /\ "GRADO" \in Semaforos /\ hilo \in [HilosFin -> Hilo]
        /\ "consola" \in HilosFin /\ "dispatch" \in HilosFin /\ d \in Hilo
    BY Enteros DEF Tipos, TFin, HilosFin
  <1>r. ~RecursoInvalido
    <2>1. d.paso \in {"nombre_wait", "nombre_signal"} => nombre_recurso_recibido \in Recursos
      BY <1>1 DEF Nombres, Nombrado, ConNombre
    <2> QED BY <2>1 DEF RecursoInvalido
  <1>2. Obtiene \/ Wait \/ Signal \/ WaitBusca \/ WaitToma \/ WaitEncola \/ SignalSaca \/ SignalRepone \/ PcbExec
        \/ AsignaNombre("dispatch") \/ AsignaBusca("dispatch") \/ AsignaToma("dispatch")
        \/ Elimina("dispatch") \/ \E r \in Recursos : Devuelve("dispatch", r)
    BY <1>r DEF Medido, Ajenos, Dispatch, Fin, BuscaExec, BuscaColas, SacaCola, Agrega, En
  <1>3. UNCHANGED <<colas, largo, pedido, ajuste, resta>>
    BY <1>2 DEF Obtiene, Wait, Signal, WaitBusca, WaitToma, WaitEncola, SignalSaca, SignalRepone, PcbExec,
                AsignaNombre, AsignaBusca, AsignaToma, Elimina, Devuelve, vCola, vGrado
  <1>4. sem' = sem \/ Post("t_exec_blocked") \/ Post("t_blocked_ready") \/ Post("t_exit_largo")
    BY <1>2 DEF Obtiene, Wait, Signal, WaitBusca, WaitToma, WaitEncola, SignalSaca, SignalRepone, PcbExec,
                AsignaNombre, AsignaBusca, AsignaToma, Elimina, Devuelve
  <1>5. sem'["GRADO"] = sem["GRADO"]
    BY <1>1, <1>4 DEF Post
  <1>6. Ocupado' = Ocupado
    BY <1>3, <1>5 DEF Ocupado
  <1>l. \A s \in {"libre", "wait", "signal", "busca", "saca", "toma", "encola", "repone", "libera", "asigna",
                 "asigna_busca", "asigna_toma"} : s \notin Ajenos
    BY DEF Ajenos
  <1>7. hilo'["consola"] = hilo["consola"] /\ (UNCHANGED hilo \/ hilo'["dispatch"].paso \notin Ajenos)
    <2>1. CASE UNCHANGED hilo
      BY <2>1
    <2>2. ASSUME NEW s, Sigue("dispatch", s)
          PROVE  hilo'["consola"] = hilo["consola"] /\ hilo'["dispatch"].paso = s
      BY <1>1, <2>2 DEF Sigue, Pone, Hilo
    <2>3. CASE Pone("dispatch", Ocioso)
      <3>1. Ocioso.paso = "libre"
        BY DEF Ocioso
      <3> QED BY <1>1, <1>l, <2>3, <3>1 DEF Pone
    <2>4. CASE Obtiene
      <3> DEFINE x == [d EXCEPT !.paso = IF @ = "nombre_wait" THEN "wait" ELSE "signal", !.r = nombre_recurso_recibido]
      <3>1. Pone("dispatch", x) /\ x.paso \in {"wait", "signal"}
        BY <1>1, <2>4 DEF Obtiene, Hilo
      <3> HIDE DEF x
      <3> QED BY <1>1, <1>l, <3>1 DEF Pone
    <2>5. CASE Wait
      <3> DEFINE x == [d EXCEPT !.paso = "busca", !.hay = instancias[d.r] > 0]
      <3>1. Pone("dispatch", x) /\ x.paso = "busca"
        BY <1>1, <2>5 DEF Wait, Hilo
      <3> HIDE DEF x
      <3> QED BY <1>1, <1>l, <3>1 DEF Pone
    <2>6. CASE Signal \/ SignalSaca
      BY <1>l, <2>2, <2>6 DEF Signal, SignalSaca
    <2>7. CASE WaitBusca
      <3> DEFINE x == [d EXCEPT !.paso = "toma", !.ya = YaTiene(d.p)]
      <3>1. x.paso = "toma"
        BY <1>1 DEF Hilo
      <3>2. UNCHANGED hilo \/ Pone("dispatch", x) \/ Sigue("dispatch", "encola")
        BY <2>7 DEF WaitBusca
      <3> HIDE DEF x
      <3> QED BY <1>1, <1>l, <2>2, <3>1, <3>2 DEF Pone
    <2>8. CASE WaitToma \/ WaitEncola \/ SignalRepone \/ Elimina("dispatch")
      BY <2>3, <2>8 DEF WaitToma, WaitEncola, SignalRepone, Elimina
    <2>9. CASE PcbExec
      <3> DEFINE x == [Ocioso EXCEPT !.paso = "libera", !.p = pid_a_finalizar, !.rs = Tiene(pid_a_finalizar)]
      <3>1. x.paso = "libera"
        BY DEF Ocioso
      <3>2. UNCHANGED hilo \/ Pone("dispatch", x)
        BY <2>9 DEF PcbExec
      <3> HIDE DEF x
      <3> QED BY <1>1, <1>l, <3>1, <3>2 DEF Pone
    <2>10. CASE AsignaNombre("dispatch") \/ AsignaToma("dispatch")
      BY <1>l, <2>2, <2>10 DEF AsignaNombre, AsignaToma
    <2>11. CASE AsignaBusca("dispatch")
      <3> DEFINE x == [d EXCEPT !.paso = "asigna_toma", !.ya = YaTiene(d.q)]
      <3>1. Pone("dispatch", x) /\ x.paso = "asigna_toma"
        BY <1>1, <2>11 DEF AsignaBusca, Hilo
      <3> HIDE DEF x
      <3> QED BY <1>1, <1>l, <3>1 DEF Pone
    <2>12. ASSUME NEW r \in Recursos, Devuelve("dispatch", r)
           PROVE  hilo'["consola"] = hilo["consola"] /\ (UNCHANGED hilo \/ hilo'["dispatch"].paso \notin Ajenos)
      <3>1. UNCHANGED hilo \/ \E q : Pone("dispatch", [d EXCEPT !.paso = "asigna", !.r = r, !.q = q])
        BY <2>12 DEF Devuelve
      <3>2. \A q : [d EXCEPT !.paso = "asigna", !.r = r, !.q = q].paso = "asigna"
        BY <1>1 DEF Hilo
      <3> QED BY <1>1, <1>l, <3>1, <3>2 DEF Pone
    <2> QED BY <1>2, <2>4, <2>5, <2>6, <2>7, <2>8, <2>9, <2>10, <2>11, <2>12
  <1>8. hilo'["dispatch"].paso \notin Ajenos
    BY <1>7 DEF Medido
  <1> QED BY <1>3, <1>6, <1>7, <1>8, MedidoQuieto

(* What a command does to the units is done in its last steps.             *)
LEMMA MedidoCambia ==
    ASSUME Tipos, Medido, hilo'["dispatch"] = hilo["dispatch"], UNCHANGED <<resta, pedido, ajuste>>,
           NEW o \in Int, Ocupado' = Ocupado + o,
           NEW l \in Int, Llevado(hilo'["consola"]) = Llevado(hilo["consola"]) + l,
           NEW e \in Int, Encargo(hilo'["consola"]) = Encargo(hilo["consola"]) - e,
           -e <= o + l, o + l <= e
    PROVE  Medido'
  <1> DEFINE L == Llevado(hilo["consola"])
             C == Encargo(hilo["consola"])
  <1>1. /\ Ocupado \in Int /\ pedido \in Int /\ ajuste \in Int /\ Grado \in Int /\ resta \in Int
        /\ MaxFinalizar \in Int /\ L \in Int /\ C \in Int /\ Exceso \in Int /\ Hechos \in Int
    BY Enteros
  <1>2. Exceso' = Exceso + o + l
    <2>1. Exceso = Ocupado + L - (Grado + pedido - ajuste)
      BY DEF Exceso
    <2>2. Exceso' = (Ocupado + o) + (L + l) - (Grado + pedido - ajuste)
      BY DEF Exceso
    <2> HIDE DEF L
    <2> QED BY <1>1, <2>1, <2>2
  <1>3. Hechos' = Hechos + e
    <2>1. Hechos = MaxFinalizar - resta - C
      BY DEF Hechos
    <2>2. Hechos' = MaxFinalizar - resta - (C - e)
      BY DEF Hechos
    <2> HIDE DEF C
    <2> QED BY <1>1, <2>1, <2>2
  <1>4. -Hechos <= Exceso /\ Exceso <= Hechos /\ hilo'["dispatch"].paso \notin Ajenos
    BY DEF Medido
  <1>5. -(Hechos + e) <= Exceso + o + l /\ Exceso + o + l <= Hechos + e
    BY <1>1, <1>4
  <1> QED BY <1>2, <1>3, <1>4, <1>5 DEF Medido

LEMMA MedidoConsola ==
    ASSUME Tipos, Tipos', Medido, Fin("consola") PROVE Medido'
  <1> DEFINE h == "consola"
             f == hilo[h]
  <1>1. /\ sem \in [Semaforos -> Nat] /\ "GRADO" \in Semaforos /\ hilo \in [HilosFin -> Hilo]
        /\ h \in HilosFin /\ "dispatch" \in HilosFin /\ f \in Hilo /\ HiloBueno(f)
        /\ colas \in [Colas -> Seq(PCB)] /\ Ocupado \in Int
    BY Enteros DEF Tipos, TFin, TCola, HilosFin
  <1>2. UNCHANGED <<resta, pedido, ajuste, largo>>
    BY DEF Fin, BuscaExec, BuscaColas, SacaCola, Agrega, AsignaNombre, AsignaBusca, AsignaToma, Elimina, Devuelve,
           vGrado
  <1>3. ASSUME NEW x, Pone(h, x) PROVE hilo'[h] = x /\ hilo'["dispatch"] = hilo["dispatch"]
    BY <1>1, <1>3 DEF Pone
  <1>4. ASSUME UNCHANGED colas, sem' = sem \/ Post("t_blocked_ready"), NEW x, Pone(h, x),
               x.paso # "agrega", Llevado(f) = 0, Encargo(x) = Encargo(f) \/ (Encargo(x) = 0 /\ Encargo(f) = 1)
        PROVE  Medido'
    <2>1. sem'["GRADO"] = sem["GRADO"]
      BY <1>1, <1>4 DEF Post
    <2>2. Ocupado' = Ocupado + 0
      BY <1>1, <1>2, <1>4, <2>1 DEF Ocupado
    <2>3. Llevado(x) = 0
      BY <1>4 DEF Llevado
    <2>4. PICK e \in {0, 1} : Encargo(x) = Encargo(f) - e
      BY <1>4 DEF Encargo
    <2>5. hilo'[h] = x /\ hilo'["dispatch"] = hilo["dispatch"]
      BY <1>3, <1>4
    <2> HIDE DEF f
    <2>6. Llevado(hilo'[h]) = Llevado(f) + 0 /\ Encargo(hilo'[h]) = Encargo(f) - e
      BY <1>4, <2>3, <2>4, <2>5
    <2> QED BY <1>2, <2>2, <2>4, <2>5, <2>6, MedidoCambia DEF f
  <1>5. CASE BuscaExec(h)
    <2>1. f.paso = "exec" /\ UNCHANGED <<colas, sem>>
          /\ (Pone(h, Ocioso) \/ Pone(h, [f EXCEPT !.paso = "colas"]))
      BY <1>5 DEF BuscaExec, Sigue, En, vCola
    <2>2. Encargo(f) = 1 /\ Llevado(f) = 0
      BY <2>1 DEF Encargo, Llevado, Ajenos
    <2>3. Ocioso.paso = "libre" /\ Encargo(Ocioso) = 0
      BY DEF Ocioso, Encargo, Ajenos
    <2>4. [f EXCEPT !.paso = "colas"].paso = "colas" /\ Encargo([f EXCEPT !.paso = "colas"]) = 1
      BY <1>1 DEF Hilo, Encargo, Ajenos
    <2>5. CASE Pone(h, Ocioso)
      BY <1>4, <2>1, <2>2, <2>3, <2>5
    <2>6. CASE Pone(h, [f EXCEPT !.paso = "colas"])
      BY <1>4, <2>1, <2>2, <2>4, <2>6
    <2> QED BY <2>1, <2>5, <2>6
  <1>6. CASE BuscaColas(h)
    <2>1. /\ f.paso = "colas" /\ UNCHANGED <<colas, sem>>
          /\ \/ Pone(h, Ocioso)
             \/ \E c : Pone(h, [Ocioso EXCEPT !.paso = "saca_cola", !.p = pid_a_finalizar, !.cola = c])
      BY <1>6 DEF BuscaColas, En, vCola
    <2>2. Encargo(f) = 1 /\ Llevado(f) = 0
      BY <2>1 DEF Encargo, Llevado, Ajenos
    <2>3. Ocioso.paso = "libre" /\ Encargo(Ocioso) = 0
      BY DEF Ocioso, Encargo, Ajenos
    <2>4. CASE Pone(h, Ocioso)
      BY <1>4, <2>1, <2>2, <2>3, <2>4
    <2>5. ASSUME NEW c, Pone(h, [Ocioso EXCEPT !.paso = "saca_cola", !.p = pid_a_finalizar, !.cola = c])
          PROVE  Medido'
      <3> DEFINE x == [Ocioso EXCEPT !.paso = "saca_cola", !.p = pid_a_finalizar, !.cola = c]
      <3>1. x.paso = "saca_cola"
        BY DEF Ocioso
      <3> HIDE DEF x
      <3>2. Encargo(x) = 1 /\ x.paso # "agrega"
        BY <3>1 DEF Encargo, Ajenos
      <3>3. Pone(h, x)
        BY <2>5 DEF x
      <3> QED BY <1>4, <2>1, <2>2, <3>2, <3>3
    <2> QED BY <2>1, <2>4, <2>5
  <1>7. CASE SacaCola(h)
    <2> DEFINE s == colas[f.cola]
               q == IF f.p \in ToSet(s) THEN f.p ELSE NULO
               x == [f EXCEPT !.paso = "agrega", !.q = q]
               u == RemoveFirst(s, f.p)
    <2>1. /\ f.paso = "saca_cola" /\ UNCHANGED sem /\ colas' = [colas EXCEPT ![f.cola] = u] /\ Pone(h, x)
      BY <1>7 DEF SacaCola
    <2>2. f.cola \in Colas \ {"EXIT"} /\ f.p # NULO
      BY <1>1, <2>1, NuloAssumption DEF HiloBueno, ConProceso, Hilo
    <2>3. s \in Seq(PCB)
      BY <1>1, <2>2
    <2>4. IF f.p \in ToSet(s) THEN Len(u) = Len(s) - 1 ELSE u = s
      BY <2>3, AlQuitar, EstaEnConjunto
    <2>5. /\ x.paso = "agrega" /\ x.cola = f.cola /\ x.q = q
      BY <1>1 DEF Hilo
    <2> HIDE DEF x
    <2>6. Encargo(f) = 1 /\ Llevado(f) = 0 /\ Encargo(x) = 1
          /\ Llevado(x) = IF f.p \in ToSet(s) /\ f.cola # "NEW" THEN 1 ELSE 0
      BY <2>1, <2>2, <2>5 DEF Encargo, Llevado, Ajenos
    <2> HIDE DEF u, q
    <2>7. \A c \in Colas : c # f.cola => colas'[c] = colas[c]
      BY <1>1, <2>1
    <2>8. colas'[f.cola] = u
      BY <1>1, <2>1, <2>2
    <2>9. Ocupado' = Ocupado + (0 - Llevado(x))
      <3>1. /\ Len(colas["READY"]) \in Nat /\ Len(colas["EXEC"]) \in Nat /\ Len(colas["BLOCK"]) \in Nat
            /\ sem["GRADO"] \in Nat
        BY Enteros
      <3> DEFINE t == IF largo THEN 1 ELSE 0
                 R == Len(colas["READY"])
                 E == Len(colas["EXEC"])
                 B == Len(colas["BLOCK"])
                 R1 == Len(colas'["READY"])
                 E1 == Len(colas'["EXEC"])
                 B1 == Len(colas'["BLOCK"])
      <3>2. Ocupado = sem["GRADO"] + t + R + E + B /\ Ocupado' = sem["GRADO"] + t + R1 + E1 + B1
        BY <1>2, <2>1 DEF Ocupado
      <3>3. t \in Int /\ R \in Int /\ E \in Int /\ B \in Int
        BY <3>1
      <3>4. CASE f.cola = "NEW" \/ f.p \notin ToSet(s)
        <4>1. Llevado(x) = 0
          BY <2>6, <3>4
        <4>2. /\ colas'["READY"] = colas["READY"] /\ colas'["EXEC"] = colas["EXEC"]
              /\ colas'["BLOCK"] = colas["BLOCK"]
          BY <2>4, <2>7, <2>8, <3>4 DEF Colas
        <4> HIDE DEF t
        <4> QED BY <3>1, <3>2, <3>3, <4>1, <4>2
      <3>5. CASE f.cola # "NEW" /\ f.p \in ToSet(s)
        <4>1. Llevado(x) = 1
          BY <2>6, <3>5
        <4>2. f.cola \in {"READY", "EXEC", "BLOCK"}
          BY <2>2, <3>5 DEF Colas
        <4>3. \/ R1 = R - 1 /\ E1 = E /\ B1 = B
              \/ R1 = R /\ E1 = E - 1 /\ B1 = B
              \/ R1 = R /\ E1 = E /\ B1 = B - 1
          BY <2>4, <2>7, <2>8, <3>5, <4>2 DEF Colas
        <4> DEFINE g == sem["GRADO"]
        <4>4. g \in Int
          BY <3>1
        <4> HIDE DEF g, t, R, E, B, R1, E1, B1
        <4>5. R1 + E1 + B1 = R + E + B - 1 /\ R1 \in Int /\ E1 \in Int /\ B1 \in Int
          BY <3>3, <4>3
        <4>6. g + t + R1 + E1 + B1 = g + t + R + E + B - 1
          BY <3>3, <4>4, <4>5
        <4>7. Ocupado' = Ocupado - 1
          <5>1. Ocupado = g + t + R + E + B /\ Ocupado' = g + t + R1 + E1 + B1
            BY <3>2 DEF g
          <5> QED BY <3>3, <4>4, <4>6, <5>1
        <4> QED BY <1>1, <4>1, <4>7
      <3> QED BY <3>4, <3>5
    <2>10. hilo'[h] = x /\ hilo'["dispatch"] = hilo["dispatch"]
      BY <1>3, <2>1
    <2>11. Llevado(x) \in {0, 1}
      BY DEF Llevado
    <2> HIDE DEF f
    <2>12. Llevado(hilo'[h]) = Llevado(f) + Llevado(x) /\ Encargo(hilo'[h]) = Encargo(f) - 0
      BY <2>6, <2>10, <2>11
    <2>13. -0 <= (0 - Llevado(x)) + Llevado(x) /\ (0 - Llevado(x)) + Llevado(x) <= 0
           /\ 0 - Llevado(x) \in Int /\ Llevado(x) \in Int
      BY <2>11
    <2> QED BY <1>2, <2>9, <2>10, <2>12, <2>13, MedidoCambia DEF f
  <1>8. CASE Agrega(h)
    <2>1. /\ f.paso = "agrega" /\ colas' = [colas EXCEPT !["EXIT"] = Append(@, f.q)]
          /\ sem' = CASE f.cola = "NEW" -> [sem EXCEPT !["GRADO"] = @ + 1]
                      [] f.cola = "EXEC" -> [sem EXCEPT !["exec_libre"] = @ + 1]
                      [] OTHER -> sem
          /\ \E T : Pone(h, [f EXCEPT !.paso = "libera", !.rs = T])
      BY <1>8 DEF Agrega
    <2>2. PICK x : Pone(h, x) /\ x.paso = "libera"
      <3>1. PICK T : Pone(h, [f EXCEPT !.paso = "libera", !.rs = T])
        BY <2>1
      <3>2. [f EXCEPT !.paso = "libera", !.rs = T].paso = "libera"
        BY <1>1 DEF Hilo
      <3> QED BY <3>1, <3>2
    <2>3. Encargo(f) = 1 /\ Encargo(x) = 0 /\ Llevado(x) = 0
          /\ Llevado(f) \in {0, 1} /\ (f.cola = "NEW" => Llevado(f) = 0)
      BY <2>1, <2>2 DEF Encargo, Llevado, Ajenos
    <2>4. /\ colas'["READY"] = colas["READY"] /\ colas'["EXEC"] = colas["EXEC"]
          /\ colas'["BLOCK"] = colas["BLOCK"]
      BY <1>1, <2>1 DEF Colas
    <2>5. sem'["GRADO"] = sem["GRADO"] + (IF f.cola = "NEW" THEN 1 ELSE 0)
      BY <1>1, <2>1
    <2> DEFINE o == IF f.cola = "NEW" THEN 1 ELSE 0
    <2>6. Ocupado' = Ocupado + o
      <3>1. /\ Len(colas["READY"]) \in Nat /\ Len(colas["EXEC"]) \in Nat /\ Len(colas["BLOCK"]) \in Nat
            /\ sem["GRADO"] \in Nat
        BY Enteros
      <3> DEFINE t == IF largo THEN 1 ELSE 0
                 n == t + Len(colas["READY"]) + Len(colas["EXEC"]) + Len(colas["BLOCK"])
      <3>2. t \in Int /\ o \in Int
        OBVIOUS
      <3>3. n \in Int
        <4> HIDE DEF t
        <4> QED BY <3>1, <3>2
      <3>4. Ocupado = sem["GRADO"] + n /\ Ocupado' = (sem["GRADO"] + o) + n
        <4>1. t' = t
          BY <1>2
        <4>2. /\ Ocupado = sem["GRADO"] + t + Len(colas["READY"]) + Len(colas["EXEC"]) + Len(colas["BLOCK"])
              /\ Ocupado' = (sem["GRADO"] + o) + t + Len(colas["READY"]) + Len(colas["EXEC"]) + Len(colas["BLOCK"])
          BY <1>2, <2>4, <2>5 DEF Ocupado
        <4> DEFINE g == sem["GRADO"]
                   R == Len(colas["READY"])
                   E == Len(colas["EXEC"])
                   B == Len(colas["BLOCK"])
        <4>3. g \in Int /\ R \in Int /\ E \in Int /\ B \in Int
          BY <3>1
        <4> HIDE DEF t, o, g, R, E, B
        <4>4. g + t + R + E + B = g + (t + R + E + B) /\ (g + o) + t + R + E + B = (g + o) + (t + R + E + B)
          BY <3>2, <4>3
        <4> QED BY <4>2, <4>4 DEF g, R, E, B
      <3> HIDE DEF n, o
      <3> QED BY <3>1, <3>2, <3>3, <3>4
    <2>7. hilo'[h] = x /\ hilo'["dispatch"] = hilo["dispatch"]
      BY <1>3, <2>2
    <2> HIDE DEF f
    <2>8. PICK l \in {0, -1} : Llevado(x) = Llevado(f) + l /\ (f.cola = "NEW" => l = 0)
      BY <2>3
    <2>9. Llevado(hilo'[h]) = Llevado(f) + l /\ Encargo(hilo'[h]) = Encargo(f) - 1
      BY <2>3, <2>7, <2>8
    <2>10. -1 <= o + l /\ o + l <= 1 /\ o \in Int /\ l \in Int
      BY <2>8
    <2> QED BY <1>2, <2>6, <2>7, <2>9, <2>10, MedidoCambia DEF f
  <1>9. CASE AsignaNombre(h) \/ AsignaBusca(h) \/ AsignaToma(h)
    <2>1. /\ f.paso \in {"asigna", "asigna_busca", "asigna_toma"} /\ UNCHANGED colas
          /\ sem' = sem \/ Post("t_blocked_ready")
      BY <1>9 DEF AsignaNombre, AsignaBusca, AsignaToma, En, vCola
    <2>2. \E x : Pone(h, x) /\ x.paso \in {"asigna_busca", "asigna_toma", "libera"}
      <3>1. \A s : [f EXCEPT !.paso = s].paso = s
        BY <1>1 DEF Hilo
      <3>2. [f EXCEPT !.paso = "asigna_toma", !.ya = YaTiene(f.q)].paso = "asigna_toma"
        BY <1>1 DEF Hilo
      <3>3. CASE AsignaBusca(h)
        BY <3>2, <3>3 DEF AsignaBusca
      <3>4. CASE AsignaNombre(h) \/ AsignaToma(h)
        BY <3>1, <3>4 DEF AsignaNombre, AsignaToma, Sigue
      <3> QED BY <1>9, <3>3, <3>4
    <2>3. PICK x : Pone(h, x) /\ x.paso \in {"asigna_busca", "asigna_toma", "libera"}
      BY <2>2
    <2>4. Encargo(f) = 0 /\ Llevado(f) = 0 /\ Encargo(x) = 0 /\ x.paso # "agrega"
      BY <2>1, <2>3 DEF Encargo, Llevado, Ajenos
    <2> QED BY <1>4, <2>1, <2>3, <2>4
  <1>10. CASE Elimina(h)
    <2>1. f.paso = "libera" /\ UNCHANGED <<colas, sem>> /\ Pone(h, Ocioso)
      BY <1>10 DEF Elimina, En, vCola
    <2>2. Encargo(f) = 0 /\ Llevado(f) = 0 /\ Encargo(Ocioso) = 0 /\ Ocioso.paso = "libre"
      BY <2>1 DEF Encargo, Llevado, Ajenos, Ocioso
    <2> QED BY <1>4, <2>1, <2>2
  <1>11. ASSUME NEW r \in Recursos, Devuelve(h, r) PROVE Medido'
    <2>1. /\ f.paso = "libera" /\ UNCHANGED <<colas, sem>>
          /\ UNCHANGED hilo \/ \E q : Pone(h, [f EXCEPT !.paso = "asigna", !.r = r, !.q = q])
      BY <1>11 DEF Devuelve, En, vCola
    <2>2. CASE UNCHANGED hilo
      <3>1. Ocupado' = Ocupado
        BY <1>2, <2>1 DEF Ocupado
      <3> QED BY <1>2, <2>2, <3>1, MedidoQuieto DEF Medido
    <2>3. ASSUME NEW q, Pone(h, [f EXCEPT !.paso = "asigna", !.r = r, !.q = q]) PROVE Medido'
      <3> DEFINE x == [f EXCEPT !.paso = "asigna", !.r = r, !.q = q]
      <3>1. x.paso = "asigna"
        BY <1>1 DEF Hilo
      <3>2. Pone(h, x)
        BY <2>3
      <3> HIDE DEF x
      <3>3. Encargo(f) = 0 /\ Llevado(f) = 0 /\ Encargo(x) = 0 /\ x.paso # "agrega"
        BY <2>1, <3>1 DEF Encargo, Llevado, Ajenos
      <3> QED BY <1>4, <2>1, <3>2, <3>3
    <2> QED BY <2>1, <2>2, <2>3
  <1> QED BY <1>5, <1>6, <1>7, <1>8, <1>9, <1>10, <1>11 DEF Fin

LEMMA GradosSiempre ==
    ASSUME Tipos, Tipos', Nombres, Grados, [Next]_vars PROVE Grados'
  <1>1. CASE UNCHANGED vars
    BY <1>1 DEF vars, vCola, vCpu, vGrado, vFin, Grados, RecursosValidos, Medido, Exceso, Hechos, Ocupado,
                Llevado, Encargo
  <1>2. CASE Next
    <2> SUFFICES ASSUME RecursosValidos' PROVE Medido'
      BY DEF Grados
    <2>1. RecursosValidos /\ falla = "ninguna"
      <3>1. programa' = programa /\ falla = "ninguna"
        BY <1>2, Comandos DEF Next
      <3> QED BY <3>1 DEF RecursosValidos
    <2>2. Medido
      BY <2>1 DEF Grados
    <2> QED BY <1>2, <2>1, <2>2, MedidoPlanificadores, MedidoOperador, MedidoCpu, MedidoDispatch, MedidoConsola
            DEF Next
  <1> QED BY <1>1, <1>2

(* The degree of multiprogramming is moved by MULTIPROGRAMACION and, by    *)
(* one, by each process ended from the console: whatever its search finds, *)
(* and whichever queue the process goes to meanwhile, a command costs or   *)
(* makes up one unit at most.                                              *)
THEOREM GradoSiempreContado == Spec => []GradoContado
  <1>1. Spec => [](Tipos /\ Nombres /\ Grados)
    <2>1. Init => Tipos /\ Nombres /\ Grados
      BY TiposAlInicio, NombresAlInicio, GradosAlInicio
    <2>2. Tipos /\ Nombres /\ Grados /\ [Next]_vars => Tipos' /\ Nombres' /\ Grados'
      BY TiposSiempre, NombresSiempre, GradosSiempre
    <2> QED BY <2>1, <2>2, PTL DEF Spec
  <1>2. Tipos /\ Grados => GradoContado
    <2> SUFFICES ASSUME Tipos, Medido, falla = "ninguna", RecursosValidos PROVE GradoContado
      BY DEF Grados, GradoContado
    <2> DEFINE usado == Len(colas["READY"]) + Len(colas["EXEC"]) + Len(colas["BLOCK"])
               enMano == {h \in HilosFin : En(h, "agrega") /\ hilo[h].q # NULO /\ hilo[h].cola # "NEW"}
               exceso == sem["GRADO"] + Uno(largo) + usado + Cardinality(enMano) - (Grado + pedido - ajuste)
               hechas == MaxFinalizar - resta
    <2>1. Cardinality(enMano) = Llevado(hilo["consola"])
      <3>1. CASE Llevado(hilo["consola"]) = 1
        <4>1. enMano = {"consola"}
          BY <3>1 DEF Llevado, Medido, Ajenos, HilosFin, En
        <4>2. Cardinality({"consola"}) = 1
          BY FS_Singleton
        <4> QED BY <3>1, <4>1, <4>2
      <3>2. CASE Llevado(hilo["consola"]) = 0
        <4>1. enMano = {}
          BY <3>2 DEF Llevado, Medido, Ajenos, HilosFin, En
        <4>2. Cardinality({}) = 0
          BY FS_EmptySet
        <4> QED BY <3>2, <4>1, <4>2
      <3> QED BY <3>1, <3>2, Enteros
    <2>2. exceso = Exceso
      <3> DEFINE c == Cardinality(enMano)
                 t == IF largo THEN 1 ELSE 0
      <3>1. c = Llevado(hilo["consola"]) /\ c \in Int /\ t \in Int /\ Uno(largo) = t
        BY <2>1, Enteros DEF Uno
      <3>2. Exceso = (sem["GRADO"] + t + Len(colas["READY"]) + Len(colas["EXEC"]) + Len(colas["BLOCK"])) + c
                     - (Grado + pedido - ajuste)
        BY <3>1 DEF Exceso, Ocupado
      <3>3. exceso = sem["GRADO"] + t + usado + c - (Grado + pedido - ajuste)
        BY <3>1
      <3> DEFINE g == sem["GRADO"]
                 R == Len(colas["READY"])
                 E == Len(colas["EXEC"])
                 B == Len(colas["BLOCK"])
                 d == Grado + pedido - ajuste
      <3>4. g \in Int /\ R \in Int /\ E \in Int /\ B \in Int /\ d \in Int
        BY Enteros
      <3> HIDE DEF c, t, g, R, E, B, d
      <3>5. (g + t + R + E + B) + c - d = g + t + (R + E + B) + c - d
        BY <3>1, <3>4
      <3> QED BY <3>2, <3>3, <3>5 DEF g, R, E, B, d
    <2>3. Hechos <= hechas /\ hechas \in Int /\ Exceso \in Int /\ Hechos \in Int
      BY Enteros DEF Hechos
    <2>4. Exceso \in (-hechas)..hechas
      <3> HIDE DEF hechas
      <3> QED BY <2>3 DEF Medido
    <2> HIDE DEF exceso
    <2>5. exceso \in (-hechas)..hechas
      BY <2>2, <2>4
    <2> QED BY <2>5 DEF GradoContado, exceso
  <1> QED BY <1>1, <1>2, PTL

-----------------------------------------------------------------------------
(* The CPU, while the console ends nobody.  At most one process is in EXEC,*)
(* besides the one that exec_blocked has still to move, which is the first.*)
(* It runs, or the dispatch thread is about it, or one of the transitions  *)
(* that empty EXEC was told to take it; these two only happen when         *)
(* exec_blocked has stored the context, or else it is overwritten.         *)

Quieto == hilo["dispatch"].paso \in {"libre", "encola"}
Sirve == {"nombre_wait", "nombre_signal", "wait", "signal", "busca", "toma", "saca", "repone", "exec", "libera",
          "asigna", "asigna_busca", "asigna_toma"}
Ordenes(r, b, x) == sem["t_exec_ready"] = r /\ sem["t_exec_blocked"] = b /\ sem["t_exit_largo"] = x
EnExec == Head(colas["EXEC"])
UnoEnExec == Len(colas["EXEC"]) = 1 /\ sem["exec_libre"] = 0 /\ bloqueo = "espera"
Ido == IF bloqueo = "mueve" THEN 1 ELSE 0
Nadie == Len(colas["EXEC"]) = Ido /\ sem["exec_libre"] = 1 /\ cpu = NULO /\ Quieto /\ Ordenes(0, 0, 0)
Corre ==
    /\ Len(colas["EXEC"]) = Ido + 1 /\ cpu = colas["EXEC"][Ido + 1]
    /\ sem["exec_libre"] = 0 /\ Quieto /\ Ordenes(0, 0, 0)
Atiende ==
    /\ UnoEnExec /\ cpu = NULO /\ ~Quieto /\ Ordenes(0, 0, 0)
    /\ hilo["dispatch"].paso \in Sirve => hilo["dispatch"].p = EnExec
    /\ hilo["dispatch"].paso \in {"busca", "exec", "pcb_exec"} => pid_a_finalizar = EnExec
Vuelve ==
    /\ UnoEnExec /\ cpu = NULO /\ Quieto /\ Ordenes(1, 0, 0)
    /\ PC[EnExec] > 0 /\ programa[EnExec][PC[EnExec]].op = "SET"
SeBloquea == UnoEnExec /\ cpu = NULO /\ Quieto /\ Ordenes(0, 1, 0)
SeVa == UnoEnExec /\ cpu = NULO /\ Quieto /\ Ordenes(0, 0, 1)
Turno ==
    /\ hilo["consola"].paso = "libre" /\ hilo["dispatch"].paso \notin {"colas", "saca_cola", "agrega"}
    /\ Nadie \/ Corre \/ Atiende \/ Vuelve \/ SeBloquea \/ SeVa
Turnos == resta <= MaxFinalizar /\ (SinConsola => Turno)

LEMMA PostDa ==
    ASSUME Tipos, NEW s \in Semaforos, Post(s)
    PROVE  \A t \in Semaforos : sem'[t] = IF t = s THEN sem[t] + 1 ELSE sem[t]
  BY DEF Post, Tipos, TSem

(* transicion_generica, list by list.                                      *)
LEMMA MueveListas ==
    ASSUME Tipos, NEW a \in Colas \ {"EXIT"}, NEW b \in Colas, a # b, Mueve(a, b)
    PROVE  /\ colas[a] # <<>> /\ colas[a] \in Seq(Procesos) /\ Head(colas[a]) \in Procesos
           /\ colas'[a] = Tail(colas[a]) /\ colas'[b] = Append(colas[b], Head(colas[a]))
           /\ \A c \in Colas \ {a, b} : colas'[c] = colas[c]
  <1> DEFINE t == Tail(colas[a])
             u == Append(colas[b], Head(colas[a]))
  <1>1. colas[a] # <<>> /\ colas[a] \in Seq(Procesos)
    BY DEF Mueve, Tipos, TCola
  <1>2. Head(colas[a]) \in Procesos
    BY <1>1, AlSacar
  <1>3. colas' = [colas EXCEPT ![a] = t, ![b] = u]
    BY DEF Mueve
  <1> HIDE DEF t, u
  <1>4. colas'[a] = t /\ colas'[b] = u /\ \A c \in Colas \ {a, b} : colas'[c] = colas[c]
    BY <1>3 DEF Tipos, TCola
  <1> QED BY <1>1, <1>2, <1>4 DEF t, u

LEMMA TurnoAlInicio == Init => Turnos
  <1> SUFFICES ASSUME Init PROVE Turnos
    OBVIOUS
  <1>1. /\ colas["EXEC"] = <<>> /\ sem["exec_libre"] = 1 /\ cpu = NULO
        /\ sem["t_exec_ready"] = 0 /\ sem["t_exec_blocked"] = 0 /\ sem["t_exit_largo"] = 0
        /\ hilo["dispatch"].paso = "libre" /\ hilo["consola"].paso = "libre" /\ resta = MaxFinalizar
    BY DEF Init, Colas, Semaforos, HilosFin, Ocioso
  <1>2. bloqueo = "espera" /\ Len(colas["EXEC"]) = 0 /\ Ido = 0
    BY <1>1 DEF Init, Ido
  <1> QED BY <1>1, <1>2, CotasAssumption DEF Turnos, Turno, Nadie, Quieto, Ordenes

LEMMA TurnoQuieto ==
    ASSUME Turno, colas'["EXEC"] = colas["EXEC"], UNCHANGED <<cpu, PC, programa, hilo, pid_a_finalizar, bloqueo>>,
           \A s \in {"exec_libre", "t_exec_ready", "t_exec_blocked", "t_exit_largo"} : sem'[s] = sem[s]
    PROVE  Turno'
  BY DEF Turno, Nadie, Corre, Atiende, Vuelve, SeBloquea, SeVa, Quieto, Sirve, Ordenes, EnExec, UnoEnExec, Ido

LEMMA CorreSolo ==
    ASSUME Corre, bloqueo = "espera" PROVE UnoEnExec /\ cpu = EnExec
  <1>1. Ido = 0 /\ Ido + 1 = 1
    BY DEF Ido
  <1> QED BY <1>1 DEF Corre, UnoEnExec, EnExec

LEMMA TurnoPlanificadores ==
    ASSUME Tipos, Turno, Planificadores \/ ManejaLee \/ ManejaUno PROVE Turno'
  <1>1. /\ UNCHANGED <<hilo, pid_a_finalizar, PC, programa>>
        /\ sem \in [Semaforos -> Nat] /\ colas \in [Colas -> Seq(PCB)]
    BY DEF Planificadores, LargoToma, LargoMueve, CortoPlazo, ExecReady, ExecBlocked, ExecBlockedLibera,
           ExecBlockedMueve, ExecBlockedGuarda, BlockedReady, ExitLargoPlazo, ManejaLee, ManejaUno, vFin, vCpu,
           Tipos, TSem, TCola
  <1>2. CASE LargoToma \/ ManejaLee \/ ManejaUno
    <2>1. /\ UNCHANGED <<colas, cpu, bloqueo>>
          /\ \A s \in {"exec_libre", "t_exec_ready", "t_exec_blocked", "t_exit_largo"} : sem'[s] = sem[s]
      BY <1>1, <1>2 DEF LargoToma, ManejaLee, ManejaUno, vCola, vCpu, Semaforos
    <2> QED BY <1>1, <2>1, TurnoQuieto
  <1>3. CASE LargoMueve \/ BlockedReady
    <2>1. /\ UNCHANGED <<cpu, bloqueo>> /\ (Mueve("NEW", "READY") \/ Mueve("BLOCK", "READY"))
          /\ \A s \in {"exec_libre", "t_exec_ready", "t_exec_blocked", "t_exit_largo"} : sem'[s] = sem[s]
      BY <1>1, <1>3 DEF LargoMueve, BlockedReady, vCpu, vGrado, Semaforos
    <2>2. colas'["EXEC"] = colas["EXEC"]
      BY <2>1, MueveListas DEF Colas
    <2> QED BY <1>1, <2>1, <2>2, TurnoQuieto
  <1>4. CASE CortoPlazo
    <2>1. /\ sem["exec_libre"] > 0 /\ sem' = [sem EXCEPT !["exec_libre"] = @ - 1]
          /\ Mueve("READY", "EXEC") /\ cpu' = Head(colas["READY"]) /\ UNCHANGED bloqueo
      BY <1>4 DEF CortoPlazo, vGrado
    <2>2. Nadie
      BY <2>1 DEF Turno, Corre, Atiende, Vuelve, SeBloquea, SeVa, UnoEnExec
    <2> DEFINE e == colas["EXEC"]
               x == Head(colas["READY"])
    <2>3. x \in Procesos /\ colas'["EXEC"] = Append(e, x) /\ e \in Seq(PCB)
      BY <1>1, <2>1, MueveListas DEF Colas
    <2>4. Len(e) = Ido /\ Ido' = Ido
      BY <2>1, <2>2 DEF Nadie, Ido
    <2>5. cpu' = x
      BY <2>1
    <2> HIDE DEF e, x
    <2>6. Len(Append(e, x)) = Len(e) + 1 /\ Append(e, x)[Len(e) + 1] = x
      BY <2>3
    <2>7. Len(colas'["EXEC"]) = (Ido + 1)' /\ cpu' = colas'["EXEC"][(Ido + 1)']
      BY <2>3, <2>4, <2>5, <2>6
    <2>8. /\ sem'["exec_libre"] = 0 /\ sem'["t_exec_ready"] = sem["t_exec_ready"]
          /\ sem'["t_exec_blocked"] = sem["t_exec_blocked"] /\ sem'["t_exit_largo"] = sem["t_exit_largo"]
      BY <1>1, <2>1, <2>2 DEF Semaforos, Nadie
    <2> QED BY <1>1, <2>2, <2>7, <2>8 DEF Turno, Nadie, Corre, Quieto, Ordenes
  <1>5. CASE ExecReady \/ ExitLargoPlazo
    <2>1. PICK s \in {"t_exec_ready", "t_exit_largo"}, b \in {"READY", "EXIT"} :
             /\ sem[s] > 0 /\ Mueve("EXEC", b)
             /\ sem'[s] = sem[s] - 1 /\ sem'["exec_libre"] = sem["exec_libre"] + 1
             /\ \A t \in {"t_exec_ready", "t_exec_blocked", "t_exit_largo"} : t # s => sem'[t] = sem[t]
      <3>1. CASE ExecReady
        BY <1>1, <3>1 DEF ExecReady, Semaforos
      <3>2. CASE ExitLargoPlazo
        BY <1>1, <3>2 DEF ExitLargoPlazo, Semaforos
      <3> QED BY <1>5, <3>1, <3>2
    <2>2. UnoEnExec /\ cpu = NULO /\ Quieto /\ sem[s] = 1
          /\ \A t \in {"t_exec_ready", "t_exec_blocked", "t_exit_largo"} : t # s => sem[t] = 0
      BY <2>1 DEF Turno, Nadie, Corre, Atiende, Vuelve, SeBloquea, SeVa, Ordenes
    <2>3. colas["EXEC"] # <<>> /\ colas["EXEC"] \in Seq(Procesos) /\ colas'["EXEC"] = Tail(colas["EXEC"])
      BY <2>1, MueveListas DEF Colas
    <2>4. Len(Tail(colas["EXEC"])) = 0
      BY <2>2, <2>3, AlSacar DEF UnoEnExec
    <2>5. cpu' = cpu /\ bloqueo' = "espera" /\ Ordenes(0, 0, 0)' /\ sem'["exec_libre"] = 1
      <3>1. cpu' = cpu /\ bloqueo' = bloqueo
        BY <1>5 DEF ExecReady, ExitLargoPlazo, vCpu, vGrado
      <3>2. sem'["t_exec_ready"] = 0 /\ sem'["t_exec_blocked"] = 0 /\ sem'["t_exit_largo"] = 0
        BY <2>1, <2>2
      <3> QED BY <2>1, <2>2, <3>1, <3>2 DEF Ordenes, UnoEnExec
    <2>6. Len(colas'["EXEC"]) = Ido'
      BY <2>3, <2>4, <2>5 DEF Ido
    <2> QED BY <1>1, <2>2, <2>5, <2>6 DEF Turno, Nadie, Quieto
  <1>6. CASE ExecBlockedLibera
    <2>1. /\ sem["t_exec_blocked"] > 0 /\ UNCHANGED <<colas, cpu>> /\ bloqueo' = "mueve"
          /\ sem' = [sem EXCEPT !["t_exec_blocked"] = @ - 1, !["exec_libre"] = @ + 1]
      BY <1>6 DEF ExecBlockedLibera, vCola, vCpu
    <2>2. SeBloquea
      BY <2>1 DEF Turno, Nadie, Corre, Atiende, Vuelve, SeVa, Ordenes
    <2>3. sem'["t_exec_ready"] = 0 /\ sem'["t_exec_blocked"] = 0 /\ sem'["t_exit_largo"] = 0 /\ sem'["exec_libre"] = 1
      BY <1>1, <2>1, <2>2 DEF SeBloquea, UnoEnExec, Ordenes, Semaforos
    <2>4. Len(colas'["EXEC"]) = Ido'
      BY <2>1, <2>2 DEF SeBloquea, UnoEnExec, Ido
    <2> QED BY <1>1, <2>1, <2>2, <2>3, <2>4 DEF Turno, SeBloquea, Nadie, Ordenes, Quieto
  <1>7. CASE ExecBlockedMueve
    <2>1. bloqueo = "mueve" /\ Mueve("EXEC", "BLOCK") /\ UNCHANGED <<cpu, sem>> /\ bloqueo' = "guarda"
      BY <1>7 DEF ExecBlockedMueve, vCpu
    <2>2. Nadie \/ Corre
      BY <2>1 DEF Turno, Atiende, Vuelve, SeBloquea, SeVa, UnoEnExec
    <2> DEFINE e == colas["EXEC"]
    <2>3. e # <<>> /\ e \in Seq(Procesos) /\ colas'["EXEC"] = Tail(e)
      BY <2>1, MueveListas DEF Colas
    <2>4. Ido = 1 /\ Ido' = 0
      BY <2>1 DEF Ido
    <2>5. CASE Nadie
      <3>1. Len(e) = 1
        BY <2>4, <2>5 DEF Nadie
      <3>2. Len(colas'["EXEC"]) = Ido'
        BY <2>3, <2>4, <3>1, AlSacar
      <3> QED BY <1>1, <2>1, <2>5, <3>2 DEF Turno, Nadie, Ordenes, Quieto
    <2>6. CASE Corre
      <3>1. Len(e) = 2 /\ cpu = e[2]
        <4>1. Ido + 1 = 2
          BY <2>4
        <4> QED BY <2>6, <4>1 DEF Corre
      <3> HIDE DEF e
      <3>2. Len(Tail(e)) = 1 /\ Tail(e)[1] = e[2]
        BY <2>3, <3>1
      <3>3. Ido' + 1 = 1
        BY <2>4
      <3>4. Len(colas'["EXEC"]) = (Ido + 1)' /\ cpu' = colas'["EXEC"][(Ido + 1)']
        BY <2>1, <2>3, <3>1, <3>2, <3>3
      <3> QED BY <1>1, <2>1, <2>6, <3>4 DEF Turno, Corre, Ordenes, Quieto
    <2> QED BY <2>2, <2>5, <2>6
  <1>8. CASE ExecBlockedGuarda
    <2>1. bloqueo = "guarda" /\ UNCHANGED <<colas, cpu, sem>> /\ bloqueo' = "espera"
      BY <1>8 DEF ExecBlockedGuarda, vCola, vCpu
    <2>2. Nadie \/ Corre
      BY <2>1 DEF Turno, Atiende, Vuelve, SeBloquea, SeVa, UnoEnExec
    <2>3. Ido' = Ido
      BY <2>1 DEF Ido
    <2> QED BY <1>1, <2>1, <2>2, <2>3 DEF Turno, Nadie, Corre, Ordenes, Quieto
  <1> QED BY <1>2, <1>3, <1>4, <1>5, <1>6, <1>7, <1>8 DEF Planificadores, ExecBlocked

LEMMA TurnoOperador ==
    ASSUME Tipos, Turno, Operador, resta' = resta PROVE Turno'
  <1>1. sem \in [Semaforos -> Nat] /\ colas \in [Colas -> Seq(PCB)] /\ resta \in Nat
    BY DEF Tipos, TSem, TCola, TFin
  <1>2. ASSUME NEW p \in Procesos, IniciarProceso(p) PROVE Turno'
    <2>1. /\ UNCHANGED <<cpu, PC, programa, hilo, pid_a_finalizar, bloqueo>> /\ colas'["EXEC"] = colas["EXEC"]
          /\ Post("en_new")
      BY <1>1, <1>2 DEF IniciarProceso, vCpu, vFin, vGrado, Colas
    <2> QED BY <2>1, PostDa, TurnoQuieto DEF Semaforos
  <1>3. ASSUME NEW v \in NuevosGrados, Multiprogramacion(v) PROVE Turno'
    <2>1. /\ UNCHANGED <<cpu, PC, programa, hilo, pid_a_finalizar, colas, bloqueo>> /\ Post("manejo_grado")
      BY <1>3 DEF Multiprogramacion, vCpu, vFin, vCola
    <2> QED BY <2>1, PostDa, TurnoQuieto DEF Semaforos
  <1>4. ASSUME NEW p \in Procesos, Finalizar(p) PROVE FALSE
    <2>1. resta' = resta - 1
      BY <1>4 DEF Finalizar
    <2> QED BY <1>1, <2>1
  <1> QED BY <1>2, <1>3, <1>4 DEF Operador

LEMMA TurnoCpu ==
    ASSUME Tipos, Turno, falla' = "ninguna", Cpu PROVE Turno'
  <1> SUFFICES ASSUME NEW p \in Procesos,
                      \/ Calcula(p) \/ FinDeQuantum(p) \/ Termina(p) \/ Desincronizado(p) \/ Pisado(p)
                      \/ \E i \in ToSet(programa[p]) : Recibe(p, i)
               PROVE  Turno'
    BY DEF Cpu
  <1>1. /\ sem \in [Semaforos -> Nat] /\ hilo \in [HilosFin -> Hilo] /\ PC \in [Procesos -> Nat]
        /\ "dispatch" \in HilosFin /\ "consola" \in HilosFin /\ NULO \notin Procesos
    BY NuloAssumption DEF Tipos, TSem, TFin, TCpu, HilosFin
  <1>2. /\ hilo["dispatch"].paso = "libre" /\ cpu = p /\ UNCHANGED <<colas, programa, bloqueo>>
        /\ PC' = [PC EXCEPT ![p] = @ + 1]
    BY DEF Calcula, FinDeQuantum, Termina, Desincronizado, Pisado, Recibe, Sale, Ejecuta, En, vCola, vGrado
  <1>3. Corre /\ hilo["consola"].paso = "libre"
    BY <1>1, <1>2 DEF Turno, Nadie, Atiende, Vuelve, SeBloquea, SeVa
  <1>s. ASSUME NEW i, Sale(p, i)
        PROVE  UnoEnExec /\ EnExec = p /\ EnExec' = p /\ bloqueo' = "espera" /\ cpu' = NULO
    <2>1. bloqueo = "espera" /\ cpu' = NULO
      BY <1>s DEF Sale
    <2> QED BY <1>2, <1>3, <2>1, CorreSolo DEF EnExec
  <1>4. ASSUME NEW i, Sale(p, i), UNCHANGED sem, NEW x, Pone("dispatch", x),
               x.paso \notin {"libre", "encola", "colas", "saca_cola", "agrega"},
               x.paso \in Sirve => x.p = p, x.paso \in {"busca", "exec", "pcb_exec"} => pid_a_finalizar' = p
        PROVE  Turno'
    <2>1. hilo'["dispatch"] = x /\ hilo'["consola"] = hilo["consola"]
      BY <1>1, <1>4 DEF Pone
    <2>2. UnoEnExec /\ EnExec = p /\ EnExec' = p /\ bloqueo' = "espera" /\ cpu' = NULO
      BY <1>4, <1>s
    <2>3. UnoEnExec'
      BY <1>2, <1>4, <2>2 DEF UnoEnExec
    <2>4. Ordenes(0, 0, 0)'
      BY <1>3, <1>4 DEF Corre, Ordenes
    <2> QED BY <1>3, <1>4, <2>1, <2>2, <2>3, <2>4 DEF Turno, Atiende, Quieto
  <1>5. CASE Calcula(p)
    <2>1. UNCHANGED <<sem, hilo, cpu>>
      BY <1>5 DEF Calcula, vFin
    <2>2. Ido' = Ido
      BY <1>2 DEF Ido
    <2> QED BY <1>2, <1>3, <2>1, <2>2 DEF Turno, Corre, Ordenes, Quieto
  <1>6. CASE FinDeQuantum(p)
    <2>1. /\ UNCHANGED hilo /\ Post("t_exec_ready") /\ Sale(p, [op |-> "SET", r |-> NULO])
          /\ programa[p][PC[p] + 1] = [op |-> "SET", r |-> NULO]
      BY <1>6 DEF FinDeQuantum, Sale, Ejecuta, vFin
    <2>2. UnoEnExec /\ EnExec = p /\ EnExec' = p /\ bloqueo' = "espera" /\ cpu' = NULO
      BY <2>1, <1>s
    <2>3. /\ sem'["t_exec_ready"] = 1 /\ sem'["t_exec_blocked"] = 0 /\ sem'["t_exit_largo"] = 0
          /\ sem'["exec_libre"] = 0
      BY <1>3, <2>1, PostDa DEF Semaforos, Corre, Ordenes
    <2>4. PC'[p] > 0 /\ programa'[p][PC'[p]].op = "SET"
      BY <1>1, <1>2, <2>1
    <2> QED BY <1>2, <1>3, <2>1, <2>2, <2>3, <2>4 DEF Turno, Corre, Vuelve, UnoEnExec, Ordenes, Quieto
  <1>7. CASE Termina(p)
    <2> DEFINE x == [Ocioso EXCEPT !.paso = "pcb_exec"]
    <2>1. UNCHANGED sem /\ Pone("dispatch", x) /\ pid_a_finalizar' = p /\ \E i : Sale(p, i)
      BY <1>7 DEF Termina
    <2>2. x.paso = "pcb_exec"
      BY DEF Ocioso
    <2> HIDE DEF x
    <2> QED BY <1>4, <2>1, <2>2 DEF Sirve
  <1>8. CASE Desincronizado(p) \/ Pisado(p)
    BY <1>8 DEF Desincronizado, Pisado, Falla
  <1>9. ASSUME NEW i \in ToSet(programa[p]), Recibe(p, i) PROVE Turno'
    <2> DEFINE x == [Ocioso EXCEPT !.paso = IF i.op = "WAIT" THEN "nombre_wait" ELSE "nombre_signal", !.p = p]
    <2>1. UNCHANGED sem /\ Pone("dispatch", x) /\ Sale(p, i)
      BY <1>9 DEF Recibe
    <2>2. x.paso \in {"nombre_wait", "nombre_signal"} /\ x.p = p
      BY DEF Ocioso
    <2> HIDE DEF x
    <2> QED BY <1>4, <2>1, <2>2
  <1> QED BY <1>5, <1>6, <1>7, <1>8, <1>9

LEMMA TurnoDispatch ==
    ASSUME Tipos, Turno, falla' = "ninguna", Dispatch \/ Fin("dispatch") PROVE Turno'
  <1> DEFINE d == hilo["dispatch"]
  <1>1. /\ sem \in [Semaforos -> Nat] /\ hilo \in [HilosFin -> Hilo] /\ d \in Hilo
        /\ "dispatch" \in HilosFin /\ "consola" \in HilosFin /\ NULO \notin Procesos
        /\ HiloBueno(d) /\ Ocioso.paso = "libre"
    BY NuloAssumption DEF Tipos, TSem, TFin, HilosFin, Ocioso
  <1>b. UNCHANGED bloqueo
    BY DEF Dispatch, Obtiene, RecursoInvalido, Wait, Signal, WaitBusca, WaitToma, WaitEncola, SignalSaca,
           SignalRepone, PcbExec, Fin, BuscaExec, BuscaColas, SacaCola, Agrega, AsignaNombre, AsignaBusca,
           AsignaToma, Elimina, Devuelve, vGrado
  <1>2. CASE WaitEncola
    <2>1. d.paso = "encola" /\ Pone("dispatch", Ocioso) /\ UNCHANGED <<sem, colas, cpu, PC, programa, pid_a_finalizar, bloqueo>>
      BY <1>2 DEF WaitEncola, vCola, vCpu, vGrado
    <2>2. hilo'["dispatch"] = Ocioso /\ hilo'["consola"] = hilo["consola"]
      BY <1>1, <2>1 DEF Pone
    <2>3. hilo'["dispatch"].paso = "libre"
      BY <1>1, <2>2
    <2>4. Quieto /\ Quieto' /\ UNCHANGED UnoEnExec /\ UNCHANGED EnExec /\ UNCHANGED Ido
      BY <2>1, <2>3 DEF Quieto, UnoEnExec, EnExec, Ido
    <2> QED BY <2>1, <2>2, <2>3, <2>4 DEF Turno, Nadie, Corre, Atiende, Vuelve, SeBloquea, SeVa, Ordenes
  <1>3. ASSUME ~WaitEncola
        PROVE  Atiende /\ hilo["consola"].paso = "libre" /\ d.paso \notin {"colas", "saca_cola", "agrega"}
    <2>1. d.paso \notin {"libre", "encola"}
      <3>1. CASE Dispatch
        BY <1>3, <3>1 DEF Dispatch, Obtiene, RecursoInvalido, Wait, Signal, WaitBusca, WaitToma, SignalSaca,
               SignalRepone, PcbExec, En
      <3>2. CASE Fin("dispatch")
        BY <1>1, <3>2, PasoDeFin DEF DeFin, DeAsignar
      <3> QED BY <3>1, <3>2
    <2> QED BY <2>1 DEF Turno, Nadie, Corre, Vuelve, SeBloquea, SeVa, Quieto
  <1>4. ASSUME NEW x, Pone("dispatch", x)
        PROVE  hilo'["dispatch"] = x /\ hilo'["consola"] = hilo["consola"]
    BY <1>1, <1>4 DEF Pone
  <1>5. ASSUME Atiende, hilo["consola"].paso = "libre", UNCHANGED <<colas, cpu>>,
               \A s \in {"exec_libre", "t_exec_ready", "t_exec_blocked", "t_exit_largo"} : sem'[s] = sem[s],
               NEW x, Pone("dispatch", x), x.paso \in Sirve, x.p = EnExec,
               x.paso \in {"busca", "exec"} => pid_a_finalizar' = EnExec
        PROVE  Turno'
    <2>1. hilo'["dispatch"] = x /\ hilo'["consola"] = hilo["consola"]
      BY <1>4, <1>5
    <2>2. UNCHANGED EnExec /\ UNCHANGED UnoEnExec
      BY <1>5, <1>b DEF EnExec, UnoEnExec
    <2>3. hilo'["dispatch"].paso \notin {"libre", "encola", "colas", "saca_cola", "agrega", "pcb_exec"}
      BY <1>5, <2>1 DEF Sirve
    <2> QED BY <1>5, <2>1, <2>2, <2>3 DEF Turno, Atiende, Ordenes, Quieto
  <1>i. /\ \A s \in {"wait", "signal", "toma", "saca", "repone", "libera", "asigna", "asigna_busca", "asigna_toma"} :
              s \in Sirve /\ s \notin {"busca", "exec"}
        /\ \A s \in {"nombre_wait", "nombre_signal", "busca", "exec"} : s \in Sirve
    BY DEF Sirve
  <1>6. CASE WaitBusca
    <2>1. /\ d.paso = "busca" /\ UNCHANGED <<colas, cpu, pid_a_finalizar>>
          /\ \/ UNCHANGED sem /\ Pone("dispatch", [d EXCEPT !.paso = "toma", !.ya = YaTiene(d.p)])
             \/ Post("t_exec_blocked") /\ Pone("dispatch", [d EXCEPT !.paso = "encola"])
      BY <1>6 DEF WaitBusca, Falla, Sigue, vCola, vCpu
    <2>2. Atiende /\ hilo["consola"].paso = "libre" /\ d.p = EnExec
      BY <1>3, <1>i, <2>1 DEF WaitEncola, Atiende
    <2>3. CASE UNCHANGED sem /\ Pone("dispatch", [d EXCEPT !.paso = "toma", !.ya = YaTiene(d.p)])
      <3> DEFINE x == [d EXCEPT !.paso = "toma", !.ya = YaTiene(d.p)]
      <3>1. x.paso = "toma" /\ x.p = d.p /\ Pone("dispatch", x)
        BY <1>1, <2>3 DEF Hilo
      <3> HIDE DEF x
      <3> QED BY <1>5, <1>i, <2>1, <2>2, <2>3, <3>1
    <2>4. CASE Post("t_exec_blocked") /\ Pone("dispatch", [d EXCEPT !.paso = "encola"])
      <3>1. [d EXCEPT !.paso = "encola"].paso = "encola"
        BY <1>1 DEF Hilo
      <3>2. hilo'["dispatch"].paso = "encola" /\ hilo'["consola"] = hilo["consola"]
        BY <1>4, <2>4, <3>1
      <3>3. /\ sem'["t_exec_ready"] = 0 /\ sem'["t_exec_blocked"] = 1 /\ sem'["t_exit_largo"] = 0
            /\ sem'["exec_libre"] = 0
        BY <2>2, <2>4, PostDa DEF Semaforos, Atiende, UnoEnExec, Ordenes
      <3> QED BY <1>b, <2>1, <2>2, <3>2, <3>3 DEF Turno, Atiende, SeBloquea, UnoEnExec, Ordenes, Quieto
    <2> QED BY <2>1, <2>3, <2>4
  <1>7. CASE WaitToma \/ SignalRepone
    <2>1. d.paso \in {"toma", "repone"} /\ cpu' = d.p /\ Pone("dispatch", Ocioso) /\ UNCHANGED <<colas, sem>>
      BY <1>7 DEF WaitToma, SignalRepone, vCola
    <2>2. Atiende /\ hilo["consola"].paso = "libre" /\ d.p = EnExec
      BY <1>3, <1>i, <2>1 DEF WaitEncola, Atiende
    <2>3. hilo'["dispatch"].paso = "libre" /\ hilo'["consola"] = hilo["consola"]
      BY <1>1, <1>4, <2>1
    <2>4. Len(colas'["EXEC"]) = 1 /\ cpu' = colas'["EXEC"][1] /\ Ido' = 0 /\ Ido' + 1 = 1
      BY <1>b, <2>1, <2>2 DEF Atiende, UnoEnExec, EnExec, Ido
    <2>5. Len(colas'["EXEC"]) = (Ido + 1)' /\ cpu' = colas'["EXEC"][(Ido + 1)']
      BY <2>4
    <2> QED BY <2>1, <2>2, <2>3, <2>5 DEF Turno, Atiende, Corre, UnoEnExec, Ordenes, Quieto
  <1>8. CASE SignalSaca \/ Obtiene
    <2>1. PICK x : /\ d.paso \in {"saca", "nombre_wait", "nombre_signal"}
                   /\ UNCHANGED <<colas, sem, cpu, pid_a_finalizar>>
                   /\ Pone("dispatch", x) /\ x.paso \in {"repone", "wait", "signal"} /\ x.p = d.p
      <3>1. CASE SignalSaca
        <4> DEFINE x == [d EXCEPT !.paso = "repone"]
        <4>1. /\ d.paso = "saca" /\ UNCHANGED <<colas, sem, cpu, pid_a_finalizar>> /\ Pone("dispatch", x)
          BY <3>1 DEF SignalSaca, Sigue, vCola, vCpu
        <4>2. x.paso = "repone" /\ x.p = d.p
          BY <1>1 DEF Hilo
        <4> HIDE DEF x
        <4> QED BY <4>1, <4>2
      <3>2. CASE Obtiene
        <4> DEFINE x == [d EXCEPT !.paso = IF @ = "nombre_wait" THEN "wait" ELSE "signal",
                                  !.r = nombre_recurso_recibido]
        <4>1. /\ d.paso \in {"nombre_wait", "nombre_signal"} /\ UNCHANGED <<colas, sem, cpu, pid_a_finalizar>>
              /\ Pone("dispatch", x)
          BY <3>2 DEF Obtiene, vCola, vCpu
        <4>2. x.paso \in {"wait", "signal"} /\ x.p = d.p
          BY <1>1 DEF Hilo
        <4> HIDE DEF x
        <4> QED BY <4>1, <4>2
      <3> QED BY <1>8, <3>1, <3>2
    <2>2. Atiende /\ hilo["consola"].paso = "libre" /\ d.p = EnExec
      BY <1>3, <1>i, <2>1 DEF WaitEncola, Atiende
    <2> QED BY <1>5, <1>i, <2>1, <2>2
  <1>w. CASE Wait \/ RecursoInvalido
    <2>1. PICK x : /\ d.paso \in {"wait", "nombre_wait", "nombre_signal"}
                   /\ UNCHANGED <<colas, sem, cpu>> /\ pid_a_finalizar' = d.p
                   /\ Pone("dispatch", x) /\ x.paso \in {"busca", "exec"} /\ x.p = d.p
      <3>1. CASE Wait
        <4> DEFINE x == [d EXCEPT !.paso = "busca", !.hay = instancias[d.r] > 0]
        <4>1. /\ d.paso = "wait" /\ UNCHANGED <<colas, sem, cpu>> /\ pid_a_finalizar' = d.p /\ Pone("dispatch", x)
          BY <3>1 DEF Wait, vCola, vCpu
        <4>2. x.paso = "busca" /\ x.p = d.p
          BY <1>1 DEF Hilo
        <4> HIDE DEF x
        <4> QED BY <4>1, <4>2
      <3>2. CASE RecursoInvalido
        <4> DEFINE x == [d EXCEPT !.paso = "exec"]
        <4>1. /\ d.paso \in {"nombre_wait", "nombre_signal"} /\ UNCHANGED <<colas, sem, cpu>>
              /\ pid_a_finalizar' = d.p /\ Pone("dispatch", x)
          BY <3>2 DEF RecursoInvalido, Sigue, vCola, vCpu
        <4>2. x.paso = "exec" /\ x.p = d.p
          BY <1>1 DEF Hilo
        <4> HIDE DEF x
        <4> QED BY <4>1, <4>2
      <3> QED BY <1>w, <3>1, <3>2
    <2>2. Atiende /\ hilo["consola"].paso = "libre" /\ d.p = EnExec
      BY <1>3, <1>i, <2>1 DEF WaitEncola, Atiende
    <2> QED BY <1>5, <1>i, <2>1, <2>2
  <1>s. CASE Signal
    <2>1. PICK x : /\ d.paso = "signal" /\ UNCHANGED <<colas, cpu, pid_a_finalizar>>
                   /\ Post("t_blocked_ready") \/ UNCHANGED sem
                   /\ Pone("dispatch", x) /\ x.paso \in {"saca", "repone"} /\ x.p = d.p
      <3> DEFINE x == [d EXCEPT !.paso = "saca"]
                 y == [d EXCEPT !.paso = "repone"]
      <3>1. /\ d.paso = "signal" /\ UNCHANGED <<colas, cpu, pid_a_finalizar>>
            /\ Post("t_blocked_ready") \/ UNCHANGED sem
            /\ Pone("dispatch", x) \/ Pone("dispatch", y)
        BY <1>s DEF Signal, Sigue, vCola, vCpu
      <3>2. x.paso = "saca" /\ x.p = d.p /\ y.paso = "repone" /\ y.p = d.p
        BY <1>1 DEF Hilo
      <3> HIDE DEF x, y
      <3> QED BY <3>1, <3>2
    <2>2. Atiende /\ hilo["consola"].paso = "libre" /\ d.p = EnExec
      BY <1>3, <1>i, <2>1 DEF WaitEncola, Atiende
    <2>3. \A s \in {"exec_libre", "t_exec_ready", "t_exec_blocked", "t_exit_largo"} : sem'[s] = sem[s]
      BY <2>1, PostDa DEF Semaforos
    <2> QED BY <1>5, <1>i, <2>1, <2>2, <2>3
  <1>9. CASE PcbExec
    <2> DEFINE x == [Ocioso EXCEPT !.paso = "libera", !.p = pid_a_finalizar, !.rs = Tiene(pid_a_finalizar)]
    <2>1. d.paso = "pcb_exec" /\ UNCHANGED <<colas, sem, cpu, pid_a_finalizar>> /\ Pone("dispatch", x)
      BY <1>9 DEF PcbExec, Falla, En, vCola, vCpu
    <2>2. Atiende /\ hilo["consola"].paso = "libre" /\ pid_a_finalizar = EnExec
      BY <1>3, <2>1 DEF WaitEncola, Atiende
    <2>3. x.paso = "libera" /\ x.p = pid_a_finalizar
      BY DEF Ocioso
    <2> HIDE DEF x
    <2> QED BY <1>5, <1>i, <2>1, <2>2, <2>3
  <1>10. CASE AsignaNombre("dispatch") \/ AsignaBusca("dispatch") \/ AsignaToma("dispatch")
    <2>1. PICK x : /\ d.paso \in {"asigna", "asigna_busca", "asigna_toma"}
                   /\ UNCHANGED <<colas, cpu, pid_a_finalizar>>
                   /\ Post("t_blocked_ready") \/ UNCHANGED sem
                   /\ Pone("dispatch", x) /\ x.paso \in {"asigna_busca", "asigna_toma", "libera"} /\ x.p = d.p
      <3> DEFINE x == [d EXCEPT !.paso = "asigna_busca"]
                 y == [d EXCEPT !.paso = "asigna_toma", !.ya = YaTiene(d.q)]
                 z == [d EXCEPT !.paso = "libera"]
      <3>1. /\ d.paso \in {"asigna", "asigna_busca", "asigna_toma"} /\ UNCHANGED <<colas, cpu, pid_a_finalizar>>
            /\ Post("t_blocked_ready") \/ UNCHANGED sem
            /\ Pone("dispatch", x) \/ Pone("dispatch", y) \/ Pone("dispatch", z)
        BY <1>10 DEF AsignaNombre, AsignaBusca, AsignaToma, Sigue, En, vCola, vCpu
      <3>2. /\ x.paso = "asigna_busca" /\ x.p = d.p /\ y.paso = "asigna_toma" /\ y.p = d.p
            /\ z.paso = "libera" /\ z.p = d.p
        BY <1>1 DEF Hilo
      <3> HIDE DEF x, y, z
      <3> QED BY <3>1, <3>2
    <2>2. Atiende /\ hilo["consola"].paso = "libre" /\ d.p = EnExec
      BY <1>3, <1>i, <2>1 DEF WaitEncola, Atiende
    <2>3. \A s \in {"exec_libre", "t_exec_ready", "t_exec_blocked", "t_exit_largo"} : sem'[s] = sem[s]
      BY <2>1, PostDa DEF Semaforos
    <2> QED BY <1>5, <1>i, <2>1, <2>2, <2>3
  <1>11. ASSUME NEW r \in Recursos, Devuelve("dispatch", r) PROVE Turno'
    <2>1. /\ d.paso = "libera" /\ UNCHANGED <<colas, sem, cpu, PC, programa, pid_a_finalizar>>
          /\ UNCHANGED hilo \/ \E q : Pone("dispatch", [d EXCEPT !.paso = "asigna", !.r = r, !.q = q])
      BY <1>11 DEF Devuelve, En, vCola, vCpu
    <2>2. Atiende /\ hilo["consola"].paso = "libre" /\ d.p = EnExec
      BY <1>3, <1>i, <2>1 DEF WaitEncola, Atiende
    <2>3. CASE UNCHANGED hilo
      BY <1>b, <2>1, <2>3, TurnoQuieto
    <2>4. ASSUME NEW q, Pone("dispatch", [d EXCEPT !.paso = "asigna", !.r = r, !.q = q]) PROVE Turno'
      <3> DEFINE x == [d EXCEPT !.paso = "asigna", !.r = r, !.q = q]
      <3>1. x.paso = "asigna" /\ x.p = d.p
        BY <1>1 DEF Hilo
      <3>2. Pone("dispatch", x)
        BY <2>4
      <3> HIDE DEF x
      <3> QED BY <1>5, <1>i, <2>1, <2>2, <3>1, <3>2
    <2> QED BY <2>1, <2>3, <2>4
  <1>12. CASE Elimina("dispatch") \/ BuscaExec("dispatch")
    <2>1. d.paso \in {"libera", "exec"} /\ Atiende /\ hilo["consola"].paso = "libre"
      BY <1>3, <1>12 DEF Elimina, BuscaExec, En, WaitEncola
    <2>2. BuscaExec("dispatch") => pid_a_finalizar \in ToSet(colas["EXEC"])
      <3> SUFFICES ASSUME BuscaExec("dispatch") PROVE pid_a_finalizar \in ToSet(colas["EXEC"])
        OBVIOUS
      <3>1. pid_a_finalizar = EnExec
        BY <2>1 DEF BuscaExec, En, Atiende
      <3>2. colas["EXEC"] \in Seq(PCB) /\ Len(colas["EXEC"]) = 1
        BY <2>1 DEF Tipos, TCola, Colas, Atiende, UnoEnExec
      <3> QED BY <3>1, <3>2 DEF EnExec, ToSet
    <2>3. Pone("dispatch", Ocioso) /\ Post("t_exit_largo") /\ UNCHANGED <<colas, cpu>>
      <3>1. CASE Elimina("dispatch")
        BY <3>1 DEF Elimina, vCola, vCpu
      <3>2. CASE BuscaExec("dispatch")
        BY <2>2, <3>2 DEF BuscaExec, vCola
      <3> QED BY <1>12, <3>1, <3>2
    <2>4. hilo'["dispatch"].paso = "libre" /\ hilo'["consola"] = hilo["consola"]
      BY <1>1, <1>4, <2>3
    <2>5. /\ sem'["t_exec_ready"] = 0 /\ sem'["t_exec_blocked"] = 0 /\ sem'["t_exit_largo"] = 1
          /\ sem'["exec_libre"] = 0
      BY <2>1, <2>3, PostDa DEF Semaforos, Atiende, UnoEnExec, Ordenes
    <2> QED BY <1>b, <2>1, <2>3, <2>4, <2>5 DEF Turno, Atiende, SeVa, UnoEnExec, Ordenes, Quieto
  <1>13. ~(BuscaColas("dispatch") \/ SacaCola("dispatch") \/ Agrega("dispatch"))
    BY DEF Turno, BuscaColas, SacaCola, Agrega, En
  <1> QED BY <1>2, <1>6, <1>7, <1>8, <1>9, <1>10, <1>11, <1>12, <1>13, <1>w, <1>s DEF Dispatch, Fin

LEMMA TurnosSiempre ==
    ASSUME Tipos, Tipos', Turnos, [Next]_vars PROVE Turnos'
  <1>1. CASE UNCHANGED vars
    <2>1. UNCHANGED <<colas, sem, cpu, PC, programa, hilo, pid_a_finalizar, bloqueo, resta, falla>>
      BY <1>1 DEF vars, vCola, vCpu, vGrado, vFin
    <2>2. Turno => Turno'
      BY <2>1, TurnoQuieto
    <2> QED BY <2>1, <2>2 DEF Turnos, SinConsola
  <1>2. CASE Next
    <2>1. resta' <= resta /\ resta \in Int /\ resta' \in Int /\ MaxFinalizar \in Int /\ resta <= MaxFinalizar
      BY <1>2, Comandos, CotasAssumption DEF Turnos
    <2>2. resta' <= MaxFinalizar
      BY <2>1
    <2>3. ASSUME SinConsola' PROVE Turno'
      <3>1. Turno /\ resta' = resta /\ falla' = "ninguna"
        BY <1>2, <2>1, <2>3, SinConsolaAntes DEF Turnos
      <3>2. ~Fin("consola")
        BY <3>1, PasoDeFin DEF Turno, DeFin, DeAsignar, HilosFin
      <3> QED BY <1>2, <3>1, <3>2, TurnoPlanificadores, TurnoOperador, TurnoCpu, TurnoDispatch DEF Next
    <2> QED BY <2>2, <2>3 DEF Turnos
  <1> QED BY <1>1, <1>2

-----------------------------------------------------------------------------
(* The resources some program names: what the threads are about, the only  *)
(* ones with somebody in their queue, and what the global may name.        *)

Usa(r) == \E p \in Procesos : \E i \in ToSet(programa[p]) : i.r = r
Tratan == ConPedido \cup DeAsignar
Usados ==
    /\ \A h \in HilosFin : hilo[h].paso \in Tratan => Usa(hilo[h].r)
    /\ nombre_recurso_recibido \in Recursos => Usa(nombre_recurso_recibido)
    /\ \A r \in Recursos : Usa(r) \/ bloqueados[r] = <<>>

LEMMA UnoUsado ==
    ASSUME UnRecurso, NEW r \in Recursos, NEW s \in Recursos, Usa(r), Usa(s)
    PROVE  r = s
  <1> DEFINE U == {t \in Recursos : \E p \in Procesos : \E i \in ToSet(programa[p]) : i.r = t}
  <1>1. r \in U /\ s \in U /\ U \subseteq Recursos
    BY DEF Usa
  <1>2. Cardinality(U) <= 1
    BY DEF UnRecurso
  <1> HIDE DEF U
  <1>3. IsFiniteSet(U) /\ {r, s} \subseteq U
    BY <1>1, FinitosAssumption, FS_Subset
  <1>4. Cardinality({r, s}) <= Cardinality(U) /\ IsFiniteSet({r, s})
    BY <1>3, FS_Subset
  <1>5. Cardinality(U) \in Nat /\ Cardinality({r, s}) \in Nat
    BY <1>3, <1>4, FS_CardinalityType
  <1>6. r # s => Cardinality({r, s}) = 2
    <2> SUFFICES ASSUME r # s PROVE Cardinality({r, s}) = 2
      OBVIOUS
    <2>1. {r, s} = {r} \cup {s} /\ s \notin {r} /\ IsFiniteSet({r}) /\ Cardinality({r}) = 1
      BY FS_Singleton
    <2> QED BY <2>1, FS_AddElement
  <1> QED BY <1>2, <1>4, <1>5, <1>6

LEMMA LlamaAUsado ==
    ASSUME Tipos, NEW p \in Procesos, NEW i, Ejecuta(p, i)
    PROVE  Usa(i.r)
  <1>1. programa[p] \in Seq(ToSet(programa[p])) /\ PC[p] \in Nat /\ PC[p] < Len(programa[p])
        /\ programa[p][PC[p] + 1] = i
    BY ProgramasAssumption DEF Tipos, TCpu, Ejecuta
  <1>2. PC[p] + 1 \in 1..Len(programa[p])
    BY <1>1, LenProperties
  <1>3. i \in ToSet(programa[p])
    BY <1>1, <1>2, ElementOfSeq
  <1> QED BY <1>3 DEF Usa

LEMMA UsadosAlInicio == Init => Usados
  <1> SUFFICES ASSUME Init PROVE Usados
    OBVIOUS
  <1>1. (\A h \in HilosFin : hilo[h].paso = "libre") /\ \A r \in Recursos : bloqueados[r] = <<>>
    BY DEF Init, Ocioso
  <1>2. nombre_recurso_recibido \notin Recursos
    BY NuloAssumption DEF Init
  <1> QED BY <1>1, <1>2 DEF Usados, Tratan, ConPedido, DeAsignar

LEMMA UsadosQuietos ==
    ASSUME Usados, UNCHANGED programa,
           \A r \in Recursos : bloqueados'[r] = bloqueados[r] \/ bloqueados'[r] = <<>> \/ Usa(r),
           UNCHANGED nombre_recurso_recibido \/ (nombre_recurso_recibido' \in Recursos => Usa(nombre_recurso_recibido')),
           \A h \in HilosFin : \/ hilo'[h] = hilo[h]
                              \/ hilo'[h].paso \notin Tratan
                              \/ Usa(hilo'[h].r)
    PROVE  Usados'
  <1>1. \A r : (\E p \in Procesos : \E i \in ToSet(programa'[p]) : i.r = r)
               <=> \E p \in Procesos : \E i \in ToSet(programa[p]) : i.r = r
    OBVIOUS
  <1>2. \A h \in HilosFin : hilo'[h].paso \in Tratan => Usa(hilo'[h].r)
    BY DEF Usados
  <1>3. (\A h \in HilosFin : hilo[h].paso \in Tratan => Usa(hilo[h].r))'
    BY <1>1, <1>2 DEF Usa
  <1>4. \A r \in Recursos : Usa(r) \/ bloqueados'[r] = <<>>
    BY DEF Usados
  <1>5. (\A r \in Recursos : Usa(r) \/ bloqueados[r] = <<>>)'
    BY <1>1, <1>4 DEF Usa
  <1>6. nombre_recurso_recibido' \in Recursos => Usa(nombre_recurso_recibido')
    BY DEF Usados
  <1>7. (nombre_recurso_recibido \in Recursos => Usa(nombre_recurso_recibido))'
    BY <1>1, <1>6 DEF Usa
  <1> QED BY <1>3, <1>5, <1>7 DEF Usados

LEMMA UsadosPone ==
    ASSUME Tipos, NEW h \in HilosFin, NEW x, Pone(h, x), x.paso \notin Tratan \/ Usa(x.r)
    PROVE  \A k \in HilosFin : hilo'[k] = hilo[k] \/ hilo'[k].paso \notin Tratan \/ Usa(hilo'[k].r)
  BY DEF Pone, Tipos, TFin

LEMMA UsadosFin ==
    ASSUME Tipos, Usados, NEW h \in HilosFin, Fin(h) PROVE Usados'
  <1> DEFINE f == hilo[h]
  <1>1. /\ f \in Hilo /\ UNCHANGED programa /\ bloqueados \in [Recursos -> Seq(Procesos)]
    BY DEF Tipos, TFin, TRec, Fin, BuscaExec, BuscaColas, SacaCola, Agrega, AsignaNombre, AsignaBusca, AsignaToma,
           Elimina, Devuelve, vCpu
  <1>2. /\ \A v \in {"libre", "colas", "saca_cola", "agrega", "libera"} : v \notin Tratan
        /\ \A v \in DeAsignar : v \in Tratan
        /\ Ocioso.paso = "libre"
    BY DEF Tratan, ConPedido, DeAsignar, Ocioso
  <1>3. CASE \/ BuscaExec(h) \/ BuscaColas(h) \/ SacaCola(h) \/ Agrega(h) \/ Elimina(h) \/ AsignaToma(h)
    <2>1. UNCHANGED <<bloqueados, nombre_recurso_recibido>>
      BY <1>3 DEF BuscaExec, BuscaColas, SacaCola, Agrega, Elimina, AsignaToma, vRecurso
    <2>2. \E x : Pone(h, x) /\ x.paso \in {"libre", "colas", "saca_cola", "agrega", "libera"}
      <3>1. /\ [f EXCEPT !.paso = "colas"].paso = "colas" /\ [f EXCEPT !.paso = "libera"].paso = "libera"
            /\ \A q : [f EXCEPT !.paso = "agrega", !.q = q].paso = "agrega"
            /\ \A T : [f EXCEPT !.paso = "libera", !.rs = T].paso = "libera"
        BY <1>1 DEF Hilo
      <3>2. \A p, c : [Ocioso EXCEPT !.paso = "saca_cola", !.p = p, !.cola = c].paso = "saca_cola"
        BY DEF Ocioso
      <3>3. CASE BuscaExec(h)
        BY <1>2, <3>1, <3>3 DEF BuscaExec, Sigue
      <3>4. CASE BuscaColas(h)
        BY <1>2, <3>2, <3>4 DEF BuscaColas
      <3>5. CASE SacaCola(h)
        <4>1. \E q : Pone(h, [f EXCEPT !.paso = "agrega", !.q = q])
          BY <3>5 DEF SacaCola
        <4> QED BY <3>1, <4>1
      <3>6. CASE Agrega(h)
        BY <3>1, <3>6 DEF Agrega
      <3>7. CASE Elimina(h)
        BY <1>2, <3>7 DEF Elimina
      <3>8. CASE AsignaToma(h)
        BY <3>1, <3>8 DEF AsignaToma, Sigue
      <3> QED BY <1>3, <3>3, <3>4, <3>5, <3>6, <3>7, <3>8
    <2>3. \A k \in HilosFin : hilo'[k] = hilo[k] \/ hilo'[k].paso \notin Tratan \/ Usa(hilo'[k].r)
      BY <1>2, <2>2, UsadosPone
    <2> QED BY <1>1, <2>1, <2>3, UsadosQuietos
  <1>4. CASE AsignaNombre(h) \/ AsignaBusca(h)
    <2>1. f.paso \in DeAsignar /\ UNCHANGED bloqueados
          /\ (UNCHANGED nombre_recurso_recibido \/ nombre_recurso_recibido' = f.r)
      BY <1>4 DEF AsignaNombre, AsignaBusca, En, DeAsignar, vRecurso
    <2>2. Usa(f.r)
      BY <1>2, <2>1 DEF Usados
    <2>3. \E x : Pone(h, x) /\ x.r = f.r
      <3>1. [f EXCEPT !.paso = "asigna_busca"].r = f.r
            /\ [f EXCEPT !.paso = "asigna_toma", !.ya = YaTiene(f.q)].r = f.r
        BY <1>1 DEF Hilo
      <3> QED BY <1>4, <3>1 DEF AsignaNombre, AsignaBusca, Sigue
    <2>4. \A k \in HilosFin : hilo'[k] = hilo[k] \/ hilo'[k].paso \notin Tratan \/ Usa(hilo'[k].r)
      BY <2>2, <2>3, UsadosPone
    <2> QED BY <1>1, <2>1, <2>2, <2>4, UsadosQuietos
  <1>5. ASSUME NEW r \in Recursos, Devuelve(h, r) PROVE Usados'
    <2> DEFINE l == SinPropias(bloqueados[r], hilo[h].p)
    <2>1. /\ bloqueados' = [bloqueados EXCEPT ![r] = l] /\ UNCHANGED nombre_recurso_recibido
          /\ UNCHANGED hilo \/ (l # <<>> /\ Pone(h, [f EXCEPT !.paso = "asigna", !.r = r, !.q = Head(l)]))
      BY <1>5 DEF Devuelve
    <2>2. l \in Seq(Procesos) /\ Len(l) <= Len(bloqueados[r])
      BY <1>1, PropiasQuitadas
    <2> HIDE DEF l
    <2>3. bloqueados[r] = <<>> => l = <<>>
      <3>1. Len(l) \in Nat /\ Len(<<>>) = 0
        BY <2>2, EmptySeq, LenProperties
      <3>2. bloqueados[r] = <<>> => Len(l) = 0
        BY <2>2, <3>1
      <3> QED BY <2>2, <3>2, EmptySeq
    <2>4. \A s \in Recursos : bloqueados'[s] = IF s = r THEN l ELSE bloqueados[s]
      BY <1>1, <2>1
    <2>5. \A s \in Recursos : bloqueados'[s] = bloqueados[s] \/ bloqueados'[s] = <<>> \/ Usa(s)
      BY <2>3, <2>4 DEF Usados
    <2>6. \A q : [f EXCEPT !.paso = "asigna", !.r = r, !.q = q].r = r
      BY <1>1 DEF Hilo
    <2>7. UNCHANGED hilo \/ (Usa(r) /\ \E x : Pone(h, x) /\ x.r = r)
      BY <2>1, <2>3, <2>6 DEF Usados
    <2>8. \A k \in HilosFin : hilo'[k] = hilo[k] \/ hilo'[k].paso \notin Tratan \/ Usa(hilo'[k].r)
      BY <2>7, UsadosPone
    <2> QED BY <1>1, <2>1, <2>5, <2>8, UsadosQuietos
  <1> QED BY <1>3, <1>4, <1>5 DEF Fin

LEMMA UsadosSiempre ==
    ASSUME Tipos, Usados, [Next]_vars PROVE Usados'
  <1>1. hilo["dispatch"] \in Hilo /\ "dispatch" \in HilosFin /\ "consola" \in HilosFin
        /\ bloqueados \in [Recursos -> Seq(Procesos)]
    BY DEF Tipos, TFin, TRec, HilosFin
  <1>2. /\ \A v \in {"libre", "nombre_wait", "nombre_signal", "pcb_exec", "exec", "libera"} : v \notin Tratan
        /\ \A v \in ConPedido : v \in Tratan
        /\ Ocioso.paso = "libre"
    BY DEF Tratan, ConPedido, DeAsignar, Ocioso
  <1>3. CASE UNCHANGED vars
    <2>1. UNCHANGED <<programa, bloqueados, hilo, nombre_recurso_recibido>>
      BY <1>3 DEF vars, vCpu, vFin, vRecurso
    <2> QED BY <2>1, UsadosQuietos
  <1>4. CASE Operador \/ Planificadores \/ ManejaLee \/ ManejaUno
    <2>1. UNCHANGED <<programa, bloqueados, nombre_recurso_recibido>>
      BY <1>4 DEF Operador, IniciarProceso, Finalizar, Multiprogramacion, Planificadores, LargoToma,
             LargoMueve, CortoPlazo, ExecReady, ExecBlocked, ExecBlockedLibera, ExecBlockedMueve,
             ExecBlockedGuarda, BlockedReady, ExitLargoPlazo, ManejaLee, ManejaUno, vCpu, vRecurso
    <2>2. UNCHANGED hilo \/ \E p : Pone("consola", [Ocioso EXCEPT !.paso = "exec", !.p = p])
      BY <1>4 DEF Operador, IniciarProceso, Finalizar, Multiprogramacion, Planificadores, LargoToma,
             LargoMueve, CortoPlazo, ExecReady, ExecBlocked, ExecBlockedLibera, ExecBlockedMueve,
             ExecBlockedGuarda, BlockedReady, ExitLargoPlazo, ManejaLee, ManejaUno, vFin
    <2>3. \A p : [Ocioso EXCEPT !.paso = "exec", !.p = p].paso = "exec"
      BY DEF Ocioso
    <2>4. \A k \in HilosFin : hilo'[k] = hilo[k] \/ hilo'[k].paso \notin Tratan \/ Usa(hilo'[k].r)
      BY <1>1, <1>2, <2>2, <2>3, UsadosPone
    <2> QED BY <2>1, <2>4, UsadosQuietos
  <1>5. CASE Cpu
    <2>1. PICK p \in Procesos :
             \/ Calcula(p) \/ FinDeQuantum(p) \/ Termina(p) \/ Desincronizado(p) \/ Pisado(p)
             \/ \E i \in ToSet(programa[p]) : Recibe(p, i)
      BY <1>5 DEF Cpu
    <2>2. UNCHANGED <<programa, bloqueados>>
      BY <2>1 DEF Calcula, FinDeQuantum, Termina, Desincronizado, Pisado, Recibe, Sale, Ejecuta, vRecurso
    <2>3. CASE Calcula(p) \/ FinDeQuantum(p) \/ Desincronizado(p) \/ Pisado(p)
      <3>1. UNCHANGED <<hilo, nombre_recurso_recibido>>
        BY <2>3 DEF Calcula, FinDeQuantum, Desincronizado, Pisado, vFin, vRecurso
      <3> QED BY <2>2, <3>1, UsadosQuietos
    <2>4. CASE Termina(p)
      <3>1. Pone("dispatch", [Ocioso EXCEPT !.paso = "pcb_exec"]) /\ UNCHANGED nombre_recurso_recibido
        BY <2>4 DEF Termina, vRecurso
      <3>2. [Ocioso EXCEPT !.paso = "pcb_exec"].paso = "pcb_exec"
        BY DEF Ocioso
      <3>3. \A k \in HilosFin : hilo'[k] = hilo[k] \/ hilo'[k].paso \notin Tratan \/ Usa(hilo'[k].r)
        BY <1>1, <1>2, <3>1, <3>2, UsadosPone
      <3> QED BY <2>2, <3>1, <3>3, UsadosQuietos
    <2>5. ASSUME NEW i \in ToSet(programa[p]), Recibe(p, i) PROVE Usados'
      <3> DEFINE x == [Ocioso EXCEPT !.paso = IF i.op = "WAIT" THEN "nombre_wait" ELSE "nombre_signal", !.p = p]
      <3>1. Pone("dispatch", x) /\ nombre_recurso_recibido' = i.r
        BY <2>5 DEF Recibe
      <3>2. x.paso \in {"nombre_wait", "nombre_signal"}
        BY DEF Ocioso
      <3>3. Usa(nombre_recurso_recibido')
        BY <3>1 DEF Usa
      <3> HIDE DEF x
      <3>4. \A k \in HilosFin : hilo'[k] = hilo[k] \/ hilo'[k].paso \notin Tratan \/ Usa(hilo'[k].r)
        BY <1>1, <1>2, <3>1, <3>2, UsadosPone
      <3> QED BY <2>2, <3>3, <3>4, UsadosQuietos
    <2> QED BY <2>1, <2>3, <2>4, <2>5
  <1>6. CASE Dispatch
    <2> DEFINE d == hilo["dispatch"]
    <2>1. UNCHANGED <<programa, nombre_recurso_recibido>>
      BY <1>6 DEF Dispatch, Obtiene, RecursoInvalido, Wait, Signal, WaitBusca, WaitToma, WaitEncola, SignalSaca,
             SignalRepone, PcbExec, vCpu, vRecurso
    <2>2. \A k \in HilosFin : hilo'[k] = hilo[k] \/ hilo'[k].paso \notin Tratan \/ Usa(hilo'[k].r)
      <3>1. CASE Wait \/ Signal \/ WaitBusca \/ SignalSaca
        <4>1. /\ \A v : [d EXCEPT !.paso = v].r = d.r
              /\ \A v, y : [d EXCEPT !.paso = v, !.ya = y].r = d.r
          BY <1>1 DEF Hilo
        <4>2. d.paso \in ConPedido
          BY <3>1 DEF Wait, Signal, WaitBusca, SignalSaca, ConPedido
        <4>3. UNCHANGED hilo \/ \E x : Pone("dispatch", x) /\ x.r = d.r
          <5>1. CASE Wait
            <6> DEFINE x == [d EXCEPT !.paso = "busca", !.hay = instancias[d.r] > 0]
            <6>1. Pone("dispatch", x)
              BY <5>1 DEF Wait
            <6>2. x.r = d.r
              BY <1>1 DEF Hilo
            <6> HIDE DEF x
            <6> QED BY <6>1, <6>2
          <5>2. CASE Signal \/ SignalSaca
            BY <4>1, <5>2 DEF Signal, SignalSaca, Sigue
          <5>3. CASE WaitBusca
            <6>1. \/ UNCHANGED hilo \/ \E v : Pone("dispatch", [d EXCEPT !.paso = v])
                  \/ \E v, y : Pone("dispatch", [d EXCEPT !.paso = v, !.ya = y])
              <7>1. \/ UNCHANGED hilo \/ Pone("dispatch", [d EXCEPT !.paso = "encola"])
                    \/ Pone("dispatch", [d EXCEPT !.paso = "toma", !.ya = YaTiene(d.p)])
                BY <5>3 DEF WaitBusca, Sigue
              <7> QED BY <7>1
            <6> QED BY <4>1, <6>1
          <5> QED BY <3>1, <5>1, <5>2, <5>3
        <4>4. Usa(d.r)
          BY <1>1, <1>2, <4>2 DEF Usados
        <4> QED BY <1>1, <4>3, <4>4, UsadosPone
      <3>2. CASE Obtiene
        <4> DEFINE x == [d EXCEPT !.paso = IF @ = "nombre_wait" THEN "wait" ELSE "signal",
                                  !.r = nombre_recurso_recibido]
        <4>1. Pone("dispatch", x) /\ nombre_recurso_recibido \in Recursos
          BY <3>2 DEF Obtiene
        <4>2. x.r = nombre_recurso_recibido
          BY <1>1 DEF Hilo
        <4> HIDE DEF x
        <4> QED BY <1>1, <4>1, <4>2, UsadosPone DEF Usados
      <3>3. CASE RecursoInvalido \/ WaitToma \/ WaitEncola \/ SignalRepone \/ PcbExec
        <4> DEFINE x == [Ocioso EXCEPT !.paso = "libera", !.p = pid_a_finalizar, !.rs = Tiene(pid_a_finalizar)]
                   y == [d EXCEPT !.paso = "exec"]
        <4>1. UNCHANGED hilo \/ Pone("dispatch", x) \/ Pone("dispatch", y) \/ Pone("dispatch", Ocioso)
          BY <3>3 DEF RecursoInvalido, WaitToma, WaitEncola, SignalRepone, PcbExec, Sigue
        <4>2. x.paso = "libera" /\ y.paso = "exec"
          BY <1>1 DEF Ocioso, Hilo
        <4> HIDE DEF x, y
        <4> QED BY <1>1, <1>2, <4>1, <4>2, UsadosPone
      <3> QED BY <1>6, <3>1, <3>2, <3>3 DEF Dispatch
    <2>3. ASSUME NEW s \in Recursos
          PROVE  bloqueados'[s] = bloqueados[s] \/ bloqueados'[s] = <<>> \/ Usa(s)
      <3>1. CASE WaitEncola \/ SignalSaca
        <4>1. d.paso \in ConPedido /\ \E l : bloqueados' = [bloqueados EXCEPT ![d.r] = l]
          BY <3>1 DEF WaitEncola, SignalSaca, ConPedido
        <4>2. Usa(d.r) /\ (s # d.r => bloqueados'[s] = bloqueados[s])
          BY <1>1, <1>2, <4>1 DEF Usados
        <4> QED BY <4>2
      <3>2. CASE ~(WaitEncola \/ SignalSaca)
        <4>1. UNCHANGED bloqueados
          BY <1>6, <3>2 DEF Dispatch, Obtiene, RecursoInvalido, Wait, Signal, WaitBusca, WaitToma, SignalRepone,
                 PcbExec, vRecurso
        <4> QED BY <4>1
      <3> QED BY <3>1, <3>2
    <2> QED BY <2>1, <2>2, <2>3, UsadosQuietos
  <1> QED BY <1>3, <1>4, <1>5, <1>6, UsadosFin DEF Next, HilosFin

-----------------------------------------------------------------------------
(* The order of the wake-ups.  The list b is the list a without its first  *)
(* n entries.                                                              *)

Sin(a, b, n) == Len(a) = Len(b) + n /\ \A i \in 1..Len(b) : a[i + n] = b[i]

LEMMA SinAgrega ==
    ASSUME NEW S, NEW a \in Seq(S), NEW b \in Seq(S), NEW n \in Nat, Sin(a, b, n), NEW x \in S
    PROVE  Sin(Append(a, x), Append(b, x), n)
  <1> DEFINE u == Append(a, x)
             v == Append(b, x)
  <1>1. /\ Len(u) = Len(a) + 1 /\ u[Len(a) + 1] = x /\ \A i \in 1..Len(a) : u[i] = a[i]
        /\ Len(v) = Len(b) + 1 /\ v[Len(b) + 1] = x /\ \A i \in 1..Len(b) : v[i] = b[i]
        /\ Len(a) \in Nat /\ Len(b) \in Nat /\ Len(a) = Len(b) + n
    BY AppendProperties DEF Sin
  <1> HIDE DEF u, v
  <1>2. ASSUME NEW i \in 1..(Len(b) + 1) PROVE u[i + n] = v[i]
    <2>1. CASE i = Len(b) + 1
      <3>1. i + n = Len(a) + 1
        BY <1>1, <2>1
      <3> QED BY <1>1, <2>1, <3>1
    <2>2. CASE i \in 1..Len(b)
      <3>1. i + n \in 1..Len(a)
        BY <1>1, <2>2
      <3> QED BY <1>1, <2>2, <3>1 DEF Sin
    <2> QED BY <1>1, <2>1, <2>2
  <1>3. Len(u) = Len(v) + n
    BY <1>1
  <1> QED BY <1>1, <1>2, <1>3 DEF Sin, u, v

LEMMA SinAvanza ==
    ASSUME NEW S, NEW a \in Seq(S), NEW b \in Seq(S), NEW n \in Nat \ {0}, Sin(a, b, n)
    PROVE  a # <<>> /\ Sin(Tail(a), b, n - 1)
  <1>1. Len(a) = Len(b) + n /\ Len(a) \in Nat /\ Len(b) \in Nat
    BY DEF Sin
  <1>2. a # <<>>
    <2>1. Len(a) > 0
      BY <1>1
    <2> QED BY <2>1, EmptySeq
  <1> DEFINE t == Tail(a)
  <1>3. Len(t) = Len(a) - 1 /\ \A i \in 1..Len(t) : t[i] = a[i + 1]
    BY <1>2, HeadTailProperties
  <1> HIDE DEF t
  <1>4. ASSUME NEW i \in 1..Len(b) PROVE t[i + (n - 1)] = b[i]
    <2>1. i + (n - 1) \in 1..Len(t) /\ (i + (n - 1)) + 1 = i + n
      BY <1>1, <1>3
    <2>2. t[i + (n - 1)] = a[i + n]
      BY <1>3, <2>1
    <2> QED BY <2>2 DEF Sin
  <1>5. Len(t) = Len(b) + (n - 1)
    BY <1>1, <1>3
  <1> QED BY <1>2, <1>4, <1>5 DEF Sin, t

LEMMA SinRetrasa ==
    ASSUME NEW S, NEW a \in Seq(S), NEW b \in Seq(S), NEW n \in Nat, Sin(a, b, n), b # <<>>
    PROVE  Sin(a, Tail(b), n + 1)
  <1> DEFINE t == Tail(b)
  <1>1. Len(t) = Len(b) - 1 /\ \A i \in 1..Len(t) : t[i] = b[i + 1]
    BY HeadTailProperties
  <1>2. Len(a) = Len(b) + n /\ Len(a) \in Nat /\ Len(b) \in Nat
    BY DEF Sin
  <1> HIDE DEF t
  <1>3. ASSUME NEW i \in 1..Len(t) PROVE a[i + (n + 1)] = t[i]
    <2>1. i + 1 \in 1..Len(b) /\ (i + 1) + n = i + (n + 1)
      BY <1>1, <1>2
    <2>2. a[i + (n + 1)] = b[i + 1]
      BY <2>1 DEF Sin
    <2> QED BY <1>1, <2>2
  <1>4. Len(a) = Len(t) + (n + 1)
    BY <1>1, <1>2
  <1> QED BY <1>3, <1>4 DEF Sin, t

LEMMA SinSufijo ==
    ASSUME NEW S, NEW a \in Seq(S), NEW b \in Seq(S), NEW n \in Nat, Sin(a, b, n)
    PROVE  IsSuffix(b, a)
  <1> DEFINE u == Reverse(a)
             v == Reverse(b)
             m == Len(b)
             k == Len(a)
  <1>1. k = m + n /\ k \in Nat /\ m \in Nat
    BY DEF Sin
  <1>2. /\ u \in Seq(S) /\ Len(u) = k /\ \A i \in 1..k : u[i] = a[(k - i) + 1]
        /\ v \in Seq(S) /\ Len(v) = m /\ \A i \in 1..m : v[i] = b[(m - i) + 1]
    <2>1. u = [i \in 1..k |-> a[(k - i) + 1]] /\ v = [i \in 1..m |-> b[(m - i) + 1]]
      BY DEF Reverse
    <2>2. \A i \in 1..k : (k - i) + 1 \in 1..k /\ a[(k - i) + 1] \in S
      BY <1>1, ElementOfSeq
    <2>3. \A i \in 1..m : (m - i) + 1 \in 1..m /\ b[(m - i) + 1] \in S
      BY <1>1, ElementOfSeq
    <2> HIDE DEF u, v, k, m
    <2>4. /\ u \in [1..k -> S] /\ \A i \in 1..k : u[i] = a[(k - i) + 1]
          /\ v \in [1..m -> S] /\ \A i \in 1..m : v[i] = b[(m - i) + 1]
      BY <2>1, <2>2, <2>3
    <2>5. u \in Seq(S) /\ v \in Seq(S) /\ DOMAIN u = 1..k /\ DOMAIN v = 1..m
      <3>1. k \in Nat /\ m \in Nat
        BY <1>1
      <3>2. u \in Seq(S) /\ v \in Seq(S)
        BY <2>4, <3>1, SeqDef
      <3> QED BY <2>4, <3>2
    <2>6. Len(u) = k /\ Len(v) = m
      BY <1>1, <2>5, LenProperties
    <2> QED BY <2>4, <2>5, <2>6
  <1>3. \A i \in 1..m : u[i] = v[i]
    <2> SUFFICES ASSUME NEW i \in 1..m PROVE u[i] = v[i]
      OBVIOUS
    <2>1. (m - i) + 1 \in 1..m /\ ((m - i) + 1) + n = (k - i) + 1 /\ i \in 1..k
      BY <1>1
    <2>2. a[(k - i) + 1] = b[(m - i) + 1]
      BY <2>1 DEF Sin
    <2> QED BY <1>2, <2>1, <2>2
  <1> DEFINE x == SubSeq(u, 1, m)
             y == SubSeq(v, 1, m)
  <1>4. /\ x \in Seq(S) /\ Len(x) = m /\ \A i \in 1..m : x[i] = u[i]
        /\ y \in Seq(S) /\ Len(y) = m /\ \A i \in 1..m : y[i] = v[i]
    <2> HIDE DEF u, v, k, m
    <2>1. (\A i \in 1..m : u[i] \in S) /\ (\A i \in 1..m : v[i] \in S)
      <3>1. \A i \in 1..m : i \in 1..k
        BY <1>1
      <3> QED BY <1>2, <3>1, ElementOfSeq
    <2>2. m - 1 + 1 = m /\ (IF 1 <= m THEN m - 1 + 1 ELSE 0) = m /\ \A i \in 1..m : 1 + i - 1 = i
      BY <1>1
    <2> QED BY <1>1, <2>1, <2>2, SubSeqProperties
  <1>5. x = y
    <2> HIDE DEF x, y, u, v, m, k
    <2> QED BY <1>3, <1>4, SeqEqual
  <1> HIDE DEF x, y, u, v, m, k
  <1>6. Len(v) <= Len(u) /\ SubSeq(v, 1, Len(v)) = SubSeq(u, 1, Len(v))
    BY <1>1, <1>2, <1>5 DEF x, y
  <1> QED BY <1>6 DEF IsSuffix, IsPrefix, u, v

LEMMA ColaDeAgregar ==
    ASSUME NEW S, NEW a \in Seq(S), a # <<>>, NEW x \in S
    PROVE  Tail(Append(a, x)) = Append(Tail(a), x)
  <1> DEFINE u == Append(a, x)
             t == Tail(a)
             v == Tail(u)
             w == Append(t, x)
             n == Len(a)
  <1>1. /\ u \in Seq(S) /\ u # <<>> /\ Len(u) = n + 1 /\ u[n + 1] = x /\ \A i \in 1..n : u[i] = a[i]
        /\ t \in Seq(S) /\ Len(t) = n - 1 /\ \A i \in 1..Len(t) : t[i] = a[i + 1]
        /\ n \in Nat \ {0}
    BY AppendProperties, HeadTailProperties, EmptySeq
  <1> HIDE DEF u, t
  <1>2. v \in Seq(S) /\ Len(v) = Len(u) - 1 /\ \A i \in 1..Len(v) : v[i] = u[i + 1]
    BY <1>1, HeadTailProperties
  <1>3. w \in Seq(S) /\ Len(w) = Len(t) + 1 /\ w[Len(t) + 1] = x /\ \A i \in 1..Len(t) : w[i] = t[i]
    BY <1>1, AppendProperties
  <1> HIDE DEF v, w, n
  <1>4. \A i \in 1..n : v[i] = w[i]
    <2> SUFFICES ASSUME NEW i \in 1..n PROVE v[i] = w[i]
      OBVIOUS
    <2>1. v[i] = u[i + 1]
      BY <1>1, <1>2
    <2>2. CASE i = n
      BY <1>1, <1>3, <2>1, <2>2
    <2>3. CASE i \in 1..(n - 1)
      <3>1. i + 1 \in 1..n
        BY <1>1, <2>3
      <3> QED BY <1>1, <1>3, <2>1, <2>3, <3>1
    <2> QED BY <1>1, <2>2, <2>3
  <1>5. v = w
    BY <1>1, <1>2, <1>3, <1>4, SeqEqual
  <1> QED BY <1>5 DEF v, w, u, t

(* While no process has ended, the queue of the resource is what is left of*)
(* BLOCK, and of who is on the way there, when the orders given to         *)
(* blocked_ready are carried out: whom SIGNAL is about to take out of the  *)
(* queue, and whom WAIT is about to put there, included.                   *)

Yendo == sem["t_exec_blocked"] > 0 \/ bloqueo = "mueve"
Bloqueando == IF Yendo THEN Append(colas["BLOCK"], EnExec) ELSE colas["BLOCK"]
Esperando(r) == CASE hilo["dispatch"].paso = "saca"   -> Tail(bloqueados[r])
                  [] hilo["dispatch"].paso = "encola" -> Append(bloqueados[r], hilo["dispatch"].p)
                  [] OTHER -> bloqueados[r]
Soltando == {"libera"} \cup DeAsignar
Liberando == hilo["dispatch"].paso \in Soltando
Alineado(r) ==
    /\ hilo["dispatch"].paso = "saca" => bloqueados[r] # <<>>
    /\ Liberando \/ Sin(Bloqueando, Esperando(r), sem["t_blocked_ready"])
Orden == \A r \in Recursos : Usa(r) => Alineado(r)
EnOrden == SinConsola /\ UnRecurso /\ eliminados = {} => Orden

LEMMA ListasDelOrden ==
    ASSUME Tipos, Turno
    PROVE  /\ Bloqueando \in Seq(PCB) /\ colas["BLOCK"] \in Seq(PCB) /\ sem["t_blocked_ready"] \in Nat
           /\ Yendo => colas["EXEC"] # <<>> /\ EnExec \in PCB
           /\ \A r \in Recursos : bloqueados[r] \in Seq(PCB)
  <1>1. /\ colas["BLOCK"] \in Seq(PCB) /\ colas["EXEC"] \in Seq(PCB)
        /\ \A r \in Recursos : bloqueados[r] \in Seq(Procesos)
        /\ sem["t_blocked_ready"] \in Nat /\ Procesos \subseteq PCB
    BY DEF Tipos, TCola, TRec, TSem, Colas, Semaforos, PCB
  <1>2. Yendo => colas["EXEC"] # <<>> /\ EnExec \in PCB
    <2> SUFFICES ASSUME Yendo PROVE colas["EXEC"] # <<>> /\ EnExec \in PCB
      OBVIOUS
    <2>1. Len(colas["EXEC"]) = 1 \/ (Len(colas["EXEC"]) = Ido + 1 /\ Ido = 1)
      <3>1. CASE bloqueo = "mueve"
        <4>1. Ido = 1
          BY <3>1 DEF Ido
        <4>2. Nadie \/ Corre
          BY <3>1 DEF Turno, Atiende, Vuelve, SeBloquea, SeVa, UnoEnExec
        <4> QED BY <4>1, <4>2 DEF Nadie, Corre
      <3>2. CASE bloqueo # "mueve"
        <4>1. sem["t_exec_blocked"] > 0
          BY <3>2 DEF Yendo
        <4> QED BY <4>1 DEF Turno, Nadie, Corre, Atiende, Vuelve, SeBloquea, SeVa, Ordenes, UnoEnExec
      <3> QED BY <3>1, <3>2
    <2>2. colas["EXEC"] # <<>>
      <3> DEFINE e == colas["EXEC"]
      <3>1. Len(e) >= 1
        BY <2>1
      <3> HIDE DEF e
      <3>2. e # <<>>
        BY <3>1
      <3> QED BY <3>2 DEF e
    <2> QED BY <1>1, <2>2, HeadTailProperties DEF EnExec
  <1>3. Bloqueando \in Seq(PCB)
    BY <1>1, <1>2, AppendProperties DEF Bloqueando
  <1>4. \A r \in Recursos : bloqueados[r] \in Seq(PCB)
    BY <1>1, SeqMonotonic
  <1> QED BY <1>1, <1>2, <1>3, <1>4

LEMMA OrdenAlInicio == Init => EnOrden
  <1> SUFFICES ASSUME Init PROVE Orden
    BY DEF EnOrden
  <1>1. /\ hilo["dispatch"].paso = "libre" /\ colas["BLOCK"] = <<>> /\ sem["t_exec_blocked"] = 0
        /\ sem["t_blocked_ready"] = 0 /\ bloqueo = "espera" /\ \A r \in Recursos : bloqueados[r] = <<>>
    BY DEF Init, Colas, Semaforos, HilosFin, Ocioso
  <1>2. Sin(<<>>, <<>>, 0)
    <2>1. Len(<<>>) = 0
      BY EmptySeq
    <2> QED BY <2>1 DEF Sin
  <1>3. Bloqueando = <<>> /\ \A r \in Recursos : Esperando(r) = <<>>
    BY <1>1 DEF Bloqueando, Yendo, Esperando
  <1> QED BY <1>1, <1>2, <1>3 DEF Orden, Alineado

LEMMA OrdenQuieto ==
    ASSUME Orden, UNCHANGED <<programa, bloqueados>>, Bloqueando' = Bloqueando,
           sem'["t_blocked_ready"] = sem["t_blocked_ready"],
           \/ hilo'["dispatch"] = hilo["dispatch"]
           \/ /\ hilo["dispatch"].paso \notin {"saca", "encola"} \cup Soltando
              /\ hilo'["dispatch"].paso \notin {"saca", "encola"}
    PROVE  Orden'
  <1>1. \A r : Usa(r)' <=> Usa(r)
    BY DEF Usa
  <1>2. ASSUME NEW r \in Recursos, Usa(r) PROVE Alineado(r)'
    <2>1. Alineado(r)
      BY <1>2 DEF Orden
    <2>2. CASE hilo'["dispatch"] = hilo["dispatch"]
      <3>1. Esperando(r)' = Esperando(r)
        BY <2>2 DEF Esperando
      <3> QED BY <2>1, <2>2, <3>1 DEF Alineado, Liberando
    <2>3. CASE /\ hilo["dispatch"].paso \notin {"saca", "encola"} \cup Soltando
               /\ hilo'["dispatch"].paso \notin {"saca", "encola"}
      <3>1. Esperando(r)' = Esperando(r)
        BY <2>3 DEF Esperando
      <3> QED BY <2>1, <2>3, <3>1 DEF Alineado, Liberando
    <2> QED BY <2>2, <2>3
  <1> QED BY <1>1, <1>2 DEF Orden

(* The end of a process may leave the lists out of step.                   *)
LEMMA OrdenLiberando ==
    ASSUME Liberando' PROVE Orden'
  <1>1. "saca" \notin Soltando
    BY DEF Soltando, DeAsignar
  <1> QED BY <1>1 DEF Orden, Alineado, Liberando

(* What a transition does to those lists.                                  *)
BlockQuieto ==
    /\ Bloqueando' = Bloqueando /\ sem'["t_blocked_ready"] = sem["t_blocked_ready"]
    /\ colas["BLOCK"] # <<>> => colas'["BLOCK"] # <<>> /\ colas'["BLOCK"][1] = colas["BLOCK"][1]
BlockAvanza ==
    /\ sem["t_blocked_ready"] > 0 /\ sem'["t_blocked_ready"] = sem["t_blocked_ready"] - 1
    /\ colas["BLOCK"] # <<>> /\ colas'["BLOCK"] = Tail(colas["BLOCK"])
    /\ Bloqueando' = Tail(Bloqueando)

LEMMA ListasPlanificadores ==
    ASSUME Tipos, Turno, Planificadores \/ ManejaLee \/ ManejaUno
    PROVE  IF BlockedReady THEN BlockAvanza ELSE BlockQuieto
  <1>1. sem \in [Semaforos -> Nat] /\ colas \in [Colas -> Seq(PCB)]
    BY DEF Tipos, TSem, TCola
  <1>2. ASSUME LargoToma \/ ManejaLee \/ ManejaUno \/ ExecBlockedGuarda PROVE BlockQuieto
    <2>1. /\ UNCHANGED colas /\ sem'["t_exec_blocked"] = sem["t_exec_blocked"]
          /\ sem'["t_blocked_ready"] = sem["t_blocked_ready"]
          /\ UNCHANGED bloqueo \/ (bloqueo = "guarda" /\ bloqueo' = "espera")
      BY <1>1, <1>2 DEF LargoToma, ManejaLee, ManejaUno, ExecBlockedGuarda, vCola, Semaforos
    <2>2. Bloqueando' = Bloqueando
      BY <2>1 DEF Bloqueando, Yendo, EnExec
    <2> QED BY <2>1, <2>2 DEF BlockQuieto
  <1>3. ASSUME LargoMueve PROVE BlockQuieto
    <2>1. Mueve("NEW", "READY") /\ UNCHANGED <<sem, bloqueo>>
      BY <1>3 DEF LargoMueve
    <2>2. colas'["EXEC"] = colas["EXEC"] /\ colas'["BLOCK"] = colas["BLOCK"]
      BY <2>1, MueveListas DEF Colas
    <2>3. Bloqueando' = Bloqueando
      BY <2>1, <2>2 DEF Bloqueando, Yendo, EnExec
    <2> QED BY <2>1, <2>2, <2>3 DEF BlockQuieto
  <1>4. ASSUME ExecReady \/ ExitLargoPlazo PROVE BlockQuieto
    <2>1. /\ Mueve("EXEC", "READY") \/ Mueve("EXEC", "EXIT")
          /\ sem["t_exec_ready"] > 0 \/ sem["t_exit_largo"] > 0
          /\ sem'["t_exec_blocked"] = sem["t_exec_blocked"]
          /\ sem'["t_blocked_ready"] = sem["t_blocked_ready"] /\ UNCHANGED bloqueo
      BY <1>1, <1>4 DEF ExecReady, ExitLargoPlazo, Semaforos, vGrado
    <2>2. ~Yendo /\ ~Yendo'
      <3>1. sem["t_exec_blocked"] = 0 /\ bloqueo = "espera"
        BY <2>1 DEF Turno, Nadie, Corre, Atiende, Vuelve, SeBloquea, SeVa, Ordenes, UnoEnExec
      <3> QED BY <2>1, <3>1 DEF Yendo
    <2>3. colas'["BLOCK"] = colas["BLOCK"]
      BY <2>1, MueveListas DEF Colas
    <2>4. Bloqueando' = Bloqueando
      BY <2>2, <2>3 DEF Bloqueando
    <2> QED BY <2>1, <2>3, <2>4 DEF BlockQuieto
  <1>c. ASSUME CortoPlazo PROVE BlockQuieto
    <2> DEFINE e == colas["EXEC"]
               x == Head(colas["READY"])
    <2>1. /\ Mueve("READY", "EXEC") /\ sem'["t_exec_blocked"] = sem["t_exec_blocked"]
          /\ sem'["t_blocked_ready"] = sem["t_blocked_ready"] /\ UNCHANGED bloqueo
      BY <1>1, <1>c DEF CortoPlazo, Semaforos, vGrado
    <2>2. /\ colas'["BLOCK"] = colas["BLOCK"] /\ colas'["EXEC"] = Append(e, x)
          /\ x \in Procesos /\ e \in Seq(PCB) /\ Procesos \subseteq PCB
      BY <1>1, <2>1, MueveListas DEF Colas, PCB
    <2>3. Yendo => e # <<>>
      BY ListasDelOrden
    <2>4. Yendo' <=> Yendo
      BY <2>1 DEF Yendo
    <2> HIDE DEF e, x
    <2>5. e # <<>> => Head(Append(e, x)) = Head(e)
      BY <2>2, AppendProperties, HeadTailProperties
    <2>6. Yendo => EnExec' = EnExec
      BY <2>2, <2>3, <2>5 DEF EnExec, e
    <2>7. Bloqueando' = Bloqueando
      BY <2>2, <2>4, <2>6 DEF Bloqueando
    <2> QED BY <2>1, <2>2, <2>7 DEF BlockQuieto
  <1>l. ASSUME ExecBlockedLibera PROVE BlockQuieto
    <2>1. /\ UNCHANGED colas /\ sem["t_exec_blocked"] > 0 /\ bloqueo' = "mueve"
          /\ sem'["t_blocked_ready"] = sem["t_blocked_ready"]
      BY <1>1, <1>l DEF ExecBlockedLibera, vCola, Semaforos
    <2>2. Bloqueando' = Bloqueando
      BY <2>1 DEF Bloqueando, Yendo, EnExec
    <2> QED BY <2>1, <2>2 DEF BlockQuieto
  <1>5. ASSUME ExecBlockedMueve PROVE BlockQuieto
    <2>1. Mueve("EXEC", "BLOCK") /\ bloqueo = "mueve" /\ bloqueo' = "guarda" /\ UNCHANGED sem
      BY <1>5 DEF ExecBlockedMueve
    <2>2. sem["t_exec_blocked"] = 0
      BY <2>1 DEF Turno, Nadie, Corre, Atiende, Vuelve, SeBloquea, SeVa, Ordenes, UnoEnExec
    <2>3. colas'["BLOCK"] = Append(colas["BLOCK"], Head(colas["EXEC"]))
      BY <2>1, MueveListas DEF Colas
    <2>4. Bloqueando' = Bloqueando
      BY <2>1, <2>2, <2>3 DEF Bloqueando, Yendo, EnExec
    <2>5. colas["BLOCK"] # <<>> => colas'["BLOCK"] # <<>> /\ colas'["BLOCK"][1] = colas["BLOCK"][1]
      <3> DEFINE b == colas["BLOCK"]
                 x == Head(colas["EXEC"])
      <3>1. b \in Seq(PCB) /\ x \in PCB
        <4>1. x \in Procesos
          BY <2>1, MueveListas DEF Colas
        <4> QED BY <1>1, <4>1 DEF Colas, PCB
      <3>2. colas'["BLOCK"] = Append(b, x)
        BY <2>3
      <3> HIDE DEF b, x
      <3>3. b # <<>> => 1 \in 1..Len(b)
        <4>1. b # <<>> => Len(b) \in Nat \ {0}
          BY <3>1, EmptySeq
        <4> QED BY <4>1
      <3>4. b # <<>> => Append(b, x) # <<>> /\ Append(b, x)[1] = b[1]
        BY <3>1, <3>3, AppendProperties
      <3> QED BY <3>2, <3>4 DEF b
    <2> QED BY <2>1, <2>4, <2>5 DEF BlockQuieto
  <1>6. ASSUME BlockedReady PROVE BlockAvanza
    <2>1. /\ Mueve("BLOCK", "READY") /\ sem["t_blocked_ready"] > 0
          /\ sem'["t_blocked_ready"] = sem["t_blocked_ready"] - 1
          /\ sem'["t_exec_blocked"] = sem["t_exec_blocked"] /\ UNCHANGED bloqueo
      BY <1>1, <1>6 DEF BlockedReady, Semaforos, vGrado
    <2>2. colas["BLOCK"] # <<>> /\ colas'["BLOCK"] = Tail(colas["BLOCK"]) /\ colas'["EXEC"] = colas["EXEC"]
      BY <2>1, MueveListas DEF Colas
    <2>3. Bloqueando' = Tail(Bloqueando)
      <3>1. Yendo => Tail(Append(colas["BLOCK"], EnExec)) = Append(Tail(colas["BLOCK"]), EnExec)
        BY <2>2, ListasDelOrden, ColaDeAgregar
      <3>2. EnExec' = EnExec /\ (Yendo' <=> Yendo)
        BY <2>1, <2>2 DEF EnExec, Yendo
      <3> QED BY <2>1, <2>2, <3>1, <3>2 DEF Bloqueando
    <2> QED BY <1>6, <2>1, <2>2, <2>3 DEF BlockAvanza
  <1>7. ~BlockedReady => BlockQuieto
    BY <1>2, <1>3, <1>4, <1>5, <1>c, <1>l DEF Planificadores, ExecBlocked
  <1> QED BY <1>6, <1>7

LEMMA EsperandoTipo ==
    ASSUME Tipos, NEW r \in Recursos, hilo["dispatch"].paso = "saca" => bloqueados[r] # <<>>
    PROVE  Esperando(r) \in Seq(PCB)
  <1>1. /\ bloqueados[r] \in Seq(Procesos) /\ Procesos \subseteq PCB
        /\ hilo["dispatch"].paso = "encola" => hilo["dispatch"].p \in PCB
    BY DEF Tipos, TRec, TFin, HilosFin, HiloBueno, ConPedido, PCB
  <1>2. bloqueados[r] \in Seq(PCB)
    BY <1>1, SeqMonotonic
  <1> QED BY <1>1, <1>2, HeadTailProperties, AppendProperties DEF Esperando

LEMMA OrdenPlanificadores ==
    ASSUME Tipos, Turno, Orden, Planificadores \/ ManejaLee \/ ManejaUno
    PROVE  Orden'
  <1>1. UNCHANGED <<hilo, programa, bloqueados>>
    BY DEF Planificadores, LargoToma, LargoMueve, CortoPlazo, ExecReady, ExecBlocked, ExecBlockedLibera,
           ExecBlockedMueve, ExecBlockedGuarda, BlockedReady, ExitLargoPlazo, ManejaLee, ManejaUno, vFin, vCpu,
           vRecurso
  <1>2. CASE BlockQuieto
    BY <1>1, <1>2, OrdenQuieto DEF BlockQuieto
  <1>3. CASE BlockAvanza
    <2>1. \A r : (Usa(r)' <=> Usa(r)) /\ Esperando(r)' = Esperando(r)
      BY <1>1 DEF Usa, Esperando
    <2>2. ASSUME NEW r \in Recursos, Usa(r) PROVE Alineado(r)'
      <3>1. Alineado(r)
        BY <2>2 DEF Orden
      <3>2. CASE Liberando
        BY <1>1, <3>1, <3>2 DEF Alineado, Liberando
      <3>3. CASE ~Liberando
        <4>1. Sin(Bloqueando, Esperando(r), sem["t_blocked_ready"]) /\ Esperando(r) \in Seq(PCB)
          BY <3>1, <3>3, EsperandoTipo DEF Alineado
        <4>2. sem["t_blocked_ready"] > 0
          BY <1>3 DEF BlockAvanza
        <4>3. Sin(Tail(Bloqueando), Esperando(r), sem["t_blocked_ready"] - 1)
          BY <4>1, <4>2, ListasDelOrden, SinAvanza
        <4> QED BY <1>1, <1>3, <2>1, <3>1, <4>3 DEF Alineado, BlockAvanza
      <3> QED BY <3>2, <3>3
    <2> QED BY <2>1, <2>2 DEF Orden
  <1> QED BY <1>2, <1>3, ListasPlanificadores

LEMMA OrdenOperador ==
    ASSUME Tipos, Turno, Orden, Operador, resta' = resta PROVE Orden'
  <1>1. resta \in Nat /\ sem \in [Semaforos -> Nat] /\ colas \in [Colas -> Seq(PCB)]
    BY DEF Tipos, TFin, TSem, TCola
  <1>2. ASSUME UNCHANGED <<hilo, programa, bloqueados, bloqueo>>, NEW s \in {"en_new", "manejo_grado"}, Post(s),
               colas'["EXEC"] = colas["EXEC"], colas'["BLOCK"] = colas["BLOCK"]
        PROVE  Orden'
    <2>1. /\ sem'["t_exec_blocked"] = sem["t_exec_blocked"]
          /\ sem'["t_blocked_ready"] = sem["t_blocked_ready"]
      BY <1>2, PostDa DEF Semaforos
    <2>2. Bloqueando' = Bloqueando
      BY <1>2, <2>1 DEF Bloqueando, Yendo, EnExec
    <2> QED BY <1>2, <2>1, <2>2, OrdenQuieto
  <1>3. ASSUME NEW p \in Procesos, IniciarProceso(p) PROVE Orden'
    <2>1. /\ UNCHANGED <<hilo, programa, bloqueados, bloqueo>> /\ Post("en_new")
          /\ colas'["EXEC"] = colas["EXEC"] /\ colas'["BLOCK"] = colas["BLOCK"]
      BY <1>1, <1>3 DEF IniciarProceso, vCpu, vFin, vRecurso, vGrado, Colas
    <2> QED BY <1>2, <2>1
  <1>4. ASSUME NEW v \in NuevosGrados, Multiprogramacion(v) PROVE Orden'
    <2>1. UNCHANGED <<hilo, programa, bloqueados, bloqueo, colas>> /\ Post("manejo_grado")
      BY <1>4 DEF Multiprogramacion, vCpu, vFin, vRecurso, vCola
    <2> QED BY <1>2, <2>1
  <1>5. ASSUME NEW p \in Procesos, Finalizar(p) PROVE FALSE
    <2>1. resta' = resta - 1
      BY <1>5 DEF Finalizar
    <2> QED BY <1>1, <2>1
  <1> QED BY <1>3, <1>4, <1>5 DEF Operador

LEMMA OrdenCpu ==
    ASSUME Tipos, Turno, Orden, falla' = "ninguna", Cpu PROVE Orden'
  <1> SUFFICES ASSUME NEW p \in Procesos,
                      \/ Calcula(p) \/ FinDeQuantum(p) \/ Termina(p) \/ Desincronizado(p) \/ Pisado(p)
                      \/ \E i \in ToSet(programa[p]) : Recibe(p, i)
               PROVE  Orden'
    BY DEF Cpu
  <1>1. /\ sem \in [Semaforos -> Nat] /\ hilo \in [HilosFin -> Hilo] /\ "dispatch" \in HilosFin
        /\ "libre" \notin {"saca", "encola"} \cup Soltando
    BY DEF Tipos, TSem, TFin, HilosFin, Soltando, DeAsignar
  <1>2. /\ hilo["dispatch"].paso = "libre" /\ UNCHANGED <<colas, programa, bloqueados, bloqueo>>
    BY DEF Calcula, FinDeQuantum, Termina, Desincronizado, Pisado, Recibe, Sale, Ejecuta, En, vCola, vRecurso, vGrado
  <1>4. ASSUME UNCHANGED sem \/ Post("t_exec_ready"),
               UNCHANGED hilo \/ \E x : Pone("dispatch", x) /\ x.paso \notin {"saca", "encola"}
        PROVE  Orden'
    <2>1. /\ sem'["t_exec_blocked"] = sem["t_exec_blocked"]
          /\ sem'["t_blocked_ready"] = sem["t_blocked_ready"]
      BY <1>4, PostDa DEF Semaforos
    <2>2. Bloqueando' = Bloqueando
      BY <1>2, <2>1 DEF Bloqueando, Yendo, EnExec
    <2>3. hilo'["dispatch"] = hilo["dispatch"] \/ hilo'["dispatch"].paso \notin {"saca", "encola"}
      BY <1>1, <1>4 DEF Pone
    <2> QED BY <1>1, <1>2, <2>1, <2>2, <2>3, OrdenQuieto
  <1>5. CASE Calcula(p) \/ FinDeQuantum(p)
    BY <1>4, <1>5 DEF Calcula, FinDeQuantum, vFin
  <1>7. CASE Termina(p)
    <2> DEFINE x == [Ocioso EXCEPT !.paso = "pcb_exec"]
    <2>1. UNCHANGED sem /\ Pone("dispatch", x)
      BY <1>7 DEF Termina
    <2>2. x.paso = "pcb_exec"
      BY DEF Ocioso
    <2> HIDE DEF x
    <2> QED BY <1>4, <2>1, <2>2
  <1>8. CASE Desincronizado(p) \/ Pisado(p)
    BY <1>8 DEF Desincronizado, Pisado, Falla
  <1>9. ASSUME NEW i \in ToSet(programa[p]), Recibe(p, i) PROVE Orden'
    <2> DEFINE x == [Ocioso EXCEPT !.paso = IF i.op = "WAIT" THEN "nombre_wait" ELSE "nombre_signal", !.p = p]
    <2>1. UNCHANGED sem /\ Pone("dispatch", x)
      BY <1>9 DEF Recibe
    <2>2. x.paso \in {"nombre_wait", "nombre_signal"}
      BY DEF Ocioso
    <2> HIDE DEF x
    <2> QED BY <1>4, <2>1, <2>2
  <1> QED BY <1>5, <1>7, <1>8, <1>9

LEMMA OrdenDispatch ==
    ASSUME Tipos, Turno, Turno', Usados, UnRecurso, Orden, falla' = "ninguna", eliminados' = {}, Dispatch \/ Fin("dispatch")
    PROVE  Orden'
  <1> DEFINE d == hilo["dispatch"]
  <1>1. /\ sem \in [Semaforos -> Nat] /\ hilo \in [HilosFin -> Hilo] /\ d \in Hilo /\ HiloBueno(d)
        /\ "dispatch" \in HilosFin /\ Ocioso.paso = "libre"
        /\ bloqueados \in [Recursos -> Seq(Procesos)]
        /\ \A s \in {"nombre_wait", "nombre_signal", "wait", "signal", "busca", "toma", "repone", "exec"} :
              s \notin {"saca", "encola"} \cup Soltando
        /\ \A s \in {"libera", "asigna", "asigna_busca", "asigna_toma"} : s \in Soltando
        /\ "encola" \notin Soltando /\ "saca" \notin Soltando
    BY DEF Tipos, TSem, TFin, TRec, HilosFin, Ocioso, Soltando, DeAsignar
  <1>b. UNCHANGED bloqueo
    BY DEF Dispatch, Obtiene, RecursoInvalido, Wait, Signal, WaitBusca, WaitToma, WaitEncola, SignalSaca,
           SignalRepone, PcbExec, Fin, BuscaExec, BuscaColas, SacaCola, Agrega, AsignaNombre, AsignaBusca,
           AsignaToma, Elimina, Devuelve, vGrado
  <1>2. ASSUME NEW x, Pone("dispatch", x) PROVE hilo'["dispatch"] = x
    BY <1>1, <1>2 DEF Pone
  <1>3. ASSUME NEW r \in Recursos, Usa(r), UNCHANGED programa, Alineado(r)'
        PROVE  Orden'
    <2>1. \A s : Usa(s)' <=> Usa(s)
      BY <1>3 DEF Usa
    <2>2. \A s \in Recursos : Usa(s) => s = r
      BY <1>3, UnoUsado
    <2> QED BY <1>3, <2>1, <2>2 DEF Orden
  <1>4. ASSUME d.paso \in ConPedido
        PROVE  d.r \in Recursos /\ Usa(d.r) /\ Alineado(d.r) /\ d.p \in Procesos
    BY <1>1, <1>4 DEF HiloBueno, Orden, Usados, Tratan
  <1>5. ASSUME UNCHANGED <<colas, programa, bloqueados>>,
               sem'["t_exec_blocked"] = sem["t_exec_blocked"],
               sem'["t_blocked_ready"] = sem["t_blocked_ready"],
               d.paso \notin {"saca", "encola"} \cup Soltando,
               hilo'["dispatch"].paso \notin {"saca", "encola"}
        PROVE  Orden'
    <2>1. Bloqueando' = Bloqueando
      BY <1>5, <1>b DEF Bloqueando, Yendo, EnExec
    <2> QED BY <1>5, <2>1, OrdenQuieto
  <1>6. CASE WaitBusca
    <2>1. /\ d.paso = "busca" /\ UNCHANGED <<colas, programa, bloqueados>>
          /\ \/ UNCHANGED sem /\ Pone("dispatch", [d EXCEPT !.paso = "toma", !.ya = YaTiene(d.p)])
             \/ Post("t_exec_blocked") /\ Pone("dispatch", [d EXCEPT !.paso = "encola"])
      BY <1>6 DEF WaitBusca, Falla, Sigue, vCola, vCpu, vRecurso
    <2>2. Usa(d.r) /\ d.r \in Recursos /\ Alineado(d.r) /\ d.p \in Procesos
      BY <1>4, <2>1 DEF ConPedido
    <2>3. CASE UNCHANGED sem /\ Pone("dispatch", [d EXCEPT !.paso = "toma", !.ya = YaTiene(d.p)])
      <3>1. [d EXCEPT !.paso = "toma", !.ya = YaTiene(d.p)].paso = "toma"
        BY <1>1 DEF Hilo
      <3>2. hilo'["dispatch"].paso = "toma"
        BY <1>2, <2>3, <3>1
      <3> QED BY <1>1, <1>5, <2>1, <2>3, <3>2
    <2>4. CASE Post("t_exec_blocked") /\ Pone("dispatch", [d EXCEPT !.paso = "encola"])
      <3> DEFINE x == [d EXCEPT !.paso = "encola"]
      <3>1. x.paso = "encola" /\ x.p = d.p
        BY <1>1 DEF Hilo
      <3> HIDE DEF x
      <3>2. hilo'["dispatch"] = x
        BY <1>2, <2>4 DEF x
      <3>3. d.p = EnExec /\ sem["t_exec_blocked"] = 0 /\ bloqueo = "espera"
        BY <2>1 DEF Turno, Nadie, Corre, Atiende, Vuelve, SeBloquea, SeVa, UnoEnExec, Quieto, Sirve, Ordenes
      <3>4. sem'["t_exec_blocked"] = 1 /\ sem'["t_blocked_ready"] = sem["t_blocked_ready"]
        BY <2>4, <3>3, PostDa DEF Semaforos
      <3>5. Bloqueando = colas["BLOCK"] /\ Bloqueando' = Append(colas["BLOCK"], d.p)
        BY <1>b, <2>1, <3>3, <3>4 DEF Bloqueando, Yendo, EnExec
      <3>6. Esperando(d.r) = bloqueados[d.r]
        BY <2>1 DEF Esperando
      <3>7. Sin(colas["BLOCK"], bloqueados[d.r], sem["t_blocked_ready"])
        BY <1>1, <2>1, <2>2, <3>5, <3>6 DEF Alineado, Liberando
      <3>8. Sin(Append(colas["BLOCK"], d.p), Append(bloqueados[d.r], d.p), sem["t_blocked_ready"])
        BY <2>2, <3>7, ListasDelOrden, SinAgrega DEF PCB
      <3>9. bloqueados'[d.r] = bloqueados[d.r]
        BY <2>1
      <3>10. PICK r \in Recursos : r = d.r
        BY <2>2
      <3>11. Alineado(r)'
        <4>1. Esperando(r)' = Append(bloqueados[d.r], d.p)
          BY <3>1, <3>2, <3>9, <3>10 DEF Esperando
        <4> QED BY <3>1, <3>2, <3>4, <3>5, <3>8, <4>1 DEF Alineado
      <3> QED BY <1>3, <2>1, <2>2, <3>10, <3>11
    <2> QED BY <2>1, <2>3, <2>4
  <1>7. CASE WaitToma \/ SignalRepone
    <2>1. /\ d.paso \in {"toma", "repone"} /\ Pone("dispatch", Ocioso) /\ UNCHANGED <<colas, sem, programa, bloqueados>>
      BY <1>7 DEF WaitToma, SignalRepone, vCola
    <2>2. hilo'["dispatch"].paso = "libre"
      BY <1>1, <1>2, <2>1
    <2> QED BY <1>1, <1>5, <2>1, <2>2
  <1>q. CASE Obtiene \/ RecursoInvalido \/ Wait
    <2>1. d.paso \in {"nombre_wait", "nombre_signal", "wait"} /\ UNCHANGED <<colas, sem, programa, bloqueados>>
      BY <1>q DEF Obtiene, RecursoInvalido, Wait, vCola, vCpu, vRecurso
    <2>2. hilo'["dispatch"].paso \in {"wait", "signal", "exec", "busca"}
      <3> DEFINE x == [d EXCEPT !.paso = IF @ = "nombre_wait" THEN "wait" ELSE "signal",
                                !.r = nombre_recurso_recibido]
                 y == [d EXCEPT !.paso = "exec"]
                 z == [d EXCEPT !.paso = "busca", !.hay = instancias[d.r] > 0]
      <3>1. x.paso \in {"wait", "signal"} /\ y.paso = "exec" /\ z.paso = "busca"
        BY <1>1 DEF Hilo
      <3>2. Pone("dispatch", x) \/ Pone("dispatch", y) \/ Pone("dispatch", z)
        BY <1>q DEF Obtiene, RecursoInvalido, Wait, Sigue
      <3> HIDE DEF x, y, z
      <3> QED BY <1>2, <3>1, <3>2
    <2> QED BY <1>1, <1>5, <2>1, <2>2
  <1>s. CASE Signal
    <2> DEFINE x == [d EXCEPT !.paso = "saca"]
               y == [d EXCEPT !.paso = "repone"]
    <2>1. /\ d.paso = "signal" /\ UNCHANGED <<colas, programa, bloqueados>>
          /\ \/ Post("t_blocked_ready") /\ Pone("dispatch", x) /\ contBloqueados[d.r] > 0
             \/ UNCHANGED sem /\ Pone("dispatch", y)
      BY <1>s DEF Signal, Sigue, vCola, vCpu, vRecurso
    <2>2. x.paso = "saca" /\ x.p = d.p /\ x.r = d.r /\ y.paso = "repone" /\ y.r = d.r
      BY <1>1 DEF Hilo
    <2> HIDE DEF x, y
    <2>3. Usa(d.r) /\ d.r \in Recursos /\ Alineado(d.r)
      BY <1>4, <2>1 DEF ConPedido
    <2>4. CASE UNCHANGED sem /\ Pone("dispatch", y)
      <3>1. hilo'["dispatch"] = y
        BY <1>2, <2>4
      <3> QED BY <1>1, <1>5, <2>1, <2>2, <2>4, <3>1
    <2>5. CASE Post("t_blocked_ready") /\ Pone("dispatch", x) /\ contBloqueados[d.r] > 0
      <3>0. PICK r \in Recursos : r = d.r
        BY <2>3
      <3>1. hilo'["dispatch"] = x
        BY <1>2, <2>5
      <3>2. /\ sem'["t_blocked_ready"] = sem["t_blocked_ready"] + 1
            /\ sem'["t_exec_blocked"] = sem["t_exec_blocked"]
        BY <2>5, PostDa DEF Semaforos
      <3>3. Bloqueando' = Bloqueando
        BY <1>b, <2>1, <3>2 DEF Bloqueando, Yendo, EnExec
      <3>4. bloqueados[r] # <<>>
        <4>1. contBloqueados[r] = Len(bloqueados[r]) /\ contBloqueados[r] \in Nat
          BY DEF Tipos, TRec
        <4>2. Len(<<>>) = 0
          BY EmptySeq
        <4> QED BY <2>5, <3>0, <4>1, <4>2
      <3>5. Sin(Bloqueando, bloqueados[r], sem["t_blocked_ready"])
        <4>1. ~Liberando /\ Esperando(r) = bloqueados[r]
          BY <1>1, <2>1 DEF Liberando, Esperando
        <4> QED BY <2>3, <3>0, <4>1 DEF Alineado
      <3>6. Sin(Bloqueando, Tail(bloqueados[r]), sem["t_blocked_ready"] + 1)
        BY <3>4, <3>5, ListasDelOrden, SinRetrasa
      <3>7. Alineado(r)'
        <4>1. Esperando(r)' = Tail(bloqueados[r])
          BY <2>1, <2>2, <3>1 DEF Esperando
        <4> QED BY <2>1, <3>2, <3>3, <3>4, <3>6, <4>1 DEF Alineado
      <3> QED BY <1>3, <2>1, <2>3, <3>0, <3>7
    <2> QED BY <2>1, <2>4, <2>5
  <1>8. CASE WaitEncola \/ SignalSaca
    <2> DEFINE l == IF d.paso = "saca" THEN Tail(bloqueados[d.r]) ELSE Append(bloqueados[d.r], d.p)
    <2>1. /\ d.paso \in {"encola", "saca"} /\ UNCHANGED <<colas, sem, programa>>
          /\ bloqueados' = [bloqueados EXCEPT ![d.r] = l]
          /\ Pone("dispatch", Ocioso) \/ Pone("dispatch", [d EXCEPT !.paso = "repone"])
      BY <1>8 DEF WaitEncola, SignalSaca, Sigue, vCola, vCpu
    <2>2. Usa(d.r) /\ d.r \in Recursos /\ Alineado(d.r)
      BY <1>4, <2>1 DEF ConPedido
    <2>3. Esperando(d.r) = l
      BY <2>1 DEF Esperando
    <2>4. hilo'["dispatch"].paso \in {"libre", "repone"}
      <3>1. [d EXCEPT !.paso = "repone"].paso = "repone"
        BY <1>1 DEF Hilo
      <3> QED BY <1>1, <1>2, <2>1, <3>1
    <2> HIDE DEF l
    <2>5. bloqueados'[d.r] = l
      BY <1>1, <2>1, <2>2
    <2>6. Bloqueando' = Bloqueando
      BY <1>b, <2>1 DEF Bloqueando, Yendo, EnExec
    <2>7. Sin(Bloqueando, l, sem["t_blocked_ready"])
      BY <1>1, <2>1, <2>2, <2>3 DEF Alineado, Liberando
    <2>8. PICK r \in Recursos : r = d.r
      BY <2>2
    <2>9. Alineado(r)'
      <3>1. Esperando(r)' = l
        BY <2>4, <2>5, <2>8 DEF Esperando
      <3> QED BY <2>1, <2>4, <2>6, <2>7, <3>1 DEF Alineado
    <2> QED BY <1>3, <2>1, <2>2, <2>8, <2>9
  <1>9. CASE \/ PcbExec \/ AsignaNombre("dispatch") \/ AsignaBusca("dispatch") \/ AsignaToma("dispatch")
             \/ \E r \in Recursos : Devuelve("dispatch", r)
    <2>1. Liberando'
      <3>1. CASE PcbExec
        <4> DEFINE x == [Ocioso EXCEPT !.paso = "libera", !.p = pid_a_finalizar, !.rs = Tiene(pid_a_finalizar)]
        <4>1. Pone("dispatch", x)
          BY <3>1 DEF PcbExec, Falla
        <4>2. x.paso = "libera"
          BY DEF Ocioso
        <4> HIDE DEF x
        <4> QED BY <1>1, <1>2, <4>1, <4>2 DEF Liberando
      <3>2. CASE AsignaNombre("dispatch") \/ AsignaBusca("dispatch") \/ AsignaToma("dispatch")
        <4> DEFINE x == [d EXCEPT !.paso = "asigna_busca"]
                   y == [d EXCEPT !.paso = "asigna_toma", !.ya = YaTiene(d.q)]
                   z == [d EXCEPT !.paso = "libera"]
        <4>1. Pone("dispatch", x) \/ Pone("dispatch", y) \/ Pone("dispatch", z)
          BY <3>2 DEF AsignaNombre, AsignaBusca, AsignaToma, Sigue
        <4>2. x.paso = "asigna_busca" /\ y.paso = "asigna_toma" /\ z.paso = "libera"
          BY <1>1 DEF Hilo
        <4> HIDE DEF x, y, z
        <4> QED BY <1>1, <1>2, <4>1, <4>2 DEF Liberando
      <3>3. ASSUME NEW r \in Recursos, Devuelve("dispatch", r) PROVE Liberando'
        <4>1. d.paso = "libera" /\ (UNCHANGED hilo \/ \E q : Pone("dispatch", [d EXCEPT !.paso = "asigna", !.r = r, !.q = q]))
          BY <3>3 DEF Devuelve, En
        <4>2. \A q : [d EXCEPT !.paso = "asigna", !.r = r, !.q = q].paso = "asigna"
          BY <1>1 DEF Hilo
        <4> QED BY <1>1, <1>2, <4>1, <4>2 DEF Liberando
      <3> QED BY <1>9, <3>1, <3>2, <3>3
    <2> QED BY <2>1, OrdenLiberando
  <1>10. CASE BuscaExec("dispatch")
    <2>1. d.paso = "exec" /\ UNCHANGED <<colas, programa, bloqueados>>
      BY <1>10 DEF BuscaExec, En, vCola, vRecurso
    <2>2. \/ Pone("dispatch", Ocioso) /\ Post("t_exit_largo")
          \/ Pone("dispatch", [d EXCEPT !.paso = "colas"]) /\ UNCHANGED sem
      BY <1>10 DEF BuscaExec, Sigue
    <2>3. /\ sem'["t_exec_blocked"] = sem["t_exec_blocked"]
          /\ sem'["t_blocked_ready"] = sem["t_blocked_ready"]
      BY <2>2, PostDa DEF Semaforos
    <2>4. [d EXCEPT !.paso = "colas"].paso = "colas"
      BY <1>1 DEF Hilo
    <2>5. hilo'["dispatch"].paso \in {"libre", "colas"}
      BY <1>1, <1>2, <2>2, <2>4
    <2> QED BY <1>1, <1>5, <2>1, <2>3, <2>5
  <1>11. CASE Elimina("dispatch")
    <2>1. d.p \in eliminados'
      BY <1>11 DEF Elimina
    <2> QED BY <2>1
  <1>12. ~(BuscaColas("dispatch") \/ SacaCola("dispatch") \/ Agrega("dispatch"))
    BY DEF Turno, BuscaColas, SacaCola, Agrega, En
  <1> QED BY <1>6, <1>7, <1>8, <1>9, <1>10, <1>11, <1>12, <1>q, <1>s DEF Dispatch, Fin

LEMMA EliminadosQuedan ==
    ASSUME Next PROVE eliminados \subseteq eliminados'
  BY DEF Next, Operador, IniciarProceso, Finalizar, Multiprogramacion, Planificadores, LargoToma,
         LargoMueve, CortoPlazo, ExecReady, ExecBlocked, ExecBlockedLibera, ExecBlockedMueve, ExecBlockedGuarda,
         BlockedReady, ExitLargoPlazo, Cpu, Calcula, FinDeQuantum, Termina, Desincronizado, Pisado, Recibe,
         Dispatch, Obtiene, RecursoInvalido, Wait, Signal, WaitBusca, WaitToma, WaitEncola, SignalSaca,
         SignalRepone, PcbExec, Fin, BuscaExec, BuscaColas, SacaCola, Agrega, Devuelve, AsignaNombre, AsignaBusca,
         AsignaToma, Elimina, ManejaLee, ManejaUno, vFin

LEMMA OrdenSiempre ==
    ASSUME Tipos, Tipos', Turnos, Turnos', Usados, EnOrden, [Next]_vars PROVE EnOrden'
  <1>1. CASE UNCHANGED vars
    <2>1. UNCHANGED <<colas, sem, bloqueados, bloqueo, programa, hilo, eliminados, resta, falla>>
      BY <1>1 DEF vars, vCola, vCpu, vFin, vGrado, vRecurso
    <2>2. UnRecurso' <=> UnRecurso
      BY <2>1 DEF UnRecurso
    <2>3. Bloqueando' = Bloqueando
      BY <2>1 DEF Bloqueando, Yendo, EnExec
    <2>4. Orden => Orden'
      BY <2>1, <2>3, OrdenQuieto
    <2> QED BY <2>1, <2>2, <2>4 DEF EnOrden, SinConsola
  <1>2. CASE Next
    <2> SUFFICES ASSUME SinConsola', UnRecurso', eliminados' = {} PROVE Orden'
      BY DEF EnOrden
    <2>1. SinConsola /\ resta' = resta /\ falla' = "ninguna" /\ programa' = programa
      BY <1>2, SinConsolaAntes, Comandos DEF Turnos
    <2>2. UnRecurso
      BY <2>1 DEF UnRecurso
    <2>3. eliminados = {}
      BY <1>2, EliminadosQuedan
    <2>4. Orden /\ Turno /\ Turno'
      BY <2>1, <2>2, <2>3 DEF EnOrden, Turnos
    <2>5. ~Fin("consola")
      BY <2>4, PasoDeFin DEF Turno, DeFin, DeAsignar, HilosFin
    <2> QED BY <1>2, <2>1, <2>2, <2>4, <2>5, OrdenPlanificadores, OrdenOperador, OrdenCpu, OrdenDispatch DEF Next
  <1> QED BY <1>1, <1>2

(* While programs use one resource and nobody has ended, blocked_ready,    *)
(* which wakes the head of BLOCK, wakes whom SIGNAL took out of the queue  *)
(* of the resource: between instructions that queue is the end of BLOCK,   *)
(* and the orders given and not carried out are for what comes before it.  *)
THEOREM ElOrdenSeConserva == Spec => []OrdenDeDespertar
  <1>1. Spec => [](Tipos /\ Turnos /\ Usados /\ EnOrden)
    <2>1. Init => Tipos /\ Turnos /\ Usados /\ EnOrden
      BY TiposAlInicio, TurnoAlInicio, UsadosAlInicio, OrdenAlInicio
    <2>2. Tipos /\ Turnos /\ Usados /\ EnOrden /\ [Next]_vars => Tipos' /\ Turnos' /\ Usados' /\ EnOrden'
      BY TiposSiempre, TurnosSiempre, UsadosSiempre, OrdenSiempre
    <2> QED BY <2>1, <2>2, PTL DEF Spec
  <1>2. Tipos /\ Turnos /\ Usados /\ EnOrden => OrdenDeDespertar
    <2> SUFFICES ASSUME Tipos, Turnos, Usados, EnOrden, NEW r \in Recursos, UnRecurso, SinConsola, eliminados = {},
                        sem["t_exec_blocked"] = 0, bloqueo # "mueve", En("dispatch", "libre")
                 PROVE  IsSuffix(bloqueados[r], colas["BLOCK"])
      BY DEF OrdenDeDespertar
    <2>1. Orden /\ Turno /\ hilo["dispatch"].paso = "libre"
      BY DEF EnOrden, Turnos, En
    <2>2. Bloqueando = colas["BLOCK"] /\ Esperando(r) = bloqueados[r]
      BY <2>1 DEF Bloqueando, Yendo, Esperando
    <2>3. CASE Usa(r)
      <3>1. Sin(colas["BLOCK"], bloqueados[r], sem["t_blocked_ready"])
        BY <2>1, <2>2, <2>3 DEF Orden, Alineado, Liberando, Soltando, DeAsignar
      <3> QED BY <2>1, <3>1, ListasDelOrden, SinSufijo
    <2>4. CASE ~Usa(r)
      <3>1. bloqueados[r] = <<>>
        BY <2>4 DEF Usados
      <3>2. colas["BLOCK"] \in Seq(PCB) /\ Len(colas["BLOCK"]) \in Nat
        BY <2>1, ListasDelOrden, LenProperties
      <3>3. Sin(colas["BLOCK"], <<>>, Len(colas["BLOCK"])) /\ <<>> \in Seq(PCB)
        <4>1. Len(<<>>) = 0 /\ <<>> \in Seq(PCB)
          BY EmptySeq
        <4> QED BY <3>2, <4>1 DEF Sin
      <3> QED BY <3>1, <3>2, <3>3, SinSufijo
    <2> QED BY <2>3, <2>4
  <1> QED BY <1>1, <1>2, PTL

-----------------------------------------------------------------------------
(* Custody: while the console ends nobody, a PCB is in one place of one    *)
(* queue.                                                                  *)

Custodia ==
    \A c \in Colas, e \in Colas :
        \A i \in 1..Len(colas[c]), j \in 1..Len(colas[e]) : colas[c][i] = colas[e][j] => c = e /\ i = j
Custodias == SinConsola => Custodia

LEMMA CustodiaAlInicio == Init => Custodias
  <1> SUFFICES ASSUME Init PROVE Custodia
    BY DEF Custodias
  <1>1. \A c \in Colas : Len(colas[c]) = 0
    BY DEF Init
  <1> QED BY <1>1 DEF Custodia

LEMMA CustodiaMueve ==
    ASSUME Tipos, Custodia, NEW a \in Colas \ {"EXIT"}, NEW b \in Colas, a # b, Mueve(a, b)
    PROVE  Custodia'
  <1> DEFINE x == Head(colas[a])
             t == Tail(colas[a])
             u == Append(colas[b], x)
             n == Len(colas[b])
             En0(c, i) == IF c = b /\ i = n + 1 THEN a ELSE c
             Pos(c, i) == IF c = a THEN i + 1 ELSE IF c = b /\ i = n + 1 THEN 1 ELSE i
  <1>1. /\ colas[a] # <<>> /\ colas[a] \in Seq(PCB) /\ colas[b] \in Seq(PCB)
        /\ colas'[a] = t /\ colas'[b] = u /\ \A c \in Colas \ {a, b} : colas'[c] = colas[c]
    BY MueveListas DEF Tipos, TCola
  <1>2. /\ x = colas[a][1] /\ x \in PCB /\ Len(t) = Len(colas[a]) - 1 /\ Len(colas[a]) \in Nat \ {0}
        /\ \A i \in 1..Len(t) : t[i] = colas[a][i + 1]
    BY <1>1, HeadTailProperties, EmptySeq
  <1> HIDE DEF x, t
  <1>3. /\ n \in Nat /\ Len(u) = n + 1 /\ u[n + 1] = x /\ \A i \in 1..n : u[i] = colas[b][i]
    BY <1>1, <1>2, AppendProperties
  <1> HIDE DEF u
  <1>4. ASSUME NEW c \in Colas, NEW i \in 1..Len(colas'[c])
        PROVE  /\ En0(c, i) \in Colas /\ Pos(c, i) \in 1..Len(colas[En0(c, i)])
               /\ colas'[c][i] = colas[En0(c, i)][Pos(c, i)] /\ i \in Nat
    <2>1. CASE c = a
      <3>1. i \in 1..Len(t) /\ colas'[c][i] = t[i]
        BY <1>1, <2>1
      <3>2. i + 1 \in 1..Len(colas[a]) /\ i \in Nat
        BY <1>2, <3>1
      <3> QED BY <1>2, <2>1, <3>1, <3>2
    <2>2. CASE c = b
      <3>1. i \in 1..(n + 1) /\ colas'[c][i] = u[i]
        BY <1>1, <1>3, <2>2
      <3>2. CASE i = n + 1
        <4>1. En0(c, i) = a /\ Pos(c, i) = 1
          BY <2>2, <3>2
        <4>2. 1 \in 1..Len(colas[a]) /\ i \in Nat
          BY <1>2, <1>3, <3>2
        <4> QED BY <1>2, <1>3, <3>1, <3>2, <4>1, <4>2
      <3>3. CASE i \in 1..n
        <4>1. i # n + 1 /\ i \in Nat
          BY <1>3, <3>3
        <4> QED BY <1>3, <2>2, <3>1, <3>3, <4>1
      <3> QED BY <1>3, <3>1, <3>2, <3>3
    <2>3. CASE c \notin {a, b}
      BY <1>1, <2>3
    <2> QED BY <2>1, <2>2, <2>3
  <1>5. ASSUME NEW c \in Colas, NEW e \in Colas, NEW i \in Nat \ {0}, NEW j \in Nat \ {0},
               En0(c, i) = En0(e, j), Pos(c, i) = Pos(e, j)
        PROVE  c = e /\ i = j
    BY <1>3, <1>5
  <1> HIDE DEF En0, Pos, n
  <1>6. ASSUME NEW c \in Colas, NEW e \in Colas, NEW i \in 1..Len(colas'[c]), NEW j \in 1..Len(colas'[e]),
               colas'[c][i] = colas'[e][j]
        PROVE  c = e /\ i = j
    <2>1. /\ En0(c, i) \in Colas /\ Pos(c, i) \in 1..Len(colas[En0(c, i)]) /\ i \in Nat
          /\ En0(e, j) \in Colas /\ Pos(e, j) \in 1..Len(colas[En0(e, j)]) /\ j \in Nat
          /\ colas[En0(c, i)][Pos(c, i)] = colas[En0(e, j)][Pos(e, j)]
      BY <1>4, <1>6
    <2>2. En0(c, i) = En0(e, j) /\ Pos(c, i) = Pos(e, j)
      BY <2>1 DEF Custodia
    <2>3. i # 0 /\ j # 0
      OBVIOUS
    <2> QED BY <1>5, <2>1, <2>2, <2>3
  <1> QED BY <1>6 DEF Custodia

LEMMA CustodiaInicia ==
    ASSUME Tipos, Custodia, NEW p \in Procesos, IniciarProceso(p) PROVE Custodia'
  <1> DEFINE u == Append(colas["NEW"], p)
             n == Len(colas["NEW"])
  <1>1. /\ \A c \in Colas : colas[c] \in Seq(PCB)
        /\ colas'["NEW"] = u /\ \A c \in Colas \ {"NEW"} : colas'[c] = colas[c]
        /\ "NEW" \in Colas /\ p \in PCB
    BY DEF IniciarProceso, Tipos, TCola, Colas, PCB
  <1>2. \A c \in Colas : \A i \in 1..Len(colas[c]) : colas[c][i] # p
    <2>1. \A c \in Colas : p \notin ToSet(colas[c])
      BY DEF IniciarProceso
    <2>2. \A c \in Colas : ~Esta(p, colas[c])
      BY <1>1, <2>1, EstaEnConjunto
    <2> QED BY <2>2 DEF Esta
  <1>3. n \in Nat /\ Len(u) = n + 1 /\ u[n + 1] = p /\ \A i \in 1..n : u[i] = colas["NEW"][i]
    BY <1>1, AppendProperties
  <1> HIDE DEF u, n
  <1>4. ASSUME NEW c \in Colas, NEW i \in 1..Len(colas'[c])
        PROVE  \/ c = "NEW" /\ i = n + 1 /\ colas'[c][i] = p
               \/ i \in 1..Len(colas[c]) /\ colas'[c][i] = colas[c][i]
    <2>1. CASE c = "NEW"
      <3>1. i \in 1..(n + 1) /\ colas'[c][i] = u[i]
        BY <1>1, <1>3, <2>1
      <3>2. i = n + 1 \/ i \in 1..n
        BY <1>3, <3>1
      <3> QED BY <1>3, <2>1, <3>1, <3>2 DEF n
    <2>2. CASE c # "NEW"
      BY <1>1, <2>2
    <2> QED BY <2>1, <2>2
  <1>5. ASSUME NEW c \in Colas, NEW e \in Colas, NEW i \in 1..Len(colas'[c]), NEW j \in 1..Len(colas'[e]),
               colas'[c][i] = colas'[e][j]
        PROVE  c = e /\ i = j
    <2>1. CASE c = "NEW" /\ i = n + 1 /\ colas'[c][i] = p
      BY <1>2, <1>4, <1>5, <2>1
    <2>2. CASE i \in 1..Len(colas[c]) /\ colas'[c][i] = colas[c][i]
      <3>1. colas'[e][j] # p
        BY <1>2, <1>5, <2>2
      <3>2. j \in 1..Len(colas[e]) /\ colas'[e][j] = colas[e][j]
        BY <1>4, <3>1
      <3>3. colas[c][i] = colas[e][j]
        BY <1>5, <2>2, <3>2
      <3>4. i \in 1..Len(colas[c]) /\ j \in 1..Len(colas[e])
        BY <2>2, <3>2
      <3> QED BY <3>3, <3>4 DEF Custodia
    <2> QED BY <1>4, <2>1, <2>2
  <1> QED BY <1>5 DEF Custodia

LEMMA CustodiaSiempre ==
    ASSUME Tipos, Turnos, Custodias, [Next]_vars PROVE Custodias'
  <1>1. CASE UNCHANGED vars
    <2>1. UNCHANGED <<colas, resta, falla>>
      BY <1>1 DEF vars, vCola, vFin
    <2> QED BY <2>1 DEF Custodias, Custodia, SinConsola
  <1>2. CASE Next
    <2> SUFFICES ASSUME SinConsola' PROVE Custodia'
      BY DEF Custodias
    <2>1. SinConsola /\ Custodia /\ Turno
      BY <1>2, SinConsolaAntes DEF Turnos, Custodias
    <2>2. \A h \in HilosFin : ~(BuscaColas(h) \/ SacaCola(h) \/ Agrega(h))
      BY <2>1 DEF Turno, BuscaColas, SacaCola, Agrega, En, HilosFin
    <2>3. \/ UNCHANGED colas
          \/ \E p \in Procesos : IniciarProceso(p)
          \/ \E a \in Colas \ {"EXIT"}, b \in Colas : a # b /\ Mueve(a, b)
      <3>1. CASE Planificadores
        BY <3>1 DEF Planificadores, LargoToma, LargoMueve, CortoPlazo, ExecReady, ExecBlocked,
               ExecBlockedLibera, ExecBlockedMueve, ExecBlockedGuarda, BlockedReady, ExitLargoPlazo, vCola, Colas
      <3>2. CASE Operador \/ ManejaLee \/ ManejaUno
        BY <3>2 DEF Operador, Finalizar, Multiprogramacion, ManejaLee, ManejaUno, vCola
      <3>3. CASE Cpu
        BY <3>3 DEF Cpu, Calcula, FinDeQuantum, Termina, Desincronizado, Pisado, Recibe, vCola
      <3>4. CASE Dispatch
        BY <3>4 DEF Dispatch, Obtiene, RecursoInvalido, Wait, Signal, WaitBusca, WaitToma, WaitEncola, SignalSaca,
               SignalRepone, PcbExec, vCola
      <3>5. CASE Fin("dispatch") \/ Fin("consola")
        BY <2>2, <3>5 DEF Fin, BuscaExec, AsignaNombre, AsignaBusca, AsignaToma, Elimina, Devuelve, vCola, HilosFin
      <3> QED BY <1>2, <3>1, <3>2, <3>3, <3>4, <3>5 DEF Next
    <2> QED BY <2>1, <2>3, CustodiaMueve, CustodiaInicia DEF Custodia
  <1> QED BY <1>1, <1>2

-----------------------------------------------------------------------------
(* The exclusion.  What liberar_recursos leaves of a queue when the process*)
(* it is for has no entry but, at most, the first.                         *)

LEMMA SoloLaPrimera ==
    ASSUME NEW P, NEW l \in Seq(P), NEW p, NEW j \in {0, 1}, j <= Len(l), j = 1 => l[1] = p,
           \A i \in 1..Len(l) : i > j => l[i] # p
    PROVE  Sin(l, SinPropias(l, p), j)
  <1>1. PICK e : Vueltas(e, l, p) /\ SinPropias(l, p) = e[Len(l)].l
    BY PorVueltas
  <1> DEFINE n == Len(l)
             Bien(k) == /\ e[k].l \in Seq(P) /\ Len(e[k].l) = k - j
                        /\ \A i \in 1..(k - j) : e[k].l[i] = l[i + j]
             Malos == {k \in j..n : ~Bien(k)}
  <1>2. n \in Nat /\ j \in Nat /\ \A i \in 1..n : l[i] \in P
    OBVIOUS
  <1>3. e[0] = Vacia /\ \A k \in 1..n : e[k] = Vuelta(e[k - 1], l[k], p)
    BY <1>1 DEF Vueltas
  <1>4. Bien(j)
    <2>1. e[j].l = <<>>
      <3>1. CASE j = 0
        BY <1>3, <3>1 DEF Vacia
      <3>2. CASE j = 1
        <4>1. e[1] = Vuelta(e[0], l[1], p) /\ l[1] = p
          BY <1>2, <1>3, <3>2
        <4> QED BY <1>3, <3>2, <4>1 DEF Vuelta, Vacia
      <3> QED BY <3>1, <3>2
    <2>2. <<>> \in Seq(P) /\ Len(<<>>) = 0 /\ j - j = 0
      BY <1>2, EmptySeq
    <2> QED BY <2>1, <2>2
  <1>5. ASSUME NEW k \in (j + 1)..n, Bien(k - 1) PROVE Bien(k)
    <2> DEFINE s == e[k - 1].l
               m == (k - 1) - j
    <2>1. k \in 1..n /\ k > j /\ m \in Nat /\ k - j = m + 1
      BY <1>2
    <2>2. e[k].l = Append(s, l[k])
      <3>1. e[k] = Vuelta(e[k - 1], l[k], p) /\ l[k] # p
        BY <1>3, <2>1
      <3> QED BY <3>1 DEF Vuelta
    <2>3. s \in Seq(P) /\ Len(s) = m /\ \A i \in 1..m : s[i] = l[i + j]
      BY <1>5
    <2> HIDE DEF s
    <2>4. /\ Append(s, l[k]) \in Seq(P) /\ Len(Append(s, l[k])) = m + 1
          /\ Append(s, l[k])[m + 1] = l[k] /\ \A i \in 1..m : Append(s, l[k])[i] = s[i]
      BY <1>2, <2>1, <2>3, AppendProperties
    <2>5. (m + 1) + j = k
      BY <1>2
    <2> HIDE DEF m
    <2>6. \A i \in 1..(m + 1) : i = m + 1 \/ i \in 1..m
      BY <2>1
    <2>7. \A i \in 1..(m + 1) : Append(s, l[k])[i] = l[i + j]
      BY <2>3, <2>4, <2>5, <2>6
    <2> QED BY <2>1, <2>2, <2>4, <2>7
  <1> HIDE DEF Bien
  <1>6. Malos = {}
    <2>1. SUFFICES ASSUME Malos # {} PROVE FALSE
      OBVIOUS
    <2>2. Malos \subseteq Nat
      BY <1>2
    <2>3. PICK m \in Malos : \A k \in Malos : m <= k
      BY <2>1, <2>2, MinNat
    <2>4. m # j /\ m \in j..n
      BY <1>4
    <2>5. m \in (j + 1)..n /\ m - 1 \in j..n /\ ~(m <= m - 1)
      BY <1>2, <2>4
    <2>6. Bien(m - 1)
      BY <2>3, <2>5
    <2> QED BY <1>5, <2>3, <2>5, <2>6
  <1>7. Bien(n)
    BY <1>2, <1>6
  <1> DEFINE q == e[n].l
  <1>8. Len(q) = n - j /\ \A i \in 1..(n - j) : q[i] = l[i + j]
    BY <1>7 DEF Bien
  <1>9. SinPropias(l, p) = q
    BY <1>1
  <1> HIDE DEF q
  <1> QED BY <1>2, <1>8, <1>9 DEF Sin

(* Two lists that are both l without its first n entries.                  *)
LEMMA SinIguales ==
    ASSUME NEW P, NEW l \in Seq(P), NEW a \in Seq(P), NEW b \in Seq(P), NEW n \in Nat, Sin(l, a, n), Sin(l, b, n)
    PROVE  Sin(a, b, 0)
  <1>1. Len(a) \in Nat /\ Len(b) \in Nat /\ Len(a) = Len(b)
    BY DEF Sin
  <1>2. \A i \in 1..Len(b) : i + 0 = i /\ a[i] = b[i]
    BY <1>1 DEF Sin
  <1> QED BY <1>1, <1>2 DEF Sin

(* Nobody having signalled a resource with one instance, one process holds *)
(* it at most.  The queue of the resource and BLOCK are in step, or one of *)
(* the two is about to lose, or has lost, an entry the other still has:    *)
(* that of the process that was handed the instance.  Who is past its WAIT *)
(* and is not being ended holds the instance.                              *)

Unico(r) ==
    /\ instancias[r] <= 1
    /\ \A p \in Procesos : asignados[p][r] > 0 => asignados[p][r] = 1 /\ instancias[r] = 0
    /\ \A p \in Procesos, q \in Procesos : asignados[p][r] > 0 /\ asignados[q][r] > 0 => p = q
Primera(l, r) == l # <<>> /\ l[1] \in Procesos /\ asignados[l[1]][r] > 0
Fila(r) ==
    \/ /\ Sin(Esperando(r), Bloqueando, 0)
       /\ \/ sem["t_blocked_ready"] = 0
          \/ sem["t_blocked_ready"] = 1 /\ Primera(colas["BLOCK"], r)
    \/ /\ Sin(Esperando(r), Bloqueando, 1)
       /\ sem["t_blocked_ready"] = 0 /\ Primera(Esperando(r), r)
       /\ hilo["dispatch"].paso \notin DeAsignar
Entrega(r) ==
    hilo["dispatch"].paso \in DeAsignar =>
        /\ hilo["dispatch"].r = r /\ instancias[r] = 1 /\ sem["t_blocked_ready"] = 0
        /\ bloqueados[r] # <<>> /\ bloqueados[r][1] = hilo["dispatch"].q
Fuera == ToSet(colas["EXIT"]) \cup eliminados \cup (IF Liberando THEN {hilo["dispatch"].p} ELSE {})
Adentro(r) == \A p \in Procesos : p \in Fuera \/ (Dentro(p, r) > 0 => asignados[p][r] > 0)
NoSenala ==
    /\ hilo["dispatch"].paso \notin {"signal", "saca", "repone"}
    /\ hilo["dispatch"].paso = "nombre_signal" => nombre_recurso_recibido \notin Recursos
Exclusivo(r) == Unico(r) /\ Fila(r) /\ Entrega(r) /\ Adentro(r) /\ NoSenala
SinSenal(r) ==
    Usa(r) /\ Instancias[r] = 1 /\ \A p \in Procesos : Hechas(p, "SIGNAL", r) = 0
Exclusiones == SinConsola /\ UnRecurso => \A r \in Recursos : SinSenal(r) => Exclusivo(r)

(* p is between its WAIT r and what the WAIT gives.                        *)
Pide(p, r) == EnWait(p) /\ programa[p][PC[p]].r = r

LEMMA DentroEntero ==
    ASSUME Tipos, NEW p \in Procesos, NEW r
    PROVE  /\ Dentro(p, r) = Hechas(p, "WAIT", r) - Hechas(p, "SIGNAL", r) - (IF Pide(p, r) THEN 1 ELSE 0)
           /\ Dentro(p, r) \in Int
  <1>1. Dentro(p, r) = Hechas(p, "WAIT", r) - Hechas(p, "SIGNAL", r) - (IF Pide(p, r) THEN 1 ELSE 0)
    BY DEF Dentro, Uno, Pide
  <1>2. Hechas(p, "WAIT", r) \in Nat /\ Hechas(p, "SIGNAL", r) \in Nat
    BY HechasFinitas
  <1> QED BY <1>1, <1>2

LEMMA AdentroSigue ==
    ASSUME Tipos, Tipos', NEW r \in Recursos, Adentro(r), UNCHANGED <<programa, PC>>,
           \A p \in Procesos : \/ p \in Fuera' \/ asignados'[p][r] > 0
                               \/ /\ p \notin Fuera /\ (Pide(p, r) => Pide(p, r)')
                                  /\ asignados'[p][r] = asignados[p][r]
    PROVE  Adentro(r)'
  <1> SUFFICES ASSUME NEW p \in Procesos, p \notin Fuera, Pide(p, r) => Pide(p, r)',
                      asignados'[p][r] = asignados[p][r], Dentro(p, r)' > 0
               PROVE  asignados'[p][r] > 0
    BY DEF Adentro
  <1> DEFINE w == Hechas(p, "WAIT", r)
             s == Hechas(p, "SIGNAL", r)
  <1>1. w' = w /\ s' = s
    BY DEF Hechas
  <1>2. w \in Nat /\ s \in Nat
    BY HechasFinitas
  <1>3. Dentro(p, r) = w - s - (IF Pide(p, r) THEN 1 ELSE 0)
    BY DentroEntero
  <1>4. Dentro(p, r)' = w' - s' - (IF Pide(p, r)' THEN 1 ELSE 0)
    BY DEF Dentro, Uno, Pide
  <1> HIDE DEF w, s
  <1>5. Dentro(p, r) > 0
    BY <1>1, <1>2, <1>3, <1>4
  <1> QED BY <1>5 DEF Adentro

LEMMA FilaSigue ==
    ASSUME NEW r \in Recursos, Fila(r), Esperando(r)' = Esperando(r), Bloqueando' = Bloqueando,
           sem'["t_blocked_ready"] = sem["t_blocked_ready"],
           \A p \in Procesos : asignados'[p][r] = asignados[p][r],
           hilo'["dispatch"].paso \in DeAsignar => hilo["dispatch"].paso \in DeAsignar,
           colas["BLOCK"] # <<>> => colas'["BLOCK"] # <<>> /\ colas'["BLOCK"][1] = colas["BLOCK"][1]
    PROVE  Fila(r)'
  BY DEF Fila, Primera

LEMMA ExclusionAlInicio == Init => Exclusiones
  <1> SUFFICES ASSUME Init, NEW r \in Recursos, SinSenal(r) PROVE Exclusivo(r)
    BY DEF Exclusiones
  <1>1. /\ hilo["dispatch"].paso = "libre" /\ colas["BLOCK"] = <<>> /\ sem["t_exec_blocked"] = 0
        /\ bloqueo = "espera"
        /\ sem["t_blocked_ready"] = 0 /\ bloqueados[r] = <<>> /\ instancias[r] = 1
        /\ \A p \in Procesos : asignados[p][r] = 0
    BY DEF Init, Colas, Semaforos, HilosFin, Ocioso, SinSenal
  <1>2. Sin(<<>>, <<>>, 0)
    <2>1. Len(<<>>) = 0
      BY EmptySeq
    <2> QED BY <2>1 DEF Sin
  <1>3. Bloqueando = <<>> /\ Esperando(r) = <<>>
    BY <1>1 DEF Bloqueando, Yendo, Esperando
  <1>4. Adentro(r)
    <2>1. \A p \in Procesos : Hechas(p, "WAIT", r) = 0 /\ Hechas(p, "SIGNAL", r) = 0
      <3>1. \A p \in Procesos : PC[p] = 0
        BY DEF Init
      <3>2. \A p \in Procesos : \A o : {i \in 1..PC[p] : programa[p][i] = [op |-> o, r |-> r]} = {}
        BY <3>1
      <3> QED BY <3>2, FS_EmptySet DEF Hechas
    <2>2. \A p \in Procesos : Dentro(p, r) = 0 - 0 - (IF Pide(p, r) THEN 1 ELSE 0)
      BY <2>1 DEF Dentro, Uno, Pide
    <2> QED BY <2>2 DEF Adentro
  <1> QED BY <1>1, <1>2, <1>3, <1>4 DEF Exclusivo, Unico, Fila, Entrega, DeAsignar, NoSenala

EnMarcha(p) == Esta(p, colas["EXEC"]) \/ Esta(p, colas["BLOCK"])
Pidiendo(p) == PC[p] > 0 /\ programa[p][PC[p]].op = "WAIT" /\ EnMarcha(p) /\ cpu # p

PorPosiciones ==
    /\ \A p \in Procesos : \A r : Pide(p, r) <=> Pidiendo(p) /\ programa[p][PC[p]].r = r
    /\ \A p : p \in Fuera <=> \/ Esta(p, colas["EXIT"]) \/ p \in eliminados
                              \/ Liberando /\ p = hilo["dispatch"].p

LEMMA PideEs == Tipos => PorPosiciones
  <1> SUFFICES ASSUME Tipos PROVE PorPosiciones
    OBVIOUS
  <1>1. \A c \in Colas : \A p : p \in ToSet(colas[c]) <=> Esta(p, colas[c])
    BY EstaEnConjunto DEF Tipos, TCola
  <1>2. "EXEC" \in Colas /\ "BLOCK" \in Colas /\ "EXIT" \in Colas
    BY DEF Colas
  <1>3. \A p \in Procesos : \A r : Pide(p, r) <=> Pidiendo(p) /\ programa[p][PC[p]].r = r
    BY <1>1, <1>2 DEF Pide, EnWait, Pidiendo, EnMarcha
  <1>4. \A p : p \in Fuera <=> \/ Esta(p, colas["EXIT"]) \/ p \in eliminados
                               \/ Liberando /\ p = hilo["dispatch"].p
    BY <1>1, <1>2 DEF Fuera
  <1> QED BY <1>3, <1>4 DEF PorPosiciones

LEMMA PideEsDespues == Tipos' => PorPosiciones'
  BY PideEs, PTL

(* A step that leaves the programs and who is being ended as they are.     *)
LEMMA AdentroMueve ==
    ASSUME Tipos, Tipos', NEW r \in Recursos, Adentro(r),
           UNCHANGED <<programa, PC, eliminados, hilo, asignados>>,
           \A p : Esta(p, colas["EXIT"]) => Esta(p, colas'["EXIT"]),
           \A p \in Procesos : Pidiendo(p) => \/ EnMarcha(p)' /\ cpu' # p
                                              \/ asignados[p][r] > 0 \/ Esta(p, colas'["EXIT"])
    PROVE  Adentro(r)'
  <1>1. PorPosiciones /\ PorPosiciones'
    BY PideEs, PideEsDespues
  <1>2. \A p \in Procesos : p \in Fuera => p \in Fuera'
    BY <1>1 DEF PorPosiciones, Liberando
  <1>3. \A p \in Procesos : Pidiendo(p) => Pidiendo(p)' \/ asignados'[p][r] > 0 \/ p \in Fuera'
    BY <1>1 DEF PorPosiciones, Pidiendo
  <1>4. \A p \in Procesos : Pide(p, r) => Pide(p, r)' \/ asignados'[p][r] > 0 \/ p \in Fuera'
    BY <1>1, <1>3 DEF PorPosiciones
  <1> QED BY <1>2, <1>4, AdentroSigue

LEMMA AdentroPlanificadores ==
    ASSUME Tipos, Tipos', Turno, Custodia, NEW r \in Recursos, Adentro(r), Fila(r),
           Planificadores \/ ManejaLee \/ ManejaUno
    PROVE  Adentro(r)'
  <1>1. UNCHANGED <<hilo, programa, PC, eliminados, asignados>>
    BY DEF Planificadores, LargoToma, LargoMueve, CortoPlazo, ExecReady, ExecBlocked, ExecBlockedLibera,
           ExecBlockedMueve, ExecBlockedGuarda, BlockedReady, ExitLargoPlazo, ManejaLee, ManejaUno, vFin, vCpu,
           vRecurso
  <1>2. /\ \A c \in Colas : colas[c] \in Seq(PCB)
        /\ "EXEC" \in Colas /\ "BLOCK" \in Colas /\ "EXIT" \in Colas /\ "READY" \in Colas /\ "NEW" \in Colas
        /\ Procesos \subseteq PCB
    BY DEF Tipos, TCola, Colas, PCB
  <1>3. UnoEnExec => \A p : Esta(p, colas["EXEC"]) => p = EnExec
    <2> SUFFICES ASSUME UnoEnExec, NEW p, Esta(p, colas["EXEC"]) PROVE p = EnExec
      OBVIOUS
    <2>1. Len(colas["EXEC"]) = 1 /\ colas["EXEC"] \in Seq(PCB)
      BY <1>2 DEF UnoEnExec
    <2>2. p = colas["EXEC"][1]
      BY <2>1 DEF Esta
    <2> QED BY <2>1, <2>2 DEF EnExec
  <1>4. CASE LargoToma \/ ManejaLee \/ ManejaUno \/ ExecBlockedLibera \/ ExecBlockedGuarda
    <2>1. UNCHANGED <<colas, cpu>>
      BY <1>4 DEF LargoToma, ManejaLee, ManejaUno, ExecBlockedLibera, ExecBlockedGuarda, vCola, vCpu
    <2> QED BY <1>1, <2>1, AdentroMueve DEF Pidiendo, EnMarcha
  <1>5. CASE LargoMueve
    <2>1. Mueve("NEW", "READY") /\ UNCHANGED cpu
      BY <1>5 DEF LargoMueve, vCpu
    <2>2. \A c \in {"EXEC", "BLOCK", "EXIT"} : colas'[c] = colas[c]
      BY <2>1, MueveListas DEF Colas
    <2> QED BY <1>1, <2>1, <2>2, AdentroMueve DEF Pidiendo, EnMarcha
  <1>6. CASE CortoPlazo
    <2> DEFINE x == Head(colas["READY"])
    <2>1. Mueve("READY", "EXEC") /\ sem["exec_libre"] > 0 /\ cpu' = x
      BY <1>6 DEF CortoPlazo
    <2>2. Nadie
      BY <2>1 DEF Turno, Corre, Atiende, Vuelve, SeBloquea, SeVa, UnoEnExec
    <2>3. /\ colas["READY"] # <<>> /\ colas'["BLOCK"] = colas["BLOCK"] /\ colas'["EXIT"] = colas["EXIT"]
          /\ colas'["EXEC"] = Append(colas["EXEC"], x) /\ x \in Procesos
      BY <2>1, MueveListas DEF Colas
    <2>4. x = colas["READY"][1] /\ 1 \in 1..Len(colas["READY"])
      <3>1. colas["READY"] \in Seq(PCB)
        BY <1>2
      <3>2. Len(colas["READY"]) \in Nat \ {0}
        BY <2>3, <3>1, EmptySeq
      <3> QED BY <3>1, <3>2
    <2>5. \A p : Esta(p, colas["EXEC"]) => Esta(p, colas'["EXEC"])
      BY <1>2, <2>3, AlAgregar
    <2>7. ASSUME NEW p \in Procesos, EnMarcha(p) PROVE EnMarcha(p)' /\ p # x
      <3>1. PICK c \in {"EXEC", "BLOCK"} : Esta(p, colas[c])
        BY <2>7 DEF EnMarcha
      <3>2. PICK j \in 1..Len(colas[c]) : colas[c][j] = p
        BY <3>1 DEF Esta
      <3>3. p # x
        BY <1>2, <2>4, <3>2 DEF Custodia
      <3> QED BY <2>3, <2>5, <2>7, <3>3 DEF EnMarcha
    <2> HIDE DEF x
    <2>6. \A p \in Procesos : Pidiendo(p) => EnMarcha(p)' /\ cpu' # p
      BY <2>1, <2>7 DEF Pidiendo
    <2> QED BY <1>1, <2>3, <2>6, AdentroMueve
  <1>7. CASE ExecReady
    <2>1. Mueve("EXEC", "READY") /\ sem["t_exec_ready"] > 0 /\ cpu' = cpu
      BY <1>7 DEF ExecReady, vCpu
    <2>2. Vuelve
      BY <2>1 DEF Turno, Nadie, Corre, Atiende, SeBloquea, SeVa, Ordenes
    <2>3. colas'["BLOCK"] = colas["BLOCK"] /\ colas'["EXIT"] = colas["EXIT"]
      BY <2>1, MueveListas DEF Colas
    <2>4. \A p \in Procesos : Pidiendo(p) => EnMarcha(p)' /\ cpu' # p
      BY <1>3, <2>1, <2>2, <2>3 DEF Pidiendo, EnMarcha, Vuelve
    <2> QED BY <1>1, <2>3, <2>4, AdentroMueve
  <1>m. CASE ExecBlockedMueve
    <2>1. Mueve("EXEC", "BLOCK") /\ cpu' = cpu
      BY <1>m DEF ExecBlockedMueve, vCpu
    <2> DEFINE e == colas["EXEC"]
               b == colas["BLOCK"]
               x == Head(e)
    <2>2. /\ e # <<>> /\ e \in Seq(PCB) /\ b \in Seq(PCB) /\ x \in PCB
          /\ colas'["EXEC"] = Tail(e) /\ colas'["BLOCK"] = Append(b, x) /\ colas'["EXIT"] = colas["EXIT"]
      BY <1>2, <2>1, MueveListas DEF Colas
    <2> HIDE DEF e, b
    <2>3. \A p : Esta(p, e) => Esta(p, Tail(e)) \/ p = x
      BY <2>2, AlSacar
    <2>4. \A p : Esta(p, b) \/ p = x => Esta(p, Append(b, x))
      BY <2>2, AlAgregar
    <2> HIDE DEF x
    <2>5. \A p : EnMarcha(p) => EnMarcha(p)'
      BY <2>2, <2>3, <2>4 DEF EnMarcha, e, b
    <2>6. \A p \in Procesos : Pidiendo(p) => EnMarcha(p)' /\ cpu' # p
      BY <2>1, <2>5 DEF Pidiendo
    <2> QED BY <1>1, <2>2, <2>6, AdentroMueve
  <1>8. CASE ExitLargoPlazo
    <2>1. PICK b \in {"BLOCK", "EXIT"} :
             Mueve("EXEC", b) /\ (sem["t_exec_blocked"] > 0 \/ sem["t_exit_largo"] > 0) /\ cpu' = cpu
      BY <1>8 DEF ExitLargoPlazo, vCpu
    <2>2. UnoEnExec
      BY <2>1 DEF Turno, Nadie, Corre, Atiende, Vuelve, SeBloquea, SeVa, Ordenes
    <2>3. /\ EnExec \in Procesos /\ colas'[b] = Append(colas[b], EnExec)
          /\ \A c \in {"BLOCK", "EXIT"} : c # b => colas'[c] = colas[c]
      BY <2>1, MueveListas DEF Colas, EnExec
    <2>4. \A p : Esta(p, colas'[b]) <=> Esta(p, colas[b]) \/ p = EnExec
      BY <1>2, <2>3, AlAgregar
    <2>5. \A p : Esta(p, colas["EXIT"]) => Esta(p, colas'["EXIT"])
      BY <2>3, <2>4
    <2>6. \A p \in Procesos : EnMarcha(p) => Esta(p, colas'["BLOCK"]) \/ Esta(p, colas'["EXIT"])
      <3>1. \A p \in Procesos : EnMarcha(p) => p = EnExec \/ Esta(p, colas["BLOCK"])
        BY <1>3, <2>2 DEF EnMarcha
      <3> QED BY <2>3, <2>4, <3>1
    <2>7. \A p \in Procesos : Pidiendo(p) => (EnMarcha(p)' /\ cpu' # p) \/ Esta(p, colas'["EXIT"])
      BY <2>1, <2>6 DEF Pidiendo, EnMarcha
    <2> QED BY <1>1, <2>5, <2>7, AdentroMueve
  <1>9. CASE BlockedReady
    <2>1. Mueve("BLOCK", "READY") /\ sem["t_blocked_ready"] > 0 /\ cpu' = cpu
      BY <1>9 DEF BlockedReady, vCpu
    <2>2. /\ colas["BLOCK"] # <<>> /\ colas'["BLOCK"] = Tail(colas["BLOCK"])
          /\ colas'["EXEC"] = colas["EXEC"] /\ colas'["EXIT"] = colas["EXIT"]
      BY <2>1, MueveListas DEF Colas
    <2>3. Primera(colas["BLOCK"], r)
      BY <2>1 DEF Fila
    <2>4. Head(colas["BLOCK"]) = colas["BLOCK"][1]
      BY <1>2, <2>2
    <2>5. \A p : Esta(p, colas["BLOCK"]) => Esta(p, colas'["BLOCK"]) \/ p = Head(colas["BLOCK"])
      BY <1>2, <2>2, AlSacar
    <2>6. \A p : Esta(p, colas["BLOCK"]) => Esta(p, colas'["BLOCK"]) \/ asignados[p][r] > 0
      BY <2>3, <2>4, <2>5 DEF Primera
    <2>7. \A p \in Procesos : Pidiendo(p) => (EnMarcha(p)' /\ cpu' # p) \/ asignados[p][r] > 0
      BY <2>1, <2>2, <2>6 DEF Pidiendo, EnMarcha
    <2> QED BY <1>1, <2>2, <2>7, AdentroMueve
  <1> QED BY <1>4, <1>5, <1>6, <1>7, <1>m, <1>8, <1>9 DEF Planificadores, ExecBlocked

LEMMA ExclusionPlanificadores ==
    ASSUME Tipos, Tipos', Turno, Custodia, NEW r \in Recursos, Exclusivo(r),
           Planificadores \/ ManejaLee \/ ManejaUno
    PROVE  Exclusivo(r)'
  <1>1. UNCHANGED <<hilo, programa, bloqueados, instancias, asignados, nombre_recurso_recibido>>
    BY DEF Planificadores, LargoToma, LargoMueve, CortoPlazo, ExecReady, ExecBlocked, ExecBlockedLibera,
           ExecBlockedMueve, ExecBlockedGuarda, BlockedReady, ExitLargoPlazo, ManejaLee, ManejaUno, vFin, vCpu,
           vRecurso
  <1>2. Unico(r)' /\ Adentro(r)' /\ NoSenala'
    BY <1>1, AdentroPlanificadores DEF Exclusivo, Unico, NoSenala
  <1>3. Esperando(r)' = Esperando(r)
    BY <1>1 DEF Esperando
  <1>4. CASE BlockQuieto
    <2>1. Fila(r)'
      BY <1>1, <1>3, <1>4, FilaSigue DEF BlockQuieto, Exclusivo
    <2>2. Entrega(r)'
      BY <1>1, <1>4 DEF BlockQuieto, Exclusivo, Entrega
    <2> QED BY <1>2, <2>1, <2>2 DEF Exclusivo
  <1>5. CASE BlockAvanza
    <2>1. /\ sem["t_blocked_ready"] = 1 /\ sem'["t_blocked_ready"] = 0
          /\ Sin(Esperando(r), Bloqueando, 0) /\ Primera(colas["BLOCK"], r)
      <3>1. sem["t_blocked_ready"] > 0 /\ sem'["t_blocked_ready"] = sem["t_blocked_ready"] - 1
        BY <1>5 DEF BlockAvanza
      <3> QED BY <3>1 DEF Exclusivo, Fila
    <2>2. hilo["dispatch"].paso \notin DeAsignar
      BY <2>1 DEF Exclusivo, Entrega
    <2>3. /\ Bloqueando \in Seq(PCB) /\ colas["BLOCK"] \in Seq(PCB) /\ Esperando(r) \in Seq(PCB)
          /\ Yendo => EnExec \in PCB
      BY ListasDelOrden, EsperandoTipo DEF Exclusivo, NoSenala
    <2>4. Bloqueando # <<>> /\ Bloqueando[1] = colas["BLOCK"][1] /\ 1 \in 1..Len(Bloqueando)
      <3>1. Len(colas["BLOCK"]) \in Nat \ {0}
        BY <2>1, <2>3, EmptySeq DEF Primera
      <3>2. CASE Yendo
        <4>1. /\ Bloqueando = Append(colas["BLOCK"], EnExec)
              /\ Append(colas["BLOCK"], EnExec) # <<>>
              /\ Len(Append(colas["BLOCK"], EnExec)) = Len(colas["BLOCK"]) + 1
              /\ \A i \in 1..Len(colas["BLOCK"]) : Append(colas["BLOCK"], EnExec)[i] = colas["BLOCK"][i]
          BY <2>3, <3>2, AppendProperties DEF Bloqueando
        <4> QED BY <3>1, <4>1
      <3>3. CASE ~Yendo
        BY <2>1, <3>1, <3>3 DEF Bloqueando, Primera
      <3> QED BY <3>2, <3>3
    <2>5. Sin(Esperando(r), Tail(Bloqueando), 1)
      BY <2>1, <2>3, <2>4, SinRetrasa
    <2>6. Primera(Esperando(r), r)
      <3>1. Esperando(r)[1] = Bloqueando[1]
        <4>1. 1 + 0 = 1
          OBVIOUS
        <4> QED BY <2>1, <2>4, <4>1 DEF Sin
      <3>2. Esperando(r) # <<>>
        <4>1. Len(Esperando(r)) = Len(Bloqueando) + 0 /\ Len(Bloqueando) > 0 /\ Len(Bloqueando) \in Nat
          BY <2>1, <2>3, <2>4 DEF Sin
        <4>2. Len(<<>>) = 0
          OBVIOUS
        <4> QED BY <4>1, <4>2
      <3> QED BY <2>1, <2>4, <3>1, <3>2 DEF Primera
    <2>7. Fila(r)'
      <3>1. Sin(Esperando(r)', Bloqueando', 1)
        BY <1>3, <1>5, <2>5 DEF BlockAvanza
      <3>2. Primera(Esperando(r), r)'
        BY <1>1, <1>3, <2>6 DEF Primera
      <3> QED BY <1>1, <2>1, <2>2, <3>1, <3>2 DEF Fila
    <2>8. Entrega(r)'
      BY <1>1, <2>2 DEF Entrega
    <2> QED BY <1>2, <2>7, <2>8 DEF Exclusivo
  <1> QED BY <1>4, <1>5, ListasPlanificadores

LEMMA ExclusionOperador ==
    ASSUME Tipos, Tipos', Turno, NEW r \in Recursos, Exclusivo(r), Operador, resta' = resta
    PROVE  Exclusivo(r)'
  <1>1. resta \in Nat /\ colas \in [Colas -> Seq(PCB)]
    BY DEF Tipos, TFin, TCola
  <1>2. ASSUME UNCHANGED <<hilo, programa, PC, cpu, eliminados, bloqueados, instancias, asignados, bloqueo,
                           nombre_recurso_recibido>>,
               NEW s \in {"en_new", "manejo_grado"}, Post(s),
               \A c \in {"EXEC", "BLOCK", "EXIT"} : colas'[c] = colas[c]
        PROVE  Exclusivo(r)'
    <2>1. /\ sem'["t_exec_blocked"] = sem["t_exec_blocked"]
          /\ sem'["t_blocked_ready"] = sem["t_blocked_ready"]
      BY <1>2, PostDa DEF Semaforos
    <2>2. Bloqueando' = Bloqueando /\ Esperando(r)' = Esperando(r)
      BY <1>2, <2>1 DEF Bloqueando, Yendo, EnExec, Esperando
    <2>3. Fila(r)'
      BY <1>2, <2>1, <2>2, FilaSigue DEF Exclusivo
    <2>4. Adentro(r)'
      BY <1>2, AdentroMueve DEF Exclusivo, Pidiendo, EnMarcha
    <2> QED BY <1>2, <2>1, <2>3, <2>4 DEF Exclusivo, Unico, Entrega, NoSenala
  <1>3. ASSUME NEW p \in Procesos, IniciarProceso(p) PROVE Exclusivo(r)'
    <2>1. /\ UNCHANGED <<hilo, programa, PC, cpu, eliminados, bloqueados, instancias, asignados, bloqueo,
                          nombre_recurso_recibido>>
          /\ Post("en_new") /\ \A c \in {"EXEC", "BLOCK", "EXIT"} : colas'[c] = colas[c]
      BY <1>1, <1>3 DEF IniciarProceso, vCpu, vFin, vRecurso, vGrado, Colas
    <2> QED BY <1>2, <2>1
  <1>4. ASSUME NEW v \in NuevosGrados, Multiprogramacion(v) PROVE Exclusivo(r)'
    <2>1. /\ UNCHANGED <<hilo, programa, PC, cpu, eliminados, bloqueados, instancias, asignados, colas, bloqueo,
                          nombre_recurso_recibido>>
          /\ Post("manejo_grado")
      BY <1>4 DEF Multiprogramacion, vCpu, vFin, vRecurso, vCola, vGrado
    <2> QED BY <1>2, <2>1
  <1>5. ASSUME NEW p \in Procesos, Finalizar(p) PROVE FALSE
    <2>1. resta' = resta - 1
      BY <1>5 DEF Finalizar
    <2> QED BY <1>1, <2>1
  <1> QED BY <1>3, <1>4, <1>5 DEF Operador

(* The process that executes is not past its WAIT before it nor, when the  *)
(* instruction is a WAIT, after it.                                        *)
LEMMA AdentroCpu ==
    ASSUME Tipos, Tipos', Turno, NEW p \in Procesos, NEW i, NEW r \in Recursos, Adentro(r), Ejecuta(p, i),
           cpu' \in {p, NULO}, i = [op |-> "WAIT", r |-> r] => cpu' = NULO,
           UNCHANGED <<colas, eliminados, asignados>>, hilo'["dispatch"].paso \notin Soltando
    PROVE  Adentro(r)'
  <1>6. \A q \in Procesos \ {p} : Hechas(q, "WAIT", r)' = Hechas(q, "WAIT", r)
                              /\ Hechas(q, "SIGNAL", r)' = Hechas(q, "SIGNAL", r)
    <2>1. PC' = [PC EXCEPT ![p] = @ + 1] /\ programa' = programa /\ PC \in [Procesos -> Nat]
      BY DEF Ejecuta, Tipos, TCpu
    <2>2. \A q \in Procesos \ {p} : PC'[q] = PC[q] /\ programa'[q] = programa[q]
      BY <2>1
    <2> QED BY <2>2 DEF Hechas
  <1>1. PorPosiciones /\ PorPosiciones'
    BY PideEs, PideEsDespues
  <1>2. /\ cpu = p /\ hilo["dispatch"].paso = "libre" /\ PC' = [PC EXCEPT ![p] = @ + 1]
        /\ programa' = programa /\ programa[p][PC[p] + 1] = i /\ PC \in [Procesos -> Nat] /\ NULO \notin Procesos
    BY NuloAssumption DEF Ejecuta, En, Tipos, TCpu
  <1>3. Esta(p, colas["EXEC"])
    <2>1. Corre
      BY <1>2 DEF Turno, Nadie, Atiende, Vuelve, SeBloquea, SeVa, Quieto
    <2>2. Len(colas["EXEC"]) = Ido + 1 /\ cpu = colas["EXEC"][Ido + 1] /\ Ido \in {0, 1}
      BY <2>1 DEF Corre, Ido
    <2>3. Ido + 1 \in 1..(Ido + 1)
      BY <2>2
    <2> QED BY <1>2, <2>2, <2>3 DEF Esta
  <1>4. \A q \in Procesos : q \in Fuera' <=> q \in Fuera
    <2>1. ~Liberando /\ ~Liberando'
      BY <1>2 DEF Liberando, Soltando, DeAsignar
    <2> QED BY <1>1, <2>1 DEF PorPosiciones
  <1>5. ASSUME NEW q \in Procesos, q \notin Fuera', Dentro(q, r)' > 0 PROVE asignados'[q][r] > 0
    <2> DEFINE w == Hechas(q, "WAIT", r)
               s == Hechas(q, "SIGNAL", r)
    <2>1. w \in Nat /\ s \in Nat
      BY HechasFinitas
    <2>2. Dentro(q, r) = w - s - (IF Pide(q, r) THEN 1 ELSE 0)
      BY DentroEntero
    <2>3. Dentro(q, r)' = w' - s' - (IF Pide(q, r)' THEN 1 ELSE 0)
      BY DEF Dentro, Uno, Pide
    <2>4. CASE q # p
      <3>1. w' = w /\ s' = s
        BY <1>6, <2>4
      <3>2. Pide(q, r)' <=> Pide(q, r)
        BY <1>1, <1>2, <2>4 DEF PorPosiciones, Pidiendo, EnMarcha
      <3> HIDE DEF w, s
      <3>3. Dentro(q, r) > 0
        BY <1>5, <2>1, <2>2, <2>3, <3>1, <3>2
      <3> QED BY <1>4, <1>5, <3>3 DEF Adentro
    <2>5. CASE q = p
      <3>1. /\ w' = w + (IF i = [op |-> "WAIT", r |-> r] THEN 1 ELSE 0)
            /\ s' = s + (IF i = [op |-> "SIGNAL", r |-> r] THEN 1 ELSE 0)
        BY <2>5, HechasAlEjecutar
      <3>2. ~Pide(q, r)
        BY <1>1, <1>2, <2>5 DEF PorPosiciones, Pidiendo
      <3>3. i = [op |-> "WAIT", r |-> r] => Pide(q, r)'
        <4> SUFFICES ASSUME i = [op |-> "WAIT", r |-> r] PROVE Pide(q, r)'
          OBVIOUS
        <4>1. PC'[p] = PC[p] + 1 /\ PC'[p] > 0 /\ programa'[p][PC'[p]] = i
          BY <1>2
        <4>2. i.op = "WAIT" /\ i.r = r
          OBVIOUS
        <4>3. EnMarcha(p)' /\ cpu' # p
          BY <1>2, <1>3 DEF EnMarcha
        <4> QED BY <1>1, <2>5, <4>1, <4>2, <4>3 DEF PorPosiciones, Pidiendo
      <3> HIDE DEF w, s
      <3>4. Dentro(q, r) > 0
        BY <1>5, <2>1, <2>2, <2>3, <3>1, <3>2, <3>3
      <3> QED BY <1>4, <1>5, <3>4 DEF Adentro
    <2> QED BY <2>4, <2>5
  <1> QED BY <1>5 DEF Adentro

LEMMA ExclusionCpu ==
    ASSUME Tipos, Tipos', Turno, UnRecurso, NEW r \in Recursos, Exclusivo(r), SinSenal(r), SinSenal(r)',
           falla' = "ninguna", Cpu
    PROVE  Exclusivo(r)'
  <1> SUFFICES ASSUME NEW p \in Procesos,
                      \/ Calcula(p) \/ FinDeQuantum(p) \/ Termina(p) \/ Desincronizado(p) \/ Pisado(p)
                      \/ \E i \in ToSet(programa[p]) : Recibe(p, i)
               PROVE  Exclusivo(r)'
    BY DEF Cpu
  <1>d. ~Desincronizado(p) /\ ~Pisado(p)
    BY DEF Desincronizado, Pisado, Falla
  <1>1. /\ sem \in [Semaforos -> Nat] /\ hilo \in [HilosFin -> Hilo] /\ "dispatch" \in HilosFin
        /\ hilo["dispatch"].paso = "libre"
        /\ UNCHANGED <<colas, programa, bloqueados, instancias, asignados, eliminados, bloqueo>>
    BY <1>d DEF Tipos, TSem, TFin, HilosFin, Calcula, FinDeQuantum, Termina, Recibe, Sale, Ejecuta, En, vCola,
           vRecurso, vFin, vGrado
  <1>2. ASSUME NEW i \in ToSet(programa[p]), Recibe(p, i), i.op = "SIGNAL" PROVE i.r \notin Recursos
    <2> SUFFICES ASSUME i.r \in Recursos PROVE FALSE
      OBVIOUS
    <2>1. Ejecuta(p, i)
      BY <1>2 DEF Recibe, Sale
    <2>2. Usa(i.r)
      BY <2>1, LlamaAUsado
    <2>3. i.r = r
      BY <2>2, UnoUsado DEF SinSenal
    <2>4. i = [op |-> "SIGNAL", r |-> r]
      BY <1>2, <2>3, InstruccionEs
    <2>5. Hechas(p, "SIGNAL", r)' = Hechas(p, "SIGNAL", r) + 1 /\ Hechas(p, "SIGNAL", r) \in Nat
      BY <2>1, <2>4, HechasAlEjecutar, HechasFinitas
    <2>6. Hechas(p, "SIGNAL", r)' = 0
      BY DEF SinSenal
    <2> QED BY <2>5, <2>6
  <1>3. \E i : /\ Ejecuta(p, i) /\ cpu' \in {p, NULO}
               /\ i = [op |-> "WAIT", r |-> r] => cpu' = NULO
    <2>1. CASE Calcula(p)
      <3>1. Ejecuta(p, [op |-> "SET", r |-> NULO]) /\ cpu' = p
        BY <2>1 DEF Calcula, Ejecuta
      <3>2. [op |-> "SET", r |-> NULO] # [op |-> "WAIT", r |-> r]
        <4>1. [op |-> "SET", r |-> NULO].op # [op |-> "WAIT", r |-> r].op
          OBVIOUS
        <4> QED BY <4>1
      <3> QED BY <3>1, <3>2
    <2>2. CASE ~Calcula(p)
      <3>1. \E i : Sale(p, i)
        BY <1>d, <2>2 DEF FinDeQuantum, Termina, Recibe
      <3> QED BY <3>1 DEF Sale
    <2> QED BY <2>1, <2>2
  <1>4. /\ sem'["t_exec_blocked"] = sem["t_exec_blocked"]
        /\ sem'["t_blocked_ready"] = sem["t_blocked_ready"]
    <2>1. UNCHANGED sem \/ Post("t_exec_ready")
      BY <1>d DEF Calcula, FinDeQuantum, Termina, Recibe
    <2> QED BY <2>1, PostDa DEF Semaforos
  <1>5. /\ hilo'["dispatch"].paso \in {"libre", "pcb_exec", "nombre_wait", "nombre_signal"}
        /\ NoSenala'
    <2>1. CASE Calcula(p) \/ FinDeQuantum(p)
      <3>1. UNCHANGED hilo
        BY <2>1 DEF Calcula, FinDeQuantum, vFin
      <3> QED BY <1>1, <3>1 DEF NoSenala
    <2>2. CASE Termina(p)
      <3> DEFINE x == [Ocioso EXCEPT !.paso = "pcb_exec"]
      <3>1. Pone("dispatch", x)
        BY <2>2 DEF Termina
      <3>2. x.paso = "pcb_exec"
        BY DEF Ocioso
      <3> HIDE DEF x
      <3> QED BY <1>1, <3>1, <3>2 DEF Pone, NoSenala
    <2>3. ASSUME NEW i \in ToSet(programa[p]), Recibe(p, i)
          PROVE  hilo'["dispatch"].paso \in {"nombre_wait", "nombre_signal"} /\ NoSenala'
      <3> DEFINE x == [Ocioso EXCEPT !.paso = IF i.op = "WAIT" THEN "nombre_wait" ELSE "nombre_signal", !.p = p]
      <3>1. Pone("dispatch", x) /\ nombre_recurso_recibido' = i.r /\ i.op \in {"WAIT", "SIGNAL"}
        BY <2>3 DEF Recibe
      <3>2. x.paso = IF i.op = "WAIT" THEN "nombre_wait" ELSE "nombre_signal"
        BY DEF Ocioso
      <3> HIDE DEF x
      <3>3. hilo'["dispatch"] = x
        BY <1>1, <3>1 DEF Pone
      <3>4. i.op = "SIGNAL" => nombre_recurso_recibido' \notin Recursos
        BY <1>2, <2>3, <3>1
      <3> QED BY <3>1, <3>2, <3>3, <3>4 DEF NoSenala
    <2> QED BY <1>d, <2>1, <2>2, <2>3
  <1>6. Adentro(r)'
    <2>1. hilo'["dispatch"].paso \notin Soltando
      BY <1>5 DEF Soltando, DeAsignar
    <2> QED BY <1>1, <1>3, <2>1, AdentroCpu DEF Exclusivo
  <1>7. Bloqueando' = Bloqueando /\ Esperando(r)' = Esperando(r)
    BY <1>1, <1>4, <1>5 DEF Bloqueando, Yendo, EnExec, Esperando
  <1>9. hilo'["dispatch"].paso \notin DeAsignar
    BY <1>5 DEF DeAsignar
  <1>8. Fila(r)'
    BY <1>1, <1>4, <1>7, <1>9, FilaSigue DEF Exclusivo
  <1> QED BY <1>1, <1>5, <1>6, <1>8, <1>9 DEF Exclusivo, Unico, Entrega

(* A step of the dispatch thread that gives and takes nothing of r.        *)
LEMMA ExclusionHilo ==
    ASSUME Tipos, Tipos', NEW r \in Recursos, Exclusivo(r), UNCHANGED <<colas, cpu, PC, programa, bloqueo>>,
           instancias'[r] = instancias[r], bloqueados'[r] = bloqueados[r],
           \A p \in Procesos : asignados'[p][r] = asignados[p][r],
           sem'["t_exec_blocked"] = sem["t_exec_blocked"], sem'["t_blocked_ready"] = sem["t_blocked_ready"],
           hilo["dispatch"].paso # "encola",
           hilo'["dispatch"].paso \notin {"nombre_signal", "signal", "saca", "repone", "encola"},
           hilo'["dispatch"].paso \in DeAsignar => /\ hilo["dispatch"].paso \in DeAsignar
                                                  /\ hilo'["dispatch"].r = hilo["dispatch"].r
                                                  /\ hilo'["dispatch"].q = hilo["dispatch"].q,
           \A p \in Procesos : p \in Fuera => p \in Fuera'
    PROVE  Exclusivo(r)'
  <1>1. Unico(r)'
    BY DEF Exclusivo, Unico
  <1>2. Bloqueando' = Bloqueando
    BY DEF Bloqueando, Yendo, EnExec
  <1>3. Esperando(r)' = Esperando(r)
    BY DEF Exclusivo, NoSenala, Esperando
  <1>4. Fila(r)'
    BY <1>2, <1>3, FilaSigue DEF Exclusivo
  <1>5. \A p \in Procesos : Pide(p, r) => Pide(p, r)'
    BY DEF Pide, EnWait
  <1>6. Adentro(r)'
    BY <1>5, AdentroSigue DEF Exclusivo
  <1>7. Entrega(r)'
    BY DEF Exclusivo, Entrega
  <1> QED BY <1>1, <1>4, <1>6, <1>7 DEF Exclusivo, NoSenala

LEMMA ExclusionAtiende ==
    ASSUME Tipos, Tipos', NEW r \in Recursos, Exclusivo(r), falla' = "ninguna",
           \/ PcbExec \/ BuscaExec("dispatch") \/ Elimina("dispatch") \/ AsignaNombre("dispatch")
           \/ AsignaBusca("dispatch") \/ Obtiene \/ RecursoInvalido \/ Wait
    PROVE  Exclusivo(r)'
  <1> DEFINE d == hilo["dispatch"]
  <1>1. d \in Hilo /\ hilo \in [HilosFin -> Hilo] /\ "dispatch" \in HilosFin /\ Ocioso.paso = "libre"
    BY DEF Tipos, TFin, HilosFin, Ocioso
  <1>2. ASSUME NEW x, Pone("dispatch", x) PROVE hilo'["dispatch"] = x
    BY <1>1, <1>2 DEF Pone
  <1>3. /\ UNCHANGED <<colas, cpu, PC, programa, instancias, bloqueados, asignados, bloqueo>>
        /\ UNCHANGED sem \/ Post("t_exit_largo")
        /\ d.paso # "encola"
    BY DEF PcbExec, BuscaExec, Elimina, AsignaNombre, AsignaBusca, Obtiene, RecursoInvalido, Wait, En, vCola, vCpu,
           vRecurso, vGrado
  <1>4. sem'["t_exec_blocked"] = sem["t_exec_blocked"] /\ sem'["t_blocked_ready"] = sem["t_blocked_ready"]
    BY <1>3, PostDa DEF Semaforos
  <1>d. /\ \A v \in {"libre", "pcb_exec", "exec", "colas", "wait", "busca", "nombre_wait", "nombre_signal"} :
              v \notin Soltando
        /\ \A v \in {"libera", "asigna", "asigna_busca", "asigna_toma"} : v \in Soltando
        /\ \A v \in {"libre", "libera", "exec", "colas", "wait", "busca"} : v \notin DeAsignar
        /\ \A v \in {"asigna", "asigna_busca", "asigna_toma"} : v \in DeAsignar
    BY DEF Soltando, DeAsignar
  <1>5. /\ hilo'["dispatch"].paso \notin {"nombre_signal", "signal", "saca", "repone", "encola"}
        /\ hilo'["dispatch"].paso \in DeAsignar => /\ d.paso \in DeAsignar /\ hilo'["dispatch"].r = d.r
                                                  /\ hilo'["dispatch"].q = d.q
        /\ \A p \in Procesos : p \in Fuera => p \in Fuera'
    <2>1. CASE PcbExec
      <3> DEFINE x == [Ocioso EXCEPT !.paso = "libera", !.p = pid_a_finalizar, !.rs = Tiene(pid_a_finalizar)]
      <3>1. Pone("dispatch", x) /\ d.paso = "pcb_exec" /\ UNCHANGED eliminados
        BY <2>1 DEF PcbExec, Falla, En
      <3>2. x.paso = "libera"
        BY DEF Ocioso
      <3> HIDE DEF x
      <3>3. hilo'["dispatch"] = x
        BY <1>2, <3>1
      <3> QED BY <1>3, <1>d, <3>1, <3>2, <3>3 DEF Fuera, Liberando
    <2>2. CASE BuscaExec("dispatch")
      <3>1. d.paso = "exec" /\ UNCHANGED eliminados
            /\ (Pone("dispatch", Ocioso) \/ Pone("dispatch", [d EXCEPT !.paso = "colas"]))
        BY <2>2 DEF BuscaExec, En, Sigue
      <3>2. [d EXCEPT !.paso = "colas"].paso = "colas"
        BY <1>1 DEF Hilo
      <3>3. hilo'["dispatch"].paso \in {"libre", "colas"}
        BY <1>1, <1>2, <3>1, <3>2
      <3> QED BY <1>3, <1>d, <3>1, <3>3 DEF Fuera, Liberando
    <2>3. CASE Elimina("dispatch")
      <3>1. d.paso = "libera" /\ eliminados' = eliminados \cup {d.p} /\ Pone("dispatch", Ocioso)
        BY <2>3 DEF Elimina, En
      <3>2. hilo'["dispatch"].paso = "libre"
        BY <1>1, <1>2, <3>1
      <3>3. colas' = colas
        BY <1>3
      <3> QED BY <1>d, <3>1, <3>2, <3>3 DEF Fuera, Liberando
    <2>4. CASE AsignaNombre("dispatch") \/ AsignaBusca("dispatch")
      <3> DEFINE x == [d EXCEPT !.paso = "asigna_busca"]
                 y == [d EXCEPT !.paso = "asigna_toma", !.ya = YaTiene(d.q)]
      <3>1. (Pone("dispatch", x) \/ Pone("dispatch", y)) /\ d.paso \in {"asigna", "asigna_busca"} /\ UNCHANGED eliminados
        BY <2>4 DEF AsignaNombre, AsignaBusca, Sigue, En
      <3>2. /\ x.paso = "asigna_busca" /\ x.p = d.p /\ x.r = d.r /\ x.q = d.q
            /\ y.paso = "asigna_toma" /\ y.p = d.p /\ y.r = d.r /\ y.q = d.q
        BY <1>1 DEF Hilo
      <3> HIDE DEF x, y
      <3>3. hilo'["dispatch"] = x \/ hilo'["dispatch"] = y
        BY <1>2, <3>1
      <3>4. /\ hilo'["dispatch"].paso \in {"asigna_busca", "asigna_toma"} /\ hilo'["dispatch"].p = d.p
            /\ hilo'["dispatch"].r = d.r /\ hilo'["dispatch"].q = d.q
        BY <3>2, <3>3
      <3> QED BY <1>3, <1>d, <3>1, <3>4 DEF Fuera, Liberando
    <2>5. CASE Obtiene \/ RecursoInvalido \/ Wait
      <3> DEFINE x == [d EXCEPT !.paso = IF @ = "nombre_wait" THEN "wait" ELSE "signal",
                                !.r = nombre_recurso_recibido]
                 y == [d EXCEPT !.paso = "exec"]
                 z == [d EXCEPT !.paso = "busca", !.hay = instancias[d.r] > 0]
      <3>0. d.paso = "nombre_signal" => nombre_recurso_recibido \notin Recursos
        BY DEF Exclusivo, NoSenala
      <3>1. /\ (Pone("dispatch", x) /\ d.paso = "nombre_wait") \/ Pone("dispatch", y) \/ Pone("dispatch", z)
            /\ d.paso \in {"nombre_wait", "nombre_signal", "wait"} /\ UNCHANGED eliminados
        BY <2>5, <3>0 DEF Obtiene, RecursoInvalido, Wait, Sigue
      <3>2. (d.paso = "nombre_wait" => x.paso = "wait") /\ y.paso = "exec" /\ z.paso = "busca"
        BY <1>1 DEF Hilo
      <3> HIDE DEF x, y, z
      <3>3. hilo'["dispatch"].paso \in {"wait", "exec", "busca"}
        BY <1>2, <3>1, <3>2
      <3> QED BY <1>3, <1>d, <3>1, <3>3 DEF Fuera, Liberando
    <2> QED BY <2>1, <2>2, <2>3, <2>4, <2>5
  <1> QED BY <1>3, <1>4, <1>5, ExclusionHilo

LEMMA ExclusionWaitBusca ==
    ASSUME Tipos, Tipos', Turno, Usados, UnRecurso, NEW r \in Recursos, Usa(r), Exclusivo(r), falla' = "ninguna", WaitBusca
    PROVE  Exclusivo(r)'
  <1> DEFINE d == hilo["dispatch"]
  <1>1. d \in Hilo /\ HiloBueno(d) /\ hilo \in [HilosFin -> Hilo] /\ "dispatch" \in HilosFin
    BY DEF Tipos, TFin, HilosFin
  <1>2. ASSUME NEW x, Pone("dispatch", x) PROVE hilo'["dispatch"] = x
    BY <1>1, <1>2 DEF Pone
  <1>3. /\ d.paso = "busca"
        /\ UNCHANGED <<colas, cpu, PC, programa, instancias, bloqueados, asignados, eliminados, bloqueo>>
        /\ \/ UNCHANGED sem /\ Pone("dispatch", [d EXCEPT !.paso = "toma", !.ya = YaTiene(d.p)])
           \/ Post("t_exec_blocked") /\ Pone("dispatch", [d EXCEPT !.paso = "encola"])
    BY DEF WaitBusca, Falla, Sigue, vCola, vCpu, vRecurso, vGrado
  <1>d. "busca" \notin Soltando /\ "toma" \notin Soltando \cup DeAsignar /\ "encola" \notin Soltando \cup DeAsignar
    BY DEF Soltando, DeAsignar
  <1>4. d.r = r /\ d.p \in Procesos /\ d.p \in PCB
    <2>1. d.r \in Recursos /\ Usa(d.r) /\ d.p \in Procesos
      BY <1>1, <1>3 DEF HiloBueno, Usados, Tratan, ConPedido
    <2> QED BY <2>1, UnoUsado DEF PCB
  <1>5. CASE UNCHANGED sem /\ Pone("dispatch", [d EXCEPT !.paso = "toma", !.ya = YaTiene(d.p)])
    <2>1. [d EXCEPT !.paso = "toma", !.ya = YaTiene(d.p)].paso = "toma"
      BY <1>1 DEF Hilo
    <2>2. hilo'["dispatch"].paso = "toma"
      BY <1>2, <1>5, <2>1
    <2>3. \A p \in Procesos : p \in Fuera => p \in Fuera'
      BY <1>3, <1>d, <2>2 DEF Fuera, Liberando
    <2> QED BY <1>3, <1>5, <1>d, <2>2, <2>3, ExclusionHilo
  <1>6. CASE Post("t_exec_blocked") /\ Pone("dispatch", [d EXCEPT !.paso = "encola"])
    <2> DEFINE x == [d EXCEPT !.paso = "encola"]
               l == bloqueados[r]
               b == colas["BLOCK"]
    <2>1. x.paso = "encola" /\ x.p = d.p
      BY <1>1 DEF Hilo
    <2> HIDE DEF x
    <2>2. hilo'["dispatch"] = x
      BY <1>2, <1>6 DEF x
    <2>3. d.p = EnExec /\ sem["t_exec_blocked"] = 0 /\ bloqueo = "espera"
      BY <1>3 DEF Turno, Nadie, Corre, Atiende, Vuelve, SeBloquea, SeVa, Quieto, Sirve, Ordenes, UnoEnExec
    <2>4. sem'["t_exec_blocked"] = 1 /\ sem'["t_blocked_ready"] = sem["t_blocked_ready"]
      BY <1>6, <2>3, PostDa DEF Semaforos
    <2>5. Bloqueando = b /\ Bloqueando' = Append(b, d.p)
      BY <1>3, <2>3, <2>4 DEF Bloqueando, Yendo, EnExec
    <2>6. Esperando(r) = l /\ Esperando(r)' = Append(l, d.p)
      BY <1>3, <1>4, <2>1, <2>2 DEF Esperando
    <2>7. l \in Seq(PCB) /\ b \in Seq(PCB)
      BY ListasDelOrden
    <2>8. \A n \in {0, 1} : Sin(l, b, n) => Sin(Append(l, d.p), Append(b, d.p), n)
      BY <1>4, <2>7, SinAgrega
    <2>9. Primera(l, r) => Primera(Append(l, d.p), r)
      <3> DEFINE u == Append(l, d.p)
      <3>1. Len(u) = Len(l) + 1 /\ (\A i \in 1..Len(l) : u[i] = l[i]) /\ Len(l) \in Nat
        BY <1>4, <2>7, AppendProperties
      <3>2. l # <<>> => Len(l) > 0
        BY <2>7, EmptySeq
      <3> HIDE DEF u
      <3>3. u # <<>>
        <4>1. Len(u) > 0
          BY <3>1
        <4>2. Len(<<>>) = 0
          OBVIOUS
        <4> QED BY <4>1, <4>2
      <3>4. l # <<>> => u[1] = l[1]
        BY <3>1, <3>2
      <3>5. Primera(l, r) => Primera(u, r)
        BY <3>3, <3>4 DEF Primera
      <3> QED BY <3>5 DEF u
    <2>10. asignados' = asignados /\ b = colas'["BLOCK"]
      BY <1>3
    <2>11. /\ \A n \in {0, 1} : Sin(Esperando(r), Bloqueando, n) => Sin(Esperando(r), Bloqueando, n)'
           /\ Primera(Esperando(r), r) => Primera(Esperando(r), r)'
           /\ Primera(colas["BLOCK"], r) => Primera(colas["BLOCK"], r)'
      <3>1. \A n \in {0, 1} : Sin(Esperando(r), Bloqueando, n) => Sin(Esperando(r)', Bloqueando', n)
        BY <2>5, <2>6, <2>8
      <3>2. Primera(Append(l, d.p), r) => Primera(Esperando(r), r)'
        BY <2>6, <2>10 DEF Primera
      <3>3. Primera(colas["BLOCK"], r) => Primera(colas["BLOCK"], r)'
        BY <2>10 DEF Primera
      <3> QED BY <2>6, <2>9, <3>1, <3>2, <3>3 DEF Sin
    <2>12. Fila(r)'
      BY <1>d, <2>1, <2>2, <2>4, <2>11 DEF Exclusivo, Fila
    <2>13. \A p \in Procesos : (p \in Fuera => p \in Fuera') /\ (Pide(p, r) => Pide(p, r)')
      BY <1>3, <1>d, <2>1, <2>2 DEF Fuera, Liberando, Pide, EnWait
    <2>14. Adentro(r)'
      BY <1>3, <2>13, AdentroSigue DEF Exclusivo
    <2> QED BY <1>3, <1>d, <2>1, <2>2, <2>12, <2>14 DEF Exclusivo, Unico, Entrega, NoSenala
  <1> QED BY <1>3, <1>5, <1>6

LEMMA ExclusionWaitToma ==
    ASSUME Tipos, Tipos', Turno, Usados, UnRecurso, NEW r \in Recursos, Usa(r), Exclusivo(r), WaitToma,
           DelNombre(hilo["dispatch"])
    PROVE  Exclusivo(r)'
  <1> DEFINE d == hilo["dispatch"]
  <1>1. d \in Hilo /\ HiloBueno(d) /\ hilo \in [HilosFin -> Hilo] /\ "dispatch" \in HilosFin /\ Ocioso.paso = "libre"
        /\ instancias \in [Recursos -> Nat] /\ asignados \in [Procesos -> [Recursos -> Nat]]
    BY DEF Tipos, TFin, TRec, HilosFin, Ocioso
  <1>2. /\ d.paso = "toma" /\ instancias[d.r] > 0 /\ instancias' = [instancias EXCEPT ![d.r] = @ - 1]
        /\ asignados' = [asignados EXCEPT ![d.p][d.r] = @ + 1] /\ cpu' = d.p
        /\ Pone("dispatch", Ocioso)
        /\ UNCHANGED <<colas, sem, bloqueados, PC, programa, eliminados, bloqueo>>
    <2>1. d.paso = "toma"
      BY DEF WaitToma
    <2>2. Anotado(d) = d.r
      BY <2>1 DEF Anotado, DelNombre, ConPedido
    <2> QED BY <2>1, <2>2 DEF WaitToma, vCola, vGrado
  <1>d. "toma" \notin Soltando /\ "libre" \notin Soltando \cup DeAsignar
    BY DEF Soltando, DeAsignar
  <1>3. d.r = r /\ d.p \in Procesos
    <2>1. d.r \in Recursos /\ Usa(d.r) /\ d.p \in Procesos
      BY <1>1, <1>2 DEF HiloBueno, Usados, Tratan, ConPedido
    <2> QED BY <2>1, UnoUsado
  <1>4. hilo'["dispatch"].paso = "libre"
    BY <1>1, <1>2 DEF Pone
  <1>5. instancias[r] = 1 /\ \A q \in Procesos : asignados[q][r] = 0
    <2>1. instancias[r] > 0 /\ instancias[r] \in Nat /\ instancias[r] <= 1
      BY <1>1, <1>2, <1>3 DEF Exclusivo, Unico
    <2>2. \A q \in Procesos : asignados[q][r] \in Nat /\ ~(asignados[q][r] > 0)
      BY <1>1, <2>1 DEF Exclusivo, Unico
    <2> QED BY <2>1, <2>2
  <1>6. /\ instancias'[r] = 0 /\ asignados'[d.p][r] = 1
        /\ \A q \in Procesos : q # d.p => asignados'[q][r] = 0
    <2>1. instancias'[r] = instancias[r] - 1
      BY <1>1, <1>2, <1>3
    <2>2. asignados'[d.p][r] = asignados[d.p][r] + 1
      BY <1>1, <1>2, <1>3
    <2>3. \A q \in Procesos : q # d.p => asignados'[q][r] = asignados[q][r]
      BY <1>1, <1>2, <1>3
    <2> QED BY <1>3, <1>5, <2>1, <2>2, <2>3
  <1>7. Unico(r)'
    BY <1>6 DEF Unico
  <1>8. Fila(r)'
    <2>1. ~Primera(colas["BLOCK"], r) /\ ~Primera(Esperando(r), r)
      BY <1>5 DEF Primera
    <2>2. Sin(Esperando(r), Bloqueando, 0) /\ sem["t_blocked_ready"] = 0
      BY <2>1 DEF Exclusivo, Fila
    <2>3. Esperando(r)' = Esperando(r)
      BY <1>2, <1>4 DEF Esperando
    <2>4. Bloqueando' = Bloqueando
      BY <1>2 DEF Bloqueando, Yendo, EnExec
    <2> QED BY <1>2, <2>2, <2>3, <2>4 DEF Fila
  <1>9. Adentro(r)'
    <2>1. cpu = NULO
      BY <1>2 DEF Turno, Nadie, Corre, Atiende, Vuelve, SeBloquea, SeVa, Quieto
    <2>2. \A p \in Procesos : /\ p \in Fuera => p \in Fuera'
                              /\ p # d.p => (Pide(p, r) => Pide(p, r)') /\ asignados'[p][r] = asignados[p][r]
                              /\ p = d.p => asignados'[p][r] > 0
      BY <1>2, <1>4, <1>5, <1>6, <1>d DEF Fuera, Liberando, Pide, EnWait
    <2> QED BY <1>2, <2>2, AdentroSigue DEF Exclusivo
  <1> QED BY <1>4, <1>7, <1>8, <1>9, <1>d DEF Exclusivo, Entrega, NoSenala

LEMMA ExclusionWaitEncola ==
    ASSUME Tipos, Tipos', Usados, UnRecurso, NEW r \in Recursos, Usa(r), Exclusivo(r), WaitEncola
    PROVE  Exclusivo(r)'
  <1> DEFINE d == hilo["dispatch"]
  <1>1. d \in Hilo /\ HiloBueno(d) /\ hilo \in [HilosFin -> Hilo] /\ "dispatch" \in HilosFin /\ Ocioso.paso = "libre"
        /\ bloqueados \in [Recursos -> Seq(Procesos)]
    BY DEF Tipos, TFin, TRec, HilosFin, Ocioso
  <1>2. /\ d.paso = "encola" /\ bloqueados' = [bloqueados EXCEPT ![d.r] = Append(@, d.p)]
        /\ Pone("dispatch", Ocioso)
        /\ UNCHANGED <<colas, sem, instancias, asignados, cpu, PC, programa, eliminados, bloqueo>>
    BY DEF WaitEncola, vCola, vCpu, vGrado
  <1>d. "encola" \notin Soltando /\ "libre" \notin Soltando \cup DeAsignar
    BY DEF Soltando, DeAsignar
  <1>3. d.r = r
    <2>1. d.r \in Recursos /\ Usa(d.r)
      BY <1>1, <1>2 DEF HiloBueno, Usados, Tratan, ConPedido
    <2> QED BY <2>1, UnoUsado
  <1>4. hilo'["dispatch"].paso = "libre"
    BY <1>1, <1>2 DEF Pone
  <1>5. Esperando(r)' = Esperando(r)
    <2>1. Esperando(r) = Append(bloqueados[r], d.p)
      BY <1>2 DEF Esperando
    <2>2. bloqueados'[r] = Append(bloqueados[r], d.p)
      BY <1>1, <1>2, <1>3
    <2> QED BY <1>4, <2>1, <2>2 DEF Esperando
  <1>6. Bloqueando' = Bloqueando
    BY <1>2 DEF Bloqueando, Yendo, EnExec
  <1>7. Fila(r)'
    BY <1>2, <1>4, <1>5, <1>6, <1>d, FilaSigue DEF Exclusivo
  <1>8. \A p \in Procesos : (p \in Fuera => p \in Fuera') /\ (Pide(p, r) => Pide(p, r)')
    BY <1>2, <1>4, <1>d DEF Fuera, Liberando, Pide, EnWait
  <1>9. Adentro(r)'
    BY <1>2, <1>8, AdentroSigue DEF Exclusivo
  <1> QED BY <1>2, <1>4, <1>7, <1>9, <1>d DEF Exclusivo, Unico, Entrega, NoSenala

(* The instance goes to whom liberar_recursos read at the head of the queue*)
(* which is also whom blocked_ready will find at the head of BLOCK.        *)
LEMMA ExclusionAsigna ==
    ASSUME Tipos, Tipos', Turno, NEW r \in Recursos, Exclusivo(r), AsignaToma("dispatch"), DelNombre(hilo["dispatch"])
    PROVE  Exclusivo(r)'
  <1> DEFINE d == hilo["dispatch"]
             x == [d EXCEPT !.paso = "libera"]
  <1>1. d \in Hilo /\ HiloBueno(d) /\ hilo \in [HilosFin -> Hilo] /\ "dispatch" \in HilosFin
        /\ asignados \in [Procesos -> [Recursos -> Nat]] /\ instancias \in [Recursos -> Nat]
    BY DEF Tipos, TFin, TRec, HilosFin
  <1>2. /\ d.paso = "asigna_toma" /\ instancias' = [instancias EXCEPT ![d.r] = @ - 1]
        /\ asignados' = [asignados EXCEPT ![d.q][d.r] = @ + 1]
        /\ Post("t_blocked_ready") /\ Pone("dispatch", x)
        /\ UNCHANGED <<colas, bloqueados, cpu, PC, programa, eliminados, bloqueo>>
    <2>1. d.paso = "asigna_toma"
      BY DEF AsignaToma
    <2>2. Anotado(d) = d.r
      BY <2>1 DEF Anotado, DelNombre
    <2> QED BY <2>1, <2>2 DEF AsignaToma, Sigue, vCola, vCpu, vGrado
  <1>d. /\ "asigna_toma" \in Soltando /\ "asigna_toma" \in DeAsignar /\ "libera" \in Soltando
        /\ "libera" \notin DeAsignar
    BY DEF Soltando, DeAsignar
  <1>3. x.paso = "libera" /\ x.p = d.p
    BY <1>1 DEF Hilo
  <1> HIDE DEF x
  <1>4. hilo'["dispatch"] = x
    BY <1>1, <1>2 DEF Pone
  <1>5. /\ d.r = r /\ instancias[r] = 1 /\ sem["t_blocked_ready"] = 0 /\ d.q \in Procesos
        /\ bloqueados[r] # <<>> /\ bloqueados[r][1] = d.q
    BY <1>1, <1>2, <1>d DEF Exclusivo, Entrega, HiloBueno
  <1>6. \A q \in Procesos : asignados[q][r] = 0
    <2>1. \A q \in Procesos : asignados[q][r] \in Nat /\ ~(asignados[q][r] > 0)
      BY <1>1, <1>5 DEF Exclusivo, Unico
    <2> QED BY <2>1
  <1>7. /\ instancias'[r] = 0 /\ asignados'[d.q][r] = 1
        /\ \A q \in Procesos : q # d.q => asignados'[q][r] = 0
    <2>1. instancias'[r] = instancias[r] - 1
      BY <1>1, <1>2, <1>5
    <2>2. asignados'[d.q][r] = asignados[d.q][r] + 1
      BY <1>1, <1>2, <1>5
    <2>3. \A q \in Procesos : q # d.q => asignados'[q][r] = asignados[q][r]
      BY <1>1, <1>2, <1>5
    <2> QED BY <1>5, <1>6, <2>1, <2>2, <2>3
  <1>8. Unico(r)'
    BY <1>7 DEF Unico
  <1>9. Fila(r)'
    <2> DEFINE l == bloqueados[r]
               b == colas["BLOCK"]
    <2>1. sem["t_exec_blocked"] = 0 /\ bloqueo = "espera"
      BY <1>2 DEF Turno, Nadie, Corre, Atiende, Vuelve, SeBloquea, SeVa, Quieto, Ordenes, UnoEnExec
    <2>2. /\ sem'["t_exec_blocked"] = 0 /\ sem'["t_blocked_ready"] = 1
      BY <1>2, <1>5, <2>1, PostDa DEF Semaforos
    <2>3. Bloqueando = b /\ Bloqueando' = b /\ Esperando(r) = l /\ Esperando(r)' = l
      BY <1>2, <1>3, <1>4, <2>1, <2>2 DEF Bloqueando, Yendo, Esperando
    <2>4. Sin(l, b, 0)
      BY <1>2, <1>d, <2>3 DEF Exclusivo, Fila
    <2>5. l \in Seq(PCB) /\ b \in Seq(PCB)
      BY ListasDelOrden
    <2>6. b # <<>> /\ b[1] = d.q
      <3> HIDE DEF l, b
      <3>1. Len(l) = Len(b) + 0 /\ \A i \in 1..Len(b) : l[i + 0] = b[i]
        BY <2>4 DEF Sin
      <3>2. Len(l) \in Nat \ {0}
        BY <1>5, <2>5, EmptySeq DEF l
      <3>3. Len(b) \in Nat
        BY <2>5
      <3>4. Len(b) = Len(l) /\ 1 \in 1..Len(b) /\ 1 + 0 = 1
        BY <3>1, <3>2, <3>3
      <3>5. b[1] = l[1]
        BY <3>1, <3>4
      <3>6. b # <<>>
        <4>1. Len(<<>>) = 0
          OBVIOUS
        <4> QED BY <3>2, <3>4, <4>1
      <3> QED BY <1>5, <3>5, <3>6 DEF l
    <2>7. Primera(colas["BLOCK"], r)'
      BY <1>2, <1>5, <1>7, <2>6 DEF Primera
    <2>8. Sin(Esperando(r), Bloqueando, 0)'
      BY <2>3, <2>4
    <2> QED BY <2>2, <2>7, <2>8 DEF Fila
  <1>10. \A p \in Procesos : /\ p \in Fuera => p \in Fuera'
                             /\ Pide(p, r) => Pide(p, r)'
                             /\ asignados'[p][r] > 0 \/ asignados'[p][r] = asignados[p][r]
    BY <1>2, <1>3, <1>4, <1>6, <1>7, <1>d DEF Fuera, Liberando, Pide, EnWait
  <1>11. Adentro(r)'
    BY <1>2, <1>10, AdentroSigue DEF Exclusivo
  <1> QED BY <1>3, <1>4, <1>8, <1>9, <1>11, <1>d DEF Exclusivo, Entrega, NoSenala

(* What is left of the queue of r when the only holder gives it back: BLOCK*)
(* in both cases.                                                          *)
LEMMA QuedaEnFila ==
    ASSUME Tipos, Turno, Custodia, NEW r \in Recursos, Exclusivo(r), NEW p \in Procesos, p = hilo["dispatch"].p,
           hilo["dispatch"].paso = "libera", asignados[p][r] > 0
    PROVE  /\ Bloqueando = colas["BLOCK"] /\ sem["t_blocked_ready"] = 0 /\ sem["t_exec_blocked"] = 0
           /\ Sin(SinPropias(bloqueados[r], p), colas["BLOCK"], 0)
  <1> DEFINE l == bloqueados[r]
             b == colas["BLOCK"]
             queda == SinPropias(l, p)
  <1>1. p = EnExec /\ UnoEnExec /\ sem["t_exec_blocked"] = 0
    BY DEF Turno, Nadie, Corre, Atiende, Vuelve, SeBloquea, SeVa, Quieto, Sirve, Ordenes
  <1>2. Bloqueando = b /\ Esperando(r) = l
    BY <1>1 DEF Bloqueando, Yendo, Esperando, UnoEnExec
  <1>3. /\ l \in Seq(Procesos) /\ l \in Seq(PCB) /\ b \in Seq(PCB) /\ queda \in Seq(PCB)
        /\ Len(l) \in Nat /\ Len(b) \in Nat /\ colas["EXEC"] \in Seq(PCB)
    <2>1. l \in Seq(Procesos) /\ b \in Seq(PCB) /\ colas["EXEC"] \in Seq(PCB)
      BY DEF Tipos, TRec, TCola, Colas
    <2>2. queda \in Seq(Procesos) /\ Procesos \subseteq PCB
      BY <2>1, PropiasQuitadas DEF PCB
    <2> HIDE DEF queda
    <2>3. queda \in Seq(PCB) /\ l \in Seq(PCB)
      BY <2>1, <2>2, SeqMonotonic
    <2> QED BY <2>1, <2>3, LenProperties
  <1>4. \A i \in 1..Len(b) : b[i] # p
    <2>1. Len(colas["EXEC"]) = 1 /\ p = colas["EXEC"][1]
      <3>1. Len(colas["EXEC"]) = 1
        BY <1>1 DEF UnoEnExec
      <3>2. Head(colas["EXEC"]) = colas["EXEC"][1]
        OBVIOUS
      <3> QED BY <1>1, <3>1, <3>2 DEF EnExec
    <2>2. "EXEC" \in Colas /\ "BLOCK" \in Colas /\ 1 \in 1..Len(colas["EXEC"])
      BY <2>1 DEF Colas
    <2> SUFFICES ASSUME NEW i \in 1..Len(b), b[i] = p PROVE FALSE
      OBVIOUS
    <2>3. colas["EXEC"][1] = colas["BLOCK"][i]
      BY <2>1
    <2> QED BY <2>2, <2>3 DEF Custodia
  <1>5. \A q \in Procesos : asignados[q][r] > 0 => q = p
    BY DEF Exclusivo, Unico
  <1>6. ~Primera(b, r)
    <2> SUFFICES ASSUME Primera(b, r) PROVE FALSE
      OBVIOUS
    <2>1. b # <<>> /\ b[1] = p
      BY <1>5 DEF Primera
    <2>2. 1 \in 1..Len(b)
      <3> HIDE DEF b
      <3>1. Len(b) > 0
        BY <1>3, <2>1, EmptySeq
      <3> QED BY <1>3, <3>1
    <2> QED BY <1>4, <2>1, <2>2
  <1>7. sem["t_blocked_ready"] = 0
    BY <1>6 DEF Exclusivo, Fila
  <1>8. PICK j \in {0, 1} : Sin(l, b, j) /\ (j = 1 => Primera(l, r))
    <2>1. \/ Sin(Esperando(r), Bloqueando, 0)
          \/ Sin(Esperando(r), Bloqueando, 1) /\ Primera(Esperando(r), r)
      BY DEF Exclusivo, Fila
    <2> QED BY <1>2, <2>1
  <1>9. j = 1 => l[1] = p
    BY <1>5, <1>8 DEF Primera
  <1> HIDE DEF l, b, queda
  <1>10. Len(l) = Len(b) + j /\ \A i \in 1..Len(b) : l[i + j] = b[i]
    BY <1>8 DEF Sin
  <1>11. j <= Len(l)
    BY <1>3, <1>10
  <1>12. \A i \in 1..Len(l) : i > j => l[i] # p
    <2> SUFFICES ASSUME NEW i \in 1..Len(l), i > j PROVE l[i] # p
      OBVIOUS
    <2>1. i - j \in 1..Len(b) /\ (i - j) + j = i
      BY <1>3, <1>10
    <2>2. l[i] = b[i - j]
      BY <1>10, <2>1
    <2> QED BY <1>4, <2>1, <2>2
  <1>13. Sin(l, queda, j)
    BY <1>3, <1>9, <1>11, <1>12, SoloLaPrimera DEF queda
  <1>14. Sin(queda, b, 0)
    <2>1. j \in Nat
      OBVIOUS
    <2> QED BY <1>3, <1>8, <1>13, <2>1, SinIguales
  <1> QED BY <1>1, <1>2, <1>7, <1>14 DEF l, b, queda

LEMMA ExclusionDevuelve ==
    ASSUME Tipos, Tipos', Turno, Custodia, Usados, UnRecurso, NEW r \in Recursos, Usa(r), Exclusivo(r),
           falla' = "ninguna", NEW s \in Recursos, Devuelve("dispatch", s)
    PROVE  Exclusivo(r)'
  <1> DEFINE d == hilo["dispatch"]
             p == d.p
             queda == SinPropias(bloqueados[s], p)
             x == [d EXCEPT !.paso = "asigna", !.r = s, !.q = Head(queda)]
  <1>1. d \in Hilo /\ HiloBueno(d) /\ hilo \in [HilosFin -> Hilo] /\ "dispatch" \in HilosFin
        /\ asignados \in [Procesos -> [Recursos -> Nat]] /\ instancias \in [Recursos -> Nat]
        /\ bloqueados \in [Recursos -> Seq(Procesos)]
    BY DEF Tipos, TFin, TRec, HilosFin
  <1>2. /\ d.paso = "libera" /\ asignados[p][s] > 0
        /\ asignados' = [asignados EXCEPT ![p][s] = @ - 1]
        /\ instancias' = [instancias EXCEPT ![s] = @ + 1]
        /\ bloqueados' = [bloqueados EXCEPT ![s] = queda]
        /\ UNCHANGED <<colas, sem, cpu, PC, programa, eliminados, bloqueo>>
    BY DEF Devuelve, En, vCola, vCpu, vGrado
  <1>d. /\ \A v \in {"libera", "asigna"} : v \in Soltando
        /\ "libera" \notin DeAsignar /\ "asigna" \in DeAsignar
    BY DEF Soltando, DeAsignar
  <1>3. UNCHANGED hilo \/ (queda # <<>> /\ Pone("dispatch", x))
    BY DEF Devuelve, Falla
  <1>4. p \in Procesos
    BY <1>1, <1>2 DEF HiloBueno, ConProceso
  <1>5. queda \in Seq(Procesos) /\ Len(queda) <= Len(bloqueados[s])
    BY <1>1, PropiasQuitadas
  <1>6. x.paso = "asigna" /\ x.p = p /\ x.r = s /\ x.q = Head(queda)
    BY <1>1 DEF Hilo
  <1>7. bloqueados'[s] = queda /\ \A t \in Recursos : t # s => bloqueados'[t] = bloqueados[t]
    BY <1>1, <1>2
  <1> HIDE DEF x, queda
  <1>8. CASE s # r
    <2>1. bloqueados[s] = <<>>
      BY <1>8, UnoUsado DEF Usados
    <2>2. queda = <<>>
      <3>1. Len(queda) \in Nat /\ Len(bloqueados[s]) = 0
        BY <1>5, <2>1, EmptySeq, LenProperties
      <3>2. Len(queda) = 0
        BY <1>5, <3>1
      <3> QED BY <1>5, <3>2, EmptySeq
    <2>3. UNCHANGED hilo
      BY <1>3, <2>2
    <2>4. /\ instancias'[r] = instancias[r] /\ bloqueados'[r] = bloqueados[r]
          /\ \A q \in Procesos : asignados'[q][r] = asignados[q][r]
      BY <1>1, <1>2, <1>7, <1>8
    <2>5. \A q \in Procesos : q \in Fuera => q \in Fuera'
      BY <1>2, <2>3 DEF Fuera, Liberando
    <2> QED BY <1>2, <1>d, <2>3, <2>4, <2>5, ExclusionHilo
  <1>9. CASE s = r
    <2>1. /\ asignados[p][r] = 1 /\ instancias[r] = 0
          /\ \A q \in Procesos : asignados[q][r] > 0 => q = p
      BY <1>2, <1>4, <1>9 DEF Exclusivo, Unico
    <2>2. instancias'[r] = 1 /\ \A q \in Procesos : asignados'[q][r] = 0
      <3>1. instancias'[r] = instancias[r] + 1
        BY <1>1, <1>2, <1>9
      <3>2. asignados'[p][r] = asignados[p][r] - 1
        BY <1>1, <1>2, <1>4, <1>9
      <3>3. \A q \in Procesos : q # p => asignados'[q][r] = asignados[q][r] /\ asignados[q][r] \in Nat
        BY <1>1, <1>2, <1>4, <1>9
      <3>4. \A q \in Procesos : q # p => asignados[q][r] = 0
        BY <2>1, <3>3
      <3> QED BY <2>1, <3>1, <3>2, <3>3, <3>4
    <2>3. Unico(r)'
      BY <2>2 DEF Unico
    <2>4. /\ Bloqueando = colas["BLOCK"] /\ sem["t_blocked_ready"] = 0 /\ sem["t_exec_blocked"] = 0
          /\ Sin(queda, colas["BLOCK"], 0)
      BY <1>2, <1>4, <1>9, QuedaEnFila DEF queda
    <2>5. hilo'["dispatch"] = d \/ (queda # <<>> /\ hilo'["dispatch"] = x)
      BY <1>1, <1>3 DEF Pone
    <2>6. hilo'["dispatch"].paso \in {"libera", "asigna"} /\ hilo'["dispatch"].p = p
      BY <1>2, <1>6, <2>5
    <2>7. Bloqueando' = colas["BLOCK"] /\ Esperando(r)' = queda
      <3>1. Bloqueando' = Bloqueando
        BY <1>2 DEF Bloqueando, Yendo, EnExec
      <3> QED BY <1>7, <1>9, <2>4, <2>6, <3>1 DEF Esperando
    <2>8. Fila(r)'
      <3>1. Sin(Esperando(r), Bloqueando, 0)'
        BY <2>4, <2>7
      <3> QED BY <1>2, <2>4, <3>1 DEF Fila
    <2>9. Entrega(r)'
      <3> SUFFICES ASSUME hilo'["dispatch"].paso \in DeAsignar PROVE Entrega(r)'
        BY DEF Entrega
      <3>1. queda # <<>> /\ hilo'["dispatch"] = x
        BY <1>2, <1>d, <2>5
      <3>2. Head(queda) = queda[1]
        BY <1>5, <3>1, HeadTailProperties
      <3> QED BY <1>2, <1>6, <1>7, <1>9, <2>2, <2>4, <3>1, <3>2 DEF Entrega
    <2>10. \A q \in Procesos : /\ q \in Fuera => q \in Fuera'
                               /\ Pide(q, r) => Pide(q, r)'
                               /\ q = p => q \in Fuera'
                               /\ q # p => asignados'[q][r] = asignados[q][r]
      <3>1. \A q \in Procesos : q # p => asignados'[q][r] = asignados[q][r]
        BY <1>1, <1>2, <1>4
      <3> QED BY <1>2, <1>d, <2>6, <3>1 DEF Fuera, Liberando, Pide, EnWait
    <2>11. Adentro(r)'
      BY <1>2, <2>10, AdentroSigue DEF Exclusivo
    <2> QED BY <2>3, <2>6, <2>8, <2>9, <2>11 DEF Exclusivo, NoSenala
  <1> QED BY <1>8, <1>9

(* What a step does to the instructions executed.                          *)
LEMMA HechasEnUnPaso ==
    ASSUME Tipos, Next, NEW q \in Procesos, NEW o, NEW r
    PROVE  Hechas(q, o, r)' = Hechas(q, o, r) \/ (Usa(r) /\ Hechas(q, o, r)' = Hechas(q, o, r) + 1)
  <1>1. CASE Cpu
    <2>1. PICK p \in Procesos : \E i : Ejecuta(p, i)
      BY <1>1 DEF Cpu, Calcula, FinDeQuantum, Termina, Desincronizado, Pisado, Recibe, Sale
    <2>2. PICK i : Ejecuta(p, i)
      BY <2>1
    <2>3. Hechas(p, o, r)' = Hechas(p, o, r) + (IF i = [op |-> o, r |-> r] THEN 1 ELSE 0)
      BY <2>2, HechasAlEjecutar
    <2>6. q # p => Hechas(q, o, r)' = Hechas(q, o, r)
      <3>1. PC' = [PC EXCEPT ![p] = @ + 1] /\ programa' = programa /\ PC \in [Procesos -> Nat]
        BY <2>2 DEF Ejecuta, Tipos, TCpu
      <3>2. q # p => PC'[q] = PC[q]
        BY <3>1
      <3> QED BY <3>1, <3>2 DEF Hechas
    <2>4. Hechas(p, o, r) \in Nat
      BY HechasFinitas
    <2>5. i = [op |-> o, r |-> r] => Usa(r)
      <3>1. Usa(i.r)
        BY <2>2, LlamaAUsado
      <3>2. [op |-> o, r |-> r].r = r
        OBVIOUS
      <3> QED BY <3>1, <3>2
    <2> QED BY <2>3, <2>4, <2>5, <2>6
  <1>2. CASE ~Cpu
    <2>1. PC' = PC /\ programa' = programa
      BY <1>2 DEF Next, Operador, IniciarProceso, Finalizar, Multiprogramacion, Planificadores, LargoToma,
             LargoMueve, CortoPlazo, ExecReady, ExecBlocked, ExecBlockedLibera, ExecBlockedMueve, ExecBlockedGuarda,
             BlockedReady, ExitLargoPlazo, Dispatch, Obtiene, RecursoInvalido, Wait, Signal, WaitBusca, WaitToma,
             WaitEncola, SignalSaca, SignalRepone, PcbExec, Fin, BuscaExec, BuscaColas, SacaCola, Agrega, Devuelve,
             AsignaNombre, AsignaBusca, AsignaToma, Elimina, ManejaLee, ManejaUno, vCpu
    <2> QED BY <2>1 DEF Hechas
  <1> QED BY <1>1, <1>2

(* Nobody waited for a resource that no program names.                     *)
SinUso == \A r \in Recursos : Usa(r) \/ \A p \in Procesos : Hechas(p, "WAIT", r) = 0

LEMMA SinUsoAlInicio == Init => SinUso
  <1> SUFFICES ASSUME Init, NEW r \in Recursos, NEW p \in Procesos PROVE Hechas(p, "WAIT", r) = 0
    BY DEF SinUso
  <1>1. {i \in 1..PC[p] : programa[p][i] = [op |-> "WAIT", r |-> r]} = {}
    BY DEF Init
  <1> QED BY <1>1, FS_EmptySet DEF Hechas

LEMMA SinUsoSiempre ==
    ASSUME Tipos, SinUso, [Next]_vars PROVE SinUso'
  <1>1. programa' = programa
    BY Comandos DEF vars, vCpu
  <1>2. \A r : Usa(r)' <=> Usa(r)
    BY <1>1 DEF Usa
  <1>3. CASE Next
    <2>1. \A r \in Recursos, p \in Procesos :
             Hechas(p, "WAIT", r)' = Hechas(p, "WAIT", r) \/ (Usa(r) /\ Hechas(p, "WAIT", r)' = Hechas(p, "WAIT", r) + 1)
      BY <1>3, HechasEnUnPaso
    <2> QED BY <1>2, <2>1 DEF SinUso
  <1>4. CASE UNCHANGED vars
    <2>1. UNCHANGED <<PC, programa>>
      BY <1>4 DEF vars, vCpu
    <2>2. \A r \in Recursos, p \in Procesos : Hechas(p, "WAIT", r)' = Hechas(p, "WAIT", r)
      BY <2>1 DEF Hechas
    <2> QED BY <1>2, <2>2 DEF SinUso
  <1> QED BY <1>3, <1>4

LEMMA ExclusionQuieta ==
    ASSUME Tipos, Tipos', NEW r \in Recursos, Exclusivo(r), UNCHANGED vars
    PROVE  Exclusivo(r)'
  <1>1. UNCHANGED <<colas, sem, instancias, bloqueados, asignados, hilo, cpu, PC, programa, eliminados, bloqueo,
                    nombre_recurso_recibido>>
    BY DEF vars, vCola, vRecurso, vFin, vCpu, vGrado
  <1>2. Bloqueando' = Bloqueando /\ Esperando(r)' = Esperando(r)
    BY <1>1 DEF Bloqueando, Yendo, EnExec, Esperando
  <1>3. Fila(r)'
    BY <1>1, <1>2, FilaSigue DEF Exclusivo
  <1>4. \A p \in Procesos : (p \in Fuera => p \in Fuera') /\ (Pide(p, r) => Pide(p, r)')
    BY <1>1 DEF Fuera, Liberando, Pide, EnWait
  <1>5. Adentro(r)'
    BY <1>1, <1>4, AdentroSigue DEF Exclusivo
  <1> QED BY <1>1, <1>3, <1>5 DEF Exclusivo, Unico, Entrega, NoSenala

LEMMA ExclusionDispatch ==
    ASSUME Tipos, Tipos', Turno, Custodia, Usados, UnRecurso, NEW r \in Recursos, Usa(r), Exclusivo(r),
           falla' = "ninguna", Dispatch \/ Fin("dispatch"), DelNombre(hilo["dispatch"])
    PROVE  Exclusivo(r)'
  <1>1. ~Signal /\ ~SignalSaca /\ ~SignalRepone
    BY DEF Exclusivo, NoSenala, Signal, SignalSaca, SignalRepone
  <1>2. ~(BuscaColas("dispatch") \/ SacaCola("dispatch") \/ Agrega("dispatch"))
    BY DEF Turno, BuscaColas, SacaCola, Agrega, En
  <1>3. \/ PcbExec \/ BuscaExec("dispatch") \/ Elimina("dispatch") \/ AsignaNombre("dispatch")
        \/ AsignaBusca("dispatch") \/ Obtiene \/ RecursoInvalido \/ Wait
        \/ WaitBusca \/ WaitToma \/ WaitEncola \/ AsignaToma("dispatch")
        \/ \E s \in Recursos : Devuelve("dispatch", s)
    BY <1>1, <1>2 DEF Dispatch, Fin
  <1>4. CASE \/ PcbExec \/ BuscaExec("dispatch") \/ Elimina("dispatch") \/ AsignaNombre("dispatch")
             \/ AsignaBusca("dispatch") \/ Obtiene \/ RecursoInvalido \/ Wait
    BY <1>4, ExclusionAtiende
  <1>5. CASE WaitBusca \/ WaitToma \/ WaitEncola
    BY <1>5, ExclusionWaitBusca, ExclusionWaitToma, ExclusionWaitEncola
  <1>6. CASE AsignaToma("dispatch")
    BY <1>6, ExclusionAsigna
  <1>7. CASE \E s \in Recursos : Devuelve("dispatch", s)
    BY <1>7, ExclusionDevuelve
  <1> QED BY <1>3, <1>4, <1>5, <1>6, <1>7

LEMMA ExclusionesSiempre ==
    ASSUME Tipos, Tipos', Nombres, Turnos, Usados, Custodias, Exclusiones, [Next]_vars PROVE Exclusiones'
  <1> SUFFICES ASSUME SinConsola', UnRecurso', NEW r \in Recursos, SinSenal(r)' PROVE Exclusivo(r)'
    BY DEF Exclusiones
  <1>1. CASE UNCHANGED vars
    <2>1. UNCHANGED <<programa, PC, resta, falla>>
      BY <1>1 DEF vars, vFin, vCpu
    <2>2. SinConsola /\ UnRecurso /\ SinSenal(r)
      BY <2>1 DEF SinConsola, UnRecurso, SinSenal, Usa, Hechas
    <2> QED BY <1>1, <2>2, ExclusionQuieta DEF Exclusiones
  <1>2. CASE Next
    <2>1. SinConsola /\ resta' = resta /\ falla' = "ninguna" /\ programa' = programa
      BY <1>2, SinConsolaAntes, Comandos DEF Turnos
    <2>2. UnRecurso /\ Usa(r)
      BY <2>1 DEF UnRecurso, SinSenal, Usa
    <2>3. SinSenal(r)
      <3>1. \A p \in Procesos : /\ Hechas(p, "SIGNAL", r) \in Nat /\ Hechas(p, "SIGNAL", r)' = 0
                                /\ \/ Hechas(p, "SIGNAL", r)' = Hechas(p, "SIGNAL", r)
                                   \/ Hechas(p, "SIGNAL", r)' = Hechas(p, "SIGNAL", r) + 1
        BY <1>2, HechasEnUnPaso, HechasFinitas DEF SinSenal
      <3>2. \A p \in Procesos : Hechas(p, "SIGNAL", r) = 0
        BY <3>1
      <3> QED BY <2>2, <3>2 DEF SinSenal
    <2>4. Exclusivo(r) /\ Turno /\ Custodia
      BY <2>1, <2>2, <2>3 DEF Exclusiones, Turnos, Custodias
    <2>5. ~Fin("consola") /\ DelNombre(hilo["dispatch"])
      BY <2>1, <2>4, PasoDeFin DEF Turno, DeFin, DeAsignar, HilosFin, Nombres, SinConsola
    <2>6. CASE Operador
      BY <2>1, <2>4, <2>6, ExclusionOperador
    <2>7. CASE Planificadores \/ ManejaLee \/ ManejaUno
      BY <2>4, <2>7, ExclusionPlanificadores
    <2>8. CASE Cpu
      BY <2>1, <2>2, <2>3, <2>4, <2>8, ExclusionCpu
    <2>9. CASE Dispatch \/ Fin("dispatch")
      BY <2>1, <2>2, <2>4, <2>5, <2>9, ExclusionDispatch
    <2> QED BY <1>2, <2>5, <2>6, <2>7, <2>8, <2>9 DEF Next
  <1> QED BY <1>1, <1>2

(* As long as nobody signals a resource with one instance nor is ended from*)
(* the console, and programs use one resource, WAIT and the hand-over on   *)
(* exit let one process in at a time: blocked_ready, which wakes the head  *)
(* of BLOCK, wakes whom the instance was handed to.                        *)
THEOREM ElRecursoEsDeUno == Spec => []ExclusionSinSignal
  <1>1. Spec => [](Tipos /\ Nombres /\ Turnos /\ Usados /\ Custodias /\ SinUso /\ Exclusiones)
    <2>1. Init => Tipos /\ Nombres /\ Turnos /\ Usados /\ Custodias /\ SinUso /\ Exclusiones
      BY TiposAlInicio, NombresAlInicio, TurnoAlInicio, UsadosAlInicio, CustodiaAlInicio, SinUsoAlInicio,
         ExclusionAlInicio
    <2>2. Tipos /\ Nombres /\ Turnos /\ Usados /\ Custodias /\ SinUso /\ Exclusiones /\ [Next]_vars
          => Tipos' /\ Nombres' /\ Turnos' /\ Usados' /\ Custodias' /\ SinUso' /\ Exclusiones'
      BY TiposSiempre, NombresSiempre, TurnosSiempre, UsadosSiempre, CustodiaSiempre, SinUsoSiempre,
         ExclusionesSiempre
    <2> QED BY <2>1, <2>2, PTL DEF Spec
  <1>2. Tipos /\ SinUso /\ Exclusiones => ExclusionSinSignal
    <2> SUFFICES ASSUME Tipos, SinUso, Exclusiones, NEW r \in Recursos, UnRecurso, SinConsola, Instancias[r] = 1,
                        \A p \in Procesos : Hechas(p, "SIGNAL", r) = 0
                 PROVE  Cardinality({p \in Procesos \ (ToSet(colas["EXIT"]) \cup eliminados \cup {hilo[h].p : h \in HilosFin}) :
                                        Dentro(p, r) > 0}) <= 1
      BY DEF ExclusionSinSignal
    <2> DEFINE D == {p \in Procesos \ (ToSet(colas["EXIT"]) \cup eliminados \cup {hilo[h].p : h \in HilosFin}) :
                        Dentro(p, r) > 0}
    <2>1. CASE Usa(r)
      <3>1. Exclusivo(r)
        BY <2>1 DEF Exclusiones, SinSenal
      <3>2. \A p \in D : p \in Procesos /\ asignados[p][r] > 0
        <4>1. \A p \in D : p \in Procesos /\ p \notin Fuera /\ Dentro(p, r) > 0
          BY DEF Fuera, HilosFin
        <4> HIDE DEF D
        <4> QED BY <3>1, <4>1 DEF Exclusivo, Adentro
      <3> HIDE DEF D
      <3>3. \A p, q \in D : p = q
        BY <3>1, <3>2 DEF Exclusivo, Unico
      <3>4. D = {} \/ \E p : D = {p}
        BY <3>3
      <3>5. Cardinality(D) <= 1
        <4>1. CASE D = {}
          BY <4>1, FS_EmptySet
        <4>2. ASSUME NEW p, D = {p} PROVE Cardinality(D) <= 1
          <5>1. Cardinality({p}) = 1
            BY FS_Singleton
          <5> QED BY <4>2, <5>1
        <4> QED BY <3>4, <4>1, <4>2
      <3> QED BY <3>5 DEF D
    <2>2. CASE ~Usa(r)
      <3>1. \A p \in Procesos : ~(Dentro(p, r) > 0)
        <4>1. \A p \in Procesos : Hechas(p, "WAIT", r) = 0
          BY <2>2 DEF SinUso
        <4>2. \A p \in Procesos : Dentro(p, r) = 0 - 0 - (IF Pide(p, r) THEN 1 ELSE 0)
          BY <4>1, DentroEntero
        <4> QED BY <4>2
      <3>2. D = {}
        BY <3>1
      <3> QED BY <3>2, FS_EmptySet
    <2> QED BY <2>1, <2>2
  <1> QED BY <1>1, <1>2, PTL
=============================================================================
