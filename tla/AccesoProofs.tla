------------------------------ MODULE AccesoProofs ------------------------------
(***************************************************************************)
(* Proofs about AccesoMemoria.  First Inv: types, frames in one page only, *)
(* and a TLB that agrees with the page tables; it is inductive, and each   *)
(* step has a lemma.  Then the geometry of addresses (pages, offsets, and  *)
(* Lugar, the place of each byte of a process), from which a write of one  *)
(* process, which never leaves its frame, changes no other's bytes.  Last, *)
(* with what Inv2 adds about copies and interfaces half way, every step is *)
(* the one of MemoriaLogica.                                               *)
(***************************************************************************)
EXTENDS AccesoMemoria, FiniteSetTheorems, SequenceTheorems, WellFoundedInduction, TLAPS

(***************************************************************************)
(* Minima.                                                                 *)
(***************************************************************************)

(* Every non-empty set of naturals has a least element.                    *)
LEMMA MinNat ==
    ASSUME NEW T, T \subseteq Nat, T # {}
    PROVE  \E m \in T : \A k \in T : m <= k
  <1>1. \E m \in T : \A k \in T : <<k, m>> \notin OpToRel(<, Nat)
    BY WFMin, NatLessThanWellFounded
  <1>2. PICK m \in T : \A k \in T : <<k, m>> \notin OpToRel(<, Nat)
    BY <1>1
  <1>3. \A k \in T : <<k, m>> \in Nat \X Nat
    OBVIOUS
  <1>4. \A k \in T : ~(k < m)
    BY <1>2, <1>3 DEF OpToRel
  <1> QED
    BY <1>4

LEMMA MinDe ==
    ASSUME NEW T, T \subseteq Nat, T # {}
    PROVE  Min(T) \in T /\ \A k \in T : Min(T) <= k
  <1>1. \E m \in T : \A k \in T : m <= k
    BY MinNat
  <1> QED
    BY <1>1 DEF Min

LEMMA MinDos ==
    ASSUME NEW a \in Int, NEW b \in Int
    PROVE  Min({a, b}) = IF a <= b THEN a ELSE b
  <1>1. \E m \in {a, b} : \A k \in {a, b} : m <= k
    OBVIOUS
  <1>2. Min({a, b}) \in {a, b} /\ \A k \in {a, b} : Min({a, b}) <= k
    BY <1>1 DEF Min
  <1> QED
    BY <1>2

(***************************************************************************)
(* The frames asignar_paginas_nuevas gives: the k-th free one exists for   *)
(* every k up to the number of free frames, and no two are the same.       *)
(***************************************************************************)

LEMMA LibresFinito == IsFiniteSet(Libres) /\ Cardinality(Libres) \in Nat /\ Libres \subseteq Marcos
  <1>1. IsFiniteSet(Marcos)
    BY FS_Interval, TamanioAssumption DEF Marcos
  <1>2. Libres \in SUBSET Marcos
    BY DEF Libres
  <1> QED
    BY <1>1, <1>2, FS_Subset, FS_CardinalityType

LEMMA MarcosDistintos ==
    ASSUME NEW k \in 1..Cardinality(Libres)
    PROVE  MarcoLibre(k) \in Libres /\ Cardinality({g \in Libres : g < MarcoLibre(k)}) = k - 1
  <1> DEFINE c == Cardinality(Libres)
             r == [f \in Libres |-> Cardinality({g \in Libres : g < f})]
  <1>1. Libres \subseteq Int /\ c \in Nat /\ IsFiniteSet(Libres)
    BY LibresFinito DEF Marcos
  <1>2. ASSUME NEW f \in Libres
        PROVE  /\ IsFiniteSet({g \in Libres : g < f})
               /\ Cardinality({g \in Libres : g < f}) \in 0..(c - 1)
    <2>1. {g \in Libres : g < f} \in SUBSET Libres
      OBVIOUS
    <2>2. {g \in Libres : g < f} # Libres
      BY <1>1
    <2> QED
      BY <1>1, <2>1, <2>2, FS_Subset, FS_CardinalityType
  <1>3. ASSUME NEW f \in Libres, NEW h \in Libres, f < h
        PROVE  r[f] < r[h]
    <2>1. {g \in Libres : g < f} \in SUBSET {g \in Libres : g < h}
      <3>1. \A g \in Libres : g < f => g < h
        BY <1>1, <1>3
      <3> QED
        BY <3>1
    <2>2. {g \in Libres : g < f} # {g \in Libres : g < h}
      BY <1>1, <1>3
    <2>3. IsFiniteSet({g \in Libres : g < h})
      BY <1>2
    <2>4. /\ Cardinality({g \in Libres : g < f}) <= Cardinality({g \in Libres : g < h})
          /\ Cardinality({g \in Libres : g < f}) # Cardinality({g \in Libres : g < h})
      BY <2>1, <2>2, <2>3, FS_Subset
    <2>5. Cardinality({g \in Libres : g < f}) \in Int /\ Cardinality({g \in Libres : g < h}) \in Int
      BY <1>2
    <2> QED
      BY <2>4, <2>5
  <1>4. r \in [Libres -> 0..(c - 1)]
    BY <1>2
  <1>5. \A f, h \in Libres : r[f] = r[h] => f = h
    <2> SUFFICES ASSUME NEW f \in Libres, NEW h \in Libres, r[f] = r[h], f # h
                 PROVE  FALSE
      OBVIOUS
    <2>1. f < h \/ h < f
      BY <1>1
    <2>2. r[f] \in Int /\ r[h] \in Int
      BY <1>4
    <2>3. \A x, y \in Libres : x < y => r[x] < r[y]
      BY <1>3
    <2> HIDE DEF r
    <2> QED
      BY <2>1, <2>2, <2>3
  <1>6. r \in Injection(Libres, 0..(c - 1))
    <2>1. DOMAIN r = Libres
      OBVIOUS
    <2> HIDE DEF r
    <2> QED
      BY <1>4, <1>5, <2>1 DEF Injection, IsInjective
  <1>7. IsFiniteSet(0..(c - 1)) /\ Cardinality(0..(c - 1)) = c
    <2>1. c \in Nat
      BY <1>1
    <2> HIDE DEF c
    <2>2. 0 \in Int /\ c - 1 \in Int
      BY <2>1
    <2>3. IsFiniteSet(0..(c - 1)) /\ Cardinality(0..(c - 1)) = IF 0 > c - 1 THEN 0 ELSE c - 1 - 0 + 1
      BY <2>2, FS_Interval
    <2> QED
      BY <2>1, <2>3
  <1>8. r \in Surjection(Libres, 0..(c - 1))
    BY <1>6, <1>7, FS_Injection
  <1>9. k - 1 \in 0..(c - 1)
    BY <1>1
  <1>10. \E f \in Libres : r[f] = k - 1
    BY <1>8, <1>9 DEF Surjection
  <1>11. \E f \in Libres : Cardinality({g \in Libres : g < f}) = k - 1
    BY <1>10
  <1> QED
    BY <1>11 DEF MarcoLibre

(***************************************************************************)
(* The TLB and the addresses.                                              *)
(***************************************************************************)

Ent == [pid : Pids, pagina : Nat, marco : Marcos \cup {-1}, ref : Nat]

(* Two entries for the same page of the same process, with the same frame. *)
Misma(d, e) == d.pid = e.pid /\ d.pagina = e.pagina /\ d.marco = e.marco

LEMMA PedirFrameTipo ==
    ASSUME TypeOK, NEW p \in Pids, NEW g \in Nat
    PROVE  PedirFrame(p, g) \in Marcos \cup {-1}
  <1>1. paginas[p] \in Seq(Marcos)
    BY DEF TypeOK
  <1>2. g < Len(paginas[p]) => g + 1 \in 1..Len(paginas[p])
    BY <1>1
  <1> QED
    BY <1>1, <1>2, ElementOfSeq DEF PedirFrame

LEMMA FrameTipo ==
    ASSUME TypeOK, NEW p \in Pids, NEW g \in Nat
    PROVE  MarcoTlb(p, g) \in Marcos \cup {-1} /\ Frame(p, g) \in Marcos \cup {-1}
  <1>1. tlb \in Seq(Ent)
    BY DEF TypeOK, Ent
  <1>2. MarcoTlb(p, g) \in Marcos \cup {-1}
    <2>1. CASE Posiciones(p, g) = {}
      BY <2>1 DEF MarcoTlb
    <2>2. CASE Posiciones(p, g) # {}
      <3>1. Posiciones(p, g) \subseteq DOMAIN tlb /\ DOMAIN tlb = 1..Len(tlb)
        BY <1>1 DEF Posiciones
      <3>2. Min(Posiciones(p, g)) \in 1..Len(tlb)
        BY <2>2, <3>1, MinDe
      <3>3. tlb[Min(Posiciones(p, g))] \in Ent
        BY <1>1, <3>2, ElementOfSeq
      <3> QED
        BY <2>2, <3>3 DEF MarcoTlb, Ent
    <2> QED
      BY <2>1, <2>2
  <1> QED
    BY <1>2, PedirFrameTipo DEF Frame

LEMMA PaginaTipo ==
    ASSUME NEW l \in Nat
    PROVE  Pagina(l) \in Nat /\ l % TamPagina \in 0..(TamPagina - 1) /\ Hasta(l) \in 1..TamPagina
  <1>1. TamPagina \in Nat /\ TamPagina > 1
    BY TamanioAssumption
  <1>2. l \div TamPagina \in Nat /\ l % TamPagina \in 0..(TamPagina - 1)
    BY <1>1
  <1> QED
    BY <1>1, <1>2 DEF Pagina, Hasta

LEMMA FisicaTipo ==
    ASSUME TypeOK, NEW p \in Pids, NEW l \in Nat
    PROVE  Fisica(p, l) \in Nat \cup {Invalida}
  <1>1. TamPagina \in Nat /\ l % TamPagina \in Nat
    BY PaginaTipo, TamanioAssumption
  <1>2. Frame(p, Pagina(l)) \in Nat \cup {-1}
    BY FrameTipo, PaginaTipo DEF Marcos
  <1>3. Frame(p, Pagina(l)) # -1 => Frame(p, Pagina(l)) * TamPagina + (l % TamPagina) \in Nat
    BY <1>1, <1>2
  <1> QED
    BY <1>3 DEF Fisica

(* Ordena changes nothing but the times.                                   *)
LEMMA OrdenaTipo ==
    ASSUME NEW t \in Seq(Ent)
    PROVE  /\ Ordena(t) \in Seq(Ent) /\ Len(Ordena(t)) = Len(t)
           /\ \A i \in 1..Len(t) : Misma(t[i], Ordena(t)[i])
  <1> DEFINE c(i) == Cardinality({j \in DOMAIN t : t[j].ref < t[i].ref})
  <1>1. DOMAIN t = 1..Len(t) /\ Len(t) \in Nat
    OBVIOUS
  <1>2. ASSUME NEW i \in 1..Len(t)
        PROVE  c(i) \in Nat
    <2>1. {j \in DOMAIN t : t[j].ref < t[i].ref} \in SUBSET (1..Len(t))
      BY <1>1
    <2> QED
      <3>1. 1 \in Int /\ Len(t) \in Int
        BY <1>1
      <3>2. IsFiniteSet(1..Len(t))
        BY <3>1, FS_Interval
      <3> QED
        BY <2>1, <3>2, FS_Subset, FS_CardinalityType
  <1> HIDE DEF c
  <1>3. Ordena(t) = [i \in 1..Len(t) |-> [t[i] EXCEPT !.ref = c(i)]]
    BY <1>1 DEF Ordena, c
  <1>4. ASSUME NEW i \in 1..Len(t)
        PROVE  [t[i] EXCEPT !.ref = c(i)] \in Ent /\ Misma(t[i], [t[i] EXCEPT !.ref = c(i)])
    <2>1. t[i] \in Ent
      BY ElementOfSeq
    <2> QED
      BY <1>2, <2>1 DEF Ent, Misma
  <1> DEFINE o == Ordena(t)
  <1>5. o = [i \in 1..Len(t) |-> [t[i] EXCEPT !.ref = c(i)]]
    BY <1>3
  <1>6. \A i \in 1..Len(t) : o[i] \in Ent /\ Misma(t[i], o[i])
    BY <1>4, <1>5
  <1>7. DOMAIN o = 1..Len(t)
    BY <1>5
  <1> HIDE DEF o
  <1>8. o \in [1..Len(t) -> Ent]
    BY <1>5, <1>6, <1>7
  <1>9. o \in Seq(Ent) /\ Len(o) = Len(t)
    BY <1>1, <1>8
  <1> QED
    BY <1>6, <1>9 DEF o

(* A translation leaves in the TLB entries that were in it, and at most one*)
(* more, with what memoria answers.                                        *)
LEMMA ReferenciaTipo ==
    ASSUME TypeOK, NEW p \in Pids, NEW g \in Nat
    PROVE  /\ Referencia(p, g) \in Seq(Ent) /\ Len(Referencia(p, g)) <= EntradasTlb
           /\ \A i \in 1..Len(Referencia(p, g)) :
                 \/ \E j \in 1..Len(tlb) : Misma(tlb[j], Referencia(p, g)[i])
                 \/ /\ Referencia(p, g)[i].pid = p /\ Referencia(p, g)[i].pagina = g
                    /\ Referencia(p, g)[i].marco = PedirFrame(p, g)
  <1> DEFINE m == Min(Posiciones(p, g))
             u == IF Algoritmo = "LRU" /\ Posiciones(p, g) # {}
                  THEN [tlb EXCEPT ![m].ref = Ahora] ELSE tlb
             n == [pid |-> p, pagina |-> g, marco |-> PedirFrame(p, g), ref |-> Ahora]
  <1>1. tlb \in Seq(Ent) /\ Len(tlb) <= EntradasTlb
    BY DEF TypeOK, Ent
  <1>2. EntradasTlb \in Nat /\ Ahora \in Nat
    BY TamanioAssumption DEF Ahora
  <1>3. n \in Ent
    BY <1>2, PedirFrameTipo DEF Ent
  <1>4. \A e : Misma(e, e)
    BY DEF Misma
  <1>5. u \in Seq(Ent) /\ Len(u) = Len(tlb) /\ \A i \in 1..Len(u) : Misma(tlb[i], u[i])
    <2>1. CASE u = tlb
      BY <1>1, <1>4, <2>1
    <2>2. CASE u = [tlb EXCEPT ![m].ref = Ahora]
      <3>1. ASSUME NEW i \in 1..Len(tlb)
            PROVE  u[i] \in Ent /\ Misma(tlb[i], u[i])
        <4>1. tlb[i] \in Ent
          BY <1>1, ElementOfSeq
        <4>2. u[i] = tlb[i] \/ u[i] = [tlb[i] EXCEPT !.ref = Ahora]
          BY <1>1, <2>2
        <4> QED
          BY <1>2, <1>4, <4>1, <4>2 DEF Ent, Misma
      <3>2. DOMAIN u = 1..Len(tlb) /\ Len(tlb) \in Nat
        BY <1>1, <2>2
      <3> HIDE DEF u
      <3>3. u \in [1..Len(tlb) -> Ent]
        BY <2>2, <3>1, <3>2
      <3> QED
        BY <3>1, <3>2, <3>3
    <2> QED
      BY <2>1, <2>2
  <1> HIDE DEF u, n
  <1> DEFINE a == Agrega(u, n)
  <1>6. EntradasTlb # 0 => /\ a \in Seq(Ent) /\ Len(a) <= EntradasTlb
                           /\ \A i \in 1..Len(a) : a[i] = n \/ (i \in 1..Len(u) /\ a[i] = u[i])
    <2>1. CASE Len(u) = EntradasTlb
      <3>1. a = [u EXCEPT ![Menor(u)] = n]
        BY <2>1 DEF Agrega
      <3>2. a \in Seq(Ent) /\ Len(a) = Len(u)
        <4>1. u \in [1..Len(u) -> Ent] /\ Len(u) \in Nat
          BY <1>5
        <4>2. a \in [1..Len(u) -> Ent]
          BY <1>3, <3>1, <4>1
        <4> QED
          BY <4>1, <4>2
      <3>3. \A i \in 1..Len(u) : a[i] = n \/ a[i] = u[i]
        BY <1>5, <3>1
      <3> QED
        BY <1>1, <1>5, <3>2, <3>3
    <2>2. CASE Len(u) # EntradasTlb
      <3>1. a = Append(u, n)
        BY <2>2 DEF Agrega
      <3>2. a \in Seq(Ent) /\ Len(a) = Len(u) + 1
        BY <1>3, <1>5, <3>1
      <3>3. \A i \in 1..Len(a) : a[i] = n \/ (i \in 1..Len(u) /\ a[i] = u[i])
        BY <1>5, <3>1, <3>2
      <3> QED
        BY <1>1, <1>2, <1>5, <2>2, <3>2, <3>3
    <2> QED
      BY <2>1, <2>2
  <1> HIDE DEF a
  <1>7. Referencia(p, g) \in {tlb, Ordena(u)} \/ (EntradasTlb # 0 /\ Referencia(p, g) = Ordena(a))
    BY DEF Referencia, u, a, n
  <1>8. CASE Referencia(p, g) = tlb
    BY <1>1, <1>4, <1>8
  <1>9. CASE Referencia(p, g) = Ordena(u)
    <2>1. /\ Ordena(u) \in Seq(Ent) /\ Len(Ordena(u)) = Len(u)
          /\ \A i \in 1..Len(u) : Misma(u[i], Ordena(u)[i])
      BY <1>5, OrdenaTipo
    <2>2. \A i \in 1..Len(u) : Misma(tlb[i], Ordena(u)[i])
      BY <1>5, <2>1 DEF Misma
    <2> QED
      BY <1>1, <1>5, <1>9, <2>1, <2>2
  <1>10. CASE EntradasTlb # 0 /\ Referencia(p, g) = Ordena(a)
    <2> DEFINE o == Ordena(a)
    <2>1. o \in Seq(Ent) /\ Len(o) = Len(a) /\ \A i \in 1..Len(a) : Misma(a[i], o[i])
      BY <1>6, <1>10, OrdenaTipo
    <2>2. ASSUME NEW i \in 1..Len(a)
          PROVE  \/ \E j \in 1..Len(tlb) : Misma(tlb[j], o[i])
                 \/ o[i].pid = p /\ o[i].pagina = g /\ o[i].marco = PedirFrame(p, g)
      <3>1. Misma(a[i], o[i])
        BY <2>1
      <3> HIDE DEF o
      <3>2. CASE a[i] = n
        BY <3>1, <3>2 DEF Misma, n
      <3>3. CASE i \in 1..Len(u) /\ a[i] = u[i]
        <4>1. Misma(tlb[i], u[i]) /\ i \in 1..Len(tlb)
          BY <1>5, <3>3
        <4>2. Misma(tlb[i], o[i])
          BY <3>1, <3>3, <4>1 DEF Misma
        <4> QED
          BY <4>1, <4>2
      <3> QED
        BY <1>6, <1>10, <3>2, <3>3
    <2>3. Referencia(p, g) = o
      BY <1>10
    <2> HIDE DEF o
    <2> QED
      BY <1>6, <1>10, <2>1, <2>2, <2>3
  <1> QED
    BY <1>7, <1>8, <1>9, <1>10

(***************************************************************************)
(* TypeOK in parts.                                                        *)
(***************************************************************************)

TPaginas == paginas \in [Pids -> Seq(Marcos)]
SinCompartir ==
    \A p, q \in Pids : \A i \in DOMAIN paginas[p], j \in DOMAIN paginas[q] :
        paginas[p][i] = paginas[q][j] => p = q /\ i = j
TEspacio == espacio \in [0..(Fin - 1) -> Byte]
TTlb == tlb \in Seq(Ent) /\ Len(tlb) <= EntradasTlb
TCpu == enCpu \in Pids \cup {NULO} /\ leido \in Seq(Byte) /\ destino \in Nat \cup {Invalida}
Pedidos == [op : {"no", "STDIN", "STDOUT"}, df : Nat \cup {Invalida}, n : Nat, l : Nat]
TPend == pend \in [Pids -> Pedidos]
TPids == terminados \subseteq creados /\ creados \subseteq Pids /\ inestable \subseteq Pids
TCaida == caida \in BOOLEAN

LEMMA Partes ==
    TypeOK <=> TPaginas /\ SinCompartir /\ TEspacio /\ TTlb /\ TCpu /\ TPend /\ TPids /\ TCaida
  BY DEF TypeOK, TPaginas, SinCompartir, TEspacio, TTlb, Ent, TCpu, Pedidos, TPend, TPids, TCaida

LEMMA PartesPrima ==
    TypeOK' <=> TPaginas' /\ SinCompartir' /\ TEspacio' /\ TTlb' /\ TCpu' /\ TPend' /\ TPids' /\ TCaida'
  BY DEF TypeOK, TPaginas, SinCompartir, TEspacio, TTlb, Ent, TCpu, Pedidos, TPend, TPids, TCaida

LEMMA Medidas ==
    /\ TamPagina \in Nat /\ TamPagina > 1 /\ CantMarcos \in Nat /\ Fin \in Nat
    /\ \A f \in Marcos : f \in Nat /\ f < CantMarcos
  <1>1. CantMarcos * TamPagina \in Nat
    BY TamanioAssumption
  <1> QED
    BY <1>1, TamanioAssumption DEF Fin, Marcos

LEMMA EscribeTipo ==
    ASSUME TEspacio, NEW p, NEW df \in Nat \cup {Invalida}, NEW s \in Seq(Byte),
           EscribeEspacio(p, df, s)
    PROVE  TEspacio'
  <1>1. DOMAIN espacio = 0..(Fin - 1) /\ Fin \in Nat
    BY Medidas DEF TEspacio
  <1>2. espacio' = [b \in 0..(Fin - 1) |->
            IF Alcanzable(p, df) /\ b \in df..(df + Len(s) - 1) THEN s[b - df + 1] ELSE espacio[b]]
    BY <1>1 DEF EscribeEspacio
  <1>3. ASSUME NEW b \in 0..(Fin - 1), Alcanzable(p, df), b \in df..(df + Len(s) - 1)
        PROVE  s[b - df + 1] \in Byte
    <2>1. df \in Nat
      BY <1>3 DEF Alcanzable
    <2>2. b - df + 1 \in 1..Len(s)
      BY <1>3, <2>1
    <2> QED
      BY <2>2, ElementOfSeq
  <1>4. \A b \in 0..(Fin - 1) : espacio[b] \in Byte
    BY DEF TEspacio
  <1> QED
    BY <1>2, <1>3, <1>4 DEF TEspacio

(* What an instruction that translates l does to the TLB keeps it in order.*)
LEMMA TraduceBien ==
    ASSUME TypeOK, TlbCoherente, enCpu \in Pids, NEW l \in Nat, Traduce(l),
           UNCHANGED paginas, inestable \subseteq inestable'
    PROVE  TTlb' /\ TlbCoherente'
  <1> DEFINE g == Pagina(l)
  <1>1. g \in Nat
    BY PaginaTipo
  <1> HIDE DEF g
  <1>2. tlb' = Referencia(enCpu, g)
    BY DEF Traduce, g
  <1>3. /\ tlb' \in Seq(Ent) /\ Len(tlb') <= EntradasTlb
        /\ \A i \in 1..Len(tlb') :
                 \/ \E j \in 1..Len(tlb) : Misma(tlb[j], tlb'[i])
                 \/ tlb'[i].pid = enCpu /\ tlb'[i].pagina = g /\ tlb'[i].marco = PedirFrame(enCpu, g)
    BY <1>1, <1>2, ReferenciaTipo
  <1>4. TTlb'
    BY <1>3 DEF TTlb, Ent
  <1>5. ASSUME NEW i \in DOMAIN tlb', tlb'[i].pid \notin inestable', tlb'[i].marco # -1
        PROVE  /\ tlb'[i].pagina < Len(paginas[tlb'[i].pid])
               /\ paginas[tlb'[i].pid][tlb'[i].pagina + 1] = tlb'[i].marco
    <2>1. i \in 1..Len(tlb')
      BY <1>3
    <2>2. CASE \E j \in 1..Len(tlb) : Misma(tlb[j], tlb'[i])
      <3>1. PICK j \in 1..Len(tlb) : Misma(tlb[j], tlb'[i])
        BY <2>2
      <3>2. j \in DOMAIN tlb
        BY <3>1 DEF TypeOK
      <3>3. tlb[j].pid \notin inestable /\ tlb[j].marco # -1
        BY <1>5, <3>1 DEF Misma
      <3>4. /\ tlb[j].pagina < Len(paginas[tlb[j].pid])
            /\ paginas[tlb[j].pid][tlb[j].pagina + 1] = tlb[j].marco
        BY <3>2, <3>3 DEF TlbCoherente
      <3> QED
        BY <3>1, <3>4 DEF Misma
    <2>3. CASE tlb'[i].pid = enCpu /\ tlb'[i].pagina = g /\ tlb'[i].marco = PedirFrame(enCpu, g)
      BY <1>5, <2>3 DEF PedirFrame
    <2> QED
      BY <1>3, <2>1, <2>2, <2>3
  <1> QED
    BY <1>4, <1>5 DEF TlbCoherente

(* A step that leaves the TLB alone, and only makes tables longer or marks *)
(* whoever loses pages.                                                    *)
LEMMA SigueCoherente ==
    ASSUME TypeOK, TypeOK', TlbCoherente, UNCHANGED tlb, inestable \subseteq inestable',
           \A p \in Pids \ inestable' :
               /\ Len(paginas[p]) <= Len(paginas'[p])
               /\ \A k \in 1..Len(paginas[p]) : paginas'[p][k] = paginas[p][k]
    PROVE  TlbCoherente'
  <1> SUFFICES ASSUME NEW i \in DOMAIN tlb, tlb[i].pid \notin inestable', tlb[i].marco # -1
               PROVE  /\ tlb[i].pagina < Len(paginas'[tlb[i].pid])
                      /\ paginas'[tlb[i].pid][tlb[i].pagina + 1] = tlb[i].marco
    BY DEF TlbCoherente
  <1>1. tlb \in Seq(Ent)
    BY DEF TypeOK, Ent
  <1>2. tlb[i] \in Ent
    BY <1>1
  <1> DEFINE p == tlb[i].pid
             g == tlb[i].pagina
  <1>3. p \in Pids \ inestable' /\ g \in Nat
    BY <1>2 DEF Ent
  <1>4. g < Len(paginas[p]) /\ paginas[p][g + 1] = tlb[i].marco
    BY DEF TlbCoherente
  <1>5. paginas[p] \in Seq(Marcos) /\ paginas'[p] \in Seq(Marcos)
    BY <1>3 DEF TypeOK
  <1>6. Len(paginas[p]) \in Nat /\ Len(paginas'[p]) \in Nat
    BY <1>5
  <1> HIDE DEF p, g
  <1>7. g + 1 \in 1..Len(paginas[p])
    BY <1>3, <1>4, <1>6
  <1>8. paginas'[p][g + 1] = paginas[p][g + 1] /\ Len(paginas[p]) <= Len(paginas'[p])
    BY <1>3, <1>7
  <1> QED
    BY <1>3, <1>4, <1>6, <1>8 DEF p, g

LEMMA TextoTipo ==
    ASSUME TEspacio, NEW df \in Nat, NEW n \in Nat, NEW x \in Byte
    PROVE  Crudo(df, n, x) \in Seq(Byte) /\ Texto(Crudo(df, n, x), x) \in Seq(Byte)
           /\ Len(Crudo(df, n, x)) = n /\ Len(Texto(Crudo(df, n, x), x)) = n
  <1> DEFINE c == Crudo(df, n, x)
  <1>1. c = [k \in 1..n |-> IF df + k - 1 < Fin THEN espacio[df + k - 1] ELSE x]
    BY DEF Crudo
  <1>2. ASSUME NEW k \in 1..n
        PROVE  (IF df + k - 1 < Fin THEN espacio[df + k - 1] ELSE x) \in Byte
    <2>1. df + k - 1 < Fin => df + k - 1 \in 0..(Fin - 1)
      BY Medidas
    <2> QED
      BY <2>1 DEF TEspacio
  <1>3. c \in [1..n -> Byte]
    BY <1>1, <1>2
  <1> HIDE DEF c
  <1>4. c \in Seq(Byte) /\ Len(c) = n /\ DOMAIN c = 1..n
    BY <1>3
  <1>5. Texto(c, x) \in [1..n -> Byte]
    BY <1>3, <1>4 DEF Texto
  <1>6. Texto(c, x) \in Seq(Byte) /\ Len(Texto(c, x)) = n
    BY <1>5
  <1> QED
    BY <1>4, <1>6 DEF c

(***************************************************************************)
(* The steps.                                                              *)
(***************************************************************************)

(* A string is copied by a process.                                        *)
EnCopia == destino # Invalida => enCpu # NULO

Inv == TypeOK /\ TlbCoherente /\ EnCopia

LEMMA EnPids ==
    ASSUME TypeOK
    PROVE  /\ enCpu # NULO => enCpu \in Pids
           /\ Listo => enCpu \in Pids /\ destino = Invalida
  BY DEF TypeOK, Listo

LEMMA PasoMovIn ==
    ASSUME Inv, NEW l \in Dirs, MovIn(l)
    PROVE  Inv'
  <1> DEFINE df == Fisica(enCpu, l)
  <1>1. TypeOK /\ TlbCoherente /\ EnCopia /\ l \in Nat
    BY PedidosAssumption DEF Inv
  <1>2. enCpu \in Pids /\ Listo /\ destino = Invalida
    BY <1>1, EnPids DEF MovIn
  <1>3. df \in Nat \cup {Invalida}
    BY <1>1, <1>2, FisicaTipo
  <1> HIDE DEF df
  <1>4. /\ Traduce(l) /\ Cae(enCpu, df)
        /\ leido' = IF Alcanzable(enCpu, df) THEN Crudo(df, 1, CERO) ELSE <<>>
        /\ UNCHANGED <<paginas, espacio, enCpu, destino, vPid>>
    BY DEF MovIn, df
  <1>5. TTlb' /\ TlbCoherente'
    BY <1>1, <1>2, <1>4, TraduceBien DEF vPid
  <1>6. leido' \in Seq(Byte)
    <2>1. CASE Alcanzable(enCpu, df)
      <3>1. df \in Nat
        BY <1>3, <2>1 DEF Alcanzable
      <3>2. TEspacio /\ CERO \in Byte /\ 1 \in Nat
        BY <1>1, Partes, ByteAssumption
      <3> QED
        BY <1>4, <2>1, <3>1, <3>2, TextoTipo
    <2>2. CASE ~Alcanzable(enCpu, df)
      BY <1>4, <2>2
    <2> QED
      BY <2>1, <2>2
  <1>7. caida' \in BOOLEAN
    BY <1>4 DEF Cae
  <1>8. TPaginas' /\ SinCompartir' /\ TEspacio' /\ TCpu' /\ TPend' /\ TPids' /\ TCaida'
    BY <1>1, <1>4, <1>6, <1>7, Partes
       DEF TPaginas, SinCompartir, TEspacio, TCpu, TPend, TPids, TCaida, vPid
  <1>9. EnCopia'
    BY <1>1, <1>4 DEF EnCopia
  <1> QED
    BY <1>5, <1>8, <1>9, PartesPrima DEF Inv

LEMMA PasoMovOut ==
    ASSUME Inv, NEW l \in Dirs, NEW d \in Byte, MovOut(l, d)
    PROVE  Inv'
  <1> DEFINE df == Fisica(enCpu, l)
  <1>1. TypeOK /\ TlbCoherente /\ EnCopia /\ l \in Nat
    BY PedidosAssumption DEF Inv
  <1>2. enCpu \in Pids
    BY <1>1, EnPids DEF MovOut
  <1>3. df \in Nat \cup {Invalida}
    BY <1>1, <1>2, FisicaTipo
  <1> HIDE DEF df
  <1>4. /\ Traduce(l) /\ EscribeEspacio(enCpu, df, <<d>>) /\ leido' = <<>>
        /\ UNCHANGED <<paginas, caida, enCpu, destino, vPid>>
    BY DEF MovOut, df
  <1>5. TTlb' /\ TlbCoherente'
    BY <1>1, <1>2, <1>4, TraduceBien DEF vPid
  <1>6. TEspacio'
    <2>1. TEspacio /\ <<d>> \in Seq(Byte)
      BY <1>1, Partes
    <2> QED
      BY <1>3, <1>4, <2>1, EscribeTipo
  <1>7. TPaginas' /\ SinCompartir' /\ TCpu' /\ TPend' /\ TPids' /\ TCaida'
    BY <1>1, <1>4, Partes DEF TPaginas, SinCompartir, TCpu, TPend, TPids, TCaida, vPid
  <1>8. EnCopia'
    BY <1>1, <1>4 DEF EnCopia
  <1> QED
    BY <1>5, <1>6, <1>7, <1>8, PartesPrima DEF Inv

LEMMA PasoCopiaLee ==
    ASSUME Inv, NEW si \in Dirs, NEW di \in Dirs, NEW n \in Largos, CopiaLee(si, di, n)
    PROVE  Inv'
  <1> DEFINE df == Fisica(enCpu, si)
  <1>1. TypeOK /\ TlbCoherente /\ EnCopia /\ si \in Nat /\ di \in Nat /\ n \in Nat
    BY PedidosAssumption, TamanioAssumption DEF Inv
  <1>2. enCpu \in Pids /\ enCpu # NULO
    BY <1>1, EnPids DEF CopiaLee, Listo
  <1>3. df \in Nat \cup {Invalida}
    BY <1>1, <1>2, FisicaTipo
  <1> HIDE DEF df
  <1>4. PICK x \in Byte :
        leido' = IF Alcanzable(enCpu, df) THEN Texto(Crudo(df, n, x), x) ELSE [k \in 1..n |-> CERO]
    BY DEF CopiaLee, df
  <1>5. /\ Traduce(si) /\ Cae(enCpu, df) /\ destino' = di
        /\ UNCHANGED <<paginas, espacio, enCpu, vPid>>
    BY DEF CopiaLee, df
  <1>6. TTlb' /\ TlbCoherente'
    BY <1>1, <1>2, <1>5, TraduceBien DEF vPid
  <1>7. leido' \in Seq(Byte)
    <2>1. CASE Alcanzable(enCpu, df)
      <3>1. df \in Nat
        BY <1>3, <2>1 DEF Alcanzable
      <3>2. TEspacio
        BY <1>1, Partes
      <3> QED
        BY <1>1, <1>4, <2>1, <3>1, <3>2, TextoTipo
    <2>2. CASE ~Alcanzable(enCpu, df)
      <3>1. [k \in 1..n |-> CERO] \in [1..n -> Byte]
        BY ByteAssumption
      <3> QED
        BY <1>1, <1>4, <2>2, <3>1
    <2> QED
      BY <2>1, <2>2
  <1>8. caida' \in BOOLEAN
    BY <1>5 DEF Cae
  <1>9. TPaginas' /\ SinCompartir' /\ TEspacio' /\ TCpu' /\ TPend' /\ TPids' /\ TCaida'
    BY <1>1, <1>5, <1>7, <1>8, Partes
       DEF TPaginas, SinCompartir, TEspacio, TCpu, TPend, TPids, TCaida, vPid
  <1>10. EnCopia'
    BY <1>2, <1>5 DEF EnCopia
  <1> QED
    BY <1>6, <1>9, <1>10, PartesPrima DEF Inv

LEMMA PasoCopiaEscribe ==
    ASSUME Inv, CopiaEscribe
    PROVE  Inv'
  <1> DEFINE df == Fisica(enCpu, destino)
             n == Min({Hasta(destino), Len(leido)})
  <1>1. TypeOK /\ TlbCoherente /\ EnCopia /\ leido \in Seq(Byte)
    BY DEF Inv, TypeOK
  <1>2. enCpu \in Pids /\ destino \in Nat
    BY <1>1, EnPids DEF CopiaEscribe, TypeOK, EnCopia
  <1>3. df \in Nat \cup {Invalida}
    BY <1>1, <1>2, FisicaTipo
  <1>4. n \in Nat /\ n <= Len(leido)
    <2>1. Len(leido) \in Nat
      BY <1>1
    <2>2. Hasta(destino) \in 1..TamPagina
      BY <1>2, PaginaTipo
    <2>3. Hasta(destino) \in Nat
      BY <2>2, Medidas
    <2> QED
      BY <2>1, <2>3, MinDos
  <1> HIDE DEF df, n
  <1>5. /\ Traduce(destino) /\ EscribeEspacio(enCpu, df, SubSeq(leido, 1, n))
        /\ \/ leido' = <<>> /\ destino' = Invalida
           \/ leido' = SubSeq(leido, n + 1, Len(leido)) /\ destino' = destino + n
        /\ UNCHANGED <<paginas, caida, enCpu, vPid>>
    BY DEF CopiaEscribe, df, n
  <1>6. TTlb' /\ TlbCoherente'
    BY <1>1, <1>2, <1>5, TraduceBien DEF vPid
  <1>7. SubSeq(leido, 1, n) \in Seq(Byte) /\ SubSeq(leido, n + 1, Len(leido)) \in Seq(Byte)
    BY <1>1, <1>4, SubSeqProperties
  <1>8. TEspacio'
    <2>1. TEspacio
      BY <1>1, Partes
    <2> QED
      BY <1>3, <1>5, <1>7, <2>1, EscribeTipo
  <1>9. TPaginas' /\ SinCompartir' /\ TPend' /\ TPids' /\ TCaida'
    BY <1>1, <1>5, Partes DEF TPaginas, SinCompartir, TPend, TPids, TCaida, vPid
  <1>10. TCpu'
    <2> DEFINE a == SubSeq(leido, n + 1, Len(leido))
    <2>0. a \in Seq(Byte) /\ <<>> \in Seq(Byte)
      BY <1>7
    <2> HIDE DEF a
    <2>1. leido' \in Seq(Byte) /\ enCpu' \in Pids
      <3>1. leido' = <<>> \/ leido' = a
        BY <1>5 DEF a
      <3> QED
        BY <1>2, <1>5, <2>0, <3>1
    <2>2. destino' \in Nat \cup {Invalida}
      BY <1>2, <1>4, <1>5
    <2> QED
      BY <2>1, <2>2 DEF TCpu
  <1>11. EnCopia'
    BY <1>2, <1>5, NuloAssumption DEF EnCopia
  <1> QED
    BY <1>6, <1>8, <1>9, <1>10, <1>11, PartesPrima DEF Inv

LEMMA PasoPideIO ==
    ASSUME Inv, NEW op \in {"STDIN", "STDOUT"}, NEW l \in Dirs, NEW n \in Largos, PideIO(op, l, n)
    PROVE  Inv'
  <1> DEFINE df == Fisica(enCpu, l)
  <1>1. TypeOK /\ TlbCoherente /\ l \in Nat /\ n \in Nat
    BY PedidosAssumption, TamanioAssumption DEF Inv
  <1>2. enCpu \in Pids /\ destino = Invalida
    BY <1>1, EnPids DEF PideIO
  <1>3. df \in Nat \cup {Invalida}
    BY <1>1, <1>2, FisicaTipo
  <1> HIDE DEF df
  <1>4. /\ Traduce(l) /\ pend' = [pend EXCEPT ![enCpu] = [op |-> op, df |-> df, n |-> n, l |-> l]]
        /\ inestable' \in {inestable, inestable \cup {enCpu}}
        /\ enCpu' = NULO /\ leido' = <<>>
        /\ UNCHANGED <<vMem, destino, creados, terminados>>
    BY DEF PideIO, df
  <1>5. TTlb' /\ TlbCoherente'
    BY <1>1, <1>2, <1>4, TraduceBien DEF vMem
  <1>6. TPaginas' /\ SinCompartir' /\ TEspacio' /\ TCaida'
    BY <1>1, <1>4, Partes DEF TPaginas, SinCompartir, TEspacio, TCaida, vMem
  <1>7. TCpu' /\ TPids'
    BY <1>1, <1>2, <1>4, Partes DEF TCpu, TPids
  <1>8. TPend'
    <2>1. [op |-> op, df |-> df, n |-> n, l |-> l] \in Pedidos
      BY <1>1, <1>3 DEF Pedidos
    <2>2. pend \in [Pids -> Pedidos]
      BY <1>1, Partes DEF TPend
    <2> QED
      BY <1>4, <2>1, <2>2 DEF TPend
  <1>9. EnCopia'
    BY <1>2, <1>4 DEF EnCopia
  <1> QED
    BY <1>5, <1>6, <1>7, <1>8, <1>9, PartesPrima DEF Inv

(* Steps that do not touch the TLB.                                        *)
LEMMA QuietaTlb ==
    ASSUME Inv, UNCHANGED <<paginas, tlb>>, inestable \subseteq inestable'
    PROVE  TTlb' /\ TlbCoherente' /\ TPaginas' /\ SinCompartir'
  <1>1. TTlb /\ TPaginas /\ SinCompartir /\ TlbCoherente
    BY Partes DEF Inv
  <1> QED
    BY <1>1 DEF TTlb, Ent, TPaginas, SinCompartir, TlbCoherente

LEMMA PasoStdin ==
    ASSUME Inv, NEW p \in Pids, Stdin(p)
    PROVE  Inv'
  <1> DEFINE e == pend[p]
             n == Min({Hasta(e.df), e.n})
  <1>1. TypeOK /\ EnCopia /\ e \in Pedidos
    BY DEF Inv, TypeOK, Pedidos
  <1>2. e.df \in Nat \cup {Invalida} /\ e.n \in Nat /\ e.l \in Nat
    BY <1>1 DEF Pedidos
  <1>3. n \in Nat /\ n <= e.n
    <2>1. CASE e.df \in Nat
      <3>1. Hasta(e.df) \in Nat
        BY <2>1, PaginaTipo
      <3> QED
        BY <1>2, <3>1, MinDos
    <2>2. CASE e.df = Invalida
      <3>1. TamPagina \in Nat /\ TamPagina > 1
        BY Medidas
      <3>2. (-1) % TamPagina \in 0..(TamPagina - 1)
        BY <3>1
      <3>3. Hasta(e.df) \in Nat
        BY <2>2, <3>1, <3>2 DEF Hasta, Invalida
      <3> QED
        BY <1>2, <3>3, MinDos
    <2> QED
      BY <1>2, <2>1, <2>2
  <1>4. PICK d \in Byte \ {CERO} : EscribeEspacio(p, e.df, [k \in 1..n |-> d])
    BY DEF Stdin
  <1>5. /\ pend' = [pend EXCEPT ![p] = IF e.df = Invalida \/ n = e.n THEN NoPide
                                       ELSE [e EXCEPT !.df = e.df + n, !.n = e.n - n]]
        /\ caida' \in BOOLEAN
        /\ UNCHANGED <<paginas, vCpu, creados, terminados, inestable>>
    BY DEF Stdin
  <1>6. TEspacio'
    <2>1. [k \in 1..n |-> d] \in [1..n -> Byte]
      OBVIOUS
    <2> HIDE DEF n
    <2>2. [k \in 1..n |-> d] \in Seq(Byte)
      BY <1>3, <2>1
    <2>3. TEspacio
      BY <1>1, Partes
    <2> QED
      BY <1>2, <1>4, <2>2, <2>3, EscribeTipo
  <1>7. TPend'
    <2> DEFINE z == IF e.df = Invalida \/ n = e.n THEN NoPide
                    ELSE [e EXCEPT !.df = e.df + n, !.n = e.n - n]
    <2>1. z \in Pedidos
      <3>1. NoPide \in Pedidos
        BY DEF NoPide, Pedidos
      <3>2. ~(e.df = Invalida \/ n = e.n) => [e EXCEPT !.df = e.df + n, !.n = e.n - n] \in Pedidos
        <4> HIDE DEF n, e
        <4>1. ~(e.df = Invalida \/ n = e.n) => e.df + n \in Nat /\ e.n - n \in Nat
          BY <1>2, <1>3
        <4> QED
          BY <1>1, <4>1 DEF Pedidos
      <3> HIDE DEF n, e
      <3> QED
        BY <3>1, <3>2
    <2>2. pend \in [Pids -> Pedidos]
      BY <1>1, Partes DEF TPend
    <2> HIDE DEF z
    <2>3. pend' = [pend EXCEPT ![p] = z]
      BY <1>5 DEF z
    <2> QED
      BY <2>1, <2>2, <2>3 DEF TPend
  <1>8. TTlb' /\ TlbCoherente' /\ TPaginas' /\ SinCompartir'
    BY <1>5, QuietaTlb DEF vCpu
  <1>9. TCpu' /\ TPids' /\ TCaida' /\ EnCopia'
    BY <1>1, <1>5, Partes DEF TCpu, TPids, TCaida, EnCopia, vCpu
  <1> QED
    BY <1>6, <1>7, <1>8, <1>9, PartesPrima DEF Inv

LEMMA PasoStdout ==
    ASSUME Inv, NEW p \in Pids, Stdout(p)
    PROVE  Inv'
  <1>1. TypeOK /\ EnCopia
    BY DEF Inv
  <1>2. TTlb' /\ TlbCoherente' /\ TPaginas' /\ SinCompartir'
    BY QuietaTlb DEF Stdout, vCpu
  <1>3. TPend'
    <2>1. NoPide \in Pedidos
      BY DEF NoPide, Pedidos
    <2> QED
      BY <1>1, <2>1, Partes DEF TPend, Stdout
  <1>4. caida' \in BOOLEAN
    BY DEF Stdout, Cae
  <1>5. TEspacio' /\ TCpu' /\ TPids' /\ TCaida' /\ EnCopia'
    BY <1>1, <1>4, Partes DEF TEspacio, TCpu, TPids, TCaida, EnCopia, Stdout, vCpu
  <1> QED
    BY <1>2, <1>3, <1>5, PartesPrima DEF Inv

LEMMA PasoDelKernel ==
    ASSUME Inv, NEW p \in Pids, Inicia(p) \/ Entra(p) \/ Sale
    PROVE  Inv'
  <1>1. TypeOK /\ EnCopia
    BY DEF Inv
  <1>2. TTlb' /\ TlbCoherente' /\ TPaginas' /\ SinCompartir'
    BY QuietaTlb DEF Inicia, Entra, Sale, vMem, vCpu, vPid
  <1>3. TPend' /\ TEspacio' /\ TCaida'
    BY <1>1, Partes DEF TPend, TEspacio, TCaida, Inicia, Entra, Sale, vMem, vPid
  <1>4. TCpu' /\ TPids'
    <2>1. TCpu /\ TPids
      BY <1>1, Partes
    <2>2. CASE Inicia(p)
      BY <2>1, <2>2 DEF TCpu, TPids, Inicia, vCpu
    <2>3. CASE Entra(p) \/ Sale
      <3>1. leido' = <<>> /\ enCpu' \in {p, NULO} /\ UNCHANGED <<destino, vPid>>
        BY <2>3 DEF Entra, Sale
      <3> QED
        BY <2>1, <3>1 DEF TCpu, TPids, vPid
    <2> QED
      BY <2>2, <2>3
  <1>5. EnCopia'
    BY <1>1, NuloAssumption DEF EnCopia, Inicia, Entra, Sale, Listo, vCpu
  <1> QED
    BY <1>2, <1>3, <1>4, <1>5, PartesPrima DEF Inv

LEMMA PasoFinaliza ==
    ASSUME Inv, NEW p \in Pids, Finaliza(p)
    PROVE  Inv'
  <1>1. TypeOK /\ TlbCoherente /\ EnCopia
    BY DEF Inv
  <1>2. /\ paginas' = [paginas EXCEPT ![p] = <<>>] /\ inestable' = inestable \cup {p}
        /\ terminados' = terminados \cup {p} /\ p \in creados
        /\ UNCHANGED <<espacio, caida, vCpu, pend, creados>>
    BY DEF Finaliza
  <1>3. TPaginas /\ SinCompartir
    BY <1>1, Partes
  <1>4. paginas'[p] = <<>> /\ \A q \in Pids \ {p} : paginas'[q] = paginas[q]
    BY <1>2, <1>3 DEF TPaginas
  <1>5. TPaginas'
    BY <1>2, <1>3 DEF TPaginas
  <1>6. SinCompartir'
    <2> SUFFICES ASSUME NEW q \in Pids, NEW r \in Pids, NEW i \in DOMAIN paginas'[q],
                        NEW j \in DOMAIN paginas'[r], paginas'[q][i] = paginas'[r][j]
                 PROVE  q = r /\ i = j
      BY DEF SinCompartir
    <2>1. DOMAIN paginas'[p] = {}
      BY <1>4
    <2>2. q # p /\ r # p
      BY <2>1
    <2> QED
      BY <1>3, <1>4, <2>2 DEF SinCompartir
  <1>7. TEspacio' /\ TTlb' /\ TCpu' /\ TPend' /\ TPids' /\ TCaida' /\ EnCopia'
    BY <1>1, <1>2, Partes DEF TEspacio, TTlb, Ent, TCpu, TPend, TPids, TCaida, EnCopia, vCpu
  <1>8. TypeOK'
    BY <1>5, <1>6, <1>7, PartesPrima
  <1>9. TlbCoherente'
    <2>1. \A q \in Pids \ inestable' : paginas'[q] = paginas[q] /\ Len(paginas[q]) \in Nat
      BY <1>2, <1>3, <1>4 DEF TPaginas
    <2>2. \A q \in Pids \ inestable' :
              /\ Len(paginas[q]) <= Len(paginas'[q])
              /\ \A k \in 1..Len(paginas[q]) : paginas'[q][k] = paginas[q][k]
      BY <2>1
    <2>3. UNCHANGED tlb /\ inestable \subseteq inestable'
      BY <1>2 DEF vCpu
    <2> QED
      BY <1>1, <1>8, <2>2, <2>3, SigueCoherente
  <1> QED
    BY <1>7, <1>8, <1>9 DEF Inv

(* The table of a process that shrinks is the beginning of the one it had. *)
LEMMA Achicar ==
    ASSUME TypeOK, NEW p \in Pids, NEW n \in Nat, Len(paginas[p]) * TamPagina > n
    PROVE  LET t == SubSeq(paginas[p], 1, n \div TamPagina)
           IN  /\ t \in Seq(Marcos) /\ Len(t) <= Len(paginas[p])
               /\ \A k \in 1..Len(t) : t[k] = paginas[p][k]
  <1> DEFINE c == Len(paginas[p])
             m == n \div TamPagina
  <1>1. paginas[p] \in Seq(Marcos) /\ c \in Nat
    BY DEF TypeOK
  <1>2. m \in Nat /\ m < c
    BY <1>1, Medidas
  <1> HIDE DEF m
  <1>3. /\ SubSeq(paginas[p], 1, m) \in Seq(Marcos) /\ Len(SubSeq(paginas[p], 1, m)) = m
        /\ \A k \in 1..m : SubSeq(paginas[p], 1, m)[k] = paginas[p][k]
    <2>1. \A i \in 1..m : i \in 1..Len(paginas[p])
      BY <1>1, <1>2
    <2> QED
      BY <1>1, <1>2, <2>1, SubSeqProperties
  <1> QED
    BY <1>2, <1>3 DEF m

(* The new frames of a process that grows.                                 *)
LEMMA Nuevas ==
    ASSUME NEW faltan \in Nat
    PROVE  LET s == [k \in 1..Min({faltan, Cardinality(Libres)}) |-> MarcoLibre(k)]
           IN  /\ s \in Seq(Libres)
               /\ \A i, j \in 1..Len(s) : s[i] = s[j] => i = j
  <1> DEFINE m == Min({faltan, Cardinality(Libres)})
             s == [k \in 1..m |-> MarcoLibre(k)]
  <1>1. m \in Nat /\ m <= Cardinality(Libres) /\ Cardinality(Libres) \in Nat
    BY LibresFinito, MinDos
  <1> HIDE DEF m
  <1>2. \A k \in 1..m : k \in 1..Cardinality(Libres)
    BY <1>1
  <1>3. \A k \in 1..m : /\ MarcoLibre(k) \in Libres
                        /\ Cardinality({g \in Libres : g < MarcoLibre(k)}) = k - 1
    BY <1>2, MarcosDistintos
  <1>4. s \in [1..m -> Libres]
    BY <1>3
  <1>5. s \in Seq(Libres) /\ Len(s) = m
    BY <1>1, <1>4
  <1>6. \A i, j \in 1..m : s[i] = s[j] => i = j
    <2> SUFFICES ASSUME NEW i \in 1..m, NEW j \in 1..m, MarcoLibre(i) = MarcoLibre(j)
                 PROVE  i = j
      OBVIOUS
    <2>1. i - 1 = j - 1
      BY <1>3
    <2> QED
      BY <2>1
  <1> QED
    BY <1>5, <1>6 DEF m

(* No free frame is in a page.                                             *)
LEMMA LibreNoEsPagina ==
    ASSUME TPaginas, NEW f \in Libres, NEW p \in Pids, NEW i \in DOMAIN paginas[p]
    PROVE  f # paginas[p][i]
  <1>1. paginas[p][i] \in ToSet(paginas[p])
    BY DEF ToSet
  <1>2. paginas[p][i] \in UNION {ToSet(paginas[q]) : q \in Pids}
    BY <1>1
  <1> QED
    BY <1>2 DEF Libres

LEMMA PasoResize ==
    ASSUME Inv, NEW n \in Tamanios, Resize(n)
    PROVE  Inv'
  <1> DEFINE p == enCpu
             c == Len(paginas[p])
             faltan == (n + TamPagina - 1) \div TamPagina - c
             s == [k \in 1..Min({faltan, Cardinality(Libres)}) |-> MarcoLibre(k)]
             a == SubSeq(paginas[p], 1, n \div TamPagina)
  <1>1. TypeOK /\ TlbCoherente /\ EnCopia /\ n \in Nat
    BY PedidosAssumption DEF Inv
  <1>2. p \in Pids /\ destino = Invalida
    BY <1>1, EnPids DEF Resize
  <1>3. paginas[p] \in Seq(Marcos) /\ c \in Nat /\ TPaginas /\ SinCompartir
    BY <1>1, <1>2, Partes DEF TPaginas
  <1>4. /\ leido' = <<>> /\ enCpu' \in {enCpu, NULO}
        /\ UNCHANGED <<espacio, caida, tlb, destino, pend, creados, terminados>>
    BY DEF Resize
  <1>5. inestable' \in {inestable, inestable \cup {p}}
    BY DEF Resize
  <1>6. TEspacio' /\ TTlb' /\ TCpu' /\ TPend' /\ TPids' /\ TCaida' /\ EnCopia'
    BY <1>1, <1>2, <1>4, <1>5, Partes DEF TEspacio, TTlb, Ent, TCpu, TPend, TPids, TCaida, EnCopia
  <1>7. CASE c * TamPagina > n
    <2>1. paginas' = [paginas EXCEPT ![p] = a] /\ inestable' = inestable \cup {p}
      BY <1>7 DEF Resize
    <2>2. a \in Seq(Marcos) /\ Len(a) <= c /\ \A k \in 1..Len(a) : a[k] = paginas[p][k]
      BY <1>1, <1>2, <1>7, Achicar
    <2> HIDE DEF a
    <2>3. paginas'[p] = a /\ \A q \in Pids \ {p} : paginas'[q] = paginas[q]
      BY <1>2, <1>3, <2>1 DEF TPaginas
    <2>4. TPaginas'
      BY <1>3, <2>1, <2>2 DEF TPaginas
    <2>5. ASSUME NEW q \in Pids, NEW i \in DOMAIN paginas'[q]
          PROVE  i \in DOMAIN paginas[q] /\ paginas'[q][i] = paginas[q][i]
      <3>1. CASE q = p
        <4>1. DOMAIN a = 1..Len(a) /\ DOMAIN paginas[p] = 1..c /\ Len(a) \in Nat
          BY <1>3, <2>2
        <4>2. i \in 1..Len(a) /\ i \in 1..c
          BY <1>3, <2>2, <2>3, <2>5, <3>1, <4>1
        <4> QED
          BY <2>2, <2>3, <3>1, <4>1, <4>2
      <3>2. CASE q # p
        BY <2>3, <3>2
      <3> QED
        BY <3>1, <3>2
    <2>6. SinCompartir'
      <3> SUFFICES ASSUME NEW q \in Pids, NEW r \in Pids, NEW i \in DOMAIN paginas'[q],
                          NEW j \in DOMAIN paginas'[r], paginas'[q][i] = paginas'[r][j]
                   PROVE  q = r /\ i = j
        BY DEF SinCompartir
      <3>1. i \in DOMAIN paginas[q] /\ j \in DOMAIN paginas[r] /\ paginas[q][i] = paginas[r][j]
        BY <2>5
      <3> QED
        BY <1>3, <3>1 DEF SinCompartir
    <2>7. TypeOK'
      BY <1>6, <2>4, <2>6, PartesPrima
    <2>8. TlbCoherente'
      <3>1. \A q \in Pids \ inestable' : paginas'[q] = paginas[q] /\ Len(paginas[q]) \in Nat
        BY <1>3, <2>1, <2>3 DEF TPaginas
      <3>2. \A q \in Pids \ inestable' :
                /\ Len(paginas[q]) <= Len(paginas'[q])
                /\ \A k \in 1..Len(paginas[q]) : paginas'[q][k] = paginas[q][k]
        BY <3>1
      <3> QED
        BY <1>1, <1>4, <2>1, <2>7, <3>2, SigueCoherente
    <2> QED
      BY <1>6, <2>7, <2>8 DEF Inv
  <1>8. CASE ~(c * TamPagina > n)
    <2>1. paginas' = [paginas EXCEPT ![p] = paginas[p] \o s] /\ inestable' = inestable
      BY <1>8 DEF Resize
    <2>2. faltan \in Nat
      <3>1. TamPagina \in Nat /\ TamPagina > 1 /\ n \in Nat /\ c \in Nat
        BY <1>1, <1>3, Medidas
      <3>2. c * TamPagina <= n
        <4>1. c * TamPagina \in Nat
          BY <3>1
        <4> QED
          BY <1>8, <3>1, <4>1
      <3> HIDE DEF c
      <3>3. (n + TamPagina - 1) \div TamPagina >= c /\ (n + TamPagina - 1) \div TamPagina \in Int
        BY <3>1, <3>2
      <3> QED
        BY <3>1, <3>3
    <2>3. s \in Seq(Libres) /\ \A i, j \in 1..Len(s) : s[i] = s[j] => i = j
      <3> HIDE DEF faltan
      <3> QED
        BY <2>2, Nuevas
    <2> HIDE DEF s
    <2>4. s \in Seq(Marcos)
      <3>1. Libres \subseteq Marcos
        BY LibresFinito
      <3> QED
        BY <2>3, <3>1
    <2> DEFINE m == paginas[p] \o s
    <2>5. /\ m \in Seq(Marcos) /\ Len(m) = c + Len(s) /\ Len(s) \in Nat
          /\ \A i \in 1..Len(m) : m[i] = IF i <= c THEN paginas[p][i] ELSE s[i - c]
      BY <1>3, <2>4, ConcatProperties
    <2> HIDE DEF m
    <2>6. paginas' = [paginas EXCEPT ![p] = m]
      BY <2>1 DEF m
    <2>7. paginas'[p] = m /\ \A q \in Pids \ {p} : paginas'[q] = paginas[q]
      BY <1>2, <1>3, <2>6 DEF TPaginas
    <2>8. TPaginas'
      BY <1>3, <2>5, <2>6 DEF TPaginas
    <2>9. ASSUME NEW q \in Pids, NEW i \in DOMAIN paginas'[q]
          PROVE  \/ i \in DOMAIN paginas[q] /\ paginas'[q][i] = paginas[q][i]
                 \/ q = p /\ i \in Int /\ i - c \in 1..Len(s) /\ paginas'[q][i] = s[i - c]
                    /\ s[i - c] \in Libres
      <3>1. CASE q = p
        <4>1. i \in 1..Len(m)
          BY <2>5, <2>7, <3>1
        <4>2. CASE i <= c
          <5>1. i \in 1..c
            BY <1>3, <2>5, <4>1, <4>2
          <5>2. i \in DOMAIN paginas[p]
            BY <1>3, <5>1
          <5>3. m[i] = paginas[p][i]
            BY <2>5, <4>1, <4>2
          <5> QED
            BY <2>7, <3>1, <5>2, <5>3
        <4>3. CASE ~(i <= c)
          <5>1. i - c \in 1..Len(s) /\ i \in Int
            BY <1>3, <2>5, <4>1, <4>3
          <5>2. s[i - c] \in Libres
            BY <2>3, <5>1, ElementOfSeq
          <5>3. m[i] = s[i - c]
            BY <2>5, <4>1, <4>3
          <5> QED
            BY <2>7, <3>1, <5>1, <5>2, <5>3
        <4> QED
          BY <4>2, <4>3
      <3>2. CASE q # p
        BY <2>7, <3>2
      <3> QED
        BY <3>1, <3>2
    <2>10. SinCompartir'
      <3> SUFFICES ASSUME NEW q \in Pids, NEW r \in Pids, NEW i \in DOMAIN paginas'[q],
                          NEW j \in DOMAIN paginas'[r], paginas'[q][i] = paginas'[r][j]
                   PROVE  q = r /\ i = j
        BY DEF SinCompartir
      <3>1. CASE i \in DOMAIN paginas[q] /\ paginas'[q][i] = paginas[q][i]
        <4>1. CASE j \in DOMAIN paginas[r] /\ paginas'[r][j] = paginas[r][j]
          <5>1. paginas[q][i] = paginas[r][j]
            BY <3>1, <4>1
          <5> QED
            BY <1>3, <3>1, <4>1, <5>1 DEF SinCompartir
        <4>2. CASE paginas'[r][j] \in Libres
          BY <1>3, <3>1, <4>2, LibreNoEsPagina
        <4> QED
          BY <2>9, <4>1, <4>2
      <3>2. CASE q = p /\ i \in Int /\ i - c \in 1..Len(s) /\ paginas'[q][i] = s[i - c]
                 /\ s[i - c] \in Libres
        <4>1. CASE j \in DOMAIN paginas[r] /\ paginas'[r][j] = paginas[r][j]
          BY <1>3, <3>2, <4>1, LibreNoEsPagina
        <4>2. CASE r = p /\ j \in Int /\ j - c \in 1..Len(s) /\ paginas'[r][j] = s[j - c]
          <5>1. i - c = j - c
            BY <2>3, <3>2, <4>2
          <5> QED
            BY <1>3, <3>2, <4>2, <5>1
        <4> QED
          BY <2>9, <4>1, <4>2
      <3> QED
        BY <2>9, <3>1, <3>2
    <2>11. TypeOK'
      BY <1>6, <2>8, <2>10, PartesPrima
    <2>12. TlbCoherente'
      <3>1. ASSUME NEW q \in Pids
            PROVE  /\ Len(paginas[q]) <= Len(paginas'[q])
                   /\ \A k \in 1..Len(paginas[q]) : paginas'[q][k] = paginas[q][k]
        <4>1. CASE q = p
          <5>1. c <= Len(m)
            BY <1>3, <2>5
          <5>2. \A k \in 1..c : k \in 1..Len(m) /\ m[k] = paginas[p][k]
            BY <1>3, <2>5, <5>1
          <5> QED
            BY <2>7, <4>1, <5>1, <5>2
        <4>2. CASE q # p
          <5>1. Len(paginas[q]) \in Nat
            BY <1>3 DEF TPaginas
          <5> QED
            BY <2>7, <4>2, <5>1
        <4> QED
          BY <4>1, <4>2
      <3> QED
        BY <1>1, <1>4, <2>1, <2>11, <3>1, SigueCoherente
    <2> QED
      BY <1>6, <2>11, <2>12 DEF Inv
  <1> QED
    BY <1>7, <1>8

LEMMA InvInit == Init => Inv
  <1> SUFFICES ASSUME Init PROVE Inv
    OBVIOUS
  <1>1. TPaginas /\ SinCompartir
    <2>1. paginas = [p \in Pids |-> <<>>] /\ <<>> \in Seq(Marcos) /\ DOMAIN <<>> = {}
      BY DEF Init
    <2>2. \A p \in Pids : paginas[p] = <<>>
      BY <2>1
    <2> QED
      BY <2>1, <2>2 DEF TPaginas, SinCompartir
  <1>2. TEspacio /\ TCaida
    BY ByteAssumption DEF Init, TEspacio, TCaida
  <1>3. tlb = <<>>
    BY DEF Init
  <1>4. TTlb /\ TlbCoherente
    <2>1. Len(<<>>) = 0 /\ DOMAIN <<>> = {} /\ <<>> \in Seq(Ent)
      OBVIOUS
    <2> QED
      BY <1>3, <2>1, TamanioAssumption DEF TTlb, TlbCoherente
  <1>5. TCpu /\ TPids /\ EnCopia
    BY DEF Init, TCpu, TPids, EnCopia
  <1>6. TPend
    <2>1. NoPide \in Pedidos
      BY DEF NoPide, Pedidos
    <2> QED
      BY <2>1 DEF Init, TPend
  <1> QED
    BY <1>1, <1>2, <1>4, <1>5, <1>6, Partes DEF Inv

LEMMA InvPaso ==
    ASSUME Inv, [Next]_vars
    PROVE  Inv'
  <1>1. CASE UNCHANGED vars
    <2>1. TTlb' /\ TlbCoherente' /\ TPaginas' /\ SinCompartir'
      BY <1>1, QuietaTlb DEF vars, vMem, vCpu, vPid
    <2>2. TEspacio' /\ TCpu' /\ TPend' /\ TPids' /\ TCaida' /\ EnCopia'
      BY <1>1, Partes DEF Inv, vars, vMem, vCpu, vPid, TEspacio, TCpu, TPend, TPids, TCaida, EnCopia
    <2> QED
      BY <2>1, <2>2, PartesPrima DEF Inv
  <1>2. ASSUME NEW p \in Pids, Inicia(p) \/ Finaliza(p) \/ Entra(p) \/ Stdin(p) \/ Stdout(p)
        PROVE  Inv'
    BY <1>2, PasoDelKernel, PasoFinaliza, PasoStdin, PasoStdout
  <1>3. CASE Sale
    <2>1. enCpu \in Pids
      BY <1>3, EnPids DEF Inv, Sale
    <2> QED
      BY <1>3, <2>1, PasoDelKernel
  <1>4. CASE CopiaEscribe
    BY <1>4, PasoCopiaEscribe
  <1>5. ASSUME NEW n \in Tamanios, Resize(n)
        PROVE  Inv'
    BY <1>5, PasoResize
  <1>6. ASSUME NEW l \in Dirs, MovIn(l) \/ \E d \in Byte : MovOut(l, d)
        PROVE  Inv'
    BY <1>6, PasoMovIn, PasoMovOut
  <1>7. ASSUME NEW l \in Dirs, NEW n \in Largos,
               \/ PideIO("STDIN", l, n) \/ PideIO("STDOUT", l, n)
               \/ \E di \in Dirs : CopiaLee(l, di, n)
        PROVE  Inv'
    BY <1>7, PasoPideIO, PasoCopiaLee
  <1> QED
    BY <1>1, <1>2, <1>3, <1>4, <1>5, <1>6, <1>7 DEF Next

LEMMA InvSiempre == Spec => []Inv
  <1> QED
    BY InvInit, InvPaso, PTL DEF Spec

(* Every variable keeps its type, and no frame is ever in two pages.       *)
THEOREM TiposDelAcceso == Spec => []TypeOK
  <1>1. Inv => TypeOK
    BY DEF Inv
  <1> QED
    BY <1>1, InvSiempre, PTL

(* Whatever happens, the TLB has the frames of the page tables, but for    *)
(* the processes that lost pages: RESIZE, which does not touch it, and the *)
(* pages others get and lose never make an entry of it false.              *)
THEOREM LaTlbSigueCoherente == Spec => []TlbCoherente
  <1>1. Inv => TlbCoherente
    BY DEF Inv
  <1> QED
    BY <1>1, InvSiempre, PTL

-----------------------------------------------------------------------------
(***************************************************************************)
(* Each process has its own memory: the implementation of MemoriaLogica.   *)
(***************************************************************************)

(* The byte of espacio_usuario where the k-th byte of p is.                *)
Lugar(p, k) == paginas[p][Pagina(k - 1) + 1] * TamPagina + ((k - 1) % TamPagina)
Bytes(p) == Len(paginas[p]) * TamPagina

(* Pages and offsets.                                                      *)
LEMMA DivMod ==
    ASSUME NEW l \in Nat
    PROVE  l = Pagina(l) * TamPagina + (l % TamPagina)
  BY Medidas DEF Pagina

LEMMA MarcoYDesvio ==
    ASSUME NEW f \in Nat, NEW o \in 0..(TamPagina - 1)
    PROVE  /\ f * TamPagina + o \in Nat
           /\ (f * TamPagina + o) \div TamPagina = f /\ (f * TamPagina + o) % TamPagina = o
  <1>1. TamPagina \in Nat /\ TamPagina > 1
    BY Medidas
  <1> DEFINE x == f * TamPagina
  <1>2. x \in Nat
    BY <1>1
  <1>3. x + o \in Nat
    BY <1>1, <1>2
  <1>4. (x + o) \div TamPagina = f
    BY <1>1, <1>3
  <1>5. (x + o) % TamPagina = o
    BY <1>1, <1>3, <1>4
  <1> QED
    BY <1>3, <1>4, <1>5

(* The bytes of an address to the end of its page.                         *)
LEMMA HastaElFin ==
    ASSUME NEW l \in Nat, NEW i \in Nat, i < Hasta(l)
    PROVE  Pagina(l + i) = Pagina(l) /\ (l + i) % TamPagina = (l % TamPagina) + i
  <1>1. TamPagina \in Nat /\ TamPagina > 1 /\ Pagina(l) \in Nat
    BY Medidas, PaginaTipo
  <1>2. l % TamPagina \in 0..(TamPagina - 1)
    BY PaginaTipo
  <1> DEFINE o == (l % TamPagina) + i
  <1>3. o \in 0..(TamPagina - 1)
    BY <1>1, <1>2 DEF Hasta
  <1>4. l + i = Pagina(l) * TamPagina + o
    <2> DEFINE a == Pagina(l) * TamPagina
               r == l % TamPagina
    <2>1. a \in Nat /\ r \in Nat /\ l = a + r
      BY <1>1, <1>2, DivMod
    <2> HIDE DEF a, r
    <2>2. l + i = a + (r + i)
      BY <2>1
    <2> QED
      BY <2>2 DEF a, r, o
  <1> HIDE DEF o
  <1>5. (l + i) \div TamPagina = Pagina(l) /\ (l + i) % TamPagina = o
    BY <1>1, <1>3, <1>4, MarcoYDesvio
  <1> QED
    BY <1>5 DEF Pagina, o

(* Two addresses are in the same page when the bytes between them are.     *)
LEMMA UnaPagina ==
    ASSUME NEW l \in Nat, NEW n \in Nat, n > 0
    PROVE  l \div TamPagina = (l + n - 1) \div TamPagina <=> n <= Hasta(l)
  <1>1. TamPagina \in Nat /\ TamPagina > 1 /\ Pagina(l) \in Nat
    BY Medidas, PaginaTipo
  <1>2. l % TamPagina \in 0..(TamPagina - 1) /\ Hasta(l) \in Int
    BY <1>1, PaginaTipo DEF Hasta
  <1> DEFINE i == n - 1
  <1>3. i \in Nat /\ l + n - 1 = l + i /\ (n <= Hasta(l) <=> i < Hasta(l))
    BY <1>2
  <1> HIDE DEF i
  <1>4. CASE i < Hasta(l)
    BY <1>3, <1>4, HastaElFin DEF Pagina
  <1>5. CASE ~(i < Hasta(l))
    <2>1. (l % TamPagina) + i >= TamPagina
      BY <1>1, <1>2, <1>3, <1>5 DEF Hasta
    <2>2. Pagina(l) * TamPagina \in Nat
      BY <1>1
    <2>3. l + i >= Pagina(l) * TamPagina + TamPagina
      <3> DEFINE a == Pagina(l) * TamPagina
                 r == l % TamPagina
      <3>1. a \in Nat /\ r \in Nat /\ l = a + r /\ r + i >= TamPagina
        BY <1>1, <1>2, <2>1, <2>2, DivMod
      <3> HIDE DEF a, r
      <3>2. l + i >= a + TamPagina
        BY <1>1, <1>3, <3>1
      <3> QED
        BY <3>2 DEF a
    <2>4. l + i >= (Pagina(l) + 1) * TamPagina
      BY <1>1, <2>2, <2>3
    <2>5. (l + i) \div TamPagina >= Pagina(l) + 1
      BY <1>1, <1>3, <2>4
    <2>6. (l + i) \div TamPagina # Pagina(l)
      BY <1>1, <1>3, <2>5
    <2> QED
      BY <1>3, <1>5, <2>6 DEF Pagina
  <1> QED
    BY <1>4, <1>5

(* Where the bytes of a process are: in its frames, each in a place of its *)
(* own.                                                                    *)
LEMMA LugarTipo ==
    ASSUME TPaginas, NEW p \in Pids, NEW k \in 1..Bytes(p)
    PROVE  /\ k - 1 \in Nat /\ Pagina(k - 1) + 1 \in 1..Len(paginas[p])
           /\ paginas[p][Pagina(k - 1) + 1] \in Marcos
           /\ (k - 1) % TamPagina \in 0..(TamPagina - 1)
           /\ Lugar(p, k) \in 0..(Fin - 1)
           /\ Lugar(p, k) \div TamPagina = paginas[p][Pagina(k - 1) + 1]
           /\ Lugar(p, k) % TamPagina = (k - 1) % TamPagina
  <1> DEFINE c == Len(paginas[p])
             o == (k - 1) % TamPagina
             g == Pagina(k - 1)
  <1>1. paginas[p] \in Seq(Marcos) /\ c \in Nat /\ TamPagina \in Nat /\ TamPagina > 1
    BY Medidas DEF TPaginas
  <1>2. k - 1 \in Nat /\ k - 1 < c * TamPagina
    <2>1. c * TamPagina \in Nat
      BY <1>1
    <2> QED
      BY <2>1 DEF Bytes
  <1>3. g \in Nat /\ o \in 0..(TamPagina - 1)
    BY <1>2, PaginaTipo
  <1>4. g < c
    <2>1. (k - 1) \div TamPagina < c
      BY <1>1, <1>2
    <2> QED
      BY <2>1 DEF Pagina
  <1>5. g + 1 \in 1..c
    BY <1>1, <1>3, <1>4
  <1> DEFINE f == paginas[p][g + 1]
  <1>6. f \in Marcos
    BY <1>1, <1>5, ElementOfSeq
  <1>7. Lugar(p, k) = f * TamPagina + o
    BY DEF Lugar
  <1> HIDE DEF f, o, c
  <1>8. f \in Nat /\ f < CantMarcos /\ CantMarcos \in Nat
    BY <1>6, Medidas
  <1>9. f * TamPagina + o \in Nat /\ (f * TamPagina + o) \div TamPagina = f
        /\ (f * TamPagina + o) % TamPagina = o
    BY <1>3, <1>8, MarcoYDesvio
  <1>10. f * TamPagina + o < Fin
    <2>1. (f + 1) * TamPagina <= CantMarcos * TamPagina
      BY <1>1, <1>8
    <2>2. f * TamPagina + TamPagina = (f + 1) * TamPagina
      BY <1>1, <1>8
    <2>3. f * TamPagina \in Nat /\ CantMarcos * TamPagina \in Nat /\ (f + 1) * TamPagina \in Nat
      BY <1>1, <1>8
    <2> QED
      BY <1>1, <1>3, <2>1, <2>2, <2>3 DEF Fin
  <1>11. f * TamPagina + o \in 0..(Fin - 1)
    BY <1>9, <1>10, Medidas
  <1> QED
    BY <1>2, <1>3, <1>5, <1>6, <1>7, <1>9, <1>11 DEF f, o, c

LEMMA LugaresDistintos ==
    ASSUME TPaginas, SinCompartir, NEW p \in Pids, NEW q \in Pids,
           NEW k \in 1..Bytes(p), NEW j \in 1..Bytes(q), Lugar(p, k) = Lugar(q, j)
    PROVE  p = q /\ k = j
  <1> DEFINE g == Pagina(k - 1)
             h == Pagina(j - 1)
  <1>1. paginas[p][g + 1] = paginas[q][h + 1] /\ (k - 1) % TamPagina = (j - 1) % TamPagina
    BY LugarTipo
  <1>2. g + 1 \in 1..Len(paginas[p]) /\ h + 1 \in 1..Len(paginas[q])
    BY LugarTipo
  <1>3. DOMAIN paginas[p] = 1..Len(paginas[p]) /\ DOMAIN paginas[q] = 1..Len(paginas[q])
    BY DEF TPaginas
  <1>4. p = q /\ g + 1 = h + 1
    BY <1>1, <1>2, <1>3 DEF SinCompartir
  <1>5. k - 1 \in Nat /\ j - 1 \in Nat
    BY LugarTipo
  <1>6. g \in Nat /\ h \in Nat
    BY <1>5, PaginaTipo
  <1>7. k - 1 = j - 1
    <2>1. k - 1 = g * TamPagina + ((k - 1) % TamPagina) /\ j - 1 = h * TamPagina + ((j - 1) % TamPagina)
      BY <1>5, DivMod
    <2>2. g = h
      BY <1>4, <1>6
    <2> HIDE DEF g, h
    <2> QED
      BY <1>1, <2>1, <2>2
  <1> QED
    BY <1>4, <1>7

(* The bytes from l to the end of its page follow one another.             *)
LEMMA LugaresSeguidos ==
    ASSUME TPaginas, NEW p \in Pids, NEW l \in Nat, Pagina(l) < Len(paginas[p]),
           NEW i \in Nat, i < Hasta(l)
    PROVE  /\ l + i + 1 \in 1..Bytes(p) /\ l + 1 \in 1..Bytes(p)
           /\ Lugar(p, l + i + 1) = Lugar(p, l + 1) + i
           /\ Lugar(p, l + 1) = paginas[p][Pagina(l) + 1] * TamPagina + (l % TamPagina)
  <1> DEFINE c == Len(paginas[p])
  <1>1. c \in Nat /\ TamPagina \in Nat /\ TamPagina > 1 /\ Pagina(l) \in Nat
    BY Medidas, PaginaTipo DEF TPaginas
  <1>2. l % TamPagina \in 0..(TamPagina - 1) /\ Hasta(l) \in Int /\ Hasta(l) = TamPagina - (l % TamPagina)
    BY <1>1, PaginaTipo DEF Hasta
  <1>3. Pagina(l + i) = Pagina(l) /\ (l + i) % TamPagina = (l % TamPagina) + i
    BY HastaElFin
  <1> HIDE DEF c
  <1>4. (Pagina(l) + 1) * TamPagina <= c * TamPagina
    BY <1>1 DEF c
  <1>5. l + i + 1 <= (Pagina(l) + 1) * TamPagina
    <2>1. Pagina(l) * TamPagina \in Nat /\ (Pagina(l) + 1) * TamPagina = Pagina(l) * TamPagina + TamPagina
      BY <1>1
    <2> DEFINE a == Pagina(l) * TamPagina
               r == l % TamPagina
    <2>2. a \in Nat /\ r \in Nat /\ l = a + r /\ r + i < TamPagina
      BY <1>1, <1>2, <2>1, DivMod
    <2> HIDE DEF a, r
    <2>3. l + i + 1 <= a + TamPagina
      BY <1>1, <2>2
    <2> QED
      BY <2>1, <2>3 DEF a
  <1>6. l + i + 1 \in 1..(c * TamPagina) /\ l + 1 \in 1..(c * TamPagina)
    <2>1. c * TamPagina \in Nat /\ (Pagina(l) + 1) * TamPagina \in Nat
      BY <1>1
    <2> QED
      BY <1>4, <1>5, <2>1
  <1>7. (l + i + 1) - 1 = l + i /\ (l + 1) - 1 = l
    OBVIOUS
  <1>8. /\ Lugar(p, l + 1) = paginas[p][Pagina(l) + 1] * TamPagina + (l % TamPagina)
        /\ Lugar(p, l + i + 1) = paginas[p][Pagina(l) + 1] * TamPagina + ((l % TamPagina) + i)
    BY <1>3, <1>7 DEF Lugar
  <1>9. paginas[p][Pagina(l) + 1] \in Marcos
    <2>1. l + 1 \in 1..Bytes(p)
      BY <1>6 DEF Bytes, c
    <2> QED
      BY <1>7, <2>1, LugarTipo
  <1>10. paginas[p][Pagina(l) + 1] * TamPagina \in Nat
    BY <1>1, <1>9, Medidas
  <1>11. Lugar(p, l + i + 1) = Lugar(p, l + 1) + i
    BY <1>2, <1>8, <1>10
  <1> QED
    BY <1>6, <1>8, <1>11 DEF Bytes, c

(***************************************************************************)
(* What a process sees.                                                    *)
(***************************************************************************)

Mem == [p \in Pids |-> Vista(p)]

LEMMA VistaDe ==
    \A p : /\ Vista(p) = [k \in 1..Bytes(p) |-> espacio[Lugar(p, k)]]
           /\ Vista(p)' = [k \in 1..Bytes(p)' |-> espacio'[Lugar(p, k)']]
  BY DEF Vista, Bytes, Lugar

LEMMA VistaTipo ==
    ASSUME TypeOK
    PROVE  \A p \in Pids :
               /\ Bytes(p) \in Nat /\ Vista(p) \in Seq(Byte)
               /\ Len(Vista(p)) = Bytes(p) /\ DOMAIN Vista(p) = 1..Bytes(p)
               /\ \A k \in 1..Bytes(p) : Vista(p)[k] = espacio[Lugar(p, k)]
  <1> SUFFICES ASSUME NEW p \in Pids
               PROVE  /\ Bytes(p) \in Nat /\ Vista(p) \in Seq(Byte)
                      /\ Len(Vista(p)) = Bytes(p) /\ DOMAIN Vista(p) = 1..Bytes(p)
                      /\ \A k \in 1..Bytes(p) : Vista(p)[k] = espacio[Lugar(p, k)]
    OBVIOUS
  <1>1. TPaginas /\ TEspacio
    BY Partes
  <1>2. Bytes(p) \in Nat
    <2>1. Len(paginas[p]) \in Nat
      BY <1>1 DEF TPaginas
    <2> QED
      BY <2>1, Medidas DEF Bytes
  <1>3. \A k \in 1..Bytes(p) : espacio[Lugar(p, k)] \in Byte
    BY <1>1, LugarTipo DEF TEspacio
  <1> DEFINE v == Vista(p)
  <1>4. v = [k \in 1..Bytes(p) |-> espacio[Lugar(p, k)]]
    BY VistaDe
  <1> HIDE DEF v
  <1>5. v \in [1..Bytes(p) -> Byte]
    BY <1>3, <1>4
  <1>6. v \in Seq(Byte) /\ Len(v) = Bytes(p) /\ DOMAIN v = 1..Bytes(p)
    BY <1>2, <1>5
  <1> QED
    BY <1>2, <1>4, <1>6 DEF v

LEMMA VistaTipoPrima ==
    ASSUME TypeOK'
    PROVE  \A p \in Pids :
               /\ Bytes(p)' \in Nat /\ Vista(p)' \in Seq(Byte)
               /\ Len(Vista(p)') = Bytes(p)' /\ DOMAIN Vista(p)' = 1..Bytes(p)'
               /\ \A k \in 1..Bytes(p)' : Vista(p)'[k] = espacio'[Lugar(p, k)']
  <1>1. (TypeOK => \A p \in Pids :
               /\ Bytes(p) \in Nat /\ Vista(p) \in Seq(Byte)
               /\ Len(Vista(p)) = Bytes(p) /\ DOMAIN Vista(p) = 1..Bytes(p)
               /\ \A k \in 1..Bytes(p) : Vista(p)[k] = espacio[Lugar(p, k)])'
    BY VistaTipo, PTL
  <1> QED
    BY <1>1

(* A process whose table and bytes do not change sees what it saw.         *)
LEMMA VistaQuieta ==
    ASSUME NEW p \in Pids, paginas'[p] = paginas[p],
           \A k \in 1..Bytes(p) : espacio'[Lugar(p, k)] = espacio[Lugar(p, k)]
    PROVE  Vista(p)' = Vista(p)
  <1>1. Bytes(p)' = Bytes(p) /\ \A k : Lugar(p, k)' = Lugar(p, k)
    BY DEF Bytes, Lugar, Pagina
  <1> QED
    BY <1>1, VistaDe

LEMMA MemoriaQuieta ==
    ASSUME UNCHANGED <<paginas, espacio>>
    PROVE  Mem' = Mem /\ \A p \in Pids : Vista(p)' = Vista(p)
  <1>1. \A p \in Pids : Vista(p)' = Vista(p)
    BY VistaQuieta
  <1> QED
    BY <1>1 DEF Mem

(* What a process writes in one frame does not reach another.              *)
LEMMA EscribeLoSuyo ==
    ASSUME TypeOK, NEW p \in Pids, NEW df \in Nat \cup {Invalida}, NEW s \in Seq(Byte),
           df # Invalida => Len(s) <= Hasta(df),
           EscribeEspacio(p, df, s), UNCHANGED paginas
    PROVE  \A q \in Pids \ {p} : Vista(q)' = Vista(q)
  <1>1. TPaginas /\ SinCompartir /\ TEspacio
    BY Partes
  <1> SUFFICES ASSUME NEW q \in Pids \ {p}, NEW k \in 1..Bytes(q)
               PROVE  espacio'[Lugar(q, k)] = espacio[Lugar(q, k)]
    BY VistaQuieta
  <1> DEFINE b == Lugar(q, k)
             g == Pagina(k - 1) + 1
  <1>2. b \in 0..(Fin - 1) /\ b \div TamPagina = paginas[q][g] /\ g \in 1..Len(paginas[q])
    BY <1>1, LugarTipo
  <1> HIDE DEF b, g
  <1>3. b \in DOMAIN espacio
    BY <1>1, <1>2 DEF TEspacio
  <1>4. espacio'[b] = IF Alcanzable(p, df) /\ b \in df..(df + Len(s) - 1) THEN s[b - df + 1] ELSE espacio[b]
    BY <1>3 DEF EscribeEspacio
  <1>5. ASSUME Alcanzable(p, df), b \in df..(df + Len(s) - 1)
        PROVE  FALSE
    <2>1. df \in Nat /\ Len(s) \in Nat /\ b \in Nat
      BY <1>2, <1>5 DEF Alcanzable
    <2>2. Hasta(df) \in Int /\ Len(s) <= Hasta(df)
      BY <1>5, <2>1, PaginaTipo, Medidas DEF Alcanzable
    <2> DEFINE i == b - df
    <2>3. i \in Nat /\ i < Hasta(df) /\ b = df + i
      BY <1>5, <2>1, <2>2
    <2> HIDE DEF i
    <2>4. Pagina(b) = Pagina(df)
      BY <2>1, <2>3, HastaElFin
    <2>5. paginas[q][g] \in ToSet(paginas[p])
      BY <1>2, <1>5, <2>4 DEF Pagina, Alcanzable, Permitido, MarcoDe
    <2>6. PICK j \in DOMAIN paginas[p] : paginas[p][j] = paginas[q][g]
      BY <2>5 DEF ToSet
    <2>7. g \in DOMAIN paginas[q]
      BY <1>1, <1>2 DEF TPaginas
    <2> QED
      BY <1>1, <2>6, <2>7 DEF SinCompartir
  <1> QED
    BY <1>4, <1>5 DEF b

(* What memoria makes of a logical address.                                *)
Buena(p, l) == IF Pagina(l) < Len(paginas[p]) THEN Lugar(p, l + 1) ELSE Invalida

LEMMA BuenaTipo ==
    ASSUME TPaginas, NEW p \in Pids, NEW l \in Nat, Pagina(l) < Len(paginas[p])
    PROVE  /\ Lugar(p, l + 1) \in 0..(Fin - 1) /\ l + 1 \in 1..Bytes(p)
           /\ Lugar(p, l + 1) # Invalida /\ Alcanzable(p, Lugar(p, l + 1))
           /\ Hasta(Lugar(p, l + 1)) = Hasta(l)
  <1> DEFINE b == Lugar(p, l + 1)
  <1>1. Hasta(l) > 0
    <2>1. Hasta(l) \in 1..TamPagina
      BY PaginaTipo
    <2> QED
      BY <2>1, Medidas
  <1>2. l + 1 \in 1..Bytes(p)
    BY <1>1, LugaresSeguidos
  <1>3. (l + 1) - 1 = l
    OBVIOUS
  <1>4. /\ b \in 0..(Fin - 1) /\ b \div TamPagina = paginas[p][Pagina(l) + 1]
        /\ b % TamPagina = l % TamPagina /\ Pagina(l) + 1 \in 1..Len(paginas[p])
    BY <1>2, <1>3, LugarTipo
  <1> HIDE DEF b
  <1>5. b \in Nat /\ b # Invalida
    BY <1>4 DEF Invalida
  <1>6. Pagina(l) + 1 \in DOMAIN paginas[p]
    BY <1>4 DEF TPaginas
  <1>7. Alcanzable(p, b)
    BY <1>4, <1>5, <1>6 DEF Alcanzable, Permitido, MarcoDe, ToSet
  <1> QED
    BY <1>2, <1>4, <1>5, <1>7 DEF b, Hasta

(* What a process writes at the address of l is at l.                      *)
LEMMA EscribeEnSuLugar ==
    ASSUME TypeOK, NEW p \in Pids, NEW l \in Nat, NEW s \in Seq(Byte), Len(s) <= Hasta(l),
           Pagina(l) < Len(paginas[p]), EscribeEspacio(p, Lugar(p, l + 1), s), UNCHANGED paginas
    PROVE  /\ Vista(p)' = [k \in DOMAIN Vista(p) |->
                  IF k - 1 \in l..(l + Len(s) - 1) THEN s[k - l] ELSE Vista(p)[k]]
           /\ l + Len(s) <= Len(Vista(p))
  <1> DEFINE df == Lugar(p, l + 1)
             n == Len(s)
  <1>1. TPaginas /\ SinCompartir /\ TEspacio
    BY Partes
  <1>2. df \in 0..(Fin - 1) /\ l + 1 \in 1..Bytes(p) /\ df # Invalida /\ Alcanzable(p, df)
    BY <1>1, BuenaTipo
  <1>3. n \in Nat /\ Hasta(l) \in Int
    BY Medidas, PaginaTipo
  <1>4. \A i \in Nat : i < Hasta(l) => l + i + 1 \in 1..Bytes(p) /\ Lugar(p, l + i + 1) = df + i
    BY <1>1, LugaresSeguidos
  <1>5. Bytes(p) \in Nat /\ DOMAIN Vista(p) = 1..Bytes(p) /\ Len(Vista(p)) = Bytes(p)
        /\ \A k \in 1..Bytes(p) : Vista(p)[k] = espacio[Lugar(p, k)]
    BY VistaTipo
  <1> HIDE DEF df
  <1>6. ASSUME NEW k \in 1..Bytes(p)
        PROVE  espacio'[Lugar(p, k)] = IF k - 1 \in l..(l + n - 1) THEN s[k - l] ELSE espacio[Lugar(p, k)]
    <2> DEFINE b == Lugar(p, k)
    <2>1. b \in 0..(Fin - 1)
      BY <1>1, LugarTipo
    <2>2. espacio'[b] = IF b \in df..(df + n - 1) THEN s[b - df + 1] ELSE espacio[b]
      <3>1. b \in DOMAIN espacio
        BY <1>1, <2>1 DEF TEspacio
      <3> QED
        BY <1>2, <3>1 DEF EscribeEspacio, df
    <2> HIDE DEF b
    <2>3. CASE k - 1 \in l..(l + n - 1)
      <3> DEFINE i == k - 1 - l
      <3>1. i \in Nat /\ i < n /\ k = l + i + 1
        BY <1>3, <2>3
      <3> HIDE DEF i
      <3>2. b = df + i
        BY <1>3, <1>4, <3>1 DEF b
      <3>3. b \in df..(df + n - 1) /\ b - df + 1 = k - l
        BY <1>2, <1>3, <3>1, <3>2
      <3> QED
        BY <2>2, <2>3, <3>3 DEF b
    <2>4. CASE ~(k - 1 \in l..(l + n - 1))
      <3>1. ~(b \in df..(df + n - 1))
        <4> SUFFICES ASSUME b \in df..(df + n - 1) PROVE FALSE
          OBVIOUS
        <4> DEFINE i == b - df
        <4>1. i \in Nat /\ i < n /\ b = df + i
          BY <1>2, <1>3, <2>1
        <4> HIDE DEF i
        <4>2. l + i + 1 \in 1..Bytes(p) /\ Lugar(p, l + i + 1) = Lugar(p, k)
          BY <1>3, <1>4, <4>1 DEF b
        <4>3. l + i + 1 = k
          BY <1>1, <4>2, LugaresDistintos
        <4> QED
          BY <1>3, <2>4, <4>1, <4>3
      <3> QED
        BY <2>2, <2>4, <3>1 DEF b
    <2> QED
      BY <2>3, <2>4
  <1>7. Bytes(p)' = Bytes(p) /\ \A k : Lugar(p, k)' = Lugar(p, k)
    BY DEF Bytes, Lugar, Pagina
  <1>8. Vista(p)' = [k \in 1..Bytes(p) |-> espacio'[Lugar(p, k)]]
    BY <1>7, VistaDe
  <1>9. l + n <= Bytes(p)
    <2>1. CASE n = 0
      BY <1>2, <1>5, <2>1
    <2>2. CASE n # 0
      <3> DEFINE i == n - 1
      <3>1. i \in Nat /\ i < Hasta(l) /\ l + i + 1 = l + n
        BY <1>3, <2>2
      <3> HIDE DEF i, n
      <3>2. l + n \in 1..Bytes(p)
        BY <1>4, <3>1
      <3> QED
        BY <1>5, <3>2
    <2> QED
      BY <2>1, <2>2
  <1> QED
    BY <1>5, <1>6, <1>8, <1>9

(***************************************************************************)
(* What a translation gives.                                               *)
(***************************************************************************)

(* As long as a process has not lost pages, the MMU and the TLB give the   *)
(* address memoria would.                                                  *)
LEMMA FisicaBuena ==
    ASSUME TypeOK, TlbCoherente, NEW p \in Pids, p \notin inestable, NEW l \in Nat
    PROVE  Fisica(p, l) = Buena(p, l)
  <1> DEFINE g == Pagina(l)
  <1>1. g \in Nat
    BY PaginaTipo
  <1>2. TPaginas
    BY Partes
  <1>3. Frame(p, g) = PedirFrame(p, g)
    <2>1. CASE MarcoTlb(p, g) = -1
      BY <2>1 DEF Frame
    <2>2. CASE MarcoTlb(p, g) # -1
      <3> DEFINE i == Min(Posiciones(p, g))
      <3>1. Posiciones(p, g) # {} /\ MarcoTlb(p, g) = tlb[i].marco
        BY <2>2 DEF MarcoTlb
      <3>2. Posiciones(p, g) \subseteq Nat
        <4>1. tlb \in Seq(Ent)
          BY Partes DEF TTlb
        <4>2. DOMAIN tlb \subseteq Nat
          BY <4>1
        <4> QED
          BY <4>2 DEF Posiciones
      <3>3. i \in DOMAIN tlb /\ tlb[i].pid = p /\ tlb[i].pagina = g
        <4>1. i \in Posiciones(p, g)
          BY <3>1, <3>2, MinDe
        <4> HIDE DEF i
        <4> QED
          BY <4>1 DEF Posiciones, EsDe
      <3> HIDE DEF i
      <3>4. g < Len(paginas[p]) /\ paginas[p][g + 1] = tlb[i].marco
        BY <2>2, <3>1, <3>3 DEF TlbCoherente
      <3> QED
        BY <2>2, <3>1, <3>4 DEF Frame, PedirFrame
    <2> QED
      BY <2>1, <2>2
  <1>4. CASE g < Len(paginas[p])
    <2>1. l + 1 \in 1..Bytes(p) /\ Lugar(p, l + 1) = paginas[p][g + 1] * TamPagina + (l % TamPagina)
      <3>1. Hasta(l) > 0
        <4>1. Hasta(l) \in 1..TamPagina
          BY PaginaTipo
        <4> QED
          BY <4>1, Medidas
      <3> QED
        BY <1>2, <1>4, <3>1, LugaresSeguidos
    <2>2. paginas[p][g + 1] \in Marcos
      <3>1. (l + 1) - 1 = l
        OBVIOUS
      <3> QED
        BY <1>2, <2>1, <3>1, LugarTipo
    <2>3. paginas[p][g + 1] # -1
      BY <2>2, Medidas
    <2> QED
      BY <1>3, <1>4, <2>1, <2>3 DEF Fisica, Buena, PedirFrame
  <1>5. CASE ~(g < Len(paginas[p]))
    BY <1>3, <1>5 DEF Fisica, Buena, PedirFrame
  <1> QED
    BY <1>4, <1>5

(* Every address a translation gives ends its page where the logical one   *)
(* does.                                                                   *)
LEMMA FisicaHasta ==
    ASSUME TypeOK, NEW p \in Pids, NEW l \in Nat, Fisica(p, l) # Invalida
    PROVE  Hasta(Fisica(p, l)) = Hasta(l)
  <1> DEFINE f == Frame(p, Pagina(l))
  <1>1. f \in Marcos \cup {-1} /\ l % TamPagina \in 0..(TamPagina - 1)
    BY FrameTipo, PaginaTipo
  <1>2. f # -1 /\ Fisica(p, l) = f * TamPagina + (l % TamPagina)
    BY DEF Fisica
  <1>3. f \in Nat
    BY <1>1, <1>2, Medidas
  <1> HIDE DEF f
  <1>4. (f * TamPagina + (l % TamPagina)) % TamPagina = l % TamPagina
    BY <1>1, <1>3, MarcoYDesvio
  <1> QED
    BY <1>2, <1>4 DEF Hasta

(***************************************************************************)
(* The steps of MemoriaLogica, in terms of what a process sees.            *)
(***************************************************************************)

LEMMA DesordenaBien ==
    ASSUME TypeOK, TypeOK', NEW p \in Pids, p \in inestable, NEW df \in Nat \cup {Invalida},
           NEW s \in Seq(Byte), df # Invalida => Len(s) <= Hasta(df),
           EscribeEspacio(p, df, s), UNCHANGED <<paginas, inestable>>
    PROVE  Logica!Desordena(p)
  <1>1. \A q \in Pids \ {p} : Vista(q)' = Vista(q)
    BY EscribeLoSuyo
  <1>2. Bytes(p)' = Bytes(p)
    BY DEF Bytes
  <1>3. Len(Vista(p)') = Len(Vista(p))
    BY <1>2, VistaTipo, VistaTipoPrima
  <1> QED
    BY <1>1, <1>3 DEF Logica!Desordena, Logica!SoloCambia

LEMMA GuardaBien ==
    ASSUME TypeOK, TypeOK', NEW p \in Pids, p \notin inestable, NEW l \in Nat,
           NEW s \in Seq(Byte), Len(s) > 0, Len(s) <= Hasta(l),
           EscribeEspacio(p, Buena(p, l), s), UNCHANGED <<paginas, inestable>>
    PROVE  Logica!Guarda(p, l, s)
  <1> DEFINE v == Vista(p)
             w == [k \in DOMAIN v |-> IF k - 1 \in l..(l + Len(s) - 1) THEN s[k - l] ELSE v[k]]
  <1>1. TPaginas /\ TEspacio
    BY Partes
  <1>2. Logica!EnUnaPagina(l, Len(s))
    <2>1. Len(s) \in Nat
      OBVIOUS
    <2> QED
      BY <2>1, UnaPagina DEF Logica!EnUnaPagina
  <1>3. Mem' = IF l + Len(s) <= Len(v) THEN [Mem EXCEPT ![p] = w] ELSE Mem
    <2>1. CASE Pagina(l) < Len(paginas[p])
      <3>1. EscribeEspacio(p, Lugar(p, l + 1), s)
        BY <2>1 DEF Buena
      <3>2. Vista(p)' = w /\ l + Len(s) <= Len(v)
        BY <2>1, <3>1, EscribeEnSuLugar
      <3>3. \A q \in Pids \ {p} : Vista(q)' = Vista(q)
        <4> DEFINE df == Lugar(p, l + 1)
        <4>1. df \in 0..(Fin - 1) /\ Hasta(df) = Hasta(l)
          BY <1>1, <2>1, BuenaTipo
        <4> HIDE DEF df
        <4>2. df \in Nat \cup {Invalida} /\ EscribeEspacio(p, df, s)
          BY <3>1, <4>1 DEF df
        <4> QED
          BY <4>1, <4>2, EscribeLoSuyo
      <3> HIDE DEF w
      <3> QED
        BY <3>2, <3>3 DEF Mem
    <2>2. CASE ~(Pagina(l) < Len(paginas[p]))
      <3>1. espacio' = espacio
        <4>1. ~Alcanzable(p, Buena(p, l))
          BY <2>2 DEF Buena, Alcanzable
        <4>2. espacio' = [b \in DOMAIN espacio |-> espacio[b]]
          BY <4>1 DEF EscribeEspacio
        <4> QED
          BY <1>1, <4>2 DEF TEspacio
      <3>2. Mem' = Mem
        BY <3>1, MemoriaQuieta
      <3>3. ~(l + Len(s) <= Len(v))
        <4> DEFINE c == Len(paginas[p])
        <4>1. c \in Nat /\ Pagina(l) \in Nat /\ Pagina(l) >= c /\ TamPagina \in Nat /\ TamPagina > 1
          <5>1. c \in Nat
            BY <1>1 DEF TPaginas
          <5>2. Pagina(l) \in Nat /\ TamPagina \in Nat /\ TamPagina > 1
            BY PaginaTipo, Medidas
          <5> QED
            BY <2>2, <5>1, <5>2
        <4> HIDE DEF c
        <4>2. Pagina(l) * TamPagina >= c * TamPagina /\ c * TamPagina \in Nat /\ Pagina(l) * TamPagina \in Nat
          BY <4>1
        <4>3. l >= Pagina(l) * TamPagina
          <5>1. l % TamPagina \in Nat
            BY PaginaTipo
          <5> QED
            BY <4>2, <5>1, DivMod
        <4>4. Len(v) = c * TamPagina
          BY VistaTipo DEF Bytes, c
        <4> HIDE DEF v
        <4> QED
          BY <4>2, <4>3, <4>4
      <3> QED
        BY <3>2, <3>3
    <2> QED
      BY <2>1, <2>2
  <1> QED
    BY <1>2, <1>3 DEF Logica!Guarda, Logica!Dentro, Logica!Con, Mem

(***************************************************************************)
(* The invariant of the refinement: what is left of a copy, and what the   *)
(* interfaces were asked for, is still good.                               *)
(***************************************************************************)

TopeDirs == Max(Dirs) + TamPagina + 1

LEMMA MaxDirs ==
    ASSUME NEW d \in Dirs
    PROVE  Max(Dirs) \in Nat /\ d <= Max(Dirs)
  <1> DEFINE Mas(x) == {y \in Dirs : y > x}
             C == {Cardinality(Mas(x)) : x \in Dirs}
  <1>1. Dirs \subseteq Nat /\ IsFiniteSet(Dirs)
    BY PedidosAssumption
  <1>2. \A x \in Dirs : IsFiniteSet(Mas(x)) /\ Cardinality(Mas(x)) \in Nat
    <2>1. \A x \in Dirs : Mas(x) \in SUBSET Dirs
      OBVIOUS
    <2> QED
      BY <1>1, <2>1, FS_Subset, FS_CardinalityType
  <1>3. C \subseteq Nat /\ C # {}
    BY <1>2
  <1>4. PICK m \in C : \A k \in C : m <= k
    BY <1>3, MinNat
  <1>5. PICK x \in Dirs : m = Cardinality(Mas(x))
    BY <1>4
  <1>6. \A y \in Dirs : y <= x
    <2> SUFFICES ASSUME NEW y \in Dirs, ~(y <= x)
                 PROVE  FALSE
      OBVIOUS
    <2>1. x \in Nat /\ y \in Nat /\ y > x
      BY <1>1
    <2>2. Mas(y) \in SUBSET Mas(x)
      <3>1. \A z \in Dirs : z > y => z > x
        BY <1>1, <2>1
      <3> QED
        BY <3>1
    <2>3. y \in Mas(x) /\ y \notin Mas(y)
      BY <2>1
    <2>4. Mas(y) # Mas(x)
      BY <2>3
    <2>5. IsFiniteSet(Mas(x)) /\ Cardinality(Mas(x)) \in Nat /\ Cardinality(Mas(y)) \in Nat
      BY <1>2
    <2> HIDE DEF Mas
    <2>6. Cardinality(Mas(y)) <= Cardinality(Mas(x)) /\ Cardinality(Mas(y)) # Cardinality(Mas(x))
      BY <2>2, <2>4, <2>5, FS_Subset
    <2>7. Cardinality(Mas(x)) <= Cardinality(Mas(y))
      BY <1>4, <1>5
    <2> QED
      BY <2>5, <2>6, <2>7
  <1>7. \A y \in Dirs : x >= y
    BY <1>1, <1>6
  <1>8. Max(Dirs) \in Dirs /\ \A y \in Dirs : Max(Dirs) >= y
    BY <1>7 DEF Max
  <1> QED
    BY <1>1, <1>8

Copiando ==
    destino # Invalida =>
        Dirs # {} /\ Len(leido) \in 1..(TamPagina + 1) /\ destino + Len(leido) <= TopeDirs

(* As long as the process has not lost pages, the address it asked for the *)
(* interface with is still the one of its bytes.                           *)
PedidoBueno(p) ==
    /\ pend[p].op # "no" => p # enCpu
    /\ pend[p].op = "STDIN" =>
          /\ pend[p].l \in Dirs /\ pend[p].n \in 1..(TamPagina + 1)
          /\ p \notin inestable => pend[p].n <= Hasta(pend[p].l) /\ pend[p].df = Buena(p, pend[p].l)
PedidosBuenos == \A p \in Pids : PedidoBueno(p)

Inv2 == Inv /\ Copiando /\ PedidosBuenos

(* Nothing happens to what p asked for when its table stays as it was.     *)
LEMMA PedidoSigue ==
    ASSUME NEW p \in Pids, PedidoBueno(p), pend'[p] = pend[p], paginas'[p] = paginas[p],
           p = enCpu' => p = enCpu, inestable \subseteq inestable'
    PROVE  PedidoBueno(p)'
  <1>1. Buena(p, pend[p].l)' = Buena(p, pend[p].l)
    BY DEF Buena, Lugar, Pagina
  <1> QED
    BY <1>1 DEF PedidoBueno, Hasta

LEMMA PedidosSiguen ==
    ASSUME PedidosBuenos, UNCHANGED <<pend, paginas>>, inestable \subseteq inestable',
           enCpu' = enCpu \/ enCpu' = NULO
    PROVE  PedidosBuenos'
  <1>1. ASSUME NEW p \in Pids
        PROVE  PedidoBueno(p)'
    <2>1. p # NULO
      BY NuloAssumption
    <2> QED
      BY <2>1, PedidoSigue DEF PedidosBuenos
  <1> QED
    BY <1>1 DEF PedidosBuenos

LEMMA Inv2Copia ==
    ASSUME Inv2, CopiaEscribe
    PROVE  Copiando' /\ PedidosBuenos'
  <1> DEFINE n == Min({Hasta(destino), Len(leido)})
  <1>1. TypeOK /\ Copiando /\ PedidosBuenos
    BY DEF Inv2, Inv
  <1>2. destino \in Nat /\ leido \in Seq(Byte) /\ Len(leido) \in 1..(TamPagina + 1)
        /\ destino + Len(leido) <= TopeDirs
    BY <1>1 DEF CopiaEscribe, TypeOK, Copiando
  <1>3. Hasta(destino) \in Nat /\ Hasta(destino) > 0 /\ Len(leido) \in Nat /\ Len(leido) <= TamPagina + 1
        /\ TamPagina \in Nat
    <2>1. Hasta(destino) \in 1..TamPagina
      BY <1>2, PaginaTipo
    <2> QED
      BY <1>2, <2>1, Medidas
  <1>4. n \in Nat /\ n > 0 /\ n <= Len(leido)
    BY <1>2, <1>3, MinDos
  <1> HIDE DEF n
  <1>5. \/ destino' = Invalida
        \/ n # Len(leido) /\ leido' = SubSeq(leido, n + 1, Len(leido)) /\ destino' = destino + n
    BY DEF CopiaEscribe, n
  <1>6. Copiando'
    <2>1. CASE destino' = Invalida
      BY <2>1 DEF Copiando
    <2>2. CASE n # Len(leido) /\ leido' = SubSeq(leido, n + 1, Len(leido)) /\ destino' = destino + n
      <3>1. Len(leido') = Len(leido) - n
        <4>1. \A i \in (n + 1)..Len(leido) : i \in 1..Len(leido)
          BY <1>3, <1>4
        <4> QED
          BY <1>2, <1>3, <1>4, <2>2, <4>1, SubSeqProperties
      <3>2. Len(leido) - n \in 1..(TamPagina + 1)
        BY <1>3, <1>4, <2>2
      <3>3. destino' + Len(leido') = destino + Len(leido)
        <4> DEFINE a == Len(leido)
                   b == Len(leido')
        <4>1. a \in Nat /\ b = a - n /\ destino' = destino + n
          BY <1>3, <2>2, <3>1
        <4> HIDE DEF a, b
        <4>2. destino' + b = destino + a
          BY <1>2, <1>4, <4>1
        <4> QED
          BY <4>2 DEF a, b
      <3>4. TopeDirs' = TopeDirs
        BY DEF TopeDirs
      <3> QED
        BY <1>1, <1>2, <3>1, <3>2, <3>3, <3>4 DEF Copiando, CopiaEscribe
    <2> QED
      BY <1>5, <2>1, <2>2
  <1>7. PedidosBuenos'
    BY <1>1, PedidosSiguen DEF CopiaEscribe, vPid
  <1> QED
    BY <1>6, <1>7

LEMMA Inv2Lee ==
    ASSUME Inv2, NEW si \in Dirs, NEW di \in Dirs, NEW n \in Largos, CopiaLee(si, di, n)
    PROVE  Copiando' /\ PedidosBuenos'
  <1> DEFINE df == Fisica(enCpu, si)
  <1>1. TypeOK /\ TEspacio /\ PedidosBuenos /\ enCpu \in Pids
    BY EnPids, Partes DEF Inv2, Inv, CopiaLee
  <1>2. si \in Nat /\ di \in Nat /\ n \in Nat /\ n \in 1..(TamPagina + 1)
    BY PedidosAssumption, TamanioAssumption
  <1>3. df \in Nat \cup {Invalida}
    BY <1>1, <1>2, FisicaTipo
  <1> HIDE DEF df
  <1>4. PICK x \in Byte :
        leido' = IF Alcanzable(enCpu, df) THEN Texto(Crudo(df, n, x), x) ELSE [k \in 1..n |-> CERO]
    BY DEF CopiaLee, df
  <1>5. Len(leido') = n
    <2>1. CASE Alcanzable(enCpu, df)
      <3>1. df \in Nat
        BY <1>3, <2>1 DEF Alcanzable
      <3> QED
        BY <1>1, <1>2, <1>4, <2>1, <3>1, TextoTipo
    <2>2. CASE ~Alcanzable(enCpu, df)
      <3>1. [k \in 1..n |-> CERO] \in [1..n -> Byte]
        BY ByteAssumption
      <3> QED
        BY <1>2, <1>4, <2>2, <3>1
    <2> QED
      BY <2>1, <2>2
  <1>6. destino' = di
    BY DEF CopiaLee
  <1>7. Copiando'
    <2>1. Max(Dirs) \in Nat /\ di <= Max(Dirs) /\ TamPagina \in Nat
      BY MaxDirs, Medidas
    <2>2. di + n <= Max(Dirs) + TamPagina + 1
      BY <1>2, <2>1
    <2> QED
      BY <1>2, <1>5, <1>6, <2>2 DEF Copiando, TopeDirs
  <1>8. PedidosBuenos'
    BY <1>1, PedidosSiguen DEF CopiaLee, vPid
  <1> QED
    BY <1>7, <1>8

LEMMA Inv2Pide ==
    ASSUME Inv2, NEW op \in {"STDIN", "STDOUT"}, NEW l \in Dirs, NEW n \in Largos, PideIO(op, l, n)
    PROVE  Copiando' /\ PedidosBuenos'
  <1> DEFINE df == Fisica(enCpu, l)
             e == [op |-> op, df |-> df, n |-> n, l |-> l]
  <1>1. TypeOK /\ TlbCoherente /\ PedidosBuenos /\ enCpu \in Pids /\ destino = Invalida
    BY EnPids DEF Inv2, Inv, PideIO
  <1>2. l \in Nat /\ n \in 1..(TamPagina + 1)
    BY PedidosAssumption
  <1>3. /\ pend' = [pend EXCEPT ![enCpu] = e] /\ enCpu' = NULO
        /\ inestable' = IF op = "STDIN" /\ n > Hasta(l) THEN inestable \cup {enCpu} ELSE inestable
        /\ UNCHANGED <<vMem, destino>>
    BY DEF PideIO
  <1>4. enCpu \notin inestable => df = Buena(enCpu, l)
    BY <1>1, <1>2, FisicaBuena
  <1>5. e.op = op /\ e.l = l /\ e.n = n /\ e.df = df
    OBVIOUS
  <1> HIDE DEF df, e
  <1>6. ASSUME NEW p \in Pids
        PROVE  PedidoBueno(p)'
    <2>1. p # NULO
      BY NuloAssumption
    <2>2. CASE p = enCpu
      <3>1. pend'[p] = e
        BY <1>1, <1>3, <2>2 DEF TypeOK
      <3>2. Buena(p, l)' = Buena(p, l) /\ Hasta(l)' = Hasta(l)
        BY <1>3 DEF Buena, Lugar, Pagina, Hasta, vMem
      <3>3. op = "STDIN" /\ p \notin inestable' => n <= Hasta(l) /\ df = Buena(p, l)
        <4>1. Hasta(l) \in Int /\ n \in Int
          BY <1>2, PaginaTipo, Medidas
        <4> QED
          BY <1>3, <1>4, <2>2, <4>1
      <3> QED
        BY <1>2, <1>3, <1>5, <2>1, <3>1, <3>2, <3>3 DEF PedidoBueno
    <2>3. CASE p # enCpu
      <3>1. pend'[p] = pend[p]
        BY <1>1, <1>3, <2>3 DEF TypeOK
      <3>2. paginas'[p] = paginas[p] /\ inestable \subseteq inestable'
        BY <1>3 DEF vMem
      <3> QED
        BY <1>1, <1>3, <2>1, <3>1, <3>2, PedidoSigue DEF PedidosBuenos
    <2> QED
      BY <2>2, <2>3
  <1>7. Copiando'
    BY <1>1, <1>3 DEF Copiando
  <1> QED
    BY <1>6, <1>7 DEF PedidosBuenos

LEMMA Inv2Stdin ==
    ASSUME Inv2, NEW p \in Pids, Stdin(p)
    PROVE  Copiando' /\ PedidosBuenos'
  <1> DEFINE e == pend[p]
             n == Min({Hasta(e.df), e.n})
             z == IF e.df = Invalida \/ n = e.n THEN NoPide ELSE [e EXCEPT !.df = e.df + n, !.n = e.n - n]
  <1>1. TypeOK /\ Copiando /\ PedidosBuenos
    BY DEF Inv2, Inv
  <1>2. /\ e.op = "STDIN" /\ p # enCpu /\ e.l \in Dirs /\ e.n \in 1..(TamPagina + 1)
        /\ p \notin inestable => e.n <= Hasta(e.l) /\ e.df = Buena(p, e.l)
    BY <1>1 DEF PedidosBuenos, PedidoBueno, Stdin
  <1>3. /\ pend' = [pend EXCEPT ![p] = z]
        /\ UNCHANGED <<paginas, vCpu, inestable>>
    BY DEF Stdin
  <1>4. e \in Pedidos /\ e.df \in Nat \cup {Invalida}
    BY <1>1 DEF TypeOK, Pedidos
  <1>5. pend'[p] = z /\ \A q \in Pids \ {p} : pend'[q] = pend[q]
    BY <1>1, <1>3 DEF TypeOK
  <1>6. PedidoBueno(p)'
    <2>1. CASE e.df = Invalida \/ n = e.n
      <3>1. z.op = "no"
        BY <2>1 DEF NoPide
      <3> QED
        BY <1>5, <3>1 DEF PedidoBueno
    <2>2. CASE ~(e.df = Invalida \/ n = e.n)
      <3>1. e.df \in Nat
        BY <1>4, <2>2
      <3>2. Hasta(e.df) \in 1..TamPagina
        BY <3>1, PaginaTipo
      <3>3. e.n \in Nat /\ Hasta(e.df) \in Nat /\ Hasta(e.df) > 0 /\ e.n <= TamPagina + 1
        BY <1>2, <3>2, Medidas
      <3>4. n = Hasta(e.df) /\ n < e.n
        BY <2>2, <3>3, MinDos
      <3>5. p \in inestable
        <4> SUFFICES ASSUME p \notin inestable
                     PROVE  FALSE
          OBVIOUS
        <4>1. e.n <= Hasta(e.l) /\ e.df = Buena(p, e.l) /\ e.df # Invalida
          BY <1>2, <2>2
        <4>2. Hasta(e.df) = Hasta(e.l)
          <5>1. TPaginas /\ e.l \in Nat
            BY <1>1, <1>2, Partes, PedidosAssumption
          <5>2. Pagina(e.l) < Len(paginas[p]) /\ e.df = Lugar(p, e.l + 1)
            BY <4>1 DEF Buena
          <5> HIDE DEF e
          <5> QED
            BY <5>1, <5>2, BuenaTipo
        <4> QED
          BY <3>3, <3>4, <4>1, <4>2
      <3>6. z = [e EXCEPT !.df = e.df + n, !.n = e.n - n]
        BY <2>2
      <3> HIDE DEF z, n, e
      <3>7. z.op = "STDIN" /\ z.l = e.l /\ z.n = e.n - n
        BY <1>2, <1>4, <3>6 DEF Pedidos
      <3>8. e.n - n \in 1..(TamPagina + 1)
        BY <3>3, <3>4, Medidas
      <3>9. p \in inestable' /\ p # enCpu'
        BY <1>2, <1>3, <3>5 DEF vCpu
      <3> QED
        BY <1>2, <1>5, <3>7, <3>8, <3>9 DEF PedidoBueno
    <2> QED
      BY <2>1, <2>2
  <1> HIDE DEF e, n, z
  <1>7. ASSUME NEW q \in Pids \ {p}
        PROVE  PedidoBueno(q)'
    <2>1. paginas'[q] = paginas[q] /\ enCpu' = enCpu /\ inestable' = inestable /\ pend'[q] = pend[q]
      BY <1>3, <1>5 DEF vCpu
    <2> QED
      BY <1>1, <2>1, PedidoSigue DEF PedidosBuenos
  <1>8. Copiando'
    BY <1>1, <1>3 DEF Copiando, vCpu, TopeDirs
  <1> QED
    BY <1>6, <1>7, <1>8 DEF PedidosBuenos

(* The table of one process changes, and it was not waiting for anything,  *)
(* or will not have its bytes in order.                                    *)
LEMMA PedidosDeOtros ==
    ASSUME PedidosBuenos, NEW p \in Pids, pend' = pend, inestable \subseteq inestable',
           enCpu' = enCpu \/ enCpu' = NULO,
           p \in inestable' \/ pend[p].op = "no",
           \A q \in Pids \ {p} : paginas'[q] = paginas[q]
    PROVE  PedidosBuenos'
  <1>1. ASSUME NEW q \in Pids \ {p}
        PROVE  PedidoBueno(q)'
    <2>1. q # NULO
      BY NuloAssumption
    <2> QED
      BY <2>1, PedidoSigue DEF PedidosBuenos
  <1>2. PedidoBueno(p)'
    <2>1. p # NULO /\ PedidoBueno(p)
      BY NuloAssumption DEF PedidosBuenos
    <2> QED
      BY <2>1 DEF PedidoBueno
  <1> QED
    BY <1>1, <1>2 DEF PedidosBuenos

LEMMA Inv2Tablas ==
    ASSUME Inv2, (\E n \in Tamanios : Resize(n)) \/ (\E p \in Pids : Finaliza(p))
    PROVE  Copiando' /\ PedidosBuenos'
  <1>1. TypeOK /\ Copiando /\ PedidosBuenos
    BY DEF Inv2, Inv
  <1>2. ASSUME NEW n \in Tamanios, Resize(n)
        PROVE  Copiando' /\ PedidosBuenos'
    <2>1. enCpu \in Pids /\ destino = Invalida
      BY <1>1, <1>2, EnPids DEF Resize
    <2>2. pend[enCpu].op = "no"
      BY <1>1, <2>1 DEF PedidosBuenos, PedidoBueno
    <2>3. \A q \in Pids \ {enCpu} : paginas'[q] = paginas[q]
      <3>1. paginas \in [Pids -> Seq(Marcos)]
        BY <1>1 DEF TypeOK
      <3>2. PICK t : paginas' = [paginas EXCEPT ![enCpu] = t]
        BY <1>2 DEF Resize
      <3> QED
        BY <3>1, <3>2
    <2>4. pend' = pend /\ destino' = destino /\ inestable \subseteq inestable'
          /\ (enCpu' = enCpu \/ enCpu' = NULO)
      BY <1>2 DEF Resize
    <2>5. PedidosBuenos'
      BY <1>1, <2>1, <2>2, <2>3, <2>4, PedidosDeOtros
    <2> QED
      BY <2>1, <2>4, <2>5 DEF Copiando
  <1>3. ASSUME NEW p \in Pids, Finaliza(p)
        PROVE  Copiando' /\ PedidosBuenos'
    <2>1. \A q \in Pids \ {p} : paginas'[q] = paginas[q]
      BY <1>1, <1>3 DEF Finaliza, TypeOK
    <2>2. pend' = pend /\ enCpu' = enCpu /\ destino' = destino /\ leido' = leido
          /\ inestable' = inestable \cup {p}
      BY <1>3 DEF Finaliza, vCpu
    <2>3. PedidosBuenos'
      BY <1>1, <2>1, <2>2, PedidosDeOtros
    <2> QED
      BY <1>1, <2>2, <2>3 DEF Copiando, TopeDirs
  <1> QED
    BY <1>2, <1>3

LEMMA Inv2Paso ==
    ASSUME Inv2, [Next]_vars
    PROVE  Inv2'
  <1>1. Inv /\ Copiando /\ PedidosBuenos /\ TypeOK
    BY DEF Inv2, Inv
  <1>2. Inv'
    BY <1>1, InvPaso
  <1>3. CASE UNCHANGED vars
    <2>1. PedidosBuenos'
      BY <1>1, <1>3, PedidosSiguen DEF vars, vMem, vCpu, vPid
    <2> QED
      BY <1>1, <1>2, <1>3, <2>1 DEF Inv2, Copiando, TopeDirs, vars, vCpu
  <1>4. ASSUME NEW p \in Pids, Inicia(p) \/ Entra(p) \/ Stdout(p)
        PROVE  Copiando' /\ PedidosBuenos'
    <2>1. UNCHANGED <<paginas, destino, inestable>> /\ (destino # Invalida => UNCHANGED leido)
      BY <1>4 DEF Inicia, Entra, Stdout, Listo, vMem, vCpu, vPid, Inv, EnCopia, Inv2
    <2>2. Copiando'
      BY <1>1, <2>1 DEF Copiando, TopeDirs
    <2>3. CASE Inicia(p)
      BY <1>1, <2>1, <2>2, <2>3, PedidosSiguen DEF Inicia, vCpu
    <2>4. CASE Entra(p)
      <3>1. pend[p].op = "no" /\ enCpu' = p /\ pend' = pend
        BY <2>4 DEF Entra, vPid
      <3>2. ASSUME NEW q \in Pids
            PROVE  PedidoBueno(q)'
        <4>1. CASE q = p
          BY <3>1, <4>1 DEF PedidoBueno
        <4>2. CASE q # p
          BY <1>1, <2>1, <3>1, <4>2, PedidoSigue DEF PedidosBuenos
        <4> QED
          BY <4>1, <4>2
      <3> QED
        BY <2>2, <3>2 DEF PedidosBuenos
    <2>5. CASE Stdout(p)
      <3>1. pend' = [pend EXCEPT ![p] = NoPide] /\ enCpu' = enCpu /\ pend \in [Pids -> Pedidos]
        BY <1>1, <2>5, Partes DEF Stdout, vCpu, TPend
      <3>2. pend'[p].op = "no"
        BY <3>1 DEF NoPide
      <3>3. ASSUME NEW q \in Pids
            PROVE  PedidoBueno(q)'
        <4>1. CASE q = p
          BY <3>2, <4>1 DEF PedidoBueno
        <4>2. CASE q # p
          <5>1. pend'[q] = pend[q]
            BY <3>1, <4>2
          <5> QED
            BY <1>1, <2>1, <3>1, <5>1, PedidoSigue DEF PedidosBuenos
        <4> QED
          BY <4>1, <4>2
      <3> QED
        BY <2>2, <3>3 DEF PedidosBuenos
    <2> QED
      BY <1>4, <2>3, <2>4, <2>5
  <1>5. CASE Sale \/ (\E l \in Dirs : MovIn(l) \/ \E d \in Byte : MovOut(l, d))
    <2>1. /\ UNCHANGED <<paginas, destino, inestable, pend>> /\ destino = Invalida
          /\ enCpu' = enCpu \/ enCpu' = NULO
      BY <1>5 DEF Sale, MovIn, MovOut, Listo, vMem, vPid
    <2>2. Copiando'
      BY <2>1 DEF Copiando
    <2>3. PedidosBuenos'
      BY <1>1, <2>1, PedidosSiguen
    <2> QED
      BY <1>2, <2>2, <2>3 DEF Inv2
  <1>6. CASE CopiaEscribe
    BY <1>2, <1>6, Inv2Copia DEF Inv2
  <1>7. ASSUME NEW p \in Pids, Finaliza(p) \/ Stdin(p)
        PROVE  Copiando' /\ PedidosBuenos'
    BY <1>7, Inv2Tablas, Inv2Stdin
  <1>8. ASSUME NEW n \in Tamanios, Resize(n)
        PROVE  Copiando' /\ PedidosBuenos'
    BY <1>8, Inv2Tablas
  <1>9. ASSUME NEW l \in Dirs, NEW n \in Largos,
               \/ PideIO("STDIN", l, n) \/ PideIO("STDOUT", l, n)
               \/ \E di \in Dirs : CopiaLee(l, di, n)
        PROVE  Copiando' /\ PedidosBuenos'
    BY <1>9, Inv2Pide, Inv2Lee
  <1> QED
    BY <1>2, <1>3, <1>4, <1>5, <1>6, <1>7, <1>8, <1>9 DEF Next, Inv2

LEMMA Inv2Siempre == Spec => []Inv2
  <1>1. Init => Inv2
    <2>1. Init => Copiando
      BY DEF Init, Copiando
    <2>2. Init => PedidosBuenos
      BY NuloAssumption DEF Init, PedidosBuenos, PedidoBueno, NoPide
    <2> QED
      BY <2>1, <2>2, InvInit DEF Inv2
  <1> QED
    BY <1>1, Inv2Paso, PTL DEF Spec

(***************************************************************************)
(* Reading.                                                                *)
(***************************************************************************)

LEMMA LeeBien ==
    ASSUME TypeOK, NEW p \in Pids, NEW l \in Nat, NEW n \in Nat, n > 0, n <= Hasta(l),
           l + n <= Len(Vista(p)), NEW x
    PROVE  /\ Alcanzable(p, Buena(p, l))
           /\ Crudo(Buena(p, l), n, x) = SubSeq(Vista(p), l + 1, l + n)
  <1> DEFINE v == Vista(p)
             df == Lugar(p, l + 1)
             c == Crudo(df, n, x)
             s == SubSeq(v, l + 1, l + n)
  <1>1. TPaginas /\ TEspacio
    BY Partes
  <1>2. v \in Seq(Byte) /\ Len(v) = Bytes(p) /\ \A k \in 1..Bytes(p) : v[k] = espacio[Lugar(p, k)]
    BY VistaTipo
  <1>3. Pagina(l) < Len(paginas[p])
    <2> DEFINE g == Len(paginas[p])
    <2>1. g \in Nat /\ TamPagina \in Nat /\ TamPagina > 1
      BY <1>1, Medidas DEF TPaginas
    <2> HIDE DEF g
    <2>2. l + n <= g * TamPagina /\ g * TamPagina \in Nat
      BY <1>2, <2>1 DEF Bytes, g
    <2>3. l < g * TamPagina
      BY <2>2
    <2>4. l \div TamPagina < g
      BY <2>1, <2>3
    <2> QED
      BY <2>4 DEF Pagina, g
  <1>4. Buena(p, l) = df
    BY <1>3 DEF Buena
  <1>5. Alcanzable(p, df) /\ df \in 0..(Fin - 1)
    BY <1>1, <1>3, BuenaTipo
  <1>6. \A i \in Nat : i < Hasta(l) => l + i + 1 \in 1..Bytes(p) /\ Lugar(p, l + i + 1) = df + i
    BY <1>1, <1>3, LugaresSeguidos
  <1> HIDE DEF df, v
  <1>7. /\ s \in Seq(Byte) /\ Len(s) = n
        /\ \A k \in 1..n : s[k] = v[l + k]
    <2>1. \A i \in (l + 1)..(l + n) : i \in 1..Len(v)
      BY <1>2 DEF v
    <2>2. l + 1 \in Int /\ l + n \in Int /\ (l + n) - (l + 1) + 1 = n /\ l + 1 <= (l + n) + 1
      OBVIOUS
    <2>3. s \in Seq(Byte) /\ Len(s) = n /\ \A k \in 1..n : s[k] = v[(l + 1) + k - 1]
      BY <1>2, <2>1, <2>2, SubSeqProperties
    <2>4. \A k \in 1..n : (l + 1) + k - 1 = l + k
      OBVIOUS
    <2> HIDE DEF s
    <2> QED
      BY <2>3, <2>4
  <1>8. c = [k \in 1..n |-> IF df + k - 1 < Fin THEN espacio[df + k - 1] ELSE x]
    BY DEF Crudo
  <1> HIDE DEF s, c
  <1>9. ASSUME NEW k \in 1..n
        PROVE  s[k] = IF df + k - 1 < Fin THEN espacio[df + k - 1] ELSE x
    <2> DEFINE i == k - 1
    <2>1. i \in Nat /\ i < Hasta(l) /\ l + i + 1 = l + k /\ df + i = df + k - 1
      <3>1. Hasta(l) \in Int
        BY PaginaTipo, Medidas
      <3> QED
        BY <1>5, <3>1
    <2> HIDE DEF i
    <2>2. l + k \in 1..Bytes(p) /\ Lugar(p, l + k) = df + k - 1
      BY <1>6, <2>1
    <2>3. df + k - 1 \in 0..(Fin - 1)
      BY <1>1, <2>2, LugarTipo
    <2>4. df + k - 1 < Fin
      BY <2>3, Medidas
    <2> QED
      BY <1>2, <1>7, <2>2, <2>4
  <1>10. s = [k \in 1..n |-> s[k]]
    BY <1>7
  <1>11. c = s
    BY <1>8, <1>9, <1>10
  <1> QED
    BY <1>4, <1>5, <1>11 DEF c, s, v

(* A read as MemoriaLogica has it.                                         *)
LEMMA LeeEnLogica ==
    ASSUME NEW p \in Pids, NEW l, NEW n, UNCHANGED <<paginas, espacio, inestable>>,
           /\ p \notin inestable /\ Logica!EnUnaPagina(l, n) /\ l + n <= Len(Vista(p))
           /\ CERO \notin ToSet(SubSeq(Vista(p), l + 1, l + n))
           => leido' = SubSeq(Vista(p), l + 1, l + n)
    PROVE  Logica!Lee(p, l, n)
  <1>1. Mem' = Mem
    BY MemoriaQuieta
  <1> QED
    <2>1. UNCHANGED <<[q \in Pids |-> Vista(q)], inestable>>
      BY <1>1 DEF Mem
    <2>2. [q \in Pids |-> Vista(q)][p] = Vista(p)
      OBVIOUS
    <2> QED
      BY <2>1, <2>2 DEF Logica!Lee, Logica!Dentro, Logica!ToSet, ToSet

LEMMA MovInLogica ==
    ASSUME Inv2, NEW l \in Dirs, MovIn(l)
    PROVE  Logica!Lee(enCpu, l, 1) /\ enCpu \in Pids
  <1> DEFINE df == Fisica(enCpu, l)
             p == enCpu
  <1>1. TypeOK /\ TlbCoherente /\ p \in Pids /\ l \in Nat
    BY EnPids, PedidosAssumption DEF Inv2, Inv, MovIn
  <1>2. /\ leido' = IF Alcanzable(p, df) THEN Crudo(df, 1, CERO) ELSE <<>>
        /\ UNCHANGED <<paginas, espacio, inestable>>
    BY DEF MovIn, vPid
  <1>3. ASSUME p \notin inestable, l + 1 <= Len(Vista(p))
        PROVE  leido' = SubSeq(Vista(p), l + 1, l + 1)
    <2>1. df = Buena(p, l)
      BY <1>1, <1>3, FisicaBuena
    <2>2. Hasta(l) \in 1..TamPagina
      BY <1>1, PaginaTipo
    <2>3. 1 \in Nat /\ 1 > 0 /\ 1 <= Hasta(l)
      BY <2>2, Medidas
    <2> HIDE DEF df, p
    <2>4. Alcanzable(p, Buena(p, l)) /\ Crudo(Buena(p, l), 1, CERO) = SubSeq(Vista(p), l + 1, l + 1)
      BY <1>1, <1>3, <2>3, LeeBien
    <2> QED
      BY <1>2, <2>1, <2>4
  <1> HIDE DEF df
  <1>4. Logica!Lee(p, l, 1)
    BY <1>1, <1>2, <1>3, LeeEnLogica
  <1> QED
    BY <1>1, <1>4

LEMMA CopiaLeeLogica ==
    ASSUME Inv2, NEW si \in Dirs, NEW di \in Dirs, NEW n \in Largos, CopiaLee(si, di, n)
    PROVE  Logica!Lee(enCpu, si, n) /\ enCpu \in Pids
  <1> DEFINE df == Fisica(enCpu, si)
             p == enCpu
  <1>1. TypeOK /\ TlbCoherente /\ p \in Pids /\ si \in Nat /\ n \in Nat /\ n > 0
    <2>1. si \in Nat /\ n \in 1..(TamPagina + 1)
      BY PedidosAssumption
    <2> QED
      BY <2>1, EnPids, Medidas DEF Inv2, Inv, CopiaLee
  <1>2. UNCHANGED <<paginas, espacio, inestable>>
    BY DEF CopiaLee, vPid
  <1>3. PICK x \in Byte :
        leido' = IF Alcanzable(p, df) THEN Texto(Crudo(df, n, x), x) ELSE [k \in 1..n |-> CERO]
    BY DEF CopiaLee
  <1> DEFINE s == SubSeq(Vista(p), si + 1, si + n)
  <1>4. ASSUME p \notin inestable, Logica!EnUnaPagina(si, n), si + n <= Len(Vista(p)),
               CERO \notin ToSet(s)
        PROVE  leido' = s
    <2>1. df = Buena(p, si)
      BY <1>1, <1>4, FisicaBuena
    <2>2. n <= Hasta(si)
      BY <1>1, <1>4, UnaPagina DEF Logica!EnUnaPagina
    <2> HIDE DEF df, p
    <2>3. Alcanzable(p, df) /\ Crudo(df, n, x) = s
      BY <1>1, <1>4, <2>1, <2>2, LeeBien
    <2>4. leido' = Texto(s, x)
      BY <1>3, <2>3
    <2>5. Vista(p) \in Seq(Byte)
      BY <1>1, VistaTipo
    <2>6. s \in Seq(Byte)
      <3>1. \A i \in (si + 1)..(si + n) : i \in 1..Len(Vista(p))
        BY <1>1, <1>4, <2>5
      <3>2. si + 1 \in Int /\ si + n \in Int /\ si + 1 <= (si + n) + 1
        BY <1>1
      <3> QED
        BY <2>5, <3>1, <3>2, SubSeqProperties
    <2> HIDE DEF s
    <2>7. \A k \in DOMAIN s : s[k] # CERO
      BY <1>4 DEF ToSet
    <2>8. \A k \in DOMAIN s : \A j \in 1..(k - 1) : s[j] # CERO
      <3>1. DOMAIN s = 1..Len(s) /\ Len(s) \in Nat
        BY <2>6
      <3>2. \A k \in 1..Len(s) : \A j \in 1..(k - 1) : j \in 1..Len(s)
        BY <3>1
      <3> QED
        BY <2>7, <3>1, <3>2
    <2>9. Texto(s, x) = [k \in DOMAIN s |-> s[k]]
      BY <2>8 DEF Texto
    <2>10. s = [k \in DOMAIN s |-> s[k]]
      BY <2>6
    <2> QED
      BY <2>4, <2>9, <2>10
  <1> HIDE DEF df
  <1>5. Logica!Lee(p, si, n)
    BY <1>1, <1>2, <1>4, LeeEnLogica
  <1> QED
    BY <1>1, <1>5

(***************************************************************************)
(* Writing.                                                                *)
(***************************************************************************)

LEMMA EscribeEnLogica ==
    ASSUME TypeOK, TypeOK', NEW p \in Pids, NEW l \in Nat, NEW df \in Nat \cup {Invalida},
           NEW s \in Seq(Byte), Len(s) > 0, df # Invalida => Len(s) <= Hasta(df),
           p \notin inestable => Len(s) <= Hasta(l) /\ df = Buena(p, l),
           EscribeEspacio(p, df, s), UNCHANGED <<paginas, inestable>>
    PROVE  Logica!Desordena(p) \/ Logica!Guarda(p, l, s)
  <1>1. CASE p \in inestable
    BY <1>1, DesordenaBien
  <1>2. CASE p \notin inestable
    BY <1>2, GuardaBien
  <1> QED
    BY <1>1, <1>2

LEMMA MovOutLogica ==
    ASSUME Inv2, Inv2', NEW l \in Dirs, NEW d \in Byte, MovOut(l, d)
    PROVE  Logica!Escribe(enCpu, l, <<d>>) /\ enCpu \in Pids
  <1> DEFINE df == Fisica(enCpu, l)
             p == enCpu
             s == <<d>>
  <1>1. TypeOK /\ TypeOK' /\ TlbCoherente /\ p \in Pids /\ l \in Nat
    BY EnPids, PedidosAssumption DEF Inv2, Inv, MovOut
  <1>2. EscribeEspacio(p, df, s) /\ leido' = <<>> /\ UNCHANGED <<paginas, inestable>>
    BY DEF MovOut, vPid
  <1>3. df \in Nat \cup {Invalida} /\ (df # Invalida => Hasta(df) = Hasta(l))
        /\ (p \notin inestable => df = Buena(p, l))
    BY <1>1, FisicaTipo, FisicaHasta, FisicaBuena
  <1>4. s \in Seq(Byte) /\ Len(s) = 1
    OBVIOUS
  <1>5. Hasta(l) \in Int /\ 1 <= Hasta(l)
    <2>1. Hasta(l) \in 1..TamPagina
      BY <1>1, PaginaTipo
    <2> QED
      BY <2>1, Medidas
  <1> HIDE DEF df, s, p
  <1>6. Logica!Desordena(p) \/ Logica!Guarda(p, l, s)
    <2>1. Len(s) > 0 /\ Len(s) <= Hasta(l) /\ (df # Invalida => Len(s) <= Hasta(df))
      BY <1>3, <1>4, <1>5
    <2> QED
      BY <1>1, <1>2, <1>3, <1>4, <2>1, EscribeEnLogica
  <1> QED
    BY <1>1, <1>2, <1>6 DEF Logica!Escribe, p, s

LEMMA CopiaEscribeLogica ==
    ASSUME Inv2, Inv2', CopiaEscribe
    PROVE  /\ Logica!Copia(enCpu, destino, Min({Hasta(destino), Len(leido)}))
           /\ enCpu \in Pids /\ destino \in 0..TopeDirs
           /\ Min({Hasta(destino), Len(leido)}) \in 1..(TamPagina + 1)
  <1> DEFINE df == Fisica(enCpu, destino)
             p == enCpu
             n == Min({Hasta(destino), Len(leido)})
             s == SubSeq(leido, 1, n)
  <1>1. TypeOK /\ TypeOK' /\ TlbCoherente /\ EnCopia /\ destino # Invalida
    BY DEF Inv2, Inv, CopiaEscribe
  <1>2. p \in Pids /\ destino \in Nat /\ leido \in Seq(Byte)
    BY <1>1, EnPids DEF TypeOK, EnCopia
  <1>3. Len(leido) \in 1..(TamPagina + 1) /\ destino + Len(leido) <= TopeDirs
    BY <1>1 DEF Inv2, Copiando
  <1>4. Hasta(destino) \in Nat /\ Hasta(destino) > 0 /\ Len(leido) \in Nat
    <2>1. Hasta(destino) \in 1..TamPagina
      BY <1>2, PaginaTipo
    <2> QED
      BY <1>2, <2>1, Medidas
  <1>5. n \in Nat /\ n > 0 /\ n <= Len(leido) /\ n <= Hasta(destino)
    BY <1>3, <1>4, MinDos
  <1>6. df \in Nat \cup {Invalida} /\ (df # Invalida => Hasta(df) = Hasta(destino))
        /\ (p \notin inestable => df = Buena(p, destino))
    BY <1>1, <1>2, FisicaTipo, FisicaHasta, FisicaBuena
  <1>7. /\ EscribeEspacio(p, df, s) /\ UNCHANGED <<paginas, inestable>>
        /\ leido' \in {SubSeq(leido, n + 1, Len(leido)), <<>>}
    BY DEF CopiaEscribe, vPid
  <1> HIDE DEF df, p, n
  <1>8. s \in Seq(Byte) /\ Len(s) = n
    <2>1. \A i \in 1..n : i \in 1..Len(leido)
      BY <1>4, <1>5
    <2> QED
      BY <1>2, <1>5, <2>1, SubSeqProperties
  <1>9. Logica!Desordena(p) \/ Logica!Guarda(p, destino, s)
    <2> HIDE DEF s
    <2>1. Len(s) > 0 /\ Len(s) <= Hasta(destino) /\ (df # Invalida => Len(s) <= Hasta(df))
      BY <1>5, <1>6, <1>8
    <2> QED
      BY <1>1, <1>2, <1>6, <1>7, <1>8, <2>1, EscribeEnLogica
  <1>10. Logica!Copia(p, destino, n)
    BY <1>5, <1>7, <1>9 DEF Logica!Copia
  <1>11. n \in 1..(TamPagina + 1) /\ destino \in 0..TopeDirs
    <2>1. TopeDirs \in Int
      <3>1. PICK d \in Dirs : TRUE
        BY <1>1 DEF Inv2, Copiando
      <3>2. Max(Dirs) \in Nat /\ TamPagina \in Nat
        BY MaxDirs, Medidas
      <3> QED
        BY <3>2 DEF TopeDirs
    <2> DEFINE a == Len(leido)
    <2>2. a \in Nat /\ a <= TamPagina + 1 /\ destino + a <= TopeDirs /\ n <= a /\ TamPagina \in Nat
      BY <1>3, <1>4, <1>5, Medidas
    <2> HIDE DEF a
    <2> QED
      BY <1>2, <1>5, <2>1, <2>2
  <1> QED
    BY <1>2, <1>10, <1>11 DEF p, n

LEMMA StdinLogica ==
    ASSUME Inv2, Inv2', NEW p \in Pids, Stdin(p)
    PROVE  /\ \E d \in Byte : Logica!Escribe(p, pend[p].l, Logica!Veces(pend[p].n, d))
           /\ pend[p].l \in Dirs /\ pend[p].n \in 1..(TamPagina + 1)
  <1> DEFINE e == pend[p]
             n == Min({Hasta(e.df), e.n})
  <1>1. TypeOK /\ TypeOK' /\ TEspacio
    BY Partes DEF Inv2, Inv
  <1>2. /\ e.l \in Dirs /\ e.n \in 1..(TamPagina + 1)
        /\ p \notin inestable => e.n <= Hasta(e.l) /\ e.df = Buena(p, e.l)
    BY DEF Inv2, PedidosBuenos, PedidoBueno, Stdin
  <1>3. e \in Pedidos /\ e.df \in Nat \cup {Invalida}
    BY <1>1 DEF TypeOK, Pedidos
  <1>4. PICK d \in Byte \ {CERO} : EscribeEspacio(p, e.df, [k \in 1..n |-> d])
    BY DEF Stdin
  <1>5. UNCHANGED <<paginas, inestable, leido>>
    BY DEF Stdin, vCpu
  <1>6. e.l \in Nat /\ e.n \in Nat /\ e.n > 0
    <2> HIDE DEF e
    <2>1. e.l \in Nat
      BY <1>2, PedidosAssumption
    <2>2. e.n \in Nat /\ e.n > 0
      BY <1>2, Medidas
    <2> QED
      BY <2>1, <2>2
  <1> DEFINE s == [k \in 1..n |-> d]
             t == [k \in 1..e.n |-> d]
  <1> HIDE DEF e
  <1>7. t \in Seq(Byte) /\ Len(t) = e.n /\ t = Logica!Veces(e.n, d)
    <2>1. t \in [1..e.n -> Byte]
      OBVIOUS
    <2> QED
      BY <1>6, <2>1 DEF Logica!Veces
  <1>8. Logica!Desordena(p) \/ Logica!Guarda(p, e.l, t)
    <2>1. CASE e.df = Invalida
      <3>1. EscribeEspacio(p, e.df, t)
        <4>1. ~Alcanzable(p, e.df)
          BY <2>1 DEF Alcanzable
        <4> QED
          BY <1>4, <4>1 DEF EscribeEspacio
      <3> HIDE DEF t
      <3> QED
        BY <1>1, <1>2, <1>3, <1>5, <1>6, <1>7, <2>1, <3>1, EscribeEnLogica
    <2>2. CASE e.df # Invalida
      <3>1. e.df \in Nat
        BY <1>3, <2>2
      <3>2. Hasta(e.df) \in 1..TamPagina
        BY <3>1, PaginaTipo
      <3>3. Hasta(e.df) \in Nat /\ Hasta(e.df) > 0
        BY <3>2, Medidas
      <3>4. n \in Nat /\ n > 0 /\ n <= e.n /\ n <= Hasta(e.df) /\ n = IF Hasta(e.df) <= e.n THEN Hasta(e.df) ELSE e.n
        BY <1>6, <3>3, MinDos
      <3>5. s \in Seq(Byte) /\ Len(s) = n
        <4> HIDE DEF n
        <4>1. s \in [1..n -> Byte]
          OBVIOUS
        <4> QED
          BY <3>4, <4>1
      <3>6. CASE p \in inestable
        <4> HIDE DEF s, n
        <4>1. EscribeEspacio(p, e.df, s)
          BY <1>4 DEF s
        <4> QED
          BY <1>1, <1>3, <1>5, <3>4, <3>5, <3>6, <4>1, DesordenaBien
      <3>7. CASE p \notin inestable
        <4>1. e.n <= Hasta(e.l) /\ e.df = Buena(p, e.l)
          BY <1>2, <3>7
        <4>2. Hasta(e.df) = Hasta(e.l)
          <5>1. TPaginas
            BY <1>1, Partes
          <5>2. Pagina(e.l) < Len(paginas[p]) /\ e.df = Lugar(p, e.l + 1)
            BY <2>2, <4>1 DEF Buena
          <5> QED
            BY <1>6, <5>1, <5>2, BuenaTipo
        <4>3. n = e.n
          BY <1>6, <3>3, <3>4, <4>1, <4>2
        <4>4. EscribeEspacio(p, e.df, t)
          BY <1>4, <4>3
        <4> HIDE DEF t, n
        <4> QED
          BY <1>1, <1>2, <1>3, <1>5, <1>6, <1>7, <4>1, <4>2, <4>4, EscribeEnLogica
      <3> QED
        BY <3>6, <3>7
    <2> QED
      BY <2>1, <2>2
  <1>9. Logica!Escribe(p, e.l, Logica!Veces(e.n, d))
    BY <1>5, <1>7, <1>8 DEF Logica!Escribe
  <1> QED
    BY <1>2, <1>9 DEF e

(***************************************************************************)
(* Growing, shrinking, and the rest.                                       *)
(***************************************************************************)

LEMMA Prefijo ==
    ASSUME NEW S, NEW v \in Seq(S), NEW w \in Seq(S), Len(v) <= Len(w),
           \A k \in 1..Len(v) : w[k] = v[k]
    PROVE  Logica!IsPrefix(v, w)
  <1> DEFINE n == Len(v)
             a == SubSeq(v, 1, n)
             b == SubSeq(w, 1, n)
  <1>1. n \in Nat /\ Len(w) \in Nat
    OBVIOUS
  <1>2. a \in Seq(S) /\ Len(a) = n /\ \A k \in 1..n : a[k] = v[k]
    <2>1. \A i \in 1..n : i \in 1..Len(v)
      OBVIOUS
    <2> QED
      BY <1>1, <2>1, SubSeqProperties
  <1>3. b \in Seq(S) /\ Len(b) = n /\ \A k \in 1..n : b[k] = w[k]
    <2>1. \A i \in 1..n : i \in 1..Len(w)
      BY <1>1
    <2> QED
      BY <1>1, <2>1, SubSeqProperties
  <1> HIDE DEF a, b
  <1>4. a = [k \in 1..n |-> a[k]] /\ b = [k \in 1..n |-> b[k]]
    BY <1>2, <1>3
  <1>5. \A k \in 1..n : a[k] = b[k]
    BY <1>2, <1>3
  <1>6. a = b
    BY <1>4, <1>5
  <1> QED
    BY <1>6 DEF Logica!IsPrefix, a, b

(* A table that is the beginning of another gives the first bytes of it.   *)
LEMMA TablaPrefijo ==
    ASSUME TypeOK, TypeOK', NEW p \in Pids, UNCHANGED espacio
    PROVE  /\ Len(paginas[p]) <= Len(paginas'[p])
              /\ (\A i \in 1..Len(paginas[p]) : paginas'[p][i] = paginas[p][i])
              => Logica!IsPrefix(Vista(p), Vista(p)')
           /\ Len(paginas'[p]) <= Len(paginas[p])
              /\ (\A i \in 1..Len(paginas'[p]) : paginas'[p][i] = paginas[p][i])
              => Logica!IsPrefix(Vista(p)', Vista(p))
  <1> DEFINE c == Len(paginas[p])
             d == Len(paginas'[p])
  <1>1. c \in Nat /\ d \in Nat /\ TamPagina \in Nat
    <2>1. paginas[p] \in Seq(Marcos) /\ paginas'[p] \in Seq(Marcos)
      BY DEF TypeOK
    <2> QED
      BY <2>1, Medidas
  <1>2. /\ Vista(p) \in Seq(Byte) /\ Len(Vista(p)) = c * TamPagina
        /\ \A k \in 1..(c * TamPagina) : Vista(p)[k] = espacio[Lugar(p, k)]
    BY VistaTipo DEF Bytes
  <1>3. /\ Vista(p)' \in Seq(Byte) /\ Len(Vista(p)') = d * TamPagina
        /\ \A k \in 1..(d * TamPagina) : Vista(p)'[k] = espacio[Lugar(p, k)']
    BY VistaTipoPrima DEF Bytes
  <1>4. \A k : k \in 1..(c * TamPagina) => Pagina(k - 1) + 1 \in 1..c
    BY Partes, LugarTipo DEF Bytes
  <1>5. \A k : k \in 1..(d * TamPagina) => Pagina(k - 1) + 1 \in 1..d
    <2>1. ASSUME NEW k \in 1..(d * TamPagina)
          PROVE  Pagina(k - 1) + 1 \in 1..d
      <3> HIDE DEF d
      <3>1. d * TamPagina \in Nat
        BY <1>1
      <3>2. k - 1 \in Nat /\ k - 1 < d * TamPagina
        BY <3>1
      <3>3. (k - 1) \div TamPagina < d /\ (k - 1) \div TamPagina \in Nat
        BY <1>1, <3>2, Medidas
      <3> QED
        BY <1>1, <3>3 DEF Pagina
    <2> QED
      BY <2>1
  <1>6. \A k : paginas'[p][Pagina(k - 1) + 1] = paginas[p][Pagina(k - 1) + 1] => Lugar(p, k)' = Lugar(p, k)
    BY DEF Lugar, Pagina
  <1>7. ASSUME c <= d, \A i \in 1..c : paginas'[p][i] = paginas[p][i]
        PROVE  Logica!IsPrefix(Vista(p), Vista(p)')
    <2>1. c * TamPagina <= d * TamPagina /\ c * TamPagina \in Nat /\ d * TamPagina \in Nat
      <3> HIDE DEF c, d
      <3> QED
        BY <1>1, <1>7
    <2>2. \A k \in 1..(c * TamPagina) : k \in 1..(d * TamPagina)
      BY <2>1
    <2> HIDE DEF c, d
    <2>3. \A k \in 1..(c * TamPagina) : Vista(p)'[k] = Vista(p)[k]
      BY <1>2, <1>3, <1>4, <1>6, <1>7, <2>2
    <2> QED
      BY <1>2, <1>3, <2>1, <2>3, Prefijo
  <1>8. ASSUME d <= c, \A i \in 1..d : paginas'[p][i] = paginas[p][i]
        PROVE  Logica!IsPrefix(Vista(p)', Vista(p))
    <2>1. d * TamPagina <= c * TamPagina /\ c * TamPagina \in Nat /\ d * TamPagina \in Nat
      <3> HIDE DEF c, d
      <3> QED
        BY <1>1, <1>8
    <2>2. \A k \in 1..(d * TamPagina) : k \in 1..(c * TamPagina)
      BY <2>1
    <2> HIDE DEF c, d
    <2>3. \A k \in 1..(d * TamPagina) : Vista(p)[k] = Vista(p)'[k]
      BY <1>2, <1>3, <1>5, <1>6, <1>8, <2>2
    <2> QED
      BY <1>2, <1>3, <2>1, <2>3, Prefijo
  <1> QED
    BY <1>7, <1>8

LEMMA ResizeDe ==
    ASSUME Inv2, Inv2', NEW n \in Tamanios, Resize(n), NEW p \in Pids, p = enCpu
    PROVE  Logica!Agranda(p) \/ Logica!Achica(p)
  <1> DEFINE c == Len(paginas[p])
             faltan == (n + TamPagina - 1) \div TamPagina - c
             s == [k \in 1..Min({faltan, Cardinality(Libres)}) |-> MarcoLibre(k)]
             a == SubSeq(paginas[p], 1, n \div TamPagina)
  <1>1. TypeOK /\ TypeOK' /\ n \in Nat
    BY PedidosAssumption DEF Inv2, Inv, Resize
  <1>2. paginas \in [Pids -> Seq(Marcos)] /\ paginas[p] \in Seq(Marcos) /\ c \in Nat
    BY <1>1 DEF TypeOK
  <1>3. leido' = <<>> /\ UNCHANGED espacio
    BY DEF Resize
  <1>4. ASSUME \A q \in Pids \ {p} : paginas'[q] = paginas[q]
        PROVE  \A q \in Pids \ {p} : Vista(q)' = Vista(q)
    BY <1>3, <1>4, VistaQuieta
  <1>5. CASE c * TamPagina > n
    <2>1. paginas' = [paginas EXCEPT ![p] = a] /\ inestable' = inestable \cup {p}
      BY <1>5 DEF Resize
    <2>2. Len(a) <= c /\ \A k \in 1..Len(a) : a[k] = paginas[p][k]
      BY <1>1, <1>5, Achicar
    <2> HIDE DEF a, c
    <2>3. paginas'[p] = a /\ \A q \in Pids \ {p} : paginas'[q] = paginas[q]
      BY <1>1, <1>2, <2>1
    <2>4. Logica!IsPrefix(Vista(p)', Vista(p))
      BY <1>1, <1>3, <2>2, <2>3, TablaPrefijo DEF c
    <2>5. \A q \in Pids \ {p} : Vista(q)' = Vista(q)
      BY <1>4, <2>3
    <2>6. Logica!Achica(p)
      BY <1>1, <1>3, <2>1, <2>4, <2>5 DEF Logica!Achica, Logica!SoloCambia
    <2> QED
      BY <2>6
  <1>6. CASE ~(c * TamPagina > n)
    <2>1. paginas' = [paginas EXCEPT ![p] = paginas[p] \o s] /\ inestable' = inestable
      BY <1>6 DEF Resize
    <2>2. faltan \in Nat
      <3>1. TamPagina \in Nat /\ TamPagina > 1 /\ n \in Nat /\ c \in Nat
        BY <1>1, <1>2, Medidas
      <3>2. c * TamPagina <= n
        <4>1. c * TamPagina \in Nat
          BY <3>1
        <4> QED
          BY <1>6, <3>1, <4>1
      <3> HIDE DEF c
      <3>3. (n + TamPagina - 1) \div TamPagina >= c /\ (n + TamPagina - 1) \div TamPagina \in Int
        BY <3>1, <3>2
      <3> QED
        BY <3>1, <3>3
    <2>3. s \in Seq(Libres)
      <3> HIDE DEF faltan
      <3> QED
        BY <2>2, Nuevas
    <2> HIDE DEF s
    <2>4. s \in Seq(Marcos)
      <3>1. Libres \subseteq Marcos
        BY LibresFinito
      <3> QED
        BY <2>3, <3>1
    <2> DEFINE m == paginas[p] \o s
    <2>5. /\ Len(m) = c + Len(s) /\ Len(s) \in Nat
          /\ \A i \in 1..Len(m) : m[i] = IF i <= c THEN paginas[p][i] ELSE s[i - c]
      BY <1>2, <2>4, ConcatProperties
    <2> HIDE DEF m
    <2>6. c <= Len(m) /\ \A i \in 1..c : m[i] = paginas[p][i]
      <3>1. c <= Len(m) /\ \A i \in 1..c : i \in 1..Len(m)
        BY <1>2, <2>5
      <3> QED
        BY <2>5, <3>1
    <2>7. paginas' = [paginas EXCEPT ![p] = m]
      BY <2>1 DEF m
    <2> HIDE DEF c
    <2>8. paginas'[p] = m /\ \A q \in Pids \ {p} : paginas'[q] = paginas[q]
      BY <1>1, <1>2, <2>7
    <2>9. Logica!IsPrefix(Vista(p), Vista(p)')
      BY <1>1, <1>3, <2>6, <2>8, TablaPrefijo DEF c
    <2>10. \A q \in Pids \ {p} : Vista(q)' = Vista(q)
      BY <1>4, <2>8
    <2>11. Logica!Agranda(p)
      BY <1>1, <1>3, <2>1, <2>9, <2>10 DEF Logica!Agranda, Logica!SoloCambia
    <2> QED
      BY <2>11
  <1> QED
    BY <1>5, <1>6

LEMMA ResizeLogica ==
    ASSUME Inv2, Inv2', NEW n \in Tamanios, Resize(n)
    PROVE  (Logica!Agranda(enCpu) \/ Logica!Achica(enCpu)) /\ enCpu \in Pids
  <1>1. enCpu \in Pids
    BY EnPids DEF Inv2, Inv, Resize
  <1>2. PICK p \in Pids : p = enCpu
    BY <1>1
  <1>3. Logica!Agranda(p) \/ Logica!Achica(p)
    BY <1>2, ResizeDe
  <1> QED
    BY <1>2, <1>3

LEMMA FinalizaLogica ==
    ASSUME Inv2, Inv2', NEW p \in Pids, Finaliza(p)
    PROVE  Logica!Achica(p)
  <1>1. TypeOK /\ TypeOK' /\ paginas \in [Pids -> Seq(Marcos)]
    BY DEF Inv2, Inv, TypeOK
  <1>2. /\ paginas' = [paginas EXCEPT ![p] = <<>>] /\ inestable' = inestable \cup {p}
        /\ UNCHANGED <<espacio, leido>>
    BY DEF Finaliza, vCpu
  <1>3. paginas'[p] = <<>> /\ \A q \in Pids \ {p} : paginas'[q] = paginas[q]
    BY <1>1, <1>2
  <1>4. Len(paginas[p]) \in Nat /\ Len(<<>>) = 0
    BY <1>1
  <1>5. Len(paginas'[p]) <= Len(paginas[p]) /\ \A i \in 1..Len(paginas'[p]) : paginas'[p][i] = paginas[p][i]
    BY <1>3, <1>4
  <1>6. Logica!IsPrefix(Vista(p)', Vista(p))
    BY <1>1, <1>2, <1>5, TablaPrefijo
  <1>7. \A q \in Pids \ {p} : Vista(q)' = Vista(q)
    BY <1>2, <1>3, VistaQuieta
  <1> QED
    BY <1>2, <1>6, <1>7 DEF Logica!Achica, Logica!SoloCambia

LEMMA PideLogica ==
    ASSUME Inv2, NEW op \in {"STDIN", "STDOUT"}, NEW l, NEW n, PideIO(op, l, n)
    PROVE  Logica!Pide(enCpu) /\ enCpu \in Pids
  <1>1. enCpu \in Pids
    BY EnPids DEF Inv2, Inv, PideIO
  <1>2. UNCHANGED <<paginas, espacio>> /\ leido' = <<>>
        /\ inestable' \in {inestable, inestable \cup {enCpu}}
    BY DEF PideIO, vMem
  <1>3. UNCHANGED [q \in Pids |-> Vista(q)]
    BY <1>2, MemoriaQuieta DEF Mem
  <1> QED
    BY <1>1, <1>2, <1>3 DEF Logica!Pide

LEMMA OlvidaLogica ==
    ASSUME UNCHANGED <<paginas, espacio, inestable>>, leido' \in {leido, <<>>}
    PROVE  Logica!Olvida
  <1>1. UNCHANGED [q \in Pids |-> Vista(q)]
    BY MemoriaQuieta DEF Mem
  <1> QED
    BY <1>1 DEF Logica!Olvida

LEMMA QuietosLogica ==
    ASSUME \/ Sale
           \/ \E p \in Pids : Inicia(p) \/ Entra(p) \/ Stdout(p)
    PROVE  Logica!Olvida
  <1>1. UNCHANGED <<paginas, espacio, inestable>> /\ leido' \in {leido, <<>>}
    BY DEF Sale, Inicia, Entra, Stdout, vMem, vCpu, vPid
  <1> QED
    BY <1>1, OlvidaLogica

(***************************************************************************)
(* The refinement.                                                         *)
(***************************************************************************)

LEMMA InitLogica == Init => Logica!Init
  <1> SUFFICES ASSUME Init
               PROVE  Logica!Init
    OBVIOUS
  <1>1. ASSUME NEW p \in Pids
        PROVE  Vista(p) = <<>>
    <2>1. TypeOK
      BY InvInit DEF Inv
    <2>2. Bytes(p) = 0
      <3>1. paginas[p] = <<>> /\ Len(<<>>) = 0
        BY DEF Init
      <3> QED
        BY <3>1, Medidas DEF Bytes
    <2>3. Vista(p) \in Seq(Byte) /\ Len(Vista(p)) = 0
      BY <2>1, <2>2, VistaTipo
    <2> QED
      BY <2>3, EmptySeq
  <1>2. [p \in Pids |-> Vista(p)] = [p \in Pids |-> <<>>]
    BY <1>1
  <1> QED
    BY <1>2 DEF Logica!Init, Init

(* Every step is the one of MemoriaLogica for its process and addresses.   *)
LEMMA PasoLogica ==
    ASSUME Inv2, Inv2'
    PROVE  Paso
  <1>1. \A l \in Dirs : MovIn(l) => Logica!Lee(enCpu, l, 1)
    BY MovInLogica
  <1>2. \A l \in Dirs, d \in Byte : MovOut(l, d) => Logica!Escribe(enCpu, l, <<d>>)
    BY MovOutLogica
  <1>3. \A si, di \in Dirs, n \in Largos : CopiaLee(si, di, n) => Logica!Lee(enCpu, si, n)
    BY CopiaLeeLogica
  <1>4. CopiaEscribe => Logica!Copia(enCpu, destino, Min({Hasta(destino), Len(leido)}))
    BY CopiaEscribeLogica
  <1>5. \A n \in Tamanios : Resize(n) => Logica!Agranda(enCpu) \/ Logica!Achica(enCpu)
    BY ResizeLogica
  <1>6. \A op \in {"STDIN", "STDOUT"}, l \in Dirs, n \in Largos : PideIO(op, l, n) => Logica!Pide(enCpu)
    BY PideLogica
  <1>7. \A p \in Pids :
          /\ Stdin(p) => \E d \in Byte : Logica!Escribe(p, pend[p].l, Logica!Veces(pend[p].n, d))
          /\ Finaliza(p) => Logica!Achica(p)
          /\ Inicia(p) \/ Entra(p) \/ Stdout(p) => Logica!Olvida
    BY StdinLogica, FinalizaLogica, QuietosLogica
  <1>8. Sale => Logica!Olvida
    BY QuietosLogica
  <1> QED
    BY <1>1, <1>2, <1>3, <1>4, <1>5, <1>6, <1>7, <1>8 DEF Paso

LEMMA DirEnLogica ==
    ASSUME NEW l \in Dirs
    PROVE  l \in 0..TopeDirs
  <1>1. l \in Nat /\ Max(Dirs) \in Nat /\ l <= Max(Dirs) /\ TamPagina \in Nat
    BY PedidosAssumption, MaxDirs, Medidas
  <1> QED
    BY <1>1 DEF TopeDirs

LEMMA NextLogica ==
    ASSUME Inv2, Inv2', [Next]_vars
    PROVE  [Logica!Next]_(Logica!vars)
  <1>0. ASSUME NEW p \in Pids, NEW l \in 0..TopeDirs, NEW n \in 1..(TamPagina + 1),
               \/ Logica!Copia(p, l, n) \/ Logica!Lee(p, l, n)
               \/ \E d \in Byte : Logica!Escribe(p, l, Logica!Veces(n, d))
        PROVE  Logica!Next
    BY <1>0 DEF Logica!Next, TopeDirs
  <1>1. CASE UNCHANGED vars
    <2>1. UNCHANGED <<paginas, espacio, inestable, leido>>
      BY <1>1 DEF vars, vMem, vCpu, vPid
    <2>2. UNCHANGED [q \in Pids |-> Vista(q)]
      BY <2>1, MemoriaQuieta DEF Mem
    <2> QED
      BY <2>1, <2>2 DEF Logica!vars
  <1>2. CASE Sale \/ \E p \in Pids : Inicia(p) \/ Entra(p) \/ Stdout(p)
    BY <1>2, QuietosLogica DEF Logica!Next
  <1>3. ASSUME NEW p \in Pids, Finaliza(p)
        PROVE  Logica!Next
    BY <1>3, FinalizaLogica DEF Logica!Next
  <1>4. ASSUME NEW p \in Pids, Stdin(p)
        PROVE  Logica!Next
    <2>1. /\ \E d \in Byte : Logica!Escribe(p, pend[p].l, Logica!Veces(pend[p].n, d))
          /\ pend[p].l \in Dirs /\ pend[p].n \in 1..(TamPagina + 1)
      BY <1>4, StdinLogica
    <2>2. pend[p].l \in 0..TopeDirs
      BY <2>1, DirEnLogica
    <2> QED
      BY <1>0, <2>1, <2>2
  <1>5. CASE CopiaEscribe
    BY <1>0, <1>5, CopiaEscribeLogica
  <1>6. ASSUME NEW n \in Tamanios, Resize(n)
        PROVE  Logica!Next
    BY <1>6, ResizeLogica DEF Logica!Next
  <1>7. ASSUME NEW l \in Dirs, MovIn(l)
        PROVE  Logica!Next
    <2>1. Logica!Lee(enCpu, l, 1) /\ enCpu \in Pids
      BY <1>7, MovInLogica
    <2>2. l \in 0..TopeDirs /\ 1 \in 1..(TamPagina + 1)
      BY DirEnLogica, Medidas
    <2> QED
      BY <1>0, <2>1, <2>2
  <1>8. ASSUME NEW l \in Dirs, NEW d \in Byte, MovOut(l, d)
        PROVE  Logica!Next
    <2>1. Logica!Escribe(enCpu, l, <<d>>) /\ enCpu \in Pids
      BY <1>8, MovOutLogica
    <2>2. l \in 0..TopeDirs /\ 1 \in 1..(TamPagina + 1)
      BY DirEnLogica, Medidas
    <2>3. Logica!Veces(1, d) = <<d>>
      BY DEF Logica!Veces
    <2>4. Logica!Escribe(enCpu, l, Logica!Veces(1, d))
      BY <2>1, <2>3
    <2> QED
      BY <1>0, <2>1, <2>2, <2>4
  <1>9. ASSUME NEW l \in Dirs, NEW n \in Largos, PideIO("STDIN", l, n) \/ PideIO("STDOUT", l, n)
        PROVE  Logica!Next
    BY <1>9, PideLogica DEF Logica!Next
  <1>10. ASSUME NEW l \in Dirs, NEW n \in Largos, NEW di \in Dirs, CopiaLee(l, di, n)
         PROVE  Logica!Next
    <2>1. Logica!Lee(enCpu, l, n) /\ enCpu \in Pids
      BY <1>10, CopiaLeeLogica
    <2>2. l \in 0..TopeDirs /\ n \in 1..(TamPagina + 1)
      BY DirEnLogica, PedidosAssumption
    <2> QED
      BY <1>0, <2>1, <2>2
  <1> QED
    BY <1>1, <1>2, <1>3, <1>4, <1>5, <1>6, <1>7, <1>8, <1>9, <1>10 DEF Next

(* The instructions, the MMU, the TLB, the page tables and the interfaces  *)
(* implement MemoriaLogica: each process has a memory of its own, whatever *)
(* the sizes, the algorithm of the TLB and what the others do.             *)
THEOREM CadaUnoTieneSuMemoria == Spec => CadaUnoSuMemoria
  <1>1. Inv2 /\ Inv2' /\ [Next]_vars => [Logica!Next]_(Logica!vars) /\ [Paso]_vars
    BY NextLogica, PasoLogica
  <1> QED
    BY <1>1, Inv2Siempre, InitLogica, PTL DEF Spec, CadaUnoSuMemoria, Logica!Spec
=============================================================================
