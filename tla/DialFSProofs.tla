---------------------------- MODULE DialFSProofs ----------------------------
(***************************************************************************)
(* Theorems about the file system of a DIALFS interface, for any set of    *)
(* names, number and size of blocks, and sizes that programs ask for: its  *)
(* types; that a compaction of a sound disk loses nothing and leaves it    *)
(* sound; which operations can leave a sound disk unsound; and what        *)
(* growing in place takes from another file.                               *)
(*                                                                         *)
(* The invariant is DialInv: the types, and that a file that exists has an *)
(* entry in the list.  A compaction is followed turn by turn (Parte).      *)
(***************************************************************************)
EXTENDS DialFS, FiniteSetTheorems, SequenceTheorems, WellFoundedInduction, TLAPS

-----------------------------------------------------------------------------
(* Least and greatest elements.                                            *)

LEMMA MinNat ==
    ASSUME NEW T, T \subseteq Nat, T # {}
    PROVE  \E m \in T : \A k \in T : m <= k
  <1>1. \E m \in T : \A k \in T : <<k, m>> \notin OpToRel(<, Nat)
    BY WFMin, NatLessThanWellFounded
  <1>2. PICK m \in T : \A k \in T : <<k, m>> \notin OpToRel(<, Nat)
    BY <1>1
  <1>3. \A k \in T : <<k, m>> \in Nat \X Nat
    OBVIOUS
  <1>4. \A k \in T : ~(k < m)
    BY <1>2, <1>3 DEF OpToRel
  <1> QED
    BY <1>4

LEMMA MinDe ==
    ASSUME NEW T, T \subseteq Nat, T # {}
    PROVE  Min(T) \in T /\ \A k \in T : Min(T) <= k
  <1>1. PICK m \in T : \A k \in T : m <= k
    BY MinNat
  <1> QED BY <1>1 DEF Min

LEMMA MaxAcotado ==
    ASSUME NEW n \in Nat, NEW s \in SUBSET Nat, s # {}, \A k \in s : k <= n
    PROVE  Max(s) \in s /\ \A k \in s : k <= Max(s)
  <1> DEFINE Cotas == {j \in Nat : \A k \in s : k <= j}
  <1>1. n \in Cotas
    OBVIOUS
  <1>2. PICK m \in Cotas : \A j \in Cotas : m <= j
    BY <1>1, MinNat
  <1>3. m \in s
    <2>1. SUFFICES ASSUME m \notin s PROVE FALSE
      OBVIOUS
    <2>2. \A k \in s : k <= m - 1
      BY <1>2, <2>1
    <2>3. m - 1 \in Nat
      <3>1. PICK k \in s : TRUE
        OBVIOUS
      <3>2. k >= 0 /\ k <= m - 1 /\ k \in Nat /\ m \in Nat
        BY <1>2, <2>2
      <3> QED BY <3>2
    <2>4. m - 1 \in Cotas
      BY <2>2, <2>3
    <2> QED BY <1>2, <2>4
  <1>4. \A k \in s : m >= k
    BY <1>2
  <1> QED BY <1>3, <1>4 DEF Max

LEMMA MaxDe ==
    ASSUME NEW n \in Nat, NEW s \in SUBSET (1..n), s # {}
    PROVE  Max(s) \in s /\ \A k \in s : k <= Max(s)
  <1>1. s \in SUBSET Nat /\ \A k \in s : k <= n
    OBVIOUS
  <1> QED BY <1>1, MaxAcotado

LEMMA MaxFinito ==
    ASSUME NEW S \in SUBSET Nat, IsFiniteSet(S), S # {}
    PROVE  Max(S) \in S /\ \A k \in S : k <= Max(S)
  <1> DEFINE n == Cardinality(S)
  <1>1. n \in Nat /\ ExistsBijection(1..n, S)
    BY FS_CardinalityType
  <1> HIDE DEF n
  <1>2. PICK f : f \in [1..n -> S] /\ \A x \in S : \E i \in 1..n : f[i] = x
    BY <1>1 DEF ExistsBijection, Bijection, Surjection
  <1>3. \A i \in 1..n : f[i] \in Nat
    BY <1>2
  <1> DEFINE Acotado(k) == \E c \in Nat : \A i \in 1..k : f[i] <= c
             Malos == {k \in 0..n : ~Acotado(k)}
  <1>4. Acotado(0)
    <2>1. \A i \in 1..0 : f[i] <= 0
      OBVIOUS
    <2> QED BY <2>1
  <1>5. ASSUME NEW m \in 1..n, Acotado(m - 1) PROVE Acotado(m)
    <2>1. PICK c \in Nat : \A i \in 1..(m - 1) : f[i] <= c
      BY <1>5
    <2>2. f[m] \in Nat
      BY <1>3
    <2>3. ASSUME NEW i \in 1..m PROVE f[i] <= c + f[m]
      <3>1. i \in 1..n /\ (i = m \/ i \in 1..(m - 1))
        BY <1>1
      <3>2. f[i] \in Nat /\ (f[i] = f[m] \/ f[i] <= c)
        BY <1>3, <2>1, <3>1
      <3> QED BY <2>2, <3>2
    <2>4. c + f[m] \in Nat
      BY <2>2
    <2> QED BY <2>3, <2>4
  <1> HIDE DEF Acotado
  <1>6. Malos = {}
    <2> SUFFICES ASSUME Malos # {} PROVE FALSE
      OBVIOUS
    <2>0. Malos \subseteq Nat
      BY <1>1
    <2>1. PICK m \in Malos : \A k \in Malos : m <= k
      <3> HIDE DEF Malos
      <3> QED BY <2>0, MinNat
    <2>2. m \in 1..n /\ m - 1 \in 0..n /\ ~(m <= m - 1)
      BY <1>1, <1>4
    <2>3. Acotado(m - 1)
      BY <2>1, <2>2
    <2> QED BY <1>5, <2>2, <2>3
  <1>7. Acotado(n)
    BY <1>1, <1>6
  <1>8. PICK c \in Nat : \A i \in 1..n : f[i] <= c
    BY <1>7 DEF Acotado
  <1>9. \A k \in S : k <= c
    BY <1>2, <1>8
  <1> QED BY <1>9, MaxAcotado

LEMMA MaxTramo ==
    ASSUME NEW k \in Nat \ {0}
    PROVE  Max(1..k) = k /\ (1..k) \ {k} = 1..(k - 1) /\ 1..k # {}
  <1>1. 1..k \in SUBSET (1..k) /\ 1..k # {} /\ k \in 1..k
    OBVIOUS
  <1>2. Max(1..k) \in 1..k /\ \A j \in 1..k : j <= Max(1..k)
    BY <1>1, MaxDe
  <1> QED BY <1>1, <1>2

-----------------------------------------------------------------------------
(* A fold over a finite set takes its elements one at a time, in an order  *)
(* that depends only on the set that is left: so the recursive function it *)
(* is defined by exists, and its values are of the type the turns keep.    *)

Elige(E, S) == \A s \in SUBSET S : s # {} => E[s] \in s
Cerrada(F, S, V) == \A x \in S : \A v \in V : F[x][v] \in V
EsPliegue(g, S, V, b, E, F) ==
    /\ g = [s \in SUBSET S |-> IF s = {} THEN b ELSE F[E[s]][g[s \ {E[s]}]]]
    /\ \A s \in SUBSET S : g[s] \in V

LEMMA HayPliegue ==
    ASSUME NEW S, IsFiniteSet(S), NEW V, NEW b \in V, NEW E, Elige(E, S), NEW F, Cerrada(F, S, V)
    PROVE  \E g : EsPliegue(g, S, V, b, E, F)
  <1> USE DEF Elige, Cerrada
  <1> DEFINE Vale(g, s) == g[s] = IF s = {} THEN b ELSE F[E[s]][g[s \ {E[s]}]]
             Bien(g, n) == \A s \in SUBSET S : Cardinality(s) <= n => Vale(g, s) /\ g[s] \in V
             Malos == {n \in Nat : ~\E g \in [SUBSET S -> V] : Bien(g, n)}
  <1>1. \A s \in SUBSET S : IsFiniteSet(s) /\ Cardinality(s) \in Nat /\ Cardinality(s) <= Cardinality(S)
    BY FS_Subset, FS_CardinalityType
  <1>2. \A s \in SUBSET S : s # {} =>
           s \ {E[s]} \in SUBSET S /\ Cardinality(s \ {E[s]}) = Cardinality(s) - 1 
    BY <1>1, FS_RemoveElement
  <1>3. 0 \notin Malos
    <2> DEFINE g == [s \in SUBSET S |-> b]
    <2>1. \A s \in SUBSET S : Cardinality(s) <= 0 => s = {}
      BY <1>1, FS_EmptySet
    <2>2. g \in [SUBSET S -> V] /\ \A s \in SUBSET S : g[s] = b
      OBVIOUS
    <2> HIDE DEF g
    <2>3. Bien(g, 0)
      BY <2>1, <2>2
    <2> QED BY <2>2, <2>3
  <1>4. ASSUME NEW n \in Nat, NEW g \in [SUBSET S -> V], Bien(g, n)
        PROVE  \E h \in [SUBSET S -> V] : Bien(h, n + 1)
    <2> DEFINE h == [s \in SUBSET S |-> IF s = {} THEN b ELSE F[E[s]][g[s \ {E[s]}]]]
    <2>1. h \in [SUBSET S -> V]
      BY <1>2
    <2>2. \A s \in SUBSET S : h[s] = IF s = {} THEN b ELSE F[E[s]][g[s \ {E[s]}]]
      OBVIOUS
    <2> HIDE DEF h
    <2>3. \A s \in SUBSET S : Cardinality(s) <= n => h[s] = g[s]
      BY <1>4, <2>2
    <2>4. ASSUME NEW s \in SUBSET S, Cardinality(s) <= n + 1 PROVE Vale(h, s) /\ h[s] \in V
      <3>1. s # {} => h[s \ {E[s]}] = g[s \ {E[s]}]
        BY <1>1, <1>2, <2>3, <2>4
      <3> QED BY <2>1, <2>2, <3>1
    <2> QED BY <2>1, <2>4
  <1>5. \A n \in Nat : n + 1 \in Malos => n \in Malos
    BY <1>4
  <1>6. Malos = {}
    <2>1. SUFFICES ASSUME Malos # {} PROVE FALSE
      OBVIOUS
    <2>2. Malos \subseteq Nat
      OBVIOUS
    <2> HIDE DEF Malos
    <2>3. PICK m \in Malos : \A k \in Malos : m <= k
      BY <2>1, <2>2, MinNat
    <2>4. m # 0 /\ m \in Nat
      BY <1>3, <2>2
    <2>5. m - 1 \in Nat /\ m = (m - 1) + 1
      BY <2>4
    <2>6. m - 1 \in Malos
      BY <1>5, <2>5
    <2> QED BY <2>3, <2>4, <2>6
  <1>7. Cardinality(S) \in Nat
    BY FS_CardinalityType
  <1>8. PICK g \in [SUBSET S -> V] : Bien(g, Cardinality(S))
    BY <1>6, <1>7
  <1>9. \A s \in SUBSET S : Vale(g, s) /\ g[s] \in V
    BY <1>1, <1>8
  <1>10. g = [s \in SUBSET S |-> IF s = {} THEN b ELSE F[E[s]][g[s \ {E[s]}]]]
    BY <1>9
  <1> QED BY <1>9, <1>10 DEF EsPliegue

-----------------------------------------------------------------------------
(* Operators of the model.                                                 *)

Contenidos == Archivos \cup {Vacio}
Entradas   == [nombre : Archivos, inicial : Disco \cup {-1}, tamanio : Tamanios \cup {0}]
Mapas      == [Bits -> BOOLEAN]
Metas      == [Archivos -> Registro \cup {NoHay}]

(* A record that is there has a first block and a size; one that is not    *)
(* there is none of those.                                                 *)
LEMMA NoHayNoEsRegistro == NoHay \notin Registro
  BY TamaniosAssumption DEF NoHay, Registro

LEMMA EnElDisco ==
    ASSUME NEW b, NEW n
    PROVE  /\ PrimerLugar(b, n) \in Disco \cup {-1}
           /\ PrimerLugar(b, n) # -1 =>
                 /\ PrimerLugar(b, n) \in LugaresLibres(b, n)
                 /\ \A k \in LugaresLibres(b, n) : PrimerLugar(b, n) <= k
           /\ LugaresLibres(b, n) # {} => PrimerLugar(b, n) # -1
  <1> DEFINE L == LugaresLibres(b, n)
  <1>1. L \subseteq Disco /\ Disco \subseteq Nat /\ -1 \notin Disco
    BY NBloquesAssumption DEF LugaresLibres, Disco
  <1> HIDE DEF L
  <1>2. L # {} => Min(L) \in L /\ \A k \in L : Min(L) <= k
    BY <1>1, MinDe
  <1>3. PrimerLugar(b, n) = IF L = {} THEN -1 ELSE Min(L)
    BY DEF PrimerLugar, L
  <1> QED BY <1>1, <1>2, <1>3 DEF L

(* The entry of a name.                                                    *)
Nombra(lista, a) == \E i \in DOMAIN lista : lista[i].nombre = a

LEMMA LaPosicion ==
    ASSUME NEW lista \in Seq(Entradas), NEW a
    PROVE  /\ Posicion(lista, a) \in Nat
           /\ Posicion(lista, a) # 0 =>
                 Posicion(lista, a) \in DOMAIN lista /\ lista[Posicion(lista, a)].nombre = a
           /\ Nombra(lista, a) => Posicion(lista, a) # 0
  <1> DEFINE I == {i \in 1..Len(lista) : lista[i].nombre = a}
  <1>1. I \subseteq Nat /\ DOMAIN lista = 1..Len(lista) /\ 0 \notin I
    OBVIOUS
  <1>2. Posicion(lista, a) = IF I # {} THEN Min(I) ELSE 0
    BY DEF Posicion, SelectInSeq
  <1>3. I # {} => Min(I) \in I
    BY <1>1, MinDe
  <1>4. Nombra(lista, a) => I # {}
    BY <1>1 DEF Nombra
  <1> QED BY <1>1, <1>2, <1>3, <1>4

(* A reordering of a list has the same entries.                            *)
LEMMA TodosAparecen ==
    ASSUME NEW n \in Nat, NEW g \in [1..n -> 1..n], IsInjective(g)
    PROVE  \A i \in 1..n : \E j \in 1..n : g[j] = i
  <1>1. IsFiniteSet(1..n)
    BY FS_Interval
  <1>2. g \in Injection(1..n, 1..n)
    BY DEF Injection
  <1>3. g \in Surjection(1..n, 1..n)
    BY <1>1, <1>2, FS_Injection
  <1> QED BY <1>3 DEF Surjection

(* How many blocks a size takes.                                           *)
LEMMA Cociente ==
    ASSUME NEW a \in Nat, NEW b \in Nat \ {0}
    PROVE  a \div b \in Nat /\ (a >= b => a \div b >= 1)
  OBVIOUS

LEMMA TiposDeTecho ==
    ASSUME NEW t \in Nat
    PROVE  /\ Techo(t) \in Nat /\ BloquesNecesarios(t) \in Nat \ {0}
           /\ t > 0 => Techo(t) >= 1 /\ BloquesNecesarios(t) = Techo(t)
           /\ Techo(0) = 0
  <1> DEFINE u == t + TamBloque - 1
  <1>1. u \in Nat /\ (t > 0 => u >= TamBloque)
    BY TamBloqueAssumption
  <1>2. u \div TamBloque \in Nat /\ (u >= TamBloque => u \div TamBloque >= 1)
    BY <1>1, TamBloqueAssumption, Cociente
  <1>3. Techo(t) = u \div TamBloque
    BY DEF Techo
  <1> HIDE DEF u
  <1>4. (0 + TamBloque - 1) \div TamBloque = 0
    BY TamBloqueAssumption
  <1> QED BY <1>1, <1>2, <1>3, <1>4 DEF BloquesNecesarios, Techo

-----------------------------------------------------------------------------
(* What the disk operations keep of the types.                             *)

LEMMA LoLeido ==
    ASSUME NEW bl \in [Disco -> Contenidos], NEW inicio \in Int, NEW n \in Nat
    PROVE  LeerBloques(bl, inicio, n) \in Seq(Contenidos) /\ Len(LeerBloques(bl, inicio, n)) = n
  <1> DEFINE l == LeerBloques(bl, inicio, n)
  <1>1. l \in [1..n -> Contenidos]
    BY DEF LeerBloques, Contenidos
  <1> HIDE DEF l
  <1>2. l \in Seq(Contenidos) /\ Len(l) = n
    BY <1>1
  <1> QED BY <1>2 DEF l

LEMMA LoEscrito ==
    ASSUME NEW bl \in [Disco -> Contenidos], NEW inicio \in Int, NEW c \in Seq(Contenidos)
    PROVE  EscribirBloques(bl, inicio, c) \in [Disco -> Contenidos]
  <1> SUFFICES ASSUME NEW i \in Disco
               PROVE  (IF i \in Desde(inicio, Len(c)) THEN c[i - inicio + 1] ELSE bl[i]) \in Contenidos
    BY DEF EscribirBloques
  <1>1. i \in Int /\ Len(c) \in Nat
    BY NBloquesAssumption DEF Disco
  <1>2. i \in Desde(inicio, Len(c)) => i - inicio + 1 \in 1..Len(c)
    BY <1>1 DEF Desde
  <1> QED BY <1>2

Discos(n) == [bit : Mapas, bloques : [Disco -> Contenidos], meta : Metas, lista : [1..n -> Entradas]]

Relleno(c, m) == [k \in 1..m |-> IF k <= Len(c) THEN c[k] ELSE Vacio]

LEMMA TiposDelRelleno ==
    ASSUME NEW c \in Seq(Contenidos), NEW m \in Nat
    PROVE  Relleno(c, m) \in Seq(Contenidos) /\ Len(Relleno(c, m)) = m
  <1> DEFINE r == Relleno(c, m)
  <1>1. \A k \in 1..m : k <= Len(c) => c[k] \in Contenidos
    OBVIOUS
  <1>2. r \in [1..m -> Contenidos]
    BY <1>1 DEF Relleno, Contenidos
  <1> HIDE DEF r
  <1>3. r \in Seq(Contenidos) /\ Len(r) = m
    BY <1>2
  <1> QED BY <1>3 DEF r

LEMMA MapasDeBits ==
    ASSUME NEW b \in Mapas, NEW conj
    PROVE  Marcados(b, conj) \in Mapas /\ Liberados(b, conj) \in Mapas
  BY DEF Mapas, Marcados, Liberados

LEMMA FormaDeLaCopia ==
    ASSUME NEW n, NEW d \in Discos(n), NEW c, NEW m, NEW lugar, lugar = PrimerLugar(d.bit, m)
    PROVE  CopiarContenido(d, c, m) =
             [bit     |-> IF lugar = -1 THEN d.bit ELSE Marcados(d.bit, Desde(lugar, m)),
              bloques |-> IF lugar = -1 THEN d.bloques ELSE EscribirBloques(d.bloques, lugar, Relleno(c, m)),
              meta    |-> d.meta,
              lista   |-> d.lista]
  BY DEF CopiarContenido, Discos, Relleno

LEMMA TiposDeLaCopia ==
    ASSUME NEW n, NEW d \in Discos(n), NEW c \in Seq(Contenidos), NEW m \in Nat
    PROVE  /\ CopiarContenido(d, c, m) \in Discos(n)
           /\ CopiarContenido(d, c, m).meta = d.meta /\ CopiarContenido(d, c, m).lista = d.lista
  <1> DEFINE lugar == PrimerLugar(d.bit, m)
             b == IF lugar = -1 THEN d.bit ELSE Marcados(d.bit, Desde(lugar, m))
             w == IF lugar = -1 THEN d.bloques ELSE EscribirBloques(d.bloques, lugar, Relleno(c, m))
  <1>1. lugar \in Int
    BY EnElDisco, NBloquesAssumption DEF Disco
  <1>2. d.bit \in Mapas /\ d.bloques \in [Disco -> Contenidos] /\ d.meta \in Metas /\ d.lista \in [1..n -> Entradas]
    BY DEF Discos
  <1>3. b \in Mapas
    BY <1>2, MapasDeBits
  <1>4. w \in [Disco -> Contenidos]
    BY <1>1, <1>2, TiposDelRelleno, LoEscrito
  <1>5. CopiarContenido(d, c, m) = [bit |-> b, bloques |-> w, meta |-> d.meta, lista |-> d.lista]
    BY FormaDeLaCopia
  <1> HIDE DEF b, w, lugar
  <1> QED BY <1>2, <1>3, <1>4, <1>5 DEF Discos

(* One turn of compactar, field by field.                                  *)
SinEl(d, e) == Liberados(d.bit, Desde(e.inicial, BloquesNecesarios(e.tamanio)))
LugarDe(d, e) == PrimerLugar(SinEl(d, e), BloquesNecesarios(e.tamanio))

LEMMA TiposDeEntrada ==
    ASSUME NEW e \in Entradas
    PROVE  /\ e.nombre \in Archivos /\ e.inicial \in Int /\ e.inicial \in Disco \cup {-1}
           /\ e.tamanio \in Nat /\ e.tamanio \in Tamanios \cup {0}
           /\ BloquesNecesarios(e.tamanio) \in Nat \ {0}
  <1>1. e.nombre \in Archivos /\ e.inicial \in Disco \cup {-1} /\ e.tamanio \in Tamanios \cup {0}
    BY DEF Entradas
  <1>2. Disco \cup {-1} \subseteq Int
    BY NBloquesAssumption DEF Disco
  <1>3. Tamanios \cup {0} \subseteq Nat
    BY TamaniosAssumption
  <1>4. e.tamanio \in Nat /\ e.inicial \in Int
    BY <1>1, <1>2, <1>3
  <1> QED BY <1>1, <1>4, TiposDeTecho

LEMMA FormaDeMudar ==
    ASSUME NEW n, NEW d \in Discos(n), NEW i \in 1..n, NEW e, e = d.lista[i],
           NEW m, m = BloquesNecesarios(e.tamanio), NEW libre, libre = SinEl(d, e),
           NEW lugar, lugar = LugarDe(d, e)
    PROVE  Mudar(d, i) =
             [bit     |-> IF lugar = -1 THEN libre ELSE Marcados(libre, Desde(lugar, m)),
              bloques |-> IF lugar = -1 THEN d.bloques
                          ELSE EscribirBloques(d.bloques, lugar, Relleno(LeerBloques(d.bloques, e.inicial, m), m)),
              meta    |-> [d.meta EXCEPT ![e.nombre].inicial = lugar],
              lista   |-> [d.lista EXCEPT ![i].inicial = lugar]]
  <1> DEFINE dl == [bit |-> libre, bloques |-> d.bloques, meta |-> d.meta, lista |-> d.lista]
             c == LeerBloques(d.bloques, e.inicial, m)
             b == IF lugar = -1 THEN libre ELSE Marcados(libre, Desde(lugar, m))
             w == IF lugar = -1 THEN d.bloques ELSE EscribirBloques(d.bloques, lugar, Relleno(c, m))
  <1>1. d.bit \in Mapas /\ d.bloques \in [Disco -> Contenidos] /\ d.meta \in Metas /\ d.lista \in [1..n -> Entradas]
    BY DEF Discos
  <1>2. libre \in Mapas
    BY <1>1, MapasDeBits DEF SinEl
  <1>3. [d EXCEPT !.bit = Liberados(@, Desde(e.inicial, m))] = dl
    BY DEF Discos, SinEl
  <1>4. dl \in Discos(n)
    BY <1>1, <1>2 DEF Discos
  <1>5. dl.bit = libre /\ dl.bloques = d.bloques /\ dl.meta = d.meta /\ dl.lista = d.lista
    OBVIOUS
  <1>6. lugar = PrimerLugar(dl.bit, m)
    BY <1>5 DEF LugarDe
  <1>7. CopiarContenido(dl, c, m) = [bit |-> b, bloques |-> w, meta |-> d.meta, lista |-> d.lista]
    <2> HIDE DEF dl, c
    <2> QED BY <1>4, <1>5, <1>6, FormaDeLaCopia
  <1>8. Mudar(d, i) = [CopiarContenido(dl, c, m) EXCEPT !.lista[i].inicial = lugar, !.meta[e.nombre].inicial = lugar]
    BY <1>3, <1>5, <1>6 DEF Mudar
  <1>9. Mudar(d, i) = [[bit |-> b, bloques |-> w, meta |-> d.meta, lista |-> d.lista] EXCEPT
                          !.lista[i].inicial = lugar, !.meta[e.nombre].inicial = lugar]
    BY <1>7, <1>8
  <1> HIDE DEF b, w
  <1>10. Mudar(d, i) = [bit |-> b, bloques |-> w, meta |-> [d.meta EXCEPT ![e.nombre].inicial = lugar],
                        lista |-> [d.lista EXCEPT ![i].inicial = lugar]]
    BY <1>9
  <1> QED BY <1>10 DEF b, w

(* What holds of the disk at every turn, of a compaction that began with d *)
(* and set aside the files that start at ini: the same files, and those    *)
(* still to move are there.                                                *)
EnMedio(n, d, ini) ==
    {v \in Discos(n) :
        /\ \A a \in Archivos : v.meta[a] # NoHay <=> d.meta[a] # NoHay
        /\ \A j \in 1..n : v.lista[j].nombre = d.lista[j].nombre
        /\ \A j \in 1..n : v.lista[j].inicial # ini => v.meta[v.lista[j].nombre] # NoHay}

LEMMA TiposDeMudar ==
    ASSUME NEW n \in Nat, NEW d, NEW ini, NEW v \in EnMedio(n, d, ini), NEW i \in 1..n, v.lista[i].inicial # ini
    PROVE  Mudar(v, i) \in EnMedio(n, d, ini)
  <1> DEFINE e == v.lista[i]
             m == BloquesNecesarios(e.tamanio)
             libre == SinEl(v, e)
             lugar == LugarDe(v, e)
             b == IF lugar = -1 THEN libre ELSE Marcados(libre, Desde(lugar, m))
             r == Relleno(LeerBloques(v.bloques, e.inicial, m), m)
             w == IF lugar = -1 THEN v.bloques ELSE EscribirBloques(v.bloques, lugar, r)
             me == [v.meta EXCEPT ![e.nombre].inicial = lugar]
             li == [v.lista EXCEPT ![i].inicial = lugar]
  <1>1. /\ v.bit \in Mapas /\ v.bloques \in [Disco -> Contenidos] /\ v.meta \in Metas
        /\ v.lista \in [1..n -> Entradas] /\ v \in Discos(n)
    BY DEF EnMedio, Discos
  <1>2. e \in Entradas
    BY <1>1
  <1>3. m \in Nat /\ e.inicial \in Int /\ e.nombre \in Archivos
    BY <1>2, TiposDeEntrada
  <1>4. lugar \in Disco \cup {-1}
    BY EnElDisco DEF LugarDe
  <1>5. lugar \in Int
    BY <1>4, NBloquesAssumption DEF Disco
  <1>6. libre \in Mapas /\ b \in Mapas
    BY <1>1, MapasDeBits DEF SinEl
  <1>7. w \in [Disco -> Contenidos]
    BY <1>1, <1>3, <1>5, LoLeido, TiposDelRelleno, LoEscrito
  <1>8. v.meta[e.nombre] # NoHay
    BY DEF EnMedio
  <1>9. v.meta[e.nombre] \in Registro
    BY <1>1, <1>3, <1>8 DEF Metas
  <1>10. /\ me \in Metas /\ me[e.nombre] # NoHay
         /\ \A a \in Archivos : a # e.nombre => me[a] = v.meta[a]
    <2> DEFINE x == [v.meta[e.nombre] EXCEPT !.inicial = lugar]
    <2>1. x \in Registro
      BY <1>4, <1>9 DEF Registro
    <2>2. me = [v.meta EXCEPT ![e.nombre] = x]
      OBVIOUS
    <2> HIDE DEF x, me, e, lugar
    <2> QED BY <1>1, <1>3, <2>1, <2>2, NoHayNoEsRegistro DEF Metas
  <1>11. /\ li \in [1..n -> Entradas] /\ li[i].nombre = e.nombre
         /\ \A j \in 1..n : j # i => li[j] = v.lista[j]
    <2> DEFINE x == [v.lista[i] EXCEPT !.inicial = lugar]
    <2>1. x \in Entradas /\ x.nombre = v.lista[i].nombre
      BY <1>2, <1>4 DEF Entradas
    <2>2. li = [v.lista EXCEPT ![i] = x]
      OBVIOUS
    <2> HIDE DEF x, li, lugar
    <2> QED BY <1>1, <2>1, <2>2
  <1>12. Mudar(v, i) = [bit |-> b, bloques |-> w, meta |-> me, lista |-> li]
    BY <1>1, FormaDeMudar
  <1> HIDE DEF b, w, me, li, lugar, m, libre, r
  <1>13. Mudar(v, i) \in Discos(n)
    BY <1>1, <1>6, <1>7, <1>10, <1>11, <1>12 DEF Discos
  <1>14. Mudar(v, i).meta = me /\ Mudar(v, i).lista = li
    BY <1>12
  <1>15. \A a \in Archivos : me[a] # NoHay <=> v.meta[a] # NoHay
    BY <1>8, <1>10
  <1>16. \A j \in 1..n : li[j].nombre = v.lista[j].nombre
    BY <1>11
  <1>17. \A j \in 1..n : li[j].inicial # ini => me[li[j].nombre] # NoHay
    <2> TAKE j \in 1..n
    <2>1. v.lista[j].inicial # ini => v.meta[v.lista[j].nombre] # NoHay
      BY DEF EnMedio
    <2>2. v.lista[j].nombre \in Archivos
      <3>1. v.lista[j] \in Entradas
        BY <1>1
      <3> QED BY <3>1, TiposDeEntrada
    <2> QED BY <1>10, <1>11, <2>1, <2>2
  <1>18. \A a \in Archivos : v.meta[a] # NoHay <=> d.meta[a] # NoHay
    BY DEF EnMedio
  <1>19. \A j \in 1..n : v.lista[j].nombre = d.lista[j].nombre
    BY DEF EnMedio
  <1> HIDE DEF e
  <1> QED BY <1>13, <1>14, <1>15, <1>16, <1>17, <1>18, <1>19 DEF EnMedio

(* The loop of compactar, turn by turn.                                    *)
Turno(v, i, ini) == IF v.lista[i].inicial = ini THEN v ELSE Mudar(v, i)

Mudados(d, ini, l) == FoldLeftDomain(LAMBDA x, i : IF x.lista[i].inicial = ini THEN x ELSE Mudar(x, i), d, l)

Turnos(h, n, d, ini) ==
    /\ h[0] = d
    /\ \A k \in 1..n : h[k] = Turno(h[k - 1], k, ini)
    /\ \A k \in 0..n : h[k] \in EnMedio(n, d, ini)

LEMMA PorTurnos ==
    ASSUME NEW n \in Nat, NEW d, NEW ini, d \in EnMedio(n, d, ini), NEW l, DOMAIN l = 1..n
    PROVE  \E h : Turnos(h, n, d, ini) /\ Mudados(d, ini, l) = h[n]
  <1> DEFINE V == EnMedio(n, d, ini)
             E == [s \in SUBSET (1..n) |-> Max(s)]
             F == [x \in 1..n |-> [v \in V |-> Turno(v, x, ini)]]
             Ec(g) == g = [s \in SUBSET (1..n) |-> IF s = {} THEN d ELSE Turno(g[s \ {Max(s)}], Max(s), ini)]
  <1>1. IsFiniteSet(1..n)
    BY FS_Interval
  <1>2. \A v \in V, x \in 1..n : Turno(v, x, ini) \in V
    BY TiposDeMudar DEF Turno
  <1>3. \A s \in SUBSET (1..n) : s # {} => Max(s) \in s
    BY MaxDe
  <1>4. \E g : EsPliegue(g, 1..n, V, d, E, F)
    <2>1. Elige(E, 1..n)
      BY <1>3 DEF Elige
    <2>2. Cerrada(F, 1..n, V)
      BY <1>2 DEF Cerrada
    <2> HIDE DEF E, F, V
    <2> QED BY <1>1, <2>1, <2>2, HayPliegue DEF V
  <1>5. \E g : Ec(g) /\ \A s \in SUBSET (1..n) : g[s] \in V
    <2>1. PICK g : EsPliegue(g, 1..n, V, d, E, F)
      BY <1>4
    <2>2. \A x \in 1..n : \A v \in V : F[x][v] = Turno(v, x, ini)
      OBVIOUS
    <2>3. \A s \in SUBSET (1..n) : E[s] = Max(s)
      OBVIOUS
    <2> HIDE DEF E, F, V
    <2>4. \A s \in SUBSET (1..n) : g[s] = IF s = {} THEN d ELSE F[E[s]][g[s \ {E[s]}]]
      BY <2>1 DEF EsPliegue
    <2>5. \A s \in SUBSET (1..n) : s # {} => Max(s) \in 1..n /\ g[s \ {Max(s)}] \in V
      BY <1>3, <2>1 DEF EsPliegue
    <2>6. \A s \in SUBSET (1..n) : g[s] = IF s = {} THEN d ELSE Turno(g[s \ {Max(s)}], Max(s), ini)
      BY <2>2, <2>3, <2>4, <2>5
    <2>7. DOMAIN g = SUBSET (1..n) /\ g = [s \in DOMAIN g |-> g[s]] /\ \A s \in SUBSET (1..n) : g[s] \in V
      BY <2>1 DEF EsPliegue
    <2> QED BY <2>6, <2>7
  <1>6. DOMAIN [i \in DOMAIN l |-> i] = 1..n /\ \A i \in 1..n : [j \in DOMAIN l |-> j][i] = i
    OBVIOUS
  <1> DEFINE Ec1(g) == g = [s \in SUBSET (1..n) |-> IF s = {} THEN d
                              ELSE Turno(g[s \ {Max(s)}], [j \in DOMAIN l |-> j][Max(s)], ini)]
  <1>7. Mudados(d, ini, l) = (CHOOSE g : Ec1(g))[1..n]
    BY <1>6 DEF Mudados, FoldLeftDomain, FoldLeft, MapThenFoldSet, Turno
  <1>8. \A g : Ec1(g) <=> Ec(g)
    <2> TAKE g
    <2>1. [s \in SUBSET (1..n) |-> IF s = {} THEN d
                       ELSE Turno(g[s \ {Max(s)}], [j \in DOMAIN l |-> j][Max(s)], ini)]
          = [s \in SUBSET (1..n) |-> IF s = {} THEN d ELSE Turno(g[s \ {Max(s)}], Max(s), ini)]
      BY <1>3, <1>6
    <2> QED BY <2>1
  <1>9. \E g : Ec1(g)
    BY <1>5, <1>8
  <1>10. PICK g : Ec1(g) /\ Mudados(d, ini, l) = g[1..n]
    <2> HIDE DEF Ec1
    <2> QED BY <1>7, <1>9
  <1>11. Ec(g)
    BY <1>8, <1>10
  <1> DEFINE h == [k \in 0..n |-> g[1..k]]
  <1>12. h[0] = d
    <2>1. g[{}] = d /\ 1..0 = {}
      BY <1>11
    <2> QED BY <2>1
  <1>13. ASSUME NEW k \in 1..n PROVE h[k] = Turno(h[k - 1], k, ini)
    <2>0. k \in Nat \ {0} /\ 1..k \in SUBSET (1..n)
      OBVIOUS
    <2>1. Max(1..k) = k /\ (1..k) \ {k} = 1..(k - 1) /\ 1..k # {} /\ 1..k \in SUBSET (1..n)
      BY <2>0, MaxTramo
    <2>2. g[1..k] = Turno(g[1..(k - 1)], k, ini)
      BY <1>11, <2>1
    <2> QED BY <2>2
  <1>14. Mudados(d, ini, l) = h[n]
    BY <1>10
  <1> HIDE DEF h, Ec, Ec1, E, F
  <1> DEFINE Malos == {k \in Nat : k <= n /\ h[k] \notin V}
  <1>15. Malos = {}
    <2> SUFFICES ASSUME Malos # {} PROVE FALSE
      OBVIOUS
    <2>1. PICK m \in Malos : \A j \in Malos : m <= j
      BY MinNat
    <2>2. m # 0 /\ m \in 1..n
      BY <1>12
    <2>3. m - 1 \in Nat /\ m - 1 <= n /\ m - 1 < m
      BY <2>2
    <2>4. h[m - 1] \in V
      BY <2>1, <2>2, <2>3
    <2>5. h[m] \in V
      BY <1>2, <1>13, <2>2, <2>4
    <2> QED BY <2>5
  <1>16. \A k \in 0..n : h[k] \in V
    BY <1>15
  <1> QED BY <1>12, <1>13, <1>14, <1>16 DEF Turnos

(* compactar, field by field: mv is the disk once the others were moved.   *)
Aparte(d, e) == [d EXCEPT !.bit = SinEl(d, e)]
Movidos(d, e) == Mudados(Aparte(d, e), e.inicial, d.lista)

LEMMA TiposDeAparte ==
    ASSUME NEW n, NEW d \in Discos(n), NEW e, NEW ini,
           \A j \in 1..n : d.lista[j].inicial # ini => d.meta[d.lista[j].nombre] # NoHay
    PROVE  /\ Aparte(d, e) \in EnMedio(n, Aparte(d, e), ini)
           /\ Aparte(d, e) = [bit |-> SinEl(d, e), bloques |-> d.bloques, meta |-> d.meta, lista |-> d.lista]
  <1> DEFINE x == [bit |-> SinEl(d, e), bloques |-> d.bloques, meta |-> d.meta, lista |-> d.lista]
  <1>1. /\ d.bit \in Mapas /\ d.bloques \in [Disco -> Contenidos] /\ d.meta \in Metas
        /\ d.lista \in [1..n -> Entradas]
    BY DEF Discos
  <1>2. SinEl(d, e) \in Mapas
    BY <1>1, MapasDeBits DEF SinEl
  <1>3. x \in Discos(n)
    BY <1>1, <1>2 DEF Discos
  <1>4. x.meta = d.meta /\ x.lista = d.lista
    OBVIOUS
  <1>5. Aparte(d, e) = x
    BY DEF Aparte, Discos
  <1> HIDE DEF x
  <1>6. x \in EnMedio(n, x, ini)
    BY <1>3, <1>4 DEF EnMedio
  <1> QED BY <1>5, <1>6 DEF x

Compactado(d, e, t, mv, nt, lugar, k) ==
    [bit     |-> IF lugar = -1 THEN mv.bit ELSE Marcados(mv.bit, Desde(lugar, nt)),
     bloques |-> IF lugar = -1 THEN mv.bloques
                 ELSE EscribirBloques(mv.bloques, lugar,
                        Relleno(LeerBloques(d.bloques, e.inicial, BloquesNecesarios(e.tamanio)), nt)),
     meta    |-> [mv.meta EXCEPT ![e.nombre] = [inicial |-> lugar, tamanio |-> t]],
     lista   |-> [mv.lista EXCEPT ![k] = [mv.lista[k] EXCEPT !.inicial = lugar, !.tamanio = t]]]

LEMMA FormaDeCompactar ==
    ASSUME NEW n \in Nat, NEW d \in Discos(n), NEW e \in Entradas, NEW t,
           \E j \in 1..n : d.lista[j].nombre = e.nombre,
           \A j \in 1..n : d.lista[j].inicial # e.inicial => d.meta[d.lista[j].nombre] # NoHay,
           NEW mv, mv = Movidos(d, e), NEW nt, nt = BloquesNecesarios(t),
           NEW lugar, lugar = PrimerLugar(mv.bit, nt)
    PROVE  /\ mv \in EnMedio(n, Aparte(d, e), e.inicial)
           /\ \E k \in 1..n :
                /\ mv.lista[k].nombre = e.nombre
                /\ k = Posicion(mv.lista, e.nombre)
                /\ Compactar(d, e, t) = Compactado(d, e, t, mv, nt, lugar, k)
  <1> DEFINE ap == Aparte(d, e)
             c == LeerBloques(d.bloques, e.inicial, BloquesNecesarios(e.tamanio))
             k == Posicion(mv.lista, e.nombre)
             b == IF lugar = -1 THEN mv.bit ELSE Marcados(mv.bit, Desde(lugar, nt))
             w == IF lugar = -1 THEN mv.bloques ELSE EscribirBloques(mv.bloques, lugar, Relleno(c, nt))
  <1>1. ap \in EnMedio(n, ap, e.inicial) /\ ap.lista = d.lista
    BY TiposDeAparte
  <1>2. DOMAIN d.lista = 1..n
    BY DEF Discos
  <1>3. mv \in EnMedio(n, ap, e.inicial)
    <2>1. PICK h : Turnos(h, n, ap, e.inicial) /\ Mudados(ap, e.inicial, d.lista) = h[n]
      BY <1>1, <1>2, PorTurnos
    <2>2. mv = h[n] /\ n \in 0..n
      BY <2>1 DEF Movidos
    <2> QED BY <2>1, <2>2 DEF Turnos
  <1>4. mv \in Discos(n) /\ mv.lista \in [1..n -> Entradas]
    BY <1>3 DEF EnMedio, Discos
  <1>5. mv.lista \in Seq(Entradas) /\ DOMAIN mv.lista = 1..n
    BY <1>4
  <1>6. \E j \in 1..n : mv.lista[j].nombre = e.nombre
    BY <1>1, <1>3 DEF EnMedio
  <1>7. k \in 1..n /\ mv.lista[k].nombre = e.nombre
    BY <1>5, <1>6, LaPosicion DEF Nombra
  <1>8. CopiarContenido(mv, c, nt) = [bit |-> b, bloques |-> w, meta |-> mv.meta, lista |-> mv.lista]
    BY <1>4, FormaDeLaCopia
  <1>9. CopiarContenido(mv, c, nt).lista = mv.lista
    BY <1>8
  <1>10. ap = [d EXCEPT !.bit = Liberados(@, Desde(e.inicial, BloquesNecesarios(e.tamanio)))]
    BY DEF Aparte, SinEl
  <1>11. mv = FoldLeftDomain(LAMBDA x, i : IF x.lista[i].inicial = e.inicial THEN x
                                               ELSE Mudar(x, i), ap, d.lista)
    BY DEF Movidos, Mudados
  <1>12. Compactar(d, e, t) =
            [CopiarContenido(mv, c, nt) EXCEPT !.lista[k].inicial = lugar, !.lista[k].tamanio = t,
                      !.meta[e.nombre] = [inicial |-> lugar, tamanio |-> t]]
    <2> HIDE DEF ap
    <2> QED BY <1>9, <1>10, <1>11 DEF Compactar
  <1>13. Compactar(d, e, t) =
            [[bit |-> b, bloques |-> w, meta |-> mv.meta, lista |-> mv.lista] EXCEPT
                      !.lista[k].inicial = lugar, !.lista[k].tamanio = t,
                      !.meta[e.nombre] = [inicial |-> lugar, tamanio |-> t]]
    BY <1>8, <1>12
  <1> HIDE DEF b, w, k, c, ap
  <1>14. Compactar(d, e, t) =
            [bit |-> b, bloques |-> w, meta |-> [mv.meta EXCEPT ![e.nombre] = [inicial |-> lugar, tamanio |-> t]],
             lista |-> [mv.lista EXCEPT ![k] = [mv.lista[k] EXCEPT !.inicial = lugar, !.tamanio = t]]]
    <2> DEFINE l2 == [[mv.lista EXCEPT ![k].inicial = lugar] EXCEPT ![k].tamanio = t]
               l3 == [mv.lista EXCEPT ![k] = [mv.lista[k] EXCEPT !.inicial = lugar, !.tamanio = t]]
               l1 == [mv.lista EXCEPT ![k].inicial = lugar]
               r0 == [bit |-> b, bloques |-> w, meta |-> mv.meta, lista |-> mv.lista]
               r1 == [bit |-> b, bloques |-> w, meta |-> mv.meta, lista |-> l1]
               r2 == [bit |-> b, bloques |-> w, meta |-> mv.meta, lista |-> l2]
    <2>1. Compactar(d, e, t) =
            [bit |-> b, bloques |-> w, meta |-> [mv.meta EXCEPT ![e.nombre] = [inicial |-> lugar, tamanio |-> t]],
             lista |-> l2]
      <3>1. [r0 EXCEPT !.lista[k].inicial = lugar] = r1
        OBVIOUS
      <3>2. [r1 EXCEPT !.lista[k].tamanio = t] = r2
        OBVIOUS
      <3>3. [r0 EXCEPT !.lista[k].inicial = lugar, !.lista[k].tamanio = t] = r2
        BY <3>1, <3>2
      <3>4. [r0 EXCEPT !.lista[k].inicial = lugar, !.lista[k].tamanio = t,
                       !.meta[e.nombre] = [inicial |-> lugar, tamanio |-> t]]
            = [[r0 EXCEPT !.lista[k].inicial = lugar, !.lista[k].tamanio = t]
                EXCEPT !.meta[e.nombre] = [inicial |-> lugar, tamanio |-> t]]
        OBVIOUS
      <3>5. [r2 EXCEPT !.meta[e.nombre] = [inicial |-> lugar, tamanio |-> t]]
            = [bit |-> b, bloques |-> w, meta |-> [mv.meta EXCEPT ![e.nombre] = [inicial |-> lugar, tamanio |-> t]],
               lista |-> l2]
        OBVIOUS
      <3> QED BY <1>13, <3>3, <3>4, <3>5
    <2>2. l2 = l3
      BY <1>4, <1>7 DEF Entradas
    <2> HIDE DEF l2, l3
    <2>3. Compactar(d, e, t) =
            [bit |-> b, bloques |-> w, meta |-> [mv.meta EXCEPT ![e.nombre] = [inicial |-> lugar, tamanio |-> t]],
             lista |-> l3]
      BY <2>1, <2>2
    <2> QED BY <2>3 DEF l3
  <1>15. Compactar(d, e, t) = Compactado(d, e, t, mv, nt, lugar, k)
    BY <1>14 DEF b, w, c, Compactado
  <1> QED BY <1>3, <1>7, <1>15 DEF ap, k

LEMMA TiposDeCompactar ==
    ASSUME NEW n \in Nat, NEW d \in Discos(n), NEW e \in Entradas, NEW t \in Tamanios,
           \E j \in 1..n : d.lista[j].nombre = e.nombre,
           d.meta[e.nombre] # NoHay,
           \A j \in 1..n : d.lista[j].inicial # e.inicial => d.meta[d.lista[j].nombre] # NoHay
    PROVE  /\ Compactar(d, e, t) \in Discos(n)
           /\ \A a \in Archivos : Compactar(d, e, t).meta[a] # NoHay <=> d.meta[a] # NoHay
           /\ \A j \in 1..n : Compactar(d, e, t).lista[j].nombre = d.lista[j].nombre
  <1> PICK mv : mv = Movidos(d, e)
    OBVIOUS
  <1> PICK nt : nt = BloquesNecesarios(t)
    OBVIOUS
  <1> PICK lugar : lugar = PrimerLugar(mv.bit, nt)
    OBVIOUS
  <1> DEFINE c == LeerBloques(d.bloques, e.inicial, BloquesNecesarios(e.tamanio))
             b == IF lugar = -1 THEN mv.bit ELSE Marcados(mv.bit, Desde(lugar, nt))
             w == IF lugar = -1 THEN mv.bloques ELSE EscribirBloques(mv.bloques, lugar, Relleno(c, nt))
             R == [inicial |-> lugar, tamanio |-> t]
             me == [mv.meta EXCEPT ![e.nombre] = R]
             L(k) == [mv.lista EXCEPT ![k] = [mv.lista[k] EXCEPT !.inicial = lugar, !.tamanio = t]]
  <1>1. /\ mv \in EnMedio(n, Aparte(d, e), e.inicial)
        /\ \E k \in 1..n : mv.lista[k].nombre = e.nombre /\ k = Posicion(mv.lista, e.nombre)
              /\ Compactar(d, e, t) = Compactado(d, e, t, mv, nt, lugar, k)
    BY FormaDeCompactar
  <1>2. PICK k \in 1..n : Compactar(d, e, t) = [bit |-> b, bloques |-> w, meta |-> me, lista |-> L(k)]
    BY <1>1 DEF Compactado
  <1>3. Aparte(d, e).meta = d.meta /\ Aparte(d, e).lista = d.lista
    BY TiposDeAparte
  <1>4. /\ mv.bit \in Mapas /\ mv.bloques \in [Disco -> Contenidos] /\ mv.meta \in Metas
        /\ mv.lista \in [1..n -> Entradas] /\ d.bloques \in [Disco -> Contenidos]
    BY <1>1 DEF EnMedio, Discos
  <1>5. /\ \A a \in Archivos : mv.meta[a] # NoHay <=> d.meta[a] # NoHay
        /\ \A j \in 1..n : mv.lista[j].nombre = d.lista[j].nombre
    BY <1>1, <1>3 DEF EnMedio
  <1>6. lugar \in Disco \cup {-1} /\ lugar \in Int
    BY EnElDisco, NBloquesAssumption DEF Disco
  <1>7. nt \in Nat /\ t \in Nat
    BY TamaniosAssumption, TiposDeTecho
  <1>8. b \in Mapas
    BY <1>4, MapasDeBits
  <1>9. w \in [Disco -> Contenidos]
    BY <1>4, <1>6, <1>7, TiposDeEntrada, LoLeido, TiposDelRelleno, LoEscrito
  <1>10. e.nombre \in Archivos
    BY TiposDeEntrada
  <1>11. R \in Registro
    BY <1>6 DEF Registro
  <1> HIDE DEF R
  <1>12. /\ me \in Metas /\ me[e.nombre] = R
         /\ \A a \in Archivos : a # e.nombre => me[a] = mv.meta[a]
    BY <1>4, <1>10, <1>11 DEF Metas
  <1>13. /\ L(k) \in [1..n -> Entradas]
         /\ \A j \in 1..n : L(k)[j].nombre = mv.lista[j].nombre
    <2> DEFINE x == [mv.lista[k] EXCEPT !.inicial = lugar, !.tamanio = t]
    <2>1. mv.lista[k] \in Entradas
      BY <1>4
    <2>2. x \in Entradas /\ x.nombre = mv.lista[k].nombre
      BY <2>1, <1>6 DEF Entradas
    <2> HIDE DEF x
    <2>3. [mv.lista EXCEPT ![k] = x] \in [1..n -> Entradas] /\ \A j \in 1..n : [mv.lista EXCEPT ![k] = x][j].nombre = mv.lista[j].nombre
      BY <1>4, <2>2
    <2> QED BY <2>3 DEF x
  <1> DEFINE li == L(k)
  <1>14. Compactar(d, e, t) = [bit |-> b, bloques |-> w, meta |-> me, lista |-> li]
    BY <1>2
  <1>15. li \in [1..n -> Entradas] /\ \A j \in 1..n : li[j].nombre = mv.lista[j].nombre
    BY <1>13
  <1> HIDE DEF b, w, me, li, L
  <1>16. Compactar(d, e, t) \in Discos(n)
    BY <1>4, <1>8, <1>9, <1>12, <1>14, <1>15 DEF Discos
  <1>17. Compactar(d, e, t).meta = me /\ Compactar(d, e, t).lista = li
    BY <1>14
  <1>18. \A a \in Archivos : me[a] # NoHay <=> d.meta[a] # NoHay
    BY <1>5, <1>11, <1>12, NoHayNoEsRegistro
  <1> QED BY <1>5, <1>15, <1>16, <1>17, <1>18

LEMMA TiposDeMaxBloques ==
    /\ MaxBloques \in Nat \ {0}
    /\ \A t \in Tamanios \cup {0} : t <= Max(Tamanios \cup {1})
  <1> DEFINE S == Tamanios \cup {1}
  <1>1. S \in SUBSET Nat /\ IsFiniteSet(S) /\ 1 \in S
    BY TamaniosAssumption, FS_AddElement
  <1> HIDE DEF S
  <1>2. Max(S) \in S /\ \A k \in S : k <= Max(S)
    BY <1>1, MaxFinito
  <1>3. Max(S) \in Nat /\ Max(S) > 0
    <2>1. Max(S) \in Nat /\ 1 <= Max(S)
      BY <1>1, <1>2
    <2> QED BY <2>1
  <1>4. Techo(Max(S)) \in Nat \ {0}
    BY <1>3, TiposDeTecho
  <1>5. \A t \in Tamanios \cup {0} : t \in S \/ t = 0
    BY DEF S
  <1>6. \A t \in Tamanios \cup {0} : t <= Max(S)
    BY <1>2, <1>3, <1>5
  <1> QED BY <1>4, <1>6 DEF MaxBloques, S

(* An entry taken out of a list.                                           *)
LEMMA QuitarUno ==
    ASSUME NEW S, NEW s \in Seq(S), NEW i \in 1..Len(s)
    PROVE  /\ RemoveAt(s, i) \in Seq(S) /\ Len(RemoveAt(s, i)) = Len(s) - 1
           /\ \A k \in 1..(Len(s) - 1) : RemoveAt(s, i)[k] = IF k < i THEN s[k] ELSE s[k + 1]
  <1> DEFINE a == SubSeq(s, 1, i - 1)
             b == SubSeq(s, i + 1, Len(s))
  <1>1. i \in 1..Len(s) /\ Len(s) \in Nat
    OBVIOUS
  <1>2. a \in Seq(S) /\ Len(a) = i - 1
    BY <1>1
  <1>3. b \in Seq(S) /\ Len(b) = Len(s) - i
    BY <1>1
  <1>4. \A k \in 1..(i - 1) : a[k] = s[k]
    BY <1>1
  <1>5. \A k \in 1..(Len(s) - i) : b[k] = s[k + i]
    BY <1>1
  <1> HIDE DEF a, b
  <1>6. Len(a) + Len(b) = Len(s) - 1
    BY <1>1, <1>2, <1>3
  <1>7. /\ a \o b \in Seq(S) /\ Len(a \o b) = Len(a) + Len(b)
        /\ \A k \in 1..(Len(a) + Len(b)) : (a \o b)[k] = IF k <= Len(a) THEN a[k] ELSE b[k - Len(a)]
    BY <1>2, <1>3, ConcatProperties
  <1>8. \A k \in 1..(Len(s) - 1) : (a \o b)[k] = IF k < i THEN s[k] ELSE s[k + 1]
    <2> TAKE k \in 1..(Len(s) - 1)
    <2>1. (a \o b)[k] = IF k <= i - 1 THEN a[k] ELSE b[k - (i - 1)]
      BY <1>2, <1>6, <1>7
    <2>2. k < i => k \in 1..(i - 1)
      BY <1>1
    <2>3. ~(k < i) => k - (i - 1) \in 1..(Len(s) - i) /\ k - (i - 1) + i = k + 1
      BY <1>1
    <2>4. k <= i - 1 <=> k < i
      BY <1>1
    <2> QED BY <1>4, <1>5, <2>1, <2>2, <2>3, <2>4
  <1> QED BY <1>6, <1>7, <1>8 DEF RemoveAt, a, b

-----------------------------------------------------------------------------
(* Types, and that a file that exists is in the list.                      *)

Anotados == \A a \in Archivos : Existe(a) => Nombra(archivos_fs, a)
DialInv == TypeOK /\ Anotados

LEMMA TiposDeDial ==
    ASSUME TypeOK
    PROVE  /\ bit \in Mapas /\ bloques \in [Disco -> Contenidos] /\ meta \in Metas
           /\ archivos_fs \in Seq(Entradas) /\ Len(archivos_fs) \in Nat
           /\ DOMAIN archivos_fs = 1..Len(archivos_fs)
           /\ \A i \in 1..Len(archivos_fs) : archivos_fs[i] \in Entradas
  <1>1. /\ bit \in Mapas /\ bloques \in [Disco -> Contenidos] /\ meta \in Metas
        /\ archivos_fs \in Seq(Entradas)
    BY DEF TypeOK, Mapas, Contenidos, Metas, Entradas
  <1>2. /\ Len(archivos_fs) \in Nat /\ DOMAIN archivos_fs = 1..Len(archivos_fs)
        /\ \A i \in 1..Len(archivos_fs) : archivos_fs[i] \in Entradas
    BY <1>1
  <1> QED BY <1>1, <1>2

LEMMA DialInicial == DialInit => DialInv
  <1> SUFFICES ASSUME DialInit PROVE DialInv
    OBVIOUS
  <1>1. archivos_fs = <<>> /\ Len(archivos_fs) = 0
    BY DEF DialInit
  <1>2. TypeOK
    <2>1. archivos_fs \in Seq(Entradas) /\ Len(archivos_fs) <= MaxLista
      BY <1>1, EmptySeq, MaxListaAssumption
    <2>2. bit \in [Bits -> BOOLEAN] /\ bloques \in [Disco -> Archivos \cup {Vacio}] /\ caido \in BOOLEAN
      BY DEF DialInit
    <2>3. meta \in [Archivos -> Registro \cup {NoHay}]
      BY DEF DialInit
    <2> QED BY <2>1, <2>2, <2>3 DEF TypeOK, Entradas
  <1>3. Anotados
    BY DEF DialInit, Anotados, Existe
  <1> QED BY <1>2, <1>3 DEF DialInv

(* The entry of a file that exists.                                        *)
LEMMA EntradaDeExistente ==
    ASSUME DialInv, NEW a \in Archivos, Existe(a), NEW i, i = Posicion(archivos_fs, a)
    PROVE  /\ i \in 1..Len(archivos_fs) /\ archivos_fs[i] \in Entradas /\ archivos_fs[i].nombre = a
           /\ meta[a] \in Registro
  <1>1. archivos_fs \in Seq(Entradas) /\ Nombra(archivos_fs, a)
    BY TiposDeDial DEF DialInv, Anotados
  <1>2. i \in DOMAIN archivos_fs /\ archivos_fs[i].nombre = a
    BY <1>1, LaPosicion
  <1>3. meta[a] \in Registro
    BY TiposDeDial DEF DialInv, Existe, Metas
  <1> QED BY <1>2, <1>3, TiposDeDial DEF DialInv

LEMMA CrearTipos ==
    ASSUME DialInv, NEW a \in Archivos, CrearArchivo(a)
    PROVE  DialInv'
  <1> DEFINE libre == PrimerLugar(bit, 1)
             x == [nombre |-> a, inicial |-> libre, tamanio |-> 0]
             n == Len(archivos_fs)
  <1>1. libre \in Disco \cup {-1}
    BY EnElDisco
  <1>2. /\ n < MaxLista /\ bit' = Marcados(bit, {libre})
        /\ meta' = [meta EXCEPT ![a] = [inicial |-> libre, tamanio |-> 0]]
        /\ archivos_fs' = Append(archivos_fs, x)
        /\ bloques' = bloques /\ caido' = caido
    BY DEF CrearArchivo
  <1>3. TypeOK
    BY DEF DialInv
  <1>4. bit' \in Mapas
    BY <1>2, <1>3, TiposDeDial, MapasDeBits
  <1>5. [inicial |-> libre, tamanio |-> 0] \in Registro
    BY <1>1 DEF Registro
  <1>6. meta' \in Metas /\ \A b \in Archivos : b # a => meta'[b] = meta[b]
    BY <1>2, <1>3, <1>5, TiposDeDial DEF Metas
  <1>7. x \in Entradas
    BY <1>1 DEF Entradas
  <1>8. x.nombre = a
    OBVIOUS
  <1> HIDE DEF x, libre
  <1>9. /\ archivos_fs' \in Seq(Entradas) /\ Len(archivos_fs') = n + 1 /\ archivos_fs'[n + 1] = x
        /\ \A i \in 1..n : archivos_fs'[i] = archivos_fs[i]
    BY <1>2, <1>3, <1>7, TiposDeDial, AppendProperties
  <1>10. n \in Nat /\ DOMAIN archivos_fs = 1..n /\ DOMAIN archivos_fs' = 1..(n + 1)
    BY <1>3, <1>9, TiposDeDial
  <1>11. n + 1 <= MaxLista
    BY <1>2, <1>10, MaxListaAssumption
  <1>12. TypeOK'
    BY <1>2, <1>3, <1>4, <1>6, <1>9, <1>11 DEF TypeOK, Mapas, Metas, Entradas
  <1>13. Anotados'
    <2> SUFFICES ASSUME NEW b \in Archivos, Existe(b)' PROVE Nombra(archivos_fs', b)
      BY DEF Anotados
    <2>1. CASE b = a
      <3>1. n + 1 \in DOMAIN archivos_fs'
        BY <1>10
      <3> QED BY <1>8, <1>9, <2>1, <3>1 DEF Nombra
    <2>2. CASE b # a
      <3>1. Nombra(archivos_fs, b)
        BY <1>6, <2>2 DEF DialInv, Anotados, Existe
      <3>2. PICK i \in 1..n : archivos_fs[i].nombre = b
        BY <1>10, <3>1 DEF Nombra
      <3>3. i \in DOMAIN archivos_fs' /\ archivos_fs'[i].nombre = b
        BY <1>9, <1>10, <3>2
      <3> QED BY <3>3 DEF Nombra
    <2> QED BY <2>1, <2>2
  <1> QED BY <1>12, <1>13 DEF DialInv

LEMMA EliminarTipos ==
    ASSUME DialInv, NEW a \in Archivos, EliminarArchivo(a)
    PROVE  DialInv'
  <1> DEFINE n == Len(archivos_fs)
  <1>0. TypeOK /\ n \in Nat /\ DOMAIN archivos_fs = 1..n
    BY TiposDeDial DEF DialInv
  <1>1. PICK i : i = Posicion(archivos_fs, a)
    OBVIOUS
  <1>2. i \in 1..n /\ archivos_fs[i].nombre = a
    BY <1>1, EntradaDeExistente DEF EliminarArchivo
  <1>3. /\ archivos_fs' = RemoveAt(archivos_fs, i)
        /\ bit' = Liberados(bit, BloquesOcupados(meta[a]))
        /\ meta' = [meta EXCEPT ![a] = NoHay]
        /\ caido' \in BOOLEAN /\ bloques' = bloques
    BY <1>1, <1>2 DEF EliminarArchivo
  <1>4. bit' \in Mapas
    BY <1>0, <1>3, TiposDeDial, MapasDeBits
  <1>5. meta' \in Metas /\ meta'[a] = NoHay /\ \A b \in Archivos : b # a => meta'[b] = meta[b]
    BY <1>0, <1>3, TiposDeDial DEF Metas
  <1>6. /\ archivos_fs' \in Seq(Entradas) /\ Len(archivos_fs') = n - 1
        /\ \A k \in 1..(n - 1) : archivos_fs'[k] = IF k < i THEN archivos_fs[k] ELSE archivos_fs[k + 1]
    BY <1>0, <1>2, <1>3, TiposDeDial, QuitarUno
  <1>7. DOMAIN archivos_fs' = 1..(n - 1)
    BY <1>6
  <1>8. n - 1 <= MaxLista
    BY <1>0, MaxListaAssumption DEF TypeOK
  <1>9. TypeOK'
    BY <1>0, <1>3, <1>4, <1>5, <1>6, <1>8 DEF TypeOK, Mapas, Metas, Entradas
  <1>10. Anotados'
    <2> SUFFICES ASSUME NEW b \in Archivos, Existe(b)' PROVE Nombra(archivos_fs', b)
      BY DEF Anotados
    <2>1. b # a
      BY <1>5 DEF Existe
    <2>2. Nombra(archivos_fs, b)
      BY <1>5, <2>1 DEF DialInv, Anotados, Existe
    <2>3. PICK j \in 1..n : archivos_fs[j].nombre = b
      BY <1>0, <2>2 DEF Nombra
    <2>4. j # i
      BY <1>2, <2>1, <2>3
    <2>5. \E k \in 1..(n - 1) : archivos_fs'[k] = archivos_fs[j]
      <3>1. CASE j < i
        <4>1. j \in 1..(n - 1)
          BY <1>0, <1>2, <3>1
        <4> QED BY <1>6, <3>1, <4>1
      <3>2. CASE ~(j < i)
        <4>1. j - 1 \in 1..(n - 1) /\ ~(j - 1 < i) /\ (j - 1) + 1 = j
          BY <1>0, <1>2, <2>4, <3>2
        <4> QED BY <1>6, <4>1
      <3> QED BY <3>1, <3>2
    <2> QED BY <1>7, <2>3, <2>5 DEF Nombra
  <1> QED BY <1>9, <1>10 DEF DialInv

LEMMA EscribirTipos ==
    ASSUME DialInv, NEW a \in Archivos, NEW de \in Nat, NEW hasta \in Nat, de <= hasta, EscribirArchivo(a, de, hasta)
    PROVE  DialInv'
  <1> DEFINE c == [k \in 1 .. hasta - de + 1 |-> a]
  <1>1. c \in Seq(Contenidos)
    <2>1. hasta - de + 1 \in Nat
      OBVIOUS
    <2>2. c \in [1 .. hasta - de + 1 -> Contenidos]
      BY DEF Contenidos
    <2> QED BY <2>1, <2>2
  <1>2. meta[a].inicial + de \in Int
    <2>1. meta[a] \in Registro
      BY EntradaDeExistente DEF EscribirArchivo
    <2>2. meta[a].inicial \in Int
      BY <2>1, NBloquesAssumption DEF Registro, Disco
    <2> QED BY <2>2
  <1>3. /\ bloques' = EscribirBloques(bloques, meta[a].inicial + de, c)
        /\ caido' \in BOOLEAN /\ UNCHANGED <<bit, meta, archivos_fs>>
    BY DEF EscribirArchivo
  <1> HIDE DEF c
  <1>4. bloques' \in [Disco -> Contenidos]
    BY <1>1, <1>2, <1>3, TiposDeDial, LoEscrito DEF DialInv
  <1>5. TypeOK'
    BY <1>3, <1>4 DEF DialInv, TypeOK, Contenidos
  <1>6. Anotados'
    BY <1>3 DEF DialInv, Anotados, Existe, Nombra
  <1> QED BY <1>5, <1>6 DEF DialInv

(* A new size, in the list and in the metadata of a file.                  *)
LEMMA OtroTamanio ==
    ASSUME DialInv, NEW a \in Archivos, Existe(a), NEW i, i = Posicion(archivos_fs, a), NEW t \in Tamanios,
           NEW r \in Registro, meta' = [meta EXCEPT ![a] = r],
           archivos_fs' = [archivos_fs EXCEPT ![i].tamanio = t],
           bit' \in Mapas, bloques' = bloques, caido' \in BOOLEAN
    PROVE  DialInv'
  <1> DEFINE n == Len(archivos_fs)
             x == [archivos_fs[i] EXCEPT !.tamanio = t]
  <1>1. /\ TypeOK /\ n \in Nat /\ DOMAIN archivos_fs = 1..n /\ archivos_fs \in Seq(Entradas)
        /\ i \in 1..n /\ archivos_fs[i] \in Entradas
    BY TiposDeDial, EntradaDeExistente DEF DialInv
  <1>2. x \in Entradas /\ x.nombre = archivos_fs[i].nombre
    BY <1>1 DEF Entradas
  <1>3. archivos_fs' = [archivos_fs EXCEPT ![i] = x]
    OBVIOUS
  <1> HIDE DEF x
  <1>4. /\ archivos_fs' \in Seq(Entradas) /\ Len(archivos_fs') = n
        /\ \A j \in 1..n : archivos_fs'[j] = IF j = i THEN x ELSE archivos_fs[j]
    BY <1>1, <1>2, <1>3, ExceptSeq
  <1>5. DOMAIN archivos_fs' = 1..n /\ \A j \in 1..n : archivos_fs'[j].nombre = archivos_fs[j].nombre
    BY <1>1, <1>2, <1>4
  <1>6. meta' \in Metas /\ \A b \in Archivos : b # a => meta'[b] = meta[b]
    BY <1>1, TiposDeDial DEF Metas
  <1>7. TypeOK'
    BY <1>1, <1>4, <1>6 DEF TypeOK, Mapas, Metas, Entradas
  <1>8. Anotados'
    <2> SUFFICES ASSUME NEW b \in Archivos, Existe(b)' PROVE Nombra(archivos_fs', b)
      BY DEF Anotados
    <2>1. Existe(b)
      BY <1>6 DEF Existe
    <2>2. Nombra(archivos_fs, b)
      BY <2>1 DEF DialInv, Anotados
    <2> QED BY <1>1, <1>5, <2>2 DEF Nombra
  <1> QED BY <1>7, <1>8 DEF DialInv

LEMMA TruncarTipos ==
    ASSUME DialInv, NEW a \in Archivos, NEW t \in Tamanios, AmpliarEnElLugar(a, t) \/ ReducirArchivo(a, t)
    PROVE  DialInv'
  <1>1. PICK i : i = Posicion(archivos_fs, a)
    OBVIOUS
  <1>2. Existe(a)
    BY DEF AmpliarEnElLugar, Agranda, ReducirArchivo
  <1>3. /\ archivos_fs[i] \in Entradas /\ meta[a] \in Registro /\ bit \in Mapas
    BY <1>1, <1>2, EntradaDeExistente, TiposDeDial DEF DialInv
  <1>4. CASE AmpliarEnElLugar(a, t)
    <2>1. /\ archivos_fs' = [archivos_fs EXCEPT ![i].tamanio = t]
          /\ meta' = [meta EXCEPT ![a] = [meta[a] EXCEPT !.tamanio = t]]
          /\ caido' \in BOOLEAN /\ bloques' = bloques
      BY <1>1, <1>4 DEF AmpliarEnElLugar
    <2>2. bit' \in Mapas
      BY <1>3, <1>4, MapasDeBits DEF AmpliarEnElLugar
    <2>3. [meta[a] EXCEPT !.tamanio = t] \in Registro
      BY <1>3 DEF Registro
    <2> HIDE DEF Existe
    <2> QED BY <1>1, <1>2, <2>1, <2>2, <2>3, OtroTamanio
  <1>5. CASE ReducirArchivo(a, t)
    <2>1. /\ archivos_fs' = [archivos_fs EXCEPT ![i].tamanio = t]
          /\ meta' = [meta EXCEPT ![a] = [inicial |-> archivos_fs[i].inicial, tamanio |-> t]]
          /\ caido' \in BOOLEAN /\ bloques' = bloques
      BY <1>1, <1>5 DEF ReducirArchivo, ReducirSeCae
    <2>2. bit' \in Mapas
      BY <1>3, <1>5, MapasDeBits DEF ReducirArchivo
    <2>3. [inicial |-> archivos_fs[i].inicial, tamanio |-> t] \in Registro
      BY <1>3 DEF Registro, Entradas
    <2> QED BY <1>1, <1>2, <2>1, <2>2, <2>3, OtroTamanio
  <1> QED BY <1>4, <1>5

(* list_sort has the same entries in another order.                        *)
LEMMA LosMismos ==
    ASSUME NEW lista \in Seq(Entradas), NEW l \in Ordenadas(lista)
    PROVE  /\ l \in Seq(Entradas) /\ Len(l) = Len(lista) /\ l \in [1..Len(lista) -> Entradas]
           /\ \E f \in [1..Len(lista) -> 1..Len(lista)] :
                /\ IsInjective(f)
                /\ \A i \in 1..Len(lista) : l[i] = lista[f[i]]
                /\ \A i \in 1..Len(lista) : \E j \in 1..Len(lista) : f[j] = i
           /\ \A i, j \in 1..Len(lista) : i < j => l[i].inicial <= l[j].inicial
  <1> DEFINE n == Len(lista)
  <1>1. n \in Nat /\ DOMAIN lista = 1..n /\ \A i \in 1..n : lista[i] \in Entradas
    OBVIOUS
  <1>2. PICK f \in {g \in [DOMAIN lista -> DOMAIN lista] : IsInjective(g)} :
            l = [i \in DOMAIN lista |-> lista[f[i]]]
    BY DEF Ordenadas
  <1>3. \A i, j \in DOMAIN l : i < j => l[i].inicial <= l[j].inicial
    BY DEF Ordenadas
  <1>4. f \in [1..n -> 1..n] /\ IsInjective(f)
    BY <1>1, <1>2
  <1>5. DOMAIN l = 1..n /\ \A i \in 1..n : l[i] = lista[f[i]]
    BY <1>1, <1>2
  <1>6. l \in [1..n -> Entradas]
    BY <1>1, <1>2, <1>4
  <1>7. l \in Seq(Entradas) /\ Len(l) = n
    BY <1>1, <1>6
  <1>8. \A i \in 1..n : \E j \in 1..n : f[j] = i
    BY <1>1, <1>4, TodosAparecen
  <1> QED BY <1>3, <1>4, <1>5, <1>6, <1>7, <1>8

LEMMA CompactarTipos ==
    ASSUME DialInv, NEW a \in Archivos, NEW t \in Tamanios, AmpliarCompactando(a, t)
    PROVE  DialInv'
  <1> DEFINE n == Len(archivos_fs)
             e == EntradaDe(archivos_fs, a)
  <1>1. TypeOK /\ n \in Nat /\ archivos_fs \in Seq(Entradas) /\ DOMAIN archivos_fs = 1..n
    BY TiposDeDial DEF DialInv
  <1>2. Existe(a)
    BY DEF AmpliarCompactando, Agranda
  <1>3. e \in Entradas /\ e.nombre = a /\ \E i \in 1..n : archivos_fs[i] = e
    BY <1>2, EntradaDeExistente DEF EntradaDe
  <1>4. CASE CompactarSeCae(e) /\ caido' = TRUE /\ UNCHANGED <<bit, bloques, meta, archivos_fs>>
    BY <1>4 DEF DialInv, TypeOK, Anotados, Existe, Nombra
  <1>5. CASE /\ ~CompactarSeCae(e)
             /\ \E l \in Ordenadas(archivos_fs) :
                    LET d == Compactar([bit |-> bit, bloques |-> bloques, meta |-> meta,
                                        lista |-> l], e, t)
                    IN  /\ bit' = d.bit
                        /\ bloques' = d.bloques
                        /\ meta' = d.meta
                        /\ archivos_fs' = d.lista
             /\ UNCHANGED caido
    <2>1. PICK l \in Ordenadas(archivos_fs) :
                    LET d == Compactar([bit |-> bit, bloques |-> bloques, meta |-> meta,
                                        lista |-> l], e, t)
                    IN  /\ bit' = d.bit
                        /\ bloques' = d.bloques
                        /\ meta' = d.meta
                        /\ archivos_fs' = d.lista
      BY <1>5
    <2> DEFINE d == [bit |-> bit, bloques |-> bloques, meta |-> meta, lista |-> l]
               c == Compactar(d, e, t)
    <2>2. bit' = c.bit /\ bloques' = c.bloques /\ meta' = c.meta /\ archivos_fs' = c.lista
      BY <2>1
    <2>3. /\ l \in [1..n -> Entradas]
          /\ \E f \in [1..n -> 1..n] : /\ \A i \in 1..n : l[i] = archivos_fs[f[i]]
                                       /\ \A i \in 1..n : \E j \in 1..n : f[j] = i
      BY <1>1, LosMismos
    <2>4. PICK f \in [1..n -> 1..n] : /\ \A i \in 1..n : l[i] = archivos_fs[f[i]]
                                      /\ \A i \in 1..n : \E j \in 1..n : f[j] = i
      BY <2>3
    <2>5. d \in Discos(n)
      BY <1>1, <2>3, TiposDeDial DEF Discos
    <2>6. d.meta = meta /\ d.lista = l
      OBVIOUS
    <2> HIDE DEF d, e
    <2>7. \E j \in 1..n : d.lista[j].nombre = e.nombre
      <3>1. PICK i \in 1..n : archivos_fs[i] = e
        BY <1>3
      <3>2. PICK j \in 1..n : f[j] = i
        BY <2>4
      <3>3. l[j] = e
        BY <2>4, <3>1, <3>2
      <3> QED BY <2>6, <3>3
    <2>8. \A j \in 1..n : d.lista[j].inicial # e.inicial => d.meta[d.lista[j].nombre] # NoHay
      <3> TAKE j \in 1..n
      <3>1. l[j] \in ToSet(archivos_fs)
        BY <1>1, <2>4 DEF ToSet
      <3> QED BY <1>5, <2>6, <3>1 DEF CompactarSeCae, Existe
    <2>9. d.meta[e.nombre] # NoHay
      BY <1>2, <1>3, <2>6 DEF Existe
    <2>10. /\ c \in Discos(n)
           /\ \A b \in Archivos : c.meta[b] # NoHay <=> meta[b] # NoHay
           /\ \A j \in 1..n : c.lista[j].nombre = l[j].nombre
      BY <1>1, <1>3, <2>5, <2>6, <2>7, <2>8, <2>9, TiposDeCompactar
    <2> HIDE DEF c
    <2>11. /\ bit' \in Mapas /\ bloques' \in [Disco -> Contenidos] /\ meta' \in Metas
           /\ archivos_fs' \in [1..n -> Entradas]
      BY <2>2, <2>10 DEF Discos
    <2>12. archivos_fs' \in Seq(Entradas) /\ Len(archivos_fs') = n /\ DOMAIN archivos_fs' = 1..n
      BY <1>1, <2>11
    <2>13. TypeOK'
      BY <1>1, <1>5, <2>11, <2>12 DEF TypeOK, Mapas, Metas, Entradas, Contenidos
    <2>14. Anotados'
      <3> SUFFICES ASSUME NEW b \in Archivos, Existe(b)' PROVE Nombra(archivos_fs', b)
        BY DEF Anotados
      <3>1. Existe(b)
        BY <2>2, <2>10 DEF Existe
      <3>2. PICK i \in 1..n : archivos_fs[i].nombre = b
        BY <1>1, <3>1 DEF DialInv, Anotados, Nombra
      <3>3. PICK j \in 1..n : f[j] = i
        BY <2>4
      <3>4. archivos_fs'[j].nombre = b
        BY <2>2, <2>4, <2>10, <3>2, <3>3
      <3> QED BY <2>12, <3>4 DEF Nombra
    <2> QED BY <2>13, <2>14 DEF DialInv
  <1> QED BY <1>4, <1>5 DEF AmpliarCompactando

(* The files there are do not outnumber the entries of the list.           *)
LEMMA PresentesAcotados ==
    ASSUME DialInv
    PROVE  IsFiniteSet(Presentes) /\ Cardinality(Presentes) \in Nat
           /\ Cardinality(Presentes) <= Len(archivos_fs)
  <1> DEFINE n == Len(archivos_fs)
             f == [i \in 1..n |-> archivos_fs[i].nombre]
             T == {archivos_fs[i].nombre : i \in 1..n}
  <1>1. n \in Nat /\ DOMAIN archivos_fs = 1..n
    BY TiposDeDial DEF DialInv
  <1>2. f \in Surjection(1..n, T)
    BY DEF Surjection
  <1> HIDE DEF n
  <1>3. IsFiniteSet(1..n) /\ Cardinality(1..n) = n
    BY <1>1, FS_Interval
  <1> USE DEF n
  <1>4. Presentes \subseteq T
    BY <1>1 DEF Presentes, DialInv, Anotados, Nombra
  <1> HIDE DEF f, T, n
  <1>5. IsFiniteSet(T) /\ Cardinality(T) <= n
    BY <1>2, <1>3, FS_Surjection
  <1>6. IsFiniteSet(Presentes) /\ Cardinality(Presentes) <= Cardinality(T)
    BY <1>4, <1>5, FS_Subset
  <1>7. Cardinality(T) \in Nat /\ Cardinality(Presentes) \in Nat
    BY <1>5, <1>6, FS_CardinalityType
  <1>8. Cardinality(Presentes) <= n
    BY <1>1, <1>5, <1>6, <1>7
  <1> QED BY <1>6, <1>7, <1>8 DEF n

(* The list after a restart: each file once.                               *)
LEMMA TrasReiniciar ==
    ASSUME DialInv, Reiniciar
    PROVE  \E k \in Nat : \E l \in [1..k -> Presentes] :
             /\ k = Cardinality(Presentes) /\ IsInjective(l)
             /\ \A a \in Presentes : \E i \in 1..k : l[i] = a
             /\ archivos_fs' = [i \in 1..k |-> [nombre |-> l[i], inicial |-> meta[l[i]].inicial,
                                                tamanio |-> meta[l[i]].tamanio]]
  <1> DEFINE k == Cardinality(Presentes)
  <1>1. IsFiniteSet(Presentes) /\ k \in Nat
    BY PresentesAcotados
  <1> HIDE DEF k
  <1>2. PICK l \in SetToSeqs(Presentes) :
            archivos_fs' = [i \in DOMAIN l |-> [nombre |-> l[i], inicial |-> meta[l[i]].inicial,
                                               tamanio |-> meta[l[i]].tamanio]]
    BY DEF Reiniciar, Presentes
  <1>3. l \in [1..k -> Presentes] /\ \A i, j \in 1..k : i # j => l[i] # l[j]
    BY DEF SetToSeqs, k
  <1>4. l \in Injection(1..k, Presentes) /\ IsInjective(l)
    BY <1>3 DEF Injection, IsInjective
  <1>5. IsFiniteSet(1..k) /\ Cardinality(1..k) = k
    BY <1>1, FS_Interval
  <1>6. l \in Surjection(1..k, Presentes)
    BY <1>1, <1>4, <1>5, FS_Injection DEF k
  <1>7. \A a \in Presentes : \E i \in 1..k : l[i] = a
    BY <1>6 DEF Surjection
  <1>8. DOMAIN l = 1..k
    BY <1>3
  <1> QED BY <1>1, <1>2, <1>3, <1>4, <1>7, <1>8 DEF k

LEMMA ReiniciarTipos ==
    ASSUME DialInv, Reiniciar
    PROVE  DialInv'
  <1>0. TypeOK
    BY DEF DialInv
  <1>a. PICK k \in Nat : \E l \in [1..k -> Presentes] :
             /\ k = Cardinality(Presentes)
             /\ \A a \in Presentes : \E i \in 1..k : l[i] = a
             /\ archivos_fs' = [i \in 1..k |-> [nombre |-> l[i], inicial |-> meta[l[i]].inicial,
                                                tamanio |-> meta[l[i]].tamanio]]
    BY TrasReiniciar
  <1>1. PICK l \in [1..k -> Presentes] :
             /\ k = Cardinality(Presentes)
             /\ \A a \in Presentes : \E i \in 1..k : l[i] = a
             /\ archivos_fs' = [i \in 1..k |-> [nombre |-> l[i], inicial |-> meta[l[i]].inicial,
                                                tamanio |-> meta[l[i]].tamanio]]
    BY <1>a
  <1>2. bit' \in Mapas /\ bloques' = bloques /\ meta' = meta /\ caido' = caido
    BY <1>0, TiposDeDial DEF Reiniciar, Mapas
  <1>3. archivos_fs' \in [1..k -> Entradas]
    <2> SUFFICES ASSUME NEW i \in 1..k
                 PROVE  [nombre |-> l[i], inicial |-> meta[l[i]].inicial, tamanio |-> meta[l[i]].tamanio] \in Entradas
      BY <1>1
    <2>1. l[i] \in Archivos /\ meta[l[i]] \in Registro
      BY <1>0, TiposDeDial DEF Presentes, Existe, Metas
    <2> QED BY <2>1 DEF Registro, Entradas
  <1>4. archivos_fs' \in Seq(Entradas) /\ Len(archivos_fs') = k /\ DOMAIN archivos_fs' = 1..k
    BY <1>3
  <1>5. k <= MaxLista
    <2>1. Len(archivos_fs) \in Nat /\ Len(archivos_fs) <= MaxLista
      BY <1>0, TiposDeDial DEF TypeOK
    <2>2. k <= Len(archivos_fs)
      BY <1>1, PresentesAcotados
    <2> QED BY <2>1, <2>2, MaxListaAssumption
  <1>6. TypeOK'
    BY <1>0, <1>2, <1>4, <1>5 DEF TypeOK, Mapas, Entradas
  <1>7. Anotados'
    <2> SUFFICES ASSUME NEW a \in Archivos, Existe(a)' PROVE Nombra(archivos_fs', a)
      BY DEF Anotados
    <2>1. a \in Presentes
      BY <1>2 DEF Presentes, Existe
    <2>2. PICK i \in 1..k : l[i] = a
      BY <1>1, <2>1
    <2>3. archivos_fs'[i].nombre = a
      BY <1>1, <2>2
    <2> QED BY <1>4, <2>3 DEF Nombra
  <1> QED BY <1>6, <1>7 DEF DialInv

LEMMA DialInductivo ==
    ASSUME DialInv, [DialNext]_vars
    PROVE  DialInv'
  <1>1. CASE UNCHANGED vars
    BY <1>1 DEF vars, DialInv, TypeOK, Anotados, Existe, Nombra
  <1>2. ASSUME NEW a \in Archivos, NEW t \in Tamanios, TruncarArchivo(a, t) PROVE DialInv'
    BY <1>2, TruncarTipos, CompactarTipos DEF TruncarArchivo
  <1>3. ASSUME NEW a \in Archivos, NEW de \in 0 .. MaxBloques - 1, NEW hasta \in 0 .. MaxBloques - 1,
               de <= hasta, EscribirArchivo(a, de, hasta)
        PROVE  DialInv'
    <2>1. de \in Nat /\ hasta \in Nat
      BY TiposDeMaxBloques
    <2> QED BY <1>3, <2>1, EscribirTipos
  <1>4. ASSUME NEW a \in Archivos, CrearArchivo(a) \/ EliminarArchivo(a) PROVE DialInv'
    BY <1>4, CrearTipos, EliminarTipos
  <1> QED BY <1>1, <1>2, <1>3, <1>4, ReiniciarTipos DEF DialNext

(* Every block number the interface works with is one of the disk's, or the*)
(* -1 of a search that found none, in the list and in the metadata; and the*)
(* list never outgrows its bound, a restart included, since a file that    *)
(* exists has an entry.                                                    *)
THEOREM TiposDelDisco == DialSpec => []TypeOK
  <1>1. DialInv => TypeOK
    BY DEF DialInv
  <1> QED BY <1>1, DialInicial, DialInductivo, PTL DEF DialSpec

-----------------------------------------------------------------------------
(* A sound disk, by the entries of the list: an entry says what the        *)
(* metadata of its file say, each file that exists has one, their blocks   *)
(* are in the disk and apart, and the bitmap has those.                    *)

Ficha(me, a) == [nombre |-> a, inicial |-> me[a].inicial, tamanio |-> me[a].tamanio]

Fieles(me, li, n) ==
    /\ \A j \in 1..n : /\ me[li[j].nombre] # NoHay
                       /\ me[li[j].nombre].inicial = li[j].inicial
                       /\ me[li[j].nombre].tamanio = li[j].tamanio
    /\ \A i, j \in 1..n : li[i].nombre = li[j].nombre => i = j
    /\ \A a \in Archivos : me[a] # NoHay => \E j \in 1..n : li[j].nombre = a

Apartados(li, n) ==
    /\ \A j \in 1..n : Ocupa(li[j]) \subseteq Disco
    /\ \A i, j \in 1..n : i # j => Ocupa(li[i]) \cap Ocupa(li[j]) = {}

Marca(b, li, n) == \A x \in Bits : b[x] <=> \E j \in 1..n : x \in Ocupa(li[j])

SanoCon(b, me, li, n) == Fieles(me, li, n) /\ Apartados(li, n) /\ Marca(b, li, n)

SanoPorLista == SanoCon(bit, meta, archivos_fs, Len(archivos_fs))

LEMMA DiscoEnBits == Disco \subseteq Bits /\ Disco \subseteq Nat /\ Bits \subseteq Nat
  BY NBloquesAssumption, TiposDeMaxBloques DEF Disco, Bits

(* One entry per file that exists, and no other.                           *)
LEMMA FielesPorCuenta ==
    ASSUME DialInv, ListaFiel
    PROVE  Fieles(meta, archivos_fs, Len(archivos_fs))
  <1> DEFINE n == Len(archivos_fs)
             p == [a \in Presentes |-> CHOOSE j \in 1..n : archivos_fs[j] = Ficha(meta, a)]
  <1>1. n \in Nat /\ DOMAIN archivos_fs = 1..n /\ \A j \in 1..n : archivos_fs[j] \in Entradas
    BY TiposDeDial DEF DialInv
  <1>2. n = Cardinality(Presentes) /\ IsFiniteSet(1..n) /\ Cardinality(1..n) = n
    <2>1. n = Cardinality(Presentes)
      BY DEF ListaFiel
    <2> HIDE DEF n
    <2> QED BY <1>1, <2>1, FS_Interval
  <1>3. \A a \in Presentes : p[a] \in 1..n /\ archivos_fs[p[a]] = Ficha(meta, a)
    <2> TAKE a \in Presentes
    <2>1. \E j \in 1..n : archivos_fs[j] = Ficha(meta, a)
      BY <1>1 DEF ListaFiel, ToSet, Ficha
    <2> QED BY <2>1
  <1>4. p \in [Presentes -> 1..n]
    BY <1>3
  <1> HIDE DEF p
  <1>5. \A a \in Presentes : archivos_fs[p[a]].nombre = a
    <2> TAKE a \in Presentes
    <2>1. archivos_fs[p[a]] = Ficha(meta, a)
      BY <1>3
    <2>2. Ficha(meta, a).nombre = a
      BY DEF Ficha
    <2> QED BY <2>1, <2>2
  <1>6. p \in Injection(Presentes, 1..n)
    BY <1>4, <1>5 DEF Injection, IsInjective
  <1>7. p \in Surjection(Presentes, 1..n)
    <2> HIDE DEF n
    <2> QED BY <1>2, <1>6, FS_Injection
  <1>8. \A j \in 1..n : \E a \in Presentes : p[a] = j
    BY <1>7 DEF Surjection
  <1>9. ASSUME NEW j \in 1..n
        PROVE  /\ archivos_fs[j].nombre \in Presentes /\ p[archivos_fs[j].nombre] = j
               /\ archivos_fs[j] = Ficha(meta, archivos_fs[j].nombre)
    <2>1. PICK a \in Presentes : p[a] = j
      BY <1>8
    <2> QED BY <1>3, <1>5, <2>1
  <1>10. ASSUME NEW j \in 1..n
         PROVE  /\ meta[archivos_fs[j].nombre] # NoHay
                /\ meta[archivos_fs[j].nombre].inicial = archivos_fs[j].inicial
                /\ meta[archivos_fs[j].nombre].tamanio = archivos_fs[j].tamanio
    <2>1. meta[archivos_fs[j].nombre] # NoHay
      BY <1>9 DEF Presentes, Existe
    <2>2. archivos_fs[j] = Ficha(meta, archivos_fs[j].nombre)
      BY <1>9
    <2>3. /\ archivos_fs[j].inicial = meta[archivos_fs[j].nombre].inicial
          /\ archivos_fs[j].tamanio = meta[archivos_fs[j].nombre].tamanio
      BY <2>2 DEF Ficha
    <2> QED BY <2>1, <2>3
  <1>11. \A i, j \in 1..n : archivos_fs[i].nombre = archivos_fs[j].nombre => i = j
    BY <1>9
  <1>12. \A a \in Archivos : meta[a] # NoHay => \E j \in 1..n : archivos_fs[j].nombre = a
    BY <1>3, <1>5 DEF Presentes, Existe
  <1> QED BY <1>10, <1>11, <1>12 DEF Fieles

LEMMA CuentaPorFieles ==
    ASSUME DialInv, Fieles(meta, archivos_fs, Len(archivos_fs))
    PROVE  ListaFiel
  <1> DEFINE n == Len(archivos_fs)
             f == [j \in 1..n |-> archivos_fs[j].nombre]
  <1>1. n \in Nat /\ DOMAIN archivos_fs = 1..n /\ \A j \in 1..n : archivos_fs[j] \in Entradas
    BY TiposDeDial DEF DialInv
  <1>2. \A j \in 1..n : archivos_fs[j].nombre \in Presentes
    BY <1>1, TiposDeEntrada DEF Fieles, Presentes, Existe
  <1>3. f \in [1..n -> Presentes]
    BY <1>2
  <1>4. f \in Injection(1..n, Presentes)
    BY <1>3 DEF Injection, IsInjective, Fieles
  <1>5. f \in Surjection(1..n, Presentes)
    BY <1>3 DEF Surjection, Fieles, Presentes, Existe
  <1>6. f \in Bijection(1..n, Presentes)
    BY <1>4, <1>5 DEF Bijection
  <1> HIDE DEF f
  <1>7. n = Cardinality(Presentes)
    <2> HIDE DEF n
    <2>1. IsFiniteSet(1..n) /\ Cardinality(1..n) = n
      BY <1>1, FS_Interval
    <2>2. ExistsBijection(1..n, Presentes)
      BY <1>6 DEF ExistsBijection
    <2> QED BY <2>1, <2>2, FS_Bijection
  <1>8. ASSUME NEW a \in Presentes PROVE Ficha(meta, a) \in ToSet(archivos_fs)
    <2>1. PICK j \in 1..n : archivos_fs[j].nombre = a
      BY DEF Fieles, Presentes, Existe
    <2>2. /\ archivos_fs[j].inicial = meta[a].inicial /\ archivos_fs[j].tamanio = meta[a].tamanio
          /\ archivos_fs[j] \in Entradas
      BY <1>1, <2>1 DEF Fieles
    <2>3. archivos_fs[j] = Ficha(meta, a)
      BY <2>1, <2>2 DEF Entradas, Ficha
    <2> QED BY <1>1, <2>3 DEF ToSet
  <1> QED BY <1>7, <1>8 DEF ListaFiel, Ficha

LEMMA SanoEsPorLista ==
    ASSUME DialInv
    PROVE  Sano <=> SanoPorLista
  <1> DEFINE n == Len(archivos_fs)
  <1>1. ListaFiel <=> Fieles(meta, archivos_fs, n)
    BY FielesPorCuenta, CuentaPorFieles
  <1>2. \A j \in 1..n : archivos_fs[j] \in Entradas
    BY TiposDeDial DEF DialInv
  <1> SUFFICES ASSUME Fieles(meta, archivos_fs, n)
               PROVE  Sano <=> SanoPorLista
    BY <1>1 DEF Sano, SanoPorLista, SanoCon
  <1>3. \A j \in 1..n : /\ archivos_fs[j].nombre \in Presentes
                        /\ Ocupa(archivos_fs[j]) = Ocupa(meta[archivos_fs[j].nombre])
    BY <1>2, TiposDeEntrada DEF Fieles, Presentes, Existe, Ocupa
  <1>4. \A a \in Presentes : \E j \in 1..n : archivos_fs[j].nombre = a
    BY DEF Fieles, Presentes, Existe
  <1>5. \A i, j \in 1..n : archivos_fs[i].nombre = archivos_fs[j].nombre => i = j
    BY DEF Fieles
  <1> DEFINE O(x) == Ocupa(meta[x])
  <1>6. (\A a \in Presentes : Ocupa(meta[a]) \subseteq Disco)
        <=> \A j \in 1..n : Ocupa(archivos_fs[j]) \subseteq Disco
    BY <1>3, <1>4
  <1>7. Disjuntos <=> \A i, j \in 1..n : i # j => Ocupa(archivos_fs[i]) \cap Ocupa(archivos_fs[j]) = {}
    <2>1. ASSUME Disjuntos, NEW i \in 1..n, NEW j \in 1..n, i # j
          PROVE  Ocupa(archivos_fs[i]) \cap Ocupa(archivos_fs[j]) = {}
      <3>1. archivos_fs[i].nombre # archivos_fs[j].nombre
        BY <1>5, <2>1
      <3> QED BY <1>3, <2>1, <3>1 DEF Disjuntos
    <2>2. ASSUME \A i, j \in 1..n : i # j => Ocupa(archivos_fs[i]) \cap Ocupa(archivos_fs[j]) = {},
                 NEW a \in Presentes, NEW b \in Presentes, a # b
          PROVE  Ocupa(meta[a]) \cap Ocupa(meta[b]) = {}
      <3>1. PICK i \in 1..n : archivos_fs[i].nombre = a
        BY <1>4
      <3>2. PICK j \in 1..n : archivos_fs[j].nombre = b
        BY <1>4
      <3>3. i # j
        BY <2>2, <3>1, <3>2
      <3> QED BY <1>3, <2>2, <3>1, <3>2, <3>3
    <2> QED BY <2>1, <2>2 DEF Disjuntos
  <1>8. ASSUME \A j \in 1..n : Ocupa(archivos_fs[j]) \subseteq Disco
        PROVE  BitmapExacto <=> Marca(bit, archivos_fs, n)
    <2>1. \A x : x \in UNION {Ocupa(meta[a]) : a \in Presentes} <=> \E j \in 1..n : x \in Ocupa(archivos_fs[j])
      BY <1>3, <1>4
    <2>2. \A x : (\E j \in 1..n : x \in Ocupa(archivos_fs[j])) => x \in Bits
      BY <1>8, DiscoEnBits
    <2>3. BitmapExacto <=> \A x : (x \in Bits /\ bit[x]) <=> \E j \in 1..n : x \in Ocupa(archivos_fs[j])
      BY <2>1 DEF BitmapExacto
    <2> QED BY <2>2, <2>3 DEF Marca
  <1> QED BY <1>1, <1>6, <1>7, <1>8 DEF Sano, SanoPorLista, SanoCon, Apartados

-----------------------------------------------------------------------------
(* Places and sizes.                                                       *)

LEMMA CocienteMonotono ==
    ASSUME NEW a \in Nat, NEW b \in Nat, a <= b, NEW d \in Nat \ {0}
    PROVE  a \div d <= b \div d
  OBVIOUS

LEMMA TechoMonotono ==
    ASSUME NEW t \in Nat, NEW u \in Nat, t <= u
    PROVE  /\ Techo(t) <= Techo(u) /\ BloquesNecesarios(t) <= BloquesNecesarios(u)
           /\ Techo(t) <= BloquesNecesarios(t)
  <1>1. t + TamBloque - 1 \in Nat /\ u + TamBloque - 1 \in Nat /\ t + TamBloque - 1 <= u + TamBloque - 1
    BY TamBloqueAssumption
  <1>2. Techo(t) <= Techo(u)
    BY <1>1, TamBloqueAssumption, CocienteMonotono DEF Techo
  <1>3. BloquesNecesarios(t) <= BloquesNecesarios(u)
    <2>1. CASE u = 0
      <3>1. t = 0
        BY <2>1
      <3> QED BY <2>1, <3>1, TiposDeTecho
    <2>2. CASE u # 0
      <3>1. Techo(u) >= 1 /\ BloquesNecesarios(u) = Techo(u) /\ Techo(u) \in Nat
        BY <2>2, TiposDeTecho
      <3> QED BY <1>2, <3>1 DEF BloquesNecesarios
    <2> QED BY <2>1, <2>2
  <1>4. Techo(t) <= BloquesNecesarios(t)
    BY TiposDeTecho DEF BloquesNecesarios
  <1> QED BY <1>2, <1>3, <1>4

(* The blocks of an entry, or of a record.                                 *)
Fin(e) == e.inicial + BloquesNecesarios(e.tamanio)

LEMMA LoQueOcupa ==
    ASSUME NEW e \in Entradas
    PROVE  /\ Fin(e) \in Int /\ e.inicial < Fin(e) /\ e.inicial \in Int
           /\ \A x : x \in Ocupa(e) <=> x \in Int /\ e.inicial <= x /\ x < Fin(e)
           /\ Ocupa(e) = Desde(e.inicial, BloquesNecesarios(e.tamanio))
  <1>1. e.inicial \in Int /\ BloquesNecesarios(e.tamanio) \in Nat \ {0}
    BY TiposDeEntrada
  <1> QED BY <1>1 DEF Fin, Ocupa, Desde

LEMMA LoQueOcupaDesde ==
    ASSUME NEW inicio \in Int, NEW m \in Nat
    PROVE  \A x : x \in Desde(inicio, m) <=> x \in Int /\ inicio <= x /\ x < inicio + m
  BY DEF Desde

(* Where the first m blocks that are free in a row are, when those before  *)
(* them are taken.                                                         *)
LEMMA ElLugar ==
    ASSUME NEW b, NEW m \in Nat \ {0}, NEW U \in Nat, U + m <= NBloques,
           \A x \in Nat : x < U => b[x],
           \A x \in Nat : U <= x /\ x < U + m => ~b[x]
    PROVE  PrimerLugar(b, m) = U
  <1> DEFINE lugar == PrimerLugar(b, m)
  <1>1. \A x : x \in Disco <=> x \in Int /\ 0 <= x /\ x < NBloques
    BY NBloquesAssumption DEF Disco
  <1>2. \A x : x \in Desde(U, m) <=> x \in Int /\ U <= x /\ x < U + m
    BY LoQueOcupaDesde
  <1>3. U \in LugaresLibres(b, m)
    BY <1>1, <1>2, NBloquesAssumption DEF LugaresLibres
  <1>4. lugar \in LugaresLibres(b, m) /\ lugar <= U
    BY <1>3, EnElDisco
  <1> HIDE DEF lugar
  <1>5. lugar \in Nat /\ lugar \in Desde(lugar, m)
    <2>1. lugar \in Disco
      BY <1>4 DEF LugaresLibres
    <2> QED BY <1>1, <2>1, LoQueOcupaDesde
  <1>6. ~b[lugar]
    BY <1>4, <1>5 DEF LugaresLibres
  <1>7. ~(lugar < U)
    BY <1>5, <1>6
  <1> QED BY <1>4, <1>5, <1>7 DEF lugar

(* The files of a sound disk, in the order of their first blocks.          *)
Fila(l, n) ==
    /\ \A j \in 1..n : 0 <= l[j].inicial /\ Fin(l[j]) <= NBloques
    /\ \A i, j \in 1..n : i < j => Fin(l[i]) <= l[j].inicial

LEMMA EnFila ==
    ASSUME NEW n \in Nat, NEW l \in [1..n -> Entradas], Apartados(l, n),
           \A i, j \in 1..n : i < j => l[i].inicial <= l[j].inicial
    PROVE  Fila(l, n)
  <1>1. \A x : x \in Disco <=> x \in Int /\ 0 <= x /\ x < NBloques
    BY NBloquesAssumption DEF Disco
  <1>2. ASSUME NEW j \in 1..n PROVE 0 <= l[j].inicial /\ Fin(l[j]) <= NBloques
    <2>1. l[j] \in Entradas /\ Ocupa(l[j]) \subseteq Disco
      BY DEF Apartados
    <2>2. l[j].inicial \in Ocupa(l[j]) /\ Fin(l[j]) - 1 \in Ocupa(l[j])
      BY <2>1, LoQueOcupa
    <2>3. Fin(l[j]) \in Int
      BY <2>1, LoQueOcupa
    <2> QED BY <1>1, <2>1, <2>2, <2>3, NBloquesAssumption
  <1>3. ASSUME NEW i \in 1..n, NEW j \in 1..n, i < j PROVE Fin(l[i]) <= l[j].inicial
    <2>1. l[i] \in Entradas /\ l[j] \in Entradas /\ l[i].inicial <= l[j].inicial /\ i # j
      BY <1>3
    <2>2. Ocupa(l[i]) \cap Ocupa(l[j]) = {}
      BY <2>1 DEF Apartados
    <2>3. l[j].inicial \in Ocupa(l[j]) /\ l[j].inicial \in Int /\ Fin(l[i]) \in Int
      BY <2>1, LoQueOcupa
    <2>4. ~(l[j].inicial < Fin(l[i]))
      BY <2>1, <2>2, <2>3, LoQueOcupa
    <2> QED BY <2>3, <2>4
  <1> QED BY <1>2, <1>3 DEF Fila

-----------------------------------------------------------------------------
(* The compaction of a sound disk.  After k turns the files that were      *)
(* moved fill the blocks before U, and the rest is where it was, from U on.*)
(* l is the list in order, p the entry that was set aside, bl the blocks   *)
(* as they were, K the number of blocks that are taken.                    *)

Tomados(b) == {x \in Disco : b[x]}

PListas(v, k, l, n, p) ==
    \A j \in 1..n : /\ v.lista[j].nombre = l[j].nombre /\ v.lista[j].tamanio = l[j].tamanio
                    /\ j > k \/ j = p => v.lista[j] = l[j]
PBits(v, k, U, l, n, p) ==
    \A x \in Bits : v.bit[x] <=> x < U \/ \E j \in 1..n : j > k /\ j # p /\ x \in Ocupa(l[j])
PResto(k, U, l, n, p) ==
    \A j \in 1..n : j > k /\ j # p => U <= l[j].inicial
PJuntos(v, k, U, n, p) ==
    /\ \A j \in 1..n : j <= k /\ j # p => 0 <= v.lista[j].inicial /\ Fin(v.lista[j]) <= U
    /\ \A i, j \in 1..n : i <= k /\ i # p /\ j <= k /\ j # p /\ i # j =>
          Ocupa(v.lista[i]) \cap Ocupa(v.lista[j]) = {}
    /\ \A x \in Nat : x < U => \E j \in 1..n : j <= k /\ j # p /\ x \in Ocupa(v.lista[j])
PDatos(v, k, l, n, p, bl) ==
    /\ \A j \in 1..n : j <= k /\ j # p => \A q \in Nat : q < BloquesNecesarios(l[j].tamanio) =>
          v.bloques[v.lista[j].inicial + q] = bl[l[j].inicial + q]
    /\ \A j \in 1..n : j > k /\ j # p => \A x \in Ocupa(l[j]) : v.bloques[x] = bl[x]

Parte(v, k, U, l, n, p, bl, K) ==
    /\ U \in Nat /\ U <= NBloques
    /\ PListas(v, k, l, n, p) /\ Fieles(v.meta, v.lista, n)
    /\ PBits(v, k, U, l, n, p) /\ PResto(k, U, l, n, p)
    /\ PJuntos(v, k, U, n, p) /\ PDatos(v, k, l, n, p, bl)
    /\ Cardinality(Tomados(v.bit)) = K

(* A file is moved to the first block after the ones moved before it.      *)
Mudado(v, w, k, e, m, U) ==
    /\ m \in Nat \ {0} /\ U + m <= Fin(e) /\ U <= e.inicial
    /\ \A x \in Bits : w.bit[x] <=> (v.bit[x] /\ x \notin Ocupa(e)) \/ (U <= x /\ x < U + m)
    /\ \A x \in Disco : w.bloques[x] = IF U <= x /\ x < U + m THEN v.bloques[e.inicial + (x - U)]
                                       ELSE v.bloques[x]
    /\ w.meta = [v.meta EXCEPT ![e.nombre].inicial = U]
    /\ w.lista = [v.lista EXCEPT ![k].inicial = U]

LEMMA Mudanza ==
    ASSUME NEW n \in Nat, NEW l \in [1..n -> Entradas], Fila(l, n), NEW p \in 1..n,
           NEW v \in Discos(n), NEW k \in 1..n, k # p, NEW U \in Nat,
           PListas(v, k - 1, l, n, p), PBits(v, k - 1, U, l, n, p), PResto(k - 1, U, l, n, p),
           NEW e, e = l[k], NEW m, m = BloquesNecesarios(e.tamanio), NEW w, w = Mudar(v, k)
    PROVE  Mudado(v, w, k, e, m, U)
  <1>1. e \in Entradas /\ m \in Nat \ {0} /\ e.inicial \in Int
    BY TiposDeEntrada
  <1>2. v.lista[k] = e
    BY DEF PListas
  <1>3. U <= e.inicial
    BY DEF PResto
  <1>4. Fin(e) = e.inicial + m /\ Fin(e) <= NBloques
    BY DEF Fin, Fila
  <1>5. U + m <= Fin(e) /\ U + m <= NBloques
    BY <1>1, <1>3, <1>4, NBloquesAssumption
  <1>6. \A x : x \in Disco <=> x \in Int /\ 0 <= x /\ x < NBloques
    BY NBloquesAssumption DEF Disco
  <1>7. \A x \in Nat : x < U + m => x \in Bits /\ x \in Disco
    BY <1>1, <1>5, <1>6, DiscoEnBits, NBloquesAssumption
  <1>8. /\ \A x : x \in Ocupa(e) <=> x \in Int /\ e.inicial <= x /\ x < Fin(e)
        /\ Ocupa(e) = Desde(e.inicial, m)
    BY <1>1, LoQueOcupa
  <1> DEFINE libre == SinEl(v, e)
  <1>9. \A x \in Bits : libre[x] <=> v.bit[x] /\ x \notin Ocupa(e)
    BY <1>8 DEF SinEl, Liberados
  <1> HIDE DEF libre
  <1>10. \A x \in Nat : x < U => libre[x]
    <2> TAKE x \in Nat
    <2> HAVE x < U
    <2>1. x \in Bits /\ x \notin Ocupa(e)
      BY <1>1, <1>3, <1>7, <1>8
    <2>2. v.bit[x]
      BY <2>1 DEF PBits
    <2> QED BY <1>9, <2>1, <2>2
  <1>11. \A x \in Nat : U <= x /\ x < U + m => ~libre[x]
    <2> SUFFICES ASSUME NEW x \in Nat, U <= x, x < U + m, libre[x] PROVE FALSE
      OBVIOUS
    <2>1. x \in Bits /\ v.bit[x] /\ x \notin Ocupa(e)
      BY <1>7, <1>9
    <2>2. PICK j \in 1..n : j > k - 1 /\ j # p /\ x \in Ocupa(l[j])
      BY <2>1 DEF PBits
    <2>3. j > k
      BY <2>1, <2>2
    <2>4. Fin(e) <= l[j].inicial
      BY <2>3 DEF Fila
    <2>5. l[j].inicial <= x /\ l[j].inicial \in Int /\ Fin(e) \in Int
      BY <1>1, <2>2, LoQueOcupa
    <2> QED BY <1>1, <1>5, <2>4, <2>5
  <1>12. PrimerLugar(libre, m) = U
    BY <1>1, <1>5, <1>10, <1>11, ElLugar
  <1>13. LugarDe(v, e) = U /\ U # -1
    BY <1>12 DEF LugarDe, libre
  <1> DEFINE c == LeerBloques(v.bloques, e.inicial, m)
  <1>14. w = [bit     |-> Marcados(libre, Desde(U, m)),
              bloques |-> EscribirBloques(v.bloques, U, Relleno(c, m)),
              meta    |-> [v.meta EXCEPT ![e.nombre].inicial = U],
              lista   |-> [v.lista EXCEPT ![k].inicial = U]]
    <2>1. Mudar(v, k) =
             [bit     |-> IF U = -1 THEN SinEl(v, e) ELSE Marcados(SinEl(v, e), Desde(U, m)),
              bloques |-> IF U = -1 THEN v.bloques
                          ELSE EscribirBloques(v.bloques, U, Relleno(LeerBloques(v.bloques, e.inicial, m), m)),
              meta    |-> [v.meta EXCEPT ![e.nombre].inicial = U],
              lista   |-> [v.lista EXCEPT ![k].inicial = U]]
      BY <1>2, <1>13, FormaDeMudar
    <2> QED BY <1>13, <2>1 DEF libre
  <1>15. /\ w.bit = Marcados(libre, Desde(U, m)) /\ w.bloques = EscribirBloques(v.bloques, U, Relleno(c, m))
         /\ w.meta = [v.meta EXCEPT ![e.nombre].inicial = U] /\ w.lista = [v.lista EXCEPT ![k].inicial = U]
    BY <1>14
  <1>16. \A x : x \in Desde(U, m) <=> x \in Int /\ U <= x /\ x < U + m
    BY <1>1, LoQueOcupaDesde
  <1>17. ASSUME NEW x \in Bits
         PROVE  w.bit[x] <=> (v.bit[x] /\ x \notin Ocupa(e)) \/ (U <= x /\ x < U + m)
    <2>1. x \in Int
      BY DiscoEnBits
    <2>2. w.bit[x] <=> libre[x] \/ x \in Desde(U, m)
      BY <1>15 DEF Marcados
    <2> QED BY <1>9, <1>16, <2>1, <2>2
  <1>18. v.bloques \in [Disco -> Contenidos]
    BY DEF Discos
  <1>19. c \in Seq(Contenidos) /\ Len(c) = m /\ \A q \in 1..m : c[q] = v.bloques[e.inicial + q - 1]
    <2>1. c \in Seq(Contenidos) /\ Len(c) = m
      BY <1>1, <1>18, LoLeido
    <2>2. ASSUME NEW q \in 1..m PROVE c[q] = v.bloques[e.inicial + q - 1]
      <3> DEFINE i0 == e.inicial
                 x0 == i0 + q - 1
      <3>0. /\ i0 \in Int /\ U <= i0 /\ U >= 0 /\ i0 + m <= NBloques
            /\ q \in Int /\ q >= 1 /\ q <= m /\ m \in Int /\ NBloques \in Int
        BY <1>1, <1>3, <1>4, NBloquesAssumption
      <3> HIDE DEF i0
      <3>1. x0 \in Int /\ 0 <= x0 /\ x0 < NBloques
        BY <3>0
      <3>2. x0 \in Disco
        <4> HIDE DEF x0
        <4> QED BY <1>6, <3>1
      <3> USE DEF i0
      <3> QED BY <3>2 DEF LeerBloques
    <2> QED BY <2>1, <2>2
  <1> HIDE DEF c
  <1>20. Len(Relleno(c, m)) = m /\ \A q \in 1..m : Relleno(c, m)[q] = c[q]
    <2>1. Len(Relleno(c, m)) = m
      BY <1>1, <1>19, TiposDelRelleno
    <2>2. \A q \in 1..m : Relleno(c, m)[q] = c[q]
      BY <1>1, <1>19 DEF Relleno
    <2> QED BY <2>1, <2>2
  <1>21. ASSUME NEW x \in Disco
         PROVE  w.bloques[x] = IF U <= x /\ x < U + m THEN v.bloques[e.inicial + (x - U)] ELSE v.bloques[x]
    <2>1. w.bloques[x] = IF x \in Desde(U, m) THEN Relleno(c, m)[x - U + 1] ELSE v.bloques[x]
      BY <1>15, <1>20 DEF EscribirBloques
    <2>2. x \in Int
      BY <1>6
    <2>3. ASSUME U <= x, x < U + m PROVE Relleno(c, m)[x - U + 1] = v.bloques[e.inicial + (x - U)]
      <3>1. x - U + 1 \in 1..m /\ e.inicial + (x - U + 1) - 1 = e.inicial + (x - U)
        BY <1>1, <2>2, <2>3
      <3>2. c[x - U + 1] = v.bloques[e.inicial + (x - U + 1) - 1]
        BY <1>19, <3>1
      <3> QED BY <1>20, <3>1, <3>2
    <2> QED BY <1>16, <2>1, <2>2, <2>3
  <1> QED BY <1>1, <1>3, <1>5, <1>15, <1>17, <1>21 DEF Mudado

(* Counting blocks.                                                        *)
LEMMA CuentaDesde ==
    ASSUME NEW inicio \in Int, NEW m \in Nat
    PROVE  IsFiniteSet(Desde(inicio, m)) /\ Cardinality(Desde(inicio, m)) = m
  <1> DEFINE fin == inicio + m - 1
  <1>1. fin \in Int /\ Desde(inicio, m) = inicio..fin
    BY DEF Desde
  <1>2. (inicio > fin <=> m = 0) /\ fin - inicio + 1 = m
    OBVIOUS
  <1> HIDE DEF fin
  <1>3. IsFiniteSet(inicio..fin) /\ Cardinality(inicio..fin) = IF inicio > fin THEN 0 ELSE fin - inicio + 1
    BY <1>1, FS_Interval
  <1> QED BY <1>1, <1>2, <1>3

LEMMA CuentaSinPisar ==
    ASSUME NEW S, IsFiniteSet(S), NEW A \in SUBSET S
    PROVE  /\ IsFiniteSet(S \ A) /\ IsFiniteSet(A)
           /\ Cardinality(S) \in Nat /\ Cardinality(A) \in Nat
           /\ Cardinality(S \ A) = Cardinality(S) - Cardinality(A)
           /\ Cardinality(A) <= Cardinality(S)
  <1>1. IsFiniteSet(S \ A) /\ IsFiniteSet(A)
    BY FS_Subset
  <1>2. S \cap A = A
    OBVIOUS
  <1>3. Cardinality(S \ A) = Cardinality(S) - Cardinality(S \cap A)
    BY FS_Difference
  <1>4. Cardinality(S \ A) = Cardinality(S) - Cardinality(A)
    BY <1>2, <1>3
  <1>5. Cardinality(A) \in Nat /\ Cardinality(S) \in Nat
    BY <1>1, FS_CardinalityType
  <1> QED BY <1>1, <1>4, <1>5, FS_Subset

LEMMA CuentaJuntos ==
    ASSUME NEW S, IsFiniteSet(S), NEW B, IsFiniteSet(B), S \cap B = {}
    PROVE  IsFiniteSet(S \cup B) /\ Cardinality(S \cup B) = Cardinality(S) + Cardinality(B)
  <1>1. IsFiniteSet(S \cup B) /\ Cardinality(S \cup B) = Cardinality(S) + Cardinality(B) - Cardinality(S \cap B)
    BY FS_Union
  <1>2. Cardinality(S) \in Nat /\ Cardinality(B) \in Nat /\ Cardinality({}) = 0
    BY FS_CardinalityType, FS_EmptySet
  <1>3. Cardinality(S \cap B) = 0
    BY <1>2
  <1> DEFINE s == Cardinality(S)
             b == Cardinality(B)
  <1>4. s \in Nat /\ b \in Nat /\ Cardinality(S \cup B) = s + b - 0
    BY <1>1, <1>2, <1>3
  <1> HIDE DEF s, b
  <1>5. Cardinality(S \cup B) = s + b
    BY <1>4
  <1> QED BY <1>1, <1>5 DEF s, b

LEMMA DiscoFinito == IsFiniteSet(Disco) /\ Cardinality(Disco) = NBloques
  <1>1. Disco = Desde(0, NBloques)
    BY NBloquesAssumption DEF Disco, Desde
  <1> QED BY <1>1, CuentaDesde, NBloquesAssumption

(* What is said of the files after the turn of the k-th.                   *)
LEMMA TrasMudar ==
    ASSUME NEW n \in Nat, NEW l \in [1..n -> Entradas], Fila(l, n), NEW p \in 1..n,
           NEW v \in Discos(n), NEW k \in 1..n, k # p, NEW U, NEW bl, NEW K,
           Parte(v, k - 1, U, l, n, p, bl, K)
    PROVE  \E V : Parte(Mudar(v, k), k, V, l, n, p, bl, K)
  <1> PICK e : e = l[k]
    OBVIOUS
  <1> PICK m : m = BloquesNecesarios(e.tamanio)
    OBVIOUS
  <1> PICK w : w = Mudar(v, k)
    OBVIOUS
  <1> PICK V : V = U + m
    OBVIOUS
  <1>1. /\ U \in Nat /\ U <= NBloques /\ PListas(v, k - 1, l, n, p) /\ Fieles(v.meta, v.lista, n)
        /\ PBits(v, k - 1, U, l, n, p) /\ PResto(k - 1, U, l, n, p) /\ PJuntos(v, k - 1, U, n, p)
        /\ PDatos(v, k - 1, l, n, p, bl) /\ Cardinality(Tomados(v.bit)) = K
    BY DEF Parte
  <1>2. /\ m \in Nat \ {0} /\ U + m <= Fin(e) /\ U <= e.inicial
        /\ \A x \in Bits : w.bit[x] <=> (v.bit[x] /\ x \notin Ocupa(e)) \/ (U <= x /\ x < U + m)
        /\ \A x \in Disco : w.bloques[x] = IF U <= x /\ x < U + m THEN v.bloques[e.inicial + (x - U)]
                                           ELSE v.bloques[x]
        /\ w.meta = [v.meta EXCEPT ![e.nombre].inicial = U]
        /\ w.lista = [v.lista EXCEPT ![k].inicial = U]
    <2>1. Mudado(v, w, k, e, m, U)
      BY <1>1, Mudanza
    <2> QED BY <2>1 DEF Mudado
  <1>3. /\ e \in Entradas /\ e.inicial \in Int /\ Fin(e) \in Int /\ Fin(e) = e.inicial + m
        /\ \A x : x \in Ocupa(e) <=> x \in Int /\ e.inicial <= x /\ x < Fin(e)
    <2>1. e \in Entradas
      OBVIOUS
    <2> QED BY <2>1, LoQueOcupa DEF Fin
  <1>4. Fin(e) <= NBloques /\ \A j \in 1..n : j > k => Fin(e) <= l[j].inicial
    BY DEF Fila
  <1>5. V \in Nat /\ V <= NBloques /\ V <= Fin(e) /\ U <= V /\ U < V
    BY <1>1, <1>2, <1>3, <1>4, NBloquesAssumption
  <1>6. \A x : x \in Disco <=> x \in Int /\ 0 <= x /\ x < NBloques
    BY NBloquesAssumption DEF Disco
  <1>7. /\ v.lista \in [1..n -> Entradas] /\ v.meta \in Metas /\ v.bit \in Mapas
    BY DEF Discos
  <1>8. v.lista[k] = e
    BY <1>1 DEF PListas
  <1>9. /\ w.lista[k] \in Entradas /\ w.lista[k].nombre = e.nombre /\ w.lista[k].tamanio = e.tamanio /\ w.lista[k].inicial = U
        /\ \A j \in 1..n : j # k => w.lista[j] = v.lista[j]
    <2> DEFINE x == [e EXCEPT !.inicial = U]
    <2>1. U \in Disco
      BY <1>1, <1>5, <1>6, NBloquesAssumption
    <2>2. x \in Entradas /\ x.nombre = e.nombre /\ x.tamanio = e.tamanio /\ x.inicial = U
      BY <1>3, <2>1 DEF Entradas
    <2>3. w.lista = [v.lista EXCEPT ![k] = x]
      BY <1>2, <1>8
    <2> HIDE DEF x
    <2>4. w.lista[k] = x /\ \A j \in 1..n : j # k => w.lista[j] = v.lista[j]
      BY <1>7, <2>3
    <2> QED BY <2>2, <2>4
  <1>10. /\ w.meta[e.nombre] # NoHay /\ w.meta[e.nombre].inicial = U /\ w.meta[e.nombre].tamanio = e.tamanio
         /\ \A a \in Archivos : a # e.nombre => w.meta[a] = v.meta[a]
    <2> DEFINE x == [v.meta[e.nombre] EXCEPT !.inicial = U]
    <2>1. e.nombre \in Archivos /\ U \in Disco
      <3>1. e.nombre \in Archivos
        BY <1>3, TiposDeEntrada
      <3>2. U \in Int /\ 0 <= U /\ U < NBloques
        BY <1>1, <1>5, NBloquesAssumption
      <3> QED BY <1>6, <3>1, <3>2
    <2>2. v.meta[e.nombre] # NoHay /\ v.meta[e.nombre].tamanio = e.tamanio
      BY <1>1, <1>8 DEF Fieles
    <2>3. v.meta[e.nombre] \in Registro
      BY <1>7, <2>1, <2>2 DEF Metas
    <2>4. x \in Registro /\ x.inicial = U /\ x.tamanio = e.tamanio
      BY <2>1, <2>2, <2>3 DEF Registro
    <2>5. w.meta = [v.meta EXCEPT ![e.nombre] = x]
      BY <1>2
    <2> HIDE DEF x
    <2>6. w.meta[e.nombre] = x /\ \A a \in Archivos : a # e.nombre => w.meta[a] = v.meta[a]
      BY <1>7, <2>1, <2>5 DEF Metas
    <2> QED BY <2>4, <2>6, NoHayNoEsRegistro
  <1>11. Fin(w.lista[k]) = V /\ \A x : x \in Ocupa(w.lista[k]) <=> x \in Int /\ U <= x /\ x < V
    <2>1. Fin(w.lista[k]) = U + m
      BY <1>9 DEF Fin
    <2> QED BY <1>9, <2>1, LoQueOcupa
  <1>12. PListas(w, k, l, n, p)
    BY <1>1, <1>9 DEF PListas
  <1>13. Fieles(w.meta, w.lista, n)
    <2>1. \A j \in 1..n : w.lista[j].nombre = v.lista[j].nombre /\ v.lista[j].nombre \in Archivos
      <3> TAKE j \in 1..n
      <3>1. v.lista[j] \in Entradas
        BY <1>7
      <3> QED BY <1>8, <1>9, <3>1, TiposDeEntrada
    <2>2. ASSUME NEW j \in 1..n
          PROVE  /\ w.meta[w.lista[j].nombre] # NoHay
                 /\ w.meta[w.lista[j].nombre].inicial = w.lista[j].inicial
                 /\ w.meta[w.lista[j].nombre].tamanio = w.lista[j].tamanio
      <3>1. CASE j = k
        BY <1>9, <1>10, <3>1
      <3>2. CASE j # k
        <4>1. w.lista[j] = v.lista[j] /\ v.lista[j].nombre # e.nombre
          BY <1>1, <1>8, <1>9, <3>2 DEF Fieles
        <4>2. w.meta[v.lista[j].nombre] = v.meta[v.lista[j].nombre]
          BY <1>10, <2>1, <4>1
        <4> QED BY <1>1, <4>1, <4>2 DEF Fieles
      <3> QED BY <3>1, <3>2
    <2>3. \A i, j \in 1..n : w.lista[i].nombre = w.lista[j].nombre => i = j
      BY <1>1, <2>1 DEF Fieles
    <2>4. ASSUME NEW a \in Archivos, w.meta[a] # NoHay PROVE \E j \in 1..n : w.lista[j].nombre = a
      <3>1. CASE a = e.nombre
        BY <1>9, <3>1
      <3>2. CASE a # e.nombre
        <4>1. v.meta[a] # NoHay
          BY <1>10, <2>4, <3>2
        <4>2. PICK j \in 1..n : v.lista[j].nombre = a
          BY <1>1, <4>1 DEF Fieles
        <4> QED BY <2>1, <4>2
      <3> QED BY <3>1, <3>2
    <2> QED BY <2>2, <2>3, <2>4 DEF Fieles
  <1>14. PResto(k, V, l, n, p)
    <2> SUFFICES ASSUME NEW j \in 1..n, j > k, j # p PROVE V <= l[j].inicial
      BY DEF PResto
    <2>1. l[j] \in Entradas /\ l[j].inicial \in Int
      BY TiposDeEntrada
    <2> QED BY <1>3, <1>4, <1>5, <2>1
  <1>15. PBits(w, k, V, l, n, p)
    <2> SUFFICES ASSUME NEW x \in Bits
                 PROVE  w.bit[x] <=> x < V \/ \E j \in 1..n : j > k /\ j # p /\ x \in Ocupa(l[j])
      BY DEF PBits
    <2> DEFINE Sigue == \E j \in 1..n : j > k /\ j # p /\ x \in Ocupa(l[j])
    <2>1. x \in Int /\ x \in Nat
      BY DiscoEnBits
    <2>2. v.bit[x] <=> x < U \/ x \in Ocupa(e) \/ Sigue
      <3>1. v.bit[x] <=> x < U \/ \E j \in 1..n : j > k - 1 /\ j # p /\ x \in Ocupa(l[j])
        BY <1>1 DEF PBits
      <3>2. \A j \in 1..n : j > k - 1 <=> j = k \/ j > k
        OBVIOUS
      <3> QED BY <3>1, <3>2
    <2>3. Sigue => x \notin Ocupa(e) /\ x >= V
      <3> SUFFICES ASSUME NEW j \in 1..n, j > k, x \in Ocupa(l[j]) PROVE x \notin Ocupa(e) /\ x >= V
        OBVIOUS
      <3>1. l[j].inicial <= x /\ l[j].inicial \in Int /\ Fin(e) <= l[j].inicial
        BY <1>4, LoQueOcupa
      <3> QED BY <1>3, <1>5, <2>1, <3>1
    <2>4. x < U => x \notin Ocupa(e)
      BY <1>1, <1>2, <1>3, <2>1
    <2>5. w.bit[x] <=> (v.bit[x] /\ x \notin Ocupa(e)) \/ (U <= x /\ x < V)
      BY <1>2
    <2>6. x < V <=> x < U \/ (U <= x /\ x < V)
      BY <1>1, <1>5, <2>1
    <2> HIDE DEF Sigue
    <2>7. w.bit[x] <=> x < V \/ Sigue
      BY <2>2, <2>3, <2>4, <2>5, <2>6
    <2> QED BY <2>7 DEF Sigue
  <1>16. PJuntos(w, k, V, n, p)
    <2>1. ASSUME NEW j \in 1..n, j <= k, j # p
          PROVE  /\ w.lista[j] \in Entradas /\ w.lista[j].inicial \in Int /\ Fin(w.lista[j]) \in Int
                 /\ 0 <= w.lista[j].inicial /\ Fin(w.lista[j]) <= V
                 /\ j # k => w.lista[j] = v.lista[j] /\ j <= k - 1 /\ Fin(w.lista[j]) <= U
      <3>1. CASE j = k
        BY <1>1, <1>5, <1>9, <1>11, <3>1
      <3>2. CASE j # k
        <4>1. w.lista[j] = v.lista[j] /\ j <= k - 1 /\ v.lista[j] \in Entradas
          BY <1>7, <1>9, <2>1, <3>2
        <4>2. 0 <= v.lista[j].inicial /\ Fin(v.lista[j]) <= U
          BY <1>1, <2>1, <4>1 DEF PJuntos
        <4>3. v.lista[j].inicial \in Int /\ Fin(v.lista[j]) \in Int
          BY <4>1, LoQueOcupa
        <4>4. Fin(v.lista[j]) <= V
          BY <1>1, <1>5, <4>2, <4>3
        <4> QED BY <3>2, <4>1, <4>2, <4>3, <4>4
      <3> QED BY <3>1, <3>2
    <2>2. ASSUME NEW j \in 1..n, j <= k, j # p, j # k PROVE Ocupa(w.lista[j]) \cap Ocupa(w.lista[k]) = {}
      <3>1. w.lista[j] \in Entradas /\ Fin(w.lista[j]) <= U /\ Fin(w.lista[j]) \in Int
        BY <2>1, <2>2
      <3>2. \A x \in Ocupa(w.lista[j]) : x \in Int /\ x < U
        BY <1>1, <3>1, LoQueOcupa
      <3> QED BY <1>1, <1>11, <3>2
    <2>3. ASSUME NEW i \in 1..n, NEW j \in 1..n, i <= k, i # p, j <= k, j # p, i # j
          PROVE  Ocupa(w.lista[i]) \cap Ocupa(w.lista[j]) = {}
      <3>1. CASE i = k
        BY <2>2, <2>3, <3>1
      <3>2. CASE j = k
        BY <2>2, <2>3, <3>2
      <3>3. CASE i # k /\ j # k
        <4>1. i <= k - 1 /\ j <= k - 1 /\ w.lista[i] = v.lista[i] /\ w.lista[j] = v.lista[j]
          BY <2>1, <2>3, <3>3
        <4> QED BY <1>1, <2>3, <4>1 DEF PJuntos
      <3> QED BY <3>1, <3>2, <3>3
    <2>4. ASSUME NEW x \in Nat, x < V PROVE \E j \in 1..n : j <= k /\ j # p /\ x \in Ocupa(w.lista[j])
      <3>1. CASE x < U
        <4>1. PICK j \in 1..n : j <= k - 1 /\ j # p /\ x \in Ocupa(v.lista[j])
          BY <1>1, <3>1 DEF PJuntos
        <4>2. j <= k /\ j # k
          BY <4>1
        <4> QED BY <1>9, <4>1, <4>2
      <3>2. CASE ~(x < U)
        <4>1. x \in Ocupa(w.lista[k])
          BY <1>1, <1>11, <2>4, <3>2
        <4> QED BY <4>1
      <3> QED BY <3>1, <3>2
    <2> QED BY <2>1, <2>3, <2>4 DEF PJuntos
  <1>17. PDatos(w, k, l, n, p, bl)
    <2>1. ASSUME NEW j \in 1..n, j <= k, j # p, NEW q \in Nat, q < BloquesNecesarios(l[j].tamanio)
          PROVE  w.bloques[w.lista[j].inicial + q] = bl[l[j].inicial + q]
      <3>1. CASE j = k
        <4> DEFINE x == U + q
        <4>1. x \in Disco /\ U <= x /\ x < U + m /\ x - U = q
          BY <1>1, <1>2, <1>5, <1>6, <2>1, <3>1, NBloquesAssumption
        <4> HIDE DEF x
        <4>2. w.bloques[x] = v.bloques[e.inicial + q]
          BY <1>2, <4>1
        <4>3. e.inicial + q \in Ocupa(l[k])
          BY <1>2, <1>3, <2>1, <3>1
        <4>4. v.bloques[e.inicial + q] = bl[e.inicial + q]
          <5>1. k > k - 1
            OBVIOUS
          <5> QED BY <1>1, <4>3, <5>1 DEF PDatos
        <4> QED BY <1>9, <3>1, <4>2, <4>4 DEF x
      <3>2. CASE j # k
        <4>1. w.lista[j] = v.lista[j] /\ j <= k - 1 /\ v.lista[j] \in Entradas
          BY <1>7, <1>9, <2>1, <3>2
        <4>2. 0 <= v.lista[j].inicial /\ Fin(v.lista[j]) <= U
          BY <1>1, <2>1, <4>1 DEF PJuntos
        <4>3. v.lista[j].tamanio = l[j].tamanio
          BY <1>1 DEF PListas
        <4> DEFINE b0 == BloquesNecesarios(l[j].tamanio)
                   i0 == v.lista[j].inicial
                   x == i0 + q
        <4>4. i0 \in Int /\ b0 \in Nat /\ 0 <= i0 /\ i0 + b0 <= U /\ q < b0
          BY <2>1, <4>1, <4>2, <4>3, TiposDeEntrada DEF Fin
        <4> HIDE DEF b0, i0
        <4>5. x \in Int /\ 0 <= x /\ x < U /\ x < NBloques
          BY <1>1, <4>4, NBloquesAssumption
        <4> HIDE DEF x
        <4>6. x \in Disco
          BY <1>6, <4>5
        <4>7. ~(U <= x)
          BY <1>1, <4>5
        <4>8. w.bloques[x] = v.bloques[x]
          BY <1>2, <4>6, <4>7
        <4>9. v.bloques[v.lista[j].inicial + q] = bl[l[j].inicial + q]
          BY <1>1, <2>1, <4>1 DEF PDatos
        <4> QED BY <4>1, <4>8, <4>9 DEF x, i0
      <3> QED BY <3>1, <3>2
    <2>2. ASSUME NEW j \in 1..n, j > k, j # p, NEW x \in Ocupa(l[j]) PROVE w.bloques[x] = bl[x]
      <3>1. /\ l[j].inicial \in Int /\ Fin(l[j]) \in Int /\ x \in Int /\ l[j].inicial <= x /\ x < Fin(l[j])
        BY LoQueOcupa
      <3>2. Fin(e) <= l[j].inicial /\ Fin(l[j]) <= NBloques
        BY <1>4, <2>2 DEF Fila
      <3>3. x >= V /\ x < NBloques
        BY <1>3, <1>5, <3>1, <3>2, NBloquesAssumption
      <3>4. x \in Disco /\ ~(x < U + m)
        BY <1>5, <1>6, <3>1, <3>3
      <3>5. w.bloques[x] = v.bloques[x]
        BY <1>2, <3>4
      <3>6. j > k - 1
        BY <2>2
      <3> QED BY <1>1, <2>2, <3>5, <3>6 DEF PDatos
    <2> QED BY <2>1, <2>2 DEF PDatos
  <1>18. Cardinality(Tomados(w.bit)) = K
    <2> DEFINE S == Tomados(v.bit)
               B == Desde(U, m)
    <2>1. IsFiniteSet(S) /\ S \subseteq Disco
      BY DiscoFinito, FS_Subset DEF Tomados
    <2>2. \A x : x \in B <=> x \in Int /\ U <= x /\ x < V
      BY <1>1, <1>2, LoQueOcupaDesde
    <2>3. Ocupa(e) \subseteq S
      <3> SUFFICES ASSUME NEW x \in Ocupa(e) PROVE x \in S
        OBVIOUS
      <3>1. x \in Int /\ e.inicial <= x /\ x < Fin(e)
        BY <1>3
      <3>2. x \in Disco
        BY <1>1, <1>2, <1>3, <1>4, <1>6, <3>1, NBloquesAssumption
      <3>3. x \in Bits /\ k > k - 1
        BY <3>2, DiscoEnBits
      <3>4. v.bit[x]
        BY <1>1, <3>3 DEF PBits
      <3> QED BY <3>2, <3>4 DEF Tomados
    <2>4. IsFiniteSet(B) /\ Cardinality(B) = m
      BY <1>1, <1>2, CuentaDesde
    <2>5. Cardinality(Ocupa(e)) = m
      <3>1. Ocupa(e) = Desde(e.inicial, m)
        BY <1>3, LoQueOcupa
      <3> QED BY <1>2, <1>3, <3>1, CuentaDesde
    <2>6. \A x \in Disco : x \in Tomados(w.bit) <=> (x \in S /\ x \notin Ocupa(e)) \/ x \in B
      <3> TAKE x \in Disco
      <3>1. x \in Bits /\ x \in Int
        BY DiscoEnBits
      <3>2. w.bit[x] <=> (v.bit[x] /\ x \notin Ocupa(e)) \/ (U <= x /\ x < V)
        BY <1>2, <3>1
      <3> QED BY <2>2, <3>1, <3>2 DEF Tomados
    <2>7. B \subseteq Disco
      <3> SUFFICES ASSUME NEW x \in B PROVE x \in Disco
        OBVIOUS
      <3>1. x \in Int /\ U <= x /\ x < V
        BY <2>2
      <3> QED BY <1>1, <1>5, <1>6, <3>1, NBloquesAssumption
    <2>8. Tomados(w.bit) \subseteq Disco
      BY DEF Tomados
    <2>9. (S \ Ocupa(e)) \cap B = {}
      <3> SUFFICES ASSUME NEW x \in S, x \notin Ocupa(e), x \in B PROVE FALSE
        OBVIOUS
      <3>1. x \in Disco /\ v.bit[x] /\ x \in Bits /\ x \in Int
        BY <2>1, DiscoEnBits DEF Tomados
      <3>2. U <= x /\ x < V
        BY <2>2
      <3>3. ~(x < U)
        BY <1>1, <3>1, <3>2
      <3>4. PICK j \in 1..n : j > k - 1 /\ j # p /\ x \in Ocupa(l[j])
        BY <1>1, <3>1, <3>3 DEF PBits
      <3>5. j > k
        BY <3>4
      <3>6. l[j].inicial <= x /\ l[j].inicial \in Int /\ Fin(e) <= l[j].inicial
        BY <1>4, <3>4, <3>5, LoQueOcupa
      <3> QED BY <1>3, <1>5, <3>1, <3>2, <3>6
    <2> HIDE DEF S, B
    <2>10. Tomados(w.bit) = (S \ Ocupa(e)) \cup B
      BY <2>1, <2>6, <2>7, <2>8
    <2>11. IsFiniteSet(S \ Ocupa(e)) /\ Cardinality(S \ Ocupa(e)) = Cardinality(S) - Cardinality(Ocupa(e)) /\ Cardinality(S) \in Nat
      BY <2>1, <2>3, CuentaSinPisar
    <2>12. Cardinality(Tomados(w.bit)) = Cardinality(S \ Ocupa(e)) + m
      BY <2>4, <2>9, <2>10, <2>11, CuentaJuntos
    <2>13. Cardinality(S) = K
      BY <1>1 DEF S
    <2>14. Cardinality(S \ Ocupa(e)) = K - m /\ K \in Nat
      BY <2>5, <2>11, <2>13
    <2> QED BY <1>2, <2>12, <2>14
  <1> QED BY <1>5, <1>12, <1>13, <1>14, <1>15, <1>16, <1>17, <1>18 DEF Parte

(* The turn of the file that was set aside changes nothing.                *)
LEMMA TrasSaltar ==
    ASSUME NEW n \in Nat, NEW l, NEW p \in 1..n, NEW v, NEW U, NEW bl, NEW K,
           Parte(v, p - 1, U, l, n, p, bl, K)
    PROVE  Parte(v, p, U, l, n, p, bl, K)
  <1>1. \A j \in 1..n : j # p => (j > p - 1 <=> j > p) /\ (j <= p - 1 <=> j <= p)
    OBVIOUS
  <1>2. PListas(v, p, l, n, p)
    BY <1>1 DEF Parte, PListas
  <1>3. PBits(v, p, U, l, n, p)
    BY <1>1 DEF Parte, PBits
  <1>4. PResto(p, U, l, n, p)
    BY <1>1 DEF Parte, PResto
  <1>5. PJuntos(v, p, U, n, p)
    <2>1. PJuntos(v, p - 1, U, n, p)
      BY DEF Parte
    <2> QED BY <1>1, <2>1 DEF PJuntos
  <1>6. PDatos(v, p, l, n, p, bl)
    <2>1. PDatos(v, p - 1, l, n, p, bl)
      BY DEF Parte
    <2> QED BY <1>1, <2>1 DEF PDatos
  <1> QED BY <1>2, <1>3, <1>4, <1>5, <1>6 DEF Parte

LEMMA TrasTurno ==
    ASSUME NEW n \in Nat, NEW l \in [1..n -> Entradas], Fila(l, n), NEW p \in 1..n,
           NEW v \in Discos(n), NEW k \in 1..n, NEW U, NEW bl, NEW K,
           Parte(v, k - 1, U, l, n, p, bl, K)
    PROVE  \E V : Parte(Turno(v, k, l[p].inicial), k, V, l, n, p, bl, K)
  <1>1. k > k - 1
    OBVIOUS
  <1>2. v.lista[k] = l[k]
    BY <1>1 DEF Parte, PListas
  <1>3. CASE k = p
    <2>1. Turno(v, k, l[p].inicial) = v
      BY <1>2, <1>3 DEF Turno
    <2> QED BY <1>3, <2>1, TrasSaltar
  <1>4. CASE k # p
    <2>1. l[k] \in Entradas /\ l[p] \in Entradas
      OBVIOUS
    <2>2. /\ l[k].inicial \in Int /\ l[p].inicial \in Int /\ Fin(l[k]) \in Int /\ Fin(l[p]) \in Int
          /\ l[k].inicial < Fin(l[k]) /\ l[p].inicial < Fin(l[p])
      BY <2>1, LoQueOcupa
    <2>3. Fin(l[k]) <= l[p].inicial \/ Fin(l[p]) <= l[k].inicial
      <3>1. k < p \/ p < k
        BY <1>4
      <3> QED BY <3>1 DEF Fila
    <2>4. l[k].inicial # l[p].inicial
      BY <2>2, <2>3
    <2>5. Turno(v, k, l[p].inicial) = Mudar(v, k)
      BY <1>2, <2>4 DEF Turno
    <2>6. \E V : Parte(Mudar(v, k), k, V, l, n, p, bl, K)
      BY <1>4, TrasMudar
    <2> QED BY <2>5, <2>6
  <1> QED BY <1>3, <1>4

LEMMA TrasLosTurnos ==
    ASSUME NEW n \in Nat, NEW l \in [1..n -> Entradas], Fila(l, n), NEW p \in 1..n,
           NEW h, NEW d, Turnos(h, n, d, l[p].inicial), NEW bl, NEW K,
           Parte(d, 0, 0, l, n, p, bl, K)
    PROVE  \E V : Parte(h[n], n, V, l, n, p, bl, K)
  <1> DEFINE Va(k) == \E V : Parte(h[k], k, V, l, n, p, bl, K)
             Malos == {k \in 0..n : ~Va(k)}
  <1>1. Va(0)
    BY DEF Turnos
  <1>2. ASSUME NEW k \in 1..n, Va(k - 1) PROVE Va(k)
    <2>1. PICK U : Parte(h[k - 1], k - 1, U, l, n, p, bl, K)
      BY <1>2
    <2>2. k - 1 \in 0..n
      OBVIOUS
    <2>3. h[k - 1] \in Discos(n)
      BY <2>2 DEF Turnos, EnMedio
    <2>4. h[k] = Turno(h[k - 1], k, l[p].inicial)
      BY DEF Turnos
    <2>5. \E V : Parte(Turno(h[k - 1], k, l[p].inicial), k, V, l, n, p, bl, K)
      BY <2>1, <2>3, TrasTurno
    <2> QED BY <2>4, <2>5
  <1> HIDE DEF Va
  <1>3. Malos = {}
    <2> SUFFICES ASSUME Malos # {} PROVE FALSE
      OBVIOUS
    <2>0. Malos \subseteq Nat
      OBVIOUS
    <2>1. PICK m \in Malos : \A k \in Malos : m <= k
      <3> HIDE DEF Malos
      <3> QED BY <2>0, MinNat
    <2>2. m \in 1..n /\ m - 1 \in 0..n /\ ~(m <= m - 1)
      BY <1>1
    <2>3. Va(m - 1)
      BY <2>1, <2>2
    <2> QED BY <1>2, <2>2, <2>3
  <1>4. Va(n)
    BY <1>3
  <1> QED BY <1>4 DEF Va

(* With e set aside, nothing has been moved and the rest is as it was.     *)
LEMMA PrimeraParte ==
    ASSUME NEW n \in Nat, NEW d \in Discos(n), NEW l, l = d.lista, SanoCon(d.bit, d.meta, l, n), Fila(l, n),
           NEW p \in 1..n, NEW e, e = l[p]
    PROVE  /\ Parte(Aparte(d, e), 0, 0, l, n, p, d.bloques,
                    Cardinality(Tomados(d.bit)) - BloquesNecesarios(e.tamanio))
           /\ BloquesNecesarios(e.tamanio) <= Cardinality(Tomados(d.bit))
  <1> DEFINE v == Aparte(d, e)
             m == BloquesNecesarios(e.tamanio)
  <1>1. l \in [1..n -> Entradas] /\ d.bit \in Mapas /\ e \in Entradas
    BY DEF Discos
  <1>2. /\ v = [bit |-> SinEl(d, e), bloques |-> d.bloques, meta |-> d.meta, lista |-> d.lista]
    <2>1. \A j \in 1..n : d.lista[j].inicial # e.inicial => d.meta[d.lista[j].nombre] # NoHay
      BY DEF SanoCon, Fieles
    <2> QED BY <2>1, TiposDeAparte
  <1> HIDE DEF v
  <1>3. v.bit = SinEl(d, e) /\ v.bloques = d.bloques /\ v.meta = d.meta /\ v.lista = l
    BY <1>2
  <1>4. /\ m \in Nat \ {0} /\ e.inicial \in Int
        /\ Ocupa(e) = Desde(e.inicial, m)
    BY <1>1, TiposDeEntrada, LoQueOcupa
  <1>5. \A x \in Bits : v.bit[x] <=> d.bit[x] /\ x \notin Ocupa(e)
    BY <1>3, <1>4 DEF SinEl, Liberados
  <1>6. Ocupa(e) \subseteq Disco /\ \A j \in 1..n : j # p => Ocupa(l[j]) \cap Ocupa(e) = {}
    BY DEF SanoCon, Apartados
  <1>7. PListas(v, 0, l, n, p)
    BY <1>3 DEF PListas
  <1>8. Fieles(v.meta, v.lista, n)
    BY <1>3 DEF SanoCon
  <1>9. PBits(v, 0, 0, l, n, p)
    <2> SUFFICES ASSUME NEW x \in Bits
                 PROVE  v.bit[x] <=> x < 0 \/ \E j \in 1..n : j > 0 /\ j # p /\ x \in Ocupa(l[j])
      BY DEF PBits
    <2>1. x \in Nat /\ ~(x < 0)
      BY DiscoEnBits
    <2>2. d.bit[x] <=> \E j \in 1..n : x \in Ocupa(l[j])
      BY DEF SanoCon, Marca
    <2>3. \A j \in 1..n : j > 0
      OBVIOUS
    <2>4. v.bit[x] <=> d.bit[x] /\ x \notin Ocupa(e)
      BY <1>5
    <2>5. (\E j \in 1..n : x \in Ocupa(l[j])) /\ x \notin Ocupa(e) <=> \E j \in 1..n : j # p /\ x \in Ocupa(l[j])
      BY <1>6
    <2> QED BY <2>1, <2>2, <2>3, <2>4, <2>5
  <1>10. PResto(0, 0, l, n, p)
    BY DEF PResto, Fila
  <1>11. PJuntos(v, 0, 0, n, p)
    <2>1. \A j \in 1..n : ~(j <= 0)
      OBVIOUS
    <2>2. \A x \in Nat : ~(x < 0)
      OBVIOUS
    <2> QED BY <2>1, <2>2 DEF PJuntos
  <1>12. PDatos(v, 0, l, n, p, d.bloques)
    <2>1. \A j \in 1..n : ~(j <= 0)
      OBVIOUS
    <2> QED BY <1>3, <2>1 DEF PDatos
  <1>13. /\ Cardinality(Tomados(v.bit)) = Cardinality(Tomados(d.bit)) - m
         /\ m <= Cardinality(Tomados(d.bit))
    <2> DEFINE S == Tomados(d.bit)
    <2>1. IsFiniteSet(S)
      BY DiscoFinito, FS_Subset DEF Tomados
    <2>2. Ocupa(e) \subseteq S
      BY <1>6, DiscoEnBits DEF SanoCon, Marca, Tomados
    <2>3. Tomados(v.bit) = S \ Ocupa(e)
      BY <1>5, DiscoEnBits DEF Tomados
    <2>4. Cardinality(Ocupa(e)) = m
      BY <1>4, CuentaDesde
    <2> HIDE DEF S, m
    <2>5. Cardinality(S \ Ocupa(e)) = Cardinality(S) - Cardinality(Ocupa(e)) /\ Cardinality(Ocupa(e)) <= Cardinality(S)
      BY <2>1, <2>2, CuentaSinPisar
    <2> QED BY <2>3, <2>4, <2>5 DEF S
  <1> HIDE DEF m
  <1>14. 0 \in Nat /\ 0 <= NBloques
    BY NBloquesAssumption
  <1>15. Parte(v, 0, 0, l, n, p, d.bloques, Cardinality(Tomados(d.bit)) - m)
    BY <1>7, <1>8, <1>9, <1>10, <1>11, <1>12, <1>13, <1>14 DEF Parte
  <1> QED BY <1>13, <1>15 DEF v, m

(* When all have been moved they fill the beginning of the disk.           *)
LEMMA UltimaParte ==
    ASSUME NEW n \in Nat, NEW l, NEW p, NEW v, NEW V, NEW bl, NEW K,
           Parte(v, n, V, l, n, p, bl, K)
    PROVE  K = V /\ \A x \in Bits : v.bit[x] <=> x < V
  <1>1. V \in Nat /\ V <= NBloques /\ Cardinality(Tomados(v.bit)) = K /\ PBits(v, n, V, l, n, p)
    BY DEF Parte
  <1>2. \A x \in Bits : v.bit[x] <=> x < V
    <2>1. \A j \in 1..n : ~(j > n)
      OBVIOUS
    <2> QED BY <1>1, <2>1 DEF PBits
  <1>3. Tomados(v.bit) = Desde(0, V)
    <2>1. \A x : x \in Disco <=> x \in Int /\ 0 <= x /\ x < NBloques
      BY NBloquesAssumption DEF Disco
    <2>2. \A x : x \in Desde(0, V) <=> x \in Int /\ 0 <= x /\ x < V
      BY <1>1, LoQueOcupaDesde
    <2>3. \A x \in Disco : v.bit[x] <=> x < V
      BY <1>2, DiscoEnBits
    <2>4. \A x \in Int : x < V => x < NBloques
      BY <1>1, NBloquesAssumption
    <2> QED BY <2>1, <2>2, <2>3, <2>4 DEF Tomados
  <1>4. Cardinality(Desde(0, V)) = V
    BY <1>1, CuentaDesde
  <1> QED BY <1>1, <1>2, <1>3, <1>4

(* What a compaction of d for the p-th entry of l, which grows to t, keeps *)
(* of every file in the disk c that it leaves.                             *)
Conservado(d, c, l, n, p, t) ==
    \A j \in 1..n :
        /\ c.lista[j].nombre = l[j].nombre
        /\ c.lista[j].tamanio = IF j = p THEN t ELSE l[j].tamanio
        /\ \A q \in Nat : q < BloquesNecesarios(l[j].tamanio) =>
              c.bloques[c.lista[j].inicial + q] = d.bloques[l[j].inicial + q]

LEMMA LaUltimaMudanza ==
    ASSUME NEW n \in Nat, NEW l \in [1..n -> Entradas], NEW p \in 1..n,
           NEW d \in Discos(n), Ocupa(l[p]) \subseteq Disco, NEW mv \in Discos(n), NEW V,
           Parte(mv, n, V, l, n, p, d.bloques, V), NEW t \in Tamanios, t > l[p].tamanio,
           V + BloquesNecesarios(t) <= NBloques,
           NEW c, c = Compactado(d, l[p], t, mv, BloquesNecesarios(t), V, p)
    PROVE  SanoCon(c.bit, c.meta, c.lista, n) /\ Conservado(d, c, l, n, p, t)
  <1> PICK e : e = l[p]
    OBVIOUS
  <1> PICK nt : nt = BloquesNecesarios(t)
    OBVIOUS
  <1>1. /\ V \in Nat /\ V <= NBloques /\ PListas(mv, n, l, n, p) /\ Fieles(mv.meta, mv.lista, n)
        /\ PJuntos(mv, n, V, n, p) /\ PDatos(mv, n, l, n, p, d.bloques)
    BY DEF Parte
  <1>2. \A x \in Bits : mv.bit[x] <=> x < V
    BY UltimaParte
  <1>3. t \in Nat /\ nt \in Nat \ {0} /\ V # -1
    BY <1>1, TamaniosAssumption, TiposDeTecho
  <1> PICK m : m = BloquesNecesarios(e.tamanio)
    OBVIOUS
  <1>4. e \in Entradas /\ e.nombre \in Archivos /\ e.inicial \in Int /\ e.tamanio \in Nat /\ m \in Nat \ {0} /\ m <= nt
    BY <1>3, TiposDeEntrada, TechoMonotono
  <1> DEFINE dat == LeerBloques(d.bloques, e.inicial, m)
  <1> PICK r : r = Relleno(dat, nt)
    OBVIOUS
  <1>5. /\ c.bit = Marcados(mv.bit, Desde(V, nt)) /\ c.bloques = EscribirBloques(mv.bloques, V, r)
        /\ c.meta = [mv.meta EXCEPT ![e.nombre] = [inicial |-> V, tamanio |-> t]]
        /\ c.lista = [mv.lista EXCEPT ![p] = [mv.lista[p] EXCEPT !.inicial = V, !.tamanio = t]]
    BY <1>3 DEF Compactado
  <1>6. /\ mv.bit \in Mapas /\ mv.bloques \in [Disco -> Contenidos] /\ mv.meta \in Metas
        /\ mv.lista \in [1..n -> Entradas] /\ d.bloques \in [Disco -> Contenidos]
    BY DEF Discos
  <1>7. \A x : x \in Disco <=> x \in Int /\ 0 <= x /\ x < NBloques
    BY NBloquesAssumption DEF Disco
  <1>8. \A x : x \in Desde(V, nt) <=> x \in Int /\ V <= x /\ x < V + nt
    BY <1>1, <1>3, LoQueOcupaDesde
  <1>9. V \in Disco
    <2>1. V \in Int /\ 0 <= V /\ V < NBloques
      BY <1>1, <1>3, NBloquesAssumption
    <2> QED BY <1>7, <2>1
  <1>10. /\ c.lista[p] \in Entradas /\ c.lista[p].nombre = e.nombre /\ c.lista[p].inicial = V /\ c.lista[p].tamanio = t
         /\ \A j \in 1..n : j # p => c.lista[j] = mv.lista[j]
    <2> DEFINE x == [mv.lista[p] EXCEPT !.inicial = V, !.tamanio = t]
    <2>1. mv.lista[p] = e
      BY <1>1 DEF PListas
    <2>2. x \in Entradas /\ x.nombre = e.nombre /\ x.tamanio = t /\ x.inicial = V
      BY <1>4, <1>9, <2>1 DEF Entradas
    <2>3. c.lista = [mv.lista EXCEPT ![p] = x]
      BY <1>5
    <2> HIDE DEF x
    <2>4. c.lista[p] = x /\ \A j \in 1..n : j # p => c.lista[j] = mv.lista[j]
      BY <1>6, <2>3
    <2> QED BY <2>2, <2>4
  <1>11. /\ c.meta[e.nombre] # NoHay /\ c.meta[e.nombre].inicial = V /\ c.meta[e.nombre].tamanio = t
         /\ \A a \in Archivos : a # e.nombre => c.meta[a] = mv.meta[a]
    <2> DEFINE x == [inicial |-> V, tamanio |-> t]
    <2>1. x \in Registro /\ x.inicial = V /\ x.tamanio = t
      BY <1>9 DEF Registro
    <2>2. c.meta = [mv.meta EXCEPT ![e.nombre] = x]
      BY <1>5
    <2> HIDE DEF x
    <2>3. c.meta[e.nombre] = x /\ \A a \in Archivos : a # e.nombre => c.meta[a] = mv.meta[a]
      BY <1>4, <1>6, <2>2 DEF Metas
    <2> QED BY <2>1, <2>3, NoHayNoEsRegistro
  <1>12. \A j \in 1..n : mv.lista[j] \in Entradas /\ mv.lista[j].nombre \in Archivos /\ mv.lista[j].nombre = l[j].nombre
    <2> TAKE j \in 1..n
    <2>1. mv.lista[j] \in Entradas
      BY <1>6
    <2> QED BY <1>1, <2>1, TiposDeEntrada DEF PListas
  <1>13. Fieles(c.meta, c.lista, n)
    <2>1. \A j \in 1..n : c.lista[j].nombre = mv.lista[j].nombre
      BY <1>10, <1>12
    <2>2. ASSUME NEW j \in 1..n
          PROVE  /\ c.meta[c.lista[j].nombre] # NoHay
                 /\ c.meta[c.lista[j].nombre].inicial = c.lista[j].inicial
                 /\ c.meta[c.lista[j].nombre].tamanio = c.lista[j].tamanio
      <3>1. CASE j = p
        BY <1>10, <1>11, <3>1
      <3>2. CASE j # p
        <4>1. c.lista[j] = mv.lista[j] /\ mv.lista[j].nombre # e.nombre
          <5>1. mv.lista[j].nombre # mv.lista[p].nombre
            BY <1>1, <3>2 DEF Fieles
          <5> QED BY <1>10, <1>12, <3>2, <5>1
        <4>2. c.meta[mv.lista[j].nombre] = mv.meta[mv.lista[j].nombre]
          BY <1>11, <1>12, <4>1
        <4> QED BY <1>1, <4>1, <4>2 DEF Fieles
      <3> QED BY <3>1, <3>2
    <2>3. \A i, j \in 1..n : c.lista[i].nombre = c.lista[j].nombre => i = j
      BY <1>1, <2>1 DEF Fieles
    <2>4. ASSUME NEW a \in Archivos, c.meta[a] # NoHay PROVE \E j \in 1..n : c.lista[j].nombre = a
      <3>1. CASE a = e.nombre
        BY <1>10, <3>1
      <3>2. CASE a # e.nombre
        <4>1. mv.meta[a] # NoHay
          BY <1>11, <2>4, <3>2
        <4>2. PICK j \in 1..n : mv.lista[j].nombre = a
          BY <1>1, <4>1 DEF Fieles
        <4> QED BY <2>1, <4>2
      <3> QED BY <3>1, <3>2
    <2> QED BY <2>2, <2>3, <2>4 DEF Fieles
  <1>14. \A x : x \in Ocupa(c.lista[p]) <=> x \in Int /\ V <= x /\ x < V + nt
    <2>1. Fin(c.lista[p]) = V + nt
      BY <1>10 DEF Fin
    <2> QED BY <1>10, <2>1, LoQueOcupa
  <1>15. ASSUME NEW j \in 1..n, j # p
         PROVE  /\ c.lista[j] = mv.lista[j] /\ c.lista[j].inicial \in Int
                /\ \A x \in Ocupa(c.lista[j]) : x \in Int /\ 0 <= x /\ x < V
    <2>1. c.lista[j] = mv.lista[j] /\ mv.lista[j] \in Entradas /\ j <= n
      BY <1>10, <1>12, <1>15
    <2>2. 0 <= mv.lista[j].inicial /\ Fin(mv.lista[j]) <= V
      BY <1>1, <1>15, <2>1 DEF PJuntos
    <2>3. /\ mv.lista[j].inicial \in Int /\ Fin(mv.lista[j]) \in Int
          /\ \A x : x \in Ocupa(mv.lista[j]) <=> x \in Int /\ mv.lista[j].inicial <= x /\ x < Fin(mv.lista[j])
      BY <2>1, LoQueOcupa
    <2>4. \A x \in Ocupa(mv.lista[j]) : x \in Int /\ 0 <= x /\ x < V
      BY <1>1, <2>2, <2>3
    <2> QED BY <2>1, <2>3, <2>4
  <1>16. Apartados(c.lista, n)
    <2>1. ASSUME NEW j \in 1..n PROVE Ocupa(c.lista[j]) \subseteq Disco
      <3>1. \A x \in Ocupa(c.lista[j]) : x \in Int /\ 0 <= x /\ x < V + nt
        <4>1. CASE j = p
          BY <1>1, <1>14, <4>1
        <4>2. CASE j # p
          <5>1. \A x \in Ocupa(c.lista[j]) : x \in Int /\ 0 <= x /\ x < V
            BY <1>15, <4>2
          <5>2. \A x \in Int : x < V => x < V + nt
            BY <1>1, <1>3
          <5> QED BY <5>1, <5>2
        <4> QED BY <4>1, <4>2
      <3>2. \A x \in Int : x < V + nt => x < NBloques
        BY <1>1, <1>3, NBloquesAssumption
      <3> QED BY <1>7, <3>1, <3>2
    <2>2. ASSUME NEW j \in 1..n, j # p PROVE Ocupa(c.lista[j]) \cap Ocupa(c.lista[p]) = {}
      <3>1. \A x \in Ocupa(c.lista[j]) : x \in Int /\ x < V
        BY <1>15, <2>2
      <3>2. \A x \in Ocupa(c.lista[p]) : V <= x
        BY <1>14
      <3>3. \A x \in Int : x < V => ~(V <= x)
        BY <1>1
      <3> QED BY <3>1, <3>2, <3>3
    <2>3. ASSUME NEW i \in 1..n, NEW j \in 1..n, i # j PROVE Ocupa(c.lista[i]) \cap Ocupa(c.lista[j]) = {}
      <3>1. CASE i = p
        BY <2>2, <2>3, <3>1
      <3>2. CASE j = p
        BY <2>2, <2>3, <3>2
      <3>3. CASE i # p /\ j # p
        <4>1. c.lista[i] = mv.lista[i] /\ c.lista[j] = mv.lista[j] /\ i <= n /\ j <= n
          BY <1>15, <3>3
        <4>2. Ocupa(mv.lista[i]) \cap Ocupa(mv.lista[j]) = {}
          BY <1>1, <2>3, <3>3, <4>1 DEF PJuntos
        <4> QED BY <4>1, <4>2
      <3> QED BY <3>1, <3>2, <3>3
    <2> QED BY <2>1, <2>3 DEF Apartados
  <1>17. Marca(c.bit, c.lista, n)
    <2> SUFFICES ASSUME NEW x \in Bits PROVE c.bit[x] <=> \E j \in 1..n : x \in Ocupa(c.lista[j])
      BY DEF Marca
    <2>1. x \in Nat /\ x \in Int
      BY DiscoEnBits
    <2>2. c.bit[x] <=> x < V \/ x \in Desde(V, nt)
      BY <1>2, <1>5 DEF Marcados
    <2>3. x \in Desde(V, nt) <=> x \in Ocupa(c.lista[p])
      BY <1>8, <1>14
    <2>4. x < V => \E j \in 1..n : j # p /\ x \in Ocupa(c.lista[j])
      <3> HAVE x < V
      <3>1. PICK j \in 1..n : j # p /\ x \in Ocupa(mv.lista[j])
        BY <1>1, <2>1 DEF PJuntos
      <3> QED BY <1>15, <3>1
    <2>5. \A j \in 1..n : j # p /\ x \in Ocupa(c.lista[j]) => x < V
      BY <1>15
    <2> QED BY <2>2, <2>3, <2>4, <2>5
  <1>18. \A x \in Disco : c.bloques[x] = IF V <= x /\ x < V + nt THEN r[x - V + 1] ELSE mv.bloques[x]
    <2>1. Len(r) = nt
      BY <1>3, <1>4, <1>6, LoLeido, TiposDelRelleno
    <2> TAKE x \in Disco
    <2>2. x \in Int
      BY <1>7
    <2>3. c.bloques[x] = IF x \in Desde(V, nt) THEN r[x - V + 1] ELSE mv.bloques[x]
      BY <1>5, <2>1 DEF EscribirBloques
    <2> QED BY <1>8, <2>2, <2>3
  <1>19. ASSUME NEW q \in Nat, q < m PROVE c.bloques[V + q] = d.bloques[e.inicial + q]
    <2>1. V + q \in Disco /\ V <= V + q /\ V + q < V + nt /\ (V + q) - V + 1 = q + 1
      <3>1. V + q \in Int /\ 0 <= V + q /\ V + q < V + nt /\ V + q < NBloques
        BY <1>1, <1>3, <1>4, <1>19, NBloquesAssumption
      <3> DEFINE x == V + q
      <3>2. x \in Int /\ 0 <= x /\ x < NBloques
        BY <3>1
      <3> HIDE DEF x
      <3>3. x \in Disco
        BY <1>7, <3>2
      <3> QED BY <1>1, <3>1, <3>3 DEF x
    <2>2. c.bloques[V + q] = r[q + 1]
      BY <1>18, <2>1
    <2>3. dat \in Seq(Contenidos) /\ Len(dat) = m
      BY <1>4, <1>6, LoLeido
    <2>4. q + 1 \in 1..nt /\ q + 1 \in 1..m /\ q + 1 <= m
      BY <1>3, <1>4, <1>19
    <2>5. r[q + 1] = dat[q + 1]
      <3> HIDE DEF dat
      <3> QED BY <2>3, <2>4 DEF Relleno
    <2>6. e.inicial + (q + 1) - 1 = e.inicial + q
      BY <1>4
    <2>7. e.inicial + q \in Disco
      <3>1. e.inicial + q \in Int /\ e.inicial <= e.inicial + q /\ e.inicial + q < Fin(e)
        BY <1>4, <1>19 DEF Fin
      <3>2. e.inicial + q \in Ocupa(e)
        BY <1>4, <3>1, LoQueOcupa
      <3> QED BY <3>2
    <2>8. dat[q + 1] = d.bloques[e.inicial + q]
      BY <2>4, <2>6, <2>7 DEF LeerBloques
    <2> QED BY <2>2, <2>5, <2>8
  <1>20. Conservado(d, c, l, n, p, t)
    <2> SUFFICES ASSUME NEW j \in 1..n
                 PROVE  /\ c.lista[j].nombre = l[j].nombre
                        /\ c.lista[j].tamanio = IF j = p THEN t ELSE l[j].tamanio
                        /\ \A q \in Nat : q < BloquesNecesarios(l[j].tamanio) =>
                              c.bloques[c.lista[j].inicial + q] = d.bloques[l[j].inicial + q]
      BY DEF Conservado
    <2>1. CASE j = p
      BY <1>10, <1>19, <2>1
    <2>2. CASE j # p
      <3>1. c.lista[j] = mv.lista[j] /\ mv.lista[j].tamanio = l[j].tamanio /\ mv.lista[j].nombre = l[j].nombre
        BY <1>1, <1>10, <2>2 DEF PListas
      <3>2. ASSUME NEW q \in Nat, q < BloquesNecesarios(l[j].tamanio)
            PROVE  c.bloques[c.lista[j].inicial + q] = d.bloques[l[j].inicial + q]
        <4>1. mv.bloques[mv.lista[j].inicial + q] = d.bloques[l[j].inicial + q]
          <5>1. j <= n
            OBVIOUS
          <5> QED BY <1>1, <2>2, <3>2, <5>1 DEF PDatos
        <4> DEFINE x == mv.lista[j].inicial + q
        <4>2. x \in Ocupa(c.lista[j])
          <5>1. c.lista[j] \in Entradas /\ c.lista[j].inicial \in Int
            BY <1>12, <1>15, <2>2, <3>1
          <5>2. x \in Int /\ c.lista[j].inicial <= x /\ x < Fin(c.lista[j])
            <6>1. BloquesNecesarios(c.lista[j].tamanio) = BloquesNecesarios(l[j].tamanio) /\ BloquesNecesarios(l[j].tamanio) \in Nat
              BY <3>1, <5>1, TiposDeEntrada
            <6> QED BY <3>1, <3>2, <5>1, <6>1 DEF Fin
          <5> QED BY <5>1, <5>2, LoQueOcupa
        <4> HIDE DEF x
        <4>3. x \in Int /\ 0 <= x /\ x < V
          BY <1>15, <2>2, <4>2
        <4>4. x < NBloques /\ ~(V <= x)
          BY <1>1, <4>3, NBloquesAssumption
        <4>5. x \in Disco
          BY <1>7, <4>3, <4>4
        <4>6. c.bloques[x] = mv.bloques[x]
          BY <1>18, <4>4, <4>5
        <4> QED BY <3>1, <4>1, <4>6 DEF x
      <3> QED BY <2>2, <3>1, <3>2
    <2> QED BY <2>1, <2>2
  <1> QED BY <1>13, <1>16, <1>17, <1>20 DEF SanoCon

LEMMA SanoCompactado ==
    ASSUME NEW n \in Nat, NEW d \in Discos(n), SanoCon(d.bit, d.meta, d.lista, n), Fila(d.lista, n),
           NEW p \in 1..n, NEW t \in Tamanios, t > d.lista[p].tamanio,
           Techo(t) - Techo(d.lista[p].tamanio) <= NBloques - Cardinality(Tomados(d.bit)),
           NEW c, c = Compactar(d, d.lista[p], t)
    PROVE  SanoCon(c.bit, c.meta, c.lista, n) /\ Conservado(d, c, d.lista, n, p, t)
  <1> PICK l : l = d.lista
    OBVIOUS
  <1> PICK e : e = l[p]
    OBVIOUS
  <1>1. l \in [1..n -> Entradas] /\ e \in Entradas /\ e.nombre = l[p].nombre
    BY DEF Discos
  <1> PICK mv : mv = Movidos(d, e)
    OBVIOUS
  <1> PICK nt : nt = BloquesNecesarios(t)
    OBVIOUS
  <1> PICK m : m = BloquesNecesarios(e.tamanio)
    OBVIOUS
  <1> PICK ini : ini = l[p].inicial
    OBVIOUS
  <1>2. \A j \in 1..n : d.lista[j].inicial # e.inicial => d.meta[d.lista[j].nombre] # NoHay
    BY DEF SanoCon, Fieles
  <1>3. Aparte(d, e) \in EnMedio(n, Aparte(d, e), ini)
    BY <1>2, TiposDeAparte
  <1>4. PICK h : Turnos(h, n, Aparte(d, e), ini) /\ Mudados(Aparte(d, e), ini, l) = h[n]
    BY <1>1, <1>3, PorTurnos
  <1>5. mv = h[n]
    BY <1>4 DEF Movidos
  <1>6. mv \in Discos(n)
    BY <1>4, <1>5 DEF Turnos, EnMedio
  <1> PICK T : T = Cardinality(Tomados(d.bit))
    OBVIOUS
  <1> PICK K : K = T - m
    OBVIOUS
  <1>7. Parte(Aparte(d, e), 0, 0, l, n, p, d.bloques, K) /\ m <= T
    BY PrimeraParte
  <1>8. \E V : Parte(h[n], n, V, l, n, p, d.bloques, K)
    BY <1>1, <1>4, <1>7, TrasLosTurnos
  <1>9. PICK V : Parte(mv, n, V, l, n, p, d.bloques, K)
    BY <1>5, <1>8
  <1>10. K = V /\ \A x \in Bits : mv.bit[x] <=> x < V
    BY <1>9, UltimaParte
  <1>11. V \in Nat
    BY <1>9 DEF Parte
  <1>12. t \in Nat /\ e.tamanio \in Nat
    BY <1>1, TamaniosAssumption, TiposDeEntrada
  <1>13. nt \in Nat \ {0} /\ m \in Nat \ {0}
    BY <1>12, TiposDeTecho
  <1>14. V + nt <= NBloques
    <2> DEFINE u == Techo(e.tamanio)
    <2>1. u \in Nat /\ u <= m
      BY <1>12, TechoMonotono, TiposDeTecho
    <2>2. nt = Techo(t)
      BY <1>12, TiposDeTecho
    <2>3. T \in Nat
      <3>1. IsFiniteSet(Tomados(d.bit))
        BY DiscoFinito, FS_Subset DEF Tomados
      <3> QED BY <3>1, FS_CardinalityType
    <2>4. nt - u <= NBloques - T
      BY <2>2
    <2> HIDE DEF u
    <2>5. V = T - m
      BY <1>10
    <2> QED BY <1>11, <1>13, <2>1, <2>3, <2>4, <2>5, NBloquesAssumption
  <1>15. PrimerLugar(mv.bit, nt) = V
    <2>1. \A x \in Nat : x < V + nt => x \in Bits
      <3>1. \A x \in Nat : x < V + nt => x \in Disco
        BY <1>11, <1>13, <1>14, NBloquesAssumption DEF Disco
      <3> QED BY <3>1, DiscoEnBits
    <2>2. \A x \in Nat : x < V => mv.bit[x]
      <3>1. \A x \in Nat : x < V => x < V + nt
        BY <1>11, <1>13
      <3> QED BY <1>10, <2>1, <3>1
    <2>3. \A x \in Nat : V <= x /\ x < V + nt => ~mv.bit[x]
      <3>1. \A x \in Nat : V <= x => ~(x < V)
        BY <1>11
      <3> QED BY <1>10, <2>1, <3>1
    <2> QED BY <1>11, <1>13, <1>14, <2>2, <2>3, ElLugar
  <1>16. PICK k \in 1..n : mv.lista[k].nombre = e.nombre /\ c = Compactado(d, e, t, mv, nt, V, k)
    <2>1. \E j \in 1..n : d.lista[j].nombre = e.nombre
      BY <1>1
    <2>2. \E k \in 1..n :
                /\ mv.lista[k].nombre = e.nombre
                /\ k = Posicion(mv.lista, e.nombre)
                /\ Compactar(d, e, t) = Compactado(d, e, t, mv, nt, V, k)
      BY <1>1, <1>2, <1>15, <2>1, FormaDeCompactar
    <2> QED BY <2>2
  <1>17. k = p
    <2>1. mv.lista[p].nombre = e.nombre
      BY <1>1, <1>9 DEF Parte, PListas
    <2>2. \A i, j \in 1..n : mv.lista[i].nombre = mv.lista[j].nombre => i = j
      BY <1>9 DEF Parte, Fieles
    <2> QED BY <1>16, <2>1, <2>2
  <1>18. c = Compactado(d, e, t, mv, nt, V, p)
    BY <1>16, <1>17
  <1>19. Ocupa(e) \subseteq Disco
    BY DEF SanoCon, Apartados
  <1>20. SanoCon(c.bit, c.meta, c.lista, n) /\ Conservado(d, c, l, n, p, t)
    <2>1. /\ l \in [1..n -> Entradas] /\ Ocupa(l[p]) \subseteq Disco /\ t > l[p].tamanio
          /\ V + BloquesNecesarios(t) <= NBloques
      BY <1>1, <1>14, <1>19
    <2>2. c = Compactado(d, l[p], t, mv, BloquesNecesarios(t), V, p)
      BY <1>18
    <2>3. Parte(mv, n, V, l, n, p, d.bloques, V)
      BY <1>9, <1>10
    <2> QED BY <1>6, <2>1, <2>2, <2>3, LaUltimaMudanza
  <1> QED BY <1>20

(* A sound disk is sound whatever the order of the list.                   *)
EnOrden(l, n) ==
    /\ l \in [1..n -> Entradas] /\ SanoCon(bit, meta, l, n) /\ Fila(l, n)
    /\ \A i \in 1..n : \E j \in 1..n : l[j] = archivos_fs[i]

LEMMA SanoOrdenado ==
    ASSUME DialInv, SanoPorLista, NEW l \in Ordenadas(archivos_fs)
    PROVE  EnOrden(l, Len(archivos_fs))
  <1> PICK n : n = Len(archivos_fs)
    OBVIOUS
  <1>1. n \in Nat /\ archivos_fs \in Seq(Entradas) /\ SanoCon(bit, meta, archivos_fs, n)
    BY TiposDeDial DEF DialInv, SanoPorLista
  <1>2. l \in [1..n -> Entradas] /\ \A i, j \in 1..n : i < j => l[i].inicial <= l[j].inicial
    BY <1>1, LosMismos
  <1>3. PICK f \in [1..n -> 1..n] : /\ \A i, j \in 1..n : f[i] = f[j] => i = j
                                    /\ \A i \in 1..n : l[i] = archivos_fs[f[i]]
                                    /\ \A i \in 1..n : \E j \in 1..n : f[j] = i
    <2>1. \E f \in [1..Len(archivos_fs) -> 1..Len(archivos_fs)] :
                /\ IsInjective(f)
                /\ \A i \in 1..Len(archivos_fs) : l[i] = archivos_fs[f[i]]
                /\ \A i \in 1..Len(archivos_fs) : \E j \in 1..Len(archivos_fs) : f[j] = i
      BY <1>1, LosMismos
    <2>2. PICK f \in [1..Len(archivos_fs) -> 1..Len(archivos_fs)] :
                /\ IsInjective(f)
                /\ \A i \in 1..Len(archivos_fs) : l[i] = archivos_fs[f[i]]
                /\ \A i \in 1..Len(archivos_fs) : \E j \in 1..Len(archivos_fs) : f[j] = i
      BY <2>1
    <2>3. f \in [1..n -> 1..n]
      OBVIOUS
    <2>4. \A i, j \in 1..n : f[i] = f[j] => i = j
      BY <2>2, <2>3 DEF IsInjective
    <2> QED BY <2>2, <2>3, <2>4
  <1>4. /\ \A i \in 1..n : f[i] \in 1..n /\ l[i] = archivos_fs[f[i]]
        /\ \A i, j \in 1..n : i # j => f[i] # f[j]
    BY <1>3
  <1>5. Fieles(meta, archivos_fs, n) /\ Apartados(archivos_fs, n) /\ Marca(bit, archivos_fs, n)
    BY <1>1 DEF SanoCon
  <1>6. Fieles(meta, l, n)
    <2>1. \A j \in 1..n : /\ meta[l[j].nombre] # NoHay
                          /\ meta[l[j].nombre].inicial = l[j].inicial
                          /\ meta[l[j].nombre].tamanio = l[j].tamanio
      <3> TAKE j \in 1..n
      <3>1. l[j] = archivos_fs[f[j]] /\ f[j] \in 1..n
        BY <1>4
      <3> QED BY <1>5, <3>1 DEF Fieles
    <2>2. ASSUME NEW i \in 1..n, NEW j \in 1..n, l[i].nombre = l[j].nombre PROVE i = j
      <3>1. f[i] = f[j]
        BY <1>4, <1>5, <2>2 DEF Fieles
      <3> QED BY <1>3, <3>1
    <2>3. ASSUME NEW a \in Archivos, meta[a] # NoHay PROVE \E j \in 1..n : l[j].nombre = a
      <3>1. PICK i \in 1..n : archivos_fs[i].nombre = a
        BY <1>5, <2>3 DEF Fieles
      <3>2. PICK j \in 1..n : f[j] = i
        BY <1>3
      <3> QED BY <1>3, <3>1, <3>2
    <2> QED BY <2>1, <2>2, <2>3 DEF Fieles
  <1>7. Apartados(l, n)
    <2>1. ASSUME NEW j \in 1..n PROVE Ocupa(l[j]) \subseteq Disco
      <3>1. l[j] = archivos_fs[f[j]] /\ f[j] \in 1..n
        BY <1>4
      <3> QED BY <1>5, <3>1 DEF Apartados
    <2>2. ASSUME NEW i \in 1..n, NEW j \in 1..n, i # j PROVE Ocupa(l[i]) \cap Ocupa(l[j]) = {}
      <3>1. l[i] = archivos_fs[f[i]] /\ l[j] = archivos_fs[f[j]] /\ f[i] \in 1..n /\ f[j] \in 1..n /\ f[i] # f[j]
        BY <1>4, <2>2
      <3> QED BY <1>5, <3>1 DEF Apartados
    <2> QED BY <2>1, <2>2 DEF Apartados
  <1>8. Marca(bit, l, n)
    <2> SUFFICES ASSUME NEW x \in Bits PROVE bit[x] <=> \E j \in 1..n : x \in Ocupa(l[j])
      BY DEF Marca
    <2>1. bit[x] <=> \E i \in 1..n : x \in Ocupa(archivos_fs[i])
      BY <1>5 DEF Marca
    <2>2. (\E j \in 1..n : x \in Ocupa(l[j])) => \E i \in 1..n : x \in Ocupa(archivos_fs[i])
      BY <1>4
    <2>3. ASSUME NEW i \in 1..n, x \in Ocupa(archivos_fs[i]) PROVE \E j \in 1..n : x \in Ocupa(l[j])
      <3>1. PICK j \in 1..n : f[j] = i
        BY <1>3
      <3>2. l[j] = archivos_fs[i]
        BY <1>4, <3>1
      <3> QED BY <2>3, <3>2
    <2> QED BY <2>1, <2>2, <2>3
  <1>9. Fila(l, n)
    BY <1>1, <1>2, <1>7, EnFila
  <1>10. SanoCon(bit, meta, l, n)
    BY <1>6, <1>7, <1>8 DEF SanoCon
  <1>11. \A i \in 1..n : \E j \in 1..n : l[j] = archivos_fs[i]
    <2> TAKE i \in 1..n
    <2>1. PICK j \in 1..n : f[j] = i
      BY <1>3
    <2> QED BY <1>4, <2>1
  <1>12. EnOrden(l, n)
    BY <1>2, <1>9, <1>10, <1>11 DEF EnOrden
  <1> QED BY <1>12

LEMMA SanoDespues ==
    ASSUME DialInv'
    PROVE  Sano' <=> SanoPorLista'
  BY SanoEsPorLista, PTL

(* What a file has is read from its blocks, one by one.                    *)
LEMMA Prefijo ==
    ASSUME NEW s, NEW S, s \in Seq(S), NEW u \in Seq(S), Len(s) <= Len(u), \A q \in 1..Len(s) : s[q] = u[q]
    PROVE  IsPrefix(s, u)
  <1> DEFINE n == Len(s)
  <1>1. n \in Nat /\ n <= Len(u) /\ \A q \in 1..n : s[q] \in S /\ u[q] \in S /\ s[q] = u[q]
    <2>1. \A q \in 1..Len(s) : q \in 1..Len(u)
      OBVIOUS
    <2> QED BY <2>1
  <1> HIDE DEF n
  <1>2. /\ SubSeq(s, 1, n) \in Seq(S) /\ Len(SubSeq(s, 1, n)) = IF 1 <= n THEN n - 1 + 1 ELSE 0
        /\ \A i \in 1 .. n - 1 + 1 : SubSeq(s, 1, n)[i] = s[1 + i - 1]
    BY <1>1, SubSeqProperties
  <1>3. /\ SubSeq(u, 1, n) \in Seq(S) /\ Len(SubSeq(u, 1, n)) = IF 1 <= n THEN n - 1 + 1 ELSE 0
        /\ \A i \in 1 .. n - 1 + 1 : SubSeq(u, 1, n)[i] = u[1 + i - 1]
    BY <1>1, SubSeqProperties
  <1>4. Len(SubSeq(s, 1, n)) = n /\ Len(SubSeq(u, 1, n)) = n /\ n - 1 + 1 = n
    BY <1>1, <1>2, <1>3
  <1>5. \A i \in 1..n : SubSeq(s, 1, n)[i] = SubSeq(u, 1, n)[i]
    <2> TAKE i \in 1..n
    <2>1. 1 + i - 1 = i /\ i \in 1 .. n - 1 + 1
      BY <1>4
    <2>2. SubSeq(s, 1, n)[i] = s[i] /\ SubSeq(u, 1, n)[i] = u[i]
      BY <1>2, <1>3, <2>1
    <2> QED BY <1>1, <2>2
  <1>6. SubSeq(s, 1, n) = SubSeq(u, 1, n)
    BY <1>2, <1>3, <1>4, <1>5, SeqEqual
  <1> QED BY <1>1, <1>6 DEF IsPrefix, n

LEMMA EspacioQueQueda ==
    ASSUME NEW b
    PROVE  Cardinality({x \in Disco : ~b[x]}) = NBloques - Cardinality(Tomados(b))
  <1>1. {x \in Disco : ~b[x]} = Disco \ Tomados(b) /\ Tomados(b) \subseteq Disco
    BY DEF Tomados
  <1> QED BY <1>1, DiscoFinito, CuentaSinPisar

(* A compaction for the file a, as a step of the interface.                *)
LEMMA CompactadaSana ==
    ASSUME DialInv, DialInv', Sano, NEW a \in Archivos, NEW t \in Tamanios, AmpliarCompactando(a, t),
           ~CompactarSeCae(EntradaDe(archivos_fs, a))
    PROVE  Sano' /\ caido' = caido /\ \A b \in Presentes : IsPrefix(Contenido(b), Contenido(b)')
  <1> PICK n : n = Len(archivos_fs)
    OBVIOUS
  <1> PICK e : e = EntradaDe(archivos_fs, a)
    OBVIOUS
  <1>1. SanoPorLista
    BY SanoEsPorLista
  <1>2. n \in Nat /\ SanoCon(bit, meta, archivos_fs, n) /\ archivos_fs \in Seq(Entradas)
    BY <1>1, TiposDeDial DEF SanoPorLista, DialInv
  <1>4. Existe(a) /\ t > e.tamanio /\ HayEspacio(e, t)
    BY DEF AmpliarCompactando, Agranda
  <1>5. PICK i \in 1..n : e = archivos_fs[i] /\ e \in Entradas /\ e.nombre = a
    BY <1>4, EntradaDeExistente DEF EntradaDe
  <1>7. t \in Nat /\ e.tamanio \in Nat
    BY <1>5, TiposDeEntrada, TamaniosAssumption
  <1>10. PICK l \in Ordenadas(archivos_fs) :
                    LET d == Compactar([bit |-> bit, bloques |-> bloques, meta |-> meta,
                                        lista |-> l], e, t)
                    IN  /\ bit' = d.bit
                        /\ bloques' = d.bloques
                        /\ meta' = d.meta
                        /\ archivos_fs' = d.lista
    BY DEF AmpliarCompactando
  <1>11. caido' = caido
    BY DEF AmpliarCompactando
  <1> PICK d : d = [bit |-> bit, bloques |-> bloques, meta |-> meta, lista |-> l]
    OBVIOUS
  <1> PICK c : c = Compactar(d, e, t)
    OBVIOUS
  <1>12. bit' = c.bit /\ bloques' = c.bloques /\ meta' = c.meta /\ archivos_fs' = c.lista
    BY <1>10
  <1>13. d.bit = bit /\ d.bloques = bloques /\ d.meta = meta /\ d.lista = l
    OBVIOUS
  <1>14. /\ l \in [1..n -> Entradas] /\ SanoCon(bit, meta, l, n) /\ Fila(l, n)
         /\ \A q \in 1..n : \E j \in 1..n : l[j] = archivos_fs[q]
    <2>1. EnOrden(l, n)
      BY <1>1, SanoOrdenado
    <2> QED BY <2>1 DEF EnOrden
  <1>15. PICK p \in 1..n : l[p] = e
    BY <1>5, <1>14
  <1>16. /\ bit \in Mapas /\ bloques \in [Disco -> Contenidos] /\ meta \in Metas
    BY TiposDeDial DEF DialInv
  <1>17. d \in Discos(n)
    BY <1>14, <1>16 DEF Discos
  <1>18. Techo(t) - Techo(e.tamanio) <= NBloques - Cardinality(Tomados(bit))
    BY <1>4, EspacioQueQueda DEF HayEspacio, AAgregar
  <1>19. SanoCon(c.bit, c.meta, c.lista, n) /\ Conservado(d, c, l, n, p, t)
    <2>1. SanoCon(d.bit, d.meta, d.lista, n) /\ Fila(d.lista, n) /\ d.lista[p] = e
      BY <1>13, <1>14, <1>15
    <2>2. Techo(t) - Techo(d.lista[p].tamanio) <= NBloques - Cardinality(Tomados(d.bit))
      BY <1>13, <1>18, <2>1
    <2>3. t > d.lista[p].tamanio /\ c = Compactar(d, d.lista[p], t)
      BY <1>4, <2>1
    <2>4. SanoCon(c.bit, c.meta, c.lista, n) /\ Conservado(d, c, d.lista, n, p, t)
      BY <1>2, <1>17, <2>1, <2>2, <2>3, SanoCompactado
    <2> QED BY <1>13, <2>4
  <1>20. archivos_fs' \in [1..n -> Entradas] /\ Len(archivos_fs') = n
    <2>1. c.lista \in [1..n -> Entradas]
      <3>1. c \in Discos(n)
        <4>1. \E j \in 1..n : d.lista[j].nombre = e.nombre
          BY <1>13, <1>15
        <4>2. d.meta[e.nombre] # NoHay
          BY <1>4, <1>5, <1>13 DEF Existe
        <4>3. \A j \in 1..n : d.lista[j].inicial # e.inicial => d.meta[d.lista[j].nombre] # NoHay
          BY <1>13, <1>14 DEF SanoCon, Fieles
        <4> QED BY <1>2, <1>5, <1>17, <4>1, <4>2, <4>3, TiposDeCompactar
      <3> QED BY <3>1 DEF Discos
    <2>2. archivos_fs' \in [1..n -> Entradas]
      BY <1>12, <2>1
    <2> QED BY <1>2, <2>2
  <1>21. Sano'
    <2>1. SanoPorLista'
      BY <1>12, <1>19, <1>20 DEF SanoPorLista
    <2> QED BY <2>1, SanoDespues
  <1>22. ASSUME NEW b \in Presentes PROVE IsPrefix(Contenido(b), Contenido(b)')
    <2>1. b \in Archivos /\ meta[b] # NoHay
      BY DEF Presentes, Existe
    <2>2. PICK j \in 1..n : l[j].nombre = b
      BY <1>14, <2>1 DEF SanoCon, Fieles
    <2>3. meta[b].inicial = l[j].inicial /\ meta[b].tamanio = l[j].tamanio
      BY <1>14, <2>2 DEF SanoCon, Fieles
    <2>4. /\ c.lista[j].nombre = b /\ c.lista[j].tamanio = IF j = p THEN t ELSE l[j].tamanio
          /\ \A q \in Nat : q < BloquesNecesarios(l[j].tamanio) =>
              c.bloques[c.lista[j].inicial + q] = bloques[l[j].inicial + q]
      BY <1>13, <1>19, <2>2 DEF Conservado
    <2>5. meta'[b].inicial = c.lista[j].inicial /\ meta'[b].tamanio = c.lista[j].tamanio
      BY <1>12, <1>19, <2>4 DEF SanoCon, Fieles
    <2> PICK k : k = BloquesNecesarios(l[j].tamanio)
      OBVIOUS
    <2> PICK r : r = BloquesNecesarios(c.lista[j].tamanio)
      OBVIOUS
    <2> PICK x : x = l[j].inicial
      OBVIOUS
    <2> PICK y : y = c.lista[j].inicial
      OBVIOUS
    <2>6. /\ l[j] \in Entradas /\ c.lista[j] \in Entradas
      BY <1>12, <1>14, <1>20
    <2>7. k \in Nat /\ r \in Nat /\ x \in Int /\ y \in Int /\ l[j].tamanio \in Nat
      BY <2>6, TiposDeEntrada
    <2>8. k <= r
      <3>1. l[j].tamanio <= c.lista[j].tamanio /\ c.lista[j].tamanio \in Nat
        <4>1. CASE j = p
          BY <1>4, <1>7, <1>15, <2>4, <4>1
        <4>2. CASE j # p
          BY <2>4, <2>7, <4>2
        <4> QED BY <4>1, <4>2
      <3> QED BY <2>7, <3>1, TechoMonotono
    <2> DEFINE s == LeerBloques(bloques, x, k)
               u == LeerBloques(c.bloques, y, r)
    <2>9. Contenido(b) = s /\ Contenido(b)' = u
      BY <1>12, <2>3, <2>5 DEF Contenido
    <2>10. s \in Seq(Contenidos) /\ Len(s) = k
      BY <1>16, <2>7, LoLeido
    <2>11. u \in Seq(Contenidos) /\ Len(u) = r
      <3>1. bloques' \in [Disco -> Contenidos]
        BY DEF DialInv, TypeOK, Contenidos
      <3> QED BY <1>12, <2>7, <3>1, LoLeido
    <2>12. ASSUME NEW q \in 1..k PROVE s[q] = u[q]
      <3>1. q \in 1..r /\ q - 1 \in Nat /\ q - 1 < k /\ x + (q - 1) = x + q - 1 /\ y + (q - 1) = y + q - 1
        BY <2>7, <2>8
      <3>2. c.bloques[y + q - 1] = bloques[x + q - 1]
        BY <2>4, <3>1
      <3>3. x + q - 1 \in Disco
        <4>1. x + q - 1 \in Ocupa(l[j])
          <5>1. x + q - 1 \in Int /\ x <= x + q - 1 /\ x + q - 1 < x + k
            BY <2>7
          <5> QED BY <2>6, <5>1, LoQueOcupa DEF Fin
        <4>2. Ocupa(l[j]) \subseteq Disco
          BY <1>14 DEF SanoCon, Apartados
        <4> QED BY <4>1, <4>2
      <3>4. y + q - 1 \in Disco
        <4>1. y + q - 1 \in Ocupa(c.lista[j])
          <5>1. y + q - 1 \in Int /\ y <= y + q - 1 /\ y + q - 1 < y + r
            BY <2>7, <2>8
          <5> QED BY <2>6, <5>1, LoQueOcupa DEF Fin
        <4>2. Ocupa(c.lista[j]) \subseteq Disco
          BY <1>19 DEF SanoCon, Apartados
        <4> QED BY <4>1, <4>2
      <3>5. s[q] = bloques[x + q - 1]
        BY <3>3 DEF LeerBloques
      <3>6. u[q] = c.bloques[y + q - 1]
        BY <3>1, <3>4 DEF LeerBloques
      <3> QED BY <3>2, <3>5, <3>6
    <2> HIDE DEF s, u
    <2>13. IsPrefix(s, u)
      BY <2>8, <2>10, <2>11, <2>12, Prefijo
    <2> QED BY <2>9, <2>13
  <1> QED BY <1>11, <1>21, <1>22

LEMMA CompactoConserva ==
    ASSUME DialInv, DialInv', Sano, [DialNext]_vars, NEW a \in Archivos, NEW t \in Tamanios, Compacto(a, t)
    PROVE  Sano' /\ ~caido' /\ \A b \in Presentes : IsPrefix(Contenido(b), Contenido(b)')
  <1> PICK e : e = EntradaDe(archivos_fs, a)
    OBVIOUS
  <1>1. meta'[a].tamanio = t /\ AmpliarCompactando(a, t) /\ Existe(a) /\ t > e.tamanio
    BY DEF Compacto, AmpliarCompactando, Agranda
  <1>2. Fieles(meta, archivos_fs, Len(archivos_fs))
    BY SanoEsPorLista DEF SanoPorLista, SanoCon
  <1>3. meta[a].tamanio = e.tamanio /\ e.tamanio \in Nat
    <2>1. PICK i \in 1..Len(archivos_fs) : e = archivos_fs[i] /\ e \in Entradas /\ e.nombre = a
      BY <1>1, EntradaDeExistente DEF EntradaDe
    <2> QED BY <1>2, <2>1, TiposDeEntrada DEF Fieles
  <1>4. meta' # meta
    <2>1. t # e.tamanio
      BY <1>1, <1>3, TamaniosAssumption
    <2> QED BY <1>1, <1>3, <2>1
  <1>5. ~caido
    BY <1>4 DEF DialNext, vars
  <1>6. ~CompactarSeCae(e)
    BY <1>1, <1>4 DEF AmpliarCompactando
  <1> QED BY <1>1, <1>5, <1>6, CompactadaSana

(* A compaction of a sound disk finds a place for every file it moves and  *)
(* for the one that grows, does not touch memory out of its maps, and      *)
(* leaves a sound disk where every file has what it had, and in order: the *)
(* loop moves each file down over blocks that nobody has any more.         *)
THEOREM CompactarNoPierde == DialSpec => CompactarConserva
  <1>1. ASSUME DialInv, DialInv', [DialNext]_vars
        PROVE  [ ((\E a \in Archivos, t \in Tamanios : Compacto(a, t)) /\ Sano)
                    => /\ Sano' /\ ~caido'
                       /\ \A a \in Presentes : IsPrefix(Contenido(a), Contenido(a)') ]_vars
    BY <1>1, CompactoConserva
  <1> QED BY <1>1, DialInicial, DialInductivo, PTL DEF DialSpec, CompactarConserva

-----------------------------------------------------------------------------
(* What the other operations do to a sound disk.                           *)

(* The same list, metadata and bitmap.                                     *)
LEMMA SanoSinTocar ==
    ASSUME Sano, UNCHANGED <<bit, meta, archivos_fs>>
    PROVE  Sano'
  BY DEF Sano, ListaFiel, Disjuntos, BitmapExacto, Presentes, Existe, Ocupa

LEMMA UnBloque ==
    ASSUME NEW inicio \in Int
    PROVE  Desde(inicio, 1) = {inicio} /\ BloquesNecesarios(0) = 1
  BY DEF Desde, BloquesNecesarios

(* A file that is not there, in a block that is free.                      *)
LEMMA CrearSano ==
    ASSUME DialInv, DialInv', Sano, NEW a \in Archivos, CrearArchivo(a),
           ~Existe(a), PrimerLugar(bit, 1) # -1
    PROVE  Sano'
  <1> PICK n : n = Len(archivos_fs)
    OBVIOUS
  <1> PICK libre : libre = PrimerLugar(bit, 1)
    OBVIOUS
  <1> PICK x : x = [nombre |-> a, inicial |-> libre, tamanio |-> 0]
    OBVIOUS
  <1>1. /\ n \in Nat /\ archivos_fs \in Seq(Entradas) /\ meta \in Metas /\ bit \in Mapas
        /\ \A j \in 1..n : archivos_fs[j] \in Entradas /\ archivos_fs[j].nombre \in Archivos
    <2>1. /\ n \in Nat /\ archivos_fs \in Seq(Entradas) /\ meta \in Metas /\ bit \in Mapas
          /\ \A j \in 1..n : archivos_fs[j] \in Entradas
      BY TiposDeDial DEF DialInv
    <2> QED BY <2>1, TiposDeEntrada
  <1>2. Fieles(meta, archivos_fs, n) /\ Apartados(archivos_fs, n) /\ Marca(bit, archivos_fs, n)
    BY SanoEsPorLista DEF SanoPorLista, SanoCon
  <1>3. libre \in Disco /\ ~bit[libre] /\ libre \in Bits /\ libre \in Int
    <2>1. libre \in Disco \cup {-1} /\ libre # -1 /\ libre \in LugaresLibres(bit, 1)
      BY EnElDisco
    <2>2. libre \in Disco /\ libre \in Int
      BY <2>1, NBloquesAssumption DEF Disco
    <2>3. libre \in Desde(libre, 1)
      BY <2>2, UnBloque
    <2> QED BY <2>1, <2>2, <2>3, DiscoEnBits DEF LugaresLibres
  <1>4. /\ bit' = Marcados(bit, {libre})
        /\ meta' = [meta EXCEPT ![a] = [inicial |-> libre, tamanio |-> 0]]
        /\ archivos_fs' = Append(archivos_fs, x)
    BY DEF CrearArchivo
  <1>5. x \in Entradas /\ x.nombre = a /\ x.inicial = libre /\ x.tamanio = 0
    BY <1>3 DEF Entradas
  <1>6. /\ Len(archivos_fs') = n + 1 /\ archivos_fs'[n + 1] = x
        /\ \A i \in 1..n : archivos_fs'[i] = archivos_fs[i]
    BY <1>1, <1>4, <1>5, AppendProperties
  <1>7. /\ meta'[a] # NoHay /\ meta'[a].inicial = libre /\ meta'[a].tamanio = 0
        /\ \A b \in Archivos : b # a => meta'[b] = meta[b]
    <2> DEFINE y == [inicial |-> libre, tamanio |-> 0]
    <2>1. y \in Registro /\ y.inicial = libre /\ y.tamanio = 0
      BY <1>3 DEF Registro
    <2> HIDE DEF y
    <2>2. meta'[a] = y /\ \A b \in Archivos : b # a => meta'[b] = meta[b]
      BY <1>1, <1>4 DEF Metas, y
    <2> QED BY <2>1, <2>2, NoHayNoEsRegistro
  <1>8. Ocupa(x) = {libre}
    <2>1. Ocupa(x) = Desde(libre, 1)
      BY <1>5, LoQueOcupa, UnBloque, <1>3
    <2> QED BY <1>3, <2>1, UnBloque
  <1>9. \A j \in 1..(n + 1) : j = n + 1 \/ j \in 1..n
    BY <1>1
  <1>10. n + 1 \in 1..(n + 1) /\ \A j \in 1..n : j \in 1..(n + 1) /\ j # n + 1
    BY <1>1
  <1>11. \A j \in 1..n : archivos_fs[j].nombre # a
    BY <1>2 DEF Fieles, Existe
  <1>12. Fieles(meta', archivos_fs', n + 1)
    <2>1. ASSUME NEW j \in 1..(n + 1)
          PROVE  /\ meta'[archivos_fs'[j].nombre] # NoHay
                 /\ meta'[archivos_fs'[j].nombre].inicial = archivos_fs'[j].inicial
                 /\ meta'[archivos_fs'[j].nombre].tamanio = archivos_fs'[j].tamanio
      <3>1. CASE j = n + 1
        BY <1>5, <1>6, <1>7, <3>1
      <3>2. CASE j \in 1..n
        <4>1. archivos_fs'[j] = archivos_fs[j] /\ meta'[archivos_fs[j].nombre] = meta[archivos_fs[j].nombre]
          BY <1>1, <1>6, <1>7, <1>11, <3>2
        <4> QED BY <1>2, <3>2, <4>1 DEF Fieles
      <3> QED BY <1>9, <3>1, <3>2
    <2>2. ASSUME NEW i \in 1..(n + 1), NEW j \in 1..(n + 1), archivos_fs'[i].nombre = archivos_fs'[j].nombre
          PROVE  i = j
      <3>1. \A k \in 1..n : archivos_fs'[k].nombre = archivos_fs[k].nombre
        BY <1>6
      <3>2. archivos_fs'[n + 1].nombre = a
        BY <1>5, <1>6
      <3>3. CASE i = n + 1
        BY <1>9, <1>11, <2>2, <3>1, <3>2, <3>3
      <3>4. CASE i \in 1..n
        <4>1. j \in 1..n
          BY <1>9, <1>11, <2>2, <3>1, <3>2, <3>4
        <4> QED BY <1>2, <2>2, <3>1, <3>4, <4>1 DEF Fieles
      <3> QED BY <1>9, <3>3, <3>4
    <2>3. ASSUME NEW b \in Archivos, meta'[b] # NoHay PROVE \E j \in 1..(n + 1) : archivos_fs'[j].nombre = b
      <3>1. CASE b = a
        BY <1>5, <1>6, <1>10, <3>1
      <3>2. CASE b # a
        <4>1. meta[b] # NoHay
          BY <1>7, <2>3, <3>2
        <4>2. PICK j \in 1..n : archivos_fs[j].nombre = b
          BY <1>2, <4>1 DEF Fieles
        <4> QED BY <1>6, <1>10, <4>2
      <3> QED BY <3>1, <3>2
    <2> QED BY <2>1, <2>2, <2>3 DEF Fieles
  <1>13. \A j \in 1..n : libre \notin Ocupa(archivos_fs[j])
    BY <1>2, <1>3 DEF Marca
  <1>14. Apartados(archivos_fs', n + 1)
    <2>1. ASSUME NEW j \in 1..(n + 1) PROVE Ocupa(archivos_fs'[j]) \subseteq Disco
      <3>1. CASE j = n + 1
        BY <1>3, <1>6, <1>8, <3>1
      <3>2. CASE j \in 1..n
        BY <1>2, <1>6, <3>2 DEF Apartados
      <3> QED BY <1>9, <3>1, <3>2
    <2>2. \A j \in 1..n : Ocupa(archivos_fs'[j]) \cap Ocupa(archivos_fs'[n + 1]) = {}
      BY <1>6, <1>8, <1>13
    <2>3. \A i, j \in 1..n : i # j => Ocupa(archivos_fs'[i]) \cap Ocupa(archivos_fs'[j]) = {}
      BY <1>2, <1>6 DEF Apartados
    <2>4. ASSUME NEW i \in 1..(n + 1), NEW j \in 1..(n + 1), i # j
          PROVE  Ocupa(archivos_fs'[i]) \cap Ocupa(archivos_fs'[j]) = {}
      <3>1. CASE i = n + 1
        <4>1. j \in 1..n
          BY <1>9, <2>4, <3>1
        <4> QED BY <2>2, <3>1, <4>1
      <3>2. CASE j = n + 1
        <4>1. i \in 1..n
          BY <1>9, <2>4, <3>2
        <4> QED BY <2>2, <3>2, <4>1
      <3>3. CASE i \in 1..n /\ j \in 1..n
        BY <2>3, <2>4, <3>3
      <3> QED BY <1>9, <3>1, <3>2, <3>3
    <2> QED BY <2>1, <2>4 DEF Apartados
  <1>15. Marca(bit', archivos_fs', n + 1)
    <2> SUFFICES ASSUME NEW z \in Bits PROVE bit'[z] <=> \E j \in 1..(n + 1) : z \in Ocupa(archivos_fs'[j])
      BY DEF Marca
    <2>1. bit'[z] <=> bit[z] \/ z = libre
      BY <1>4 DEF Marcados
    <2>2. bit[z] <=> \E j \in 1..n : z \in Ocupa(archivos_fs[j])
      BY <1>2 DEF Marca
    <2>3. (\E j \in 1..(n + 1) : z \in Ocupa(archivos_fs'[j])) <=> z = libre \/ \E j \in 1..n : z \in Ocupa(archivos_fs[j])
      BY <1>6, <1>8, <1>9, <1>10
    <2> QED BY <2>1, <2>2, <2>3
  <1>16. SanoPorLista'
    BY <1>6, <1>12, <1>14, <1>15 DEF SanoPorLista, SanoCon
  <1> QED BY <1>16, SanoDespues

(* A file is taken out of the list, and only its blocks are freed.         *)
LEMMA EliminarSano ==
    ASSUME DialInv, DialInv', Sano, NEW a \in Archivos, EliminarArchivo(a)
    PROVE  Sano'
  <1> PICK n : n = Len(archivos_fs)
    OBVIOUS
  <1> PICK i : i = Posicion(archivos_fs, a)
    OBVIOUS
  <1>1. /\ n \in Nat /\ archivos_fs \in Seq(Entradas) /\ meta \in Metas /\ bit \in Mapas
        /\ \A j \in 1..n : archivos_fs[j] \in Entradas /\ archivos_fs[j].nombre \in Archivos
    <2>1. /\ n \in Nat /\ archivos_fs \in Seq(Entradas) /\ meta \in Metas /\ bit \in Mapas
          /\ \A j \in 1..n : archivos_fs[j] \in Entradas
      BY TiposDeDial DEF DialInv
    <2> QED BY <2>1, TiposDeEntrada
  <1>2. Fieles(meta, archivos_fs, n) /\ Apartados(archivos_fs, n) /\ Marca(bit, archivos_fs, n)
    BY SanoEsPorLista DEF SanoPorLista, SanoCon
  <1>3. i \in 1..n /\ archivos_fs[i].nombre = a
    BY EntradaDeExistente DEF EliminarArchivo
  <1>4. /\ archivos_fs' = RemoveAt(archivos_fs, i)
        /\ bit' = Liberados(bit, BloquesOcupados(meta[a]))
        /\ meta' = [meta EXCEPT ![a] = NoHay]
    BY <1>1, <1>3 DEF EliminarArchivo
  <1> PICK s : s = [k \in 1..(n - 1) |-> IF k < i THEN k ELSE k + 1]
    OBVIOUS
  <1>5. /\ \A k \in 1..(n - 1) : s[k] \in 1..n /\ s[k] # i
        /\ \A k, q \in 1..(n - 1) : s[k] = s[q] => k = q
        /\ \A j \in 1..n : j # i => \E k \in 1..(n - 1) : s[k] = j
    <2>1. \A k \in 1..(n - 1) : s[k] = IF k < i THEN k ELSE k + 1
      OBVIOUS
    <2>2. \A k \in 1..(n - 1) : s[k] \in 1..n /\ s[k] # i
      BY <1>1, <1>3, <2>1
    <2>3. \A k, q \in 1..(n - 1) : s[k] = s[q] => k = q
      BY <1>1, <1>3, <2>1
    <2>4. ASSUME NEW j \in 1..n, j # i PROVE \E k \in 1..(n - 1) : s[k] = j
      <3>1. CASE j < i
        <4>1. j \in 1..(n - 1)
          BY <1>1, <1>3, <3>1
        <4> QED BY <2>1, <3>1, <4>1
      <3>2. CASE ~(j < i)
        <4>1. j - 1 \in 1..(n - 1) /\ ~(j - 1 < i) /\ (j - 1) + 1 = j
          BY <1>1, <1>3, <2>4, <3>2
        <4> QED BY <2>1, <4>1
      <3> QED BY <3>1, <3>2
    <2> QED BY <2>2, <2>3, <2>4
  <1>6. /\ Len(archivos_fs') = n - 1 /\ n - 1 \in Nat
        /\ \A k \in 1..(n - 1) : archivos_fs'[k] = archivos_fs[s[k]]
    <2>1. /\ Len(archivos_fs') = n - 1
          /\ \A k \in 1..(n - 1) : archivos_fs'[k] = IF k < i THEN archivos_fs[k] ELSE archivos_fs[k + 1]
      BY <1>1, <1>3, <1>4, QuitarUno
    <2> QED BY <1>1, <1>3, <2>1
  <1>7. meta'[a] = NoHay /\ \A b \in Archivos : b # a => meta'[b] = meta[b]
    BY <1>1, <1>4 DEF Metas
  <1>8. \A k \in 1..(n - 1) : archivos_fs[s[k]].nombre # a /\ meta'[archivos_fs[s[k]].nombre] = meta[archivos_fs[s[k]].nombre]
    <2> TAKE k \in 1..(n - 1)
    <2>1. s[k] \in 1..n /\ s[k] # i
      BY <1>5
    <2>2. archivos_fs[s[k]].nombre # a
      BY <1>2, <1>3, <2>1 DEF Fieles
    <2> QED BY <1>1, <1>7, <2>1, <2>2
  <1>9. Fieles(meta', archivos_fs', n - 1)
    <2>1. ASSUME NEW k \in 1..(n - 1)
          PROVE  /\ meta'[archivos_fs'[k].nombre] # NoHay
                 /\ meta'[archivos_fs'[k].nombre].inicial = archivos_fs'[k].inicial
                 /\ meta'[archivos_fs'[k].nombre].tamanio = archivos_fs'[k].tamanio
      <3>1. archivos_fs'[k] = archivos_fs[s[k]] /\ s[k] \in 1..n
        BY <1>5, <1>6
      <3>2. meta'[archivos_fs[s[k]].nombre] = meta[archivos_fs[s[k]].nombre]
        BY <1>8
      <3> QED BY <1>2, <3>1, <3>2 DEF Fieles
    <2>2. ASSUME NEW k \in 1..(n - 1), NEW q \in 1..(n - 1), archivos_fs'[k].nombre = archivos_fs'[q].nombre
          PROVE  k = q
      <3>1. archivos_fs[s[k]].nombre = archivos_fs[s[q]].nombre /\ s[k] \in 1..n /\ s[q] \in 1..n
        BY <1>5, <1>6, <2>2
      <3>2. s[k] = s[q]
        BY <1>2, <3>1 DEF Fieles
      <3> QED BY <1>5, <3>2
    <2>3. ASSUME NEW b \in Archivos, meta'[b] # NoHay PROVE \E k \in 1..(n - 1) : archivos_fs'[k].nombre = b
      <3>1. b # a /\ meta[b] # NoHay
        BY <1>7, <2>3
      <3>2. PICK j \in 1..n : archivos_fs[j].nombre = b
        BY <1>2, <3>1 DEF Fieles
      <3>3. j # i
        BY <1>3, <3>1, <3>2
      <3>4. PICK k \in 1..(n - 1) : s[k] = j
        BY <1>5, <3>3
      <3> QED BY <1>6, <3>2, <3>4
    <2> QED BY <2>1, <2>2, <2>3 DEF Fieles
  <1>10. Apartados(archivos_fs', n - 1)
    <2>1. ASSUME NEW k \in 1..(n - 1) PROVE Ocupa(archivos_fs'[k]) \subseteq Disco
      <3>1. archivos_fs'[k] = archivos_fs[s[k]] /\ s[k] \in 1..n
        BY <1>5, <1>6
      <3> QED BY <1>2, <3>1 DEF Apartados
    <2>2. ASSUME NEW k \in 1..(n - 1), NEW q \in 1..(n - 1), k # q
          PROVE  Ocupa(archivos_fs'[k]) \cap Ocupa(archivos_fs'[q]) = {}
      <3>1. /\ archivos_fs'[k] = archivos_fs[s[k]] /\ s[k] \in 1..n
            /\ archivos_fs'[q] = archivos_fs[s[q]] /\ s[q] \in 1..n /\ s[k] # s[q]
        BY <1>5, <1>6, <2>2
      <3> QED BY <1>2, <3>1 DEF Apartados
    <2> QED BY <2>1, <2>2 DEF Apartados
  <1>11. BloquesOcupados(meta[a]) = Ocupa(archivos_fs[i])
    <2>1. meta[a].inicial = archivos_fs[i].inicial /\ meta[a].tamanio = archivos_fs[i].tamanio
      BY <1>2, <1>3 DEF Fieles
    <2>2. Ocupa(archivos_fs[i]) = Desde(archivos_fs[i].inicial, BloquesNecesarios(archivos_fs[i].tamanio))
      BY <1>1, <1>3, LoQueOcupa
    <2> QED BY <2>1, <2>2 DEF BloquesOcupados
  <1>12. Marca(bit', archivos_fs', n - 1)
    <2> SUFFICES ASSUME NEW z \in Bits PROVE bit'[z] <=> \E k \in 1..(n - 1) : z \in Ocupa(archivos_fs'[k])
      BY DEF Marca
    <2>1. bit'[z] <=> bit[z] /\ z \notin Ocupa(archivos_fs[i])
      BY <1>4, <1>11 DEF Liberados
    <2>2. bit[z] <=> \E j \in 1..n : z \in Ocupa(archivos_fs[j])
      BY <1>2 DEF Marca
    <2>3. \A j \in 1..n : j # i /\ z \in Ocupa(archivos_fs[j]) => z \notin Ocupa(archivos_fs[i])
      BY <1>2, <1>3 DEF Apartados
    <2>4. (\E j \in 1..n : j # i /\ z \in Ocupa(archivos_fs[j])) <=> \E k \in 1..(n - 1) : z \in Ocupa(archivos_fs'[k])
      <3>1. ASSUME NEW j \in 1..n, j # i, z \in Ocupa(archivos_fs[j])
            PROVE  \E k \in 1..(n - 1) : z \in Ocupa(archivos_fs'[k])
        <4>1. PICK k \in 1..(n - 1) : s[k] = j
          BY <1>5, <3>1
        <4> QED BY <1>6, <3>1, <4>1
      <3>2. ASSUME NEW k \in 1..(n - 1), z \in Ocupa(archivos_fs'[k])
            PROVE  \E j \in 1..n : j # i /\ z \in Ocupa(archivos_fs[j])
        <4>1. archivos_fs'[k] = archivos_fs[s[k]] /\ s[k] \in 1..n /\ s[k] # i
          BY <1>5, <1>6
        <4> QED BY <3>2, <4>1
      <3> QED BY <3>1, <3>2
    <2> QED BY <2>1, <2>2, <2>3, <2>4
  <1>13. SanoPorLista'
    BY <1>6, <1>9, <1>10, <1>12 DEF SanoPorLista, SanoCon
  <1> QED BY <1>13, SanoDespues

(* A restart lists what the metadata say, and no file had bits past the    *)
(* last block to lose.                                                     *)
LEMMA ReiniciarSano ==
    ASSUME DialInv, DialInv', Sano, Reiniciar
    PROVE  Sano'
  <1>1. bit \in Mapas /\ meta' = meta /\ Presentes' = Presentes
    BY TiposDeDial DEF DialInv, Reiniciar, Presentes, Existe
  <1>2. \A a \in Presentes : Ocupa(meta[a]) \subseteq Disco
    BY DEF Sano
  <1>3. \A x \in Bits : bit[x] => x \in Disco
    BY <1>2 DEF Sano, BitmapExacto
  <1>4. {x \in Bits : bit'[x]} = {x \in Bits : bit[x]}
    BY <1>3 DEF Reiniciar
  <1>5. PICK k \in Nat : \E l \in [1..k -> Presentes] :
             /\ k = Cardinality(Presentes) /\ IsInjective(l)
             /\ \A a \in Presentes : \E i \in 1..k : l[i] = a
             /\ archivos_fs' = [i \in 1..k |-> [nombre |-> l[i], inicial |-> meta[l[i]].inicial,
                                                tamanio |-> meta[l[i]].tamanio]]
    BY TrasReiniciar
  <1>6. PICK l \in [1..k -> Presentes] :
             /\ k = Cardinality(Presentes)
             /\ \A a \in Presentes : \E i \in 1..k : l[i] = a
             /\ archivos_fs' = [i \in 1..k |-> [nombre |-> l[i], inicial |-> meta[l[i]].inicial,
                                                tamanio |-> meta[l[i]].tamanio]]
    BY <1>5
  <1>7. DOMAIN archivos_fs' = 1..k /\ Len(archivos_fs') = k
    BY <1>6
  <1>8. ASSUME NEW a \in Presentes
        PROVE  [nombre |-> a, inicial |-> meta[a].inicial, tamanio |-> meta[a].tamanio] \in ToSet(archivos_fs')
    <2>1. PICK i \in 1..k : l[i] = a
      BY <1>6
    <2>2. archivos_fs'[i] = [nombre |-> a, inicial |-> meta[a].inicial, tamanio |-> meta[a].tamanio]
      BY <1>6, <2>1
    <2> QED BY <1>7, <2>2 DEF ToSet
  <1>9. ListaFiel'
    BY <1>1, <1>6, <1>7, <1>8 DEF ListaFiel
  <1>10. Disjuntos'
    BY <1>1 DEF Sano, Disjuntos
  <1>11. BitmapExacto'
    BY <1>1, <1>4 DEF Sano, BitmapExacto
  <1> QED BY <1>1, <1>2, <1>9, <1>10, <1>11 DEF Sano

-----------------------------------------------------------------------------
(* Growing where the file is.                                              *)

(* The blocks an entry asks for, when it grows to t: exactly one of them is*)
(* taken, and all have a bit.                                              *)
PorCrecer(a, t, e, F, g) ==
    /\ e \in Entradas /\ e.nombre = a /\ meta[a] # NoHay /\ meta[a] \in Registro
    /\ meta[a].inicial = e.inicial /\ meta[a].tamanio = e.tamanio
    /\ Ocupa(meta[a]) = Ocupa(e) /\ Ocupa(e) \subseteq Disco /\ e.inicial \in Disco
    /\ F \in Nat /\ g \in Nat /\ F = e.inicial + Techo(e.tamanio) /\ F + g = e.inicial + Techo(t)
    /\ t \in Nat /\ t > e.tamanio /\ BloquesNecesarios(t) = Techo(t)
    /\ Desde(F, g) \subseteq Bits
    /\ Cardinality({x \in Desde(F, g) : bit[x]}) = 1

LEMMA UnoTomado ==
    ASSUME DialInv, Sano, NEW a \in Archivos, NEW t \in Tamanios, AmpliarEnElLugar(a, t),
           NEW i, i = Posicion(archivos_fs, a), NEW e, e = archivos_fs[i],
           NEW F, F = FinalDe(e), NEW g, g = AAgregar(e, t)
    PROVE  i \in 1..Len(archivos_fs) /\ PorCrecer(a, t, e, F, g)
  <1>1. Existe(a) /\ t > e.tamanio /\ EsContiguo(e, t)
    BY DEF AmpliarEnElLugar, Agranda, EntradaDe
  <1>2. /\ i \in 1..Len(archivos_fs) /\ e \in Entradas /\ e.nombre = a /\ meta[a] # NoHay /\ meta[a] \in Registro
    BY <1>1, EntradaDeExistente DEF Existe
  <1>3. meta[a].inicial = e.inicial /\ meta[a].tamanio = e.tamanio
    BY <1>2, SanoEsPorLista DEF SanoPorLista, SanoCon, Fieles
  <1>4. Ocupa(meta[a]) = Ocupa(e) /\ Ocupa(e) \subseteq Disco
    BY <1>1, <1>3 DEF Sano, Presentes, Ocupa
  <1>5. e.inicial \in Int /\ e.tamanio \in Nat /\ t \in Nat /\ e.inicial \in Ocupa(e)
    <2>1. e.inicial \in Int /\ e.tamanio \in Nat /\ e.inicial < Fin(e)
      BY <1>2, TiposDeEntrada, LoQueOcupa
    <2> QED BY <1>2, <2>1, LoQueOcupa, TamaniosAssumption
  <1>6. \A x : x \in Disco <=> x \in Int /\ 0 <= x /\ x < NBloques
    BY NBloquesAssumption DEF Disco
  <1> PICK i0 : i0 = e.inicial
    OBVIOUS
  <1> PICK u : u = Techo(e.tamanio)
    OBVIOUS
  <1> PICK w : w = Techo(t)
    OBVIOUS
  <1>7. i0 \in Int /\ 0 <= i0 /\ i0 < NBloques /\ i0 \in Disco
    <2>1. i0 \in Disco
      BY <1>4, <1>5
    <2> QED BY <1>6, <2>1
  <1>8. u \in Nat /\ w \in Nat /\ u <= w /\ BloquesNecesarios(t) = w /\ w >= 1
    BY <1>1, <1>5, TiposDeTecho, TechoMonotono
  <1>9. F = i0 + u /\ g = w - u
    BY DEF FinalDe, AAgregar
  <1>10. F \in Nat /\ g \in Nat /\ F + g = i0 + w
    BY <1>7, <1>8, <1>9
  <1>11. w <= MaxBloques
    <2>1. t <= Max(Tamanios \cup {1})
      BY TiposDeMaxBloques
    <2>2. Max(Tamanios \cup {1}) \in Nat
      <3>1. (Tamanios \cup {1}) \in SUBSET Nat /\ IsFiniteSet(Tamanios \cup {1}) /\ Tamanios \cup {1} # {}
        BY TamaniosAssumption, FS_AddElement
      <3> QED BY <3>1, MaxFinito
    <2> QED BY <1>5, <2>1, <2>2, TechoMonotono DEF MaxBloques
  <1>12. Desde(F, g) \subseteq Bits
    <2> SUFFICES ASSUME NEW x \in Desde(F, g) PROVE x \in Bits
      OBVIOUS
    <2>1. x \in Int /\ F <= x /\ x < F + g
      BY <1>10, LoQueOcupaDesde
    <2>2. MaxBloques \in Nat /\ NBloques \in Nat
      BY TiposDeMaxBloques, NBloquesAssumption
    <2>3. 0 <= x /\ x <= NBloques + MaxBloques - 2
      BY <1>7, <1>8, <1>9, <1>10, <1>11, <2>1, <2>2
    <2> QED BY <2>1, <2>2, <2>3 DEF Bits
  <1>13. Cardinality({x \in Desde(F, g) : bit[x]}) = 1
    <2> DEFINE B == Desde(F, g)
               L == {x \in B : ~bit[x]}
               T == {x \in B : bit[x]}
    <2>1. ~(F < 0)
      BY <1>10
    <2>2. g = 1 + Cardinality(L)
      BY <1>1, <2>1 DEF EsContiguo
    <2>3. IsFiniteSet(B) /\ Cardinality(B) = g
      BY <1>10, CuentaDesde
    <2>4. L \in SUBSET B /\ T = B \ L
      OBVIOUS
    <2> HIDE DEF B, L, T
    <2>5. Cardinality(T) = Cardinality(B) - Cardinality(L) /\ Cardinality(L) \in Nat
      BY <2>3, <2>4, CuentaSinPisar
    <2>6. Cardinality(T) = 1
      BY <2>2, <2>3, <2>5
    <2> QED BY <2>6 DEF T, B
  <1> QED BY <1>1, <1>2, <1>3, <1>4, <1>5, <1>7, <1>8, <1>9, <1>10, <1>12, <1>13 DEF PorCrecer

(* The record of the file that grew.                                       *)
LEMMA CrecidoEnElLugar ==
    ASSUME DialInv, NEW a \in Archivos, NEW t \in Tamanios, AmpliarEnElLugar(a, t),
           meta[a] \in Registro
    PROVE  /\ meta'[a] \in Registro /\ meta'[a].inicial = meta[a].inicial /\ meta'[a].tamanio = t
           /\ \A b \in Archivos : b # a => meta'[b] = meta[b]
  <1> DEFINE y == [meta[a] EXCEPT !.tamanio = t]
  <1>1. y \in Registro /\ y.inicial = meta[a].inicial /\ y.tamanio = t
    BY DEF Registro
  <1>2. meta \in Metas
    BY TiposDeDial DEF DialInv
  <1>3. meta' = [meta EXCEPT ![a] = y]
    BY DEF AmpliarEnElLugar
  <1> HIDE DEF y
  <1>4. meta'[a] = y /\ \A b \in Archivos : b # a => meta'[b] = meta[b]
    BY <1>2, <1>3 DEF Metas
  <1> QED BY <1>1, <1>4

LEMMA CreceYPisa ==
    ASSUME DialInv, Sano, NEW a \in Archivos, NEW t \in Tamanios, CreceSobreOtro(a, t)
    PROVE  Cardinality(Ocupa(meta'[a]) \cap UNION {Ocupa(meta[b]) : b \in Presentes \ {a}}) = 1
  <1> PICK i : i = Posicion(archivos_fs, a)
    OBVIOUS
  <1> PICK e : e = archivos_fs[i]
    OBVIOUS
  <1> PICK F : F = FinalDe(e)
    OBVIOUS
  <1> PICK g : g = AAgregar(e, t)
    OBVIOUS
  <1> DEFINE O == UNION {Ocupa(meta[b]) : b \in Presentes \ {a}}
  <1>1. AmpliarEnElLugar(a, t) /\ meta[a].tamanio > 0
    BY DEF CreceSobreOtro
  <1>2. /\ i \in 1..Len(archivos_fs) /\ e \in Entradas /\ e.nombre = a /\ meta[a] # NoHay /\ meta[a] \in Registro
        /\ meta[a].inicial = e.inicial /\ meta[a].tamanio = e.tamanio
        /\ Ocupa(meta[a]) = Ocupa(e) /\ Ocupa(e) \subseteq Disco /\ e.inicial \in Disco
        /\ F \in Nat /\ g \in Nat /\ F = e.inicial + Techo(e.tamanio) /\ F + g = e.inicial + Techo(t)
        /\ t \in Nat /\ t > e.tamanio /\ BloquesNecesarios(t) = Techo(t)
        /\ Desde(F, g) \subseteq Bits
        /\ Cardinality({x \in Desde(F, g) : bit[x]}) = 1
    <2>1. i \in 1..Len(archivos_fs) /\ PorCrecer(a, t, e, F, g)
      BY <1>1, UnoTomado
    <2> QED BY <2>1 DEF PorCrecer
  <1>3. e.inicial \in Int /\ e.tamanio \in Nat /\ e.tamanio > 0
    BY <1>1, <1>2, TiposDeEntrada
  <1>4. /\ \A x : x \in Ocupa(e) <=> x \in Int /\ e.inicial <= x /\ x < F
    <2>1. BloquesNecesarios(e.tamanio) = Techo(e.tamanio)
      BY <1>3, TiposDeTecho
    <2>2. Fin(e) = F
      BY <1>2, <2>1 DEF Fin
    <2> QED BY <1>2, <2>2, LoQueOcupa
  <1>5. \A x : x \in Ocupa(meta'[a]) <=> x \in Int /\ e.inicial <= x /\ x < F + g
    <2>1. meta'[a].inicial = e.inicial /\ meta'[a].tamanio = t
      BY <1>1, <1>2, CrecidoEnElLugar
    <2>2. Ocupa(meta'[a]) = Desde(e.inicial, Techo(t))
      BY <1>2, <2>1 DEF Ocupa, Desde
    <2>3. Techo(t) \in Nat
      BY <1>2, TiposDeTecho
    <2> QED BY <1>2, <1>3, <2>2, <2>3, LoQueOcupaDesde
  <1>6. \A x : x \in Desde(F, g) <=> x \in Int /\ F <= x /\ x < F + g
    BY <1>2, LoQueOcupaDesde
  <1>7. e.inicial <= F
    <2>1. Techo(e.tamanio) \in Nat
      BY <1>3, TiposDeTecho
    <2> QED BY <1>2, <1>3, <2>1
  <1>8. Ocupa(meta'[a]) = Ocupa(e) \cup Desde(F, g) /\ Ocupa(e) \cap Desde(F, g) = {}
    <2>1. \A x \in Int : e.inicial <= x /\ x < F + g <=> (e.inicial <= x /\ x < F) \/ (F <= x /\ x < F + g)
      BY <1>2, <1>3, <1>7
    <2>2. \A x \in Int : ~(x < F /\ F <= x)
      BY <1>2
    <2> QED BY <1>4, <1>5, <1>6, <2>1, <2>2
  <1>9. Ocupa(e) \cap O = {}
    <2> SUFFICES ASSUME NEW b \in Presentes, b # a, NEW x, x \in Ocupa(e), x \in Ocupa(meta[b]) PROVE FALSE
      OBVIOUS
    <2>1. a \in Presentes
      BY <1>2 DEF Presentes, Existe
    <2> QED BY <1>2, <2>1 DEF Sano, Disjuntos
  <1>10. \A x \in Bits : bit[x] <=> x \in Ocupa(e) \/ x \in O
    <2>1. \A x \in Bits : bit[x] <=> \E b \in Presentes : x \in Ocupa(meta[b])
      BY DEF Sano, BitmapExacto
    <2>2. a \in Presentes
      BY <1>2 DEF Presentes, Existe
    <2> QED BY <1>2, <2>1, <2>2
  <1> HIDE DEF O
  <1>11. Ocupa(meta'[a]) \cap O = {x \in Desde(F, g) : bit[x]}
    BY <1>2, <1>8, <1>9, <1>10
  <1> QED BY <1>2, <1>11 DEF O

(* A file that had something and grows in place takes exactly one block of *)
(* another: espacio_disponible_es_contiguo starts its count at 1, so what  *)
(* it finds contiguous is a stretch with one block taken, and that is not  *)
(* the file's own.                                                         *)
THEOREM CrecerPisaUno == DialSpec => PisaUnBloque
  <1>1. ASSUME DialInv
        PROVE  [ \A a \in Archivos, t \in Tamanios :
                    (meta'[a].tamanio = t /\ CreceSobreOtro(a, t) /\ Sano) =>
                        Cardinality(Ocupa(meta'[a]) \cap
                                    UNION {Ocupa(meta[b]) : b \in Presentes \ {a}}) = 1 ]_vars
    BY <1>1, CreceYPisa
  <1> QED BY <1>1, DialInicial, DialInductivo, PTL DEF DialSpec, PisaUnBloque

(* An empty file that grows in place, within the disk: the taken block is  *)
(* its own.                                                                *)
LEMMA CreceVacioSano ==
    ASSUME DialInv, DialInv', Sano, NEW a \in Archivos, NEW t \in Tamanios, AmpliarEnElLugar(a, t),
           ~(meta[a].tamanio > 0), ~(meta[a].inicial + Techo(t) > NBloques)
    PROVE  Sano'
  <1> PICK n : n = Len(archivos_fs)
    OBVIOUS
  <1> PICK i : i = Posicion(archivos_fs, a)
    OBVIOUS
  <1> PICK e : e = archivos_fs[i]
    OBVIOUS
  <1> PICK F : F = FinalDe(e)
    OBVIOUS
  <1> PICK g : g = AAgregar(e, t)
    OBVIOUS
  <1>1. /\ i \in 1..n /\ e \in Entradas /\ e.nombre = a /\ meta[a] # NoHay /\ meta[a] \in Registro
        /\ meta[a].inicial = e.inicial /\ meta[a].tamanio = e.tamanio
        /\ Ocupa(meta[a]) = Ocupa(e) /\ Ocupa(e) \subseteq Disco /\ e.inicial \in Disco
        /\ F \in Nat /\ g \in Nat /\ F = e.inicial + Techo(e.tamanio) /\ F + g = e.inicial + Techo(t)
        /\ t \in Nat /\ t > e.tamanio /\ BloquesNecesarios(t) = Techo(t)
        /\ Desde(F, g) \subseteq Bits
        /\ Cardinality({x \in Desde(F, g) : bit[x]}) = 1
    <2>1. i \in 1..Len(archivos_fs) /\ PorCrecer(a, t, e, F, g)
      BY UnoTomado
    <2>2. i \in 1..n
      BY <2>1
    <2> QED BY <2>1, <2>2 DEF PorCrecer
  <1>2. /\ n \in Nat /\ archivos_fs \in Seq(Entradas) /\ bit \in Mapas /\ DOMAIN archivos_fs = 1..n
        /\ \A j \in 1..n : archivos_fs[j] \in Entradas /\ archivos_fs[j].nombre \in Archivos
    <2>1. /\ n \in Nat /\ archivos_fs \in Seq(Entradas) /\ bit \in Mapas /\ DOMAIN archivos_fs = 1..n
          /\ \A j \in 1..n : archivos_fs[j] \in Entradas
      BY TiposDeDial DEF DialInv
    <2> QED BY <2>1, TiposDeEntrada
  <1>3. Fieles(meta, archivos_fs, n) /\ Apartados(archivos_fs, n) /\ Marca(bit, archivos_fs, n)
    BY SanoEsPorLista DEF SanoPorLista, SanoCon
  <1>4. e.tamanio = 0 /\ F = e.inicial
    <2>1. e.tamanio \in Nat
      BY <1>1, TiposDeEntrada
    <2>2. e.tamanio = 0
      BY <1>1, <2>1
    <2>3. Techo(e.tamanio) = 0 /\ e.inicial \in Int
      BY <1>1, <2>2, TiposDeTecho, TiposDeEntrada
    <2>4. F = e.inicial + 0
      BY <1>1, <2>3
    <2> QED BY <2>2, <2>3, <2>4
  <1> DEFINE B == Desde(F, g)
             x == [e EXCEPT !.tamanio = t]
  <1>5. x \in Entradas /\ x.nombre = a /\ x.inicial = e.inicial /\ x.tamanio = t
    BY <1>1 DEF Entradas
  <1>6. /\ bit' = Marcados(bit, B) /\ archivos_fs' = [archivos_fs EXCEPT ![i] = x]
    BY DEF AmpliarEnElLugar
  <1> HIDE DEF x
  <1>7. /\ Len(archivos_fs') = n
        /\ \A j \in 1..n : archivos_fs'[j] = IF j = i THEN x ELSE archivos_fs[j]
    BY <1>1, <1>2, <1>5, <1>6, ExceptSeq
  <1>8. /\ meta'[a] # NoHay /\ meta'[a].inicial = e.inicial /\ meta'[a].tamanio = t
        /\ \A b \in Archivos : b # a => meta'[b] = meta[b]
    BY <1>1, CrecidoEnElLugar, NoHayNoEsRegistro
  <1>9. Ocupa(x) = B
    <2>1. Ocupa(x) = Desde(x.inicial, BloquesNecesarios(x.tamanio))
      BY <1>5, LoQueOcupa
    <2>2. g = Techo(t)
      <3>1. Techo(t) \in Nat
        BY <1>1, TiposDeTecho
      <3> QED BY <1>1, <1>4, <3>1
    <2> QED BY <1>1, <1>4, <1>5, <2>1, <2>2
  <1>10. \A z : z \in B <=> z \in Int /\ F <= z /\ z < F + g
    BY <1>1, LoQueOcupaDesde
  <1> HIDE DEF B
  <1>11. B \subseteq Disco /\ B \subseteq Bits
    <2>1. F + g <= NBloques
      <3>1. Techo(t) \in Nat /\ e.inicial \in Int
        BY <1>1, TiposDeTecho, TiposDeEntrada
      <3> QED BY <1>1, <3>1, NBloquesAssumption
    <2>2. \A z \in Int : F <= z /\ z < F + g => 0 <= z /\ z < NBloques
      BY <1>1, <2>1, NBloquesAssumption
    <2>3. \A z : z \in Disco <=> z \in Int /\ 0 <= z /\ z < NBloques
      BY NBloquesAssumption DEF Disco
    <2> QED BY <1>10, <2>2, <2>3, DiscoEnBits
  <1>12. F \in Ocupa(e) /\ \A z \in B : bit[z] => z = F
    <2>1. F \in Ocupa(e)
      BY <1>1, <1>4, LoQueOcupa
    <2>2. bit[F] = TRUE
      <3>1. F \in Bits
        BY <1>1, <2>1, DiscoEnBits
      <3>2. bit[F] <=> \E j \in 1..n : F \in Ocupa(archivos_fs[j])
        BY <1>3, <3>1 DEF Marca
      <3>3. bit[F]
        BY <1>1, <2>1, <3>2
      <3> QED BY <1>2, <3>1, <3>3 DEF Mapas
    <2>3. F \in B
      <3>1. g > 0
        <4>1. Techo(t) >= 1 /\ Techo(t) \in Nat
          BY <1>1, <1>4, TiposDeTecho
        <4> QED BY <1>1, <1>4, <4>1
      <3> QED BY <1>1, <1>10, <3>1
    <2> DEFINE T == {z \in B : bit[z]}
    <2>4. IsFiniteSet(T)
      <3>1. IsFiniteSet(B)
        BY <1>1, CuentaDesde DEF B
      <3> QED BY <3>1, FS_Subset
    <2>5. Cardinality(T) = 1
      BY <1>1 DEF B
    <2>6. F \in T
      BY <2>2, <2>3
    <2> HIDE DEF T
    <2>7. \E z : T = {z}
      BY <2>4, <2>5, FS_Singleton
    <2>8. \A z \in T : z = F
      BY <2>6, <2>7
    <2> QED BY <2>1, <2>8 DEF T
  <1>13. \A j \in 1..n : j # i => Ocupa(archivos_fs[j]) \cap B = {}
    <2> SUFFICES ASSUME NEW j \in 1..n, j # i, NEW z \in B, z \in Ocupa(archivos_fs[j]) PROVE FALSE
      OBVIOUS
    <2>1. z \in Bits /\ bit[z]
      BY <1>3, <1>11 DEF Marca
    <2>2. z = F /\ F \in Ocupa(archivos_fs[i])
      BY <1>12, <2>1
    <2> QED BY <1>1, <1>3, <2>2 DEF Apartados
  <1>14. \A j \in 1..n : archivos_fs'[j].nombre = archivos_fs[j].nombre
    BY <1>1, <1>5, <1>7
  <1>15. Fieles(meta', archivos_fs', n)
    <2>1. ASSUME NEW j \in 1..n
          PROVE  /\ meta'[archivos_fs'[j].nombre] # NoHay
                 /\ meta'[archivos_fs'[j].nombre].inicial = archivos_fs'[j].inicial
                 /\ meta'[archivos_fs'[j].nombre].tamanio = archivos_fs'[j].tamanio
      <3>1. CASE j = i
        BY <1>5, <1>7, <1>8, <3>1
      <3>2. CASE j # i
        <4>1. archivos_fs'[j] = archivos_fs[j] /\ archivos_fs[j].nombre # a
          BY <1>1, <1>3, <1>7, <3>2 DEF Fieles
        <4>2. meta'[archivos_fs[j].nombre] = meta[archivos_fs[j].nombre]
          BY <1>2, <1>8, <4>1
        <4> QED BY <1>3, <4>1, <4>2 DEF Fieles
      <3> QED BY <3>1, <3>2
    <2>2. \A j, k \in 1..n : archivos_fs'[j].nombre = archivos_fs'[k].nombre => j = k
      BY <1>3, <1>14 DEF Fieles
    <2>3. ASSUME NEW b \in Archivos, meta'[b] # NoHay PROVE \E j \in 1..n : archivos_fs'[j].nombre = b
      <3>1. meta[b] # NoHay
        BY <1>1, <1>8, <2>3
      <3>2. PICK j \in 1..n : archivos_fs[j].nombre = b
        BY <1>3, <3>1 DEF Fieles
      <3> QED BY <1>14, <3>2
    <2> QED BY <2>1, <2>2, <2>3 DEF Fieles
  <1>16. Apartados(archivos_fs', n)
    <2>1. ASSUME NEW j \in 1..n PROVE Ocupa(archivos_fs'[j]) \subseteq Disco
      <3>1. CASE j = i
        BY <1>7, <1>9, <1>11, <3>1
      <3>2. CASE j # i
        BY <1>3, <1>7, <3>2 DEF Apartados
      <3> QED BY <3>1, <3>2
    <2>2. ASSUME NEW j \in 1..n, NEW k \in 1..n, j # k PROVE Ocupa(archivos_fs'[j]) \cap Ocupa(archivos_fs'[k]) = {}
      <3>1. CASE j = i
        BY <1>7, <1>9, <1>13, <2>2, <3>1
      <3>2. CASE k = i
        BY <1>7, <1>9, <1>13, <2>2, <3>2
      <3>3. CASE j # i /\ k # i
        BY <1>3, <1>7, <2>2, <3>3 DEF Apartados
      <3> QED BY <3>1, <3>2, <3>3
    <2> QED BY <2>1, <2>2 DEF Apartados
  <1>17. Marca(bit', archivos_fs', n)
    <2> SUFFICES ASSUME NEW z \in Bits PROVE bit'[z] <=> \E j \in 1..n : z \in Ocupa(archivos_fs'[j])
      BY DEF Marca
    <2>1. bit'[z] <=> bit[z] \/ z \in B
      BY <1>6 DEF Marcados
    <2>2. bit[z] <=> \E j \in 1..n : z \in Ocupa(archivos_fs[j])
      BY <1>3 DEF Marca
    <2>3. z \in Ocupa(e) => z \in B
      <3> HAVE z \in Ocupa(e)
      <3>1. z \in Int /\ F <= z /\ z < Fin(e) /\ Fin(e) = F + 1
        BY <1>1, <1>4, LoQueOcupa, UnBloque DEF Fin
      <3>2. z = F /\ F \in Int
        BY <1>1, <3>1
      <3>3. g > 0
        <4>1. Techo(t) >= 1 /\ Techo(t) \in Nat
          BY <1>1, <1>4, TiposDeTecho
        <4> QED BY <1>1, <1>4, <4>1
      <3> QED BY <1>1, <1>10, <3>2, <3>3
    <2>4. ASSUME NEW j \in 1..n, z \in Ocupa(archivos_fs[j]) PROVE \E k \in 1..n : z \in Ocupa(archivos_fs'[k])
      <3>1. CASE j = i
        BY <1>7, <1>9, <2>3, <2>4, <3>1
      <3>2. CASE j # i
        BY <1>7, <2>4, <3>2
      <3> QED BY <3>1, <3>2
    <2>5. z \in B => \E k \in 1..n : z \in Ocupa(archivos_fs'[k])
      BY <1>1, <1>7, <1>9
    <2>6. ASSUME NEW k \in 1..n, z \in Ocupa(archivos_fs'[k])
          PROVE  z \in B \/ \E j \in 1..n : z \in Ocupa(archivos_fs[j])
      <3>1. CASE k = i
        BY <1>7, <1>9, <2>6, <3>1
      <3>2. CASE k # i
        BY <1>7, <2>6, <3>2
      <3> QED BY <3>1, <3>2
    <2> QED BY <2>1, <2>2, <2>4, <2>5, <2>6
  <1>18. SanoPorLista'
    BY <1>7, <1>15, <1>16, <1>17 DEF SanoPorLista, SanoCon
  <1> QED BY <1>18, SanoDespues

(* The rest.                                                               *)
LEMMA LosDemasSanos ==
    ASSUME DialInv, DialInv', [DialNext]_vars, Sano, ~NoRespeta
    PROVE  Sano'
  <1>1. CASE UNCHANGED vars
    BY <1>1, SanoSinTocar DEF vars
  <1>2. ASSUME NEW a \in Archivos, CrearArchivo(a) PROVE Sano'
    <2>1. ~Existe(a) /\ PrimerLugar(bit, 1) # -1
      BY <1>2 DEF NoRespeta, Recrea, CreaSinLugar
    <2> QED BY <1>2, <2>1, CrearSano
  <1>3. ASSUME NEW a \in Archivos, EliminarArchivo(a) PROVE Sano'
    BY <1>3, EliminarSano
  <1>4. ASSUME NEW a \in Archivos, NEW t \in Tamanios, TruncarArchivo(a, t) PROVE Sano'
    <2>1. ~ReducirArchivo(a, t) /\ ~CreceSobreOtro(a, t) /\ ~CreceDeMas(a, t)
      BY DEF NoRespeta
    <2>2. CASE AmpliarEnElLugar(a, t)
      <3>1. ~(meta[a].tamanio > 0) /\ ~(meta[a].inicial + Techo(t) > NBloques)
        BY <2>1, <2>2 DEF CreceSobreOtro, CreceDeMas
      <3> QED BY <2>2, <3>1, CreceVacioSano
    <2>3. CASE AmpliarCompactando(a, t)
      <3>1. CASE CompactarSeCae(EntradaDe(archivos_fs, a))
        <4>1. UNCHANGED <<bit, meta, archivos_fs>>
          BY <2>3, <3>1 DEF AmpliarCompactando
        <4> QED BY <4>1, SanoSinTocar
      <3>2. CASE ~CompactarSeCae(EntradaDe(archivos_fs, a))
        BY <2>3, <3>2, CompactadaSana
      <3> QED BY <3>1, <3>2
    <2> QED BY <1>4, <2>1, <2>2, <2>3 DEF TruncarArchivo
  <1>5. ASSUME NEW a \in Archivos, NEW de, NEW hasta, EscribirArchivo(a, de, hasta) PROVE Sano'
    BY <1>5, SanoSinTocar DEF EscribirArchivo
  <1>6. CASE Reiniciar
    BY <1>6, ReiniciarSano
  <1> QED BY <1>1, <1>2, <1>3, <1>4, <1>5, <1>6 DEF DialNext

(* Only what is known to leaves a sound disk unsound: a reduction, a file  *)
(* made twice or with the disk full, and growth in place of a file that    *)
(* had something or past the last block.  Creating, deleting, writing, an  *)
(* empty file that grows, a compaction and a restart all keep it sound.    *)
THEOREM LosDemasNoDesordenan == DialSpec => LosDemasRespetan
  <1>1. ASSUME DialInv, DialInv', [DialNext]_vars
        PROVE  [ Sano /\ ~Sano' => NoRespeta ]_vars
    BY <1>1, LosDemasSanos
  <1> QED BY <1>1, DialInicial, DialInductivo, PTL DEF DialSpec, LosDemasRespetan
=============================================================================
