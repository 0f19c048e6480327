------------------------------- MODULE DialFS -------------------------------
(***************************************************************************)
(* The file system of a DIALFS interface (fileSystem.c): files of          *)
(* consecutive blocks, a bitmap of the blocks in use, one metadata file    *)
(* per file, and the list archivos_fs of what the metadata say.            *)
(*                                                                         *)
(* An interface serves one request at a time, so an operation is one       *)
(* action.  Bitmap, blocks and metadata are files (the first two mapped    *)
(* with MAP_SHARED) and outlive the process; the list does not.  Contents  *)
(* are kept by the block: who wrote it last.                               *)
(***************************************************************************)
EXTENDS Integers, FiniteSets, SequencesExt

CONSTANTS
    Archivos,       \* names of files; all of them end in ".txt"
    NBloques,       \* BLOCK_COUNT
    TamBloque,      \* BLOCK_SIZE
    Tamanios,       \* the sizes programs ask for, in bytes
    MaxLista        \* bound: entries of archivos_fs

ASSUME NBloquesAssumption == NBloques \in Nat \ {0}
ASSUME TamBloqueAssumption == TamBloque \in Nat \ {0}
ASSUME TamaniosAssumption == Tamanios \subseteq Nat /\ IsFiniteSet(Tamanios)
ASSUME MaxListaAssumption == MaxLista \in Nat

VARIABLES
    bit,            \* bitarray: the blocks marked as taken
    bloques,        \* bloquesMapeado: who wrote each block
    meta,           \* the metadata files, by name
    archivos_fs,    \* the list in memory
    caido           \* the process died, or touched memory out of its maps

vars == <<bit, bloques, meta, archivos_fs, caido>>

Vacio == "vacio"
NoHay == [inicial |-> -1, tamanio |-> -1]       \* no metadata file
Existe(a) == meta[a] # NoHay

(* ceil(tamanio / block_size), and bloques_necesarios: one if it is empty. *)
Techo(t) == (t + TamBloque - 1) \div TamBloque
BloquesNecesarios(t) == IF t = 0 THEN 1 ELSE Techo(t)

Disco == 0 .. NBloques - 1
\* A file that starts in the last block may have bits past the end, which
\* the mapped page has room for.
MaxBloques == Techo(Max(Tamanios \cup {1}))
Bits == 0 .. NBloques + MaxBloques - 2

Desde(inicio, n) == inicio .. inicio + n - 1
Marcados(b, conj) == [i \in Bits |-> b[i] \/ i \in conj]
Liberados(b, conj) == [i \in Bits |-> b[i] /\ i \notin conj]

(* The blocks from which n are free in a row.                              *)
LugaresLibres(b, n) == {i \in Disco : Desde(i, n) \subseteq Disco
                                   /\ \A j \in Desde(i, n) : ~b[j]}

(* Mutation: what bloque_libre starts from, and does not return.           *)
PrimerLugarOElFinal(b, n) == IF LugaresLibres(b, n) = {} THEN NBloques ELSE Min(LugaresLibres(b, n))

(* bloque_libre, bloque_libre_contiguo: the first place with n free blocks *)
(* in a row, or -1.                                                        *)
PrimerLugar(b, n) == IF LugaresLibres(b, n) = {} THEN -1 ELSE Min(LugaresLibres(b, n))

(* buscar_arch_por_nombre: the first entry of the list with that name.     *)
Posicion(lista, a) == SelectInSeq(lista, LAMBDA e : e.nombre = a)

(* What is read from a block: past the end of the file there is nothing.   *)
LeerBloques(bl, inicio, n) ==
    [k \in 1 .. n |-> IF inicio + k - 1 \in Disco THEN bl[inicio + k - 1] ELSE Vacio]

EscribirBloques(bl, inicio, contenido) ==
    [i \in Disco |-> IF i \in Desde(inicio, Len(contenido))
                     THEN contenido[i - inicio + 1] ELSE bl[i]]

-----------------------------------------------------------------------------
DialInit ==
    /\ bit = [i \in Bits |-> FALSE]
    /\ bloques = [i \in Disco |-> Vacio]
    /\ meta = [a \in Archivos |-> NoHay]
    /\ archivos_fs = <<>>
    /\ caido = FALSE

(* crear_archivo: it does not look whether there is a file of that name,   *)
(* and takes the -1 of a full disk for a block.                            *)
CrearArchivo(a) ==
    LET libre == PrimerLugar(bit, 1)
    IN  /\ Len(archivos_fs) < MaxLista
        /\ bit' = Marcados(bit, {libre})
        /\ meta' = [meta EXCEPT ![a] = [inicial |-> libre, tamanio |-> 0]]
        /\ archivos_fs' = Append(archivos_fs, [nombre |-> a, inicial |-> libre, tamanio |-> 0])
        /\ UNCHANGED <<bloques, caido>>

(* Mutation: an empty file is taken to have no blocks.                     *)
BloquesOcupadosPorTamanio(m) == Desde(m.inicial, Techo(m.tamanio))

(* The blocks eliminar_archivo frees.                                      *)
BloquesOcupados(m) == Desde(m.inicial, BloquesNecesarios(m.tamanio))

(* eliminar_archivo: freeing the block -1 writes out of the bitmap.        *)
EliminarArchivo(a) ==
    /\ Existe(a)
    /\ archivos_fs' = IF Posicion(archivos_fs, a) = 0 THEN archivos_fs
                      ELSE RemoveAt(archivos_fs, Posicion(archivos_fs, a))
    /\ bit' = Liberados(bit, BloquesOcupados(meta[a]))
    /\ meta' = [meta EXCEPT ![a] = NoHay]
    /\ caido' = (meta[a].inicial = -1)
    /\ UNCHANGED bloques

(* escribir_archivo, of the blocks from..to of the file: neither end is    *)
(* compared with its size.                                                 *)
EscribirArchivo(a, de, hasta) ==
    LET inicio == meta[a].inicial + de
    IN  /\ Existe(a)
        /\ bloques' = EscribirBloques(bloques, inicio, [k \in 1 .. hasta - de + 1 |-> a])
        /\ caido' = (inicio < 0)
        /\ UNCHANGED <<bit, meta, archivos_fs>>

-----------------------------------------------------------------------------
(* cambiar_tamanio_archivo.  An entry e of the list is enlarged where it   *)
(* is, enlarged after a compaction, or reduced.                            *)

EntradaDe(lista, a) == lista[Posicion(lista, a)]

FinalDe(e) == e.inicial + Techo(e.tamanio)
AAgregar(e, t) == Techo(t) - Techo(e.tamanio)

(* hay_espacio_disponible: blocks past the end are not counted.            *)
HayEspacio(e, t) == AAgregar(e, t) <= Cardinality({i \in Disco : ~bit[i]})

(* Mutation: room to spare is contiguous too.                              *)
EsContiguoOSobra(e, t) ==
    LET final == IF FinalDe(e) < 0 THEN 0 ELSE FinalDe(e)
    IN  AAgregar(e, t) <= 1 + Cardinality({i \in Desde(final, AAgregar(e, t)) : ~bit[i]})

(* espacio_disponible_es_contiguo counts the free ones from 1: what it     *)
(* asks is that exactly one of the blocks to add be taken.  It is so for   *)
(* an empty file, whose own block is the first of them.                    *)
EsContiguo(e, t) ==
    LET final == IF FinalDe(e) < 0 THEN 0 ELSE FinalDe(e)
    IN  AAgregar(e, t) = 1 + Cardinality({i \in Desde(final, AAgregar(e, t)) : ~bit[i]})

Agranda(a, t) ==
    /\ Existe(a)
    /\ LET e == EntradaDe(archivos_fs, a) IN t > e.tamanio /\ HayEspacio(e, t)

(* asignar_espacio, and the new size in list and metadata.                 *)
AmpliarEnElLugar(a, t) ==
    LET i == Posicion(archivos_fs, a)
        e == archivos_fs[i]
    IN  /\ Agranda(a, t) /\ EsContiguo(e, t)
        /\ bit' = Marcados(bit, Desde(FinalDe(e), AAgregar(e, t)))
        /\ archivos_fs' = [archivos_fs EXCEPT ![i].tamanio = t]
        /\ meta' = [meta EXCEPT ![a].tamanio = t]
        /\ caido' = (FinalDe(e) < 0)
        /\ UNCHANGED bloques

(* list_sort by first block; nothing is said of the order of equals.       *)
Ordenadas(lista) ==
    {l \in {[i \in DOMAIN lista |-> lista[f[i]]] :
              f \in {g \in [DOMAIN lista -> DOMAIN lista] : IsInjective(g)}} :
        \A i, j \in DOMAIN l : i < j => l[i].inicial <= l[j].inicial}

(* copiar_contenido_a: the contents go to the first place with room for    *)
(* them, which is marked; the disk d is left as it was if there is none.   *)
CopiarContenido(d, contenido, n) ==
    LET lugar == PrimerLugar(d.bit, n)
        datos == [k \in 1 .. n |-> IF k <= Len(contenido) THEN contenido[k] ELSE Vacio]
    IN  IF lugar = -1 THEN d
        ELSE [d EXCEPT !.bit = Marcados(@, Desde(lugar, n)),
                       !.bloques = EscribirBloques(@, lugar, datos)]

(* Mutation: a file is copied before its own blocks are freed.             *)
MudarSinLiberar(d, i) ==
    LET e     == d.lista[i]
        n     == BloquesNecesarios(e.tamanio)
        lugar == PrimerLugar(d.bit, n)
        copia == CopiarContenido(d, LeerBloques(d.bloques, e.inicial, n), n)
    IN  [copia EXCEPT !.bit = Liberados(@, Desde(e.inicial, n)),
                      !.lista[i].inicial = lugar, !.meta[e.nombre].inicial = lugar]

(* One turn of the loop of compactar: the i-th file of the list is read,   *)
(* its blocks freed, and it is written in the first place it fits.         *)
Mudar(d, i) ==
    LET e      == d.lista[i]
        n      == BloquesNecesarios(e.tamanio)
        libre  == [d EXCEPT !.bit = Liberados(@, Desde(e.inicial, n))]
        lugar  == PrimerLugar(libre.bit, n)
        copia  == CopiarContenido(libre, LeerBloques(d.bloques, e.inicial, n), n)
    IN  [copia EXCEPT !.lista[i].inicial = lugar, !.meta[e.nombre].inicial = lugar]

(* compactar, for the entry e: it is set aside, every file that starts     *)
(* elsewhere is moved, and e is written, with its new size, in what is     *)
(* left.                                                                   *)
Compactar(d, e, t) ==
    LET n      == BloquesNecesarios(e.tamanio)
        aparte == [d EXCEPT !.bit = Liberados(@, Desde(e.inicial, n))]
        movido == FoldLeftDomain(LAMBDA x, i : IF x.lista[i].inicial = e.inicial THEN x
                                               ELSE Mudar(x, i), aparte, d.lista)
        lugar  == PrimerLugar(movido.bit, BloquesNecesarios(t))
        copia  == CopiarContenido(movido, LeerBloques(d.bloques, e.inicial, n),
                                  BloquesNecesarios(t))
        k      == Posicion(copia.lista, e.nombre)
    IN  [copia EXCEPT !.lista[k].inicial = lugar, !.lista[k].tamanio = t,
                      !.meta[e.nombre] = [inicial |-> lugar, tamanio |-> t]]

(* A compaction touches memory out of its maps if an entry starts at -1,   *)
(* and dereferences NULL if one has no metadata.                           *)
CompactarSeCae(e) ==
    \/ e.inicial = -1
    \/ \E x \in ToSet(archivos_fs) :
           x.inicial # e.inicial /\ (x.inicial = -1 \/ ~Existe(x.nombre))

AmpliarCompactando(a, t) ==
    LET e == EntradaDe(archivos_fs, a)
    IN  /\ Agranda(a, t) /\ ~EsContiguo(e, t)
        /\ \/ /\ CompactarSeCae(e)
              /\ caido' = TRUE
              /\ UNCHANGED <<bit, bloques, meta, archivos_fs>>
           \/ /\ ~CompactarSeCae(e)
              /\ \E l \in Ordenadas(archivos_fs) :
                    LET d == Compactar([bit |-> bit, bloques |-> bloques, meta |-> meta,
                                        lista |-> l], e, t)
                    IN  /\ bit' = d.bit
                        /\ bloques' = d.bloques
                        /\ meta' = d.meta
                        /\ archivos_fs' = d.lista
              /\ UNCHANGED caido

(* reducir_archivo, in 32 bits.  `final` is the file's last block (one     *)
(* less, if the last is not full) and `reducido` where the loop is to      *)
(* stop; it goes down while it is below `reducido`, which bytes taken from *)
(* blocks usually make negative, that is, huge as a uint32_t.  Then every  *)
(* block from `final` down to 0 is freed, the other files' included.       *)
Final(e) == e.inicial + e.tamanio \div TamBloque - 1
Reducido(e, t) == Final(e) - (e.tamanio - t \div TamBloque - 1)

LiberadosPorReducir(e, t) ==
    IF Final(e) >= 0 /\ (Reducido(e, t) < 0 \/ Final(e) < Reducido(e, t))
    THEN 0 .. Final(e) ELSE {}

ReducirSeCae(e, t) == Final(e) < Reducido(e, t) /\ Reducido(e, t) < 0

(* Truncating to the size it has goes this way too.                        *)
ReducirArchivo(a, t) ==
    LET i == Posicion(archivos_fs, a)
        e == archivos_fs[i]
    IN  /\ Existe(a) /\ t <= e.tamanio
        /\ bit' = Liberados(bit, LiberadosPorReducir(e, t))
        /\ archivos_fs' = [archivos_fs EXCEPT ![i].tamanio = t]
        /\ meta' = [meta EXCEPT ![a] = [inicial |-> e.inicial, tamanio |-> t]]
        /\ caido' = ReducirSeCae(e, t)
        /\ UNCHANGED bloques

(* The interface is stopped between two requests and started again:        *)
(* cargar_archivos_metadata lists the metadata in the order of the         *)
(* directory, and bitmap.dat has no bits past the last block.              *)
Reiniciar ==
    /\ \E l \in SetToSeqs({a \in Archivos : Existe(a)}) :
          archivos_fs' = [i \in DOMAIN l |-> [nombre |-> l[i], inicial |-> meta[l[i]].inicial,
                                             tamanio |-> meta[l[i]].tamanio]]
    /\ bit' = [i \in Bits |-> i \in Disco /\ bit[i]]
    /\ UNCHANGED <<bloques, meta, caido>>

TruncarArchivo(a, t) ==
    AmpliarEnElLugar(a, t) \/ AmpliarCompactando(a, t) \/ ReducirArchivo(a, t)

DialNext ==
    /\ ~caido
    /\ \/ \E a \in Archivos :
             \/ CrearArchivo(a) \/ EliminarArchivo(a)
             \/ \E t \in Tamanios : TruncarArchivo(a, t)
             \/ \E de, hasta \in 0 .. MaxBloques - 1 : de <= hasta /\ EscribirArchivo(a, de, hasta)
       \/ Reiniciar

DialSpec == DialInit /\ [][DialNext]_vars

-----------------------------------------------------------------------------
(* Properties.                                                             *)

Registro == [inicial : Disco \cup {-1}, tamanio : Tamanios \cup {0}]

(* Every block number stays where the bitmap's memory can hold its bit.    *)
TypeOK ==
    /\ bit \in [Bits -> BOOLEAN]
    /\ bloques \in [Disco -> Archivos \cup {Vacio}]
    /\ meta \in [Archivos -> Registro \cup {NoHay}]
    /\ archivos_fs \in Seq([nombre : Archivos, inicial : Disco \cup {-1},
                           tamanio : Tamanios \cup {0}])
    /\ Len(archivos_fs) <= MaxLista
    /\ caido \in BOOLEAN

(* A sound disk: the list says what the metadata say, the files are in the *)
(* disk and share no block, and the bitmap has their blocks and no others. *)
Ocupa(m) == m.inicial .. m.inicial + BloquesNecesarios(m.tamanio) - 1
Presentes == {a \in Archivos : Existe(a)}
ListaFiel ==
    /\ Len(archivos_fs) = Cardinality(Presentes)
    /\ \A a \in Presentes :
           [nombre |-> a, inicial |-> meta[a].inicial, tamanio |-> meta[a].tamanio]
               \in ToSet(archivos_fs)
Disjuntos ==
    \A a, b \in Presentes :
        a # b => Ocupa(meta[a]) \cap Ocupa(meta[b]) = {}
BitmapExacto ==
    {i \in Bits : bit[i]} = UNION {Ocupa(meta[a]) : a \in Presentes}
Sano ==
    /\ ListaFiel /\ Disjuntos /\ BitmapExacto
    /\ \A a \in Presentes : Ocupa(meta[a]) \subseteq Disco

Contenido(a) ==
    LeerBloques(bloques, meta[a].inicial, BloquesNecesarios(meta[a].tamanio))

(* A compaction (compactar, and what ampliar_archivo does after it) finds  *)
(* room for every file it moves and for the one that grows, leaves a sound *)
(* disk, and no file loses or changes what it had.                         *)
Compacto(a, t) == meta'[a].tamanio = t /\ AmpliarCompactando(a, t)
CompactarConserva ==
    [][ ((\E a \in Archivos, t \in Tamanios : Compacto(a, t)) /\ Sano)
        => /\ Sano' /\ ~caido'
           /\ \A a \in Presentes : IsPrefix(Contenido(a), Contenido(a)') ]_vars

(* The operations that are known not to respect the rest of the disk: a    *)
(* reduction, creating what exists or with the disk full, and growing in   *)
(* place a file that had something, or past the last block.                *)
Recrea(a) == Existe(a) /\ CrearArchivo(a)
CreaSinLugar(a) == PrimerLugar(bit, 1) = -1 /\ CrearArchivo(a)
CreceSobreOtro(a, t) == meta[a].tamanio > 0 /\ AmpliarEnElLugar(a, t)
CreceDeMas(a, t) == meta[a].inicial + Techo(t) > NBloques /\ AmpliarEnElLugar(a, t)
NoRespeta ==
    \E a \in Archivos :
        \/ Recrea(a) \/ CreaSinLugar(a)
        \/ \E t \in Tamanios : ReducirArchivo(a, t) \/ CreceSobreOtro(a, t) \/ CreceDeMas(a, t)

(* No other operation, a restart included, makes a sound disk unsound.     *)
LosDemasRespetan == [][ Sano /\ ~Sano' => NoRespeta ]_vars

(* And growing in place over another file takes exactly one block of it.   *)
PisaUnBloque ==
    [][ \A a \in Archivos, t \in Tamanios :
            (meta'[a].tamanio = t /\ CreceSobreOtro(a, t) /\ Sano) =>
                Cardinality(Ocupa(meta'[a]) \cap
                            UNION {Ocupa(meta[b]) : b \in Presentes \ {a}}) = 1 ]_vars
=============================================================================
