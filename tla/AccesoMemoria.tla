----------------------------- MODULE AccesoMemoria -----------------------------
(***************************************************************************)
(* The way of an address from an instruction to a byte: the MMU and the    *)
(* TLB of cpu (mmu.c, tlb.c), the memory instructions of                   *)
(* cicloinstruccion.c, the interfaces STDIN and STDOUT of operaciones_es.c,*)
(* and espacio_usuario.c, with the page tables of memoria.                 *)
(*                                                                         *)
(* memoria answers one request at a time here (its threads are studied in  *)
(* Paginacion); between two requests of an instruction the interfaces and  *)
(* the ends of other processes may come.  The CPU never removes an entry of*)
(* the TLB, so a RESIZE leaves old ones behind.                            *)
(***************************************************************************)
EXTENDS Integers, Sequences, SequencesExt, FiniteSets

CONSTANTS
    Pids, NULO,
    CantMarcos, TamPagina,
    EntradasTlb,     \* CANTIDAD_ENTRADAS_TLB
    Algoritmo,       \* ALGORITMO_TLB: "FIFO" or "LRU"
    Byte,            \* values a byte may have
    BLANCO, CERO,    \* the byte memoria starts with; the byte of calloc
    Dirs,            \* bound: logical addresses used
    Largos,          \* bound: bytes COPY_STRING and STDIN move
    Tamanios,        \* bound: bytes RESIZE asks for
    MaxIO            \* bound: processes waiting for an interface at a time

ASSUME NuloAssumption == NULO \notin Pids
ASSUME ByteAssumption == {BLANCO, CERO} \subseteq Byte
ASSUME TamanioAssumption == CantMarcos \in Nat /\ TamPagina \in Nat \ {0, 1} /\ EntradasTlb \in Nat
ASSUME PedidosAssumption ==
    /\ Dirs \subseteq Nat /\ IsFiniteSet(Dirs)
    /\ Largos \subseteq 1..(TamPagina + 1)
    /\ Tamanios \subseteq Nat /\ MaxIO \in Nat

Marcos == 0..(CantMarcos - 1)
Fin == CantMarcos * TamPagina
\* The address traducir_direccion_mmu returns for a page without a frame.
Invalida == -1

VARIABLES
    paginas,       \* per process: frame by page
    espacio,       \* espacio_usuario
    tlb,           \* entradas_tlb, in the order of the list
    enCpu,         \* the process the CPU executes
    leido,         \* bytes the CPU has got from memoria
    destino,       \* logical address where COPY_STRING is writing, or Invalida
    pend,          \* per process: what its I/O has left to move; l, the logical
                   \* address it was asked with, is history
    creados, terminados,
    inestable,     \* history: processes that shrank or whose STDIN crossed a page
    caida          \* memoria died

vMem == <<paginas, espacio, caida>>
vCpu == <<tlb, enCpu, leido, destino>>
vPid == <<pend, creados, terminados, inestable>>
vars == <<vMem, vCpu, vPid>>

NoPide == [op |-> "no", df |-> 0, n |-> 0, l |-> 0]

Init ==
    /\ paginas = [p \in Pids |-> <<>>]
    /\ espacio = [b \in 0..(Fin - 1) |-> BLANCO]
    /\ tlb = <<>>
    /\ enCpu = NULO
    /\ leido = <<>>
    /\ destino = Invalida
    /\ pend = [p \in Pids |-> NoPide]
    /\ creados = {} /\ terminados = {}
    /\ inestable = {}
    /\ caida = FALSE

-----------------------------------------------------------------------------
(* mmu.c and tlb.c.                                                        *)

Pagina(l) == l \div TamPagina

(* pedido_frame_mmu.                                                       *)
PedirFrame(p, g) == IF g < Len(paginas[p]) THEN paginas[p][g + 1] ELSE -1

EsDe(e, p, g) == e.pid = p /\ e.pagina = g
(* Mutation: the pid of the entry is not looked at.                        *)
PosicionesDeCualquiera(p, g) == {i \in DOMAIN tlb : tlb[i].pagina = g}

Posiciones(p, g) == {i \in DOMAIN tlb : EsDe(tlb[i], p, g)}

(* obtener_marco_tlb: the first entry of the page.  One with frame -1 is   *)
(* taken for a miss.                                                       *)
MarcoTlb(p, g) == IF Posiciones(p, g) = {} THEN -1 ELSE tlb[Min(Posiciones(p, g))].marco

Frame(p, g) == IF MarcoTlb(p, g) # -1 THEN MarcoTlb(p, g) ELSE PedirFrame(p, g)

(* last_reference is a time, and only the order of the times of the list   *)
(* matters.  Each is later than those before it: between two translations  *)
(* memoria answers something, after RETARDO_RESPUESTA.  Midnight is left   *)
(* out.                                                                    *)
Ordena(t) == [i \in DOMAIN t |-> [t[i] EXCEPT !.ref = Cardinality({j \in DOMAIN t : t[j].ref < t[i].ref})]]
Ahora == EntradasTlb + 1

Menor(t) == Min({i \in DOMAIN t : \A j \in DOMAIN t : t[i].ref <= t[j].ref})

(* Mutation: the entry replaced keeps its pid.                             *)
AgregaSinPid(t, e) ==
    IF Len(t) = EntradasTlb
    THEN [t EXCEPT ![Menor(t)] = [e EXCEPT !.pid = t[Menor(t)].pid]]
    ELSE Append(t, e)

(* Mutation: the list is full with one entry more.                         *)
AgregaUnaMas(t, e) == IF Len(t) > EntradasTlb THEN [t EXCEPT ![Menor(t)] = e] ELSE Append(t, e)

(* agregar_entrada_a_tlb.                                                  *)
Agrega(t, e) == IF Len(t) = EntradasTlb THEN [t EXCEPT ![Menor(t)] = e] ELSE Append(t, e)

(* obtener_frame: what becomes of the TLB.  The answer of memoria goes into*)
(* it even when there is no frame.                                         *)
Referencia(p, g) ==
    LET usada == IF Algoritmo = "LRU" /\ Posiciones(p, g) # {}
                 THEN [tlb EXCEPT ![Min(Posiciones(p, g))].ref = Ahora] ELSE tlb
    IN  IF EntradasTlb = 0 THEN tlb
        ELSE IF MarcoTlb(p, g) # -1 THEN Ordena(usada)
        ELSE Ordena(Agrega(usada, [pid |-> p, pagina |-> g, marco |-> PedirFrame(p, g), ref |-> Ahora]))

(* traducir_direccion_mmu of l by the executing process.                   *)
Traduce(l) == tlb' = Referencia(enCpu, Pagina(l))

Fisica(p, l) ==
    IF Frame(p, Pagina(l)) = -1 THEN Invalida
    ELSE Frame(p, Pagina(l)) * TamPagina + (l % TamPagina)

-----------------------------------------------------------------------------
(* espacio_usuario.c.                                                      *)

(* The division is of C: -1 / tam_pagina is 0.                             *)
MarcoDe(df) == IF df = Invalida THEN 0 ELSE df \div TamPagina

(* chequear_lectura_escritura_en_espacio_usuario: p owns the frame of the  *)
(* first byte.                                                             *)
Permitido(p, df) == MarcoDe(df) \in ToSet(paginas[p])

(* The address -1 passes for the owner of frame 0, and is 4 GB away.       *)
Alcanzable(p, df) == df # Invalida /\ Permitido(p, df)

(* The list of pages of a process that ended was destroyed: memoria dies   *)
(* or finds it empty.                                                      *)
Cae(p, df) ==
    caida' \in (IF p \in terminados THEN BOOLEAN ELSE {df = Invalida /\ Permitido(p, df)})

(* escribir_espacio_usuario; the answer is OK whatever happens.            *)
EscribeEspacio(p, df, s) ==
    espacio' = [b \in DOMAIN espacio |->
        IF Alcanzable(p, df) /\ b \in df..(df + Len(s) - 1) THEN s[b - df + 1] ELSE espacio[b]]

(* leer_espacio_usuario reads on in physical memory, and x past its end; as*)
(* a text it is cut at a zero byte, and x is what follows.                 *)
Crudo(df, n, x) == [k \in 1..n |-> IF df + k - 1 < Fin THEN espacio[df + k - 1] ELSE x]
Texto(s, x) == [k \in DOMAIN s |-> IF \E j \in 1..(k - 1) : s[j] = CERO THEN x ELSE s[k]]

-----------------------------------------------------------------------------
(* Instructions.  The executing process is between two of them.            *)
Listo == enCpu # NULO /\ destino = Invalida

Entra(p) ==
    /\ enCpu = NULO \/ Listo
    /\ p \in creados \ terminados /\ pend[p].op = "no" /\ p # enCpu
    /\ enCpu' = p
    /\ leido' = <<>>
    /\ UNCHANGED <<vMem, tlb, destino, vPid>>

(* exec_mov_in does not look at the translation.                           *)
MovIn(l) ==
    LET df == Fisica(enCpu, l)
    IN  /\ Listo
        /\ Traduce(l)
        /\ Cae(enCpu, df)
        /\ leido' = IF Alcanzable(enCpu, df) THEN Crudo(df, 1, CERO) ELSE <<>>
        /\ UNCHANGED <<paginas, espacio, enCpu, destino, vPid>>

(* exec_mov_out: escribir_dato_memoria of one byte.                        *)
MovOut(l, d) ==
    LET df == Fisica(enCpu, l)
    IN  /\ Listo
        /\ Traduce(l)
        /\ EscribeEspacio(enCpu, df, <<d>>)
        /\ leido' = <<>>
        /\ UNCHANGED <<paginas, caida, enCpu, destino, vPid>>

(* exec_copy_string: n bytes are read from the physical address of SI; if  *)
(* memoria refuses, zeros are written.                                     *)
CopiaLee(si, di, n) ==
    LET df == Fisica(enCpu, si)
    IN  /\ Listo
        /\ Traduce(si)
        /\ Cae(enCpu, df)
        /\ \E x \in Byte :
               leido' = IF Alcanzable(enCpu, df) THEN Texto(Crudo(df, n, x), x) ELSE [k \in 1..n |-> CERO]
        /\ destino' = di
        /\ UNCHANGED <<paginas, espacio, enCpu, vPid>>

Hasta(l) == TamPagina - (l % TamPagina)

(* One part of escribir_dato_memoria of cpu: what falls in one page.  A    *)
(* page without a frame ends it.                                           *)
CopiaEscribe ==
    LET df == Fisica(enCpu, destino)
        n == Min({Hasta(destino), Len(leido)})
    IN  /\ destino # Invalida
        /\ Traduce(destino)
        /\ EscribeEspacio(enCpu, df, SubSeq(leido, 1, n))
        /\ IF df = Invalida \/ n = Len(leido)
           THEN leido' = <<>> /\ destino' = Invalida
           ELSE leido' = SubSeq(leido, n + 1, Len(leido)) /\ destino' = destino + n
        /\ UNCHANGED <<paginas, caida, enCpu, vPid>>

Libres == Marcos \ UNION {ToSet(paginas[p]) : p \in Pids}

(* The frames are given in the order of the bitmap.                        *)
MarcoLibre(k) == CHOOSE f \in Libres : Cardinality({g \in Libres : g < f}) = k - 1

(* exec_resize; without enough frames the process gets the ones there are, *)
(* and ends.                                                               *)
Resize(n) ==
    LET cuantas == Len(paginas[enCpu])
        faltan == (n + TamPagina - 1) \div TamPagina - cuantas
        nuevas == [k \in 1..Min({faltan, Cardinality(Libres)}) |-> MarcoLibre(k)]
    IN  /\ Listo
        /\ leido' = <<>>
        /\ IF cuantas * TamPagina > n
           THEN /\ paginas' = [paginas EXCEPT ![enCpu] = SubSeq(@, 1, n \div TamPagina)]
                /\ inestable' = inestable \cup {enCpu}
                /\ UNCHANGED enCpu
           ELSE /\ paginas' = [paginas EXCEPT ![enCpu] = @ \o nuevas]
                /\ enCpu' = IF faltan > Cardinality(Libres) THEN NULO ELSE enCpu
                /\ UNCHANGED inestable
        /\ UNCHANGED <<espacio, caida, tlb, destino, pend, creados, terminados>>

(* IO_STDIN_READ and IO_STDOUT_WRITE: the address is translated now and    *)
(* used when the interface is free.                                        *)
PideIO(op, l, n) ==
    LET df == Fisica(enCpu, l)
    IN  /\ Listo
        /\ Cardinality({p \in Pids : pend[p].op # "no"}) < MaxIO
        /\ Traduce(l)
        /\ pend' = [pend EXCEPT ![enCpu] = [op |-> op, df |-> df, n |-> n, l |-> l]]
        /\ inestable' = IF op = "STDIN" /\ n > Hasta(l) THEN inestable \cup {enCpu} ELSE inestable
        /\ enCpu' = NULO
        /\ leido' = <<>>
        /\ UNCHANGED <<vMem, destino, creados, terminados>>

-----------------------------------------------------------------------------
(* The interfaces.                                                         *)

(* One part of escribir_dato_memoria of the interface: what falls in one   *)
(* frame; the next part goes to the next frame.                            *)
Stdin(p) ==
    LET e == pend[p]
        n == Min({Hasta(e.df), e.n})
    IN  /\ e.op = "STDIN"
        /\ \E d \in Byte \ {CERO} : EscribeEspacio(p, e.df, [k \in 1..n |-> d])
        /\ pend' = [pend EXCEPT ![p] = IF e.df = Invalida \/ n = e.n THEN NoPide
                                       ELSE [e EXCEPT !.df = @ + n, !.n = @ - n]]
        /\ caida' \in (IF p \in terminados /\ e.df # Invalida THEN BOOLEAN ELSE {FALSE})
        /\ UNCHANGED <<paginas, vCpu, creados, terminados, inestable>>

(* realizar_operacion_stdout asks even for the address -1.                 *)
Stdout(p) ==
    /\ pend[p].op = "STDOUT"
    /\ Cae(p, pend[p].df)
    /\ pend' = [pend EXCEPT ![p] = NoPide]
    /\ UNCHANGED <<paginas, espacio, vCpu, creados, terminados, inestable>>

-----------------------------------------------------------------------------
(* The kernel creates and ends processes.                                  *)

Inicia(p) ==
    /\ p \notin creados
    /\ creados' = creados \cup {p}
    /\ UNCHANGED <<vMem, vCpu, pend, terminados, inestable>>

(* EXIT, or an end from the console while it is not executing.             *)
Sale ==
    /\ Listo
    /\ enCpu' = NULO
    /\ leido' = <<>>
    /\ UNCHANGED <<vMem, tlb, destino, vPid>>

(* eliminar_tabla_paginas.                                                 *)
Finaliza(p) ==
    /\ p \in creados \ terminados /\ p # enCpu
    /\ terminados' = terminados \cup {p}
    /\ inestable' = inestable \cup {p}
    /\ paginas' = [paginas EXCEPT ![p] = <<>>]
    /\ UNCHANGED <<espacio, caida, vCpu, pend, creados>>

Next ==
    /\ ~caida
    /\ \/ \E p \in Pids : Inicia(p) \/ Finaliza(p) \/ Entra(p) \/ Stdin(p) \/ Stdout(p)
       \/ Sale \/ CopiaEscribe
       \/ \E n \in Tamanios : Resize(n)
       \/ \E l \in Dirs :
             \/ MovIn(l) \/ \E d \in Byte : MovOut(l, d)
             \/ \E n \in Largos :
                   \/ PideIO("STDIN", l, n) \/ PideIO("STDOUT", l, n)
                   \/ \E di \in Dirs : CopiaLee(l, di, n)

Spec == Init /\ [][Next]_vars

-----------------------------------------------------------------------------
(* Properties.                                                             *)

(* Every variable holds a value of its type; the TLB never outgrows its    *)
(* size and no frame is in two pages.                                      *)
TypeOK ==
    /\ paginas \in [Pids -> Seq(Marcos)]
    /\ \A p, q \in Pids : \A i \in DOMAIN paginas[p], j \in DOMAIN paginas[q] :
          paginas[p][i] = paginas[q][j] => p = q /\ i = j
    /\ espacio \in [0..(Fin - 1) -> Byte]
    /\ Len(tlb) <= EntradasTlb
    /\ tlb \in Seq([pid : Pids, pagina : Nat, marco : Marcos \cup {-1}, ref : Nat])
    /\ enCpu \in Pids \cup {NULO} /\ leido \in Seq(Byte) /\ destino \in Nat \cup {Invalida}
    /\ pend \in [Pids -> [op : {"no", "STDIN", "STDOUT"}, df : Nat \cup {Invalida}, n : Nat, l : Nat]]
    /\ terminados \subseteq creados /\ creados \subseteq Pids /\ inestable \subseteq Pids
    /\ caida \in BOOLEAN

(* The TLB agrees with the page tables, though nobody ever removes an      *)
(* entry: as long as a process has not shrunk, every frame the TLB has for *)
(* a page of it is the frame of that page, whatever others did.            *)
TlbCoherente ==
    \A i \in DOMAIN tlb :
        tlb[i].pid \notin inestable /\ tlb[i].marco # -1
        => /\ tlb[i].pagina < Len(paginas[tlb[i].pid])
           /\ paginas[tlb[i].pid][tlb[i].pagina + 1] = tlb[i].marco

(* The bytes of p by logical address.                                      *)
Vista(p) ==
    [k \in 1..(Len(paginas[p]) * TamPagina) |->
        espacio[paginas[p][Pagina(k - 1) + 1] * TamPagina + ((k - 1) % TamPagina)]]

Logica == INSTANCE MemoriaLogica WITH
    memoria <- [p \in Pids |-> Vista(p)],
    Dirs <- 0..(Max(Dirs) + TamPagina + 1),
    Largos <- 1..(TamPagina + 1)

(* Every step of the code is the step of MemoriaLogica for the same        *)
(* process, at the same logical addresses.                                 *)
Paso ==
    /\ \A l \in Dirs : MovIn(l) => Logica!Lee(enCpu, l, 1)
    /\ \A l \in Dirs, d \in Byte : MovOut(l, d) => Logica!Escribe(enCpu, l, <<d>>)
    /\ \A si, di \in Dirs, n \in Largos : CopiaLee(si, di, n) => Logica!Lee(enCpu, si, n)
    /\ CopiaEscribe => Logica!Copia(enCpu, destino, Min({Hasta(destino), Len(leido)}))
    /\ \A n \in Tamanios : Resize(n) => Logica!Agranda(enCpu) \/ Logica!Achica(enCpu)
    /\ \A op \in {"STDIN", "STDOUT"}, l \in Dirs, n \in Largos : PideIO(op, l, n) => Logica!Pide(enCpu)
    /\ \A p \in Pids :
          /\ Stdin(p) => \E d \in Byte : Logica!Escribe(p, pend[p].l, Logica!Veces(pend[p].n, d))
          /\ Finaliza(p) => Logica!Achica(p)
          /\ Inicia(p) \/ Entra(p) \/ Stdout(p) => Logica!Olvida
    /\ Sale => Logica!Olvida

(* Each process has the memory MemoriaLogica promises: it reads what it    *)
(* wrote, and what others do, with whatever old entries the TLB keeps, does*)
(* not touch it.                                                           *)
CadaUnoSuMemoria == Logica!Spec /\ [][Paso]_vars
=============================================================================
