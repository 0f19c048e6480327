----------------------------- MODULE Paginacion -----------------------------
(***************************************************************************)
(* The paging of memoria (memoria/src/memoria.c): the frame bitmap, the    *)
(* global list of page tables, and the two threads that work on them       *)
(* without any lock:                                                       *)
(*                                                                         *)
(*   "cpu"     recibirCPU: RESIZE (ampliar_proceso, reducir_proceso) and   *)
(*             PEDIDO_FRAME of the process that is executing;              *)
(*   "kernel"  recibirKernel: a table for each process that starts, and    *)
(*             eliminar_tabla_paginas for each one that ends.              *)
(*                                                                         *)
(* Both look tables up with buscar_en_lista_global, whose cursor           *)
(* tabla_actual is a global variable.  Each access to the cursor, to the   *)
(* bitmap or to a list of pages is a step; the list calls themselves are   *)
(* atomic, and one on a list that was destroyed, or that the other thread  *)
(* is working on, may kill memoria or work as if nothing had happened.     *)
(* A table is named by the pid it was created for.                         *)
(***************************************************************************)
EXTENDS Integers, Sequences, SequencesExt, FiniteSets

CONSTANTS
    Pids,         \* the processes the kernel may start
    NULO,         \* the NULL pointer
    CantMarcos,   \* cant_marcos = TAM_MEMORIA / TAM_PAGINA
    TamPagina,    \* TAM_PAGINA
    Tamanios,     \* bound: the sizes RESIZE asks for, in bytes
    Paginas       \* bound: the pages PEDIDO_FRAME asks for

ASSUME PidsAssumption == NULO \notin Pids
ASSUME MemoriaAssumption == CantMarcos \in Nat /\ TamPagina \in Nat \ {0}
ASSUME PedidosAssumption == Tamanios \subseteq Nat /\ Paginas \subseteq Nat

Marcos == 0..(CantMarcos - 1)
Hilos  == {"cpu", "kernel"}

VARIABLES
    bit,            \* array_bitmap: bit[f] = 1 when frame f is taken
    lista,          \* lista_global_tablas: tables are added, never removed
    paginas,        \* paginas[p]: paginas_proceso of p's table, frame by page
    destruida,      \* the tables whose paginas_proceso was destroyed
    tabla_actual,   \* the cursor of buscar_en_lista_global
    pc, luego,      \* per thread: next statement, and the one after the search
    pid, tabla,     \* per thread: the pid it looks for, the table it found
    pos, tope,      \* per thread: i and cantidad_tablas of the search
    mano,           \* per thread: frame of the page it removed, not yet freed
    valor,          \* CPU thread: the size or the page number asked for
    i, faltan,      \* CPU thread: frame index, pages still to add or remove
    libres,         \* CPU thread: marcos_libres of cantidad_marcos_libres
    exitoso,        \* CPU thread: the answer it gave was RESIZE_EXITOSO
    enCpu,          \* the process the CPU executes
    pidiendo,       \* the CPU waits for an answer
    aFinalizar,     \* SOLICITUD_FINALIZAR_PROCESO messages on their way
    terminados,     \* the processes the kernel has sent one for
    caida           \* memoria died of a segmentation fault

vars == <<bit, lista, paginas, destruida, tabla_actual, pc, luego, pid, tabla, pos,
          tope, mano, valor, i, faltan, libres, exitoso, enCpu, pidiendo,
          aFinalizar, terminados, caida>>

\* Groups that most steps leave alone.
vMarcos   == <<bit, paginas, destruida>>
vBusqueda == <<tabla_actual, luego, pid, pos, tope>>
vResize   == <<valor, i, faltan, libres, exitoso>>
vEntorno  == <<enCpu, pidiendo, aFinalizar, terminados>>

Init ==
    /\ bit = [f \in Marcos |-> 0]
    /\ lista = <<>>
    /\ paginas = [p \in Pids |-> <<>>]
    /\ destruida = {}
    /\ tabla_actual = NULO
    /\ pc = [h \in Hilos |-> "libre"]
    /\ luego = [h \in Hilos |-> "libre"]
    /\ pid = [h \in Hilos |-> NULO]
    /\ tabla = [h \in Hilos |-> NULO]
    /\ pos = [h \in Hilos |-> 0]
    /\ tope = [h \in Hilos |-> 0]
    /\ mano = [h \in Hilos |-> NULO]
    /\ valor = 0
    /\ i = 0
    /\ faltan = 0
    /\ libres = 0
    /\ exitoso = FALSE
    /\ enCpu = NULO
    /\ pidiendo = FALSE
    /\ aFinalizar = <<>>
    /\ terminados = {}
    /\ caida = FALSE

Salta(h, l) == pc' = [pc EXCEPT ![h] = l]

Creados == ToSet(lista)

-----------------------------------------------------------------------------
(* buscar_en_lista_global.  The cursor is written, read to compare and     *)
(* read again to return it; the other thread may be in the same loop.      *)

EmpezarBusqueda(h, p, l) ==
    /\ Salta(h, "buscar")
    /\ luego' = [luego EXCEPT ![h] = l]
    /\ pid' = [pid EXCEPT ![h] = p]
    /\ pos' = [pos EXCEPT ![h] = 1]
    /\ tope' = [tope EXCEPT ![h] = Len(lista)]

Buscar(h) ==
    /\ pc[h] = "buscar"
    /\ IF pos[h] <= tope[h]
       THEN /\ tabla_actual' = lista[pos[h]]
            /\ Salta(h, "comparar")
            /\ UNCHANGED tabla
       ELSE /\ tabla' = [tabla EXCEPT ![h] = NULO]
            /\ Salta(h, luego[h])
            /\ UNCHANGED tabla_actual
    /\ UNCHANGED <<lista, mano, luego, pid, pos, tope, caida, vMarcos, vResize, vEntorno>>

Comparar(h) ==
    /\ pc[h] = "comparar"
    /\ \/ tabla_actual = pid[h] /\ Salta(h, "devolver") /\ UNCHANGED pos
       \/ tabla_actual # pid[h] /\ Salta(h, "buscar") /\ pos' = [pos EXCEPT ![h] = @ + 1]
    /\ UNCHANGED <<lista, tabla, mano, tabla_actual, luego, pid, tope, caida,
                   vMarcos, vResize, vEntorno>>

Devolver(h) ==
    /\ pc[h] = "devolver"
    /\ tabla' = [tabla EXCEPT ![h] = tabla_actual]
    /\ Salta(h, luego[h])
    /\ UNCHANGED <<lista, mano, caida, vMarcos, vBusqueda, vResize, vEntorno>>

BuscarEnListaGlobal(h) == Buscar(h) \/ Comparar(h) \/ Devolver(h)

-----------------------------------------------------------------------------
(* Undefined behaviour: a table whose list was destroyed, or is being      *)
(* worked on by the other thread.                                          *)

Trabajando == {"contar", "responder", "asignar", "marcar", "eliminar", "liberar", "destruir"}

Riesgo(h) ==
    \/ tabla[h] \in destruida
    \/ \E g \in Hilos \ {h} : tabla[g] = tabla[h] /\ pc[g] \in Trabajando

PuedeCaer(h) == caida' \in {FALSE, Riesgo(h)}

(* Mutation: the bit as a counter of uses.                                 *)
DescontarMarco(h, sigue) ==
    /\ pc[h] = "liberar"
    /\ bit' = [bit EXCEPT ![mano[h]] = @ - 1]
    /\ mano' = [mano EXCEPT ![h] = NULO]
    /\ Salta(h, sigue)
    /\ UNCHANGED <<lista, tabla, paginas, destruida, caida, vBusqueda, vResize, vEntorno>>

(* liberar_marco.                                                          *)
LiberarMarco(h, sigue) ==
    /\ pc[h] = "liberar"
    /\ bit' = [bit EXCEPT ![mano[h]] = 0]
    /\ mano' = [mano EXCEPT ![h] = NULO]
    /\ Salta(h, sigue)
    /\ UNCHANGED <<lista, tabla, paginas, destruida, caida, vBusqueda, vResize, vEntorno>>

Terminar(h) == Salta(h, "libre") /\ tabla' = [tabla EXCEPT ![h] = NULO]

-----------------------------------------------------------------------------
(* The CPU thread: RESIZE_OP.                                              *)

PedirResize(n) ==
    /\ pc["cpu"] = "libre" /\ enCpu # NULO /\ ~pidiendo
    /\ EmpezarBusqueda("cpu", enCpu, "tamanio")
    /\ valor' = n
    /\ pidiendo' = TRUE
    /\ UNCHANGED <<lista, tabla, mano, tabla_actual, i, faltan, libres, exitoso, enCpu,
                   aFinalizar, terminados, caida, vMarcos>>

Largo(h) == Len(paginas[tabla[h]])

(* tamanio_proceso dereferences the table it found; the table is looked up *)
(* again by reducir_proceso or ampliar_proceso.                            *)
TamanioProceso ==
    /\ pc["cpu"] = "tamanio"
    /\ IF tabla["cpu"] = NULO
       THEN /\ caida' = TRUE
            /\ UNCHANGED <<pc, luego, pid, pos, tope>>
       ELSE /\ PuedeCaer("cpu")
            /\ EmpezarBusqueda("cpu", pid["cpu"],
                   IF Largo("cpu") * TamPagina > valor THEN "reducir" ELSE "ampliar")
    /\ UNCHANGED <<lista, tabla, mano, tabla_actual, vMarcos, vResize, vEntorno>>

(* Without a table neither function answers the CPU.                       *)
SinTabla ==
    /\ pc["cpu"] \in {"reducir", "ampliar"}
    /\ tabla["cpu"] = NULO
    /\ Terminar("cpu")
    /\ UNCHANGED <<lista, mano, caida, vMarcos, vBusqueda, vResize, vEntorno>>

(* reducir_proceso: the pages that are left are counted rounding down.     *)
ReducirProceso ==
    /\ pc["cpu"] = "reducir" /\ tabla["cpu"] # NULO
    /\ faltan' = Largo("cpu") - valor \div TamPagina
    /\ PuedeCaer("cpu")
    /\ Salta("cpu", "eliminar")
    /\ UNCHANGED <<lista, tabla, mano, valor, i, libres, exitoso, vMarcos, vBusqueda, vEntorno>>

(* Mutation: the frame that is freed is not that of the page removed.      *)
EliminarOtraPagina ==
    /\ pc["cpu"] = "eliminar" /\ faltan > 0
    /\ faltan' = faltan - 1
    /\ IF Largo("cpu") = 0
       THEN caida' = TRUE /\ UNCHANGED <<paginas, mano, pc>>
       ELSE /\ mano' = [mano EXCEPT !["cpu"] = Head(paginas[tabla["cpu"]])]
            /\ paginas' = [paginas EXCEPT ![tabla["cpu"]] = Front(@)]
            /\ PuedeCaer("cpu")
            /\ Salta("cpu", "liberar")
    /\ UNCHANGED <<lista, tabla, bit, destruida, valor, i, libres, exitoso, vBusqueda, vEntorno>>

(* eliminar_paginas removes the last page each time.                       *)
EliminarPagina ==
    /\ pc["cpu"] = "eliminar" /\ faltan > 0
    /\ faltan' = faltan - 1
    /\ IF Largo("cpu") = 0
       THEN caida' = TRUE /\ UNCHANGED <<paginas, mano, pc>>
       ELSE /\ mano' = [mano EXCEPT !["cpu"] = Last(paginas[tabla["cpu"]])]
            /\ paginas' = [paginas EXCEPT ![tabla["cpu"]] = Front(@)]
            /\ PuedeCaer("cpu")
            /\ Salta("cpu", "liberar")
    /\ UNCHANGED <<lista, tabla, bit, destruida, valor, i, libres, exitoso, vBusqueda, vEntorno>>

ResponderReduccion ==
    /\ pc["cpu"] = "eliminar" /\ faltan <= 0
    /\ pidiendo' = FALSE
    /\ exitoso' = TRUE
    /\ Terminar("cpu")
    /\ UNCHANGED <<lista, mano, caida, valor, i, faltan, libres, enCpu, aFinalizar,
                   terminados, vMarcos, vBusqueda>>

PaginasPara(n) == (n + TamPagina - 1) \div TamPagina

(* ampliar_proceso: the pages that are needed are counted rounding up.     *)
AmpliarProceso ==
    /\ pc["cpu"] = "ampliar" /\ tabla["cpu"] # NULO
    /\ faltan' = PaginasPara(valor) - Largo("cpu")
    /\ i' = 0
    /\ libres' = 0
    /\ PuedeCaer("cpu")
    /\ Salta("cpu", "contar")
    /\ UNCHANGED <<lista, tabla, mano, valor, exitoso, vMarcos, vBusqueda, vEntorno>>

(* cantidad_marcos_libres, a bit at a time.                                *)
ContarMarco ==
    /\ pc["cpu"] = "contar"
    /\ IF i < CantMarcos
       THEN libres' = libres + (1 - bit[i]) /\ i' = i + 1 /\ UNCHANGED pc
       ELSE i' = 0 /\ Salta("cpu", "responder") /\ UNCHANGED libres
    /\ UNCHANGED <<lista, tabla, mano, caida, valor, faltan, exitoso, vMarcos, vBusqueda, vEntorno>>

(* Mutation: an off-by-one in the comparison with the free frames.         *)
ResponderDeMas ==
    /\ pc["cpu"] = "responder"
    /\ pidiendo' = FALSE
    /\ exitoso' = (faltan <= libres + 1)
    /\ IF faltan <= libres + 1
       THEN UNCHANGED <<enCpu, aFinalizar, terminados>>
       ELSE /\ enCpu' = NULO
            /\ aFinalizar' = Append(aFinalizar, pid["cpu"])
            /\ terminados' = terminados \cup {pid["cpu"]}
    /\ Salta("cpu", "asignar")
    /\ UNCHANGED <<lista, tabla, mano, caida, valor, i, faltan, libres, vMarcos, vBusqueda>>

(* The answer is sent before the pages are assigned.  A CPU that gets      *)
(* OUT_OF_MEMORY asks the kernel to end the process.                       *)
ResponderAmpliacion ==
    /\ pc["cpu"] = "responder"
    /\ pidiendo' = FALSE
    /\ exitoso' = (faltan <= libres)
    /\ IF faltan <= libres
       THEN UNCHANGED <<enCpu, aFinalizar, terminados>>
       ELSE /\ enCpu' = NULO
            /\ aFinalizar' = Append(aFinalizar, pid["cpu"])
            /\ terminados' = terminados \cup {pid["cpu"]}
    /\ Salta("cpu", "asignar")
    /\ UNCHANGED <<lista, tabla, mano, caida, valor, i, faltan, libres, vMarcos, vBusqueda>>

(* asignar_paginas_nuevas, whatever the answer was: the first free frames, *)
(* in order; a page is added to the table and then its frame is marked.    *)
SaltarMarco ==
    /\ pc["cpu"] = "asignar" /\ i < CantMarcos /\ faltan > 0 /\ bit[i] = 1
    /\ i' = i + 1
    /\ UNCHANGED <<lista, tabla, mano, pc, caida, valor, faltan, libres, exitoso,
                   vMarcos, vBusqueda, vEntorno>>

AgregarPagina ==
    /\ pc["cpu"] = "asignar" /\ i < CantMarcos /\ faltan > 0 /\ bit[i] = 0
    /\ paginas' = [paginas EXCEPT ![tabla["cpu"]] = Append(@, i)]
    /\ PuedeCaer("cpu")
    /\ Salta("cpu", "marcar")
    /\ UNCHANGED <<lista, tabla, mano, bit, destruida, vResize, vBusqueda, vEntorno>>

(* Mutation: the bitmap is not updated.                                    *)
NoMarcar ==
    /\ pc["cpu"] = "marcar"
    /\ i' = i + 1
    /\ faltan' = faltan - 1
    /\ Salta("cpu", "asignar")
    /\ UNCHANGED <<lista, tabla, mano, caida, bit, paginas, destruida, valor, libres, exitoso,
                   vBusqueda, vEntorno>>

MarcarMarco ==
    /\ pc["cpu"] = "marcar"
    /\ bit' = [bit EXCEPT ![i] = 1]
    /\ i' = i + 1
    /\ faltan' = faltan - 1
    /\ Salta("cpu", "asignar")
    /\ UNCHANGED <<lista, tabla, mano, caida, paginas, destruida, valor, libres, exitoso,
                   vBusqueda, vEntorno>>

FinAsignar ==
    /\ pc["cpu"] = "asignar" /\ ~(i < CantMarcos /\ faltan > 0)
    /\ Terminar("cpu")
    /\ UNCHANGED <<lista, mano, caida, vMarcos, vBusqueda, vResize, vEntorno>>

(* pedido_frame_mmu: PEDIDO_FRAME_CORRECTO or _INCORRECTO.                 *)
PedirFrame(n) ==
    /\ pc["cpu"] = "libre" /\ enCpu # NULO /\ ~pidiendo
    /\ EmpezarBusqueda("cpu", enCpu, "frame")
    /\ valor' = n
    /\ pidiendo' = TRUE
    /\ UNCHANGED <<lista, tabla, mano, tabla_actual, i, faltan, libres, exitoso, enCpu,
                   aFinalizar, terminados, caida, vMarcos>>

ResponderFrame ==
    /\ pc["cpu"] = "frame"
    /\ pidiendo' = FALSE
    /\ IF tabla["cpu"] = NULO THEN UNCHANGED caida ELSE PuedeCaer("cpu")
    /\ Terminar("cpu")
    /\ UNCHANGED <<lista, mano, enCpu, aFinalizar, terminados, vMarcos, vBusqueda, vResize>>

HiloCpu ==
    \/ BuscarEnListaGlobal("cpu")
    \/ TamanioProceso \/ SinTabla
    \/ ReducirProceso \/ EliminarPagina \/ LiberarMarco("cpu", "eliminar") \/ ResponderReduccion
    \/ AmpliarProceso \/ ContarMarco \/ ResponderAmpliacion
    \/ SaltarMarco \/ AgregarPagina \/ MarcarMarco \/ FinAsignar
    \/ ResponderFrame

-----------------------------------------------------------------------------
(* The kernel thread.  iniciar_proceso with a program that can be read:    *)
(* with one that cannot, only an error is answered.                        *)

IniciarProceso(p) ==
    /\ pc["kernel"] = "libre"
    /\ p \notin Creados
    /\ lista' = Append(lista, p)
    /\ UNCHANGED <<tabla, mano, pc, caida, vMarcos, vBusqueda, vResize, vEntorno>>

(* finalizar_proceso: eliminar_tabla_paginas.                              *)
FinalizarProceso ==
    /\ pc["kernel"] = "libre"
    /\ aFinalizar # <<>>
    /\ aFinalizar' = Tail(aFinalizar)
    /\ EmpezarBusqueda("kernel", Head(aFinalizar), "destruir")
    /\ UNCHANGED <<lista, tabla, mano, tabla_actual, caida, enCpu, pidiendo, terminados,
                   vMarcos, vResize>>

(* list_destroy_and_destroy_elements: destruir_pagina on the first page    *)
(* until none is left, then the list itself is freed.                      *)
DestruirPagina ==
    /\ pc["kernel"] = "destruir" /\ tabla["kernel"] # NULO /\ Largo("kernel") > 0
    /\ mano' = [mano EXCEPT !["kernel"] = Head(paginas[tabla["kernel"]])]
    /\ paginas' = [paginas EXCEPT ![tabla["kernel"]] = Tail(@)]
    /\ PuedeCaer("kernel")
    /\ Salta("kernel", "liberar")
    /\ UNCHANGED <<lista, tabla, bit, destruida, vBusqueda, vResize, vEntorno>>

DestruirLista ==
    /\ pc["kernel"] = "destruir"
    /\ IF tabla["kernel"] = NULO
       THEN caida' = TRUE /\ UNCHANGED <<destruida, pc, tabla>>
       ELSE /\ Largo("kernel") = 0
            /\ destruida' = destruida \cup {tabla["kernel"]}
            /\ PuedeCaer("kernel")
            /\ Terminar("kernel")
    /\ UNCHANGED <<lista, mano, bit, paginas, vBusqueda, vResize, vEntorno>>

HiloKernel ==
    \/ FinalizarProceso \/ BuscarEnListaGlobal("kernel")
    \/ DestruirPagina \/ LiberarMarco("kernel", "destruir") \/ DestruirLista

-----------------------------------------------------------------------------
(* The CPU and the kernel, as far as memoria sees them: the CPU executes   *)
(* one process at a time and ends it (EXIT) or leaves it (I/O, quantum);   *)
(* the console ends a process the CPU is not executing.                    *)

Despachar(p) ==
    /\ enCpu = NULO
    /\ p \in Creados \ terminados
    /\ enCpu' = p
    /\ UNCHANGED <<pidiendo, aFinalizar, terminados>>

Desalojar ==
    /\ enCpu # NULO /\ ~pidiendo
    /\ enCpu' = NULO
    /\ UNCHANGED <<pidiendo, aFinalizar, terminados>>

Finaliza(p) ==
    /\ p \in Creados \ terminados
    /\ enCpu = p => ~pidiendo
    /\ enCpu' = IF enCpu = p THEN NULO ELSE enCpu
    /\ aFinalizar' = Append(aFinalizar, p)
    /\ terminados' = terminados \cup {p}
    /\ UNCHANGED pidiendo

Entorno ==
    /\ Desalojar \/ \E p \in Pids : Despachar(p) \/ Finaliza(p)
    /\ UNCHANGED <<lista, tabla, mano, pc, caida, vMarcos, vBusqueda, vResize>>

Pedidos ==
    \/ \E p \in Pids : IniciarProceso(p)
    \/ \E n \in Tamanios : PedirResize(n)
    \/ \E n \in Paginas : PedirFrame(n)

Next == ~caida /\ (HiloCpu \/ HiloKernel \/ Pedidos \/ Entorno)

Spec == Init /\ [][Next]_vars

-----------------------------------------------------------------------------
(* Properties.                                                             *)

(* Every variable holds a value of its type.                               *)
TypeOK ==
    /\ bit \in [Marcos -> {0, 1}]
    /\ lista \in Seq(Pids)
    /\ paginas \in [Pids -> Seq(Marcos)]
    /\ destruida \subseteq Pids
    /\ tabla_actual \in Pids \cup {NULO}
    /\ pc \in [Hilos -> {"libre", "buscar", "comparar", "devolver", "tamanio", "reducir",
                         "ampliar", "frame"} \cup Trabajando]
    /\ luego \in [Hilos -> {"libre", "tamanio", "reducir", "ampliar", "frame", "destruir"}]
    /\ pid \in [Hilos -> Pids \cup {NULO}]
    /\ tabla \in [Hilos -> Pids \cup {NULO}]
    /\ pos \in [Hilos -> Nat]
    /\ tope \in [Hilos -> Nat]
    /\ mano \in [Hilos -> Marcos \cup {NULO}]
    /\ valor \in Nat
    /\ i \in Nat
    /\ faltan \in Int
    /\ libres \in Nat
    /\ exitoso \in BOOLEAN
    /\ enCpu \in Pids \cup {NULO}
    /\ pidiendo \in BOOLEAN
    /\ aFinalizar \in Seq(Pids)
    /\ terminados \subseteq Pids
    /\ caida \in BOOLEAN

(* No frame is in two pages, of one process or of two, though bitmap and   *)
(* tables are changed by two threads without a lock and either may be      *)
(* working on the wrong table.                                             *)
MarcoExclusivo ==
    \A p, q \in Pids : \A j \in DOMAIN paginas[p], k \in DOMAIN paginas[q] :
        paginas[p][j] = paginas[q][k] => p = q /\ j = k

(* A frame that is in a page is never offered as free, but for the one     *)
(* asignar_paginas_nuevas has just put there and is about to mark.         *)
Marcando(f) == pc["cpu"] = "marcar" /\ i = f
MarcoEnUsoOcupado ==
    \A p \in Pids : \A f \in ToSet(paginas[p]) : bit[f] = 1 \/ Marcando(f)

(* RESIZE_EXITOSO is a promise: it is sent before the pages are assigned,  *)
(* and the frames that are left from i on are enough to the end, whatever  *)
(* the kernel thread frees meanwhile.                                      *)
LibresDesde(n) == {f \in Marcos : f >= n /\ bit[f] = 0}
ExitosoAlcanza ==
    (pc["cpu"] \in {"asignar", "marcar"} /\ exitoso) => faltan <= Cardinality(LibresDesde(i))

(* The two that follow are what one expects and the code does not do       *)
(* (README, "What does not hold").                                         *)
(* buscar_en_lista_global returns the table of the process it was asked for. *)
BuscaMiTabla ==
    \A h \in Hilos : tabla[h] # NULO => tabla[h] = pid[h]

(* Once the list of pages of a process was destroyed none of its frames is *)
(* taken: when no thread is working, every occupied frame is in a page.    *)
Quieto == \A h \in Hilos : pc[h] = "libre"
OcupadoSoloEnTabla ==
    Quieto => \A f \in Marcos : bit[f] = 1 => \E p \in Pids : f \in ToSet(paginas[p])
=============================================================================
