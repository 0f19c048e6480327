------------------------------- MODULE Recursos -------------------------------
(***************************************************************************)
(* WAIT and SIGNAL, and the end of a process, in the kernel: the dispatch  *)
(* thread's cases of kernel.c, finalizar_proceso and liberar_recursos of   *)
(* operaciones.c, transicion_generica_exit of largoPlazo.c, manejarGrado.  *)
(*                                                                         *)
(* Two threads run this code: the dispatch thread, on behalf of the process*)
(* that left the CPU, and the console (FINALIZAR_PROCESO).  They share the *)
(* resources, the queues and two globals: pid_a_finalizar, by which every  *)
(* search for a PCB is made, and nombre_recurso_recibido, by which every   *)
(* search for a resource is.  The scheduling threads, studied in           *)
(* Planificador, are here one step per transition, but for exec_blocked,   *)
(* which frees the CPU before it moves the PCB and stores its context.     *)
(* Programs are given: the scripts' instructions without the ones that only*)
(* compute.                                                                *)
(*                                                                         *)
(* What follows undefined behaviour is not followed: falla names it.  Nor  *)
(* is what follows the loss of a context that exec_blocked had still to    *)
(* store (falla "pisado"): from there on two PCBs have one context, which  *)
(* exec_ready frees under one of them.                                     *)
(***************************************************************************)
EXTENDS Integers, Sequences, SequencesExt, FiniteSets

CONSTANTS
    Procesos,        \* PCBs and pids
    NULO,
    Recursos,        \* RECURSOS of the configuration
    Instancias,      \* INSTANCIAS_RECURSOS
    Programas,       \* programs a process may have
    Grado,           \* GRADO_MULTIPROGRAMACION of the configuration
    NuevosGrados,    \* values given to MULTIPROGRAMACION
    MaxFinalizar,    \* bound: FINALIZAR_PROCESO commands
    MaxCambios       \* bound: MULTIPROGRAMACION commands

ASSUME NuloAssumption == NULO \notin Procesos \cup Recursos
ASSUME FinitosAssumption == IsFiniteSet(Procesos) /\ IsFiniteSet(Recursos)
ASSUME ProgramasAssumption ==
    \A s \in Programas : s \in Seq(ToSet(s)) /\ \A i \in ToSet(s) : i = [op |-> i.op, r |-> i.r]
ASSUME InstanciasAssumption == Instancias \in [Recursos -> Nat]
ASSUME GradoAssumption == Grado \in Nat \ {0} /\ NuevosGrados \subseteq Nat
ASSUME CotasAssumption == MaxFinalizar \in Nat /\ MaxCambios \in Nat

Colas == {"NEW", "READY", "EXEC", "BLOCK", "EXIT"}
Semaforos == {"GRADO", "en_new", "exec_libre", "t_exec_ready", "t_exec_blocked", "t_blocked_ready",
              "t_exit_largo", "manejo_grado"}
HilosFin == {"dispatch", "consola"}
Fallas == {"ninguna", "nulo", "pcb_ajeno", "liberado", "desincronizado", "doble_final", "pisado"}

VARIABLES
    colas, contador, sem,
    instancias,        \* per resource: its semaphore
    bloqueados,        \* per resource: cola_bloqueados->estado
    contBloqueados,    \* per resource: cola_bloqueados->contador
    asignados,         \* per PCB and resource: instances in recursosAsignados
    nombre_recurso_recibido,
    pid_a_finalizar,
    hilo,              \* dispatch thread and console: statement and locals
    largo,             \* largo_plazo is past its two first semaphores
    bloqueo,           \* exec_blocked: waits, or has freed the CPU and must move, or store
    valorGrado, ajuste,         \* valor_grado_a_modificar; what manejarGrado has left to do
    programa, PC, cpu, interrupcion_exit,
    eliminados,        \* PCBs that went through eliminar_proceso
    pedido,            \* history: what MULTIPROGRAMACION asked for in all
    resta, cambios,    \* what is left of the bounds
    falla

vCola     == <<colas, contador>>
vRecurso  == <<instancias, bloqueados, contBloqueados, asignados, nombre_recurso_recibido>>
vCpu      == <<programa, PC, cpu, interrupcion_exit>>
vGrado    == <<largo, bloqueo, valorGrado, ajuste, pedido, cambios>>
vFin      == <<pid_a_finalizar, hilo, eliminados, resta>>
vars == <<vCola, sem, vRecurso, vCpu, vGrado, vFin, falla>>

-----------------------------------------------------------------------------
Ocioso == [paso |-> "libre", p |-> NULO, r |-> NULO, q |-> NULO, cola |-> "EXIT", hay |-> FALSE,
           ya |-> NULO, rs |-> {}]

Init ==
    /\ colas = [c \in Colas |-> <<>>]
    /\ contador = [c \in Colas |-> 0]
    /\ sem = [s \in Semaforos |-> CASE s = "GRADO" -> Grado
                                    [] s = "exec_libre" -> 1
                                    [] OTHER -> 0]
    /\ instancias = Instancias
    /\ bloqueados = [r \in Recursos |-> <<>>]
    /\ contBloqueados = [r \in Recursos |-> 0]
    /\ asignados = [p \in Procesos |-> [r \in Recursos |-> 0]]
    /\ pid_a_finalizar = NULO /\ nombre_recurso_recibido = NULO
    /\ hilo = [h \in HilosFin |-> Ocioso]
    /\ largo = FALSE /\ bloqueo = "espera"
    /\ valorGrado = Grado /\ ajuste = 0
    /\ programa \in [Procesos -> Programas]
    /\ PC = [p \in Procesos |-> 0]
    /\ cpu = NULO
    /\ interrupcion_exit = FALSE
    /\ eliminados = {}
    /\ pedido = 0
    /\ resta = MaxFinalizar /\ cambios = MaxCambios
    /\ falla = "ninguna"

(* The resources in recursosAsignados of p: liberar_recursos counts them   *)
(* once, when it begins.                                                   *)
Tiene(p) == {r \in Recursos : asignados[p][r] > 0}

En(h, s) == hilo[h].paso = s
Pone(h, x) == hilo' = [hilo EXCEPT ![h] = x]
Sigue(h, s) == Pone(h, [hilo[h] EXCEPT !.paso = s])
Post(s) == sem' = [sem EXCEPT ![s] = @ + 1]
Falla(f) == falla' = f

-----------------------------------------------------------------------------
(* The scheduling threads, one step per transition: transicion_generica    *)
(* between two queues, with the semaphores before and after it.            *)

(* The list of b after transicion_generica took the head of a's list.      *)
Mueve(a, b) ==
    /\ contador[a] > 0 /\ colas[a] # <<>>
    /\ colas' = [colas EXCEPT ![a] = Tail(@), ![b] = Append(@, Head(colas[a]))]
    /\ contador' = [contador EXCEPT ![a] = @ - 1, ![b] = @ + 1]

IniciarProceso(p) ==
    /\ \A c \in Colas : p \notin ToSet(colas[c])
    /\ p \notin eliminados /\ hilo["consola"].p # p
    /\ colas' = [colas EXCEPT !["NEW"] = Append(@, p)]
    /\ contador' = [contador EXCEPT !["NEW"] = @ + 1]
    /\ Post("en_new")
    /\ UNCHANGED <<vRecurso, vCpu, vGrado, vFin, falla>>

(* largo_plazo takes a unit of the degree before it has a process: one that*)
(* was ended in NEW leaves it waiting with the unit taken.                 *)
LargoToma ==
    /\ ~largo
    /\ sem["en_new"] > 0 /\ sem["GRADO"] > 0
    /\ largo' = TRUE
    /\ sem' = [sem EXCEPT !["en_new"] = @ - 1, !["GRADO"] = @ - 1]
    /\ UNCHANGED <<vCola, vRecurso, vCpu, bloqueo, valorGrado, ajuste, pedido, cambios, vFin, falla>>

LargoMueve ==
    /\ largo
    /\ largo' = FALSE
    /\ Mueve("NEW", "READY")
    /\ UNCHANGED <<sem, vRecurso, vCpu, bloqueo, valorGrado, ajuste, pedido, cambios, vFin, falla>>

(* corto_plazo; the registers of a PCB that was eliminated are freed.      *)
CortoPlazo ==
    /\ sem["exec_libre"] > 0
    /\ sem' = [sem EXCEPT !["exec_libre"] = @ - 1]
    /\ Mueve("READY", "EXEC")
    /\ cpu' = Head(colas["READY"])
    /\ Falla(IF Head(colas["READY"]) \in eliminados THEN "liberado" ELSE "ninguna")
    /\ UNCHANGED <<vRecurso, programa, PC, interrupcion_exit, vGrado, vFin>>

ExecReady ==
    /\ sem["t_exec_ready"] > 0
    /\ sem' = [sem EXCEPT !["t_exec_ready"] = @ - 1, !["exec_libre"] = @ + 1]
    /\ Mueve("EXEC", "READY")
    /\ UNCHANGED <<vRecurso, vCpu, vGrado, vFin, falla>>

(* The CPU is given away first: who comes next may be in EXEC, behind the  *)
(* process that has still to be moved, or running while its context has    *)
(* still to be stored.                                                     *)
ExecBlockedLibera ==
    /\ bloqueo = "espera"
    /\ sem["t_exec_blocked"] > 0
    /\ sem' = [sem EXCEPT !["t_exec_blocked"] = @ - 1, !["exec_libre"] = @ + 1]
    /\ bloqueo' = "mueve"
    /\ UNCHANGED <<vCola, vRecurso, vCpu, largo, valorGrado, ajuste, pedido, cambios, vFin, falla>>

ExecBlockedMueve ==
    /\ bloqueo = "mueve"
    /\ Mueve("EXEC", "BLOCK")
    /\ bloqueo' = "guarda"
    /\ UNCHANGED <<sem, vRecurso, vCpu, largo, valorGrado, ajuste, pedido, cambios, vFin, falla>>

ExecBlockedGuarda ==
    /\ bloqueo = "guarda"
    /\ bloqueo' = "espera"
    /\ UNCHANGED <<vCola, sem, vRecurso, vCpu, largo, valorGrado, ajuste, pedido, cambios, vFin, falla>>

ExecBlocked == ExecBlockedLibera \/ ExecBlockedMueve \/ ExecBlockedGuarda

(* Mutation: the last process blocked is the first one woken.              *)
BlockedReadyDelFinal ==
    /\ sem["t_blocked_ready"] > 0 /\ contador["BLOCK"] > 0 /\ colas["BLOCK"] # <<>>
    /\ sem' = [sem EXCEPT !["t_blocked_ready"] = @ - 1]
    /\ colas' = [colas EXCEPT !["BLOCK"] = Front(@), !["READY"] = Append(@, Last(colas["BLOCK"]))]
    /\ contador' = [contador EXCEPT !["BLOCK"] = @ - 1, !["READY"] = @ + 1]
    /\ UNCHANGED <<vRecurso, vCpu, vGrado, vFin, falla>>

(* Nothing of a resource comes with vieneDeIO: the head of BLOCK is woken, *)
(* whatever it waits for.                                                  *)
BlockedReady ==
    /\ sem["t_blocked_ready"] > 0
    /\ sem' = [sem EXCEPT !["t_blocked_ready"] = @ - 1]
    /\ Mueve("BLOCK", "READY")
    /\ UNCHANGED <<vRecurso, vCpu, vGrado, vFin, falla>>

(* Mutation: the degree is not given back.                                 *)
ExitLargoPlazoSinGrado ==
    /\ sem["t_exit_largo"] > 0
    /\ sem' = [sem EXCEPT !["t_exit_largo"] = @ - 1, !["exec_libre"] = @ + 1]
    /\ Mueve("EXEC", "EXIT")
    /\ UNCHANGED <<vRecurso, vCpu, vGrado, vFin, falla>>

ExitLargoPlazo ==
    /\ sem["t_exit_largo"] > 0
    /\ sem' = [sem EXCEPT !["t_exit_largo"] = @ - 1, !["GRADO"] = @ + 1, !["exec_libre"] = @ + 1]
    /\ Mueve("EXEC", "EXIT")
    /\ UNCHANGED <<vRecurso, vCpu, vGrado, vFin, falla>>

Planificadores ==
    LargoToma \/ LargoMueve \/ CortoPlazo \/ ExecReady \/ ExecBlocked
    \/ BlockedReady \/ ExitLargoPlazo
-----------------------------------------------------------------------------
(* The CPU runs cpu and sends its context with each instruction below; the *)
(* dispatch thread receives it when it is done with the previous one.      *)

(* Requests SOLICITUD_EXIT stay in interrupcion_exit, or in the socket,    *)
(* until some process executes an instruction.  With WAIT or SIGNAL the    *)
(* kernel gets FINALIZAR_PROCESO where it expects a context.               *)
Ejecuta(p, i) ==
    /\ cpu = p /\ En("dispatch", "libre")
    /\ PC[p] < Len(programa[p]) /\ programa[p][PC[p] + 1] = i
    /\ PC' = [PC EXCEPT ![p] = @ + 1]
    /\ UNCHANGED programa

(* The context of p becomes cde_interrumpido.                              *)
Sale(p, i) == bloqueo = "espera" /\ Ejecuta(p, i) /\ cpu' = NULO

(* exec_blocked has still to store the one that was there.                 *)
Pisado(p) ==
    /\ bloqueo # "espera"
    /\ \E i \in ToSet(programa[p]) : Ejecuta(p, i)
    /\ cpu' = NULO
    /\ Falla("pisado")
    /\ UNCHANGED <<vCola, sem, vRecurso, interrupcion_exit, vGrado, vFin>>

Desincronizado(p) ==
    /\ \E i \in ToSet(programa[p]) : i.op \in {"WAIT", "SIGNAL"} /\ Sale(p, i)
    /\ interrupcion_exit
    /\ Falla("desincronizado")
    /\ UNCHANGED <<vCola, sem, vRecurso, interrupcion_exit, vGrado, vFin>>

(* WAIT_RECURSO and SIGNAL_RECURSO: the name is left in the global, from   *)
(* which everything that follows reads it again.                           *)
Recibe(p, i) ==
    /\ i.op \in {"WAIT", "SIGNAL"} /\ Sale(p, i)
    /\ ~interrupcion_exit
    /\ nombre_recurso_recibido' = i.r
    /\ Pone("dispatch", [Ocioso EXCEPT !.paso = IF i.op = "WAIT" THEN "nombre_wait" ELSE "nombre_signal",
                                       !.p = p])
    /\ UNCHANGED <<vCola, sem, instancias, bloqueados, contBloqueados, asignados, interrupcion_exit,
                   vGrado, pid_a_finalizar, eliminados, resta, falla>>

(* obtener_recurso; or else existe_recurso says no, and what follows is    *)
(* finalizar_proceso(pid, INVALID_RESOURCE), in the dispatch thread.       *)
Obtiene ==
    LET d == hilo["dispatch"]
    IN  /\ d.paso \in {"nombre_wait", "nombre_signal"} /\ nombre_recurso_recibido \in Recursos
        /\ Pone("dispatch", [d EXCEPT !.paso = IF @ = "nombre_wait" THEN "wait" ELSE "signal",
                                      !.r = nombre_recurso_recibido])
        /\ UNCHANGED <<vCola, sem, vRecurso, vCpu, vGrado, pid_a_finalizar, eliminados, resta, falla>>

RecursoInvalido ==
    LET d == hilo["dispatch"]
    IN  /\ d.paso \in {"nombre_wait", "nombre_signal"} /\ nombre_recurso_recibido \notin Recursos
        /\ pid_a_finalizar' = d.p
        /\ Sigue("dispatch", "exec")
        /\ UNCHANGED <<vCola, sem, vRecurso, vCpu, vGrado, eliminados, resta, falla>>

(* wait_instancia_recurso: the instances are looked at, the PCB is looked  *)
(* for by the global, and only then an instance is taken.                  *)
Wait ==
    LET d == hilo["dispatch"]
    IN  /\ d.paso = "wait"
        /\ pid_a_finalizar' = d.p
        /\ Pone("dispatch", [d EXCEPT !.paso = "busca", !.hay = instancias[d.r] > 0])
        /\ UNCHANGED <<vCola, sem, vRecurso, vCpu, vGrado, eliminados, resta, falla>>

(* buscar_pcb_en_colas: EXIT is not searched.                              *)
Encuentra == {c \in Colas \ {"EXIT"} : pid_a_finalizar \in ToSet(colas[c])}

(* ya_tiene_instancias_del_recurso: the entry of p's recursosAsignados with *)
(* the name that is in the global now, or none.                            *)
YaTiene(p) == IF nombre_recurso_recibido \in Tiene(p) THEN nombre_recurso_recibido ELSE NULO

(* Where an instance is filed: in the entry that was found, or else in a   *)
(* new one, with the name that is in the global by then.  (Another thread  *)
(* may have left there a name that no resource has: that entry is not one  *)
(* of asignados.)                                                          *)
Anotado(x) == IF x.ya # NULO THEN x.ya ELSE nombre_recurso_recibido

WaitBusca ==
    LET d == hilo["dispatch"]
    IN  /\ d.paso = "busca"
        /\ \/ /\ Encuentra = {}
              /\ Falla("nulo") /\ UNCHANGED <<hilo, sem>>
           \/ /\ Encuentra # {} /\ pid_a_finalizar # d.p
              /\ Falla("pcb_ajeno") /\ UNCHANGED <<hilo, sem>>
           \/ /\ Encuentra # {} /\ pid_a_finalizar \in eliminados
              /\ Falla("liberado") /\ UNCHANGED <<hilo, sem>>
           \/ /\ Encuentra # {} /\ pid_a_finalizar = d.p /\ d.p \notin eliminados
              /\ IF d.hay
                 THEN Pone("dispatch", [d EXCEPT !.paso = "toma", !.ya = YaTiene(d.p)]) /\ UNCHANGED sem
                 ELSE Sigue("dispatch", "encola") /\ Post("t_exec_blocked")
              /\ UNCHANGED falla
        /\ UNCHANGED <<vCola, vRecurso, vCpu, vGrado, pid_a_finalizar, eliminados, resta>>

(* Mutation: the instance is given without being taken.                    *)
WaitTomaSinRestar ==
    LET d == hilo["dispatch"]
    IN  /\ d.paso = "toma"
        /\ asignados' = [asignados EXCEPT ![d.p][Anotado(d)] = @ + 1]
        /\ cpu' = d.p
        /\ Pone("dispatch", Ocioso)
        /\ UNCHANGED <<vCola, sem, instancias, bloqueados, contBloqueados, nombre_recurso_recibido,
                       programa, PC, interrupcion_exit, vGrado, pid_a_finalizar, eliminados, resta, falla>>

(* Mutation: the instance is taken without waiting for it.                 *)
WaitTomaSinEsperar ==
    LET d == hilo["dispatch"]
    IN  /\ d.paso = "toma"
        /\ instancias' = [instancias EXCEPT ![d.r] = @ - 1]
        /\ asignados' = [asignados EXCEPT ![d.p][Anotado(d)] = @ + 1]
        /\ cpu' = d.p
        /\ Pone("dispatch", Ocioso)
        /\ UNCHANGED <<vCola, sem, bloqueados, contBloqueados, nombre_recurso_recibido, programa, PC,
                       interrupcion_exit, vGrado, pid_a_finalizar, eliminados, resta, falla>>

(* The sem_wait that finds what was seen already taken stops the thread.   *)
WaitToma ==
    LET d == hilo["dispatch"]
    IN  /\ d.paso = "toma"
        /\ instancias[d.r] > 0
        /\ instancias' = [instancias EXCEPT ![d.r] = @ - 1]
        /\ asignados' = [asignados EXCEPT ![d.p][Anotado(d)] = @ + 1]
        /\ cpu' = d.p
        /\ Pone("dispatch", Ocioso)
        /\ Falla(IF d.p \in eliminados THEN "liberado" ELSE "ninguna")
        /\ UNCHANGED <<vCola, sem, bloqueados, contBloqueados, nombre_recurso_recibido, programa, PC,
                       interrupcion_exit, vGrado, pid_a_finalizar, eliminados, resta>>

WaitEncola ==
    LET d == hilo["dispatch"]
    IN  /\ d.paso = "encola"
        /\ bloqueados' = [bloqueados EXCEPT ![d.r] = Append(@, d.p)]
        /\ contBloqueados' = [contBloqueados EXCEPT ![d.r] = @ + 1]
        /\ Pone("dispatch", Ocioso)
        /\ UNCHANGED <<vCola, sem, instancias, asignados, nombre_recurso_recibido, vCpu, vGrado,
                       pid_a_finalizar, eliminados, resta, falla>>

(* Mutation: an entry leaves the resource's queue and nobody is woken.     *)
SignalSinAvisar ==
    LET d == hilo["dispatch"]
    IN  /\ d.paso = "signal"
        /\ Sigue("dispatch", IF contBloqueados[d.r] > 0 THEN "saca" ELSE "repone")
        /\ UNCHANGED <<vCola, sem, vRecurso, vCpu, vGrado, pid_a_finalizar, eliminados, resta, falla>>

(* signal_instancia_recurso: whoever waits is taken out of the queue and   *)
(* blocked_ready is told to wake one; the instance goes back whether or    *)
(* not somebody was waiting, and stays in recursosAsignados.               *)
Signal ==
    LET d == hilo["dispatch"]
    IN  /\ d.paso = "signal"
        /\ IF contBloqueados[d.r] > 0 THEN Sigue("dispatch", "saca") /\ Post("t_blocked_ready")
                                      ELSE Sigue("dispatch", "repone") /\ UNCHANGED sem
        /\ UNCHANGED <<vCola, vRecurso, vCpu, vGrado, pid_a_finalizar, eliminados, resta, falla>>

SignalSaca ==
    LET d == hilo["dispatch"]
    IN  /\ d.paso = "saca"
        /\ contBloqueados[d.r] > 0 /\ bloqueados[d.r] # <<>>
        /\ contBloqueados' = [contBloqueados EXCEPT ![d.r] = @ - 1]
        /\ bloqueados' = [bloqueados EXCEPT ![d.r] = Tail(@)]
        /\ Sigue("dispatch", "repone")
        /\ UNCHANGED <<vCola, sem, instancias, asignados, nombre_recurso_recibido, vCpu, vGrado, pid_a_finalizar,
                       eliminados, resta, falla>>

SignalRepone ==
    LET d == hilo["dispatch"]
    IN  /\ d.paso = "repone"
        /\ instancias' = [instancias EXCEPT ![d.r] = @ + 1]
        /\ cpu' = d.p
        /\ Pone("dispatch", Ocioso)
        /\ UNCHANGED <<vCola, sem, bloqueados, contBloqueados, asignados, nombre_recurso_recibido, programa, PC,
                       interrupcion_exit, vGrado, pid_a_finalizar, eliminados, resta, falla>>

(* An instruction that only computes stands for all of them.               *)
Calcula(p) ==
    /\ Ejecuta(p, [op |-> "SET", r |-> NULO])
    /\ ~interrupcion_exit
    /\ UNCHANGED <<vCola, sem, vRecurso, cpu, interrupcion_exit, vGrado, vFin, falla>>

(* FIN_DE_QUANTUM.  The quantum is taken to end in an instruction that only*)
(* computes (in WAIT or SIGNAL it would leave the socket out of step).     *)
FinDeQuantum(p) ==
    /\ Sale(p, [op |-> "SET", r |-> NULO])
    /\ ~interrupcion_exit
    /\ Post("t_exec_ready")
    /\ UNCHANGED <<vCola, vRecurso, interrupcion_exit, vGrado, vFin, falla>>

(* FINALIZAR_PROCESO: because of EXIT, or of SOLICITUD_EXIT.  With both the*)
(* CPU sends it twice.  finalizar_proceso_success begins.                  *)
Termina(p) ==
    /\ \/ Sale(p, [op |-> "EXIT", r |-> NULO])
       \/ interrupcion_exit /\ Sale(p, [op |-> "SET", r |-> NULO])
    /\ interrupcion_exit' = FALSE
    /\ pid_a_finalizar' = p
    /\ Pone("dispatch", [Ocioso EXCEPT !.paso = "pcb_exec"])
    /\ Falla(IF interrupcion_exit /\ programa[p][PC[p] + 1].op = "EXIT"
             THEN "doble_final" ELSE "ninguna")
    /\ UNCHANGED <<vCola, sem, vRecurso, vGrado, eliminados, resta>>

(* Its PCB is looked for in EXEC by the global.                            *)
PcbExec ==
    /\ En("dispatch", "pcb_exec")
    /\ \/ /\ pid_a_finalizar \in ToSet(colas["EXEC"]) \ eliminados
          /\ Pone("dispatch", [Ocioso EXCEPT !.paso = "libera", !.p = pid_a_finalizar,
                                             !.rs = Tiene(pid_a_finalizar)])
          /\ UNCHANGED falla
       \/ /\ pid_a_finalizar \in ToSet(colas["EXEC"]) \cap eliminados
          /\ Falla("liberado") /\ UNCHANGED hilo
       \/ /\ pid_a_finalizar \notin ToSet(colas["EXEC"])
          /\ Falla("nulo") /\ UNCHANGED hilo
    /\ UNCHANGED <<vCola, sem, vRecurso, vCpu, vGrado, pid_a_finalizar, eliminados, resta>>

-----------------------------------------------------------------------------
(* The console: FINALIZAR_PROCESO pid.                                     *)

Finalizar(p) ==
    /\ resta > 0 /\ En("consola", "libre")
    /\ \E c \in Colas : p \in ToSet(colas[c])
    /\ resta' = resta - 1
    /\ pid_a_finalizar' = p
    /\ Pone("consola", [Ocioso EXCEPT !.paso = "exec", !.p = p])
    /\ UNCHANGED <<vCola, sem, vRecurso, vCpu, vGrado, eliminados, falla>>

(* finalizar_proceso looks in EXEC, by the global, and asks the CPU to end *)
(* whatever it finds there.  The dispatch thread then has                  *)
(* transicion_exit_largo_plazo take the PCB.                               *)
BuscaExec(h) ==
    /\ En(h, "exec")
    /\ IF pid_a_finalizar \in ToSet(colas["EXEC"])
       THEN /\ interrupcion_exit' = TRUE
            /\ Pone(h, Ocioso)
            /\ IF h = "dispatch" THEN Post("t_exit_largo") ELSE UNCHANGED sem
            /\ UNCHANGED pid_a_finalizar
       ELSE /\ pid_a_finalizar' = hilo[h].p
            /\ Sigue(h, "colas")
            /\ UNCHANGED <<interrupcion_exit, sem>>
    /\ UNCHANGED <<vCola, vRecurso, programa, PC, cpu, vGrado, eliminados, resta, falla>>

(* buscar_pcb_en_colas, by the global; then buscarCola for the PCB found.  *)
BuscaColas(h) ==
    /\ En(h, "colas")
    /\ IF Encuentra = {}
       THEN /\ Pone(h, Ocioso)
            /\ IF h = "dispatch" THEN Post("t_exit_largo") ELSE UNCHANGED sem
       ELSE /\ \E c \in Encuentra :
                  Pone(h, [Ocioso EXCEPT !.paso = "saca_cola", !.p = pid_a_finalizar, !.cola = c])
            /\ UNCHANGED sem
    /\ UNCHANGED <<vCola, vRecurso, vCpu, vGrado, pid_a_finalizar, eliminados, resta, falla>>

(* sacar_proceso_cola: NULL, and a unit of the counter less, when a        *)
(* transition took the PCB from the queue it was found in.                 *)
SacaCola(h) ==
    LET f == hilo[h]
    IN  /\ f.paso = "saca_cola"
        /\ contador[f.cola] > 0
        /\ contador' = [contador EXCEPT ![f.cola] = @ - 1]
        /\ colas' = [colas EXCEPT ![f.cola] = RemoveFirst(@, f.p)]
        /\ Pone(h, [f EXCEPT !.paso = "agrega",
                             !.q = IF f.p \in ToSet(colas[f.cola]) THEN f.p ELSE NULO])
        /\ UNCHANGED <<sem, vRecurso, vCpu, vGrado, pid_a_finalizar, eliminados, resta, falla>>

(* The end of transicion_generica_exit: GRADO is given back for a process  *)
(* that was in NEW, and for no other.                                      *)
Agrega(h) ==
    LET f == hilo[h]
    IN  /\ f.paso = "agrega"
        /\ colas' = [colas EXCEPT !["EXIT"] = Append(@, f.q)]
        /\ contador' = [contador EXCEPT !["EXIT"] = @ + 1]
        /\ sem' = CASE f.cola = "NEW" -> [sem EXCEPT !["GRADO"] = @ + 1]
                    [] f.cola = "EXEC" -> [sem EXCEPT !["exec_libre"] = @ + 1]
                    [] OTHER -> sem
        /\ Pone(h, [f EXCEPT !.paso = "libera", !.rs = Tiene(f.p)])
        /\ UNCHANGED <<vRecurso, vCpu, vGrado, pid_a_finalizar, eliminados, resta, falla>>

-----------------------------------------------------------------------------
(* liberar_recursos, in either thread.                                     *)

(* The loop that takes p's own entries out of a waiting queue steps over   *)
(* the entry after each one it removes.                                    *)
SinPropias(l, p) ==
    FoldLeft(LAMBDA s, x : IF s.salta \/ x # p
                           THEN [l |-> Append(s.l, x), salta |-> FALSE]
                           ELSE [l |-> s.l, salta |-> TRUE],
             [l |-> <<>>, salta |-> FALSE], l).l

(* One instance goes back; if somebody waits for it, the head of the queue *)
(* is read, and not removed.  The order of the list of resources held is   *)
(* left open.                                                              *)
Devuelve(h, r) ==
    LET p == hilo[h].p
        queda == SinPropias(bloqueados[r], p)
    IN  /\ En(h, "libera")
        /\ r \in hilo[h].rs /\ asignados[p][r] > 0
        /\ asignados' = [asignados EXCEPT ![p][r] = @ - 1]
        /\ instancias' = [instancias EXCEPT ![r] = @ + 1]
        /\ bloqueados' = [bloqueados EXCEPT ![r] = queda]
        /\ contBloqueados' = [contBloqueados EXCEPT ![r] = @ - (Len(bloqueados[r]) - Len(queda))]
        /\ \/ bloqueados[r] = <<>> /\ UNCHANGED <<hilo, falla>>
           \/ bloqueados[r] # <<>> /\ queda = <<>> /\ Falla("nulo") /\ UNCHANGED hilo
           \/ queda # <<>> /\ Head(queda) \in eliminados /\ Falla("liberado") /\ UNCHANGED hilo
           \/ queda # <<>> /\ Head(queda) \notin eliminados /\ UNCHANGED falla
              /\ Pone(h, [hilo[h] EXCEPT !.paso = "asigna", !.r = r, !.q = Head(queda)])
        /\ UNCHANGED <<vCola, sem, nombre_recurso_recibido, vCpu, vGrado, pid_a_finalizar, eliminados, resta>>

(* asignar_recurso: the name goes to the global, PCB's entry is looked for *)
(* by it, the instance is awaited, and filed.                              *)
AsignaNombre(h) ==
    /\ En(h, "asigna")
    /\ nombre_recurso_recibido' = hilo[h].r
    /\ Sigue(h, "asigna_busca")
    /\ UNCHANGED <<vCola, sem, instancias, bloqueados, contBloqueados, asignados, vCpu, vGrado,
                   pid_a_finalizar, eliminados, resta, falla>>

AsignaBusca(h) ==
    /\ En(h, "asigna_busca")
    /\ Pone(h, [hilo[h] EXCEPT !.paso = "asigna_toma", !.ya = YaTiene(hilo[h].q)])
    /\ UNCHANGED <<vCola, sem, vRecurso, vCpu, vGrado, pid_a_finalizar, eliminados, resta, falla>>

AsignaToma(h) ==
    LET f == hilo[h]
    IN  /\ f.paso = "asigna_toma"
        /\ instancias[f.r] > 0
        /\ instancias' = [instancias EXCEPT ![f.r] = @ - 1]
        /\ asignados' = [asignados EXCEPT ![f.q][Anotado(f)] = @ + 1]
        /\ Post("t_blocked_ready")
        /\ Sigue(h, "libera")
        /\ UNCHANGED <<vCola, bloqueados, contBloqueados, nombre_recurso_recibido, vCpu, vGrado,
                       pid_a_finalizar, eliminados, resta, falla>>

(* The end of eliminar_proceso, and of FINALIZAR_PROCESO.                  *)
Elimina(h) ==
    /\ En(h, "libera")
    /\ \A r \in hilo[h].rs : asignados[hilo[h].p][r] = 0
    /\ eliminados' = eliminados \cup {hilo[h].p}
    /\ Pone(h, Ocioso)
    /\ IF h = "dispatch" THEN Post("t_exit_largo") ELSE UNCHANGED sem
    /\ UNCHANGED <<vCola, vRecurso, vCpu, vGrado, pid_a_finalizar, resta, falla>>

-----------------------------------------------------------------------------
(* MULTIPROGRAMACION: the console leaves a value, manejarGrado compares it *)
(* with the configured degree and moves the semaphore a unit at a time.    *)

Multiprogramacion(v) ==
    /\ cambios > 0
    /\ cambios' = cambios - 1
    /\ valorGrado' = v
    /\ Post("manejo_grado")
    /\ UNCHANGED <<vCola, vRecurso, vCpu, largo, bloqueo, ajuste, pedido, vFin, falla>>

ManejaLee ==
    /\ ajuste = 0 /\ sem["manejo_grado"] > 0
    /\ sem' = [sem EXCEPT !["manejo_grado"] = @ - 1]
    /\ ajuste' = valorGrado - Grado
    /\ pedido' = pedido + valorGrado - Grado
    /\ UNCHANGED <<vCola, vRecurso, vCpu, largo, bloqueo, valorGrado, cambios, vFin, falla>>

ManejaUno ==
    /\ \/ /\ ajuste > 0
          /\ sem' = [sem EXCEPT !["GRADO"] = @ + 1] /\ ajuste' = ajuste - 1
       \/ /\ ajuste < 0 /\ sem["GRADO"] > 0
          /\ sem' = [sem EXCEPT !["GRADO"] = @ - 1] /\ ajuste' = ajuste + 1
    /\ UNCHANGED <<vCola, vRecurso, vCpu, largo, bloqueo, valorGrado, pedido, cambios, vFin, falla>>

-----------------------------------------------------------------------------
Cpu ==
    \E p \in Procesos :
        \/ Calcula(p) \/ FinDeQuantum(p) \/ Termina(p) \/ Desincronizado(p) \/ Pisado(p)
        \/ \E i \in ToSet(programa[p]) : Recibe(p, i)

Dispatch ==
    \/ Obtiene \/ RecursoInvalido \/ Wait \/ Signal
    \/ WaitBusca \/ WaitToma \/ WaitEncola \/ SignalSaca \/ SignalRepone \/ PcbExec

Fin(h) ==
    \/ BuscaExec(h) \/ BuscaColas(h) \/ SacaCola(h) \/ Agrega(h) \/ Elimina(h)
    \/ AsignaNombre(h) \/ AsignaBusca(h) \/ AsignaToma(h)
    \/ \E r \in Recursos : Devuelve(h, r)

Operador ==
    \/ \E p \in Procesos : IniciarProceso(p) \/ Finalizar(p)
    \/ \E v \in NuevosGrados : Multiprogramacion(v)

Next ==
    /\ falla = "ninguna"
    /\ \/ Operador \/ Planificadores \/ Cpu \/ Dispatch
       \/ Fin("dispatch") \/ Fin("consola")
       \/ ManejaLee \/ ManejaUno

Spec == Init /\ [][Next]_vars

(* Each thread is a pthread of its own, a script is finite, and the        *)
(* operator starts the processes.                                          *)
Equidad ==
    /\ \A p \in Procesos : WF_vars(falla = "ninguna" /\ IniciarProceso(p))
    /\ WF_vars(falla = "ninguna" /\ (LargoToma \/ LargoMueve))
    /\ WF_vars(falla = "ninguna" /\ CortoPlazo)
    /\ WF_vars(falla = "ninguna" /\ ExecReady)
    /\ WF_vars(falla = "ninguna" /\ ExecBlocked)
    /\ WF_vars(falla = "ninguna" /\ BlockedReady)
    /\ WF_vars(falla = "ninguna" /\ ExitLargoPlazo)
    /\ WF_vars(falla = "ninguna" /\ (Cpu \/ Dispatch \/ Fin("dispatch")))

SpecJusta == Spec /\ Equidad

-----------------------------------------------------------------------------
(* Properties.                                                             *)

PCB == Procesos \cup {NULO}
Hilo == [paso : {"libre", "nombre_wait", "nombre_signal", "wait", "signal", "busca", "toma", "encola",
                 "saca", "repone", "pcb_exec", "exec", "colas", "saca_cola", "agrega", "libera", "asigna",
                 "asigna_busca", "asigna_toma"},
         p : PCB, r : Recursos \cup {NULO}, q : PCB, cola : Colas, hay : BOOLEAN,
         ya : Recursos \cup {NULO}, rs : SUBSET Recursos]

(* Every variable holds a value of its type; in particular no semaphore is *)
(* ever negative.                                                          *)
TypeOK ==
    /\ colas \in [Colas -> Seq(PCB)] /\ contador \in [Colas -> Nat]
    /\ sem \in [Semaforos -> Nat]
    /\ instancias \in [Recursos -> Nat] /\ contBloqueados \in [Recursos -> Nat]
    /\ bloqueados \in [Recursos -> Seq(Procesos)]
    /\ asignados \in [Procesos -> [Recursos -> Nat]]
    /\ pid_a_finalizar \in PCB /\ hilo \in [HilosFin -> Hilo]
    /\ largo \in BOOLEAN /\ bloqueo \in {"espera", "mueve", "guarda"}
    /\ valorGrado \in Nat /\ ajuste \in Int /\ pedido \in Int
    /\ programa \in [Procesos -> Programas] /\ PC \in [Procesos -> Nat]
    /\ cpu \in PCB /\ interrupcion_exit \in BOOLEAN
    /\ eliminados \subseteq Procesos
    /\ resta \in Nat /\ cambios \in Nat /\ falla \in Fallas

Uno(b) == IF b THEN 1 ELSE 0
Suma(f, S) == FoldFunctionOnSet(+, 0, f, S)

(* The instructions op r that p has executed.                              *)
Hechas(p, op, r) ==
    Cardinality({i \in 1..PC[p] : programa[p][i] = [op |-> op, r |-> r]})

(* Nobody was ended from the console, and no context was lost.             *)
SinConsola == resta = MaxFinalizar /\ falla = "ninguna"

(* No program names a resource that does not exist.                        *)
RecursosValidos ==
    \A p \in Procesos : \A i \in ToSet(programa[p]) : i.op \in {"WAIT", "SIGNAL"} => i.r \in Recursos

(* The instances of r there are, free and in recursosAsignados, over those *)
(* of the configuration and one for each SIGNAL r: SIGNAL does not take the*)
(* instance from the process that gives it back.                           *)
Saldo(r) ==
    instancias[r] + Suma([p \in Procesos |-> asignados[p][r]], Procesos)
    - Instancias[r] - Suma([p \in Procesos |-> Hechas(p, "SIGNAL", r)], Procesos)

\* A SIGNAL that has not given its instance yet.
EnSignal == hilo["dispatch"].paso \in {"nombre_signal", "signal", "saca", "repone"}
EnSignalDe(r) ==
    EnSignal /\ r = IF En("dispatch", "nombre_signal") THEN nombre_recurso_recibido ELSE hilo["dispatch"].r

(* Instances are neither lost nor made up by WAIT, by the hand-over of     *)
(* liberar_recursos or by two threads releasing at a time; each SIGNAL     *)
(* makes exactly one.  While nobody is ended from the console, that is so  *)
(* of each resource.  With the console it is only so of all of them        *)
(* together: its asignar_recurso changes the global name under a WAIT that *)
(* has been granted, and the instance taken from a resource is filed as one*)
(* of another.                                                             *)
InstanciasContadas ==
    /\ SinConsola => \A r \in Recursos : Saldo(r) = -Uno(EnSignalDe(r))
    /\ falla = "ninguna" /\ RecursosValidos =>
           Suma([r \in Recursos |-> Saldo(r)], Recursos) = -Uno(EnSignal)

(* No program has two WAITs for one resource.                              *)
SinReentrada ==
    \A p \in Procesos : \A i, j \in 1..Len(programa[p]) :
        programa[p][i].op = "WAIT" /\ programa[p][j] = programa[p][i] => i = j

(* Who waits for r and was not given it meanwhile: the hand-over of        *)
(* liberar_recursos leaves the entry behind.                               *)
Pendientes(r) == {p \in ToSet(bloqueados[r]) : asignados[p][r] = 0}

(* No wake-up is lost: for each process in BLOCK, or on its way there,     *)
(* there is a place in a waiting queue, about to be taken or taken, or     *)
(* an order to blocked_ready, though SIGNAL wakes another process than the *)
(* one it takes out.  (Which of them is woken is another matter; and the   *)
(* end of a process that waited twice takes entries that others need.)     *)
(* This, like the rest, as long as no context was lost.                    *)
NadieOlvidado ==
    SinConsola /\ SinReentrada =>
    Len(colas["BLOCK"]) + sem["t_exec_blocked"] + Uno(bloqueo = "mueve") + Uno(En("dispatch", "saca"))
    <= Suma([r \in Recursos |-> Cardinality(Pendientes(r))], Recursos)
       + sem["t_blocked_ready"] + Uno(En("dispatch", "encola"))

(* p has got past its WAIT r and not executed its SIGNAL r.                *)
EnWait(p) ==
    /\ PC[p] > 0 /\ programa[p][PC[p]].op = "WAIT"
    /\ p \in ToSet(colas["EXEC"]) \cup ToSet(colas["BLOCK"]) /\ cpu # p
Dentro(p, r) ==
    Hechas(p, "WAIT", r) - Hechas(p, "SIGNAL", r) - Uno(EnWait(p) /\ programa[p][PC[p]].r = r)

UnRecurso ==
    Cardinality({r \in Recursos : \E p \in Procesos : \E i \in ToSet(programa[p]) : i.r = r}) <= 1

(* As long as nobody signals nor is ended from the console, WAIT and the   *)
(* hand-over on exit admit no more than one process to a resource with one *)
(* instance, when programs use one resource, even while the one that waits *)
(* is still in EXEC in front of the next.  (With two instances the         *)
(* hand-over, which leaves its entry in the queue, admits more; and when   *)
(* the next leaves the CPU that early, exec_blocked stores the context of  *)
(* one in the PCB of the other, and exec_ready sends the waiter to READY.) *)
ExclusionSinSignal ==
    \A r \in Recursos :
        (/\ UnRecurso /\ SinConsola /\ Instancias[r] = 1
         /\ \A p \in Procesos : Hechas(p, "SIGNAL", r) = 0)
        => Cardinality({p \in Procesos \ (ToSet(colas["EXIT"]) \cup eliminados \cup {hilo[h].p : h \in HilosFin}) :
                           Dentro(p, r) > 0}) <= 1

(* SIGNAL names nobody to blocked_ready, which wakes the head of BLOCK.    *)
(* While programs use one resource and no process has ended, that is whom  *)
(* SIGNAL took out of the resource's queue: the two queues keep one order, *)
(* though who comes next may be in EXEC before the waiter has left it; but *)
(* not if the next leaves the CPU before exec_blocked is done, and a       *)
(* context is lost.                                                        *)
OrdenDeDespertar ==
    \A r \in Recursos :
        (/\ UnRecurso /\ SinConsola /\ eliminados = {}
         /\ sem["t_exec_blocked"] = 0 /\ bloqueo # "mueve" /\ En("dispatch", "libre"))
        => IsSuffix(bloqueados[r], colas["BLOCK"])

(* The degree is only moved by MULTIPROGRAMACION and, by one, by each      *)
(* process ended from the console, however its threads interleave: made up *)
(* for one that was in NEW, lost for any other.  (When the dispatch thread *)
(* ends a process as well, because of a resource that does not exist, one  *)
(* command can cost more.)                                                 *)
GradoContado ==
    LET usado == Len(colas["READY"]) + Len(colas["EXEC"]) + Len(colas["BLOCK"])
        enMano == {h \in HilosFin : En(h, "agrega") /\ hilo[h].q # NULO /\ hilo[h].cola # "NEW"}
        exceso == sem["GRADO"] + Uno(largo) + usado + Cardinality(enMano)
                  - (Grado + pedido - ajuste)
        hechas == MaxFinalizar - resta
    IN  falla = "ninguna" /\ RecursosValidos => exceso \in (-hechas)..hechas

(* Programs of one resource that give back all they take.                  *)
Cuantas(p, op, r) == Cardinality({i \in DOMAIN programa[p] : programa[p][i] = [op |-> op, r |-> r]})
Ordenados ==
    RecursosValidos /\ \A p \in Procesos : \A r \in Recursos : Cuantas(p, "WAIT", r) = Cuantas(p, "SIGNAL", r)

(* With such programs every process ends, unless the console ends one or a *)
(* context is lost: no wake-up is lost for ever, no thread of the kernel   *)
(* dies, and exec_blocked is never left without a PCB to move.             *)
TodosTerminan ==
    \A p \in Procesos :
        (Ordenados /\ UnRecurso) ~> (p \in ToSet(colas["EXIT"]) \/ resta < MaxFinalizar \/ falla = "pisado")
=============================================================================
