---------------------------- MODULE Planificador ----------------------------
(***************************************************************************)
(* The kernel's schedulers (kernel/src: largoPlazo.c, cortoPlazo.c and the *)
(* part of kernel.c they share) together with the two machines they drive: *)
(* the CPU (cpu/src/cpu.c: dispatch loop, interrupt thread, check_interrupt)*)
(* and the threads that serve the I/O interfaces (interfaz_conectada).     *)
(*                                                                         *)
(* Six kernel threads move PCBs between the queues NEW, READY, READY+,     *)
(* EXEC, BLOCK and EXIT.  Every one of them runs transicion_generica: it   *)
(* takes a PCB out of a queue, holds it, and appends it to another.        *)
(*                                                                         *)
(* A sem_wait is one step; it is taken together with the read that follows *)
(* it where nobody else waits on that semaphore, and a sem_post together   *)
(* with the step before it.  A process is identified by its PCB; cde[p] is *)
(* the context it points to: the pid, which is what the code searches by,  *)
(* and the PC, counted in I/O instructions already executed.               *)
(***************************************************************************)
EXTENDS Naturals, Sequences, SequencesExt, FiniteSets

CONSTANTS
    Procesos,     \* PCBs (and pids) the console may start
    NULO,         \* the NULL pointer
    Interfaces,   \* connected I/O interfaces
    Algoritmo,    \* ALGORITMO_PLANIFICACION
    Grado,        \* GRADO_MULTIPROGRAMACION
    MaxIO,        \* bound: I/O instructions a process executes
    MaxQuanta,    \* bound: quanta that expire in a behaviour
    MaxPausas     \* bound: DETENER_PLANIFICACION commands in a behaviour

ASSUME AlgoritmoAssumption == Algoritmo \in {"FIFO", "RR", "VRR"}
ASSUME NuloAssumption == NULO \notin Procesos
ASSUME GradoAssumption == Grado \in Nat \ {0}
ASSUME CotasAssumption ==
    MaxIO \in Nat /\ MaxQuanta \in Nat /\ MaxPausas \in Nat

(***************************************************************************)
(* A kernel thread is named by the string it passes to                     *)
(* evaluar_planificacion; in blocked_ready the code passes "corto" unless  *)
(* the algorithm is VRR.                                                   *)
(***************************************************************************)
Hilos == {"largo", "corto", "exit_largo", "exec_ready", "exec_blocked", "blocked_ready"}

SemReanudar(h) == IF h = "blocked_ready" /\ Algoritmo # "VRR" THEN "corto" ELSE h

Colas == {"NEW", "READY", "READY+", "EXEC", "BLOCK", "EXIT"}

Semaforos == {"GRADO", "en_new", "exec_libre", "readys", "t_exit_largo",
              "t_exec_ready", "t_exec_blocked", "t_blocked_ready"}

VARIABLES
    colas,              \* estado (list) of each colaEstado
    contador,           \* contador (semaphore) of each colaEstado
    sem,                \* the control semaphores
    reanudar,           \* b_reanudar_*, by thread name
    habilitado,         \* habilitar_planificadores = 1
    cde,                \* cde[p]: the context p's PCB points to
    cde_interrumpido,   \* the last context the CPU returned
    vieneDeIO, pid_a_desbloquear,
    excedido,           \* tiempo_transcurrido >= QUANTUM
    timer,              \* "nulo", "vivo" or "destruido"
    pc, mano, viaje,    \* per thread: next statement, PCB held, transition
    hiloQuantum,        \* "sin_crear", "corre", "termino" or "unido"
    ds,                 \* dispatch thread: "op" or, in INSTRUCCION_INTERFAZ, "cde"
    espera, io,         \* per interface: procesos_espera, its thread's statement
    aCpu, aKernel,      \* dispatch socket, both ways
    aInterrupt,         \* quantum interrupts in the interrupt socket
    cpu,                \* the dispatch loop of the CPU
    interrupt, s_exit,  \* the interrupt thread of the CPU and its semaphore
    avance,             \* history: I/O instructions each pid has executed
    restaQuanta, restaPausas,            \* what is left of the bounds
    caido               \* the kernel process died of a segmentation fault

vars == <<colas, contador, sem, reanudar, habilitado, cde, cde_interrumpido,
          vieneDeIO, pid_a_desbloquear, excedido, timer, pc, mano, viaje,
          hiloQuantum, ds, espera, io, aCpu, aKernel, aInterrupt, cpu,
          interrupt, s_exit, avance, restaQuanta, restaPausas, caido>>

\* Groups that most steps leave alone.
vContexto  == <<cde, cde_interrumpido, excedido, timer>>
vConsola   == <<habilitado, restaPausas>>
vIO        == <<vieneDeIO, pid_a_desbloquear, espera, io>>
vCpu       == <<cpu, interrupt, s_exit, avance>>
vCanales   == <<aCpu, aKernel, aInterrupt>>
vQuantum   == <<hiloQuantum, restaQuanta>>

-----------------------------------------------------------------------------
(* Initial state: iniciar_kernel, iniciar_semaforos, and the CPU waiting.  *)

SinContexto == [pid |-> NULO, PC |-> 0]

Viaje(de, a, porPid) == [de |-> de, a |-> a, porPid |-> porPid]

Trayectos == [largo         |-> Viaje("NEW", "READY", FALSE),
              corto         |-> Viaje("READY", "EXEC", FALSE),
              exit_largo    |-> Viaje("EXEC", "EXIT", FALSE),
              exec_ready    |-> Viaje("EXEC", "READY", FALSE),
              exec_blocked  |-> Viaje("EXEC", "BLOCK", FALSE),
              blocked_ready |-> Viaje("BLOCK", "READY", FALSE)]

(* Mutation: the first queue of exit_largo's transition is the wrong one.  *)
ViajeDeColaEquivocada(h) == IF h = "exit_largo" THEN Viaje("READY", "EXIT", FALSE) ELSE Trayectos[h]

(* The two queues each thread passes to transicion_generica.               *)
ViajeDe(h) == Trayectos[h]

Init ==
    /\ colas = [c \in Colas |-> <<>>]
    /\ contador = [c \in Colas |-> 0]
    /\ sem = [s \in Semaforos |-> CASE s = "GRADO" -> Grado
                                    [] s = "exec_libre" -> 1
                                    [] OTHER -> 0]
    /\ reanudar = [h \in Hilos |-> 0]
    /\ habilitado = FALSE
    /\ cde = [p \in Procesos |-> [pid |-> p, PC |-> 0]]
    /\ cde_interrumpido = SinContexto
    /\ vieneDeIO = FALSE
    /\ pid_a_desbloquear = NULO
    /\ excedido = FALSE
    /\ timer = "nulo"
    /\ pc = [h \in Hilos |-> "disparo"]
    /\ mano = [h \in Hilos |-> NULO]
    /\ viaje = [h \in Hilos |-> ViajeDe(h)]
    /\ hiloQuantum = "sin_crear"
    /\ ds = "op"
    /\ espera = [i \in Interfaces |-> <<>>]
    /\ io = [i \in Interfaces |-> [paso |-> "libre", pid |-> NULO]]
    /\ aCpu = <<>>
    /\ aKernel = <<>>
    /\ aInterrupt = 0
    /\ cpu = [paso |-> "libre", cde |-> SinContexto, salida |-> TRUE,
              rr |-> FALSE, io |-> FALSE]
    /\ interrupt = "recibir"    \* it looked at salida_exit before any process ran
    /\ s_exit = 1
    /\ avance = [p \in Procesos |-> 0]
    /\ restaQuanta = MaxQuanta
    /\ restaPausas = MaxPausas
    /\ caido = FALSE

-----------------------------------------------------------------------------
(* The console (operaciones.c).                                            *)

Creados == (UNION {ToSet(colas[c]) : c \in Colas}) \cup {mano[h] : h \in Hilos}

(* iniciar_proceso, once memoria has answered INICIAR_PROCESO_CORRECTO: the *)
(* other answer discards the PCB and leaves the kernel as it was.           *)
IniciarProceso(p) ==
    /\ p \notin Creados
    /\ colas' = [colas EXCEPT !["NEW"] = Append(@, p)]
    /\ contador' = [contador EXCEPT !["NEW"] = @ + 1]
    /\ sem' = [sem EXCEPT !["en_new"] = @ + 1]
    /\ UNCHANGED <<reanudar, pc, mano, viaje, ds, caido, vContexto, vConsola,
                   vIO, vCpu, vCanales, vQuantum>>

IniciarPlanificacion ==
    /\ ~habilitado
    /\ habilitado' = TRUE
    /\ reanudar' = [h \in Hilos |-> reanudar[h] + 1]
    /\ UNCHANGED <<colas, contador, sem, pc, mano, viaje, ds, caido, restaPausas,
                   vContexto, vIO, vCpu, vCanales, vQuantum>>

DetenerPlanificacion ==
    /\ habilitado
    /\ restaPausas > 0
    /\ habilitado' = FALSE
    /\ restaPausas' = restaPausas - 1
    /\ UNCHANGED <<colas, contador, sem, reanudar, pc, mano, viaje, ds, caido,
                   vContexto, vIO, vCpu, vCanales, vQuantum>>

-----------------------------------------------------------------------------
(* transicion_generica, run by every thread: evaluar, wait for the queue's *)
(* counter, evaluar, remove, evaluar, append.                              *)

Salta(h, l) == pc' = [pc EXCEPT ![h] = l]

(* evaluar_planificacion: the flag is read here and the semaphore awaited  *)
(* in a later step, whatever the flag says by then.                        *)
Evaluar(h, aqui, pausa, sigue) ==
    /\ pc[h] = aqui
    /\ Salta(h, IF habilitado THEN sigue ELSE pausa)
    /\ UNCHANGED <<colas, contador, sem, reanudar, mano, viaje, ds, caido,
                   vContexto, vConsola, vIO, vCpu, vCanales, vQuantum>>

Reanudar(h, pausa, sigue) ==
    /\ pc[h] = pausa
    /\ reanudar[SemReanudar(h)] > 0
    /\ reanudar' = [reanudar EXCEPT ![SemReanudar(h)] = @ - 1]
    /\ Salta(h, sigue)
    /\ UNCHANGED <<colas, contador, sem, mano, viaje, ds, caido,
                   vContexto, vConsola, vIO, vCpu, vCanales, vQuantum>>

EvaluarPlanificacion(h) ==
    \/ Evaluar(h, "evaluar1", "pausa1", "contador")
    \/ Evaluar(h, "evaluar2", "pausa2", "sacar")
    \/ Evaluar(h, "evaluar3", "pausa3", "agregar")

ReanudarPlanificacion(h) ==
    \/ Reanudar(h, "pausa1", "contador")
    \/ Reanudar(h, "pausa2", "sacar")
    \/ Reanudar(h, "pausa3", "agregar")

(* Mutation: the result of the wait is ignored (sem_trywait).              *)
EsperarContadorSinEspera(h) ==
    /\ pc[h] = "contador"
    /\ contador' = [contador EXCEPT ![viaje[h].de] = @ - 1]
    /\ Salta(h, "evaluar2")
    /\ UNCHANGED <<colas, sem, reanudar, mano, viaje, ds, caido,
                   vContexto, vConsola, vIO, vCpu, vCanales, vQuantum>>

EsperarContador(h) ==
    /\ pc[h] = "contador"
    /\ contador[viaje[h].de] > 0
    /\ contador' = [contador EXCEPT ![viaje[h].de] = @ - 1]
    /\ Salta(h, "evaluar2")
    /\ UNCHANGED <<colas, sem, reanudar, mano, viaje, ds, caido,
                   vContexto, vConsola, vIO, vCpu, vCanales, vQuantum>>

(* Mutation: list_get where the code has list_remove.                      *)
SacarSinQuitar(h) ==
    LET cola == colas[viaje[h].de]
    IN  /\ ~viaje[h].porPid
        /\ mano' = [mano EXCEPT ![h] = IF cola = <<>> THEN NULO ELSE Head(cola)]
        /\ UNCHANGED colas

(* list_remove(estado, 0), NULL on an empty list.                          *)
SacarPrimero(h) ==
    LET cola == colas[viaje[h].de]
    IN  /\ ~viaje[h].porPid
        /\ mano' = [mano EXCEPT ![h] = IF cola = <<>> THEN NULO ELSE Head(cola)]
        /\ colas' = IF cola = <<>> THEN colas ELSE [colas EXCEPT ![viaje[h].de] = Tail(@)]

(* list_remove_by_condition(estado, esIOBuscada), NULL when nobody fits.   *)
EsIOBuscada(p) == p # NULO /\ cde[p].pid = pid_a_desbloquear

SacarBuscado(h) ==
    LET cola == colas[viaje[h].de]
    IN  /\ viaje[h].porPid
        /\ \/ /\ \A i \in DOMAIN cola : ~EsIOBuscada(cola[i])
              /\ mano' = [mano EXCEPT ![h] = NULO]
              /\ UNCHANGED colas
           \/ \E i \in DOMAIN cola :
                 /\ EsIOBuscada(cola[i])
                 /\ \A j \in 1..(i - 1) : ~EsIOBuscada(cola[j])
                 /\ mano' = [mano EXCEPT ![h] = cola[i]]
                 /\ colas' = [colas EXCEPT ![viaje[h].de] = RemoveAt(@, i)]

Sacar(h) ==
    /\ pc[h] = "sacar"
    /\ SacarPrimero(h) \/ SacarBuscado(h)
    /\ Salta(h, "evaluar3")
    /\ UNCHANGED <<contador, sem, reanudar, viaje, ds, caido,
                   vContexto, vConsola, vIO, vCpu, vCanales, vQuantum>>

(* Mutation: the post goes to the counter of the queue the PCB came from.  *)
AgregarContandoOrigen(h, s) ==
    /\ pc[h] = "agregar"
    /\ colas' = [colas EXCEPT ![viaje[h].a] = Append(@, mano[h])]
    /\ contador' = [contador EXCEPT ![viaje[h].de] = @ + 1]
    /\ sem' = s
    /\ UNCHANGED <<reanudar, viaje, ds, caido,
                   vContexto, vConsola, vIO, vCpu, vCanales, vQuantum>>

(* agregar_a_estado, and the sem_posts s that follow it.                   *)
AgregarAEstado(h, s) ==
    /\ pc[h] = "agregar"
    /\ colas' = [colas EXCEPT ![viaje[h].a] = Append(@, mano[h])]
    /\ contador' = [contador EXCEPT ![viaje[h].a] = @ + 1]
    /\ sem' = s
    /\ UNCHANGED <<reanudar, viaje, ds, caido,
                   vContexto, vConsola, vIO, vCpu, vCanales, vQuantum>>

TransicionGenerica(h) ==
    EvaluarPlanificacion(h) \/ ReanudarPlanificacion(h) \/ EsperarContador(h) \/ Sacar(h)

(* The threads that go on working on the PCB after appending it.           *)
AgregarYSeguir(h) == AgregarAEstado(h, sem) /\ Salta(h, "fin") /\ UNCHANGED mano

(* After its transition a thread writes through the PCB it moved: with     *)
(* NULL in its hand the kernel dies (SIGSEGV).                             *)
Desreferenciar(h) == caido' = (mano[h] = NULO)

(* contador_readys is awaited by planificar_por_vrr only; under FIFO and   *)
(* RR it grows and nobody reads it, so its value is left out.              *)
PostReadys(s) == IF Algoritmo = "VRR" THEN [s EXCEPT !["readys"] = @ + 1] ELSE s

(* sem_wait on the semaphore that starts a thread's next transition.       *)
Disparo(h, s, sigue) ==
    /\ pc[h] = "disparo"
    /\ sem[s] > 0
    /\ sem' = [sem EXCEPT ![s] = @ - 1]
    /\ Salta(h, sigue)
    /\ UNCHANGED <<colas, contador, reanudar, mano, viaje, ds, caido,
                   vContexto, vConsola, vIO, vCpu, vCanales, vQuantum>>

Vuelve(h) ==
    /\ Salta(h, "disparo")
    /\ mano' = [mano EXCEPT ![h] = NULO]

-----------------------------------------------------------------------------
(* largo_plazo: NEW -> READY.                                              *)

LargoDisparo == Disparo("largo", "en_new", "grado")

(* Mutation: GRADO is looked at and not taken.                             *)
LargoGradoSinTomar ==
    /\ pc["largo"] = "grado"
    /\ sem["GRADO"] > 0
    /\ Salta("largo", "evaluar1")
    /\ UNCHANGED <<colas, contador, sem, reanudar, mano, viaje, ds, caido,
                   vContexto, vConsola, vIO, vCpu, vCanales, vQuantum>>

LargoGrado ==
    /\ pc["largo"] = "grado"
    /\ sem["GRADO"] > 0
    /\ sem' = [sem EXCEPT !["GRADO"] = @ - 1]
    /\ Salta("largo", "evaluar1")
    /\ UNCHANGED <<colas, contador, reanudar, mano, viaje, ds, caido,
                   vContexto, vConsola, vIO, vCpu, vCanales, vQuantum>>

LargoAgregar == AgregarAEstado("largo", PostReadys(sem)) /\ Vuelve("largo")

LargoPlazo == LargoDisparo \/ LargoGrado \/ TransicionGenerica("largo") \/ LargoAgregar

(* transicion_exit_largo_plazo: EXEC -> EXIT.                              *)

ExitDisparo == Disparo("exit_largo", "t_exit_largo", "evaluar1")

(* Mutation: the post of exec_libre is forgotten.                          *)
ExitSinExecLibre ==
    /\ AgregarAEstado("exit_largo", [sem EXCEPT !["GRADO"] = @ + 1])
    /\ Vuelve("exit_largo")

ExitAgregar ==
    /\ AgregarAEstado("exit_largo", [sem EXCEPT !["GRADO"] = @ + 1, !["exec_libre"] = @ + 1])
    /\ Vuelve("exit_largo")

ExitLargoPlazo == ExitDisparo \/ TransicionGenerica("exit_largo") \/ ExitAgregar

-----------------------------------------------------------------------------
(* corto_plazo: READY or READY+ -> EXEC, the dispatch, and the quantum.    *)

CortoDisparo ==
    Disparo("corto", "exec_libre", IF Algoritmo = "VRR" THEN "readys" ELSE "evaluar1")

(* Mutation: the wrong counter is looked at.                               *)
CortoReadysAlReves ==
    /\ pc["corto"] = "readys"
    /\ sem["readys"] > 0
    /\ sem' = [sem EXCEPT !["readys"] = @ - 1]
    /\ viaje' = [viaje EXCEPT !["corto"].de = IF contador["READY"] > 0 THEN "READY+" ELSE "READY"]
    /\ Salta("corto", "evaluar1")
    /\ UNCHANGED <<colas, contador, reanudar, mano, ds, caido,
                   vContexto, vConsola, vIO, vCpu, vCanales, vQuantum>>

(* planificar_por_vrr: wait contador_readys, then prefer READY+.           *)
CortoReadys ==
    /\ pc["corto"] = "readys"
    /\ sem["readys"] > 0
    /\ sem' = [sem EXCEPT !["readys"] = @ - 1]
    /\ viaje' = [viaje EXCEPT !["corto"].de = IF contador["READY+"] > 0 THEN "READY+" ELSE "READY"]
    /\ Salta("corto", "evaluar1")
    /\ UNCHANGED <<colas, contador, reanudar, mano, ds, caido,
                   vContexto, vConsola, vIO, vCpu, vCanales, vQuantum>>

(* enviar_a_cpu_cde.                                                       *)
CortoEnviar ==
    /\ pc["corto"] = "fin"
    /\ Desreferenciar("corto")
    /\ aCpu' = IF mano["corto"] = NULO THEN aCpu ELSE Append(aCpu, cde[mano["corto"]])
    /\ IF Algoritmo = "FIFO"
       THEN Vuelve("corto")
       ELSE Salta("corto", "quantum") /\ UNCHANGED mano
    /\ UNCHANGED <<colas, contador, sem, reanudar, viaje, ds, aKernel, aInterrupt,
                   vContexto, vConsola, vIO, vCpu, vQuantum>>

(* inicio_quantum: create the thread, then join it.                        *)
CortoCrearQuantum ==
    /\ pc["corto"] = "quantum"
    /\ hiloQuantum' = "corre"
    /\ Salta("corto", "join")
    /\ UNCHANGED <<colas, contador, sem, reanudar, mano, viaje, ds, caido, restaQuanta,
                   vContexto, vConsola, vIO, vCpu, vCanales>>

CortoJoin ==
    /\ pc["corto"] = "join"
    /\ hiloQuantum = "termino"
    /\ hiloQuantum' = "unido"
    /\ IF Algoritmo = "VRR"
       THEN Salta("corto", "timer") /\ UNCHANGED mano
       ELSE Vuelve("corto")
    /\ UNCHANGED <<colas, contador, sem, reanudar, viaje, ds, caido, restaQuanta,
                   vContexto, vConsola, vIO, vCpu, vCanales>>

(* planificar_por_vrr: destroy the timer, if any, then create another.     *)
CortoTimer ==
    /\ pc["corto"] \in {"timer", "timer2"}
    /\ IF pc["corto"] = "timer" /\ timer # "nulo"
       THEN timer' = "destruido" /\ Salta("corto", "timer2") /\ UNCHANGED mano
       ELSE timer' = "vivo" /\ Vuelve("corto")
    /\ UNCHANGED <<colas, contador, sem, reanudar, viaje, ds, caido, cde, cde_interrumpido,
                   excedido, vConsola, vIO, vCpu, vCanales, vQuantum>>

CortoPlazo ==
    CortoDisparo \/ CortoReadys \/ CortoEnviar \/ CortoCrearQuantum \/ CortoJoin
    \/ CortoTimer \/ TransicionGenerica("corto") \/ AgregarYSeguir("corto")

(* hilo_quantum: the sleep ends and the CPU is told.                       *)
QuantumVence ==
    /\ hiloQuantum = "corre"
    /\ restaQuanta > 0
    /\ hiloQuantum' = "termino"
    /\ restaQuanta' = restaQuanta - 1
    /\ aInterrupt' = aInterrupt + 1
    /\ UNCHANGED <<colas, contador, sem, reanudar, pc, mano, viaje, ds, caido, aCpu, aKernel,
                   vContexto, vConsola, vIO, vCpu>>

-----------------------------------------------------------------------------
(* transicion_exec_ready, transicion_exec_blocked, transicion_blocked_ready. *)

ExecReadyDisparo == Disparo("exec_ready", "t_exec_ready", "evaluar1")

(* Mutation: a preempted process gives its unit of GRADO back.             *)
ExecReadyFinConGrado ==
    LET p == mano["exec_ready"]
    IN  /\ pc["exec_ready"] = "fin"
        /\ Desreferenciar("exec_ready")
        /\ cde' = IF p = NULO THEN cde ELSE [cde EXCEPT ![p] = cde_interrumpido]
        /\ sem' = PostReadys([sem EXCEPT !["exec_libre"] = @ + 1, !["GRADO"] = @ + 1])
        /\ Vuelve("exec_ready")
        /\ UNCHANGED <<colas, contador, reanudar, viaje, ds, cde_interrumpido, excedido, timer,
                       vConsola, vIO, vCpu, vCanales, vQuantum>>

ExecReadyFin ==
    LET p == mano["exec_ready"]
    IN  /\ pc["exec_ready"] = "fin"
        /\ Desreferenciar("exec_ready")
        /\ cde' = IF p = NULO THEN cde ELSE [cde EXCEPT ![p] = cde_interrumpido]
        /\ sem' = PostReadys([sem EXCEPT !["exec_libre"] = @ + 1])
        /\ Vuelve("exec_ready")
        /\ UNCHANGED <<colas, contador, reanudar, viaje, ds, cde_interrumpido, excedido, timer,
                       vConsola, vIO, vCpu, vCanales, vQuantum>>

(* Mutation: the CPU is declared free twice.                               *)
ExecBlockedDosVeces ==
    /\ pc["exec_blocked"] = "disparo"
    /\ sem["t_exec_blocked"] > 0
    /\ sem' = [sem EXCEPT !["t_exec_blocked"] = @ - 1, !["exec_libre"] = @ + 2]
    /\ Salta("exec_blocked", "evaluar1")
    /\ UNCHANGED <<colas, contador, reanudar, mano, viaje, ds, caido,
                   vContexto, vConsola, vIO, vCpu, vCanales, vQuantum>>

(* The CPU is declared free before the PCB that left it is moved.          *)
ExecBlockedDisparo ==
    /\ pc["exec_blocked"] = "disparo"
    /\ sem["t_exec_blocked"] > 0
    /\ sem' = [sem EXCEPT !["t_exec_blocked"] = @ - 1, !["exec_libre"] = @ + 1]
    /\ Salta("exec_blocked", "evaluar1")
    /\ UNCHANGED <<colas, contador, reanudar, mano, viaje, ds, caido,
                   vContexto, vConsola, vIO, vCpu, vCanales, vQuantum>>

(* Under VRR the timer is stopped and read.  With no timer the kernel dies; *)
(* on a destroyed one it may die or read any value.                         *)
ExecBlockedFin ==
    LET p == mano["exec_blocked"]
    IN  /\ pc["exec_blocked"] = "fin"
        /\ cde' = IF p = NULO THEN cde ELSE [cde EXCEPT ![p] = cde_interrumpido]
        /\ IF Algoritmo # "VRR"
           THEN Desreferenciar("exec_blocked") /\ UNCHANGED excedido
           ELSE /\ caido' \in {p = NULO \/ timer = "nulo", p = NULO \/ timer # "vivo"}
                /\ excedido' \in BOOLEAN
        /\ Vuelve("exec_blocked")
        /\ UNCHANGED <<colas, contador, sem, reanudar, viaje, ds, cde_interrumpido, timer,
                       vConsola, vIO, vCpu, vCanales, vQuantum>>

BlockedReadyDisparo == Disparo("blocked_ready", "t_blocked_ready", "elegir")

BlockedReadyElegir ==
    /\ pc["blocked_ready"] = "elegir"
    /\ viaje' = [viaje EXCEPT !["blocked_ready"] =
                    Viaje("BLOCK",
                          IF Algoritmo = "VRR" /\ ~excedido THEN "READY+" ELSE "READY",
                          vieneDeIO)]
    /\ Salta("blocked_ready", "evaluar1")
    /\ UNCHANGED <<colas, contador, sem, reanudar, mano, ds, caido,
                   vContexto, vConsola, vIO, vCpu, vCanales, vQuantum>>

BlockedReadyFin ==
    /\ pc["blocked_ready"] = "fin"
    /\ vieneDeIO' = IF viaje["blocked_ready"].porPid THEN FALSE ELSE vieneDeIO
    /\ Desreferenciar("blocked_ready")
    /\ sem' = PostReadys(sem)
    /\ Vuelve("blocked_ready")
    /\ UNCHANGED <<colas, contador, reanudar, viaje, ds, pid_a_desbloquear, espera, io,
                   vContexto, vConsola, vCpu, vCanales, vQuantum>>

ExecReady    == ExecReadyDisparo \/ TransicionGenerica("exec_ready")
                \/ AgregarYSeguir("exec_ready") \/ ExecReadyFin
ExecBlocked  == ExecBlockedDisparo \/ TransicionGenerica("exec_blocked")
                \/ AgregarYSeguir("exec_blocked") \/ ExecBlockedFin
BlockedReady == BlockedReadyDisparo \/ BlockedReadyElegir \/ TransicionGenerica("blocked_ready")
                \/ AgregarYSeguir("blocked_ready") \/ BlockedReadyFin

-----------------------------------------------------------------------------
(* levantar_CPU_Dispatch: what the kernel does with the CPU's answers.     *)

Mensaje(op, c, i) == [op |-> op, cde |-> c, io |-> i]

Llega(op) == aKernel # <<>> /\ Head(aKernel).op = op

(* pthread_cancel(hiloQuantum): stops the thread while it sleeps.  Once it *)
(* has ended the call has no effect; before the first one was created the  *)
(* identifier is 0 and the call faults.                                    *)
ConQuantum == Algoritmo \in {"RR", "VRR"}
CancelarQuantum == hiloQuantum' = IF hiloQuantum = "corre" THEN "termino" ELSE hiloQuantum
CancelaNadie == hiloQuantum = "sin_crear"

EnExec(pid) == \E i \in DOMAIN colas["EXEC"] :
                   colas["EXEC"][i] # NULO /\ cde[colas["EXEC"][i]].pid = pid

(* finalizar_proceso_success writes through what list_find(EXEC) returns.  *)
DsFinalizar ==
    LET c == Head(aKernel).cde
    IN  /\ ds = "op" /\ Llega("FINALIZAR_PROCESO")
        /\ aKernel' = Tail(aKernel)
        /\ IF ConQuantum THEN CancelarQuantum ELSE UNCHANGED hiloQuantum
        /\ cde_interrumpido' = c
        /\ caido' = ((ConQuantum /\ CancelaNadie) \/ ~EnExec(c.pid))
        /\ sem' = [sem EXCEPT !["t_exit_largo"] = @ + 1]
        /\ UNCHANGED <<colas, contador, reanudar, pc, mano, viaje, ds, cde, excedido, timer,
                       aCpu, aInterrupt, restaQuanta, vConsola, vIO, vCpu>>

DsFinDeQuantum ==
    /\ ds = "op" /\ Llega("FIN_DE_QUANTUM")
    /\ aKernel' = Tail(aKernel)
    /\ cde_interrumpido' = Head(aKernel).cde
    /\ CancelarQuantum
    /\ caido' = CancelaNadie
    /\ sem' = [sem EXCEPT !["t_exec_ready"] = @ + 1]
    /\ UNCHANGED <<colas, contador, reanudar, pc, mano, viaje, ds, cde, excedido, timer,
                   aCpu, aInterrupt, restaQuanta, vConsola, vIO, vCpu>>

(* INSTRUCCION_INTERFAZ: the request first ...                             *)
DsInterfaz ==
    /\ ds = "op" /\ Llega("INSTRUCCION_INTERFAZ")
    /\ IF ConQuantum THEN CancelarQuantum ELSE UNCHANGED hiloQuantum
    /\ caido' = (ConQuantum /\ CancelaNadie)
    /\ ds' = "cde"
    /\ UNCHANGED <<colas, contador, sem, reanudar, pc, mano, viaje, restaQuanta,
                   vContexto, vConsola, vIO, vCpu, vCanales>>

(* Mutations: the context that came back is not kept; the process is sent  *)
(* to READY while its request waits.                                       *)
DsInterfazSinContexto ==
    LET pedido == aKernel[1]
        c      == aKernel[2].cde
    IN  /\ ds = "cde" /\ Len(aKernel) >= 2
        /\ aKernel' = Tail(Tail(aKernel))
        /\ sem' = [sem EXCEPT !["t_exec_blocked"] = @ + 1]
        /\ espera' = [espera EXCEPT ![pedido.io] = Append(@, c.pid)]
        /\ ds' = "op"
        /\ UNCHANGED <<colas, contador, reanudar, pc, mano, viaje, caido, cde, cde_interrumpido,
                       excedido, timer, vieneDeIO, pid_a_desbloquear, io, aCpu, aInterrupt,
                       vConsola, vCpu, vQuantum>>

DsInterfazAReady ==
    LET pedido == aKernel[1]
        c      == aKernel[2].cde
    IN  /\ ds = "cde" /\ Len(aKernel) >= 2
        /\ aKernel' = Tail(Tail(aKernel))
        /\ cde_interrumpido' = c
        /\ sem' = [sem EXCEPT !["t_exec_ready"] = @ + 1]
        /\ espera' = [espera EXCEPT ![pedido.io] = Append(@, c.pid)]
        /\ ds' = "op"
        /\ UNCHANGED <<colas, contador, reanudar, pc, mano, viaje, caido, cde, excedido, timer,
                       vieneDeIO, pid_a_desbloquear, io, aCpu, aInterrupt,
                       vConsola, vCpu, vQuantum>>

(* ... then the context, sent by check_interrupt, and the whole of         *)
(* recibir_orden_interfaces_de_cpu for an interface that is connected.     *)
DsInterfazCde ==
    LET pedido == aKernel[1]
        c      == aKernel[2].cde
    IN  /\ ds = "cde" /\ Len(aKernel) >= 2
        /\ aKernel' = Tail(Tail(aKernel))
        /\ cde_interrumpido' = c
        /\ sem' = [sem EXCEPT !["t_exec_blocked"] = @ + 1]
        /\ espera' = [espera EXCEPT ![pedido.io] = Append(@, c.pid)]
        /\ ds' = "op"
        /\ UNCHANGED <<colas, contador, reanudar, pc, mano, viaje, caido, cde, excedido, timer,
                       vieneDeIO, pid_a_desbloquear, io, aCpu, aInterrupt,
                       vConsola, vCpu, vQuantum>>

HiloDispatch == DsFinalizar \/ DsFinDeQuantum \/ DsInterfaz \/ DsInterfazCde

-----------------------------------------------------------------------------
(* interfaz_conectada, one thread per interface: take the next request,    *)
(* have the interface do it, and report with two globals and a semaphore.  *)

IoTomar(i) ==
    /\ io[i].paso = "libre"
    /\ espera[i] # <<>>
    /\ espera' = [espera EXCEPT ![i] = Tail(@)]
    /\ io' = [io EXCEPT ![i] = [paso |-> "operando", pid |-> Head(espera[i])]]
    /\ UNCHANGED <<colas, contador, sem, reanudar, pc, mano, viaje, ds, caido, vieneDeIO,
                   pid_a_desbloquear, vContexto, vConsola, vCpu, vCanales, vQuantum>>

IoConcluir(i) ==
    /\ io[i].paso = "operando"
    /\ io' = [io EXCEPT ![i].paso = "avisar"]
    /\ vieneDeIO' = TRUE
    /\ UNCHANGED <<colas, contador, sem, reanudar, pc, mano, viaje, ds, caido, espera,
                   pid_a_desbloquear, vContexto, vConsola, vCpu, vCanales, vQuantum>>

IoAvisar(i) ==
    /\ io[i].paso = "avisar"
    /\ io' = [io EXCEPT ![i] = [paso |-> "libre", pid |-> NULO]]
    /\ pid_a_desbloquear' = io[i].pid
    /\ sem' = [sem EXCEPT !["t_blocked_ready"] = @ + 1]
    /\ UNCHANGED <<colas, contador, reanudar, pc, mano, viaje, ds, caido, espera,
                   vieneDeIO, vContexto, vConsola, vCpu, vCanales, vQuantum>>

InterfazConectada(i) == IoTomar(i) \/ IoConcluir(i) \/ IoAvisar(i)

-----------------------------------------------------------------------------
(* The CPU.  An instruction of the program either computes, asks for I/O   *)
(* or exits; check_interrupt follows each one.                             *)

CpuLibera(c) == IF c.salida THEN [c EXCEPT !.paso = "ejecutar"]
                            ELSE [c EXCEPT !.paso = "libre", !.cde = SinContexto]

\* The interrupt thread waits on s_exit at most once per quantum interrupt,
\* and once more: counting further tokens changes nothing.
CotaSExit == MaxQuanta + 1

CpuRecibir ==
    /\ cpu.paso = "libre"
    /\ aCpu # <<>>
    /\ aCpu' = Tail(aCpu)
    /\ cpu' = [cpu EXCEPT !.paso = "ejecutar", !.cde = Head(aCpu), !.salida = TRUE]
    /\ s_exit' = IF s_exit < CotaSExit THEN s_exit + 1 ELSE s_exit
    /\ UNCHANGED <<colas, contador, sem, reanudar, pc, mano, viaje, ds, caido, interrupt,
                   avance, aKernel, aInterrupt, vContexto, vConsola, vIO, vQuantum>>

CpuCalcular ==
    /\ cpu.paso = "ejecutar"
    /\ cpu' = [cpu EXCEPT !.paso = "chequear"]
    /\ UNCHANGED <<colas, contador, sem, reanudar, pc, mano, viaje, ds, caido, interrupt, s_exit,
                   avance, vContexto, vConsola, vIO, vCanales, vQuantum>>

CpuPedirIO(i) ==
    /\ cpu.paso = "ejecutar"
    /\ cpu.cde.PC < MaxIO
    /\ cpu' = [cpu EXCEPT !.paso = "chequear", !.io = TRUE, !.cde.PC = @ + 1]
    /\ avance' = [avance EXCEPT ![cpu.cde.pid] = cpu.cde.PC + 1]
    /\ aKernel' = Append(aKernel, Mensaje("INSTRUCCION_INTERFAZ", SinContexto, i))
    /\ UNCHANGED <<colas, contador, sem, reanudar, pc, mano, viaje, ds, caido, interrupt, s_exit,
                   aCpu, aInterrupt, vContexto, vConsola, vIO, vQuantum>>

(* case EXIT of execute: the quantum flag is dropped before the answer is  *)
(* sent, and check_interrupt still runs after it.                          *)
CpuExit ==
    /\ cpu.paso = "ejecutar"
    /\ cpu' = [cpu EXCEPT !.paso = "chequear", !.rr = FALSE, !.salida = FALSE]
    /\ aKernel' = Append(aKernel, Mensaje("FINALIZAR_PROCESO", cpu.cde, NULO))
    /\ UNCHANGED <<colas, contador, sem, reanudar, pc, mano, viaje, ds, caido, interrupt, s_exit,
                   avance, aCpu, aInterrupt, vContexto, vConsola, vIO, vQuantum>>

CheckInterrupt ==
    /\ cpu.paso = "chequear"
    /\ \/ /\ cpu.io
          /\ aKernel' = Append(aKernel, Mensaje("CDE", cpu.cde, NULO))
          /\ cpu' = CpuLibera([cpu EXCEPT !.salida = FALSE, !.rr = FALSE, !.io = FALSE])
       \/ /\ cpu.rr /\ ~cpu.io
          /\ aKernel' = Append(aKernel, Mensaje("FIN_DE_QUANTUM", cpu.cde, NULO))
          /\ cpu' = CpuLibera([cpu EXCEPT !.salida = FALSE, !.rr = FALSE])
       \/ /\ ~cpu.rr /\ ~cpu.io
          /\ cpu' = CpuLibera(cpu)
          /\ UNCHANGED aKernel
    /\ UNCHANGED <<colas, contador, sem, reanudar, pc, mano, viaje, ds, caido, interrupt, s_exit,
                   avance, aCpu, aInterrupt, vContexto, vConsola, vIO, vQuantum>>

(* levantar_kernel_interrupt.                                              *)
InterruptMirar ==
    /\ interrupt = "mirar"
    /\ interrupt' = IF cpu.salida THEN "recibir" ELSE "esperar"
    /\ UNCHANGED <<colas, contador, sem, reanudar, pc, mano, viaje, ds, caido, cpu, s_exit,
                   avance, vContexto, vConsola, vIO, vCanales, vQuantum>>

InterruptEsperar ==
    /\ interrupt = "esperar"
    /\ s_exit > 0
    /\ s_exit' = s_exit - 1
    /\ interrupt' = "recibir"
    /\ UNCHANGED <<colas, contador, sem, reanudar, pc, mano, viaje, ds, caido, cpu,
                   avance, vContexto, vConsola, vIO, vCanales, vQuantum>>

InterruptRecibir ==
    /\ interrupt = "recibir"
    /\ aInterrupt > 0
    /\ aInterrupt' = aInterrupt - 1
    /\ cpu' = [cpu EXCEPT !.rr = TRUE]
    /\ interrupt' = "mirar"
    /\ UNCHANGED <<colas, contador, sem, reanudar, pc, mano, viaje, ds, caido, s_exit,
                   avance, aCpu, aKernel, vContexto, vConsola, vIO, vQuantum>>

CpuEjecutar == CpuCalcular \/ CpuExit \/ \E i \in Interfaces : CpuPedirIO(i)
CpuInterrupt == InterruptMirar \/ InterruptEsperar \/ InterruptRecibir

-----------------------------------------------------------------------------
Consola == IniciarPlanificacion \/ DetenerPlanificacion \/ \E p \in Procesos : IniciarProceso(p)

Next ==
    /\ ~caido
    /\ \/ Consola
       \/ LargoPlazo \/ CortoPlazo \/ ExitLargoPlazo
       \/ ExecReady \/ ExecBlocked \/ BlockedReady
       \/ QuantumVence
       \/ HiloDispatch
       \/ \E i \in Interfaces : InterfazConectada(i)
       \/ CpuRecibir \/ CpuEjecutar \/ CheckInterrupt \/ CpuInterrupt

Spec == Init /\ [][Next]_vars

-----------------------------------------------------------------------------
(* Fairness.  Every thread is a pthread of its own that the host schedules *)
(* (weak fairness); a program is a finite list of instructions that ends   *)
(* in EXIT (strong fairness of CpuExit); the operator starts planning.     *)

Equidad ==
    /\ WF_vars(~caido /\ IniciarPlanificacion)
    /\ WF_vars(~caido /\ LargoPlazo)
    /\ WF_vars(~caido /\ CortoPlazo)
    /\ WF_vars(~caido /\ ExitLargoPlazo)
    /\ WF_vars(~caido /\ ExecReady)
    /\ WF_vars(~caido /\ ExecBlocked)
    /\ WF_vars(~caido /\ BlockedReady)
    /\ WF_vars(~caido /\ HiloDispatch)
    /\ \A i \in Interfaces : WF_vars(~caido /\ InterfazConectada(i))
    /\ WF_vars(~caido /\ CpuRecibir)
    /\ WF_vars(~caido /\ CpuEjecutar)
    /\ SF_vars(~caido /\ CpuExit)
    /\ WF_vars(~caido /\ CheckInterrupt)

SpecJusta == Spec /\ Equidad

-----------------------------------------------------------------------------
(* Properties.                                                             *)

Pasos == {"disparo", "grado", "readys", "elegir", "evaluar1", "pausa1", "contador",
          "evaluar2", "pausa2", "sacar", "evaluar3", "pausa3", "agregar", "fin",
          "quantum", "join", "timer", "timer2"}

PCB == Procesos \cup {NULO}

Contextos == [pid : PCB, PC : 0..MaxIO]

Viajes == [de : Colas, a : Colas, porPid : BOOLEAN]

Mensajes == [op : {"INSTRUCCION_INTERFAZ", "CDE", "FIN_DE_QUANTUM", "FINALIZAR_PROCESO"},
             cde : Contextos, io : Interfaces \cup {NULO}]

TipoColas == colas \in [Colas -> Seq(PCB)] /\ contador \in [Colas -> Nat]

TipoHilos ==
    /\ sem \in [Semaforos -> Nat]
    /\ reanudar \in [Hilos -> Nat]
    /\ pc \in [Hilos -> Pasos]
    /\ mano \in [Hilos -> PCB]
    /\ viaje \in [Hilos -> Viajes]
    /\ ds \in {"op", "cde"}
    /\ caido \in BOOLEAN

TipoContexto ==
    /\ cde \in [Procesos -> Contextos]
    /\ cde_interrumpido \in Contextos
    /\ excedido \in BOOLEAN
    /\ timer \in {"nulo", "vivo", "destruido"}

TipoConsola == habilitado \in BOOLEAN /\ restaPausas \in Nat

TipoIO ==
    /\ vieneDeIO \in BOOLEAN
    /\ pid_a_desbloquear \in PCB
    /\ espera \in [Interfaces -> Seq(PCB)]
    /\ io \in [Interfaces -> [paso : {"libre", "operando", "avisar"}, pid : PCB]]

TipoCpu ==
    /\ cpu \in [paso : {"libre", "ejecutar", "chequear"}, cde : Contextos,
                salida : BOOLEAN, rr : BOOLEAN, io : BOOLEAN]
    /\ interrupt \in {"mirar", "esperar", "recibir"}
    /\ s_exit \in Nat
    /\ avance \in [Procesos -> 0..MaxIO]

TipoCanales == aCpu \in Seq(Contextos) /\ aKernel \in Seq(Mensajes) /\ aInterrupt \in Nat

TipoQuantum ==
    /\ hiloQuantum \in {"sin_crear", "corre", "termino", "unido"}
    /\ restaQuanta \in Nat

(* Every variable holds a value of its type, group by group; in particular *)
(* no semaphore is ever negative and every transition is between queues.   *)
TypeOK ==
    /\ TipoColas /\ TipoHilos /\ TipoContexto /\ TipoConsola
    /\ TipoIO /\ TipoCpu /\ TipoCanales /\ TipoQuantum

Uno(b) == IF b THEN 1 ELSE 0

(* The threads that hold a PCB which is in no queue, and those that have   *)
(* taken a unit of a queue's counter and not yet its PCB.                  *)
Sostiene(h) == pc[h] \in {"evaluar3", "pausa3", "agregar"}
Reserva(h, c) == viaje[h].de = c /\ pc[h] \in {"evaluar2", "pausa2", "sacar"}

Lugares(p) ==
    (UNION {{<<c, i>> : i \in {k \in DOMAIN colas[c] : colas[c][k] = p}} : c \in Colas})
    \cup {<<h, 0>> : h \in {k \in Hilos : Sostiene(k) /\ mano[k] = p}}

(* No PCB is ever in two queues, twice in one, or in a queue and in a      *)
(* thread's hand: six threads move PCBs and only list operations are under *)
(* a mutex.                                                                *)
UnaSolaCustodia == \A p \in Procesos : Cardinality(Lugares(p)) <= 1

(* A thread that got past sem_wait(contador) always finds a PCB to remove, *)
(* though EXEC is emptied by three threads and the removal comes later,    *)
(* after another evaluar_planificacion.                                    *)
ContadorRespaldado ==
    \A c \in Colas :
        contador[c] + Cardinality({h \in Hilos : Reserva(h, c)}) <= Len(colas[c])

(* The right to use the CPU is a single token: it is the unit of           *)
(* b_exec_libre, or held by corto_plazo, or travels to the CPU, runs, and  *)
(* comes back through the dispatch thread and one of three others.  It is  *)
(* so until a quantum expires: the end of one that reaches the CPU after   *)
(* the EXIT of its process is answered as well.                            *)
ConFicha(h) == pc[h] \notin {"disparo", "quantum", "join", "timer", "timer2"}

Fichas ==
    sem["exec_libre"] + Uno(ConFicha("corto")) + Len(aCpu)
    + Uno(cpu.paso # "libre" /\ cpu.salida)
    + Cardinality({i \in DOMAIN aKernel : aKernel[i].op # "INSTRUCCION_INTERFAZ"})
    + sem["t_exit_largo"] + Uno(ConFicha("exit_largo"))
    + sem["t_exec_ready"] + Uno(ConFicha("exec_ready"))
    + sem["t_exec_blocked"]

CpuExclusiva == ~caido /\ restaQuanta = MaxQuanta => Fichas = 1

(* No removal has found its queue without the PCB: the NULL it returns goes *)
(* from hand to queue as a PCB does, until a thread writes through it and  *)
(* the kernel dies.                                                        *)
SinNulos ==
    /\ \A c \in Colas : NULO \notin ToSet(colas[c])
    /\ \A h \in Hilos : Sostiene(h) => mano[h] # NULO

(* Until then the multiprogramming degree is conserved: each of its units  *)
(* is in the semaphore, with the thread that admits or retires a process,  *)
(* or with a process between READY and EXIT.                               *)
Admitido(p) ==
    \/ \E c \in {"READY", "READY+", "EXEC", "BLOCK"} : p \in ToSet(colas[c])
    \/ \E h \in Hilos \ {"largo"} : Sostiene(h) /\ mano[h] = p

GradoConservado ==
    SinNulos =>
    sem["GRADO"] + Cardinality({p \in Procesos : Admitido(p)})
      + Uno(pc["largo"] \notin {"disparo", "grado"}) = Grado

(* A PCB moves along the process-state diagram only.                       *)
EstadoDe(p) ==
    IF \E c \in Colas : p \in ToSet(colas[c])
    THEN CHOOSE c \in Colas : p \in ToSet(colas[c])
    ELSE IF \E h \in Hilos : Sostiene(h) /\ mano[h] = p
         THEN viaje[CHOOSE h \in Hilos : Sostiene(h) /\ mano[h] = p].de
         ELSE "SIN_CREAR"

EstadoDeCada == [p \in Procesos |-> EstadoDe(p)]

Diagrama == INSTANCE EstadosProceso WITH estado <- EstadoDeCada

(* It is admitted within the degree as long as that one is conserved.      *)
CumpleDiagrama ==
    Diagrama!EstadosInit /\ [][SinNulos => Diagrama!EstadosNext]_EstadoDeCada

(* Each PCB that has not exited points to a context of its own process.    *)
PidPropio == \A p \in Procesos : p \in ToSet(colas["EXIT"]) \/ cde[p].pid = p

(* planificar_por_vrr: having taken a unit of contador_readys it never     *)
(* waits for a PCB in the queue it chose.                                  *)
VrrNuncaEsperaEnVano ==
    (Algoritmo = "VRR" /\ pc["corto"] = "contador") => contador[viaje["corto"].de] > 0

(* A process that waits for an interface, or is being served by one, is    *)
(* not given the CPU.                                                      *)
EnInterfaz(p) == \E i \in Interfaces : p \in ToSet(espera[i]) \/ io[i].pid = p
SinCpuDuranteIO ==
    \A p \in Procesos : EnInterfaz(p) => cpu.cde.pid # p /\ \A j \in DOMAIN aCpu : aCpu[j].pid # p

(* Every process the console starts reaches EXIT.                          *)
TodoProcesoTermina ==
    \A p \in Procesos : p \in ToSet(colas["NEW"]) ~> p \in ToSet(colas["EXIT"])

(* What one expects and the code does not do (README, "What does not       *)
(* hold").                                                                 *)
(* The context that is sent to the CPU is the last one the CPU returned    *)
(* for that process: no instruction is executed twice.                     *)
DespachoAlDia == \A i \in DOMAIN aCpu : aCpu[i].PC = avance[aCpu[i].pid]

(* INICIAR_PLANIFICACION resumes every thread that was waiting for it.     *)
EnPausa(h) == pc[h] \in {"pausa1", "pausa2", "pausa3"}
TodoHiloReanuda == \A h \in Hilos : EnPausa(h) /\ habilitado ~> ~EnPausa(h)

(* b_exec_libre is declared as a binary semaphore.                         *)
ExecLibreBinario == sem["exec_libre"] <= 1

=============================================================================
