-------------------------------- MODULE CicloCpu --------------------------------
(***************************************************************************)
(* The instruction cycle of the CPU (cpu.c, cicloinstruccion.c): the thread*)
(* that executes what the kernel dispatches and the thread that takes the  *)
(* interrupts, which share a handful of global flags, and the conversation *)
(* with the kernel at the other end of the two sockets (kernel.c).         *)
(*                                                                         *)
(* An instruction that calls the kernel writes an operation and its data   *)
(* while it executes; the context that completes the message is written    *)
(* afterwards by check_interrupt, whichever branch it takes.  How the      *)
(* kernel schedules is in Planificador, what WAIT waits for in Recursos    *)
(* and where an I/O request goes in InterfacesIO: here a process that is   *)
(* out of EXEC may be dispatched again at any time.                        *)
(*                                                                         *)
(* The kernel is not followed past desorden, where it reads something else *)
(* than it waits for, nor past pisado, where it reads a context before     *)
(* exec_blocked stored the previous one: two PCBs then have one context.   *)
(***************************************************************************)
EXTENDS Integers, Sequences, FiniteSets

CONSTANTS
    Procesos, NULO,
    Programas,      \* the programs a process may have: sequences of instructions
    Ancho8,         \* bits of AX, BX, CX and DX
    Ancho32,        \* bits of the other registers
    ConQuantum,     \* the algorithm is RR or VRR
    MaxSExit,       \* bound: value of the semaphore s_exit
    MaxInterrup,    \* bound: unread messages in the interrupt socket
    MaxFinalizar    \* bound: FINALIZAR_PROCESO of the console

ASSUME NuloAssumption == NULO \notin Procesos
ASSUME AnchoAssumption == Ancho8 \in Nat \ {0} /\ Ancho32 \in Nat /\ Ancho8 <= Ancho32
\* What the proofs need to know of powers.
ASSUME PotenciasAssumption == {2 ^ Ancho8, 2 ^ Ancho32} \subseteq Nat \ {0}
ASSUME CotasAssumption == MaxSExit \in Nat \ {0} /\ MaxInterrup \in Nat /\ MaxFinalizar \in Nat

VARIABLES
    programa,       \* per process: what memoria fetches from
    \* the CPU
    pcD,            \* levantar_kernel_dispatch
    pcI,            \* levantar_kernel_interrupt
    cde,            \* cde_recibido
    registros,      \* what the pointer registros points to
    salida_exit,
    interrupcion,   \* interrupcion_rr, _exit, _io, _fs, desalojo_wait, desalojo_signal
    s_exit,
    \* the sockets
    aCpu,           \* dispatch, kernel to CPU: contexts
    aKernel,        \* dispatch, CPU to kernel: operations and buffers
    aInterrupt,
    \* the kernel
    enExec,         \* the process the CPU was given to
    listos,         \* the processes that may be dispatched, once out of EXEC
    guardado,       \* per process: the context of its PCB
    cde_interrumpido,  \* NULO when nobody will read it
    bloqueo,        \* exec_blocked: what it does next, with which PCB
    quantum,        \* hiloQuantum: "no", "por_crear" or "corre"
    operacion,      \* what levantar_CPU_Dispatch is reading
    finalizados,
    desorden,       \* it read something else than what it waited for
    pisado,         \* it overwrote cde_interrumpido before exec_blocked read it
    \* history
    escribio,       \* what the last instruction wrote to the kernel
    choque,         \* an interrupt was attended that does not go with it
    atrasado        \* a process was dispatched before exec_blocked stored its context

vCpu == <<pcD, pcI, cde, registros, salida_exit, interrupcion, s_exit>>
vBloqueo == <<cde_interrumpido, bloqueo>>
vKernel == <<enExec, listos, guardado, vBloqueo, quantum, operacion, finalizados, desorden, pisado>>
vHistoria == <<escribio, choque, atrasado>>
vars == <<programa, vCpu, aCpu, aKernel, aInterrupt, vKernel, vHistoria>>

-----------------------------------------------------------------------------
(* Registers.                                                              *)

De8 == {"AX", "BX", "CX", "DX"}
De32 == {"EAX", "EBX", "ECX", "EDX", "SI", "DI"}
Registros == {"AX", "EAX", "SI"}
Modulo(r) == IF r \in De8 THEN 2 ^ Ancho8 ELSE 2 ^ Ancho32

(* The registers that exec_sum, exec_sub and exec_jnz know.                *)
Aritmeticos == (De8 \cup De32) \ {"SI", "DI"}

(* An instruction: its name, and the register, the number (a uint32_t) and *)
(* the second register that it may take.                                   *)
Operandos == De8 \cup De32 \cup {"PC"}
Instrucciones ==
    [op : {"SET", "SUM", "SUB", "JNZ", "RESIZE", "WAIT", "SIGNAL", "IO", "IO_FS", "EXIT"},
     r : Operandos, n : Nat, o : Operandos]
ASSUME ProgramasAssumption == Programas \subseteq Seq(Instrucciones)

(* exec_set, exec_sum, exec_sub and exec_jnz.  An operand that is no       *)
(* register is worth 0 (obtener_valor returns NULL), a result keeps the    *)
(* width of its register.  exec_jnz stores the instruction number in the   *)
(* register it looks at: the program counter does not move.                *)
(* (Mutation, GuardaSinAncho: the result keeps every bit.)                 *)
Valor(rs, o) == IF o \in DOMAIN rs THEN rs[o] ELSE 0
GuardaSinAncho(rs, r, v) == [rs EXCEPT ![r] = v]
Guarda(rs, r, v) == [rs EXCEPT ![r] = v % Modulo(r)]

Set(rs, i) == IF i.r \in DOMAIN rs THEN Guarda(rs, i.r, i.n) ELSE rs
Sum(rs, i) == IF i.r \in Aritmeticos THEN Guarda(rs, i.r, rs[i.r] + Valor(rs, i.o)) ELSE rs
Sub(rs, i) == IF i.r \in Aritmeticos THEN Guarda(rs, i.r, rs[i.r] - Valor(rs, i.o)) ELSE rs
Jnz(rs, i) == IF i.r \in Aritmeticos /\ rs[i.r] # 0 THEN Guarda(rs, i.r, i.n) ELSE rs

Opera(rs, i) ==
    CASE i.op = "SET" -> Set(rs, i)
      [] i.op = "SUM" -> Sum(rs, i)
      [] i.op = "SUB" -> Sub(rs, i)
      [] i.op = "JNZ" -> Jnz(rs, i)
      [] OTHER -> rs

(* The context after an instruction: the counter was raised by the fetch,  *)
(* and only SET changes it.                                                *)
Contador(c, i) == IF i.op = "SET" /\ i.r = "PC" THEN i.n ELSE c.PC + 1

Instruccion(c) == programa[c.pid][c.PC + 1]
Ejecutado(c) ==
    LET i == Instruccion(c)
    IN  [c EXCEPT !.PC = Contador(c, i), !.registros = Opera(c.registros, i)]

Cero == [r \in Registros |-> 0]
Contexto(p) == [pid |-> p, PC |-> 0, registros |-> Cero]

(* A context crosses a socket field by field.                              *)
AgregaRegistros(rs) == <<rs["AX"], rs["EAX"], rs["SI"]>>
LeeRegistros(b) == [r \in Registros |-> CASE r = "AX" -> b[1] [] r = "EAX" -> b[2] [] r = "SI" -> b[3]]
AgregaCde(c) == <<c.pid, c.PC, AgregaRegistros(c.registros)>>
LeeCde(b) == [pid |-> b[1], PC |-> b[2], registros |-> LeeRegistros(b[3])]

-----------------------------------------------------------------------------
Banderas == {"rr", "exit", "io", "fs", "wait", "signal"}
Quieta == [b \in Banderas |-> FALSE]
DeInstruccion == {"io", "fs", "wait", "signal"}

(* What goes from the CPU to the kernel: an operation, or a buffer.        *)
Op(o) == [que |-> o, cde |-> NULO]
Buffer(b) == [que |-> b, cde |-> NULO]
BufferCde(b, c) == [que |-> b, cde |-> AgregaCde(c)]

Nada == [op |-> NULO, falta |-> <<>>]
SinOrden == [paso |-> "no", p |-> NULO]

Init ==
    /\ programa \in [Procesos -> Programas]
    /\ pcD = "recibe"
    /\ pcI = "mira"
    /\ cde = NULO
    /\ registros = Cero
    /\ salida_exit = TRUE
    /\ interrupcion = Quieta
    /\ s_exit = 1
    /\ aCpu = <<>>
    /\ aKernel = <<>>
    /\ aInterrupt = <<>>
    /\ enExec = NULO
    /\ listos = Procesos
    /\ guardado = [p \in Procesos |-> Contexto(p)]
    /\ cde_interrumpido = NULO /\ bloqueo = SinOrden
    /\ quantum = "no"
    /\ operacion = Nada
    /\ finalizados = 0
    /\ desorden = FALSE /\ pisado = FALSE
    /\ escribio = "nada"
    /\ choque = FALSE /\ atrasado = FALSE

-----------------------------------------------------------------------------
(* levantar_kernel_interrupt.                                              *)

\* With no process executing it waits for a dispatch.
InterrupMira ==
    /\ pcI = "mira"
    /\ pcI' = IF salida_exit THEN "recibe" ELSE "espera"
    /\ UNCHANGED <<programa, pcD, cde, registros, salida_exit, interrupcion, s_exit, aCpu, aKernel,
                   aInterrupt, vKernel, vHistoria>>

InterrupEspera ==
    /\ pcI = "espera" /\ s_exit > 0
    /\ s_exit' = s_exit - 1
    /\ pcI' = "recibe"
    /\ UNCHANGED <<programa, pcD, cde, registros, salida_exit, interrupcion, aCpu, aKernel, aInterrupt,
                   vKernel, vHistoria>>

InterrupRecibe ==
    /\ pcI = "recibe" /\ aInterrupt # <<>>
    /\ interrupcion' = [interrupcion EXCEPT ![Head(aInterrupt)] = TRUE]
    /\ aInterrupt' = Tail(aInterrupt)
    /\ pcI' = "mira"
    /\ UNCHANGED <<programa, pcD, cde, registros, salida_exit, s_exit, aCpu, aKernel, vKernel, vHistoria>>

HiloInterrupt == InterrupMira \/ InterrupEspera \/ InterrupRecibe

-----------------------------------------------------------------------------
(* levantar_kernel_dispatch.                                               *)

(* Mutation: the interrupt thread is not told of the dispatch.             *)
DespachoSinPost ==
    /\ pcD = "recibe" /\ aCpu # <<>>
    /\ s_exit < MaxSExit
    /\ cde' = LeeCde(Head(aCpu))
    /\ aCpu' = Tail(aCpu)
    /\ registros' = cde'.registros
    /\ salida_exit' = TRUE
    /\ pcD' = "instruccion"
    /\ UNCHANGED <<programa, pcI, interrupcion, s_exit, aKernel, aInterrupt, vKernel, vHistoria>>

(* Mutation: the registers stay those of the last process.                 *)
DespachoSinRegistros ==
    /\ pcD = "recibe" /\ aCpu # <<>>
    /\ s_exit < MaxSExit
    /\ cde' = LeeCde(Head(aCpu))
    /\ aCpu' = Tail(aCpu)
    /\ salida_exit' = TRUE
    /\ s_exit' = s_exit + 1
    /\ pcD' = "instruccion"
    /\ UNCHANGED <<programa, pcI, registros, interrupcion, aKernel, aInterrupt, vKernel, vHistoria>>

\* EJECUTAR_PROCESO.
Despacho ==
    /\ pcD = "recibe" /\ aCpu # <<>>
    /\ s_exit < MaxSExit
    /\ cde' = LeeCde(Head(aCpu))
    /\ aCpu' = Tail(aCpu)
    /\ registros' = cde'.registros
    /\ salida_exit' = TRUE
    /\ s_exit' = s_exit + 1
    /\ pcD' = "instruccion"
    /\ UNCHANGED <<programa, pcI, interrupcion, aKernel, aInterrupt, vKernel, vHistoria>>

(* fetch, decode, execute and actualizar_cde of an instruction; what it    *)
(* writes to the kernel, and whether it ends the process, is given.  Past  *)
(* the last instruction memoria finds NULL and does not answer.            *)
Ejecuta(que, mensajes, sigue, llamo) ==
    /\ pcD = "instruccion"
    /\ cde.PC < Len(programa[cde.pid])
    /\ Instruccion(cde).op \in que
    /\ registros' = Opera(registros, Instruccion(cde))
    /\ cde' = [cde EXCEPT !.PC = Contador(cde, Instruccion(cde)), !.registros = registros']
    /\ aKernel' = aKernel \o mensajes
    /\ salida_exit' = sigue
    /\ escribio' = llamo
    /\ pcD' = "revisa"
    /\ UNCHANGED <<programa, pcI, s_exit, aCpu, aInterrupt, vKernel, choque, atrasado>>

\* The context as the fetch left it.
Traido == [cde EXCEPT !.PC = @ + 1]

Calcula ==
    /\ Ejecuta({"SET", "SUM", "SUB", "JNZ"}, <<>>, TRUE, "nada")
    /\ UNCHANGED interrupcion

\* exec_resize: memoria has the frames or does not.
Resize ==
    \/ Ejecuta({"RESIZE"}, <<>>, TRUE, "nada") /\ UNCHANGED interrupcion
    \/ /\ Ejecuta({"RESIZE"}, <<Op("FINALIZAR_PROCESO"), BufferCde("fin", Traido)>>, FALSE, "fin")
       /\ UNCHANGED interrupcion

\* exec_wait and exec_signal.
Recurso ==
    \/ /\ Ejecuta({"WAIT"}, <<Op("WAIT_RECURSO"), Buffer("recurso")>>, TRUE, "recurso")
       /\ interrupcion' = [interrupcion EXCEPT !["wait"] = TRUE]
    \/ /\ Ejecuta({"SIGNAL"}, <<Op("SIGNAL_RECURSO"), Buffer("recurso")>>, TRUE, "recurso")
       /\ interrupcion' = [interrupcion EXCEPT !["signal"] = TRUE]

\* exec_io_gen_sleep, _stdin_read and _stdout_write; exec_io_fs_*.
EntradaSalida ==
    \/ /\ Ejecuta({"IO"}, <<Op("INSTRUCCION_INTERFAZ"), Buffer("datos_io")>>, TRUE, "interfaz")
       /\ interrupcion' = [interrupcion EXCEPT !["io"] = TRUE]
    \/ /\ Ejecuta({"IO_FS"}, <<Op("INSTRUCCION_INTERFAZ"), Buffer("datos_fs")>>, TRUE, "interfaz")
       /\ interrupcion' = [interrupcion EXCEPT !["fs"] = TRUE]

\* EXIT: a quantum that ended is forgotten.
Exit ==
    /\ Ejecuta({"EXIT"}, <<Op("FINALIZAR_PROCESO"), BufferCde("fin", Traido)>>, FALSE, "fin")
    /\ interrupcion' = [interrupcion EXCEPT !["rr"] = FALSE]

Execute == Calcula \/ Resize \/ Recurso \/ EntradaSalida \/ Exit

-----------------------------------------------------------------------------
(* check_interrupt: what each branch writes, and the flag it lowers.  The  *)
(* context it sends completes the message the instruction began; with a    *)
(* WAIT or SIGNAL begun, or the process already ended, FIN_DE_QUANTUM and  *)
(* FINALIZAR_PROCESO fall in the middle of one or begin a second one.      *)
Devuelve == <<BufferCde("cde", cde)>>
DevuelveArchivo == <<BufferCde("cde", cde), Buffer("archivo")>>
Interrumpido == <<Op("FINALIZAR_PROCESO"), BufferCde("fin", cde)>>
Desalojado == <<Op("FIN_DE_QUANTUM"), BufferCde("cde", cde)>>

Baja(banderas) == [b \in Banderas |-> interrupcion[b] /\ b \notin banderas]

(* Out of the loop the context and its registers are freed.                *)
Libera ==
    /\ pcD' = "recibe"
    /\ cde' = NULO
    /\ registros' = Cero
    /\ escribio' = "nada"

(* Leave the loop of the process: flags lowered, messages sent.            *)
Termina(banderas, mensajes) ==
    /\ interrupcion' = Baja(banderas)
    /\ aKernel' = aKernel \o mensajes
    /\ salida_exit' = FALSE
    /\ Libera
    /\ UNCHANGED <<programa, pcI, s_exit, aCpu, aInterrupt, vKernel, atrasado>>

(* Mutation: a quantum that ended hides the request of an interface.       *)
RevisaQuantumSinIO ==
    /\ pcD = "revisa" /\ interrupcion["rr"]
    /\ IF interrupcion["exit"] THEN Termina({"rr", "exit"}, Interrumpido)
       ELSE Termina({"rr"}, Desalojado)
    /\ choque' = (choque \/ escribio \in {"recurso", "fin"})

\* interrupcion_rr.
RevisaQuantum ==
    /\ pcD = "revisa" /\ interrupcion["rr"]
    /\ IF interrupcion["io"] THEN Termina({"rr", "io"}, Devuelve)
       ELSE IF interrupcion["fs"] THEN Termina({"rr", "fs"}, DevuelveArchivo)
       ELSE IF interrupcion["exit"] THEN Termina({"rr", "exit"}, Interrumpido)
       ELSE Termina({"rr"}, Desalojado)
    /\ choque' = (choque \/ escribio \in {"recurso", "fin"})

RevisaSinQuantum ==
    /\ pcD = "revisa" /\ ~interrupcion["rr"]
    /\ pcD' = "revisa_exit"
    /\ UNCHANGED <<programa, pcI, cde, registros, salida_exit, interrupcion, s_exit, aCpu, aKernel,
                   aInterrupt, vKernel, vHistoria>>

\* interrupcion_exit.
RevisaExit ==
    /\ pcD = "revisa_exit" /\ interrupcion["exit"]
    /\ Termina({"exit"}, Interrumpido)
    /\ choque' = (choque \/ escribio # "nada")

(* Mutation: desalojo_wait stays up.                                       *)
RevisaLlamadaSinBajar ==
    /\ pcD = "revisa_exit" /\ ~interrupcion["exit"]
    /\ IF interrupcion["io"] THEN Termina({"io"}, Devuelve)
       ELSE IF interrupcion["fs"] THEN Termina({"fs"}, DevuelveArchivo)
       ELSE IF interrupcion["signal"] THEN Termina({"signal"}, Devuelve)
       ELSE /\ interrupcion["wait"]
            /\ Termina({}, Devuelve)
    /\ UNCHANGED choque

\* interrupcion_io, interrupcion_fs, desalojo_signal and desalojo_wait.
RevisaLlamada ==
    /\ pcD = "revisa_exit" /\ ~interrupcion["exit"]
    /\ IF interrupcion["io"] THEN Termina({"io"}, Devuelve)
       ELSE IF interrupcion["fs"] THEN Termina({"fs"}, DevuelveArchivo)
       ELSE IF interrupcion["signal"] THEN Termina({"signal"}, Devuelve)
       ELSE /\ interrupcion["wait"]
            /\ Termina({"wait"}, Devuelve)
    /\ UNCHANGED choque

\* No flag is up: the next instruction, unless the last one ended the process.
RevisaNada ==
    /\ pcD = "revisa_exit"
    /\ \A b \in Banderas \ {"rr"} : ~interrupcion[b]
    /\ IF salida_exit THEN pcD' = "instruccion" /\ UNCHANGED <<cde, registros, escribio>> ELSE Libera
    /\ UNCHANGED <<programa, pcI, salida_exit, interrupcion, s_exit, aCpu, aKernel, aInterrupt, vKernel,
                   choque, atrasado>>

Check_interrupt == RevisaQuantum \/ RevisaSinQuantum \/ RevisaExit \/ RevisaLlamada \/ RevisaNada

HiloCiclo == Despacho \/ Execute \/ Check_interrupt

-----------------------------------------------------------------------------
(* The kernel.                                                             *)

\* enviar_a_cpu_cde.
Envia(c) == aCpu' = Append(aCpu, AgregaCde(c))
Interrumpe(motivo) ==
    /\ Len(aInterrupt) < MaxInterrup
    /\ aInterrupt' = Append(aInterrupt, motivo)

SeSigue == ~desorden /\ ~pisado

\* exec_blocked has its order, and the process is in EXEC.
PorSalir == bloqueo.paso \in {"orden", "mueve"}

(* corto_plazo: the last quantum was joined, exec_libre was posted.  The   *)
(* PCB goes with the context it has, which exec_blocked may not have       *)
(* stored yet.                                                             *)
CortoDespacha(p) ==
    /\ enExec = NULO /\ bloqueo.paso # "orden" /\ quantum = "no" /\ SeSigue
    /\ p \in listos /\ ~(PorSalir /\ bloqueo.p = p)
    /\ Envia(guardado[p])
    /\ enExec' = p
    /\ listos' = listos \ {p}
    /\ quantum' = IF ConQuantum THEN "por_crear" ELSE "no"
    /\ atrasado' = (atrasado \/ (bloqueo.p = p /\ guardado[p] # cde_interrumpido))
    /\ UNCHANGED <<programa, vCpu, aKernel, aInterrupt, guardado, vBloqueo, operacion, finalizados,
                   desorden, pisado, escribio, choque>>

\* inicio_quantum.
QuantumEmpieza ==
    /\ quantum = "por_crear" /\ SeSigue
    /\ quantum' = "corre"
    /\ UNCHANGED <<programa, vCpu, aCpu, aKernel, aInterrupt, enExec, listos, guardado, vBloqueo,
                   operacion, finalizados, desorden, pisado, vHistoria>>

\* hilo_quantum.
QuantumVence ==
    /\ quantum = "corre" /\ SeSigue
    /\ Interrumpe("rr")
    /\ quantum' = "no"
    /\ UNCHANGED <<programa, vCpu, aCpu, aKernel, enExec, listos, guardado, vBloqueo, operacion,
                   finalizados, desorden, pisado, vHistoria>>

\* finalizar_proceso from the console, of a process in EXEC.
ConsolaFinaliza ==
    /\ enExec # NULO \/ PorSalir
    /\ SeSigue
    /\ finalizados < MaxFinalizar
    /\ Interrumpe("exit")
    /\ finalizados' = finalizados + 1
    /\ UNCHANGED <<programa, vCpu, aCpu, aKernel, enExec, listos, guardado, vBloqueo, quantum, operacion,
                   desorden, pisado, vHistoria>>

(* transicion_exec_blocked: the CPU is given away first, then the PCB is   *)
(* moved, and what is cde_interrumpido by then is stored in it.            *)
ExecBlocked ==
    /\ bloqueo.paso # "no" /\ SeSigue
    /\ \/ bloqueo.paso = "orden" /\ bloqueo' = [bloqueo EXCEPT !.paso = "mueve"]
          /\ UNCHANGED <<guardado, cde_interrumpido>>
       \/ bloqueo.paso = "mueve" /\ bloqueo' = [bloqueo EXCEPT !.paso = "guarda"]
          /\ UNCHANGED <<guardado, cde_interrumpido>>
       \/ bloqueo.paso = "guarda" /\ bloqueo' = SinOrden
          /\ guardado' = [guardado EXCEPT ![bloqueo.p] = cde_interrumpido]
          /\ cde_interrumpido' = NULO
    /\ UNCHANGED <<programa, vCpu, aCpu, aKernel, aInterrupt, enExec, listos, quantum, operacion,
                   finalizados, desorden, pisado, vHistoria>>

(* levantar_CPU_Dispatch: what each operation is followed by.              *)
Falta ==
    [FINALIZAR_PROCESO |-> <<"fin">>, FIN_DE_QUANTUM |-> <<"cde">>,
     INSTRUCCION_INTERFAZ |-> <<"datos">>,
     WAIT_RECURSO |-> <<"recurso", "cde">>, SIGNAL_RECURSO |-> <<"recurso", "cde">>]

Leido == Head(aKernel)
Espera == Head(operacion.falta)
Acepta ==
    IF operacion = Nada THEN Leido.que \in DOMAIN Falta
    ELSE \/ Espera = "datos" /\ Leido.que \in {"datos_io", "datos_fs"}
         \/ Espera = Leido.que /\ (Espera \in {"cde", "fin"} => LeeCde(Leido.cde).pid = enExec)

Lee ==
    /\ SeSigue /\ aKernel # <<>> /\ Acepta
    /\ aKernel' = Tail(aKernel)
    /\ UNCHANGED <<programa, vCpu, finalizados, desorden, pisado, vHistoria>>

\* The rest of the message, if any.
Sigue(falta) == operacion' = IF falta = <<>> THEN Nada ELSE [operacion EXCEPT !.falta = falta]

(* pthread_cancel(hiloQuantum), while it sleeps.                           *)
Cancela == quantum' = IF quantum = "corre" THEN "no" ELSE quantum

KernelOperacion ==
    /\ Lee /\ operacion = Nada
    /\ operacion' = [op |-> Leido.que, falta |-> Falta[Leido.que]]
    /\ IF Leido.que = "FINALIZAR_PROCESO" /\ ConQuantum THEN Cancela ELSE UNCHANGED quantum
    /\ UNCHANGED <<aCpu, aInterrupt, enExec, listos, guardado, vBloqueo>>

KernelDatos ==
    /\ Lee /\ operacion # Nada
    /\ \/ /\ Espera = "datos"
          /\ Sigue(IF Leido.que = "datos_fs" THEN <<"cde", "archivo">> ELSE <<"cde">>)
          /\ IF ConQuantum THEN Cancela ELSE UNCHANGED quantum
       \/ /\ Espera \in {"recurso", "archivo"}
          /\ Sigue(Tail(operacion.falta))
          /\ UNCHANGED quantum
    /\ UNCHANGED <<aCpu, aInterrupt, enExec, listos, guardado, vBloqueo>>

\* The process leaves the CPU, to run again or not.
Sale(vuelve) ==
    /\ enExec' = NULO
    /\ listos' = IF vuelve THEN listos \cup {enExec} ELSE listos

Contenido == LeeCde(Leido.cde)
Anota(c) == guardado' = [guardado EXCEPT ![enExec] = c]

(* An order to exec_blocked.  (The context of a process that will not run  *)
(* again is of no more use.)                                               *)
Bloquea(vuelve) ==
    /\ Sale(vuelve)
    /\ bloqueo' = [paso |-> "orden", p |-> enExec]
    /\ cde_interrumpido' = IF vuelve THEN Contenido ELSE Contexto(enExec)

\* leer_cde to cde_interrumpido, when exec_blocked has no use for the last one.
LeeContexto(espera) ==
    /\ Lee /\ operacion # Nada /\ Espera = espera
    /\ bloqueo.paso = "no"
    /\ Sigue(Tail(operacion.falta))

(* finalizar_proceso_success, and the hand-over to EXIT.                   *)
KernelFinaliza ==
    /\ LeeContexto("fin")
    /\ Sale(FALSE)
    /\ Anota(Contexto(enExec))
    /\ UNCHANGED <<aCpu, aInterrupt, quantum, vBloqueo>>

ContextoDe(op) == operacion.op = op /\ LeeContexto("cde")

\* exec_ready stores the context before it posts exec_libre.
KernelFinDeQuantum ==
    /\ ContextoDe("FIN_DE_QUANTUM")
    /\ Anota(Contenido)
    /\ Cancela
    /\ Sale(TRUE)
    /\ UNCHANGED <<aCpu, aInterrupt, vBloqueo>>

(* An interface that does not exist ends the process; if it has not left   *)
(* EXEC yet the CPU is asked to end it, and it stays in BLOCKED.           *)
KernelInterfaz ==
    /\ ContextoDe("INSTRUCCION_INTERFAZ")
    /\ \/ Bloquea(TRUE) /\ UNCHANGED aInterrupt
       \/ Bloquea(FALSE) /\ UNCHANGED aInterrupt
       \/ Bloquea(FALSE) /\ Interrumpe("exit")
    /\ UNCHANGED <<aCpu, guardado, quantum>>

(* A WAIT that is granted and a SIGNAL send the context back at once: no   *)
(* quantum begins and the one that runs is not cancelled.  WAIT, granted   *)
(* or not, stores the context in the PCB, SIGNAL does not.                 *)
KernelRecurso ==
    \/ /\ \/ ContextoDe("WAIT_RECURSO") /\ Anota(Contenido)
          \/ ContextoDe("SIGNAL_RECURSO") /\ UNCHANGED guardado
       /\ Envia(Contenido)
       /\ UNCHANGED <<aInterrupt, enExec, listos, quantum, vBloqueo>>
    \/ /\ ContextoDe("WAIT_RECURSO")
       /\ Anota(Contenido)
       /\ Bloquea(TRUE)
       /\ UNCHANGED <<aCpu, aInterrupt, quantum>>

(* INVALID_RESOURCE: the process is still in EXEC, so the CPU is asked to  *)
(* end it, and it is handed over to EXIT.                                  *)
KernelRecursoInvalido ==
    /\ ContextoDe("WAIT_RECURSO") \/ ContextoDe("SIGNAL_RECURSO")
    /\ Interrumpe("exit")
    /\ Sale(FALSE)
    /\ Anota(Contexto(enExec))
    /\ UNCHANGED <<aCpu, quantum, vBloqueo>>

(* An operation where it waits for a buffer, a buffer where it waits for   *)
(* an operation, or the context of a process that does not have the CPU:   *)
(* what it does from there on is not modelled.                             *)
KernelDesorden ==
    /\ SeSigue /\ aKernel # <<>> /\ ~Acepta
    /\ desorden' = TRUE
    /\ UNCHANGED <<programa, vCpu, aCpu, aKernel, aInterrupt, enExec, listos, guardado, vBloqueo, quantum,
                   operacion, finalizados, pisado, vHistoria>>

(* A context while exec_blocked has still to store another: it will store  *)
(* this one in the wrong PCB, or move the wrong PCB.                       *)
KernelPisado ==
    /\ SeSigue /\ aKernel # <<>> /\ Acepta
    /\ operacion # Nada /\ Espera \in {"cde", "fin"}
    /\ bloqueo.paso # "no"
    /\ pisado' = TRUE
    /\ UNCHANGED <<programa, vCpu, aCpu, aKernel, aInterrupt, enExec, listos, guardado, vBloqueo, quantum,
                   operacion, finalizados, desorden, vHistoria>>

Kernel ==
    \/ \E p \in Procesos : CortoDespacha(p)
    \/ QuantumEmpieza \/ QuantumVence \/ ConsolaFinaliza \/ ExecBlocked
    \/ KernelOperacion \/ KernelDatos \/ KernelFinaliza \/ KernelFinDeQuantum \/ KernelInterfaz
    \/ KernelRecurso \/ KernelRecursoInvalido \/ KernelDesorden \/ KernelPisado

Next == HiloInterrupt \/ HiloCiclo \/ Kernel

Spec == Init /\ [][Next]_vars

(* The threads of the CPU are never kept from running for ever; nothing is *)
(* assumed of the kernel nor of the console.                               *)
SpecJusta == Spec /\ WF_vars(HiloInterrupt) /\ WF_vars(HiloCiclo)

-----------------------------------------------------------------------------
Contextos ==
    [pid : Procesos, PC : Nat,
     registros : [Registros -> Int]]

EnAncho(rs) == \A r \in Registros : rs[r] \in 0..(Modulo(r) - 1)

(* Types: in particular every register fits in its width.                  *)
TypeOK ==
    /\ pcD \in {"recibe", "instruccion", "revisa", "revisa_exit"}
    /\ pcI \in {"mira", "espera", "recibe"}
    /\ cde = NULO \/ (cde \in Contextos /\ EnAncho(cde.registros))
    /\ EnAncho(registros)
    /\ salida_exit \in BOOLEAN
    /\ interrupcion \in [Banderas -> BOOLEAN]
    /\ s_exit \in 0..MaxSExit
    /\ Len(aInterrupt) <= MaxInterrup
    /\ Len(aCpu) <= 1
    /\ enExec \in Procesos \cup {NULO}
    /\ listos \subseteq Procesos \ {enExec}
    /\ guardado \in [Procesos -> Contextos]
    /\ cde_interrumpido \in Contextos \cup {NULO}
    /\ bloqueo \in [paso : {"no", "orden", "mueve", "guarda"}, p : Procesos \cup {NULO}]
    /\ quantum \in {"no", "por_crear", "corre"}
    /\ finalizados \in 0..MaxFinalizar

(* The conversation stays in step: as long as no context is overwritten    *)
(* before it was stored (pisado), the kernel always reads what it waits    *)
(* for, of the process it gave the CPU to, whatever the order in which     *)
(* quantum ends, requests to end a process, instructions that call the     *)
(* kernel and the statements of exec_blocked fall, late interrupts         *)
(* included.  The one exception is an interrupt that check_interrupt       *)
(* attends right after an instruction that wrote to the kernel already and *)
(* whose message its branch does not complete.                             *)
EnSintonia == desorden => choque

(* What one process raised never reaches the next: with nothing executing, *)
(* the four flags of the instructions are down.  (Those of the interrupts  *)
(* may be up: a late one is attended by whoever runs next.)                *)
BanderasBajas ==
    pcD = "recibe" /\ ~choque => \A b \in DeInstruccion : ~interrupcion[b]

(* Where the context of a process is: in the CPU, in a socket, in the      *)
(* global that exec_blocked has still to store, or in its PCB.             *)
Vuelven ==
    {LeeCde(aKernel[i].cde) : i \in {k \in DOMAIN aKernel : aKernel[k].que \in {"cde", "fin"}}}
Viajan == Vuelven \cup {LeeCde(aCpu[i]) : i \in DOMAIN aCpu}
EnViaje(p) == {c \in Viajan : c.pid = p}
Actual(p) ==
    IF pcD # "recibe" /\ cde.pid = p THEN cde
    ELSE IF EnViaje(p) # {} THEN CHOOSE c \in EnViaje(p) : TRUE
    ELSE IF bloqueo.p = p THEN cde_interrumpido
    ELSE guardado[p]

(* Being interrupted is transparent: a process that will run again sees    *)
(* its program counter and its registers change only by executing its next *)
(* instruction, however many times it leaves the CPU and comes back and    *)
(* whoever runs in between.  Besides the exceptions of EnSintonia (pisado  *)
(* and choque) there is one: a process that is dispatched after            *)
(* exec_blocked moved it and before it stored its context goes back to the *)
(* context of its dispatch before (atrasado).                              *)
Avanza(p) == pcD = "instruccion" /\ cde.pid = p /\ Actual(p)' = Ejecutado(Actual(p))
Vive(p) == p \in listos \cup {enExec}
ContextoIntacto ==
    [][choque' \/ atrasado' \/ pisado'
       \/ \A p \in Procesos : Vive(p)' => Actual(p)' = Actual(p) \/ Avanza(p)]_vars

(* An interrupt that arrives while a process executes takes a process off  *)
(* the CPU: the wait for s_exit never keeps the interrupt thread from it,  *)
(* even if the program never calls the kernel.                             *)
InterrupcionDesaloja == (aInterrupt # <<>> /\ pcD # "recibe") ~> (pcD = "recibe")

=============================================================================
