# Verification of the PentaCoders operating-system simulator

Four C programs that talk over TCP simulate an operating system: `kernel`
(process scheduling), `cpu` (instruction cycle), `memoria` (paged memory) and
any number of `entradasalida` (I/O interfaces). This directory holds TLA+
modules that model them, TLC configurations that check the models on small
instances, and proofs, checked by TLAPS, of what holds for every instance.

Definitions keep the names of the C functions they translate. `PROJECT.json`
gives for each one the file and lines it stands for.

## The system

### Components, their state and operations

| component | state | operations |
|---|---|---|
| **kernel, planificadores** (`largoPlazo.c`, `cortoPlazo.c`, `kernel.c`) | six queues (`colaEstado`: list, mutex, counter), control semaphores (`GRADO_MULTIPROGRAMACION`, `b_exec_libre`, `b_transicion_*`, `contador_readys`, `b_reanudar_*`), `habilitar_planificadores`, `cde_interrumpido`, `timer`, `vieneDeIO`, `pid_a_desbloquear` | one thread per transition of the state diagram; the dispatch thread; a thread per quantum |
| **kernel, consola** (`menu.c`, `operaciones.c`) | `PID_GLOBAL`, `pid_a_finalizar`, `valor_grado_a_modificar` | start and end a process, start and stop planning, change the degree |
| **kernel, recursos** (`kernel.c`, `operaciones.c`) | instances and waiting queue of each resource, instances held by each PCB | WAIT, SIGNAL, release on exit |
| **kernel, interfaces** (`kernel.c`) | `lista_interfaces`, `procesos_espera` and `contador_espera` of each | connect, request, a thread per interface that serves its list |
| **cpu, ciclo** (`cpu.c`, `cicloinstruccion.c`) | `cde_recibido`, `registros`, `salida_exit`, `interrupcion_rr/_io/_fs/_exit`, `desalojo_*`, `s_exit` | fetch, execute, `check_interrupt`; a thread that receives interrupts |
| **cpu, registros** (`cicloinstruccion.c`) | registers of 8 and 32 bits | SET, SUM, SUB, JNZ, MOV_IN, MOV_OUT, COPY_STRING |
| **cpu, MMU y TLB** (`mmu.c`, `tlb.c`) | `entradas_tlb` | translate, look up, add, replace (FIFO, LRU) |
| **memoria, paginacion** (`memoria.c`) | `array_bitmap`, `lista_global_tablas`, `tabla_actual` | RESIZE, PEDIDO_FRAME, create and destroy a table |
| **memoria, contextos** (`memoria.c`) | `lista_contextos`, `pid_a_buscar_o_eliminar` | next instruction, create and remove a context |
| **memoria, espacio de usuario** (`memoria.c`, `espacio_usuario.c`) | `espacio_usuario`, `CLIENTE_ESPACIO_USUARIO` | read and write, with a check of the owner of the frame |
| **entradasalida, GENERICA/STDIN/STDOUT** | none between requests | one operation per request |
| **entradasalida, DialFS** (`fileSystem.c`) | bitmap, blocks, metadata files, `archivos_fs` | create, delete, truncate (with compaction), read, write |
| **utils** | none | sockets, serialisation |

### How they interact

The kernel sends contexts to the CPU over the *dispatch* socket and the CPU
returns them over the same one with the reason; quantum interrupts go over the
*interrupt* socket. The CPU asks memoria for instructions, frames, resizes and
accesses; the kernel tells memoria of processes that start and end; the
interfaces get work from the kernel and access memoria's user space. Inside
the kernel eleven threads share the queues (each list under its mutex), the
semaphores, and a handful of plain globals that nothing protects. Inside
memoria there is a thread for the CPU, one for the kernel and one per
interface, and no lock at all.

### What is hard, and what makes each component correct

* **Scheduling** is six threads that pass a PCB from hand to hand. It must be
  in exactly one place; a thread that was let through a counter must find a
  PCB; the degree and the right to use the CPU must be neither lost nor made
  up; a PCB must carry its own, latest context; the diagram's arrows are the
  only moves; and every process must end. Stopping and starting planning may
  happen between any two statements.
* **The instruction cycle** is two threads that share flags. The quantum and
  the request to end a process arrive whenever they like: during EXIT, during
  a call to the kernel, or when their process has already left. What the CPU
  writes must stay in step with what the kernel reads, and being interrupted
  must be transparent to the process, though the kernel gives the CPU away
  before it stored the context of the process that left it.
* **Paging** is two threads over one bitmap. A frame must belong to one page;
  a frame in use must not be offered; a size that was granted must fit; a
  frame must not stay taken for ever.
* **Resources** must be conserved and given to the process that waits, also
  when the next process runs before it has left EXEC, and when the console ends
  a process at the same time: console and dispatch thread look for PCBs and for
  resources by two globals, `pid_a_finalizar` and `nombre_recurso_recibido`.
* **Accesses to memory** go through a TLB that nobody invalidates, page tables
  that change and a check of the first byte only. Each process must see a
  memory of its own.
* **The interfaces** connect and close when they like. Each request must be in
  one place, with the interface it named, and be concluded.
* **DialFS** must keep bitmap, metadata and list in agreement, files disjoint
  and contents intact across compaction.

Every hazard found in the code is in `PROJECT.json` ("hazards") at its line,
with the properties aimed at it, or the reason why none is.

## Modules

| module | contents |
|---|---|
| `EstadosProceso` | abstract specification: the process-state diagram and the degree |
| `Planificador` | the kernel's schedulers with the CPU and the interfaces they drive |
| `PlanificadorProofs` | proofs of its typing, of the backing of its counters, of custody, of the degree, of the diagram (the refinement), of VRR's choice, of the right to use the CPU and, under FIFO with degree 1, of whose context each PCB has |
| `CicloCpu` | the CPU's two threads, the registers, and the conversation with the kernel |
| `CicloCpuProofs` | proofs of its typing, that no process inherits a flag, that CPU and kernel stay in step, and that contexts stay intact |
| `Recursos` | WAIT, SIGNAL, the end of a process and the degree, in the kernel |
| `RecursosProofs` | proofs of its typing, of the balance of instances, of the wake-ups and their order, of the degree and of exclusion |
| `InterfacesIO` | the kernel's threads for interfaces, and the modules at the other end |
| `InterfacesProofs` | proofs of its five safety properties |
| `MemoriaLogica` | abstract specification: the memory a process is promised |
| `AccesoMemoria` | MMU, TLB, tables, user space, STDIN and STDOUT |
| `AccesoProofs` | proofs of its typing, of the TLB's coherence, and that it implements `MemoriaLogica` |
| `Paginacion` | memoria's paging, with its two threads |
| `PaginacionProofs` | proofs of its four safety properties |
| `DialFS` | the file system of a DIALFS interface |
| `DialFSProofs` | proofs of its typing, and of what each operation does to a sound disk |
| `MC...` | symmetry, constraints, programs and instances for TLC |

A definition that follows the comment "Mutation" is a wrong variant of the
definition after it; nothing in the specifications uses it. `PROJECT.json`
pairs each with a property that must fail when it takes the right one's place.

Where components meet, each module leaves the other side open and lets it do
anything it may: in `CicloCpu` a process that left the CPU is dispatched again
at any time; in `Planificador` an interface concludes at any time; in
`AccesoMemoria` the other programs run between any two requests; in `Recursos`
the schedulers move at any time.

### Planificador

*State.* `colas` and `contador` are the list and the counter of each
`colaEstado`; `sem` the control semaphores; `reanudar` the `b_reanudar_*`;
`cde[p]` is the context the PCB `p` points to. Each of the six threads has a
statement `pc`, the PCB in its hand `mano` (NULO is NULL) and the transition it
is doing, `viaje`. The dispatch socket is two sequences, `aCpu` and `aKernel`;
the interrupt socket holds one kind of message and is a number.

*Steps.* A `sem_wait` is one step, taken with the read that follows it when
there is no other waiter, and a `sem_post` goes with the step before it; each
other access to something shared is a step of its own. In particular
`evaluar_planificacion` reads the flag in one step and waits for the semaphore
in another, and `transicion_generica` lets other threads in between the
counter, the removal and the append. The list operations are atomic: they are
under the queue's mutex.

*Abstractions.* Programs are nondeterministic: an instruction computes, asks
an interface for I/O, or exits. The PC counts I/O instructions, which is all
that is needed to tell an old context from a new one. A NULL that is
dereferenced sets `caido`, and nothing happens afterwards. `contador_readys`
is only counted under VRR, where it is awaited: under the others it grows
unread. `pthread_cancel` before the first quantum thread exists faults
(identifier 0) and on one that has ended does nothing. With a destroyed VRR
timer either outcome is allowed. The CPU's interrupt thread starts waiting for
a message, since it looks at `salida_exit` before any process ran. The
double free that follows two PCBs sharing a context is not modelled.

*Not in it:* WAIT and SIGNAL, and the console's FINALIZAR_PROCESO and
MULTIPROGRAMACION (`Recursos`); interfaces that connect late or are missing
(`InterfacesIO`); SOLICITUD_EXIT (`CicloCpu`). `procesos_espera` is used by two
threads without a mutex; the model takes the list calls as atomic.

*Fairness* (`SpecJusta`, used for `TodoProcesoTermina`): each thread is
a pthread of its own that the host schedules, hence weak fairness per thread;
programs are finite lists of instructions that end in EXIT, hence strong
fairness of `CpuExit`, without which a program could compute for ever; the
operator who starts processes starts planning, hence weak fairness of
`IniciarPlanificacion`. Nothing is assumed of the quantum or of
`DETENER_PLANIFICACION`.

### EstadosProceso, and the refinement

`EstadosProceso` knows one state per process and the six arrows, and bounds
the admitted processes by the degree. `Planificador` implements it with the
mapping `EstadoDe`: a PCB in a list has that list's state, and one in a
thread's hand the state it is leaving. Then removing a PCB is a stutter and
appending it is the arrow. `CumpleDiagrama` says so of every step taken while
no NULL was put in a queue (`SinNulos`): with I/O and quanta a removal may find
nobody, and from then on the degree is not the code's to keep (see "What does
not hold"). It is checked in `planificador_rr`, where both processes are
admitted at once and may be preempted, and in `planificador_grado1`, where the
degree binds and there is I/O; in both of them no NULL ever appears. It is
proved for all.

### CicloCpu

*State.* The CPU's `cde_recibido`, `registros` (a pointer into it in the code),
`salida_exit`, the semaphore `s_exit` and the six flags (`interrupcion`), with
a statement for each of its two threads; the three sockets as sequences; in the
kernel, the process that has the CPU, the context of each PCB, the global
`cde_interrumpido`, what `transicion_exec_blocked` does next and with which PCB
(`bloqueo`), the quantum thread, and what `levantar_CPU_Dispatch` is in the
middle of reading (`operacion`).

*Steps.* `execute` with what it writes to the kernel is one step, and each test
of `check_interrupt` another, so an interrupt may arrive between them. An
instruction that calls the kernel writes the operation and its data; the
context that completes the message is written by whichever branch of
`check_interrupt` is taken. The kernel reads one message at a time, as its code
does; when it reads something else than what it waits for, `desorden` is set
and it stops there: what it would do with a wrong buffer is not modelled.
`transicion_exec_blocked` is three steps (`ExecBlocked`): it posts
`b_exec_libre`, moves the PCB, and stores what `cde_interrumpido` is by then.
From the first on another process may be dispatched and execute; from the
second on the blocked one itself may, with the context its PCB still has.

*A context overwritten.* When that other process leaves the CPU before the
third step, the dispatch thread overwrites `cde_interrumpido` (`kernel.c:469`
to `534`): the context of the first is lost, and two PCBs get the one of the
second. The model records this in `pisado` and the kernel goes no further
(`KernelPisado`). From there on a process that is dispatched is another than its
PCB says, and `transicion_exec_ready`, which takes the head of EXEC and frees
the context it has (`cortoPlazo.c:137`), may free under one PCB what the other
uses. So the properties speak of what comes before it: that the global is
overwritten only in this way, and that until then nothing is wrong but what
they except.

*The one way out of step* before that. `EnSintonia` says that it happens only
after a `choque`: `check_interrupt` attends the quantum right after a WAIT, a SIGNAL, a
RESIZE that failed or an EXIT, or a request to end right after any call. Then
FIN_DE_QUANTUM or FINALIZAR_PROCESO falls where the kernel waits for a context,
or a second FINALIZAR_PROCESO follows the first. It does happen in the model
(`KernelDesorden`), and is the code's; everything else, late interrupts
included, is in step. "In step" includes that a context the kernel reads is of
the process it gave the CPU to.

*What an interruption may change.* `ContextoIntacto` says that a process gets
back the context it left with, wherever that is meanwhile: in a socket, in
`cde_interrumpido`, or in its PCB. Besides `choque` and `pisado` it has one
exception, `atrasado`: a process dispatched between the second and the third
step of `ExecBlocked` gets the context of its PCB, which is the one of its
dispatch before, or, if a WAIT blocked it, the same one that is about to be
stored (`kernel.c:1067`), and then nothing is wrong.
`choque` is excepted because the proof follows the conversation up to there: in
`CicloCpu.cfg` TLC finds no context lost without that exception either, as the
kernel is not followed past the first thing it reads out of step.

*As the code has it:* a quantum or SOLICITUD_EXIT that arrives late is attended
by whoever runs next, which loses its turn or its life; a WAIT that blocks does
not cancel the quantum; a granted WAIT and a SIGNAL send the context back
without a new quantum; JNZ writes the register it tests and does not jump.

*Not in it:* which PCB a transition takes when two are in EXEC (`Recursos`,
`Planificador`); the context of a process that will not be dispatched again,
which is taken to be the initial one.

*Bounds.* Two tokens in `s_exit`, one unread interrupt, one FINALIZAR_PROCESO
of the console. `s_exit` gets a unit per dispatch and loses one only when the
interrupt thread finds nobody executing, so it may grow in the code; a value of
two already lets the thread through twice without a dispatch. The bound is a
guard of `Despacho`; `InterrupcionDesaloja` speaks of one stay on the CPU,
during which nothing is dispatched, and a larger value could only let the
interrupt thread through more often. Registers have 8 and 16
bits in the run (16 for 32, which TLC's integers do not hold).

*Fairness* (`InterrupcionDesaloja`): weak fairness of each of the two threads of
the CPU, which nothing ever keeps from running; none of the kernel.

### Recursos

*State.* The queues and semaphores of the kernel, and for each resource its
instances, its waiting queue and that queue's counter; `asignados` is
`recursosAsignados`. `pid_a_finalizar` is the global by which every search of a
PCB is made, `nombre_recurso_recibido` the one by which every search of a
resource, or of an entry of `recursosAsignados`, is. The dispatch thread and the
console have a statement each, with their locals (`hilo`).

*Steps.* Receiving the name of a resource, finding the resource by it, reading
the instances, searching the PCB and its entry, taking the instance (and filing
it, under the entry found or the name that is in the global by then:
`Anotado`) and queueing are steps of their own; so are the three of
`asignar_recurso` (`AsignaNombre`, `AsignaBusca`, `AsignaToma`), and every loop
of `liberar_recursos`.
The schedulers are one step per transition, their interleavings being in
`Planificador`, but for `transicion_exec_blocked`, whose steps the other threads
tell apart: it posts `b_exec_libre` (`ExecBlockedLibera`), moves the head of
EXEC (`ExecBlockedMueve`), and stores the context (`ExecBlockedGuarda`). In
between the next process may be in EXEC behind the one that waits, and compute.

*Where the model stops.* What follows undefined behaviour (a NULL, a freed list,
another PCB than the one wanted) is not followed; `falla` names it, and the
properties speak of behaviours without it. The same is done when the next
process leaves the CPU, for whatever reason, while `transicion_exec_blocked` has
still to store the context of the one before (`Pisado`): that one is lost, and
two PCBs have the other. If it was still in EXEC, the transition of the other
then takes it, the head, in its place: a quantum sends the one that must wait to
READY with a context that is not its own and that `transicion_exec_ready` frees
under the other PCB, an EXIT eliminates the wrong one. So exclusion, the order of
waking and the end of every process are promised, and proved or checked, only
until a context is lost: in the code they may fail after it.

*As the code has it:* SIGNAL gives the instance back but does not remove it
from `recursosAsignados`, so the end of the process gives it back again
(`InstanciasContadas` counts one more per SIGNAL); the hand-over at the end of
a process leaves its entry in the waiting queue; SIGNAL names nobody, and the
head of BLOCK is woken; a process ended from the console in READY or BLOCK
keeps its unit of the degree and one ended in NEW makes one up (`GradoContado`:
a command moves it by one at most); `MULTIPROGRAMACION` compares with the
configured degree.

*What the properties assume.* `NadieOlvidado`, `ExclusionSinSignal` and
`OrdenDeDespertar` speak of runs without FINALIZAR_PROCESO, the first of programs
that ask for each resource once, and `GradoContado` of programs whose resources
exist. `InstanciasContadas` is of each resource in those runs; with
FINALIZAR_PROCESO the console's `asignar_recurso` writes the name that a WAIT is
about to read, and only the sum over all resources is kept (of programs whose
resources exist: a name of another thing may be filed too). Without these they
are false, each in a way of its own: "What does not hold".

*Fairness* (`TodosTerminan`): each scheduler and the dispatch thread is a
pthread of its own; scripts are finite; the operator starts the processes.

### InterfacesIO

*State.* For each module where its loop is, and the messages each way; for the
two threads of the kernel that write them, `nombre_IO`, `info_io_conectada` and
`cde_interrumpido`; for each interface its list and its semaphore; for each
thread `interfaz_conectada` the interface it serves and the request it has. An
interface and its thread are named by the module whose connection created them.

*Steps.* Every access to a global, a list or a semaphore is one. A name that
was freed may be equal to any other (`Basura`). A list call is atomic. Taking
from an empty list, or writing to a socket that was closed, ends the kernel
(`caido`).

*As the code has it:* a refused connection creates a thread all the same; an
interface is never removed from the list, so one that closed cannot come back;
a module that closes in the middle of an operation leaves its process blocked;
a file-system request carries the pid of the last context that came back.

*Fairness.* Threads that can go on do; a module that was sent a request serves
it, since its operations sleep and end. Nobody is obliged to close, connect or
ask.

### AccesoMemoria, and the memory of a process

*State.* The tables, user space as an array of bytes, the TLB in the order of
its list, what the CPU has read and where a copy is writing, and what each
process asked of an interface.

*Steps.* A request to memoria is one step, so the parts of a copy or of a STDIN
that crosses a page are steps, and other processes may run, end, or be served
in between. memoria answers one request at a time: its threads are in
`Paginacion`.

*The promise.* `MemoriaLogica` is an array of bytes per process. `Vista` maps
physical memory to it through the tables, and `CadaUnoSuMemoria` says that the
code implements it and that every step is the step of the same process at the
same logical address (`Paso`). The exceptions it makes are the code's: entries
of the TLB are never removed, so a process that shrank may meet frames it does
not own any more, or its own in another order (memoria refuses the first, and
the second stays within its own pages); STDIN continues in the next *frame*,
which may be its own but another page; a read past the page, or over a zero
byte, may return anything; writing out of the array is answered OK and does
nothing.

*Not in it:* midnight, when the time LRU keeps (seconds of the day) starts
again; two references to the TLB within a millisecond: each comes strictly
later, as RETARDO_RESPUESTA makes it. A process that ended and one whose I/O is
still to come may use a freed list: memoria dies or finds it empty. The address
-1 is page 0 for the check; for the owner of frame 0 memoria dies.

### Paginacion

*State.* `bit` is `array_bitmap`; `paginas[p]` the list of the table of `p`,
each page its frame; `lista` the tables in order of creation, from which none
is ever removed; `destruida` the tables whose list was freed; `tabla_actual`
the global cursor. Each thread has a statement, the pid it looks for and the
table it found.

*Steps.* Writing the cursor, comparing through it and returning it are three
steps, since the default build (`CDEBUG` in `settings.mk`) does not optimise
and each is an access to memory. The bitmap is read and written a bit at a
time. A page is added and its frame marked in two steps. The answer to RESIZE
is a step before the assignment. A list call is atomic, and one on a list that
was destroyed, or that the other thread is working on, may kill memoria or
work as if nothing had happened (`PuedeCaer`).

*Environment.* The CPU executes one process at a time, makes one request at a
time, and on `OUT_OF_MEMORY` asks the kernel to end the process; the kernel
ends a process once, when it exits or from the console while it is not being
executed.

*As the code has it:* growing rounds pages up and shrinking rounds them down;
pages are assigned even after `OUT_OF_MEMORY`; without a table
`reducir_proceso` and `ampliar_proceso` never answer the CPU. The page count is
computed in floating point in the code and in integers here; they agree below
2^24 bytes.

### DialFS

*State.* `bit` is the bitmap, `bloques` the blocks (each: who wrote it last),
`meta` the metadata files, `archivos_fs` the list in memory. The first three
are files, two of them mapped with MAP_SHARED, and outlive the process.

*Steps.* The interface serves one request at a time, so an operation is one
step. `Compactar` is the loop of `compactar` as a fold over the sorted list;
the order of entries with the same first block is left open. `Reiniciar` stops
and starts the interface between two requests, with the list in any order.

*As the code has it,* and it is far from what one would expect:

* `espacio_disponible_es_contiguo` starts its count at 1, so it is true when
  exactly one of the blocks to add is taken. An empty file's first block is
  its own, and it works; a file with something in it grows in place only over
  another file's block (`PisaUnBloque`), and is compacted when there is room.
* The same loop reads the bitmap past the last block and finds it free.
* `reducir_archivo` subtracts blocks from bytes as `uint32_t`, and then frees
  every block from the file's last down to 0, whoever they belong to, or none.
* `bloque_libre` returns -1 on a full disk and the file is created with it;
  what is then done to block -1 is outside the maps (`caido`).
* Creating a file that exists leaves two entries in the list.

`LosDemasRespetan` says that these are all: from a sound disk (`Sano`) no other
operation makes it unsound. This, that exactly one block is taken from another
file, and that a compaction loses nothing, are proved for every disk
(`DialFSProofs`). Programs are taken to delete, truncate and write
files that exist (otherwise `config_get_int_value` gets NULL), with names that
end in `.txt`, as in all the scripts. A write past the last block of the disk
falls in the rest of the mapped page and is dropped.

## Runs

Bounds: two processes (or pids), because every hazard found is between two
threads working for two processes, and three for one resource, where the order
of those who wait matters; one I/O instruction per process (`MaxIO`), enough
for a context to be old; one quantum that may expire and one DETENER where they
are asked for. `CHECK_DEADLOCK` is off everywhere because a behaviour ends when
every process has exited, or the kernel, memoria or an interface died.

| run | instance | shows |
|---|---|---|
| `planificador_vrr` | VRR, degree 2, I/O | type, custody, backing of counters, one CPU token, the chosen queue always has a PCB |
| `planificador_grado1` | FIFO, degree 1, I/O, fairness | contexts stay with their PCB, no CPU during I/O, every process ends, the diagram with its degree |
| `planificador_rr` | RR, degree 2, one quantum, one DETENER | degree and diagram with late quanta and stops at any statement |
| `ciclo_cpu` | two processes, three programs, RR, fairness | in step but for `choque`, no inherited flags, contexts intact but for `choque`, `atrasado` and `pisado`, interrupts take effect |
| `recursos` | two processes, two resources, six programs, one FINALIZAR_PROCESO, one MULTIPROGRAMACION | instances, wake-ups, exclusion, degree |
| `recursos_tres` | three processes, one resource, fairness | order of waking, every process ends |
| `interfaces` | two modules (one DIALFS), two names, two processes, one closing | lists and semaphores agree, one place per request, dialogue, right interface |
| `interfaces_vivas` | the same with one name, fairness | requests are concluded |
| `acceso_memoria` | two pids, two frames of 2 bytes, TLB of 2, LRU, one I/O | each process has its memory; the TLB agrees with the tables |
| `paginacion` | two pids, three frames of 2 bytes, sizes 0, 1, 3, 4, 7 | frames are exclusive and marked, a granted size fits |
| `dialfs` | four blocks, three files | compaction conserves, and which operations do not respect the disk |
| `interfaz_sin_hilo` | violation | an interface of the list is served by nobody |

*Why these are enough.* In `paginacion`, three frames and sizes of up to four
pages make `OUT_OF_MEMORY`, exact fit and shrinking to nothing all happen; a
page size of 2 makes both roundings show. In `dialfs`, four blocks and files of
0, 1 or 5 bytes fill the disk, fragment it and compact two files around a
third. In `acceso_memoria`, two frames pass from one process to the other, and
a TLB of two entries is full with one process's pages and replaces them. The
programs of `ciclo_cpu` are one that computes for ever, and so is only left by
an interrupt, and two that overflow a register and call the kernel in every
way. Two processes are what a context overwritten or stored late needs: one that
`transicion_exec_blocked` is about, and the one that runs meanwhile. Those of `recursos` are the
shapes of the scripts LOCK_A to LOCK_D, and shorter ones that keep what they
took, wait twice, or name a resource that does not exist: crossed waits, and so
a deadlock of the processes themselves, are among them (`TodosTerminan` is about
programs of one resource that give back what they take).

`dialfs` has a CONSTRAINT (`Cota` of `MCDialFS`): its action properties speak
of sound disks, so an unsound one is followed further only while nothing was
written and no name is repeated, which is enough for the accesses to block -1.
`ciclo_cpu` has one too (`Reparto` of `MCCicloCpu`), which chooses among initial
states: the program of each process never changes, so that it cuts no behaviour
short. One process waits, signals and asks for I/O, and the other has one of the
other two programs.

`planificador_rr` has no I/O, so that its states fit the time; `GradoConservado`
and `CumpleDiagrama` are proved with it. `CpuExclusiva` is stated, and proved, until a quantum
expires: the last quantum of a process that exits breaks it. `PidPropio` and `SinCpuDuranteIO`
are checked, and proved, with FIFO and degree 1 only, for the reason of the next section.

`EnSintonia`, `ContextoIntacto`, `ExclusionSinSignal`, `OrdenDeDespertar` and
`TodosTerminan` are checked with `transicion_exec_blocked` in its three
statements, up to the moment a context is overwritten: in all three runs that
moment is reached (`KernelPisado`, `Pisado`), and so are the states before it
with two processes in EXEC.

### The violation

`interfaz_sin_hilo`: two interfaces connect, a process asks for the first one
before the second's thread has started, and that thread adopts the first.
Requests to the second wait for ever. The comment at `kernel.c:652` says that
the post starts "hilo interfaz_conectada", the thread of that interface.

### What does not hold

These definitions state what one expects; TLC refutes them, and each shows
something of the code. They have no run of their own; with the cfg named, and
the definition as its INVARIANT (or PROPERTY, for `TodoHiloReanuda`), TLC gives
the counterexample.

| definition | cfg | what happens |
|---|---|---|
| `DespachoAlDia` (`Planificador`) | `PlanificadorGrado1.cfg` | a PCB is appended to BLOCK (`cortoPlazo.c:163`) before its returned context is stored in it; its I/O may end in between, and an old context is dispatched |
| `PidPropio` with degree 2 | `PlanificadorGrado1.cfg`, `Grado = 2` | `b_exec_libre` is posted before the PCB takes `cde_interrumpido`, and the next process to leave overwrites it |
| `TodoHiloReanuda` (`Planificador`) | `PlanificadorGrado1.cfg`, one process, `MaxPausas = 1` | `corto_plazo` and `transicion_blocked_ready` wait on one semaphore (`cortoPlazo.c:224`), which is posted once |
| `ExecLibreBinario` (`Planificador`) | `PlanificadorRR.cfg`, `MaxIO = 1`, `MaxPausas = 0` | a quantum that expires while its process leaves is reported after it, and `b_exec_libre`, declared under "Binarios", reaches 2 |
| `ContextoIntacto` without `atrasado'` (`CicloCpu`) | `CicloCpu.cfg` | the same race as `DespachoAlDia`, seen by the program: a process whose I/O ends before `cortoPlazo.c:164` executes again what it had executed |
| `~pisado` (`CicloCpu`), `falla # "pisado"` (`Recursos`) | `CicloCpu.cfg`, `Recursos.cfg` | the same race as `PidPropio` with degree 2: a second process leaves the CPU before `cortoPlazo.c:164` stored the context of the first, which is lost |
| `BuscaMiTabla` (`Paginacion`) | `Paginacion.cfg` | `tabla_actual` is moved by the other thread, and a search returns another process's table |
| `OcupadoSoloEnTabla` (`Paginacion`) | `Paginacion.cfg` | RESIZE is answered before the pages are assigned; the process ends in between, and a frame stays taken by no page |

Some properties hold only under a condition. The first four were brought to
light by their proofs: an induction step failed, and TLC then found a behaviour
that breaks the property without it, on instances larger than those of the runs.
The last two are of the globals that two threads share.

| without | of | instance | what happens |
|---|---|---|---|
| `SinNulos` | `GradoConservado`, `CumpleDiagrama` | RR, three processes, two interfaces, degree 3, one I/O and one quantum each | `blocked_ready` searches a pid that its token was not for, finds nobody, and appends NULL to READY; `corto_plazo` takes it to EXEC; the doubled token of a late quantum lets `exit_largo` move that NULL to EXIT and post GRADO for it, before anybody dereferences it |
| `SinReentrada` | `NadieOlvidado` | four processes, two resources | B executes WAIT RB twice and blocks first, A waits for RA and C for RB; D signals RA, which takes A's entry out of its queue and wakes B, the head of BLOCK. B's entry now stands for A, and the end of B removes it: until `asignar_recurso` posts for C, two are in BLOCK and one place is left. With eight processes the inequality stays broken and one is never woken |
| `SinConsola` | `ExclusionSinSignal` | three processes, one resource, one FINALIZAR_PROCESO | the process in EXEC is taken from there by the console, `exec_libre` is posted for it and again for its own end, two processes run, and the one whose WAIT has to queue is left in READY while `t_exec_blocked` takes the other: both get past their WAIT |
| `RecursosValidos` | `GradoContado` | three processes, degree 3, one FINALIZAR_PROCESO | the console takes the process that runs out of EXEC; the ends that the dispatch thread gives, because of resources that do not exist, find their PCBs in READY or BLOCK from then on, and lose a unit each |
| `SinConsola` | each resource in `InstanciasContadas` | `Recursos.cfg` | the console ends the process that has RA, while the other, which waited for it and was taken off BLOCK, runs: `asignar_recurso` writes RA in `nombre_recurso_recibido` (`kernel.c:1097`), the dispatch thread receives WAIT RB and writes RB (`kernel.c:512`), and the instance of RA is filed as one of RB (`kernel.c:1104`). Or the other way round, the console's name in the WAIT of the dispatch thread (`kernel.c:1076`) |
| no context lost | `ExclusionSinSignal`, `OrdenDeDespertar`, `TodosTerminan` | two or three processes, one resource | the process whose WAIT has to queue is still in EXEC (`cortoPlazo.c:161`), the holder is dispatched behind it and its quantum ends: `transicion_exec_ready` sends the first to READY, and `transicion_exec_blocked` the holder to BLOCK. Seen in the code and named by `falla`; the models stop there, so no run shows what follows |

## Proofs

All theorems hold for every value of the constants that satisfies the named
assumptions of the module. These say that NULO, -1 and the like are not values
of the program's, that bounds and sizes are natural numbers, and of sets:
`DuenosAssumption` of
`InterfacesIO` that processes and modules are different things;
`PedidosAssumption` of `AccesoMemoria` that the addresses programs use are
finitely many, and `TamaniosAssumption` of `DialFS` that so are the sizes;
`FinitosAssumption` and `ProgramasAssumption` of `Recursos` that
processes and resources are, and that a program is a sequence;
`ProgramasAssumption` of `CicloCpu` that a program is a sequence of
instructions, and `PotenciasAssumption` that the two powers of 2 that are the
widths of its registers are positive, since the provers know nothing of powers.
The proofs about `Planificador` need no more than that.

* `PlanificadorProofs`: `TiposDelPlanificador` (`TypeOK`) and
  `ContadorSiempreRespaldado` (`ContadorRespaldado`). `TypeOK` is inductive by
  itself and is proved group by group, the groups being those of the UNCHANGED
  tuples. `ContadorRespaldado` is inductive together with it: for every queue,
  the counter plus the threads between `sem_wait(contador)` and `list_remove`
  (`Reserva`) never exceed the length of the list. `EsperarContador` turns a
  unit of the counter into a reservation, `Sacar` ends one reservation and
  removes at most one PCB, an append adds a PCB and a unit together, and every
  other step neither touches a list nor makes a reservation
  (`SinReservasNuevas`). It does not depend on the algorithm, the degree, the
  pauses or on which thread empties a queue. It says that a thread that removes
  from the head finds a PCB, not that the search by pid of `blocked_ready`
  does.
  The places of the PCBs: `UnaSolaCustodiaSiempre`, `GradoSiempreConservado`,
  `ElPlanificadorCumpleElDiagrama`, `VrrNuncaEsperaEnVanoSiempre`. One lemma
  sorts the steps of `Planificador` by what they do to the places of the PCBs
  (`FormaDelPaso`): leave them (`Quieta`), take one entry out of a list
  (`Saca`), append what a thread holds (`Agrega`), or start a process. The
  other lemmas are about those four forms. `Custodia` says of each pair of
  places (two lists, two positions of one, a list and a hand, two hands) that a
  PCB is not in both; only pairs make it inductive, since an append moves a PCB
  from a hand to a list, and a removal back. `GradoInv` adds the set of admitted
  processes, `Dentro`, to the units of GRADO: `Saca` does not change it, because
  a PCB in a hand counts where it comes from, and `Agrega` changes it by one
  process when the arrow goes from NEW or to EXIT. It is where `SinNulos` is
  needed: a NULL appended to EXIT gives back a unit of nobody. The refinement
  follows: by `Custodia` the mapping `EstadoDe` has one value (`Unico`), so
  `Saca` is a stutter and `Agrega` is one arrow of `EstadosProceso`, whose guard
  for `Admitir` comes from `GradoInv`. `VrrInv` counts the units of
  `contador_readys` against those of the two ready queues, with the threads
  that stopped between the two posts (`Anunciados`).
  The CPU: `LaCpuEsDeUno` (`CpuExclusiva`), for every algorithm, degree and
  number of quanta, until one of them expires. `FichaUnica` splits the tokens
  into those of the kernel (`FichasDelKernel`) and those of the CPU and of what
  it wrote (`FichasDeLaCpu`), and is one of them only together with what is in
  the socket: nothing (`Callada`), the request of an I/O with the context still
  to come (`Pidiendo`) or behind it (`Pedido`), or the end of the process
  (`Terminado`). Without that, an answer that the dispatch thread reads could be
  the second one to the same context. Then a step moves the token within one
  side, or from one side to the other: `CortoEnviar` to the CPU,
  `HiloDispatch` back to the transition that empties EXEC, and that one to
  `exec_libre`.
  FIFO with degree 1: `CadaUnoSuContexto` (`PidPropio`),
  `NadieEnLaCpuDuranteSuIO` (`SinCpuDuranteIO`) and `NuncaCaeEnSerie` (the
  kernel never writes through NULL), for every set of processes and interfaces
  and any pauses. These two constants are hypotheses of the theorems and not
  assumptions of the module: with degree 2 `PidPropio` is false ("What does not
  hold"), and under RR or VRR an expired quantum doubles the token of the CPU.
  The invariant `SerieInv` says that the only unit of GRADO is a turn, which
  goes through twelve stages (`Etapas`), and for a stage `e` and the process
  `a` that has the turn it fixes every semaphore, thread, channel, request and
  queue (`Serie(e, a)`). A step keeps the stage or goes on to the next, so each
  guard tells the stage and with it everything else. Two threads may be late:
  `transicion_exec_blocked` is still about to store the context when its PCB has
  been moved, dispatched and even retired, and `transicion_blocked_ready` is
  still about to drop `vieneDeIO`. `SerieContextos` says that the first then holds
  a PCB in EXIT, or the one whose context is in `cde_interrumpido`; the second
  does no harm, since BLOCK has one PCB whether it is searched or not.
  `ContadorRespaldado` gives the PCB in NEW and in BLOCK, and `Custodia` that the
  one taken from NEW is not in EXIT.
* `CicloCpuProofs`: `NadieHeredaBanderas` (`BanderasBajas`),
  `LaConversacionSigueEnSintonia` (`EnSintonia`), `ElContextoQuedaIntacto`
  (`ContextoIntacto`). `BanderasBajas` speaks of the moment when nothing
  executes; to be inductive it has to say what is up while `check_interrupt`
  runs. `IInv` is the typing plus `Limpia`: unless an interrupt collided
  (`choque`), every flag of an instruction is down where one begins, and after
  it only one may be up, of the kind of what it wrote to the kernel
  (`escribio`). `EnSintonia` needs the whole conversation, `EnOrden`. A process
  leaves the CPU in one of six ways (`Salidas`), each with its words in order
  (`Palabra`). `Dicho(d, k, l, e, x)` says that of the words of the way `k` the
  CPU wrote `e`, the kernel read `l`, the rest is in the socket, and the last
  context among them is `x`; `d` is 1 while the name of a file that ends the
  words of the *previous* process may still be unread, which is how the kernel
  dispatches before it finished reading. `Turno` then has five cases: nobody is
  on the CPU, one was dispatched and the CPU has not read it, one computes, one
  has called the kernel, one left and its words are on the way. An interrupt
  late for its process only moves the next one from case to case. `Cuentas` is
  about `exec_blocked`: while it has a PCB to move or to store a context in, the
  global has the context of that process, and until it moves it that process is
  not the one that has the CPU; this is what a step that would break it, the
  next context read, is kept from by stopping at `pisado`. `Turno` and `Cuentas`
  give `EnSintonia`. For `ContextoIntacto` there is one place in each case where
  the context of a process is: the CPU, the words, or in the kernel the global,
  if it is the one that `exec_blocked` has in hand, and the PCB if not
  (`Fuera`). Each step that moves it from one to the next leaves it as it is,
  but a dispatch from the PCB while the global has a newer one (`atrasado`).
  `TiposDelCiclo` (`TypeOK`) is of all states, those after a collision too,
  where `EnOrden` says nothing. Widths and contexts are inductive by themselves
  (`Tipado`: what is in a socket is typed as well). That the dispatch socket
  holds one context at most is not inductive: after a collision the kernel goes on until
  it reads what does not fit, and `AlSumoUno` says what it can do until then.
  Either it is stuck in the middle of a message (`Trabado`), or it has read the
  end of a process and a second end of the same one follows (`Sobra`), for which
  it may dispatch another process, once, before it reads a context that is of
  nobody in EXEC.
* `RecursosProofs`: `TiposDeLosRecursos` (`TypeOK`),
  `InstanciasSiempreContadas` (`InstanciasContadas`), `NadieQuedaOlvidado`
  (`NadieOlvidado`), `GradoSiempreContado` (`GradoContado`), `ElOrdenSeConserva`
  (`OrdenDeDespertar`), `ElRecursoEsDeUno` (`ExclusionSinSignal`). `Tipos` adds to
  `TypeOK` what each statement has in its locals, and that the counter of a
  waiting queue is its length (`Devuelve` subtracts from it what the loop took
  out). `Cuenta` is the balance, of each resource and of all together (`Total`);
  each step changes one term of one sum, by one, which is what `SumaCambia` says
  of a sum over a finite set. Which term it is depends on the name that is in the
  global: `Nombres` says that while the console ends nobody it is the name of the
  resource the dispatch thread is at, and that with the console it is a
  resource's, if programs name no other thing. So taking and filing an instance
  cancel out in the balance of one resource in the first case, and in the sum of
  all in the second. For the wake-ups, `Pedidos` says who may be in a waiting queue or hold an
  instance: only a process that executed its WAIT (`Pidio`). With one WAIT per
  resource in each program this makes a new entry in a queue a new process to
  wait, and keeps the end of a process from taking out an entry that counted:
  it holds the instance whose release begins the loop. `Avisados` is then the
  inequality of the property. For the degree, `Medido` says that a command of
  the console still under way (`Encargo`) has moved nothing: units are counted
  where `SacaCola` took a process from READY, EXEC or BLOCK into the console's
  hand (`Llevado`), and the last step, `Agrega`, is the one that may lose the
  unit or post one too many, whether or not the process was still in the queue
  it was found in. The last two relate the queue of a resource to BLOCK, which
  has no name of a resource in it. They rest on `Turno`, the six cases the CPU
  may be in while the console ends nobody and no context is lost (nobody, one
  runs, the dispatch thread is about it, or one of three transitions was told to
  take it). In the first two the process that `exec_blocked` has still to move
  may be in EXEC as well, and is then its head (`Ido`): so each transition that
  takes the head takes the process it was told to. In the others it cannot,
  since one more process that leaves the CPU then is what `Pisado` stops at. And
  they rest on `Usados`, what programs of one resource leave empty. `Sin(a, b, n)`
  says that `b` is `a` without its first `n` entries; with the entry that WAIT is about to
  add (`Esperando`) and the process that `exec_blocked` is about to move
  (`Bloqueando`) counted in, `Alineado` has `n` be the orders that
  `blocked_ready` has not carried out. When processes end, the lists come apart
  in the other direction, since the hand-over takes nobody out of the queue of
  the resource: `Fila` allows one entry of difference, whose process holds the
  instance, and `QuedaEnFila` says that its own end removes it. `Exclusivo` puts
  this together with: one process holds the instance at most, whoever is past
  its WAIT holds it, and whom `asignar_recurso` is about to give it to is the
  head of BLOCK, which `Custodia` (a PCB is in one place) tells from the one
  that ends.
* `InterfacesProofs`: `TiposDeLasInterfaces` (`TypeOK`), `SiempreHayUnPedido`
  (`SiempreHayPedido`), `UnSoloLugarSiempre` (`UnSoloLugar`),
  `EnSuInterfazSiempre` (`EnSuInterfaz`), `ElDialogoNoSePierde`
  (`DialogoSinPerderse`). `InvTipo` ties the statement of each thread to what
  it has in hand. Over it: `Contados`, each list is as long as its semaphore
  plus the threads between the wait and the removal (`Sacan`), plus the append
  whose post is still to come; `Ubicados`, the pairs of places of a request, as
  in `Custodia`; `SinCruce`, whose text is in `nombre_IO` while nobody connects
  during a request; `Dialogos`, one case per step of an operation, for a module
  served by its own thread only, with what is in each direction of its
  connection (`EnPaso`).
* `AccesoProofs`: `TiposDelAcceso` (`TypeOK`), `LaTlbSigueCoherente`
  (`TlbCoherente`), `CadaUnoTieneSuMemoria` (`CadaUnoSuMemoria`, the refinement
  of `MemoriaLogica`). `Inv` is inductive: exclusivity of frames is what keeps a
  page that others get from making an entry of the TLB false. The rest is
  geometry: `Lugar(p, k)` is the place of the `k`-th byte of `p`, injective in
  both, so that a write of one process within its frame changes one byte of one
  `Vista`. `Inv2` adds what is known of copies half way and of STDINs that
  wait: that the physical address each goes on with is the one the MMU would
  give now, unless the process shrank (`inestable`).
* `PaginacionProofs`: `TiposCorrectos`, `NingunMarcoCompartido`,
  `MarcosEnUsoOcupados`, `PromesaDeAmpliar`. The inductive invariant has three
  parts. `Inv` is the typing plus what each statement of a thread implies of
  its variables (a table in hand where it is dereferenced, a frame in hand
  where it is freed). `MarcosOK` is exclusivity, plus: a frame in a page is
  marked or is being marked, and a frame in a hand (`EnMano`) is in no page
  and in no other hand: without it, freeing a frame after its page was removed
  could free one that was meanwhile given out. `CuentaOK` says that the count
  under way never exceeds the frames that are free: the kernel's thread only
  frees, and only the CPU's thread takes, so a bit once counted stays free
  until it is assigned. Note that none of this needs the search to return the
  right table: exclusivity holds even when `BuscaMiTabla` does not.
* `DialFSProofs`: `TiposDelDisco` (`TypeOK`), `CompactarNoPierde`
  (`CompactarConserva`), `LosDemasNoDesordenan` (`LosDemasRespetan`),
  `CrecerPisaUno` (`PisaUnBloque`). The invariant is `DialInv`: the typing, and
  that a file that exists has an entry in the list, which bounds the list a
  restart makes and is the entry that a truncation reads. Soundness is not an invariant, so the other three are about
  one step each, from a sound disk. There `Sano` is first restated by the
  entries of the list (`SanoPorLista`, equivalent by `SanoEsPorLista`), which
  is how the code sees the disk. A compaction is one step of the model and a
  loop in the code; the proof goes back to the loop. `Turnos` says what each
  turn leaves, and `Parte(v, k, U, ...)` is its invariant: after `k` turns the
  moved files fill the blocks before `U`, each with the contents it had, the
  others are from `U` on where they were, and as many blocks are taken as at
  the start. From the last, the free blocks that `HayEspacio` counted are all
  behind the last file at the end (`ElLugar`), so the file that grows fits.
  `LosDemasRespetan` has one lemma for each operation not in `NoRespeta`; that
  of an empty file that grows in place needs that the one taken block
  `espacio_disponible_es_contiguo` demands is its own. Then `PisaUnBloque` is
  the same fact seen from the other side: of the blocks asked for exactly one
  is taken (`UnoTomado`), none of them is the file's, and on a sound disk a
  taken block is in a file.

*Folds.* The sums of `Recursos`, the loop of its `SinPropias`, the loop of
`compactar`, and the `Max` and `Min` of the library are defined by choice or by
a fold. The library's induction theorems take an operator as a parameter and
cannot be used, but that `<` is well founded on the naturals can be stated without one:
every nonempty set of naturals has a least element (`MinNat`, from `WFMin`).
Whatever is claimed of every length is proved by looking at the least length at
which it fails. In this way `HayPliegue`, `SumaPorPasos`, `PorVueltas` and
`PorTurnos` say what those folds compute.

*Changes that the proofs asked of the modules,* besides the conditions of "What
does not hold": the frames that RESIZE takes are given by `MarcoLibre`, the
`k`-th frame in the order of the bitmap, where they were a sorted sequence; the
removal of a PCB by pid is `RemoveFirst`; `Pendientes` is a set; an instruction
of `CicloCpu` is executed only where the program has one (past the end
`list_get` gives memoria a NULL and it does not answer), and the bound on
`s_exit` is not below its initial value.

*Model-checked only,* and why:

* liveness: `TodoProcesoTermina`, `TodosTerminan` and the other properties under
  fairness are out of the prover's reach.

## Plan

What is left, in order.

1. `HilosMemoria`: `pid_a_buscar_o_eliminar` and `CLIENTE_ESPACIO_USUARIO`,
   the globals that memoria's threads share besides the ones of `Paginacion`,
   with the console and the dispatch thread of the kernel on one socket.
2. `DialFS`: a stop in the middle of a request, between the bitmap, the blocks
   and the metadata.

## Not modelled, and why

* The contexts and instructions of memoria, and what its threads share in an
  access to user space: planned, see above.
* Sockets and the serialisation of messages other than contexts: a TCP stream
  is a FIFO queue in every module.
* Configuration, logging and the console's text: pure I/O, with no state the
  properties tell apart.
* What the kernel does after it lost its place in the conversation with the
  CPU, or overwrote a context that `transicion_exec_blocked` had still to store
  (`CicloCpu`, `Recursos`; `Planificador` does follow two PCBs with one context,
  but for the double free), and anything after undefined behaviour (a freed
  list, a NULL): the models name the moment and stop.
