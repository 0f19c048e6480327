------------------------------ MODULE InterfacesIO ------------------------------
(***************************************************************************)
(* The I/O interfaces: how the kernel takes their connections, queues the  *)
(* requests of the processes and serves each interface from a thread of its*)
(* own (kernel.c), and the loop of the module at the other end             *)
(* (entrada_salida.c).                                                     *)
(*                                                                         *)
(* Threads of the kernel: the one that accepts interfaces                  *)
(* (conectar_interfaces), the one of the CPU (levantar_CPU_Dispatch, in    *)
(* recibir_orden_interfaces_de_cpu), and an interfaz_conectada per         *)
(* connection, named here by the module that connected.  They share        *)
(* nombre_IO, info_io_conectada, cde_interrumpido and the lists, and take  *)
(* no lock.  A process that is unblocked goes on in Planificador.          *)
(***************************************************************************)
EXTENDS Naturals, Sequences, SequencesExt, FiniteSets

CONSTANTS
    Procesos, Modulos, NULO,
    Nombres,       \* names that interfaces are given or that programs ask for
    Dialfs,        \* the modules of type DIALFS
    MaxPedidos,    \* bound: requests of each process
    MaxCaidas      \* bound: modules that are closed

ASSUME NuloAssumption == NULO \notin Procesos \cup Modulos \cup Nombres
\* A text is in the buffer of a module or of a request: two different ones.
ASSUME DuenosAssumption == Procesos \cap Modulos = {}
ASSUME DialfsAssumption == Dialfs \subseteq Modulos
ASSUME CotasAssumption == MaxPedidos \in Nat /\ MaxCaidas \in Nat

VARIABLES
    \* the modules
    modulo,        \* per module: where its loop is
    nombre,        \* per module: the name it was started with
    haciendo,      \* per module: the pid of the operation in course
    canal,         \* per module: messages of the kernel it has not read
    respuestas,    \* per module: its CONCLUI_OPERACION not read, with the pid of each
    \* conectar_interfaces
    pcCon, nueva,
    \* the thread of the CPU
    pcCpu, pide, hallada,
    \* what they share
    nombreIO,      \* nombre_IO: the text, and whose buffer it is
    nombreDe,      \* per infoIO: the same, of nombre_io
    lista,         \* lista_interfaces: an infoIO is named by its module
    info,          \* info_io_conectada
    cde,           \* the pid of cde_interrumpido
    espera,        \* per infoIO: procesos_espera
    contador,      \* per infoIO: contador_espera
    \* interfaz_conectada
    pc, io, toma,
    \* the processes
    estado,        \* "libre", "bloqueado", "terminado" or "olvidado"
    pidio,         \* history: the name of its last request
    pedidos, caidas,
    cruce,         \* history: nombre_IO was in use by both threads at a time
    caido          \* the kernel died of a SIGPIPE or on an empty list

vModulo == <<modulo, nombre, haciendo, canal, respuestas, caidas>>
vCon == <<pcCon, nueva>>
vCpu == <<pcCpu, pide, hallada, pedidos>>
vNombre == <<nombreIO, nombreDe, cruce>>
vColas == <<espera, contador>>
vHilos == <<pc, io, toma>>
vPid == <<estado, pidio>>
vars == <<vModulo, vCon, vCpu, vNombre, lista, info, cde, vColas, vHilos, vPid, caido>>

Texto(t, d) == [texto |-> t, de |-> d]
\* A text that was freed: it may be equal to any other.
Basura == Texto(NULO, NULO)

Mensaje(op, p) == [op |-> op, pid |-> p]

Init ==
    /\ modulo = [m \in Modulos |-> "apagado"]
    /\ nombre = [m \in Modulos |-> NULO]
    /\ haciendo = [m \in Modulos |-> NULO]
    /\ canal = [m \in Modulos |-> <<>>]
    /\ respuestas = [m \in Modulos |-> <<>>]
    /\ pcCon = "acepta" /\ nueva = NULO
    /\ pcCpu = "recibe" /\ pide = NULO /\ hallada = NULO
    /\ nombreIO = Basura
    /\ nombreDe = [m \in Modulos |-> Basura]
    /\ lista = <<>>
    /\ info = NULO
    /\ cde = NULO
    /\ espera = [m \in Modulos |-> <<>>]
    /\ contador = [m \in Modulos |-> 0]
    /\ pc = [m \in Modulos |-> "no"]
    /\ io = [m \in Modulos |-> NULO]
    /\ toma = [m \in Modulos |-> NULO]
    /\ estado = [p \in Procesos |-> "libre"]
    /\ pidio = [p \in Procesos |-> NULO]
    /\ pedidos = [p \in Procesos |-> 0]
    /\ caidas = 0
    /\ cruce = FALSE
    /\ caido = FALSE

(* Mutation: the names are not compared.                                   *)
SeguroCualquiera(i) == nombreIO # Basura

(* interfaz_esta_en_lista, for the entry i of the list: certainly, or      *)
(* perhaps.                                                                *)
Seguro(i) == nombreIO # Basura /\ nombreDe[lista[i]].texto = nombreIO.texto
Acaso(i) == Seguro(i) \/ Basura \in {nombreIO, nombreDe[lista[i]]}

(* What list_find may return: the first entry with the name.               *)
Hallazgos ==
    {lista[i] : i \in {k \in DOMAIN lista : Acaso(k) /\ \A j \in 1..(k - 1) : ~Seguro(j)}}
    \cup (IF \E i \in DOMAIN lista : Seguro(i) THEN {} ELSE {NULO})

-----------------------------------------------------------------------------
(* conectar_interfaces.                                                    *)

UsaNombreCon == pcCon \in {"busca", "agrega"}
UsaNombreCpu == pcCpu # "recibe"

(* A new client: nombre_IO is its name.                                    *)
ConAcepta(m) ==
    /\ pcCon = "acepta"
    /\ modulo[m] = "conecta" /\ pc[m] = "no"
    /\ nueva' = m
    /\ nombreIO' = Texto(nombre[m], m)
    /\ cruce' = (cruce \/ UsaNombreCpu)
    /\ pcCon' = "busca"
    /\ UNCHANGED <<vModulo, vCpu, nombreDe, lista, info, cde, vColas, vHilos, vPid, caido>>

(* The name is in the list: ESTABA_CONECTADO.                              *)
ConBusca ==
    /\ pcCon = "busca"
    /\ \E h \in Hallazgos :
          IF h = NULO
          THEN pcCon' = "agrega" /\ UNCHANGED canal
          ELSE /\ pcCon' = "crea"
               /\ canal' = [canal EXCEPT ![nueva] = Append(@, Mensaje("ESTABA", NULO))]
    /\ cruce' = (cruce \/ UsaNombreCpu)
    /\ UNCHANGED <<modulo, nombre, haciendo, respuestas, caidas, nueva, vCpu, nombreIO, nombreDe, lista,
                   info, cde, vColas, vHilos, vPid, caido>>

(* The infoIO is built, and nombre_IO read again.                          *)
ConAgrega ==
    /\ pcCon = "agrega"
    /\ nombreDe' = [nombreDe EXCEPT ![nueva] = nombreIO]
    /\ cruce' = (cruce \/ UsaNombreCpu)
    /\ pcCon' = "publica"
    /\ UNCHANGED <<vModulo, nueva, vCpu, nombreIO, lista, info, cde, vColas, vHilos, vPid, caido>>

ConPublica ==
    /\ pcCon = "publica"
    /\ info' = nueva
    /\ lista' = Append(lista, nueva)
    /\ pcCon' = "responde"
    /\ UNCHANGED <<vModulo, nueva, vCpu, vNombre, cde, vColas, vHilos, vPid, caido>>

ConResponde ==
    /\ pcCon = "responde"
    /\ canal' = [canal EXCEPT ![nueva] = Append(@, Mensaje("NO_ESTABA", NULO))]
    /\ pcCon' = "crea"
    /\ UNCHANGED <<modulo, nombre, haciendo, respuestas, caidas, nueva, vCpu, vNombre, lista, info, cde,
                   vColas, vHilos, vPid, caido>>

(* pthread_create, for a refused interface too.                            *)
ConCrea ==
    /\ pcCon = "crea"
    /\ pc' = [pc EXCEPT ![nueva] = "nace"]
    /\ nueva' = NULO
    /\ pcCon' = "acepta"
    /\ UNCHANGED <<vModulo, vCpu, vNombre, lista, info, cde, vColas, io, toma, vPid, caido>>

-----------------------------------------------------------------------------
(* The thread of the CPU.                                                  *)

(* A context comes back for another reason than I/O.                       *)
Vuelve(p) ==
    /\ pcCpu = "recibe" /\ estado[p] = "libre"
    /\ cde # p /\ cde' = p
    /\ UNCHANGED <<vModulo, vCon, vCpu, vNombre, lista, info, vColas, vHilos, vPid, caido>>

(* INSTRUCCION_INTERFAZ: p goes to BLOCK and asks for the interface n.     *)
Pide(p, n) ==
    /\ pcCpu = "recibe" /\ estado[p] = "libre"
    /\ pedidos[p] < MaxPedidos
    /\ pedidos' = [pedidos EXCEPT ![p] = @ + 1]
    /\ estado' = [estado EXCEPT ![p] = "bloqueado"]
    /\ pidio' = [pidio EXCEPT ![p] = n]
    /\ cde' = p
    /\ pide' = p
    /\ nombreIO' = Texto(n, p)
    /\ cruce' = (cruce \/ UsaNombreCon)
    /\ pcCpu' = "busca"
    /\ UNCHANGED <<vModulo, vCon, hallada, nombreDe, lista, info, vColas, vHilos, caido>>

(* Without the interface the process ends: INVALID_INTERFACE.              *)
PideBusca ==
    /\ pcCpu = "busca"
    /\ hallada' \in Hallazgos
    /\ IF hallada' = NULO
       THEN /\ estado' = [estado EXCEPT ![pide] = "terminado"]
            /\ pcCpu' = "libera"
       ELSE pcCpu' = "encola" /\ UNCHANGED estado
    /\ UNCHANGED <<vModulo, vCon, pide, pedidos, vNombre, lista, info, cde, vColas, vHilos, pidio, caido>>

(* Mutation: the semaphore is posted too.                                  *)
PideEncolaAvisando ==
    /\ pcCpu = "encola"
    /\ espera' = [espera EXCEPT ![hallada] = Append(@, pide)]
    /\ contador' = [contador EXCEPT ![hallada] = @ + 1]
    /\ pcCpu' = "avisa"
    /\ UNCHANGED <<vModulo, vCon, pide, hallada, pedidos, vNombre, lista, info, cde, vHilos, vPid, caido>>

PideEncola ==
    /\ pcCpu = "encola"
    /\ espera' = [espera EXCEPT ![hallada] = Append(@, pide)]
    /\ pcCpu' = "avisa"
    /\ UNCHANGED <<vModulo, vCon, pide, hallada, pedidos, vNombre, lista, info, cde, contador, vHilos, vPid, caido>>

(* Mutation: the semaphore is not posted.                                  *)
PideAvisaSinPost ==
    /\ pcCpu = "avisa"
    /\ info' = hallada
    /\ pcCpu' = "libera"
    /\ UNCHANGED <<vModulo, vCon, pide, hallada, pedidos, vNombre, lista, cde, vColas, vHilos, vPid, caido>>

(* info_io_conectada, and the semaphore of the interface.                  *)
PideAvisa ==
    /\ pcCpu = "avisa"
    /\ info' = hallada
    /\ contador' = [contador EXCEPT ![hallada] = @ + 1]
    /\ pcCpu' = "libera"
    /\ UNCHANGED <<vModulo, vCon, pide, hallada, pedidos, vNombre, lista, cde, espera, vHilos, vPid, caido>>

(* free(nombre_IO), whoever it belongs to by now; DIALFS requests keep it. *)
PideLibera ==
    /\ pcCpu = "libera"
    /\ IF hallada \in Dialfs
       THEN UNCHANGED vNombre
       ELSE /\ nombreDe' = [m \in Modulos |-> IF nombreDe[m] = nombreIO THEN Basura ELSE nombreDe[m]]
            /\ nombreIO' = Basura
            /\ UNCHANGED cruce
    /\ pide' = NULO /\ hallada' = NULO
    /\ pcCpu' = "recibe"
    /\ UNCHANGED <<vModulo, vCon, pedidos, lista, info, cde, vColas, vHilos, vPid, caido>>

-----------------------------------------------------------------------------
(* interfaz_conectada: the thread t.                                       *)

(* The interface it serves is the one info_io_conectada names by now.      *)
HiloNace(t) ==
    /\ pc[t] = "nace"
    /\ io' = [io EXCEPT ![t] = info]
    /\ pc' = [pc EXCEPT ![t] = "espera"]
    /\ UNCHANGED <<vModulo, vCon, vCpu, vNombre, lista, info, cde, vColas, toma, vPid, caido>>

(* Mutation: sem_wait is interrupted, and its result is not looked at.     *)
HiloEsperaInterrumpido(t) ==
    /\ pc[t] = "espera"
    /\ contador' = [contador EXCEPT ![io[t]] = @ - 1]
    /\ pc' = [pc EXCEPT ![t] = "saca"]
    /\ UNCHANGED <<vModulo, vCon, vCpu, vNombre, lista, info, cde, espera, io, toma, vPid, caido>>

HiloEspera(t) ==
    /\ pc[t] = "espera" /\ contador[io[t]] > 0
    /\ contador' = [contador EXCEPT ![io[t]] = @ - 1]
    /\ pc' = [pc EXCEPT ![t] = "saca"]
    /\ UNCHANGED <<vModulo, vCon, vCpu, vNombre, lista, info, cde, espera, io, toma, vPid, caido>>

(* list_remove of an empty list returns NULL.                              *)
HiloSaca(t) ==
    /\ pc[t] = "saca"
    /\ IF espera[io[t]] = <<>>
       THEN caido' = TRUE /\ UNCHANGED <<espera, vHilos>>
       ELSE /\ toma' = [toma EXCEPT ![t] = Head(espera[io[t]])]
            /\ espera' = [espera EXCEPT ![io[t]] = Tail(@)]
            /\ pc' = [pc EXCEPT ![t] = "inicia"]
            /\ UNCHANGED <<io, caido>>
    /\ UNCHANGED <<vModulo, vCon, vCpu, vNombre, lista, info, cde, contador, vPid>>

(* What a send does; to a module that is gone it may be a SIGPIPE.         *)
Manda(m, msg) ==
    IF modulo[m] = "salio"
    THEN caido' \in BOOLEAN /\ UNCHANGED canal
    ELSE canal' = [canal EXCEPT ![m] = Append(@, msg)] /\ UNCHANGED caido

HiloInicia(t) ==
    /\ pc[t] = "inicia"
    /\ Manda(io[t], Mensaje("INICIAR", NULO))
    /\ pc' = [pc EXCEPT ![t] = "manda"]
    /\ UNCHANGED <<modulo, nombre, haciendo, respuestas, caidas, vCon, vCpu, vNombre, lista, info, cde,
                   vColas, io, toma, vPid>>

(* Mutation: every request has the pid of the last context, as DIALFS ones.*)
PidEnviadoUltimo(t) == cde

PidEnviado(t) == IF io[t] \in Dialfs THEN cde ELSE toma[t]

HiloManda(t) ==
    /\ pc[t] = "manda"
    /\ Manda(io[t], Mensaje("DATOS", PidEnviado(t)))
    /\ pc' = [pc EXCEPT ![t] = "recibe"]
    /\ UNCHANGED <<modulo, nombre, haciendo, respuestas, caidas, vCon, vCpu, vNombre, lista, info, cde,
                   vColas, io, toma, vPid>>

(* Mutation: the thread forgets the answer that was for it.                *)
HiloRecibeOlvidando(t) ==
    /\ pc[t] = "recibe" /\ respuestas[io[t]] # <<>>
    /\ respuestas' = [respuestas EXCEPT ![io[t]] = Tail(@)]
    /\ pc' = [pc EXCEPT ![t] = "espera"]
    /\ toma' = [toma EXCEPT ![t] = NULO]
    /\ UNCHANGED <<modulo, nombre, haciendo, canal, caidas, vCon, vCpu, vNombre, lista, info, cde, vColas,
                   io, vPid, caido>>

(* CONCLUI_OPERACION unblocks the process.  The end of the connection does *)
(* not, and the thread goes on.                                            *)
HiloRecibe(t) ==
    /\ pc[t] = "recibe"
    /\ \/ /\ respuestas[io[t]] # <<>>
          /\ respuestas' = [respuestas EXCEPT ![io[t]] = Tail(@)]
          /\ estado' = [estado EXCEPT ![toma[t]] = "libre"]
       \/ /\ respuestas[io[t]] = <<>> /\ modulo[io[t]] = "salio"
          /\ estado' = [estado EXCEPT ![toma[t]] = "olvidado"]
          /\ UNCHANGED respuestas
    /\ pc' = [pc EXCEPT ![t] = "espera"]
    /\ toma' = [toma EXCEPT ![t] = NULO]
    /\ UNCHANGED <<modulo, nombre, haciendo, canal, caidas, vCon, vCpu, vNombre, lista, info, cde, vColas,
                   io, pidio, caido>>

-----------------------------------------------------------------------------
(* entrada_salida.c: the module m.                                         *)

vKernel == <<vCon, vCpu, vNombre, lista, info, cde, vColas, vHilos, vPid, caido>>

(* levantar_interfaz: the operator types the name.                         *)
Enciende(m, n) ==
    /\ modulo[m] = "apagado"
    /\ modulo' = [modulo EXCEPT ![m] = "conecta"]
    /\ nombre' = [nombre EXCEPT ![m] = n]
    /\ UNCHANGED <<haciendo, canal, respuestas, caidas, vKernel>>

(* conectarse_kernel: ESTABA_CONECTADO ends the module.                    *)
Confirma(m) ==
    /\ modulo[m] = "conecta" /\ canal[m] # <<>>
    /\ modulo' = [modulo EXCEPT ![m] = IF Head(canal[m]).op = "ESTABA" THEN "salio" ELSE "libre"]
    /\ canal' = [canal EXCEPT ![m] = Tail(@)]
    /\ UNCHANGED <<nombre, haciendo, respuestas, caidas, vKernel>>

(* INICIAR_OPERACION is followed by its data.  What comes in another order *)
(* leaves the module reading codes where sizes are.                        *)
Atiende(m) ==
    /\ modulo[m] = "libre" /\ canal[m] # <<>>
    /\ LET c == canal[m]
       IN  \/ /\ c[1].op = "INICIAR" /\ Len(c) > 1 /\ c[2].op = "DATOS"
              /\ modulo' = [modulo EXCEPT ![m] = "ocupado"]
              /\ haciendo' = [haciendo EXCEPT ![m] = c[2].pid]
              /\ canal' = [canal EXCEPT ![m] = SubSeq(c, 3, Len(c))]
           \/ /\ c[1].op \in {"ESTABA", "NO_ESTABA"}
              /\ canal' = [canal EXCEPT ![m] = Tail(@)]
              /\ UNCHANGED <<modulo, nombre, haciendo>>
           \/ /\ c[1].op = "DATOS" \/ (c[1].op = "INICIAR" /\ Len(c) > 1 /\ c[2].op # "DATOS")
              /\ modulo' = [modulo EXCEPT ![m] = "roto"]
              /\ UNCHANGED <<haciendo, canal>>
    /\ UNCHANGED <<nombre, respuestas, caidas, vKernel>>

Concluye(m) ==
    /\ modulo[m] = "ocupado"
    /\ modulo' = [modulo EXCEPT ![m] = "libre"]
    /\ respuestas' = [respuestas EXCEPT ![m] = Append(@, haciendo[m])]
    /\ haciendo' = [haciendo EXCEPT ![m] = NULO]
    /\ UNCHANGED <<nombre, canal, caidas, vKernel>>

(* It takes the bytes for something, and answers or not.                   *)
Delira(m) ==
    /\ modulo[m] = "roto" /\ canal[m] # <<>>
    /\ canal' = [canal EXCEPT ![m] = Tail(@)]
    /\ \E r \in {<<>>, <<NULO>>} : respuestas' = [respuestas EXCEPT ![m] = @ \o r]
    /\ UNCHANGED <<modulo, nombre, haciendo, caidas, vKernel>>

(* Somebody closes the module.                                             *)
SeVa(m) ==
    /\ modulo[m] \in {"libre", "ocupado"} /\ caidas < MaxCaidas
    /\ caidas' = caidas + 1
    /\ modulo' = [modulo EXCEPT ![m] = "salio"]
    /\ haciendo' = [haciendo EXCEPT ![m] = NULO]
    /\ canal' = [canal EXCEPT ![m] = <<>>]
    /\ UNCHANGED <<nombre, respuestas, vKernel>>

-----------------------------------------------------------------------------
HiloCon == (\E m \in Modulos : ConAcepta(m)) \/ ConBusca \/ ConAgrega \/ ConPublica \/ ConResponde \/ ConCrea
HiloCpu == PideBusca \/ PideEncola \/ PideAvisa \/ PideLibera
Hilo(t) == HiloNace(t) \/ HiloEspera(t) \/ HiloSaca(t) \/ HiloInicia(t) \/ HiloManda(t) \/ HiloRecibe(t)
Modulo(m) == Confirma(m) \/ Atiende(m) \/ Concluye(m) \/ Delira(m)

Next ==
    /\ ~caido
    /\ \/ HiloCon \/ HiloCpu
       \/ \E m \in Modulos : Hilo(m) \/ Modulo(m) \/ SeVa(m)
       \/ \E p \in Procesos : Vuelve(p)
       \/ \E n \in Nombres : (\E p \in Procesos : Pide(p, n)) \/ \E m \in Modulos : Enciende(m, n)

Spec == Init /\ [][Next]_vars

(* Threads that can go on do, and a module serves what it is sent: its     *)
(* operations sleep and end.                                               *)
SpecJusta ==
    /\ Spec
    /\ WF_vars(~caido /\ HiloCon) /\ WF_vars(~caido /\ HiloCpu)
    /\ \A m \in Modulos : WF_vars(~caido /\ Hilo(m)) /\ WF_vars(~caido /\ Modulo(m))

-----------------------------------------------------------------------------
(* Properties.                                                             *)

HilosDe(m) == {t \in Modulos : io[t] = m}

TypeOK ==
    /\ modulo \in [Modulos -> {"apagado", "conecta", "libre", "ocupado", "roto", "salio"}]
    /\ nombre \in [Modulos -> Nombres \cup {NULO}]
    /\ haciendo \in [Modulos -> Procesos \cup {NULO}]
    /\ canal \in [Modulos -> Seq([op : {"ESTABA", "NO_ESTABA", "INICIAR", "DATOS"}, pid : Procesos \cup {NULO}])]
    /\ respuestas \in [Modulos -> Seq(Procesos \cup {NULO})]
    /\ nueva \in Modulos \cup {NULO} /\ pide \in Procesos \cup {NULO} /\ hallada \in Modulos \cup {NULO}
    /\ lista \in Seq(Modulos) /\ IsInjective(lista)
    /\ info \in Modulos \cup {NULO} /\ cde \in Procesos \cup {NULO}
    /\ espera \in [Modulos -> Seq(Procesos)] /\ contador \in [Modulos -> Nat]
    /\ io \in [Modulos -> Modulos \cup {NULO}] /\ toma \in [Modulos -> Procesos \cup {NULO}]
    /\ estado \in [Procesos -> {"libre", "bloqueado", "terminado", "olvidado"}]
    /\ \A t \in Modulos : pc[t] \notin {"no", "nace"} => io[t] \in ToSet(lista)

(* A thread that passed the semaphore of an interface finds a request in   *)
(* its list, though nobody locks the list and two threads may serve it.    *)
SiempreHayPedido ==
    \A m \in Modulos :
        Len(espera[m]) = contador[m]
                         + Cardinality({t \in HilosDe(m) : pc[t] = "saca"})
                         + (IF pcCpu = "avisa" /\ hallada = m THEN 1 ELSE 0)

(* A blocked process is in one place: being queued, in the list of one     *)
(* interface, or with one thread; and nobody else is in any.               *)
Lugares(p) ==
    (IF pide = p /\ pcCpu \in {"busca", "encola"} THEN {NULO} ELSE {})
    \cup (UNION {{<<m, i>> : i \in {k \in DOMAIN espera[m] : espera[m][k] = p}} : m \in Modulos})
    \cup {t \in Modulos : toma[t] = p}

UnSoloLugar ==
    \A p \in Procesos : Cardinality(Lugares(p)) = IF estado[p] = "bloqueado" THEN 1 ELSE 0

(* As long as an interface is served by its own thread only, kernel and    *)
(* module never lose the place in their dialogue: the answer a thread gets *)
(* is the one to the request it sent, with its pid unless it is a file     *)
(* system.  (A refused connection leaves a second thread on an interface.) *)
DialogoSinPerderse ==
    \A m \in Modulos :
        HilosDe(m) \subseteq {m} =>
            /\ modulo[m] # "roto"
            /\ respuestas[m] # <<>> => pc[m] = "recibe" /\ Len(respuestas[m]) = 1
            /\ m \notin Dialfs =>
                  /\ haciendo[m] \in {NULO, toma[m]}
                  /\ respuestas[m] # <<>> => Head(respuestas[m]) = toma[m]

(* If no connection came while a request was being placed, each request is *)
(* with the interface it named.                                            *)
EnSuInterfaz ==
    ~cruce =>
        \A m \in Modulos :
            /\ \A i \in DOMAIN espera[m] : pidio[espera[m][i]] = nombre[m]
            /\ \A t \in HilosDe(m) : toma[t] # NULO => pidio[toma[t]] = nombre[m]

(* Where p waits.                                                          *)
Con(p) == {m \in Modulos : p \in ToSet(espera[m]) \/ \E t \in HilosDe(m) : toma[t] = p}

(* The interface m is served by one thread, and its module is there.       *)
Sana(m) == Cardinality(HilosDe(m)) = 1 /\ modulo[m] \in {"conecta", "libre", "ocupado"}

(* A request to an interface that stays connected, with one thread to serve*)
(* it, is concluded.                                                       *)
PedidoConcluido ==
    \A p \in Procesos :
        estado[p] = "bloqueado"
        ~> \/ estado[p] # "bloqueado" \/ caido
           \/ \E m \in Con(p) : ~Sana(m)

(* kernel.c:652: "empieza a ejecutar hilo interfaz_conectada".  When every *)
(* thread has started, an interface of the list has one.                   *)
HiloDeCadaInterfaz ==
    pcCon = "acepta" /\ (\A t \in Modulos : pc[t] # "nace")
    => \A i \in DOMAIN lista : HilosDe(lista[i]) # {}
=============================================================================
