----------------------------- MODULE CicloCpuProofs -----------------------------
(***************************************************************************)
(* The instruction cycle, for every number of processes, every program and *)
(* every bound: BanderasBajas, EnSintonia, ContextoIntacto and TypeOK.      *)
(*                                                                         *)
(* BanderasBajas is not inductive: what an instruction leaves up when      *)
(* check_interrupt begins has to be known, and that is tied to what the    *)
(* instruction wrote to the kernel (IInv).                                 *)
(*                                                                         *)
(* EnSintonia needs the whole conversation (EnOrden).  A process leaves    *)
(* the CPU in one of six ways, each with its words in their order          *)
(* (Palabra): of the words of one way, the CPU wrote some (e), the kernel  *)
(* read some (l) and the others are in the socket (Dicho); the name of a   *)
(* file that ends the words of a process that left already may be before   *)
(* them.  Turno says whose turn it is: nobody has the CPU (Libre), a       *)
(* context is on its way to it (Despachado), it executes and said nothing  *)
(* (Calculando), it called the kernel and its context is missing           *)
(* (Llamando), or everything was said and the kernel reads it (Saliendo).  *)
(* At most one process speaks at a time: that is what keeps the kernel in  *)
(* step.  Meanwhile exec_blocked may have another process to move and its  *)
(* context to store: Cuentas says that the global is of that process.      *)
(*                                                                         *)
(* ContextoIntacto follows from the same invariant: in each turn there is  *)
(* one place where the context of a process is (in the kernel, the global  *)
(* or the PCB: Fuera), and a step that moves it changes nothing of it.     *)
(*                                                                         *)
(* TypeOK speaks of all states, collisions included.  After one, either    *)
(* the kernel is about to read an operation where it waits for a context   *)
(* (Trabado), or the second end of a process that has ended (Sobra): until *)
(* it does it sends at most one more context (AlSumoUno).                  *)
(***************************************************************************)
EXTENDS CicloCpu, SequenceTheorems, TLAPS

Tipos ==
    /\ pcD \in {"recibe", "instruccion", "revisa", "revisa_exit"}
    /\ interrupcion \in [Banderas -> BOOLEAN]
    /\ aInterrupt \in Seq({"rr", "exit"})
    /\ choque \in BOOLEAN
    /\ escribio \in {"nada", "recurso", "interfaz", "fin"}

Ninguna == \A b \in DeInstruccion : interrupcion[b] = FALSE

(* The flag an instruction raises is one, and of the kind of what it wrote.*)
UnaDelTipo ==
    /\ escribio \in {"nada", "fin"} => Ninguna
    /\ escribio = "recurso" =>
          interrupcion["io"] = FALSE /\ interrupcion["fs"] = FALSE
          /\ (interrupcion["wait"] = FALSE \/ interrupcion["signal"] = FALSE)
    /\ escribio = "interfaz" =>
          interrupcion["wait"] = FALSE /\ interrupcion["signal"] = FALSE
          /\ (interrupcion["io"] = FALSE \/ interrupcion["fs"] = FALSE)

Limpia ==
    choque = FALSE =>
        /\ pcD \in {"recibe", "instruccion"} => Ninguna
        /\ pcD \in {"revisa", "revisa_exit"} => UnaDelTipo

IInv == Tipos /\ Limpia

(* The interrupt thread only raises "rr" and "exit".                       *)
LEMMA ConservaInterrupt == ASSUME IInv, HiloInterrupt PROVE IInv'
  <1> USE DEF IInv, Tipos, Limpia, Ninguna, UnaDelTipo, vKernel, vBloqueo, vHistoria
  <1>1. CASE InterrupMira
    BY <1>1 DEF InterrupMira
  <1>2. CASE InterrupEspera
    BY <1>2 DEF InterrupEspera
  <1>3. CASE InterrupRecibe
    <2>1. /\ Head(aInterrupt) \in {"rr", "exit"}
          /\ Tail(aInterrupt) \in Seq({"rr", "exit"})
      BY <1>3 DEF InterrupRecibe
    <2>2. \A b \in DeInstruccion : interrupcion'[b] = interrupcion[b]
      BY <1>3, <2>1 DEF InterrupRecibe, DeInstruccion, Banderas
    <2>3. Tipos'
      BY <1>3, <2>1 DEF InterrupRecibe, Banderas
    <2> QED BY <1>3, <2>2, <2>3 DEF InterrupRecibe, DeInstruccion
  <1> QED BY <1>1, <1>2, <1>3 DEF HiloInterrupt

(* An instruction begins with every flag down and raises at most its own.  *)
LEMMA ConservaExecute == ASSUME IInv, Execute PROVE IInv'
  <1> USE DEF IInv, Tipos, Limpia, Ninguna, UnaDelTipo, vKernel, vBloqueo, Ejecuta, DeInstruccion, Banderas
  <1>1. CASE Calcula
    BY <1>1 DEF Calcula
  <1>2. CASE Resize
    BY <1>2 DEF Resize
  <1>3. CASE Recurso
    BY <1>3 DEF Recurso
  <1>4. CASE EntradaSalida
    BY <1>4 DEF EntradaSalida
  <1>5. CASE Exit
    BY <1>5 DEF Exit
  <1> QED BY <1>1, <1>2, <1>3, <1>4, <1>5 DEF Execute

(* Each branch of check_interrupt lowers what the instruction raised, or   *)
(* is the collision that choque records.                                   *)
LEMMA ConservaRevisa == ASSUME IInv, Check_interrupt PROVE IInv'
  <1> USE DEF IInv, Tipos, Limpia, Ninguna, UnaDelTipo, vKernel, vBloqueo, vHistoria, Termina, Libera, Baja,
              DeInstruccion, Banderas
  <1>1. CASE RevisaQuantum
    BY <1>1 DEF RevisaQuantum
  <1>2. CASE RevisaSinQuantum
    BY <1>2 DEF RevisaSinQuantum
  <1>3. CASE RevisaExit
    BY <1>3 DEF RevisaExit
  <1>4. CASE RevisaLlamada
    BY <1>4 DEF RevisaLlamada
  <1>5. CASE RevisaNada
    BY <1>5 DEF RevisaNada
  <1> QED BY <1>1, <1>2, <1>3, <1>4, <1>5 DEF Check_interrupt

(* The kernel and a dispatch leave the flags alone.                        *)
LEMMA ConservaKernel == ASSUME IInv, Kernel \/ Despacho PROVE IInv'
  <1> USE DEF IInv, Tipos, Limpia, Ninguna, UnaDelTipo, vKernel, vBloqueo, vCpu, vHistoria
  <1>1. CASE Despacho
    BY <1>1 DEF Despacho
  <1>2. CASE Kernel
    <2>1. UNCHANGED <<pcD, interrupcion, choque, escribio>>
      BY <1>2 DEF Kernel, CortoDespacha, QuantumEmpieza, QuantumVence, ConsolaFinaliza,
           KernelOperacion, KernelDatos, KernelFinaliza, KernelFinDeQuantum, KernelInterfaz,
           KernelRecurso, KernelRecursoInvalido, KernelDesorden, KernelPisado, ExecBlocked, ContextoDe, LeeContexto, Lee
    <2>2. aInterrupt' = aInterrupt \/ Interrumpe("rr") \/ Interrumpe("exit")
      BY <1>2 DEF Kernel, CortoDespacha, QuantumEmpieza, QuantumVence, ConsolaFinaliza,
           KernelOperacion, KernelDatos, KernelFinaliza, KernelFinDeQuantum, KernelInterfaz,
           KernelRecurso, KernelRecursoInvalido, KernelDesorden, KernelPisado, ExecBlocked
    <2>3. aInterrupt' \in Seq({"rr", "exit"})
      BY <2>2 DEF Interrumpe
    <2> QED BY <2>1, <2>3
  <1> QED BY <1>1, <1>2

LEMMA BanderasIniciales == Init => IInv
  <1> SUFFICES ASSUME Init PROVE IInv
    OBVIOUS
  <1>1. interrupcion \in [Banderas -> BOOLEAN] /\ \A b \in Banderas : interrupcion[b] = FALSE
    BY DEF Init, Quieta
  <1>2. aInterrupt \in Seq({"rr", "exit"})
    BY DEF Init
  <1>3. pcD = "recibe" /\ choque = FALSE /\ escribio = "nada"
    BY DEF Init
  <1>4. Tipos
    BY <1>1, <1>2, <1>3 DEF Tipos
  <1>5. Limpia
    BY <1>1 DEF Init, Limpia, Ninguna, DeInstruccion, Banderas
  <1> QED BY <1>4, <1>5 DEF IInv

LEMMA BanderasInductivas == IInv /\ [Next]_vars => IInv'
  <1> SUFFICES ASSUME IInv, [Next]_vars PROVE IInv'
    OBVIOUS
  <1>1. CASE UNCHANGED vars
    BY <1>1 DEF vars, vCpu, vHistoria, IInv, Tipos, Limpia, Ninguna, UnaDelTipo
  <1>2. CASE Next
    BY <1>2, ConservaInterrupt, ConservaExecute, ConservaRevisa, ConservaKernel
       DEF Next, HiloCiclo
  <1> QED BY <1>1, <1>2

(* A flag that an instruction raised never reaches the process that runs   *)
(* next (the flags of check_interrupt, cpu.c), unless an interrupt         *)
(* collided with an instruction that had already called the kernel.        *)
THEOREM NadieHeredaBanderas == Spec => []BanderasBajas
  <1>1. IInv => BanderasBajas
    BY DEF IInv, Tipos, Limpia, Ninguna, BanderasBajas
  <1> QED BY <1>1, BanderasIniciales, BanderasInductivas, PTL DEF Spec

-----------------------------------------------------------------------------
(* The conversation.                                                       *)

(* How a process leaves the CPU, and the words that say it.                *)
Llamadas == {"io", "fs", "wait", "signal"}
Salidas == Llamadas \cup {"fin", "quantum"}

Abre(k) ==
    CASE k = "fin" -> "FINALIZAR_PROCESO" [] k = "quantum" -> "FIN_DE_QUANTUM"
      [] k \in {"io", "fs"} -> "INSTRUCCION_INTERFAZ"
      [] k = "wait" -> "WAIT_RECURSO" [] k = "signal" -> "SIGNAL_RECURSO"

Largo(k) == CASE k \in {"fin", "quantum"} -> 2 [] k = "fs" -> 4 [] OTHER -> 3

Palabra(k, i) ==
    CASE i = 1 -> Abre(k)
      [] i = 2 -> (CASE k = "fin" -> "fin" [] k = "quantum" -> "cde" [] k = "io" -> "datos_io"
                     [] k = "fs" -> "datos_fs" [] OTHER -> "recurso")
      [] i = 3 -> "cde"
      [] OTHER -> "archivo"

(* What the kernel waits for when it has read l words.                     *)
OperacionEn(k, l) ==
    IF l = 0 THEN Nada
    ELSE [op |-> Abre(k),
          falta |-> IF l = 1 THEN Falta[Abre(k)] ELSE IF k = "fs" THEN <<"cde", "archivo">> ELSE <<"cde">>]

Pendiente == [op |-> "INSTRUCCION_INTERFAZ", falta |-> <<"archivo">>]

ConContexto == {"cde", "fin"}

(* Of the words of k, with the context x, the kernel read l and the CPU    *)
(* wrote e; d is 1 when the name of a file is before them, of a process    *)
(* that left already.                                                      *)
Dicho(d, k, l, e, x) ==
    /\ IF d = 1 THEN l = 0 /\ operacion = Pendiente ELSE operacion = OperacionEn(k, l)
    /\ Len(aKernel) = d + e - l
    /\ \A i \in DOMAIN aKernel :
          IF i <= d THEN aKernel[i].que = "archivo"
          ELSE /\ aKernel[i].que = Palabra(k, l + i - d)
               /\ aKernel[i].que \in ConContexto => LeeCde(aKernel[i].cde) = x

Callados == \E d \in {0, 1} : Dicho(d, "fin", 0, 0, NULO)

EsContexto(c) ==
    /\ c = [pid |-> c.pid, PC |-> c.PC, registros |-> [r \in Registros |-> c.registros[r]]]
    /\ c.pid \in Procesos

(* The CPU has a process, and its turn has not ended.                      *)
EnCpu == pcD # "recibe" /\ escribio # "fin"
Suyo == EnCpu /\ aCpu = <<>> /\ cde.pid = enExec

(* Whose turn it is to speak.                                              *)
Libre == enExec = NULO /\ ~EnCpu /\ aCpu = <<>> /\ Callados
Despachado ==
    /\ enExec # NULO /\ ~EnCpu /\ Callados
    /\ Len(aCpu) = 1 /\ EsContexto(LeeCde(aCpu[1])) /\ LeeCde(aCpu[1]).pid = enExec
Calculando == Suyo /\ escribio = "nada" /\ Callados
Llamando ==
    /\ Suyo /\ pcD # "instruccion"
    /\ \E d \in {0, 1} : \E k \in Llamadas : \E l \in 0..2 :
          /\ interrupcion[k] /\ escribio = (IF k \in {"io", "fs"} THEN "interfaz" ELSE "recurso")
          /\ Dicho(d, k, l, 2, NULO)
Saliendo ==
    /\ enExec # NULO /\ ~EnCpu /\ aCpu = <<>>
    /\ \E d \in {0, 1} : \E k \in Salidas : \E l \in 0..2 : \E x \in Vuelven :
          /\ l < Largo(k) /\ x.pid = enExec /\ EsContexto(x) /\ Dicho(d, k, l, Largo(k), x)
          /\ pcD # "recibe" => x = cde /\ k = "fin"

(* Who the CPU is at work for, once it said that the process ended.        *)
Turno ==
    /\ Libre \/ Despachado \/ Calculando \/ Llamando \/ Saliendo
    /\ pcD # "recibe" /\ escribio = "fin" =>
          cde.pid \notin listos /\ (cde.pid = enExec => Saliendo)

Cuentas ==
    /\ enExec \in Procesos \cup {NULO} /\ enExec \notin listos /\ listos \subseteq Procesos
    /\ DOMAIN guardado = Procesos
    /\ \A p \in Procesos : EsContexto(guardado[p]) /\ guardado[p].pid = p
    /\ bloqueo = [paso |-> bloqueo.paso, p |-> bloqueo.p]
    /\ bloqueo.paso = "no" => bloqueo = SinOrden
    /\ bloqueo.paso # "no" =>
          bloqueo.p \in Procesos /\ EsContexto(cde_interrumpido) /\ cde_interrumpido.pid = bloqueo.p
    /\ bloqueo.paso = "orden" => enExec = NULO
    /\ bloqueo.paso \in {"orden", "mueve"} => bloqueo.p # enExec
    /\ pcD # "recibe" => EsContexto(cde) /\ registros = cde.registros
    /\ pcD \in {"revisa", "revisa_exit"} => (salida_exit <=> escribio # "fin")
    /\ pcD \in {"recibe", "instruccion"} => escribio = "nada"

Sec(s) == \E S : s \in Seq(S)

(* Until an interrupt collides with an instruction.                      *)
EnOrden == ~choque => ~desorden /\ Cuentas /\ Turno /\ Sec(aKernel) /\ Sec(aCpu)

(* Sequences, of whatever elements.                                      *)
LEMMA SecTail ==
    ASSUME NEW s, Sec(s), Len(s) > 0
    PROVE  /\ Sec(Tail(s)) /\ Len(Tail(s)) = Len(s) - 1 /\ Head(s) = s[1] /\ Len(s) \in Nat
           /\ DOMAIN s = 1..Len(s) /\ DOMAIN Tail(s) = 1..(Len(s) - 1)
           /\ \A i \in DOMAIN Tail(s) : Tail(s)[i] = s[i + 1] /\ i + 1 \in DOMAIN s
  <1>1. PICK S : s \in Seq(S)
    BY DEF Sec
  <1>2. s # <<>> /\ Tail(s) \in Seq(S)
    BY <1>1
  <1> QED BY <1>1, <1>2 DEF Sec

LEMMA SecConcat ==
    ASSUME NEW s, NEW t, Sec(s), Sec(t)
    PROVE  /\ Sec(s \o t) /\ Len(s \o t) = Len(s) + Len(t) /\ Len(s) \in Nat /\ Len(t) \in Nat
           /\ DOMAIN s = 1..Len(s) /\ DOMAIN (s \o t) = 1..(Len(s) + Len(t))
           /\ \A i \in 1..Len(s) : (s \o t)[i] = s[i]
           /\ \A i \in 1..Len(t) : (s \o t)[Len(s) + i] = t[i]
  <1>1. PICK S : s \in Seq(S)
    BY DEF Sec
  <1>2. PICK T : t \in Seq(T)
    BY DEF Sec
  <1> DEFINE U == S \cup T
  <1>3. s \in Seq(U) /\ t \in Seq(U)
    BY <1>1, <1>2
  <1> HIDE DEF U
  <1>4. s \o t \in Seq(U)
    BY <1>3
  <1>5. Sec(s \o t)
    BY <1>4 DEF Sec
  <1>6. /\ Len(s \o t) = Len(s) + Len(t) /\ Len(s) \in Nat /\ Len(t) \in Nat
        /\ DOMAIN s = 1..Len(s) /\ DOMAIN (s \o t) = 1..(Len(s) + Len(t))
    BY <1>3, <1>4
  <1>7. \A i \in 1..Len(s) : (s \o t)[i] = s[i]
    BY <1>3, <1>6
  <1>8. \A i \in 1..Len(t) : (s \o t)[Len(s) + i] = t[i]
    BY <1>3, <1>6
  <1> QED BY <1>5, <1>6, <1>7, <1>8

LEMMA SecTuplas ==
    ASSUME NEW a, NEW b
    PROVE  /\ Sec(<<>>) /\ Sec(<<a>>) /\ Sec(<<a, b>>)
           /\ Len(<<a>>) = 1 /\ Len(<<a, b>>) = 2 /\ Len(<<>>) = 0
           /\ Head(<<a>>) = a /\ Head(<<a, b>>) = a
           /\ Tail(<<a>>) = <<>> /\ Tail(<<a, b>>) = <<b>>
  <1> DEFINE S == {a, b}
  <1>1. <<>> \in Seq(S) /\ <<a>> \in Seq(S) /\ <<a, b>> \in Seq(S)
    OBVIOUS
  <1>2. /\ Len(<<a>>) = 1 /\ Len(<<a, b>>) = 2 /\ Len(<<>>) = 0
        /\ Head(<<a>>) = a /\ Head(<<a, b>>) = a
        /\ Tail(<<a>>) = <<>> /\ Tail(<<a, b>>) = <<b>>
    OBVIOUS
  <1> HIDE DEF S
  <1>3. Sec(<<>>) /\ Sec(<<a>>) /\ Sec(<<a, b>>)
    BY <1>1 DEF Sec
  <1> QED BY <1>2, <1>3

(* The script of every way to leave the CPU.                             *)
LEMMA Guion ==
    ASSUME NEW k \in Salidas
    PROVE  /\ Abre(k) \in DOMAIN Falta /\ Palabra(k, 1) = Abre(k)
           /\ Abre(k) \notin ConContexto \cup {"archivo", "recurso", "datos_io", "datos_fs"}
           /\ Falta[Abre(k)] = IF k \in {"fin"} THEN <<"fin">> ELSE IF k = "quantum" THEN <<"cde">>
                               ELSE IF k \in {"io", "fs"} THEN <<"datos">> ELSE <<"recurso", "cde">>
           /\ Abre(k) = "FINALIZAR_PROCESO" <=> k = "fin"
           /\ Abre(k) = "FIN_DE_QUANTUM" <=> k = "quantum"
           /\ Abre(k) = "INSTRUCCION_INTERFAZ" <=> k \in {"io", "fs"}
           /\ Abre(k) \in {"WAIT_RECURSO", "SIGNAL_RECURSO"} <=> k \in {"wait", "signal"}
  BY DEF Salidas, Llamadas, Abre, Palabra, Falta, ConContexto

LEMMA Palabras ==
    /\ Palabra("fin", 2) = "fin" /\ Palabra("quantum", 2) = "cde"
    /\ Palabra("io", 2) = "datos_io" /\ Palabra("fs", 2) = "datos_fs"
    /\ Palabra("wait", 2) = "recurso" /\ Palabra("signal", 2) = "recurso"
    /\ \A k : Palabra(k, 3) = "cde" /\ Palabra(k, 4) = "archivo"
    /\ Largo("fin") = 2 /\ Largo("quantum") = 2 /\ Largo("fs") = 4
    /\ Largo("io") = 3 /\ Largo("wait") = 3 /\ Largo("signal") = 3
  BY DEF Palabra, Largo

(* The kernel reads what is before the words.                            *)
LEMMA LeeArchivo ==
    ASSUME Sec(aKernel), NEW k \in Salidas, NEW e \in 0..4, NEW x, Dicho(1, k, 0, e, x)
    PROVE  /\ Len(aKernel) > 0 /\ Leido.que = "archivo"
           /\ operacion = Pendiente /\ operacion # Nada /\ Espera = "archivo" /\ Tail(operacion.falta) = <<>>
           /\ Acepta
           /\ aKernel' = Tail(aKernel) /\ operacion' = Nada => Dicho(0, k, 0, e, x)'
  <1>1. /\ operacion = Pendiente /\ Len(aKernel) = 1 + e
        /\ \A i \in DOMAIN aKernel :
              IF i <= 1 THEN aKernel[i].que = "archivo"
              ELSE /\ aKernel[i].que = Palabra(k, 0 + i - 1)
                   /\ aKernel[i].que \in ConContexto => LeeCde(aKernel[i].cde) = x
    BY DEF Dicho
  <1>2. Len(aKernel) > 0
    BY <1>1
  <1>3. Leido.que = "archivo"
    BY <1>1, <1>2, SecTail DEF Leido
  <1>4. operacion # Nada /\ Espera = "archivo" /\ Tail(operacion.falta) = <<>>
    BY <1>1, SecTuplas DEF Pendiente, Nada, Espera
  <1>5. ASSUME aKernel' = Tail(aKernel), operacion' = Nada PROVE Dicho(0, k, 0, e, x)'
    <2>1. /\ Len(aKernel') = e /\ DOMAIN aKernel' = 1..e
          /\ \A i \in DOMAIN aKernel' : aKernel'[i] = aKernel[i + 1] /\ i + 1 \in DOMAIN aKernel
      BY <1>1, <1>2, <1>5, SecTail
    <2>2. \A i \in DOMAIN aKernel' :
             /\ aKernel'[i].que = Palabra(k, 0 + i - 0)
             /\ aKernel'[i].que \in ConContexto => LeeCde(aKernel'[i].cde) = x
      <3> TAKE i \in DOMAIN aKernel'
      <3>1. i + 1 \in DOMAIN aKernel /\ aKernel'[i] = aKernel[i + 1] /\ ~(i + 1 <= 1) /\ 0 + (i + 1) - 1 = 0 + i - 0
        BY <2>1
      <3> QED BY <1>1, <3>1
    <2>3. \A i \in DOMAIN aKernel' : ~(i <= 0)
      BY <2>1
    <2>4. operacion' = OperacionEn(k, 0)
      BY <1>5 DEF OperacionEn
    <2> QED BY <2>1, <2>2, <2>3, <2>4 DEF Dicho
  <1> QED BY <1>1, <1>2, <1>3, <1>4, <1>5 DEF Acepta

(* The kernel reads the next word; it may be the last one.               *)
LEMMA LeePalabra ==
    ASSUME Sec(aKernel), NEW k \in Salidas, NEW l \in 0..2, NEW e \in 0..4, NEW x,
           Dicho(0, k, l, e, x), l < e
    PROVE  /\ Len(aKernel) > 0 /\ Leido.que = Palabra(k, l + 1)
           /\ Leido.que \in ConContexto => LeeCde(Leido.cde) = x
           /\ operacion = OperacionEn(k, l)
           /\ aKernel' = Tail(aKernel) /\ operacion' = OperacionEn(k, l + 1) => Dicho(0, k, l + 1, e, x)'
           /\ aKernel' = Tail(aKernel) /\ operacion' = Pendiente /\ l = 2 /\ e = 4 => Dicho(1, "fin", 0, 0, NULO)'
           /\ aKernel' = Tail(aKernel) /\ operacion' = Nada /\ e = l + 1 => Dicho(0, "fin", 0, 0, NULO)'
  <1>1. /\ operacion = OperacionEn(k, l) /\ Len(aKernel) = 0 + e - l
        /\ \A i \in DOMAIN aKernel :
              IF i <= 0 THEN aKernel[i].que = "archivo"
              ELSE /\ aKernel[i].que = Palabra(k, l + i - 0)
                   /\ aKernel[i].que \in ConContexto => LeeCde(aKernel[i].cde) = x
    BY DEF Dicho
  <1>2. Len(aKernel) > 0
    BY <1>1
  <1>3. DOMAIN aKernel = 1..Len(aKernel) /\ Leido = aKernel[1]
    BY <1>2, SecTail DEF Leido
  <1>4. Leido.que = Palabra(k, l + 1) /\ (Leido.que \in ConContexto => LeeCde(Leido.cde) = x)
    BY <1>1, <1>2, <1>3
  <1>5. ASSUME aKernel' = Tail(aKernel)
        PROVE  /\ Len(aKernel') = e - l - 1 /\ DOMAIN aKernel' = 1..(e - l - 1)
               /\ \A i \in DOMAIN aKernel' :
                     /\ aKernel'[i].que = Palabra(k, (l + 1) + i)
                     /\ aKernel'[i].que \in ConContexto => LeeCde(aKernel'[i].cde) = x
    <2>1. /\ Len(aKernel') = e - l - 1 /\ DOMAIN aKernel' = 1..(e - l - 1)
          /\ \A i \in DOMAIN aKernel' : aKernel'[i] = aKernel[i + 1] /\ i + 1 \in DOMAIN aKernel
      BY <1>1, <1>2, <1>5, SecTail
    <2>2. ASSUME NEW i \in DOMAIN aKernel'
          PROVE  /\ aKernel'[i].que = Palabra(k, (l + 1) + i)
                 /\ aKernel'[i].que \in ConContexto => LeeCde(aKernel'[i].cde) = x
      <3>1. ~(i + 1 <= 0) /\ l + (i + 1) - 0 = (l + 1) + i
        BY <2>1
      <3> QED BY <1>1, <2>1, <3>1
    <2> QED BY <2>1, <2>2
  <1>6. ASSUME aKernel' = Tail(aKernel), operacion' = OperacionEn(k, l + 1) PROVE Dicho(0, k, l + 1, e, x)'
    <2>1. \A i \in DOMAIN aKernel' : ~(i <= 0) /\ (l + 1) + i - 0 = (l + 1) + i
      BY <1>5, <1>6
    <2>2. Len(aKernel') = 0 + e - (l + 1)
      BY <1>5, <1>6
    <2> QED BY <1>5, <1>6, <2>1, <2>2 DEF Dicho
  <1>7. ASSUME aKernel' = Tail(aKernel), operacion' = Pendiente, l = 2, e = 4 PROVE Dicho(1, "fin", 0, 0, NULO)'
    <2>1. Len(aKernel') = 1 + 0 - 0 /\ \A i \in DOMAIN aKernel' : i = 1
      BY <1>5, <1>7
    <2>2. \A i \in DOMAIN aKernel' : i <= 1 /\ aKernel'[i].que = "archivo"
      BY <1>5, <1>7, <2>1, Palabras
    <2> QED BY <1>7, <2>1, <2>2 DEF Dicho
  <1>8. ASSUME aKernel' = Tail(aKernel), operacion' = Nada, e = l + 1 PROVE Dicho(0, "fin", 0, 0, NULO)'
    <2>1. Len(aKernel') = 0 + 0 - 0 /\ DOMAIN aKernel' = {}
      BY <1>5, <1>8
    <2>2. operacion' = OperacionEn("fin", 0)
      BY <1>8 DEF OperacionEn
    <2> QED BY <2>1, <2>2 DEF Dicho
  <1> QED BY <1>1, <1>2, <1>4, <1>6, <1>7, <1>8

(* The CPU writes the next words.                                        *)
LEMMA Escribe ==
    ASSUME Sec(aKernel), NEW d \in {0, 1}, NEW k \in Salidas, NEW l \in 0..2, NEW e \in 0..4, NEW x, NEW y,
           Dicho(d, k, l, e, x), l <= e, operacion' = operacion,
           NEW t, Sec(t), aKernel' = aKernel \o t,
           \A i \in 1..(e - l) : Palabra(k, l + i) \notin ConContexto \/ x = y,
           \A i \in 1..Len(t) : /\ t[i].que = Palabra(k, e + i)
                                /\ t[i].que \in ConContexto => LeeCde(t[i].cde) = y
    PROVE  Dicho(d, k, l, e + Len(t), y)'
  <1>1. /\ Len(aKernel) = d + e - l
        /\ \A i \in DOMAIN aKernel :
              IF i <= d THEN aKernel[i].que = "archivo"
              ELSE /\ aKernel[i].que = Palabra(k, l + i - d)
                   /\ aKernel[i].que \in ConContexto => LeeCde(aKernel[i].cde) = x
    BY DEF Dicho
  <1>2. /\ Len(aKernel') = Len(aKernel) + Len(t) /\ Len(t) \in Nat /\ Len(aKernel) \in Nat
        /\ DOMAIN aKernel = 1..Len(aKernel) /\ DOMAIN aKernel' = 1..(Len(aKernel) + Len(t))
        /\ \A i \in 1..Len(aKernel) : aKernel'[i] = aKernel[i]
        /\ \A i \in 1..Len(t) : aKernel'[Len(aKernel) + i] = t[i]
    BY SecConcat
  <1>3. Len(aKernel') = d + (e + Len(t)) - l
    BY <1>1, <1>2
  <1>4. ASSUME NEW i \in DOMAIN aKernel'
        PROVE  IF i <= d THEN aKernel'[i].que = "archivo"
               ELSE /\ aKernel'[i].que = Palabra(k, l + i - d)
                    /\ aKernel'[i].que \in ConContexto => LeeCde(aKernel'[i].cde) = y
    <2>1. CASE i \in DOMAIN aKernel
      <3>1. aKernel'[i] = aKernel[i]
        BY <1>2, <2>1
      <3>2. ASSUME ~(i <= d) PROVE Palabra(k, l + i - d) \notin ConContexto \/ x = y
        <4>1. i - d \in 1..(e - l) /\ l + (i - d) = l + i - d
          BY <1>1, <1>2, <2>1, <3>2
        <4> QED BY <4>1
      <3> QED BY <1>1, <2>1, <3>1, <3>2
    <2>2. CASE i \notin DOMAIN aKernel
      <3>1. PICK j \in 1..Len(t) : i = Len(aKernel) + j
        <4>1. i - Len(aKernel) \in 1..Len(t) /\ i = Len(aKernel) + (i - Len(aKernel))
          BY <1>2, <2>2
        <4> QED BY <4>1
      <3>2. ~(i <= d) /\ l + i - d = e + j
        BY <1>1, <1>2, <3>1
      <3>3. aKernel'[i] = t[j]
        BY <1>2, <3>1
      <3> QED BY <3>2, <3>3
    <2> QED BY <2>1, <2>2
  <1>5. IF d = 1 THEN l = 0 /\ operacion' = Pendiente ELSE operacion' = OperacionEn(k, l)
    BY DEF Dicho
  <1> QED BY <1>3, <1>4, <1>5 DEF Dicho

(* Nobody reads nor writes.                                              *)
LEMMA DichoIgual ==
    ASSUME NEW d, NEW k, NEW l, NEW e, NEW x, Dicho(d, k, l, e, x), UNCHANGED <<operacion, aKernel>>
    PROVE  Dicho(d, k, l, e, x)'
  BY DEF Dicho

(* With nothing said, any words may come.                                *)
LEMMA DichoNada ==
    ASSUME Sec(aKernel), NEW d \in {0, 1}, Dicho(d, "fin", 0, 0, NULO), NEW k \in Salidas, NEW x
    PROVE  Dicho(d, k, 0, 0, x)
  <1>1. Len(aKernel) = d /\ DOMAIN aKernel = 1..d
    <2>1. Len(aKernel) = d
      BY DEF Dicho
    <2>2. DOMAIN aKernel = 1..Len(aKernel)
      BY DEF Sec
    <2> QED BY <2>1, <2>2
  <1>2. OperacionEn(k, 0) = OperacionEn("fin", 0)
    BY DEF OperacionEn
  <1> QED BY <1>1, <1>2 DEF Dicho

-----------------------------------------------------------------------------
(* The steps of the CPU.                                                 *)

LEMMA OrdenInicial == Init => EnOrden
  <1> SUFFICES ASSUME Init PROVE ~desorden /\ Cuentas /\ Turno /\ Sec(aKernel) /\ Sec(aCpu)
    BY DEF EnOrden
  <1>1. Cuentas
    <2>1. \A p \in Procesos : EsContexto(Contexto(p)) /\ Contexto(p).pid = p
      BY DEF EsContexto, Contexto, Cero
    <2> QED BY <2>1, NuloAssumption DEF Init, Cuentas, SinOrden
  <1>2. Dicho(0, "fin", 0, 0, NULO)
    BY SecTuplas DEF Init, Dicho, OperacionEn
  <1>3. Libre
    BY <1>2 DEF Init, Libre, EnCpu, Callados
  <1>4. Sec(<<>>)
    BY SecTuplas
  <1> QED BY <1>1, <1>3, <1>4 DEF Init, Turno

(* Nothing of the conversation changes.                                  *)
LEMMA OrdenIgual ==
    ASSUME EnOrden, ~choque, UNCHANGED <<desorden, enExec, listos, guardado, bloqueo, cde_interrumpido,
                                         registros, cde, salida_exit, aCpu, aKernel,
                               operacion>>,
           \/ pcD' = pcD /\ escribio' = escribio
           \/ pcD \in {"revisa", "revisa_exit"} /\ pcD' \in {"revisa", "revisa_exit"} /\ escribio' = escribio,
           \A k \in Llamadas : interrupcion'[k] = interrupcion[k]
    PROVE  EnOrden'
  <1>1. Cuentas /\ Turno
    BY DEF EnOrden
  <1>2. Cuentas'
    BY <1>1 DEF Cuentas
  <1>3. \A d, k, l, e, x : Dicho(d, k, l, e, x)' <=> Dicho(d, k, l, e, x)
    BY DEF Dicho
  <1>4. Callados' <=> Callados
    BY <1>3 DEF Callados
  <1>5. EnCpu' <=> EnCpu
    BY DEF EnCpu
  <1>6. Vuelven' = Vuelven
    BY DEF Vuelven
  <1>7. /\ Libre' <=> Libre
        /\ Despachado' <=> Despachado
        /\ Calculando' <=> Calculando
    BY <1>4, <1>5 DEF Libre, Despachado, Calculando, Suyo
  <1>8. Llamando => Llamando'
    BY <1>3, <1>5 DEF Llamando, Suyo
  <1>9. Saliendo' <=> Saliendo
    BY <1>3, <1>5, <1>6 DEF Saliendo
  <1>10. Turno'
    BY <1>1, <1>7, <1>8, <1>9 DEF Turno
  <1> QED BY <1>2, <1>10 DEF EnOrden

(* The interrupt thread only raises the flags of the interrupts.         *)
LEMMA OrdenInterrupt == ASSUME IInv, EnOrden, HiloInterrupt PROVE EnOrden'
  <1>1. /\ UNCHANGED <<choque, desorden, enExec, listos, guardado, bloqueo, cde_interrumpido, registros,
                       cde, salida_exit, aCpu, aKernel,
                       operacion, pcD, escribio>>
    BY DEF HiloInterrupt, InterrupMira, InterrupEspera, InterrupRecibe, vKernel, vBloqueo, vHistoria
  <1>2. \A k \in Llamadas : interrupcion'[k] = interrupcion[k]
    <2>1. CASE InterrupRecibe
      <3>1. Head(aInterrupt) \in {"rr", "exit"}
        BY <2>1 DEF InterrupRecibe, IInv, Tipos
      <3> QED BY <2>1, <3>1 DEF InterrupRecibe, IInv, Tipos, Llamadas, Banderas
    <2> QED BY <2>1 DEF HiloInterrupt, InterrupMira, InterrupEspera
  <1>3. CASE choque
    BY <1>1, <1>3 DEF EnOrden
  <1> QED BY <1>1, <1>2, <1>3, OrdenIgual

(* The CPU takes the context that the kernel sent.                       *)
LEMMA OrdenDespacho == ASSUME EnOrden, Despacho PROVE EnOrden'
  <1>1. /\ pcD = "recibe" /\ aCpu # <<>> /\ cde' = LeeCde(Head(aCpu)) /\ aCpu' = Tail(aCpu)
        /\ registros' = cde'.registros /\ pcD' = "instruccion"
        /\ UNCHANGED <<interrupcion, aKernel, enExec, listos, guardado, bloqueo, cde_interrumpido,
                       operacion, desorden, escribio, choque>>
    BY DEF Despacho, vKernel, vBloqueo, vHistoria
  <1> SUFFICES ASSUME ~choque PROVE EnOrden'
    BY <1>1 DEF EnOrden
  <1>2. Cuentas /\ Turno /\ ~desorden /\ Sec(aKernel) /\ Sec(aCpu)
    BY DEF EnOrden
  <1>3. Despachado
    BY <1>1, <1>2 DEF Turno, Libre, Calculando, Llamando, Saliendo, Suyo, EnCpu
  <1>4. /\ cde' = LeeCde(aCpu[1]) /\ enExec \in Procesos /\ aCpu' = <<>>
    <2>1. Len(aCpu) = 1 /\ enExec # NULO
      BY <1>3 DEF Despachado
    <2>2. Head(aCpu) = aCpu[1]
      BY <1>2, <2>1, SecTail
    <2>3. Tail(aCpu) = <<>>
      <3>1. PICK S : aCpu \in Seq(S)
        BY <1>2 DEF Sec
      <3>2. Tail(aCpu) \in Seq(S) /\ Len(Tail(aCpu)) = 0
        BY <2>1, <3>1
      <3> QED BY <3>2, EmptySeq
    <2> QED BY <1>1, <1>2, <2>1, <2>2, <2>3 DEF Cuentas
  <1>5. EsContexto(cde') /\ cde'.pid = enExec
    BY <1>3, <1>4 DEF Despachado
  <1>6. escribio' = "nada"
    BY <1>1, <1>2 DEF Cuentas
  <1>7. Callados'
    BY <1>1, <1>3, DichoIgual DEF Despachado, Callados
  <1>8. Calculando'
    BY <1>1, <1>4, <1>5, <1>6, <1>7 DEF Calculando, Suyo, EnCpu
  <1>9. Cuentas'
    BY <1>1, <1>2, <1>5, <1>6 DEF Cuentas
  <1> QED BY <1>1, <1>2, <1>4, <1>6, <1>8, <1>9, SecTuplas DEF EnOrden, Turno

(* The registers after an instruction are the same registers.            *)
LEMMA OperaRegistros ==
    ASSUME NEW rs, rs = [r \in Registros |-> rs[r]], NEW i
    PROVE  Opera(rs, i) = [r \in Registros |-> Opera(rs, i)[r]]
  <1>1. ASSUME NEW a, NEW v PROVE Guarda(rs, a, v) = [r \in Registros |-> Guarda(rs, a, v)[r]]
    BY DEF Guarda
  <1> QED BY <1>1 DEF Opera, Set, Sum, Sub, Jnz

(* With the end of what it said unread, a context is on its way: that one.*)
LEMMA Viaja ==
    \A d \in {0, 1} : \A k \in Salidas : \A l \in 0..2 : \A x :
        Sec(aKernel) /\ l < Largo(k) /\ Dicho(d, k, l, Largo(k), x) => Vuelven = {x}
  <1> SUFFICES ASSUME NEW d \in {0, 1}, NEW k \in Salidas, NEW l \in 0..2, NEW x,
                      Sec(aKernel), l < Largo(k), Dicho(d, k, l, Largo(k), x)
               PROVE  Vuelven = {x}
    OBVIOUS
  <1> DEFINE c == IF k \in {"fin", "quantum"} THEN 2 ELSE 3
  <1>1. /\ Len(aKernel) = d + Largo(k) - l /\ DOMAIN aKernel = 1..Len(aKernel)
        /\ \A i \in DOMAIN aKernel :
              IF i <= d THEN aKernel[i].que = "archivo"
              ELSE /\ aKernel[i].que = Palabra(k, l + i - d)
                   /\ aKernel[i].que \in ConContexto => LeeCde(aKernel[i].cde) = x
    BY DEF Dicho, Sec
  <1>2. Largo(k) \in {2, 3, 4} /\ c <= Largo(k) /\ l < c /\ c \in {2, 3}
    BY Palabras DEF Salidas, Llamadas
  <1>3. Palabra(k, c) \in ConContexto
    BY Palabras DEF Salidas, Llamadas, ConContexto
  <1> HIDE DEF c
  <1>4. d + c - l \in DOMAIN aKernel /\ ~(d + c - l <= d) /\ l + (d + c - l) - d = c
    BY <1>1, <1>2
  <1>5. aKernel[d + c - l].que \in ConContexto /\ LeeCde(aKernel[d + c - l].cde) = x
    BY <1>1, <1>3, <1>4
  <1>6. \A i \in DOMAIN aKernel : aKernel[i].que \in ConContexto => LeeCde(aKernel[i].cde) = x
    BY <1>1 DEF ConContexto
  <1> QED BY <1>4, <1>5, <1>6 DEF Vuelven, ConContexto

(* The same, after a step.                                               *)
LEMMA ViajaDespues ==
    (\A d \in {0, 1} : \A k \in Salidas : \A l \in 0..2 : \A x :
        Sec(aKernel) /\ l < Largo(k) /\ Dicho(d, k, l, Largo(k), x) => Vuelven = {x})'
  BY Viaja, PTL

(* What an instruction writes in one go, with nothing said before.       *)
LEMMA EscribeDos ==
    ASSUME Sec(aKernel), Callados, NEW k \in Salidas, NEW a, NEW b, NEW x,
           aKernel' = aKernel \o <<a, b>>, operacion' = operacion,
           a.que = Palabra(k, 1), b.que = Palabra(k, 2),
           b.que \in ConContexto => LeeCde(b.cde) = x
    PROVE  Sec(aKernel') /\ \E d \in {0, 1} : Dicho(d, k, 0, 2, x)'
  <1>1. PICK d \in {0, 1} : Dicho(d, "fin", 0, 0, NULO)
    BY DEF Callados
  <1>2. Dicho(d, k, 0, 0, x)
    BY <1>1, DichoNada
  <1> DEFINE t == <<a, b>>
  <1>3. Sec(t) /\ Len(t) = 2 /\ t[1] = a /\ t[2] = b
    BY SecTuplas
  <1>4. a.que \notin ConContexto
    BY Guion DEF ConContexto
  <1>5. aKernel' = aKernel \o t
    OBVIOUS
  <1> HIDE DEF t
  <1> PICK z \in 0..2 : z = 0
    OBVIOUS
  <1>6. \A i \in 1..Len(t) : /\ t[i].que = Palabra(k, z + i)
                             /\ t[i].que \in ConContexto => LeeCde(t[i].cde) = x
    BY <1>3, <1>4
  <1>7. Dicho(d, k, z, z, x) /\ z <= z /\ z \in 0..4
    BY <1>2
  <1>8. Dicho(d, k, z, z + Len(t), x)'
    BY <1>3, <1>5, <1>6, <1>7, Escribe
  <1>9. Sec(aKernel')
    BY <1>3, <1>5, SecConcat
  <1> QED BY <1>3, <1>8, <1>9

(* An instruction says nothing, or the first two words of its call.      *)
LEMMA OrdenExecute == ASSUME IInv, EnOrden, Execute PROVE EnOrden'
  <1>1. /\ pcD = "instruccion" /\ pcD' = "revisa"
        /\ registros' = Opera(registros, Instruccion(cde))
        /\ cde' = [cde EXCEPT !.PC = Contador(cde, Instruccion(cde)), !.registros = registros']
        /\ UNCHANGED <<aCpu, enExec, listos, guardado, bloqueo, cde_interrumpido, operacion, desorden, choque>>
    BY DEF Execute, Calcula, Resize, Recurso, EntradaSalida, Exit, Ejecuta, vKernel, vBloqueo
  <1> SUFFICES ASSUME ~choque PROVE EnOrden'
    BY <1>1 DEF EnOrden
  <1>2. Cuentas /\ Turno /\ ~desorden /\ Sec(aKernel) /\ Sec(aCpu)
    BY DEF EnOrden
  <1>3. escribio = "nada" /\ EsContexto(cde) /\ registros = cde.registros
    BY <1>1, <1>2 DEF Cuentas
  <1>4. Calculando
    BY <1>1, <1>2, <1>3 DEF Turno, Libre, Despachado, Llamando, Saliendo, EnCpu
  <1>5. Callados /\ aCpu = <<>> /\ cde.pid = enExec
    BY <1>4 DEF Calculando, Suyo
  <1>6. /\ cde'.pid = cde.pid /\ registros' = cde'.registros /\ EsContexto(cde')
        /\ cde'.PC = Contador(cde, Instruccion(cde))
    <2>1. registros' = [r \in Registros |-> registros'[r]]
      BY <1>1, <1>3, OperaRegistros DEF EsContexto
    <2>2. cde' = [pid |-> cde.pid, PC |-> Contador(cde, Instruccion(cde)), registros |-> registros']
      BY <1>1, <1>3 DEF EsContexto
    <2> HIDE DEF Opera
    <2> QED BY <1>3, <2>1, <2>2 DEF EsContexto
  <1>7. ASSUME escribio' # "fin" => salida_exit' = TRUE, escribio' = "fin" => salida_exit' = FALSE
        PROVE  Cuentas'
    BY <1>1, <1>2, <1>6, <1>7 DEF Cuentas
  <1>8. CASE Calcula
    <2>1. aKernel' = aKernel \o <<>> /\ salida_exit' = TRUE /\ escribio' = "nada"
      BY <1>8 DEF Calcula, Ejecuta
    <2>2. aKernel' = aKernel
      <3>1. PICK S : aKernel \in Seq(S)
        BY <1>2 DEF Sec
      <3> QED BY <2>1, <3>1, ConcatEmptySeq
    <2>3. Calculando'
      BY <1>1, <1>5, <1>6, <2>1, <2>2, DichoIgual DEF Calculando, Suyo, EnCpu, Callados
    <2> QED BY <1>1, <1>2, <1>7, <2>1, <2>2, <2>3 DEF EnOrden, Turno
  <1>9. ASSUME Instruccion(cde).op \in {"RESIZE", "EXIT"},
               aKernel' = aKernel \o <<Op("FINALIZAR_PROCESO"), BufferCde("fin", Traido)>>,
               salida_exit' = FALSE, escribio' = "fin"
        PROVE  EnOrden'
    <2>1. cde' = Traido
      BY <1>1, <1>3, <1>9 DEF Traido, Contador, Opera, EsContexto
    <2>2. PICK x : x = cde'
      OBVIOUS
    <2>3. /\ BufferCde("fin", Traido).que = "fin" /\ LeeCde(BufferCde("fin", Traido).cde) = x
          /\ Op("FINALIZAR_PROCESO").que = "FINALIZAR_PROCESO"
      BY <1>6, <2>1, <2>2 DEF BufferCde, Op, LeeCde, AgregaCde, LeeRegistros, AgregaRegistros, EsContexto, Registros
    <2>4. Palabra("fin", 1) = "FINALIZAR_PROCESO" /\ Palabra("fin", 2) = "fin" /\ Largo("fin") = 2 /\ "fin" \in Salidas
      BY Palabras, Guion DEF Salidas
    <2>5. Sec(aKernel') /\ \E d \in {0, 1} : Dicho(d, "fin", 0, Largo("fin"), x)'
      BY <1>1, <1>2, <1>5, <1>9, <2>3, <2>4, EscribeDos
    <2>6. Vuelven' = {x}
      BY <2>4, <2>5, ViajaDespues
    <2>7. Saliendo'
      <3>1. enExec' # NULO /\ ~EnCpu' /\ aCpu' = <<>> /\ pcD' # "recibe"
        BY <1>1, <1>3, <1>5, <1>9, NuloAssumption DEF EnCpu, EsContexto
      <3>2. x \in Vuelven' /\ x.pid = enExec' /\ EsContexto(x) /\ x = cde'
        BY <1>1, <1>5, <1>6, <2>2, <2>6
      <3>3. 0 \in 0..2 /\ 0 < Largo("fin")
        BY <2>4
      <3> QED BY <2>4, <2>5, <3>1, <3>2, <3>3 DEF Saliendo
    <2>8. cde'.pid \notin listos'
      BY <1>1, <1>2, <1>5, <1>6 DEF Cuentas
    <2> QED BY <1>1, <1>2, <1>7, <1>9, <2>5, <2>7, <2>8 DEF EnOrden, Turno
  <1>10. CASE Resize
    <2>1. CASE escribio' = "nada"
      <3>1. aKernel' = aKernel \o <<>> /\ salida_exit' = TRUE
        BY <1>10, <2>1 DEF Resize, Ejecuta
      <3>2. aKernel' = aKernel
        <4>1. PICK S : aKernel \in Seq(S)
          BY <1>2 DEF Sec
        <4> QED BY <3>1, <4>1, ConcatEmptySeq
      <3>3. Calculando'
        BY <1>1, <1>5, <1>6, <2>1, <3>2, DichoIgual DEF Calculando, Suyo, EnCpu, Callados
      <3> QED BY <1>1, <1>2, <1>7, <2>1, <3>1, <3>2, <3>3 DEF EnOrden, Turno
    <2>2. CASE escribio' # "nada"
      BY <1>9, <1>10, <2>2 DEF Resize, Ejecuta
    <2> QED BY <2>1, <2>2
  <1>11. CASE Exit
    BY <1>9, <1>11 DEF Exit, Ejecuta
  <1>12. ASSUME NEW k \in Llamadas, NEW a, NEW b, aKernel' = aKernel \o <<a, b>>,
                a.que = Palabra(k, 1), b.que = Palabra(k, 2), interrupcion'[k] = TRUE,
                escribio' = (IF k \in {"io", "fs"} THEN "interfaz" ELSE "recurso"), salida_exit' = TRUE
         PROVE  EnOrden'
    <2>1. k \in Salidas /\ b.que \notin ConContexto
      BY <1>12, Palabras DEF Salidas, Llamadas, ConContexto
    <2>2. Sec(aKernel') /\ \E d \in {0, 1} : Dicho(d, k, 0, 2, NULO)'
      BY <1>1, <1>2, <1>5, <1>12, <2>1, EscribeDos
    <2>3. Llamando'
      BY <1>1, <1>5, <1>6, <1>12, <2>2 DEF Llamando, Suyo, EnCpu
    <2> QED BY <1>1, <1>2, <1>7, <1>12, <2>2, <2>3 DEF EnOrden, Turno
  <1>13. interrupcion \in [Banderas -> BOOLEAN]
    BY DEF IInv, Tipos
  <1>14. CASE Recurso
    <2>1. \E k \in {"wait", "signal"} :
             /\ aKernel' = aKernel \o <<Op(Abre(k)), Buffer("recurso")>>
             /\ interrupcion'[k] = TRUE /\ escribio' = "recurso" /\ salida_exit' = TRUE
      BY <1>13, <1>14 DEF Recurso, Ejecuta, Abre, Banderas
    <2>2. PICK k \in {"wait", "signal"} :
             /\ aKernel' = aKernel \o <<Op(Abre(k)), Buffer("recurso")>>
             /\ interrupcion'[k] = TRUE /\ escribio' = "recurso" /\ salida_exit' = TRUE
      BY <2>1
    <2>3. k \in Llamadas /\ Op(Abre(k)).que = Palabra(k, 1) /\ Buffer("recurso").que = Palabra(k, 2)
      BY Palabras, Guion DEF Llamadas, Salidas, Op, Buffer
    <2> QED BY <1>12, <2>2, <2>3
  <1>15. CASE EntradaSalida
    <2>1. \E k \in {"io", "fs"} :
             /\ aKernel' = aKernel \o <<Op(Abre(k)), Buffer(Palabra(k, 2))>>
             /\ interrupcion'[k] = TRUE /\ escribio' = "interfaz" /\ salida_exit' = TRUE
      BY <1>13, <1>15, Palabras DEF EntradaSalida, Ejecuta, Abre, Banderas
    <2>2. PICK k \in {"io", "fs"} :
             /\ aKernel' = aKernel \o <<Op(Abre(k)), Buffer(Palabra(k, 2))>>
             /\ interrupcion'[k] = TRUE /\ escribio' = "interfaz" /\ salida_exit' = TRUE
      BY <2>1
    <2>3. k \in Llamadas /\ Op(Abre(k)).que = Palabra(k, 1) /\ Buffer(Palabra(k, 2)).que = Palabra(k, 2)
      BY Guion DEF Llamadas, Salidas, Op, Buffer
    <2> QED BY <1>12, <2>2, <2>3
  <1> QED BY <1>8, <1>10, <1>11, <1>14, <1>15 DEF Execute

(* The process leaves: what Termina wrote ends what was being said.      *)
LEMMA OrdenTermina ==
    ASSUME EnOrden, ~choque, ~choque', pcD \in {"revisa", "revisa_exit"},
           NEW k \in Salidas, NEW x, x = cde, NEW d \in {0, 1}, NEW l \in 0..2,
           Suyo, l < Largo(k), Dicho(d, k, l, Largo(k), x)', Sec(aKernel'),
           Libera,
           UNCHANGED <<aCpu, enExec, listos, guardado, bloqueo, cde_interrumpido, operacion, desorden>>
    PROVE  EnOrden' /\ Vuelven' = {cde}
  <1>1. Cuentas /\ Turno /\ ~desorden /\ Sec(aKernel) /\ Sec(aCpu)
    BY DEF EnOrden
  <1>2. EsContexto(x) /\ x.pid = enExec /\ enExec # NULO /\ aCpu = <<>>
    BY <1>1, NuloAssumption DEF Cuentas, Suyo, EsContexto
  <1>3. pcD' = "recibe" /\ escribio' = "nada"
    BY DEF Libera
  <1>4. Vuelven' = {x}
    BY ViajaDespues
  <1>5. Saliendo'
    <2>1. enExec' # NULO /\ ~EnCpu' /\ aCpu' = <<>> /\ pcD' = "recibe"
      BY <1>2, <1>3 DEF EnCpu
    <2>2. x \in Vuelven' /\ x.pid = enExec' /\ EsContexto(x)
      BY <1>2, <1>4
    <2> QED BY <2>1, <2>2 DEF Saliendo
  <1>6. Cuentas'
    BY <1>1, <1>3 DEF Cuentas
  <1> QED BY <1>1, <1>3, <1>4, <1>5, <1>6 DEF EnOrden, Turno

(* A context that crosses a socket is the same on the other side.        *)
LEMMA IdaYVuelta ==
    ASSUME NEW c, EsContexto(c)
    PROVE  LeeCde(AgregaCde(c)) = c
  BY DEF LeeCde, AgregaCde, LeeRegistros, AgregaRegistros, EsContexto, Registros

(* Nothing said: the process is sent back or ended.                      *)
LEMMA OrdenDesaloja ==
    ASSUME EnOrden, ~choque, ~choque', pcD \in {"revisa", "revisa_exit"}, Calculando,
           \/ Termina({"rr", "exit"}, Interrumpido) \/ Termina({"exit"}, Interrumpido)
           \/ Termina({"rr"}, Desalojado)
    PROVE  EnOrden' /\ Vuelven' = {cde}
  <1>1. Cuentas /\ Turno /\ ~desorden /\ Sec(aKernel) /\ Sec(aCpu)
    BY DEF EnOrden
  <1>2. /\ Libera /\ UNCHANGED <<aCpu, enExec, listos, guardado, bloqueo, cde_interrumpido, operacion,
                                 desorden>>
        /\ \/ aKernel' = aKernel \o Interrumpido
           \/ aKernel' = aKernel \o Desalojado
    BY DEF Termina, vKernel, vBloqueo
  <1>3. Callados /\ Suyo
    BY DEF Calculando
  <1>4. EsContexto(cde)
    BY <1>1 DEF Cuentas
  <1> PICK x : x = cde
    OBVIOUS
  <1>5. ASSUME NEW k \in {"fin", "quantum"}, NEW a, NEW b, aKernel' = aKernel \o <<a, b>>,
               a.que = Palabra(k, 1), b.que = Palabra(k, 2), b.cde = AgregaCde(cde)
        PROVE  EnOrden' /\ Vuelven' = {cde}
    <2>1. k \in Salidas /\ Largo(k) = 2
      BY Palabras DEF Salidas
    <2>2. LeeCde(b.cde) = x
      BY <1>4, <1>5, IdaYVuelta
    <2>3. Sec(aKernel') /\ \E d \in {0, 1} : Dicho(d, k, 0, 2, x)'
      BY <1>1, <1>2, <1>3, <1>5, <2>1, <2>2, EscribeDos
    <2>4. PICK d \in {0, 1} : Dicho(d, k, 0, 2, x)'
      BY <2>3
    <2>5. PICK l \in 0..2 : l = 0
      OBVIOUS
    <2>6. l < Largo(k) /\ Dicho(d, k, l, Largo(k), x)'
      BY <2>1, <2>4, <2>5
    <2> QED BY <1>2, <1>3, <2>1, <2>3, <2>6, OrdenTermina
  <1>6. CASE aKernel' = aKernel \o Interrumpido
    <2>1. Op("FINALIZAR_PROCESO").que = Palabra("fin", 1) /\ BufferCde("fin", cde).que = Palabra("fin", 2)
          /\ BufferCde("fin", cde).cde = AgregaCde(cde)
      BY Palabras, Guion DEF Op, BufferCde, Salidas
    <2> QED BY <1>5, <1>6, <2>1 DEF Interrumpido
  <1>7. CASE aKernel' = aKernel \o Desalojado
    <2>1. Op("FIN_DE_QUANTUM").que = Palabra("quantum", 1) /\ BufferCde("cde", cde).que = Palabra("quantum", 2)
          /\ BufferCde("cde", cde).cde = AgregaCde(cde)
      BY Palabras, Guion DEF Op, BufferCde, Salidas
    <2> QED BY <1>5, <1>7, <2>1 DEF Desalojado
  <1> QED BY <1>2, <1>6, <1>7

(* The context completes the call k.                                     *)
LEMMA OrdenDevuelve ==
    ASSUME IInv, EnOrden, ~choque, ~choque', pcD \in {"revisa", "revisa_exit"}, Llamando,
           NEW k \in Llamadas, interrupcion[k], NEW banderas,
           Termina(banderas, IF k = "fs" THEN DevuelveArchivo ELSE Devuelve)
    PROVE  EnOrden' /\ Vuelven' = {cde}
  <1>1. Cuentas /\ Turno /\ ~desorden /\ Sec(aKernel) /\ Sec(aCpu)
    BY DEF EnOrden
  <1>2. /\ Libera /\ UNCHANGED <<aCpu, enExec, listos, guardado, bloqueo, cde_interrumpido, operacion,
                                 desorden>>
        /\ aKernel' = aKernel \o (IF k = "fs" THEN DevuelveArchivo ELSE Devuelve)
    BY DEF Termina, vKernel, vBloqueo
  <1>3. EsContexto(cde) /\ Suyo
    BY <1>1 DEF Cuentas, Llamando
  <1>4. PICK d \in {0, 1} : \E l \in 0..2 : Dicho(d, k, l, 2, NULO)
    <2>1. PICK d \in {0, 1} : \E j \in Llamadas : \E l \in 0..2 :
             /\ interrupcion[j] /\ escribio = (IF j \in {"io", "fs"} THEN "interfaz" ELSE "recurso")
             /\ Dicho(d, j, l, 2, NULO)
      BY DEF Llamando
    <2>2. PICK j \in Llamadas : \E l \in 0..2 :
             /\ interrupcion[j] /\ escribio = (IF j \in {"io", "fs"} THEN "interfaz" ELSE "recurso")
             /\ Dicho(d, j, l, 2, NULO)
      BY <2>1
    <2>3. UnaDelTipo
      BY DEF IInv, Limpia, Tipos
    <2>4. j = k
      BY <2>2, <2>3 DEF UnaDelTipo, Llamadas
    <2> QED BY <2>2, <2>4
  <1>5. PICK l \in 0..2 : Dicho(d, k, l, 2, NULO)
    BY <1>4
  <1> PICK x : x = cde
    OBVIOUS
  <1>15. PICK t : t = IF k = "fs" THEN <<BufferCde("cde", cde), Buffer("archivo")>> ELSE <<BufferCde("cde", cde)>>
    OBVIOUS
  <1>6. /\ k \in Salidas /\ Largo(k) = 2 + Len(t) /\ Sec(t) /\ Len(t) \in {1, 2}
    <2>1. CASE k = "fs"
      <3>1. Len(t) = 2 /\ Sec(t)
        BY <1>15, <2>1, SecTuplas
      <3> QED BY <2>1, <3>1, Palabras DEF Salidas, Llamadas
    <2>2. CASE k # "fs"
      <3>1. Len(t) = 1 /\ Sec(t)
        BY <1>15, <2>2, SecTuplas
      <3>2. Largo(k) = 3 /\ k \in Salidas
        BY <2>2, Palabras DEF Salidas, Llamadas
      <3> QED BY <3>1, <3>2
    <2> QED BY <2>1, <2>2
  <1>7. /\ t[1].que = "cde" /\ LeeCde(t[1].cde) = x
        /\ Len(t) = 2 => t[2].que = "archivo"
    <2>1. LeeCde(AgregaCde(cde)) = x
      BY <1>3, IdaYVuelta
    <2> QED BY <1>15, <2>1 DEF BufferCde, Buffer
  <1>8. aKernel' = aKernel \o t
    BY <1>2, <1>15 DEF DevuelveArchivo, Devuelve
  <1>9. \A i \in 1..Len(t) : /\ t[i].que = Palabra(k, 2 + i)
                             /\ t[i].que \in ConContexto => LeeCde(t[i].cde) = x
    <2>1. \A i \in 1..Len(t) : i = 1 \/ (i = 2 /\ Len(t) = 2)
      <3>1. CASE Len(t) = 1
        BY <3>1
      <3>2. CASE Len(t) = 2
        BY <3>2
      <3> QED BY <1>6, <3>1, <3>2
    <2>2. 2 + 1 = 3 /\ 2 + 2 = 4
      OBVIOUS
    <2> QED BY <1>7, <2>1, <2>2, Palabras DEF ConContexto
  <1>10. \A i \in 1..(2 - l) : Palabra(k, l + i) \notin ConContexto \/ NULO = x
    <2>1. \A i \in 1..(2 - l) : l + i \in {1, 2}
      OBVIOUS
    <2>2. Palabra(k, 1) \notin ConContexto /\ Palabra(k, 2) \notin ConContexto
      BY <1>6, Guion, Palabras DEF Llamadas, ConContexto
    <2> QED BY <2>1, <2>2
  <1>11. Dicho(d, k, l, 2 + Len(t), x)'
    <2> PICK z \in 0..4 : z = 2
      OBVIOUS
    <2>1. l <= z /\ Dicho(d, k, l, z, NULO)
      BY <1>5
    <2>2. /\ \A i \in 1..(z - l) : Palabra(k, l + i) \notin ConContexto \/ NULO = x
          /\ \A i \in 1..Len(t) : /\ t[i].que = Palabra(k, z + i)
                                  /\ t[i].que \in ConContexto => LeeCde(t[i].cde) = x
      BY <1>9, <1>10
    <2>3. Dicho(d, k, l, z + Len(t), x)'
      BY <1>1, <1>2, <1>6, <1>8, <2>1, <2>2, Escribe
    <2> QED BY <2>3
  <1>12. Sec(aKernel')
    BY <1>1, <1>6, <1>8, SecConcat
  <1>13. l < Largo(k)
    BY <1>6
  <1>14. Dicho(d, k, l, Largo(k), x)'
    <2>1. 2 + Len(t) = Largo(k)
      BY <1>6
    <2>2. \A e, g : e = g /\ Dicho(d, k, l, e, x)' => Dicho(d, k, l, g, x)'
      OBVIOUS
    <2> QED BY <1>11, <2>1, <2>2
  <1> QED BY <1>2, <1>3, <1>6, <1>12, <1>13, <1>14, OrdenTermina

(* A process that leaves the CPU takes its context with it.              *)
DejaSuContexto == pcD' = "recibe" /\ escribio # "fin" => Vuelven' = {cde}

LEMMA OrdenRevisa ==
    ASSUME IInv, EnOrden, Check_interrupt
    PROVE  EnOrden' /\ (~choque' => DejaSuContexto)
  <1>1. /\ pcD \in {"revisa", "revisa_exit"} /\ choque' \in BOOLEAN /\ (choque => choque')
        /\ interrupcion \in [Banderas -> BOOLEAN]
    BY DEF Check_interrupt, RevisaQuantum, RevisaSinQuantum, RevisaExit, RevisaLlamada, RevisaNada,
           vHistoria, IInv, Tipos
  <1> SUFFICES ASSUME ~choque, ~choque' PROVE EnOrden' /\ DejaSuContexto
    BY <1>1 DEF EnOrden
  <1> USE DEF DejaSuContexto
  <1>2. Cuentas /\ Turno /\ ~desorden /\ Sec(aKernel) /\ Sec(aCpu) /\ UnaDelTipo
    BY <1>1 DEF EnOrden, IInv, Limpia, Tipos
  <1>3. escribio # "fin" => Calculando \/ Llamando
    BY <1>1, <1>2 DEF Turno, Libre, Despachado, Saliendo, EnCpu
  <1>4. Llamando => \E k \in Llamadas :
           interrupcion[k] /\ escribio = (IF k \in {"io", "fs"} THEN "interfaz" ELSE "recurso")
    BY DEF Llamando
  <1>5. \A k \in Llamadas : interrupcion[k] => Llamando
    <2> SUFFICES ASSUME NEW k \in Llamadas, interrupcion[k] PROVE Llamando
      OBVIOUS
    <2>1. escribio \notin {"nada", "fin"}
      BY <1>2 DEF UnaDelTipo, Ninguna, DeInstruccion, Llamadas
    <2> QED BY <1>3, <2>1 DEF Calculando
  <1>6. CASE RevisaQuantum
    <2>1. escribio \notin {"recurso", "fin"}
      BY <1>6 DEF RevisaQuantum
    <2>2. CASE interrupcion["io"]
      BY <1>1, <1>5, <1>6, <2>2, OrdenDevuelve DEF RevisaQuantum, Llamadas
    <2>3. CASE ~interrupcion["io"] /\ interrupcion["fs"]
      BY <1>1, <1>5, <1>6, <2>3, OrdenDevuelve DEF RevisaQuantum, Llamadas
    <2>4. CASE ~interrupcion["io"] /\ ~interrupcion["fs"]
      <3>1. ~Llamando
        BY <1>4, <2>1, <2>4 DEF Llamadas
      <3> QED BY <1>1, <1>3, <1>6, <2>1, <2>4, <3>1, OrdenDesaloja DEF RevisaQuantum
    <2> QED BY <2>2, <2>3, <2>4
  <1>7. CASE RevisaSinQuantum
    <2>1. pcD' = "revisa_exit" /\ UNCHANGED <<desorden, enExec, listos, guardado, bloqueo,
                                              cde_interrumpido, registros, cde, salida_exit,
             aCpu, aKernel, operacion, escribio, interrupcion>>
      BY <1>7 DEF RevisaSinQuantum, vKernel, vBloqueo, vHistoria
    <2> QED BY <1>1, <2>1, OrdenIgual
  <1>8. CASE RevisaExit
    <2>1. escribio = "nada" /\ Termina({"exit"}, Interrumpido)
      BY <1>8 DEF RevisaExit
    <2>2. ~Llamando
      BY <1>4, <2>1
    <2> QED BY <1>1, <1>3, <2>1, <2>2, OrdenDesaloja
  <1>9. CASE RevisaLlamada
    <2>1. CASE interrupcion["io"]
      BY <1>1, <1>5, <1>9, <2>1, OrdenDevuelve DEF RevisaLlamada, Llamadas
    <2>2. CASE ~interrupcion["io"] /\ interrupcion["fs"]
      BY <1>1, <1>5, <1>9, <2>2, OrdenDevuelve DEF RevisaLlamada, Llamadas
    <2>3. CASE ~interrupcion["io"] /\ ~interrupcion["fs"] /\ interrupcion["signal"]
      BY <1>1, <1>5, <1>9, <2>3, OrdenDevuelve DEF RevisaLlamada, Llamadas
    <2>4. CASE ~interrupcion["io"] /\ ~interrupcion["fs"] /\ ~interrupcion["signal"]
      BY <1>1, <1>5, <1>9, <2>4, OrdenDevuelve DEF RevisaLlamada, Llamadas
    <2> QED BY <2>1, <2>2, <2>3, <2>4
  <1>10. CASE RevisaNada
    <2>1. ~Llamando
      BY <1>4, <1>10 DEF RevisaNada, Llamadas, Banderas
    <2>2. UNCHANGED <<salida_exit, interrupcion, aCpu, aKernel, enExec, listos, guardado, bloqueo,
                      cde_interrumpido, operacion, desorden>>
      BY <1>10 DEF RevisaNada, vKernel, vBloqueo
    <2>3. \A d, k, l, e, x : Dicho(d, k, l, e, x)' <=> Dicho(d, k, l, e, x)
      BY <2>2 DEF Dicho
    <2>4. Callados' <=> Callados
      BY <2>3 DEF Callados
    <2>5. CASE salida_exit
      <3>1. escribio # "fin" /\ Calculando
        BY <1>1, <1>2, <1>3, <2>1, <2>5 DEF Cuentas
      <3>2. pcD' = "instruccion" /\ UNCHANGED <<cde, registros, escribio>>
        BY <1>10, <2>5 DEF RevisaNada
      <3>3. Calculando'
        BY <2>2, <2>4, <3>1, <3>2 DEF Calculando, Suyo, EnCpu
      <3>4. Cuentas'
        BY <1>1, <1>2, <2>2, <3>1, <3>2 DEF Cuentas, Calculando
      <3> QED BY <1>2, <2>2, <3>1, <3>2, <3>3, <3>4 DEF EnOrden, Turno
    <2>6. CASE ~salida_exit
      <3>1. escribio = "fin" /\ (Libre \/ Despachado \/ Saliendo)
        BY <1>1, <1>2, <2>6 DEF Cuentas, Turno, Calculando, Llamando, Suyo, EnCpu
      <3>2. pcD' = "recibe" /\ escribio' = "nada"
        BY <1>10, <2>6 DEF RevisaNada, Libera
      <3>3. ~EnCpu' /\ Vuelven' = Vuelven
        BY <2>2, <3>2 DEF EnCpu, Vuelven
      <3>4. Saliendo => Saliendo'
        BY <2>2, <2>3, <3>2, <3>3 DEF Saliendo
      <3>5. Libre' \/ Despachado' \/ Saliendo'
        BY <2>2, <2>4, <3>1, <3>3, <3>4 DEF Libre, Despachado
      <3>6. Cuentas'
        BY <1>2, <2>2, <3>2 DEF Cuentas
      <3> QED BY <1>2, <2>2, <3>1, <3>2, <3>5, <3>6 DEF EnOrden, Turno
    <2> QED BY <2>5, <2>6
  <1> QED BY <1>6, <1>7, <1>8, <1>9, <1>10 DEF Check_interrupt

-----------------------------------------------------------------------------
(* The steps of the kernel.                                              *)

(* What the kernel waits for.                                            *)
LEMMA Esperado ==
    ASSUME NEW k \in Salidas, NEW l \in 1..2, l = 2 => k \in Llamadas, operacion = OperacionEn(k, l)
    PROVE  /\ operacion # Nada /\ operacion.op = Abre(k) /\ operacion.falta # <<>>
           /\ Espera = IF l = 2 THEN "cde" ELSE IF k \in {"io", "fs"} THEN "datos" ELSE Palabra(k, 2)
           /\ Espera # "archivo"
           /\ l = 1 /\ k \in {"wait", "signal"} => Tail(operacion.falta) = <<"cde">>
           /\ k = "quantum" => Tail(operacion.falta) = <<>>
           /\ l = 2 => Tail(operacion.falta) = IF k = "fs" THEN <<"archivo">> ELSE <<>>
  <1>1. /\ operacion.op = Abre(k)
        /\ operacion.falta = IF l = 1 THEN Falta[Abre(k)] ELSE IF k = "fs" THEN <<"cde", "archivo">> ELSE <<"cde">>
    BY DEF OperacionEn
  <1>2. CASE l = 2
    <2>1. operacion.falta = IF k = "fs" THEN <<"cde", "archivo">> ELSE <<"cde">>
      BY <1>1, <1>2
    <2>2. /\ Espera = "cde" /\ operacion.falta # <<>>
          /\ Tail(operacion.falta) = IF k = "fs" THEN <<"archivo">> ELSE <<>>
      BY <2>1, SecTuplas DEF Espera
    <2> QED BY <1>1, <1>2, <2>2 DEF Nada, Llamadas
  <1>3. CASE l = 1
    <2>1. operacion.falta = IF k \in {"fin"} THEN <<"fin">> ELSE IF k = "quantum" THEN <<"cde">>
                            ELSE IF k \in {"io", "fs"} THEN <<"datos">> ELSE <<"recurso", "cde">>
      BY <1>1, <1>3, Guion
    <2>2. /\ Espera = IF k \in {"fin"} THEN "fin" ELSE IF k = "quantum" THEN "cde"
                      ELSE IF k \in {"io", "fs"} THEN "datos" ELSE "recurso"
          /\ operacion.falta # <<>>
          /\ k \in {"wait", "signal"} => Tail(operacion.falta) = <<"cde">>
          /\ k = "quantum" => Tail(operacion.falta) = <<>>
      BY <2>1, SecTuplas DEF Espera
    <2> QED BY <1>1, <1>3, <2>2, Palabras DEF Nada, Salidas, Llamadas
  <1> QED BY <1>2, <1>3

(* The two states of a conversation in which there is something to read. *)
LEMMA HayAlgo ==
    ASSUME Turno, Sec(aKernel), aKernel # <<>>
    PROVE  \/ /\ Dicho(1, "fin", 0, 0, NULO)
              /\ Libre \/ Despachado \/ Calculando
           \/ Llamando \/ Saliendo
  <1>1. ~Dicho(0, "fin", 0, 0, NULO)
    <2>1. Len(aKernel) > 0
      <3>1. PICK S : aKernel \in Seq(S)
        BY DEF Sec
      <3> QED BY <3>1
    <2> QED BY <2>1 DEF Dicho
  <1>2. Callados => Dicho(1, "fin", 0, 0, NULO)
    BY <1>1 DEF Callados
  <1> QED BY <1>2 DEF Turno, Libre, Despachado, Calculando

(* The kernel reads the word of an operation, or what follows it.        *)
LEMMA LeeOperacion ==
    ASSUME Sec(aKernel), NEW d \in {0, 1}, NEW k \in Salidas, NEW l \in 0..2, NEW e \in 0..4, NEW x,
           Dicho(d, k, l, e, x), d = 1 \/ l < e, l = 2 => k \in Llamadas, KernelOperacion
    PROVE  d = 0 /\ l = 0 /\ Dicho(0, k, 1, e, x)'
  <1>1. /\ operacion = Nada /\ aKernel' = Tail(aKernel)
        /\ operacion' = [op |-> Leido.que, falta |-> Falta[Leido.que]]
    BY DEF KernelOperacion, Lee
  <1>2. d = 0
    <2>1. CASE d = 1
      <3>1. l = 0 /\ Dicho(1, k, 0, e, x)
        BY <2>1 DEF Dicho
      <3> QED BY <1>1, <3>1, LeeArchivo
    <2> QED BY <2>1
  <1>3. operacion = OperacionEn(k, l)
    BY <1>2 DEF Dicho
  <1>4. l = 0
    <2>1. CASE l \in 1..2
      BY <1>1, <1>3, <2>1, Esperado
    <2> QED BY <2>1
  <1>5. Leido.que = Abre(k)
    <2>1. Leido.que = Palabra(k, l + 1)
      BY <1>2, LeePalabra
    <2> QED BY <1>4, <2>1, Guion
  <1>6. operacion' = OperacionEn(k, l + 1)
    BY <1>1, <1>4, <1>5 DEF OperacionEn
  <1>7. Dicho(0, k, l + 1, e, x)'
    BY <1>1, <1>2, <1>6, LeePalabra
  <1> QED BY <1>2, <1>4, <1>7

(* The kernel reads the name of a resource, the data of a request or the *)
(* name of a file.                                                       *)
LEMMA LeeDatos ==
    ASSUME Sec(aKernel), NEW d \in {0, 1}, NEW k \in Salidas, NEW l \in 0..2, NEW e \in 0..4, NEW x,
           Dicho(d, k, l, e, x), d = 1 \/ l < e, l = 2 => k \in Llamadas, KernelDatos
    PROVE  \/ d = 1 /\ l = 0 /\ Dicho(0, k, 0, e, x)'
           \/ d = 0 /\ l = 1 /\ k \in Llamadas /\ Dicho(0, k, 2, e, x)'
  <1>1. /\ operacion # Nada /\ aKernel' = Tail(aKernel)
        /\ \/ Espera = "datos" /\ Sigue(IF Leido.que = "datos_fs" THEN <<"cde", "archivo">> ELSE <<"cde">>)
           \/ Espera \in {"recurso", "archivo"} /\ Sigue(Tail(operacion.falta))
    BY DEF KernelDatos, Lee
  <1>2. CASE d = 1
    <2>1. l = 0 /\ Dicho(1, k, 0, e, x)
      BY <1>2 DEF Dicho
    <2>2. Espera = "archivo" /\ Tail(operacion.falta) = <<>>
      BY <2>1, LeeArchivo
    <2>3. operacion' = Nada
      BY <1>1, <2>2 DEF Sigue
    <2> QED BY <1>1, <1>2, <2>1, <2>3, LeeArchivo
  <1>3. CASE d = 0
    <2>1. operacion = OperacionEn(k, l) /\ Dicho(0, k, l, e, x) /\ l < e
      BY <1>3 DEF Dicho
    <2>2. l \in 1..2
      BY <1>1, <2>1 DEF OperacionEn
    <2>3. l = 1 /\ k \in Llamadas
      BY <1>1, <2>1, <2>2, Esperado, Palabras DEF Salidas, Llamadas
    <2>4. Leido.que = Palabra(k, l + 1)
      BY <2>1, LeePalabra
    <2>5. Leido.que = Palabra(k, 2) /\ operacion.op = Abre(k)
      BY <2>1, <2>2, <2>3, <2>4, Esperado
    <2>6. Sigue(IF k = "fs" THEN <<"cde", "archivo">> ELSE <<"cde">>)
      BY <1>1, <2>1, <2>2, <2>3, <2>5, Esperado, Palabras DEF Llamadas
    <2>7. operacion' = [operacion EXCEPT !.falta = IF k = "fs" THEN <<"cde", "archivo">> ELSE <<"cde">>]
      BY <2>6, SecTuplas DEF Sigue
    <2>8. operacion' = OperacionEn(k, l + 1)
      BY <2>1, <2>3, <2>7 DEF OperacionEn
    <2>9. Dicho(0, k, l + 1, e, x)'
      BY <1>1, <2>1, <2>8, LeePalabra
    <2> QED BY <1>3, <2>3, <2>9
  <1> QED BY <1>2, <1>3

(* The kernel reads a context: it is the end of what was said.           *)
LEMMA LeeFinDeDicho ==
    ASSUME Sec(aKernel), NEW d \in {0, 1}, NEW k \in Salidas, NEW l \in 0..2, NEW e \in 0..4, NEW x,
           Dicho(d, k, l, e, x), d = 1 \/ l < e, l = 2 => k \in Llamadas, Lee,
           operacion # Nada, Espera \in ConContexto, d = 1 \/ e = Largo(k) \/ (e = 2 /\ k \in Llamadas),
           Sigue(Tail(operacion.falta)) \/ (Espera = "fin" /\ Sigue(<<>>))
    PROVE  /\ d = 0 /\ e = Largo(k) /\ operacion.op = Abre(k) /\ LeeCde(Leido.cde) = x
           /\ Espera = "fin" <=> k = "fin"
           /\ Callados'
  <1>1. d = 0
    <2>1. CASE d = 1
      <3>1. Dicho(1, k, 0, e, x)
        BY <2>1 DEF Dicho
      <3> QED BY <3>1, LeeArchivo DEF ConContexto
    <2> QED BY <2>1
  <1>2. operacion = OperacionEn(k, l) /\ Dicho(0, k, l, e, x) /\ l < e
    BY <1>1 DEF Dicho
  <1>3. l \in 1..2
    BY <1>2 DEF OperacionEn
  <1>4. operacion.op = Abre(k) /\ (l = 2 \/ (l = 1 /\ k \in {"fin", "quantum"}))
    BY <1>2, <1>3, Esperado, Palabras DEF Salidas, Llamadas, ConContexto
  <1>5. e = Largo(k)
    BY <1>1, <1>2, <1>4 DEF Llamadas
  <1>6. Espera = "fin" <=> k = "fin"
    BY <1>2, <1>3, <1>4, Esperado, Palabras DEF Salidas, Llamadas
  <1>7. Leido.que = Palabra(k, l + 1) /\ (Leido.que \in ConContexto => LeeCde(Leido.cde) = x)
    BY <1>2, LeePalabra
  <1>8. Palabra(k, l + 1) \in ConContexto
    BY <1>4, Palabras DEF ConContexto
  <1>9. aKernel' = Tail(aKernel)
    BY DEF Lee
  <1>10. CASE k = "fs"
    <2>1. l = 2 /\ e = 4
      BY <1>4, <1>5, <1>10, Palabras
    <2>2. Tail(operacion.falta) = <<"archivo">>
      BY <1>2, <1>3, <1>10, <2>1, Esperado
    <2>3. operacion' = [operacion EXCEPT !.falta = <<"archivo">>]
      <3>1. <<"archivo">> # <<>>
        OBVIOUS
      <3> QED BY <1>6, <1>10, <2>2, <3>1 DEF Sigue
    <2>4. operacion' = Pendiente
      BY <1>2, <1>10, <2>1, <2>3 DEF OperacionEn, Pendiente, Abre
    <2>5. Dicho(1, "fin", 0, 0, NULO)'
      BY <1>2, <1>9, <2>1, <2>4, LeePalabra
    <2>6. Callados'
      BY <2>5 DEF Callados
    <2> QED BY <1>1, <1>4, <1>5, <1>6, <1>7, <1>8, <2>6
  <1>11. CASE k # "fs"
    <2>1. e = l + 1
      BY <1>4, <1>5, <1>11, Palabras DEF Salidas, Llamadas
    <2>2. Tail(operacion.falta) = <<>>
      <3>1. CASE k = "fin"
        <4>1. l = 1
          BY <1>4, <3>1 DEF Llamadas
        <4>2. operacion.falta = <<"fin">>
          BY <1>2, <3>1, <4>1, Guion DEF OperacionEn
        <4> QED BY <4>2, SecTuplas
      <3> QED BY <1>2, <1>3, <1>4, <1>11, <3>1, Esperado
    <2>3. operacion' = Nada
      BY <2>2 DEF Sigue
    <2>4. Dicho(0, "fin", 0, 0, NULO)'
      BY <1>2, <1>9, <2>1, <2>3, LeePalabra
    <2>5. Callados'
      BY <2>4 DEF Callados
    <2> QED BY <1>1, <1>4, <1>5, <1>6, <1>7, <1>8, <2>5
  <1> QED BY <1>10, <1>11

(* Whatever comes is what the kernel waits for.                          *)
LEMMA SiempreAcepta ==
    ASSUME Sec(aKernel), NEW d \in {0, 1}, NEW k \in Salidas, NEW l \in 0..2, NEW e \in 0..4, NEW x,
           Dicho(d, k, l, e, x), d = 1 \/ l < e, l = 2 => k \in Llamadas,
           d = 1 \/ (e = Largo(k) /\ x.pid = enExec) \/ (e = 2 /\ k \in Llamadas)
    PROVE  Acepta
  <1>1. CASE d = 1
    <2>1. Dicho(1, k, 0, e, x)
      BY <1>1 DEF Dicho
    <2> QED BY <2>1, LeeArchivo
  <1>2. CASE d = 0
    <2>1. operacion = OperacionEn(k, l) /\ Dicho(0, k, l, e, x) /\ l < e
      BY <1>2 DEF Dicho
    <2>2. Leido.que = Palabra(k, l + 1) /\ (Leido.que \in ConContexto => LeeCde(Leido.cde) = x)
      BY <2>1, LeePalabra
    <2>3. CASE l = 0
      BY <2>1, <2>2, <2>3, Guion DEF Acepta, OperacionEn
    <2>4. CASE l = 1
      <3>1. operacion # Nada /\ Espera = IF k \in {"io", "fs"} THEN "datos" ELSE Palabra(k, 2)
        BY <2>1, <2>4, Esperado
      <3>2. Leido.que = Palabra(k, 2)
        BY <2>2, <2>4
      <3>3. Palabra(k, 2) \in ConContexto => k \in {"fin", "quantum"}
        BY Palabras DEF Salidas, Llamadas, ConContexto
      <3>4. k \in {"fin", "quantum"} => x.pid = enExec
        BY <1>2 DEF Llamadas
      <3> QED BY <2>2, <3>1, <3>2, <3>3, <3>4, Palabras DEF Acepta, ConContexto
    <2>5. CASE l = 2
      <3>1. operacion # Nada /\ Espera = "cde"
        BY <2>1, <2>5, Esperado
      <3>2. Leido.que = "cde" /\ x.pid = enExec
        BY <1>2, <2>1, <2>2, <2>5, Palabras
      <3> QED BY <2>2, <3>1, <3>2 DEF Acepta, ConContexto
    <2> QED BY <2>3, <2>4, <2>5
  <1> QED BY <1>1, <1>2

(* With something to read, how much of which words was said.             *)
LEMMA QuienHabla ==
    ASSUME Cuentas, Turno, Sec(aKernel), aKernel # <<>>
    PROVE  \E d \in {0, 1} : \E k \in Salidas : \E l \in 0..2 : \E e \in 0..4 : \E x :
              /\ Dicho(d, k, l, e, x) /\ (d = 1 \/ l < e) /\ (l = 2 => k \in Llamadas)
              /\ \/ d = 1
                 \/ /\ e = Largo(k) /\ x.pid = enExec /\ EsContexto(x) /\ enExec # NULO
                    /\ ~EnCpu /\ aCpu = <<>> /\ (pcD # "recibe" => x = cde /\ k = "fin")
                 \/ e = 2 /\ k \in Llamadas /\ Largo(k) # 2
  <1>1. Len(aKernel) > 0
    <2>1. PICK S : aKernel \in Seq(S)
      BY DEF Sec
    <2> QED BY <2>1
  <1>2. CASE Dicho(1, "fin", 0, 0, NULO)
    BY <1>2 DEF Salidas
  <1>3. CASE Llamando
    <2>1. PICK d \in {0, 1}, k \in Llamadas, l \in 0..2 : Dicho(d, k, l, 2, NULO)
      BY <1>3 DEF Llamando
    <2>2. d = 1 \/ l < 2
      BY <1>1, <2>1 DEF Dicho
    <2>3. k \in Salidas /\ Largo(k) # 2 /\ 2 \in 0..4
      BY Palabras DEF Salidas, Llamadas
    <2> QED BY <2>1, <2>2, <2>3
  <1>4. CASE Saliendo
    <2>1. PICK d \in {0, 1}, k \in Salidas, l \in 0..2, x \in Vuelven :
             /\ l < Largo(k) /\ x.pid = enExec /\ EsContexto(x) /\ Dicho(d, k, l, Largo(k), x)
             /\ pcD # "recibe" => x = cde /\ k = "fin"
      BY <1>4 DEF Saliendo
    <2>2. Largo(k) \in 0..4 /\ (l = 2 => k \in Llamadas)
      BY <2>1, Palabras DEF Salidas, Llamadas
    <2>3. enExec # NULO /\ ~EnCpu /\ aCpu = <<>>
      BY <1>4 DEF Saliendo
    <2>4. PICK e \in 0..4 : e = Largo(k)
      BY <2>2
    <2> QED BY <2>1, <2>2, <2>3, <2>4
  <1> QED BY <1>2, <1>3, <1>4, HayAlgo

(* The kernel reads a context: what is left unsaid, and of whom it is.   *)
LEMMA LeeElContexto ==
    ASSUME Cuentas, Turno, Sec(aKernel), Lee, operacion # Nada, Espera \in ConContexto,
           Sigue(Tail(operacion.falta)) \/ (Espera = "fin" /\ Sigue(<<>>))
    PROVE  /\ Sec(aKernel') /\ Callados' /\ Vuelven = {LeeCde(Leido.cde)}
           /\ \E k \in Salidas : operacion.op = Abre(k) /\ (Espera = "fin" <=> k = "fin")
           /\ LeeCde(Leido.cde).pid = enExec /\ EsContexto(LeeCde(Leido.cde)) /\ enExec # NULO
           /\ ~EnCpu /\ aCpu = <<>> /\ (pcD # "recibe" => LeeCde(Leido.cde) = cde /\ Espera = "fin")
  <1>1. aKernel # <<>> /\ aKernel' = Tail(aKernel)
    BY DEF Lee
  <1>2. Sec(aKernel')
    <2>1. PICK S : aKernel \in Seq(S)
      BY DEF Sec
    <2>2. Len(aKernel) > 0
      BY <1>1, <2>1
    <2> QED BY <1>1, <2>2, SecTail
  <1>3. PICK d, k, l, e, x :
              /\ d \in {0, 1} /\ k \in Salidas /\ l \in 0..2 /\ e \in 0..4
              /\ Dicho(d, k, l, e, x) /\ (d = 1 \/ l < e) /\ (l = 2 => k \in Llamadas)
              /\ \/ d = 1
                 \/ /\ e = Largo(k) /\ x.pid = enExec /\ EsContexto(x) /\ enExec # NULO
                    /\ ~EnCpu /\ aCpu = <<>> /\ (pcD # "recibe" => x = cde /\ k = "fin")
                 \/ e = 2 /\ k \in Llamadas /\ Largo(k) # 2
    BY <1>1, QuienHabla
  <1>4. /\ d = 0 /\ e = Largo(k) /\ operacion.op = Abre(k) /\ LeeCde(Leido.cde) = x
        /\ Espera = "fin" <=> k = "fin"
        /\ Callados'
    BY <1>3, LeeFinDeDicho
  <1>5. /\ x.pid = enExec /\ EsContexto(x) /\ enExec # NULO
        /\ ~EnCpu /\ aCpu = <<>> /\ (pcD # "recibe" => x = cde /\ k = "fin")
    BY <1>3, <1>4
  <1>6. Vuelven = {x}
    <2>1. Dicho(d, k, l, Largo(k), x) /\ l < Largo(k)
      BY <1>3, <1>4
    <2> QED BY <1>3, <2>1, Viaja
  <1> QED BY <1>2, <1>3, <1>4, <1>5, <1>6

(* The process that left is taken out of EXEC.                           *)
LEMMA OrdenSale ==
    ASSUME EnOrden, ~choque, Lee, operacion # Nada, Espera \in ConContexto,
           Sigue(Tail(operacion.falta)), bloqueo.paso = "no",
           NEW v \in BOOLEAN, Sale(v), v => Espera # "fin", UNCHANGED aCpu,
           guardado' = guardado \/ Anota(Contenido) \/ Anota(Contexto(enExec)),
           UNCHANGED vBloqueo \/ Bloquea(v)
    PROVE  EnOrden'
  <1>1. Cuentas /\ Turno /\ ~desorden /\ Sec(aKernel) /\ Sec(aCpu)
    BY DEF EnOrden
  <1>2. UNCHANGED <<pcD, cde, registros, salida_exit, interrupcion, desorden, escribio, choque>>
    BY DEF Lee, vCpu, vHistoria
  <1>3. PICK x : x = LeeCde(Leido.cde)
    OBVIOUS
  <1>4. /\ Sec(aKernel') /\ Callados' /\ x.pid = enExec /\ EsContexto(x) /\ enExec # NULO
        /\ ~EnCpu /\ aCpu = <<>> /\ (pcD # "recibe" => x = cde /\ Espera = "fin")
    BY <1>1, <1>3, LeeElContexto
  <1>5. enExec' = NULO /\ listos' = (IF v THEN listos \cup {enExec} ELSE listos)
    BY DEF Sale
  <1>6. Libre'
    BY <1>2, <1>4, <1>5 DEF Libre, EnCpu
  <1>7. enExec \in Procesos /\ NULO \notin Procesos
    BY <1>1, <1>4, NuloAssumption DEF Cuentas
  <1>11. EsContexto(Contexto(enExec)) /\ Contexto(enExec).pid = enExec
    BY <1>7 DEF EsContexto, Contexto, Cero
  <1>8. DOMAIN guardado' = Procesos /\ \A p \in Procesos : EsContexto(guardado'[p]) /\ guardado'[p].pid = p
    <2>1. \/ guardado' = guardado
          \/ \E c : guardado' = [guardado EXCEPT ![enExec] = c] /\ EsContexto(c) /\ c.pid = enExec
      BY <1>3, <1>4, <1>11 DEF Anota, Contenido
    <2> QED BY <1>1, <1>7, <2>1 DEF Cuentas
  <1>12. \/ bloqueo' = SinOrden /\ cde_interrumpido' = cde_interrumpido
         \/ /\ bloqueo' = [paso |-> "orden", p |-> enExec]
            /\ EsContexto(cde_interrumpido') /\ cde_interrumpido'.pid = enExec
    BY <1>1, <1>3, <1>4, <1>11 DEF Bloquea, Contenido, Cuentas, vBloqueo
  <1>9. Cuentas'
    BY <1>1, <1>2, <1>5, <1>7, <1>8, <1>12 DEF Cuentas, SinOrden
  <1>10. pcD' # "recibe" => cde'.pid \notin listos' /\ cde'.pid # enExec'
    BY <1>1, <1>2, <1>4, <1>5, <1>7 DEF Cuentas
  <1> QED BY <1>1, <1>2, <1>4, <1>6, <1>9, <1>10 DEF EnOrden, Turno

(* The context is sent back at once.                                     *)
LEMMA OrdenRegresa ==
    ASSUME EnOrden, ~choque, Lee, operacion # Nada, Espera = "cde", Sigue(Tail(operacion.falta)),
           guardado' = guardado \/ Anota(Contenido), Envia(Contenido), UNCHANGED <<enExec, listos, vBloqueo>>
    PROVE  EnOrden'
  <1>1. Cuentas /\ Turno /\ ~desorden /\ Sec(aKernel) /\ Sec(aCpu)
    BY DEF EnOrden
  <1>2. UNCHANGED <<pcD, cde, registros, salida_exit, interrupcion, desorden, escribio, choque>>
    BY DEF Lee, vCpu, vHistoria
  <1>3. PICK x : x = LeeCde(Leido.cde)
    OBVIOUS
  <1>4. /\ Sec(aKernel') /\ Callados' /\ x.pid = enExec /\ EsContexto(x) /\ enExec # NULO
        /\ ~EnCpu /\ aCpu = <<>> /\ pcD = "recibe"
    BY <1>1, <1>3, LeeElContexto DEF ConContexto
  <1>5. /\ enExec \in Procesos /\ UNCHANGED <<bloqueo, cde_interrumpido>>
        /\ guardado' = guardado \/ guardado' = [guardado EXCEPT ![enExec] = x]
    BY <1>1, <1>3, <1>4 DEF Anota, Cuentas, Contenido, vBloqueo
  <1>6. aCpu' = <<AgregaCde(x)>>
    BY <1>3, <1>4 DEF Envia, Contenido
  <1>7. Sec(aCpu') /\ Len(aCpu') = 1 /\ aCpu'[1] = AgregaCde(x)
    BY <1>6, SecTuplas
  <1>8. LeeCde(aCpu'[1]) = x
    BY <1>4, <1>7, IdaYVuelta
  <1>9. Despachado'
    BY <1>2, <1>4, <1>7, <1>8 DEF Despachado, EnCpu
  <1>10. Cuentas'
    BY <1>1, <1>2, <1>4, <1>5 DEF Cuentas
  <1> QED BY <1>1, <1>2, <1>4, <1>7, <1>9, <1>10 DEF EnOrden, Turno

(* The kernel reads a word that is no context.                           *)
LEMMA OrdenEscucha ==
    ASSUME EnOrden, ~choque, KernelOperacion \/ KernelDatos
    PROVE  EnOrden'
  <1>1. Cuentas /\ Turno /\ ~desorden /\ Sec(aKernel) /\ Sec(aCpu)
    BY DEF EnOrden
  <1>2. /\ UNCHANGED <<pcD, cde, registros, salida_exit, interrupcion, desorden, escribio, choque, aCpu,
                       enExec, listos, guardado, bloqueo, cde_interrumpido>>
        /\ aKernel # <<>> /\ aKernel' = Tail(aKernel)
    BY DEF KernelOperacion, KernelDatos, Lee, vCpu, vHistoria, vBloqueo
  <1>3. Len(aKernel) > 0 /\ Sec(aKernel')
    <2>1. PICK S : aKernel \in Seq(S)
      BY <1>1 DEF Sec
    <2>2. Len(aKernel) > 0
      BY <1>2, <2>1
    <2> QED BY <1>1, <1>2, <2>2, SecTail
  <1>4. ASSUME NEW d \in {0, 1}, NEW k \in Salidas, NEW l \in 0..2, NEW e \in 0..4, NEW x,
               Dicho(d, k, l, e, x), l <= e, l = 2 => k \in Llamadas \/ d + e - l = 0
        PROVE  /\ e = 0 => Dicho(0, k, 0, e, x)'
               /\ \E h \in {0, 1} : \E j \in 0..2 :
                     j <= e /\ (j = 2 => k \in Llamadas) /\ Dicho(h, k, j, e, x)'
    <2>1. Len(aKernel) = d + e - l
      BY <1>4 DEF Dicho
    <2>2. (d = 1 \/ l < e) /\ (l = 2 => k \in Llamadas)
      BY <1>3, <1>4, <2>1
    <2>3. CASE KernelOperacion
      <3>1. d = 0 /\ l = 0 /\ Dicho(0, k, 1, e, x)'
        BY <1>1, <1>4, <2>2, <2>3, LeeOperacion
      <3>2. 1 <= e /\ e # 0
        BY <2>2, <3>1
      <3> QED BY <3>1, <3>2
    <2>4. CASE KernelDatos
      <3>1. \/ d = 1 /\ l = 0 /\ Dicho(0, k, 0, e, x)'
            \/ d = 0 /\ l = 1 /\ k \in Llamadas /\ Dicho(0, k, 2, e, x)'
        BY <1>1, <1>4, <2>2, <2>4, LeeDatos
      <3> QED BY <2>2, <3>1
    <2> QED BY <2>3, <2>4
  <1>5. Callados => Callados'
    <2> SUFFICES ASSUME Callados PROVE Callados'
      OBVIOUS
    <2>1. PICK d \in {0, 1} : Dicho(d, "fin", 0, 0, NULO)
      BY DEF Callados
    <2>2. PICK z \in 0..2 : z = 0
      OBVIOUS
    <2>3. "fin" \in Salidas /\ z \in 0..4 /\ Dicho(d, "fin", z, z, NULO) /\ z <= z /\ z # 2
      BY <2>1, <2>2 DEF Salidas
    <2>4. Dicho(0, "fin", 0, z, NULO)'
      BY <1>4, <2>2, <2>3
    <2> QED BY <2>2, <2>4 DEF Callados
  <1>6. EnCpu' <=> EnCpu
    BY <1>2 DEF EnCpu
  <1>7. (Libre => Libre') /\ (Despachado => Despachado') /\ (Calculando => Calculando')
    BY <1>2, <1>5, <1>6 DEF Libre, Despachado, Calculando, Suyo
  <1>8. Llamando => Llamando'
    <2> SUFFICES ASSUME Llamando PROVE Llamando'
      OBVIOUS
    <2>1. PICK d \in {0, 1}, k \in Llamadas, l \in 0..2 :
             /\ interrupcion[k] /\ escribio = (IF k \in {"io", "fs"} THEN "interfaz" ELSE "recurso")
             /\ Dicho(d, k, l, 2, NULO)
      BY DEF Llamando
    <2>2. PICK z \in 0..4 : z = 2
      OBVIOUS
    <2>3. k \in Salidas /\ Dicho(d, k, l, z, NULO) /\ l <= z
      BY <2>1, <2>2 DEF Salidas
    <2>4. PICK h \in {0, 1}, j \in 0..2 : Dicho(h, k, j, z, NULO)'
      BY <1>4, <2>3
    <2> QED BY <1>2, <1>6, <2>1, <2>2, <2>4 DEF Llamando, Suyo
  <1>9. Saliendo => Saliendo'
    <2> SUFFICES ASSUME Saliendo PROVE Saliendo'
      OBVIOUS
    <2>1. PICK d \in {0, 1}, k \in Salidas, l \in 0..2, x \in Vuelven :
             /\ l < Largo(k) /\ x.pid = enExec /\ EsContexto(x) /\ Dicho(d, k, l, Largo(k), x)
             /\ pcD # "recibe" => x = cde /\ k = "fin"
      BY DEF Saliendo
    <2>2. PICK e \in 0..4 : e = Largo(k)
      BY Palabras DEF Salidas, Llamadas
    <2>3. k \in {"fin", "quantum"} <=> e = 2
      BY <2>2, Palabras DEF Salidas, Llamadas
    <2>4. l <= e /\ (l = 2 => k \in Llamadas) /\ e >= 2
      BY <2>1, <2>2, <2>3, Palabras DEF Salidas, Llamadas
    <2>5. Dicho(d, k, l, e, x)
      BY <2>1, <2>2
    <2>6. PICK h \in {0, 1}, j \in 0..2 : j <= e /\ (j = 2 => k \in Llamadas) /\ Dicho(h, k, j, e, x)'
      BY <1>4, <2>4, <2>5
    <2>7. j < e
      BY <2>3, <2>4, <2>6 DEF Llamadas
    <2>8. j < Largo(k) /\ Dicho(h, k, j, Largo(k), x)'
      BY <2>2, <2>6, <2>7
    <2>9. Vuelven' = {x}
      BY <1>3, <2>8, ViajaDespues
    <2> QED BY <1>2, <1>6, <2>1, <2>8, <2>9 DEF Saliendo
  <1>10. Turno'
    BY <1>1, <1>2, <1>7, <1>8, <1>9 DEF Turno
  <1>11. Cuentas'
    BY <1>1, <1>2 DEF Cuentas
  <1> QED BY <1>1, <1>2, <1>3, <1>10, <1>11 DEF EnOrden

(* corto_plazo.                                                          *)
LEMMA OrdenCorto ==
    ASSUME EnOrden, ~choque, NEW p \in Procesos, CortoDespacha(p)
    PROVE  EnOrden'
  <1>1. Cuentas /\ Turno /\ ~desorden /\ Sec(aKernel) /\ Sec(aCpu)
    BY DEF EnOrden
  <1>2. /\ UNCHANGED <<pcD, cde, registros, salida_exit, interrupcion, desorden, escribio, choque, aKernel,
                       guardado, bloqueo, cde_interrumpido, operacion>>
        /\ enExec = NULO /\ p \in listos /\ enExec' = p /\ listos' = listos \ {p}
        /\ aCpu' = Append(aCpu, AgregaCde(guardado[p]))
        /\ bloqueo.paso # "orden" /\ (bloqueo.paso = "mueve" => bloqueo.p # p)
    BY DEF CortoDespacha, PorSalir, vCpu, vBloqueo, Envia
  <1>3. Libre
    BY <1>1, <1>2, NuloAssumption DEF Turno, Despachado, Calculando, Llamando, Saliendo, Suyo, EnCpu, Cuentas,
       EsContexto
  <1>4. aCpu' = <<AgregaCde(guardado[p])>>
    BY <1>2, <1>3 DEF Libre
  <1>5. Sec(aCpu') /\ Len(aCpu') = 1 /\ aCpu'[1] = AgregaCde(guardado[p])
    BY <1>4, SecTuplas
  <1>6. /\ EsContexto(guardado[p]) /\ guardado[p].pid = p
        /\ LeeCde(aCpu'[1]) = guardado[p]
    BY <1>1, <1>2, <1>5, IdaYVuelta DEF Cuentas
  <1>7. Callados'
    BY <1>2, <1>3, DichoIgual DEF Libre, Callados
  <1>8. Despachado'
    BY <1>2, <1>3, <1>5, <1>6, <1>7, NuloAssumption DEF Despachado, Libre, EnCpu
  <1>9. Cuentas'
    BY <1>1, <1>2 DEF Cuentas
  <1>10. pcD' # "recibe" /\ escribio' = "fin" => cde'.pid \notin listos' /\ cde'.pid # enExec'
    BY <1>1, <1>2 DEF Turno
  <1> QED BY <1>1, <1>2, <1>5, <1>8, <1>9, <1>10 DEF EnOrden, Turno

(* exec_blocked: nothing is said, and the PCB gets a context of its process. *)
LEMMA OrdenBloquea == ASSUME EnOrden, ~choque, ExecBlocked PROVE EnOrden'
  <1>1. Cuentas /\ Turno /\ ~desorden /\ Sec(aKernel) /\ Sec(aCpu)
    BY DEF EnOrden
  <1>2. UNCHANGED <<desorden, enExec, listos, registros, cde, salida_exit, aCpu, aKernel, operacion, pcD,
                    escribio,
                    interrupcion, choque>>
    BY DEF ExecBlocked, vCpu, vHistoria
  <1>3. \/ /\ bloqueo.paso = "orden" /\ bloqueo' = [bloqueo EXCEPT !.paso = "mueve"]
           /\ UNCHANGED <<guardado, cde_interrumpido>>
        \/ /\ bloqueo.paso = "mueve" /\ bloqueo' = [bloqueo EXCEPT !.paso = "guarda"]
           /\ UNCHANGED <<guardado, cde_interrumpido>>
        \/ /\ bloqueo.paso = "guarda" /\ bloqueo' = SinOrden
           /\ guardado' = [guardado EXCEPT ![bloqueo.p] = cde_interrumpido]
    BY DEF ExecBlocked
  <1>4. bloqueo.p \in Procesos /\ EsContexto(cde_interrumpido) /\ cde_interrumpido.pid = bloqueo.p
    BY <1>1, <1>3 DEF Cuentas
  <1>5. DOMAIN guardado' = Procesos /\ \A p \in Procesos : EsContexto(guardado'[p]) /\ guardado'[p].pid = p
    BY <1>1, <1>3, <1>4 DEF Cuentas
  <1>6. \/ bloqueo' = SinOrden
        \/ /\ bloqueo' = [paso |-> bloqueo'.paso, p |-> bloqueo.p] /\ bloqueo'.paso \in {"mueve", "guarda"}
           /\ bloqueo'.paso = "mueve" => bloqueo.p # enExec
           /\ cde_interrumpido' = cde_interrumpido
    <2>1. CASE bloqueo.paso = "orden"
      BY <1>1, <1>3, <1>4, <2>1 DEF Cuentas
    <2>2. CASE bloqueo.paso = "mueve"
      BY <1>1, <1>3, <1>4, <2>2 DEF Cuentas
    <2> QED BY <1>3, <2>1, <2>2
  <1>7. Cuentas'
    BY <1>1, <1>2, <1>4, <1>5, <1>6 DEF Cuentas, SinOrden
  <1>8. \A d, k, l, e, x : Dicho(d, k, l, e, x)' <=> Dicho(d, k, l, e, x)
    BY <1>2 DEF Dicho
  <1>9. (Callados' <=> Callados) /\ (EnCpu' <=> EnCpu) /\ Vuelven' = Vuelven
    BY <1>2, <1>8 DEF Callados, EnCpu, Vuelven
  <1>10. /\ (Libre => Libre') /\ (Despachado => Despachado') /\ (Calculando => Calculando')
         /\ (Llamando => Llamando') /\ (Saliendo => Saliendo')
    BY <1>2, <1>8, <1>9 DEF Libre, Despachado, Calculando, Llamando, Saliendo, Suyo
  <1>11. Turno'
    BY <1>1, <1>2, <1>10 DEF Turno
  <1> QED BY <1>1, <1>2, <1>7, <1>11 DEF EnOrden

(* Each step of the kernel.                                              *)
LEMMA OrdenKernel == ASSUME EnOrden, Kernel PROVE EnOrden'
  <1>1. choque' = choque
    BY DEF Kernel, CortoDespacha, QuantumEmpieza, QuantumVence, ConsolaFinaliza, KernelOperacion, KernelDatos,
           KernelFinaliza, KernelFinDeQuantum, KernelInterfaz, KernelRecurso, KernelRecursoInvalido,
           KernelDesorden, KernelPisado, ExecBlocked, ContextoDe, LeeContexto, Lee, vHistoria
  <1> SUFFICES ASSUME ~choque PROVE EnOrden'
    BY <1>1 DEF EnOrden
  <1>2. Cuentas /\ Turno /\ ~desorden /\ Sec(aKernel) /\ Sec(aCpu)
    BY DEF EnOrden
  <1>3. CASE \E p \in Procesos : CortoDespacha(p)
    BY <1>3, OrdenCorto
  <1>4. CASE QuantumEmpieza \/ QuantumVence \/ ConsolaFinaliza
    <2>1. UNCHANGED <<desorden, enExec, listos, guardado, bloqueo, cde_interrumpido, registros, cde,
                      salida_exit, aCpu, aKernel,
                      operacion, pcD, escribio, interrupcion>>
      BY <1>4 DEF QuantumEmpieza, QuantumVence, ConsolaFinaliza, vCpu, vBloqueo, vHistoria
    <2> QED BY <2>1, OrdenIgual
  <1>5. CASE KernelOperacion \/ KernelDatos
    BY <1>5, OrdenEscucha
  <1>6. CASE KernelFinaliza
    BY <1>6, OrdenSale DEF KernelFinaliza, LeeContexto, ConContexto
  <1>7. ASSUME NEW op, ContextoDe(op)
        PROVE  /\ Lee /\ operacion # Nada /\ Espera = "cde" /\ Espera \in ConContexto
               /\ Sigue(Tail(operacion.falta)) /\ bloqueo.paso = "no"
    BY <1>7 DEF ContextoDe, LeeContexto, ConContexto
  <1>8. CASE KernelFinDeQuantum
    BY <1>7, <1>8, OrdenSale DEF KernelFinDeQuantum
  <1>9. CASE KernelInterfaz
    BY <1>7, <1>9, OrdenSale DEF KernelInterfaz, Bloquea
  <1>10. CASE KernelRecurso
    BY <1>7, <1>10, OrdenSale, OrdenRegresa DEF KernelRecurso, Bloquea
  <1>11. CASE KernelRecursoInvalido
    BY <1>7, <1>11, OrdenSale DEF KernelRecursoInvalido
  <1>12. CASE KernelDesorden
    <2>1. aKernel # <<>> /\ ~Acepta
      BY <1>12 DEF KernelDesorden
    <2>2. PICK d, k, l, e, x :
              /\ d \in {0, 1} /\ k \in Salidas /\ l \in 0..2 /\ e \in 0..4
              /\ Dicho(d, k, l, e, x) /\ (d = 1 \/ l < e) /\ (l = 2 => k \in Llamadas)
              /\ \/ d = 1
                 \/ e = Largo(k) /\ x.pid = enExec
                 \/ e = 2 /\ k \in Llamadas
      BY <1>2, <2>1, QuienHabla
    <2>3. Acepta
      BY <1>2, <2>2, SiempreAcepta
    <2> QED BY <2>1, <2>3
  <1>13. CASE KernelPisado
    <2>1. UNCHANGED <<desorden, enExec, listos, guardado, bloqueo, cde_interrumpido, registros, cde,
                      salida_exit,
                      aCpu, aKernel, operacion, pcD, escribio, interrupcion>>
      BY <1>13 DEF KernelPisado, vCpu, vBloqueo, vHistoria
    <2> QED BY <2>1, OrdenIgual
  <1>14. CASE ExecBlocked
    BY <1>14, OrdenBloquea
  <1> QED BY <1>3, <1>4, <1>5, <1>6, <1>8, <1>9, <1>10, <1>11, <1>12, <1>13, <1>14 DEF Kernel

(* In every state that no collision led to, the conversation is in order.*)
LEMMA OrdenInductivo == IInv /\ EnOrden /\ [Next]_vars => EnOrden'
  <1> SUFFICES ASSUME IInv, EnOrden, [Next]_vars PROVE EnOrden'
    OBVIOUS
  <1>1. CASE UNCHANGED vars
    <2>1. choque' = choque /\ UNCHANGED <<desorden, enExec, listos, guardado, bloqueo, cde_interrumpido,
                                          registros, cde, salida_exit, aCpu,
                                          aKernel, operacion, pcD, escribio, interrupcion>>
      BY <1>1 DEF vars, vCpu, vKernel, vBloqueo, vHistoria
    <2>2. CASE choque
      BY <2>1, <2>2 DEF EnOrden
    <2> QED BY <2>1, <2>2, OrdenIgual
  <1>2. CASE Next
    BY <1>2, OrdenInterrupt, OrdenDespacho, OrdenExecute, OrdenRevisa, OrdenKernel DEF Next, HiloCiclo
  <1> QED BY <1>1, <1>2

(* The kernel always reads what it waits for, of the process it has in   *)
(* EXEC (levantar_CPU_Dispatch, kernel.c), in whatever order quantum ends,*)
(* requests to end a process and instructions that call the kernel fall, *)
(* unless an interrupt collided with an instruction.                     *)
THEOREM LaConversacionSigueEnSintonia == Spec => []EnSintonia
  <1>1. IInv /\ EnOrden => EnSintonia
    BY DEF IInv, Tipos, EnOrden, EnSintonia
  <1> QED BY <1>1, BanderasIniciales, BanderasInductivas, OrdenInicial, OrdenInductivo, PTL DEF Spec

-----------------------------------------------------------------------------
(* Where the context of a process is.                                    *)

(* The context of a process that is neither in the CPU nor in a socket.  *)
Fuera(p) == IF bloqueo.p = p THEN cde_interrumpido ELSE guardado[p]

LEMMA ViajanEs ==
    /\ aCpu = <<>> => Viajan = Vuelven
    /\ Sec(aCpu) /\ Len(aCpu) = 1 => Viajan = Vuelven \cup {LeeCde(aCpu[1])}
  <1>1. ASSUME aCpu = <<>> PROVE Viajan = Vuelven
    <2>1. DOMAIN aCpu = {}
      BY <1>1
    <2> QED BY <2>1 DEF Viajan
  <1>2. ASSUME Sec(aCpu), Len(aCpu) = 1 PROVE Viajan = Vuelven \cup {LeeCde(aCpu[1])}
    <2>1. DOMAIN aCpu = {1}
      BY <1>2, SecTail
    <2> QED BY <2>1 DEF Viajan
  <1> QED BY <1>1, <1>2

(* The same, after a step.                                               *)
LEMMA ViajanSon ==
    (/\ aCpu = <<>> => Viajan = Vuelven
     /\ Sec(aCpu) /\ Len(aCpu) = 1 => Viajan = Vuelven \cup {LeeCde(aCpu[1])})'
  BY ViajanEs, PTL

LEMMA ActualEs ==
    \A p : /\ pcD # "recibe" /\ cde.pid = p => Actual(p) = cde
           /\ ~(pcD # "recibe" /\ cde.pid = p) =>
                 /\ Viajan = {} => Actual(p) = Fuera(p)
                 /\ \A x : Viajan = {x} => Actual(p) = IF x.pid = p THEN x ELSE Fuera(p)
  <1> TAKE p
  <1>1. ASSUME NEW x, Viajan = {x}, x.pid = p PROVE EnViaje(p) = {x}
    BY <1>1 DEF EnViaje
  <1>2. ASSUME NEW x, Viajan = {x}, x.pid # p PROVE EnViaje(p) = {}
    BY <1>2 DEF EnViaje
  <1>3. Viajan = {} => EnViaje(p) = {}
    BY DEF EnViaje
  <1> QED BY <1>1, <1>2, <1>3 DEF Actual, Fuera

(* The same, after a step.                                               *)
LEMMA ActualDespues ==
    (\A p : /\ pcD # "recibe" /\ cde.pid = p => Actual(p) = cde
            /\ ~(pcD # "recibe" /\ cde.pid = p) =>
                  /\ Viajan = {} => Actual(p) = Fuera(p)
                  /\ \A x : Viajan = {x} => Actual(p) = IF x.pid = p THEN x ELSE Fuera(p))'
  BY ActualEs, PTL

(* While nothing is said, or only the beginning, no context is on its way.*)
LEMMA NadaViaja == Sec(aKernel) /\ (Callados \/ Llamando) => Vuelven = {}
  <1>1. ASSUME Sec(aKernel), Callados PROVE Vuelven = {}
    <2>1. PICK d \in {0, 1} : Dicho(d, "fin", 0, 0, NULO)
      BY <1>1 DEF Callados
    <2>2. Len(aKernel) = d + 0 - 0 /\ DOMAIN aKernel = 1..Len(aKernel)
      BY <1>1, <2>1 DEF Dicho, Sec
    <2>3. \A i \in DOMAIN aKernel : aKernel[i].que = "archivo"
      BY <2>1, <2>2 DEF Dicho
    <2> QED BY <2>3 DEF Vuelven
  <1>2. ASSUME Sec(aKernel), Llamando PROVE Vuelven = {}
    <2>1. PICK d \in {0, 1}, k \in Llamadas, l \in 0..2 : Dicho(d, k, l, 2, NULO)
      BY <1>2 DEF Llamando
    <2>2. Len(aKernel) = d + 2 - l /\ DOMAIN aKernel = 1..Len(aKernel)
      BY <1>2, <2>1 DEF Dicho, Sec
    <2>3. \A i \in DOMAIN aKernel : aKernel[i].que = "archivo" \/ aKernel[i].que \in {Palabra(k, 1), Palabra(k, 2)}
      <3> TAKE i \in DOMAIN aKernel
      <3>1. CASE i <= d
        BY <2>1, <3>1 DEF Dicho
      <3>2. CASE ~(i <= d)
        <4>1. aKernel[i].que = Palabra(k, l + i - d) /\ (l + i - d = 1 \/ l + i - d = 2)
          BY <2>1, <2>2, <3>2 DEF Dicho
        <4> QED BY <4>1
      <3> QED BY <3>1, <3>2
    <2>4. Palabra(k, 1) \notin ConContexto /\ Palabra(k, 2) \notin ConContexto
      BY Guion, Palabras DEF Llamadas, Salidas, ConContexto
    <2> QED BY <2>3, <2>4 DEF Vuelven, ConContexto
  <1> QED BY <1>1, <1>2

(* The same, after a step.                                               *)
LEMMA NadaViajaDespues == (Sec(aKernel) /\ (Callados \/ Llamando) => Vuelven = {})'
  BY NadaViaja, PTL

(* Nothing of where the contexts are changes.                            *)
LEMMA ActualIgual ==
    ASSUME UNCHANGED <<cde, aKernel, aCpu, guardado, bloqueo, cde_interrumpido>>,
           (pcD' = "recibe") <=> (pcD = "recibe"), NEW p
    PROVE  Actual(p)' = Actual(p)
  BY DEF Actual, EnViaje, Viajan, Vuelven

(* The context only changes its place in the kernel.                     *)
LEMMA ActualFuera ==
    ASSUME UNCHANGED <<pcD, cde, aKernel, aCpu>>, NEW p, Fuera(p)' = Fuera(p)
    PROVE  Actual(p)' = Actual(p)
  BY DEF Actual, EnViaje, Viajan, Vuelven, Fuera

(* The process that executes advances by one instruction, the others stay.*)
LEMMA ActualExecute ==
    ASSUME EnOrden, EnOrden', ~choque, ~choque', Execute, NEW p
    PROVE  Actual(p)' = Actual(p) \/ Avanza(p)
  <1>1. /\ pcD = "instruccion" /\ pcD' = "revisa"
        /\ registros' = Opera(registros, Instruccion(cde))
        /\ cde' = [cde EXCEPT !.PC = Contador(cde, Instruccion(cde)), !.registros = registros']
        /\ UNCHANGED <<enExec, guardado, bloqueo, cde_interrumpido, aCpu>>
    BY DEF Execute, Calcula, Resize, Recurso, EntradaSalida, Exit, Ejecuta, vKernel, vBloqueo
  <1>2. Cuentas /\ Turno /\ Sec(aKernel) /\ Turno' /\ Sec(aKernel')
    BY DEF EnOrden
  <1>3. escribio = "nada" /\ EsContexto(cde) /\ registros = cde.registros
    BY <1>1, <1>2 DEF Cuentas
  <1>4. Calculando
    BY <1>1, <1>2, <1>3 DEF Turno, Libre, Despachado, Llamando, Saliendo, EnCpu
  <1>5. Viajan = {} /\ cde.pid = enExec
    BY <1>2, <1>4, NadaViaja, ViajanEs DEF Calculando, Suyo
  <1>9. Viajan' = Vuelven'
    BY <1>1, <1>4, ViajanSon DEF Calculando, Suyo
  <1>6. cde' = Ejecutado(cde) /\ cde'.pid = cde.pid
    <2>1. cde' = [cde EXCEPT !.PC = Contador(cde, Instruccion(cde)), !.registros = Opera(cde.registros, Instruccion(cde))]
      BY <1>1, <1>3
    <2>2. cde'.pid = cde.pid
      BY <1>3, <2>1 DEF EsContexto
    <2> QED BY <2>1, <2>2 DEF Ejecutado
  <1>7. CASE cde.pid = p
    <2>1. Actual(p) = cde /\ Actual(p)' = cde'
      BY <1>1, <1>6, <1>7, ActualEs, ActualDespues
    <2> QED BY <1>1, <1>6, <1>7, <2>1 DEF Avanza
  <1>8. CASE cde.pid # p
    <2>1. Actual(p) = Fuera(p)
      BY <1>5, <1>8, ActualEs
    <2>2. Viajan' = {} \/ \E x : Viajan' = {x} /\ x.pid # p
      <3>1. CASE Saliendo'
        <4>1. PICK d \in {0, 1}, k \in Salidas, l \in 0..2, x \in Vuelven' :
                 l < Largo(k) /\ x.pid = enExec' /\ Dicho(d, k, l, Largo(k), x)'
          BY <3>1 DEF Saliendo
        <4>2. Viajan' = {x}
          BY <1>2, <1>9, <4>1, ViajaDespues
        <4> QED BY <1>1, <1>5, <1>8, <4>1, <4>2
      <3>2. CASE ~Saliendo'
        BY <1>2, <1>9, <3>2, NadaViajaDespues DEF Turno, Libre, Despachado, Calculando
      <3> QED BY <3>1, <3>2
    <2>3. Actual(p)' = Fuera(p)'
      BY <1>6, <1>8, <2>2, ActualDespues
    <2> QED BY <1>1, <2>1, <2>3 DEF Fuera
  <1> QED BY <1>7, <1>8

(* check_interrupt: the context goes from the CPU to the socket.         *)
LEMMA ActualRevisa ==
    ASSUME IInv, EnOrden, EnOrden', ~choque, ~choque', Check_interrupt, NEW p, Vive(p)'
    PROVE  Actual(p)' = Actual(p)
  <1>1. pcD # "recibe" /\ UNCHANGED <<enExec, listos, guardado, bloqueo, cde_interrumpido, aCpu>>
    BY DEF Check_interrupt, RevisaQuantum, RevisaSinQuantum, RevisaExit, RevisaLlamada, RevisaNada, vHistoria,
           Termina, vKernel, vBloqueo
  <1>2. Cuentas /\ Turno /\ Sec(aKernel)
    BY DEF EnOrden
  <1>3. CASE escribio # "fin" /\ pcD' = "recibe"
    <2>5. Calculando \/ Llamando
      BY <1>1, <1>2, <1>3 DEF Turno, Libre, Despachado, Saliendo, EnCpu
    <2>6. aCpu = <<>> /\ aCpu' = <<>>
      BY <1>1, <2>5 DEF Calculando, Llamando, Suyo
    <2>1. Viajan' = {cde}
      BY <1>3, <2>6, OrdenRevisa, ViajanSon DEF DejaSuContexto
    <2>2. Viajan = {}
      BY <1>2, <2>5, <2>6, NadaViaja, ViajanEs DEF Calculando
    <2>7. Fuera(p)' = Fuera(p)
      BY <1>1 DEF Fuera
    <2>3. CASE cde.pid = p
      BY <1>1, <1>3, <2>1, <2>3, ActualEs, ActualDespues
    <2>4. CASE cde.pid # p
      BY <1>1, <1>3, <2>1, <2>2, <2>4, <2>7, ActualEs, ActualDespues
    <2> QED BY <2>3, <2>4
  <1>4. CASE escribio = "fin" /\ pcD' = "recibe"
    <2>1. ~Calculando /\ ~Llamando
      BY <1>4 DEF Calculando, Llamando, Suyo, EnCpu
    <2>2. UNCHANGED aKernel
      <3>1. interrupcion \in [Banderas -> BOOLEAN] /\ UnaDelTipo
        BY <1>1 DEF IInv, Tipos, Limpia, EnOrden, Check_interrupt, RevisaQuantum, RevisaSinQuantum, RevisaExit,
           RevisaLlamada, RevisaNada
      <3> QED BY <1>4, <3>1 DEF Check_interrupt, RevisaQuantum, RevisaSinQuantum, RevisaExit,
           RevisaLlamada, RevisaNada, UnaDelTipo, Ninguna, DeInstruccion
    <2>3. Viajan' = Viajan
      BY <1>1, <2>2 DEF Viajan, Vuelven
    <2>4. CASE cde.pid = p
      <3>1. p = enExec /\ Saliendo
        BY <1>1, <1>2, <1>4, <2>4 DEF Turno, Vive
      <3>2. PICK d \in {0, 1}, k \in Salidas, l \in 0..2, x \in Vuelven :
               l < Largo(k) /\ Dicho(d, k, l, Largo(k), x) /\ x = cde
        BY <1>1, <3>1 DEF Saliendo
      <3>3. Viajan' = {cde}
        BY <1>2, <2>3, <3>1, <3>2, Viaja, ViajanEs DEF Saliendo
      <3> QED BY <1>1, <1>4, <2>4, <3>3, ActualEs, ActualDespues
    <2>5. CASE cde.pid # p
      BY <1>1, <1>4, <2>3, <2>5 DEF Actual, EnViaje
    <2> QED BY <2>4, <2>5
  <1>5. CASE pcD' # "recibe"
    <2>1. UNCHANGED <<cde, aKernel>>
      BY <1>5 DEF Check_interrupt, RevisaQuantum, RevisaSinQuantum, RevisaExit, RevisaLlamada, RevisaNada,
         Termina, Libera
    <2> QED BY <1>1, <1>5, <2>1, ActualIgual
  <1> QED BY <1>3, <1>4, <1>5

(* EJECUTAR_PROCESO: the context goes from the socket to the CPU.        *)
LEMMA ActualDespacho ==
    ASSUME EnOrden, EnOrden', ~choque, ~choque', Despacho, NEW p
    PROVE  Actual(p)' = Actual(p)
  <1>1. /\ pcD = "recibe" /\ aCpu # <<>> /\ cde' = LeeCde(Head(aCpu)) /\ pcD' = "instruccion"
        /\ UNCHANGED <<aKernel, guardado, bloqueo, cde_interrumpido>>
    BY DEF Despacho, vKernel, vBloqueo
  <1>2. Cuentas /\ Turno /\ Sec(aKernel) /\ Sec(aCpu) /\ Cuentas' /\ Turno'
    BY DEF EnOrden
  <1>3. Despachado
    BY <1>1, <1>2 DEF Turno, Libre, Calculando, Llamando, Saliendo, Suyo, EnCpu
  <1>4. Head(aCpu) = aCpu[1] /\ cde'.pid = enExec
    BY <1>1, <1>2, <1>3, SecTail DEF Despachado
  <1>5. aCpu' = <<>>
    <2>1. EnCpu'
      BY <1>1, <1>2 DEF EnCpu, Cuentas
    <2> QED BY <1>2, <2>1 DEF Turno, Libre, Despachado, Saliendo, Calculando, Llamando, Suyo
  <1>6. Viajan = {cde'} /\ Viajan' = {}
    <2>1. Vuelven = {}
      BY <1>2, <1>3, NadaViaja DEF Despachado
    <2>2. Vuelven' = {}
      BY <1>1, <2>1 DEF Vuelven
    <2> QED BY <1>1, <1>2, <1>3, <1>4, <1>5, <2>1, <2>2, ViajanEs, ViajanSon DEF Despachado
  <1>7. Fuera(p)' = Fuera(p)
    BY <1>1 DEF Fuera
  <1>8. CASE p = enExec
    BY <1>1, <1>4, <1>6, <1>8, ActualEs, ActualDespues
  <1>9. CASE p # enExec
    BY <1>1, <1>4, <1>6, <1>7, <1>9, ActualEs, ActualDespues
  <1> QED BY <1>8, <1>9

(* The kernel keeps the context it read for a process that will run again, *)
(* in the PCB or in the global that exec_blocked is to store.            *)
LEMMA ActualSale ==
    ASSUME EnOrden, ~choque, Lee, operacion # Nada, Espera \in ConContexto,
           Sigue(Tail(operacion.falta)), bloqueo.paso = "no",
           NEW v \in BOOLEAN, Sale(v), v => Espera # "fin", UNCHANGED aCpu,
           guardado' = guardado \/ Anota(Contenido) \/ Anota(Contexto(enExec)),
           (UNCHANGED vBloqueo /\ (v => Anota(Contenido))) \/ Bloquea(v),
           NEW p \in Procesos, Vive(p)'
    PROVE  Actual(p)' = Actual(p)
  <1>1. Cuentas /\ Turno /\ Sec(aKernel)
    BY DEF EnOrden
  <1>2. UNCHANGED <<pcD, cde>>
    BY DEF Lee, vCpu
  <1>3. PICK x : x = Contenido
    OBVIOUS
  <1>4. /\ Sec(aKernel') /\ Callados' /\ Vuelven = {x} /\ x.pid = enExec /\ aCpu = <<>>
        /\ (pcD # "recibe" => x = cde /\ Espera = "fin")
    BY <1>1, <1>3, LeeElContexto DEF Contenido
  <1>5. Viajan = {x} /\ Viajan' = {}
    BY <1>4, NadaViajaDespues, ViajanEs, ViajanSon
  <1>6. bloqueo.p # p
    BY <1>1, NuloAssumption DEF Cuentas, SinOrden
  <1>7. CASE p = enExec
    <2>1. v
      BY <1>1, <1>7, NuloAssumption DEF Vive, Cuentas, Sale
    <2>2. pcD = "recibe"
      BY <1>4, <2>1
    <2>3. Fuera(p)' = x
      <3>1. CASE UNCHANGED vBloqueo /\ Anota(Contenido)
        BY <1>1, <1>3, <1>6, <1>7, <3>1 DEF Fuera, Anota, Cuentas, vBloqueo
      <3>2. CASE Bloquea(v)
        BY <1>3, <1>7, <2>1, <3>2 DEF Fuera, Bloquea
      <3> QED BY <2>1, <3>1, <3>2
    <2> QED BY <1>2, <1>4, <1>5, <1>7, <2>2, <2>3, ActualEs, ActualDespues
  <1>8. CASE p # enExec
    <2>1. ~(pcD # "recibe" /\ cde.pid = p)
      BY <1>4, <1>8
    <2>2. guardado'[p] = guardado[p]
      BY <1>1, <1>8 DEF Anota, Cuentas
    <2>3. Fuera(p)' = Fuera(p)
      <3>1. bloqueo'.p # p
        BY <1>6, <1>8 DEF Bloquea, vBloqueo
      <3> QED BY <1>6, <2>2, <3>1 DEF Fuera
    <2> QED BY <1>2, <1>4, <1>5, <1>8, <2>1, <2>3, ActualEs, ActualDespues
  <1> QED BY <1>7, <1>8

(* The context goes back to the CPU at once.                             *)
LEMMA ActualRegresa ==
    ASSUME EnOrden, EnOrden', ~choque, ~choque', Lee, operacion # Nada, Espera = "cde",
           Sigue(Tail(operacion.falta)), guardado' = guardado \/ Anota(Contenido), Envia(Contenido),
           UNCHANGED <<enExec, vBloqueo>>, bloqueo.paso = "no", NEW p \in Procesos
    PROVE  Actual(p)' = Actual(p)
  <1>1. Cuentas /\ Turno /\ Sec(aKernel) /\ Sec(aCpu')
    BY DEF EnOrden
  <1>2. UNCHANGED <<pcD, cde>>
    BY DEF Lee, vCpu
  <1>3. PICK x : x = Contenido
    OBVIOUS
  <1>4. /\ Sec(aKernel') /\ Callados' /\ Vuelven = {x} /\ x.pid = enExec /\ EsContexto(x) /\ aCpu = <<>>
        /\ pcD = "recibe"
    BY <1>1, <1>3, LeeElContexto DEF Contenido, ConContexto
  <1>5. aCpu' = <<AgregaCde(x)>>
    BY <1>3, <1>4 DEF Envia
  <1>6. Len(aCpu') = 1 /\ LeeCde(aCpu'[1]) = x
    BY <1>4, <1>5, SecTuplas, IdaYVuelta
  <1>7. Viajan = {x} /\ Viajan' = {x}
    BY <1>1, <1>4, <1>6, NadaViajaDespues, ViajanEs, ViajanSon
  <1>8. CASE p = enExec
    BY <1>2, <1>4, <1>7, <1>8, ActualEs, ActualDespues
  <1>9. CASE p # enExec
    <2>1. Fuera(p)' = Fuera(p)
      BY <1>1, <1>9 DEF Fuera, Anota, Cuentas, vBloqueo
    <2> QED BY <1>2, <1>4, <1>7, <1>9, <2>1, ActualEs, ActualDespues
  <1> QED BY <1>8, <1>9

(* corto_plazo: the context goes from the PCB to the socket.             *)
LEMMA ActualCorto ==
    ASSUME EnOrden, EnOrden', ~choque, ~choque', NEW q \in Procesos, CortoDespacha(q), ~atrasado',
           NEW p \in Procesos
    PROVE  Actual(p)' = Actual(p)
  <1>1. Cuentas /\ Turno /\ Sec(aKernel) /\ Sec(aCpu')
    BY DEF EnOrden
  <1>2. /\ UNCHANGED <<pcD, cde, aKernel, guardado, bloqueo, cde_interrumpido>>
        /\ enExec = NULO /\ q \in listos /\ aCpu' = Append(aCpu, AgregaCde(guardado[q]))
        /\ bloqueo.p = q => guardado[q] = cde_interrumpido
    BY DEF CortoDespacha, vCpu, vBloqueo, Envia
  <1>3. Libre
    BY <1>1, <1>2, NuloAssumption DEF Turno, Despachado, Calculando, Llamando, Saliendo, Suyo, EnCpu, Cuentas,
       EsContexto
  <1>4. PICK x : x = guardado[q]
    OBVIOUS
  <1>5. EsContexto(x) /\ x.pid = q
    BY <1>1, <1>4 DEF Cuentas
  <1>6. aCpu' = <<AgregaCde(x)>>
    BY <1>2, <1>3, <1>4 DEF Libre
  <1>7. Len(aCpu') = 1 /\ LeeCde(aCpu'[1]) = x
    BY <1>5, <1>6, SecTuplas, IdaYVuelta
  <1>8. Vuelven = {} /\ Vuelven' = {}
    <2>1. Vuelven = {}
      BY <1>1, <1>3, NadaViaja DEF Libre
    <2> QED BY <1>2, <2>1 DEF Vuelven
  <1>9. Viajan = {} /\ Viajan' = {x}
    BY <1>1, <1>3, <1>7, <1>8, ViajanEs, ViajanSon DEF Libre
  <1>10. Fuera(p)' = Fuera(p) /\ Fuera(q) = x
    BY <1>2, <1>4 DEF Fuera
  <1>11. CASE p = q
    <2>1. ~(pcD # "recibe" /\ cde.pid = q)
      BY <1>1, <1>2, <1>3 DEF Turno, Libre, EnCpu
    <2> QED BY <1>2, <1>5, <1>9, <1>10, <1>11, <2>1, ActualEs, ActualDespues
  <1>12. CASE p # q
    BY <1>2, <1>5, <1>9, <1>10, <1>12, ActualEs, ActualDespues
  <1> QED BY <1>11, <1>12

(* exec_blocked: the context goes from the global to the PCB.            *)
LEMMA ActualBloquea ==
    ASSUME EnOrden, ~choque, ExecBlocked, NEW p \in Procesos
    PROVE  Actual(p)' = Actual(p)
  <1>1. Cuentas
    BY DEF EnOrden
  <1>2. /\ UNCHANGED <<pcD, cde, aKernel, aCpu>>
        /\ \/ /\ bloqueo.paso \in {"orden", "mueve"} /\ UNCHANGED <<guardado, cde_interrumpido>>
              /\ bloqueo' = [bloqueo EXCEPT !.paso = "mueve"] \/ bloqueo' = [bloqueo EXCEPT !.paso = "guarda"]
           \/ /\ bloqueo.paso = "guarda" /\ bloqueo' = SinOrden
              /\ guardado' = [guardado EXCEPT ![bloqueo.p] = cde_interrumpido]
    BY DEF ExecBlocked, vCpu
  <1>3. CASE bloqueo.paso \in {"orden", "mueve"}
    <2>1. bloqueo'.p = bloqueo.p
      BY <1>1, <1>2, <1>3 DEF Cuentas
    <2> QED BY <1>2, <1>3, <2>1, ActualFuera DEF Fuera
  <1>4. CASE bloqueo.paso = "guarda"
    <2>1. bloqueo'.p # p
      BY <1>2, <1>4, NuloAssumption DEF SinOrden
    <2>2. Fuera(p)' = Fuera(p)
      BY <1>1, <1>2, <1>4, <2>1 DEF Fuera, Cuentas
    <2> QED BY <1>2, <2>2, ActualFuera
  <1> QED BY <1>2, <1>3, <1>4

(* A word that is no context carries none.                               *)
LEMMA ViajaIgual ==
    ASSUME Sec(aKernel), aKernel # <<>>, aKernel' = Tail(aKernel), Leido.que \notin ConContexto
    PROVE  Vuelven' = Vuelven
  <1>1. Len(aKernel) > 0
    <2>1. PICK S : aKernel \in Seq(S)
      BY DEF Sec
    <2> QED BY <2>1
  <1>2. /\ DOMAIN aKernel = 1..Len(aKernel) /\ DOMAIN aKernel' = 1..(Len(aKernel) - 1) /\ Leido = aKernel[1]
        /\ Len(aKernel) \in Nat
        /\ \A i \in DOMAIN aKernel' : aKernel'[i] = aKernel[i + 1] /\ i + 1 \in DOMAIN aKernel
    BY <1>1, SecTail DEF Leido
  <1>3. ASSUME NEW c \in Vuelven' PROVE c \in Vuelven
    <2>1. PICK i \in DOMAIN aKernel' : aKernel'[i].que \in {"cde", "fin"} /\ c = LeeCde(aKernel'[i].cde)
      BY <1>3 DEF Vuelven
    <2> QED BY <1>2, <2>1 DEF Vuelven
  <1>4. ASSUME NEW c \in Vuelven PROVE c \in Vuelven'
    <2>1. PICK i \in DOMAIN aKernel : aKernel[i].que \in {"cde", "fin"} /\ c = LeeCde(aKernel[i].cde)
      BY <1>4 DEF Vuelven
    <2>2. i # 1
      BY <1>2, <2>1 DEF ConContexto
    <2>3. i - 1 \in DOMAIN aKernel' /\ (i - 1) + 1 = i
      BY <1>2, <2>1, <2>2
    <2>4. aKernel'[i - 1] = aKernel[i]
      BY <1>2, <2>3
    <2> QED BY <2>1, <2>3, <2>4 DEF Vuelven
  <1> QED BY <1>3, <1>4

(* The kernel moves the contexts and changes none.                       *)
LEMMA ActualKernel ==
    ASSUME EnOrden, EnOrden', ~choque, ~choque', ~atrasado', Kernel, NEW p \in Procesos, Vive(p)'
    PROVE  Actual(p)' = Actual(p)
  <1>1. Cuentas /\ Turno /\ Sec(aKernel)
    BY DEF EnOrden
  <1>2. CASE QuantumEmpieza \/ QuantumVence \/ ConsolaFinaliza \/ KernelDesorden \/ KernelPisado
    <2>1. UNCHANGED <<pcD, cde, aKernel, aCpu, guardado, bloqueo, cde_interrumpido>>
      BY <1>2 DEF QuantumEmpieza, QuantumVence, ConsolaFinaliza, KernelDesorden, KernelPisado, vCpu, vBloqueo
    <2> QED BY <2>1, ActualIgual
  <1>3. CASE KernelOperacion \/ KernelDatos
    <2>1. /\ UNCHANGED <<pcD, cde, aCpu, guardado, bloqueo, cde_interrumpido>>
          /\ aKernel # <<>> /\ aKernel' = Tail(aKernel) /\ Acepta
      BY <1>3 DEF KernelOperacion, KernelDatos, Lee, vCpu, vBloqueo
    <2>2. Leido.que \notin ConContexto
      <3>1. CASE KernelOperacion
        BY <2>1, <3>1 DEF KernelOperacion, Acepta, Falta, ConContexto
      <3>2. CASE KernelDatos
        BY <2>1, <3>2 DEF KernelDatos, Acepta, ConContexto
      <3> QED BY <1>3, <3>1, <3>2
    <2>3. Viajan' = Viajan
      BY <1>1, <2>1, <2>2, ViajaIgual DEF Viajan
    <2> QED BY <2>1, <2>3 DEF Actual, EnViaje
  <1>4. ASSUME NEW op, ContextoDe(op)
        PROVE  /\ Lee /\ operacion # Nada /\ Espera = "cde" /\ Espera \in ConContexto
               /\ Sigue(Tail(operacion.falta)) /\ bloqueo.paso = "no"
    BY <1>4 DEF ContextoDe, LeeContexto, ConContexto
  <1>5. CASE KernelFinaliza
    BY <1>5, ActualSale DEF KernelFinaliza, LeeContexto, ConContexto
  <1>6. CASE KernelFinDeQuantum
    BY <1>4, <1>6, ActualSale DEF KernelFinDeQuantum
  <1>7. CASE KernelInterfaz
    BY <1>4, <1>7, ActualSale DEF KernelInterfaz, Bloquea
  <1>8. CASE KernelRecurso
    BY <1>4, <1>8, ActualSale, ActualRegresa DEF KernelRecurso, Bloquea
  <1>9. CASE KernelRecursoInvalido
    BY <1>4, <1>9, ActualSale DEF KernelRecursoInvalido
  <1>10. CASE \E q \in Procesos : CortoDespacha(q)
    BY <1>10, ActualCorto
  <1>11. CASE ExecBlocked
    BY <1>11, ActualBloquea
  <1> QED BY <1>2, <1>3, <1>5, <1>6, <1>7, <1>8, <1>9, <1>10, <1>11 DEF Kernel

(* A process that will run again sees its program counter and registers  *)
(* change only by its own next instruction, however many times it leaves *)
(* the CPU and comes back: what check_interrupt sends (cpu.c), what the  *)
(* kernel keeps in cde_interrumpido and in the PCB and what it dispatches  *)
(* are the same context.  Not after an interrupt collided with an          *)
(* instruction, a process was dispatched before exec_blocked stored its    *)
(* context, or a context was overwritten (transicion_exec_blocked).        *)
THEOREM ElContextoQuedaIntacto == Spec => ContextoIntacto
  <1>1. IInv /\ EnOrden /\ [Next]_vars
           => [choque' \/ atrasado' \/ pisado'
               \/ \A p \in Procesos : Vive(p)' => Actual(p)' = Actual(p) \/ Avanza(p)]_vars
    <2> SUFFICES ASSUME IInv, EnOrden, Next, ~choque', ~atrasado', NEW p \in Procesos, Vive(p)'
                 PROVE  Actual(p)' = Actual(p) \/ Avanza(p)
      OBVIOUS
    <2>1. EnOrden'
      BY OrdenInductivo
    <2>2. ~choque
      BY DEF Next, HiloInterrupt, HiloCiclo, Execute, Check_interrupt, Kernel, InterrupMira, InterrupEspera,
         InterrupRecibe, Despacho, Calcula, Resize, Recurso, EntradaSalida, Exit, Ejecuta, RevisaQuantum,
         RevisaSinQuantum, RevisaExit, RevisaLlamada, RevisaNada, CortoDespacha, QuantumEmpieza, QuantumVence,
         ConsolaFinaliza, KernelOperacion, KernelDatos, KernelFinaliza, KernelFinDeQuantum, KernelInterfaz,
         KernelRecurso, KernelRecursoInvalido, KernelDesorden, KernelPisado, ExecBlocked, ContextoDe, LeeContexto,
         Lee, vHistoria
    <2>3. CASE HiloInterrupt
      <3>1. UNCHANGED <<pcD, cde, aKernel, aCpu, guardado, bloqueo, cde_interrumpido>>
        BY <2>3 DEF HiloInterrupt, InterrupMira, InterrupEspera, InterrupRecibe, vKernel, vBloqueo
      <3> QED BY <3>1, ActualIgual
    <2> QED BY <2>1, <2>2, <2>3, ActualDespacho, ActualExecute, ActualRevisa, ActualKernel
            DEF Next, HiloCiclo
  <1> QED BY <1>1, BanderasIniciales, BanderasInductivas, OrdenInicial, OrdenInductivo, PTL
          DEF Spec, ContextoIntacto

-----------------------------------------------------------------------------
(* Types.                                                                *)

EnSusBits(rs) == rs \in [Registros -> Int] /\ EnAncho(rs)
Formado(c) == c \in Contextos /\ EnSusBits(c.registros)

TiposCpu ==
    /\ pcD \in {"recibe", "instruccion", "revisa", "revisa_exit"}
    /\ pcI \in {"mira", "espera", "recibe"}
    /\ IF pcD = "recibe" THEN cde = NULO ELSE Formado(cde)
    /\ EnSusBits(registros)
    /\ salida_exit \in BOOLEAN
    /\ s_exit \in 0..MaxSExit

TiposSockets ==
    /\ Sec(aCpu) /\ \A i \in 1..Len(aCpu) : Formado(LeeCde(aCpu[i]))
    /\ Sec(aKernel)
    /\ \A i \in 1..Len(aKernel) : aKernel[i].que \in ConContexto => Formado(LeeCde(aKernel[i].cde))
    /\ Len(aInterrupt) <= MaxInterrup

TiposKernel ==
    /\ programa \in [Procesos -> Programas]
    /\ enExec \in Procesos \cup {NULO} /\ enExec \notin listos /\ listos \subseteq Procesos
    /\ guardado = [p \in Procesos |-> guardado[p]]
    /\ \A p \in Procesos : Formado(guardado[p]) /\ guardado[p].pid = p
    /\ bloqueo \in [paso : {"no", "orden", "mueve", "guarda"}, p : Procesos \cup {NULO}]
    /\ cde_interrumpido = NULO \/ Formado(cde_interrumpido)
    /\ bloqueo.paso # "no" =>
          bloqueo.p \in Procesos /\ Formado(cde_interrumpido) /\ cde_interrumpido.pid = bloqueo.p
    /\ quantum \in {"no", "por_crear", "corre"}
    /\ finalizados \in 0..MaxFinalizar

Tipado == TiposCpu /\ TiposSockets /\ TiposKernel

(* What an instruction leaves in a register fits in its width.           *)
LEMMA GuardaEnSusBits ==
    ASSUME NEW rs, EnSusBits(rs), NEW r, NEW v \in Int
    PROVE  EnSusBits(Guarda(rs, r, v))
  <1>1. Modulo(r) \in Nat \ {0}
    BY PotenciasAssumption DEF Modulo
  <1>2. v % Modulo(r) \in 0..(Modulo(r) - 1)
    <2> DEFINE m == Modulo(r)
    <2>1. m \in Nat \ {0}
      BY <1>1
    <2> HIDE DEF m
    <2>2. v % m \in 0..(m - 1)
      BY <2>1
    <2> QED BY <2>2 DEF m
  <1>3. v % Modulo(r) \in Int
    BY <1>1, <1>2
  <1>4. Guarda(rs, r, v) \in [Registros -> Int]
    BY <1>3 DEF Guarda, EnSusBits
  <1>5. \A s \in Registros : Guarda(rs, r, v)[s] = IF s = r THEN v % Modulo(r) ELSE rs[s]
    BY DEF Guarda, EnSusBits
  <1>6. ASSUME NEW s \in Registros PROVE Guarda(rs, r, v)[s] \in 0..(Modulo(s) - 1)
    <2>1. CASE s = r
      BY <1>2, <1>5, <2>1
    <2>2. CASE s # r
      BY <1>5, <2>2 DEF EnSusBits, EnAncho
    <2> QED BY <2>1, <2>2
  <1> QED BY <1>4, <1>6 DEF EnSusBits, EnAncho

LEMMA OperaEnSusBits ==
    ASSUME NEW rs, EnSusBits(rs), NEW i \in Instrucciones
    PROVE  EnSusBits(Opera(rs, i))
  <1>1. i.n \in Int /\ rs \in [Registros -> Int]
    BY DEF Instrucciones, EnSusBits
  <1>2. \A o : Valor(rs, o) \in Int
    BY <1>1 DEF Valor
  <1>3. ASSUME i.r \notin Registros PROVE \A v : Guarda(rs, i.r, v) = rs
    BY <1>1, <1>3 DEF Guarda
  <1>4. ASSUME NEW o PROVE EnSusBits(Guarda(rs, i.r, rs[i.r] + Valor(rs, o)))
    <2>1. CASE i.r \in Registros
      <3>1. rs[i.r] + Valor(rs, o) \in Int
        BY <1>1, <1>2, <2>1
      <3> QED BY <3>1, GuardaEnSusBits
    <2>2. CASE i.r \notin Registros
      BY <1>3, <2>2
    <2> QED BY <2>1, <2>2
  <1>5. ASSUME NEW o PROVE EnSusBits(Guarda(rs, i.r, rs[i.r] - Valor(rs, o)))
    <2>1. CASE i.r \in Registros
      <3>1. rs[i.r] - Valor(rs, o) \in Int
        BY <1>1, <1>2, <2>1
      <3> QED BY <3>1, GuardaEnSusBits
    <2>2. CASE i.r \notin Registros
      BY <1>3, <2>2
    <2> QED BY <2>1, <2>2
  <1>6. EnSusBits(Guarda(rs, i.r, i.n))
    BY <1>1, GuardaEnSusBits
  <1> HIDE DEF Guarda, EnSusBits
  <1>7. EnSusBits(Set(rs, i)) /\ EnSusBits(Jnz(rs, i))
    BY <1>6 DEF Set, Jnz
  <1>8. EnSusBits(Sum(rs, i)) /\ EnSusBits(Sub(rs, i))
    BY <1>4, <1>5 DEF Sum, Sub
  <1> QED BY <1>7, <1>8 DEF Opera

(* A context that crosses a socket.                                      *)
LEMMA FormadoViaja ==
    ASSUME NEW c, Formado(c)
    PROVE  EsContexto(c) /\ LeeCde(AgregaCde(c)) = c
  <1>1. EsContexto(c)
    BY DEF EsContexto, Formado, EnSusBits, Contextos
  <1> QED BY <1>1, IdaYVuelta

LEMMA FormadoCambia ==
    ASSUME NEW c, Formado(c), NEW n \in Nat, NEW rs, EnSusBits(rs)
    PROVE  /\ Formado([c EXCEPT !.PC = n, !.registros = rs])
           /\ Formado([c EXCEPT !.PC = c.PC + 1])
           /\ [c EXCEPT !.PC = n, !.registros = rs].pid = c.pid
  <1>1. c = [pid |-> c.pid, PC |-> c.PC, registros |-> c.registros]
        /\ c.pid \in Procesos /\ c.PC \in Nat /\ c.registros \in [Registros -> Int] /\ EnSusBits(c.registros)
    BY DEF Formado, Contextos
  <1>2. rs \in [Registros -> Int]
    BY DEF EnSusBits
  <1>3. [c EXCEPT !.PC = n, !.registros = rs] = [pid |-> c.pid, PC |-> n, registros |-> rs]
    <2> DEFINE d == [c EXCEPT !.PC = n]
    <2>1. d = [pid |-> c.pid, PC |-> n, registros |-> c.registros]
      BY <1>1
    <2>2. [c EXCEPT !.PC = n, !.registros = rs] = [d EXCEPT !.registros = rs]
      OBVIOUS
    <2> HIDE DEF d
    <2>3. [d EXCEPT !.registros = rs] = [pid |-> c.pid, PC |-> n, registros |-> rs]
      BY <2>1
    <2> QED BY <2>2, <2>3
  <1>4. [c EXCEPT !.PC = c.PC + 1] = [pid |-> c.pid, PC |-> c.PC + 1, registros |-> c.registros]
    BY <1>1
  <1> QED BY <1>1, <1>2, <1>3, <1>4 DEF Formado, Contextos

LEMMA FormadoInicial == EnSusBits(Cero) /\ \A p \in Procesos : Formado(Contexto(p)) /\ Contexto(p).pid = p
  <1>1. ASSUME NEW r \in Registros PROVE 0 \in 0..(Modulo(r) - 1)
    BY PotenciasAssumption DEF Modulo
  <1>2. EnSusBits(Cero)
    BY <1>1 DEF Cero, EnSusBits, EnAncho
  <1> QED BY <1>2 DEF Formado, Contexto, Contextos, EnSusBits

(* What is written at the end of a socket.                               *)
Escritas(t) == Sec(t) /\ \A i \in 1..Len(t) : t[i].que \in ConContexto => Formado(LeeCde(t[i].cde))

LEMMA SocketEscrito ==
    ASSUME TiposSockets, NEW t, Escritas(t), aKernel' = aKernel \o t, UNCHANGED <<aCpu, aInterrupt>>
    PROVE  TiposSockets'
  <1>1. /\ Sec(aKernel') /\ Len(aKernel') = Len(aKernel) + Len(t) /\ Len(t) \in Nat /\ Len(aKernel) \in Nat
        /\ \A i \in 1..Len(aKernel) : aKernel'[i] = aKernel[i]
        /\ \A i \in 1..Len(t) : aKernel'[Len(aKernel) + i] = t[i]
    BY SecConcat DEF TiposSockets, Escritas
  <1>2. ASSUME NEW i \in 1..Len(aKernel'), aKernel'[i].que \in ConContexto
        PROVE  Formado(LeeCde(aKernel'[i].cde))
    <2>1. CASE i \in 1..Len(aKernel)
      BY <1>1, <1>2, <2>1 DEF TiposSockets
    <2>2. CASE i \notin 1..Len(aKernel)
      <3>1. PICK j \in 1..Len(t) : i = Len(aKernel) + j
        <4>1. i - Len(aKernel) \in 1..Len(t) /\ i = Len(aKernel) + (i - Len(aKernel))
          BY <1>1, <2>2
        <4> QED BY <4>1
      <3> QED BY <1>1, <1>2, <3>1 DEF Escritas
    <2> QED BY <2>1, <2>2
  <1> QED BY <1>1, <1>2 DEF TiposSockets

LEMMA EscritasDos ==
    ASSUME NEW a, NEW b, a.que \notin ConContexto, b.que \in ConContexto => Formado(LeeCde(b.cde))
    PROVE  Escritas(<<a, b>>)
  <1> DEFINE t == <<a, b>>
  <1>1. Sec(t) /\ Len(t) = 2 /\ t[1] = a /\ t[2] = b
    BY SecTuplas
  <1> HIDE DEF t
  <1>2. \A i \in 1..Len(t) : i = 1 \/ i = 2
    BY <1>1
  <1>3. Escritas(t)
    BY <1>1, <1>2 DEF Escritas
  <1> QED BY <1>3 DEF t

(* What check_interrupt writes, and what an instruction does.            *)
LEMMA EscribeRevisa ==
    ASSUME Formado(cde)
    PROVE  Escritas(Devuelve) /\ Escritas(DevuelveArchivo) /\ Escritas(Interrumpido) /\ Escritas(Desalojado)
  <1>1. \A q : BufferCde(q, cde).que = q /\ Formado(LeeCde(BufferCde(q, cde).cde))
    BY FormadoViaja DEF BufferCde
  <1>2. \A o : Op(o).que = o /\ Buffer(o).que = o
    BY DEF Op, Buffer
  <1>3. Escritas(Interrumpido)
    <2>1. Op("FINALIZAR_PROCESO").que \notin ConContexto
      BY <1>2 DEF ConContexto
    <2>2. Escritas(<<Op("FINALIZAR_PROCESO"), BufferCde("fin", cde)>>)
      BY <1>1, <2>1, EscritasDos
    <2> QED BY <2>2 DEF Interrumpido
  <1>4. Escritas(Desalojado)
    <2>1. Op("FIN_DE_QUANTUM").que \notin ConContexto
      BY <1>2 DEF ConContexto
    <2>2. Escritas(<<Op("FIN_DE_QUANTUM"), BufferCde("cde", cde)>>)
      BY <1>1, <2>1, EscritasDos
    <2> QED BY <2>2 DEF Desalojado
  <1>5. Escritas(Devuelve)
    <2> DEFINE t == <<BufferCde("cde", cde)>>
    <2>1. Sec(t) /\ Len(t) = 1 /\ t[1] = BufferCde("cde", cde)
      BY SecTuplas
    <2> HIDE DEF t
    <2>2. Escritas(t)
      BY <1>1, <2>1 DEF Escritas
    <2> QED BY <2>2 DEF t, Devuelve
  <1>6. Escritas(DevuelveArchivo)
    <2> DEFINE t == <<BufferCde("cde", cde), Buffer("archivo")>>
    <2>1. Sec(t) /\ Len(t) = 2 /\ t[1] = BufferCde("cde", cde) /\ t[2] = Buffer("archivo")
      BY SecTuplas
    <2>2. Buffer("archivo").que \notin ConContexto
      BY <1>2 DEF ConContexto
    <2> HIDE DEF t
    <2>3. \A i \in 1..Len(t) : i = 1 \/ i = 2
      BY <2>1
    <2>4. Escritas(t)
      BY <1>1, <2>1, <2>2, <2>3 DEF Escritas
    <2> QED BY <2>4 DEF t, DevuelveArchivo
  <1> QED BY <1>3, <1>4, <1>5, <1>6

LEMMA EscribeInstruccion ==
    ASSUME Formado(cde)
    PROVE  /\ Escritas(<<>>)
           /\ Escritas(<<Op("FINALIZAR_PROCESO"), BufferCde("fin", Traido)>>)
           /\ \A o \in {"WAIT_RECURSO", "SIGNAL_RECURSO", "INSTRUCCION_INTERFAZ"} :
                 \A b \in {"recurso", "datos_io", "datos_fs"} : Escritas(<<Op(o), Buffer(b)>>)
  <1>1. Escritas(<<>>)
    <2>1. Sec(<<>>) /\ Len(<<>>) = 0
      BY SecTuplas
    <2> QED BY <2>1 DEF Escritas
  <1>2. Escritas(<<Op("FINALIZAR_PROCESO"), BufferCde("fin", Traido)>>)
    <2>1. Formado(Traido)
      <3>1. Formado([cde EXCEPT !.PC = cde.PC + 1])
        BY FormadoCambia DEF Formado
      <3> QED BY <3>1 DEF Traido
    <2>2. Formado(LeeCde(BufferCde("fin", Traido).cde))
      BY <2>1, FormadoViaja DEF BufferCde
    <2>3. Op("FINALIZAR_PROCESO").que \notin ConContexto
      BY DEF Op, ConContexto
    <2> QED BY <2>2, <2>3, EscritasDos
  <1>3. ASSUME NEW o \in {"WAIT_RECURSO", "SIGNAL_RECURSO", "INSTRUCCION_INTERFAZ"},
               NEW b \in {"recurso", "datos_io", "datos_fs"}
        PROVE  Escritas(<<Op(o), Buffer(b)>>)
    <2>1. Op(o).que \notin ConContexto /\ Buffer(b).que \notin ConContexto
      BY DEF Op, Buffer, ConContexto
    <2> QED BY <2>1, EscritasDos
  <1> QED BY <1>1, <1>2, <1>3

LEMMA TipadoInicial == Init => Tipado
  <1> SUFFICES ASSUME Init PROVE Tipado
    OBVIOUS
  <1>1. TiposCpu
    <2>1. 1 \in 0..MaxSExit
      BY CotasAssumption
    <2> QED BY <2>1, FormadoInicial DEF Init, TiposCpu
  <1>2. TiposSockets
    <2>1. Sec(<<>>) /\ Len(<<>>) = 0
      BY SecTuplas
    <2>4. 0 <= MaxInterrup
      BY CotasAssumption
    <2>2. aCpu = <<>> /\ aKernel = <<>> /\ aInterrupt = <<>>
      BY DEF Init
    <2>3. \A i : i \notin 1..0
      OBVIOUS
    <2> QED BY <2>1, <2>2, <2>3, <2>4 DEF TiposSockets
  <1>3. TiposKernel
    BY FormadoInicial, NuloAssumption, CotasAssumption DEF Init, TiposKernel, SinOrden
  <1> QED BY <1>1, <1>2, <1>3 DEF Tipado

(* Each step keeps the types.                                            *)
LEMMA TipadoInterrupt == ASSUME Tipado, IInv, HiloInterrupt PROVE Tipado'
  <1>1. UNCHANGED <<programa, pcD, cde, registros, salida_exit, aCpu, aKernel, enExec, listos, guardado,
                    bloqueo, cde_interrumpido,
                    quantum, finalizados>>
    BY DEF HiloInterrupt, InterrupMira, InterrupEspera, InterrupRecibe, vKernel, vBloqueo
  <1>2. TiposKernel'
    BY <1>1 DEF Tipado, TiposKernel
  <1>3. pcI' \in {"mira", "espera", "recibe"} /\ s_exit' \in 0..MaxSExit
    <2>1. s_exit \in 0..MaxSExit /\ pcI \in {"mira", "espera", "recibe"} /\ MaxSExit \in Nat
      BY CotasAssumption DEF Tipado, TiposCpu
    <2>2. (s_exit' = s_exit \/ (s_exit > 0 /\ s_exit' = s_exit - 1)) /\ pcI' \in {"mira", "espera", "recibe"}
      BY <2>1 DEF HiloInterrupt, InterrupMira, InterrupEspera, InterrupRecibe
    <2> QED BY <2>1, <2>2
  <1>4. TiposCpu'
    BY <1>1, <1>3 DEF Tipado, TiposCpu
  <1>5. Len(aInterrupt') <= MaxInterrup
    <2>1. aInterrupt \in Seq({"rr", "exit"}) /\ Len(aInterrupt) <= MaxInterrup /\ MaxInterrup \in Nat
      BY CotasAssumption DEF IInv, Tipos, Tipado, TiposSockets
    <2>2. aInterrupt' = aInterrupt \/ (aInterrupt # <<>> /\ aInterrupt' = Tail(aInterrupt))
      BY DEF HiloInterrupt, InterrupMira, InterrupEspera, InterrupRecibe
    <2>3. aInterrupt # <<>> => Len(Tail(aInterrupt)) = Len(aInterrupt) - 1 /\ Len(aInterrupt) \in Nat
      BY <2>1
    <2> QED BY <2>1, <2>2, <2>3
  <1>6. TiposSockets'
    BY <1>1, <1>5 DEF Tipado, TiposSockets
  <1> QED BY <1>2, <1>4, <1>6 DEF Tipado

LEMMA TipadoDespacho == ASSUME Tipado, Despacho PROVE Tipado'
  <1>1. /\ pcD' = "instruccion" /\ aCpu # <<>> /\ cde' = LeeCde(Head(aCpu)) /\ aCpu' = Tail(aCpu)
        /\ registros' = cde'.registros /\ salida_exit' = TRUE /\ s_exit < MaxSExit /\ s_exit' = s_exit + 1
        /\ UNCHANGED <<programa, pcI, aKernel, aInterrupt, enExec, listos, guardado, bloqueo,
                       cde_interrumpido, quantum, finalizados>>
    BY DEF Despacho, vKernel, vBloqueo
  <1>2. Len(aCpu) > 0
    <2>1. PICK S : aCpu \in Seq(S)
      BY DEF Tipado, TiposSockets, Sec
    <2> QED BY <1>1, <2>1
  <1>3. /\ Sec(aCpu') /\ Head(aCpu) = aCpu[1] /\ Len(aCpu') = Len(aCpu) - 1 /\ Len(aCpu) \in Nat
        /\ DOMAIN aCpu' = 1..(Len(aCpu) - 1)
        /\ \A i \in DOMAIN aCpu' : aCpu'[i] = aCpu[i + 1]
    BY <1>1, <1>2, SecTail DEF Tipado, TiposSockets
  <1>4. \A i \in 1..Len(aCpu') : Formado(LeeCde(aCpu'[i]))
    <2> TAKE i \in 1..Len(aCpu')
    <2>1. i \in DOMAIN aCpu' /\ i + 1 \in 1..Len(aCpu)
      BY <1>3
    <2> QED BY <1>3, <2>1 DEF Tipado, TiposSockets
  <1>5. Formado(cde')
    <2>1. 1 \in 1..Len(aCpu)
      BY <1>2, <1>3
    <2> QED BY <1>1, <1>3, <2>1 DEF Tipado, TiposSockets
  <1>6. s_exit' \in 0..MaxSExit
    BY <1>1, CotasAssumption DEF Tipado, TiposCpu
  <1>7. TiposCpu'
    BY <1>1, <1>5, <1>6 DEF Tipado, TiposCpu, Formado
  <1>8. TiposSockets'
    BY <1>1, <1>3, <1>4 DEF Tipado, TiposSockets
  <1>9. TiposKernel'
    BY <1>1 DEF Tipado, TiposKernel
  <1> QED BY <1>7, <1>8, <1>9 DEF Tipado

LEMMA TipadoEjecuta ==
    ASSUME Tipado, NEW que, NEW t, Escritas(t), NEW sigue \in BOOLEAN, NEW llamo, Ejecuta(que, t, sigue, llamo)
    PROVE  Tipado'
  <1>1. /\ pcD = "instruccion" /\ pcD' = "revisa" /\ cde.PC < Len(programa[cde.pid])
        /\ registros' = Opera(registros, Instruccion(cde))
        /\ cde' = [cde EXCEPT !.PC = Contador(cde, Instruccion(cde)), !.registros = registros']
        /\ aKernel' = aKernel \o t /\ salida_exit' = sigue
        /\ UNCHANGED <<programa, pcI, s_exit, aCpu, aInterrupt, enExec, listos, guardado, bloqueo,
                       cde_interrumpido, quantum, finalizados>>
    BY DEF Ejecuta, vKernel, vBloqueo
  <1>2. Formado(cde) /\ EnSusBits(registros)
    BY <1>1 DEF Tipado, TiposCpu
  <1>3. cde.pid \in Procesos /\ cde.PC \in Nat
    BY <1>2 DEF Formado, Contextos
  <1>4. Instruccion(cde) \in Instrucciones
    <2>1. programa[cde.pid] \in Seq(Instrucciones)
      BY <1>3, ProgramasAssumption DEF Tipado, TiposKernel
    <2>2. cde.PC + 1 \in 1..Len(programa[cde.pid])
      BY <1>1, <1>3, <2>1
    <2> QED BY <2>1, <2>2 DEF Instruccion
  <1>5. Contador(cde, Instruccion(cde)) \in Nat
    BY <1>3, <1>4 DEF Contador, Instrucciones
  <1>6. EnSusBits(registros')
    BY <1>1, <1>2, <1>4, OperaEnSusBits
  <1>7. Formado(cde')
    BY <1>1, <1>2, <1>5, <1>6, FormadoCambia
  <1>8. TiposCpu'
    BY <1>1, <1>6, <1>7 DEF Tipado, TiposCpu
  <1>9. TiposSockets'
    BY <1>1, SocketEscrito DEF Tipado
  <1>10. TiposKernel'
    BY <1>1 DEF Tipado, TiposKernel
  <1> QED BY <1>8, <1>9, <1>10 DEF Tipado

LEMMA TipadoExecute == ASSUME Tipado, Execute PROVE Tipado'
  <1>1. pcD = "instruccion"
    BY DEF Execute, Calcula, Resize, Recurso, EntradaSalida, Exit, Ejecuta
  <1>2. Formado(cde)
    BY <1>1 DEF Tipado, TiposCpu
  <1>3. /\ Escritas(<<>>)
        /\ Escritas(<<Op("FINALIZAR_PROCESO"), BufferCde("fin", Traido)>>)
        /\ Escritas(<<Op("WAIT_RECURSO"), Buffer("recurso")>>)
        /\ Escritas(<<Op("SIGNAL_RECURSO"), Buffer("recurso")>>)
        /\ Escritas(<<Op("INSTRUCCION_INTERFAZ"), Buffer("datos_io")>>)
        /\ Escritas(<<Op("INSTRUCCION_INTERFAZ"), Buffer("datos_fs")>>)
    BY <1>2, EscribeInstruccion
  <1>4. CASE Calcula
    BY <1>3, <1>4, TipadoEjecuta DEF Calcula
  <1>5. CASE Resize
    BY <1>3, <1>5, TipadoEjecuta DEF Resize
  <1>6. CASE Recurso
    BY <1>3, <1>6, TipadoEjecuta DEF Recurso
  <1>7. CASE EntradaSalida
    BY <1>3, <1>7, TipadoEjecuta DEF EntradaSalida
  <1>8. CASE Exit
    BY <1>3, <1>8, TipadoEjecuta DEF Exit
  <1> QED BY <1>4, <1>5, <1>6, <1>7, <1>8 DEF Execute

LEMMA TipadoRevisa == ASSUME Tipado, Check_interrupt PROVE Tipado'
  <1>1. pcD \in {"revisa", "revisa_exit"}
    BY DEF Check_interrupt, RevisaQuantum, RevisaSinQuantum, RevisaExit, RevisaLlamada, RevisaNada
  <1>2. Formado(cde)
    BY <1>1 DEF Tipado, TiposCpu
  <1>3. EnSusBits(Cero)
    BY FormadoInicial
  <1>4. ASSUME NEW b, NEW t, Escritas(t), Termina(b, t) PROVE Tipado'
    <2>1. /\ pcD' = "recibe" /\ cde' = NULO /\ registros' = Cero /\ salida_exit' = FALSE /\ aKernel' = aKernel \o t
          /\ UNCHANGED <<programa, pcI, s_exit, aCpu, aInterrupt, enExec, listos, guardado, bloqueo,
                         cde_interrumpido, quantum, finalizados>>
      BY <1>4 DEF Termina, Libera, vKernel, vBloqueo
    <2>2. TiposCpu'
      BY <1>3, <2>1 DEF Tipado, TiposCpu
    <2>3. TiposSockets'
      BY <1>4, <2>1, SocketEscrito DEF Tipado
    <2>4. TiposKernel'
      BY <2>1 DEF Tipado, TiposKernel
    <2> QED BY <2>2, <2>3, <2>4 DEF Tipado
  <1>5. CASE RevisaQuantum
    BY <1>2, <1>4, <1>5, EscribeRevisa DEF RevisaQuantum
  <1>6. CASE RevisaExit
    BY <1>2, <1>4, <1>6, EscribeRevisa DEF RevisaExit
  <1>7. CASE RevisaLlamada
    BY <1>2, <1>4, <1>7, EscribeRevisa DEF RevisaLlamada
  <1>8. CASE RevisaSinQuantum \/ RevisaNada
    <2>1. UNCHANGED <<programa, pcI, s_exit, aCpu, aKernel, aInterrupt, enExec, listos, guardado, bloqueo,
                      cde_interrumpido, quantum,
                      finalizados, salida_exit>>
      BY <1>8 DEF RevisaSinQuantum, RevisaNada, vKernel, vBloqueo, vHistoria
    <2>2. \/ pcD' \in {"revisa_exit", "instruccion"} /\ cde' = cde /\ registros' = registros
          \/ pcD' = "recibe" /\ cde' = NULO /\ registros' = Cero
      BY <1>8 DEF RevisaSinQuantum, RevisaNada, Libera
    <2>3. TiposCpu'
      BY <1>1, <1>3, <2>1, <2>2 DEF Tipado, TiposCpu
    <2>4. TiposSockets' /\ TiposKernel'
      BY <2>1 DEF Tipado, TiposSockets, TiposKernel
    <2> QED BY <2>3, <2>4 DEF Tipado
  <1> QED BY <1>5, <1>6, <1>7, <1>8 DEF Check_interrupt

(* What the kernel does to the sockets.                                  *)
LEMMA SocketsKernel ==
    ASSUME TiposSockets, IInv,
           aKernel' = aKernel \/ (aKernel # <<>> /\ aKernel' = Tail(aKernel)),
           aCpu' = aCpu \/ \E c : Formado(c) /\ Envia(c),
           aInterrupt' = aInterrupt \/ \E motivo : Interrumpe(motivo)
    PROVE  TiposSockets'
  <1>1. Sec(aCpu') /\ \A i \in 1..Len(aCpu') : Formado(LeeCde(aCpu'[i]))
    <2>1. CASE aCpu' = aCpu
      BY <2>1 DEF TiposSockets
    <2>2. ASSUME NEW c, Formado(c), Envia(c) PROVE <1>1
      <3>1. LeeCde(AgregaCde(c)) = c
        BY <2>2, FormadoViaja
      <3> DEFINE t == <<AgregaCde(c)>>
      <3>2. Sec(t) /\ Len(t) = 1 /\ t[1] = AgregaCde(c)
        BY SecTuplas
      <3>3. aCpu' = aCpu \o t
        <4>1. PICK S : aCpu \in Seq(S)
          BY DEF TiposSockets, Sec
        <4>2. aCpu' = Append(aCpu, AgregaCde(c))
          BY <2>2 DEF Envia
        <4>3. PICK x : x = AgregaCde(c)
          OBVIOUS
        <4>4. Append(aCpu, x) = aCpu \o <<x>>
          <5> DEFINE U == S \cup {x}
          <5>1. aCpu \in Seq(U) /\ x \in U
            BY <4>1
          <5> HIDE DEF U
          <5> QED BY <5>1, AppendIsConcat
        <4> QED BY <4>2, <4>3, <4>4
      <3> HIDE DEF t
      <3>4. /\ Sec(aCpu') /\ Len(aCpu') = Len(aCpu) + 1 /\ Len(aCpu) \in Nat
            /\ \A i \in 1..Len(aCpu) : aCpu'[i] = aCpu[i]
            /\ aCpu'[Len(aCpu) + 1] = t[1]
        <4>1. Sec(aCpu) /\ Sec(t)
          BY <3>2 DEF TiposSockets
        <4>2. /\ Sec(aCpu \o t) /\ Len(aCpu \o t) = Len(aCpu) + Len(t) /\ Len(aCpu) \in Nat
              /\ \A i \in 1..Len(aCpu) : (aCpu \o t)[i] = aCpu[i]
              /\ \A i \in 1..Len(t) : (aCpu \o t)[Len(aCpu) + i] = t[i]
          BY <4>1, SecConcat
        <4>3. 1 \in 1..Len(t)
          BY <3>2
        <4> QED BY <3>2, <3>3, <4>2, <4>3
      <3>5. ASSUME NEW i \in 1..Len(aCpu') PROVE Formado(LeeCde(aCpu'[i]))
        <4>1. CASE i \in 1..Len(aCpu)
          BY <3>4, <4>1 DEF TiposSockets
        <4>2. CASE i = Len(aCpu) + 1
          BY <2>2, <3>1, <3>2, <3>4, <4>2
        <4> QED BY <3>4, <4>1, <4>2
      <3> QED BY <3>4, <3>5
    <2> QED BY <2>1, <2>2
  <1>2. Sec(aKernel') /\ \A i \in 1..Len(aKernel') : aKernel'[i].que \in ConContexto => Formado(LeeCde(aKernel'[i].cde))
    <2>1. CASE aKernel' = aKernel
      BY <2>1 DEF TiposSockets
    <2>2. CASE aKernel # <<>> /\ aKernel' = Tail(aKernel)
      <3>1. Len(aKernel) > 0
        <4>1. PICK S : aKernel \in Seq(S)
          BY DEF TiposSockets, Sec
        <4> QED BY <2>2, <4>1
      <3>2. /\ Sec(aKernel') /\ Len(aKernel') = Len(aKernel) - 1 /\ Len(aKernel) \in Nat
            /\ DOMAIN aKernel' = 1..(Len(aKernel) - 1) /\ \A i \in DOMAIN aKernel' : aKernel'[i] = aKernel[i + 1]
        BY <2>2, <3>1, SecTail DEF TiposSockets
      <3>3. \A i \in 1..Len(aKernel') : aKernel'[i] = aKernel[i + 1] /\ i + 1 \in 1..Len(aKernel)
        BY <3>2
      <3> QED BY <3>2, <3>3 DEF TiposSockets
    <2> QED BY <2>1, <2>2
  <1>3. Len(aInterrupt') <= MaxInterrup
    <2>1. CASE aInterrupt' = aInterrupt
      BY <2>1 DEF TiposSockets
    <2>2. ASSUME NEW m, Interrumpe(m) PROVE <1>3
      <3>1. aInterrupt \in Seq({"rr", "exit"}) /\ Len(aInterrupt) < MaxInterrup /\ aInterrupt' = Append(aInterrupt, m)
        BY <2>2 DEF IInv, Tipos, Interrumpe
      <3>2. Len(aInterrupt') = Len(aInterrupt) + 1 /\ Len(aInterrupt) \in Nat
        <4> DEFINE U == {"rr", "exit", m}
        <4>1. aInterrupt \in Seq(U) /\ m \in U
          BY <3>1
        <4> HIDE DEF U
        <4> QED BY <3>1, <4>1
      <3> QED BY <3>1, <3>2, CotasAssumption
    <2> QED BY <2>1, <2>2
  <1> QED BY <1>1, <1>2, <1>3 DEF TiposSockets

(* A context that the kernel accepts is of the process in EXEC.          *)
LEMMA ContextoLeido ==
    ASSUME Tipado, Lee, operacion # Nada, Espera \in ConContexto
    PROVE  Formado(LeeCde(Leido.cde)) /\ LeeCde(Leido.cde).pid = enExec /\ enExec \in Procesos
  <1>1. aKernel # <<>> /\ Acepta
    BY DEF Lee
  <1>2. Leido.que = Espera /\ LeeCde(Leido.cde).pid = enExec
    BY <1>1 DEF Acepta, ConContexto
  <1>3. Len(aKernel) > 0
    <2>1. PICK S : aKernel \in Seq(S)
      BY DEF Tipado, TiposSockets, Sec
    <2> QED BY <1>1, <2>1
  <1>4. Leido = aKernel[1] /\ 1 \in 1..Len(aKernel)
    BY <1>3, SecTail DEF Leido, Tipado, TiposSockets
  <1>5. Formado(LeeCde(Leido.cde))
    BY <1>2, <1>4 DEF Tipado, TiposSockets
  <1> QED BY <1>2, <1>5 DEF Formado, Contextos

LEMMA TipadoSale ==
    ASSUME Tipado, IInv, Lee, operacion # Nada, Espera \in ConContexto,
           guardado' = guardado \/ Anota(Contenido) \/ Anota(Contexto(enExec)),
           UNCHANGED vBloqueo \/ Bloquea(TRUE) \/ Bloquea(FALSE),
           UNCHANGED <<enExec, listos>> \/ Sale(TRUE) \/ Sale(FALSE),
           UNCHANGED quantum \/ Cancela,
           aCpu' = aCpu \/ Envia(Contenido),
           aInterrupt' = aInterrupt \/ \E motivo : Interrumpe(motivo)
    PROVE  Tipado'
  <1>1. Formado(LeeCde(Leido.cde)) /\ LeeCde(Leido.cde).pid = enExec /\ enExec \in Procesos
    BY ContextoLeido
  <1>2. /\ aKernel # <<>> /\ aKernel' = Tail(aKernel)
        /\ UNCHANGED <<programa, vCpu, finalizados>>
    BY DEF Lee
  <1>3. TiposCpu'
    BY <1>2 DEF vCpu, Tipado, TiposCpu
  <1>4. TiposSockets'
    <2>1. aCpu' = aCpu \/ \E c : Formado(c) /\ Envia(c)
      BY <1>1 DEF Contenido
    <2> QED BY <1>2, <2>1, SocketsKernel DEF Tipado
  <1>5. guardado' = [p \in Procesos |-> guardado'[p]] /\ \A p \in Procesos : Formado(guardado'[p]) /\ guardado'[p].pid = p
    <2>1. \/ guardado' = guardado
          \/ \E c : Formado(c) /\ c.pid = enExec /\ guardado' = [guardado EXCEPT ![enExec] = c]
      BY <1>1, FormadoInicial DEF Anota, Contenido
    <2> QED BY <1>1, <2>1 DEF Tipado, TiposKernel
  <1>6. enExec' \in Procesos \cup {NULO} /\ enExec' \notin listos' /\ listos' \subseteq Procesos
    BY <1>1, NuloAssumption DEF Sale, Tipado, TiposKernel
  <1>7. quantum' \in {"no", "por_crear", "corre"}
    BY DEF Cancela, Tipado, TiposKernel
  <1>9. /\ bloqueo' \in [paso : {"no", "orden", "mueve", "guarda"}, p : Procesos \cup {NULO}]
        /\ cde_interrumpido' = NULO \/ Formado(cde_interrumpido')
        /\ bloqueo'.paso # "no" =>
              bloqueo'.p \in Procesos /\ Formado(cde_interrumpido') /\ cde_interrumpido'.pid = bloqueo'.p
    <2>1. CASE UNCHANGED vBloqueo
      BY <2>1 DEF vBloqueo, Tipado, TiposKernel
    <2>2. CASE Bloquea(TRUE) \/ Bloquea(FALSE)
      <3>1. bloqueo' = [paso |-> "orden", p |-> enExec]
        BY <2>2 DEF Bloquea
      <3>2. Formado(cde_interrumpido') /\ cde_interrumpido'.pid = enExec
        BY <1>1, <2>2, FormadoInicial DEF Bloquea, Contenido
      <3> QED BY <1>1, <3>1, <3>2
    <2> QED BY <2>1, <2>2
  <1>8. TiposKernel'
    BY <1>2, <1>5, <1>6, <1>7, <1>9 DEF Tipado, TiposKernel
  <1> QED BY <1>3, <1>4, <1>8 DEF Tipado

LEMMA TipadoKernel == ASSUME Tipado, IInv, Kernel PROVE Tipado'
  <1>1. ASSUME NEW p \in Procesos, CortoDespacha(p) PROVE Tipado'
    <2>1. /\ p \in listos /\ Envia(guardado[p]) /\ enExec' = p /\ listos' = listos \ {p}
          /\ quantum' \in {"no", "por_crear"}
          /\ UNCHANGED <<programa, vCpu, aKernel, aInterrupt, guardado, bloqueo, cde_interrumpido, finalizados>>
      BY <1>1 DEF CortoDespacha, vBloqueo
    <2>2. TiposSockets'
      BY <2>1, SocketsKernel DEF Tipado, TiposKernel
    <2>3. TiposCpu' /\ TiposKernel'
      BY <2>1 DEF Tipado, TiposCpu, TiposKernel, vCpu
    <2> QED BY <2>2, <2>3 DEF Tipado
  <1>2. CASE QuantumEmpieza \/ QuantumVence \/ ConsolaFinaliza \/ KernelDesorden \/ KernelPisado
    <2>1. UNCHANGED <<programa, vCpu, aCpu, aKernel, enExec, listos, guardado, bloqueo, cde_interrumpido>>
      BY <1>2 DEF QuantumEmpieza, QuantumVence, ConsolaFinaliza, KernelDesorden, KernelPisado, vBloqueo
    <2>2. aInterrupt' = aInterrupt \/ \E motivo : Interrumpe(motivo)
      BY <1>2 DEF QuantumEmpieza, QuantumVence, ConsolaFinaliza, KernelDesorden, KernelPisado
    <2>3. quantum' \in {"no", "por_crear", "corre"}
      BY <1>2 DEF QuantumEmpieza, QuantumVence, ConsolaFinaliza, KernelDesorden, KernelPisado, Tipado, TiposKernel
    <2>4. finalizados' \in 0..MaxFinalizar
      <3>1. finalizados \in 0..MaxFinalizar
        BY DEF Tipado, TiposKernel
      <3>2. finalizados' = finalizados \/ (finalizados < MaxFinalizar /\ finalizados' = finalizados + 1)
        BY <1>2 DEF QuantumEmpieza, QuantumVence, ConsolaFinaliza, KernelDesorden, KernelPisado
      <3> QED BY <3>1, <3>2, CotasAssumption
    <2>5. TiposSockets'
      BY <2>1, <2>2, SocketsKernel DEF Tipado
    <2>6. TiposCpu' /\ TiposKernel'
      BY <2>1, <2>3, <2>4 DEF Tipado, TiposCpu, TiposKernel, vCpu
    <2> QED BY <2>5, <2>6 DEF Tipado
  <1>3. CASE KernelOperacion \/ KernelDatos
    <2>1. /\ aKernel # <<>> /\ aKernel' = Tail(aKernel)
          /\ UNCHANGED <<programa, vCpu, aCpu, aInterrupt, enExec, listos, guardado, bloqueo,
                         cde_interrumpido, finalizados>>
      BY <1>3 DEF KernelOperacion, KernelDatos, Lee, vBloqueo
    <2>2. quantum' \in {"no", "por_crear", "corre"}
      BY <1>3 DEF KernelOperacion, KernelDatos, Cancela, Tipado, TiposKernel
    <2>3. TiposSockets'
      BY <2>1, SocketsKernel DEF Tipado
    <2>4. TiposCpu' /\ TiposKernel'
      BY <2>1, <2>2 DEF Tipado, TiposCpu, TiposKernel, vCpu
    <2> QED BY <2>3, <2>4 DEF Tipado
  <1>4. ASSUME NEW op, ContextoDe(op) PROVE Lee /\ operacion # Nada /\ Espera \in ConContexto
    BY <1>4 DEF ContextoDe, LeeContexto, ConContexto
  <1>5. CASE KernelFinaliza
    BY <1>5, TipadoSale DEF KernelFinaliza, LeeContexto, ConContexto
  <1>6. CASE KernelFinDeQuantum
    BY <1>4, <1>6, TipadoSale DEF KernelFinDeQuantum
  <1>7. CASE KernelInterfaz
    BY <1>4, <1>7, TipadoSale DEF KernelInterfaz, Bloquea
  <1>8. CASE KernelRecurso
    BY <1>4, <1>8, TipadoSale DEF KernelRecurso, Bloquea
  <1>9. CASE KernelRecursoInvalido
    BY <1>4, <1>9, TipadoSale DEF KernelRecursoInvalido
  <1>10. CASE ExecBlocked
    <2>1. UNCHANGED <<programa, vCpu, aCpu, aKernel, aInterrupt, enExec, listos, quantum, finalizados>>
      BY <1>10 DEF ExecBlocked
    <2>2. TiposSockets'
      BY <2>1, SocketsKernel DEF Tipado
    <2>3. TiposCpu'
      BY <2>1 DEF Tipado, TiposCpu, vCpu
    <2>4. /\ bloqueo \in [paso : {"no", "orden", "mueve", "guarda"}, p : Procesos \cup {NULO}]
          /\ bloqueo.p \in Procesos /\ Formado(cde_interrumpido) /\ cde_interrumpido.pid = bloqueo.p
          /\ guardado = [p \in Procesos |-> guardado[p]]
          /\ \A p \in Procesos : Formado(guardado[p]) /\ guardado[p].pid = p
      BY <1>10 DEF ExecBlocked, Tipado, TiposKernel
    <2>5. CASE bloqueo.paso = "guarda"
      <3>1. bloqueo' = SinOrden /\ guardado' = [guardado EXCEPT ![bloqueo.p] = cde_interrumpido]
            /\ cde_interrumpido' = NULO
        BY <1>10, <2>5 DEF ExecBlocked
      <3> QED BY <2>1, <2>2, <2>3, <2>4, <3>1 DEF Tipado, TiposKernel, SinOrden
    <2>6. CASE bloqueo.paso # "guarda"
      <3>1. /\ UNCHANGED <<guardado, cde_interrumpido>>
            /\ bloqueo' = [bloqueo EXCEPT !.paso = "mueve"] \/ bloqueo' = [bloqueo EXCEPT !.paso = "guarda"]
        BY <1>10, <2>6 DEF ExecBlocked
      <3>2. /\ bloqueo' \in [paso : {"no", "orden", "mueve", "guarda"}, p : Procesos \cup {NULO}]
            /\ bloqueo'.p = bloqueo.p
        BY <2>4, <3>1
      <3> QED BY <2>1, <2>2, <2>3, <2>4, <3>1, <3>2 DEF Tipado, TiposKernel
    <2> QED BY <2>5, <2>6
  <1> QED BY <1>1, <1>2, <1>3, <1>5, <1>6, <1>7, <1>8, <1>9, <1>10 DEF Kernel

LEMMA TipadoInductivo == IInv /\ Tipado /\ [Next]_vars => Tipado'
  <1> SUFFICES ASSUME IInv, Tipado, [Next]_vars PROVE Tipado'
    OBVIOUS
  <1>1. CASE UNCHANGED vars
    BY <1>1 DEF vars, vCpu, vKernel, vBloqueo, Tipado, TiposCpu, TiposSockets, TiposKernel
  <1>2. CASE Next
    BY <1>2, TipadoInterrupt, TipadoDespacho, TipadoExecute, TipadoRevisa, TipadoKernel DEF Next, HiloCiclo
  <1> QED BY <1>1, <1>2

-----------------------------------------------------------------------------
(* One context at most is on its way to the CPU, collisions included.    *)

Fines == {"FINALIZAR_PROCESO", "FIN_DE_QUANTUM"}
De(p, i) == aKernel[i].que \in ConContexto /\ LeeCde(aKernel[i].cde).pid = p
Leyo(d, op) == IF d = 1 THEN operacion = Pendiente ELSE operacion = op

(* Of a call k (or the end of a process) the kernel read l words, the rest *)
(* of the first two is in the socket, and a second operation follows them. *)
Antes(d, k, l) ==
    /\ d = 1 => l = 0
    /\ Leyo(d, OperacionEn(k, l))
    /\ Len(aKernel) >= d + 4 - l
    /\ \A i \in 1..(d + 2 - l) :
          aKernel[i].que = IF i <= d THEN "archivo" ELSE Palabra(k, l + i - d)
    /\ aKernel[d + 3 - l].que \in Fines
    /\ k = "fin" => De(enExec, d + 4 - l)

(* The kernel will read that operation where it waits for a context, of the*)
(* process in EXEC, or after the end of that process.                      *)
Trabado ==
    /\ enExec # NULO /\ aCpu = <<>> /\ pcD = "recibe"
    /\ \E d \in {0, 1} : \E k \in Llamadas \cup {"fin"} : \E l \in 0..2 :
          (k = "fin" => l < 2) /\ Antes(d, k, l)

(* It is the second end of p, which is not in EXEC and never will be.      *)
SegundoFin(p) ==
    \/ \E d \in {0, 1} : /\ Leyo(d, Nada) /\ Len(aKernel) >= d + 2
                         /\ d = 1 => aKernel[1].que = "archivo"
                         /\ aKernel[d + 1].que \in Fines /\ De(p, d + 2)
    \/ \E o \in Fines : /\ operacion = [op |-> o, falta |-> Falta[o]]
                        /\ Len(aKernel) >= 1 /\ De(p, 1)
Sobra(p) ==
    /\ p # enExec /\ p \notin listos
    /\ enExec = NULO => aCpu = <<>>
    /\ SegundoFin(p)

Condenado == desorden \/ Trabado \/ \E p \in Procesos : Sobra(p)
AlSumoUno == Len(aCpu) <= 1 /\ (choque => Condenado)

LEMMA EnOrdenUno == EnOrden /\ ~choque => Len(aCpu) <= 1
  <1>1. Len(<<>>) = 0
    BY SecTuplas
  <1>2. Libre \/ Calculando \/ Llamando \/ Saliendo => aCpu = <<>>
    BY DEF Libre, Calculando, Llamando, Saliendo, Suyo
  <1>3. Despachado => Len(aCpu) = 1
    BY DEF Despachado
  <1>4. EnOrden /\ ~choque => Libre \/ Despachado \/ Calculando \/ Llamando \/ Saliendo
    BY DEF EnOrden, Turno
  <1>5. aCpu = <<>> \/ Len(aCpu) = 1 => Len(aCpu) <= 1
    BY <1>1
  <1> QED BY <1>2, <1>3, <1>4, <1>5

LEMMA EnOrdenUnoDespues == (EnOrden /\ ~choque => Len(aCpu) <= 1)'
  BY EnOrdenUno, PTL

(* What is before in a socket stays where it is when more is written.    *)
LEMMA EscritoDetras ==
    ASSUME Sec(aKernel), NEW t, Sec(t), aKernel' = aKernel \o t
    PROVE  /\ Sec(aKernel') /\ Len(aKernel) \in Nat /\ Len(t) \in Nat /\ Len(aKernel') = Len(aKernel) + Len(t)
           /\ \A i \in 1..Len(aKernel) : aKernel'[i] = aKernel[i]
           /\ \A i \in 1..Len(t) : aKernel'[Len(aKernel) + i] = t[i]
  BY SecConcat

LEMMA LeidoDelante ==
    ASSUME Sec(aKernel), aKernel # <<>>, aKernel' = Tail(aKernel)
    PROVE  /\ Sec(aKernel') /\ Len(aKernel) \in Nat \ {0} /\ Len(aKernel') = Len(aKernel) - 1
           /\ Leido = aKernel[1]
           /\ \A i \in 1..(Len(aKernel) - 1) : aKernel'[i] = aKernel[i + 1]
  <1>1. Len(aKernel) > 0
    <2>1. PICK S : aKernel \in Seq(S)
      BY DEF Sec
    <2> QED BY <2>1
  <1>2. /\ Sec(Tail(aKernel)) /\ Len(Tail(aKernel)) = Len(aKernel) - 1 /\ Head(aKernel) = aKernel[1]
        /\ Len(aKernel) \in Nat /\ DOMAIN Tail(aKernel) = 1..(Len(aKernel) - 1)
        /\ \A i \in DOMAIN Tail(aKernel) : Tail(aKernel)[i] = aKernel[i + 1]
    BY <1>1, SecTail
  <1> QED BY <1>1, <1>2 DEF Leido

LEMMA AntesDeDicho ==
    ASSUME Sec(aKernel), NEW d \in {0, 1}, NEW k, NEW l \in 0..2, NEW x, Dicho(d, k, l, 2, x),
           NEW a, NEW b, aKernel' = aKernel \o <<a, b>>, UNCHANGED <<operacion, enExec>>,
           a.que \in Fines, b.que \in ConContexto, k = "fin" => LeeCde(b.cde).pid = enExec
    PROVE  Antes(d, k, l)'
  <1> DEFINE t == <<a, b>>
  <1>1. Sec(t) /\ Len(t) = 2 /\ t[1] = a /\ t[2] = b
    BY SecTuplas
  <1>2. aKernel' = aKernel \o t
    OBVIOUS
  <1> HIDE DEF t
  <1>3. /\ Len(aKernel) = d + 2 - l
        /\ d = 1 => l = 0
        /\ Leyo(d, OperacionEn(k, l))
        /\ \A i \in DOMAIN aKernel : aKernel[i].que = IF i <= d THEN "archivo" ELSE Palabra(k, l + i - d)
    BY DEF Dicho, Leyo
  <1>4. /\ Len(aKernel') = Len(aKernel) + 2
        /\ \A i \in 1..Len(aKernel) : aKernel'[i] = aKernel[i]
        /\ \A i \in 1..2 : aKernel'[Len(aKernel) + i] = t[i]
        /\ DOMAIN aKernel = 1..Len(aKernel)
    BY <1>1, <1>2, EscritoDetras, SecConcat
  <1>5. aKernel'[Len(aKernel) + 1] = a /\ aKernel'[Len(aKernel) + 2] = b
    BY <1>1, <1>4
  <1>6. Len(aKernel) + 1 = d + 3 - l /\ Len(aKernel) + 2 = d + 4 - l
    BY <1>3
  <1>7. aKernel'[d + 3 - l] = a /\ aKernel'[d + 4 - l] = b /\ Len(aKernel') >= d + 4 - l
    BY <1>4, <1>5, <1>6
  <1>8. \A i \in 1..(d + 2 - l) : aKernel'[i].que = IF i <= d THEN "archivo" ELSE Palabra(k, l + i - d)
    BY <1>3, <1>4
  <1>9. Leyo(d, OperacionEn(k, l))'
    BY <1>3 DEF Leyo
  <1> QED BY <1>3, <1>7, <1>8, <1>9 DEF Antes, De

(* The kernel reads one of the words before.                             *)
LEMMA AntesLee ==
    ASSUME Sec(aKernel), NEW d \in {0, 1}, NEW k, NEW l \in 0..2, Antes(d, k, l),
           NEW m \in 0..2, m = IF d = 1 THEN 0 ELSE l + 1,
           aKernel # <<>>, aKernel' = Tail(aKernel), operacion' = OperacionEn(k, m), UNCHANGED enExec
    PROVE  Antes(0, k, m)'
  <1>1. /\ Len(aKernel) >= d + 4 - l /\ (d = 1 => l = 0)
        /\ \A i \in 1..(d + 2 - l) : aKernel[i].que = IF i <= d THEN "archivo" ELSE Palabra(k, l + i - d)
        /\ aKernel[d + 3 - l].que \in Fines
        /\ k = "fin" => De(enExec, d + 4 - l)
    BY DEF Antes
  <1>2. /\ Len(aKernel) \in Nat /\ Len(aKernel') = Len(aKernel) - 1
        /\ \A i \in 1..(Len(aKernel) - 1) : aKernel'[i] = aKernel[i + 1]
    BY LeidoDelante
  <1>3. d - l = 0 - m + 1 /\ d + 4 - l = 0 + 4 - m + 1 /\ d + 3 - l = (0 + 3 - m) + 1
    BY <1>1
  <1>4. Len(aKernel') >= 0 + 4 - m
    BY <1>1, <1>2, <1>3
  <1>5. 0 + 3 - m \in 1..(Len(aKernel) - 1) /\ 0 + 4 - m \in 1..(Len(aKernel) - 1)
    BY <1>2, <1>4
  <1>6. aKernel'[0 + 3 - m] = aKernel[d + 3 - l] /\ aKernel'[0 + 4 - m] = aKernel[d + 4 - l]
    <2>1. aKernel'[0 + 3 - m] = aKernel[(0 + 3 - m) + 1] /\ aKernel'[0 + 4 - m] = aKernel[(0 + 4 - m) + 1]
      BY <1>2, <1>5
    <2> QED BY <1>3, <2>1
  <1>7. ASSUME NEW i \in 1..(0 + 2 - m)
        PROVE  aKernel'[i].que = IF i <= 0 THEN "archivo" ELSE Palabra(k, m + i - 0)
    <2>1. i \in 1..(Len(aKernel) - 1) /\ i + 1 \in 1..(d + 2 - l) /\ ~(i <= 0) /\ ~(i + 1 <= d)
          /\ l + (i + 1) - d = m + i - 0
      BY <1>2, <1>3, <1>4
    <2> QED BY <1>1, <1>2, <2>1
  <1>8. Leyo(0, OperacionEn(k, m))'
    BY DEF Leyo
  <1> QED BY <1>1, <1>4, <1>6, <1>7, <1>8 DEF Antes, De

(* A collision: what check_interrupt writes is the second operation.     *)
LEMMA EscribeChoque ==
    ASSUME IInv, ~choque, choque', RevisaQuantum \/ RevisaExit
    PROVE  /\ escribio \in {"recurso", "interfaz", "fin"} /\ pcD \in {"revisa", "revisa_exit"} /\ pcD' = "recibe"
           /\ UNCHANGED <<aCpu, enExec, listos, operacion, desorden>>
           /\ \E o \in Fines, q \in ConContexto : aKernel' = aKernel \o <<Op(o), BufferCde(q, cde)>>
  <1>1. /\ Tipos /\ (pcD \in {"revisa", "revisa_exit"} => UnaDelTipo)
        /\ choque \in BOOLEAN
    BY DEF IInv, Limpia, Tipos
  <1>2. \/ aKernel' = aKernel \o Interrumpido
        \/ aKernel' = aKernel \o Desalojado
        => \E o \in Fines, q \in ConContexto : aKernel' = aKernel \o <<Op(o), BufferCde(q, cde)>>
    BY DEF Interrumpido, Desalojado, Fines, ConContexto
  <1>3. CASE RevisaExit
    <2>1. /\ pcD = "revisa_exit" /\ pcD' = "recibe" /\ escribio # "nada" /\ aKernel' = aKernel \o Interrumpido
          /\ UNCHANGED <<aCpu, enExec, listos, operacion, desorden>>
      BY <1>3 DEF RevisaExit, Termina, Libera, vKernel, vBloqueo
    <2> QED BY <1>1, <1>2, <2>1 DEF Tipos
  <1>4. CASE RevisaQuantum
    <2>1. /\ pcD = "revisa" /\ pcD' = "recibe" /\ escribio \in {"recurso", "fin"}
          /\ UNCHANGED <<aCpu, enExec, listos, operacion, desorden>>
      BY <1>4 DEF RevisaQuantum, Termina, Libera, vKernel, vBloqueo
    <2>2. interrupcion["io"] = FALSE /\ interrupcion["fs"] = FALSE
      BY <1>1, <2>1 DEF UnaDelTipo, Ninguna, DeInstruccion
    <2>3. aKernel' = aKernel \o Interrumpido \/ aKernel' = aKernel \o Desalojado
      BY <1>4, <2>2 DEF RevisaQuantum, Termina
    <2> QED BY <1>2, <2>1, <2>3
  <1> QED BY <1>3, <1>4

LEMMA ChoqueCondena ==
    ASSUME IInv, EnOrden, Tipado, ~choque, choque', RevisaQuantum \/ RevisaExit
    PROVE  AlSumoUno'
  <1>1. PICK o \in Fines, q \in ConContexto : aKernel' = aKernel \o <<Op(o), BufferCde(q, cde)>>
    BY EscribeChoque
  <1>2. /\ escribio \in {"recurso", "interfaz", "fin"} /\ pcD \in {"revisa", "revisa_exit"} /\ pcD' = "recibe"
        /\ UNCHANGED <<aCpu, enExec, listos, operacion, desorden>>
    BY EscribeChoque
  <1>3. Cuentas /\ Turno /\ Sec(aKernel) /\ Sec(aCpu) /\ Len(aCpu) <= 1
    BY EnOrdenUno DEF EnOrden
  <1>4. Formado(cde) /\ cde.pid \in Procesos
    BY <1>2 DEF Tipado, TiposCpu, Formado, Contextos
  <1> DEFINE a == Op(o)
             b == BufferCde(q, cde)
  <1>5. a.que \in Fines /\ b.que \in ConContexto /\ LeeCde(b.cde).pid = cde.pid
    BY <1>4, FormadoViaja DEF Op, BufferCde
  <1>6. aKernel' = aKernel \o <<a, b>>
    BY <1>1
  <1> HIDE DEF a, b
  <1>7. CASE escribio # "fin"
    <2>1. Llamando
      BY <1>2, <1>3, <1>7 DEF Turno, Libre, Despachado, Calculando, Saliendo, EnCpu
    <2>2. cde.pid = enExec /\ aCpu = <<>>
      BY <2>1 DEF Llamando, Suyo
    <2>3. PICK d \in {0, 1}, k \in Llamadas, l \in 0..2 : Dicho(d, k, l, 2, NULO)
      BY <2>1 DEF Llamando
    <2>4. Antes(d, k, l)'
      BY <1>2, <1>3, <1>5, <1>6, <2>2, <2>3, AntesDeDicho
    <2>5. k # "fin" /\ k \in Llamadas \cup {"fin"}
      BY DEF Llamadas
    <2>6. Trabado'
      BY <1>2, <1>4, <2>2, <2>4, <2>5, NuloAssumption DEF Trabado
    <2> QED BY <1>2, <1>3, <2>6 DEF AlSumoUno, Condenado
  <1>8. CASE escribio = "fin" /\ cde.pid = enExec
    <2>1. Saliendo
      BY <1>2, <1>3, <1>8 DEF Turno
    <2>2. aCpu = <<>>
      BY <2>1 DEF Saliendo
    <2>3. PICK d \in {0, 1}, k \in Salidas, l \in 0..2, x \in Vuelven :
             l < Largo(k) /\ Dicho(d, k, l, Largo(k), x) /\ k = "fin"
      BY <1>2, <2>1 DEF Saliendo
    <2>4. Largo("fin") = 2
      BY Palabras
    <2>5. Dicho(d, "fin", l, 2, x) /\ l < 2
      BY <2>3, <2>4
    <2>6. Antes(d, "fin", l)'
      BY <1>2, <1>3, <1>5, <1>6, <1>8, <2>5, AntesDeDicho
    <2>7. Trabado'
      BY <1>2, <1>4, <1>8, <2>2, <2>5, <2>6, NuloAssumption DEF Trabado
    <2> QED BY <1>2, <1>3, <2>7 DEF AlSumoUno, Condenado
  <1>9. CASE escribio = "fin" /\ cde.pid # enExec
    <2>1. cde.pid \notin listos /\ ~Calculando /\ ~Llamando
      BY <1>2, <1>3, <1>9 DEF Turno, Calculando, Llamando, Suyo, EnCpu
    <2>2. ~Saliendo
      BY <1>2, <1>9 DEF Saliendo
    <2>3. Callados /\ (enExec = NULO => aCpu = <<>>)
      BY <1>3, <2>1, <2>2 DEF Turno, Libre, Despachado
    <2>4. PICK d \in {0, 1} : Dicho(d, "fin", 0, 0, NULO)
      BY <2>3 DEF Callados
    <2>5. /\ Len(aKernel) = d /\ Leyo(d, Nada) /\ DOMAIN aKernel = 1..d
          /\ d = 1 => aKernel[1].que = "archivo"
      <3>1. Len(aKernel) = d + 0 - 0 /\ DOMAIN aKernel = 1..Len(aKernel)
        BY <1>3, <2>4 DEF Dicho, Sec
      <3>2. Leyo(d, Nada)
        BY <2>4 DEF Dicho, OperacionEn, Leyo
      <3>3. d = 1 => 1 \in DOMAIN aKernel
        BY <3>1
      <3>4. d = 1 => aKernel[1].que = "archivo"
        BY <2>4, <3>3 DEF Dicho
      <3> QED BY <3>1, <3>2, <3>4
    <2> DEFINE t == <<a, b>>
    <2>6. Sec(t) /\ Len(t) = 2 /\ t[1] = a /\ t[2] = b
      BY SecTuplas
    <2>7. aKernel' = aKernel \o t
      BY <1>6
    <2> HIDE DEF t
    <2>8. /\ Len(aKernel') = d + 2 /\ \A i \in 1..d : aKernel'[i] = aKernel[i]
          /\ \A i \in 1..2 : aKernel'[d + i] = t[i]
      BY <1>3, <2>5, <2>6, <2>7, EscritoDetras
    <2>9. aKernel'[d + 1] = a /\ aKernel'[d + 2] = b
      BY <2>6, <2>8
    <2>10. PICK p \in Procesos : p = cde.pid
      BY <1>4
    <2>11. SegundoFin(p)'
      <3>2. Leyo(d, Nada)' /\ (d = 1 => aKernel'[1].que = "archivo")
        BY <1>2, <2>5, <2>8 DEF Leyo
      <3>3. De(p, d + 2)'
        BY <1>5, <2>9, <2>10 DEF De
      <3>4. Len(aKernel') >= d + 2 /\ aKernel'[d + 1].que \in Fines
        BY <1>5, <2>8, <2>9
      <3> QED BY <3>2, <3>3, <3>4 DEF SegundoFin
    <2> QED BY <1>2, <1>3, <1>9, <2>1, <2>3, <2>10, <2>11 DEF AlSumoUno, Condenado, Sobra
  <1> QED BY <1>7, <1>8, <1>9

(* A step of the CPU only writes behind what is in the socket.           *)
LEMMA PasoDeCpu ==
    ASSUME Tipado, HiloInterrupt \/ HiloCiclo
    PROVE  /\ UNCHANGED <<enExec, listos, operacion, desorden>>
           /\ \E t : Sec(t) /\ aKernel' = aKernel \o t
           /\ aCpu' = aCpu \/ (aCpu # <<>> /\ aCpu' = Tail(aCpu))
           /\ pcD = "recibe" /\ aCpu = <<>> => pcD' = "recibe" /\ aCpu' = <<>> /\ aKernel' = aKernel
  <1>1. aKernel \o <<>> = aKernel /\ Sec(<<>>)
    <2>1. PICK S : aKernel \in Seq(S)
      BY DEF Tipado, TiposSockets, Sec
    <2> QED BY <2>1, SecTuplas, ConcatEmptySeq
  <1>2. CASE HiloInterrupt
    <2>1. UNCHANGED <<enExec, listos, operacion, desorden, aKernel, aCpu, pcD>>
      BY <1>2 DEF HiloInterrupt, InterrupMira, InterrupEspera, InterrupRecibe, vKernel, vBloqueo
    <2> QED BY <1>1, <2>1
  <1>3. CASE Despacho
    <2>1. UNCHANGED <<enExec, listos, operacion, desorden, aKernel>> /\ aCpu # <<>> /\ aCpu' = Tail(aCpu)
      BY <1>3 DEF Despacho, vKernel, vBloqueo
    <2> QED BY <1>1, <2>1
  <1>4. CASE Execute
    <2>1. pcD = "instruccion" /\ UNCHANGED <<enExec, listos, operacion, desorden, aCpu>>
      BY <1>4 DEF Execute, Calcula, Resize, Recurso, EntradaSalida, Exit, Ejecuta, vKernel, vBloqueo
    <2>2. \E t : Sec(t) /\ aKernel' = aKernel \o t
      BY <1>1, <1>4, SecTuplas DEF Execute, Calcula, Resize, Recurso, EntradaSalida, Exit, Ejecuta
    <2> QED BY <2>1, <2>2
  <1>5. CASE Check_interrupt
    <2>1. pcD \in {"revisa", "revisa_exit"} /\ UNCHANGED <<enExec, listos, operacion, desorden, aCpu>>
      BY <1>5 DEF Check_interrupt, RevisaQuantum, RevisaSinQuantum, RevisaExit, RevisaLlamada, RevisaNada,
                  Termina, vKernel, vBloqueo
    <2>2. Sec(Devuelve) /\ Sec(DevuelveArchivo) /\ Sec(Interrumpido) /\ Sec(Desalojado)
      BY SecTuplas DEF Devuelve, DevuelveArchivo, Interrumpido, Desalojado
    <2>3. \E t : Sec(t) /\ aKernel' = aKernel \o t
      BY <1>1, <1>5, <2>2 DEF Check_interrupt, RevisaQuantum, RevisaSinQuantum, RevisaExit, RevisaLlamada,
                               RevisaNada, Termina
    <2> QED BY <2>1, <2>3
  <1> QED BY <1>2, <1>3, <1>4, <1>5 DEF HiloCiclo

LEMMA MenosContextos ==
    ASSUME Sec(aCpu), Len(aCpu) <= 1, aCpu' = aCpu \/ (aCpu # <<>> /\ aCpu' = Tail(aCpu))
    PROVE  Len(aCpu') <= 1
  <1>1. CASE aCpu' = aCpu
    BY <1>1
  <1>2. CASE aCpu # <<>> /\ aCpu' = Tail(aCpu)
    <2>1. PICK S : aCpu \in Seq(S)
      BY DEF Sec
    <2>2. Len(aCpu') = Len(aCpu) - 1 /\ Len(aCpu) \in Nat
      BY <1>2, <2>1
    <2> QED BY <2>2
  <1> QED BY <1>1, <1>2

LEMMA CondenadoCpu ==
    ASSUME Tipado, AlSumoUno, choque, HiloInterrupt \/ HiloCiclo
    PROVE  AlSumoUno'
  <1>1. /\ UNCHANGED <<enExec, listos, operacion, desorden>>
        /\ aCpu' = aCpu \/ (aCpu # <<>> /\ aCpu' = Tail(aCpu))
        /\ pcD = "recibe" /\ aCpu = <<>> => pcD' = "recibe" /\ aCpu' = <<>> /\ aKernel' = aKernel
    BY PasoDeCpu
  <1>2. PICK t : Sec(t) /\ aKernel' = aKernel \o t
    BY PasoDeCpu
  <1>3. Len(aCpu') <= 1
    BY <1>1, MenosContextos DEF Tipado, TiposSockets, AlSumoUno
  <1>4. /\ Len(aKernel) \in Nat /\ Len(aKernel') >= Len(aKernel)
        /\ \A i \in 1..Len(aKernel) : aKernel'[i] = aKernel[i]
    BY <1>2, EscritoDetras DEF Tipado, TiposSockets
  <1>5. CASE desorden
    BY <1>1, <1>3, <1>5 DEF AlSumoUno, Condenado
  <1>6. CASE Trabado
    <2>1. aCpu = <<>> /\ pcD = "recibe"
      BY <1>6 DEF Trabado
    <2>2. UNCHANGED <<enExec, operacion, aKernel, aCpu, pcD>>
      BY <1>1, <2>1
    <2>3. Trabado'
      BY <1>6, <2>2 DEF Trabado, Antes, Leyo, De
    <2> QED BY <1>3, <2>3 DEF AlSumoUno, Condenado
  <1>7. ASSUME NEW p \in Procesos, Sobra(p) PROVE AlSumoUno'
    <2>1. SegundoFin(p)'
      <3>1. CASE \E d \in {0, 1} : /\ Leyo(d, Nada) /\ Len(aKernel) >= d + 2
                                   /\ d = 1 => aKernel[1].que = "archivo"
                                   /\ aKernel[d + 1].que \in Fines /\ De(p, d + 2)
        <4>1. PICK d \in {0, 1} : /\ Leyo(d, Nada) /\ Len(aKernel) >= d + 2
                                  /\ d = 1 => aKernel[1].que = "archivo"
                                  /\ aKernel[d + 1].que \in Fines /\ De(p, d + 2)
          BY <3>1
        <4>2. aKernel'[1] = aKernel[1] /\ aKernel'[d + 1] = aKernel[d + 1] /\ aKernel'[d + 2] = aKernel[d + 2]
          <5>1. 1 \in 1..Len(aKernel) /\ d + 1 \in 1..Len(aKernel) /\ d + 2 \in 1..Len(aKernel)
            BY <1>4, <4>1
          <5> QED BY <1>4, <5>1
        <4>3. Len(aKernel') >= d + 2
          <5>1. Len(aKernel') \in Nat
            BY <1>2, EscritoDetras DEF Tipado, TiposSockets
          <5> QED BY <1>4, <4>1, <5>1
        <4>4. Leyo(d, Nada)' /\ De(p, d + 2)'
          BY <1>1, <4>1, <4>2 DEF Leyo, De
        <4> QED BY <4>1, <4>2, <4>3, <4>4 DEF SegundoFin
      <3>2. CASE \E o \in Fines : /\ operacion = [op |-> o, falta |-> Falta[o]]
                                  /\ Len(aKernel) >= 1 /\ De(p, 1)
        <4>1. PICK o \in Fines : /\ operacion = [op |-> o, falta |-> Falta[o]]
                                 /\ Len(aKernel) >= 1 /\ De(p, 1)
          BY <3>2
        <4>2. aKernel'[1] = aKernel[1]
          BY <1>4, <4>1
        <4>3. Len(aKernel') >= 1
          <5>1. Len(aKernel') \in Nat
            BY <1>2, EscritoDetras DEF Tipado, TiposSockets
          <5> QED BY <1>4, <4>1, <5>1
        <4>4. De(p, 1)' /\ operacion' = [op |-> o, falta |-> Falta[o]]
          BY <1>1, <4>1, <4>2 DEF De
        <4> QED BY <4>3, <4>4 DEF SegundoFin
      <3> QED BY <1>7, <3>1, <3>2 DEF Sobra, SegundoFin
    <2>2. enExec' = NULO => aCpu' = <<>>
      BY <1>1, <1>7 DEF Sobra
    <2>3. p # enExec' /\ p \notin listos'
      BY <1>1, <1>7 DEF Sobra
    <2> QED BY <1>3, <2>1, <2>2, <2>3 DEF AlSumoUno, Condenado, Sobra
  <1> QED BY <1>5, <1>6, <1>7 DEF AlSumoUno, Condenado

(* The kernel reads on, towards the second operation.                    *)
LEMMA EsperaAntes ==
    ASSUME Tipado, NEW d \in {0, 1}, NEW k \in Llamadas \cup {"fin"}, NEW l \in 0..2, k = "fin" => l < 2,
           Antes(d, k, l), Lee
    PROVE  /\ d = 1 => l = 0 /\ operacion # Nada /\ Espera = "archivo" /\ Tail(operacion.falta) = <<>>
           /\ d = 0 /\ l = 0 => operacion = Nada /\ Leido.que = Abre(k)
           /\ d = 0 /\ l = 1 =>
                 /\ operacion # Nada /\ operacion = OperacionEn(k, 1) /\ Leido.que = Palabra(k, 2)
                 /\ Espera = IF k \in {"io", "fs"} THEN "datos" ELSE Palabra(k, 2)
                 /\ k \in {"wait", "signal"} => Tail(operacion.falta) = <<"cde">>
           /\ l # 2
  <1>1. aKernel # <<>> /\ aKernel' = Tail(aKernel) /\ Acepta /\ Sec(aKernel)
    BY DEF Lee, Tipado, TiposSockets
  <1>2. k \in Salidas
    BY DEF Salidas
  <1>3. /\ (d = 1 => l = 0) /\ Leyo(d, OperacionEn(k, l))
        /\ \A i \in 1..(d + 2 - l) : aKernel[i].que = IF i <= d THEN "archivo" ELSE Palabra(k, l + i - d)
        /\ aKernel[d + 3 - l].que \in Fines
    BY DEF Antes
  <1>4. Leido = aKernel[1]
    BY <1>1, LeidoDelante
  <1>5. CASE d = 1
    <2>1. operacion = Pendiente
      BY <1>3, <1>5 DEF Leyo
    <2>2. operacion # Nada /\ Espera = "archivo" /\ Tail(operacion.falta) = <<>>
      BY <2>1, SecTuplas DEF Pendiente, Nada, Espera
    <2> QED BY <1>3, <1>5, <2>2
  <1>6. CASE d = 0 /\ l = 0
    <2>1. operacion = Nada
      BY <1>3, <1>6 DEF Leyo, OperacionEn
    <2>2. aKernel[1].que = Palabra(k, 1)
      BY <1>3, <1>6
    <2> QED BY <1>2, <1>4, <1>6, <2>1, <2>2, Guion
  <1>7. CASE d = 0 /\ l = 1
    <2>1. operacion = OperacionEn(k, l) /\ l \in 1..2 /\ (l = 2 => k \in Llamadas)
      BY <1>3, <1>7 DEF Leyo
    <2>2. /\ operacion # Nada
          /\ Espera = IF l = 2 THEN "cde" ELSE IF k \in {"io", "fs"} THEN "datos" ELSE Palabra(k, 2)
          /\ l = 1 /\ k \in {"wait", "signal"} => Tail(operacion.falta) = <<"cde">>
      BY <1>2, <2>1, Esperado
    <2>3. aKernel[1].que = Palabra(k, 2)
      BY <1>3, <1>7
    <2> QED BY <1>4, <1>7, <2>1, <2>2, <2>3
  <1>8. ASSUME l = 2 PROVE FALSE
    <2>1. d = 0
      BY <1>3, <1>8
    <2>2. operacion = OperacionEn(k, l) /\ l \in 1..2 /\ (l = 2 => k \in Llamadas)
      BY <1>3, <1>8, <2>1 DEF Leyo
    <2>3. operacion # Nada /\ Espera = "cde"
      BY <1>2, <1>8, <2>2, Esperado
    <2>4. Leido.que \in Fines
      BY <1>3, <1>4, <1>8, <2>1
    <2> QED BY <1>1, <2>3, <2>4 DEF Acepta, Fines
  <1> QED BY <1>5, <1>6, <1>7, <1>8

LEMMA TrabadoLee ==
    ASSUME Tipado, Trabado, KernelOperacion \/ KernelDatos
    PROVE  Trabado'
  <1>1. /\ Lee /\ aKernel # <<>> /\ aKernel' = Tail(aKernel) /\ Sec(aKernel)
        /\ UNCHANGED <<enExec, aCpu, pcD>>
    BY DEF KernelOperacion, KernelDatos, Lee, vCpu, Tipado, TiposSockets
  <1>2. PICK d \in {0, 1}, k \in Llamadas \cup {"fin"}, l \in 0..2 : (k = "fin" => l < 2) /\ Antes(d, k, l)
    BY DEF Trabado
  <1>3. k \in Salidas
    BY DEF Salidas
  <1>4. /\ d = 1 => l = 0 /\ operacion # Nada /\ Espera = "archivo" /\ Tail(operacion.falta) = <<>>
        /\ d = 0 /\ l = 0 => operacion = Nada /\ Leido.que = Abre(k)
        /\ d = 0 /\ l = 1 =>
              /\ operacion # Nada /\ operacion = OperacionEn(k, 1) /\ Leido.que = Palabra(k, 2)
              /\ Espera = IF k \in {"io", "fs"} THEN "datos" ELSE Palabra(k, 2)
              /\ k \in {"wait", "signal"} => Tail(operacion.falta) = <<"cde">>
        /\ l # 2
    BY <1>1, <1>2, EsperaAntes
  <1>5. ASSUME NEW m \in 0..2, k = "fin" => m < 2, Antes(0, k, m)' PROVE Trabado'
    BY <1>1, <1>5 DEF Trabado
  <1>6. CASE KernelOperacion
    <2>1. operacion = Nada /\ operacion' = [op |-> Leido.que, falta |-> Falta[Leido.que]]
      BY <1>6 DEF KernelOperacion
    <2>2. d = 0 /\ l = 0
      BY <1>4, <2>1
    <2>3. operacion' = OperacionEn(k, 1)
      BY <1>4, <2>1, <2>2 DEF OperacionEn
    <2>4. Antes(0, k, 1)'
      BY <1>1, <1>2, <2>2, <2>3, AntesLee
    <2> QED BY <1>5, <2>4
  <1>7. CASE KernelDatos
    <2>1. /\ operacion # Nada
          /\ \/ Espera = "datos" /\ Sigue(IF Leido.que = "datos_fs" THEN <<"cde", "archivo">> ELSE <<"cde">>)
             \/ Espera \in {"recurso", "archivo"} /\ Sigue(Tail(operacion.falta))
      BY <1>7 DEF KernelDatos
    <2>2. CASE d = 1
      <3>1. operacion' = Nada
        BY <1>4, <2>1, <2>2 DEF Sigue
      <3>2. operacion' = OperacionEn(k, 0)
        BY <3>1 DEF OperacionEn
      <3>3. Antes(0, k, 0)'
        BY <1>1, <1>2, <2>2, <3>2, AntesLee
      <3> QED BY <1>5, <3>3
    <2>3. CASE d = 0
      <3>1. l = 1 /\ k \in Llamadas
        <4>1. l = 1
          BY <1>4, <2>1, <2>3
        <4>2. Palabra("fin", 2) = "fin"
          BY Palabras
        <4> QED BY <1>4, <2>1, <2>3, <4>1, <4>2
      <3>2. Sigue(IF k = "fs" THEN <<"cde", "archivo">> ELSE <<"cde">>)
        BY <1>4, <2>1, <2>3, <3>1, Palabras DEF Llamadas
      <3>3. operacion' = [operacion EXCEPT !.falta = IF k = "fs" THEN <<"cde", "archivo">> ELSE <<"cde">>]
        BY <3>2, SecTuplas DEF Sigue
      <3>4. operacion' = OperacionEn(k, 2)
        BY <1>4, <2>3, <3>1, <3>3 DEF OperacionEn
      <3>5. Antes(0, k, 2)'
        BY <1>1, <1>2, <2>3, <3>1, <3>4, AntesLee
      <3>6. k # "fin"
        BY <3>1 DEF Llamadas
      <3> QED BY <1>5, <3>5, <3>6
    <2> QED BY <2>2, <2>3
  <1> QED BY <1>6, <1>7

(* The one context it may read there is that of the end of the process.  *)
LEMMA TrabadoContexto ==
    ASSUME Tipado, Trabado, Lee, operacion # Nada, Espera \in ConContexto
    PROVE  /\ Espera = "fin"
           /\ KernelFinaliza => (\E p \in Procesos : Sobra(p))'
  <1>1. /\ aKernel # <<>> /\ aKernel' = Tail(aKernel) /\ Sec(aKernel) /\ aCpu = <<>> /\ enExec # NULO
        /\ enExec \in Procesos /\ enExec \notin listos
    BY DEF Lee, Tipado, TiposSockets, TiposKernel, Trabado
  <1>2. PICK d \in {0, 1}, k \in Llamadas \cup {"fin"}, l \in 0..2 : (k = "fin" => l < 2) /\ Antes(d, k, l)
    BY DEF Trabado
  <1>3. /\ d = 1 => Espera = "archivo"
        /\ d = 0 /\ l = 0 => operacion = Nada
        /\ d = 0 /\ l = 1 => Espera = IF k \in {"io", "fs"} THEN "datos" ELSE Palabra(k, 2)
        /\ l # 2
    BY <1>2, EsperaAntes
  <1>4. d = 0 /\ l = 1
    BY <1>3 DEF ConContexto
  <1>5. k = "fin" /\ Espera = "fin"
    BY <1>3, <1>4, Palabras DEF Llamadas, ConContexto
  <1>6. ASSUME KernelFinaliza PROVE (\E p \in Procesos : Sobra(p))'
    <2>1. /\ operacion' = Nada /\ enExec' = NULO /\ listos' = listos /\ aCpu' = <<>>
      <3>1. Sigue(Tail(operacion.falta)) /\ operacion.falta = <<"fin">>
        <4>1. operacion = OperacionEn("fin", 1)
          BY <1>2, <1>4, <1>5 DEF Antes, Leyo
        <4>2. operacion.falta = <<"fin">>
          BY <4>1 DEF OperacionEn, Abre, Falta
        <4> QED BY <1>6, <4>2 DEF KernelFinaliza, LeeContexto
      <3>2. Tail(operacion.falta) = <<>>
        BY <3>1, SecTuplas
      <3> QED BY <1>1, <1>6, <3>1, <3>2 DEF KernelFinaliza, Sigue, Sale
    <2>2. PICK p \in Procesos : p = enExec
      BY <1>1
    <2>3. /\ Len(aKernel) >= 0 + 4 - 1 /\ aKernel[0 + 3 - 1].que \in Fines /\ De(enExec, 0 + 4 - 1)
      BY <1>2, <1>4, <1>5 DEF Antes
    <2>4. /\ Len(aKernel) >= 3 /\ aKernel[2].que \in Fines /\ De(p, 3)
      <3>1. 0 + 4 - 1 = 3 /\ 0 + 3 - 1 = 2
        OBVIOUS
      <3> QED BY <2>2, <2>3, <3>1
    <2>5. /\ Len(aKernel) \in Nat /\ Len(aKernel') = Len(aKernel) - 1
          /\ \A i \in 1..(Len(aKernel) - 1) : aKernel'[i] = aKernel[i + 1]
      BY <1>1, LeidoDelante
    <2>6. aKernel'[1] = aKernel[2] /\ aKernel'[2] = aKernel[3] /\ Len(aKernel') >= 2
      <3>1. aKernel'[1] = aKernel[1 + 1] /\ aKernel'[2] = aKernel[2 + 1] /\ Len(aKernel') >= 2
        BY <2>4, <2>5
      <3> QED BY <3>1
    <2>7. De(p, 2)'
      BY <2>4, <2>6 DEF De
    <2>8. SegundoFin(p)'
      <3>1. Leyo(0, Nada)'
        BY <2>1 DEF Leyo
      <3>2. Len(aKernel') >= 0 + 2 /\ aKernel'[0 + 1].que \in Fines /\ De(p, 0 + 2)'
        BY <2>4, <2>6, <2>7
      <3> QED BY <3>1, <3>2 DEF SegundoFin
    <2> QED BY <1>1, <2>1, <2>2, <2>8, NuloAssumption DEF Sobra
  <1> QED BY <1>5, <1>6

(* Of the second end of a process the kernel reads the operation, and then *)
(* never its context.                                                    *)
LEMMA SobraLee ==
    ASSUME Tipado, NEW p \in Procesos, p # enExec, SegundoFin(p), Lee
    PROVE  /\ operacion # Nada => Espera \notin ConContexto
           /\ KernelOperacion \/ KernelDatos => SegundoFin(p)'
  <1>1. /\ aKernel # <<>> /\ aKernel' = Tail(aKernel) /\ Acepta /\ Sec(aKernel)
    BY DEF Lee, Tipado, TiposSockets
  <1>2. /\ Len(aKernel) \in Nat /\ Len(aKernel') = Len(aKernel) - 1 /\ Leido = aKernel[1]
        /\ \A i \in 1..(Len(aKernel) - 1) : aKernel'[i] = aKernel[i + 1]
    BY <1>1, LeidoDelante
  <1>3. ASSUME NEW o \in Fines, operacion = [op |-> o, falta |-> Falta[o]], De(p, 1) PROVE FALSE
    <2>1. Falta[o] = <<"fin">> \/ Falta[o] = <<"cde">>
      BY DEF Falta, Fines
    <2>2. Espera \in ConContexto
      BY <1>3, <2>1, SecTuplas DEF Espera, ConContexto
    <2>3. operacion # Nada
      <3>1. operacion.op = o /\ Nada.op = NULO /\ operacion.falta = Falta[o] /\ Nada.falta = <<>>
        BY <1>3 DEF Nada
      <3>2. Falta[o] # <<>>
        BY <2>1, SecTuplas
      <3> QED BY <3>1, <3>2
    <2>4. LeeCde(Leido.cde).pid = enExec
      BY <1>1, <2>2, <2>3 DEF Acepta, ConContexto
    <2> QED BY <1>2, <1>3, <2>4 DEF De
  <1>4. PICK d \in {0, 1} : /\ Leyo(d, Nada) /\ Len(aKernel) >= d + 2
                            /\ d = 1 => aKernel[1].que = "archivo"
                            /\ aKernel[d + 1].que \in Fines /\ De(p, d + 2)
    BY <1>3 DEF SegundoFin
  <1>5. CASE d = 1
    <2>1. operacion = Pendiente
      BY <1>4, <1>5 DEF Leyo
    <2>2. operacion # Nada /\ Espera = "archivo" /\ Tail(operacion.falta) = <<>>
      BY <2>1, SecTuplas DEF Pendiente, Nada, Espera
    <2>3. ASSUME KernelOperacion \/ KernelDatos PROVE SegundoFin(p)'
      <3>1. operacion' = Nada
        BY <2>2, <2>3 DEF KernelOperacion, KernelDatos, Sigue
      <3>2. Len(aKernel) >= 3 /\ aKernel[2].que \in Fines /\ De(p, 3)
        <4>1. d + 2 = 3 /\ d + 1 = 2
          BY <1>5
        <4> QED BY <1>4, <4>1
      <3>3. aKernel'[1] = aKernel[2] /\ aKernel'[2] = aKernel[3] /\ Len(aKernel') >= 2
        <4>1. aKernel'[1] = aKernel[1 + 1] /\ aKernel'[2] = aKernel[2 + 1] /\ Len(aKernel') >= 2
          BY <1>2, <3>2
        <4> QED BY <4>1
      <3>4. Leyo(0, Nada)' /\ De(p, 2)'
        BY <3>1, <3>2, <3>3 DEF Leyo, De
      <3>5. Len(aKernel') >= 0 + 2 /\ aKernel'[0 + 1].que \in Fines /\ De(p, 0 + 2)'
        BY <3>2, <3>3, <3>4
      <3> QED BY <3>4, <3>5 DEF SegundoFin
    <2> QED BY <2>2, <2>3 DEF ConContexto
  <1>6. CASE d = 0
    <2>1. operacion = Nada
      BY <1>4, <1>6 DEF Leyo
    <2>2. ASSUME KernelOperacion \/ KernelDatos PROVE SegundoFin(p)'
      <3>1. operacion' = [op |-> Leido.que, falta |-> Falta[Leido.que]]
        BY <2>1, <2>2 DEF KernelOperacion, KernelDatos
      <3>2. Len(aKernel) >= 2 /\ aKernel[1].que \in Fines /\ De(p, 2)
        <4>1. d + 2 = 2 /\ d + 1 = 1
          BY <1>6
        <4> QED BY <1>4, <4>1
      <3>3. aKernel'[1] = aKernel[2] /\ Len(aKernel') >= 1
        <4>1. aKernel'[1] = aKernel[1 + 1] /\ Len(aKernel') >= 1
          BY <1>2, <3>2
        <4> QED BY <4>1
      <3>4. De(p, 1)'
        BY <3>2, <3>3 DEF De
      <3>5. PICK o \in Fines : o = Leido.que
        BY <1>2, <3>2
      <3> QED BY <3>1, <3>3, <3>4, <3>5 DEF SegundoFin
    <2> QED BY <2>1, <2>2
  <1> QED BY <1>5, <1>6

LEMMA CondenadoKernel ==
    ASSUME Tipado, AlSumoUno, choque, Kernel
    PROVE  AlSumoUno'
  <1>1. ~desorden
    BY DEF Kernel, CortoDespacha, QuantumEmpieza, QuantumVence, ConsolaFinaliza,
           KernelOperacion, KernelDatos, KernelFinaliza, KernelFinDeQuantum, KernelInterfaz,
           KernelRecurso, KernelRecursoInvalido, KernelDesorden, KernelPisado, ExecBlocked, ContextoDe, LeeContexto, Lee, SeSigue
  <1>2. Len(aCpu) <= 1 /\ (Trabado \/ \E p \in Procesos : Sobra(p))
    BY <1>1 DEF AlSumoUno, Condenado
  <1>3. ASSUME NEW q \in Procesos, CortoDespacha(q) PROVE AlSumoUno'
    <2>1. /\ enExec = NULO /\ enExec' = q /\ q \in listos /\ listos' = listos \ {q} /\ Envia(guardado[q])
          /\ UNCHANGED <<aKernel, operacion>>
      BY <1>3 DEF CortoDespacha
    <2>2. PICK p \in Procesos : Sobra(p)
      BY <1>2, <2>1 DEF Trabado
    <2>3. aCpu = <<>>
      BY <2>1, <2>2 DEF Sobra
    <2>4. Len(aCpu') = 1
      <3>1. PICK x : x = AgregaCde(guardado[q])
        OBVIOUS
      <3>2. aCpu' = Append(<<>>, x)
        BY <2>1, <2>3, <3>1 DEF Envia
      <3>3. <<>> \in Seq({x})
        OBVIOUS
      <3> QED BY <3>2, <3>3
    <2>5. SegundoFin(p)'
      BY <2>1, <2>2 DEF Sobra, SegundoFin, Leyo, De
    <2>6. p # enExec' /\ p \notin listos' /\ enExec' # NULO
      BY <2>1, <2>2, NuloAssumption DEF Sobra
    <2> QED BY <2>4, <2>5, <2>6 DEF AlSumoUno, Condenado, Sobra
  <1>4. CASE KernelDesorden
    BY <1>2, <1>4 DEF KernelDesorden, AlSumoUno, Condenado
  <1>5. CASE QuantumEmpieza \/ QuantumVence \/ ConsolaFinaliza \/ KernelPisado \/ ExecBlocked
    <2>1. UNCHANGED <<aCpu, aKernel, enExec, listos, operacion, pcD>>
      BY <1>5 DEF QuantumEmpieza, QuantumVence, ConsolaFinaliza, KernelPisado, ExecBlocked, vCpu
    <2>2. Trabado => Trabado'
      BY <2>1 DEF Trabado, Antes, Leyo, De
    <2>3. \A p \in Procesos : Sobra(p) => Sobra(p)'
      BY <2>1 DEF Sobra, SegundoFin, Leyo, De
    <2> QED BY <1>2, <2>1, <2>2, <2>3 DEF AlSumoUno, Condenado
  <1>6. CASE KernelOperacion \/ KernelDatos
    <2>1. Lee /\ UNCHANGED <<aCpu, enExec, listos>>
      BY <1>6 DEF KernelOperacion, KernelDatos
    <2>2. Trabado => Trabado'
      BY <1>6, TrabadoLee
    <2>3. ASSUME NEW p \in Procesos, Sobra(p) PROVE Sobra(p)'
      <3>1. SegundoFin(p)'
        BY <1>6, <2>1, <2>3, SobraLee DEF Sobra
      <3> QED BY <2>1, <2>3, <3>1 DEF Sobra
    <2> QED BY <1>2, <2>1, <2>2, <2>3 DEF AlSumoUno, Condenado
  <1>7. ASSUME Lee, operacion # Nada, Espera \in ConContexto
        PROVE  Espera = "fin" /\ (KernelFinaliza => AlSumoUno')
    <2>1. ASSUME NEW p \in Procesos, Sobra(p) PROVE FALSE
      BY <1>7, <2>1, SobraLee DEF Sobra
    <2>2. Trabado
      BY <1>2, <2>1
    <2>3. Espera = "fin" /\ (KernelFinaliza => (\E p \in Procesos : Sobra(p))')
      BY <1>7, <2>2, TrabadoContexto
    <2>4. KernelFinaliza => Len(aCpu') <= 1
      BY <1>2 DEF KernelFinaliza
    <2> QED BY <2>3, <2>4 DEF AlSumoUno, Condenado
  <1>8. CASE KernelFinaliza
    <2>1. Lee /\ operacion # Nada /\ Espera \in ConContexto
      BY <1>8 DEF KernelFinaliza, LeeContexto, ConContexto
    <2> QED BY <1>7, <1>8, <2>1
  <1>9. ASSUME NEW op, ContextoDe(op) PROVE FALSE
    <2>1. Lee /\ operacion # Nada /\ Espera = "cde" /\ Espera \in ConContexto
      BY <1>9 DEF ContextoDe, LeeContexto, ConContexto
    <2> QED BY <1>7, <2>1
  <1> QED BY <1>3, <1>4, <1>5, <1>6, <1>8, <1>9
          DEF Kernel, KernelFinDeQuantum, KernelInterfaz, KernelRecurso, KernelRecursoInvalido

LEMMA UnoInductivo == IInv /\ EnOrden /\ Tipado /\ AlSumoUno /\ [Next]_vars => AlSumoUno'
  <1> SUFFICES ASSUME IInv, EnOrden, Tipado, AlSumoUno, [Next]_vars PROVE AlSumoUno'
    OBVIOUS
  <1>1. EnOrden' /\ IInv'
    BY OrdenInductivo, BanderasInductivas
  <1>2. choque \in BOOLEAN /\ choque' \in BOOLEAN
    BY <1>1 DEF IInv, Tipos
  <1>3. CASE ~choque'
    BY <1>1, <1>3, EnOrdenUnoDespues DEF AlSumoUno
  <1>4. CASE choque' /\ ~choque
    <2>1. RevisaQuantum \/ RevisaExit
      BY <1>4 DEF vars, Next, HiloInterrupt, HiloCiclo, Execute, Check_interrupt, Kernel, InterrupMira,
         InterrupEspera, InterrupRecibe, Despacho, Calcula, Resize, Recurso, EntradaSalida, Exit, Ejecuta,
         RevisaSinQuantum, RevisaLlamada, RevisaNada, CortoDespacha, QuantumEmpieza, QuantumVence,
         ConsolaFinaliza, KernelOperacion, KernelDatos, KernelFinaliza, KernelFinDeQuantum, KernelInterfaz,
         KernelRecurso, KernelRecursoInvalido, KernelDesorden, KernelPisado, ExecBlocked, ContextoDe, LeeContexto, Lee, vHistoria
    <2> QED BY <1>4, <2>1, ChoqueCondena
  <1>5. CASE choque /\ choque'
    <2>1. CASE UNCHANGED vars
      <3>1. UNCHANGED <<desorden, aCpu, aKernel, enExec, listos, operacion, pcD, choque>>
        BY <2>1 DEF vars, vCpu, vKernel, vBloqueo, vHistoria
      <3> QED BY <3>1 DEF AlSumoUno, Condenado, Trabado, Sobra, SegundoFin, Antes, Leyo, De
    <2>2. CASE Next
      BY <1>5, <2>2, CondenadoCpu, CondenadoKernel DEF Next
    <2> QED BY <2>1, <2>2
  <1> QED BY <1>2, <1>3, <1>4, <1>5

(* The registers keep within their width, whatever the program adds up or  *)
(* subtracts (cicloinstruccion.c), in the PCBs and in cde_interrumpido     *)
(* too; and never do two contexts wait in the dispatch socket              *)
(* (cortoPlazo.c), not even after a collision.                             *)
THEOREM TiposDelCiclo == Spec => []TypeOK
  <1>1. IInv /\ Tipado /\ AlSumoUno => TypeOK
    BY DEF IInv, Tipos, Tipado, TiposCpu, TiposSockets, TiposKernel, AlSumoUno, TypeOK, Formado, EnSusBits
  <1>2. Init => AlSumoUno
    <2>1. Len(<<>>) = 0
      BY SecTuplas
    <2>2. Init => aCpu = <<>> /\ choque = FALSE
      BY DEF Init
    <2> QED BY <2>1, <2>2 DEF AlSumoUno
  <1> QED BY <1>1, <1>2, BanderasIniciales, BanderasInductivas, OrdenInicial, OrdenInductivo, TipadoInicial,
             TipadoInductivo, UnoInductivo, PTL DEF Spec

=============================================================================
