------------------------- MODULE PlanificadorProofs -------------------------
(***************************************************************************)
(* Theorems about the kernel's schedulers, for every set of processes and  *)
(* interfaces, algorithm, degree and bound: the types; a thread that took a*)
(* unit of a queue's counter finds a PCB in that queue; every PCB is in one*)
(* place and moves along the process-state diagram; until a quantum        *)
(* expires, the right to use the CPU is one token; and, under FIFO with    *)
(* degree 1, no PCB gets the context of another process.                   *)
(***************************************************************************)
EXTENDS Planificador, FiniteSetTheorems, SequenceTheorems, TLAPS

-----------------------------------------------------------------------------
(* Lists.                                                                  *)

LEMMA QuitarUno ==
    ASSUME NEW S, NEW s \in Seq(S), NEW i \in DOMAIN s
    PROVE  RemoveAt(s, i) \in Seq(S) /\ Len(RemoveAt(s, i)) = Len(s) - 1
  <1>1. i \in 1..Len(s) /\ Len(s) \in Nat
    OBVIOUS
  <1>2. /\ SubSeq(s, 1, i - 1) \in Seq(S)
        /\ Len(SubSeq(s, 1, i - 1)) = i - 1
    BY <1>1
  <1>3. /\ SubSeq(s, i + 1, Len(s)) \in Seq(S)
        /\ Len(SubSeq(s, i + 1, Len(s))) = Len(s) - i
    BY <1>1
  <1> DEFINE a == SubSeq(s, 1, i - 1)
             b == SubSeq(s, i + 1, Len(s))
  <1>4. Len(a) + Len(b) = Len(s) - 1
    <2>1. Len(a) = i - 1 /\ Len(b) = Len(s) - i
      BY <1>2, <1>3
    <2> HIDE DEF a, b
    <2> QED BY <1>1, <2>1
  <1>5. a \o b \in Seq(S) /\ Len(a \o b) = Len(a) + Len(b)
    <2> a \in Seq(S) /\ b \in Seq(S)
      BY <1>2, <1>3
    <2> HIDE DEF a, b
    <2> QED BY ConcatProperties
  <1> QED  BY <1>4, <1>5 DEF RemoveAt

LEMMA PrimeroDeUnaLista ==
    ASSUME NEW S, NEW s \in Seq(S), s # <<>>
    PROVE  /\ Head(s) \in S /\ Tail(s) \in Seq(S)
           /\ Len(Tail(s)) = Len(s) - 1 /\ Len(s) \in Nat \ {0}
  OBVIOUS

-----------------------------------------------------------------------------
(* Types.                                                                  *)

LEMMA TipoInicial == Init => TypeOK
  <1> SUFFICES ASSUME Init PROVE TypeOK
    OBVIOUS
  <1> USE DEF Init
  <1>1. SinContexto \in Contextos
    BY CotasAssumption DEF SinContexto, Contextos, PCB
  <1>2. TipoColas
    BY DEF TipoColas
  <1>3. sem \in [Semaforos -> Nat]
    <2>1. \A s \in Semaforos : (CASE s = "GRADO" -> Grado [] s = "exec_libre" -> 1 [] OTHER -> 0) \in Nat
      BY GradoAssumption
    <2> QED BY <2>1
  <1>4. viaje \in [Hilos -> Viajes]
    <2> HIDE DEF Init
    <2>1. \A de, a \in Colas, b \in BOOLEAN : Viaje(de, a, b) \in Viajes
      BY DEF Viaje, Viajes
    <2>2. \A h \in Hilos : ViajeDe(h) \in {Trayectos.largo, Trayectos.corto,
              Trayectos.exit_largo, Trayectos.exec_ready, Trayectos.exec_blocked,
              Trayectos.blocked_ready}
      BY DEF ViajeDe, Hilos, Trayectos
    <2>3. \A h \in Hilos : ViajeDe(h) \in Viajes
      BY <2>1, <2>2 DEF Trayectos, Colas
    <2>4. viaje = [h \in Hilos |-> ViajeDe(h)]
      BY DEF Init
    <2> QED BY <2>3, <2>4
  <1>5. TipoHilos
    BY <1>3, <1>4 DEF TipoHilos, Pasos, PCB
  <1>6. TipoContexto
    <2>1. \A p \in Procesos : [pid |-> p, PC |-> 0] \in Contextos
      BY CotasAssumption DEF Contextos, PCB
    <2> QED BY <1>1, <2>1 DEF TipoContexto
  <1>7. TipoConsola /\ TipoQuantum
    BY CotasAssumption DEF TipoConsola, TipoQuantum
  <1>8. TipoIO
    <2>1. [paso |-> "libre", pid |-> NULO] \in [paso : {"libre", "operando", "avisar"}, pid : PCB]
      BY DEF PCB
    <2>2. espera \in [Interfaces -> Seq(PCB)]
      OBVIOUS
    <2>3. io \in [Interfaces -> [paso : {"libre", "operando", "avisar"}, pid : PCB]]
      BY <2>1
    <2> QED BY <2>2, <2>3 DEF TipoIO, PCB
  <1>9. TipoCpu
    BY <1>1, CotasAssumption DEF TipoCpu
  <1>10. TipoCanales
    BY DEF TipoCanales
  <1> QED BY <1>2, <1>5, <1>6, <1>7, <1>8, <1>9, <1>10 DEF TypeOK

(* What a step leaves alone keeps its type.                                *)
LEMMA Quietos ==
    /\ TipoColas /\ UNCHANGED <<colas, contador>> => TipoColas'
    /\ TipoContexto /\ UNCHANGED vContexto => TipoContexto'
    /\ TipoConsola /\ UNCHANGED vConsola => TipoConsola'
    /\ TipoIO /\ UNCHANGED vIO => TipoIO'
    /\ TipoCpu /\ UNCHANGED vCpu => TipoCpu'
    /\ TipoCanales /\ UNCHANGED vCanales => TipoCanales'
    /\ TipoQuantum /\ UNCHANGED vQuantum => TipoQuantum'
  BY DEF TipoColas, TipoContexto, TipoConsola, TipoIO, TipoCpu, TipoCanales, TipoQuantum,
         vContexto, vConsola, vIO, vCpu, vCanales, vQuantum

(* The steps of transicion_generica, for any thread.                       *)
LEMMA TipoTransicion ==
    ASSUME TypeOK, NEW h \in Hilos, TransicionGenerica(h)
    PROVE  TypeOK'
  <1> USE DEF TypeOK
  <1>1. ASSUME NEW aqui, NEW pausa \in Pasos, NEW sigue \in Pasos,
               Evaluar(h, aqui, pausa, sigue)
        PROVE  TypeOK'
    <2>1. TipoHilos'
      BY <1>1 DEF Evaluar, Salta, TipoHilos
    <2> QED BY <1>1, <2>1, Quietos DEF Evaluar
  <1>2. ASSUME NEW pausa, NEW sigue \in Pasos, Reanudar(h, pausa, sigue)
        PROVE  TypeOK'
    <2>1. TipoHilos'
      <3>1. SemReanudar(h) \in Hilos
        BY DEF SemReanudar, Hilos
      <3>2. reanudar' \in [Hilos -> Nat]
        BY <1>2, <3>1 DEF Reanudar, TipoHilos
      <3> QED BY <1>2, <3>2 DEF Reanudar, Salta, TipoHilos
    <2> QED BY <1>2, <2>1, Quietos DEF Reanudar
  <1>3. CASE EsperarContador(h)
    <2>1. viaje[h].de \in Colas
      BY DEF TipoHilos, Viajes
    <2>2. TipoColas'
      BY <1>3, <2>1 DEF EsperarContador, TipoColas
    <2>3. TipoHilos'
      BY <1>3 DEF EsperarContador, Salta, TipoHilos, Pasos
    <2> QED BY <1>3, <2>2, <2>3, Quietos DEF EsperarContador
  <1>4. CASE Sacar(h)
    <2> DEFINE de == viaje[h].de
    <2>1. de \in Colas /\ colas[de] \in Seq(PCB)
      BY DEF TipoHilos, TipoColas, Viajes
    <2>2. CASE SacarPrimero(h)
      <3>1. mano' \in [Hilos -> PCB]
        <4>1. colas[de] # <<>> => Head(colas[de]) \in PCB
          BY <2>1, PrimeroDeUnaLista
        <4>2. NULO \in PCB
          BY DEF PCB
        <4>3. PICK x \in PCB : mano' = [mano EXCEPT ![h] = x]
          BY <2>2, <4>1, <4>2 DEF SacarPrimero
        <4> QED BY <4>3 DEF TipoHilos
      <3>2. colas' \in [Colas -> Seq(PCB)]
        BY <2>1, <2>2, PrimeroDeUnaLista DEF SacarPrimero, TipoColas
      <3> QED BY <1>4, <3>1, <3>2, Quietos DEF Sacar, Salta, TipoHilos, TipoColas, Pasos
    <2>3. CASE SacarBuscado(h)
      <3>1. mano' \in [Hilos -> PCB]
        <4>1. \A i \in DOMAIN colas[de] : colas[de][i] \in PCB
          BY <2>1
        <4>2. NULO \in PCB
          BY DEF PCB
        <4>3. PICK x \in PCB : mano' = [mano EXCEPT ![h] = x]
          BY <2>3, <4>1, <4>2 DEF SacarBuscado
        <4> QED BY <4>3 DEF TipoHilos
      <3>2. colas' \in [Colas -> Seq(PCB)]
        BY <2>1, <2>3, QuitarUno DEF SacarBuscado, TipoColas
      <3> QED BY <1>4, <3>1, <3>2, Quietos DEF Sacar, Salta, TipoHilos, TipoColas, Pasos
    <2> QED BY <1>4, <2>2, <2>3 DEF Sacar
  <1>5. {"contador", "sacar", "agregar", "pausa1", "pausa2", "pausa3"} \subseteq Pasos
    BY DEF Pasos
  <1> QED  BY <1>1, <1>2, <1>3, <1>4, <1>5
           DEF TransicionGenerica, EvaluarPlanificacion, ReanudarPlanificacion

LEMMA TipoAgregar ==
    ASSUME TypeOK, NEW h \in Hilos, NEW s, AgregarAEstado(h, s)
    PROVE  TipoColas'
  <1> DEFINE a == viaje[h].a
  <1>1. a \in Colas /\ mano[h] \in PCB
    BY DEF TypeOK, TipoHilos, Viajes
  <1> QED BY <1>1 DEF AgregarAEstado, TypeOK, TipoColas

(* The console.                                                            *)
LEMMA TipoConsolaPaso ==
    ASSUME TypeOK, Consola
    PROVE  TypeOK'
  <1> USE DEF TypeOK
  <1>1. CASE IniciarPlanificacion
    <2>1. reanudar' \in [Hilos -> Nat]
      BY <1>1 DEF IniciarPlanificacion, TipoHilos
    <2>2. TipoHilos' /\ TipoConsola'
      BY <1>1, <2>1 DEF IniciarPlanificacion, TipoHilos, TipoConsola
    <2> QED BY <1>1, <2>2, Quietos DEF IniciarPlanificacion
  <1>2. CASE DetenerPlanificacion
    <2>1. TipoHilos'
      BY <1>2 DEF DetenerPlanificacion, TipoHilos
    <2>2. restaPausas' \in Nat
      BY <1>2 DEF DetenerPlanificacion, TipoConsola
    <2>3. TipoConsola'
      BY <1>2, <2>2 DEF DetenerPlanificacion, TipoConsola
    <2> QED BY <1>2, <2>1, <2>3, Quietos DEF DetenerPlanificacion
  <1>3. ASSUME NEW p \in Procesos, IniciarProceso(p) PROVE TypeOK'
    <2>1. TipoColas'
      <3>1. "NEW" \in Colas /\ p \in PCB
        BY DEF Colas, PCB
      <3>2. colas' \in [Colas -> Seq(PCB)]
        BY <1>3, <3>1 DEF IniciarProceso, TipoColas
      <3>3. contador' \in [Colas -> Nat]
        BY <1>3, <3>1 DEF IniciarProceso, TipoColas
      <3> QED BY <3>2, <3>3 DEF TipoColas
    <2>2. TipoHilos'
      BY <1>3 DEF IniciarProceso, TipoHilos, Semaforos
    <2> QED BY <1>3, <2>1, <2>2, Quietos DEF IniciarProceso
  <1> QED BY <1>1, <1>2, <1>3 DEF Consola

(* The steps that start a transition and those that end one.               *)
LEMMA TipoDisparo ==
    ASSUME TypeOK, NEW h \in Hilos, NEW s \in Semaforos, NEW sigue \in Pasos,
           Disparo(h, s, sigue)
    PROVE  TypeOK'
  <1>1. TipoHilos'
    BY DEF Disparo, Salta, TypeOK, TipoHilos
  <1> QED BY <1>1, Quietos DEF Disparo, TypeOK

LEMMA TipoPostReadys ==
    ASSUME NEW s \in [Semaforos -> Nat]
    PROVE  PostReadys(s) \in [Semaforos -> Nat]
  BY DEF PostReadys, Semaforos

LEMMA TipoVuelve ==
    ASSUME TipoHilos, NEW h \in Hilos, Vuelve(h)
    PROVE  pc' \in [Hilos -> Pasos] /\ mano' \in [Hilos -> PCB]
  BY DEF Vuelve, Salta, TipoHilos, Pasos, PCB

LEMMA TipoAgregarYSeguir ==
    ASSUME TypeOK, NEW h \in Hilos, AgregarYSeguir(h)
    PROVE  TypeOK'
  <1> USE DEF AgregarYSeguir, AgregarAEstado
  <1>1. TipoColas'
    BY TipoAgregar
  <1>2. TipoHilos'
    BY DEF Salta, TypeOK, TipoHilos, Pasos
  <1> QED BY <1>1, <1>2, Quietos DEF TypeOK

LEMMA TipoLargo ==
    ASSUME TypeOK, LargoPlazo
    PROVE  TypeOK'
  <1>0. "largo" \in Hilos /\ "en_new" \in Semaforos /\ "grado" \in Pasos
    BY DEF Hilos, Semaforos, Pasos
  <1>1. CASE LargoDisparo
    BY <1>0, <1>1, TipoDisparo DEF LargoDisparo
  <1>2. CASE LargoGrado
    <2>1. sem' \in [Semaforos -> Nat]
      BY <1>2 DEF LargoGrado, TypeOK, TipoHilos, Semaforos
    <2>2. pc' \in [Hilos -> Pasos]
      BY <1>2 DEF LargoGrado, Salta, TypeOK, TipoHilos, Pasos
    <2>3. TipoHilos'
      BY <1>2, <2>1, <2>2 DEF LargoGrado, TypeOK, TipoHilos
    <2> QED BY <1>2, <2>3, Quietos DEF LargoGrado, TypeOK
  <1>3. CASE LargoAgregar
    <2> USE DEF LargoAgregar
    <2>1. TipoColas'
      BY <1>0, <1>3, TipoAgregar
    <2>2. sem' \in [Semaforos -> Nat]
      BY <1>3, TipoPostReadys DEF TypeOK, TipoHilos, AgregarAEstado
    <2>3. TipoHilos'
      BY <1>0, <1>3, <2>2, TipoVuelve DEF TypeOK, TipoHilos, AgregarAEstado
    <2> QED BY <1>3, <2>1, <2>3, Quietos DEF AgregarAEstado, TypeOK
  <1> QED BY <1>0, <1>1, <1>2, <1>3, TipoTransicion DEF LargoPlazo

LEMMA TipoExit ==
    ASSUME TypeOK, ExitLargoPlazo
    PROVE  TypeOK'
  <1>0. "exit_largo" \in Hilos /\ "t_exit_largo" \in Semaforos /\ "evaluar1" \in Pasos
    BY DEF Hilos, Semaforos, Pasos
  <1>1. CASE ExitDisparo
    BY <1>0, <1>1, TipoDisparo DEF ExitDisparo
  <1>2. CASE ExitAgregar
    <2> USE DEF ExitAgregar
    <2>1. TipoColas'
      BY <1>0, <1>2, TipoAgregar
    <2>2. sem' \in [Semaforos -> Nat]
      <3>1. "GRADO" \in Semaforos /\ "exec_libre" \in Semaforos
        BY DEF Semaforos
      <3>2. sem' = [sem EXCEPT !["GRADO"] = @ + 1, !["exec_libre"] = @ + 1]
        BY <1>2 DEF AgregarAEstado
      <3> QED BY <3>1, <3>2 DEF TypeOK, TipoHilos
    <2>3. TipoHilos'
      BY <1>0, <1>2, <2>2, TipoVuelve DEF TypeOK, TipoHilos, AgregarAEstado
    <2> QED BY <1>2, <2>1, <2>3, Quietos DEF AgregarAEstado, TypeOK
  <1> QED BY <1>0, <1>1, <1>2, TipoTransicion DEF ExitLargoPlazo

LEMMA TipoCorto ==
    ASSUME TypeOK, CortoPlazo
    PROVE  TypeOK'
  <1>0. "corto" \in Hilos /\ {"exec_libre", "readys"} \subseteq Semaforos
        /\ {"readys", "evaluar1", "quantum", "join", "timer", "timer2"} \subseteq Pasos
    BY DEF Hilos, Semaforos, Pasos
  <1> USE DEF TypeOK
  <1>1. CASE CortoDisparo
    BY <1>0, <1>1, TipoDisparo DEF CortoDisparo
  <1>2. CASE CortoReadys
    <2>1. sem' \in [Semaforos -> Nat]
      BY <1>0, <1>2 DEF CortoReadys, TipoHilos
    <2>2. viaje' \in [Hilos -> Viajes]
      <3>1. [viaje["corto"] EXCEPT !.de = IF contador["READY+"] > 0 THEN "READY+" ELSE "READY"]
              \in Viajes
        BY <1>0 DEF TipoHilos, Viajes, Colas
      <3> QED BY <1>0, <1>2, <3>1 DEF CortoReadys, TipoHilos
    <2>3. TipoHilos'
      BY <1>0, <1>2, <2>1, <2>2 DEF CortoReadys, Salta, TipoHilos
    <2> QED BY <1>2, <2>3, Quietos DEF CortoReadys
  <1>3. CASE CortoEnviar
    <2>1. TipoCanales'
      <3>1. mano["corto"] # NULO => cde[mano["corto"]] \in Contextos
        BY <1>0 DEF TipoHilos, TipoContexto, PCB
      <3> QED BY <1>3, <3>1 DEF CortoEnviar, TipoCanales
    <2>2. pc' \in [Hilos -> Pasos] /\ mano' \in [Hilos -> PCB]
      BY <1>0, <1>3, TipoVuelve DEF CortoEnviar, Salta, TipoHilos
    <2>3. caido' \in BOOLEAN
      BY <1>3 DEF CortoEnviar, Desreferenciar
    <2>4. TipoHilos'
      BY <1>3, <2>2, <2>3 DEF CortoEnviar, TipoHilos
    <2> QED BY <1>3, <2>1, <2>4, Quietos DEF CortoEnviar
  <1>4. CASE CortoCrearQuantum
    <2>1. TipoHilos' /\ TipoQuantum'
      BY <1>0, <1>4 DEF CortoCrearQuantum, Salta, TipoHilos, TipoQuantum
    <2> QED BY <1>4, <2>1, Quietos DEF CortoCrearQuantum
  <1>5. CASE CortoJoin
    <2>1. TipoQuantum'
      BY <1>5 DEF CortoJoin, TipoQuantum
    <2>2. pc' \in [Hilos -> Pasos] /\ mano' \in [Hilos -> PCB]
      BY <1>0, <1>5, TipoVuelve DEF CortoJoin, Salta, TipoHilos
    <2>3. TipoHilos'
      BY <1>5, <2>2 DEF CortoJoin, TipoHilos
    <2> QED BY <1>5, <2>1, <2>3, Quietos DEF CortoJoin
  <1>6. CASE CortoTimer
    <2>1. TipoContexto'
      BY <1>6 DEF CortoTimer, TipoContexto
    <2>2. pc' \in [Hilos -> Pasos] /\ mano' \in [Hilos -> PCB]
      BY <1>0, <1>6, TipoVuelve DEF CortoTimer, Salta, TipoHilos
    <2>3. TipoHilos'
      BY <1>6, <2>2 DEF CortoTimer, TipoHilos
    <2> QED BY <1>6, <2>1, <2>3, Quietos DEF CortoTimer
  <1> QED  BY <1>0, <1>1, <1>2, <1>3, <1>4, <1>5, <1>6, TipoTransicion, TipoAgregarYSeguir
           DEF CortoPlazo

LEMMA TipoQuantumVence ==
    ASSUME TypeOK, QuantumVence
    PROVE  TypeOK'
  <1>1. TipoQuantum'
    BY DEF QuantumVence, TypeOK, TipoQuantum
  <1>2. TipoCanales'
    BY DEF QuantumVence, TypeOK, TipoCanales
  <1>3. TipoHilos'
    BY DEF QuantumVence, TypeOK, TipoHilos
  <1> QED BY <1>1, <1>2, <1>3, Quietos DEF QuantumVence, TypeOK

LEMMA TipoExecReady ==
    ASSUME TypeOK, ExecReady
    PROVE  TypeOK'
  <1>0. "exec_ready" \in Hilos /\ "t_exec_ready" \in Semaforos /\ "exec_libre" \in Semaforos
        /\ "evaluar1" \in Pasos
    BY DEF Hilos, Semaforos, Pasos
  <1> USE DEF TypeOK
  <1>1. CASE ExecReadyDisparo
    BY <1>0, <1>1, TipoDisparo DEF ExecReadyDisparo
  <1>2. CASE ExecReadyFin
    <2> USE DEF ExecReadyFin
    <2>1. TipoContexto'
      BY <1>2 DEF TipoContexto
    <2>2. sem' \in [Semaforos -> Nat]
      <3>1. [sem EXCEPT !["exec_libre"] = @ + 1] \in [Semaforos -> Nat]
        BY <1>0 DEF TipoHilos
      <3> QED BY <1>2, <3>1, TipoPostReadys
    <2>3. caido' \in BOOLEAN
      BY <1>2 DEF Desreferenciar
    <2>4. TipoHilos'
      BY <1>0, <1>2, <2>2, <2>3, TipoVuelve DEF TipoHilos
    <2> QED BY <1>2, <2>1, <2>4, Quietos
  <1> QED  BY <1>0, <1>1, <1>2, TipoTransicion, TipoAgregarYSeguir DEF ExecReady

LEMMA TipoExecBlocked ==
    ASSUME TypeOK, ExecBlocked
    PROVE  TypeOK'
  <1>0. "exec_blocked" \in Hilos /\ "t_exec_blocked" \in Semaforos /\ "exec_libre" \in Semaforos
        /\ "evaluar1" \in Pasos
    BY DEF Hilos, Semaforos, Pasos
  <1> USE DEF TypeOK
  <1>1. CASE ExecBlockedDisparo
    <2> USE DEF ExecBlockedDisparo
    <2>1. sem' \in [Semaforos -> Nat]
      <3>1. sem["t_exec_blocked"] \in Nat /\ sem["exec_libre"] \in Nat
        BY <1>0 DEF TipoHilos
      <3>2. sem' = [sem EXCEPT !["t_exec_blocked"] = @ - 1, !["exec_libre"] = @ + 1]
        BY <1>1
      <3> QED BY <1>0, <1>1, <3>1, <3>2 DEF TipoHilos
    <2>2. TipoHilos'
      BY <1>0, <1>1, <2>1 DEF Salta, TipoHilos
    <2> QED BY <1>1, <2>2, Quietos
  <1>2. CASE ExecBlockedFin
    <2> USE DEF ExecBlockedFin
    <2>1. TipoContexto'
      <3>1. cde' \in [Procesos -> Contextos]
        BY <1>2 DEF TipoContexto
      <3>2. excedido' \in BOOLEAN
        BY <1>2 DEF TipoContexto
      <3> QED BY <1>2, <3>1, <3>2 DEF TipoContexto
    <2>2. caido' \in BOOLEAN
      BY <1>2 DEF Desreferenciar
    <2>3. TipoHilos'
      BY <1>0, <1>2, <2>2, TipoVuelve DEF TipoHilos
    <2> QED BY <1>2, <2>1, <2>3, Quietos
  <1> QED  BY <1>0, <1>1, <1>2, TipoTransicion, TipoAgregarYSeguir DEF ExecBlocked

LEMMA TipoBlockedReady ==
    ASSUME TypeOK, BlockedReady
    PROVE  TypeOK'
  <1>0. "blocked_ready" \in Hilos /\ "t_blocked_ready" \in Semaforos
        /\ "evaluar1" \in Pasos /\ "elegir" \in Pasos
    BY DEF Hilos, Semaforos, Pasos
  <1> USE DEF TypeOK
  <1>1. CASE BlockedReadyDisparo
    BY <1>0, <1>1, TipoDisparo DEF BlockedReadyDisparo
  <1>2. CASE BlockedReadyElegir
    <2> USE DEF BlockedReadyElegir
    <2>1. viaje' \in [Hilos -> Viajes]
      <3>1. Viaje("BLOCK", IF Algoritmo = "VRR" /\ ~excedido THEN "READY+" ELSE "READY",
                  vieneDeIO) \in Viajes
        BY DEF Viaje, Viajes, Colas, TipoIO
      <3> QED BY <1>0, <1>2, <3>1 DEF TipoHilos
    <2>2. TipoHilos'
      BY <1>0, <1>2, <2>1 DEF Salta, TipoHilos
    <2> QED BY <1>2, <2>2, Quietos
  <1>3. CASE BlockedReadyFin
    <2> USE DEF BlockedReadyFin
    <2>1. TipoIO'
      BY <1>3 DEF TipoIO
    <2>2. sem' \in [Semaforos -> Nat]
      BY <1>3, TipoPostReadys DEF TipoHilos
    <2>3. caido' \in BOOLEAN
      BY <1>3 DEF Desreferenciar
    <2>4. TipoHilos'
      BY <1>0, <1>3, <2>2, <2>3, TipoVuelve DEF TipoHilos
    <2> QED BY <1>3, <2>1, <2>4, Quietos
  <1> QED  BY <1>0, <1>1, <1>2, <1>3, TipoTransicion, TipoAgregarYSeguir DEF BlockedReady

(* The dispatch thread of the kernel and the threads of the interfaces.    *)
LEMMA TipoDispatch ==
    ASSUME TypeOK, HiloDispatch
    PROVE  TypeOK'
  <1>0. "t_exit_largo" \in Semaforos /\ "t_exec_ready" \in Semaforos
        /\ "t_exec_blocked" \in Semaforos
    BY DEF Semaforos
  <1> USE DEF TypeOK
  <1>1. aKernel # <<>> => Head(aKernel).cde \in Contextos /\ Tail(aKernel) \in Seq(Mensajes)
    <2>1. aKernel # <<>> => Head(aKernel) \in Mensajes /\ Tail(aKernel) \in Seq(Mensajes)
      BY PrimeroDeUnaLista DEF TipoCanales
    <2> QED BY <2>1 DEF Mensajes
  <1>2. CASE DsFinalizar
    <2> USE DEF DsFinalizar
    <2>1. TipoCanales' /\ cde_interrumpido' \in Contextos
      BY <1>1, <1>2 DEF Llega, TipoCanales
    <2>2. TipoContexto'
      BY <1>2, <2>1 DEF TipoContexto
    <2>3. TipoQuantum'
      BY <1>2 DEF CancelarQuantum, TipoQuantum
    <2>4. caido' \in BOOLEAN
      BY <1>2
    <2>5. TipoHilos'
      BY <1>0, <1>2, <2>4 DEF TipoHilos
    <2> QED BY <1>2, <2>1, <2>2, <2>3, <2>5, Quietos
  <1>3. CASE DsFinDeQuantum
    <2> USE DEF DsFinDeQuantum
    <2>1. TipoCanales' /\ cde_interrumpido' \in Contextos
      BY <1>1, <1>3 DEF Llega, TipoCanales
    <2>2. TipoContexto'
      BY <1>3, <2>1 DEF TipoContexto
    <2>3. TipoQuantum'
      BY <1>3 DEF CancelarQuantum, TipoQuantum
    <2>4. caido' \in BOOLEAN
      BY <1>3 DEF CancelaNadie
    <2>5. TipoHilos'
      BY <1>0, <1>3, <2>4 DEF TipoHilos
    <2> QED BY <1>3, <2>1, <2>2, <2>3, <2>5, Quietos
  <1>4. CASE DsInterfaz
    <2> USE DEF DsInterfaz
    <2>1. TipoQuantum'
      BY <1>4 DEF CancelarQuantum, TipoQuantum
    <2>2. caido' \in BOOLEAN
      BY <1>4
    <2>3. TipoHilos'
      BY <1>4, <2>2 DEF TipoHilos
    <2> QED BY <1>4, <2>1, <2>3, Quietos
  <1>5. CASE DsInterfazCde
    <2> DEFINE c == aKernel[2].cde
               i == aKernel[1].io
    <2>1. c \in Contextos /\ Tail(Tail(aKernel)) \in Seq(Mensajes)
      <3>1. aKernel \in Seq(Mensajes) /\ Len(aKernel) >= 2
        BY <1>5 DEF DsInterfazCde, TipoCanales
      <3>2. aKernel[2] \in Mensajes
        BY <3>1
      <3>3. Tail(aKernel) \in Seq(Mensajes) /\ Len(Tail(aKernel)) >= 1
        BY <3>1, PrimeroDeUnaLista
      <3>4. Tail(Tail(aKernel)) \in Seq(Mensajes)
        <4> DEFINE t == Tail(aKernel)
        <4>1. t \in Seq(Mensajes) /\ Len(t) >= 1
          BY <3>3
        <4> HIDE DEF t
        <4>2. t # <<>>
          BY <4>1
        <4>3. Tail(t) \in Seq(Mensajes)
          BY <4>1, <4>2, PrimeroDeUnaLista
        <4> QED BY <4>3 DEF t
      <3> QED BY <3>2, <3>4 DEF Mensajes
    <2>2. c.pid \in PCB
      BY <2>1 DEF Contextos
    <2>3. TipoIO'
      <3>1. espera' = [espera EXCEPT ![i] = Append(@, c.pid)]
        BY <1>5 DEF DsInterfazCde
      <3> HIDE DEF c, i
      <3>2. espera' \in [Interfaces -> Seq(PCB)]
        <4>1. espera \in [Interfaces -> Seq(PCB)]
          BY DEF TipoIO
        <4>2. \A x \in Interfaces : Append(espera[x], c.pid) \in Seq(PCB)
          BY <2>2, <4>1
        <4> QED BY <3>1, <4>1, <4>2
      <3> QED BY <1>5, <3>2 DEF DsInterfazCde, TipoIO
    <2>4. TipoCanales' /\ TipoContexto'
      BY <1>5, <2>1 DEF DsInterfazCde, TipoCanales, TipoContexto
    <2>5. TipoHilos'
      BY <1>0, <1>5 DEF DsInterfazCde, TipoHilos
    <2> QED BY <1>5, <2>3, <2>4, <2>5, Quietos DEF DsInterfazCde
  <1> QED BY <1>2, <1>3, <1>4, <1>5 DEF HiloDispatch

LEMMA TipoInterfaz ==
    ASSUME TypeOK, NEW i \in Interfaces, InterfazConectada(i)
    PROVE  TypeOK'
  <1> USE DEF TypeOK
  <1>0. io[i].pid \in PCB /\ NULO \in PCB /\ "t_blocked_ready" \in Semaforos
    BY DEF TipoIO, PCB, Semaforos
  <1>1. CASE IoTomar(i)
    <2> USE DEF IoTomar
    <2>1. Head(espera[i]) \in PCB /\ Tail(espera[i]) \in Seq(PCB)
      BY <1>1, PrimeroDeUnaLista DEF TipoIO
    <2>2. TipoIO'
      BY <1>1, <2>1 DEF TipoIO
    <2>3. TipoHilos'
      BY <1>1 DEF TipoHilos
    <2> QED BY <1>1, <2>2, <2>3, Quietos
  <1>2. CASE IoConcluir(i)
    <2> USE DEF IoConcluir
    <2>1. TipoIO'
      BY <1>2 DEF TipoIO
    <2>2. TipoHilos'
      BY <1>2 DEF TipoHilos
    <2> QED BY <1>2, <2>1, <2>2, Quietos
  <1>3. CASE IoAvisar(i)
    <2> USE DEF IoAvisar
    <2>1. TipoIO'
      BY <1>0, <1>3 DEF TipoIO
    <2>2. TipoHilos'
      BY <1>0, <1>3 DEF TipoHilos
    <2> QED BY <1>3, <2>1, <2>2, Quietos
  <1> QED BY <1>1, <1>2, <1>3 DEF InterfazConectada

(* The CPU.                                                                *)
LEMMA TipoLibera ==
    ASSUME NEW c \in [paso : {"libre", "ejecutar", "chequear"}, cde : Contextos,
                      salida : BOOLEAN, rr : BOOLEAN, io : BOOLEAN]
    PROVE  CpuLibera(c) \in [paso : {"libre", "ejecutar", "chequear"}, cde : Contextos,
                             salida : BOOLEAN, rr : BOOLEAN, io : BOOLEAN]
  <1>1. SinContexto \in Contextos
    BY CotasAssumption DEF SinContexto, Contextos, PCB
  <1> QED BY <1>1 DEF CpuLibera

LEMMA TipoMensaje ==
    ASSUME NEW op \in {"INSTRUCCION_INTERFAZ", "CDE", "FIN_DE_QUANTUM", "FINALIZAR_PROCESO"},
           NEW c \in Contextos, NEW i \in Interfaces \cup {NULO}
    PROVE  Mensaje(op, c, i) \in Mensajes
  BY DEF Mensaje, Mensajes

LEMMA TipoCpuPaso ==
    ASSUME TypeOK, CpuRecibir \/ CpuEjecutar \/ CheckInterrupt \/ CpuInterrupt
    PROVE  TypeOK'
  <1> USE DEF TypeOK
  <1>0. cpu.cde \in Contextos /\ SinContexto \in Contextos
    BY CotasAssumption DEF TipoCpu, SinContexto, Contextos, PCB
  <1>1. CASE CpuRecibir
    <2> USE DEF CpuRecibir
    <2>1. Head(aCpu) \in Contextos /\ Tail(aCpu) \in Seq(Contextos)
      BY <1>1, PrimeroDeUnaLista DEF TipoCanales
    <2>2. TipoCanales' /\ TipoHilos'
      BY <1>1, <2>1 DEF TipoCanales, TipoHilos
    <2>3. TipoCpu'
      <3>1. cpu' \in [paso : {"libre", "ejecutar", "chequear"}, cde : Contextos,
                      salida : BOOLEAN, rr : BOOLEAN, io : BOOLEAN]
        BY <1>1, <2>1 DEF TipoCpu
      <3>2. s_exit' \in Nat
        BY <1>1 DEF TipoCpu
      <3> QED BY <1>1, <3>1, <3>2 DEF TipoCpu
    <2> QED BY <1>1, <2>2, <2>3, Quietos
  <1>2. CASE CpuCalcular
    <2>1. TipoCpu' /\ TipoHilos'
      BY <1>2 DEF CpuCalcular, TipoCpu, TipoHilos
    <2> QED BY <1>2, <2>1, Quietos DEF CpuCalcular
  <1>3. ASSUME NEW i \in Interfaces, CpuPedirIO(i) PROVE TypeOK'
    <2> USE DEF CpuPedirIO
    <2>1. cpu.cde.PC + 1 \in 0..MaxIO
      BY <1>0, <1>3, CotasAssumption DEF Contextos
    <2>2. [cpu.cde EXCEPT !.PC = @ + 1] \in Contextos
      BY <1>0, <2>1 DEF Contextos
    <2>3. TipoCpu'
      <3>1. cpu' \in [paso : {"libre", "ejecutar", "chequear"}, cde : Contextos,
                      salida : BOOLEAN, rr : BOOLEAN, io : BOOLEAN]
        BY <1>3, <2>2 DEF TipoCpu
      <3>2. avance' \in [Procesos -> 0..MaxIO]
        BY <1>3, <2>1 DEF TipoCpu
      <3> QED BY <1>3, <3>1, <3>2 DEF TipoCpu
    <2>4. TipoCanales' /\ TipoHilos'
      BY <1>0, <1>3, TipoMensaje DEF TipoCanales, TipoHilos
    <2> QED BY <1>3, <2>3, <2>4, Quietos
  <1>4. CASE CpuExit
    <2> USE DEF CpuExit
    <2>1. TipoCpu' /\ TipoHilos'
      BY <1>4 DEF TipoCpu, TipoHilos
    <2>2. TipoCanales'
      BY <1>0, <1>4, TipoMensaje DEF TipoCanales
    <2> QED BY <1>4, <2>1, <2>2, Quietos
  <1>5. CASE CheckInterrupt
    <2> USE DEF CheckInterrupt
    <2>1. TipoHilos'
      BY <1>5 DEF TipoHilos
    <2>2. TipoCanales'
      <3>1. aKernel \in Seq(Mensajes)
        BY DEF TipoCanales
      <3>2. /\ Mensaje("CDE", cpu.cde, NULO) \in Mensajes
            /\ Mensaje("FIN_DE_QUANTUM", cpu.cde, NULO) \in Mensajes
        BY <1>0, TipoMensaje
      <3>3. \A m \in Mensajes : Append(aKernel, m) \in Seq(Mensajes)
        BY <3>1
      <3>4. aKernel' = aKernel \/ \E m \in Mensajes : aKernel' = Append(aKernel, m)
        BY <1>5, <3>2
      <3>5. aKernel' \in Seq(Mensajes)
        BY <3>1, <3>3, <3>4
      <3> QED BY <1>5, <3>5 DEF TipoCanales
    <2>3. TipoCpu'
      <3>1. /\ [cpu EXCEPT !.salida = FALSE, !.rr = FALSE, !.io = FALSE] \in
                 [paso : {"libre", "ejecutar", "chequear"}, cde : Contextos,
                  salida : BOOLEAN, rr : BOOLEAN, io : BOOLEAN]
            /\ [cpu EXCEPT !.salida = FALSE, !.rr = FALSE] \in
                 [paso : {"libre", "ejecutar", "chequear"}, cde : Contextos,
                  salida : BOOLEAN, rr : BOOLEAN, io : BOOLEAN]
        BY DEF TipoCpu
      <3>2. cpu' \in [paso : {"libre", "ejecutar", "chequear"}, cde : Contextos,
                      salida : BOOLEAN, rr : BOOLEAN, io : BOOLEAN]
        BY <1>5, <3>1, TipoLibera DEF TipoCpu
      <3> QED BY <1>5, <3>2 DEF TipoCpu
    <2> QED BY <1>5, <2>1, <2>2, <2>3, Quietos
  <1>6. CASE InterruptMirar
    <2>1. TipoCpu' /\ TipoHilos'
      BY <1>6 DEF InterruptMirar, TipoCpu, TipoHilos
    <2> QED BY <1>6, <2>1, Quietos DEF InterruptMirar
  <1>7. CASE InterruptEsperar
    <2>1. TipoCpu' /\ TipoHilos'
      BY <1>7 DEF InterruptEsperar, TipoCpu, TipoHilos
    <2> QED BY <1>7, <2>1, Quietos DEF InterruptEsperar
  <1>8. CASE InterruptRecibir
    <2>1. TipoCpu' /\ TipoHilos'
      BY <1>8 DEF InterruptRecibir, TipoCpu, TipoHilos
    <2>2. TipoCanales'
      BY <1>8 DEF InterruptRecibir, TipoCanales
    <2> QED BY <1>8, <2>1, <2>2, Quietos DEF InterruptRecibir
  <1> QED  BY <1>1, <1>2, <1>3, <1>4, <1>5, <1>6, <1>7, <1>8 DEF CpuEjecutar, CpuInterrupt

LEMMA TipoQuieto ==
    ASSUME TypeOK, UNCHANGED vars
    PROVE  TypeOK'
  BY DEF vars, TypeOK, TipoColas, TipoHilos, TipoContexto, TipoConsola, TipoIO, TipoCpu,
         TipoCanales, TipoQuantum

LEMMA TipoInductivo == TypeOK /\ [Next]_vars => TypeOK'
  BY TipoConsolaPaso, TipoLargo, TipoCorto, TipoExit, TipoExecReady, TipoExecBlocked,
     TipoBlockedReady, TipoQuantumVence, TipoDispatch, TipoInterfaz, TipoCpuPaso, TipoQuieto
  DEF Next

(* Every variable keeps its type, whatever the processes, interfaces,      *)
(* algorithm, degree and bounds: no sem_t of the kernel goes below zero,   *)
(* and the threads only move PCBs, or the NULL a failed removal returns,   *)
(* between the six queues.                                                 *)
THEOREM TiposDelPlanificador == Spec => []TypeOK
  <1> QED BY TipoInicial, TipoInductivo, PTL DEF Spec

-----------------------------------------------------------------------------
(* The counters.                                                           *)

Reservan(c) == {h \in Hilos : Reserva(h, c)}

LEMMA HilosFinito == IsFiniteSet(Hilos)
  <1>1. Hilos = {"largo"} \cup {"corto"} \cup {"exit_largo"} \cup {"exec_ready"}
                \cup {"exec_blocked"} \cup {"blocked_ready"}
    BY DEF Hilos
  <1> QED BY <1>1, FS_Singleton, FS_Union

LEMMA ReservanFinito ==
    ASSUME NEW c
    PROVE  /\ IsFiniteSet(Reservan(c)) /\ IsFiniteSet(Reservan(c)')
           /\ Cardinality(Reservan(c)) \in Nat /\ Cardinality(Reservan(c)') \in Nat
  <1>1. Reservan(c) \in SUBSET Hilos /\ Reservan(c)' \in SUBSET Hilos
    BY DEF Reservan
  <1>2. IsFiniteSet(Reservan(c)) /\ IsFiniteSet(Reservan(c)')
    BY <1>1, HilosFinito, FS_Subset
  <1> QED BY <1>2, FS_CardinalityType

(* The invariant, with the set of threads by its name.                     *)
Respaldada(c) == contador[c] + Cardinality(Reservan(c)) <= Len(colas[c])

LEMMA RespaldoPorCola == ContadorRespaldado <=> \A c \in Colas : Respaldada(c)
  BY DEF ContadorRespaldado, Respaldada, Reservan

(* A queue to which no reservation is added and whose counter and list are *)
(* left alone stays backed.                                                *)
LEMMA ColaQuieta ==
    ASSUME TypeOK, TypeOK', NEW c \in Colas, Respaldada(c),
           colas'[c] = colas[c], contador'[c] = contador[c],
           Reservan(c)' \subseteq Reservan(c)
    PROVE  Respaldada(c)'
  <1>1. Cardinality(Reservan(c)') <= Cardinality(Reservan(c))
    BY ReservanFinito, FS_Subset
  <1>2. contador[c] \in Nat /\ Len(colas[c]) \in Nat
    BY DEF TypeOK, TipoColas
  <1> QED BY <1>1, <1>2, ReservanFinito DEF Respaldada

(* A step that changes neither lists nor counters and by which no thread   *)
(* comes to hold a reservation.                                            *)
LEMMA SinReservasNuevas ==
    ASSUME TypeOK, TypeOK', ContadorRespaldado, UNCHANGED <<colas, contador>>,
           \A h \in Hilos, c \in Colas : Reserva(h, c)' => Reserva(h, c)
    PROVE  ContadorRespaldado'
  <1>1. ASSUME NEW c \in Colas PROVE Respaldada(c)'
    <2>1. Reservan(c)' \subseteq Reservan(c)
      BY DEF Reservan
    <2> QED BY <2>1, RespaldoPorCola, ColaQuieta
  <1>2. (\A c \in Colas : Respaldada(c))'
    BY <1>1
  <1> QED BY <1>2, RespaldoPorCola, PTL

(* sem_wait(contador): a unit of the counter becomes a reservation.        *)
LEMMA RespaldoEsperar ==
    ASSUME TypeOK, TypeOK', ContadorRespaldado, NEW h \in Hilos, EsperarContador(h)
    PROVE  ContadorRespaldado'
  <1> USE DEF EsperarContador
  <1>0. /\ viaje[h].de \in Colas /\ pc[h] = "contador"
        /\ pc' = [pc EXCEPT ![h] = "evaluar2"] /\ viaje' = viaje
        /\ pc \in [Hilos -> Pasos] /\ contador \in [Colas -> Nat]
    BY DEF Salta, TypeOK, TipoHilos, TipoColas, Viajes
  <1>1. ASSUME NEW c \in Colas PROVE Respaldada(c)'
    <2>1. CASE c = viaje[h].de
      <3>1. Reservan(c)' = Reservan(c) \cup {h}
        BY <1>0, <2>1 DEF Reservan, Reserva
      <3>2. Cardinality(Reservan(c)') <= Cardinality(Reservan(c)) + 1
        <4>1. Cardinality(Reservan(c) \cup {h}) =
                IF h \in Reservan(c) THEN Cardinality(Reservan(c)) ELSE Cardinality(Reservan(c)) + 1
          BY ReservanFinito, FS_AddElement
        <4> QED BY <3>1, <4>1, ReservanFinito
      <3>3. contador'[c] = contador[c] - 1 /\ contador[c] \in Nat /\ colas' = colas
        BY <1>0, <2>1
      <3>4. Len(colas[c]) \in Nat
        BY DEF TypeOK, TipoColas
      <3>5. Respaldada(c)
        BY RespaldoPorCola
      <3> QED BY <3>2, <3>3, <3>4, <3>5, ReservanFinito DEF Respaldada
    <2>2. CASE c # viaje[h].de
      <3>1. Reservan(c)' \subseteq Reservan(c)
        BY <1>0, <2>2 DEF Reservan, Reserva
      <3>2. contador'[c] = contador[c] /\ colas'[c] = colas[c]
        BY <1>0, <2>2
      <3> QED BY <3>1, <3>2, RespaldoPorCola, ColaQuieta
    <2> QED BY <2>1, <2>2
  <1>2. (\A c \in Colas : Respaldada(c))'
    BY <1>1
  <1> QED BY <1>2, RespaldoPorCola, PTL

(* The removal: the reservation ends, and the list loses at most one PCB.  *)
LEMMA SacarUno ==
    ASSUME TypeOK, NEW h \in Hilos, Sacar(h), NEW c \in Colas
    PROVE  IF c = viaje[h].de THEN Len(colas'[c]) >= Len(colas[c]) - 1 ELSE colas'[c] = colas[c]
  <1>0. viaje[h].de \in Colas /\ colas \in [Colas -> Seq(PCB)]
    BY DEF TypeOK, TipoHilos, TipoColas, Viajes
  <1> DEFINE de == viaje[h].de
  <1>1. \/ colas' = colas
        \/ colas[de] # <<>> /\ colas' = [colas EXCEPT ![de] = Tail(@)]
        \/ \E i \in DOMAIN colas[de] : colas' = [colas EXCEPT ![de] = RemoveAt(@, i)]
    BY DEF Sacar, SacarPrimero, SacarBuscado
  <1>2. CASE c = de
    <2> DEFINE s == colas[de]
    <2>1. s \in Seq(PCB)
      BY <1>0
    <2>2. s # <<>> => Len(Tail(s)) = Len(s) - 1
      BY <2>1, PrimeroDeUnaLista
    <2>3. \A i \in DOMAIN s : Len(RemoveAt(s, i)) = Len(s) - 1
      BY <2>1, QuitarUno
    <2>4. \/ colas'[de] = s
          \/ s # <<>> /\ colas'[de] = Tail(s)
          \/ \E i \in DOMAIN s : colas'[de] = RemoveAt(s, i)
      BY <1>0, <1>1
    <2>5. Len(s) \in Nat
      BY <2>1
    <2> HIDE DEF s
    <2>6. Len(colas'[de]) >= Len(s) - 1
      BY <2>2, <2>3, <2>4, <2>5
    <2> QED BY <1>2, <2>6 DEF s
  <1>3. CASE c # de
    BY <1>0, <1>1, <1>3
  <1> QED BY <1>2, <1>3

LEMMA RespaldoSacar ==
    ASSUME TypeOK, TypeOK', ContadorRespaldado, NEW h \in Hilos, Sacar(h)
    PROVE  ContadorRespaldado'
  <1>0. /\ pc[h] = "sacar" /\ pc' = [pc EXCEPT ![h] = "evaluar3"] /\ viaje' = viaje
        /\ pc \in [Hilos -> Pasos] /\ contador' = contador
    BY DEF Sacar, Salta, TypeOK, TipoHilos
  <1>1. ASSUME NEW c \in Colas PROVE Respaldada(c)'
    <2>1. CASE c = viaje[h].de
      <3>1. Reservan(c)' = Reservan(c) \ {h} /\ h \in Reservan(c)
        BY <1>0, <2>1 DEF Reservan, Reserva
      <3>2. Cardinality(Reservan(c)') = Cardinality(Reservan(c)) - 1
        BY <3>1, ReservanFinito, FS_RemoveElement
      <3>3. Len(colas'[c]) >= Len(colas[c]) - 1
        BY <2>1, SacarUno
      <3>4. Len(colas[c]) \in Nat /\ Len(colas'[c]) \in Nat /\ contador[c] \in Nat
        BY DEF TypeOK, TipoColas
      <3>5. Respaldada(c)
        BY RespaldoPorCola
      <3> QED BY <1>0, <3>2, <3>3, <3>4, <3>5, ReservanFinito DEF Respaldada
    <2>2. CASE c # viaje[h].de
      <3>1. Reservan(c)' \subseteq Reservan(c)
        BY <1>0 DEF Reservan, Reserva
      <3>2. colas'[c] = colas[c]
        BY <2>2, SacarUno
      <3> QED BY <1>0, <3>1, <3>2, RespaldoPorCola, ColaQuieta
    <2> QED BY <2>1, <2>2
  <1>2. (\A c \in Colas : Respaldada(c))'
    BY <1>1
  <1> QED BY <1>2, RespaldoPorCola, PTL

(* A PCB and a unit enter a queue in the same step, and no thread reserves.*)
LEMMA ColaCrece ==
    ASSUME TypeOK, TypeOK', ContadorRespaldado, NEW a \in Colas, NEW x \in PCB,
           colas' = [colas EXCEPT ![a] = Append(@, x)],
           contador' = [contador EXCEPT ![a] = @ + 1],
           \A h \in Hilos, c \in Colas : Reserva(h, c)' => Reserva(h, c)
    PROVE  ContadorRespaldado'
  <1>1. ASSUME NEW c \in Colas PROVE Respaldada(c)'
    <2>0. /\ colas \in [Colas -> Seq(PCB)] /\ contador \in [Colas -> Nat]
          /\ Reservan(c)' \subseteq Reservan(c)
      BY DEF TypeOK, TipoColas, Reservan
    <2>1. CASE c = a
      <3>1. Cardinality(Reservan(c)') <= Cardinality(Reservan(c))
        BY <2>0, ReservanFinito, FS_Subset
      <3>2. Len(colas'[c]) = Len(colas[c]) + 1 /\ contador'[c] = contador[c] + 1
        BY <2>0, <2>1
      <3>3. Len(colas[c]) \in Nat /\ contador[c] \in Nat
        BY <2>0
      <3>4. Respaldada(c)
        BY RespaldoPorCola
      <3> QED BY <3>1, <3>2, <3>3, <3>4, ReservanFinito DEF Respaldada
    <2>2. CASE c # a
      <3>1. colas'[c] = colas[c] /\ contador'[c] = contador[c]
        BY <2>0, <2>2
      <3> QED BY <2>0, <3>1, RespaldoPorCola, ColaQuieta
    <2> QED BY <2>1, <2>2
  <1>2. (\A c \in Colas : Respaldada(c))'
    BY <1>1
  <1> QED BY <1>2, RespaldoPorCola, PTL

LEMMA RespaldoAgregar ==
    ASSUME TypeOK, TypeOK', ContadorRespaldado, NEW h \in Hilos, NEW s,
           AgregarAEstado(h, s), NEW l \in {"fin", "disparo"}, Salta(h, l)
    PROVE  ContadorRespaldado'
  <1> DEFINE a == viaje[h].a
  <1>1. a \in Colas /\ mano[h] \in PCB /\ pc \in [Hilos -> Pasos]
    BY DEF TypeOK, TipoHilos, Viajes
  <1>2. \A k \in Hilos, c \in Colas : Reserva(k, c)' => Reserva(k, c)
    BY <1>1 DEF Reserva, AgregarAEstado, Salta
  <1> QED BY <1>1, <1>2, ColaCrece DEF AgregarAEstado

LEMMA RespaldoTransicion ==
    ASSUME TypeOK, TypeOK', ContadorRespaldado, NEW h \in Hilos, TransicionGenerica(h)
    PROVE  ContadorRespaldado'
  <1>0. pc \in [Hilos -> Pasos]
    BY DEF TypeOK, TipoHilos
  <1>1. CASE EvaluarPlanificacion(h)
    <2>1. \A k \in Hilos, c \in Colas : Reserva(k, c)' => Reserva(k, c)
      BY <1>0, <1>1 DEF EvaluarPlanificacion, Evaluar, Salta, Reserva
    <2> QED BY <1>1, <2>1, SinReservasNuevas DEF EvaluarPlanificacion, Evaluar
  <1>2. CASE ReanudarPlanificacion(h)
    <2>1. \A k \in Hilos, c \in Colas : Reserva(k, c)' => Reserva(k, c)
      BY <1>0, <1>2 DEF ReanudarPlanificacion, Reanudar, Salta, Reserva
    <2> QED BY <1>2, <2>1, SinReservasNuevas DEF ReanudarPlanificacion, Reanudar
  <1> QED BY <1>1, <1>2, RespaldoEsperar, RespaldoSacar DEF TransicionGenerica

(* Threads that begin or end a transition hold no reservation.             *)
LEMMA SinReservaAlMoverse ==
    ASSUME TypeOK, NEW h \in Hilos,
           NEW l \in Pasos \ {"evaluar2", "pausa2", "sacar"}, Salta(h, l),
           \A k \in Hilos \ {h} : viaje'[k] = viaje[k]
    PROVE  \A k \in Hilos, c \in Colas : Reserva(k, c)' => Reserva(k, c)
  BY DEF Salta, Reserva, TypeOK, TipoHilos

LEMMA RespaldoInicial == Init => ContadorRespaldado
  <1> SUFFICES ASSUME Init, NEW c \in Colas PROVE Respaldada(c)
    BY RespaldoPorCola
  <1>1. Reservan(c) = {}
    BY DEF Init, Reservan, Reserva
  <1>2. contador[c] = 0 /\ Len(colas[c]) = 0
    BY DEF Init
  <1> QED BY <1>1, <1>2, FS_EmptySet DEF Respaldada

LEMMA RespaldoHilos ==
    ASSUME TypeOK, TypeOK', ContadorRespaldado,
           LargoPlazo \/ CortoPlazo \/ ExitLargoPlazo \/ ExecReady \/ ExecBlocked \/ BlockedReady
    PROVE  ContadorRespaldado'
  <1>0. /\ {"grado", "readys", "elegir", "evaluar1", "disparo", "quantum", "join", "timer",
             "timer2"} \subseteq Pasos \ {"evaluar2", "pausa2", "sacar"}
        /\ "largo" \in Hilos /\ "corto" \in Hilos /\ "exit_largo" \in Hilos
        /\ "exec_ready" \in Hilos /\ "exec_blocked" \in Hilos /\ "blocked_ready" \in Hilos
    BY DEF Pasos, Hilos
  <1>1. ASSUME NEW h \in Hilos, NEW s,
               NEW l \in Pasos \ {"evaluar2", "pausa2", "sacar"}, Disparo(h, s, l)
        PROVE  ContadorRespaldado'
    BY <1>1, SinReservaAlMoverse, SinReservasNuevas DEF Disparo
  <1>2. ASSUME NEW h \in Hilos, AgregarYSeguir(h)
        PROVE  ContadorRespaldado'
    BY <1>2, RespaldoAgregar DEF AgregarYSeguir
  <1>3. CASE LargoPlazo
    <2>1. CASE LargoDisparo
      BY <1>0, <1>1, <2>1 DEF LargoDisparo
    <2>2. CASE LargoGrado
      BY <1>0, <2>2, SinReservaAlMoverse, SinReservasNuevas DEF LargoGrado
    <2>3. CASE LargoAgregar
      BY <1>0, <2>3, RespaldoAgregar DEF LargoAgregar, Vuelve
    <2> QED BY <1>0, <1>3, <2>1, <2>2, <2>3, RespaldoTransicion DEF LargoPlazo
  <1>4. CASE ExitLargoPlazo
    <2>1. CASE ExitDisparo
      BY <1>0, <1>1, <2>1 DEF ExitDisparo
    <2>2. CASE ExitAgregar
      BY <1>0, <2>2, RespaldoAgregar DEF ExitAgregar, Vuelve
    <2> QED BY <1>0, <1>4, <2>1, <2>2, RespaldoTransicion DEF ExitLargoPlazo
  <1>5. CASE CortoPlazo
    <2>1. CASE CortoDisparo
      BY <1>0, <1>1, <2>1 DEF CortoDisparo
    <2>2. CASE CortoReadys
      <3>1. \A k \in Hilos \ {"corto"} : viaje'[k] = viaje[k]
        BY <2>2 DEF CortoReadys, TypeOK, TipoHilos
      <3> QED BY <1>0, <2>2, <3>1, SinReservaAlMoverse, SinReservasNuevas DEF CortoReadys
    <2>3. CASE CortoEnviar
      BY <1>0, <2>3, SinReservaAlMoverse, SinReservasNuevas DEF CortoEnviar, Vuelve
    <2>4. CASE CortoCrearQuantum
      BY <1>0, <2>4, SinReservaAlMoverse, SinReservasNuevas DEF CortoCrearQuantum
    <2>5. CASE CortoJoin
      BY <1>0, <2>5, SinReservaAlMoverse, SinReservasNuevas DEF CortoJoin, Vuelve
    <2>6. CASE CortoTimer
      BY <1>0, <2>6, SinReservaAlMoverse, SinReservasNuevas DEF CortoTimer, Vuelve
    <2> QED  BY <1>0, <1>2, <1>5, <2>1, <2>2, <2>3, <2>4, <2>5, <2>6, RespaldoTransicion
             DEF CortoPlazo
  <1>6. CASE ExecReady
    <2>1. CASE ExecReadyDisparo
      BY <1>0, <1>1, <2>1 DEF ExecReadyDisparo
    <2>2. CASE ExecReadyFin
      BY <1>0, <2>2, SinReservaAlMoverse, SinReservasNuevas DEF ExecReadyFin, Vuelve
    <2> QED BY <1>0, <1>2, <1>6, <2>1, <2>2, RespaldoTransicion DEF ExecReady
  <1>7. CASE ExecBlocked
    <2>1. CASE ExecBlockedDisparo
      BY <1>0, <2>1, SinReservaAlMoverse, SinReservasNuevas DEF ExecBlockedDisparo
    <2>2. CASE ExecBlockedFin
      BY <1>0, <2>2, SinReservaAlMoverse, SinReservasNuevas DEF ExecBlockedFin, Vuelve
    <2> QED BY <1>0, <1>2, <1>7, <2>1, <2>2, RespaldoTransicion DEF ExecBlocked
  <1>8. CASE BlockedReady
    <2>1. CASE BlockedReadyDisparo
      BY <1>0, <1>1, <2>1 DEF BlockedReadyDisparo
    <2>2. CASE BlockedReadyElegir
      <3>1. \A k \in Hilos \ {"blocked_ready"} : viaje'[k] = viaje[k]
        BY <2>2 DEF BlockedReadyElegir, TypeOK, TipoHilos
      <3> QED BY <1>0, <2>2, <3>1, SinReservaAlMoverse, SinReservasNuevas
              DEF BlockedReadyElegir
    <2>3. CASE BlockedReadyFin
      BY <1>0, <2>3, SinReservaAlMoverse, SinReservasNuevas DEF BlockedReadyFin, Vuelve
    <2> QED BY <1>0, <1>2, <1>8, <2>1, <2>2, <2>3, RespaldoTransicion DEF BlockedReady
  <1> QED BY <1>3, <1>4, <1>5, <1>6, <1>7, <1>8

LEMMA RespaldoInductivo ==
    TypeOK /\ TypeOK' /\ ContadorRespaldado /\ [Next]_vars => ContadorRespaldado'
  <1> SUFFICES ASSUME TypeOK, TypeOK', ContadorRespaldado, [Next]_vars
               PROVE  ContadorRespaldado'
    OBVIOUS
  <1>1. ASSUME UNCHANGED <<colas, contador, pc, viaje>> PROVE ContadorRespaldado'
    BY <1>1, SinReservasNuevas DEF Reserva
  <1>2. CASE IniciarPlanificacion \/ DetenerPlanificacion
    BY <1>1, <1>2 DEF IniciarPlanificacion, DetenerPlanificacion
  <1>3. ASSUME NEW p \in Procesos, IniciarProceso(p) PROVE ContadorRespaldado'
    <2>1. "NEW" \in Colas /\ p \in PCB
      BY DEF Colas, PCB
    <2>2. \A h \in Hilos, c \in Colas : Reserva(h, c)' => Reserva(h, c)
      BY <1>3 DEF IniciarProceso, Reserva
    <2> QED BY <1>3, <2>1, <2>2, ColaCrece DEF IniciarProceso
  <1>4. CASE QuantumVence
    BY <1>1, <1>4 DEF QuantumVence
  <1>5. CASE HiloDispatch
    BY <1>1, <1>5 DEF HiloDispatch, DsFinalizar, DsFinDeQuantum, DsInterfaz, DsInterfazCde
  <1>6. ASSUME NEW i \in Interfaces, InterfazConectada(i) PROVE ContadorRespaldado'
    BY <1>1, <1>6 DEF InterfazConectada, IoTomar, IoConcluir, IoAvisar
  <1>7. CASE CpuRecibir \/ CpuEjecutar \/ CheckInterrupt \/ CpuInterrupt
    BY <1>1, <1>7 DEF CpuRecibir, CpuEjecutar, CpuCalcular, CpuExit, CpuPedirIO,
       CheckInterrupt, CpuInterrupt, InterruptMirar, InterruptEsperar, InterruptRecibir
  <1>8. CASE UNCHANGED vars
    BY <1>1, <1>8 DEF vars
  <1> QED BY <1>2, <1>3, <1>4, <1>5, <1>6, <1>7, <1>8, RespaldoHilos DEF Next, Consola

(* A thread past sem_wait(contador) always finds its PCB in the queue,     *)
(* however the six threads interleave between the wait and the list_remove *)
(* of transicion_generica, and whatever pauses come between.               *)
THEOREM ContadorSiempreRespaldado == Spec => []ContadorRespaldado
  <1>1. TypeOK /\ ContadorRespaldado /\ [Next]_vars => (TypeOK /\ ContadorRespaldado)'
    BY TipoInductivo, RespaldoInductivo
  <1> QED BY <1>1, TipoInicial, RespaldoInicial, PTL DEF Spec

-----------------------------------------------------------------------------
(* Where the PCBs are.  Every step of the kernel leaves the lists and the  *)
(* hands of the threads alone, or takes one PCB out of a list, or appends  *)
(* one, or starts a process (FormaDelPaso); from that, a PCB is in one     *)
(* place only, the degree of multiprogramming is conserved, PCBs move along*)
(* the process-state diagram, and corto_plazo does not wait in vain.       *)

Esta(p, s) == \E i \in DOMAIN s : s[i] = p

SinRepetidos(s) == \A i, j \in DOMAIN s : s[i] = s[j] /\ s[i] \in Procesos => i = j

LEMMA AlAgregar ==
    ASSUME NEW s \in Seq(PCB), NEW x \in PCB
    PROVE  /\ \A p : Esta(p, Append(s, x)) <=> Esta(p, s) \/ p = x
           /\ SinRepetidos(s) /\ ~(x \in Procesos /\ Esta(x, s)) => SinRepetidos(Append(s, x))
  <1> DEFINE t == Append(s, x)
  <1>1. /\ DOMAIN s = 1..Len(s) /\ Len(s) \in Nat
        /\ DOMAIN t = 1..(Len(s) + 1)
        /\ \A i \in 1..Len(s) : t[i] = s[i]
        /\ t[Len(s) + 1] = x
    OBVIOUS
  <1> HIDE DEF t
  <1>2. \A p : Esta(p, t) <=> Esta(p, s) \/ p = x
    BY <1>1 DEF Esta
  <1>3. ASSUME SinRepetidos(s), ~(x \in Procesos /\ Esta(x, s)) PROVE SinRepetidos(t)
    BY <1>1, <1>3 DEF SinRepetidos, Esta
  <1> QED BY <1>2, <1>3 DEF t

(* A list t that is s without its entry k.                                 *)
SinEntrada(s, k, t) ==
    /\ Len(t) = Len(s) - 1
    /\ \A i \in 1..Len(t) : t[i] = IF i < k THEN s[i] ELSE s[i + 1]

LEMMA AlQuitar ==
    ASSUME NEW s \in Seq(PCB), NEW k \in DOMAIN s, NEW t \in Seq(PCB), SinEntrada(s, k, t)
    PROVE  /\ \A p : Esta(p, t) => Esta(p, s)
           /\ \A p : Esta(p, s) => Esta(p, t) \/ p = s[k]
           /\ SinRepetidos(s) => SinRepetidos(t)
           /\ SinRepetidos(s) /\ s[k] \in Procesos => ~Esta(s[k], t)
  <1>1. /\ Len(s) \in Nat /\ DOMAIN s = 1..Len(s) /\ DOMAIN t = 1..Len(t)
        /\ Len(t) = Len(s) - 1 /\ k \in 1..Len(s)
        /\ \A i \in 1..Len(t) : t[i] = IF i < k THEN s[i] ELSE s[i + 1]
    BY DEF SinEntrada
  <1>2. \A p : Esta(p, t) => Esta(p, s)
    BY <1>1 DEF Esta
  <1>3. ASSUME NEW p, Esta(p, s) PROVE Esta(p, t) \/ p = s[k]
    <2>1. PICK i \in 1..Len(s) : s[i] = p
      BY <1>1, <1>3 DEF Esta
    <2>2. CASE i < k
      BY <1>1, <2>1, <2>2 DEF Esta
    <2>3. CASE i > k
      <3>1. i - 1 \in 1..Len(t) /\ t[i - 1] = s[(i - 1) + 1] /\ (i - 1) + 1 = i
        BY <1>1, <2>1, <2>3
      <3> QED BY <1>1, <2>1, <3>1 DEF Esta
    <2> QED BY <1>1, <2>1, <2>2, <2>3
  <1>4. SinRepetidos(s) => SinRepetidos(t)
    <2> SUFFICES ASSUME SinRepetidos(s), NEW i \in 1..Len(t), NEW j \in 1..Len(t),
                        t[i] = t[j], t[i] \in Procesos
                 PROVE  i = j
      BY <1>1 DEF SinRepetidos
    <2> DEFINE n(x) == IF x < k THEN x ELSE x + 1
    <2>1. n(i) \in DOMAIN s /\ n(j) \in DOMAIN s /\ s[n(i)] = t[i] /\ s[n(j)] = t[j]
      BY <1>1
    <2>2. n(i) = n(j)
      BY <2>1 DEF SinRepetidos
    <2> QED BY <1>1, <2>2
  <1>5. SinRepetidos(s) /\ s[k] \in Procesos => ~Esta(s[k], t)
    BY <1>1 DEF SinRepetidos, Esta
  <1> QED BY <1>2, <1>3, <1>4, <1>5

LEMMA QuitaElPrimero ==
    ASSUME NEW s \in Seq(PCB), s # <<>>
    PROVE  1 \in DOMAIN s /\ Head(s) = s[1] /\ Tail(s) \in Seq(PCB) /\ SinEntrada(s, 1, Tail(s))
  BY DEF SinEntrada

LEMMA QuitaEl ==
    ASSUME NEW s \in Seq(PCB), NEW k \in DOMAIN s
    PROVE  RemoveAt(s, k) \in Seq(PCB) /\ SinEntrada(s, k, RemoveAt(s, k))
  <1> DEFINE a == SubSeq(s, 1, k - 1)
             b == SubSeq(s, k + 1, Len(s))
  <1>1. Len(s) \in Nat /\ k \in 1..Len(s) /\ DOMAIN s = 1..Len(s)
    OBVIOUS
  <1>2. a \in Seq(PCB) /\ Len(a) = k - 1 /\ \A i \in 1..(k - 1) : a[i] = s[i]
    BY <1>1
  <1>3. b \in Seq(PCB) /\ Len(b) = Len(s) - k /\ \A i \in 1..(Len(s) - k) : b[i] = s[i + k]
    BY <1>1
  <1>4. RemoveAt(s, k) = a \o b
    BY DEF RemoveAt
  <1> HIDE DEF a, b
  <1>5. /\ Len(a \o b) = Len(s) - 1
        /\ \A i \in 1..(Len(s) - 1) : (a \o b)[i] = IF i <= k - 1 THEN a[i] ELSE b[i - (k - 1)]
    <2>1. /\ Len(a \o b) = Len(a) + Len(b)
          /\ \A i \in 1..(Len(a) + Len(b)) :
                (a \o b)[i] = IF i <= Len(a) THEN a[i] ELSE b[i - Len(a)]
      BY <1>2, <1>3, ConcatProperties
    <2>2. Len(a) = k - 1 /\ Len(a) + Len(b) = Len(s) - 1
      BY <1>1, <1>2, <1>3
    <2> QED BY <2>1, <2>2
  <1>6. ASSUME NEW i \in 1..(Len(s) - 1)
        PROVE  (a \o b)[i] = IF i < k THEN s[i] ELSE s[i + 1]
    <2>1. CASE i < k
      BY <1>1, <1>2, <1>5, <2>1
    <2>2. CASE ~(i < k)
      <3>1. i - (k - 1) \in 1..(Len(s) - k) /\ (i - (k - 1)) + k = i + 1
        BY <1>1, <2>2
      <3>2. (a \o b)[i] = b[i - (k - 1)]
        BY <1>1, <1>5, <2>2
      <3>3. b[i - (k - 1)] = s[(i - (k - 1)) + k]
        BY <1>3, <3>1
      <3> QED BY <2>2, <3>1, <3>2, <3>3
    <2> QED BY <2>1, <2>2
  <1> QED BY <1>1, <1>4, <1>5, <1>6, QuitarUno DEF SinEntrada

-----------------------------------------------------------------------------
(* The form of a step.                                                     *)

(* The transition each thread is on: planificar_por_vrr chooses the queue  *)
(* corto_plazo empties, transicion_blocked_ready the one it fills.         *)
Rutas ==
    /\ \A h \in {"largo", "exit_largo", "exec_ready", "exec_blocked"} :
          viaje[h].de = Trayectos[h].de /\ viaje[h].a = Trayectos[h].a
    /\ viaje["corto"].de \in {"READY", "READY+"} /\ viaje["corto"].a = "EXEC"
    /\ viaje["blocked_ready"].de = "BLOCK" /\ viaje["blocked_ready"].a \in {"READY", "READY+"}

Admitiendo == pc["largo"] \notin {"disparo", "grado"}

(* Neither the lists nor what the threads hold change, and a unit of GRADO *)
(* that is taken is held by largo_plazo.                                   *)
Quieta ==
    /\ colas' = colas
    /\ \A h \in Hilos :
          /\ Sostiene(h)' <=> Sostiene(h)
          /\ Sostiene(h) => mano'[h] = mano[h] /\ viaje'[h] = viaje[h]
    /\ sem'["GRADO"] + Uno(Admitiendo)' = sem["GRADO"] + Uno(Admitiendo)

(* The thread h takes x, the entry k of its list, or finds nothing.        *)
Saca(h) ==
    /\ pc[h] = "sacar" /\ pc' = [pc EXCEPT ![h] = "evaluar3"]
    /\ viaje' = viaje /\ sem' = sem
    /\ \/ colas' = colas /\ mano' = [mano EXCEPT ![h] = NULO]
       \/ \E k \in DOMAIN colas[viaje[h].de], t \in Seq(PCB) :
             /\ SinEntrada(colas[viaje[h].de], k, t)
             /\ colas' = [colas EXCEPT ![viaje[h].de] = t]
             /\ mano' = [mano EXCEPT ![h] = colas[viaje[h].de][k]]

(* The thread h appends what it holds.                                     *)
Agrega(h) ==
    /\ pc[h] = "agregar" /\ viaje' = viaje
    /\ colas' = [colas EXCEPT ![viaje[h].a] = Append(@, mano[h])]
    /\ \A k \in Hilos \ {h} : pc'[k] = pc[k] /\ mano'[k] = mano[k]
    /\ pc'[h] = IF h \in {"largo", "exit_largo"} THEN "disparo" ELSE "fin"
    /\ sem'["GRADO"] = sem["GRADO"] + Uno(h = "exit_largo")

LEMMA RutasIniciales == Init => Rutas
  BY DEF Init, Rutas, ViajeDe, Trayectos, Viaje, Hilos

LEMMA RutasInductivas == TypeOK /\ Rutas /\ [Next]_vars => Rutas'
  <1> SUFFICES ASSUME TypeOK, Rutas, [Next]_vars PROVE Rutas'
    OBVIOUS
  <1>1. viaje \in [Hilos -> Viajes] /\ Hilos = {"largo", "corto", "exit_largo", "exec_ready",
                                                "exec_blocked", "blocked_ready"}
    BY DEF TypeOK, TipoHilos, Hilos
  <1>2. CASE viaje' = viaje
    BY <1>2 DEF Rutas
  <1>3. CASE CortoReadys
    <2>1. viaje' = [viaje EXCEPT !["corto"].de = IF contador["READY+"] > 0 THEN "READY+" ELSE "READY"]
      BY <1>3 DEF CortoReadys
    <2> QED BY <1>1, <2>1 DEF Rutas, Viajes
  <1>4. CASE BlockedReadyElegir
    <2>1. viaje' = [viaje EXCEPT !["blocked_ready"] =
                      Viaje("BLOCK", IF Algoritmo = "VRR" /\ ~excedido THEN "READY+" ELSE "READY",
                            vieneDeIO)]
      BY <1>4 DEF BlockedReadyElegir
    <2> QED BY <1>1, <2>1 DEF Rutas, Viaje
  <1>5. viaje' = viaje \/ CortoReadys \/ BlockedReadyElegir
    <2>1. ASSUME NEW h, TransicionGenerica(h) PROVE viaje' = viaje
      BY <2>1 DEF TransicionGenerica, EvaluarPlanificacion, Evaluar, ReanudarPlanificacion,
                  Reanudar, EsperarContador, Sacar
    <2>2. ASSUME NEW h, AgregarYSeguir(h) PROVE viaje' = viaje
      BY <2>2 DEF AgregarYSeguir, AgregarAEstado
    <2>3. Consola \/ QuantumVence \/ HiloDispatch => viaje' = viaje
      BY DEF Consola, IniciarPlanificacion, DetenerPlanificacion, IniciarProceso, QuantumVence,
             HiloDispatch, DsFinalizar, DsFinDeQuantum, DsInterfaz, DsInterfazCde
    <2>4. (\E i \in Interfaces : InterfazConectada(i)) => viaje' = viaje
      BY DEF InterfazConectada, IoTomar, IoConcluir, IoAvisar
    <2>5. CpuRecibir \/ CpuEjecutar \/ CheckInterrupt \/ CpuInterrupt => viaje' = viaje
      BY DEF CpuRecibir, CpuEjecutar, CpuCalcular, CpuExit, CpuPedirIO, CheckInterrupt,
             CpuInterrupt, InterruptMirar, InterruptEsperar, InterruptRecibir
    <2>6. LargoPlazo \/ ExitLargoPlazo => viaje' = viaje
      BY <2>1 DEF LargoPlazo, LargoDisparo, Disparo, LargoGrado, LargoAgregar, AgregarAEstado,
                  ExitLargoPlazo, ExitDisparo, ExitAgregar
    <2>7. CortoPlazo => viaje' = viaje \/ CortoReadys
      BY <2>1, <2>2 DEF CortoPlazo, CortoDisparo, Disparo, CortoEnviar, CortoCrearQuantum,
                        CortoJoin, CortoTimer
    <2>8. ExecReady \/ ExecBlocked => viaje' = viaje
      BY <2>1, <2>2 DEF ExecReady, ExecReadyDisparo, Disparo, ExecReadyFin, ExecBlocked,
                        ExecBlockedDisparo, ExecBlockedFin
    <2>9. BlockedReady => viaje' = viaje \/ BlockedReadyElegir
      BY <2>1, <2>2 DEF BlockedReady, BlockedReadyDisparo, Disparo, BlockedReadyFin
    <2>10. UNCHANGED vars => viaje' = viaje
      BY DEF vars
    <2> QED BY <2>3, <2>4, <2>5, <2>6, <2>7, <2>8, <2>9, <2>10 DEF Next
  <1> QED BY <1>2, <1>3, <1>4, <1>5

(* A thread that is not handling a PCB goes on to another such place.      *)
LEMMA SinPCB ==
    ASSUME TypeOK, NEW h \in Hilos, colas' = colas,
           NEW l \in Pasos \ {"evaluar3", "pausa3", "agregar"}, Salta(h, l), ~Sostiene(h),
           \A k \in Hilos \ {h} : mano'[k] = mano[k] /\ viaje'[k] = viaje[k],
           sem'["GRADO"] + Uno(Admitiendo)' = sem["GRADO"] + Uno(Admitiendo)
    PROVE  Quieta
  <1>1. pc \in [Hilos -> Pasos] /\ pc' = [pc EXCEPT ![h] = l]
    BY DEF TypeOK, TipoHilos, Salta
  <1> QED BY <1>1 DEF Quieta, Sostiene

(* A step that touches neither lists nor threads.                          *)
LEMMA SinHilos ==
    ASSUME UNCHANGED <<colas, pc, mano, viaje>>, sem'["GRADO"] = sem["GRADO"]
    PROVE  Quieta
  BY DEF Quieta, Sostiene, Admitiendo, Uno

(* A thread goes on within its transition, holding a PCB or not as before. *)
LEMMA MismaMano ==
    ASSUME TypeOK, NEW h \in Hilos, UNCHANGED <<colas, mano, viaje, sem>>,
           NEW l \in Pasos \ {"disparo", "grado"}, Salta(h, l), pc[h] \notin {"disparo", "grado"},
           l \in {"evaluar3", "pausa3", "agregar"} <=> Sostiene(h)
    PROVE  Quieta
  <1>1. pc \in [Hilos -> Pasos] /\ pc' = [pc EXCEPT ![h] = l]
    BY DEF TypeOK, TipoHilos, Salta
  <1>2. \A k \in Hilos : Sostiene(k)' <=> Sostiene(k)
    BY <1>1 DEF Sostiene
  <1>3. Admitiendo' <=> Admitiendo
    BY <1>1 DEF Admitiendo
  <1> QED BY <1>2, <1>3 DEF Quieta, Uno

LEMMA FormaTransicion ==
    ASSUME TypeOK, NEW h \in Hilos, TransicionGenerica(h)
    PROVE  Quieta \/ Saca(h)
  <1>0. /\ pc \in [Hilos -> Pasos] /\ viaje[h].de \in Colas
        /\ mano \in [Hilos -> PCB] /\ colas \in [Colas -> Seq(PCB)]
    BY DEF TypeOK, TipoHilos, TipoColas, Viajes
  <1>1. CASE EvaluarPlanificacion(h)
    <2>1. PICK l \in Pasos \ {"disparo", "grado"} :
             Salta(h, l) /\ pc[h] \notin {"disparo", "grado"}
             /\ (l \in {"evaluar3", "pausa3", "agregar"} <=> Sostiene(h))
      BY <1>1 DEF EvaluarPlanificacion, Evaluar, Pasos, Sostiene
    <2> QED BY <1>1, <2>1, MismaMano DEF EvaluarPlanificacion, Evaluar
  <1>2. CASE ReanudarPlanificacion(h)
    <2>1. PICK l \in Pasos \ {"disparo", "grado"} :
             Salta(h, l) /\ pc[h] \notin {"disparo", "grado"}
             /\ (l \in {"evaluar3", "pausa3", "agregar"} <=> Sostiene(h))
      BY <1>2 DEF ReanudarPlanificacion, Reanudar, Pasos, Sostiene
    <2> QED BY <1>2, <2>1, MismaMano DEF ReanudarPlanificacion, Reanudar
  <1>3. CASE EsperarContador(h)
    BY <1>0, <1>3 DEF EsperarContador, Salta, Quieta, Sostiene, Admitiendo, Uno
  <1>4. CASE Sacar(h)
    <2> DEFINE s == colas[viaje[h].de]
    <2>0. s \in Seq(PCB)
      BY <1>0
    <2>1. CASE SacarPrimero(h) /\ s # <<>>
      <3>1. 1 \in DOMAIN s /\ Head(s) = s[1] /\ Tail(s) \in Seq(PCB) /\ SinEntrada(s, 1, Tail(s))
        BY <2>0, <2>1, QuitaElPrimero
      <3>2. colas' = [colas EXCEPT ![viaje[h].de] = Tail(s)] /\ mano' = [mano EXCEPT ![h] = s[1]]
        BY <2>1, <3>1 DEF SacarPrimero
      <3> HIDE DEF s
      <3>3. \E k \in DOMAIN s, t \in Seq(PCB) :
               SinEntrada(s, k, t) /\ colas' = [colas EXCEPT ![viaje[h].de] = t]
               /\ mano' = [mano EXCEPT ![h] = s[k]]
        BY <3>1, <3>2
      <3> QED BY <1>4, <3>3 DEF Sacar, Salta, Saca, s
    <2>2. CASE SacarPrimero(h) /\ s = <<>>
      BY <1>4, <2>2 DEF Sacar, Salta, SacarPrimero, Saca
    <2>3. CASE SacarBuscado(h)
      <3>1. CASE colas' = colas /\ mano' = [mano EXCEPT ![h] = NULO]
        BY <1>4, <3>1 DEF Sacar, Salta, Saca
      <3>2. ASSUME NEW k \in DOMAIN s, mano' = [mano EXCEPT ![h] = s[k]],
                   colas' = [colas EXCEPT ![viaje[h].de] = RemoveAt(@, k)]
            PROVE  Saca(h)
        <4>1. RemoveAt(s, k) \in Seq(PCB) /\ SinEntrada(s, k, RemoveAt(s, k))
          BY <2>0, QuitaEl
        <4>2. colas' = [colas EXCEPT ![viaje[h].de] = RemoveAt(s, k)]
          BY <3>2
        <4> DEFINE r == RemoveAt(s, k)
        <4>3. r \in Seq(PCB) /\ SinEntrada(s, k, r) /\ colas' = [colas EXCEPT ![viaje[h].de] = r]
          BY <4>1, <4>2
        <4> HIDE DEF s, r
        <4>4. \E j \in DOMAIN s, t \in Seq(PCB) :
               SinEntrada(s, j, t) /\ colas' = [colas EXCEPT ![viaje[h].de] = t]
               /\ mano' = [mano EXCEPT ![h] = s[j]]
          BY <3>2, <4>3
        <4> QED BY <1>4, <4>4 DEF Sacar, Salta, Saca, s
      <3> QED BY <2>3, <3>1, <3>2 DEF SacarBuscado
    <2> QED BY <1>4, <2>1, <2>2, <2>3 DEF Sacar
  <1> QED BY <1>1, <1>2, <1>3, <1>4 DEF TransicionGenerica

LEMMA FormaAgregar ==
    ASSUME TypeOK, NEW h \in Hilos, NEW s, AgregarAEstado(h, s),
           \/ h = "largo" /\ Vuelve(h) /\ s = PostReadys(sem)
           \/ h = "exit_largo" /\ Vuelve(h)
              /\ s = [sem EXCEPT !["GRADO"] = @ + 1, !["exec_libre"] = @ + 1]
           \/ h \notin {"largo", "exit_largo"} /\ Salta(h, "fin") /\ UNCHANGED mano /\ s = sem
    PROVE  Agrega(h)
  <1>1. /\ pc \in [Hilos -> Pasos] /\ mano \in [Hilos -> PCB] /\ sem \in [Semaforos -> Nat]
        /\ "GRADO" \in Semaforos /\ "readys" \in Semaforos /\ "exec_libre" \in Semaforos
    BY DEF TypeOK, TipoHilos, Semaforos
  <1>2. sem'["GRADO"] = sem["GRADO"] + Uno(h = "exit_largo")
    BY <1>1 DEF AgregarAEstado, PostReadys, Uno
  <1>3. /\ \A k \in Hilos \ {h} : pc'[k] = pc[k] /\ mano'[k] = mano[k]
        /\ pc'[h] = IF h \in {"largo", "exit_largo"} THEN "disparo" ELSE "fin"
    BY <1>1 DEF Vuelve, Salta
  <1> QED BY <1>2, <1>3 DEF AgregarAEstado, Agrega

LEMMA FormaHilos ==
    ASSUME TypeOK,
           LargoPlazo \/ CortoPlazo \/ ExitLargoPlazo \/ ExecReady \/ ExecBlocked \/ BlockedReady
    PROVE  Quieta \/ \E h \in Hilos : Saca(h) \/ Agrega(h)
  <1>0. /\ {"grado", "readys", "elegir", "evaluar1", "disparo", "quantum", "join", "timer",
             "timer2"} \subseteq Pasos \ {"evaluar3", "pausa3", "agregar"}
        /\ "largo" \in Hilos /\ "corto" \in Hilos /\ "exit_largo" \in Hilos
        /\ "exec_ready" \in Hilos /\ "exec_blocked" \in Hilos /\ "blocked_ready" \in Hilos
        /\ pc \in [Hilos -> Pasos] /\ mano \in [Hilos -> PCB] /\ viaje \in [Hilos -> Viajes]
        /\ sem \in [Semaforos -> Nat]
        /\ {"GRADO", "en_new", "exec_libre", "readys", "t_exit_largo", "t_exec_ready",
            "t_exec_blocked", "t_blocked_ready"} = Semaforos
    BY DEF Pasos, Hilos, Semaforos, TypeOK, TipoHilos
  <1>1. ASSUME NEW h \in Hilos, NEW s \in Semaforos \ {"GRADO"},
               NEW l \in Pasos \ {"evaluar3", "pausa3", "agregar"}, Disparo(h, s, l),
               h = "largo" => l = "grado"
        PROVE  Quieta
    <2>1. ~Sostiene(h) /\ Salta(h, l) /\ sem'["GRADO"] = sem["GRADO"]
      BY <1>0, <1>1 DEF Disparo, Sostiene
    <2>2. Admitiendo' <=> Admitiendo
      BY <1>0, <1>1 DEF Disparo, Salta, Admitiendo
    <2> QED BY <1>1, <2>1, <2>2, SinPCB DEF Disparo, Uno
  <1>2. ASSUME NEW h \in Hilos \ {"largo", "exit_largo"}, AgregarYSeguir(h)
        PROVE  Agrega(h)
    BY <1>2, FormaAgregar DEF AgregarYSeguir
  <1>3. ASSUME NEW h \in Hilos \ {"largo"}, ~Sostiene(h),
               NEW l \in Pasos \ {"evaluar3", "pausa3", "agregar"}, Salta(h, l), colas' = colas,
               \A k \in Hilos \ {h} : mano'[k] = mano[k] /\ viaje'[k] = viaje[k],
               sem'["GRADO"] = sem["GRADO"]
        PROVE  Quieta
    <2>1. Admitiendo' <=> Admitiendo
      BY <1>0, <1>3 DEF Salta, Admitiendo
    <2> QED BY <1>3, <2>1, SinPCB DEF Uno
  <1>4. CASE LargoPlazo
    <2>1. CASE LargoDisparo
      BY <1>0, <1>1, <2>1 DEF LargoDisparo
    <2>2. CASE LargoGrado
      <3>1. /\ sem["GRADO"] > 0 /\ sem["GRADO"] \in Nat /\ sem'["GRADO"] = sem["GRADO"] - 1
            /\ ~Admitiendo /\ Admitiendo' /\ ~Sostiene("largo")
        BY <1>0, <2>2 DEF LargoGrado, Salta, Admitiendo, Sostiene
      <3>2. sem'["GRADO"] + Uno(Admitiendo)' = sem["GRADO"] + Uno(Admitiendo)
        BY <3>1 DEF Uno
      <3> QED BY <1>0, <2>2, <3>1, <3>2, SinPCB DEF LargoGrado
    <2>3. CASE LargoAgregar
      BY <1>0, <2>3, FormaAgregar DEF LargoAgregar
    <2> QED BY <1>0, <1>4, <2>1, <2>2, <2>3, FormaTransicion DEF LargoPlazo
  <1>5. CASE ExitLargoPlazo
    <2>1. CASE ExitDisparo
      BY <1>0, <1>1, <2>1 DEF ExitDisparo
    <2>2. CASE ExitAgregar
      BY <1>0, <2>2, FormaAgregar DEF ExitAgregar
    <2> QED BY <1>0, <1>5, <2>1, <2>2, FormaTransicion DEF ExitLargoPlazo
  <1>6. CASE CortoPlazo
    <2>1. CASE CortoDisparo
      BY <1>0, <1>1, <2>1 DEF CortoDisparo
    <2>2. CASE CortoReadys
      BY <1>0, <1>3, <2>2 DEF CortoReadys, Sostiene
    <2>3. CASE CortoEnviar
      BY <1>0, <1>3, <2>3 DEF CortoEnviar, Vuelve, Sostiene
    <2>4. CASE CortoCrearQuantum
      BY <1>0, <1>3, <2>4 DEF CortoCrearQuantum, Sostiene
    <2>5. CASE CortoJoin
      BY <1>0, <1>3, <2>5 DEF CortoJoin, Vuelve, Sostiene
    <2>6. CASE CortoTimer
      BY <1>0, <1>3, <2>6 DEF CortoTimer, Vuelve, Sostiene
    <2> QED  BY <1>0, <1>2, <1>6, <2>1, <2>2, <2>3, <2>4, <2>5, <2>6, FormaTransicion
             DEF CortoPlazo
  <1>7. CASE ExecReady
    <2>1. CASE ExecReadyDisparo
      BY <1>0, <1>1, <2>1 DEF ExecReadyDisparo
    <2>2. CASE ExecReadyFin
      BY <1>0, <1>3, <2>2 DEF ExecReadyFin, PostReadys, Vuelve, Sostiene
    <2> QED BY <1>0, <1>2, <1>7, <2>1, <2>2, FormaTransicion DEF ExecReady
  <1>8. CASE ExecBlocked
    <2>1. CASE ExecBlockedDisparo
      BY <1>0, <1>3, <2>1 DEF ExecBlockedDisparo, Sostiene
    <2>2. CASE ExecBlockedFin
      BY <1>0, <1>3, <2>2 DEF ExecBlockedFin, Vuelve, Sostiene
    <2> QED BY <1>0, <1>2, <1>8, <2>1, <2>2, FormaTransicion DEF ExecBlocked
  <1>9. CASE BlockedReady
    <2>1. CASE BlockedReadyDisparo
      BY <1>0, <1>1, <2>1 DEF BlockedReadyDisparo
    <2>2. CASE BlockedReadyElegir
      BY <1>0, <1>3, <2>2 DEF BlockedReadyElegir, Sostiene
    <2>3. CASE BlockedReadyFin
      BY <1>0, <1>3, <2>3 DEF BlockedReadyFin, PostReadys, Vuelve, Sostiene
    <2> QED BY <1>0, <1>2, <1>9, <2>1, <2>2, <2>3, FormaTransicion DEF BlockedReady
  <1> QED BY <1>4, <1>5, <1>6, <1>7, <1>8, <1>9

(* Every step is one of four things to the lists and to the threads' hands.*)
LEMMA FormaDelPaso ==
    ASSUME TypeOK, [Next]_vars
    PROVE  \/ Quieta
           \/ \E h \in Hilos : Saca(h) \/ Agrega(h)
           \/ \E p \in Procesos : IniciarProceso(p)
  <1>0. sem \in [Semaforos -> Nat] /\ "GRADO" \in Semaforos
        /\ {"t_exit_largo", "t_exec_ready", "t_exec_blocked", "t_blocked_ready"} \subseteq Semaforos
    BY DEF Semaforos, TypeOK, TipoHilos
  <1>1. CASE IniciarPlanificacion \/ DetenerPlanificacion
    BY <1>1, SinHilos DEF IniciarPlanificacion, DetenerPlanificacion
  <1>2. CASE QuantumVence
    BY <1>2, SinHilos DEF QuantumVence
  <1>3. CASE HiloDispatch
    BY <1>0, <1>3, SinHilos DEF HiloDispatch, DsFinalizar, DsFinDeQuantum, DsInterfaz, DsInterfazCde
  <1>4. ASSUME NEW i \in Interfaces, InterfazConectada(i) PROVE Quieta
    BY <1>0, <1>4, SinHilos DEF InterfazConectada, IoTomar, IoConcluir, IoAvisar
  <1>5. CASE CpuRecibir \/ CpuEjecutar \/ CheckInterrupt \/ CpuInterrupt
    BY <1>5, SinHilos DEF CpuRecibir, CpuEjecutar, CpuCalcular, CpuExit, CpuPedirIO,
       CheckInterrupt, CpuInterrupt, InterruptMirar, InterruptEsperar, InterruptRecibir
  <1>6. CASE UNCHANGED vars
    BY <1>6, SinHilos DEF vars
  <1> QED BY <1>1, <1>2, <1>3, <1>4, <1>5, <1>6, FormaHilos DEF Next, Consola

-----------------------------------------------------------------------------
(* One place for each PCB.                                                 *)

EnCola(p, c) == Esta(p, colas[c])
EnMano(p, h) == Sostiene(h) /\ mano[h] = p
UnaVez(c) == SinRepetidos(colas[c])

Custodia ==
    /\ \A c \in Colas : UnaVez(c)
    /\ \A p \in Procesos, c, d \in Colas : EnCola(p, c) /\ EnCola(p, d) => c = d
    /\ \A p \in Procesos, c \in Colas, h \in Hilos : ~(EnCola(p, c) /\ EnMano(p, h))
    /\ \A p \in Procesos, h, k \in Hilos : EnMano(p, h) /\ EnMano(p, k) => h = k

(* What each form of step does to the places of the PCBs.                  *)
LEMMA LugaresQuieta ==
    ASSUME Quieta
    PROVE  /\ \A p, c : EnCola(p, c)' <=> EnCola(p, c)
           /\ \A p : \A h \in Hilos : EnMano(p, h)' <=> EnMano(p, h)
  BY DEF Quieta, EnCola, EnMano

LEMMA LugaresSaca ==
    ASSUME TypeOK, Custodia, NEW h \in Hilos, Saca(h),
           NEW de \in Colas, de = viaje[h].de, NEW x \in PCB, x = mano'[h]
    PROVE  /\ \A c \in Colas : UnaVez(c)'
           /\ \A p : \A c \in Colas \ {de} : EnCola(p, c)' <=> EnCola(p, c)
           /\ \A p : \A j \in Hilos \ {h} : EnMano(p, j)' <=> EnMano(p, j)
           /\ \A p : ~EnMano(p, h) /\ (EnMano(p, h)' <=> p = x)
           /\ x \in Procesos => EnCola(x, de)
           /\ \A p \in Procesos : EnCola(p, de)' <=> EnCola(p, de) /\ p # x
           /\ \A p : EnCola(p, de) => EnCola(p, de)' \/ p = x
  <1>0. /\ pc \in [Hilos -> Pasos] /\ mano \in [Hilos -> PCB]
        /\ colas \in [Colas -> Seq(PCB)]
    BY DEF TypeOK, TipoHilos, TipoColas
  <1> DEFINE s == colas[de]
  <1>1. /\ \A p : \A j \in Hilos \ {h} : EnMano(p, j)' <=> EnMano(p, j)
        /\ \A p : ~EnMano(p, h) /\ (EnMano(p, h)' <=> p = x)
    BY <1>0 DEF Saca, Sostiene, EnMano
  <1>2. CASE colas' = colas /\ mano' = [mano EXCEPT ![h] = NULO]
    <2>1. \A c \in Colas : UnaVez(c)'
      BY <1>2 DEF Custodia, UnaVez
    <2>2. \A p, c : EnCola(p, c)' <=> EnCola(p, c)
      BY <1>2 DEF EnCola
    <2>3. x = NULO
      BY <1>0, <1>2
    <2> QED BY <1>1, <2>1, <2>2, <2>3, NuloAssumption
  <1>3. ASSUME NEW k \in DOMAIN s, NEW t \in Seq(PCB), SinEntrada(s, k, t),
               colas' = [colas EXCEPT ![de] = t], mano' = [mano EXCEPT ![h] = s[k]]
        PROVE  /\ \A c \in Colas : UnaVez(c)'
               /\ \A p : \A c \in Colas \ {de} : EnCola(p, c)' <=> EnCola(p, c)
               /\ x \in Procesos => EnCola(x, de)
               /\ \A p \in Procesos : EnCola(p, de)' <=> EnCola(p, de) /\ p # x
               /\ \A p : EnCola(p, de) => EnCola(p, de)' \/ p = x
    <2>1. s \in Seq(PCB) /\ SinRepetidos(s)
      BY <1>0 DEF Custodia, UnaVez
    <2>2. colas'[de] = t /\ x = s[k] /\ \A c \in Colas \ {de} : colas'[c] = colas[c]
      BY <1>0, <1>3
    <2> HIDE DEF s
    <2>3. /\ \A p : Esta(p, t) => Esta(p, s)
          /\ \A p : Esta(p, s) => Esta(p, t) \/ p = s[k]
          /\ SinRepetidos(t)
          /\ s[k] \in Procesos => ~Esta(s[k], t)
      BY <1>3, <2>1, AlQuitar
    <2>4. \A c \in Colas : UnaVez(c)'
      BY <2>2, <2>3 DEF Custodia, UnaVez
    <2>5. Esta(s[k], s)
      BY DEF Esta
    <2>6. \A p \in Procesos : Esta(p, t) <=> Esta(p, s) /\ p # x
      BY <2>2, <2>3
    <2>9. \A p : Esta(p, s) => Esta(p, t) \/ p = x
      BY <2>2, <2>3
    <2>7. \A p : (EnCola(p, de)' <=> Esta(p, t)) /\ (EnCola(p, de) <=> Esta(p, s))
      BY <2>2 DEF EnCola, s
    <2>8. \A p : \A c \in Colas \ {de} : EnCola(p, c)' <=> EnCola(p, c)
      BY <2>2 DEF EnCola
    <2> QED BY <2>2, <2>4, <2>5, <2>6, <2>7, <2>8, <2>9
  <1> QED BY <1>1, <1>2, <1>3 DEF Saca

LEMMA LugaresAgrega ==
    ASSUME TypeOK, Custodia, NEW h \in Hilos, Agrega(h),
           NEW a \in Colas, a = viaje[h].a, NEW x \in PCB, x = mano[h]
    PROVE  /\ \A c \in Colas : UnaVez(c)'
           /\ \A p : \A c \in Colas \ {a} : EnCola(p, c)' <=> EnCola(p, c)
           /\ \A p : \A j \in Hilos \ {h} : EnMano(p, j)' <=> EnMano(p, j)
           /\ \A p : ~EnMano(p, h)' /\ (EnMano(p, h) <=> p = x)
           /\ \A p : EnCola(p, a)' <=> EnCola(p, a) \/ p = x
  <1>0. pc \in [Hilos -> Pasos] /\ colas \in [Colas -> Seq(PCB)]
    BY DEF TypeOK, TipoHilos, TipoColas
  <1> DEFINE s == colas[a]
  <1>1. /\ \A p : ~EnMano(p, h)' /\ (EnMano(p, h) <=> p = x)
        /\ \A p : \A j \in Hilos \ {h} : EnMano(p, j)' <=> EnMano(p, j)
    BY DEF Agrega, Sostiene, EnMano
  <1>2. /\ colas'[a] = Append(s, x) /\ \A c \in Colas \ {a} : colas'[c] = colas[c]
        /\ s \in Seq(PCB) /\ SinRepetidos(s)
    BY <1>0 DEF Agrega, Custodia, UnaVez
  <1>3. ~(x \in Procesos /\ Esta(x, s))
    BY <1>1 DEF Custodia, EnCola
  <1> HIDE DEF s
  <1>4. /\ \A p : Esta(p, Append(s, x)) <=> Esta(p, s) \/ p = x
        /\ SinRepetidos(Append(s, x))
    BY <1>2, <1>3, AlAgregar
  <1>5. \A c \in Colas : UnaVez(c)'
    BY <1>2, <1>4 DEF Custodia, UnaVez
  <1>6. \A p : (EnCola(p, a)' <=> Esta(p, Append(s, x))) /\ (EnCola(p, a) <=> Esta(p, s))
    BY <1>2 DEF EnCola, s
  <1>7. \A p : \A c \in Colas \ {a} : EnCola(p, c)' <=> EnCola(p, c)
    BY <1>2 DEF EnCola
  <1> QED BY <1>1, <1>4, <1>5, <1>6, <1>7

LEMMA LugaresInicia ==
    ASSUME TypeOK, Custodia, NEW p \in Procesos, IniciarProceso(p)
    PROVE  /\ \A c \in Colas : UnaVez(c)'
           /\ \A q : \A c \in Colas \ {"NEW"} : EnCola(q, c)' <=> EnCola(q, c)
           /\ \A q : \A h \in Hilos : EnMano(q, h)' <=> EnMano(q, h)
           /\ \A c \in Colas : ~EnCola(p, c)
           /\ \A h \in Hilos : ~EnMano(p, h)
           /\ \A q : EnCola(q, "NEW")' <=> EnCola(q, "NEW") \/ q = p
  <1>0. colas \in [Colas -> Seq(PCB)] /\ "NEW" \in Colas /\ p \in PCB
    BY DEF TypeOK, TipoColas, Colas, PCB
  <1> DEFINE s == colas["NEW"]
  <1>1. p \notin Creados /\ colas' = [colas EXCEPT !["NEW"] = Append(s, p)] /\ UNCHANGED <<pc, mano>>
    BY DEF IniciarProceso
  <1>2. ASSUME NEW c \in Colas PROVE ~EnCola(p, c)
    <2>1. ToSet(colas[c]) \subseteq Creados
      BY DEF Creados
    <2> QED BY <1>1, <2>1 DEF EnCola, Esta, ToSet
  <1>3. /\ \A h \in Hilos : ~EnMano(p, h)
        /\ \A q : \A h \in Hilos : EnMano(q, h)' <=> EnMano(q, h)
    <2> DEFINE enColas == UNION {ToSet(colas[c]) : c \in Colas}
               enManos == {mano[h] : h \in Hilos}
    <2>1. enManos \subseteq Creados
      <3>1. Creados = enColas \cup enManos
        BY DEF Creados
      <3> HIDE DEF enColas, enManos
      <3> QED BY <3>1
    <2> QED BY <1>1, <2>1 DEF EnMano, Sostiene
  <1>4. /\ colas'["NEW"] = Append(s, p) /\ \A c \in Colas \ {"NEW"} : colas'[c] = colas[c]
        /\ s \in Seq(PCB) /\ SinRepetidos(s) /\ ~Esta(p, s)
    BY <1>0, <1>1, <1>2 DEF Custodia, EnCola, UnaVez
  <1> HIDE DEF s
  <1>5. SinRepetidos(Append(s, p)) /\ \A q : Esta(q, Append(s, p)) <=> Esta(q, s) \/ q = p
    BY <1>0, <1>4, AlAgregar
  <1>6. \A c \in Colas : UnaVez(c)'
    BY <1>4, <1>5 DEF Custodia, UnaVez
  <1>7. \A q : EnCola(q, "NEW")' <=> EnCola(q, "NEW") \/ q = p
    BY <1>4, <1>5 DEF EnCola, s
  <1>8. \A q : \A c \in Colas \ {"NEW"} : EnCola(q, c)' <=> EnCola(q, c)
    BY <1>4 DEF EnCola
  <1> QED BY <1>2, <1>3, <1>6, <1>7, <1>8

LEMMA CustodiaInicial == Init => Custodia
  <1> SUFFICES ASSUME Init PROVE Custodia
    OBVIOUS
  <1>1. /\ \A c \in Colas : colas[c] = <<>>
        /\ \A h \in Hilos : ~Sostiene(h)
    BY DEF Init, Sostiene
  <1> QED BY <1>1 DEF Custodia, EnCola, EnMano, Esta, UnaVez, SinRepetidos

LEMMA CustodiaInductiva ==
    ASSUME TypeOK, Custodia, [Next]_vars
    PROVE  Custodia'
  <1>0. viaje \in [Hilos -> Viajes] /\ "NEW" \in Colas
    BY DEF TypeOK, TipoHilos, Colas
  <1>1. CASE Quieta
    <2>1. \A c \in Colas : UnaVez(c)'
      BY <1>1 DEF Quieta, Custodia, UnaVez
    <2> QED BY <1>1, <2>1, LugaresQuieta DEF Custodia
  <1>2. ASSUME NEW h \in Hilos, Saca(h) PROVE Custodia'
    <2>0. viaje[h].de \in Colas /\ mano'[h] \in PCB
      <3>1. TypeOK'
        BY TipoInductivo
      <3> QED BY <1>0, <3>1 DEF Viajes, TypeOK, TipoHilos
    <2>1. PICK de \in Colas : de = viaje[h].de
      BY <2>0
    <2>2. PICK x \in PCB : x = mano'[h]
      BY <2>0
    <2> QED BY <1>2, <2>1, <2>2, LugaresSaca DEF Custodia
  <1>3. ASSUME NEW h \in Hilos, Agrega(h) PROVE Custodia'
    <2>0. viaje[h].a \in Colas /\ mano[h] \in PCB
      BY <1>0 DEF Viajes, TypeOK, TipoHilos
    <2>1. PICK a \in Colas : a = viaje[h].a
      BY <2>0
    <2>2. PICK x \in PCB : x = mano[h]
      BY <2>0
    <2>3. /\ \A c \in Colas : UnaVez(c)'
          /\ \A p : \A c \in Colas \ {a} : EnCola(p, c)' <=> EnCola(p, c)
          /\ \A p : \A j \in Hilos \ {h} : EnMano(p, j)' <=> EnMano(p, j)
          /\ \A p : ~EnMano(p, h)' /\ (EnMano(p, h) <=> p = x)
          /\ \A p : EnCola(p, a)' <=> EnCola(p, a) \/ p = x
      BY <1>3, <2>1, <2>2, LugaresAgrega
    <2>4. (\A p \in Procesos, c, d \in Colas : EnCola(p, c) /\ EnCola(p, d) => c = d)'
      BY <2>3 DEF Custodia
    <2>5. (\A p \in Procesos, c \in Colas, k \in Hilos : ~(EnCola(p, c) /\ EnMano(p, k)))'
      BY <2>3 DEF Custodia
    <2>6. (\A p \in Procesos, j, k \in Hilos : EnMano(p, j) /\ EnMano(p, k) => j = k)'
      BY <2>3 DEF Custodia
    <2> QED BY <2>3, <2>4, <2>5, <2>6 DEF Custodia
  <1>4. ASSUME NEW p \in Procesos, IniciarProceso(p) PROVE Custodia'
    BY <1>0, <1>4, LugaresInicia DEF Custodia
  <1> QED BY <1>1, <1>2, <1>3, <1>4, FormaDelPaso

(* An element of a set all of whose elements are equal is its only one.    *)
LEMMA ALoSumoUno ==
    ASSUME NEW S, \A x, y \in S : x = y
    PROVE  Cardinality(S) <= 1
  <1>1. CASE S = {}
    BY <1>1, FS_EmptySet
  <1>2. ASSUME NEW x \in S PROVE Cardinality(S) <= 1
    <2>1. S = {x}
      BY <1>2
    <2> QED BY <2>1, FS_Singleton
  <1> QED BY <1>1, <1>2

LEMMA CustodiaImplicaUna == TypeOK /\ Custodia => UnaSolaCustodia
  <1> SUFFICES ASSUME TypeOK, Custodia, NEW p \in Procesos PROVE Cardinality(Lugares(p)) <= 1
    BY DEF UnaSolaCustodia
  <1>1. ASSUME NEW x \in Lugares(p)
        PROVE  \/ /\ x = <<x[1], x[2]>> /\ x[1] \in Colas /\ x[2] \in DOMAIN colas[x[1]]
                  /\ colas[x[1]][x[2]] = p /\ EnCola(p, x[1])
               \/ x = <<x[1], 0>> /\ x[1] \in Hilos /\ EnMano(p, x[1])
    BY DEF Lugares, EnCola, Esta, EnMano
  <1>2. ASSUME NEW x \in Lugares(p), NEW y \in Lugares(p) PROVE x = y
    <2>1. CASE x[1] \in Colas /\ x[2] \in DOMAIN colas[x[1]] /\ colas[x[1]][x[2]] = p /\ EnCola(p, x[1])
               /\ y[1] \in Colas /\ y[2] \in DOMAIN colas[y[1]] /\ colas[y[1]][y[2]] = p /\ EnCola(p, y[1])
               /\ x = <<x[1], x[2]>> /\ y = <<y[1], y[2]>>
      <3>1. x[1] = y[1]
        BY <2>1 DEF Custodia
      <3>2. x[2] = y[2]
        BY <2>1, <3>1 DEF Custodia, UnaVez, SinRepetidos
      <3> QED BY <2>1, <3>1, <3>2
    <2>2. CASE x = <<x[1], 0>> /\ x[1] \in Hilos /\ EnMano(p, x[1])
               /\ y = <<y[1], 0>> /\ y[1] \in Hilos /\ EnMano(p, y[1])
      BY <2>2 DEF Custodia
    <2> QED BY <1>1, <2>1, <2>2 DEF Custodia
  <1> QED BY <1>2, ALoSumoUno

(* A PCB is never in two lists, twice in one, or in a list and in a        *)
(* thread's hand, although list_remove and list_add are all the mutexes    *)
(* protect and the threads stop between them: also when a removal finds    *)
(* nobody, when tokens are doubled by a late quantum, under any algorithm. *)
THEOREM UnaSolaCustodiaSiempre == Spec => []UnaSolaCustodia
  <1>1. TypeOK /\ Custodia /\ [Next]_vars => (TypeOK /\ Custodia)'
    BY TipoInductivo, CustodiaInductiva
  <1> QED BY <1>1, TipoInicial, CustodiaInicial, CustodiaImplicaUna, PTL DEF Spec

-----------------------------------------------------------------------------
(* The degree of multiprogramming.                                         *)

Ocupan == {"READY", "READY+", "EXEC", "BLOCK"}

Dentro == {p \in Procesos : Admitido(p)}

GradoExacto == SinNulos => sem["GRADO"] + Cardinality(Dentro) + Uno(Admitiendo) = Grado

GradoInv == IsFiniteSet(Dentro) /\ GradoExacto

LEMMA AdmitidoPorLugar ==
    \A p \in Procesos :
        Admitido(p) <=> \/ \E c \in Ocupan : EnCola(p, c)
                        \/ \E h \in Hilos \ {"largo"} : EnMano(p, h)
  BY DEF Admitido, EnCola, EnMano, Esta, ToSet, Ocupan

LEMMA SinNulosPorLugar ==
    SinNulos <=> (\A c \in Colas : ~EnCola(NULO, c)) /\ (\A h \in Hilos : ~EnMano(NULO, h))
  BY DEF SinNulos, EnCola, EnMano, Esta, ToSet

LEMMA AdmitidoDespues ==
    \A p \in Procesos :
        Admitido(p)' <=> \/ \E c \in Ocupan : EnCola(p, c)'
                         \/ \E h \in Hilos \ {"largo"} : EnMano(p, h)'
  <1>1. (\A p \in Procesos :
           Admitido(p) <=> \/ \E c \in Ocupan : EnCola(p, c)
                           \/ \E h \in Hilos \ {"largo"} : EnMano(p, h))'
    BY AdmitidoPorLugar, PTL
  <1> QED BY <1>1

LEMMA SinNulosDespues ==
    SinNulos' <=> (\A c \in Colas : ~EnCola(NULO, c)') /\ (\A h \in Hilos : ~EnMano(NULO, h)')
  <1>1. (SinNulos <=> (\A c \in Colas : ~EnCola(NULO, c)) /\ (\A h \in Hilos : ~EnMano(NULO, h)))'
    BY SinNulosPorLugar, PTL
  <1> QED BY <1>1

LEMMA GradoQuieta ==
    ASSUME TypeOK, TypeOK', GradoInv, Quieta
    PROVE  GradoInv'
  <1>0. sem["GRADO"] \in Nat /\ sem'["GRADO"] \in Nat /\ Cardinality(Dentro) \in Nat
    BY FS_CardinalityType DEF TypeOK, TipoHilos, Semaforos, GradoInv
  <1>1. \A p \in Procesos : Admitido(p)' <=> Admitido(p)
    BY AdmitidoPorLugar, AdmitidoDespues, LugaresQuieta
  <1>2. Dentro' = Dentro
    BY <1>1 DEF Dentro
  <1>3. SinNulos' <=> SinNulos
    BY SinNulosPorLugar, SinNulosDespues, LugaresQuieta
  <1>4. sem'["GRADO"] + Uno(Admitiendo)' = sem["GRADO"] + Uno(Admitiendo)
    BY DEF Quieta
  <1>5. Uno(Admitiendo) \in Nat /\ Uno(Admitiendo)' \in Nat
    BY DEF Uno
  <1> HIDE DEF Uno
  <1>6. ASSUME SinNulos'
        PROVE  sem'["GRADO"] + Cardinality(Dentro') + Uno(Admitiendo)' = Grado
    <2>1. sem["GRADO"] + Cardinality(Dentro) + Uno(Admitiendo) = Grado
      BY <1>3, <1>6 DEF GradoInv, GradoExacto
    <2> QED BY <1>0, <1>2, <1>4, <1>5, <2>1
  <1> QED BY <1>2, <1>6 DEF GradoInv, GradoExacto

(* The removal takes x out of its queue and into the hand of h: it stays   *)
(* admitted, or was not.                                                   *)
LEMMA GradoSaca ==
    ASSUME TypeOK, TypeOK', Rutas, Custodia, GradoInv, NEW h \in Hilos, Saca(h)
    PROVE  GradoInv'
  <1>0. /\ pc \in [Hilos -> Pasos] /\ viaje \in [Hilos -> Viajes] /\ mano' \in [Hilos -> PCB]
        /\ Ocupan \subseteq Colas /\ "NEW" \notin Ocupan
    BY DEF TypeOK, TipoHilos, Ocupan, Colas
  <1>1. PICK de \in Colas : de = viaje[h].de
    BY <1>0 DEF Viajes
  <1>2. PICK x \in PCB : x = mano'[h]
    BY <1>0
  <1>3. IF h = "largo" THEN de = "NEW" ELSE de \in Ocupan
    BY <1>1 DEF Rutas, Trayectos, Viaje, Ocupan, Hilos
  <1>4. /\ \A p : \A c \in Colas \ {de} : EnCola(p, c)' <=> EnCola(p, c)
        /\ \A p : \A j \in Hilos \ {h} : EnMano(p, j)' <=> EnMano(p, j)
        /\ \A p : ~EnMano(p, h) /\ (EnMano(p, h)' <=> p = x)
        /\ x \in Procesos => EnCola(x, de)
        /\ \A p \in Procesos : EnCola(p, de)' <=> EnCola(p, de) /\ p # x
        /\ \A p : EnCola(p, de) => EnCola(p, de)' \/ p = x
    BY <1>1, <1>2, LugaresSaca
  <1>5. ASSUME NEW p \in Procesos PROVE Admitido(p)' <=> Admitido(p)
    <2>1. CASE p # x
      <3>1. \A c \in Ocupan : EnCola(p, c)' <=> EnCola(p, c)
        BY <1>0, <1>4, <2>1
      <3>2. \A j \in Hilos : EnMano(p, j)' <=> EnMano(p, j)
        BY <1>4, <2>1
      <3> QED BY <3>1, <3>2, AdmitidoPorLugar, AdmitidoDespues
    <2>2. CASE p = x /\ h = "largo"
      <3>1. ~Admitido(p)
        BY <1>0, <1>3, <1>4, <2>2, AdmitidoPorLugar DEF Custodia
      <3>2. ~Admitido(p)'
        BY <1>0, <1>3, <1>4, <2>2, AdmitidoDespues DEF Custodia
      <3> QED BY <3>1, <3>2
    <2>3. CASE p = x /\ h # "largo"
      <3>1. Admitido(p)
        BY <1>3, <1>4, <2>3, AdmitidoPorLugar
      <3>2. Admitido(p)'
        BY <1>3, <1>4, <2>3, AdmitidoDespues
      <3> QED BY <3>1, <3>2
    <2> QED BY <2>1, <2>2, <2>3
  <1>6. Dentro' = Dentro
    BY <1>5 DEF Dentro
  <1>7. SinNulos' => SinNulos
    <2>1. ASSUME SinNulos' PROVE SinNulos
      <3>1. x # NULO
        BY <1>4, <2>1, SinNulosDespues
      <3>2. ~EnCola(NULO, de)
        BY <1>4, <2>1, <3>1, SinNulosDespues
      <3>3. \A c \in Colas : ~EnCola(NULO, c)
        BY <1>4, <2>1, <3>2, SinNulosDespues
      <3>4. \A j \in Hilos : ~EnMano(NULO, j)
        BY <1>4, <2>1, SinNulosDespues
      <3> QED BY <3>3, <3>4, SinNulosPorLugar
    <2> QED BY <2>1
  <1>8. sem' = sem /\ (Admitiendo' <=> Admitiendo)
    BY <1>0 DEF Saca, Admitiendo
  <1> QED BY <1>6, <1>7, <1>8 DEF GradoInv, GradoExacto, Uno

(* largo_plazo and exit_largo are the only ones whose append changes who is *)
(* admitted; what is appended is a PCB, as long as no NULL has been.        *)
LEMMA GradoAgrega ==
    ASSUME TypeOK, TypeOK', Rutas, Custodia, GradoInv, NEW h \in Hilos, Agrega(h)
    PROVE  GradoInv'
  <1>0. /\ pc \in [Hilos -> Pasos] /\ viaje \in [Hilos -> Viajes] /\ mano \in [Hilos -> PCB]
        /\ Ocupan \subseteq Colas /\ "EXIT" \notin Ocupan
        /\ sem["GRADO"] \in Nat /\ sem'["GRADO"] \in Nat
    BY DEF TypeOK, TipoHilos, Ocupan, Colas, Semaforos
  <1>1. PICK a \in Colas : a = viaje[h].a
    BY <1>0 DEF Viajes
  <1>2. PICK x \in PCB : x = mano[h]
    BY <1>0
  <1>3. IF h = "exit_largo" THEN a = "EXIT" ELSE a \in Ocupan
    BY <1>1 DEF Rutas, Trayectos, Viaje, Ocupan, Hilos
  <1>4. /\ \A p : \A c \in Colas \ {a} : EnCola(p, c)' <=> EnCola(p, c)
        /\ \A p : \A j \in Hilos \ {h} : EnMano(p, j)' <=> EnMano(p, j)
        /\ \A p : ~EnMano(p, h)' /\ (EnMano(p, h) <=> p = x)
        /\ \A p : EnCola(p, a)' <=> EnCola(p, a) \/ p = x
    BY <1>1, <1>2, LugaresAgrega
  <1>5. ASSUME NEW p \in Procesos
        PROVE  Admitido(p)' <=> IF h = "largo" THEN Admitido(p) \/ p = x
                                ELSE IF h = "exit_largo" THEN Admitido(p) /\ p # x
                                     ELSE Admitido(p)
    <2>1. CASE p # x
      <3>1. \A c \in Ocupan : EnCola(p, c)' <=> EnCola(p, c)
        BY <1>0, <1>4, <2>1
      <3>2. \A j \in Hilos : EnMano(p, j)' <=> EnMano(p, j)
        BY <1>4, <2>1
      <3>3. Admitido(p)' <=> Admitido(p)
        BY <3>1, <3>2, AdmitidoPorLugar, AdmitidoDespues
      <3> QED BY <2>1, <3>3
    <2>2. CASE p = x /\ h = "exit_largo"
      <3>1. /\ \A c \in Ocupan : ~EnCola(p, c)'
            /\ \A j \in Hilos : ~EnMano(p, j)'
        BY <1>0, <1>3, <1>4, <2>2 DEF Custodia
      <3> QED BY <2>2, <3>1, AdmitidoDespues
    <2>3. CASE p = x /\ h # "exit_largo"
      <3>1. Admitido(p)'
        BY <1>3, <1>4, <2>3, AdmitidoDespues
      <3>2. h # "largo" => Admitido(p)
        BY <1>4, <2>3, AdmitidoPorLugar
      <3> QED BY <2>3, <3>1, <3>2
    <2> QED BY <2>1, <2>2, <2>3
  <1>6. SinNulos' => SinNulos /\ x # NULO
    <2> SUFFICES ASSUME SinNulos' PROVE SinNulos /\ x # NULO
      OBVIOUS
    <2>1. x # NULO
      BY <1>4, SinNulosDespues
    <2>2. \A c \in Colas : ~EnCola(NULO, c)
      BY <1>4, SinNulosDespues
    <2>3. \A j \in Hilos : ~EnMano(NULO, j)
      BY <1>4, <2>1, SinNulosDespues
    <2> QED BY <2>1, <2>2, <2>3, SinNulosPorLugar
  <1>7. sem'["GRADO"] = sem["GRADO"] + Uno(h = "exit_largo")
    BY DEF Agrega
  <1>8. IsFiniteSet(Dentro) /\ Cardinality(Dentro) \in Nat
    BY FS_CardinalityType DEF GradoInv
  <1>9. CASE h = "largo"
    <2>1. Admitiendo /\ ~Admitiendo' /\ sem'["GRADO"] = sem["GRADO"]
      BY <1>0, <1>7, <1>9 DEF Agrega, Admitiendo, Uno
    <2>2. CASE x = NULO
      <3>1. Dentro' = Dentro
        BY <1>5, <1>9, <2>2, NuloAssumption DEF Dentro
      <3> QED BY <1>6, <1>8, <2>2, <3>1 DEF GradoInv, GradoExacto
    <2>3. CASE x # NULO
      <3>1. x \in Procesos
        BY <2>3 DEF PCB
      <3>2. Dentro' = Dentro \cup {x}
        BY <1>5, <1>9, <3>1 DEF Dentro
      <3>3. ~Admitido(x)
        BY <1>0, <1>4, <1>9, <3>1, AdmitidoPorLugar DEF Custodia
      <3>4. x \notin Dentro
        BY <3>3 DEF Dentro
      <3>5. IsFiniteSet(Dentro') /\ Cardinality(Dentro') = Cardinality(Dentro) + 1
        BY <1>8, <3>2, <3>4, FS_AddElement
      <3>6. ASSUME SinNulos'
            PROVE  sem'["GRADO"] + Cardinality(Dentro') + Uno(Admitiendo)' = Grado
        <4>1. sem["GRADO"] + Cardinality(Dentro) + 1 = Grado
          BY <1>6, <2>1, <3>6 DEF GradoInv, GradoExacto, Uno
        <4>2. Uno(Admitiendo)' = 0
          BY <2>1 DEF Uno
        <4> QED BY <1>0, <1>8, <2>1, <3>5, <4>1, <4>2
      <3> QED BY <3>5, <3>6 DEF GradoInv, GradoExacto
    <2> QED BY <2>2, <2>3
  <1>10. CASE h # "largo"
    <2>1. Admitiendo' <=> Admitiendo
      BY <1>10 DEF Agrega, Admitiendo, Hilos
    <2>2. Uno(Admitiendo) \in Nat /\ Uno(Admitiendo)' = Uno(Admitiendo)
      BY <2>1 DEF Uno
    <2>3. CASE h = "exit_largo"
      <3>1. sem'["GRADO"] = sem["GRADO"] + 1
        BY <1>7, <2>3 DEF Uno
      <3>2. Dentro' = Dentro \ {x}
        BY <1>5, <2>3 DEF Dentro
      <3>3. /\ IsFiniteSet(Dentro')
            /\ Cardinality(Dentro') = IF x \in Dentro THEN Cardinality(Dentro) - 1
                                                     ELSE Cardinality(Dentro)
        BY <1>8, <3>2, FS_RemoveElement
      <3>4. ASSUME SinNulos'
            PROVE  sem'["GRADO"] + Cardinality(Dentro') + Uno(Admitiendo)' = Grado
        <4>1. sem["GRADO"] + Cardinality(Dentro) + Uno(Admitiendo) = Grado
          BY <1>6, <3>4 DEF GradoInv, GradoExacto
        <4>2. x \in Procesos
          BY <1>6, <3>4 DEF PCB
        <4>3. Admitido(x)
          BY <1>4, <2>3, <4>2, AdmitidoPorLugar
        <4>4. x \in Dentro
          BY <4>2, <4>3 DEF Dentro
        <4> QED BY <1>0, <1>8, <2>2, <3>1, <3>3, <4>1, <4>4
      <3> QED BY <3>3, <3>4 DEF GradoInv, GradoExacto
    <2>4. CASE h # "exit_largo"
      <3>1. Dentro' = Dentro
        BY <1>5, <1>10, <2>4 DEF Dentro
      <3>2. sem'["GRADO"] = sem["GRADO"]
        BY <1>0, <1>7, <2>4 DEF Uno
      <3> QED BY <1>6, <1>8, <2>2, <3>1, <3>2 DEF GradoInv, GradoExacto
    <2> QED BY <2>3, <2>4
  <1> QED BY <1>9, <1>10

LEMMA GradoInicia ==
    ASSUME TypeOK, TypeOK', Custodia, GradoInv, NEW p \in Procesos, IniciarProceso(p)
    PROVE  GradoInv'
  <1>0. Ocupan \subseteq Colas \ {"NEW"} /\ sem'["GRADO"] = sem["GRADO"] /\ pc' = pc
    BY DEF Ocupan, Colas, IniciarProceso, TypeOK, TipoHilos, Semaforos
  <1>1. /\ \A q : \A c \in Colas \ {"NEW"} : EnCola(q, c)' <=> EnCola(q, c)
        /\ \A q : \A h \in Hilos : EnMano(q, h)' <=> EnMano(q, h)
        /\ \A q : EnCola(q, "NEW")' <=> EnCola(q, "NEW") \/ q = p
    BY LugaresInicia
  <1>2. \A q \in Procesos : Admitido(q)' <=> Admitido(q)
    BY <1>0, <1>1, AdmitidoPorLugar, AdmitidoDespues
  <1>3. Dentro' = Dentro
    BY <1>2 DEF Dentro
  <1>4. SinNulos' => SinNulos
    BY <1>1, SinNulosPorLugar, SinNulosDespues
  <1>5. Admitiendo' <=> Admitiendo
    BY <1>0 DEF Admitiendo
  <1> QED BY <1>0, <1>3, <1>4, <1>5 DEF GradoInv, GradoExacto, Uno

LEMMA GradoInicial == Init => GradoInv
  <1> SUFFICES ASSUME Init PROVE GradoInv
    OBVIOUS
  <1>1. /\ \A c \in Colas : colas[c] = <<>>
        /\ \A h \in Hilos : ~Sostiene(h)
        /\ Ocupan \subseteq Colas
    BY DEF Init, Sostiene, Ocupan, Colas
  <1>2. Dentro = {}
    BY <1>1, AdmitidoPorLugar DEF Dentro, EnCola, EnMano, Esta
  <1>3. IsFiniteSet(Dentro) /\ Cardinality(Dentro) = 0
    BY <1>2, FS_EmptySet
  <1>4. sem["GRADO"] = Grado /\ Uno(Admitiendo) = 0
    BY DEF Init, Semaforos, Admitiendo, Uno, Hilos
  <1> QED BY <1>3, <1>4, GradoAssumption DEF GradoInv, GradoExacto

LEMMA GradoInductivo ==
    ASSUME TypeOK, Rutas, Custodia, GradoInv, [Next]_vars
    PROVE  GradoInv'
  <1>1. TypeOK'
    BY TipoInductivo
  <1> QED BY <1>1, FormaDelPaso, GradoQuieta, GradoSaca, GradoAgrega, GradoInicia

(* A unit of GRADO is taken before the process is admitted and given back   *)
(* after it is in EXIT, by two threads that stop at any statement between;  *)
(* five others move the process meanwhile.  As long as no removal has come  *)
(* back with NULL, none is lost and none is counted twice.                  *)
THEOREM GradoSiempreConservado == Spec => []GradoConservado
  <1> DEFINE IInv == TypeOK /\ Rutas /\ Custodia /\ GradoInv
  <1>1. Init => IInv
    BY TipoInicial, RutasIniciales, CustodiaInicial, GradoInicial
  <1>2. IInv /\ [Next]_vars => IInv'
    BY TipoInductivo, RutasInductivas, CustodiaInductiva, GradoInductivo
  <1>3. IInv => GradoConservado
    BY DEF GradoInv, GradoExacto, GradoConservado, Dentro, Admitiendo
  <1> QED BY <1>1, <1>2, <1>3, PTL DEF Spec

-----------------------------------------------------------------------------
(* The process-state diagram.                                              *)

LEMMA EstadoUnico ==
    ASSUME Custodia, NEW p \in Procesos
    PROVE  /\ \A c \in Colas : EnCola(p, c) => EstadoDe(p) = c
           /\ \A h \in Hilos : EnMano(p, h) => EstadoDe(p) = viaje[h].de
           /\ (\A c \in Colas : ~EnCola(p, c)) /\ (\A h \in Hilos : ~EnMano(p, h))
                 => EstadoDe(p) = "SIN_CREAR"
  <1>1. /\ \A c \in Colas : EnCola(p, c) <=> p \in ToSet(colas[c])
        /\ \A h \in Hilos : EnMano(p, h) <=> Sostiene(h) /\ mano[h] = p
    BY DEF EnCola, EnMano, Esta, ToSet
  <1>2. ASSUME NEW c \in Colas, EnCola(p, c) PROVE EstadoDe(p) = c
    <2>1. \A d \in Colas : p \in ToSet(colas[d]) <=> d = c
      BY <1>1, <1>2 DEF Custodia
    <2> QED BY <1>1, <1>2, <2>1 DEF EstadoDe
  <1>3. ASSUME NEW h \in Hilos, EnMano(p, h) PROVE EstadoDe(p) = viaje[h].de
    <2>1. \A c \in Colas : p \notin ToSet(colas[c])
      BY <1>1, <1>3 DEF Custodia
    <2>2. \A k \in Hilos : Sostiene(k) /\ mano[k] = p <=> k = h
      BY <1>1, <1>3 DEF Custodia
    <2>3. (CHOOSE k \in Hilos : Sostiene(k) /\ mano[k] = p) = h
      BY <2>2
    <2> QED BY <2>1, <2>2, <2>3 DEF EstadoDe
  <1>4. ASSUME \A c \in Colas : ~EnCola(p, c), \A h \in Hilos : ~EnMano(p, h)
        PROVE  EstadoDe(p) = "SIN_CREAR"
    BY <1>1, <1>4 DEF EstadoDe
  <1> QED BY <1>2, <1>3, <1>4

Unico(p) ==
    /\ \A c \in Colas : EnCola(p, c) => EstadoDe(p) = c
    /\ \A h \in Hilos : EnMano(p, h) => EstadoDe(p) = viaje[h].de
    /\ (\A c \in Colas : ~EnCola(p, c)) /\ (\A h \in Hilos : ~EnMano(p, h))
          => EstadoDe(p) = "SIN_CREAR"

LEMMA UnicoPorCustodia == Custodia => \A p \in Procesos : Unico(p)
  BY EstadoUnico DEF Unico

LEMMA UnicoDespues == Custodia' => \A p \in Procesos : Unico(p)'
  <1>1. (Custodia => \A p \in Procesos : Unico(p))'
    BY UnicoPorCustodia, PTL
  <1> QED BY <1>1

LEMMA EstadoUnicoDespues ==
    ASSUME Custodia', NEW p \in Procesos
    PROVE  /\ \A c \in Colas : EnCola(p, c)' => EstadoDe(p)' = c
           /\ \A h \in Hilos : EnMano(p, h)' => EstadoDe(p)' = viaje'[h].de
           /\ (\A c \in Colas : ~EnCola(p, c)') /\ (\A h \in Hilos : ~EnMano(p, h)')
                 => EstadoDe(p)' = "SIN_CREAR"
  BY UnicoDespues DEF Unico

(* A process that stays where it is keeps its state.                       *)
LEMMA MismoLugar ==
    ASSUME Custodia, Custodia', NEW p \in Procesos,
           \A c \in Colas : EnCola(p, c)' <=> EnCola(p, c),
           \A h \in Hilos : EnMano(p, h)' <=> EnMano(p, h),
           \A h \in Hilos : EnMano(p, h) => viaje'[h] = viaje[h]
    PROVE  EstadoDe(p)' = EstadoDe(p)
  <1>1. ASSUME NEW c \in Colas, EnCola(p, c) PROVE EstadoDe(p)' = EstadoDe(p)
    BY <1>1, EstadoUnico, EstadoUnicoDespues
  <1>2. ASSUME NEW h \in Hilos, EnMano(p, h) PROVE EstadoDe(p)' = EstadoDe(p)
    BY <1>2, EstadoUnico, EstadoUnicoDespues
  <1>3. ASSUME \A c \in Colas : ~EnCola(p, c), \A h \in Hilos : ~EnMano(p, h)
        PROVE  EstadoDe(p)' = EstadoDe(p)
    BY <1>3, EstadoUnico, EstadoUnicoDespues
  <1> QED BY <1>1, <1>2, <1>3

LEMMA DiagramaQuieta ==
    ASSUME Custodia, Custodia', Quieta
    PROVE  EstadoDeCada' = EstadoDeCada
  <1>1. ASSUME NEW p \in Procesos PROVE EstadoDe(p)' = EstadoDe(p)
    <2>1. \A h \in Hilos : EnMano(p, h) => viaje'[h] = viaje[h]
      BY DEF Quieta, EnMano
    <2> QED BY <2>1, LugaresQuieta, MismoLugar
  <1> QED BY <1>1 DEF EstadoDeCada

LEMMA DiagramaSaca ==
    ASSUME TypeOK, TypeOK', Custodia, Custodia', NEW h \in Hilos, Saca(h)
    PROVE  EstadoDeCada' = EstadoDeCada
  <1>0. viaje \in [Hilos -> Viajes] /\ mano' \in [Hilos -> PCB] /\ viaje' = viaje
    BY DEF TypeOK, TipoHilos, Saca
  <1>1. PICK de \in Colas : de = viaje[h].de
    BY <1>0 DEF Viajes
  <1>2. PICK x \in PCB : x = mano'[h]
    BY <1>0
  <1>3. /\ \A p : \A c \in Colas \ {de} : EnCola(p, c)' <=> EnCola(p, c)
        /\ \A p : \A j \in Hilos \ {h} : EnMano(p, j)' <=> EnMano(p, j)
        /\ \A p : ~EnMano(p, h) /\ (EnMano(p, h)' <=> p = x)
        /\ x \in Procesos => EnCola(x, de)
        /\ \A p \in Procesos : EnCola(p, de)' <=> EnCola(p, de) /\ p # x
    BY <1>1, <1>2, LugaresSaca
  <1>4. ASSUME NEW p \in Procesos PROVE EstadoDe(p)' = EstadoDe(p)
    <2>1. CASE p = x
      <3>1. EstadoDe(p) = de
        BY <1>3, <2>1, EstadoUnico
      <3>2. EstadoDe(p)' = viaje'[h].de
        BY <1>3, <2>1, EstadoUnicoDespues
      <3> QED BY <1>0, <1>1, <3>1, <3>2
    <2>2. CASE p # x
      BY <1>0, <1>3, <2>2, MismoLugar
    <2> QED BY <2>1, <2>2
  <1> QED BY <1>4 DEF EstadoDeCada

(* p goes from one state to another and the others stay.                   *)
Pasa(p, de, a) ==
    /\ EstadoDeCada[p] = de
    /\ EstadoDeCada' = [EstadoDeCada EXCEPT ![p] = a]

LEMMA SoloPasa ==
    ASSUME NEW x \in Procesos, NEW de, NEW a, EstadoDe(x) = de, EstadoDe(x)' = a,
           \A p \in Procesos \ {x} : EstadoDe(p)' = EstadoDe(p)
    PROVE  Pasa(x, de, a)
  BY DEF Pasa, EstadoDeCada

LEMMA DiagramaInicia ==
    ASSUME TypeOK, Custodia, Custodia', NEW p \in Procesos, IniciarProceso(p)
    PROVE  Pasa(p, "SIN_CREAR", "NEW")
  <1>0. "NEW" \in Colas /\ viaje' = viaje
    BY DEF Colas, IniciarProceso
  <1>1. /\ \A q : \A c \in Colas \ {"NEW"} : EnCola(q, c)' <=> EnCola(q, c)
        /\ \A q : \A h \in Hilos : EnMano(q, h)' <=> EnMano(q, h)
        /\ \A c \in Colas : ~EnCola(p, c)
        /\ \A h \in Hilos : ~EnMano(p, h)
        /\ \A q : EnCola(q, "NEW")' <=> EnCola(q, "NEW") \/ q = p
    BY LugaresInicia
  <1>2. EstadoDe(p) = "SIN_CREAR"
    BY <1>1, EstadoUnico
  <1>3. EstadoDe(p)' = "NEW"
    BY <1>0, <1>1, EstadoUnicoDespues
  <1>4. ASSUME NEW q \in Procesos \ {p} PROVE EstadoDe(q)' = EstadoDe(q)
    BY <1>0, <1>1, MismoLugar
  <1> QED BY <1>2, <1>3, <1>4, SoloPasa

LEMMA DiagramaAgrega ==
    ASSUME TypeOK, Custodia, Custodia', NEW h \in Hilos, Agrega(h)
    PROVE  \/ EstadoDeCada' = EstadoDeCada
           \/ \E p \in Procesos : Pasa(p, viaje[h].de, viaje[h].a)
  <1>0. viaje \in [Hilos -> Viajes] /\ mano \in [Hilos -> PCB] /\ viaje' = viaje
    BY DEF TypeOK, TipoHilos, Agrega
  <1>1. PICK a \in Colas : a = viaje[h].a
    BY <1>0 DEF Viajes
  <1>2. PICK x \in PCB : x = mano[h]
    BY <1>0
  <1>3. /\ \A p : \A c \in Colas \ {a} : EnCola(p, c)' <=> EnCola(p, c)
        /\ \A p : \A j \in Hilos \ {h} : EnMano(p, j)' <=> EnMano(p, j)
        /\ \A p : ~EnMano(p, h)' /\ (EnMano(p, h) <=> p = x)
        /\ \A p : EnCola(p, a)' <=> EnCola(p, a) \/ p = x
    BY <1>1, <1>2, LugaresAgrega
  <1>4. ASSUME NEW p \in Procesos, p # x PROVE EstadoDe(p)' = EstadoDe(p)
    BY <1>0, <1>3, <1>4, MismoLugar
  <1>5. CASE x = NULO
    BY <1>4, <1>5, NuloAssumption DEF EstadoDeCada
  <1>6. CASE x \in Procesos
    <2>1. EstadoDe(x) = viaje[h].de
      BY <1>3, <1>6, EstadoUnico
    <2>2. EstadoDe(x)' = viaje[h].a
      BY <1>1, <1>3, <1>6, EstadoUnicoDespues
    <2> QED BY <1>4, <1>6, <2>1, <2>2, SoloPasa
  <1> QED BY <1>5, <1>6 DEF PCB

(* Those admitted in the diagram are those that take up the degree.        *)
LEMMA AdmitidosDelDiagrama ==
    ASSUME TypeOK, Rutas, Custodia
    PROVE  Diagrama!Admitidos = Dentro
  <1>0. /\ Ocupan = {"READY", "READY+", "EXEC", "BLOCK"} /\ Ocupan \subseteq Colas
        /\ "NEW" \notin Ocupan /\ "EXIT" \notin Ocupan /\ "SIN_CREAR" \notin Ocupan
        /\ \A h \in Hilos : viaje[h].de \in Ocupan <=> h # "largo"
    BY DEF Ocupan, Colas, Rutas, Trayectos, Viaje, Hilos
  <1>1. ASSUME NEW p \in Procesos PROVE EstadoDe(p) \in Ocupan <=> Admitido(p)
    <2>1. ASSUME NEW c \in Colas, EnCola(p, c) PROVE EstadoDe(p) \in Ocupan <=> Admitido(p)
      BY <1>0, <2>1, EstadoUnico, AdmitidoPorLugar DEF Custodia
    <2>2. ASSUME NEW h \in Hilos, EnMano(p, h) PROVE EstadoDe(p) \in Ocupan <=> Admitido(p)
      BY <1>0, <2>2, EstadoUnico, AdmitidoPorLugar DEF Custodia
    <2>3. ASSUME \A c \in Colas : ~EnCola(p, c), \A h \in Hilos : ~EnMano(p, h)
          PROVE  EstadoDe(p) \in Ocupan <=> Admitido(p)
      BY <1>0, <2>3, EstadoUnico, AdmitidoPorLugar
    <2> QED BY <2>1, <2>2, <2>3
  <1> QED BY <1>0, <1>1 DEF Diagrama!Admitidos, Dentro, EstadoDeCada

(* What each thread's transition is in the diagram.                        *)
LEMMA FlechaDelHilo ==
    ASSUME TypeOK, Rutas, Custodia, GradoInv, NEW h \in Hilos, Agrega(h), SinNulos,
           NEW p \in Procesos, Pasa(p, viaje[h].de, viaje[h].a)
    PROVE  Diagrama!EstadosNext
  <1>1. Diagrama!Mover(p, viaje[h].de, viaje[h].a)
    BY DEF Pasa, Diagrama!Mover
  <1>2. CASE h = "largo"
    <2>1. Admitiendo /\ sem["GRADO"] \in Nat
      BY <1>2 DEF Agrega, Admitiendo, TypeOK, TipoHilos, Semaforos
    <2>2. Cardinality(Dentro) \in Nat /\ sem["GRADO"] + Cardinality(Dentro) + 1 = Grado
      BY <2>1, FS_CardinalityType DEF GradoInv, GradoExacto, Uno
    <2>3. Cardinality(Diagrama!Admitidos) < Grado
      BY <2>1, <2>2, AdmitidosDelDiagrama, GradoAssumption
    <2>7. Diagrama!Cardinality(Diagrama!Admitidos) < Grado
      BY <2>3 DEF Cardinality, Diagrama!Cardinality
    <2>4. viaje[h].de = "NEW" /\ viaje[h].a = "READY"
      BY <1>2 DEF Rutas, Trayectos, Viaje
    <2>5. Diagrama!Mover(p, "NEW", "READY")
      BY <1>1, <2>4
    <2>6. Diagrama!Admitir(p)
      BY <2>5, <2>7 DEF Diagrama!Admitir
    <2> QED BY <2>6 DEF Diagrama!EstadosNext
  <1>3. CASE h = "corto"
    BY <1>1, <1>3 DEF Rutas, Diagrama!EstadosNext, Diagrama!Despachar
  <1>4. CASE h = "exit_largo"
    BY <1>1, <1>4 DEF Rutas, Trayectos, Viaje, Diagrama!EstadosNext, Diagrama!Terminar
  <1>5. CASE h = "exec_ready"
    BY <1>1, <1>5 DEF Rutas, Trayectos, Viaje, Diagrama!EstadosNext, Diagrama!Desalojar
  <1>6. CASE h = "exec_blocked"
    BY <1>1, <1>6 DEF Rutas, Trayectos, Viaje, Diagrama!EstadosNext, Diagrama!Bloquear
  <1>7. CASE h = "blocked_ready"
    BY <1>1, <1>7 DEF Rutas, Diagrama!EstadosNext, Diagrama!Desbloquear
  <1> QED BY <1>2, <1>3, <1>4, <1>5, <1>6, <1>7 DEF Hilos

LEMMA DiagramaPaso ==
    ASSUME TypeOK, TypeOK', Rutas, Custodia, Custodia', GradoInv, [Next]_vars
    PROVE  [SinNulos => Diagrama!EstadosNext]_EstadoDeCada
  <1>1. CASE Quieta
    BY <1>1, DiagramaQuieta
  <1>2. ASSUME NEW h \in Hilos, Saca(h) PROVE EstadoDeCada' = EstadoDeCada
    BY <1>2, DiagramaSaca
  <1>3. ASSUME NEW h \in Hilos, Agrega(h)
        PROVE  EstadoDeCada' = EstadoDeCada \/ (SinNulos => Diagrama!EstadosNext)
    BY <1>3, DiagramaAgrega, FlechaDelHilo
  <1>4. ASSUME NEW p \in Procesos, IniciarProceso(p) PROVE Diagrama!EstadosNext
    <2>1. Pasa(p, "SIN_CREAR", "NEW")
      BY <1>4, DiagramaInicia
    <2> QED BY <2>1 DEF Pasa, Diagrama!EstadosNext, Diagrama!Crear, Diagrama!Mover
  <1> QED BY <1>1, <1>2, <1>3, <1>4, FormaDelPaso

LEMMA DiagramaInicial == Init => Diagrama!EstadosInit
  <1> SUFFICES ASSUME Init PROVE EstadoDeCada = [p \in Procesos |-> "SIN_CREAR"]
    BY DEF Diagrama!EstadosInit
  <1>1. /\ \A c \in Colas : colas[c] = <<>>
        /\ \A h \in Hilos : ~Sostiene(h)
    BY DEF Init, Sostiene
  <1>2. /\ \A p \in Procesos, c \in Colas : ~EnCola(p, c)
        /\ \A p \in Procesos, h \in Hilos : ~EnMano(p, h)
    BY <1>1 DEF EnCola, EnMano, Esta
  <1> QED BY <1>2, CustodiaInicial, EstadoUnico DEF EstadoDeCada

(* The six threads, their queues and their semaphores implement the         *)
(* process-state diagram: a removal is a stuttering step, an append is one  *)
(* arrow, and a process is admitted within the degree while nobody has been *)
(* found missing from its queue.                                            *)
THEOREM ElPlanificadorCumpleElDiagrama == Spec => CumpleDiagrama
  <1> DEFINE IInv == TypeOK /\ Rutas /\ Custodia /\ GradoInv
  <1>1. Init => IInv /\ Diagrama!EstadosInit
    BY TipoInicial, RutasIniciales, CustodiaInicial, GradoInicial, DiagramaInicial
  <1>2. IInv /\ [Next]_vars => IInv'
    BY TipoInductivo, RutasInductivas, CustodiaInductiva, GradoInductivo
  <1>3. IInv /\ IInv' /\ [Next]_vars => [SinNulos => Diagrama!EstadosNext]_EstadoDeCada
    BY DiagramaPaso
  <1> QED BY <1>1, <1>2, <1>3, PTL DEF Spec, CumpleDiagrama

-----------------------------------------------------------------------------
(* The choice of planificar_por_vrr.                                       *)

(* corto_plazo has taken a unit of contador_readys and not yet one of the  *)
(* counter of the queue it chose.                                          *)
Eligio == pc["corto"] \in {"evaluar1", "pausa1", "contador"}

(* A PCB that is in READY or READY+ was announced in contador_readys, or   *)
(* will be by the thread that has just put it there.                       *)
Anunciados ==
    sem["readys"] + Uno(Eligio) + Uno(pc["exec_ready"] = "fin") + Uno(pc["blocked_ready"] = "fin")
        = contador["READY"] + contador["READY+"]

EleccionRespaldada == Eligio => contador[viaje["corto"].de] > 0

VrrInv == Algoritmo = "VRR" => Anunciados /\ EleccionRespaldada

(* A step that concerns neither the counters nor those three threads.      *)
Ajeno ==
    /\ contador'["READY"] = contador["READY"] /\ contador'["READY+"] = contador["READY+"]
    /\ sem'["readys"] = sem["readys"]
    /\ pc'["exec_ready"] = "fin" <=> pc["exec_ready"] = "fin"
    /\ pc'["blocked_ready"] = "fin" <=> pc["blocked_ready"] = "fin"
    /\ Eligio' <=> Eligio
    /\ Eligio => viaje'["corto"] = viaje["corto"]

LEMMA VrrAjeno == ASSUME Rutas, VrrInv, Ajeno PROVE VrrInv'
  <1>1. Anunciados => Anunciados'
    BY DEF Ajeno, Anunciados, Uno
  <1>2. EleccionRespaldada => EleccionRespaldada'
    BY DEF Ajeno, EleccionRespaldada, Rutas
  <1> QED BY <1>1, <1>2 DEF VrrInv

LEMMA AjenoSalto ==
    ASSUME TypeOK, NEW h \in Hilos, NEW l \in Pasos, Salta(h, l), contador' = contador,
           sem'["readys"] = sem["readys"],
           Eligio => viaje'["corto"] = viaje["corto"],
           h = "corto" => (l \in {"evaluar1", "pausa1", "contador"} <=> Eligio),
           h \in {"exec_ready", "blocked_ready"} => l # "fin" /\ pc[h] # "fin"
    PROVE  Ajeno
  <1>1. pc \in [Hilos -> Pasos] /\ pc' = [pc EXCEPT ![h] = l]
        /\ {"corto", "exec_ready", "blocked_ready"} \subseteq Hilos
    BY DEF TypeOK, TipoHilos, Salta, Hilos
  <1> QED BY <1>1 DEF Ajeno, Eligio

LEMMA AjenoQuieto ==
    ASSUME UNCHANGED <<contador, pc, viaje>>, sem'["readys"] = sem["readys"]
    PROVE  Ajeno
  BY DEF Ajeno, Eligio

(* A step within a transition, other than its sem_wait on the counter.     *)
LEMMA AjenoTransicion ==
    ASSUME TypeOK, NEW h \in Hilos,
           EvaluarPlanificacion(h) \/ ReanudarPlanificacion(h) \/ Sacar(h)
    PROVE  Ajeno
  <1>1. PICK l \in Pasos :
           /\ Salta(h, l) /\ UNCHANGED <<contador, viaje, sem>> /\ l # "fin" /\ pc[h] # "fin"
           /\ l \in {"evaluar1", "pausa1", "contador"}
                 <=> pc[h] \in {"evaluar1", "pausa1", "contador"}
    <2>1. CASE EvaluarPlanificacion(h)
      BY <2>1 DEF EvaluarPlanificacion, Evaluar, Pasos
    <2>2. CASE ReanudarPlanificacion(h)
      BY <2>2 DEF ReanudarPlanificacion, Reanudar, Pasos
    <2>3. CASE Sacar(h)
      BY <2>3 DEF Sacar, Pasos
    <2> QED BY <2>1, <2>2, <2>3
  <1> QED BY <1>1, AjenoSalto DEF Eligio

(* The sem_wait takes the unit that was set aside.                         *)
LEMMA VrrEsperar ==
    ASSUME TypeOK, Rutas, VrrInv, NEW h \in Hilos, EsperarContador(h)
    PROVE  VrrInv'
  <1>0. /\ pc \in [Hilos -> Pasos] /\ contador \in [Colas -> Nat]
        /\ pc' = [pc EXCEPT ![h] = "evaluar2"] /\ viaje' = viaje /\ sem' = sem
        /\ {"READY", "READY+", "NEW", "EXEC", "BLOCK"} \subseteq Colas
        /\ contador' = [contador EXCEPT ![viaje[h].de] = @ - 1]
        /\ pc[h] = "contador"
        /\ {"corto", "exec_ready", "blocked_ready"} \subseteq Hilos
    BY DEF TypeOK, TipoHilos, TipoColas, EsperarContador, Salta, Colas, Hilos
  <1>1. CASE h = "corto"
    <2>1. Eligio /\ ~Eligio'
      BY <1>0, <1>1 DEF Eligio
    <2>2. pc'["exec_ready"] = pc["exec_ready"] /\ pc'["blocked_ready"] = pc["blocked_ready"]
      BY <1>0, <1>1
    <2>3. PICK c \in {"READY", "READY+"} : c = viaje["corto"].de
      BY DEF Rutas
    <2>4. /\ contador["READY"] \in Nat /\ contador["READY+"] \in Nat
          /\ contador'["READY"] + contador'["READY+"] = contador["READY"] + contador["READY+"] - 1
      BY <1>0, <1>1, <2>3
    <2>5. Anunciados => Anunciados'
      BY <1>0, <2>1, <2>2, <2>4 DEF Anunciados, Uno, TypeOK, TipoHilos, Semaforos
    <2> QED BY <2>1, <2>5 DEF VrrInv, EleccionRespaldada
  <1>2. CASE h # "corto"
    <2>1. viaje[h].de \in Colas \ {"READY", "READY+"}
      BY <1>0, <1>2 DEF Rutas, Trayectos, Viaje, Hilos
    <2>2. Ajeno
      BY <1>0, <1>2, <2>1 DEF Ajeno, Eligio
    <2> QED BY <2>2, VrrAjeno
  <1> QED BY <1>1, <1>2

(* The append to READY or READY+ is announced with it (largo_plazo) or     *)
(* leaves the thread about to announce it.                                 *)
LEMMA VrrAgregar ==
    ASSUME TypeOK, Rutas, VrrInv, NEW h \in Hilos, NEW s, AgregarAEstado(h, s),
           NEW l \in Pasos, Salta(h, l),
           \/ h = "largo" /\ l = "disparo" /\ s = PostReadys(sem)
           \/ h = "exit_largo" /\ l = "disparo" /\ s["readys"] = sem["readys"]
           \/ h \notin {"largo", "exit_largo"} /\ l = "fin" /\ s = sem
    PROVE  VrrInv'
  <1> SUFFICES ASSUME Algoritmo = "VRR" PROVE Anunciados' /\ EleccionRespaldada'
    BY DEF VrrInv
  <1>0. /\ pc \in [Hilos -> Pasos] /\ contador \in [Colas -> Nat] /\ sem \in [Semaforos -> Nat]
        /\ viaje \in [Hilos -> Viajes]
        /\ pc' = [pc EXCEPT ![h] = l] /\ viaje' = viaje /\ sem' = s
        /\ {"READY", "READY+", "EXEC", "EXIT", "BLOCK"} \subseteq Colas
        /\ contador' = [contador EXCEPT ![viaje[h].a] = @ + 1]
        /\ pc[h] = "agregar"
        /\ {"corto", "exec_ready", "blocked_ready", "largo"} \subseteq Hilos /\ "readys" \in Semaforos
    BY DEF TypeOK, TipoHilos, TipoColas, AgregarAEstado, Salta, Colas, Hilos, Semaforos
  <1>1. /\ sem["readys"] \in Nat /\ contador["READY"] \in Nat /\ contador["READY+"] \in Nat
        /\ Anunciados /\ EleccionRespaldada
    BY <1>0 DEF VrrInv
  <1>2. Eligio' <=> Eligio
    BY <1>0 DEF Eligio
  <1>3. ASSUME h \in {"largo", "exec_ready", "blocked_ready"} PROVE Anunciados' /\ EleccionRespaldada'
    <2>1. PICK c \in {"READY", "READY+"} : c = viaje[h].a
      BY <1>3 DEF Rutas, Trayectos, Viaje
    <2>2. contador'["READY"] + contador'["READY+"] = contador["READY"] + contador["READY+"] + 1
      BY <1>0, <1>1, <2>1
    <2>3. \A d \in {"READY", "READY+"} : contador'[d] >= contador[d] /\ contador[d] \in Nat
                                          /\ contador'[d] \in Nat
      BY <1>0, <1>1, <2>1
    <2>4. EleccionRespaldada'
      BY <1>0, <1>1, <1>2, <2>3 DEF EleccionRespaldada, Rutas
    <2>5. CASE h = "largo"
      <3>1. /\ sem'["readys"] = sem["readys"] + 1
            /\ pc'["exec_ready"] = pc["exec_ready"] /\ pc'["blocked_ready"] = pc["blocked_ready"]
        BY <1>0, <2>5 DEF PostReadys
      <3> QED BY <1>1, <1>2, <2>2, <2>4, <3>1 DEF Anunciados, Uno
    <2>6. CASE h = "exec_ready"
      <3>1. /\ sem'["readys"] = sem["readys"]
            /\ pc'["exec_ready"] = "fin" /\ pc["exec_ready"] # "fin"
            /\ pc'["blocked_ready"] = pc["blocked_ready"]
        BY <1>0, <2>6
      <3> QED BY <1>1, <1>2, <2>2, <2>4, <3>1 DEF Anunciados, Uno
    <2>7. CASE h = "blocked_ready"
      <3>1. /\ sem'["readys"] = sem["readys"]
            /\ pc'["blocked_ready"] = "fin" /\ pc["blocked_ready"] # "fin"
            /\ pc'["exec_ready"] = pc["exec_ready"]
        BY <1>0, <2>7
      <3> QED BY <1>1, <1>2, <2>2, <2>4, <3>1 DEF Anunciados, Uno
    <2> QED BY <1>3, <2>5, <2>6, <2>7
  <1>4. ASSUME h \in {"corto", "exit_largo", "exec_blocked"} PROVE Anunciados' /\ EleccionRespaldada'
    <2>1. viaje[h].a \in Colas \ {"READY", "READY+"}
      BY <1>0, <1>4 DEF Rutas, Trayectos, Viaje
    <2>2. Ajeno
      BY <1>0, <1>2, <1>4, <2>1 DEF Ajeno
    <2> QED BY <2>2, VrrAjeno DEF VrrInv
  <1> QED BY <1>3, <1>4 DEF Hilos

(* contador_readys is taken, and the queue is chosen by the counters.      *)
LEMMA VrrReadys == ASSUME TypeOK, Rutas, VrrInv, CortoReadys PROVE VrrInv'
  <1> SUFFICES ASSUME Algoritmo = "VRR" PROVE Anunciados' /\ EleccionRespaldada'
    BY DEF VrrInv
  <1>0. /\ sem["readys"] \in Nat /\ contador["READY"] \in Nat /\ contador["READY+"] \in Nat
        /\ sem["readys"] > 0 /\ sem'["readys"] = sem["readys"] - 1 /\ contador' = contador
        /\ pc["corto"] = "readys" /\ pc'["corto"] = "evaluar1"
        /\ pc'["exec_ready"] = pc["exec_ready"] /\ pc'["blocked_ready"] = pc["blocked_ready"]
        /\ viaje'["corto"].de = IF contador["READY+"] > 0 THEN "READY+" ELSE "READY"
    BY DEF CortoReadys, Salta, TypeOK, TipoHilos, TipoColas, Semaforos, Colas, Hilos, Viajes
  <1>1. ~Eligio /\ Eligio' /\ Anunciados
    BY <1>0 DEF Eligio, VrrInv
  <1>2. Anunciados'
    BY <1>0, <1>1 DEF Anunciados, Uno
  <1>3. contador["READY"] + contador["READY+"] > 0
    BY <1>0, <1>1 DEF Anunciados, Uno
  <1>4. EleccionRespaldada'
    BY <1>0, <1>3 DEF EleccionRespaldada
  <1> QED BY <1>2, <1>4

(* The two threads that announce what they appended.                       *)
LEMMA VrrAnuncia ==
    ASSUME TypeOK, Rutas, VrrInv, ExecReadyFin \/ BlockedReadyFin
    PROVE  VrrInv'
  <1> SUFFICES ASSUME Algoritmo = "VRR" PROVE Anunciados' /\ EleccionRespaldada'
    BY DEF VrrInv
  <1>0. /\ sem["readys"] \in Nat /\ contador["READY"] \in Nat /\ contador["READY+"] \in Nat
        /\ sem \in [Semaforos -> Nat] /\ {"readys", "exec_libre"} \subseteq Semaforos
        /\ pc \in [Hilos -> Pasos] /\ {"corto", "exec_ready", "blocked_ready"} \subseteq Hilos
        /\ Anunciados /\ EleccionRespaldada
    BY DEF TypeOK, TipoHilos, TipoColas, Semaforos, Colas, Hilos, VrrInv
  <1>1. /\ contador' = contador /\ viaje' = viaje
        /\ sem'["readys"] = sem["readys"] + 1 /\ pc'["corto"] = pc["corto"]
        /\ \/ /\ pc["exec_ready"] = "fin" /\ pc'["exec_ready"] = "disparo"
              /\ pc'["blocked_ready"] = pc["blocked_ready"]
           \/ /\ pc["blocked_ready"] = "fin" /\ pc'["blocked_ready"] = "disparo"
              /\ pc'["exec_ready"] = pc["exec_ready"]
    <2>1. CASE ExecReadyFin
      BY <1>0, <2>1 DEF ExecReadyFin, Vuelve, Salta, PostReadys
    <2>2. CASE BlockedReadyFin
      BY <1>0, <2>2 DEF BlockedReadyFin, Vuelve, Salta, PostReadys
    <2> QED BY <2>1, <2>2
  <1>2. Eligio' <=> Eligio
    BY <1>1 DEF Eligio
  <1>3. Anunciados'
    BY <1>0, <1>1, <1>2 DEF Anunciados, Uno
  <1>4. EleccionRespaldada'
    BY <1>0, <1>1, <1>2 DEF EleccionRespaldada
  <1> QED BY <1>3, <1>4

LEMMA VrrTransicion ==
    ASSUME TypeOK, Rutas, VrrInv, NEW h \in Hilos, TransicionGenerica(h)
    PROVE  VrrInv'
  BY AjenoTransicion, VrrAjeno, VrrEsperar DEF TransicionGenerica

LEMMA VrrAgregarYSeguir ==
    ASSUME TypeOK, Rutas, VrrInv, NEW h \in Hilos \ {"largo", "exit_largo"}, AgregarYSeguir(h)
    PROVE  VrrInv'
  <1>1. "fin" \in Pasos
    BY DEF Pasos
  <1> QED BY <1>1, VrrAgregar DEF AgregarYSeguir

LEMMA VrrHilos ==
    ASSUME TypeOK, Rutas, VrrInv,
           LargoPlazo \/ CortoPlazo \/ ExitLargoPlazo \/ ExecReady \/ ExecBlocked \/ BlockedReady
    PROVE  VrrInv'
  <1> SUFFICES ASSUME Algoritmo = "VRR" PROVE VrrInv'
    BY DEF VrrInv
  <1>0. /\ {"grado", "readys", "elegir", "evaluar1", "disparo", "quantum", "join", "timer",
             "timer2"} \subseteq Pasos
        /\ {"largo", "corto", "exit_largo", "exec_ready", "exec_blocked", "blocked_ready"} = Hilos
        /\ pc \in [Hilos -> Pasos] /\ viaje \in [Hilos -> Viajes] /\ sem \in [Semaforos -> Nat]
        /\ {"GRADO", "en_new", "exec_libre", "readys", "t_exit_largo", "t_exec_ready",
            "t_exec_blocked", "t_blocked_ready"} = Semaforos
    BY DEF Pasos, Hilos, Semaforos, TypeOK, TipoHilos
  <1>1. ASSUME NEW h \in Hilos, NEW s \in Semaforos \ {"readys"},
               NEW l \in Pasos \ {"fin"}, Disparo(h, s, l),
               h = "corto" => l = "readys"
        PROVE  Ajeno
    <2>1. Salta(h, l) /\ sem'["readys"] = sem["readys"] /\ pc[h] = "disparo"
          /\ UNCHANGED <<contador, viaje>>
      BY <1>0, <1>1 DEF Disparo
    <2>2. h = "corto" => (l \in {"evaluar1", "pausa1", "contador"} <=> Eligio)
      BY <1>1, <2>1 DEF Eligio
    <2> QED BY <1>1, <2>1, <2>2, AjenoSalto
  <1>2. CASE LargoPlazo
    <2>1. CASE LargoDisparo
      BY <1>0, <1>1, <2>1, VrrAjeno DEF LargoDisparo
    <2>2. CASE LargoGrado
      BY <1>0, <2>2, AjenoSalto, VrrAjeno DEF LargoGrado
    <2>3. CASE LargoAgregar
      BY <1>0, <2>3, VrrAgregar DEF LargoAgregar, Vuelve
    <2> QED BY <1>0, <1>2, <2>1, <2>2, <2>3, VrrTransicion DEF LargoPlazo
  <1>3. CASE ExitLargoPlazo
    <2>1. CASE ExitDisparo
      BY <1>0, <1>1, <2>1, VrrAjeno DEF ExitDisparo
    <2>2. CASE ExitAgregar
      <3> DEFINE s == [sem EXCEPT !["GRADO"] = @ + 1, !["exec_libre"] = @ + 1]
      <3>1. AgregarAEstado("exit_largo", s) /\ Salta("exit_largo", "disparo")
        BY <2>2 DEF ExitAgregar, Vuelve
      <3>2. s["readys"] = sem["readys"]
        BY <1>0
      <3> HIDE DEF s
      <3> QED BY <1>0, <3>1, <3>2, VrrAgregar
    <2> QED BY <1>0, <1>3, <2>1, <2>2, VrrTransicion DEF ExitLargoPlazo
  <1>4. CASE CortoPlazo
    <2>1. CASE CortoDisparo
      BY <1>0, <1>1, <2>1, VrrAjeno DEF CortoDisparo
    <2>2. CASE CortoReadys
      BY <2>2, VrrReadys
    <2>3. CASE CortoEnviar
      BY <1>0, <2>3, AjenoSalto, VrrAjeno DEF CortoEnviar, Vuelve, Eligio
    <2>4. CASE CortoCrearQuantum
      BY <1>0, <2>4, AjenoSalto, VrrAjeno DEF CortoCrearQuantum, Eligio
    <2>5. CASE CortoJoin
      BY <1>0, <2>5, AjenoSalto, VrrAjeno DEF CortoJoin, Vuelve, Eligio
    <2>6. CASE CortoTimer
      BY <1>0, <2>6, AjenoSalto, VrrAjeno DEF CortoTimer, Vuelve, Eligio
    <2> QED BY <1>0, <1>4, <2>1, <2>2, <2>3, <2>4, <2>5, <2>6, VrrTransicion, VrrAgregarYSeguir
            DEF CortoPlazo
  <1>5. CASE ExecReady
    <2>1. CASE ExecReadyDisparo
      BY <1>0, <1>1, <2>1, VrrAjeno DEF ExecReadyDisparo
    <2> QED BY <1>0, <1>5, <2>1, VrrAnuncia, VrrTransicion, VrrAgregarYSeguir DEF ExecReady
  <1>6. CASE ExecBlocked
    <2>1. CASE ExecBlockedDisparo
      BY <1>0, <2>1, AjenoSalto, VrrAjeno DEF ExecBlockedDisparo
    <2>2. CASE ExecBlockedFin
      BY <1>0, <2>2, AjenoSalto, VrrAjeno DEF ExecBlockedFin, Vuelve
    <2> QED BY <1>0, <1>6, <2>1, <2>2, VrrTransicion, VrrAgregarYSeguir DEF ExecBlocked
  <1>7. CASE BlockedReady
    <2>1. CASE BlockedReadyDisparo
      BY <1>0, <1>1, <2>1, VrrAjeno DEF BlockedReadyDisparo
    <2>2. CASE BlockedReadyElegir
      BY <1>0, <2>2, AjenoSalto, VrrAjeno DEF BlockedReadyElegir
    <2> QED BY <1>0, <1>7, <2>1, <2>2, VrrAnuncia, VrrTransicion, VrrAgregarYSeguir DEF BlockedReady
  <1> QED BY <1>2, <1>3, <1>4, <1>5, <1>6, <1>7

LEMMA VrrInicial == Init => VrrInv
  <1> SUFFICES ASSUME Init PROVE Anunciados /\ EleccionRespaldada
    BY DEF VrrInv
  <1>1. /\ sem["readys"] = 0 /\ contador["READY"] = 0 /\ contador["READY+"] = 0
        /\ pc["corto"] = "disparo" /\ pc["exec_ready"] = "disparo" /\ pc["blocked_ready"] = "disparo"
    BY DEF Init, Semaforos, Colas, Hilos
  <1> QED BY <1>1 DEF Anunciados, EleccionRespaldada, Eligio, Uno

LEMMA VrrInductivo ==
    ASSUME TypeOK, Rutas, VrrInv, [Next]_vars
    PROVE  VrrInv'
  <1>0. sem \in [Semaforos -> Nat] /\ "readys" \in Semaforos
        /\ {"en_new", "t_exit_largo", "t_exec_ready", "t_exec_blocked", "t_blocked_ready"}
              \subseteq Semaforos
        /\ contador \in [Colas -> Nat]
    BY DEF Semaforos, TypeOK, TipoHilos, TipoColas
  <1>1. CASE IniciarPlanificacion \/ DetenerPlanificacion \/ QuantumVence
    BY <1>1, AjenoQuieto, VrrAjeno DEF IniciarPlanificacion, DetenerPlanificacion, QuantumVence
  <1>2. ASSUME NEW p \in Procesos, IniciarProceso(p) PROVE VrrInv'
    <2>1. Ajeno
      BY <1>0, <1>2 DEF IniciarProceso, Ajeno, Eligio, Colas
    <2> QED BY <2>1, VrrAjeno
  <1>3. CASE HiloDispatch
    BY <1>0, <1>3, AjenoQuieto, VrrAjeno
       DEF HiloDispatch, DsFinalizar, DsFinDeQuantum, DsInterfaz, DsInterfazCde
  <1>4. ASSUME NEW i \in Interfaces, InterfazConectada(i) PROVE VrrInv'
    BY <1>0, <1>4, AjenoQuieto, VrrAjeno DEF InterfazConectada, IoTomar, IoConcluir, IoAvisar
  <1>5. CASE CpuRecibir \/ CpuEjecutar \/ CheckInterrupt \/ CpuInterrupt
    BY <1>5, AjenoQuieto, VrrAjeno DEF CpuRecibir, CpuEjecutar, CpuCalcular, CpuExit, CpuPedirIO,
       CheckInterrupt, CpuInterrupt, InterruptMirar, InterruptEsperar, InterruptRecibir
  <1>6. CASE UNCHANGED vars
    BY <1>6, AjenoQuieto, VrrAjeno DEF vars
  <1> QED BY <1>1, <1>2, <1>3, <1>4, <1>5, <1>6, VrrHilos DEF Next, Consola

(* Under VRR corto_plazo looks at one counter, not under the mutex of the   *)
(* queue, and waits on a counter later: the queue it chose then still has a *)
(* unit for it, because nobody else takes from READY or READY+.             *)
THEOREM VrrNuncaEsperaEnVanoSiempre == Spec => []VrrNuncaEsperaEnVano
  <1> DEFINE IInv == TypeOK /\ Rutas /\ VrrInv
  <1>1. Init => IInv
    BY TipoInicial, RutasIniciales, VrrInicial
  <1>2. IInv /\ [Next]_vars => IInv'
    BY TipoInductivo, RutasInductivas, VrrInductivo
  <1>3. IInv => VrrNuncaEsperaEnVano
    BY DEF VrrInv, EleccionRespaldada, Eligio, VrrNuncaEsperaEnVano
  <1> QED BY <1>1, <1>2, <1>3, PTL DEF Spec

-----------------------------------------------------------------------------
(* The right to use the CPU.                                               *)

(* A sequence of two elements or more is neither empty nor a singleton.   *)
LEMMA DosOMas ==
    ASSUME NEW S, NEW s \in Seq(S), Len(s) >= 2
    PROVE  s # <<>> /\ Len(s) # 1
  <1>1. Len(s) \in Nat
    BY LenProperties
  <1>2. Len(s) # 1
    <2> DEFINE k == Len(s)
    <2>1. k \in Nat /\ k >= 2
      BY <1>1
    <2> HIDE DEF k
    <2>2. k # 1 /\ k # 0
      BY <2>1
    <2> QED BY <2>2 DEF k
  <1>3. Len(s) # 0
    <2> DEFINE k == Len(s)
    <2>1. k \in Nat /\ k >= 2
      BY <1>1
    <2> HIDE DEF k
    <2>2. k # 0
      BY <2>1
    <2> QED BY <2>2 DEF k
  <1> QED BY <1>2, <1>3, EmptySeq

(* A message appended to a single one comes second.                        *)
LEMMA ElSegundo ==
    ASSUME NEW S, NEW s \in Seq(S), NEW x \in S, Len(s) = 1
    PROVE  Len(Append(s, x)) = 2 /\ Append(s, x)[1] = s[1] /\ Append(s, x)[2] = x
  <1> DEFINE t == Append(s, x)
  <1>1. /\ t \in Seq(S) /\ Len(t) = Len(s) + 1 /\ t[Len(s) + 1] = x
        /\ \A i \in 1..Len(s) : t[i] = s[i]
    BY AppendProperties
  <1> HIDE DEF t
  <1>2. 1 \in 1..1 /\ 1 + 1 = 2
    OBVIOUS
  <1>3. Len(t) = 2 /\ t[2] = x /\ t[1] = s[1]
    BY <1>1, <1>2
  <1> QED BY <1>3 DEF t

Contestan == {i \in DOMAIN aKernel : aKernel[i].op # "INSTRUCCION_INTERFAZ"}

FichasDelKernel ==
    sem["exec_libre"] + Uno(ConFicha("corto"))
    + sem["t_exit_largo"] + Uno(ConFicha("exit_largo"))
    + sem["t_exec_ready"] + Uno(ConFicha("exec_ready")) + sem["t_exec_blocked"]

FichasDeLaCpu ==
    Len(aCpu) + Uno(cpu.paso # "libre" /\ cpu.salida) + Cardinality(Contestan)

(* What the CPU has said and the kernel has not read: nothing, a request   *)
(* to an interface with or without the context that completes it, or the   *)
(* end of the process.                                                     *)
Callada   == aKernel = <<>> /\ ds = "op" /\ cpu.io = FALSE
Pidiendo  == Len(aKernel) = 1 /\ aKernel[1].op = "INSTRUCCION_INTERFAZ"
             /\ cpu.io = TRUE /\ cpu.paso = "chequear" /\ cpu.salida = TRUE
Pedido    == Len(aKernel) = 2 /\ aKernel[1].op = "INSTRUCCION_INTERFAZ" /\ aKernel[2].op = "CDE"
             /\ cpu.io = FALSE
Terminado == Len(aKernel) = 1 /\ aKernel[1].op = "FINALIZAR_PROCESO" /\ ds = "op" /\ cpu.io = FALSE

SinInterrupciones ==
    /\ aInterrupt = 0 /\ cpu.rr = FALSE
    /\ cpu.paso = "ejecutar" => cpu.salida = TRUE
    /\ Callada \/ Pidiendo \/ Pedido \/ Terminado

FichaUnica == SinInterrupciones /\ FichasDelKernel + FichasDeLaCpu = 1

FichaInv ==
    /\ restaQuanta <= MaxQuanta
    /\ caido = FALSE /\ restaQuanta = MaxQuanta => FichaUnica

LEMMA FichasEnDos ==
    ASSUME TypeOK
    PROVE  /\ Fichas = FichasDelKernel + FichasDeLaCpu
           /\ FichasDelKernel \in Nat /\ FichasDeLaCpu \in Nat
           /\ IsFiniteSet(Contestan) /\ Cardinality(Contestan) \in Nat /\ Len(aCpu) \in Nat
  <1>1. /\ sem["exec_libre"] \in Nat /\ sem["t_exit_largo"] \in Nat
        /\ sem["t_exec_ready"] \in Nat /\ sem["t_exec_blocked"] \in Nat
    BY DEF TypeOK, TipoHilos, Semaforos
  <1>2. \A b : Uno(b) \in Nat
    BY DEF Uno
  <1>3. Len(aCpu) \in Nat /\ DOMAIN aKernel = 1..Len(aKernel) /\ Len(aKernel) \in Nat
    BY DEF TypeOK, TipoCanales
  <1>4. IsFiniteSet(Contestan) /\ Cardinality(Contestan) \in Nat
    <2>1. IsFiniteSet(1..Len(aKernel)) /\ Contestan \subseteq 1..Len(aKernel)
      BY <1>3, FS_Interval DEF Contestan
    <2>2. IsFiniteSet(Contestan)
      BY <2>1, FS_Subset
    <2> QED BY <2>2, FS_CardinalityType
  <1> DEFINE c == Uno(ConFicha("corto"))
             x == Uno(ConFicha("exit_largo"))
             r == Uno(ConFicha("exec_ready"))
             u == Uno(cpu.paso # "libre" /\ cpu.salida)
             n == Cardinality(Contestan)
             l == Len(aCpu)
             s1 == sem["exec_libre"]
             s2 == sem["t_exit_largo"]
             s3 == sem["t_exec_ready"]
             s4 == sem["t_exec_blocked"]
  <1>5. /\ Fichas = s1 + c + l + u + n + s2 + x + s3 + r + s4
        /\ FichasDelKernel = s1 + c + s2 + x + s3 + r + s4
        /\ FichasDeLaCpu = l + u + n
    BY Zenon DEF Fichas, FichasDelKernel, FichasDeLaCpu, Contestan
  <1>6. c \in Nat /\ x \in Nat /\ r \in Nat /\ u \in Nat
    BY DEF Uno
  <1>7. n \in Nat /\ l \in Nat /\ s1 \in Nat /\ s2 \in Nat /\ s3 \in Nat /\ s4 \in Nat
    BY <1>1, <1>3, <1>4
  <1> HIDE DEF c, x, r, u, n, l, s1, s2, s3, s4
  <1>8. /\ Fichas = FichasDelKernel + FichasDeLaCpu
        /\ FichasDelKernel \in Nat /\ FichasDeLaCpu \in Nat
    BY <1>5, <1>6, <1>7
  <1> QED BY <1>3, <1>4, <1>8

(* How many messages of each case count.                                   *)
Cuenta ==
    /\ aKernel = <<>> => Cardinality(Contestan) = 0
    /\ Len(aKernel) = 1 /\ aKernel[1].op = "INSTRUCCION_INTERFAZ" => Cardinality(Contestan) = 0
    /\ Len(aKernel) = 1 /\ aKernel[1].op # "INSTRUCCION_INTERFAZ" => Cardinality(Contestan) = 1
    /\ Len(aKernel) = 2 /\ aKernel[1].op = "INSTRUCCION_INTERFAZ"
          /\ aKernel[2].op # "INSTRUCCION_INTERFAZ" => Cardinality(Contestan) = 1

LEMMA CuantosContestan == TypeOK => Cuenta
  <1> SUFFICES ASSUME TypeOK PROVE Cuenta
    OBVIOUS
  <1>1. DOMAIN aKernel = 1..Len(aKernel)
    BY DEF TypeOK, TipoCanales
  <1>2. Cardinality({}) = 0 /\ Cardinality({1}) = 1 /\ Cardinality({2}) = 1
    BY FS_EmptySet, FS_Singleton
  <1>3. aKernel = <<>> => Contestan = {}
    BY DEF Contestan
  <1>4. Len(aKernel) = 1 /\ aKernel[1].op = "INSTRUCCION_INTERFAZ" => Contestan = {}
    BY <1>1 DEF Contestan
  <1>5. Len(aKernel) = 1 /\ aKernel[1].op # "INSTRUCCION_INTERFAZ" => Contestan = {1}
    BY <1>1 DEF Contestan
  <1>6. Len(aKernel) = 2 /\ aKernel[1].op = "INSTRUCCION_INTERFAZ"
           /\ aKernel[2].op # "INSTRUCCION_INTERFAZ" => Contestan = {2}
    BY <1>1 DEF Contestan
  <1> QED BY <1>2, <1>3, <1>4, <1>5, <1>6 DEF Cuenta

LEMMA CuantosContestaran == TypeOK' => Cuenta'
  BY CuantosContestan, PTL

LEMMA FichaInicial == Init => FichaInv
  <1> SUFFICES ASSUME Init PROVE FichaInv
    OBVIOUS
  <1>1. TypeOK
    BY TipoInicial
  <1>2. Cardinality(Contestan) = 0
    BY <1>1, CuantosContestan DEF Init, Cuenta
  <1>3. FichasDelKernel = 1
    BY DEF Init, FichasDelKernel, ConFicha, Uno, Semaforos, Hilos
  <1>4. FichasDeLaCpu = 0
    BY <1>2 DEF Init, FichasDeLaCpu, Uno
  <1>5. SinInterrupciones
    BY DEF Init, SinInterrupciones, Callada
  <1> QED BY <1>3, <1>4, <1>5, CotasAssumption DEF FichaInv, FichaUnica, Init

(* A step within the kernel that keeps the token in it.                    *)
LEMMA FichaEnElKernel ==
    ASSUME FichaInv, ~caido, UNCHANGED <<ds, vCanales, cpu, restaQuanta>>,
           FichasDelKernel' = FichasDelKernel
    PROVE  FichaInv'
  <1>1. FichasDeLaCpu' = FichasDeLaCpu
    BY DEF FichasDeLaCpu, Contestan, vCanales
  <1>2. SinInterrupciones => SinInterrupciones'
    BY DEF SinInterrupciones, Callada, Pidiendo, Pedido, Terminado, vCanales
  <1>3. restaQuanta' = restaQuanta
    OBVIOUS
  <1>4. caido = FALSE
    OBVIOUS
  <1> QED BY <1>1, <1>2, <1>3, <1>4 DEF FichaInv, FichaUnica

(* Steps that move no token.                                               *)
ConFichas == {"corto", "exit_largo", "exec_ready"}
DeFichas == {"exec_libre", "t_exit_largo", "t_exec_ready", "t_exec_blocked"}

LEMMA MismasFichas ==
    ASSUME \A h \in ConFichas : ConFicha(h)' <=> ConFicha(h), \A s \in DeFichas : sem'[s] = sem[s]
    PROVE  FichasDelKernel' = FichasDelKernel
  <1>1. \A h \in ConFichas : Uno(ConFicha(h)') = Uno(ConFicha(h))
    BY DEF Uno
  <1>2. /\ Uno(ConFicha("corto")') = Uno(ConFicha("corto"))
        /\ Uno(ConFicha("exit_largo")') = Uno(ConFicha("exit_largo"))
        /\ Uno(ConFicha("exec_ready")') = Uno(ConFicha("exec_ready"))
    BY <1>1 DEF ConFichas
  <1>3. /\ sem'["exec_libre"] = sem["exec_libre"] /\ sem'["t_exit_largo"] = sem["t_exit_largo"]
        /\ sem'["t_exec_ready"] = sem["t_exec_ready"] /\ sem'["t_exec_blocked"] = sem["t_exec_blocked"]
    BY DEF DeFichas
  <1> QED BY <1>2, <1>3, Zenon DEF FichasDelKernel

LEMMA FichasAlSaltar ==
    ASSUME TypeOK, NEW h \in Hilos, NEW l, Salta(h, l),
           h \in ConFichas => (ConFicha(h) <=> l \notin {"disparo", "quantum", "join", "timer", "timer2"}),
           \A s \in DeFichas : sem'[s] = sem[s]
    PROVE  FichasDelKernel' = FichasDelKernel
  <1>1. pc \in [Hilos -> Pasos] /\ pc' = [pc EXCEPT ![h] = l]
    BY DEF TypeOK, TipoHilos, Salta
  <1>2. ConFichas \subseteq Hilos
    BY DEF ConFichas, Hilos
  <1>3. \A k \in ConFichas : ConFicha(k)' <=> ConFicha(k)
    BY <1>1, <1>2 DEF ConFicha
  <1> QED BY <1>3, MismasFichas

LEMMA FichasTransicion ==
    ASSUME TypeOK, NEW h \in Hilos, TransicionGenerica(h)
    PROVE  FichasDelKernel' = FichasDelKernel
  <1>1. sem' = sem
    BY DEF TransicionGenerica, EvaluarPlanificacion, ReanudarPlanificacion, Evaluar, Reanudar,
           EsperarContador, Sacar
  <1>2. \E l : /\ Salta(h, l)
               /\ l \notin {"disparo", "quantum", "join", "timer", "timer2"}
    BY DEF TransicionGenerica, EvaluarPlanificacion, ReanudarPlanificacion, Evaluar, Reanudar,
           EsperarContador, Sacar
  <1>3. ConFicha(h)
    BY DEF TransicionGenerica, EvaluarPlanificacion, ReanudarPlanificacion, Evaluar, Reanudar,
           EsperarContador, Sacar, ConFicha
  <1> QED BY <1>1, <1>2, <1>3, FichasAlSaltar

LEMMA FichasAgregarYSeguir ==
    ASSUME TypeOK, NEW h \in Hilos, AgregarYSeguir(h)
    PROVE  FichasDelKernel' = FichasDelKernel
  <1>1. sem' = sem /\ pc[h] = "agregar" /\ Salta(h, "fin")
    BY DEF AgregarYSeguir, AgregarAEstado
  <1> QED BY <1>1, FichasAlSaltar DEF ConFicha

LEMMA FichasPostReadys ==
    ASSUME NEW s \in [Semaforos -> Nat], NEW x \in DeFichas
    PROVE  PostReadys(s)[x] = s[x]
  BY DEF PostReadys, DeFichas, Semaforos

LEMMA FichasLargo == ASSUME TypeOK, LargoPlazo PROVE FichasDelKernel' = FichasDelKernel
  <1>0. "largo" \in Hilos /\ "largo" \notin ConFichas /\ sem \in [Semaforos -> Nat]
        /\ DeFichas \subseteq Semaforos \ {"en_new", "GRADO", "readys"}
    BY DEF Hilos, ConFichas, TypeOK, TipoHilos, DeFichas, Semaforos
  <1>1. CASE LargoDisparo
    BY <1>0, <1>1, FichasAlSaltar DEF LargoDisparo, Disparo
  <1>2. CASE LargoGrado
    BY <1>0, <1>2, FichasAlSaltar DEF LargoGrado
  <1>3. CASE LargoAgregar
    <2>1. sem' = PostReadys(sem) /\ Salta("largo", "disparo")
      BY <1>3 DEF LargoAgregar, AgregarAEstado, Vuelve
    <2> QED BY <1>0, <2>1, FichasPostReadys, FichasAlSaltar
  <1> QED BY <1>0, <1>1, <1>2, <1>3, FichasTransicion DEF LargoPlazo

(* A unit passes from a semaphore to the thread it starts, and back.       *)
DeCorto     == sem["exec_libre"] + Uno(ConFicha("corto"))
DeExit      == sem["t_exit_largo"] + Uno(ConFicha("exit_largo"))
DeExecReady == sem["t_exec_ready"] + Uno(ConFicha("exec_ready"))

Partes ==
    /\ DeCorto \in Nat /\ DeExit \in Nat /\ DeExecReady \in Nat /\ sem["t_exec_blocked"] \in Nat
    /\ FichasDelKernel = DeCorto + DeExit + DeExecReady + sem["t_exec_blocked"]

LEMMA FichasPorPartes == TypeOK => Partes
  <1> SUFFICES ASSUME TypeOK PROVE Partes
    OBVIOUS
  <1> DEFINE c == Uno(ConFicha("corto"))
             x == Uno(ConFicha("exit_largo"))
             r == Uno(ConFicha("exec_ready"))
             s1 == sem["exec_libre"]
             s2 == sem["t_exit_largo"]
             s3 == sem["t_exec_ready"]
             s4 == sem["t_exec_blocked"]
  <1>1. c \in Nat /\ x \in Nat /\ r \in Nat
    BY DEF Uno
  <1>2. s1 \in Nat /\ s2 \in Nat /\ s3 \in Nat /\ s4 \in Nat
    BY DEF TypeOK, TipoHilos, Semaforos
  <1>3. /\ FichasDelKernel = s1 + c + s2 + x + s3 + r + s4
        /\ DeCorto = s1 + c /\ DeExit = s2 + x /\ DeExecReady = s3 + r
    BY Zenon DEF FichasDelKernel, DeCorto, DeExit, DeExecReady
  <1> HIDE DEF c, x, r, s1, s2, s3
  <1> QED BY <1>1, <1>2, <1>3 DEF Partes

LEMMA FichasPorPartesDespues == TypeOK' => Partes'
  BY FichasPorPartes, PTL

LEMMA PartesPorHilo ==
    ASSUME TypeOK, NEW h \in Hilos, NEW l, Salta(h, l)
    PROVE  /\ \A k \in Hilos : ConFicha(k)' <=>
                  IF k = h THEN l \notin {"disparo", "quantum", "join", "timer", "timer2"} ELSE ConFicha(k)
           /\ \A b : Uno(b) = IF b THEN 1 ELSE 0
           /\ ConFichas \subseteq Hilos /\ sem \in [Semaforos -> Nat]
  BY DEF TypeOK, TipoHilos, Salta, ConFicha, Uno, ConFichas, Hilos

LEMMA FichasExit == ASSUME TypeOK, TypeOK', ExitLargoPlazo PROVE FichasDelKernel' = FichasDelKernel
  <1>0. "exit_largo" \in Hilos
    BY DEF Hilos
  <1>1. CASE ExitDisparo
    <2>1. /\ sem' = [sem EXCEPT !["t_exit_largo"] = @ - 1] /\ pc["exit_largo"] = "disparo"
          /\ Salta("exit_largo", "evaluar1")
      BY <1>1 DEF ExitDisparo, Disparo
    <2>2. DeExit' = DeExit
      BY <1>0, <2>1, PartesPorHilo DEF DeExit, ConFicha, Uno, Semaforos
    <2>3. DeCorto' = DeCorto /\ DeExecReady' = DeExecReady /\ sem'["t_exec_blocked"] = sem["t_exec_blocked"]
      BY <1>0, <2>1, PartesPorHilo DEF DeCorto, DeExecReady, ConFichas, Semaforos
    <2> QED BY <2>2, <2>3, FichasPorPartes, FichasPorPartesDespues DEF Partes
  <1>2. CASE ExitAgregar
    <2>1. /\ sem' = [sem EXCEPT !["GRADO"] = @ + 1, !["exec_libre"] = @ + 1]
          /\ pc["exit_largo"] = "agregar" /\ Salta("exit_largo", "disparo")
      BY <1>2 DEF ExitAgregar, AgregarAEstado, Vuelve
    <2>2. DeExit' = DeExit - 1
      BY <1>0, <2>1, PartesPorHilo DEF DeExit, ConFicha, Uno, Semaforos
    <2>3. DeCorto' = DeCorto + 1
      BY <1>0, <2>1, PartesPorHilo DEF DeCorto, ConFichas, Semaforos
    <2>4. DeExecReady' = DeExecReady /\ sem'["t_exec_blocked"] = sem["t_exec_blocked"]
      BY <1>0, <2>1, PartesPorHilo DEF DeExecReady, ConFichas, Semaforos
    <2> QED BY <2>2, <2>3, <2>4, FichasPorPartes, FichasPorPartesDespues DEF Partes
  <1> QED BY <1>0, <1>1, <1>2, FichasTransicion DEF ExitLargoPlazo

LEMMA FichasCorto ==
    ASSUME TypeOK, TypeOK', CortoPlazo, ~CortoEnviar
    PROVE  FichasDelKernel' = FichasDelKernel
  <1>0. "corto" \in Hilos
    BY DEF Hilos
  <1>1. CASE CortoDisparo
    <2>1. /\ sem' = [sem EXCEPT !["exec_libre"] = @ - 1] /\ pc["corto"] = "disparo"
          /\ \E l : Salta("corto", l) /\ l \in {"readys", "evaluar1"}
      BY <1>1 DEF CortoDisparo, Disparo
    <2>2. DeCorto' = DeCorto
      BY <1>0, <2>1, PartesPorHilo DEF DeCorto, ConFicha, Uno, Semaforos
    <2>3. DeExit' = DeExit /\ DeExecReady' = DeExecReady /\ sem'["t_exec_blocked"] = sem["t_exec_blocked"]
      BY <1>0, <2>1, PartesPorHilo DEF DeExit, DeExecReady, ConFichas, Semaforos
    <2> QED BY <2>2, <2>3, FichasPorPartes, FichasPorPartesDespues DEF Partes
  <1>2. CASE CortoReadys
    <2>1. sem' = [sem EXCEPT !["readys"] = @ - 1] /\ pc["corto"] = "readys" /\ Salta("corto", "evaluar1")
      BY <1>2 DEF CortoReadys
    <2>2. \A s \in DeFichas : sem'[s] = sem[s]
      BY <2>1 DEF TypeOK, TipoHilos, DeFichas, Semaforos
    <2> QED BY <1>0, <2>1, <2>2, FichasAlSaltar DEF ConFicha
  <1>3. CASE CortoCrearQuantum \/ CortoJoin \/ CortoTimer
    <2>1. sem' = sem /\ ~ConFicha("corto")
      BY <1>3 DEF CortoCrearQuantum, CortoJoin, CortoTimer, ConFicha
    <2>2. \E l \in {"disparo", "quantum", "join", "timer", "timer2"} : Salta("corto", l)
      BY <1>3 DEF CortoCrearQuantum, CortoJoin, CortoTimer, Vuelve
    <2> QED BY <1>0, <2>1, <2>2, FichasAlSaltar
  <1> QED BY <1>0, <1>1, <1>2, <1>3, FichasTransicion, FichasAgregarYSeguir DEF CortoPlazo

LEMMA FichasExecReady == ASSUME TypeOK, TypeOK', ExecReady PROVE FichasDelKernel' = FichasDelKernel
  <1>0. "exec_ready" \in Hilos
    BY DEF Hilos
  <1>1. CASE ExecReadyDisparo
    <2>1. /\ sem' = [sem EXCEPT !["t_exec_ready"] = @ - 1] /\ pc["exec_ready"] = "disparo"
          /\ Salta("exec_ready", "evaluar1")
      BY <1>1 DEF ExecReadyDisparo, Disparo
    <2>2. DeExecReady' = DeExecReady
      BY <1>0, <2>1, PartesPorHilo DEF DeExecReady, ConFicha, Uno, Semaforos
    <2>3. DeCorto' = DeCorto /\ DeExit' = DeExit /\ sem'["t_exec_blocked"] = sem["t_exec_blocked"]
      BY <1>0, <2>1, PartesPorHilo DEF DeCorto, DeExit, ConFichas, Semaforos
    <2> QED BY <2>2, <2>3, FichasPorPartes, FichasPorPartesDespues DEF Partes
  <1>2. CASE ExecReadyFin
    <2> DEFINE s == [sem EXCEPT !["exec_libre"] = @ + 1]
    <2>1. sem' = PostReadys(s) /\ pc["exec_ready"] = "fin" /\ Salta("exec_ready", "disparo")
      BY <1>2 DEF ExecReadyFin, Vuelve
    <2>2. s \in [Semaforos -> Nat]
      BY DEF TypeOK, TipoHilos, Semaforos
    <2>3. \A x \in DeFichas : sem'[x] = s[x]
      BY <2>1, <2>2, FichasPostReadys
    <2>4. \A x \in DeFichas : sem'[x] = IF x = "exec_libre" THEN sem[x] + 1 ELSE sem[x]
      BY <2>3 DEF TypeOK, TipoHilos, Semaforos, DeFichas
    <2> HIDE DEF s
    <2>5. DeExecReady' = DeExecReady - 1
      BY <1>0, <2>1, <2>4, PartesPorHilo DEF DeExecReady, ConFicha, Uno, Semaforos, DeFichas
    <2>6. DeCorto' = DeCorto + 1
      BY <1>0, <2>1, <2>4, PartesPorHilo DEF DeCorto, ConFichas, Semaforos, DeFichas
    <2>7. DeExit' = DeExit /\ sem'["t_exec_blocked"] = sem["t_exec_blocked"]
      BY <1>0, <2>1, <2>4, PartesPorHilo DEF DeExit, ConFichas, DeFichas
    <2> QED BY <2>5, <2>6, <2>7, FichasPorPartes, FichasPorPartesDespues DEF Partes
  <1> QED BY <1>0, <1>1, <1>2, FichasTransicion, FichasAgregarYSeguir DEF ExecReady

(* transicion_exec_blocked posts exec_libre as it begins.                  *)
LEMMA FichasExecBlocked == ASSUME TypeOK, TypeOK', ExecBlocked PROVE FichasDelKernel' = FichasDelKernel
  <1>0. "exec_blocked" \in Hilos /\ "exec_blocked" \notin ConFichas
    BY DEF Hilos, ConFichas
  <1>1. CASE ExecBlockedDisparo
    <2>1. /\ sem' = [sem EXCEPT !["t_exec_blocked"] = @ - 1, !["exec_libre"] = @ + 1]
          /\ Salta("exec_blocked", "evaluar1")
      BY <1>1 DEF ExecBlockedDisparo
    <2>2. sem'["t_exec_blocked"] = sem["t_exec_blocked"] - 1
      BY <2>1 DEF TypeOK, TipoHilos, Semaforos
    <2>3. DeCorto' = DeCorto + 1
      BY <1>0, <2>1, PartesPorHilo DEF DeCorto, ConFichas, Semaforos
    <2>4. DeExit' = DeExit /\ DeExecReady' = DeExecReady
      BY <1>0, <2>1, PartesPorHilo DEF DeExit, DeExecReady, ConFichas, Semaforos
    <2> QED BY <2>2, <2>3, <2>4, FichasPorPartes, FichasPorPartesDespues DEF Partes
  <1>2. CASE ExecBlockedFin
    BY <1>0, <1>2, FichasAlSaltar DEF ExecBlockedFin, Vuelve
  <1> QED BY <1>0, <1>1, <1>2, FichasTransicion, FichasAgregarYSeguir DEF ExecBlocked

LEMMA FichasBlockedReady == ASSUME TypeOK, BlockedReady PROVE FichasDelKernel' = FichasDelKernel
  <1>0. "blocked_ready" \in Hilos /\ "blocked_ready" \notin ConFichas /\ sem \in [Semaforos -> Nat]
        /\ DeFichas \subseteq Semaforos \ {"t_blocked_ready", "readys"}
    BY DEF Hilos, ConFichas, TypeOK, TipoHilos, DeFichas, Semaforos
  <1>1. CASE BlockedReadyDisparo
    BY <1>0, <1>1, FichasAlSaltar DEF BlockedReadyDisparo, Disparo
  <1>2. CASE BlockedReadyElegir
    BY <1>0, <1>2, FichasAlSaltar DEF BlockedReadyElegir
  <1>3. CASE BlockedReadyFin
    <2>1. sem' = PostReadys(sem) /\ Salta("blocked_ready", "disparo")
      BY <1>3 DEF BlockedReadyFin, Vuelve
    <2> QED BY <1>0, <2>1, FichasPostReadys, FichasAlSaltar
  <1> QED BY <1>0, <1>1, <1>2, <1>3, FichasTransicion, FichasAgregarYSeguir DEF BlockedReady

(* The console and the interfaces move no token either.                    *)
LEMMA FichasAfuera ==
    ASSUME TypeOK, Consola \/ \E i \in Interfaces : InterfazConectada(i)
    PROVE  FichasDelKernel' = FichasDelKernel
  <1>1. pc' = pc
    BY DEF Consola, IniciarPlanificacion, DetenerPlanificacion, IniciarProceso, InterfazConectada,
           IoTomar, IoConcluir, IoAvisar
  <1>2. sem' = sem \/ sem' = [sem EXCEPT !["en_new"] = @ + 1]
        \/ sem' = [sem EXCEPT !["t_blocked_ready"] = @ + 1]
    BY DEF Consola, IniciarPlanificacion, DetenerPlanificacion, IniciarProceso, InterfazConectada,
           IoTomar, IoConcluir, IoAvisar
  <1>3. \A s \in DeFichas : sem'[s] = sem[s]
    BY <1>2 DEF TypeOK, TipoHilos, DeFichas, Semaforos
  <1>4. \A h \in ConFichas : ConFicha(h)' <=> ConFicha(h)
    BY <1>1 DEF ConFicha
  <1> QED BY <1>3, <1>4, MismasFichas

LEMMA KernelAparte ==
    ASSUME \/ Consola \/ LargoPlazo \/ (CortoPlazo /\ ~CortoEnviar) \/ ExitLargoPlazo
           \/ ExecReady \/ ExecBlocked \/ BlockedReady
           \/ \E i \in Interfaces : InterfazConectada(i)
    PROVE  UNCHANGED <<ds, vCanales, cpu, restaQuanta>>
  <1> DEFINE Nada == UNCHANGED <<ds, vCanales, cpu, restaQuanta>>
  <1> USE DEF vCanales, vCpu, vQuantum
  <1>1. ASSUME NEW h, TransicionGenerica(h) PROVE Nada
    BY <1>1 DEF TransicionGenerica, EvaluarPlanificacion, Evaluar, ReanudarPlanificacion,
                Reanudar, EsperarContador, Sacar
  <1>2. ASSUME NEW h, AgregarYSeguir(h) PROVE Nada
    BY <1>2 DEF AgregarYSeguir, AgregarAEstado
  <1>3. Consola => Nada
    BY DEF Consola, IniciarPlanificacion, DetenerPlanificacion, IniciarProceso
  <1>4. (\E i \in Interfaces : InterfazConectada(i)) => Nada
    BY DEF InterfazConectada, IoTomar, IoConcluir, IoAvisar
  <1>5. LargoPlazo \/ ExitLargoPlazo => Nada
    BY <1>1 DEF LargoPlazo, LargoDisparo, Disparo, LargoGrado, LargoAgregar, AgregarAEstado,
                ExitLargoPlazo, ExitDisparo, ExitAgregar
  <1>6. CortoPlazo /\ ~CortoEnviar => Nada
    BY <1>1, <1>2 DEF CortoPlazo, CortoDisparo, Disparo, CortoReadys, CortoCrearQuantum,
                      CortoJoin, CortoTimer
  <1>7. ExecReady \/ ExecBlocked => Nada
    BY <1>1, <1>2 DEF ExecReady, ExecReadyDisparo, Disparo, ExecReadyFin, ExecBlocked,
                      ExecBlockedDisparo, ExecBlockedFin
  <1>8. BlockedReady => Nada
    BY <1>1, <1>2 DEF BlockedReady, BlockedReadyDisparo, Disparo, BlockedReadyElegir, BlockedReadyFin
  <1> QED BY <1>3, <1>4, <1>5, <1>6, <1>7, <1>8

LEMMA FichaKernel ==
    ASSUME TypeOK, TypeOK', FichaInv, ~caido,
           \/ Consola \/ LargoPlazo \/ (CortoPlazo /\ ~CortoEnviar) \/ ExitLargoPlazo
           \/ ExecReady \/ ExecBlocked \/ BlockedReady
           \/ \E i \in Interfaces : InterfazConectada(i)
    PROVE  FichaInv'
  <1>1. FichasDelKernel' = FichasDelKernel
    BY FichasLargo, FichasCorto, FichasExit, FichasExecReady, FichasExecBlocked,
       FichasBlockedReady, FichasAfuera
  <1>2. UNCHANGED <<ds, vCanales, cpu, restaQuanta>>
    BY KernelAparte
  <1> QED BY <1>1, <1>2, FichaEnElKernel

(* The token goes to the CPU with the context.                             *)
LEMMA FichaEnviar ==
    ASSUME TypeOK, TypeOK', FichaInv, ~caido, CortoEnviar
    PROVE  FichaInv'
  <1> SUFFICES ASSUME caido' = FALSE, restaQuanta' = MaxQuanta PROVE FichaUnica'
    BY DEF FichaInv, CortoEnviar, vQuantum
  <1>0. caido = FALSE /\ restaQuanta = MaxQuanta
    BY DEF CortoEnviar, vQuantum
  <1>1. FichaUnica /\ mano["corto"] # NULO
    <2>1. caido' = (mano["corto"] = NULO)
      BY DEF CortoEnviar, Desreferenciar
    <2> QED BY <1>0, <2>1 DEF FichaInv
  <1>2. /\ UNCHANGED <<ds, aKernel, aInterrupt, cpu, sem>>
        /\ \E c : aCpu' = Append(aCpu, c)
        /\ pc["corto"] = "fin"
        /\ \E l \in {"disparo", "quantum"} : Salta("corto", l)
    BY <1>1 DEF CortoEnviar, vCpu, Vuelve
  <1>3. SinInterrupciones'
    BY <1>1, <1>2 DEF FichaUnica, SinInterrupciones, Callada, Pidiendo, Pedido, Terminado
  <1>4. Len(aCpu') = Len(aCpu) + 1 /\ Len(aCpu) \in Nat
    BY <1>2 DEF TypeOK, TipoCanales
  <1>5. "corto" \in Hilos
    BY DEF Hilos
  <1>6. DeCorto' = DeCorto - 1
    BY <1>2, <1>5, PartesPorHilo DEF DeCorto, ConFicha, Uno, Semaforos
  <1>7. DeExit' = DeExit /\ DeExecReady' = DeExecReady /\ sem'["t_exec_blocked"] = sem["t_exec_blocked"]
    BY <1>2, <1>5, PartesPorHilo DEF DeExit, DeExecReady, ConFichas
  <1>8. FichasDelKernel' = FichasDelKernel - 1
    BY <1>6, <1>7, FichasPorPartes, FichasPorPartesDespues DEF Partes
  <1>9. FichasDeLaCpu' = FichasDeLaCpu + 1
    <2> DEFINE u == Uno(cpu.paso # "libre" /\ cpu.salida)
               n == Cardinality(Contestan)
    <2>1. FichasDeLaCpu = Len(aCpu) + u + n /\ FichasDeLaCpu' = Len(aCpu') + u' + n'
      BY DEF FichasDeLaCpu
    <2>2. u' = u /\ n' = n
      BY <1>2 DEF Contestan
    <2>3. u \in Nat /\ n \in Nat
      BY FichasEnDos DEF Uno
    <2> HIDE DEF u, n
    <2> QED BY <1>4, <2>1, <2>2, <2>3
  <1> QED BY <1>1, <1>3, <1>8, <1>9, FichasEnDos DEF FichaUnica

LEMMA FichaQuantum ==
    ASSUME TypeOK, FichaInv, QuantumVence
    PROVE  FichaInv'
  <1>1. restaQuanta \in Nat /\ restaQuanta' = restaQuanta - 1 /\ restaQuanta <= MaxQuanta
    BY DEF TypeOK, TipoQuantum, FichaInv, QuantumVence
  <1> QED BY <1>1, CotasAssumption DEF FichaInv

(* The dispatch thread takes the answer and posts the semaphore of the     *)
(* transition that will free EXEC.                                         *)
LEMMA FichaRecibida ==
    ASSUME TypeOK, TypeOK', NEW s \in {"t_exit_largo", "t_exec_blocked"},
           sem' = [sem EXCEPT ![s] = @ + 1], pc' = pc, aCpu' = aCpu, cpu' = cpu,
           Cardinality(Contestan) = 1, Cardinality(Contestan)' = 0
    PROVE  FichasDelKernel' + FichasDeLaCpu' = FichasDelKernel + FichasDeLaCpu
  <1>1. \A h : Uno(ConFicha(h)') = Uno(ConFicha(h))
    BY DEF ConFicha
  <1>2. \A x \in Semaforos : sem'[x] = IF x = s THEN sem[x] + 1 ELSE sem[x]
    BY DEF TypeOK, TipoHilos, Semaforos
  <1>3. DeCorto' = DeCorto /\ DeExecReady' = DeExecReady
    BY <1>1, <1>2 DEF DeCorto, DeExecReady, Semaforos
  <1>4. \/ DeExit' = DeExit + 1 /\ sem'["t_exec_blocked"] = sem["t_exec_blocked"]
        \/ DeExit' = DeExit /\ sem'["t_exec_blocked"] = sem["t_exec_blocked"] + 1
    <2>1. CASE s = "t_exit_largo"
      <3>1. sem'["t_exit_largo"] = sem["t_exit_largo"] + 1 /\ sem["t_exit_largo"] \in Nat
            /\ sem'["t_exec_blocked"] = sem["t_exec_blocked"]
        BY <1>2, <2>1 DEF Semaforos, TypeOK, TipoHilos
      <3>2. Uno(ConFicha("exit_largo")) \in Nat /\ Uno(ConFicha("exit_largo")') = Uno(ConFicha("exit_largo"))
        BY <1>1 DEF Uno
      <3> QED BY <3>1, <3>2 DEF DeExit
    <2>2. CASE s = "t_exec_blocked"
      BY <1>1, <1>2, <2>2 DEF DeExit, Semaforos
    <2> QED BY <2>1, <2>2
  <1>5. FichasDelKernel' = FichasDelKernel + 1
    BY <1>3, <1>4, FichasPorPartes, FichasPorPartesDespues DEF Partes
  <1>6. FichasDeLaCpu' = FichasDeLaCpu - 1
    <2> DEFINE u == Uno(cpu.paso # "libre" /\ cpu.salida)
               n == Cardinality(Contestan)
    <2>1. FichasDeLaCpu = Len(aCpu) + u + n /\ FichasDeLaCpu' = Len(aCpu') + u' + n'
      BY DEF FichasDeLaCpu
    <2>2. u' = u /\ n' = 0 /\ n = 1
      OBVIOUS
    <2>3. u \in Nat /\ Len(aCpu) \in Nat /\ Len(aCpu') = Len(aCpu)
      BY FichasEnDos DEF Uno
    <2> HIDE DEF u, n
    <2> QED BY <2>1, <2>2, <2>3
  <1> QED BY <1>5, <1>6, FichasEnDos

LEMMA FichaDispatch ==
    ASSUME TypeOK, TypeOK', FichaInv, ~caido, HiloDispatch
    PROVE  FichaInv'
  <1> SUFFICES ASSUME caido' = FALSE, restaQuanta' = MaxQuanta PROVE FichaUnica'
    BY DEF FichaInv, HiloDispatch, DsFinalizar, DsFinDeQuantum, DsInterfaz, DsInterfazCde, vQuantum
  <1>0. caido = FALSE /\ restaQuanta = MaxQuanta
    BY DEF HiloDispatch, DsFinalizar, DsFinDeQuantum, DsInterfaz, DsInterfazCde, vQuantum
  <1>1. SinInterrupciones /\ FichasDelKernel + FichasDeLaCpu = 1
    BY <1>0 DEF FichaInv, FichaUnica
  <1>2. Cuenta /\ Cuenta' /\ aKernel \in Seq(Mensajes)
    BY CuantosContestan, CuantosContestaran DEF TypeOK, TipoCanales
  <1>3. CASE DsFinalizar
    <2>1. /\ ds = "op" /\ aKernel # <<>> /\ aKernel[1].op = "FINALIZAR_PROCESO" /\ aKernel' = Tail(aKernel)
          /\ sem' = [sem EXCEPT !["t_exit_largo"] = @ + 1]
          /\ UNCHANGED <<pc, ds, aCpu, aInterrupt, cpu>>
      BY <1>2, <1>3 DEF DsFinalizar, Llega, vCpu
    <2>2. Terminado
      BY <1>1, <2>1 DEF SinInterrupciones, Callada, Pidiendo, Pedido
    <2>3. aKernel' = <<>>
      BY <1>2, <2>1, <2>2 DEF Terminado
    <2>4. Cardinality(Contestan) = 1 /\ Cardinality(Contestan)' = 0
      BY <1>2, <2>2, <2>3 DEF Cuenta, Terminado
    <2>5. SinInterrupciones'
      BY <1>1, <2>1, <2>2, <2>3 DEF SinInterrupciones, Callada, Terminado
    <2> QED BY <1>1, <2>1, <2>4, <2>5, FichaRecibida DEF FichaUnica
  <1>4. CASE DsFinDeQuantum
    BY <1>1, <1>2, <1>4 DEF DsFinDeQuantum, Llega, SinInterrupciones, Callada, Pidiendo, Pedido, Terminado
  <1>5. CASE DsInterfaz
    <2>1. /\ ds' = "cde" /\ aKernel # <<>> /\ aKernel[1].op = "INSTRUCCION_INTERFAZ"
          /\ UNCHANGED <<pc, sem, aCpu, aKernel, aInterrupt, cpu>>
      BY <1>2, <1>5 DEF DsInterfaz, Llega, vCpu, vCanales
    <2>2. SinInterrupciones'
      BY <1>1, <2>1 DEF SinInterrupciones, Callada, Pidiendo, Pedido, Terminado
    <2>3. FichasDelKernel' = FichasDelKernel
      BY <2>1 DEF FichasDelKernel, ConFicha
    <2>4. FichasDeLaCpu' = FichasDeLaCpu
      BY <2>1 DEF FichasDeLaCpu, Contestan
    <2> QED BY <1>1, <2>2, <2>3, <2>4 DEF FichaUnica
  <1>6. CASE DsInterfazCde
    <2>1. /\ ds = "cde" /\ ds' = "op" /\ Len(aKernel) >= 2 /\ aKernel' = Tail(Tail(aKernel))
          /\ sem' = [sem EXCEPT !["t_exec_blocked"] = @ + 1]
          /\ UNCHANGED <<pc, aCpu, aInterrupt, cpu>>
      BY <1>6 DEF DsInterfazCde, vCpu
    <2>2. Pedido
      <3>1. aKernel \in Seq(Mensajes) /\ Len(aKernel) >= 2
        BY <1>2, <2>1
      <3>2. aKernel # <<>> /\ Len(aKernel) # 1
        BY <3>1, DosOMas
      <3> QED BY <1>1, <3>2 DEF SinInterrupciones, Callada, Pidiendo, Terminado
    <2>3. aKernel' = <<>>
      <3> DEFINE t == Tail(aKernel)
      <3>1. t \in Seq(Mensajes) /\ Len(t) = 1
        BY <1>2, <2>2 DEF Pedido
      <3> HIDE DEF t
      <3>2. Tail(t) \in Seq(Mensajes) /\ Len(Tail(t)) = 0
        BY <3>1
      <3>3. Tail(t) = <<>>
        BY <3>2, EmptySeq
      <3> QED BY <2>1, <3>3 DEF t
    <2>4. Cardinality(Contestan) = 1 /\ Cardinality(Contestan)' = 0
      BY <1>2, <2>2, <2>3 DEF Cuenta, Pedido
    <2>5. SinInterrupciones'
      BY <1>1, <2>1, <2>2, <2>3 DEF SinInterrupciones, Callada, Pedido
    <2> QED BY <1>1, <2>1, <2>4, <2>5, FichaRecibida DEF FichaUnica
  <1> QED BY <1>3, <1>4, <1>5, <1>6 DEF HiloDispatch

(* The CPU: it answers once for each context it was sent.                  *)
LEMMA FichaCpu ==
    ASSUME TypeOK, TypeOK', FichaInv, ~caido, CpuRecibir \/ CpuEjecutar \/ CheckInterrupt \/ CpuInterrupt
    PROVE  FichaInv'
  <1> USE DEF CpuEjecutar, CpuInterrupt
  <1> SUFFICES ASSUME caido' = FALSE, restaQuanta' = MaxQuanta PROVE FichaUnica'
    BY DEF FichaInv, CpuRecibir, CpuCalcular, CpuExit, CpuPedirIO, CheckInterrupt, InterruptMirar,
           InterruptEsperar, InterruptRecibir, vQuantum
  <1>0. caido = FALSE /\ restaQuanta = MaxQuanta /\ UNCHANGED <<sem, pc, ds>>
    BY DEF CpuRecibir, CpuCalcular, CpuExit, CpuPedirIO, CheckInterrupt, InterruptMirar,
           InterruptEsperar, InterruptRecibir, vQuantum
  <1>1. SinInterrupciones /\ FichasDelKernel + FichasDeLaCpu = 1
    BY <1>0 DEF FichaInv, FichaUnica
  <1>2. Cuenta /\ Cuenta' /\ aKernel \in Seq(Mensajes) /\ aCpu \in Seq(Contextos)
    BY CuantosContestan, CuantosContestaran DEF TypeOK, TipoCanales
  <1>3. FichasDelKernel' = FichasDelKernel /\ FichasDelKernel \in Nat /\ FichasDeLaCpu \in Nat
    BY <1>0, FichasEnDos DEF FichasDelKernel, ConFicha
  <1>4. SUFFICES SinInterrupciones' /\ FichasDeLaCpu' = FichasDeLaCpu
    BY <1>1, <1>3 DEF FichaUnica
  <1> DEFINE u == Uno(cpu.paso # "libre" /\ cpu.salida)
             n == Cardinality(Contestan)
  <1>5. /\ FichasDeLaCpu = Len(aCpu) + u + n /\ FichasDeLaCpu' = Len(aCpu') + u' + n'
        /\ Len(aCpu) \in Nat /\ n \in Nat /\ FichasDeLaCpu <= 1
    BY <1>1, <1>3, FichasEnDos DEF FichasDeLaCpu
  <1>6. /\ u \in Nat
        /\ cpu.paso # "libre" /\ cpu.salida = TRUE => u = 1
        /\ cpu.paso = "libre" \/ cpu.salida = FALSE => u = 0
        /\ cpu'.paso # "libre" /\ cpu'.salida = TRUE => u' = 1
        /\ cpu'.paso = "libre" \/ cpu'.salida = FALSE => u' = 0
    BY DEF Uno
  <1>7. /\ cpu \in [paso : {"libre", "ejecutar", "chequear"}, cde : Contextos,
                    salida : BOOLEAN, rr : BOOLEAN, io : BOOLEAN]
        /\ cpu.rr = FALSE /\ aInterrupt = 0
        /\ cpu.paso = "ejecutar" => cpu.salida = TRUE
    BY <1>1 DEF TypeOK, TipoCpu, SinInterrupciones
  <1> HIDE DEF u
  <1>8. cpu.paso = "ejecutar" => Callada
    <2>1. Pidiendo => cpu.paso = "chequear"
      BY DEF Pidiendo
    <2>2. Pedido \/ Terminado => n = 1
      BY <1>2 DEF Pedido, Terminado, Cuenta
    <2>3. cpu.paso = "ejecutar" => u = 1
      BY <1>6, <1>7
    <2> HIDE DEF n
    <2>4. cpu.paso = "ejecutar" => n = 0
      BY <1>5, <1>6, <2>3
    <2> QED BY <1>1, <2>1, <2>2, <2>4 DEF SinInterrupciones
  <1>9. Callada => n = 0
    BY <1>2 DEF Callada, Cuenta
  <1>10. CASE CpuRecibir
    <2>1. /\ cpu.paso = "libre" /\ aCpu # <<>> /\ aCpu' = Tail(aCpu)
          /\ cpu' = [cpu EXCEPT !.paso = "ejecutar", !.cde = Head(aCpu), !.salida = TRUE]
          /\ UNCHANGED <<aKernel, aInterrupt>>
      BY <1>10 DEF CpuRecibir
    <2>2. Len(aCpu') = Len(aCpu) - 1
      BY <1>2, <2>1
    <2>3. cpu'.paso = "ejecutar" /\ cpu'.salida = TRUE /\ cpu'.rr = FALSE /\ cpu'.io = cpu.io
      BY <1>7, <2>1
    <2>4. u' = 1 /\ u = 0 /\ n' = n
      BY <1>6, <2>1, <2>3 DEF Contestan
    <2>5. Callada
      <3>1. Len(aCpu) # 0
        BY <1>2, <2>1
      <3>2. n # 1
        <4> HIDE DEF n
        <4> QED BY <1>5, <1>6, <3>1
      <3>3. ~Pedido /\ ~Terminado
        BY <1>2, <3>2 DEF Pedido, Terminado, Cuenta
      <3> QED BY <1>1, <2>1, <3>3 DEF SinInterrupciones, Pidiendo
    <2>6. SinInterrupciones'
      BY <1>0, <1>7, <2>1, <2>3, <2>5 DEF SinInterrupciones, Callada
    <2> HIDE DEF n
    <2> QED BY <1>5, <1>6, <2>2, <2>4, <2>6
  <1>11. CASE CpuCalcular
    <2>1. cpu.paso = "ejecutar" /\ cpu' = [cpu EXCEPT !.paso = "chequear"]
          /\ UNCHANGED <<aCpu, aKernel, aInterrupt>>
      BY <1>11 DEF CpuCalcular, vCanales
    <2>2. cpu'.paso = "chequear" /\ cpu'.salida = TRUE /\ cpu'.rr = FALSE /\ cpu'.io = cpu.io
      BY <1>7, <2>1
    <2>3. u' = 1 /\ u = 1 /\ n' = n
      BY <1>6, <1>7, <2>1, <2>2 DEF Contestan
    <2>4. SinInterrupciones'
      BY <1>0, <1>7, <1>8, <2>1, <2>2 DEF SinInterrupciones, Callada
    <2> QED BY <1>5, <2>1, <2>3, <2>4
  <1>12. ASSUME NEW i \in Interfaces, CpuPedirIO(i)
         PROVE  SinInterrupciones' /\ FichasDeLaCpu' = FichasDeLaCpu
    <2>1. /\ cpu.paso = "ejecutar" /\ cpu' = [cpu EXCEPT !.paso = "chequear", !.io = TRUE, !.cde.PC = @ + 1]
          /\ aKernel' = Append(aKernel, Mensaje("INSTRUCCION_INTERFAZ", SinContexto, i))
          /\ UNCHANGED <<aCpu, aInterrupt>>
      BY <1>12 DEF CpuPedirIO
    <2>2. cpu'.paso = "chequear" /\ cpu'.salida = TRUE /\ cpu'.rr = FALSE /\ cpu'.io = TRUE
      BY <1>7, <2>1
    <2>3. Len(aKernel') = 1 /\ aKernel'[1].op = "INSTRUCCION_INTERFAZ"
      BY <1>8, <2>1 DEF Callada, Mensaje
    <2>4. u' = 1 /\ u = 1 /\ n = 0 /\ n' = 0
      BY <1>2, <1>6, <1>7, <1>8, <1>9, <2>1, <2>2, <2>3 DEF Cuenta
    <2>5. SinInterrupciones'
      BY <1>7, <2>1, <2>2, <2>3 DEF SinInterrupciones, Pidiendo
    <2> QED BY <1>5, <2>1, <2>4, <2>5
  <1>13. CASE CpuExit
    <2>1. /\ cpu.paso = "ejecutar" /\ cpu' = [cpu EXCEPT !.paso = "chequear", !.rr = FALSE, !.salida = FALSE]
          /\ aKernel' = Append(aKernel, Mensaje("FINALIZAR_PROCESO", cpu.cde, NULO))
          /\ UNCHANGED <<aCpu, aInterrupt>>
      BY <1>13 DEF CpuExit
    <2>2. cpu'.paso = "chequear" /\ cpu'.salida = FALSE /\ cpu'.rr = FALSE /\ cpu'.io = cpu.io
      BY <1>7, <2>1
    <2>3. Len(aKernel') = 1 /\ aKernel'[1].op = "FINALIZAR_PROCESO"
      BY <1>8, <2>1 DEF Callada, Mensaje
    <2>4. u' = 0 /\ u = 1 /\ n = 0 /\ n' = 1
      BY <1>2, <1>6, <1>7, <1>8, <1>9, <2>1, <2>2, <2>3 DEF Cuenta
    <2>5. SinInterrupciones'
      BY <1>0, <1>7, <1>8, <2>1, <2>2, <2>3 DEF SinInterrupciones, Terminado, Callada
    <2> QED BY <1>5, <2>1, <2>4, <2>5
  <1>14. CASE CheckInterrupt
    <2>1. cpu.paso = "chequear" /\ UNCHANGED <<aCpu, aInterrupt>>
      BY <1>14 DEF CheckInterrupt
    <2>2. CASE cpu.io
      <3>1. Pidiendo
        BY <1>1, <2>2 DEF SinInterrupciones, Callada, Pedido, Terminado
      <3>2. /\ aKernel' = Append(aKernel, Mensaje("CDE", cpu.cde, NULO))
            /\ cpu' = CpuLibera([cpu EXCEPT !.salida = FALSE, !.rr = FALSE, !.io = FALSE])
        BY <1>14, <2>2 DEF CheckInterrupt
      <3>3. cpu'.paso = "libre" /\ cpu'.rr = FALSE /\ cpu'.io = FALSE
        BY <1>7, <3>2 DEF CpuLibera
      <3>4. Len(aKernel') = 2 /\ aKernel'[1].op = "INSTRUCCION_INTERFAZ" /\ aKernel'[2].op = "CDE"
        <4> DEFINE m == Mensaje("CDE", cpu.cde, NULO)
        <4>1. m.op = "CDE" /\ m \in Mensajes
          BY <1>7, TipoMensaje DEF Mensaje
        <4> HIDE DEF m
        <4>2. Len(aKernel) = 1 /\ aKernel[1].op = "INSTRUCCION_INTERFAZ" /\ aKernel' = Append(aKernel, m)
          BY <3>1, <3>2 DEF Pidiendo, m
        <4>3. Len(aKernel') = 2 /\ aKernel'[1] = aKernel[1] /\ aKernel'[2] = m
          <5>1. aKernel \in Seq(Mensajes)
            BY <1>2
          <5> QED BY <4>1, <4>2, <5>1, ElSegundo
        <4> QED BY <4>1, <4>2, <4>3
      <3>5. u' = 0 /\ u = 1 /\ n = 0 /\ n' = 1
        BY <1>2, <1>6, <3>1, <3>3, <3>4 DEF Cuenta, Pidiendo
      <3>6. SinInterrupciones'
        BY <1>7, <2>1, <3>3, <3>4 DEF SinInterrupciones, Pedido
      <3> QED BY <1>5, <2>1, <3>5, <3>6
    <2>3. CASE ~cpu.io
      <3>1. cpu' = CpuLibera(cpu) /\ aKernel' = aKernel
        BY <1>7, <1>14, <2>3 DEF CheckInterrupt
      <3>2. /\ cpu.salida = TRUE => cpu'.paso = "ejecutar" /\ cpu'.salida = TRUE
            /\ cpu.salida = FALSE => cpu'.paso = "libre"
            /\ cpu'.rr = FALSE /\ cpu'.io = cpu.io
        BY <1>7, <3>1 DEF CpuLibera
      <3>3. u' = u /\ n' = n
        BY <1>6, <1>7, <2>1, <3>1, <3>2 DEF Contestan
      <3>4. SinInterrupciones'
        BY <1>0, <1>1, <1>7, <2>1, <2>3, <3>1, <3>2 DEF SinInterrupciones, Callada, Pidiendo, Pedido, Terminado
      <3> QED BY <1>5, <2>1, <3>3, <3>4
    <2> QED BY <2>2, <2>3
  <1>15. CASE CpuInterrupt
    <2>1. UNCHANGED <<aCpu, aKernel, aInterrupt, cpu>>
      BY <1>7, <1>15 DEF InterruptMirar, InterruptEsperar, InterruptRecibir, vCanales
    <2>2. SinInterrupciones'
      BY <1>0, <1>1, <2>1 DEF SinInterrupciones, Callada, Pidiendo, Pedido, Terminado
    <2> QED BY <2>1, <2>2 DEF FichasDeLaCpu, Contestan
  <1> QED BY <1>10, <1>11, <1>12, <1>13, <1>14, <1>15

LEMMA FichaInductiva == TypeOK /\ TypeOK' /\ FichaInv /\ [Next]_vars => FichaInv'
  <1> SUFFICES ASSUME TypeOK, TypeOK', FichaInv, [Next]_vars PROVE FichaInv'
    OBVIOUS
  <1>1. CASE UNCHANGED vars
    <2>1. FichasDelKernel' = FichasDelKernel /\ FichasDeLaCpu' = FichasDeLaCpu
      BY <1>1 DEF vars, FichasDelKernel, FichasDeLaCpu, ConFicha, Contestan
    <2>2. SinInterrupciones => SinInterrupciones'
      BY <1>1 DEF vars, SinInterrupciones, Callada, Pidiendo, Pedido, Terminado
    <2> QED BY <1>1, <2>1, <2>2 DEF vars, FichaInv, FichaUnica
  <1>2. CASE Next
    BY <1>2, FichaKernel, FichaEnviar, FichaQuantum, FichaDispatch, FichaCpu DEF Next
  <1> QED BY <1>1, <1>2

(* Until a quantum expires the right to use the CPU is one token,          *)
(* whatever the processes, the interfaces, the degree and the algorithm    *)
(* are: each context corto_plazo sends to the CPU is answered once, and    *)
(* exactly one of the three transitions that empty EXEC declares it free.  *)
THEOREM LaCpuEsDeUno == Spec => []CpuExclusiva
  <1>1. TypeOK /\ FichaInv => CpuExclusiva
    <2> SUFFICES ASSUME TypeOK, FichaInv, ~caido, restaQuanta = MaxQuanta PROVE Fichas = 1
      BY DEF CpuExclusiva
    <2>1. caido = FALSE
      OBVIOUS
    <2> QED BY <2>1, FichasEnDos DEF FichaInv, FichaUnica
  <1> QED BY <1>1, TipoInicial, TipoInductivo, FichaInicial, FichaInductiva, PTL DEF Spec

-----------------------------------------------------------------------------
(* FIFO with degree 1: the processes take turns.  The unit of GRADO, the   *)
(* units of the other semaphores, the messages and the requests are stages *)
(* of one turn, so at most one process is inside, and what each thread     *)
(* finds in the globals is of that process.                                *)

(* The stages of the turn that the only unit of GRADO gives, from          *)
(* largo_plazo to transicion_exit_largo_plazo.                             *)
Etapas == {"grado", "largo", "listo", "corto", "canal", "cpu", "fin", "cde", "salida",
           "espera", "io", "desbloqueo"}

(* In these two things advance at once: the request of I/O, to which the   *)
(* stage refers, and the PCB, from EXEC to BLOCK.                          *)
EnIO == {"espera", "io", "desbloqueo"}

PorSacar   == {"evaluar1", "pausa1", "contador", "evaluar2", "pausa2", "sacar"}
Reservando == {"evaluar2", "pausa2", "sacar"}
Teniendo   == {"evaluar3", "pausa3", "agregar"}

(* The thread that has the turn.                                           *)
SerieHilos(e) ==
    /\ sem["GRADO"] = IF e = "grado" THEN 1 ELSE 0
    /\ pc["largo"] \in (IF e = "largo" THEN PorSacar \cup Teniendo ELSE {"disparo", "grado"})
    /\ contador["READY"] = IF e = "listo" THEN 1 ELSE 0
    /\ pc["corto"] \in (IF e = "corto" THEN Reservando \cup Teniendo \cup {"fin"}
                                       ELSE {"disparo", "evaluar1", "pausa1", "contador"})
    /\ \/ e = "salida" /\ sem["t_exit_largo"] = 1 /\ pc["exit_largo"] = "disparo"
       \/ e = "salida" /\ sem["t_exit_largo"] = 0 /\ pc["exit_largo"] \in PorSacar \cup Teniendo
       \/ e # "salida" /\ sem["t_exit_largo"] = 0 /\ pc["exit_largo"] = "disparo"
    /\ \/ e = "desbloqueo" /\ sem["t_blocked_ready"] = 1 /\ pc["blocked_ready"] \in {"disparo", "fin"}
       \/ /\ e = "desbloqueo" /\ sem["t_blocked_ready"] = 0
          /\ pc["blocked_ready"] \in {"elegir"} \cup PorSacar \cup Teniendo
       \/ e # "desbloqueo" /\ sem["t_blocked_ready"] = 0 /\ pc["blocked_ready"] \in {"disparo", "fin"}
    /\ sem["t_exec_ready"] = 0 /\ pc["exec_ready"] = "disparo"
    /\ \A h \in Hilos : ~viaje[h].porPid \/ h = "blocked_ready"
    /\ viaje["corto"].de = "READY" /\ viaje["blocked_ready"].a = "READY"

(* transicion_exec_blocked: at "fin" it may still be at work on a PCB that *)
(* has been moved, dispatched or even retired since.                       *)
SerieBloqueo(e) ==
    \/ e \notin EnIO /\ sem["t_exec_blocked"] = 0 /\ pc["exec_blocked"] \in {"disparo", "fin"}
    \/ e \in EnIO /\ sem["t_exec_blocked"] = 1 /\ pc["exec_blocked"] \in {"disparo", "fin"}
    \/ e \in EnIO /\ sem["t_exec_blocked"] = 0
       /\ pc["exec_blocked"] \in {"disparo", "fin"} \cup PorSacar \cup Teniendo

(* The context on its way to the CPU and the answers on their way back.    *)
SerieMensajes(e, a) ==
    /\ e = "canal" => Len(aCpu) = 1 /\ aCpu[1].pid = a
    /\ e # "canal" => aCpu = <<>>
    /\ e = "cpu" /\ cpu.io = TRUE => Len(aKernel) = 1
    /\ e = "fin" => /\ Len(aKernel) = 1 /\ aKernel[1].op = "FINALIZAR_PROCESO"
                    /\ aKernel[1].cde.pid = a
    /\ e = "cde" => /\ Len(aKernel) = 2 /\ aKernel[2].op = "CDE" /\ aKernel[2].cde.pid = a
    /\ (e = "cpu" /\ cpu.io = TRUE) \/ e = "cde" =>
           aKernel[1].op = "INSTRUCCION_INTERFAZ" /\ aKernel[1].io \in Interfaces
    /\ ~((e = "cpu" /\ cpu.io = TRUE) \/ e \in {"fin", "cde"}) => aKernel = <<>>
    /\ ds = "cde" => (e = "cpu" /\ cpu.io = TRUE) \/ e = "cde"
    /\ aInterrupt = 0

(* After the EXIT instruction the CPU may keep the context of a process    *)
(* that has left.                                                          *)
SerieCpu(e, a) ==
    /\ cpu.rr = FALSE
    /\ cpu.io = TRUE => e = "cpu" /\ cpu.paso = "chequear"
    /\ e = "cpu" => cpu.paso # "libre" /\ cpu.salida = TRUE /\ cpu.cde.pid = a
    /\ e # "cpu" => \/ cpu.paso = "libre" /\ cpu.cde.pid = NULO
                    \/ /\ cpu.paso = "chequear" /\ cpu.salida = FALSE
                       /\ \/ e \in {"fin", "salida"} /\ cpu.cde.pid = a
                          \/ Esta(cpu.cde.pid, colas["EXIT"])

(* The request of I/O, in at most one interface.                           *)
SerieIO(e, a) ==
    /\ e = "espera" => \E i \in Interfaces : /\ espera[i] = <<a>>
                                             /\ \A j \in Interfaces \ {i} : espera[j] = <<>>
    /\ e # "espera" => \A i \in Interfaces : espera[i] = <<>>
    /\ e = "io" => \E i \in Interfaces :
                      /\ io[i].paso # "libre" /\ io[i].pid = a
                      /\ \A j \in Interfaces \ {i} : io[j].paso = "libre" /\ io[j].pid = NULO
    /\ e # "io" => \A i \in Interfaces : io[i].paso = "libre" /\ io[i].pid = NULO
    /\ e = "desbloqueo" => pid_a_desbloquear = a

(* Of the three queues of the processes that are inside, only c has one.   *)
Solo(a, c) ==
    /\ colas["READY"] = IF c = "READY" THEN <<a>> ELSE <<>>
    /\ colas["EXEC"] = IF c = "EXEC" THEN <<a>> ELSE <<>>
    /\ colas["BLOCK"] = IF c = "BLOCK" THEN <<a>> ELSE <<>>

Tiene(h, a) == pc[h] \in Teniendo /\ mano[h] = a

(* Where the PCB of the process that has the turn is.                      *)
SerieLugar(e, a) ==
    /\ e = "grado" => Solo(a, "")
    /\ e = "largo" => Solo(a, "") /\ (pc["largo"] \in PorSacar \/ Tiene("largo", a))
    /\ e = "listo" => Solo(a, "READY")
    /\ e = "corto" => \/ pc["corto"] \in Reservando /\ Solo(a, "READY")
                      \/ Tiene("corto", a) /\ Solo(a, "")
                      \/ pc["corto"] = "fin" /\ mano["corto"] = a /\ Solo(a, "EXEC")
    /\ e \in {"canal", "cpu", "fin", "cde"} => Solo(a, "EXEC")
    /\ e = "salida" => \/ pc["exit_largo"] \in {"disparo"} \cup PorSacar /\ Solo(a, "EXEC")
                       \/ Tiene("exit_largo", a) /\ Solo(a, "")
    /\ e \in EnIO =>
          \/ /\ Solo(a, "EXEC") /\ pc["blocked_ready"] \notin Reservando \cup Teniendo
             /\ sem["t_exec_blocked"] = 1 \/ pc["exec_blocked"] \in PorSacar
          \/ /\ Solo(a, "") /\ pc["blocked_ready"] \notin Reservando \cup Teniendo
             /\ Tiene("exec_blocked", a)
          \/ /\ Solo(a, "BLOCK") /\ pc["blocked_ready"] \notin Teniendo
             /\ sem["t_exec_blocked"] = 0 /\ pc["exec_blocked"] \in {"disparo", "fin"}
          \/ /\ Solo(a, "") /\ Tiene("blocked_ready", a)
             /\ sem["t_exec_blocked"] = 0 /\ pc["exec_blocked"] \in {"disparo", "fin"}

(* The contexts: the one transicion_exec_blocked is about to store is of   *)
(* the PCB it holds, or that PCB is in EXIT.                               *)
SerieContextos(e, a) ==
    /\ caido = FALSE
    /\ \A p \in Procesos : Esta(p, colas["EXIT"]) \/ cde[p].pid = p
    /\ \/ e = "grado"
       \/ e = "largo" /\ pc["largo"] \in PorSacar
       \/ a \in Procesos /\ ~Esta(a, colas["EXIT"])
    /\ ~Esta(NULO, colas["NEW"]) /\ ~Esta(NULO, colas["EXIT"])
    /\ e \in EnIO => cde_interrumpido.pid = a
    /\ pc["exec_blocked"] = "fin" =>
          \/ Esta(mano["exec_blocked"], colas["EXIT"])
          \/ /\ e \notin {"grado", "largo"}
             /\ mano["exec_blocked"] = a /\ cde_interrumpido.pid = a
    /\ pc["blocked_ready"] = "fin" => mano["blocked_ready"] # NULO

Serie(e, a) ==
    /\ SerieHilos(e) /\ SerieBloqueo(e) /\ SerieMensajes(e, a) /\ SerieCpu(e, a)
    /\ SerieIO(e, a) /\ SerieLugar(e, a) /\ SerieContextos(e, a)

EnSerie == \E e \in Etapas, a \in PCB : Serie(e, a)

-----------------------------------------------------------------------------
LEMMA Dominios ==
    TypeOK =>
    /\ pc \in [Hilos -> Pasos] /\ mano \in [Hilos -> PCB] /\ viaje \in [Hilos -> Viajes]
    /\ sem \in [Semaforos -> Nat] /\ contador \in [Colas -> Nat] /\ colas \in [Colas -> Seq(PCB)]
    /\ {"largo", "corto", "exit_largo", "exec_ready", "exec_blocked", "blocked_ready"} = Hilos
    /\ {"GRADO", "en_new", "exec_libre", "readys", "t_exit_largo", "t_exec_ready",
        "t_exec_blocked", "t_blocked_ready"} = Semaforos
    /\ {"NEW", "READY", "READY+", "EXEC", "BLOCK", "EXIT"} = Colas
  BY DEF TypeOK, TipoHilos, TipoColas, Hilos, Semaforos, Colas

(* A step that leaves what a part speaks of as it was keeps it.            *)
LEMMA SerieIgual ==
    ASSUME NEW e, NEW a
    PROVE  /\ SerieHilos(e) /\ UNCHANGED <<sem, pc, contador, viaje>> => SerieHilos(e)'
           /\ SerieBloqueo(e) /\ UNCHANGED <<sem, pc>> => SerieBloqueo(e)'
           /\ SerieMensajes(e, a) /\ UNCHANGED <<aCpu, aKernel, aInterrupt, ds, cpu>>
                => SerieMensajes(e, a)'
           /\ SerieCpu(e, a) /\ UNCHANGED <<cpu, colas>> => SerieCpu(e, a)'
           /\ SerieIO(e, a) /\ UNCHANGED <<espera, io, pid_a_desbloquear>> => SerieIO(e, a)'
           /\ SerieLugar(e, a) /\ UNCHANGED <<sem, pc, mano, colas>> => SerieLugar(e, a)'
           /\ SerieContextos(e, a) /\ UNCHANGED <<cde, cde_interrumpido, caido, pc, mano, colas>>
                => SerieContextos(e, a)'
  <1>1. SerieHilos(e) /\ UNCHANGED <<sem, pc, contador, viaje>> => SerieHilos(e)'
    BY DEF SerieHilos
  <1>2. SerieBloqueo(e) /\ UNCHANGED <<sem, pc>> => SerieBloqueo(e)'
    BY DEF SerieBloqueo
  <1>3. SerieMensajes(e, a) /\ UNCHANGED <<aCpu, aKernel, aInterrupt, ds, cpu>>
           => SerieMensajes(e, a)'
    BY DEF SerieMensajes
  <1>4. SerieCpu(e, a) /\ UNCHANGED <<cpu, colas>> => SerieCpu(e, a)'
    BY DEF SerieCpu
  <1>5. SerieIO(e, a) /\ UNCHANGED <<espera, io, pid_a_desbloquear>> => SerieIO(e, a)'
    BY DEF SerieIO
  <1>6. SerieLugar(e, a) /\ UNCHANGED <<sem, pc, mano, colas>> => SerieLugar(e, a)'
    BY DEF SerieLugar, Solo, Tiene
  <1>7. SerieContextos(e, a) /\ UNCHANGED <<cde, cde_interrumpido, caido, pc, mano, colas>>
           => SerieContextos(e, a)'
    BY DEF SerieContextos
  <1> QED BY <1>1, <1>2, <1>3, <1>4, <1>5, <1>6, <1>7

LEMMA SerieInicial == Algoritmo = "FIFO" /\ Grado = 1 /\ Init => EnSerie
  <1> SUFFICES ASSUME Algoritmo = "FIFO", Grado = 1, Init PROVE EnSerie
    OBVIOUS
  <1>1. TypeOK
    BY TipoInicial
  <1>2. /\ sem["GRADO"] = 1 /\ sem["t_exit_largo"] = 0 /\ sem["t_exec_ready"] = 0
        /\ sem["t_exec_blocked"] = 0 /\ sem["t_blocked_ready"] = 0
        /\ \A h \in Hilos : pc[h] = "disparo" /\ viaje[h] = Trayectos[h]
        /\ \A c \in Colas : colas[c] = <<>> /\ contador[c] = 0
    BY DEF Init, Semaforos, ViajeDe
  <1>9. \A h \in Hilos : ~Trayectos[h].porPid
    BY DEF Hilos, Trayectos, Viaje
  <1>3. SerieHilos("grado")
    BY <1>1, <1>2, <1>9, Dominios DEF SerieHilos, Trayectos, Viaje
  <1>4. SerieBloqueo("grado")
    BY <1>1, <1>2, Dominios DEF SerieBloqueo, EnIO
  <1>5. SerieMensajes("grado", NULO) /\ SerieCpu("grado", NULO) /\ SerieIO("grado", NULO)
    BY DEF Init, SerieMensajes, SerieCpu, SerieIO, SinContexto
  <1>6. SerieLugar("grado", NULO) /\ SerieContextos("grado", NULO)
    BY <1>1, <1>2, Dominios DEF Init, SerieLugar, SerieContextos, Solo, EnIO, Esta
  <1>7. NULO \in PCB /\ "grado" \in Etapas
    BY DEF PCB, Etapas
  <1> QED BY <1>3, <1>4, <1>5, <1>6, <1>7 DEF Serie, EnSerie

LEMMA SerieConsola ==
    ASSUME TypeOK, NEW e \in Etapas, NEW a \in PCB, Serie(e, a), Consola
    PROVE  Serie(e, a)'
  <1>1. CASE IniciarPlanificacion \/ DetenerPlanificacion
    BY <1>1, SerieIgual DEF IniciarPlanificacion, DetenerPlanificacion, vContexto, vIO, vCpu,
       vCanales, Serie
  <1>2. ASSUME NEW p \in Procesos, IniciarProceso(p) PROVE Serie(e, a)'
    <2>1. /\ UNCHANGED <<pc, mano, viaje, cde, cde_interrumpido, caido, espera, io,
                         pid_a_desbloquear, aCpu, aKernel, aInterrupt, ds, cpu>>
          /\ \A c \in Colas \ {"NEW"} : colas'[c] = colas[c] /\ contador'[c] = contador[c]
          /\ \A s \in Semaforos \ {"en_new"} : sem'[s] = sem[s]
          /\ colas'["NEW"] = Append(colas["NEW"], p)
      BY <1>2, Dominios DEF IniciarProceso, vContexto, vIO, vCpu, vCanales
    <2>2. SerieHilos(e)' /\ SerieBloqueo(e)'
      <3>1. SerieHilos(e)'
        BY <2>1, Dominios DEF Serie, SerieHilos
      <3>2. SerieBloqueo(e)'
        BY <2>1, Dominios DEF Serie, SerieBloqueo
      <3> QED BY <3>1, <3>2
    <2>3. SerieCpu(e, a)'
      BY <2>1, Dominios DEF Serie, SerieCpu
    <2>4. SerieLugar(e, a)'
      BY <2>1, Dominios DEF Serie, SerieLugar, Solo, Tiene
    <2>5. ~Esta(NULO, colas["NEW"])'
      <3>1. colas["NEW"] \in Seq(PCB) /\ p \in PCB /\ p # NULO /\ ~Esta(NULO, colas["NEW"])
        BY Dominios, NuloAssumption DEF PCB, Serie, SerieContextos
      <3> QED BY <2>1, <3>1, AlAgregar
    <2>6. SerieContextos(e, a)'
      BY <2>1, <2>5, Dominios DEF Serie, SerieContextos
    <2> QED BY <2>1, <2>2, <2>3, <2>4, <2>6, SerieIgual DEF Serie
  <1> QED BY <1>1, <1>2 DEF Consola

LEMMA UnSoloMensaje ==
    ASSUME NEW x
    PROVE  Len(<<x>>) = 1 /\ <<x>>[1] = x /\ Append(<<>>, x) = <<x>> /\ Head(<<x>>) = x
           /\ Tail(<<x>>) = <<>>
  OBVIOUS

LEMMA EsUnaLista ==
    ASSUME NEW S, NEW s \in Seq(S), Len(s) = 1
    PROVE  s = <<s[1]>>
  OBVIOUS

LEMMA SonDosEnLista ==
    ASSUME NEW S, NEW s \in Seq(S), Len(s) = 2
    PROVE  Tail(Tail(s)) = <<>>
  <1>1. s # <<>>
    BY DosOMas
  <1>2. Tail(s) \in Seq(S) /\ Len(Tail(s)) = 1
    BY <1>1, PrimeroDeUnaLista
  <1>3. Tail(s) # <<>>
    <2> DEFINE t == Tail(s)
    <2>1. Len(t) = 1 /\ Len(<<>>) = 0
      BY <1>2
    <2> HIDE DEF t
    <2>2. t # <<>>
      BY <2>1
    <2> QED BY <2>2 DEF t
  <1>4. Tail(Tail(s)) \in Seq(S) /\ Len(Tail(Tail(s))) = 0
    BY <1>2, <1>3, PrimeroDeUnaLista
  <1> QED BY <1>4, EmptySeq

(* The CPU.                                                                *)
LEMMA SerieCpuPaso ==
    ASSUME TypeOK, NEW e \in Etapas, NEW a \in PCB, Serie(e, a),
           CpuRecibir \/ CpuEjecutar \/ CheckInterrupt \/ CpuInterrupt
    PROVE  \E f \in Etapas : Serie(f, a)'
  <1>0. cpu \in [paso : {"libre", "ejecutar", "chequear"}, cde : Contextos,
                 salida : BOOLEAN, rr : BOOLEAN, io : BOOLEAN]
        /\ aKernel \in Seq(Mensajes) /\ aCpu \in Seq(Contextos) /\ aInterrupt \in Nat
        /\ cpu.cde \in Contextos
    BY DEF TypeOK, TipoCpu, TipoCanales
  <1>1. CASE CpuRecibir
    <2>1. e = "canal" /\ aCpu = <<aCpu[1]>> /\ aCpu[1].pid = a
      BY <1>0, <1>1, EsUnaLista DEF CpuRecibir, Serie, SerieMensajes
    <2>2. /\ cpu'.paso = "ejecutar" /\ cpu'.cde.pid = a /\ cpu'.salida = TRUE
          /\ cpu'.rr = cpu.rr /\ cpu'.io = cpu.io /\ aCpu' = <<>>
      BY <1>0, <1>1, <2>1 DEF CpuRecibir
    <2>3. UNCHANGED <<colas, contador, sem, pc, mano, viaje, ds, caido, aKernel, aInterrupt,
                      cde, cde_interrumpido, espera, io, pid_a_desbloquear>>
      BY <1>1 DEF CpuRecibir, vContexto, vIO
    <2>4. SerieHilos("cpu")' /\ SerieBloqueo("cpu")' /\ SerieIO("cpu", a)'
      BY <2>1, <2>3 DEF Serie, SerieHilos, SerieBloqueo, SerieIO, EnIO
    <2>5. SerieMensajes("cpu", a)' /\ SerieCpu("cpu", a)'
      BY <2>1, <2>2, <2>3 DEF Serie, SerieMensajes, SerieCpu
    <2>6. SerieLugar("cpu", a)' /\ SerieContextos("cpu", a)'
      BY <2>1, <2>3 DEF Serie, SerieLugar, Solo, Tiene, SerieContextos, EnIO
    <2> QED BY <2>4, <2>5, <2>6 DEF Serie, Etapas
  <1>2. CASE CpuCalcular
    <2>1. /\ cpu.paso = "ejecutar" /\ cpu'.paso = "chequear" /\ cpu'.cde = cpu.cde
          /\ cpu'.salida = cpu.salida /\ cpu'.rr = cpu.rr /\ cpu'.io = cpu.io
      BY <1>0, <1>2 DEF CpuCalcular
    <2>2. UNCHANGED <<colas, contador, sem, pc, mano, viaje, ds, caido, aCpu, aKernel, aInterrupt,
                      cde, cde_interrumpido, espera, io, pid_a_desbloquear>>
      BY <1>2 DEF CpuCalcular, vContexto, vIO, vCanales
    <2>3. SerieMensajes(e, a)' /\ SerieCpu(e, a)'
      BY <1>0, <2>1, <2>2 DEF Serie, SerieMensajes, SerieCpu
    <2> QED BY <2>2, <2>3, SerieIgual DEF Serie
  <1>3. ASSUME NEW i \in Interfaces, CpuPedirIO(i) PROVE Serie(e, a)'
    <2>1. e = "cpu" /\ cpu.io = FALSE /\ aKernel = <<>>
      BY <1>0, <1>3 DEF CpuPedirIO, Serie, SerieCpu, SerieMensajes
    <2>2. /\ cpu.paso = "ejecutar" /\ cpu'.paso = "chequear" /\ cpu'.cde.pid = cpu.cde.pid
          /\ cpu'.salida = cpu.salida /\ cpu'.rr = cpu.rr /\ cpu'.io = TRUE
      BY <1>0, <1>3 DEF CpuPedirIO, Contextos
    <2>3. UNCHANGED <<colas, contador, sem, pc, mano, viaje, ds, caido, aCpu, aInterrupt,
                      cde, cde_interrumpido, espera, io, pid_a_desbloquear>>
      BY <1>3 DEF CpuPedirIO, vContexto, vIO
    <2>4. Len(aKernel') = 1 /\ aKernel'[1].op = "INSTRUCCION_INTERFAZ" /\ aKernel'[1].io = i
      BY <1>3, <2>1, UnSoloMensaje DEF CpuPedirIO, Mensaje
    <2>5. SerieMensajes(e, a)' /\ SerieCpu(e, a)'
      BY <2>1, <2>2, <2>3, <2>4 DEF Serie, SerieMensajes, SerieCpu
    <2> QED BY <2>3, <2>5, SerieIgual DEF Serie
  <1>4. CASE CpuExit
    <2>1. e = "cpu" /\ cpu.io = FALSE /\ aKernel = <<>> /\ cpu.cde.pid = a
      BY <1>0, <1>4 DEF CpuExit, Serie, SerieCpu, SerieMensajes
    <2>2. /\ cpu'.paso = "chequear" /\ cpu'.cde = cpu.cde
          /\ cpu'.salida = FALSE /\ cpu'.rr = FALSE /\ cpu'.io = FALSE
      BY <1>0, <1>4, <2>1 DEF CpuExit
    <2>3. UNCHANGED <<colas, contador, sem, pc, mano, viaje, ds, caido, aCpu, aInterrupt,
                      cde, cde_interrumpido, espera, io, pid_a_desbloquear>>
      BY <1>4 DEF CpuExit, vContexto, vIO
    <2>4. Len(aKernel') = 1 /\ aKernel'[1].op = "FINALIZAR_PROCESO" /\ aKernel'[1].cde.pid = a
      BY <1>4, <2>1, UnSoloMensaje DEF CpuExit, Mensaje
    <2>5. SerieMensajes("fin", a)' /\ SerieCpu("fin", a)'
      BY <2>1, <2>2, <2>3, <2>4 DEF Serie, SerieMensajes, SerieCpu
    <2>6. SerieHilos("fin")' /\ SerieBloqueo("fin")' /\ SerieIO("fin", a)'
      BY <2>1, <2>3 DEF Serie, SerieHilos, SerieBloqueo, SerieIO, EnIO
    <2>7. SerieLugar("fin", a)' /\ SerieContextos("fin", a)'
      BY <2>1, <2>3 DEF Serie, SerieLugar, Solo, Tiene, SerieContextos, EnIO
    <2> QED BY <2>5, <2>6, <2>7 DEF Serie, Etapas
  <1>5. CASE CheckInterrupt
    <2>0. UNCHANGED <<colas, contador, sem, pc, mano, viaje, ds, caido, aCpu, aInterrupt,
                      cde, cde_interrumpido, espera, io, pid_a_desbloquear>>
      BY <1>5 DEF CheckInterrupt, vContexto, vIO
    <2>1. CASE cpu.io
      <3>1. e = "cpu" /\ Len(aKernel) = 1 /\ aKernel[1].op = "INSTRUCCION_INTERFAZ"
            /\ aKernel[1].io \in Interfaces /\ cpu.cde.pid = a /\ cpu.rr = FALSE
        BY <1>0, <2>1 DEF Serie, SerieCpu, SerieMensajes
      <3>2. aKernel' = Append(aKernel, Mensaje("CDE", cpu.cde, NULO))
            /\ cpu' = CpuLibera([cpu EXCEPT !.salida = FALSE, !.rr = FALSE, !.io = FALSE])
        BY <1>5, <2>1 DEF CheckInterrupt
      <3>3. /\ cpu'.paso = "libre" /\ cpu'.cde = SinContexto /\ cpu'.rr = FALSE /\ cpu'.io = FALSE
        BY <1>0, <3>2 DEF CpuLibera
      <3>4. /\ Len(aKernel') = 2 /\ aKernel'[1] = aKernel[1]
            /\ aKernel'[2] = Mensaje("CDE", cpu.cde, NULO)
        BY <1>0, <3>1, <3>2, ElSegundo, TipoMensaje
      <3>5. SerieMensajes("cde", a)'
        BY <2>0, <3>1, <3>3, <3>4 DEF Serie, SerieMensajes, Mensaje
      <3>6. SerieCpu("cde", a)'
        BY <2>0, <3>1, <3>3 DEF Serie, SerieCpu, SinContexto
      <3>7. SerieHilos("cde")' /\ SerieBloqueo("cde")' /\ SerieIO("cde", a)'
        BY <2>0, <3>1 DEF Serie, SerieHilos, SerieBloqueo, SerieIO, EnIO
      <3>8. SerieLugar("cde", a)' /\ SerieContextos("cde", a)'
        BY <2>0, <3>1 DEF Serie, SerieLugar, Solo, Tiene, SerieContextos, EnIO
      <3> QED BY <3>5, <3>6, <3>7, <3>8 DEF Serie, Etapas
    <2>2. CASE ~cpu.io
      <3>1. cpu.io = FALSE /\ cpu.rr = FALSE
        BY <1>0, <2>2 DEF Serie, SerieCpu
      <3>2. cpu' = CpuLibera(cpu) /\ aKernel' = aKernel /\ cpu.paso = "chequear"
        BY <1>5, <3>1 DEF CheckInterrupt
      <3>3. /\ cpu'.rr = FALSE /\ cpu'.io = FALSE
            /\ cpu.salida => cpu'.paso = "ejecutar" /\ cpu'.cde = cpu.cde /\ cpu'.salida = cpu.salida
            /\ ~cpu.salida => cpu'.paso = "libre" /\ cpu'.cde = SinContexto
        BY <1>0, <3>1, <3>2 DEF CpuLibera
      <3>4. SerieMensajes(e, a)' /\ SerieCpu(e, a)'
        BY <1>0, <2>0, <3>1, <3>2, <3>3 DEF Serie, SerieMensajes, SerieCpu, SinContexto
      <3> QED BY <2>0, <3>4, SerieIgual DEF Serie
    <2> QED BY <2>1, <2>2
  <1>6. CASE CpuInterrupt
    <2>1. UNCHANGED <<colas, contador, sem, pc, mano, viaje, ds, caido, aCpu, aKernel, aInterrupt,
                      cpu, cde, cde_interrumpido, espera, io, pid_a_desbloquear>>
      BY <1>0, <1>6 DEF CpuInterrupt, InterruptMirar, InterruptEsperar, InterruptRecibir, Serie,
         SerieMensajes, vContexto, vIO, vCanales
    <2> QED BY <2>1, SerieIgual DEF Serie
  <1> QED BY <1>1, <1>2, <1>3, <1>4, <1>5, <1>6 DEF CpuEjecutar

(* The interfaces.                                                         *)
LEMMA SerieInterfaz ==
    ASSUME TypeOK, NEW e \in Etapas, NEW a \in PCB, Serie(e, a),
           NEW i \in Interfaces, InterfazConectada(i)
    PROVE  \E f \in Etapas : Serie(f, a)'
  <1>0. /\ espera \in [Interfaces -> Seq(PCB)]
        /\ io \in [Interfaces -> [paso : {"libre", "operando", "avisar"}, pid : PCB]]
    BY DEF TypeOK, TipoIO
  <1>1. UNCHANGED <<colas, contador, pc, mano, viaje, ds, caido, aCpu, aKernel, aInterrupt,
                    cpu, cde, cde_interrumpido>>
    BY DEF InterfazConectada, IoTomar, IoConcluir, IoAvisar, vContexto, vCpu, vCanales
  <1>2. CASE IoTomar(i)
    <2>1. e = "espera" /\ espera[i] = <<a>> /\ \A j \in Interfaces \ {i} : espera[j] = <<>>
      BY <1>2 DEF IoTomar, Serie, SerieIO
    <2>2. /\ sem' = sem /\ pid_a_desbloquear' = pid_a_desbloquear
          /\ espera' = [espera EXCEPT ![i] = <<>>]
          /\ io' = [io EXCEPT ![i] = [paso |-> "operando", pid |-> a]]
      BY <1>2, <2>1, UnSoloMensaje DEF IoTomar
    <2>3. SerieIO("io", a)'
      BY <1>0, <2>1, <2>2 DEF Serie, SerieIO
    <2>4. SerieHilos("io")' /\ SerieBloqueo("io")' /\ SerieMensajes("io", a)' /\ SerieCpu("io", a)'
      BY <1>1, <2>1, <2>2 DEF Serie, SerieHilos, SerieBloqueo, SerieMensajes, SerieCpu, EnIO
    <2>5. SerieLugar("io", a)' /\ SerieContextos("io", a)'
      BY <1>1, <2>1, <2>2 DEF Serie, SerieLugar, Solo, Tiene, SerieContextos, EnIO
    <2> QED BY <2>3, <2>4, <2>5 DEF Serie, Etapas
  <1>3. CASE IoConcluir(i)
    <2>1. /\ sem' = sem /\ pid_a_desbloquear' = pid_a_desbloquear /\ espera' = espera
          /\ io[i].paso = "operando" /\ io' = [io EXCEPT ![i].paso = "avisar"]
      BY <1>3 DEF IoConcluir
    <2>2. e = "io" /\ io[i].pid = a /\ \A j \in Interfaces \ {i} : io[j].paso = "libre" /\ io[j].pid = NULO
      BY <2>1 DEF Serie, SerieIO
    <2>3. io'[i].paso = "avisar" /\ io'[i].pid = a /\ \A j \in Interfaces \ {i} : io'[j] = io[j]
      BY <1>0, <2>1, <2>2
    <2>4. SerieIO(e, a)'
      BY <2>1, <2>2, <2>3 DEF Serie, SerieIO
    <2> QED BY <1>1, <2>1, <2>4, SerieIgual DEF Serie
  <1>4. CASE IoAvisar(i)
    <2>1. /\ espera' = espera /\ pid_a_desbloquear' = io[i].pid /\ io[i].paso = "avisar"
          /\ io' = [io EXCEPT ![i] = [paso |-> "libre", pid |-> NULO]]
          /\ \A s \in Semaforos \ {"t_blocked_ready"} : sem'[s] = sem[s]
          /\ sem'["t_blocked_ready"] = sem["t_blocked_ready"] + 1
      BY <1>4, Dominios DEF IoAvisar
    <2>2. e = "io" /\ io[i].pid = a /\ \A j \in Interfaces \ {i} : io[j].paso = "libre" /\ io[j].pid = NULO
      BY <2>1 DEF Serie, SerieIO
    <2>3. SerieIO("desbloqueo", a)'
      BY <1>0, <2>1, <2>2 DEF Serie, SerieIO
    <2>4. SerieHilos("desbloqueo")' /\ SerieBloqueo("desbloqueo")'
      <3>1. SerieHilos("desbloqueo")'
        BY <1>1, <2>1, <2>2, Dominios DEF Serie, SerieHilos
      <3>2. SerieBloqueo("desbloqueo")'
        BY <1>1, <2>1, <2>2, Dominios DEF Serie, SerieBloqueo, EnIO
      <3> QED BY <3>1, <3>2
    <2>5. SerieMensajes("desbloqueo", a)' /\ SerieCpu("desbloqueo", a)'
      BY <1>1, <2>1, <2>2 DEF Serie, SerieMensajes, SerieCpu
    <2>6. SerieLugar("desbloqueo", a)' /\ SerieContextos("desbloqueo", a)'
      BY <1>1, <2>1, <2>2, Dominios DEF Serie, SerieLugar, Solo, Tiene, SerieContextos, EnIO
    <2> QED BY <2>3, <2>4, <2>5, <2>6 DEF Serie, Etapas
  <1> QED BY <1>2, <1>3, <1>4 DEF InterfazConectada

(* The dispatch thread.                                                    *)
LEMMA SerieDispatch ==
    ASSUME Algoritmo = "FIFO", TypeOK, NEW e \in Etapas, NEW a \in PCB, Serie(e, a), HiloDispatch
    PROVE  \E f \in Etapas : Serie(f, a)'
  <1>0. aKernel \in Seq(Mensajes) /\ cde \in [Procesos -> Contextos] /\ ~ConQuantum
        /\ espera \in [Interfaces -> Seq(PCB)] /\ cpu.io \in BOOLEAN
    BY DEF TypeOK, TipoCanales, TipoContexto, TipoIO, TipoCpu, ConQuantum
  <1>1. UNCHANGED <<colas, contador, pc, mano, viaje, aCpu, aInterrupt, cpu, cde, io,
                    pid_a_desbloquear>>
    BY DEF HiloDispatch, DsFinalizar, DsFinDeQuantum, DsInterfaz, DsInterfazCde, vContexto, vIO,
           vCpu, vCanales
  <1>2. CASE DsFinalizar
    <2>1. e = "fin"
      BY <1>0, <1>2 DEF DsFinalizar, Llega, Serie, SerieMensajes
    <2>2. Len(aKernel) = 1 /\ aKernel[1].cde.pid = a /\ Head(aKernel) = aKernel[1]
          /\ Tail(aKernel) = <<>>
      BY <1>0, <2>1, EsUnaLista, UnSoloMensaje DEF Serie, SerieMensajes
    <2>3. EnExec(a)
      <3>1. colas["EXEC"] = <<a>> /\ a \in Procesos /\ cde[a].pid = a
        BY <2>1 DEF Serie, SerieLugar, Solo, SerieContextos
      <3> QED BY <3>1, NuloAssumption DEF EnExec
    <2>4. /\ aKernel' = <<>> /\ cde_interrumpido'.pid = a /\ caido' = FALSE /\ ds' = ds
          /\ espera' = espera
          /\ \A s \in Semaforos \ {"t_exit_largo"} : sem'[s] = sem[s]
          /\ sem'["t_exit_largo"] = sem["t_exit_largo"] + 1
      BY <1>0, <1>2, <2>2, <2>3, Dominios DEF DsFinalizar, vIO
    <2>5. SerieHilos("salida")' /\ SerieBloqueo("salida")'
      <3>1. SerieHilos("salida")'
        BY <1>1, <2>1, <2>4, Dominios DEF Serie, SerieHilos
      <3>2. SerieBloqueo("salida")'
        BY <1>1, <2>1, <2>4, Dominios DEF Serie, SerieBloqueo, EnIO
      <3> QED BY <3>1, <3>2
    <2>6. SerieMensajes("salida", a)' /\ SerieCpu("salida", a)' /\ SerieIO("salida", a)'
      BY <1>1, <2>1, <2>4 DEF Serie, SerieMensajes, SerieCpu, SerieIO
    <2>7. SerieLugar("salida", a)'
      BY <1>1, <2>1, <2>4 DEF Serie, SerieLugar, SerieHilos, Solo, Tiene, EnIO
    <2>8. SerieContextos("salida", a)'
      BY <1>1, <2>1, <2>4 DEF Serie, SerieContextos, EnIO
    <2> QED BY <2>5, <2>6, <2>7, <2>8 DEF Serie, Etapas
  <1>3. ~DsFinDeQuantum
    BY <1>0 DEF DsFinDeQuantum, Llega, Serie, SerieMensajes
  <1>4. CASE DsInterfaz
    <2>1. UNCHANGED <<sem, aKernel, cde_interrumpido, espera>> /\ ds' = "cde" /\ caido' = FALSE
      BY <1>0, <1>4 DEF DsInterfaz, vContexto, vIO, vCanales
    <2>2. SerieMensajes(e, a)'
      BY <1>0, <1>1, <1>4, <2>1 DEF DsInterfaz, Llega, Serie, SerieMensajes
    <2>3. SerieContextos(e, a)'
      BY <1>1, <2>1 DEF Serie, SerieContextos
    <2> QED BY <1>1, <2>1, <2>2, <2>3, SerieIgual DEF Serie
  <1>5. CASE DsInterfazCde
    <2>1. e = "cde" /\ Len(aKernel) = 2
      BY <1>0, <1>5 DEF DsInterfazCde, Serie, SerieMensajes
    <2>2. PICK i \in Interfaces : i = aKernel[1].io
      BY <2>1 DEF Serie, SerieMensajes
    <2>3. /\ aKernel' = <<>> /\ cde_interrumpido'.pid = a /\ caido' = caido /\ ds' = "op"
          /\ espera' = [espera EXCEPT ![i] = Append(@, a)]
          /\ \A s \in Semaforos \ {"t_exec_blocked"} : sem'[s] = sem[s]
          /\ sem'["t_exec_blocked"] = sem["t_exec_blocked"] + 1
      <3>1. aKernel[2].cde.pid = a
        BY <2>1 DEF Serie, SerieMensajes
      <3>2. Tail(Tail(aKernel)) = <<>>
        BY <1>0, <2>1, SonDosEnLista DEF Serie, SerieMensajes
      <3> QED BY <1>5, <2>2, <3>1, <3>2, Dominios DEF DsInterfazCde
    <2>4. SerieIO("espera", a)'
      <3>1. espera'[i] = <<a>> /\ \A j \in Interfaces \ {i} : espera'[j] = <<>>
        BY <1>0, <2>1, <2>3, UnSoloMensaje DEF Serie, SerieIO
      <3> QED BY <1>1, <2>1, <2>3, <3>1 DEF Serie, SerieIO
    <2>5. SerieHilos("espera")' /\ SerieBloqueo("espera")'
      <3>1. SerieHilos("espera")'
        BY <1>1, <2>1, <2>3, Dominios DEF Serie, SerieHilos
      <3>2. SerieBloqueo("espera")'
        BY <1>1, <2>1, <2>3, Dominios DEF Serie, SerieBloqueo, EnIO
      <3> QED BY <3>1, <3>2
    <2>6. SerieMensajes("espera", a)' /\ SerieCpu("espera", a)'
      BY <1>1, <2>1, <2>3 DEF Serie, SerieMensajes, SerieCpu
    <2>7. SerieLugar("espera", a)'
      BY <1>1, <2>1, <2>3, Dominios DEF Serie, SerieLugar, SerieHilos, SerieBloqueo, Solo, Tiene,
         EnIO, Reservando, Teniendo
    <2>8. SerieContextos("espera", a)'
      BY <1>1, <2>1, <2>3 DEF Serie, SerieContextos, EnIO
    <2> QED BY <2>4, <2>5, <2>6, <2>7, <2>8 DEF Serie, Etapas
  <1> QED BY <1>2, <1>3, <1>4, <1>5 DEF HiloDispatch

(* A thread goes on within its transition, with its PCB or without.        *)
MismoTramo(x, y) ==
    \/ x = y
    \/ x \in {"evaluar1", "pausa1", "contador"} /\ y \in {"evaluar1", "pausa1", "contador"}
    \/ x \in Reservando /\ y \in Reservando
    \/ x \in Teniendo /\ y \in Teniendo

LEMMA SerieTramo ==
    ASSUME TypeOK, NEW e \in Etapas, NEW a \in PCB, Serie(e, a),
           \A h \in Hilos : MismoTramo(pc[h], pc'[h]),
           UNCHANGED <<colas, contador, sem, mano, viaje, ds, caido,
                       vContexto, vIO, vCpu, vCanales>>
    PROVE  Serie(e, a)'
  <1>1. /\ MismoTramo(pc["largo"], pc'["largo"]) /\ MismoTramo(pc["corto"], pc'["corto"])
        /\ MismoTramo(pc["exit_largo"], pc'["exit_largo"])
        /\ MismoTramo(pc["exec_ready"], pc'["exec_ready"])
        /\ MismoTramo(pc["exec_blocked"], pc'["exec_blocked"])
        /\ MismoTramo(pc["blocked_ready"], pc'["blocked_ready"])
    BY Dominios
  <1> USE DEF MismoTramo, Reservando, Teniendo, PorSacar
  <1>2. SerieHilos(e)' /\ SerieBloqueo(e)'
    <2>1. SerieHilos(e)'
      BY <1>1 DEF Serie, SerieHilos
    <2>2. SerieBloqueo(e)'
      BY <1>1 DEF Serie, SerieBloqueo
    <2> QED BY <2>1, <2>2
  <1>3. SerieMensajes(e, a)' /\ SerieCpu(e, a)' /\ SerieIO(e, a)'
    BY SerieIgual DEF Serie, vIO, vCpu, vCanales
  <1>4. SerieLugar(e, a)'
    BY <1>1 DEF Serie, SerieLugar, Solo, Tiene
  <1>5. SerieContextos(e, a)'
    BY <1>1 DEF Serie, SerieContextos, vContexto
  <1> QED BY <1>2, <1>3, <1>4, <1>5 DEF Serie

LEMMA SerieEvaluar ==
    ASSUME TypeOK, NEW e \in Etapas, NEW a \in PCB, Serie(e, a), NEW h \in Hilos,
           EvaluarPlanificacion(h) \/ ReanudarPlanificacion(h)
    PROVE  Serie(e, a)'
  <1>1. PICK l : pc' = [pc EXCEPT ![h] = l] /\ MismoTramo(pc[h], l)
    BY DEF EvaluarPlanificacion, ReanudarPlanificacion, Evaluar, Reanudar, Salta, MismoTramo,
           Reservando, Teniendo
  <1>2. \A k \in Hilos : MismoTramo(pc[k], pc'[k])
    BY <1>1, Dominios DEF MismoTramo
  <1> QED BY <1>2, SerieTramo DEF EvaluarPlanificacion, ReanudarPlanificacion, Evaluar, Reanudar

(* A queue whose counter has a unit, taken or not, has somebody.           *)
LEMMA HayAlguien ==
    ASSUME TypeOK, ContadorRespaldado, NEW c \in Colas,
           contador[c] > 0 \/ \E h \in Hilos : Reserva(h, c)
    PROVE  colas[c] # <<>>
  <1>1. Respaldada(c) /\ colas[c] \in Seq(PCB) /\ contador[c] \in Nat /\ Len(colas[c]) \in Nat
    BY RespaldoPorCola, Dominios
  <1>2. Cardinality(Reservan(c)) \in Nat /\ IsFiniteSet(Reservan(c))
    BY ReservanFinito
  <1>3. contador[c] + Cardinality(Reservan(c)) > 0
    <2>1. CASE contador[c] > 0
      BY <1>1, <1>2, <2>1
    <2>2. CASE \E h \in Hilos : Reserva(h, c)
      <3>1. Reservan(c) # {}
        BY <2>2 DEF Reservan
      <3>2. Cardinality(Reservan(c)) # 0
        BY <1>2, <3>1, FS_EmptySet
      <3> QED BY <1>1, <1>2, <3>2
    <2> QED BY <2>1, <2>2
  <1>4. Len(colas[c]) > 0
    BY <1>1, <1>2, <1>3 DEF Respaldada
  <1> QED BY <1>4

LEMMA SerieEsperar ==
    ASSUME TypeOK, ContadorRespaldado, Rutas, NEW e \in Etapas, NEW a \in PCB, Serie(e, a),
           NEW h \in Hilos, EsperarContador(h)
    PROVE  \E f \in Etapas : Serie(f, a)'
  <1>0. /\ pc[h] = "contador" /\ pc' = [pc EXCEPT ![h] = "evaluar2"]
        /\ contador[viaje[h].de] > 0
        /\ contador' = [contador EXCEPT ![viaje[h].de] = @ - 1]
        /\ UNCHANGED <<colas, sem, mano, viaje, ds, caido, cde, cde_interrumpido, espera, io,
                       pid_a_desbloquear, cpu, aCpu, aKernel, aInterrupt>>
    BY DEF EsperarContador, Salta, vContexto, vIO, vCpu, vCanales
  <1>1. viaje["largo"].de = "NEW" /\ viaje["exit_largo"].de = "EXEC"
        /\ viaje["exec_blocked"].de = "EXEC" /\ viaje["blocked_ready"].de = "BLOCK"
        /\ viaje["corto"].de = "READY"
    BY DEF Rutas, Trayectos, Viaje, Serie, SerieHilos
  <1> USE DEF Reservando, Teniendo, PorSacar
  <1>3. CASE h = "corto"
    <2>1. e = "listo"
      BY <1>0, <1>1, <1>3, Dominios DEF Serie, SerieHilos
    <2>2. contador'["READY"] = 0 /\ pc'["corto"] = "evaluar2"
          /\ \A k \in Hilos \ {"corto"} : pc'[k] = pc[k]
      BY <1>0, <1>1, <1>3, <2>1, Dominios DEF Serie, SerieHilos
    <2>3. SerieHilos("corto")' /\ SerieBloqueo("corto")'
      <3>1. SerieHilos("corto")'
        BY <1>0, <2>1, <2>2, Dominios DEF Serie, SerieHilos
      <3>2. SerieBloqueo("corto")'
        BY <1>0, <2>1, <2>2, Dominios DEF Serie, SerieBloqueo, EnIO
      <3> QED BY <3>1, <3>2
    <2>4. SerieMensajes("corto", a)' /\ SerieCpu("corto", a)' /\ SerieIO("corto", a)'
      BY <1>0, <2>1 DEF Serie, SerieMensajes, SerieCpu, SerieIO
    <2>5. SerieLugar("corto", a)'
      BY <1>0, <2>1, <2>2, Dominios DEF Serie, SerieLugar, Solo, Tiene, EnIO
    <2>6. SerieContextos("corto", a)'
      BY <1>0, <2>1, <2>2, Dominios DEF Serie, SerieContextos, EnIO
    <2> QED BY <2>3, <2>4, <2>5, <2>6 DEF Serie, Etapas
  <1>4. CASE h # "corto"
    <2>1. contador'["READY"] = contador["READY"] /\ pc'["corto"] = pc["corto"]
          /\ h # "exec_ready" /\ pc'[h] = "evaluar2" /\ \A k \in Hilos \ {h} : pc'[k] = pc[k]
      BY <1>0, <1>1, <1>4, Dominios DEF Serie, SerieHilos
    <2>2. SerieHilos(e)' /\ SerieBloqueo(e)'
      <3>1. SerieHilos(e)'
        BY <1>0, <2>1, <1>4, Dominios DEF Serie, SerieHilos
      <3>2. SerieBloqueo(e)'
        BY <1>0, <2>1, <1>4, Dominios DEF Serie, SerieBloqueo
      <3> QED BY <3>1, <3>2
    <2>3. SerieMensajes(e, a)' /\ SerieCpu(e, a)' /\ SerieIO(e, a)'
      BY <1>0, SerieIgual DEF Serie
    <2>4. SerieLugar(e, a)'
      <3>1. CASE h # "blocked_ready"
        BY <1>0, <1>4, <2>1, <3>1, Dominios DEF Serie, SerieLugar, Solo, Tiene
      <3>2. CASE h = "blocked_ready"
        <4>1. colas["BLOCK"] # <<>> /\ e = "desbloqueo"
          BY <1>0, <1>1, <3>2, HayAlguien, Dominios DEF Serie, SerieHilos
        <4> QED BY <1>0, <2>1, <3>2, <4>1, Dominios DEF Serie, SerieLugar, Solo, Tiene, EnIO
      <3> QED BY <3>1, <3>2
    <2>5. SerieContextos(e, a)'
      BY <1>0, <2>1, Dominios DEF Serie, SerieContextos
    <2> QED BY <2>2, <2>3, <2>4, <2>5 DEF Serie
  <1> QED BY <1>3, <1>4

(* list_remove on a list of one PCB, when it is the one looked for.        *)
LEMMA SacaElUnico ==
    ASSUME TypeOK, NEW h \in Hilos, Sacar(h), NEW x \in PCB, colas[viaje[h].de] = <<x>>,
           viaje[h].porPid => EsIOBuscada(x)
    PROVE  mano' = [mano EXCEPT ![h] = x] /\ colas' = [colas EXCEPT ![viaje[h].de] = <<>>]
  <1>1. CASE SacarPrimero(h)
    <2>1. Head(<<x>>) = x /\ Tail(<<x>>) = <<>> /\ <<x>> # <<>>
      OBVIOUS
    <2> QED BY <1>1, <2>1 DEF SacarPrimero
  <1>2. CASE SacarBuscado(h)
    <2>1. DOMAIN <<x>> = {1} /\ <<x>>[1] = x /\ <<x>> \in Seq(PCB) /\ Len(<<x>>) = 1
      OBVIOUS
    <2>2. RemoveAt(<<x>>, 1) \in Seq(PCB) /\ Len(RemoveAt(<<x>>, 1)) = 0
      <3> DEFINE s == <<x>>
      <3>1. s \in Seq(PCB) /\ 1 \in DOMAIN s /\ Len(s) = 1
        BY <2>1
      <3> HIDE DEF s
      <3>2. RemoveAt(s, 1) \in Seq(PCB) /\ Len(RemoveAt(s, 1)) = 1 - 1
        BY <3>1, QuitarUno
      <3> QED BY <3>2 DEF s
    <2>3. RemoveAt(<<x>>, 1) = <<>>
      BY <2>2, EmptySeq
    <2>4. PICK i \in DOMAIN <<x>> : /\ mano' = [mano EXCEPT ![h] = <<x>>[i]]
                                    /\ colas' = [colas EXCEPT ![viaje[h].de] = RemoveAt(@, i)]
      BY <1>2, <2>1 DEF SacarBuscado
    <2>5. i = 1
      BY <2>1
    <2> QED BY <2>1, <2>3, <2>4, <2>5
  <1> QED BY <1>1, <1>2 DEF Sacar

(* largo_plazo takes the first of NEW, a process that is in no other queue.*)
LEMMA SerieSacarLargo ==
    ASSUME TypeOK, ContadorRespaldado, Rutas, Custodia, NEW e \in Etapas, NEW a \in PCB,
           Serie(e, a), Sacar("largo")
    PROVE  \E b \in PCB : Serie(e, b)'
  <1>0. /\ pc["largo"] = "sacar" /\ pc' = [pc EXCEPT !["largo"] = "evaluar3"]
        /\ UNCHANGED <<contador, sem, viaje, ds, caido, cde, cde_interrumpido, espera, io,
                       pid_a_desbloquear, cpu, aCpu, aKernel, aInterrupt>>
    BY DEF Sacar, Salta, vContexto, vIO, vCpu, vCanales
  <1>1. e = "largo" /\ viaje["largo"].de = "NEW" /\ ~viaje["largo"].porPid
    BY <1>0, Dominios DEF Serie, SerieHilos, Rutas, Trayectos, Viaje
  <1>2. colas["NEW"] # <<>> /\ colas["NEW"] \in Seq(PCB)
    BY <1>0, <1>1, HayAlguien, Dominios DEF Reserva
  <1>3. PICK b \in PCB : /\ b = Head(colas["NEW"]) /\ b = colas["NEW"][1] /\ 1 \in DOMAIN colas["NEW"]
                         /\ SinEntrada(colas["NEW"], 1, Tail(colas["NEW"]))
    BY <1>2, QuitaElPrimero
  <1>4. mano' = [mano EXCEPT !["largo"] = b] /\ colas' = [colas EXCEPT !["NEW"] = Tail(@)]
    BY <1>1, <1>2, <1>3 DEF Sacar, SacarPrimero, SacarBuscado
  <1>5. Esta(b, colas["NEW"])
    BY <1>3 DEF Esta
  <1>6. b \in Procesos
    BY <1>5 DEF Serie, SerieContextos, PCB
  <1>7. ~Esta(b, colas["EXIT"])
    BY <1>5, <1>6, Dominios DEF Custodia, EnCola
  <1>8. ~Esta(NULO, Tail(colas["NEW"]))
    <2>1. SinEntrada(colas["NEW"], 1, Tail(colas["NEW"])) /\ ~Esta(NULO, colas["NEW"])
      BY <1>3 DEF Serie, SerieContextos
    <2> QED BY <2>1 DEF SinEntrada, Esta
  <1>9. /\ \A c \in Colas \ {"NEW"} : colas'[c] = colas[c]
        /\ colas'["NEW"] = Tail(colas["NEW"]) /\ mano'["largo"] = b
        /\ \A k \in Hilos \ {"largo"} : pc'[k] = pc[k] /\ mano'[k] = mano[k]
        /\ pc'["largo"] = "evaluar3"
    BY <1>0, <1>4, Dominios
  <1> USE DEF Reservando, Teniendo, PorSacar
  <1>10. SerieHilos(e)' /\ SerieBloqueo(e)'
    <2>1. SerieHilos(e)'
      BY <1>0, <1>1, <1>9, Dominios DEF Serie, SerieHilos
    <2>2. SerieBloqueo(e)'
      BY <1>0, <1>1, <1>9, Dominios DEF Serie, SerieBloqueo, EnIO
    <2> QED BY <2>1, <2>2
  <1>11. SerieMensajes(e, b)' /\ SerieCpu(e, b)' /\ SerieIO(e, b)'
    BY <1>0, <1>1, <1>9, Dominios DEF Serie, SerieMensajes, SerieCpu, SerieIO
  <1>12. SerieLugar(e, b)'
    BY <1>0, <1>1, <1>9, Dominios DEF Serie, SerieLugar, Solo, Tiene, EnIO
  <1>13. SerieContextos(e, b)'
    BY <1>0, <1>1, <1>6, <1>7, <1>8, <1>9, Dominios DEF Serie, SerieContextos, EnIO
  <1> QED BY <1>10, <1>11, <1>12, <1>13 DEF Serie

(* Every other thread takes the process that has the turn.                 *)
LEMMA SerieSacar ==
    ASSUME TypeOK, Rutas, NEW e \in Etapas, NEW a \in PCB, Serie(e, a),
           NEW h \in Hilos \ {"largo"}, Sacar(h)
    PROVE  Serie(e, a)'
  <1>0. /\ pc[h] = "sacar" /\ pc' = [pc EXCEPT ![h] = "evaluar3"]
        /\ UNCHANGED <<contador, sem, viaje, ds, caido, cde, cde_interrumpido, espera, io,
                       pid_a_desbloquear, cpu, aCpu, aKernel, aInterrupt>>
    BY DEF Sacar, Salta, vContexto, vIO, vCpu, vCanales
  <1>1. viaje["exit_largo"].de = "EXEC" /\ viaje["exec_blocked"].de = "EXEC"
        /\ viaje["blocked_ready"].de = "BLOCK" /\ viaje["corto"].de = "READY"
        /\ h # "exec_ready"
    BY <1>0 DEF Rutas, Trayectos, Viaje, Serie, SerieHilos
  <1> USE DEF Reservando, Teniendo, PorSacar
  <1>2. /\ colas[viaje[h].de] = <<a>> /\ viaje[h].de \in {"READY", "EXEC", "BLOCK"}
        /\ h = "corto" => e = "corto" /\ Solo(a, "READY")
        /\ h = "exit_largo" => e = "salida" /\ Solo(a, "EXEC")
        /\ h = "exec_blocked" => e \in EnIO /\ Solo(a, "EXEC")
        /\ h = "blocked_ready" => e = "desbloqueo" /\ Solo(a, "BLOCK")
    <2>1. CASE h = "corto"
      BY <1>0, <1>1, <2>1 DEF Serie, SerieHilos, SerieLugar, Solo, Tiene
    <2>2. CASE h = "exit_largo"
      BY <1>0, <1>1, <2>2 DEF Serie, SerieHilos, SerieLugar, Solo, Tiene
    <2>3. CASE h = "exec_blocked"
      BY <1>0, <1>1, <2>3 DEF Serie, SerieBloqueo, SerieLugar, Solo, Tiene
    <2>4. CASE h = "blocked_ready"
      BY <1>0, <1>1, <2>4 DEF Serie, SerieHilos, SerieLugar, Solo, Tiene, EnIO
    <2> QED BY <1>1, <2>1, <2>2, <2>3, <2>4, Dominios
  <1>3. a \in Procesos /\ cde[a].pid = a
    <2>1. e \notin {"grado", "largo"}
      BY <1>1, <1>2, Dominios DEF EnIO
    <2> QED BY <2>1 DEF Serie, SerieContextos
  <1>4. viaje[h].porPid => EsIOBuscada(a)
    <2>1. viaje[h].porPid => h = "blocked_ready" /\ pid_a_desbloquear = a
      BY <1>2 DEF Serie, SerieHilos, SerieIO
    <2> QED BY <1>3, <2>1, NuloAssumption DEF EsIOBuscada
  <1>5. mano' = [mano EXCEPT ![h] = a] /\ colas' = [colas EXCEPT ![viaje[h].de] = <<>>]
    BY <1>2, <1>4, SacaElUnico
  <1>6. /\ \A c \in Colas \ {viaje[h].de} : colas'[c] = colas[c]
        /\ colas'[viaje[h].de] = <<>> /\ mano'[h] = a
        /\ \A k \in Hilos \ {h} : pc'[k] = pc[k] /\ mano'[k] = mano[k]
        /\ pc'[h] = "evaluar3"
    BY <1>0, <1>2, <1>5, Dominios
  <1>11. Solo(a, "")'
    <2>1. Solo(a, viaje[h].de)
      BY <1>1, <1>2, Dominios
    <2>2. /\ "READY" # viaje[h].de => colas'["READY"] = colas["READY"]
          /\ "EXEC" # viaje[h].de => colas'["EXEC"] = colas["EXEC"]
          /\ "BLOCK" # viaje[h].de => colas'["BLOCK"] = colas["BLOCK"]
      BY <1>6, Dominios
    <2> QED BY <1>2, <1>6, <2>1, <2>2 DEF Solo
  <1>12. colas'["EXIT"] = colas["EXIT"] /\ colas'["NEW"] = colas["NEW"]
    BY <1>2, <1>6, Dominios
  <1>7. SerieHilos(e)' /\ SerieBloqueo(e)'
    <2>1. SerieHilos(e)'
      BY <1>0, <1>1, <1>6, Dominios DEF Serie, SerieHilos
    <2>2. SerieBloqueo(e)'
      BY <1>0, <1>1, <1>6, Dominios DEF Serie, SerieBloqueo
    <2> QED BY <2>1, <2>2
  <1>8. SerieMensajes(e, a)' /\ SerieCpu(e, a)' /\ SerieIO(e, a)'
    BY <1>0, <1>12 DEF Serie, SerieMensajes, SerieCpu, SerieIO
  <1>9. SerieLugar(e, a)'
    <2>1. Tiene(h, a)'
      BY <1>6 DEF Tiene
    <2>2. CASE h \in {"corto", "exit_largo"}
      BY <1>2, <1>6, <1>11, <2>1, <2>2 DEF SerieLugar, EnIO
    <2>3. CASE h = "exec_blocked"
      BY <1>0, <1>1, <1>2, <1>6, <1>11, <2>1, <2>3, Dominios DEF Serie, SerieLugar, Solo, Tiene, EnIO
    <2>4. CASE h = "blocked_ready"
      BY <1>0, <1>1, <1>2, <1>6, <1>11, <2>1, <2>4, Dominios DEF Serie, SerieLugar, Solo, Tiene, EnIO
    <2> QED BY <1>1, <2>2, <2>3, <2>4, Dominios
  <1>10. SerieContextos(e, a)'
    BY <1>0, <1>2, <1>6, <1>12, Dominios DEF Serie, SerieContextos
  <1> QED BY <1>7, <1>8, <1>9, <1>10 DEF Serie

(* agregar_a_estado, by each thread.                                       *)
LEMMA AlVacio ==
    ASSUME NEW x
    PROVE  Append(<<>>, x) = <<x>>
  OBVIOUS

LEMMA DelCeroAlUno == \A n \in Nat : n = 0 => n + 1 = 1
  OBVIOUS

LEMMA SerieAgregarLargo ==
    ASSUME Algoritmo = "FIFO", TypeOK, Rutas, NEW e \in Etapas, NEW a \in PCB, Serie(e, a),
           LargoAgregar
    PROVE  Serie("listo", a)'
  <1>0. /\ pc["largo"] = "agregar" /\ pc' = [pc EXCEPT !["largo"] = "disparo"] /\ sem' = sem
        /\ mano' = [mano EXCEPT !["largo"] = NULO]
        /\ colas' = [colas EXCEPT !["READY"] = Append(@, mano["largo"])]
        /\ contador' = [contador EXCEPT !["READY"] = @ + 1]
        /\ UNCHANGED <<viaje, ds, caido, cde, cde_interrumpido, espera, io, pid_a_desbloquear, cpu,
                       aCpu, aKernel, aInterrupt>>
    BY DEF LargoAgregar, AgregarAEstado, Vuelve, Salta, PostReadys, vContexto, vIO, vCpu, vCanales,
           Rutas, Trayectos, Viaje
  <1> USE DEF Reservando, Teniendo, PorSacar
  <1>1. e = "largo" /\ mano["largo"] = a /\ Solo(a, "") /\ contador["READY"] = 0
    BY <1>0 DEF Serie, SerieHilos, SerieLugar, Tiene
  <1>2. /\ \A c \in Colas \ {"READY"} : colas'[c] = colas[c] /\ contador'[c] = contador[c]
        /\ colas'["READY"] = <<a>> /\ contador'["READY"] = 1 /\ pc'["largo"] = "disparo"
        /\ \A k \in Hilos \ {"largo"} : pc'[k] = pc[k] /\ mano'[k] = mano[k]
    BY <1>0, <1>1, AlVacio, Dominios DEF Solo
  <1>3. Solo(a, "READY")' /\ colas'["EXIT"] = colas["EXIT"] /\ colas'["NEW"] = colas["NEW"]
    BY <1>1, <1>2, Dominios DEF Solo
  <1>4. SerieHilos("listo")' /\ SerieBloqueo("listo")'
    <2>1. SerieHilos("listo")'
      BY <1>0, <1>1, <1>2, Dominios DEF Serie, SerieHilos
    <2>2. SerieBloqueo("listo")'
      BY <1>0, <1>1, <1>2, Dominios DEF Serie, SerieBloqueo, EnIO
    <2> QED BY <2>1, <2>2
  <1>5. SerieMensajes("listo", a)' /\ SerieCpu("listo", a)' /\ SerieIO("listo", a)'
    BY <1>0, <1>1, <1>3 DEF Serie, SerieMensajes, SerieCpu, SerieIO
  <1>6. SerieLugar("listo", a)'
    BY <1>3 DEF SerieLugar, EnIO
  <1>7. SerieContextos("listo", a)'
    BY <1>0, <1>1, <1>2, <1>3, Dominios DEF Serie, SerieContextos, EnIO
  <1> QED BY <1>4, <1>5, <1>6, <1>7 DEF Serie

LEMMA SerieAgregarExit ==
    ASSUME TypeOK, Rutas, NEW e \in Etapas, NEW a \in PCB, Serie(e, a), ExitAgregar
    PROVE  Serie("grado", a)'
  <1>0. /\ pc["exit_largo"] = "agregar" /\ pc' = [pc EXCEPT !["exit_largo"] = "disparo"]
        /\ sem' = [sem EXCEPT !["GRADO"] = @ + 1, !["exec_libre"] = @ + 1]
        /\ mano' = [mano EXCEPT !["exit_largo"] = NULO]
        /\ colas' = [colas EXCEPT !["EXIT"] = Append(@, mano["exit_largo"])]
        /\ contador' = [contador EXCEPT !["EXIT"] = @ + 1]
        /\ UNCHANGED <<viaje, ds, caido, cde, cde_interrumpido, espera, io, pid_a_desbloquear, cpu,
                       aCpu, aKernel, aInterrupt>>
    BY DEF ExitAgregar, AgregarAEstado, Vuelve, Salta, vContexto, vIO, vCpu, vCanales,
           Rutas, Trayectos, Viaje
  <1> USE DEF Reservando, Teniendo, PorSacar
  <1>1. e = "salida" /\ mano["exit_largo"] = a /\ Solo(a, "") /\ sem["GRADO"] = 0
        /\ sem["t_exit_largo"] = 0 /\ a \in Procesos
    BY <1>0 DEF Serie, SerieHilos, SerieLugar, Tiene, SerieContextos
  <1>2. /\ \A c \in Colas \ {"EXIT"} : colas'[c] = colas[c] /\ contador'[c] = contador[c]
        /\ colas'["EXIT"] = Append(colas["EXIT"], a) /\ pc'["exit_largo"] = "disparo"
        /\ sem'["GRADO"] = 1 /\ \A s \in Semaforos \ {"GRADO", "exec_libre"} : sem'[s] = sem[s]
        /\ \A k \in Hilos \ {"exit_largo"} : pc'[k] = pc[k] /\ mano'[k] = mano[k]
    <2>1. /\ \A c \in Colas \ {"EXIT"} : colas'[c] = colas[c] /\ contador'[c] = contador[c]
          /\ colas'["EXIT"] = Append(colas["EXIT"], a)
      BY <1>0, <1>1, Dominios
    <2>2. /\ pc'["exit_largo"] = "disparo"
          /\ \A k \in Hilos \ {"exit_largo"} : pc'[k] = pc[k] /\ mano'[k] = mano[k]
      BY <1>0, Dominios
    <2>3. "GRADO" \in Semaforos /\ "exec_libre" \in Semaforos /\ sem \in [Semaforos -> Nat]
      BY Dominios
    <2>4. \A s \in Semaforos \ {"GRADO", "exec_libre"} : sem'[s] = sem[s]
      BY <1>0, <2>3
    <2>5. sem'["GRADO"] = sem["GRADO"] + 1
      BY <1>0, <2>3
    <2>6. sem'["GRADO"] = 1
      BY <1>1, <2>3, <2>5, DelCeroAlUno
    <2> QED BY <2>1, <2>2, <2>4, <2>6
  <1>3. \A p : Esta(p, colas["EXIT"])' <=> Esta(p, colas["EXIT"]) \/ p = a
    <2>1. colas["EXIT"] \in Seq(PCB)
      BY Dominios
    <2> QED BY <1>2, <2>1, AlAgregar
  <1>4. Solo(a, "")'
    BY <1>1, <1>2, Dominios DEF Solo
  <1>5. SerieHilos("grado")' /\ SerieBloqueo("grado")'
    <2>1. SerieHilos("grado")'
      BY <1>0, <1>1, <1>2, Dominios DEF Serie, SerieHilos
    <2>2. SerieBloqueo("grado")'
      BY <1>0, <1>1, <1>2, Dominios DEF Serie, SerieBloqueo, EnIO
    <2> QED BY <2>1, <2>2
  <1>6. SerieMensajes("grado", a)' /\ SerieIO("grado", a)'
    BY <1>0, <1>1 DEF Serie, SerieMensajes, SerieIO
  <1>7. SerieCpu("grado", a)'
    BY <1>0, <1>1, <1>3 DEF Serie, SerieCpu
  <1>8. SerieLugar("grado", a)'
    BY <1>4 DEF SerieLugar, EnIO
  <1>9. SerieContextos("grado", a)'
    BY <1>0, <1>1, <1>2, <1>3, NuloAssumption, Dominios DEF Serie, SerieContextos, EnIO
  <1> QED BY <1>5, <1>6, <1>7, <1>8, <1>9 DEF Serie

LEMMA SerieAgregarYSeguir ==
    ASSUME TypeOK, Rutas, NEW e \in Etapas, NEW a \in PCB, Serie(e, a),
           NEW h \in Hilos \ {"largo", "exit_largo"}, AgregarYSeguir(h)
    PROVE  \E f \in Etapas : Serie(f, a)'
  <1>0. /\ pc[h] = "agregar" /\ pc' = [pc EXCEPT ![h] = "fin"]
        /\ colas' = [colas EXCEPT ![viaje[h].a] = Append(@, mano[h])]
        /\ contador' = [contador EXCEPT ![viaje[h].a] = @ + 1]
        /\ UNCHANGED <<sem, mano, viaje, ds, caido, cde, cde_interrumpido, espera, io,
                       pid_a_desbloquear, cpu, aCpu, aKernel, aInterrupt>>
    BY DEF AgregarYSeguir, AgregarAEstado, Salta, vContexto, vIO, vCpu, vCanales
  <1>1. viaje["exec_blocked"].a = "BLOCK" /\ viaje["blocked_ready"].a = "READY"
        /\ viaje["corto"].a = "EXEC"
    BY DEF Rutas, Trayectos, Viaje, Serie, SerieHilos
  <1> USE DEF Reservando, Teniendo, PorSacar
  <1>2. /\ pc'[h] = "fin" /\ \A k \in Hilos \ {h} : pc'[k] = pc[k]
        /\ \A c \in Colas \ {viaje[h].a} : colas'[c] = colas[c] /\ contador'[c] = contador[c]
    BY <1>0, Dominios
  <1>3. CASE h = "corto"
    <2>1. e = "corto" /\ mano["corto"] = a /\ Solo(a, "")
      BY <1>0, <1>3 DEF Serie, SerieHilos, SerieLugar, Tiene
    <2>2. colas'["EXEC"] = <<a>>
      BY <1>0, <1>1, <1>3, <2>1, AlVacio, Dominios DEF Solo
    <2>3. Solo(a, "EXEC")' /\ colas'["EXIT"] = colas["EXIT"] /\ colas'["NEW"] = colas["NEW"]
          /\ contador'["READY"] = contador["READY"]
      BY <1>1, <1>2, <1>3, <2>1, <2>2, Dominios DEF Solo
    <2>4. SerieHilos(e)' /\ SerieBloqueo(e)'
      <3>1. SerieHilos(e)'
        BY <1>0, <1>2, <1>3, <2>1, <2>3, Dominios DEF Serie, SerieHilos
      <3>2. SerieBloqueo(e)'
        BY <1>0, <1>2, <1>3, <2>1, <2>3, Dominios DEF Serie, SerieBloqueo, EnIO
      <3> QED BY <3>1, <3>2
    <2>5. SerieMensajes(e, a)' /\ SerieCpu(e, a)' /\ SerieIO(e, a)'
      BY <1>0, <2>3 DEF Serie, SerieMensajes, SerieCpu, SerieIO
    <2>6. SerieLugar(e, a)'
      BY <1>0, <1>2, <1>3, <2>1, <2>3, Dominios DEF SerieLugar, EnIO
    <2>7. SerieContextos(e, a)'
      BY <1>0, <1>2, <1>3, <2>3, Dominios DEF Serie, SerieContextos, EnIO
    <2> QED BY <2>4, <2>5, <2>6, <2>7 DEF Serie
  <1>4. CASE h = "exec_blocked"
    <2>1. e \in EnIO /\ mano["exec_blocked"] = a /\ Solo(a, "") /\ sem["t_exec_blocked"] = 0
          /\ pc["blocked_ready"] \notin Reservando \cup Teniendo
      BY <1>0, <1>4 DEF Serie, SerieBloqueo, SerieLugar, Tiene, Solo
    <2>2. colas'["BLOCK"] = <<a>>
      BY <1>0, <1>1, <1>4, <2>1, AlVacio, Dominios DEF Solo
    <2>3. Solo(a, "BLOCK")' /\ colas'["EXIT"] = colas["EXIT"] /\ colas'["NEW"] = colas["NEW"]
          /\ contador'["READY"] = contador["READY"]
      BY <1>1, <1>2, <1>4, <2>1, <2>2, Dominios DEF Solo
    <2>4. SerieHilos(e)' /\ SerieBloqueo(e)'
      <3>1. SerieHilos(e)'
        BY <1>0, <1>2, <1>4, <2>1, <2>3, Dominios DEF Serie, SerieHilos
      <3>2. SerieBloqueo(e)'
        BY <1>0, <1>2, <1>4, <2>1, <2>3, Dominios DEF Serie, SerieBloqueo
      <3> QED BY <3>1, <3>2
    <2>5. SerieMensajes(e, a)' /\ SerieCpu(e, a)' /\ SerieIO(e, a)'
      BY <1>0, <2>3 DEF Serie, SerieMensajes, SerieCpu, SerieIO
    <2>6. SerieLugar(e, a)'
      BY <1>0, <1>2, <1>4, <2>1, <2>3, Dominios DEF SerieLugar, EnIO
    <2>7. SerieContextos(e, a)'
      BY <1>0, <1>2, <1>4, <2>1, <2>3, Dominios DEF Serie, SerieContextos, EnIO
    <2> QED BY <2>4, <2>5, <2>6, <2>7 DEF Serie
  <1>5. CASE h = "blocked_ready"
    <2>1. e = "desbloqueo" /\ mano["blocked_ready"] = a /\ Solo(a, "") /\ sem["t_exec_blocked"] = 0
          /\ sem["t_blocked_ready"] = 0 /\ a \in Procesos
          /\ pc["exec_blocked"] \in {"disparo", "fin"} /\ contador["READY"] = 0
      BY <1>0, <1>5 DEF Serie, SerieHilos, SerieLugar, Tiene, Solo, EnIO, SerieContextos
    <2>2. colas'["READY"] = <<a>> /\ contador'["READY"] = 1
      <3>1. colas["READY"] = <<>> /\ colas \in [Colas -> Seq(PCB)] /\ "READY" \in Colas
            /\ contador \in [Colas -> Nat] /\ viaje["blocked_ready"].a = "READY"
        BY <1>1, <2>1, Dominios DEF Solo
      <3>2. colas'["READY"] = Append(colas["READY"], a)
        BY <1>0, <1>5, <2>1, <3>1
      <3>3. contador'["READY"] = contador["READY"] + 1
        BY <1>0, <1>5, <3>1
      <3>4. contador'["READY"] = 1
        BY <2>1, <3>1, <3>3, DelCeroAlUno
      <3> QED BY <3>1, <3>2, <3>4, AlVacio
    <2>3. Solo(a, "READY")' /\ colas'["EXIT"] = colas["EXIT"] /\ colas'["NEW"] = colas["NEW"]
      BY <1>1, <1>2, <1>5, <2>1, <2>2, Dominios DEF Solo
    <2>4. SerieHilos("listo")' /\ SerieBloqueo("listo")'
      <3>1. SerieHilos("listo")'
        BY <1>0, <1>2, <1>5, <2>1, <2>2, Dominios DEF Serie, SerieHilos
      <3>2. SerieBloqueo("listo")'
        BY <1>0, <1>2, <1>5, <2>1, <2>2, Dominios DEF Serie, SerieBloqueo, EnIO
      <3> QED BY <3>1, <3>2
    <2>5. SerieMensajes("listo", a)' /\ SerieCpu("listo", a)' /\ SerieIO("listo", a)'
      BY <1>0, <2>1, <2>3 DEF Serie, SerieMensajes, SerieCpu, SerieIO
    <2>6. SerieLugar("listo", a)'
      BY <2>3 DEF SerieLugar, EnIO
    <2>7. SerieContextos("listo", a)'
      BY <1>0, <1>2, <1>5, <2>1, <2>3, NuloAssumption, Dominios DEF Serie, SerieContextos, EnIO
    <2> QED BY <2>4, <2>5, <2>6, <2>7 DEF Serie, Etapas
  <1>6. h \in {"corto", "exec_blocked", "blocked_ready"}
    BY <1>0, Dominios DEF Serie, SerieHilos
  <1> QED BY <1>3, <1>4, <1>5, <1>6

(* The steps of each thread before and after its transition.               *)
LEMMA SerieLargo ==
    ASSUME TypeOK, NEW e \in Etapas, NEW a \in PCB, Serie(e, a), LargoDisparo \/ LargoGrado
    PROVE  \E f \in Etapas : Serie(f, a)'
  <1>0. /\ UNCHANGED <<colas, contador, mano, viaje, ds, caido, cde, cde_interrumpido, espera, io,
                       pid_a_desbloquear, cpu, aCpu, aKernel, aInterrupt>>
        /\ \A k \in Hilos \ {"largo"} : pc'[k] = pc[k]
        /\ \A s \in Semaforos \ {"GRADO", "en_new"} : sem'[s] = sem[s]
    BY Dominios DEF LargoDisparo, Disparo, LargoGrado, Salta, vContexto, vIO, vCpu, vCanales
  <1> USE DEF Reservando, Teniendo, PorSacar
  <1>1. CASE LargoDisparo
    <2>1. pc["largo"] = "disparo" /\ pc'["largo"] = "grado" /\ sem'["GRADO"] = sem["GRADO"]
      BY <1>1, Dominios DEF LargoDisparo, Disparo, Salta
    <2>2. SerieHilos(e)' /\ SerieBloqueo(e)'
      <3>1. SerieHilos(e)'
        BY <1>0, <2>1, Dominios DEF Serie, SerieHilos
      <3>2. SerieBloqueo(e)'
        BY <1>0, <2>1, Dominios DEF Serie, SerieBloqueo
      <3> QED BY <3>1, <3>2
    <2>3. SerieLugar(e, a)'
      <3>1. e # "largo"
        BY <2>1 DEF Serie, SerieHilos
      <3> QED BY <1>0, <2>1, <3>1, Dominios DEF Serie, SerieLugar, Solo, Tiene
    <2>4. SerieContextos(e, a)'
      BY <1>0, <2>1, Dominios DEF Serie, SerieHilos, SerieContextos
    <2> QED BY <1>0, <2>2, <2>3, <2>4, SerieIgual DEF Serie
  <1>2. CASE LargoGrado
    <2>1. e = "grado" /\ pc'["largo"] = "evaluar1" /\ sem'["GRADO"] = 0
      BY <1>2, Dominios DEF LargoGrado, Salta, Serie, SerieHilos
    <2>2. SerieHilos("largo")' /\ SerieBloqueo("largo")'
      <3>1. SerieHilos("largo")'
        BY <1>0, <2>1, Dominios DEF Serie, SerieHilos
      <3>2. SerieBloqueo("largo")'
        BY <1>0, <2>1, Dominios DEF Serie, SerieBloqueo, EnIO
      <3> QED BY <3>1, <3>2
    <2>3. SerieMensajes("largo", a)' /\ SerieCpu("largo", a)' /\ SerieIO("largo", a)'
      BY <1>0, <2>1 DEF Serie, SerieMensajes, SerieCpu, SerieIO
    <2>4. SerieLugar("largo", a)'
      BY <1>0, <2>1, Dominios DEF Serie, SerieLugar, Solo, EnIO
    <2>5. SerieContextos("largo", a)'
      BY <1>0, <2>1, Dominios DEF Serie, SerieContextos, EnIO
    <2> QED BY <2>2, <2>3, <2>4, <2>5 DEF Serie, Etapas
  <1> QED BY <1>1, <1>2

LEMMA SerieExit ==
    ASSUME TypeOK, NEW e \in Etapas, NEW a \in PCB, Serie(e, a), ExitDisparo
    PROVE  Serie(e, a)'
  <1>0. /\ UNCHANGED <<colas, contador, mano, viaje, ds, caido, cde, cde_interrumpido, espera, io,
                       pid_a_desbloquear, cpu, aCpu, aKernel, aInterrupt>>
        /\ \A k \in Hilos \ {"exit_largo"} : pc'[k] = pc[k]
        /\ pc["exit_largo"] = "disparo" /\ pc'["exit_largo"] = "evaluar1"
        /\ \A s \in Semaforos \ {"t_exit_largo"} : sem'[s] = sem[s]
        /\ sem["t_exit_largo"] > 0 /\ sem'["t_exit_largo"] = sem["t_exit_largo"] - 1
    BY Dominios DEF ExitDisparo, Disparo, Salta, vContexto, vIO, vCpu, vCanales
  <1> USE DEF Reservando, Teniendo, PorSacar
  <1>1. e = "salida"
    BY <1>0 DEF Serie, SerieHilos
  <1>2. SerieHilos(e)' /\ SerieBloqueo(e)'
    <2>1. SerieHilos(e)'
      BY <1>0, <1>1, Dominios DEF Serie, SerieHilos
    <2>2. SerieBloqueo(e)'
      BY <1>0, <1>1, Dominios DEF Serie, SerieBloqueo, EnIO
    <2> QED BY <2>1, <2>2
  <1>3. SerieLugar(e, a)'
    BY <1>0, <1>1, Dominios DEF Serie, SerieLugar, Solo, Tiene, EnIO
  <1>4. SerieContextos(e, a)'
    BY <1>0, Dominios DEF Serie, SerieContextos
  <1> QED BY <1>0, <1>2, <1>3, <1>4, SerieIgual DEF Serie

LEMMA SerieCorto ==
    ASSUME Algoritmo = "FIFO", TypeOK, NEW e \in Etapas, NEW a \in PCB, Serie(e, a),
           CortoDisparo \/ CortoReadys \/ CortoEnviar \/ CortoCrearQuantum \/ CortoJoin \/ CortoTimer
    PROVE  \E f \in Etapas : Serie(f, a)'
  <1>0. pc["corto"] \in {"disparo", "fin"}
    BY DEF Serie, SerieHilos, CortoDisparo, Disparo, CortoReadys, CortoEnviar, CortoCrearQuantum,
           CortoJoin, CortoTimer, Reservando, Teniendo
  <1>1. CortoDisparo \/ CortoEnviar
    BY <1>0 DEF CortoReadys, CortoCrearQuantum, CortoJoin, CortoTimer
  <1> USE DEF Reservando, Teniendo, PorSacar
  <1>2. CASE CortoDisparo
    <2>1. /\ UNCHANGED <<colas, contador, mano, viaje, ds, caido, cde, cde_interrumpido, espera, io,
                         pid_a_desbloquear, cpu, aCpu, aKernel, aInterrupt>>
          /\ \A k \in Hilos \ {"corto"} : pc'[k] = pc[k]
          /\ pc["corto"] = "disparo" /\ pc'["corto"] = "evaluar1"
          /\ \A s \in Semaforos \ {"exec_libre"} : sem'[s] = sem[s]
      BY <1>2, Dominios DEF CortoDisparo, Disparo, Salta, vContexto, vIO, vCpu, vCanales
    <2>2. SerieHilos(e)' /\ SerieBloqueo(e)'
      <3>1. SerieHilos(e)'
        BY <2>1, Dominios DEF Serie, SerieHilos
      <3>2. SerieBloqueo(e)'
        BY <2>1, Dominios DEF Serie, SerieBloqueo
      <3> QED BY <3>1, <3>2
    <2>3. SerieLugar(e, a)'
      BY <2>1, Dominios DEF Serie, SerieLugar, Solo, Tiene
    <2>4. SerieContextos(e, a)'
      BY <2>1, Dominios DEF Serie, SerieContextos
    <2> QED BY <2>1, <2>2, <2>3, <2>4, SerieIgual DEF Serie
  <1>3. CASE CortoEnviar
    <2>0. pc["corto"] = "fin"
      BY <1>3 DEF CortoEnviar
    <2>1. e = "corto" /\ mano["corto"] = a /\ Solo(a, "EXEC") /\ aCpu = <<>>
          /\ a \in Procesos /\ cde[a].pid = a
      BY <2>0 DEF Serie, SerieHilos, SerieMensajes, SerieLugar, Tiene, SerieContextos
    <2>2. aCpu' = Append(aCpu, cde[a]) /\ caido' = FALSE
      BY <1>3, <2>1, NuloAssumption DEF CortoEnviar, Desreferenciar
    <2>3. Len(aCpu') = 1 /\ aCpu'[1].pid = a
      BY <2>1, <2>2, UnSoloMensaje
    <2>4. /\ UNCHANGED <<colas, contador, sem, viaje, ds, cde, cde_interrumpido, espera, io,
                         pid_a_desbloquear, cpu, aKernel, aInterrupt>>
          /\ \A k \in Hilos \ {"corto"} : pc'[k] = pc[k] /\ mano'[k] = mano[k]
          /\ pc'["corto"] = "disparo"
      BY <1>3, Dominios DEF CortoEnviar, Vuelve, Salta, vContexto, vIO, vCpu
    <2>5. SerieHilos("canal")' /\ SerieBloqueo("canal")'
      <3>1. SerieHilos("canal")'
        BY <2>1, <2>4, Dominios DEF Serie, SerieHilos
      <3>2. SerieBloqueo("canal")'
        BY <2>1, <2>4, Dominios DEF Serie, SerieBloqueo, EnIO
      <3> QED BY <3>1, <3>2
    <2>6. SerieMensajes("canal", a)'
      BY <2>1, <2>3, <2>4 DEF Serie, SerieMensajes
    <2>7. SerieCpu("canal", a)' /\ SerieIO("canal", a)'
      BY <2>1, <2>4 DEF Serie, SerieCpu, SerieIO
    <2>8. SerieLugar("canal", a)'
      BY <2>1, <2>4 DEF SerieLugar, Solo, EnIO
    <2>9. SerieContextos("canal", a)'
      BY <2>1, <2>2, <2>4, Dominios DEF Serie, SerieContextos, EnIO
    <2> QED BY <2>5, <2>6, <2>7, <2>8, <2>9 DEF Serie, Etapas
  <1> QED BY <1>1, <1>2, <1>3

LEMMA SerieExecBlocked ==
    ASSUME Algoritmo = "FIFO", TypeOK, NEW e \in Etapas, NEW a \in PCB, Serie(e, a),
           ExecBlockedDisparo \/ ExecBlockedFin
    PROVE  Serie(e, a)'
  <1> USE DEF Reservando, Teniendo, PorSacar
  <1>1. CASE ExecBlockedDisparo
    <2>1. /\ UNCHANGED <<colas, contador, mano, viaje, ds, caido, cde, cde_interrumpido, espera, io,
                         pid_a_desbloquear, cpu, aCpu, aKernel, aInterrupt>>
          /\ \A k \in Hilos \ {"exec_blocked"} : pc'[k] = pc[k]
          /\ pc["exec_blocked"] = "disparo" /\ pc'["exec_blocked"] = "evaluar1"
          /\ \A s \in Semaforos \ {"exec_libre", "t_exec_blocked"} : sem'[s] = sem[s]
          /\ sem["t_exec_blocked"] > 0 /\ sem'["t_exec_blocked"] = sem["t_exec_blocked"] - 1
      BY <1>1, Dominios DEF ExecBlockedDisparo, Salta, vContexto, vIO, vCpu, vCanales
    <2>2. e \in EnIO /\ sem["t_exec_blocked"] = 1
      BY <2>1 DEF Serie, SerieBloqueo
    <2>3. SerieHilos(e)'
      BY <2>1, Dominios DEF Serie, SerieHilos
    <2>4. SerieBloqueo(e)'
      BY <2>1, <2>2, Dominios DEF SerieBloqueo
    <2>5. SerieLugar(e, a)'
      BY <2>1, <2>2, Dominios DEF Serie, SerieLugar, Solo, Tiene, EnIO
    <2>6. SerieContextos(e, a)'
      BY <2>1, Dominios DEF Serie, SerieContextos
    <2> QED BY <2>1, <2>3, <2>4, <2>5, <2>6, SerieIgual DEF Serie
  <1>2. CASE ExecBlockedFin
    <2>1. PICK p : p = mano["exec_blocked"]
      OBVIOUS
    <2>2. /\ UNCHANGED <<colas, contador, sem, viaje, ds, cde_interrumpido, espera, io,
                         pid_a_desbloquear, cpu, aCpu, aKernel, aInterrupt>>
          /\ \A k \in Hilos \ {"exec_blocked"} : pc'[k] = pc[k] /\ mano'[k] = mano[k]
          /\ pc["exec_blocked"] = "fin" /\ pc'["exec_blocked"] = "disparo"
      BY <1>2, Dominios DEF ExecBlockedFin, Vuelve, Salta, vIO, vCpu, vCanales
    <2>3. \/ Esta(p, colas["EXIT"])
          \/ p = a /\ a \in Procesos /\ cde_interrumpido.pid = a
      <3>1. \/ Esta(p, colas["EXIT"])
            \/ e \notin {"grado", "largo"} /\ p = a /\ cde_interrumpido.pid = a
        BY <2>1, <2>2 DEF Serie, SerieContextos
      <3>2. e \notin {"grado", "largo"} => a \in Procesos
        BY DEF Serie, SerieContextos
      <3> QED BY <3>1, <3>2
    <2>4. p # NULO
      BY <2>3, NuloAssumption DEF Serie, SerieContextos
    <2>5. cde' = [cde EXCEPT ![p] = cde_interrumpido] /\ caido' = FALSE
      BY <1>2, <2>1, <2>4 DEF ExecBlockedFin, Desreferenciar
    <2>6. SerieHilos(e)' /\ SerieBloqueo(e)'
      <3>1. SerieHilos(e)'
        BY <2>2, Dominios DEF Serie, SerieHilos
      <3>2. SerieBloqueo(e)'
        BY <2>2, Dominios DEF Serie, SerieBloqueo
      <3> QED BY <3>1, <3>2
    <2>7. SerieLugar(e, a)'
      BY <2>2, Dominios DEF Serie, SerieLugar, Solo, Tiene
    <2>8. \A q \in Procesos : Esta(q, colas["EXIT"])' \/ cde'[q].pid = q
      <3>1. cde \in [Procesos -> Contextos]
        BY DEF TypeOK, TipoContexto
      <3> QED BY <2>2, <2>3, <2>5, <3>1 DEF Serie, SerieContextos
    <2>9. SerieContextos(e, a)'
      BY <2>2, <2>5, <2>8, Dominios DEF Serie, SerieContextos
    <2> QED BY <2>2, <2>6, <2>7, <2>9, SerieIgual DEF Serie
  <1> QED BY <1>1, <1>2

LEMMA SerieBlockedReady ==
    ASSUME Algoritmo = "FIFO", TypeOK, NEW e \in Etapas, NEW a \in PCB, Serie(e, a),
           BlockedReadyDisparo \/ BlockedReadyElegir \/ BlockedReadyFin
    PROVE  Serie(e, a)'
  <1>0. /\ UNCHANGED <<colas, contador, ds, cde, cde_interrumpido, espera, io,
                       pid_a_desbloquear, cpu, aCpu, aKernel, aInterrupt>>
        /\ \A k \in Hilos \ {"blocked_ready"} :
              pc'[k] = pc[k] /\ mano'[k] = mano[k] /\ viaje'[k] = viaje[k]
        /\ \A s \in Semaforos \ {"t_blocked_ready"} : sem'[s] = sem[s]
    BY Dominios DEF BlockedReadyDisparo, Disparo, BlockedReadyElegir, BlockedReadyFin, PostReadys,
       Vuelve, Salta, vContexto, vIO, vCpu, vCanales
  <1> USE DEF Reservando, Teniendo, PorSacar
  <1>1. CASE BlockedReadyDisparo
    <2>1. /\ pc["blocked_ready"] = "disparo" /\ pc'["blocked_ready"] = "elegir" /\ caido' = caido
          /\ sem["t_blocked_ready"] > 0 /\ sem'["t_blocked_ready"] = sem["t_blocked_ready"] - 1
          /\ viaje' = viaje /\ mano' = mano
      BY <1>1, Dominios DEF BlockedReadyDisparo, Disparo, Salta
    <2>5. e = "desbloqueo" /\ sem'["t_blocked_ready"] = 0
      BY <2>1 DEF Serie, SerieHilos
    <2>2. SerieHilos(e)' /\ SerieBloqueo(e)'
      <3>1. SerieHilos(e)'
        BY <1>0, <2>1, <2>5, Dominios DEF Serie, SerieHilos
      <3>2. SerieBloqueo(e)'
        BY <1>0, <2>1, <2>5, Dominios DEF Serie, SerieBloqueo
      <3> QED BY <3>1, <3>2
    <2>3. SerieLugar(e, a)'
      BY <1>0, <2>1, Dominios DEF Serie, SerieLugar, Solo, Tiene
    <2>4. SerieContextos(e, a)'
      BY <1>0, <2>1, Dominios DEF Serie, SerieContextos
    <2> QED BY <1>0, <2>1, <2>2, <2>3, <2>4, SerieIgual DEF Serie
  <1>2. CASE BlockedReadyElegir
    <2>1. /\ pc["blocked_ready"] = "elegir" /\ pc'["blocked_ready"] = "evaluar1" /\ caido' = caido
          /\ sem' = sem /\ mano' = mano /\ viaje'["blocked_ready"].a = "READY"
      BY <1>2, Dominios DEF BlockedReadyElegir, Salta, Viaje
    <2>2. SerieHilos(e)' /\ SerieBloqueo(e)'
      <3>1. SerieHilos(e)'
        BY <1>0, <2>1, Dominios DEF Serie, SerieHilos
      <3>2. SerieBloqueo(e)'
        BY <1>0, <2>1, Dominios DEF Serie, SerieBloqueo
      <3> QED BY <3>1, <3>2
    <2>3. SerieLugar(e, a)'
      BY <1>0, <2>1, Dominios DEF Serie, SerieLugar, Solo, Tiene
    <2>4. SerieContextos(e, a)'
      BY <1>0, <2>1, Dominios DEF Serie, SerieContextos
    <2> QED BY <1>0, <2>1, <2>2, <2>3, <2>4, SerieIgual DEF Serie
  <1>3. CASE BlockedReadyFin
    <2>1. /\ pc["blocked_ready"] = "fin" /\ pc'["blocked_ready"] = "disparo"
          /\ sem' = sem /\ viaje' = viaje /\ caido' = (mano["blocked_ready"] = NULO)
      BY <1>3, Dominios DEF BlockedReadyFin, Vuelve, Salta, PostReadys, Desreferenciar
    <2>2. SerieHilos(e)' /\ SerieBloqueo(e)'
      <3>1. SerieHilos(e)'
        BY <1>0, <2>1, Dominios DEF Serie, SerieHilos
      <3>2. SerieBloqueo(e)'
        BY <1>0, <2>1, Dominios DEF Serie, SerieBloqueo
      <3> QED BY <3>1, <3>2
    <2>3. SerieLugar(e, a)'
      BY <1>0, <2>1, Dominios DEF Serie, SerieLugar, Solo, Tiene
    <2>4. SerieContextos(e, a)'
      BY <1>0, <2>1, Dominios DEF Serie, SerieContextos
    <2> QED BY <1>0, <2>1, <2>2, <2>3, <2>4, SerieIgual DEF Serie
  <1> QED BY <1>1, <1>2, <1>3

(* Under FIFO nobody creates the quantum thread.                           *)
SinQuantum == hiloQuantum = "sin_crear"

LEMMA SinQuantumInductivo ==
    ASSUME Algoritmo = "FIFO", SinQuantum, NEW e \in Etapas, NEW a \in PCB, Serie(e, a), [Next]_vars
    PROVE  SinQuantum'
  <1>0. hiloQuantum = "sin_crear" /\ pc["corto"] # "quantum"
    BY DEF SinQuantum, Serie, SerieHilos, Reservando, Teniendo
  <1>1. ASSUME NEW h, TransicionGenerica(h) PROVE UNCHANGED vQuantum
    BY <1>1 DEF TransicionGenerica, EvaluarPlanificacion, Evaluar, ReanudarPlanificacion,
                Reanudar, EsperarContador, Sacar
  <1>2. ASSUME NEW h, AgregarYSeguir(h) PROVE UNCHANGED vQuantum
    BY <1>2 DEF AgregarYSeguir, AgregarAEstado
  <1>3. Consola => UNCHANGED vQuantum
    BY DEF Consola, IniciarPlanificacion, DetenerPlanificacion, IniciarProceso
  <1>4. (\E i \in Interfaces : InterfazConectada(i)) => UNCHANGED vQuantum
    BY DEF InterfazConectada, IoTomar, IoConcluir, IoAvisar
  <1>5. CpuRecibir \/ CpuEjecutar \/ CheckInterrupt \/ CpuInterrupt => UNCHANGED vQuantum
    BY DEF CpuRecibir, CpuEjecutar, CpuCalcular, CpuExit, CpuPedirIO, CheckInterrupt,
           CpuInterrupt, InterruptMirar, InterruptEsperar, InterruptRecibir
  <1>6. LargoPlazo \/ ExitLargoPlazo => UNCHANGED vQuantum
    BY <1>1 DEF LargoPlazo, LargoDisparo, Disparo, LargoGrado, LargoAgregar, AgregarAEstado,
                ExitLargoPlazo, ExitDisparo, ExitAgregar
  <1>7. ExecReady \/ ExecBlocked \/ BlockedReady => UNCHANGED vQuantum
    BY <1>1, <1>2 DEF ExecReady, ExecReadyDisparo, Disparo, ExecReadyFin, ExecBlocked,
       ExecBlockedDisparo, ExecBlockedFin, BlockedReady, BlockedReadyDisparo, BlockedReadyElegir,
       BlockedReadyFin
  <1>8. CortoPlazo => UNCHANGED vQuantum
    BY <1>0, <1>1, <1>2 DEF CortoPlazo, CortoDisparo, Disparo, CortoReadys, CortoEnviar,
       CortoCrearQuantum, CortoJoin, CortoTimer
  <1>9. HiloDispatch => hiloQuantum' = hiloQuantum
    BY <1>0 DEF HiloDispatch, DsFinalizar, DsFinDeQuantum, DsInterfaz, DsInterfazCde,
       CancelarQuantum, vQuantum
  <1>10. ~QuantumVence
    BY <1>0 DEF QuantumVence
  <1> QED BY <1>0, <1>3, <1>4, <1>5, <1>6, <1>7, <1>8, <1>9, <1>10
          DEF Next, vars, vQuantum, SinQuantum

SerieInv == EnSerie /\ SinQuantum

LEMMA SerieInductiva ==
    ASSUME Algoritmo = "FIFO", TypeOK, ContadorRespaldado, Rutas, Custodia, SerieInv, [Next]_vars
    PROVE  SerieInv'
  <1>1. PICK e \in Etapas, a \in PCB : Serie(e, a)
    BY DEF SerieInv, EnSerie
  <1>2. SinQuantum'
    BY <1>1, SinQuantumInductivo DEF SerieInv
  <1>3. "listo" \in Etapas /\ "grado" \in Etapas
    BY DEF Etapas
  <1>4. (\E f \in Etapas, b \in PCB : Serie(f, b)') => SerieInv'
    BY <1>2 DEF SerieInv, EnSerie
  <1>5. ASSUME NEW h \in Hilos, TransicionGenerica(h) PROVE \E f \in Etapas, b \in PCB : Serie(f, b)'
    <2>1. CASE EvaluarPlanificacion(h) \/ ReanudarPlanificacion(h)
      BY <1>1, <2>1, SerieEvaluar
    <2>2. CASE EsperarContador(h)
      BY <1>1, <2>2, SerieEsperar
    <2>3. CASE Sacar(h) /\ h = "largo"
      BY <1>1, <2>3, SerieSacarLargo
    <2>4. CASE Sacar(h) /\ h # "largo"
      BY <1>1, <2>4, SerieSacar
    <2> QED BY <1>5, <2>1, <2>2, <2>3, <2>4 DEF TransicionGenerica
  <1>6. ASSUME NEW h \in Hilos \ {"largo", "exit_largo"}, AgregarYSeguir(h)
        PROVE  \E f \in Etapas, b \in PCB : Serie(f, b)'
    BY <1>1, <1>6, SerieAgregarYSeguir
  <1>7. "largo" \in Hilos /\ "exit_largo" \in Hilos
        /\ {"corto", "exec_ready", "exec_blocked", "blocked_ready"} \subseteq Hilos \ {"largo", "exit_largo"}
    BY DEF Hilos
  <1>8. LargoPlazo => \E f \in Etapas, b \in PCB : Serie(f, b)'
    BY <1>1, <1>3, <1>5, <1>7, SerieLargo, SerieAgregarLargo DEF LargoPlazo
  <1>9. ExitLargoPlazo => \E f \in Etapas, b \in PCB : Serie(f, b)'
    BY <1>1, <1>3, <1>5, <1>7, SerieExit, SerieAgregarExit DEF ExitLargoPlazo
  <1>10. CortoPlazo => \E f \in Etapas, b \in PCB : Serie(f, b)'
    BY <1>1, <1>5, <1>6, <1>7, SerieCorto DEF CortoPlazo
  <1>11. ~ExecReadyDisparo /\ ~ExecReadyFin
    BY <1>1 DEF Serie, SerieHilos, ExecReadyDisparo, Disparo, ExecReadyFin
  <1>12. ExecReady => \E f \in Etapas, b \in PCB : Serie(f, b)'
    BY <1>5, <1>6, <1>7, <1>11 DEF ExecReady
  <1>13. ExecBlocked => \E f \in Etapas, b \in PCB : Serie(f, b)'
    BY <1>1, <1>5, <1>6, <1>7, SerieExecBlocked DEF ExecBlocked
  <1>14. BlockedReady => \E f \in Etapas, b \in PCB : Serie(f, b)'
    BY <1>1, <1>5, <1>6, <1>7, SerieBlockedReady DEF BlockedReady
  <1>15. ~QuantumVence
    BY DEF QuantumVence, SerieInv, SinQuantum
  <1>16. Consola => \E f \in Etapas, b \in PCB : Serie(f, b)'
    BY <1>1, SerieConsola
  <1>17. HiloDispatch => \E f \in Etapas, b \in PCB : Serie(f, b)'
    BY <1>1, SerieDispatch
  <1>18. (\E i \in Interfaces : InterfazConectada(i)) => \E f \in Etapas, b \in PCB : Serie(f, b)'
    BY <1>1, SerieInterfaz
  <1>19. CpuRecibir \/ CpuEjecutar \/ CheckInterrupt \/ CpuInterrupt
            => \E f \in Etapas, b \in PCB : Serie(f, b)'
    BY <1>1, SerieCpuPaso
  <1>20. UNCHANGED vars => \E f \in Etapas, b \in PCB : Serie(f, b)'
    BY <1>1, SerieIgual DEF vars, Serie
  <1> QED BY <1>4, <1>8, <1>9, <1>10, <1>12, <1>13, <1>14, <1>15, <1>16, <1>17, <1>18, <1>19, <1>20
          DEF Next

(* What the invariant says of the three properties.                        *)
LEMMA SerieImplica ==
    ASSUME TypeOK, SerieInv
    PROVE  PidPropio /\ SinCpuDuranteIO /\ caido = FALSE
  <1>1. PICK e \in Etapas, a \in PCB : Serie(e, a)
    BY DEF SerieInv, EnSerie
  <1>2. PidPropio
    BY <1>1 DEF PidPropio, ToSet, Esta, Serie, SerieContextos
  <1>3. ASSUME NEW p \in Procesos, EnInterfaz(p)
        PROVE  cpu.cde.pid # p /\ \A j \in DOMAIN aCpu : aCpu[j].pid # p
    <2>1. PICK i \in Interfaces : p \in ToSet(espera[i]) \/ io[i].pid = p
      BY <1>3 DEF EnInterfaz
    <2>2. p # NULO
      BY NuloAssumption
    <2>3. e \in {"espera", "io"} /\ p = a
      <3>1. CASE p \in ToSet(espera[i])
        <4>1. espera[i] # <<>>
          BY <3>1 DEF ToSet
        <4>2. e = "espera" /\ espera[i] = <<a>>
          BY <1>1, <4>1 DEF Serie, SerieIO
        <4> QED BY <3>1, <4>2 DEF ToSet
      <3>2. CASE io[i].pid = p
        BY <1>1, <2>2, <3>2 DEF Serie, SerieIO
      <3> QED BY <2>1, <3>1, <3>2
    <2>4. ~Esta(a, colas["EXIT"])
      BY <1>1, <2>3 DEF Serie, SerieContextos
    <2>5. cpu.cde.pid # a
      BY <1>1, <2>2, <2>3, <2>4 DEF Serie, SerieCpu
    <2>6. aCpu = <<>>
      BY <1>1, <2>3 DEF Serie, SerieMensajes
    <2> QED BY <2>3, <2>5, <2>6
  <1>4. caido = FALSE
    BY <1>1 DEF Serie, SerieContextos
  <1> QED BY <1>2, <1>3, <1>4 DEF SinCpuDuranteIO

LEMMA SerieSiempre ==
    ASSUME Algoritmo = "FIFO", Grado = 1
    PROVE  Spec => [](PidPropio /\ SinCpuDuranteIO /\ caido = FALSE)
  <1> DEFINE Inv == TypeOK /\ ContadorRespaldado /\ Rutas /\ Custodia /\ SerieInv
  <1>1. Init => Inv
    <2>1. Init => SinQuantum
      BY DEF Init, SinQuantum
    <2> QED BY <2>1, TipoInicial, RespaldoInicial, RutasIniciales, CustodiaInicial, SerieInicial
            DEF SerieInv
  <1>2. Inv /\ [Next]_vars => Inv'
    BY TipoInductivo, RespaldoInductivo, RutasInductivas, CustodiaInductiva, SerieInductiva
  <1>3. Inv => PidPropio /\ SinCpuDuranteIO /\ caido = FALSE
    BY SerieImplica
  <1> HIDE DEF Inv
  <1> QED BY <1>1, <1>2, <1>3, PTL DEF Spec

(* Each PCB that has not exited points to a context of its own process,    *)
(* under FIFO with degree 1: the context that comes back is kept in one    *)
(* global and copied, after b_exec_libre has been posted, into the PCB that*)
(* is moved, and no other process comes back in between.                   *)
THEOREM CadaUnoSuContexto ==
    ASSUME Algoritmo = "FIFO", Grado = 1
    PROVE  Spec => []PidPropio
  <1> QED BY SerieSiempre, PTL

(* A process that waits for an interface, or is being served by one, is    *)
(* neither on the CPU nor on its way to it, under FIFO with degree 1,      *)
(* although four threads and two globals decide when it is unblocked.      *)
THEOREM NadieEnLaCpuDuranteSuIO ==
    ASSUME Algoritmo = "FIFO", Grado = 1
    PROVE  Spec => []SinCpuDuranteIO
  <1> QED BY SerieSiempre, PTL

(* Under FIFO with degree 1 no transition finds its queue without the PCB  *)
(* and the kernel never writes through NULL.                               *)
THEOREM NuncaCaeEnSerie ==
    ASSUME Algoritmo = "FIFO", Grado = 1
    PROVE  Spec => [](caido = FALSE)
  <1> QED BY SerieSiempre, PTL
=============================================================================
