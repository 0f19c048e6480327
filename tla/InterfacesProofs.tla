--------------------------- MODULE InterfacesProofs ---------------------------
(***************************************************************************)
(* The safety properties of InterfacesIO, for any processes, modules, names*)
(* and bounds.  Each has an inductive invariant of its own, all of them    *)
(* over InvTipo: Contados (a request for each post), Ubicados (one place   *)
(* for each request), SinCruce (whose name nombre_IO is) and Dialogos (the *)
(* step of the operation a module and its thread are at).                  *)
(***************************************************************************)
EXTENDS InterfacesIO, FiniteSetTheorems, SequenceTheorems, TLAPS

-----------------------------------------------------------------------------
(* Types.                                                                  *)

(* What each thread has in hand at each place of its code: who is being    *)
(* connected is not in the list nor has a thread yet, the interface that   *)
(* was found is in the list, and a thread serves one of the list.          *)
Marcha ==
    /\ pcCon \in {"acepta", "busca", "agrega", "publica", "responde", "crea"}
    /\ pcCpu \in {"recibe", "busca", "encola", "avisa", "libera"}
    /\ pc \in [Modulos -> {"no", "nace", "espera", "saca", "inicia", "manda", "recibe"}]
    /\ pcCon = "acepta" <=> nueva = NULO
    /\ pcCpu = "recibe" <=> pide = NULO
    /\ pcCpu \in {"encola", "avisa"} => hallada \in ToSet(lista)
    /\ pcCon \in {"busca", "agrega", "publica"} => nueva \notin ToSet(lista)
    /\ pcCon = "responde" => nueva \in ToSet(lista)
    /\ pcCon = "crea" => lista # <<>>
    /\ lista # <<>> => info \in ToSet(lista)
    /\ \A t \in Modulos :
          /\ nueva = t => pc[t] = "no"
          /\ pc[t] = "no" /\ t \in ToSet(lista) => nueva = t
          /\ pc[t] = "nace" => lista # <<>>
          /\ IF pc[t] \in {"no", "nace"} THEN io[t] = NULO ELSE io[t] \in ToSet(lista)
          /\ toma[t] = NULO <=> pc[t] \notin {"inicia", "manda", "recibe"}
          /\ espera[t] # <<>> => t \in ToSet(lista)
          /\ t \in ToSet(lista) \/ nueva = t \/ pc[t] # "no" => modulo[t] # "apagado"

InvTipo == TypeOK /\ Marcha

(* What Append, Head and Tail do.                                          *)
LEMMA AlFinal ==
    ASSUME NEW S, NEW s \in Seq(S), NEW x \in S
    PROVE  /\ Append(s, x) \in Seq(S)
           /\ ToSet(Append(s, x)) = ToSet(s) \cup {x}
           /\ Append(s, x) # <<>>
           /\ IsInjective(s) /\ x \notin ToSet(s) => IsInjective(Append(s, x))
  <1> DEFINE t == Append(s, x)
  <1>1. /\ t \in Seq(S) /\ DOMAIN s = 1..Len(s) /\ Len(s) \in Nat
        /\ DOMAIN t = 1..(Len(s) + 1) /\ Len(t) = Len(s) + 1
        /\ \A i \in 1..Len(s) : t[i] = s[i]
        /\ t[Len(s) + 1] = x
    OBVIOUS
  <1> HIDE DEF t
  <1>2. ToSet(t) = ToSet(s) \cup {x}
    BY <1>1 DEF ToSet
  <1>3. IsInjective(s) /\ x \notin ToSet(s) => IsInjective(t)
    BY <1>1 DEF ToSet, IsInjective
  <1>4. t # <<>>
    BY <1>1
  <1> QED BY <1>1, <1>2, <1>3, <1>4 DEF t

LEMMA Primero ==
    ASSUME NEW S, NEW s \in Seq(S), s # <<>>
    PROVE  /\ Head(s) = s[1] /\ 1 \in DOMAIN s /\ Head(s) \in S
           /\ Tail(s) \in Seq(S) /\ Len(Tail(s)) = Len(s) - 1 /\ Len(s) \in Nat \ {0}
           /\ \A i \in DOMAIN Tail(s) : Tail(s)[i] = s[i + 1] /\ i + 1 \in DOMAIN s /\ i \in Nat
  OBVIOUS

LEMMA Hallados == Hallazgos \subseteq ToSet(lista) \cup {NULO}
  BY DEF Hallazgos, ToSet

(* What is written to a module is a message.                               *)
Mensajes == [op : {"ESTABA", "NO_ESTABA", "INICIAR", "DATOS"}, pid : Procesos \cup {NULO}]

LEMMA CanalCrece ==
    ASSUME TypeOK, NEW m \in Modulos, NEW x \in Mensajes,
           canal' = [canal EXCEPT ![m] = Append(@, x)]
    PROVE  canal' \in [Modulos -> Seq(Mensajes)]
  <1>1. canal \in [Modulos -> Seq(Mensajes)]
    BY DEF TypeOK, Mensajes
  <1>2. Append(canal[m], x) \in Seq(Mensajes)
    BY <1>1, AlFinal
  <1> QED BY <1>1, <1>2

LEMMA TipoInicial == Init => InvTipo
  <1> SUFFICES ASSUME Init PROVE InvTipo
    OBVIOUS
  <1>1. TypeOK
    BY DEF Init, TypeOK, IsInjective
  <1>2. Marcha
    BY NuloAssumption DEF Init, Marcha, ToSet
  <1> QED BY <1>1, <1>2 DEF InvTipo

\* Steps of conectar_interfaces.
LEMMA TipoCon == ASSUME InvTipo, HiloCon PROVE InvTipo'
  <1> USE NuloAssumption
  <1>1. ASSUME NEW m \in Modulos, ConAcepta(m) PROVE InvTipo'
    <2>1. TypeOK'
      BY <1>1 DEF InvTipo, TypeOK, ConAcepta, vModulo, vCpu, vColas, vHilos, vPid
    <2>2. Marcha'
      BY <1>1 DEF InvTipo, TypeOK, Marcha, ConAcepta, vModulo, vCpu, vColas, vHilos, vPid
    <2> QED BY <2>1, <2>2 DEF InvTipo
  <1>2. CASE ConBusca
    <2>0. lista # <<>> \/ \A h \in Hallazgos : h = NULO
      BY Hallados DEF ToSet
    <2>1. TypeOK'
      <3>1. nueva \in Modulos /\ TypeOK
        BY <1>2 DEF ConBusca, InvTipo, TypeOK, Marcha
      <3>2. Mensaje("ESTABA", NULO) \in Mensajes
        BY DEF Mensaje, Mensajes
      <3>3. canal' \in [Modulos -> Seq(Mensajes)]
        <4>1. CASE canal' = canal
          BY <3>1, <4>1 DEF TypeOK, Mensajes
        <4>2. CASE canal' = [canal EXCEPT ![nueva] = Append(@, Mensaje("ESTABA", NULO))]
          BY <3>1, <3>2, <4>2, CanalCrece
        <4> QED BY <1>2, <4>1, <4>2 DEF ConBusca
      <3> QED BY <1>2, <3>1, <3>3 DEF TypeOK, Mensajes, ConBusca, vCpu, vColas, vHilos, vPid
    <2>2. Marcha'
      BY <1>2, <2>0 DEF InvTipo, TypeOK, Marcha, ConBusca, vCpu, vColas, vHilos, vPid
    <2> QED BY <2>1, <2>2 DEF InvTipo
  <1>3. CASE ConAgrega
    <2>1. TypeOK'
      BY <1>3 DEF InvTipo, TypeOK, ConAgrega, vModulo, vCpu, vColas, vHilos, vPid
    <2>2. Marcha'
      BY <1>3 DEF InvTipo, TypeOK, Marcha, ConAgrega, vModulo, vCpu, vColas, vHilos, vPid
    <2> QED BY <2>1, <2>2 DEF InvTipo
  <1>4. CASE ConPublica
    <2>0. nueva \in Modulos /\ nueva \notin ToSet(lista) /\ lista \in Seq(Modulos) /\ IsInjective(lista)
      BY <1>4 DEF InvTipo, TypeOK, Marcha, ConPublica
    <2>1. /\ lista' \in Seq(Modulos) /\ ToSet(lista') = ToSet(lista) \cup {nueva}
          /\ lista' # <<>> /\ IsInjective(lista')
      BY <1>4, <2>0, AlFinal DEF ConPublica
    <2>2. TypeOK'
      BY <1>4, <2>0, <2>1 DEF InvTipo, TypeOK, ConPublica, vModulo, vCpu, vNombre, vColas, vHilos, vPid
    <2>3. Marcha'
      BY <1>4, <2>0, <2>1 DEF InvTipo, TypeOK, Marcha, ConPublica, vModulo, vCpu, vNombre, vColas,
                              vHilos, vPid
    <2> QED BY <2>2, <2>3 DEF InvTipo
  <1>5. CASE ConResponde
    <2>1. TypeOK'
      <3>1. nueva \in Modulos /\ TypeOK
        BY <1>5 DEF ConResponde, InvTipo, TypeOK, Marcha
      <3>2. Mensaje("NO_ESTABA", NULO) \in Mensajes
        BY DEF Mensaje, Mensajes
      <3>3. canal' \in [Modulos -> Seq(Mensajes)]
        BY <1>5, <3>1, <3>2, CanalCrece DEF ConResponde
      <3> QED BY <1>5, <3>1, <3>3 DEF TypeOK, Mensajes, ConResponde, vCpu, vNombre, vColas, vHilos, vPid
    <2>2. Marcha'
      BY <1>5 DEF InvTipo, TypeOK, Marcha, ConResponde, vCpu, vNombre, vColas, vHilos, vPid, ToSet
    <2> QED BY <2>1, <2>2 DEF InvTipo
  <1>6. CASE ConCrea
    <2>0. /\ nueva \in Modulos /\ lista # <<>> /\ pc[nueva] = "no" /\ io[nueva] = NULO /\ pc' = [pc EXCEPT ![nueva] = "nace"]
          /\ \A t \in Modulos : pc'[t] = IF t = nueva THEN "nace" ELSE pc[t]
          /\ \A t \in Modulos : nueva = t => modulo[t] # "apagado"
          /\ nueva' = NULO /\ pcCon' = "acepta"
          /\ UNCHANGED <<vModulo, vCpu, vNombre, lista, info, cde, vColas, io, toma, vPid, caido>>
      BY <1>6 DEF InvTipo, TypeOK, Marcha, ConCrea
    <2>1. TypeOK'
      BY <2>0 DEF InvTipo, TypeOK, vModulo, vCpu, vNombre, vColas, vPid
    <2>2. Marcha'
      <3>1. pc' \in [Modulos -> {"no", "nace", "espera", "saca", "inicia", "manda", "recibe"}]
        BY <2>0 DEF InvTipo, Marcha
      <3>2. UNCHANGED <<pcCpu, pide, hallada, lista, info, io, toma, espera, modulo>>
        BY <2>0 DEF vModulo, vCpu, vColas
      <3> QED BY <2>0, <3>1, <3>2 DEF InvTipo, Marcha
    <2> QED BY <2>1, <2>2 DEF InvTipo
  <1> QED BY <1>1, <1>2, <1>3, <1>4, <1>5, <1>6 DEF HiloCon

(* Steps of the thread of the CPU.                                         *)
LEMMA TipoCpu ==
    ASSUME InvTipo,
           \/ HiloCpu
           \/ \E p \in Procesos : Vuelve(p) \/ \E n \in Nombres : Pide(p, n)
    PROVE  InvTipo'
  <1> USE NuloAssumption
  <1>1. ASSUME NEW p \in Procesos, Vuelve(p) PROVE InvTipo'
    <2>1. TypeOK'
      BY <1>1 DEF InvTipo, TypeOK, Vuelve, vModulo, vCon, vCpu, vColas, vHilos, vPid
    <2>2. Marcha'
      BY <1>1 DEF InvTipo, Marcha, Vuelve, vModulo, vCon, vCpu, vColas, vHilos
    <2> QED BY <2>1, <2>2 DEF InvTipo
  <1>2. ASSUME NEW p \in Procesos, NEW n \in Nombres, Pide(p, n) PROVE InvTipo'
    <2>1. TypeOK'
      BY <1>2 DEF InvTipo, TypeOK, Pide, vModulo, vCon, vColas, vHilos
    <2>2. Marcha'
      BY <1>2 DEF InvTipo, Marcha, Pide, vModulo, vCon, vColas, vHilos
    <2> QED BY <2>1, <2>2 DEF InvTipo
  <1>3. CASE PideBusca
    <2>0. hallada' \in ToSet(lista) \cup {NULO} /\ ToSet(lista) \subseteq Modulos /\ pide \in Procesos
      BY <1>3, Hallados DEF PideBusca, InvTipo, TypeOK, Marcha, ToSet
    <2>1. TypeOK'
      BY <1>3, <2>0 DEF InvTipo, TypeOK, PideBusca, vModulo, vCon, vColas, vHilos
    <2>2. Marcha'
      BY <1>3, <2>0 DEF InvTipo, Marcha, PideBusca, vModulo, vCon, vColas, vHilos
    <2> QED BY <2>1, <2>2 DEF InvTipo
  <1>4. CASE PideEncola
    <2>0. /\ hallada \in ToSet(lista) /\ hallada \in Modulos /\ pide \in Procesos
          /\ espera \in [Modulos -> Seq(Procesos)]
      BY <1>4 DEF PideEncola, InvTipo, TypeOK, Marcha, ToSet
    <2>1. Append(espera[hallada], pide) \in Seq(Procesos)
      BY <2>0, AlFinal
    <2>2. TypeOK'
      BY <1>4, <2>0, <2>1 DEF InvTipo, TypeOK, PideEncola, vModulo, vCon, vHilos, vPid
    <2>3. Marcha'
      BY <1>4, <2>0 DEF InvTipo, Marcha, PideEncola, vModulo, vCon, vHilos
    <2> QED BY <2>2, <2>3 DEF InvTipo
  <1>5. CASE PideAvisa
    <2>0. hallada \in ToSet(lista) /\ hallada \in Modulos
      BY <1>5 DEF PideAvisa, InvTipo, TypeOK, Marcha, ToSet
    <2>1. TypeOK'
      <3>1. contador' \in [Modulos -> Nat]
        BY <1>5, <2>0 DEF PideAvisa, InvTipo, TypeOK
      <3>2. UNCHANGED <<vModulo, vCon, pide, hallada, lista, cde, espera, vHilos, vPid>> /\ info' = hallada
        BY <1>5 DEF PideAvisa
      <3> QED BY <2>0, <3>1, <3>2 DEF InvTipo, TypeOK, vModulo, vCon, vHilos, vPid
    <2>2. Marcha'
      BY <1>5, <2>0 DEF InvTipo, Marcha, PideAvisa, vModulo, vCon, vHilos
    <2> QED BY <2>1, <2>2 DEF InvTipo
  <1>6. CASE PideLibera
    <2>1. TypeOK'
      BY <1>6 DEF InvTipo, TypeOK, PideLibera, vNombre, vModulo, vCon, vColas, vHilos, vPid
    <2>2. Marcha'
      BY <1>6 DEF InvTipo, Marcha, PideLibera, vNombre, vModulo, vCon, vColas, vHilos
    <2> QED BY <2>1, <2>2 DEF InvTipo
  <1> QED BY <1>1, <1>2, <1>3, <1>4, <1>5, <1>6 DEF HiloCpu

LEMMA CanalManda ==
    ASSUME TypeOK, NEW m \in Modulos, NEW x \in Mensajes, Manda(m, x)
    PROVE  canal' \in [Modulos -> Seq(Mensajes)]
  BY CanalCrece DEF Manda, TypeOK, Mensajes

(* Steps of interfaz_conectada.                                            *)
LEMMA TipoHilo == ASSUME InvTipo, NEW t \in Modulos, Hilo(t) PROVE InvTipo'
  <1> USE NuloAssumption
  <1>0. /\ pc \in [Modulos -> {"no", "nace", "espera", "saca", "inicia", "manda", "recibe"}]
        /\ io \in [Modulos -> Modulos \cup {NULO}] /\ toma \in [Modulos -> Procesos \cup {NULO}]
        /\ ToSet(lista) \subseteq Modulos
        /\ pc[t] \notin {"no", "nace"} => io[t] \in ToSet(lista) /\ io[t] \in Modulos
        /\ pc[t] \in {"inicia", "manda", "recibe"} => toma[t] \in Procesos
    BY DEF InvTipo, TypeOK, Marcha, ToSet
  <1>1. CASE HiloNace(t)
    <2>1. TypeOK'
      <3>1. info \in ToSet(lista)
        BY <1>1 DEF HiloNace, InvTipo, Marcha
      <3>2. /\ io' = [io EXCEPT ![t] = info] /\ pc' = [pc EXCEPT ![t] = "espera"] /\ pc[t] = "nace"
            /\ UNCHANGED <<modulo, nombre, haciendo, canal, respuestas, nueva, pide, hallada, lista, info,
                           cde, espera, contador, toma, estado>>
        BY <1>1 DEF HiloNace, vModulo, vCon, vCpu, vColas, vPid
      <3>3. /\ io' \in [Modulos -> Modulos \cup {NULO}]
            /\ \A k \in Modulos : pc'[k] \notin {"no", "nace"} => io'[k] \in ToSet(lista)
        BY <1>0, <3>1, <3>2 DEF InvTipo, TypeOK
      <3> QED BY <3>2, <3>3 DEF InvTipo, TypeOK
    <2>2. Marcha'
      BY <1>0, <1>1 DEF InvTipo, Marcha, HiloNace, vModulo, vCon, vCpu, vColas
    <2> QED BY <2>1, <2>2 DEF InvTipo
  <1>2. CASE HiloEspera(t)
    <2>1. TypeOK'
      <3>1. contador' \in [Modulos -> Nat]
        BY <1>0, <1>2 DEF HiloEspera, InvTipo, TypeOK
      <3>2. /\ \A k \in Modulos : pc'[k] \notin {"no", "nace"} => io'[k] \in ToSet(lista)
            /\ UNCHANGED <<vModulo, vCon, vCpu, lista, info, cde, espera, io, toma, vPid>>
        BY <1>0, <1>2 DEF HiloEspera, InvTipo, TypeOK
      <3> QED BY <3>1, <3>2 DEF InvTipo, TypeOK, vModulo, vCon, vCpu, vPid
    <2>2. Marcha'
      BY <1>0, <1>2 DEF InvTipo, Marcha, HiloEspera, vModulo, vCon, vCpu
    <2> QED BY <2>1, <2>2 DEF InvTipo
  <1>3. CASE HiloSaca(t)
    <2>1. CASE espera[io[t]] = <<>>
      <3>1. UNCHANGED <<vModulo, vCon, vCpu, vNombre, lista, info, cde, vColas, vHilos, vPid>>
        BY <1>3, <2>1 DEF HiloSaca, vColas
      <3>2. TypeOK'
        BY <3>1 DEF InvTipo, TypeOK, vModulo, vCon, vCpu, vColas, vHilos, vPid
      <3>3. Marcha'
        BY <3>1 DEF InvTipo, Marcha, vModulo, vCon, vCpu, vColas, vHilos
      <3> QED BY <3>2, <3>3 DEF InvTipo
    <2>2. CASE espera[io[t]] # <<>>
      <3>0. /\ io[t] \in Modulos /\ pc[t] = "saca" /\ espera \in [Modulos -> Seq(Procesos)]
            /\ io[t] \in ToSet(lista)
        BY <1>0, <1>3 DEF HiloSaca, InvTipo, TypeOK
      <3>1. Head(espera[io[t]]) \in Procesos /\ Tail(espera[io[t]]) \in Seq(Procesos)
        BY <2>2, <3>0, Primero
      <3>5. /\ toma' = [toma EXCEPT ![t] = Head(espera[io[t]])]
            /\ espera' = [espera EXCEPT ![io[t]] = Tail(espera[io[t]])]
            /\ pc' = [pc EXCEPT ![t] = "inicia"]
            /\ UNCHANGED <<vModulo, vCon, vCpu, vNombre, lista, info, cde, contador, vPid, io>>
        BY <1>3, <2>2 DEF HiloSaca
      <3>2. TypeOK'
        <4>1. /\ toma' \in [Modulos -> Procesos \cup {NULO}] /\ espera' \in [Modulos -> Seq(Procesos)]
              /\ \A k \in Modulos : pc'[k] \notin {"no", "nace"} => io'[k] \in ToSet(lista)
          BY <1>0, <3>0, <3>1, <3>5 DEF InvTipo, TypeOK
        <4> QED BY <3>5, <4>1 DEF InvTipo, TypeOK, vModulo, vCon, vCpu, vPid
      <3>3. Marcha'
        <4>1. /\ pc' \in [Modulos -> {"no", "nace", "espera", "saca", "inicia", "manda", "recibe"}]
              /\ \A k \in Modulos : espera'[k] # <<>> => k \in ToSet(lista)
              /\ \A k \in Modulos : pc[k] \in {"no", "nace"} <=> pc'[k] \in {"no", "nace"}
              /\ \A k \in Modulos : pc[k] = "no" <=> pc'[k] = "no"
              /\ \A k \in Modulos : toma'[k] = NULO <=> pc'[k] \notin {"inicia", "manda", "recibe"}
          BY <1>0, <3>0, <3>1, <3>5 DEF InvTipo, Marcha
        <4>2. UNCHANGED <<pcCon, nueva, pcCpu, pide, hallada, lista, info, io, modulo>>
          BY <3>5 DEF vModulo, vCon, vCpu
        <4> QED BY <4>1, <4>2 DEF InvTipo, Marcha
      <3> QED BY <3>2, <3>3 DEF InvTipo
    <2> QED BY <2>1, <2>2
  <1>4. CASE HiloInicia(t)
    <2>1. canal' \in [Modulos -> Seq(Mensajes)]
      BY <1>0, <1>4, CanalManda DEF HiloInicia, InvTipo, Mensaje, Mensajes
    <2>2. TypeOK'
      BY <1>0, <1>4, <2>1 DEF InvTipo, TypeOK, Mensajes, HiloInicia, vCon, vCpu, vColas, vPid
    <2>3. Marcha'
      BY <1>0, <1>4 DEF InvTipo, Marcha, HiloInicia, vCon, vCpu, vColas
    <2> QED BY <2>2, <2>3 DEF InvTipo
  <1>5. CASE HiloManda(t)
    <2>0. PidEnviado(t) \in Procesos \cup {NULO}
      BY <1>0, <1>5 DEF PidEnviado, InvTipo, TypeOK
    <2>1. canal' \in [Modulos -> Seq(Mensajes)]
      BY <1>0, <1>5, <2>0, CanalManda DEF HiloManda, InvTipo, Mensaje, Mensajes
    <2>2. TypeOK'
      BY <1>0, <1>5, <2>1 DEF InvTipo, TypeOK, Mensajes, HiloManda, vCon, vCpu, vColas, vPid
    <2>3. Marcha'
      BY <1>0, <1>5 DEF InvTipo, Marcha, HiloManda, vCon, vCpu, vColas
    <2> QED BY <2>2, <2>3 DEF InvTipo
  <1>6. CASE HiloRecibe(t)
    <2>0. respuestas' \in [Modulos -> Seq(Procesos \cup {NULO})]
      <3>1. respuestas \in [Modulos -> Seq(Procesos \cup {NULO})]
        BY DEF InvTipo, TypeOK
      <3>2. respuestas[io[t]] # <<>> => Tail(respuestas[io[t]]) \in Seq(Procesos \cup {NULO})
        <4>1. respuestas[io[t]] \in Seq(Procesos \cup {NULO})
          BY <1>0, <1>6, <3>1 DEF HiloRecibe
        <4> QED BY <4>1, Primero
      <3> QED BY <1>6, <3>1, <3>2 DEF HiloRecibe
    <2>1. TypeOK'
      BY <1>0, <1>6, <2>0 DEF InvTipo, TypeOK, HiloRecibe, vCon, vCpu, vColas
    <2>2. Marcha'
      BY <1>0, <1>6 DEF InvTipo, Marcha, HiloRecibe, vCon, vCpu, vColas
    <2> QED BY <2>1, <2>2 DEF InvTipo
  <1> QED BY <1>1, <1>2, <1>3, <1>4, <1>5, <1>6 DEF Hilo

(* Steps of the modules.                                                   *)
LEMMA TipoModulo ==
    ASSUME InvTipo, NEW m \in Modulos,
           Modulo(m) \/ SeVa(m) \/ \E n \in Nombres : Enciende(m, n)
    PROVE  InvTipo'
  <1>0. canal \in [Modulos -> Seq(Mensajes)] /\ respuestas \in [Modulos -> Seq(Procesos \cup {NULO})]
    BY DEF InvTipo, TypeOK, Mensajes
  <1>1. canal' \in [Modulos -> Seq(Mensajes)]
    <2>1. canal[m] # <<>> => Tail(canal[m]) \in Seq(Mensajes)
      BY <1>0
    <2>2. Len(canal[m]) > 1 => SubSeq(canal[m], 3, Len(canal[m])) \in Seq(Mensajes)
      BY <1>0
    <2>3. CASE Modulo(m)
      BY <1>0, <2>1, <2>2, <2>3 DEF Modulo, Confirma, Atiende, Concluye, Delira
    <2>4. CASE SeVa(m) \/ \E n \in Nombres : Enciende(m, n)
      <3>1. <<>> \in Seq(Mensajes)
        OBVIOUS
      <3> QED BY <1>0, <2>4, <3>1 DEF SeVa, Enciende
    <2> QED BY <2>3, <2>4
  <1>2. respuestas' \in [Modulos -> Seq(Procesos \cup {NULO})]
    <2>1. CASE Concluye(m)
      <3>1. Append(respuestas[m], haciendo[m]) \in Seq(Procesos \cup {NULO})
        BY <1>0, AlFinal DEF InvTipo, TypeOK
      <3> QED BY <1>0, <2>1, <3>1 DEF Concluye
    <2>2. CASE Delira(m)
      <3>1. respuestas[m] \o <<>> \in Seq(Procesos \cup {NULO}) /\ respuestas[m] \o <<NULO>> \in Seq(Procesos \cup {NULO})
        BY <1>0
      <3> QED BY <1>0, <2>2, <3>1 DEF Delira
    <2>3. CASE Confirma(m) \/ Atiende(m) \/ SeVa(m) \/ \E n \in Nombres : Enciende(m, n)
      BY <1>0, <2>3 DEF Confirma, Atiende, SeVa, Enciende
    <2> QED BY <2>1, <2>2, <2>3 DEF Modulo
  <1>3. haciendo' \in [Modulos -> Procesos \cup {NULO}]
    <2>1. CASE Atiende(m)
      <3>1. Len(canal[m]) > 1 => canal[m][2].pid \in Procesos \cup {NULO}
        <4>1. Len(canal[m]) > 1 => canal[m][2] \in Mensajes
          BY <1>0
        <4> QED BY <4>1 DEF Mensajes
      <3> QED BY <2>1, <3>1 DEF Atiende, InvTipo, TypeOK
    <2>2. CASE Confirma(m) \/ Concluye(m) \/ Delira(m) \/ SeVa(m) \/ \E n \in Nombres : Enciende(m, n)
      BY <2>2 DEF Confirma, Concluye, Delira, SeVa, Enciende, InvTipo, TypeOK
    <2> QED BY <2>1, <2>2 DEF Modulo
  <1>4. /\ modulo' \in [Modulos -> {"apagado", "conecta", "libre", "ocupado", "roto", "salio"}]
        /\ \A k \in Modulos : modulo[k] # "apagado" => modulo'[k] # "apagado"
    BY DEF Modulo, Confirma, Atiende, Concluye, Delira, SeVa, Enciende, InvTipo, TypeOK
  <1>5. nombre' \in [Modulos -> Nombres \cup {NULO}] /\ UNCHANGED vKernel
    BY DEF Modulo, Confirma, Atiende, Concluye, Delira, SeVa, Enciende, InvTipo, TypeOK
  <1>6. TypeOK'
    BY <1>1, <1>2, <1>3, <1>4, <1>5
       DEF InvTipo, TypeOK, Mensajes, vKernel, vCon, vCpu, vColas, vHilos, vPid
  <1>7. Marcha'
    BY <1>4, <1>5 DEF InvTipo, Marcha, vKernel, vCon, vCpu, vColas, vHilos
  <1> QED BY <1>6, <1>7 DEF InvTipo

LEMMA TipoQuieto == ASSUME InvTipo, UNCHANGED vars PROVE InvTipo'
  <1>1. TypeOK'
    BY DEF vars, InvTipo, TypeOK, vModulo, vCon, vCpu, vColas, vHilos, vPid
  <1>2. Marcha'
    BY DEF vars, InvTipo, Marcha, vModulo, vCon, vCpu, vColas, vHilos, vPid
  <1> QED BY <1>1, <1>2 DEF InvTipo

LEMMA TipoInductivo == InvTipo /\ [Next]_vars => InvTipo'
  BY TipoCon, TipoCpu, TipoHilo, TipoModulo, TipoQuieto DEF Next

(* Every variable has its type, an interface is in the list once, and a    *)
(* thread that started serves one of the list: whatever info_io_conectada  *)
(* names when it starts, there is one.                                     *)
THEOREM TiposDeLasInterfaces == Spec => []TypeOK
  <1>1. InvTipo => TypeOK
    BY DEF InvTipo
  <1> QED BY <1>1, TipoInicial, TipoInductivo, PTL DEF Spec

-----------------------------------------------------------------------------
(* A request for each post.                                                *)

(* The threads that have passed the semaphore of m.                        *)
Sacan(m) == {t \in HilosDe(m) : pc[t] = "saca"}

(* The request that is in the list and has no post yet.                    *)
Encolado(m) == IF pcCpu = "avisa" /\ hallada = m THEN 1 ELSE 0

Contado(m) ==
    /\ IsFiniteSet(Sacan(m))
    /\ Len(espera[m]) = contador[m] + Cardinality(Sacan(m)) + Encolado(m)

Contados == \A m \in Modulos : Contado(m)

LEMMA ContadosIniciales == Init => Contados
  <1> SUFFICES ASSUME Init, NEW m \in Modulos PROVE Contado(m)
    BY DEF Contados
  <1>1. Sacan(m) = {} /\ Encolado(m) = 0 /\ contador[m] = 0 /\ espera[m] = <<>>
    BY DEF Init, Sacan, HilosDe, Encolado
  <1> QED BY <1>1, FS_EmptySet DEF Contado

(* Steps that neither queue, post, wait nor remove.                        *)
LEMMA ContadosQuietos ==
    ASSUME Contados, UNCHANGED vColas,
           \A m \in Modulos : Encolado(m)' = Encolado(m),
           \A t \in Modulos : /\ pc'[t] = "saca" <=> pc[t] = "saca"
                              /\ pc[t] = "saca" => io'[t] = io[t]
    PROVE  Contados'
  <1> SUFFICES ASSUME NEW m \in Modulos PROVE Contado(m)'
    BY DEF Contados
  <1>1. Sacan(m)' = Sacan(m)
    BY DEF Sacan, HilosDe
  <1>2. espera'[m] = espera[m] /\ contador'[m] = contador[m] /\ Encolado(m)' = Encolado(m)
    BY DEF vColas
  <1> QED BY <1>1, <1>2 DEF Contados, Contado

LEMMA ContadosHilo == ASSUME InvTipo, Contados, NEW t \in Modulos, Hilo(t) PROVE Contados'
  <1>0. /\ pc \in [Modulos -> {"no", "nace", "espera", "saca", "inicia", "manda", "recibe"}]
        /\ espera \in [Modulos -> Seq(Procesos)] /\ contador \in [Modulos -> Nat]
        /\ pc[t] \notin {"no", "nace"} => io[t] \in Modulos
    BY DEF InvTipo, TypeOK, Marcha, ToSet
  <1>1. CASE HiloNace(t) \/ HiloInicia(t) \/ HiloManda(t) \/ HiloRecibe(t)
    BY <1>0, <1>1, ContadosQuietos
       DEF HiloNace, HiloInicia, HiloManda, HiloRecibe, Encolado, vCpu, vColas, InvTipo, TypeOK
  <1>2. CASE HiloEspera(t)
    <2>1. /\ pc[t] = "espera" /\ contador[io[t]] > 0 /\ io' = io /\ espera' = espera
          /\ pc' = [pc EXCEPT ![t] = "saca"] /\ contador' = [contador EXCEPT ![io[t]] = @ - 1]
          /\ UNCHANGED <<pcCpu, hallada>>
      BY <1>2 DEF HiloEspera, vCpu
    <2> SUFFICES ASSUME NEW m \in Modulos PROVE Contado(m)'
      BY DEF Contados
    <2>2. Encolado(m)' = Encolado(m)
      BY <2>1 DEF Encolado
    <2>3. IsFiniteSet(Sacan(m)) /\ Cardinality(Sacan(m)) \in Nat /\ t \notin Sacan(m)
      BY <2>1, FS_CardinalityType DEF Contados, Contado, Sacan
    <2>4. CASE m = io[t]
      <3>1. Sacan(m)' = Sacan(m) \cup {t}
        BY <1>0, <2>1, <2>4 DEF Sacan, HilosDe
      <3>2. IsFiniteSet(Sacan(m)') /\ Cardinality(Sacan(m)') = Cardinality(Sacan(m)) + 1
        BY <2>3, <3>1, FS_AddElement
      <3>3. contador'[m] = contador[m] - 1 /\ contador[m] \in Nat /\ espera'[m] = espera[m]
        BY <1>0, <2>1, <2>4
      <3>4. Len(espera[m]) = contador[m] + Cardinality(Sacan(m)) + Encolado(m) /\ Encolado(m) \in Nat
        BY DEF Contados, Contado, Encolado
      <3>5. Len(espera[m]) = (contador[m] - 1) + (Cardinality(Sacan(m)) + 1) + Encolado(m)
        BY <2>3, <3>3, <3>4
      <3> QED BY <2>2, <3>2, <3>3, <3>5 DEF Contado
    <2>5. CASE m # io[t]
      <3>1. Sacan(m)' = Sacan(m) /\ contador'[m] = contador[m]
        BY <1>0, <2>1, <2>5 DEF Sacan, HilosDe
      <3> QED BY <2>1, <2>2, <3>1 DEF Contados, Contado
    <2> QED BY <2>4, <2>5
  <1>3. CASE HiloSaca(t)
    <2>1. pc[t] = "saca" /\ UNCHANGED <<pcCpu, hallada, contador, io>> /\ io[t] \in Modulos
      BY <1>0, <1>3 DEF HiloSaca, vCpu, vHilos
    <2>2. espera[io[t]] # <<>>
      <3> DEFINE m == io[t]
      <3>1. t \in Sacan(m) /\ IsFiniteSet(Sacan(m))
        BY <2>1 DEF Sacan, HilosDe, Contados, Contado
      <3>2. Cardinality(Sacan(m)) \in Nat /\ Cardinality(Sacan(m)) # 0
        BY <3>1, FS_CardinalityType, FS_EmptySet
      <3>3. Len(espera[m]) = contador[m] + Cardinality(Sacan(m)) + Encolado(m) /\ Encolado(m) \in Nat
            /\ contador[m] \in Nat
        BY <1>0, <2>1 DEF Contados, Contado, Encolado
      <3>4. Len(espera[m]) > 0
        BY <3>2, <3>3
      <3> QED BY <1>0, <2>1, <3>4
    <2>3. /\ espera' = [espera EXCEPT ![io[t]] = Tail(espera[io[t]])] /\ pc' = [pc EXCEPT ![t] = "inicia"]
      BY <1>3, <2>2 DEF HiloSaca
    <2> SUFFICES ASSUME NEW m \in Modulos PROVE Contado(m)'
      BY DEF Contados
    <2>4. Encolado(m)' = Encolado(m) /\ contador'[m] = contador[m] /\ Encolado(m) \in Nat
      BY <2>1 DEF Encolado
    <2>5. IsFiniteSet(Sacan(m)) /\ Cardinality(Sacan(m)) \in Nat
      BY FS_CardinalityType DEF Contados, Contado
    <2>6. CASE m = io[t]
      <3>1. Sacan(m)' = Sacan(m) \ {t} /\ t \in Sacan(m)
        BY <1>0, <2>1, <2>3, <2>6 DEF Sacan, HilosDe
      <3>2. IsFiniteSet(Sacan(m)') /\ Cardinality(Sacan(m)') = Cardinality(Sacan(m)) - 1
        BY <2>5, <3>1, FS_RemoveElement
      <3>3. Len(espera'[m]) = Len(espera[m]) - 1
        BY <1>0, <2>1, <2>2, <2>3, <2>6, Primero
      <3>4. Len(espera[m]) = contador[m] + Cardinality(Sacan(m)) + Encolado(m) /\ contador[m] \in Nat
        BY <1>0 DEF Contados, Contado
      <3>5. Len(espera[m]) - 1 = contador[m] + (Cardinality(Sacan(m)) - 1) + Encolado(m)
        BY <2>4, <2>5, <3>4
      <3> QED BY <2>4, <3>2, <3>3, <3>5 DEF Contado
    <2>7. CASE m # io[t]
      <3>1. Sacan(m)' = Sacan(m) /\ espera'[m] = espera[m]
        BY <1>0, <2>1, <2>3, <2>7 DEF Sacan, HilosDe
      <3> QED BY <2>4, <3>1 DEF Contados, Contado
    <2> QED BY <2>6, <2>7
  <1> QED BY <1>1, <1>2, <1>3 DEF Hilo

LEMMA ContadosCpu == ASSUME InvTipo, Contados, HiloCpu PROVE Contados'
  <1>0. /\ espera \in [Modulos -> Seq(Procesos)] /\ contador \in [Modulos -> Nat]
        /\ pcCpu \in {"encola", "avisa"} => hallada \in Modulos
        /\ pcCpu = "encola" => pide \in Procesos
    BY DEF InvTipo, TypeOK, Marcha, ToSet
  <1>1. CASE PideBusca
    BY <1>1, ContadosQuietos DEF PideBusca, Encolado, vHilos
  <1>2. CASE PideLibera
    BY <1>2, ContadosQuietos DEF PideLibera, Encolado, vHilos
  <1>3. CASE PideEncola
    <2> SUFFICES ASSUME NEW m \in Modulos PROVE Contado(m)'
      BY DEF Contados
    <2>1. Sacan(m)' = Sacan(m) /\ contador'[m] = contador[m] /\ hallada' = hallada
          /\ pcCpu = "encola" /\ pcCpu' = "avisa"
      BY <1>3 DEF PideEncola, Sacan, HilosDe, vHilos
    <2>2. Cardinality(Sacan(m)) \in Nat /\ contador[m] \in Nat
      BY <1>0, FS_CardinalityType DEF Contados, Contado
    <2>3. Len(espera'[m]) = Len(espera[m]) + (IF hallada = m THEN 1 ELSE 0)
      BY <1>0, <1>3 DEF PideEncola
    <2>4. Encolado(m) = 0 /\ Encolado(m)' = IF hallada = m THEN 1 ELSE 0
      BY <2>1 DEF Encolado
    <2>5. IsFiniteSet(Sacan(m)) /\ Len(espera[m]) = contador[m] + Cardinality(Sacan(m)) + Encolado(m)
      BY DEF Contados, Contado
    <2>6. Len(espera'[m]) = contador[m] + Cardinality(Sacan(m)) + (IF hallada = m THEN 1 ELSE 0)
      BY <2>2, <2>3, <2>4, <2>5
    <2> QED BY <2>1, <2>4, <2>5, <2>6 DEF Contado
  <1>4. CASE PideAvisa
    <2> SUFFICES ASSUME NEW m \in Modulos PROVE Contado(m)'
      BY DEF Contados
    <2>1. Sacan(m)' = Sacan(m) /\ espera'[m] = espera[m] /\ hallada' = hallada
          /\ pcCpu = "avisa" /\ pcCpu' = "libera"
      BY <1>4 DEF PideAvisa, Sacan, HilosDe, vHilos
    <2>2. Cardinality(Sacan(m)) \in Nat /\ contador[m] \in Nat
      BY <1>0, FS_CardinalityType DEF Contados, Contado
    <2>3. contador'[m] = contador[m] + (IF hallada = m THEN 1 ELSE 0)
      BY <1>0, <1>4 DEF PideAvisa
    <2>4. Encolado(m)' = 0 /\ Encolado(m) = IF hallada = m THEN 1 ELSE 0
      BY <2>1 DEF Encolado
    <2> QED BY <2>1, <2>2, <2>3, <2>4 DEF Contados, Contado
  <1> QED BY <1>1, <1>2, <1>3, <1>4 DEF HiloCpu

LEMMA ContadosInductivos == InvTipo /\ Contados /\ [Next]_vars => Contados'
  <1> SUFFICES ASSUME InvTipo, Contados, [Next]_vars PROVE Contados'
    OBVIOUS
  <1>1. CASE HiloCon
    <2>1. nueva \in Modulos => pc[nueva] = "no"
      BY DEF InvTipo, Marcha
    <2>2. /\ UNCHANGED vColas /\ UNCHANGED vCpu /\ io' = io
          /\ \A t \in Modulos : pc'[t] = "saca" <=> pc[t] = "saca"
      BY <1>1, <2>1 DEF InvTipo, Marcha, HiloCon, ConAcepta, ConBusca, ConAgrega, ConPublica,
                        ConResponde, ConCrea, vHilos
    <2>3. \A m \in Modulos : Encolado(m)' = Encolado(m)
      BY <2>2 DEF Encolado, vCpu
    <2> QED BY <2>2, <2>3, ContadosQuietos
  <1>2. ASSUME NEW p \in Procesos, Vuelve(p) \/ \E n \in Nombres : Pide(p, n) PROVE Contados'
    BY <1>2, ContadosQuietos DEF Vuelve, Pide, Encolado, vCpu, vHilos
  <1>3. ASSUME NEW m \in Modulos, Modulo(m) \/ SeVa(m) \/ \E n \in Nombres : Enciende(m, n)
        PROVE  Contados'
    <2>1. UNCHANGED vKernel
      BY <1>3 DEF Modulo, Confirma, Atiende, Concluye, Delira, SeVa, Enciende
    <2> QED BY <2>1, ContadosQuietos DEF vKernel, vCpu, vHilos, Encolado
  <1>4. CASE UNCHANGED vars
    BY <1>4, ContadosQuietos DEF vars, vCpu, vHilos, Encolado
  <1> QED BY <1>1, <1>2, <1>3, <1>4, ContadosHilo, ContadosCpu DEF Next

(* A thread of an interface that got past its semaphore finds a request in *)
(* the list: it is appended before the post and removed after the wait, by *)
(* threads that share no lock, however many serve the same interface.      *)
THEOREM SiempreHayUnPedido == Spec => []SiempreHayPedido
  <1>1. Contados => SiempreHayPedido
    BY DEF Contados, Contado, SiempreHayPedido, Sacan, Encolado
  <1> QED BY <1>1, TipoInicial, TipoInductivo, ContadosIniciales, ContadosInductivos, PTL DEF Spec

-----------------------------------------------------------------------------
(* One place for each request.                                             *)

(* Where a request may be, and not twice.                                  *)
Pidiendo(p) == pide = p /\ pcCpu \in {"busca", "encola"}
Esperando(p, m) == \E k \in DOMAIN espera[m] : espera[m][k] = p
Atendido(p, t) == toma[t] = p
UnaVez(m) == \A i, j \in DOMAIN espera[m] : espera[m][i] = espera[m][j] => i = j

Ubicado(p) ==
    /\ \A m, n \in Modulos : Esperando(p, m) /\ Esperando(p, n) => m = n
    /\ \A t, u \in Modulos : Atendido(p, t) /\ Atendido(p, u) => t = u
    /\ \A m, t \in Modulos : ~(Esperando(p, m) /\ Atendido(p, t))
    /\ \A m \in Modulos : ~(Pidiendo(p) /\ (Esperando(p, m) \/ Atendido(p, m)))
    /\ estado[p] = "bloqueado"
          <=> Pidiendo(p) \/ \E m \in Modulos : Esperando(p, m) \/ Atendido(p, m)

Ubicados == (\A m \in Modulos : UnaVez(m)) /\ (\A p \in Procesos : Ubicado(p))

LEMMA UbicadosIniciales == Init => Ubicados
  BY NuloAssumption DEF Init, Ubicados, Ubicado, UnaVez, Pidiendo, Esperando, Atendido

(* A process whose places and state do not change.                         *)
LEMMA UbicadoIgual ==
    ASSUME NEW p \in Procesos, Ubicado(p), estado'[p] = estado[p], Pidiendo(p)' <=> Pidiendo(p),
           \A m \in Modulos : /\ Esperando(p, m)' <=> Esperando(p, m)
                              /\ Atendido(p, m)' <=> Atendido(p, m)
    PROVE  Ubicado(p)'
  BY DEF Ubicado

LEMMA UbicadosQuietos ==
    ASSUME Ubicados, UNCHANGED <<espera, toma, estado>>,
           \A p \in Procesos : Pidiendo(p)' <=> Pidiendo(p)
    PROVE  Ubicados'
  <1>1. \A m \in Modulos : UnaVez(m)'
    BY DEF Ubicados, UnaVez
  <1>2. ASSUME NEW p \in Procesos PROVE Ubicado(p)'
    BY UbicadoIgual DEF Ubicados, Esperando, Atendido
  <1> QED BY <1>1, <1>2 DEF Ubicados

LEMMA UbicadosHilo == ASSUME InvTipo, Ubicados, NEW t \in Modulos, Hilo(t) PROVE Ubicados'
  <1>0. /\ pc \in [Modulos -> {"no", "nace", "espera", "saca", "inicia", "manda", "recibe"}]
        /\ espera \in [Modulos -> Seq(Procesos)] /\ toma \in [Modulos -> Procesos \cup {NULO}]
        /\ pc[t] \notin {"no", "nace"} => io[t] \in Modulos
        /\ pc[t] = "saca" => toma[t] = NULO
        /\ pc[t] = "recibe" => toma[t] \in Procesos
        /\ estado \in [Procesos -> {"libre", "bloqueado", "terminado", "olvidado"}]
    <2>1. toma[t] = NULO <=> pc[t] \notin {"inicia", "manda", "recibe"}
      BY DEF InvTipo, Marcha
    <2>2. /\ pc \in [Modulos -> {"no", "nace", "espera", "saca", "inicia", "manda", "recibe"}]
          /\ pc[t] \notin {"no", "nace"} => io[t] \in Modulos
      BY DEF InvTipo, TypeOK, Marcha, ToSet
    <2>3. /\ espera \in [Modulos -> Seq(Procesos)] /\ toma \in [Modulos -> Procesos \cup {NULO}]
          /\ estado \in [Procesos -> {"libre", "bloqueado", "terminado", "olvidado"}]
      BY DEF InvTipo, TypeOK
    <2> QED BY <2>1, <2>2, <2>3
  <1>1. CASE HiloNace(t) \/ HiloEspera(t) \/ HiloInicia(t) \/ HiloManda(t)
    BY <1>1, UbicadosQuietos
       DEF HiloNace, HiloEspera, HiloInicia, HiloManda, Pidiendo, vCpu, vColas, vPid
  <1>2. CASE HiloSaca(t)
    <2>1. pc[t] = "saca" /\ UNCHANGED <<pcCpu, pide, estado>>
      BY <1>2 DEF HiloSaca, vCpu, vPid
    <2>2. CASE espera[io[t]] = <<>>
      BY <1>2, <2>1, <2>2, UbicadosQuietos DEF HiloSaca, Pidiendo, vHilos
    <2>3. CASE espera[io[t]] # <<>>
      <3>1. PICK m \in Modulos : m = io[t]
        BY <1>0, <2>1
      <3> DEFINE s == espera[m]
                 r == Tail(s)
      <3>2. /\ Head(s) = s[1] /\ 1 \in DOMAIN s /\ Head(s) \in Procesos
            /\ \A i \in DOMAIN r : r[i] = s[i + 1] /\ i + 1 \in DOMAIN s /\ i \in Nat
            /\ Len(r) = Len(s) - 1 /\ Len(s) \in Nat /\ DOMAIN s = 1..Len(s) /\ DOMAIN r = 1..Len(r)
        BY <1>0, <2>3, <3>1, Primero
      <3>3. PICK x \in Procesos : x = Head(s)
        BY <3>2
      <3>4. /\ espera'[m] = r /\ \A n \in Modulos \ {m} : espera'[n] = espera[n]
            /\ toma'[t] = x /\ \A u \in Modulos \ {t} : toma'[u] = toma[u]
        BY <1>0, <1>2, <2>3, <3>1, <3>3 DEF HiloSaca
      <3>5. UnaVez(m) /\ Ubicado(x) /\ \A p : Esperando(p, m) <=> \E k \in DOMAIN s : s[k] = p
        BY DEF Ubicados, Esperando
      <3>6. UnaVez(m) <=> \A i, j \in DOMAIN s : s[i] = s[j] => i = j
        BY DEF UnaVez
      <3> HIDE DEF s, r
      <3>7. \A n \in Modulos : UnaVez(n)'
        <4>1. \A i, j \in DOMAIN r : r[i] = r[j] => i = j
          BY <3>2, <3>5, <3>6
        <4> QED BY <3>4, <4>1 DEF UnaVez, Ubicados
      <3>8. \A p \in Procesos : (\E k \in DOMAIN r : r[k] = p) <=> (\E k \in DOMAIN s : s[k] = p) /\ p # x
        <4>1. ASSUME NEW p, NEW k \in DOMAIN s, s[k] = p, p # x PROVE \E j \in DOMAIN r : r[j] = p
          <5>1. k - 1 \in DOMAIN r /\ (k - 1) + 1 = k
            BY <3>2, <3>3, <4>1
          <5> QED BY <3>2, <4>1, <5>1
        <4>2. ASSUME NEW k \in DOMAIN r PROVE r[k] # x
          BY <3>2, <3>3, <3>5, <3>6
        <4> QED BY <3>2, <4>1, <4>2
      <3>9. /\ \A p \in Procesos : Esperando(p, m)' <=> Esperando(p, m) /\ p # x
            /\ \A p : \A n \in Modulos \ {m} : Esperando(p, n)' <=> Esperando(p, n)
            /\ \A p \in Procesos : Atendido(p, t)' <=> p = x
            /\ \A p \in Procesos : ~Atendido(p, t)
            /\ \A p : \A u \in Modulos \ {t} : Atendido(p, u)' <=> Atendido(p, u)
            /\ \A p : Pidiendo(p)' <=> Pidiendo(p)
            /\ Esperando(x, m)
        <4>1. \A p : Esperando(p, m)' <=> \E k \in DOMAIN r : r[k] = p
          BY <3>4 DEF Esperando
        <4>2. \A p \in Procesos : Esperando(p, m)' <=> Esperando(p, m) /\ p # x
          BY <3>5, <3>8, <4>1
        <4>3. \A p : \A n \in Modulos \ {m} : Esperando(p, n)' <=> Esperando(p, n)
          BY <3>4 DEF Esperando
        <4>4. /\ \A p \in Procesos : Atendido(p, t)' <=> p = x
              /\ \A p \in Procesos : ~Atendido(p, t)
              /\ \A p : \A u \in Modulos \ {t} : Atendido(p, u)' <=> Atendido(p, u)
          BY <1>0, <2>1, <3>4, NuloAssumption DEF Atendido
        <4>5. \A p : Pidiendo(p)' <=> Pidiendo(p)
          BY <2>1 DEF Pidiendo
        <4>6. Esperando(x, m)
          BY <3>2, <3>3, <3>5
        <4> QED BY <4>2, <4>3, <4>4, <4>5, <4>6
      <3>10. ASSUME NEW p \in Procesos PROVE Ubicado(p)'
        <4>1. CASE p # x
          BY <2>1, <3>9, <4>1, UbicadoIgual DEF Ubicados
        <4>2. CASE p = x
          BY <2>1, <3>5, <3>9, <4>2 DEF Ubicado
        <4> QED BY <4>1, <4>2
      <3> QED BY <3>7, <3>10 DEF Ubicados
    <2> QED BY <2>2, <2>3
  <1>3. CASE HiloRecibe(t)
    <2>1. /\ pc[t] = "recibe" /\ UNCHANGED <<pcCpu, pide, espera>> /\ toma' = [toma EXCEPT ![t] = NULO]
          /\ \E e \in {"libre", "olvidado"} : estado' = [estado EXCEPT ![toma[t]] = e]
      BY <1>3 DEF HiloRecibe, vCpu, vColas
    <2>2. PICK x \in Procesos : x = toma[t]
      BY <1>0, <2>1
    <2>3. /\ \A p, m : Esperando(p, m)' <=> Esperando(p, m)
          /\ \A p \in Procesos : ~Atendido(p, t)' /\ (Atendido(p, t) <=> p = x)
          /\ \A p : \A u \in Modulos \ {t} : Atendido(p, u)' <=> Atendido(p, u)
          /\ \A p : Pidiendo(p)' <=> Pidiendo(p)
      BY <1>0, <2>1, <2>2, NuloAssumption DEF Esperando, Atendido, Pidiendo
    <2>4. \A p \in Procesos : IF p = x THEN estado'[p] # "bloqueado" ELSE estado'[p] = estado[p]
      BY <1>0, <2>1, <2>2
    <2>5. ASSUME NEW p \in Procesos PROVE Ubicado(p)'
      <3>1. CASE p # x
        BY <2>3, <2>4, <3>1, UbicadoIgual DEF Ubicados
      <3>2. CASE p = x
        <4>1. Ubicado(p)
          BY DEF Ubicados
        <4> QED BY <2>3, <2>4, <3>2, <4>1 DEF Ubicado
      <3> QED BY <3>1, <3>2
    <2>6. \A m \in Modulos : UnaVez(m)'
      BY <2>1 DEF Ubicados, UnaVez
    <2> QED BY <2>5, <2>6 DEF Ubicados
  <1> QED BY <1>1, <1>2, <1>3 DEF Hilo

LEMMA UbicadosCpu ==
    ASSUME InvTipo, Ubicados,
           \/ HiloCpu
           \/ \E p \in Procesos : Vuelve(p) \/ \E n \in Nombres : Pide(p, n)
    PROVE  Ubicados'
  <1>0. /\ espera \in [Modulos -> Seq(Procesos)]
        /\ pcCpu \in {"encola", "avisa"} => hallada \in Modulos
        /\ pcCpu = "recibe" <=> pide = NULO
        /\ pcCpu \in {"busca", "encola"} => pide \in Procesos
        /\ estado \in [Procesos -> {"libre", "bloqueado", "terminado", "olvidado"}]
    BY DEF InvTipo, TypeOK, Marcha, ToSet
  <1>1. CASE PideAvisa \/ PideLibera \/ \E p \in Procesos : Vuelve(p)
    BY <1>0, <1>1, UbicadosQuietos DEF PideAvisa, PideLibera, Vuelve, Pidiendo, vCpu, vColas, vHilos, vPid
  <1>2. ASSUME NEW x \in Procesos, NEW n \in Nombres, Pide(x, n) PROVE Ubicados'
    <2>1. /\ UNCHANGED <<espera, toma>> /\ pcCpu = "recibe" /\ pcCpu' = "busca" /\ pide' = x
          /\ estado[x] = "libre" /\ estado' = [estado EXCEPT ![x] = "bloqueado"]
      BY <1>2 DEF Pide, vColas, vHilos
    <2>2. /\ \A p, m : (Esperando(p, m)' <=> Esperando(p, m)) /\ (Atendido(p, m)' <=> Atendido(p, m))
          /\ \A p : ~Pidiendo(p) /\ (Pidiendo(p)' <=> p = x)
      BY <2>1 DEF Esperando, Atendido, Pidiendo
    <2>3. ASSUME NEW p \in Procesos PROVE Ubicado(p)'
      <3>1. CASE p # x
        BY <1>0, <2>1, <2>2, <3>1, UbicadoIgual DEF Ubicados
      <3>2. CASE p = x
        <4>1. Ubicado(p) /\ estado[p] # "bloqueado" /\ estado'[p] = "bloqueado"
          BY <1>0, <2>1, <3>2 DEF Ubicados
        <4> QED BY <2>2, <3>2, <4>1 DEF Ubicado
      <3> QED BY <3>1, <3>2
    <2>4. \A m \in Modulos : UnaVez(m)'
      BY <2>1 DEF Ubicados, UnaVez
    <2> QED BY <2>3, <2>4 DEF Ubicados
  <1>3. CASE PideBusca
    <2>1. UNCHANGED <<espera, toma, pide>> /\ pcCpu = "busca"
      BY <1>3 DEF PideBusca, vColas, vHilos
    <2>2. CASE pcCpu' = "encola" /\ estado' = estado
      BY <2>1, <2>2, UbicadosQuietos DEF Pidiendo
    <2>3. CASE pcCpu' = "libera" /\ estado' = [estado EXCEPT ![pide] = "terminado"]
      <3>1. PICK x \in Procesos : x = pide
        BY <1>0, <2>1
      <3>2. /\ \A p, m : (Esperando(p, m)' <=> Esperando(p, m)) /\ (Atendido(p, m)' <=> Atendido(p, m))
            /\ \A p : ~Pidiendo(p)' /\ (Pidiendo(p) <=> p = x)
        BY <2>1, <2>3, <3>1 DEF Esperando, Atendido, Pidiendo
      <3>3. ASSUME NEW p \in Procesos PROVE Ubicado(p)'
        <4>1. CASE p # x
          BY <1>0, <2>3, <3>1, <3>2, <4>1, UbicadoIgual DEF Ubicados
        <4>2. CASE p = x
          <5>1. Ubicado(p) /\ estado'[p] = "terminado"
            BY <1>0, <2>3, <3>1, <4>2 DEF Ubicados
          <5> QED BY <3>2, <4>2, <5>1 DEF Ubicado
        <4> QED BY <4>1, <4>2
      <3>4. \A m \in Modulos : UnaVez(m)'
        BY <2>1 DEF Ubicados, UnaVez
      <3> QED BY <3>3, <3>4 DEF Ubicados
    <2> QED BY <1>3, <2>2, <2>3 DEF PideBusca
  <1>4. CASE PideEncola
    <2>1. /\ pcCpu = "encola" /\ pcCpu' = "avisa" /\ UNCHANGED <<pide, toma, estado>>
          /\ espera' = [espera EXCEPT ![hallada] = Append(@, pide)]
      BY <1>4 DEF PideEncola, vHilos, vPid
    <2>2. PICK x \in Procesos : x = pide
      BY <1>0, <2>1
    <2>3. PICK m \in Modulos : m = hallada
      BY <1>0, <2>1
    <2> DEFINE s == espera[m]
               r == Append(s, x)
    <2>4. /\ s \in Seq(Procesos) /\ Len(s) \in Nat /\ DOMAIN s = 1..Len(s) /\ DOMAIN r = 1..(Len(s) + 1)
          /\ \A i \in 1..Len(s) : r[i] = s[i]
          /\ r[Len(s) + 1] = x
      BY <1>0
    <2>5. espera'[m] = r /\ \A n \in Modulos \ {m} : espera'[n] = espera[n]
      BY <1>0, <2>1, <2>2, <2>3
    <2>6. /\ \A i, j \in DOMAIN s : s[i] = s[j] => i = j
          /\ \A p : Esperando(p, m) <=> \E k \in DOMAIN s : s[k] = p
          /\ Ubicado(x) /\ Pidiendo(x)
      BY <2>1, <2>2 DEF Ubicados, UnaVez, Esperando, Pidiendo
    <2>7. ~Esperando(x, m)
      BY <2>6 DEF Ubicado
    <2> HIDE DEF s, r
    <2>8. \A n \in Modulos : UnaVez(n)'
      <3>1. \A i, j \in DOMAIN r : r[i] = r[j] => i = j
        BY <2>4, <2>6, <2>7
      <3> QED BY <2>5, <3>1 DEF UnaVez, Ubicados
    <2>9. \A p : (\E k \in DOMAIN r : r[k] = p) <=> (\E k \in DOMAIN s : s[k] = p) \/ p = x
      BY <2>4
    <2>10. /\ \A p : Esperando(p, m)' <=> Esperando(p, m) \/ p = x
           /\ \A p : \A n \in Modulos \ {m} : Esperando(p, n)' <=> Esperando(p, n)
           /\ \A p, t : Atendido(p, t)' <=> Atendido(p, t)
           /\ \A p : ~Pidiendo(p)' /\ (Pidiendo(p) <=> p = x)
      BY <2>1, <2>2, <2>5, <2>6, <2>9 DEF Esperando, Atendido, Pidiendo
    <2>11. ASSUME NEW p \in Procesos PROVE Ubicado(p)'
      <3>1. CASE p # x
        BY <2>1, <2>10, <3>1, UbicadoIgual DEF Ubicados
      <3>2. CASE p = x
        BY <2>1, <2>6, <2>10, <3>2 DEF Ubicado
      <3> QED BY <3>1, <3>2
    <2> QED BY <2>8, <2>11 DEF Ubicados
  <1> QED BY <1>1, <1>2, <1>3, <1>4 DEF HiloCpu

LEMMA UbicadosInductivos == InvTipo /\ Ubicados /\ [Next]_vars => Ubicados'
  <1> SUFFICES ASSUME InvTipo, Ubicados, [Next]_vars PROVE Ubicados'
    OBVIOUS
  <1>1. CASE HiloCon
    BY <1>1, UbicadosQuietos
       DEF HiloCon, ConAcepta, ConBusca, ConAgrega, ConPublica, ConResponde, ConCrea, Pidiendo,
           vCpu, vColas, vHilos, vPid
  <1>2. ASSUME NEW m \in Modulos, Modulo(m) \/ SeVa(m) \/ \E n \in Nombres : Enciende(m, n)
        PROVE  Ubicados'
    <2>1. UNCHANGED vKernel
      BY <1>2 DEF Modulo, Confirma, Atiende, Concluye, Delira, SeVa, Enciende
    <2> QED BY <2>1, UbicadosQuietos DEF vKernel, vCpu, vColas, vHilos, vPid, Pidiendo
  <1>3. CASE UNCHANGED vars
    BY <1>3, UbicadosQuietos DEF vars, vCpu, vColas, vHilos, vPid, Pidiendo
  <1> QED BY <1>1, <1>2, <1>3, UbicadosHilo, UbicadosCpu DEF Next

(* A set all of whose elements are equal.                                  *)
LEMMA ALoSumoUno ==
    ASSUME NEW S, \A x, y \in S : x = y
    PROVE  Cardinality(S) = IF S = {} THEN 0 ELSE 1
  <1>1. CASE S = {}
    BY <1>1, FS_EmptySet
  <1>2. ASSUME NEW x \in S PROVE Cardinality(S) = 1
    <2>1. S = {x}
      BY <1>2
    <2> QED BY <2>1, FS_Singleton
  <1> QED BY <1>1, <1>2

LEMMA UbicadosEnUnLugar == Ubicados => UnSoloLugar
  <1> SUFFICES ASSUME Ubicados, NEW p \in Procesos
               PROVE  Cardinality(Lugares(p)) = IF estado[p] = "bloqueado" THEN 1 ELSE 0
    BY DEF UnSoloLugar
  <1> DEFINE A == IF pide = p /\ pcCpu \in {"busca", "encola"} THEN {NULO} ELSE {}
             E(m) == {<<m, i>> : i \in {k \in DOMAIN espera[m] : espera[m][k] = p}}
             B == UNION {E(m) : m \in Modulos}
             C == {t \in Modulos : toma[t] = p}
  <1>1. Lugares(p) = A \cup B \cup C
    BY DEF Lugares
  <1>2. Ubicado(p) /\ \A m \in Modulos : UnaVez(m)
    BY DEF Ubicados
  <1>3. \A x \in A : Pidiendo(p) /\ x = NULO
    BY DEF Pidiendo
  <1>4. ASSUME NEW x \in B
        PROVE  \E m \in Modulos : \E i \in DOMAIN espera[m] :
                  x = <<m, i>> /\ espera[m][i] = p /\ Esperando(p, m)
    BY DEF Esperando
  <1>5. \A x \in C : x \in Modulos /\ Atendido(p, x)
    BY DEF Atendido
  <1>6. Pidiendo(p) => NULO \in A
    BY DEF Pidiendo
  <1>7. ASSUME NEW m \in Modulos, Esperando(p, m) PROVE B # {}
    <2>1. PICK i \in DOMAIN espera[m] : espera[m][i] = p
      BY <1>7 DEF Esperando
    <2>2. <<m, i>> \in E(m)
      BY <2>1
    <2> HIDE DEF E
    <2> QED BY <2>2
  <1>8. \A t \in Modulos : Atendido(p, t) => t \in C
    BY DEF Atendido
  <1> HIDE DEF A, B, C
  <1>9. Lugares(p) = {} <=> estado[p] # "bloqueado"
    BY <1>1, <1>2, <1>3, <1>4, <1>5, <1>6, <1>7, <1>8 DEF Ubicado
  <1>10. ASSUME NEW x \in B, NEW y \in B PROVE x = y
    <2>1. PICK m \in Modulos : \E i \in DOMAIN espera[m] :
                                  x = <<m, i>> /\ espera[m][i] = p /\ Esperando(p, m)
      BY <1>4
    <2>2. PICK n \in Modulos : \E i \in DOMAIN espera[n] :
                                  y = <<n, i>> /\ espera[n][i] = p /\ Esperando(p, n)
      BY <1>4
    <2>3. m = n
      BY <1>2, <2>1, <2>2 DEF Ubicado
    <2> QED BY <1>2, <2>1, <2>2, <2>3 DEF UnaVez
  <1>11. ASSUME NEW x \in Lugares(p), NEW y \in Lugares(p) PROVE x = y
    <2>1. A # {} => B = {} /\ C = {}
      BY <1>2, <1>3, <1>4, <1>5 DEF Ubicado
    <2>2. B # {} => C = {}
      BY <1>2, <1>4, <1>5 DEF Ubicado
    <2>3. \A u, v \in C : u = v
      BY <1>2, <1>5 DEF Ubicado
    <2> QED BY <1>1, <1>3, <1>10, <2>1, <2>2, <2>3
  <1> QED BY <1>9, <1>11, ALoSumoUno

(* A blocked process is being queued, or in one list, or with one thread,  *)
(* and only a blocked one is: whatever list the search of the name finds   *)
(* and however many threads serve it, no request is duplicated or dropped. *)
THEOREM UnSoloLugarSiempre == Spec => []UnSoloLugar
  BY TipoInicial, TipoInductivo, UbicadosIniciales, UbicadosInductivos, UbicadosEnUnLugar, PTL DEF Spec

-----------------------------------------------------------------------------
(* Each request with the interface it named.                               *)

(* nombre_IO has the name the thread that uses it wrote, and the infoIO of *)
(* the list the name of its module.                                        *)
NombresPropios ==
    /\ DOMAIN nombreDe = Modulos /\ DOMAIN pidio = Procesos
    /\ pcCon \in {"busca", "agrega"} => nombreIO = Texto(nombre[nueva], nueva) /\ pcCpu = "recibe"
    /\ pcCpu # "recibe" => nombreIO = Texto(pidio[pide], pide)
    /\ \A m \in Modulos : m \in ToSet(lista) \/ (nueva = m /\ pcCon = "publica")
                             => nombreDe[m] = Texto(nombre[m], m)

(* A request that is somewhere is where its program asked for.             *)
PedidosPropios ==
    /\ pcCpu = "encola" => pidio[pide] = nombre[hallada]
    /\ \A p \in Procesos : \A m \in Modulos : Esperando(p, m) => pidio[p] = nombre[m]
    /\ \A t \in Modulos : toma[t] \in Procesos => pidio[toma[t]] = nombre[io[t]]

SinCruce == ~cruce => NombresPropios /\ PedidosPropios

LEMMA SinCruceInicial == Init => SinCruce
  BY NuloAssumption DEF Init, SinCruce, NombresPropios, PedidosPropios, Esperando, ToSet

(* The names of the interfaces of the list, and of those where somebody    *)
(* waits, do not change.                                                   *)
LEMMA NombreFijo ==
    ASSUME InvTipo, NEW m \in Modulos,
           Modulo(m) \/ SeVa(m) \/ \E n \in Nombres : Enciende(m, n)
    PROVE  /\ \A k \in Modulos : k \in ToSet(lista) \/ nueva = k => nombre'[k] = nombre[k]
           /\ UNCHANGED vKernel
  <1>1. \A k \in Modulos : k \in ToSet(lista) \/ nueva = k => modulo[k] # "apagado"
    BY DEF InvTipo, Marcha
  <1>2. nombre \in [Modulos -> Nombres \cup {NULO}]
    BY DEF InvTipo, TypeOK
  <1> QED BY <1>1, <1>2 DEF Modulo, Confirma, Atiende, Concluye, Delira, SeVa, Enciende

LEMMA SinCruceModulo ==
    ASSUME InvTipo, SinCruce, NEW m \in Modulos,
           Modulo(m) \/ SeVa(m) \/ \E n \in Nombres : Enciende(m, n)
    PROVE  SinCruce'
  <1>1. /\ \A k \in Modulos : k \in ToSet(lista) \/ nueva = k => nombre'[k] = nombre[k]
        /\ UNCHANGED <<pcCon, nueva, pcCpu, pide, hallada, nombreIO, nombreDe, cruce, lista, espera,
                       io, toma, pidio>>
    BY NombreFijo DEF vKernel, vCon, vCpu, vNombre, vColas, vHilos, vPid
  <1>2. pcCon \in {"busca", "agrega"} => nueva \in Modulos
    BY DEF InvTipo, TypeOK, Marcha
  <1>3. pcCpu = "encola" => hallada \in ToSet(lista)
    BY DEF InvTipo, Marcha
  <1>6. ToSet(lista) \subseteq Modulos
    BY DEF InvTipo, TypeOK, ToSet
  <1>7. \A t \in Modulos : toma[t] \in Procesos => io[t] \in ToSet(lista)
    <2>1. \A t \in Modulos : toma[t] # NULO => pc[t] \notin {"no", "nace"}
      BY DEF InvTipo, Marcha
    <2>2. \A t \in Modulos : pc[t] \notin {"no", "nace"} => io[t] \in ToSet(lista)
      BY DEF InvTipo, TypeOK
    <2> QED BY <2>1, <2>2, NuloAssumption
  <1>8. \A p \in Procesos : \A k \in Modulos : Esperando(p, k) => k \in ToSet(lista)
    <2>1. \A k \in Modulos : espera[k] # <<>> => k \in ToSet(lista)
      BY DEF InvTipo, Marcha
    <2>2. \A k \in Modulos : espera[k] \in Seq(Procesos)
      BY DEF InvTipo, TypeOK
    <2> QED BY <2>1, <2>2 DEF Esperando
  <1>4. NombresPropios => NombresPropios'
    BY <1>1, <1>2 DEF NombresPropios
  <1>5. PedidosPropios => PedidosPropios'
    BY <1>1, <1>3, <1>6, <1>7, <1>8 DEF PedidosPropios, Esperando
  <1> QED BY <1>1, <1>4, <1>5 DEF SinCruce

LEMMA SinCruceCon == ASSUME InvTipo, SinCruce, HiloCon PROVE SinCruce'
  <1> SUFFICES ASSUME ~cruce' PROVE NombresPropios' /\ PedidosPropios'
    BY DEF SinCruce
  <1>1. ~cruce
    BY DEF HiloCon, ConAcepta, ConBusca, ConAgrega, ConPublica, ConResponde, ConCrea, vNombre
  <1>2. NombresPropios /\ PedidosPropios
    BY <1>1 DEF SinCruce
  <1>3. PedidosPropios'
    <2>1. UNCHANGED <<pcCpu, pide, hallada, nombre, espera, io, toma, pidio>>
      BY DEF HiloCon, ConAcepta, ConBusca, ConAgrega, ConPublica, ConResponde, ConCrea,
             vModulo, vCpu, vColas, vHilos, vPid
    <2> QED BY <1>2, <2>1 DEF PedidosPropios, Esperando
  <1>4. NombresPropios'
    <2>0. /\ lista \in Seq(Modulos) /\ nueva \in Modulos \cup {NULO} /\ NULO \notin Modulos
          /\ pcCon # "acepta" => nueva \in Modulos
      BY NuloAssumption DEF InvTipo, TypeOK, Marcha
    <2>1. ASSUME NEW m \in Modulos, ConAcepta(m) PROVE NombresPropios'
      <3>1. /\ pcCpu = "recibe" /\ pcCpu' = pcCpu /\ nueva' = m /\ pcCon' = "busca"
            /\ nombreIO' = Texto(nombre[m], m) /\ UNCHANGED <<nombre, nombreDe, lista, pidio>>
        BY <2>1 DEF ConAcepta, UsaNombreCpu, vModulo, vCpu, vPid
      <3> QED BY <1>2, <3>1 DEF NombresPropios
    <2>2. CASE ConBusca
      <3>1. /\ pcCon = "busca" /\ pcCon' \in {"agrega", "crea"}
            /\ UNCHANGED <<pcCpu, pide, pidio, nueva, nombreIO, nombre, nombreDe, lista>>
        BY <2>2 DEF ConBusca, vCpu, vPid
      <3> QED BY <1>2, <3>1 DEF NombresPropios
    <2>3. CASE ConAgrega
      <3>1. /\ pcCon = "agrega" /\ pcCon' = "publica" /\ nueva \in Modulos
            /\ nombreDe' = [nombreDe EXCEPT ![nueva] = nombreIO]
            /\ UNCHANGED <<pcCpu, pide, pidio, nueva, nombreIO, nombre, lista>>
        BY <2>0, <2>3 DEF ConAgrega, vModulo, vCpu, vPid
      <3>2. nombreIO = Texto(nombre[nueva], nueva) /\ pcCpu = "recibe" /\ DOMAIN nombreDe = Modulos
        BY <1>2, <3>1 DEF NombresPropios
      <3> QED BY <1>2, <3>1, <3>2 DEF NombresPropios
    <2>4. CASE ConPublica
      <3>1. /\ pcCon = "publica" /\ pcCon' = "responde" /\ nueva \in Modulos
            /\ UNCHANGED <<pcCpu, pide, pidio, nueva, nombreIO, nombre, nombreDe>>
            /\ ToSet(lista') = ToSet(lista) \cup {nueva}
        BY <2>0, <2>4, AlFinal DEF ConPublica, vModulo, vCpu, vNombre, vPid
      <3> QED BY <1>2, <3>1 DEF NombresPropios
    <2>5. CASE ConResponde \/ ConCrea
      <3>1. /\ pcCon' \in {"crea", "acepta"}
            /\ UNCHANGED <<pcCpu, pide, pidio, nombreIO, nombre, nombreDe, lista>>
        BY <2>5 DEF ConResponde, ConCrea, vModulo, vCpu, vNombre, vPid
      <3> QED BY <1>2, <3>1 DEF NombresPropios
    <2> QED BY <2>1, <2>2, <2>3, <2>4, <2>5 DEF HiloCon
  <1> QED BY <1>3, <1>4

LEMMA SinCruceHilo ==
    ASSUME InvTipo, SinCruce, NEW t \in Modulos, Hilo(t)
    PROVE  SinCruce'
  <1>0. /\ UNCHANGED <<pcCon, nueva, pcCpu, pide, hallada, nombreIO, nombreDe, cruce, lista, pidio, nombre>>
    BY DEF Hilo, HiloNace, HiloEspera, HiloSaca, HiloInicia, HiloManda, HiloRecibe,
           vModulo, vCon, vCpu, vNombre, vPid
  <1>1. NombresPropios => NombresPropios'
    BY <1>0 DEF NombresPropios
  <1>2. /\ espera \in [Modulos -> Seq(Procesos)] /\ toma \in [Modulos -> Procesos \cup {NULO}]
        /\ io \in [Modulos -> Modulos \cup {NULO}]
    BY DEF InvTipo, TypeOK
  <1>4. pc[t] \notin {"no", "nace"} => io[t] \in Modulos
    BY DEF InvTipo, TypeOK, ToSet
  <1>5. pc[t] = "nace" => toma[t] = NULO
    BY DEF InvTipo, Marcha
  <1>3. PedidosPropios => PedidosPropios'
    <2> SUFFICES ASSUME PedidosPropios PROVE PedidosPropios'
      OBVIOUS
    <2>1. CASE HiloNace(t)
      <3>1. /\ espera' = espera /\ toma' = toma /\ \A u \in Modulos \ {t} : io'[u] = io[u]
            /\ toma[t] \notin Procesos
        BY <1>2, <1>5, <2>1, NuloAssumption DEF HiloNace, vColas
      <3> QED BY <1>0, <3>1 DEF PedidosPropios, Esperando
    <2>2. CASE HiloEspera(t) \/ HiloInicia(t) \/ HiloManda(t)
      BY <1>0, <2>2 DEF HiloEspera, HiloInicia, HiloManda, vColas, PedidosPropios, Esperando
    <2>3. CASE HiloRecibe(t)
      <3>1. /\ espera' = espera /\ io' = io /\ \A u \in Modulos \ {t} : toma'[u] = toma[u]
            /\ toma'[t] \notin Procesos
        BY <1>2, <2>3, NuloAssumption DEF HiloRecibe, vColas
      <3> QED BY <1>0, <3>1 DEF PedidosPropios, Esperando
    <2>4. CASE HiloSaca(t)
      <3>1. CASE espera[io[t]] = <<>>
        BY <1>0, <2>4, <3>1 DEF HiloSaca, vHilos, PedidosPropios, Esperando
      <3>2. CASE espera[io[t]] # <<>>
        <4>1. PICK m \in Modulos : m = io[t]
          BY <1>4, <2>4 DEF HiloSaca
        <4> DEFINE s == espera[m]
        <4>2. /\ Head(s) = s[1] /\ 1 \in DOMAIN s /\ Head(s) \in Procesos
              /\ \A i \in DOMAIN Tail(s) : Tail(s)[i] = s[i + 1] /\ i + 1 \in DOMAIN s
          BY <1>2, <3>2, <4>1, Primero
        <4>3. /\ espera'[m] = Tail(s) /\ \A n \in Modulos \ {m} : espera'[n] = espera[n]
              /\ toma'[t] = Head(s) /\ \A u \in Modulos \ {t} : toma'[u] = toma[u]
              /\ io' = io
          BY <1>2, <2>4, <3>2, <4>1 DEF HiloSaca
        <4>4. \A p : Esperando(p, m) <=> \E k \in DOMAIN s : s[k] = p
          BY DEF Esperando
        <4> HIDE DEF s
        <4>5. \A p : Esperando(p, m)' => Esperando(p, m)
          BY <4>2, <4>3, <4>4 DEF Esperando
        <4>6. \A p : \A n \in Modulos \ {m} : Esperando(p, n)' <=> Esperando(p, n)
          BY <4>3 DEF Esperando
        <4>7. Esperando(toma'[t], m) /\ toma'[t] \in Procesos
          BY <4>2, <4>3, <4>4
        <4> QED BY <1>0, <4>1, <4>3, <4>5, <4>6, <4>7 DEF PedidosPropios
      <3> QED BY <3>1, <3>2
    <2> QED BY <2>1, <2>2, <2>3, <2>4 DEF Hilo
  <1> QED BY <1>0, <1>1, <1>3 DEF SinCruce

LEMMA SinCruceCpu ==
    ASSUME InvTipo, Ubicados, SinCruce,
           HiloCpu \/ \E p \in Procesos : Vuelve(p) \/ \E n \in Nombres : Pide(p, n)
    PROVE  SinCruce'
  <1> SUFFICES ASSUME ~cruce' PROVE NombresPropios' /\ PedidosPropios'
    BY DEF SinCruce
  <1>1. ~cruce
    BY DEF HiloCpu, PideBusca, PideEncola, PideAvisa, PideLibera, Vuelve, Pide, vNombre
  <1>2. NombresPropios /\ PedidosPropios
    BY <1>1 DEF SinCruce
  <1>3. UNCHANGED <<pcCon, nueva, nombre, lista, io, toma>>
    BY DEF HiloCpu, PideBusca, PideEncola, PideAvisa, PideLibera, Vuelve, Pide, vModulo, vCon, vHilos
  <1>4. /\ lista \in Seq(Modulos) /\ nueva \in Modulos \cup {NULO}
        /\ espera \in [Modulos -> Seq(Procesos)] /\ pide \in Procesos \cup {NULO}
    BY DEF InvTipo, TypeOK
  <1>5. /\ pcCpu # "recibe" => pide \in Procesos
        /\ pcCon = "publica" => nueva \in Modulos
    BY <1>4 DEF InvTipo, Marcha
  <1>6. ToSet(lista) \subseteq Modulos
    BY <1>4 DEF ToSet
  <1>7. ASSUME NEW p \in Procesos, Vuelve(p) PROVE NombresPropios' /\ PedidosPropios'
    <2>1. UNCHANGED <<pcCpu, pide, hallada, nombreIO, nombreDe, espera, pidio>>
      BY <1>7 DEF Vuelve, vCpu, vNombre, vColas, vPid
    <2> QED BY <1>2, <1>3, <2>1 DEF NombresPropios, PedidosPropios, Esperando
  <1>8. ASSUME NEW p \in Procesos, NEW n \in Nombres, Pide(p, n) PROVE NombresPropios' /\ PedidosPropios'
    <2>1. /\ pcCpu' = "busca" /\ pide' = p /\ nombreIO' = Texto(n, p) /\ pidio' = [pidio EXCEPT ![p] = n]
          /\ ~UsaNombreCon /\ UNCHANGED <<nombreDe, espera>> /\ estado[p] = "libre"
      BY <1>8 DEF Pide, vColas
    <2>2. \A m \in Modulos : ~Esperando(p, m) /\ ~Atendido(p, m)
      BY <2>1 DEF Ubicados, Ubicado
    <2>3. /\ DOMAIN pidio' = Procesos /\ pidio'[p] = n
          /\ \A q \in Procesos \ {p} : pidio'[q] = pidio[q]
      BY <1>2, <2>1 DEF NombresPropios
    <2>4. NombresPropios'
      BY <1>2, <1>3, <2>1, <2>3 DEF NombresPropios, UsaNombreCon
    <2>5. PedidosPropios'
      BY <1>2, <1>3, <2>1, <2>2, <2>3 DEF PedidosPropios, Esperando, Atendido
    <2> QED BY <2>4, <2>5
  <1>9. CASE PideBusca
    <2>1. /\ pcCpu = "busca" /\ pcCpu' \in {"libera", "encola"} /\ hallada' \in Hallazgos
          /\ pcCpu' = "encola" => hallada' # NULO
          /\ UNCHANGED <<pide, nombreIO, nombreDe, espera, pidio>>
      BY <1>9 DEF PideBusca, vNombre, vColas
    <2>2. NombresPropios'
      BY <1>2, <1>3, <2>1 DEF NombresPropios
    <2>3. ASSUME hallada' # NULO PROVE pidio[pide] = nombre[hallada']
      <3>1. PICK i \in DOMAIN lista : hallada' = lista[i] /\ Acaso(i)
        BY <2>1, <2>3 DEF Hallazgos
      <3>2. PICK m \in Modulos : m = lista[i] /\ m \in ToSet(lista)
        BY <1>4, <3>1 DEF ToSet
      <3>3. nombreDe[m] = Texto(nombre[m], m) /\ nombreIO = Texto(pidio[pide], pide)
        BY <1>2, <2>1, <3>2 DEF NombresPropios
      <3>4. nombreDe[m] # Basura /\ nombreIO # Basura
        BY <1>5, <2>1, <3>3, NuloAssumption DEF Basura, Texto
      <3>5. nombreDe[m].texto = nombreIO.texto
        BY <3>1, <3>2, <3>4 DEF Acaso, Seguro
      <3> QED BY <3>1, <3>2, <3>3, <3>5 DEF Texto
    <2>4. PedidosPropios'
      BY <1>2, <1>3, <2>1, <2>3 DEF PedidosPropios, Esperando
    <2> QED BY <2>2, <2>4
  <1>10. CASE PideEncola
    <2>1. /\ pcCpu = "encola" /\ pcCpu' = "avisa" /\ UNCHANGED <<pide, nombreIO, nombreDe, pidio>>
          /\ espera' = [espera EXCEPT ![hallada] = Append(@, pide)]
      BY <1>10 DEF PideEncola, vNombre, vPid
    <2>2. PICK m \in Modulos : m = hallada
      BY <1>6, <2>1 DEF InvTipo, Marcha
    <2>3. NombresPropios'
      BY <1>2, <1>3, <2>1 DEF NombresPropios
    <2>4. pidio[pide] = nombre[m]
      BY <1>2, <2>1, <2>2 DEF PedidosPropios
    <2>5. /\ espera'[m] = Append(espera[m], pide)
          /\ \A k \in Modulos \ {m} : espera'[k] = espera[k]
      BY <1>4, <2>1, <2>2
    <2>6. \A k \in DOMAIN espera'[m] : espera'[m][k] = pide \/ (k \in DOMAIN espera[m] /\ espera'[m][k] = espera[m][k])
      BY <1>4, <1>5, <2>1, <2>5
    <2>7. \A p \in Procesos : \A k \in Modulos : Esperando(p, k)' => Esperando(p, k) \/ (k = m /\ p = pide)
      BY <2>5, <2>6 DEF Esperando
    <2>8. PedidosPropios'
      BY <1>2, <1>3, <2>1, <2>4, <2>7 DEF PedidosPropios
    <2> QED BY <2>3, <2>8
  <1>11. CASE PideAvisa
    <2>1. /\ pcCpu = "avisa" /\ pcCpu' = "libera"
          /\ UNCHANGED <<pide, hallada, nombreIO, nombreDe, espera, pidio>>
      BY <1>11 DEF PideAvisa, vNombre, vPid
    <2> QED BY <1>2, <1>3, <2>1 DEF NombresPropios, PedidosPropios, Esperando
  <1>12. CASE PideLibera
    <2>1. pcCpu = "libera" /\ pcCpu' = "recibe" /\ UNCHANGED <<espera, pidio>>
      BY <1>12 DEF PideLibera, vColas, vPid
    <2>2. PedidosPropios'
      BY <1>2, <1>3, <2>1 DEF PedidosPropios, Esperando
    <2>3. pcCon \notin {"busca", "agrega"} /\ nombreIO = Texto(pidio[pide], pide) /\ pide \in Procesos
      BY <1>2, <1>5, <2>1 DEF NombresPropios
    <2>4. \A m \in Modulos : Texto(nombre[m], m) # nombreIO
      BY <2>3, DuenosAssumption DEF Texto
    <2>5. /\ DOMAIN nombreDe' = Modulos
          /\ \A m \in Modulos : nombreDe[m] # nombreIO => nombreDe'[m] = nombreDe[m]
      BY <1>2, <1>12 DEF PideLibera, vNombre, NombresPropios
    <2>6. NombresPropios'
      BY <1>2, <1>3, <2>1, <2>3, <2>4, <2>5 DEF NombresPropios
    <2> QED BY <2>2, <2>6
  <1> QED BY <1>7, <1>8, <1>9, <1>10, <1>11, <1>12 DEF HiloCpu

LEMMA SinCruceQuieto == ASSUME SinCruce, UNCHANGED vars PROVE SinCruce'
  BY DEF SinCruce, NombresPropios, PedidosPropios, Esperando, vars, vModulo, vCon, vCpu, vNombre,
         vColas, vHilos, vPid

LEMMA SinCruceInductivo == InvTipo /\ Ubicados /\ SinCruce /\ [Next]_vars => SinCruce'
  BY SinCruceModulo, SinCruceCon, SinCruceHilo, SinCruceCpu, SinCruceQuieto DEF Next

LEMMA CadaUnoConElSuyo == InvTipo /\ SinCruce => EnSuInterfaz
  <1> SUFFICES ASSUME InvTipo, PedidosPropios PROVE
        \A m \in Modulos :
            /\ \A i \in DOMAIN espera[m] : pidio[espera[m][i]] = nombre[m]
            /\ \A t \in HilosDe(m) : toma[t] # NULO => pidio[toma[t]] = nombre[m]
    BY DEF SinCruce, EnSuInterfaz
  <1> TAKE m \in Modulos
  <1>1. espera[m] \in Seq(Procesos) /\ toma \in [Modulos -> Procesos \cup {NULO}]
    BY DEF InvTipo, TypeOK
  <1>2. ASSUME NEW i \in DOMAIN espera[m] PROVE pidio[espera[m][i]] = nombre[m]
    <2>1. espera[m][i] \in Procesos /\ Esperando(espera[m][i], m)
      BY <1>1 DEF Esperando
    <2> QED BY <2>1 DEF PedidosPropios
  <1>3. ASSUME NEW t \in HilosDe(m), toma[t] # NULO PROVE pidio[toma[t]] = nombre[m]
    BY <1>1, <1>3 DEF HilosDe, PedidosPropios
  <1> QED BY <1>2, <1>3

(* While nobody connects in the middle of a request, every request is with *)
(* the interface its program named: the buffer that is freed is not the    *)
(* one of an interface of the list, and no name there changes.             *)
THEOREM EnSuInterfazSiempre == Spec => []EnSuInterfaz
  BY TipoInicial, TipoInductivo, UbicadosIniciales, UbicadosInductivos, SinCruceInicial, SinCruceInductivo,
     CadaUnoConElSuyo, PTL DEF Spec

-----------------------------------------------------------------------------
(* The dialogue of a module with its thread.                               *)

(* conectar_interfaces answered m: the first it reads is that answer.      *)
Contestado(m) == pc[m] # "no" \/ (nueva = m /\ pcCon = "crea")

(* How many answers to its connection m has not read.                      *)
Aviso(m) == IF modulo[m] = "conecta" /\ Contestado(m) THEN 1 ELSE 0

(* A refused module is not in the list.                                    *)
Confirmado(m) ==
    /\ ~Contestado(m) => modulo[m] \in {"apagado", "conecta"}
    /\ Aviso(m) = 1 =>
          /\ Len(canal[m]) > 0 /\ canal[m][1].op \in {"ESTABA", "NO_ESTABA"}
          /\ canal[m][1].op = "ESTABA" => m \notin ToSet(lista)

(* A file system is sent the pid of the last context instead.              *)
Dato(m, d) == d \in Procesos \cup {NULO} /\ (m \notin Dialfs => d = toma[m])

(* The steps of an operation.                                              *)
Callado(m) == Len(canal[m]) = Aviso(m) /\ modulo[m] # "ocupado" /\ respuestas[m] = <<>>

Iniciado(m) ==
    /\ Len(canal[m]) = Aviso(m) + 1 /\ canal[m][Aviso(m) + 1].op = "INICIAR"
    /\ modulo[m] \notin {"ocupado", "salio"} /\ respuestas[m] = <<>>

Enviado(m) ==
    /\ Len(canal[m]) = Aviso(m) + 2
    /\ canal[m][Aviso(m) + 1].op = "INICIAR" /\ canal[m][Aviso(m) + 2].op = "DATOS"
    /\ Dato(m, canal[m][Aviso(m) + 2].pid)
    /\ modulo[m] \notin {"ocupado", "salio"} /\ respuestas[m] = <<>>

EnCurso(m) ==
    modulo[m] = "ocupado" /\ Len(canal[m]) = 0 /\ respuestas[m] = <<>> /\ Dato(m, haciendo[m])

Respondido(m) ==
    /\ Len(canal[m]) = Aviso(m) /\ modulo[m] # "ocupado"
    /\ Len(respuestas[m]) = 1 /\ Dato(m, respuestas[m][1])

Ido(m) == modulo[m] = "salio" /\ Callado(m)

(* The step of the operation is the one the thread is at.                  *)
EnPaso(m) ==
    IF io[m] # m THEN Callado(m)
    ELSE IF pc[m] = "manda" THEN Iniciado(m) \/ Ido(m)
    ELSE IF pc[m] = "recibe" THEN Enviado(m) \/ EnCurso(m) \/ Respondido(m) \/ Ido(m)
    ELSE Callado(m)

Dialogo(m) ==
    /\ modulo[m] # "roto"
    /\ modulo[m] # "ocupado" => haciendo[m] = NULO
    /\ Confirmado(m)
    /\ EnPaso(m)

Dialogos == \A m \in Modulos : HilosDe(m) \subseteq {m} => Dialogo(m)

LEMMA DialogosIniciales == Init => Dialogos
  <1> SUFFICES ASSUME Init, NEW m \in Modulos PROVE Dialogo(m)
    BY DEF Dialogos
  <1>1. /\ modulo[m] = "apagado" /\ haciendo[m] = NULO /\ canal[m] = <<>> /\ respuestas[m] = <<>>
        /\ pc[m] = "no" /\ io[m] = NULO /\ nueva = NULO
    BY DEF Init
  <1>2. ~Contestado(m) /\ Aviso(m) = 0
    BY <1>1, NuloAssumption DEF Contestado, Aviso
  <1> QED BY <1>1, <1>2, NuloAssumption DEF Dialogo, Confirmado, EnPaso, Callado

LEMMA DialogoIgual ==
    ASSUME NEW m \in Modulos, Dialogo(m),
           modulo'[m] = modulo[m], haciendo'[m] = haciendo[m], canal'[m] = canal[m],
           respuestas'[m] = respuestas[m], pc'[m] = pc[m], io'[m] = io[m], toma'[m] = toma[m],
           Contestado(m)' <=> Contestado(m),
           Contestado(m) /\ m \in ToSet(lista') => m \in ToSet(lista)
    PROVE  Dialogo(m)'
  <1>1. Aviso(m)' = Aviso(m)
    BY DEF Aviso
  <1>2. Confirmado(m)'
    <2>1. Confirmado(m)
      BY DEF Dialogo
    <2>2. Aviso(m) = 1 => Contestado(m)
      BY DEF Aviso
    <2> QED BY <1>1, <2>1, <2>2 DEF Confirmado
  <1>3. EnPaso(m)'
    <2>1. EnPaso(m)
      BY DEF Dialogo
    <2>2. /\ Callado(m)' <=> Callado(m)
          /\ Iniciado(m)' <=> Iniciado(m)
          /\ Ido(m)' <=> Ido(m)
      BY <1>1 DEF Callado, Iniciado, Ido
    <2>3. \A d : Dato(m, d)' <=> Dato(m, d)
      BY DEF Dato
    <2>4. /\ Dato(m, canal[m][Aviso(m) + 2].pid)' <=> Dato(m, canal[m][Aviso(m) + 2].pid)
          /\ Dato(m, haciendo[m])' <=> Dato(m, haciendo[m])
          /\ Dato(m, respuestas[m][1])' <=> Dato(m, respuestas[m][1])
      BY <1>1 DEF Dato
    <2>5. /\ Enviado(m)' <=> Enviado(m)
          /\ EnCurso(m)' <=> EnCurso(m)
          /\ Respondido(m)' <=> Respondido(m)
      BY <1>1, <2>4 DEF Enviado, EnCurso, Respondido
    <2> QED BY <2>1, <2>2, <2>5 DEF EnPaso
  <1> QED BY <1>2, <1>3 DEF Dialogo

(* Nobody leaves an interface for another.                                 *)
LEMMA SoloDesdeAntes ==
    ASSUME InvTipo, Next, NEW m \in Modulos, HilosDe(m)' \subseteq {m}
    PROVE  HilosDe(m) \subseteq {m}
  <1>1. \A t \in Modulos : io[t] = m => io'[t] = m
    <2>1. \A t \in Modulos : io[t] = m => pc[t] # "nace"
      BY NuloAssumption DEF InvTipo, Marcha
    <2>2. ASSUME NEW u \in Modulos, HiloNace(u) PROVE \A t \in Modulos : io[t] = m => io'[t] = m
      <3>1. pc[u] = "nace" /\ \A t \in Modulos : t # u => io'[t] = io[t]
        BY <2>2 DEF HiloNace, InvTipo, TypeOK
      <3> QED BY <2>1, <3>1
    <2>3. ASSUME NEW u \in Modulos, Hilo(u), ~HiloNace(u) PROVE io' = io
      BY <2>3 DEF Hilo, HiloEspera, HiloSaca, HiloInicia, HiloManda, HiloRecibe, vHilos
    <2>4. ASSUME NEW u \in Modulos, Modulo(u) \/ SeVa(u) \/ \E n \in Nombres : Enciende(u, n) PROVE io' = io
      BY <2>4 DEF Modulo, Confirma, Atiende, Concluye, Delira, SeVa, Enciende, vKernel, vHilos
    <2>5. CASE HiloCon
      BY <2>5 DEF HiloCon, ConAcepta, ConBusca, ConAgrega, ConPublica, ConResponde, ConCrea, vHilos
    <2>6. CASE HiloCpu \/ \E p \in Procesos : Vuelve(p) \/ \E n \in Nombres : Pide(p, n)
      BY <2>6 DEF HiloCpu, PideBusca, PideEncola, PideAvisa, PideLibera, Vuelve, Pide, vHilos
    <2> QED BY <2>2, <2>3, <2>4, <2>5, <2>6 DEF Next
  <1> QED BY <1>1 DEF HilosDe

LEMMA DialogosCpu ==
    ASSUME Dialogos, HiloCpu \/ \E p \in Procesos : Vuelve(p) \/ \E n \in Nombres : Pide(p, n),
           NEW m \in Modulos, HilosDe(m) \subseteq {m}
    PROVE  Dialogo(m)'
  <1>1. UNCHANGED <<vModulo, vCon, lista, vHilos>>
    BY DEF HiloCpu, PideBusca, PideEncola, PideAvisa, PideLibera, Vuelve, Pide
  <1>2. Dialogo(m)
    BY DEF Dialogos
  <1>3. Contestado(m)' <=> Contestado(m)
    BY <1>1 DEF vCon, vHilos, Contestado
  <1> QED BY <1>1, <1>2, <1>3, DialogoIgual DEF vModulo, vHilos

(* conectar_interfaces answers the module it took, and nobody served it.   *)
LEMMA AvisoEscrito ==
    ASSUME InvTipo, NEW m \in Modulos, Dialogo(m), pcCon # "crea", nueva = m,
           NEW op \in {"ESTABA", "NO_ESTABA"}, op = "ESTABA" => m \notin ToSet(lista),
           canal' = [canal EXCEPT ![nueva] = Append(@, Mensaje(op, NULO))],
           pcCon' = "crea",
           UNCHANGED <<modulo, haciendo, respuestas, nueva, lista, vHilos>>
    PROVE  Dialogo(m)'
  <1>1. pc[m] = "no" /\ io[m] = NULO /\ modulo[m] # "apagado"
    BY DEF InvTipo, Marcha
  <1>2. ~Contestado(m) /\ Aviso(m) = 0
    BY <1>1 DEF Contestado, Aviso
  <1>3. modulo[m] = "conecta" /\ Callado(m) /\ haciendo[m] = NULO
    BY <1>1, <1>2, NuloAssumption DEF Dialogo, Confirmado, EnPaso
  <1>4. canal[m] \in Seq(Mensajes) /\ Len(canal[m]) = 0 /\ respuestas[m] = <<>>
    BY <1>2, <1>3 DEF InvTipo, TypeOK, Mensajes, Callado
  <1>5. canal'[m] = Append(canal[m], Mensaje(op, NULO))
    BY DEF InvTipo, TypeOK
  <1>6. Len(canal'[m]) = 1 /\ canal'[m][1].op = op
    BY <1>4, <1>5 DEF Mensaje
  <1>7. Aviso(m)' = 1 /\ Contestado(m)'
    BY <1>3 DEF Aviso, Contestado
  <1>8. Confirmado(m)'
    BY <1>6, <1>7 DEF Confirmado
  <1>9. Callado(m)'
    BY <1>3, <1>4, <1>6, <1>7 DEF Callado
  <1> QED BY <1>1, <1>3, <1>8, <1>9, NuloAssumption DEF Dialogo, EnPaso, vHilos

LEMMA DialogosCon ==
    ASSUME InvTipo, Dialogos, HiloCon, NEW m \in Modulos, HilosDe(m) \subseteq {m}
    PROVE  Dialogo(m)'
  <1>1. Dialogo(m)
    BY DEF Dialogos
  <1>2. /\ pcCon = "acepta" <=> nueva = NULO
        /\ nueva = m => pc[m] = "no"
        /\ pcCon = "busca" => nueva \notin ToSet(lista)
        /\ m # NULO
    BY NuloAssumption DEF InvTipo, Marcha
  <1>3. /\ lista \in Seq(Modulos) /\ nueva \in Modulos \cup {NULO}
        /\ canal \in [Modulos -> Seq(Mensajes)]
        /\ pc \in [Modulos -> {"no", "nace", "espera", "saca", "inicia", "manda", "recibe"}]
    BY DEF InvTipo, TypeOK, Marcha, Mensajes
  <1>4. ASSUME NEW k \in Modulos, ConAcepta(k) PROVE Dialogo(m)'
    <2>1. UNCHANGED <<vModulo, lista, vHilos>> /\ pcCon = "acepta" /\ pcCon' = "busca"
      BY <1>4 DEF ConAcepta
    <2>2. Contestado(m)' <=> Contestado(m)
      BY <2>1 DEF Contestado, vHilos
    <2> QED BY <1>1, <2>1, <2>2, DialogoIgual DEF vModulo, vHilos
  <1>5. CASE ConBusca
    <2>1. pcCon = "busca" /\ UNCHANGED <<modulo, haciendo, respuestas, nueva, lista, vHilos>>
      BY <1>5 DEF ConBusca
    <2>2. CASE pcCon' = "agrega" /\ UNCHANGED canal
      <3>1. Contestado(m)' <=> Contestado(m)
        BY <2>1, <2>2 DEF Contestado, vHilos
      <3> QED BY <1>1, <2>1, <2>2, <3>1, DialogoIgual DEF vHilos
    <2>3. CASE pcCon' = "crea" /\ canal' = [canal EXCEPT ![nueva] = Append(@, Mensaje("ESTABA", NULO))]
      <3>1. CASE nueva = m
        BY <1>1, <1>2, <2>1, <2>3, <3>1, AvisoEscrito
      <3>2. CASE nueva # m
        <4>1. canal'[m] = canal[m]
          BY <1>3, <2>3, <3>2
        <4>2. Contestado(m)' <=> Contestado(m)
          BY <2>1, <3>2 DEF Contestado, vHilos
        <4> QED BY <1>1, <2>1, <4>1, <4>2, DialogoIgual DEF vHilos
      <3> QED BY <3>1, <3>2
    <2> QED BY <1>5, <2>2, <2>3 DEF ConBusca
  <1>6. CASE ConAgrega
    <2>1. UNCHANGED <<vModulo, nueva, lista, vHilos>> /\ pcCon = "agrega" /\ pcCon' = "publica"
      BY <1>6 DEF ConAgrega
    <2>2. Contestado(m)' <=> Contestado(m)
      BY <2>1 DEF Contestado, vHilos
    <2> QED BY <1>1, <2>1, <2>2, DialogoIgual DEF vModulo, vHilos
  <1>7. CASE ConPublica
    <2>1. /\ UNCHANGED <<vModulo, nueva, vHilos>> /\ pcCon = "publica" /\ pcCon' = "responde"
          /\ lista' = Append(lista, nueva)
      BY <1>7 DEF ConPublica
    <2>2. Contestado(m)' <=> Contestado(m)
      BY <2>1 DEF Contestado, vHilos
    <2>3. nueva = m => ~Contestado(m)
      BY <1>2, <2>1 DEF Contestado
    <2>4. ToSet(lista') = ToSet(lista) \cup {nueva}
      BY <1>2, <1>3, <2>1, AlFinal
    <2> QED BY <1>1, <2>1, <2>2, <2>3, <2>4, DialogoIgual DEF vModulo, vHilos
  <1>8. CASE ConResponde
    <2>1. /\ pcCon = "responde" /\ UNCHANGED <<modulo, haciendo, respuestas, nueva, lista, vHilos>>
          /\ pcCon' = "crea" /\ canal' = [canal EXCEPT ![nueva] = Append(@, Mensaje("NO_ESTABA", NULO))]
      BY <1>8 DEF ConResponde
    <2>2. CASE nueva = m
      BY <1>1, <2>1, <2>2, AvisoEscrito
    <2>3. CASE nueva # m
      <3>1. canal'[m] = canal[m]
        BY <1>3, <2>1, <2>3
      <3>2. Contestado(m)' <=> Contestado(m)
        BY <2>1, <2>3 DEF Contestado, vHilos
      <3> QED BY <1>1, <2>1, <3>1, <3>2, DialogoIgual DEF vHilos
    <2> QED BY <2>2, <2>3
  <1>9. CASE ConCrea
    <2>1. /\ UNCHANGED <<vModulo, lista, io, toma>> /\ pcCon = "crea" /\ pcCon' = "acepta"
          /\ pc' = [pc EXCEPT ![nueva] = "nace"] /\ nueva' = NULO
      BY <1>9 DEF ConCrea
    <2>2. CASE nueva = m
      <3>1. pc'[m] = "nace" /\ Contestado(m) /\ Contestado(m)' /\ pc[m] = "no"
        BY <1>2, <1>3, <2>1, <2>2 DEF Contestado
      <3>2. Aviso(m)' = Aviso(m)
        BY <2>1, <3>1 DEF Aviso, vModulo
      <3>3. Callado(m) /\ Callado(m)'
        BY <1>1, <2>1, <3>1, <3>2 DEF Dialogo, EnPaso, Callado, vModulo
      <3>4. EnPaso(m)'
        BY <3>1, <3>3 DEF EnPaso
      <3> QED BY <1>1, <2>1, <3>1, <3>2, <3>4 DEF Dialogo, Confirmado, vModulo
    <2>3. CASE nueva # m
      <3>1. pc'[m] = pc[m]
        BY <1>3, <2>1, <2>3
      <3>2. Contestado(m)' <=> Contestado(m)
        BY <1>2, <2>1, <2>3, <3>1 DEF Contestado
      <3> QED BY <1>1, <2>1, <3>1, <3>2, DialogoIgual DEF vModulo
    <2> QED BY <2>2, <2>3
  <1> QED BY <1>4, <1>5, <1>6, <1>7, <1>8, <1>9 DEF HiloCon

LEMMA DialogosOtroModulo ==
    ASSUME Dialogos, NEW k \in Modulos, Modulo(k) \/ SeVa(k) \/ \E n \in Nombres : Enciende(k, n),
           InvTipo, NEW m \in Modulos \ {k}, HilosDe(m) \subseteq {m}
    PROVE  Dialogo(m)'
  <1>1. Dialogo(m) /\ m \in Modulos
    BY DEF Dialogos
  <1>2. UNCHANGED <<vCon, lista, vHilos>>
    BY DEF Modulo, Confirma, Atiende, Concluye, Delira, SeVa, Enciende, vKernel
  <1>3. modulo'[m] = modulo[m] /\ haciendo'[m] = haciendo[m]
    BY DEF Modulo, Confirma, Atiende, Concluye, Delira, SeVa, Enciende, InvTipo, TypeOK
  <1>4. canal'[m] = canal[m] /\ respuestas'[m] = respuestas[m]
    BY DEF Modulo, Confirma, Atiende, Concluye, Delira, SeVa, Enciende, InvTipo, TypeOK
  <1>5. Contestado(m)' <=> Contestado(m)
    BY <1>2 DEF Contestado, vCon, vHilos
  <1> QED BY <1>1, <1>2, <1>3, <1>4, <1>5, DialogoIgual DEF vHilos

LEMMA DialogosModulo ==
    ASSUME InvTipo, NEW m \in Modulos, Modulo(m) \/ SeVa(m) \/ \E n \in Nombres : Enciende(m, n),
           Dialogo(m)
    PROVE  Dialogo(m)'
  <1>1. /\ modulo[m] = "apagado" => pc[m] = "no" /\ nueva # m
        /\ io[m] # NULO => io[m] \in ToSet(lista)
        /\ pc[m] \in {"no", "nace"} => io[m] = NULO
        /\ m # NULO
    BY NuloAssumption DEF InvTipo, Marcha
  <1>2. /\ canal \in [Modulos -> Seq(Mensajes)] /\ respuestas \in [Modulos -> Seq(Procesos \cup {NULO})]
        /\ haciendo \in [Modulos -> Procesos \cup {NULO}]
        /\ modulo \in [Modulos -> {"apagado", "conecta", "libre", "ocupado", "roto", "salio"}]
    BY DEF InvTipo, TypeOK, Mensajes
  <1>3. UNCHANGED <<vCon, lista, vHilos>>
    BY DEF Modulo, Confirma, Atiende, Concluye, Delira, SeVa, Enciende, vKernel
  <1>4. Contestado(m)' <=> Contestado(m)
    BY <1>3 DEF Contestado, vCon, vHilos
  <1>5. \A d : Dato(m, d) => Dato(m, d)'
    BY <1>3 DEF Dato, vHilos
  <1> DEFINE c == canal[m]
             r == respuestas[m]
  <1>6. c \in Seq(Mensajes) /\ r \in Seq(Procesos \cup {NULO}) /\ Len(c) \in Nat /\ Len(r) \in Nat
    BY <1>2
  <1>7. CASE Confirma(m)
    <2>1. /\ modulo[m] = "conecta" /\ c # <<>> /\ canal'[m] = Tail(c)
          /\ modulo'[m] = IF Head(c).op = "ESTABA" THEN "salio" ELSE "libre"
          /\ haciendo'[m] = haciendo[m] /\ respuestas'[m] = r
      BY <1>2, <1>7 DEF Confirma
    <2>2. Aviso(m)' = 0
      BY <2>1 DEF Aviso
    <2>3. Contestado(m) /\ Aviso(m) = 1
      <3>1. CASE ~Contestado(m)
        <4>1. io[m] # m /\ Aviso(m) = 0
          BY <1>1, <3>1 DEF Contestado, Aviso
        <4>2. Len(c) = 0
          BY <4>1 DEF Dialogo, EnPaso, Callado
        <4> QED BY <1>6, <2>1, <4>2
      <3> QED BY <2>1, <3>1 DEF Aviso
    <2>4. /\ Head(c) = c[1] /\ Len(Tail(c)) = Len(c) - 1
          /\ \A i \in DOMAIN Tail(c) : Tail(c)[i] = c[i + 1]
          /\ DOMAIN Tail(c) = 1..(Len(c) - 1)
      BY <1>6, <2>1
    <2> HIDE DEF c, r
    <2>5. CASE c[1].op = "ESTABA"
      <3>1. io[m] # m
        BY <1>1, <2>3, <2>5 DEF Dialogo, Confirmado, c
      <3>2. Len(c) = 1 /\ r = <<>> /\ haciendo[m] = NULO
        BY <2>1, <2>3, <3>1 DEF Dialogo, EnPaso, Callado, c, r
      <3>3. Callado(m)' /\ modulo'[m] = "salio" /\ haciendo'[m] = NULO
        BY <2>1, <2>2, <2>4, <2>5, <3>2 DEF Callado
      <3>4. Confirmado(m)'
        BY <1>4, <2>2, <2>3 DEF Confirmado
      <3> QED BY <1>3, <3>1, <3>3, <3>4 DEF Dialogo, EnPaso, vHilos
    <2>6. CASE c[1].op # "ESTABA"
      <3>1. modulo'[m] = "libre" /\ haciendo[m] = NULO
        BY <2>1, <2>4, <2>6 DEF Dialogo
      <3>2. Callado(m) => Callado(m)'
        BY <1>6, <2>1, <2>2, <2>3, <2>4, <3>1 DEF Callado, c, r
      <3>3. Iniciado(m) => Iniciado(m)'
        <4> SUFFICES ASSUME Iniciado(m) PROVE Iniciado(m)'
          OBVIOUS
        <4>1. Len(c) = 2 /\ c[2].op = "INICIAR" /\ r = <<>>
          BY <2>3 DEF Iniciado, c, r
        <4>2. Len(canal'[m]) = 1 /\ canal'[m][1] = c[2]
          BY <2>1, <2>4, <4>1
        <4>3. modulo'[m] \notin {"ocupado", "salio"} /\ respuestas'[m] = <<>>
          BY <2>1, <3>1, <4>1
        <4>4. Len(canal'[m]) = 0 + 1 /\ canal'[m][0 + 1].op = "INICIAR"
          BY <4>1, <4>2
        <4> QED BY <2>2, <4>3, <4>4 DEF Iniciado
      <3>4. Enviado(m) => Enviado(m)'
        <4> SUFFICES ASSUME Enviado(m) PROVE Enviado(m)'
          OBVIOUS
        <4>1. Len(c) = 3 /\ c[2].op = "INICIAR" /\ c[3].op = "DATOS" /\ r = <<>> /\ Dato(m, c[3].pid)
          BY <2>3 DEF Enviado, c, r
        <4>2. Len(canal'[m]) = 2 /\ canal'[m][1] = c[2] /\ canal'[m][2] = c[3]
          <5>1. DOMAIN Tail(c) = 1..2
            BY <2>4, <4>1
          <5>2. Tail(c)[1] = c[2] /\ Tail(c)[2] = c[3]
            BY <2>4, <5>1
          <5>3. canal'[m] = Tail(c)
            BY <2>1
          <5>4. Len(Tail(c)) = 2
            BY <2>4, <4>1
          <5> QED BY <5>2, <5>3, <5>4
        <4>3. Dato(m, canal[m][Aviso(m) + 2].pid)'
          BY <1>3, <2>2, <4>1, <4>2 DEF Dato, vHilos
        <4>4. modulo'[m] \notin {"ocupado", "salio"} /\ respuestas'[m] = <<>>
          BY <2>1, <3>1, <4>1
        <4>5. /\ Len(canal'[m]) = 0 + 2
              /\ canal'[m][0 + 1].op = "INICIAR" /\ canal'[m][0 + 2].op = "DATOS"
          BY <4>1, <4>2
        <4> QED BY <2>2, <4>3, <4>4, <4>5 DEF Enviado
      <3>5. Respondido(m) => Respondido(m)'
        <4> SUFFICES ASSUME Respondido(m) PROVE Respondido(m)'
          OBVIOUS
        <4>1. Len(c) = 1 /\ Len(r) = 1 /\ Dato(m, r[1])
          BY <2>3 DEF Respondido, c, r
        <4>2. Dato(m, respuestas[m][1])'
          BY <1>3, <2>1, <4>1 DEF Dato, vHilos, r
        <4> QED BY <2>1, <2>2, <2>4, <3>1, <4>1, <4>2 DEF Respondido
      <3>6. ~Ido(m) /\ ~EnCurso(m)
        BY <2>1 DEF Ido, EnCurso
      <3>7. EnPaso(m)'
        BY <1>3, <3>2, <3>3, <3>4, <3>5, <3>6 DEF Dialogo, EnPaso, vHilos
      <3>8. Confirmado(m)'
        BY <1>4, <2>2, <2>3 DEF Confirmado
      <3> QED BY <2>1, <3>1, <3>7, <3>8 DEF Dialogo
    <2> QED BY <2>5, <2>6
  <1>8. CASE Atiende(m)
    <2>1. modulo[m] = "libre" /\ c # <<>> /\ Aviso(m) = 0
      BY <1>8 DEF Atiende, Aviso
    <2>2. io[m] = m /\ pc[m] \in {"manda", "recibe"} /\ (Iniciado(m) \/ Enviado(m))
      <3>1. ~Callado(m) /\ ~Respondido(m) /\ ~Ido(m) /\ ~EnCurso(m)
        BY <1>6, <2>1 DEF Callado, Respondido, Ido, EnCurso
      <3> QED BY <3>1 DEF Dialogo, EnPaso
    <2>3. c[1].op = "INICIAR" /\ (Len(c) = 1 \/ (Len(c) = 2 /\ c[2].op = "DATOS")) /\ r = <<>>
      BY <2>1, <2>2 DEF Iniciado, Enviado
    <2>4. /\ Len(c) > 1
          /\ modulo' = [modulo EXCEPT ![m] = "ocupado"]
          /\ haciendo' = [haciendo EXCEPT ![m] = c[2].pid]
          /\ canal' = [canal EXCEPT ![m] = SubSeq(c, 3, Len(c))]
          /\ respuestas' = respuestas
      BY <1>8, <2>3 DEF Atiende
    <2>5. Enviado(m) /\ Len(c) = 2 /\ pc[m] = "recibe"
      <3>1. Len(canal[m]) > 1
        BY <2>4
      <3>2. Aviso(m) + 1 = 1 /\ modulo[m] # "salio"
        BY <2>1
      <3>3. ~Iniciado(m) /\ ~Ido(m)
        BY <3>1, <3>2 DEF Iniciado, Ido
      <3>4. Enviado(m) /\ pc[m] = "recibe"
        BY <2>2, <3>3 DEF Dialogo, EnPaso
      <3>5. Len(c) = 2
        BY <2>1, <3>4 DEF Enviado
      <3> QED BY <3>4, <3>5
    <2>6. modulo'[m] = "ocupado" /\ haciendo'[m] = c[2].pid /\ canal'[m] = SubSeq(c, 3, 2) /\ respuestas'[m] = <<>>
      BY <1>2, <2>3, <2>4, <2>5
    <2>7. Len(canal'[m]) = 0
      BY <1>6, <2>6
    <2>8. Dato(m, haciendo[m])'
      BY <1>3, <2>1, <2>5, <2>6 DEF Enviado, Dato, vHilos
    <2>9. EnCurso(m)' /\ Aviso(m)' = 0
      BY <2>6, <2>7, <2>8 DEF EnCurso, Aviso
    <2>10. Confirmado(m)'
      BY <1>4, <2>1, <2>9 DEF Dialogo, Confirmado
    <2> QED BY <1>3, <2>2, <2>5, <2>6, <2>9, <2>10 DEF Dialogo, EnPaso, vHilos
  <1>9. CASE Concluye(m)
    <2>1. /\ modulo[m] = "ocupado" /\ modulo'[m] = "libre" /\ haciendo'[m] = NULO
          /\ respuestas'[m] = Append(r, haciendo[m]) /\ canal' = canal
      BY <1>2, <1>9 DEF Concluye
    <2>2. io[m] = m /\ pc[m] = "recibe" /\ EnCurso(m)
      BY <2>1 DEF Dialogo, EnPaso, Callado, Iniciado, Enviado, Respondido, Ido
    <2>3. Len(r) = 0 /\ Len(c) = 0 /\ Dato(m, haciendo[m])
      BY <2>2 DEF EnCurso
    <2>4. Len(respuestas'[m]) = 1 /\ respuestas'[m][1] = haciendo[m]
      BY <1>2, <1>6, <2>1, <2>3
    <2>5. Aviso(m)' = 0
      BY <2>1 DEF Aviso
    <2>6. Dato(m, respuestas[m][1])'
      BY <1>3, <2>3, <2>4 DEF Dato, vHilos
    <2>7. Respondido(m)'
      BY <2>1, <2>3, <2>4, <2>5, <2>6 DEF Respondido
    <2>8. Confirmado(m)'
      BY <1>4, <2>1, <2>5 DEF Dialogo, Confirmado
    <2> QED BY <1>3, <2>1, <2>2, <2>7, <2>8 DEF Dialogo, EnPaso, vHilos
  <1>10. ~Delira(m)
    BY DEF Delira, Dialogo
  <1>11. CASE SeVa(m)
    <2>1. /\ modulo[m] \in {"libre", "ocupado"} /\ modulo'[m] = "salio" /\ haciendo'[m] = NULO
          /\ canal'[m] = <<>> /\ respuestas'[m] = r
      BY <1>2, <1>11 DEF SeVa
    <2>2. Aviso(m) = 0 /\ Aviso(m)' = 0 /\ Len(canal'[m]) = 0
      BY <2>1 DEF Aviso
    <2>3. /\ r = <<>> => Callado(m)' /\ Ido(m)'
          /\ Callado(m) \/ Iniciado(m) \/ Enviado(m) \/ EnCurso(m) \/ Ido(m) => r = <<>>
      BY <2>1, <2>2 DEF Callado, Iniciado, Enviado, EnCurso, Ido
    <2>4. Respondido(m) => Respondido(m)'
      <3>1. Dato(m, r[1]) => Dato(m, respuestas[m][1])'
        BY <1>3, <2>1 DEF Dato, vHilos
      <3> QED BY <2>1, <2>2, <3>1 DEF Respondido
    <2>5. Confirmado(m)'
      BY <1>4, <2>1, <2>2 DEF Dialogo, Confirmado
    <2>6. EnPaso(m)'
      BY <1>3, <2>3, <2>4 DEF Dialogo, EnPaso, vHilos
    <2> QED BY <2>1, <2>5, <2>6 DEF Dialogo
  <1>12. ASSUME NEW n \in Nombres, Enciende(m, n) PROVE Dialogo(m)'
    <2>1. /\ modulo[m] = "apagado" /\ modulo'[m] = "conecta"
          /\ UNCHANGED <<haciendo, canal, respuestas>>
      BY <1>2, <1>12 DEF Enciende
    <2>2. ~Contestado(m) /\ io[m] # m
      BY <1>1, <2>1 DEF Contestado
    <2>3. Aviso(m) = 0 /\ Aviso(m)' = 0
      BY <1>4, <2>2 DEF Aviso
    <2>4. Callado(m)' /\ haciendo'[m] = NULO
      BY <2>1, <2>2, <2>3 DEF Dialogo, EnPaso, Callado
    <2>5. Confirmado(m)'
      BY <2>1, <2>3 DEF Confirmado
    <2> QED BY <1>3, <2>1, <2>2, <2>4, <2>5 DEF Dialogo, EnPaso, vHilos
  <1> QED BY <1>7, <1>8, <1>9, <1>10, <1>11, <1>12 DEF Modulo

LEMMA DialogosOtroHilo ==
    ASSUME InvTipo, Dialogos, NEW t \in Modulos, Hilo(t), NEW m \in Modulos \ {t}, HilosDe(m) \subseteq {m}
    PROVE  Dialogo(m)'
  <1>1. Dialogo(m) /\ io[t] # m
    BY DEF Dialogos, HilosDe
  <1>2. UNCHANGED <<modulo, haciendo, vCon, lista>>
    BY DEF Hilo, HiloNace, HiloEspera, HiloSaca, HiloInicia, HiloManda, HiloRecibe, vModulo
  <1>3. pc'[m] = pc[m] /\ io'[m] = io[m] /\ toma'[m] = toma[m]
    <2>1. /\ pc \in [Modulos -> {"no", "nace", "espera", "saca", "inicia", "manda", "recibe"}]
          /\ io \in [Modulos -> Modulos \cup {NULO}] /\ toma \in [Modulos -> Procesos \cup {NULO}]
      BY DEF InvTipo, TypeOK, Marcha
    <2>2. CASE HiloNace(t) \/ HiloEspera(t) \/ HiloSaca(t)
      BY <2>1, <2>2 DEF HiloNace, HiloEspera, HiloSaca, vHilos
    <2>3. CASE HiloInicia(t) \/ HiloManda(t) \/ HiloRecibe(t)
      BY <2>1, <2>3 DEF HiloInicia, HiloManda, HiloRecibe
    <2> QED BY <2>2, <2>3 DEF Hilo
  <1>4. canal'[m] = canal[m] /\ respuestas'[m] = respuestas[m]
    <2>1. /\ canal \in [Modulos -> Seq(Mensajes)] /\ respuestas \in [Modulos -> Seq(Procesos \cup {NULO})]
      BY DEF InvTipo, TypeOK, Mensajes
    <2>2. CASE HiloNace(t) \/ HiloEspera(t) \/ HiloSaca(t)
      BY <2>2 DEF HiloNace, HiloEspera, HiloSaca, vModulo
    <2>3. CASE HiloInicia(t) \/ HiloManda(t)
      BY <1>1, <2>1, <2>3 DEF HiloInicia, HiloManda, Manda
    <2>4. CASE HiloRecibe(t)
      BY <1>1, <2>1, <2>4 DEF HiloRecibe
    <2> QED BY <2>2, <2>3, <2>4 DEF Hilo
  <1>5. Contestado(m)' <=> Contestado(m)
    BY <1>2, <1>3 DEF Contestado, vCon
  <1> QED BY <1>1, <1>2, <1>3, <1>4, <1>5, DialogoIgual

(* The thread of m, when the answer it waits for is of another interface.  *)
LEMMA DialogosHiloAjeno ==
    ASSUME InvTipo, NEW m \in Modulos, Hilo(m), ~HiloNace(m), io[m] # m, Dialogo(m)
    PROVE  Dialogo(m)'
  <1>1. UNCHANGED <<modulo, haciendo, vCon, lista, io>>
    BY DEF Hilo, HiloEspera, HiloSaca, HiloInicia, HiloManda, HiloRecibe, vModulo, vHilos
  <1>2. pc[m] # "no" /\ pc'[m] # "no"
    BY DEF Hilo, HiloEspera, HiloSaca, HiloInicia, HiloManda, HiloRecibe, InvTipo, Marcha, vHilos
  <1>3. canal'[m] = canal[m] /\ respuestas'[m] = respuestas[m]
    <2>1. /\ canal \in [Modulos -> Seq(Mensajes)] /\ respuestas \in [Modulos -> Seq(Procesos \cup {NULO})]
      BY DEF InvTipo, TypeOK, Mensajes
    <2>2. CASE HiloEspera(m) \/ HiloSaca(m)
      BY <2>2 DEF HiloEspera, HiloSaca, vModulo
    <2>3. CASE HiloInicia(m) \/ HiloManda(m)
      BY <2>1, <2>3 DEF HiloInicia, HiloManda, Manda
    <2>4. CASE HiloRecibe(m)
      BY <2>1, <2>4 DEF HiloRecibe
    <2> QED BY <2>2, <2>3, <2>4 DEF Hilo
  <1>4. Contestado(m) /\ Contestado(m)'
    BY <1>2 DEF Contestado
  <1>5. Aviso(m)' = Aviso(m)
    BY <1>1, <1>4 DEF Aviso
  <1>6. Callado(m)'
    BY <1>1, <1>3, <1>5 DEF Dialogo, EnPaso, Callado
  <1> QED BY <1>1, <1>3, <1>4, <1>5, <1>6 DEF Dialogo, Confirmado, EnPaso

LEMMA DialogosHilo ==
    ASSUME InvTipo, NEW m \in Modulos, Hilo(m), io[m] = m \/ HiloNace(m), Dialogo(m)
    PROVE  Dialogo(m)'
  <1>1. UNCHANGED <<modulo, haciendo, vCon, lista>>
    BY DEF Hilo, HiloNace, HiloEspera, HiloSaca, HiloInicia, HiloManda, HiloRecibe, vModulo
  <1>2. pc[m] # "no" /\ pc'[m] # "no"
    BY DEF Hilo, HiloNace, HiloEspera, HiloSaca, HiloInicia, HiloManda, HiloRecibe, InvTipo, Marcha, vHilos
  <1>3. Contestado(m) /\ Contestado(m)' /\ Aviso(m)' = Aviso(m) /\ Aviso(m) \in {0, 1}
    BY <1>1, <1>2 DEF Contestado, Aviso
  <1>4. /\ canal \in [Modulos -> Seq(Mensajes)] /\ respuestas \in [Modulos -> Seq(Procesos \cup {NULO})]
        /\ pc \in [Modulos -> {"no", "nace", "espera", "saca", "inicia", "manda", "recibe"}]
        /\ io \in [Modulos -> Modulos \cup {NULO}] /\ toma \in [Modulos -> Procesos \cup {NULO}]
        /\ cde \in Procesos \cup {NULO}
    BY DEF InvTipo, TypeOK, Marcha, Mensajes
  <1>5. modulo[m] # "apagado"
    BY <1>2 DEF InvTipo, Marcha
  <1>6. pc[m] = "nace" => io[m] # m
    BY NuloAssumption DEF InvTipo, Marcha
  <1> DEFINE c == canal[m]
             r == respuestas[m]
             a == Aviso(m)
  <1>7. c \in Seq(Mensajes) /\ r \in Seq(Procesos \cup {NULO}) /\ Len(c) \in Nat /\ Len(r) \in Nat
    BY <1>4
  <1>8. ASSUME canal'[m] = canal[m], respuestas'[m] = respuestas[m], EnPaso(m)' PROVE Dialogo(m)'
    BY <1>1, <1>3, <1>8 DEF Dialogo, Confirmado
  <1>9. CASE HiloNace(m) \/ HiloEspera(m) \/ HiloSaca(m)
    <2>1. UNCHANGED <<canal, respuestas>> /\ pc'[m] \in {"espera", "saca", "inicia"}
      BY <1>4, <1>9 DEF HiloNace, HiloEspera, HiloSaca, vModulo, vHilos
    <2>2. Callado(m)
      BY <1>6, <1>9 DEF Dialogo, EnPaso, HiloNace, HiloEspera, HiloSaca
    <2>3. Callado(m)'
      BY <1>1, <1>3, <2>1, <2>2 DEF Callado
    <2> QED BY <1>8, <2>1, <2>3 DEF EnPaso
  <1>10. ASSUME NEW x \in Mensajes, canal'[m] = Append(c, x), r = <<>>, respuestas' = respuestas,
                modulo[m] \notin {"ocupado", "salio"}, Len(c) >= a
         PROVE  /\ Confirmado(m)'
                /\ Len(c) = a /\ x.op = "INICIAR" => Iniciado(m)'
                /\ Iniciado(m) /\ x.op = "DATOS" /\ Dato(m, x.pid)' => Enviado(m)'
    <2>1. /\ Len(canal'[m]) = Len(c) + 1 /\ canal'[m][Len(c) + 1] = x
          /\ \A i \in 1..Len(c) : canal'[m][i] = c[i]
      BY <1>7, <1>10
    <2>2. a = 1 => Len(c) > 0 /\ canal'[m][1] = c[1]
      BY <1>7, <1>10, <2>1
    <2>3. Confirmado(m)'
      <3>1. a = 1 => Len(canal'[m]) > 0 /\ canal'[m][1] = c[1]
        BY <1>7, <2>1, <2>2
      <3> QED BY <1>1, <1>3, <3>1 DEF Dialogo, Confirmado
    <2>4. ASSUME Len(c) = a, x.op = "INICIAR" PROVE Iniciado(m)'
      <3>1. Len(canal'[m]) = a + 1 /\ canal'[m][a + 1].op = "INICIAR"
        BY <2>1, <2>4
      <3> QED BY <1>1, <1>3, <1>10, <3>1 DEF Iniciado
    <2>5. ASSUME Iniciado(m), x.op = "DATOS", Dato(m, x.pid)' PROVE Enviado(m)'
      <3>1. Len(c) = a + 1 /\ c[a + 1].op = "INICIAR"
        BY <2>5 DEF Iniciado
      <3>2. a + 1 \in 1..Len(c) /\ Len(c) + 1 = a + 2
        BY <1>3, <3>1
      <3>3. /\ Len(canal'[m]) = a + 2 /\ canal'[m][a + 1].op = "INICIAR"
            /\ canal'[m][a + 2] = x
        BY <2>1, <3>1, <3>2
      <3>4. Dato(m, canal[m][Aviso(m) + 2].pid)'
        BY <1>3, <2>5, <3>3 DEF Dato
      <3> QED BY <1>1, <1>3, <1>10, <2>5, <3>3, <3>4 DEF Enviado
    <2> QED BY <2>3, <2>4, <2>5
  <1>11. CASE HiloInicia(m)
    <2>1. /\ pc[m] = "inicia" /\ pc'[m] = "manda" /\ io[m] = m /\ io'[m] = m /\ respuestas' = respuestas
          /\ Manda(m, Mensaje("INICIAR", NULO))
      BY <1>4, <1>6, <1>11 DEF HiloInicia, HiloNace
    <2>2. Callado(m)
      BY <2>1 DEF Dialogo, EnPaso
    <2>3. CASE modulo[m] = "salio"
      <3>1. canal'[m] = c
        BY <2>1, <2>3 DEF Manda
      <3>2. Ido(m)'
        BY <1>1, <1>3, <2>1, <2>2, <2>3, <3>1 DEF Ido, Callado
      <3> QED BY <1>8, <2>1, <3>1, <3>2 DEF EnPaso
    <2>4. CASE modulo[m] # "salio"
      <3>1. /\ canal'[m] = Append(c, Mensaje("INICIAR", NULO)) /\ Len(c) = a /\ r = <<>>
            /\ modulo[m] # "ocupado"
        BY <1>4, <2>1, <2>2, <2>4 DEF Manda, Callado
      <3>2. Mensaje("INICIAR", NULO) \in Mensajes /\ Mensaje("INICIAR", NULO).op = "INICIAR"
        BY DEF Mensaje, Mensajes
      <3>3. Confirmado(m)' /\ Iniciado(m)'
        BY <1>3, <1>10, <2>1, <2>4, <3>1, <3>2
      <3> QED BY <1>1, <2>1, <3>3 DEF Dialogo, EnPaso
    <2> QED BY <2>3, <2>4
  <1>12. CASE HiloManda(m)
    <2>1. /\ pc[m] = "manda" /\ pc'[m] = "recibe" /\ io[m] = m /\ io'[m] = m /\ respuestas' = respuestas
          /\ toma' = toma /\ Manda(m, Mensaje("DATOS", PidEnviado(m)))
      BY <1>4, <1>6, <1>12 DEF HiloManda, HiloNace
    <2>2. Iniciado(m) \/ Ido(m)
      BY <2>1 DEF Dialogo, EnPaso
    <2>3. CASE Ido(m)
      <3>1. canal'[m] = c
        BY <2>1, <2>3 DEF Manda, Ido
      <3>2. Ido(m)'
        BY <1>1, <1>3, <2>1, <2>3, <3>1 DEF Ido, Callado
      <3> QED BY <1>8, <2>1, <3>1, <3>2 DEF EnPaso
    <2>4. CASE Iniciado(m)
      <3>1. /\ canal'[m] = Append(c, Mensaje("DATOS", PidEnviado(m)))
            /\ Len(c) = a + 1 /\ r = <<>> /\ modulo[m] \notin {"ocupado", "salio"}
        BY <1>4, <2>1, <2>4 DEF Manda, Iniciado
      <3>2. /\ Mensaje("DATOS", PidEnviado(m)) \in Mensajes
            /\ Mensaje("DATOS", PidEnviado(m)).op = "DATOS"
            /\ Mensaje("DATOS", PidEnviado(m)).pid = PidEnviado(m)
        BY <1>4 DEF Mensaje, Mensajes, PidEnviado
      <3>3. Dato(m, Mensaje("DATOS", PidEnviado(m)).pid) /\ \A d : Dato(m, d) => (d \in Procesos \cup {NULO} /\ (m \notin Dialfs => d = toma'[m]))
        BY <1>4, <2>1, <3>2 DEF Dato, PidEnviado
      <3>4. PICK x \in Mensajes : x = Mensaje("DATOS", PidEnviado(m))
        BY <3>2
      <3>5. Confirmado(m)' /\ Enviado(m)'
        <4>1. \A y \in Mensajes : Dato(m, y.pid) => Dato(m, y.pid)'
          BY <2>1 DEF Dato
        <4> QED BY <1>3, <1>10, <2>1, <2>4, <3>1, <3>2, <3>3, <3>4, <4>1
      <3> QED BY <1>1, <2>1, <3>5 DEF Dialogo, EnPaso
    <2> QED BY <2>2, <2>3, <2>4
  <1>13. CASE HiloRecibe(m)
    <2>1. /\ pc[m] = "recibe" /\ pc'[m] = "espera" /\ io[m] = m /\ io'[m] = m /\ canal' = canal
      BY <1>4, <1>6, <1>13 DEF HiloRecibe, HiloNace
    <2>2. Enviado(m) \/ EnCurso(m) \/ Respondido(m) \/ Ido(m)
      BY <2>1 DEF Dialogo, EnPaso
    <2>3. CASE r # <<>>
      <3>1. Respondido(m)
        BY <2>2, <2>3 DEF Enviado, EnCurso, Ido, Callado
      <3>2. respuestas'[m] = Tail(r)
        BY <1>4, <1>13, <2>1, <2>3 DEF HiloRecibe
      <3>3. Len(r) = 1 /\ Tail(r) \in Seq(Procesos \cup {NULO}) /\ Len(Tail(r)) = Len(r) - 1
        BY <1>7, <2>3, <3>1 DEF Respondido
      <3>4. respuestas'[m] = <<>>
        <4>1. Len(Tail(r)) = 0
          BY <3>3
        <4>2. Tail(r) = <<>>
          <5> DEFINE S == Procesos \cup {NULO}
          <5>1. Tail(r) \in Seq(S)
            BY <3>3
          <5> HIDE DEF S
          <5> QED BY <4>1, <5>1, EmptySeq
        <4> QED BY <3>2, <4>2
      <3>5. Callado(m)'
        BY <1>1, <1>3, <2>1, <3>1, <3>4 DEF Callado, Respondido
      <3>6. EnPaso(m)' /\ Confirmado(m)'
        BY <1>1, <1>3, <2>1, <3>5 DEF EnPaso, Dialogo, Confirmado
      <3> QED BY <1>1, <3>6 DEF Dialogo
    <2>4. CASE r = <<>>
      <3>1. respuestas'[m] = r /\ modulo[m] = "salio"
        BY <1>13, <2>1, <2>4 DEF HiloRecibe
      <3>2. Ido(m)
        BY <2>2, <2>4, <3>1 DEF Enviado, EnCurso, Respondido
      <3>3. Callado(m)'
        BY <1>1, <1>3, <2>1, <3>1, <3>2 DEF Callado, Ido
      <3> QED BY <1>8, <2>1, <3>1, <3>3 DEF EnPaso
    <2> QED BY <2>3, <2>4
  <1> QED BY <1>9, <1>11, <1>12, <1>13 DEF Hilo

LEMMA DialogosInductivos == InvTipo /\ Dialogos /\ [Next]_vars => Dialogos'
  <1> SUFFICES ASSUME InvTipo, Dialogos, [Next]_vars, NEW m \in Modulos, HilosDe(m)' \subseteq {m}
               PROVE  Dialogo(m)'
    BY DEF Dialogos
  <1>1. CASE UNCHANGED vars
    <2>1. UNCHANGED <<vModulo, vCon, lista, vHilos>> /\ HilosDe(m) \subseteq {m}
      BY <1>1 DEF vars, vHilos, HilosDe
    <2>2. Dialogo(m) /\ (Contestado(m)' <=> Contestado(m))
      BY <2>1 DEF Dialogos, vCon, vHilos, Contestado
    <2> QED BY <2>1, <2>2, DialogoIgual DEF vModulo, vHilos
  <1>2. CASE Next
    <2>1. HilosDe(m) \subseteq {m}
      BY <1>2, SoloDesdeAntes
    <2>2. Dialogo(m)
      BY <2>1 DEF Dialogos
    <2>3. CASE HiloCon
      BY <2>1, <2>3, DialogosCon
    <2>4. CASE HiloCpu \/ \E p \in Procesos : Vuelve(p) \/ \E n \in Nombres : Pide(p, n)
      BY <2>1, <2>4, DialogosCpu
    <2>5. ASSUME NEW k \in Modulos, Modulo(k) \/ SeVa(k) \/ \E n \in Nombres : Enciende(k, n)
          PROVE  Dialogo(m)'
      BY <2>1, <2>2, <2>5, DialogosModulo, DialogosOtroModulo
    <2>6. ASSUME NEW t \in Modulos, Hilo(t) PROVE Dialogo(m)'
      <3>1. CASE t # m
        BY <2>1, <2>6, <3>1, DialogosOtroHilo
      <3>2. CASE t = m
        BY <2>2, <2>6, <3>2, DialogosHilo, DialogosHiloAjeno
      <3> QED BY <3>1, <3>2
    <2> QED BY <1>2, <2>3, <2>4, <2>5, <2>6 DEF Next
  <1> QED BY <1>1, <1>2

LEMMA DialogosSinPerderse == InvTipo /\ Dialogos => DialogoSinPerderse
  <1> SUFFICES ASSUME InvTipo, Dialogos, NEW m \in Modulos, HilosDe(m) \subseteq {m}
               PROVE  /\ modulo[m] # "roto"
                      /\ respuestas[m] # <<>> => pc[m] = "recibe" /\ Len(respuestas[m]) = 1
                      /\ m \notin Dialfs =>
                            /\ haciendo[m] \in {NULO, toma[m]}
                            /\ respuestas[m] # <<>> => Head(respuestas[m]) = toma[m]
    BY DEF DialogoSinPerderse
  <1>1. Dialogo(m)
    BY DEF Dialogos
  <1>2. respuestas[m] \in Seq(Procesos \cup {NULO})
    BY DEF InvTipo, TypeOK
  <1>3. ASSUME respuestas[m] # <<>> PROVE pc[m] = "recibe" /\ Respondido(m) /\ Head(respuestas[m]) = respuestas[m][1]
    BY <1>1, <1>2, <1>3 DEF Dialogo, EnPaso, Callado, Iniciado, Enviado, EnCurso, Ido
  <1>4. modulo[m] = "ocupado" => EnCurso(m)
    BY <1>1 DEF Dialogo, EnPaso, Callado, Iniciado, Enviado, Respondido, Ido
  <1>5. haciendo[m] # NULO => EnCurso(m)
    BY <1>1, <1>4 DEF Dialogo
  <1> QED BY <1>1, <1>3, <1>5 DEF Dialogo, Respondido, EnCurso, Dato

(* While only its own thread serves an interface, kernel and module are at *)
(* the same step of each operation: what the module reads is in order, and *)
(* the answer a thread reads is the one to the request it sent.            *)
THEOREM ElDialogoNoSePierde == Spec => []DialogoSinPerderse
  BY TipoInicial, TipoInductivo, DialogosIniciales, DialogosInductivos, DialogosSinPerderse, PTL DEF Spec
=============================================================================
