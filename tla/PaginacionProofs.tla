-------------------------- MODULE PaginacionProofs --------------------------
(***************************************************************************)
(* Proofs about Paginacion, for any number of processes and frames.        *)
(*                                                                         *)
(* MarcoExclusivo is not inductive.  What makes it hold is that only the   *)
(* CPU thread takes frames: a frame in a page is marked as taken, or is    *)
(* the one that thread is about to mark (MarcoEnUsoOcupado); and a frame   *)
(* that a thread has taken out of a page and not yet freed is in no page,  *)
(* is still marked, and is in the hand of that thread only (EnMano).       *)
(***************************************************************************)
EXTENDS Paginacion, FiniteSetTheorems, TLAPS

PasosCpu == {"libre", "buscar", "comparar", "devolver", "tamanio", "reducir", "ampliar",
             "frame", "contar", "responder", "asignar", "marcar", "eliminar", "liberar"}
PasosKernel == {"libre", "buscar", "comparar", "devolver", "destruir", "liberar"}

(* Where each thread may be, and what it has in its local variables there. *)
Control ==
    /\ pc["cpu"] \in PasosCpu
    /\ luego["cpu"] \in {"libre", "tamanio", "reducir", "ampliar", "frame"}
    /\ pc["kernel"] \in PasosKernel
    /\ luego["kernel"] \in {"libre", "destruir"}
    /\ pc["cpu"] \in {"contar", "responder", "asignar", "marcar", "eliminar", "liberar"}
         => tabla["cpu"] \in Pids
    /\ pc["kernel"] = "liberar" => tabla["kernel"] \in Pids
    /\ pc["cpu"] # "libre" => pid["cpu"] \in Pids
    /\ \A h \in Hilos : pc[h] = "buscar" => pos[h] >= 1 /\ tope[h] <= Len(lista)
    /\ \A h \in Hilos : pc[h] \in {"comparar", "devolver"} =>
           tabla_actual \in Pids /\ pos[h] >= 1 /\ tope[h] <= Len(lista)
    /\ \A h \in Hilos : pc[h] = "liberar" => mano[h] \in Marcos
    /\ pc["cpu"] = "marcar" => i \in Marcos
    /\ pc["cpu"] = "contar" => i <= CantMarcos

(* A frame in a thread's hand.                                             *)
EnMano ==
    /\ \A h \in Hilos : pc[h] = "liberar" =>
           /\ \A p \in Pids : mano[h] \notin ToSet(paginas[p])
           /\ bit[mano[h]] = 1 \/ Marcando(mano[h])
    /\ pc["cpu"] = "liberar" /\ pc["kernel"] = "liberar" => mano["cpu"] # mano["kernel"]

Inv == TypeOK /\ Control

USE DEF Hilos

(***************************************************************************)
(* Sequences of pages: what removing one end and appending do.             *)
(***************************************************************************)
Exclusivo(g) ==
    \A p, q \in Pids : \A j \in DOMAIN g[p], k \in DOMAIN g[q] :
        g[p][j] = g[q][k] => p = q /\ j = k

LEMMA SacarElPrimero ==
    ASSUME NEW g \in [Pids -> Seq(Marcos)], NEW t \in Pids, Exclusivo(g), Len(g[t]) > 0,
           NEW d \in [Pids -> Seq(Marcos)],
           d[t] = Tail(g[t]), \A p \in Pids \ {t} : d[p] = g[p]
    PROVE  /\ Exclusivo(d)
           /\ Head(g[t]) \in ToSet(g[t])
           /\ \A p \in Pids : ToSet(d[p]) \subseteq ToSet(g[p]) /\ Head(g[t]) \notin ToSet(d[p])
  <1> DEFINE s == g[t]
  <1>1. s \in Seq(Marcos) /\ s # <<>> /\ Len(s) \in Nat /\ DOMAIN s = 1..Len(s)
    OBVIOUS
  <1>2. /\ Tail(s) \in Seq(Marcos) /\ DOMAIN Tail(s) = 1..(Len(s) - 1)
        /\ \A k \in 1..(Len(s) - 1) : Tail(s)[k] = s[k + 1]
    BY <1>1
  <1>3. Head(s) = s[1] /\ 1 \in DOMAIN s
    BY <1>1
  <1>4. d[t] = Tail(s) /\ \A p \in Pids : p # t => d[p] = g[p]
    OBVIOUS
  <1> HIDE DEF s
  <1>5. \A k \in DOMAIN d[t] : k \in 1..(Len(s) - 1) /\ k + 1 \in DOMAIN s /\ d[t][k] = s[k + 1]
    BY <1>1, <1>2, <1>4
  <1>6. \A k \in DOMAIN g[t] : g[t][k] = s[k] /\ k \in DOMAIN s
    BY DEF s
  <1>7. Exclusivo(d)
    <2> SUFFICES ASSUME NEW p \in Pids, NEW q \in Pids, NEW j \in DOMAIN d[p],
                        NEW k \in DOMAIN d[q], d[p][j] = d[q][k]
                 PROVE  p = q /\ j = k
      BY DEF Exclusivo
    <2> DEFINE jj == IF p = t THEN j + 1 ELSE j
    <2> DEFINE kk == IF q = t THEN k + 1 ELSE k
    <2>1. jj \in DOMAIN g[p] /\ g[p][jj] = d[p][j]
      BY <1>4, <1>5 DEF s
    <2>2. kk \in DOMAIN g[q] /\ g[q][kk] = d[q][k]
      BY <1>4, <1>5 DEF s
    <2>3. p = q /\ jj = kk
      BY <2>1, <2>2 DEF Exclusivo
    <2>4. CASE p = t
      BY <2>3, <2>4, <1>5
    <2>5. CASE p # t
      BY <2>3, <2>5
    <2> QED BY <2>4, <2>5
  <1>8. ASSUME NEW p \in Pids PROVE ToSet(d[p]) \subseteq ToSet(g[p]) /\ Head(s) \notin ToSet(d[p])
    <2>1. CASE p = t
      <3>1. ToSet(d[p]) \subseteq ToSet(g[p])
        BY <2>1, <1>5 DEF s, ToSet
      <3>2. ASSUME NEW k \in DOMAIN d[t] PROVE d[t][k] # Head(s)
        <4>1. k + 1 \in DOMAIN g[t] /\ 1 \in DOMAIN g[t] /\ d[t][k] = g[t][k + 1] /\ k + 1 # 1
          BY <1>5, <1>3 DEF s
        <4>2. g[t][k + 1] # g[t][1]
          BY <4>1 DEF Exclusivo
        <4> QED BY <4>1, <4>2, <1>3 DEF s
      <3> QED BY <2>1, <3>1, <3>2 DEF ToSet
    <2>2. CASE p # t
      <3>1. d[p] = g[p]
        BY <2>2, <1>4
      <3>2. ASSUME NEW k \in DOMAIN g[p] PROVE g[p][k] # Head(s)
        BY <2>2, <1>3 DEF Exclusivo, s
      <3> QED BY <3>1, <3>2 DEF ToSet
    <2> QED BY <2>1, <2>2
  <1>9. Head(g[t]) \in ToSet(g[t])
    BY <1>3 DEF s, ToSet
  <1> QED BY <1>4, <1>7, <1>8, <1>9 DEF s

LEMMA SacarElUltimo ==
    ASSUME NEW g \in [Pids -> Seq(Marcos)], NEW t \in Pids, Exclusivo(g), Len(g[t]) > 0,
           NEW d \in [Pids -> Seq(Marcos)],
           d[t] = SubSeq(g[t], 1, Len(g[t]) - 1), \A p \in Pids \ {t} : d[p] = g[p]
    PROVE  /\ Exclusivo(d)
           /\ g[t][Len(g[t])] \in ToSet(g[t])
           /\ \A p \in Pids : /\ ToSet(d[p]) \subseteq ToSet(g[p])
                              /\ g[t][Len(g[t])] \notin ToSet(d[p])
  <1> DEFINE s == g[t]
  <1> DEFINE n == Len(s)
  <1>1. s \in Seq(Marcos) /\ n \in Nat /\ n > 0 /\ DOMAIN s = 1..n /\ n \in DOMAIN s
    OBVIOUS
  <1>2. /\ SubSeq(s, 1, n - 1) \in Seq(Marcos) /\ DOMAIN SubSeq(s, 1, n - 1) = 1..(n - 1)
        /\ \A k \in 1..(n - 1) : SubSeq(s, 1, n - 1)[k] = s[k]
    BY <1>1
  <1>3. d[t] = SubSeq(s, 1, n - 1) /\ \A p \in Pids : p # t => d[p] = g[p]
    OBVIOUS
  <1> HIDE DEF s, n
  <1>4. \A k \in DOMAIN d[t] : k \in 1..(n - 1) /\ k \in DOMAIN s /\ d[t][k] = s[k] /\ k # n
    BY <1>1, <1>2, <1>3
  <1>5. \A p \in Pids : \A k \in DOMAIN d[p] : k \in DOMAIN g[p] /\ d[p][k] = g[p][k]
    BY <1>3, <1>4 DEF s
  <1>6. Exclusivo(d)
    BY <1>5 DEF Exclusivo
  <1>7. ASSUME NEW p \in Pids, NEW k \in DOMAIN d[p] PROVE d[p][k] # g[t][n]
    <2>1. k \in DOMAIN g[p] /\ d[p][k] = g[p][k] /\ n \in DOMAIN g[t]
      BY <1>1, <1>5 DEF s
    <2>2. p = t => k # n
      BY <1>4
    <2> QED BY <2>1, <2>2 DEF Exclusivo
  <1>8. g[t][n] \in ToSet(g[t])
    BY <1>1 DEF s, ToSet
  <1>9. ASSUME NEW p \in Pids PROVE ToSet(d[p]) \subseteq ToSet(g[p]) /\ g[t][n] \notin ToSet(d[p])
    BY <1>5, <1>7 DEF ToSet
  <1> QED BY <1>3, <1>6, <1>8, <1>9 DEF s, n

LEMMA AgregarAlFinal ==
    ASSUME NEW g \in [Pids -> Seq(Marcos)], NEW t \in Pids, Exclusivo(g), NEW f \in Marcos,
           \A p \in Pids : f \notin ToSet(g[p]),
           NEW d \in [Pids -> Seq(Marcos)],
           d[t] = Append(g[t], f), \A p \in Pids \ {t} : d[p] = g[p]
    PROVE  /\ Exclusivo(d)
           /\ \A p \in Pids : ToSet(d[p]) \subseteq ToSet(g[p]) \cup {f}
  <1> DEFINE s == g[t]
  <1> DEFINE n == Len(s)
  <1>1. s \in Seq(Marcos) /\ n \in Nat /\ DOMAIN s = 1..n
    OBVIOUS
  <1>2. /\ Append(s, f) \in Seq(Marcos) /\ DOMAIN Append(s, f) = 1..(n + 1)
        /\ Append(s, f)[n + 1] = f /\ \A k \in 1..n : Append(s, f)[k] = s[k]
    BY <1>1
  <1>3. d[t] = Append(s, f) /\ \A p \in Pids : p # t => d[p] = g[p]
    OBVIOUS
  <1> HIDE DEF s, n
  <1>4. \A k \in DOMAIN d[t] : (k \in DOMAIN s /\ d[t][k] = s[k]) \/ (k = n + 1 /\ d[t][k] = f)
    BY <1>1, <1>2, <1>3
  <1>5. \A p \in Pids : \A k \in DOMAIN d[p] :
            \/ k \in DOMAIN g[p] /\ d[p][k] = g[p][k]
            \/ p = t /\ k = n + 1 /\ d[p][k] = f
    BY <1>3, <1>4 DEF s
  <1>6. \A p \in Pids : \A k \in DOMAIN g[p] : g[p][k] # f
    BY DEF ToSet
  <1>7. Exclusivo(d)
    BY <1>5, <1>6 DEF Exclusivo
  <1> QED BY <1>3, <1>5, <1>7 DEF ToSet

-----------------------------------------------------------------------------
(* Types, and where each thread may be.                                    *)

LEMMA BusquedaConservaTipos ==
    ASSUME Inv, NEW h \in Hilos, BuscarEnListaGlobal(h)
    PROVE  Inv'
  <1> USE DEF Inv, TypeOK, Control, PasosCpu, PasosKernel, Salta, vMarcos, vResize, vEntorno,
              vBusqueda, Trabajando
  <1>1. CASE Buscar(h)
    <2>1. CASE pos[h] <= tope[h]
      <3>1. pos[h] \in 1..Len(lista)
        BY <1>1, <2>1 DEF Buscar
      <3>2. lista[pos[h]] \in Pids
        BY <3>1
      <3> QED BY <1>1, <2>1, <3>2, SMTT(30) DEF Buscar
    <2>2. CASE ~(pos[h] <= tope[h])
      BY <1>1, <2>2, SMTT(30) DEF Buscar
    <2> QED BY <2>1, <2>2
  <1>2. CASE Comparar(h)
    BY <1>2 DEF Comparar
  <1>3. CASE Devolver(h)
    BY <1>3 DEF Devolver
  <1> QED BY <1>1, <1>2, <1>3 DEF BuscarEnListaGlobal

LEMMA PuedeCaerTipo ==
    ASSUME NEW h \in Hilos, PuedeCaer(h)
    PROVE  caida' \in BOOLEAN
  BY DEF PuedeCaer, Riesgo

LEMMA LargoTipo ==
    ASSUME TypeOK, NEW h \in Hilos, tabla[h] \in Pids
    PROVE  /\ paginas[tabla[h]] \in Seq(Marcos)
           /\ Largo(h) \in Nat
           /\ Largo(h) > 0 => /\ paginas[tabla[h]][Largo(h)] \in Marcos
                              /\ Head(paginas[tabla[h]]) \in Marcos
  BY DEF TypeOK, Largo

LEMMA LiberarConservaTipos ==
    ASSUME Inv, \/ LiberarMarco("cpu", "eliminar")
                \/ LiberarMarco("kernel", "destruir")
    PROVE  Inv'
  <1> USE DEF Inv, TypeOK, Control, PasosCpu, PasosKernel, Salta, vMarcos, vResize, vEntorno,
              vBusqueda, Trabajando, EmpezarBusqueda, Terminar
  <1>1. ASSUME NEW h \in Hilos, NEW l, LiberarMarco(h, l)
        PROVE  bit' \in [Marcos -> {0, 1}] /\ mano' \in [Hilos -> Marcos \cup {NULO}]
    BY <1>1 DEF LiberarMarco
  <1>2. CASE LiberarMarco("cpu", "eliminar")
    BY <1>2, <1>1 DEF LiberarMarco
  <1>3. CASE LiberarMarco("kernel", "destruir")
    BY <1>3, <1>1 DEF LiberarMarco
  <1> QED BY <1>2, <1>3

LEMMA ReducirConservaTipos ==
    ASSUME Inv, TamanioProceso \/ SinTabla \/ ReducirProceso \/ EliminarPagina \/ ResponderReduccion
    PROVE  Inv'
  <1> USE DEF Inv, TypeOK, Control, PasosCpu, PasosKernel, Salta, vMarcos, vResize, vEntorno,
              vBusqueda, Trabajando, EmpezarBusqueda, Terminar
  <1>1. CASE TamanioProceso
    <2>1. CASE tabla["cpu"] = NULO
      BY <1>1, <2>1 DEF TamanioProceso
    <2>2. CASE tabla["cpu"] # NULO
      <3>1. caida' \in BOOLEAN
        BY <1>1, <2>2, PuedeCaerTipo DEF TamanioProceso
      <3> DEFINE sigue == IF Largo("cpu") * TamPagina > valor THEN "reducir" ELSE "ampliar"
      <3>2. EmpezarBusqueda("cpu", pid["cpu"], sigue) /\ sigue \in {"reducir", "ampliar"}
        BY <1>1, <2>2 DEF TamanioProceso
      <3> HIDE DEF sigue
      <3> QED BY <1>1, <3>1, <3>2 DEF TamanioProceso
    <2> QED BY <2>1, <2>2
  <1>2. CASE SinTabla
    BY <1>2 DEF SinTabla
  <1>3. CASE ReducirProceso
    <2>1. caida' \in BOOLEAN
      BY <1>3, PuedeCaerTipo DEF ReducirProceso
    <2>2. faltan' \in Int
      BY <1>3, LargoTipo, MemoriaAssumption DEF ReducirProceso
    <2> QED BY <1>3, <2>1, <2>2 DEF ReducirProceso
  <1>4. CASE EliminarPagina
    <2>1. CASE Largo("cpu") = 0
      BY <1>4, <2>1 DEF EliminarPagina
    <2>2. CASE Largo("cpu") # 0
      <3>1. caida' \in BOOLEAN
        BY <1>4, <2>2, PuedeCaerTipo DEF EliminarPagina
      <3>2. mano' \in [Hilos -> Marcos \cup {NULO}] /\ mano'["cpu"] \in Marcos
        BY <1>4, <2>2, LargoTipo DEF EliminarPagina, Last, Largo
      <3>3. paginas' \in [Pids -> Seq(Marcos)]
        <4> DEFINE s == paginas[tabla["cpu"]]
        <4>1. SubSeq(s, 1, Len(s) - 1) \in Seq(Marcos)
          BY <1>4, <2>2, LargoTipo DEF EliminarPagina, Largo
        <4> QED BY <1>4, <2>2, <4>1 DEF EliminarPagina, Front
      <3>4. mano'["kernel"] = mano["kernel"]
        BY <1>4, <2>2 DEF EliminarPagina
      <3>5. /\ pc["cpu"] = "eliminar" /\ pc' = [pc EXCEPT !["cpu"] = "liberar"]
            /\ faltan' \in Int
            /\ UNCHANGED <<lista, tabla, bit, destruida, valor, i, libres, exitoso,
                           vBusqueda, vEntorno>>
        BY <1>4, <2>2 DEF EliminarPagina
      <3>6. TypeOK'
        BY <3>1, <3>2, <3>3, <3>5
      <3>7. Control'
        BY <3>2, <3>4, <3>5
      <3> QED BY <3>6, <3>7
    <2> QED BY <2>1, <2>2
  <1>5. CASE ResponderReduccion
    <2>1. TypeOK'
      BY <1>5 DEF ResponderReduccion
    <2>2. Control'
      BY <1>5 DEF ResponderReduccion
    <2> QED BY <2>1, <2>2
  <1> QED BY <1>1, <1>2, <1>3, <1>4, <1>5

LEMMA AmpliarConservaTipos ==
    ASSUME Inv, \/ AmpliarProceso \/ ContarMarco \/ ResponderAmpliacion \/ SaltarMarco
                \/ AgregarPagina \/ MarcarMarco \/ FinAsignar
    PROVE  Inv'
  <1> USE DEF Inv, TypeOK, Control, PasosCpu, PasosKernel, Salta, vMarcos, vResize, vEntorno,
              vBusqueda, Trabajando, EmpezarBusqueda, Terminar
  <1>1. CASE AmpliarProceso
    <2>1. caida' \in BOOLEAN
      BY <1>1, PuedeCaerTipo DEF AmpliarProceso
    <2>2. faltan' \in Int
      BY <1>1, LargoTipo, MemoriaAssumption DEF AmpliarProceso, PaginasPara
    <2> QED BY <1>1, <2>1, <2>2, MemoriaAssumption DEF AmpliarProceso
  <1>2. CASE ContarMarco
    <2>1. CASE i < CantMarcos
      <3>1. i \in Marcos /\ bit[i] \in {0, 1}
        BY <2>1, MemoriaAssumption DEF Marcos
      <3>2. libres' \in Nat /\ i' \in Nat /\ i' <= CantMarcos
        BY <1>2, <2>1, <3>1, MemoriaAssumption DEF ContarMarco
      <3> QED BY <1>2, <2>1, <3>2 DEF ContarMarco
    <2>2. CASE ~(i < CantMarcos)
      BY <1>2, <2>2, SMTT(30) DEF ContarMarco
    <2> QED BY <2>1, <2>2
  <1>3. CASE ResponderAmpliacion
    <2>1. Append(aFinalizar, pid["cpu"]) \in Seq(Pids)
      BY <1>3 DEF ResponderAmpliacion
    <2>2. aFinalizar' \in Seq(Pids)
      BY <1>3, <2>1 DEF ResponderAmpliacion
    <2>3. /\ enCpu' \in Pids \cup {NULO}
          /\ terminados' \subseteq Pids
          /\ exitoso' \in BOOLEAN
      BY <1>3 DEF ResponderAmpliacion
    <2>4. TypeOK'
      BY <1>3, <2>2, <2>3 DEF ResponderAmpliacion
    <2>5. Control'
      BY <1>3 DEF ResponderAmpliacion
    <2> QED BY <2>4, <2>5
  <1>4. CASE SaltarMarco
    BY <1>4 DEF SaltarMarco
  <1>5. CASE AgregarPagina
    <2>1. caida' \in BOOLEAN
      BY <1>5, PuedeCaerTipo DEF AgregarPagina
    <2>2. i \in Marcos
      BY <1>5, MemoriaAssumption DEF AgregarPagina, Marcos
    <2>3. paginas' \in [Pids -> Seq(Marcos)]
      BY <1>5, <2>2 DEF AgregarPagina
    <2> QED BY <1>5, <2>1, <2>2, <2>3 DEF AgregarPagina
  <1>6. CASE MarcarMarco
    BY <1>6 DEF MarcarMarco
  <1>7. CASE FinAsignar
    BY <1>7 DEF FinAsignar
  <1> QED BY <1>1, <1>2, <1>3, <1>4, <1>5, <1>6, <1>7

LEMMA HiloCpuConservaTipos ==
    ASSUME Inv, HiloCpu
    PROVE  Inv'
  <1> USE DEF Inv, TypeOK, Control, PasosCpu, PasosKernel, Salta, vMarcos, vResize, vEntorno,
              vBusqueda, Trabajando, EmpezarBusqueda, Terminar
  <1>1. CASE ResponderFrame
    <2>1. caida' \in BOOLEAN
      BY <1>1, PuedeCaerTipo DEF ResponderFrame
    <2>2. TypeOK'
      BY <1>1, <2>1 DEF ResponderFrame
    <2>3. Control'
      BY <1>1 DEF ResponderFrame
    <2> QED BY <2>2, <2>3
  <1> QED BY <1>1, BusquedaConservaTipos, LiberarConservaTipos, ReducirConservaTipos,
             AmpliarConservaTipos DEF HiloCpu

LEMMA HiloKernelConservaTipos ==
    ASSUME Inv, HiloKernel
    PROVE  Inv'
  <1> USE DEF Inv, TypeOK, Control, PasosCpu, PasosKernel, Salta, vMarcos, vResize, vEntorno,
              vBusqueda, Trabajando, EmpezarBusqueda, Terminar
  <1>1. CASE FinalizarProceso
    BY <1>1 DEF FinalizarProceso
  <1>2. CASE DestruirPagina
    <2>1. caida' \in BOOLEAN
      BY <1>2, PuedeCaerTipo DEF DestruirPagina
    <2>2. tabla["kernel"] \in Pids /\ Largo("kernel") > 0
      BY <1>2 DEF DestruirPagina
    <2>3. mano' \in [Hilos -> Marcos \cup {NULO}] /\ mano'["kernel"] \in Marcos
      BY <1>2, <2>2, LargoTipo DEF DestruirPagina
    <2>4. paginas' \in [Pids -> Seq(Marcos)]
      BY <1>2, <2>2, LargoTipo DEF DestruirPagina, Largo
    <2>5. mano'["cpu"] = mano["cpu"]
      BY <1>2 DEF DestruirPagina
    <2> QED BY <1>2, <2>1, <2>2, <2>3, <2>4, <2>5 DEF DestruirPagina
  <1>3. CASE DestruirLista
    <2>1. caida' \in BOOLEAN
      BY <1>3, PuedeCaerTipo DEF DestruirLista
    <2>2. CASE tabla["kernel"] = NULO
      BY <1>3, <2>2 DEF DestruirLista
    <2>3. CASE tabla["kernel"] # NULO
      <3>1. /\ pc["kernel"] = "destruir" /\ tabla["kernel"] \in Pids
            /\ destruida' = destruida \cup {tabla["kernel"]}
            /\ pc' = [pc EXCEPT !["kernel"] = "libre"]
            /\ tabla' = [tabla EXCEPT !["kernel"] = NULO]
            /\ UNCHANGED <<lista, mano, bit, paginas, vBusqueda, vResize, vEntorno>>
        BY <1>3, <2>3 DEF DestruirLista
      <3>2. TypeOK'
        BY <2>1, <3>1
      <3>3. Control'
        BY <3>1
      <3> QED BY <3>2, <3>3
    <2> QED BY <2>2, <2>3
  <1> QED BY <1>1, <1>2, <1>3, BusquedaConservaTipos, LiberarConservaTipos DEF HiloKernel

LEMMA EntornoConservaTipos ==
    ASSUME Inv, Pedidos \/ Entorno
    PROVE  Inv'
  <1> USE DEF Inv, TypeOK, Control, PasosCpu, PasosKernel, Salta, vMarcos, vResize, vEntorno,
              vBusqueda, Trabajando, EmpezarBusqueda, Terminar
  <1>1. ASSUME NEW p \in Pids, IniciarProceso(p) PROVE Inv'
    BY <1>1 DEF IniciarProceso
  <1>2. ASSUME NEW n \in Tamanios, PedirResize(n) PROVE Inv'
    BY <1>2, PedidosAssumption DEF PedirResize
  <1>3. ASSUME NEW n \in Paginas, PedirFrame(n) PROVE Inv'
    BY <1>3, PedidosAssumption DEF PedirFrame
  <1>4. CASE Entorno
    <2>1. CASE Desalojar
      BY <1>4, <2>1 DEF Entorno, Desalojar
    <2>2. ASSUME NEW p \in Pids, Despachar(p) PROVE Inv'
      BY <1>4, <2>2 DEF Entorno, Despachar
    <2>3. ASSUME NEW p \in Pids, Finaliza(p) PROVE Inv'
      <3>1. Append(aFinalizar, p) \in Seq(Pids)
        OBVIOUS
      <3> QED BY <1>4, <2>3, <3>1 DEF Entorno, Finaliza
    <2> QED BY <1>4, <2>1, <2>2, <2>3 DEF Entorno
  <1> QED BY <1>1, <1>2, <1>3, <1>4 DEF Pedidos

LEMMA PasoConservaTipos ==
    ASSUME Inv, [Next]_vars
    PROVE  Inv'
  <1>1. CASE UNCHANGED vars
    BY <1>1 DEF Inv, TypeOK, Control, vars
  <1> QED BY <1>1, HiloCpuConservaTipos, HiloKernelConservaTipos, EntornoConservaTipos DEF Next

LEMMA InicioTipos ==
    Init => Inv
  <1> SUFFICES ASSUME Init PROVE Inv
    OBVIOUS
  <1>1. <<>> \in Seq(Marcos) /\ <<>> \in Seq(Pids)
    OBVIOUS
  <1>2. paginas \in [Pids -> Seq(Marcos)] /\ lista \in Seq(Pids) /\ aFinalizar \in Seq(Pids)
    BY <1>1 DEF Init
  <1>3. TypeOK
    <2>1. /\ bit \in [Marcos -> {0, 1}] /\ destruida \subseteq Pids /\ terminados \subseteq Pids
          /\ tabla_actual \in Pids \cup {NULO} /\ enCpu \in Pids \cup {NULO}
      BY DEF Init
    <2>2. /\ pc \in [Hilos -> {"libre", "buscar", "comparar", "devolver", "tamanio", "reducir",
                               "ampliar", "frame"} \cup Trabajando]
          /\ luego \in [Hilos -> {"libre", "tamanio", "reducir", "ampliar", "frame", "destruir"}]
          /\ pid \in [Hilos -> Pids \cup {NULO}] /\ tabla \in [Hilos -> Pids \cup {NULO}]
          /\ pos \in [Hilos -> Nat] /\ tope \in [Hilos -> Nat]
          /\ mano \in [Hilos -> Marcos \cup {NULO}]
      BY DEF Init
    <2>3. /\ valor \in Nat /\ i \in Nat /\ faltan \in Int /\ libres \in Nat
      BY DEF Init
    <2>4. exitoso \in BOOLEAN /\ pidiendo \in BOOLEAN /\ caida \in BOOLEAN
      BY DEF Init
    <2> QED BY <1>2, <2>1, <2>2, <2>3, <2>4 DEF TypeOK
  <1>4. Control
    BY DEF Init, Control, PasosCpu, PasosKernel
  <1> QED BY <1>3, <1>4 DEF Inv

(* Every variable of the paging keeps its type: in particular the indices  *)
(* of the searches stay inside the list of tables, and no thread frees a   *)
(* frame it does not hold.                                                 *)
THEOREM TiposCorrectos == Spec => []TypeOK
  <1>1. Inv => TypeOK
    BY DEF Inv
  <1> QED BY InicioTipos, PasoConservaTipos, <1>1, PTL DEF Spec

-----------------------------------------------------------------------------
(* Frames.                                                                 *)

MarcosOK == MarcoExclusivo /\ MarcoEnUsoOcupado /\ EnMano

(* A step that leaves bitmap, tables and hands alone, takes no frame in    *)
(* hand and does not interrupt a marking, preserves all three.             *)
LEMMA PasoAjeno ==
    ASSUME MarcosOK, UNCHANGED <<bit, paginas, mano>>,
           \A h \in Hilos : pc'[h] = "liberar" => pc[h] = "liberar",
           pc["cpu"] = "marcar" => pc'["cpu"] = "marcar" /\ i' = i
    PROVE  MarcosOK'
  <1>1. MarcoExclusivo'
    BY DEF MarcosOK, MarcoExclusivo
  <1>2. \A f : Marcando(f) => Marcando(f)'
    BY DEF Marcando
  <1>3. MarcoEnUsoOcupado'
    BY <1>2 DEF MarcosOK, MarcoEnUsoOcupado
  <1>4. EnMano'
    BY <1>2 DEF MarcosOK, EnMano
  <1> QED BY <1>1, <1>3, <1>4 DEF MarcosOK

LEMMA AgregarConserva ==
    ASSUME Inv, MarcosOK, AgregarPagina
    PROVE  MarcosOK'
  <1> DEFINE t == tabla["cpu"]
  <1>1. /\ i \in Marcos /\ bit[i] = 0 /\ t \in Pids /\ paginas \in [Pids -> Seq(Marcos)]
        /\ paginas' = [paginas EXCEPT ![t] = Append(@, i)]
        /\ pc["cpu"] = "asignar" /\ pc'["cpu"] = "marcar" /\ pc'["kernel"] = pc["kernel"]
        /\ UNCHANGED <<bit, mano, i>>
    BY MemoriaAssumption DEF AgregarPagina, Inv, TypeOK, Control, Marcos, Salta, vResize
  <1>2. ~ \E f \in Marcos : Marcando(f)
    BY <1>1 DEF Marcando
  <1>3. \A p \in Pids : i \notin ToSet(paginas[p])
    BY <1>1, <1>2 DEF MarcosOK, MarcoEnUsoOcupado
  <1>4. Exclusivo(paginas)
    BY DEF Exclusivo, MarcosOK, MarcoExclusivo
  <1>5. Exclusivo(paginas') /\ \A p \in Pids : ToSet(paginas'[p]) \subseteq ToSet(paginas[p]) \cup {i}
    <2>1. /\ paginas' \in [Pids -> Seq(Marcos)] /\ paginas'[t] = Append(paginas[t], i)
          /\ \A p \in Pids \ {t} : paginas'[p] = paginas[p]
      BY <1>1
    <2>2. i \in Marcos /\ t \in Pids /\ paginas \in [Pids -> Seq(Marcos)]
      BY <1>1
    <2> HIDE DEF t
    <2> QED BY <1>3, <1>4, <2>1, <2>2, AgregarAlFinal
  <1>6. MarcoExclusivo'
    BY <1>5 DEF Exclusivo, MarcoExclusivo
  <1>8. MarcoEnUsoOcupado'
    <2> SUFFICES ASSUME NEW p \in Pids, NEW f \in ToSet(paginas'[p]) PROVE bit'[f] = 1 \/ Marcando(f)'
      BY DEF MarcoEnUsoOcupado
    <2>1. CASE f = i
      BY <2>1, <1>1 DEF Marcando
    <2>2. CASE f \in ToSet(paginas[p])
      BY <2>2, <1>1 DEF MarcosOK, MarcoEnUsoOcupado, Marcando
    <2> QED BY <2>1, <2>2, <1>5
  <1>9. ASSUME pc["kernel"] = "liberar" PROVE mano["kernel"] # i /\ bit[mano["kernel"]] = 1
    BY <1>1, <1>9 DEF MarcosOK, EnMano, Marcando
  <1>10. EnMano'
    BY <1>1, <1>5, <1>9 DEF MarcosOK, EnMano
  <1> QED BY <1>6, <1>8, <1>10 DEF MarcosOK

LEMMA MarcarConserva ==
    ASSUME Inv, MarcosOK, MarcarMarco
    PROVE  MarcosOK'
  <1>1. /\ i \in Marcos /\ bit \in [Marcos -> {0, 1}] /\ bit' = [bit EXCEPT ![i] = 1]
        /\ pc["cpu"] = "marcar" /\ pc'["cpu"] = "asignar" /\ pc'["kernel"] = pc["kernel"]
        /\ UNCHANGED <<paginas, mano>>
    BY DEF MarcarMarco, Inv, TypeOK, Control, Salta
  <1>2. \A f : bit[f] = 1 \/ Marcando(f) => f \notin Marcos \/ bit'[f] = 1
    BY <1>1 DEF Marcando
  <1>3. \A p \in Pids : ToSet(paginas[p]) \subseteq Marcos
    BY DEF Inv, TypeOK, ToSet
  <1>4. MarcoExclusivo'
    BY <1>1 DEF MarcosOK, MarcoExclusivo
  <1>5. MarcoEnUsoOcupado'
    BY <1>1, <1>2, <1>3 DEF MarcosOK, MarcoEnUsoOcupado
  <1>6. pc["kernel"] = "liberar" => mano["kernel"] \in Marcos
    BY DEF Inv, Control
  <1>7. EnMano'
    BY <1>1, <1>2, <1>6 DEF MarcosOK, EnMano
  <1> QED BY <1>4, <1>5, <1>7 DEF MarcosOK

(* Taking a page out of a table: by either thread, from either end.        *)
LEMMA TomarConserva ==
    ASSUME Inv, MarcosOK, NEW h \in Hilos, NEW f \in Marcos,
           pc[h] # "liberar", h = "cpu" => pc["cpu"] # "marcar",
           pc' = [pc EXCEPT ![h] = "liberar"],
           mano' = [mano EXCEPT ![h] = f],
           UNCHANGED <<bit, i>>,
           Exclusivo(paginas'),
           \A p \in Pids : ToSet(paginas'[p]) \subseteq ToSet(paginas[p]) /\ f \notin ToSet(paginas'[p]),
           NEW t \in Pids, f \in ToSet(paginas[t])
    PROVE  MarcosOK'
  <1> USE DEF MarcosOK
  <1>1. pc \in [Hilos -> PasosCpu \cup PasosKernel] /\ mano \in [Hilos -> Marcos \cup {NULO}]
    BY DEF Inv, TypeOK, PasosCpu, PasosKernel, Trabajando
  <1>2. \A x : Marcando(x) => Marcando(x)'
    BY <1>1 DEF Marcando
  <1>3. MarcoExclusivo'
    BY DEF Exclusivo, MarcoExclusivo
  <1>4. MarcoEnUsoOcupado'
    BY <1>2 DEF MarcoEnUsoOcupado
  <1>5. ASSUME NEW g \in Hilos, g # h, pc'[g] = "liberar"
        PROVE  /\ mano'[g] = mano[g] /\ mano[g] # f
               /\ \A p \in Pids : mano'[g] \notin ToSet(paginas'[p])
               /\ bit'[mano'[g]] = 1 \/ Marcando(mano[g])'
    BY <1>1, <1>2, <1>5 DEF EnMano
  <1>6. /\ mano'[h] = f
        /\ \A p \in Pids : mano'[h] \notin ToSet(paginas'[p])
        /\ bit'[mano'[h]] = 1 \/ Marcando(mano[h])'
    BY <1>1, <1>2 DEF MarcoEnUsoOcupado
  <1>7. EnMano'
    <2>1. ASSUME NEW g \in Hilos, pc'[g] = "liberar"
          PROVE  /\ \A p \in Pids : mano'[g] \notin ToSet(paginas'[p])
                 /\ bit'[mano'[g]] = 1 \/ Marcando(mano[g])'
      BY <1>5, <1>6, <2>1
    <2>2. pc'["cpu"] = "liberar" /\ pc'["kernel"] = "liberar" => mano'["cpu"] # mano'["kernel"]
      BY <1>5, <1>6
    <2> QED BY <2>1, <2>2 DEF EnMano
  <1> QED BY <1>3, <1>4, <1>7

LEMMA SoltarConserva ==
    ASSUME Inv, MarcosOK, NEW h \in Hilos, NEW sigue \in {"eliminar", "destruir"},
           LiberarMarco(h, sigue)
    PROVE  MarcosOK'
  <1> USE DEF MarcosOK
  <1>1. /\ pc \in [Hilos -> PasosCpu \cup PasosKernel] /\ mano \in [Hilos -> Marcos \cup {NULO}]
        /\ pc[h] = "liberar" /\ mano[h] \in Marcos /\ bit \in [Marcos -> {0, 1}]
        /\ bit' = [bit EXCEPT ![mano[h]] = 0] /\ mano' = [mano EXCEPT ![h] = NULO]
        /\ pc' = [pc EXCEPT ![h] = sigue] /\ UNCHANGED <<paginas, i>>
    BY DEF LiberarMarco, Inv, TypeOK, Control, PasosCpu, PasosKernel, Trabajando, Salta, vResize
  <1>2. \A x : Marcando(x) => Marcando(x)'
    BY <1>1 DEF Marcando
  <1>3. \A p \in Pids : ToSet(paginas[p]) \subseteq Marcos /\ mano[h] \notin ToSet(paginas[p])
    BY <1>1, SMTT(30) DEF Inv, TypeOK, ToSet, EnMano
  <1>4. MarcoExclusivo'
    BY <1>1 DEF MarcoExclusivo
  <1>5. MarcoEnUsoOcupado'
    <2> SUFFICES ASSUME NEW p \in Pids, NEW f \in ToSet(paginas[p]) PROVE bit'[f] = 1 \/ Marcando(f)'
      BY <1>1 DEF MarcoEnUsoOcupado
    <2> QED BY <1>1, <1>2, <1>3 DEF MarcoEnUsoOcupado
  <1>6. ASSUME NEW g \in Hilos, pc'[g] = "liberar"
        PROVE  /\ g # h /\ mano'[g] = mano[g] /\ mano[g] \in Marcos /\ mano[g] # mano[h]
               /\ \A p \in Pids : mano'[g] \notin ToSet(paginas'[p])
               /\ bit'[mano'[g]] = 1 \/ Marcando(mano[g])'
    <2>1. g # h /\ pc[g] = "liberar" /\ mano'[g] = mano[g]
      BY <1>1, <1>6
    <2>2. mano[g] \in Marcos /\ mano[g] # mano[h]
      BY <1>1, <2>1 DEF EnMano, Inv, Control
    <2>3. \A p \in Pids : mano'[g] \notin ToSet(paginas'[p])
      BY <1>1, <2>1 DEF EnMano
    <2>4. bit'[mano'[g]] = 1 \/ Marcando(mano[g])'
      BY <1>1, <1>2, <2>1, <2>2 DEF EnMano
    <2> QED BY <2>1, <2>2, <2>3, <2>4
  <1>7. EnMano'
    BY <1>6 DEF EnMano
  <1> QED BY <1>4, <1>5, <1>7

(* What the other steps leave alone.                                       *)
AjenoCpu ==
    \/ BuscarEnListaGlobal("cpu") \/ TamanioProceso \/ SinTabla \/ ReducirProceso
    \/ ResponderReduccion \/ AmpliarProceso \/ ContarMarco \/ ResponderAmpliacion
    \/ SaltarMarco \/ FinAsignar \/ ResponderFrame

LEMMA AjenoCpuConserva ==
    ASSUME Inv, MarcosOK, AjenoCpu
    PROVE  MarcosOK'
  <1> USE DEF Salta, EmpezarBusqueda, Terminar, vMarcos, vBusqueda, vResize, vEntorno
  <1>1. /\ UNCHANGED <<bit, paginas, mano>> /\ pc["cpu"] # "marcar"
        /\ pc'["cpu"] # "liberar" /\ pc'["kernel"] = pc["kernel"]
    <2>1. CASE BuscarEnListaGlobal("cpu")
      BY <2>1 DEF BuscarEnListaGlobal, Buscar, Comparar, Devolver, Inv, TypeOK, Control
    <2>2. CASE TamanioProceso \/ SinTabla \/ ReducirProceso \/ ResponderReduccion
      BY <2>2 DEF TamanioProceso, SinTabla, ReducirProceso, ResponderReduccion, Inv, TypeOK
    <2>3. CASE AmpliarProceso \/ ContarMarco \/ ResponderAmpliacion \/ SaltarMarco
      BY <2>3 DEF AmpliarProceso, ContarMarco, ResponderAmpliacion, SaltarMarco, Inv, TypeOK
    <2>4. CASE FinAsignar \/ ResponderFrame
      BY <2>4 DEF FinAsignar, ResponderFrame, Inv, TypeOK
    <2> QED BY <2>1, <2>2, <2>3, <2>4 DEF AjenoCpu
  <1> QED BY <1>1, PasoAjeno

LEMMA EliminarConserva ==
    ASSUME Inv, MarcosOK, EliminarPagina
    PROVE  MarcosOK'
  <1>1. CASE Largo("cpu") = 0
    <2>1. UNCHANGED <<bit, paginas, mano, pc, i>>
      BY <1>1 DEF EliminarPagina
    <2> QED BY <2>1, PasoAjeno
  <1>2. CASE Largo("cpu") # 0
    <2> DEFINE t == tabla["cpu"]
    <2> DEFINE f == paginas[t][Len(paginas[t])]
    <2>1. /\ pc["cpu"] = "eliminar" /\ pc' = [pc EXCEPT !["cpu"] = "liberar"]
          /\ mano' = [mano EXCEPT !["cpu"] = f] /\ UNCHANGED <<bit, i>>
          /\ paginas' = [paginas EXCEPT ![t] = SubSeq(@, 1, Len(@) - 1)]
      BY <1>2 DEF EliminarPagina, Largo, Salta, Front, Last
    <2>2. /\ t \in Pids /\ paginas \in [Pids -> Seq(Marcos)] /\ Len(paginas[t]) > 0 /\ f \in Marcos
          /\ Exclusivo(paginas)
      BY <1>2, <2>1, LargoTipo DEF Inv, TypeOK, Control, Largo, MarcosOK, MarcoExclusivo, Exclusivo
    <2>3. paginas' \in [Pids -> Seq(Marcos)]
      BY ReducirConservaTipos DEF Inv, TypeOK
    <2>4. /\ paginas'[t] = SubSeq(paginas[t], 1, Len(paginas[t]) - 1)
          /\ \A p \in Pids \ {t} : paginas'[p] = paginas[p]
      BY <2>1, <2>2
    <2>5. /\ Exclusivo(paginas') /\ f \in ToSet(paginas[t])
          /\ \A p \in Pids : ToSet(paginas'[p]) \subseteq ToSet(paginas[p]) /\ f \notin ToSet(paginas'[p])
      BY <2>2, <2>3, <2>4, SacarElUltimo
    <2> HIDE DEF t, f
    <2> QED BY <2>1, <2>2, <2>5, TomarConserva
  <1> QED BY <1>1, <1>2

LEMMA DestruirConserva ==
    ASSUME Inv, MarcosOK, DestruirPagina
    PROVE  MarcosOK'
  <1> DEFINE t == tabla["kernel"]
  <1> DEFINE f == Head(paginas[t])
  <1>1. /\ pc["kernel"] = "destruir" /\ pc' = [pc EXCEPT !["kernel"] = "liberar"]
        /\ mano' = [mano EXCEPT !["kernel"] = f] /\ UNCHANGED <<bit, i>>
        /\ paginas' = [paginas EXCEPT ![t] = Tail(@)]
    BY DEF DestruirPagina, Salta, vResize
  <1>2. /\ t \in Pids /\ paginas \in [Pids -> Seq(Marcos)] /\ Len(paginas[t]) > 0 /\ f \in Marcos
        /\ Exclusivo(paginas)
    BY LargoTipo DEF DestruirPagina, Inv, TypeOK, Control, Largo, MarcosOK, MarcoExclusivo, Exclusivo
  <1>3. paginas' \in [Pids -> Seq(Marcos)]
    BY HiloKernelConservaTipos DEF HiloKernel, Inv, TypeOK
  <1>4. paginas'[t] = Tail(paginas[t]) /\ \A p \in Pids \ {t} : paginas'[p] = paginas[p]
    BY <1>1, <1>2
  <1>5. /\ Exclusivo(paginas') /\ f \in ToSet(paginas[t])
        /\ \A p \in Pids : ToSet(paginas'[p]) \subseteq ToSet(paginas[p]) /\ f \notin ToSet(paginas'[p])
    BY <1>2, <1>3, <1>4, SacarElPrimero
  <1> HIDE DEF t, f
  <1> QED BY <1>1, <1>2, <1>5, TomarConserva

LEMMA PasoConservaMarcos ==
    ASSUME Inv, MarcosOK, [Next]_vars
    PROVE  MarcosOK'
  <1>1. CASE HiloCpu
    BY <1>1, AjenoCpuConserva, EliminarConserva, AgregarConserva, MarcarConserva, SoltarConserva
    DEF HiloCpu, AjenoCpu
  <1>2. CASE FinalizarProceso \/ BuscarEnListaGlobal("kernel") \/ DestruirLista
    <2>1. /\ UNCHANGED <<bit, paginas, mano, i>> /\ pc'["cpu"] = pc["cpu"]
          /\ pc'["kernel"] # "liberar"
      BY <1>2 DEF FinalizarProceso, BuscarEnListaGlobal, Buscar, Comparar, Devolver, DestruirLista,
                  Salta, EmpezarBusqueda, Terminar, vMarcos, vBusqueda, vResize, Inv, TypeOK, Control
    <2> QED BY <2>1, PasoAjeno
  <1>3. CASE HiloKernel
    BY <1>2, <1>3, DestruirConserva, SoltarConserva DEF HiloKernel
  <1>4. CASE Pedidos \/ Entorno
    <2>1. /\ UNCHANGED <<bit, paginas, mano, i>>
          /\ pc["cpu"] = "marcar" => pc'["cpu"] = "marcar"
          /\ \A h \in Hilos : pc'[h] = "liberar" => pc[h] = "liberar"
      BY <1>4 DEF Pedidos, IniciarProceso, PedirResize, PedirFrame, Entorno, EmpezarBusqueda,
                  Salta, vMarcos, vResize, Inv, TypeOK
    <2> QED BY <2>1, PasoAjeno
  <1>5. CASE UNCHANGED vars
    BY <1>5, PasoAjeno DEF vars
  <1> QED BY <1>1, <1>3, <1>4, <1>5 DEF Next

LEMMA InicioMarcos ==
    Init => MarcosOK
  BY DEF Init, MarcosOK, MarcoExclusivo, MarcoEnUsoOcupado, EnMano, ToSet

(* No frame is ever in two pages: not of two processes, whatever table     *)
(* each thread believes it is working on, nor twice in the same one.       *)
THEOREM NingunMarcoCompartido == Spec => []MarcoExclusivo
  <1>1. Inv /\ MarcosOK => MarcoExclusivo
    BY DEF MarcosOK
  <1> QED BY InicioTipos, InicioMarcos, PasoConservaTipos, PasoConservaMarcos, <1>1, PTL DEF Spec

(* A frame in a page is marked as taken in the bitmap, but for the one     *)
(* that is being assigned.                                                 *)
THEOREM MarcosEnUsoOcupados == Spec => []MarcoEnUsoOcupado
  <1>1. Inv /\ MarcosOK => MarcoEnUsoOcupado
    BY DEF MarcosOK
  <1> QED BY InicioTipos, InicioMarcos, PasoConservaTipos, PasoConservaMarcos, <1>1, PTL DEF Spec

-----------------------------------------------------------------------------
(* The promise of RESIZE_EXITOSO.  The count of free frames is taken a bit *)
(* at a time while the kernel thread may be freeing frames, which can only *)
(* make it fall short: CuentaOK is what is known at each point.            *)

LibresHasta(n) == {f \in Marcos : f < n /\ bit[f] = 0}

CuentaOK ==
    /\ pc["cpu"] = "contar" => libres <= Cardinality(LibresHasta(i))
    /\ pc["cpu"] = "responder" => i = 0 /\ libres <= Cardinality(LibresDesde(0))
    /\ ExitosoAlcanza

LEMMA MarcosFinitos ==
    ASSUME NEW S, S \subseteq Marcos
    PROVE  IsFiniteSet(S) /\ Cardinality(S) \in Nat
  <1>1. IsFiniteSet(Marcos)
    BY FS_Interval, MemoriaAssumption DEF Marcos
  <1> QED BY <1>1, FS_Subset, FS_CardinalityType

LEMMA CuantosCrecen ==
    ASSUME NEW S, NEW T, S \subseteq T, T \subseteq Marcos
    PROVE  Cardinality(S) <= Cardinality(T)
  BY MarcosFinitos, FS_Subset

LEMMA UnoMas ==
    ASSUME NEW S, NEW T, NEW x \in Marcos, S \subseteq T \cup {x}, T \subseteq Marcos
    PROVE  Cardinality(S) <= Cardinality(T) + 1
  <1>1. T \cup {x} \subseteq Marcos
    OBVIOUS
  <1>2. Cardinality(S) <= Cardinality(T \cup {x})
    BY <1>1, CuantosCrecen
  <1>3. Cardinality(T \cup {x}) <= Cardinality(T) + 1
    BY MarcosFinitos, FS_AddElement
  <1>4. /\ Cardinality(S) \in Nat /\ Cardinality(T) \in Nat /\ Cardinality(T \cup {x}) \in Nat
    BY <1>1, MarcosFinitos
  <1> QED BY <1>2, <1>3, <1>4

LEMMA UnoNuevo ==
    ASSUME NEW S, NEW T, NEW x \in Marcos, x \notin S, S \cup {x} \subseteq T, T \subseteq Marcos
    PROVE  Cardinality(S) + 1 <= Cardinality(T)
  <1>1. Cardinality(S \cup {x}) = Cardinality(S) + 1
    BY MarcosFinitos, FS_AddElement
  <1>2. Cardinality(S \cup {x}) <= Cardinality(T)
    BY CuantosCrecen
  <1> QED BY <1>1, <1>2

(* A step that takes no frame and is not the CPU thread's.                 *)
LEMMA CuentaAjena ==
    ASSUME Inv, CuentaOK, pc'["cpu"] = pc["cpu"], UNCHANGED <<i, libres, faltan, exitoso>>,
           \A f \in Marcos : bit[f] = 0 => bit'[f] = 0
    PROVE  CuentaOK'
  <1>1. /\ LibresHasta(i) \subseteq LibresHasta(i)' /\ LibresHasta(i)' \subseteq Marcos
        /\ LibresDesde(i) \subseteq LibresDesde(i)' /\ LibresDesde(i)' \subseteq Marcos
        /\ LibresDesde(0) \subseteq LibresDesde(0)' /\ LibresDesde(0)' \subseteq Marcos
    BY DEF LibresHasta, LibresDesde
  <1>2. /\ Cardinality(LibresHasta(i)) <= Cardinality(LibresHasta(i)')
        /\ Cardinality(LibresDesde(i)) <= Cardinality(LibresDesde(i)')
        /\ Cardinality(LibresDesde(0)) <= Cardinality(LibresDesde(0)')
    BY <1>1, CuantosCrecen
  <1>3. /\ Cardinality(LibresHasta(i)) \in Nat /\ Cardinality(LibresHasta(i)') \in Nat
        /\ Cardinality(LibresDesde(i)) \in Nat /\ Cardinality(LibresDesde(i)') \in Nat
        /\ Cardinality(LibresDesde(0)) \in Nat /\ Cardinality(LibresDesde(0)') \in Nat
    BY <1>1, MarcosFinitos
  <1>4. libres \in Nat /\ faltan \in Int
    BY DEF Inv, TypeOK
  <1> QED BY <1>2, <1>3, <1>4 DEF CuentaOK, ExitosoAlcanza

LEMMA ContarConservaCuenta ==
    ASSUME Inv, CuentaOK, ContarMarco
    PROVE  CuentaOK'
  <1>1. /\ pc["cpu"] = "contar" /\ i \in Nat /\ i <= CantMarcos /\ libres \in Nat
        /\ pc \in [Hilos -> PasosCpu \cup PasosKernel] /\ UNCHANGED bit
        /\ libres <= Cardinality(LibresHasta(i))
    BY DEF ContarMarco, Inv, TypeOK, Control, CuentaOK, PasosCpu, PasosKernel, Trabajando, vMarcos
  <1>2. CASE i < CantMarcos
    <2>1. i \in Marcos /\ bit[i] \in {0, 1}
      BY <1>1, <1>2, MemoriaAssumption DEF Marcos, Inv, TypeOK
    <2>2. libres' = libres + (1 - bit[i]) /\ i' = i + 1 /\ pc'["cpu"] = "contar"
      BY <1>1, <1>2 DEF ContarMarco
    <2> DEFINE T == {f \in Marcos : f < i + 1 /\ bit[f] = 0}
    <2>3. LibresHasta(i)' = T
      BY <1>1, <2>2 DEF LibresHasta
    <2>4. LibresHasta(i) \subseteq T /\ T \subseteq Marcos /\ i \notin LibresHasta(i)
      BY <1>1, <2>1 DEF LibresHasta, Marcos
    <2>5. bit[i] = 0 => LibresHasta(i) \cup {i} \subseteq T
      BY <1>1, <2>1, <2>4
    <2> HIDE DEF T
    <2>6. Cardinality(LibresHasta(i)) + (1 - bit[i]) <= Cardinality(T)
      <3>1. Cardinality(LibresHasta(i)) <= Cardinality(T)
        BY <2>4, CuantosCrecen
      <3>2. bit[i] = 0 => Cardinality(LibresHasta(i)) + 1 <= Cardinality(T)
        BY <2>1, <2>4, <2>5, UnoNuevo
      <3>3. Cardinality(LibresHasta(i)) \in Nat /\ Cardinality(T) \in Nat
        BY <2>4, MarcosFinitos
      <3> QED BY <2>1, <3>1, <3>2, <3>3
    <2>7. Cardinality(LibresHasta(i)) \in Nat /\ Cardinality(T) \in Nat
      BY <2>4, MarcosFinitos
    <2>8. libres' <= Cardinality(LibresHasta(i)')
      BY <1>1, <2>1, <2>2, <2>3, <2>6, <2>7
    <2> QED BY <2>2, <2>8 DEF CuentaOK, ExitosoAlcanza
  <1>3. CASE ~(i < CantMarcos)
    <2>1. i = CantMarcos /\ i' = 0 /\ pc'["cpu"] = "responder" /\ libres' = libres
      BY <1>1, <1>3, MemoriaAssumption DEF ContarMarco, Salta
    <2>2. LibresDesde(0)' = LibresHasta(i)
      BY <1>1, <2>1, MemoriaAssumption DEF LibresHasta, LibresDesde, Marcos
    <2> QED BY <1>1, <2>1, <2>2 DEF CuentaOK, ExitosoAlcanza
  <1> QED BY <1>2, <1>3

LEMMA ResponderConservaCuenta ==
    ASSUME Inv, CuentaOK, ResponderAmpliacion
    PROVE  CuentaOK'
  <1>1. /\ pc["cpu"] = "responder" /\ pc'["cpu"] = "asignar" /\ exitoso' = (faltan <= libres)
        /\ UNCHANGED <<i, faltan, libres, bit>> /\ faltan \in Int /\ libres \in Nat
    BY DEF ResponderAmpliacion, Salta, Inv, TypeOK, vMarcos
  <1>2. i = 0 /\ libres <= Cardinality(LibresDesde(0))
    BY <1>1 DEF CuentaOK
  <1>3. LibresDesde(i)' = LibresDesde(0) /\ Cardinality(LibresDesde(0)) \in Nat
    BY <1>1, <1>2, MarcosFinitos DEF LibresDesde
  <1>4. exitoso' => faltan <= libres
    BY <1>1
  <1>5. faltan <= libres => faltan' <= Cardinality(LibresDesde(i)')
    BY <1>1, <1>2, <1>3
  <1> QED BY <1>1, <1>4, <1>5 DEF CuentaOK, ExitosoAlcanza

LEMMA AsignarConservaCuenta ==
    ASSUME Inv, CuentaOK, SaltarMarco \/ AgregarPagina \/ MarcarMarco
    PROVE  CuentaOK'
  <1> USE DEF Inv, TypeOK, Salta, vMarcos, vResize
  <1>1. /\ pc["cpu"] \in {"asignar", "marcar"} /\ pc'["cpu"] \in {"asignar", "marcar"}
        /\ exitoso' = exitoso /\ i \in Nat /\ faltan \in Int
    BY DEF SaltarMarco, AgregarPagina, MarcarMarco
  <1> SUFFICES ASSUME exitoso, faltan <= Cardinality(LibresDesde(i))
               PROVE  faltan' <= Cardinality(LibresDesde(i)')
    BY <1>1 DEF CuentaOK, ExitosoAlcanza
  <1>2. CASE SaltarMarco
    <2>1. LibresDesde(i)' = LibresDesde(i) /\ faltan' = faltan
      BY <1>1, <1>2, SMTT(30) DEF SaltarMarco, LibresDesde, Marcos
    <2> QED BY <2>1
  <1>3. CASE AgregarPagina
    <2>1. LibresDesde(i)' = LibresDesde(i) /\ faltan' = faltan
      BY <1>3 DEF AgregarPagina, LibresDesde
    <2> QED BY <2>1
  <1>4. CASE MarcarMarco
    <2>1. i \in Marcos /\ i' = i + 1 /\ faltan' = faltan - 1 /\ bit' = [bit EXCEPT ![i] = 1]
      BY <1>4 DEF MarcarMarco, Control
    <2>2. LibresDesde(i) \subseteq LibresDesde(i)' \cup {i} /\ LibresDesde(i)' \subseteq Marcos
      BY <1>1, <2>1, SMTT(30) DEF LibresDesde, Marcos
    <2>3. Cardinality(LibresDesde(i)) <= Cardinality(LibresDesde(i)') + 1
      BY <2>1, <2>2, UnoMas
    <2>4. Cardinality(LibresDesde(i)) \in Nat /\ Cardinality(LibresDesde(i)') \in Nat
      BY <2>2, MarcosFinitos DEF LibresDesde
    <2> QED BY <1>1, <2>1, <2>3, <2>4
  <1> QED BY <1>2, <1>3, <1>4

(* The steps of the CPU thread in no phase of an enlargement, the start of  *)
(* one, and its end.                                                       *)
LEMMA OtrosConservanCuenta ==
    ASSUME Inv, CuentaOK,
           \/ BuscarEnListaGlobal("cpu") \/ TamanioProceso \/ SinTabla \/ ReducirProceso
           \/ EliminarPagina \/ LiberarMarco("cpu", "eliminar") \/ ResponderReduccion
           \/ AmpliarProceso \/ FinAsignar \/ ResponderFrame
    PROVE  CuentaOK'
  <1> USE DEF Inv, TypeOK, Control, Salta, EmpezarBusqueda, Terminar, vMarcos, vBusqueda, vResize,
              vEntorno
  <1>1. CASE AmpliarProceso
    <2>1. pc'["cpu"] = "contar" /\ libres' = 0
      BY <1>1 DEF AmpliarProceso
    <2>2. Cardinality(LibresHasta(i)') \in Nat
      BY MarcosFinitos DEF LibresHasta
    <2> QED BY <2>1, <2>2 DEF CuentaOK, ExitosoAlcanza
  <1>2. CASE BuscarEnListaGlobal("cpu")
    <2>1. pc'["cpu"] \notin {"contar", "responder", "asignar", "marcar"}
      BY <1>2 DEF BuscarEnListaGlobal, Buscar, Comparar, Devolver
    <2> QED BY <2>1 DEF CuentaOK, ExitosoAlcanza
  <1>3. CASE TamanioProceso
    <2>1. pc'["cpu"] \notin {"contar", "responder", "asignar", "marcar"}
      BY <1>3 DEF TamanioProceso
    <2> QED BY <2>1 DEF CuentaOK, ExitosoAlcanza
  <1>4. CASE EliminarPagina \/ LiberarMarco("cpu", "eliminar")
    <2>1. pc'["cpu"] \notin {"contar", "responder", "asignar", "marcar"}
      BY <1>4 DEF EliminarPagina, LiberarMarco
    <2> QED BY <2>1 DEF CuentaOK, ExitosoAlcanza
  <1>5. CASE SinTabla \/ ReducirProceso \/ ResponderReduccion \/ FinAsignar \/ ResponderFrame
    <2>1. pc'["cpu"] \notin {"contar", "responder", "asignar", "marcar"}
      BY <1>5 DEF SinTabla, ReducirProceso, ResponderReduccion, FinAsignar, ResponderFrame
    <2> QED BY <2>1 DEF CuentaOK, ExitosoAlcanza
  <1> QED BY <1>1, <1>2, <1>3, <1>4, <1>5

LEMMA PasoConservaCuenta ==
    ASSUME Inv, CuentaOK, [Next]_vars
    PROVE  CuentaOK'
  <1>1. CASE HiloCpu
    BY <1>1, ContarConservaCuenta, ResponderConservaCuenta, AsignarConservaCuenta,
       OtrosConservanCuenta DEF HiloCpu
  <1>2. CASE LiberarMarco("kernel", "destruir")
    <2>1. /\ pc'["cpu"] = pc["cpu"] /\ UNCHANGED <<i, libres, faltan, exitoso>>
          /\ \A f \in Marcos : bit[f] = 0 => bit'[f] = 0
      BY <1>2 DEF LiberarMarco, Salta, vResize, Inv, TypeOK, Control
    <2> QED BY <2>1, CuentaAjena
  <1>3. CASE HiloKernel /\ ~LiberarMarco("kernel", "destruir")
    <2>1. pc'["cpu"] = pc["cpu"] /\ UNCHANGED <<i, libres, faltan, exitoso, bit>>
      BY <1>3 DEF HiloKernel, FinalizarProceso, BuscarEnListaGlobal, Buscar, Comparar, Devolver,
                  DestruirPagina, DestruirLista, Salta, EmpezarBusqueda, Terminar, vMarcos,
                  vBusqueda, vResize, Inv, TypeOK
    <2> QED BY <2>1, CuentaAjena
  <1>4. ASSUME NEW n, PedirResize(n) \/ PedirFrame(n) PROVE CuentaOK'
    <2>1. pc'["cpu"] = "buscar"
      BY <1>4 DEF PedirResize, PedirFrame, EmpezarBusqueda, Salta, Inv, TypeOK
    <2> QED BY <2>1 DEF CuentaOK, ExitosoAlcanza
  <1>5. CASE Entorno \/ \E p \in Pids : IniciarProceso(p)
    <2>1. UNCHANGED <<pc, i, libres, faltan, exitoso, bit>>
      BY <1>5 DEF Entorno, IniciarProceso, vMarcos, vResize
    <2> QED BY <2>1, CuentaAjena
  <1>6. CASE UNCHANGED vars
    BY <1>6, CuentaAjena DEF vars
  <1> QED BY <1>1, <1>2, <1>3, <1>4, <1>5, <1>6 DEF Next, Pedidos

(* RESIZE_EXITOSO, once sent, is kept: until the assignment ends there are *)
(* enough free frames ahead of the index for the pages that are left.      *)
THEOREM PromesaDeAmpliar == Spec => []ExitosoAlcanza
  <1>1. Init => CuentaOK
    BY DEF Init, CuentaOK, ExitosoAlcanza
  <1>2. CuentaOK => ExitosoAlcanza
    BY DEF CuentaOK
  <1> QED BY InicioTipos, PasoConservaTipos, PasoConservaCuenta, <1>1, <1>2, PTL DEF Spec
=============================================================================
