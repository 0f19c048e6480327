--------------------------- MODULE EstadosProceso ---------------------------
(***************************************************************************)
(* The process-state diagram the kernel promises: the states of t_estados  *)
(* (utils.h) and the transitions the headings of largoPlazo.c and          *)
(* cortoPlazo.c announce ("NEW -> READY", "READY -> EXEC", ...).           *)
(*                                                                         *)
(* This is the abstract specification of the kernel's scheduler.  It says  *)
(* nothing of queues, semaphores or threads: a process has one state, it   *)
(* is moved along the arrows of the diagram only, and no more than Grado   *)
(* processes are admitted (past NEW and before EXIT) at any moment.        *)
(***************************************************************************)
EXTENDS Naturals, FiniteSets

CONSTANTS
    Procesos,   \* the processes the console may ever start
    Grado       \* GRADO_MULTIPROGRAMACION of kernel.config

VARIABLE estado     \* estado[p]; "SIN_CREAR" before the console starts p

(* The processes that take up a unit of the multiprogramming degree. *)
Admitidos == {p \in Procesos : estado[p] \in {"READY", "READY+", "EXEC", "BLOCK"}}

Mover(p, de, a) ==
    /\ estado[p] = de
    /\ estado' = [estado EXCEPT ![p] = a]

(* The arrows of the diagram.                                              *)
Crear(p)       == Mover(p, "SIN_CREAR", "NEW")
Admitir(p)     == Cardinality(Admitidos) < Grado /\ Mover(p, "NEW", "READY")
Despachar(p)   == \E cola \in {"READY", "READY+"} : Mover(p, cola, "EXEC")
Desalojar(p)   == Mover(p, "EXEC", "READY")
Bloquear(p)    == Mover(p, "EXEC", "BLOCK")
Desbloquear(p) == \E cola \in {"READY", "READY+"} : Mover(p, "BLOCK", cola)
Terminar(p)    == Mover(p, "EXEC", "EXIT")

EstadosInit == estado = [p \in Procesos |-> "SIN_CREAR"]

EstadosNext ==
    \E p \in Procesos :
        \/ Crear(p) \/ Admitir(p) \/ Despachar(p) \/ Desalojar(p)
        \/ Bloquear(p) \/ Desbloquear(p) \/ Terminar(p)

EstadosSpec == EstadosInit /\ [][EstadosNext]_estado
=============================================================================
