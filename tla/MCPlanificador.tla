--------------------------- MODULE MCPlanificador ---------------------------
(* Model values and symmetry for the TLC runs of Planificador.             *)
EXTENDS Planificador, TLC

Simetria == Permutations(Procesos)
=============================================================================
