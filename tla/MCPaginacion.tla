---------------------------- MODULE MCPaginacion ----------------------------
(* Paginacion on a small memory.                                           *)
EXTENDS Paginacion, TLC

Simetria == Permutations(Pids)
=============================================================================
