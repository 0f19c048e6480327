---------------------------- MODULE MCAccesoMemoria ----------------------------
EXTENDS AccesoMemoria, TLC

Simetria == Permutations(Pids)
=============================================================================
