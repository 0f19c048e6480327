----------------------------- MODULE MCInterfacesIO -----------------------------
EXTENDS InterfacesIO, TLC

Simetria == Permutations(Procesos) \cup Permutations(Nombres)
=============================================================================
