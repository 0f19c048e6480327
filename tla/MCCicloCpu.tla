------------------------------ MODULE MCCicloCpu ------------------------------
(* Programs for TLC: one that computes for ever, and some that overflow a  *)
(* register and call the kernel in every way.  Nothing distinguishes one   *)
(* process from the other but the program it is given.                     *)
EXTENDS CicloCpu

I(op) == [op |-> op, r |-> "AX", n |-> 0, o |-> "AX"]
SetR(r, n) == [I("SET") EXCEPT !.r = r, !.n = n]
Con(op, r, o) == [I(op) EXCEPT !.r = r, !.o = o]
JnzR(r, n) == [I("JNZ") EXCEPT !.r = r, !.n = n]

Bucle == <<SetR("AX", 300), SetR("PC", 0)>>
Disco == <<Con("SUB", "EAX", "AX"), SetR("SI", 3), I("IO_FS"), Con("SUM", "AX", "SI"), I("RESIZE"), I("EXIT")>>
Traba == <<I("WAIT"), SetR("AX", 260), I("SIGNAL"), JnzR("AX", 7), I("IO"), I("EXIT")>>
ProgramasMC == {Bucle, Disco, Traba}

(* Which process has which program does not matter: one of them, p1, has    *)
(* Traba, and the other any of the other two.                              *)
CONSTANT p1
Reparto == programa[p1] = Traba /\ \A p \in Procesos \ {p1} : programa[p] # Traba
=============================================================================
