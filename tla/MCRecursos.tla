------------------------------ MODULE MCRecursos ------------------------------
(* Programs for TLC: the shapes of LOCK_A to LOCK_D, and shorter ones that  *)
(* keep what they took, wait twice, or name a resource that does not exist. *)
EXTENDS Recursos

CONSTANTS RA, RB, RX

I(o, x) == [op |-> o, r |-> x]
Sale2 == I("EXIT", NULO)
Set1 == I("SET", NULO)
CruceAB == <<I("WAIT", RA), I("WAIT", RB), I("SIGNAL", RA), I("SIGNAL", RB), Sale2>>
CruceBA == <<I("WAIT", RB), I("WAIT", RA), I("SIGNAL", RB), I("SIGNAL", RA), Sale2>>
Devuelto == <<I("WAIT", RA), Set1, I("SIGNAL", RA), Sale2>>
Retenido == <<I("WAIT", RA), Set1, Sale2>>
Doble == <<I("WAIT", RA), I("WAIT", RA), Sale2>>
Invalido == <<I("WAIT", RX), Sale2>>

DosVeces == <<I("WAIT", RA), Set1, I("SIGNAL", RA), I("WAIT", RA), Set1, I("SIGNAL", RA), Sale2>>
UnoSolo == {Devuelto, Retenido, Doble, DosVeces}
ProgramasMC == {CruceAB, CruceBA, Devuelto, Retenido, Doble, Invalido}
InstanciasMC == [r \in Recursos |-> 1]
=============================================================================
