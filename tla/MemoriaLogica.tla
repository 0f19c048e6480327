----------------------------- MODULE MemoriaLogica -----------------------------
(***************************************************************************)
(* What memory promises a process, whatever TLB, frames and page tables    *)
(* are behind it: an array of bytes of its own.  Bytes written are bytes   *)
(* read, nobody else's instruction changes them, and growing keeps them.   *)
(*                                                                         *)
(* The code makes three exceptions.  A process that shrank, or whose STDIN *)
(* crossed a page, may find its bytes anywhere in its own array.  A read   *)
(* that crosses a page, or meets a zero byte, may return anything.  An     *)
(* address out of the array is written in silence, and nothing is written. *)
(***************************************************************************)
EXTENDS Integers, Sequences, SequencesExt

CONSTANTS Pids, Byte, CERO, TamPagina, Dirs, Largos

VARIABLES
    memoria,     \* per process, its bytes by logical address
    inestable,   \* processes whose array is no longer promised to be in order
    leido        \* what the executing process has read and not yet written

vars == <<memoria, inestable, leido>>

Init ==
    /\ memoria = [p \in Pids |-> <<>>]
    /\ inestable = {}
    /\ leido = <<>>

EnUnaPagina(l, n) == l \div TamPagina = (l + n - 1) \div TamPagina
Dentro(p, l, n) == l + n <= Len(memoria[p])
SoloCambia(p) == \A q \in Pids \ {p} : memoria'[q] = memoria[q]

(* The array of p with the bytes s from address l on.                      *)
Con(p, l, s) ==
    [k \in DOMAIN memoria[p] |-> IF k - 1 \in l..(l + Len(s) - 1) THEN s[k - l] ELSE memoria[p][k]]

(* p, whose array is in order, writes s at l; out of it, nothing.          *)
Guarda(p, l, s) ==
    /\ p \notin inestable /\ UNCHANGED inestable
    /\ EnUnaPagina(l, Len(s))
    /\ memoria' = IF Dentro(p, l, Len(s)) THEN [memoria EXCEPT ![p] = Con(p, l, s)] ELSE memoria

(* What the others write falls in some place of their own.                 *)
Desordena(p) ==
    /\ p \in inestable /\ UNCHANGED inestable
    /\ Len(memoria'[p]) = Len(memoria[p]) /\ SoloCambia(p)

Veces(n, d) == [k \in 1..n |-> d]

(* An instruction, or an interface while another program runs, writes.     *)
Escribe(p, l, s) ==
    /\ Desordena(p) \/ Guarda(p, l, s)
    /\ leido' \in {leido, <<>>}

(* A copy writes what was read, or the part of it that fits in the page.   *)
Copia(p, l, n) ==
    /\ n <= Len(leido)
    /\ Desordena(p) \/ Guarda(p, l, SubSeq(leido, 1, n))
    /\ leido' \in {SubSeq(leido, n + 1, Len(leido)), <<>>}

Lee(p, l, n) ==
    /\ (/\ p \notin inestable /\ EnUnaPagina(l, n) /\ Dentro(p, l, n)
        /\ CERO \notin ToSet(SubSeq(memoria[p], l + 1, l + n)))
       => leido' = SubSeq(memoria[p], l + 1, l + n)
    /\ UNCHANGED <<memoria, inestable>>

Agranda(p) ==
    /\ IsPrefix(memoria[p], memoria'[p]) /\ SoloCambia(p)
    /\ leido' = <<>> /\ UNCHANGED inestable

Achica(p) ==
    /\ IsPrefix(memoria'[p], memoria[p]) /\ SoloCambia(p)
    /\ inestable' = inestable \cup {p} /\ leido' \in {leido, <<>>}

(* An interface is asked for; STDIN may have to cross a page.              *)
Pide(p) ==
    /\ inestable' \in {inestable, inestable \cup {p}}
    /\ leido' = <<>> /\ UNCHANGED memoria

Olvida == leido' \in {leido, <<>>} /\ UNCHANGED <<memoria, inestable>>

Next ==
    \/ Olvida
    \/ \E p \in Pids :
          \/ Agranda(p) \/ Achica(p) \/ Pide(p)
          \/ \E l \in Dirs, n \in Largos :
                Copia(p, l, n) \/ Lee(p, l, n) \/ \E d \in Byte : Escribe(p, l, Veces(n, d))

Spec == Init /\ [][Next]_vars
=============================================================================
