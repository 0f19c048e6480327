------------------------------ MODULE MCDialFS ------------------------------
(* Symmetry and bound for the TLC run of DialFS.  The properties speak of  *)
(* sound disks; an unsound one is followed further only while nothing was  *)
(* written in it and no name is twice in the list.                         *)
EXTENDS DialFS

Simetria == Permutations(Archivos)

Cota ==
    Sano \/ /\ \A i \in Disco : bloques[i] = Vacio
            /\ Cardinality({e.nombre : e \in ToSet(archivos_fs)}) = Len(archivos_fs)
=============================================================================
