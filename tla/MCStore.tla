------------------------------ MODULE MCStore -------------------------------
EXTENDS Store, TLC

CONSTANTS na, nb
Symmetry == Permutations(Names)

(* What is left in a block of no file is overwritten before it is read.     *)
BlocksOf(o) == Range(o.sec) \cup Range(IndexOf(o))
Reachable ==
    UNION {BlocksOf(disk.table[i]) : i \in NamedInos} \cup
    (IF file = Null THEN {} ELSE BlocksOf(file.inode))
InUse ==
    <<[disk EXCEPT !.data = [b \in Reachable \ {0} |-> @[b]]],
      mem, file, pending, halted, crashes, written>>
=============================================================================
