------------------------------- MODULE MCDirs -------------------------------
EXTENDS Dirs, TLC

CONSTANTS na, nb, pa, pb, pc
MCPrograms == <<pa, pb, pc>>
Symmetry == Permutations(Names)

(* After a stale inode or a replaced index the properties say nothing.      *)
Fresh == Sound

(* What is left in a block that is not in use is not read while no inode is *)
(* stale, nor the prompt once its directory is gone: two states that differ *)
(* in this only behave alike.                                               *)
InUse == <<ibits, bbits, table, [b \in bbits |-> content[b]], mem, cwd,
           IF gone THEN <<>> ELSE prompt, halted, gone, stale, forgot>>
=============================================================================
