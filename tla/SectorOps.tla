----------------------------- MODULE SectorOps ------------------------------
(* Ranges of sectors of the disks of a channel, m[hd][lba].                 *)
EXTENDS Integers, Sequences

(* cnt sectors from lba on.                                                 *)
SectorsAt(m, hd, lba, cnt) == [i \in 1 .. cnt |-> m[hd][lba + i - 1]]

(* m with the sectors of data written from lba on.                          *)
Stored(m, hd, lba, data) ==
    [m EXCEPT ![hd] = [l \in DOMAIN m[hd] |->
        IF l \in lba .. lba + Len(data) - 1 THEN data[l - lba + 1] ELSE m[hd][l]]]
=============================================================================
