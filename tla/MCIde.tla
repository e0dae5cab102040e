-------------------------------- MODULE MCIde -------------------------------
(* Two clients on two disks of three sectors; a command moves two sectors.  *)
EXTENDS Ide

CONSTANTS p1, p2
MCRanges == {<<0, 3>>, <<2, 1>>}
MCPayload == [c \in Clients |-> IF c = p1 THEN <<1, 2, 3>> ELSE <<3, 1, 2>>]
=============================================================================
