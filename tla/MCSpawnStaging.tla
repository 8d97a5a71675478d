--------------------------- MODULE MCSpawnStaging ---------------------------
(* Slots: 0 shell, 1 server, 2 program.  "argv" stands for the directory too. *)
EXTENDS SpawnStaging

SizeMC == [b \in Buffers |-> IF b = IMAGE THEN 2 ELSE 1]
============================================================================
