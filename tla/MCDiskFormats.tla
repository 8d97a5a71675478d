--------------------------- MODULE MCDiskFormats ---------------------------
(* The three disk formats, each on volumes too small to be roomy: the names  *)
(* and directories of one (A), the contents of another (B); for exFAT a      *)
(* volume with another system's directory (C), for ext2 one with a hard link *)
(* (C) and one that is soon full (D).  A behaviour stays on the volume it     *)
(* began on.                                                                 *)
EXTENDS Naturals, Sequences

VARIABLES which, v, shown, done, flag, faults, ops

vars == <<which, v, shown, done, flag, faults, ops>>

Deep == {<<"a">>, <<"b">>, <<"a", "b">>, <<"b", "b">>}
Flat == {<<"a">>, <<"b">>}
Within == {<<"a">>, <<"a", "b">>, <<"a", "x">>}
Short == {<<1>>}
ShortAndLong == {<<1>>, <<1, 1, 1>>}
ShortAndDouble == {<<1>>, <<1, 1, 1, 1>>}

FatA == INSTANCE Fat32 WITH broken <- flag,
    ShortNames <- {"a"}, LongNames <- {"b"}, Paths <- Deep, DirPaths <- Deep,
    Contents <- Short, Pieces <- Short, Offsets <- {}, ClusterEnd <- 6, Slots <- 4, Units <- 2,
    MaxOps <- 4, Refusals <- 0 .. 7
FatB == INSTANCE Fat32 WITH broken <- flag,
    ShortNames <- {"a"}, LongNames <- {"b"}, Paths <- Flat, DirPaths <- {},
    Contents <- ShortAndLong, Pieces <- Short, Offsets <- {1, 3}, ClusterEnd <- 6, Slots <- 4, Units <- 2,
    MaxOps <- 3, Refusals <- {}
ExfatA == INSTANCE Exfat WITH said <- flag,
    Paths <- Deep, DirPaths <- Deep, Contents <- Short, Pieces <- Short, Offsets <- {},
    ClusterEnd <- 7, FatSector <- 4, Slots <- 4, Units <- 2, Volumes <- {"formatted"},
    MaxOps <- 3, MaxFaults <- 1, Refusals <- 0 .. 10
ExfatB == INSTANCE Exfat WITH said <- flag,
    Paths <- Flat, DirPaths <- {}, Contents <- ShortAndLong, Pieces <- Short, Offsets <- {1, 3},
    ClusterEnd <- 7, FatSector <- 4, Slots <- 4, Units <- 2, Volumes <- {"run"},
    MaxOps <- 3, MaxFaults <- 1, Refusals <- 0 .. 10
ExfatC == INSTANCE Exfat WITH said <- flag,
    Paths <- Within, DirPaths <- {<<"a", "b">>}, Contents <- Short, Pieces <- Short, Offsets <- {},
    ClusterEnd <- 7, FatSector <- 4, Slots <- 4, Units <- 2, Volumes <- {"dir", "bare"},
    MaxOps <- 3, MaxFaults <- 1, Refusals <- 0 .. 12
ExtA == INSTANCE Ext2 WITH broken <- flag, leaks <- faults,
    Paths <- Deep, DirPaths <- Deep, Contents <- Short, Pieces <- Short, Offsets <- {},
    InodeEnd <- 6, BlockEnd <- 6, Direct <- 2, Per <- 2, Slots <- 3, Units <- 2, Foreign <- FALSE,
    MaxOps <- 3, Refusals <- 0 .. 14
ExtB == INSTANCE Ext2 WITH broken <- flag, leaks <- faults,
    Paths <- Flat, DirPaths <- {}, Contents <- ShortAndDouble, Pieces <- Short, Offsets <- {1, 3},
    InodeEnd <- 6, BlockEnd <- 10, Direct <- 1, Per <- 2, Slots <- 4, Units <- 1, Foreign <- FALSE,
    MaxOps <- 4, Refusals <- 0 .. 14
ExtC == INSTANCE Ext2 WITH broken <- flag, leaks <- faults,
    Paths <- Flat, DirPaths <- {}, Contents <- ShortAndDouble, Pieces <- Short, Offsets <- {1, 3},
    InodeEnd <- 6, BlockEnd <- 10, Direct <- 1, Per <- 2, Slots <- 4, Units <- 1, Foreign <- TRUE,
    MaxOps <- 3, Refusals <- 0 .. 14
ExtD == INSTANCE Ext2 WITH broken <- flag, leaks <- faults,
    Paths <- Deep, DirPaths <- Deep, Contents <- Short, Pieces <- Short, Offsets <- {},
    InodeEnd <- 6, BlockEnd <- 4, Direct <- 2, Per <- 2, Slots <- 3, Units <- 2, Foreign <- FALSE,
    MaxOps <- 4, Refusals <- {}

Init ==
    \/ which = "FatA" /\ FatA!Init /\ faults = 0
    \/ which = "FatB" /\ FatB!Init /\ faults = 0
    \/ which = "ExfatA" /\ ExfatA!Init
    \/ which = "ExfatB" /\ ExfatB!Init
    \/ which = "ExfatC" /\ ExfatC!Init
    \/ which = "ExtA" /\ ExtA!Init
    \/ which = "ExtB" /\ ExtB!Init
    \/ which = "ExtC" /\ ExtC!Init
    \/ which = "ExtD" /\ ExtD!Init

Next ==
    /\ which' = which
    /\ \/ which = "FatA" /\ FatA!Next /\ UNCHANGED faults
       \/ which = "FatB" /\ FatB!Next /\ UNCHANGED faults
       \/ which = "ExfatA" /\ ExfatA!Next
       \/ which = "ExfatB" /\ ExfatB!Next
       \/ which = "ExfatC" /\ ExfatC!Next
       \/ which = "ExtA" /\ ExtA!Next
       \/ which = "ExtB" /\ ExtB!Next
       \/ which = "ExtC" /\ ExtC!Next
       \/ which = "ExtD" /\ ExtD!Next

Spec == Init /\ [][Next]_vars

\* Two states that differ in the last request alone go on in the same way: each
\* request is checked on the step that carries it out.
Standing == <<which, v, flag, faults, ops>>

\* Each driver implements Volume: whatever the format, a request changes the
\* names it was given, and no other, as Volume says of its answer, across cached
\* cursors, held allocations and a full volume, and is refused only when the
\* tree does not allow it (the hard-linked volume aside, where a write under one
\* name is read under the other).
KeepsItsTree ==
    [][/\ which = "FatA" => FatA!KeptStep
       /\ which = "FatB" => FatB!KeptStep
       /\ which = "ExfatA" => ExfatA!KeptStep
       /\ which = "ExfatB" => ExfatB!KeptStep
       /\ which = "ExfatC" => ExfatC!KeptStep
       /\ which = "ExtA" => ExtA!KeptStep
       /\ which = "ExtB" => ExtB!KeptStep
       /\ which = "ExtD" => ExtD!KeptStep]_<<shown, done>>

\* On exFAT, an operation the disk refused a write of is undone or done, never
\* between, unless the driver has said that an fsck is needed.
AllOrNothing ==
    [][/\ which = "ExfatA" => ExfatA!WholeStep
       /\ which = "ExfatB" => ExfatB!WholeStep
       /\ which = "ExfatC" => ExfatC!WholeStep]_<<shown, done>>

\* No name of an exFAT or ext2 volume leads to space that is free, wherever the
\* disk stopped taking writes; while it takes them, the tables of all three
\* agree with the tree, but for the inodes ext2 leaks to a name that found no
\* room.
TablesAgree ==
    /\ which = "FatA" => FatA!Sound
    /\ which = "FatB" => FatB!Sound
    /\ which = "ExfatA" => ExfatA!NoSetOverFreeClusters
    /\ which = "ExfatB" => ExfatB!NoSetOverFreeClusters
    /\ which = "ExfatC" => ExfatC!NoSetOverFreeClusters
    /\ which = "ExtA" => ExtA!Sound
    /\ which = "ExtB" => ExtB!Sound
    /\ which = "ExtC" => ExtC!Sound
    /\ which = "ExtD" => ExtD!Sound
=============================================================================
