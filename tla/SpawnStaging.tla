---------------------------- MODULE SpawnStaging ----------------------------
(***************************************************************************)
(* Starting a program (kernel/src/syscall.rs, the SPAWN_STAGE, ARGS_STAGE, *)
(* CWD_STAGE, ENV_STAGE and SPAWN arms): one set of staging buffers, filled *)
(* over many system calls, owned by one task at a time, and handed to the  *)
(* child; and the bump allocator its memory comes from (tasks.rs).         *)
(*                                                                         *)
(* One step is one kernel entry.  What a byte says is left out: a byte is  *)
(* the generation of the task that wrote it for the spawn it is preparing, *)
(* or 0 once that spawn is over or was started again.                      *)
(***************************************************************************)
EXTENDS Naturals

CONSTANTS
  NUM_TASKS,        \* slots in the task table
  FIRST_SPAWNABLE,  \* slots below it hold the shell and the servers
  Failing,          \* the servers that fail and are restarted
  Blobs,            \* the argument, directory and environment buffers
  Latched,          \* those whose length is not an argument of SPAWN
  Size,             \* bytes in each buffer
  RamBlocks,        \* bound: memory, in regions
  MaxAsked,         \* bound: lengths SPAWN is asked for
  MaxGeneration     \* bound: occupants of slots in one behaviour

Slots == 0 .. NUM_TASKS - 1
Spawnable == FIRST_SPAWNABLE .. NUM_TASKS - 1
IMAGE == "image"
Buffers == Blobs \union {IMAGE}
Cells(b) == 1 .. Size[b]
NoTask == <<0, 0>>      \* SPAWN_STAGER when nobody holds the staging
NoRegion == 0           \* REGIONS of a boot task is not the allocator's

ASSUME SlotsAssumption ==
  /\ NUM_TASKS \in Nat /\ FIRST_SPAWNABLE \in Nat
  /\ 0 < FIRST_SPAWNABLE /\ FIRST_SPAWNABLE < NUM_TASKS
  /\ Failing \subseteq Slots \ Spawnable
ASSUME BuffersAssumption ==
  /\ Latched \subseteq Blobs /\ IMAGE \notin Blobs
  /\ Size \in [Buffers -> Nat \ {0}]
ASSUME BoundAssumption == RamBlocks \in Nat /\ MaxAsked \in Nat /\ MaxGeneration \in Nat

VARIABLES
  state,    \* STATES: "Unused", "Live" or "Zombie"
  gen,      \* GENERATIONS
  nextGen,  \* NEXT_GENERATION
  stager,   \* SPAWN_STAGER: a slot and a generation
  staged,   \* STAGED_IMAGE_END, STAGED_ARGV_LEN, STAGED_CWD_LEN, PENDING_ENV_LEN
  buffer,   \* SPAWN_STAGING, ARGS_STAGING, CWD_STAGING, ENV_STAGING
  top,      \* NEXT_RUNTIME_REGION_TOP
  region,   \* REGIONS: the region of each task started at run time
  store,    \* what each task was given: its image, ARGVS, CWDS, ENVS
  by        \* history: who spawned it

vars == <<state, gen, nextGen, stager, staged, buffer, top, region, store, by>>

TypeOK ==
  /\ state \in [Slots -> {"Unused", "Live", "Zombie"}]
  /\ nextGen \in Nat
  /\ gen \in [Slots -> 0 .. nextGen - 1] /\ by \in [Slots -> 0 .. nextGen - 1]
  /\ stager \in Slots \X (0 .. nextGen - 1)
  /\ staged \in [Buffers -> Nat] /\ \A b \in Buffers : staged[b] <= Size[b]
  /\ \A b \in Buffers : buffer[b] \in [Cells(b) -> 0 .. nextGen - 1]
  /\ top \in 0 .. RamBlocks
  /\ region \in [Slots -> 0 .. RamBlocks]
  /\ store \in [Slots -> [Buffers -> SUBSET (0 .. nextGen - 1)]]

\* The shell and the servers, in memory of their own.
Init ==
  /\ state = [t \in Slots |-> IF t \in Spawnable THEN "Unused" ELSE "Live"]
  /\ gen = [t \in Slots |-> IF t \in Spawnable THEN 0 ELSE t + 1]
  /\ nextGen = FIRST_SPAWNABLE + 1
  /\ stager = NoTask
  /\ staged = [b \in Buffers |-> 0]
  /\ buffer = [b \in Buffers |-> [c \in Cells(b) |-> 0]]
  /\ top = RamBlocks
  /\ region = [t \in Slots |-> NoRegion]
  /\ store = [t \in Slots |-> [b \in Buffers |-> {}]]
  /\ by = [t \in Slots |-> 0]

\* The tables, threaded through the operators below.
Kernel == [state |-> state, gen |-> gen, nextGen |-> nextGen, stager |-> stager,
           staged |-> staged, buffer |-> buffer, top |-> top, region |-> region,
           store |-> store, by |-> by]

Become(k) ==
  /\ state' = k.state /\ gen' = k.gen /\ nextGen' = k.nextGen
  /\ stager' = k.stager /\ staged' = k.staged /\ buffer' = k.buffer
  /\ top' = k.top /\ region' = k.region /\ store' = k.store /\ by' = k.by

----------------------------------------------------------------------------
\* The staging and its owner.

\* release_staging: no owner, and nothing staged; the bytes stay.
release_staging(k) ==
  [k EXCEPT !.stager = NoTask, !.staged = [b \in Buffers |-> 0]]

\* A mutant: left to be healed.
release_staging_of_never(k, t) == k

\* release_staging_of: the staging of a task that ends.
release_staging_of(k, t) ==
  IF k.stager # NoTask /\ k.stager[1] = t THEN release_staging(k) ELSE k

task_id_of(k, t) == <<t, k.gen[t]>>
live_occupant(k, id) == k.state[id[1]] = "Live" /\ k.gen[id[1]] = id[2]

\* staging_state, its answer.
Mine(k, me) == k.stager # NoTask /\ k.stager = task_id_of(k, me)
Held(k, me) == ~Mine(k, me) /\ k.stager # NoTask /\ live_occupant(k, k.stager)

\* staging_state, what it does on the way: the staging of nobody is cleared.
staging_state(k, me) == IF Mine(k, me) \/ Held(k, me) THEN k ELSE release_staging(k)

\* claim_from, for a caller not refused.
claim_staging(k, me) == [staging_state(k, me) EXCEPT !.stager = task_id_of(k, me)]

\* History: what task g wrote is no part of the spawn it prepares from now on.
Forget(k, g) ==
  [k EXCEPT !.buffer = [b \in Buffers |->
     [c \in Cells(b) |-> IF k.buffer[b][c] = g THEN 0 ELSE k.buffer[b][c]]]]

\* Bytes from .. to of a buffer as me writes them.
Overwritten(k, me, b, from, to) ==
  [x \in Buffers |-> [c \in Cells(x) |->
     IF x = b /\ c \in from .. to THEN k.gen[me] ELSE k.buffer[x][c]]]

\* A staging call's copy, and its latch.
Written(k, me, b, from, to) ==
  [k EXCEPT !.buffer = Overwritten(k, me, b, from, to), !.staged[b] = to]

----------------------------------------------------------------------------
\* Memory.

allocate_runtime_region(k) == [k EXCEPT !.top = @ - 1]

\* A mutant: whatever is freed is the top.
free_runtime_region_always(k, base) ==
  IF base = NoRegion THEN k ELSE [k EXCEPT !.top = base]

\* free_runtime_region: given back only when it was the last one handed out.
\* Region r lies between top r - 1 and top r.
free_runtime_region(k, base) ==
  IF base # NoRegion /\ k.top = base - 1 THEN [k EXCEPT !.top = base] ELSE k

\* end_task, the tables of this module.
end_task(k, t, final) ==
  LET k1 == release_staging_of(free_runtime_region(k, k.region[t]), t)
  IN  [k1 EXCEPT !.state[t] = final, !.region[t] = NoRegion,
                 !.store[t] = [b \in Buffers |-> {}], !.by[t] = 0]

\* A new occupant in slot t, in the region just handed out.
Occupied(k, t) ==
  [k EXCEPT !.state[t] = "Live", !.gen[t] = k.nextGen, !.nextGen = @ + 1,
            !.region[t] = k.top + 1]

----------------------------------------------------------------------------
\* System calls.
Calling(me) == state[me] = "Live"

\* A mutant: the end is a high-water mark, and a chunk may start anywhere.
MayStart_anywhere(k, me, offset) == TRUE

\* SPAWN_STAGE's order check: at 0, or where the owner's last chunk ended.
MayStart(k, me, offset) ==
  offset = 0 \/ (Mine(k, me) /\ offset = k.staged[IMAGE])

\* A chunk at 0 starts the spawn over.
RestartedAt(k, me, offset) ==
  IF offset = 0
  THEN [Forget(k, k.gen[me]) EXCEPT
                 !.staged = [b \in Buffers |-> IF b = IMAGE THEN k.staged[b] ELSE 0]]
  ELSE k

SPAWN_STAGE(me, offset, len) ==
  /\ Calling(me) /\ ~Held(Kernel, me)
  /\ offset + len <= Size[IMAGE]
  /\ Become(IF MayStart(Kernel, me, offset)
            THEN Written(RestartedAt(claim_staging(Kernel, me), me, offset),
                         me, IMAGE, offset + 1, offset + len)
            ELSE staging_state(Kernel, me))

\* ARGS_STAGE, CWD_STAGE and ENV_STAGE.
BlobStage(me, b, len) ==
  /\ Calling(me) /\ ~Held(Kernel, me)
  /\ Become(Written(claim_staging(Kernel, me), me, b, 1, len))

Lesser(x, y) == IF x < y THEN x ELSE y

\* How much of blob b a child is given: no more than was staged.
HandedLength(k, b, asked) ==
  IF b \in Latched THEN k.staged[b] ELSE Lesser(asked[b], k.staged[b])

\* What a child is given: the image, and each blob that is not empty.
Handed(k, old, size, asked) ==
  [b \in Buffers |->
     IF b = IMAGE THEN {k.buffer[b][c] : c \in 1 .. size}
     ELSE IF HandedLength(k, b, asked) = 0 THEN old[b]
     ELSE {k.buffer[b][c] : c \in 1 .. HandedLength(k, b, asked)}]

\* SPAWN by the owner, refused before anything is allocated: a bad total,
\* stdout or image, or a stager giving up.
SpawnRefused(me) ==
  /\ Calling(me) /\ Mine(Kernel, me)
  /\ Become(Forget(release_staging(Kernel), gen[me]))

\* SPAWN by the owner, failing once its region is allocated: the image does
\* not load, or no slot is free.
SpawnFails(me) ==
  /\ Calling(me) /\ Mine(Kernel, me) /\ top > 0
  /\ LET k == allocate_runtime_region(Kernel)
     IN  Become(Forget(release_staging(free_runtime_region(k, k.top + 1)), gen[me]))

\* SPAWN by the owner, of size bytes, into the first unused slot.
SPAWN(me, i, size, asked) ==
  /\ Calling(me) /\ Mine(Kernel, me) /\ top > 0 /\ nextGen <= MaxGeneration
  /\ 0 < size /\ size <= staged[IMAGE]
  /\ state[i] = "Unused" /\ \A j \in Spawnable : j < i => state[j] # "Unused"
  /\ LET k == Occupied(allocate_runtime_region(Kernel), i)
     IN  Become(Forget(release_staging(
           [k EXCEPT !.store[i] = Handed(Kernel, store[i], size, asked), !.by[i] = gen[me]]),
           gen[me]))

\* SPAWN of what nobody staged.
SpawnNothing(me) ==
  /\ Calling(me) /\ ~Mine(Kernel, me) /\ ~Held(Kernel, me)
  /\ Become(staging_state(Kernel, me))

EXIT(t) ==
  /\ t \in Spawnable /\ state[t] = "Live"
  /\ Become(end_task(Kernel, t, "Zombie"))

Killed(t) ==
  /\ t \in Spawnable /\ state[t] = "Live"
  /\ Become(end_task(Kernel, t, "Unused"))

try_reap(t) ==
  /\ state[t] = "Zombie"
  /\ Become([Kernel EXCEPT !.state[t] = "Unused"])

\* A server fails, and is restarted in a fresh region, or not.
ServerEnds(s, again) ==
  /\ s \in Failing /\ state[s] = "Live"
  /\ LET k == end_task(Kernel, s, "Unused")
     IN  IF again
         THEN /\ k.top > 0 /\ nextGen <= MaxGeneration
              /\ Become(Occupied(allocate_runtime_region(k), s))
         ELSE Become(k)

Next ==
  \/ \E me \in Slots, offset \in 0 .. Size[IMAGE] - 1, len \in 1 .. Size[IMAGE] :
       SPAWN_STAGE(me, offset, len)
  \/ \E me \in Slots, b \in Blobs : \E len \in Cells(b) : BlobStage(me, b, len)
  \/ \E me \in Slots : SpawnRefused(me) \/ SpawnFails(me) \/ SpawnNothing(me)
  \/ \E me \in Slots, i \in Spawnable, size \in Cells(IMAGE),
        asked \in [Blobs \ Latched -> 0 .. MaxAsked] : SPAWN(me, i, size, asked)
  \/ \E t \in Slots : EXIT(t) \/ Killed(t) \/ try_reap(t)
  \/ \E s \in Slots, again \in BOOLEAN : ServerEnds(s, again)

Spec == Init /\ [][Next]_vars

----------------------------------------------------------------------------
\* A program is made of its spawner's bytes: every byte of the image and the
\* blobs it was started with was staged by the task that spawned it, for that
\* very spawn (claim_staging, STAGED_IMAGE_END and the other latches), however
\* many tasks were staging, gave up or died in between.
ChildIsItsSpawners ==
  \A t \in Slots, b \in Buffers : store[t][b] \subseteq {by[t]} /\ 0 \notin store[t][b]

\* The staging is never held by a task that is gone (release_staging_of in
\* end_task), so no death keeps the others from spawning.
StagerLives == stager # NoTask => live_occupant(Kernel, stager)

\* No two tasks are in the same memory, and none is in memory still to be
\* handed out, in whatever order regions come back (free_runtime_region).
RegionsAreDisjoint ==
  /\ \A s, t \in Slots : s # t /\ region[s] = region[t] => region[s] = NoRegion
  /\ \A t \in Slots : region[t] # NoRegion => top < region[t]
============================================================================
