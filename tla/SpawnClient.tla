----------------------------- MODULE SpawnClient -----------------------------
(***************************************************************************)
(* The two callers that start programs, over the kernel's staging          *)
(* (SpawnStaging): the shell's spawn_path and the network server's         *)
(* cpu_spawn.  Each reads a file in pieces, stages it in chunks, stages    *)
(* the arguments (the shell also its directory and environment) and        *)
(* spawns.  Their system calls interleave, reads fail, files end anywhere, *)
(* and the network server is restarted.                                    *)
(***************************************************************************)
EXTENDS SpawnStaging

CONSTANTS
  SHELL, NET_TASK,   \* their slots
  READ               \* chunks in the read buffer

VARIABLE cl          \* per caller: the step it is at, what it staged, what it holds read

clVars == <<vars, cl>>

Clients == {SHELL, NET_TASK}
Quiet == [at |-> "idle", off |-> 0, held |-> 0]
At(me, step) == Calling(me) /\ cl[me].at = step
Go(me, step) == cl' = [cl EXCEPT ![me].at = step]
Return(me) == cl' = [cl EXCEPT ![me] = Quiet]

\* A command line found to name a program: exec, a word in PATH, a stage of a
\* pipeline; or a remote run.
Begins(me) ==
  /\ At(me, "idle") /\ Go(me, "read") /\ UNCHANGED vars

\* abandon_staging after a read that fails half way, nothing before.
AfterFailedRead(c) == IF c.off > 0 THEN [c EXCEPT !.at = "abandon"] ELSE Quiet

ReadFails(me) ==
  /\ At(me, "read")
  /\ cl' = [cl EXCEPT ![me] = AfterFailedRead(@)] /\ UNCHANGED vars

\* n chunks, none at the end of the file; a program with no bytes is refused.
ReadChunks(me, n) ==
  /\ At(me, "read")
  /\ cl' = [cl EXCEPT ![me] = IF n > 0 THEN [@ EXCEPT !.at = "stage", !.held = n]
                              ELSE IF @.off = 0 THEN Quiet ELSE [@ EXCEPT !.at = "args"]]
  /\ UNCHANGED vars

\* A chunk: staged; refused because another caller holds the staging, and then
\* nothing is its own to give up; refused for another reason.
StageChunk(me) ==
  /\ At(me, "stage")
  /\ LET c == cl[me]
         fits == c.off + 1 <= Size[IMAGE]
     IN  IF Held(Kernel, me) THEN Return(me) /\ UNCHANGED vars
         ELSE IF fits /\ MayStart(Kernel, me, c.off)
         THEN /\ SPAWN_STAGE(me, c.off, 1)
              /\ cl' = [cl EXCEPT ![me] = [at |-> IF c.held = 1 THEN "read" ELSE "stage",
                                           off |-> c.off + 1, held |-> c.held - 1]]
         ELSE /\ cl' = [cl EXCEPT ![me] = IF me = SHELL \/ c.off > 0
                                          THEN [c EXCEPT !.at = "abandon"] ELSE Quiet]
              /\ UNCHANGED vars

\* ARGS_STAGE, then for the shell CWD_STAGE and ENV_STAGE.  A refusal of the
\* first two gives the staging up; the environment's is only reported.
AfterArgs(me) == IF me = SHELL THEN "cwd" ELSE "spawn"
StageBlob(me, step, b, next) ==
  /\ At(me, step)
  /\ \/ ~Held(Kernel, me) /\ BlobStage(me, b, 1) /\ Go(me, next)
     \/ UNCHANGED vars /\ Go(me, IF step = "env" THEN next ELSE "abandon")

StageBlobs(me) ==
  \/ StageBlob(me, "args", "argv", AfterArgs(me))
  \/ At(me, "cwd") /\ Go(me, "env") /\ UNCHANGED vars       \* at the root: none
  \/ StageBlob(me, "cwd", "cwd", "env")
  \/ At(me, "env") /\ Go(me, "spawn") /\ UNCHANGED vars     \* no variables: none
  \/ StageBlob(me, "env", "env", "spawn")

\* SPAWN of all that was staged, by the caller whose it is (StagedIsKept).
Spawns(me) ==
  /\ At(me, "spawn")
  /\ \/ \E i \in Spawnable : SPAWN(me, i, cl[me].off, [b \in Blobs \ Latched |-> 1])
     \/ SpawnRefused(me) \/ SpawnFails(me)
  /\ Return(me)

\* SPAWN of nothing.
abandon_staging(me) ==
  /\ At(me, "abandon") /\ SpawnRefused(me)
  /\ Return(me)

ClInit == Init /\ cl = [me \in Clients |-> Quiet]

ClNext ==
  \/ \E me \in Clients :
       \/ Begins(me) \/ ReadFails(me) \/ StageChunk(me) \/ StageBlobs(me)
       \/ Spawns(me) \/ abandon_staging(me)
       \/ \E n \in 0 .. READ : ReadChunks(me, n)
  \/ /\ \E t \in Spawnable : Killed(t) \/ EXIT(t) \/ try_reap(t)
     /\ UNCHANGED cl
  \/ /\ \E again \in BOOLEAN : ServerEnds(NET_TASK, again)
     /\ cl' = [cl EXCEPT ![NET_TASK] = Quiet]

ClSpec == ClInit /\ [][ClNext]_clVars

\* The staging belongs to a caller that is in the middle of a spawn and will
\* spawn or give it up: one that has returned to its prompt, or to its
\* requests, keeps nobody else from spawning (every error return of spawn_path
\* and cpu_spawn).
OnlySpawnersHoldStaging ==
  \A me \in Clients : Calling(me) /\ Mine(Kernel, me)
    => cl[me].at \in {"stage", "read", "args", "cwd", "env", "spawn", "abandon"}

\* Nothing another caller does comes between the chunks of a spawn: what a
\* caller has staged so far is there when it goes on (claim_staging).
StagedIsKept ==
  \A me \in Clients : Calling(me) /\ cl[me].off > 0 /\ cl[me].at # "abandon"
    => Mine(Kernel, me) /\ staged[IMAGE] = cl[me].off
=============================================================================
