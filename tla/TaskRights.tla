----------------------------- MODULE TaskRights -----------------------------
(***************************************************************************)
(* Who may send to whom and as which user (kernel/src/tasks.rs and the     *)
(* SPAWN, DELEGATE and SET_ID arms of syscall.rs): the static send-masks,  *)
(* the rights handed down at run time, the parent links they follow, each  *)
(* program's stdout, and the identities children inherit.                  *)
(*                                                                         *)
(* One step is one kernel entry.  A bit of DELEGATED_SEND carries, as      *)
(* history, the program it was set for (its generation); the code sees     *)
(* only whether it is set.                                                 *)
(***************************************************************************)
EXTENDS Naturals

CONSTANTS
  NUM_TASKS,        \* slots in the task table
  FIRST_SPAWNABLE,  \* slots below it are the boot shell, idle and the servers
  CON_TASK,         \* the console server
  OpenServers,      \* the servers every program may call
  ServerSends,      \* the servers each server may call
  Ids, RootIds,     \* packed identities, and those whose uid is 0
  Groups,           \* supplementary groups
  Callers,          \* the tasks that make these system calls
  Logins,           \* those of them that change their identity
  Failing,          \* the servers that fail
  MaxGeneration     \* bound: occupants of slots in one behaviour

Slots == 0 .. NUM_TASKS - 1
IDLE == 1
Servers == 2 .. FIRST_SPAWNABLE - 1
Spawnable == FIRST_SPAWNABLE .. NUM_TASKS - 1
ROOT == 0           \* the identity every slot starts with
NONE == 0           \* no generation, and a bit that is clear

ASSUME SlotsAssumption ==
  /\ NUM_TASKS \in Nat /\ FIRST_SPAWNABLE \in Nat
  /\ 2 < FIRST_SPAWNABLE /\ FIRST_SPAWNABLE < NUM_TASKS
  /\ OpenServers \subseteq Servers /\ CON_TASK \in OpenServers
  /\ ServerSends \in [Servers -> SUBSET Servers]
  /\ Callers \subseteq Slots \ {IDLE} /\ Logins \subseteq Callers
  /\ Failing \subseteq Servers
ASSUME IdsAssumption == ROOT \in RootIds /\ RootIds \subseteq Ids
ASSUME BoundAssumption == MaxGeneration \in Nat

VARIABLES
  state,      \* STATES: "Unused", "Live" (runnable or blocked) or "Zombie"
  gen,        \* GENERATIONS
  nextGen,    \* NEXT_GENERATION
  parent,     \* PARENTS, by generation
  delegated,  \* DELEGATED_SEND
  stdout,     \* STDOUT_TARGET
  id, saved,  \* IDS, SAVED_IDS
  groups,     \* GROUPS
  line,       \* history: the boot task each task descends from
  stdoutGen,  \* history: the occupant stdout was pointed at
  born        \* history: the identity and groups a program was spawned with

vars == <<state, gen, nextGen, parent, delegated, stdout, id, saved, groups,
          line, stdoutGen, born>>

TypeOK ==
  /\ state \in [Slots -> {"Unused", "Live", "Zombie"}]
  /\ nextGen \in Nat /\ FIRST_SPAWNABLE < nextGen
  /\ gen \in [Slots -> 0 .. nextGen - 1]
  /\ parent \in [Slots -> 0 .. nextGen - 1]
  /\ delegated \in [Slots -> [Slots -> 0 .. nextGen - 1]]
  /\ stdout \in [Slots -> Slots]
  /\ id \in [Slots -> Ids] /\ saved \in [Slots -> Ids]
  /\ groups \in [Slots -> SUBSET Groups]
  /\ line \in [Slots -> 0 .. FIRST_SPAWNABLE - 1]
  /\ stdoutGen \in [Slots -> 0 .. nextGen - 1]
  /\ born \in [Slots -> [id : Ids, groups : SUBSET Groups]]

\* tasks::init: the boot tasks, each with a generation of its own, as root.
Init ==
  /\ state = [t \in Slots |-> IF t \in Spawnable THEN "Unused" ELSE "Live"]
  /\ gen = [t \in Slots |-> IF t \in Spawnable THEN NONE ELSE t + 1]
  /\ nextGen = FIRST_SPAWNABLE + 1
  /\ parent = [t \in Slots |-> NONE]
  /\ delegated = [s \in Slots |-> [d \in Slots |-> NONE]]
  /\ stdout = [t \in Slots |-> CON_TASK]
  /\ id = [t \in Slots |-> ROOT] /\ saved = [t \in Slots |-> ROOT]
  /\ groups = [t \in Slots |-> {}]
  /\ line = [t \in Slots |-> IF t \in Spawnable THEN 0 ELSE t]
  /\ stdoutGen = [t \in Slots |-> CON_TASK + 1]
  /\ born = [t \in Slots |-> [id |-> ROOT, groups |-> {}]]

\* The tables, threaded through the operators below.
Kernel == [state |-> state, gen |-> gen, nextGen |-> nextGen, parent |-> parent,
           delegated |-> delegated, stdout |-> stdout, id |-> id, saved |-> saved,
           groups |-> groups, line |-> line, stdoutGen |-> stdoutGen, born |-> born]

Become(k) ==
  /\ state' = k.state /\ gen' = k.gen /\ nextGen' = k.nextGen
  /\ parent' = k.parent /\ delegated' = k.delegated /\ stdout' = k.stdout
  /\ id' = k.id /\ saved' = k.saved /\ groups' = k.groups
  /\ line' = k.line /\ stdoutGen' = k.stdoutGen /\ born' = k.born

----------------------------------------------------------------------------
\* Rights.

\* caps_for_slot, the send-mask half.
caps_for_slot(t) ==
  IF t = 0 THEN Servers \union Spawnable
  ELSE IF t = IDLE THEN {}
  ELSE IF t \in Servers THEN ServerSends[t]
  ELSE {0} \union OpenServers

holds_send_right(k, s, d) == d \in caps_for_slot(s) \/ k.delegated[s][d] # NONE

\* is_child_of: spawned by p's present occupant; no generation is NONE.
is_child_of(k, child, p) == k.state[p] # "Unused" /\ k.parent[child] = k.gen[p]

\* History: whom slot t names now.  Servers keep their names when restarted.
Occupant(k, t) == IF t \in Spawnable THEN k.gen[t] ELSE t + 1

set_delegate(k, g, t) ==
  [k EXCEPT !.delegated[g][t] = Occupant(k, t)]

clear_delegations_of(k, t) ==
  [k EXCEPT !.delegated[t] = [d \in Slots |-> NONE]]

\* A mutant: the grants aimed at the slot's last occupant stay.
clear_delegations_at_nobody(k, t) == k

clear_delegations_at(k, t) ==
  [k EXCEPT !.delegated = [s \in Slots |-> [k.delegated[s] EXCEPT ![t] = NONE]]]

----------------------------------------------------------------------------
\* The life of a task.

issue_generation(k, t) ==
  [k EXCEPT !.gen[t] = k.nextGen, !.nextGen = @ + 1]

\* spawn: a clean slot, a new occupant with its parent, and the right of each
\* to send to the other.
spawn(k, me, i) ==
  LET k1 == issue_generation(clear_delegations_at(clear_delegations_of(k, i), i), i)
      k2 == [k1 EXCEPT !.parent[i] = k.gen[me],
                       !.line[i] = k.line[me],
                       !.state[i] = "Live"]
  IN  set_delegate(set_delegate(k2, i, me), me, i)

\* A mutant: the child may go back to what its parent was.
inherit_id_with_saved(k, i, me) ==
  [k EXCEPT !.id[i] = k.id[me],
            !.saved[i] = k.saved[me],
            !.groups[i] = k.groups[me],
            !.born[i] = [id |-> k.id[me], groups |-> k.groups[me]]]

\* inherit_id: the parent's current identity, as the saved one too.
inherit_id(k, i, me) ==
  [k EXCEPT !.id[i] = k.id[me],
            !.saved[i] = k.id[me],
            !.groups[i] = k.groups[me],
            !.born[i] = [id |-> k.id[me], groups |-> k.groups[me]]]

\* A mutant: the child is left to be granted its stdout later.
set_stdout_ungranted(k, i, out) ==
  [k EXCEPT !.stdout[i] = out,
            !.stdoutGen[i] = Occupant(k, out)]

\* spawn_staged, after the spawn: the stdout target, and the right to it
\* where the child does not have one.
set_stdout(k, i, out) ==
  LET k1 == IF out = CON_TASK \/ holds_send_right(k, i, out) THEN k
            ELSE set_delegate(k, i, out)
  IN  [k1 EXCEPT !.stdout[i] = out,
                 !.stdoutGen[i] = Occupant(k, out)]

\* end_task, the tables of this module.
end_task(k, t, final) ==
  [clear_delegations_of(k, t)
     EXCEPT !.state[t] = final,
            !.stdout[t] = CON_TASK,
            !.stdoutGen[t] = CON_TASK + 1,
            !.id[t] = ROOT,
            !.saved[t] = ROOT,
            !.groups[t] = {},
            !.line[t] = IF t \in Spawnable THEN 0 ELSE t,
            !.born[t] = [id |-> ROOT, groups |-> {}]]

\* A mutant: a restart strips the grants aimed at the server.
install_task_stripping(k, s) ==
  LET k1 == issue_generation(clear_delegations_at(clear_delegations_of(k, s), s), s)
  IN  [k1 EXCEPT !.parent[s] = NONE,
                 !.state[s] = "Live"]

\* install_task: a server again in its slot.
install_task(k, s) ==
  LET k1 == issue_generation(clear_delegations_of(k, s), s)
  IN  [k1 EXCEPT !.parent[s] = NONE,
                 !.state[s] = "Live"]

----------------------------------------------------------------------------
\* System calls.
Calling(me) == me \in Callers /\ state[me] = "Live"

\* A mutant: any live task will do.
MayBeStdout_live(me, out) == out = CON_TASK \/ state[out] = "Live"

\* The stdout targets spawn_staged accepts of spawner me.
MayBeStdout(me, out) ==
  out = CON_TASK \/ (state[out] = "Live" /\ (out = me \/ holds_send_right(Kernel, me, out)))

\* SPAWN into the first unused slot.
SPAWN(me, i, out) ==
  /\ Calling(me)
  /\ MayBeStdout(me, out)
  /\ state[i] = "Unused" /\ \A j \in Spawnable : j < i => state[j] # "Unused"
  /\ nextGen <= MaxGeneration
  /\ Become(inherit_id(set_stdout(spawn(Kernel, me, i), i, out), i, me))

\* DELEGATE: to a live child of the caller, a right the caller holds.
DELEGATE(me, g, t) ==
  /\ Calling(me)
  /\ g \in Spawnable /\ state[g] = "Live" /\ state[t] = "Live"
  /\ is_child_of(Kernel, g, me) /\ holds_send_right(Kernel, me, t)
  /\ Become(set_delegate(Kernel, g, t))

\* SET_ID: root may become anyone, with any groups; anyone else only what it
\* was before, with none.
SET_ID(me, new, gids) ==
  /\ Calling(me) /\ me \in Logins
  /\ id[me] \in RootIds \/ (new = saved[me] /\ gids = {})
  /\ Become([Kernel EXCEPT !.groups[me] = gids,
                           !.saved[me] = id[me],
                           !.id[me] = new])

EXIT(me) ==
  /\ Calling(me) /\ me \in Spawnable
  /\ Become(end_task(Kernel, me, "Zombie"))

\* KILL, a fault, or an interrupt key.
Killed(t) ==
  /\ t \in Spawnable /\ state[t] = "Live"
  /\ Become(end_task(Kernel, t, "Unused"))

\* WAIT collects a zombie.
try_reap(t) ==
  /\ state[t] = "Zombie"
  /\ Become([Kernel EXCEPT !.state[t] = "Unused"])

\* A server faults or is wedged, and is restarted, or given up.
ServerEnds(s, again) ==
  /\ s \in Failing /\ state[s] = "Live"
  /\ again => nextGen <= MaxGeneration
  /\ Become(IF again THEN install_task(end_task(Kernel, s, "Unused"), s)
            ELSE end_task(Kernel, s, "Unused"))

Next ==
  \/ \E me \in Slots, i \in Spawnable, out \in Slots : SPAWN(me, i, out)
  \/ \E me, g, t \in Slots : DELEGATE(me, g, t)
  \/ \E me \in Slots, new \in Ids, gids \in SUBSET Groups : SET_ID(me, new, gids)
  \/ \E me \in Slots : EXIT(me)
  \/ \E t \in Slots : Killed(t)
  \/ \E t \in Slots : try_reap(t)
  \/ \E s \in Slots, again \in BOOLEAN : ServerEnds(s, again)

Spec == Init /\ [][Next]_vars

----------------------------------------------------------------------------
\* A right to a program is a right to the program it was granted for: a slot
\* taken by a stranger carries none of its last occupant's callers over
\* (clear_delegations_at in spawn, whatever order deaths and spawns come in).
RightsNameTheirOccupant ==
  \A s \in Slots, d \in Spawnable : delegated[s][d] # NONE => delegated[s][d] = gen[d]

\* "Rights flow one step down and nowhere else": a task has been handed a
\* right to the boot shell or a server only if every program has it, or if
\* the boot task it descends from is that server or holds that right itself
\* (may_delegate, may_grant).
Lineage ==
  \A s \in Slots, d \in Slots \ Spawnable :
    delegated[s][d] # NONE => d \in {0, line[s]} \union OpenServers \union caps_for_slot(line[s])

\* "A parent and its child may always exchange messages", while both live,
\* whatever else either was granted or lost (spawn, is_child_of).
FamilyTalks ==
  \A c, p \in Slots :
    state[c] = "Live" /\ state[p] = "Live" /\ is_child_of(Kernel, c, p) =>
      holds_send_right(Kernel, c, p) /\ holds_send_right(Kernel, p, c)

\* "a program never runs without the right to reach its stdout", as long as
\* the task it was pointed at is there, or is a server come back (spawn_staged).
StdoutIsReachable ==
  \A t \in Spawnable :
    state[t] = "Live" /\ Occupant(Kernel, stdout[t]) = stdoutGen[t] =>
      holds_send_right(Kernel, t, stdout[t])

\* No program spawned by a user is ever root, nor can go back to root, nor is
\* in a group its spawner was not in, however it and its ancestors log in and
\* out (SET_ID's two gates, and inherit_id's saved identity).
NoEscalation ==
  \A t \in Spawnable :
    state[t] = "Live" /\ born[t].id \notin RootIds =>
      id[t] \notin RootIds /\ saved[t] \notin RootIds /\ groups[t] \subseteq born[t].groups

\* A right to a server outlasts the server: whoever may call it now may call
\* it after any number of restarts (install_task does not strip).
RightsToServersKept ==
  \A s \in Slots, d \in Slots \ Spawnable :
    /\ state[s] = "Live" /\ state'[s] = "Live" /\ gen'[s] = gen[s]
    /\ holds_send_right(Kernel, s, d)
    => holds_send_right(Kernel, s, d)'
RightsToServersLast == [][RightsToServersKept]_vars
============================================================================
