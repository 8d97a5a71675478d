----------------------------- MODULE Scheduler -----------------------------
(***************************************************************************)
(* Which core runs which task: the picks, the switches, the kills that     *)
(* cross cores and the kicks that wake idle ones (kernel/src/tasks.rs,     *)
(* smp.rs, and the entry points of exceptions.rs and syscall.rs).          *)
(*                                                                         *)
(* One step is one kernel entry on one core, whole, under the kernel lock: *)
(* end_if_doomed first, the handler, kick_idle_cores last (Leave).  Why a  *)
(* task blocks or wakes is TaskIpc's business: here a handler may wake any *)
(* blocked task.  "Unused" also stands for a zombie: neither runs.         *)
(***************************************************************************)
EXTENDS Naturals, FiniteSets

CONSTANTS
  NUM_TASKS,        \* slots in the task table
  FIRST_SPAWNABLE,  \* slots below it are the boot shell, idle and the servers
  SUPERVISED,       \* the servers supervisor.rs restarts
  NET_TASK,         \* the server the NIC's interrupt wakes
  NUM_CORES,        \* cores; each program's core is an index below it
  BOOT,             \* the boot core (BOOT_INDEX)
  Started,          \* the secondaries that came up at boot
  Kickable,         \* the cores gic::send_sgi can reach
  Halting,          \* the secondaries that may halt alone
  MAX_RESTARTS,     \* restarts of one server in one boot
  MaxGeneration     \* bound: programs spawned in one behaviour

Slots == 0 .. NUM_TASKS - 1
IDLE == 1
Spawnable == FIRST_SPAWNABLE .. NUM_TASKS - 1
Cores == 0 .. NUM_CORES - 1
NoTask == NUM_TASKS

ASSUME SlotsAssumption ==
  /\ NUM_TASKS \in Nat /\ FIRST_SPAWNABLE \in Nat
  /\ 1 < FIRST_SPAWNABLE /\ FIRST_SPAWNABLE < NUM_TASKS
  /\ SUPERVISED \subseteq 2 .. FIRST_SPAWNABLE - 1
  /\ NET_TASK \in 2 .. FIRST_SPAWNABLE - 1
ASSUME CoresAssumption ==
  /\ NUM_CORES \in Nat
  /\ BOOT \in Cores
  /\ Started \subseteq Cores \ {BOOT}
  /\ Halting \subseteq Started
ASSUME BoundsAssumption == MAX_RESTARTS \in Nat /\ MaxGeneration \in Nat

VARIABLES
  state,     \* STATES
  gen,       \* GENERATIONS of the spawned programs (a server's is never read here)
  nextGen,   \* NEXT_GENERATION
  restarts,  \* Entry.restarts of each supervised server
  current,   \* CURRENT, the task each core resumes at its next eret
  round,     \* ROUND, where each core's tick left its round
  doomed,    \* DOOMED, the generation another core asked to end; 0 for none
  kicks,     \* KICKS, the reasons of the SGI pending at each core
  up         \* SECONDARIES_UP

vars == <<state, gen, nextGen, restarts, current, round, doomed, kicks, up>>

TypeOK ==
  /\ state \in [Slots -> {"Unused", "Runnable", "Blocked"}]
  /\ gen \in [Slots -> Nat]
  /\ nextGen \in Nat \ {0}
  /\ restarts \in [Slots -> Nat]
  /\ current \in [Cores -> Slots]
  /\ round \in [Cores -> Slots]
  /\ doomed \in [Slots -> Nat]
  /\ kicks \in [Cores -> SUBSET {"RESCHED", "KILL"}]
  /\ up \subseteq Started

\* tasks::init and smp::start: the boot core enters task 0, every other core
\* idles; every slot below FIRST_SPAWNABLE holds a task.
Init ==
  /\ state = [t \in Slots |-> IF t \in Spawnable THEN "Unused" ELSE "Runnable"]
  /\ gen = [t \in Slots |-> 0]
  /\ nextGen = 1
  /\ restarts = [t \in Slots |-> 0]
  /\ current = [c \in Cores |-> IF c = BOOT THEN 0 ELSE IDLE]
  /\ round = [c \in Cores |-> 0]
  /\ doomed = [t \in Slots |-> 0]
  /\ kicks = [c \in Cores |-> {}]
  /\ up = Started

\* The tables a handler works on, threaded through the operators below.
Kernel == [state |-> state, gen |-> gen, nextGen |-> nextGen,
           restarts |-> restarts, current |-> current, round |-> round,
           doomed |-> doomed, kicks |-> kicks]

----------------------------------------------------------------------------
\* The pick.

\* A mutant: a task another core is running may be picked again.
may_run_on_running(k, c, t) ==
  /\ k.state[t] = "Runnable"
  /\ t # IDLE => IF c = BOOT THEN t \notin Spawnable \/ up = {} ELSE t \in Spawnable

\* may_run_on: runnable, on no other core, and placed there: servers and the
\* boot shell on the boot core, programs on the secondaries while there are any.
may_run_on(k, c, t) ==
  /\ k.state[t] = "Runnable"
  /\ t # IDLE =>
       /\ \A d \in Cores \ {c} : k.current[d] # t
       /\ IF c = BOOT THEN t \notin Spawnable \/ up = {} ELSE t \in Spawnable

\* How far round slot t is from slot `from`, itself the last.
Ahead(from, t) == IF t > from THEN t - from ELSE t + NUM_TASKS - from

\* scan_from: the first of S after `from`, wrapping.
scan_from(from, S) == CHOOSE t \in S : \A u \in S : Ahead(from, t) <= Ahead(from, u)

\* next_runnable: real work before idle.
next_runnable(k, c, from) ==
  LET work == {t \in Slots \ {IDLE} : may_run_on(k, c, t)}
  IN  IF work = {} THEN IDLE ELSE scan_from(from, work)

switch_to(k, c, t) == [k EXCEPT !.current = [@ EXCEPT ![c] = t]]

\* Wakes: a delivered message, a reply, a failed call, the tick's wake-check.
Wake(k, woken) ==
  [k EXCEPT !.state = [t \in Slots |-> IF t \in woken /\ @[t] = "Blocked"
                                        THEN "Runnable" ELSE @[t]]]

\* A mutant, the defect the round was added for: the tick scans on from the
\* task that is running.
next_at_tick_from_current(k, c) ==
  LET next == next_runnable(k, c, k.current[c])
  IN  switch_to([k EXCEPT !.round = [@ EXCEPT ![c] = next]], c, next)

\* next_at_tick and the switch that follows it: the pick goes on from the
\* core's round, and the round moves to the pick.
next_at_tick(k, c) ==
  LET next == next_runnable(k, c, k.round[c])
  IN  switch_to([k EXCEPT !.round = [@ EXCEPT ![c] = next]], c, next)

----------------------------------------------------------------------------
\* The ends of a task.

\* end_task: the mark goes with the task, the callers it fails wake.
end_task(k, t, woken) ==
  [Wake(k, woken) EXCEPT !.state = [@ EXCEPT ![t] = "Unused"],
                         !.doomed = [@ EXCEPT ![t] = 0]]

\* kill_current_and_switch, and exit_current_and_switch.
kill_current_and_switch(k, c, woken) ==
  LET dead == k.current[c]
      k1   == end_task(k, dead, woken)
  IN  switch_to(k1, c, next_runnable(k1, c, dead))

\* smp::kick: a reason and an SGI, both only if the GIC can send one there.
kick(kk, cores, why) ==
  [c \in Cores |-> IF c \in cores \cap Kickable THEN kk[c] \union {why} ELSE kk[c]]

\* running_core, as the set of cores that run t.
running_core(k, t) == {c \in Cores : t # IDLE /\ k.current[c] = t}

\* kill_task: ended here, or marked for the core that runs it, which is kicked.
kill_task(k, t, woken) ==
  LET cores == running_core(k, t)
  IN  IF cores = {} THEN end_task(k, t, woken)
      ELSE [k EXCEPT !.doomed = [@ EXCEPT ![t] = k.gen[t]],
                     !.kicks = kick(@, cores, "KILL")]

\* This core's current task is marked, and is the occupant the mark is for.
Doomed(k, c) ==
  LET t == k.current[c] IN t # IDLE /\ k.doomed[t] # 0 /\ k.doomed[t] = k.gen[t]

\* A mutant: a marked task runs on until it leaves by itself.
end_if_doomed_never(k, c, woken) == k

\* end_if_doomed, before anything else at every entry; a mark for somebody
\* else is dropped.
end_if_doomed(k, c, woken) ==
  IF Doomed(k, c) THEN kill_current_and_switch(k, c, woken)
  ELSE [k EXCEPT !.doomed = [@ EXCEPT ![k.current[c]] = 0]]

\* supervisor::restart of ended servers: install_task, up to the cap.
restart(k, S) ==
  [k EXCEPT !.restarts = [t \in Slots |-> IF t \in S THEN @[t] + 1 ELSE @[t]],
            !.state = [t \in Slots |-> IF t \in S
                                       THEN IF k.restarts[t] < MAX_RESTARTS
                                            THEN "Runnable" ELSE "Unused"
                                       ELSE @[t]]]

----------------------------------------------------------------------------
\* The end of every entry.

\* The runnable programs, and the runnable pinned tasks, that no core runs.
WaitingPrograms(st, cur) ==
  {t \in Spawnable : st[t] = "Runnable" /\ \A c \in Cores : cur[c] # t}
WaitingPinned(st, cur) ==
  {t \in Slots \ (Spawnable \union {IDLE}) :
     st[t] = "Runnable" /\ \A c \in Cores : cur[c] # t}

\* The idle secondaries, in the order kick_idle_cores asks them.
IdleSecondaries(cur) == {c \in up : cur[c] = IDLE}

\* A mutant: one idle core is woken, however much work waits.
kick_idle_cores_first(k, me) ==
  LET idle == IdleSecondaries(k.current) \ {me}
      wake == {c \in idle : (\A d \in idle : c <= d) /\ WaitingPrograms(k.state, k.current) # {}}
  IN  kick(k.kicks, wake, "RESCHED")

\* kick_idle_cores: an idle core for each task waiting that it may run, the
\* entry's own core never; each secondary takes one program off the list.
kick_idle_cores(k, me) ==
  LET programs == WaitingPrograms(k.state, k.current)
      idle == IdleSecondaries(k.current) \ {me}
      secondaries == {c \in idle :
                        Cardinality({d \in idle : d <= c}) <= Cardinality(programs)}
      forBoot == WaitingPinned(k.state, k.current) \union (IF up = {} THEN programs ELSE {})
      boot == {c \in {BOOT} \ {me} : k.current[c] = IDLE /\ forBoot # {}}
  IN  kick(k.kicks, secondaries \union boot, "RESCHED")

\* What an entry on core c leaves behind.
Leave(c, after) ==
  \E k \in {after} :
    /\ state' = k.state
    /\ gen' = k.gen
    /\ nextGen' = k.nextGen
    /\ restarts' = k.restarts
    /\ current' = k.current
    /\ round' = k.round
    /\ doomed' = k.doomed
    /\ kicks' = kick_idle_cores(k, c)
    /\ UNCHANGED up

----------------------------------------------------------------------------
\* System calls: a core that is up, in a task nobody has asked to end.
UpCores == up \union {BOOT}
BlockedTasks == {t \in Slots : state[t] = "Blocked"}

\* Whom end_if_doomed may wake on core c: the callers of the task it ends.
CallersFailed(c) == IF Doomed(Kernel, c) THEN BlockedTasks ELSE {}

Calling(c) == c \in UpCores /\ current[c] # IDLE /\ ~Doomed(Kernel, c)

\* MSG_SEND, MSG_REPLY: the caller goes on, a blocked task may wake.
Deliver(c, t) ==
  /\ Calling(c)
  /\ state[t] = "Blocked"
  /\ Leave(c, Wake(Kernel, {t}))

\* block_current_and_switch_to, `p` NoTask for a plain block.
block_current_and_switch_to(k, c, p) ==
  LET me == k.current[c]
      k1 == [k EXCEPT !.state = [@ EXCEPT ![me] = "Blocked"]]
  IN  switch_to(k1, c, IF p # NoTask /\ p # me /\ may_run_on(k1, c, p) THEN p
                       ELSE next_runnable(k1, c, me))

\* MSG_CALL: the request may wake its server, which this core then prefers.
Call(c, d, woken) ==
  /\ Calling(c)
  /\ d \notin {current[c], IDLE}    \* no task holds a right to send to idle
  /\ state[d] \in {"Runnable", "Blocked"}
  /\ woken \subseteq {d}
  /\ Leave(c, block_current_and_switch_to(Wake(Kernel, woken), c, d))

\* Every other blocking call.
Block(c) ==
  /\ Calling(c)
  /\ Leave(c, block_current_and_switch_to(Kernel, c, NoTask))

Yield(c) ==
  /\ Calling(c)
  /\ Leave(c, switch_to(Kernel, c, next_runnable(Kernel, c, current[c])))

\* SPAWN into the first unused slot.
Spawn(c, i) ==
  /\ Calling(c)
  /\ i \in Spawnable /\ state[i] = "Unused"
  /\ \A j \in Spawnable : j < i => state[j] # "Unused"
  /\ nextGen <= MaxGeneration
  /\ Leave(c, [Kernel EXCEPT !.state = [@ EXCEPT ![i] = "Runnable"],
                             !.gen = [@ EXCEPT ![i] = nextGen],
                             !.nextGen = nextGen + 1])

Exit(c, woken) ==
  /\ Calling(c)
  /\ current[c] \in Spawnable
  /\ Leave(c, kill_current_and_switch(Kernel, c, woken))

Kill(c, t, woken) ==
  /\ Calling(c)
  /\ t \in Spawnable /\ t # current[c]
  /\ state[t] # "Unused"
  /\ Leave(c, kill_task(Kernel, t, woken))

\* A system call or a fault of a task that has been marked: it only ends.
DoomedEntry(c, woken) ==
  /\ c \in UpCores
  /\ Doomed(Kernel, c)
  /\ Leave(c, end_if_doomed(Kernel, c, woken))

\* A fault at EL0: the task is ended and the next one picked, then a server
\* is restarted.  A fault of the boot shell or of idle halts the machine.
Fault(c, woken) ==
  /\ Calling(c)
  /\ current[c] # 0
  /\ LET k == kill_current_and_switch(Kernel, c, woken)
     IN  Leave(c, restart(k, {current[c]} \cap SUPERVISED))

----------------------------------------------------------------------------
\* Interrupts.

\* on_tick, the boot core's.  `woken` are the waits that ended and the calls
\* that failed; `victim` the task a pending Ctrl+C names, NoTask for none;
\* `wedged` the servers the supervisor gave up waiting for.  Killing the
\* running task, or restarting the running server, ends the tick at once.
Tick(woken, victim, wedged) ==
  \E k1 \in {Wake(end_if_doomed(Kernel, BOOT, woken), woken)} :
    LET cur == k1.current[BOOT] IN
    /\ victim # NoTask => k1.state[victim] # "Unused"
    /\ \A s \in wedged : k1.state[s] # "Unused"
    /\ IF victim = cur THEN Leave(BOOT, kill_current_and_switch(k1, BOOT, {}))
       ELSE \E k2 \in {IF victim = NoTask THEN k1 ELSE kill_task(k1, victim, {})} :
            \E k3 \in {restart(k2, {s \in wedged : cur \in wedged => s < cur})} :
              Leave(BOOT, IF cur \in wedged
                          THEN restart(kill_current_and_switch(k3, BOOT, {}), {cur})
                          ELSE next_at_tick(k3, BOOT))

SecondaryTick(c, woken) ==
  /\ c \in up
  /\ \E k \in {end_if_doomed(Kernel, c, woken)} : Leave(c, next_at_tick(k, c))

\* on_kick: an idle core looks for work.  A kick sent while one is pending
\* adds its reason to it.
Kick(c, woken) ==
  /\ c \in UpCores
  /\ kicks[c] # {}
  /\ LET k == [end_if_doomed(Kernel, c, woken) EXCEPT !.kicks = [@ EXCEPT ![c] = {}]]
     IN  Leave(c, IF k.current[c] = IDLE
                  THEN switch_to(k, c, next_runnable(k, c, IDLE)) ELSE k)

\* on_net_irq: straight to netd, which was waiting for a frame.
NetIrq(woken) ==
  /\ state[NET_TASK] = "Blocked"
  /\ LET k == Wake(end_if_doomed(Kernel, BOOT, woken), {NET_TASK})
     IN  Leave(BOOT, switch_to(k, BOOT, NET_TASK))

\* halt_alone_here: a secondary that dies in its idle loop, outside the lock.
halt_alone_here(c) ==
  /\ c \in up \cap Halting
  /\ current[c] = IDLE
  /\ up' = up \ {c}
  /\ UNCHANGED <<state, gen, nextGen, restarts, current, round, doomed, kicks>>

----------------------------------------------------------------------------
AnyTick ==
  \E woken \in SUBSET BlockedTasks, victim \in Spawnable \union {NoTask},
     wedged \in SUBSET SUPERVISED : Tick(woken, victim, wedged)
AnySecondaryTick(c) == \E woken \in SUBSET CallersFailed(c) : SecondaryTick(c, woken)

Next ==
  \/ \E c \in Cores, t \in Slots : Deliver(c, t)
  \/ \E c \in Cores, d \in Slots : \E woken \in SUBSET {d} : Call(c, d, woken)
  \/ \E c \in Cores : Block(c)
  \/ \E c \in Cores : Yield(c)
  \/ \E c \in Cores, i \in Slots : Spawn(c, i)
  \/ \E c \in Cores, woken \in SUBSET BlockedTasks : Exit(c, woken)
  \/ \E c \in Cores, t \in Slots, woken \in SUBSET BlockedTasks : Kill(c, t, woken)
  \/ \E c \in Cores, woken \in SUBSET BlockedTasks : DoomedEntry(c, woken)
  \/ \E c \in Cores, woken \in SUBSET BlockedTasks : Fault(c, woken)
  \/ AnyTick
  \/ \E c \in Cores : AnySecondaryTick(c)
  \/ \E c \in Cores : \E woken \in SUBSET CallersFailed(c) : Kick(c, woken)
  \/ \E woken \in SUBSET CallersFailed(BOOT) : NetIrq(woken)
  \/ \E c \in Cores : halt_alone_here(c)

Spec == Init /\ [][Next]_vars

\* Every core that is up has a timer armed again at each of its ticks.
FairSpec == Spec /\ WF_vars(AnyTick) /\ \A c \in Cores : WF_vars(AnySecondaryTick(c))

----------------------------------------------------------------------------
\* No task runs on two cores at once: its saved registers and its region have
\* one user (running_core in may_run_on, and the kill left to its core).
OneCorePerTask ==
  \A c, d \in Cores : c # d /\ current[c] = current[d] => current[c] = IDLE

\* A core resumes only a task that may run: never one that is blocked, or
\* that another core has torn down, freeing the region under it (kill_task).
CurrentIsRunnable == \A c \in Cores : state[current[c]] = "Runnable"

\* Placement (may_run_on): the boot shell and the servers never leave the boot
\* core, however a program calls them; programs run there only with no
\* secondary left.
PlacementHolds ==
  \A c \in Cores :
    /\ c # BOOT => current[c] \in Spawnable \union {IDLE}
    /\ current[BOOT] \in Spawnable => up = {}

\* No task reads as running on a dead core, which could neither resume nor
\* end it (halt_alone_here, and the claim in core_info).
DeadCoreRunsNothing == \A c \in Cores : c \notin UpCores => current[c] = IDLE

\* A kill handed to another core is never lost and never hits a later
\* occupant: a mark names the slot's present task and some core runs it.
DoomedIsRunning ==
  \A t \in Slots : doomed[t] # 0 =>
    /\ doomed[t] = gen[t]
    /\ \E c \in UpCores : current[c] = t

\* Idle never blocks and never dies, so there is always something to pick
\* (nothing_runnable is not reached); only a spawned program is ever marked.
IdleNeverStops == state[IDLE] = "Runnable"
OnlyProgramsAreDoomed == \A t \in Slots : doomed[t] # 0 => t \in Spawnable

\* With TypeOK, the inductive invariant behind the five above.
SchedInv ==
  /\ OneCorePerTask
  /\ CurrentIsRunnable
  /\ PlacementHolds
  /\ DeadCoreRunsNothing
  /\ DoomedIsRunning
  /\ IdleNeverStops
  /\ OnlyProgramsAreDoomed

\* No secondary idles beside work: while programs wait, every idle secondary
\* has been kicked, or as many as there are programs waiting (kick_idle_cores),
\* whatever order the kicks, ticks and blocks come in.  A core that dies with
\* its kick pending was still counted: the next entry kicks another.
WorkHasBeenKicked ==
  LET kicked == {c \in Started : current[c] = IDLE /\ "RESCHED" \in kicks[c]}
  IN  \/ IdleSecondaries(current) \subseteq kicked
      \/ Cardinality(WaitingPrograms(state, current)) <= Cardinality(kicked)

\* A kill handed to another core takes effect (its next entry, at the latest
\* its tick).
DoomedEnds == \A t \in Slots : doomed[t] # 0 ~> doomed[t] = 0

\* Every runnable task gets a core: a pinned one comes round on the boot core's
\* ticks whatever the switches between them do (ROUND), a program reaches some
\* core, secondaries that die included.
PinnedComesRound ==
  \A t \in Slots \ (Spawnable \union {IDLE}) :
    state[t] = "Runnable" ~> (current[BOOT] = t \/ state[t] # "Runnable")
ProgramComesRound ==
  \A t \in Spawnable :
    state[t] = "Runnable" ~> ((\E c \in Cores : current[c] = t) \/ state[t] # "Runnable")
RunnableComesRound == PinnedComesRound /\ ProgramComesRound
============================================================================
