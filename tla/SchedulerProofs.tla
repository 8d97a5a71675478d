-------------------------- MODULE SchedulerProofs --------------------------
(***************************************************************************)
(* The scheduler's safety for any number of slots, cores and programs.     *)
(* A handler threads the kernel's tables through several operators, so the *)
(* argument is about tables: Sound(k) is the invariant of a set of tables, *)
(* Others(k, c) what is left of it while core c is between two tasks, and  *)
(* a switch to a task c may run turns the second back into the first.      *)
(***************************************************************************)
EXTENDS Scheduler, TLAPS, WellFoundedInduction, NaturalsInduction, FiniteSetTheorems

\* Every leaf is given a minute; nearly all take a second or two.
USE SMTT(60), ZenonT(60)

Tables ==
  [state : [Slots -> {"Unused", "Runnable", "Blocked"}],
   gen : [Slots -> Nat],
   nextGen : Nat \ {0},
   restarts : [Slots -> Nat],
   current : [Cores -> Slots],
   round : [Cores -> Slots],
   doomed : [Slots -> Nat],
   kicks : [Cores -> SUBSET {"RESCHED", "KILL"}]]

\* The invariant on the cores of C, and on the tasks.
On(k, C) ==
  /\ \A c, d \in C : c # d /\ k.current[c] = k.current[d] => k.current[c] = IDLE
  /\ \A c \in C : k.state[k.current[c]] = "Runnable"
  /\ \A c \in C : c # BOOT => k.current[c] \in Spawnable \union {IDLE}
  /\ BOOT \in C /\ k.current[BOOT] \in Spawnable => up = {}
  /\ \A c \in C : c \notin UpCores => k.current[c] = IDLE
  /\ \A t \in Slots : k.doomed[t] # 0 =>
       /\ t \in Spawnable
       /\ k.doomed[t] = k.gen[t]
       /\ \E c \in UpCores \cap C : k.current[c] = t
  /\ k.state[IDLE] = "Runnable"

Sound(k) == k \in Tables /\ On(k, Cores)
Others(k, c) == k \in Tables /\ On(k, Cores \ {c})

\* A secondary is left idle only with no program waiting for a core.
Settled(k, c) ==
  c \in up \ {BOOT} /\ k.current[c] = IDLE => WaitingPrograms(k.state, k.current) = {}

\* What every entry keeps; the kicks only where the GIC reaches every secondary.
Kept ==
  /\ TypeOK
  /\ SchedInv
  /\ Started \subseteq Kickable => WorkHasBeenKicked

\* Slot numbers are naturals and idle is not spawnable.
LEMMA SlotFacts ==
  /\ Slots \subseteq Nat /\ Spawnable \subseteq Slots
  /\ IDLE \in Slots /\ IDLE \notin Spawnable /\ NoTask \notin Slots
  /\ 0 \in Slots /\ 0 \notin Spawnable
  /\ SUPERVISED \subseteq Slots /\ NET_TASK \in Slots
  /\ IDLE \notin SUPERVISED /\ NET_TASK # IDLE
  /\ \A t \in SUPERVISED : t \notin Spawnable
  /\ NET_TASK \notin Spawnable
BY SlotsAssumption DEF Slots, Spawnable, IDLE, NoTask

\* The sets of cores.
LEMMA CoreFacts == BOOT \in Cores /\ Started \subseteq Cores \ {BOOT}
BY CoresAssumption

\* A non-empty set of slots has one that scan_from meets first.
LEMMA ScanFinds ==
  ASSUME NEW from \in Slots, NEW S \in SUBSET Slots, S # {}
  PROVE  scan_from(from, S) \in S
<1> DEFINE D == {Ahead(from, t) : t \in S}
<1>0. \A t \in S : Ahead(from, t) \in Nat
  BY SlotsAssumption DEF Ahead, Slots
<1>1. D \subseteq Nat /\ D # {}
  BY <1>0
<1>2. IsWellFoundedOn(OpToRel(<, Nat), Nat)
  BY ZenonT(60), NatLessThanWellFounded
<1> HIDE DEF D
<1>3. \E x \in D : \A y \in D : ~ (<<y, x>> \in OpToRel(<, Nat))
  BY <1>1, <1>2, WFMin, ZenonT(60)
<1>4. PICK x \in D : \A y \in D : ~ (y < x)
  BY ZenonT(60), <1>1, <1>3 DEF OpToRel
<1>5. PICK t \in S : x = Ahead(from, t)
  BY <1>4 DEF D
<1>6. \A u \in S : Ahead(from, t) <= Ahead(from, u)
  BY <1>1, <1>4, <1>5 DEF D
<1> QED
  BY <1>5, <1>6 DEF scan_from

\* next_runnable answers a task this core may run, idle if nothing else.
LEMMA PickMayRun ==
  ASSUME NEW k \in Tables, NEW c \in Cores, NEW from \in Slots,
         k.state[IDLE] = "Runnable"
  PROVE  /\ next_runnable(k, c, from) \in Slots
         /\ may_run_on(k, c, next_runnable(k, c, from))
<1> DEFINE work == {t \in Slots \ {IDLE} : may_run_on(k, c, t)}
<1>1. CASE work = {}
  BY <1>1, SlotFacts DEF next_runnable, may_run_on
<1>2. CASE work # {}
  <2>1. next_runnable(k, c, from) = scan_from(from, work)
    BY <1>2 DEF next_runnable
  <2>2. work \in SUBSET Slots
    OBVIOUS
  <2> HIDE DEF work
  <2>3. scan_from(from, work) \in work
    BY <1>2, <2>2, ScanFinds
  <2> QED
    BY <2>1, <2>3 DEF work
<1> QED
  BY ZenonT(60), <1>1, <1>2

\* A pick that answers idle found no program waiting.
LEMMA PickSettles ==
  ASSUME NEW k \in Tables, NEW c \in Cores, NEW from \in Slots, NEW n,
         n.state = k.state,
         n.current = [k.current EXCEPT ![c] = next_runnable(k, c, from)]
  PROVE  Settled(n, c)
<1> DEFINE work == {t \in Slots \ {IDLE} : may_run_on(k, c, t)}
<1>0. k.current \in [Cores -> Slots]
  BY DEF Tables
<1> SUFFICES ASSUME c \in up \ {BOOT}, n.current[c] = IDLE,
                    NEW t \in WaitingPrograms(n.state, n.current)
             PROVE  FALSE
  BY DEF Settled
<1>1. next_runnable(k, c, from) = IDLE
  BY <1>0
<1>2. work = {}
  <2> SUFFICES ASSUME work # {} PROVE FALSE
    OBVIOUS
  <2>1. next_runnable(k, c, from) = scan_from(from, work)
    BY DEF next_runnable
  <2>2. work \in SUBSET Slots /\ IDLE \notin work
    OBVIOUS
  <2> HIDE DEF work
  <2>3. scan_from(from, work) \in work
    BY <2>2, ScanFinds
  <2> QED
    BY <1>1, <2>1, <2>2, <2>3
<1>3. t \in Spawnable /\ k.state[t] = "Runnable" /\ \A d \in Cores : n.current[d] # t
  BY DEF WaitingPrograms
<1>4. \A d \in Cores \ {c} : k.current[d] # t
  BY <1>0, <1>3
<1>5. t \in Slots \ {IDLE} /\ may_run_on(k, c, t)
  BY <1>3, <1>4, SlotFacts DEF may_run_on
<1> QED
  BY <1>2, <1>5

\* A core between two tasks that switches to one it may run is sound again,
\* and that task is not one another core asked to end.
LEMMA SwitchSound ==
  ASSUME NEW k, NEW c \in Cores, c \in UpCores, Others(k, c),
         NEW t \in Slots, may_run_on(k, c, t)
  PROVE  /\ Sound(switch_to(k, c, t))
         /\ switch_to(k, c, t).doomed[t] = 0
         /\ switch_to(k, c, t).current[c] = t
         /\ switch_to(k, c, t).state = k.state
<1> DEFINE n == switch_to(k, c, t)
<1>1. /\ n \in Tables
      /\ n.state = k.state /\ n.gen = k.gen /\ n.doomed = k.doomed
      /\ n.current[c] = t
      /\ \A d \in Cores \ {c} : n.current[d] = k.current[d]
  BY ZenonT(60) DEF Others, Tables, switch_to
<1> HIDE DEF n
<1>2. /\ k.state[t] = "Runnable"
      /\ t # IDLE => /\ \A d \in Cores \ {c} : k.current[d] # t
                    /\ IF c = BOOT THEN t \notin Spawnable \/ up = {} ELSE t \in Spawnable
  BY DEF may_run_on
<1>3. On(k, Cores \ {c})
  BY DEF Others
<1>4. k.doomed[t] = 0
  BY ZenonT(60), <1>2, <1>3, SlotFacts DEF On
<1>5. On(n, Cores)
  BY <1>1, <1>2, <1>3, SlotFacts, CoreFacts DEF On
<1> QED
  BY <1>1, <1>4, <1>5 DEF Sound, n

\* Picking and switching, from any starting slot.
LEMMA PickSound ==
  ASSUME NEW k, NEW c \in Cores, c \in UpCores, Others(k, c), NEW from \in Slots
  PROVE  LET n == switch_to(k, c, next_runnable(k, c, from))
         IN  /\ Sound(n) /\ n.doomed[n.current[c]] = 0 /\ n.state = k.state
             /\ Settled(n, c)
<1> DEFINE n == switch_to(k, c, next_runnable(k, c, from))
<1>1. k \in Tables /\ k.state[IDLE] = "Runnable"
  BY DEF Others, On
<1>2. /\ next_runnable(k, c, from) \in Slots
      /\ may_run_on(k, c, next_runnable(k, c, from))
  BY <1>1, PickMayRun
<1>3. Sound(n) /\ n.doomed[n.current[c]] = 0 /\ n.state = k.state
  BY <1>2, SwitchSound
<1>4. n.current = [k.current EXCEPT ![c] = next_runnable(k, c, from)]
  BY <1>1 DEF switch_to, Tables
<1> HIDE DEF n
<1>5. Settled(n, c)
  BY <1>1, <1>3, <1>4, PickSettles
<1> QED
  BY <1>3, <1>5 DEF n

\* A core whose task is not marked may leave it: nothing is lost by that.
LEMMA Unmarked ==
  ASSUME NEW k, NEW c \in Cores, Sound(k), k.doomed[k.current[c]] = 0
  PROVE  Others(k, c)
<1>1. k \in Tables /\ On(k, Cores)
  BY ZenonT(60) DEF Sound
<1>2. On(k, Cores \ {c})
  BY <1>1, CoreFacts DEF On
<1> QED
  BY <1>1, <1>2 DEF Others

\* What the cores run and the marks stay: so does On, as long as what runs may.
LEMMA OnStays ==
  ASSUME NEW k, NEW n, NEW C \in SUBSET Cores, On(k, C),
         n.current = k.current, n.doomed = k.doomed,
         \A t \in Slots : k.doomed[t] # 0 => n.gen[t] = k.gen[t],
         \A c \in C : n.state[k.current[c]] = "Runnable", n.state[IDLE] = "Runnable"
  PROVE  On(n, C)
<1>1. /\ \A c, d \in C : c # d /\ k.current[c] = k.current[d] => k.current[c] = IDLE
      /\ \A c \in C : c # BOOT => k.current[c] \in Spawnable \union {IDLE}
      /\ BOOT \in C /\ k.current[BOOT] \in Spawnable => up = {}
      /\ \A c \in C : c \notin UpCores => k.current[c] = IDLE
  BY ZenonT(60) DEF On
<1>2. \A t \in Slots : k.doomed[t] # 0 =>
        /\ t \in Spawnable
        /\ k.doomed[t] = k.gen[t]
        /\ \E c \in UpCores \cap C : k.current[c] = t
  BY ZenonT(60) DEF On
<1>3. \A t \in Slots : k.doomed[t] # 0 =>
        /\ t \in Spawnable
        /\ k.doomed[t] = n.gen[t]
        /\ \E c \in UpCores \cap C : k.current[c] = t
  BY ZenonT(60), <1>2
<1> QED
  BY <1>1, <1>3 DEF On

\* Waking blocked tasks disturbs nothing.
LEMMA WakeOn ==
  ASSUME NEW k \in Tables, NEW C \in SUBSET Cores, On(k, C), NEW woken
  PROVE  /\ Wake(k, woken) \in Tables
         /\ On(Wake(k, woken), C)
         /\ Wake(k, woken).current = k.current
         /\ Wake(k, woken).doomed = k.doomed
         /\ Wake(k, woken).gen = k.gen
<1> DEFINE n == Wake(k, woken)
<1>1. /\ n \in Tables
      /\ n.gen = k.gen /\ n.doomed = k.doomed /\ n.current = k.current
      /\ \A t \in Slots : k.state[t] = "Runnable" => n.state[t] = "Runnable"
  BY ZenonT(60) DEF Tables, Wake
<1> HIDE DEF n
<1>2. \A c \in C : k.current[c] \in Slots
  BY ZenonT(60) DEF Tables
<1>3. n.state[IDLE] = "Runnable" /\ \A c \in C : n.state[k.current[c]] = "Runnable"
  BY ZenonT(60), <1>1, <1>2, SlotFacts DEF On
<1>4. On(n, C)
  BY ZenonT(60), <1>1, <1>3, OnStays
<1> QED
  BY ZenonT(60), <1>1, <1>4 DEF n

\* Ending a task that none of the cores of C runs.
LEMMA EndOn ==
  ASSUME NEW k \in Tables, NEW C \in SUBSET Cores, NEW woken,
         NEW t \in Slots, t # IDLE, \A c \in C : k.current[c] # t,
         On([k EXCEPT !.doomed = [@ EXCEPT ![t] = 0]], C)
  PROVE  /\ end_task(k, t, woken) \in Tables
         /\ On(end_task(k, t, woken), C)
         /\ end_task(k, t, woken).current = k.current
         /\ end_task(k, t, woken).state[t] = "Unused"
<1> DEFINE n == end_task(k, t, woken)
           m == [k EXCEPT !.doomed = [@ EXCEPT ![t] = 0]]
<1>1. /\ n \in Tables
      /\ n.gen = m.gen /\ n.doomed = m.doomed /\ n.current = m.current
      /\ m.current = k.current
      /\ \A u \in Slots \ {t} : m.state[u] = "Runnable" => n.state[u] = "Runnable"
      /\ n.state[t] = "Unused"
  BY ZenonT(60) DEF Tables, Wake, end_task
<1>2. On(m, C)
  OBVIOUS
<1>3. \A c \in C : m.current[c] \in Slots \ {t}
  BY <1>1 DEF Tables
<1> HIDE DEF n, m
<1>4. On(n, C)
  BY <1>1, <1>2, <1>3, SlotFacts DEF On
<1> QED
  BY <1>1, <1>4 DEF n

\* kill_current_and_switch (and an exit) keeps the tables sound.
LEMMA KillCurrentSound ==
  ASSUME NEW k, NEW c \in Cores, c \in UpCores, Sound(k), NEW woken,
         k.current[c] # IDLE
  PROVE  LET n == kill_current_and_switch(k, c, woken)
         IN  /\ Sound(n) /\ Settled(n, c)
             /\ n.doomed[n.current[c]] = 0
             /\ \A d \in Cores : n.current[d] # k.current[c]
<1> DEFINE t  == k.current[c]
           k1 == end_task(k, t, woken)
           n  == switch_to(k1, c, next_runnable(k1, c, t))
           m  == [k EXCEPT !.doomed = [@ EXCEPT ![t] = 0]]
<1>1. k \in Tables /\ On(k, Cores) /\ t \in Slots
  BY DEF Sound, Tables
<1>2. \A d \in Cores \ {c} : k.current[d] # t
  BY <1>1 DEF On
<1>3. /\ m.state = k.state /\ m.gen = k.gen /\ m.current = k.current
      /\ \A u \in Slots : m.doomed[u] = IF u = t THEN 0 ELSE k.doomed[u]
  BY <1>1 DEF Tables
<1>4. On(m, Cores \ {c})
  <2> HIDE DEF m
  <2> QED
    BY <1>1, <1>2, <1>3, CoreFacts DEF On
<1>5. Others(k1, c) /\ k1.state[t] = "Unused"
  <2>1. Cores \ {c} \in SUBSET Cores /\ t # IDLE
    BY ZenonT(60)
  <2>2. k1 \in Tables /\ On(k1, Cores \ {c}) /\ k1.state[t] = "Unused"
    <3> HIDE DEF t
    <3> QED
      BY ZenonT(60), <1>1, <1>2, <1>4, <2>1, EndOn
  <2> QED
    BY ZenonT(60), <2>2 DEF Others
<1> HIDE DEF k1
<1>6. Sound(n) /\ Settled(n, c) /\ n.doomed[n.current[c]] = 0 /\ n.state = k1.state
  BY ZenonT(60), <1>1, <1>5, PickSound
<1>7. n = kill_current_and_switch(k, c, woken)
  BY DEF kill_current_and_switch, k1
<1> HIDE DEF n
<1>8. \A d \in Cores : n.state[n.current[d]] = "Runnable"
  BY ZenonT(60), <1>6 DEF Sound, On
<1> QED
  BY ZenonT(60), <1>5, <1>6, <1>7, <1>8

\* A mark that is not for the running task is dropped; there is none.
LEMMA DropMark ==
  ASSUME NEW k, NEW c \in Cores, Sound(k), ~Doomed(k, c)
  PROVE  /\ k.doomed[k.current[c]] = 0
         /\ [k EXCEPT !.doomed = [@ EXCEPT ![k.current[c]] = 0]] = k
<1> DEFINE t == k.current[c]
<1>1. k \in Tables /\ On(k, Cores) /\ t \in Slots
  BY DEF Sound, Tables
<1>2. k.doomed[t] = 0
  BY ZenonT(60), <1>1, SlotFacts DEF On, Doomed
<1>3. k.doomed \in [Slots -> Nat]
  BY <1>1 DEF Tables
<1>4. [k.doomed EXCEPT ![t] = 0] = k.doomed
  BY <1>1, <1>2, <1>3
<1> QED
  BY <1>1, <1>2, <1>4 DEF Tables

\* Every entry starts sound, with a task that nobody has asked to end.
LEMMA EntrySound ==
  ASSUME NEW k, NEW c \in Cores, c \in UpCores, Sound(k), NEW woken
  PROVE  LET n == end_if_doomed(k, c, woken)
         IN  Sound(n) /\ n.doomed[n.current[c]] = 0
<1>1. CASE Doomed(k, c)
  <2>1. k.current[c] # IDLE
    BY <1>1 DEF Doomed
  <2>2. end_if_doomed(k, c, woken) = kill_current_and_switch(k, c, woken)
    BY <1>1 DEF end_if_doomed
  <2> QED
    BY <2>1, <2>2, KillCurrentSound
<1>2. CASE ~Doomed(k, c)
  <2>1. end_if_doomed(k, c, woken) = k
    BY <1>2, DropMark DEF end_if_doomed
  <2> QED
    BY <1>2, <2>1, DropMark
<1> QED
  BY ZenonT(60), <1>1, <1>2

\* kill_task of a program, wherever it runs.
LEMMA KillTaskSound ==
  ASSUME NEW k, Sound(k), NEW t \in Spawnable, NEW woken
  PROVE  Sound(kill_task(k, t, woken)) /\ kill_task(k, t, woken).current = k.current
<1> DEFINE cores == running_core(k, t)
<1>1. k \in Tables /\ On(k, Cores) /\ t \in Slots /\ t # IDLE
  BY SlotFacts DEF Sound
<1>2. cores = {c \in Cores : k.current[c] = t}
  BY <1>1 DEF running_core
<1>3. CASE cores = {}
  <2> DEFINE m == [k EXCEPT !.doomed = [@ EXCEPT ![t] = 0]]
  <2>1. /\ m.state = k.state /\ m.gen = k.gen /\ m.current = k.current
        /\ \A u \in Slots : m.doomed[u] = IF u = t THEN 0 ELSE k.doomed[u]
    BY ZenonT(60), <1>1 DEF Tables
  <2>2. On(m, Cores)
    <3> HIDE DEF m
    <3> QED
      BY <1>1, <2>1, CoreFacts DEF On
  <2>3. kill_task(k, t, woken) = end_task(k, t, woken)
    BY <1>3 DEF kill_task
  <2>4. \A c \in Cores : k.current[c] # t
    BY <1>2, <1>3
  <2> QED
    BY <1>1, <2>2, <2>3, <2>4, EndOn DEF Sound
<1>4. CASE cores # {}
  <2> DEFINE n == [k EXCEPT !.doomed = [@ EXCEPT ![t] = k.gen[t]],
                            !.kicks = kick(@, cores, "KILL")]
  <2>1. kill_task(k, t, woken) = n
    BY <1>4 DEF kill_task
  <2>2. /\ n \in Tables
        /\ n.state = k.state /\ n.gen = k.gen /\ n.current = k.current
        /\ \A u \in Slots : n.doomed[u] = IF u = t THEN k.gen[t] ELSE k.doomed[u]
    BY ZenonT(60), <1>1 DEF Tables, kick
  <2>3. PICK c \in Cores : k.current[c] = t
    BY ZenonT(60), <1>2, <1>4
  <2>4. c \in UpCores
    BY ZenonT(60), <1>1, <2>3 DEF On
  <2> HIDE DEF n
  <2>5. On(n, Cores)
    BY <1>1, <2>2, <2>3, <2>4 DEF On
  <2> QED
    BY <2>1, <2>2, <2>5 DEF Sound
<1> QED
  BY <1>3, <1>4

\* Restarting servers that no core runs.
LEMMA RestartSound ==
  ASSUME NEW k, Sound(k), NEW S \in SUBSET SUPERVISED,
         \A c \in Cores : k.current[c] \notin S
  PROVE  /\ Sound(restart(k, S))
         /\ restart(k, S).current = k.current
         /\ restart(k, S).doomed = k.doomed
         /\ \A c \in Cores : Settled(k, c) => Settled(restart(k, S), c)
<1> DEFINE n == restart(k, S)
<1>1. k \in Tables /\ On(k, Cores)
  BY DEF Sound
<1> DEFINE again == [t \in Slots |-> IF t \in S THEN k.restarts[t] + 1 ELSE k.restarts[t]]
           st == [t \in Slots |-> IF t \in S
                                  THEN IF k.restarts[t] < MAX_RESTARTS
                                       THEN "Runnable" ELSE "Unused"
                                  ELSE k.state[t]]
<1>a. again \in [Slots -> Nat]
  <2>1. k.restarts \in [Slots -> Nat]
    BY <1>1 DEF Tables
  <2> QED
    BY <2>1
<1>b. st \in [Slots -> {"Unused", "Runnable", "Blocked"}]
  BY <1>1 DEF Tables
<1>c. n = [k EXCEPT !.restarts = again, !.state = st]
  BY DEF restart
<1>d. \A t \in Slots \ S : st[t] = k.state[t]
  OBVIOUS
<1> HIDE DEF again, st, n
<1>2. /\ n \in Tables
      /\ n.gen = k.gen /\ n.doomed = k.doomed /\ n.current = k.current
      /\ \A t \in Slots \ S : n.state[t] = k.state[t]
  BY ZenonT(60), <1>1, <1>a, <1>b, <1>c, <1>d DEF Tables
<1>3. \A c \in Cores : k.current[c] \in Slots \ S
  BY <1>1 DEF Tables
<1>4. IDLE \in Slots \ S
  BY ZenonT(60), SlotFacts
<1>5. On(n, Cores)
  BY <1>1, <1>2, <1>3, <1>4 DEF On
<1>6. Spawnable \subseteq Slots \ S
  BY SlotFacts
<1>7. WaitingPrograms(n.state, n.current) = WaitingPrograms(k.state, k.current)
  BY <1>2, <1>6 DEF WaitingPrograms
<1>8. \A c \in Cores : Settled(k, c) => Settled(n, c)
  BY <1>2, <1>7 DEF Settled
<1> QED
  BY ZenonT(60), <1>2, <1>5, <1>8 DEF Sound, n

\* The tick's pick.
LEMMA TickPickSound ==
  ASSUME NEW k, NEW c \in Cores, c \in UpCores, Sound(k), k.doomed[k.current[c]] = 0
  PROVE  Sound(next_at_tick(k, c)) /\ Settled(next_at_tick(k, c), c)
<1> DEFINE next == next_runnable(k, c, k.round[c])
           m == [k EXCEPT !.round = [@ EXCEPT ![c] = next]]
<1>0. Others(k, c)
  BY Unmarked
<1>1. k \in Tables /\ On(k, Cores \ {c}) /\ k.round[c] \in Slots
  BY <1>0 DEF Others, Tables
<1>2. next \in Slots /\ may_run_on(k, c, next)
  BY ZenonT(60), <1>1, PickMayRun DEF On
<1>a. next = next_runnable(k, c, k.round[c])
  OBVIOUS
<1> HIDE DEF next
<1>3. /\ m \in Tables /\ m.state = k.state /\ m.gen = k.gen
      /\ m.doomed = k.doomed /\ m.current = k.current
  BY ZenonT(60), <1>1, <1>2 DEF Tables
<1>4. next_at_tick(k, c) = switch_to(m, c, next)
  BY ZenonT(60) DEF next_at_tick, next
<1> HIDE DEF m
<1>5. Others(m, c) /\ may_run_on(m, c, next)
  BY <1>1, <1>2, <1>3 DEF Others, On, may_run_on
<1>6. Sound(switch_to(m, c, next)) /\ switch_to(m, c, next).state = k.state
  BY ZenonT(60), <1>2, <1>3, <1>5, SwitchSound
<1>7. switch_to(m, c, next).current = [k.current EXCEPT ![c] = next]
  BY ZenonT(60), <1>3 DEF switch_to, Tables
<1>8. Settled(switch_to(m, c, next), c)
  BY <1>1, <1>6, <1>7, <1>a, PickSettles
<1> QED
  BY <1>4, <1>6, <1>8

\* block_current_and_switch_to, with or without a preferred server.
LEMMA BlockSound ==
  ASSUME NEW k, NEW c \in Cores, c \in UpCores, Sound(k),
         k.doomed[k.current[c]] = 0, k.current[c] # IDLE,
         NEW p \in (Slots \ {IDLE}) \union {NoTask}
  PROVE  /\ Sound(block_current_and_switch_to(k, c, p))
         /\ Settled(block_current_and_switch_to(k, c, p), c)
<1> DEFINE me == k.current[c]
           k1 == [k EXCEPT !.state = [@ EXCEPT ![me] = "Blocked"]]
           to == IF p # NoTask /\ p # me /\ may_run_on(k1, c, p) THEN p
                 ELSE next_runnable(k1, c, me)
<1>1. k \in Tables /\ On(k, Cores) /\ me \in Slots
  BY DEF Sound, Tables
<1>2. \A d \in Cores \ {c} : k.current[d] # me
  BY ZenonT(60), <1>1 DEF On
<1>3. /\ k1 \in Tables /\ k1.gen = k.gen /\ k1.doomed = k.doomed /\ k1.current = k.current
      /\ \A t \in Slots \ {me} : k1.state[t] = k.state[t]
  BY ZenonT(60), <1>1 DEF Tables
<1>0. Others(k, c)
  BY Unmarked
<1>4. On(k, Cores \ {c})
  BY <1>0 DEF Others
<1> HIDE DEF k1
<1>5. \A d \in Cores \ {c} : k.current[d] \in Slots \ {me}
  BY ZenonT(60), <1>1, <1>2 DEF Tables
<1>a. /\ \A d \in Cores \ {c} : k1.state[k.current[d]] = "Runnable"
      /\ k1.state[IDLE] = "Runnable"
  BY ZenonT(60), <1>3, <1>4, <1>5, SlotFacts DEF On
<1>b. On(k1, Cores \ {c})
  BY <1>3, <1>4, <1>a DEF On
<1>6. Others(k1, c)
  BY ZenonT(60), <1>3, <1>b DEF Others
<1>7. k1.state[IDLE] = "Runnable"
  BY ZenonT(60), <1>6 DEF Others, On
<1>8. to \in Slots /\ may_run_on(k1, c, to)
  BY ZenonT(60), <1>1, <1>3, <1>7, PickMayRun
<1>9. block_current_and_switch_to(k, c, p) = switch_to(k1, c, to)
  BY DEF block_current_and_switch_to, k1
<1>c. to = next_runnable(k1, c, me) \/ to # IDLE
  OBVIOUS
<1> HIDE DEF to
<1>10. /\ Sound(switch_to(k1, c, to)) /\ switch_to(k1, c, to).current[c] = to
       /\ switch_to(k1, c, to).state = k1.state
  BY <1>6, <1>8, SwitchSound
<1>11. switch_to(k1, c, to).current = [k1.current EXCEPT ![c] = to]
  BY <1>3 DEF switch_to, Tables
<1>12. CASE to # IDLE
  BY ZenonT(60), <1>9, <1>10, <1>12 DEF Settled
<1>13. CASE to = next_runnable(k1, c, me)
  <2>1. Settled(switch_to(k1, c, to), c)
    BY <1>1, <1>3, <1>10, <1>11, <1>13, PickSettles
  <2> QED
    BY ZenonT(60), <1>9, <1>10, <2>1
<1> QED
  BY ZenonT(60), <1>c, <1>12, <1>13

\* The variables' invariant is soundness of the tables they hold.
LEMMA KernelSound ==
  ASSUME TypeOK, SchedInv
  PROVE  Sound(Kernel)
<1>1. Kernel \in Tables
  BY ZenonT(60) DEF TypeOK, Kernel, Tables
<1>2. /\ Kernel.state = state /\ Kernel.gen = gen /\ Kernel.doomed = doomed
      /\ Kernel.current = current
  BY ZenonT(60) DEF Kernel
<1>3. \A t \in Slots : doomed[t] # 0 => \E c \in UpCores \cap Cores : current[c] = t
  BY CoreFacts DEF SchedInv, DoomedIsRunning, UpCores, TypeOK
<1>4. On(Kernel, Cores)
  BY <1>2, <1>3 DEF On, SchedInv, OneCorePerTask, CurrentIsRunnable, PlacementHolds,
     DeadCoreRunsNothing, DoomedIsRunning, IdleNeverStops, OnlyProgramsAreDoomed
<1> QED
  BY <1>1, <1>4 DEF Sound

\* The first n of a finite set of numbers, counted from below, are all of it
\* or at least n.
LEMMA FirstOnes ==
  ASSUME NEW S \in SUBSET Nat, IsFiniteSet(S), NEW n \in Nat
  PROVE  LET first == {c \in S : Cardinality({d \in S : d <= c}) <= n}
         IN  first = S \/ n <= Cardinality(first)
<1> DEFINE first == {c \in S : Cardinality({d \in S : d <= c}) <= n}
           rest == S \ first
<1> SUFFICES ASSUME first # S PROVE n <= Cardinality(first)
  OBVIOUS
<1>1. rest \subseteq Nat /\ rest # {}
  BY ZenonT(60)
<1>2. IsWellFoundedOn(OpToRel(<, Nat), Nat)
  BY ZenonT(60), NatLessThanWellFounded
<1> HIDE DEF rest
<1>3. \E x \in rest : \A y \in rest : ~ (<<y, x>> \in OpToRel(<, Nat))
  BY <1>1, <1>2, WFMin, ZenonT(60)
<1>4. PICK x \in rest : \A y \in rest : ~ (y < x)
  BY ZenonT(60), <1>1, <1>3 DEF OpToRel
<1> DEFINE upto == {d \in S : d <= x}
<1>5. x \in S /\ x \in Nat /\ ~(Cardinality(upto) <= n)
  BY <1>1, <1>4 DEF rest
<1>6. IsFiniteSet(upto) /\ IsFiniteSet(first)
  BY ZenonT(60), FS_Subset
<1>7. x \in upto /\ upto \ {x} \subseteq first
  <2>1. x \in upto
    BY <1>5
  <2>2. ASSUME NEW d \in upto \ {x} PROVE d \in first
    <3>1. d \in S /\ d \in Nat /\ d < x
      BY <1>5
    <3> QED
      BY <1>4, <3>1 DEF rest
  <2> QED
    BY ZenonT(60), <2>1, <2>2
<1> HIDE DEF upto, first
<1>8. Cardinality(upto) \in Nat /\ Cardinality(first) \in Nat
  BY <1>6, FS_CardinalityType
<1>9. IsFiniteSet(upto \ {x}) /\ Cardinality(upto \ {x}) = Cardinality(upto) - 1
  BY ZenonT(60), <1>6, <1>7, FS_RemoveElement
<1>10. Cardinality(upto \ {x}) <= Cardinality(first)
  BY <1>6, <1>7, FS_Subset
<1> QED
  BY <1>5, <1>8, <1>9, <1>10 DEF first

\* kick_idle_cores reaches every idle secondary, or one for each program waiting.
LEMMA KicksReach ==
  ASSUME NEW k \in Tables, NEW c \in Cores, up \subseteq Started, Settled(k, c),
         Started \subseteq Kickable
  PROVE  LET kicked == {d \in Started : k.current[d] = IDLE
                                         /\ "RESCHED" \in kick_idle_cores(k, c)[d]}
         IN  \/ IdleSecondaries(k.current) \subseteq kicked
             \/ Cardinality(WaitingPrograms(k.state, k.current)) <= Cardinality(kicked)
<1> DEFINE kicked == {d \in Started : k.current[d] = IDLE
                                       /\ "RESCHED" \in kick_idle_cores(k, c)[d]}
           programs == WaitingPrograms(k.state, k.current)
           idle == IdleSecondaries(k.current) \ {c}
           first == {d \in idle : Cardinality({e \in idle : e <= d}) <= Cardinality(programs)}
<1>1. /\ Cores \subseteq Nat /\ IsFiniteSet(Cores) /\ IsFiniteSet(Slots)
      /\ up \subseteq Cores \ {BOOT}
  BY CoresAssumption, SlotsAssumption, FS_Interval DEF Cores, Slots
<1>2. IsFiniteSet(programs) /\ IsFiniteSet(idle) /\ IsFiniteSet(kicked) /\ idle \in SUBSET Nat
  BY ZenonT(60), <1>1, CoreFacts, SlotFacts, FS_Subset DEF WaitingPrograms, IdleSecondaries
<1>3. Cardinality(programs) \in Nat /\ Cardinality(kicked) \in Nat
  BY ZenonT(60), <1>2, FS_CardinalityType
<1>4. first \subseteq kicked
  <2>1. ASSUME NEW d \in first PROVE d \in Started /\ d \in Cores /\ k.current[d] = IDLE
    BY <1>1 DEF IdleSecondaries
  <2>2. ASSUME NEW d \in first PROVE "RESCHED" \in kick_idle_cores(k, c)[d]
    <3>1. d \in Kickable /\ d \in Cores
      BY ZenonT(60), <2>1
    <3> QED
      BY ZenonT(60), <3>1 DEF kick_idle_cores, kick
  <2> QED
    BY ZenonT(60), <2>1, <2>2
<1> HIDE DEF kicked, programs
<1>5. first = idle \/ Cardinality(programs) <= Cardinality(first)
  BY ZenonT(60), <1>2, <1>3, FirstOnes
<1>6. IsFiniteSet(first) /\ Cardinality(first) \in Nat /\ Cardinality(first) <= Cardinality(kicked)
  BY ZenonT(60), <1>2, <1>4, FS_Subset, FS_CardinalityType
<1>7. CASE c \in up /\ k.current[c] = IDLE
  <2>1. programs = {}
    BY ZenonT(60), <1>1, <1>7 DEF Settled, programs
  <2>2. Cardinality(programs) = 0
    BY <2>1, FS_EmptySet
  <2> QED
    BY <1>3, <2>2 DEF kicked, programs
<1>8. CASE ~(c \in up /\ k.current[c] = IDLE)
  <2>1. idle = IdleSecondaries(k.current)
    BY <1>8 DEF IdleSecondaries
  <2>2. CASE first = idle
    BY ZenonT(60), <1>4, <2>1, <2>2 DEF kicked, programs
  <2>3. CASE Cardinality(programs) <= Cardinality(first)
    <3> HIDE DEF first
    <3>1. Cardinality(programs) <= Cardinality(kicked)
      BY <1>3, <1>6, <2>3
    <3> QED
      BY ZenonT(60), <3>1 DEF kicked, programs
  <2> QED
    BY ZenonT(60), <1>5, <2>2, <2>3
<1> QED
  BY ZenonT(60), <1>7, <1>8

\* An entry that leaves sound and settled tables leaves the invariant.
LEMMA LeaveSound ==
  ASSUME TypeOK, NEW c \in Cores, NEW k, Sound(k), Settled(k, c), Leave(c, k)
  PROVE  Kept'
<1>1. k \in Tables /\ On(k, Cores)
  BY DEF Sound
<1>2. /\ state' = k.state /\ gen' = k.gen /\ nextGen' = k.nextGen
      /\ restarts' = k.restarts /\ current' = k.current /\ round' = k.round
      /\ doomed' = k.doomed /\ kicks' = kick_idle_cores(k, c) /\ up' = up
  BY DEF Leave
<1>3. kick_idle_cores(k, c) \in [Cores -> SUBSET {"RESCHED", "KILL"}]
  BY ZenonT(60), <1>1 DEF kick_idle_cores, kick, Tables
<1>4. TypeOK'
  BY ZenonT(60), <1>1, <1>2, <1>3 DEF TypeOK, Tables
<1>5. UpCores' = UpCores
  BY <1>2 DEF UpCores
<1>6. SchedInv'
  BY ZenonT(60), <1>1, <1>2, <1>5, CoreFacts DEF On, SchedInv, OneCorePerTask, CurrentIsRunnable,
     PlacementHolds, DeadCoreRunsNothing, DoomedIsRunning, IdleNeverStops,
     OnlyProgramsAreDoomed
<1>7. up \subseteq Started
  BY DEF TypeOK
<1>8. ASSUME Started \subseteq Kickable PROVE WorkHasBeenKicked'
  BY ZenonT(60), <1>1, <1>2, <1>7, <1>8, KicksReach DEF WorkHasBeenKicked, IdleSecondaries
<1> QED
  BY ZenonT(60), <1>4, <1>6, <1>8 DEF Kept

\* A core in a system call: its task is not idle and carries no mark.
LEMMA CallerFacts ==
  ASSUME TypeOK, SchedInv, NEW c \in Cores, Calling(c)
  PROVE  /\ Sound(Kernel) /\ c \in UpCores
         /\ Kernel.current[c] = current[c] /\ current[c] \in Slots /\ current[c] # IDLE
         /\ Kernel.doomed[current[c]] = 0
<1>1. Sound(Kernel) /\ ~Doomed(Kernel, c) /\ c \in UpCores
  BY KernelSound DEF Calling
<1>2. Kernel.doomed[Kernel.current[c]] = 0
  BY <1>1, DropMark
<1> QED
  BY ZenonT(60), <1>1, <1>2 DEF Kernel, Calling, TypeOK

\* Initially: the boot shell on the boot core, idle everywhere else.
LEMMA SchedInit == Init => Kept
<1> SUFFICES ASSUME Init PROVE Kept
  OBVIOUS
<1>1. TypeOK
  BY SlotFacts, CoreFacts DEF Init, TypeOK
<1>2. SchedInv
  BY ZenonT(60), SlotFacts, CoreFacts DEF Init, SchedInv, OneCorePerTask, CurrentIsRunnable,
     PlacementHolds, DeadCoreRunsNothing, DoomedIsRunning, IdleNeverStops,
     OnlyProgramsAreDoomed, UpCores
<1>3. WorkHasBeenKicked
  <2>1. WaitingPrograms(state, current) = {}
    BY ZenonT(60), SlotFacts DEF Init, WaitingPrograms
  <2>2. IsFiniteSet(Started)
    <3>1. NUM_CORES - 1 \in Int /\ Started \subseteq Cores
      BY CoresAssumption
    <3>2. IsFiniteSet(Cores)
      BY <3>1, FS_Interval DEF Cores
    <3> QED
      BY ZenonT(60), <3>1, <3>2, FS_Subset
  <2> QED
    BY ZenonT(60), <2>1, <2>2, FS_EmptySet, FS_Subset, FS_CardinalityType DEF WorkHasBeenKicked
<1> QED
  BY <1>1, <1>2, <1>3 DEF Kept

\* Every kernel entry, and a core's death, keeps the invariant.
LEMMA SchedStep == Kept /\ [Next]_vars => Kept'
<1> SUFFICES ASSUME Kept, TypeOK, SchedInv, [Next]_vars PROVE Kept'
  BY DEF Kept
<1>1. ASSUME NEW c \in Cores, NEW t \in Slots, Deliver(c, t) PROVE Kept'
  <2>1. Sound(Kernel) /\ Kernel.current[c] # IDLE
    BY ZenonT(60), <1>1, CallerFacts DEF Deliver
  <2>2. Sound(Wake(Kernel, {t})) /\ Settled(Wake(Kernel, {t}), c)
    BY <2>1, WakeOn DEF Sound, Settled
  <2> QED
    BY ZenonT(60), <1>1, <2>2, LeaveSound DEF Deliver
<1>2. ASSUME NEW c \in Cores, NEW d \in Slots, NEW woken \in SUBSET {d}, Call(c, d, woken)
      PROVE  Kept'
  <2> DEFINE k == Wake(Kernel, woken)
  <2>1. /\ Sound(Kernel) /\ c \in UpCores
        /\ Kernel.current[c] = current[c] /\ current[c] # IDLE
        /\ Kernel.doomed[current[c]] = 0
    BY ZenonT(60), <1>2, CallerFacts DEF Call
  <2>2. Sound(k) /\ k.current = Kernel.current /\ k.doomed = Kernel.doomed
    BY ZenonT(60), <2>1, WakeOn DEF Sound
  <2>3. Leave(c, block_current_and_switch_to(k, c, d))
    BY ZenonT(60), <1>2 DEF Call
  <2> HIDE DEF k
  <2>4. d \in Slots \ {IDLE}
    BY <1>2 DEF Call
  <2>5. /\ Sound(block_current_and_switch_to(k, c, d))
        /\ Settled(block_current_and_switch_to(k, c, d), c)
    BY ZenonT(60), <2>1, <2>2, <2>4, BlockSound
  <2> QED
    BY ZenonT(60), <2>3, <2>5, LeaveSound
<1>3. ASSUME NEW c \in Cores, Block(c) PROVE Kept'
  <2>1. /\ Sound(Kernel) /\ c \in UpCores
        /\ Kernel.current[c] = current[c] /\ current[c] # IDLE
        /\ Kernel.doomed[current[c]] = 0
    BY <1>3, CallerFacts DEF Block
  <2>2. /\ Sound(block_current_and_switch_to(Kernel, c, NoTask))
        /\ Settled(block_current_and_switch_to(Kernel, c, NoTask), c)
    BY ZenonT(60), <2>1, BlockSound
  <2> QED
    BY ZenonT(60), <1>3, <2>2, LeaveSound DEF Block
<1>4. ASSUME NEW c \in Cores, Yield(c) PROVE Kept'
  <2>1. /\ Sound(Kernel) /\ c \in UpCores /\ current[c] \in Slots
        /\ Kernel.current[c] = current[c]
        /\ Kernel.doomed[current[c]] = 0
    BY ZenonT(60), <1>4, CallerFacts DEF Yield
  <2>2. Others(Kernel, c)
    BY <2>1, Unmarked
  <2>3. /\ Sound(switch_to(Kernel, c, next_runnable(Kernel, c, current[c])))
        /\ Settled(switch_to(Kernel, c, next_runnable(Kernel, c, current[c])), c)
    BY ZenonT(60), <2>1, <2>2, PickSound
  <2> QED
    BY <1>4, <2>3, LeaveSound DEF Yield
<1>5. ASSUME NEW c \in Cores, NEW i \in Slots, Spawn(c, i) PROVE Kept'
  <2> DEFINE n == [Kernel EXCEPT !.state = [@ EXCEPT ![i] = "Runnable"],
                                 !.gen = [@ EXCEPT ![i] = nextGen],
                                 !.nextGen = nextGen + 1]
  <2>1. Sound(Kernel) /\ current[c] # IDLE
    BY <1>5, CallerFacts DEF Spawn
  <2>2. state[i] = "Unused" /\ Leave(c, n)
    BY <1>5 DEF Spawn
  <2>3. nextGen \in Nat /\ nextGen + 1 \in Nat \ {0}
    BY DEF TypeOK
  <2>a. [state EXCEPT ![i] = "Runnable"] \in [Slots -> {"Unused", "Runnable", "Blocked"}]
    BY DEF TypeOK
  <2>b. [gen EXCEPT ![i] = nextGen] \in [Slots -> Nat]
    BY <2>3 DEF TypeOK
  <2>c. n = [Kernel EXCEPT !.state = [state EXCEPT ![i] = "Runnable"],
                           !.gen = [gen EXCEPT ![i] = nextGen],
                           !.nextGen = nextGen + 1]
    BY DEF Kernel
  <2>d. /\ n \in Tables
        /\ n.doomed = doomed /\ n.current = current
        /\ n.state = [state EXCEPT ![i] = "Runnable"]
        /\ n.gen = [gen EXCEPT ![i] = nextGen]
    BY ZenonT(60), <2>3, <2>a, <2>b, <2>c DEF Tables, Kernel, TypeOK
  <2>4. /\ n \in Tables
        /\ n.doomed = doomed /\ n.current = current
        /\ \A t \in Slots : n.state[t] = IF t = i THEN "Runnable" ELSE state[t]
        /\ \A t \in Slots \ {i} : n.gen[t] = gen[t]
    BY ZenonT(60), <2>d DEF TypeOK
  <2>5. \A c1 \in Cores : current[c1] \in Slots \ {i}
    BY <2>2 DEF TypeOK, SchedInv, CurrentIsRunnable
  <2>6. /\ Kernel.state = state /\ Kernel.gen = gen /\ Kernel.doomed = doomed
        /\ Kernel.current = current /\ On(Kernel, Cores)
    BY ZenonT(60), <2>1 DEF Kernel, Sound
  <2> HIDE DEF n
  <2>7. doomed[i] = 0
    BY ZenonT(60), <2>5, <2>6 DEF On
  <2>e. /\ \A c1 \in Cores : n.state[current[c1]] = "Runnable"
        /\ n.state[IDLE] = "Runnable"
    <3>1. state[IDLE] = "Runnable" /\ \A c1 \in Cores : state[current[c1]] = "Runnable"
      BY ZenonT(60) DEF SchedInv, CurrentIsRunnable, IdleNeverStops
    <3> QED
      BY ZenonT(60), <2>4, <2>5, <3>1, SlotFacts
  <2>f. \A t \in Slots : doomed[t] # 0 => n.gen[t] = gen[t]
    BY ZenonT(60), <2>4, <2>7
  <2>8. On(n, Cores)
    <3>1. /\ n.current = Kernel.current /\ n.doomed = Kernel.doomed
          /\ \A t \in Slots : Kernel.doomed[t] # 0 => n.gen[t] = Kernel.gen[t]
          /\ \A c1 \in Cores : n.state[Kernel.current[c1]] = "Runnable"
          /\ n.state[IDLE] = "Runnable"
      BY ZenonT(60), <2>4, <2>6, <2>e, <2>f
    <3>2. On(Kernel, Cores) /\ Cores \in SUBSET Cores
      BY ZenonT(60), <2>6
    <3> QED
      BY <3>1, <3>2, OnStays
  <2>9. Settled(n, c)
    BY <2>1, <2>4 DEF Settled
  <2> QED
    BY ZenonT(60), <2>2, <2>4, <2>8, <2>9, LeaveSound DEF Sound
<1>6. ASSUME NEW c \in Cores, NEW woken, Exit(c, woken) PROVE Kept'
  <2>1. /\ Sound(Kernel) /\ c \in UpCores /\ Kernel.current[c] # IDLE
    BY ZenonT(60), <1>6, CallerFacts DEF Exit
  <2>2. /\ Sound(kill_current_and_switch(Kernel, c, woken))
        /\ Settled(kill_current_and_switch(Kernel, c, woken), c)
    BY <2>1, KillCurrentSound
  <2> QED
    BY ZenonT(60), <1>6, <2>2, LeaveSound DEF Exit
<1>7. ASSUME NEW c \in Cores, NEW t \in Slots, NEW woken, Kill(c, t, woken)
      PROVE  Kept'
  <2>1. Sound(Kernel) /\ t \in Spawnable /\ Kernel.current[c] # IDLE
    BY ZenonT(60), <1>7, CallerFacts DEF Kill
  <2>2. Sound(kill_task(Kernel, t, woken)) /\ Settled(kill_task(Kernel, t, woken), c)
    BY <2>1, KillTaskSound DEF Settled
  <2> QED
    BY ZenonT(60), <1>7, <2>2, LeaveSound DEF Kill
<1>8. ASSUME NEW c \in Cores, NEW woken, DoomedEntry(c, woken) PROVE Kept'
  <2>1. Sound(Kernel) /\ c \in UpCores /\ Doomed(Kernel, c) /\ Kernel.current[c] # IDLE
    BY ZenonT(60), <1>8, KernelSound DEF DoomedEntry, Doomed
  <2>a. end_if_doomed(Kernel, c, woken) = kill_current_and_switch(Kernel, c, woken)
    BY ZenonT(60), <2>1 DEF end_if_doomed
  <2>2. Sound(end_if_doomed(Kernel, c, woken)) /\ Settled(end_if_doomed(Kernel, c, woken), c)
    BY <2>1, <2>a, KillCurrentSound
  <2> QED
    BY <1>8, <2>2, LeaveSound DEF DoomedEntry
<1>9. ASSUME NEW c \in Cores, NEW woken, Fault(c, woken) PROVE Kept'
  <2> DEFINE k == kill_current_and_switch(Kernel, c, woken)
             S == {current[c]} \cap SUPERVISED
  <2>1. /\ Sound(Kernel) /\ c \in UpCores /\ Kernel.current[c] # IDLE
        /\ Kernel.current[c] = current[c]
    BY ZenonT(60), <1>9, CallerFacts DEF Fault
  <2>2. Sound(k) /\ Settled(k, c) /\ \A d \in Cores : k.current[d] # current[c]
    BY <2>1, KillCurrentSound
  <2>3. Leave(c, restart(k, S))
    BY <1>9 DEF Fault
  <2> HIDE DEF k
  <2>4. Sound(restart(k, S)) /\ Settled(restart(k, S), c)
    BY ZenonT(60), <2>2, RestartSound
  <2> QED
    BY <2>3, <2>4, LeaveSound
<1>10. ASSUME NEW woken, NEW victim \in Spawnable \union {NoTask},
              NEW wedged \in SUBSET SUPERVISED, Tick(woken, victim, wedged)
       PROVE  Kept'
  <2> DEFINE k0 == end_if_doomed(Kernel, BOOT, woken)
             k1 == Wake(k0, woken)
             cur == k1.current[BOOT]
             k2 == IF victim = NoTask THEN k1 ELSE kill_task(k1, victim, {})
             before == {s \in wedged : cur \in wedged => s < cur}
             k3 == restart(k2, before)
  <2>1. BOOT \in Cores /\ BOOT \in UpCores /\ Sound(Kernel)
    BY ZenonT(60), CoreFacts, KernelSound DEF UpCores
  <2>b. \A k : Settled(k, BOOT)
    BY DEF Settled
  <2>2. Sound(k0) /\ k0.doomed[k0.current[BOOT]] = 0
    BY ZenonT(60), <2>1, EntrySound
  <2> HIDE DEF k0
  <2>3. Sound(k1) /\ k1.doomed[cur] = 0 /\ cur \in Slots
    <3>1. k0 \in Tables /\ On(k0, Cores)
      BY <2>2 DEF Sound
    <3>2. Sound(k1) /\ k1.current = k0.current /\ k1.doomed = k0.doomed
      BY <3>1, WakeOn DEF Sound
    <3> HIDE DEF k1
    <3> QED
      BY ZenonT(60), <2>1, <2>2, <3>2 DEF Sound, Tables
  <2>4. IF victim = cur THEN Leave(BOOT, kill_current_and_switch(k1, BOOT, {}))
        ELSE Leave(BOOT, IF cur \in wedged
                         THEN restart(kill_current_and_switch(k3, BOOT, {}), {cur})
                         ELSE next_at_tick(k3, BOOT))
    BY ZenonT(60), <1>10 DEF Tick, k0
  <2> HIDE DEF k1
  <2>5. CASE victim = cur
    <3>1. cur # IDLE
      BY <2>3, <2>5, SlotFacts
    <3>2. Sound(kill_current_and_switch(k1, BOOT, {}))
      BY ZenonT(60), <2>1, <2>3, <3>1, KillCurrentSound
    <3> QED
      BY ZenonT(60), <2>1, <2>4, <2>5, <2>b, <3>2, LeaveSound
  <2>6. CASE victim # cur
    <3>1. Sound(k2) /\ k2.current = k1.current
      BY ZenonT(60), <2>3, KillTaskSound
    <3>2. k2.doomed[cur] = 0
      <4>1. CASE victim = NoTask
        BY ZenonT(60), <2>3, <4>1
      <4>2. CASE victim # NoTask
        <5>1. k2 = kill_task(k1, victim, {}) /\ victim \in Slots
          BY ZenonT(60), <4>2, SlotFacts
        <5>2. k1 \in Tables /\ victim # cur
          BY <2>3, <2>6 DEF Sound
        <5> QED
          BY ZenonT(60), <2>3, <5>1, <5>2 DEF kill_task, end_task, Wake, Tables
      <4> QED
        BY ZenonT(60), <4>1, <4>2
    <3> HIDE DEF k2
    <3>3. \A c \in Cores : k2.current[c] \notin before
      <4>1. \A c \in Cores : c # BOOT => k2.current[c] \notin SUPERVISED
        <5>1. \A c \in Cores : c # BOOT => k2.current[c] \in Spawnable \union {IDLE}
          BY ZenonT(60), <3>1 DEF Sound, On
        <5> QED
          BY ZenonT(60), <5>1, SlotFacts
      <4>a. cur \in Nat => ~(cur < cur)
        OBVIOUS
      <4>2. cur \notin before
        BY ZenonT(60), <2>3, <4>a, SlotFacts
      <4> QED
        BY <2>1, <3>1, <4>1, <4>2
    <3>4. Sound(k3) /\ k3.current = k2.current /\ k3.doomed = k2.doomed
      BY ZenonT(60), <3>1, <3>3, RestartSound
    <3> HIDE DEF k3
    <3>5. k3.current[BOOT] = cur /\ k3.doomed[k3.current[BOOT]] = 0
      BY <3>1, <3>2, <3>4
    <3>6. CASE cur \in wedged
      <4> DEFINE k4 == kill_current_and_switch(k3, BOOT, {})
      <4>1. Sound(k4) /\ \A c \in Cores : k4.current[c] # cur
        BY <2>1, <3>4, <3>5, <3>6, SlotFacts, KillCurrentSound
      <4> HIDE DEF k4
      <4>2. Sound(restart(k4, {cur}))
        BY ZenonT(60), <3>6, <4>1, RestartSound
      <4>3. Leave(BOOT, restart(k4, {cur}))
        BY <2>4, <2>6, <3>6 DEF k4
      <4> QED
        BY ZenonT(60), <2>1, <2>b, <4>2, <4>3, LeaveSound
    <3>7. CASE cur \notin wedged
      <4>1. Sound(next_at_tick(k3, BOOT))
        BY <2>1, <3>4, <3>5, TickPickSound
      <4> QED
        BY ZenonT(60), <2>1, <2>4, <2>6, <2>b, <3>7, <4>1, LeaveSound
    <3> QED
      BY ZenonT(60), <3>6, <3>7
  <2> QED
    BY <2>5, <2>6
<1>11. ASSUME NEW c \in Cores, NEW woken, SecondaryTick(c, woken) PROVE Kept'
  <2> DEFINE k == end_if_doomed(Kernel, c, woken)
  <2>1. Sound(Kernel) /\ c \in UpCores /\ Leave(c, next_at_tick(k, c))
    BY ZenonT(60), <1>11, KernelSound DEF SecondaryTick, UpCores
  <2>2. Sound(k) /\ k.doomed[k.current[c]] = 0
    BY ZenonT(60), <2>1, EntrySound
  <2> HIDE DEF k
  <2>3. Sound(next_at_tick(k, c)) /\ Settled(next_at_tick(k, c), c)
    BY <2>1, <2>2, TickPickSound
  <2> QED
    BY <2>1, <2>3, LeaveSound
<1>12. ASSUME NEW c \in Cores, NEW woken, Kick(c, woken) PROVE Kept'
  <2> DEFINE k0 == end_if_doomed(Kernel, c, woken)
             k == [k0 EXCEPT !.kicks = [@ EXCEPT ![c] = {}]]
             n == switch_to(k, c, next_runnable(k, c, IDLE))
  <2>1. /\ Sound(Kernel) /\ c \in UpCores
        /\ Leave(c, IF k.current[c] = IDLE THEN n ELSE k)
    BY <1>12, KernelSound DEF Kick
  <2>2. Sound(k0) /\ k0.doomed[k0.current[c]] = 0
    BY <2>1, EntrySound
  <2> HIDE DEF k0
  <2>3. /\ k \in Tables /\ k.state = k0.state /\ k.gen = k0.gen
        /\ k.doomed = k0.doomed /\ k.current = k0.current
    BY ZenonT(60), <2>2 DEF Sound, Tables
  <2> HIDE DEF k
  <2>4. Sound(k)
    BY <2>2, <2>3 DEF Sound, On
  <2>5. Others(k, c)
    BY <2>2, <2>3, <2>4, Unmarked
  <2>6. Sound(n) /\ Settled(n, c)
    BY ZenonT(60), <2>1, <2>5, SlotFacts, PickSound
  <2>7. k.current[c] # IDLE => Settled(k, c)
    BY DEF Settled
  <2> HIDE DEF n
  <2> QED
    BY <2>1, <2>4, <2>6, <2>7, LeaveSound
<1>13. ASSUME NEW woken, NetIrq(woken) PROVE Kept'
  <2> DEFINE k0 == end_if_doomed(Kernel, BOOT, woken)
             k == Wake(k0, {NET_TASK})
  <2>1. BOOT \in Cores /\ BOOT \in UpCores /\ Sound(Kernel)
    BY CoreFacts, KernelSound DEF UpCores
  <2>2. Sound(k0) /\ k0.doomed[k0.current[BOOT]] = 0
    BY <2>1, EntrySound
  <2>3. Leave(BOOT, switch_to(k, BOOT, NET_TASK)) /\ state[NET_TASK] = "Blocked"
    BY <1>13 DEF NetIrq
  <2>4. k.state[NET_TASK] = "Runnable"
    <3>1. k0.state[NET_TASK] \in {"Blocked", "Runnable"}
      <4>1. \A c \in Cores : current[c] # NET_TASK
        BY <2>3 DEF SchedInv, CurrentIsRunnable
      <4>2. Kernel.state = state /\ Kernel.current = current
        BY DEF Kernel
      <4>3. Kernel \in Tables
        BY <2>1 DEF Sound
      <4> QED
        BY ZenonT(60), <2>1, <2>3, <4>1, <4>2, <4>3, SlotFacts
        DEF end_if_doomed, kill_current_and_switch, end_task, Wake, switch_to, Tables
    <3>2. k0 \in Tables
      BY <2>2 DEF Sound
    <3> HIDE DEF k0
    <3> QED
      BY ZenonT(60), <3>1, <3>2, SlotFacts DEF Wake, Tables
  <2> HIDE DEF k0
  <2>5. k0 \in Tables /\ On(k0, Cores)
    BY <2>2 DEF Sound
  <2>6. Sound(k) /\ k.current = k0.current /\ k.doomed = k0.doomed
    BY <2>5, WakeOn DEF Sound
  <2> HIDE DEF k
  <2>7. Others(k, BOOT)
    BY ZenonT(60), <2>1, <2>2, <2>6, Unmarked
  <2>8. may_run_on(k, BOOT, NET_TASK)
    BY <2>4, <2>7, SlotFacts DEF may_run_on, Others, On
  <2>9. Sound(switch_to(k, BOOT, NET_TASK))
    BY ZenonT(60), <2>1, <2>7, <2>8, SlotFacts, SwitchSound
  <2>10. Settled(switch_to(k, BOOT, NET_TASK), BOOT)
    BY DEF Settled
  <2> QED
    BY <2>1, <2>3, <2>9, <2>10, LeaveSound
<1>14. ASSUME NEW c \in Cores, halt_alone_here(c) PROVE Kept'
  <2>1. /\ up' = up \ {c} /\ current[c] = IDLE /\ c \in up
        /\ UNCHANGED <<state, gen, nextGen, restarts, current, round, doomed, kicks>>
    BY <1>14 DEF halt_alone_here
  <2>2. TypeOK'
    BY <2>1 DEF TypeOK
  <2>3. UpCores' = UpCores \ {c}
    BY ZenonT(60), <2>1, CoreFacts DEF UpCores, TypeOK
  <2>4. SchedInv'
    BY <2>1, <2>3, SlotFacts DEF SchedInv, OneCorePerTask, CurrentIsRunnable,
       PlacementHolds, DeadCoreRunsNothing, DoomedIsRunning, IdleNeverStops,
       OnlyProgramsAreDoomed
  <2>5. ASSUME WorkHasBeenKicked PROVE WorkHasBeenKicked'
    BY <2>1, <2>5 DEF WorkHasBeenKicked, IdleSecondaries
  <2> QED
    BY <2>2, <2>4, <2>5 DEF Kept
<1>15. CASE UNCHANGED vars
  <2>1. UNCHANGED <<state, gen, nextGen, restarts, current, round, doomed, kicks, up>>
    BY <1>15 DEF vars
  <2>2. TypeOK'
    BY <2>1 DEF TypeOK
  <2>3. SchedInv'
    BY ZenonT(60), <2>1 DEF SchedInv, OneCorePerTask, CurrentIsRunnable, PlacementHolds,
       DeadCoreRunsNothing, DoomedIsRunning, IdleNeverStops, OnlyProgramsAreDoomed, UpCores
  <2>4. ASSUME WorkHasBeenKicked PROVE WorkHasBeenKicked'
    BY ZenonT(60), <2>1, <2>4 DEF WorkHasBeenKicked, IdleSecondaries, WaitingPrograms
  <2> QED
    BY <2>2, <2>3, <2>4 DEF Kept
<1> QED
  BY ZenonT(60), <1>1, <1>2, <1>3, <1>4, <1>5, <1>6, <1>7, <1>8, <1>9, <1>10, <1>11, <1>12, <1>13,
     <1>14, <1>15 DEF Next, AnyTick, AnySecondaryTick

\* SchedSafety and KicksAreSent in one inductive invariant.
LEMMA KeptAlways == Spec => []Kept
BY SchedInit, SchedStep, PTL DEF Spec

\* The scheduler's tables keep their types, and its invariant holds, for any
\* number of slots, cores and programs, with cores dying and kills in flight.
THEOREM SchedSafety == Spec => [](TypeOK /\ SchedInv)
<1>1. Kept => TypeOK /\ SchedInv
  BY DEF Kept
<1> QED
  BY <1>1, KeptAlways, PTL

\* No task is ever on two cores (running_core, may_run_on).
THEOREM TaskOnOneCore == Spec => []OneCorePerTask
<1>1. TypeOK /\ SchedInv => OneCorePerTask
  BY DEF SchedInv
<1> QED
  BY <1>1, SchedSafety, PTL

\* No core ever resumes a blocked or torn-down task (kill_task, end_if_doomed).
THEOREM ResumedTaskMayRun == Spec => []CurrentIsRunnable
<1>1. TypeOK /\ SchedInv => CurrentIsRunnable
  BY DEF SchedInv
<1> QED
  BY <1>1, SchedSafety, PTL

\* Servers stay on the boot core, programs off it while a secondary is up.
THEOREM Placement == Spec => []PlacementHolds
<1>1. TypeOK /\ SchedInv => PlacementHolds
  BY DEF SchedInv
<1> QED
  BY <1>1, SchedSafety, PTL

\* A kill handed to another core names the task that core is running.
THEOREM KillsReachTheirTask == Spec => []DoomedIsRunning
<1>1. TypeOK /\ SchedInv => DoomedIsRunning
  BY DEF SchedInv
<1> QED
  BY <1>1, SchedSafety, PTL

\* Where the GIC can reach every secondary, no secondary is left asleep beside
\* a program that waits for a core, unless as many others have been woken as
\* programs wait: kick_idle_cores at the end of every kernel entry, for any
\* number of cores and programs, with cores dying in between.
THEOREM KicksAreSent ==
  ASSUME Started \subseteq Kickable
  PROVE  Spec => []WorkHasBeenKicked
<1>1. Kept => WorkHasBeenKicked
  BY DEF Kept
<1> QED
  BY <1>1, KeptAlways, PTL
============================================================================
