--------------------------- MODULE KeyboardOwner ---------------------------
(***************************************************************************)
(* Who owns the keyboard, to whom it returns, and what an interrupt key    *)
(* does (kernel/src/tasks.rs: INPUT_OWNER, PREVIOUS_OWNERS, PENDING_KILL;  *)
(* kernel/src/syscall.rs: the reads and the read-ahead).                   *)
(*                                                                         *)
(* A system call is one step.  The tick runs through its loop one slot at  *)
(* a time with nothing in between (`at`), as on_tick does under the kernel *)
(* lock, because the owner may change half-way through the loop.  A byte   *)
(* is an ordinary key, Ctrl+C or Ctrl+\; keys of several bytes, and the    *)
(* trim at a change of owner, are KeyQueue's.  What a message wait waits   *)
(* for is TaskIpc's.                                                       *)
(***************************************************************************)
EXTENDS Naturals, Sequences, FiniteSets

CONSTANTS
  NUM_TASKS, FIRST_SPAWNABLE,
  QUEUE_LEN,        \* bytes the keyboard queue holds
  Typed,            \* the bytes that are typed
  Modes,            \* the keyboard modes programs ask for (TRUE is raw)
  Commands,         \* how FG hands the keyboard over (TRUE: a command)
  Receivers,        \* the tasks that wait for messages
  LineMax,          \* bound: bytes waiting on the devices
  MaxGeneration     \* bound: generations issued in one behaviour

ASSUME SlotsAssumption ==
  /\ NUM_TASKS \in Nat /\ FIRST_SPAWNABLE \in Nat
  /\ 0 < FIRST_SPAWNABLE /\ FIRST_SPAWNABLE < NUM_TASKS
ASSUME BoundsAssumption ==
  /\ QUEUE_LEN \in Nat \ {0} /\ LineMax \in Nat /\ MaxGeneration \in Nat
  /\ Typed \subseteq {"key", "int", "quit"} /\ Modes \subseteq BOOLEAN
  /\ Commands \subseteq BOOLEAN

Slots == 0 .. NUM_TASKS - 1
Spawnable == FIRST_SPAWNABLE .. NUM_TASKS - 1
FIRST == 0
KEY_INTERRUPT == "int"
KEY_QUIT == "quit"
Bytes == {"key", KEY_INTERRUPT, KEY_QUIT}

\* A packed identity: generation and slot.  Generations start at 1, so
\* NoTask names nobody.
Identities == Slots \X Nat
NoTask == <<0, 0>>

LiveStates == {"Runnable", "Read", "Wait", "Message"}

VARIABLES
  state,     \* STATES, with the wait reason
  on,        \* the target of WaitReason::TaskExit; 0 in any other state
  gen,       \* GENERATIONS
  nextGen,   \* NEXT_GENERATION
  owner,     \* INPUT_OWNER
  prev,      \* PREVIOUS_OWNERS
  cmd,       \* FOREGROUND_COMMAND
  raw,       \* KBD_RAW
  pending,   \* PENDING_KILL
  doomed,    \* DOOMED
  line,      \* the bytes waiting on the devices
  queue,     \* how many bytes KBD_QUEUE holds
  at         \* where the tick's loop is; NotTicking between ticks

vars == <<state, on, gen, nextGen, owner, prev, cmd, raw, pending, doomed,
          line, queue, at>>

NotTicking == NUM_TASKS + 1

TypeOK ==
  /\ state \in [Slots -> LiveStates \cup {"Unused", "Zombie"}]
  /\ on \in [Slots -> Slots]
  /\ gen \in [Slots -> Nat]
  /\ nextGen \in Nat
  /\ owner \in Slots
  /\ prev \in [Slots -> Identities]
  /\ cmd \in [Slots -> BOOLEAN]
  /\ raw \in [Slots -> BOOLEAN]
  /\ pending \in Identities
  /\ doomed \in [Slots -> Identities]
  /\ line \in Seq(Bytes)
  /\ queue \in 0 .. QUEUE_LEN
  /\ at \in 0 .. NotTicking

\* At boot the shell owns the keyboard; idle and the servers are there too
\* and never read it.
Init ==
  /\ state = [s \in Slots |-> IF s \in Spawnable THEN "Unused" ELSE "Runnable"]
  /\ on = [s \in Slots |-> 0]
  /\ gen = [s \in Slots |-> IF s \in Spawnable THEN 0 ELSE 1]
  /\ nextGen = 2
  /\ owner = FIRST
  /\ prev = [s \in Slots |-> NoTask]
  /\ cmd = [s \in Slots |-> FALSE]
  /\ raw = [s \in Slots |-> FALSE]
  /\ pending = NoTask
  /\ doomed = [s \in Slots |-> NoTask]
  /\ line = << >>
  /\ queue = 0
  /\ at = NotTicking

----------------------------------------------------------------------------
(***************************************************************************)
(* The handlers, as operators on a record of the tables they change.       *)
(***************************************************************************)
Kernel == [state |-> state, on |-> on, gen |-> gen, owner |-> owner,
           prev |-> prev, cmd |-> cmd, raw |-> raw, pending |-> pending,
           doomed |-> doomed, line |-> line, queue |-> queue]

Become(k) ==
  /\ state' = k.state /\ on' = k.on /\ gen' = k.gen /\ owner' = k.owner
  /\ prev' = k.prev /\ cmd' = k.cmd /\ raw' = k.raw /\ pending' = k.pending
  /\ doomed' = k.doomed /\ line' = k.line /\ queue' = k.queue

is_occupied(k, s) == k.state[s] \in LiveStates

\* The slot a packed identity still names alive, as a set of at most one.
live_occupant(k, id) ==
  {s \in Slots : is_occupied(k, s) /\ id = <<s, k.gen[s]>>}

kill_pending_for(k, s) ==
  k.state[s] # "Unused" /\ <<s, k.gen[s]>> \in {k.pending, k.doomed[s]}

Below(k, s) == live_occupant(k, k.prev[s])

\* The links walked from s down: the least set with s and every link below.
Closed(k, S) == \A s \in S : Below(k, s) \subseteq S
Chain(k, s) ==
  {t \in Slots : \A S \in SUBSET Slots : (s \in S /\ Closed(k, S)) => t \in S}

\* A pop clears the links above the new owner; a push records the old one.
set_input_owner(k, t, command) ==
  LET flagged == [k EXCEPT !.cmd[t] = command, !.owner = t] IN
  IF k.owner = t THEN flagged
  ELSE IF t \in Chain(k, k.owner)
  THEN [flagged EXCEPT !.prev = [s \in Slots |->
          IF s \in Chain(k, k.owner) \ Chain(k, t) THEN NoTask ELSE k.prev[s]]]
  ELSE IF t # FIRST
  THEN [flagged EXCEPT !.prev[t] = <<k.owner, k.gen[k.owner]>>]
  ELSE flagged

\* Where the keyboard goes when s gives it up.
ReturnTo(k, s) ==
  IF Below(k, s) = {} THEN FIRST ELSE CHOOSE t \in Slots : t \in Below(k, s)

revert_input_owner_if(k, dying) ==
  [k EXCEPT !.prev = [s \in Slots |->
                        IF s = dying THEN NoTask
                        ELSE IF k.prev[s] = <<dying, k.gen[dying]>> THEN k.prev[dying]
                        ELSE k.prev[s]],
            !.owner = IF k.owner = dying THEN ReturnTo(k, dying) ELSE k.owner]

end_task_keeping_keyboard(k, s, final) ==
  [k EXCEPT !.doomed[s] = NoTask, !.state[s] = final, !.raw[s] = FALSE,
            !.prev[s] = NoTask]
end_task(k, s, final) ==
  LET reverted == revert_input_owner_if(k, s) IN
  [reverted EXCEPT !.doomed[s] = NoTask, !.state[s] = final, !.on[s] = 0,
                     !.raw[s] = FALSE]

task_waited_on(k, t) == \E s \in Slots : k.state[s] = "Wait" /\ k.on[s] = t

KeyVerdict_raw_quit(k, byte) ==
  IF k.owner = FIRST
  THEN IF byte = "key" THEN "Byte" ELSE "BootInterrupt"
  ELSE IF byte # "key" /\ ~k.raw[k.owner] THEN "Consumed" ELSE "Byte"
KeyVerdict(k, byte) ==
  IF k.owner = FIRST
  THEN IF byte = "key" THEN "Byte" ELSE "BootInterrupt"
  ELSE IF byte = KEY_QUIT \/ (byte = KEY_INTERRUPT /\ ~k.raw[k.owner])
  THEN "Consumed"
  ELSE "Byte"

\* An interrupt the kernel acts on: a command is marked, a session detached.
interrupt_key_check(k) ==
  IF k.cmd[k.owner] \/ task_waited_on(k, k.owner)
  THEN [k EXCEPT !.pending = <<k.owner, k.gen[k.owner]>>]
  ELSE [k EXCEPT !.owner = ReturnTo(k, k.owner)]

Flushed(k) == [k EXCEPT !.queue = 0]

\* keyboard_key_waiting and poll_keyboard_byte's pop: [got, k].
Reads_though_marked(k, reader) == reader = k.owner
Reads(k, reader) == reader = k.owner /\ ~kill_pending_for(k, reader)
poll_keyboard_byte(k, reader) ==
  IF ~Reads(k, reader) THEN [got |-> FALSE, k |-> k]
  ELSE IF k.queue > 0 THEN [got |-> TRUE, k |-> [k EXCEPT !.queue = @ - 1]]
  ELSE IF k.line = << >> THEN [got |-> FALSE, k |-> k]
  ELSE IF KeyVerdict(k, Head(k.line)) = "Consumed"
  THEN [got |-> FALSE,
        k |-> Flushed(interrupt_key_check([k EXCEPT !.line = Tail(@)]))]
  ELSE [got |-> TRUE, k |-> [k EXCEPT !.line = Tail(@)]]

\* The bytes up to the first interrupt are queued; the interrupt flushes them
\* and stops the read.  "interrupted" is the boot shell's own interrupt.
Interrupts(k) == {i \in 1 .. Len(k.line) : KeyVerdict(k, k.line[i]) # "Byte"}
FirstOf(I) == CHOOSE i \in I : \A j \in I : i <= j
read_keyboard_ahead(k, reader) ==
  IF ~Reads(k, reader) THEN [interrupted |-> FALSE, k |-> k]
  ELSE IF Interrupts(k) = {}
  THEN LET room == QUEUE_LEN - k.queue IN
       [interrupted |-> FALSE,
        k |-> [k EXCEPT !.line = << >>,
                        !.queue = @ + IF Len(k.line) < room THEN Len(k.line) ELSE room]]
  ELSE LET i == FirstOf(Interrupts(k))
           rest == [k EXCEPT !.line = SubSeq(@, i + 1, Len(@))] IN
       [interrupted |-> k.owner = FIRST,
        k |-> Flushed(IF k.owner = FIRST THEN rest ELSE interrupt_key_check(rest))]

----------------------------------------------------------------------------
(***************************************************************************)
(* System calls.                                                           *)
(***************************************************************************)
\* A doomed task's entry ends it (end_if_doomed), whatever it came for.
Caller(s) ==
  /\ at = NotTicking
  /\ s \in Spawnable \cup {FIRST}
  /\ state[s] = "Runnable" /\ doomed[s] # <<s, gen[s]>>

FG(s, t, command) ==
  /\ Caller(s)
  /\ t = FIRST \/ t \in Spawnable
  /\ is_occupied(Kernel, t)
  /\ s = owner
  /\ Become(set_input_owner(Kernel, t, command))
  /\ UNCHANGED <<nextGen, at>>

\* READ_CHAR: a key at once, or block.  (A KEY_WAIT is the same wait.)
READ_CHAR(s) ==
  /\ Caller(s)
  /\ LET r == poll_keyboard_byte(Kernel, s) IN
     Become(IF r.got THEN r.k ELSE [r.k EXCEPT !.state[s] = "Read"])
  /\ UNCHANGED <<nextGen, at>>

TRY_READ_CHAR(s) ==
  /\ Caller(s)
  /\ Become(poll_keyboard_byte(Kernel, s).k)
  /\ UNCHANGED <<nextGen, at>>

\* KBD_MODE: the flush (if asked) under the old mode, then the change.
KBD_MODE(s, mode, flush) ==
  /\ Caller(s)
  /\ LET k == IF flush /\ Reads(Kernel, s)
              THEN Flushed(read_keyboard_ahead(Kernel, s).k)
              ELSE Kernel IN
     Become([k EXCEPT !.raw[s] = mode])
  /\ UNCHANGED <<nextGen, at>>

WAIT(s, t) ==
  /\ Caller(s) /\ t \in Spawnable /\ t # s
  /\ \/ /\ state[t] = "Zombie"
        /\ Become([Kernel EXCEPT !.state[t] = "Unused"])
     \/ /\ is_occupied(Kernel, t)
        /\ Become([Kernel EXCEPT !.state[s] = "Wait", !.on[s] = t])
  /\ UNCHANGED <<nextGen, at>>

\* A receive or a call: blocked until a message or a reply.
Receive(s) ==
  /\ Caller(s) /\ s \in Receivers
  /\ Become([Kernel EXCEPT !.state[s] = "Message"])
  /\ UNCHANGED <<nextGen, at>>

Deliver(s) ==
  /\ at = NotTicking /\ state[s] = "Message"
  /\ Become([Kernel EXCEPT !.state[s] = "Runnable"])
  /\ UNCHANGED <<nextGen, at>>

\* A spawned task is in the first unused slot, with no previous owner.
Spawn(t) ==
  /\ at = NotTicking /\ t \in Spawnable /\ state[t] = "Unused"
  /\ \A u \in Spawnable : u < t => state[u] # "Unused"
  /\ nextGen <= MaxGeneration
  /\ Become([Kernel EXCEPT !.state[t] = "Runnable", !.gen[t] = nextGen,
                           !.prev[t] = NoTask])
  /\ nextGen' = nextGen + 1
  /\ UNCHANGED at

EXIT(s) ==
  /\ Caller(s) /\ s \in Spawnable
  /\ Become(end_task(Kernel, s, "Zombie"))
  /\ UNCHANGED <<nextGen, at>>

\* A fault ends the task at once; so does the entry of a doomed task.
Fault(s) ==
  /\ Caller(s) /\ s \in Spawnable
  /\ Become(end_task(Kernel, s, "Unused"))
  /\ UNCHANGED <<nextGen, at>>

\* A victim running on another core (Scheduler) is marked for that core.
kill_task(k, t, elsewhere) ==
  IF elsewhere THEN [k EXCEPT !.doomed[t] = <<t, k.gen[t]>>]
  ELSE end_task(k, t, "Unused")

KILL(s, t, elsewhere) ==
  /\ Caller(s) /\ t \in Spawnable /\ is_occupied(Kernel, t) /\ t # s
  /\ elsewhere => state[t] = "Runnable"
  /\ Become(kill_task(Kernel, t, elsewhere))
  /\ UNCHANGED <<nextGen, at>>

end_if_doomed(s) ==
  /\ at = NotTicking /\ state[s] = "Runnable" /\ doomed[s] = <<s, gen[s]>>
  /\ Become(end_task(Kernel, s, "Unused"))
  /\ UNCHANGED <<nextGen, at>>

Type(byte) ==
  /\ at = NotTicking /\ Len(line) < LineMax
  /\ line' = Append(line, byte)
  /\ UNCHANGED <<state, on, gen, nextGen, owner, prev, cmd, raw, pending,
                 doomed, queue, at>>

----------------------------------------------------------------------------
(***************************************************************************)
(* The tick: the wake-checks in slot order, the read-ahead for the owner,  *)
(* the kill an interrupt asked for.                                        *)
(***************************************************************************)
\* WaitReason::poll of one blocked task.
poll_uninterruptible(k, s) ==
  IF k.state[s] = "Read" /\ poll_keyboard_byte(k, s).got
  THEN [poll_keyboard_byte(k, s).k EXCEPT !.state[s] = "Runnable"]
  ELSE IF k.state[s] = "Wait" /\ ~is_occupied(k, k.on[s])
  THEN [k EXCEPT !.state[k.on[s]] = "Unused", !.state[s] = "Runnable", !.on[s] = 0]
  ELSE k
poll(k, s) ==
  IF k.state[s] = "Read"
  THEN LET r == poll_keyboard_byte(k, s) IN
       IF r.got THEN [r.k EXCEPT !.state[s] = "Runnable"] ELSE r.k
  ELSE IF k.state[s] = "Wait" /\ k.state[k.on[s]] = "Zombie"
  THEN [k EXCEPT !.state[k.on[s]] = "Unused", !.state[s] = "Runnable", !.on[s] = 0]
  ELSE IF k.state[s] = "Wait" /\ k.state[k.on[s]] = "Unused"
  THEN [k EXCEPT !.state[s] = "Runnable", !.on[s] = 0]
  ELSE IF k.state[s] \in {"Wait", "Message"}
  THEN LET r == read_keyboard_ahead(k, s) IN
       IF r.interrupted THEN [r.k EXCEPT !.state[s] = "Runnable", !.on[s] = 0] ELSE r.k
  ELSE k

\* The loop passes over a slot that is not blocked.
NextBlocked(k, i) ==
  LET B == {s \in Slots : i <= s /\ k.state[s] \in {"Read", "Wait", "Message"}} IN
  IF B = {} THEN NUM_TASKS ELSE CHOOSE s \in B : \A t \in B : s <= t
Position == IF at = NotTicking THEN NextBlocked(Kernel, 0) ELSE at

WakeCheck ==
  \E s \in Slots :
    /\ Position = s
    /\ \E k \in {poll(Kernel, s)} : Become(k) /\ at' = NextBlocked(k, s + 1)
    /\ UNCHANGED nextGen

\* The victim, if it is still the marked occupant, is killed here or marked
\* for the core it runs on.
Victims(k) == live_occupant(k, k.pending) \cap Spawnable
TickEnds ==
  /\ Position = NUM_TASKS
  /\ \E k \in {IF owner = FIRST THEN Kernel ELSE read_keyboard_ahead(Kernel, owner).k} :
       \/ Victims(k) = {} /\ Become([k EXCEPT !.pending = NoTask])
       \/ \E v \in Victims(k), elsewhere \in BOOLEAN :
            /\ elsewhere => k.state[v] = "Runnable"
            /\ Become(kill_task([k EXCEPT !.pending = NoTask], v, elsewhere))
  /\ at' = NotTicking
  /\ UNCHANGED nextGen

Tick == WakeCheck \/ TickEnds

Next ==
  \/ \E s, t \in Slots, command \in Commands : FG(s, t, command)
  \/ \E s \in Slots : READ_CHAR(s) \/ TRY_READ_CHAR(s) \/ Receive(s) \/ Deliver(s)
  \/ \E s \in Slots, mode \in Modes, flush \in BOOLEAN : KBD_MODE(s, mode, flush)
  \/ \E s, t \in Slots : WAIT(s, t)
  \/ \E t \in Slots : Spawn(t) \/ EXIT(t) \/ Fault(t) \/ end_if_doomed(t)
  \/ \E s, t \in Slots, elsewhere \in BOOLEAN : KILL(s, t, elsewhere)
  \/ \E byte \in Typed : Type(byte)
  \/ Tick

Spec == Init /\ [][Next]_vars

\* The tick comes on the boot core whatever tasks do.  A doomed task's own core
\* ticks too; its entry waits for the lock while the boot core's tick holds it,
\* so it is enabled again and again rather than always: strong fairness.
FairSpec == Spec /\ WF_vars(Tick) /\ \A t \in Slots : SF_vars(end_if_doomed(t))

----------------------------------------------------------------------------
(***************************************************************************)
(* Properties.                                                             *)
(***************************************************************************)
\* The keyboard is never routed at an empty slot, a zombie, idle or a server:
\* whatever dies, revert_input_owner_if has moved it to a task that is alive.
OwnerIsLive ==
  owner \in Spawnable \cup {FIRST} /\ is_occupied(Kernel, owner)

\* "the table can never hold a cycle" (PREVIOUS_OWNERS): in every set of slots
\* some slot's link leaves the set, through any number of fg, detaches and
\* deaths, those of links in the middle included.
NoCycle ==
  \A S \in (SUBSET Slots) \ {{}} : \E s \in S : Below(Kernel, s) \cap S = {}

\* Following the links from the owner always ends at the boot shell: however
\* sessions are nested, detached and killed, the way back is never lost.
ChainRooted == FIRST \in Chain(Kernel, owner)

\* No link names a task that is gone: each death re-points the links that
\* named it (the splice), so the revert never falls past a live shell.
LinksAreLive ==
  \A s \in Slots : prev[s] # NoTask => Below(Kernel, s) # {}

KeyboardInv == OwnerIsLive /\ NoCycle /\ ChainRooted /\ LinksAreLive

\* A task an interrupt has marked for the kill, or that another core is about
\* to end, reads no more keys: a read it is blocked in never returns to it
\* (kill_pending_for in keyboard_key_waiting).
MarkedReadsNothing ==
  [][\A s \in Slots : (state[s] = "Read" /\ kill_pending_for(Kernel, s))
                        => state'[s] # "Runnable"]_vars

\* Ctrl+\ is "the way out no program can opt out of": once typed, the program
\* that owns the keyboard loses it, raw or cooked, running or blocked.
QuitTakesTheKeyboard ==
  \A s \in Spawnable :
    (owner = s /\ \E i \in 1 .. Len(line) : line[i] = KEY_QUIT) ~> (owner # s)

\* A wait of the boot shell stays interruptible: Ctrl+C or Ctrl+\ typed while
\* it owns the keyboard and waits for a child or a message ends the wait.
BootWaitIsInterruptible ==
  (/\ owner = FIRST /\ state[FIRST] \in {"Wait", "Message"}
   /\ \E i \in 1 .. Len(line) : line[i] # "key")
    ~> (owner # FIRST \/ state[FIRST] = "Runnable")
============================================================================
