------------------------------ MODULE TaskIpc ------------------------------
(***************************************************************************)
(* Task slots, mailboxes and synchronous calls: kernel/src/tasks.rs and    *)
(* the MSG_*, WAIT, EXIT, KILL and SPAWN arms of kernel/src/syscall.rs.    *)
(*                                                                         *)
(* Every kernel entry runs whole under the one kernel lock (lock.rs), so   *)
(* one entry is one step.  Which runnable task a core is executing is the  *)
(* scheduler's business (module Scheduler): here any runnable task may be  *)
(* the one that makes the next system call.                                *)
(***************************************************************************)
EXTENDS Naturals, Sequences, FiniteSets

CONSTANTS
  NUM_TASKS,        \* how many slots the task table has
  FIRST_SPAWNABLE,  \* slots below it are the boot shell, idle and the servers
  SUPERVISED,       \* the server slots supervisor.rs restarts
  NET_TASK,         \* the one slot holding CAP_NET
  SEND_RIGHTS,      \* send rights in force, static and delegated
  MSG_QUEUE_DEPTH,  \* mailbox capacity
  MaxCall,          \* bound: call numbers issued
  MaxGeneration     \* bound: generations issued

Slots == 0 .. NUM_TASKS - 1
BOOT_SHELL == 0
IDLE == 1
Spawnable == FIRST_SPAWNABLE .. NUM_TASKS - 1

ASSUME SlotsAssumption ==
  /\ NUM_TASKS \in Nat /\ FIRST_SPAWNABLE \in Nat
  /\ 1 < FIRST_SPAWNABLE /\ FIRST_SPAWNABLE < NUM_TASKS
  /\ SUPERVISED \subseteq 2 .. FIRST_SPAWNABLE - 1
  /\ NET_TASK \in Nat
ASSUME RightsAssumption == SEND_RIGHTS \in [Slots -> SUBSET Slots]
ASSUME BoundsAssumption ==
  MSG_QUEUE_DEPTH \in Nat /\ MaxCall \in Nat /\ MaxGeneration \in Nat

\* Not a slot: the `from` of a wait that has none, and KERNEL_SENDER.
NoTask == NUM_TASKS

VARIABLES
  state,        \* STATES, Blocked(reason) flattened to the reason; a task in a
                \* keyboard or timed wait is to others one not being scheduled
  on,           \* the slot a Call or TaskExit wait names
  gen,          \* GENERATIONS
  nextGen,      \* NEXT_GENERATION
  mailbox,      \* MAILBOXES, oldest first
  currentCall,  \* CURRENT_CALLS
  nextCall,     \* NEXT_CALL
  held,         \* handles the program in a slot learnt from SENDER_CALL
  answer,       \* the call the reply in a task's reply buffer was made for
  want,         \* history: the call a task made last
  waitGen       \* history: the occupant a WAIT was aimed at

vars == <<state, on, gen, nextGen, mailbox, currentCall, nextCall, held,
          answer, want, waitGen>>

Waits == {"Recv", "Call", "TaskExit", "NetInput"}
Live == {"Runnable"} \union Waits
TaskState == {"Unused", "Zombie"} \union Live

Message == [call : Nat, to : Nat]

TypeOK ==
  /\ state \in [Slots -> TaskState]
  /\ on \in [Slots -> 0 .. NUM_TASKS]
  /\ gen \in [Slots -> Nat]
  /\ nextGen \in Nat
  /\ mailbox \in [Slots -> Seq(Message)]
  /\ \A t \in Slots : Len(mailbox[t]) <= MSG_QUEUE_DEPTH
  /\ currentCall \in [Slots -> Nat]
  /\ nextCall \in Nat
  /\ held \in [Slots -> SUBSET Nat]
  /\ answer \in [Slots -> Nat]
  /\ want \in [Slots -> Nat]
  /\ waitGen \in [Slots -> Nat]

----------------------------------------------------------------------------
\* tasks::is_occupied / live_index.
Occupied(t) == state[t] \in Live

\* A task that can be making a system call; idle never makes one.
Running(s) == s # IDLE /\ state[s] = "Runnable"

may_send(s, d) == d \in SEND_RIGHTS[s]

\* tasks::init: the boot shell, idle and the servers, one generation each.
Init ==
  /\ state = [t \in Slots |-> IF t < FIRST_SPAWNABLE THEN "Runnable" ELSE "Unused"]
  /\ on = [t \in Slots |-> NoTask]
  /\ gen = [t \in Slots |-> IF t < FIRST_SPAWNABLE THEN t + 1 ELSE 0]
  /\ nextGen = FIRST_SPAWNABLE + 1
  /\ mailbox = [t \in Slots |-> <<>>]
  /\ currentCall = [t \in Slots |-> 0]
  /\ nextCall = 1
  /\ held = [t \in Slots |-> {}]
  /\ answer = [t \in Slots |-> 0]
  /\ want = [t \in Slots |-> 0]
  /\ waitGen = [t \in Slots |-> 0]

\* What a program learns when a message reaches it: the call handle, if any.
Learn(d, call) == held' = [held EXCEPT ![d] = @ \union ({call} \ {0})]

----------------------------------------------------------------------------

Full(d) == Len(mailbox[d]) >= MSG_QUEUE_DEPTH

\* send_message, its two outcomes that deliver.  `st` is the state table the
\* send is applied to, with the sender's own change already made.
SendDirect(d, call, st) ==
  /\ state[d] = "Recv"
  /\ state' = [st EXCEPT ![d] = "Runnable"]
  /\ Learn(d, call)
  /\ UNCHANGED mailbox

SendQueued(d, call, st) ==
  /\ state[d] # "Recv"
  /\ ~Full(d)
  /\ mailbox' = [mailbox EXCEPT ![d] =
                   Append(@, [call |-> call, to |-> gen[d]])]
  /\ state' = [st EXCEPT ![d] = IF state[d] = "NetInput" THEN "Runnable" ELSE st[d]]
  /\ UNCHANGED held

send_message(d, call, st) == SendDirect(d, call, st) \/ SendQueued(d, call, st)

\* MSG_SEND.  A full mailbox, a dead target or a missing right only returns
\* a code to the caller.
MsgSend(s, d) ==
  /\ Running(s)
  /\ Occupied(d)
  /\ may_send(s, d)
  /\ send_message(d, 0, state)
  /\ UNCHANGED <<on, gen, nextGen, currentCall, nextCall, answer, want, waitGen>>

\* A supervisor ping: on_tick queues one from KERNEL_SENDER to a blocked server.
Ping(d) ==
  /\ d \in SUPERVISED
  /\ state[d] \in Waits
  /\ send_message(d, 0, state)
  /\ UNCHANGED <<on, gen, nextGen, currentCall, nextCall, answer, want, waitGen>>

\* A mutant: a call that is over keeps its number.
end_call_kept(s) == currentCall

\* end_call, and the same store in deliver_reply and in an interrupted wait.
end_call(s) == [currentCall EXCEPT ![s] = 0]

\* MSG_CALL: begin_call, send, and block until the reply naming this call.
MsgCall(s, d) ==
  /\ Running(s)
  /\ Occupied(d)
  /\ s # d
  /\ may_send(s, d)
  /\ nextCall <= MaxCall
  /\ nextCall' = nextCall + 1
  /\ send_message(d, nextCall, [state EXCEPT ![s] = "Call"])
  /\ on' = [on EXCEPT ![s] = d]
  /\ currentCall' = [currentCall EXCEPT ![s] = nextCall]
  /\ want' = [want EXCEPT ![s] = nextCall]
  /\ answer' = [answer EXCEPT ![s] = 0]
  /\ UNCHANGED <<gen, nextGen, waitGen>>

\* MSG_CALL to a full mailbox: the number is spent, end_call forgets it.
MsgCallFull(s, d) ==
  /\ Running(s)
  /\ Occupied(d)
  /\ s # d
  /\ may_send(s, d)
  /\ state[d] # "Recv"
  /\ Full(d)
  /\ nextCall <= MaxCall
  /\ nextCall' = nextCall + 1
  /\ currentCall' = end_call(s)
  /\ UNCHANGED <<state, on, gen, nextGen, mailbox, held, answer, want, waitGen>>

\* try_recv_message: the oldest queued message.
try_recv_message(s) ==
  /\ mailbox[s] # <<>>
  /\ mailbox' = [mailbox EXCEPT ![s] = Tail(@)]
  /\ Learn(s, Head(mailbox[s]).call)

\* MSG_TRY_RECV, and MSG_RECV with a message queued.
MsgRecvQueued(s) ==
  /\ Running(s)
  /\ try_recv_message(s)
  /\ UNCHANGED <<state, on, gen, nextGen, currentCall, nextCall, answer, want, waitGen>>

\* A mutant: MSG_RECV blocks without looking at its mailbox first.
MsgRecvBlockUnseen(s) ==
  /\ Running(s)
  /\ state' = [state EXCEPT ![s] = "Recv"]
  /\ UNCHANGED <<on, gen, nextGen, mailbox, currentCall, nextCall, held, answer, want, waitGen>>

\* MSG_RECV with nothing queued.
MsgRecvBlock(s) ==
  /\ Running(s)
  /\ mailbox[s] = <<>>
  /\ state' = [state EXCEPT ![s] = "Recv"]
  /\ UNCHANGED <<on, gen, nextGen, mailbox, currentCall, nextCall, held, answer, want, waitGen>>

\* A mutant, and the rule before 2026-10-09: "the caller is blocked calling me".
reply_target_by_slot(server, n, t) == state[t] = "Call" /\ on[t] = server

\* reply_target: the task blocked in call n, if `server` is whom it waits for.
reply_target(server, n, t) ==
  /\ currentCall[t] = n
  /\ state[t] = "Call"
  /\ on[t] = server

\* MSG_REPLY through a handle the server learnt, at any time and any number of
\* times; one whose call is over is REPLY_STALE and changes nothing.
MsgReply(server, n) ==
  /\ Running(server)
  /\ n \in held[server]
  /\ \E t \in Slots :
       /\ reply_target(server, n, t)
       /\ answer' = [answer EXCEPT ![t] = n]
       /\ currentCall' = end_call(t)
       /\ state' = [state EXCEPT ![t] = "Runnable"]
       /\ on' = [on EXCEPT ![t] = NoTask]
  /\ UNCHANGED <<gen, nextGen, mailbox, nextCall, held, want, waitGen>>

----------------------------------------------------------------------------
\* NET_WAIT: netd parks until a frame, a message or its deadline.
NetWait(s) ==
  /\ s = NET_TASK
  /\ Running(s)
  /\ state' = [state EXCEPT ![s] = "NetInput"]
  /\ UNCHANGED <<on, gen, nextGen, mailbox, currentCall, nextCall, held, answer, want, waitGen>>

\* The tick's wake-check of that wait, or the NIC's interrupt (on_net_irq): a
\* frame or the deadline, at any moment, or a queued message.
NetWake(s) ==
  /\ state[s] = "NetInput"
  /\ state' = [state EXCEPT ![s] = "Runnable"]
  /\ UNCHANGED <<on, gen, nextGen, mailbox, currentCall, nextCall, held, answer, want, waitGen>>

\* WAIT on a task already dead: try_reap collects its status at once.
WaitReap(s, t) ==
  /\ Running(s)
  /\ t \in Spawnable \ {s}
  /\ state[t] = "Zombie"
  /\ state' = [state EXCEPT ![t] = "Unused"]
  /\ UNCHANGED <<on, gen, nextGen, mailbox, currentCall, nextCall, held, answer, want, waitGen>>

\* WAIT on a live task: block until it dies.
WaitBlock(s, t) ==
  /\ Running(s)
  /\ t \in Spawnable \ {s}
  /\ Occupied(t)
  /\ state' = [state EXCEPT ![s] = "TaskExit"]
  /\ on' = [on EXCEPT ![s] = t]
  /\ waitGen' = [waitGen EXCEPT ![s] = gen[t]]
  /\ UNCHANGED <<gen, nextGen, mailbox, currentCall, nextCall, held, answer, want>>

\* The wake-check of a WAIT: the slot it names holds a zombie (reaped here)
\* or nothing (it was killed).
WakeWaiter(s) ==
  /\ state[s] = "TaskExit"
  /\ state[on[s]] \in {"Zombie", "Unused"}
  /\ state' = [state EXCEPT ![s] = "Runnable", ![on[s]] = "Unused"]
  /\ on' = [on EXCEPT ![s] = NoTask]
  /\ waitGen' = [waitGen EXCEPT ![s] = 0]
  /\ UNCHANGED <<gen, nextGen, mailbox, currentCall, nextCall, held, answer, want>>

\* The wake-check of the boot shell's wait, with Ctrl+C typed: the wait ends,
\* and a call cut short is over.  Any other keyboard owner is terminated or
\* detached instead (module KeyboardOwner).
Interrupt(s) ==
  /\ s = BOOT_SHELL
  /\ state[s] \in {"Recv", "Call", "TaskExit"}
  /\ state[s] = "TaskExit" => Occupied(on[s])
  /\ state' = [state EXCEPT ![s] = "Runnable"]
  /\ on' = [on EXCEPT ![s] = NoTask]
  /\ currentCall' = end_call(s)
  /\ waitGen' = [waitGen EXCEPT ![s] = 0]
  /\ UNCHANGED <<gen, nextGen, mailbox, nextCall, held, answer, want>>

----------------------------------------------------------------------------
\* A mutant: a death leaves its callers waiting.
NoCallersOf(i) == {}

\* fail_calls_to: the tasks blocked in a call to a dying task.
CallersOf(i) == {t \in Slots : state[t] = "Call" /\ on[t] = i}

\* A mutant: the mailbox is left to the slot's next occupant.
clear_mailbox_skipped(i) == mailbox

clear_mailbox(i) == [mailbox EXCEPT ![i] = <<>>]

\* end_task: wake the callers with an error, then reset the slot's tables.
\* `final` is the state the whole handler leaves the slot in.
end_task(i, final) ==
  /\ state' = [t \in Slots |-> IF t = i THEN final
                               ELSE IF t \in CallersOf(i) THEN "Runnable" ELSE state[t]]
  /\ on' = [t \in Slots |-> IF t = i \/ t \in CallersOf(i) THEN NoTask ELSE on[t]]
  /\ currentCall' = [t \in Slots |-> IF t = i \/ t \in CallersOf(i) THEN 0 ELSE currentCall[t]]
  /\ mailbox' = clear_mailbox(i)
  /\ held' = [held EXCEPT ![i] = {}]
  /\ answer' = [answer EXCEPT ![i] = 0]
  /\ want' = [want EXCEPT ![i] = 0]
  /\ waitGen' = [waitGen EXCEPT ![i] = 0]
  /\ UNCHANGED nextCall

\* EXIT, refused below FIRST_SPAWNABLE.
Exit(s) ==
  /\ s \in Spawnable
  /\ Running(s)
  /\ end_task(s, "Zombie")
  /\ UNCHANGED <<gen, nextGen>>

\* KILL of another live spawned task.  One that runs on another core is ended
\* by that core a moment later, which is this step taken then.
Kill(s, t) ==
  /\ Running(s)
  /\ t \in Spawnable \ {s}
  /\ Occupied(t)
  /\ end_task(t, "Unused")
  /\ UNCHANGED <<gen, nextGen>>

\* A spawned task faults, or the tick applies a pending Ctrl+C to it.
Die(t) ==
  /\ t \in Spawnable
  /\ Occupied(t)
  /\ end_task(t, "Unused")
  /\ UNCHANGED <<gen, nextGen>>

\* A supervised server faults or is found wedged: ended, and its slot
\* refilled by supervisor::restart (install_task) in the same entry.
Restart(s) ==
  /\ s \in SUPERVISED
  /\ Occupied(s)
  /\ nextGen <= MaxGeneration
  /\ end_task(s, "Runnable")
  /\ gen' = [gen EXCEPT ![s] = nextGen]
  /\ nextGen' = nextGen + 1

\* The same, past MAX_RESTARTS or with its image not loading: given up.
GiveUp(s) ==
  /\ s \in SUPERVISED
  /\ Occupied(s)
  /\ end_task(s, "Unused")
  /\ UNCHANGED <<gen, nextGen>>

\* SPAWN: the first unused spawnable slot.
Spawn(s, i) ==
  /\ Running(s)
  /\ i \in Spawnable
  /\ state[i] = "Unused"
  /\ \A j \in Spawnable : j < i => state[j] # "Unused"
  /\ nextGen <= MaxGeneration
  /\ gen' = [gen EXCEPT ![i] = nextGen]
  /\ nextGen' = nextGen + 1
  /\ state' = [state EXCEPT ![i] = "Runnable"]
  /\ UNCHANGED <<on, mailbox, currentCall, nextCall, held, answer, want, waitGen>>

----------------------------------------------------------------------------
Next ==
  \/ \E s, d \in Slots : MsgSend(s, d)
  \/ \E s, d \in Slots : MsgCall(s, d)
  \/ \E s, d \in Slots : MsgCallFull(s, d)
  \/ \E s \in Slots : MsgRecvQueued(s)
  \/ \E s \in Slots : MsgRecvBlock(s)
  \/ \E s \in Slots : \E n \in held[s] : MsgReply(s, n)
  \/ \E s \in Slots : NetWait(s)
  \/ \E s \in Slots : NetWake(s)
  \/ \E s, t \in Slots : WaitReap(s, t)
  \/ \E s, t \in Slots : WaitBlock(s, t)
  \/ \E s \in Slots : WakeWaiter(s)
  \/ \E s \in Slots : Interrupt(s)
  \/ \E s \in Slots : Exit(s)
  \/ \E s, t \in Slots : Kill(s, t)
  \/ \E t \in Slots : Die(t)
  \/ \E s \in Slots : Ping(s)
  \/ \E s \in Slots : Restart(s)
  \/ \E s \in Slots : GiveUp(s)
  \/ \E s, i \in Slots : Spawn(s, i)

Spec == Init /\ [][Next]_vars

----------------------------------------------------------------------------
\* The calls whose request is queued at t or was received by its occupant.
RequestsAt(t) ==
  held[t] \union ({mailbox[t][i].call : i \in 1 .. Len(mailbox[t])} \ {0})

\* The generations t's queued mail was sent to.
MailTo(t) == {mailbox[t][i].to : i \in 1 .. Len(mailbox[t])}

\* No caller waits on a request that no longer exists: a task blocked in
\* MSG_CALL waits for a live server whose present occupant has that very
\* request queued or in hand (fail_calls_to on every death path).
CallIsAtItsServer ==
  \A t \in Slots : state[t] = "Call" =>
    \E s \in Slots : on[t] = s /\ Occupied(s) /\ currentCall[t] \in RequestsAt(s)

\* A completed call holds the answer to its own request: a late or repeated
\* MSG_REPLY never completes a call the task made since (CURRENT_CALLS).
AnswerIsToItsCall == \A t \in Slots : answer[t] # 0 => answer[t] = want[t]

\* A call in progress is known to nobody but the server it named: any other
\* holder of its handle is one that reply_target could not refuse.
LiveCallOnlyAtItsServer ==
  \A s, t \in Slots : currentCall[t] \in RequestsAt(s) => state[t] = "Call" /\ on[t] = s

\* Queued mail belongs to the occupant it was sent to; it never survives into
\* the slot's next occupant, nor sits in a slot with none (clear_mailbox).
MailForThisOccupant ==
  \A t \in Slots : \A g \in MailTo(t) : Occupied(t) /\ g = gen[t]

\* A plain receive never sleeps beside a queued message: send_message hands it
\* the message directly and MSG_RECV looks before it blocks.
RecvNeverSleepsOnMail == \A t \in Slots : state[t] = "Recv" => mailbox[t] = <<>>

\* Call numbers are issued once: every number anyone holds is below NEXT_CALL.
CallNumbersIssued ==
  /\ nextCall > 0
  /\ \A t \in Slots :
       /\ currentCall[t] < nextCall
       /\ \A n \in RequestsAt(t) : 0 < n /\ n < nextCall

\* CURRENT_CALLS names a call exactly while its task is blocked in it, and it
\* is the call that task made last.
CallNumberWhileCalling ==
  \A t \in Slots :
    /\ currentCall[t] # 0 <=> state[t] = "Call"
    /\ state[t] = "Call" => currentCall[t] = want[t]

\* With TypeOK, the inductive invariant behind all of the above.
IpcInv ==
  /\ CallNumbersIssued
  /\ CallNumberWhileCalling
  /\ CallIsAtItsServer
  /\ AnswerIsToItsCall
  /\ LiveCallOnlyAtItsServer
  /\ MailForThisOccupant
  /\ RecvNeverSleepsOnMail

----------------------------------------------------------------------------
\* A caller sees exactly what SyncCall promises: TaskIpc's mailboxes, handles,
\* deaths, restarts and interrupted waits implement it.
Promise == INSTANCE SyncCall WITH
  Tasks <- Slots, issued <- nextCall - 1, pending <- currentCall, got <- answer
CallsKeepTheirPromise == Promise!Spec
============================================================================
