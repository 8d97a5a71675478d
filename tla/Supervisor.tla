---------------------------- MODULE Supervisor ----------------------------
(***************************************************************************)
(* Watching, pinging and restarting the user-space servers:                *)
(* kernel/src/supervisor.rs, the server loop of tasks::on_tick and the     *)
(* paths of send_message, MSG_RECV, MSG_CALL and MSG_REPLY it depends on.  *)
(*                                                                         *)
(* A server here is a program that takes a request, may call another       *)
(* server while it works on it, answers, and receives again; or one that   *)
(* stops making system calls for ever, in a loop or in a call.  The tick's *)
(* loop visits the servers one by one with nothing in between (`at`).      *)
(***************************************************************************)
EXTENDS Naturals, Sequences

CONSTANTS
  NumServers,        \* the supervised slots are 1 .. NumServers, in slot order
  NetServers,        \* those that wait in NET_WAIT and take with MSG_TRY_RECV
  MSG_QUEUE_DEPTH,
  MAX_RESTARTS, WEDGE_TICKS, PING_INTERVAL, PING_TIMEOUT

ASSUME SupervisorAssumption ==
  /\ NumServers \in Nat \ {0} /\ MSG_QUEUE_DEPTH \in Nat /\ MAX_RESTARTS \in Nat
  /\ WEDGE_TICKS \in Nat \ {0} /\ PING_INTERVAL \in Nat \ {0}
  /\ PING_TIMEOUT \in Nat \ {0}

Servers == 1 .. NumServers
NotTicking == 0

\* A message: a ping, a client's request, or the call of a server, which the
\* answer reaches only while that instance of it is in the call (TaskIpc).
\* Slot 0 is no server's.
Nothing == <<0, 0>>
PING == <<0, 1>>
Client == <<0, 2>>
CallOf(s, n) == <<s, n>>
Messages == {PING, Client} \cup (Servers \X Nat)

Waits == {"Recv", "Call", "NetInput"}

VARIABLES
  state,             \* STATES of the servers
  on,                \* the server a Call waits for; the slot itself otherwise
  mailbox,           \* MAILBOXES
  serving,           \* the request a server has taken and not yet answered
  stuck,             \* the server will never make another system call
  restarts, runnable_ticks, ping_outstanding, ping_wait, idle_ticks,
                     \* the fields of Entry
  refused,           \* history: the outstanding ping found the mailbox full
  at                 \* the server the tick's loop is at

tasks == <<state, on, mailbox, serving, stuck>>
entry == <<restarts, runnable_ticks, ping_outstanding, ping_wait, idle_ticks, refused>>
vars == <<tasks, entry, at>>

TypeOK ==
  /\ state \in [Servers -> Waits \cup {"Runnable", "Unused"}]
  /\ on \in [Servers -> Servers]
  /\ mailbox \in [Servers -> Seq(Messages)]
  /\ \A s \in Servers : Len(mailbox[s]) <= MSG_QUEUE_DEPTH
  /\ serving \in [Servers -> Messages \cup {Nothing}]
  /\ stuck \in [Servers -> BOOLEAN]
  /\ restarts \in [Servers -> Nat]
  /\ runnable_ticks \in [Servers -> 0 .. WEDGE_TICKS + 1]
  /\ ping_outstanding \in [Servers -> BOOLEAN]
  /\ ping_wait \in [Servers -> 0 .. PING_TIMEOUT]
  /\ idle_ticks \in [Servers -> 0 .. PING_INTERVAL]
  /\ refused \in [Servers -> BOOLEAN]
  /\ at \in Servers \cup {NotTicking}

\* After boot: the servers loaded and registered.
Init ==
  /\ state = [s \in Servers |-> "Runnable"]
  /\ on = [s \in Servers |-> s]
  /\ mailbox = [s \in Servers |-> << >>]
  /\ serving = [s \in Servers |-> Nothing]
  /\ stuck = [s \in Servers |-> FALSE]
  /\ restarts = [s \in Servers |-> 0]
  /\ runnable_ticks = [s \in Servers |-> 0]
  /\ ping_outstanding = [s \in Servers |-> FALSE]
  /\ ping_wait = [s \in Servers |-> 0]
  /\ idle_ticks = [s \in Servers |-> 0]
  /\ refused = [s \in Servers |-> FALSE]
  /\ at = NotTicking

----------------------------------------------------------------------------
(***************************************************************************)
(* The servers' system calls.                                              *)
(***************************************************************************)
Running(s) == at = NotTicking /\ state[s] = "Runnable" /\ ~stuck[s]

\* send_message to d: into its receive, or into its mailbox.
Full(d) == state[d] # "Recv" /\ Len(mailbox[d]) >= MSG_QUEUE_DEPTH
Sent(d, m, st) ==
  IF state[d] = "Recv"
  THEN /\ state' = [st EXCEPT ![d] = "Runnable"]
       /\ serving' = [serving EXCEPT ![d] = m]
       /\ UNCHANGED mailbox
  ELSE /\ mailbox' = [mailbox EXCEPT ![d] = Append(@, m)]
       /\ state' = [st EXCEPT ![d] = IF @ = "NetInput" THEN "Runnable" ELSE @]
       /\ UNCHANGED serving

\* A client's MSG_CALL to a server.
Request(d) ==
  /\ at = NotTicking /\ state[d] # "Unused" /\ ~Full(d)
  /\ Sent(d, Client, state)
  /\ UNCHANGED <<on, stuck, entry, at>>

\* A server's own MSG_CALL to another while it works on a request.
MSG_CALL(s, d) ==
  /\ Running(s) /\ serving[s] # Nothing
  /\ d # s /\ state[d] # "Unused" /\ ~Full(d)
  /\ Sent(d, CallOf(s, restarts[s]), [state EXCEPT ![s] = "Call"])
  /\ on' = [on EXCEPT ![s] = d]
  /\ UNCHANGED <<stuck, entry, at>>

note_progress(s) == runnable_ticks' = [runnable_ticks EXCEPT ![s] = 0]

MSG_RECV(s) ==
  /\ Running(s) /\ serving[s] = Nothing /\ s \notin NetServers
  /\ note_progress(s)
  /\ \/ /\ mailbox[s] # << >>
        /\ serving' = [serving EXCEPT ![s] = Head(mailbox[s])]
        /\ mailbox' = [mailbox EXCEPT ![s] = Tail(@)]
        /\ UNCHANGED state
     \/ /\ mailbox[s] = << >>
        /\ state' = [state EXCEPT ![s] = "Recv"]
        /\ UNCHANGED <<serving, mailbox>>
  /\ UNCHANGED <<on, stuck, restarts, ping_outstanding, ping_wait, idle_ticks, refused, at>>

MSG_TRY_RECV(s) ==
  /\ Running(s) /\ serving[s] = Nothing /\ s \in NetServers /\ mailbox[s] # << >>
  /\ serving' = [serving EXCEPT ![s] = Head(mailbox[s])]
  /\ mailbox' = [mailbox EXCEPT ![s] = Tail(@)]
  /\ UNCHANGED <<state, on, stuck, entry, at>>

\* NET_WAIT blocks whatever is queued already; a frame or the deadline ends it.
NET_WAIT(s) ==
  /\ Running(s) /\ s \in NetServers
  /\ state' = [state EXCEPT ![s] = "NetInput"]
  /\ UNCHANGED <<on, mailbox, serving, stuck, entry, at>>
NetInput(s) ==
  /\ at = NotTicking /\ state[s] = "NetInput"
  /\ state' = [state EXCEPT ![s] = "Runnable"]
  /\ UNCHANGED <<on, mailbox, serving, stuck, entry, at>>

\* MSG_REPLY to a call: to a server only if it is still in that very call.
MSG_REPLY(s) ==
  /\ Running(s) /\ serving[s] \notin {Nothing, PING}
  /\ serving' = [serving EXCEPT ![s] = Nothing]
  /\ state' = [c \in Servers |->
       IF serving[s] = CallOf(c, restarts[c]) /\ state[c] = "Call" /\ on[c] = s
       THEN "Runnable" ELSE state[c]]
  /\ on' = [c \in Servers |->
       IF serving[s] = CallOf(c, restarts[c]) /\ state[c] = "Call" /\ on[c] = s
       THEN c ELSE on[c]]
  /\ UNCHANGED <<mailbox, stuck, entry, at>>

\* MSG_REPLY to KERNEL_SENDER: the answer to a ping, or a net server's
\* heartbeat from inside a long loop.
note_ack_of_progress_only(s) ==
  /\ note_progress(s)
  /\ UNCHANGED <<ping_outstanding, ping_wait, idle_ticks, refused>>
note_ack(s) ==
  /\ ping_outstanding' = [ping_outstanding EXCEPT ![s] = FALSE]
  /\ ping_wait' = [ping_wait EXCEPT ![s] = 0]
  /\ idle_ticks' = [idle_ticks EXCEPT ![s] = 0]
  /\ refused' = [refused EXCEPT ![s] = FALSE]
  /\ note_progress(s)
Ack(s) ==
  /\ Running(s)
  /\ \/ serving[s] = PING /\ serving' = [serving EXCEPT ![s] = Nothing]
     \/ s \in NetServers /\ serving[s] # PING /\ UNCHANGED serving
  /\ note_ack(s)
  /\ UNCHANGED <<state, on, mailbox, stuck, restarts, at>>

\* The program loops for ever, or deadlocks outside the kernel's sight.
GetStuck(s) ==
  /\ Running(s) \/ (at = NotTicking /\ state[s] = "Call" /\ ~stuck[s])
  /\ stuck' = [stuck EXCEPT ![s] = TRUE]
  /\ UNCHANGED <<state, on, mailbox, serving, entry, at>>

----------------------------------------------------------------------------
(***************************************************************************)
(* Death and restart.                                                      *)
(***************************************************************************)
\* end_task, then restart: a fresh task and a fresh entry, or past the cap an
\* empty slot.  fail_calls_to wakes whoever was in a call to it.
GivesUp(s) == restarts[s] + 1 > MAX_RESTARTS
end_task(s) ==
  /\ state' = [c \in Servers |->
       IF c = s THEN IF GivesUp(s) THEN "Unused" ELSE "Runnable"
       ELSE IF state[c] = "Call" /\ on[c] = s THEN "Runnable" ELSE state[c]]
  /\ on' = [c \in Servers |->
       IF c = s \/ (state[c] = "Call" /\ on[c] = s) THEN c ELSE on[c]]
  /\ mailbox' = [mailbox EXCEPT ![s] = << >>]
  /\ serving' = [serving EXCEPT ![s] = Nothing]
  /\ stuck' = [stuck EXCEPT ![s] = FALSE]

\* The entry after restart, given the counters the observation left.
Entry(s, ticks, outstanding, wait, idle) ==
  /\ runnable_ticks' = [runnable_ticks EXCEPT ![s] = ticks]
  /\ ping_outstanding' = [ping_outstanding EXCEPT ![s] = outstanding]
  /\ ping_wait' = [ping_wait EXCEPT ![s] = wait]
  /\ idle_ticks' = [idle_ticks EXCEPT ![s] = idle]
restart_without_reset(s, ticks, outstanding, wait, idle) ==
  /\ restarts' = [restarts EXCEPT ![s] = @ + 1]
  /\ Entry(s, ticks, outstanding, wait, idle)
  /\ UNCHANGED refused
restart(s, ticks, outstanding, wait, idle) ==
  /\ restarts' = [restarts EXCEPT ![s] = @ + 1]
  /\ IF GivesUp(s)
     THEN Entry(s, ticks, outstanding, wait, idle) /\ UNCHANGED refused
     ELSE Entry(s, 0, FALSE, 0, 0) /\ refused' = [refused EXCEPT ![s] = FALSE]

\* A fault in the server (el0_fault_locked).
Fault(s) ==
  /\ Running(s)
  /\ end_task(s)
  /\ restart(s, runnable_ticks[s], ping_outstanding[s], ping_wait[s], idle_ticks[s])
  /\ UNCHANGED at

----------------------------------------------------------------------------
(***************************************************************************)
(* The tick.                                                               *)
(***************************************************************************)
\* The wake-checks: NET_WAIT ends when something is queued.
TickStart ==
  /\ at = NotTicking
  /\ state' = [s \in Servers |-> IF state[s] = "NetInput" /\ mailbox[s] # << >>
                                 THEN "Runnable" ELSE state[s]]
  /\ at' = 1
  /\ UNCHANGED <<on, mailbox, serving, stuck, entry>>

NextServer(s) == IF s = NumServers THEN NotTicking ELSE s + 1

Blocked(s) == state[s] \in Waits

\* A mutant: a beat at every tick, whatever the server did since the last.
heartbeat_seen(s) == 0

\* heartbeat: the count of ticks in a row a server was seen not blocked.  A
\* count past the threshold (a slot given up) is not told from a larger one.
heartbeat(s) ==
  IF Blocked(s) THEN 0
  ELSE IF runnable_ticks[s] > WEDGE_TICKS THEN runnable_ticks[s]
  ELSE runnable_ticks[s] + 1
RunnableWedge(s) == ~Blocked(s) /\ heartbeat(s) = WEDGE_TICKS

\* poll_ping's verdicts.
PingTimesOut(s) ==
  Blocked(s) /\ ping_outstanding[s] /\ ping_wait[s] + 1 >= PING_TIMEOUT
Injects(s) == Blocked(s) /\ ~ping_outstanding[s] /\ idle_ticks[s] + 1 >= PING_INTERVAL

\* A wedged server is torn down and restarted.  If it is the task the tick
\* interrupted, on_tick returns and the servers after it are not looked at.
ReplaceRunnable(s) ==
  /\ RunnableWedge(s)
  /\ end_task(s)
  /\ restart(s, heartbeat(s), FALSE, 0, 0)
  /\ at' \in {NotTicking, NextServer(s)}
ReplaceBlocked(s) ==
  /\ PingTimesOut(s)
  /\ end_task(s)
  /\ restart(s, 0, FALSE, 0, 0)
  /\ at' = NextServer(s)

Inject(s) ==
  /\ Injects(s)
  /\ Entry(s, 0, TRUE, 0, 0)
  /\ \/ /\ ~Full(s)
        /\ Sent(s, PING, state)
        /\ refused' = [refused EXCEPT ![s] = FALSE]
     \/ /\ Full(s)
        /\ refused' = [refused EXCEPT ![s] = TRUE]
        /\ UNCHANGED <<state, mailbox, serving>>
  /\ at' = NextServer(s)
  /\ UNCHANGED <<on, stuck, restarts>>

Observe_uncounted_ping(s) ==
  /\ ~RunnableWedge(s) /\ ~PingTimesOut(s) /\ ~Injects(s)
  /\ Entry(s, heartbeat(s), Blocked(s) /\ ping_outstanding[s], 0,
           IF Blocked(s) /\ ~ping_outstanding[s] THEN idle_ticks[s] + 1 ELSE 0)
  /\ at' = NextServer(s)
  /\ UNCHANGED <<refused, tasks, restarts>>
Observe(s) ==
  /\ ~RunnableWedge(s) /\ ~PingTimesOut(s) /\ ~Injects(s)
  /\ IF ~Blocked(s)
     THEN Entry(s, heartbeat(s), FALSE, 0, 0) /\ refused' = [refused EXCEPT ![s] = FALSE]
     ELSE /\ Entry(s, 0, ping_outstanding[s],
                   IF ping_outstanding[s] THEN ping_wait[s] + 1 ELSE ping_wait[s],
                   IF ping_outstanding[s] THEN idle_ticks[s] ELSE idle_ticks[s] + 1)
          /\ UNCHANGED refused
  /\ at' = NextServer(s)
  /\ UNCHANGED <<tasks, restarts>>

TickServer ==
  \E s \in Servers :
    /\ at = s
    /\ ReplaceRunnable(s) \/ ReplaceBlocked(s) \/ Inject(s) \/ Observe(s)

Tick == TickStart \/ TickServer

Next ==
  \/ \E s \in Servers :
       \/ Request(s) \/ MSG_RECV(s) \/ MSG_TRY_RECV(s) \/ NET_WAIT(s) \/ NetInput(s)
       \/ MSG_REPLY(s) \/ Ack(s) \/ GetStuck(s) \/ Fault(s)
  \/ \E s, d \in Servers : MSG_CALL(s, d)
  \/ Tick

Spec == Init /\ [][Next]_vars

\* The boot core's timer fires whatever the servers do; nothing is assumed of
\* the servers themselves.
FairSpec == Spec /\ WF_vars(Tick)

----------------------------------------------------------------------------
(***************************************************************************)
(* Properties.                                                             *)
(***************************************************************************)
\* A server that is alive is always one the detectors can still catch: the
\* exact `==` of heartbeat has not been stepped over, the ping's counts are
\* below their limits.  (After a restart that kept old counts it would not be.)
LiveIsWatched ==
  \A s \in Servers : state[s] # "Unused" =>
    /\ runnable_ticks[s] < WEDGE_TICKS
    /\ ping_wait[s] < PING_TIMEOUT
    /\ idle_ticks[s] < PING_INTERVAL

\* A server idle in its receive is restarted only for a ping that never
\* reached it, because its mailbox was full when the ping was injected: any
\* other ping is answered before the server is back at its receive.
IdleTripsOnlyUnseen ==
  [][\A s \in Servers :
       (state[s] = "Recv" /\ restarts'[s] # restarts[s]) => refused[s]]_vars

\* PING_TIMEOUT: "so a genuine `Blocked`-deadlock is caught while a healthy
\* idle server never trips."  A server blocked in its receive with nothing in
\* hand would never be restarted.
HealthyIdleNeverTrips ==
  [][\A s \in Servers : state[s] = "Recv" => restarts'[s] = restarts[s]]_vars

\* A server that stops making system calls, in a loop or in a call, is taken
\* down in the end, whatever the other servers do.
StuckIsReplaced == \A s \in Servers : stuck[s] ~> ~stuck[s]

\* No server waits for ever in a call to another: not for one that is stuck,
\* not for one that has died, not in a circle of servers that call each other.
CallsEnd == \A s \in Servers : (state[s] = "Call") ~> (state[s] # "Call")
============================================================================
