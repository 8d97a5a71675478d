------------------------------ MODULE HeldKeys ------------------------------
(***************************************************************************)
(* The keys netd holds for logged-in users (held.rs and key_op): a root    *)
(* task leaves a user's key with netd for as long as it runs.  A key is    *)
(* named by the slot it took; its owner is a task's identity, the slot and *)
(* its generation, so the next task in the slot is another owner.          *)
(***************************************************************************)
EXTENDS Integers, FiniteSets, FiniteSetsExt

CONSTANTS NET_KEY_MAX, TaskSlots, Uids, MaxGenerations

VARIABLES
  slots,     \* the held keys
  tasks,     \* the kernel's tasks, as netd can ask for them
  told,      \* the last answer given: a verdict and the users listed
  robbed     \* a running owner's key went at the word of another user's task

vars == <<slots, tasks, told, robbed>>

Root == 0
Handles == 1..NET_KEY_MAX
NoKey == [held |-> FALSE]
Ids == {<<t, tasks[t].gen>> : t \in {u \in TaskSlots : tasks[u].live}}

Init ==
  /\ slots = [h \in Handles |-> NoKey]
  /\ tasks \in [TaskSlots -> {[gen |-> 1, live |-> TRUE, uid |-> u] : u \in Uids}]
  /\ told = [verdict |-> "none", uids |-> {}]
  /\ robbed = FALSE

alive(owner) == owner \in Ids
reap_dead(s) ==
  [h \in Handles |-> IF s[h].held THEN IF alive(s[h].owner) THEN s[h] ELSE NoKey ELSE NoKey]
OwnedBy(s, owner) == {h \in Handles : IF s[h].held THEN s[h].owner = owner ELSE FALSE}
drop_mine(s, owner) == [h \in Handles |-> IF h \in OwnedBy(s, owner) THEN NoKey ELSE s[h]]
Free(s) == {h \in Handles : ~s[h].held}
uids(s) == {s[h].uid : h \in Handles \ Free(s)}

Told(verdict, us) == told' = [verdict |-> verdict, uids |-> us]

(* An owner's second key takes the place of its first. *)
hold(s, uid, owner) ==
  IF Free(s) = {} THEN slots' = s /\ Told("full", {})
  ELSE /\ slots' = [s EXCEPT ![Min(Free(s))] = [held |-> TRUE, uid |-> uid, owner |-> owner]]
       /\ Told("ok", {})

NETOP_KEY_HOLD(t, uid) ==
  /\ IF tasks[t].uid # Root THEN slots' = reap_dead(slots) /\ Told("denied", {})
     ELSE hold(drop_mine(reap_dead(slots), <<t, tasks[t].gen>>), uid, <<t, tasks[t].gen>>)
  /\ UNCHANGED <<tasks, robbed>>

MayDrop(t, k) == k.owner = <<t, tasks[t].gen>> \/ tasks[t].uid = Root

drop_handle(t, h) ==
  IF ~slots[h].held THEN Told("not_held", {}) /\ UNCHANGED <<slots, robbed>>
  ELSE IF ~MayDrop(t, slots[h]) THEN Told("denied", {}) /\ UNCHANGED <<slots, robbed>>
  ELSE /\ slots' = [slots EXCEPT ![h] = NoKey]
       /\ robbed' = (robbed \/ (/\ slots[h].owner \in Ids \ {<<t, tasks[t].gen>>}
                                /\ tasks[t].uid # Root))
       /\ Told("ok", {})

NETOP_KEY_DROP(t, h) == drop_handle(t, h) /\ UNCHANGED tasks
NETOP_KEY_DROP_MINE(t) ==
  /\ slots' = drop_mine(slots, <<t, tasks[t].gen>>)
  /\ Told("ok", {})
  /\ UNCHANGED <<tasks, robbed>>
NETOP_KEY_LIST(t) ==
  /\ slots' = reap_dead(slots)
  /\ IF tasks[t].uid # Root THEN Told("denied", {}) ELSE Told("list", uids(reap_dead(slots)))
  /\ UNCHANGED <<tasks, robbed>>

(* Every turn of the loop ends with a reaping, after the messages. *)
serve_reaps ==
  /\ slots' = reap_dead(slots)
  /\ Told("none", {})
  /\ UNCHANGED <<tasks, robbed>>

TaskEnds(t) ==
  /\ tasks' = [tasks EXCEPT ![t].live = FALSE]
  /\ Told("none", {})
  /\ UNCHANGED <<slots, robbed>>
TaskStarts(t, uid) ==
  /\ ~tasks[t].live /\ tasks[t].gen < MaxGenerations
  /\ tasks' = [tasks EXCEPT ![t] = [gen |-> @.gen + 1, live |-> TRUE, uid |-> uid]]
  /\ Told("none", {})
  /\ UNCHANGED <<slots, robbed>>

Next ==
  \/ serve_reaps
  \/ \E t \in TaskSlots, uid \in Uids : TaskStarts(t, uid)
  \/ \E t \in {u \in TaskSlots : tasks[u].live} :
       \/ \E uid \in Uids : NETOP_KEY_HOLD(t, uid)
       \/ \E h \in Handles : NETOP_KEY_DROP(t, h)
       \/ NETOP_KEY_DROP_MINE(t) \/ NETOP_KEY_LIST(t) \/ TaskEnds(t)

Spec == Init /\ [][Next]_vars

(* A key is its owner's alone: nobody but the owner and root takes it while
   the owner runs, one owner never has two, and what has been listed, or has
   filled the table, belongs to tasks that run, not to their successors. *)
KeysAreTheirs ==
  /\ ~robbed
  /\ \A t \in TaskSlots : Cardinality(OwnedBy(slots, <<t, tasks[t].gen>>)) <= 1
  /\ told.verdict = "full" => \A h \in Handles : slots[h].held /\ slots[h].owner \in Ids
  /\ told.uids = {slots[h].uid : h \in {g \in Handles : told.verdict = "list" /\ slots[g].held}}
  /\ told.verdict = "list" => \A h \in Handles : slots[h].held => slots[h].owner \in Ids
=============================================================================
