--------------------------- MODULE TaskIpcProofs ---------------------------
(* Theorems about module TaskIpc, for every table size, set of servers,    *)
(* rights and mailbox depth.                                               *)
EXTENDS TaskIpc, TLAPS

\* Every leaf is given a minute; nearly all take a second or two.
USE SMTT(60), ZenonT(60)

\* Every slot number, and the number that names none, is a legal `on`.
LEMMA SlotNumbers ==
  /\ NoTask \in 0 .. NUM_TASKS
  /\ \A t \in Slots : t \in 0 .. NUM_TASKS
BY SlotsAssumption DEF NoTask, Slots

\* Each name of a state is one.
LEMMA States ==
  /\ {"Runnable", "Recv", "Call", "TaskExit", "NetInput", "Unused", "Zombie"} \subseteq TaskState
BY DEF TaskState, Live, Waits

\* Every entry of the kernel keeps its tables well-formed, mailboxes within
\* their depth included.
THEOREM Typing == Spec => []TypeOK
<1>1. Init => TypeOK
  BY SlotsAssumption, BoundsAssumption, SlotNumbers, States DEF Init, TypeOK, Slots
<1>2. TypeOK /\ [Next]_vars => TypeOK'
  <2> SUFFICES ASSUME TypeOK, [Next]_vars PROVE TypeOK'
    OBVIOUS
  <2> USE SlotNumbers, States DEF TypeOK
  <2>1. ASSUME NEW d \in Slots, NEW call \in Nat, NEW st \in [Slots -> TaskState],
               send_message(d, call, st)
        PROVE  /\ state' \in [Slots -> TaskState]
               /\ held' \in [Slots -> SUBSET Nat]
               /\ mailbox' \in [Slots -> Seq(Message)]
               /\ \A t \in Slots : Len(mailbox'[t]) <= MSG_QUEUE_DEPTH
    <3>1. CASE SendDirect(d, call, st)
      BY <3>1 DEF SendDirect, Learn
    <3>2. CASE SendQueued(d, call, st)
      <4>1. state' \in [Slots -> TaskState] /\ held' \in [Slots -> SUBSET Nat]
        BY <3>2 DEF SendQueued
      <4>2. [call |-> call, to |-> gen[d]] \in Message
        BY DEF Message
      <4>3. mailbox' = [mailbox EXCEPT ![d] = Append(@, [call |-> call, to |-> gen[d]])]
        BY ZenonT(60), <3>2 DEF SendQueued
      <4>4. mailbox' \in [Slots -> Seq(Message)]
        BY <4>2, <4>3
      <4>5. \A t \in Slots : Len(mailbox'[t]) <= MSG_QUEUE_DEPTH
        <5>1. Len(mailbox[d]) < MSG_QUEUE_DEPTH
          BY <3>2, BoundsAssumption DEF SendQueued, Full
        <5> QED BY <4>2, <4>3, <5>1, BoundsAssumption
      <4> QED BY ZenonT(60), <4>1, <4>4, <4>5
    <3> QED BY ZenonT(60), <2>1, <3>1, <3>2 DEF send_message
  <2>2. ASSUME NEW i \in Slots, NEW final \in TaskState, end_task(i, final)
        PROVE  /\ state' \in [Slots -> TaskState]
               /\ on' \in [Slots -> 0 .. NUM_TASKS]
               /\ currentCall' \in [Slots -> Nat]
               /\ mailbox' \in [Slots -> Seq(Message)]
               /\ \A t \in Slots : Len(mailbox'[t]) <= MSG_QUEUE_DEPTH
               /\ held' \in [Slots -> SUBSET Nat]
               /\ answer' \in [Slots -> Nat]
               /\ want' \in [Slots -> Nat]
               /\ waitGen' \in [Slots -> Nat]
               /\ nextCall' \in Nat
    <3>1. state' \in [Slots -> TaskState] /\ on' \in [Slots -> 0 .. NUM_TASKS]
      BY <2>2 DEF end_task
    <3>2. currentCall' \in [Slots -> Nat] /\ nextCall' \in Nat
      BY <2>2 DEF end_task
    <3>3. held' \in [Slots -> SUBSET Nat] /\ answer' \in [Slots -> Nat]
      BY <2>2 DEF end_task
    <3>7. want' \in [Slots -> Nat] /\ waitGen' \in [Slots -> Nat]
      BY <2>2 DEF end_task
    <3>4. mailbox' = [mailbox EXCEPT ![i] = <<>>]
      BY ZenonT(60), <2>2 DEF end_task, clear_mailbox
    <3>5. mailbox' \in [Slots -> Seq(Message)]
      BY <3>4
    <3>6. \A t \in Slots : Len(mailbox'[t]) <= MSG_QUEUE_DEPTH
      BY <3>4, BoundsAssumption
    <3> QED BY ZenonT(60), <3>1, <3>2, <3>3, <3>5, <3>6, <3>7
  <2>3. ASSUME NEW s \in Slots, NEW d \in Slots, MsgSend(s, d) PROVE TypeOK'
    BY ZenonT(60), <2>1, <2>3 DEF MsgSend
  <2>4. ASSUME NEW s \in Slots, NEW d \in Slots, MsgCall(s, d) PROVE TypeOK'
    <3>1. /\ nextCall \in Nat /\ [state EXCEPT ![s] = "Call"] \in [Slots -> TaskState]
          /\ send_message(d, nextCall, [state EXCEPT ![s] = "Call"])
      BY <2>4 DEF MsgCall
    <3>2. /\ state' \in [Slots -> TaskState]
          /\ held' \in [Slots -> SUBSET Nat]
          /\ mailbox' \in [Slots -> Seq(Message)]
          /\ \A t \in Slots : Len(mailbox'[t]) <= MSG_QUEUE_DEPTH
      BY ZenonT(60), <2>1, <3>1
    <3>3. /\ currentCall' \in [Slots -> Nat]
          /\ want' \in [Slots -> Nat]
          /\ answer' \in [Slots -> Nat]
          /\ on' \in [Slots -> 0 .. NUM_TASKS]
      BY ZenonT(60), <2>4 DEF MsgCall
    <3>4. nextCall' \in Nat
      BY <2>4 DEF MsgCall
    <3> QED BY ZenonT(60), <2>4, <3>2, <3>3, <3>4 DEF MsgCall
  <2>5. ASSUME NEW s \in Slots, NEW d \in Slots, MsgCallFull(s, d) PROVE TypeOK'
    <3>1. nextCall' \in Nat /\ currentCall' \in [Slots -> Nat]
      BY <2>5 DEF MsgCallFull, end_call
    <3> QED BY ZenonT(60), <2>5, <3>1 DEF MsgCallFull
  <2>6. ASSUME NEW s \in Slots, MsgRecvQueued(s) PROVE TypeOK'
    <3>1. /\ Head(mailbox[s]) \in Message
          /\ Tail(mailbox[s]) \in Seq(Message)
          /\ Len(Tail(mailbox[s])) <= MSG_QUEUE_DEPTH
      <4>1. mailbox[s] # <<>> /\ mailbox[s] \in Seq(Message) /\ Len(mailbox[s]) <= MSG_QUEUE_DEPTH
        BY ZenonT(60), <2>6 DEF MsgRecvQueued, try_recv_message
      <4> QED BY <4>1, BoundsAssumption
    <3>2. held' \in [Slots -> SUBSET Nat]
      BY ZenonT(60), <2>6, <3>1 DEF MsgRecvQueued, try_recv_message, Learn, Message
    <3>3. /\ mailbox' \in [Slots -> Seq(Message)]
          /\ \A t \in Slots : Len(mailbox'[t]) <= MSG_QUEUE_DEPTH
      BY ZenonT(60), <2>6, <3>1 DEF MsgRecvQueued, try_recv_message
    <3> QED BY ZenonT(60), <2>6, <3>2, <3>3 DEF MsgRecvQueued
  <2>7. ASSUME NEW s \in Slots, MsgRecvBlock(s) PROVE TypeOK'
    BY ZenonT(60), <2>7 DEF MsgRecvBlock
  <2>8. ASSUME NEW s \in Slots, NEW n \in held[s], MsgReply(s, n) PROVE TypeOK'
    <3>1. PICK t \in Slots :
            /\ answer' = [answer EXCEPT ![t] = n]
            /\ currentCall' = [currentCall EXCEPT ![t] = 0]
            /\ state' = [state EXCEPT ![t] = "Runnable"]
            /\ on' = [on EXCEPT ![t] = NoTask]
      BY ZenonT(60), <2>8 DEF MsgReply, end_call
    <3>2. /\ answer' \in [Slots -> Nat] /\ currentCall' \in [Slots -> Nat]
          /\ state' \in [Slots -> TaskState] /\ on' \in [Slots -> 0 .. NUM_TASKS]
      BY ZenonT(60), <3>1
    <3> QED BY ZenonT(60), <2>8, <3>2 DEF MsgReply
  <2>9. ASSUME NEW s \in Slots, NetWait(s) PROVE TypeOK'
    BY ZenonT(60), <2>9 DEF NetWait
  <2>10. ASSUME NEW s \in Slots, NetWake(s) PROVE TypeOK'
    BY ZenonT(60), <2>10 DEF NetWake
  <2>11. ASSUME NEW s \in Slots, NEW t \in Slots, WaitReap(s, t) PROVE TypeOK'
    BY ZenonT(60), <2>11 DEF WaitReap
  <2>12. ASSUME NEW s \in Slots, NEW t \in Slots, WaitBlock(s, t) PROVE TypeOK'
    BY ZenonT(60), <2>12 DEF WaitBlock
  <2>13. ASSUME NEW s \in Slots, WakeWaiter(s) PROVE TypeOK'
    BY ZenonT(60), <2>13 DEF WakeWaiter
  <2>14. ASSUME NEW s \in Slots, Interrupt(s) PROVE TypeOK'
    BY ZenonT(60), <2>14 DEF Interrupt, end_call
  <2>15. ASSUME NEW s \in Slots, Exit(s) PROVE TypeOK'
    BY ZenonT(60), <2>2, <2>15 DEF Exit
  <2>16. ASSUME NEW s \in Slots, NEW t \in Slots, Kill(s, t) PROVE TypeOK'
    BY ZenonT(60), <2>2, <2>16 DEF Kill
  <2>17. ASSUME NEW t \in Slots, Die(t) PROVE TypeOK'
    BY ZenonT(60), <2>2, <2>17 DEF Die
  <2>18. ASSUME NEW s \in Slots, Ping(s) PROVE TypeOK'
    BY ZenonT(60), <2>1, <2>18 DEF Ping
  <2>19. ASSUME NEW s \in Slots, Restart(s) PROVE TypeOK'
    <3>1. gen' \in [Slots -> Nat] /\ nextGen' \in Nat
      BY <2>19 DEF Restart
    <3> QED BY ZenonT(60), <2>2, <2>19, <3>1 DEF Restart
  <2>20. ASSUME NEW s \in Slots, GiveUp(s) PROVE TypeOK'
    BY ZenonT(60), <2>2, <2>20 DEF GiveUp
  <2>21. ASSUME NEW s \in Slots, NEW i \in Slots, Spawn(s, i) PROVE TypeOK'
    <3>1. nextGen' \in Nat
      BY <2>21 DEF Spawn
    <3>2. gen' \in [Slots -> Nat] /\ state' \in [Slots -> TaskState]
      BY ZenonT(60), <2>21 DEF Spawn
    <3> QED BY ZenonT(60), <2>21, <3>1, <3>2 DEF Spawn
  <2>22. CASE UNCHANGED vars
    BY <2>22 DEF vars
  <2> QED
    BY ZenonT(60), <2>3, <2>4, <2>5, <2>6, <2>7, <2>8, <2>9, <2>10, <2>11, <2>12, <2>13, <2>14,
       <2>15, <2>16, <2>17, <2>18, <2>19, <2>20, <2>21, <2>22 DEF Next
<1> QED BY <1>1, <1>2, PTL DEF Spec

----------------------------------------------------------------------------
\* What queueing and taking a message do to the calls and the generations
\* found in a queue.
LEMMA QueueOps ==
  ASSUME NEW q \in Seq(Message), NEW m \in Message
  PROVE  /\ {Append(q, m)[i].call : i \in 1 .. Len(Append(q, m))}
              = {q[i].call : i \in 1 .. Len(q)} \union {m.call}
         /\ {Append(q, m)[i].to : i \in 1 .. Len(Append(q, m))}
              = {q[i].to : i \in 1 .. Len(q)} \union {m.to}
         /\ q # <<>> => /\ {q[i].call : i \in 1 .. Len(q)}
                            = {Tail(q)[i].call : i \in 1 .. Len(Tail(q))} \union {Head(q).call}
                        /\ {Tail(q)[i].to : i \in 1 .. Len(Tail(q))}
                            \subseteq {q[i].to : i \in 1 .. Len(q)}
<1>1. /\ Len(Append(q, m)) = Len(q) + 1 /\ Len(q) \in Nat
      /\ \A i \in 1 .. Len(q) : Append(q, m)[i] = q[i]
      /\ Append(q, m)[Len(q) + 1] = m
  OBVIOUS
<1>2. {Append(q, m)[i].call : i \in 1 .. Len(Append(q, m))}
        = {q[i].call : i \in 1 .. Len(q)} \union {m.call}
  BY <1>1
<1>3. {Append(q, m)[i].to : i \in 1 .. Len(Append(q, m))}
        = {q[i].to : i \in 1 .. Len(q)} \union {m.to}
  BY <1>1
<1>4. ASSUME q # <<>>
      PROVE  /\ {q[i].call : i \in 1 .. Len(q)}
                  = {Tail(q)[i].call : i \in 1 .. Len(Tail(q))} \union {Head(q).call}
             /\ {Tail(q)[i].to : i \in 1 .. Len(Tail(q))} \subseteq {q[i].to : i \in 1 .. Len(q)}
  <2>1. /\ Len(Tail(q)) = Len(q) - 1 /\ Len(q) \in Nat /\ Len(q) > 0
        /\ \A i \in 1 .. Len(q) - 1 : Tail(q)[i] = q[i + 1]
        /\ Head(q) = q[1]
    BY <1>4
  <2>2. \A i \in 1 .. Len(q) : i = 1 \/ (i - 1 \in 1 .. Len(Tail(q)) /\ q[i] = Tail(q)[i - 1])
    BY <2>1
  <2>3. \A i \in 1 .. Len(Tail(q)) : i + 1 \in 1 .. Len(q) /\ Tail(q)[i] = q[i + 1]
    BY <2>1
  <2>4. 1 \in 1 .. Len(q)
    BY <2>1
  <2>5. {q[i].call : i \in 1 .. Len(q)}
          \subseteq {Tail(q)[i].call : i \in 1 .. Len(Tail(q))} \union {Head(q).call}
    <3> SUFFICES ASSUME NEW i \in 1 .. Len(q), i # 1
                   PROVE  \E j \in 1 .. Len(Tail(q)) : q[i].call = Tail(q)[j].call
      BY ZenonT(60), <2>1
    <3> QED BY <2>2
  <2>6. {Tail(q)[i].call : i \in 1 .. Len(Tail(q))} \union {Head(q).call}
          \subseteq {q[i].call : i \in 1 .. Len(q)}
    BY <2>1, <2>3, <2>4
  <2>7. {Tail(q)[i].to : i \in 1 .. Len(Tail(q))} \subseteq {q[i].to : i \in 1 .. Len(q)}
    BY <2>3
  <2> QED BY ZenonT(60), <2>5, <2>6, <2>7
<1> QED BY ZenonT(60), <1>2, <1>3, <1>4

\* The calls at each slot, and the mail, after a send, a receive and a death.
LEMMA SendEffect ==
  ASSUME TypeOK, NEW d \in Slots, NEW call \in Nat, NEW st \in [Slots -> TaskState],
         send_message(d, call, st)
  PROVE  /\ \A t \in Slots : RequestsAt(t)' =
              IF t = d THEN RequestsAt(d) \union ({call} \ {0}) ELSE RequestsAt(t)
         /\ \A t \in Slots : \A g \in MailTo(t)' : g \in MailTo(t) \/ (t = d /\ g = gen[d])
         /\ \A t \in Slots : t # d => state'[t] = st[t] /\ mailbox'[t] = mailbox[t]
         /\ state'[d] = "Recv" => st[d] = "Recv" /\ state[d] # "Recv"
         /\ \/ state'[d] = "Runnable" /\ state[d] \in Waits \ {"Call"}
            \/ state'[d] = st[d]
<1>1. CASE SendDirect(d, call, st)
  <2>1. \A t \in Slots : held'[t] = IF t = d THEN held[d] \union ({call} \ {0}) ELSE held[t]
    BY <1>1 DEF SendDirect, Learn, TypeOK
  <2>2. mailbox' = mailbox /\ state' = [st EXCEPT ![d] = "Runnable"] /\ state[d] = "Recv"
    BY <1>1 DEF SendDirect
  <2>3. \A t \in Slots : RequestsAt(t)' =
          IF t = d THEN RequestsAt(d) \union ({call} \ {0}) ELSE RequestsAt(t)
    BY <2>1, <2>2 DEF RequestsAt
  <2> QED BY <2>2, <2>3 DEF MailTo, Waits
<1>2. CASE SendQueued(d, call, st)
  <2> DEFINE m == [call |-> call, to |-> gen[d]]
  <2>1. /\ m \in Message /\ m.call = call /\ m.to = gen[d]
        /\ mailbox[d] \in Seq(Message)
    BY DEF Message, TypeOK
  <2>2. /\ held' = held
        /\ mailbox'[d] = Append(mailbox[d], m)
        /\ \A t \in Slots : t # d => mailbox'[t] = mailbox[t]
        /\ state' = [st EXCEPT ![d] = IF state[d] = "NetInput" THEN "Runnable" ELSE st[d]]
        /\ state[d] # "Recv"
    BY <1>2 DEF SendQueued, TypeOK
  <2> HIDE DEF m
  <2>3. \A t \in Slots : t # d => RequestsAt(t)' = RequestsAt(t) /\ MailTo(t)' = MailTo(t)
    BY ZenonT(60), <2>2 DEF RequestsAt, MailTo
  <2>4. /\ {mailbox'[d][i].call : i \in 1 .. Len(mailbox'[d])}
             = {mailbox[d][i].call : i \in 1 .. Len(mailbox[d])} \union {call}
        /\ {mailbox'[d][i].to : i \in 1 .. Len(mailbox'[d])}
             = {mailbox[d][i].to : i \in 1 .. Len(mailbox[d])} \union {gen[d]}
    BY <2>1, <2>2, QueueOps
  <2>5. RequestsAt(d)' = RequestsAt(d) \union ({call} \ {0})
    BY ZenonT(60), <2>2, <2>4 DEF RequestsAt
  <2>6. MailTo(d)' = MailTo(d) \union {gen[d]}
    BY ZenonT(60), <2>4 DEF MailTo
  <2> QED BY <2>2, <2>3, <2>5, <2>6 DEF Waits
<1> QED BY ZenonT(60), <1>1, <1>2 DEF send_message

\* Taking the oldest message moves its call from the queue to the receiver.
LEMMA RecvEffect ==
  ASSUME TypeOK, NEW s \in Slots, try_recv_message(s)
  PROVE  /\ \A t \in Slots : RequestsAt(t)' = RequestsAt(t) /\ MailTo(t)' \subseteq MailTo(t)
         /\ \A t \in Slots : t # s => mailbox'[t] = mailbox[t]
<1>1. /\ mailbox[s] # <<>> /\ mailbox[s] \in Seq(Message)
      /\ mailbox'[s] = Tail(mailbox[s])
      /\ \A t \in Slots : t # s => mailbox'[t] = mailbox[t]
      /\ held'[s] = held[s] \union ({Head(mailbox[s]).call} \ {0})
      /\ \A t \in Slots : t # s => held'[t] = held[t]
  BY DEF try_recv_message, Learn, TypeOK
<1>2. \A t \in Slots : t # s => RequestsAt(t)' = RequestsAt(t) /\ MailTo(t)' = MailTo(t)
  BY <1>1 DEF RequestsAt, MailTo
<1>3. Head(mailbox[s]) \in Message
  BY <1>1
<1>4. /\ {mailbox[s][i].call : i \in 1 .. Len(mailbox[s])}
           = {mailbox'[s][i].call : i \in 1 .. Len(mailbox'[s])} \union {Head(mailbox[s]).call}
      /\ {mailbox'[s][i].to : i \in 1 .. Len(mailbox'[s])}
           \subseteq {mailbox[s][i].to : i \in 1 .. Len(mailbox[s])}
  BY <1>1, <1>3, QueueOps
<1>5. RequestsAt(s)' = RequestsAt(s)
  BY ZenonT(60), <1>1, <1>4 DEF RequestsAt
<1>6. MailTo(s)' \subseteq MailTo(s)
  BY ZenonT(60), <1>4 DEF MailTo
<1> QED BY <1>1, <1>2, <1>5, <1>6

\* A death leaves no request and no mail at its slot and none elsewhere changes.
LEMMA EndEffect ==
  ASSUME TypeOK, NEW i \in Slots, NEW final \in TaskState, end_task(i, final)
  PROVE  \A t \in Slots : /\ RequestsAt(t)' = IF t = i THEN {} ELSE RequestsAt(t)
                          /\ MailTo(t)' = IF t = i THEN {} ELSE MailTo(t)
                          /\ mailbox'[t] = IF t = i THEN <<>> ELSE mailbox[t]
<1>1. \A t \in Slots : /\ mailbox'[t] = IF t = i THEN <<>> ELSE mailbox[t]
                       /\ held'[t] = IF t = i THEN {} ELSE held[t]
  BY DEF end_task, clear_mailbox, TypeOK
<1>2. 1 .. Len(<<>>) = {}
  OBVIOUS
<1> QED BY <1>1, <1>2 DEF RequestsAt, MailTo

\* Requests are known by number.
LEMMA RequestNumbers == TypeOK => \A t \in Slots : RequestsAt(t) \subseteq Nat
<1> SUFFICES ASSUME TypeOK, NEW t \in Slots PROVE RequestsAt(t) \subseteq Nat
  OBVIOUS
<1>1. held[t] \subseteq Nat /\ mailbox[t] \in Seq(Message)
  BY DEF TypeOK
<1>2. \A j \in 1 .. Len(mailbox[t]) : mailbox[t][j] \in Message
  BY <1>1
<1>3. \A j \in 1 .. Len(mailbox[t]) : mailbox[t][j].call \in Nat
  BY <1>2 DEF Message
<1> QED BY <1>1, <1>3 DEF RequestsAt

\* Requests and mail depend on the mailboxes and handles only.
LEMMA SameMail ==
  ASSUME UNCHANGED <<mailbox, held>>
  PROVE  \A t \in Slots : RequestsAt(t)' = RequestsAt(t) /\ MailTo(t)' = MailTo(t)
BY DEF RequestsAt, MailTo

----------------------------------------------------------------------------
\* A death keeps the invariant, whatever state the slot is left in: its
\* callers are all released and nothing of it stays at the slot.
LEMMA EndKeeps ==
  ASSUME TypeOK, IpcInv, NEW i \in Slots, NEW final \in {"Runnable", "Unused", "Zombie"},
         end_task(i, final), \A t \in Slots : t # i => gen'[t] = gen[t]
  PROVE  IpcInv'
<1>1. \A t \in Slots :
        /\ state'[t] = IF t = i THEN final
                       ELSE IF state[t] = "Call" /\ on[t] = i THEN "Runnable" ELSE state[t]
        /\ on'[t] = IF t = i \/ (state[t] = "Call" /\ on[t] = i) THEN NoTask ELSE on[t]
        /\ currentCall'[t] = IF t = i \/ (state[t] = "Call" /\ on[t] = i) THEN 0 ELSE currentCall[t]
        /\ answer'[t] = IF t = i THEN 0 ELSE answer[t]
        /\ want'[t] = IF t = i THEN 0 ELSE want[t]
        /\ nextCall' = nextCall
  BY DEF end_task, CallersOf, TypeOK
<1>2. \A t \in Slots : /\ RequestsAt(t)' = IF t = i THEN {} ELSE RequestsAt(t)
                       /\ MailTo(t)' = IF t = i THEN {} ELSE MailTo(t)
                       /\ mailbox'[t] = IF t = i THEN <<>> ELSE mailbox[t]
  BY States, EndEffect
<1>3. CallNumbersIssued'
  BY ZenonT(60), <1>1, <1>2 DEF IpcInv, CallNumbersIssued, TypeOK
<1>4. CallNumberWhileCalling'
  BY ZenonT(60), <1>1 DEF IpcInv, CallNumberWhileCalling
<1>5. CallIsAtItsServer'
  <2> SUFFICES ASSUME NEW t \in Slots, state'[t] = "Call"
               PROVE  \E s \in Slots : on'[t] = s /\ Occupied(s)' /\ currentCall'[t] \in RequestsAt(s)'
    BY DEF CallIsAtItsServer
  <2>1. t # i /\ state[t] = "Call" /\ on[t] # i
    BY <1>1
  <2>2. PICK s \in Slots : on[t] = s /\ Occupied(s) /\ currentCall[t] \in RequestsAt(s)
    BY <2>1 DEF IpcInv, CallIsAtItsServer
  <2>3. Occupied(s)'
    BY <1>1, <2>1, <2>2 DEF Occupied, Live
  <2> QED BY ZenonT(60), <1>1, <1>2, <2>1, <2>2, <2>3
<1>6. AnswerIsToItsCall'
  BY <1>1 DEF IpcInv, AnswerIsToItsCall
<1>7. LiveCallOnlyAtItsServer'
  <2> SUFFICES ASSUME NEW s \in Slots, NEW t \in Slots, currentCall'[t] \in RequestsAt(s)'
               PROVE  state'[t] = "Call" /\ on'[t] = s
    BY DEF LiveCallOnlyAtItsServer
  <2>1. s # i /\ currentCall'[t] \in RequestsAt(s)
    BY <1>2
  <2>2. currentCall'[t] # 0
    BY <2>1 DEF IpcInv, CallNumbersIssued
  <2> QED BY ZenonT(60), <1>1, <2>1, <2>2 DEF IpcInv, LiveCallOnlyAtItsServer
<1>8. MailForThisOccupant'
  BY <1>1, <1>2 DEF IpcInv, MailForThisOccupant, Occupied, Live
<1>9. RecvNeverSleepsOnMail'
  BY <1>1, <1>2 DEF IpcInv, RecvNeverSleepsOnMail
<1> QED BY <1>3, <1>4, <1>5, <1>6, <1>7, <1>8, <1>9 DEF IpcInv

\* Task t goes on with the call it is in, or is in none; it is not ended, and
\* it goes to sleep beside no mail.
Calm(t) ==
  /\ \/ /\ state[t] = "Call" /\ state'[t] = "Call"
        /\ on'[t] = on[t] /\ currentCall'[t] = currentCall[t] /\ want'[t] = want[t]
     \/ /\ state'[t] # "Call"
        /\ \/ currentCall'[t] = 0
           \/ state[t] # "Call" /\ currentCall'[t] = currentCall[t]
  /\ Occupied(t) => Occupied(t)' /\ gen'[t] = gen[t]
  /\ state'[t] = "Recv" => mailbox'[t] = <<>>
  /\ answer'[t] # 0 => answer'[t] = want'[t]

\* No request moves, and mail is added for the present occupant only.
SameRequests(t) ==
  /\ RequestsAt(t)' = RequestsAt(t)
  /\ \A g \in MailTo(t)' : g \in MailTo(t) \/ (Occupied(t) /\ g = gen[t])

\* A step that starts no call, ends no task and moves no request keeps the
\* invariant.
LEMMA QuietKeeps ==
  ASSUME TypeOK, IpcInv, nextCall' \in Nat, nextCall' >= nextCall,
         \A t \in Slots : Calm(t) /\ SameRequests(t)
  PROVE  IpcInv'
<1>1. \A t \in Slots :
        \/ /\ state[t] = "Call" /\ state'[t] = "Call"
           /\ on'[t] = on[t] /\ currentCall'[t] = currentCall[t] /\ want'[t] = want[t]
        \/ state'[t] # "Call" /\ currentCall'[t] = 0
  BY DEF IpcInv, CallNumberWhileCalling, Calm
<1>2. CallNumbersIssued'
  <2>1. nextCall \in Nat /\ nextCall > 0 /\ nextCall' > 0
    BY DEF IpcInv, CallNumbersIssued, TypeOK
  <2>2. ASSUME NEW t \in Slots PROVE currentCall'[t] < nextCall'
    <3>1. currentCall[t] \in Nat /\ currentCall[t] < nextCall
      BY DEF IpcInv, CallNumbersIssued, TypeOK
    <3>2. currentCall'[t] = currentCall[t] \/ currentCall'[t] = 0
      BY <1>1
    <3> QED BY <2>1, <3>1, <3>2
  <2>3. ASSUME NEW t \in Slots, NEW n \in RequestsAt(t)' PROVE 0 < n /\ n < nextCall'
    <3>1. n \in RequestsAt(t)
      BY <2>3 DEF SameRequests
    <3>2. n \in Nat
      BY <3>1, RequestNumbers
    <3>3. 0 < n /\ n < nextCall
      BY <3>1 DEF IpcInv, CallNumbersIssued
    <3> QED BY <2>1, <3>2, <3>3
  <2> QED BY <2>1, <2>2, <2>3 DEF CallNumbersIssued
<1>3. CallNumberWhileCalling'
  BY <1>1 DEF IpcInv, CallNumberWhileCalling
<1>4. CallIsAtItsServer'
  <2> SUFFICES ASSUME NEW t \in Slots, state'[t] = "Call"
               PROVE  \E s \in Slots : on'[t] = s /\ Occupied(s)' /\ currentCall'[t] \in RequestsAt(s)'
    BY DEF CallIsAtItsServer
  <2>1. state[t] = "Call" /\ on'[t] = on[t] /\ currentCall'[t] = currentCall[t]
    BY <1>1
  <2>2. PICK s \in Slots : on[t] = s /\ Occupied(s) /\ currentCall[t] \in RequestsAt(s)
    BY <2>1 DEF IpcInv, CallIsAtItsServer
  <2> QED BY <2>1, <2>2 DEF Calm, SameRequests
<1>5. AnswerIsToItsCall'
  BY DEF AnswerIsToItsCall, Calm
<1>6. LiveCallOnlyAtItsServer'
  <2> SUFFICES ASSUME NEW s \in Slots, NEW t \in Slots, currentCall'[t] \in RequestsAt(s)'
               PROVE  state'[t] = "Call" /\ on'[t] = s
    BY DEF LiveCallOnlyAtItsServer
  <2>1. currentCall'[t] \in RequestsAt(s)
    BY DEF SameRequests
  <2>2. currentCall'[t] # 0
    BY <2>1 DEF IpcInv, CallNumbersIssued
  <2> QED BY <1>1, <2>1, <2>2 DEF IpcInv, LiveCallOnlyAtItsServer
<1>7. MailForThisOccupant'
  BY DEF IpcInv, MailForThisOccupant, Calm, SameRequests
<1>8. RecvNeverSleepsOnMail'
  BY DEF RecvNeverSleepsOnMail, Calm
<1> QED BY <1>2, <1>3, <1>4, <1>5, <1>6, <1>7, <1>8 DEF IpcInv

\* A call keeps it too: its number is fresh, so nobody but the server it is
\* delivered to can know it.
LEMMA CallKeeps ==
  ASSUME TypeOK, IpcInv, NEW s \in Slots, NEW d \in Slots, MsgCall(s, d)
  PROVE  IpcInv'
<1> DEFINE st == [state EXCEPT ![s] = "Call"]
<1>1. /\ st \in [Slots -> TaskState] /\ nextCall \in Nat /\ nextCall > 0
      /\ send_message(d, nextCall, st)
  BY States DEF MsgCall, TypeOK, IpcInv, CallNumbersIssued
<1>2. /\ st[s] = "Call" /\ s # d /\ state[s] = "Runnable" /\ Occupied(d)
      /\ \A t \in Slots : t # s => st[t] = state[t]
      /\ \A t \in Slots : on'[t] = IF t = s THEN d ELSE on[t]
      /\ \A t \in Slots : currentCall'[t] = IF t = s THEN nextCall ELSE currentCall[t]
      /\ \A t \in Slots : want'[t] = IF t = s THEN nextCall ELSE want[t]
      /\ \A t \in Slots : answer'[t] = IF t = s THEN 0 ELSE answer[t]
      /\ gen' = gen
      /\ nextCall' = nextCall + 1
  BY DEF MsgCall, Running, TypeOK
<1> HIDE DEF st
<1>3. /\ \A t \in Slots : RequestsAt(t)' =
           IF t = d THEN RequestsAt(d) \union ({nextCall} \ {0}) ELSE RequestsAt(t)
      /\ \A t \in Slots : \A g \in MailTo(t)' : g \in MailTo(t) \/ (t = d /\ g = gen[d])
      /\ \A t \in Slots : t # d => state'[t] = st[t] /\ mailbox'[t] = mailbox[t]
      /\ state'[d] = "Recv" => st[d] = "Recv" /\ state[d] # "Recv"
      /\ \/ state'[d] = "Runnable" /\ state[d] \in Waits \ {"Call"}
         \/ state'[d] = st[d]
  BY <1>1, SendEffect
<1>4. /\ \A t \in Slots : RequestsAt(t) \subseteq RequestsAt(t)'
      /\ nextCall \in RequestsAt(d)'
      /\ \A t \in Slots : \A n \in RequestsAt(t)' :
           n \in RequestsAt(t) \/ (t = d /\ n = nextCall)
  BY <1>1, <1>3
<1>5. /\ state'[s] = "Call"
      /\ \A t \in Slots \ {s, d} : state'[t] = state[t]
      /\ \/ state'[d] = "Runnable" /\ state[d] \in Waits \ {"Call"}
         \/ state'[d] = state[d] /\ state[d] # "Recv"
  BY <1>2, <1>3
<1>6. \A t \in Slots : Occupied(t) => Occupied(t)'
  BY <1>2, <1>5 DEF Occupied, Live, Waits
<1>7. \A t \in Slots \ {s} : state'[t] = "Call" <=> state[t] = "Call"
  BY <1>5 DEF Waits
<1>8. \A t \in Slots : \A n \in RequestsAt(t) : n \in Nat /\ 0 < n /\ n < nextCall
  BY RequestNumbers DEF IpcInv, CallNumbersIssued
<1>9. CallNumbersIssued'
  <2>1. \A t \in Slots : currentCall[t] \in Nat /\ currentCall[t] < nextCall
    BY ZenonT(60) DEF TypeOK, IpcInv, CallNumbersIssued
  <2>2. \A t \in Slots : currentCall'[t] < nextCall'
    BY <1>1, <1>2, <2>1
  <2>3. ASSUME NEW t \in Slots, NEW n \in RequestsAt(t)' PROVE 0 < n /\ n < nextCall'
    <3>1. n \in RequestsAt(t) \/ n = nextCall
      BY <1>4, <2>3
    <3>2. n \in Nat /\ 0 < n /\ n <= nextCall
      BY <1>1, <1>8, <3>1
    <3>3. nextCall' = nextCall + 1
      BY <1>2
    <3> QED BY <1>1, <3>2, <3>3
  <2> QED BY <1>1, <1>2, <2>2, <2>3 DEF CallNumbersIssued
<1>10. CallNumberWhileCalling'
  <2> SUFFICES ASSUME NEW t \in Slots
               PROVE  /\ currentCall'[t] # 0 <=> state'[t] = "Call"
                      /\ state'[t] = "Call" => currentCall'[t] = want'[t]
    BY DEF CallNumberWhileCalling
  <2>1. CASE t = s
    BY <1>1, <1>2, <1>5, <2>1
  <2>2. CASE t # s
    BY <1>2, <1>7, <2>2 DEF IpcInv, CallNumberWhileCalling
  <2> QED BY <2>1, <2>2
<1>11. CallIsAtItsServer'
  <2> SUFFICES ASSUME NEW t \in Slots, state'[t] = "Call"
               PROVE  \E x \in Slots : on'[t] = x /\ Occupied(x)' /\ currentCall'[t] \in RequestsAt(x)'
    BY DEF CallIsAtItsServer
  <2>1. CASE t = s
    BY <1>2, <1>4, <1>6, <2>1
  <2>2. CASE t # s
    <3>1. state[t] = "Call" /\ on'[t] = on[t] /\ currentCall'[t] = currentCall[t]
      BY <1>2, <1>7, <2>2
    <3>2. PICK x \in Slots : on[t] = x /\ Occupied(x) /\ currentCall[t] \in RequestsAt(x)
      BY <3>1 DEF IpcInv, CallIsAtItsServer
    <3> QED BY <1>4, <1>6, <3>1, <3>2
  <2> QED BY <2>1, <2>2
<1>12. AnswerIsToItsCall'
  BY <1>2 DEF IpcInv, AnswerIsToItsCall
<1>13. LiveCallOnlyAtItsServer'
  <2> SUFFICES ASSUME NEW x \in Slots, NEW t \in Slots, currentCall'[t] \in RequestsAt(x)'
               PROVE  state'[t] = "Call" /\ on'[t] = x
    BY DEF LiveCallOnlyAtItsServer
  <2>1. CASE t = s
    <3>1. nextCall \notin RequestsAt(x)
      BY <1>1, <1>8
    <3> QED BY <1>2, <1>4, <1>5, <2>1, <3>1
  <2>2. CASE t # s
    <3>1. currentCall'[t] = currentCall[t] /\ currentCall[t] < nextCall /\ currentCall[t] \in Nat
      BY ZenonT(60), <1>2, <2>2 DEF IpcInv, CallNumbersIssued, TypeOK
    <3>2. currentCall[t] # nextCall
      BY <1>1, <3>1
    <3>3. currentCall[t] \in RequestsAt(x)
      BY <1>4, <3>1, <3>2
    <3> QED BY <1>2, <1>7, <2>2, <3>3 DEF IpcInv, LiveCallOnlyAtItsServer
  <2> QED BY <2>1, <2>2
<1>14. MailForThisOccupant'
  <2> SUFFICES ASSUME NEW t \in Slots, NEW g \in MailTo(t)'
               PROVE  Occupied(t)' /\ g = gen'[t]
    BY DEF MailForThisOccupant
  <2>1. g \in MailTo(t) \/ (t = d /\ g = gen[d])
    BY <1>3
  <2>2. Occupied(t) /\ g = gen[t]
    BY <1>2, <2>1 DEF IpcInv, MailForThisOccupant
  <2> QED BY <1>2, <1>6, <2>2
<1>15. RecvNeverSleepsOnMail'
  BY ZenonT(60), <1>2, <1>3, <1>5 DEF IpcInv, RecvNeverSleepsOnMail
<1> QED BY <1>9, <1>10, <1>11, <1>12, <1>13, <1>14, <1>15 DEF IpcInv

\* Every step of the kernel keeps the IPC invariant.
LEMMA IpcStep == TypeOK /\ IpcInv /\ [Next]_vars => IpcInv'
<1> SUFFICES ASSUME TypeOK, IpcInv, [Next]_vars PROVE IpcInv'
  OBVIOUS
<1> USE DEF Running, Occupied, Live, Waits
<1>1. \A t \in Slots : answer[t] # 0 => answer[t] = want[t]
  BY DEF IpcInv, AnswerIsToItsCall
<1>2. \A t \in Slots : state[t] = "Recv" => mailbox[t] = <<>>
  BY DEF IpcInv, RecvNeverSleepsOnMail
<1>3. ASSUME NEW d \in Slots, Occupied(d), send_message(d, 0, state),
             UNCHANGED <<on, gen, nextGen, currentCall, nextCall, answer, want, waitGen>>
      PROVE  IpcInv'
  <2>1. /\ \A t \in Slots : RequestsAt(t)' =
             IF t = d THEN RequestsAt(d) \union ({0} \ {0}) ELSE RequestsAt(t)
        /\ \A t \in Slots : \A g \in MailTo(t)' : g \in MailTo(t) \/ (t = d /\ g = gen[d])
        /\ \A t \in Slots : t # d => state'[t] = state[t] /\ mailbox'[t] = mailbox[t]
        /\ state'[d] = "Recv" => state[d] = "Recv" /\ state[d] # "Recv"
        /\ \/ state'[d] = "Runnable" /\ state[d] \in Waits \ {"Call"}
           \/ state'[d] = state[d]
    BY ZenonT(60), <1>3, SendEffect DEF TypeOK
  <2>2. \A t \in Slots : RequestsAt(t)' = RequestsAt(t)
    BY ZenonT(60), <2>1
  <2>3. \A t \in Slots : Occupied(t) => Occupied(t)'
    BY <2>1
  <2>4. \A t \in Slots : SameRequests(t)
    BY <1>3, <2>1, <2>2 DEF SameRequests
  <2>5. \A t \in Slots : /\ state'[t] = "Call" <=> state[t] = "Call"
                         /\ state'[t] = "Recv" => mailbox'[t] = <<>>
    BY <1>2, <2>1
  <2>6. nextCall' \in Nat /\ nextCall' >= nextCall
    BY <1>3 DEF TypeOK
  <2>7. \A t \in Slots : Calm(t)
    BY ZenonT(60), <1>1, <1>3, <2>3, <2>5 DEF Calm
  <2> QED BY <2>4, <2>6, <2>7, QuietKeeps
<1>4. ASSUME NEW s \in Slots, NEW d \in Slots, MsgSend(s, d) PROVE IpcInv'
  BY <1>3, <1>4 DEF MsgSend
<1>5. ASSUME NEW d \in Slots, Ping(d) PROVE IpcInv'
  BY <1>3, <1>5 DEF Ping
<1>6. ASSUME NEW s \in Slots, NEW d \in Slots, MsgCall(s, d) PROVE IpcInv'
  BY <1>6, CallKeeps
<1>7. ASSUME UNCHANGED <<mailbox, held>>, nextCall' \in Nat, nextCall' >= nextCall,
             \A t \in Slots : Calm(t)
      PROVE  IpcInv'
  <2>1. \A t \in Slots : SameRequests(t)
    BY <1>7, SameMail DEF SameRequests
  <2> QED BY <1>7, <2>1, QuietKeeps
<1>8. nextCall \in Nat /\ nextCall >= nextCall /\ nextCall + 1 \in Nat /\ nextCall + 1 >= nextCall
  BY DEF TypeOK
<1>9. ASSUME NEW s \in Slots, NEW d \in Slots, MsgCallFull(s, d) PROVE IpcInv'
  <2>1. \A t \in Slots : currentCall'[t] = IF t = s THEN 0 ELSE currentCall[t]
    BY <1>9 DEF MsgCallFull, end_call, TypeOK
  <2>2. /\ state' = state /\ state[s] = "Runnable" /\ on' = on /\ gen' = gen
        /\ mailbox' = mailbox /\ answer' = answer /\ want' = want
    BY <1>9 DEF MsgCallFull
  <2>3. \A t \in Slots : Calm(t)
    BY ZenonT(60), <1>1, <1>2, <2>1, <2>2 DEF Calm
  <2> QED BY <1>7, <1>8, <1>9, <2>3 DEF MsgCallFull
<1>10. ASSUME NEW s \in Slots, MsgRecvQueued(s) PROVE IpcInv'
  <2>1. /\ \A t \in Slots : RequestsAt(t)' = RequestsAt(t) /\ MailTo(t)' \subseteq MailTo(t)
        /\ \A t \in Slots : t # s => mailbox'[t] = mailbox[t]
    BY <1>10, RecvEffect DEF MsgRecvQueued
  <2>2. \A t \in Slots : Calm(t)
    BY ZenonT(60), <1>1, <1>2, <1>10, <2>1 DEF Calm, MsgRecvQueued, TypeOK
  <2>3. nextCall' = nextCall
    BY <1>10 DEF MsgRecvQueued
  <2>4. \A t \in Slots : SameRequests(t)
    BY <2>1 DEF SameRequests
  <2> QED BY <1>8, <2>2, <2>3, <2>4, QuietKeeps
<1>11. ASSUME NEW s \in Slots, MsgRecvBlock(s) PROVE IpcInv'
  <2>1. \A t \in Slots : Calm(t)
    BY ZenonT(60), <1>1, <1>2, <1>11 DEF Calm, MsgRecvBlock, TypeOK
  <2> QED BY <1>7, <1>8, <1>11, <2>1 DEF MsgRecvBlock
<1>12. ASSUME NEW s \in Slots, NEW n \in held[s], MsgReply(s, n) PROVE IpcInv'
  <2>1. PICK t \in Slots :
          /\ currentCall[t] = n /\ state[t] = "Call"
          /\ answer' = [answer EXCEPT ![t] = n]
          /\ currentCall' = [currentCall EXCEPT ![t] = 0]
          /\ state' = [state EXCEPT ![t] = "Runnable"]
          /\ on' = [on EXCEPT ![t] = NoTask]
    BY ZenonT(60), <1>12 DEF MsgReply, reply_target, end_call
  <2>2. want[t] = n
    BY <2>1 DEF IpcInv, CallNumberWhileCalling
  <2>3. \A x \in Slots :
          /\ state'[x] = IF x = t THEN "Runnable" ELSE state[x]
          /\ on'[x] = IF x = t THEN NoTask ELSE on[x]
          /\ currentCall'[x] = IF x = t THEN 0 ELSE currentCall[x]
          /\ answer'[x] = IF x = t THEN n ELSE answer[x]
    BY ZenonT(60), <2>1 DEF TypeOK
  <2>4. want' = want /\ gen' = gen /\ mailbox' = mailbox
    BY <1>12 DEF MsgReply
  <2>5. \A x \in Slots : Calm(x)
    BY <1>1, <1>2, <2>1, <2>2, <2>3, <2>4 DEF Calm
  <2> QED BY ZenonT(60), <1>7, <1>8, <1>12, <2>5 DEF MsgReply
<1>13. ASSUME NEW s \in Slots, NetWait(s) PROVE IpcInv'
  <2>1. \A t \in Slots : Calm(t)
    BY ZenonT(60), <1>1, <1>2, <1>13 DEF Calm, NetWait, TypeOK
  <2> QED BY <1>7, <1>8, <1>13, <2>1 DEF NetWait
<1>14. ASSUME NEW s \in Slots, NetWake(s) PROVE IpcInv'
  <2>1. \A t \in Slots : Calm(t)
    BY ZenonT(60), <1>1, <1>2, <1>14 DEF Calm, NetWake, TypeOK
  <2> QED BY <1>7, <1>8, <1>14, <2>1 DEF NetWake
<1>15. ASSUME NEW s \in Slots, NEW t \in Slots, WaitReap(s, t) PROVE IpcInv'
  <2>1. \A x \in Slots : Calm(x)
    BY ZenonT(60), <1>1, <1>2, <1>15 DEF Calm, WaitReap, TypeOK
  <2> QED BY <1>7, <1>8, <1>15, <2>1 DEF WaitReap
<1>16. ASSUME NEW s \in Slots, NEW t \in Slots, WaitBlock(s, t) PROVE IpcInv'
  <2>1. \A x \in Slots : Calm(x)
    BY ZenonT(60), <1>1, <1>2, <1>16 DEF Calm, WaitBlock, TypeOK
  <2> QED BY <1>7, <1>8, <1>16, <2>1 DEF WaitBlock
<1>17. ASSUME NEW s \in Slots, WakeWaiter(s) PROVE IpcInv'
  <2>1. \A x \in Slots : Calm(x)
    BY ZenonT(60), <1>1, <1>2, <1>17 DEF Calm, WakeWaiter, TypeOK
  <2> QED BY <1>7, <1>8, <1>17, <2>1 DEF WakeWaiter
<1>18. ASSUME NEW s \in Slots, Interrupt(s) PROVE IpcInv'
  <2>1. \A x \in Slots : Calm(x)
    BY ZenonT(60), <1>1, <1>2, <1>18 DEF Calm, Interrupt, end_call, TypeOK
  <2> QED BY <1>7, <1>8, <1>18, <2>1 DEF Interrupt
<1>19. ASSUME NEW s \in Slots, Exit(s) PROVE IpcInv'
  BY <1>19, EndKeeps DEF Exit
<1>20. ASSUME NEW s \in Slots, NEW t \in Slots, Kill(s, t) PROVE IpcInv'
  BY <1>20, EndKeeps DEF Kill
<1>21. ASSUME NEW t \in Slots, Die(t) PROVE IpcInv'
  BY <1>21, EndKeeps DEF Die
<1>22. ASSUME NEW s \in Slots, Restart(s) PROVE IpcInv'
  <2>1. \A t \in Slots : t # s => gen'[t] = gen[t]
    BY <1>22 DEF Restart, TypeOK
  <2> QED BY <1>22, <2>1, EndKeeps DEF Restart
<1>23. ASSUME NEW s \in Slots, GiveUp(s) PROVE IpcInv'
  BY <1>23, EndKeeps DEF GiveUp
<1>24. ASSUME NEW s \in Slots, NEW i \in Slots, Spawn(s, i) PROVE IpcInv'
  <2>1. \A x \in Slots : Calm(x)
    BY ZenonT(60), <1>1, <1>2, <1>24 DEF Calm, Spawn, TypeOK
  <2> QED BY <1>7, <1>8, <1>24, <2>1 DEF Spawn
<1>25. CASE UNCHANGED vars
  <2>1. \A x \in Slots : Calm(x)
    BY <1>1, <1>2, <1>25 DEF Calm, vars, TypeOK
  <2> QED BY <1>7, <1>8, <1>25, <2>1 DEF vars
<1> QED
  BY ZenonT(60), <1>4, <1>5, <1>6, <1>9, <1>10, <1>11, <1>12, <1>13, <1>14, <1>15, <1>16, <1>17,
     <1>18, <1>19, <1>20, <1>21, <1>22, <1>23, <1>24, <1>25 DEF Next

\* The kernel starts with no call in progress and no mail.
LEMMA IpcInit == Init => IpcInv
<1> SUFFICES ASSUME Init PROVE IpcInv
  OBVIOUS
<1>1. \A t \in Slots : /\ state[t] \in {"Runnable", "Unused"} /\ mailbox[t] = <<>>
                       /\ held[t] = {} /\ currentCall[t] = 0 /\ answer[t] = 0
  BY DEF Init
<1>2. 1 .. Len(<<>>) = {} /\ nextCall = 1
  BY DEF Init
<1>3. \A t \in Slots : RequestsAt(t) = {} /\ MailTo(t) = {}
  BY <1>1, <1>2 DEF RequestsAt, MailTo
<1>4. CallNumbersIssued
  BY <1>1, <1>2, <1>3 DEF CallNumbersIssued
<1>5. CallNumberWhileCalling /\ CallIsAtItsServer
  BY <1>1 DEF CallNumberWhileCalling, CallIsAtItsServer
<1>6. LiveCallOnlyAtItsServer /\ MailForThisOccupant
  BY <1>3 DEF LiveCallOnlyAtItsServer, MailForThisOccupant
<1>7. AnswerIsToItsCall /\ RecvNeverSleepsOnMail
  BY <1>1 DEF AnswerIsToItsCall, RecvNeverSleepsOnMail
<1> QED BY <1>4, <1>5, <1>6, <1>7 DEF IpcInv

\* In every reachable state, for any number of slots, servers and mailbox
\* depth: no caller is left waiting on a request that is gone, no reply
\* completes another call, no handle of a live call is held outside its
\* server, no mail outlives its addressee and no receiver sleeps beside mail.
THEOREM IpcSafety == Spec => []IpcInv
<1>1. TypeOK /\ IpcInv /\ [Next]_vars => IpcInv'
  BY IpcStep
<1> QED BY <1>1, Typing, IpcInit, PTL DEF Spec

\* The same, for the calls themselves.
THEOREM CallsAreServed == Spec => []CallIsAtItsServer
<1>1. IpcInv => CallIsAtItsServer
  BY DEF IpcInv
<1> QED BY <1>1, IpcSafety, PTL

\* And for what a completed call returns.
THEOREM AnswersMatch == Spec => []AnswerIsToItsCall
<1>1. IpcInv => AnswerIsToItsCall
  BY DEF IpcInv
<1> QED BY <1>1, IpcSafety, PTL

\* Mail never outlives the task it was sent to.
THEOREM MailStays == Spec => []MailForThisOccupant
<1>1. IpcInv => MailForThisOccupant
  BY DEF IpcInv
<1> QED BY <1>1, IpcSafety, PTL

\* No wake-up is lost between a send and a receive.
THEOREM ReceiversAreWoken == Spec => []RecvNeverSleepsOnMail
<1>1. IpcInv => RecvNeverSleepsOnMail
  BY DEF IpcInv
<1> QED BY <1>1, IpcSafety, PTL

----------------------------------------------------------------------------
\* Clearing one entry of a table, entry by entry.
LEMMA SetToZero ==
  ASSUME NEW f \in [Slots -> Nat], NEW g, NEW i \in Slots, g = [f EXCEPT ![i] = 0]
  PROVE  g = [t \in Slots |-> IF t \in {i} THEN 0 ELSE f[t]]
<1>1. g = [t \in Slots |-> IF t = i THEN 0 ELSE f[t]]
  BY ZenonT(60)
<1>2. \A t \in Slots : t = i <=> t \in {i}
  OBVIOUS
<1> QED BY <1>1, <1>2

\* A death, and every wait cut short, ends calls the way SyncCall allows: the
\* callers of the dead task with no answer, its own call with it.
LEMMA EndIsEnded ==
  ASSUME TypeOK, IpcInv, NEW i \in Slots, NEW final \in TaskState, end_task(i, final)
  PROVE  Promise!Ended(CallersOf(i), {i})
<1>1. \A t \in CallersOf(i) : currentCall[t] # 0
  BY DEF CallersOf, IpcInv, CallNumberWhileCalling
<1>2. currentCall' = [t \in Slots |-> IF t \in CallersOf(i) \union {i} THEN 0 ELSE currentCall[t]]
  BY DEF end_task
<1>3. answer' = [t \in Slots |-> IF t \in {i} THEN 0 ELSE answer[t]]
  <2>1. answer \in [Slots -> Nat]
    BY DEF TypeOK
  <2>2. answer' = [answer EXCEPT ![i] = 0]
    BY DEF end_task
  <2> QED BY ZenonT(60), <2>1, <2>2, SetToZero
<1>4. nextCall' = nextCall
  BY DEF end_task
<1> QED BY <1>1, <1>2, <1>3, <1>4 DEF Promise!Ended

\* Each step of the kernel is a step of SyncCall or leaves its variables alone.
LEMMA PromiseStep == TypeOK /\ IpcInv /\ [Next]_vars => [Promise!Next]_Promise!vars
<1> SUFFICES ASSUME TypeOK, IpcInv, [Next]_vars PROVE [Promise!Next]_Promise!vars
  OBVIOUS
<1> DEFINE Quiet == UNCHANGED <<nextCall, currentCall, answer>>
<1>q. Quiet => UNCHANGED Promise!vars
  BY DEF Promise!vars
<1>n. nextCall \in Nat /\ nextCall > 0
  BY DEF TypeOK, IpcInv, CallNumbersIssued
<1>e. ASSUME NEW i \in Slots, NEW final \in TaskState, end_task(i, final)
      PROVE  Promise!Next
  <2>1. Promise!Ended(CallersOf(i), {i})
    BY <1>e, EndIsEnded
  <2>2. CallersOf(i) \in SUBSET Slots /\ {i} \in SUBSET Slots
    BY DEF CallersOf
  <2> QED BY <2>1, <2>2 DEF Promise!Next
<1>1. CASE \E s, d \in Slots : MsgSend(s, d)
  BY <1>1, <1>q DEF MsgSend
<1>2. CASE \E s, d \in Slots : MsgCall(s, d)
  <2> PICK s \in Slots, d \in Slots : MsgCall(s, d)
    BY <1>2
  <2>1. currentCall[s] = 0
    <3>1. state[s] = "Runnable"
      BY DEF MsgCall, Running
    <3> QED BY <3>1 DEF IpcInv, CallNumberWhileCalling
  <2>2. nextCall' - 1 = (nextCall - 1) + 1 /\ nextCall = (nextCall - 1) + 1
    BY <1>n DEF MsgCall
  <2>3. /\ currentCall' = [currentCall EXCEPT ![s] = (nextCall - 1) + 1]
        /\ answer' = [answer EXCEPT ![s] = 0]
    BY ZenonT(60), <2>2 DEF MsgCall
  <2>4. Promise!Call(s)
    BY <2>1, <2>2, <2>3 DEF Promise!Call
  <2> QED BY <2>4 DEF Promise!Next
<1>3. CASE \E s, d \in Slots : MsgCallFull(s, d)
  <2> PICK s \in Slots, d \in Slots : MsgCallFull(s, d)
    BY <1>3
  <2>1. currentCall[s] = 0
    <3>1. state[s] = "Runnable"
      BY DEF MsgCallFull, Running
    <3> QED BY <3>1 DEF IpcInv, CallNumberWhileCalling
  <2>2. currentCall' = currentCall
    BY <2>1 DEF MsgCallFull, end_call, TypeOK
  <2>3. nextCall' - 1 = (nextCall - 1) + 1
    BY <1>n DEF MsgCallFull
  <2>4. Promise!Refused
    BY <2>2, <2>3 DEF MsgCallFull, Promise!Refused
  <2> QED BY <2>4 DEF Promise!Next
<1>4. CASE \E s \in Slots : MsgRecvQueued(s)
  BY <1>4, <1>q DEF MsgRecvQueued
<1>5. CASE \E s \in Slots : MsgRecvBlock(s)
  BY <1>5, <1>q DEF MsgRecvBlock
<1>6. CASE \E s \in Slots : \E n \in held[s] : MsgReply(s, n)
  <2> PICK s \in Slots : \E n \in held[s] : MsgReply(s, n)
    BY <1>6
  <2> PICK n \in held[s] : MsgReply(s, n)
    OBVIOUS
  <2> PICK t \in Slots : /\ reply_target(s, n, t)
                          /\ answer' = [answer EXCEPT ![t] = n]
                          /\ currentCall' = end_call(t)
    BY ZenonT(60) DEF MsgReply
  <2>1. currentCall[t] = n /\ currentCall[t] # 0
    BY DEF reply_target, IpcInv, CallNumberWhileCalling
  <2>2. nextCall' = nextCall
    BY ZenonT(60) DEF MsgReply
  <2>3. Promise!Answered(t)
    BY <2>1, <2>2 DEF Promise!Answered, end_call
  <2> QED BY ZenonT(60), <2>3 DEF Promise!Next
<1>7. CASE \E s \in Slots : NetWait(s) \/ NetWake(s) \/ Ping(s)
  BY <1>7, <1>q DEF NetWait, NetWake, Ping
<1>8. CASE \E s, t \in Slots : WaitReap(s, t) \/ WaitBlock(s, t)
  BY <1>8, <1>q DEF WaitReap, WaitBlock
<1>9. CASE \E s \in Slots : WakeWaiter(s)
  BY <1>9, <1>q DEF WakeWaiter
<1>10. CASE \E s \in Slots : Interrupt(s)
  <2> PICK s \in Slots : Interrupt(s)
    BY <1>10
  <2> DEFINE failed == IF currentCall[s] # 0 THEN {s} ELSE {}
  <2>1. currentCall' = [t \in Slots |-> IF t \in failed \union {} THEN 0 ELSE currentCall[t]]
    <3>1. currentCall \in [Slots -> Nat]
      BY DEF TypeOK
    <3>2. currentCall' = [currentCall EXCEPT ![s] = 0]
      BY DEF Interrupt, end_call
    <3>3. currentCall' = [t \in Slots |-> IF t \in {s} THEN 0 ELSE currentCall[t]]
      BY ZenonT(60), <3>1, <3>2, SetToZero
    <3> QED BY <3>1, <3>3
  <2>2. answer' = [t \in Slots |-> IF t \in {} THEN 0 ELSE answer[t]]
    BY DEF Interrupt, TypeOK
  <2>3. Promise!Ended(failed, {})
    BY <2>1, <2>2 DEF Promise!Ended, Interrupt
  <2>4. failed \in SUBSET Slots /\ {} \in SUBSET Slots
    OBVIOUS
  <2> QED BY <2>3, <2>4 DEF Promise!Next
<1>11. CASE \E s \in Slots : Exit(s)
  BY <1>11, <1>e DEF Exit, TaskState
<1>12. CASE \E s, t \in Slots : Kill(s, t)
  BY <1>12, <1>e DEF Kill, TaskState
<1>13. CASE \E t \in Slots : Die(t)
  BY <1>13, <1>e DEF Die, TaskState
<1>14. CASE \E s \in Slots : Restart(s)
  BY <1>14, <1>e DEF Restart, TaskState, Live
<1>15. CASE \E s \in Slots : GiveUp(s)
  BY <1>15, <1>e DEF GiveUp, TaskState
<1>16. CASE \E s, i \in Slots : Spawn(s, i)
  BY <1>16, <1>q DEF Spawn
<1>17. CASE UNCHANGED vars
  BY <1>17, <1>q DEF vars
<1> QED
  BY ZenonT(60), <1>1, <1>2, <1>3, <1>4, <1>5, <1>6, <1>7, <1>8, <1>9, <1>10, <1>11, <1>12,
     <1>13, <1>14, <1>15, <1>16, <1>17 DEF Next

\* TaskIpc implements SyncCall: for any number of tasks and servers, any
\* mailbox depth and any order of deaths, restarts, late replies and
\* interrupted waits, a call ends once, with its own answer or with none.
THEOREM CallsImplementPromise == Spec => CallsKeepTheirPromise
<1>1. Init => Promise!Init
  BY DEF Init, Promise!Init
<1> QED
  BY <1>1, PromiseStep, Typing, IpcSafety, PTL DEF Spec, CallsKeepTheirPromise, Promise!Spec
============================================================================
