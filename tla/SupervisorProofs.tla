-------------------------- MODULE SupervisorProofs --------------------------
(***************************************************************************)
(* The safety of the supervisor for any number of servers and any limits.  *)
(* What the detectors promise rests on two facts about pings that the      *)
(* properties do not mention: a server in its receive has nothing queued   *)
(* and nothing in hand, and a ping that was queued is in the mailbox or in *)
(* the server's hand until it is answered.                                 *)
(***************************************************************************)
EXTENDS Supervisor, TLAPS

\* Every leaf is given a minute; nearly all take a second or two.
USE SMTT(60), ZenonT(60)

\* A server in its receive has an empty mailbox and nothing to answer.
ReceiverIsIdle ==
  \A s \in Servers : state[s] = "Recv" => mailbox[s] = << >> /\ serving[s] = Nothing

\* An outstanding ping that was not refused is queued, or being answered.
OnItsWay(s) ==
  serving[s] = PING \/ \E i \in 1 .. Len(mailbox[s]) : mailbox[s][i] = PING
PingIsOnItsWay ==
  \A s \in Servers :
    state[s] # "Unused" /\ ping_outstanding[s] /\ ~refused[s] => OnItsWay(s)

\* A slot is empty only past the cap.
EmptyIsGivenUp == \A s \in Servers : state[s] = "Unused" => restarts[s] > MAX_RESTARTS

\* Nobody is in a call to an empty slot, or to itself.
CalledIsAlive ==
  \A s \in Servers : state[s] = "Call" => on[s] # s /\ state[on[s]] # "Unused"

SupervisorInv ==
  /\ TypeOK
  /\ LiveIsWatched
  /\ ReceiverIsIdle
  /\ PingIsOnItsWay
  /\ EmptyIsGivenUp
  /\ CalledIsAlive

----------------------------------------------------------------------------
\* The messages are pairs, and a ping is not nothing.
LEMMA MessageFacts ==
  /\ PING \in Messages /\ Client \in Messages /\ PING # Nothing
  /\ \A s \in Servers, n \in Nat : CallOf(s, n) \in Messages
BY DEF PING, Client, Nothing, CallOf, Messages

\* A server in its receive holds no ping.
LEMMA IdleHasNoPing ==
  ASSUME ReceiverIsIdle, NEW s \in Servers, state[s] = "Recv"
  PROVE  ~OnItsWay(s)
<1>1. mailbox[s] = << >> /\ serving[s] = Nothing /\ Len(<< >>) = 0
  BY DEF ReceiverIsIdle
<1> QED
  BY <1>1, MessageFacts DEF OnItsWay

\* What send_message does to a receiver that has room.
LEMMA SentEffect ==
  ASSUME SupervisorInv, NEW d \in Servers, NEW m \in Messages, ~Full(d),
         NEW st \in [Servers -> Waits \cup {"Runnable", "Unused"}], st[d] = state[d],
         Sent(d, m, st)
  PROVE  /\ state' = [st EXCEPT ![d] = IF state[d] \in {"Recv", "NetInput"}
                                       THEN "Runnable" ELSE state[d]]
         /\ mailbox' \in [Servers -> Seq(Messages)]
         /\ serving' \in [Servers -> Messages \cup {Nothing}]
         /\ \A s \in Servers : Len(mailbox'[s]) <= MSG_QUEUE_DEPTH
         /\ \A s \in Servers \ {d} : mailbox'[s] = mailbox[s] /\ serving'[s] = serving[s]
         /\ \/ state[d] = "Recv" /\ serving'[d] = m
            \/ /\ state[d] # "Recv" /\ serving'[d] = serving[d]
               /\ Len(mailbox'[d]) = Len(mailbox[d]) + 1
               /\ mailbox'[d][Len(mailbox[d]) + 1] = m
               /\ \A i \in 1 .. Len(mailbox[d]) : mailbox'[d][i] = mailbox[d][i]
<1>t. /\ mailbox \in [Servers -> Seq(Messages)]
      /\ serving \in [Servers -> Messages \cup {Nothing}]
      /\ \A s \in Servers : Len(mailbox[s]) <= MSG_QUEUE_DEPTH
      /\ state \in [Servers -> Waits \cup {"Runnable", "Unused"}]
  BY DEF SupervisorInv, TypeOK
<1>1. CASE state[d] = "Recv"
  BY <1>t, <1>1 DEF Sent
<1>2. CASE state[d] # "Recv"
  <2>1. /\ mailbox' = [mailbox EXCEPT ![d] = Append(mailbox[d], m)]
        /\ state' = [st EXCEPT ![d] = IF st[d] = "NetInput" THEN "Runnable" ELSE st[d]]
        /\ serving' = serving
    BY <1>2 DEF Sent
  <2>2. Len(mailbox[d]) < MSG_QUEUE_DEPTH /\ Len(mailbox[d]) \in Nat
    BY <1>t, <1>2, SupervisorAssumption DEF Full
  <2>3. /\ Append(mailbox[d], m) \in Seq(Messages)
        /\ Len(Append(mailbox[d], m)) = Len(mailbox[d]) + 1
        /\ Append(mailbox[d], m)[Len(mailbox[d]) + 1] = m
        /\ \A i \in 1 .. Len(mailbox[d]) : Append(mailbox[d], m)[i] = mailbox[d][i]
    BY <1>t
  <2> DEFINE A == Append(mailbox[d], m)
  <2> HIDE DEF A
  <2>4. /\ mailbox' = [mailbox EXCEPT ![d] = A]
        /\ A \in Seq(Messages) /\ Len(A) = Len(mailbox[d]) + 1
        /\ A[Len(mailbox[d]) + 1] = m
        /\ \A i \in 1 .. Len(mailbox[d]) : A[i] = mailbox[d][i]
    BY <2>1, <2>3 DEF A
  <2>5. mailbox'[d] = A /\ \A s \in Servers \ {d} : mailbox'[s] = mailbox[s]
    BY <1>t, <2>4
  <2>6. mailbox' \in [Servers -> Seq(Messages)]
    BY <1>t, <2>4
  <2>7. Len(A) <= MSG_QUEUE_DEPTH
    BY <2>2, <2>4, SupervisorAssumption
  <2>8. \A s \in Servers : Len(mailbox'[s]) <= MSG_QUEUE_DEPTH
    BY ZenonT(60), <1>t, <2>5, <2>7
  <2>9. state' = [st EXCEPT ![d] = IF state[d] \in {"Recv", "NetInput"}
                                   THEN "Runnable" ELSE state[d]]
    BY ZenonT(60), <1>2, <2>1
  <2> QED
    BY ZenonT(60), <1>t, <1>2, <2>1, <2>4, <2>5, <2>6, <2>8, <2>9
<1> QED
  BY <1>1, <1>2

\* What taking the first message of a mailbox leaves.
LEMMA TakenEffect ==
  ASSUME SupervisorInv, NEW s \in Servers, mailbox[s] # << >>
  PROVE  /\ Head(mailbox[s]) = mailbox[s][1] /\ Head(mailbox[s]) \in Messages
         /\ Tail(mailbox[s]) \in Seq(Messages)
         /\ Len(mailbox[s]) \in Nat /\ Len(Tail(mailbox[s])) = Len(mailbox[s]) - 1
         /\ \A i \in 2 .. Len(mailbox[s]) : Tail(mailbox[s])[i - 1] = mailbox[s][i]
<1>1. mailbox[s] \in Seq(Messages)
  BY DEF SupervisorInv, TypeOK
<1> QED
  BY <1>1

\* The invariant talks about each server's entry and task, and the send of a
\* message d gets keeps it: used by Request, MSG_CALL and Inject.
LEMMA SendKeeps ==
  ASSUME SupervisorInv, NEW d \in Servers, NEW m \in Messages, ~Full(d),
         state[d] # "Unused",
         NEW st \in [Servers -> Waits \cup {"Runnable", "Unused"}], st[d] = state[d],
         \A s \in Servers : st[s] # state[s] => state[s] = "Runnable" /\ st[s] = "Call",
         Sent(d, m, st)
  PROVE  /\ state' \in [Servers -> Waits \cup {"Runnable", "Unused"}]
         /\ mailbox' \in [Servers -> Seq(Messages)]
         /\ serving' \in [Servers -> Messages \cup {Nothing}]
         /\ \A s \in Servers : Len(mailbox'[s]) <= MSG_QUEUE_DEPTH
         /\ \A s \in Servers : state'[s] = "Unused" <=> state[s] = "Unused"
         /\ \A s \in Servers : state'[s] = "Call" <=> st[s] = "Call"
         /\ ReceiverIsIdle'
         /\ \A s \in Servers : OnItsWay(s) => OnItsWay(s)'
         /\ m = PING => OnItsWay(d)'
<1>1. /\ state' = [st EXCEPT ![d] = IF state[d] \in {"Recv", "NetInput"}
                                    THEN "Runnable" ELSE state[d]]
      /\ mailbox' \in [Servers -> Seq(Messages)]
      /\ serving' \in [Servers -> Messages \cup {Nothing}]
      /\ \A s \in Servers : Len(mailbox'[s]) <= MSG_QUEUE_DEPTH
      /\ \A s \in Servers \ {d} : mailbox'[s] = mailbox[s] /\ serving'[s] = serving[s]
      /\ \/ state[d] = "Recv" /\ serving'[d] = m
         \/ /\ state[d] # "Recv" /\ serving'[d] = serving[d]
            /\ Len(mailbox'[d]) = Len(mailbox[d]) + 1
            /\ mailbox'[d][Len(mailbox[d]) + 1] = m
            /\ \A i \in 1 .. Len(mailbox[d]) : mailbox'[d][i] = mailbox[d][i]
  BY SentEffect
<1>t. /\ state \in [Servers -> Waits \cup {"Runnable", "Unused"}]
      /\ \A s \in Servers : Len(mailbox[s]) \in Nat
      /\ ReceiverIsIdle
  <2>1. TypeOK /\ ReceiverIsIdle
    BY ZenonT(60) DEF SupervisorInv
  <2> QED
    BY <2>1 DEF TypeOK
<1>2. state' \in [Servers -> Waits \cup {"Runnable", "Unused"}]
  BY <1>1, <1>t
<1>3. \A s \in Servers : /\ s # d => state'[s] = st[s]
                         /\ s = d => state'[s] = IF state[d] \in {"Recv", "NetInput"}
                                                 THEN "Runnable" ELSE state[d]
  BY <1>1, <1>t
<1>4. \A s \in Servers : /\ state'[s] = "Unused" <=> state[s] = "Unused"
                         /\ state'[s] = "Call" <=> st[s] = "Call"
                         /\ state'[s] = "Recv" => state[s] = "Recv" /\ s # d
  BY <1>3, <1>t
<1>5. ReceiverIsIdle'
  BY SMTT(60), <1>1, <1>4, <1>t DEF ReceiverIsIdle
<1>6. ASSUME NEW s \in Servers, OnItsWay(s)
      PROVE  OnItsWay(s)'
  <2>1. state[s] # "Recv"
    BY <1>6, <1>t, IdleHasNoPing
  <2>2. CASE s = d
    BY <1>1, <1>6, <1>t, <2>1, <2>2 DEF OnItsWay
  <2>3. CASE s # d
    BY <1>1, <1>6, <2>3 DEF OnItsWay
  <2> QED
    BY <2>2, <2>3
<1>7. m = PING => OnItsWay(d)'
  BY <1>1, <1>t DEF OnItsWay
<1> QED
  BY <1>1, <1>2, <1>4, <1>5, <1>6, <1>7

\* A step that touches one server's counters, and leaves them below their
\* limits, keeps every living server watched.
LEMMA WatchedStays ==
  ASSUME LiveIsWatched, NEW s \in Servers,
         \A x \in Servers \ {s} : /\ state'[x] # "Unused" => state[x] # "Unused"
                                  /\ runnable_ticks'[x] = runnable_ticks[x]
                                  /\ ping_wait'[x] = ping_wait[x]
                                  /\ idle_ticks'[x] = idle_ticks[x],
         state'[s] # "Unused" => /\ runnable_ticks'[s] < WEDGE_TICKS
                                 /\ ping_wait'[s] < PING_TIMEOUT
                                 /\ idle_ticks'[s] < PING_INTERVAL
  PROVE  LiveIsWatched'
BY DEF LiveIsWatched

\* A step that starts no call and empties no slot keeps every call alive.
LEMMA CallsStayAlive ==
  ASSUME SupervisorInv,
         \A x \in Servers : state'[x] = "Call" => state[x] = "Call" /\ on'[x] = on[x],
         \A x \in Servers : state'[x] = "Unused" => state[x] = "Unused"
  PROVE  CalledIsAlive'
<1>1. ASSUME NEW x \in Servers, state'[x] = "Call"
      PROVE  on'[x] # x /\ state'[on'[x]] # "Unused"
  <2>1. state[x] = "Call" /\ on'[x] = on[x]
    BY <1>1
  <2>2. on[x] \in Servers /\ on[x] # x /\ state[on[x]] # "Unused"
    BY <2>1 DEF SupervisorInv, TypeOK, CalledIsAlive
  <2> QED
    BY <2>1, <2>2
<1> QED
  BY <1>1 DEF CalledIsAlive

----------------------------------------------------------------------------
\* The servers' system calls.
LEMMA RequestKeeps ==
  ASSUME SupervisorInv, NEW d \in Servers, Request(d)
  PROVE  SupervisorInv'
<1>t. TypeOK
  BY DEF SupervisorInv
<1>1. /\ ~Full(d) /\ state[d] # "Unused" /\ Sent(d, Client, state)
      /\ UNCHANGED <<on, stuck, entry, at>>
  BY DEF Request
<1>2. state \in [Servers -> Waits \cup {"Runnable", "Unused"}]
  BY <1>t DEF TypeOK
<1>3. /\ state' \in [Servers -> Waits \cup {"Runnable", "Unused"}]
      /\ mailbox' \in [Servers -> Seq(Messages)]
      /\ serving' \in [Servers -> Messages \cup {Nothing}]
      /\ \A s \in Servers : Len(mailbox'[s]) <= MSG_QUEUE_DEPTH
      /\ \A s \in Servers : state'[s] = "Unused" <=> state[s] = "Unused"
      /\ \A s \in Servers : state'[s] = "Call" <=> state[s] = "Call"
      /\ ReceiverIsIdle'
      /\ \A s \in Servers : OnItsWay(s) => OnItsWay(s)'
  BY <1>1, <1>2, SendKeeps, MessageFacts
<1>4. TypeOK'
  BY ZenonT(60), <1>1, <1>3, <1>t DEF TypeOK, entry
<1>5. LiveIsWatched'
  BY ZenonT(60), <1>1, <1>3 DEF SupervisorInv, LiveIsWatched, entry
<1>6. PingIsOnItsWay'
  BY <1>1, <1>3 DEF SupervisorInv, PingIsOnItsWay, entry
<1>7. EmptyIsGivenUp' /\ CalledIsAlive'
  BY ZenonT(60), <1>1, <1>3, <1>t DEF SupervisorInv, EmptyIsGivenUp, CalledIsAlive, entry, TypeOK
<1> QED
  BY <1>3, <1>4, <1>5, <1>6, <1>7 DEF SupervisorInv

\* MSG_CALL: the request is sent and the caller waits for its server.
LEMMA CallKeeps ==
  ASSUME SupervisorInv, NEW c \in Servers, NEW d \in Servers, MSG_CALL(c, d)
  PROVE  SupervisorInv'
<1> DEFINE st == [state EXCEPT ![c] = "Call"]
<1>t. TypeOK
  BY DEF SupervisorInv
<1>1. /\ state[c] = "Runnable" /\ d # c /\ state[d] # "Unused" /\ ~Full(d)
      /\ Sent(d, CallOf(c, restarts[c]), st)
      /\ on' = [on EXCEPT ![c] = d]
      /\ UNCHANGED <<stuck, entry, at>>
  BY DEF MSG_CALL, Running
<1>2. /\ st \in [Servers -> Waits \cup {"Runnable", "Unused"}] /\ st[d] = state[d]
      /\ \A s \in Servers : /\ st[s] # state[s] => state[s] = "Runnable" /\ st[s] = "Call"
                            /\ st[s] = "Call" => s = c \/ state[s] = "Call"
      /\ CallOf(c, restarts[c]) \in Messages
  BY <1>t, <1>1, MessageFacts DEF TypeOK, Waits
<1> HIDE DEF st
<1>3. /\ state' \in [Servers -> Waits \cup {"Runnable", "Unused"}]
      /\ mailbox' \in [Servers -> Seq(Messages)]
      /\ serving' \in [Servers -> Messages \cup {Nothing}]
      /\ \A s \in Servers : Len(mailbox'[s]) <= MSG_QUEUE_DEPTH
      /\ \A s \in Servers : state'[s] = "Unused" <=> state[s] = "Unused"
      /\ \A s \in Servers : state'[s] = "Call" <=> st[s] = "Call"
      /\ ReceiverIsIdle'
      /\ \A s \in Servers : OnItsWay(s) => OnItsWay(s)'
  BY <1>1, <1>2, SendKeeps
<1>4. TypeOK'
  BY ZenonT(60), <1>1, <1>3, <1>t DEF TypeOK, entry
<1>5. LiveIsWatched'
  BY ZenonT(60), <1>1, <1>3 DEF SupervisorInv, LiveIsWatched, entry
<1>6. PingIsOnItsWay'
  BY <1>1, <1>3 DEF SupervisorInv, PingIsOnItsWay, entry
<1>7. EmptyIsGivenUp'
  BY <1>1, <1>3 DEF SupervisorInv, EmptyIsGivenUp, entry
<1>8. CalledIsAlive'
  <2>1. on \in [Servers -> Servers] /\ CalledIsAlive
    BY <1>t DEF SupervisorInv, TypeOK
  <2>2. \A s \in Servers : on'[s] = IF s = c THEN d ELSE on[s]
    BY <1>1, <2>1
  <2>3. ASSUME NEW s \in Servers, state'[s] = "Call"
        PROVE  on'[s] # s /\ state'[on'[s]] # "Unused"
    <3>1. CASE s = c
      BY <1>1, <1>3, <2>2, <3>1
    <3>2. CASE s # c
      <4>1. state[s] = "Call"
        BY <1>2, <1>3, <2>3, <3>2
      <4>2. on'[s] = on[s] /\ on[s] \in Servers /\ on[s] # s /\ state[on[s]] # "Unused"
        BY <2>1, <2>2, <3>2, <4>1 DEF CalledIsAlive
      <4>3. \A x \in Servers : state'[x] = "Unused" <=> state[x] = "Unused"
        BY <1>3
      <4> QED
        BY <4>2, <4>3
    <3> QED
      BY <3>1, <3>2
  <2> QED
    BY <2>3 DEF CalledIsAlive
<1> QED
  BY <1>3, <1>4, <1>5, <1>6, <1>7, <1>8 DEF SupervisorInv

\* A message taken: the mailbox is one shorter, the message is in hand.
LEMMA TakeKeeps ==
  ASSUME SupervisorInv, NEW s \in Servers, mailbox[s] # << >>, state[s] = "Runnable",
         serving[s] = Nothing,
         serving' = [serving EXCEPT ![s] = Head(mailbox[s])],
         mailbox' = [mailbox EXCEPT ![s] = Tail(mailbox[s])]
  PROVE  /\ serving' \in [Servers -> Messages \cup {Nothing}]
         /\ mailbox' \in [Servers -> Seq(Messages)]
         /\ \A x \in Servers : Len(mailbox'[x]) <= MSG_QUEUE_DEPTH
         /\ \A x \in Servers : OnItsWay(x) => OnItsWay(x)'
         /\ state' = state => ReceiverIsIdle'
<1>t. TypeOK
  BY DEF SupervisorInv
<1>1. /\ Head(mailbox[s]) = mailbox[s][1] /\ Head(mailbox[s]) \in Messages
      /\ Tail(mailbox[s]) \in Seq(Messages)
      /\ Len(mailbox[s]) \in Nat /\ Len(Tail(mailbox[s])) = Len(mailbox[s]) - 1
      /\ \A i \in 2 .. Len(mailbox[s]) : Tail(mailbox[s])[i - 1] = mailbox[s][i]
  BY TakenEffect
<1> DEFINE H == Head(mailbox[s])
           T == Tail(mailbox[s])
<1>2. /\ serving' = [serving EXCEPT ![s] = H] /\ mailbox' = [mailbox EXCEPT ![s] = T]
      /\ H = mailbox[s][1] /\ H \in Messages /\ T \in Seq(Messages)
      /\ Len(mailbox[s]) \in Nat /\ Len(T) = Len(mailbox[s]) - 1
      /\ \A i \in 2 .. Len(mailbox[s]) : T[i - 1] = mailbox[s][i]
  BY <1>1
<1> HIDE DEF H, T
<1>3. /\ serving'[s] = H /\ mailbox'[s] = T
      /\ \A x \in Servers \ {s} : serving'[x] = serving[x] /\ mailbox'[x] = mailbox[x]
      /\ serving' \in [Servers -> Messages \cup {Nothing}]
      /\ mailbox' \in [Servers -> Seq(Messages)]
  <2>1. /\ serving \in [Servers -> Messages \cup {Nothing}]
        /\ mailbox \in [Servers -> Seq(Messages)]
    BY ZenonT(60), <1>t DEF TypeOK
  <2>2. /\ serving' = [serving EXCEPT ![s] = H] /\ H \in Messages
        /\ mailbox' = [mailbox EXCEPT ![s] = T] /\ T \in Seq(Messages)
    BY ZenonT(60), <1>2
  <2> QED
    BY <2>1, <2>2
<1>4. \A x \in Servers : Len(mailbox'[x]) <= MSG_QUEUE_DEPTH
  BY <1>2, <1>3, <1>t, SupervisorAssumption DEF TypeOK
<1>5. ASSUME NEW x \in Servers, OnItsWay(x)
      PROVE  OnItsWay(x)'
  <2>1. CASE x # s
    BY <1>3, <1>5, <2>1 DEF OnItsWay
  <2>2. CASE x = s
    <3>1. PICK i \in 1 .. Len(mailbox[s]) : mailbox[s][i] = PING
      BY <1>5, <2>2, MessageFacts DEF OnItsWay
    <3>2. CASE i = 1
      BY <1>2, <1>3, <2>2, <3>1, <3>2 DEF OnItsWay
    <3>3. CASE i # 1
      <4>1. i - 1 \in 1 .. Len(T) /\ T[i - 1] = PING
        <5>1. mailbox[s] \in Seq(Messages) /\ mailbox[s] # << >> /\ T = Tail(mailbox[s])
          BY ZenonT(60), <1>2, <1>t DEF TypeOK, T
        <5> HIDE DEF T
        <5> QED BY <3>1, <3>3, <5>1
      <4> QED
        BY ZenonT(60), <1>3, <2>2, <4>1 DEF OnItsWay
    <3> QED
      BY <3>2, <3>3
  <2> QED
    BY <2>1, <2>2
<1>6. state' = state => ReceiverIsIdle'
  BY <1>3 DEF SupervisorInv, ReceiverIsIdle
<1> QED
  BY <1>3, <1>4, <1>5, <1>6

\* MSG_RECV: a message is taken, or the server waits with nothing to read.
LEMMA RecvKeeps ==
  ASSUME SupervisorInv, NEW s \in Servers, MSG_RECV(s)
  PROVE  SupervisorInv'
<1>t. TypeOK
  BY DEF SupervisorInv
<1>1. /\ state[s] = "Runnable" /\ serving[s] = Nothing
      /\ runnable_ticks' = [runnable_ticks EXCEPT ![s] = 0]
      /\ UNCHANGED <<on, stuck, restarts, ping_outstanding, ping_wait, idle_ticks, refused, at>>
  BY DEF MSG_RECV, Running, note_progress
<1>2. /\ serving' \in [Servers -> Messages \cup {Nothing}]
      /\ mailbox' \in [Servers -> Seq(Messages)]
      /\ state' \in [Servers -> Waits \cup {"Runnable", "Unused"}]
      /\ \A x \in Servers : Len(mailbox'[x]) <= MSG_QUEUE_DEPTH
      /\ \A x \in Servers : OnItsWay(x) => OnItsWay(x)'
      /\ \A x \in Servers : state'[x] \in {"Unused", "Call"} \/ state[x] \in {"Unused", "Call"}
                            => state'[x] = state[x]
      /\ ReceiverIsIdle'
  <2>1. CASE /\ mailbox[s] # << >>
             /\ serving' = [serving EXCEPT ![s] = Head(mailbox[s])]
             /\ mailbox' = [mailbox EXCEPT ![s] = Tail(mailbox[s])]
             /\ state' = state
    BY ZenonT(60), <1>1, <1>t, <2>1, TakeKeeps DEF TypeOK
  <2>2. CASE /\ mailbox[s] = << >>
             /\ state' = [state EXCEPT ![s] = "Recv"]
             /\ UNCHANGED <<serving, mailbox>>
    <3>1. \A x \in Servers : OnItsWay(x) => OnItsWay(x)'
      BY <2>2 DEF OnItsWay
    <3>2. ReceiverIsIdle'
      BY <1>1, <1>t, <2>2 DEF SupervisorInv, ReceiverIsIdle, TypeOK
    <3> QED
      BY ZenonT(60), <1>1, <1>t, <2>2, <3>1, <3>2 DEF TypeOK, Waits
  <2> QED
    BY <2>1, <2>2 DEF MSG_RECV
<1>r. /\ runnable_ticks' \in [Servers -> 0 .. WEDGE_TICKS + 1]
      /\ \A x \in Servers : runnable_ticks'[x] = IF x = s THEN 0 ELSE runnable_ticks[x]
  BY <1>1, <1>t, SupervisorAssumption DEF TypeOK
<1>3. TypeOK'
  BY ZenonT(60), <1>1, <1>2, <1>r, <1>t DEF TypeOK
<1>4. LiveIsWatched'
  <2>1. \A x \in Servers : state'[x] # "Unused" => state[x] # "Unused"
    BY <1>2
  <2>2. LiveIsWatched /\ 0 < WEDGE_TICKS
    BY SupervisorAssumption DEF SupervisorInv
  <2>3. state[s] # "Unused" => ping_wait[s] < PING_TIMEOUT /\ idle_ticks[s] < PING_INTERVAL
    BY <2>2 DEF LiveIsWatched
  <2> QED
    BY <1>1, <1>r, <2>1, <2>2, <2>3, WatchedStays
<1>5. PingIsOnItsWay'
  BY ZenonT(60), <1>1, <1>2 DEF SupervisorInv, PingIsOnItsWay
<1>6. EmptyIsGivenUp'
  BY ZenonT(60), <1>1, <1>2 DEF SupervisorInv, EmptyIsGivenUp
<1>7. CalledIsAlive'
  BY ZenonT(60), <1>1, <1>2, <1>t DEF SupervisorInv, CalledIsAlive, TypeOK
<1> QED
  BY <1>2, <1>3, <1>4, <1>5, <1>6, <1>7 DEF SupervisorInv

\* MSG_TRY_RECV: a message is taken, or the server goes on without one.
LEMMA TryRecvKeeps ==
  ASSUME SupervisorInv, NEW s \in Servers, MSG_TRY_RECV(s)
  PROVE  SupervisorInv'
<1>t. TypeOK
  BY DEF SupervisorInv
<1>1. /\ state[s] = "Runnable" /\ serving[s] = Nothing /\ mailbox[s] # << >>
      /\ serving' = [serving EXCEPT ![s] = Head(mailbox[s])]
      /\ mailbox' = [mailbox EXCEPT ![s] = Tail(mailbox[s])]
      /\ UNCHANGED <<state, on, stuck, entry, at>>
  BY DEF MSG_TRY_RECV, Running
<1>2. /\ serving' \in [Servers -> Messages \cup {Nothing}]
      /\ mailbox' \in [Servers -> Seq(Messages)]
      /\ \A x \in Servers : Len(mailbox'[x]) <= MSG_QUEUE_DEPTH
      /\ \A x \in Servers : OnItsWay(x) => OnItsWay(x)'
      /\ ReceiverIsIdle'
  BY ZenonT(60), <1>1, TakeKeeps
<1>3. TypeOK'
  BY ZenonT(60), <1>1, <1>2, <1>t DEF TypeOK, entry
<1>4. LiveIsWatched' /\ EmptyIsGivenUp' /\ CalledIsAlive'
  BY SMTT(60), <1>1 DEF SupervisorInv, LiveIsWatched, EmptyIsGivenUp, CalledIsAlive, entry
<1>5. PingIsOnItsWay'
  BY <1>1, <1>2 DEF SupervisorInv, PingIsOnItsWay, entry
<1> QED
  BY <1>2, <1>3, <1>4, <1>5 DEF SupervisorInv

\* A step that only moves servers between running and waiting for the network.
LEMMA QuietKeeps ==
  ASSUME SupervisorInv,
         state' \in [Servers -> Waits \cup {"Runnable", "Unused"}],
         at' \in Servers \cup {NotTicking},
         \A x \in Servers : \A w \in {"Recv", "Call", "Unused"} : state'[x] = w <=> state[x] = w,
         UNCHANGED <<on, mailbox, serving, stuck, entry>>
  PROVE  SupervisorInv'
<1>1. UNCHANGED <<on, mailbox, serving, stuck, restarts, runnable_ticks, ping_outstanding,
                  ping_wait, idle_ticks, refused>>
  BY DEF entry
<1>2. TypeOK'
  BY ZenonT(60), <1>1 DEF SupervisorInv, TypeOK
<1>s. \A x \in Servers : /\ state'[x] = "Recv" => state[x] = "Recv"
                         /\ state'[x] = "Call" => state[x] = "Call"
                         /\ state'[x] = "Unused" <=> state[x] = "Unused"
  OBVIOUS
<1>3. LiveIsWatched'
  BY <1>1, <1>s DEF SupervisorInv, LiveIsWatched
<1>4. ReceiverIsIdle'
  BY <1>1, <1>s DEF SupervisorInv, ReceiverIsIdle
<1>5. EmptyIsGivenUp'
  BY <1>1, <1>s DEF SupervisorInv, EmptyIsGivenUp
<1>6. PingIsOnItsWay'
  <2>1. \A x \in Servers : OnItsWay(x) => OnItsWay(x)'
    BY <1>1 DEF OnItsWay
  <2> SUFFICES ASSUME NEW x \in Servers,
                      state'[x] # "Unused", ping_outstanding'[x], ~refused'[x]
               PROVE  OnItsWay(x)'
    BY DEF PingIsOnItsWay
  <2>2. OnItsWay(x)
    BY <1>1, <1>s DEF SupervisorInv, PingIsOnItsWay
  <2> QED
    BY <2>1, <2>2
<1>7. CalledIsAlive'
  BY <1>1, <1>s, CallsStayAlive
<1> QED
  BY <1>2, <1>3, <1>4, <1>5, <1>6, <1>7 DEF SupervisorInv

\* NET_WAIT and the network interrupt that ends it.
LEMMA NetWaitKeeps ==
  ASSUME SupervisorInv, NEW s \in Servers, NET_WAIT(s) \/ NetInput(s)
  PROVE  SupervisorInv'
<1>t. state \in [Servers -> Waits \cup {"Runnable", "Unused"}] /\ at \in Servers \cup {NotTicking}
  BY DEF SupervisorInv, TypeOK
<1>0. /\ \/ state[s] = "Runnable" /\ state' = [state EXCEPT ![s] = "NetInput"]
         \/ state[s] = "NetInput" /\ state' = [state EXCEPT ![s] = "Runnable"]
      /\ UNCHANGED <<on, mailbox, serving, stuck, entry, at>>
  BY DEF NET_WAIT, NetInput, Running
<1>1. /\ state' \in [Servers -> Waits \cup {"Runnable", "Unused"}]
      /\ \A x \in Servers : \A w \in {"Recv", "Call", "Unused"} : state'[x] = w <=> state[x] = w
  BY <1>0, <1>t DEF Waits
<1>2. UNCHANGED <<on, mailbox, serving, stuck, entry>> /\ at' \in Servers \cup {NotTicking}
  BY <1>0, <1>t
<1> QED
  BY <1>1, <1>2, QuietKeeps

\* Callers that wake, some of them to be answered, some failed.
LEMMA ReplyKeeps ==
  ASSUME SupervisorInv, NEW s \in Servers, MSG_REPLY(s)
  PROVE  SupervisorInv'
<1>t. TypeOK
  BY DEF SupervisorInv
<1>1. /\ state[s] = "Runnable" /\ serving[s] # PING
      /\ serving' = [serving EXCEPT ![s] = Nothing]
      /\ UNCHANGED <<mailbox, stuck, entry, at>>
  BY DEF MSG_REPLY, Running
<1>2. /\ state' \in [Servers -> Waits \cup {"Runnable", "Unused"}]
      /\ on' \in [Servers -> Servers]
      /\ \A x \in Servers : \/ state'[x] = state[x] /\ on'[x] = on[x]
                            \/ state[x] = "Call" /\ state'[x] = "Runnable"
  BY ZenonT(60), <1>t DEF MSG_REPLY, TypeOK
<1>3. /\ serving' \in [Servers -> Messages \cup {Nothing}]
      /\ \A x \in Servers : serving'[x] = IF x = s THEN Nothing ELSE serving[x]
  BY <1>1, <1>t DEF TypeOK
<1>4. TypeOK'
  BY ZenonT(60), <1>1, <1>2, <1>3, <1>t DEF TypeOK, entry
<1>5. LiveIsWatched' /\ ReceiverIsIdle' /\ EmptyIsGivenUp'
  BY <1>1, <1>2, <1>3 DEF SupervisorInv, LiveIsWatched, ReceiverIsIdle, EmptyIsGivenUp, entry
<1>6. PingIsOnItsWay'
  <2>1. \A x \in Servers : OnItsWay(x) => OnItsWay(x)'
    BY <1>1, <1>3 DEF OnItsWay
  <2> QED
    BY <1>1, <1>2, <2>1 DEF SupervisorInv, PingIsOnItsWay, entry
<1>7. CalledIsAlive'
  BY <1>2, CallsStayAlive
<1> QED
  BY <1>4, <1>5, <1>6, <1>7 DEF SupervisorInv

\* The reply to a ping (note_ack): nothing is outstanding any more.
LEMMA AckKeeps ==
  ASSUME SupervisorInv, NEW s \in Servers, Ack(s)
  PROVE  SupervisorInv'
<1>t. TypeOK
  BY DEF SupervisorInv
<1>1. /\ state[s] = "Runnable"
      /\ serving' = [serving EXCEPT ![s] = Nothing] \/ serving' = serving
      /\ UNCHANGED <<state, on, mailbox, stuck, restarts, at>>
  BY DEF Ack, Running
<1>2. /\ ping_outstanding' = [ping_outstanding EXCEPT ![s] = FALSE]
      /\ ping_wait' = [ping_wait EXCEPT ![s] = 0]
      /\ idle_ticks' = [idle_ticks EXCEPT ![s] = 0]
      /\ refused' = [refused EXCEPT ![s] = FALSE]
      /\ runnable_ticks' = [runnable_ticks EXCEPT ![s] = 0]
  BY DEF Ack, note_ack, note_progress
<1>3. /\ serving' \in [Servers -> Messages \cup {Nothing}]
      /\ ping_outstanding' \in [Servers -> BOOLEAN] /\ ~ping_outstanding'[s]
      /\ refused' \in [Servers -> BOOLEAN]
      /\ \A x \in Servers \ {s} : /\ ping_outstanding'[x] = ping_outstanding[x]
                                  /\ refused'[x] = refused[x]
                                  /\ serving'[x] = serving[x]
  BY ZenonT(60), <1>1, <1>2, <1>t DEF TypeOK
<1>0. /\ 0 \in 0 .. PING_TIMEOUT /\ 0 \in 0 .. PING_INTERVAL
      /\ 0 \in 0 .. WEDGE_TICKS + 1
  BY SupervisorAssumption
<1>4. /\ ping_wait' \in [Servers -> 0 .. PING_TIMEOUT] /\ ping_wait'[s] = 0
      /\ idle_ticks' \in [Servers -> 0 .. PING_INTERVAL] /\ idle_ticks'[s] = 0
      /\ runnable_ticks' \in [Servers -> 0 .. WEDGE_TICKS + 1] /\ runnable_ticks'[s] = 0
      /\ \A x \in Servers \ {s} : /\ ping_wait'[x] = ping_wait[x]
                                  /\ idle_ticks'[x] = idle_ticks[x]
                                  /\ runnable_ticks'[x] = runnable_ticks[x]
  BY ZenonT(60), <1>0, <1>2, <1>t DEF TypeOK
<1>5. TypeOK'
  BY ZenonT(60), <1>1, <1>3, <1>4, <1>t DEF TypeOK
<1>6. LiveIsWatched'
  <2>1. LiveIsWatched /\ 0 < WEDGE_TICKS /\ 0 < PING_TIMEOUT /\ 0 < PING_INTERVAL
    BY SupervisorAssumption DEF SupervisorInv
  <2>2. state' = state
    BY <1>1
  <2> QED
    BY <1>4, <2>1, <2>2, WatchedStays
<1>7. ReceiverIsIdle' /\ EmptyIsGivenUp' /\ CalledIsAlive'
  BY ZenonT(60), <1>1, <1>3 DEF SupervisorInv, ReceiverIsIdle, EmptyIsGivenUp, CalledIsAlive
<1>8. PingIsOnItsWay'
  <2>1. \A x \in Servers \ {s} : OnItsWay(x) => OnItsWay(x)'
    BY <1>1, <1>3 DEF OnItsWay
  <2> QED
    BY ZenonT(60), <1>1, <1>3, <2>1 DEF SupervisorInv, PingIsOnItsWay
<1> QED
  BY <1>5, <1>6, <1>7, <1>8 DEF SupervisorInv

\* A server that stops making system calls is still watched.
LEMMA StuckKeeps ==
  ASSUME SupervisorInv, NEW s \in Servers, GetStuck(s)
  PROVE  SupervisorInv'
<1>1. /\ stuck' = [stuck EXCEPT ![s] = TRUE]
      /\ UNCHANGED <<state, on, mailbox, serving, entry, at>>
  BY DEF GetStuck
<1>2. TypeOK'
  BY ZenonT(60), <1>1 DEF SupervisorInv, TypeOK, entry
<1>3. LiveIsWatched' /\ ReceiverIsIdle' /\ EmptyIsGivenUp' /\ CalledIsAlive'
  BY ZenonT(60), <1>1 DEF SupervisorInv, LiveIsWatched, ReceiverIsIdle, EmptyIsGivenUp, CalledIsAlive, entry
<1>4. PingIsOnItsWay'
  <2>1. UNCHANGED <<state, mailbox, serving, ping_outstanding, refused>> /\ PingIsOnItsWay
    BY <1>1 DEF SupervisorInv, entry
  <2> QED
    BY <2>1 DEF PingIsOnItsWay, OnItsWay
<1> QED
  BY <1>2, <1>3, <1>4 DEF SupervisorInv

----------------------------------------------------------------------------
\* Deaths, restarts and the tick.

\* The counters a fresh entry starts from, and the bounds of the others.
LEMMA CounterFacts ==
  /\ 0 \in 0 .. PING_TIMEOUT /\ 0 \in 0 .. PING_INTERVAL /\ 0 \in 0 .. WEDGE_TICKS + 1
  /\ 0 < PING_TIMEOUT /\ 0 < PING_INTERVAL /\ 0 < WEDGE_TICKS
BY SupervisorAssumption

\* An entry written with no ping counted: at a restart or a look at a running
\* server (FALSE), and at an injection (TRUE).
LEMMA FreshEntry ==
  ASSUME TypeOK, NEW s \in Servers, NEW ticks \in 0 .. WEDGE_TICKS + 1,
         Entry(s, ticks, FALSE, 0, 0) \/ Entry(s, ticks, TRUE, 0, 0)
  PROVE  /\ runnable_ticks' \in [Servers -> 0 .. WEDGE_TICKS + 1]
         /\ ping_outstanding' \in [Servers -> BOOLEAN]
         /\ ping_wait' \in [Servers -> 0 .. PING_TIMEOUT]
         /\ idle_ticks' \in [Servers -> 0 .. PING_INTERVAL]
         /\ runnable_ticks'[s] = ticks /\ ping_wait'[s] = 0 /\ idle_ticks'[s] = 0
         /\ Entry(s, ticks, FALSE, 0, 0) => ~ping_outstanding'[s]
         /\ \A x \in Servers \ {s} :
              /\ runnable_ticks'[x] = runnable_ticks[x]
              /\ ping_outstanding'[x] = ping_outstanding[x]
              /\ ping_wait'[x] = ping_wait[x] /\ idle_ticks'[x] = idle_ticks[x]
<1>1. /\ runnable_ticks' = [runnable_ticks EXCEPT ![s] = ticks]
      /\ ping_wait' = [ping_wait EXCEPT ![s] = 0]
      /\ idle_ticks' = [idle_ticks EXCEPT ![s] = 0]
  BY DEF Entry
<1>2. /\ runnable_ticks' \in [Servers -> 0 .. WEDGE_TICKS + 1]
      /\ ping_wait' \in [Servers -> 0 .. PING_TIMEOUT]
      /\ idle_ticks' \in [Servers -> 0 .. PING_INTERVAL]
      /\ runnable_ticks'[s] = ticks /\ ping_wait'[s] = 0 /\ idle_ticks'[s] = 0
      /\ \A x \in Servers \ {s} :
           /\ runnable_ticks'[x] = runnable_ticks[x]
           /\ ping_wait'[x] = ping_wait[x] /\ idle_ticks'[x] = idle_ticks[x]
  BY <1>1, CounterFacts DEF TypeOK
<1>3. /\ ping_outstanding' \in [Servers -> BOOLEAN]
      /\ Entry(s, ticks, FALSE, 0, 0) => ~ping_outstanding'[s]
      /\ \A x \in Servers \ {s} : ping_outstanding'[x] = ping_outstanding[x]
  <2>1. ping_outstanding \in [Servers -> BOOLEAN]
    BY DEF TypeOK
  <2>2. \/ ping_outstanding' = [ping_outstanding EXCEPT ![s] = FALSE]
        \/ /\ ping_outstanding' = [ping_outstanding EXCEPT ![s] = TRUE]
           /\ ~Entry(s, ticks, FALSE, 0, 0)
    BY DEF Entry
  <2> QED
    BY ZenonT(60), <2>1, <2>2
<1> QED
  BY ZenonT(60), <1>2, <1>3

\* A server torn down, and restarted or given up: its entry starts afresh, or
\* the slot is empty and past the cap; whoever called it runs again.
LEMMA RestartKeeps ==
  ASSUME SupervisorInv, NEW s \in Servers, NEW ticks \in 0 .. WEDGE_TICKS + 1,
         NEW outstanding \in BOOLEAN, NEW wait \in 0 .. PING_TIMEOUT,
         NEW idle \in 0 .. PING_INTERVAL,
         end_task(s), restart(s, ticks, outstanding, wait, idle),
         at' \in Servers \cup {NotTicking}
  PROVE  SupervisorInv'
<1>t. TypeOK
  BY DEF SupervisorInv
<1>1. /\ state' \in [Servers -> Waits \cup {"Runnable", "Unused"}]
      /\ on' \in [Servers -> Servers]
      /\ state'[s] = IF GivesUp(s) THEN "Unused" ELSE "Runnable"
      /\ \A x \in Servers \ {s} :
           \/ state'[x] = state[x] /\ on'[x] = on[x] /\ ~(state[x] = "Call" /\ on[x] = s)
           \/ state[x] = "Call" /\ state'[x] = "Runnable"
  BY ZenonT(60), <1>t DEF end_task, TypeOK
<1>2. /\ mailbox' \in [Servers -> Seq(Messages)]
      /\ mailbox'[s] = << >> /\ Len(<< >>) = 0
      /\ \A x \in Servers \ {s} : mailbox'[x] = mailbox[x]
  BY <1>t DEF end_task, TypeOK
<1>3. /\ serving' \in [Servers -> Messages \cup {Nothing}]
      /\ stuck' \in [Servers -> BOOLEAN] /\ serving'[s] = Nothing
      /\ \A x \in Servers \ {s} : serving'[x] = serving[x]
  BY ZenonT(60), <1>t DEF end_task, TypeOK
<1>4. /\ restarts' \in [Servers -> Nat] /\ restarts'[s] = restarts[s] + 1
      /\ \A x \in Servers \ {s} : restarts'[x] = restarts[x]
  <2>1. restarts' = [restarts EXCEPT ![s] = restarts[s] + 1]
    BY DEF restart
  <2>2. restarts \in [Servers -> Nat]
    BY <1>t DEF TypeOK
  <2> QED
    BY <2>1, <2>2
<1>5. /\ GivesUp(s) => Entry(s, ticks, outstanding, wait, idle) /\ refused' = refused
      /\ ~GivesUp(s) => Entry(s, 0, FALSE, 0, 0) /\ refused' = [refused EXCEPT ![s] = FALSE]
  BY ZenonT(60) DEF restart
<1>6. /\ refused' \in [Servers -> BOOLEAN]
      /\ \A x \in Servers \ {s} : refused'[x] = refused[x]
  <2>1. refused \in [Servers -> BOOLEAN]
    BY <1>t DEF TypeOK
  <2>2. refused' = refused \/ refused' = [refused EXCEPT ![s] = FALSE]
    BY ZenonT(60), <1>5
  <2> QED
    BY ZenonT(60), <2>1, <2>2
<1>7. /\ runnable_ticks' \in [Servers -> 0 .. WEDGE_TICKS + 1]
      /\ ping_outstanding' \in [Servers -> BOOLEAN]
      /\ ping_wait' \in [Servers -> 0 .. PING_TIMEOUT]
      /\ idle_ticks' \in [Servers -> 0 .. PING_INTERVAL]
      /\ ~GivesUp(s) => /\ runnable_ticks'[s] = 0 /\ ~ping_outstanding'[s]
                        /\ ping_wait'[s] = 0 /\ idle_ticks'[s] = 0
      /\ \A x \in Servers \ {s} :
           /\ runnable_ticks'[x] = runnable_ticks[x]
           /\ ping_outstanding'[x] = ping_outstanding[x]
           /\ ping_wait'[x] = ping_wait[x] /\ idle_ticks'[x] = idle_ticks[x]
  <2>1. CASE GivesUp(s)
    <3>1. /\ runnable_ticks' = [runnable_ticks EXCEPT ![s] = ticks]
          /\ ping_outstanding' = [ping_outstanding EXCEPT ![s] = outstanding]
          /\ ping_wait' = [ping_wait EXCEPT ![s] = wait]
          /\ idle_ticks' = [idle_ticks EXCEPT ![s] = idle]
      BY <1>5, <2>1 DEF Entry
    <3>2. /\ runnable_ticks \in [Servers -> 0 .. WEDGE_TICKS + 1]
          /\ ping_outstanding \in [Servers -> BOOLEAN]
          /\ ping_wait \in [Servers -> 0 .. PING_TIMEOUT]
          /\ idle_ticks \in [Servers -> 0 .. PING_INTERVAL]
      BY ZenonT(60), <1>t DEF TypeOK
    <3>3. /\ ping_outstanding' \in [Servers -> BOOLEAN]
          /\ \A x \in Servers \ {s} : ping_outstanding'[x] = ping_outstanding[x]
      BY <3>1, <3>2
    <3>4. /\ runnable_ticks' \in [Servers -> 0 .. WEDGE_TICKS + 1]
          /\ \A x \in Servers \ {s} : runnable_ticks'[x] = runnable_ticks[x]
      BY <3>1, <3>2
    <3>5. /\ ping_wait' \in [Servers -> 0 .. PING_TIMEOUT]
          /\ \A x \in Servers \ {s} : ping_wait'[x] = ping_wait[x]
      BY <3>1, <3>2
    <3>6. /\ idle_ticks' \in [Servers -> 0 .. PING_INTERVAL]
          /\ \A x \in Servers \ {s} : idle_ticks'[x] = idle_ticks[x]
      BY <3>1, <3>2
    <3> QED
      BY ZenonT(60), <2>1, <3>3, <3>4, <3>5, <3>6
  <2>2. CASE ~GivesUp(s)
    <3>1. Entry(s, 0, FALSE, 0, 0)
      BY ZenonT(60), <1>5, <2>2
    <3> QED
      BY ZenonT(60), <1>t, <2>2, <3>1, FreshEntry, CounterFacts
  <2> QED
    BY <2>1, <2>2
<1>8. \A x \in Servers : Len(mailbox'[x]) <= MSG_QUEUE_DEPTH
  <2>0. mailbox'[s] = << >> /\ Len(<< >>) = 0 /\ 0 <= MSG_QUEUE_DEPTH
    BY <1>2, SupervisorAssumption
  <2>1. Len(mailbox'[s]) <= MSG_QUEUE_DEPTH
    BY <2>0
  <2>2. \A x \in Servers \ {s} : Len(mailbox'[x]) <= MSG_QUEUE_DEPTH
    BY <1>2, <1>t DEF TypeOK
  <2> QED
    BY <2>1, <2>2
<1>9. TypeOK'
  BY ZenonT(60), <1>1, <1>2, <1>3, <1>4, <1>6, <1>7, <1>8 DEF TypeOK
<1>10. LiveIsWatched'
  <2>1. LiveIsWatched /\ 0 < WEDGE_TICKS /\ 0 < PING_TIMEOUT /\ 0 < PING_INTERVAL
    BY CounterFacts DEF SupervisorInv
  <2>2. \A x \in Servers \ {s} : state'[x] # "Unused" => state[x] # "Unused"
    BY ZenonT(60), <1>1
  <2>3. state'[s] # "Unused" => ~GivesUp(s)
    BY <1>1
  <2> QED
    BY ZenonT(60), <1>7, <2>1, <2>2, <2>3, WatchedStays
<1>11. ReceiverIsIdle'
  BY ZenonT(60), <1>1, <1>2, <1>3 DEF SupervisorInv, ReceiverIsIdle
<1>12. PingIsOnItsWay'
  <2>1. \A x \in Servers \ {s} : OnItsWay(x) => OnItsWay(x)'
    BY ZenonT(60), <1>2, <1>3 DEF OnItsWay
  <2>2. state'[s] # "Unused" => ~ping_outstanding'[s]
    BY ZenonT(60), <1>1, <1>7
  <2> QED
    BY ZenonT(60), <1>1, <1>6, <1>7, <2>1, <2>2 DEF SupervisorInv, PingIsOnItsWay
<1>13. EmptyIsGivenUp'
  BY ZenonT(60), <1>1, <1>4, <1>t, SupervisorAssumption DEF SupervisorInv, EmptyIsGivenUp, GivesUp, TypeOK
<1>14. CalledIsAlive'
  <2>1. ASSUME NEW x \in Servers, state'[x] = "Call"
        PROVE  on'[x] # x /\ state'[on'[x]] # "Unused"
    <3>1. state[x] = "Call" /\ on'[x] = on[x] /\ on[x] # s
      BY ZenonT(60), <1>1, <2>1
    <3>2. on[x] \in Servers /\ on[x] # x /\ state[on[x]] # "Unused"
      BY ZenonT(60), <1>t, <3>1 DEF SupervisorInv, TypeOK, CalledIsAlive
    <3> QED
      BY <1>1, <3>1, <3>2
  <2> QED
    BY ZenonT(60), <2>1 DEF CalledIsAlive
<1> QED
  BY <1>9, <1>10, <1>11, <1>12, <1>13, <1>14 DEF SupervisorInv

\* A fault of a server restarts it or gives it up.
LEMMA FaultKeeps ==
  ASSUME SupervisorInv, NEW s \in Servers, Fault(s)
  PROVE  SupervisorInv'
<1>1. /\ end_task(s) /\ at' \in Servers \cup {NotTicking}
      /\ restart(s, runnable_ticks[s], ping_outstanding[s], ping_wait[s], idle_ticks[s])
  BY DEF Fault, SupervisorInv, TypeOK
<1>2. /\ runnable_ticks[s] \in 0 .. WEDGE_TICKS + 1 /\ ping_outstanding[s] \in BOOLEAN
      /\ ping_wait[s] \in 0 .. PING_TIMEOUT /\ idle_ticks[s] \in 0 .. PING_INTERVAL
  BY DEF SupervisorInv, TypeOK
<1> QED
  BY ZenonT(60), <1>1, <1>2, RestartKeeps

\* The loop moves to the next server, or ends.
LEMMA NextServerType ==
  ASSUME NEW s \in Servers
  PROVE  NextServer(s) \in Servers \cup {NotTicking}
BY SupervisorAssumption DEF NextServer, Servers, NotTicking

\* The heartbeat's count stays within its type.
LEMMA HeartbeatType ==
  ASSUME TypeOK, NEW s \in Servers
  PROVE  heartbeat(s) \in 0 .. WEDGE_TICKS + 1
<1>1. runnable_ticks[s] \in 0 .. WEDGE_TICKS + 1
  BY DEF TypeOK
<1> QED
  BY <1>1, SupervisorAssumption DEF heartbeat

\* The tick replaces a server it found stuck.
LEMMA ReplaceKeeps ==
  ASSUME SupervisorInv, NEW s \in Servers, ReplaceRunnable(s) \/ ReplaceBlocked(s)
  PROVE  SupervisorInv'
<1>1. CASE ReplaceRunnable(s)
  <2>1. /\ end_task(s) /\ restart(s, heartbeat(s), FALSE, 0, 0)
        /\ at' \in Servers \cup {NotTicking}
    BY ZenonT(60), <1>1, NextServerType DEF ReplaceRunnable
  <2>2. heartbeat(s) \in 0 .. WEDGE_TICKS + 1
    BY HeartbeatType DEF SupervisorInv
  <2> QED
    BY ZenonT(60), <2>1, <2>2, RestartKeeps, CounterFacts
<1>2. CASE ReplaceBlocked(s)
  <2>1. end_task(s) /\ restart(s, 0, FALSE, 0, 0) /\ at' \in Servers \cup {NotTicking}
    BY ZenonT(60), <1>2, NextServerType DEF ReplaceBlocked
  <2> QED
    BY ZenonT(60), <2>1, RestartKeeps, CounterFacts
<1> QED
  BY <1>1, <1>2

\* A tick begins: servers that wait for the network with mail are woken.
LEMMA TickStartKeeps ==
  ASSUME SupervisorInv, TickStart
  PROVE  SupervisorInv'
<1>t. state \in [Servers -> Waits \cup {"Runnable", "Unused"}]
  BY DEF SupervisorInv, TypeOK
<1>1. /\ state' = [s \in Servers |-> IF state[s] = "NetInput" /\ mailbox[s] # << >>
                                     THEN "Runnable" ELSE state[s]]
      /\ at' = 1 /\ UNCHANGED <<on, mailbox, serving, stuck, entry>>
  BY DEF TickStart
<1>2. /\ state' \in [Servers -> Waits \cup {"Runnable", "Unused"}]
      /\ \A x \in Servers : \A w \in {"Recv", "Call", "Unused"} : state'[x] = w <=> state[x] = w
  BY <1>1, <1>t
<1>3. UNCHANGED <<on, mailbox, serving, stuck, entry>> /\ at' \in Servers \cup {NotTicking}
  <2>1. 1 \in Servers
    BY SupervisorAssumption DEF Servers
  <2> QED
    BY ZenonT(60), <1>1, <2>1
<1> QED
  BY <1>2, <1>3, QuietKeeps

\* poll_ping's injection: the ping is queued or handed over, or refused.
LEMMA InjectKeeps ==
  ASSUME SupervisorInv, NEW s \in Servers, Inject(s)
  PROVE  SupervisorInv'
<1>t. TypeOK
  BY DEF SupervisorInv
<1>1. /\ Entry(s, 0, TRUE, 0, 0) /\ state[s] # "Unused"
      /\ UNCHANGED <<on, stuck, restarts>>
  BY ZenonT(60) DEF Inject, Injects, Blocked, Waits
<1>2. at' \in Servers \cup {NotTicking}
  BY NextServerType DEF Inject
<1>3. /\ runnable_ticks' \in [Servers -> 0 .. WEDGE_TICKS + 1]
      /\ ping_outstanding' \in [Servers -> BOOLEAN]
      /\ ping_wait' \in [Servers -> 0 .. PING_TIMEOUT]
      /\ idle_ticks' \in [Servers -> 0 .. PING_INTERVAL]
      /\ runnable_ticks'[s] = 0 /\ ping_wait'[s] = 0 /\ idle_ticks'[s] = 0
      /\ \A x \in Servers \ {s} :
           /\ runnable_ticks'[x] = runnable_ticks[x]
           /\ ping_outstanding'[x] = ping_outstanding[x]
           /\ ping_wait'[x] = ping_wait[x] /\ idle_ticks'[x] = idle_ticks[x]
  BY ZenonT(60), <1>t, <1>1, FreshEntry, CounterFacts
<1>4. /\ state' \in [Servers -> Waits \cup {"Runnable", "Unused"}]
      /\ mailbox' \in [Servers -> Seq(Messages)]
      /\ serving' \in [Servers -> Messages \cup {Nothing}]
      /\ refused' \in [Servers -> BOOLEAN]
      /\ \A x \in Servers : Len(mailbox'[x]) <= MSG_QUEUE_DEPTH
      /\ \A x \in Servers : state'[x] = "Unused" <=> state[x] = "Unused"
      /\ \A x \in Servers : state'[x] = "Call" <=> state[x] = "Call"
      /\ ReceiverIsIdle'
      /\ \A x \in Servers \ {s} : OnItsWay(x) => OnItsWay(x)'
      /\ \A x \in Servers \ {s} : refused'[x] = refused[x]
      /\ OnItsWay(s)' \/ refused'[s]
  <2>0. /\ state \in [Servers -> Waits \cup {"Runnable", "Unused"}]
        /\ refused \in [Servers -> BOOLEAN]
    BY <1>t DEF TypeOK
  <2>1. CASE /\ ~Full(s) /\ Sent(s, PING, state)
             /\ refused' = [refused EXCEPT ![s] = FALSE]
    <3>1. PING \in Messages
      BY MessageFacts
    <3>2. /\ refused' \in [Servers -> BOOLEAN]
          /\ \A x \in Servers \ {s} : refused'[x] = refused[x]
      BY <2>0, <2>1
    <3> QED
      BY <1>1, <2>0, <2>1, <3>1, <3>2, SendKeeps
  <2>2. CASE /\ refused' = [refused EXCEPT ![s] = TRUE]
             /\ UNCHANGED <<state, mailbox, serving>>
    <3>1. \A x \in Servers \ {s} : OnItsWay(x) => OnItsWay(x)'
      BY <2>2 DEF OnItsWay
    <3>2. ReceiverIsIdle'
      BY <2>2 DEF SupervisorInv, ReceiverIsIdle
    <3> QED
      BY ZenonT(60), <1>t, <2>0, <2>2, <3>1, <3>2 DEF TypeOK
  <2> QED
    BY <2>1, <2>2 DEF Inject
<1>5. TypeOK'
  BY ZenonT(60), <1>1, <1>2, <1>3, <1>4, <1>t DEF TypeOK
<1>6. LiveIsWatched'
  <2>1. LiveIsWatched
    BY DEF SupervisorInv
  <2>2. 0 < PING_TIMEOUT /\ 0 < PING_INTERVAL /\ 0 < WEDGE_TICKS
    BY CounterFacts
  <2>3. \A x \in Servers : state'[x] # "Unused" => state[x] # "Unused"
    BY ZenonT(60), <1>4
  <2> QED
    BY ZenonT(60), <1>3, <2>1, <2>2, <2>3, WatchedStays
<1>7. PingIsOnItsWay'
  BY ZenonT(60), <1>3, <1>4 DEF SupervisorInv, PingIsOnItsWay
<1>8. EmptyIsGivenUp'
  BY <1>1, <1>4 DEF SupervisorInv, EmptyIsGivenUp
<1>9. CalledIsAlive'
  BY ZenonT(60), <1>1, <1>4, CallsStayAlive
<1> QED
  BY <1>4, <1>5, <1>6, <1>7, <1>8, <1>9 DEF SupervisorInv

\* A look at a server that needs nothing: the counts go on below their limits.
LEMMA ObserveKeeps ==
  ASSUME SupervisorInv, NEW s \in Servers, Observe(s)
  PROVE  SupervisorInv'
<1> DEFINE wait == IF ping_outstanding[s] THEN ping_wait[s] + 1 ELSE ping_wait[s]
           idle == IF ping_outstanding[s] THEN idle_ticks[s] ELSE idle_ticks[s] + 1
<1>t. TypeOK
  BY DEF SupervisorInv
<1>w. LiveIsWatched
  BY DEF SupervisorInv
<1>0. /\ UNCHANGED <<tasks, restarts>> /\ at' \in Servers \cup {NotTicking}
      /\ ~RunnableWedge(s) /\ ~PingTimesOut(s) /\ ~Injects(s)
  BY ZenonT(60), NextServerType DEF Observe
<1>v. /\ runnable_ticks[s] \in Nat /\ ping_wait[s] \in Nat /\ idle_ticks[s] \in Nat
      /\ ping_outstanding[s] \in BOOLEAN
      /\ runnable_ticks[s] \in 0 .. WEDGE_TICKS + 1
      /\ ping_wait[s] \in 0 .. PING_TIMEOUT /\ idle_ticks[s] \in 0 .. PING_INTERVAL
  BY <1>t DEF TypeOK
<1>1. /\ runnable_ticks' \in [Servers -> 0 .. WEDGE_TICKS + 1]
      /\ ping_outstanding' \in [Servers -> BOOLEAN]
      /\ ping_wait' \in [Servers -> 0 .. PING_TIMEOUT]
      /\ idle_ticks' \in [Servers -> 0 .. PING_INTERVAL]
      /\ refused' \in [Servers -> BOOLEAN]
      /\ \A x \in Servers \ {s} :
           /\ runnable_ticks'[x] = runnable_ticks[x]
           /\ ping_outstanding'[x] = ping_outstanding[x]
           /\ ping_wait'[x] = ping_wait[x] /\ idle_ticks'[x] = idle_ticks[x]
           /\ refused'[x] = refused[x]
      /\ state[s] # "Unused" => /\ runnable_ticks'[s] < WEDGE_TICKS
                                /\ ping_wait'[s] < PING_TIMEOUT
                                /\ idle_ticks'[s] < PING_INTERVAL
      /\ ping_outstanding'[s] => ping_outstanding[s] /\ refused'[s] = refused[s]
  <2>1. CASE ~Blocked(s)
    <3>1. Entry(s, heartbeat(s), FALSE, 0, 0) /\ refused' = [refused EXCEPT ![s] = FALSE]
      BY ZenonT(60), <2>1 DEF Observe
    <3>2. heartbeat(s) \in 0 .. WEDGE_TICKS + 1
      BY <1>t, HeartbeatType
    <3>3. state[s] # "Unused" => heartbeat(s) < WEDGE_TICKS
      <4>1. state[s] # "Unused" => runnable_ticks[s] < WEDGE_TICKS
        BY <1>w DEF LiveIsWatched
      <4>2. heartbeat(s) # WEDGE_TICKS
        BY <1>0, <2>1 DEF RunnableWedge
      <4>3. heartbeat(s) = IF runnable_ticks[s] > WEDGE_TICKS THEN runnable_ticks[s]
                           ELSE runnable_ticks[s] + 1
        BY <2>1 DEF heartbeat
      <4>4. runnable_ticks[s] \in Nat /\ WEDGE_TICKS \in Nat
        BY <1>v, SupervisorAssumption
      <4> QED
        BY <4>1, <4>2, <4>3, <4>4
    <3>4. 0 < PING_TIMEOUT /\ 0 < PING_INTERVAL
      BY CounterFacts
    <3>5. /\ refused' \in [Servers -> BOOLEAN]
          /\ \A x \in Servers \ {s} : refused'[x] = refused[x]
      BY <1>t, <3>1 DEF TypeOK
    <3> QED
      <4>1. /\ runnable_ticks' \in [Servers -> 0 .. WEDGE_TICKS + 1]
            /\ ping_outstanding' \in [Servers -> BOOLEAN]
            /\ ping_wait' \in [Servers -> 0 .. PING_TIMEOUT]
            /\ idle_ticks' \in [Servers -> 0 .. PING_INTERVAL]
            /\ runnable_ticks'[s] = heartbeat(s) /\ ping_wait'[s] = 0 /\ idle_ticks'[s] = 0
            /\ ~ping_outstanding'[s]
            /\ \A x \in Servers \ {s} :
                 /\ runnable_ticks'[x] = runnable_ticks[x]
                 /\ ping_outstanding'[x] = ping_outstanding[x]
                 /\ ping_wait'[x] = ping_wait[x] /\ idle_ticks'[x] = idle_ticks[x]
        BY ZenonT(60), <1>t, <3>1, <3>2, FreshEntry
      <4> QED
        <5>1. state[s] # "Unused" => /\ runnable_ticks'[s] < WEDGE_TICKS
                                     /\ ping_wait'[s] < PING_TIMEOUT
                                     /\ idle_ticks'[s] < PING_INTERVAL
          BY <3>3, <3>4, <4>1
        <5> QED
          BY ZenonT(60), <3>5, <4>1, <5>1
  <2>2. CASE Blocked(s)
    <3>1. Entry(s, 0, ping_outstanding[s], wait, idle) /\ refused' = refused
      BY ZenonT(60), <2>2 DEF Observe
    <3>2. state[s] # "Unused"
      BY ZenonT(60), <2>2 DEF Blocked, Waits
    <3>3. wait < PING_TIMEOUT /\ idle < PING_INTERVAL /\ wait \in Nat /\ idle \in Nat
      <4>1. /\ ping_wait[s] < PING_TIMEOUT /\ idle_ticks[s] < PING_INTERVAL
            /\ ping_wait[s] \in Nat /\ idle_ticks[s] \in Nat
            /\ PING_TIMEOUT \in Nat /\ PING_INTERVAL \in Nat
        BY <1>w, <1>v, <3>2, SupervisorAssumption DEF LiveIsWatched
      <4>2. CASE ping_outstanding[s]
        <5>1. ~(ping_wait[s] + 1 >= PING_TIMEOUT)
          BY <1>0, <2>2, <4>2 DEF PingTimesOut
        <5> QED
          BY <4>1, <4>2, <5>1
      <4>3. CASE ~ping_outstanding[s]
        <5>1. ~(idle_ticks[s] + 1 >= PING_INTERVAL)
          BY <1>0, <2>2, <4>3 DEF Injects
        <5> QED
          BY <4>1, <4>3, <5>1
      <4> QED
        BY <4>2, <4>3
    <3> HIDE DEF wait, idle
    <3>4. wait \in 0 .. PING_TIMEOUT /\ idle \in 0 .. PING_INTERVAL
      BY <3>3, SupervisorAssumption
    <3>5. 0 \in 0 .. WEDGE_TICKS + 1 /\ 0 < WEDGE_TICKS
      BY CounterFacts
    <3>6. refused' \in [Servers -> BOOLEAN]
      BY <1>t, <3>1 DEF TypeOK
    <3> QED
      <4>1. /\ runnable_ticks' \in [Servers -> 0 .. WEDGE_TICKS + 1]
            /\ ping_outstanding' \in [Servers -> BOOLEAN]
            /\ ping_wait' \in [Servers -> 0 .. PING_TIMEOUT]
            /\ idle_ticks' \in [Servers -> 0 .. PING_INTERVAL]
            /\ runnable_ticks'[s] = 0 /\ ping_outstanding'[s] = ping_outstanding[s]
            /\ ping_wait'[s] = wait /\ idle_ticks'[s] = idle
            /\ \A x \in Servers \ {s} :
                 /\ runnable_ticks'[x] = runnable_ticks[x]
                 /\ ping_outstanding'[x] = ping_outstanding[x]
                 /\ ping_wait'[x] = ping_wait[x] /\ idle_ticks'[x] = idle_ticks[x]
        <5>1. /\ runnable_ticks' = [runnable_ticks EXCEPT ![s] = 0]
              /\ ping_outstanding' = [ping_outstanding EXCEPT ![s] = ping_outstanding[s]]
              /\ ping_wait' = [ping_wait EXCEPT ![s] = wait]
              /\ idle_ticks' = [idle_ticks EXCEPT ![s] = idle]
          BY <3>1 DEF Entry
        <5>2. /\ runnable_ticks \in [Servers -> 0 .. WEDGE_TICKS + 1]
              /\ ping_outstanding \in [Servers -> BOOLEAN]
              /\ ping_wait \in [Servers -> 0 .. PING_TIMEOUT]
              /\ idle_ticks \in [Servers -> 0 .. PING_INTERVAL]
          BY ZenonT(60), <1>t DEF TypeOK
        <5>3. /\ ping_outstanding' \in [Servers -> BOOLEAN]
              /\ ping_outstanding'[s] = ping_outstanding[s]
              /\ \A x \in Servers \ {s} : ping_outstanding'[x] = ping_outstanding[x]
          BY <5>1, <5>2
        <5>4. /\ runnable_ticks' \in [Servers -> 0 .. WEDGE_TICKS + 1]
              /\ runnable_ticks'[s] = 0
              /\ \A x \in Servers \ {s} : runnable_ticks'[x] = runnable_ticks[x]
          BY <3>5, <5>1, <5>2
        <5>5. /\ ping_wait' \in [Servers -> 0 .. PING_TIMEOUT] /\ ping_wait'[s] = wait
              /\ \A x \in Servers \ {s} : ping_wait'[x] = ping_wait[x]
          BY <3>4, <5>1, <5>2
        <5>6. /\ idle_ticks' \in [Servers -> 0 .. PING_INTERVAL] /\ idle_ticks'[s] = idle
              /\ \A x \in Servers \ {s} : idle_ticks'[x] = idle_ticks[x]
          BY <3>4, <5>1, <5>2
        <5> QED
          BY ZenonT(60), <5>3, <5>4, <5>5, <5>6
      <4> QED
        BY ZenonT(60), <3>1, <3>3, <3>5, <3>6, <4>1
  <2> QED
    BY ZenonT(60), <2>1, <2>2
<1>2. UNCHANGED <<state, on, mailbox, serving, stuck, restarts>>
  BY <1>0 DEF tasks
<1>3. TypeOK'
  BY ZenonT(60), <1>0, <1>1, <1>2, <1>t DEF TypeOK
<1>4. LiveIsWatched'
  BY ZenonT(60), <1>1, <1>2, <1>w, WatchedStays
<1>5. ReceiverIsIdle' /\ EmptyIsGivenUp' /\ CalledIsAlive'
  BY ZenonT(60), <1>2 DEF SupervisorInv, ReceiverIsIdle, EmptyIsGivenUp, CalledIsAlive
<1>6. PingIsOnItsWay'
  <2>1. \A x \in Servers : OnItsWay(x) => OnItsWay(x)'
    BY <1>2 DEF OnItsWay
  <2> QED
    <3> SUFFICES ASSUME NEW x \in Servers,
                        state'[x] # "Unused", ping_outstanding'[x], ~refused'[x]
                 PROVE  OnItsWay(x)'
      BY ZenonT(60) DEF PingIsOnItsWay
    <3>1. state[x] # "Unused" /\ ping_outstanding[x] /\ ~refused[x]
      BY <1>1, <1>2
    <3>2. OnItsWay(x)
      BY <3>1 DEF SupervisorInv, PingIsOnItsWay
    <3> QED
      BY <2>1, <3>2
<1> QED
  BY <1>3, <1>4, <1>5, <1>6 DEF SupervisorInv

----------------------------------------------------------------------------
\* The supervisor's invariant holds: the detectors can always catch a living
\* server, a ping is lost only to a full mailbox, a slot is empty only past
\* the cap and nobody is left in a call to it.
THEOREM SupervisorSafety == Spec => []SupervisorInv
<1>1. Init => SupervisorInv
  <2> SUFFICES ASSUME Init PROVE SupervisorInv
    OBVIOUS
  <2>0. /\ \A s \in Servers : /\ state[s] = "Runnable" /\ mailbox[s] = << >>
                              /\ ping_outstanding[s] = FALSE /\ runnable_ticks[s] = 0
                              /\ ping_wait[s] = 0 /\ idle_ticks[s] = 0
        /\ Len(<< >>) = 0
    BY DEF Init
  <2>1. TypeOK
    BY CounterFacts, SupervisorAssumption DEF Init, TypeOK
  <2> QED
    BY <2>0, <2>1, CounterFacts
       DEF SupervisorInv, LiveIsWatched, ReceiverIsIdle, PingIsOnItsWay, EmptyIsGivenUp,
           CalledIsAlive
<1>2. SupervisorInv /\ [Next]_vars => SupervisorInv'
  <2> SUFFICES ASSUME SupervisorInv, [Next]_vars PROVE SupervisorInv'
    OBVIOUS
  <2>1. ASSUME NEW s \in Servers,
               \/ Request(s) \/ MSG_RECV(s) \/ MSG_TRY_RECV(s) \/ NET_WAIT(s) \/ NetInput(s)
               \/ MSG_REPLY(s) \/ Ack(s) \/ GetStuck(s) \/ Fault(s)
        PROVE  SupervisorInv'
    BY <2>1, RequestKeeps, RecvKeeps, TryRecvKeeps, NetWaitKeeps, ReplyKeeps, AckKeeps,
       StuckKeeps, FaultKeeps
  <2>2. ASSUME NEW s \in Servers, NEW d \in Servers, MSG_CALL(s, d)
        PROVE  SupervisorInv'
    BY <2>2, CallKeeps
  <2>3. CASE TickStart
    BY <2>3, TickStartKeeps
  <2>4. ASSUME NEW s \in Servers, ReplaceRunnable(s) \/ ReplaceBlocked(s) \/ Inject(s) \/ Observe(s)
        PROVE  SupervisorInv'
    BY <2>4, ReplaceKeeps, InjectKeeps, ObserveKeeps
  <2>5. CASE UNCHANGED vars
    <3>1. UNCHANGED <<state, on, mailbox, serving, stuck, restarts, runnable_ticks,
                      ping_outstanding, ping_wait, idle_ticks, refused, at>>
      BY <2>5 DEF vars, tasks, entry
    <3>2. TypeOK'
      BY ZenonT(60), <3>1 DEF SupervisorInv, TypeOK
    <3>3. LiveIsWatched' /\ ReceiverIsIdle' /\ EmptyIsGivenUp' /\ CalledIsAlive'
      BY ZenonT(60), <3>1 DEF SupervisorInv, LiveIsWatched, ReceiverIsIdle, EmptyIsGivenUp,
                         CalledIsAlive
    <3>4. PingIsOnItsWay'
      BY <3>1 DEF SupervisorInv, PingIsOnItsWay, OnItsWay
    <3> QED
      BY <3>2, <3>3, <3>4 DEF SupervisorInv
  <2> QED
    BY <2>1, <2>2, <2>3, <2>4, <2>5 DEF Next, Tick, TickServer
<1> QED
  BY <1>1, <1>2, PTL DEF Spec

\* A living server is always one the detectors can still catch: neither the
\* exact comparison of heartbeat nor the ping's counts have been stepped over,
\* whatever order the calls, answers, deaths and ticks come in.
THEOREM LiveAreWatched == Spec => []LiveIsWatched
BY SupervisorSafety, PTL DEF SupervisorInv

\* No server waits in a call to a slot that was given up.
THEOREM CalledAreAlive == Spec => []CalledIsAlive
BY SupervisorSafety, PTL DEF SupervisorInv

\* An idle server is restarted only for a ping that found its mailbox full:
\* every other restart finds the server running, or in a call or a wait for
\* the network, or its ping queued or in its hand.
THEOREM IdleTripsAreUnseen == Spec => IdleTripsOnlyUnseen
<1> DEFINE Trip == \A s \in Servers : (state[s] = "Recv" /\ restarts'[s] # restarts[s]) => refused[s]
<1>1. SupervisorInv /\ [Next]_vars => [Trip]_vars
  <2> SUFFICES ASSUME SupervisorInv, Next PROVE Trip
    OBVIOUS
  <2> SUFFICES ASSUME NEW s \in Servers, state[s] = "Recv", restarts'[s] # restarts[s]
               PROVE  refused[s]
    OBVIOUS
  <2>t. restarts \in [Servers -> Nat] /\ PingIsOnItsWay /\ ReceiverIsIdle
    BY DEF SupervisorInv, TypeOK
  <2>1. \A x \in Servers : (Fault(x) \/ ReplaceRunnable(x) \/ ReplaceBlocked(x)) =>
          restarts' = [restarts EXCEPT ![x] = restarts[x] + 1]
    BY ZenonT(60) DEF Fault, ReplaceRunnable, ReplaceBlocked, restart
  <2>2. restarts' = restarts \/ \E x \in Servers : Fault(x) \/ ReplaceRunnable(x) \/ ReplaceBlocked(x)
    BY ZenonT(60) DEF Next, Tick, TickStart, TickServer, Request, MSG_RECV, MSG_TRY_RECV, NET_WAIT, NetInput,
           MSG_REPLY, Ack, GetStuck, MSG_CALL, Inject, Observe, entry
  <2>3. Fault(s) \/ ReplaceRunnable(s) \/ ReplaceBlocked(s)
    BY <2>t, <2>1, <2>2
  <2>4. ~Fault(s) /\ ~ReplaceRunnable(s)
    BY DEF Fault, Running, ReplaceRunnable, RunnableWedge, Blocked, Waits
  <2>5. ping_outstanding[s]
    BY ZenonT(60), <2>3, <2>4 DEF ReplaceBlocked, PingTimesOut
  <2>6. ~OnItsWay(s)
    BY <2>t, IdleHasNoPing
  <2> QED
    BY <2>t, <2>5, <2>6 DEF PingIsOnItsWay
<1>2. Spec => [][Trip]_vars
  BY <1>1, SupervisorSafety, PTL DEF Spec
<1> QED
  BY <1>2 DEF IdleTripsOnlyUnseen
============================================================================
