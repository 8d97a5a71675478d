---------------------------- MODULE RemoteCalls ----------------------------
(***************************************************************************)
(* netd as a client of another machine: the calls it parks.  A program's   *)
(* request for a remote file (NETOP_RMOUNT), and a remote run (NETOP_RUN), *)
(* is not answered while it is handled: it is parked on a Wire, the serve  *)
(* loop goes on, and a later turn answers it from the peer's reply, from   *)
(* the connection's end or from a deadline.  One-shot requests take a slot *)
(* of `remotes`; requests on an open remote file share their user's        *)
(* connection in `sessions`.                                               *)
(*                                                                         *)
(* The turn of the loop is three phases: requests are handled, then        *)
(* frames, then service_remotes and pump_dials run over every slot and     *)
(* netd sleeps, until a request, a frame, or (only while the polling rule  *)
(* asks for it) the timer wakes it.  The peer and the network are          *)
(* external: frames are lost and reordered, the peer answers late, closes, *)
(* resets and restarts.                                                    *)
(***************************************************************************)
EXTENDS Wire, FiniteSets

CONSTANTS
  Callers, Users,         \* programs, and the user each runs as
  Names,                  \* what a user may be called from one request to the next
  Verbs,                  \* the requests made: "path", "open", "clunk", "run"
  MAX_REMOTE, MAX_CLIENT_SESSIONS,
  REMOTE_RBUF, RUN_OUT_MAX,
  REMOTE_DEADLINE, RUN_DEADLINE, SESSION_IDLE, DIAL_IDLE,
  ReplyLens, Keying,      \* the peer's choices: lengths, may it agree to a key
  Fits,                   \* may a request, once framed, fit its buffer
  MaxCalls, MaxWires, MaxLost, MaxFaults, MaxDown

VARIABLES
  remotes, sessions,      \* the two tables of Wires
  pending,                \* PendingRun
  phase,                  \* of the loop: "wait", "mail" or "frames"
  calls,                  \* per call: what it asked and where it stands
  port,                   \* the last source port taken
  down,                   \* frames under way from the peer
  peer,                   \* the peer's connections, by our port
  lost, faults            \* how much has gone wrong so far

netd == <<remotes, sessions, pending, phase, calls, port>>
world == <<down, peer, lost, faults>>
vars == <<netd, world>>

Remote == 1..MAX_REMOTE
Session == 1..MAX_CLIENT_SESSIONS
Ports == 1..MaxWires
Cap == 1 + Max({REMOTE_DEADLINE, RUN_DEADLINE})
IdleCap == 1 + Max({SESSION_IDLE, DIAL_IDLE})
SessionVerbs == {"open", "clunk"}

CallIds == 1..MaxCalls
Waiting(i) == calls[i].st = "waiting"
With(x, F(_)) == F(x)

---------------------------------------------------------------------------
(* The collected output of a run, handed out a chunk (a unit) at a time. *)

NoRun == [active |-> FALSE, owner |-> "nobody", buf |-> <<>>, cursor |-> 0]
HasChunk(p, who) == p.active /\ p.owner = who /\ p.cursor < Len(p.buf)
next_chunk(p, who) ==
  IF ~HasChunk(p, who) THEN p
  ELSE [p EXCEPT !.cursor = @ + 1, !.active = p.cursor + 1 < Len(p.buf)]
Chunk(p, who) == IF HasChunk(p, who) THEN <<p.buf[p.cursor + 1]>> ELSE <<>>

---------------------------------------------------------------------------
(* Answers.  An answer to a call whose caller has ended is stale.          *)

Answer(i, kind, units) == [call |-> i, kind |-> kind, units |-> units]
Heard(cs, a) ==
  [cs EXCEPT ![a.call].st = IF @ = "waiting" THEN "answered" ELSE @,
             ![a.call].got = Append(@, [kind |-> a.kind, units |-> a.units])]
HeardAll(cs, as) == FoldSet(LAMBDA a, acc : Heard(acc, a), cs, as)

---------------------------------------------------------------------------
(* Handling a request.  Parked calls are framed later, by sign_parked.     *)

Park(cs, i, opening) ==
  [verb |-> cs[i].verb, since |-> 0, call |-> i, who |-> cs[i].name, nonce |-> 0,
   opening |-> opening, raw |-> TRUE]

Connecting(cs, i, opening) ==
  [new_wire(port + 1) EXCEPT !.state = "Connecting", !.parked = Park(cs, i, opening)]

Refuse(i, cs, kind) ==
  /\ calls' = Heard(cs, Answer(i, kind, <<>>))
  /\ UNCHANGED <<remotes, sessions, port>>

FreeSlots(table) == {s \in DOMAIN table : table[s].state = "None"}
ParkedRuns == {s \in Remote : remotes[s].state # "None" /\ remotes[s].parked.verb = "run"}

park_rmount(i, cs) ==
  /\ UNCHANGED pending
  /\ IF FreeSlots(remotes) = {} THEN Refuse(i, cs, "busy")
     ELSE /\ remotes' = [remotes EXCEPT ![Min(FreeSlots(remotes))] = Connecting(cs, i, FALSE)]
          /\ port' = port + 1
          /\ calls' = cs
          /\ UNCHANGED sessions

(* A run in flight refuses the next before `pending` is touched. *)
park_run(i, cs) ==
  IF ParkedRuns # {} THEN Refuse(i, cs, "busy") /\ UNCHANGED pending
  ELSE /\ pending' = [NoRun EXCEPT !.owner = cs[i].who]
       /\ IF FreeSlots(remotes) = {} THEN Refuse(i, cs, "busy")
          ELSE /\ remotes' = [remotes EXCEPT ![Min(FreeSlots(remotes))] = Connecting(cs, i, FALSE)]
               /\ port' = port + 1
               /\ calls' = cs
               /\ UNCHANGED sessions

LiveSessions(user) ==
  {s \in Session : /\ sessions[s].state \in {"Connecting", "Established"}
                   /\ sessions[s].uid = user}

(* A verb on an open remote file joins its user's session, unless the user *)
(* has another name now than it was opened under, or opens one and is held *)
(* until the peer has agreed to it.                                        *)
park_session(i, cs) ==
  /\ UNCHANGED pending
  /\ IF LiveSessions(Users[cs[i].who]) # {}
     THEN LET s == Min(LiveSessions(Users[cs[i].who]))
          IN  IF IsParked(sessions[s]) \/ sessions[s].sbuf # <<>>
              THEN Refuse(i, cs, "busy")
              ELSE IF sessions[s].opener # cs[i].name THEN Refuse(i, cs, "other name")
              ELSE /\ sessions' = [sessions EXCEPT ![s].rbuf = <<>>,
                                                   ![s].parked = Park(cs, i, FALSE)]
                   /\ calls' = cs
                   /\ UNCHANGED <<remotes, port>>
     ELSE IF FreeSlots(sessions) = {} THEN Refuse(i, cs, "busy")
     ELSE /\ sessions' = [sessions EXCEPT ![Min(FreeSlots(sessions))] =
                            [Connecting(cs, i, TRUE) EXCEPT !.uid = Users[cs[i].who],
                                                            !.opener = cs[i].name,
                                                            !.held = <<i>>]]
          /\ port' = port + 1
          /\ calls' = cs
          /\ UNCHANGED remotes

Handle(i, cs) ==
  CASE cs[i].verb = "run" -> park_run(i, cs)
    [] cs[i].verb = "path" -> park_rmount(i, cs)
    [] OTHER -> park_session(i, cs)

Opened(call) ==
  /\ call.verb = "open" /\ call.st = "answered" /\ call.got[1].kind = "reply"
  /\ call.got[1].units[1].status = "ok"

(* The remote files a program has opened and not closed. *)
FidsOf(who) ==
  Cardinality({i \in CallIds : calls[i].who = who /\ Opened(calls[i])})
  - Cardinality({i \in CallIds : calls[i].verb = "clunk" /\ calls[i].who = who})

(* A program that waits for nothing makes a request, and netd handles it   *)
(* while it is handling its mail.                                          *)
Request ==
  /\ phase \in {"wait", "mail"}
  /\ phase' = "mail"
  /\ \E who \in Callers, name \in Names, verb \in Verbs, i \in CallIds :
       /\ calls[i].st = "none" /\ \A j \in 1..(i - 1) : calls[j].st # "none"
       /\ \A j \in CallIds : calls[j].who = who => calls[j].st = "answered"
       /\ verb = "clunk" => FidsOf(who) > 0
       /\ port < MaxWires \/ (verb \in SessionVerbs /\ LiveSessions(Users[who]) # {})
       /\ Handle(i, [calls EXCEPT ![i] = [st |-> "waiting", who |-> who, name |-> name,
                                          verb |-> verb, got |-> <<>>]])
  /\ UNCHANGED world

(* NETOP_RUN_MORE: the next chunk, if the pending output is this program's.*)
RunMore ==
  /\ phase \in {"wait", "mail"}
  /\ phase' = "mail"
  /\ \E i \in CallIds :
       /\ calls[i].verb = "run" /\ calls[i].st = "answered"
       /\ \A j \in CallIds : calls[j].who = calls[i].who => j <= i
       /\ HasChunk(pending, calls[i].who)
       /\ calls' = [calls EXCEPT ![i].got[1].units = @ \o Chunk(pending, calls[i].who)]
       /\ pending' = next_chunk(pending, calls[i].who)
  /\ UNCHANGED <<remotes, sessions, port, world>>

(* A program is ended while it waits; the answer to it will be stale.      *)
CallerEnds ==
  /\ faults < MaxFaults
  /\ faults' = faults + 1
  /\ \E i \in CallIds : Waiting(i) /\ calls' = [calls EXCEPT ![i].st = "ended"]
  /\ UNCHANGED <<remotes, sessions, pending, phase, port, down, peer, lost>>

---------------------------------------------------------------------------
(* The peer's TCP.  A frame of ours is lost or reaches the peer at once;   *)
(* what the peer says is on its way for as long as the network likes, in   *)
(* any order.                                                              *)

NoConn == [st |-> "none", rcv |-> 1, una |-> 1, out |-> <<>>, todo |-> <<>>,
           fin |-> FALSE, keyed |-> FALSE, who |-> 0, seq |-> 0, fids |-> 0]

FromPeer(p, q, seq, flags, data) ==
  [port |-> p, seq |-> seq, ack |-> q.rcv, flags |-> flags, data |-> data]
Reset(p) == [port |-> p, seq |-> 0, ack |-> 0, flags |-> {"RST"}, data |-> <<>>]

PeerAcked(q, s) ==
  IF s.ack <= q.una THEN q
  ELSE [q EXCEPT !.out = SubSeq(@, s.ack - q.una + 1, Len(@)), !.una = s.ack]
PeerTook(q, s) ==
  IF s.data = <<>> \/ s.seq # q.rcv THEN q
  ELSE [q EXCEPT !.rcv = @ + Len(s.data), !.todo = @ \o s.data]

(* w is the peer's connections and the frames under way from it. *)
PeerHears(w, s) ==
  With(w.peer[s.port], LAMBDA q :
    CASE "SYN" \in s.flags /\ q.st \in {"none", "open"} ->
           [peer |-> [w.peer EXCEPT ![s.port].st = "open"],
            down |-> w.down \union {FromPeer(s.port, q, 0, {"SYN", "ACK"}, <<>>)}]
      [] q.st = "closed" -> [w EXCEPT !.down = @ \union {Reset(s.port)}]
      [] q.st = "open" /\ "FIN" \in s.flags /\ s.seq = q.rcv ->
           [w EXCEPT !.peer[s.port] = [NoConn EXCEPT !.st = "closed"]]
      [] OTHER -> [w EXCEPT !.peer[s.port] = PeerTook(PeerAcked(q, s), s)])

Send(frames, rest) ==
  \E gone \in SUBSET frames :
    /\ lost + Cardinality(gone) <= MaxLost
    /\ lost' = lost + Cardinality(gone)
    /\ \E w \in {FoldSet(LAMBDA s, acc : PeerHears(acc, s),
                         [peer |-> peer, down |-> rest], frames \ gone)} :
         peer' = w.peer /\ down' = w.down

---------------------------------------------------------------------------
(* service_remotes: framing what is parked, answering what has ended.      *)

(* A signed frame carries its sender's name, a keyed one a number only. *)
SessionFrame(pk, offer) ==
  [verb |-> "session", call |-> pk.call, who |-> pk.who, nonce |-> 2 * pk.call, seq |-> 0, eph |-> offer]
SignedFrame(pk) ==
  [verb |-> pk.verb, call |-> pk.call, who |-> pk.who, nonce |-> 2 * pk.call + 1, seq |-> 0, eph |-> FALSE]
KeyedFrame(pk, n) ==
  [verb |-> pk.verb, call |-> pk.call, who |-> 0, nonce |-> 0, seq |-> n, eph |-> FALSE]

frame_keyed(c, pk) ==
  [c EXCEPT !.sbuf = <<KeyedFrame(pk, c.key.seq + 1)>>, !.key.seq = @ + 1,
            !.parked = [pk EXCEPT !.raw = FALSE, !.nonce = 0]]
frame_signed(c, pk) ==
  [c EXCEPT !.sbuf = <<SignedFrame(pk)>>,
            !.parked = [pk EXCEPT !.raw = FALSE, !.nonce = SignedFrame(pk).nonce]]
offer_key(c, pk, offer) ==
  [c EXCEPT !.sbuf = <<SessionFrame(pk, offer)>>,
            !.key.st = IF offer THEN "offered" ELSE "none",
            !.parked = [pk EXCEPT !.raw = FALSE, !.nonce = 2 * pk.call]]

Settled(c) ==
  [c EXCEPT !.state = CASE @ = "Established" -> "Closing"
                        [] @ \in {"Closing", "Closed"} -> @
                        [] OTHER -> "Closed"]
Forget(c) == [c EXCEPT !.key = KeyNone, !.held = <<>>]

Result(c, as) == [c |-> c, as |-> as]
Served(c, pk, kind, units) == Result(c, {Answer(pk.call, kind, units)})

(* A request that cannot be framed is answered so, and its connection ends. *)
sign_parked(c, offer, fits) ==
  CASE ~fits -> Served(Settled([c EXCEPT !.parked = NotParked, !.held = <<>>]), c.parked,
                       "unsigned", <<>>)
    [] fits /\ c.key.st = "keyed" -> Result(frame_keyed(c, c.parked), {})
    [] fits /\ c.key.st # "keyed" /\ c.parked.opening ->
         Result(offer_key(c, c.parked, offer), {})
    [] OTHER -> Result(frame_signed(c, c.parked), {})

(* The peer agreed to the session: the held verb goes out, under the key   *)
(* if both sides offered one.                                              *)
phase_two(c, pk, agreed) ==
  LET d == [c EXCEPT !.held = <<>>, !.idle = 0]
      next == [pk EXCEPT !.opening = FALSE, !.since = 0]
      offered == c.key.st = "offered"
  IN  CASE ~offered /\ ~agreed -> Result(frame_signed(d, next), {})
        [] ~offered /\ agreed -> Served(Settled(d), pk, "auth", <<>>)
        [] offered /\ ~agreed -> Result(frame_signed([d EXCEPT !.key = KeyNone], next), {})
        [] offered /\ agreed ->
             Result(frame_keyed([d EXCEPT !.key = [st |-> "keyed", seq |-> 0]], next), {})

EndOpening(c, pk, kind, units, reply) ==
  IF kind = "reply" /\ reply.status = "ok"
  THEN IF c.sbuf = <<>> THEN phase_two(c, pk, reply.eph)
       ELSE Served(Settled(Forget(c)), pk, "error", <<>>)
  ELSE Served(Settled(Forget(c)), pk, kind, units)

Counted(c, pk, reply, heard) ==
  CASE reply.status = "ok" /\ pk.verb = "open" /\ heard -> [c EXCEPT !.fids = @ + 1]
    [] reply.status = "ok" /\ pk.verb = "clunk" -> [c EXCEPT !.fids = Max({0, @ - 1})]
    [] OTHER -> c

\* A mutant: a session whose verb ran out of time is kept.
EndVerb_keeps_a_late_session(c, pk, kind, units, reply, heard) ==
  With(IF kind = "reply" THEN Counted(c, pk, reply, heard) ELSE c,
       LAMBDA d : Served(IF d.fids > 0 THEN [d EXCEPT !.idle = 0] ELSE Settled(d),
                         pk, kind, units))

EndVerb(c, pk, kind, units, reply, heard) ==
  With(IF kind = "reply" THEN Counted(c, pk, reply, heard) ELSE c,
       LAMBDA d : Served(IF kind = "reply" /\ d.fids > 0
                         THEN [d EXCEPT !.idle = 0] ELSE Settled(d),
                         pk, kind, units))

Verified(c, pk, reply) ==
  IF c.key.st = "keyed" THEN reply.re.seq = c.key.seq ELSE reply.re.nonce = pk.nonce

(* Nothing of the reply's buffer is left for the next request. *)
End(c, pk, kind, rbuf, alive) ==
  With([c EXCEPT !.parked = NotParked, !.rbuf = <<>>],
       LAMBDA d :
         IF pk.opening THEN EndOpening(d, pk, kind, rbuf, IF rbuf = <<>> THEN <<>> ELSE rbuf[1])
         ELSE EndVerb(d, pk, kind, rbuf, IF rbuf = <<>> THEN <<>> ELSE rbuf[1],
                      pk.call \in alive))

Collect(c, dead, alive) ==
  LET complete == c.rbuf # <<>> /\ Len(c.rbuf) >= c.rbuf[1].len
      too_big == c.rbuf # <<>> /\ c.rbuf[1].len > REMOTE_RBUF
      over == c.state = "Closed" \/ c.parked.since > REMOTE_DEADLINE
  IN  CASE too_big -> End(c, c.parked, "error", <<>>, alive)
        [] ~too_big /\ complete ->
             End(c, c.parked, IF Verified(c, c.parked, c.rbuf[1]) THEN "reply" ELSE "auth",
                 c.rbuf, alive)
        [] ~too_big /\ ~complete /\ over ->
             End(c, c.parked, IF c.parked.opening THEN "no_fs" ELSE dead, <<>>, alive)
        [] OTHER -> Result(c, {})

service(c, dead, alive, offer, fits) ==
  IF c.state = "None" THEN Result(c, {})
  ELSE IF ~IsParked(c) THEN Result(c, {})
  ELSE IF c.parked.raw /\ c.state # "Closed" THEN sign_parked(c, offer, fits)
  ELSE IF c.parked.verb = "run" THEN Result(c, {})
  ELSE Collect(c, dead, alive)

(* A run's output moves to `pending` as it comes; its caller is answered   *)
(* with the first chunk when the run is over, or has been silent too long. *)
Drained(c) ==
  IF c.rbuf = <<>> THEN c ELSE [c EXCEPT !.rbuf = <<>>, !.parked.since = 1]
Gathered(p, c) ==
  [p EXCEPT !.buf = @ \o SubSeq(c.rbuf, 1, Min({Len(c.rbuf), RUN_OUT_MAX - Len(@)}))]

EndRun(c, p) ==
  IF p.buf # <<>> \/ c.peer_fin
  THEN With([p EXCEPT !.cursor = 0, !.active = TRUE],
            LAMBDA q : [c |-> Settled([c EXCEPT !.parked = NotParked]),
                        p |-> next_chunk(q, calls[c.parked.call].who),
                        as |-> {Answer(c.parked.call, "output",
                                       Chunk(q, calls[c.parked.call].who))}])
  ELSE [c |-> Settled([c EXCEPT !.parked = NotParked]), p |-> p,
        as |-> {Answer(c.parked.call, "failed", <<>>)}]

service_run(c, p) ==
  IF c.parked.raw /\ c.state # "Closed" THEN [c |-> c, p |-> p, as |-> {}]
  ELSE With(<<Drained(c), Gathered(p, c)>>,
            LAMBDA d : IF c.peer_fin \/ c.state = "Closed" \/ d[1].parked.since > RUN_DEADLINE
                       THEN EndRun(d[1], d[2])
                       ELSE [c |-> d[1], p |-> d[2], as |-> {}])

\* A mutant: only a connection that is closing asks for a timeout.
Polled_while_closing(c) == c.state \in {"Closing", "Closed"}

(* The rule that decides whether netd's next wait has a timeout. *)
Polled(c) == c.state # "None" /\ (IsParked(c) \/ c.state \in {"Closing", "Closed"})
Polling == \/ \E s \in Remote : Polled(remotes[s])
           \/ \E s \in Session : Polled(sessions[s])

Pumped(table, idle) == [s \in DOMAIN table |-> pump(table[s].c, idle)]
Wires(pumped) == [s \in DOMAIN pumped |-> pumped[s].c]
Sends(pumped) == UNION {pumped[s].out : s \in DOMAIN pumped}
Answers(served) == UNION {served[s].as : s \in DOMAIN served}

Publish(rs, ss, p, as) ==
  /\ remotes' = Wires(rs) /\ sessions' = Wires(ss)
  /\ Send(Sends(rs) \union Sends(ss), down)
  /\ pending' = p
  /\ calls' = HeardAll(calls, as)

(* The end of a turn. *)
Serve ==
  /\ phase # "wait" \/ Polling
  /\ phase' = "wait"
  /\ \E offer \in Keying, fits \in Fits :
     \E alive \in {{i \in CallIds : Waiting(i)}} :
     \E served \in {[s \in Remote |-> service(remotes[s], "no_fs", alive, FALSE, fits)]} :
     \E sess \in {[s \in Session |-> service(sessions[s], "error", alive, offer, fits)]} :
       IF \E s \in ParkedRuns : ~remotes[s].parked.raw \/ remotes[s].state = "Closed"
       THEN \E s \in ParkedRuns : \E r \in {service_run(remotes[s], pending)} :
              Publish(Pumped([served EXCEPT ![s].c = r.c], DIAL_IDLE),
                      Pumped(sess, SESSION_IDLE), r.p,
                      r.as \union Answers(served) \union Answers(sess))
       ELSE Publish(Pumped(served, DIAL_IDLE), Pumped(sess, SESSION_IDLE), pending,
                    Answers(served) \union Answers(sess))
  /\ UNCHANGED <<port, faults>>

HearingIn(table, s) == {i \in DOMAIN table : Hears(table[i], s)}

(* A frame is handed to the first connection that hears it. *)
OnFrame ==
  /\ phase' = "frames"
  /\ \E s \in down :
       /\ IF HearingIn(remotes, s) # {}
          THEN \E i \in HearingIn(remotes, s) :
               \E d \in {dial_on_segment(remotes[i], s, REMOTE_RBUF)} :
                 remotes' = [remotes EXCEPT ![i] = d.c] /\ Send(d.out, down \ {s})
                 /\ UNCHANGED sessions
          ELSE IF HearingIn(sessions, s) # {}
          THEN \E i \in HearingIn(sessions, s) :
               \E d \in {dial_on_segment(sessions[i], s, REMOTE_RBUF)} :
                 sessions' = [sessions EXCEPT ![i] = d.c] /\ Send(d.out, down \ {s})
                 /\ UNCHANGED remotes
          ELSE Send({}, down \ {s}) /\ UNCHANGED <<remotes, sessions>>
  /\ UNCHANGED <<pending, calls, port, faults>>

(* Time passes: timers come due and deadlines near. *)
Clock ==
  /\ remotes' = [s \in Remote |-> Tick(remotes[s], IdleCap, Cap)]
  /\ sessions' = [s \in Session |-> Tick(sessions[s], IdleCap, Cap)]
  /\ UNCHANGED <<pending, phase, calls, port, world>>

---------------------------------------------------------------------------
(* The peer's export, which answers every request it is sent. *)

Accepts(q, req) == IF q.keyed THEN req.seq = q.seq + 1 ELSE req.seq = 0
Statuses(q, req) ==
  CASE ~Accepts(q, req) -> {"auth"}
    [] Accepts(q, req) /\ req.verb = "open" -> {"ok", "err"}
    [] Accepts(q, req) /\ req.verb = "clunk" -> {IF q.fids > 0 THEN "ok" ELSE "err"}
    [] OTHER -> {"ok"}

(* It serves a keyed frame as whoever signed its session. *)
ServedAs(q, req) == IF q.keyed THEN q.who ELSE req.who
Reply(q, req, n, status, eph) ==
  [k \in 1..n |-> [re |-> req, as |-> ServedAs(q, req), len |-> n, part |-> k, status |-> status, eph |-> eph]]

Answered(q, req, n, status, eph) ==
  [q EXCEPT !.todo = Tail(@), !.out = @ \o Reply(q, req, n, status, eph),
            !.fin = req.verb \in {"path", "run"},
            !.seq = IF q.keyed THEN req.seq ELSE 0,
            !.keyed = @ \/ eph, !.who = ServedAs(q, req),
            !.fids = CASE req.verb = "open" /\ status = "ok" -> @ + 1
                       [] req.verb = "clunk" /\ status = "ok" -> @ - 1
                       [] OTHER -> @]

PeerAnswers ==
  /\ \E p \in Ports :
       /\ peer[p].st = "open" /\ peer[p].todo # <<>>
       /\ \E req \in {Head(peer[p].todo)}, n \in ReplyLens :
          \E status \in Statuses(peer[p], req) :
          \E eph \in IF req.eph THEN Keying ELSE {FALSE} :
            /\ req.verb = "session" => n = 1
            /\ peer' = [peer EXCEPT ![p] = Answered(@, req, n, status, eph)]
  /\ UNCHANGED <<netd, down, lost, faults>>

(* An acknowledgement, with the first k units that have not been           *)
(* acknowledged, and the FIN after the last.                               *)
Says(p, q, k) ==
  FromPeer(p, q, q.una, IF q.fin /\ k = Len(q.out) THEN {"ACK", "FIN"} ELSE {"ACK"},
           SubSeq(q.out, 1, k))
PeerSays ==
  /\ Cardinality(down) < MaxDown
  /\ \E p \in Ports : \E k \in 0..Len(peer[p].out) :
       /\ peer[p].st = "open" /\ peer[p].rcv > 1
       /\ k = 0 => peer[p].todo # <<>>
       /\ down' = down \union {Says(p, peer[p], k)}
  /\ UNCHANGED <<netd, peer, lost, faults>>

PeerRestarts ==
  /\ faults < MaxFaults
  /\ faults' = faults + 1
  /\ \E p \in Ports : peer[p].st = "open"
  /\ peer' = [p \in Ports |-> IF peer[p].st = "open"
                              THEN [NoConn EXCEPT !.st = "closed"] ELSE peer[p]]
  /\ UNCHANGED <<netd, down, lost>>

Lose ==
  /\ lost < MaxLost
  /\ lost' = lost + 1
  /\ \E s \in down : down' = down \ {s}
  /\ UNCHANGED <<netd, peer, faults>>

---------------------------------------------------------------------------
NoCall == [st |-> "none", who |-> "nobody", name |-> 0, verb |-> "none", got |-> <<>>]

Init ==
  /\ remotes = [s \in Remote |-> NoWire]
  /\ sessions = [s \in Session |-> NoWire]
  /\ pending = NoRun
  /\ phase = "wait"
  /\ calls = [i \in CallIds |-> NoCall]
  /\ port = 0
  /\ down = {}
  /\ peer = [p \in Ports |-> NoConn]
  /\ lost = 0 /\ faults = 0

Next ==
  \/ Request \/ RunMore \/ CallerEnds
  \/ Serve \/ OnFrame \/ Clock
  \/ PeerAnswers \/ PeerSays \/ PeerRestarts \/ Lose

Spec == Init /\ [][Next]_vars
FairSpec == Spec /\ WF_vars(Serve) /\ WF_vars(Clock)

---------------------------------------------------------------------------
(* What netd owes its callers. *)

(* A call is answered at most once. *)
AnsweredOnce == \A i \in CallIds : Len(calls[i].got) <= 1

(* Every unit of an answer is the peer's answer to that very call, from    *)
(* its beginning and without a gap: whatever was lost, late or left over   *)
(* on a shared session or in the run buffer, no caller reads another's;    *)
(* and the peer served it under the name the caller had when it asked.     *)
AnswersAreTheirOwn ==
  \A i \in CallIds : \A g \in ToSet(calls[i].got) : \A k \in DOMAIN g.units :
    /\ g.units[k].re.call = i
    /\ g.units[k].part = k
    /\ g.units[k].as = calls[i].name

(* An honest peer is never taken for a forger, nor refuses us as one: the  *)
(* nonces, the session's numbers and the bytes in its buffers stay in step.*)
StaysInStep ==
  \A i \in CallIds : \A g \in ToSet(calls[i].got) :
    /\ g.kind # "auth"
    /\ \A k \in DOMAIN g.units : g.units[k].status # "auth"

(* A session kept open between verbs is kept for remote files that their   *)
(* openers know of, and that the peer, while the connection stands, holds. *)
KeptForItsFids ==
  \A s \in Session :
    LET c == sessions[s]
    IN  c.state = "Established" => IF IsParked(c) THEN TRUE ELSE
          /\ c.fids > 0
          /\ peer[c.src_port].st = "open" => peer[c.src_port].fids >= c.fids

CallersGetTheirOwn == AnsweredOnce /\ AnswersAreTheirOwn /\ StaysInStep /\ KeptForItsFids

(* Every parked call ends: by its reply, by the end of its connection, or  *)
(* by a deadline that netd is awake to see.                                *)
EveryCallEnds == \A i \in CallIds : Waiting(i) ~> ~Waiting(i)
===========================================================================
