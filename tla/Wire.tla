------------------------------- MODULE Wire -------------------------------
(***************************************************************************)
(* netd's outgoing TCP connections: the record `Wire` and the two          *)
(* functions that drive it, pump_dials (timers, transmission) and          *)
(* dial_on_segment (reception).  The connections behind /net/tcp, the      *)
(* one-shot remote requests and the client sessions are all Wires.         *)
(*                                                                         *)
(* Sequence numbers are offsets from the initial one; a buffer is a        *)
(* sequence of units.  A deadline is a timer: "off" is the code's          *)
(* retx_deadline = 0, "set" a deadline in the future, "due" one that has   *)
(* passed; `idle` counts the ticks since last_activity and parked.since    *)
(* the ticks since the parked call went out (0 while it has not).          *)
(***************************************************************************)
EXTENDS Integers, Sequences, SequencesExt

CONSTANTS DIAL_SYN_TRIES, DIAL_DATA_TRIES, DIAL_MSS

NoWire == [state |-> "None"]
NotParked == [verb |-> "none", since |-> 0]
NoParent == 0
KeyNone == [st |-> "none", seq |-> 0]

new_wire(port) ==
  [state |-> "Idle", src_port |-> port, snd_nxt |-> 0, snd_una |-> 0,
   rcv_nxt |-> 0, fin_sent |-> FALSE, sbuf |-> <<>>, inflight |-> 0,
   rbuf |-> <<>>, timer |-> "off", retries |-> 0, idle |-> 0,
   peer_fin |-> FALSE, announce_port |-> 0, parent |-> NoParent,
   pending |-> FALSE, parked |-> NotParked, uid |-> 0, fids |-> 0,
   held |-> <<>>, opener |-> 0, key |-> KeyNone]

Due(c) == c.timer # "set"
IsParked(c) == c.parked.verb # "none"

Segment(c, seq, flags, data) ==
  [port |-> c.src_port, seq |-> seq, ack |-> c.rcv_nxt,
   flags |-> flags, data |-> data]

(* A call's deadline runs from the first frame sent on its behalf. *)
Started(c) ==
  IF IsParked(c) /\ c.parked.since = 0 THEN [c EXCEPT !.parked.since = 1] ELSE c

Quiet(c) == [c |-> c, out |-> {}]
Give_up(c) == Quiet([c EXCEPT !.state = "Closed"])

PumpConnecting(c) ==
  IF ~Due(c) THEN Quiet(c)
  ELSE IF c.retries >= DIAL_SYN_TRIES THEN Give_up(c)
  ELSE [c |-> Started([c EXCEPT !.retries = @ + 1, !.timer = "set"]),
        out |-> {[Segment(c, 0, {"SYN"}, <<>>) EXCEPT !.ack = 0]}]

PumpAccepting(c) ==
  IF ~Due(c) THEN Quiet(c)
  ELSE IF c.retries >= DIAL_SYN_TRIES THEN Give_up(c)
  ELSE [c |-> [c EXCEPT !.retries = @ + 1, !.timer = "set"],
        out |-> {Segment(c, 0, {"SYN", "ACK"}, <<>>)}]

SendChunk(c, chunk) ==
  [c |-> Started([c EXCEPT !.inflight = Len(chunk), !.timer = "set",
                           !.snd_nxt = @ + Len(chunk), !.retries = 0]),
   out |-> {Segment(c, c.snd_nxt, {"ACK"}, chunk)}]

Retransmit(c) ==
  IF c.retries >= DIAL_DATA_TRIES THEN Give_up(c)
  ELSE [c |-> [c EXCEPT !.retries = @ + 1, !.timer = "set"],
        out |-> {Segment(c, c.snd_una, {"ACK"}, SubSeq(c.sbuf, 1, c.inflight))}]

PumpOpen(c) ==
  CASE c.inflight = 0 /\ c.sbuf # <<>> ->
         SendChunk(c, SubSeq(c.sbuf, 1, Min({DIAL_MSS, Len(c.sbuf)})))
    [] c.inflight > 0 -> IF Due(c) THEN Retransmit(c) ELSE Quiet(c)
    [] c.inflight = 0 /\ c.sbuf = <<>> /\ c.state = "Closing" /\ ~c.fin_sent ->
         [c |-> [c EXCEPT !.fin_sent = TRUE, !.snd_nxt = @ + 1, !.timer = "set"],
          out |-> {Segment(c, c.snd_nxt, {"FIN", "ACK"}, <<>>)}]
    [] c.inflight = 0 /\ c.sbuf = <<>> /\ c.state = "Closing" /\ c.fin_sent ->
         IF Due(c) THEN Give_up(c) ELSE Quiet(c)
    [] OTHER -> Quiet(c)

(* The end of one connection's turn: an idle one is closed, a finished one *)
(* whose bytes have been read gives its slot back.                         *)
Reap(c, idle_ticks) ==
  LET idle == c.state # "Listening" /\ c.idle > idle_ticks
      was_open == c.state = "Established"
  IN  CASE IsParked(c) -> c
        [] ~IsParked(c) /\ c.state = "Closed" /\ c.rbuf = <<>> -> NoWire
        [] ~IsParked(c) /\ idle /\ was_open -> [c EXCEPT !.state = "Closing"]
        [] ~IsParked(c) /\ idle /\ ~was_open -> NoWire
        [] OTHER -> c

pump_dial(c) ==
  CASE c.state = "Connecting" -> PumpConnecting(c)
    [] c.state = "Accepting" -> PumpAccepting(c)
    [] c.state \in {"Established", "Closing"} -> PumpOpen(c)
    [] OTHER -> Quiet(c)

(* One connection's turn of pump_dials. *)
pump(c, idle_ticks) ==
  IF c.state = "None" THEN Quiet(c)
  ELSE LET p == pump_dial(c) IN [p EXCEPT !.c = Reap(p.c, idle_ticks)]

---------------------------------------------------------------------------
(* Reception: what dial_on_segment does, one part of the segment at a time *)

Accepted(c, s) ==
  IF c.state = "Accepting" /\ "ACK" \in s.flags /\ s.ack = 1
  THEN [c EXCEPT !.snd_una = 1, !.state = "Established",
                 !.timer = "off", !.retries = 0]
  ELSE c

Connected(c, s) ==
  IF {"SYN", "ACK"} \subseteq s.flags /\ s.ack = 1
  THEN LET e == [c EXCEPT !.snd_nxt = 1, !.snd_una = 1, !.rcv_nxt = s.seq + 1,
                          !.state = "Established", !.timer = "off", !.retries = 0]
       IN  [c |-> e, out |-> {Segment(e, 1, {"ACK"}, <<>>)}]
  ELSE Quiet(c)

TakeAck(c, s) ==
  IF s.ack <= c.snd_una THEN c
  ELSE LET acked == Min({s.ack - c.snd_una, c.inflight})
       IN  [c EXCEPT !.sbuf = SubSeq(@, acked + 1, Len(@)),
                     !.inflight = @ - acked, !.snd_una = s.ack, !.retries = 0,
                     !.timer = IF c.inflight = acked THEN "off" ELSE @]

(* Data only in order, and only as much as the receive buffer has room for. *)
TakeData(c, s, room) ==
  IF s.data = <<>> \/ s.seq # c.rcv_nxt \/ room <= 0 THEN Quiet(c)
  ELSE LET e == [c EXCEPT !.rbuf = @ \o SubSeq(s.data, 1, Min({room, Len(s.data)})),
                          !.rcv_nxt = @ + Min({room, Len(s.data)})]
       IN  [c |-> e, out |-> {Segment(e, e.snd_nxt, {"ACK"}, <<>>)}]

TakeFin(d, s) ==
  IF "FIN" \notin s.flags \/ s.seq + Len(s.data) # d.c.rcv_nxt THEN d
  ELSE LET e == [d.c EXCEPT !.rcv_nxt = @ + 1, !.peer_fin = TRUE,
                            !.fin_sent = TRUE, !.state = "Closed",
                            !.snd_nxt = IF d.c.fin_sent THEN @ ELSE @ + 1]
       IN  [c |-> e,
            out |-> d.out \union {Segment(e, d.c.snd_nxt, {"ACK"}, <<>>)}
                    \union IF d.c.fin_sent THEN {}
                           ELSE {Segment(e, d.c.snd_nxt, {"FIN", "ACK"}, <<>>)}]

OnOpen(c, s, cap) == TakeFin(TakeData(c, s, cap - Len(c.rbuf)), s)

dial_on_segment(c0, s, cap) ==
  IF "RST" \in s.flags THEN Quiet([c0 EXCEPT !.state = "Closed", !.idle = 0])
  ELSE LET c == Accepted([c0 EXCEPT !.idle = 0], s)
       IN  CASE c.state = "Connecting" -> Connected(c, s)
             [] c.state \in {"Established", "Closing"} -> OnOpen(TakeAck(c, s), s, cap)
             [] OTHER -> Quiet(c)

(* Which connections hear a segment at all. *)
Hears(c, s) == c.state \notin {"None", "Free", "Idle"} /\ c.src_port = s.port

(* One tick of the clock for one connection; counts stop one past the      *)
(* longest time any rule looks back.                                       *)
Tick(c, idle_cap, cap) ==
  IF c.state = "None" THEN c
  ELSE [c EXCEPT !.timer = IF @ = "set" THEN "due" ELSE @,
                 !.idle = Min({@ + 1, idle_cap}),
                 !.parked.since = IF @ = 0 THEN 0 ELSE Min({@ + 1, cap})]
===========================================================================
