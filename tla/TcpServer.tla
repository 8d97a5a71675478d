------------------------------ MODULE TcpServer ------------------------------
(***************************************************************************)
(* The TCP server of netd (programs/servers/netd): one served connection,  *)
(* the peer that uses it and the network between them.  The connection     *)
(* answers an HTTP request, a cpu run, or the requests of a 9P session one *)
(* after the other.  A reply is a fixed stream of bytes, [prefix][file],   *)
(* and a retransmission recomputes from a sequence number which of them to *)
(* send again.  One step of the server is one turn of the loop in serve:   *)
(* the frames that have arrived, the timers, then everything the window    *)
(* lets out.                                                               *)
(*                                                                         *)
(* A byte of the k-th position of the i-th reply is the pair <<i, k>>.     *)
(* The clock is left out: a timer that is set may have run out or not.     *)
(***************************************************************************)
EXTENDS Integers, Sequences, FiniteSets, SequencesExt

CONSTANTS SEQ,              \* sequence numbers are taken modulo SEQ (2^32)
          SERVER_ISN,
          SERVE_CHUNK, MAX_CWND, RTO_MAX_RETRIES, PREFIX_MAX,
          Kinds,            \* what the peer asks for: "http" "run" "session"
          PrefixLen, FileLen, Requests,
          Windows,          \* the windows the peer advertises
          MaxPath,          \* segments the path to netd holds
          MaxLost,          \* segments the network loses
          MaxDown           \* turns that find fsd down

VARIABLES kind,   \* what the peer asks for
          conn,   \* the connection in the table, or None
          peer,   \* the peer's end
          c2s,    \* the path to netd: in order, with losses
          s2c,    \* the path from netd: any order, with losses
          child,  \* the bytes the cpu child has written, and whether it runs
          lost, down

vars == <<kind, conn, peer, c2s, s2c, child, lost, down>>

None == [open |-> FALSE]
MSS == SERVE_CHUNK
INIT_CWND == 4 * MSS
INIT_SSTHRESH == MAX_CWND
MIN_CWND == 2 * MSS

Plus(a, n) == (a + n) % SEQ
Less(a, b) == (a - b) % SEQ
seq_gt(a, b) == Less(a, b) \in 1 .. (SEQ \div 2) - 1

Reply(i) == [k \in 1 .. (CASE kind = "http" -> PrefixLen + FileLen
                           [] kind = "run" -> Min({child.wrote, PREFIX_MAX})
                           [] OTHER -> PrefixLen) |-> <<i, k>>]

-----------------------------------------------------------------------------
(* What netd sends.  build_tcp_srv frames it; here a segment is a record.  *)

send_seg_at(c, seq, flags, data) ==
    [flags |-> flags, seq |-> seq, ack |-> c.rcv_nxt, data |-> data]

send_seg(c, flags, data) == send_seg_at(c, c.snd_nxt, flags, data)

-----------------------------------------------------------------------------
reply_pending(c) == c.prefix_off < Len(c.prefix) \/ (c.file /\ ~c.eof)

session_reset_if_done(c) ==
    IF /\ c.session /\ c.responded /\ ~c.fin_sent /\ ~c.cpu_child
       /\ ~reply_pending(c) /\ c.snd_nxt = c.snd_una
    THEN [c EXCEPT !.responded = FALSE, !.prefix = <<>>, !.prefix_off = 0,
                   !.eof = FALSE, !.file = FALSE]
    ELSE c

\* A mutant: the sequence number is taken for one of the prefix.
rewind_to_in_the_prefix(c, seq) ==
    [c EXCEPT !.snd_nxt = seq, !.prefix_off = Min({Less(seq, c.data_base), Len(c.prefix)}),
              !.eof = FALSE, !.fin_sent = FALSE]

(* Go back to a sequence number: its byte follows from data_base.          *)
rewind_to(c, seq) ==
    LET off == Less(seq, c.data_base)
    IN  [c EXCEPT !.snd_nxt = seq,
                  !.prefix_off = Min({off, Len(c.prefix)}),
                  !.read_off = Max({0, off - Len(c.prefix)}),
                  !.eof = FALSE, !.fin_sent = FALSE]

(* At most n bytes of the served file from offset off; none when fsd does  *)
(* not answer.                                                             *)
read_file_chunk(off, n, up) ==
    IF up THEN [k \in 1 .. Max({0, Min({n, FileLen - off})}) |-> <<1, PrefixLen + off + k>>]
    ELSE <<>>

retransmit_one(c, seq, n, up) ==
    LET off == Less(seq, c.data_base)
        len == Min({n, SERVE_CHUNK})
    IN  IF off < Len(c.prefix)
        THEN {send_seg_at(c, seq, {"ACK"}, SubSeq(c.prefix, off + 1, Min({off + len, Len(c.prefix)})))}
        ELSE IF c.file /\ up
        THEN {send_seg_at(c, seq, {"ACK"}, read_file_chunk(off - Len(c.prefix), len, up))}
        ELSE {}

(* Resend the hole below the lowest block the peer holds, in at most eight *)
(* segments; go back all the way when no block lies above snd_una.         *)
sack_retransmit(c, seg, up) ==
    LET edges == {l \in seg.sack : seq_gt(l, c.snd_una)}
        hole == Min({Less(l, c.snd_una) : l \in edges})
        starts == {n \in 0 .. 7 : n * SERVE_CHUNK < hole}
    IN  IF edges = {}
        THEN [c |-> rewind_to(c, c.snd_una), out |-> {}]
        ELSE [c |-> c,
              out |-> UNION {retransmit_one(c, Plus(c.snd_una, n * SERVE_CHUNK),
                                            Min({hole - n * SERVE_CHUNK, SERVE_CHUNK}), up)
                             : n \in starts}]

-----------------------------------------------------------------------------
(* One segment of the peer's.                                              *)

(* A SYN opens the connection, or builds it anew.                          *)
NewConn(seg) ==
    [open |-> TRUE, established |-> FALSE, snd_nxt |-> SERVER_ISN, snd_una |-> SERVER_ISN,
     rcv_nxt |-> seg.seq + 1, window |-> seg.window, responded |-> FALSE,
     prefix |-> <<>>, prefix_off |-> 0, file |-> FALSE, read_off |-> 0,
     eof |-> FALSE, fin_sent |-> FALSE, dup_acks |-> 0, last_rexmit_una |-> 0,
     rto_armed |-> FALSE, rto_snd_una |-> SERVER_ISN, rto_retries |-> 0,
     cwnd |-> INIT_CWND, ssthresh |-> INIT_SSTHRESH, cpu_child |-> FALSE,
     session |-> FALSE, data_base |-> Plus(SERVER_ISN, 1)]

OnSyn(seg) ==
    LET c == NewConn(seg)
    IN  [c |-> [c EXCEPT !.snd_nxt = Plus(@, 1)], out |-> {send_seg(c, {"SYN", "ACK"}, <<>>)}]

Acknowledged(c, seg) ==
    LET grown == IF c.cwnd < c.ssthresh
                 THEN c.cwnd + Min({Less(seg.ack, c.snd_una), MSS})
                 ELSE c.cwnd + Max({(MSS * MSS) \div c.cwnd, 1})
        d == [c EXCEPT !.snd_una = seg.ack, !.dup_acks = 0, !.cwnd = Min({grown, MAX_CWND})]
    IN  IF seq_gt(d.snd_una, d.snd_nxt) THEN rewind_to(d, d.snd_una) ELSE d

DuplicateAck(c, seg, up) ==
    LET d == [c EXCEPT !.dup_acks = @ + 1]
        half == Max({c.cwnd \div 2, MIN_CWND})
        e == [d EXCEPT !.ssthresh = half, !.cwnd = half]
        r == IF seg.sack # {} THEN sack_retransmit(e, seg, up)
             ELSE [c |-> rewind_to(e, e.snd_una), out |-> {}]
    IN  IF d.dup_acks >= 3 /\ d.last_rexmit_una # d.snd_una
        THEN [c |-> [r.c EXCEPT !.last_rexmit_una = r.c.snd_una, !.dup_acks = 0], out |-> r.out]
        ELSE [c |-> d, out |-> {}]

ProcessAck(c, seg, up) ==
    CASE "ACK" \notin seg.flags -> [c |-> c, out |-> {}]
      [] seq_gt(seg.ack, c.snd_una) -> [c |-> Acknowledged(c, seg), out |-> {}]
      [] seg.ack = c.snd_una /\ c.snd_nxt # c.snd_una /\ seg.len = 0 -> DuplicateAck(c, seg, up)
      [] OTHER -> [c |-> c, out |-> {}]

start_response(c) ==
    [c EXCEPT !.prefix = SubSeq(Reply(1), 1, PrefixLen), !.prefix_off = 0, !.file = TRUE,
              !.read_off = 0, !.eof = FALSE, !.fin_sent = FALSE]

(* The reply a 9P request stages: the output of a child yet to write any,  *)
(* or a reply of the session.                                              *)
handle_9p(c, seg) ==
    IF kind = "run"
    THEN [c EXCEPT !.prefix = <<>>, !.prefix_off = 0, !.file = FALSE, !.cpu_child = TRUE]
    ELSE [c EXCEPT !.session = TRUE, !.prefix = Reply(seg.req), !.prefix_off = 0, !.file = FALSE]

TakeRequest(c, seg) ==
    LET d == [c EXCEPT !.rcv_nxt = @ + seg.len, !.responded = TRUE, !.data_base = c.snd_nxt]
    IN  IF kind = "http" THEN start_response(d) ELSE handle_9p(d, seg)

handle_conn_segment(c, seg, up) ==
    LET a == ProcessAck(c, seg, up)
        w == session_reset_if_done(
                [a.c EXCEPT !.window = seg.window, !.established = @ \/ "ACK" \in seg.flags])
        t == IF ~w.responded /\ seg.len > 0 /\ seg.seq = w.rcv_nxt THEN TakeRequest(w, seg) ELSE w
        f == [t EXCEPT !.rcv_nxt = seg.seq + seg.len + 1]
    IN  IF "FIN" \in seg.flags
        THEN [c |-> None, out |-> a.out \cup {send_seg(f, {"ACK"}, <<>>)}]
        ELSE [c |-> t, out |-> a.out]

handle_tcp(c, seg, up) ==
    CASE "RST" \in seg.flags -> [c |-> None, out |-> {}]
      [] "SYN" \in seg.flags -> OnSyn(seg)
      [] OTHER -> IF c.open THEN handle_conn_segment(c, seg, up) ELSE [c |-> c, out |-> {}]

-----------------------------------------------------------------------------
(* The timers and the sending.                                             *)

service_rto(c, expired) ==
    LET half == Max({c.cwnd \div 2, MIN_CWND})
    IN  CASE c.snd_nxt = c.snd_una ->
               [c |-> [c EXCEPT !.rto_armed = FALSE, !.rto_retries = 0, !.rto_snd_una = c.snd_una],
                out |-> {}]
          [] c.snd_nxt # c.snd_una /\ c.snd_una # c.rto_snd_una ->
               [c |-> [c EXCEPT !.rto_snd_una = c.snd_una, !.rto_retries = 0, !.rto_armed = TRUE],
                out |-> {}]
          [] OTHER ->
               IF ~c.rto_armed \/ ~expired
               THEN [c |-> [c EXCEPT !.rto_armed = TRUE], out |-> {}]
               ELSE IF c.rto_retries >= RTO_MAX_RETRIES
               THEN [c |-> None, out |-> {send_seg(c, {"RST"}, <<>>)}]
               ELSE [c |-> rewind_to([c EXCEPT !.ssthresh = half, !.cwnd = MSS,
                                               !.rto_retries = @ + 1], c.snd_una),
                     out |-> {}]

reap_idle(c, silent) ==
    IF c.open /\ ~c.cpu_child /\ c.snd_nxt = c.snd_una /\ silent
    THEN [c |-> None, out |-> {send_seg(c, {"RST", "ACK"}, <<>>)}]
    ELSE [c |-> c, out |-> {}]

pump_send(c, up) ==
    LET avail == Max({0, Min({c.cwnd, c.window}) - Less(c.snd_nxt, c.snd_una)})
        head == SubSeq(c.prefix, c.prefix_off + 1,
                       c.prefix_off + Min({Len(c.prefix) - c.prefix_off, SERVE_CHUNK, avail}))
        body == IF c.file /\ ~c.eof THEN read_file_chunk(c.read_off, Min({SERVE_CHUNK, avail}), up)
                ELSE <<>>
        end == [c EXCEPT !.eof = @ \/ c.file]
    IN  CASE c.cpu_child \/ avail = 0 -> [c |-> c, out |-> {}]
          [] ~c.cpu_child /\ avail > 0 /\ head # <<>> ->
               [c |-> [c EXCEPT !.snd_nxt = Plus(@, Len(head)), !.prefix_off = @ + Len(head)],
                out |-> {send_seg(c, {"ACK"}, head)}]
          [] ~c.cpu_child /\ avail > 0 /\ head = <<>> /\ body # <<>> ->
               [c |-> [c EXCEPT !.snd_nxt = Plus(@, Len(body)), !.read_off = @ + Len(body)],
                out |-> {send_seg(c, {"ACK"}, body)}]
          [] OTHER ->
               IF c.session THEN [c |-> session_reset_if_done(end), out |-> {}]
               ELSE IF c.fin_sent THEN [c |-> end, out |-> {}]
               ELSE [c |-> [end EXCEPT !.snd_nxt = Plus(@, 1), !.fin_sent = TRUE],
                     out |-> {send_seg(c, {"FIN", "ACK"}, <<>>)}]

RECURSIVE Pumped(_, _)
Pumped(r, up) ==
    LET p == pump_send(r.c, up)
    IN  IF ~r.c.open \/ ~r.c.responded THEN r
        ELSE IF p.c.snd_nxt = r.c.snd_nxt THEN [c |-> p.c, out |-> r.out \cup p.out]
        ELSE Pumped([c |-> p.c, out |-> r.out \cup p.out], up)

RECURSIVE Received(_, _, _)
Received(r, segs, up) ==
    IF segs = <<>> THEN r
    ELSE LET h == handle_tcp(r.c, Head(segs), up)
         IN  Received([c |-> h.c, out |-> r.out \cup h.out], Tail(segs), up)

Serviced(r, expired, silent, up) ==
    LET t == service_rto(r.c, expired)
        i == reap_idle(t.c, silent)
    IN  IF ~r.c.open THEN r
        ELSE IF ~t.c.open THEN [c |-> None, out |-> r.out \cup t.out]
        ELSE Pumped([c |-> i.c, out |-> r.out \cup t.out \cup i.out], up)

-----------------------------------------------------------------------------
(* The peer, an ordinary TCP: it holds what comes early, acknowledges what *)
(* is in order, reports what it holds, and repeats what is not answered.   *)
(* Its own sequence numbers count its SYN and its requests.                *)

Segment(p, flags, seq, len, w) ==
    [flags |-> flags, seq |-> seq, ack |-> p.rcv, len |-> len, req |-> seq, window |-> w,
     sack |-> {b.at : b \in {h \in p.held : ~\E g \in p.held : Plus(g.at, 1) = h.at}}]

Sent(seg) == c2s' = IF Len(c2s) < MaxPath THEN Append(c2s, seg) ELSE c2s

RECURSIVE InOrder(_)
InOrder(p) ==
    LET now == {h \in p.held : h.at = p.rcv}
        b == CHOOSE h \in now : TRUE
    IN  IF now = {} \/ p.fin THEN p
        ELSE InOrder([p EXCEPT !.rcv = Plus(@, 1), !.held = @ \ now, !.fin = b.byte = "FIN",
                               !.got = IF b.byte = "FIN" THEN @ ELSE Append(@, b.byte)])

Taken(p, seg) ==
    LET bytes == IF "FIN" \in seg.flags THEN Append(seg.data, "FIN") ELSE seg.data
        new == {b \in {[at |-> Plus(seg.seq, k - 1), byte |-> bytes[k]] : k \in 1 .. Len(bytes)} :
                  /\ Less(b.at, p.rcv) < SEQ \div 2
                  /\ ~\E h \in p.held : h.at = b.at}
    IN  InOrder([p EXCEPT !.held = @ \cup new, !.heard = Max({@, seg.ack})])

Connect ==
    /\ peer.st = "closed" \/ (peer.st = "syn" /\ c2s = <<>>)
    /\ peer' = [peer EXCEPT !.st = "syn"]
    /\ c2s' = Append(c2s, Segment(peer, {"SYN"}, 0, 0, Max(Windows)))
    /\ UNCHANGED <<kind, conn, s2c, child, lost, down>>

Request(p) == Segment(p, {"ACK"}, p.asked, 1, p.window)

Ask ==
    /\ peer.st = "open" /\ kind = "session" /\ peer.asked < Requests
    /\ Len(peer.got) = peer.asked * PrefixLen
    /\ \E p \in {[peer EXCEPT !.asked = @ + 1]} : peer' = p /\ Sent(Request(p))
    /\ UNCHANGED <<kind, conn, s2c, child, lost, down>>

AskAgain ==
    /\ peer.st = "open" /\ peer.heard <= peer.asked /\ c2s = <<>>
    /\ Sent(Request(peer))
    /\ UNCHANGED <<kind, conn, peer, s2c, child, lost, down>>

WindowUpdate ==
    /\ peer.st = "open" /\ peer.window < Max(Windows) /\ c2s = <<>>
    /\ peer' = [peer EXCEPT !.window = Max(Windows)]
    /\ Sent(Segment(peer, {"ACK"}, peer.asked + 1, 0, Max(Windows)))
    /\ UNCHANGED <<kind, conn, s2c, child, lost, down>>

Close ==
    /\ peer.st = "open" /\ kind = "session" /\ peer.asked = Requests
    /\ Len(peer.got) = peer.asked * PrefixLen
    /\ peer' = [peer EXCEPT !.st = "done"]
    /\ Sent(Segment(peer, {"FIN", "ACK"}, peer.asked + 1, 0, peer.window))
    /\ UNCHANGED <<kind, conn, s2c, child, lost, down>>

Nothing(seg) == seg.data = <<>> /\ "FIN" \notin seg.flags

(* A segment reaches the peer.                                             *)
Deliver ==
    \E seg \in s2c, w \in Windows :
      /\ s2c' = s2c \ {seg}
      /\ \E p \in {Taken(peer, seg)} :
           CASE peer.st \in {"syn", "open"} /\ "RST" \in seg.flags ->
                  peer' = [peer EXCEPT !.st = "reset"] /\ UNCHANGED c2s
             [] peer.st = "syn" /\ "SYN" \in seg.flags ->
                  \E q \in {[peer EXCEPT !.st = "open", !.rcv = Plus(seg.seq, 1), !.asked = 1,
                                         !.heard = 1, !.window = w]} :
                     peer' = q /\ Sent(Request(q))
             [] peer.st = "open" /\ seg.flags \cap {"SYN", "RST"} = {} /\ ~p.fin ->
                  /\ peer' = [p EXCEPT !.window = IF Nothing(seg) THEN @ ELSE w]
                  /\ IF Nothing(seg) THEN UNCHANGED c2s
                     ELSE Sent(Segment(p, {"ACK"}, p.asked + 1, 0, w))
             [] peer.st \in {"open", "done"} /\ seg.flags \cap {"SYN", "RST"} = {} /\ p.fin ->
                  /\ peer' = [p EXCEPT !.st = "done", !.held = {}]
                  /\ Sent(Segment([p EXCEPT !.held = {}], {"FIN", "ACK"}, p.asked + 1, 0, peer.window))
             [] OTHER -> UNCHANGED <<peer, c2s>>
      /\ UNCHANGED <<kind, conn, child, lost, down>>

GiveUp ==
    /\ peer.st = "open" /\ ~conn.open /\ c2s = <<>> /\ s2c = {}
    /\ peer' = [peer EXCEPT !.st = "reset"]
    /\ UNCHANGED <<kind, conn, c2s, s2c, child, lost, down>>

Lose ==
    /\ lost < MaxLost /\ lost' = lost + 1
    /\ \/ \E seg \in s2c : s2c' = s2c \ {seg} /\ UNCHANGED c2s
       \/ \E i \in 1 .. Len(c2s) : c2s' = RemoveAt(c2s, i) /\ UNCHANGED s2c
    /\ UNCHANGED <<kind, conn, peer, child, down>>

-----------------------------------------------------------------------------
(* netd.                                                                   *)

(* The peer has been quiet for CONN_IDLE_TICKS: nothing of its is on the   *)
(* way, and it is waiting neither for a handshake nor for a request to be  *)
(* acknowledged, both of which it would repeat long before.                *)
Silent ==
    /\ c2s = <<>> /\ s2c = {} /\ peer.st # "syn"
    /\ peer.st = "open" => peer.heard > peer.asked

(* One turn of the loop.  netd wakes for a frame, for a message (the       *)
(* supervisor's ping among them) or, with bytes unacknowledged, by itself. *)
serve ==
    \E n \in 0 .. Len(c2s), expired, silent, up \in BOOLEAN :
      /\ expired => conn.open /\ conn.rto_armed
      /\ silent => Silent /\ n = 0
      /\ ~up => kind = "http" /\ down < MaxDown
      /\ \E r \in {Serviced(Received([c |-> conn, out |-> {}], SubSeq(c2s, 1, n), up),
                             expired, silent, up)} :
           conn' = r.c /\ s2c' = s2c \cup r.out
      /\ c2s' = SubSeq(c2s, n + 1, Len(c2s))
      /\ down' = IF up THEN down ELSE down + 1
      /\ UNCHANGED <<kind, peer, child, lost>>

(* A message of the cpu child: output, or, when empty, its end.            *)
cpu_child_msg ==
    /\ conn.open /\ conn.cpu_child
    /\ \/ /\ child.wrote <= PREFIX_MAX
          /\ child' = [wrote |-> child.wrote + 1]
          /\ conn' = IF Len(conn.prefix) < PREFIX_MAX
                     THEN [conn EXCEPT !.prefix = Append(@, <<1, child.wrote + 1>>)] ELSE conn
       \/ conn' = [conn EXCEPT !.cpu_child = FALSE] /\ UNCHANGED child
    /\ UNCHANGED <<kind, peer, c2s, s2c, lost, down>>

Init ==
    /\ kind \in Kinds
    /\ conn = None /\ c2s = <<>> /\ s2c = {} /\ lost = 0 /\ down = 0
    /\ child = [wrote |-> 0]
    /\ peer = [st |-> "closed", rcv |-> 0, got |-> <<>>, held |-> {}, fin |-> FALSE, asked |-> 0,
               heard |-> 0, window |-> Max(Windows)]

Next ==
    \/ Connect \/ Ask \/ AskAgain \/ WindowUpdate \/ Close \/ Deliver \/ GiveUp
    \/ Lose \/ serve \/ cpu_child_msg

Spec == Init /\ [][Next]_vars

-----------------------------------------------------------------------------
(* What the peer assembles is, at every moment, the beginning of the       *)
(* replies to its requests in order, and all of it once netd has closed    *)
(* the stream, whatever was lost, repeated, reordered or resent from the   *)
(* middle (rewind_to, sack_retransmit, session_reset_if_done).             *)
StreamIntact ==
    \E all \in {FlattenSeq([i \in 1 .. peer.asked |-> Reply(i)])} :
      /\ IsPrefix(peer.got, all)
      /\ peer.st = "done" /\ down = 0 => peer.got = all

=============================================================================
