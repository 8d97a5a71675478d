------------------------------- MODULE Dials -------------------------------
(***************************************************************************)
(* The connections behind the files of /net/tcp: a program opens `clone`,  *)
(* writes `connect` or `announce` to `ctl`, reads `listen`, reads and      *)
(* writes `data`, writes `close`.  Two machines run the same netd: a       *)
(* program on one dials, a program on the other listens and accepts, over  *)
(* a network that loses and reorders.                                      *)
(*                                                                         *)
(* Every file operation is a request netd answers at once; a turn of its   *)
(* loop handles a request or a frame, or comes from the timer its polling  *)
(* rule asks for, and ends with pump_dials over the table.  Both ends of a *)
(* connection are named by the dialling port.                              *)
(***************************************************************************)
EXTENDS Wire, FiniteSets

CONSTANTS
  MAX_DIAL, DIAL_SBUF, DIAL_RBUF, DIAL_READ_MAX, DIAL_IDLE,
  MaxPort, MaxWrite, MaxLost, MaxNet

VARIABLES
  dials,          \* per machine, the table of connections
  prog,           \* per machine, the program's slots: listener, connection
  net,            \* frames under way
  lost, port,
  wrote, read,    \* per machine and connection, what its program did so far
  hung,           \* the ends that closed of themselves, and what was written by then
  ended           \* the ones the other end closed, and how much had arrived

vars == <<dials, prog, net, lost, port, wrote, read, hung, ended>>

Machines == {"dialler", "listener"}
Other(x) == IF x = "dialler" THEN "listener" ELSE "dialler"
Slots == 1..MAX_DIAL
Ports == 1..MaxPort
ServicePort == 7

At(x, n) == dials[x][n]
FreeSlots(x) == {s \in Slots : dials[x][s].state \in {"None", "Free"}}
alloc_dial_slot(x) == Min(FreeSlots(x))

Frames(x, out) == {[to |-> Other(x), seg |-> s] : s \in out}

Hung(x) == {h[2] : h \in {g \in hung : g[1] = x}}
Quits(c) == c.state = "Closing" \/ (c.state = "Closed" /\ ~c.peer_fin)

(* The end of a turn that has left the table so and sent these frames. *)
Turn(x, table, frames) ==
  \E p \in {[s \in Slots |-> pump(table[s], DIAL_IDLE)]} :
    /\ dials' = [dials EXCEPT ![x] = [s \in Slots |-> p[s].c]]
    /\ net' = frames \union Frames(x, UNION {p[s].out : s \in Slots})
    /\ hung' = hung \union {<<x, q, wrote[x][q]>> :
                 q \in {table[s].src_port : s \in {t \in Slots : Quits(p[t].c)}} \ Hung(x)}

---------------------------------------------------------------------------
(* The files *)

(* A program keeps the number `clone` answers; it asks for one connection, *)
(* or announces one port, right after, and serves one caller (dial,        *)
(* serve).                                                                 *)
Clone(x) ==
  /\ port < MaxPort /\ FreeSlots(x) # {} /\ prog[x].asked = "no"
  /\ IF x = "listener" THEN prog[x].lis = 0
     ELSE prog[x].con = 0 /\ \E s \in Slots : At("listener", s).state = "Listening"
  /\ port' = port + 1
  /\ Turn(x, [dials[x] EXCEPT ![alloc_dial_slot(x)] = new_wire(port + 1)], net)
  /\ prog' = [prog EXCEPT ![x] = IF x = "listener" THEN [@ EXCEPT !.lis = alloc_dial_slot(x)]
                                 ELSE [@ EXCEPT !.con = alloc_dial_slot(x)]]
  /\ UNCHANGED <<lost, wrote, read, ended>>

Held(x, n) == n # 0 /\ IF n = 0 THEN FALSE ELSE At(x, n).state # "None"

ctl_connect(c) ==
  {[c EXCEPT !.state = "Connecting", !.timer = "off", !.retries = 0, !.idle = 0,
             !.snd_nxt = 0, !.snd_una = 0],
   [c EXCEPT !.state = "Closed"]}                    \* no answer to the ARP
ctl_announce(c) ==
  [c EXCEPT !.state = "Listening", !.announce_port = ServicePort, !.idle = 0]

(* An established connection flushes what was written first. *)
ctl_close(c) ==
  [c EXCEPT !.idle = 0, !.state = IF @ = "Established" THEN "Closing" ELSE "Closed"]

CtlConnect(x) ==
  /\ x = "dialler" /\ Held(x, prog[x].con) /\ prog[x].asked = "no"
  /\ \E c \in ctl_connect(At(x, prog[x].con)) :
       Turn(x, [dials[x] EXCEPT ![prog[x].con] = c], net)
  /\ prog' = [prog EXCEPT ![x].asked = "yes"]
  /\ UNCHANGED <<lost, port, wrote, read, ended>>

CtlAnnounce(x) ==
  /\ x = "listener" /\ Held(x, prog[x].lis) /\ prog[x].asked = "no"
  /\ Turn(x, [dials[x] EXCEPT ![prog[x].lis] = ctl_announce(@)], net)
  /\ prog' = [prog EXCEPT ![x].asked = "yes"]
  /\ UNCHANGED <<lost, port, wrote, read, ended>>

(* A program closes its connection when it is done, then its listener. *)
CtlClose(x, slot) ==
  /\ Held(x, prog[x][slot]) /\ prog[x].asked = IF slot = "con" THEN "yes" ELSE "done"
  /\ Turn(x, [dials[x] EXCEPT ![prog[x][slot]] = ctl_close(@)], net)
  /\ prog' = [prog EXCEPT ![x][slot] = 0, ![x].asked = "done"]
  /\ UNCHANGED <<lost, port, wrote, read, ended>>

(* `listen` names one accepted connection, and each only once. *)
PendingOf(x, n) ==
  {s \in Slots : IF At(x, s).state = "None" THEN FALSE
                 ELSE At(x, s).parent = n /\ At(x, s).pending}
Listen(x) ==
  /\ Held(x, prog[x].lis) /\ prog[x].con = 0 /\ prog[x].asked = "yes"
  /\ PendingOf(x, prog[x].lis) # {}
  /\ \E m \in {Min(PendingOf(x, prog[x].lis))} :
       /\ Turn(x, [dials[x] EXCEPT ![m].pending = FALSE], net)
       /\ prog' = [prog EXCEPT ![x].con = m]
  /\ UNCHANGED <<lost, port, wrote, read, ended>>

(* A write takes what fits; the next unit's number is what it carries. *)
DataWrite(x) ==
  /\ Held(x, prog[x].con)
  /\ \E c \in {At(x, prog[x].con)} :
       /\ Len(c.sbuf) < DIAL_SBUF /\ wrote[x][c.src_port] < MaxWrite[x]
       /\ Turn(x, [dials[x] EXCEPT ![prog[x].con] =
                      [@ EXCEPT !.idle = 0, !.sbuf = Append(@, wrote[x][c.src_port] + 1)]], net)
       /\ wrote' = [wrote EXCEPT ![x][c.src_port] = @ + 1]
  /\ UNCHANGED <<prog, lost, port, read, ended>>

DataRead(x) ==
  /\ Held(x, prog[x].con)
  /\ \E c \in {At(x, prog[x].con)} : \E take \in {Min({Len(c.rbuf), DIAL_READ_MAX})} :
       /\ take > 0
       /\ Turn(x, [dials[x] EXCEPT ![prog[x].con] =
                      [@ EXCEPT !.idle = 0, !.rbuf = SubSeq(@, take + 1, Len(@))]], net)
       /\ read' = [read EXCEPT ![x][c.src_port] = @ \o SubSeq(c.rbuf, 1, take)]
  /\ UNCHANGED <<prog, lost, port, wrote, ended>>

---------------------------------------------------------------------------
(* Frames *)

Hearing(x, s) == {i \in Slots : Hears(At(x, i), s)}
Listeners(x) == {i \in Slots : At(x, i).state = "Listening"}

(* A SYN for an announced port takes a slot and is answered from it. *)
AcceptedWire(x, s) ==
  [new_wire(s.port) EXCEPT !.state = "Accepting", !.rcv_nxt = s.seq + 1, !.snd_nxt = 1,
                           !.parent = Min(Listeners(x)), !.pending = TRUE, !.timer = "set"]
dial_accept(x, s, rest) ==
  IF FreeSlots(x) = {} THEN Turn(x, dials[x], rest)
  ELSE \E c \in {AcceptedWire(x, s)} :
         Turn(x, [dials[x] EXCEPT ![alloc_dial_slot(x)] = c],
              rest \union Frames(x, {Segment(c, 0, {"SYN", "ACK"}, <<>>)}))

Noted(x, before, c) ==
  IF c.peer_fin /\ ~before.peer_fin /\ c.src_port \notin Hung(x)
  THEN ended \union {<<x, c.src_port, Len(read[x][c.src_port]) + Len(c.rbuf)>>}
  ELSE ended

OnFrame(x) ==
  /\ \E f \in net :
       /\ f.to = x
       /\ IF Hearing(x, f.seg) # {}
          THEN \E i \in {Min(Hearing(x, f.seg))} :
               \E d \in {dial_on_segment(At(x, i), f.seg, DIAL_RBUF)} :
                 /\ ended' = Noted(x, At(x, i), d.c)
                 /\ Turn(x, [dials[x] EXCEPT ![i] = d.c], (net \ {f}) \union Frames(x, d.out))
          ELSE IF f.seg.flags = {"SYN"} /\ Listeners(x) # {}
          THEN dial_accept(x, f.seg, net \ {f}) /\ UNCHANGED ended
          ELSE Turn(x, dials[x], net \ {f}) /\ UNCHANGED ended
  /\ UNCHANGED <<prog, lost, port, wrote, read>>

(* The part of the polling rule that is about this table. *)
Polled(c) ==
  \/ c.state = "Connecting"
  \/ /\ c.state # "None"
     /\ IF c.state = "None" THEN FALSE
        ELSE c.inflight > 0 \/ (c.state = "Closing" /\ ~c.fin_sent)

Timer(x) ==
  /\ \E s \in Slots : Polled(At(x, s))
  /\ Cardinality(net) < MaxNet
  /\ Turn(x, dials[x], net)
  /\ UNCHANGED <<prog, lost, port, wrote, read, ended>>

Clock ==
  /\ dials' = [x \in Machines |-> [s \in Slots |-> Tick(dials[x][s], DIAL_IDLE + 1, 0)]]
  /\ UNCHANGED <<prog, net, lost, port, wrote, read, hung, ended>>

Lose ==
  /\ lost < MaxLost /\ lost' = lost + 1
  /\ \E f \in net : net' = net \ {f}
  /\ UNCHANGED <<dials, prog, port, wrote, read, hung, ended>>

---------------------------------------------------------------------------
Init ==
  /\ dials = [x \in Machines |-> [s \in Slots |-> NoWire]]
  /\ net = {} /\ lost = 0 /\ port = 0 /\ hung = {} /\ ended = {}
  /\ prog = [x \in Machines |-> [lis |-> 0, con |-> 0, asked |-> "no"]]
  /\ wrote = [x \in Machines |-> [p \in Ports |-> 0]]
  /\ read = [x \in Machines |-> [p \in Ports |-> <<>>]]

Next ==
  \/ \E x \in Machines :
       \/ Clone(x) \/ CtlConnect(x) \/ CtlAnnounce(x) \/ Listen(x)
       \/ CtlClose(x, "con") \/ CtlClose(x, "lis") \/ DataWrite(x) \/ DataRead(x) \/ OnFrame(x) \/ Timer(x)
  \/ Clock \/ Lose

Spec == Init /\ [][Next]_vars

(* What a program wrote before its end was closed (by itself, or by netd   *)
(* for being idle or unanswered); a later write is taken but past the FIN. *)
InTime(x, p) ==
  IF p \in Hung(x) THEN (CHOOSE h \in hung : h[1] = x /\ h[2] = p)[3] ELSE wrote[x][p]

(* Both directions of a connection deliver what was written in time, in    *)
(* order and once, whatever the network loses, repeats or reorders; and an *)
(* end that is told of the other end's close, and had not closed itself,   *)
(* has been given all of it.                                               *)
StreamsAgree ==
  /\ \A x \in Machines, p \in Ports :
       /\ \A k \in 1..Min({Len(read[x][p]), InTime(Other(x), p)}) : read[x][p][k] = k
       /\ p \in Hung(Other(x)) \/ Len(read[x][p]) <= wrote[Other(x)][p]
  /\ \A e \in ended : e[2] \in Hung(Other(e[1])) => e[3] >= InTime(Other(e[1]), e[2])
===========================================================================
