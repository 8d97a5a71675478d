------------------------------ MODULE UsbRings ------------------------------
(***************************************************************************)
(* The xHCI driver's rings at run time (kernel/src/xhci.rs): how requests  *)
(* are published, how their answers are waited for, how a failed endpoint  *)
(* is brought back, and the USB disk's commands built on them              *)
(* (kernel/src/usb_msd.rs).  The driver is one thread; the controller, the *)
(* disk and the keyboard run beside it and are external.                   *)
(*                                                                         *)
(* A transfer block (TRB) is its cycle bit, its number on its ring and     *)
(* what it asks for.  A ring has RingLen of them and a Link at its end.    *)
(* The event ring is a queue: the controller stops short of its reader.    *)
(***************************************************************************)
EXTENDS Naturals, Sequences, FiniteSets, SequencesExt

CONSTANTS
  Keys,           \* keys a report may hold down: of "up" (none), "a", "home"
  RingLen,        \* TRBs before the Link
  EventLen,       \* events the controller may be ahead
  MAX_ATTEMPTS,
  PendingLen,     \* bytes the keyboard's pending queue holds
  Budgets         \* bounds: the disk commands, waits that run out (at most
                  \* RingLen - 2), faults and keyboard reports of a behaviour

Endpoints == {"ep0", "in", "out", "int"}
Rings == Endpoints \cup {"cmd"}

VARIABLES
  ring,     \* each ring, with the producer's and the controller's places
  events,   \* EVENT_RING, what the driver has not popped
  drv,      \* where bot_command is
  io,       \* the request being published or waited for
  data,     \* DATA_BUF, in two halves: the tag of the command the bytes belong to, 0 for none
  csw,      \* CSW_BUF
  dev,      \* the disk: what it expects next
  kb,       \* KeyboardState, and INT_BUF
  queue,    \* history: the requests of each ring the controller still has
  answered, \* history: the commands the disk answered: tag, and how many halves of the
            \* data it had left
  budget    \* what is left of the bounds

vars == <<ring, events, drv, io, data, csw, dev, kb, queue, answered, budget>>

----------------------------------------------------------------------------
(***************************************************************************)
(* Rings.                                                                  *)
(***************************************************************************)
EmptyTrb == [cyc |-> FALSE, id |-> 0, what |-> "none"]
EmptyRing ==
  [trb |-> [i \in 0 .. RingLen - 1 |-> EmptyTrb], link |-> TRUE,
   enq |-> 0, cyc |-> TRUE, pushed |-> 0, deq |-> 0, dcs |-> TRUE, st |-> "Running"]

\* The producer's place moves on; at the Link its cycle bit is rewritten.
Stepped(r) ==
  IF r.enq + 1 < RingLen THEN [r EXCEPT !.enq = @ + 1]
  ELSE [r EXCEPT !.enq = 0, !.link = r.cyc, !.cyc = ~@]

\* ring_publish writes one TRB, with the cycle bit it will have or, held,
\* with the other one.
Written(r, what, held) ==
  Stepped([r EXCEPT !.trb[r.enq] = [cyc |-> r.cyc # held, id |-> r.pushed + 1, what |-> what],
                    !.pushed = @ + 1])

\* The controller's place, the Link followed once it is the controller's.
Settled(r) ==
  IF r.deq = RingLen /\ r.link = r.dcs THEN [r EXCEPT !.deq = 0, !.dcs = ~@] ELSE r
Passed(r) == [Settled(r) EXCEPT !.deq = @ + 1]

\* The TRB n places ahead of the controller is its to run.
Ahead(s, n) == s.trb[(s.deq + n) % RingLen]
Handed(s, n) ==
  /\ s.deq < RingLen
  /\ Ahead(s, n).cyc = (s.dcs = (s.deq + n < RingLen))
  /\ s.deq + n >= RingLen => s.link = s.dcs
Runs(r) == Handed(Settled(r), 0)
Head0(r) == Ahead(Settled(r), 0)

\* All the TRBs the controller would run, in order.
Walk(s) ==
  LET n == CHOOSE n \in 0 .. RingLen :
             /\ \A i \in 0 .. n - 1 : Handed(s, i)
             /\ n = RingLen \/ ~Handed(s, n) IN
  [i \in 1 .. n |-> Ahead(s, i - 1).id]

\* A doorbell starts an endpoint that was stopped, and not one that halted.
Rung(r) == [r EXCEPT !.st = IF @ = "Stopped" THEN "Running" ELSE @]

----------------------------------------------------------------------------
(***************************************************************************)
(* bot_command, one request at a time: what each stage publishes, and      *)
(* where the answer leads.                                                 *)
(***************************************************************************)
NoIo == [ep |-> "none", trbs |-> << >>, first |-> 0, td |-> {}, mine |-> {},
         sent |-> FALSE, looked |-> FALSE]

\* The endpoint reset_storage_endpoint works on.
FixEp(d) == CASE d.fix = "data" -> d.dir
              [] d.fix \in {"csw", "in"} -> "in"
              [] d.fix = "out" -> "out"

Command(op, ep) ==
  [op |-> op, ep |-> ep, deq |-> ring[ep].enq, dcs |-> ring[ep].cyc, upto |-> ring[ep].pushed]

\* A mutant: the dequeue pointer goes back to the start of the ring.
set_tr_dequeue_start(ep) == [Command("SetDeq", ep) EXCEPT !.deq = 0, !.dcs = TRUE]

set_tr_dequeue(ep) == Command("SetDeq", ep)

Publishes(ep, trbs) == [NoIo EXCEPT !.ep = ep, !.trbs = trbs]

Request(d) ==
  CASE d.pc = "idle" -> NoIo
    [] d.pc = "cbw" -> Publishes("out", <<"cbw">>)
    [] d.pc = "data" -> Publishes(d.dir, <<"data">>)
    [] d.pc \in {"csw", "csw2"} -> Publishes("in", <<"csw">>)
    [] d.pc = "reset" -> Publishes("cmd", <<Command("Reset", FixEp(d))>>)
    [] d.pc = "clear" -> Publishes("ep0", <<"setup", "status">>)
    [] d.pc \in {"recover", "recover2"} -> Publishes("cmd", <<Command(d.first, "ep0")>>)
    [] d.pc = "move0" -> Publishes("cmd", <<set_tr_dequeue("ep0")>>)
    [] d.pc = "move" -> Publishes("cmd", <<set_tr_dequeue(FixEp(d))>>)

At(d, pc) == [d EXCEPT !.pc = pc]
Finished(d, result) == [d EXCEPT !.pc = "idle", !.result = result, !.first = "none", !.fix = "no"]
Fixing(d, fix) == [d EXCEPT !.pc = "reset", !.fix = fix]

\* bot_command, on a transfer error: both endpoints are reset and the
\* command is sent again, MAX_ATTEMPTS times in all.
Failed(d) == IF d.attempt < MAX_ATTEMPTS THEN Fixing(d, "in") ELSE Finished(d, "failed")

\* reset_storage_endpoint is over: in clear_stalled a failure is the
\* transfer's, between attempts it is ignored.
AfterReset(d, ok) ==
  CASE d.fix = "data" -> IF ok THEN [At(d, "csw") EXCEPT !.short = TRUE] ELSE Failed(d)
    [] d.fix = "csw" -> IF ok THEN At(d, "csw2") ELSE Failed(d)
    [] d.fix = "in" -> Fixing(d, "out")
    [] d.fix = "out" -> [At(d, "cbw") EXCEPT !.attempt = @ + 1, !.tag = @ + 1, !.short = FALSE]

\* The CSW's signature and tag, then its status, then the data stage.
Judged(d) ==
  IF csw.tag # d.tag THEN Finished(d, "mismatch")
  ELSE IF ~csw.good THEN Finished(d, "refused")
  ELSE IF d.short THEN Finished(d, "short") ELSE Finished(d, "ok")

\* recover_ep0's first command, from the state it reads (any but the three
\* leaves the cause to tell) and from why the transfer failed.
FirstCommand(st, r) ==
  CASE st = "Halted" -> "Reset"
    [] st = "Running" -> "Stop"
    [] st = "Stopped" -> "none"
    [] st = "other" -> IF r = "timeout" THEN "Stop" ELSE "Reset"
Recovering(d, first) ==
  IF first = "none" THEN At(d, "move0") ELSE [At(d, "recover") EXCEPT !.first = first]
Other(cmd) == IF cmd = "Reset" THEN "Stop" ELSE "Reset"

\* Where the answer r leads; `st` is what recover_ep0 reads of EP0's state.
After(d, r, st) ==
  CASE d.pc = "cbw" ->
         IF r # "ok" THEN Failed(d) ELSE At(d, IF d.dir = "none" THEN "csw" ELSE "data")
    [] d.pc = "data" ->
         IF r = "ok" THEN [At(d, "csw") EXCEPT !.got = data]
         ELSE IF r = "stall" THEN Fixing(d, "data") ELSE Failed(d)
    [] d.pc = "csw" ->
         IF r = "ok" THEN Judged(d) ELSE IF r = "stall" THEN Fixing(d, "csw") ELSE Failed(d)
    [] d.pc = "csw2" -> IF r = "ok" THEN Judged(d) ELSE Failed(d)
    [] d.pc = "reset" ->
         IF r = "ok" THEN At(d, "clear")
         ELSE IF r = "context" THEN At(d, "move") ELSE AfterReset(d, FALSE)
    [] d.pc = "clear" -> IF r = "ok" THEN At(d, "move") ELSE Recovering(d, FirstCommand(st, r))
    [] d.pc = "recover" ->
         IF r = "timeout" THEN At(d, "move")
         ELSE IF r = "context" THEN [At(d, "recover2") EXCEPT !.first = Other(d.first)]
         ELSE At(d, "move0")
    [] d.pc = "recover2" -> At(d, "move0")
    [] d.pc = "move0" -> At(d, "move")
    [] d.pc = "move" -> AfterReset(d, r = "ok")

\* The next request is made ready; an outgoing data stage fills its buffer.
Goes(d) ==
  /\ drv' = d
  /\ io' = Request(d)
  /\ data' = IF d.pc = "data" /\ d.dir = "out" THEN <<d.tag, d.tag>> ELSE data

Init ==
  /\ ring = [e \in Rings |->
       IF e = "int" THEN Written(EmptyRing, "report", FALSE) ELSE EmptyRing]
  /\ events = << >>
  /\ drv = [pc |-> "idle", dir |-> "none", tag |-> 0, attempt |-> 1, short |-> FALSE,
            fix |-> "no", first |-> "none", got |-> <<0, 0>>, result |-> "none"]
  /\ io = NoIo
  /\ data = <<0, 0>> /\ csw = [tag |-> 0, good |-> TRUE]
  /\ dev = [phase |-> "cbw", tag |-> 0, dir |-> "none", left |-> 0]
  /\ kb = [pending |-> << >>, last |-> "up", buf |-> "up"]
  /\ queue = [e \in Rings |-> IF e = "int" THEN <<1>> ELSE << >>]
  /\ answered = {}
  /\ budget \in Budgets

\* read_sector, write_sector and the commands without data: bot_command.
bot_command ==
  /\ drv.pc = "idle" /\ budget.commands > 0
  /\ \E dir \in {"none", "in", "out"} :
       Goes([drv EXCEPT !.pc = "cbw", !.dir = dir, !.tag = @ + 1, !.attempt = 1,
                        !.short = FALSE, !.got = <<0, 0>>, !.result = "none"])
  /\ budget' = [budget EXCEPT !.commands = @ - 1]
  /\ UNCHANGED <<ring, events, csw, dev, kb, queue, answered>>

----------------------------------------------------------------------------
(***************************************************************************)
(* Publishing and waiting.                                                 *)
(***************************************************************************)
Unwritten == io # NoIo /\ Cardinality(io.mine) < Len(io.trbs)

\* The first TRB of a request is held back until the others are written.
Held == io.mine = {}

\* ring_publish, TRB by TRB.
WriteTrb ==
  /\ Unwritten
  /\ \E r \in {ring[io.ep]} :
       /\ ring' = [ring EXCEPT ![io.ep] = Written(r, io.trbs[Cardinality(io.mine) + 1], Held)]
       /\ io' = [io EXCEPT !.td = @ \cup {r.enq}, !.mine = @ \cup {r.pushed + 1},
                           !.first = IF io.mine = {} THEN r.enq ELSE @]
  /\ UNCHANGED <<events, drv, data, csw, dev, kb, queue, answered, budget>>

\* Its end, publish_cycle_word, and the doorbell.
Flip ==
  /\ io # NoIo /\ ~Unwritten /\ ~io.sent
  /\ \E r \in {ring[io.ep]} :
       /\ ring' = [ring EXCEPT ![io.ep] =
            Rung([r EXCEPT !.trb[io.first].cyc = IF io.first < r.enq THEN r.cyc ELSE ~r.cyc])]
       /\ queue' = [queue EXCEPT ![io.ep] = @ \o [i \in 1 .. Len(io.trbs) |->
                                                    r.pushed - Len(io.trbs) + i]]
  /\ io' = [io EXCEPT !.sent = TRUE]
  /\ UNCHANGED <<events, drv, data, csw, dev, kb, answered, budget>>

\* wait_command_completion matches the command's address, wait_transfer_event
\* one of the request's TRBs; everything else is skipped or the keyboard's.
Answers(e) == IF io.ep = "cmd" THEN e.ep = "cmd" /\ e.at \in io.td
              ELSE e.ep = io.ep /\ e.at \in io.td

\* route_keyboard_event, from both waits.
Routed(e) == e.ep = "int"

Waiting == io # NoIo /\ io.sent

\* The bytes a key types, the last one marked.
Typed(key) == CASE key = "up" -> << >>
                [] key = "a" -> <<TRUE>>
                [] key = "home" -> <<FALSE, FALSE, TRUE>>

\* A key goes in whole or not at all.
Queued(p, bytes) == IF Len(p) + Len(bytes) <= PendingLen THEN p \o bytes ELSE p

\* process_keyboard_report: the buffer is read, then posted again, even after
\* an error; a key that was not down in the last report is typed.
process_keyboard_report(e) ==
  /\ ring' = [ring EXCEPT !["int"] = Rung(Written(@, "report", FALSE))]
  /\ queue' = [queue EXCEPT !["int"] = Append(@, ring["int"].pushed + 1)]
  /\ kb' = IF e.code # "ok" \/ kb.buf = kb.last THEN kb
           ELSE [kb EXCEPT !.last = kb.buf, !.pending = Queued(@, Typed(kb.buf))]

\* One turn of a wait that finds an event.
PopKeyboard ==
  /\ Waiting /\ events # << >> /\ Routed(Head(events))
  /\ process_keyboard_report(Head(events))
  /\ events' = Tail(events)
  /\ UNCHANGED <<drv, io, data, csw, dev, answered, budget>>
PopStale ==
  /\ Waiting /\ events # << >> /\ ~Routed(Head(events)) /\ ~Answers(Head(events))
  /\ events' = Tail(events)
  /\ UNCHANGED <<ring, drv, io, data, csw, dev, kb, queue, answered, budget>>
PopAnswer ==
  /\ Waiting /\ events # << >> /\ Answers(Head(events))
  /\ \E st \in {ring["ep0"].st, "other"} :
       /\ drv.pc # "clear" => st # "other"
       /\ Goes(After(drv, Head(events).code, st))
  /\ events' = Tail(events)
  /\ UNCHANGED <<ring, csw, dev, kb, queue, answered, budget>>

\* A turn that finds none, and the deadline after it: the event may come in
\* between.
Look ==
  /\ Waiting /\ events = << >> /\ ~io.looked
  /\ io' = [io EXCEPT !.looked = TRUE]
  /\ UNCHANGED <<ring, events, drv, data, csw, dev, kb, queue, answered, budget>>
Timeout ==
  /\ Waiting /\ io.looked /\ budget.timeouts > 0
  /\ \E st \in {ring["ep0"].st, "other"} :
       /\ drv.pc # "clear" => st # "other"
       /\ Goes(After(drv, "timeout", st))
  /\ budget' = [budget EXCEPT !.timeouts = @ - 1]
  /\ UNCHANGED <<ring, events, csw, dev, kb, queue, answered>>

\* poll_key, between disk commands: a pending byte, or one event.
PollPending ==
  /\ drv.pc = "idle" /\ kb.pending # << >>
  /\ kb' = [kb EXCEPT !.pending = Tail(@)]
  /\ UNCHANGED <<ring, events, drv, io, data, csw, dev, queue, answered, budget>>
PollReport ==
  /\ drv.pc = "idle" /\ kb.pending = << >> /\ events # << >> /\ Head(events).ep = "int"
  /\ process_keyboard_report(Head(events))
  /\ events' = Tail(events)
  /\ UNCHANGED <<drv, io, data, csw, dev, answered, budget>>
PollOther ==
  /\ drv.pc = "idle" /\ kb.pending = << >> /\ events # << >> /\ Head(events).ep # "int"
  /\ events' = Tail(events)
  /\ UNCHANGED <<ring, drv, io, data, csw, dev, kb, queue, answered, budget>>

Driver ==
  \/ bot_command \/ WriteTrb \/ Flip
  \/ PopKeyboard \/ PopStale \/ PopAnswer \/ Look \/ Timeout
  \/ PollPending \/ PollReport \/ PollOther

----------------------------------------------------------------------------
(***************************************************************************)
(* The controller runs the TRB at its place; the disk answers by the phase *)
(* of the command it is in.  A packet the disk does not take yet is tried  *)
(* again: nothing happens.                                                 *)
(***************************************************************************)
Runnable(e) == ring[e].st = "Running" /\ Runs(ring[e]) /\ Len(events) < EventLen
Next0(e) == Head0(ring[e])

Posted(e, code) ==
  events' = Append(events, [ep |-> e, at |-> Settled(ring[e]).deq, id |-> Next0(e).id, code |-> code])
Dequeued(e) ==
  /\ ring' = [ring EXCEPT ![e] = Passed(@)]
  /\ queue' = [queue EXCEPT ![e] = Tail(@)]
Completes(e, code) == Posted(e, code) /\ Dequeued(e)

\* An endpoint that fails stops at the TRB that failed.
Halts(e, code) ==
  /\ budget.faults > 0
  /\ budget' = [budget EXCEPT !.faults = @ - 1]
  /\ Posted(e, code)
  /\ ring' = [ring EXCEPT ![e] = [Settled(@) EXCEPT !.st = "Halted"]]
  /\ UNCHANGED queue

\* The disk takes a command block (CBW_BUF is the driver's last), its data,
\* or neither.
TakeCommand ==
  /\ Runnable("out") /\ dev.phase = "cbw" /\ Next0("out").what = "cbw"
  /\ dev' = [phase |-> IF drv.dir = "none" THEN "csw" ELSE "data",
             tag |-> drv.tag, dir |-> drv.dir, left |-> 0]
  /\ Completes("out", "ok")
  /\ UNCHANGED <<drv, io, data, csw, kb, answered, budget>>
TakeData ==
  /\ Runnable("out") /\ dev.phase = "data" /\ dev.dir = "out"
  /\ dev' = [dev EXCEPT !.phase = "csw", !.left = IF Next0("out").what = "data" /\ data = <<dev.tag, dev.tag>> THEN 0 ELSE 2]
  /\ Completes("out", "ok")
  /\ UNCHANGED <<drv, io, data, csw, kb, answered, budget>>
\* A read may end early, in a Short Packet, which is success to
\* wait_transfer_event: the rest of the buffer is what was there.
GiveData ==
  /\ Runnable("in") /\ dev.phase = "data" /\ dev.dir = "in" /\ Next0("in").what = "data"
  /\ \E n \in 0 .. 2 :
       /\ dev' = [dev EXCEPT !.phase = "csw", !.left = 2 - n]
       /\ data' = [i \in 1 .. 2 |-> IF i <= n THEN dev.tag ELSE data[i]]
  /\ Completes("in", "ok")
  /\ UNCHANGED <<drv, io, csw, kb, answered, budget>>

\* The status: of a command it did not carry out whole, either the refusal or
\* success with a residue, which the driver does not look at.  Read into the
\* data buffer it is short, and over.
GiveStatus ==
  /\ Runnable("in") /\ dev.phase = "csw"
  /\ \E good \in {dev.left = 0, TRUE} :
       IF Next0("in").what = "csw" THEN csw' = [tag |-> dev.tag, good |-> good] /\ UNCHANGED data
       ELSE data' = [data EXCEPT ![1] = 0] /\ UNCHANGED csw
  /\ answered' = answered \cup {[tag |-> dev.tag, left |-> dev.left]}
  /\ dev' = [dev EXCEPT !.phase = "cbw"]
  /\ Completes("in", "ok")
  /\ UNCHANGED <<drv, io, kb, budget>>

\* The disk stalls: data it cannot take or give (the status follows), a
\* status (to be asked again), or a packet out of its turn.
Stall(e) ==
  /\ Runnable(e)
  /\ dev' = IF dev.phase = "data" /\ dev.dir = e THEN [dev EXCEPT !.phase = "csw", !.left = 2]
            ELSE dev
  /\ Halts(e, "stall")
  /\ UNCHANGED <<drv, io, data, csw, kb, answered>>

\* A transfer error: the packet lost, or the disk's answer to it.
TransferError(e) ==
  /\ Runnable(e)
  /\ dev' \in {dev, IF e = "in" /\ dev.phase = "csw" THEN [dev EXCEPT !.phase = "cbw"] ELSE dev}
  /\ Halts(e, "error")
  /\ UNCHANGED <<drv, io, data, csw, kb, answered>>

\* CLEAR_FEATURE on EP0: the event is asked for on the last TRB only.
ControlStage ==
  /\ Runnable("ep0") /\ Next0("ep0").what = "setup"
  /\ Dequeued("ep0")
  /\ UNCHANGED <<events, drv, io, data, csw, dev, kb, answered, budget>>
ControlStatus ==
  /\ Runnable("ep0") /\ Next0("ep0").what = "status"
  /\ Completes("ep0", "ok")
  /\ UNCHANGED <<drv, io, data, csw, dev, kb, answered, budget>>
ControlFails ==
  /\ Runnable("ep0")
  /\ Halts("ep0", "stall")
  /\ UNCHANGED <<drv, io, data, csw, dev, kb, answered>>

\* The keyboard sends a report, or its endpoint fails: nothing resets it.
Report(key) ==
  /\ Runnable("int") /\ budget.reports > 0
  /\ kb' = [kb EXCEPT !.buf = key]
  /\ budget' = [budget EXCEPT !.reports = @ - 1]
  /\ Completes("int", "ok")
  /\ UNCHANGED <<drv, io, data, csw, dev, answered>>

ReportFails ==
  /\ Runnable("int")
  /\ Halts("int", "error")
  /\ UNCHANGED <<drv, io, data, csw, dev, kb, answered>>

\* Commands, in the states the specification gives them; a stopped endpoint
\* reports the request it was in.
Refused(what) ==
  CASE what.op = "Reset" -> ring[what.ep].st # "Halted"
    [] what.op = "Stop" -> ring[what.ep].st # "Running"
    [] what.op = "SetDeq" -> ring[what.ep].st # "Stopped"
CommandRefused ==
  /\ Runnable("cmd") /\ Refused(Next0("cmd").what)
  /\ Completes("cmd", "context")
  /\ UNCHANGED <<drv, io, data, csw, dev, kb, answered, budget>>
CommandFails ==
  /\ Runnable("cmd") /\ budget.faults > 0
  /\ budget' = [budget EXCEPT !.faults = @ - 1]
  /\ Completes("cmd", "failed")
  /\ UNCHANGED <<drv, io, data, csw, dev, kb, answered>>
CommandRuns ==
  /\ Runnable("cmd") /\ ~Refused(Next0("cmd").what)
  /\ \E c \in {Next0("cmd").what}, e \in {[ep |-> "cmd", at |-> Settled(ring["cmd"]).deq,
                                            id |-> Next0("cmd").id, code |-> "ok"]} :
       /\ ring' = [ring EXCEPT !["cmd"] = Passed(@),
                     ![c.ep] = CASE c.op = "SetDeq" -> [@ EXCEPT !.deq = c.deq, !.dcs = c.dcs]
                                 [] c.op # "SetDeq" -> [@ EXCEPT !.st = "Stopped"]]
       /\ queue' = [queue EXCEPT !["cmd"] = Tail(@),
                      ![c.ep] = IF c.op = "SetDeq" THEN SelectSeq(@, LAMBDA i : i > c.upto) ELSE @]
       /\ events' = IF c.op = "Stop" /\ Runs(ring[c.ep])
                    THEN events \o <<[ep |-> c.ep, at |-> Settled(ring[c.ep]).deq,
                                      id |-> Next0(c.ep).id, code |-> "stopped"], e>>
                    ELSE Append(events, e)
  /\ UNCHANGED <<drv, io, data, csw, dev, kb, answered, budget>>

Hardware ==
  \/ TakeCommand \/ TakeData \/ GiveData \/ GiveStatus
  \/ \E e \in {"in", "out"} : Stall(e) \/ TransferError(e)
  \/ ControlStage \/ ControlStatus \/ ControlFails
  \/ \E key \in Keys : Report(key)
  \/ ReportFails
  \/ CommandRefused \/ CommandFails \/ CommandRuns

Next == Driver \/ Hardware
Spec == Init /\ [][Next]_vars

----------------------------------------------------------------------------
\* A ring is a queue: what the controller would run next, and after it, is
\* what was published and has neither run nor been given up, in that order -
\* across laps, endpoints that stopped, and moved dequeue pointers.
RingIsAQueue == \A e \in Rings : Walk(Settled(ring[e])) = queue[e]

\* An event that would end a wait was made by a TRB of the very request the
\* wait is for: no late answer to an earlier one, at the same place or of the
\* same device, is taken for it (wait_command_completion, wait_transfer_event).
AnswerIsToThisRequest ==
  Waiting => \A i \in 1 .. Len(events) : Answers(events[i]) => events[i].id \in io.mine

\* As long as its endpoint runs, the keyboard has exactly one buffer in
\* circulation: a TRB the controller will fill or an event the driver has not
\* seen (none would be a dead keyboard, two a report overwritten before it is
\* read).
KeyboardStaysArmed ==
  ring["int"].st = "Running" =>
    Len(queue["int"]) + Len(SelectSeq(events, LAMBDA e : e.ep = "int")) = 1

\* The keyboard's pending bytes end with the end of a key, and every key
\* after the first is there from its start.
PendingIsWhole ==
  kb.pending # << >> =>
    /\ Last(kb.pending)
    /\ Len(kb.pending) <= PendingLen

\* A disk command that bot_command reports as done was answered by the disk
\* under this very tag, and it was carried out whole but for a read the disk
\* ended early: then the bytes are the disk's as far as it gave any, and the
\* rest, the residue the driver does not look at, is what the buffer held.
DoneIsDone ==
  drv.result = "ok" =>
    \E a \in answered :
      /\ a.tag = drv.tag
      /\ drv.dir # "in" => a.left = 0
      /\ drv.dir = "in" => \A i \in 1 .. 2 - a.left : drv.got[i] = drv.tag
=============================================================================
