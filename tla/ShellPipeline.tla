---------------------------- MODULE ShellPipeline ----------------------------
(***************************************************************************)
(* The shell running `a | b | c`, with or without `> file` or `>> file`:   *)
(* it spawns the stages from the last to the first, feeds a builtin's      *)
(* output to the first program, relays or waits, reaps, and writes what it *)
(* captured piece by piece.  The programs run meanwhile, send through      *)
(* mailboxes of bounded depth, end early, fail, or are killed with Ctrl+C; *)
(* one whose wait was interrupted runs on beside the lines that follow.    *)
(*                                                                         *)
(* A message is the line it belongs to and its number in the stream, 0 for *)
(* the empty message that ends a stream.  The pieces of a write are        *)
(* messages too.                                                           *)
(***************************************************************************)
EXTENDS Integers, Sequences, FiniteSets

CONSTANTS
    Lines,             \* the lines typed, for each turn: what heads it, the sink, how
                       \* many programs and how many messages its head writes
    MaxSlots,
    MSG_QUEUE_DEPTH,   \* messages a mailbox holds
    Capture,           \* messages the capture buffer holds
    MaxFaults

VARIABLES
    shell,    \* step, the line it runs, the stage it is at, what it captured
    tasks,    \* the spawnable slots: whose stage, how far it has come
    box,      \* the mailboxes, 0 the shell's
    file,     \* the file that redirects name
    held,     \* slots whose wait was interrupted: announced, and not reaped
    short,    \* whether a stage of this line died, ended early or gave up a message
    stray,    \* whether this line captured mail of an earlier one
    faults

vars == <<shell, tasks, box, file, held, short, stray, faults>>

Slots == 1 .. MaxSlots
SHELL == 0
NOBODY == MaxSlots + 1     \* the console, or a reader that is gone
EOF == 0
Free == [st |-> "none", cmd |-> 0, to |-> NOBODY, head |-> FALSE, len |-> 0, next |-> 1, ending |-> FALSE]
Live(i) == tasks[i].st = "live"

Last == shell.n
Console == shell.sink = "console"
Redirect == shell.sink \in {">", ">>"}
SlotOf(k) == shell.slots[k]
SlotsOf(K) == {SlotOf(k) : k \in K}
Msg(c, k) == [c |-> c, k |-> k]
All == [k \in 1 .. shell.len |-> Msg(shell.cmd, k)]

At(step) == shell.at = step
Go(step) == shell' = [shell EXCEPT !.at = step]

(* kill_and_reap: KILL frees a live task's slot, WAIT collects one that     *)
(* exited.  Either way its mailbox goes with it, and with it the right of  *)
(* others to send there; what it sent stays.                               *)
Freed(S) ==
    /\ tasks' = [i \in Slots |-> IF i \in S THEN Free
                                 ELSE IF tasks[i].to \in S THEN [tasks[i] EXCEPT !.to = NOBODY] ELSE tasks[i]]
    /\ box' = [i \in 0 .. MaxSlots |-> IF i \in S THEN <<>> ELSE box[i]]
kill_only(S) == Freed({i \in S : Live(i)})
kill_and_reap(S) == Freed(S)

ToNobody(i) == tasks[i].to \notin {SHELL} \cup {j \in Slots : Live(j)}
IsFull(j) == Len(box[j]) >= MSG_QUEUE_DEPTH

(***************************************************************************)
(* The shell.                                                              *)
(***************************************************************************)
Typed(l) == [at |-> "spawn", cmd |-> shell.cmd + 1, head |-> l.head, sink |-> l.sink, n |-> l.n,
             len |-> l.len, i |-> l.n, slots |-> <<>>, got |-> <<>>, over |-> FALSE,
             off |-> 0, old |-> file, told |-> FALSE]

Turn == IF shell.cmd < Len(Lines) THEN Lines[shell.cmd + 1] ELSE {}

Line(l) ==
    /\ At("prompt")
    /\ l.n > 0
    /\ l.head = "builtin" => l.sink # "drain"      \* one builtin, at the head of its part
    /\ shell' = Typed(l)
    /\ short' = FALSE /\ stray' = FALSE
    /\ UNCHANGED <<tasks, box, file, held, faults>>

(* A builtin by itself: its output goes to the screen, or to the file if    *)
(* all of it was captured; a builtin among programs drains nothing.        *)
BuiltinAlone(l) ==
    /\ At("prompt")
    /\ l.n = 0 /\ l.sink \in {">", ">>"}
    /\ \E kept \in {IF l.len > Capture THEN Capture ELSE l.len} :
          shell' = [Typed(l) EXCEPT !.at = "write", !.over = l.len > Capture,
                                    !.got = [k \in 1 .. kept |-> Msg(shell.cmd + 1, k)]]
    /\ short' = FALSE /\ stray' = FALSE
    /\ UNCHANGED <<tasks, box, file, held, faults>>

FirstStep == IF shell.head = "builtin" THEN "feed" ELSE IF Console THEN "wait" ELSE "relay"

(* Where stage i writes: the console, the shell, or the stage spawned       *)
(* before it, the first of shell.slots.                                    *)
Target(i) == IF i # Last THEN Head(shell.slots) ELSE IF Console THEN NOBODY ELSE SHELL
GoneTarget(i) == i # Last /\ ~Live(Target(i))
FreeSlots == {j \in Slots : tasks[j].st = "none"}

(* SPAWN takes the lowest free slot, grants the new stage the right to send *)
(* to its target, and refuses a target that is gone: then what is left of   *)
(* the pipeline is ended, with the exit codes of the stages that ended by  *)
(* themselves.                                                             *)
spawn_stage ==
    /\ At("spawn")
    /\ \/ \E j \in FreeSlots :
             /\ ~GoneTarget(shell.i) /\ \A k \in FreeSlots : j <= k
             /\ tasks' = [tasks EXCEPT ![j] = [Free EXCEPT !.st = "live", !.cmd = shell.cmd,
                             !.to = Target(shell.i), !.head = shell.i = 1 /\ shell.head = "program",
                             !.len = shell.len]]
             /\ shell' = [shell EXCEPT !.i = IF @ = 1 THEN 1 ELSE @ - 1, !.slots = <<j>> \o @,
                                       !.at = IF shell.i = 1 THEN FirstStep ELSE "spawn"]
             /\ UNCHANGED <<box, faults>>
       \/ /\ GoneTarget(shell.i) \/ FreeSlots = {}                  \* end_pipeline
          /\ kill_and_reap({shell.slots[k] : k \in DOMAIN shell.slots}) /\ Go("prompt")
          /\ UNCHANGED faults
       \/ /\ faults > 0 /\ faults' = faults - 1                     \* any other refusal
          /\ kill_and_reap({shell.slots[k] : k \in DOMAIN shell.slots}) /\ Go("prompt")
    /\ UNCHANGED <<file, held, short, stray>>

(* A builtin's output is captured whole, or nothing is piped; then sent in  *)
(* messages and an empty one, which i counts.  A program that is gone      *)
(* takes the rest for read; one that lets its mailbox stay full for 150    *)
(* ticks ends the line.                                                    *)
Fed(k) == [shell EXCEPT !.i = IF k = EOF THEN 1 ELSE @ + 1,
                        !.at = IF k # EOF THEN "feed" ELSE IF Console THEN "wait" ELSE "relay"]
pipe_send ==
    /\ At("feed")
    /\ \E k \in {IF shell.i > shell.len THEN EOF ELSE shell.i}, first \in {SlotOf(1)} :
          \/ /\ shell.len <= Capture /\ Live(first) /\ ~IsFull(first)
             /\ box' = [box EXCEPT ![first] = Append(@, Msg(shell.cmd, k))]
             /\ shell' = Fed(k) /\ UNCHANGED tasks
          \/ shell.len <= Capture /\ ~Live(first) /\ shell' = Fed(k) /\ UNCHANGED <<box, tasks>>
          \/ /\ shell.len > Capture \/ (Live(first) /\ IsFull(first))
             /\ kill_and_reap(SlotsOf(1 .. Last)) /\ Go("prompt")
    /\ UNCHANGED <<file, held, short, stray, faults>>

(* capture_program_output and drain_program_output: whatever is in the      *)
(* mailbox is taken for the last stage's, until an empty message.          *)
Relay ==
    /\ At("relay") /\ box[SHELL] # <<>>
    /\ box' = [box EXCEPT ![SHELL] = Tail(@)]
    /\ \E m \in {Head(box[SHELL])}, full \in {Len(shell.got) >= Capture} :
          /\ shell' = IF m.k = EOF THEN [shell EXCEPT !.at = "last"]
                      ELSE IF shell.sink = "drain" THEN shell
                      ELSE [shell EXCEPT !.got = IF full THEN @ ELSE Append(@, m), !.over = @ \/ full]
          /\ stray' = (stray \/ m.c # shell.cmd)
    /\ UNCHANGED <<tasks, file, held, short, faults>>

(* Ctrl+C in the relay: the last stage is killed and nothing is written.    *)
RelayInterrupted ==
    /\ At("relay") /\ box[SHELL] = <<>>
    /\ kill_and_reap({SlotOf(Last)})
    /\ shell' = [shell EXCEPT !.over = TRUE, !.at = "end", !.i = 1]
    /\ UNCHANGED <<file, held, short, stray, faults>>

(* A wait: an ended task is reaped, a Ctrl+C leaves a running one behind.   *)
Wait(i) ==
    \/ ~Live(i) /\ Freed({i}) /\ UNCHANGED held
    \/ Live(i) /\ held' = held \cup {i} /\ UNCHANGED <<tasks, box>>

(* The WAIT for the last stage once its stream has ended; the interrupted   *)
(* wait is not reported here.                                              *)
WaitLast ==
    /\ At("last")
    /\ Wait(SlotOf(Last))
    /\ shell' = [shell EXCEPT !.at = "end", !.i = 1]
    /\ UNCHANGED <<file, short, stray, faults>>

(* After a capture that overflowed the producers are killed: those that    *)
(* exited keep their status for the wait.                                  *)
EndProducers ==
    /\ At("end")
    /\ IF shell.over /\ Redirect THEN kill_only(SlotsOf(1 .. Last - 1)) ELSE UNCHANGED <<tasks, box>>
    /\ Go("wait")
    /\ UNCHANGED <<file, held, short, stray, faults>>

Waited == IF Console THEN Last ELSE Last - 1
AfterWait == IF Redirect THEN "write" ELSE "prompt"

wait_pipe_stage ==
    /\ At("wait")
    /\ IF shell.i > Waited THEN Go(AfterWait) /\ UNCHANGED <<tasks, box, held>>
       ELSE shell' = [shell EXCEPT !.i = @ + 1] /\ Wait(SlotOf(shell.i))
    /\ UNCHANGED <<file, short, stray, faults>>

(* What a call to the file system may do: what it was asked, with the       *)
(* answer or with the answer lost, or nothing.                             *)
FileCall(f, next) ==
    \/ file' = f /\ shell' = next /\ UNCHANGED faults
    \/ /\ faults > 0 /\ faults' = faults - 1 /\ file' \in {f, file}
       /\ shell' = [shell EXCEPT !.at = "prompt", !.told = TRUE]
Empty == [there |-> TRUE, data |-> <<>>]

(* finish_redirect: nothing of a capture that overflowed.  `>` and `>>` to  *)
(* a missing file begin with an empty file, `>>` to another at its end,    *)
(* which a read tells.                                                     *)
Truncates(sink) == sink = ">" \/ ~file.there
finish_redirect ==
    /\ At("write")
    /\ \/ /\ shell.over
          /\ shell' = [shell EXCEPT !.at = "prompt", !.told = TRUE] /\ UNCHANGED <<file, faults>>
       \/ /\ ~shell.over /\ Truncates(shell.sink)
          /\ FileCall(Empty, [shell EXCEPT !.at = "chunks", !.off = 0])
       \/ /\ ~shell.over /\ ~Truncates(shell.sink)
          /\ FileCall(file, [shell EXCEPT !.at = "chunks", !.off = Len(file.data)])
    /\ UNCHANGED <<tasks, box, held, short, stray>>

(* write_all: the pieces at rising offsets, up to the first that fails.     *)
WriteAt(off, m) ==
    [there |-> TRUE,
     data |-> [k \in 1 .. IF off < Len(file.data) THEN Len(file.data) ELSE off + 1 |->
                 IF k = off + 1 THEN m ELSE file.data[k]]]
write_all ==
    /\ At("chunks")
    /\ IF shell.got = <<>> THEN Go("prompt") /\ UNCHANGED <<file, faults>>
       ELSE FileCall(WriteAt(shell.off, Head(shell.got)),
                     [shell EXCEPT !.off = @ + 1, !.got = Tail(@)])
    /\ UNCHANGED <<tasks, box, held, short, stray>>

(***************************************************************************)
(* The programs, as ulib has them write (pipe_out, end_of_stream).         *)
(***************************************************************************)
(* That stage i fails its line, when it is a stage of the line that runs.   *)
Fails(i) == short' = (short \/ tasks[i].cmd = shell.cmd)

(* One message, sent with the mailboxes as b: delivered, lost because its   *)
(* reader is gone, or given up once the mailbox has been full for 150      *)
(* ticks.                                                                  *)
pipe_out(i, k, b) ==
    \/ /\ ~ToNobody(i) /\ ~IsFull(tasks[i].to)
       /\ box' = [b EXCEPT ![tasks[i].to] = Append(@, Msg(tasks[i].cmd, k))]
       /\ UNCHANGED short
    \/ ToNobody(i) /\ box' = b /\ UNCHANGED short
    \/ ~ToNobody(i) /\ IsFull(tasks[i].to) /\ Fails(i) /\ box' = b

Produce(i) ==
    /\ Live(i) /\ tasks[i].head /\ ~tasks[i].ending /\ tasks[i].next <= tasks[i].len
    /\ pipe_out(i, tasks[i].next, box)
    /\ tasks' = [tasks EXCEPT ![i].next = @ + 1]
    /\ UNCHANGED <<shell, file, held, stray, faults>>

(* A filter passes on what it reads; an empty message is the end.           *)
Filter(i) ==
    /\ Live(i) /\ ~tasks[i].ending /\ box[i] # <<>>
    /\ \E m \in {Head(box[i])}, rest \in {[box EXCEPT ![i] = Tail(@)]} :
          IF m.k = EOF
          THEN tasks' = [tasks EXCEPT ![i].ending = TRUE] /\ box' = rest /\ UNCHANGED short
          ELSE pipe_out(i, m.k, rest) /\ UNCHANGED tasks
    /\ UNCHANGED <<shell, file, held, stray, faults>>

(* A head that has written everything, or a program that refuses its       *)
(* arguments or has read enough: ulib::exit.                               *)
Finish(i) ==
    /\ Live(i) /\ ~tasks[i].ending
    /\ tasks' = [tasks EXCEPT ![i].ending = TRUE]
    /\ IF tasks[i].head /\ tasks[i].next > tasks[i].len THEN UNCHANGED short ELSE Fails(i)
    /\ UNCHANGED <<shell, box, file, held, stray, faults>>

end_of_stream(i) ==
    /\ Live(i) /\ tasks[i].ending
    /\ pipe_out(i, EOF, box)
    /\ tasks' = [tasks EXCEPT ![i].st = "zombie"]
    /\ UNCHANGED <<shell, file, held, stray, faults>>

(* A fault, or a kill from elsewhere: no end of stream.                     *)
Dies(i) ==
    /\ Live(i) /\ faults > 0 /\ faults' = faults - 1
    /\ tasks' = [tasks EXCEPT ![i].st = "zombie"]
    /\ Fails(i)
    /\ UNCHANGED <<shell, box, file, held, stray>>

Init ==
    /\ shell = [at |-> "prompt", cmd |-> 0, head |-> "program", sink |-> "console", n |-> 0, len |-> 0, i |-> 1,
                slots |-> <<>>, got |-> <<>>, over |-> FALSE, off |-> 0, old |-> Empty, told |-> FALSE]
    /\ tasks = [i \in Slots |-> Free]
    /\ box = [i \in 0 .. MaxSlots |-> <<>>]
    /\ file = [there |-> FALSE, data |-> <<>>]
    /\ held = {} /\ short = FALSE /\ stray = FALSE /\ faults = MaxFaults

Shell ==
    \/ spawn_stage \/ pipe_send \/ Relay \/ RelayInterrupted \/ WaitLast \/ EndProducers
    \/ wait_pipe_stage \/ finish_redirect \/ write_all

Next ==
    \/ \E l \in Turn : Line(l) \/ BuiltinAlone(l)
    \/ Shell
    \/ \E i \in Slots : Produce(i) \/ Filter(i) \/ end_of_stream(i) \/ Finish(i) \/ Dies(i)

Spec == Init /\ [][Next]_vars

(* At the prompt no stage holds a task slot, alive or waiting to be        *)
(* collected, but those whose wait was interrupted (kill_and_reap on every *)
(* path that gives up, wait_pipe_stage on the others): there are five.     *)
NoSlotIsLeaked == At("prompt") => \A i \in Slots \ held : tasks[i].st = "none"

(* What a redirect leaves behind.  Said to have worked, it left the old    *)
(* contents (>>) and then the line's own messages in their order, none     *)
(* twice, and all of them unless a stage failed or mail of another line    *)
(* was taken for its own.  Said to have failed, it left the file as it was *)
(* if nothing had been written, or cut: a beginning of the same.           *)
Base == IF shell.sink = ">>" THEN shell.old.data ELSE <<>>
Beyond(f) == SubSeq(f, Len(Base) + 1, Len(f))
Ordered(q) == \A a, b \in DOMAIN q : a < b => q[a].k < q[b].k
Own(q) == SelectSeq(q, LAMBDA m : m.c = shell.cmd)
RedirectIsWhole ==
    Redirect /\ ~At("prompt") /\ shell'.at = "prompt" =>
        \/ file' = shell.old /\ (shell'.told \/ At("spawn") \/ At("feed"))
        \/ /\ file'.there /\ ~shell.over
           /\ SubSeq(file'.data, 1, Len(Base)) = Base
           /\ Ordered(Own(Beyond(file'.data)))
           /\ stray \/ short \/ \E k \in 0 .. shell.len :
                 /\ Beyond(file'.data) = SubSeq(All, 1, k)
                 /\ k = shell.len \/ shell'.told
=============================================================================
