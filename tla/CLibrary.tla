------------------------------ MODULE CLibrary ------------------------------
(***************************************************************************)
(* A C program's files (libc/src/file.c): the table of open files behind   *)
(* its descriptors, the requests each call makes of the file server or of  *)
(* a peer's, and the close of everything at exit (libc/src/os.c).  The     *)
(* servers are external here (FileServer models fsd): a request may fail   *)
(* on its way, be carried out and its answer lost, or meet a server that   *)
(* has restarted and knows no open file any more.  A server's open file is *)
(* a name: what is removed or replaced under that name is seen through it. *)
(* Every open here is for reading and writing, so a directory is refused.  *)
(* The program's output follows.                                           *)
(***************************************************************************)
EXTENDS Integers, Sequences, FiniteSets, SequencesExt

CONSTANTS
  MAX_FILES,
  FS_DATA_MAX,   \* bytes in one request
  LONG_MAX,
  Paths,         \* the names a program uses, each on its server: the file
                 \* server, or a peer the namespace names
  Stored0,       \* what the servers may store to begin with
  Fids,          \* a server's table of open files, 1 .. n
  Offsets,       \* lseek is given
  Buffer,        \* the bytes a write is given
  MaxSize,       \* bound: bytes in a file
  MaxCalls,      \* bound: calls the program makes
  MaxFaults,     \* bound: requests that fail on the way
  MaxRestarts    \* bound: servers that restart

Fd == 1 .. MAX_FILES
Servers == {p.server : p \in Paths}
Flags == SUBSET {"create", "trunc", "excl"}

VARIABLES
  files,    \* g_files
  failed,   \* g_last_status: the last request was refused or not answered
  call,     \* the read or write under way
  fs,       \* what each server stores: a directory, or a file's bytes
  fids,     \* and has open
  past,     \* history: by server, its restarts, and whether a descriptor from
            \* before one has since been closed on a fid issued again
  lost,     \* history: the fids whose clunk, or whose open's answer, was lost
  count     \* what the bounds count

vars == <<files, failed, call, fs, fids, past, lost, count>>

Unused == [used |-> FALSE]
NoCall == [op |-> "none"]
Absent == [kind |-> "absent", bytes |-> << >>]
Directory == [kind |-> "directory", bytes |-> << >>]
File(b) == [kind |-> "file", bytes |-> b]
IsFile(s, n) == fs[s][n].kind = "file"
NoFid == "none"

Init ==
  /\ files = [f \in Fd |-> Unused]
  /\ failed = FALSE
  /\ call = NoCall
  /\ fs \in Stored0
  /\ fids = [s \in Servers |-> [i \in Fids |-> NoFid]]
  /\ past = [s \in Servers |-> [restarts |-> 0, crossed |-> FALSE]] /\ lost = [s \in Servers |-> {}]
  /\ count = [calls |-> 0, faults |-> 0, restarts |-> 0, exited |-> FALSE]

Free(S) == CHOOSE i \in S : \A j \in S : i <= j
Idle == call = NoCall /\ ~count.exited

\* The program makes a call.
Calls == Idle /\ count.calls < MaxCalls /\ count' = [count EXCEPT !.calls = @ + 1]

\* np_request, without an answer: the request did not get there, or its
\* answer did not come back.  (A remote call the kernel refuses until the
\* delegation is there is made again until a deadline: then it did not get
\* there.)
Fault == count.faults < MaxFaults /\ count' = [count EXCEPT !.faults = @ + 1]

----------------------------------------------------------------------------
(***************************************************************************)
(* open and close.                                                         *)
(***************************************************************************)
\* A call that fails and changes nothing: no slot free, a path too long, the
\* console's or the network's own names, a bad descriptor; or a request the
\* server refuses.
ClientFails ==
  /\ Calls
  /\ failed' = TRUE
  /\ UNCHANGED <<files, call, fs, fids, past, lost>>

FreeSlots == {f \in Fd : ~files[f].used}
FreeFids(s) == {i \in Fids : fids[s][i] = NoFid}

\* What the server does with NP_OPEN: its answer, and the file after it.
\* O_EXCL is sent beside O_CREAT only.
OpenStatus(p, flags) ==
  IF fs[p.server][p.name] # Absent /\ {"create", "excl"} \subseteq flags THEN "exists"
  ELSE IF fs[p.server][p.name] = Directory THEN "not_a_file"
  ELSE IF fs[p.server][p.name] = Absent /\ "create" \notin flags THEN "not_found"
  ELSE IF FreeFids(p.server) = {} THEN "busy" ELSE "ok"
Opened(p, flags) ==
  /\ fs' = [fs EXCEPT ![p.server][p.name] = IF @ = Absent \/ "trunc" \in flags THEN File(<< >>) ELSE @]
  /\ fids' = [fids EXCEPT ![p.server][Free(FreeFids(p.server))] = p.name]

open(p, flags) ==
  /\ Calls /\ FreeSlots # {} /\ OpenStatus(p, flags) = "ok"
  /\ Opened(p, flags)
  /\ files' = [files EXCEPT ![Free(FreeSlots)] =
       [used |-> TRUE, server |-> p.server, fid |-> Free(FreeFids(p.server)), offset |-> 0,
        name |-> p.name, life |-> past[p.server].restarts]]
  /\ failed' = FALSE
  /\ UNCHANGED <<call, past, lost>>
OpenRefused(p, flags) ==
  /\ Calls /\ FreeSlots # {} /\ OpenStatus(p, flags) # "ok"
  /\ failed' = TRUE
  /\ UNCHANGED <<files, call, fs, fids, past, lost>>
OpenLost(p, flags) ==
  /\ Idle /\ FreeSlots # {} /\ Fault
  /\ \/ UNCHANGED <<fs, fids, lost>>
     \/ /\ OpenStatus(p, flags) = "ok" /\ Opened(p, flags)
        /\ lost' = [lost EXCEPT ![p.server] = @ \cup {Free(FreeFids(p.server))}]
  /\ failed' = TRUE
  /\ UNCHANGED <<files, call, past>>

\* A descriptor opened since its server last restarted.
Fresh(f) == files[f].life = past[files[f].server].restarts
\* close gives the slot back whatever the server says.
Clunked(f) ==
  \E s \in {files[f].server}, i \in {files[f].fid} :
    /\ fids' = [fids EXCEPT ![s][i] = NoFid]
    /\ lost' = [lost EXCEPT ![s] = @ \ {i}]
    /\ past' = [past EXCEPT ![s].crossed = @ \/ (~Fresh(f) /\ fids[s][i] # NoFid)]
close(f) ==
  /\ Calls /\ files[f].used
  /\ Clunked(f)
  /\ failed' = (fids[files[f].server][files[f].fid] = NoFid)
  /\ files' = [files EXCEPT ![f] = Unused]
  /\ UNCHANGED <<call, fs>>
CloseLost(f) ==
  /\ Idle /\ files[f].used /\ Fault
  /\ \/ Clunked(f)
     \/ /\ lost' = IF Fresh(f) THEN [lost EXCEPT ![files[f].server] = @ \cup {files[f].fid}] ELSE lost
        /\ UNCHANGED <<fids, past>>
  /\ files' = [files EXCEPT ![f] = Unused]
  /\ failed' = TRUE
  /\ UNCHANGED <<call, fs>>

----------------------------------------------------------------------------
(***************************************************************************)
(* read and write, request by request, and lseek.                          *)
(***************************************************************************)
\* The file the server finds under the descriptor's fid.
Served(f) == fids[files[f].server][files[f].fid]
Bytes(f) == fs[files[f].server][Served(f)].bytes
Serves(f) == Served(f) # NoFid /\ IsFile(files[f].server, Served(f))

Begin(op, f, n) ==
  /\ Calls /\ files[f].used
  /\ call' = [op |-> op, fd |-> f, count |-> n, done |-> 0, start |-> files[f].offset, data |-> << >>]
  /\ UNCHANGED <<files, failed, fs, fids, past, lost>>

Least(a, b) == IF a < b THEN a ELSE b
Want == Least(FS_DATA_MAX, call.count - call.done)
There(f) == IF files[f].offset < Len(Bytes(f)) THEN Len(Bytes(f)) - files[f].offset ELSE 0

\* The offset moves by what the server did.
Moved(f, n) == [files EXCEPT ![f].offset = @ + n]

\* The loop goes on after a full answer, and ends after a short one.
Goes(n) ==
  [call EXCEPT !.op = IF n < Want \/ call.done + n = call.count THEN "had" ELSE @, !.done = @ + n]

\* NP_PREAD: n bytes, fewer than asked for at the end of the file or when
\* the server has reason to.
read(n) ==
  /\ call.op = "read" /\ call.done < call.count /\ Serves(call.fd)
  /\ n <= Least(Want, There(call.fd)) /\ (n = 0 => There(call.fd) = 0)
  /\ files' = Moved(call.fd, n)
  /\ failed' = FALSE
  /\ call' = [Goes(n) EXCEPT !.data = @ \o SubSeq(Bytes(call.fd), files[call.fd].offset + 1,
                                                  files[call.fd].offset + n)]
  /\ UNCHANGED <<fs, fids, past, lost, count>>

\* The bytes of a file after a write at an offset, holes filled with 0.
Over(b, at, new) ==
  [i \in 1 .. (IF Len(b) > at + Len(new) THEN Len(b) ELSE at + Len(new)) |->
     IF i > at /\ i <= at + Len(new) THEN new[i - at] ELSE IF i <= Len(b) THEN b[i] ELSE 0]

\* NP_PWRITE of the next chunk; fewer bytes than it has when the disk is full.
Chunk(n) == SubSeq(Buffer, call.done + 1, call.done + n)
Stored(f, n) ==
  fs' = [fs EXCEPT ![files[f].server][Served(f)].bytes = Over(@, files[f].offset, Chunk(n))]
write(n) ==
  /\ call.op = "write" /\ call.done < call.count /\ Serves(call.fd)
  /\ n <= Want /\ files[call.fd].offset + n <= MaxSize
  /\ Stored(call.fd, n)
  /\ files' = Moved(call.fd, n)
  /\ failed' = FALSE
  /\ call' = Goes(n)
  /\ UNCHANGED <<fids, past, lost, count>>

\* The request fails: what was done before it is the answer, or the error.
\* Of a write whose answer was lost the chunk may be there.
IoRefused ==
  /\ call.op \in {"read", "write"} /\ ~Serves(call.fd)
  /\ failed' = TRUE
  /\ call' = [call EXCEPT !.op = "had"]
  /\ UNCHANGED <<files, fs, fids, past, lost, count>>
IoLost ==
  /\ call.op \in {"read", "write"} /\ Fault
  /\ \/ UNCHANGED fs
     \/ /\ call.op = "write" /\ Serves(call.fd) /\ files[call.fd].offset + Want <= MaxSize
        /\ Stored(call.fd, Want)
  /\ failed' = TRUE
  /\ call' = [call EXCEPT !.op = "had"]
  /\ UNCHANGED <<files, fids, past, lost>>
Return ==
  /\ call.op = "had"
  /\ call' = NoCall
  /\ UNCHANGED <<files, failed, fs, fids, past, lost, count>>

\* A long's sum, as the machine makes it.
Sum(a, b) == ((a + b + LONG_MAX + 1) % (2 * (LONG_MAX + 1))) - (LONG_MAX + 1)

Overflows(base, offset) == offset > 0 /\ base > LONG_MAX - offset

\* lseek, from the start, from here, or from the end (which asks fstat).
Seeks(f, base, offset) ==
  \/ /\ ~Overflows(base, offset) /\ Sum(base, offset) >= 0
     /\ files' = [files EXCEPT ![f].offset = Sum(base, offset)]
     /\ UNCHANGED failed
  \/ /\ Overflows(base, offset) \/ Sum(base, offset) < 0
     /\ failed' = TRUE
     /\ UNCHANGED files
lseek(f, offset) ==
  /\ Calls /\ files[f].used
  /\ \/ Seeks(f, 0, offset)
     \/ Seeks(f, files[f].offset, offset)
     \/ Serves(f) /\ Seeks(f, Len(Bytes(f)), offset)
  /\ UNCHANGED <<call, fs, fids, past, lost>>

----------------------------------------------------------------------------
(***************************************************************************)
(* Names: unlink, rmdir, remove, rename, stat.                             *)
(***************************************************************************)
unlink(p) ==
  /\ Calls /\ IsFile(p.server, p.name)
  /\ fs' = [fs EXCEPT ![p.server][p.name] = Absent]
  /\ failed' = FALSE
  /\ UNCHANGED <<files, call, fids, past, lost>>
rmdir(p) ==
  /\ Calls /\ fs[p.server][p.name] = Directory
  /\ fs' = [fs EXCEPT ![p.server][p.name] = Absent]
  /\ failed' = FALSE
  /\ UNCHANGED <<files, call, fids, past, lost>>

\* remove: unlink first, and rmdir only for what unlink says is no file.
remove(p) ==
  /\ Calls
  /\ IF fs[p.server][p.name] = Absent THEN failed' = TRUE /\ UNCHANGED fs
     ELSE failed' = FALSE /\ fs' = [fs EXCEPT ![p.server][p.name] = Absent]
  /\ UNCHANGED <<files, call, fids, past, lost>>

\* rename, within one server only: to a name that is free, or of a file over a
\* file, which it replaces.
Replaceable(p, q) ==
  \/ fs[p.server][p.name] # Absent /\ fs[q.server][q.name] = Absent
  \/ IsFile(p.server, p.name) /\ IsFile(q.server, q.name)
rename(p, q) ==
  /\ Calls /\ p # q
  /\ \/ /\ p.server # q.server
        /\ failed' = TRUE /\ UNCHANGED fs
     \/ /\ p.server = q.server /\ Replaceable(p, q)
        /\ fs' = [fs EXCEPT ![p.server] = [@ EXCEPT ![p.name] = Absent, ![q.name] = fs[p.server][p.name]]]
        /\ failed' = FALSE
  /\ UNCHANGED <<files, call, fids, past, lost>>

\* stat and fstat only ask.
stat(p) ==
  /\ Calls
  /\ failed' = (fs[p.server][p.name] = Absent)
  /\ UNCHANGED <<files, call, fs, fids, past, lost>>

----------------------------------------------------------------------------
(***************************************************************************)
(* A server restarts, and the program's end.                               *)
(***************************************************************************)
Restart(s) ==
  /\ count.restarts < MaxRestarts
  /\ count' = [count EXCEPT !.restarts = @ + 1]
  /\ fids' = [fids EXCEPT ![s] = [i \in Fids |-> NoFid]]
  /\ lost' = [lost EXCEPT ![s] = {}]
  /\ past' = [past EXCEPT ![s] = [restarts |-> @.restarts + 1, crossed |-> FALSE]]
  /\ UNCHANGED <<files, failed, call, fs>>

\* _exit: __libc_close_all clunks every fid the program still has.
Closed(s) == {files[f].fid : f \in {g \in Fd : files[g].used /\ files[g].server = s}}
_exit ==
  /\ Idle
  /\ fids' = [s \in Servers |-> [i \in Fids |-> IF i \in Closed(s) THEN NoFid ELSE fids[s][i]]]
  /\ files' = [f \in Fd |-> Unused]
  /\ count' = [count EXCEPT !.exited = TRUE]
  /\ UNCHANGED <<failed, call, fs, past, lost>>

Next ==
  \/ \E p \in Paths, flags \in Flags : open(p, flags) \/ OpenRefused(p, flags) \/ OpenLost(p, flags)
  \/ ClientFails
  \/ \E f \in Fd : close(f) \/ CloseLost(f)
  \/ \E f \in Fd, n \in 1 .. Len(Buffer) : Begin("read", f, n) \/ Begin("write", f, n)
  \/ \E n \in 0 .. FS_DATA_MAX : read(n) \/ write(n)
  \/ IoRefused \/ IoLost \/ Return
  \/ \E f \in Fd, offset \in Offsets : lseek(f, offset)
  \/ \E p \in Paths : unlink(p) \/ rmdir(p) \/ remove(p) \/ stat(p)
  \/ \E p, q \in Paths : rename(p, q)
  \/ \E s \in Servers : Restart(s)
  \/ _exit
Spec == Init /\ [][Next]_vars

----------------------------------------------------------------------------
\* A descriptor opened since its server last restarted reaches the name it was
\* opened on, and its fid is no other's.  One from before the restart reaches
\* nothing, until the program is given its number again for an open of its own;
\* closing it then takes that open's fid away, which is the one way a descriptor
\* is crossed with another.
Reissued(s) == {files[g].fid : g \in {g \in Fd : files[g].used /\ files[g].server = s /\ Fresh(g)}} \cup lost[s]
FdIsItsFile ==
  \A f \in {g \in Fd : files[g].used} :
    /\ Fresh(f) /\ ~past[files[f].server].crossed =>
         /\ Served(f) = files[f].name
         /\ \A g \in Fd \ {f} : files[g].used /\ files[g].server = files[f].server /\ Fresh(g) =>
              files[g].fid # files[f].fid
    /\ ~Fresh(f) /\ Served(f) # NoFid => files[f].fid \in Reissued(files[f].server)

\* However a read or a write ends - whole, short, or with an error on a later
\* request - the offset has moved by what it reports, the bytes it returns
\* are the file's from where it started, and the bytes it says are written
\* are there.
IoLinesUp ==
  call.op \in {"read", "write", "had"} =>
    /\ files[call.fd].offset = call.start + call.done
    /\ Serves(call.fd) /\ call.data # << >> =>
         call.data = SubSeq(Bytes(call.fd), call.start + 1, call.start + call.done)
    /\ Serves(call.fd) /\ call.data = << >> /\ call.done > 0 =>
         SubSeq(Bytes(call.fd), call.start + 1, call.start + call.done) = SubSeq(Buffer, 1, call.done)

\* An offset never leaves 0 .. LONG_MAX.
OffsetInRange == \A f \in Fd : files[f].used => files[f].offset \in 0 .. LONG_MAX

\* A program that has ended has left at its servers no more fids than answers
\* were lost to it, whatever restarted meanwhile and however it closed; those
\* are its server's to reap (FileServer, NetExport).
NoFidIsLeft ==
  count.exited =>
    Cardinality({x \in Servers \X Fids : fids[x[1]][x[2]] # NoFid}) <= count.faults

(***************************************************************************)
(* A C program's output (libc/src/stdio.c, file.c and os.c): stdio's       *)
(* buffer above the one at the write boundary, their flushes, the messages *)
(* to the reader of a pipe or the calls of the console server, and the     *)
(* end-of-stream marker at exit.  The reader and the console are external. *)
(* A byte is its number in the order the program made it, and whether it   *)
(* is a newline.                                                           *)
(***************************************************************************)
CONSTANTS
  OBUF_SIZE,      \* stdio's buffer
  OUT_BUF_SIZE,   \* the write boundary's
  MSG_MAX_LEN,    \* bytes in one message, or one call of the console
  MAILBOX_DEPTH,  \* messages the reader's mailbox holds
  MaxBytes,       \* bound: bytes the program prints
  MaxGiveUps      \* bound: full mailboxes waited out, console calls that fail

VARIABLES
  obuf,     \* g_obuf: printf's, putchar's
  out,      \* g_out
  todo,     \* the bytes a write(1) has not yet put in g_out
  err,      \* the bytes of a write(2)
  sending,  \* the bytes pipe_write or console_write has not yet sent
  plan,     \* what is left of the call, in order
  ended,    \* __libc_end_stdout's
  mail,     \* the reader's mailbox
  got,      \* history: the messages taken from it, or printed
  made,     \* history: bytes the program has made
  written,  \* history: their numbers, in the order write was given them
  world     \* the target, whether its reader lives, and what went wrong

outVars == <<obuf, out, todo, err, sending, plan, ended, mail, got, made, written, world>>

Nothing == << >>
Eos == << >>
Numbers(b) == [i \in DOMAIN b |-> b[i].n]

OutInit ==
  /\ obuf = Nothing /\ out = Nothing /\ todo = Nothing /\ err = Nothing /\ sending = Nothing
  /\ plan = << >> /\ ended = FALSE
  /\ mail = << >> /\ got = << >> /\ made = 0 /\ written = << >>
  /\ world \in [target : {"pipe", "console"}, reader : {TRUE}, trouble : {0}, given_up : {FALSE},
                no_eos : {FALSE}, gone : {FALSE}]

Settled == sending = Nothing /\ todo = Nothing
OutIdle == Settled /\ plan = << >> /\ ~world.gone

----------------------------------------------------------------------------
(***************************************************************************)
(* The program's calls.                                                    *)
(***************************************************************************)
Byte(nl) == [n |-> made + 1, nl |-> nl]
Makes == made < MaxBytes /\ made' = made + 1

\* obuf_put, for putchar, puts and printf: __libc_flush_stdout follows a
\* newline and fills the plan with its write.
obuf_put(nl) ==
  /\ OutIdle /\ Makes
  /\ obuf' = Append(obuf, Byte(nl))
  /\ plan' = IF nl \/ Len(obuf') = OBUF_SIZE THEN <<"stdio">> ELSE << >>
  /\ UNCHANGED <<out, todo, err, sending, ended, mail, got, written, world>>

\* write to fd 1, and to fd 2: that one flushes fd 1 first and is not buffered.
write_out(nl) ==
  /\ OutIdle /\ Makes
  /\ todo' = <<Byte(nl)>>
  /\ written' = Append(written, made + 1)
  /\ UNCHANGED <<obuf, out, err, sending, plan, ended, mail, got, world>>
write_err ==
  /\ OutIdle /\ Makes
  /\ err' = <<Byte(FALSE)>>
  /\ written' = Append(written, made + 1)
  /\ plan' = <<"flush", "direct">>
  /\ UNCHANGED <<obuf, out, todo, sending, ended, mail, got, world>>

\* read from fd 0, and poll: fd 1 is flushed before the wait.
BeforeWait == <<"flush", "wait">>
read_key ==
  /\ OutIdle
  /\ plan' = BeforeWait
  /\ UNCHANGED <<obuf, out, todo, err, sending, ended, mail, got, made, written, world>>

\* __libc_end_stdout.
End == <<"flush", "eos">>

\* _exit_stdout, and exit before it, which has already done the same (picolibc's
\* does not).
_exit_stdout ==
  /\ OutIdle
  /\ plan' = <<"stdio">> \o End \o <<"exit">>
  /\ UNCHANGED <<obuf, out, todo, err, sending, ended, mail, got, made, written, world>>
exit ==
  /\ OutIdle
  /\ plan' = <<"stdio">> \o End \o <<"stdio">> \o End \o <<"exit">>
  /\ UNCHANGED <<obuf, out, todo, err, sending, ended, mail, got, made, written, world>>

----------------------------------------------------------------------------
(***************************************************************************)
(* Their steps.                                                            *)
(***************************************************************************)
Does(what) == Settled /\ plan # << >> /\ Head(plan) = what /\ plan' = Tail(plan)

\* __libc_flush_stdout writes stdio's buffer to fd 1.
flush_stdout ==
  /\ Does("stdio")
  /\ todo' = obuf /\ obuf' = Nothing
  /\ written' = written \o Numbers(obuf)
  /\ UNCHANGED <<out, err, sending, ended, mail, got, made, world>>

\* out_buffer, a byte: out_flush follows a newline, and a full buffer.
out_buffer ==
  /\ sending = Nothing /\ todo # Nothing
  /\ todo' = Tail(todo)
  /\ \E b \in {Append(out, Head(todo))} :
       IF Head(todo).nl \/ Len(b) = OUT_BUF_SIZE THEN sending' = b /\ out' = Nothing
       ELSE out' = b /\ UNCHANGED sending
  /\ UNCHANGED <<obuf, err, plan, ended, mail, got, made, written, world>>

out_flush ==
  /\ Does("flush")
  /\ sending' = out /\ out' = Nothing
  /\ UNCHANGED <<obuf, todo, err, ended, mail, got, made, written, world>>
Direct ==
  /\ Does("direct")
  /\ sending' = err /\ err' = Nothing
  /\ UNCHANGED <<obuf, out, todo, ended, mail, got, made, written, world>>

\* The key comes.
KeyComes ==
  /\ Does("wait")
  /\ UNCHANGED <<obuf, out, todo, err, sending, ended, mail, got, made, written, world>>

Room == Len(mail) < MAILBOX_DEPTH
Piece == IF Len(sending) > MSG_MAX_LEN THEN MSG_MAX_LEN ELSE Len(sending)
Rest == SubSeq(sending, Piece + 1, Len(sending))
Trouble == world.trouble < MaxGiveUps

\* pipe_write: a piece to the reader's mailbox.  A full mailbox is waited for
\* until a deadline, and what is left of the write is dropped at it; so it is
\* when the reader is gone or the send is refused.
pipe_write ==
  /\ sending # Nothing /\ world.target = "pipe" /\ world.reader /\ Room
  /\ mail' = Append(mail, Numbers(SubSeq(sending, 1, Piece)))
  /\ sending' = Rest
  /\ UNCHANGED <<obuf, out, todo, err, plan, ended, got, made, written, world>>
GiveUp ==
  /\ sending # Nothing /\ world.target = "pipe"
  /\ \/ /\ world.reader /\ ~Room /\ Trouble
        /\ world' = [world EXCEPT !.trouble = @ + 1, !.given_up = TRUE]
     \/ /\ ~world.reader
        /\ world' = [world EXCEPT !.given_up = TRUE]
  /\ sending' = Nothing
  /\ UNCHANGED <<obuf, out, todo, err, plan, ended, mail, got, made, written>>

\* console_write: a piece in a call of the console server; when the call
\* fails the piece goes out a byte at a time, printed already or not.
console_write ==
  /\ sending # Nothing /\ world.target = "console"
  /\ \E piece \in {Numbers(SubSeq(sending, 1, Piece))} :
       \/ got' = Append(got, piece) /\ UNCHANGED world
       \/ /\ Trouble
          /\ world' = [world EXCEPT !.trouble = @ + 1]
          /\ got' \in {Append(got, piece), got \o <<piece, piece>>}
  /\ sending' = Rest
  /\ UNCHANGED <<obuf, out, todo, err, plan, ended, mail, made, written>>

\* __libc_end_stdout's own part: once, to a pipe only, and one try.
Sent == ended
end_stdout ==
  /\ Does("eos")
  /\ ended' = TRUE
  /\ IF Sent \/ world.target = "console" THEN UNCHANGED <<mail, world>>
     ELSE IF world.reader /\ Room THEN mail' = Append(mail, Eos) /\ UNCHANGED world
     ELSE world' = [world EXCEPT !.no_eos = TRUE] /\ UNCHANGED mail
  /\ UNCHANGED <<obuf, out, todo, err, sending, got, made, written>>
Gone ==
  /\ Does("exit")
  /\ world' = [world EXCEPT !.gone = TRUE]
  /\ UNCHANGED <<obuf, out, todo, err, sending, ended, mail, got, made, written>>

\* The reader takes a message, or ends.
Takes ==
  /\ mail # << >> /\ world.reader
  /\ got' = Append(got, Head(mail)) /\ mail' = Tail(mail)
  /\ UNCHANGED <<obuf, out, todo, err, sending, plan, ended, made, written, world>>
ReaderEnds ==
  /\ world.target = "pipe" /\ world.reader
  /\ world' = [world EXCEPT !.reader = FALSE]
  /\ mail' = << >>
  /\ UNCHANGED <<obuf, out, todo, err, sending, plan, ended, got, made, written>>

OutNext ==
  \/ \E nl \in BOOLEAN : obuf_put(nl) \/ write_out(nl)
  \/ write_err \/ read_key \/ exit \/ _exit_stdout
  \/ flush_stdout \/ out_buffer \/ out_flush \/ Direct \/ KeyComes
  \/ pipe_write \/ GiveUp \/ console_write \/ end_stdout \/ Gone
  \/ Takes \/ ReaderEnds
OutSpec == OutInit /\ [][OutNext]_vars

----------------------------------------------------------------------------
Arrived == FlattenSeq(got \o mail)
OnItsWay == Numbers(sending \o out \o err \o todo)
Place(n) == CHOOSE i \in DOMAIN written : written[i] = n

\* What has arrived, and behind it what is still in the program's buffers, is
\* in the order write was given it: a line of fd 2 never passes one of fd 1,
\* and no byte comes twice but from a console call that failed.
InOrder ==
  \E all \in {Arrived \o OnItsWay} :
    \A i, j \in DOMAIN all : i < j =>
      Place(all[i]) < Place(all[j]) \/ (world.target = "console" /\ world.trouble > 0 /\ i < Len(Arrived))

\* A program that waits for a key has sent every byte it made but the unfinished
\* line in stdio's own buffer, which read does not flush (a prompt made with
\* printf is one such): all that write was given is out.
PromptIsOut ==
  Settled /\ plan # << >> /\ Head(plan) = "wait" /\ ~world.given_up /\ world.reader =>
    /\ \A n \in 1 .. made : n \in Range(Arrived) \cup Range(Numbers(obuf))
    /\ \A k \in DOMAIN obuf : ~obuf[k].nl

\* A program that has ended has sent every byte it made, the ones in stdio's
\* buffer included, unless its reader ended or did not read in time.
AllIsSent ==
  world.gone /\ ~world.given_up /\ world.reader =>
    \A n \in 1 .. made : \E j \in DOMAIN Arrived : Arrived[j] = n

\* The end-of-stream marker comes once and after all data; a pipe whose
\* program has ended has it unless its mailbox was full just then.
EosIsLast ==
  \E all \in {got \o mail} :
    /\ \A i \in DOMAIN all : all[i] = Eos => i = Len(all)
    /\ world.gone /\ world.target = "pipe" /\ world.reader /\ ~world.no_eos =>
         all # << >> /\ Last(all) = Eos
=============================================================================
