----------------------------- MODULE FileTools ------------------------------
(***************************************************************************)
(* The programs that change files one call at a time: cp, mv, write,       *)
(* writeat, touch, rm, mkdir, rmdir, and cat, which reads one.  Each is    *)
(* the sequence of requests its main makes through ulib; a request is one  *)
(* step of the server that holds the path, here or on another machine,     *)
(* where a transfer goes a chunk at a time.  A request may fail, or be     *)
(* carried out and its answer lost; another program may get between two    *)
(* of them.  Contents are sequences of units; ulib's resolution of a path  *)
(* (module ShellState) is in the path: the file it leads to and where that *)
(* is.  chmod and chown, and then ls and tree, follow below.               *)
(***************************************************************************)
EXTENDS Integers, SequencesExt, FiniteSetsExt

CONSTANTS
  Paths,        \* what is typed, resolved: [name, file, at, tree]
  Inside,       \* [path of a directory -> the path mv makes of it]
  Astray,       \* the file a path of another tree would name in this one
  Commands,     \* the programs that run
  Texts,        \* what write and writeat are given
  Offsets,      \* where writeat writes
  OnDisk,       \* [file -> what is there at first]
  LOCAL_CHUNK,  \* SAFECOPY_MAX, in units
  MAX_GAP,      \* how far past its end a file may be written
  MaxFaults,    \* bound: requests that fail
  MaxOthers,    \* bound: changes by other programs
  MaxRuns       \* bound: programs run

VARIABLES
  files,        \* what each file is: absent, a directory, or a file with its data
  tool,         \* the program that runs
  out,          \* what cat has printed
  before,       \* the files when the program was started
  meddled,      \* the files somebody else changed since
  faults, others, runs

vars == <<files, tool, out, before, meddled, faults, others, runs>>

Files == DOMAIN OnDisk
Absent == [kind |-> "absent", data |-> <<>>]
Dir == [kind |-> "dir", data |-> <<>>]
File(data) == [kind |-> "file", data |-> data]
Zero == 0
REMOTE_CHUNK == 1                          \* NP_REMOTE_CHUNK, the unit

NoPath == CHOOSE p \in Paths : TRUE
Idle == [cmd |-> "none", src |-> NoPath, dst |-> NoPath, force |-> FALSE, pc |-> "idle",
         off |-> 0, buf |-> <<>>, code |-> 0]
Exit(code) == [tool EXCEPT !.pc = "done", !.code = code]
At(cmd, pc) == tool.cmd = cmd /\ tool.pc = pc
Go(pc) == [tool EXCEPT !.pc = pc]
Remote(p) == p.at = "remote"
It(p) == files[p.file]

-----------------------------------------------------------------------------
(* The servers: what a request makes of a file, and whether it is refused.  *)

\* NP_WRITE: the whole content, creating the file.
Replaced(p, data) == [files EXCEPT ![p.file] = File(data)]

\* The data with d put at offset o; a gap is filled with zeros.
Put(data, o, d) ==
  [i \in 1..Max({Len(data), o + Len(d)}) |->
     IF i \in (o + 1)..(o + Len(d)) THEN d[i - o]
     ELSE IF i <= Len(data) THEN data[i] ELSE Zero]

\* NP_WRITE_AT, on a file that is there and not too short.
Written(p, o, d) == [files EXCEPT ![p.file].data = Put(@, o, d)]
TakesAt(p, o) == It(p).kind = "file" /\ o <= Len(It(p).data) + MAX_GAP

\* NP_READ: up to n units from offset o.
Read(p, o, n) == SubSeq(It(p).data, o + 1, Min({o + n, Len(It(p).data)}))

\* A request that makes eff of the files: answered, refused, or lost on the way there or back.
Call(allowed, eff, ok) ==
  \/ /\ allowed /\ files' = eff /\ tool' = ok /\ UNCHANGED faults
  \/ /\ ~allowed /\ files' = files /\ tool' = Exit(1) /\ UNCHANGED faults
  \/ /\ faults < MaxFaults /\ faults' = faults + 1
     /\ files' \in {files, IF allowed THEN eff ELSE files}
     /\ tool' = Exit(1)

Ask(allowed, ok) == Call(allowed, files, ok)

Rest == UNCHANGED <<before, meddled, others, runs>>
Quiet == Rest /\ UNCHANGED out

-----------------------------------------------------------------------------
(* ulib's transfers.                                                        *)

chunk(p) == IF Remote(p) THEN REMOTE_CHUNK ELSE LOCAL_CHUNK

\* What one request of a transfer carries: all of it here, a chunk to another machine.
Piece(p, d) == IF Remote(p) THEN SubSeq(d, 1, Min({REMOTE_CHUNK, Len(d)})) ELSE d

After(p, d) == SubSeq(d, Len(Piece(p, d)) + 1, Len(d))

\* fs_write_bulk: the first request replaces the file; done goes on with what is left.
fs_write_bulk(p, d, done) ==
  Call(It(p).kind # "dir", Replaced(p, Piece(p, d)),
       IF After(p, d) = <<>> THEN done
       ELSE [tool EXCEPT !.pc = "more", !.off = Len(Piece(p, d)), !.buf = After(p, d)])

\* fs_write_at: one request of it.
fs_write_at(p, o, d, done) ==
  Call(TakesAt(p, o), Written(p, o, Piece(p, d)),
       IF After(p, d) = <<>> THEN done
       ELSE [tool EXCEPT !.off = o + Len(Piece(p, d)), !.buf = After(p, d)])

-----------------------------------------------------------------------------
(* The programs.                                                            *)

\* cp and mv compare the two paths, resolved against the working directory.
Same(p, q) == p.name = q.name

First ==
  [cp |-> "probe", mv |-> "stat", write |-> "write", writeat |-> "more",
   cat |-> "read", touch |-> "op", rm |-> "op", mkdir |-> "op", rmdir |-> "op"]

Start ==
  /\ tool.pc \in {"idle", "done"} /\ runs < MaxRuns /\ runs' = runs + 1
  /\ \E cmd \in Commands, p, q \in Paths, f \in BOOLEAN, d \in Texts, o \in Offsets :
       /\ cmd \notin {"cp", "mv"} => p = q /\ ~f
       /\ cmd \notin {"write", "writeat"} => d = CHOOSE t \in Texts : TRUE
       /\ cmd # "writeat" => o = CHOOSE n \in Offsets : TRUE
       /\ tool' = [cmd |-> cmd, src |-> p, dst |-> q, force |-> f, code |-> 0,
                   pc |-> IF cmd \in {"cp", "mv"} /\ Same(p, q) THEN "refuse" ELSE First[cmd],
                   off |-> IF cmd = "writeat" THEN o ELSE 0,
                   buf |-> IF cmd \in {"write", "writeat"} THEN d ELSE <<>>]
  /\ out' = <<>> /\ before' = files /\ meddled' = {}
  /\ UNCHANGED <<files, faults, others>>

Refuse == tool.pc = "refuse" /\ tool' = Exit(1) /\ UNCHANGED <<files, faults>> /\ Quiet

\* cp reads a unit of the source before it touches the destination.
CpProbe ==
  /\ At("cp", "probe") /\ Quiet
  /\ Ask(It(tool.src).kind = "file", Go(IF tool.force THEN "truncate" ELSE "look"))

\* fs_presence without -f: Absent goes on; Present and Unknown are refused.
fs_presence(p, free) ==
  \/ files[p.file] = Absent /\ tool' = free /\ UNCHANGED faults
  \/ files[p.file] # Absent /\ tool' = Exit(1) /\ UNCHANGED faults
  \/ faults < MaxFaults /\ faults' = faults + 1 /\ tool' = Exit(1)

CpLook ==
  At("cp", "look") /\ fs_presence(tool.dst, Go("truncate")) /\ UNCHANGED files /\ Quiet

CpTruncate ==
  At("cp", "truncate") /\ fs_write_bulk(tool.dst, <<>>, Go("read")) /\ Quiet

\* The next chunk of the source; none left is the end.
CpRead ==
  /\ At("cp", "read") /\ Quiet
  /\ LET d == Read(tool.src, tool.off, chunk(tool.src))
     IN Ask(It(tool.src).kind = "file",
            IF d = <<>> THEN Exit(0) ELSE [tool EXCEPT !.pc = "write", !.buf = d])

CpWrite ==
  /\ At("cp", "write") /\ Quiet
  /\ fs_write_at(tool.dst, tool.off, tool.buf,
                 [tool EXCEPT !.pc = "read", !.off = @ + Len(tool.buf), !.buf = <<>>])

\* mv into a directory is to a name in it.
MvStat ==
  /\ At("mv", "stat") /\ UNCHANGED files /\ Quiet
  /\ \/ /\ tool' = [tool EXCEPT !.pc = "source",
                      !.dst = IF It(@).kind = "dir" /\ @ \in DOMAIN Inside THEN Inside[@] ELSE @]
        /\ UNCHANGED faults
     \/ faults < MaxFaults /\ faults' = faults + 1 /\ tool' \in {Exit(1), Go("source")}

\* An absent source is reported here, whatever else; -f skips the look at the destination.
MvSource ==
  /\ At("mv", "source") /\ UNCHANGED files /\ Quiet
  /\ LET on == Go(IF tool.force THEN "move" ELSE "look")
     IN \/ tool' = (IF It(tool.src) = Absent THEN Exit(1) ELSE on) /\ UNCHANGED faults
        \/ faults < MaxFaults /\ faults' = faults + 1 /\ tool' = on

MvLook ==
  At("mv", "look") /\ fs_presence(tool.dst, Go("move")) /\ UNCHANGED files /\ Quiet

\* fs_mv refuses two paths that are not of one server and tree.
CrossDevice(p, q) == p.at # q.at \/ p.tree # q.tree

\* The server takes both paths in the tree of the first.
Landing(p, q) == IF p.tree = q.tree THEN q.file ELSE Astray

\* NP_MV: the server's rename, replacing a file that is there.
Move ==
  /\ At("mv", "move") /\ Quiet
  /\ LET p == tool.src
         to == Landing(p, tool.dst)
         plain == It(p).kind = "file" /\ files[to].kind = "file"
     IN Call(~CrossDevice(p, tool.dst) /\ It(p) # Absent /\ (plain \/ files[to] = Absent),
             IF p.file = to THEN files
             ELSE [files EXCEPT ![p.file] = Absent, ![to] = files[p.file]],
             Exit(0))

Write ==
  At("write", "write") /\ fs_write_bulk(tool.dst, tool.buf, Exit(0)) /\ Quiet

\* The rest of write's transfer, and all of writeat's.
WriteMore ==
  /\ tool.cmd \in {"write", "writeat"} /\ tool.pc = "more" /\ Quiet
  /\ fs_write_at(tool.dst, tool.off, tool.buf, Exit(0))

\* cat: chunk by chunk until none is left.
CatRead ==
  /\ At("cat", "read") /\ Rest
  /\ LET d == Read(tool.dst, tool.off, chunk(tool.dst))
     IN /\ Ask(It(tool.dst).kind = "file",
               IF d = <<>> THEN Exit(0) ELSE [tool EXCEPT !.off = @ + Len(d)])
        /\ out' = IF tool'.pc = "read" THEN out \o d ELSE out

\* touch, rm, mkdir and rmdir: one request (a directory that is not empty refuses rmdir).
PathOp(cmd, allowed, x) ==
  /\ At(cmd, "op") /\ Quiet
  /\ Call(allowed, [files EXCEPT ![tool.dst.file] = x], Exit(0))

Touch == PathOp("touch", It(tool.dst).kind # "dir", IF It(tool.dst) = Absent THEN File(<<>>) ELSE It(tool.dst))
Rm == PathOp("rm", It(tool.dst).kind = "file", Absent)
Mkdir == PathOp("mkdir", It(tool.dst) = Absent, Dir)
Rmdir == \E empty \in BOOLEAN : PathOp("rmdir", It(tool.dst).kind = "dir" /\ empty, Absent)

\* Another program creates, replaces or removes a file.
Other ==
  /\ others < MaxOthers /\ others' = others + 1 /\ tool.pc \notin {"idle", "done"}
  /\ \E f \in Files : \E x \in {Absent, File(<<>>)} :
       /\ files[f] # x /\ files[f].kind # "dir"
       /\ files' = [files EXCEPT ![f] = x] /\ meddled' = meddled \union {f}
  /\ UNCHANGED <<tool, out, before, faults, runs>>

Init ==
  /\ files = OnDisk /\ tool = Idle /\ out = <<>> /\ before = OnDisk
  /\ meddled = {} /\ faults = 0 /\ others = 0 /\ runs = 0

Next ==
  \/ Start \/ Refuse \/ CpProbe \/ CpLook \/ CpTruncate \/ CpRead \/ CpWrite
  \/ MvStat \/ MvSource \/ MvLook \/ Move \/ Write \/ WriteMore \/ CatRead
  \/ Touch \/ Rm \/ Mkdir \/ Rmdir \/ Other

Spec == Init /\ [][Next]_vars

-----------------------------------------------------------------------------

Done(cmd) == At(cmd, "done") /\ tool.code = 0
Alone(p) == p.file \notin meddled
Apart == tool.src.file # tool.dst.file

\* A program that reports success has done what it says: a copy is the whole
\* source, however it was cut into chunks; a moved file is at its new place
\* only; a written file holds the text and nothing else; cat has printed
\* everything.  Nobody else having touched the files.
SuccessIsWhole ==
  (Alone(tool.src) /\ Alone(tool.dst)) =>
    /\ Done("cp") /\ Apart => It(tool.dst) = It(tool.src)
    /\ Done("mv") /\ Apart => It(tool.dst) = before[tool.src.file] /\ It(tool.src) = Absent
    /\ Done("cat") => out = It(tool.dst).data
    /\ Done("write") => It(tool.dst).data \in Texts

\* What was there stays: without -f neither cp nor mv replaces a file that was
\* there when it started, even if asking for it failed; a move never loses the
\* file, whatever becomes of its answer; a copy leaves its source alone; a
\* write that fails midway leaves a beginning of the text.
NothingIsLost ==
  LET src == tool.src.file dst == tool.dst.file
  IN /\ (tool.cmd \in {"cp", "mv"} /\ ~tool.force /\ dst \notin meddled /\ before[dst] # Absent)
          => files[dst] = before[dst] \/ (tool.cmd = "mv" /\ src = dst)
     /\ (tool.cmd = "mv" /\ {src, dst} \intersect meddled = {})
          => before[src] = Absent \/ files[src] = before[src] \/ files[dst] = before[src]
     /\ (tool.cmd = "cp" /\ Apart /\ src \notin meddled) => files[src] = before[src]
     /\ (tool.cmd = "write" /\ dst \notin meddled)
          => files[dst] = before[dst] \/ \E t \in Texts : IsPrefix(files[dst].data, t)

(***************************************************************************)
(* chmod and chown: how their argument becomes the mode and the owner that *)
(* fsd is asked to set.  A mode is a set of bits: <<field, perm>> for the  *)
(* nine rwx bits, and "suid", "sgid", "sticky" as <<"s", ...>>.  A         *)
(* symbolic mode is parsed to clauses; what the parser rejects is the      *)
(* operation "bad".  chmod reads the mode with one call and sets the new   *)
(* one with another.                                                       *)
(***************************************************************************)
CONSTANTS Requests,   \* what is typed: see Octal, Symbolic, Owner
          Modes,      \* modes the file may start with
          U16_MAX, Names
VARIABLES file,    \* [mode, uid, gid, dir]
          req, at, \* the request, and the clause and operation it is at
          mode,    \* chmod's working mode
          seen,    \* the file as chmod read it
          pc       \* and others, as above

ownVars == <<file, req, at, mode, seen, pc, others>>
Fields == {"u", "g", "o"}
Rwx(f) == {<<f, p>> : p \in {"r", "w", "x"}}
AnyX == {<<f, "x">> : f \in Fields}

OwnInit == /\ file \in [mode : Modes, uid : {1}, gid : {1}, dir : BOOLEAN]
           /\ req \in Requests /\ at = <<1, 1>> /\ mode = {} /\ seen = file /\ pc = "start" /\ others = 0

(***************************************************************************)
(* chmod.  req.clauses[k] = [who, ops], an operation [op, copy, letters].  *)
(***************************************************************************)
\* An octal mode is absolute; a symbolic one needs the file's own.
Octal == /\ pc = "start" /\ req.kind = "octal"
         /\ mode' = req.octal
         /\ pc' = IF req.ok THEN "set" ELSE "error"
         /\ UNCHANGED <<file, req, at, seen, others>>
StatMode == /\ pc = "start" /\ req.kind = "symbolic"
            /\ \/ /\ seen' = file /\ mode' = file.mode
                  /\ pc' = IF req.clauses = <<>> THEN "error" ELSE "apply"
               \/ pc' = "error" /\ UNCHANGED <<seen, mode>>
            /\ UNCHANGED <<file, req, at, others>>

Who(clause) == IF clause.who = {} THEN Fields ELSE clause.who
\* The rwx of an operation: another field's, or the letters.
Perms(o) ==
    IF o.copy \in Fields THEN {b[2] : b \in mode \cap Rwx(o.copy)}
    ELSE (o.letters \cap {"r", "w", "x"})
         \cup (IF "X" \in o.letters /\ (seen.dir \/ mode \cap AnyX # {}) THEN {"x"} ELSE {})
Bits(who, o) ==
    {<<f, p>> : f \in who, p \in Perms(o)}
    \cup (IF "s" \in o.letters THEN {<<"s", f>> : f \in who \cap {"u", "g"}} ELSE {})
    \cup (IF "t" \in o.letters THEN {<<"s", "t">>} ELSE {})
Cleared(who) == UNION {Rwx(f) : f \in who}
                \cup {<<"s", f>> : f \in who \cap {"u", "g"}}
                \cup (IF "o" \in who THEN {<<"s", "t">>} ELSE {})
apply_symbolic(who, o) ==
    CASE o.op = "+" -> mode \cup Bits(who, o)
      [] o.op = "-" -> mode \ Bits(who, o)
      [] o.op = "=" -> (mode \ Cleared(who)) \cup Bits(who, o)
Clause == req.clauses[at[1]]
Apply ==
    /\ pc = "apply"
    /\ IF at[2] > Len(Clause.ops) \/ Clause.ops[at[2]].op = "bad"
         THEN pc' = "error" /\ UNCHANGED <<mode, at>>
         ELSE /\ mode' = apply_symbolic(Who(Clause), Clause.ops[at[2]])
              /\ at' = IF at[2] < Len(Clause.ops) THEN <<at[1], at[2] + 1>> ELSE <<at[1] + 1, 1>>
              /\ pc' = IF at'[1] > Len(req.clauses) THEN "set" ELSE "apply"
    /\ UNCHANGED <<file, req, seen, others>>
\* The one request that changes the file: answered, lost on the way back, or not carried out.
SetTo(f) ==
    \/ file' = f /\ pc' \in {"done", "error"}
    \/ UNCHANGED file /\ pc' = "error"
Chmod == /\ pc = "set"
         /\ SetTo([file EXCEPT !.mode = mode])
         /\ UNCHANGED <<req, at, mode, seen, others>>

(***************************************************************************)
(* chown.  A field is absent, a number, or a name /etc/passwd or           *)
(* /etc/group may know; a file has 16 bits for each.                       *)
(***************************************************************************)
Truncated(id) == id % (U16_MAX + 1)

\* A mutant: a number too large for the field is cut to its width.
resolve_field_wrapped(f) ==
    CASE f.is = "number" -> Truncated(f.id) + 1
      [] f.is = "name" -> IF f.id \in Names THEN Truncated(f.id) + 1 ELSE 0

\* resolve_field: 0 stands for a field that ends the program.
resolve_field(f) ==
    CASE f.is = "number" -> IF f.id > U16_MAX THEN 0 ELSE f.id + 1
      [] f.is = "name" -> IF f.id \in Names /\ f.id <= U16_MAX THEN f.id + 1 ELSE 0
Given(f) == f.is # "absent"
Chown ==
    /\ pc = "start" /\ req.kind = "owner"
    /\ \/ /\ Given(req.user) \/ Given(req.group)
          /\ \A f \in {req.user, req.group} : Given(f) => resolve_field(f) # 0
          /\ SetTo([file EXCEPT !.uid = IF Given(req.user) THEN resolve_field(req.user) - 1 ELSE @,
                                !.gid = IF Given(req.group) THEN resolve_field(req.group) - 1 ELSE @])
       \/ pc' = "error" /\ UNCHANGED file
    /\ UNCHANGED <<req, at, mode, seen, others>>

\* Another program's chmod may come between chmod's two calls.
OtherChmod == /\ pc \in {"start", "set"} /\ others = 0 /\ others' = 1
              /\ file' = [file EXCEPT !.mode = @ \cup {<<"o", "x">>}]
              /\ UNCHANGED <<req, at, mode, seen, pc>>

OwnNext == Octal \/ StatMode \/ Apply \/ Chmod \/ Chown \/ OtherChmod
OwnSpec == OwnInit /\ [][OwnNext]_vars

\* The fields the clauses of a symbolic mode name.
Named == UNION {Who(req.clauses[k]) : k \in DOMAIN req.clauses}
WellFormed == \A k \in DOMAIN req.clauses :
    req.clauses[k].ops # <<>> /\ \A n \in DOMAIN req.clauses[k].ops : req.clauses[k].ops[n].op # "bad"
\* The file's new state is what the argument asks of the file as chmod read it.
AsAsked ==
    CASE req.kind = "octal" -> req.ok /\ file' = [file EXCEPT !.mode = req.octal]
      [] req.kind = "symbolic" ->
           /\ WellFormed /\ file' = [file EXCEPT !.mode = file'.mode]
           /\ \A f \in Fields \ Named : file'.mode \cap Rwx(f) = seen.mode \cap Rwx(f)
      [] req.kind = "owner" ->
           file' = [file EXCEPT !.uid = IF Given(req.user) THEN req.user.id ELSE @,
                                !.gid = IF Given(req.group) THEN req.group.id ELSE @]
\* chmod and chown change what their argument names and nothing else, whether
\* they are told of it or the answer is lost.  A symbolic mode leaves the rwx
\* bits of a field it does not name as chmod read them, whatever its clauses
\* copy from where, and one clause that does not parse undoes those before
\* it; an owner is the very id that was asked for, never one cut to 16 bits.
\* What is reported done was done.
OnlyTheNamedChanges ==
    (pc' # pc /\ pc' \in {"done", "error"}) => AsAsked \/ (pc' = "error" /\ file' = file)

(***************************************************************************)
(* Directory listings: the pages a server fills (ReaddirFill), the walk    *)
(* over them that ulib and the shell share (readdir_pages), and ls, which  *)
(* reads a listing into a buffer, keeps what fits, and says when it does   *)
(* not.  The server may be one from before paging, or one that breaks the  *)
(* rule; a call may fail, and the directory change between two pages.  An  *)
(* entry has a rank, which names it and places it in ls's order, a length  *)
(* in units, and a leading dot or none.  tree's walk is at the end.        *)
(***************************************************************************)
CONSTANTS
  Directories,     \* what a directory may hold: sequences of entries
  Servers,         \* "paging", "old", "broken"
  Operands,        \* what ls is given: sequences of "dir", "file", "error"
  PAGE,            \* READDIR_PAGE, in units
  LIST_BUF, MAX_ENTRIES,
  Columns,         \* how many columns fit, by what the entries are
  MaxChanges       \* bound: changes of the directory

VARIABLES
  dir,        \* what the directory holds, in the server's walk order
  server,     \* what kind of server it is
  ls,         \* ls: flags, operands to look at, directories to list, whether it failed
  walk,       \* readdir_pages: where it is, the page kept, what the buffer holds
  shown,      \* the entries ls has printed of this directory
  changes     \* and faults, as above

listVars == <<dir, server, ls, walk, shown, changes, faults>>

-----------------------------------------------------------------------------
(* A page.                                                                  *)

Lengths(entries) ==
  LET upto[i \in 0..Len(entries)] == IF i = 0 THEN 0 ELSE upto[i - 1] + entries[i].len
  IN upto[Len(entries)]

\* ReaddirFill: the entries from start on, whole, until the next would not fit.
Fill(entries, start) ==
  LET from == SubSeq(entries, start + 1, Len(entries))
      n == Max({k \in 0..Len(from) : Lengths(SubSeq(from, 1, k)) <= PAGE})
  IN SubSeq(from, 1, n)

\* An entry that would not fit an empty page is refused, not passed over.
TooLong(entries, start) == start < Len(entries) /\ entries[start + 1].len > PAGE

Answer(start) ==
  CASE server = "paging" -> Fill(dir, start)
    [] server = "old" -> Fill(dir, 0)
    [] server = "broken" -> <<>>

PAST_END == 1000                            \* READDIR_PAST_END: past any directory's end

-----------------------------------------------------------------------------
(* readdir_pages, filling fs_list_dir's buffer.                             *)

Fresh == [pc |-> "off", start |-> 0, paging |-> FALSE, page |-> <<>>, buf |-> <<>>, end |-> "none"]

\* The lines of a page go into the buffer until one does not fit.
Kept(buf, page) ==
  LET n == Max({k \in 0..Len(page) : Lengths(buf \o SubSeq(page, 1, k)) <= LIST_BUF})
  IN [buf |-> buf \o SubSeq(page, 1, n), all |-> n = Len(page)]

Deliver(w, page) ==
  LET k == Kept(w.buf, page)
  IN [w EXCEPT !.buf = k.buf, !.start = @ + Len(page), !.page = <<>>,
               !.pc = IF k.all THEN "fetch" ELSE "ended", !.end = IF k.all THEN "none" ELSE "Stopped"]

Ended(w, how) == [w EXCEPT !.pc = "ended", !.end = how]

\* Whether the server still has to show that it pages at all.
Unproven(w) == w.start > 0 /\ ~w.paging

\* A mutant: a page that is not empty is delivered, whatever it holds.
EndsAt_empty(page) == IF page = <<>> /\ server # "broken" THEN "Complete" ELSE "none"

\* An empty page is the end; so are bytes that hold no whole entry.
EndsAt(page) ==
  IF server = "broken" THEN "Broken" ELSE IF page = <<>> THEN "Complete" ELSE "none"

\* One page is asked for.
Fetch ==
  /\ walk.pc = "fetch"
  /\ \/ /\ ~(server = "paging" /\ TooLong(dir, walk.start)) /\ UNCHANGED faults
        /\ \E page \in {Answer(walk.start)} :
             walk' = IF EndsAt(page) # "none" THEN Ended(walk, EndsAt(page))
                     ELSE IF Unproven(walk) THEN [walk EXCEPT !.pc = "past", !.page = page]
                     ELSE Deliver(walk, page)
     \/ server = "paging" /\ TooLong(dir, walk.start) /\ walk' = Ended(walk, "Error") /\ UNCHANGED faults
     \/ faults < MaxFaults /\ faults' = faults + 1 /\ walk' = Ended(walk, "Error")
  /\ UNCHANGED <<dir, server, ls, shown, changes>>

\* Before page two counts, the server is asked for a page past any end.
FetchPast ==
  /\ walk.pc = "past"
  /\ \/ /\ walk' = IF Answer(PAST_END) # <<>> THEN Ended(walk, "OldServer")
                   ELSE Deliver([walk EXCEPT !.paging = TRUE], walk.page)
        /\ UNCHANGED faults
     \/ faults < MaxFaults /\ faults' = faults + 1 /\ walk' = Ended(walk, "Error")
  /\ UNCHANGED <<dir, server, ls, shown, changes>>

-----------------------------------------------------------------------------
(* ls.                                                                      *)

\* The operands are looked at one by one; what cannot be is reported, and ls goes on.
Stat ==
  /\ ls.args # <<>> /\ walk.pc = "off"
  /\ \E answer \in {Head(ls.args)} \union (IF faults < MaxFaults THEN {"error"} ELSE {}) :
       /\ faults' = IF answer = Head(ls.args) THEN faults ELSE faults + 1
       /\ ls' = [ls EXCEPT !.args = Tail(@),
                   !.dirs = IF answer = "dir" THEN @ + 1 ELSE @,
                   !.failed = @ \/ answer = "error"]
  /\ UNCHANGED <<dir, server, walk, shown, changes>>

\* The next directory operand.
ListDir ==
  /\ ls.args = <<>> /\ ls.dirs > 0 /\ walk.pc = "off"
  /\ walk' = [Fresh EXCEPT !.pc = "fetch"] /\ shown' = <<>>
  /\ changes' = 0 /\ ls' = [ls EXCEPT !.dirs = @ - 1]
  /\ UNCHANGED <<dir, server, faults>>

Visible(e) == ls.all \/ ~e.dot

\* show_listing: the first MAX_ENTRIES that are shown at all.
Taken(buf) ==
  LET visible == SelectSeq(buf, Visible) IN SubSeq(visible, 1, Min({MAX_ENTRIES, Len(visible)}))

\* Whether nothing that should be shown was left out.
held(buf) == Len(Taken(buf)) = Len(SelectSeq(buf, Visible))

\* sort_entries, by insertion.
Insert(sorted, e) ==
  LET k == Cardinality({i \in 1..Len(sorted) : sorted[i].rank <= e.rank})
  IN SubSeq(sorted, 1, k) \o <<e>> \o SubSeq(sorted, k + 1, Len(sorted))
sort_entries(entries) == FoldLeft(Insert, <<>>, entries)

\* print_columns: rows of a grid filled column by column.
print_columns(entries, cols) ==
  LET n == Len(entries)
      rows == (n + cols - 1) \div cols
      row(r) == SelectSeq([c \in 1..cols |-> (c - 1) * rows + r], LAMBDA i : i <= n)
      line(r) == [k \in 1..Len(row(r)) |-> entries[row(r)[k]]]
  IN FlattenSeq([r \in 1..rows |-> line(r)])

\* The listing is shown; one that was cut short, or failed, is reported.
Show ==
  /\ walk.pc = "ended"
  /\ IF walk.end = "Error" THEN ls' = [ls EXCEPT !.failed = TRUE] /\ UNCHANGED shown
     ELSE /\ shown' = print_columns(sort_entries(Taken(walk.buf)), Columns)
          /\ ls' = [ls EXCEPT !.failed = @ \/ ~held(walk.buf) \/ walk.end \notin {"Complete", "OldServer"},
                              !.cut = ~held(walk.buf) \/ walk.end \notin {"Complete", "OldServer"}]
  /\ walk' = [walk EXCEPT !.pc = "off"]
  /\ UNCHANGED <<dir, server, changes, faults>>

\* Between two pages the directory becomes another.
Change ==
  /\ walk.pc \in {"fetch", "past"} /\ changes < MaxChanges /\ changes' = changes + 1
  /\ \E d \in Directories : d # dir /\ dir' = d
  /\ UNCHANGED <<server, ls, walk, shown, faults>>

ListInit ==
  /\ dir \in Directories /\ server \in Servers
  /\ \E all \in BOOLEAN, ops \in Operands :
       ls = [all |-> all, args |-> ops, dirs |-> IF ops = <<>> THEN 1 ELSE 0,
             failed |-> FALSE, cut |-> FALSE]
  /\ walk = Fresh /\ shown = <<>> /\ changes = 0 /\ faults = 0

Steps == Stat \/ ListDir \/ Fetch \/ FetchPast \/ Show
ListNext == Steps \/ Change

ListSpec == ListInit /\ [][ListNext]_vars

-----------------------------------------------------------------------------

Listed == walk.pc = "off" /\ walk.end \in {"Complete", "OldServer", "Stopped", "Broken"}
Wanted(entries) == {e \in ToSet(entries) : Visible(e)}

\* What ls prints of a directory nobody changes is all of it, every entry
\* once, whatever the pages cut it into; or ls says that it is cut short, and
\* exits 1.  A server from before paging is listed to the end of its only page.
ListingIsWholeOrReported ==
  (Listed /\ changes = 0) =>
    /\ Len(shown) = Cardinality(ToSet(shown))
    /\ ToSet(shown) \subseteq Wanted(dir)
    /\ ls.cut => ls.failed
    /\ ~ls.cut => ToSet(shown) = Wanted(IF server = "old" THEN Fill(dir, 0) ELSE dir)

\* ls has listed every directory it was given.
Exited == ls.args = <<>> /\ ls.dirs = 0 /\ walk.pc = "off"

-----------------------------------------------------------------------------
(* tree: the lines of a directory's walk, each with its depth, whether it   *)
(* is drawn as the last of its directory, and its entry.                    *)

CutShort == [rank |-> 0, len |-> 0, dot |-> FALSE, sub |-> 0]

LastLine(i, n, whole) == i = n /\ whole

RECURSIVE tree_walk(_, _, _, _)
tree_walk(disk, d, depth, cap) ==
  LET k == Kept(<<>>, disk[d])
      entries == SubSeq(k.buf, 1, Min({MAX_ENTRIES, Len(k.buf)}))
      whole == Len(entries) = Len(disk[d])
      sorted == sort_entries(entries)
      block(i) ==
        <<[depth |-> depth, of |-> d, last |-> LastLine(i, Len(sorted), whole), entry |-> sorted[i]]>>
          \o (IF sorted[i].sub # 0 /\ depth + 1 < cap
              THEN tree_walk(disk, sorted[i].sub, depth + 1, cap) ELSE <<>>)
  IN FlattenSeq([i \in 1..Len(sorted) |-> block(i)])
       \o (IF whole THEN <<>> ELSE <<[depth |-> depth, of |-> d, last |-> TRUE, entry |-> CutShort]>>)

\* In tree's output each directory's lines end with its only last one, and an
\* entry that is missing is announced by the line that says so.
TreeIsDrawnRight(disk, cap) ==
  LET lines == tree_walk(disk, 1, 0, cap)
  IN \A d \in DOMAIN disk :
       LET mine == SelectSeq(lines, LAMBDA l : l.of = d)
       IN mine # <<>> =>
            /\ \A i \in 1..Len(mine) : mine[i].last <=> i = Len(mine)
            /\ ToSet(disk[d]) \subseteq {mine[i].entry : i \in 1..Len(mine)} \/ Last(mine).entry = CutShort
=============================================================================
