------------------------------- MODULE Volume -------------------------------
(* What a mounted volume promises its clients, whichever format it has: a   *)
(* tree of files and directories, and requests of fsd's vfs.rs, each with    *)
(* the names and the data it was given and the answer it got.  One answered  *)
(* "ok" did what was asked to the names it was given and nothing else; one    *)
(* is "refused" only when the tree does not allow it; a volume with no room   *)
(* changes nothing, but for write_at, which keeps what it had written.  A     *)
(* disk error inside a request may harm the names that request was given,    *)
(* and no other.  fat32.rs, exfat.rs and ext2.rs are each shown to implement  *)
(* this.                                                                     *)
EXTENDS Naturals, Sequences, SequencesExt, FiniteSets

CONSTANT
    Paths       \* the path names a client may use: sequences of names

VARIABLES
    tree,       \* what each path name leads to
    done        \* the request last carried out and its answer

vars == <<tree, done>>

\* A request: op of the name p (and, for mv, to the name q), write_at of data at
\* offset o; turn tells a request from the one before it.
Request(op, p, q, o, data, answer, turn) ==
    [op |-> op, p |-> p, q |-> q, o |-> o, data |-> data, answer |-> answer, turn |-> turn]
Mounted == Request("mount", <<>>, <<>>, 0, <<>>, "ok", 0)

None == [kind |-> "none", data |-> <<>>]
Dir == [kind |-> "dir", data |-> <<>>]
File(d) == [kind |-> "file", data |-> d]

Parent(p) == IF Len(p) = 1 THEN Dir ELSE tree[Front(p)]
Under(p) == {q \in Paths : Len(q) > Len(p) /\ IsPrefix(p, q)}

\* The content d after data is written at offset o: a gap past the old end
\* is zeros, and the file never shrinks.
Written(d, o, data) ==
    [i \in 1 .. (IF Len(d) > o + Len(data) THEN Len(d) ELSE o + Len(data)) |->
        IF i > o /\ i <= o + Len(data) THEN data[i - o]
        ELSE IF i <= Len(d) THEN d[i] ELSE 0]

Init == tree = [p \in Paths |-> None] /\ done = Mounted

(* ---- what the tree allows ---- *)
MayWrite(p) == Parent(p).kind = "dir" /\ tree[p].kind # "dir"
\* A file may replace a file, a directory replaces nothing, and nothing goes
\* into itself.
MayMove(p, q) ==
    /\ tree[p] # None /\ Parent(q).kind = "dir"
    /\ p = q \/ (~IsPrefix(p, q) /\ (tree[q] = None \/ (tree[p].kind = "file" /\ tree[q].kind = "file")))
Allowed(r) ==
    CASE r.op \in {"touch", "write_file"} -> MayWrite(r.p)
      [] r.op \in {"write_at", "rm"} -> tree[r.p].kind = "file"
      [] r.op = "mkdir" -> Parent(r.p).kind = "dir" /\ tree[r.p] = None
      [] r.op = "rmdir" -> tree[r.p].kind = "dir" /\ \A q \in Under(r.p) : tree[q] = None
      [] r.op = "mv" -> MayMove(r.p, r.q)
      [] r.op = "chmod" -> tree[r.p] # None

(* ---- what a request carried out does ---- *)
\* A rename: the name and everything under it goes over whole.
Moved(p, q) ==
    [r \in Paths |->
       IF p = q THEN tree[r]
       ELSE IF IsPrefix(p, r) THEN None
       ELSE IF IsPrefix(q, r)
            THEN LET s == p \o SubSeq(r, Len(q) + 1, Len(r)) IN IF s \in Paths THEN tree[s] ELSE None
            ELSE tree[r]]
Become(p, x) == [tree EXCEPT ![p] = x]
\* An existing file touched is left as it is.
Effect(r) ==
    CASE r.op = "touch" -> Become(r.p, IF tree[r.p] = None THEN File(<<>>) ELSE tree[r.p])
      [] r.op = "write_file" -> Become(r.p, File(r.data))
      [] r.op = "write_at" -> Become(r.p, File(Written(tree[r.p].data, r.o, r.data)))
      [] r.op = "mkdir" -> Become(r.p, Dir)
      [] r.op \in {"rm", "rmdir"} -> Become(r.p, None)
      [] r.op = "mv" -> Moved(r.p, r.q)
      [] r.op = "chmod" -> tree

Did(r) == Allowed(r) /\ tree' = Effect(r)

\* No room: nothing is changed, but that write_at ends early, leaving a file no
\* longer than the whole write would have made it, each place as it was or as
\* asked.
CutShort(r) ==
    LET old == tree[r.p].data
        new == tree'[r.p].data
        whole == Written(old, r.o, r.data)
    IN /\ r.op = "write_at" /\ Allowed(r)
       /\ Len(old) <= Len(new) /\ Len(new) <= Len(whole)
       /\ \A i \in 1 .. Len(new) :
             new[i] = whole[i] \/ (i <= Len(old) /\ new[i] = old[i])
       /\ tree' = Become(r.p, File(new))

\* The disk refused a write inside r: every name but the ones r was given still
\* leads where it did.  A rename has left each of its two names as it was or as
\* asked.
Harmed(r) ==
    /\ \A x \in Paths : ~IsPrefix(r.p, x) /\ ~IsPrefix(r.q, x) => tree'[x] = tree[x]
    /\ r.op = "mv" => /\ tree'[r.p] \in {tree[r.p], None}
                      /\ tree'[r.q] \in {tree[r.q], tree[r.p]}
\* A rename cut short has kept what it was moving under one of its names.
KeptMoving(r) ==
    r.op = "mv" /\ tree[r.p] # None => tree[r.p] \in {tree'[r.p], tree'[r.q]}

Answered(r) ==
    \/ r.answer = "ok" /\ Did(r)
    \/ r.answer = "refused" /\ ~Allowed(r) /\ UNCHANGED tree
    \/ r.answer = "no room" /\ (UNCHANGED tree \/ CutShort(r))
    \/ r.answer = "io" /\ Harmed(r)

Next == done'.turn # done.turn /\ Answered(done')

Spec == Init /\ [][Next]_vars
=============================================================================
