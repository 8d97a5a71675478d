------------------------------- MODULE Fat32 -------------------------------
(* fsd's FAT32 driver (programs/servers/fsd/src/fat32.rs): one mounted       *)
(* volume as its disk and the driver's own fields, one action per operation  *)
(* of vfs.rs.  A name is one slot of a directory when its short form says    *)
(* it all, and a run of a long-name slot and its entry otherwise; a cluster  *)
(* is one sector, holding Slots directory slots or Units units of a file.    *)
(* Every sector written is a Put, which the disk may refuse: the operation   *)
(* then goes no further, as `?` does, and the volume is left as it stands.   *)
EXTENDS Naturals, Sequences, SequencesExt, FiniteSets

CONSTANTS
    ShortNames, LongNames,  \* names make_short_name keeps whole, and the others
    Paths,                  \* the path names used
    DirPaths,               \* the ones mkdir is called with
    Contents, Pieces,       \* what write_file and write_at are given
    Offsets,                \* where write_at and read_at start
    ClusterEnd,             \* cluster_end: clusters 2 .. ClusterEnd - 1 exist
    Slots,                  \* directory slots in a cluster
    Units,                  \* units of a file's content in a cluster
    MaxOps,                 \* bound: operations carried out
    Refusals                \* the disk may refuse an operation's write after this many

VARIABLES
    v,          \* the disk, and the driver's Fs
    shown,      \* the tree a client reading every name is shown: TreeOf(v)
    done,       \* the request last carried out and its answer
    broken,     \* the disk refused a write
    ops         \* operations so far that left their mark

vars == <<v, shown, done, broken, ops>>

Heap == 2 .. ClusterEnd - 1
EOC == ClusterEnd + 1           \* END_OF_CHAIN_MIN
RootCluster == 2
NoCluster == 0
Never == 99                     \* more writes than any operation makes
NoCursor == [head |-> 0, cluster |-> 0, pos |-> 0]

Slot(k, name, alias, dir, c, size) ==
    [k |-> k, name |-> name, alias |-> alias, dir |-> dir, c |-> c, size |-> size]
End == Slot("end", "", <<"", 0>>, FALSE, 0, 0)      \* DIR_ENTRY_END
Free == Slot("free", "", <<"", 0>>, FALSE, 0, 0)    \* DIR_ENTRY_FREE
Zeroed == [i \in 1 .. Slots |-> End]
Blank == [i \in 1 .. Units |-> 0]
Rubbish == [i \in 1 .. Units |-> 9]                 \* a directory's bytes, as content

(* ---- errors and the disk ---- *)
Fail(d, e) == IF d.err = "ok" THEN [d EXCEPT !.err = e] ELSE d
Put(d, w) == IF d.err # "ok" THEN d
             ELSE IF d.left = 0 THEN Fail(d, "io") ELSE [w EXCEPT !.left = @ - 1]
PutSlots(d, c, s) == Put(d, [d EXCEPT !.slots[c] = s, !.data[c] = Rubbish])
\* A step after another one, which is taken only when the first went well: `?`.
Then(d, F(_)) == IF d.err # "ok" THEN d ELSE F(d)
With(x, F(_)) == F(x)
PutData(d, c, u) == Put(d, [d EXCEPT !.data[c] = u, !.slots[c] = Zeroed])

(* ---- the FAT ---- *)
in_heap(c) == c \in Heap

next_cluster(d, c) == IF in_heap(c) /\ in_heap(d.fat[c]) THEN d.fat[c] ELSE NoCluster

\* The live copy is written, then the mirror gets the same sector; a link that
\* is overwritten is one a cursor may have been taken along.
SetFat(d, c, x) == Put(d, [d EXCEPT !.fat[c] = x])
Mirror(d) == Put(d, [d EXCEPT !.mirror = d.fat])

DropCursors(d, c) ==
    IF next_cluster(d, c) = NoCluster THEN d ELSE [d EXCEPT !.rc = NoCursor, !.wc = NoCursor]
write_fat_entry(d, c, x) ==
    IF d.err # "ok" THEN d
    ELSE IF ~in_heap(c) THEN Fail(d, "io")
    ELSE Mirror(SetFat(DropCursors(d, c), c, x))

\* The first free cluster from the hint on, and round again from 2.
FirstFrom(free, hint) ==
    Min(IF \E c \in free : c >= hint THEN {c \in free : c >= hint} ELSE free)
Got(d, c) == [d EXCEPT !.got = c, !.hint = c + 1]
find_free_cluster(d) ==
    IF d.err # "ok" THEN d
    ELSE IF \A c \in Heap : d.fat[c] # 0 THEN Fail(d, "DiskFull")
    ELSE Got(d, FirstFrom({c \in Heap : d.fat[c] = 0}, d.hint))

zero_cluster(d, c) == PutSlots(d, c, Zeroed)

RECURSIVE free_chain(_, _)
free_chain(d, c) ==
    IF d.err # "ok" \/ ~in_heap(c) THEN d
    ELSE Then(write_fat_entry(d, c, 0), LAMBDA w :
           free_chain([w EXCEPT !.hint = Min({@, c})], next_cluster(d, c)))

\* The clusters of the chain from c, in order.
RECURSIVE ChainFrom(_, _, _)
ChainFrom(d, c, seen) ==
    IF ~in_heap(c) \/ c \in seen THEN <<>>
    ELSE <<c>> \o ChainFrom(d, next_cluster(d, c), seen \union {c})
Chain(d, c) == ChainFrom(d, c, {})

\* A cluster claimed as the end of a chain, in d.got.
Claim(d) == Then(find_free_cluster(d), LAMBDA w : write_fat_entry(w, w.got, EOC))

extend_chain(d, tail) == Then(Claim(d), LAMBDA w : write_fat_entry(w, tail, w.got))

(* ---- directories ---- *)
\* The places of a directory, and the ones before its end mark.
PlacesOf(ch) ==
    [i \in 1 .. Len(ch) * Slots |-> <<ch[((i - 1) \div Slots) + 1], ((i - 1) % Slots) + 1>>]
Places(d, dc) == PlacesOf(Chain(d, dc))
At(d, pl) == d.slots[pl[1]][pl[2]]
Vacant(d, pl) == At(d, pl).k \in {"free", "end"}
UpToEnd(d, ps) ==
    IF \A i \in 1 .. Len(ps) : At(d, ps[i]).k # "end" THEN ps
    ELSE SubSeq(ps, 1, Min({i \in 1 .. Len(ps) : At(d, ps[i]).k = "end"}) - 1)
BeforeEnd(d, dc) == UpToEnd(d, Places(d, dc))

\* An entry is known by the long name its run spells, when the run before it
\* is its own (the checksum of the alias), and by its short form otherwise.
HasLong(d, ps, i) ==
    i > 1 /\ At(d, ps[i - 1]).k = "lfn" /\ At(d, ps[i - 1]).alias = At(d, ps[i]).alias
Shown(d, ps, i) ==
    IF HasLong(d, ps, i) THEN At(d, ps[i - 1]).name
    ELSE IF At(d, ps[i]).alias[2] = 0 THEN At(d, ps[i]).alias[1] ELSE "~"

\* walk_dir_with_location: the entries f is called with, in order.
EntriesOf(d, ps) ==
    SelectSeq([i \in 1 .. Len(ps) |-> [name |-> Shown(d, ps, i), at |-> ps[i], e |-> At(d, ps[i])]],
              LAMBDA x : x.e.k = "ent")
walk_dir_with_location(d, dc) == EntriesOf(d, BeforeEnd(d, dc))

NoEntry == [name |-> "", at |-> <<0, 0>>, e |-> Free]
Named(es, n) ==
    IF \E i \in 1 .. Len(es) : es[i].name = n
    THEN es[Min({i \in 1 .. Len(es) : es[i].name = n})] ELSE NoEntry
lookup(d, dc, n) == Named(walk_dir_with_location(d, dc), n)
Found(x) == x.e.k = "ent"

RootEntry == [name |-> "", at |-> <<0, 0>>, e |-> Slot("ent", "", <<"", 0>>, TRUE, RootCluster, 0)]
\* A ".." of the root's is told by its cluster, 0.
RootFor0(x) == IF x.e.dir /\ x.e.c = 0 THEN [x EXCEPT !.e.c = RootCluster] ELSE x
find(d, p) ==
    FoldLeft(LAMBDA cur, n : IF ~Found(cur) \/ ~cur.e.dir THEN NoEntry
                             ELSE RootFor0(lookup(d, cur.e.c, n)),
             RootEntry, p)
IsDir(x) == Found(x) /\ x.e.dir
IsFile(x) == Found(x) /\ ~x.e.dir
ParentOf(d, p) == find(d, Front(p))

\* A zeroed cluster linked after the directory's last one.
Linked(d, tail) ==
    Then(Claim(d), LAMBDA w :
    Then(zero_cluster(w, w.got), LAMBDA z : write_fat_entry(z, tail, z.got)))
GrowDir(d, dc) == Linked(d, Last(Chain(d, dc)))

PutSlot(d, pl, slot) == PutSlots(d, pl[1], [d.slots[pl[1]] EXCEPT ![pl[2]] = slot])
FirstVacant(d, ps) == ps[Min({i \in 1 .. Len(ps) : Vacant(d, ps[i])})]
insert_dir_entry(d, dc, slot) ==
    Then(IF \E pl \in Range(Places(d, dc)) : Vacant(d, pl) THEN d ELSE GrowDir(d, dc),
         LAMBDA g : PutSlot(g, FirstVacant(g, Places(g, dc)), slot))

\* A run's slots, a sector at a time.
place_entries(d, pls, slots) ==
    IF pls[1][1] = pls[2][1]
    THEN PutSlots(d, pls[1][1],
                  [d.slots[pls[1][1]] EXCEPT ![pls[1][2]] = slots[1], ![pls[2][2]] = slots[2]])
    ELSE Then(PutSlot(d, pls[1], slots[1]), LAMBDA w : PutSlot(w, pls[2], slots[2]))

\* The first run of vacant places long enough, however many clusters it takes.
Fits(d, ps) == {i \in 1 .. Len(ps) - 1 : Vacant(d, ps[i]) /\ Vacant(d, ps[i + 1])}
RunAt(ps, i) == <<ps[i], ps[i + 1]>>
RECURSIVE write_entry_run(_, _, _)
write_entry_run(d, dc, slots) ==
    Then(d, LAMBDA x : With(Places(d, dc), LAMBDA ps :
      IF Fits(d, ps) # {} THEN place_entries(d, RunAt(ps, Min(Fits(d, ps))), slots)
      ELSE write_entry_run(GrowDir(d, dc), dc, slots)))

short_alias_exists(d, dc, alias) ==
    \E pl \in Range(BeforeEnd(d, dc)) : At(d, pl).k = "ent" /\ At(d, pl).alias = alias

generate_short_alias(d, dc, n) ==
    <<n, Min({i \in 1 .. Cardinality(Heap) * Slots + 1 : ~short_alias_exists(d, dc, <<n, i>>)})>>

LongRun(n, alias, dir, c, size) ==
    <<Slot("lfn", n, alias, FALSE, 0, 0), Slot("ent", "", alias, dir, c, size)>>
insert_named_entry(d, dc, n, dir, c, size) ==
    IF d.err # "ok" THEN d
    ELSE IF n \in ShortNames
         THEN insert_dir_entry(d, dc, Slot("ent", "", <<n, 0>>, dir, c, size))
    ELSE write_entry_run(d, dc, LongRun(n, generate_short_alias(d, dc, n), dir, c, size))

\* The entry at a place is given up, with the long-name slot that is its own,
\* a sector at a time.
FreeAmong(d, ps, pl) ==
    IF ~\E i \in 1 .. Len(ps) : ps[i] = pl /\ At(d, pl).k = "ent" THEN Fail(d, "NotFound")
    ELSE With(CHOOSE i \in 1 .. Len(ps) : ps[i] = pl, LAMBDA i :
           IF HasLong(d, ps, i) THEN place_entries(d, <<ps[i - 1], pl>>, <<Free, Free>>)
           ELSE PutSlot(d, pl, Free))
free_entry_with_lfn(d, dc, pl) == Then(d, LAMBDA x : FreeAmong(x, BeforeEnd(x, dc), pl))

patch_entry_cluster_size(d, pl, c, size) ==
    PutSlots(d, pl[1], [d.slots[pl[1]] EXCEPT ![pl[2]].c = c, ![pl[2]].size = size])

(* ---- content ---- *)
\* ChainCursor::start
Start(cursor, head, pos) ==
    IF cursor.head = head /\ cursor.pos <= pos /\ cursor # NoCursor
    THEN [c |-> cursor.cluster, pos |-> cursor.pos]
    ELSE [c |-> head, pos |-> 0]

\* The cluster of the chain from [c, pos] that holds position o.
RECURSIVE Seek(_, _, _)
Seek(d, s, o) ==
    IF s.pos + Units <= o /\ s.c # NoCluster
    THEN Seek(d, [c |-> next_cluster(d, s.c), pos |-> s.pos + Units], o) ELSE s

\* read_entry: what it answers for the unit at position o, and where a read of
\* n units from o leaves the read cursor.
UnitIn(d, e, s, o) ==
    IF e.c = NoCluster \/ s.c = NoCluster THEN 8 ELSE d.data[s.c][o - s.pos + 1]
UnitAt(d, e, o) == UnitIn(d, e, Seek(d, Start(d.rc, e.c, o), o), o)
ReadTo(d, e, o, s) ==
    IF o >= e.size \/ e.c = NoCluster \/ s.c = NoCluster THEN d
    ELSE [d EXCEPT !.rc = [head |-> e.c, cluster |-> s.c, pos |-> s.pos]]
read_entry(d, e, o, n) ==
    ReadTo(d, e, o, Seek(d, Start(d.rc, e.c, o), Min({o + n, e.size}) - 1))

Padded(data) == [i \in 1 .. Units |-> IF i <= Len(data) THEN data[i] ELSE 0]
RECURSIVE ChainOf(_, _, _, _)
ChainOf(d, data, first, prev) ==
    IF data = <<>> \/ d.err # "ok" THEN [d EXCEPT !.got = first]
    ELSE Then(Claim(d), LAMBDA w :
         Then(IF first = NoCluster THEN w ELSE write_fat_entry(w, prev, w.got), LAMBDA l :
         Then(PutData(l, l.got, Padded(data)), LAMBDA x :
           ChainOf(x, SubSeq(data, Units + 1, Len(data)),
                   IF first = NoCluster THEN w.got ELSE first, w.got))))

\* The head of a new chain holding the data, in d.got.
write_chain(d, data) == ChainOf(d, data, NoCluster, NoCluster)

\* The cluster after c, added to the chain when it is the last, in d.got.
NextOrNew(d, c) ==
    With(next_cluster(d, c), LAMBDA n :
      IF n # NoCluster THEN [d EXCEPT !.got = n] ELSE extend_chain(d, c))

\* One sector of write_at: the part of it from pos on that lies before the end
\* of the write, the gap's part as zeros.
Sector(was, cpos, pos, stop, o, data) ==
    [i \in 1 .. Units |->
       IF cpos + i > pos /\ cpos + i <= stop
       THEN IF cpos + i > o THEN data[cpos + i - o] ELSE 0
       ELSE was[i]]
WriteSector(d, c, cpos, pos, o, data, old) ==
    With(Min({cpos + Units, o + Len(data)}), LAMBDA stop :
      PutData(d, c, Sector(IF cpos < old /\ ~(pos = cpos /\ stop = cpos + Units)
                           THEN d.data[c] ELSE Blank, cpos, pos, stop, o, data)))

\* write_at's loop over the sectors from pos to the end of the write, and what
\* follows it: the cursor, then the entry.
RECURSIVE WriteFrom(_, _, _, _, _, _, _)
WriteFrom(d, x, head, s, pos, o, data) ==
    IF d.err # "ok" THEN d
    ELSE IF pos >= o + Len(data)
    THEN patch_entry_cluster_size(
           [d EXCEPT !.wc = [head |-> head, cluster |-> s.c, pos |-> s.pos]],
           x.at, head, Max({x.e.size, o + Len(data)}))
    ELSE IF pos >= s.pos + Units
    THEN Then(NextOrNew(d, s.c), LAMBDA m :
           WriteFrom(m, x, head, [c |-> m.got, pos |-> s.pos + Units], pos, o, data))
    ELSE WriteFrom(WriteSector(d, s.c, s.pos, pos, o, data, x.e.size), x, head, s,
                   Min({s.pos + Units, o + Len(data)}), o, data)

(* ---- the operations ---- *)
\* An operation on the last name of a path, in the directory that has it.
InParent(d, p, F(_, _)) ==
    With(ParentOf(d, p), LAMBDA dir :
      IF ~IsDir(dir) THEN Fail(d, "NotADirectory") ELSE F(dir, lookup(d, dir.e.c, Last(p))))
touch(d, p) ==
    InParent(d, p, LAMBDA dir, x :
      IF Found(x) THEN (IF x.e.dir THEN Fail(d, "NotAFile") ELSE d)
      ELSE insert_named_entry(d, dir.e.c, Last(p), FALSE, 0, 0))

DotDot(parent) == IF parent = RootCluster THEN 0 ELSE parent
DirectoryOf(c, parent) ==
    [i \in 1 .. Slots |-> IF i = 1 THEN Slot("ent", "", <<".", 0>>, TRUE, c, 0)
                          ELSE IF i = 2 THEN Slot("ent", "", <<"..", 0>>, TRUE, DotDot(parent), 0)
                          ELSE End]

mkdir(d, p) ==
    InParent(d, p, LAMBDA dir, x :
      IF Found(x) THEN Fail(d, "AlreadyExists")
      ELSE Then(Claim(d), LAMBDA w :
           Then(zero_cluster(w, w.got), LAMBDA z :
           Then(PutSlots(z, z.got, DirectoryOf(z.got, dir.e.c)), LAMBDA f :
             insert_named_entry(f, dir.e.c, Last(p), TRUE, f.got, 0)))))

\* rm and rmdir: the chain first, then the entry.
Unlink(d, p, x) ==
    Then(free_chain(d, x.e.c), LAMBDA w : InParent(w, p, LAMBDA dir, y :
      IF ~Found(y) THEN Fail(w, "NotFound") ELSE free_entry_with_lfn(w, dir.e.c, y.at)))

rm(d, p) == With(find(d, p), LAMBDA x : IF ~IsFile(x) THEN Fail(d, "NotAFile") ELSE Unlink(d, p, x))

Empty(es) == \A i \in DOMAIN es : es[i].name \in {".", ".."}
rmdir(d, p) ==
    With(find(d, p), LAMBDA x :
      IF ~IsDir(x) THEN Fail(d, "NotADirectory")
      ELSE IF ~Empty(walk_dir_with_location(d, x.e.c)) THEN Fail(d, "DirectoryNotEmpty")
      ELSE Unlink(d, p, x))

write_file(d, p, data) ==
    InParent(d, p, LAMBDA dir, x :
      IF IsDir(x) THEN Fail(d, "NotAFile")
      ELSE Then(write_chain(d, data), LAMBDA w :
        IF Found(x)
        THEN patch_entry_cluster_size(free_chain(w, x.e.c), x.at, w.got, Len(data))
        ELSE insert_named_entry(w, dir.e.c, Last(p), FALSE, w.got, Len(data))))

write_at(d, p, o, data) ==
    IF data = <<>> THEN d
    ELSE InParent(d, p, LAMBDA dir, x :
      IF ~IsFile(x) THEN Fail(d, "NotFound")
      ELSE Then(IF x.e.c = NoCluster THEN Claim(d) ELSE [d EXCEPT !.got = x.e.c], LAMBDA h :
        With(Min({x.e.size, o}), LAMBDA from :
          WriteFrom(h, x, h.got, Start(h.wc, h.got, from), from, o, data))))

\* The destination is entered before the source is given up, and the replaced
\* file's clusters are freed last.
\* x entered as the last name of q, over y when there is one, and given up at from.
Moved(d, from, to, x, y, n) ==
    Then(insert_named_entry(d, to.e.c, n, x.e.dir, x.e.c, x.e.size), LAMBDA in :
    Then(IF Found(y) THEN free_entry_with_lfn(in, to.e.c, y.at) ELSE in, LAMBDA over :
      free_entry_with_lfn(over, from.e.c, x.at)))
Settled(d, from, to, x, y) ==
    IF Found(y) THEN (IF y.e.c = x.e.c THEN d ELSE free_chain(d, y.e.c))
    ELSE IF x.e.dir /\ from.e.c # to.e.c
    THEN patch_entry_cluster_size(d, <<x.e.c, 2>>, DotDot(to.e.c), 0)
    ELSE d
mv(d, p, q) ==
    InParent(d, p, LAMBDA from, x : InParent(d, q, LAMBDA to, y :
      IF ~Found(x) THEN Fail(d, "NotFound")
      ELSE IF Found(y) /\ x.at = y.at THEN d
      ELSE IF Found(y) /\ (x.e.dir \/ y.e.dir) THEN Fail(d, "AlreadyExists")
      ELSE Then(Moved(d, from, to, x, y, Last(q)), LAMBDA m : Settled(m, from, to, x, y))))

(* ---- the volume ---- *)
\* What a client that reads every name through the driver is shown.
Read(d, x) ==
    IF ~Found(x) THEN [kind |-> "none", data |-> <<>>]
    ELSE IF x.e.dir THEN [kind |-> "dir", data |-> <<>>]
    ELSE [kind |-> "file", data |-> [i \in 1 .. x.e.size |-> UnitAt(d, x.e, i - 1)]]
TreeOf(d) == [p \in Paths |-> Read(d, find(d, p))]

\* A volume format has just written, mounted.
Formatted ==
    LET fat == [c \in Heap |-> IF c = RootCluster THEN EOC ELSE 0]
    IN [fat |-> fat, mirror |-> fat,
        slots |-> [c \in Heap |-> Zeroed], data |-> [c \in Heap |-> Blank],
        hint |-> 2, rc |-> NoCursor, wc |-> NoCursor, got |-> 0, err |-> "ok", left |-> Never]

Abstract == INSTANCE Volume WITH tree <- shown

Init == v = Formatted /\ shown = TreeOf(v) /\ done = Abstract!Mounted /\ broken = FALSE /\ ops = 0

\* An operation carried out on a disk that refuses its n-th write, or none.
Answer(e) ==
    IF e \in {"ok", "io"} THEN e ELSE IF e \in {"DiskFull"} THEN "no room" ELSE "refused"
Carry(op, p, q, o, data, Op(_)) ==
    /\ ~broken /\ ops < MaxOps
    /\ \E n \in Refusals \union {Never} :
         \E w \in {Op([v EXCEPT !.left = n])} :
           /\ n # Never => w.err = "io"
           /\ v' = [w EXCEPT !.err = "ok", !.left = Never, !.got = 0]
           /\ shown' = TreeOf(w)
           /\ done' = Abstract!Request(op, p, q, o, data, Answer(w.err), 1 - done.turn)
           /\ broken' = (w.err = "io")
           /\ ops' = IF v' = v THEN ops ELSE ops + 1

Touch(p) == Carry("touch", p, p, 0, <<>>, LAMBDA d : touch(d, p))
Mkdir(p) == Carry("mkdir", p, p, 0, <<>>, LAMBDA d : mkdir(d, p))
Rm(p) == Carry("rm", p, p, 0, <<>>, LAMBDA d : rm(d, p))
Rmdir(p) == Carry("rmdir", p, p, 0, <<>>, LAMBDA d : rmdir(d, p))
WriteFile(p, data) == Carry("write_file", p, p, 0, data, LAMBDA d : write_file(d, p, data))
WriteAt(p, o, data) == Carry("write_at", p, p, o, data, LAMBDA d : write_at(d, p, o, data))
\* The server asks for no move of a name into itself.
Mv(p, q) == ~IsStrictPrefix(p, q) /\ Carry("mv", p, q, 0, <<>>, LAMBDA d : mv(d, p, q))
\* A read moves the driver's read cursor and nothing else.
ReadAt(p, o, n) ==
    /\ ~broken
    /\ v' = With(find(v, p), LAMBDA x : IF IsFile(x) THEN read_entry(v, x.e, o, n) ELSE v)
    /\ shown' = TreeOf(v')
    /\ UNCHANGED <<done, broken, ops>>
ListDir == UNCHANGED vars

Next ==
    \/ ListDir
    \/ \E p \in Paths : Touch(p) \/ Rm(p) \/ Rmdir(p)
    \/ \E p \in DirPaths : Mkdir(p)
    \/ \E p \in Paths, data \in Contents : WriteFile(p, data)
    \/ \E p \in Paths, o \in Offsets, data \in Pieces : WriteAt(p, o, data)
    \/ \E p, q \in Paths : Mv(p, q)
    \/ \E p \in Paths, o \in Offsets, n \in {1, 2 * Units} : ReadAt(p, o, n)

Spec == Init /\ [][Next]_vars

(* ---- what is promised ---- *)
\* Every operation on a FAT32 volume does what Volume says it does to the tree
\* a client reads back, through the cursors the driver keeps.
KeptStep == Abstract!Next /\ Abstract!KeptMoving(done')

(* ---- soundness ---- *)
\* The clusters of the names that are there, by their entries.
ChainsOf(ents) == [p \in {q \in Paths : Found(ents[q])} |-> Chain(v, ents[p].e.c)]
Dirs(ents) == {RootCluster} \union {ents[p].e.c : p \in {q \in Paths : IsDir(ents[q])}}
Apart(ents, chains) ==
    \A p \in DOMAIN chains :
      /\ \A i \in DOMAIN chains[p] : v.fat[chains[p][i]] # 0
      /\ \A q \in DOMAIN chains \ {p} : Range(chains[p]) \intersect Range(chains[q]) = {}
      /\ RootCluster \notin Range(chains[p])
      /\ IsDir(ents[p]) => v.slots[ents[p].e.c][2].c = DotDot(ParentOf(v, p).e.c)
      /\ IsFile(ents[p]) => Len(chains[p]) * Units >= ents[p].e.size
LongNamesWhole(ps) ==
    \A i \in 1 .. Len(ps) : At(v, ps[i]).k = "lfn" => i < Len(ps) /\ HasLong(v, ps, i + 1)

\* While the disk has refused nothing: no two names share a cluster and none
\* is named by a free one, every directory's ".." names the one above it, the
\* mirror is the FAT, and no long-name slot is left without its entry.
Sound ==
    \/ broken
    \/ /\ v.mirror = v.fat
       /\ With([p \in Paths |-> find(v, p)], LAMBDA ents :
            /\ Apart(ents, ChainsOf(ents))
            /\ \A c \in Dirs(ents) : LongNamesWhole(BeforeEnd(v, c)))
=============================================================================
