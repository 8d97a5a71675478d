------------------------------- MODULE Exfat -------------------------------
(* fsd's exFAT driver (programs/servers/fsd/src/exfat.rs).  A name is a set  *)
(* of three slots of its directory: the File entry, the stream (where the    *)
(* content is) and the name; a cluster is one sector of Slots slots or Units *)
(* units, and a sector of the FAT holds FatSector entries.  Allocation is    *)
(* held in memory over a batch and reaches the disk as bits, then links,     *)
(* then the set.  The disk may refuse one write and take the next ones, or   *)
(* take none after it, which is also what a power cut leaves; the driver's   *)
(* own undoing is modelled with it, and work goes on after it.  No set has   *)
(* vendor allocations.                                                       *)
EXTENDS Naturals, Sequences, SequencesExt, FiniteSets

CONSTANTS
    Paths,                  \* the path names used
    DirPaths,               \* the ones mkdir is called with
    Contents, Pieces,       \* what write_file and write_at are given
    Offsets,                \* where write_at and read_at start
    ClusterEnd,             \* clusters 2 .. ClusterEnd - 1 exist
    FatSector,              \* FAT entries in a sector
    Slots,                  \* directory slots in a cluster
    Units,                  \* units of a file's content in a cluster
    Volumes,                \* the volumes mounted: "formatted", or as another system left it
    MaxOps,                 \* bound: operations carried out
    MaxFaults,              \* bound: operations the disk refuses a write of
    Refusals                \* the disk may refuse an operation's write after this many

VARIABLES
    v,          \* the disk, and the driver's Fs
    shown,      \* the tree a client reading every name is shown: TreeOf(v)
    done,       \* the request last carried out and its answer
    said,       \* the driver said that an fsck is needed
    faults,     \* operations the disk has refused a write of
    ops         \* operations so far that left their mark

vars == <<v, shown, done, said, faults, ops>>

Heap == 2 .. ClusterEnd - 1
EOC == ClusterEnd + 1           \* END_OF_CHAIN
RootCluster == 2
NoCluster == 0
NoSector == 0
Never == 99                     \* more writes than any operation makes
NoCursor == [head |-> 0, contig |-> FALSE, cluster |-> 0, pos |-> 0]
NoCache == [sector |-> NoSector, dirty |-> FALSE, fat |-> [c \in Heap |-> 0]]
NoHold == [on |-> FALSE, dirty |-> FALSE, bits |-> {}]
NoneTaken == [clusters |-> {}, tail |-> NoCluster]

Slot(k, on, name, dir, c, size, valid, contig) ==
    [k |-> k, on |-> on, name |-> name, dir |-> dir, c |-> c,
     size |-> size, valid |-> valid, contig |-> contig]
End == Slot("end", FALSE, "", FALSE, 0, 0, 0, FALSE)    \* 0x00
Spent == Slot("spent", FALSE, "", FALSE, 0, 0, 0, FALSE) \* not in use
Zeroed == [i \in 1 .. Slots |-> End]
Rubbish == [i \in 1 .. Units |-> 9]                     \* a directory's bytes, as content

\* build_entry_set
build_entry_set(name, dir, c, size, valid, contig) ==
    << Slot("file", TRUE, "", dir, 0, 0, 0, FALSE),
       Slot("stream", TRUE, "", FALSE, c, size, valid, contig),
       Slot("name", TRUE, name, FALSE, 0, 0, 0, FALSE) >>

(* ---- errors and the disk ---- *)
Fail(d, e) == IF d.err = "ok" THEN [d EXCEPT !.err = e] ELSE d
Put(d, w) == IF d.err # "ok" THEN d
             ELSE IF d.left = 0 THEN [d EXCEPT !.err = "io", !.left = IF d.after THEN Never ELSE 0]
             ELSE [w EXCEPT !.left = @ - 1]
PutSlots(d, c, s) == Put(d, [d EXCEPT !.slots[c] = s, !.data[c] = Rubbish])
PutData(d, c, u) == Put(d, [d EXCEPT !.data[c] = u, !.slots[c] = Zeroed])

\* `let _ = ...`: done whatever has failed before it, its own failure ignored.
\* A step after another one, which is taken only when the first went well: `?`.
Then(d, F(_)) == IF d.err # "ok" THEN d ELSE F(d)
With(x, F(_)) == F(x)
\* `let _ = ...`: done whatever has failed before it, its own failure ignored.
Fresh(d) == [d EXCEPT !.err = "ok"]
\* What a step that failed leaves behind is undone, and its error kept.
OrUndo(w, F(_)) == IF w.err = "ok" THEN w ELSE [F(Fresh(w)) EXCEPT !.err = w.err]
Quietly(d, w) == [w EXCEPT !.err = d.err]

(* ---- the FAT and the bitmap ---- *)
in_heap(c) == c \in Heap
FatSectorOf(c) == (c \div FatSector) + 1
DropCursors(d) == [d EXCEPT !.rc = NoCursor, !.wc = NoCursor]

fat_entry(d, c) == IF d.cache.sector = FatSectorOf(c) THEN d.cache.fat[c] ELSE d.fat[c]
next_cluster(d, c) ==
    IF ~in_heap(c) THEN NoCluster
    ELSE With(fat_entry(d, c), LAMBDA n : IF in_heap(n) THEN n ELSE NoCluster)
advance(d, c, contig) ==
    IF contig THEN (IF in_heap(c + 1) THEN c + 1 ELSE NoCluster) ELSE next_cluster(d, c)

\* A FAT sector left unwritten is dropped, with an error, not written over.
fat_sector(d, c) ==
    IF d.err # "ok" \/ d.cache.sector = FatSectorOf(c) THEN d
    ELSE IF d.cache.dirty THEN Fail(DropCursors([d EXCEPT !.cache = NoCache]), "io")
    ELSE [d EXCEPT !.cache = [sector |-> FatSectorOf(c), dirty |-> FALSE, fat |-> d.fat]]

\* A mutant: the cursors outlive the chain they walked.
patch_fat_entry_keeping_cursors(d, c, x) ==
    IF d.err = "ok" /\ ~in_heap(c) THEN Fail(d, "io")
    ELSE Then(fat_sector(d, c), LAMBDA l : [l EXCEPT !.cache.fat[c] = x, !.cache.dirty = TRUE])

patch_fat_entry(d, c, x) ==
    IF d.err = "ok" /\ ~in_heap(c) THEN Fail(d, "io")
    ELSE Then(fat_sector(d, c), LAMBDA l :
           [(IF next_cluster(l, c) = NoCluster THEN l ELSE DropCursors(l))
              EXCEPT !.cache.fat[c] = x, !.cache.dirty = TRUE])

write_alloc_bits(d) ==
    IF d.hold.on /\ d.hold.dirty
    THEN Then(Put(d, [d EXCEPT !.bits = d.hold.bits]), LAMBDA w : [w EXCEPT !.hold.dirty = FALSE])
    ELSE d

\* The bits of what was allocated reach the disk before a link to it does.
PutFat(d) == Put(d, [d EXCEPT !.fat = [c \in Heap |-> fat_entry(d, c)]])
flush_fat(d) ==
    With(PutFat(write_alloc_bits(d)), LAMBDA w :
      IF w.err = "ok" THEN [w EXCEPT !.cache.dirty = FALSE]
      ELSE DropCursors([w EXCEPT !.cache = NoCache]))

write_fat_entry(d, c, x) == Then(patch_fat_entry(d, c, x), LAMBDA w : flush_fat(w))

\* The first clear bit, held set in memory; the cluster in d.got.
Hold(d, held, dirty) == [d EXCEPT !.hold = [on |-> TRUE, dirty |-> dirty, bits |-> held]]
TakeFrom(d, held) ==
    IF Heap \subseteq held THEN Fail(Hold(d, held, d.hold.dirty), "DiskFull")
    ELSE With(Min(Heap \ held), LAMBDA c : [Hold(d, held \union {c}, TRUE) EXCEPT !.got = c])
alloc_find(d) == Then(d, LAMBDA x : TakeFrom(x, IF x.hold.on THEN x.hold.bits ELSE x.bits))

end_alloc_hold(d) == [write_alloc_bits(d) EXCEPT !.hold = NoHold]

\* The first of two errors.
Earlier(e, f) == IF e # "ok" THEN e ELSE f
alloc_cluster(d) ==
    Then(d, LAMBDA x : With(alloc_find(x), LAMBDA f : With(end_alloc_hold(Fresh(f)), LAMBDA h :
      Then([h EXCEPT !.err = Earlier(@, f.err)], LAMBDA w : write_fat_entry(w, w.got, EOC)))))

\* clear_run and write_bits: the bits of cs cleared in one sector.
bitmap_clear(d, cs) ==
    IF cs = {} THEN d ELSE Put(d, [d EXCEPT !.bits = @ \ cs])

\* free_chain: a FAT sector's worth of the chain at a time, its bits and then
\* its links; the bits go first, so that what is linked from nowhere is free.
RunLen(cs) ==
    Min({i \in DOMAIN cs : FatSectorOf(cs[i]) # FatSectorOf(cs[1])} \union {Len(cs) + 1}) - 1
FreeRun(d, run) ==
    With(bitmap_clear(FoldLeft(LAMBDA w, c : patch_fat_entry(w, c, 0), d, run), Range(run)),
         LAMBDA b : IF b.err # "ok" THEN [b EXCEPT !.cache = NoCache] ELSE flush_fat(b))
RECURSIVE FreeSectors(_, _)
FreeSectors(d, cs) ==
    IF cs = <<>> \/ d.err # "ok" THEN d
    ELSE With(RunLen(cs), LAMBDA n :
           FreeSectors(FreeRun(d, SubSeq(cs, 1, n)), SubSeq(cs, n + 1, Len(cs))))

\* The clusters of a stream, in order: n of a run, or as many of a chain.
RECURSIVE Clusters(_, _, _, _)
Clusters(d, c, contig, n) ==
    IF n = 0 \/ ~in_heap(c) THEN <<>>
    ELSE <<c>> \o Clusters(d, advance(d, c, contig), contig, n - 1)
CountOf(size) == (size + Units - 1) \div Units

free_data(d, c, contig, n) ==
    IF contig THEN bitmap_clear(d, Range(Clusters(d, c, TRUE, n)))
    ELSE FreeSectors(d, Clusters(d, c, FALSE, n))

\* What the last batch took is given back: the file's old tail ends its chain
\* again, and the bits are cleared.
GiveBack(d, t) ==
    bitmap_clear(IF t.tail = NoCluster THEN d ELSE write_fat_entry(d, t.tail, EOC), t.clusters)
give_back(d) == Quietly(d, GiveBack(DropCursors([Fresh(d) EXCEPT !.taken = NoneTaken]), d.taken))

(* ---- batches ---- *)
\* batch::run's ending: what is pending is written, the hold ended, and on any
\* failure the clusters taken are given back.
EndBatch(m) ==
    With(IF m.cache.dirty THEN flush_fat(Fresh(m)) ELSE Fresh(m), LAMBDA f :
    With(end_alloc_hold(Fresh(f)), LAMBDA h :
    With(Earlier(m.err, Earlier(f.err, h.err)), LAMBDA e :
      IF e = "ok" THEN h ELSE give_back([h EXCEPT !.err = e]))))
Begin(d) == [d EXCEPT !.taken = NoneTaken]

leave_for(d, c) ==
    IF d.err = "ok" /\ d.cache.dirty /\ d.cache.sector # FatSectorOf(c) THEN flush_fat(d) ELSE d

BatchEntry(d, c, x) == patch_fat_entry(leave_for(d, c), c, x)

BatchAlloc(d) ==
    Then(alloc_find(d), LAMBDA f :
      BatchEntry([f EXCEPT !.taken.clusters = @ \union {f.got}], f.got, EOC))

Padded(data) == [i \in 1 .. Units |-> IF i <= Len(data) THEN data[i] ELSE 0]
RECURSIVE ChainOf(_, _, _, _)
ChainOf(d, data, first, prev) ==
    IF data = <<>> \/ d.err # "ok" THEN [d EXCEPT !.got = first]
    ELSE With(BatchAlloc(d), LAMBDA w :
           ChainOf(PutData(IF first = NoCluster \/ w.err # "ok" THEN w ELSE BatchEntry(w, prev, w.got),
                           w.got, Padded(data)),
                   SubSeq(data, Units + 1, Len(data)),
                   IF first = NoCluster THEN w.got ELSE first, w.got))

write_chain(d, data) == EndBatch(ChainOf(Begin(d), data, NoCluster, NoCluster))

\* A contiguous run given the FAT chain it had none of.
link_run(d, first, n) ==
    Then(FoldLeft(LAMBDA x, i : BatchEntry(x, first + i, IF i + 1 < n THEN first + i + 1 ELSE EOC),
                  d, [i \in 1 .. n |-> i - 1]), LAMBDA w :
      [w EXCEPT !.wc = [head |-> first, contig |-> FALSE, cluster |-> first + n - 1,
                        pos |-> (n - 1) * Units]])
ensure_chained(d, s) ==
    IF s.contig /\ s.c # NoCluster THEN link_run(d, s.c, CountOf(s.size)) ELSE d

\* The next cluster of the file, or a new one past what it owns, in d.got.
file_step(d, c, owned, had) ==
    Then(leave_for(d, c), LAMBDA l :
      IF owned /\ next_cluster(l, c) # NoCluster THEN [l EXCEPT !.got = next_cluster(l, c)]
      ELSE Then(BatchAlloc([l EXCEPT !.taken.tail = IF had /\ @ = NoCluster THEN c ELSE @]), LAMBDA w :
             BatchEntry(w, c, w.got)))

\* ChainCursor::start
Start(cursor, head, contig, pos) ==
    IF cursor # NoCursor /\ cursor.head = head /\ cursor.contig = contig /\ cursor.pos <= pos
    THEN [c |-> cursor.cluster, pos |-> cursor.pos]
    ELSE [c |-> head, pos |-> 0]

\* One sector of write_at, from pos to where the write or the sector ends; the
\* gap past the valid content is zeros.
Sector(was, cpos, pos, stop, o, data) ==
    [i \in 1 .. Units |->
       IF cpos + i > pos /\ cpos + i <= stop
       THEN IF cpos + i > o THEN data[cpos + i - o] ELSE 0
       ELSE was[i]]
WriteSector(d, c, cpos, pos, o, data, valid) ==
    With(Min({cpos + Units, o + Len(data)}), LAMBDA stop :
      PutData(d, c, Sector(IF cpos < valid /\ ~(pos = cpos /\ stop = cpos + Units) THEN d.data[c]
                           ELSE [i \in 1 .. Units |-> 0], cpos, pos, stop, o, data)))

RECURSIVE WriteFrom(_, _, _, _, _, _, _)
WriteFrom(d, s, head, at, pos, o, data) ==
    IF d.err # "ok" THEN d
    ELSE IF pos >= o + Len(data)
    THEN [d EXCEPT !.wc = [head |-> head, contig |-> FALSE, cluster |-> at.c, pos |-> at.pos],
                   !.got = head]
    ELSE IF pos >= at.pos + Units
    THEN With(file_step(d, at.c, at.pos + Units < CountOf(s.size) * Units, s.c # NoCluster), LAMBDA m :
           WriteFrom(m, s, head, [c |-> m.got, pos |-> at.pos + Units], pos, o, data))
    ELSE WriteFrom(WriteSector(d, at.c, at.pos, pos, o, data, s.valid), s, head, at,
                   Min({at.pos + Units, o + Len(data)}), o, data)

\* The stream's chain with the data in it; its head in d.got.
HeadOf(d, c) == IF c = NoCluster THEN BatchAlloc(d) ELSE [d EXCEPT !.got = c]
write_at_chain(d, s, o, data) ==
    Then(HeadOf(ensure_chained(d, s), s.c), LAMBDA h : With(Min({s.valid, o}), LAMBDA from :
      WriteFrom(h, s, h.got, Start(h.wc, h.got, FALSE, from), from, o, data)))

(* ---- directories ---- *)
\* A directory, by its stream: the root has no set, and its chain is its size.
IsRoot(s) == s.c = RootCluster
DirClusters(d, s) == Clusters(d, s.c, ~IsRoot(s) /\ s.contig, IF IsRoot(s) THEN ClusterEnd ELSE s.size)
PlacesOf(ch) ==
    [i \in 1 .. Len(ch) * Slots |-> <<ch[((i - 1) \div Slots) + 1], ((i - 1) % Slots) + 1>>]
Places(d, s) == PlacesOf(DirClusters(d, s))
At(d, pl) == d.slots[pl[1]][pl[2]]
UpToEnd(d, ps) ==
    IF \A i \in 1 .. Len(ps) : At(d, ps[i]).k # "end" THEN ps
    ELSE SubSeq(ps, 1, Min({i \in 1 .. Len(ps) : At(d, ps[i]).k = "end"}) - 1)
BeforeEnd(d, s) == UpToEnd(d, Places(d, s))

\* walk_dir: the sets that are whole and in use, each as its three places.
IsSet(d, pls) ==
    /\ \A i \in 1 .. 3 : At(d, pls[i]).on
    /\ At(d, pls[1]).k = "file" /\ At(d, pls[2]).k = "stream" /\ At(d, pls[3]).k = "name"
SetsOf(d, ps) ==
    SelectSeq([i \in 1 .. Len(ps) - 2 |-> SubSeq(ps, i, i + 2)], LAMBDA pls : IsSet(d, pls))
walk_dir(d, s) == SetsOf(d, BeforeEnd(d, s))

\* An entry: its stream, whether it is a directory, and the places of its set.
NoEntry == [found |-> FALSE, dir |-> FALSE, s |-> End, at |-> <<>>]
RootEntry == [found |-> TRUE, dir |-> TRUE, s |-> Slot("stream", TRUE, "", FALSE, RootCluster, 0, 0, FALSE), at |-> <<>>]
Sized(s) == IF s.size > 0 THEN s ELSE [s EXCEPT !.c = NoCluster, !.contig = FALSE]
EntryAt(d, pls) ==
    [found |-> TRUE, dir |-> At(d, pls[1]).dir, at |-> pls, s |-> Sized(At(d, pls[2]))]
Named(d, sets, n) ==
    IF \A i \in DOMAIN sets : At(d, sets[i][3]).name # n THEN NoEntry
    ELSE EntryAt(d, sets[Min({i \in DOMAIN sets : At(d, sets[i][3]).name = n})])
entry_in(d, dir, n) == Named(d, walk_dir(d, dir.s), n)
find_at(d, p) ==
    FoldLeft(LAMBDA cur, n : IF cur.found /\ cur.dir THEN entry_in(d, cur, n) ELSE NoEntry,
             RootEntry, p)
IsDir(x) == x.found /\ x.dir
IsFile(x) == x.found /\ ~x.dir
ParentOf(d, p) == find_at(d, Front(p))

\* rewrite_slots: a run's slots, a sector at a time.
PutRun(d, c, pls, new) ==
    PutSlots(d, c, [j \in 1 .. Slots |->
                      IF <<c, j>> \in Range(pls)
                      THEN new[CHOOSE i \in DOMAIN pls : pls[i] = <<c, j>>] ELSE d.slots[c][j]])
rewrite_slots(d, pls, new) ==
    With(PutRun(d, pls[1][1], pls, new), LAMBDA one :
      IF Last(pls)[1] = pls[1][1] THEN one
      ELSE Then(one, LAMBDA w : PutRun(w, Last(pls)[1], pls, new)))

InUse(d, pls, on) == [i \in DOMAIN pls |-> [At(d, pls[i]) EXCEPT !.on = on]]
set_in_use(d, pls, on) == Quietly(d, rewrite_slots(Fresh(d), pls, InUse(d, pls, on)))
file_in_use(d, pls) == At(d, pls[1]).k = "file" /\ At(d, pls[1]).on
unlink_set(d, pls) == rewrite_slots(d, pls, InUse(d, pls, FALSE))

\* The File entry (its checksum) and the stream are written, one sector or two.
patch_stream_ext(d, pls, c, valid, size) ==
    rewrite_slots(d, SubSeq(pls, 1, 2),
                  <<At(d, pls[1]),
                    [At(d, pls[2]) EXCEPT !.c = c, !.valid = valid, !.size = size, !.contig = FALSE]>>)

zero_cluster(d, c) == PutSlots(d, c, Zeroed)
alloc_zeroed(d) ==
    Then(alloc_cluster(d), LAMBDA w :
      OrUndo(zero_cluster(w, w.got), LAMBDA z : free_data(z, w.got, FALSE, 1)))

\* A directory whose chain is not its size takes no name until an fsck.
room(d, dir) ==
    Then(d, LAMBDA x : With(DirClusters(x, dir.s), LAMBDA cs :
      IF ~IsRoot(dir.s) /\ cs # <<>>
           /\ (Len(cs) # dir.s.size \/ (~dir.s.contig /\ next_cluster(x, Last(cs)) # NoCluster))
      THEN Fail(x, "Damaged") ELSE x))

\* grow_extent: a zeroed cluster after the directory's last, and for a
\* subdirectory its new size in its set; undone when the last step fails.  A
\* directory of no cluster is given its first; one that is a run has it chained
\* and its set saying so before anything is linked.
Resized(d, dir, c, n) == patch_stream_ext(d, dir.at, c, n, n)
AfterRootTail(d, tail) ==
    Then(alloc_zeroed(d), LAMBDA z :
      OrUndo(write_fat_entry(z, tail, z.got), LAMBDA l : free_data(l, z.got, FALSE, 1)))
FirstCluster(d, dir) ==
    Then(alloc_zeroed(d), LAMBDA z :
      OrUndo(Resized(z, dir, z.got, 1), LAMBDA p : free_data(p, z.got, FALSE, 1)))
Chained(d, dir) ==
    IF ~dir.s.contig THEN d
    ELSE Then(EndBatch(link_run(Begin(d), dir.s.c, dir.s.size)), LAMBDA w : Resized(w, dir, dir.s.c, dir.s.size))
AfterTail(d, dir, tail) ==
    Then(alloc_zeroed(Chained(d, dir)), LAMBDA z : Then(write_fat_entry(z, tail, z.got), LAMBDA l :
      OrUndo(Resized(l, dir, dir.s.c, dir.s.size + 1), LAMBDA p :
        free_data(Fresh(write_fat_entry(p, tail, EOC)), z.got, FALSE, 1))))
grow_extent(d, dir) ==
    IF IsRoot(dir.s) THEN AfterRootTail(d, Last(DirClusters(d, dir.s)))
    ELSE IF dir.s.size = 0 THEN FirstCluster(d, dir)
    ELSE AfterTail(d, dir, Last(DirClusters(d, dir.s)))

\* find_free_run: the first three vacant slots in a row, the directory grown
\* until there are; then insert_set writes the set there, or clears what it
\* wrote of it.  The places in w.at; w.written: something still names what the
\* set was to name.
FreeRuns(d, ps) == {i \in 1 .. Len(ps) - 2 : \A j \in 0 .. 2 : ~At(d, ps[i + j]).on}
\* What is left of a set that could not be written.
LeftOver(u, pls) ==
    [u EXCEPT !.written = file_in_use(u, pls), !.said = @ \/ file_in_use(u, pls)]
WriteSet(d, pls, set) ==
    With(rewrite_slots(d, pls, set), LAMBDA w :
      IF w.err = "ok" THEN [w EXCEPT !.at = pls, !.written = TRUE]
      ELSE LeftOver(set_in_use(w, pls, FALSE), pls))
RunAt(ps, i) == SubSeq(ps, i, i + 2)
RECURSIVE insert_set(_, _, _)
insert_set(d, dirPath, set) ==
    IF d.err # "ok" THEN [d EXCEPT !.written = FALSE]
    ELSE With(find_at(d, dirPath), LAMBDA dir : With(Places(d, dir.s), LAMBDA ps :
           IF FreeRuns(d, ps) = {} THEN insert_set(grow_extent(d, dir), dirPath, set)
           ELSE WriteSet(d, RunAt(ps, Min(FreeRuns(d, ps))), set)))

create_entry(d, dirPath, n, dir, c, size) ==
    insert_set(d, dirPath, build_entry_set(n, dir, c, size, size, FALSE))

(* ---- the operations ---- *)
\* An operation on the last name of a path, in the directory that has it.
InParent(d, p, F(_)) ==
    With(ParentOf(d, p), LAMBDA dir :
      IF ~IsDir(dir) THEN Fail(d, "NotADirectory") ELSE F(entry_in(d, dir, Last(p))))
touch(d, p) ==
    InParent(d, p, LAMBDA x :
      IF x.found THEN (IF x.dir THEN Fail(d, "NotAFile") ELSE d)
      ELSE create_entry(room(d, ParentOf(d, p)), Front(p), Last(p), FALSE, 0, 0))

\* What a name was to be given is freed, unless something still names it.
OrFree(w, c, n) ==
    IF w.err = "ok" \/ w.written THEN w ELSE Quietly(w, free_data(Fresh(w), c, FALSE, n))
mkdir(d, p) ==
    InParent(d, p, LAMBDA x :
      IF x.found THEN Fail(d, "AlreadyExists")
      ELSE Then(alloc_zeroed(room(d, ParentOf(d, p))), LAMBDA z :
             OrFree(create_entry(z, Front(p), Last(p), TRUE, z.got, 1), z.got, 1)))

\* The new chain is named in the set before the old one is freed.
Rewritten(c, x, len) ==
    With(OrUndo(patch_stream_ext(c, x.at, c.got, len, len), LAMBDA r :
           free_data(r, c.got, FALSE, CountOf(len))), LAMBDA r :
      Then(r, LAMBDA w : free_data(w, x.s.c, x.s.contig, CountOf(x.s.size))))
write_file(d, p, data) ==
    InParent(d, p, LAMBDA x :
      IF IsDir(x) THEN Fail(d, "NotAFile")
      ELSE Then(IF x.found THEN d ELSE room(d, ParentOf(d, p)), LAMBDA r : Then(write_chain(r, data), LAMBDA c :
        IF x.found THEN Rewritten(c, x, Len(data))
        ELSE OrFree(create_entry(c, Front(p), Last(p), FALSE, c.got, Len(data)),
                    c.got, CountOf(Len(data))))))

Extended(w, x, end) == patch_stream_ext(w, x.at, w.got, Max({x.s.valid, end}), Max({x.s.size, end}))
write_at(d, p, o, data) ==
    IF data = <<>> THEN d
    ELSE InParent(d, p, LAMBDA x :
      IF ~IsFile(x) THEN Fail(d, "NotFound")
      ELSE Then(EndBatch(write_at_chain(Begin(d), x.s, o, data)), LAMBDA w :
             With(Extended(w, x, o + Len(data)), LAMBDA n : IF n.err = "ok" THEN n ELSE give_back(n))))

\* The set first, then what it named.
RemoveSet(d, x, n) == Then(unlink_set(d, x.at), LAMBDA w : free_data(w, x.s.c, x.s.contig, n))

rm(d, p) ==
    With(find_at(d, p), LAMBDA x :
      IF ~IsFile(x) THEN Fail(d, "NotAFile") ELSE RemoveSet(d, x, CountOf(x.s.size)))

rmdir(d, p) ==
    With(find_at(d, p), LAMBDA x :
      IF ~IsDir(x) THEN Fail(d, "NotADirectory")
      ELSE IF walk_dir(d, x.s) # <<>> THEN Fail(d, "DirectoryNotEmpty")
      ELSE Then(room(d, x), LAMBDA r : RemoveSet(r, x, x.s.size)))

put_back(d, pls) == IF file_in_use(d, pls) THEN d ELSE set_in_use(d, pls, TRUE)

\* The source put back and the new set cleared; said when that cannot be done.
Saying(d, wrong) == [d EXCEPT !.said = @ \/ wrong]
ClearNew(d, new) == With(set_in_use(d, new, FALSE), LAMBDA c : Saying(c, file_in_use(c, new)))

\* A mutant: the source is not put back.
roll_back_clearing(d, src, new) == ClearNew(d, new)

roll_back(d, src, new) ==
    With(put_back(d, src), LAMBDA b :
      IF ~file_in_use(b, src) THEN Saying(b, TRUE) ELSE ClearNew(b, new))

\* move_set: the new set, then the old one out of use.  w.stands: the move
\* stands though the source's set could not be put back.
move_set(d, src, x, dirPath, n) ==
    With(insert_set(room(d, find_at(d, dirPath)), dirPath, build_entry_set(n, x.dir, x.s.c, x.s.size, x.s.valid, x.s.contig)),
         LAMBDA r : IF r.err # "ok" THEN [r EXCEPT !.stands = FALSE] ELSE With(unlink_set(r, src),
         LAMBDA u : IF u.err = "ok" THEN [u EXCEPT !.stands = TRUE]
                    ELSE [roll_back(u, src, r.at) EXCEPT !.stands = ~file_in_use(put_back(u, src), src)]))

Overlap(d, a, b) ==
    Range(Clusters(d, a.c, a.contig, CountOf(a.size)))
      \intersect Range(Clusters(d, b.c, b.contig, CountOf(b.size))) # {}

\* The replaced file's set out of use, and its clusters freed; or, when it
\* cannot be, that file put back and the move undone.
Replaced(k, x, y, new, shared) ==
    IF k.err = "ok"
    THEN IF shared THEN k ELSE free_data(k, y.s.c, y.s.contig, CountOf(y.s.size))
    ELSE With(put_back(k, y.at), LAMBDA b :
           IF file_in_use(b, y.at) THEN roll_back(b, x.at, new) ELSE Saying(b, TRUE))
mv(d, p, q) ==
    InParent(d, p, LAMBDA x : InParent(d, q, LAMBDA y :
      IF ~x.found THEN Fail(d, "NotFound")
      ELSE IF y.found /\ x.at = y.at THEN d
      ELSE IF y.found /\ (x.dir \/ y.dir) THEN Fail(d, "AlreadyExists")
      ELSE With(move_set(d, x.at, x, Front(q), Last(q)), LAMBDA m :
        IF ~y.found \/ ~m.stands THEN m
        ELSE With(Replaced(unlink_set(Fresh(m), y.at), x, y, m.at, Overlap(d, x.s, y.s)), LAMBDA f :
               [f EXCEPT !.err = Earlier(m.err, @)]))))

(* ---- reading ---- *)
RECURSIVE Seek(_, _, _, _)
Seek(d, s, contig, o) ==
    IF s.pos + Units <= o /\ s.c # NoCluster
    THEN Seek(d, [c |-> advance(d, s.c, contig), pos |-> s.pos + Units], contig, o) ELSE s

\* read_entry: what it answers for the unit at position o, and where a read of
\* n units from o leaves the read cursor.
UnitIn(d, k, o) == IF k.c = NoCluster THEN 8 ELSE d.data[k.c][o - k.pos + 1]
UnitAt(d, s, o) ==
    IF o >= s.valid THEN 0
    ELSE UnitIn(d, Seek(d, Start(d.rc, s.c, s.contig, o), s.contig, o), o)
ReadTo(d, s, k) ==
    IF k.c = NoCluster THEN d
    ELSE [d EXCEPT !.rc = [head |-> s.c, contig |-> s.contig, cluster |-> k.c, pos |-> k.pos]]
read_entry(d, s, o, n) ==
    IF o >= s.valid \/ s.c = NoCluster THEN d
    ELSE ReadTo(d, s, Seek(d, Start(d.rc, s.c, s.contig, o), s.contig, Min({o + n, s.valid}) - 1))

Read(d, x) ==
    IF ~x.found THEN [kind |-> "none", data |-> <<>>]
    ELSE IF x.dir THEN [kind |-> "dir", data |-> <<>>]
    ELSE [kind |-> "file", data |-> [i \in 1 .. x.s.size |-> UnitAt(d, x.s, i - 1)]]
TreeOf(d) == [p \in Paths |-> Read(d, find_at(d, p))]

(* ---- the volume ---- *)
\* A volume format has just written.
Formatted ==
    [fat |-> [c \in Heap |-> IF c = RootCluster THEN EOC ELSE 0], bits |-> {RootCluster},
     slots |-> [c \in Heap |-> Zeroed], data |-> [c \in Heap |-> [i \in 1 .. Units |-> 0]],
     cache |-> NoCache, hold |-> NoHold, taken |-> NoneTaken, rc |-> NoCursor, wc |-> NoCursor,
     got |-> 0, at |-> <<>>, written |-> FALSE, stands |-> FALSE, said |-> FALSE,
     err |-> "ok", left |-> Never, after |-> TRUE]
\* Or as another system left it: a file that is a run with less valid content
\* than size; a directory that is a run, its one cluster full but for a slot;
\* a directory of no cluster.
Holding(set, bits) ==
    [Formatted EXCEPT !.bits = {RootCluster} \union bits, !.slots[RootCluster] = set \o SubSeq(Zeroed, 4, Slots),
                      !.data[RootCluster] = Rubbish]
Left ==
    [formatted |-> Formatted,
     run |-> [Holding(build_entry_set("a", FALSE, 3, Units + 1, 1, TRUE), {3, 4})
                EXCEPT !.data[3] = [i \in 1 .. Units |-> 1], !.data[4] = [i \in 1 .. Units |-> 1]],
     dir |-> [Holding(build_entry_set("a", TRUE, 3, 1, 1, TRUE), {3})
                EXCEPT !.slots[3] = build_entry_set("x", FALSE, 0, 0, 0, FALSE) \o SubSeq(Zeroed, 4, Slots),
                       !.data[3] = Rubbish],
     bare |-> Holding(build_entry_set("a", TRUE, 0, 0, 0, FALSE), {})]

Abstract == INSTANCE Volume WITH tree <- shown

Init ==
    /\ \E how \in Volumes : v = Left[how]
    /\ shown = TreeOf(v)
    /\ done = Abstract!Mounted /\ said = FALSE /\ faults = 0 /\ ops = 0

\* Between operations: a slot out of use says nothing more, and a clean copy of
\* a FAT sector is the disk's.
Settled(w) ==
    [w EXCEPT !.slots = [c \in Heap |-> [i \in 1 .. Slots |->
                           IF w.slots[c][i].on \/ w.slots[c][i].k = "end" THEN w.slots[c][i] ELSE Spent]],
              !.cache = IF ~@.dirty /\ \A c \in Heap : fat_entry(w, c) = w.fat[c] THEN NoCache ELSE @,
              !.taken = NoneTaken, !.got = 0, !.at = <<>>, !.written = FALSE, !.stands = FALSE,
              !.said = FALSE, !.err = "ok", !.left = Never, !.after = TRUE]

Answer(e) ==
    IF e \in {"ok", "io"} THEN e ELSE IF e \in {"DiskFull", "Damaged"} THEN "no room" ELSE "refused"
Carry(op, p, q, o, data, Op(_)) ==
    /\ ~said /\ ops < MaxOps
    /\ \E n \in (IF faults < MaxFaults THEN Refusals ELSE {}) \union {Never}, after \in BOOLEAN :
         \E w \in {Op([v EXCEPT !.left = n, !.after = after])} :
           /\ n = Never => after
           /\ n # Never => w.err = "io"
           /\ v' = Settled(w)
           /\ shown' = TreeOf(v')
           /\ done' = Abstract!Request(op, p, q, o, data, Answer(w.err), 1 - done.turn)
           /\ said' = w.said
           /\ faults' = IF n = Never THEN faults ELSE faults + 1
           /\ ops' = IF v' = v THEN ops ELSE ops + 1

Touch(p) == Carry("touch", p, p, 0, <<>>, LAMBDA d : touch(d, p))
Mkdir(p) == Carry("mkdir", p, p, 0, <<>>, LAMBDA d : mkdir(d, p))
Rm(p) == Carry("rm", p, p, 0, <<>>, LAMBDA d : rm(d, p))
Rmdir(p) == Carry("rmdir", p, p, 0, <<>>, LAMBDA d : rmdir(d, p))
WriteFile(p, data) == Carry("write_file", p, p, 0, data, LAMBDA d : write_file(d, p, data))
WriteAt(p, o, data) == Carry("write_at", p, p, o, data, LAMBDA d : write_at(d, p, o, data))
\* The server asks for no move of a name into itself.
Mv(p, q) == ~IsStrictPrefix(p, q) /\ Carry("mv", p, q, 0, <<>>, LAMBDA d : mv(d, p, q))
\* A read moves the driver's read cursor and nothing else.
ReadAt(p, o, n) ==
    /\ ~said
    /\ v' = With(find_at(v, p), LAMBDA x : IF IsFile(x) THEN read_entry(v, x.s, o, n) ELSE v)
    /\ shown' = TreeOf(v')
    /\ UNCHANGED <<done, said, faults, ops>>
ListDir == UNCHANGED vars

Next ==
    \/ ListDir
    \/ \E p \in Paths : Touch(p) \/ Rm(p) \/ Rmdir(p)
    \/ \E p \in DirPaths : Mkdir(p)
    \/ \E p \in Paths, data \in Contents : WriteFile(p, data)
    \/ \E p \in Paths, o \in Offsets, data \in Pieces : WriteAt(p, o, data)
    \/ \E p, q \in Paths : Mv(p, q)
    \/ \E p \in Paths, o \in Offsets, n \in {1, 2 * Units} : ReadAt(p, o, n)

Spec == Init /\ [][Next]_vars

(* ---- what is promised ---- *)
\* Every operation on an exFAT volume does what Volume says it does to the tree
\* a client reads back, through the cursors the driver keeps; a rename cut short
\* loses nothing, or the driver has said that an fsck is needed.
KeptStep == Abstract!Next /\ (said' \/ Abstract!KeptMoving(done'))

\* An operation the disk refused a write of is undone or done, never between
\* (write_at aside): the driver's own undoing, unless it says an fsck is needed.
WholeStep ==
    done'.answer = "io" /\ done'.op # "write_at" /\ ~said'
      => UNCHANGED shown \/ Abstract!Did(done')

\* Every set in use below a directory, however deep.
RECURSIVE Below(_, _)
Below(d, s) ==
    With({EntryAt(d, x) : x \in Range(walk_dir(d, s))}, LAMBDA here :
      here \union UNION {Below(d, x.s) : x \in {y \in here : y.dir}})
ClustersOf(d, x) ==
    Range(Clusters(d, x.s.c, x.s.contig, IF x.dir THEN x.s.size ELSE CountOf(x.s.size)))

Apart(root, held) ==
    /\ root \subseteq v.bits
    /\ \A x \in held :
         /\ ClustersOf(v, x) \subseteq v.bits \ root
         /\ ~x.dir => Cardinality(ClustersOf(v, x)) = CountOf(x.s.size)
         /\ said \/ \A y \in held \ {x} : ClustersOf(v, x) \intersect ClustersOf(v, y) = {}
    /\ faults = 0 => v.bits = root \union UNION {ClustersOf(v, x) : x \in held}

\* Whatever write the disk refused, and at a power cut after any write: no set
\* names a cluster the allocator may hand out, and until an fsck is asked for
\* no two sets name the same one; with no write ever refused nothing is leaked.
NoSetOverFreeClusters ==
    /\ Apart(Range(DirClusters(v, RootEntry.s)), Below(v, RootEntry.s))
    /\ ~v.cache.dirty /\ ~v.hold.on
=============================================================================
