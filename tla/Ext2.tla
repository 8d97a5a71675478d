-------------------------------- MODULE Ext2 --------------------------------
(* fsd's ext2 driver (programs/servers/fsd/src/ext2.rs), on a volume of one  *)
(* group.  A name is an entry of a directory block that points at an inode;  *)
(* the inode points at its blocks, directly, through a block of pointers or  *)
(* through two.  The bitmaps, the free counts of the group and of the        *)
(* superblock, the link counts and the entries are separate writes.  A block *)
(* is one write, an entry takes one place of a directory block whatever its  *)
(* name; the disk may refuse any one write, or everything from it on, and    *)
(* the volume is not used after that.                                        *)
EXTENDS Naturals, Sequences, SequencesExt, FiniteSets

CONSTANTS
    Paths,                  \* the path names used
    DirPaths,               \* the ones mkdir is called with
    Contents, Pieces,       \* what write_file and write_at are given
    Offsets,                \* where write_at starts
    InodeEnd, BlockEnd,     \* inodes 2 .. InodeEnd - 1, data blocks 1 .. BlockEnd - 1
    Direct,                 \* DIRECT_BLOCKS
    Per,                    \* pointers in a block
    Slots,                  \* entries a directory block has room for
    Units,                  \* units of content in a block
    Foreign,                \* another system has left a file with two names
    MaxOps,                 \* bound: operations carried out
    Refusals                \* the disk may refuse an operation's write after this many

VARIABLES
    v,          \* the disk
    shown,      \* the tree a client reading every name is shown: TreeOf(v)
    done,       \* the request last carried out and its answer
    broken,     \* the disk has refused a write
    leaks,      \* the touch and mkdir requests that found no room after they took an inode
    ops         \* operations so far that left their mark

vars == <<v, shown, done, broken, leaks, ops>>

Inodes == 2 .. InodeEnd - 1
Blocks == 1 .. BlockEnd - 1
ROOT_INO == 2
Never == 99

Inode(kind, links, size, blocks, ptr) ==
    [kind |-> kind, mode |-> 0, links |-> links, size |-> size, blocks |-> blocks, ptr |-> ptr]
NoPtr == [i \in 1 .. Direct + 2 |-> 0]
Dead(kind) == Inode(kind, 0, 0, 0, NoPtr)
Dirent(ino, name, rec) == [ino |-> ino, name |-> name, rec |-> rec]
Zeros == [data |-> [i \in 1 .. Units |-> 0], ptrs |-> [i \in 1 .. Per |-> 0], dirents |-> <<>>]
DataBlock(u) == [Zeros EXCEPT !.data = u]
PtrBlock(p) == [Zeros EXCEPT !.ptrs = p]
DirBlock(es) == [Zeros EXCEPT !.dirents = es]

(* ---- errors and the disk ---- *)
Fail(d, e) == IF d.err = "ok" THEN [d EXCEPT !.err = e] ELSE d
Put(d, w) == IF d.err # "ok" THEN d
             ELSE IF d.left = 0 THEN [d EXCEPT !.err = "io", !.left = IF d.after THEN Never ELSE 0]
             ELSE [w EXCEPT !.left = @ - 1]
Fresh(d) == [d EXCEPT !.err = "ok"]
Quietly(d, w) == [w EXCEPT !.err = d.err]           \* `let _ = ...`

write_block(d, b, x) == Put(d, [d EXCEPT !.block[b] = x])
write_inode(d, i, x) == Put(d, [d EXCEPT !.inode[i] = x])
\* A step after another one, which is taken only when the first went well: `?`.
Then(d, F(_)) == IF d.err # "ok" THEN d ELSE F(d)
With(x, F(_)) == F(x)
adjust_group_u16(d, f, n) == Put(d, [d EXCEPT !.group[f] = @ + n])
adjust_super_u32(d, f, n) == Put(d, [d EXCEPT !.super[f] = @ + n])

(* ---- the bitmaps ---- *)
Counted(d, f, n) == adjust_super_u32(adjust_group_u16(d, f, n), f, n)
alloc_block(d) ==
    IF Blocks \subseteq d.bbits THEN Fail(d, "DiskFull")
    ELSE With(Min(Blocks \ d.bbits), LAMBDA b :
      [write_block(Counted(Put(d, [d EXCEPT !.bbits = @ \union {b}]), "blocks", 0 - 1), b, Zeros)
         EXCEPT !.got = b])

\* A bit already clear is not counted twice.
free_block(d, b) ==
    IF b \notin d.bbits \/ d.err # "ok" THEN d
    ELSE Counted(Put(d, [d EXCEPT !.bbits = @ \ {b}]), "blocks", 1)

CountDir(d, isdir, n) == IF isdir THEN adjust_group_u16(d, "dirs", n) ELSE d
alloc_inode(d, isdir) ==
    IF Inodes \subseteq d.ibits THEN Fail(d, "DiskFull")
    ELSE With(Min(Inodes \ d.ibits), LAMBDA i :
      [CountDir(Counted(Put(d, [d EXCEPT !.ibits = @ \union {i}]), "inodes", 0 - 1), isdir, 1)
         EXCEPT !.ino = i])

free_inode(d, i, isdir) ==
    IF i \notin d.ibits \/ d.err # "ok" THEN d
    ELSE CountDir(Counted(Put(d, [d EXCEPT !.ibits = @ \ {i}]), "inodes", 1), isdir, 0 - 1)

mark_inode_deleted(d, i, kind) == write_inode(d, i, Dead(kind))

(* ---- a file's blocks ---- *)
indirect_lookup(d, b, i) == IF b = 0 THEN 0 ELSE d.block[b].ptrs[i + 1]
Double(d, top, j) == indirect_lookup(d, indirect_lookup(d, top, j \div Per), j % Per)
block_for(d, x, l) ==
    IF l < Direct THEN x.ptr[l + 1]
    ELSE IF l < Direct + Per THEN indirect_lookup(d, x.ptr[Direct + 1], l - Direct)
    ELSE Double(d, x.ptr[Direct + 2], l - Direct - Per)

write_indirect_ptr(d, b, i, to) == write_block(d, b, PtrBlock([d.block[b].ptrs EXCEPT ![i + 1] = to]))

\* n blocks in d.taken, or none: the ones it got are freed again.
RECURSIVE Take(_, _)
Take(d, n) ==
    IF n = 0 THEN d
    ELSE With(alloc_block(d), LAMBDA w :
      IF w.err # "ok"
      THEN Quietly(w, FoldLeft(LAMBDA x, b : Fresh(free_block(x, b)), Fresh(w), d.taken))
      ELSE Take([w EXCEPT !.taken = Append(@, w.got)], n - 1))

\* The block at position l of the inode in d.node, made if there is none, in
\* d.got; the blocks of pointers it needs are taken with it, or nothing is.
\* With n more blocks of pointers: t holds the data block, then the others.
Taken(d, n) ==
    Then(Take([d EXCEPT !.taken = <<>>], n + 1), LAMBDA t :
      [t EXCEPT !.node.blocks = @ + n + 1, !.got = t.taken[1]])
Put1(d, l) == Then(Taken(d, 0), LAMBDA t : [t EXCEPT !.node.ptr[l + 1] = t.got])
\* Through the single block of pointers top, made when it is 0.
Put2(d, top, i) ==
    Then(Taken(d, IF top = 0 THEN 1 ELSE 0), LAMBDA t :
    With(IF top = 0 THEN t.taken[2] ELSE top, LAMBDA at :
      write_indirect_ptr([t EXCEPT !.node.ptr[Direct + 1] = at], at, i, t.got)))
\* Through the double one top and the one of pointers under it, second.
Put3(d, top, second, j) ==
    With((IF top = 0 THEN 1 ELSE 0) + (IF second = 0 THEN 1 ELSE 0), LAMBDA missing :
    Then(Taken(d, missing), LAMBDA t :
    With(IF top = 0 THEN t.taken[2] ELSE top, LAMBDA at :
    With(IF second = 0 THEN t.taken[missing + 1] ELSE second, LAMBDA under :
    With([t EXCEPT !.node.ptr[Direct + 2] = at], LAMBDA p :
      write_indirect_ptr(IF second = 0 THEN write_indirect_ptr(p, at, j \div Per, under) ELSE p,
                         under, j % Per, t.got))))))
MakeBlock(d, l) ==
    IF l >= Direct + Per + Per * Per THEN Fail(d, "DiskFull")
    ELSE IF l < Direct THEN Put1(d, l)
    ELSE IF l < Direct + Per THEN Put2(d, d.node.ptr[Direct + 1], l - Direct)
    ELSE With(l - Direct - Per, LAMBDA j :
           Put3(d, d.node.ptr[Direct + 2], indirect_lookup(d, d.node.ptr[Direct + 2], j \div Per), j))
ensure_block(d, l) ==
    Then(d, LAMBDA x : With(block_for(x, x.node, l), LAMBDA there :
      IF there # 0 THEN [x EXCEPT !.got = there] ELSE MakeBlock(x, l)))

CountOf(size) == (size + Units - 1) \div Units
Less(n, m) == IF n < m THEN 0 ELSE n - m

\* A block of pointers, after count of the blocks it leads to.
RECURSIVE free_pointed(_, _, _, _)
free_pointed(d, b, count, depth) ==
    IF b = 0 \/ d.err # "ok" THEN d
    ELSE free_block(
           FoldLeft(LAMBDA w, i :
                      IF depth = 0
                      THEN (IF i <= count THEN free_block(w, d.block[b].ptrs[i]) ELSE w)
                      ELSE free_pointed(w, d.block[b].ptrs[i], Min({Less(count, (i - 1) * Per), Per}),
                                        depth - 1),
                    d, [i \in 1 .. Per |-> i]), b)

FreeBlocks(d, x, left) ==
    free_pointed(
      free_pointed(
        FoldLeft(LAMBDA w, i : free_block(w, x.ptr[i]), d, [i \in 1 .. Min({Direct, left}) |-> i]),
        x.ptr[Direct + 1], Min({Less(left, Direct), Per}), 0),
      x.ptr[Direct + 2], Min({Less(left, Direct + Per), Per * Per}), 1)
free_all_blocks(d, x) == FreeBlocks(d, x, CountOf(x.size))

(* ---- directories ---- *)
DirBlocks(d, x) == [l \in 1 .. x.size |-> block_for(d, x, l - 1)]   \* a directory's size is in blocks
walk_dir(d, x) ==
    SelectSeq(FlattenSeq([l \in 1 .. x.size |-> d.block[DirBlocks(d, x)[l]].dirents]),
              LAMBDA e : e.ino # 0)
Named(es, n) ==
    IF \A i \in DOMAIN es : es[i].name # n THEN 0
    ELSE es[Min({i \in DOMAIN es : es[i].name = n})].ino
entry_in(d, x, n) == Named(walk_dir(d, x), n)
IsDir(d, i) == i # 0 /\ d.inode[i].kind = "dir"
IsReg(d, i) == i # 0 /\ d.inode[i].kind = "reg"
resolve(d, p) ==
    FoldLeft(LAMBDA i, n : IF IsDir(d, i) THEN entry_in(d, d.inode[i], n) ELSE 0, ROOT_INO, p)

\* Where an entry of a directory is: the block and the place in it.
Spots(d, bs) ==
    {<<l, i>> \in (DOMAIN bs) \X (1 .. Slots) : i <= Len(d.block[bs[l]].dirents)}
FirstSpot(bs, hits) ==
    IF hits = {} THEN [b |-> 0, i |-> 0]
    ELSE With(Min({h[1] : h \in hits}), LAMBDA l :
           [b |-> bs[l], i |-> Min({h[2] : h \in {k \in hits : k[1] = l}})])
Where(d, x, Test(_)) ==
    With(DirBlocks(d, x), LAMBDA bs :
      FirstSpot(bs, {h \in Spots(d, bs) : Test(d.block[bs[h[1]]].dirents[h[2]])}))

\* The first entry with room to spare gives it up, or the directory grows; the
\* directory's inode is in d.node.
\* A name put in at place i of a block: in an empty entry, or after the one there.
Entered(es, i, n, ino) ==
    IF es[i].ino = 0 THEN [es EXCEPT ![i] = Dirent(ino, n, @.rec)]
    ELSE SubSeq(es, 1, i - 1) \o <<[es[i] EXCEPT !.rec = 1], Dirent(ino, n, es[i].rec - 1)>>
           \o SubSeq(es, i + 1, Len(es))
GrowDir(d, di, n, ino) ==
    Then(alloc_block(d), LAMBDA a :
    Then(write_block(a, a.got, DirBlock(<<Dirent(ino, n, Slots)>>)), LAMBDA b :
    With([b EXCEPT !.node.ptr[b.node.size + 1] = a.got, !.node.size = @ + 1, !.node.blocks = @ + 1],
         LAMBDA g : write_inode(g, di, g.node))))
insert_dirent(d, di, n, ino) ==
    Then(d, LAMBDA x :
    With(Where(x, x.node, LAMBDA e : e.rec - (IF e.ino = 0 THEN 0 ELSE 1) >= 1), LAMBDA w :
      IF w.b # 0 THEN write_block(x, w.b, DirBlock(Entered(x.block[w.b].dirents, w.i, n, ino)))
      ELSE IF x.node.size >= Direct THEN Fail(x, "DiskFull")
      ELSE GrowDir(x, di, n, ino)))

\* One write points a name at another inode.
\* Where a name in use is, for a change of its block.
AtName(d, x, n, F(_, _)) ==
    Then(d, LAMBDA y : With(Where(y, x, LAMBDA e : e.ino # 0 /\ e.name = n), LAMBDA w :
      write_block(y, w.b, DirBlock(F(y.block[w.b].dirents, w.i)))))
set_dirent_inode(d, x, n, ino) == AtName(d, x, n, LAMBDA es, i : [es EXCEPT ![i].ino = ino])

\* The entry before it takes its room over; the first of a block is left empty.
remove_dirent(d, x, n) ==
    AtName(d, x, n, LAMBDA es, i :
      IF i = 1 THEN [es EXCEPT ![1].ino = 0, ![1].name = ""]
      ELSE RemoveAt([es EXCEPT ![i - 1].rec = @ + es[i].rec], i))

dir_is_empty(d, x) == \A e \in Range(walk_dir(d, x)) : e.name \in {".", ".."}

set_dotdot(d, x, parent) == set_dirent_inode(d, x, "..", parent)

(* ---- the operations ---- *)
Load(d, i) == [d EXCEPT !.node = d.inode[i]]

\* An operation on the last name of a path: F of the directory's inode and the
\* name's, 0 when it has none.
InParent(d, p, F(_, _)) ==
    With(resolve(d, Front(p)), LAMBDA pi :
      IF ~IsDir(d, pi) THEN Fail(d, "NotADirectory") ELSE F(pi, entry_in(d, d.inode[pi], Last(p))))
touch(d, p) ==
    InParent(d, p, LAMBDA pi, i :
      IF IsDir(d, i) THEN Fail(d, "NotAFile")
      ELSE IF i # 0 THEN d
      ELSE Then(alloc_inode(d, FALSE), LAMBDA a :
           Then(write_inode(a, a.ino, Inode("reg", 1, 0, 0, NoPtr)), LAMBDA w :
             insert_dirent(Load(w, pi), pi, Last(p), a.ino))))

\* The data in blocks of the inode in d.node.
UnitsOf(data, l) ==
    [i \in 1 .. Units |-> IF (l - 1) * Units + i <= Len(data) THEN data[(l - 1) * Units + i] ELSE 0]
write_file_data(d, data) ==
    FoldLeft(LAMBDA w, l : Then(ensure_block(w, l - 1), LAMBDA e :
                             write_block(e, e.got, DataBlock(UnitsOf(data, l)))),
             [d EXCEPT !.node = Inode("reg", 1, Len(data), 0, NoPtr)],
             [l \in 1 .. CountOf(Len(data)) |-> l])

\* What a failed write_file had made is freed, whatever fails of that.
FreeNew(f, i) ==
    IF i = 0 THEN f ELSE mark_inode_deleted(Fresh(free_inode(f, i, FALSE)), i, "reg")
abandon(d, node, i) == Quietly(d, FreeNew(Fresh(free_all_blocks(Fresh(d), node)), i))

\* The new blocks, then the inode with them, then the old blocks freed.
OrAbandon(w, node, i) == IF w.err = "ok" THEN w ELSE abandon(w, node, i)
\* A new inode for the data written in c, and its name.
NewFile(c, pi, n) ==
    With(alloc_inode(c, FALSE), LAMBDA a :
      OrAbandon(Then(write_inode(a, a.ino, c.node), LAMBDA w : insert_dirent(Load(w, pi), pi, n, a.ino)),
                c.node, IF a.err = "ok" THEN a.ino ELSE 0))
Rewritten(c, i, old) ==
    With(write_inode(c, i, [c.node EXCEPT !.mode = old.mode, !.links = old.links]), LAMBDA w :
      IF w.err # "ok" THEN abandon(w, c.node, 0) ELSE free_all_blocks(w, old))
write_file(d, p, data) ==
    InParent(d, p, LAMBDA pi, i :
      IF IsDir(d, i) THEN Fail(d, "NotAFile")
      ELSE With(write_file_data(d, data), LAMBDA c :
        IF c.err # "ok" THEN abandon(c, c.node, 0)
        ELSE IF i # 0 THEN Rewritten(c, i, d.inode[i]) ELSE NewFile(c, pi, Last(p))))

\* Block l with the part of the write from pos to stop in it.
Spanned(was, l, pos, stop, o, data) ==
    [i \in 1 .. Units |->
       IF l * Units + i > pos /\ l * Units + i <= stop
       THEN IF l * Units + i > o THEN data[l * Units + i - o] ELSE 0
       ELSE was[i]]
RECURSIVE write_span(_, _, _, _)
write_span(d, o, data, pos) ==
    IF d.err # "ok" THEN d
    ELSE IF pos >= o + Len(data) THEN [d EXCEPT !.pos = pos]
    ELSE With(pos \div Units, LAMBDA l : With(Min({(l + 1) * Units, o + Len(data)}), LAMBDA stop :
         With(Then(ensure_block(d, l), LAMBDA e :
                write_block(e, e.got, DataBlock(Spanned(e.block[e.got].data, l, pos, stop, o, data)))),
              LAMBDA w : IF w.err # "ok" THEN [w EXCEPT !.pos = pos] ELSE write_span(w, o, data, stop))))

\* The inode is written with as much as got there, though the write failed.
Resized(w, i, old) == write_inode(Fresh(w), i, [w.node EXCEPT !.size = Max({old, w.pos})])
write_at(d, p, o, data) ==
    IF data = <<>> THEN d
    ELSE With(resolve(d, p), LAMBDA i :
      IF ~IsReg(d, i) THEN Fail(d, "NotAFile")
      ELSE With(write_span(Load(d, i), o, data, Min({d.inode[i].size, o})), LAMBDA w :
             Then(Resized(w, i, d.inode[i].size), LAMBDA n : [n EXCEPT !.err = w.err])))

chmod(d, p) ==
    With(resolve(d, p), LAMBDA i :
      IF i = 0 THEN Fail(d, "NotFound") ELSE write_inode(d, i, [d.inode[i] EXCEPT !.mode = 1]))

DirFile(a, b, pi) ==
    Then(write_block(b, b.got, DirBlock(<<Dirent(a.ino, ".", 1), Dirent(pi, "..", Slots - 1)>>)), LAMBDA e :
      write_inode(e, a.ino, Inode("dir", 2, 1, 1, [NoPtr EXCEPT ![1] = b.got])))
mkdir(d, p) ==
    InParent(d, p, LAMBDA pi, i :
      IF i # 0 THEN Fail(d, "AlreadyExists")
      ELSE Then(alloc_inode(d, TRUE), LAMBDA a :
           Then(alloc_block(a), LAMBDA b :
           Then(DirFile(a, b, pi), LAMBDA w :
           Then(insert_dirent(Load(w, pi), pi, Last(p), a.ino), LAMBDA n :
             write_inode(n, pi, [n.node EXCEPT !.links = @ + 1]))))))

\* A mutant: any link takes the file with it.
drop_link_uncounted(d, i, x) ==
    mark_inode_deleted(free_inode(free_all_blocks(d, x), i, FALSE), i, x.kind)

\* The last link takes the file with it.
drop_link(d, i, x) ==
    IF x.links <= 1
    THEN mark_inode_deleted(free_inode(free_all_blocks(d, x), i, FALSE), i, x.kind)
    ELSE write_inode(d, i, [x EXCEPT !.links = @ - 1])

rm(d, p) ==
    InParent(d, p, LAMBDA pi, i :
      IF i = 0 THEN Fail(d, "NotFound")
      ELSE IF IsDir(d, i) THEN Fail(d, "NotAFile")
      ELSE drop_link(remove_dirent(d, d.inode[pi], Last(p)), i, d.inode[i]))

FreeDir(d, i, x) ==
    mark_inode_deleted(free_inode(free_all_blocks(d, [x EXCEPT !.size = @ * Units]), i, TRUE), i, "dir")
rmdir(d, p) ==
    InParent(d, p, LAMBDA pi, i :
      IF ~IsDir(d, i) THEN Fail(d, "NotADirectory")
      ELSE IF ~dir_is_empty(d, d.inode[i]) THEN Fail(d, "DirectoryNotEmpty")
      ELSE write_inode(FreeDir(remove_dirent(d, d.inode[pi], Last(p)), i, d.inode[i]),
                       pi, [d.inode[pi] EXCEPT !.links = @ - 1]))

\* Over a file: its name is pointed at the source in one write, the source's
\* own name goes, and the old file loses a link.
\* Into a directory that has no such name: the name, the old one gone, and for
\* a directory its "..", then the two directories' links.
MoveIn(d, si, ti, i, p, q) ==
    Then(insert_dirent(Load(d, ti), ti, Last(q), i), LAMBDA n :
    Then(remove_dirent(n, IF si = ti THEN n.node ELSE d.inode[si], Last(p)), LAMBDA r :
      IF si = ti \/ ~IsDir(d, i) THEN r
      ELSE write_inode(write_inode(set_dotdot(r, r.inode[i], ti), ti, [n.node EXCEPT !.links = @ + 1]),
                       si, [d.inode[si] EXCEPT !.links = @ - 1])))
mv(d, p, q) ==
    InParent(d, p, LAMBDA si, i : InParent(d, q, LAMBDA ti, j :
      IF i = 0 THEN Fail(d, "NotFound")
      ELSE IF j = i THEN d
      ELSE IF j = 0 THEN MoveIn(d, si, ti, i, p, q)
      ELSE IF IsDir(d, i) \/ IsDir(d, j) THEN Fail(d, "AlreadyExists")
      ELSE drop_link(remove_dirent(set_dirent_inode(d, d.inode[ti], Last(q), i), d.inode[si], Last(p)),
                     j, d.inode[j])))

(* ---- reading ---- *)
UnitIn(d, b, o) == IF b = 0 THEN 0 ELSE d.block[b].data[(o % Units) + 1]
UnitAt(d, x, o) == UnitIn(d, block_for(d, x, o \div Units), o)
Shown(d, i) ==
    IF i = 0 THEN [kind |-> "none", data |-> <<>>]
    ELSE IF IsDir(d, i) THEN [kind |-> "dir", data |-> <<>>]
    ELSE [kind |-> "file", data |-> [k \in 1 .. d.inode[i].size |-> UnitAt(d, d.inode[i], k - 1)]]
TreeOf(d) == [p \in Paths |-> Shown(d, resolve(d, p))]

(* ---- the volume ---- *)
\* A volume format has just written; or one where another system has left one
\* empty file under two names.
Formatted ==
    LET names == IF Foreign THEN <<Dirent(3, "a", 1), Dirent(3, "b", Slots - 3)>> ELSE <<>>
        used == IF Foreign THEN {ROOT_INO, 3} ELSE {ROOT_INO}
        free == [inodes |-> Cardinality(Inodes) - Cardinality(used), blocks |-> Cardinality(Blocks) - 1]
    IN [bbits |-> {1}, ibits |-> used, super |-> free,
        group |-> [inodes |-> free.inodes, blocks |-> free.blocks, dirs |-> 1],
        inode |-> [i \in Inodes |->
                     IF i = ROOT_INO THEN Inode("dir", 2, 1, 1, [NoPtr EXCEPT ![1] = 1])
                     ELSE IF i \in used THEN Inode("reg", 2, 0, 0, NoPtr) ELSE Dead("reg")],
        block |-> [b \in Blocks |->
                     IF b = 1
                     THEN DirBlock(<<Dirent(ROOT_INO, ".", 1),
                                     Dirent(ROOT_INO, "..", IF Foreign THEN 1 ELSE Slots - 1)>> \o names)
                     ELSE Zeros],
        node |-> Dead("reg"), taken |-> <<>>, got |-> 0, ino |-> 0, pos |-> 0,
        err |-> "ok", left |-> Never, after |-> TRUE]

Abstract == INSTANCE Volume WITH tree <- shown

Init ==
    /\ v = Formatted /\ shown = TreeOf(v)
    /\ done = Abstract!Mounted /\ broken = FALSE /\ leaks = [touch |-> 0, mkdir |-> 0] /\ ops = 0

Settled(w) == [w EXCEPT !.node = Dead("reg"), !.taken = <<>>, !.got = 0, !.ino = 0, !.pos = 0,
                        !.err = "ok", !.left = Never, !.after = TRUE]
Answer(e) ==
    IF e \in {"ok", "io"} THEN e ELSE IF e \in {"DiskFull"} THEN "no room" ELSE "refused"
Carry(op, p, q, o, data, Op(_)) ==
    /\ ~broken /\ ops < MaxOps
    /\ \E n \in Refusals \union {Never}, after \in BOOLEAN :
         \E w \in {Op([v EXCEPT !.left = n, !.after = after])} :
           /\ n = Never => after
           /\ n # Never => w.err = "io"
           /\ v' = Settled(w)
           /\ shown' = TreeOf(v')
           /\ done' = Abstract!Request(op, p, q, o, data, Answer(w.err), 1 - done.turn)
           /\ broken' = (w.err = "io")
           /\ leaks' = IF op \in DOMAIN leaks /\ w.err = "DiskFull" /\ v' # v THEN [leaks EXCEPT ![op] = @ + 1]
                       ELSE leaks
           /\ ops' = IF v' = v THEN ops ELSE ops + 1

Touch(p) == Carry("touch", p, p, 0, <<>>, LAMBDA d : touch(d, p))
Mkdir(p) == Carry("mkdir", p, p, 0, <<>>, LAMBDA d : mkdir(d, p))
Rm(p) == Carry("rm", p, p, 0, <<>>, LAMBDA d : rm(d, p))
Rmdir(p) == Carry("rmdir", p, p, 0, <<>>, LAMBDA d : rmdir(d, p))
WriteFile(p, data) == Carry("write_file", p, p, 0, data, LAMBDA d : write_file(d, p, data))
WriteAt(p, o, data) == Carry("write_at", p, p, o, data, LAMBDA d : write_at(d, p, o, data))
\* The server asks for no move of a name into itself.
Mv(p, q) == ~IsStrictPrefix(p, q) /\ Carry("mv", p, q, 0, <<>>, LAMBDA d : mv(d, p, q))
Chmod(p) == Carry("chmod", p, p, 0, <<>>, LAMBDA d : chmod(d, p))
\* read_at, list_dir, stat: nothing is kept from one request to the next.
Read == UNCHANGED vars

Next ==
    \/ Read
    \/ \E p \in Paths : Touch(p) \/ Rm(p) \/ Rmdir(p) \/ Chmod(p)
    \/ \E p \in DirPaths : Mkdir(p)
    \/ \E p \in Paths, data \in Contents : WriteFile(p, data)
    \/ \E p \in Paths, o \in Offsets, data \in Pieces : WriteAt(p, o, data)
    \/ \E p, q \in Paths : Mv(p, q)

Spec == Init /\ [][Next]_vars

(* ---- what is promised ---- *)
\* Every operation on an ext2 volume does what Volume says it does to the tree
\* a client reads back, a rename cut short loses nothing, and a file written over
\* keeps its mode.
KeptStep ==
    /\ Abstract!Next /\ Abstract!KeptMoving(done')
    /\ \A p \in Paths : done'.op = "write_file" /\ IsReg(v, resolve(v, p)) /\ IsReg(v', resolve(v', p))
         => v'.inode[resolve(v', p)].mode = v.inode[resolve(v, p)].mode

(* ---- soundness ---- *)
Pointed(d, b) == IF b = 0 THEN {} ELSE {b} \union (Range(d.block[b].ptrs) \ {0})
\* Every block an inode points at, the blocks of pointers with them.
BlocksOf(d, i) ==
    LET x == d.inode[i]
    IN ({x.ptr[k] : k \in 1 .. Direct} \ {0}) \union Pointed(d, x.ptr[Direct + 1])
         \union (IF x.ptr[Direct + 2] = 0 THEN {}
                 ELSE {x.ptr[Direct + 2]} \union UNION {Pointed(d, b) : b \in Range(d.block[x.ptr[Direct + 2]].ptrs)})

\* The names of every directory in the tree, "." and ".." aside.
RECURSIVE Below(_, _)
Below(d, i) ==
    With({<<i, e>> : e \in {f \in Range(walk_dir(d, d.inode[i])) : f.name \notin {".", ".."}}}, LAMBDA es :
      es \union UNION {Below(d, x[2].ino) : x \in {y \in es : IsDir(d, y[2].ino)}})

\* The disk has refused no write: the tables say what the tree uses, and what
\* was taken for a name there was then no room for.
Counts(names, blocks) ==
    /\ Cardinality(v.ibits \ DOMAIN blocks) = leaks.touch + leaks.mkdir
    /\ Cardinality(v.bbits \ UNION Range(blocks)) <= leaks.mkdir
    /\ v.super.inodes = Cardinality(Inodes \ v.ibits) /\ v.group.inodes = v.super.inodes
    /\ v.super.blocks = Cardinality(Blocks \ v.bbits) /\ v.group.blocks = v.super.blocks
    /\ v.group.dirs = Cardinality({i \in DOMAIN blocks : IsDir(v, i)}) + leaks.mkdir
    /\ \A i \in DOMAIN blocks :
         /\ v.inode[i].blocks = Cardinality(blocks[i])
         /\ v.inode[i].links = IF IsDir(v, i) THEN 2 + Cardinality({n \in names : n[1] = i /\ IsDir(v, n[2].ino)})
                               ELSE Cardinality({n \in names : n[2].ino = i})
    /\ \A n \in names : IsDir(v, n[2].ino) => entry_in(v, v.inode[n[2].ino], "..") = n[1]
Apart(names, blocks) ==
    /\ DOMAIN blocks \subseteq v.ibits
    /\ \A i \in DOMAIN blocks :
         /\ blocks[i] \subseteq v.bbits
         /\ \A j \in DOMAIN blocks \ {i} : blocks[i] \intersect blocks[j] = {}
    /\ broken \/ Counts(names, blocks)

\* Whatever write the disk refused, no name leads to a free inode, no inode has
\* a free block and no two share one; and while it has refused none, the two
\* bitmaps are what the tree uses, the group's and the superblock's counts agree
\* with them, an inode's links are its names, its block count its blocks, and a
\* directory's ".." is the directory it is in.  A touch or a mkdir that takes an
\* inode and then finds no room keeps it, and the mkdir its count of a
\* directory and at most one block: that much is lost, and no more.
Sound ==
    With(Below(v, ROOT_INO), LAMBDA names :
      Apart(names, [i \in {ROOT_INO} \union {n[2].ino : n \in names} |-> BlocksOf(v, i)]))
=============================================================================
