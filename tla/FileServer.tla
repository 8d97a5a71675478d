----------------------------- MODULE FileServer -----------------------------
(***************************************************************************)
(* fsd, the filesystem server: its table of mounted volumes, its table of  *)
(* open files (fids), and the requests that change either or the disk      *)
(* below.  One request is one step, from MSG_RECV to MSG_REPLY: the server *)
(* has one thread, and what happens to the caller meanwhile shows in what  *)
(* MSG_REPLY answers.  What an engine finds at a path, whether it can read *)
(* or write, and the verdict of check_access are inputs of the requests.   *)
(* The partition tables and the access checks, which are functions of what *)
(* is on the disk, come first.                                             *)
(***************************************************************************)
EXTENDS Naturals, Sequences, SequencesExt, FiniteSetsExt

(***************************************************************************)
(* Partition tables and the choice of a disk's root: the parttable crate,  *)
(* the root order and bounds of fsd's vfs.rs, and the partition format     *)
(* takes.  A disk is what its sectors say: the MBR in sector 0, two copies *)
(* of a GPT, each with a header and an array that may fail to read or to   *)
(* check, and what is found by probing at a partition's first sector.      *)
(* Checksums and byte layouts are abstracted to whether they are right.    *)
(***************************************************************************)
Wrap == 8          \* 2^32, the end of the sectors a u32 can name
Unreadable == 9    \* BLOCK_ERR_IO, a code no sector number reaches

(* A table entry has a type ("zero" is an unused entry), a unique id (the   *)
(* GUID of a GPT entry), a first sector and a length.  reads: which of      *)
(* sectors 0 and 1 can be read.                                             *)

TablesRead(disk) == {0, 1} \subseteq disk.reads

is_protective(disk) == disk.signed /\ \E e \in Range(disk.mbr) : e.type = "protective"

\* Of a disk whose sectors 0 and 1 have been read.
is_gpt(disk) == disk.efi \/ is_protective(disk)

gpt_backup(capacity) == capacity - 1 > 1

\* One copy of the GPT: the header is judged before the array is read, and
\* the array's checksum last.
read_gpt(copy) ==
  IF ~copy.headerReads THEN "Unreadable"
  ELSE IF ~copy.headerOk THEN "Invalid"
  ELSE IF ~copy.arrayReads THEN "Unreadable"
  ELSE IF ~copy.arrayOk THEN "Invalid" ELSE "Valid"

Copies(disk) == <<disk.primary>> \o (IF gpt_backup(disk.capacity) THEN <<disk.backup>> ELSE <<>>)

Partition(e, rootType) ==
  [start |-> e.start, sectors |-> e.sectors, root |-> e.type = rootType]

\* The partitions of a disk, in table order: on a GPT disk those of the first
\* valid copy, and nothing of the MBR.
discover(disk) ==
  LET used(entries) == SelectSeq(entries, LAMBDA e : e.type \notin {"zero", "protective"} /\ e.start # 0)
      valid == SelectSeq(Copies(disk), LAMBDA c : read_gpt(c) = "Valid")
      parts(entries, rootType) ==
        [n \in 1..Len(used(entries)) |-> Partition(used(entries)[n], rootType)]
  IN IF ~is_gpt(disk) THEN parts(disk.mbr, "linux")
     ELSE IF valid = <<>> THEN <<>> ELSE parts(valid[1].entries, "root")

-----------------------------------------------------------------------------
(* Which disk the firmware booted from.  boot: what its device path says.   *)

mbr_holds(boot, disk) ==
  /\ disk.signed
  /\ boot.signature.kind = "Mbr" => boot.signature.id = disk.id
  /\ boot.signature.kind # "Gpt"
  /\ boot.number \in 1..Len(disk.mbr)
  /\ LET e == disk.mbr[boot.number]
     IN e.type # "zero" /\ e.start = boot.start /\ e.sectors = boot.sectors

gpt_holds(boot, copy) ==
  /\ boot.number \in 1..Len(copy.entries)
  /\ LET e == copy.entries[boot.number]
     IN /\ boot.signature.kind = "Gpt" => boot.signature.id = e.id
        /\ boot.signature.kind # "Mbr"
        /\ e.start = boot.start /\ e.sectors = boot.sectors

Verdict(holds) == IF holds THEN "Yes" ELSE "No"

\* The first GPT copy that is valid decides; a primary that would not read
\* leaves the question open unless the backup answers it.
is_boot_disk(boot, disk) ==
  LET valid == SelectSeq(Copies(disk), LAMBDA c : read_gpt(c) = "Valid")
  IN CASE boot.table = "Unknown" -> "None"
       [] boot.table = "Mbr" ->
            IF 0 \in disk.reads THEN Verdict(mbr_holds(boot, disk)) ELSE "Unreadable"
       [] OTHER -> IF valid # <<>> THEN Verdict(gpt_holds(boot, valid[1]))
                   ELSE IF read_gpt(disk.primary) = "Unreadable" THEN "Unreadable" ELSE "No"

\* The boot partition's first sector on this disk, 0 if it is not there.
boot_start(boot, disk) ==
  IF boot.table = "Unknown" THEN 0
  ELSE IF ~TablesRead(disk) THEN Unreadable
  ELSE IF is_gpt(disk) # (boot.table = "Gpt") THEN 0
  ELSE CASE is_boot_disk(boot, disk) = "Yes" -> boot.start
         [] is_boot_disk(boot, disk) = "Unreadable" -> Unreadable
         [] OTHER -> 0

-----------------------------------------------------------------------------
(* The root: parts are a disk's partitions in table order, boot the first   *)
(* sector of the boot partition on it, 0 when it is not.                    *)

root_candidates(parts, boot) ==
  LET beside == SelectSeq(parts, LAMBDA p : p.start # boot)
      typed == \E p \in Range(beside) : p.root
  IN SelectSeq(beside, LAMBDA p : IF typed THEN p.root ELSE boot # 0)

\* The sectors a volume at p may use: to the next partition's start, the end
\* of the disk, or its own length.  0 sectors is a length the table lost.
volume_bound(p, parts, capacity) ==
  Min({IF p.sectors = 0 THEN Wrap ELSE p.sectors, IF capacity > p.start THEN capacity - p.start ELSE 0,
       IF Wrap > p.start THEN Wrap - p.start ELSE 0}
      \union {q.start - p.start : q \in {q \in Range(parts) : q.start > p.start}})

\* The candidates in the order they are probed, then the fallbacks.
root_order(parts, boot, capacity) ==
  LET first == root_candidates(parts, boot)
      untyped == IF boot = 0 THEN SelectSeq(parts, LAMBDA p : ~p.root) ELSE <<>>
      booted == SelectSeq(parts, LAMBDA p : p.start = boot)
      order == first \o untyped \o booted
  IN [order |-> [n \in 1..Len(order) |->
                   [part |-> order[n], bound |-> volume_bound(order[n], parts, capacity)]],
      candidates |-> Len(first)]

format_targets(roots) ==
  IF roots.candidates > 0 THEN SubSeq(roots.order, 1, roots.candidates) ELSE roots.order

is_fallback(roots, n) == roots.candidates > 0 /\ n > roots.candidates

\* The three engines in turn, at one partition: a filesystem, "none", or "Io".
\* A read that fails for one engine does not keep the next from being tried.
probe(disk, c) ==
  IF c.part.start \in DOMAIN disk.volumes THEN disk.volumes[c.part.start] ELSE "none"

\* The first candidate that mounts, and whether one before it failed to read.
first_mounting(disk, cs) ==
  LET named == {n \in 1..Len(cs) : cs[n].part.start < Wrap}
      mounts == {n \in named : probe(disk, cs[n]) \notin {"none", "Io"}}
      found == IF mounts = {} THEN 0 ELSE Min(mounts)
  IN [found |-> found,
      failed |-> \E n \in named : probe(disk, cs[n]) = "Io" /\ (found = 0 \/ n < found)]

Volume(disk, c, held) ==
  [result |-> "Ok", start |-> c.part.start, bound |-> c.bound, fs |-> probe(disk, c), held |-> held]

\* Filesystem::mount: a root, held read-only where it is a fallback.
mount(disk, boot) ==
  LET at == boot_start(boot, disk)
      roots == root_order(discover(disk), at, disk.capacity)
      probed == first_mounting(disk, roots.order)
  IN IF ~TablesRead(disk) \/ at = Unreadable THEN [result |-> "Io"]
     ELSE IF probed.found > 0
          THEN Volume(disk, roots.order[probed.found], is_fallback(roots, probed.found))
     ELSE [result |-> IF probed.failed THEN "Io" ELSE "NoFat32Partition"]

\* Filesystem::mount_partition: the partition at one place of the table.
mount_partition(disk, index) ==
  LET parts == discover(disk)
      c == [part |-> parts[index], bound |-> volume_bound(parts[index], parts, disk.capacity)]
  IN IF ~TablesRead(disk) THEN [result |-> "Io"]
     ELSE IF index \notin 1..Len(parts) THEN [result |-> "NoFat32Partition"]
     ELSE IF c.part.start >= Wrap \/ probe(disk, c) = "none" THEN [result |-> "NoFat32Partition"]
     ELSE IF probe(disk, c) = "Io" THEN [result |-> "Io"] ELSE Volume(disk, c, FALSE)

\* find_partition: where format makes its volume.
find_partition(disk, boot) ==
  LET at == boot_start(boot, disk)
      targets == format_targets(root_order(discover(disk), at, disk.capacity))
      probed == first_mounting(disk, targets)
      c == targets[IF probed.found = 0 THEN 1 ELSE probed.found]
  IN IF ~TablesRead(disk) THEN [result |-> "Io"]
     ELSE IF is_gpt(disk) THEN [result |-> "NotFound"]
     ELSE IF at = Unreadable \/ probed.failed THEN [result |-> "Io"]
     ELSE IF targets = <<>> THEN [result |-> "NotFound"]
     ELSE IF c.part.sectors = 0 \/ c.part.start >= Wrap \/ c.bound >= Wrap THEN [result |-> "NotFound"]
     ELSE [result |-> "Ok", start |-> c.part.start, sectors |-> c.bound]

(***************************************************************************)
(* Who may do what to a path: the access checks fsd makes before a verb    *)
(* reaches an engine.  A path is the sequence of its names; a tree gives   *)
(* the nodes there are, each a file or a directory with an owner, a group  *)
(* and the bits of owner, group and others, or with no mode at all on an   *)
(* engine that has none.                                                   *)
(***************************************************************************)
Looks == {"READDIR", "READ_FILE", "READ", "READ_AT", "STAT"}

parent_of(path) == IF path = <<>> THEN <<>> ELSE Front(path)
has_dotdot(path) == ".." \in Range(path)
ProperPrefixes(path) == {SubSeq(path, 1, n) : n \in 0..(Len(path) - 1)}

stat(tree, path) == path \in DOMAIN tree.nodes

mode_allows(node, who, need) ==
  LET triad == IF who.uid = node.uid THEN node.mode.u
               ELSE IF node.gid \in who.groups THEN node.mode.g ELSE node.mode.o
  IN who.uid = 0 \/ need \subseteq triad

\* A path that is not there is refused by the engine, not here.
dir_searchable(tree, dir, who) == stat(tree, dir) => mode_allows(tree.nodes[dir], who, {"x"})

ancestors_searchable(tree, path, who) ==
  ~has_dotdot(path) /\ \A dir \in ProperPrefixes(path) \union {<<>>} : dir_searchable(tree, dir, who)

path_allows(tree, path, who, need) ==
  /\ ancestors_searchable(tree, path, who)
  /\ stat(tree, path) => mode_allows(tree.nodes[path], who, need)

MayAddIn(tree, path, who) == path_allows(tree, parent_of(path), who, {"w", "x"})

open_changes(flags, exists) ==
  flags \intersect {"WRITE", "TRUNC"} # {} \/ ("CREATE" \in flags /\ ~exists)

\* who: [known, uid, groups]; a caller the kernel could not name may do nothing.
\* r: a request [verb, path, to, flags]; to is the second path of a move.
check_access(tree, who, r) ==
  LET there == stat(tree, r.path)
      owned == there /\ tree.nodes[r.path].uid = who.uid
  IN who.known /\
     \/ who.uid = 0
     \/ ~tree.modes
     \/ CASE r.verb = "STAT" -> ancestors_searchable(tree, r.path, who)
          [] r.verb = "OPEN" ->
               /\ "READ" \in r.flags => path_allows(tree, r.path, who, {"r"})
               /\ open_changes(r.flags, there) =>
                    IF there THEN path_allows(tree, r.path, who, {"w"}) ELSE MayAddIn(tree, r.path, who)
          [] r.verb \in {"READDIR", "READ_FILE", "READ", "READ_AT"} -> path_allows(tree, r.path, who, {"r"})
          [] r.verb \in {"WRITE", "WRITE_FILE", "WRITE_AT"} ->
               IF there THEN path_allows(tree, r.path, who, {"w"}) ELSE MayAddIn(tree, r.path, who)
          [] r.verb \in {"TOUCH", "MKDIR", "RM", "RMDIR"} -> MayAddIn(tree, r.path, who)
          [] r.verb = "MV" -> MayAddIn(tree, r.path, who) /\ MayAddIn(tree, r.to, who)
          [] r.verb = "CHMOD" -> ancestors_searchable(tree, r.path, who) /\ (there => owned)
          [] r.verb = "CHOWN" -> ancestors_searchable(tree, r.path, who) /\ ~there

\* What a caller who may not even stat a path is told in place of `known`.
exists_answer(tree, who, r, known) ==
  IF check_access(tree, who, [r EXCEPT !.verb = "STAT"]) THEN known ELSE "FS_ERR_PERM"

\* A create on a tree that takes no changes is told of a missing parent first.
refused_read_only(tree, r) ==
  LET there == stat(tree, r.path)
  IN IF ~tree.readOnly \/ r.verb \in Looks THEN "go"
     ELSE IF r.verb # "OPEN" \/ open_changes(r.flags, TRUE) THEN "FS_ERR_READ_ONLY"
     ELSE IF ~open_changes(r.flags, there) THEN "go"
     ELSE IF ~stat(tree, parent_of(r.path)) THEN "FS_ERR_NOT_FOUND"
     ELSE IF ~tree.nodes[parent_of(r.path)].dir THEN "FS_ERR_NOT_A_DIRECTORY"
     ELSE "FS_ERR_READ_ONLY"

\* handle_ninep up to the verb itself; "go" is a request the engine gets.
answer(tree, who, r) ==
  LET there == stat(tree, r.path)
      dir == there /\ tree.nodes[r.path].dir
      open == r.verb = "OPEN"
  IN IF open /\ (r.flags \intersect {"READ", "WRITE"} = {} \/ ("EXCL" \in r.flags /\ "CREATE" \notin r.flags))
     THEN "FS_ERROR"
     ELSE IF open /\ there /\ "EXCL" \in r.flags THEN exists_answer(tree, who, r, "FS_ERR_ALREADY_EXISTS")
     ELSE IF open /\ dir /\ open_changes(r.flags, FALSE) THEN exists_answer(tree, who, r, "FS_ERR_NOT_A_FILE")
     ELSE IF ~check_access(tree, who, r) THEN "FS_ERR_PERM"
     ELSE refused_read_only(tree, r)

-----------------------------------------------------------------------------

\* Below a directory a user may not search nothing shows: every verb and every
\* kind of open is refused in the same words, whether the name is there or
\* not, is a file or a directory, and whether the tree may be changed.
ClosedDirectoryHides(tree, who, r) ==
  (/\ tree.modes /\ who.known /\ who.uid # 0 /\ answer(tree, who, r) # "FS_ERROR"
   /\ \E dir \in ProperPrefixes(r.path) : stat(tree, dir) /\ ~mode_allows(tree.nodes[dir], who, {"x"}))
  => answer(tree, who, r) = "FS_ERR_PERM"

\* An open lets a user do what the path verbs let them do, and nothing else:
\* the arms for opens and for whole-file verbs are two statements of one rule.
VerbsAgree(tree, who, r) ==
  LET as(verb) == answer(tree, who, [r EXCEPT !.verb = verb])
      open(flags) == answer(tree, who, [r EXCEPT !.verb = "OPEN", !.flags = flags])
      there == stat(tree, r.path)
  IN /\ open({"READ"}) = as("READ_FILE")
     /\ there /\ ~tree.nodes[r.path].dir => open({"WRITE"}) = as("WRITE_AT")
     /\ ~there => /\ open({"WRITE", "CREATE"}) = as("WRITE_FILE")
                  /\ open({"READ", "WRITE", "CREATE", "EXCL"}) = as("TOUCH")

(***************************************************************************)
(* The server.                                                             *)
(***************************************************************************)
CONSTANTS
  Slots,        \* the slots fsd's clients live in
  NetTask,      \* the one that speaks for remote users
  UidsOf,       \* whom each client speaks for: user ids, 0 is root
  OpenFlags,    \* the sets of flags files are opened with
  Disks,        \* the disks there are, by name
  Boot,         \* what the firmware's device path says of the boot partition
  OnDisk,       \* [Disks -> what is on each at first]
  MAX_MOUNTS, MAX_FIDS,
  Formats, Types, Erased,   \* what a disk is prepared with: engines, partition types, sectors zeroed
  MaxLives,     \* bound: programs a slot holds in its time
  MaxSerial     \* bound: mounts of a disk

VARIABLES
  device,       \* the disk the kernel has installed, or "none"
  disks,        \* what is on each disk
  changed,      \* the volume whose files the last request changed, as <<disk, start>>
  mounts,       \* by tree number: a mounted volume or Empty
  fids,         \* by number: an open file or Closed
  life,         \* the generation of the program in each slot
  known,        \* the fids that program was told of and has not clunked
  serial        \* how many mounts there have been since the boot's

vars == <<device, disks, changed, mounts, fids, life, known, serial>>

Trees == 0..(MAX_MOUNTS - 1)
PROC == MAX_MOUNTS - 1
Fids == 1..MAX_FIDS
Nothing == <<>>
Empty == [fs |-> "none"]
Closed == [used |-> FALSE]
NoOne == {}                                \* no caller identity
User(u) == {u}
Task(s) == <<s, life[s]>>                  \* the identity of a slot's program

\* effective_caller: a disk request names no user netd could speak for.
DiskCaller(s, uid) == IF s = NetTask THEN NoOne ELSE User(uid)

is_root(who) == who = User(0)

\* A device's answers: what is on it, with sectors 0 and 1 or one volume
\* failing to read.
Views(d) ==
  {disks[d], [disks[d] EXCEPT !.reads = {}]}
    \union {[disks[d] EXCEPT !.volumes[s] = "Io"] : s \in DOMAIN disks[d].volumes}

is_disk(m) == m.fs \notin {"none", "proc"}
AnyDiskMounted(ms) == \E t \in Trees : is_disk(ms[t])
refuses_changes(m) == m.held \/ m.fs \in {"proc", "exfatRO"}

\* Where a partition is mounted already, if it is.
tree_of(ms, v) == {t \in Trees : is_disk(ms[t]) /\ ms[t].start = v.start}

\* Volume v of disk d as the n-th mount, so that no two mounts are the same.
Mounted(v, d, n) ==
  [fs |-> v.fs, disk |-> d, start |-> v.start, bound |-> v.bound, held |-> v.held, serial |-> n]

-----------------------------------------------------------------------------
(* Mounting, unmounting, and preparing a disk: root's requests.             *)

\* The answer of try_mount on device d seen as view, and what it makes of ms with its n-th mount.
try_mount(ms, d, view, n) ==
  LET v == mount(view, Boot)
      as(status) == [status |-> status, mounts |-> ms]
  IN IF is_disk(ms[0]) THEN as("MOUNT_ALREADY")
     ELSE IF d = "none" THEN as("NO_FS")
     ELSE IF v.result # "Ok" THEN as(IF v.result = "Io" THEN "FS_ERR_IO" ELSE "NO_FS")
     ELSE IF tree_of(ms, v) # {} THEN as("MOUNT_ALREADY")
     ELSE [status |-> "0", mounts |-> [ms EXCEPT ![0] = Mounted(v, d, n)]]

\* A device's views; a device that is not there has one, never looked at.
Seen(d) == IF d = "none" THEN {[reads |-> {}]} ELSE Views(d)

\* Device::replace may install another disk, only while none is mounted.
MayReplace(ms) == ~AnyDiskMounted(ms)

\* FSOP_MOUNT, mount_or_rescan: a mount that finds no filesystem has the
\* kernel look for another disk and, if one was installed, tries once more.
Mount(who) ==
  /\ is_root(who) /\ serial < MaxSerial
  /\ \E view \in Seen(device) :
       LET first == try_mount(mounts, device, view, serial + 1)
       IN \/ /\ first.status # "NO_FS" \/ ~MayReplace(mounts)
             /\ mounts' = first.mounts /\ UNCHANGED device
          \/ /\ first.status = "NO_FS" /\ MayReplace(mounts)
             /\ \E d \in Disks : \E again \in Seen(d) :
                  mounts' = try_mount(mounts, d, again, serial + 1).mounts /\ device' = d
  /\ serial' = IF mounts' = mounts THEN serial ELSE serial + 1
  /\ changed' = Nothing /\ UNCHANGED <<disks, fids, life, known>>

\* FSOP_MOUNT_AT: another partition of the disk, into a free tree.
MountAt(who, index) ==
  /\ is_root(who) /\ serial < MaxSerial /\ is_disk(mounts[0])
  /\ \E view \in Seen(device) :
       LET v == mount_partition(view, index)
           free == {t \in Trees \ {0} : mounts[t] = Empty}
       IN /\ v.result = "Ok" /\ tree_of(mounts, v) = {} /\ free # {}
          /\ mounts' = [mounts EXCEPT ![Min(free)] = Mounted(v, device, serial + 1)]
  /\ serial' = serial + 1
  /\ changed' = Nothing /\ UNCHANGED <<device, disks, fids, life, known>>

\* The fids of trees no longer mounted are dead.
Orphaned(ms) ==
  [i \in Fids |-> IF fids[i].used /\ ms[fids[i].tree] = Empty
                  THEN [fids[i] EXCEPT !.dead = TRUE] ELSE fids[i]]

\* FSOP_UNMOUNT: every disk filesystem; /proc stays.
Unmount(who) ==
  /\ is_root(who) /\ AnyDiskMounted(mounts)
  /\ mounts' = [t \in Trees |-> IF is_disk(mounts[t]) THEN Empty ELSE mounts[t]]
  /\ fids' = Orphaned(mounts')
  /\ changed' = Nothing /\ UNCHANGED <<device, disks, life, known, serial>>

\* erase_disk: sectors from 0 are zeroed until the last or a write that fails.
erase_disk(d, sectors) ==
  [disks[d] EXCEPT !.signed = FALSE, !.efi = FALSE, !.mbr = <<>>,
     !.volumes = [s \in DOMAIN @ |-> IF s < sectors THEN "none" ELSE @[s]]]

\* partition_disk: one MBR partition; what the sectors after it hold is not touched.
partition_disk(d, type) ==
  [disks[d] EXCEPT !.signed = TRUE, !.id = (@ + 1) % 2,
     !.mbr = <<[type |-> type, id |-> 0, start |-> 1, sectors |-> disks[d].capacity - 1]>>]

\* FSOP_ERASE, FSOP_PARTITION, FSOP_FORMAT: only with no disk filesystem mounted.
Prepare(who) ==
  /\ is_root(who) /\ device # "none" /\ ~AnyDiskMounted(mounts)
  /\ \/ \E n \in Erased : disks' = [disks EXCEPT ![device] = erase_disk(device, n)]
     \/ \E type \in Types :
          /\ TablesRead(disks[device]) /\ ~is_gpt(disks[device]) /\ disks[device].capacity > 1
          /\ disks' = [disks EXCEPT ![device] = partition_disk(device, type)]
     \/ \E view \in Views(device) :
          LET p == find_partition(view, Boot)
          IN /\ p.result = "Ok"
             /\ \E made \in Formats \union {"none"} :    \* "none": a write failed
                  disks' = [disks EXCEPT ![device].volumes =
                              [s \in DOMAIN @ \union {p.start} |-> IF s = p.start THEN made ELSE @[s]]]
  /\ changed' = Nothing /\ UNCHANGED <<device, mounts, fids, life, known, serial>>

-----------------------------------------------------------------------------
(* Requests on files.                                                       *)

\* A write the engine carries out, in whole or in part.
Changed(m) ==
  IF is_disk(m) THEN <<m.disk, m.start>> ELSE Nothing


\* refused_read_only for a verb that is not an open.
ChangeRefused(m) == refuses_changes(m)

\* refused_read_only for an open: of a missing file the parent is looked at
\* first, but no answer it gives lets the open go on.
OpenRefused(m, flags, kind) ==
  /\ refuses_changes(m) /\ open_changes(flags, FALSE)
  /\ open_changes(flags, TRUE) \/ kind # "File"

\* The verbs that change a tree by path: write, write_at, touch, mkdir, rmdir,
\* rm, mv, chmod, chown.
ChangeByPath(t) ==
  /\ mounts[t] # Empty /\ ~ChangeRefused(mounts[t])
  /\ changed' = Changed(mounts[t])
  /\ UNCHANGED <<device, disks, mounts, fids, life, known, serial>>

\* The fids of programs that are gone.
reap_dead_fids(fs) ==
  [i \in Fids |-> IF fs[i].used /\ Task(fs[i].owner[1]) # fs[i].owner THEN Closed ELSE fs[i]]

\* free_fid_slot: the table as searched, reaped only when it was full.
Searched(fs) == IF \E i \in Fids : ~fs[i].used THEN fs ELSE reap_dead_fids(fs)
Free(fs) == {i \in Fids : ~fs[i].used}

forget_unheard_fid(fs, i) == [fs EXCEPT ![i] = Closed]

\* What MSG_REPLY finds of the caller: still waiting, interrupted, or dead.
Fates(s) == {"heard", "interrupted"} \union (IF life[s] < MaxLives THEN {"died"} ELSE {})

Outlived(s, fate) ==
  life' = IF fate = "died" THEN [life EXCEPT ![s] = @ + 1] ELSE life

\* NP_OPEN, the flags already found to make sense.  kind: what the engine
\* found at the path; done: whether its write_file or touch went through.
Open(s, t, uid, flags) ==
  /\ flags \intersect {"READ", "WRITE"} # {} /\ ("EXCL" \in flags => "CREATE" \in flags)
  /\ mounts[t] # Empty
  /\ \E kind \in {"Missing", "File", "Dir", "Err"}, done \in BOOLEAN, fate \in Fates(s) :
       LET m == mounts[t]
           writes == "TRUNC" \in flags \/ ("CREATE" \in flags /\ kind = "Missing")
           fs == Searched(fids)
           i == Min(Free(fs))
           opened == [fs EXCEPT ![i] = [used |-> TRUE, owner |-> Task(s), flags |-> flags, uid |-> uid,
                                        tree |-> t, dead |-> FALSE, mount |-> m.serial]]
       IN /\ ~(kind \in {"File", "Dir"} /\ "EXCL" \in flags)
          /\ ~(kind = "Dir" /\ open_changes(flags, FALSE))
          /\ ~OpenRefused(m, flags, kind)
          /\ Outlived(s, fate)
          /\ IF Free(fs) = {} \/ kind = "Err" \/ (kind = "Missing" /\ "CREATE" \notin flags) \/ (writes /\ ~done)
             THEN /\ fids' = fs
                  /\ changed' = IF writes /\ kind # "Err" /\ Free(fs) # {} THEN Changed(m) ELSE Nothing
                  /\ known' = IF fate = "died" THEN [known EXCEPT ![s] = {}] ELSE known
             ELSE /\ fids' = IF fate = "heard" THEN opened ELSE forget_unheard_fid(opened, i)
                  /\ changed' = IF writes THEN Changed(m) ELSE Nothing
                  /\ known' = CASE fate = "heard" -> [known EXCEPT ![s] = @ \union {i}]
                                [] fate = "died" -> [known EXCEPT ![s] = {}]
                                [] OTHER -> known
  /\ UNCHANGED <<device, disks, mounts, serial>>

\* handle_fid_op's checks that come before the verb's own: the fid is this
\* program's, and netd names the user it was opened for.
FidIs(s, i, who) ==
  /\ fids[i].used /\ fids[i].owner = Task(s)
  /\ s = NetTask => who = User(fids[i].uid)

Clunk(s, i, who) ==
  /\ FidIs(s, i, who)
  /\ fids' = [fids EXCEPT ![i] = Closed]
  /\ known' = [known EXCEPT ![s] = @ \ {i}]
  /\ changed' = Nothing /\ UNCHANGED <<device, disks, mounts, life, serial>>

\* NP_PWRITE; a read or a stat changes nothing here.
PWrite(s, i, who) ==
  /\ FidIs(s, i, who) /\ ~fids[i].dead /\ "WRITE" \in fids[i].flags
  /\ mounts[fids[i].tree] # Empty /\ ~ChangeRefused(mounts[fids[i].tree])
  /\ changed' = Changed(mounts[fids[i].tree])
  /\ UNCHANGED <<device, disks, mounts, fids, life, known, serial>>

\* A client exits or is killed, and another program has its slot.
Die(s) ==
  /\ life[s] < MaxLives
  /\ life' = [life EXCEPT ![s] = @ + 1]
  /\ known' = [known EXCEPT ![s] = {}]
  /\ changed' = Nothing /\ UNCHANGED <<device, disks, mounts, fids, serial>>

-----------------------------------------------------------------------------

AtBoot == [t \in Trees |-> IF t = PROC THEN [fs |-> "proc", held |-> FALSE, serial |-> 0] ELSE Empty]

\* main: one try at the disk the kernel found, and /proc.
Init ==
  /\ device \in Disks \union {"none"}
  /\ disks = OnDisk
  /\ serial = 0
  /\ \E view \in Seen(device) : mounts = try_mount(AtBoot, device, view, 0).mounts
  /\ changed = Nothing
  /\ fids = [i \in Fids |-> Closed]
  /\ life = [s \in Slots |-> 0]
  /\ known = [s \in Slots |-> {}]

\* A request of someone else's, or one check_access refuses, changes nothing.
Next ==
  \/ \E t \in Trees : ChangeByPath(t)
  \/ \E s \in Slots :
       \/ Die(s)
       \/ \E u \in UidsOf[s] :
            \/ \E who \in {DiskCaller(s, u)} :
                 Mount(who) \/ Unmount(who) \/ Prepare(who) \/ \E index \in 1..4 : MountAt(who, index)
            \/ \E t \in Trees, flags \in OpenFlags : Open(s, t, u, flags)
            \/ \E i \in Fids : Clunk(s, i, User(u)) \/ PWrite(s, i, User(u))

Spec == Init /\ [][Next]_vars

-----------------------------------------------------------------------------

\* Every mounted volume is on the disk the kernel has installed, and is still
\* the filesystem that was mounted; no two trees share a sector and none
\* reaches past the disk, whatever the partition table says, and whatever was
\* unmounted, replaced, partitioned, formatted and mounted before.
MountsAreSound ==
  \A t \in Trees : is_disk(mounts[t]) =>
    LET m == mounts[t]
    IN /\ m.disk = device
       /\ disks[device].volumes[m.start] = m.fs
       /\ m.start + m.bound <= disks[device].capacity
       /\ \A u \in Trees \ {t} : is_disk(mounts[u]) =>
            m.start + m.bound <= mounts[u].start \/ mounts[u].start + mounts[u].bound <= m.start

\* A program's open files are the fids it was told of, all of them and no
\* other: none is lost to an answer nobody heard or handed to the next
\* program; and a fid that is not dead leads to the mount it was opened on.
FidsAreTheirOpeners ==
  /\ \A s \in Slots : known[s] = {i \in Fids : fids[i].used /\ fids[i].owner = Task(s)}
  /\ \A i \in Fids : fids[i].used /\ ~fids[i].dead =>
       mounts[fids[i].tree] # Empty /\ mounts[fids[i].tree].serial = fids[i].mount

\* No request changes a file of a volume that is not mounted, is held
\* read-only by mount, or refuses changes itself.
OnlyWritableVolumesChange ==
  changed # Nothing =>
    \E t \in Trees : /\ is_disk(mounts[t]) /\ changed = <<mounts[t].disk, mounts[t].start>>
                      /\ ~mounts[t].held /\ mounts[t].fs # "exfatRO"
=============================================================================
