----------------------------- MODULE ShellState -----------------------------
(***************************************************************************)
(* The shell's namespace: its table of bindings, the commands that change  *)
(* it (bind, the forms of mount, unmount), cd, and resolve_ns, through     *)
(* which every path operation finds the server, the tree and the path it   *)
(* is about (a spawned program starts with a copy of the table).  The      *)
(* trees are the file server's; only which partition each holds matters    *)
(* here (the rest of that server is module FileServer).  A path is the     *)
(* sequence of its components; "." and ".." occur only in what is typed.   *)
(* The environment follows below.                                          *)
(***************************************************************************)
EXTENDS Integers, SequencesExt, FiniteSetsExt

CONSTANTS
  Typed,             \* the arguments that are typed: [abs |-> BOOLEAN, parts |-> sequence]
  Partitions,        \* the partitions of the disk that hold a filesystem
  PART_TREES,        \* fsd's trees for them are 1..PART_TREES; tree 0 is "/"
  Kinds,             \* the servers that are mounted by name: "proc", "con", "net"
  Endpoints,         \* the machines mount -r is given
  NS_ENTRIES,        \* how many bindings NS_MAX bytes hold
  MAX_COMPONENTS,
  MaxMounts          \* bound: mounts of tree 0

VARIABLES
  ns,       \* its bindings, oldest first
  cwd,      \* its working directory
  trees,    \* fsd: what each tree holds
  mounts,   \* how often "/" has been mounted
  foreign   \* somebody else let the trees go while it held bindings to them

vars == <<ns, cwd, trees, mounts, foreign>>

None == 0
Root == 9                                  \* what tree 0 holds
Trees == 0..PART_TREES
Local == [at |-> "fsd", tree |-> 0, host |-> 0]
Tree(t) == [Local EXCEPT !.tree = t]
Special(kind) == [Local EXCEPT !.at = kind]
Remote(ep) == [Local EXCEPT !.at = "remote", !.host = ep]

-----------------------------------------------------------------------------
(* Paths.                                                                   *)

Step(done, c) ==
  IF c = "." THEN done
  ELSE IF c = ".." THEN IF done = <<>> THEN done ELSE Front(done)
  ELSE Append(done, c)

\* normalize_path: the components in order, ".." taking back the last one.
normalize_path(parts) == FoldLeft(Step, <<>>, parts)

\* concat_path, then normalize_path; more than MAX_COMPONENTS is refused.
resolve_path(from, arg) == normalize_path(IF arg.abs THEN arg.parts ELSE from \o arg.parts)
TooLong(path) == Len(path) > MAX_COMPONENTS

-----------------------------------------------------------------------------
(* Resolution.                                                              *)

\* The path a binding makes of one under its prefix.
Through(b, path) == [to |-> b.to, path |-> b.target \o SubSeq(path, Len(b.prefix) + 1, Len(path))]

\* resolve_ns: the table is gone through once, a binding taken when it matches
\* and is longer than what was taken before; nothing taken is the local "/".
Unbound == [prefix |-> <<>>, to |-> Local, target |-> <<>>, part |-> None]
resolve_ns(table, path) ==
  LET Longer(best, b) ==
        IF IsPrefix(b.prefix, path) /\ Len(b.prefix) > Len(best.prefix) THEN b ELSE best
  IN Through(FoldLeft(Longer, Unbound, table), path)

\* Whether a local path operation has a volume to work on.
NoFs(table, path) ==
  LET r == resolve_ns(table, path) IN r.to.at = "fsd" /\ trees[r.to.tree] = None

-----------------------------------------------------------------------------
(* The commands.                                                            *)

Binding(prefix, to, target) ==
  [prefix |-> prefix, to |-> to, target |-> target,
   part |-> IF to.at = "fsd" THEN trees[to.tree] ELSE None]

\* ns_add: appended, unless the table is full.
ns_add(b) ==
  ns' = IF Len(ns) < NS_ENTRIES THEN Append(ns, b) ELSE ns

\* A typed path that may be bound: below "/", not too long.
Bindable(p) == p # <<>> /\ ~TooLong(p)

\* cmd_bind: newpath onto oldpath, within tree 0.
cmd_bind ==
  \E new, old \in Typed :
    LET n == resolve_path(cwd, new) o == resolve_path(cwd, old)
    IN /\ Bindable(n) /\ ~TooLong(o)
       /\ ns_add(Binding(n, Local, o))
       /\ UNCHANGED <<cwd, trees, mounts, foreign>>

\* cmd_mount_proc, cmd_mount_con, cmd_mount_net, cmd_mount_remote: a binding is all there is.
cmd_mount_special ==
  \E arg \in Typed, to \in {Special(k) : k \in Kinds} \union {Remote(e) : e \in Endpoints} :
    LET p == resolve_path(cwd, arg)
    IN /\ Bindable(p)
       /\ ns_add(Binding(p, to, <<>>))
       /\ UNCHANGED <<cwd, trees, mounts, foreign>>

\* fsd's answer to FSOP_MOUNT_AT: the tree the partition is in already, or a free one.
MountTree(part) ==
  LET there == {t \in 1..PART_TREES : trees[t] = part}
  IN IF there # {} THEN there
     ELSE {t \in 1..PART_TREES : trees[t] = None /\ \A u \in 1..(t - 1) : trees[u] # None}

\* cmd_mount_at: fsd mounts the partition first; a full table leaves it mounted.
cmd_mount_at ==
  \E arg \in Typed, part \in Partitions :
    LET p == resolve_path(cwd, arg)
    IN /\ Bindable(p) /\ trees[0] # None
       /\ \E t \in MountTree(part) :
            /\ trees' = [trees EXCEPT ![t] = part]
            /\ ns_add([Binding(p, Tree(t), <<>>) EXCEPT !.part = part])
       /\ UNCHANGED <<cwd, mounts, foreign>>

\* mount_disk (mount -a), or fsd's own mount when it starts.
mount_disk ==
  /\ trees[0] = None /\ mounts < MaxMounts
  /\ trees' = [trees EXCEPT ![0] = Root] /\ mounts' = mounts + 1
  /\ UNCHANGED <<ns, cwd, foreign>>

ToPartition(b) == b.to.at = "fsd" /\ b.to.tree # 0

\* ns_drop_partition_trees: what is bound to a partition's tree goes.
ns_drop_partition_trees(table) == SelectSeq(table, LAMBDA b : ~ToPartition(b))

Holding == \E i \in 1..Len(ns) : ToPartition(ns[i])

\* FSOP_UNMOUNT: every tree.
Unmounted == (\E t \in Trees : trees[t] # None) /\ trees' = [t \in Trees |-> None]

\* cmd_unmount: every tree, and this shell's own bindings to them.
cmd_unmount ==
  /\ Unmounted /\ ns' = ns_drop_partition_trees(ns)
  /\ foreign' = FALSE /\ UNCHANGED <<cwd, mounts>>

\* Another shell mounts a partition, or unmounts everything.
Elsewhere ==
  /\ \/ /\ trees[0] # None /\ UNCHANGED foreign
        /\ \E part \in Partitions : \E t \in MountTree(part) : trees' = [trees EXCEPT ![t] = part]
     \/ Unmounted /\ foreign' = (foreign \/ Holding)
  /\ UNCHANGED <<ns, cwd, mounts>>

\* cmd_cd: to a directory that answers a listing.
cmd_cd ==
  \E arg \in Typed :
    LET p == resolve_path(cwd, arg)
    IN /\ ~TooLong(p) /\ ~NoFs(ns, p)
       /\ cwd' = p
       /\ UNCHANGED <<ns, trees, mounts, foreign>>

\* fsd is restarted: its trees are gone, and it mounts "/" again by itself or not.
Restarted ==
  /\ mounts < MaxMounts
  /\ \E root \in {None, Root} : trees' = [t \in Trees |-> IF t = 0 THEN root ELSE None]
  /\ mounts' = mounts + 1
  /\ foreign' = (foreign \/ Holding)
  /\ UNCHANGED <<ns, cwd>>

Init ==
  /\ ns = <<>> /\ cwd = <<>> /\ mounts = 1 /\ foreign = FALSE
  /\ trees = [t \in Trees |-> IF t = 0 THEN Root ELSE None]

Next ==
  \/ cmd_bind \/ cmd_mount_special \/ cmd_mount_at \/ mount_disk \/ cmd_unmount \/ cmd_cd
  \/ Elsewhere \/ Restarted

Spec == Init /\ [][Next]_vars

-----------------------------------------------------------------------------

\* The partition a shell mounted at a path is the one its bindings reach: a
\* tree number is never left in its table to name another partition, unless
\* another shell's unmount or a restart of fsd took the trees from under it.
BindingsReachTheirPartition ==
  \A i \in 1..Len(ns) :
    (~foreign /\ ToPartition(ns[i])) => trees[ns[i].to.tree] = ns[i].part

\* Where a path leads is decided by the deepest binding it lies under, whatever
\* was bound around it before or after, and among bindings of the same path by
\* the oldest: a second bind or mount there has no effect (resolve_ns's one
\* pass over the table, in the order in which it was filled).
Matching(path) == {i \in 1..Len(ns) : IsPrefix(ns[i].prefix, path)}
Deepest(path) ==
  {i \in Matching(path) : \A j \in Matching(path) \ {i} :
     \/ Len(ns[j].prefix) < Len(ns[i].prefix)
     \/ ns[j].prefix = ns[i].prefix /\ i < j}
DeepestBindingDecides ==
  \A arg \in Typed : LET path == resolve_path(cwd, arg) IN
    /\ Matching(path) = {} => resolve_ns(ns, path) = [to |-> Local, path |-> path]
    /\ \A i \in Deepest(path) : resolve_ns(ns, path) = Through(ns[i], path)
    /\ Matching(path) # {} => Deepest(path) # {}

(***************************************************************************)
(* The shell's environment and what its children see of it: Env::set and   *)
(* unset on a table of MAX_ENV_VARS entries, serialize into the ENV_MAX    *)
(* bytes the kernel keeps for a child, and the child's getenv.  A name or  *)
(* a value is its length and identity; an entry costs four bytes, its name *)
(* and value and the "=" between them.                                     *)
(***************************************************************************)
CONSTANTS Names, Values, Size,   \* Size[x] for x in Names or Values
          MAX_ENV_VARS, ENV_NAME_SIZE, ENV_VALUE_SIZE, ENV_MAX, MaxSteps
VARIABLES env,     \* the table: a sequence of [name, val]
          warned,  \* warned_truncated
          child,   \* the environment of the last child, as it was staged
          told,    \* what the user has been told of this environment
          steps

envVars == <<env, warned, child, told, steps>>
Entry(n, v) == [name |-> n, val |-> v]
EnvInit == env = <<Entry("PATH", "bin")>> /\ warned = FALSE /\ child = <<>> /\ told = TRUE /\ steps = 0

Indices(table, name) == {i \in DOMAIN table : table[i].name = name}
EnvStep == steps < MaxSteps /\ steps' = steps + 1

\* An existing name is overwritten in place, a new one goes to the end.
set(table, name, val) ==
    IF Size[name] > ENV_NAME_SIZE \/ Size[val] > ENV_VALUE_SIZE THEN table
    ELSE IF Indices(table, name) # {}
      THEN [table EXCEPT ![CHOOSE i \in Indices(table, name) : TRUE].val = val]
    ELSE IF Len(table) >= MAX_ENV_VARS THEN table
    ELSE Append(table, Entry(name, val))
\* The last entry moves into the hole.
unset(table, name) ==
    IF Indices(table, name) = {} THEN table
    ELSE LET i == CHOOSE k \in Indices(table, name) : TRUE
         IN SubSeq([table EXCEPT ![i] = table[Len(table)]], 1, Len(table) - 1)

cmd_set == /\ EnvStep
           /\ \E n \in Names, v \in Values : env' = set(env, n, v)
           /\ warned' = FALSE /\ told' = FALSE /\ child' = <<>>
cmd_unset == /\ EnvStep
             /\ \E n \in Names : env' = unset(env, n)
             /\ warned' = FALSE /\ told' = FALSE /\ child' = <<>>

\* serialize stops at the first entry that does not fit.
Cost(e) == 4 + Size[e.name] + 1 + Size[e.val]
serialize(table) ==
    LET End[i \in Nat] == IF i = 0 THEN 4 ELSE End[i - 1] + Cost(table[i])
        n == CHOOSE k \in 0 .. Len(table) :
                End[k] <= ENV_MAX /\ (k < Len(table) => End[k + 1] > ENV_MAX)
    IN SubSeq(table, 1, n)
\* spawn_path's staging of the environment: the kernel takes it, or refuses it
\* and the shell says so; a cut environment is said once.
Says(staged) == staged < Len(env) /\ ~warned
Spawn ==
    /\ EnvStep
    /\ \E staged \in {serialize(env)} :
         \/ /\ staged = <<>> /\ child' = <<>> /\ told' = (told \/ env = <<>>)
            /\ UNCHANGED warned
         \/ /\ staged # <<>>
            /\ child' = staged
            /\ warned' = (warned \/ Len(staged) < Len(env))
            /\ told' = (told \/ Says(Len(staged)))
         \/ /\ staged # <<>>
            /\ child' = <<>> /\ told' = TRUE /\ UNCHANGED warned
    /\ UNCHANGED env

\* A child asks for a name: the first entry with it.
getenv(table, name) ==
    IF Indices(table, name) = {} THEN "unset"
    ELSE table[CHOOSE i \in Indices(table, name) : \A j \in Indices(table, name) : i <= j].val

EnvNext == cmd_set \/ cmd_unset \/ Spawn
EnvSpec == EnvInit /\ [][EnvNext]_vars

\* A child sees every variable as the shell has it, one value per name; a
\* variable it does not see is one the shell has said it could not pass.
ChildSeesTheEnvironment ==
    /\ \A i, j \in DOMAIN env : env[i].name = env[j].name => i = j
    /\ child # <<>> =>
         \A n \in Names : \/ getenv(child, n) = getenv(env, n)
                          \/ getenv(child, n) = "unset" /\ told
=============================================================================
