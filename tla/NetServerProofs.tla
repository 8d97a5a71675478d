--------------------------- MODULE NetServerProofs ---------------------------
(***************************************************************************)
(* Three things the network server promises, each a machine of its own.    *)
(* The keys it holds stay their owners', for any number of tasks, users    *)
(* and key slots: an owner is a slot and a generation, so a task that      *)
(* starts in a dead owner's slot owns nothing of its keys.  What it serves *)
(* is never more than the files of its export say, whichever of them could *)
(* not be read.  A fetch hands back the beginning of the page, for any     *)
(* page and any buffer.                                                    *)
(***************************************************************************)
EXTENDS HeldKeys, Sequences, TLAPS, FiniteSetTheorems, WellFoundedInduction, NaturalsInduction

\* Every leaf is given a minute; nearly all take a second or two.
USE SMTT(60), ZenonT(60)

-----------------------------------------------------------------------------
\* Held keys.

Keys == [held : {TRUE}, uid : Uids, owner : TaskSlots \X Nat]
KeyTables == [Handles -> {NoKey} \union Keys]

OneEach(s) ==
  \A h, g \in Handles : s[h].held /\ s[g].held /\ s[h].owner = s[g].owner => h = g
Living(s) == \A h \in Handles : s[h].held => s[h].owner \in Ids
Listed(s) == {s[h].uid : h \in {g \in Handles : told.verdict = "list" /\ s[g].held}}

\* The inductive invariant: KeysAreTheirs, with one key for each owner that
\* ever ran rather than for the tasks of now.
KeysInv ==
  /\ slots \in KeyTables
  /\ tasks \in [TaskSlots -> [gen : Nat, live : BOOLEAN, uid : Uids]]
  /\ ~robbed
  /\ OneEach(slots)
  /\ told.verdict = "full" => Living(slots) /\ Free(slots) = {}
  /\ told.verdict = "list" => Living(slots)
  /\ told.uids = Listed(slots)

\* A key is held or it is not.
LEMMA KeyShape ==
  /\ ~NoKey.held
  /\ \A k \in Keys : k.held /\ k.owner \in TaskSlots \X Nat
BY ZenonT(60) DEF NoKey, Keys

\* reap_dead leaves the keys of the tasks that run, and no others.
LEMMA ReapFacts ==
  ASSUME NEW s \in KeyTables, OneEach(s)
  PROVE  /\ reap_dead(s) \in KeyTables
         /\ OneEach(reap_dead(s))
         /\ Living(reap_dead(s))
<1> DEFINE r == reap_dead(s)
<1>1. \A h \in Handles : s[h] \in {NoKey} \union Keys
  BY DEF KeyTables
<1>2. \A h \in Handles : r[h] = IF s[h].held /\ s[h].owner \in Ids THEN s[h] ELSE NoKey
  BY DEF reap_dead, alive
<1>3. r \in [Handles -> {NoKey} \union Keys]
  BY <1>1 DEF reap_dead
<1> HIDE DEF r
<1>4. \A h \in Handles : r[h].held => r[h] = s[h] /\ s[h].held /\ s[h].owner \in Ids
  BY <1>2, KeyShape
<1>5. OneEach(r)
  BY <1>4 DEF OneEach
<1>6. Living(r)
  BY <1>4 DEF Living
<1> QED
  BY <1>3, <1>5, <1>6 DEF KeyTables, r

\* drop_mine leaves every other owner's key, and none of this owner's.
LEMMA DropFacts ==
  ASSUME NEW s \in KeyTables, OneEach(s), NEW owner
  PROVE  /\ drop_mine(s, owner) \in KeyTables
         /\ OneEach(drop_mine(s, owner))
         /\ \A h \in Handles : drop_mine(s, owner)[h].held =>
              /\ drop_mine(s, owner)[h] = s[h]
              /\ s[h].held /\ s[h].owner # owner
<1> DEFINE r == drop_mine(s, owner)
<1>1. \A h \in Handles : s[h] \in {NoKey} \union Keys
  BY DEF KeyTables
<1>2. \A h \in Handles : r[h] = IF s[h].held /\ s[h].owner = owner THEN NoKey ELSE s[h]
  BY DEF drop_mine, OwnedBy
<1>3. r \in [Handles -> {NoKey} \union Keys]
  BY <1>1 DEF drop_mine
<1> HIDE DEF r
<1>4. \A h \in Handles : r[h].held => r[h] = s[h] /\ s[h].held /\ s[h].owner # owner
  BY <1>2, KeyShape
<1>5. OneEach(r)
  BY <1>4 DEF OneEach
<1> QED
  BY <1>3, <1>4, <1>5 DEF KeyTables, r

\* A non-empty set of handles has a least.
LEMMA LeastHandle ==
  ASSUME NEW S \in SUBSET Handles, S # {}
  PROVE  Min(S) \in S
<1>0. S \subseteq Nat
  BY DEF Handles
<1>1. IsWellFoundedOn(OpToRel(<, Nat), Nat)
  BY ZenonT(60), NatLessThanWellFounded
<1>2. \E x \in S : \A y \in S : ~ (<<y, x>> \in OpToRel(<, Nat))
  BY <1>0, <1>1, WFMin, ZenonT(60)
<1>3. PICK x \in S : \A y \in S : ~ (y < x)
  BY ZenonT(60), <1>0, <1>2 DEF OpToRel
<1>4. \A y \in S : x <= y
  BY <1>0, <1>3
<1> QED
  BY <1>4 DEF Min

\* NETOP_KEY_HOLD: the owner's new key is its only one; a full table is full
\* of the keys of tasks that run.
LEMMA HoldKeeps ==
  ASSUME KeysInv, NEW t \in TaskSlots, NEW uid \in Uids, NETOP_KEY_HOLD(t, uid)
  PROVE  KeysInv'
<1> DEFINE me == <<t, tasks[t].gen>>
           r == reap_dead(slots)
           s == drop_mine(r, me)
<1>0. /\ slots \in KeyTables /\ OneEach(slots) /\ ~robbed
      /\ tasks \in [TaskSlots -> [gen : Nat, live : BOOLEAN, uid : Uids]]
  BY DEF KeysInv
<1>1. tasks' = tasks /\ robbed' = robbed
  BY DEF NETOP_KEY_HOLD
<1>i. Ids' = Ids
  BY <1>1 DEF Ids
<1>2. r \in KeyTables /\ OneEach(r) /\ Living(r)
  BY <1>0, ReapFacts
<1>3. CASE tasks[t].uid # Root
  <2>1. slots' = r /\ told' = [verdict |-> "denied", uids |-> {}]
    BY <1>3 DEF NETOP_KEY_HOLD, Told
  <2> HIDE DEF r
  <2>2. told'.uids = Listed(slots)'
    BY <2>1 DEF Listed
  <2> QED
    BY <1>0, <1>1, <1>2, <2>1, <2>2 DEF KeysInv, OneEach, Living
<1>4. CASE tasks[t].uid = Root
  <2>1. hold(s, uid, me)
    BY <1>4 DEF NETOP_KEY_HOLD
  <2> HIDE DEF r
  <2>2. s \in KeyTables /\ OneEach(s)
    BY <1>2, DropFacts
  <2>3. \A h \in Handles : s[h].held => s[h] = r[h] /\ r[h].held /\ s[h].owner # me
    BY <1>2, DropFacts
  <2>4. Living(s)
    BY <1>2, <2>3 DEF Living
  <2> HIDE DEF s
  <2>5. CASE Free(s) = {}
    <3>1. slots' = s /\ told' = [verdict |-> "full", uids |-> {}]
      BY <2>1, <2>5 DEF hold, Told
    <3>2. told'.uids = Listed(slots)'
      BY <3>1 DEF Listed
    <3>3. Living(slots)' /\ OneEach(slots)' /\ (Free(slots) = {})'
      BY <1>i, <2>2, <2>4, <2>5, <3>1 DEF Living, OneEach, Free
    <3> QED
      BY <1>0, <1>1, <2>2, <3>1, <3>2, <3>3 DEF KeysInv
  <2>6. CASE Free(s) # {}
    <3> DEFINE m == Min(Free(s))
               key == [held |-> TRUE, uid |-> uid, owner |-> me]
    <3>1. slots' = [s EXCEPT ![m] = key] /\ told' = [verdict |-> "ok", uids |-> {}]
      BY <2>1, <2>6 DEF hold, Told
    <3>2. m \in Handles
      BY <2>6, LeastHandle DEF Free
    <3>3. key \in Keys /\ key.owner = me
      <4>1. tasks[t].gen \in Nat
        BY <1>0
      <4> QED
        BY <4>1 DEF Keys
    <3> HIDE DEF m, key
    <3>4. slots' \in KeyTables
      BY <2>2, <3>1, <3>2, <3>3 DEF KeyTables
    <3>5. \A h \in Handles : slots'[h] = IF h = m THEN key ELSE s[h]
      BY <2>2, <3>1, <3>2 DEF KeyTables
    <3>6. OneEach(slots)'
      <4> SUFFICES ASSUME NEW h \in Handles, NEW g \in Handles, slots'[h].held, slots'[g].held,
                          slots'[h].owner = slots'[g].owner
                   PROVE  h = g
        BY DEF OneEach
      <4>1. h # m => s[h].owner # me /\ s[h].held /\ slots'[h] = s[h]
        BY <2>3, <3>5
      <4>2. g # m => s[g].owner # me /\ s[g].held /\ slots'[g] = s[g]
        BY <2>3, <3>5
      <4>3. slots'[m].owner = me
        BY <3>2, <3>3, <3>5
      <4> QED
        BY <2>2, <4>1, <4>2, <4>3 DEF OneEach
    <3>7. told'.uids = Listed(slots)'
      BY <3>1 DEF Listed
    <3> QED
      BY ZenonT(60), <1>0, <1>1, <3>1, <3>4, <3>6, <3>7 DEF KeysInv
  <2> QED
    BY <2>5, <2>6
<1> QED
  BY <1>3, <1>4

\* NETOP_KEY_DROP: only the owner or root.
LEMMA DropKeeps ==
  ASSUME KeysInv, NEW t \in TaskSlots, NEW h \in Handles, NETOP_KEY_DROP(t, h)
  PROVE  KeysInv'
<1>0. /\ slots \in KeyTables /\ OneEach(slots) /\ ~robbed
      /\ tasks \in [TaskSlots -> [gen : Nat, live : BOOLEAN, uid : Uids]]
  BY DEF KeysInv
<1>1. tasks' = tasks /\ drop_handle(t, h)
  BY DEF NETOP_KEY_DROP
<1>2. CASE ~slots[h].held \/ ~MayDrop(t, slots[h])
  <2>1. /\ slots' = slots /\ robbed' = robbed
        /\ told' \in {[verdict |-> "not_held", uids |-> {}], [verdict |-> "denied", uids |-> {}]}
    BY <1>1, <1>2 DEF drop_handle, Told
  <2>2. told'.uids = Listed(slots)'
    BY <2>1 DEF Listed
  <2> QED
    BY <1>0, <1>1, <2>1, <2>2 DEF KeysInv, OneEach
<1>3. CASE slots[h].held /\ MayDrop(t, slots[h])
  <2>1. /\ slots' = [slots EXCEPT ![h] = NoKey]
        /\ robbed' = (robbed \/ (/\ slots[h].owner \in Ids \ {<<t, tasks[t].gen>>}
                                 /\ tasks[t].uid # Root))
        /\ told' = [verdict |-> "ok", uids |-> {}]
    BY <1>1, <1>3 DEF drop_handle, Told
  <2>2. ~robbed'
    BY ZenonT(60), <1>0, <1>3, <2>1 DEF MayDrop
  <2>3. /\ slots' \in KeyTables
        /\ \A g \in Handles : slots'[g] = IF g = h THEN NoKey ELSE slots[g]
    BY <1>0, <2>1 DEF KeyTables
  <2>4. OneEach(slots)'
    BY <1>0, <2>3, KeyShape DEF OneEach
  <2>5. told'.uids = Listed(slots)'
    BY <2>1 DEF Listed
  <2> QED
    BY ZenonT(60), <1>0, <1>1, <2>1, <2>2, <2>3, <2>4, <2>5 DEF KeysInv
<1> QED
  BY <1>2, <1>3

\* The reapings, the drop of one's own keys, and the comings and goings of
\* tasks: a list is made of the keys of tasks that run.
LEMMA OthersKeep ==
  ASSUME KeysInv,
         \/ serve_reaps
         \/ \E t \in TaskSlots : NETOP_KEY_DROP_MINE(t) \/ NETOP_KEY_LIST(t) \/ TaskEnds(t)
         \/ \E t \in TaskSlots, uid \in Uids : TaskStarts(t, uid)
  PROVE  KeysInv'
<1> DEFINE r == reap_dead(slots)
<1>0. /\ slots \in KeyTables /\ OneEach(slots) /\ ~robbed
      /\ tasks \in [TaskSlots -> [gen : Nat, live : BOOLEAN, uid : Uids]]
  BY DEF KeysInv
<1>1. r \in KeyTables /\ OneEach(r) /\ Living(r)
  BY <1>0, ReapFacts
<1>2. robbed' = robbed
  BY ZenonT(60) DEF serve_reaps, NETOP_KEY_DROP_MINE, NETOP_KEY_LIST, TaskEnds, TaskStarts
<1>3. ASSUME told'.verdict \notin {"full", "list"}, told'.uids = {}, slots' \in KeyTables,
             OneEach(slots'),
             tasks' \in [TaskSlots -> [gen : Nat, live : BOOLEAN, uid : Uids]]
      PROVE  KeysInv'
  <2>1. told'.uids = Listed(slots)'
    BY <1>3 DEF Listed
  <2> QED
    BY <1>0, <1>2, <1>3, <2>1 DEF KeysInv, OneEach
<1>4. CASE serve_reaps
  <2>1. slots' = r /\ told' = [verdict |-> "none", uids |-> {}] /\ tasks' = tasks
    BY <1>4 DEF serve_reaps, Told
  <2> HIDE DEF r
  <2> QED
    BY <1>0, <1>1, <1>3, <2>1
<1>5. ASSUME NEW t \in TaskSlots, NETOP_KEY_DROP_MINE(t) PROVE KeysInv'
  <2>1. /\ slots' = drop_mine(slots, <<t, tasks[t].gen>>)
        /\ told' = [verdict |-> "ok", uids |-> {}] /\ tasks' = tasks
    BY <1>5 DEF NETOP_KEY_DROP_MINE, Told
  <2>2. slots' \in KeyTables /\ OneEach(slots')
    BY <1>0, <2>1, DropFacts
  <2> QED
    BY <1>0, <1>3, <2>1, <2>2
<1>6. ASSUME NEW t \in TaskSlots, NETOP_KEY_LIST(t) PROVE KeysInv'
  <2>1. slots' = r /\ tasks' = tasks
    BY <1>6 DEF NETOP_KEY_LIST
  <2>2. CASE tasks[t].uid # Root
    <3>1. told' = [verdict |-> "denied", uids |-> {}]
      BY <1>6, <2>2 DEF NETOP_KEY_LIST, Told
    <3> HIDE DEF r
    <3> QED
      BY <1>0, <1>1, <1>3, <2>1, <3>1
  <2>3. CASE tasks[t].uid = Root
    <3>1. told' = [verdict |-> "list", uids |-> uids(r)]
      BY <1>6, <2>3 DEF NETOP_KEY_LIST, Told
    <3> HIDE DEF r
    <3>2. uids(r) = {r[h].uid : h \in {g \in Handles : r[g].held}}
      BY DEF uids, Free
    <3>3. told'.uids = Listed(slots)'
      BY <2>1, <3>1, <3>2 DEF Listed
    <3>4. Ids' = Ids
      BY <2>1 DEF Ids
    <3>5. Living(slots)' /\ OneEach(slots)'
      BY <1>1, <2>1, <3>4 DEF Living, OneEach
    <3> QED
      BY <1>0, <1>1, <1>2, <2>1, <3>1, <3>3, <3>5 DEF KeysInv
  <2> QED
    BY <2>2, <2>3
<1>7. ASSUME NEW t \in TaskSlots, TaskEnds(t) PROVE KeysInv'
  <2>1. /\ tasks' = [tasks EXCEPT ![t].live = FALSE] /\ slots' = slots
        /\ told' = [verdict |-> "none", uids |-> {}]
    BY <1>7 DEF TaskEnds, Told
  <2>2. tasks' \in [TaskSlots -> [gen : Nat, live : BOOLEAN, uid : Uids]]
    BY ZenonT(60), <1>0, <2>1
  <2> QED
    BY <1>0, <1>3, <2>1, <2>2
<1>8. ASSUME NEW t \in TaskSlots, NEW uid \in Uids, TaskStarts(t, uid) PROVE KeysInv'
  <2>1. /\ tasks' = [tasks EXCEPT ![t] = [gen |-> tasks[t].gen + 1, live |-> TRUE, uid |-> uid]]
        /\ slots' = slots /\ told' = [verdict |-> "none", uids |-> {}]
    BY <1>8 DEF TaskStarts, Told
  <2>2. tasks[t].gen + 1 \in Nat
    BY <1>0
  <2>3. [gen |-> tasks[t].gen + 1, live |-> TRUE, uid |-> uid]
          \in [gen : Nat, live : BOOLEAN, uid : Uids]
    BY <2>2
  <2>4. tasks' \in [TaskSlots -> [gen : Nat, live : BOOLEAN, uid : Uids]]
    BY <1>0, <2>1, <2>3
  <2> QED
    BY <1>0, <1>3, <2>1, <2>4
<1> QED
  BY <1>4, <1>5, <1>6, <1>7, <1>8

\* What netd holds for a user stays that user's, for any number of keys, tasks
\* and users, whatever tasks end and start in the slots of others.
THEOREM KeysStayTheirs == Spec => []KeysAreTheirs
<1>1. Init => KeysInv
  <2> SUFFICES ASSUME Init PROVE KeysInv
    OBVIOUS
  <2>1. slots \in KeyTables /\ \A h \in Handles : slots[h] = NoKey
    BY DEF Init, KeyTables
  <2>2. tasks \in [TaskSlots -> [gen : Nat, live : BOOLEAN, uid : Uids]]
    <3> DEFINE First == {[gen |-> 1, live |-> TRUE, uid |-> u] : u \in Uids}
    <3>1. tasks \in [TaskSlots -> First]
      BY DEF Init
    <3>2. First \subseteq [gen : Nat, live : BOOLEAN, uid : Uids]
      <4>1. 1 \in Nat
        OBVIOUS
      <4>2. \A u \in Uids : [gen |-> 1, live |-> TRUE, uid |-> u]
                              \in [gen : Nat, live : BOOLEAN, uid : Uids]
        BY <4>1
      <4> QED
        BY ZenonT(60), <4>2
    <3> HIDE DEF First
    <3> QED
      BY <3>1, <3>2
  <2>3. told = [verdict |-> "none", uids |-> {}] /\ robbed = FALSE
    BY DEF Init
  <2>4. OneEach(slots)
    BY <2>1, KeyShape DEF OneEach
  <2>5. told.uids = Listed(slots)
    BY <2>3 DEF Listed
  <2> QED
    BY <2>1, <2>2, <2>3, <2>4, <2>5 DEF KeysInv
<1>2. KeysInv /\ [Next]_vars => KeysInv'
  <2> SUFFICES ASSUME KeysInv, [Next]_vars PROVE KeysInv'
    OBVIOUS
  <2>1. CASE UNCHANGED vars
    BY <2>1 DEF vars, KeysInv, OneEach, Living, Free, Listed, Ids
  <2>2. CASE Next
    BY <2>2, HoldKeeps, DropKeeps, OthersKeep DEF Next
  <2> QED
    BY <2>1, <2>2
<1>3. KeysInv => KeysAreTheirs
  <2> SUFFICES ASSUME KeysInv PROVE KeysAreTheirs
    OBVIOUS
  <2>1. ASSUME NEW t \in TaskSlots
        PROVE  Cardinality(OwnedBy(slots, <<t, tasks[t].gen>>)) <= 1
    <3> DEFINE O == OwnedBy(slots, <<t, tasks[t].gen>>)
    <3>1. \A h, g \in O : h = g
      BY DEF KeysInv, OneEach, OwnedBy
    <3> HIDE DEF O
    <3>2. O = {} \/ \E h : O = {h}
      BY <3>1
    <3>3. Cardinality(O) \in {0, 1}
      BY <3>2, FS_EmptySet, FS_Singleton
    <3> QED
      BY <3>3 DEF O
  <2>2. told.verdict = "full" => \A h \in Handles : slots[h].held /\ slots[h].owner \in Ids
    BY DEF KeysInv, Living, Free
  <2>3. told.uids = {slots[h].uid : h \in {g \in Handles : told.verdict = "list" /\ slots[g].held}}
    BY DEF KeysInv, Listed
  <2> QED
    BY <2>1, <2>2, <2>3 DEF KeysAreTheirs, KeysInv, Living
<1> QED
  BY <1>1, <1>2, <1>3, PTL DEF Spec

-----------------------------------------------------------------------------
\* The files of the export.

CONSTANTS Peers, Names, Budget
VARIABLES disk, step, budget, auth, served
Auth == INSTANCE NetAuth

\* What netd believes of the files, once it has read them, is never more than
\* they say: a read that failed for good counts as the file that closes.
Trust ==
  /\ step \in {"noexec", "id", "authorized", "serving"}
  /\ auth \in [noexec : BOOLEAN, signing : BOOLEAN, authorized : [Peers -> {"absent", "plain", "root"}]]
  /\ step # "noexec" /\ disk.noexec => auth.noexec
  /\ auth.signing => disk.id = "key"
  /\ \A p \in Peers : auth.authorized[p] \in {"absent", disk.authorized[p]}

AuthInv ==
  /\ disk \in [noexec : {TRUE, FALSE}, id : {"absent", "empty", "junk", "key"},
               authorized : [Peers -> {"absent", "plain", "root"}]]
  /\ Trust
  /\ Auth!FailsClosed

\* Reading the files keeps what is believed within what they say.
LEMMA LoadTrusts ==
  ASSUME AuthInv, Auth!load_auth
  PROVE  AuthInv'
<1>d. disk' = disk /\ served' = served
  BY DEF Auth!load_auth, Auth!load_noexec, Auth!load_id, Auth!load_authorized, Auth!transient_fs_failure
<1>1. CASE step' = step /\ auth' = auth
  BY ZenonT(60), <1>1, <1>d DEF AuthInv, Trust, Auth!FailsClosed
<1>2. ASSUME ~(step' = step /\ auth' = auth)
      PROVE  Trust'
  <2>1. CASE step = "noexec" /\ Auth!load_noexec
    <3>1. PICK read \in {"failed", IF disk.noexec THEN "there" ELSE "not_found"} :
            step' = "id" /\ auth' = [auth EXCEPT !.noexec = Auth!noexec(read)]
      BY <1>2, <2>1 DEF Auth!load_noexec, Auth!transient_fs_failure
    <3>2. disk.noexec => Auth!noexec(read)
      BY DEF Auth!noexec
    <3>3. Auth!noexec(read) \in BOOLEAN
      BY DEF Auth!noexec
    <3> QED BY <2>1, <3>1, <3>2, <3>3, <1>d DEF AuthInv, Trust
  <2>2. CASE step = "id" /\ Auth!load_id
    <3>1. PICK read \in {"failed", disk.id} :
            step' = "authorized" /\ auth' = [auth EXCEPT !.signing = read = "key"]
      BY <1>2, <2>2 DEF Auth!load_id, Auth!transient_fs_failure
    <3> QED BY ZenonT(60), <2>2, <3>1, <1>d DEF AuthInv, Trust
  <2>3. CASE step = "authorized" /\ Auth!load_authorized
    <3>1. step' = "serving" /\ (auth' = auth \/ auth' = [auth EXCEPT !.authorized = disk.authorized])
      BY <1>2, <2>3 DEF Auth!load_authorized, Auth!transient_fs_failure
    <3> QED BY <2>3, <3>1, <1>d DEF AuthInv, Trust
  <2> QED BY <2>1, <2>2, <2>3 DEF Auth!load_auth
<1>3. CASE ~(step' = step /\ auth' = auth)
  BY ZenonT(60), <1>2, <1>3, <1>d DEF AuthInv, Auth!FailsClosed
<1> QED BY <1>1, <1>3

\* A request served is served on what is believed.
LEMMA ServeCloses ==
  ASSUME AuthInv, Auth!Serve
  PROVE  AuthInv'
<1>1. disk' = disk /\ step' = step /\ auth' = auth /\ step = "serving"
  BY DEF Auth!Serve
<1>2. PICK f \in Auth!Frames, scan \in Auth!Scans :
        served' = [frame |-> f, scan |-> scan, verdict |-> Auth!Verdict(f, scan)]
  BY DEF Auth!Serve
<1>3. ASSUME Auth!Verdict(f, scan) = "ok"
      PROVE  /\ auth.signing /\ auth.authorized[f.key] # "absent" /\ f.verifies
             /\ scan = "Found"
             /\ f.name = "root" => auth.authorized[f.key] = "root"
             /\ f.verb = "run" => ~auth.noexec
  <2>1. Auth!authenticate(f) /\ Auth!map_user(f, scan) = "ok" /\ (f.verb = "run" => ~auth.noexec)
    BY <1>3 DEF Auth!Verdict
  <2>2. scan = "Found" /\ ~Auth!RootSquash(f)
    BY <2>1 DEF Auth!map_user, Auth!Scans
  <2> QED BY <2>1, <2>2 DEF Auth!authenticate, Auth!authenticate_signed, Auth!accepts_signed,
                            Auth!find_by_key, Auth!RootSquash
<1>4. f.key \in Peers
  BY DEF Auth!Frames
<1>5. (Auth!FailsClosed)'
  <2>1. served'.frame = f /\ served'.scan = scan /\ served'.verdict = Auth!Verdict(f, scan)
    BY <1>2
  <2>2. ASSUME Auth!Verdict(f, scan) = "ok"
        PROVE  /\ f.verb = "run" => ~disk.noexec
               /\ disk.id = "key" /\ disk.authorized[f.key] # "absent" /\ f.verifies
               /\ scan = "Found"
               /\ f.name = "root" => disk.authorized[f.key] = "root"
    BY <1>1, <1>3, <1>4, <2>2 DEF AuthInv, Trust
  <2> QED BY <1>1, <2>1, <2>2 DEF Auth!FailsClosed
<1> QED BY ZenonT(60), <1>1, <1>5 DEF AuthInv, Trust

\* Whichever of the three files could not be read, however often it was
\* retried and whatever is asked, netd serves a request only to a listed peer
\* whose signature verifies, root's only where the peer's line says so, and
\* a program's only without /NOEXEC (load_auth, authenticate_signed, map_user).
THEOREM FailuresClose == Auth!Spec => []Auth!FailsClosed
<1>1. Auth!Init => AuthInv
  <2> SUFFICES ASSUME Auth!Init PROVE AuthInv
    OBVIOUS
  <2>1. Trust
    BY DEF Auth!Init, Trust
  <2>2. Auth!FailsClosed
    BY ZenonT(60) DEF Auth!Init, Auth!FailsClosed
  <2>3. disk \in [noexec : {TRUE, FALSE}, id : {"absent", "empty", "junk", "key"},
                  authorized : [Peers -> {"absent", "plain", "root"}]]
    BY ZenonT(60) DEF Auth!Init
  <2> QED BY ZenonT(60), <2>1, <2>2, <2>3 DEF AuthInv
<1>2. AuthInv /\ [Auth!Next]_(Auth!vars) => AuthInv'
  <2> SUFFICES ASSUME AuthInv, [Auth!Next]_(Auth!vars) PROVE AuthInv'
    OBVIOUS
  <2>1. CASE UNCHANGED Auth!vars
    BY ZenonT(60), <2>1 DEF AuthInv, Trust, Auth!FailsClosed, Auth!vars
  <2> QED BY <2>1, LoadTrusts, ServeCloses DEF Auth!Next
<1>3. AuthInv => Auth!FailsClosed
  BY DEF AuthInv
<1> QED BY <1>1, <1>2, <1>3, PTL DEF Auth!Spec

-----------------------------------------------------------------------------
\* Fetching a page.

CONSTANTS SYN_TRIES, SYN_WAIT_TICKS, Patience, RespMax, PageLen, FetchSegs, MaxRequests
VARIABLES op, stage, waited, tries, rcv_nxt, resp, fin, answer, made
Fetch == INSTANCE NetFetch WITH Segs <- FetchSegs

\* A page and a buffer of some length, segments of any lengths.
FetchConstants == RespMax \in Nat \ {0} /\ PageLen \in Nat /\ FetchSegs \subseteq Nat

\* The first units of the page, as many as fit.
PageSoFar(r) ==
  /\ r \in Seq(Nat) /\ Len(r) <= RespMax /\ Len(r) <= PageLen
  /\ \A k \in 1 .. Len(r) : r[k] = k

\* The inductive invariant: besides the property, what has been taken is what
\* rcv_nxt says, as long as the buffer has room, a FIN counting for one.
FetchInv ==
  /\ stage \in {"idle", "arp", "echo", "dns", "hop", "syn", "body"}
  /\ PageSoFar(resp)
  /\ stage # "idle" => answer = "none"
  /\ stage = "echo" => op = "ping"
  /\ stage \in {"hop", "syn", "body"} => op = "fetch"
  /\ stage \in {"arp", "echo", "dns", "hop", "syn"} => resp = <<>>
  /\ stage = "body" => rcv_nxt = Len(resp) + 1 /\ Len(resp) < RespMax
  /\ fin => stage = "idle" /\ (rcv_nxt = Len(resp) + 2 \/ Len(resp) = RespMax)

\* Two sequences, one after the other.
LEMMA Joined ==
  ASSUME NEW a \in Seq(Nat), NEW b \in Seq(Nat)
  PROVE  /\ a \o b \in Seq(Nat) /\ Len(a \o b) = Len(a) + Len(b)
         /\ \A k \in 1 .. Len(a \o b) :
              (a \o b)[k] = IF k <= Len(a) THEN a[k] ELSE b[k - Len(a)]
OBVIOUS

\* The first m elements of a sequence.
LEMMA Beginning ==
  ASSUME NEW a \in Seq(Nat), NEW m \in 0 .. Len(a)
  PROVE  /\ SubSeq(a, 1, m) \in Seq(Nat) /\ Len(SubSeq(a, 1, m)) = m
         /\ \A k \in 1 .. m : SubSeq(a, 1, m)[k] = a[k]
OBVIOUS

\* A segment in order adds the units that come next, as many as there is room
\* for.
LEMMA SegmentTaken ==
  ASSUME FetchConstants, PageSoFar(resp), NEW seg \in Fetch!Segments,
         rcv_nxt = Len(resp) + 1, Len(resp) < RespMax, Fetch!InOrder(seg)
  PROVE  /\ PageSoFar(resp \o Fetch!Takes(seg))
         /\ Len(resp \o Fetch!Takes(seg)) < RespMax =>
              rcv_nxt + Len(seg.data) = Len(resp \o Fetch!Takes(seg)) + 1
<1>1. PICK s \in 1 .. (PageLen + 1), n \in FetchSegs, f \in BOOLEAN :
        seg = [seq |-> s, data |-> [k \in 1 .. n |-> s + k - 1], fin |-> f]
  BY DEF Fetch!Segments
<1>a. seg.seq + Len(seg.data) <= PageLen + 1
  BY DEF Fetch!Segments
<1> DEFINE d == [k \in 1 .. n |-> s + k - 1]
<1>3. seg.data = d /\ seg.seq = s
  BY <1>1
<1>2. n \in Nat \ {0} /\ s \in Nat \ {0} /\ PageLen \in Nat /\ RespMax \in Nat
  <2>1. n \in Nat /\ s \in Nat \ {0} /\ PageLen \in Nat /\ RespMax \in Nat
    BY <1>1 DEF FetchConstants
  <2>2. n = 0 => d = <<>>
    BY <2>1
  <2> QED BY <2>1, <2>2, <1>3 DEF Fetch!InOrder
<1>4. d \in Seq(Nat) /\ Len(d) = n /\ \A k \in 1 .. n : d[k] = s + k - 1
  BY <1>2
<1> HIDE DEF d
<1>5. s = Len(resp) + 1 /\ s + n <= PageLen + 1
  BY <1>3, <1>4, <1>a DEF Fetch!InOrder
<1>r. resp \in Seq(Nat) /\ Len(resp) \in Nat /\ \A k \in 1 .. Len(resp) : resp[k] = k
  BY DEF PageSoFar
<1> DEFINE m == IF n <= RespMax - Len(resp) THEN n ELSE RespMax - Len(resp)
<1>6. m \in Nat /\ 1 <= m /\ m <= n /\ Len(resp) + m <= RespMax
      /\ (Len(resp) + m < RespMax => m = n)
  BY <1>2, <1>r
<1>7. Fetch!Takes(seg) = SubSeq(d, 1, m)
  BY ZenonT(60), <1>3, <1>4 DEF Fetch!Takes
<1> HIDE DEF m
<1> DEFINE t == SubSeq(d, 1, m)
<1>8. t \in Seq(Nat) /\ Len(t) = m /\ \A k \in 1 .. m : t[k] = s + k - 1
  <2>1. m \in 0 .. Len(d)
    BY <1>2, <1>4, <1>6
  <2>2. t \in Seq(Nat) /\ Len(t) = m /\ \A k \in 1 .. m : t[k] = d[k]
    BY ZenonT(60), <1>4, <2>1, Beginning
  <2>3. \A k \in 1 .. m : k \in 1 .. n
    BY <1>2, <1>6
  <2> QED BY ZenonT(60), <1>4, <2>2, <2>3
<1> HIDE DEF t
<1> DEFINE r == resp \o t
<1>9. r \in Seq(Nat) /\ Len(r) = Len(resp) + m
      /\ \A k \in 1 .. Len(r) : r[k] = IF k <= Len(resp) THEN resp[k] ELSE t[k - Len(resp)]
  BY ZenonT(60), <1>8, <1>r, Joined
<1> HIDE DEF r
<1>10. ASSUME NEW k \in 1 .. Len(r) PROVE r[k] = k
  <2>1. CASE k <= Len(resp)
    <3>1. r[k] = resp[k] /\ k \in 1 .. Len(resp)
      BY <1>9, <1>r, <2>1
    <3> QED BY ZenonT(60), <1>r, <3>1
  <2>2. CASE k > Len(resp)
    <3>1. k - Len(resp) \in 1 .. m
      BY <1>9, <1>6, <1>r, <2>2
    <3> QED BY <3>1, <1>9, <1>8, <1>5, <1>r, <2>2
  <2> QED BY <2>1, <2>2, <1>r
<1>11. PageSoFar(r)
  BY <1>2, <1>5, <1>6, <1>9, <1>10, <1>r DEF PageSoFar
<1>13. Len(r) < RespMax => rcv_nxt + Len(seg.data) = Len(r) + 1
  BY <1>3, <1>4, <1>6, <1>9, <1>r
<1> QED BY ZenonT(60), <1>7, <1>11, <1>13 DEF r, t

\* A segment of the page keeps the invariant, in order or not.
LEMMA SegmentStep ==
  ASSUME FetchConstants, FetchInv, NEW seg \in Fetch!Segments, Fetch!tcp_get(seg)
  PROVE  FetchInv'
<1> DEFINE r == IF Fetch!InOrder(seg) THEN resp \o Fetch!Takes(seg) ELSE resp
           n == IF Fetch!InOrder(seg) THEN Len(seg.data) ELSE 0
<1>b. stage = "body" /\ op = "fetch" /\ PageSoFar(resp) /\ rcv_nxt = Len(resp) + 1
      /\ Len(resp) < RespMax
  BY DEF FetchInv, Fetch!tcp_get
<1>0. rcv_nxt + 0 = rcv_nxt
  BY <1>b DEF PageSoFar
<1>1. PageSoFar(r) /\ (Len(r) < RespMax => rcv_nxt + n = Len(r) + 1)
  BY ZenonT(60), <1>b, <1>0, SegmentTaken
<1>2. /\ resp' = r /\ fin' = seg.fin /\ op' = op
      /\ rcv_nxt' = rcv_nxt + n + (IF seg.fin THEN 1 ELSE 0)
      /\ stage' = IF seg.fin \/ Len(r) >= RespMax THEN "idle" ELSE "body"
      /\ answer' = IF seg.fin \/ Len(r) >= RespMax THEN Fetch!Ended(r, seg.fin) ELSE "none"
  BY DEF Fetch!tcp_get, Fetch!Next_after
<1>s. seg.fin \in BOOLEAN /\ n \in Nat
  BY DEF Fetch!Segments, FetchConstants
<1> HIDE DEF r, n
<1>3. Len(r) \in Nat /\ RespMax \in Nat /\ Len(r) <= RespMax /\ rcv_nxt \in Nat
  BY <1>1, <1>b DEF PageSoFar, FetchConstants
<1>4. PageSoFar(resp)'
  BY <1>1, <1>2 DEF PageSoFar
<1>5. CASE seg.fin
  <2>1. rcv_nxt' = Len(r) + 2 \/ Len(r) = RespMax
    BY <1>1, <1>2, <1>3, <1>5, <1>s
  <2> QED BY ZenonT(60), <1>b, <1>2, <1>4, <1>5, <2>1 DEF FetchInv
<1>6. CASE ~seg.fin /\ Len(r) >= RespMax
  BY ZenonT(60), <1>b, <1>2, <1>4, <1>6 DEF FetchInv
<1>7. CASE ~seg.fin /\ ~(Len(r) >= RespMax)
  <2>1. Len(r) < RespMax /\ rcv_nxt' = Len(r) + 1
    BY <1>1, <1>2, <1>3, <1>7, <1>s
  <2> QED BY ZenonT(60), <1>b, <1>2, <1>4, <1>7, <2>1 DEF FetchInv
<1> QED BY <1>5, <1>6, <1>7

\* The other stages take nothing of the page.
LEMMA StageStep ==
  ASSUME FetchConstants, FetchInv,
         \/ Fetch!Request \/ Fetch!Tick
         \/ Fetch!arp_resolve \/ Fetch!icmp_echo \/ Fetch!resolve_ip
         \/ Fetch!Handshake \/ Fetch!Reset
  PROVE  FetchInv'
<1>e. PageSoFar(<<>>)
  BY DEF PageSoFar, FetchConstants
<1>p. UNCHANGED resp /\ PageSoFar(resp) => PageSoFar(resp)'
  BY DEF PageSoFar
<1>1. CASE Fetch!Request
  BY <1>1, <1>e DEF Fetch!Request, FetchInv, Fetch!Ops, PageSoFar
<1>2. CASE Fetch!arp_resolve
  BY <1>2, <1>p DEF Fetch!arp_resolve, Fetch!Enter, Fetch!Finish, FetchInv
<1>3. CASE Fetch!icmp_echo
  BY <1>3, <1>p DEF Fetch!icmp_echo, Fetch!Finish, FetchInv
<1>4. CASE Fetch!resolve_ip
  BY <1>4, <1>p DEF Fetch!resolve_ip, Fetch!Enter, Fetch!Finish, FetchInv
<1>5. CASE Fetch!Handshake
  BY <1>5, <1>p DEF Fetch!Handshake, Fetch!Enter, Fetch!Finish, FetchInv, FetchConstants
<1>6. CASE Fetch!Reset
  BY <1>6, <1>p DEF Fetch!Reset, Fetch!Finish, Fetch!Ended, FetchInv
<1>7. CASE Fetch!Tick
  <2>1. UNCHANGED resp /\ op' = op /\ fin' = fin /\ rcv_nxt' = rcv_nxt /\ stage # "idle"
    BY <1>7 DEF Fetch!Tick, Fetch!TimedOut, Fetch!Enter, Fetch!Finish, Fetch!Waits
  <2>2. \/ stage' = stage /\ answer' = answer
        \/ stage' = "idle"
    BY <1>7 DEF Fetch!Tick, Fetch!TimedOut, Fetch!Enter, Fetch!Finish
  <2> QED BY <2>1, <2>2, <1>p DEF FetchInv
<1> QED BY <1>1, <1>2, <1>3, <1>4, <1>5, <1>6, <1>7

\* A fetch hands back the beginning of the page, however segments are lost,
\* repeated, reordered or late, however long page and buffer are, and all of it
\* that fits when the page's end comes in its turn (tcp_get).
THEOREM FetchesArePrefixes == FetchConstants => (Fetch!Spec => []Fetch!FetchIntact)
<1> SUFFICES ASSUME FetchConstants PROVE Fetch!Spec => []Fetch!FetchIntact
  OBVIOUS
<1>1. Fetch!Init => FetchInv
  BY DEF Fetch!Init, FetchInv, PageSoFar, FetchConstants
<1>2. FetchInv /\ [Fetch!Next]_(Fetch!vars) => FetchInv'
  <2> SUFFICES ASSUME FetchInv, [Fetch!Next]_(Fetch!vars) PROVE FetchInv'
    OBVIOUS
  <2>1. CASE UNCHANGED Fetch!vars
    BY <2>1 DEF FetchInv, PageSoFar, Fetch!vars
  <2>2. CASE Fetch!Request \/ Fetch!Tick
    BY <2>2, StageStep
  <2>3. CASE Fetch!Answered
    BY <2>3, StageStep, SegmentStep DEF Fetch!Answered
  <2> QED BY <2>1, <2>2, <2>3 DEF Fetch!Next
<1>3. FetchInv => Fetch!FetchIntact
  BY DEF FetchInv, PageSoFar, FetchConstants, Fetch!FetchIntact
<1> QED BY <1>1, <1>2, <1>3, PTL DEF Fetch!Spec
=============================================================================
