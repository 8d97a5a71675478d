------------------------- MODULE SpawnStagingProofs -------------------------
(***************************************************************************)
(* The properties of SpawnStaging, for any number of tasks, buffers of any *)
(* size and any memory.  Sound is the inductive invariant: besides the     *)
(* properties, that the latched prefix of every buffer is the owner's,     *)
(* that nothing is latched without an owner, and that an empty slot has    *)
(* been given nothing.                                                     *)
(***************************************************************************)
EXTENDS SpawnStaging, TLAPS

\* Every leaf is given a minute; nearly all take a second or two.
USE SMTT(60), ZenonT(60)

Contents == UNION {[Cells(b) -> Nat] : b \in Buffers}
BufferTables == {f \in [Buffers -> Contents] : \A b \in Buffers : f[b] \in [Cells(b) -> Nat]}

Tables ==
  [state : [Slots -> {"Unused", "Live", "Zombie"}],
   gen : [Slots -> Nat], nextGen : Nat,
   stager : Slots \X Nat,
   staged : [Buffers -> Nat],
   buffer : BufferTables,
   top : Nat, region : [Slots -> Nat],
   store : [Slots -> [Buffers -> SUBSET Nat]],
   by : [Slots -> Nat]]

\* Every generation the tables mention has been given out.
Issued(k) ==
  /\ 0 < k.nextGen
  /\ \A t \in Slots : k.gen[t] < k.nextGen /\ k.by[t] < k.nextGen
  /\ \A b \in Buffers : \A c \in Cells(b) : k.buffer[b][c] < k.nextGen
  /\ \A t \in Slots : k.state[t] = "Live" => k.gen[t] # 0

\* The staging has a live owner, whose bytes fill every latched prefix; or
\* none, and nothing is latched.
Owned(k) ==
  /\ \A b \in Buffers : k.staged[b] <= Size[b]
  /\ k.stager # NoTask => live_occupant(k, k.stager)
  /\ k.stager = NoTask => \A b \in Buffers : k.staged[b] = 0
  /\ \A b \in Buffers : \A c \in 1 .. k.staged[b] : k.buffer[b][c] = k.stager[2]

Given(k) ==
  /\ \A t \in Slots, b \in Buffers : k.store[t][b] \subseteq {k.by[t]} /\ 0 \notin k.store[t][b]
  /\ \A t \in Slots : k.state[t] # "Live" => \A b \in Buffers : k.store[t][b] = {}

Apart(k) ==
  /\ \A s, t \in Slots : s # t /\ k.region[s] = k.region[t] => k.region[s] = NoRegion
  /\ \A t \in Slots : k.region[t] # NoRegion => k.top < k.region[t]
  /\ \A t \in Slots : k.state[t] # "Live" => k.region[t] = NoRegion
  /\ k.top <= RamBlocks /\ \A t \in Slots : k.region[t] <= RamBlocks

Sound(k) == k \in Tables /\ Issued(k) /\ Owned(k) /\ Given(k) /\ Apart(k)

----------------------------------------------------------------------------
\* Slots and buffers.
LEMMA Basics ==
  /\ Slots \subseteq Nat /\ Spawnable \subseteq Slots /\ 0 \in Slots
  /\ IMAGE \in Buffers /\ Blobs \subseteq Buffers
  /\ NoTask \in Slots \X Nat /\ NoTask[2] = 0
  /\ \A b \in Buffers : Size[b] \in Nat /\ Size[b] > 0
BY SlotsAssumption, BuffersAssumption DEF Slots, Spawnable, Buffers, NoTask

\* What holds of a record and is taken over by Become holds of the state.
LEMMA BecomeSound ==
  ASSUME NEW k, Sound(k), Become(k)
  PROVE  Sound(Kernel)'
<1>k. k \in Tables /\ Issued(k) /\ Owned(k) /\ Given(k) /\ Apart(k)
  BY ZenonT(60) DEF Sound
<1>1. Kernel' = k
  BY ZenonT(60), <1>k DEF Kernel, Become, Tables
<1>2. (Kernel \in Tables)'
  BY <1>k, <1>1 DEF Tables, BufferTables, Contents, Cells
<1>3. Issued(Kernel)'
  BY <1>k, <1>1 DEF Issued, Cells
<1>4. Owned(Kernel)'
  BY <1>k, <1>1 DEF Owned, live_occupant
<1>5. Given(Kernel)'
  BY <1>k, <1>1 DEF Given
<1>6. Apart(Kernel)'
  BY <1>k, <1>1 DEF Apart
<1> QED BY <1>2, <1>3, <1>4, <1>5, <1>6 DEF Sound

\* Tables that differ in the staging only, with bytes of generations given
\* out.
LEMMA SameBesides ==
  ASSUME NEW k, NEW r, Issued(k), Given(k), Apart(k),
         \A b \in Buffers : \A c \in Cells(b) : r.buffer[b][c] < k.nextGen,
         r.state = k.state, r.gen = k.gen, r.nextGen = k.nextGen, r.top = k.top,
         r.region = k.region, r.store = k.store, r.by = k.by
  PROVE  Issued(r) /\ Given(r) /\ Apart(r)
<1>1. Issued(r)
  BY ZenonT(60) DEF Issued
<1>2. Given(r)
  BY ZenonT(60) DEF Given
<1>3. Apart(r)
  BY ZenonT(60) DEF Apart
<1> QED BY ZenonT(60), <1>1, <1>2, <1>3

\* Sizes and places.
LEMMA Sums ==
  /\ \A a, b \in Nat : a + 1 \in Nat /\ a + b \in Nat
  /\ \A b \in Buffers : \A c \in Cells(b) : ~(c < 1) /\ ~(c < 0 + 1)
  /\ 0 + 1 = 1
BY Basics DEF Cells

\* A function that gives every buffer a value of its own length is a table of
\* buffers.
LEMMA BufferType ==
  ASSUME NEW f, f = [b \in Buffers |-> f[b]],
         \A b \in Buffers : f[b] \in [Cells(b) -> Nat]
  PROVE  f \in BufferTables
<1>1. \A b \in Buffers : f[b] \in Contents
  BY DEF Contents
<1>2. f \in [Buffers -> Contents]
  BY <1>1
<1> QED BY <1>2 DEF BufferTables

\* Tables that differ from sound ones in the staging only.
LEMMA StagingOnly ==
  ASSUME NEW k, Sound(k), NEW r \in Tables, Owned(r),
         \A b \in Buffers : \A c \in Cells(b) : r.buffer[b][c] < k.nextGen,
         r.state = k.state, r.gen = k.gen, r.nextGen = k.nextGen, r.top = k.top,
         r.region = k.region, r.store = k.store, r.by = k.by
  PROVE  Sound(r)
<1>1. Issued(k) /\ Given(k) /\ Apart(k)
  BY ZenonT(60) DEF Sound
<1>2. Issued(r) /\ Given(r) /\ Apart(r)
  BY ZenonT(60), <1>1, SameBesides
<1> QED BY ZenonT(60), <1>2 DEF Sound

\* release_staging: no owner, nothing latched, and nothing else.
Released(k, r) ==
  /\ r \in Tables
  /\ r.stager = NoTask /\ \A b \in Buffers : r.staged[b] = 0
  /\ r.buffer = k.buffer /\ r.state = k.state /\ r.gen = k.gen /\ r.nextGen = k.nextGen
  /\ r.top = k.top /\ r.region = k.region /\ r.store = k.store /\ r.by = k.by

\* What release_staging does to tables of the right type.
LEMMA ReleaseEffect ==
  ASSUME NEW k \in Tables
  PROVE  Released(k, release_staging(k))
BY ZenonT(60), Basics DEF Tables, release_staging, Released

\* With nothing latched the staging is sound.
LEMMA ReleasedOwned ==
  ASSUME NEW r \in Tables, r.stager = NoTask, \A b \in Buffers : r.staged[b] = 0
  PROVE  Owned(r)
<1>1. \A b \in Buffers : r.staged[b] <= Size[b] /\ 1 .. r.staged[b] = {}
  BY Basics
<1> QED BY <1>1 DEF Owned

\* release_staging keeps tables sound.
LEMMA ReleaseSound ==
  ASSUME NEW k, Sound(k)
  PROVE  Sound(release_staging(k))
<1> DEFINE r == release_staging(k)
<1>1. Released(k, r)
  BY ReleaseEffect DEF Sound
<1> HIDE DEF r
<1>2. Owned(r)
  BY <1>1, ReleasedOwned DEF Released
<1>3. Sound(r)
  BY <1>1, <1>2, StagingOnly DEF Released, Sound, Issued
<1> QED BY <1>3 DEF r

\* Forget replaces bytes by 0 and changes nothing else.
Forgotten(k, r) ==
  /\ r \in Tables
  /\ \A b \in Buffers : \A c \in Cells(b) : r.buffer[b][c] \in {0, k.buffer[b][c]}
  /\ r.stager = k.stager /\ r.staged = k.staged
  /\ r.state = k.state /\ r.gen = k.gen /\ r.nextGen = k.nextGen
  /\ r.top = k.top /\ r.region = k.region /\ r.store = k.store /\ r.by = k.by

\* What Forget does to tables of the right type.
LEMMA ForgetEffect ==
  ASSUME NEW k \in Tables, NEW g
  PROVE  Forgotten(k, Forget(k, g))
<1> DEFINE B == [b \in Buffers |->
                   [c \in Cells(b) |-> IF k.buffer[b][c] = g THEN 0 ELSE k.buffer[b][c]]]
           r == Forget(k, g)
<1>0. \A b \in Buffers : k.buffer[b] \in [Cells(b) -> Nat]
  BY DEF Tables, BufferTables
<1>1. \A b \in Buffers : B[b] \in [Cells(b) -> Nat]
  BY <1>0
<1>2. \A b \in Buffers : \A c \in Cells(b) : B[b][c] \in {0, k.buffer[b][c]}
  OBVIOUS
<1>3. r = [k EXCEPT !.buffer = B]
  BY DEF Forget
<1>4. B = [b \in Buffers |-> B[b]]
  OBVIOUS
<1> HIDE DEF B, r
<1>5. B \in BufferTables
  BY <1>1, <1>4, BufferType
<1>6. r \in Tables /\ r.buffer = B
  BY ZenonT(60), <1>3, <1>5 DEF Tables
<1>7. /\ r.stager = k.stager /\ r.staged = k.staged
      /\ r.state = k.state /\ r.gen = k.gen /\ r.nextGen = k.nextGen
      /\ r.top = k.top /\ r.region = k.region /\ r.store = k.store /\ r.by = k.by
  BY <1>3 DEF Tables
<1>8. Forgotten(k, r)
  BY <1>2, <1>6, <1>7 DEF Forgotten
<1> QED BY <1>8 DEF r

\* Once nothing is latched, a task's bytes can be forgotten.
LEMMA ForgetSound ==
  ASSUME NEW k, Sound(k), k.stager = NoTask, NEW g
  PROVE  Sound(Forget(k, g))
<1> DEFINE r == Forget(k, g)
<1>1. Forgotten(k, r)
  BY ForgetEffect DEF Sound
<1> HIDE DEF r
<1>2. \A b \in Buffers : r.staged[b] = 0
  BY <1>1 DEF Sound, Owned, Forgotten
<1>3. Owned(r)
  BY <1>1, <1>2, ReleasedOwned DEF Forgotten
<1>4. \A b \in Buffers : \A c \in Cells(b) : r.buffer[b][c] < k.nextGen
  BY <1>1 DEF Forgotten, Sound, Issued
<1>5. Sound(r)
  BY <1>1, <1>3, <1>4, StagingOnly DEF Forgotten
<1> QED BY <1>5 DEF r

----------------------------------------------------------------------------
\* What the staging calls do.

\* Overwritten: the bytes from .. to are the writer's, the others unchanged.
LEMMA OverwrittenType ==
  ASSUME NEW k \in Tables, NEW me \in Slots, NEW b \in Buffers, NEW from \in Nat, NEW to \in Nat
  PROVE  LET F == Overwritten(k, me, b, from, to)
         IN  /\ F \in BufferTables
             /\ \A x \in Buffers : \A c \in Cells(x) :
                  F[x][c] = IF x = b /\ c \in from .. to THEN k.gen[me] ELSE k.buffer[x][c]
<1> DEFINE F == Overwritten(k, me, b, from, to)
<1>0. (\A x \in Buffers : k.buffer[x] \in [Cells(x) -> Nat]) /\ k.gen[me] \in Nat
  BY DEF Tables, BufferTables
<1>1. \A x \in Buffers : F[x] \in [Cells(x) -> Nat]
  BY <1>0 DEF Overwritten
<1>2. \A x \in Buffers : \A c \in Cells(x) :
        F[x][c] = IF x = b /\ c \in from .. to THEN k.gen[me] ELSE k.buffer[x][c]
  BY DEF Overwritten
<1>3. F = [x \in Buffers |-> F[x]]
  BY DEF Overwritten
<1> HIDE DEF F
<1>4. F \in BufferTables
  BY <1>1, <1>3, BufferType
<1> QED BY <1>2, <1>4 DEF F

\* A staging call's copy is sound when what it leaves latched is the owner's.
LEMMA WrittenSound ==
  ASSUME NEW k \in Tables, Issued(k), Given(k), Apart(k),
         NEW me \in Slots, k.state[me] = "Live", k.stager = <<me, k.gen[me]>>,
         NEW b \in Buffers, NEW from \in Nat, NEW to \in Nat, to <= Size[b],
         \A x \in Buffers \ {b} : /\ k.staged[x] <= Size[x]
                                 /\ \A c \in 1 .. k.staged[x] : k.buffer[x][c] = k.gen[me],
         \A c \in Cells(b) : c < from => k.buffer[b][c] = k.gen[me]
  PROVE  Sound(Written(k, me, b, from, to))
<1> DEFINE F == Overwritten(k, me, b, from, to)
           G == [k.staged EXCEPT ![b] = to]
           r == Written(k, me, b, from, to)
<1>1. /\ F \in BufferTables
      /\ \A x \in Buffers : \A c \in Cells(x) :
           F[x][c] = IF x = b /\ c \in from .. to THEN k.gen[me] ELSE k.buffer[x][c]
  BY OverwrittenType
<1>2. /\ G \in [Buffers -> Nat]
      /\ G[b] = to /\ \A x \in Buffers \ {b} : G[x] = k.staged[x]
  BY DEF Tables
<1>3. r = [k EXCEPT !.buffer = F, !.staged = G]
  BY DEF Written
<1> HIDE DEF F, G, r
<1>4. /\ r \in Tables /\ r.buffer = F /\ r.staged = G
      /\ r.stager = k.stager
      /\ r.state = k.state /\ r.gen = k.gen /\ r.nextGen = k.nextGen
      /\ r.top = k.top /\ r.region = k.region /\ r.store = k.store /\ r.by = k.by
  BY ZenonT(60), <1>1, <1>2, <1>3 DEF Tables
<1>5. \A x \in Buffers : G[x] \in Nat /\ Size[x] \in Nat /\ G[x] <= Size[x]
  BY <1>2, Basics
<1>6. \A x \in Buffers : \A c \in 1 .. G[x] : c \in Cells(x)
  BY <1>5 DEF Cells
<1>7. ASSUME NEW x \in Buffers, NEW c \in 1 .. G[x]
      PROVE  F[x][c] = k.gen[me]
  <2>1. CASE x # b
    BY <1>1, <1>2, <1>6, <1>7, <2>1
  <2>2. CASE x = b
    <3>1. c \in Nat /\ c <= to /\ c \in Cells(b)
      BY <1>2, <1>6, <1>7, <2>2
    <3>2. c \in from .. to \/ c < from
      BY <3>1
    <3> QED BY <1>1, <2>2, <3>1, <3>2
  <2> QED BY <2>1, <2>2
<1>8. k.stager[1] = me /\ k.stager[2] = k.gen[me] /\ k.gen[me] # 0
  BY DEF Issued
<1>9. Owned(r)
  <2>1. r.stager # NoTask
    BY <1>4, <1>8 DEF NoTask
  <2>2. live_occupant(r, r.stager)
    BY <1>4, <1>8 DEF live_occupant
  <2> QED BY <1>4, <1>5, <1>7, <1>8, <2>1, <2>2 DEF Owned
<1>10. Issued(r)
  <2>1. \A x \in Buffers : \A c \in Cells(x) : F[x][c] < k.nextGen
    BY <1>1 DEF Issued
  <2> QED BY <1>4, <2>1 DEF Issued
<1>11. Given(r) /\ Apart(r)
  BY <1>4 DEF Given, Apart
<1>12. Sound(r)
  BY <1>4, <1>9, <1>10, <1>11 DEF Sound
<1> QED BY <1>12 DEF r

\* With a sound staging, a stager that is neither mine nor another live
\* task's is nobody.
LEMMA FreeStaging ==
  ASSUME NEW k, Sound(k), NEW me \in Slots, ~Held(k, me), ~Mine(k, me)
  PROVE  k.stager = NoTask
BY DEF Held, Sound, Owned

\* staging_state keeps the tables sound, and they differ in the staging only.
LEMMA StateSound ==
  ASSUME NEW k, Sound(k), NEW me \in Slots
  PROVE  Sound(staging_state(k, me))
BY ReleaseSound DEF staging_state

\* A claim makes the caller the owner of what it had latched, or of nothing.
Claimed(k, me, r) ==
  /\ r \in Tables
  /\ r.stager = <<me, k.gen[me]>>
  /\ r.buffer = k.buffer /\ r.state = k.state /\ r.gen = k.gen /\ r.nextGen = k.nextGen
  /\ r.top = k.top /\ r.region = k.region /\ r.store = k.store /\ r.by = k.by
  /\ Mine(k, me) => r.staged = k.staged
  /\ \A b \in Buffers : /\ r.staged[b] <= Size[b]
                       /\ \A c \in 1 .. r.staged[b] : r.buffer[b][c] = k.gen[me]

\* What claim_staging does for a caller not refused.
LEMMA ClaimEffect ==
  ASSUME NEW k, Sound(k), NEW me \in Slots, ~Held(k, me)
  PROVE  Claimed(k, me, claim_staging(k, me))
<1> DEFINE s == staging_state(k, me)
           r == claim_staging(k, me)
           id == <<me, k.gen[me]>>
<1>k. k \in Tables /\ Owned(k)
  BY DEF Sound
<1>id. id \in Slots \X Nat /\ id[2] = k.gen[me] /\ id = task_id_of(k, me)
  BY <1>k DEF Tables, task_id_of
<1>1. /\ s \in Tables
      /\ s.buffer = k.buffer /\ s.state = k.state /\ s.gen = k.gen /\ s.nextGen = k.nextGen
      /\ s.top = k.top /\ s.region = k.region /\ s.store = k.store /\ s.by = k.by
      /\ Mine(k, me) => s.staged = k.staged
      /\ ~Mine(k, me) => \A b \in Buffers : s.staged[b] = 0
  BY <1>k, ReleaseEffect DEF staging_state, Released
<1>2. r = [s EXCEPT !.stager = id]
  BY <1>id DEF claim_staging
<1> HIDE DEF s, r, id
<1>3. /\ r \in Tables /\ r.stager = id /\ r.staged = s.staged
      /\ r.buffer = s.buffer /\ r.state = s.state /\ r.gen = s.gen /\ r.nextGen = s.nextGen
      /\ r.top = s.top /\ r.region = s.region /\ r.store = s.store /\ r.by = s.by
  BY ZenonT(60), <1>1, <1>2, <1>id DEF Tables
<1>4. ASSUME NEW b \in Buffers
      PROVE  r.staged[b] <= Size[b] /\ \A c \in 1 .. r.staged[b] : r.buffer[b][c] = k.gen[me]
  <2>1. CASE Mine(k, me)
    <3>1. k.stager[2] = k.gen[me]
      BY <2>1, <1>id DEF Mine
    <3> QED BY <1>k, <1>1, <1>3, <2>1, <3>1 DEF Owned
  <2>2. CASE ~Mine(k, me)
    BY <1>1, <1>3, <2>2, Basics
  <2> QED BY <2>1, <2>2
<1>5. Claimed(k, me, r)
  BY <1>1, <1>3, <1>4 DEF Claimed, id
<1> QED BY <1>5 DEF r

\* The tables of a caller that holds the staging are sound but for it.
LEMMA ClaimedKeeps ==
  ASSUME NEW k, Sound(k), NEW me, NEW r, Claimed(k, me, r)
  PROVE  Issued(r) /\ Given(r) /\ Apart(r) /\ r \in Tables
<1>1. Issued(k) /\ Given(k) /\ Apart(k)
  BY ZenonT(60) DEF Sound
<1>2. /\ r \in Tables /\ r.buffer = k.buffer /\ r.state = k.state /\ r.gen = k.gen
      /\ r.nextGen = k.nextGen /\ r.top = k.top /\ r.region = k.region
      /\ r.store = k.store /\ r.by = k.by
  BY ZenonT(60) DEF Claimed
<1>3. \A b \in Buffers : \A c \in Cells(b) : r.buffer[b][c] < k.nextGen
  BY ZenonT(60), <1>1, <1>2 DEF Issued
<1> QED BY ZenonT(60), <1>1, <1>2, <1>3, SameBesides

----------------------------------------------------------------------------
\* The system calls.

\* ARGS_STAGE, CWD_STAGE and ENV_STAGE keep the tables sound.
LEMMA BlobStageSound ==
  ASSUME Sound(Kernel), NEW me \in Slots, NEW b \in Blobs, NEW len \in Cells(b),
         BlobStage(me, b, len)
  PROVE  Sound(Kernel)'
<1> DEFINE k == Kernel
           r == claim_staging(k, me)
<1>0. k.state[me] = "Live" /\ ~Held(k, me) /\ Become(Written(r, me, b, 1, len))
  BY DEF BlobStage, Calling, Kernel
<1>1. Claimed(k, me, r)
  BY ZenonT(60), <1>0, ClaimEffect
<1>2. b \in Buffers /\ len \in Nat /\ len <= Size[b]
  BY Basics DEF Cells
<1> HIDE DEF k, r
<1>3. Issued(r) /\ Given(r) /\ Apart(r)
  BY ZenonT(60), <1>1, ClaimedKeeps DEF k
<1>4. Sound(Written(r, me, b, 1, len))
  <2>1. \A c \in Cells(b) : ~(c < 1)
    BY ZenonT(60), <1>2, Sums
  <2> QED BY <1>0, <1>1, <1>2, <1>3, <2>1, WrittenSound DEF Claimed
<1> QED BY <1>0, <1>4, BecomeSound

\* SPAWN_STAGE keeps the tables sound.
LEMMA SpawnStageSound ==
  ASSUME Sound(Kernel), NEW me \in Slots,
         NEW offset \in 0 .. Size[IMAGE] - 1, NEW len \in 1 .. Size[IMAGE],
         SPAWN_STAGE(me, offset, len)
  PROVE  Sound(Kernel)'
<1> DEFINE k == Kernel
           r == claim_staging(k, me)
           q == RestartedAt(r, me, offset)
           w == Written(q, me, IMAGE, offset + 1, offset + len)
<1>0. /\ k.state[me] = "Live" /\ ~Held(k, me) /\ offset + len <= Size[IMAGE]
      /\ Become(IF MayStart(k, me, offset) THEN w ELSE staging_state(k, me))
  BY DEF SPAWN_STAGE, Calling, Kernel
<1>1. Claimed(k, me, r)
  BY ZenonT(60), <1>0, ClaimEffect
<1>2. IMAGE \in Buffers /\ offset \in Nat /\ len \in Nat /\ Size[IMAGE] \in Nat
  BY Basics
<1>q. q = RestartedAt(r, me, offset)
  OBVIOUS
<1>w. w = Written(q, me, IMAGE, offset + 1, offset + len)
  BY ZenonT(60)
<1> HIDE DEF k, r, q, w
<1>3. Issued(r) /\ Given(r) /\ Apart(r) /\ r \in Tables
  BY ZenonT(60), <1>1, ClaimedKeeps DEF k
<1>4. CASE MayStart(k, me, offset)
  <2>1. CASE offset = 0
    <3> DEFINE f == Forget(r, r.gen[me])
               G == [b \in Buffers |-> IF b = IMAGE THEN r.staged[b] ELSE 0]
    <3>1. Forgotten(r, f)
      BY <1>3, ForgetEffect
    <3>2. q = [f EXCEPT !.staged = G]
      BY <1>q, <2>1 DEF RestartedAt
    <3>3. G \in [Buffers -> Nat] /\ \A b \in Buffers \ {IMAGE} : G[b] = 0
      BY <1>3 DEF Tables
    <3> HIDE DEF f, G
    <3>4. /\ q \in Tables /\ q.staged = G /\ q.buffer = f.buffer /\ q.stager = f.stager
          /\ q.state = f.state /\ q.gen = f.gen /\ q.nextGen = f.nextGen
          /\ q.top = f.top /\ q.region = f.region /\ q.store = f.store /\ q.by = f.by
      BY ZenonT(60), <3>1, <3>2, <3>3 DEF Tables, Forgotten
    <3>5. /\ q.state[me] = "Live" /\ q.stager = <<me, q.gen[me]>>
      BY ZenonT(60), <1>0, <1>1, <3>1, <3>4 DEF Claimed, Forgotten
    <3>6. Issued(q) /\ Given(q) /\ Apart(q)
      <4>1. 0 < r.nextGen /\ \A b \in Buffers : \A c \in Cells(b) : r.buffer[b][c] < r.nextGen
        BY ZenonT(60), <1>3 DEF Issued
      <4>2. \A b \in Buffers : \A c \in Cells(b) : q.buffer[b][c] < r.nextGen
        BY ZenonT(60), <3>1, <3>4, <4>1 DEF Forgotten
      <4>3. /\ q.state = r.state /\ q.gen = r.gen /\ q.nextGen = r.nextGen /\ q.top = r.top
            /\ q.region = r.region /\ q.store = r.store /\ q.by = r.by
        BY ZenonT(60), <3>1, <3>4 DEF Forgotten
      <4> QED BY ZenonT(60), <1>3, <4>2, <4>3, SameBesides
    <3>7. offset + 1 \in Nat /\ offset + len \in Nat /\ offset + len <= Size[IMAGE]
      BY ZenonT(60), <1>0, <1>2, Sums
    <3>8. \A x \in Buffers \ {IMAGE} :
            q.staged[x] <= Size[x] /\ \A c \in 1 .. q.staged[x] : q.buffer[x][c] = q.gen[me]
      BY <3>3, <3>4, Basics
    <3>9. \A c \in Cells(IMAGE) : ~(c < offset + 1)
      BY ZenonT(60), <1>2, <2>1, Sums
    <3>10. Sound(Written(q, me, IMAGE, offset + 1, offset + len))
      <4>1. q \in Tables
        BY ZenonT(60), <3>4
      <4> QED BY ZenonT(60), <4>1, <1>2, <3>5, <3>6, <3>7, <3>8, <3>9, WrittenSound
    <3> QED BY ZenonT(60), <1>0, <1>w, <1>4, <3>10, BecomeSound
  <2>2. CASE offset # 0
    <3>1. q = r
      BY <1>q, <2>2 DEF RestartedAt
    <3>2. Mine(k, me) /\ offset = k.staged[IMAGE]
      BY <1>4, <2>2 DEF MayStart
    <3>3. offset = r.staged[IMAGE]
      BY <1>1, <3>2 DEF Claimed
    <3>4. \A c \in Cells(IMAGE) : c < offset + 1 => c \in 1 .. r.staged[IMAGE]
      BY <1>2, <3>3 DEF Cells
    <3>5. r.gen = k.gen /\ r.state[me] = "Live" /\ r.stager = <<me, r.gen[me]>>
      BY <1>0, <1>1 DEF Claimed
    <3>6. \A c \in Cells(IMAGE) : c < offset + 1 => r.buffer[IMAGE][c] = r.gen[me]
      BY <1>1, <1>2, <3>4, <3>5 DEF Claimed
    <3>7. \A x \in Buffers \ {IMAGE} :
            r.staged[x] <= Size[x] /\ \A c \in 1 .. r.staged[x] : r.buffer[x][c] = r.gen[me]
      BY <1>1, <3>5 DEF Claimed
    <3>8. w = Written(r, me, IMAGE, offset + 1, offset + len)
      BY <1>w, <3>1
    <3>9. offset + 1 \in Nat /\ offset + len \in Nat /\ offset + len <= Size[IMAGE]
      BY ZenonT(60), <1>0, <1>2, Sums
    <3>10. Sound(Written(r, me, IMAGE, offset + 1, offset + len))
      BY ZenonT(60), <1>2, <1>3, <3>5, <3>6, <3>7, <3>9, WrittenSound
    <3> QED BY <1>0, <1>4, <3>8, <3>10, BecomeSound
  <2> QED BY <2>1, <2>2
<1>5. CASE ~MayStart(k, me, offset)
  BY <1>0, <1>5, StateSound, BecomeSound DEF k
<1> QED BY <1>4, <1>5

\* Nothing but the top of the free memory moves.
Moved(k, r, top_) ==
  /\ r \in Tables /\ r.top = top_ /\ r.state = k.state /\ r.gen = k.gen
  /\ r.nextGen = k.nextGen /\ r.region = k.region /\ r.stager = k.stager
  /\ r.staged = k.staged /\ r.buffer = k.buffer /\ r.store = k.store /\ r.by = k.by

\* What allocate_runtime_region does when there is memory.
LEMMA AllocateEffect ==
  ASSUME NEW k \in Tables, k.top > 0
  PROVE  Moved(k, allocate_runtime_region(k), k.top - 1)
<1> DEFINE p == k.top - 1
<1>1. p \in Nat
  BY DEF Tables
<1>2. allocate_runtime_region(k) = [k EXCEPT !.top = p]
  BY DEF allocate_runtime_region, Tables
<1> HIDE DEF p
<1>3. Moved(k, allocate_runtime_region(k), p)
  BY ZenonT(60), <1>1, <1>2 DEF Moved, Tables
<1> QED BY <1>3 DEF p

\* A task of a slot that has none: the region just handed out is above every
\* block still free and is nobody else's.
LEMMA OccupiedSound ==
  ASSUME NEW k, Sound(k), NEW t \in Slots, k.state[t] # "Live", k.top > 0
  PROVE  LET r == Occupied(allocate_runtime_region(k), t)
         IN  /\ Sound(r) /\ r.nextGen = k.nextGen + 1 /\ r.state[t] = "Live"
             /\ r.buffer = k.buffer /\ r.stager = k.stager /\ r.staged = k.staged
             /\ r.store = k.store
<1> DEFINE S == [k.state EXCEPT ![t] = "Live"]
           G == [k.gen EXCEPT ![t] = k.nextGen]
           R == [k.region EXCEPT ![t] = k.top]
           n == k.nextGen + 1
           a == allocate_runtime_region(k)
           r == Occupied(a, t)
<1>k. k \in Tables /\ Issued(k) /\ Owned(k) /\ Given(k) /\ Apart(k)
  BY DEF Sound
<1>0. k.top \in Nat /\ k.nextGen \in Nat
  BY <1>k DEF Tables
<1>a. Moved(k, a, k.top - 1)
  BY <1>k, AllocateEffect
<1>r. r = [a EXCEPT !.state = [a.state EXCEPT ![t] = "Live"],
                    !.gen = [a.gen EXCEPT ![t] = a.nextGen],
                    !.nextGen = a.nextGen + 1,
                    !.region = [a.region EXCEPT ![t] = a.top + 1]]
  BY DEF Occupied
<1> HIDE DEF a, r
<1>1. /\ a \in Tables /\ a.top = k.top - 1 /\ a.state = k.state /\ a.gen = k.gen
      /\ a.nextGen = k.nextGen /\ a.region = k.region /\ a.stager = k.stager
      /\ a.staged = k.staged /\ a.buffer = k.buffer /\ a.store = k.store /\ a.by = k.by
  BY <1>a DEF Moved
<1>2. r = [a EXCEPT !.state = S, !.gen = G, !.nextGen = n, !.region = R]
  <2>1. a.top + 1 = k.top
    BY <1>0, <1>1
  <2> QED BY ZenonT(60), <1>1, <1>r, <2>1
<1>3. /\ S \in [Slots -> {"Unused", "Live", "Zombie"}]
      /\ G \in [Slots -> Nat] /\ R \in [Slots -> Nat]
      /\ S[t] = "Live" /\ G[t] = k.nextGen /\ R[t] = k.top
      /\ \A x \in Slots \ {t} : S[x] = k.state[x] /\ G[x] = k.gen[x] /\ R[x] = k.region[x]
  BY <1>k, <1>0 DEF Tables
<1>n. n \in Nat /\ n > k.nextGen /\ n = k.nextGen + 1
  BY <1>0
<1> HIDE DEF S, G, R, n
<1>4. /\ r \in Tables /\ r.state = S /\ r.gen = G /\ r.nextGen = n /\ r.region = R
      /\ r.top = k.top - 1 /\ r.stager = k.stager /\ r.staged = k.staged
      /\ r.buffer = k.buffer /\ r.store = k.store /\ r.by = k.by
  BY ZenonT(60), <1>1, <1>2, <1>3, <1>n DEF Tables
<1>5. Issued(r)
  <2>0. \A x \in Slots : k.gen[x] \in Nat /\ k.by[x] \in Nat
    BY <1>k DEF Tables
  <2>1. \A x \in Slots : G[x] < n /\ k.by[x] < n
    BY <1>k, <1>0, <1>n, <1>3, <2>0 DEF Issued
  <2>2. \A b \in Buffers : \A c \in Cells(b) : k.buffer[b][c] < n
    BY <1>k, <1>0, <1>n DEF Issued, Tables, BufferTables
  <2>3. \A x \in Slots : S[x] = "Live" => G[x] # 0
    <3>1. k.nextGen # 0
      BY <1>k, <1>0 DEF Issued
    <3>2. \A x \in Slots : k.state[x] = "Live" => k.gen[x] # 0
      BY ZenonT(60), <1>k DEF Issued
    <3> QED BY ZenonT(60), <1>3, <3>1, <3>2
  <2> QED BY <1>0, <1>n, <1>4, <2>1, <2>2, <2>3 DEF Issued
<1>6. Owned(r)
  <2>1. k.stager # NoTask => k.stager[1] # t /\ k.stager[1] \in Slots
    BY ZenonT(60), <1>k DEF Owned, live_occupant, Tables
  <2> QED BY SMTT(60), <1>k, <1>3, <1>4, <2>1 DEF Owned, live_occupant
<1>7. Given(r)
  BY SMTT(60), <1>k, <1>3, <1>4 DEF Given
<1>8. Apart(r)
  <2>1. \A x \in Slots \ {t} : k.region[x] \in Nat /\ (k.region[x] # NoRegion => k.top < k.region[x])
    BY <1>k DEF Apart, Tables
  <2>0. k.top # 0 /\ k.top - 1 < k.top /\ ~(k.top < k.top)
        /\ \A w \in Nat : k.top < w => k.top - 1 < w
    BY <1>0
  <2>2. \A x \in Slots \ {t} : R[x] # k.top
    BY ZenonT(60), <1>3, <2>0, <2>1 DEF NoRegion
  <2>3. \A x, y \in Slots : x # y /\ R[x] = R[y] => R[x] = NoRegion
    BY <1>k, <1>3, <2>2 DEF Apart
  <2>4. \A x \in Slots : R[x] # NoRegion => k.top - 1 < R[x]
    BY ZenonT(60), <1>3, <2>0, <2>1
  <2>5. k.top - 1 <= RamBlocks /\ \A x \in Slots : R[x] <= RamBlocks
    BY <1>k, <1>0, <1>3, BoundAssumption DEF Apart
  <2>6. \A x \in Slots : S[x] # "Live" => R[x] = NoRegion
    BY ZenonT(60), <1>k, <1>3 DEF Apart
  <2> QED BY ZenonT(60), <1>4, <2>3, <2>4, <2>5, <2>6 DEF Apart
<1>9. Sound(r)
  BY ZenonT(60), <1>4, <1>5, <1>6, <1>7, <1>8 DEF Sound
<1> QED BY ZenonT(60), <1>3, <1>4, <1>n, <1>9 DEF r, a

\* end_task keeps the tables sound: what ends gives up the staging, and its
\* region goes back only when it borders the free memory.
LEMMA EndSound ==
  ASSUME NEW k, Sound(k), NEW t \in Slots, NEW final \in {"Unused", "Zombie"}
  PROVE  LET r == end_task(k, t, final)
         IN  Sound(r) /\ r.nextGen = k.nextGen /\ r.state[t] = final
<1> DEFINE f == free_runtime_region(k, k.region[t])
           k1 == release_staging_of(f, t)
           S == [k.state EXCEPT ![t] = final]
           R == [k.region EXCEPT ![t] = NoRegion]
           C == [k.store EXCEPT ![t] = [b \in Buffers |-> {}]]
           B == [k.by EXCEPT ![t] = 0]
           r == end_task(k, t, final)
<1>k. k \in Tables /\ Issued(k) /\ Owned(k) /\ Given(k) /\ Apart(k)
  BY DEF Sound
<1>0. k.top \in Nat /\ k.region[t] \in Nat /\ k.nextGen \in Nat
  BY <1>k DEF Tables
<1>f. /\ f \in Tables /\ f.state = k.state /\ f.gen = k.gen
      /\ f.nextGen = k.nextGen /\ f.region = k.region /\ f.stager = k.stager
      /\ f.staged = k.staged /\ f.buffer = k.buffer /\ f.store = k.store /\ f.by = k.by
      /\ \/ f.top = k.top
         \/ k.region[t] # NoRegion /\ k.top = k.region[t] - 1 /\ f.top = k.region[t]
  BY ZenonT(60), <1>k, <1>0 DEF Tables, free_runtime_region
<1>1. k1 = release_staging_of(f, t)
  OBVIOUS
<1>r. r = [k1 EXCEPT !.state = [k1.state EXCEPT ![t] = final],
                     !.region = [k1.region EXCEPT ![t] = NoRegion],
                     !.store = [k1.store EXCEPT ![t] = [b \in Buffers |-> {}]],
                     !.by = [k1.by EXCEPT ![t] = 0]]
  BY ZenonT(60) DEF end_task
<1> HIDE DEF f, k1, r
<1>2. /\ k1 \in Tables /\ k1.top = f.top /\ k1.state = k.state /\ k1.gen = k.gen
      /\ k1.nextGen = k.nextGen /\ k1.region = k.region /\ k1.buffer = k.buffer
      /\ k1.store = k.store /\ k1.by = k.by
      /\ \/ k1.stager = NoTask /\ \A b \in Buffers : k1.staged[b] = 0
         \/ k1.stager = k.stager /\ k1.staged = k.staged /\ k.stager[1] # t
         \/ k1.stager = k.stager /\ k1.staged = k.staged /\ k.stager = NoTask
  BY <1>f, <1>1, ReleaseEffect DEF release_staging_of, Released
<1>3. r = [k1 EXCEPT !.state = S, !.region = R, !.store = C, !.by = B]
  BY <1>2, <1>r
<1>4. /\ S \in [Slots -> {"Unused", "Live", "Zombie"}] /\ R \in [Slots -> Nat]
      /\ C \in [Slots -> [Buffers -> SUBSET Nat]] /\ B \in [Slots -> Nat]
  BY <1>k DEF Tables, NoRegion
<1>5. /\ S[t] = final /\ R[t] = NoRegion /\ B[t] = 0 /\ \A b \in Buffers : C[t][b] = {}
      /\ \A x \in Slots \ {t} : /\ S[x] = k.state[x] /\ R[x] = k.region[x]
                              /\ C[x] = k.store[x] /\ B[x] = k.by[x]
  BY <1>k DEF Tables
<1> HIDE DEF S, R, C, B
<1>6. /\ r \in Tables /\ r.state = S /\ r.region = R /\ r.store = C /\ r.by = B
      /\ r.top = f.top /\ r.gen = k.gen /\ r.nextGen = k.nextGen /\ r.buffer = k.buffer
      /\ r.stager = k1.stager /\ r.staged = k1.staged
  BY ZenonT(60), <1>2, <1>3, <1>4 DEF Tables
<1>7. Issued(r)
  <2>1. \A x \in Slots : B[x] < k.nextGen
    BY ZenonT(60), <1>k, <1>5 DEF Issued
  <2> QED BY <1>k, <1>5, <1>6, <2>1 DEF Issued
<1>8. Owned(r)
  <2>1. CASE r.stager = NoTask /\ \A b \in Buffers : r.staged[b] = 0
    BY ZenonT(60), <1>6, <2>1, ReleasedOwned
  <2>2. CASE r.stager = k.stager /\ r.staged = k.staged /\ k.stager[1] # t
    <3>1. k.stager[1] \in Slots
      BY <1>k DEF Tables
    <3> QED BY SMTT(60), <1>k, <1>5, <1>6, <2>2, <3>1 DEF Owned, live_occupant
  <2>3. CASE r.stager = k.stager /\ r.staged = k.staged /\ k.stager = NoTask
    BY ZenonT(60), <1>k, <1>6, <2>3, ReleasedOwned DEF Owned
  <2> QED BY ZenonT(60), <1>2, <1>6, <2>1, <2>2, <2>3
<1>9. Given(r)
  BY SMTT(60), <1>k, <1>5, <1>6 DEF Given
<1>10. Apart(r)
  <2>1. \A x \in Slots \ {t} : k.region[x] \in Nat /\ (k.region[x] # NoRegion => k.top < k.region[x])
    BY <1>k DEF Apart, Tables
  <2>2. \A x \in Slots \ {t} : k.region[x] # NoRegion => k.region[x] # k.region[t]
    BY ZenonT(60), <1>k DEF Apart
  <2>3. \A x \in Slots : R[x] # NoRegion => f.top < R[x]
    <3>1. CASE f.top = k.top
      BY ZenonT(60), <1>5, <2>1, <3>1
    <3>2. CASE k.region[t] # NoRegion /\ k.top = k.region[t] - 1 /\ f.top = k.region[t]
      <4>1. \A a \in Nat : k.top < a /\ a # k.region[t] => k.region[t] < a
        BY <1>0, <3>2
      <4> QED BY ZenonT(60), <1>5, <2>1, <2>2, <3>2, <4>1
    <3> QED BY ZenonT(60), <1>f, <3>1, <3>2
  <2>4. f.top <= RamBlocks /\ \A x \in Slots : R[x] <= RamBlocks
    <3>1. NoRegion <= RamBlocks
      BY BoundAssumption DEF NoRegion
    <3>2. k.top <= RamBlocks /\ \A x \in Slots : k.region[x] <= RamBlocks
      BY ZenonT(60), <1>k DEF Apart
    <3> QED BY ZenonT(60), <1>f, <1>5, <3>1, <3>2
  <2>5. ASSUME NEW x \in Slots, NEW y \in Slots, x # y, R[x] = R[y]
        PROVE  R[x] = NoRegion
    <3>1. CASE x = t \/ y = t
      BY ZenonT(60), <1>5, <2>5, <3>1
    <3>2. CASE x # t /\ y # t
      <4>1. k.region[x] = k.region[y] /\ R[x] = k.region[x]
        BY ZenonT(60), <1>5, <2>5, <3>2
      <4> QED BY ZenonT(60), <1>k, <2>5, <4>1 DEF Apart
    <3> QED BY ZenonT(60), <3>1, <3>2
  <2>6. \A x \in Slots : S[x] # "Live" => R[x] = NoRegion
    BY ZenonT(60), <1>k, <1>5 DEF Apart
  <2> QED BY ZenonT(60), <1>6, <2>3, <2>4, <2>5, <2>6 DEF Apart
<1>11. Sound(r)
  BY <1>6, <1>7, <1>8, <1>9, <1>10 DEF Sound
<1> QED BY <1>5, <1>6, <1>11 DEF r

\* SPAWN refused, or of nothing.
LEMMA RefusedSound ==
  ASSUME Sound(Kernel), NEW me \in Slots, SpawnRefused(me) \/ SpawnNothing(me)
  PROVE  Sound(Kernel)'
<1>1. CASE SpawnRefused(me)
  <2>1. Sound(release_staging(Kernel)) /\ release_staging(Kernel).stager = NoTask
    BY ReleaseSound, ReleaseEffect DEF Sound, Released
  <2>2. Sound(Forget(release_staging(Kernel), gen[me]))
    BY <2>1, ForgetSound
  <2> QED BY ZenonT(60), <1>1, <2>2, BecomeSound DEF SpawnRefused
<1>2. CASE SpawnNothing(me)
  BY <1>2, StateSound, BecomeSound DEF SpawnNothing
<1> QED BY <1>1, <1>2

\* Tables that agree on what a conjunct speaks of share it.
LEMMA SameOwned ==
  ASSUME NEW k, NEW r, Owned(k), r.stager = k.stager, r.staged = k.staged, r.buffer = k.buffer,
         live_occupant(k, k.stager) => live_occupant(r, k.stager)
  PROVE  Owned(r)
<1>1. \A b \in Buffers : r.staged[b] <= Size[b]
  BY ZenonT(60) DEF Owned
<1>2. r.stager # NoTask => live_occupant(r, r.stager)
  BY ZenonT(60) DEF Owned
<1>3. r.stager = NoTask => \A b \in Buffers : r.staged[b] = 0
  BY ZenonT(60) DEF Owned
<1>4. \A b \in Buffers : \A c \in 1 .. r.staged[b] : r.buffer[b][c] = r.stager[2]
  BY ZenonT(60) DEF Owned
<1> QED BY ZenonT(60), <1>1, <1>2, <1>3, <1>4 DEF Owned

\* The same of the regions.
LEMMA SameApart ==
  ASSUME NEW k, NEW r, Apart(k), r.region = k.region, r.top = k.top,
         \A t \in Slots : r.state[t] # "Live" => k.state[t] # "Live"
  PROVE  Apart(r)
<1>1. \A s, t \in Slots : s # t /\ r.region[s] = r.region[t] => r.region[s] = NoRegion
  BY ZenonT(60) DEF Apart
<1>2. \A t \in Slots : r.region[t] # NoRegion => r.top < r.region[t]
  BY ZenonT(60) DEF Apart
<1>3. \A t \in Slots : r.state[t] # "Live" => r.region[t] = NoRegion
  BY ZenonT(60) DEF Apart
<1>4. r.top <= RamBlocks /\ \A t \in Slots : r.region[t] <= RamBlocks
  BY ZenonT(60) DEF Apart
<1> QED BY ZenonT(60), <1>1, <1>2, <1>3, <1>4 DEF Apart

\* SPAWN failing after its region was allocated gives that region back.
LEMMA FailsSound ==
  ASSUME Sound(Kernel), NEW me \in Slots, SpawnFails(me)
  PROVE  Sound(Kernel)'
<1> DEFINE k == Kernel
           a == allocate_runtime_region(k)
           f == free_runtime_region(a, a.top + 1)
<1>0. k.top > 0 /\ Become(Forget(release_staging(f), gen[me]))
  BY DEF SpawnFails, Kernel
<1>1. k \in Tables /\ k.top \in Nat
  BY ZenonT(60) DEF Sound, Tables
<1> HIDE DEF k
<1>2. /\ a \in Tables /\ a.top = k.top - 1 /\ a.state = k.state /\ a.gen = k.gen
      /\ a.nextGen = k.nextGen /\ a.region = k.region /\ a.stager = k.stager
      /\ a.staged = k.staged /\ a.buffer = k.buffer /\ a.store = k.store /\ a.by = k.by
  BY <1>0, <1>1, AllocateEffect DEF Moved
<1> HIDE DEF a
<1>3. a.top + 1 = k.top /\ a.top = (a.top + 1) - 1 /\ a.top + 1 # NoRegion
  BY <1>0, <1>1, <1>2 DEF NoRegion
<1>4. f = [a EXCEPT !.top = k.top]
  BY <1>3 DEF free_runtime_region
<1> HIDE DEF f
<1>5. /\ f \in Tables /\ f.top = k.top /\ f.state = k.state /\ f.gen = k.gen
      /\ f.nextGen = k.nextGen /\ f.region = k.region /\ f.stager = k.stager
      /\ f.staged = k.staged /\ f.buffer = k.buffer /\ f.store = k.store /\ f.by = k.by
  BY ZenonT(60), <1>1, <1>2, <1>4 DEF Tables
<1>6. Sound(f)
  <2>1. Sound(k)
    BY DEF k
  <2>2. Issued(f)
    BY ZenonT(60), <1>5, <2>1 DEF Sound, Issued
  <2>3. Owned(f)
    <3>1. Owned(k)
      BY ZenonT(60), <2>1 DEF Sound
    <3>2. live_occupant(k, k.stager) => live_occupant(f, k.stager)
      BY ZenonT(60), <1>5 DEF live_occupant
    <3> QED BY ZenonT(60), <1>5, <3>1, <3>2, SameOwned
  <2>4. Given(f)
    <3>1. f.state = k.state /\ f.store = k.store /\ f.by = k.by
      BY ZenonT(60), <1>5
    <3> QED BY ZenonT(60), <2>1, <3>1 DEF Sound, Given
  <2>5. Apart(f)
    <3>1. Apart(k)
      BY ZenonT(60), <2>1 DEF Sound
    <3> QED BY ZenonT(60), <1>5, <3>1, SameApart
  <2> QED BY ZenonT(60), <1>5, <2>2, <2>3, <2>4, <2>5 DEF Sound
<1>7. Sound(release_staging(f)) /\ release_staging(f).stager = NoTask
  BY <1>5, <1>6, ReleaseSound, ReleaseEffect DEF Released
<1>8. Sound(Forget(release_staging(f), gen[me]))
  BY <1>7, ForgetSound
<1> QED BY <1>0, <1>8, BecomeSound

\* What a child is given is its spawner's: no more of a buffer is handed over
\* than was latched, and every latched byte is the owner's.
LEMMA HandedIsMine ==
  ASSUME NEW k, Sound(k), NEW me \in Slots, k.state[me] = "Live", Mine(k, me),
         NEW i \in Slots, k.state[i] # "Live",
         NEW size \in Nat, size <= k.staged[IMAGE],
         NEW asked \in [Blobs \ Latched -> 0 .. MaxAsked]
  PROVE  LET H == Handed(k, k.store[i], size, asked)
         IN  /\ H \in [Buffers -> SUBSET Nat]
             /\ \A b \in Buffers : H[b] \subseteq {k.gen[me]} /\ 0 \notin H[b]
<1> DEFINE H == Handed(k, k.store[i], size, asked)
<1>k. k \in Tables /\ Issued(k) /\ Owned(k) /\ Given(k)
  BY ZenonT(60) DEF Sound
<1>1. k.stager[2] = k.gen[me] /\ k.gen[me] # 0 /\ k.gen[me] \in Nat
  BY SMTT(60), <1>k DEF Mine, task_id_of, Issued, Tables
<1>2. \A b \in Buffers : \A c \in 1 .. k.staged[b] : k.buffer[b][c] = k.gen[me]
  BY ZenonT(60), <1>k, <1>1 DEF Owned
<1>3. \A b \in Buffers : k.staged[b] \in Nat
  BY <1>k DEF Tables
<1>4. ASSUME NEW b \in Blobs
      PROVE  HandedLength(k, b, asked) \in Nat /\ HandedLength(k, b, asked) <= k.staged[b]
  <2>1. k.staged[b] \in Nat
    BY ZenonT(60), <1>3, Basics
  <2>2. CASE b \in Latched
    BY <2>1, <2>2 DEF HandedLength
  <2>3. CASE b \notin Latched
    <3>1. asked[b] \in Nat
      BY <2>3, BoundAssumption
    <3> QED BY <2>1, <2>3, <3>1 DEF HandedLength, Lesser
  <2> QED BY ZenonT(60), <2>2, <2>3
<1>5. ASSUME NEW b \in Buffers
      PROVE  H[b] \subseteq {k.gen[me]}
  <2>1. CASE b = IMAGE
    <3>1. \A c \in 1 .. size : c \in 1 .. k.staged[IMAGE]
      BY <1>3, Basics
    <3>2. H[b] = {k.buffer[b][c] : c \in 1 .. size}
      BY ZenonT(60), <2>1 DEF Handed
    <3> QED BY <1>2, <2>1, <3>1, <3>2
  <2>2. CASE b # IMAGE
    <3> DEFINE L == HandedLength(k, b, asked)
    <3>0. b \in Blobs
      BY ZenonT(60), <2>2 DEF Buffers
    <3>1. L \in Nat /\ L <= k.staged[b] /\ k.staged[b] \in Nat
      BY ZenonT(60), <1>3, <1>4, <3>0
    <3>2. H[b] = IF L = 0 THEN k.store[i][b] ELSE {k.buffer[b][c] : c \in 1 .. L}
      BY ZenonT(60), <2>2 DEF Handed
    <3>3. k.store[i][b] = {}
      BY ZenonT(60), <1>k DEF Given
    <3> HIDE DEF L, H
    <3>4. \A c \in 1 .. L : c \in 1 .. k.staged[b]
      BY <3>1
    <3>5. {k.buffer[b][c] : c \in 1 .. L} \subseteq {k.gen[me]}
      BY ZenonT(60), <1>2, <3>4
    <3> QED BY <3>2, <3>3, <3>5
  <2> QED BY ZenonT(60), <2>1, <2>2
<1>6. H = [b \in Buffers |-> H[b]]
  BY DEF Handed
<1> HIDE DEF H
<1>7. H \in [Buffers -> SUBSET Nat]
  <2>1. \A b \in Buffers : H[b] \in SUBSET Nat
    BY <1>1, <1>5
  <2> QED BY <1>6, <2>1
<1>8. \A b \in Buffers : 0 \notin H[b]
  BY ZenonT(60), <1>1, <1>5
<1> QED BY ZenonT(60), <1>5, <1>7, <1>8 DEF H

\* SPAWN keeps the tables sound.
LEMMA SpawnSound ==
  ASSUME Sound(Kernel), NEW me \in Slots, NEW i \in Spawnable, NEW size \in Cells(IMAGE),
         NEW asked \in [Blobs \ Latched -> 0 .. MaxAsked], SPAWN(me, i, size, asked)
  PROVE  Sound(Kernel)'
<1> DEFINE k == Kernel
           H == Handed(k, k.store[i], size, asked)
           o == Occupied(allocate_runtime_region(k), i)
           r == [o EXCEPT !.store[i] = H, !.by[i] = k.gen[me]]
<1>0. /\ k.state[me] = "Live" /\ Mine(k, me) /\ k.top > 0 /\ size <= k.staged[IMAGE]
      /\ k.state[i] = "Unused" /\ Become(Forget(release_staging(r), k.gen[me]))
  BY DEF SPAWN, Calling, Kernel
<1>1. i \in Slots /\ size \in Nat
  BY Basics DEF Cells
<1>r. r = [o EXCEPT !.store = [o.store EXCEPT ![i] = H], !.by = [o.by EXCEPT ![i] = k.gen[me]]]
  OBVIOUS
<1>2. /\ H \in [Buffers -> SUBSET Nat]
      /\ \A b \in Buffers : H[b] \subseteq {k.gen[me]} /\ 0 \notin H[b]
  BY ZenonT(60), <1>0, <1>1, HandedIsMine
<1>3. Sound(o) /\ o.nextGen = k.nextGen + 1 /\ o.state[i] = "Live" /\ o.store = k.store
  BY ZenonT(60), <1>0, <1>1, OccupiedSound
<1>4. k.gen[me] \in Nat /\ k.nextGen \in Nat /\ k.gen[me] < k.nextGen
  BY DEF Sound, Tables, Issued
<1> DEFINE C == [o.store EXCEPT ![i] = H]
           B == [o.by EXCEPT ![i] = k.gen[me]]
<1> HIDE DEF k, H, o, r
<1>5. /\ C \in [Slots -> [Buffers -> SUBSET Nat]] /\ B \in [Slots -> Nat]
      /\ C[i] = H /\ B[i] = k.gen[me]
      /\ \A x \in Slots \ {i} : C[x] = o.store[x] /\ B[x] = o.by[x]
  BY ZenonT(60), <1>1, <1>2, <1>3, <1>4 DEF Sound, Tables
<1>6. r = [o EXCEPT !.store = C, !.by = B]
  BY <1>r
<1> HIDE DEF C, B
<1>7. /\ r \in Tables /\ r.store = C /\ r.by = B /\ r.state = o.state /\ r.gen = o.gen
      /\ r.nextGen = o.nextGen /\ r.stager = o.stager /\ r.staged = o.staged
      /\ r.buffer = o.buffer /\ r.top = o.top /\ r.region = o.region
  BY ZenonT(60), <1>3, <1>5, <1>6 DEF Sound, Tables
<1>8. Sound(r)
  <2>1. \A x \in Slots : B[x] < o.nextGen
    BY SMTT(60), <1>3, <1>4, <1>5 DEF Sound, Issued
  <2>2. Issued(r)
    BY ZenonT(60), <1>3, <1>7, <2>1 DEF Sound, Issued
  <2>3. Owned(r) /\ Apart(r)
    <3>1. Owned(r)
      <4>1. Owned(o)
        BY ZenonT(60), <1>3 DEF Sound
      <4>2. live_occupant(o, o.stager) => live_occupant(r, o.stager)
        BY ZenonT(60), <1>7 DEF live_occupant
      <4> QED BY ZenonT(60), <1>7, <4>1, <4>2, SameOwned
    <3>2. Apart(r)
      <4>1. Apart(o)
        BY ZenonT(60), <1>3 DEF Sound
      <4> QED BY ZenonT(60), <1>7, <4>1, SameApart
    <3> QED BY <3>1, <3>2
  <2>4. Given(r)
    <3>1. \A b \in Buffers : C[i][b] \subseteq {B[i]} /\ 0 \notin C[i][b]
      BY ZenonT(60), <1>2, <1>5
    <3>2. \A x \in Slots \ {i}, b \in Buffers : C[x][b] \subseteq {B[x]} /\ 0 \notin C[x][b]
      BY ZenonT(60), <1>3, <1>5 DEF Sound, Given
    <3>3. \A x \in Slots : o.state[x] # "Live" => \A b \in Buffers : C[x][b] = {}
      BY ZenonT(60), <1>3, <1>5 DEF Sound, Given
    <3> QED BY ZenonT(60), <1>7, <3>1, <3>2, <3>3 DEF Given
  <2> QED BY ZenonT(60), <1>7, <2>2, <2>3, <2>4 DEF Sound
<1>9. Sound(release_staging(r)) /\ release_staging(r).stager = NoTask
  BY ZenonT(60), <1>7, <1>8, ReleaseSound, ReleaseEffect DEF Released
<1>10. Sound(Forget(release_staging(r), k.gen[me]))
  BY <1>9, ForgetSound
<1> QED BY <1>0, <1>10, BecomeSound

\* The ends of tasks and the restart of servers keep the tables sound.
LEMMA EndsSound ==
  ASSUME Sound(Kernel), NEW t \in Slots,
         EXIT(t) \/ Killed(t) \/ try_reap(t) \/ \E again \in BOOLEAN : ServerEnds(t, again)
  PROVE  Sound(Kernel)'
<1>1. CASE EXIT(t) \/ Killed(t)
  BY <1>1, EndSound, BecomeSound DEF EXIT, Killed
<1>2. CASE try_reap(t)
  <2> DEFINE k == Kernel
             r == [k EXCEPT !.state[t] = "Unused"]
  <2>0. k.state[t] = "Zombie" /\ Become(r)
    BY <1>2 DEF try_reap, Kernel
  <2> HIDE DEF k
  <2>1. Sound(k)
    BY DEF k
  <2>2. /\ r \in Tables /\ r.state = [k.state EXCEPT ![t] = "Unused"] /\ r.gen = k.gen
        /\ r.nextGen = k.nextGen /\ r.stager = k.stager /\ r.staged = k.staged
        /\ r.buffer = k.buffer /\ r.top = k.top /\ r.region = k.region
        /\ r.store = k.store /\ r.by = k.by
    BY ZenonT(60), <2>1 DEF Sound, Tables
  <2>3. \A x \in Slots : (r.state[x] = "Live") <=> (k.state[x] = "Live")
    BY <2>0, <2>1, <2>2 DEF Sound, Tables
  <2> HIDE DEF r
  <2>4. Owned(r)
    <3>1. k.stager[1] \in Slots
      BY <2>1 DEF Sound, Tables
    <3>2. live_occupant(k, k.stager) => live_occupant(r, k.stager)
      BY ZenonT(60), <2>2, <2>3, <3>1 DEF live_occupant
    <3>3. Owned(k)
      BY ZenonT(60), <2>1 DEF Sound
    <3> QED BY ZenonT(60), <2>2, <3>2, <3>3, SameOwned
  <2>5. Issued(r)
    BY ZenonT(60), <2>1, <2>2, <2>3 DEF Sound, Issued
  <2>6. Given(r)
    BY ZenonT(60), <2>1, <2>2, <2>3 DEF Sound, Given
  <2>7. Apart(r)
    <3>1. Apart(k)
      BY ZenonT(60), <2>1 DEF Sound
    <3> QED BY ZenonT(60), <2>2, <2>3, <3>1, SameApart
  <2>8. Sound(r)
    BY ZenonT(60), <2>2, <2>4, <2>5, <2>6, <2>7 DEF Sound
  <2> QED BY <2>0, <2>8, BecomeSound
<1>3. CASE \E again \in BOOLEAN : ServerEnds(t, again)
  <2> DEFINE k == end_task(Kernel, t, "Unused")
  <2>1. Sound(k) /\ k.state[t] = "Unused"
    BY EndSound
  <2>2. \/ Become(k)
        \/ k.top > 0 /\ Become(Occupied(allocate_runtime_region(k), t))
    BY <1>3 DEF ServerEnds
  <2> HIDE DEF k
  <2>3. CASE Become(k)
    BY <2>1, <2>3, BecomeSound
  <2>4. CASE k.top > 0 /\ Become(Occupied(allocate_runtime_region(k), t))
    BY ZenonT(60), <2>1, <2>4, OccupiedSound, BecomeSound
  <2> QED BY ZenonT(60), <2>2, <2>3, <2>4
<1> QED BY ZenonT(60), <1>1, <1>2, <1>3

\* The machine starts sound.
LEMMA InitSound == Init => Sound(Kernel)
<1> SUFFICES ASSUME Init PROVE Sound(Kernel)
  OBVIOUS
<1>1. /\ Slots \subseteq Nat /\ FIRST_SPAWNABLE \in Nat
      /\ \A t \in Slots \ Spawnable : t + 1 \in Nat /\ t + 1 < FIRST_SPAWNABLE + 1 /\ t + 1 # 0
  BY SlotsAssumption DEF Slots, Spawnable
<1>2. buffer \in BufferTables
  <2>1. \A b \in Buffers : buffer[b] \in [Cells(b) -> Nat]
    BY DEF Init
  <2>2. buffer = [b \in Buffers |-> buffer[b]]
    BY DEF Init
  <2> QED BY <2>1, <2>2, BufferType
<1>3. /\ state \in [Slots -> {"Unused", "Live", "Zombie"}] /\ gen \in [Slots -> Nat]
      /\ nextGen \in Nat /\ 0 < nextGen
      /\ \A t \in Slots : gen[t] < nextGen
      /\ \A t \in Slots : state[t] = "Live" => gen[t] # 0
  BY <1>1 DEF Init
<1>4. /\ stager \in Slots \X Nat /\ staged \in [Buffers -> Nat] /\ top \in Nat
      /\ region \in [Slots -> Nat] /\ store \in [Slots -> [Buffers -> SUBSET Nat]]
      /\ by \in [Slots -> Nat]
  BY ZenonT(60), Basics, BoundAssumption DEF Init, NoRegion
<1>5. Kernel \in Tables
  BY <1>2, <1>3, <1>4 DEF Kernel, Tables
<1>6. Issued(Kernel)
  <2>1. \A b \in Buffers : \A c \in Cells(b) : buffer[b][c] = 0
    BY DEF Init
  <2>2. \A t \in Slots : by[t] = 0
    BY DEF Init
  <2> QED BY ZenonT(60), <1>3, <2>1, <2>2 DEF Issued, Kernel
<1>7. Owned(Kernel)
  BY ZenonT(60), <1>5, ReleasedOwned DEF Init, Kernel
<1>8. Given(Kernel)
  BY ZenonT(60) DEF Init, Given, Kernel
<1>9. Apart(Kernel)
  <2>1. /\ \A t \in Slots : region[t] = NoRegion
        /\ top = RamBlocks
    BY ZenonT(60) DEF Init
  <2>2. Kernel.region = region /\ Kernel.top = top
    BY ZenonT(60) DEF Kernel
  <2>3. RamBlocks <= RamBlocks /\ NoRegion <= RamBlocks
    BY BoundAssumption DEF NoRegion
  <2> QED BY ZenonT(60), <2>1, <2>2, <2>3 DEF Apart
<1> QED BY <1>5, <1>6, <1>7, <1>8, <1>9 DEF Sound

\* Every step keeps the tables sound.
LEMMA NextSound == Sound(Kernel) /\ [Next]_vars => Sound(Kernel)'
<1> SUFFICES ASSUME Sound(Kernel), [Next]_vars PROVE Sound(Kernel)'
  OBVIOUS
<1>1. CASE UNCHANGED vars
  BY ZenonT(60), <1>1, BecomeSound DEF vars, Become, Kernel
<1>2. CASE \E me \in Slots, offset \in 0 .. Size[IMAGE] - 1, len \in 1 .. Size[IMAGE] :
             SPAWN_STAGE(me, offset, len)
  BY ZenonT(60), <1>2, SpawnStageSound
<1>3. CASE \E me \in Slots, b \in Blobs : \E len \in Cells(b) : BlobStage(me, b, len)
  BY ZenonT(60), <1>3, BlobStageSound
<1>4. CASE \E me \in Slots : SpawnRefused(me) \/ SpawnFails(me) \/ SpawnNothing(me)
  BY ZenonT(60), <1>4, RefusedSound, FailsSound
<1>5. CASE \E me \in Slots, i \in Spawnable, size \in Cells(IMAGE),
              asked \in [Blobs \ Latched -> 0 .. MaxAsked] : SPAWN(me, i, size, asked)
  BY ZenonT(60), <1>5, SpawnSound
<1>6. CASE \E t \in Slots : EXIT(t) \/ Killed(t) \/ try_reap(t)
  BY <1>6, EndsSound
<1>7. CASE \E s \in Slots, again \in BOOLEAN : ServerEnds(s, again)
  BY <1>7, EndsSound
<1> QED BY <1>1, <1>2, <1>3, <1>4, <1>5, <1>6, <1>7 DEF Next

\* The inductive invariant of spawning: the staging, the memory and what each
\* program was started with stay sound through every kernel entry.
THEOREM StagingSafety == Spec => []Sound(Kernel)
BY InitSound, NextSound, PTL DEF Spec

\* Every table keeps its type, and no latch exceeds its buffer (the staging
\* calls of syscall.rs).
THEOREM Typing == Spec => []TypeOK
<1>1. Sound(Kernel) => TypeOK
  <2> SUFFICES ASSUME Sound(Kernel) PROVE TypeOK
    BY ZenonT(60)
  <2>1. /\ state \in [Slots -> {"Unused", "Live", "Zombie"}] /\ nextGen \in Nat
        /\ gen \in [Slots -> Nat] /\ by \in [Slots -> Nat] /\ stager \in Slots \X Nat
        /\ staged \in [Buffers -> Nat] /\ buffer \in BufferTables /\ top \in Nat
        /\ region \in [Slots -> Nat] /\ store \in [Slots -> [Buffers -> SUBSET Nat]]
    BY DEF Sound, Tables, Kernel
  <2>2. /\ 0 < nextGen
        /\ \A t \in Slots : gen[t] < nextGen /\ by[t] < nextGen
        /\ \A b \in Buffers : \A c \in Cells(b) : buffer[b][c] < nextGen
    BY ZenonT(60) DEF Sound, Issued, Kernel
  <2>3. gen \in [Slots -> 0 .. nextGen - 1] /\ by \in [Slots -> 0 .. nextGen - 1]
    <3>1. \A t \in Slots : gen[t] \in 0 .. nextGen - 1 /\ by[t] \in 0 .. nextGen - 1
      BY <2>1, <2>2
    <3> QED BY <2>1, <3>1
  <2>4. stager \in Slots \X (0 .. nextGen - 1)
    <3>1. stager = NoTask \/ (stager[1] \in Slots /\ stager[2] = gen[stager[1]])
      BY ZenonT(60), <2>1 DEF Sound, Owned, Kernel, live_occupant
    <3>2. stager[2] \in 0 .. nextGen - 1
      BY SMTT(60), <2>1, <2>2, <2>3, <3>1 DEF NoTask
    <3> QED BY <2>1, <3>2
  <2>5. \A b \in Buffers : buffer[b] \in [Cells(b) -> 0 .. nextGen - 1]
    <3> SUFFICES ASSUME NEW b \in Buffers PROVE buffer[b] \in [Cells(b) -> 0 .. nextGen - 1]
      OBVIOUS
    <3>1. buffer[b] \in [Cells(b) -> Nat]
      BY <2>1 DEF BufferTables
    <3>2. \A c \in Cells(b) : buffer[b][c] \in 0 .. nextGen - 1
      BY <2>1, <2>2, <3>1
    <3> QED BY <3>1, <3>2
  <2>6. store \in [Slots -> [Buffers -> SUBSET (0 .. nextGen - 1)]]
    <3>1. \A t \in Slots, b \in Buffers : store[t][b] \subseteq {by[t]}
      BY ZenonT(60) DEF Sound, Given, Kernel
    <3>2. \A t \in Slots, b \in Buffers : store[t][b] \in SUBSET (0 .. nextGen - 1)
      BY SMTT(60), <2>3, <3>1
    <3>3. \A t \in Slots : store[t] \in [Buffers -> SUBSET (0 .. nextGen - 1)]
      BY <2>1, <3>2
    <3> QED BY <2>1, <3>3
  <2>7. top \in 0 .. RamBlocks /\ region \in [Slots -> 0 .. RamBlocks]
    <3>1. top <= RamBlocks /\ \A t \in Slots : region[t] <= RamBlocks
      BY ZenonT(60) DEF Sound, Apart, Kernel
    <3>2. \A t \in Slots : region[t] \in 0 .. RamBlocks
      BY <2>1, <3>1, BoundAssumption
    <3> QED BY <2>1, <3>1, <3>2, BoundAssumption
  <2>8. \A b \in Buffers : staged[b] <= Size[b]
    BY ZenonT(60) DEF Sound, Owned, Kernel
  <2> QED BY <2>1, <2>3, <2>4, <2>5, <2>6, <2>7, <2>8 DEF TypeOK
<1> QED BY <1>1, StagingSafety, PTL

\* A program is started from nothing but what its own spawner staged for it.
THEOREM ChildrenAreTheirSpawners == Spec => []ChildIsItsSpawners
<1>1. Sound(Kernel) => ChildIsItsSpawners
  BY ZenonT(60) DEF Sound, Given, Kernel, ChildIsItsSpawners
<1> QED BY <1>1, StagingSafety, PTL

\* The staging never belongs to a task that is gone.
THEOREM StagersLive == Spec => []StagerLives
<1>1. Sound(Kernel) => StagerLives
  BY ZenonT(60) DEF Sound, Owned, Kernel, StagerLives
<1> QED BY <1>1, StagingSafety, PTL

\* No two tasks started at run time share memory.
THEOREM MemoryApart == Spec => []RegionsAreDisjoint
<1>1. Sound(Kernel) => RegionsAreDisjoint
  BY ZenonT(60) DEF Sound, Apart, Kernel, RegionsAreDisjoint
<1> QED BY <1>1, StagingSafety, PTL
============================================================================
