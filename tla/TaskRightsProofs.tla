-------------------------- MODULE TaskRightsProofs --------------------------
(***************************************************************************)
(* The properties of TaskRights, for any number of slots, servers and      *)
(* identities.  Sound is the inductive invariant: besides the properties,  *)
(* that a generation names one occupant and that a child is of its         *)
(* parent's line.                                                          *)
(***************************************************************************)
EXTENDS TaskRights, TLAPS

\* Every leaf is given a minute; nearly all take a second or two.
USE SMTT(60), ZenonT(60)

Tables ==
  [state : [Slots -> {"Unused", "Live", "Zombie"}],
   gen : [Slots -> Nat], nextGen : Nat, parent : [Slots -> Nat],
   delegated : [Slots -> [Slots -> Nat]],
   stdout : [Slots -> Slots],
   id : [Slots -> Ids], saved : [Slots -> Ids],
   groups : [Slots -> SUBSET Groups],
   line : [Slots -> 0 .. FIRST_SPAWNABLE - 1],
   stdoutGen : [Slots -> Nat],
   born : [Slots -> [id : Ids, groups : SUBSET Groups]]]

\* Generations are given out in order.
Issued(k) ==
  /\ FIRST_SPAWNABLE < k.nextGen
  /\ \A t \in Slots : k.gen[t] < k.nextGen /\ k.parent[t] < k.nextGen /\ k.stdoutGen[t] < k.nextGen
  /\ \A s, d \in Slots : k.delegated[s][d] < k.nextGen

\* A generation names one occupant, and everything alive has one.
Distinct(k) ==
  /\ \A s, t \in Slots : s # t /\ k.gen[s] = k.gen[t] => k.gen[s] = NONE
  /\ \A t \in Slots : k.state[t] = "Live" => k.gen[t] # NONE

Named(k) ==
  \A s \in Slots, d \in Spawnable : k.delegated[s][d] # NONE => k.delegated[s][d] = k.gen[d]

\* What a task of the line of boot task b may have been handed.
Entitled(b, d) == d \in {0, b} \union OpenServers \union caps_for_slot(b)

Lined(k) ==
  /\ \A s \in Slots, d \in Slots \ Spawnable : k.delegated[s][d] # NONE => Entitled(k.line[s], d)
  /\ \A s \in Slots \ Spawnable : k.line[s] = s
  /\ \A c, p \in Slots :
       k.state[c] = "Live" /\ k.state[p] = "Live" /\ k.parent[c] = k.gen[p] => k.line[c] = k.line[p]

Family(k) ==
  \A c, p \in Slots :
    k.state[c] = "Live" /\ k.state[p] = "Live" /\ k.parent[c] = k.gen[p] =>
      holds_send_right(k, c, p) /\ holds_send_right(k, p, c)

Reaches(k) ==
  \A t \in Spawnable :
    k.state[t] = "Live" /\ Occupant(k, k.stdout[t]) = k.stdoutGen[t] =>
      holds_send_right(k, t, k.stdout[t])

Lowly(k) ==
  \A t \in Spawnable :
    k.state[t] = "Live" /\ k.born[t].id \notin RootIds =>
      k.id[t] \notin RootIds /\ k.saved[t] \notin RootIds /\ k.groups[t] \subseteq k.born[t].groups

Sound(k) ==
  k \in Tables /\ Issued(k) /\ Distinct(k) /\ Named(k) /\ Lined(k) /\ Family(k) /\ Reaches(k) /\ Lowly(k)


----------------------------------------------------------------------------
\* Slots are the protected ones and the spawnable ones, of which CON_TASK is
\* protected (FIRST_SPAWNABLE).
LEMMA SlotFacts ==
  /\ Servers \subseteq Slots /\ Spawnable \subseteq Slots /\ 0 \in Slots
  /\ OpenServers \subseteq Servers /\ CON_TASK \in Slots \ Spawnable
  /\ Slots \subseteq Nat /\ FIRST_SPAWNABLE \in Nat
  /\ \A t \in Slots \ Spawnable : t \in 0 .. FIRST_SPAWNABLE - 1
  /\ \A t \in Spawnable : CON_TASK \in caps_for_slot(t) /\ 0 \in caps_for_slot(t)
BY SlotsAssumption DEF Slots, Servers, Spawnable, caps_for_slot, IDLE

\* The state as a record, and back.
LEMMA KernelFields ==
  /\ Kernel.state = state /\ Kernel.gen = gen /\ Kernel.nextGen = nextGen
  /\ Kernel.parent = parent /\ Kernel.delegated = delegated /\ Kernel.stdout = stdout
  /\ Kernel.id = id /\ Kernel.saved = saved /\ Kernel.groups = groups
  /\ Kernel.line = line /\ Kernel.stdoutGen = stdoutGen /\ Kernel.born = born
BY DEF Kernel

\* What holds of a record and is taken over by Become holds of the state.
LEMMA BecomeSound ==
  ASSUME NEW k, Sound(k), Become(k)
  PROVE  Sound(Kernel)'
<1>k. k \in Tables /\ Issued(k) /\ Distinct(k) /\ Named(k) /\ Lined(k) /\ Family(k)
      /\ Reaches(k) /\ Lowly(k)
  BY DEF Sound
<1>1. Kernel' = k
  BY ZenonT(60), <1>k DEF Kernel, Become, Tables
<1>2. (Kernel \in Tables)'
  BY <1>k, <1>1 DEF Tables
<1>3. Issued(Kernel)'
  BY <1>k, <1>1 DEF Issued
<1>4. Distinct(Kernel)'
  BY <1>k, <1>1 DEF Distinct
<1>5. Named(Kernel)'
  BY <1>k, <1>1 DEF Named
<1>6. Lined(Kernel)'
  BY <1>k, <1>1 DEF Lined
<1>7. Family(Kernel)'
  BY <1>k, <1>1 DEF Family, holds_send_right
<1>8. Reaches(Kernel)'
  BY <1>k, <1>1 DEF Reaches, holds_send_right, Occupant
<1>9. Lowly(Kernel)'
  BY <1>k, <1>1 DEF Lowly
<1> QED BY <1>2, <1>3, <1>4, <1>5, <1>6, <1>7, <1>8, <1>9 DEF Sound

\* set_delegate of a right its line may have keeps every table sound.
LEMMA DelegateSound ==
  ASSUME NEW k, Sound(k), NEW g \in Slots, NEW t \in Slots,
         t \notin Spawnable => Entitled(k.line[g], t)
  PROVE  Sound(set_delegate(k, g, t))
<1> DEFINE r == set_delegate(k, g, t)
<1>k. k \in Tables /\ Issued(k) /\ Distinct(k) /\ Named(k) /\ Lined(k) /\ Family(k)
      /\ Reaches(k) /\ Lowly(k)
  BY DEF Sound
<1>1. Occupant(k, t) \in Nat /\ Occupant(k, t) < k.nextGen
  BY <1>k, SlotFacts DEF Tables, Issued, Occupant
<1>2. r \in Tables
  BY ZenonT(60), <1>k, <1>1 DEF Tables, set_delegate
<1>3. /\ r.state = k.state /\ r.gen = k.gen /\ r.nextGen = k.nextGen /\ r.parent = k.parent
      /\ r.stdout = k.stdout /\ r.id = k.id /\ r.saved = k.saved /\ r.groups = k.groups
      /\ r.line = k.line /\ r.stdoutGen = k.stdoutGen /\ r.born = k.born
      /\ \A s, d \in Slots : r.delegated[s][d] =
           IF s = g /\ d = t THEN Occupant(k, t) ELSE k.delegated[s][d]
  BY <1>k, <1>1 DEF Tables, set_delegate
<1> HIDE DEF r
<1>4. \A s, d \in Slots : holds_send_right(k, s, d) => holds_send_right(r, s, d)
  <2> SUFFICES ASSUME NEW s \in Slots, NEW d \in Slots, k.delegated[s][d] # NONE,
                      r.delegated[s][d] = NONE
               PROVE  FALSE
    BY DEF holds_send_right
  <2>1. s = g /\ d = t /\ Occupant(k, t) = NONE
    BY <1>3
  <2>2. CASE t \in Spawnable
    BY <1>k, <2>1, <2>2 DEF Named, Occupant
  <2>3. CASE t \notin Spawnable
    BY <2>1, <2>3, SlotFacts DEF Occupant, NONE
  <2> QED BY <2>2, <2>3
<1>5. Issued(r)
  BY <1>k, <1>1, <1>3 DEF Issued
<1>6. Distinct(r)
  BY <1>k, <1>3 DEF Distinct
<1>7. Named(r)
  BY <1>k, <1>3, SlotFacts DEF Named, Occupant
<1>8. Lined(r)
  BY <1>k, <1>3 DEF Lined
<1>9. Family(r)
  BY <1>k, <1>3, <1>4 DEF Family
<1>10. Reaches(r)
  <2>1. \A u \in Spawnable : u \in Slots /\ k.stdout[u] \in Slots
    BY <1>k, SlotFacts DEF Tables
  <2> QED BY SMTT(60), <1>k, <1>3, <1>4, <2>1 DEF Reaches, Occupant
<1>11. Lowly(r)
  BY <1>k, <1>3 DEF Lowly
<1> QED BY <1>2, <1>5, <1>6, <1>7, <1>8, <1>9, <1>10, <1>11 DEF Sound, r

\* What end_task makes of the tables: the ended task has nothing, and every
\* other task what it had.
EndedAs(k, t, final, r) ==
  /\ r \in Tables
  /\ r.gen = k.gen /\ r.nextGen = k.nextGen /\ r.parent = k.parent
  /\ r.state[t] = final /\ r.stdoutGen[t] = CON_TASK + 1
  /\ r.line[t] = IF t \in Spawnable THEN 0 ELSE t
  /\ \A d \in Slots : r.delegated[t][d] = NONE
  /\ \A s \in Slots : s # t =>
       /\ r.state[s] = k.state[s] /\ r.stdout[s] = k.stdout[s]
       /\ r.stdoutGen[s] = k.stdoutGen[s] /\ r.id[s] = k.id[s]
       /\ r.saved[s] = k.saved[s] /\ r.groups[s] = k.groups[s]
       /\ r.line[s] = k.line[s] /\ r.born[s] = k.born[s]
       /\ r.delegated[s] = k.delegated[s]

\* end_task does that.
LEMMA EndFacts ==
  ASSUME NEW k \in Tables, NEW t \in Slots, NEW final \in {"Unused", "Zombie"}
  PROVE  EndedAs(k, t, final, end_task(k, t, final))
<1> DEFINE r == end_task(k, t, final)
           c == clear_delegations_of(k, t)
<1>1. /\ CON_TASK \in Slots /\ CON_TASK + 1 \in Nat
      /\ (IF t \in Spawnable THEN 0 ELSE t) \in 0 .. FIRST_SPAWNABLE - 1
      /\ ROOT \in Ids /\ NONE \in Nat
  BY SlotFacts, SlotsAssumption, IdsAssumption DEF NONE
<1>c. /\ c \in Tables
      /\ c.delegated = [k.delegated EXCEPT ![t] = [d \in Slots |-> NONE]]
      /\ c.state = k.state /\ c.gen = k.gen /\ c.nextGen = k.nextGen /\ c.parent = k.parent
      /\ c.stdout = k.stdout /\ c.id = k.id /\ c.saved = k.saved /\ c.groups = k.groups
      /\ c.line = k.line /\ c.stdoutGen = k.stdoutGen /\ c.born = k.born
  BY ZenonT(60), <1>1 DEF Tables, clear_delegations_of
<1>e. r = [c EXCEPT !.state[t] = final, !.stdout[t] = CON_TASK, !.stdoutGen[t] = CON_TASK + 1,
                    !.id[t] = ROOT, !.saved[t] = ROOT, !.groups[t] = {},
                    !.line[t] = IF t \in Spawnable THEN 0 ELSE t,
                    !.born[t] = [id |-> ROOT, groups |-> {}]]
  BY DEF end_task
<1> HIDE DEF c, r
<1>r. r = [state |-> [k.state EXCEPT ![t] = final], gen |-> k.gen, nextGen |-> k.nextGen,
           parent |-> k.parent,
           delegated |-> [k.delegated EXCEPT ![t] = [d \in Slots |-> NONE]],
           stdout |-> [k.stdout EXCEPT ![t] = CON_TASK],
           id |-> [k.id EXCEPT ![t] = ROOT], saved |-> [k.saved EXCEPT ![t] = ROOT],
           groups |-> [k.groups EXCEPT ![t] = {}],
           line |-> [k.line EXCEPT ![t] = IF t \in Spawnable THEN 0 ELSE t],
           stdoutGen |-> [k.stdoutGen EXCEPT ![t] = CON_TASK + 1],
           born |-> [k.born EXCEPT ![t] = [id |-> ROOT, groups |-> {}]]]
  BY ZenonT(60), <1>c, <1>e DEF Tables
<1>f. /\ r.state = [k.state EXCEPT ![t] = final] /\ r.gen = k.gen
      /\ r.nextGen = k.nextGen /\ r.parent = k.parent
      /\ r.delegated = [k.delegated EXCEPT ![t] = [d \in Slots |-> NONE]]
      /\ r.stdout = [k.stdout EXCEPT ![t] = CON_TASK]
      /\ r.id = [k.id EXCEPT ![t] = ROOT] /\ r.saved = [k.saved EXCEPT ![t] = ROOT]
      /\ r.groups = [k.groups EXCEPT ![t] = {}]
      /\ r.line = [k.line EXCEPT ![t] = IF t \in Spawnable THEN 0 ELSE t]
      /\ r.stdoutGen = [k.stdoutGen EXCEPT ![t] = CON_TASK + 1]
      /\ r.born = [k.born EXCEPT ![t] = [id |-> ROOT, groups |-> {}]]
  BY <1>r
<1>2. r \in Tables
  BY ZenonT(60), <1>1, <1>r DEF Tables
<1>t. /\ k.state \in [Slots -> {"Unused", "Live", "Zombie"}] /\ k.delegated \in [Slots -> [Slots -> Nat]]
      /\ k.stdout \in [Slots -> Slots] /\ k.id \in [Slots -> Ids] /\ k.saved \in [Slots -> Ids]
      /\ k.groups \in [Slots -> SUBSET Groups] /\ k.line \in [Slots -> 0 .. FIRST_SPAWNABLE - 1]
      /\ k.stdoutGen \in [Slots -> Nat] /\ k.born \in [Slots -> [id : Ids, groups : SUBSET Groups]]
  BY ZenonT(60) DEF Tables
<1>3. /\ r.gen = k.gen /\ r.nextGen = k.nextGen /\ r.parent = k.parent
      /\ r.state[t] = final /\ r.stdoutGen[t] = CON_TASK + 1
      /\ r.line[t] = IF t \in Spawnable THEN 0 ELSE t
      /\ \A d \in Slots : r.delegated[t][d] = NONE
  BY <1>t, <1>f
<1>4. \A s \in Slots : s # t =>
           /\ r.state[s] = k.state[s] /\ r.stdout[s] = k.stdout[s]
           /\ r.stdoutGen[s] = k.stdoutGen[s] /\ r.id[s] = k.id[s]
           /\ r.saved[s] = k.saved[s] /\ r.groups[s] = k.groups[s]
           /\ r.line[s] = k.line[s] /\ r.born[s] = k.born[s]
           /\ r.delegated[s] = k.delegated[s]
  BY <1>t, <1>f
<1> QED BY ZenonT(60), <1>2, <1>3, <1>4 DEF EndedAs, r

\* end_task takes the ended task out of every table's claims and touches no
\* other task's rights.
LEMMA EndSound ==
  ASSUME NEW k, Sound(k), NEW t \in Slots, NEW final \in {"Unused", "Zombie"}
  PROVE  Sound(end_task(k, t, final))
<1> DEFINE r == end_task(k, t, final)
<1>k. k \in Tables /\ Issued(k) /\ Distinct(k) /\ Named(k) /\ Lined(k) /\ Family(k)
      /\ Reaches(k) /\ Lowly(k)
  BY DEF Sound
<1>1. CON_TASK + 1 < k.nextGen
  BY <1>k, SlotFacts, SlotsAssumption DEF Tables, Issued
<1>e. EndedAs(k, t, final, r)
  BY ZenonT(60), <1>k, EndFacts
<1> HIDE DEF r
<1>2. r \in Tables
  BY ZenonT(60), <1>e DEF EndedAs
<1>3. /\ r.gen = k.gen /\ r.nextGen = k.nextGen /\ r.parent = k.parent
      /\ r.state[t] # "Live" /\ r.stdoutGen[t] = CON_TASK + 1
      /\ r.line[t] = IF t \in Spawnable THEN 0 ELSE t
      /\ \A d \in Slots : r.delegated[t][d] = NONE
  BY <1>e DEF EndedAs
<1>4. \A s \in Slots : s # t =>
           /\ r.state[s] = k.state[s] /\ r.stdout[s] = k.stdout[s]
           /\ r.stdoutGen[s] = k.stdoutGen[s] /\ r.id[s] = k.id[s]
           /\ r.saved[s] = k.saved[s] /\ r.groups[s] = k.groups[s]
           /\ r.line[s] = k.line[s] /\ r.born[s] = k.born[s]
           /\ r.delegated[s] = k.delegated[s]
  BY ZenonT(60), <1>e DEF EndedAs
<1>h. \A s, d \in Slots : s # t => (holds_send_right(k, s, d) <=> holds_send_right(r, s, d))
  BY <1>4 DEF holds_send_right
<1>5. Issued(r)
  <2>1. \A s \in Slots : r.stdoutGen[s] < r.nextGen
    BY ZenonT(60), <1>k, <1>1, <1>3, <1>4 DEF Issued
  <2>2. 0 < k.nextGen /\ \A s, d \in Slots : r.delegated[s][d] < r.nextGen
    <3>1. 0 < k.nextGen
      BY <1>k, SlotsAssumption DEF Tables, Issued
    <3> QED BY SMTT(60), <1>k, <3>1, <1>3, <1>4 DEF Issued, NONE
  <2> QED BY <1>k, <1>3, <2>1, <2>2 DEF Issued
<1>6. Distinct(r)
  BY SMTT(60), <1>k, <1>3, <1>4 DEF Distinct
<1>7. Named(r)
  BY SMTT(60), <1>k, <1>3, <1>4, SlotFacts DEF Named
<1>8. Lined(r)
  BY SMTT(60), <1>k, <1>3, <1>4 DEF Lined
<1>9. Family(r)
  BY SMTT(60), <1>k, <1>3, <1>4, <1>h DEF Family
<1>10. Reaches(r)
  <2>1. \A u \in Spawnable : u \in Slots /\ k.stdout[u] \in Slots
    BY <1>k, SlotFacts DEF Tables
  <2> QED BY SMTT(60), <1>k, <1>3, <1>4, <1>h, <2>1 DEF Reaches, Occupant
<1>11. Lowly(r)
  BY <1>k, <1>3, <1>4, SlotFacts DEF Lowly
<1> QED BY <1>2, <1>5, <1>6, <1>7, <1>8, <1>9, <1>10, <1>11 DEF Sound, r

\* install_task puts a new generation in a server's slot: nobody's parent,
\* and no program's right or stdout is lost.
LEMMA InstallSound ==
  ASSUME NEW k, Sound(k), NEW s \in Servers, k.state[s] = "Unused"
  PROVE  Sound(install_task(k, s))
<1> DEFINE r == install_task(k, s)
<1>k. k \in Tables /\ Issued(k) /\ Distinct(k) /\ Named(k) /\ Lined(k) /\ Family(k)
      /\ Reaches(k) /\ Lowly(k)
  BY DEF Sound
<1>1. s \in Slots /\ s \notin Spawnable
  BY SlotsAssumption DEF Slots, Spawnable, Servers
<1>r. r = [k EXCEPT !.state = [k.state EXCEPT ![s] = "Live"],
                    !.gen = [k.gen EXCEPT ![s] = k.nextGen], !.nextGen = k.nextGen + 1,
                    !.parent = [k.parent EXCEPT ![s] = NONE],
                    !.delegated = [k.delegated EXCEPT ![s] = [d \in Slots |-> NONE]]]
  BY ZenonT(60), <1>k DEF Tables, install_task, issue_generation, clear_delegations_of
<1> HIDE DEF r
<1>f. /\ r.state = [k.state EXCEPT ![s] = "Live"]
      /\ r.gen = [k.gen EXCEPT ![s] = k.nextGen] /\ r.nextGen = k.nextGen + 1
      /\ r.parent = [k.parent EXCEPT ![s] = NONE]
      /\ r.delegated = [k.delegated EXCEPT ![s] = [d \in Slots |-> NONE]]
      /\ r.stdout = k.stdout /\ r.stdoutGen = k.stdoutGen
      /\ r.id = k.id /\ r.saved = k.saved /\ r.groups = k.groups
      /\ r.line = k.line /\ r.born = k.born
  BY <1>k, <1>r DEF Tables
<1>2. r \in Tables
  <2>1. NONE \in Nat /\ k.nextGen + 1 \in Nat
    BY <1>k DEF Tables, NONE
  <2> QED BY ZenonT(60), <1>k, <1>1, <1>r, <2>1 DEF Tables
<1>3. /\ r.gen[s] = k.nextGen /\ r.parent[s] = NONE /\ r.state[s] = "Live"
      /\ \A d \in Slots : r.delegated[s][d] = NONE
  BY SMTT(60), <1>k, <1>1, <1>f DEF Tables
<1>4. \A t \in Slots : t # s =>
           /\ r.state[t] = k.state[t] /\ r.gen[t] = k.gen[t] /\ r.parent[t] = k.parent[t]
           /\ r.delegated[t] = k.delegated[t]
  BY <1>k, <1>1, <1>f DEF Tables
<1>n. /\ \A t \in Slots : k.gen[t] # k.nextGen /\ k.parent[t] # k.nextGen
      /\ k.nextGen # NONE
  BY <1>k, SlotsAssumption DEF Tables, Issued, NONE
<1>h. \A t, d \in Slots : t # s => (holds_send_right(k, t, d) <=> holds_send_right(r, t, d))
  BY <1>4 DEF holds_send_right
<1>5. Issued(r)
  <2>1. /\ k.nextGen \in Nat /\ \A t \in Slots : k.gen[t] \in Nat /\ k.parent[t] \in Nat /\ k.stdoutGen[t] \in Nat
        /\ \A t, d \in Slots : k.delegated[t][d] \in Nat
    BY <1>k DEF Tables
  <2> QED BY SMTT(60), <1>k, <2>1, <1>1, <1>3, <1>4, <1>f, SlotsAssumption DEF Issued, NONE
<1>6. Distinct(r)
  BY <1>k, <1>3, <1>4, <1>n DEF Distinct
<1>7. Named(r)
  BY SMTT(60), <1>k, <1>1, <1>3, <1>4, SlotFacts DEF Named
<1>p. \A c, p \in Slots :
        r.state[c] = "Live" /\ r.state[p] = "Live" /\ r.parent[c] = r.gen[p] =>
          /\ c # s /\ p # s
          /\ k.state[c] = "Live" /\ k.state[p] = "Live" /\ k.parent[c] = k.gen[p]
  BY SMTT(60), <1>k, <1>3, <1>4, <1>n DEF Distinct
<1>8. Lined(r)
  <2>1. Lined(k) /\ r.line = k.line
    BY ZenonT(60), <1>k, <1>f
  <2>2. \A t \in Slots, d \in Slots \ Spawnable :
          r.delegated[t][d] # NONE => k.delegated[t][d] # NONE
    BY ZenonT(60), <1>3, <1>4
  <2> QED BY <2>1, <2>2, <1>p DEF Lined
<1>9. Family(r)
  BY ZenonT(60), <1>k, <1>h, <1>p DEF Family
<1>10. Reaches(r)
  <2>1. \A u \in Spawnable : u \in Slots /\ u # s /\ k.stdout[u] \in Slots
    BY ZenonT(60), <1>k, <1>1, SlotFacts DEF Tables
  <2> QED BY SMTT(60), <1>k, <1>1, <1>f, <1>3, <1>4, <1>h, <2>1 DEF Reaches, Occupant
<1>11. Lowly(r)
  BY <1>k, <1>1, <1>f, <1>4, SlotFacts DEF Lowly
<1> QED BY <1>2, <1>5, <1>6, <1>7, <1>8, <1>9, <1>10, <1>11 DEF Sound, r

\* What spawn leaves in each table.
SpawnedAs(k, me, i, r) ==
  /\ r \in Tables
  /\ r.nextGen = k.nextGen + 1
  /\ r.stdout = k.stdout /\ r.id = k.id /\ r.saved = k.saved /\ r.groups = k.groups
  /\ r.stdoutGen = k.stdoutGen /\ r.born = k.born
  /\ r.gen[i] = k.nextGen /\ r.parent[i] = k.gen[me] /\ r.line[i] = k.line[me]
  /\ r.state[i] = "Live"
  /\ \A s \in Slots : s # i =>
       /\ r.gen[s] = k.gen[s] /\ r.parent[s] = k.parent[s]
       /\ r.line[s] = k.line[s] /\ r.state[s] = k.state[s]
  /\ \A s, d \in Slots : r.delegated[s][d] =
       IF s = i /\ d = me THEN Occupant(k, me)
       ELSE IF s = me /\ d = i THEN k.nextGen
       ELSE IF s = i \/ d = i THEN NONE
       ELSE k.delegated[s][d]

\* spawn computes just that.
LEMMA SpawnFacts ==
  ASSUME NEW k \in Tables, NEW me \in Slots, NEW i \in Spawnable, me # i, NEW r,
         r = spawn(k, me, i)
  PROVE  SpawnedAs(k, me, i, r)
<1>i. i \in Slots /\ NONE \in Nat
  BY SlotFacts DEF NONE
<1> DEFINE a == clear_delegations_at(clear_delegations_of(k, i), i)
<1>1. /\ a \in Tables
      /\ a = [k EXCEPT !.delegated = a.delegated]
      /\ \A s, d \in Slots : a.delegated[s][d] = IF s = i \/ d = i THEN NONE ELSE k.delegated[s][d]
  <2> DEFINE c == clear_delegations_of(k, i)
  <2>1. /\ c \in Tables
        /\ c = [k EXCEPT !.delegated = c.delegated]
        /\ \A s, d \in Slots : c.delegated[s][d] = IF s = i THEN NONE ELSE k.delegated[s][d]
    BY ZenonT(60), <1>i DEF Tables, clear_delegations_of
  <2>2. a = [c EXCEPT !.delegated = [s \in Slots |-> [c.delegated[s] EXCEPT ![i] = NONE]]]
    BY DEF clear_delegations_at
  <2> HIDE DEF a, c
  <2>3. /\ a \in Tables
        /\ a = [k EXCEPT !.delegated = a.delegated]
        /\ a.delegated = [s \in Slots |-> [c.delegated[s] EXCEPT ![i] = NONE]]
    BY ZenonT(60), <1>i, <2>1, <2>2 DEF Tables
  <2>4. \A s \in Slots : c.delegated[s] \in [Slots -> Nat]
    BY <2>1 DEF Tables
  <2> QED BY <1>i, <2>1, <2>3, <2>4
<1> DEFINE g == issue_generation(a, i)
<1> DEFINE b == [g EXCEPT !.parent[i] = k.gen[me], !.line[i] = k.line[me], !.state[i] = "Live"]
<1>2. r = set_delegate(set_delegate(b, i, me), me, i)
  BY DEF spawn
<1> HIDE DEF a
<1>a. /\ a.state = k.state /\ a.gen = k.gen /\ a.nextGen = k.nextGen /\ a.parent = k.parent
      /\ a.stdout = k.stdout /\ a.id = k.id /\ a.saved = k.saved /\ a.groups = k.groups
      /\ a.line = k.line /\ a.stdoutGen = k.stdoutGen /\ a.born = k.born
  BY <1>1 DEF Tables
<1>g. /\ g \in Tables
      /\ g = [a EXCEPT !.gen = [a.gen EXCEPT ![i] = a.nextGen], !.nextGen = a.nextGen + 1]
  <2>1. a \in Tables
    BY <1>1
  <2>2. g = [a EXCEPT !.gen = [a.gen EXCEPT ![i] = a.nextGen], !.nextGen = a.nextGen + 1]
    BY <2>1 DEF Tables, issue_generation
  <2> HIDE DEF g
  <2>a. a.nextGen + 1 \in Nat /\ [a.gen EXCEPT ![i] = a.nextGen] \in [Slots -> Nat]
    BY <2>1, <1>i DEF Tables
  <2>3. g \in Tables
    BY ZenonT(60), <2>1, <2>2, <2>a DEF Tables
  <2> QED BY <2>2, <2>3
<1> HIDE DEF g
<1>e. b = [g EXCEPT !.parent[i] = k.gen[me], !.line[i] = k.line[me], !.state[i] = "Live"]
  OBVIOUS
<1> HIDE DEF b
<1>h. /\ g.state = a.state /\ g.gen = [a.gen EXCEPT ![i] = a.nextGen] /\ g.nextGen = a.nextGen + 1
      /\ g.parent = a.parent /\ g.delegated = a.delegated
      /\ g.stdout = a.stdout /\ g.id = a.id /\ g.saved = a.saved /\ g.groups = a.groups
      /\ g.line = a.line /\ g.stdoutGen = a.stdoutGen /\ g.born = a.born
  BY <1>1, <1>g DEF Tables
<1>b. /\ b \in Tables
      /\ b.state = [k.state EXCEPT ![i] = "Live"] /\ b.parent = [k.parent EXCEPT ![i] = k.gen[me]]
      /\ b.line = [k.line EXCEPT ![i] = k.line[me]]
      /\ b.gen = [k.gen EXCEPT ![i] = k.nextGen] /\ b.nextGen = k.nextGen + 1
      /\ b.delegated = a.delegated
      /\ b.stdout = k.stdout /\ b.id = k.id /\ b.saved = k.saved /\ b.groups = k.groups
      /\ b.stdoutGen = k.stdoutGen /\ b.born = k.born
  <2>1. b = [g EXCEPT !.parent = [k.parent EXCEPT ![i] = k.gen[me]],
                      !.line = [k.line EXCEPT ![i] = k.line[me]],
                      !.state = [k.state EXCEPT ![i] = "Live"]]
    BY ZenonT(60), <1>a, <1>e, <1>g, <1>h DEF Tables
  <2>2. k.gen[me] \in Nat /\ k.line[me] \in 0 .. FIRST_SPAWNABLE - 1
    BY DEF Tables
  <2> QED BY ZenonT(60), <1>a, <1>g, <1>h, <2>1, <2>2 DEF Tables
<1>o. Occupant(b, me) = Occupant(k, me) /\ Occupant(b, i) = k.nextGen /\ Occupant(b, me) \in Nat
      /\ k.nextGen \in Nat
  BY SMTT(60), <1>i, <1>b, SlotFacts DEF Tables, Occupant
<1> DEFINE c == set_delegate(b, i, me)
<1>c. /\ c \in Tables
      /\ c = [b EXCEPT !.delegated = c.delegated]
      /\ \A s, d \in Slots : c.delegated[s][d] =
           IF s = i /\ d = me THEN Occupant(k, me) ELSE b.delegated[s][d]
  <2>1. b.delegated \in [Slots -> [Slots -> Nat]]
    BY <1>b DEF Tables
  <2>2. c = [b EXCEPT !.delegated = [b.delegated EXCEPT ![i] =
                         [b.delegated[i] EXCEPT ![me] = Occupant(k, me)]]]
    BY <1>o DEF set_delegate
  <2> DEFINE D == [b.delegated EXCEPT ![i] = [b.delegated[i] EXCEPT ![me] = Occupant(k, me)]]
  <2>3. /\ D \in [Slots -> [Slots -> Nat]]
        /\ \A s, d \in Slots : D[s][d] =
             IF s = i /\ d = me THEN Occupant(k, me) ELSE b.delegated[s][d]
    BY <2>1, <1>i, <1>o
  <2> HIDE DEF c, D
  <2>4. c = [b EXCEPT !.delegated = D]
    BY <2>2 DEF D
  <2>5. c \in Tables /\ c.delegated = D
    BY ZenonT(60), <1>b, <2>3, <2>4 DEF Tables
  <2> QED BY <2>3, <2>4, <2>5
<1> HIDE DEF c
<1>d. /\ c.state = b.state /\ c.gen = b.gen /\ c.nextGen = b.nextGen /\ c.parent = b.parent
      /\ c.stdout = b.stdout /\ c.id = b.id /\ c.saved = b.saved /\ c.groups = b.groups
      /\ c.line = b.line /\ c.stdoutGen = b.stdoutGen /\ c.born = b.born
  BY ZenonT(60), <1>b, <1>c DEF Tables
<1>p. Occupant(c, i) = k.nextGen
  BY <1>d, <1>o DEF Occupant
<1>q. r = [c EXCEPT !.delegated[me][i] = k.nextGen]
  BY ZenonT(60), <1>2, <1>p DEF set_delegate, c
<1>r. /\ r \in Tables
      /\ r = [c EXCEPT !.delegated = r.delegated]
      /\ \A s, d \in Slots : r.delegated[s][d] =
           IF s = me /\ d = i THEN k.nextGen ELSE c.delegated[s][d]
  <2>1. c.delegated \in [Slots -> [Slots -> Nat]]
    BY <1>c DEF Tables
  <2> DEFINE D == [c.delegated EXCEPT ![me] = [c.delegated[me] EXCEPT ![i] = k.nextGen]]
  <2>3. /\ D \in [Slots -> [Slots -> Nat]]
        /\ \A s, d \in Slots : D[s][d] =
             IF s = me /\ d = i THEN k.nextGen ELSE c.delegated[s][d]
    BY <2>1, <1>i, <1>o
  <2>4. r = [c EXCEPT !.delegated = D]
    BY <1>q
  <2> HIDE DEF D
  <2>5. r \in Tables /\ r.delegated = D
    BY ZenonT(60), <1>c, <2>3, <2>4 DEF Tables
  <2> QED BY <2>3, <2>4, <2>5
<1>s. /\ r.state = c.state /\ r.gen = c.gen /\ r.nextGen = c.nextGen /\ r.parent = c.parent
      /\ r.stdout = c.stdout /\ r.id = c.id /\ r.saved = c.saved /\ r.groups = c.groups
      /\ r.line = c.line /\ r.stdoutGen = c.stdoutGen /\ r.born = c.born
  BY <1>c, <1>r DEF Tables
<1>t. \A s, d \in Slots : r.delegated[s][d] =
              IF s = i /\ d = me THEN Occupant(k, me)
              ELSE IF s = me /\ d = i THEN k.nextGen
              ELSE IF s = i \/ d = i THEN NONE
              ELSE k.delegated[s][d]
  BY <1>1, <1>b, <1>c, <1>r
<1>u. /\ r.gen[i] = k.nextGen /\ r.parent[i] = k.gen[me] /\ r.line[i] = k.line[me]
      /\ r.state[i] = "Live"
      /\ \A s \in Slots : s # i =>
           /\ r.gen[s] = k.gen[s] /\ r.parent[s] = k.parent[s]
           /\ r.line[s] = k.line[s] /\ r.state[s] = k.state[s]
  <2>1. /\ k.gen \in [Slots -> Nat] /\ k.parent \in [Slots -> Nat]
        /\ k.line \in [Slots -> 0 .. FIRST_SPAWNABLE - 1]
        /\ k.state \in [Slots -> {"Unused", "Live", "Zombie"}]
    BY ZenonT(60) DEF Tables
  <2> QED BY SMTT(60), <1>i, <2>1, <1>b, <1>d, <1>s
<1> QED BY <1>b, <1>d, <1>r, <1>s, <1>t, <1>u DEF SpawnedAs

\* What set_stdout and inherit_id then leave of a spawned program.
EquippedAs(p, me, i, out, r) ==
  /\ r \in Tables
  /\ r.state = p.state /\ r.gen = p.gen /\ r.nextGen = p.nextGen
  /\ r.parent = p.parent /\ r.line = p.line
  /\ r.stdout[i] = out /\ r.stdoutGen[i] = Occupant(p, out)
  /\ r.id[i] = p.id[me] /\ r.saved[i] = p.id[me] /\ r.groups[i] = p.groups[me]
  /\ r.born[i] = [id |-> p.id[me], groups |-> p.groups[me]]
  /\ \A s \in Slots : s # i =>
       /\ r.stdout[s] = p.stdout[s] /\ r.stdoutGen[s] = p.stdoutGen[s]
       /\ r.id[s] = p.id[s] /\ r.saved[s] = p.saved[s] /\ r.groups[s] = p.groups[s]
       /\ r.born[s] = p.born[s]
  /\ \A s, d \in Slots : r.delegated[s][d] =
       IF s = i /\ d = out /\ out # CON_TASK /\ ~holds_send_right(p, i, out)
       THEN Occupant(p, out) ELSE p.delegated[s][d]

\* set_stdout and inherit_id compute just that.
LEMMA EquipFacts ==
  ASSUME NEW p \in Tables, NEW me \in Slots, NEW i \in Slots, NEW out \in Slots, NEW r,
         r = inherit_id(set_stdout(p, i, out), i, me)
  PROVE  EquippedAs(p, me, i, out, r)
<1>o. Occupant(p, out) \in Nat
  BY SlotFacts DEF Occupant, Tables
<1> DEFINE D == IF out = CON_TASK \/ holds_send_right(p, i, out) THEN p.delegated
                ELSE [p.delegated EXCEPT ![i] = [p.delegated[i] EXCEPT ![out] = Occupant(p, out)]]
<1>d. /\ D \in [Slots -> [Slots -> Nat]]
      /\ \A s, d \in Slots : D[s][d] =
              IF s = i /\ d = out /\ out # CON_TASK /\ ~holds_send_right(p, i, out)
              THEN Occupant(p, out) ELSE p.delegated[s][d]
  <2>1. p.delegated \in [Slots -> [Slots -> Nat]]
    BY ZenonT(60) DEF Tables
  <2>2. CASE out = CON_TASK \/ holds_send_right(p, i, out)
    BY ZenonT(60), <2>1, <2>2
  <2>3. CASE ~(out = CON_TASK \/ holds_send_right(p, i, out))
    <3>1. D = [p.delegated EXCEPT ![i] = [p.delegated[i] EXCEPT ![out] = Occupant(p, out)]]
      BY <2>3
    <3>2. p.delegated[i] \in [Slots -> Nat]
      BY <2>1
    <3>3. [p.delegated[i] EXCEPT ![out] = Occupant(p, out)] \in [Slots -> Nat]
      BY <3>2, <1>o
    <3> QED BY <2>1, <2>3, <3>1, <3>2, <3>3
  <2> QED BY ZenonT(60), <2>2, <2>3
<1> DEFINE q == [p EXCEPT !.delegated = D]
<1>q. /\ q \in Tables /\ q.delegated = D
      /\ q.state = p.state /\ q.gen = p.gen /\ q.nextGen = p.nextGen /\ q.parent = p.parent
      /\ q.stdout = p.stdout /\ q.id = p.id /\ q.saved = p.saved /\ q.groups = p.groups
      /\ q.line = p.line /\ q.stdoutGen = p.stdoutGen /\ q.born = p.born
  <2> HIDE DEF D
  <2> QED BY ZenonT(60), <1>d DEF Tables
<1>e. q = IF out = CON_TASK \/ holds_send_right(p, i, out) THEN p ELSE set_delegate(p, i, out)
  <2>1. CASE out = CON_TASK \/ holds_send_right(p, i, out)
    <3>1. D = p.delegated
      BY <2>1
    <3> HIDE DEF D
    <3>2. q = p
      BY <3>1 DEF Tables
    <3> QED BY <2>1, <3>2
  <2>2. CASE ~(out = CON_TASK \/ holds_send_right(p, i, out))
    <3>1. D = [p.delegated EXCEPT ![i] = [p.delegated[i] EXCEPT ![out] = Occupant(p, out)]]
      BY <2>2
    <3> HIDE DEF D
    <3>2. q = set_delegate(p, i, out)
      BY <3>1 DEF Tables, set_delegate
    <3> QED BY <2>2, <3>2
  <2> QED BY <2>1, <2>2
<1> HIDE DEF q, D
<1> DEFINE w == set_stdout(p, i, out)
<1>w. w = [q EXCEPT !.stdout = [q.stdout EXCEPT ![i] = out],
                    !.stdoutGen = [q.stdoutGen EXCEPT ![i] = Occupant(p, out)]]
  BY <1>e, <1>q DEF set_stdout, Tables
<1> HIDE DEF w
<1>x. /\ w \in Tables /\ w.delegated = D
      /\ w.state = p.state /\ w.gen = p.gen /\ w.nextGen = p.nextGen /\ w.parent = p.parent
      /\ w.id = p.id /\ w.saved = p.saved /\ w.groups = p.groups
      /\ w.line = p.line /\ w.born = p.born
      /\ w.stdout = [p.stdout EXCEPT ![i] = out]
      /\ w.stdoutGen = [p.stdoutGen EXCEPT ![i] = Occupant(p, out)]
  <2>1. /\ [q.stdout EXCEPT ![i] = out] \in [Slots -> Slots]
        /\ [q.stdoutGen EXCEPT ![i] = Occupant(p, out)] \in [Slots -> Nat]
    BY <1>q, <1>o DEF Tables
  <2> QED BY ZenonT(60), <1>q, <1>w, <2>1 DEF Tables
<1>y. r = [w EXCEPT !.id = [w.id EXCEPT ![i] = w.id[me]],
                    !.saved = [w.saved EXCEPT ![i] = w.id[me]],
                    !.groups = [w.groups EXCEPT ![i] = w.groups[me]],
                    !.born = [w.born EXCEPT ![i] = [id |-> w.id[me], groups |-> w.groups[me]]]]
  BY ZenonT(60), <1>x DEF inherit_id, Tables, w
<1>z. /\ r \in Tables /\ r.delegated = D
      /\ r.state = p.state /\ r.gen = p.gen /\ r.nextGen = p.nextGen /\ r.parent = p.parent
      /\ r.line = p.line
      /\ r.stdout = [p.stdout EXCEPT ![i] = out]
      /\ r.stdoutGen = [p.stdoutGen EXCEPT ![i] = Occupant(p, out)]
      /\ r.id = [p.id EXCEPT ![i] = p.id[me]] /\ r.saved = [p.saved EXCEPT ![i] = p.id[me]]
      /\ r.groups = [p.groups EXCEPT ![i] = p.groups[me]]
      /\ r.born = [p.born EXCEPT ![i] = [id |-> p.id[me], groups |-> p.groups[me]]]
  <2>1. /\ [w.id EXCEPT ![i] = w.id[me]] \in [Slots -> Ids]
        /\ [w.saved EXCEPT ![i] = w.id[me]] \in [Slots -> Ids]
        /\ [w.groups EXCEPT ![i] = w.groups[me]] \in [Slots -> SUBSET Groups]
        /\ [w.born EXCEPT ![i] = [id |-> w.id[me], groups |-> w.groups[me]]]
             \in [Slots -> [id : Ids, groups : SUBSET Groups]]
    BY ZenonT(60), <1>x DEF Tables
  <2> DEFINE I == [w.id EXCEPT ![i] = w.id[me]]
             V == [w.saved EXCEPT ![i] = w.id[me]]
             G == [w.groups EXCEPT ![i] = w.groups[me]]
             B == [w.born EXCEPT ![i] = [id |-> w.id[me], groups |-> w.groups[me]]]
  <2>2. r = [w EXCEPT !.id = I, !.saved = V, !.groups = G, !.born = B]
    BY <1>y
  <2>3. /\ I = [p.id EXCEPT ![i] = p.id[me]] /\ V = [p.saved EXCEPT ![i] = p.id[me]]
        /\ G = [p.groups EXCEPT ![i] = p.groups[me]]
        /\ B = [p.born EXCEPT ![i] = [id |-> p.id[me], groups |-> p.groups[me]]]
    BY <1>x
  <2> HIDE DEF I, V, G, B
  <2>4. /\ r \in Tables /\ r.id = I /\ r.saved = V /\ r.groups = G /\ r.born = B
        /\ r.state = w.state /\ r.gen = w.gen /\ r.nextGen = w.nextGen /\ r.parent = w.parent
        /\ r.line = w.line /\ r.stdout = w.stdout /\ r.stdoutGen = w.stdoutGen
        /\ r.delegated = w.delegated
    <3>1. I \in [Slots -> Ids] /\ V \in [Slots -> Ids] /\ G \in [Slots -> SUBSET Groups]
          /\ B \in [Slots -> [id : Ids, groups : SUBSET Groups]]
      BY <2>1 DEF I, V, G, B
    <3>2. w \in Tables
      BY <1>x
    <3> QED BY ZenonT(60), <3>1, <3>2, <2>2 DEF Tables
  <2> QED BY ZenonT(60), <1>x, <2>3, <2>4
<1>t. /\ p.stdout \in [Slots -> Slots] /\ p.stdoutGen \in [Slots -> Nat]
      /\ p.id \in [Slots -> Ids] /\ p.saved \in [Slots -> Ids]
      /\ p.groups \in [Slots -> SUBSET Groups]
      /\ p.born \in [Slots -> [id : Ids, groups : SUBSET Groups]]
  BY DEF Tables
<1>v. \A s \in Slots : s # i =>
        /\ r.stdout[s] = p.stdout[s] /\ r.stdoutGen[s] = p.stdoutGen[s]
        /\ r.id[s] = p.id[s] /\ r.saved[s] = p.saved[s] /\ r.groups[s] = p.groups[s]
        /\ r.born[s] = p.born[s]
  BY SMTT(60), <1>z, <1>t
<1>u. /\ r.stdout[i] = out /\ r.stdoutGen[i] = Occupant(p, out)
      /\ r.id[i] = p.id[me] /\ r.saved[i] = p.id[me] /\ r.groups[i] = p.groups[me]
      /\ r.born[i] = [id |-> p.id[me], groups |-> p.groups[me]]
  BY SMTT(60), <1>z, <1>t
<1> QED BY SMTT(60), <1>d, <1>z, <1>u, <1>v DEF EquippedAs

\* What a SPAWN makes of the tables in one step: the child's slot,
FreshSlot(k, me, i, r) ==
  /\ r.nextGen = k.nextGen + 1
  /\ r.gen[i] = k.nextGen /\ r.parent[i] = k.gen[me] /\ r.line[i] = k.line[me]
  /\ r.state[i] = "Live"
  /\ \A s \in Slots : s # i =>
       /\ r.gen[s] = k.gen[s] /\ r.parent[s] = k.parent[s]
       /\ r.line[s] = k.line[s] /\ r.state[s] = k.state[s]

\* its rights and those aimed at it,
FreshRights(k, me, i, out, r) ==
  \A s, d \in Slots :
    /\ s # i /\ d # i => r.delegated[s][d] = k.delegated[s][d]
    /\ s = me /\ d = i => r.delegated[s][d] = k.nextGen
    /\ s # i /\ s # me /\ d = i => r.delegated[s][d] = NONE
    /\ s = i /\ d = me => r.delegated[s][d] = Occupant(k, me)
    /\ s = i /\ d # me /\ d # out => r.delegated[s][d] = NONE
    /\ s = i /\ d = out /\ out # me =>
         r.delegated[s][d] = NONE \/ r.delegated[s][d] = Occupant(k, out)

\* its output,
FreshOutput(k, i, out, r) ==
  /\ r.stdout[i] = out /\ r.stdoutGen[i] = Occupant(k, out)
  /\ \A s \in Slots : s # i => r.stdout[s] = k.stdout[s] /\ r.stdoutGen[s] = k.stdoutGen[s]

\* and its user.
FreshUser(k, me, i, r) ==
  /\ r.id[i] = k.id[me] /\ r.saved[i] = k.id[me] /\ r.groups[i] = k.groups[me]
  /\ r.born[i] = [id |-> k.id[me], groups |-> k.groups[me]]
  /\ \A s \in Slots : s # i =>
       /\ r.id[s] = k.id[s] /\ r.saved[s] = k.saved[s] /\ r.groups[s] = k.groups[s]
       /\ r.born[s] = k.born[s]

\* Occupants are generations already handed out, and a running task's is not
\* NONE.
LEMMA OccupantFacts ==
  ASSUME NEW k \in Tables, Issued(k), Distinct(k)
  PROVE  /\ \A t \in Slots : Occupant(k, t) \in Nat /\ Occupant(k, t) < k.nextGen
         /\ \A t \in Slots : k.state[t] = "Live" \/ t \notin Spawnable => Occupant(k, t) # NONE
         /\ \A t \in Slots : k.gen[t] # k.nextGen /\ k.parent[t] # k.nextGen /\ k.stdoutGen[t] # k.nextGen
         /\ k.nextGen # NONE /\ NONE \in Nat /\ k.nextGen \in Nat
<1>1. \A t \in Slots : Occupant(k, t) \in Nat /\ Occupant(k, t) < k.nextGen
  BY SlotFacts DEF Tables, Issued, Occupant
<1>2. \A t \in Slots : t \notin Spawnable => Occupant(k, t) # NONE
  BY SlotFacts DEF Occupant, NONE
<1>3. \A t \in Spawnable : k.state[t] = "Live" => Occupant(k, t) # NONE
  BY SlotFacts DEF Distinct, Occupant
<1>4. /\ \A t \in Slots : k.gen[t] # k.nextGen /\ k.parent[t] # k.nextGen /\ k.stdoutGen[t] # k.nextGen
      /\ k.nextGen # NONE /\ NONE \in Nat /\ k.nextGen \in Nat
  BY SlotsAssumption DEF Tables, Issued, NONE
<1> QED BY <1>1, <1>2, <1>3, <1>4

\* spawn, set_stdout and inherit_id together make just that.
LEMMA SpawnMakes ==
  ASSUME NEW k, NEW p, NEW r, NEW me \in Slots, NEW i \in Spawnable, i \in Slots,
         NEW out \in Slots, me # i, out # i, Occupant(k, me) # NONE,
         SpawnedAs(k, me, i, p), EquippedAs(p, me, i, out, r)
  PROVE  /\ FreshSlot(k, me, i, r) /\ FreshRights(k, me, i, out, r)
         /\ FreshOutput(k, i, out, r) /\ FreshUser(k, me, i, r)
         /\ out = CON_TASK \/ Occupant(k, out) # NONE => holds_send_right(r, i, out)
<1>p. /\ p.nextGen = k.nextGen + 1
      /\ p.gen[i] = k.nextGen /\ p.parent[i] = k.gen[me] /\ p.line[i] = k.line[me]
      /\ p.state[i] = "Live"
      /\ \A s \in Slots : s # i =>
           /\ p.gen[s] = k.gen[s] /\ p.parent[s] = k.parent[s]
           /\ p.line[s] = k.line[s] /\ p.state[s] = k.state[s]
  BY ZenonT(60) DEF SpawnedAs
<1>r. /\ r.state = p.state /\ r.gen = p.gen /\ r.nextGen = p.nextGen
      /\ r.parent = p.parent /\ r.line = p.line
  BY ZenonT(60) DEF EquippedAs
<1>1. FreshSlot(k, me, i, r)
  BY <1>p, <1>r DEF FreshSlot
<1>o. \A t \in Slots : t # i => Occupant(p, t) = Occupant(k, t)
  BY ZenonT(60), <1>p DEF Occupant
<1>2. FreshOutput(k, i, out, r)
  <2>1. p.stdout = k.stdout /\ p.stdoutGen = k.stdoutGen
    BY ZenonT(60) DEF SpawnedAs
  <2>2. /\ r.stdout[i] = out /\ r.stdoutGen[i] = Occupant(p, out)
        /\ \A s \in Slots : s # i => r.stdout[s] = p.stdout[s] /\ r.stdoutGen[s] = p.stdoutGen[s]
    BY ZenonT(60) DEF EquippedAs
  <2> QED BY ZenonT(60), <2>1, <2>2, <1>o DEF FreshOutput
<1>3. FreshUser(k, me, i, r)
  <2>1. p.id = k.id /\ p.saved = k.saved /\ p.groups = k.groups /\ p.born = k.born
    BY ZenonT(60) DEF SpawnedAs
  <2>2. /\ r.id[i] = p.id[me] /\ r.saved[i] = p.id[me] /\ r.groups[i] = p.groups[me]
        /\ r.born[i] = [id |-> p.id[me], groups |-> p.groups[me]]
        /\ \A s \in Slots : s # i =>
             /\ r.id[s] = p.id[s] /\ r.saved[s] = p.saved[s] /\ r.groups[s] = p.groups[s]
             /\ r.born[s] = p.born[s]
    BY ZenonT(60) DEF EquippedAs
  <2> QED BY <2>1, <2>2 DEF FreshUser
<1>q. \A s, d \in Slots : p.delegated[s][d] =
           IF s = i /\ d = me THEN Occupant(k, me)
           ELSE IF s = me /\ d = i THEN k.nextGen
           ELSE IF s = i \/ d = i THEN NONE
           ELSE k.delegated[s][d]
  BY ZenonT(60) DEF SpawnedAs
<1>t. \A s, d \in Slots : r.delegated[s][d] =
           IF s = i /\ d = out /\ out # CON_TASK /\ ~holds_send_right(p, i, out)
           THEN Occupant(p, out) ELSE p.delegated[s][d]
  BY ZenonT(60) DEF EquippedAs
<1>4. FreshRights(k, me, i, out, r)
  <2>1. holds_send_right(p, i, me)
    BY ZenonT(60), <1>q DEF holds_send_right
  <2>2. ASSUME NEW s \in Slots, NEW d \in Slots, s # i \/ d # out \/ out = me
        PROVE  r.delegated[s][d] = p.delegated[s][d]
    BY ZenonT(60), <2>1, <2>2, <1>t
  <2>3. r.delegated[i][out] = p.delegated[i][out] \/ r.delegated[i][out] = Occupant(k, out)
    BY ZenonT(60), <1>t, <1>o
  <2>4. ASSUME NEW s \in Slots, NEW d \in Slots
        PROVE  /\ s # i /\ d # i => r.delegated[s][d] = k.delegated[s][d]
               /\ s = me /\ d = i => r.delegated[s][d] = k.nextGen
               /\ s # i /\ s # me /\ d = i => r.delegated[s][d] = NONE
               /\ s = i /\ d = me => r.delegated[s][d] = Occupant(k, me)
               /\ s = i /\ d # me /\ d # out => r.delegated[s][d] = NONE
    BY <2>2, <1>q
  <2>5. out # me => p.delegated[i][out] = NONE
    BY <1>q
  <2> QED BY ZenonT(60), <2>3, <2>4, <2>5 DEF FreshRights
<1>5. ASSUME out = CON_TASK \/ Occupant(k, out) # NONE PROVE holds_send_right(r, i, out)
  <2>1. CASE out = CON_TASK
    <3>1. CON_TASK \in caps_for_slot(i)
      BY ZenonT(60), SlotFacts
    <3> QED BY <2>1, <3>1 DEF holds_send_right
  <2>2. CASE out # CON_TASK /\ holds_send_right(p, i, out)
    BY <2>2, <1>t DEF holds_send_right
  <2>3. CASE out # CON_TASK /\ ~holds_send_right(p, i, out)
    BY ZenonT(60), <1>5, <2>3, <1>t, <1>o DEF holds_send_right
  <2> QED BY <2>1, <2>2, <2>3
<1> QED BY ZenonT(60), <1>1, <1>2, <1>3, <1>4, <1>5

\* The child's generations are handed out.
LEMMA SpawnIssued ==
  ASSUME NEW k \in Tables, Issued(k), Distinct(k), NEW r,
         NEW me \in Slots, NEW i \in Slots, NEW out \in Slots,
         FreshSlot(k, me, i, r), FreshRights(k, me, i, out, r), FreshOutput(k, i, out, r),
         me # i, out # i
  PROVE  Issued(r)
<1>n. k.nextGen \in Nat /\ r.nextGen = k.nextGen + 1
  BY ZenonT(60), OccupantFacts DEF FreshSlot
<1>o. /\ Occupant(k, me) \in Nat /\ Occupant(k, me) < k.nextGen
      /\ Occupant(k, out) \in Nat /\ Occupant(k, out) < k.nextGen
  BY ZenonT(60), OccupantFacts
<1>1. FIRST_SPAWNABLE < r.nextGen
  BY <1>n, SlotsAssumption DEF Issued
<1>2. ASSUME NEW t \in Slots
      PROVE  r.gen[t] < r.nextGen /\ r.parent[t] < r.nextGen /\ r.stdoutGen[t] < r.nextGen
  <2>1. /\ k.gen[t] \in Nat /\ k.gen[t] < k.nextGen /\ k.parent[t] \in Nat /\ k.parent[t] < k.nextGen
        /\ k.stdoutGen[t] \in Nat /\ k.stdoutGen[t] < k.nextGen
        /\ k.gen[me] \in Nat /\ k.gen[me] < k.nextGen
    BY DEF Tables, Issued
  <2>2. /\ r.gen[t] = k.gen[t] \/ r.gen[t] = k.nextGen
        /\ r.parent[t] = k.parent[t] \/ r.parent[t] = k.gen[me]
    BY ZenonT(60) DEF FreshSlot
  <2>3. r.stdoutGen[t] = k.stdoutGen[t] \/ r.stdoutGen[t] = Occupant(k, out)
    BY ZenonT(60) DEF FreshOutput
  <2> QED BY <2>1, <2>2, <2>3, <1>n, <1>o
<1>3. ASSUME NEW s \in Slots, NEW d \in Slots
      PROVE  r.delegated[s][d] < r.nextGen
  <2>1. \/ r.delegated[s][d] = k.delegated[s][d] \/ r.delegated[s][d] = k.nextGen
        \/ r.delegated[s][d] = NONE \/ r.delegated[s][d] = Occupant(k, me)
        \/ r.delegated[s][d] = Occupant(k, out)
    <3>1. CASE s = i /\ (d = me \/ d # out)
      BY ZenonT(60), <3>1 DEF FreshRights
    <3>2. CASE s = i /\ d = out /\ out # me
      BY ZenonT(60), <3>2 DEF FreshRights
    <3>3. CASE s # i /\ d # i
      BY ZenonT(60), <3>3 DEF FreshRights
    <3>4. CASE s # i /\ d = i
      BY ZenonT(60), <3>4 DEF FreshRights
    <3> QED BY ZenonT(60), <3>1, <3>2, <3>3, <3>4
  <2>2. k.delegated[s][d] \in Nat /\ k.delegated[s][d] < k.nextGen
    BY DEF Tables, Issued
  <2> QED BY <2>1, <2>2, <1>n, <1>o DEF NONE
<1> QED BY ZenonT(60), <1>1, <1>2, <1>3 DEF Issued

\* Generations stay apart, and grants name who they were made to.
LEMMA SpawnNamed ==
  ASSUME NEW k \in Tables, Issued(k), Distinct(k), Named(k), NEW r,
         NEW me \in Slots, NEW i \in Slots, NEW out \in Slots,
         FreshSlot(k, me, i, r), FreshRights(k, me, i, out, r), me # i, out # i
  PROVE  Distinct(r) /\ Named(r)
<1>1. Distinct(r)
  <2>1. /\ \A t \in Slots : k.gen[t] # k.nextGen
        /\ k.nextGen # NONE
    BY ZenonT(60), OccupantFacts
  <2>2. ASSUME NEW s \in Slots, NEW t \in Slots, s # t, r.gen[s] = r.gen[t]
        PROVE  r.gen[s] = NONE
    <3>1. s # i /\ t # i
      BY ZenonT(60), <2>1, <2>2 DEF FreshSlot
    <3>2. r.gen[s] = k.gen[s] /\ r.gen[t] = k.gen[t]
      BY ZenonT(60), <3>1 DEF FreshSlot
    <3> QED BY ZenonT(60), <2>2, <3>2 DEF Distinct
  <2>3. ASSUME NEW t \in Slots, r.state[t] = "Live"
        PROVE  r.gen[t] # NONE
    <3>1. CASE t = i
      BY ZenonT(60), <2>1, <3>1 DEF FreshSlot
    <3>2. CASE t # i
      BY ZenonT(60), <2>3, <3>2 DEF FreshSlot, Distinct
    <3> QED BY ZenonT(60), <3>1, <3>2
  <2> QED BY ZenonT(60), <2>2, <2>3 DEF Distinct
<1>2. ASSUME NEW s \in Slots, NEW d \in Spawnable, r.delegated[s][d] # NONE
      PROVE  r.delegated[s][d] = r.gen[d]
  <2>1. d \in Slots
    BY ZenonT(60), SlotFacts
  <2>2. CASE d = i
    BY ZenonT(60), <1>2, <2>2 DEF FreshSlot, FreshRights
  <2>3. CASE d # i /\ s # i
    <3>1. r.delegated[s][d] = k.delegated[s][d] /\ r.gen[d] = k.gen[d]
      BY ZenonT(60), <2>1, <2>3 DEF FreshSlot, FreshRights
    <3> QED BY ZenonT(60), <1>2, <3>1 DEF Named
  <2>4. CASE d # i /\ s = i
    <3>1. r.gen[d] = k.gen[d]
      BY ZenonT(60), <2>1, <2>4 DEF FreshSlot
    <3>2. CASE d = me
      BY ZenonT(60), <2>1, <2>4, <3>1, <3>2 DEF FreshRights, Occupant
    <3>3. CASE d # me
      <4>1. d = out /\ r.delegated[s][d] = Occupant(k, out)
        BY ZenonT(60), <1>2, <2>1, <2>4, <3>3 DEF FreshRights
      <4> QED BY ZenonT(60), <3>1, <4>1 DEF Occupant
    <3> QED BY ZenonT(60), <3>2, <3>3
  <2> QED BY <2>2, <2>3, <2>4
<1> QED BY ZenonT(60), <1>1, <1>2 DEF Named

\* Apart from slot i, the same slots hold the same rights.
SameHolders(k, r, i) ==
  \A s, d \in Slots : s # i /\ d # i => (holds_send_right(r, s, d) <=> holds_send_right(k, s, d))

\* Caller and child, or a parent and a child of before.
KinNow(k, me, i, c, q) ==
  \/ c = i /\ q = me
  \/ /\ c # i /\ q # i
     /\ k.state[c] = "Live" /\ k.state[q] = "Live" /\ k.parent[c] = k.gen[q]

\* Who holds a right after a SPAWN.
LEMMA SpawnHolds ==
  ASSUME NEW k \in Tables, Issued(k), Distinct(k), NEW r,
         NEW me \in Slots, NEW i \in Slots, NEW out \in Slots, k.state[me] = "Live",
         FreshRights(k, me, i, out, r), me # i, out # i
  PROVE  /\ SameHolders(k, r, i)
         /\ holds_send_right(r, i, me) /\ holds_send_right(r, me, i)
<1>1. Occupant(k, me) # NONE /\ k.nextGen # NONE
  BY OccupantFacts
<1>2. /\ \A s, d \in Slots : s # i /\ d # i => r.delegated[s][d] = k.delegated[s][d]
      /\ r.delegated[me][i] = k.nextGen /\ r.delegated[i][me] = Occupant(k, me)
  BY ZenonT(60) DEF FreshRights
<1>3. SameHolders(k, r, i)
  BY ZenonT(60), <1>2 DEF holds_send_right, SameHolders
<1> QED BY ZenonT(60), <1>1, <1>2, <1>3 DEF holds_send_right

\* The only new parent and child are the caller and the child it made.
LEMMA SpawnKin ==
  ASSUME NEW k \in Tables, Issued(k), Distinct(k), NEW r, NEW me \in Slots, NEW i \in Slots,
         FreshSlot(k, me, i, r), me # i, k.state[me] = "Live",
         NEW c \in Slots, NEW q \in Slots,
         r.state[c] = "Live", r.state[q] = "Live", r.parent[c] = r.gen[q]
  PROVE  KinNow(k, me, i, c, q)
<1>1. q # i
  <2> SUFFICES ASSUME q = i PROVE FALSE
    OBVIOUS
  <2>1. r.parent[c] = k.nextGen
    BY ZenonT(60) DEF FreshSlot
  <2>2. r.parent[c] = k.parent[c] \/ r.parent[c] = k.gen[me]
    BY ZenonT(60) DEF FreshSlot
  <2> QED BY <2>1, <2>2, OccupantFacts
<1>2. CASE c = i
  <2>1. k.state[q] = "Live" /\ k.gen[q] = k.gen[me]
    BY ZenonT(60), <1>1, <1>2 DEF FreshSlot
  <2>2. k.gen[me] # NONE
    BY ZenonT(60) DEF Distinct
  <2>3. q = me
    BY ZenonT(60), <2>1, <2>2 DEF Distinct
  <2> QED BY ZenonT(60), <1>2, <2>3 DEF KinNow
<1>3. CASE c # i
  BY ZenonT(60), <1>1, <1>3 DEF FreshSlot, KinNow
<1> QED BY ZenonT(60), <1>2, <1>3

\* A child's rights to protected slots are within its line's.
LEMMA SpawnLined ==
  ASSUME NEW k \in Tables, Issued(k), Distinct(k), Lined(k), NEW r,
         NEW me \in Slots, NEW i \in Spawnable, NEW out \in Slots, k.state[me] = "Live",
         FreshSlot(k, me, i, r), FreshRights(k, me, i, out, r), me # i, out # i,
         out = CON_TASK \/ out = me \/ holds_send_right(k, me, out)
  PROVE  Lined(r)
<1>i. i \in Slots
  BY SlotFacts
<1>1. ASSUME NEW s \in Slots, NEW d \in Slots \ Spawnable, r.delegated[s][d] # NONE
      PROVE  Entitled(r.line[s], d)
  <2>1. d # i
    BY <1>1
  <2>2. CASE s # i
    <3>1. r.delegated[s][d] = k.delegated[s][d] /\ r.line[s] = k.line[s]
      BY ZenonT(60), <1>i, <2>1, <2>2 DEF FreshSlot, FreshRights
    <3> QED BY ZenonT(60), <1>1, <3>1 DEF Lined
  <2>3. ASSUME s = i PROVE Entitled(k.line[me], d)
    <3>1. d = me \/ d = out
      BY ZenonT(60), <1>1, <1>i, <2>1, <2>3 DEF FreshRights
    <3>2. CASE d = me
      BY ZenonT(60), <1>1, <3>2 DEF Lined, Entitled
    <3>3. CASE d = out /\ out = CON_TASK
      BY <3>3, SlotsAssumption DEF Entitled
    <3>4. CASE d = out /\ out # CON_TASK /\ out # me
      <4>1. holds_send_right(k, me, d)
        BY <3>4
      <4>2. CASE k.delegated[me][d] # NONE
        BY ZenonT(60), <1>1, <4>2 DEF Lined
      <4>3. CASE d \in caps_for_slot(me) /\ me \in Spawnable
        <5>1. me # 0 /\ me # IDLE /\ me \notin Servers
          BY <4>3, SlotsAssumption DEF Spawnable, Servers, IDLE
        <5> QED BY ZenonT(60), <4>3, <5>1 DEF caps_for_slot, Entitled
      <4>4. CASE d \in caps_for_slot(me) /\ me \notin Spawnable
        BY ZenonT(60), <4>4 DEF Lined, Entitled
      <4> QED BY ZenonT(60), <4>1, <4>2, <4>3, <4>4 DEF holds_send_right
    <3> QED BY <3>1, <3>2, <3>3, <3>4
  <2>4. r.line[i] = k.line[me]
    BY ZenonT(60) DEF FreshSlot
  <2> QED BY ZenonT(60), <2>2, <2>3, <2>4
<1>2. ASSUME NEW s \in Slots \ Spawnable PROVE r.line[s] = s
  <2>1. s \in Slots /\ s # i
    BY <1>2
  <2>2. r.line[s] = k.line[s]
    BY ZenonT(60), <2>1 DEF FreshSlot
  <2> QED BY ZenonT(60), <1>2, <2>2 DEF Lined
<1>3. ASSUME NEW c \in Slots, NEW q \in Slots,
             r.state[c] = "Live", r.state[q] = "Live", r.parent[c] = r.gen[q]
      PROVE  r.line[c] = r.line[q]
  <2>1. KinNow(k, me, i, c, q)
    BY ZenonT(60), <1>i, <1>3, SpawnKin
  <2>2. CASE c = i /\ q = me
    BY ZenonT(60), <2>2 DEF FreshSlot
  <2>3. CASE c # i /\ q # i /\ k.state[c] = "Live" /\ k.state[q] = "Live" /\ k.parent[c] = k.gen[q]
    <3>1. k.line[c] = k.line[q]
      BY ZenonT(60), <2>3 DEF Lined
    <3>2. r.line[c] = k.line[c] /\ r.line[q] = k.line[q]
      BY ZenonT(60), <2>3 DEF FreshSlot
    <3> QED BY ZenonT(60), <3>1, <3>2
  <2> QED BY ZenonT(60), <2>1, <2>2, <2>3 DEF KinNow
<1> QED BY ZenonT(60), <1>1, <1>2, <1>3 DEF Lined

\* Parent and child reach each other.
LEMMA SpawnFamily ==
  ASSUME NEW k \in Tables, Issued(k), Distinct(k), Family(k), NEW r,
         NEW me \in Slots, NEW i \in Slots, NEW out \in Slots, k.state[me] = "Live",
         FreshSlot(k, me, i, r), FreshRights(k, me, i, out, r), me # i, out # i
  PROVE  Family(r)
<1>1. ASSUME NEW c \in Slots, NEW q \in Slots,
             r.state[c] = "Live", r.state[q] = "Live", r.parent[c] = r.gen[q]
      PROVE  holds_send_right(r, c, q) /\ holds_send_right(r, q, c)
  <2>1. KinNow(k, me, i, c, q)
    BY ZenonT(60), <1>1, SpawnKin
  <2>2. CASE c = i /\ q = me
    BY ZenonT(60), <2>2, SpawnHolds
  <2>3. CASE c # i /\ q # i /\ k.state[c] = "Live" /\ k.state[q] = "Live" /\ k.parent[c] = k.gen[q]
    <3>1. holds_send_right(k, c, q) /\ holds_send_right(k, q, c)
      BY ZenonT(60), <2>3 DEF Family
    <3>2. SameHolders(k, r, i)
      BY ZenonT(60), SpawnHolds
    <3> QED BY ZenonT(60), <2>3, <3>1, <3>2 DEF SameHolders
  <2> QED BY ZenonT(60), <2>1, <2>2, <2>3 DEF KinNow
<1> QED BY ZenonT(60), <1>1 DEF Family

\* Every program still reaches its output, the child too.
LEMMA SpawnReaches ==
  ASSUME NEW k \in Tables, Issued(k), Distinct(k), Reaches(k), NEW r,
         NEW me \in Slots, NEW i \in Slots, i \in Spawnable, NEW out \in Slots, k.state[me] = "Live",
         FreshSlot(k, me, i, r), FreshRights(k, me, i, out, r), FreshOutput(k, i, out, r),
         me # i, out # i, holds_send_right(r, i, out)
  PROVE  Reaches(r)
<1> SUFFICES ASSUME NEW t \in Spawnable, r.state[t] = "Live",
                    Occupant(r, r.stdout[t]) = r.stdoutGen[t]
             PROVE  holds_send_right(r, t, r.stdout[t])
  BY DEF Reaches
<1>1. t \in Slots
  BY ZenonT(60), SlotFacts
<1>2. CASE t = i
  BY ZenonT(60), <1>2 DEF FreshOutput
<1>3. CASE t # i
  <2>1. r.stdout[t] = k.stdout[t] /\ r.stdoutGen[t] = k.stdoutGen[t] /\ k.state[t] = "Live"
    BY ZenonT(60), <1>1, <1>3 DEF FreshSlot, FreshOutput
  <2>2. k.stdout[t] \in Slots /\ k.stdoutGen[t] # k.nextGen
    <3>1. k.stdout \in [Slots -> Slots]
      BY ZenonT(60) DEF Tables
    <3>2. k.stdoutGen[t] # k.nextGen
      BY ZenonT(60), <1>1, OccupantFacts
    <3> QED BY ZenonT(60), <1>1, <3>1, <3>2
  <2>3. k.stdout[t] # i
    <3> SUFFICES ASSUME k.stdout[t] = i PROVE FALSE
      BY ZenonT(60)
    <3>1. Occupant(r, i) = k.nextGen
      BY ZenonT(60) DEF FreshSlot, Occupant
    <3> QED BY ZenonT(60), <2>1, <2>2, <3>1
  <2>4. Occupant(k, k.stdout[t]) = k.stdoutGen[t]
    BY ZenonT(60), <2>1, <2>2, <2>3 DEF FreshSlot, Occupant
  <2>5. holds_send_right(k, t, k.stdout[t])
    BY ZenonT(60), <2>1, <2>4 DEF Reaches
  <2>6. SameHolders(k, r, i)
    BY ZenonT(60), SpawnHolds
  <2> QED BY ZenonT(60), <1>1, <1>3, <2>1, <2>2, <2>3, <2>5, <2>6 DEF SameHolders
<1> QED BY ZenonT(60), <1>2, <1>3

\* Nobody born low rises.
LEMMA SpawnLowly ==
  ASSUME NEW k, NEW r, Lowly(k), NEW me \in Slots, NEW i \in Slots,
         FreshSlot(k, me, i, r), FreshUser(k, me, i, r)
  PROVE  Lowly(r)
<1> SUFFICES ASSUME NEW t \in Spawnable, r.state[t] = "Live", r.born[t].id \notin RootIds
             PROVE  r.id[t] \notin RootIds /\ r.saved[t] \notin RootIds
                    /\ r.groups[t] \subseteq r.born[t].groups
  BY ZenonT(60) DEF Lowly
<1>1. t \in Slots
  BY ZenonT(60), SlotFacts
<1>2. CASE t = i
  BY <1>2 DEF FreshUser
<1>3. CASE t # i
  <2>1. /\ k.state[t] = "Live" /\ r.id[t] = k.id[t] /\ r.saved[t] = k.saved[t]
        /\ r.groups[t] = k.groups[t] /\ r.born[t] = k.born[t]
    BY ZenonT(60), <1>1, <1>3 DEF FreshSlot, FreshUser
  <2> QED BY ZenonT(60), <2>1 DEF Lowly
<1> QED BY ZenonT(60), <1>2, <1>3

\* SPAWN, whole: the new program and its spawner reach each other, it reaches
\* its stdout, it has nothing its line may not have, and nobody else's rights
\* change but those to the slot's last occupant.
LEMMA SpawnSound ==
  ASSUME NEW k, Sound(k), NEW me \in Slots, NEW i \in Spawnable, NEW out \in Slots,
         k.state[me] = "Live", k.state[i] = "Unused",
         out = CON_TASK \/ (k.state[out] = "Live" /\ (out = me \/ holds_send_right(k, me, out)))
  PROVE  Sound(inherit_id(set_stdout(spawn(k, me, i), i, out), i, me))
<1> DEFINE p == spawn(k, me, i)
           r == inherit_id(set_stdout(p, i, out), i, me)
<1>k. k \in Tables /\ Issued(k) /\ Distinct(k) /\ Named(k) /\ Lined(k) /\ Family(k)
      /\ Reaches(k) /\ Lowly(k)
  BY DEF Sound
<1>i. i \in Slots /\ me # i /\ out # i
  BY SlotFacts
<1>1. SpawnedAs(k, me, i, p)
  BY ZenonT(60), <1>k, <1>i, SpawnFacts
<1> HIDE DEF p
<1>2. p \in Tables
  BY ZenonT(60), <1>1 DEF SpawnedAs
<1>3. EquippedAs(p, me, i, out, r)
  BY ZenonT(60), <1>2, <1>i, EquipFacts
<1> HIDE DEF r
<1>o. Occupant(k, me) # NONE /\ (out = CON_TASK \/ Occupant(k, out) # NONE)
  BY ZenonT(60), <1>k, OccupantFacts
<1>4. /\ FreshSlot(k, me, i, r) /\ FreshRights(k, me, i, out, r)
      /\ FreshOutput(k, i, out, r) /\ FreshUser(k, me, i, r) /\ holds_send_right(r, i, out)
  BY ZenonT(60), <1>i, <1>1, <1>3, <1>o, SpawnMakes
<1>5. r \in Tables
  BY ZenonT(60), <1>3 DEF EquippedAs
<1>6. Issued(r)
  BY ZenonT(60), <1>k, <1>i, <1>4, SpawnIssued
<1>7. Distinct(r) /\ Named(r)
  BY ZenonT(60), <1>k, <1>i, <1>4, SpawnNamed
<1>8. Lined(r)
  BY ZenonT(60), <1>k, <1>i, <1>4, SpawnLined
<1>9. Family(r)
  BY ZenonT(60), <1>k, <1>i, <1>4, SpawnFamily
<1>10. Reaches(r)
  BY ZenonT(60), <1>k, <1>i, <1>4, SpawnReaches
<1>11. Lowly(r)
  BY ZenonT(60), <1>k, <1>i, <1>4, SpawnLowly
<1> QED BY ZenonT(60), <1>5, <1>6, <1>7, <1>8, <1>9, <1>10, <1>11 DEF Sound, r, p

----------------------------------------------------------------------------
\* The boot tasks: no grants, no parents, everyone root.
LEMMA InitSound ==
  Init => Sound(Kernel)
<1> SUFFICES ASSUME Init PROVE Sound(Kernel)
  OBVIOUS
<1>1. /\ FIRST_SPAWNABLE + 1 \in Nat /\ FIRST_SPAWNABLE < FIRST_SPAWNABLE + 1
      /\ NONE \in Nat /\ ROOT \in Ids /\ CON_TASK \in Slots /\ CON_TASK + 1 \in Nat
      /\ CON_TASK + 1 < FIRST_SPAWNABLE + 1 /\ NONE < FIRST_SPAWNABLE + 1
      /\ \A t \in Slots \ Spawnable :
           /\ t + 1 \in Nat /\ t + 1 # NONE /\ t \in 0 .. FIRST_SPAWNABLE - 1
           /\ t + 1 < FIRST_SPAWNABLE + 1
      /\ 0 \in 0 .. FIRST_SPAWNABLE - 1
      /\ \A s, t \in Slots \ Spawnable : s # t => s + 1 # t + 1
  BY SlotFacts, SlotsAssumption, IdsAssumption DEF NONE
<1>2. Kernel \in Tables
  BY ZenonT(60), <1>1 DEF Init, Kernel, Tables
<1>3. Issued(Kernel)
  BY <1>1, KernelFields DEF Init, Issued
<1>4. Distinct(Kernel)
  BY <1>1, KernelFields DEF Init, Distinct
<1>5. Named(Kernel)
  BY SlotFacts, KernelFields DEF Init, Named
<1>6. Lined(Kernel)
  <2>1. \A c, p \in Slots : state[p] = "Live" => parent[c] # gen[p]
    BY <1>1 DEF Init
  <2> QED BY <2>1, KernelFields DEF Init, Lined
<1>7. Family(Kernel)
  <2>1. \A c, p \in Slots : state[p] = "Live" => parent[c] # gen[p]
    BY <1>1 DEF Init
  <2> QED BY ZenonT(60), <2>1, KernelFields DEF Family
<1>8. Reaches(Kernel)
  BY ZenonT(60), SlotFacts, KernelFields DEF Init, Reaches
<1>9. Lowly(Kernel)
  BY SlotFacts, KernelFields DEF Init, Lowly
<1> QED BY <1>2, <1>3, <1>4, <1>5, <1>6, <1>7, <1>8, <1>9 DEF Sound

\* DELEGATE hands on only what the delegator's line, and so its child's, may
\* have (may_delegate).
LEMMA DelegateStep ==
  ASSUME NEW k, Sound(k), NEW me \in Slots, NEW g \in Slots, NEW t \in Slots,
         k.state[me] = "Live", k.state[g] = "Live",
         is_child_of(k, g, me), holds_send_right(k, me, t)
  PROVE  Sound(set_delegate(k, g, t))
<1>l. Lined(k)
  BY ZenonT(60) DEF Sound
<1>1. k.line[g] = k.line[me]
  BY ZenonT(60), <1>l DEF Lined, is_child_of
<1>2. ASSUME t \notin Spawnable PROVE Entitled(k.line[me], t)
  <2>1. CASE k.delegated[me][t] # NONE
    BY ZenonT(60), <1>l, <1>2, <2>1 DEF Lined
  <2>2. CASE t \in caps_for_slot(me) /\ me \in Spawnable
    <3>1. me # 0 /\ me # IDLE /\ me \notin Servers
      BY <2>2, SlotsAssumption DEF Spawnable, Servers, IDLE
    <3> QED BY ZenonT(60), <2>2, <3>1 DEF caps_for_slot, Entitled
  <2>3. CASE t \in caps_for_slot(me) /\ me \notin Spawnable
    BY ZenonT(60), <1>l, <2>3 DEF Lined, Entitled
  <2> QED BY ZenonT(60), <2>1, <2>2, <2>3 DEF holds_send_right
<1> QED BY ZenonT(60), <1>1, <1>2, DelegateSound

\* What is said of grants, lines and output targets survives any step that
\* leaves those fields alone and starts no task.
LEMMA SameIssued ==
  ASSUME NEW k, NEW r, Issued(k), r.gen = k.gen, r.nextGen = k.nextGen, r.parent = k.parent,
         r.stdoutGen = k.stdoutGen, r.delegated = k.delegated
  PROVE  Issued(r)
BY DEF Issued

\* Generations stay apart.
LEMMA SameDistinct ==
  ASSUME NEW k, NEW r, Distinct(k), r.gen = k.gen,
         \A s \in Slots : r.state[s] = "Live" => k.state[s] = "Live"
  PROVE  Distinct(r)
BY SlotFacts DEF Distinct

\* Grants still name an occupant, and stay within the line's own.
LEMMA SameLined ==
  ASSUME NEW k, NEW r, Named(k), Lined(k),
         r.gen = k.gen, r.parent = k.parent, r.delegated = k.delegated, r.line = k.line,
         \A s \in Slots : r.state[s] = "Live" => k.state[s] = "Live"
  PROVE  Named(r) /\ Lined(r)
<1>1. Named(r)
  BY ZenonT(60) DEF Named
<1>2. Lined(r)
  BY DEF Lined
<1> QED BY ZenonT(60), <1>1, <1>2

\* Parent and child still reach each other.
LEMMA SameFamily ==
  ASSUME NEW k, NEW r, Family(k), r.gen = k.gen, r.parent = k.parent, r.delegated = k.delegated,
         \A s \in Slots : r.state[s] = "Live" => k.state[s] = "Live"
  PROVE  Family(r)
BY DEF Family, holds_send_right

\* A task still reaches its output.
LEMMA SameReaches ==
  ASSUME NEW k, NEW r, Reaches(k), r.gen = k.gen, r.stdout = k.stdout,
         r.stdoutGen = k.stdoutGen, r.delegated = k.delegated,
         \A s \in Slots : r.state[s] = "Live" => k.state[s] = "Live"
  PROVE  Reaches(r)
BY ZenonT(60), SlotFacts DEF Reaches, holds_send_right, Occupant

\* SET_ID keeps whoever was not born root from root and from other groups.
LEMMA SetIdStep ==
  ASSUME NEW k, Sound(k), NEW me \in Slots, NEW new \in Ids, NEW gids \in SUBSET Groups,
         k.id[me] \in RootIds \/ (new = k.saved[me] /\ gids = {})
  PROVE  Sound([k EXCEPT !.groups[me] = gids, !.saved[me] = k.id[me], !.id[me] = new])
<1> DEFINE r == [k EXCEPT !.groups[me] = gids, !.saved[me] = k.id[me], !.id[me] = new]
<1>k. k \in Tables /\ Issued(k) /\ Distinct(k) /\ Named(k) /\ Lined(k) /\ Family(k)
      /\ Reaches(k) /\ Lowly(k)
  BY DEF Sound
<1>1. r = [k EXCEPT !.groups = [k.groups EXCEPT ![me] = gids],
                    !.saved = [k.saved EXCEPT ![me] = k.id[me]],
                    !.id = [k.id EXCEPT ![me] = new]]
  BY ZenonT(60), <1>k DEF Tables
<1> HIDE DEF r
<1>2. /\ [k.groups EXCEPT ![me] = gids] \in [Slots -> SUBSET Groups]
      /\ [k.saved EXCEPT ![me] = k.id[me]] \in [Slots -> Ids]
      /\ [k.id EXCEPT ![me] = new] \in [Slots -> Ids]
  BY <1>k DEF Tables
<1>3. r \in Tables
  BY ZenonT(60), <1>k, <1>1, <1>2 DEF Tables
<1>4. /\ r.state = k.state /\ r.gen = k.gen /\ r.nextGen = k.nextGen /\ r.parent = k.parent
      /\ r.stdout = k.stdout /\ r.delegated = k.delegated
      /\ r.line = k.line /\ r.stdoutGen = k.stdoutGen /\ r.born = k.born
      /\ r.groups = [k.groups EXCEPT ![me] = gids]
      /\ r.saved = [k.saved EXCEPT ![me] = k.id[me]]
      /\ r.id = [k.id EXCEPT ![me] = new]
  BY <1>k, <1>1 DEF Tables
<1>t. k.id \in [Slots -> Ids] /\ k.saved \in [Slots -> Ids] /\ k.groups \in [Slots -> SUBSET Groups]
  BY ZenonT(60), <1>k DEF Tables
<1>5. \A s \in Slots :
        /\ s # me => r.id[s] = k.id[s] /\ r.saved[s] = k.saved[s] /\ r.groups[s] = k.groups[s]
        /\ s = me => r.id[s] = new /\ r.saved[s] = k.id[me] /\ r.groups[s] = gids
  <2>1. /\ r.groups = [k.groups EXCEPT ![me] = gids]
        /\ r.saved = [k.saved EXCEPT ![me] = k.id[me]]
        /\ r.id = [k.id EXCEPT ![me] = new]
    BY ZenonT(60), <1>4
  <2> QED BY <2>1, <1>t
<1>6. Issued(r) /\ Distinct(r) /\ Named(r) /\ Lined(r)
  BY ZenonT(60), <1>k, <1>4, SameIssued, SameDistinct, SameLined
<1>7. Family(r) /\ Reaches(r)
  BY ZenonT(60), <1>k, <1>4, SameFamily, SameReaches
<1>8. Lowly(r)
  <2>1. Lowly(k) /\ r.state = k.state /\ r.born = k.born
    BY ZenonT(60), <1>k, <1>4
  <2> QED BY ZenonT(60), <2>1, <1>5, SlotFacts DEF Lowly
<1> QED BY ZenonT(60), <1>3, <1>6, <1>7, <1>8 DEF Sound, r

\* A zombie collected: its slot is free, and nothing else changes.
LEMMA ReapStep ==
  ASSUME NEW k, Sound(k), NEW t \in Slots, k.state[t] = "Zombie"
  PROVE  Sound([k EXCEPT !.state[t] = "Unused"])
<1> DEFINE r == [k EXCEPT !.state[t] = "Unused"]
<1>k. k \in Tables /\ Issued(k) /\ Distinct(k) /\ Named(k) /\ Lined(k) /\ Family(k)
      /\ Reaches(k) /\ Lowly(k)
  BY DEF Sound
<1>1. /\ r \in Tables
      /\ r.gen = k.gen /\ r.nextGen = k.nextGen /\ r.parent = k.parent
      /\ r.stdout = k.stdout /\ r.delegated = k.delegated
      /\ r.line = k.line /\ r.stdoutGen = k.stdoutGen /\ r.born = k.born
      /\ r.groups = k.groups /\ r.saved = k.saved /\ r.id = k.id
      /\ \A s \in Slots : r.state[s] = "Live" => k.state[s] = "Live"
  BY ZenonT(60), <1>k DEF Tables
<1> HIDE DEF r
<1>2. Issued(r) /\ Distinct(r) /\ Named(r) /\ Lined(r)
  BY ZenonT(60), <1>k, <1>1, SameIssued, SameDistinct, SameLined
<1>3. Family(r) /\ Reaches(r)
  BY ZenonT(60), <1>k, <1>1, SameFamily, SameReaches
<1>4. Lowly(r)
  <2>1. /\ Lowly(k) /\ r.born = k.born /\ r.groups = k.groups /\ r.saved = k.saved /\ r.id = k.id
        /\ \A s \in Slots : r.state[s] = "Live" => k.state[s] = "Live"
    BY ZenonT(60), <1>k, <1>1
  <2>2. ASSUME NEW s \in Spawnable, r.state[s] = "Live", r.born[s].id \notin RootIds
        PROVE  r.id[s] \notin RootIds /\ r.saved[s] \notin RootIds /\ r.groups[s] \subseteq r.born[s].groups
    <3>1. s \in Slots
      BY SlotFacts
    <3>2. k.state[s] = "Live" /\ k.born[s].id \notin RootIds
      BY ZenonT(60), <2>1, <2>2, <3>1
    <3>3. k.id[s] \notin RootIds /\ k.saved[s] \notin RootIds /\ k.groups[s] \subseteq k.born[s].groups
      BY ZenonT(60), <2>1, <3>2 DEF Lowly
    <3> QED BY ZenonT(60), <3>3, <2>1
  <2> QED BY ZenonT(60), <2>2 DEF Lowly
<1> QED BY ZenonT(60), <1>1, <1>2, <1>3, <1>4 DEF Sound, r

\* Every kernel entry keeps the tables sound.
LEMMA RightsStep ==
  Sound(Kernel) /\ [Next]_vars => Sound(Kernel)'
<1> SUFFICES ASSUME Sound(Kernel), [Next]_vars PROVE Sound(Kernel)'
  OBVIOUS
<1>1. ASSUME NEW me \in Slots, NEW i \in Spawnable, NEW out \in Slots, SPAWN(me, i, out)
      PROVE  Sound(Kernel)'
  <2>1. Sound(inherit_id(set_stdout(spawn(Kernel, me, i), i, out), i, me))
    BY ZenonT(60), <1>1, SpawnSound, KernelFields DEF SPAWN, Calling, MayBeStdout
  <2> QED BY ZenonT(60), <1>1, <2>1, BecomeSound DEF SPAWN
<1>2. ASSUME NEW me \in Slots, NEW g \in Slots, NEW t \in Slots, DELEGATE(me, g, t)
      PROVE  Sound(Kernel)'
  <2>1. Sound(set_delegate(Kernel, g, t))
    BY <1>2, DelegateStep, KernelFields DEF DELEGATE, Calling
  <2> QED BY ZenonT(60), <1>2, <2>1, BecomeSound DEF DELEGATE
<1>3. ASSUME NEW me \in Slots, NEW new \in Ids, NEW gids \in SUBSET Groups, SET_ID(me, new, gids)
      PROVE  Sound(Kernel)'
  <2> DEFINE r == [Kernel EXCEPT !.groups[me] = gids, !.saved[me] = Kernel.id[me], !.id[me] = new]
  <2>1. Sound(r)
    <3>1. Kernel.id[me] \in RootIds \/ (new = Kernel.saved[me] /\ gids = {})
      BY <1>3, KernelFields DEF SET_ID
    <3> QED BY ZenonT(60), <3>1, SetIdStep
  <2>2. Become(r)
    BY <1>3, KernelFields DEF SET_ID
  <2> HIDE DEF r
  <2> QED BY <2>1, <2>2, BecomeSound
<1>4. ASSUME NEW me \in Slots, EXIT(me)
      PROVE  Sound(Kernel)'
  <2>1. Sound(end_task(Kernel, me, "Zombie"))
    BY EndSound
  <2> QED BY <1>4, <2>1, BecomeSound DEF EXIT
<1>5. ASSUME NEW t \in Slots, Killed(t)
      PROVE  Sound(Kernel)'
  <2>1. Sound(end_task(Kernel, t, "Unused"))
    BY EndSound
  <2> QED BY <1>5, <2>1, BecomeSound DEF Killed
<1>6. ASSUME NEW t \in Slots, try_reap(t)
      PROVE  Sound(Kernel)'
  <2>1. Sound([Kernel EXCEPT !.state[t] = "Unused"])
    BY <1>6, ReapStep, KernelFields DEF try_reap
  <2> QED BY <1>6, <2>1, BecomeSound DEF try_reap
<1>7. ASSUME NEW s \in Slots, NEW again \in BOOLEAN, ServerEnds(s, again)
      PROVE  Sound(Kernel)'
  <2> DEFINE e == end_task(Kernel, s, "Unused")
  <2>1. Sound(e)
    BY EndSound
  <2>2. e.state[s] = "Unused"
    <3>1. Kernel \in Tables
      BY ZenonT(60) DEF Sound
    <3>2. EndedAs(Kernel, s, "Unused", e)
      BY ZenonT(60), <3>1, EndFacts
    <3> QED BY ZenonT(60), <3>2 DEF EndedAs
  <2>3. s \in Servers
    BY <1>7, SlotsAssumption DEF ServerEnds
  <2>4. Become(IF again THEN install_task(e, s) ELSE e)
    BY ZenonT(60), <1>7 DEF ServerEnds
  <2> HIDE DEF e
  <2>5. Sound(install_task(e, s))
    BY <2>1, <2>2, <2>3, InstallSound
  <2>6. CASE again
    <3>1. Become(install_task(e, s))
      BY <2>4, <2>6
    <3> QED BY <2>5, <3>1, BecomeSound
  <2>7. CASE ~again
    <3>1. Become(e)
      BY <2>4, <2>7
    <3> QED BY <2>1, <3>1, BecomeSound
  <2> QED BY <2>6, <2>7
<1>8. CASE UNCHANGED vars
  <2>1. Become(Kernel)
    BY ZenonT(60), <1>8 DEF vars, Become, Kernel
  <2> QED BY ZenonT(60), <2>1, BecomeSound
<1> QED BY ZenonT(60), <1>1, <1>2, <1>3, <1>4, <1>5, <1>6, <1>7, <1>8 DEF Next

\* The tables are sound at every moment: the invariant the theorems below
\* are read off.
THEOREM RightsSafety == Spec => []Sound(Kernel)
BY InitSound, RightsStep, PTL DEF Spec

\* Sound tables have each of the module's properties.
LEMMA SoundMeans ==
  Sound(Kernel) => /\ TypeOK /\ RightsNameTheirOccupant /\ Lineage /\ FamilyTalks
                   /\ StdoutIsReachable /\ NoEscalation
<1> SUFFICES ASSUME Sound(Kernel)
             PROVE  /\ TypeOK /\ RightsNameTheirOccupant /\ Lineage /\ FamilyTalks
                    /\ StdoutIsReachable /\ NoEscalation
  BY ZenonT(60)
<1>1. TypeOK
  <2>1. Kernel \in Tables /\ Issued(Kernel)
    BY ZenonT(60) DEF Sound
  <2>2. /\ state \in [Slots -> {"Unused", "Live", "Zombie"}]
        /\ gen \in [Slots -> Nat] /\ nextGen \in Nat /\ parent \in [Slots -> Nat]
        /\ delegated \in [Slots -> [Slots -> Nat]] /\ stdout \in [Slots -> Slots]
        /\ id \in [Slots -> Ids] /\ saved \in [Slots -> Ids]
        /\ groups \in [Slots -> SUBSET Groups]
        /\ line \in [Slots -> 0 .. FIRST_SPAWNABLE - 1]
        /\ stdoutGen \in [Slots -> Nat]
        /\ born \in [Slots -> [id : Ids, groups : SUBSET Groups]]
    BY ZenonT(60), <2>1 DEF Tables, Kernel
  <2>3. /\ FIRST_SPAWNABLE < nextGen
        /\ \A t \in Slots : gen[t] < nextGen /\ parent[t] < nextGen /\ stdoutGen[t] < nextGen
        /\ \A s, d \in Slots : delegated[s][d] < nextGen
    BY ZenonT(60), <2>1 DEF Issued, Kernel
  <2>4. \A x \in Nat : x < nextGen => x \in 0 .. nextGen - 1
    BY <2>2
  <2>5. \A s \in Slots : delegated[s] \in [Slots -> 0 .. nextGen - 1]
    BY <2>2, <2>3, <2>4
  <2>6. gen \in [Slots -> 0 .. nextGen - 1]
    BY ZenonT(60), <2>2, <2>3, <2>4
  <2>7. parent \in [Slots -> 0 .. nextGen - 1]
    BY ZenonT(60), <2>2, <2>3, <2>4
  <2>8. stdoutGen \in [Slots -> 0 .. nextGen - 1]
    BY ZenonT(60), <2>2, <2>3, <2>4
  <2>9. delegated \in [Slots -> [Slots -> 0 .. nextGen - 1]]
    BY <2>2, <2>5
  <2> QED BY ZenonT(60), <2>2, <2>3, <2>6, <2>7, <2>8, <2>9 DEF TypeOK
<1>2. RightsNameTheirOccupant
  BY ZenonT(60) DEF Sound, Named, Kernel, RightsNameTheirOccupant
<1>3. Lineage
  BY ZenonT(60) DEF Sound, Lined, Entitled, Kernel, Lineage
<1>4. FamilyTalks
  BY ZenonT(60), KernelFields DEF Sound, Family, FamilyTalks, is_child_of
<1>5. StdoutIsReachable
  BY ZenonT(60) DEF Sound, Reaches, StdoutIsReachable, Kernel, Occupant, holds_send_right
<1>6. NoEscalation
  BY ZenonT(60) DEF Sound, Lowly, NoEscalation, Kernel
<1> QED BY <1>1, <1>2, <1>3, <1>4, <1>5, <1>6

\* The tables keep their types.
THEOREM Typing == Spec => []TypeOK
BY RightsSafety, SoundMeans, PTL

\* No slot's new occupant inherits the rights others had to the old one.
THEOREM NoStrangersRights == Spec => []RightsNameTheirOccupant
BY RightsSafety, SoundMeans, PTL

\* Rights flow down from a boot task and nowhere else.
THEOREM RightsFlowDown == Spec => []Lineage
BY RightsSafety, SoundMeans, PTL

\* Parent and child can always talk.
THEOREM FamiliesTalk == Spec => []FamilyTalks
BY RightsSafety, SoundMeans, PTL

\* A program can write its output.
THEOREM OutputReaches == Spec => []StdoutIsReachable
BY RightsSafety, SoundMeans, PTL

\* Nothing a user starts becomes root.
THEOREM UsersStayUsers == Spec => []NoEscalation
BY RightsSafety, SoundMeans, PTL

----------------------------------------------------------------------------
\* From tables k to tables r, who stays keeps its rights to protected slots.
Keeps(k, r) ==
  \A s \in Slots, d \in Slots \ Spawnable :
    /\ k.state[s] = "Live" /\ r.state[s] = "Live" /\ r.gen[s] = k.gen[s]
    /\ k.delegated[s][d] # NONE
    => r.delegated[s][d] # NONE

\* set_delegate takes no right away.
LEMMA DelegateKeeps ==
  ASSUME NEW k \in Tables, NEW g \in Slots, NEW t \in Slots
  PROVE  Keeps(k, set_delegate(k, g, t))
<1> DEFINE r == set_delegate(k, g, t)
<1>1. Occupant(k, t) \in Nat
  BY SlotFacts DEF Tables, Occupant
<1>2. \A s, d \in Slots : r.delegated[s][d] =
        IF s = g /\ d = t THEN Occupant(k, t) ELSE k.delegated[s][d]
  BY <1>1 DEF Tables, set_delegate
<1>3. t \notin Spawnable => Occupant(k, t) # NONE
  BY SlotFacts DEF Occupant, NONE
<1> HIDE DEF r
<1>4. Keeps(k, r)
  BY ZenonT(60), <1>2, <1>3 DEF Keeps
<1> QED BY <1>4 DEF r

\* SPAWN clears only what is aimed at or held by the slot it fills.
LEMMA SpawnKeeps ==
  ASSUME NEW k \in Tables, NEW me \in Slots, NEW i \in Spawnable, NEW out \in Slots, me # i,
         k.state[i] = "Unused"
  PROVE  Keeps(k, inherit_id(set_stdout(spawn(k, me, i), i, out), i, me))
<1> DEFINE p == spawn(k, me, i)
           r == inherit_id(set_stdout(p, i, out), i, me)
<1>i. i \in Slots
  BY ZenonT(60), SlotFacts
<1>1. SpawnedAs(k, me, i, p)
  BY ZenonT(60), SpawnFacts
<1> HIDE DEF p
<1>2. p \in Tables
  BY ZenonT(60), <1>1 DEF SpawnedAs
<1>3. EquippedAs(p, me, i, out, r)
  BY ZenonT(60), <1>2, <1>i, EquipFacts
<1> HIDE DEF r
<1>4. \A s, d \in Slots : s # i /\ d # i => r.delegated[s][d] = k.delegated[s][d]
  <2>1. \A s, d \in Slots : s # i => r.delegated[s][d] = p.delegated[s][d]
    BY ZenonT(60), <1>3 DEF EquippedAs
  <2>2. \A s, d \in Slots : s # i /\ d # i => p.delegated[s][d] = k.delegated[s][d]
    BY SMTT(60), <1>1 DEF SpawnedAs
  <2> QED BY <2>1, <2>2
<1>5. Keeps(k, r)
  BY ZenonT(60), <1>4 DEF Keeps
<1> QED BY <1>5 DEF r, p

\* Every kernel entry keeps the rights to servers of those it leaves alive.
LEMMA KeepsStep ==
  Sound(Kernel) /\ Next => RightsToServersKept
<1> SUFFICES ASSUME Sound(Kernel), Next PROVE RightsToServersKept
  OBVIOUS
<1>k. Kernel \in Tables /\ Issued(Kernel)
  BY ZenonT(60) DEF Sound
<1>f. /\ Kernel.state = state /\ Kernel.gen = gen /\ Kernel.delegated = delegated
      /\ Kernel.nextGen = nextGen
  BY ZenonT(60) DEF Kernel
<1>b. ASSUME NEW r, Become(r), Keeps(Kernel, r) PROVE RightsToServersKept
  <2>1. state' = r.state /\ gen' = r.gen /\ delegated' = r.delegated
    BY <1>b DEF Become
  <2>2. \A s \in Slots, d \in Slots \ Spawnable :
          /\ state[s] = "Live" /\ state'[s] = "Live" /\ gen'[s] = gen[s]
          /\ delegated[s][d] # NONE
          => delegated'[s][d] # NONE
    BY ZenonT(60), <1>b, <1>f, <2>1 DEF Keeps
  <2>3. Kernel'.delegated = delegated'
    BY DEF Kernel
  <2> QED BY ZenonT(60), <1>f, <2>2, <2>3 DEF RightsToServersKept, holds_send_right
<1>1. ASSUME NEW me \in Slots, NEW i \in Spawnable, NEW out \in Slots, SPAWN(me, i, out)
      PROVE  RightsToServersKept
  <2>1. state[me] = "Live" /\ state[i] = "Unused" /\ me # i
    BY <1>1 DEF SPAWN, Calling
  <2>2. Keeps(Kernel, inherit_id(set_stdout(spawn(Kernel, me, i), i, out), i, me))
    BY ZenonT(60), <1>k, <1>f, <2>1, SpawnKeeps
  <2> QED BY ZenonT(60), <1>1, <1>b, <2>2 DEF SPAWN
<1>2. ASSUME NEW me \in Slots, NEW g \in Slots, NEW t \in Slots, DELEGATE(me, g, t)
      PROVE  RightsToServersKept
  <2>1. Keeps(Kernel, set_delegate(Kernel, g, t))
    BY <1>k, DelegateKeeps
  <2> QED BY <1>2, <1>b, <2>1 DEF DELEGATE
<1>3. ASSUME UNCHANGED delegated PROVE RightsToServersKept
  <2>1. Kernel'.delegated = delegated' /\ Kernel.delegated = delegated
    BY DEF Kernel
  <2> QED BY ZenonT(60), <1>3, <2>1 DEF RightsToServersKept, holds_send_right
<1>4. ASSUME NEW t \in Slots, NEW final \in {"Unused", "Zombie"},
             Become(end_task(Kernel, t, final))
      PROVE  RightsToServersKept
  <2> DEFINE e == end_task(Kernel, t, final)
  <2>e. EndedAs(Kernel, t, final, e)
    BY ZenonT(60), <1>k, EndFacts
  <2> HIDE DEF e
  <2>2. /\ e.state[t] = final
        /\ \A s \in Slots : s # t => e.delegated[s] = Kernel.delegated[s]
    BY ZenonT(60), <2>e DEF EndedAs
  <2>3. e.state[t] # "Live"
    BY <2>2
  <2>1. Keeps(Kernel, e)
    BY ZenonT(60), <2>2, <2>3 DEF Keeps
  <2> QED BY ZenonT(60), <1>4, <1>b, <2>1 DEF e
<1>5. ASSUME NEW s \in Slots, NEW again \in BOOLEAN, ServerEnds(s, again)
      PROVE  RightsToServersKept
  <2> DEFINE e == end_task(Kernel, s, "Unused")
  <2>1. CASE ~again
    <3>1. Become(e)
      BY <1>5, <2>1 DEF ServerEnds
    <3> QED BY <3>1, <1>4
  <2>2. CASE again
    <3> DEFINE r == install_task(e, s)
    <3>1. Become(r)
      BY <1>5, <2>2 DEF ServerEnds
    <3>e. EndedAs(Kernel, s, "Unused", e)
      BY ZenonT(60), <1>k, EndFacts
    <3> HIDE DEF e
    <3>2. /\ e.gen = Kernel.gen /\ e.nextGen = Kernel.nextGen
          /\ \A t \in Slots : t # s => e.delegated[t] = Kernel.delegated[t]
      BY ZenonT(60), <3>e DEF EndedAs
    <3>3. e \in Tables
      BY ZenonT(60), <3>e DEF EndedAs
    <3>4. /\ r.gen[s] = e.nextGen
          /\ \A t \in Slots : t # s => r.delegated[t] = e.delegated[t]
      BY <3>3 DEF Tables, install_task, issue_generation, clear_delegations_of
    <3> HIDE DEF r
    <3>5. Kernel.gen[s] # Kernel.nextGen
      BY <1>k DEF Tables, Issued
    <3>6. Keeps(Kernel, r)
      <4>1. r.gen[s] # Kernel.gen[s]
        BY ZenonT(60), <3>2, <3>4, <3>5
      <4>2. \A t \in Slots : t # s => r.delegated[t] = Kernel.delegated[t]
        BY ZenonT(60), <3>2, <3>4
      <4> QED BY ZenonT(60), <4>1, <4>2 DEF Keeps
    <3> QED BY <3>1, <3>6, <1>b
  <2> QED BY <2>1, <2>2
<1>6. ASSUME NEW me \in Slots, NEW new \in Ids, NEW gids \in SUBSET Groups, SET_ID(me, new, gids)
      PROVE  RightsToServersKept
  <2> DEFINE r == [Kernel EXCEPT !.groups[me] = gids, !.saved[me] = id[me], !.id[me] = new]
  <2>2. Become(r)
    BY ZenonT(60), <1>6 DEF SET_ID
  <2>3. r.delegated = delegated
    BY ZenonT(60) DEF Kernel
  <2> HIDE DEF r
  <2>1. UNCHANGED delegated
    BY ZenonT(60), <2>2, <2>3 DEF Become
  <2> QED BY <2>1, <1>3
<1>7. ASSUME NEW t \in Slots, try_reap(t) PROVE RightsToServersKept
  <2> DEFINE r == [Kernel EXCEPT !.state[t] = "Unused"]
  <2>2. Become(r)
    BY ZenonT(60), <1>7 DEF try_reap
  <2>3. r.delegated = delegated
    BY ZenonT(60) DEF Kernel
  <2> HIDE DEF r
  <2>1. UNCHANGED delegated
    BY ZenonT(60), <2>2, <2>3 DEF Become
  <2> QED BY <2>1, <1>3
<1>8. ASSUME NEW t \in Slots, EXIT(t) \/ Killed(t) PROVE RightsToServersKept
  BY <1>4, <1>8 DEF EXIT, Killed
<1> QED BY <1>1, <1>2, <1>5, <1>6, <1>7, <1>8 DEF Next

\* A restarted server is still reachable by those who could reach it.
THEOREM ServersStayReachable == Spec => RightsToServersLast
BY RightsSafety, KeepsStep, PTL DEF Spec, RightsToServersLast
============================================================================
