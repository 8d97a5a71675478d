------------------------ MODULE KeyboardOwnerProofs ------------------------
(***************************************************************************)
(* The chain of keyboard owners, for any number of slots.  Reachability is *)
(* spoken of through closed sets (a set of slots is closed when it holds   *)
(* every link of its members), so no induction along the chain is needed:  *)
(* a change of the table turns a closed set, or a would-be cycle, of the   *)
(* new table into one of the old table.                                    *)
(***************************************************************************)
EXTENDS KeyboardOwner, TLAPS, WellFoundedInduction

\* Every leaf is given a minute; nearly all take a second or two.
USE SMTT(60), ZenonT(60)

Keyed == Spawnable \cup {FIRST}

Tables ==
  [state : [Slots -> LiveStates \cup {"Unused", "Zombie"}],
   on : [Slots -> Slots],
   gen : [Slots -> Nat],
   owner : Slots,
   prev : [Slots -> Identities],
   cmd : [Slots -> BOOLEAN],
   raw : [Slots -> BOOLEAN],
   pending : Identities,
   doomed : [Slots -> Identities],
   line : Seq(Bytes),
   queue : 0 .. QUEUE_LEN]

Acyclic(k) ==
  \A S \in (SUBSET Slots) \ {{}} : \E s \in S : Below(k, s) \cap S = {}
Rooted(k, s) == \A S \in SUBSET Slots : (s \in S /\ Closed(k, S)) => FIRST \in S

\* The invariant of a set of tables.
Linked(k) ==
  /\ k.owner \in Keyed /\ is_occupied(k, k.owner)
  /\ is_occupied(k, FIRST) /\ k.prev[FIRST] = NoTask
  /\ \A s \in Slots : is_occupied(k, s) => k.gen[s] # 0
  /\ \A s \in Slots : Below(k, s) \subseteq Keyed
  /\ \A s \in Slots : k.prev[s] # NoTask => Below(k, s) # {}
  /\ \A s \in Slots : k.doomed[s] # NoTask => s \in Spawnable
  /\ Acyclic(k)
  /\ Rooted(k, k.owner)
Sound(k) == k \in Tables /\ Linked(k)

\* The boot shell's slot is not a program's.
LEMMA SlotFacts ==
  /\ Slots \subseteq Nat /\ FIRST \in Slots /\ FIRST \notin Spawnable
  /\ Spawnable \subseteq Slots /\ Keyed \subseteq Slots
  /\ NoTask \in Identities
BY SlotsAssumption DEF Slots, Spawnable, FIRST, Keyed, NoTask, Identities

\* A link leads to one task at most, and an empty link to none.
LEMMA LinkFacts ==
  ASSUME NEW k \in Tables, NEW s \in Slots
  PROVE  /\ Below(k, s) \subseteq Slots
         /\ \A t \in Slots : t \in Below(k, s) <=>
                (is_occupied(k, t) /\ k.prev[s] = <<t, k.gen[t]>>)
         /\ \A t, u \in Below(k, s) : t = u
         /\ (\A t \in Slots : is_occupied(k, t) => k.gen[t] # 0) /\ k.prev[s] = NoTask
              => Below(k, s) = {}
BY DEF Below, live_occupant, NoTask

\* A slot a link leads to is the only one.
LEMMA BelowIs ==
  ASSUME NEW k \in Tables, NEW s \in Slots, NEW t \in Below(k, s)
  PROVE  Below(k, s) = {t}
<1>1. \A u \in Below(k, s) : u = t
  BY ZenonT(60), LinkFacts
<1> QED
  BY ZenonT(60), <1>1

\* The keyboard returns to the link, or to the boot shell.
LEMMA ReturnFacts ==
  ASSUME NEW k \in Tables, NEW s \in Slots
  PROVE  \/ Below(k, s) = {} /\ ReturnTo(k, s) = FIRST
         \/ ReturnTo(k, s) \in Below(k, s)
<1>1. Below(k, s) \subseteq Slots
  BY LinkFacts
<1> QED
  BY <1>1 DEF ReturnTo

\* Whoever it returns to lives and may have it.
LEMMA ReturnLives ==
  ASSUME NEW k \in Tables, Linked(k), NEW s \in Slots
  PROVE  ReturnTo(k, s) \in Keyed /\ is_occupied(k, ReturnTo(k, s))
<1>1. CASE Below(k, s) = {} /\ ReturnTo(k, s) = FIRST
  <2>1. FIRST \in Keyed /\ is_occupied(k, FIRST)
    BY ZenonT(60) DEF Linked, Keyed
  <2> QED
    BY ZenonT(60), <1>1, <2>1
<1>2. CASE ReturnTo(k, s) \in Below(k, s)
  <2>1. Below(k, s) \subseteq Keyed
    BY ZenonT(60) DEF Linked
  <2>2. \A t \in Below(k, s) : is_occupied(k, t)
    BY ZenonT(60), LinkFacts
  <2> QED
    BY ZenonT(60), <1>2, <2>1, <2>2
<1> QED
  BY ZenonT(60), <1>1, <1>2, ReturnFacts

\* Tables that differ in nothing the chain is made of.
LEMMA SameLinks ==
  ASSUME NEW k, Sound(k), NEW n \in Tables,
         n.owner = k.owner, n.prev = k.prev, n.gen = k.gen,
         \A s \in Slots : is_occupied(n, s) <=> is_occupied(k, s),
         \A s \in Slots : n.doomed[s] # NoTask => s \in Spawnable
  PROVE  Sound(n)
<1>1. \A s \in Slots : Below(n, s) = Below(k, s)
  BY DEF Below, live_occupant
<1>2. \A S \in SUBSET Slots : Closed(n, S) <=> Closed(k, S)
  BY <1>1 DEF Closed
<1>3. Acyclic(n)
  BY <1>1 DEF Acyclic, Sound, Linked
<1>4. Rooted(n, n.owner)
  BY <1>2 DEF Rooted, Sound, Linked
<1>5. FIRST \in Slots /\ Keyed \subseteq Slots
  BY SlotFacts
<1> QED
  BY <1>1, <1>3, <1>4, <1>5 DEF Sound, Linked

\* Giving the keyboard back along the link (a detach).
LEMMA DetachSound ==
  ASSUME NEW k, Sound(k), k.owner # FIRST
  PROVE  Sound([k EXCEPT !.owner = ReturnTo(k, k.owner)])
<1> DEFINE r == ReturnTo(k, k.owner)
           n == [k EXCEPT !.owner = r]
<1>1. k \in Tables /\ Linked(k) /\ k.owner \in Slots
  BY DEF Sound, Tables
<1>2. r \in Keyed /\ is_occupied(k, r)
  BY ZenonT(60), <1>1, ReturnLives
<1> HIDE DEF r
<1>3. /\ n \in Tables /\ n.owner = r /\ n.prev = k.prev /\ n.gen = k.gen
      /\ n.state = k.state /\ n.doomed = k.doomed
  BY ZenonT(60), <1>1, <1>2, SlotFacts DEF Tables
<1> HIDE DEF n
<1>4. \A s \in Slots : Below(n, s) = Below(k, s)
  BY <1>3 DEF Below, live_occupant, is_occupied
<1>5. Acyclic(n)
  BY <1>1, <1>4 DEF Linked, Acyclic
<1>6. Rooted(n, r)
  <2> SUFFICES ASSUME NEW S \in SUBSET Slots, r \in S, Closed(n, S)
               PROVE  FIRST \in S
    BY DEF Rooted
  <2>1. CASE Below(k, k.owner) = {}
    BY <1>1, <2>1, ReturnFacts DEF r
  <2>2. CASE Below(k, k.owner) # {}
    <3>1. r \in Below(k, k.owner)
      BY <1>1, <2>2, ReturnFacts DEF r
    <3>2. Below(k, k.owner) \subseteq S
      BY <1>1, <3>1, LinkFacts
    <3>3. Closed(k, S \cup {k.owner})
      BY <1>4, <3>2 DEF Closed
    <3>4. FIRST \in S \cup {k.owner}
      BY <1>1, <3>3 DEF Linked, Rooted
    <3> QED
      BY <3>4
  <2> QED
    BY <2>1, <2>2
<1>7. Linked(n)
  BY <1>1, <1>2, <1>3, <1>4, <1>5, <1>6 DEF Linked, is_occupied
<1> QED
  BY <1>3, <1>7 DEF Sound, n, r

\* A push: the new owner was not in the chain, so its new link closes no loop.
LEMMA PushSound ==
  ASSUME NEW k, Sound(k), NEW n \in Tables, NEW t \in Keyed,
         is_occupied(k, t), t \notin Chain(k, k.owner),
         n.owner = t, n.gen = k.gen, n.state = k.state, n.doomed = k.doomed,
         n.prev = [k.prev EXCEPT ![t] = <<k.owner, k.gen[k.owner]>>]
  PROVE  Sound(n)
<1>1. /\ k \in Tables /\ Linked(k) /\ k.owner \in Slots /\ t \in Slots
      /\ k.owner \in Keyed /\ is_occupied(k, k.owner)
  BY ZenonT(60), SlotFacts DEF Sound, Tables, Linked
<1>2. \A s \in Slots : s # t => Below(n, s) = Below(k, s)
  BY <1>1 DEF Below, live_occupant, is_occupied, Tables
<1>3. Below(n, t) = {k.owner}
  <2>1. n.prev[t] = <<k.owner, k.gen[k.owner]>>
    BY <1>1 DEF Tables
  <2>2. \A u \in Slots : u \in Below(n, t) <=> u = k.owner
    BY <1>1, <2>1 DEF Below, live_occupant, is_occupied
  <2>3. Below(n, t) \subseteq Slots
    BY <1>1, LinkFacts
  <2> QED
    BY <1>1, <2>2, <2>3, ZenonT(60)
<1>4. PICK C \in SUBSET Slots : k.owner \in C /\ Closed(k, C) /\ t \notin C
  BY <1>1 DEF Chain
<1>5. Acyclic(n)
  <2> SUFFICES ASSUME NEW S \in (SUBSET Slots) \ {{}},
                      ~ \E s \in S : Below(n, s) \cap S = {}
               PROVE  FALSE
    BY ZenonT(60) DEF Acyclic
  <2>1. CASE t \notin S
    BY <1>1, <1>2, <2>1 DEF Linked, Acyclic
  <2>2. CASE t \in S
    <3>1. k.owner \in S \cap C
      BY <1>3, <1>4, <2>2
    <3>2. \A s \in S \cap C : Below(k, s) \cap (S \cap C) # {}
      BY <1>2, <1>4 DEF Closed
    <3> QED
      BY ZenonT(60), <1>1, <3>1, <3>2 DEF Linked, Acyclic
  <2> QED
    BY <2>1, <2>2
<1>6. Rooted(n, t)
  <2> SUFFICES ASSUME NEW S \in SUBSET Slots, t \in S, Closed(n, S)
               PROVE  FIRST \in S
    BY DEF Rooted
  <2>1. k.owner \in S \cap C
    BY <1>1, <1>3, <1>4 DEF Closed
  <2>2. Closed(k, S \cap C)
    BY <1>2, <1>4 DEF Closed
  <2> QED
    BY <1>1, <2>1, <2>2 DEF Linked, Rooted
<1>7. \A s \in Slots : Below(n, s) \subseteq Keyed
  BY <1>1, <1>2, <1>3 DEF Linked
<1>8. \A s \in Slots : n.prev[s] # NoTask => Below(n, s) # {}
  BY ZenonT(60), <1>1, <1>2, <1>3 DEF Linked, Tables
<1>9. n.prev[FIRST] = NoTask
  BY <1>1, SlotFacts DEF Linked, Rooted, Chain, Tables
<1>10. Linked(n)
  BY <1>1, <1>5, <1>6, <1>7, <1>8, <1>9 DEF Linked, is_occupied
<1> QED
  BY <1>10 DEF Sound

\* The part of the chain below any of its members still leads to the boot shell.
LEMMA RootedBelow ==
  ASSUME NEW k, Sound(k), NEW t \in Chain(k, k.owner)
  PROVE  Rooted(k, t)
<1> SUFFICES ASSUME NEW S \in SUBSET Slots, t \in S, Closed(k, S)
             PROVE  FIRST \in S
  BY DEF Rooted
<1>1. k \in Tables /\ Linked(k) /\ k.owner \in Slots /\ t \in Slots
  BY DEF Sound, Tables, Chain
<1> DEFINE U == S \cup {x \in Slots : t \in Chain(k, x)}
<1>2. U \in SUBSET Slots /\ k.owner \in U
  BY <1>1
<1>3. \A x \in Slots : x # t /\ t \in Chain(k, x)
                       => \A y \in Below(k, x) : t \in Chain(k, y)
  <2> SUFFICES ASSUME NEW x \in Slots, x # t, t \in Chain(k, x), NEW y \in Below(k, x),
                      NEW D \in SUBSET Slots, y \in D, Closed(k, D)
               PROVE  t \in D
    BY <1>1 DEF Chain
  <2>1. Below(k, x) \subseteq D
    BY <1>1, LinkFacts
  <2>2. Closed(k, D \cup {x})
    BY <2>1 DEF Closed
  <2>3. t \in D \cup {x}
    BY <2>2 DEF Chain
  <2> QED
    BY <2>3
<1>4. Closed(k, U)
  <2> SUFFICES ASSUME NEW x \in U, NEW y \in Below(k, x)
               PROVE  y \in U
    BY DEF Closed
  <2>1. CASE x \in S
    BY <2>1 DEF Closed
  <2>2. CASE x \notin S
    <3>1. x \in Slots /\ x # t /\ t \in Chain(k, x)
      BY <2>2
    <3>2. y \in Slots /\ t \in Chain(k, y)
      BY <1>1, <1>3, <3>1, LinkFacts
    <3> QED
      BY <3>2
  <2> QED
    BY <2>1, <2>2
<1> HIDE DEF U
<1>5. FIRST \in U
  BY <1>1, <1>2, <1>4 DEF Linked, Rooted
<1>6. Below(k, FIRST) = {}
  BY <1>1, LinkFacts, SlotFacts DEF Linked
<1>7. Closed(k, {FIRST}) /\ {FIRST} \in SUBSET Slots
  BY <1>6, SlotFacts DEF Closed
<1>8. t \in Chain(k, FIRST) => t = FIRST
  BY <1>7 DEF Chain
<1> QED
  BY <1>5, <1>8 DEF U

\* A pop: the links above the new owner go, the chain below it stays.
LEMMA PopSound ==
  ASSUME NEW k, Sound(k), NEW n \in Tables, NEW t \in Keyed,
         is_occupied(k, t), t \in Chain(k, k.owner),
         n.owner = t, n.gen = k.gen, n.state = k.state, n.doomed = k.doomed,
         n.prev = [s \in Slots |-> IF s \in Chain(k, k.owner) \ Chain(k, t)
                                   THEN NoTask ELSE k.prev[s]]
  PROVE  Sound(n)
<1>1. /\ k \in Tables /\ Linked(k) /\ k.owner \in Slots /\ t \in Slots
  BY ZenonT(60), SlotFacts DEF Sound, Tables
<1> DEFINE gone == Chain(k, k.owner) \ Chain(k, t)
<1>2. \A s \in Slots \ gone : Below(n, s) = Below(k, s)
  BY <1>1 DEF Below, live_occupant, is_occupied
<1>3. \A s \in gone \cap Slots : Below(n, s) = {}
  <2>1. \A s \in gone \cap Slots : n.prev[s] = NoTask
    OBVIOUS
  <2>2. \A s \in Slots : is_occupied(n, s) => n.gen[s] # 0
    BY <1>1 DEF Linked, is_occupied
  <2> QED
    BY <2>1, <2>2, LinkFacts
<1>4. \A s \in Slots : Below(n, s) \subseteq Below(k, s)
  BY <1>2, <1>3
<1>5. Chain(k, t) \in SUBSET Slots /\ t \in Chain(k, t) /\ Closed(k, Chain(k, t))
  <2>1. Chain(k, t) \in SUBSET Slots /\ t \in Chain(k, t)
    BY <1>1 DEF Chain
  <2>2. Closed(k, Chain(k, t))
    <3> SUFFICES ASSUME NEW s \in Chain(k, t), NEW u \in Below(k, s)
                 PROVE  u \in Chain(k, t)
      BY DEF Closed
    <3>1. u \in Slots
      BY <1>1, <2>1, LinkFacts
    <3> QED
      BY <3>1 DEF Chain, Closed
  <2> QED
    BY <2>1, <2>2
<1>6. \A s \in Chain(k, t) : s \in Slots \ gone
  BY <1>5
<1> HIDE DEF gone
<1>7. Acyclic(n)
  BY <1>1, <1>4 DEF Linked, Acyclic
<1>8. Rooted(n, t)
  <2> SUFFICES ASSUME NEW S \in SUBSET Slots, t \in S, Closed(n, S)
               PROVE  FIRST \in S
    BY DEF Rooted
  <2> DEFINE C == S \cap Chain(k, t)
  <2>1. C \in SUBSET Slots /\ t \in C
    BY <1>5
  <2>2. Closed(k, C)
    BY <1>2, <1>5, <1>6 DEF Closed
  <2> HIDE DEF C
  <2>4. Rooted(k, t)
    BY RootedBelow
  <2> QED
    BY <2>1, <2>2, <2>4 DEF Rooted, C
<1>9. \A s \in Slots : n.prev[s] # NoTask => Below(n, s) # {}
  BY ZenonT(60), <1>1, <1>2 DEF Linked, gone
<1>10. n.prev[FIRST] = NoTask
  BY ZenonT(60), <1>1, SlotFacts DEF Linked
<1>11. Linked(n)
  BY ZenonT(60), <1>1, <1>4, <1>7, <1>8, <1>9, <1>10 DEF Linked, is_occupied
<1> QED
  BY <1>11 DEF Sound

\* A death: every link that named the dead task is re-pointed at its own link.
LEMMA EndSound ==
  ASSUME NEW k, Sound(k), NEW d \in Spawnable, is_occupied(k, d),
         NEW final \in {"Unused", "Zombie"}
  PROVE  Sound(end_task(k, d, final))
<1> DEFINE n == end_task(k, d, final)
<1>1. /\ k \in Tables /\ Linked(k) /\ k.owner \in Slots /\ d \in Slots /\ d # FIRST
  BY ZenonT(60), SlotFacts DEF Sound, Tables
<1>2. ReturnTo(k, d) \in Keyed /\ is_occupied(k, ReturnTo(k, d))
  BY ZenonT(60), <1>1, ReturnLives
<1>3. /\ n \in Tables /\ n.gen = k.gen
      /\ n.owner = IF k.owner = d THEN ReturnTo(k, d) ELSE k.owner
      /\ n.prev = [s \in Slots |-> IF s = d THEN NoTask
                                   ELSE IF k.prev[s] = <<d, k.gen[d]>> THEN k.prev[d]
                                   ELSE k.prev[s]]
      /\ n.state = [k.state EXCEPT ![d] = final]
      /\ n.doomed = [k.doomed EXCEPT ![d] = NoTask]
  <2> DEFINE r == revert_input_owner_if(k, d)
  <2>1. /\ r \in Tables
        /\ r.gen = k.gen /\ r.state = k.state /\ r.doomed = k.doomed
        /\ r.owner = IF k.owner = d THEN ReturnTo(k, d) ELSE k.owner
        /\ r.prev = [s \in Slots |-> IF s = d THEN NoTask
                                     ELSE IF k.prev[s] = <<d, k.gen[d]>> THEN k.prev[d]
                                     ELSE k.prev[s]]
    BY ZenonT(60), <1>1, <1>2, SlotFacts DEF revert_input_owner_if, Tables
  <2>2. n = [r EXCEPT !.doomed[d] = NoTask, !.state[d] = final, !.on[d] = 0,
                      !.raw[d] = FALSE]
    BY DEF end_task
  <2>3. 0 \in Slots
    BY SlotFacts DEF FIRST
  <2> HIDE DEF r, n
  <2> QED
    BY ZenonT(60), <1>1, <2>1, <2>2, <2>3, SlotFacts DEF Tables
<1> HIDE DEF n
<1>4. \A s \in Slots : is_occupied(n, s) <=> (is_occupied(k, s) /\ s # d)
  BY ZenonT(60), <1>1, <1>3 DEF is_occupied, LiveStates, Tables
<1>5. \A s \in Slots : is_occupied(k, s) => k.gen[s] # 0
  BY <1>1 DEF Linked
<1>6. \A s \in Slots : is_occupied(n, s) => n.gen[s] # 0
  BY <1>3, <1>4, <1>5
<1>7. d \notin Below(k, d)
  <2>1. \E s \in {d} : Below(k, s) \cap {d} = {}
    BY ZenonT(60), <1>1 DEF Linked, Acyclic
  <2> QED
    BY <2>1
<1>8. Below(n, d) = {}
  BY <1>1, <1>3, <1>6, LinkFacts
<1>9. \A s \in Slots : s # d /\ k.prev[s] = <<d, k.gen[d]>> =>
         Below(k, s) = {d} /\ Below(n, s) = Below(k, d)
  <2> SUFFICES ASSUME NEW s \in Slots, s # d, k.prev[s] = <<d, k.gen[d]>>
               PROVE  Below(k, s) = {d} /\ Below(n, s) = Below(k, d)
    OBVIOUS
  <2>1. d \in Below(k, s)
    BY ZenonT(60), <1>1, LinkFacts
  <2>2. Below(k, s) = {d}
    BY <1>1, <2>1, LinkFacts
  <2>3. n.prev[s] = k.prev[d]
    BY ZenonT(60), <1>3
  <2>4. \A t \in Slots : t \in Below(n, s) <=> t \in Below(k, d)
    <3> SUFFICES ASSUME NEW t \in Slots
                 PROVE  t \in Below(n, s) <=> t \in Below(k, d)
      OBVIOUS
    <3>1. t \in Below(n, s) <=> is_occupied(n, t) /\ n.prev[s] = <<t, n.gen[t]>>
      BY ZenonT(60), <1>3, LinkFacts
    <3>2. t \in Below(k, d) <=> is_occupied(k, t) /\ k.prev[d] = <<t, k.gen[t]>>
      BY ZenonT(60), <1>1, LinkFacts
    <3> QED
      BY <1>1, <1>3, <1>4, <1>7, <2>3, <3>1, <3>2
  <2>5. Below(n, s) \subseteq Slots /\ Below(k, d) \subseteq Slots
    BY <1>1, <1>3, LinkFacts
  <2> QED
    BY <2>2, <2>4, <2>5, ZenonT(60)
<1>10. \A s \in Slots : s # d /\ k.prev[s] # <<d, k.gen[d]>> =>
         Below(n, s) = Below(k, s) /\ d \notin Below(k, s)
  <2> SUFFICES ASSUME NEW s \in Slots, s # d, k.prev[s] # <<d, k.gen[d]>>
               PROVE  Below(n, s) = Below(k, s) /\ d \notin Below(k, s)
    OBVIOUS
  <2>1. n.prev[s] = k.prev[s]
    BY <1>3
  <2>2. d \notin Below(k, s)
    BY ZenonT(60), <1>1, LinkFacts
  <2>3. \A t \in Slots : t \in Below(n, s) <=> t \in Below(k, s)
    <3> SUFFICES ASSUME NEW t \in Slots
                 PROVE  t \in Below(n, s) <=> t \in Below(k, s)
      OBVIOUS
    <3>1. t \in Below(n, s) <=> is_occupied(n, t) /\ n.prev[s] = <<t, n.gen[t]>>
      BY ZenonT(60), <1>3, LinkFacts
    <3>2. t \in Below(k, s) <=> is_occupied(k, t) /\ k.prev[s] = <<t, k.gen[t]>>
      BY ZenonT(60), <1>1, LinkFacts
    <3> QED
      BY <1>1, <1>3, <1>4, <2>1, <2>2, <3>1, <3>2
  <2>4. Below(n, s) \subseteq Slots /\ Below(k, s) \subseteq Slots
    BY <1>1, <1>3, LinkFacts
  <2> QED
    BY <2>2, <2>3, <2>4, ZenonT(60)
<1>11. Acyclic(n)
  <2> SUFFICES ASSUME NEW S \in (SUBSET Slots) \ {{}},
                      ~ \E s \in S : Below(n, s) \cap S = {}
               PROVE  FALSE
    BY ZenonT(60) DEF Acyclic
  <2>1. d \notin S
    BY <1>8
  <2>2. CASE \E s \in S : k.prev[s] = <<d, k.gen[d]>>
    <3>1. PICK s \in S : k.prev[s] = <<d, k.gen[d]>>
      BY <2>2
    <3>2. Below(k, d) \cap S # {}
      BY ZenonT(60), <1>9, <2>1, <3>1
    <3>3. \A u \in S \cup {d} : Below(k, u) \cap (S \cup {d}) # {}
      BY <1>9, <1>10, <2>1, <3>2
    <3>4. S \cup {d} \in (SUBSET Slots) \ {{}}
      BY <1>1
    <3> QED
      BY ZenonT(60), <1>1, <3>3, <3>4 DEF Linked, Acyclic
  <2>3. CASE ~ \E s \in S : k.prev[s] = <<d, k.gen[d]>>
    <3>1. \A u \in S : Below(k, u) \cap S # {}
      BY <1>10, <2>1, <2>3
    <3> QED
      BY ZenonT(60), <1>1, <3>1 DEF Linked, Acyclic
  <2> QED
    BY <2>2, <2>3
<1>12. Rooted(n, n.owner)
  <2> SUFFICES ASSUME NEW S \in SUBSET Slots, n.owner \in S, Closed(n, S)
               PROVE  FIRST \in S
    BY ZenonT(60) DEF Rooted
  <2>1. CASE k.owner = d /\ Below(k, d) = {}
    BY <1>1, <1>3, <2>1, ReturnFacts
  <2>2. CASE k.owner = d /\ Below(k, d) # {}
    <3>1. ReturnTo(k, d) \in Below(k, d) /\ ReturnTo(k, d) \in S
      BY ZenonT(60), <1>1, <1>3, <2>2, ReturnFacts
    <3>2. Below(k, d) \subseteq S
      BY <1>1, <3>1, LinkFacts
    <3>3. Closed(k, S \cup {d})
      BY ZenonT(60), <1>9, <1>10, <3>2 DEF Closed
    <3>4. FIRST \in S \cup {d}
      BY <1>1, <2>2, <3>3 DEF Linked, Rooted
    <3> QED
      BY <1>1, <3>4
  <2>3. CASE k.owner # d /\ \E s \in S : s # d /\ k.prev[s] = <<d, k.gen[d]>>
    <3>1. PICK s \in S : s # d /\ k.prev[s] = <<d, k.gen[d]>>
      BY <2>3
    <3>2. Below(k, d) \subseteq S
      BY <1>9, <3>1 DEF Closed
    <3>3. Closed(k, S \cup {d})
      BY ZenonT(60), <1>9, <1>10, <3>2 DEF Closed
    <3>4. FIRST \in S \cup {d}
      BY ZenonT(60), <1>1, <1>3, <2>3, <3>3 DEF Linked, Rooted
    <3> QED
      BY <1>1, <3>4
  <2>4. CASE k.owner # d /\ ~ \E s \in S : s # d /\ k.prev[s] = <<d, k.gen[d]>>
    <3>1. Closed(k, S \ {d})
      BY ZenonT(60), <1>10, <2>4 DEF Closed
    <3>2. FIRST \in S \ {d}
      BY ZenonT(60), <1>1, <1>3, <2>4, <3>1 DEF Linked, Rooted
    <3> QED
      BY <3>2
  <2> QED
    BY <2>1, <2>2, <2>3, <2>4
<1>13. \A s \in Slots : Below(n, s) \subseteq Keyed
  BY <1>1, <1>8, <1>9, <1>10 DEF Linked
<1>14. \A s \in Slots : n.prev[s] # NoTask => Below(n, s) # {}
  <2> SUFFICES ASSUME NEW s \in Slots, n.prev[s] # NoTask PROVE Below(n, s) # {}
    OBVIOUS
  <2>1. s # d
    BY <1>3
  <2>2. \A u \in Slots : k.prev[u] # NoTask => Below(k, u) # {}
    BY <1>1 DEF Linked
  <2>3. CASE k.prev[s] = <<d, k.gen[d]>>
    <3>1. n.prev[s] = k.prev[d]
      BY <1>3, <2>1, <2>3
    <3> QED
      BY ZenonT(60), <1>1, <1>9, <2>1, <2>2, <2>3, <3>1
  <2>4. CASE k.prev[s] # <<d, k.gen[d]>>
    <3>1. n.prev[s] = k.prev[s]
      BY ZenonT(60), <1>3, <2>1, <2>4
    <3> QED
      BY ZenonT(60), <1>10, <2>1, <2>2, <2>4, <3>1
  <2> QED
    BY <2>3, <2>4
<1>15. n.prev[FIRST] = NoTask
  <2>1. k.prev[FIRST] = NoTask /\ k.gen[d] # 0
    BY <1>1, <1>5 DEF Linked
  <2> QED
    BY <1>1, <1>3, <2>1, SlotFacts DEF NoTask
<1>16. n.owner \in Keyed /\ is_occupied(n, n.owner) /\ is_occupied(n, FIRST)
  <2>1. k.owner \in Keyed /\ is_occupied(k, k.owner) /\ is_occupied(k, FIRST)
    BY <1>1 DEF Linked
  <2>2. k.owner = d => ReturnTo(k, d) # d
    BY ZenonT(60), <1>1, <1>7, ReturnFacts
  <2> QED
    BY ZenonT(60), <1>1, <1>2, <1>3, <1>4, <2>1, <2>2, SlotFacts
<1>17. \A s \in Slots : n.doomed[s] # NoTask => s \in Spawnable
  BY ZenonT(60), <1>1, <1>3 DEF Linked, Tables
<1>18. Linked(n)
  BY ZenonT(60), <1>6, <1>11, <1>12, <1>13, <1>14, <1>15, <1>16, <1>17 DEF Linked
<1> QED
  BY <1>3, <1>18 DEF Sound, n

\* FG keeps the chain: nothing, a pop or a push.
LEMMA SetOwnerSound ==
  ASSUME NEW k, Sound(k), NEW t \in Keyed, is_occupied(k, t), NEW command \in BOOLEAN
  PROVE  Sound(set_input_owner(k, t, command))
<1> DEFINE f == [k EXCEPT !.cmd[t] = command, !.owner = t]
           n == set_input_owner(k, t, command)
<1>1. k \in Tables /\ Linked(k) /\ t \in Slots /\ k.owner \in Slots
  BY ZenonT(60), SlotFacts DEF Sound, Tables
<1>2. /\ f \in Tables /\ f.owner = t /\ f.prev = k.prev /\ f.gen = k.gen
      /\ f.state = k.state /\ f.doomed = k.doomed
  BY ZenonT(60), <1>1 DEF Tables
<1> HIDE DEF f
<1>3. CASE k.owner = t
  <2>1. n = f
    BY <1>3 DEF set_input_owner, f
  <2>2. \A s \in Slots : is_occupied(f, s) <=> is_occupied(k, s)
    BY <1>2 DEF is_occupied
  <2>3. \A s \in Slots : f.doomed[s] # NoTask => s \in Spawnable
    BY <1>1, <1>2 DEF Linked
  <2>4. Sound(f)
    BY <1>2, <1>3, <2>2, <2>3, SameLinks
  <2> QED
    BY <2>1, <2>4
<1>4. CASE k.owner # t /\ t \in Chain(k, k.owner)
  <2> DEFINE links == [s \in Slots |-> IF s \in Chain(k, k.owner) \ Chain(k, t)
                                       THEN NoTask ELSE k.prev[s]]
  <2>1. n = [f EXCEPT !.prev = links]
    BY <1>4 DEF set_input_owner, f
  <2>2. links \in [Slots -> Identities]
    BY <1>1, SlotFacts DEF Tables
  <2> HIDE DEF links, n
  <2>3. /\ n \in Tables /\ n.owner = t /\ n.prev = links /\ n.gen = k.gen
        /\ n.state = k.state /\ n.doomed = k.doomed
    BY ZenonT(60), <1>2, <2>1, <2>2 DEF Tables
  <2>4. Sound(n)
    BY ZenonT(60), <1>4, <2>3, PopSound DEF links
  <2> QED
    BY <2>4 DEF n
<1>5. CASE k.owner # t /\ t \notin Chain(k, k.owner)
  <2>1. t # FIRST
    BY <1>1, <1>5, SlotFacts DEF Linked, Rooted, Chain
  <2>2. n = [f EXCEPT !.prev[t] = <<k.owner, k.gen[k.owner]>>]
    BY <1>5, <2>1 DEF set_input_owner, f
  <2>3. <<k.owner, k.gen[k.owner]>> \in Identities
    BY <1>1 DEF Tables, Identities
  <2> HIDE DEF n
  <2>4. /\ n \in Tables /\ n.owner = t /\ n.gen = k.gen
        /\ n.prev = [k.prev EXCEPT ![t] = <<k.owner, k.gen[k.owner]>>]
        /\ n.state = k.state /\ n.doomed = k.doomed
    BY ZenonT(60), <1>1, <1>2, <2>2, <2>3 DEF Tables
  <2>5. Sound(n)
    BY <1>5, <2>4, PushSound
  <2> QED
    BY <2>5 DEF n
<1> QED
  BY <1>3, <1>4, <1>5

\* Reading bytes and queueing them touches no link.
LEMMA LineSound ==
  ASSUME NEW k, Sound(k), NEW l \in Seq(Bytes), NEW q \in 0 .. QUEUE_LEN
  PROVE  /\ Sound([k EXCEPT !.line = l])
         /\ Sound([k EXCEPT !.queue = q])
         /\ Sound([k EXCEPT !.line = l, !.queue = q])
         /\ [k EXCEPT !.line = l].owner = k.owner
<1>1. k \in Tables /\ \A s \in Slots : k.doomed[s] # NoTask => s \in Spawnable
  BY DEF Sound, Linked
<1> DEFINE a == [k EXCEPT !.line = l]
           b == [k EXCEPT !.queue = q]
           c == [k EXCEPT !.line = l, !.queue = q]
<1>2. /\ a \in Tables /\ a.owner = k.owner /\ a.prev = k.prev /\ a.gen = k.gen
      /\ a.state = k.state /\ a.doomed = k.doomed
  BY ZenonT(60), <1>1 DEF Tables
<1>3. /\ b \in Tables /\ b.owner = k.owner /\ b.prev = k.prev /\ b.gen = k.gen
      /\ b.state = k.state /\ b.doomed = k.doomed
  BY ZenonT(60), <1>1 DEF Tables
<1>4. /\ c \in Tables /\ c.owner = k.owner /\ c.prev = k.prev /\ c.gen = k.gen
      /\ c.state = k.state /\ c.doomed = k.doomed
  BY ZenonT(60), <1>1 DEF Tables
<1> HIDE DEF a, b, c
<1>5. Sound(a)
  BY ZenonT(60), <1>1, <1>2, SameLinks DEF is_occupied
<1>6. Sound(b)
  BY ZenonT(60), <1>1, <1>3, SameLinks DEF is_occupied
<1>7. Sound(c)
  BY <1>1, <1>4, SameLinks DEF is_occupied
<1> QED
  BY ZenonT(60), <1>2, <1>5, <1>6, <1>7 DEF a, b, c

\* A wake-up, a block or a reap changes no task's liveness but a zombie's slot.
LEMMA StateSound ==
  ASSUME NEW k, Sound(k), NEW n \in Tables,
         n.owner = k.owner, n.prev = k.prev, n.gen = k.gen, n.doomed = k.doomed,
         \A s \in Slots : is_occupied(n, s) <=> is_occupied(k, s)
  PROVE  Sound(n)
<1>1. \A s \in Slots : n.doomed[s] # NoTask => s \in Spawnable
  BY DEF Sound, Linked
<1> QED
  BY ZenonT(60), <1>1, SameLinks

\* What an interrupt key does to a program that owns the keyboard.
LEMMA InterruptSound ==
  ASSUME NEW k, Sound(k), k.owner # FIRST
  PROVE  Sound(Flushed(interrupt_key_check(k)))
<1>1. k \in Tables /\ k.owner \in Slots
  BY DEF Sound, Tables
<1>2. Sound(interrupt_key_check(k))
  <2>1. CASE k.cmd[k.owner] \/ task_waited_on(k, k.owner)
    <3> DEFINE n == [k EXCEPT !.pending = <<k.owner, k.gen[k.owner]>>]
    <3>1. interrupt_key_check(k) = n
      BY <2>1 DEF interrupt_key_check
    <3>2. <<k.owner, k.gen[k.owner]>> \in Identities
      BY <1>1 DEF Tables, Identities
    <3>3. /\ n \in Tables /\ n.owner = k.owner /\ n.prev = k.prev /\ n.gen = k.gen
          /\ n.state = k.state /\ n.doomed = k.doomed
      BY ZenonT(60), <1>1, <3>2 DEF Tables
    <3> HIDE DEF n
    <3>4. Sound(n)
      BY <3>3, StateSound DEF is_occupied
    <3> QED
      BY <3>1, <3>4
  <2>2. CASE ~(k.cmd[k.owner] \/ task_waited_on(k, k.owner))
    BY <2>2, DetachSound DEF interrupt_key_check
  <2> QED
    BY <2>1, <2>2
<1>3. 0 \in 0 .. QUEUE_LEN
  BY BoundsAssumption
<1> DEFINE n == interrupt_key_check(k)
<1>4. n \in Tables /\ n.line \in Seq(Bytes)
  BY ZenonT(60), <1>2 DEF Sound, Tables
<1> HIDE DEF n
<1>5. Sound([n EXCEPT !.queue = 0])
  BY ZenonT(60), <1>2, <1>3, <1>4, LineSound DEF n
<1> QED
  BY ZenonT(60), <1>5 DEF Flushed, n

\* A read of one byte.
LEMMA PollKeySound ==
  ASSUME NEW k, Sound(k), NEW r \in Slots
  PROVE  Sound(poll_keyboard_byte(k, r).k)
<1>1. k \in Tables /\ k.line \in Seq(Bytes) /\ k.queue \in 0 .. QUEUE_LEN
  BY DEF Sound, Tables
<1> DEFINE p == poll_keyboard_byte(k, r)
<1>2. CASE ~Reads(k, r)
  BY <1>2 DEF poll_keyboard_byte
<1>3. CASE Reads(k, r) /\ k.queue > 0
  <2>1. p.k = [k EXCEPT !.queue = k.queue - 1]
    BY <1>3 DEF poll_keyboard_byte
  <2>2. k.queue - 1 \in 0 .. QUEUE_LEN
    BY <1>1, <1>3, BoundsAssumption
  <2> QED
    BY ZenonT(60), <1>1, <2>1, <2>2, LineSound
<1>4. CASE Reads(k, r) /\ ~(k.queue > 0) /\ k.line = << >>
  BY <1>4 DEF poll_keyboard_byte
<1>5. CASE Reads(k, r) /\ ~(k.queue > 0) /\ k.line # << >>
  <2> DEFINE n == [k EXCEPT !.line = Tail(k.line)]
  <2>1. Tail(k.line) \in Seq(Bytes) /\ Head(k.line) \in Bytes
    BY <1>1, <1>5
  <2>2. Sound(n) /\ n.owner = k.owner
    BY ZenonT(60), <1>1, <2>1, LineSound
  <2>3. CASE KeyVerdict(k, Head(k.line)) = "Consumed"
    <3>1. k.owner # FIRST
      BY <2>3 DEF KeyVerdict
    <3>2. p.k = Flushed(interrupt_key_check(n))
      BY <1>5, <2>3 DEF poll_keyboard_byte
    <3> HIDE DEF n
    <3>3. Sound(Flushed(interrupt_key_check(n)))
      BY <2>2, <3>1, InterruptSound
    <3> QED
      BY <3>2, <3>3
  <2>4. CASE KeyVerdict(k, Head(k.line)) # "Consumed"
    BY <1>5, <2>2, <2>4 DEF poll_keyboard_byte
  <2> QED
    BY <2>3, <2>4
<1> QED
  BY ZenonT(60), <1>2, <1>3, <1>4, <1>5

\* A non-empty set of positions has a first one.
LEMMA FirstExists ==
  ASSUME NEW I \in SUBSET Nat, I # {}
  PROVE  FirstOf(I) \in I
<1>1. IsWellFoundedOn(OpToRel(<, Nat), Nat)
  BY ZenonT(60), NatLessThanWellFounded
<1>2. \E x \in I : \A y \in I : ~ (<<y, x>> \in OpToRel(<, Nat))
  BY <1>1, WFMin, ZenonT(60)
<1>3. PICK x \in I : \A y \in I : ~ (y < x)
  BY ZenonT(60), <1>2 DEF OpToRel
<1>4. \A y \in I : x <= y
  BY <1>3
<1> QED
  BY ZenonT(60), <1>4 DEF FirstOf

\* The read-ahead.
LEMMA ReadAheadSound ==
  ASSUME NEW k, Sound(k), NEW r \in Slots
  PROVE  Sound(read_keyboard_ahead(k, r).k)
<1>1. k \in Tables /\ k.line \in Seq(Bytes) /\ k.queue \in 0 .. QUEUE_LEN
  BY DEF Sound, Tables
<1> DEFINE p == read_keyboard_ahead(k, r)
<1>2. CASE ~Reads(k, r)
  BY <1>2 DEF read_keyboard_ahead
<1>3. CASE Reads(k, r) /\ Interrupts(k) = {}
  <2> DEFINE room == QUEUE_LEN - k.queue
             q == k.queue + IF Len(k.line) < room THEN Len(k.line) ELSE room
  <2>1. p.k = [k EXCEPT !.line = << >>, !.queue = q]
    BY <1>3 DEF read_keyboard_ahead
  <2>2. Len(k.line) \in Nat
    BY <1>1
  <2>3. q \in 0 .. QUEUE_LEN
    BY <1>1, <2>2, BoundsAssumption
  <2>4. << >> \in Seq(Bytes)
    OBVIOUS
  <2> HIDE DEF q
  <2>5. Sound([k EXCEPT !.line = << >>, !.queue = q])
    BY ZenonT(60), <2>3, <2>4, LineSound
  <2> QED
    BY <2>1, <2>5
<1>4. CASE Reads(k, r) /\ Interrupts(k) # {}
  <2> DEFINE i == FirstOf(Interrupts(k))
             l == SubSeq(k.line, i + 1, Len(k.line))
             n == [k EXCEPT !.line = l]
  <2>1. Len(k.line) \in Nat
    BY <1>1
  <2>2. i \in 1 .. Len(k.line)
    <3>1. Interrupts(k) \subseteq Nat
      BY <2>1 DEF Interrupts
    <3>2. i \in Interrupts(k)
      BY <1>4, <3>1, FirstExists
    <3> QED
      BY <3>2 DEF Interrupts
  <2> HIDE DEF i
  <2>3. \A j \in i + 1 .. Len(k.line) : k.line[j] \in Bytes
    <3>1. \A j \in 1 .. Len(k.line) : k.line[j] \in Bytes
      BY <1>1
    <3> QED
      BY <2>1, <2>2, <3>1
  <2>4. l \in Seq(Bytes)
    BY <2>1, <2>2, <2>3
  <2> HIDE DEF l
  <2>5. Sound(n) /\ n.owner = k.owner
    BY ZenonT(60), <1>1, <2>4, LineSound
  <2>6. p.k = Flushed(IF k.owner = FIRST THEN n ELSE interrupt_key_check(n))
    BY <1>4 DEF read_keyboard_ahead, l, i
  <2> HIDE DEF n, p
  <2>7. 0 \in 0 .. QUEUE_LEN
    BY BoundsAssumption
  <2>8. Sound(Flushed(n))
    BY ZenonT(60), <1>1, <2>5, <2>7, LineSound DEF Flushed
  <2>9. k.owner # FIRST => Sound(Flushed(interrupt_key_check(n)))
    BY <2>5, InterruptSound
  <2>10. Sound(p.k)
    BY <2>6, <2>8, <2>9
  <2> QED
    BY ZenonT(60), <2>10 DEF p
<1> QED
  BY <1>2, <1>3, <1>4

\* A kill, here or left to the core the task runs on.
LEMMA KillSound ==
  ASSUME NEW k, Sound(k), NEW t \in Spawnable, is_occupied(k, t), NEW elsewhere \in BOOLEAN
  PROVE  Sound(kill_task(k, t, elsewhere))
<1>1. CASE ~elsewhere
  BY <1>1, EndSound DEF kill_task
<1>2. CASE elsewhere
  <2> DEFINE n == [k EXCEPT !.doomed[t] = <<t, k.gen[t]>>]
  <2>1. k \in Tables /\ t \in Slots /\ Linked(k)
    BY SlotFacts DEF Sound
  <2>2. <<t, k.gen[t]>> \in Identities
    BY <2>1 DEF Tables, Identities
  <2>3. /\ n \in Tables /\ n.owner = k.owner /\ n.prev = k.prev /\ n.gen = k.gen
        /\ n.state = k.state /\ n.doomed = [k.doomed EXCEPT ![t] = <<t, k.gen[t]>>]
    BY ZenonT(60), <2>1, <2>2 DEF Tables
  <2> HIDE DEF n
  <2>4. \A s \in Slots : n.doomed[s] # NoTask => s \in Spawnable
    BY <2>1, <2>3 DEF Linked, Tables
  <2>5. Sound(n)
    BY ZenonT(60), <2>3, <2>4, SameLinks DEF is_occupied
  <2> QED
    BY <1>2, <2>5 DEF kill_task, n
<1> QED
  BY <1>1, <1>2

\* Waking a task, with or without its wait target reset.
LEMMA WakeSound ==
  ASSUME NEW k, Sound(k), NEW s \in Slots, is_occupied(k, s), NEW st \in LiveStates,
         NEW o \in Slots
  PROVE  /\ Sound([k EXCEPT !.state[s] = st])
         /\ Sound([k EXCEPT !.state[s] = st, !.on[s] = o])
<1> DEFINE a == [k EXCEPT !.state[s] = st]
           b == [k EXCEPT !.state[s] = st, !.on[s] = o]
<1>1. k \in Tables
  BY DEF Sound
<1>2. /\ a \in Tables /\ a.owner = k.owner /\ a.prev = k.prev /\ a.gen = k.gen
      /\ a.doomed = k.doomed /\ a.state = [k.state EXCEPT ![s] = st]
  BY ZenonT(60), <1>1 DEF Tables
<1>3. /\ b \in Tables /\ b.owner = k.owner /\ b.prev = k.prev /\ b.gen = k.gen
      /\ b.doomed = k.doomed /\ b.state = [k.state EXCEPT ![s] = st]
  BY ZenonT(60), <1>1 DEF Tables
<1> HIDE DEF a, b
<1>4. Sound(a)
  <2>1. \A u \in Slots : is_occupied(a, u) <=> is_occupied(k, u)
    BY ZenonT(60), <1>1, <1>2 DEF is_occupied, Tables
  <2> QED
    BY ZenonT(60), <1>2, <2>1, StateSound
<1>5. Sound(b)
  <2>1. \A u \in Slots : is_occupied(b, u) <=> is_occupied(k, u)
    BY <1>1, <1>3 DEF is_occupied, Tables
  <2> QED
    BY <1>3, <2>1, StateSound
<1> QED
  BY <1>4, <1>5 DEF a, b

\* Reading a key or reading ahead changes no task's state.
LEMMA ReadKeepsStates ==
  ASSUME NEW k \in Tables, NEW r \in Slots
  PROVE  /\ poll_keyboard_byte(k, r).k.state = k.state
         /\ read_keyboard_ahead(k, r).k.state = k.state
BY ZenonT(60) DEF poll_keyboard_byte, read_keyboard_ahead, Flushed, interrupt_key_check, Tables

\* The wake-check of one blocked task.
LEMMA PollSound ==
  ASSUME NEW k, Sound(k), NEW s \in Slots
  PROVE  Sound(poll(k, s))
<1>1. k \in Tables /\ k.on[s] \in Slots /\ 0 \in Slots
  BY ZenonT(60), SlotFacts DEF Sound, Tables, FIRST
<1>2. "Runnable" \in LiveStates
  BY DEF LiveStates
<1>3. CASE k.state[s] = "Read"
  <2> DEFINE r == poll_keyboard_byte(k, s)
  <2>1. Sound(r.k) /\ r.k.state = k.state
    BY <1>1, PollKeySound, ReadKeepsStates
  <2>2. poll(k, s) = IF r.got THEN [r.k EXCEPT !.state[s] = "Runnable"] ELSE r.k
    BY <1>3 DEF poll
  <2> HIDE DEF r
  <2>3. is_occupied(r.k, s)
    BY <1>3, <2>1 DEF is_occupied, LiveStates
  <2>4. Sound([r.k EXCEPT !.state[s] = "Runnable"])
    BY ZenonT(60), <1>1, <1>2, <2>1, <2>3, WakeSound
  <2> QED
    BY <2>1, <2>2, <2>4
<1>4. CASE k.state[s] = "Wait" /\ k.state[k.on[s]] = "Zombie"
  <2> DEFINE o == k.on[s]
             n == [k EXCEPT !.state[o] = "Unused", !.state[s] = "Runnable", !.on[s] = 0]
  <2>1. poll(k, s) = n
    BY <1>4 DEF poll
  <2>2. o # s /\ o \in Slots
    BY <1>1, <1>4
  <2> HIDE DEF o
  <2>3. /\ n \in Tables /\ n.owner = k.owner /\ n.prev = k.prev /\ n.gen = k.gen
        /\ n.doomed = k.doomed
        /\ n.state = [k.state EXCEPT ![o] = "Unused", ![s] = "Runnable"]
    BY ZenonT(60), <1>1, <1>2, <2>2 DEF Tables
  <2> HIDE DEF n
  <2>4. \A u \in Slots : is_occupied(n, u) <=> is_occupied(k, u)
    BY ZenonT(60), <1>1, <1>4, <2>2, <2>3 DEF is_occupied, LiveStates, Tables, o
  <2>5. Sound(n)
    BY <2>3, <2>4, StateSound
  <2> QED
    BY <2>1, <2>5
<1>5. CASE k.state[s] = "Wait" /\ k.state[k.on[s]] = "Unused"
  <2>1. poll(k, s) = [k EXCEPT !.state[s] = "Runnable", !.on[s] = 0]
    BY <1>5 DEF poll
  <2>2. is_occupied(k, s)
    BY <1>5 DEF is_occupied, LiveStates
  <2>3. Sound([k EXCEPT !.state[s] = "Runnable", !.on[s] = 0])
    BY ZenonT(60), <1>1, <1>2, <2>2, WakeSound
  <2> QED
    BY <2>1, <2>3
<1>6. CASE /\ k.state[s] \in {"Wait", "Message"}
           /\ ~(k.state[s] = "Wait" /\ k.state[k.on[s]] \in {"Zombie", "Unused"})
  <2> DEFINE r == read_keyboard_ahead(k, s)
  <2>1. Sound(r.k) /\ r.k.state = k.state
    BY <1>1, ReadAheadSound, ReadKeepsStates
  <2>2. poll(k, s) = IF r.interrupted
                     THEN [r.k EXCEPT !.state[s] = "Runnable", !.on[s] = 0] ELSE r.k
    BY <1>6 DEF poll
  <2> HIDE DEF r
  <2>3. is_occupied(r.k, s)
    BY <1>6, <2>1 DEF is_occupied, LiveStates
  <2>4. Sound([r.k EXCEPT !.state[s] = "Runnable", !.on[s] = 0])
    BY ZenonT(60), <1>1, <1>2, <2>1, <2>3, WakeSound
  <2> QED
    BY ZenonT(60), <2>1, <2>2, <2>4
<1>7. CASE k.state[s] \notin {"Read", "Wait", "Message"}
  BY <1>7 DEF poll
<1> QED
  BY ZenonT(60), <1>3, <1>4, <1>5, <1>6, <1>7

----------------------------------------------------------------------------
\* The inductive invariant: the chain's, and a generation is never 0.
KInv == Linked(Kernel) /\ nextGen # 0

\* The kernel's own tables are sound.
LEMMA KernelSound ==
  ASSUME TypeOK, KInv
  PROVE  Sound(Kernel)
<1>1. Kernel \in Tables
  BY ZenonT(60) DEF TypeOK, Kernel, Tables
<1> QED
  BY ZenonT(60), <1>1 DEF Sound, KInv

\* A step that leaves sound tables keeps the invariant.
LEMMA BecomeSound ==
  ASSUME TypeOK, KInv, NEW k, Sound(k), Become(k), at' \in 0 .. NotTicking,
         nextGen' = nextGen \/ nextGen' = nextGen + 1
  PROVE  TypeOK' /\ KInv'
<1>1. k \in Tables /\ Linked(k)
  BY DEF Sound
<1>2. nextGen \in Nat /\ nextGen # 0
  BY DEF TypeOK, KInv
<1>3. nextGen' \in Nat /\ nextGen' # 0
  BY <1>2
<1>4. TypeOK'
  BY ZenonT(60), <1>1, <1>3 DEF Become, Tables, TypeOK
<1>5. Kernel' = k
  BY <1>1 DEF Become, Kernel, Tables
<1>6. Linked(Kernel')
  BY ZenonT(60), <1>1, <1>5
<1>7. Linked(Kernel)'
  BY ZenonT(60), <1>6 DEF Linked, Below, live_occupant, is_occupied, Acyclic, Rooted, Closed
<1> QED
  BY <1>3, <1>4, <1>7 DEF KInv

\* At boot the shell owns the keyboard and there are no links.
LEMMA KeyboardInit == Init => TypeOK /\ KInv
<1> SUFFICES ASSUME Init PROVE TypeOK /\ KInv
  OBVIOUS
<1>1. TypeOK
  BY SlotFacts, SlotsAssumption, BoundsAssumption
     DEF Init, TypeOK, LiveStates, FIRST, NotTicking, Bytes
<1>2. /\ Kernel.owner = FIRST /\ Kernel.state = state /\ Kernel.gen = gen
      /\ Kernel.prev = prev /\ Kernel.doomed = doomed
  BY ZenonT(60) DEF Init, Kernel
<1>3. Kernel \in Tables
  BY ZenonT(60), <1>1 DEF TypeOK, Kernel, Tables
<1>4. \A s \in Slots : is_occupied(Kernel, s) => gen[s] # 0
  BY <1>2 DEF Init, is_occupied, LiveStates
<1>5. \A s \in Slots : Below(Kernel, s) = {}
  BY <1>2, <1>3, <1>4, LinkFacts DEF Init
<1>6. is_occupied(Kernel, FIRST)
  BY <1>2, SlotFacts DEF Init, is_occupied, LiveStates
<1>7. Acyclic(Kernel)
  BY <1>5 DEF Acyclic
<1>8. Rooted(Kernel, Kernel.owner)
  BY ZenonT(60), <1>2 DEF Rooted
<1>9. Linked(Kernel)
  BY <1>2, <1>4, <1>5, <1>6, <1>7, <1>8, SlotFacts DEF Linked, Init, Keyed
<1> QED
  BY <1>1, <1>9 DEF KInv, Init

\* A spawned task is not linked to: its slot was empty.
LEMMA SpawnSound ==
  ASSUME NEW k, Sound(k), NEW t \in Spawnable, k.state[t] = "Unused", NEW g \in Nat, g # 0
  PROVE  Sound([k EXCEPT !.state[t] = "Runnable", !.gen[t] = g, !.prev[t] = NoTask])
<1> DEFINE n == [k EXCEPT !.state[t] = "Runnable", !.gen[t] = g, !.prev[t] = NoTask]
<1>1. k \in Tables /\ Linked(k) /\ t \in Slots /\ t # FIRST
  BY SlotFacts DEF Sound
<1>2. /\ n \in Tables /\ n.owner = k.owner /\ n.doomed = k.doomed
      /\ n.state = [k.state EXCEPT ![t] = "Runnable"]
      /\ n.gen = [k.gen EXCEPT ![t] = g]
      /\ n.prev = [k.prev EXCEPT ![t] = NoTask]
  BY ZenonT(60), <1>1, SlotFacts DEF Tables, LiveStates
<1> HIDE DEF n
<1>3. ~is_occupied(k, t)
  BY DEF is_occupied, LiveStates
<1>4. \A s \in Slots : is_occupied(n, s) <=> (is_occupied(k, s) \/ s = t)
  BY ZenonT(60), <1>1, <1>2 DEF is_occupied, LiveStates, Tables
<1>5. \A s \in Slots : is_occupied(n, s) => n.gen[s] # 0
  BY <1>1, <1>2, <1>4 DEF Linked, Tables
<1>6. Below(n, t) = {}
  <2>1. n.prev[t] = NoTask
    BY <1>1, <1>2 DEF Tables
  <2> QED
    BY ZenonT(60), <1>1, <1>2, <1>5, <2>1, LinkFacts
<1>7. \A s \in Slots : s # t => Below(n, s) = Below(k, s)
  <2> SUFFICES ASSUME NEW s \in Slots, s # t PROVE Below(n, s) = Below(k, s)
    OBVIOUS
  <2>1. n.prev[s] = k.prev[s]
    BY <1>1, <1>2 DEF Tables
  <2>2. CASE k.prev[s] = NoTask
    <3>1. Below(k, s) = {}
      BY <1>1, <2>2, LinkFacts DEF Linked
    <3>2. Below(n, s) = {}
      BY ZenonT(60), <1>2, <1>5, <2>1, <2>2, LinkFacts
    <3> QED
      BY ZenonT(60), <3>1, <3>2
  <2>3. CASE k.prev[s] # NoTask
    <3>1. PICK u \in Below(k, s) : TRUE
      BY ZenonT(60), <1>1, <2>3 DEF Linked
    <3>2. u \in Slots /\ is_occupied(k, u) /\ k.prev[s] = <<u, k.gen[u]>>
      BY <1>1, <3>1, LinkFacts
    <3>3. u # t
      BY <1>3, <3>2
    <3>4. n.gen[u] = k.gen[u] /\ is_occupied(n, u)
      BY ZenonT(60), <1>1, <1>2, <1>4, <3>2, <3>3 DEF Tables
    <3>5. u \in Below(n, s)
      <4>1. n.prev[s] = <<u, n.gen[u]>>
        BY <2>1, <3>2, <3>4
      <4> QED
        BY <3>2, <3>4, <4>1 DEF Below, live_occupant
    <3>6. Below(n, s) = {u}
      BY ZenonT(60), <1>2, <3>5, BelowIs
    <3>7. Below(k, s) = {u}
      BY ZenonT(60), <1>1, <3>1, BelowIs
    <3> QED
      BY ZenonT(60), <3>6, <3>7
  <2> QED
    BY <2>2, <2>3
<1>8. Acyclic(n)
  <2> SUFFICES ASSUME NEW S \in (SUBSET Slots) \ {{}},
                      ~ \E s \in S : Below(n, s) \cap S = {}
               PROVE  FALSE
    BY ZenonT(60) DEF Acyclic
  <2>1. t \notin S
    BY <1>6
  <2> QED
    BY <1>1, <1>7, <2>1 DEF Linked, Acyclic
<1>9. Rooted(n, n.owner)
  <2> SUFFICES ASSUME NEW S \in SUBSET Slots, n.owner \in S, Closed(n, S)
               PROVE  FIRST \in S
    BY ZenonT(60) DEF Rooted
  <2>1. n.owner # t
    BY ZenonT(60), <1>1, <1>2, <1>3 DEF Linked
  <2>2. Closed(k, S \ {t})
    <3> SUFFICES ASSUME NEW s \in S \ {t}, NEW u \in Below(k, s)
                 PROVE  u \in S \ {t}
      BY DEF Closed
    <3>1. u \in S
      BY ZenonT(60), <1>7 DEF Closed
    <3>2. is_occupied(k, u)
      BY ZenonT(60), <1>1, LinkFacts
    <3> QED
      BY <1>3, <3>1, <3>2
  <2>3. FIRST \in S \ {t}
    BY ZenonT(60), <1>1, <1>2, <2>1, <2>2 DEF Linked, Rooted
  <2> QED
    BY <2>3
<1>10. \A s \in Slots : Below(n, s) \subseteq Keyed
  BY ZenonT(60), <1>1, <1>6, <1>7 DEF Linked
<1>11. \A s \in Slots : n.prev[s] # NoTask => Below(n, s) # {}
  BY <1>1, <1>2, <1>7 DEF Linked, Tables
<1>12. n.owner \in Keyed /\ is_occupied(n, n.owner) /\ is_occupied(n, FIRST)
  BY ZenonT(60), <1>1, <1>2, <1>4, SlotFacts DEF Linked
<1>13. n.prev[FIRST] = NoTask
  BY <1>1, <1>2, SlotFacts DEF Linked, Tables
<1>14. Linked(n)
  BY ZenonT(60), <1>1, <1>2, <1>5, <1>8, <1>9, <1>10, <1>11, <1>12, <1>13 DEF Linked
<1> QED
  BY ZenonT(60), <1>2, <1>14 DEF Sound, n

\* Where the tick's loop may be.
LEMMA BlockedFacts ==
  ASSUME NEW k, NEW i \in Nat
  PROVE  NextBlocked(k, i) \in 0 .. NotTicking
<1> DEFINE B == {s \in Slots : i <= s /\ k.state[s] \in {"Read", "Wait", "Message"}}
<1>1. CASE B = {}
  BY <1>1, SlotsAssumption DEF NextBlocked, NotTicking
<1>2. CASE B # {}
  <2>1. B \in SUBSET Nat
    BY ZenonT(60), SlotFacts
  <2>2. FirstOf(B) \in B
    BY ZenonT(60), <1>2, <2>1, FirstExists
  <2>3. NextBlocked(k, i) = FirstOf(B)
    BY ZenonT(60), <1>2 DEF NextBlocked, FirstOf
  <2> QED
    BY <2>2, <2>3, SlotsAssumption DEF Slots, NotTicking
<1> QED
  BY <1>1, <1>2

\* Each handler, and each step of the tick, keeps the invariant.
LEMMA KeyboardStep ==
  ASSUME TypeOK, KInv, [Next]_vars
  PROVE  TypeOK' /\ KInv'
<1>1. /\ Sound(Kernel) /\ nextGen \in Nat /\ nextGen # 0 /\ at \in 0 .. NotTicking
      /\ Kernel.state = state /\ Kernel.owner = owner /\ Kernel.doomed = doomed
      /\ Kernel.gen = gen
  BY ZenonT(60), KernelSound DEF TypeOK, KInv, Kernel
<1>2. \A s \in Slots : state[s] \in LiveStates <=> is_occupied(Kernel, s)
  BY <1>1 DEF is_occupied
<1>3. "Runnable" \in LiveStates /\ "Read" \in LiveStates /\ "Wait" \in LiveStates
      /\ "Message" \in LiveStates
  BY DEF LiveStates
<1>4. ASSUME NEW s \in Slots, NEW t \in Slots, NEW command \in Commands, FG(s, t, command)
      PROVE  TypeOK' /\ KInv'
  <2>1. t \in Keyed /\ is_occupied(Kernel, t) /\ command \in BOOLEAN
    BY <1>4, BoundsAssumption DEF FG, Keyed
  <2>2. Sound(set_input_owner(Kernel, t, command))
    BY <1>1, <2>1, SetOwnerSound
  <2> QED
    BY <1>1, <1>4, <2>2, BecomeSound DEF FG
<1>5. ASSUME NEW s \in Slots, READ_CHAR(s) PROVE TypeOK' /\ KInv'
  <2> DEFINE r == poll_keyboard_byte(Kernel, s)
  <2>1. Sound(r.k) /\ r.k.state = state
    BY <1>1, PollKeySound, ReadKeepsStates DEF Sound
  <2>2. is_occupied(r.k, s)
    BY <1>3, <1>5, <2>1 DEF READ_CHAR, Caller, is_occupied
  <2>3. Sound([r.k EXCEPT !.state[s] = "Read"])
    BY ZenonT(60), <1>3, <2>1, <2>2, WakeSound
  <2>4. Sound(IF r.got THEN r.k ELSE [r.k EXCEPT !.state[s] = "Read"])
    BY ZenonT(60), <2>1, <2>3
  <2> QED
    BY ZenonT(60), <1>1, <1>5, <2>4, BecomeSound DEF READ_CHAR
<1>6. ASSUME NEW s \in Slots, TRY_READ_CHAR(s) PROVE TypeOK' /\ KInv'
  <2>1. Sound(poll_keyboard_byte(Kernel, s).k)
    BY <1>1, PollKeySound
  <2> QED
    BY ZenonT(60), <1>1, <1>6, <2>1, BecomeSound DEF TRY_READ_CHAR
<1>7. ASSUME NEW s \in Slots, Receive(s) PROVE TypeOK' /\ KInv'
  <2>1. is_occupied(Kernel, s)
    BY <1>2, <1>3, <1>7 DEF Receive, Caller
  <2>2. Sound([Kernel EXCEPT !.state[s] = "Message"])
    BY ZenonT(60), <1>1, <1>3, <2>1, WakeSound
  <2> QED
    BY <1>1, <1>7, <2>2, BecomeSound DEF Receive
<1>8. ASSUME NEW s \in Slots, Deliver(s) PROVE TypeOK' /\ KInv'
  <2>1. is_occupied(Kernel, s)
    BY <1>2, <1>3, <1>8 DEF Deliver
  <2>2. Sound([Kernel EXCEPT !.state[s] = "Runnable"])
    BY ZenonT(60), <1>1, <1>3, <2>1, WakeSound
  <2> QED
    BY <1>1, <1>8, <2>2, BecomeSound DEF Deliver
<1>9. ASSUME NEW s \in Slots, NEW mode \in Modes, NEW flush \in BOOLEAN,
             KBD_MODE(s, mode, flush)
      PROVE  TypeOK' /\ KInv'
  <2> DEFINE f == Flushed(read_keyboard_ahead(Kernel, s).k)
             k == IF flush /\ Reads(Kernel, s) THEN f ELSE Kernel
             n == [k EXCEPT !.raw[s] = mode]
  <2>1. Sound(read_keyboard_ahead(Kernel, s).k)
    BY <1>1, ReadAheadSound
  <2>2. Sound(f)
    <3>1. read_keyboard_ahead(Kernel, s).k.line \in Seq(Bytes) /\ 0 \in 0 .. QUEUE_LEN
      BY <2>1, BoundsAssumption DEF Sound, Tables
    <3> QED
      BY ZenonT(60), <2>1, <3>1, LineSound DEF Flushed
  <2>3. Sound(k)
    BY <1>1, <2>2
  <2>4. Become(n)
    BY <1>9 DEF KBD_MODE
  <2> HIDE DEF k
  <2>5. mode \in BOOLEAN
    BY BoundsAssumption
  <2>6. /\ n \in Tables /\ n.owner = k.owner /\ n.prev = k.prev /\ n.gen = k.gen
        /\ n.doomed = k.doomed /\ n.state = k.state
    BY ZenonT(60), <2>3, <2>5 DEF Sound, Tables
  <2> HIDE DEF n
  <2>7. Sound(n)
    BY <2>3, <2>6, StateSound DEF is_occupied
  <2> QED
    BY ZenonT(60), <1>1, <1>9, <2>4, <2>7, BecomeSound DEF KBD_MODE
<1>10. ASSUME NEW s \in Slots, NEW t \in Slots, WAIT(s, t) PROVE TypeOK' /\ KInv'
  <2>1. CASE state[t] = "Zombie" /\ Become([Kernel EXCEPT !.state[t] = "Unused"])
    <3> DEFINE n == [Kernel EXCEPT !.state[t] = "Unused"]
    <3>1. /\ n \in Tables /\ n.owner = Kernel.owner /\ n.prev = Kernel.prev
          /\ n.gen = Kernel.gen /\ n.doomed = Kernel.doomed
          /\ n.state = [state EXCEPT ![t] = "Unused"]
      BY ZenonT(60), <1>1 DEF Sound, Tables
    <3>2. \A u \in Slots : is_occupied(n, u) <=> is_occupied(Kernel, u)
      <4>1. Kernel.state = state /\ state \in [Slots -> LiveStates \union {"Unused", "Zombie"}]
        BY ZenonT(60), <1>1 DEF Sound, Tables
      <4>2. "Zombie" \notin LiveStates /\ "Unused" \notin LiveStates
        BY ZenonT(60) DEF LiveStates
      <4> HIDE DEF n
      <4> QED
        BY ZenonT(60), <2>1, <3>1, <4>1, <4>2 DEF is_occupied
    <3> HIDE DEF n
    <3>3. Sound(n)
      BY <1>1, <3>1, <3>2, StateSound
    <3> QED
      BY <1>1, <1>10, <2>1, <3>3, BecomeSound DEF WAIT, n
  <2>2. CASE Become([Kernel EXCEPT !.state[s] = "Wait", !.on[s] = t])
    <3>1. is_occupied(Kernel, s)
      BY <1>2, <1>3, <1>10 DEF WAIT, Caller
    <3>2. Sound([Kernel EXCEPT !.state[s] = "Wait", !.on[s] = t])
      BY ZenonT(60), <1>1, <1>3, <3>1, WakeSound
    <3> QED
      BY <1>1, <1>10, <2>2, <3>2, BecomeSound DEF WAIT
  <2> QED
    BY <1>10, <2>1, <2>2 DEF WAIT
<1>11. ASSUME NEW t \in Slots, Spawn(t) PROVE TypeOK' /\ KInv'
  <2>1. Sound([Kernel EXCEPT !.state[t] = "Runnable", !.gen[t] = nextGen,
                             !.prev[t] = NoTask])
    BY ZenonT(60), <1>1, <1>11, SpawnSound DEF Spawn
  <2> QED
    BY <1>1, <1>11, <2>1, BecomeSound DEF Spawn
<1>12. ASSUME NEW t \in Slots, EXIT(t) PROVE TypeOK' /\ KInv'
  <2>1. is_occupied(Kernel, t) /\ t \in Spawnable
    BY ZenonT(60), <1>2, <1>3, <1>12 DEF EXIT, Caller
  <2>2. Sound(end_task(Kernel, t, "Zombie"))
    BY ZenonT(60), <1>1, <2>1, EndSound
  <2> QED
    BY ZenonT(60), <1>1, <1>12, <2>2, BecomeSound DEF EXIT
<1>13. ASSUME NEW t \in Slots, Fault(t) PROVE TypeOK' /\ KInv'
  <2>1. is_occupied(Kernel, t) /\ t \in Spawnable
    BY ZenonT(60), <1>2, <1>3, <1>13 DEF Fault, Caller
  <2>2. Sound(end_task(Kernel, t, "Unused"))
    BY ZenonT(60), <1>1, <2>1, EndSound
  <2> QED
    BY ZenonT(60), <1>1, <1>13, <2>2, BecomeSound DEF Fault
<1>14. ASSUME NEW t \in Slots, end_if_doomed(t) PROVE TypeOK' /\ KInv'
  <2>1. is_occupied(Kernel, t)
    BY ZenonT(60), <1>2, <1>3, <1>14 DEF end_if_doomed
  <2>2. gen[t] # 0
    BY ZenonT(60), <1>1, <2>1 DEF Sound, Linked
  <2>3. t \in Spawnable
    <3>1. Kernel.doomed[t] # NoTask
      <4>1. Kernel.doomed[t] = <<t, gen[t]>>
        BY ZenonT(60), <1>14 DEF end_if_doomed, Kernel
      <4>2. <<t, gen[t]>>[2] # NoTask[2]
        BY <2>2 DEF NoTask
      <4> QED
        BY ZenonT(60), <4>1, <4>2
    <3> QED
      BY ZenonT(60), <1>1, <3>1 DEF Sound, Linked
  <2>4. Sound(end_task(Kernel, t, "Unused"))
    BY ZenonT(60), <1>1, <2>1, <2>3, EndSound
  <2> QED
    BY ZenonT(60), <1>1, <1>14, <2>4, BecomeSound DEF end_if_doomed
<1>15. ASSUME NEW s \in Slots, NEW t \in Slots, NEW elsewhere \in BOOLEAN,
              KILL(s, t, elsewhere)
       PROVE  TypeOK' /\ KInv'
  <2>1. Sound(kill_task(Kernel, t, elsewhere))
    BY ZenonT(60), <1>1, <1>15, KillSound DEF KILL
  <2> QED
    BY ZenonT(60), <1>1, <1>15, <2>1, BecomeSound DEF KILL
<1>16. ASSUME NEW byte \in Typed, Type(byte) PROVE TypeOK' /\ KInv'
  <2> DEFINE n == [Kernel EXCEPT !.line = Append(line, byte)]
  <2>1. Append(line, byte) \in Seq(Bytes)
    BY BoundsAssumption DEF TypeOK, Bytes, KEY_INTERRUPT, KEY_QUIT
  <2>2. queue \in 0 .. QUEUE_LEN
    BY DEF TypeOK
  <2>3. Sound(n)
    BY ZenonT(60), <1>1, <2>1, <2>2, LineSound
  <2>4. Become(n)
    BY <1>16 DEF Type, Become, Kernel
  <2> HIDE DEF n
  <2> QED
    BY ZenonT(60), <1>1, <1>16, <2>3, <2>4, BecomeSound DEF Type
<1>17. ASSUME WakeCheck PROVE TypeOK' /\ KInv'
  <2>1. PICK s \in Slots :
          Become(poll(Kernel, s)) /\ at' = NextBlocked(poll(Kernel, s), s + 1)
          /\ nextGen' = nextGen
    BY <1>17 DEF WakeCheck
  <2>2. Sound(poll(Kernel, s))
    BY <1>1, PollSound
  <2>3. at' \in 0 .. NotTicking
    <3>1. s + 1 \in Nat
      BY SlotFacts
    <3> QED
      BY <2>1, <3>1, BlockedFacts
  <2> QED
    BY <2>1, <2>2, <2>3, BecomeSound
<1>18. ASSUME TickEnds PROVE TypeOK' /\ KInv'
  <2> DEFINE k == IF owner = FIRST THEN Kernel ELSE read_keyboard_ahead(Kernel, owner).k
             n == [k EXCEPT !.pending = NoTask]
  <2>1. owner \in Slots
    BY DEF TypeOK
  <2>2. Sound(k)
    BY <1>1, <2>1, ReadAheadSound
  <2>3. \/ Become(n)
        \/ \E v \in Victims(k), elsewhere \in BOOLEAN : Become(kill_task(n, v, elsewhere))
    BY <1>18 DEF TickEnds
  <2> HIDE DEF k
  <2>4. /\ n \in Tables /\ n.owner = k.owner /\ n.prev = k.prev /\ n.gen = k.gen
        /\ n.doomed = k.doomed /\ n.state = k.state
    BY ZenonT(60), <2>2, SlotFacts DEF Sound, Tables
  <2>5. Sound(n)
    BY ZenonT(60), <2>2, <2>4, StateSound DEF is_occupied
  <2>6. \A v \in Victims(k) : v \in Spawnable /\ is_occupied(n, v)
    BY <2>4 DEF Victims, live_occupant, is_occupied
  <2> HIDE DEF n
  <2>7. \A v \in Victims(k), elsewhere \in BOOLEAN : Sound(kill_task(n, v, elsewhere))
    BY <2>5, <2>6, KillSound
  <2>8. at' \in 0 .. NotTicking /\ nextGen' = nextGen
    BY <1>18, SlotsAssumption DEF TickEnds, NotTicking
  <2>9. CASE Become(n)
    BY ZenonT(60), <2>5, <2>8, <2>9, BecomeSound
  <2>10. CASE \E v \in Victims(k), elsewhere \in BOOLEAN : Become(kill_task(n, v, elsewhere))
    <3>1. PICK v \in Victims(k), elsewhere \in BOOLEAN : Become(kill_task(n, v, elsewhere))
      BY <2>10
    <3>2. Sound(kill_task(n, v, elsewhere))
      BY ZenonT(60), <2>7
    <3> QED
      BY ZenonT(60), <2>8, <3>1, <3>2, BecomeSound
  <2> QED
    BY <2>3, <2>9, <2>10
<1>19. CASE UNCHANGED vars
  <2>1. Become(Kernel) /\ at' = at /\ nextGen' = nextGen
    BY ZenonT(60), <1>19 DEF vars, Become, Kernel
  <2> QED
    BY <1>1, <2>1, BecomeSound
<1> QED
  BY ZenonT(60), <1>4, <1>5, <1>6, <1>7, <1>8, <1>9, <1>10, <1>11, <1>12, <1>13, <1>14, <1>15,
     <1>16, <1>17, <1>18, <1>19 DEF Next, Tick

\* The invariant says what the properties say.
LEMMA KeyboardImplied == TypeOK /\ KInv => KeyboardInv
<1> SUFFICES ASSUME TypeOK, KInv PROVE KeyboardInv
  BY ZenonT(60)
<1>1. Linked(Kernel) /\ Kernel.owner = owner /\ Kernel.prev = prev
  BY ZenonT(60) DEF KInv, Kernel
<1>2. OwnerIsLive
  BY ZenonT(60), <1>1 DEF OwnerIsLive, Linked, Keyed
<1>3. NoCycle
  BY ZenonT(60), <1>1 DEF NoCycle, Linked, Acyclic
<1>4. ChainRooted
  BY ZenonT(60), <1>1, SlotFacts DEF ChainRooted, Chain, Linked, Rooted
<1>5. LinksAreLive
  BY ZenonT(60), <1>1 DEF LinksAreLive, Linked
<1> QED
  BY <1>2, <1>3, <1>4, <1>5 DEF KeyboardInv

\* The tables keep their types and the chain its shape, for any number of slots
\* and any queue length: no fg, detach, death or tick step breaks it.
THEOREM KeyboardSafety == Spec => [](TypeOK /\ KeyboardInv)
<1>1. Init => TypeOK /\ KInv
  BY KeyboardInit
<1>2. TypeOK /\ KInv /\ [Next]_vars => TypeOK' /\ KInv'
  BY KeyboardStep
<1>3. TypeOK /\ KInv => TypeOK /\ KeyboardInv
  BY KeyboardImplied
<1> QED
  BY <1>1, <1>2, <1>3, PTL DEF Spec

\* The keyboard always belongs to a live program or to the boot shell.
THEOREM OwnerLives == Spec => []OwnerIsLive
<1>1. TypeOK /\ KeyboardInv => OwnerIsLive
  BY DEF KeyboardInv
<1> QED
  BY <1>1, KeyboardSafety, PTL

\* PREVIOUS_OWNERS never holds a cycle: each walk of set_input_owner ends.
THEOREM WalkEnds == Spec => []NoCycle
<1>1. TypeOK /\ KeyboardInv => NoCycle
  BY DEF KeyboardInv
<1> QED
  BY <1>1, KeyboardSafety, PTL

\* The links from the owner always lead back to the boot shell.
THEOREM WayHome == Spec => []ChainRooted
<1>1. TypeOK /\ KeyboardInv => ChainRooted
  BY DEF KeyboardInv
<1> QED
  BY <1>1, KeyboardSafety, PTL

\* No link outlives the task it names: the splice of a death is complete.
THEOREM LinksLive == Spec => []LinksAreLive
<1>1. TypeOK /\ KeyboardInv => LinksAreLive
  BY DEF KeyboardInv
<1> QED
  BY <1>1, KeyboardSafety, PTL

\* Which tasks the handlers make runnable, or leave as they are.
LEMMA StatesAfterHandover ==
  ASSUME NEW k \in Tables, NEW t \in Slots, NEW command \in BOOLEAN
  PROVE  set_input_owner(k, t, command).state = k.state
BY DEF set_input_owner, Tables

\* Ending a task changes that task's state only.
LEMMA StatesAfterEnd ==
  ASSUME NEW k \in Tables, NEW t \in Slots, NEW final
  PROVE  end_task(k, t, final).state = [k.state EXCEPT ![t] = final]
BY ZenonT(60) DEF end_task, revert_input_owner_if, Tables

\* Killing a task dooms it, or frees its slot.
LEMMA StatesAfterKill ==
  ASSUME NEW k \in Tables, NEW t \in Slots, NEW elsewhere \in BOOLEAN
  PROVE  \/ kill_task(k, t, elsewhere).state = k.state
         \/ kill_task(k, t, elsewhere).state = [k.state EXCEPT ![t] = "Unused"]
<1>1. CASE elsewhere
  BY ZenonT(60), <1>1 DEF kill_task, Tables
<1>2. CASE ~elsewhere
  <2>1. kill_task(k, t, elsewhere) = end_task(k, t, "Unused")
    BY ZenonT(60), <1>2 DEF kill_task
  <2> QED
    BY <2>1, StatesAfterEnd
<1> QED
  BY <1>1, <1>2

\* The wake-check of slot x does not wake a marked reader s.
LEMMA PollPassesMarked ==
  ASSUME NEW k \in Tables, NEW s \in Slots, NEW x \in Slots,
         k.state[s] = "Read", kill_pending_for(k, s)
  PROVE  poll(k, x).state[s] # "Runnable"
<1>0. k.state \in [Slots -> LiveStates \cup {"Unused", "Zombie"}] /\ k.on[x] \in Slots
  BY ZenonT(60) DEF Tables
<1>1. CASE x = s
  <2>1. ~Reads(k, s)
    BY DEF Reads
  <2>2. poll_keyboard_byte(k, s) = [got |-> FALSE, k |-> k]
    BY <2>1 DEF poll_keyboard_byte
  <2>3. poll(k, s) = k
    BY <2>2 DEF poll
  <2> QED
    BY ZenonT(60), <1>1, <2>3
<1>2. CASE x # s /\ k.state[x] = "Read"
  <2> DEFINE r == poll_keyboard_byte(k, x)
  <2>1. r.k.state = k.state
    BY ReadKeepsStates
  <2>2. poll(k, x) = IF r.got THEN [r.k EXCEPT !.state[x] = "Runnable"] ELSE r.k
    BY <1>2 DEF poll
  <2> HIDE DEF r
  <2>3. poll(k, x).state[s] = k.state[s]
    BY <1>0, <1>2, <2>1, <2>2
  <2> QED
    BY ZenonT(60), <2>3
<1>3. CASE x # s /\ k.state[x] = "Wait" /\ k.state[k.on[x]] \in {"Zombie", "Unused"}
  <2>1. k.on[x] # s
    BY <1>3
  <2>2. \/ poll(k, x) = [k EXCEPT !.state[k.on[x]] = "Unused", !.state[x] = "Runnable", !.on[x] = 0]
        \/ poll(k, x) = [k EXCEPT !.state[x] = "Runnable", !.on[x] = 0]
    BY ZenonT(60), <1>3 DEF poll
  <2>t. k.state \in [Slots -> LiveStates \cup {"Unused", "Zombie"}] /\ DOMAIN k.state = Slots
    BY <1>0
  <2>f. \/ poll(k, x).state = [[k.state EXCEPT ![k.on[x]] = "Unused"] EXCEPT ![x] = "Runnable"]
        \/ poll(k, x).state = [k.state EXCEPT ![x] = "Runnable"]
    BY ZenonT(60), <2>2 DEF Tables
  <2>3. poll(k, x).state[s] = k.state[s]
    BY ZenonT(60), <1>3, <2>1, <2>f, <2>t
  <2> QED
    BY <2>3
<1>4. CASE /\ x # s /\ k.state[x] \in {"Wait", "Message"}
           /\ ~(k.state[x] = "Wait" /\ k.state[k.on[x]] \in {"Zombie", "Unused"})
  <2> DEFINE r == read_keyboard_ahead(k, x)
  <2>1. r.k.state = k.state
    BY ReadKeepsStates
  <2>2. poll(k, x) = IF r.interrupted THEN [r.k EXCEPT !.state[x] = "Runnable", !.on[x] = 0] ELSE r.k
    BY <1>4 DEF poll
  <2> HIDE DEF r
  <2>3. poll(k, x).state[s] = k.state[s]
    BY <1>0, <1>4, <2>1, <2>2
  <2> QED
    BY <2>3
<1>5. CASE x # s /\ k.state[x] \notin {"Read", "Wait", "Message"}
  <2>1. poll(k, x) = k
    BY <1>5 DEF poll
  <2> QED
    BY <2>1
<1> QED
  BY ZenonT(60), <1>1, <1>2, <1>3, <1>4, <1>5

\* A task marked for a kill never returns from the read it is blocked in
\* (kill_pending_for in keyboard_key_waiting), whoever types, ticks or kills.
THEOREM MarkedTasksReadNothing == Spec => MarkedReadsNothing
<1> DEFINE Silent == \A s \in Slots : (state[s] = "Read" /\ kill_pending_for(Kernel, s))
                                        => state'[s] # "Runnable"
<1>1. ASSUME TypeOK, KInv, Next, NEW s \in Slots, state[s] = "Read", kill_pending_for(Kernel, s)
      PROVE  state'[s] # "Runnable"
  <2>0. /\ Kernel \in Tables /\ Kernel.state = state
        /\ state \in [Slots -> LiveStates \cup {"Unused", "Zombie"}]
    BY ZenonT(60), <1>1 DEF TypeOK, Kernel, Tables
  <2>b. \A k : Become(k) => state' = k.state
    BY ZenonT(60) DEF Become
  <2>c. \A x \in Slots : Caller(x) => x # s
    BY <1>1 DEF Caller
  <2>1. ASSUME NEW x \in Slots, NEW t \in Slots, NEW command \in Commands, FG(x, t, command)
        PROVE  state' = state
    <3>1. command \in BOOLEAN
      BY BoundsAssumption
    <3>2. Become(set_input_owner(Kernel, t, command))
      BY ZenonT(60), <2>1 DEF FG
    <3>3. set_input_owner(Kernel, t, command).state = Kernel.state
      BY <2>0, <3>1, StatesAfterHandover
    <3> QED
      BY ZenonT(60), <2>0, <2>b, <3>2, <3>3
  <2>2. ASSUME NEW x \in Slots, READ_CHAR(x) PROVE state'[s] # "Runnable"
    <3> DEFINE r == poll_keyboard_byte(Kernel, x)
    <3>0. r.k.state = Kernel.state
      BY <2>0, ReadKeepsStates
    <3>a. x # s
      BY <2>2, <2>c DEF READ_CHAR
    <3>1. r.k.state = state /\ x # s
      BY <2>0, <3>0, <3>a
    <3> DEFINE u == IF r.got THEN r.k ELSE [r.k EXCEPT !.state[x] = "Read"]
    <3>b. Become(u)
      BY <2>2 DEF READ_CHAR
    <3>c. r.k \in Tables
      BY <1>1, KernelSound, PollKeySound DEF Sound
    <3> HIDE DEF r, u
    <3>2. state' = u.state
      BY ZenonT(60), <2>b, <3>b
    <3> QED
      BY ZenonT(60), <1>1, <2>0, <3>1, <3>2, <3>c DEF Tables, u
  <2>3. ASSUME NEW x \in Slots, TRY_READ_CHAR(x) PROVE state' = state
    <3>1. Become(poll_keyboard_byte(Kernel, x).k)
      BY ZenonT(60), <2>3 DEF TRY_READ_CHAR
    <3>2. poll_keyboard_byte(Kernel, x).k.state = Kernel.state
      BY <2>0, ReadKeepsStates
    <3> QED
      BY ZenonT(60), <2>0, <2>b, <3>1, <3>2
  <2>4. ASSUME NEW x \in Slots, Receive(x) PROVE state' = [state EXCEPT ![x] = "Message"]
    <3>1. Become([Kernel EXCEPT !.state[x] = "Message"])
      BY <2>4 DEF Receive
    <3>2. state' = [Kernel EXCEPT !.state[x] = "Message"].state
      BY ZenonT(60), <2>b, <3>1
    <3> QED
      BY <3>2 DEF Kernel
  <2>5. ASSUME NEW x \in Slots, Deliver(x)
        PROVE  state' = [state EXCEPT ![x] = "Runnable"] /\ x # s
    <3>1. Become([Kernel EXCEPT !.state[x] = "Runnable"]) /\ state[x] = "Message"
      BY <2>5 DEF Deliver
    <3>2. state' = [Kernel EXCEPT !.state[x] = "Runnable"].state
      BY ZenonT(60), <2>b, <3>1
    <3>3. state' = [state EXCEPT ![x] = "Runnable"]
      BY <3>2 DEF Kernel
    <3> QED
      BY <1>1, <3>1, <3>3
  <2>6. ASSUME NEW x \in Slots, NEW mode \in Modes, NEW flush \in BOOLEAN, KBD_MODE(x, mode, flush)
        PROVE  state' = state
    <3> DEFINE k == IF flush /\ Reads(Kernel, x) THEN Flushed(read_keyboard_ahead(Kernel, x).k)
                    ELSE Kernel
    <3>1. read_keyboard_ahead(Kernel, x).k.state = state
      BY <2>0, ReadKeepsStates
    <3>2. k.state = state
      BY <2>0, <3>1 DEF Flushed
    <3>3. state' = [k EXCEPT !.raw[x] = mode].state
      BY ZenonT(60), <2>6, <2>b DEF KBD_MODE
    <3> HIDE DEF k
    <3> QED
      BY <3>2, <3>3
  <2>7. ASSUME NEW x \in Slots, NEW t \in Slots, WAIT(x, t)
        PROVE  \/ state' = [state EXCEPT ![t] = "Unused"]
               \/ state' = [state EXCEPT ![x] = "Wait"]
    <3>1. \/ Become([Kernel EXCEPT !.state[t] = "Unused"])
          \/ Become([Kernel EXCEPT !.state[x] = "Wait", !.on[x] = t])
      BY <2>7 DEF WAIT
    <3>2. \/ state' = [Kernel EXCEPT !.state[t] = "Unused"].state
          \/ state' = [Kernel EXCEPT !.state[x] = "Wait", !.on[x] = t].state
      BY ZenonT(60), <2>b, <3>1
    <3> QED
      BY <3>2 DEF Kernel
  <2>8. ASSUME NEW t \in Slots, Spawn(t)
        PROVE  state' = [state EXCEPT ![t] = "Runnable"] /\ t # s
    <3> DEFINE k == [Kernel EXCEPT !.state[t] = "Runnable", !.gen[t] = nextGen,
                                   !.prev[t] = NoTask]
    <3>1. Become(k) /\ state[t] = "Unused"
      BY <2>8 DEF Spawn
    <3>2. k.state = [state EXCEPT ![t] = "Runnable"]
      BY DEF Kernel
    <3> HIDE DEF k
    <3>3. state' = [state EXCEPT ![t] = "Runnable"]
      BY <2>b, <3>1, <3>2
    <3> QED
      BY <1>1, <3>1, <3>3
  <2>9. ASSUME NEW t \in Slots, EXIT(t) PROVE state' = [state EXCEPT ![t] = "Zombie"]
    <3>1. Become(end_task(Kernel, t, "Zombie"))
      BY <2>9 DEF EXIT
    <3>2. end_task(Kernel, t, "Zombie").state = [Kernel.state EXCEPT ![t] = "Zombie"]
      BY ZenonT(60), <2>0, StatesAfterEnd
    <3> QED
      BY ZenonT(60), <2>0, <2>b, <3>1, <3>2
  <2>10. ASSUME NEW t \in Slots, Fault(t) \/ end_if_doomed(t)
         PROVE  state' = [state EXCEPT ![t] = "Unused"]
    <3>1. Become(end_task(Kernel, t, "Unused"))
      BY ZenonT(60), <2>10 DEF Fault, end_if_doomed
    <3>2. end_task(Kernel, t, "Unused").state = [Kernel.state EXCEPT ![t] = "Unused"]
      BY ZenonT(60), <2>0, StatesAfterEnd
    <3> QED
      BY ZenonT(60), <2>0, <2>b, <3>1, <3>2
  <2>11. ASSUME NEW x \in Slots, NEW t \in Slots, NEW elsewhere \in BOOLEAN, KILL(x, t, elsewhere)
         PROVE  state' = state \/ state' = [state EXCEPT ![t] = "Unused"]
    <3>1. Become(kill_task(Kernel, t, elsewhere))
      BY <2>11 DEF KILL
    <3>2. \/ kill_task(Kernel, t, elsewhere).state = Kernel.state
          \/ kill_task(Kernel, t, elsewhere).state = [Kernel.state EXCEPT ![t] = "Unused"]
      BY ZenonT(60), <2>0, StatesAfterKill
    <3> QED
      BY ZenonT(60), <2>0, <2>b, <3>1, <3>2
  <2>12. ASSUME NEW byte \in Typed, Type(byte) PROVE state' = state
    BY <2>12 DEF Type
  <2>13. ASSUME WakeCheck PROVE state'[s] # "Runnable"
    <3>1. PICK x \in Slots : Become(poll(Kernel, x))
      BY ZenonT(60), <2>13 DEF WakeCheck
    <3>2. poll(Kernel, x).state[s] # "Runnable"
      BY <1>1, <2>0, PollPassesMarked
    <3> QED
      BY ZenonT(60), <2>b, <3>1, <3>2
  <2>14. ASSUME TickEnds PROVE state' = state \/ \E v \in Slots : state' = [state EXCEPT ![v] = "Unused"]
    <3>1. owner \in Slots
      BY ZenonT(60), <1>1 DEF TypeOK
    <3> DEFINE k == IF owner = FIRST THEN Kernel ELSE read_keyboard_ahead(Kernel, owner).k
    <3>2. k \in Tables /\ k.state = state
      BY ZenonT(60), <1>1, <2>0, <3>1, KernelSound, ReadKeepsStates, ReadAheadSound DEF Sound
    <3>3. \/ Become([k EXCEPT !.pending = NoTask])
          \/ \E v \in Slots, elsewhere \in BOOLEAN :
               Become(kill_task([k EXCEPT !.pending = NoTask], v, elsewhere))
      BY <2>14 DEF TickEnds, Victims, live_occupant
    <3> HIDE DEF k
    <3> DEFINE n == [k EXCEPT !.pending = NoTask]
    <3>4. n \in Tables /\ n.state = state
      BY ZenonT(60), <3>2, SlotFacts DEF Tables
    <3> HIDE DEF n
    <3>5. CASE Become(n)
      BY ZenonT(60), <2>b, <3>4, <3>5
    <3>6. CASE \E v \in Slots, elsewhere \in BOOLEAN : Become(kill_task(n, v, elsewhere))
      <4>1. PICK v \in Slots, elsewhere \in BOOLEAN : Become(kill_task(n, v, elsewhere))
        BY ZenonT(60), <3>6
      <4>2. \/ kill_task(n, v, elsewhere).state = n.state
            \/ kill_task(n, v, elsewhere).state = [n.state EXCEPT ![v] = "Unused"]
        BY <3>4, StatesAfterKill
      <4> QED
        BY ZenonT(60), <2>b, <3>4, <4>1, <4>2
    <3> QED
      BY <3>3, <3>5, <3>6 DEF n
  <2>s. state' = state => state'[s] # "Runnable"
    BY <1>1
  <2>e. \A x \in Slots : \A st : state' = [state EXCEPT ![x] = st] /\ (x # s \/ st # "Runnable")
                               => state'[s] # "Runnable"
    BY <1>1, <2>0
  <2> QED
    <3>1. CASE \E x, t \in Slots, command \in Commands : FG(x, t, command)
      BY ZenonT(60), <2>1, <2>s, <3>1
    <3>2. CASE \E x \in Slots : READ_CHAR(x) \/ TRY_READ_CHAR(x) \/ Receive(x) \/ Deliver(x)
      BY ZenonT(60), <2>2, <2>3, <2>4, <2>5, <2>s, <2>e, <3>2
    <3>3. CASE \E x \in Slots, mode \in Modes, flush \in BOOLEAN : KBD_MODE(x, mode, flush)
      BY <2>6, <2>s, <3>3
    <3>4. CASE \E x, t \in Slots : WAIT(x, t)
      BY <2>7, <2>e, <3>4
    <3>5. CASE \E t \in Slots : Spawn(t) \/ EXIT(t) \/ Fault(t) \/ end_if_doomed(t)
      BY <2>8, <2>9, <2>10, <2>e, <3>5
    <3>6. CASE \E x, t \in Slots, elsewhere \in BOOLEAN : KILL(x, t, elsewhere)
      BY <2>11, <2>s, <2>e, <3>6
    <3>7. CASE \E byte \in Typed : Type(byte)
      BY <2>12, <2>s, <3>7
    <3>8. CASE Tick
      BY <2>13, <2>14, <2>s, <2>e, <3>8 DEF Tick
    <3> QED
      BY ZenonT(60), <1>1, <3>1, <3>2, <3>3, <3>4, <3>5, <3>6, <3>7, <3>8 DEF Next
<1>2. TypeOK /\ KInv /\ [Next]_vars => [Silent]_vars
  BY <1>1
<1>3. Init => TypeOK /\ KInv
  BY KeyboardInit
<1>4. TypeOK /\ KInv /\ [Next]_vars => TypeOK' /\ KInv'
  BY KeyboardStep
<1> QED
  BY <1>2, <1>3, <1>4, PTL DEF Spec, MarkedReadsNothing
============================================================================
