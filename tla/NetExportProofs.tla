--------------------------- MODULE NetExportProofs ---------------------------
(***************************************************************************)
(* The handles of exported sessions, for any number of connections, users  *)
(* and fids.  All handles form one table H beside the file server's, and   *)
(* every action is one of a few changes to the pair: handles are given     *)
(* back, one is opened, a local program opens or closes, the file server   *)
(* is replaced.  Agree is what each of these changes keeps.                *)
(***************************************************************************)
EXTENDS NetExport, TLAPS, FiniteSetTheorems, WellFoundedInduction, NaturalsInduction

\* Every leaf is given a minute; nearly all take a second or two.
USE SMTT(60), ZenonT(60)

SlotNumbers == 1..SESSION_FIDS
Places == Conns \X SlotNumbers
Somebody == Users \union {Nobody}
HandleRecs == [fsd_fid : FsdFids \union {0}, opener : Somebody, fsd_gen : Nat, open : Nat]
FidRecs == [owner : {"none", "netd", "local"}, uid : Somebody, open : Nat]
Tables == [gen : Nat, fids : [FsdFids -> FidRecs]]
OpenConns ==
  [open : {TRUE}, session : BOOLEAN, carried : BOOLEAN,
   keyed : [on : BOOLEAN, user : Somebody], child : Somebody,
   fids : [SlotNumbers -> HandleRecs]]

\* The handles of all connections in one table.
FidsOf(conn) == IF conn.open THEN conn.fids ELSE [s \in SlotNumbers |-> NONE]
Held(cs) == [p \in Places |-> FidsOf(cs[p[1]])[p[2]]]

Current(H, f) == {p \in Places : H[p].fsd_fid # 0 /\ H[p].fsd_gen = f.gen}
Unnamed(H, f) ==
  {n \in FsdFids : f.fids[n].owner = "netd" /\ \A p \in Current(H, f) : H[p].fsd_fid # n}

\* A table of handles beside a file server: each handle of this file server is
\* the open it was given for, no two share one, none is from a file server yet
\* to come, and netd's fids have a handle, but for one after a restart in the
\* middle of an open.
Agree(H, f, l) ==
  /\ \A p \in Places : H[p].fsd_gen <= f.gen
  /\ \A p \in Current(H, f) :
       f.fids[H[p].fsd_fid] = [owner |-> "netd", uid |-> H[p].opener, open |-> H[p].open]
  /\ \A p, q \in Current(H, f) : H[p].fsd_fid = H[q].fsd_fid => p = q
  /\ \/ l = 0 /\ Unnamed(H, f) = {}
     \/ l = 1 /\ \E n : Unnamed(H, f) \subseteq {n}

ExportInv ==
  /\ conns \in [Conns -> {NoConn} \union OpenConns]
  /\ fsd \in Tables
  /\ opened \in Nat
  /\ strayed = FALSE
  /\ Agree(Held(conns), fsd, lost)
  /\ sessions <= SESSION_MAX

\* What the constants are: a table of connections, and fids numbered from 1.
ExportConstants ==
  /\ IsFiniteSet(Conns)
  /\ SESSION_MAX \in Nat /\ SESSION_FIDS \in Nat
  /\ FsdFids \subseteq Nat \ {0}

HandleTables == [Places -> HandleRecs]

\* The three ways the handles H beside the file server f become H2 beside f2:
\* the handles at the places D are given back and the current fids among them
\* freed; p gets a handle on the free fid n; a local program has n changed.
Releases(H, f, D, H2, f2) ==
  /\ \A p \in Places : H2[p] = IF p \in D THEN NONE ELSE H[p]
  /\ f2.gen = f.gen
  /\ \A n \in FsdFids :
       f2.fids[n] = IF \E p \in D \cap Current(H, f) : H[p].fsd_fid = n
                    THEN FsdFree ELSE f.fids[n]
Opens(H, f, p, n, user, o, H2, f2) ==
  /\ H[p].fsd_fid = 0 /\ f.fids[n].owner = "none" /\ n # 0
  /\ \A q \in Places :
       H2[q] = IF q = p THEN [fsd_fid |-> n, opener |-> user, fsd_gen |-> f.gen, open |-> o]
               ELSE H[q]
  /\ f2.gen = f.gen
  /\ \A k \in FsdFids :
       f2.fids[k] = IF k = n THEN [owner |-> "netd", uid |-> user, open |-> o] ELSE f.fids[k]
ChangesLocally(f, n, rec, f2) ==
  /\ f.fids[n].owner # "netd" /\ rec.owner # "netd"
  /\ f2.gen = f.gen
  /\ \A k \in FsdFids : f2.fids[k] = IF k = n THEN rec ELSE f.fids[k]

-----------------------------------------------------------------------------
\* The order of generations.
LEMMA GenOrder ==
  /\ \A a \in Nat : a <= a /\ a + 1 \in Nat
  /\ \A a, b, d \in Nat : a <= b /\ d > b => a < d
  /\ \A a, b \in Nat : a <= b => a < b + 1
OBVIOUS

\* A non-empty set of numbers has a least.
LEMMA LeastNumber ==
  ASSUME NEW S \in SUBSET Nat, S # {}
  PROVE  Min(S) \in S
<1>1. IsWellFoundedOn(OpToRel(<, Nat), Nat)
  BY ZenonT(60), NatLessThanWellFounded
<1>2. \E x \in S : \A y \in S : ~ (<<y, x>> \in OpToRel(<, Nat))
  BY <1>1, WFMin, ZenonT(60)
<1>3. PICK x \in S : \A y \in S : ~ (y < x)
  BY ZenonT(60), <1>2 DEF OpToRel
<1>4. \A y \in S : x <= y
  BY <1>3
<1> QED
  BY ZenonT(60), <1>4 DEF Min

\* The fid the file server hands out is a free one.
LEMMA LeastFid ==
  ASSUME ExportConstants, NEW f, FsdFreeFids(f) # {}
  PROVE  Min(FsdFreeFids(f)) \in FsdFreeFids(f)
<1>1. FsdFreeFids(f) \subseteq Nat
  BY ZenonT(60) DEF FsdFreeFids, ExportConstants
<1> QED
  BY <1>1, LeastNumber

\* A handle of this file server names one of its fids.
LEMMA CurrentFids ==
  ASSUME NEW H \in HandleTables, NEW f \in Tables, NEW p \in Current(H, f)
  PROVE  p \in Places /\ H[p].fsd_fid \in FsdFids
<1>1. p \in Places /\ H[p].fsd_fid # 0
  BY DEF Current
<1>2. H[p] \in HandleRecs
  BY <1>1 DEF HandleTables
<1> QED
  BY <1>1, <1>2 DEF HandleRecs

\* A new file server that knows no fids agrees with any handles of earlier ones.
LEMMA FreshAgrees ==
  ASSUME NEW H, NEW f,
         \A p \in Places : H[p].fsd_gen \in Nat /\ H[p].fsd_gen < f.gen,
         f.gen \in Nat,
         \A n \in FsdFids : f.fids[n] = FsdFree
  PROVE  Agree(H, f, 0)
<1>1. Current(H, f) = {}
  BY DEF Current
<1>2. Unnamed(H, f) = {}
  BY DEF Unnamed, FsdFree
<1>3. \A p \in Places : H[p].fsd_gen <= f.gen
  OBVIOUS
<1> QED
  BY <1>1, <1>2, <1>3 DEF Agree

\* An open that fell across the restart: its handle counts as an earlier one's.
LEMMA LateOpenAgrees ==
  ASSUME NEW H, NEW f, NEW n,
         \A p \in Places : H[p].fsd_gen \in Nat /\ H[p].fsd_gen < f.gen,
         f.gen \in Nat,
         \A k \in FsdFids : k # n => f.fids[k] = FsdFree
  PROVE  Agree(H, f, 1)
<1>1. Current(H, f) = {}
  BY DEF Current
<1>2. Unnamed(H, f) \subseteq {n}
  BY DEF Unnamed, FsdFree
<1>3. \A p \in Places : H[p].fsd_gen <= f.gen
  OBVIOUS
<1> QED
  BY <1>1, <1>2, <1>3 DEF Agree

\* Handles are given back: D are their places, and of their fids the current
\* ones are freed.
LEMMA ReleaseAgrees ==
  ASSUME NEW H \in HandleTables, NEW f \in Tables, NEW l, Agree(H, f, l),
         NEW D \in SUBSET Places, NEW H2, NEW f2, Releases(H, f, D, H2, f2)
  PROVE  Agree(H2, f2, l)
<1> USE DEF Releases
<1>1. Current(H2, f2) = Current(H, f) \ D
  BY DEF Current, NONE
<1>2. ASSUME NEW p \in Current(H2, f2)
      PROVE  /\ f2.fids[H2[p].fsd_fid] = f.fids[H[p].fsd_fid]
             /\ H2[p] = H[p] /\ p \in Current(H, f)
  <2>1. p \in Current(H, f) /\ p \notin D /\ p \in Places /\ H[p].fsd_fid \in FsdFids
    BY <1>1, CurrentFids
  <2>2. ~ \E q \in D \cap Current(H, f) : H[q].fsd_fid = H[p].fsd_fid
    BY <2>1 DEF Agree
  <2> QED
    BY <2>1, <2>2
<1>3. \A p \in Places : H2[p].fsd_gen <= f2.gen
  <2>1. f.gen \in Nat
    BY DEF Tables
  <2> QED
    BY <2>1 DEF NONE, Agree
<1>4. \A p \in Current(H2, f2) :
        f2.fids[H2[p].fsd_fid] = [owner |-> "netd", uid |-> H2[p].opener, open |-> H2[p].open]
  BY <1>2 DEF Agree
<1>5. \A p, q \in Current(H2, f2) : H2[p].fsd_fid = H2[q].fsd_fid => p = q
  BY <1>2 DEF Agree
<1>6. Unnamed(H2, f2) \subseteq Unnamed(H, f)
  <2> SUFFICES ASSUME NEW n \in FsdFids, f2.fids[n].owner = "netd",
                      \A p \in Current(H2, f2) : H2[p].fsd_fid # n
               PROVE  f.fids[n].owner = "netd" /\ \A p \in Current(H, f) : H[p].fsd_fid # n
    BY DEF Unnamed
  <2>1. ~ \E p \in D \cap Current(H, f) : H[p].fsd_fid = n
    BY DEF FsdFree
  <2>2. f2.fids[n] = f.fids[n]
    BY <2>1
  <2>3. ASSUME NEW p \in Current(H, f) PROVE H[p].fsd_fid # n
    <3>1. CASE p \in D
      BY <2>1, <3>1
    <3>2. CASE p \notin D
      BY ZenonT(60), <1>1, <1>2, <3>2
    <3> QED
      BY <3>1, <3>2
  <2> QED
    BY <2>2, <2>3
<1>7. \/ l = 0 /\ Unnamed(H2, f2) = {}
      \/ l = 1 /\ \E n : Unnamed(H2, f2) \subseteq {n}
  BY ZenonT(60), <1>6 DEF Agree
<1> QED
  BY <1>3, <1>4, <1>5, <1>7 DEF Agree

\* A handle is opened.
LEMMA OpenAgrees ==
  ASSUME NEW H \in HandleTables, NEW f \in Tables, NEW l, Agree(H, f, l),
         NEW p \in Places, NEW n \in FsdFids, NEW user, NEW o, NEW H2, NEW f2,
         Opens(H, f, p, n, user, o, H2, f2)
  PROVE  Agree(H2, f2, l)
<1> USE DEF Opens
<1>0. f.gen \in Nat
  BY DEF Tables
<1>1. Current(H2, f2) = Current(H, f) \union {p} /\ p \notin Current(H, f)
  BY DEF Current
<1>2. ASSUME NEW q \in Current(H, f)
      PROVE  /\ H2[q] = H[q] /\ q \in Places /\ q # p
             /\ H[q].fsd_fid \in FsdFids /\ H[q].fsd_fid # n
             /\ f2.fids[H[q].fsd_fid] = f.fids[H[q].fsd_fid]
  <2>1. q \in Places /\ H[q].fsd_fid \in FsdFids /\ q # p
    BY <1>1, CurrentFids
  <2>2. f.fids[H[q].fsd_fid] = [owner |-> "netd", uid |-> H[q].opener, open |-> H[q].open]
    BY DEF Agree
  <2>3. f.fids[H[q].fsd_fid].owner = "netd"
    BY <2>2
  <2> QED
    BY <2>1, <2>3
<1>3. H2[p].fsd_fid = n /\ H2[p].opener = user /\ H2[p].open = o /\ H2[p].fsd_gen = f.gen
  OBVIOUS
<1>4. \A q \in Places : H2[q].fsd_gen <= f2.gen
  <2>1. \A q \in Places : H[q].fsd_gen <= f.gen
    BY DEF Agree
  <2> QED
    BY <1>0, <1>3, <2>1
<1>5. ASSUME NEW q \in Current(H2, f2)
      PROVE  f2.fids[H2[q].fsd_fid] =
               [owner |-> "netd", uid |-> H2[q].opener, open |-> H2[q].open]
  <2>1. CASE q = p
    BY ZenonT(60), <1>3, <2>1
  <2>2. CASE q \in Current(H, f)
    BY <1>2, <2>2 DEF Agree
  <2> QED
    BY <1>1, <2>1, <2>2
<1>6. ASSUME NEW q \in Current(H2, f2), NEW r \in Current(H2, f2), H2[q].fsd_fid = H2[r].fsd_fid
      PROVE  q = r
  <2>1. CASE q = p /\ r = p
    BY <2>1
  <2>2. CASE q \in Current(H, f) /\ r \in Current(H, f)
    BY <1>2, <1>6, <2>2 DEF Agree
  <2>3. CASE q = p /\ r \in Current(H, f)
    BY ZenonT(60), <1>2, <1>3, <1>6, <2>3
  <2>4. CASE q \in Current(H, f) /\ r = p
    BY <1>2, <1>3, <1>6, <2>4
  <2> QED
    BY ZenonT(60), <1>1, <2>1, <2>2, <2>3, <2>4
<1>7. Unnamed(H2, f2) \subseteq Unnamed(H, f)
  <2> SUFFICES ASSUME NEW k \in FsdFids, f2.fids[k].owner = "netd",
                      \A q \in Current(H2, f2) : H2[q].fsd_fid # k
               PROVE  f.fids[k].owner = "netd" /\ \A q \in Current(H, f) : H[q].fsd_fid # k
    BY ZenonT(60) DEF Unnamed
  <2>1. k # n
    BY ZenonT(60), <1>1, <1>3
  <2> QED
    BY ZenonT(60), <1>1, <1>2, <2>1
<1>8. \/ l = 0 /\ Unnamed(H2, f2) = {}
      \/ l = 1 /\ \E k : Unnamed(H2, f2) \subseteq {k}
  BY <1>7 DEF Agree
<1> QED
  BY ZenonT(60), <1>4, <1>5, <1>6, <1>8 DEF Agree

\* A local program takes or gives back a fid that is not netd's.
LEMMA LocalAgrees ==
  ASSUME NEW H \in HandleTables, NEW f \in Tables, NEW l, Agree(H, f, l),
         NEW n, NEW rec, NEW f2, ChangesLocally(f, n, rec, f2)
  PROVE  Agree(H, f2, l)
<1> USE DEF ChangesLocally
<1>1. Current(H, f2) = Current(H, f)
  BY DEF Current
<1>2. ASSUME NEW p \in Current(H, f)
      PROVE  f2.fids[H[p].fsd_fid] = f.fids[H[p].fsd_fid]
  <2>1. f.fids[H[p].fsd_fid] = [owner |-> "netd", uid |-> H[p].opener, open |-> H[p].open]
    BY DEF Agree
  <2>2. f.fids[H[p].fsd_fid].owner = "netd"
    BY <2>1
  <2>3. H[p].fsd_fid \in FsdFids
    BY CurrentFids
  <2> QED
    BY <2>2, <2>3
<1>3. Unnamed(H, f2) = Unnamed(H, f)
  BY <1>1 DEF Unnamed
<1>4. \A p \in Places : H[p].fsd_gen <= f2.gen
  BY DEF Agree
<1>5. \A p \in Current(H, f2) :
        f2.fids[H[p].fsd_fid] = [owner |-> "netd", uid |-> H[p].opener, open |-> H[p].open]
  BY ZenonT(60), <1>1, <1>2 DEF Agree
<1> QED
  BY ZenonT(60), <1>1, <1>3, <1>4, <1>5 DEF Agree

-----------------------------------------------------------------------------
\* The table of handles, where one connection is replaced.
LEMMA HeldShape ==
  ASSUME conns \in [Conns -> {NoConn} \union OpenConns]
  PROVE  /\ ExportConstants => Held(conns) \in HandleTables
         /\ \A c \in Conns, s \in SlotNumbers :
              Held(conns)[<<c, s>>] = IF conns[c].open THEN conns[c].fids[s] ELSE NONE
<1>1. NONE \in HandleRecs
  BY DEF NONE, HandleRecs, Somebody
<1>2. ASSUME NEW c \in Conns, conns[c].open
      PROVE  conns[c].fids \in [SlotNumbers -> HandleRecs]
  <2>1. conns[c] # NoConn
    BY <1>2 DEF NoConn
  <2>2. conns[c] \in OpenConns
    BY <2>1
  <2> QED
    BY <2>2 DEF OpenConns
<1>3. \A c \in Conns, s \in SlotNumbers :
        Held(conns)[<<c, s>>] = IF conns[c].open THEN conns[c].fids[s] ELSE NONE
  BY DEF Held, FidsOf, Places
<1>4. \A c \in Conns, s \in SlotNumbers : Held(conns)[<<c, s>>] \in HandleRecs
  BY ZenonT(60), <1>1, <1>2, <1>3
<1>5. \A p \in Places : \E c \in Conns, s \in SlotNumbers : p = <<c, s>>
  BY DEF Places
<1>6. \A p \in Places : Held(conns)[p] \in HandleRecs
  BY <1>4, <1>5
<1>7. Held(conns) \in HandleTables
  BY <1>6 DEF Held, HandleTables
<1> QED
  BY <1>3, <1>7

\* What a step does to one connection c: its record becomes r.
LEMMA HeldAfter ==
  ASSUME conns \in [Conns -> {NoConn} \union OpenConns], NEW c \in Conns,
         NEW r \in {NoConn} \union OpenConns, conns' = [conns EXCEPT ![c] = r]
  PROVE  /\ conns' \in [Conns -> {NoConn} \union OpenConns]
         /\ \A p \in Places : Held(conns')[p] =
              IF p[1] = c THEN FidsOf(r)[p[2]] ELSE Held(conns)[p]
<1>1. conns' \in [Conns -> {NoConn} \union OpenConns]
  OBVIOUS
<1>2. \A d \in Conns : conns'[d] = IF d = c THEN r ELSE conns[d]
  OBVIOUS
<1>3. \A p \in Places : p[1] \in Conns
  BY DEF Places
<1>4. \A p \in Places : Held(conns')[p] = FidsOf(conns'[p[1]])[p[2]]
  BY DEF Held
<1>5. \A p \in Places : Held(conns)[p] = FidsOf(conns[p[1]])[p[2]]
  BY DEF Held
<1> QED
  BY ZenonT(60), <1>1, <1>2, <1>3, <1>4, <1>5

\* A connection whose handles stay, or that opens without any, leaves the table.
LEMMA HeldSame ==
  ASSUME conns \in [Conns -> {NoConn} \union OpenConns], NEW c \in Conns,
         NEW r \in {NoConn} \union OpenConns, conns' = [conns EXCEPT ![c] = r],
         FidsOf(r) = FidsOf(conns[c])
  PROVE  Held(conns') = Held(conns)
<1>1. \A p \in Places : Held(conns')[p] = Held(conns)[p]
  <2>1. \A p \in Places : Held(conns)[p] = FidsOf(conns[p[1]])[p[2]]
    BY DEF Held
  <2>2. \A p \in Places : Held(conns')[p] =
          IF p[1] = c THEN FidsOf(r)[p[2]] ELSE Held(conns)[p]
    BY ZenonT(60), HeldAfter
  <2> SUFFICES ASSUME NEW p \in Places PROVE Held(conns')[p] = Held(conns)[p]
    BY ZenonT(60)
  <2>3. CASE p[1] = c
    BY ZenonT(60), <2>1, <2>2, <2>3
  <2>4. CASE p[1] # c
    BY ZenonT(60), <2>2, <2>4
  <2> QED
    BY ZenonT(60), <2>3, <2>4
<1> QED
  BY <1>1 DEF Held

\* How many sessions there are: none more when a connection that was none stays none.
LEMMA SessionsStay ==
  ASSUME IsFiniteSet(Conns), SESSION_MAX \in Nat, sessions <= SESSION_MAX,
         conns \in [Conns -> {NoConn} \union OpenConns], NEW c \in Conns,
         NEW r, conns' = [conns EXCEPT ![c] = r],
         \/ ~r.open
         \/ ~r.session
         \/ conns[c].open /\ conns[c].session
         \/ sessions < SESSION_MAX
  PROVE  sessions' <= SESSION_MAX
<1> DEFINE S == {d \in Live : conns[d].session}
           T == {d \in Live' : conns'[d].session}
<1>1. S \subseteq Conns /\ T \subseteq Conns
  BY DEF Live
<1>2. IsFiniteSet(S) /\ IsFiniteSet(T)
  BY <1>1, FS_Subset
<1>3. \A d \in Conns : conns'[d] = IF d = c THEN r ELSE conns[d]
  OBVIOUS
<1>4. sessions = Cardinality(S) /\ sessions' = Cardinality(T)
  BY DEF sessions
<1>5. T \subseteq S \union {c} /\ (c \in T => r.open /\ r.session)
  BY <1>3 DEF Live
<1>6. conns[c].open /\ conns[c].session => c \in S
  BY DEF Live
<1> HIDE DEF S, T
<1>7. Cardinality(S) \in Nat /\ Cardinality(T) \in Nat
  BY <1>2, FS_CardinalityType
<1>8. CASE T \subseteq S
  <2>1. Cardinality(T) <= Cardinality(S)
    BY ZenonT(60), <1>2, <1>8, FS_Subset
  <2> QED
    BY <1>4, <1>7, <2>1
<1>9. CASE ~(T \subseteq S)
  <2>1. c \in T /\ c \notin S
    BY <1>5, <1>9
  <2>2. sessions < SESSION_MAX
    BY <1>5, <1>6, <2>1
  <2>3. IsFiniteSet(S \union {c}) /\ Cardinality(S \union {c}) = Cardinality(S) + 1
    BY ZenonT(60), <1>2, <2>1, FS_AddElement
  <2>4. Cardinality(T) <= Cardinality(S \union {c})
    BY ZenonT(60), <1>5, <2>3, FS_Subset
  <2> QED
    BY <1>4, <1>7, <2>2, <2>3, <2>4
<1> QED
  BY <1>8, <1>9

\* The file server a moment later: the same, or one with no fids and a higher number.
LEMMA LaterFsd ==
  ASSUME NEW f \in Tables, NEW g \in Meanwhile(f)
  PROVE  /\ g \in Tables
         /\ \/ g = f
            \/ g.gen = f.gen + 1 /\ g # f /\ \A n \in FsdFids : g.fids[n] = FsdFree
<1>1. FsdFree \in FidRecs
  BY DEF FsdFree, FidRecs, Somebody
<1>2. f.gen \in Nat
  BY DEF Tables
<1>3. CASE g = f
  BY <1>3
<1>4. CASE g = Restarted(f)
  <2>1. g = [gen |-> f.gen + 1, fids |-> [n \in FsdFids |-> FsdFree]]
    BY <1>4 DEF Restarted
  <2>2. g.gen = f.gen + 1 /\ g.fids = [n \in FsdFids |-> FsdFree]
    BY <2>1
  <2>3. g \in Tables
    BY <1>1, <1>2, <2>1 DEF Tables
  <2>4. g # f
    BY <1>2, <2>2
  <2> QED
    BY <2>2, <2>3, <2>4
<1> QED
  BY <1>3, <1>4 DEF Meanwhile

-----------------------------------------------------------------------------
\* A step that moves no handle and no fid.
LEMMA QuietKeeps ==
  ASSUME ExportConstants, ExportInv, NEW c \in Conns,
         NEW r \in {NoConn} \union OpenConns, conns' = [conns EXCEPT ![c] = r],
         FidsOf(r) = FidsOf(conns[c]),
         \/ ~r.open
         \/ ~r.session
         \/ conns[c].open /\ conns[c].session
         \/ sessions < SESSION_MAX,
         UNCHANGED <<fsd, opened, strayed, lost>>
  PROVE  ExportInv'
<1>1. conns \in [Conns -> {NoConn} \union OpenConns]
  BY DEF ExportInv
<1>2. Held(conns') = Held(conns)
  BY ZenonT(60), <1>1, HeldSame
<1>3. conns' \in [Conns -> {NoConn} \union OpenConns]
  BY <1>1
<1>4. sessions' <= SESSION_MAX
  BY ZenonT(60), <1>1, SessionsStay DEF ExportInv, ExportConstants
<1>5. Agree(Held(conns'), fsd', lost')
  BY <1>2 DEF ExportInv
<1> QED
  BY <1>3, <1>4, <1>5 DEF ExportInv

\* A step in which the file server may have been replaced and no handle was made.
LEMMA ReplacedKeeps ==
  ASSUME ExportConstants, ExportInv, NEW c \in Conns,
         NEW r \in {NoConn} \union OpenConns, conns' = [conns EXCEPT ![c] = r],
         FidsOf(r) = FidsOf(conns[c]),
         r.open /\ r.session => conns[c].open /\ conns[c].session,
         NEW g \in Tables, fsd' = g,
         \/ g = fsd /\ lost' = lost
         \/ /\ g.gen > fsd.gen /\ lost' = 0
            /\ \A n \in FsdFids : g.fids[n] = FsdFree,
         UNCHANGED <<opened, strayed>>
  PROVE  ExportInv'
<1>1. conns \in [Conns -> {NoConn} \union OpenConns] /\ fsd \in Tables
  BY DEF ExportInv
<1>2. Held(conns') = Held(conns)
  BY ZenonT(60), <1>1, HeldSame
<1>3. conns' \in [Conns -> {NoConn} \union OpenConns]
  BY <1>1
<1>4. sessions' <= SESSION_MAX
  BY ZenonT(60), <1>1, SessionsStay DEF ExportInv, ExportConstants
<1>5. Agree(Held(conns'), fsd', lost')
  <2>1. CASE g = fsd /\ lost' = lost
    BY <1>2, <2>1 DEF ExportInv
  <2>2. CASE g.gen > fsd.gen /\ lost' = 0 /\ \A n \in FsdFids : g.fids[n] = FsdFree
    <3>1. Held(conns) \in HandleTables
      BY ZenonT(60), <1>1, HeldShape
    <3>2. g.gen \in Nat /\ fsd.gen \in Nat
      BY <1>1 DEF Tables
    <3>3. \A p \in Places : Held(conns)[p] \in HandleRecs
      BY <3>1 DEF HandleTables
    <3>4. \A p \in Places : Held(conns)[p].fsd_gen \in Nat
      BY ZenonT(60), <3>3 DEF HandleRecs
    <3>5. \A p \in Places : Held(conns)[p].fsd_gen <= fsd.gen
      BY ZenonT(60) DEF ExportInv, Agree
    <3>6. \A p \in Places : Held(conns)[p].fsd_gen < g.gen
      BY <2>2, <3>2, <3>4, <3>5
    <3>7. Agree(Held(conns), g, 0)
      BY ZenonT(60), <2>2, <3>2, <3>4, <3>6, FreshAgrees
    <3> QED
      BY ZenonT(60), <1>2, <2>2, <3>7
  <2> QED
    BY <2>1, <2>2
<1> QED
  BY <1>3, <1>4, <1>5 DEF ExportInv

\* A connection ends.
LEMMA DropKeeps ==
  ASSUME ExportConstants, ExportInv, NEW c \in Conns, conns[c].open, drop_conn(c)
  PROVE  ExportInv'
<1> DEFINE H == Held(conns)
           D == {p \in Places : p[1] = c}
<1>0. /\ conns \in [Conns -> {NoConn} \union OpenConns] /\ fsd \in Tables
      /\ opened \in Nat /\ strayed = FALSE
  BY DEF ExportInv
<1>1. /\ fsd' = [fsd EXCEPT !.fids = [n \in FsdFids |->
                   IF n \in Released(c, fsd) THEN FsdFree ELSE fsd.fids[n]]]
      /\ conns' = [conns EXCEPT ![c] = NoConn]
      /\ opened' = opened /\ lost' = lost
      /\ strayed' = (strayed \/ Strays(c, fsd))
  BY DEF drop_conn
<1>2. H \in HandleTables /\ \A s \in SlotNumbers : H[<<c, s>>] = conns[c].fids[s]
  BY <1>0, HeldShape
<1>3. Agree(H, fsd, lost)
  BY DEF ExportInv
<1>4. \A p \in D : \E s \in SlotNumbers : p = <<c, s>>
  BY DEF Places
<1>5. \A s \in SlotNumbers : <<c, s>> \in D
  BY DEF Places
<1>6. \A p \in Places : Held(conns')[p] = IF p \in D THEN NONE ELSE H[p]
  <2>1. ~NoConn.open
    BY DEF NoConn
  <2>2. \A p \in Places : Held(conns')[p] = IF p[1] = c THEN FidsOf(NoConn)[p[2]] ELSE H[p]
    BY ZenonT(60), <1>0, <1>1, HeldAfter
  <2>3. \A p \in Places : p[2] \in SlotNumbers
    BY DEF Places
  <2> QED
    BY <2>1, <2>2, <2>3 DEF FidsOf
<1>h. /\ conns' \in [Conns -> {NoConn} \union OpenConns]
  BY <1>0, <1>1
<1>7. \A s \in SlotNumbers : s \in TheirHandles(c, fsd) <=> <<c, s>> \in Current(H, fsd)
  <2> SUFFICES ASSUME NEW s \in SlotNumbers
               PROVE  s \in TheirHandles(c, fsd) <=> <<c, s>> \in Current(H, fsd)
    OBVIOUS
  <2>1. <<c, s>> \in Places
    BY DEF Places
  <2>2. H[<<c, s>>] = conns[c].fids[s]
    BY ZenonT(60), <1>2
  <2> QED
    BY ZenonT(60), <2>1, <2>2 DEF TheirHandles, Current, SlotNumbers
<1>t. TheirHandles(c, fsd) \subseteq SlotNumbers
  BY ZenonT(60) DEF TheirHandles, SlotNumbers
<1>8. ASSUME NEW s \in TheirHandles(c, fsd)
      PROVE  /\ FsdHolds(fsd, conns[c].fids[s].fsd_fid, conns[c].fids[s].opener)
             /\ fsd.fids[conns[c].fids[s].fsd_fid].open = conns[c].fids[s].open
  <2>1. s \in SlotNumbers /\ <<c, s>> \in Current(H, fsd) /\ H[<<c, s>>] = conns[c].fids[s]
    BY ZenonT(60), <1>2, <1>7, <1>t
  <2> HIDE DEF H
  <2>2. fsd.fids[conns[c].fids[s].fsd_fid] =
          [owner |-> "netd", uid |-> conns[c].fids[s].opener, open |-> conns[c].fids[s].open]
    BY <1>3, <2>1 DEF Agree
  <2> QED
    BY <2>2 DEF FsdHolds
<1>9. strayed' = FALSE
  BY ZenonT(60), <1>0, <1>1, <1>8 DEF Strays
<1>10. \A n : n \in Released(c, fsd) <=> \E p \in D \cap Current(H, fsd) : H[p].fsd_fid = n
  <2>1. ASSUME NEW n, n \in Released(c, fsd)
        PROVE  \E p \in D \cap Current(H, fsd) : H[p].fsd_fid = n
    <3>1. PICK s \in TheirHandles(c, fsd) : n = conns[c].fids[s].fsd_fid
      BY ZenonT(60), <2>1 DEF Released
    <3> QED
      BY ZenonT(60), <1>2, <1>5, <1>7, <1>t, <3>1
  <2>2. ASSUME NEW n, NEW p \in D \cap Current(H, fsd), H[p].fsd_fid = n
        PROVE  n \in Released(c, fsd)
    <3>1. PICK s \in SlotNumbers : p = <<c, s>>
      BY <1>4
    <3>2. s \in TheirHandles(c, fsd) /\ conns[c].fids[s].fsd_fid = n
      BY ZenonT(60), <1>2, <1>7, <2>2, <3>1
    <3> QED
      BY ZenonT(60), <1>8, <3>2 DEF Released
  <2> QED
    BY ZenonT(60), <2>1, <2>2
<1>11. fsd'.gen = fsd.gen /\ \A n \in FsdFids :
         fsd'.fids[n] = IF n \in Released(c, fsd) THEN FsdFree ELSE fsd.fids[n]
  BY <1>0, <1>1 DEF Tables
<1>12. Agree(Held(conns'), fsd', lost)
  <2>1. D \in SUBSET Places
    OBVIOUS
  <2> HIDE DEF D, H
  <2>2. \A n \in FsdFids :
           fsd'.fids[n] = IF \E p \in D \cap Current(H, fsd) : H[p].fsd_fid = n
                        THEN FsdFree ELSE fsd.fids[n]
    BY <1>10, <1>11
  <2>3. Releases(H, fsd, D, Held(conns'), fsd')
    BY ZenonT(60), <1>6, <1>11, <2>2 DEF Releases
  <2> QED
    BY ZenonT(60), <1>0, <1>2, <1>3, <2>1, <2>3, ReleaseAgrees
<1>13. fsd' \in Tables
  <2>1. FsdFree \in FidRecs
    BY DEF FsdFree, FidRecs, Somebody
  <2> QED
    BY <1>0, <1>1, <2>1 DEF Tables
<1>14. sessions' <= SESSION_MAX
  <2>1. ~NoConn.open
    BY DEF NoConn
  <2> QED
    BY ZenonT(60), <1>0, <1>1, <2>1, SessionsStay DEF ExportInv, ExportConstants
<1> QED
  BY ZenonT(60), <1>0, <1>1, <1>9, <1>12, <1>13, <1>14, <1>h DEF ExportInv

-----------------------------------------------------------------------------
\* The record of an open connection once a frame has come over it.
Heard(c) == [conns[c] EXCEPT !.carried = TRUE]

\* A connection that has carried something is still one, with its handles.
LEMMA HeardShape ==
  ASSUME conns \in [Conns -> {NoConn} \union OpenConns], NEW c \in Conns, conns[c].open
  PROVE  /\ conns[c] \in OpenConns
         /\ Heard(c) \in OpenConns /\ Heard(c).open
         /\ Heard(c).session = conns[c].session
         /\ Heard(c).fids = conns[c].fids
         /\ FidsOf(Heard(c)) = FidsOf(conns[c])
         /\ Carried(c) = [conns EXCEPT ![c] = Heard(c)]
<1>1. conns[c] \in OpenConns
  BY DEF NoConn
<1>2. Heard(c) \in OpenConns
  BY ZenonT(60), <1>1 DEF Heard, OpenConns
<1>3. Heard(c).open /\ Heard(c).session = conns[c].session /\ Heard(c).fids = conns[c].fids
  BY <1>1 DEF Heard, OpenConns
<1>4. FidsOf(Heard(c)) = FidsOf(conns[c])
  BY ZenonT(60), <1>3 DEF FidsOf
<1>5. Carried(c) = [conns EXCEPT ![c] = Heard(c)]
  BY DEF Carried, Heard
<1> QED
  BY ZenonT(60), <1>1, <1>2, <1>3, <1>4, <1>5

\* The steps of a connection that are about neither handles nor fids.
LEMMA ConnKeeps ==
  ASSUME ExportConstants, ExportInv, NEW c \in Conns,
         \/ Accept(c) \/ Gone(c) \/ verify_keyed_fails(c) \/ deny_9p(c)
         \/ \E user \in Users, b \in {TRUE, FALSE} :
              Session(c, user, b) \/ handle_cpu_run(c, user, b)
  PROVE  ExportInv'
<1>0. conns \in [Conns -> {NoConn} \union OpenConns]
  BY DEF ExportInv
<1> DEFINE k == Heard(c)
<1>1. CASE Accept(c)
  <2>1. NONE \in HandleRecs
    BY ZenonT(60) DEF NONE, HandleRecs, Somebody
  <2>2. new_conn \in OpenConns
    BY ZenonT(60), <2>1 DEF new_conn, OpenConns, Unkeyed, SlotNumbers, Somebody
  <2>3. new_conn.open /\ ~new_conn.session /\ new_conn.fids = [s \in SlotNumbers |-> NONE]
    BY ZenonT(60) DEF new_conn, SlotNumbers
  <2>4. FidsOf(new_conn) = FidsOf(conns[c])
    BY ZenonT(60), <1>1, <2>3 DEF FidsOf, Accept
  <2> QED
    BY ZenonT(60), <1>1, <2>2, <2>3, <2>4, QuietKeeps DEF Accept
<1>2. CASE Gone(c) \/ verify_keyed_fails(c)
  BY ZenonT(60), <1>2, DropKeeps DEF Gone, verify_keyed_fails
<1>3. CASE deny_9p(c)
  <2>1. conns[c].open /\ conns' = Carried(c) /\ UNCHANGED <<fsd, opened, strayed, lost>>
    BY ZenonT(60), <1>3 DEF deny_9p
  <2> HIDE DEF k
  <2>2. /\ k \in OpenConns /\ k.open /\ k.session = conns[c].session
        /\ FidsOf(k) = FidsOf(conns[c]) /\ conns' = [conns EXCEPT ![c] = k]
    BY ZenonT(60), <1>0, <2>1, HeardShape DEF k
  <2> QED
    BY ZenonT(60), <2>1, <2>2, QuietKeeps
<1>4. ASSUME NEW user \in Users, NEW b \in {TRUE, FALSE}, Session(c, user, b) PROVE ExportInv'
  <2>1. conns[c].open
    BY ZenonT(60), <1>4 DEF Session, Asks
  <2>2. /\ k \in OpenConns /\ k.open /\ k.session = conns[c].session
        /\ k.fids = conns[c].fids
        /\ FidsOf(k) = FidsOf(conns[c]) /\ Carried(c) = [conns EXCEPT ![c] = k]
    BY ZenonT(60), <1>0, <2>1, HeardShape
  <2> HIDE DEF k
  <2>3. CASE drop_conn(c)
    BY ZenonT(60), <2>1, <2>3, DropKeeps
  <2>4. CASE HasBudget(c) /\ key_session(c, user)
    <3> DEFINE r == [k EXCEPT !.session = TRUE, !.keyed = [on |-> TRUE, user |-> user]]
    <3>1. conns' = [Carried(c) EXCEPT ![c].session = TRUE,
                                      ![c].keyed = [on |-> TRUE, user |-> user]]
      BY <2>4 DEF key_session
    <3>2. conns' = [conns EXCEPT ![c] = r]
      BY ZenonT(60), <1>0, <2>2, <3>1
    <3>3. r \in OpenConns
      BY ZenonT(60), <2>2 DEF OpenConns, Somebody
    <3>4. r.open /\ r.fids = k.fids
      BY <2>2 DEF OpenConns
    <3> HIDE DEF r
    <3>5. FidsOf(r) = FidsOf(conns[c])
      BY ZenonT(60), <2>1, <2>2, <3>4 DEF FidsOf
    <3> QED
      BY ZenonT(60), <2>4, <3>2, <3>3, <3>5, QuietKeeps DEF key_session, HasBudget
  <2>5. CASE open_session(c)
    <3>1. CASE conns[c].session \/ HasBudget(c)
      <4> DEFINE r == [k EXCEPT !.session = TRUE]
      <4>1. conns' = [Carried(c) EXCEPT ![c].session = TRUE]
        BY <2>5, <3>1 DEF open_session
      <4>2. conns' = [conns EXCEPT ![c] = r]
        BY ZenonT(60), <1>0, <2>2, <4>1
      <4>3. r \in OpenConns
        BY ZenonT(60), <2>2 DEF OpenConns
      <4>4. r.open /\ r.fids = k.fids
        BY ZenonT(60), <2>2 DEF OpenConns
      <4> HIDE DEF r
      <4>5. FidsOf(r) = FidsOf(conns[c])
        BY ZenonT(60), <2>1, <2>2, <4>4 DEF FidsOf
      <4> QED
        BY ZenonT(60), <2>1, <2>5, <3>1, <4>2, <4>3, <4>5, QuietKeeps DEF open_session, HasBudget
    <3>2. CASE ~(conns[c].session \/ HasBudget(c))
      <4>1. conns' = [conns EXCEPT ![c] = k] /\ UNCHANGED <<fsd, opened, strayed, lost>>
        BY ZenonT(60), <2>2, <2>5, <3>2 DEF open_session
      <4> QED
        BY ZenonT(60), <2>2, <3>2, <4>1, QuietKeeps
    <3> QED
      BY <3>1, <3>2
  <2> QED
    BY ZenonT(60), <1>4, <2>3, <2>4, <2>5 DEF Session
<1>5. ASSUME NEW user \in Users, NEW b \in {TRUE, FALSE}, handle_cpu_run(c, user, b)
      PROVE  ExportInv'
  <2>1. conns[c].open /\ UNCHANGED <<fsd, opened, strayed, lost>>
    BY ZenonT(60), <1>5 DEF handle_cpu_run, Asks
  <2>2. /\ k \in OpenConns /\ k.open /\ k.session = conns[c].session
        /\ k.fids = conns[c].fids
        /\ FidsOf(k) = FidsOf(conns[c]) /\ Carried(c) = [conns EXCEPT ![c] = k]
    BY <1>0, <2>1, HeardShape
  <2> HIDE DEF k
  <2>3. CASE b
    <3> DEFINE r == [k EXCEPT !.child = user]
    <3>1. conns' = [Carried(c) EXCEPT ![c].child = user] /\ ~conns[c].session
      BY <1>5, <2>3 DEF handle_cpu_run
    <3>2. conns' = [conns EXCEPT ![c] = r]
      BY ZenonT(60), <1>0, <2>2, <3>1
    <3>3. r \in OpenConns
      BY ZenonT(60), <2>2 DEF OpenConns, Somebody
    <3>4. r.open /\ r.fids = k.fids /\ r.session = k.session
      BY ZenonT(60), <2>2 DEF OpenConns
    <3> HIDE DEF r
    <3>5. FidsOf(r) = FidsOf(conns[c])
      BY <2>1, <2>2, <3>4 DEF FidsOf
    <3> QED
      BY ZenonT(60), <2>1, <2>2, <3>1, <3>2, <3>3, <3>4, <3>5, QuietKeeps
  <2>4. CASE ~b
    <3>1. conns' = [conns EXCEPT ![c] = k] /\ ~conns[c].session
      BY <1>5, <2>2, <2>4 DEF handle_cpu_run
    <3> QED
      BY ZenonT(60), <2>1, <2>2, <3>1, QuietKeeps
  <2> QED
    BY <2>3, <2>4
<1> QED
  BY ZenonT(60), <1>1, <1>2, <1>3, <1>4, <1>5

\* A verb on a path.
LEMMA PathKeeps ==
  ASSUME ExportConstants, ExportInv, NEW c \in Conns, NEW user \in Users, PathVerb(c, user)
  PROVE  ExportInv'
<1>0. conns \in [Conns -> {NoConn} \union OpenConns] /\ fsd \in Tables
  BY DEF ExportInv
<1>1. /\ conns[c].open /\ conns' = Carried(c) /\ fsd' \in Meanwhile(fsd)
      /\ lost' = (IF fsd' = fsd THEN lost ELSE 0)
      /\ UNCHANGED <<opened, strayed>>
  BY DEF PathVerb, Asks
<1>2. /\ Heard(c) \in OpenConns /\ Heard(c).session = conns[c].session
      /\ FidsOf(Heard(c)) = FidsOf(conns[c]) /\ conns' = [conns EXCEPT ![c] = Heard(c)]
  BY <1>0, <1>1, HeardShape
<1>3. /\ fsd' \in Tables
      /\ \/ fsd' = fsd
         \/ /\ fsd'.gen = fsd.gen + 1 /\ fsd' # fsd
            /\ \A n \in FsdFids : fsd'.fids[n] = FsdFree
  BY <1>0, <1>1, LaterFsd
<1>4. fsd.gen \in Nat /\ fsd.gen + 1 > fsd.gen
  BY <1>0 DEF Tables
<1>5. \/ fsd' = fsd /\ lost' = lost
      \/ /\ fsd'.gen > fsd.gen /\ lost' = 0
         /\ \A n \in FsdFids : fsd'.fids[n] = FsdFree
  BY <1>1, <1>3, <1>4
<1> QED
  BY ZenonT(60), <1>1, <1>2, <1>3, <1>5, ReplacedKeeps

\* Steps of the machine beside netd.
LEMMA FsdKeeps ==
  ASSUME ExportConstants, ExportInv,
         LocalOpen \/ (\E n \in FsdFids : LocalClunk(n)) \/ FsdRestarts
  PROVE  ExportInv'
<1> DEFINE H == Held(conns)
<1>0. /\ conns \in [Conns -> {NoConn} \union OpenConns] /\ fsd \in Tables
      /\ Agree(H, fsd, lost)
  BY DEF ExportInv
<1>1. conns' = conns /\ opened' = opened /\ strayed' = strayed
  BY DEF LocalOpen, LocalClunk, FsdRestarts
<1>2. Held(conns') = H /\ sessions' = sessions
  BY <1>1 DEF Held, FidsOf, sessions, Live
<1>3. H \in HandleTables
  BY ZenonT(60), <1>0, HeldShape
<1> HIDE DEF H
<1>4. SUFFICES fsd' \in Tables /\ Agree(H, fsd', lost')
  BY <1>1, <1>2 DEF ExportInv
<1>5. ASSUME NEW n \in FsdFids, NEW rec \in FidRecs, rec.owner # "netd",
             fsd.fids[n].owner # "netd", lost' = lost,
             fsd' = [fsd EXCEPT !.fids[n] = rec]
      PROVE  fsd' \in Tables /\ Agree(H, fsd', lost')
  <2>1. fsd' \in Tables
    BY <1>0, <1>5 DEF Tables
  <2>2. fsd'.gen = fsd.gen /\ \A k \in FsdFids :
          fsd'.fids[k] = IF k = n THEN rec ELSE fsd.fids[k]
    BY <1>0, <1>5 DEF Tables
  <2>3. ChangesLocally(fsd, n, rec, fsd')
    BY <1>5, <2>2 DEF ChangesLocally
  <2> QED
    BY ZenonT(60), <1>0, <1>3, <1>5, <2>1, <2>3, LocalAgrees
<1>6. CASE LocalOpen
  <2> DEFINE n == Min(FsdFreeFids(fsd))
             rec == [owner |-> "local", uid |-> Nobody, open |-> 0]
  <2>1. fsd' = [fsd EXCEPT !.fids[n] = rec] /\ lost' = lost /\ FsdFreeFids(fsd) # {}
    BY <1>6 DEF LocalOpen, FsdOpened
  <2>2. n \in FsdFreeFids(fsd)
    BY ZenonT(60), <2>1, LeastFid DEF FsdFreeFids
  <2>3. n \in FsdFids /\ fsd.fids[n].owner = "none"
    BY <2>2 DEF FsdFreeFids
  <2>4. rec \in FidRecs /\ rec.owner # "netd"
    BY DEF FidRecs, Somebody
  <2> HIDE DEF n, rec
  <2> QED
    BY ZenonT(60), <1>5, <2>1, <2>3, <2>4
<1>7. ASSUME NEW n \in FsdFids, LocalClunk(n) PROVE fsd' \in Tables /\ Agree(H, fsd', lost')
  <2>1. FsdFree \in FidRecs /\ FsdFree.owner # "netd"
    BY DEF FsdFree, FidRecs, Somebody
  <2>2. fsd' = [fsd EXCEPT !.fids[n] = FsdFree] /\ lost' = lost /\ fsd.fids[n].owner # "netd"
    BY <1>7 DEF LocalClunk
  <2> QED
    BY ZenonT(60), <1>5, <2>1, <2>2
<1>8. CASE FsdRestarts
  <2>1. fsd' \in Meanwhile(fsd) /\ fsd' = Restarted(fsd) /\ lost' = 0
    BY <1>8 DEF FsdRestarts, Meanwhile
  <2>2. fsd.gen \in Nat
    BY <1>0 DEF Tables
  <2>3. fsd'.gen = fsd.gen + 1
    BY <2>1 DEF Restarted
  <2>4. fsd' \in Tables /\ \A n \in FsdFids : fsd'.fids[n] = FsdFree
    BY <1>0, <2>1, <2>2, <2>3, LaterFsd
  <2>5. \A p \in Places : H[p].fsd_gen \in Nat
    <3>1. \A p \in Places : H[p] \in HandleRecs
      BY <1>3 DEF HandleTables
    <3> QED
      BY <3>1 DEF HandleRecs
  <2>6. \A p \in Places : H[p].fsd_gen <= fsd.gen
    BY ZenonT(60), <1>0 DEF Agree
  <2>7. \A p \in Places : H[p].fsd_gen < fsd'.gen
    BY <2>2, <2>3, <2>5, <2>6
  <2>8. fsd'.gen \in Nat
    BY <2>2, <2>3
  <2> QED
    BY ZenonT(60), <2>1, <2>4, <2>5, <2>7, <2>8, FreshAgrees
<1> QED
  BY ZenonT(60), <1>6, <1>7, <1>8

-----------------------------------------------------------------------------
\* A frame over connection c puts h in place s of its handles.
LEMMA PlaceChanges ==
  ASSUME ExportConstants, ExportInv, NEW c \in Conns, conns[c].open,
         NEW s \in SlotNumbers, NEW h \in HandleRecs,
         conns' = [Carried(c) EXCEPT ![c].fids[s] = h]
  PROVE  /\ conns' \in [Conns -> {NoConn} \union OpenConns]
         /\ \A p \in Places : Held(conns')[p] = IF p = <<c, s>> THEN h ELSE Held(conns)[p]
         /\ sessions' <= SESSION_MAX
<1> DEFINE k == Heard(c)
           r == [k EXCEPT !.fids[s] = h]
<1>0. conns \in [Conns -> {NoConn} \union OpenConns]
  BY DEF ExportInv
<1>1. /\ k \in OpenConns /\ k.open /\ k.session = conns[c].session
      /\ k.fids = conns[c].fids /\ Carried(c) = [conns EXCEPT ![c] = k]
  BY <1>0, HeardShape
<1> HIDE DEF k
<1>2. k.fids \in [SlotNumbers -> HandleRecs]
  BY <1>1 DEF OpenConns
<1>3. conns' = [conns EXCEPT ![c] = r]
  BY ZenonT(60), <1>0, <1>1
<1>4. r.open /\ r.session = k.session /\ r.fids = [k.fids EXCEPT ![s] = h]
  BY <1>1 DEF OpenConns
<1>5. r \in OpenConns
  BY ZenonT(60), <1>1, <1>2 DEF OpenConns
<1> HIDE DEF r
<1>6. conns' \in [Conns -> {NoConn} \union OpenConns]
  BY ZenonT(60), <1>0, <1>3, <1>5
<1>7. \A t \in SlotNumbers : FidsOf(r)[t] = IF t = s THEN h ELSE conns[c].fids[t]
  BY <1>1, <1>2, <1>4 DEF FidsOf
<1>8. ASSUME NEW p \in Places
      PROVE  Held(conns')[p] = IF p = <<c, s>> THEN h ELSE Held(conns)[p]
  <2>1. PICK d \in Conns, t \in SlotNumbers : p = <<d, t>>
    BY DEF Places
  <2>2. Held(conns')[p] = IF d = c THEN FidsOf(r)[t] ELSE Held(conns)[p]
    <3>1. \A q \in Places : Held(conns')[q] =
            IF q[1] = c THEN FidsOf(r)[q[2]] ELSE Held(conns)[q]
      <4>1. r \in {NoConn} \union OpenConns
        BY ZenonT(60), <1>5
      <4> QED
        BY ZenonT(60), <1>0, <1>3, <4>1, HeldAfter
    <3> QED
      BY ZenonT(60), <2>1, <3>1
  <2>3. d = c => Held(conns)[p] = conns[c].fids[t]
    BY <1>0, <2>1, HeldShape
  <2>4. p = <<c, s>> <=> d = c /\ t = s
    BY <2>1
  <2> QED
    BY <1>7, <2>2, <2>3, <2>4
<1>9. sessions' <= SESSION_MAX
  <2>1. IsFiniteSet(Conns) /\ SESSION_MAX \in Nat /\ sessions <= SESSION_MAX
    BY DEF ExportInv, ExportConstants
  <2>2. ~r.session \/ (conns[c].open /\ conns[c].session)
    BY ZenonT(60), <1>1, <1>4
  <2> QED
    BY ZenonT(60), <1>0, <1>3, <2>1, <2>2, SessionsStay
<1> QED
  BY ZenonT(60), <1>6, <1>8, <1>9

\* A verb on a handle: what passes session_slot is the very open.
LEMMA FidOpKeeps ==
  ASSUME ExportConstants, ExportInv, NEW c \in Conns, NEW user \in Users,
         NEW s \in 1..SESSION_FIDS, NEW verb, FidOp(c, user, s, verb)
  PROVE  ExportInv'
<1> DEFINE H == Held(conns)
           h == conns[c].fids[s]
           p == <<c, s>>
           k == Heard(c)
<1>0. /\ conns \in [Conns -> {NoConn} \union OpenConns] /\ fsd \in Tables
      /\ Agree(H, fsd, lost) /\ opened \in Nat /\ strayed = FALSE
  BY DEF ExportInv
<1>1. conns[c].open /\ h.fsd_fid # 0
  BY ZenonT(60) DEF FidOp, Asks
<1>2. s \in SlotNumbers /\ p \in Places
  BY DEF SlotNumbers, Places
<1>3. H \in HandleTables /\ H[p] = h
  BY ZenonT(60), <1>0, <1>1, <1>2, HeldShape
<1>4. NONE \in HandleRecs
  BY DEF NONE, HandleRecs, Somebody
<1>5. /\ k \in OpenConns /\ k.session = conns[c].session
      /\ FidsOf(k) = FidsOf(conns[c]) /\ Carried(c) = [conns EXCEPT ![c] = k]
  BY ZenonT(60), <1>0, <1>1, HeardShape
<1>6. fsd.gen \in Nat
  BY <1>0 DEF Tables
<1> HIDE DEF H, k
<1>7. CASE Stale(h)
  <2>1. conns' = [Carried(c) EXCEPT ![c].fids[s] = NONE] /\ UNCHANGED <<fsd, opened, strayed, lost>>
    BY ZenonT(60), <1>7 DEF FidOp
  <2>2. /\ conns' \in [Conns -> {NoConn} \union OpenConns]
        /\ \A q \in Places : Held(conns')[q] = IF q = p THEN NONE ELSE H[q]
        /\ sessions' <= SESSION_MAX
    BY ZenonT(60), <1>1, <1>2, <1>4, <2>1, PlaceChanges DEF H
  <2>3. {p} \cap Current(H, fsd) = {}
    BY <1>3, <1>7 DEF Current, Stale, fsd_generation
  <2>4. Agree(Held(conns'), fsd, lost)
    <3>1. {p} \in SUBSET Places
      BY <1>2
    <3>2. \A q \in Places : Held(conns')[q] = IF q \in {p} THEN NONE ELSE H[q]
      BY <2>2
    <3>3. \A n \in FsdFids :
            fsd.fids[n] = IF \E q \in {p} \cap Current(H, fsd) : H[q].fsd_fid = n
                          THEN FsdFree ELSE fsd.fids[n]
      BY ZenonT(60), <2>3
    <3>4. Releases(H, fsd, {p}, Held(conns'), fsd)
      BY <3>2, <3>3 DEF Releases
    <3> QED
      BY ZenonT(60), <1>0, <1>3, <3>1, <3>4, ReleaseAgrees
  <2> QED
    BY ZenonT(60), <1>0, <2>1, <2>2, <2>4 DEF ExportInv
<1>8. CASE ~Stale(h) /\ h.opener # user
  <2>1. conns' = [conns EXCEPT ![c] = k] /\ UNCHANGED <<fsd, opened, strayed, lost>>
    BY <1>5, <1>8 DEF FidOp
  <2> QED
    BY ZenonT(60), <1>1, <1>5, <2>1, QuietKeeps
<1>9. CASE ~Stale(h) /\ h.opener = user
  <2>1. p \in Current(H, fsd)
    BY ZenonT(60), <1>1, <1>2, <1>3, <1>9 DEF Current, Stale, fsd_generation
  <2>2. /\ fsd.fids[h.fsd_fid] = [owner |-> "netd", uid |-> user, open |-> h.open]
        /\ h.fsd_fid \in FsdFids
    <3>1. H[p].fsd_fid \in FsdFids
      BY ZenonT(60), <1>0, <1>3, <2>1, CurrentFids
    <3>2. fsd.fids[H[p].fsd_fid] = [owner |-> "netd", uid |-> H[p].opener, open |-> H[p].open]
      BY ZenonT(60), <1>0, <2>1 DEF Agree
    <3> QED
      BY ZenonT(60), <1>3, <1>9, <3>1, <3>2
  <2>3. PICK f \in Meanwhile(fsd) :
          LET refused == f.fids[h.fsd_fid].owner # "none" /\ ~FsdHolds(f, h.fsd_fid, user)
          IN  /\ conns' = IF verb = "NP_CLUNK" /\ ~refused
                          THEN [Carried(c) EXCEPT ![c].fids[s] = NONE]
                          ELSE Carried(c)
              /\ fsd' = IF verb = "NP_CLUNK" THEN Clunked(f, h.fsd_fid, user) ELSE f
              /\ strayed' = (strayed \/ (FsdHolds(f, h.fsd_fid, user)
                                         /\ f.fids[h.fsd_fid].open # h.open))
              /\ lost' = (IF f = fsd THEN lost ELSE 0)
              /\ UNCHANGED opened
    BY ZenonT(60), <1>9 DEF FidOp
  <2>4. /\ f \in Tables
        /\ \/ f = fsd
           \/ f.gen = fsd.gen + 1 /\ f # fsd /\ \A n \in FsdFids : f.fids[n] = FsdFree
    BY <1>0, LaterFsd
  <2> HIDE DEF h, p
  <2>5. CASE f = fsd
    <3>1. FsdHolds(fsd, h.fsd_fid, user) /\ fsd.fids[h.fsd_fid].open = h.open
      BY <2>2 DEF FsdHolds
    <3>2. /\ conns' = IF verb = "NP_CLUNK" THEN [Carried(c) EXCEPT ![c].fids[s] = NONE]
                      ELSE Carried(c)
          /\ fsd' = IF verb = "NP_CLUNK" THEN [fsd EXCEPT !.fids[h.fsd_fid] = FsdFree] ELSE fsd
          /\ strayed' = FALSE /\ lost' = lost /\ opened' = opened
      BY ZenonT(60), <1>0, <2>3, <2>5, <3>1 DEF Clunked
    <3>3. CASE verb # "NP_CLUNK"
      <4>1. conns' = [conns EXCEPT ![c] = k] /\ UNCHANGED <<fsd, opened, lost>> /\ strayed' = strayed
        <5>1. strayed' = strayed
          BY ZenonT(60), <1>0, <3>2
        <5> QED
          BY <1>5, <3>2, <3>3, <5>1
      <4> QED
        BY ZenonT(60), <1>1, <1>5, <4>1, QuietKeeps
    <3>4. CASE verb = "NP_CLUNK"
      <4>1. /\ conns' \in [Conns -> {NoConn} \union OpenConns]
            /\ \A q \in Places : Held(conns')[q] = IF q = p THEN NONE ELSE H[q]
            /\ sessions' <= SESSION_MAX
        BY ZenonT(60), <1>1, <1>2, <1>4, <3>2, <3>4, PlaceChanges DEF H, p
      <4>2. fsd'.gen = fsd.gen /\ \A n \in FsdFids :
              fsd'.fids[n] = IF n = h.fsd_fid THEN FsdFree ELSE fsd.fids[n]
        BY <1>0, <3>2, <3>4 DEF Tables
      <4>3. fsd' \in Tables
        <5>1. FsdFree \in FidRecs
          BY DEF FsdFree, FidRecs, Somebody
        <5> QED
          BY ZenonT(60), <1>0, <3>2, <3>4, <5>1 DEF Tables
      <4>4. Agree(Held(conns'), fsd', lost)
        <5>1. {p} \in SUBSET Places
          BY <1>2
        <5>2. \A q \in Places : Held(conns')[q] = IF q \in {p} THEN NONE ELSE H[q]
          BY ZenonT(60), <4>1
        <5>3. \A n \in FsdFids :
                (\E q \in {p} \cap Current(H, fsd) : H[q].fsd_fid = n) <=> n = h.fsd_fid
          BY ZenonT(60), <1>3, <2>1
        <5>4. \A n \in FsdFids :
                fsd'.fids[n] = IF \E q \in {p} \cap Current(H, fsd) : H[q].fsd_fid = n
                               THEN FsdFree ELSE fsd.fids[n]
          BY ZenonT(60), <4>2, <5>3
        <5>5. Releases(H, fsd, {p}, Held(conns'), fsd')
          BY ZenonT(60), <4>2, <5>2, <5>4 DEF Releases
        <5> QED
          BY <1>0, <1>3, <5>1, <5>5, ReleaseAgrees
      <4> QED
        BY ZenonT(60), <1>0, <3>2, <4>1, <4>3, <4>4 DEF ExportInv
    <3> QED
      BY ZenonT(60), <3>3, <3>4
  <2>6. CASE f # fsd
    <3>1. f.gen = fsd.gen + 1 /\ \A n \in FsdFids : f.fids[n] = FsdFree
      BY ZenonT(60), <2>4, <2>6
    <3>2. ~FsdHolds(f, h.fsd_fid, user) /\ f.fids[h.fsd_fid].owner = "none"
      BY <2>2, <3>1 DEF FsdHolds, FsdFree
    <3>3. /\ conns' = IF verb = "NP_CLUNK" THEN [Carried(c) EXCEPT ![c].fids[s] = NONE]
                      ELSE Carried(c)
          /\ fsd' = f /\ lost' = 0 /\ opened' = opened
      BY <2>3, <2>6, <3>2 DEF Clunked
    <3>4. strayed' = strayed
      BY ZenonT(60), <1>0, <2>3, <3>2
    <3>5. CASE verb # "NP_CLUNK"
      <4>1. conns' = [conns EXCEPT ![c] = k]
        BY <1>5, <3>3, <3>5
      <4>2. f.gen > fsd.gen
        BY <1>6, <3>1
      <4> QED
        BY ZenonT(60), <1>1, <1>5, <2>4, <3>1, <3>3, <3>4, <4>1, <4>2, ReplacedKeeps
    <3>6. CASE verb = "NP_CLUNK"
      <4>1. /\ conns' \in [Conns -> {NoConn} \union OpenConns]
            /\ \A q \in Places : Held(conns')[q] = IF q = p THEN NONE ELSE H[q]
            /\ sessions' <= SESSION_MAX
        BY ZenonT(60), <1>1, <1>2, <1>4, <3>3, <3>6, PlaceChanges DEF H, p
      <4>2. \A q \in Places : H[q].fsd_gen \in Nat
        <5>1. \A q \in Places : H[q] \in HandleRecs
          BY ZenonT(60), <1>3 DEF HandleTables
        <5> QED
          BY <5>1 DEF HandleRecs
      <4>3. \A q \in Places : H[q].fsd_gen <= fsd.gen
        BY ZenonT(60), <1>0 DEF Agree
      <4>4. \A q \in Places : Held(conns')[q].fsd_gen \in Nat /\ Held(conns')[q].fsd_gen < f.gen
        <5>1. NONE.fsd_gen = 0
          BY DEF NONE
        <5> QED
          BY <1>6, <3>1, <4>1, <4>2, <4>3, <5>1
      <4>5. f.gen \in Nat
        BY <1>6, <3>1
      <4>6. Agree(Held(conns'), f, 0)
        BY <3>1, <4>4, <4>5, FreshAgrees
      <4> QED
        BY <1>0, <2>4, <3>3, <3>4, <4>1, <4>6 DEF ExportInv
    <3> QED
      BY <3>5, <3>6
  <2> QED
    BY <2>5, <2>6
<1> QED
  BY ZenonT(60), <1>7, <1>8, <1>9

\* NP_OPEN, with the file server replaced before the call, after it, or not.
LEMMA OpenKeeps ==
  ASSUME ExportConstants, ExportInv, NEW c \in Conns, NEW user \in Users, NP_OPEN(c, user)
  PROVE  ExportInv'
<1> DEFINE H == Held(conns)
           k == Heard(c)
<1>0. /\ conns \in [Conns -> {NoConn} \union OpenConns] /\ fsd \in Tables
      /\ Agree(H, fsd, lost) /\ opened \in Nat /\ strayed = FALSE
  BY DEF ExportInv
<1>1. conns[c].open /\ strayed' = strayed
  BY DEF NP_OPEN, Asks
<1>2. H \in HandleTables
  BY <1>0, HeldShape
<1>3. /\ k \in OpenConns /\ k.session = conns[c].session
      /\ FidsOf(k) = FidsOf(conns[c]) /\ Carried(c) = [conns EXCEPT ![c] = k]
  BY <1>0, <1>1, HeardShape
<1>4. fsd.gen \in Nat
  BY <1>0 DEF Tables
<1> HIDE DEF k
<1>a. PICK f \in Meanwhile(fsd) : \E g \in Meanwhile(f) :
        IF conns[c].session /\ FreeSlots(c) # {} /\ FsdFreeFids(f) # {}
        THEN Opening(c, user, Min(FreeSlots(c)), Min(FsdFreeFids(f)), f, g)
        ELSE /\ conns' = Carried(c)
             /\ fsd' = g
             /\ lost' = (IF g = fsd THEN lost ELSE 0)
             /\ UNCHANGED opened
  BY DEF NP_OPEN
<1>5. PICK g \in Meanwhile(f) :
        IF conns[c].session /\ FreeSlots(c) # {} /\ FsdFreeFids(f) # {}
        THEN Opening(c, user, Min(FreeSlots(c)), Min(FsdFreeFids(f)), f, g)
        ELSE /\ conns' = Carried(c)
             /\ fsd' = g
             /\ lost' = (IF g = fsd THEN lost ELSE 0)
             /\ UNCHANGED opened
  BY <1>a
<1>6. /\ f \in Tables
      /\ \/ f = fsd
         \/ f.gen = fsd.gen + 1 /\ f # fsd /\ \A n \in FsdFids : f.fids[n] = FsdFree
  BY <1>0, LaterFsd
<1>7. /\ g \in Tables
      /\ \/ g = f
         \/ g.gen = f.gen + 1 /\ g # f /\ \A n \in FsdFids : g.fids[n] = FsdFree
  BY <1>6, LaterFsd
<1>8. \/ g = fsd
      \/ g.gen > fsd.gen /\ g # fsd /\ \A n \in FsdFids : g.fids[n] = FsdFree
  BY <1>4, <1>6, <1>7
<1>9. CASE ~(conns[c].session /\ FreeSlots(c) # {} /\ FsdFreeFids(f) # {})
  <2>1. /\ conns' = [conns EXCEPT ![c] = k] /\ fsd' = g
        /\ lost' = (IF g = fsd THEN lost ELSE 0) /\ opened' = opened
    BY ZenonT(60), <1>3, <1>5, <1>9
  <2>2. \/ g = fsd /\ lost' = lost
        \/ g.gen > fsd.gen /\ lost' = 0 /\ \A n \in FsdFids : g.fids[n] = FsdFree
    BY <1>8, <2>1
  <2> QED
    BY ZenonT(60), <1>1, <1>3, <1>7, <2>1, <2>2, ReplacedKeeps
<1>10. CASE conns[c].session /\ FreeSlots(c) # {} /\ FsdFreeFids(f) # {}
  <2> DEFINE s == Min(FreeSlots(c))
             n == Min(FsdFreeFids(f))
             o == opened + 1
             p == <<c, s>>
             h == [fsd_fid |-> n, opener |-> user, fsd_gen |-> fsd.gen, open |-> o]
  <2>1. /\ conns' = [Carried(c) EXCEPT ![c].fids[s] = h]
        /\ fsd' = IF g = f THEN FsdOpened(f, n, "netd", user, o) ELSE g
        /\ opened' = o
        /\ lost' = (IF g # f THEN 0 ELSE IF f # fsd THEN 1 ELSE lost)
    BY <1>5, <1>10 DEF Opening, Stamp, fsd_generation
  <2>2. s \in FreeSlots(c)
    <3>1. FreeSlots(c) \subseteq Nat
      BY DEF FreeSlots
    <3> QED
      BY <1>10, <3>1, LeastNumber
  <2>3. n \in FsdFreeFids(f)
    BY <1>10, LeastFid
  <2>4. s \in SlotNumbers /\ conns[c].fids[s].fsd_fid = 0 /\ p \in Places
    BY ZenonT(60), <2>2 DEF FreeSlots, SlotNumbers, Places
  <2>5. n \in FsdFids /\ f.fids[n].owner = "none" /\ n # 0
    BY <2>3 DEF FsdFreeFids, ExportConstants
  <2>6. H[p].fsd_fid = 0
    BY ZenonT(60), <1>0, <1>1, <2>4, HeldShape
  <2>7. o \in Nat
    BY <1>0
  <2> HIDE DEF s, n, o, H
  <2>8. h \in HandleRecs
    BY <1>4, <2>5, <2>7 DEF HandleRecs, Somebody
  <2>9. /\ conns' \in [Conns -> {NoConn} \union OpenConns]
        /\ \A q \in Places : Held(conns')[q] = IF q = p THEN h ELSE H[q]
        /\ sessions' <= SESSION_MAX
    BY ZenonT(60), <1>1, <2>1, <2>4, <2>8, PlaceChanges DEF H
  <2>10. \A q \in Places : H[q].fsd_gen \in Nat
    <3>1. \A q \in Places : H[q] \in HandleRecs
      BY ZenonT(60), <1>2 DEF HandleTables
    <3> QED
      BY <3>1 DEF HandleRecs
  <2>11. \A q \in Places : H[q].fsd_gen <= fsd.gen
    BY <1>0 DEF Agree
  <2>12. h.fsd_gen = fsd.gen
    OBVIOUS
  <2>h. h = [fsd_fid |-> n, opener |-> user, fsd_gen |-> fsd.gen, open |-> o]
    OBVIOUS
  <2> HIDE DEF h
  <2>13. \A q \in Places : Held(conns')[q].fsd_gen \in Nat /\ Held(conns')[q].fsd_gen <= fsd.gen
    BY ZenonT(60), <1>4, <2>9, <2>10, <2>11, <2>12, GenOrder
  <2>14. CASE g # f
    <3>1. fsd' = g /\ lost' = 0
      BY <2>1, <2>14
    <3>2. g.gen > fsd.gen /\ \A j \in FsdFids : g.fids[j] = FsdFree
      BY <1>4, <1>6, <1>7, <2>14
    <3>3. g.gen \in Nat
      BY <1>7 DEF Tables
    <3>4. \A q \in Places : Held(conns')[q].fsd_gen < g.gen
      BY ZenonT(60), <1>4, <2>13, <3>2, <3>3, GenOrder
    <3>5. Agree(Held(conns'), g, 0)
      BY <2>13, <3>2, <3>3, <3>4, FreshAgrees
    <3> QED
      BY ZenonT(60), <1>0, <1>1, <1>7, <2>1, <2>7, <2>9, <3>1, <3>5 DEF ExportInv
  <2>15. CASE g = f
    <3> DEFINE rec == [owner |-> "netd", uid |-> user, open |-> o]
    <3>1. fsd' = [f EXCEPT !.fids[n] = rec] /\ lost' = (IF f # fsd THEN 1 ELSE lost)
      BY <2>1, <2>15 DEF FsdOpened
    <3>2. fsd'.gen = f.gen /\ \A j \in FsdFids : fsd'.fids[j] = IF j = n THEN rec ELSE f.fids[j]
      BY <1>6, <3>1 DEF Tables
    <3>3. rec \in FidRecs
      BY <2>7 DEF FidRecs, Somebody
    <3>4. fsd' \in Tables
      <4> HIDE DEF rec
      <4> QED
        BY <1>6, <3>1, <3>3 DEF Tables
    <3>5. Agree(Held(conns'), fsd', lost')
      <4>1. CASE f = fsd
        <5>1. \A q \in Places : Held(conns')[q] =
                IF q = p THEN [fsd_fid |-> n, opener |-> user, fsd_gen |-> fsd.gen, open |-> o]
                ELSE H[q]
          BY ZenonT(60), <2>9, <2>h
        <5>2. Agree(Held(conns'), fsd', lost)
          <6>1. Opens(H, fsd, p, n, user, o, Held(conns'), fsd')
            BY ZenonT(60), <2>5, <2>6, <3>2, <4>1, <5>1 DEF Opens
          <6> QED
            BY ZenonT(60), <1>0, <1>2, <2>4, <2>5, <6>1, OpenAgrees
        <5> QED
          BY ZenonT(60), <3>1, <4>1, <5>2
      <4>2. CASE f # fsd
        <5>1. f.gen = fsd.gen + 1 /\ \A j \in FsdFids : f.fids[j] = FsdFree
          BY ZenonT(60), <1>6, <4>2
        <5>2. fsd'.gen \in Nat /\ fsd'.gen = fsd.gen + 1
          BY ZenonT(60), <1>4, <3>2, <5>1, GenOrder
        <5>3. \A q \in Places : Held(conns')[q].fsd_gen < fsd'.gen
          <6> SUFFICES ASSUME NEW q \in Places PROVE Held(conns')[q].fsd_gen < fsd'.gen
            OBVIOUS
          <6>1. Held(conns')[q].fsd_gen \in Nat /\ Held(conns')[q].fsd_gen <= fsd.gen
            BY ZenonT(60), <2>13
          <6>2. Held(conns')[q].fsd_gen < fsd.gen + 1
            BY ZenonT(60), <1>4, <6>1, GenOrder
          <6> QED
            BY ZenonT(60), <5>2, <6>2
        <5>4. \A j \in FsdFids : j # n => fsd'.fids[j] = FsdFree
          BY ZenonT(60), <3>2, <5>1
        <5>5. Agree(Held(conns'), fsd', 1)
          BY ZenonT(60), <2>13, <5>2, <5>3, <5>4, LateOpenAgrees
        <5> QED
          BY <3>1, <4>2, <5>5
      <4> QED
        BY <4>1, <4>2
    <3> QED
      BY ZenonT(60), <1>0, <1>1, <2>1, <2>7, <2>9, <3>4, <3>5 DEF ExportInv
  <2> QED
    BY <2>14, <2>15
<1> QED
  BY <1>9, <1>10

-----------------------------------------------------------------------------

\* At boot there are no connections and no fids.
LEMMA ExportInit ==
  ASSUME ExportConstants, Init
  PROVE  ExportInv
<1>1. conns = [c \in Conns |-> NoConn] /\ fsd = [gen |-> 1, fids |-> [n \in FsdFids |-> FsdFree]]
      /\ opened = 0 /\ strayed = FALSE /\ lost = 0
  BY DEF Init
<1>2. conns \in [Conns -> {NoConn} \union OpenConns]
  BY <1>1
<1>3. fsd \in Tables
  <2>1. FsdFree \in FidRecs
    BY DEF FsdFree, FidRecs, Somebody
  <2> QED
    BY <1>1, <2>1 DEF Tables
<1>4. \A p \in Places : Held(conns)[p] = NONE
  <2>1. \A c \in Conns : ~conns[c].open
    BY <1>1 DEF NoConn
  <2>2. \A p \in Places : p[1] \in Conns /\ p[2] \in SlotNumbers
    BY ZenonT(60) DEF Places
  <2> QED
    BY ZenonT(60), <2>1, <2>2 DEF Held, FidsOf
<1>5. Agree(Held(conns), fsd, lost)
  <2>1. NONE.fsd_gen = 0
    BY DEF NONE
  <2>2. \A p \in Places : Held(conns)[p].fsd_gen \in Nat /\ Held(conns)[p].fsd_gen < 1
    BY <1>4, <2>1
  <2>3. fsd.gen = 1 /\ \A n \in FsdFids : fsd.fids[n] = FsdFree
    BY <1>1
  <2> QED
    BY ZenonT(60), <1>1, <2>2, <2>3, FreshAgrees
<1>6. sessions <= SESSION_MAX
  <2>1. {c \in Live : conns[c].session} = {}
    BY <1>1 DEF Live, NoConn
  <2>2. sessions = 0
    BY ZenonT(60), <2>1, FS_EmptySet DEF sessions
  <2> QED
    BY <2>2 DEF ExportConstants
<1> QED
  BY ZenonT(60), <1>1, <1>2, <1>3, <1>5, <1>6 DEF ExportInv

\* Every step of netd, of the local programs and of fsd keeps the invariant.
LEMMA ExportStep ==
  ASSUME ExportConstants, ExportInv, [Next]_vars
  PROVE  ExportInv'
<1>1. CASE UNCHANGED vars
  <2>1. conns' = conns /\ fsd' = fsd /\ opened' = opened /\ strayed' = strayed /\ lost' = lost
    BY ZenonT(60), <1>1 DEF vars
  <2>2. sessions' = sessions
    BY ZenonT(60), <2>1 DEF sessions, Live
  <2> QED
    BY ZenonT(60), <2>1, <2>2 DEF ExportInv
<1>2. ASSUME NEW c \in Conns, NEW user \in Users, NEW s \in 1..SESSION_FIDS,
             NEW verb \in {"NP_PREAD", "NP_CLUNK"}, FidOp(c, user, s, verb)
      PROVE  ExportInv'
  BY <1>2, FidOpKeeps
<1>3. ASSUME NEW c \in Conns, NEW user \in Users, NP_OPEN(c, user) \/ PathVerb(c, user)
      PROVE  ExportInv'
  BY <1>3, OpenKeeps, PathKeeps
<1>4. ASSUME NEW c \in Conns,
             \/ Accept(c) \/ Gone(c) \/ verify_keyed_fails(c) \/ deny_9p(c)
             \/ \E user \in Users, b \in {TRUE, FALSE} :
                  Session(c, user, b) \/ handle_cpu_run(c, user, b)
      PROVE  ExportInv'
  BY ZenonT(60), <1>4, ConnKeeps
<1>5. CASE LocalOpen \/ (\E n \in FsdFids : LocalClunk(n)) \/ FsdRestarts
  BY ZenonT(60), <1>5, FsdKeeps
<1> QED
  BY ZenonT(60), <1>1, <1>2, <1>3, <1>4, <1>5 DEF Next

\* The handles of the running file server, in the one table.
LEMMA HandlesAreCurrent ==
  ASSUME conns \in [Conns -> {NoConn} \union OpenConns]
  PROVE  /\ Handles = Current(Held(conns), fsd)
         /\ \A p \in Handles : Handle(p) = Held(conns)[p]
<1>1. \A c \in Conns, s \in SlotNumbers :
        Held(conns)[<<c, s>>] = IF conns[c].open THEN conns[c].fids[s] ELSE NONE
  BY ZenonT(60), HeldShape
<1>2. NONE.fsd_fid = 0
  BY DEF NONE
<1>3. ASSUME NEW c \in Conns, NEW s \in SlotNumbers
      PROVE  /\ <<c, s>> \in Handles <=> <<c, s>> \in Current(Held(conns), fsd)
             /\ <<c, s>> \in Handles => Handle(<<c, s>>) = Held(conns)[<<c, s>>]
  <2>1. Handle(<<c, s>>) = conns[c].fids[s]
    BY DEF Handle
  <2>2. <<c, s>> \in Handles <=>
          conns[c].open /\ conns[c].fids[s].fsd_fid # 0 /\ conns[c].fids[s].fsd_gen = fsd.gen
    BY ZenonT(60), <2>1 DEF Handles, SlotNumbers
  <2>3. <<c, s>> \in Current(Held(conns), fsd) <=>
          Held(conns)[<<c, s>>].fsd_fid # 0 /\ Held(conns)[<<c, s>>].fsd_gen = fsd.gen
    BY ZenonT(60) DEF Current, Places
  <2> QED
    BY ZenonT(60), <1>1, <1>2, <2>1, <2>2, <2>3
<1>4. \A p \in Handles : \E c \in Conns, s \in SlotNumbers : p = <<c, s>>
  BY DEF Handles, SlotNumbers
<1>5. \A p \in Current(Held(conns), fsd) : \E c \in Conns, s \in SlotNumbers : p = <<c, s>>
  BY DEF Current, Places
<1> QED
  BY <1>3, <1>4, <1>5

\* The fids netd holds are no more than the handles of its sessions, and one.
LEMMA NamedFids ==
  ASSUME ExportConstants, ExportInv
  PROVE  Cardinality({n \in FsdFids : fsd.fids[n].owner = "netd"}) <= Cardinality(Handles) + lost
<1> DEFINE H == Held(conns)
           N == {n \in FsdFids : fsd.fids[n].owner = "netd"}
           U == Unnamed(H, fsd)
           I == {H[p].fsd_fid : p \in Handles}
<1>0. conns \in [Conns -> {NoConn} \union OpenConns] /\ fsd \in Tables /\ Agree(H, fsd, lost)
  BY DEF ExportInv
<1>1. Handles = Current(H, fsd)
  BY <1>0, HandlesAreCurrent
<1>2. IsFiniteSet(Handles)
  <2>1. IsFiniteSet(SlotNumbers)
    BY FS_Interval DEF SlotNumbers, ExportConstants
  <2>2. IsFiniteSet(Places)
    BY <2>1, FS_Product DEF Places, ExportConstants
  <2>3. Handles \subseteq Places
    BY ZenonT(60), <1>1 DEF Current
  <2> QED
    BY <2>2, <2>3, FS_Subset
<1>3. IsFiniteSet(I) /\ Cardinality(I) <= Cardinality(Handles)
  <2> DEFINE F == [p \in Handles |-> H[p].fsd_fid]
  <2>1. F \in Surjection(Handles, I)
    BY DEF Surjection
  <2> QED
    BY ZenonT(60), <1>2, <2>1, FS_Surjection
<1>4. IsFiniteSet(U) /\ Cardinality(U) <= lost /\ lost \in Nat
  <2>1. CASE lost = 0 /\ U = {}
    BY <2>1, FS_EmptySet
  <2>2. CASE lost = 1 /\ \E n : U \subseteq {n}
    <3>1. PICK n : U \subseteq {n}
      BY <2>2
    <3>2. IsFiniteSet({n}) /\ Cardinality({n}) = 1
      BY ZenonT(60), FS_Singleton
    <3> HIDE DEF U
    <3>3. IsFiniteSet(U) /\ Cardinality(U) <= Cardinality({n})
      BY ZenonT(60), <3>1, <3>2, FS_Subset
    <3> QED
      BY <2>2, <3>2, <3>3
  <2> QED
    BY ZenonT(60), <1>0, <2>1, <2>2 DEF Agree
<1>5. N \subseteq I \union U
  BY <1>1 DEF Unnamed
<1> HIDE DEF N, I, U
<1>6. /\ IsFiniteSet(I \union U)
      /\ Cardinality(I \union U) = Cardinality(I) + Cardinality(U) - Cardinality(I \cap U)
  BY <1>3, <1>4, FS_Union
<1>7. Cardinality(I \cap U) \in Nat
  <2>1. IsFiniteSet(I \cap U)
    BY <1>3, FS_Subset
  <2> QED
    BY <2>1, FS_CardinalityType
<1>8. Cardinality(N) <= Cardinality(I \union U)
  BY <1>5, <1>6, FS_Subset
<1>9. /\ Cardinality(I) \in Nat /\ Cardinality(U) \in Nat /\ Cardinality(Handles) \in Nat
  BY <1>2, <1>3, <1>4, FS_CardinalityType
<1>10. Cardinality(N) \in Nat
  <2>1. IsFiniteSet(N)
    BY ZenonT(60), <1>5, <1>6, FS_Subset
  <2> QED
    BY <2>1, FS_CardinalityType
<1>11. Cardinality(N) <= Cardinality(Handles) + lost
  BY <1>3, <1>4, <1>6, <1>7, <1>8, <1>9, <1>10
<1> QED
  BY <1>11 DEF N

\* A session's handles stay the opens they were made by, for any number of
\* connections, handles and users, and however often the file server is
\* replaced: no verb on a handle reaches another open, no two handles share
\* one, and all fids but at most one are given back (session_slot, NP_OPEN,
\* Drop for TcpConn).
THEOREM HandlesStayTheirs ==
  ASSUME ExportConstants
  PROVE  Spec => []FidsAreTheirs
<1>1. Init => ExportInv
  BY ExportInit
<1>2. ExportInv /\ [Next]_vars => ExportInv'
  BY ZenonT(60), ExportStep
<1>3. ExportInv => FidsAreTheirs
  <2> SUFFICES ASSUME ExportInv PROVE FidsAreTheirs
    OBVIOUS
  <2>1. /\ conns \in [Conns -> {NoConn} \union OpenConns]
        /\ Agree(Held(conns), fsd, lost) /\ strayed = FALSE /\ sessions <= SESSION_MAX
    BY DEF ExportInv
  <2>2. Handles = Current(Held(conns), fsd) /\ \A p \in Handles : Handle(p) = Held(conns)[p]
    BY ZenonT(60), <2>1, HandlesAreCurrent
  <2>3. \A p \in Handles :
          /\ fsd.fids[Handle(p).fsd_fid] =
               [owner |-> "netd", uid |-> Handle(p).opener, open |-> Handle(p).open]
          /\ \A q \in Handles : Handle(p).fsd_fid = Handle(q).fsd_fid => p = q
    <3> DEFINE H == Held(conns)
    <3>1. /\ \A p \in Current(H, fsd) :
               fsd.fids[H[p].fsd_fid] = [owner |-> "netd", uid |-> H[p].opener, open |-> H[p].open]
          /\ \A p, q \in Current(H, fsd) : H[p].fsd_fid = H[q].fsd_fid => p = q
      BY ZenonT(60), <2>1 DEF Agree
    <3>2. Handles = Current(H, fsd) /\ \A p \in Handles : Handle(p) = H[p]
      BY ZenonT(60), <2>2
    <3> HIDE DEF H
    <3> SUFFICES ASSUME NEW p \in Handles
                 PROVE  /\ fsd.fids[Handle(p).fsd_fid] =
                             [owner |-> "netd", uid |-> Handle(p).opener, open |-> Handle(p).open]
                        /\ \A q \in Handles : Handle(p).fsd_fid = Handle(q).fsd_fid => p = q
      BY ZenonT(60)
    <3>3. p \in Current(H, fsd) /\ Handle(p) = H[p]
      BY ZenonT(60), <3>2
    <3>4. fsd.fids[H[p].fsd_fid] = [owner |-> "netd", uid |-> H[p].opener, open |-> H[p].open]
      BY ZenonT(60), <3>1, <3>3
    <3>5. ASSUME NEW q \in Handles, Handle(p).fsd_fid = Handle(q).fsd_fid
          PROVE  p = q
      <4>1. q \in Current(H, fsd) /\ Handle(q) = H[q]
        BY ZenonT(60), <3>2
      <4>2. H[p].fsd_fid = H[q].fsd_fid
        BY <3>3, <3>5, <4>1
      <4> QED
        BY ZenonT(60), <3>1, <3>3, <4>1, <4>2
    <3> QED
      BY ZenonT(60), <3>3, <3>4, <3>5
  <2> QED
    BY <2>1, <2>3, NamedFids DEF FidsAreTheirs
<1> QED
  BY <1>1, <1>2, <1>3, PTL DEF Spec
=============================================================================
