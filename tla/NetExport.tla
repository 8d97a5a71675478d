----------------------------- MODULE NetExport -----------------------------
(***************************************************************************)
(* The exporting half of netd: the 9P connections other machines open, the *)
(* sessions they carry, and the handles (fids) a session holds on the file *)
(* server behind it.  The file server is supervised: it may be replaced at *)
(* any moment, between two requests or in the middle of one, and its       *)
(* successor starts with an empty table and reuses the same numbers.       *)
(*                                                                         *)
(* `opened` numbers the opens; a handle carries the number of the open     *)
(* that made it on both sides (ghost), so that a number reused by the file *)
(* server can be told from the one a session was given.                    *)
(***************************************************************************)
EXTENDS Integers, FiniteSets, FiniteSetsExt

CONSTANTS
  Conns,          \* the connection slots: MAX_CONNS of them
  Users,          \* local users a peer's claim can be mapped to
  SESSION_MAX, SESSION_FIDS,
  FsdFids,        \* the file server's fid table
  MaxOpens, MaxGen

VARIABLES conns, fsd, opened, strayed, lost

vars == <<conns, fsd, opened, strayed, lost>>

NoConn == [open |-> FALSE]
Nobody == "nobody"
NONE == [fsd_fid |-> 0, opener |-> Nobody, fsd_gen |-> 0, open |-> 0]
FsdFree == [owner |-> "none", uid |-> Nobody, open |-> 0]
Unkeyed == [on |-> FALSE, user |-> Nobody]

new_conn ==
  [open |-> TRUE, session |-> FALSE, carried |-> FALSE, keyed |-> Unkeyed,
   child |-> Nobody, fids |-> [s \in 1..SESSION_FIDS |-> NONE]]

Init ==
  /\ conns = [c \in Conns |-> NoConn]
  /\ fsd = [gen |-> 1, fids |-> [n \in FsdFids |-> FsdFree]]
  /\ opened = 0
  /\ strayed = FALSE
  /\ lost = 0

Live == {c \in Conns : conns[c].open}
sessions == Cardinality({c \in Live : conns[c].session})
fsd_generation == fsd.gen

(***************************************************************************)
(* The file server, as netd's calls meet it: a fid is its opener's, and a  *)
(* call on somebody else's, or on a free number, is refused.               *)
(***************************************************************************)
FsdHolds(f, n, user) == f.fids[n].owner = "netd" /\ f.fids[n].uid = user
Clunked(f, n, user) ==
  IF FsdHolds(f, n, user) THEN [f EXCEPT !.fids[n] = FsdFree] ELSE f
FsdFreeFids(f) == {n \in FsdFids : f.fids[n].owner = "none"}
FsdOpened(f, n, owner, user, open) ==
  [f EXCEPT !.fids[n] = [owner |-> owner, uid |-> user, open |-> open]]
Restarted(f) == [gen |-> f.gen + 1, fids |-> [n \in FsdFids |-> FsdFree]]

(* The file server a moment later: the same, or a successor in its place. *)
Meanwhile(f) == {f} \union (IF f.gen < MaxGen THEN {Restarted(f)} ELSE {})

(***************************************************************************)
(* Drop for TcpConn: the one release of a session's handles, whichever way *)
(* the connection ends; handles of an earlier file server are left alone.  *)
(***************************************************************************)
TheirHandles(c, f) ==
  {s \in 1..SESSION_FIDS :
     conns[c].fids[s].fsd_fid # 0 /\ conns[c].fids[s].fsd_gen = f.gen}
Strays(c, f) ==
  \E s \in TheirHandles(c, f) :
     LET h == conns[c].fids[s]
     IN  FsdHolds(f, h.fsd_fid, h.opener) /\ f.fids[h.fsd_fid].open # h.open
Released(c, f) ==
  {conns[c].fids[s].fsd_fid :
     s \in {t \in TheirHandles(c, f) :
             FsdHolds(f, conns[c].fids[t].fsd_fid, conns[c].fids[t].opener)}}
drop_conn(c) ==
  /\ fsd' = [fsd EXCEPT !.fids = [n \in FsdFids |->
                 IF n \in Released(c, fsd) THEN FsdFree ELSE fsd.fids[n]]]
  /\ strayed' = (strayed \/ Strays(c, fsd))
  /\ conns' = [conns EXCEPT ![c] = NoConn]
  /\ UNCHANGED <<opened, lost>>

(* A SYN for a new connection takes a free slot; with none it is reset. *)
Accept(c) ==
  /\ ~conns[c].open
  /\ conns' = [conns EXCEPT ![c] = new_conn]
  /\ UNCHANGED <<fsd, opened, strayed, lost>>

(* A reset, the retry limit, a finished close, or a repeated SYN. *)
Gone(c) == conns[c].open /\ drop_conn(c)

(***************************************************************************)
(* handle_9p: who is asking.  On a keyed connection the next sequence      *)
(* number under the key, from the user the key was made for, or the        *)
(* connection is closed; otherwise each frame is signed and its claim      *)
(* mapped to a user, or denied with the connection kept.                   *)
(***************************************************************************)
Asks(c, user) == conns[c].open /\ (conns[c].keyed.on => conns[c].keyed.user = user)
Carried(c) == [conns EXCEPT ![c].carried = TRUE]

verify_keyed_fails(c) == conns[c].open /\ conns[c].keyed.on /\ drop_conn(c)

deny_9p(c) ==
  /\ conns[c].open /\ ~conns[c].keyed.on
  /\ conns' = Carried(c)
  /\ UNCHANGED <<fsd, opened, strayed, lost>>

HasBudget(c) == sessions < SESSION_MAX

open_session(c) ==
  /\ conns' = IF conns[c].session \/ HasBudget(c)
              THEN [Carried(c) EXCEPT ![c].session = TRUE]
              ELSE Carried(c)
  /\ UNCHANGED <<fsd, opened, strayed, lost>>

(* A key is agreed only on a connection's first frame; a second key on a
   keyed connection, or one offered mid-stream, closes it.  Without a boot
   counter or an identity the offer opens an unkeyed session. *)
key_session(c, user) ==
  /\ conns' = [Carried(c) EXCEPT ![c].session = TRUE,
                                 ![c].keyed = [on |-> TRUE, user |-> user]]
  /\ UNCHANGED <<fsd, opened, strayed, lost>>

Session(c, user, offer) ==
  /\ Asks(c, user)
  /\ \/ offer /\ (conns[c].keyed.on \/ conns[c].carried) /\ drop_conn(c)
     \/ offer /\ ~conns[c].keyed.on /\ ~conns[c].carried /\ HasBudget(c)
        /\ key_session(c, user)
     \/ (offer => ~conns[c].keyed.on /\ ~conns[c].carried) /\ open_session(c)

(* NP_RUN outside a session: the connection becomes the run's, its child
   started as the mapped user, or answers why not. *)
handle_cpu_run(c, user, starts) ==
  /\ Asks(c, user) /\ ~conns[c].session /\ conns[c].child = Nobody
  /\ conns' = IF starts THEN [Carried(c) EXCEPT ![c].child = user] ELSE Carried(c)
  /\ UNCHANGED <<fsd, opened, strayed, lost>>

\* A mutant: the generation is read after the open.
Stamp_after(g) == g.gen

(***************************************************************************)
(* NP_OPEN.  A free slot first, then the generation, then the call: when   *)
(* the file server is replaced in between, the handle is recorded under    *)
(* the old generation and counts as dead from the start.                   *)
(***************************************************************************)
Stamp(g) == fsd_generation

FreeSlots(c) == {s \in 1..SESSION_FIDS : conns[c].fids[s].fsd_fid = 0}

(* The call is answered by f; g is in f's place once netd has the answer. *)
Opening(c, user, s, n, f, g) ==
  /\ conns' = [Carried(c) EXCEPT ![c].fids[s] =
                  [fsd_fid |-> n, opener |-> user, fsd_gen |-> Stamp(g),
                   open |-> opened + 1]]
  /\ fsd' = IF g = f THEN FsdOpened(f, n, "netd", user, opened + 1) ELSE g
  /\ opened' = opened + 1
  /\ lost' = (IF g # f THEN 0 ELSE IF f # fsd THEN 1 ELSE lost)

NP_OPEN(c, user) ==
  /\ Asks(c, user) /\ opened < MaxOpens
  /\ \E f \in Meanwhile(fsd) : \E g \in Meanwhile(f) :
       IF conns[c].session /\ FreeSlots(c) # {} /\ FsdFreeFids(f) # {}
       THEN Opening(c, user, Min(FreeSlots(c)), Min(FsdFreeFids(f)), f, g)
       ELSE /\ conns' = Carried(c)
            /\ fsd' = g
            /\ lost' = (IF g = fsd THEN lost ELSE 0)
            /\ UNCHANGED opened
  /\ UNCHANGED strayed

(***************************************************************************)
(* A verb on a handle.  session_slot finds the slot: a handle of an        *)
(* earlier file server is forgotten, one of another user refused.  What    *)
(* passes is sent on, and NP_CLUNK frees the slot unless the file server   *)
(* refused it as somebody else's.                                          *)
(***************************************************************************)
Stale(h) == h.fsd_gen # fsd_generation
FidOp(c, user, s, verb) ==
  /\ Asks(c, user) /\ conns[c].session /\ conns[c].fids[s].fsd_fid # 0
  /\ LET h == conns[c].fids[s]
     IN  IF Stale(h)
         THEN /\ conns' = [Carried(c) EXCEPT ![c].fids[s] = NONE]
              /\ UNCHANGED <<fsd, opened, strayed, lost>>
         ELSE IF h.opener # user
         THEN conns' = Carried(c) /\ UNCHANGED <<fsd, opened, strayed, lost>>
         ELSE \E f \in Meanwhile(fsd) :
           LET refused == f.fids[h.fsd_fid].owner # "none" /\ ~FsdHolds(f, h.fsd_fid, user)
           IN  /\ conns' = IF verb = "NP_CLUNK" /\ ~refused
                           THEN [Carried(c) EXCEPT ![c].fids[s] = NONE]
                           ELSE Carried(c)
               /\ fsd' = IF verb = "NP_CLUNK" THEN Clunked(f, h.fsd_fid, user) ELSE f
               /\ strayed' = (strayed \/ (FsdHolds(f, h.fsd_fid, user)
                                          /\ f.fids[h.fsd_fid].open # h.open))
               /\ lost' = (IF f = fsd THEN lost ELSE 0)
               /\ UNCHANGED opened

(* A verb on a path is the file server's to answer, in that user's name, and
   leaves nothing behind in netd. *)
PathVerb(c, user) ==
  /\ Asks(c, user)
  /\ conns' = Carried(c)
  /\ fsd' \in Meanwhile(fsd)
  /\ lost' = (IF fsd' = fsd THEN lost ELSE 0)
  /\ UNCHANGED <<opened, strayed>>

(* Programs of this machine take and give back fids of the same table. *)
LocalOpen ==
  /\ FsdFreeFids(fsd) # {}
  /\ fsd' = FsdOpened(fsd, Min(FsdFreeFids(fsd)), "local", Nobody, 0)
  /\ UNCHANGED <<conns, opened, strayed, lost>>
LocalClunk(n) ==
  /\ fsd.fids[n].owner = "local"
  /\ fsd' = [fsd EXCEPT !.fids[n] = FsdFree]
  /\ UNCHANGED <<conns, opened, strayed, lost>>

FsdRestarts ==
  /\ fsd.gen < MaxGen
  /\ fsd' = Restarted(fsd)
  /\ lost' = 0
  /\ UNCHANGED <<conns, opened, strayed>>

Next ==
  \/ \E c \in Conns :
       \/ Accept(c) \/ Gone(c) \/ verify_keyed_fails(c) \/ deny_9p(c)
       \/ \E user \in Users :
            \/ \E b \in {TRUE, FALSE} : Session(c, user, b) \/ handle_cpu_run(c, user, b)
            \/ NP_OPEN(c, user) \/ PathVerb(c, user)
            \/ \E s \in 1..SESSION_FIDS, verb \in {"NP_PREAD", "NP_CLUNK"} :
                 FidOp(c, user, s, verb)
  \/ LocalOpen
  \/ \E n \in FsdFids : LocalClunk(n)
  \/ FsdRestarts

Spec == Init /\ [][Next]_vars

-----------------------------------------------------------------------------
Handle(p) == conns[p[1]].fids[p[2]]
Handles == {p \in Conns \X (1..SESSION_FIDS) :
              conns[p[1]].open /\ Handle(p).fsd_fid # 0 /\ Handle(p).fsd_gen = fsd.gen}

(* A session's handle of the running file server is the very open it made:
   no call on it ever reached another, and no two handles share one, whatever
   restarts came between or in the middle of a request.  A fid of the file
   server that netd holds is named by some session, except the one opened
   across a restart: the comment at NP_OPEN accepts that one leak and no
   other.  And sessions leave a connection for one-shot requests. *)
FidsAreTheirs ==
  /\ ~strayed
  /\ \A p \in Handles :
       /\ fsd.fids[Handle(p).fsd_fid] =
            [owner |-> "netd", uid |-> Handle(p).opener, open |-> Handle(p).open]
       /\ \A q \in Handles : Handle(p).fsd_fid = Handle(q).fsd_fid => p = q
  /\ Cardinality({n \in FsdFids : fsd.fids[n].owner = "netd"})
       <= Cardinality(Handles) + lost
  /\ sessions <= SESSION_MAX
=============================================================================
