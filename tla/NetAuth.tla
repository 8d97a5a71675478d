------------------------------- MODULE NetAuth -------------------------------
(***************************************************************************)
(* Whom netd serves.  At start it reads three files through the file       *)
(* server, which may not be up yet: /NOEXEC, the machine's own key and the *)
(* authorized peers, with one budget of retries for all three.  From then  *)
(* on a request is served for the local user its signer names, or refused. *)
(***************************************************************************)
EXTENDS Integers

CONSTANTS Peers,     \* the keys other machines sign with
          Names,     \* the names they claim to act for; "root" is uid 0's
          Budget     \* retries, over the three files together

VARIABLES
  disk,      \* what the files say
  step,      \* the file to read next, or "serving"
  budget,
  auth,      \* what netd made of them
  served     \* the request followed: its frame, the account scan, the verdict

vars == <<disk, step, budget, auth, served>>

Frames == [magic : {"signed", "other"}, key : Peers, verifies : {TRUE, FALSE}, name : Names,
           verb : {"run", "file"}]
Scans == {"Found", "NotFound", "Unreadable", "NoDatabase"}
NoFrame == [magic |-> "none", key |-> "none", verifies |-> FALSE, name |-> "none", verb |-> "none"]

Init ==
  /\ disk \in [noexec : {TRUE, FALSE}, id : {"absent", "empty", "junk", "key"},
               authorized : [Peers -> {"absent", "plain", "root"}]]
  /\ step = "noexec" /\ budget = Budget
  /\ auth = [noexec |-> FALSE, signing |-> FALSE, authorized |-> [p \in Peers |-> "absent"]]
  /\ served = [frame |-> NoFrame, scan |-> "none", verdict |-> "none"]

(* A read that fails for a while (transient_fs_failure) is tried again while
   the budget lasts, and otherwise believed. *)
transient_fs_failure == budget > 0 /\ budget' = budget - 1 /\ UNCHANGED <<disk, step, auth, served>>

(* No more than "there is no such file" lets remote programs run. *)
noexec(read) == read # "not_found"

load_noexec ==
  \E read \in {"failed", IF disk.noexec THEN "there" ELSE "not_found"} :
    IF read = "failed" /\ budget > 0 THEN transient_fs_failure
    ELSE /\ step' = "id"
         /\ auth' = [auth EXCEPT !.noexec = noexec(read)]
         /\ UNCHANGED <<disk, budget, served>>
load_id ==
  \E read \in {"failed", disk.id} :
    IF read = "failed" /\ budget > 0 THEN transient_fs_failure
    ELSE /\ step' = "authorized"
         /\ auth' = [auth EXCEPT !.signing = read = "key"]
         /\ UNCHANGED <<disk, budget, served>>
load_authorized ==
  \E ok \in {TRUE, FALSE} :
    IF ~ok /\ budget > 0 THEN transient_fs_failure
    ELSE /\ step' = "serving"
         /\ auth' = IF ok THEN [auth EXCEPT !.authorized = disk.authorized] ELSE auth
         /\ UNCHANGED <<disk, budget, served>>

load_auth ==
  \/ step = "noexec" /\ load_noexec
  \/ step = "id" /\ load_id
  \/ step = "authorized" /\ load_authorized

-----------------------------------------------------------------------------
accepts_signed == auth.signing /\ \E p \in Peers : auth.authorized[p] # "absent"
find_by_key(p) == auth.authorized[p] # "absent"
authenticate_signed(f) == find_by_key(f.key) /\ f.verifies
authenticate(f) == f.magic = "signed" /\ accepts_signed /\ authenticate_signed(f)

(* Root, by uid or by gid, is served only to a peer trusted with it. *)
RootSquash(f) == f.name = "root" /\ auth.authorized[f.key] # "root"
map_user(f, scan) ==
  CASE scan # "Found" -> scan
    [] scan = "Found" /\ RootSquash(f) -> "RootSquash"
    [] OTHER -> "ok"

Verdict(f, scan) ==
  IF ~authenticate(f) THEN "denied"
  ELSE IF map_user(f, scan) # "ok" THEN map_user(f, scan)
  ELSE IF f.verb = "run" /\ auth.noexec THEN "noexec"
  ELSE "ok"

Serve ==
  /\ step = "serving" /\ served.verdict = "none"
  /\ \E f \in Frames, scan \in Scans :
       served' = [frame |-> f, scan |-> scan, verdict |-> Verdict(f, scan)]
  /\ UNCHANGED <<disk, step, budget, auth>>

Next == load_auth \/ Serve
Spec == Init /\ [][Next]_vars

(* Every failure closes: a program runs for a peer only on a machine without
   /NOEXEC, a request is served only to a peer listed there whose signature
   verifies, as an account that exists, and as root only where the peer's
   line says so, whichever reads failed and however often. *)
FailsClosed ==
  served.verdict = "ok" =>
    /\ served.frame.verb = "run" => ~disk.noexec
    /\ disk.id = "key"
    /\ disk.authorized[served.frame.key] # "absent"
    /\ served.frame.verifies
    /\ served.scan = "Found"
    /\ served.frame.name = "root" => disk.authorized[served.frame.key] = "root"
=============================================================================
