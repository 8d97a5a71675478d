----------------------------- MODULE SyncCall ------------------------------
(***************************************************************************)
(* What MSG_CALL promises a caller, whatever its server does: a task has   *)
(* at most one call in progress; the call ends once, with the answer made  *)
(* for it or with none; and no answer arrives outside a call.  How a       *)
(* request travels, waits and is taken is TaskIpc's, which implements      *)
(* this specification.                                                     *)
(***************************************************************************)
EXTENDS Naturals

CONSTANT Tasks

VARIABLES
  issued,    \* how many call numbers have been given out
  pending,   \* the call each task is in, 0 if none
  got        \* the call whose answer each task holds, 0 if none

vars == <<issued, pending, got>>

Init ==
  /\ issued = 0
  /\ pending = [t \in Tasks |-> 0]
  /\ got = [t \in Tasks |-> 0]

\* A fresh number; the answer to the last call is gone.
Call(t) ==
  /\ pending[t] = 0
  /\ issued' = issued + 1
  /\ pending' = [pending EXCEPT ![t] = issued + 1]
  /\ got' = [got EXCEPT ![t] = 0]

\* The call could not be delivered: only its number is spent.
Refused ==
  /\ issued' = issued + 1
  /\ UNCHANGED <<pending, got>>

Answered(t) ==
  /\ pending[t] # 0
  /\ got' = [got EXCEPT ![t] = pending[t]]
  /\ pending' = [pending EXCEPT ![t] = 0]
  /\ UNCHANGED issued

\* The calls of `failed` end with no answer: their server died, or the wait
\* was interrupted.  The tasks in `gone` died; what they held goes with them.
Ended(failed, gone) ==
  /\ pending' = [t \in Tasks |-> IF t \in failed \union gone THEN 0 ELSE pending[t]]
  /\ got' = [t \in Tasks |-> IF t \in gone THEN 0 ELSE got[t]]
  /\ \A t \in failed : pending[t] # 0
  /\ UNCHANGED issued

Next ==
  \/ \E t \in Tasks : Call(t) \/ Answered(t)
  \/ Refused
  \/ \E failed, gone \in SUBSET Tasks : Ended(failed, gone)

Spec == Init /\ [][Next]_vars
============================================================================
