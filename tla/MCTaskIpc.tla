----------------------------- MODULE MCTaskIpc -----------------------------
(* Slots: 0 boot shell, 1 idle, 2 a server, 3 and 4 spawned programs.      *)
EXTENDS TaskIpc

\* The rights these tasks use: the shell and both programs call the server,
\* the shell talks to the first program and the first program pipes to the
\* second (a DELEGATE link).
MCSendRights ==
  [s \in 0 .. 4 |-> CASE s = 0 -> {2, 3}
                      [] s = 3 -> {2, 4}
                      [] s = 4 -> {2}
                      [] OTHER -> {}]
============================================================================
