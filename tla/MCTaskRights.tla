---------------------------- MODULE MCTaskRights ----------------------------
(* Slots: 0 boot shell, 1 idle, 2 console, 3 network, then programs.       *)
EXTENDS TaskRights

ServerSendsMC == [s \in Servers |-> IF s = CON_TASK THEN {} ELSE {CON_TASK}]
============================================================================
