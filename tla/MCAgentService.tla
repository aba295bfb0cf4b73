--------------------------- MODULE MCAgentService ----------------------------
(* Small instances of AgentService for TLC.                                *)
EXTENDS AgentService, TLC

(* Requests and dialogs are interchangeable: tickets, not names, order the *)
(* tasks.  Used by the runs without temporal properties.                   *)
Symmetry == Permutations(Runs) \cup Permutations(Dialogs)
=============================================================================
