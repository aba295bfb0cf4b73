-------------------------- MODULE MCPostgresHistory --------------------------
(* Small instances of PostgresHistory.                                     *)
EXTENDS PostgresHistory, TLC

(* Clients, exchanges and dialogs are interchangeable.                     *)
Symmetry ==
  Permutations(Clients) \cup Permutations(Dialogs) \cup Permutations(Exchanges)
=============================================================================
