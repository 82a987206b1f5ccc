-------------------------- MODULE MCStateMigration --------------------------
(* Small instances of StateMigration. *)
EXTENDS StateMigration, TLC

\* Messages are told apart by their identities alone, and so are workspaces and, where
\* all are conversations of rounds, threads.
Symmetry == Permutations(MessageIds) \cup Permutations(Workspaces) \cup Permutations(Threads)
=============================================================================
