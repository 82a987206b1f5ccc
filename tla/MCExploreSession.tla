--------------------------- MODULE MCExploreSession ---------------------------
(* Small instances of ExploreSession: one process, or two of one workspace. *)
EXTENDS ExploreSession

\* Processes are told apart by their identities alone.
ProcessSymmetry == Permutations(Processes)
=============================================================================
