----------------------- MODULE MCThreadServiceHistory -----------------------
(* Small instances of ThreadServiceHistory: one pane, one thread or two. *)
EXTENDS ThreadServiceHistory, TLC

\* Messages are told apart by their identities alone.
MessageSymmetry == Permutations(MessageIds)
=============================================================================
