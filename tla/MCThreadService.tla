--------------------------- MODULE MCThreadService ---------------------------
(***************************************************************************)
(* Small instances of ThreadService: this tab alone with two panes, and    *)
(* this tab and another one that share the conversation of an Explore      *)
(* round.                                                                  *)
(***************************************************************************)
EXTENDS ThreadService, TLC

\* Messages are told apart by their identities alone, and so are panes.
Symmetry == Permutations(MessageIds) \cup Permutations(Panes)
=============================================================================
