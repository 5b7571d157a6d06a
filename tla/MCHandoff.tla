------------------------------- MODULE MCHandoff -------------------------------
(* Two requests, two recipes, two tokens: a second mint collides. *)
EXTENDS Handoff, TLC

MCAlike == Permutations(Handlers) \cup Permutations(Recipes) \cup Permutations(Tokens)
=============================================================================
