-------------------------- MODULE MCAccountLinking --------------------------
(* Instances of AccountLinking for TLC. *)
EXTENDS AccountLinking, TLC

Symmetry == Permutations(Providers) \cup Permutations(Subjects)
            \cup Permutations(Intents) \cup Permutations(Sessions)
            \cup Permutations(Requests)
============================================================================
