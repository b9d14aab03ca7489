--------------------------- MODULE MCUserAccount ---------------------------
(* Instances of UserAccount for TLC. *)
EXTENDS UserAccount, TLC

Symmetry == Permutations(Codes) \cup Permutations(Links)
            \cup Permutations(Passwords) \cup Permutations(Sessions)
            \cup Permutations(Requests)
============================================================================
