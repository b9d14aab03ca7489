--------------------------- MODULE MCOutboxEmail ---------------------------
(* Instances of OutboxEmail for TLC. *)
EXTENDS OutboxEmail, TLC

Symmetry == Permutations(Workers)
============================================================================
