------------------------ MODULE MCInviteRegistration ------------------------
(* Instances of InviteRegistration for TLC. *)
EXTENDS InviteRegistration, TLC

Symmetry == Permutations(Emails) \cup Permutations(Invites)
            \cup Permutations(Sessions) \cup Permutations(Requests)
============================================================================
