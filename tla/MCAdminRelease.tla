---------------------------- MODULE MCAdminRelease ----------------------------
(* Administrators and releases on a small instance. *)
EXTENDS AdminRelease, TLC

Symmetry ==
    Permutations(Factors) \cup Permutations(KeyVersions)
    \cup Permutations(Servers) \cup Permutations(Requests)

Busy == {q \in Requests : ~At(q, "idle")}

Live == {n \in Servers : Up(n) \/ boot[n] # Down}

KeysInUse ==
    StoredKeys \cup ({script} \ {None}) \cup UNION {k.keys : k \in Deployed \cup Checked}

\* An instance starts beside the one that serves, two keys are in use or were without
\* overlapping, or a release is checked.
Releasing ==
    \/ Cardinality(Live) > 1 \/ Cardinality(KeysInUse) > 1 \/ ~shared
    \/ gate # NoGate

\* Bound on what is combined: a second request, the clock and a second change of the
\* user's version each meet the rest of the system, but no release; a release check
\* meets one instance at a time, of keyrings that have overlapped so far; the
\* preflight and the rehearsals, which read nothing of the database here, run
\* before anything of it has started.
Combined ==
    /\ Releasing => Cardinality(Busy) < 2 /\ now = 0 /\ user.version < 2
    /\ Cardinality(Busy) > 1 =>
          /\ user.version < 2 /\ script = None
          /\ \A n \in Servers : boot[n] = Down
    /\ gate # NoGate => shared /\ Cardinality(Live) < 2
    /\ gate.mode \notin {"none", "live"} =>
          /\ Live = {}
          /\ \A f \in Factors : factor[f] = NoFactor
          /\ \A s \in Sessions : cookie[s] = None
===============================================================================
