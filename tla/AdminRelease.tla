----------------------------- MODULE AdminRelease -----------------------------
(* The release of the application around AdminMfa: the checks that gate a      *)
(* release (Vercel preflight, migration readiness in its three modes), and the *)
(* start of instances, which fails closed when a stored factor could not be    *)
(* read.  Every instance and every command has the keyring of its own          *)
(* environment; nothing in the code or the deployment guide relates one to     *)
(* another.  Administrators go on enrolling while a release is checked and     *)
(* rolled out.                                                                 *)
EXTENDS AdminMfa, Sequences

VARIABLES
  boot,     \* [server -> the keyring its startup gate has passed with]
  gate,     \* the release check in progress, how far it has come, and the
            \* keyring in the environment that it looks at
  shared    \* whether every key written with was readable wherever factors
            \* are read, in all states so far (history)

releaseVars == <<boot, gate>>
allVars ==
    <<user, factor, now, cookie, request, script, ring, proof, boot, gate, shared>>

\* runReleasePreflightCli: every name its own environment must carry.
CommandEnvironment == <<"command environment">>

\* parseInput: a strict object of known fields, with the deployment to look at.
InputChecks == <<"input", "subject">>

\* fetchJson and parseRemote: Vercel is reached, lets the token in, answers with
\* success and in JSON, in the form expected.
VercelAnswer == <<"reached", "authorized", "success", "json", "form">>

\* What the release contract fixes of the Vercel project.
ContractFields == <<"name", "framework", "install command", "build command">>

\* assertProject: the project named on the command line, as the contract has it.
ProjectChecks == <<"project id">> \o ContractFields

\* assertProvenance: where the commit of the deployment comes from.
ProvenanceChecks == <<"provider", "source form", "repository", "branch", "sha">>

\* runReleasePreflight: a call to Vercel for the project, its environment and the
\* deployment, each looked at before the next.
PreflightChecks ==
    CommandEnvironment \o InputChecks
    \o VercelAnswer \o ProjectChecks
    \o VercelAnswer \o <<"environment">>
    \o VercelAnswer \o <<"deployment id", "its project">> \o ProvenanceChecks

\* runMigrationReadiness against the live database.
LiveChecks == <<"repository", "schema", "status", "admins", "keys">>

\* verifySchemaParity: the history and the database against the schema.
SchemaParity == <<"history", "database">>

\* verifyMigrationChecksums: what is committed against what was applied.
MigrationChecksums == <<"committed", "applied">>

\* The rows that must come through the down and up migrations.
Preservation == <<"fixture", "down and up", "preserved">>

\* runCiReadiness, on a disposable database that has neither users nor factors.
RehearsalChecks ==
    <<"schema", "empty", "deploy", "status">> \o SchemaParity \o MigrationChecksums
    \o <<"no admins", "no factors">> \o Preservation \o SchemaParity \o <<"status">>

CiChecks == <<"repository">> \o RehearsalChecks

\* A schema rollback must show first that the application was rolled back.
RollbackChecks == <<"repository", "evidence">> \o RehearsalChecks

Modes == {"preflight", "live", "ci", "schema-rollback"}

Checks(mode) ==
    CASE mode = "preflight" -> PreflightChecks
      [] mode = "live" -> LiveChecks
      [] mode = "ci" -> CiChecks
      [] mode = "schema-rollback" -> RollbackChecks

NoGate == [mode |-> "none", passed |-> 0, env |-> Down]

StoredKeys == {factor[f].key : f \in {g \in Factors : factor[g].status # "UNUSED"}}

\* Mutant: administrators who are exempted do not hold the release up.
AdminsReady_Exempted ==
    user.role = "ADMIN" => user.exempt \/ (user.enrolled /\ InStatus("ACTIVE") # {})

\* The release's SQL: no administrator without MFA, and no exemption left.
AdminsReady ==
    /\ user.role = "ADMIN" => user.enrolled /\ InStatus("ACTIVE") # {}
    /\ ~user.exempt

\* Mutant: only the factors in force are looked at.
KeysReady_ActiveOnly(keys) ==
    {factor[f].key : f \in InStatus("ACTIVE")} \subseteq keys

\* validateStoredAdminMfaKeyVersions: every stored row, whatever its status.
KeysReady(keys) == StoredKeys \subseteq keys

\* env: production requires both names, and the version to be in the keyring.
Configured == {k \in Keyring : k.write \in k.keys}

\* Both names of the keyring are among the keys the release contract requires.
RequiredNames(k) == k.keys # {} /\ k.write # None

\* A check that looks at what is modelled here; any other may pass or fail.
Holds(check) ==
    CASE check = "admins" -> AdminsReady
      [] check = "keys" -> KeysReady(gate.env.keys)
      [] check = "environment" -> RequiredNames(gate.env)
      [] OTHER -> TRUE

ReleaseInit ==
    /\ Init
    /\ boot = [n \in Servers |-> Down]
    /\ gate = NoGate
    /\ shared = TRUE

-------------------------------------------------------------------------------
(* The gates *)

Passed(mode) == gate.mode = mode /\ gate.passed = Len(Checks(mode))

Running == gate # NoGate /\ ~Passed(gate.mode)

\* parseFlags: what may be given beside the mode and the database, each flag once.
OptionalFlags == {"shadow", "evidence"}

\* What the command line says: the operator confirmed the database's name; it and the
\* shadow are loopback addresses, with distinct disposable names and nothing after
\* them; evidence counts when it is of this run, this database and another release.
Targets == [given: SUBSET OptionalFlags, confirmed: BOOLEAN, disposable: BOOLEAN]

\* The preflight has no command line.
NoTarget == [given |-> {}, confirmed |-> FALSE, disposable |-> FALSE]

\* parseMigrationReadinessInput: the target is the one that was confirmed; the
\* rehearsals, which drop tables, get disposable databases, and the rollback its
\* evidence.
RightTarget(mode, target) ==
    \/ mode = "preflight" /\ target = NoTarget
    \/ /\ mode # "preflight" /\ target.confirmed
       /\ mode # "live" => "shadow" \in target.given /\ target.disposable
       /\ mode = "schema-rollback" => "evidence" \in target.given

\* The modes some command line starts; nothing more of it is remembered.
Startable == {mode \in Modes : \E target \in Targets : RightTarget(mode, target)}

\* What a mode looks at in its environment: whether both names are there, the keys,
\* nothing.
Environments(mode) ==
    CASE mode = "preflight" -> {Down} \cup Configured
      [] mode = "live" -> {k \in Keyring : k.write = None}
      [] OTHER -> {Down}

StartGate(mode, env) ==
    /\ ~Running
    /\ gate' = [mode |-> mode, passed |-> 0, env |-> env]
    /\ UNCHANGED <<vars, boot>>

PassCheck ==
    /\ Running
    /\ Holds(Checks(gate.mode)[gate.passed + 1])
    /\ gate' = [gate EXCEPT !.passed = @ + 1]
    /\ UNCHANGED <<vars, boot>>

\* The first check that fails ends the command.
FailCheck ==
    /\ Running
    /\ gate' = NoGate
    /\ UNCHANGED <<vars, boot>>

-------------------------------------------------------------------------------
(* Instances.  One may start with any environment: that of the newest          *)
(* deployment, or an older one whose instance starts again.                      *)

\* runAdminMfaStartupReadiness, in the Node runtime in production.
StartupGate(k) == KeysReady(k.keys)

\* The instance reads the stored keys before it serves anyone; others go on
\* storing meanwhile.
PassStartup(n, k) ==
    /\ ring[n] = Down /\ boot[n] = Down
    /\ StartupGate(k)
    /\ boot' = [boot EXCEPT ![n] = k]
    /\ UNCHANGED <<vars, gate>>

BeginServing(n) ==
    /\ boot[n] # Down
    /\ ring' = [ring EXCEPT ![n] = boot[n]]
    /\ boot' = [boot EXCEPT ![n] = Down]
    /\ UNCHANGED <<mfaVars, gate>>

\* An instance ends, and the requests it was serving with it.
StopServer(n) ==
    /\ Up(n) \/ boot[n] # Down
    /\ ring' = [ring EXCEPT ![n] = Down]
    /\ boot' = [boot EXCEPT ![n] = Down]
    /\ request' = [q \in Requests |->
          IF "server" \in DOMAIN request[q] /\ request[q].server = n
          THEN Idle ELSE request[q]]
    /\ UNCHANGED <<user, factor, now, cookie, script, proof, gate>>

-------------------------------------------------------------------------------
(* Overlapping keyrings *)

\* The keyrings of the instances that serve or are about to.
Deployed == ({ring[n] : n \in Servers} \cup {boot[n] : n \in Servers}) \ {Down}

\* The environment the latest live check looks at, or looked at.
Checked == IF gate.mode = "live" THEN {gate.env} ELSE {}

WriteKeys == {k.write : k \in Deployed} \cup ({script} \ {None})

\* Whatever a factor may be written with now can be read by all.
KeysShared == \A k \in Deployed \cup Checked : WriteKeys \subseteq k.keys

ReleaseStep ==
    \/ AdminStep(Configured) /\ UNCHANGED releaseVars
    \/ \E mode \in Startable : \E env \in Environments(mode) : StartGate(mode, env)
    \/ PassCheck \/ FailCheck
    \/ \E n \in Servers, k \in Configured : PassStartup(n, k)
    \/ \E n \in Servers : BeginServing(n) \/ StopServer(n)

Next == ReleaseStep /\ shared' = (shared /\ KeysShared')

Spec == ReleaseInit /\ [][Next]_allVars

-------------------------------------------------------------------------------
(* Properties *)

TypeOK ==
    /\ MfaTypeOK
    /\ boot \in [Servers -> Keyring]
    /\ gate \in [mode: Modes \cup {"none"}, passed: Nat, env: Keyring]
    /\ shared \in BOOLEAN

\* While the keyrings in use overlap - no instance serves or starts, and no live
\* check looks, without the keys that others write with at that time - every
\* instance can read every stored factor, and so can the environment that a
\* live check has passed: factors stored long before with a key nobody writes
\* with any more, in every status, those that other instances store between
\* the gate of an instance and its first request, and those stored after the
\* release check has looked.  Nothing makes keyrings overlap: when they do not,
\* one instance stores what the other cannot read, which then refuses the code.
ReadableFactors ==
    shared =>
        /\ \A n \in Servers : Up(n) => StoredKeys \subseteq ring[n].keys
        /\ Passed("live") => StoredKeys \subseteq gate.env.keys

\* What the live check found of the administrators stays true, however they
\* enrol, replace and bootstrap while the release goes on.
ReadinessStaysTrue ==
    Passed("live") =>
        /\ ~user.exempt
        /\ user.role = "ADMIN" => user.enrolled /\ InStatus("ACTIVE") # {}

===============================================================================
