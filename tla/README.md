# TLA+ models of the invite-gated authentication service

This directory holds the formal models of the repository's authentication
backend (`src/features/auth/server`, with the account actions, the OAuth routes and
the release checks around it): TLA+ modules translated from the
TypeScript source, TLC configurations that check them on small instances, and
TLAPS proofs for every value of the constants. `PROJECT.json` ties each
definition to the source lines it stands for.

Paths below are relative to the repository; `auth/` abbreviates
`src/features/auth/server/`.

## The system

A Next.js application on serverless functions over one Postgres database. There
is no long-lived process: every operation is a request that makes a few
database calls, and all coordination is done by transactions, conditional
updates (`updateMany ... where`), unique indexes, leases and version counters.

| component | state it keeps | operations | hard behaviour |
|---|---|---|---|
| email outbox (`auth/outbox`) | `outbox_emails` rows: status, attempts, claim token, lease, back-off, encrypted invite token | claim, deliver, finalize, fail; the daily cron publishes or delivers due rows | several invocations on one row, leases, crashes, at-least-once messages, lost answers, aborts |
| invites (`auth/invites`, `auth/adminInvites`) | `invites`: status, bound email, expiry, redeemer | issue, resend, revoke, look up, redeem, record reuse | admins, invitees and the clock interleave |
| registration (`auth/registration`) | `registration_sessions`, `users` | exchange a token for a session; register: one transaction over four tables | stale reads, two requests on a session or an invite, partial failure |
| session cleanup (`auth/outbox/maintenance.ts`) | – | batched delete of expired and consumed sessions | races registration, bounded batches |
| email verification (`auth/verify`) | `verification_tokens`, user status | mail, resend, consume with at most 5 attempts | codes replaced under a pending attempt; a miss is counted in three statements outside the transaction |
| password reset (`auth/reset`) | `password_reset_tokens` | request (two statements), consume (read, then a transaction) | two requests on a link or an email |
| sign-in and sessions (`auth/options.ts`) | JWTs, `users.sessionVersion` | authorize, issue, revalidate | the row is read twice; sessions of before a password change |
| account settings (`features/account`) | `users`, `profiles`, `accounts` | change the password, edit, disconnect, delete | comparison and write are apart |
| account linking (`auth/linking`, `auth/social`) | `account_link_intents`, `accounts` | start, callback, social sign-in | claim, provider call, collision read and commit interleave |
| admin MFA and elevation (`auth/adminMfa`, `auth/adminElevation`, the bootstrap script) | `admin_mfa_factors`, grants, last strong authentication | enroll, verify, refresh, bootstrap | replay of a code, replacement beside a refresh |
| OAuth server (`auth/oauth`, `app/oauth`) | clients, authorization codes, signed tokens | authorize, exchange, userinfo, logout | single use; the form comes back later |
| rate limiting (`lib/rateLimit*.ts`) | buckets of hits | consume one, consume all or none | buckets charged one by one; two implementations |
| release (`release/`, `startup/`, `instrumentation-node.ts`) | the keyrings of instances, the check in progress | preflight, readiness in three modes, startup | administrators and keys move while a release is checked |
| scripts, UI, templates, environment | – | – | see *Not modelled* |

How they interact: an admin issue or resend writes an invite *and* its
`INVITATION_DELIVERY` outbox row in one transaction; the mailed token is
exchanged for a registration session; registering consumes the session, creates
the user, redeems the invite and inserts an `EMAIL_VERIFICATION` outbox row in
one transaction, then publishes the row's id to QStash, ignoring failures;
QStash calls the worker endpoint, which delivers the row and runs the session
cleanup; the cron calls the same endpoint once a day (`vercel.json`).
Delivering a verification row mints a code that activates the user. Everything
that ends sessions does so through one counter: activation, password changes,
links, replacements of a factor and the bootstrap increment `users.sessionVersion`, and
every session is compared with it when it is used. An administrator's factors are
encrypted with a keyring that each instance reads at its start, where it fails
closed if a stored factor could not be read; the release checks look at the same rows
before.

What makes each part correct: a row settles once, is not lost, and is sent only
if an email went out; tokens are erased when no longer needed; an invite is
used once and registers exactly one user; failed registrations leave nothing
behind; sessions are erased; a code, reset token, authorization code or link
intent is consumed once; a stale session or elevation has no effect.
`PROJECT.json` lists the hazards at their lines.

## Modules

| module | role |
|---|---|
| `OutboxPromise` | abstract outbox: per row open, accept, settle, fail; no workers, leases or messages |
| `OutboxEmail` | the outbox as coded |
| `MCOutboxEmail` | symmetry for its runs |
| `OutboxEmailProofs` | its inductive invariant, safety theorems and the refinement of `OutboxPromise` |
| `InviteRegistration` | invites, exchange, registration, account deletion, cleanup |
| `MCInviteRegistration` | symmetry for its runs |
| `InviteRegistrationProofs` | its inductive invariant and safety theorems |
| `UserAccount` | one user: verification codes, sign-in, sessions, reset, change, deletion |
| `MCUserAccount`, `UserAccountProofs` | symmetry; inductive invariants and safety theorems |
| `AccountLinking` | linking, social sign-in, disconnection |
| `MCAccountLinking`, `AccountLinkingProofs` | symmetry; inductive invariant and safety theorems |
| `RateLimit` | the limiter's algorithms as operators on buckets; the address and the checks a request is counted by |
| `RateLimitProofs` | the loops in closed form; agreement of the limiter's forms |
| `OAuthPromise` | abstract authorization server: a code stands for one consent and is answered once |
| `OAuthServer` | the authorization server as coded, on the buckets of `RateLimit` |
| `MCOAuthServer`, `OAuthServerProofs` | instance; inductive invariant, safety theorems and the refinement of `OAuthPromise` |
| `AdminMfa` | factors, codes, elevation, bootstrap |
| `AdminRelease` | extends `AdminMfa` with keyrings, instances and release checks; its `Next` composes both |
| `MCAdminRelease`, `AdminReleaseProofs` | instance; inductive invariant and safety theorems |

`RateLimit` is checked inside the system that fills the buckets (`OAuthServer`
extends it) and `AdminMfa` inside the releases that move its keys (`AdminRelease`
extends it); neither has a run of its own.

Operators with a `_` suffix (`Owns_NoFence`, ...) are mutated forms of the
definition that follows them; no specification uses them. They record what
each property would catch.

### OutboxEmail

One step per database call or provider event. A worker's record is what an
invocation of `processOutboxEmailMessage` keeps between calls: its row, the
`attempts` it read when claiming (`snap`), and what is left of the lease it took.
A claim token is fresh per claim and an invocation claims one row, so the
invocation stands for its token.

| action | code |
|---|---|
| `Create` | the creating transactions and the publish that follows a registration |
| `Receive`, `Claim` | `POST`, `claimDueOutboxEmail` (one transaction, `SKIP LOCKED`) |
| `MintCode`, `CheckInvite` | first half of `deliverVerificationEmail` / `deliverInvitationEmail` |
| `ProviderAccepts`, `AnswerLost`, `DeliveryFails` | `withProviderTimeout` and the ways it ends |
| `FinalizeSent`, `RecordFailure` | `finalizeOutboxEmailSent`, `recordOutboxEmailFailure` |
| `CronFind`, `CronPublish`, `CronPublishDeduplicated`, `CronFallback`, `CronDeadline`, `AbortExit`, `CronDone` | `drainDueOutboxEmails`, `deliverOutboxRowWithFallback` |
| `Crash`, `CronCrash`, `Refuse`, `InviteDies`, `Tick` | the platform, QStash, other requests, the clock |

Time is relative: leases and back-offs count down with `Tick`. `Deadlines`,
`Crashes` and `Prompt` switch parts of the environment. `Prompt` says that a
delivery ends before its lease does. The code supports it only by its numbers (a
provider timeout of 10 s, a drain deadline of 20 s, a lease of 5 min): a frozen
invocation would break it. Without `Prompt`, `OneWorkerPerRow` and
`SentCodeUsable` are false, since a late worker may mint a code over the mailed
one; both properties therefore assume it, while lease exclusion, erasure and
the refinement do not. `SentCodeUsable` is about the outbox's own codes: a user
who asks for another code through `auth/verify/resend.ts` replaces it, which is in
`UserAccount`, where a delivery is the one step `MailCode`.

QStash may duplicate, lose or deduplicate a message; at most `MaxMessages` are in
flight per row.

### InviteRegistration

Requests are records of what they remember between calls; transactions are
single steps. For the admin operations the code asks for `Serializable`. The
registration transaction runs at the default level, but each of its writes is
conditional (`where status = ...`) or guarded by a unique index and holds its
lock to the end, so it takes effect as one step; its outcomes are
`RegisterCommits`, `RegisterDetectsReuse` and `RegisterDenied`, in the order of
the code's writes. `ReadSession` fixes the clock reading the transaction compares
expiry with, as the code does. A user is its normalized email. `Unbound` allows
`createInvite` with a null email, which the library exports and no endpoint
calls. Account deletion is included because the invite's foreign key (`ON DELETE
RESTRICT`) is what keeps a redeemer in place.

Left out: CSRF, Turnstile, rate limits, deadlines and timing padding, all of which
end a request early (`GiveUp`); the admins' elevation check, which is in `AdminMfa`
(`adminInviteService` and `trustedCreateUser` make it inside these Serializable transactions,
so a change that overtakes it counts as coming after the mutation); audit rows other
than the reuse evidence.

### UserAccount

One user's rows, any number of requests. A request is a record of what it
remembers between its statements, so that a second one may run between any two. A
transaction that holds the user's row lock after its first conditional update is
one step from there on.

| action | code |
|---|---|
| `MailCode`, `ResendCheck`, `ResendIssue`, `CodeAges` | `deliverVerificationEmail`'s code, `resendVerificationToken`, the 2 and 10 minutes |
| `VerifyMatch`, `VerifyActivate`, `VerifySession` | `consumeVerificationToken`: reads and writes of its transaction; the route's session |
| `VerifyMiss`, `MissRead`, `MissCount`, `MissPurge` | a wrong code, counted after the transaction |
| `Authorize`, `IssueJwt`, `LiveSession` | `authorize`, the `jwt` callback at sign-in and at every use |
| `RequestReset`, `ClearLinks`, `CreateLink`, `LinkExpires` | `requestPasswordReset`, `createPasswordResetToken` |
| `ReadLink`, `ResetPassword` | `consumePasswordResetToken` |
| `StartSettings`, `ComparePassword`, `ChangePassword`, `UpdateProfile`, `CompleteOnboarding`, `DeleteAccount` | the account actions |
| `Die` | a process that ends, a statement that fails |

`guesses` and `lost` are history: wrong codes compared with the present code, and
requests that died. `GuessesBounded` states what the miss path really gives:
requests that compare at the same time all get their guess, so that a code meets up to
`MaxAttempts - 1` wrong guesses plus one for each concurrent or lost request. That is
more than `docs/SECURITY.md:39` promises, which is `FailedAttemptsLimited` (finding 3).
A user from before registration by invites (`LegacyUser`) is ACTIVE, as the migration
leaves it; seeding an existing user a second time (`bootstrapCreateActiveUser`, development
only) is left out. `ResetEndsEveryLink` is about the transaction of a reset; two
requests for a link may well leave two links alive before it. The model also reaches an
old password overwriting a reset (`ChangePassword` writes on no condition); no
document promises otherwise, and the hazard is listed without a property.

### AccountLinking

| action | code |
|---|---|
| `PasswordSignIn`, `SignInAges`, `PasswordChanged` | sessions and their age, as `UserAccount` has them in detail |
| `SocialGate`, `SocialSignIn` | `auth/social` and the adapter behind it |
| `StartLink`, `CheckUser`, `CheckUnlinked`, `RevokeIntents`, `CreateIntent`, `BuildUrl`, `IntentExpires` | `startLink`, `createAccountLinkIntent`, `revokeFailedIntent` |
| `StartCallback`, `ReadIntent`, `ClaimIntent`, `ExchangeCode`, `CheckCollision`, `CommitLink`, `AnswerCallback` | `handleLinkCallback`, `completeAccountLink`, the rotated cookie |
| `StartDisconnect`, `GuardLockout`, `DeleteProvider` | `disconnectProvider` |

Other users matter only through the unique key (provider, subject): whether one of them
holds a subject is chosen where the code asks. `OneAccountPerProvider` is not a
key of the database: it holds because a link moves the `sessionVersion` that every
other intent was started under. Revoking the open intents of a provider and
inserting the new one are two statements of a READ COMMITTED transaction; `RevokeIntents`
remembers what it has revoked and the two take effect with `CreateIntent`, so that two
starts may leave two open intents of one provider.

### RateLimit and OAuthServer

`RateLimit` gives the algorithms on a bucket, which is a pair of counts: its hits inside the
window (`live`), and those that have run out of it and are still stored (`gone`). The code
asks nothing else of its timestamps, since they only ever leave the window.
`MemoryLimit` and `RateLimitAnswers` (`rateLimit` with and without Redis) charge one
bucket, `ConsumeInOrder` several one after the other, `AtomicMemoryLimit` and
`AtomicRedisLimit` (the two forms of `rateLimitAll`) all or none. `GetClientIp` picks the
address by the headers the host trusts (`Host`), `AdmissionChecks` the buckets of an
admission surface. The Upstash library behind `rateLimit` is external: it may take or
refuse any call (`Upstash`); the script behind `rateLimitAll` is the repository's own.
`LimitersAgree` compares the forms on the hits the token endpoint leaves, as they are and
after all of them have run out, for every list of distinct checks.

| action | code |
|---|---|
| `CreateOAuthClient`, `SeedLsaClient`, `UpdateRedirectUris`, `SetClientActive`, `SetUserStatus` | the registry, the two scripts, operators, deletion by cascade |
| `SignIn`, `ShowConsent`, `SubmitConsent`, `CreateCode`, `LegacyCode`, `CodeExpires` | the authorize page and action, `createAuthorizationCode` |
| `TokenIpLimit`, `TokenClientLimit`, `Tick` | the two limits of `/oauth/token`; requests without an address share the bucket `Unknown` |
| `ReadCode`, `CheckGrant`, `ClaimCode`, `IssueTokens` | `exchangeAuthorizationCode` |
| `VerifyAccessToken`, `AnswerUserInfo`, `Logout`, `Drop` | userinfo, logout, refusals and crashes |

Hashes, signatures and S256 are compared by what they were made from: a challenge is
named by its verifier. `Promise` maps a code to the consent its row records;
expiry, the claim and every refusal are stutters. A crash after `ClaimCode`
leaves a spent code without tokens, which both allow.

### AdminMfa and AdminRelease

| action | code |
|---|---|
| `StartEnroll`, `AuthorizeEnroll`, `ProveActor`, `LookForActive`, `EnrollFactor` | the enrolment route and `enrollAdminMfaFactor` |
| `StartAssertion`, `AuthorizeAssertion`, `ReadFactor`, `ClaimStep` | the verify and refresh routes, `verifyAdminMfaFactor` |
| `CheckBootstrap`, `PrepareBootstrap`, `ActivateBootstrap` | `scripts/admin-mfa-bootstrap.ts` |
| `SignIn`, `PasswordChanged`, `Tick`, `Deny` | sessions, the clock in TOTP steps, refusals and failures |
| `StartGate`, `PassCheck`, `FailCheck` | the preflight, with its three calls to Vercel, and `runMigrationReadiness`: their input, then their checks in order, stopping at the first that fails |
| `PassStartup`, `BeginServing`, `StopServer` | `runAdminMfaStartupReadiness`, the first request after it, the end of an instance |

Every instance and every run of the bootstrap script has the keyring of its own
environment, any that `lib/env.ts` accepts (`Configured`), and a live check the keys of
the environment it is run in: instances of different
deployments run beside one another, an older one may start again at any time, and others
store factors between an instance's startup gate and its first request. No rule of the
operator is assumed, since neither the code nor `docs/DEPLOYMENT.md` states one. What can be
promised is therefore conditional: `shared` is a history variable that stays TRUE as
long as every key somebody writes with (`WriteKeys`) is in every keyring in use, and
`ReadableFactors` says that so long every serving instance, and the environment a live
check has passed, reads every stored factor, in whatever status and however long ago it
was stored. Keyrings that do not overlap are in the model too; then one instance stores
what another refuses to read, which the startup gate and the release check cannot
see because they look at the rows once.

Assumptions of the model: the rehearsals act on a disposable database, as the command's own input check asks;
the user is ACTIVE throughout, since nothing suspends an administrator. Checks that look at
administrators, stored keys or the environment are modelled by what they ask; any
other may pass or fail; their names only give the order in which a command ends.

## Runs

| run | instance | shows |
|---|---|---|
| `outbox_row` | 1 verification row, 2 invocations, 3 attempts, lease 2, 2 messages; stalls, crashes, deadlines, `FairSpec` | `LeaseExclusion`; the refinement `KeepsPromise`; `PendingIsPickedUp` |
| `outbox_two_rows` | verification and invite row, 2 invocations, `Prompt` | `ErasedExactlyWhenSettled`, `OneWorkerPerRow`, `SentCodeUsable` |
| `outbox_settles` | 2 rows, 1 invocation, no crash or deadline, `Prompt`, `FairSpec` | `EveryRowSettles` |
| `outbox_stuck` | 1 invite row, 1 invocation, deadline | violates `RetryableWork` (finding) |
| `invite_safety` | 2 invites, emails, sessions, requests; unbound invites too | the safety properties |
| `invite_cleanup` | 1 email, 2 invites, 2 sessions, 1 request, `FairSpec`, batch of 1 | `BoundInvitesHideReuse`, `SessionsMoveOn`, `SessionsAreErased` |
| `invite_reuse` | as `invite_safety`, email-bound invites only | violates `ReuseIsDetected` (finding) |
| `account_safety` | 2 codes, links, passwords, requests; 1 browser; 2 attempts, 2 version changes, 1 lost request | six properties of the account |
| `account_guesses` | 2 codes and requests, 2 attempts, no lost request | violates `FailedAttemptsLimited` (finding) |
| `linking_safety` | 2 providers, subjects, intents, requests; 1 browser; 2 version changes | five properties of linking |
| `oauth_safety` | 1 user, client and code, 2 URIs, scopes and requests; buckets of at most 2 live hits, limits of 1; a development host without Redis, no forwarded address | five properties of the server and the limiter; the refinement `KeepsPromise` |
| `admin_release` | 2 factors, keys, servers and requests, 2 TOTP steps, `MaxAge` 0, 2 version changes | six properties of factors, keys and release checks |

Why the bounds are enough. Two invocations are a holder and a challenger, or a
stale worker and the one that took its row over (a third adds no new pair, and the
safety theorems are about any number); three attempts a first, a middle and the last failure; a lease of
two ticks lets it run down while a delivery goes on. Two messages are a
duplicate. `Backoffs` of one tick: only zero or not zero is tested. Two invites
are what a resend or a duplicate issue needs, two sessions and two requests what
a double redemption needs, and two emails let an unbound invite be redeemed for
either. The newer runs keep two requests, which every race listed under the hazards
needs, over what those races fight for: a code and its replacement, a link and
the one a race left beside it, a password and the next; two providers, so that an
intent of the other one is not disturbed, and two intents of one provider, one per
round of a race; two attempts, so that one may be counted and the next spend the code;
two factors, one in force and its replacement; two keys, the old and the new, and two servers, of
which one starts with another keyring while the other serves. Two version changes are a change and another one racing it. One code suffices for single use; with one user, client, code and verifier only
the scopes are left to differ for `TokensFollowConsent` in `oauth_safety`, and
theorem `TokensStayWithin` covers several of each.
`Combined` in `MCOAuthServer` empties the buckets while a consent page is open, which
no handler reads together; in `MCAdminRelease` it lets a second request, a
rollout of two instances and a release check each meet the rest but not one another, and a
check looks on only while the keyrings have overlapped: an instance starts, with either key
or both, while factors are enrolled on the other one or while a check looks, and
enrolment goes on after both have looked (the theorems have no such restriction). The runs of the server leave out the addresses (one bucket more
makes the run several times longer and meets no new code; the theorems are about every
set of addresses, every host, and the limiter with Redis). The safety theorems remove
these bounds; only the liveness runs depend on them. Deadlock is
not checked: rows settle, ids and versions are used up, so all these systems may stop.

Fairness. `OutboxEmail`: an invocation that is not killed goes on; the cron is
called again and again and time passes (weak); a row the drain keeps finding is
eventually handed out and a message that is there again and again is received
at some point (strong: a drain may abort and QStash may lose messages, but not
every time). `Crash`, losses and deadlines are never required.
`EveryRowSettles` needs the absence of crashes and aborts, because of the first
finding, and `Prompt`, because workers that always outlive their leases can chase
each other for ever. `InviteRegistration`: sessions expire, and the cleanup runs
repeatedly, as every worker call and the cron do. The other modules state safety
only and assume no fairness: each of their operations is started by a person who
may stop at any point, and nothing retries on their behalf.

## Findings

1. *A row can be stuck in CLAIMED* (`outbox_stuck`). When the drain's deadline
   aborts a fallback delivery, `processOutboxEmailMessage` returns without
   releasing its claim. Once the lease is over the claim SQL would accept the
   row, but the drain selects `PENDING` rows only and an invite row has no QStash
   message of its own. `docs/build-packets/PACKET-02-gated-registration.md:345`
   expects "retryable outbox work".
2. *Reuse of an email-bound invite raises no signal* (`invite_reuse`). The user is
   created before the invite is redeemed; for a redeemed, bound invite the unique
   email fails first. The same packet, line 45, calls tokens
   "reuse-detectable". Theorem `HiddenReuse` shows that no evidence is ever
   recorded unless unbound invites exist.
3. *A code meets more wrong guesses than it is allowed* (`account_guesses`).
   `consumeVerificationToken` compares the code inside its transaction and counts a miss
   after it, in three statements (`consumeToken.ts:67`). Requests that are compared before
   the others have counted all get their guess: with two requests one more than
   `MaxAttempts`, without any of them dying. `docs/SECURITY.md:39` says "Maximum five failed
   attempts per active token." Theorem `GuessesAreBounded` gives what remains.

Noticed while modelling, without a run, since they are about the browser's page or
about wording rather than about a state: the verification page posts no password
(`useOtpVerificationForm.ts:63`) although the route's schema requires one
(`lib/validation/verify.ts:6`), and it submits a refused code again as long as six
digits stand in the field (`useOtpVerificationForm.ts:155`); a comment of
`app/oauth/token/route.ts` places the limits before any parsing of the body, while the
limit per client follows it.

## Proofs

`tlapm` on each of the seven `*Proofs` modules checks all theorems from the named
assumptions of the modelled module alone (finite bounds, distinct null values).

*Outbox.* The safety properties are not inductive: what a worker may write
depends on whether it still holds the row. `IInv` adds what ties the two
together: only a CLAIMED row has a token or a lease; a busy worker that owns its
row has exactly the row's lease left and read its current attempts, and one that
does not has no lease left; a SENT row and an accepted delivery imply `accepted`;
and, under `Prompt`, a worker about to send holds the database's code.
`ExclusiveLease`, `ErasedWhenSettled`,
`SoleWorker` and `UsableCode` follow from it. `Refinement` maps each action to
a step or a stutter of `OutboxPromise`: `FinalizeSent` needs `accepted`,
`RecordFailure` needs the snapshot to equal the row's attempts.

*Registration.* `IInv` adds to the stated invariants that a PENDING or CONSUMED
session names an existing invite with the session's email, what a request may rely
on when it resumes, and, without unbound invites, that every issued invite has an
email and no request sees the reuse signal. The last part is why evidence stays empty:
a redeemed bound invite's email has a user (`RegistrationIsAtomic`), so the step that
would signal is disabled. `ClosedInvites` and
`SessionsOnlyMoveOn` are action properties from the same invariant. The second is the part
of `SessionsAreErased` that needs no fairness: between the moment a request reads its
session and its transaction the cleanup may erase the row, and nothing brings it back.

*Account.* A session's soundness is a statement about two reads: `IInv` says that
every cookie, and every request past `authorize`, is of a version the user has had,
and if it is of the present one came with the present password. A new password moves the
version, so `SignInsProve` and `ChangesEndSessions` follow. `GuessInv` is a counting
argument: the guesses at a code are at most the attempts it counts, plus the requests
that have yet to count theirs (`Pending`), plus those that died; each step of the
miss path moves one unit between these terms.

*Linking.* `IInv` records what each place of a request may rely on (`Sound`), that
an unspent intent of the present version was created while its provider was not
connected and nothing has been linked since (`IntentSound`), and that no two
requests are past the claim of one intent. The commit's condition on the version then
makes `OneAccountEach` inductive.

*OAuth.* `CodeSound` ties a row to the tokens sent for it, `RequestSound` says that
a request that has claimed a code is about to send its first tokens with the verifier
of its challenge, and `ClaimsApart` that no other has. `Refinement` maps
`IssueTokens` to the abstract answer, the deletion of a user to the withdrawal of
its consents, the creation of a row to a consent, everything else to a stutter. No
part of it is about what the limiter decides: tokens are safe whatever it does.
`HitsTyped` is inductive by itself, and gives `TypeCorrect` and the hypothesis of the next
theorem.

*Limiter.* Two loops go over the same list: the script's first one, and limits taken one
after the other. Each is a recursive function of the round, and the library's induction
is out of reach, so the argument is by a least number: if a loop parted from its
*closed form* (`Consumed`, `Counted`: what has happened after `i` rounds, said without the
rounds before), there would be a least round at which it does, and `ConsumedNext` and
`CountedNext` show that there is none (`LeastNat`, `SameLoop`). On the closed forms
everything is a matter of whether some bucket is full: `FormsAgree` holds on every hits and
list of distinct checks, hence in every reachable state (`FormsAgreeOnServer`).
`AdmissionAgrees` discharges "distinct" for the callers: whatever a request leaves out, the
checks of its surface differ in their scope. Taken one by one the limits admit the same
calls but do charge those before a refusal; `ListAgrees` does not say otherwise.

*Administrators and releases.* The history of proofs equals what the rows remember
(`CodesSound`). `ReadableFactors` is not inductive: it says nothing of an instance that
has passed its gate and does not serve yet, nor of a check that has looked at the keys and
is not through. `KeysSound` adds both, and that every key a factor may be written with
now is in all of these keyrings, as long as `shared` holds; `DeployedSound` says that an
instance only gets as far with a keyring that contains the key it writes with. A key is
stored by a serving instance or the script (`RequestsServed`: a request ends with its
server), hence is one of `WriteKeys`, hence readable everywhere; a keyring that joins
has just been compared with the stored keys (`KeysKept`, `FactorsStayReadable`). A live check that has come past the administrators leaves nobody exempted, no step
exempts anyone, and `AdminKeepsAFactor` does the rest (`ReleasesStayReady`).

Only model-checked: liveness (`PendingIsPickedUp`, `EveryRowSettles`,
`SessionsAreErased`), since the prover does not reason about fairness and
`ENABLED` (for `SessionsAreErased`, that no step undoes an erasure is proved); and the three
violations.

## Plan

The modules of the plan are written: the outbox, invites and registration; the
account (verification codes, reset and sessions together, because they meet in one
row); linking; the OAuth server with the limiter; administrators and releases. What
would add most next:

1. The verification page as a module of its own beside `UserAccount` (automatic
   submission, the limiter it shares with the resend).
2. A composition of `UserAccount` with `OutboxEmail`, in which `MailCode` is a
   delivery with its lease and its retries.
3. `AdminMfa`'s elevation inside `InviteRegistration`'s administrative
   transactions.
4. Larger instances for `admin_release` (a check beside two instances and a second
   request), today covered by the proofs only.

## Not modelled

- Rendering, email text, encryption, hashing, input schemas and timing padding (data
  without protocol), CSRF and Turnstile, which deny a request before it changes
  anything; environment parsing.
- The rotation of the OAuth signing keys (two environment variables, no state),
  userinfo's own limits, `rotateOAuthClientSecret`, which nothing calls.
- The sliding window of the Upstash library behind `rateLimit`, and the parsing of a
  header into an address; which header counts, and the script behind `rateLimitAll`, are
  modelled.
- The user interface, including the verification page (see *Findings*).
- Integration-test scripts, argument parsing of the scripts other than what
  `migration-readiness` demands of its flags, and the SQL text of the readiness checks
  beyond what they ask.
