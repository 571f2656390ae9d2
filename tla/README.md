# A TLA+ verification of the dispute engine

The dispute engine is the system a cardholder's bank runs from the moment a customer disputes a
transaction. This directory models what moves money, keeps regulatory clocks, tells the customer what
happened and decides who may do what: TLA+ modules translated from the Go, SQL and TypeScript source,
TLC configurations that check them, and TLAPS proofs. Paths below are relative to `backend/` unless
they begin with `frontend/` or `docs/`.

## 1. Inventory

| Component | State it keeps | Operations | Source |
|---|---|---|---|
| State machine and regimes | state, appeals used | `Apply`, `next`, `Allowed`; the rules table | `internal/dispute/domain/state.go`, `regime.go` |
| Ledger | double-entry rows; suspense, customer, recovery and loss balances | `CreditAmount`, `ParseSettlement`, `Postings`, `SuspenseBalance` | `domain/ledger.go` |
| Regulatory clocks | one row per kind and appeal cycle | `OpeningDeadlines`, `AppealDeadlines`, `Settle`, `Calendar.Due` | `domain/deadline.go` |
| Risk | history of assessments | `Assess`, `CreditAllowed` | `domain/risk.go` |
| Notices | what the customer is owed, on which channel, with which outcome | `NoticesFor`, `ChannelsFor`, `notify`, `facts` | `domain/notice.go`, `application/service.go` |
| Application service | a transaction in progress | `CreateDispute`, `ApplyEvent`, `Reassign` and the views | `application/service.go`, `routing.go` |
| Idempotency | key, request hash, stored response | `idempotent`, `RunIdempotencyPurge` | `application/service.go`, `purge.go` |
| Postgres store | the rows; locks; unique indexes | every statement of a transaction | `infrastructure/postgres/store.go`, `migrations/` |
| Banking core | references it has acted on | `instructCore`, `Core.Post` | `application/core.go`, `infrastructure/mockcore` |
| Notice outbox | email rows with attempts and next attempt | `Kick`, `Run`, `pass`, `deliver`, `claim_notices`, `finish_notice` | `application/mail.go`, `migrations/0014`, `0020` |
| Composed emails, attachments | drafts, claimed files, copies | `Upload`, `ComposeEmail`, `Resend`, the draft sweep | `application/compose.go`, `attachments.go` |
| Authorization, teams | memberships, grants, routing rules, policy version; each replica's compiled set | `authorize`, `Access`, `Decide`, `Route`; `member add`/`remove`, `seedAccess` | `application/authorize.go`, `access.go`, `authz/`, `migrations/0023`, `0024`, `cmd/tenant`, `cmd/seed` |
| Postgres adapter | tables of all tenants; tenant and team row policies | the calls of `Store` and `Tx`, generated queries | `infrastructure/postgres/store.go`, `sqlcgen`, `migrations/0024` |
| In-memory test store | the same rows as Go maps, a snapshot | the same calls | `application/apptest/memstore.go` |
| Tenants and keys | tenants, key rows, uses remembered per process | issue, revoke, look up, touch, audit, disable | `infrastructure/postgres/keys.go`, `cmd/tenantkey`, `cmd/tenant` |
| Request gate | requests in flight, cached verifiers and their lock, failures per peer, budget per window | `InternalOnly`, `Bearer`, `FailureLimiter`, `ServiceKey`, rate limit, `Required` | `platform/auth`, `platform/ratelimit`, `platform/httpserver` |
| Browser sessions | session rows, the cookie, a tab's copy | `begin`, `completeLogin`, `signedInSession`, `accessTokenForRequest`, `endSession`, back-channel logout, purge | `frontend/src/server/auth`, `internal/websession` |
| Migrations | `schema_migrations`, the advisory lock | `Load`, `Migrate`, `Check` | `platform/postgres/migrate.go`, `cmd/migrate`, `cmd/api` |
| Email wording | the tenant's override, a composer's form | `PutTemplateSetting`, `Validate`, `Fill`, the browser's preview | `notice/template.go`, `application/compose.go`, `frontend/src/lib/email/render.ts` |
| Questionnaire intake, scoring | questions asked, answers, a form with proposals, risk facts | send, suggest, receive, `Assess` | `domain/questionnaire.go`, `domain/risk.go`, `application/suggestions.go` |
| Tenant calendar | zone and holidays | `Calendar.Due` | `domain/deadline.go` |

How they interact: a request opens one transaction (`Store.WithTx`). In it the service looks up the
idempotency key, reads the dispute, asks the policies and the state machine, updates the row under
its expected version, appends the event, and then writes the questionnaire, the clocks, the ledger,
the notices and perhaps a new risk assessment. A movement on the customer's account calls the
banking core *inside* that transaction. After the commit the dispatcher of the serving replica is
nudged; dispatchers of all replicas share the outbox through claims with a lease.

What is hard here:

- everything a transaction reads at READ COMMITTED may be stale when it writes (risk, version,
  ledger, key); the code relies on the version check and on unique indexes;
- `ApplyEvent` locks the row and then inserts the event, `Reassign` the other way round;
- the core is not part of the transaction, and may act without being heard;
- appeals reopen a dispute, so money, clocks and notices of one cycle meet those of the next; the
  repository's path enumeration in `ledger_test.go` leaves appeals out;
- a request reads the dispute, its log and the access rows in separate statements, under row policies
  that hide rows silently, while an operator may edit the rows, and each replica caches them compiled;
- dispatchers crash between the relay's acceptance and the record of it, and leases run out;
- the unit tests run on a hand-written store that must answer like Postgres under its row policies;
- a browser's form and composer outlive what they were opened on: a questionnaire sent again, a midnight;
- credentials die while a request that carries them is under way; limiters check and record in
  separate steps; a tab writes back a session others have ended meanwhile;
- builds are rolled one process at a time, so rows one build accepted are read by another;
- local midnights are skipped in some time zones, and due times are computed from local midnights.

`PROJECT.json` lists each of these at its line under `hazards`, with the properties that watch it.

## 2. The modules

| Module | Models | Uses |
|---|---|---|
| `DisputeRules` | the domain as pure operators: rules table, state machine, postings, clocks, notices, and the service's steps as functions of the rows | |
| `DisputeLifecycle` | one dispute, one action per committed transaction: `CreateDispute`, `ApplyEvent(e)`, `Reassign`. The abstract specification of the service | `DisputeRules` |
| `DisputeService` | the same service statement by statement: workers, locks, unique keys, the core, repeats, crashes, deadlocks | `DisputeRules`; implements `DisputeLifecycle` |
| `AccessControl` | who may do what: access tables, compiled and cached policies, team row policies, the reads and the guarded write of a request, operator edits | `DisputeRules` |
| `NoticeOutbox` | outbox, dispatchers, composed and repeated emails, attached files | |
| `SqlQueries` | each generated statement as a function of the tables, with tenant and team row policies | |
| `PostgresStore` | the adapter: statements per call, conversions, errors | `SqlQueries` |
| `MemStore` | the in-memory store, call by call, its snapshot and rollback | |
| `StorePair` | transactions of several callers run on both stores; page walks, sweeps, time | `PostgresStore`, `MemStore` |
| `TenantDirectory` | tenants and keys | |
| `WebSessions` | browser sessions | `TenantDirectory` |
| `Gate` | the middlewares, requests interleaved at every call out of the process | `WebSessions` |
| `Migrations` | migrate commands and the API's check at start | |
| `NoticeTemplates` | template language, forms, overrides, server and browser | |
| `TenantCalendar` | due times, against a reference definition on the wall calendar | |
| `Intake` | questionnaire, proposals, risk score | |
| `Release` | builds rolled over the four modules above | all four |
| `DisputeLifecycleProofs`, `DisputeServiceProofs`, `AccessControlProofs`, `NoticeOutboxProofs`, `StoreProofs`, `GateProofs`, `MigrationsProofs`, `ReleaseProofs` | theorems about the module of that name (`StoreProofs`: `StorePair`; `MigrationsProofs`: `Release`) | `TLAPS` |
| `MC...` | the instances for TLC | |

**DisputeRules.** Names are the source's. `next(r, from, e)` and `Apply` return a set with at most one
member, the empty set standing for the error. Money is in minor units: the code only adds,
subtracts and compares decimals. At most one posting follows from a transition, as in
`Postings`. A clock is open, met or void; due times are left out because no transition reads them.

**DisputeLifecycle.** The variables are the columns and tables of one dispute: the row, the log, the
ledger with its balances, the clocks, the questionnaire, the latest risk tier, the notices. An action is
the whole handler with everything it calls, in the code's order: hold check, state machine, event,
questionnaire, clocks, postings, notices, risk. A refused request rolls back and has no action. The
risk score and the team a dispute is routed to are nondeterministic choices.

**DisputeService.** Each worker runs `read -> (hold) -> update -> append -> post -> put -> commit`, or
`read -> append -> move -> commit` for `Reassign`; each arrow is a point where another transaction may
run. `held` is the set of things a transaction has locked or inserted without committing: the row, its
event's `(dispute, seq)`, its idempotency key. A statement that meets another's lock waits; Postgres
picks a victim of two that wait for each other. From the row lock on nobody else can commit to this
dispute, so the remaining writes are one step. `CoreFails` covers a decline, a silence, and a silence
after the core acted. Clients repeat requests with their keys, up to `MaxTries` times, while the first
attempt may still be running.

**NoticeOutbox.** A row is sent or not, due or under a lease. `Wake`, `ClaimNotices`, `Render`, `SendOK`,
`SendFails`, `FinishNotice` are the dispatcher's loop; `Crash`, `FinishLost`, `SendUnheard` and a lease
that ends under a delivery are faults, bounded by `MaxFaults`. As in the source, a claim hands over a
row without its `resend_of`.

**AccessControl.** One tenant, one dispute. `access` holds the tables and the policy version, which every
edit (`AddMember`, `RemoveMember`, `SeedAccess`) moves. `Decide` is the engine: a compiled grant is a
permit bounded to its team, the ladder makes a lead senior and junior, a ceiling on a resource without
an amount fails to evaluate, a failure denies, a forbid overrides every permit. A request runs
`GetDispute -> ListEvents -> ReadAccess -> Authorize -> write`; between any two of them another request
or an edit may commit. `in_team` is the row policy; each statement sees it as of its own moment, so
`ListEvents` returns an empty log to a caller who has just lost the dispute from view (`blind`). The
write checks the version read and the row policy of that moment (`Updatable`). Of the log only what
`facts` reads is kept: the actors of the OPEN_INVESTIGATION entries. What a write does besides is in
`DisputeLifecycle`; that two writes queue on the row's lock is in `DisputeService`, so here a write and
its commit are one step. Unknown teams and callers without a principal are refused before anything is
read and have no action. A dispute may start out with an investigation opened before actor ids were
recorded, as the migration leaves it.

**SqlQueries, PostgresStore, MemStore, StorePair.** A database is a record of tables. `SqlQueries` has one
operator per statement, which takes the database and the caller (tenant, kind, subject, teams) and
returns the new database and the rows; `Sees` is the pair of row policies, and a row that is not seen is
no row. `PostgresStore` is the adapter: which statements a call runs, what it makes of no rows and of a
unique violation. `MemStore` is the fake, including what its snapshot does and does not cover.
`StorePair` makes the calls the service makes, in transactions that commit or roll back, on both at once,
and compares the answers after each call and the rows between transactions. A claim is compared in what both
stores hand out: the fake has no back-off, so Postgres may offer less, and the columns only the fake hands out
(`Actor`, `ResendOf`) are left out of the comparison (section 5). A behaviour keeps to one
part of the port (`focus`). Overlapping transactions are the subject of `DisputeService`; the fake runs
one at a time.

**TenantDirectory, WebSessions, Gate.** `Gate` puts the middlewares in the order of `cmd/api`. A request
stops at each lookup, at the verifiers' lock, at the identity provider, at the limiter's two critical
sections and at the count of its tenant's window. `hits` is the limiter's map, `windows` the budget table.
Keys are touched by background writes that may be late or lost. Beside them the frontend server's tabs
read, renew, refresh and end sessions, each call to the session store a step that may fail, or succeed unheard;
a failed DELETE goes unnoticed, as in `store.ts`. Hashes, signatures and the
identity provider's answers are choices. A scene (which requests, what else happens) keeps one question's
states from multiplying another's.

**Migrations, NoticeTemplates, TenantCalendar, Intake, Release.** A migration file is a version and a
checksum; `effects` is a history of which version's SQL ran on which others. Wording is a sequence of
tokens, values are sequences of lines; `Fill` and `fillEmailLine` are translated separately, from Go and
from TypeScript. `today` is the server's day: the facts are read at the listing and again at the send, and the
browser reckons the reply-by date from the day of the listing. Time in `TenantCalendar` is in hours; `lookup`, `Date` and `AddDay` state what Go's time
package does with a local hour that does not exist or exists twice. `Intake` has the seven signals of
`Assess` with their weights. Its page is the browser's copy of the dispute, loaded at any moment; the panel's form
stays over a new copy, as React keeps a component without a key, and takes new default values only as long as
nobody has touched it (`update`, the form library). `sets` is a history of the questions asked while the form was
open. In `Release` each call of the workbench is served by any of the builds now
running.

Operators named `X_Something` or `X_Fault` stand before the definition `X` they distort. They are plausible
mistakes in `X` (a dropped guard, a missing reset); replacing `X` by one makes TLC report the property it
is paired with under `mutants` in `PROJECT.json`, which shows that the property really depends on the
code. No specification uses them.

## 3. The runs

| Run | What it shows |
|---|---|
| `lifecycle` | All paths of the four real regimes, an appeal included. There is never more than one advance; closed books balance; a reversal takes back the credit of its own cycle; exactly the current resolution clock runs; the refund clock tells what really happened; every movement on the customer's account is announced on every required channel. |
| `service` | Two workers, three races. Commits are lifecycle steps (refinement), although each is decided on an earlier read; no credit is committed under a hold; a key is applied once; every ledger movement is backed by the core; no request hangs, in spite of the opposite lock orders. |
| `outbox` | Two dispatchers, any two faults. Every email is sent in the end; what is marked sent was accepted; one copy plus at most one per fault; files arrive with the email that named them. |
| `access` | Two requests and an operator. Whatever is allowed is within the guardrails; an edit applies to the next request, on every replica, whatever it had cached; the investigator is barred from the final credit through moves and appeals as long as the log was visible when read; a withdrawn membership stops a request in flight. |
| `stores` | Two tenants, three callers. The fake gives the answers Postgres gives and holds the rows it holds after every commit and rollback; no call touches a row its caller may not see; paging neither skips nor repeats while disputes are opened, closed and moved; a key's request is carried out again only after the retention. |
| `gate` | Served requests carried a credential that was good after they arrived; a peer exceeds the failure limit by no more than the requests in flight; a tenant exceeds its budget by no more than the counts that failed; the audit calls no key idle that was used, unless its write was lost; an id handed out before sign-in never becomes a session, whichever call of a sign-in is repeated or fails; no request is answered from a session idle too long; every request is answered although one lock is held across the network. |
| `release` | Concurrent and interrupted migrations take effect once and in order and never fail each other; a build serves only on its own schema; a sent email fits the form of the build that sent it and is what the browser previewed the same day; clocks end with their last day; while the questions are the ones a panel was opened on, though sent again after an appeal, a proposal never makes the server refuse the answers; no fact that gets worse lowers a score or a tier. |
| `outcome_after_appeal` | Disagrees with `notice.go`: a reversal before an appeal makes a won appeal's resolution notice say REVERSED. |
| `paid_twice` | Disagrees with the comment on `instructCore`: a change of team between a silent attempt and its repeat changes the reference, and the core pays again. |
| `resend_without_files` | Disagrees with `deliver`'s comment: a resend goes out without the original's files. |
| `history_by_caller` | Disagrees with `ports.go` and ADR 0018: the history behind a risk score counts only the disputes the caller's teams may see. |
| `logout_undone` | Disagrees with `docs/authentication.md`: a tab's renewal puts back a session that a logout has just deleted, and requests are answered from it again. |

**Bounds, and why they are enough.**

- `lifecycle`: the program's own rules table with its one appeal. Amounts 5000 and 5001 and liabilities
  0, 5000 and 5001 lie on both sides of the cap (5000) and of the claim. Settlements: none, a valid
  one, an invalid one. Accounts with all addresses and with none. One change of team, explored for
  Regulation E, which has the longest path (`MCMoves`). There is no bound on the path itself: it
  ends when the appeal is used up.
- `service`: two workers are enough for every pairwise race on the one row; two tries per request
  allow a repeat during and after the first. Each question has the regime and the requests it needs
  (`MCOneQuestion` keeps the three apart so that their state spaces add instead of multiplying).
  The constraint only cuts the arrival of requests, so it cuts no behaviour that a pending request
  needs in order to end.
- `outbox`: two dispatchers, two emails (one may be the other's copy), one file, batches of two, two
  faults: enough for a lost batch, a duplicate claim and a lease that expires twice.
- `access`: two analysts and a key, two teams, two fixtures (one open, one with ceilings, routing and a
  vain grant of administration), two edits, one move, two requests in flight. Two requests give every
  pairwise race, two edits a withdrawal and its return. `MCQuiet` lets requests race where a question
  is at stake (opening, the final credit, a move) and runs the events in between one at a time by
  the key; edits happen around those states. Symmetry in the requests is sound, as no property names one.
- `stores`: two transactions of up to three calls each, four dispute ids, two tenants, two teams, a key and
  an analyst of one tenant and a key of the other, pages of one row, a retention of two ticks. Three calls
  are enough for find, write, read back; two transactions for one that rolls back or hides a row from
  the next; three rows for a page, a row moved behind it and a row before it.
- `gate`: a minute and an hour of two ticks, one failure and one request per minute, so each limit is at
  its edge with two requests in flight and three in sequence; sessions of three ticks, idle after one, two
  tabs; two tenants with a key and a realm each. `SeenEvery = 0` lets every request write last-seen, the
  busiest case. `logout_undone` has the scene of sessions alone (`MCSessionScene`).
- `release`: two migrate commands of four builds (old, new, one with an edited file, one with two files of
  one version), two lost connections, one API process; eight wordings and seven forms, valid and not; eleven
  zones with changes of either direction at midnight and elsewhere, three sets of holidays, starts around
  the change; a wording with dates and one midnight (`MaxDay = 2`); every profile on both sides of each threshold.
  For the questionnaire one appeal, so that the questions are sent twice, by any of the builds, two different sets
  of questions with a yes or no of their own in each, and two replies read at once.

**Fairness.** `DisputeService!FairSpec`: a worker that can take a step takes it (the Go runtime, and
`context` timeouts on the core call), and Postgres's deadlock detector fires. `NoticeOutbox!FairSpec`:
a running dispatcher goes on, its timer fires, the clock reaches `next_attempt_at`, and a relay that is
offered mail again and again accepts at last (strong fairness, since it may refuse any number of
times). `Gate!Spec`: a request's next step is taken (the server's timeouts end the calls it waits for), and the
verifiers' lock is granted to a waiter it is offered to again and again (Go's mutexes are starvation
free). `Release!Spec`: a migrate command goes on, and Postgres hands the advisory lock to those who queue for
it. Requests arriving, crashes and other faults are never fair. Crashes are bounded in the outbox;
a system that crashes for ever delivers nothing.

## 4. The proofs

All theorems are of the form `Spec => []Inv` or `Spec => [][Action]_vars`, for every value of the constants
that meets the stated assumptions; fairness plays no part in them. Where a theorem has the property of a run,
the run shows it on an instance and the theorem in general.

**`DisputeLifecycleProofs`**: every rules table, every set of amounts, liabilities and settlements, any number
of appeals and changes of team.

| Theorem | Property |
|---|---|
| `TypeCorrect` | `TypeOK` |
| `OneAdvanceAlways` | `OneAdvance` |
| `SuspenseAlwaysClears` | `SuspenseClears` (not part of a run) |
| `ClosedBooksAlwaysBalance` | `ClosedBooksBalance` |
| `ReversalAlwaysReturnsTheCredit` | `ReversalReturnsTheCredit` |
| `ResolutionClockAlwaysRuns` | `ResolutionClockRuns` |
| `SettledClocksAlwaysStay` | `SettledClocksStay` (not part of a run) |
| `RefundClockIsTruthful` | `RefundClockTruthful` |
| `CustomerIsAlwaysTold` | `CustomerIsTold` |

Assumptions: `RulesAssumption` (every regime has a well-formed row with a resolution clock) and
`InputsAssumption` (amounts are positive, 0 is a possible liability). So the results also hold of a
regime added to the table later.

The argument for the money: `SuspenseClears` alone is not inductive, since nothing in it says how much
is in suspense before the close. `MoneyInv` adds `OneAdvance` (suspense lies between 0 and the claim
and is empty outside the states that carry an advance) and `Conserved` (the customer's balance is what
suspense, recovery and loss together hold, and none of the bank's accounts is negative). `ApplyStates`
says which states an event can lead to, `BookOne` and `EnterBooks` what entering them does to the
balances; each close then empties suspense by exactly what is in it. A reversal takes what is in suspense;
`ReversalInv` adds that while an advance may be taken back it is the last row of the ledger
(`AdvanceIsLast`). The argument for the clocks: `ClockInv` adds that no clock belongs to a cycle later than
the present one, so that the clock an appeal starts is new; `RefundInv` adds that the log ends in the present
state, that no ledger row is ahead of the log, and that the refund clock is settled once the refund states
are behind.

**`DisputeServiceProofs`**: any number of workers, requests and tries, any rules table.

| Theorem | Property |
|---|---|
| `KeyIsAppliedOnce` | `KeyAppliedOnce` |
| `LedgerIsBackedByCore` | `LedgerBackedByCore` |
| `NoCreditPassesAHold` | `NoCreditUnderHold` |
| `ServiceImplementsLifecycle` | `CommitsAreLifecycleSteps`: the refinement |
| `ServiceKeepsTheBooks` | `OneAdvance`, `SuspenseClears`, `ClosedBooksBalance`, `ResolutionClockRuns` of the committed rows |
| `ServiceKeepsItsPromises` | `ReversalReturnsTheCredit`, `CustomerIsTold`, `RefundClockTruthful` of the committed rows |

from `ServiceAssumption`. The heart is `TxInv`: which locks and pending rows a transaction holds at which step
(`Held`), that the row lock has one holder (`RowLock`), that what a transaction read is what the row still says
*as long as the version is the one it read* (`Fresh`), and that what it is about to commit is what the
committed rows demand (`WrittenInv`). So the conditional update turns an old read into a valid one, and a
commit is one action of `DisputeLifecycle` on the rows of that moment. `KeyInv` says that a key is stored with
its event and pending in one transaction at most. The last two theorems instantiate `DisputeLifecycleProofs`
under the refinement mapping (`Proved`), with the lifecycle's bound on changes of team lifted
(`MovesBefore <- Nat`).

**`AccessControlProofs`**: every set of principals, teams, fixtures, requests and replicas.

| Theorem | Property |
|---|---|
| `GuardrailsHold` | `AllowedWithinGuardrails` |
| `DutiesSeparated` | `SeparationWhenLogSeen` |
| `ChangesApplyAtOnce` | `ChangeAppliesOnNextRequest` |
| `OnlyMembersTouch` | `OnlyMembersTouchDispute` |

from `AccessAssumption` (analysts and keys are different principals, none has a reserved name, fixtures
parse). The first is ADR 0027's claim that no set of rows can break the guardrails, with the cache and the
interleaving included. `GuardInv` adds that every cached permit is bounded to its own team (`Bounded`)
and that a request's memberships are its caller's own rows; `AllowedReach` and `AllowedDuties` are the
facts about `Decide` alone. For the duties, `DutyInv` adds that what a request knows of the dispute is
true as long as the dispute has the version it read (`Knows`), that a log has one opener at most, and
none before the investigation. For the cache, `FreshInv` adds that a set is compiled from the grants of its
version if that version is the current one (`SetOK`), and the same of what a request has read (`ReadOK`).

**`NoticeOutboxProofs`**: any number of dispatchers, notices, files and faults, any batch size.

| Theorem | Property |
|---|---|
| `SentIsAccepted` | `SentWasAccepted` |
| `FilesAlwaysArrive` | `FilesArrive` |
| `DeliveredOnceAlways` | `DeliveredOnce` |

from `OutboxAssumption` (finitely many dispatchers, numeric bounds). `DeliveryInv` counts: acceptances so far,
plus the dispatchers that hold the notice and have not offered it yet, plus one for a claim to come, against
faults. It is what shows that the lease and the order of claim, send and finish leave no unexplained copy.

**`GateProofs`**: any number of requests, tenants, keys, sessions, tabs, any limits, any scene.

| Theorem | Property |
|---|---|
| `OnlyTheEntitledAreServed` | `ServedWasAlive` |
| `BudgetIsHeld` | `BudgetHeld` |
| `FailuresStayBounded` | `FailuresBounded` |
| `IdleKeysAreAlwaysIdle` | `IdleKeysAreIdle` |
| `APendingIdNeverLives` | `PendingNeverLives` |
| `NoSessionOutlivesItsIdleLimit` | `IdleNeverOverrun` |

from `GateAssumption` and `TrafficAssumption` (positive limits, an hour no shorter than a minute, finitely many
requests in flight), `SeedAssumption`, `TimesAssumption` and `SessionsAssumption`. `EntitledInv` follows a
credential through the stages of a request: what is accepted is good at that moment, and afterwards the
tenant and the credential of the request do not change. `BudgetInv` needs that a window somebody may still
count in is not purged. `FailuresInv` bounds what a peer has on record *plus* the requests let past the check
that have still to record. `IdleInv` says how far the row of a key may lag behind its use, `SessionInv` that
no row or copy was seen later than its session was answered from, and that one with a person in it was stored
under an id minted when they signed in (`Known`).

**`MigrationsProofs`, `ReleaseProofs`**: any number of builds, migrate commands, processes, lost connections,
wordings, forms, question sets, replies, facts, calendars and clocks.

| Theorem | Property |
|---|---|
| `MigrationsAppliedOnceInOrder` | `AppliedOnceInOrder` |
| `NobodyEverClashes` | `NobodyClashes` |
| `AlwaysServesOnItsSchema` | `ServesOnItsSchema` |
| `SentAlwaysFitsItsForm` | `SentFitsItsForm` |
| `ProposalsFitTheQuestions` | `ProposalsNeverBlock` |
| `WorseNeverLowersTheScore` | `WorseNeverScoresLower` |
| `ClocksEndWithTheirLastDay` | `DueEndsTheLastDay` |
| `PreviewIsAlwaysSent` | `PreviewIsSent` |

from `MigrationsAssumption`, `ReleaseAssumption` (versions are positive numbers, the newest build's files load,
every build has templates and questions), `BaseAssumption` and `SetsAssumption` (what the program checks of
those at its start), `FactsAssumption`, and for the migrations `OneLineAssumption`: a build with a version has
every lower version any build has. Without it the order is not kept: `Migrate` applies a file numbered below
ones already applied, as it would after two branches were merged. `MigrationsInv` adds that a command past the
lock holds it (`Exclusive`), that the table is then what the command read and what it passed (`Known`),
and that no version is recorded before a lower one (`Closed`). `IntakeInv` adds that what the form holds, and what a reading under way will
put into it, each fits one of the sets of questions asked while it was open (`FormOK`, `AskingOK`), and that the
current set is one of them; so it fits the current one when there was no other.

For the clocks `CalendarAssumption` says what zones do: one change of the offset, as time-zone data has them
(`ZoneAsUsed`: a change that skips a midnight starts there, lasts half a day at most and falls, west of
Greenwich, on a Sunday; one that sets clocks back stays within the day, unless it starts at midnight), and that
`MaxDays` is large enough. The rounds of `Due`'s loop are given in closed form (`RoundsAre`: which local day
and hour each stands on), the day on which a clock runs out is shown to be unique (`RunsOutOnce`) and to be the
loop's last (`LastRoundIs`), and the difference between the due time and the end of that day is worked out for
each kind of zone: no midnight skipped (`OffOrdinary`, exact or off by a midnight that comes twice), skipped
east of Greenwich, or before the clock starts (`OffAfterSkip`: 01:00 is carried along) and west of it (`OffWestCalendar`,
`OffWestBusiness`: 23:00 the day before is, and the Sunday decides which day that counts as). The repeated
midnight was found by the attempt to prove the property without it.

For the preview, `WordingAssumption` says what a line and an input are made of and `DaysAssumption` that the
shipped forms ask for the days to reply in as a number of one at least (for none, the server would give a due date
and the browser not). Both halves are joins of what
they make of each token, so the argument goes token by token: leaving out distributes over joining
(`WithoutFlat`, `BareFlat`), what stays of the sections of a line is the same positions in both halves
(`StaysAlike`) and holds no tag of a section if the line is tidy (`TidyStays`), a fact the server filled
beforehand is the word the server would substitute later, and a field has one value in both halves
(`FieldSame`). `LineSame` puts a line together, bullets included, `EmailSame` an email; `PreviewInv` adds that
an open composer shows a wording as it was handed out on its day; with the day unchanged, or no date in the
wording, the facts of the two halves are the same.

**`StoreProofs`**: any sessions, teams, disputes present at the start, retention and bounds.

| Theorem | Property |
|---|---|
| `RepeatsWaitForTheRetention` | `RepeatsOnlyAfterRetention` |
| `CallsStayInScope` | `StaysInScope` |
| `WalksMissNothing` | `WalkMissesNothing` |
| `FakeStandsIn` | `FakeIsLikePostgres` |

from `StoreAssumption` (the columns of the rows present at the start, of which there are finitely many). `KeysInv` says that a request carried
out is remembered by its row until the retention has passed, in the database and in the image a rollback puts
back, and that a transaction stores a key only while nobody else can have. For the scope there is one lemma
per write of the port (`InsertDisputeKeeps`, `ReplaceKeeps`, ..., `AppendLedgerKeeps`), each for an arbitrary
database: rows of other tenants and of disputes the session does not see are the same before and after.

For the walk, a page is the first rows of the one order a table of disputes has (`Listed`), and the cursor is
its last row. `WalkInv` says that every dispute that has matched since the first page was shown or lies past
the cursor (`Covered`), in the table *and* in the image a rollback puts back, and that what was shown is in
order and before the cursor (`GotOK`).

For the fake, `Alike` relates the two databases table by table: sets of rows with slices, maps and
counters. There is one lemma per call of the port, from `GetDisputeSame` to `SuspenseBalancesSame`, for
arbitrary databases that are alike: the two give the same error or answer and are alike afterwards.
`FakeInv` adds that the images a rollback puts back are alike in what `MemStore.restore` restores (`Image`),
that the rows it does not restore are written by the last call of a transaction only, and that a dispute the
transaction has found is one its session sees in Postgres too (`Seeing`), since some calls of the fake check
that where a row policy does.

**Only model-checked.**

- Liveness (`EveryRequestEnds`, `EveryNoticeSent`, `EveryRequestAnswered`, `EveryMigrationEnds`): fairness and
  `ENABLED` are out of the prover's reach. Every other property of a passing run is a theorem.

**Induction.** What a recursive function or a walk over a sequence yields is proved by its least
counterexample: `LeastOf` (every inhabited set of numbers has a least one) comes from the well-foundedness of
`<`, and each induction is over an explicit set of numbers at which the claim would fail. That a recursive
function exists at all is shown the same way (`Rounds`, `FlatRuns`).

**How the models are written for the proofs.** The bound on changes of team is the set of numbers
of moves after which another may follow (`MovesBefore`: `{0}` in the run, all of `Nat` in the refinement), so
that the service, whose moves are not bounded, implements the lifecycle. The service's log and ledger are sequences in commit order, as the tables are read.
`recentLocked` cuts a sequence at the first stamp after the cutoff (`Passed`), as the code does. A loop of
inserts (`Each`) is a recursive function over the rows. The rows a dispute has in a table with an identity
column are compared with their positions (`Placed`). Sorting is the list in which each row comes before the
next (`OrderBy`), filtering a slice the list of what is at the places kept (`Kept`), leaving tokens out the
join of what each leaves (`Without`), and a section the positions between its tags (`Stays`), instead of a
recursion over the sequence.


## 5. Other divergences met

Differences between code and documents that the models show, kept here and not as runs of their own:

- `notify` settles the ACKNOWLEDGE clock even when no channel had an address (`service.go:747`); ADR 0017
  says the clock is met by the notice.
- A core that knows a reference answers as before whatever amount it now carries
  (`mockcore.go:116`), so two different credits that take one reference leave the ledger and the core apart;
  ADR 0015 says they agree by construction.
- `facts` reads the log under the row policy of its own moment (`authorize.go:78`): a membership withdrawn
  before and restored after that statement hides who opened the investigation, and the separation of
  duties of `guardrails.cedar` does not apply. `SeparationWhenLogSeen` says what does hold.
- A `create` grant with a ceiling cannot be evaluated on a team and denies (`authz.go:95`): a lead so limited
  is refused what a junior may do; `access.go` says each rung has the grants below it.
- Every put of a session carries a whole lifetime (`session-impl.ts:55`, `:175`), so the TTL that
  `docs/authentication.md:31` calls absolute starts again with each renewal.
- A token refresh writes the session back as its request read it, last-seen included (`session-impl.ts:175`): with two
  tabs the stored last-seen can go back, and the session be ended as idle although it was used within the limit;
  `session-impl.ts:39` says it advances. `IdleNeverOverrun` says what does hold: the limit is never stretched.
- A DELETE the session store refuses is not noticed (`store.ts:79`): after a sign-out the cookie is gone and the
  row may still be there until its TTL, for any other holder of the id; `docs/authentication.md` says sessions end
  by sign-out. An answer that is lost leaves the cookie too. `remove` and `dropPending` have both.
- A proposal that returns late replaces what the analyst has chosen meanwhile (`questionnaire.tsx:53`); ADR
  0024 says the recorded value is the one the person left. `ProposalsNeverBlock` says what does hold.
- The questionnaire's panel has no key (`$disputeId.tsx:101`) and its form stands above the early return
  (`questionnaire.tsx:57`), so the form outlives the questions it was opened on. SEND, CLOSE, APPEAL, SEND is legal
  without an answer (`state.go:171`, `:108`); when another build sends other questions the second time, a proposal
  read for the first stays in the form under a question the panel does not show, goes with the answers, and the
  server refuses them until the page is left. ADR 0024 says every proposal "can be changed before anything is
  recorded". `ProposalsNeverBlock` excepts exactly this case (`sets`).
- The preview and the sent email differ where a section is not closed on its own line, where a section
  depends on a fact such as the merchant, where a list stands in the subject, and for a number typed with
  leading zeros; ADR 0019 and `render.ts:8` say the two agree. `{{dueDate}}` is accepted in a form without
  `days` and comes out empty.
- The facts are read when the composer is listed (`compose.go:32`) and again when the email is sent (`:81`), each at
  its own now, and the browser reckons the reply-by date from the first (`render.ts:44`): a composer opened before
  midnight and sent after it shows one date and sends another, with the wording unchanged. ADR 0019 says the two
  render "the same paragraphs from the same values". `PreviewIsSent` excepts exactly this case (`Dated`). The other
  facts are taken as fixed: of what they are made of only a bank's name can be changed, by `cmd/tenant`.
- `Calendar.Due`'s comment says the last instant of the Nth day (`deadline.go:120`). In a zone whose clocks skip a
  midnight (the Azores, Santiago, Beirut) or come back to one (Gaza) a clock ends an hour off, or most of a day
  late: `time.Date` answers 23:00 the day before or 01:00 for a midnight that does not exist, and `AddDate` carries
  that hour along. `DueEndsTheLastDay` says how far off it can be, and that it is exact everywhere else.
- `FailureLimiter` says a blocked peer is refused "before any lookup", but `Bearer` has looked up by then.
  A blocked peer is refused with a good credential too, and an identity provider that is down counts as
  failed credentials.
- A lost touch of a key is not repeated until the interval has passed (`keys.go:42`).
- A back-channel logout by subject is refused for a disabled tenant (`backchannel.ts:87`).
- The fake's claim hands out `ResendOf` and `Actor`, the deployed one neither (`memstore.go:280`, `store.go:103`); the
  dispatcher reads only the first. So `TestResendCarriesTheOriginalAttachments` (`notices_test.go:165`) passes on the
  fake, while the deployed dispatcher sends the copy bare (`resend_without_files`). `FakeIsLikePostgres` compares
  what both hand out. Of a listed notice the fake also sets the tenant, which nothing
  reads. It has no back-off, as its comment says.
- `MemStore.restore` does not restore templates, logos and avatars (`memstore.go:239`); the service writes
  them last, so no test can notice.
- `cmd/tenant` writes a tenant in four statements without a transaction (`cmd/tenant/main.go:84`).

## 6. What is not modelled

- Authorization inside `DisputeService` and `StorePair`: their requests are taken as allowed; the row
  policies are modelled. The list of permitted events shown in a view.
- The wording of automatic notices, PDF and HTML rendering, the texts of questions: data and layout.
- `SuggestDisputeReason` and `SuggestSearchFilters`: they read nothing that is stored and change nothing.
- The mock core's loss of memory on restart: it stands for a core whose memory is durable. Its ISO 8583
  fields.
- A relay that never answers, and a document that never renders: `EveryNoticeSent` assumes neither.
- Generated OpenAPI code, marshalling, configuration, telemetry, problem responses, demo data, the offline
  evaluation, and the screens of the frontend: I/O and formatting around what is modelled.
- Upserting a tenant's realm, core and calendar with `cmd/tenant`: only the calendar's effect
  (`SetCalendar`) and disabling are actions.
- An analyst who types an answer of the wrong shape, or clears one: the server refuses it, as it would without any
  proposal. A calendar day of the composer is the server's; its time zone is not modelled.

## 7. Plan

1. *(done)* the rules, the lifecycle, the service's concurrency, the outbox, access control; the money,
   clock and guardrail theorems.
2. *(done)* both stores, the gate with keys, limiters and sessions, releases with migrations, wording,
   calendar, intake and score; the migration theorems.
3. *(done)* every action property and invariant of a passing run as a theorem; the refinement, and
   through it the lifecycle's theorems for the concurrent service.
4. *(done)* the properties of operators that walk over data: `DueEndsTheLastDay`, `WalkMissesNothing`,
   `FakeIsLikePostgres`, `PreviewIsSent`.
