# A TLA+ project for the construction operations platform

The platform is a FastAPI service over PostgreSQL (async SQLAlchemy) with one
Celery task. Its routers call services, services call repositories, and each
HTTP request is one database transaction (`core/database.py`, `get_db`). No
process keeps state of its own: everything that matters is in the tables, and
everything that is hard comes from requests that interleave on those tables.

## Inventory

| Component | State | Operations | Correct when |
|---|---|---|---|
| Sessions (`auth_service`, `RefreshTokenRepository`, `tasks/cleanup`) | rows of `refresh_tokens`, `users.is_active` | login, refresh (rotation), logout, logout-all, nightly prune | a rotated token and its successor never coexist; a token that is gone stays gone; a bulk delete leaves nothing it matched; no session for a deactivated account |
| Invitations (`invitation_service`, `InvitationRepository`) | rows of `invitations`, new rows of `users` | invite, accept, revoke, expiry | an accepted invitation and its member come together; one account per address; one pending invitation per address and organization |
| User administration (`user_service`, `core/dependencies`) | `users.role`, `users.is_deleted`, access tokens in circulation | change user, deactivate, role check | an organization keeps an admin; a role changes only as somebody asked |
| Projects and sites (`project_service`, `models/project`) | status, code, end date and soft-delete of projects; sites | create, update, transition, delete; the same for sites | codes are unique; the status machine of ADR-010; a write is still allowed when it commits |
| Workers and documents (`worker_service`) | worker rows, documents with a verification triplet | create, update, delete, add document, verify | codes unique; verification is one-way and stays with what was verified |
| Organizations (`organization_service`) | rows of `organizations`, the first admin's row of `users` | register, update own organization | registration is all or nothing; slug, GSTIN and email unique; an account stays in its organization |
| Unit of work (`core/database`, `repositories/base`) | one transaction per request | statement, flush, commit, rollback | used by every module |
| Celery (`tasks/`, `docker-compose.yml`) | messages in the broker, pool processes, their engines' connections | publish (beat), run, retry (3, back-off), redelivery after a crash (`acks_late`) | expired tokens are eventually pruned; a crash loses no task; overlapping runs share no row |
| Errors, logging, metrics, middleware, settings, health, schemas | none of the domain | formatting, validation | not modelled |

### How the components interact

Only through tables. Registration and accepting an invitation insert into
`users` and meet in its unique index on `email`;
deactivation writes the row that login and refresh look at; login and refresh
sign the role of the row into an access token that the role check trusts for
eight hours without reading the row again; the Celery task deletes rows that
refresh reads.

### What is hard here

* **Interleaving inside a request.** Each `await session.execute(...)` gives
  other requests a turn. PostgreSQL runs at READ COMMITTED (the engine sets no
  other level), so each statement sees what has been committed by then, and what
  a request read may be out of date when it writes.
* **Writes do not look again.** An UPDATE of the ORM goes by primary key and
  writes the changed columns; a DELETE's row count is ignored except in
  `InvitationRepository.delete_by_id`.
* **Checks that the database does not back.** Last admin, pending invitation and
  project status have no constraint; slug, email and codes have unique indexes,
  which unlike the checks also hold soft-deleted rows.
* **The commit comes after the response.** `get_db` commits when the generator
  resumes, which the locked FastAPI does after sending the response. An answer
  is no proof of a commit.
* **Rollback at any point**: exceptions, deadlock victims, lost connections,
  killed processes; and a prune that runs twice at once.
* **Waiting in circles.** A statement waits for row locks and for values that
  others have put into a unique index, and requests take these in different
  orders.
* **A task that fails, is retried and is delivered again.** The worker
  acknowledges late; each retry is a message of its own; each run has a new event
  loop but the process keeps the engine and its pooled connections.

## The modules

All component modules share one way of modelling a request. `pc[r]` names the
next statement of request `r`; an action runs that one statement against the
committed rows, and records in the request's local variables what Python keeps.
`"responded"` is the state after the handler has returned and before `get_db`
commits. `Commit` makes the transaction's writes visible at once; `Abort` drops
them, from any state. Row locks are taken by UPDATE and DELETE and held until
then. An outcome that rejects a request before it has written anything is either
no step at all (nothing has changed) or an `Abort`. A request returns to
`"idle"` and stands for the next one after that.

| Module | Models | State that corresponds |
|---|---|---|
| `Sessions` | `AuthService`, `RefreshTokenRepository`, the prune task | `tokens`: committed rows; `dels`, `new`: what a transaction has deleted (and locked) and inserted; `todo`: rows a multi-row DELETE found at its start; `parent`, `late`: history only |
| `SessionStore` | what sessions promise, without requests or locks | `live`: the table; `ever`: tokens handed out |
| `Invitations` | `InvitationService`, `InvitationRepository` | `invites`, `accepted`, `expired`: the table; `member`, `gone`: the rows of `users` by email, soft-deleted or not; `crossed`: history |
| `UserAdmin` | `UserService`, `require_role`, tokens' role claims | `status`, `role`: `users` (`role` is `None` without a row); `claims`: users with an unexpired admin token; `seen`: the role the ORM loaded; `overlap`: history |
| `Roster` | what `UserService` promises, each change one atomic step | `status`, `role`: `users`; `contended` is `overlap` of `UserAdmin` |
| `Projects` | `ProjectService`, `SiteService`, `ProjectStatus` | `status`, `code`, `deleted`, `ended`, `siteOf`, `siteGone`: the tables; `raced`: history |
| `Workers` | `WorkerService`, `WorkerDocumentService` | `code`, `gone`, `docOf`, `docGone`, `content`, `verifier`: the tables; `seen`: the content the ORM loaded; `raced`: history |
| `WorkerLedger` | what the worker and document methods promise, each as one atomic step | the same tables; `contended` is `raced` of `Workers` |
| `ProjectLedger` | what the project and site methods promise, each as one atomic step | the same tables; `contended` is `raced` of `Projects` |
| `Organizations` | `OrganizationService`, the unique columns of `Organization`, the rows of `users` that registering inserts | `slug`, `gstin`: the table; `member`, `gone`: `users`, as in `Invitations`; `founder`: history |
| `Accounts` | `Organizations` and `Invitations` over one `member` and `gone`, with the waits between the two | the variables of both |
| `AccountLedger` | what registration, GSTIN updates, invitations and deactivation promise together, each as one atomic step | `sender`, `addressee`: the rows of `invitations` (in `Accounts`, `org` and `email` of those in `invites`); the rest as in `Accounts` |
| `Cleanup` | `celery_app`, the task in `tasks/cleanup.py`, the worker and beat of `docker-compose.yml` | `token`: `refresh_tokens`; `queue`, `running`: the broker's messages, waiting and unacknowledged; `stage`: the process's next step; `doomed`: rows of an uncommitted DELETE; `pooled`: processes whose engine keeps a connection |
| `SessionsProofs`, `InvitationsProofs`, `UserAdminProofs`, `ProjectsProofs`, `WorkersProofs`, `AccountsProofs`, `CleanupProofs` | theorems about the module of that name | |
| `MC*` | symmetry sets, and the users and the organization of `UserAdmin` | |

History variables (`parent`, `late`, `overlap`, `raced`, `crossed`, `founder`) are written
and never guard an action. The definitions that begin with "Mutation" are plausible wrong
versions of the action below them; no specification uses them, they document
which mistake each property would notice.

### Details that are easy to get wrong

* `Sessions!BulkTake`/`BulkDone`: a DELETE of many rows matches rows in its
  snapshot, locks them one by one, and skips those that have been deleted by the
  transaction it waited for. It does not see rows inserted meanwhile.
* `Sessions!FindToken`: the deletion of an expired token is followed by an
  exception, so it always ends in `Abort`; the model keeps the DELETE because
  of the lock it holds on the way.
* `Invitations!InsertUser` waits for another transaction that has inserted the
  same email, as the unique index makes it; the index holds soft-deleted
  accounts although `email_exists` does not see them.
* `Invitations!MarkAccepted`: the ORM raises StaleDataError when its UPDATE
  matches no row, `Revoke` re-evaluates its condition after waiting.
* `UserAdmin!Commit` writes the role only if it differs from the loaded one,
  because the ORM writes changed columns only. The roles other than admin are a set
  (`OtherRole`; five in the code): no guard tells them apart, but a PATCH from one to another
  is a change like any other. It skips the guard, since its target was no admin when
  loaded (`user_service.py:72`), is written all the same, and demotes a target that has been
  promoted in between. So `Removal` counts it among the requests that take admin rights away.
* `Workers!Commit` writes a content only if it differs from the loaded one; the three
  columns of a verification are always written by it and never by an update, whose
  schema does not have them.
* `Workers!Live` guards `StartAdd` only: a document of a deleted worker can still be
  changed, verified and deleted, because `_get_doc_or_raise` does not look at
  the worker.
* `Projects!Guard` collects what `update`, `transition_status`, `soft_delete` and
  `SiteService.create` require; `StartChange` checks it, nothing later does.
* `Organizations!Blockers`: an UPDATE first locks its own row and then waits for
  the unique index with the row locked (`LockRow`, `TakeGstin`). A GSTIN that another
  organization is about to give up is not free yet, and one that a transaction has
  taken is not lost until it commits.
* `Organizations!StartUpdate` takes the GSTIN as unchanged (`None`) if it equals the
  loaded one: the ORM writes changed columns only.
* `Organizations!CheckEmail` does not see soft-deleted accounts; `InsertUser` does.
* `Accounts!BlockingRequests` and `BlockingCalls` are the only things the
  composition adds: the two services wait for each other in the index on `email`,
  and because of the foreign keys to `organizations`. Checking one takes the row FOR KEY SHARE,
  which conflicts with an UPDATE that changes the GSTIN, because the column has a unique
  index, and with no other (`ChangesKey`).
* `Cleanup!Retry` publishes the next attempt before the old message is acknowledged,
  so a crash in between leaves both in the broker.
* `Cleanup!KillProcess` and `CrashWorker` differ: `task_reject_on_worker_lost` is not
  set, so the message of a killed pool process is acknowledged and lost, while the
  messages of a dead worker are delivered again.
* `Cleanup!ConnectStale`: `asyncio.run` gives each run a new event loop, and a
  connection pooled by an earlier run belongs to a closed one. It may fail and is
  then dropped, so a process fails once at most for this reason until it has
  committed or rolled back again.

## Runs

| Run | Bounds | Shows |
|---|---|---|
| `sessions` | 1 user, 3 tokens, 2 requests, 1 prune; 536,607 states | types; `RotationExclusive`, `NoSessionWhenInactive`, `BulkDeleteComplete`; `ImplementsStore` (refinement of `SessionStore`) |
| `invitations` | 2 organizations, 1 address, 3 invitations, 3 requests; 612,482 states | types; `AcceptedHasMember`, `MemberWasInvited`, `AcceptedOncePerEmail`, `OnePendingUnlessCrossed` |
| `user_admin` | 1 organization of 3 users, admin and 2 other roles, 2 requests; 689,030 states | types; `LastAdminKept`, `RoleChangesAsAsked`; `ImplementsRoster` (refinement of `Roster`) |
| `projects` | 2 projects, 2 codes, 2 sites, 2 requests; 456,893 states | types; `CodesUnique`, `ClosedHasEndDate`, `DraftOnlyActivates`, `GuardHoldsAtCommit`; `ImplementsLedger` (refinement of `ProjectLedger`) |
| `workers` | 2 workers, 2 codes, 1 document, 2 contents, 2 users, 3 requests; 438,915 states | types; `EmployeeCodesUnique`, `VerifiedOnce`, `SeenHoldsAtCommit`, `AddedToLiveWorker`; `ImplementsLedger` (refinement of `WorkerLedger`) |
| `accounts` | 2 organizations, slugs, GSTINs and addresses, 2 organization calls, 1 invitation, 1 invitation request; 344,471 states | types; `OrganizationsDistinct`, `OrganizationHasFounder`, `MembersAccountedFor`, `AccountStays`, `OnlyGstinSwapsDeadlock`; `ImplementsLedger` (refinement of `AccountLedger`) |
| `cleanup` | 2 tokens, 2 processes, 1 night's task at a time, 3 retries; 135,814 states | types; `RunsPruneApart`, `TaskSurvivesWorkerCrash`, and under fairness `ExpiredPruned` |
| `sessions_revocation` | 1 user, 2 tokens, 2 requests | `RefreshNeedsLiveToken` fails: revocation is not instant for a refresh under way |
| `one_pending` | 1 address, 2 invitations, 2 requests | `OnePendingInvitation` fails: check and INSERT are two statements |
| `last_admin` | as `user_admin` | `OrgHasAdmin` fails: two removals count each other's admin |
| `closed_project` | 1 project, 2 requests | `ClosedIsTerminal` fails: a transition overwrites `closed` |
| `cleanup_compose` | as `cleanup`, with the queues of `docker-compose.yml` | `ExpiredPruned` fails: the task is published to the queue `celery`, which the worker does not consume |

The last five are disagreements between the code and what its comments or ADRs
say, with the interleaving that shows each; PROJECT.json "findings" quotes the
text. What does hold in their place is proved beside them, and says exactly
under which condition the code's check is enough:

| Fails | Holds, and is proved |
|---|---|
| `RefreshNeedsLiveToken` | `RotationOfDeletedIsLive`: a refresh whose DELETE removed a row exchanged a live token, alone |
| `OnePendingInvitation` | `OnePendingUnlessCrossed`: two pending ones only after two invites of that address and organization were in flight together |
| `OrgHasAdmin` | `LastAdminKept`: no admin left only after two removals overlapped |
| `ClosedIsTerminal` | `ClosedStaysClosed`: reopened only after a transition or delete overlapped another request on the project |
| `ExpiredPruned` with compose's queues | `UnconsumedNeverPruned`: without a consumer of the queue nothing but a logout removes an expired token, in any run of any length |

**Why the bounds are enough to be interesting.** Each hazard is a conflict of two
transactions on one row or one key; two requests (with a prune as a third
process, or three where an accept, a revoke and an invite meet) produce every
order of their statements. Three tokens allow a rotation of a rotated token. Two
organizations allow an address to be invited twice legally. Ids are used once:
`Token`, `Invite`, `Project`, `Site`, `Worker` and `Doc` bound how many rows are ever
created. In `user_admin` two roles besides admin are what a change that passes no guard needs; one
organization is enough because every guard counts within one (with a second one the run
does not end in five minutes; the proofs are for any number), and three people let
somebody act who is neither the target nor the admin who stays. Once two overlapping removals have
left no admin, and all have joined and all old tokens have expired, nobody can
do anything any more, so deadlock is not checked there. In `projects`, `workers`
and `accounts` the ids can run out with nothing left to do (in `accounts` there is also
the circle of GSTIN swaps, which PostgreSQL ends by an abort), so
deadlock is not checked there either; the other runs check it. In `workers` the third request
lets two verifications and an update of the one document meet. In `accounts` one
invitation and one invitation request are enough for an acceptance to meet two
registrations; acceptances that meet each other are the run `invitations`. In `cleanup`
two processes let a run overlap with its retry or redelivery, and both fail on
stale connections; the next night's task is published once the last one has left the
broker (`Night` bounds how many are there at once, and the proofs hold for any number); three retries is what the code has. Symmetry is used for sets of
interchangeable model values; no run with symmetry checks liveness.

**Fairness.** Only `Cleanup` has a liveness property, and its `FairSpec` assumes: beat
ticks and the worker takes messages (weak fairness; both are long-running services
that compose restarts); each run goes on to its next statement, where failing is one
way to go on (weak fairness); and of the attempts to open a new connection, to DELETE and
to commit, one succeeds at last (strong fairness: the database may be away at any
attempt, but not at every one for ever). None of the faults is assumed to happen or
to stop happening. The property needs all of this because three retries are few: all attempts of a
night may fail, and it is the next nights that make up for it. No fairness is assumed
of `Take` per process or of a particular message. With it, `ExpiredPruned` holds if the
worker consumes the queue `celery`, and fails with the queue list of `docker-compose.yml`.

**A disagreement without a run.** ADR-010:134 allows "Create a site" in `draft` or `active`.
`SiteService.create` (`project_service.py:164`) refuses a closed project only, so a
project on hold gets its site, without any interleaving: one call shows it. No test covers the
case and no run is spent on it. `Projects!Guard` and `ProjectLedger!AddSite` follow
the code, so `GuardHoldsAtCommit` and `ImplementsLedger` say that the code's own
condition holds at the commit, not the ADR's. Forbidding it, or changing the ADR, is a
decision for whoever owns that rule.

## Proofs

Checked by TLAPS for every value of the constants (finite or not).

`SessionsProofs` assumes `SessionsAssumption` (`None` is no token and no user;
requests and prune workers are different processes). `RotationExclusive` is not
inductive: nothing in it stops a pending row whose parent has come back. `SInv`
adds `SettledInv` (a token in the table, or known to a request as its old token,
belongs to a transaction that has ended, so no later commit adds it again),
`PendingInv` (a drawn token has one transaction, which deletes at most its
parent; the parent is not otherwise in the table), `LockInv` (a row that is being deleted
has one deleter and stays until that one commits) and `PhaseInv` (what a process
knows at each statement). From `SInv` follow the type invariant,
`RotationExclusive`, `NoSessionWhenInactive`, `BulkDeleteComplete`, and the step
simulation `StoreStep`, which gives `SessionsImplementStore`: a commit is `Open`,
`Exchange`, `Revoke` or a stutter, an abort is `Lose` or a stutter, everything
else stutters. `GoneStaysGone` is read off the abstract store: none of its steps adds a
token that has been handed out before. `RotationOfDeletedIsLive` locates what
`sessions_revocation` shows: `PendingInv` and `LockInv` make a refresh that has deleted a row
the only deleter of the token it was given, so the row count that `delete_by_token`
does not return is all that `RefreshNeedsLiveToken` lacks. (A logout-all would still
miss the row that a refresh before it has inserted and not yet committed.)

`CleanupProofs` assumes `CleanupAssumption` (`MaxRetries` is a natural number). `CInv`
says what a process has at each stage: a message of the bounded retries while it is
busy, rows in `doomed` only before its commit, and those expired and in no other
process's DELETE. From it follow the type invariant, `RunsPruneApart` and
`TaskSurvivesWorkerCrash`; and by `RowsLeave`, which says who can remove a row,
`PruneLogsNobodyOut` and, under the hypothesis `Route \notin Consumed` that
`CleanupCompose.cfg` satisfies, `UnconsumedNeverPruned`. `ExpiredPruned` is liveness and
stays with TLC.

`AccountsProofs` assumes `AccountsAssumption` (`None` is none of the values, calls
and requests are different). Neither
`OrganizationHasFounder` nor `MembersAccountedFor` is inductive; `AInv` adds `DraftInv` (a
pending organization's id and slug are in no row and no other pending one), `MailInv`
(a pending admin's address is in no row and in no pending row of either service:
this is where `BlockingRequests` and `BlockingCalls` are needed), `HoldInv` (an updated
row has one writer), `GstinInv` (a written GSTIN is in no other row and in no other pending
update), `TenantInv` (accounts and invitations belong to organizations that have a row) and the
invariants of `InvitationsProofs` except `MemberWasInvited`, which registration breaks and
`MembersAccountedFor` replaces; `AcceptedHasMember`, `AcceptedOncePerEmail` and
`OnePendingUnlessCrossed` so hold in the composition too, the last for any number of invites,
of which the run `accounts` has one at a time. All invariants of the run `accounts`, its action
property and its refinement follow. `AccountsImplementLedger` has no exception for
overlaps, unlike the other refinements: each condition of `AccountLedger` has a unique
index or a row lock behind it, and `AInv` carries it from the statement
that checks it to the commit. An accepting request finds its invitation not yet accepted because
its address has no account (`JoinInv`, `AcceptedHasMember`), which no lock says.
`OnlyGstinSwapsDeadlock` speaks of a set in which everyone waits for a member and is
waited for by one, which every circle is, so its proof needs no induction over paths: it
goes through who can be waited for while waiting (`CirclesAreGstinSwaps`).

`UserAdminProofs` assumes `UserAdminAssumption` (each organization's founder
belongs to it; admin is not among the other roles). `LastAdminKept` needs `AloneInv` (outside `overlap`, removals in
an organization are in flight one at a time) and `SpareInv` (a removal past its
guard, or without one because its target was no admin when loaded, has another admin
behind it). The proof shows why stale access tokens do
not matter to the guard: it never uses who the caller is. It also shows why the unguarded
change between two other roles does not: alone, it demotes at most somebody who
was promoted after it had been loaded, and the admin who was there then is still there.
`UserAdminImplementsRoster` needs `TargetInv` beside it: outside `overlap` the user of a
removal in flight is still active, and has the loaded role or has been promoted. So
`Roster!SetOther`, a change to a role other than admin, never finds a deactivated user
or one who already has that role, and always finds another admin.

`InvitationsProofs` assumes `InvitationsAssumption` (`None` is no organization, address
or invitation). `MemberWasInvited` is not inductive: a revoke about to commit
could delete an accepted row. `IInv` adds `LockInv` (a row that a transaction marks
or deletes is there, and nobody else does either; a row being deleted is not
accepted), `JoinInv` (an inserted account belongs to one transaction, and no
committed row has its email), `FlightInv` and `RowInv`. `OnePendingUnlessCrossed` needs
two more: invites of one address into one organization that are under way together are
in `crossed` (`TogetherInv`), and an invite that is not in `crossed` finds its check
still true (`ClearInv`). All five invariants of the run `invitations` follow.

`ProjectsProofs` assumes `ProjectsAssumption` (`None` is none of the values). `PInv` adds
`PendingInv` (a pending project's code is in no row and in no other pending one),
`AloneInv` (outside `raced`, a writer is alone with its project) and `GuardInv`
(outside `raced`, what a method has checked stays true until it commits). All
five properties of the run `projects` follow, `DraftOnlyActivates` also for
projects in `raced`: a method that has checked for a non-draft knows that the
project never becomes a draft again. `ProjectsImplementLedger` is the step simulation:
a commit is one atomic method of `ProjectLedger` (`CommitIsLedgerStep`), a step that
starts a request at most adds to `raced`, and everything else stutters; it
needs `SiteInv` (a pending site is new, and its project has a row) beside `PInv`.
`ClosedStaysClosed` is read off the two steps of the ledger that write a status.

`WorkersProofs` assumes `WorkersAssumption` (`None` is none of the values, a worker is no
document). `WInv` is built like `PInv`: `PendingInv` for codes, `AloneInv` (outside
`raced`, a writer is alone with its row) and `GuardInv` (outside `raced`, what a
method has checked, and the content it has seen, stay). All six properties of the
run `workers` follow; that a verification is never undone holds in `raced` too. For
`WorkersImplementLedger` `GuardInv` also covers updates and deletes of workers, and
`DocInv` says that a pending document is new and its worker has a row.

The inductive invariants were checked by TLC on the bounds of the runs before they
were proved. Only model-checked: the five violations, which are about an instance
by nature; `ExpiredPruned`, because liveness under fairness is out of the prover's
reach; and the absence of deadlock of whole models, which is about `ENABLED`
(`OnlyGstinSwapsDeadlock` says the part that can be said with a state predicate).

## Not modelled

Password hashing, JWT signing, validation, error formats, logging, metrics,
middleware, settings, health checks, migrations and dashboards: no state that a
property is about (the migrations create the unique indexes that the models use, on the
same columns, also for soft-deleted rows). Reads (`get`, `list`, `me`, `validate`) change nothing.
Multi-tenancy by `organization_id` filters is in the guards (`Load`,
`Pending`, `Revoke`). Isolation is READ COMMITTED as far as these statements use
it: row locks and unique-index waits, no table locks. Deadlock victims are
covered by `Abort`.

* **Liveness of requests.** A GSTIN update can be starved by others that keep taking the
  row; PostgreSQL queues waiters for a row lock in practice and promises nothing the
  models could use, so no property says that a request ends.
* **Expired invitations.** ADR-009 says that the nightly cleanup prunes them; nothing
  calls `InvitationRepository.delete_expired`. No step of any model removes them.
* **The sites of a deleted project** stay as they are (`ProjectLedger!RemoveSite` has no
  condition on the project); nothing says what should become of them.
* **`Organization.is_active`** is commented "Inactive organizations cannot log in"
  (`models/organization.py`). No route ever sets it and `AuthService` never reads it, so there is
  no behaviour to model.
* **Redis and the result backend.** Redis may lose messages when it crashes; the
  length of a countdown and the visibility timeout of unacknowledged messages are
  abstracted to "later". A redelivery while the original still runs is possible in Celery
  after that timeout (an hour; the task is far shorter) and is left out.
* **Beat's scheduler.** `docker-compose.yml` starts beat with `django_celery_beat`, which is
  not among the project's dependencies, and which would not read
  `beat_schedule`'s entry without its own database. `Cleanup!Beat` is the `beat_schedule` of
  `celery_app.py` as Celery's default scheduler runs it.

## Plan

Done: all components with state of the domain; the composition of registration
and invitations; the Celery task with its faults, under fairness; five abstract
specifications (`SessionStore`, `Roster`, `ProjectLedger`, `WorkerLedger`, `AccountLedger`) and
their refinements, checked and proved; all safety properties of the runs proved. Left, in order:

1. `Platform`: users, sessions and administration in one specification, for what
   crosses them: a deactivated admin's tokens and the bound on their life.
2. `Accounts` with more than one invitation and request; at these bounds a run takes
   longer than five minutes.
