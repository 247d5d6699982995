# Verification of the call-analysis backend

TLA+ models of the backend in `src/`, the TLC instances that check them, and
TLAPS proofs about them. All `PATH:LINE` references are to the repository.

1. [The system](#1-the-system)
2. [What is modelled, and how it corresponds to the code](#2-what-is-modelled)
3. [Runs](#3-runs)
4. [Fairness](#4-fairness)
5. [The finding, and other disagreements](#5-findings)
6. [Proofs](#6-proofs)
7. [What is not modelled](#7-not-modelled)

## 1. The system

A Go backend that takes recordings of sales calls, transcribes and analyses
them with AI providers, and scores them by the workspace's playbook. Two
programs share PostgreSQL, MinIO and Redis (Asynq): the API (`cmd/api`), which
serves requests, and the worker (`cmd/worker`), which processes the queue.
Several instances of each may run. A third, `cmd/migrate`, brings the schema up
to date.

### Inventory

| Component | State | Operations | Interacts with |
|---|---|---|---|
| Call upload (`transport/http/call_handlers.go`, `modules/calls/service.go`) | none of its own; one request per fresh call id | `createCall`: `Create`, `QueueInWorkspace`, enqueue, `RollbackCreate` | MinIO, `calls`, Asynq |
| Call store (`modules/calls/store.go`, `processing_store.go`, `model.go`) | table `calls` | insert, delete, conditional transition, scoped reads | upload, processor, dashboard |
| Call processor (`jobs/handler.go`, `jobs/processor.go`) | one goroutine per delivery: its copy of the call, what it has in hand | `process`: a loop over the status, with `transcribe`, `analyze`, `transition`, `fail` | call store, transcript and analysis stores, playbooks, MinIO, providers, Asynq |
| Call lock registry (`jobs/processor.go:66`) | map of reference-counted mutexes, per worker process | `Lock`, the release it returns | processor |
| Queue task (`platform/queue/tasks.go`) | one task per call: state, retries | enqueue (unique), deliver, done, retry, archive | upload, processor |
| Transcript store (`modules/transcription/store.go`) | `call_transcripts` | `Upsert`, `Get` | processor |
| Analysis store and parser (`modules/analysis`) | `call_analyses`, `call_scores` | `Exists`, `UpsertWithScore` (one transaction), answer validation | processor, scoring |
| Scoring (`modules/scoring`) | none | `CalculateWithCriteria` | analysis store |
| Playbooks (`modules/playbooks`, migration 7) | `playbooks`, at most one default per workspace | create, update, delete, `GetDefault`, `Validate` | processor |
| Sessions and action tokens (`modules/auth`) | `users`, `refresh_tokens`, `auth_action_tokens` | register, login, refresh (rotation), logout, resend, confirm, forgot, reset, bootstrap | email, workspaces, platform |
| Invitations (`modules/invitations`) | `workspace_invitations` | invite, revoke, show, accept, register and accept | memberships, auth, email |
| Memberships (`modules/memberships`, migration 3) | `workspace_memberships` with two triggers and two keys | create, update, delete, and the upsert of an invitation | workspaces, call visibility |
| Workspaces, platform administration | `workspaces`, `users`, `audit_events` | found, rename, soft-delete, suspend, restore, promote, demote; each platform mutation with its audit event | all |
| Call visibility and dashboard (`calls/store.go:179`, `dashboard/store.go`) | none | list, detail, summary by role | memberships |
| Migration runner (`platform/database/migrate.go`) | `schema_migrations` | apply the pending migrations, one transaction each | all |
| Golden standards | `golden_standards` | create, list, delete | nothing reads them back |
| Providers, email, storage, configuration, router | external or stateless | | |

### What is hard

*Overlapping deliveries.* Asynq delivers a task again when its lease ends, while
the first handler goroutine is still running with a cancelled context. Within
one process the call lock serializes the two; between processes nothing does
but the conditional `UPDATE ... WHERE status = from`.

*Many steps, one failure each.* Processing is eleven or more remote calls. Each
may fail without effect, or take effect and lose its reply; the process may die
between any two. A redelivery resumes from the stored checkpoints.

*An upload over three stores.* MinIO, PostgreSQL and Redis are written one after
the other under one request context, with compensations under the same context.

*Bounded retries.* After `ProcessCallMaxRetry` retries the task is archived and
nothing looks at the call again.

*READ COMMITTED.* Every other module checks something in one statement and acts
on it in a later one. What holds between the two is due to row locks, a foreign
key, a unique index or a trigger, each of which protects less than it seems to:
a trigger does not see another transaction's rows, a row lock does not keep new
rows away, an index stops the second transaction and not the first.

*Rules in several texts.* Visibility is written three times, maxima of scores
three times; they have to agree.

The hazards are listed, each at its line, under `hazards` in `PROJECT.json`.

### What makes each component correct

* Upload: a call answered 201 has row, audio and task; audio is never deleted
  under a queued row.
* Lifecycle: a status moves only along `allowedTransitions`, and never claims a
  checkpoint that is not stored; a completed call is final; a message is shown
  exactly while the call is failed.
* Processor: checkpoints are made once and survive retries; the reason stored
  is the true one; every accepted call is settled.
* Lock registry: one mutex per call although entries come and go; no entry
  outlives its users; every caller is let in.
* Sessions: a login has one refreshable session at a time, and an ended login
  never gets another; a link works once; a reset ends the sessions before it.
* Memberships: no reference dangles and a user has one membership, whatever
  overlaps; a deadlock costs one request and hangs none. While requests do not
  overlap, an active owner stays, owners and admins are out of the reach of admins,
  and the supervisor whom a change names is an active one after it. Section 5 says
  where that ends.
* Invitations: one invitation admits once, at a rank its sender may give.
* Playbooks and scoring: at most one default; a patch changes what it names; a
  score is whole, in range and shown as it was given, or there is none.
* Tenants: a change of the platform and its event show together. A suspension, a
  disabled membership or a deletion holds for every later request whatever its
  token says; a lost platform role holds for every token issued since.
* Visibility: the three texts agree; a client that reads all pages misses nothing
  that stayed in its view.
* Migrations: each file whole, once, in order, by any number of runners.

## 2. What is modelled

| Module | What it stands for |
|---|---|
| `CallStatus` | the `Status` type, `allowedTransitions`, `CanTransition` (`calls/model.go`) |
| `CallStore` | the tables of a call and its audio, one operator per store operation |
| `CallQueue` | the Asynq task of a call: state and retries used |
| `CallUpload` | `createCall` with everything it calls, and its clean-up |
| `CallProcessing` | `Handler.ProcessTask` and `Processor.process`, and what happens to workers |
| `CallPipeline` | composes the above: `Next`, `Spec`, fairness, properties |
| `CallLifecycle` | abstract: what a reader of a call may observe |
| `CallLocks`, `CallMutex` | `callLockRegistry`, mutex by mutex; abstract: one mutex per call |
| `CallList` | the scopes and pages of `calls/store.go`, the platform's list and the dashboard |
| `Transactions` | row locks and what a transaction sees, shared by the next two |
| `Memberships` (`MembershipRows`) | `memberships`, the triggers and keys of the table, the upsert of an invitation |
| `Roster` | abstract: how the memberships of a workspace may change |
| `Playbooks` | `playbooks`, statement by statement, with its partial unique index |
| `PlaybookCatalogue` | abstract: how the playbooks of a workspace may change |
| `Scoring` | `Playbook.Validate`, the check of an answer, `CalculateWithCriteria`, `call_scores` |
| `CallScoring` | composes `Playbooks` with a call that a worker scores by one of them |
| `Accounts`, `AccountStore` | `auth.Service`; its store, one operator per statement |
| `SessionChains` | abstract: the sessions of a login |
| `Invitations` | `invitations.Service` and its store, with the login and refresh that follow |
| `Admissions` | abstract: what an invitation is good for |
| `Tenants` | `workspaces`, `platform`, and the middleware that admits a request |
| `Migrations`, `SchemaUpgrade` | `RunMigrations`; abstract: what the database has executed |
| `...Proofs` | theorems and their proofs, one module for a component; `CallAccessProofs` for two, `CallLocks` and `CallList` |
| `MC...` | constants for TLC |

### The call pipeline

`CallPipeline` EXTENDS `CallUpload` and `CallProcessing`, which both extend
`CallQueue`, `CallStore` and `CallStatus`: the two handlers share the stores and
nothing else. `CallLocks` is a refinement of the guard of `AcquireLock`
("no other goroutine of this process holds the lock of the same call"), split
off because its granularity is the mutex operation and not the remote call.

**Granularity.** One action per remote call: between two remote calls a goroutine
touches only its own variables. `QueueInWorkspace` is a read and a conditional
write; it is one action because nothing else writes a row before its task
exists.

**Outcomes.** Every remote call of the upload and of the processor has up to
three outcomes: success, an error without effect, an error after the effect
(the reply was lost, or the context ended in between). The `...Applies` and
`...Errs` operators of `CallStore` and `CallQueue` are these outcomes. The set
`Faults` says which classes of error the environment may produce; whatever is
not in it still errs when the code says so (a conditional update that matches no
row, a foreign key, a missing row). A context that has ended makes every later
call of the request err without effect, and may make any call of a delivery err.

**The processor's state.** `pc[w]` is the point in `process`; `"loop"` is the
switch on `call.Status`; `local[w]` is `call.Status` itself, the copy the worker
acts on; `draft[w]` the transcript, rubric and analysis in local variables. The
worker's lease is the membership in `lease`: a worker without it goes on, as the
goroutine does. A task can be `"active"` with no living holder (its process
died); `LeaseExpires` is Asynq's recoverer.

**Data.** A transcript or an analysis is a number, new for each provider answer
(`outputs`), so that "the same" and "another" can be told apart. An analysis also
carries the transcript it was made from and the rubric. Answers that the parser
rejects are the error outcome of `Analyze`; what the numbers in an answer do is
`CallScoring`'s. Message texts are the three sanitized messages of
`Processor.fail`.

**Requests.** There is one request per call id, because `createCall` makes a
fresh id. `AbortUpload` is the death of the API process in a request.

**Asynq** is modelled from the options in `tasks.go` and `cmd/worker/main.go` and
the contract the handler relies on: at-least-once delivery, a lease per
delivery, bounded retries, archive after them. `Shutdown` is SIGTERM: unfinished
deliveries go back to pending without using a retry.

### The requests of the API

`Memberships`, `Playbooks`, `Accounts`, `Invitations` and `Tenants` share a form.
`Requests` are goroutines; `pc[r]` is the next statement of the request that `r`
serves, `input[r]` what the client asked for, and the other functions over
`Requests` are the handler's local variables, emptied by `Answer` or `Finish`.
One action is one statement, or a transaction whose statements touch one row and
which nothing can observe in between. `Arrive` lets a client ask for anything in
`Ops` or `Inputs`; `outcome` is how the last request was answered. In `Accounts`,
`Invitations` and `Tenants`, `Err` is a failing statement or mail, at any step; a
request of the other two is one transaction, so that a failure leaves what no
request at all would.

**Transactions.** A statement sees the committed rows and its own writes;
`writes[r]` are the uncommitted ones, applied by the commit. A row that another
transaction wrote or locked makes a statement wait, and it then looks at the row
again, as PostgreSQL does under READ COMMITTED (`Transactions`; `Unlocked` in the
modules whose transactions lock one row). A scan of several rows is two actions:
what it finds, and what it changes, with the rows in between left to others. The
triggers of `workspace_memberships` run inside the statement that fires them and
read what that transaction sees; the foreign key takes a lock on the row that it
refers to. If all requests of a cycle wait for each other, `DeadlockVictim` rolls
one back: PostgreSQL's detection.

**History variables.** `alone` (`Memberships`, `Playbooks`, `Tenants`) is false for
good once two requests overlap; `solo` (`Accounts`) is the request that no other
has overlapped; `barred` (`Tenants`) is what has been against a request from its
arrival on: it shrinks when an administrator takes a change back. `ended`,
`admissions`, `knew` and `moved`, `torn`, `since` (`CallList`) are of the same
kind. No action reads them except for bounds.

**Accounts** is one e-mail address, with its account if it has one, its sessions
and its links. A session knows its `chain`, the session that a login opened, and
the number of the password it was opened under. `held` and `mailed` are the
tokens that clients have: a client may use any of them at any time and more than
once. Passwords are numbers, each reset choosing a new one.

**Memberships** is one company workspace. An id in `Members` is a membership id;
`UserOf` says whose it is, since a user who was removed comes back under a new
id. An accepted invitation (`Join`) is here the upsert alone; what leads to it is
in `Invitations`, which in turn knows no supervisors and keeps another owner
outside of the model. `Invitations` does not tell an unverified or suspended
account from another; registering by an invitation makes it both verified and
active (`invitations/store.go:241`).

**Playbooks and scores.** `CallScoring` lets a call be scored after the requests
of the clients. A criterion is a key, whether it has a title, and a maximum.
`Trim` is `strings.TrimSpace` on the keys as they are typed. Penalty weights and
`is_critical` are left out: no code reads them. `GetDefault` falls back to the
earliest active playbook; which one that is, is not kept, so any will do.

**Tenants** has access tokens that claim a platform role and outlive what they
claim. `authenticate` reads the user's status, `resolveWorkspaceActor` the membership,
and these steps come before every handler; `authorize` takes the platform role from
the token. Of an audit event the model keeps whom or what it is about and the new
value.

**CallList** keeps calls in the order of `created_at`. A call is queued, completed,
failed or gone: the statuses between queued and the end are one, since no property
tells them apart, and `Transitions` is `allowedTransitions` with them merged. The
platform's list has a filter by status besides those of the workspace's list, so the
worker moves calls into and out of what a client of it reads. The scopes are kept as the
code builds them, shape, placeholders and arguments apart, because `detailScope`
renumbers the placeholders of a text. A page, `ORDER BY created_at DESC LIMIT size
OFFSET (number - 1) * size`, is the set of the selected calls that have so many newer
ones before them, from the offset on. The module's specification is named `ListSpec`
and its variables `listVars`, so that one module can be about it and `CallLocks`.

**Migrations** counts statements. `Repeated` says what the first statement of a
file does to a database that has executed the file: `CREATE TABLE IF NOT EXISTS`
passes or, when it races, may raise; `ALTER TABLE ... ADD COLUMN IF NOT EXISTS`
passes; a plain `ALTER TABLE ... ADD` raises. The three files of the instance are
one of each kind, for the seven of the repository.

### Bounds

* `MaxRetry` is the code's `ProcessCallMaxRetry`, 1 or 2 instead of 5 in the runs.
  `MaxShutdowns` bounds graceful shutdowns, because they use no retry and would
  repeat for ever. Lost leases and crashes need no bound: each uses up a retry.
* `MaxRequests` bounds the requests of a behaviour, `MaxFaults` the failures.
  Where sequences matter as much as races, `MaxOverlapping` and `Overlapping` bound
  behaviours in which two requests overlap more tightly: by their number, and by
  what may run beside another request. `Crowded` (`Memberships`) are the inputs that
  may run beside each other up to `MaxRequests`. `MaxEdits` is `MaxRequests` for behaviours
  that go on to score a call.
* Goroutines are interchangeable, and one and the same serves while none is busy.
* Ids for new rows (`Books`, `Sessions`, `Invites`, `Spaces`, ...) do not run out within
  the bounds: a request that inserts one arrives, or goes on, only while there is one
  (`UnusedIds`, `FreshBooks`, `HasFresh`), as `uuid.New` always has one.
* `MaxCalls`, `MaxChanges` (`CallList`): calls; and roll-backs, changes of memberships
  and changes of a status while a client reads, together. Before it begins the worker
  is not bounded.
* `MaxStarts` (`Migrations`): starts of a runner.

## 3. Runs

| Run | Instance | Question |
|---|---|---|
| `one_process` | 1 call, 2 goroutines of one process, all faults, 2 retries, 1 shutdown, fair | does the call lock make every delivery act on a fresh status, record true reasons and implement `CallLifecycle`, and is every accepted call settled? |
| `two_processes` | 1 call, 2 processes, all faults, 1 retry, no shutdown | do the conditional updates alone keep rows, checkpoints, audio and tasks consistent? |
| `two_calls` | 2 calls, 2 goroutines, provider faults only, fair | does every accepted call end completed by its playbook, or failed? |
| `call_locks` | 3 goroutines, 2 calls, 3 entry addresses, fair | does the registry implement a mutex per call, without leaks or starvation? |
| `members` | 2 owners, 2 supervisors, 1 manager who reports to one of them, 1 newcomer, ids for their return; 3 requests in a row, 2 that overlap, and 3 that overlap about the supervisor and the manager; fair | do locks and keys keep the table whole and every request answered, and do service and triggers keep the rules of ranks, owners and supervisors? |
| `accounts` | an address with a logged-in account, or none; 3 requests by 2 goroutines, 1 fault | do sessions and links work once and end when they should? |
| `playbooks` | 2 playbooks and ids for 3 more; 2 requests in a row, 3 that overlap; then a call is scored, retried and shown | one default, no lost field, no deadlock that hangs; and is a score whole? |
| `invitations` | 2 guests, one registered; 3 requests by 2 goroutines, 1 fault | does an invitation admit once and by rank? |
| `tenants` | administrator, owner, manager, 1 workspace and ids for 2; 3 requests by 2 goroutines, 1 fault | are changes whole, and do they hold? |
| `call_list` | owner, supervisor, manager, 3 calls, pages of 1 or 2, 1 change; the supervisor walks through a list, by owner and by status | does a client miss a call, or see one it may not; do the three texts agree for every actor? |
| `migrations` | 3 files, 2 runners, 4 starts, 2 faults, fair | is the schema what one runner would have made? |
| `issued_token` | 1 guest, no fault, requests one after the other | see [the finding](#5-findings) |

Each property of a run has a mutant of a modelled definition that violates it
(`PROJECT.json`, `mutants`). Mutant operators are named `Definition_WhatIsWrong`,
stand before the definition they change and are used nowhere else. A property of
several parts has more of them beside the listed one: `Merged_Unset` and
`UserFree_NoKey` break the uniqueness and the references of `TableHolds`,
`Purpose_Raw`, `ConsumeCan_Unchecked` and `CommitToken_KeepOthers` the parts of
`RowsHold` of the accounts, `Accepts_Partial`, `Columns_Total`, `ScoreFor_Absent` and
`Checked_NoTotal` those of `CallsShowTheirScore`, `Cleared_OnDelete` the supervisors
of `Roster`, `Merged_Default` and `Delete_KeepFlag` the catalogue, `Without_None` the
pending invitations, `Events_Suspensions` the audit, `CanUpload_Role` and
`Visible_ByStatus` the changes that take effect, `DashboardScope_Team` and
`ListScope_NoFilter` the agreement of the texts, `Advance_Past` and
`Fail_KeepStatements` the record of the migrations.

**The pipeline.** *Properties of `two_processes`* are the ones that need no call
lock. *Properties of `one_process`*, `LockedViewIsFresh`, `FailureIsTruthful` and
the refinement `ImplementsLifecycle`, fail with two processes, which is the point
of the lock. The refinement maps the four variables `status`, `transcript`,
`result`, `object` to themselves: `CallLifecycle` knows neither queue nor workers
nor requests, and says that a transcript is recorded once, while "transcribing",
an analysis once, while "analyzing", from the stored transcript, and that the
audio is touched only before the call is queued or after its row is gone.
Calls interact only through the pool of workers, so one call carries all
interleavings; `two_calls` adds the contention for workers. Two workers give a
stale delivery and a newer one; with one retry the stale one may be a first or a
last delivery. All safety properties of the three runs are proved for any numbers of
calls, workers and retries, those of `one_process` for one process.
Three goroutines are a lock's holder, a waiter and a late comer; three addresses
let an entry be made while two others are still referred to.

**Members.** `TableHolds` and `Answered` are for all interleavings.
`RankIsProtected` and `ImplementsRoster` are for requests one after the other,
because they are not true of overlapping ones
([disagreements](#5-findings)): the service and the triggers read without locks.
`Roster` asks of the table *after* a change that the supervisor named in it is an
active one; the one change of the code that is no step of it, a supervisor demoted to
report to themselves, is named (`DemotedToItself`) and allowed by `ImplementsRoster`
alone. `Roster` is instantiated with `rows` for `rows`.

Three requests in a row suffice to promote, demote and act, or to give a supervisor,
take it and bring it back. Two overlapping ones meet at the target's row, at the
unique key and at the foreign key, also in a cycle: two supervisors who become
managers of each other. They do not meet at the rows that the second trigger clears:
for a transaction to wait there, another must hold a report that the first one still
found. That takes a manager who reports to someone, and a third request, so the
instance starts with one, and `Crowded` lets three requests overlap: while a demotion
of the supervisor has found the report, a request lets the report go, and another
gives it back and waits for the supervisor's key, which the demotion holds while it
waits for the report. One of the two is then rolled back, and both are answered.

**Accounts.** `RowsHold` and `ImplementsChains` are for all interleavings, with
rows that expire at any time. `Current` maps a login's session that can be
refreshed to the chain's. `ResetEndsSessions` and `BootstrapMakesAdmin` are for a
request that none other overlaps: three steps of a reset, each with its failure,
among logins and refreshes before and after. Three requests are a login or a
link, its use, and its second use.

**Playbooks.** `ImplementsCatalogue` holds of requests one after the other, and in
part always: a deleted playbook stays deleted. The lists of criteria are one each
of those that fit, overflow a column or the total, or are refused for a key, a
title or a maximum; the answers are all partial functions from the keys to -1..3.
`CallsShowTheirScore` compares what is shown with a definition of the whole score
that shares nothing with the calculator. `FittingIsSaved` is the part that ties
the maxima of `scoring/model.go` to the CHECKs of migration 1; a playbook that
exceeds them is accepted, and its calls then fail at each attempt.

**Invitations.** `Ticket` maps a row to the promise of `Admissions`; `admissions`
counts the commits. Three invitations for two addresses let one be replaced while
it is being accepted.

**Tenants.** `ChangesTakeEffect` says that no request is done that a suspension, a
membership or a deletion spoke against during its whole life: a disabled member's is
refused whatever it asks for, a suspended workspace takes no uploads. Of a lost
platform role it says what is true: a request of a user who was no administrator
during its whole life is done only with a token that claims the role.
`ChangesAreAudited` compares the tables with the
events, in every state.

**Call list.** `NothingSkipped` is for a client that asks for the next page until
the number of pages it was told, and for the calls of its view: those that its list
shows it with its filters. Uploads may come in between, and the worker may process
calls. Nothing is promised once a call was taken from the view (`moved`), by a
roll-back, by a change of a membership, or by the worker from a client that filters
by status; nor once one came into it between the count and the rows of a page
(`torn`). Without either condition TLC finds a client that misses a call.
`PagesStayInScope` is for all changes. Both lists, with page sizes that are left
out, at the limit and above it, the filter by owner of the workspace's list and the filter by
status of the platform's.

**Migrations.** Runners may be at the same or at different files, die within one,
and lose the reply of a commit. Two faults and four starts let each of two
runners fail and start again.

Deadlock is checked in every run. `Terminated` is the legitimate end: every
request answered, every task settled or never made, every worker idle, as many
requests served as the bound allows.

## 4. Fairness

`CallPipeline!Fairness` assumes weak fairness of

* a request's next step: the HTTP server runs the handler, and each remote call
  returns, at the latest when the request timeout (`router.go:16`) ends it;
* the delivery of a pending task: Asynq's processors poll the queue, and the
  retry delay passes;
* a worker's next step: its remote calls return, the provider calls by their
  configured timeout. This includes waiting for the call lock: weak fairness
  suffices because only the other deliveries of the same call hold it, and the
  retries bound those (the registry itself is shown fair in `call_locks`);
* the recovery of a task whose worker died: Asynq's recoverer runs in every
  server. That some worker process runs again after a death is an assumption on
  the deployment: `Crash` replaces the process at once.

Nothing is assumed about faults: any step may err each time. `CallLocks` assumes
that goroutines outside the mutexes run, and strong fairness for acquiring a
mutex, which `sync.Mutex` provides by its starvation mode.

The requests of `Memberships`, of `Playbooks` (in `CallScoring`) and of `Invitations`,
and the runners of migrations, are weakly fair step by step, for the same reason as a request of the pipeline; waiting for a row is a
step that is not enabled, and PostgreSQL lets the waiter go on when the
transaction ends, or rolls one of a cycle back. Arriving, failing, expiring and
starting again are never assumed. `Accounts`, `Tenants` and `CallList` have safety
properties only, and no fairness.

## 5. Findings

**The refresh token of a registration by invitation is refused** (`issued_token`).
`RegisterAndAccept` (`invitations/service.go:161`) issues a token pair without
storing a session, unlike `issuePair` of `auth`; `Refresh` looks the session up.
The access token works until it expires, and the guest must then log in. The
test `service_test.go:165` names the pair "tokens"; `docs/API.md:11` says that
`/auth/refresh` rotates a session.

Further disagreements met while modelling. Where a property is named, it shows the
disagreement when it is checked without its restriction:

* *Pipeline.* `Exists` (`processor.go:205`) and `UpsertWithScore` are separate and
  only a process-local lock covers both: with two worker processes the slower
  delivery replaces the analysis and score of a completed call, which the design
  document says is "not recreated on duplicate delivery" (`ImplementsLifecycle`
  with two processes). Errors of the load, of a forward transition and of the
  transition inside `fail` return without the call becoming failed, and after the
  last retry it stays so, although "any processing error ... moves the call to
  failed" (`AcceptedIsResolved` with database faults). `RollbackCreate` runs under
  the context of the request; when that has ended the clean-up fails too and a
  queued row stays without a task, which `service.go:207` says cannot be. Any error
  of `GetDefault` (`processor.go:229`) selects the built-in criteria for good
  (`ScoredByPlaybook` with database faults).
* *Members.* One request alone demotes a supervisor to a manager who reports to
  themselves: a `PATCH` with the role manager and the target's own membership as
  supervisor passes the `EXISTS` of `Update` (`memberships/store.go:118`) and the one
  of `validate_membership_supervisor` (migration 3, line 160), since both see the row
  as it was. The errors say "supervisor must be an active supervisor in the same
  workspace" (`workspaces/model.go:57`) and 'supervisor must be active and belong to
  the same workspace' (migration 3, line 168); `ImplementsRoster` without
  `DemotedToItself` shows it. The others need an overlap (`ImplementsRoster` without
  `alone`). Two owners who remove or demote each other at once leave the workspace
  without an owner, since the trigger reads the other owner's row as committed,
  without locking it (migration 3, line 183): 'workspace must retain an active owner'
  (line 190), "the last workspace owner cannot be removed or disabled"
  (`workspaces/model.go:56`). An update may name a supervisor who is being demoted.
  An accepted invitation overwrites the role of a member and so may hit the
  last-owner trigger, which shows as an internal error (`invitations/store.go:179`).
* *Accounts.* A login that overlaps a reset may store a session opened by the old
  password after the reset has revoked the others (`auth/service.go:194`). A
  confirmation that fails after `ConsumeActionToken` has spent the link
  (`auth/service.go:134`). `BootstrapAdmin` makes an administrator of an account
  that exists, although its comment says it "creates the configured admin only
  when its email does not already exist" (`auth/service.go:247`), and makes none if
  that account registers in between (`auth/service.go:274`).
* *Playbooks.* Two updates of one playbook lose one of two patches
  (`playbooks/service.go:94`). Two requests that set the default at once: the second
  is refused by the index (`playbooks/store.go:123`). A playbook whose maxima exceed
  the columns is accepted, and no call scored by it can be saved. Penalties, which
  `docs/ARCHITECTURE.md:40` says weigh in, are read by no code.
* *Invitations.* Two requests that invite one address at once leave two pending
  invitations (`PendingOverlap` without `knew`).
* *Platform.* `SetWorkspaceStatus` (`platform/store.go:90`) changes and audits
  deleted workspaces; they stay deleted. A demotion waits: `authorize`
  (`platform/service.go:75`) trusts the token, so a demoted administrator goes on
  administering others until the access token expires.
  The documents say that JWTs carry the platform role (`docs/DECISIONS.md:39`,
  `docs/API.md:15`), not that its loss is delayed; of memberships they say that
  changes take effect immediately. `ChangesTakeEffect` without the exception for
  "role" shows it.
* *Lists.* The workspace's list is ordered by `created_at` without a tie-break
  (`calls/store.go:160`), so two calls of one instant may change places between pages;
  the platform's has one (`platform/store.go:172`). The model's calls have different
  times. A call that comes between the count and the rows of the last page may push
  the oldest call off it. With `?status=queued` the worker takes calls out of the view
  of a client of the platform's list, and the next page skips as many calls that the
  client could see (`NothingSkipped` without `moved`).
* *Scores.* An answer with `"score": null` passes the check that the key is there
  (`analysis/parser.go:131`) and decodes to 0. The model does not tell the two apart.

## 6. Proofs

Every theorem is for any values of the constants that satisfy the named `ASSUME`s of
its modules: any numbers of calls, workers, requests, users, rows, retries and faults.
The bounds of the instances (`MaxRequests`, `MaxFaults`, ...) are constants there, too;
since they may be any number, they bound nothing. TLC evaluates the assumptions for
each instance and has checked every inductive invariant below on the instance of its
component before it was proved.

| Module | Theorem | States |
|---|---|---|
| `CallPipelineProofs` | `TypeCorrect` | `[]TypeOK`, the retry bound included |
| | `Checkpoints`, `Audio`, `Accepted`, `Done`, `FailureMessages` | the invariants of `two_processes` |
| | `CompletedForGood` | `CompletedIsFinal` |
| | `LockedViews`, `FailureReasons`, `LifecycleImplemented` | under `OneWorkerProcess`: `[]LockedViewIsFresh`, `[]FailureIsTruthful`, `ImplementsLifecycle` |
| | `PlaybookScores` | under `SteadyStore`: `[]ScoredByPlaybook` |
| `CallAccessProofs` | `LocksTypeCorrect`, `EntriesCounted`, `Exclusion` | `[]TypeOK`, `[]EntriesAreCounted`, `[]MutualExclusion` |
| | `RegistryIsMutex` | `ImplementsMutex` |
| | `NothingIsSkipped`, `ViewsAgree`, `PagesInScope` | `[]NothingSkipped`, `[]ScopesAgree`, `PagesStayInScope` |
| `MembershipsProofs` | `MembershipTableHolds` | `[]TableHolds` |
| | `RanksAreProtected`, `RosterImplemented` | `RankIsProtected`, `ImplementsRoster` |
| `AccountsProofs` | `AccountRowsHold`, `ResetsEndSessions` | `[]RowsHold`, `[]ResetEndsSessions` |
| | `BootstrapLeavesAdmin`, `SessionsAreChains` | `BootstrapMakesAdmin`, `ImplementsChains` |
| `PlaybooksProofs` | `PlaybookRowsHold`, `CatalogueImplemented` | `[]RowsHold`, `ImplementsCatalogue` |
| | `CallsShowWhatWasGiven` | `[]` of all parts of `CallsShowTheirScore` but `FittingIsSaved` |
| | `CallsShowWholeScores` | if the maxima fit the columns: `[]CallsShowTheirScore` |
| `InvitationsProofs` | `InvitationRowsHold`, `InvitationsAdmitOnce` | `[]RowsHold`, `ImplementsAdmissions` |
| `TenantsProofs` | `ChangesAreWhole`, `ChangesHold` | `[]TransactionsAreWhole`, `ChangesTakeEffect` |
| `MigrationsProofs` | `RecordedFilesAreApplied`, `RunnersUpgradeTheSchema` | `[]RecordedIsApplied`, `ImplementsUpgrade` |

Each of these modules names its inductive invariant `Inv` and proves `Spec => []Inv`
as its theorem `Invariance` (`ListInv` and `ListInvariance` for the list). Five theorems
have a hypothesis besides the assumptions, which says what the property is about:

* `OneWorkerProcess`: all workers are goroutines of one process, of which the compose
  file starts one (`docker-compose.yml:45`). Two processes break all three properties,
  because the lock is not shared.
* `SteadyStore`: neither `"db"` nor `"lease"` is in `Faults`. When the statement that
  loads the playbook fails, or its context is cancelled, the code scores by the built-in
  criteria; the property is about calls whose playbook could be read.
* `CallsShowWholeScores`: no built-in criterion has a larger maximum than the `CHECK` of
  its column. The eight maxima of `scoring/model.go:24-31` equal the eight limits of
  migration 1 (lines 85-92); nothing but this agreement of two files makes a score by
  the built-in criteria one that can be saved (`FittingIsSaved`), so the theorem names it.

### The call pipeline

None of the properties is inductive by itself. `CheckpointsPersisted`, for
instance, is broken by a state in which a worker is about to announce a
transcript that was never stored, so `CheckpointInv` adds what a worker at each
announcing step knows. That knowledge must survive the steps of all *other*
workers and of the request, and the request may delete the row under the worker:
hence the alternative "or the row is gone" everywhere, and `UploadInv` and
`TaskInv`, which say that a worker's call has left the part of the request that
could still change its row in any other way. `FinalInv` is the same for
"completed": no stale copy of the status can say "completed" wrongly, because no
transition leaves it.

The argument is the same throughout. A *frame lemma* (`WorkerFrame`,
`UploadFrame`) says that a step touches only its own worker or request and the
row of its call. A *row lemma* (`WorkerRow`, `UploadRow`) says what it may do to
that row: leave it, move it along the table with the checkpoint known, store a
transcript, store an analysis; or, for the request, prepare or remove it.
`RowMonotone` says what survives each of these. The conjuncts of the invariant
then follow without looking at single actions again.

With one process `LockInv` adds the call lock: two workers that hold it have
different calls (`Exclusion`), so what a holder read stays so until it changes it
itself (`Sees`). That makes every conditional update of a holder succeed or find the
row gone, every reason it records true, and every step of the pipeline one of
`CallLifecycle`. `ScoredByPlaybook` has an invariant of its own, `RubricInv`: every
delivery has its lease while it runs, so a worker that got past loading the playbook
has its criteria in the draft, and so has what it stores.

### The lock registry

The invariant of `CallLocks` says that an entry's count is the number of goroutines
counted in it, a cardinality that each step of a goroutine moves by at most one. For
the refinement, `holder` of `CallMutex` is the goroutine that has the mutex of the
call's current entry; that this is also the only one in its critical section
(`HolderCritical`) needs `EntryIsCurrent`.

### The list of calls

`NothingSkipped` speaks of the last page only. `WalkInv` says what the client knows on
the way there: while no call is taken from its view, every call it could see at first is
still in view, and it has got those that have fewer newer calls before them than the
next page's offset. Calls only come into that view, before all others by an upload
(`ViewGrows`) or in between by the worker (`ProcessView`), so these numbers only grow
(`NewerGrow`), and fewer calls are promised, not more (`WalkGrows`). A page adds those
from its own offset up to the next (`PageByPage`). At the last page the offset after it is
at least the number of calls (`LastPage`), if that number is still what was counted:
hence the condition about `torn`.

`ListSelects` says what the placeholders and arguments of `listScope` come to for each
role, and `PagesInScope` follows. For `ViewsAgree` the fold in `Renumber` has to be computed
for the one, two or three arguments a condition has: `RenumbersExists` builds, by three
rounds, the function that the fold is defined by, and `DetailPlaces` reads off its values.

### The requests of the API

A request's local variables carry what its earlier statements have seen, and a
property is broken where that is no longer so. The invariants therefore have the
same shape: a `RequestInv(r)` says what the *place* of a request tells of its input,
its locals, its uncommitted rows and its locks, and conjuncts about pairs of requests
(`LocksApart`, `Apart`, `ApartInv`, `CreatorsApart`) say that they exclude each other.
The proofs go by action; lemmas such as `RequestsStay`, `OthersStay` and
`AnswerParts` carry over what a step of one request leaves to all others.

*Memberships.* `TableHolds` rests on three things, each a conjunct of `Inv`. Row locks
that conflict are of one transaction (`LocksApart`), and what is locked is there or
about to be (`LocksHeld`): therefore a row that another transaction refers to or has
written is not changed under it. The unique key keeps any other transaction from
writing a membership of a user who is getting one (`UsersApart`): there is no row yet
that could be locked. And a transaction that deletes a membership has locked it before
it looks for the references to it, so that none can be added between that scan and
the commit (`Reports`). For `RankIsProtected` and `ImplementsRoster`, `AloneInv` adds
what holds only while requests do not overlap: there is an owner, the supervisor a
row names is an active one unless it is the row itself (`SupervisorsNamed`), and what
a request has checked is still so. The theorem
`AloneInvariance` has both.

*Accounts.* A rotation holds the row of an active session and has inserted its copy
in the same chain (`RowInv`); since no row is held twice (`ApartInv`), a chain has one
active session. A published link knows only closed ones (`TokensInv`). That every
password has spent a link of its own (`SpentInv`) compares a counter with
cardinalities. For `ResetEndsSessions`, `solo` makes the scan of a reset complete.

*Invitations.* A transaction that is accepting has locked its invitation, which is
pending for that reason until the commit; `admissions` then follows the state.

*Playbooks.* Two transactions about to commit a default are the same (`OneSetter`,
the unique index), and one about to commit has cleared every other default that it
or anybody else could leave (`RequestInv`). `AloneInv` is for the refinement.
`CallInv` follows a call: rows hold lists that `Validate` accepts, so its criteria can be
told apart; `Accepts` makes the answer whole; and nothing is lost from there to the view.

*Totals.* The calculator adds up the scores criterion by criterion, the property key by
key, and what is stored is added up again from the columns. `Sums(S, f, h)` says that `h` is
the function by which a sum over the finite set `S` is defined. Such a function exists
(`SumsExist`), is unique (`SumsUnique`), may take any element first (`SumsTakeAny`) and gives
the same for a set and for a list that numbers it (`SumsReindex`). Each of these would be an
induction over subsets; each is proved by contradiction from a least counterexample,
which exists because the strict subsets of a finite set are well-founded, a theorem of
the library that has no operator as a parameter. With `KeysOnce`, which says that no key
is in a list twice, the two sums are one (`TotalOfWhole`).

*Tenants.* An inserted workspace belongs to one transaction until it commits
(`CreatorsApart`), and no client knows it (`RequestInv`). For `ChangesTakeEffect`,
`BarInv` says of each thing that has been against a request since its arrival that it
still is, and that the request has not passed the step that looks for it:
`authenticate` for a suspended user, `ResolveActor` for a membership or a deletion;
a suspended workspace is in the actor by the time of the upload. What it says of the
platform's role is only that a request past `authenticate` has a token that claims it.

### Migrations

`RunnerInv` says what of its file a runner has executed, `OneWriter` that of two
runners at one file only one has executed anything, and `LogInv` that the files
recorded are the first ones, the last of them at the end of the log. The refinement
maps `log` to itself: the commit appends the statements of one file
(`AppendedFile`), which is the next one.

### Only model-checked

* All liveness: `AcceptedIsSettled`, `AcceptedIsResolved`, `LockReturns`, `Answered`,
  `Settles`; and deadlock. It is out of the provers' reach along with `ENABLED`.
* What `issued_token` shows, which is a counterexample.

Every other invariant, action property and refinement of the runs is stated by a theorem.

## 7. Not modelled

* *Golden standards*: reads and single-row writes that nothing else depends on.
* *Configuration, wiring, routing, CORS, health checks, logging, metrics*: no state
  over time. The dashboard's averages and the platform's other lists and metrics
  are queries without rules.
* *Providers, email*: outcomes only. Prompts, requests and texts are not modelled,
  nor the fake providers.
* *Input validation* of forms and multipart bodies, before the first statement.
* *Cryptography*: a token is its row; hashes and signatures are taken to work.
* *The content of migrations*: their statements are numbers; that migration 3 moves
  the rows of users into workspaces correctly is not shown.
* *Other isolation and failures of PostgreSQL*: READ COMMITTED with row locks, keys
  and triggers as the statements use them. A lost reply to a COMMIT is modelled
  for the pipeline and for migrations; in the API's other requests a failing commit
  has no effect.

### What could come next

No module contains a RECURSIVE operator, so that all of them can be proved about, and no
safety property of the runs is left without a theorem. Liveness stays with TLC. What
would add to the project are the golden standards, once something depends on them,
and the dashboard's averages, once there is a rule about them.
