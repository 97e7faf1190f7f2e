# planChatt-api: a verification project

planChatt-api is the back end of a municipal development-planning system
(NestJS, TypeORM, PostgreSQL). Officials author projects under a development
plan, the projects pass an approval workflow, and the approved ones are printed
in a *book*; later rounds (revisions, supplements) edit, change or add projects
and print books of their own. This directory holds TLA+ modules that model the
core of it, TLC configurations that check them on small instances, and proofs
for TLAPS. Source paths below are relative to `src/src/`.

## 1. The system

### Components, state and operations

| Component | State | Operations that change it | Modelled in |
|---|---|---|---|
| Development plans and phases (`development-plan`, `plan-phase`) | `development_plan` (isLatest, isBooked, deletedAt), `plan_phase.isOpen` | create, softRemove, restore, updateLatestStatus, updateOpenState | `ProjectWorkflow` |
| Approval workflow (`tracking-status`, `project-groups`) | `project_groups` (developmentPlan, isBooked), `tracking_status` audit rows (status, isLatest, createAt) | author, submit, pull back, verify, return, reject, approve, bulk change, promote a scope, rollback | `ProjectWorkflow` |
| Orphan cleanup (`orphan-cleanup`) | none of its own, except an in-memory notification buffer | the cascade that resets or deletes left-over projects when a book is closed or cancelled | `ProjectWorkflow` (plans), `RevisionAssembly` (revisions) |
| Main book assembly (`main-assembly`) | draft, version, lineage rows, PDF files | createDraft, uploadPart, generatePart3, reusePart, merge, correct, discard, restore, purge | gate, generate, merge and Part 3 correction in `ProjectWorkflow`; the rest planned |
| Out-authority report (`pdf`) | `isBooked` of rejected projects | generateOutAuthorityFromStatus | `ProjectWorkflow` |
| Revisions (`development-plan-revision`) | `development_plan_revision` (isOpen, isBooked, bookedAt) | create, update, softRemove, updateOpenState | `RevisionAssembly` (updateOpenState) |
| Edit and change book assembly (`edit-assembly`, `change-assembly`) | the same rows and files, per revision | as for the main book, and cancelPublishedVersion | `RevisionAssembly` |
| Book lock and lineage lock (`common/book-lock`, `common/lineage-lock`) | none; they read the chain of books and forks | guards called by the others | where they are called |
| Supplement book assembly (`supplement-assembly`) | draft, version, lineage rows, the round's `isBooked`, PDF files | as above, with other indexes and an idempotent merge | `SupplementAssembly` |
| Equipment, revised and supplement projects | their own project tables; the same audit table | the workflow again, per kind | not modelled separately |
| Presence (`presence`, `websocket`) | Redis keys with expiry, a debounce marker, a memory gate, `users.last_seen_at`, open sockets | connect, disconnect, heartbeat, markOnline, markOffline, sweep | `Presence` |
| AI usage quotas (`ai-usage-quotas`, and the callers in `ai`, `ai-executive-chat`, `document-analysis`) | `ai_usage_quotas`, `ai_usage_logs`, a cached sum | guard, deduct, renew, toggle, increment, log | `AiQuota` |
| Delivery of notifications (`notifications`, `line`) | two kill switches and their cache, Bull jobs, audit rows, LINE bindings, preferences | queue, dispatch, retry, update settings, link and unlink | `NotificationDelivery` |
| AI knowledge base (`ai-knowledge-hub`) | entries, revisions, submissions in quarantine | create, edit, publish, archive, delete, ingest, promote, reject, nightly purge | `KnowledgeHub` |
| Session registries, lockout (`backup-login`) | Redis keys, caches, counters | revocation, failed logins | not modelled |
| Notification inbox, digests, alert worker | records, timers | one query each | not modelled |
| Citizen and public engagement (`citizen-engagement`, `public-engagement`, `citizen-planning`) | posts, follows, polls, messages, sessions | independent records beside the planning system | not modelled |
| AI chat, PDF layout, archives, users, look-up tables, dashboards | records | no interacting steps | not modelled |

### How they interact

Everything shares one PostgreSQL database at READ COMMITTED. A handler is an
HTTP request that reads rows, awaits, and writes; some handlers are one
transaction, and few lock a row before they read it. `merge` of a main book
calls the cascade (which appends audit rows), books the projects and the plan,
writes the version and the lineage. `merge` of a revision's book does the same
for the revision's projects, except that the cascade deletes them. The workflow
guards look at the plan's flags, which the plan, phase and book handlers change.
Files are written beside the database and are not undone when a transaction is.
A committed status change emits its notifications from memory; from the queue on
they live in Redis. Presence and the queue use the same Redis and survive its
outages differently. Every call to a language model is charged to a quota row and
its log; the chat reads the published entries of the knowledge base.

### What is hard

* A handler that reads, awaits and saves a *whole* row undoes what happened in
  between (draft rows, revision rows, plan rows).
* Two status changes of one project overlap: nothing in the database keeps
  `isLatest` unique.
* The project list of a draft is as old as `generatePart3`; projects move on.
* Project lists of versions overlap, while cancel and correction un-book by list.
* Files are replaced before unique indexes can refuse the version.
* A later book forks projects of an earlier one while that one is cancelled: the guard against it is
  a plain read, many awaits before the writes, and nothing that forks locks the source.
* Audit rows are ordered by a time all rows of a transaction share.
* TypeORM's `save` is a comparison and then a write of the columns that differed:
  two saves can each write a part of the row.
* Bull runs a job at least once: again after an error, after a timeout while the
  first run goes on, and after a crash.
* Keys expire, gates debounce and caches age on clocks of their own; Redis fails.

`PROJECT.json` lists each as a hazard at its line, with the properties about it.

### What makes it correct

* *Books*: at most one official version per book, the newest; numbers without
  gaps; the printed list of a published version fixed; its projects booked and
  its lineage leaves pointing at it; a source forked before a guard looked neither deleted nor un-booked.
* *Workflow*: a project's audit rows are a walk through the allowed transitions
  ending in one latest row; no stage is skipped; a closed book has nobody in
  review; a booked project stays where it is.
* *Notifications*: every message reaches an end; a second copy has a cause; an end is
  reported unless enough went wrong; what a user has turned off is not used; a switch turned off is heard.
* *Presence*: who has a live key is shown online; `last_seen_at` keeps up with the keys.
* *Quotas*: used and remaining make up the limit, no period pays for another, nobody is
  refused for money the organisation has not spent.
* *Knowledge base*: no edit is lost, every version has its revision, what came from
  outside can be traced, what was refused stays out, old items are purged.

## 2. Modules

| Module | Role |
|---|---|
| `PublishedBook` | abstract specification: what any assembled book promises its readers |
| `RevisionAssembly` | the service behind the book of one revision; implements `PublishedBook` |
| `MCRevisionAssembly` | instances for TLC |
| `RevisionAssemblyProofs` | the theorems and their proofs |
| `SupplementAssembly` | the service behind the book of one supplement round; implements `PublishedBook` |
| `ProjectWorkflow` | the approval workflow of main-plan projects, composed with the plan and the steps of its book that touch projects |
| `NotificationDelivery` | kill switches, fan-out, jobs, retries, crashes; liveness |
| `Presence` | sockets, keys, debounce gates, sweep, outages |
| `AiQuota` | guard, calls, renewals and deductions |
| `KnowledgeHub` | entries, revisions, submissions, purge; liveness |
| `MC...` | instances of each for TLC |
| `...Proofs` | theorems and proofs about `RevisionAssembly`, `SupplementAssembly`, `ProjectWorkflow`, `NotificationDelivery`, `Presence`, `AiQuota`, `KnowledgeHub` |
| `WorkflowAloneProofs` | theorems about `ProjectWorkflow` where requests do not overlap |

### RevisionAssembly

`edit-assembly.service.ts` and `change-assembly.service.ts` are the same code
over other tables; one module stands for both.

| Variable | Code |
|---|---|
| `revision`, `newerSibling` | the `DevelopmentPlanRevision` row; whether a sibling book was booked after it (`BookLockService`) |
| `project` | the revised projects: status of the latest audit row, isBooked, deletedAt, a live descendant |
| `version`, `lineage`, `draft` | the version rows by number, the lineage rows (rows, leaf, parent) by project, the draft rows |
| `part3File`, `mergedFile` | what the files of version n on disk print |
| `request` | requests between their read and their write: the row each will save (`new`) and what it has rendered |

`BeginX` is a handler up to its last read, `Save` the save of the row it
computed. `generatePart3` has a third step, `Render`, since the PDF service
queries the projects again.

`merge` is three steps. `BeginMerge` reads and writes the official file. `Cascade` is
the guard of the clean-up: it reads which projects are left over and whether one has a
descendant, and keeps them in `doomed`. `CommitMerge` is the commit, and `CanCommit` says what
the database asks of it: the unique indexes on the number and on the completed version, and
the CHECK on `page_number`, which refuses a listed project that the draft's `part3PageMap` has no page for, because
`generatePart3` listed it and no longer found it when it rendered (it would get page 0). `AbortMerge` is a refusal by any of them or by the guard.

Cancel, correct and the removal of a project are two steps: the guards (`BeginCancel`,
`BeginCorrect`, `BeginRemove`), and the writes. Cancel and correct lock the version row
(`Lockable`), so what they have loaded stays official (`LockedIsOfficial`). Nothing locks the
projects: between the two steps another book may fork a source, and the writes do not look again.
`late` is history: the projects forked since the request looked. `ForkedSourceKept` excuses these, and
no others: a guard that is missing, or that is asked about another list, violates it.
`Purge` is one step.

`Environment` is what the rest of the system does to the same rows.

`Save` writes the row as it was read: TypeORM's `save` reloads the row and
writes every column that differs from the object, which amounts to the same.

Abstracted: a project's status to working, approved or rejected; filters by
agency; the bookings of equipment (RELPG); the identity check of cancel and
correct and its retry lock; page numbers. Not modelled: the endpoint that
restores one deleted project.

### ProjectWorkflow

| Variable | Code |
|---|---|
| `plan` | `development_plan` and the open flag of its phase |
| `home`, `isBooked` | `project_groups.developmentPlan`, `.isBooked` |
| `rows` | `tracking_status`: per project, rows with the time of their transaction (`at`), their rank in it (`item`), status and isLatest |
| `draft`, `printed` | `part3ProjectSnapshot` of the READY draft and of the COMPLETED version of the main book |
| `request` | requests in progress: what each has read and will write |

A status change is four kinds of step, in `create`, `createMany`,
`promoteVerifiedProjectGroupsByScope` alike: `BeginMove` starts the transaction
and fixes the time of its rows; `Check` reads a latest row and decides;
`Flip` is the start of `UPDATE ... SET is_latest = false`, which fixes the rows
it will touch; `CommitMove` makes the writes visible. A bulk change repeats
`Check` and `Flip` per project and sees its own writes (`SeenStatus`). `Skip`
is the promotion's test for projects that have left Verified. `Abort` is any
refusal or error. Rollback, merge, out-authority and cancel are a read and a
commit each. `BeginMerge` renders the listed projects again; one that it does not find printable would get page 0,
which the CHECK on `page_number` refuses (`main-assembly.service.ts:1093`), so such a merge does not begin; authoring too (publishing a saved draft has the same effect).

Abstracted: who may ask (ownership, organisation, area), classification and
budgets of a project, so that a step the code refuses on those grounds may
happen in the model - properties that hold there hold in the code; row locks
between the UPDATEs of two transactions, of which only the outcome (the rows
each one touches, or `Abort`) is kept; the two reads of `rollbackStatus`, the
whole of `generatePart3`, and `updateLatestStatus`, one step each. The lineage lock does
not appear: a project has descendants only when it is approved and booked, which
the other guards refuse already. Not modelled: the administrative update,
removal and restore of single audit rows (`tracking-status.service.ts:3289`),
removal of projects, `updateWithPhases`, the legacy `generateApprovedBook` and
`rollbackBook`, Part 1 and Part 2 corrections, and the freeze of a plan by its
revisions.

### SupplementAssembly

`supplement-assembly.service.ts` publishes the same kind of book with other means,
so it is a module of its own beside the same abstract book. Each handler is one
transaction, only `merge` locks the round's row, no handler locks a draft row, no
draft has a target version (`NextVersion` is asked again wherever a folder is
touched), and `merge` answers at once when the round is booked. `BeginX` and `Save` split
the draft handlers as above. `BeginMerge` takes the row lock, `Cascade` reads the left-over projects
and their descendants, and `CommitMerge` or `AbortMerge` frees the lock (`RoundLocked`); the commit
needs both unique indexes (`CanCommit`: one row per number, one completed version per supplement,
migration 1781500000000). Cancel and correct lock the version row they load; their guards, and those of the
removal of a project, are a step before the writes, and a fork may come in between, as above.
`BeginRound` and `SaveRound` are `update` and `updateOpenState` of
the round, which save a row read earlier. `undone` is history: such a save has put
an old `isBooked` back under an official version. `OfficialIsBooked` then speaks of the projects only; all
other properties hold regardless, because the merge that the un-booked round lets
through stops at the index.

Abstracted: TypeORM's save is one step; which
cancelled row was saved last (any may be). Not modelled: equipment projects, the page map and stamped pages,
removal of a round, the identity lock-out, file contents.

### NotificationDelivery

| Variable | Code |
|---|---|
| `switch`, `cached`, `update` | `notification_settings`; `cache` and `lineCache`; an update committed whose write-through is outstanding |
| `prefs`, `bound` | the users' preferences and verified address; `line_user_bindings` |
| `fanout` | where `queueEmail` and then `queueLine` are with a message |
| `job`, `run` | the Bull job of one recipient and channel, and the calls of the processor that execute it (after a timeout there are several) |
| `log`, `copies`, `faults` | the outcomes handed to `writeAuditLog`, messages the provider accepted, and what went wrong |

`AskSwitch` and `FillCache` are the two halves of `isEmailEnabled`, between which an
administrator may write. `QueueOne` applies the first gates; `GatesUnread` is a read
of theirs that throws, which `queueEmail` catches and which leaves the rest unqueued. `Pickup` reads the
second gates and the recipient: the run goes on to the post, is skipped, is refused, or one of the reads
throws, in which case nothing is reported and Bull tries again. An email whose template lacks a value
ends without a report (`email-notification.processor.ts:74-80`). `Post` and `PostAgain` are
`postWithRetry`, `Return` reports the outcome, and `Finish` is Bull taking note of the end: between the
two the job may time out or the process die. `Concluded`
decides how the job goes on: completed, tried again, or failed. `Timeout`, `Stalled` and `Crash` are
Bull's and the machine's. An "odd" LINE status is tried again: the text that is thrown is
none of those `isNonRetryable` looks for.

`log` holds what was reported, not what the table holds: `writeAuditLog` starts an insert, does not wait for
it and swallows its errors (`notifications-line.service.ts:626-672`), so that no row is ever certain and no
property speaks of rows.

Abstracted: one process; the gates at pickup are one step; which
of several active accounts is the newest. Not modelled: sandbox environments and messages that
bypass the verification of the address.

### Presence

| Variable | Code |
|---|---|
| `sockets` | `connectedClients` of the gateway |
| `key`, `gate`, `healthy` | Redis: `presence:user:<id>:source:<s>`, `presence:lastwrite:user:<id>`, and whether Redis answers |
| `memory` | `inMemoryLastWrite` |
| `age` | ticks since `users.last_seen_at` |
| `call` | calls of `markOnline` and `markOffline` at one of their awaits |
| `shown`, `next`, `sweeping` | what a subscriber heard last; the next sweep; the users it still has to look at |

A tick is 30 seconds. Each await is a step: `Probe`, `SetKey`, `CloseGate`, `WriteLastSeen`,
`EmitOnline`, and `DelKey`, `CheckSources`, `EmitOffline`. `calm` is history: the users whose
last event came from a call that no other call, lapse or outage got in the way of. `lost` are
users with an update that never happened (a crash, a failed query). Not modelled: the limit
of 500 users in a sweep, its failing query, deleted users, the read of a single user.

### AiQuota

| Variable | Code |
|---|---|
| `row` | the user's `ai_usage_quotas` row |
| `turn` | requests: guarded calls, chat turns of several hops, the unguarded title call, toggles and increments |
| `cached`, `logged` | the cached sum of `getOrgMonthlyConsumedThb`; the sum in `ai_usage_logs` |
| `spent`, `charged`, `mixed` | history: the provider's bill, deductions by period, and whether a save mixed two versions of the row |

`CompareX` is the read of TypeORM's `save`, which fixes the columns that will be written, and
`SaveX` the write. A renewal writes the constant 300 (`Renewal`) to `remainingQuota` and leaves
`quotaLimit` (`Limit`) as it is (`ai-usage-quotas.service.ts:250`, 389): the two are different constants here, and
a user with a smaller limit may use up to 300 after the first renewal. `Classify` is the land-use
classifier, which logs what it costs and deducts nothing. `WriteLog` may insert its row or fail: the callers
swallow the error (`ai.service.ts:282-292`), and the row is then missing for good. Money is
counted in units; one calendar month for the cap. Not modelled: the rounding of the two amounts to the four
decimals of their columns, increments by a negative amount (which the controller lets through), the administrator's PATCH,
removal and restoration of the row, the backfill.

### KnowledgeHub

| Variable | Code |
|---|---|
| `entry`, `history` | `ai_knowledge_entries`, `ai_knowledge_entry_revisions` (with, as history, the text the editor had before him) |
| `staged`, `refused` | `ai_knowledge_ingestions`; those rejected on receipt |
| `request`, `purge` | handlers between read and write; the rows of a running purge |

`BeginX` reads and checks, `CommitX` is the transaction. An edit asserts its version again
(`StillCurrent`), a transition does not. A repeated submission finds the first row, before or
at the insert (`RowFor`). The ages of items and the batch size of the purge are abstracted to "any
part of what may be purged". Not modelled: the rate window, payload limits and key checks, the
PII scan, audit rows, registration of sources, catalogue, tool bindings, search.

## 3. Runs

| Run | Instance | Shows |
|---|---|---|
| `revision_sequential` | 2 projects, 1 draft row, 1 request, 2 versions | types; bookings and leaves of the official version survive every correction and cancel, with overlapping lists |
| `revision_concurrent` | 1 forkable project, 2 draft rows, 2 requests, 2 versions | under interleaving the service implements `PublishedBook`; numbers; forks before and after the guard; the proofs' invariant |
| `supplement` | 1 forkable project, 2 draft rows, 2 requests, 2 versions | the same for supplements, with stale saves of the round: the refinement, numbers, bookings, leaves, forks, the locks |
| `workflow_one_by_one` | 1 project, 2 plans, 1 request, 7 stamps | types; the audit rows stay a walk through the workflow |
| `workflow_batches` | 2 projects, 1 plan, 1 request, 7 stamps, bulk changes of up to three moves | a closed book is settled; booked projects are not reverted |
| `workflow_concurrent` | 1 project, 1 plan, 2 requests, 6 stamps | no stage skipped, no project without a latest row |
| `delivery` | 1 message for 1 person with 2 LINE accounts, 2 tries of 2 posts, 2 runs at once, 1 crash, 2 faults, 1 change | causes of copies, consent, reported outcomes; every delivery ends, "off" is heard |
| `presence` | 1 user, 2 sockets and the heartbeat, 2 calls, 2 troubles | calm users are shown; `last_seen_at` covers the keys |
| `ai_quota` | 2 requests, 2 periods, limit 2, renewal 3, a call costs 2 | balance, periods, the figure compared with the cap |
| `knowledge_hub` | 2 entries of 3 versions, 1 submission, 2 requests | history, lost edits, provenance, refusals; the purge gets there |

Two runs are disagreements between the code and what it says of itself; each
checks one property that TLC refutes, and `findings` quotes the line:

| Run | What TLC finds |
|---|---|
| `workflow_two_latest` | two overlapping changes leave a project two latest rows |
| `supplement_correction` | after a correction of Part 1 or 2 a ready draft is never merged: `merge` answers with the deprecated version |

### Known disagreements without a run

Met while modelling; the models contain the steps that lead to each, or leave the part out as stated.

* *Books.* `merge` of a revision books its draft's list, approved by now or not, deleted or not
  (`edit-assembly.service.ts:906-922` says "Approved RPGs"), and so does the main book's
  (`main-assembly.service.ts:984`); only a project without a page is refused, by the CHECK on
  page numbers: in a revision one that `generatePart3` did not print, in the main book one that the rendering
  inside merge does not print. The fork guards run "INSIDE the transaction, BEFORE the
  deprecate write (atomic precondition)" (`edit-assembly.service.ts:1160-1161`; likewise
  `supplement-assembly.service.ts:685-686`): being inside the
  transaction does not make them so at READ COMMITTED, and a project forked after them is un-booked or
  deleted all the same (`late`). A stale save in `updateOpenState` un-books a revision
  under its official version (`development-plan-revision.service.ts:464`). After correct
  (Part 1), merge and cancel the leaf is a deprecated version (`edit-assembly.service.ts:1393`
  against 2139). A late save of a draft row revives a merged draft, and the next, refused merge
  overwrites the official file (`edit-assembly.service.ts:875`).
* *Supplements.* A stale save in `updateOpenState` or `update` un-books a supplement under its official
  version (`development-plan-supplement.service.ts:384`); every later merge then fails on the unique index,
  until that version is cancelled or corrected. `restoreDraft` does not look for a newer version, as
  437-443 says it does, and the parts it finds are in an older folder. `merge` queries the
  approved projects again: what Part 3 prints may be an older list, and `reusePart` leaves the page
  map of the previous Part 3. A rollback during a merge lets the cascade remove a project
  that the merge then books (comment at 2096-2101).
* *Workflow.* A rollback that overlaps the booking reverts a booked project
  (`tracking-status.service.ts:3746`). A project that is rolled back between the rendering inside merge and its
  commit is booked while it is not approved. The report on rejected projects of an unfinished plan resets the
  projects in review (`pdf.service.ts:1917-1923`). Rows of one transaction share `createAt`: a
  rollback after a bulk change that names a project twice may restore the older of its rows
  (`tracking-status.service.ts:3797`; `HistoryIsPath` is therefore checked with lists that name
  a project once).
* *Delivery.* A provider of email reports failure as a value
  (`util/email/providers/gmail.provider.ts:25-36`), which the processor takes for an end: email
  is never tried again, against `notifications-email.service.ts:403-404`.
* *Presence.* A key that lapses more than two minutes after the last write of `last_seen_at`
  is outside the sweep's window, and the user stays shown online (`presence.service.ts:420` against
  `presence.sweeper.ts:8-12`). The gateway says a disconnect records the last time seen; it does not.
* *Delivery of the audit.* Outcomes are reported without waiting and without an error path, so the audit
  may lack a message that was sent; an email that fails on its template has no row at all.
* *Quotas.* A renewal gives 300 to a row of any limit, so that used and remaining no longer make up
  `quotaLimit`. The guard is called a safety net that the deduction backs up
  (`quota-weight.map.ts:9-14`), but a deduction refused for lack of money leaves the call unpaid
  and unlogged, and a chat turn stopped between hops is not charged at all. The log lacks rows whose insert
  failed and has rows of the classifier that nobody was charged for; the cap counts the log.
* *Knowledge base.* The transitions are called strict (`ai-knowledge-hub.service.ts:1225-1229`), but
  two that overlap may take an archived entry back to published. Two promotions of one item make
  two entries, and a purge may overwrite the verdict of a promotion.

Where a guard fails under concurrency, the properties that *do* hold are the weaker ones,
and the strong ones are checked without overlap (`workflow_*`) or for the histories in which
the fault did not happen (`undone`, `late`, `mixed`, `calm`, `lost`): this separates a defect of
the logic from one of isolation. `NeverWithoutStatus` needs rollbacks kept out: two
rollbacks over a status change in flight delete both latest rows.

### Bounds

*Books.* `MaxVersion = 2`: one version to publish and one to correct, cancel or race with.
One project is enough for races on rows, two for lists that differ; two requests for
every pair of overlapping handlers. *Workflow.* `MaxStamp` bounds the transactions whose
audit rows exist at the same time (a rollback frees its stamps). Approval of one project
takes five, a bulk change less, so 7 leaves room for a merge, a correction and another
round of moves. *Delivery.* Two tries, two posts and two runs make retries inside retries
and a run that goes on beside its successor; two faults (a failed read, a failed post, a timeout) exhaust the tries, one crash
reaches the stall limit's first step; one person starts with either channel and the change may open the
other. *Presence.* `Ttl`, `Debounce`, the sweep and its window have the ratios of the code
(90 s, 30 s, 60 s, 120 s in ticks of 30 s); two calls overlap pairwise; two troubles are an outage
and a crash. *Quotas.* One call fits the limit and two do not; two periods make one renewal,
which two requests can both attempt, and which gives more than the limit. With such a limit the run checks the
balance until a save mixes two versions; that it holds without exception when limit and renewal agree is proved. *Knowledge base.* Three versions make two edits that race and a third over them.
Symmetry is used in runs without liveness only, on sets that occur in no constant expression
asymmetrically.

**Deadlock** is checked in the workflow, presence and quota runs. The others say
`CHECK_DEADLOCK FALSE`: when the bounds on versions, changes and faults are used up and nothing is in
flight, the bounded system may stop.

### Fairness

The books and the workflow have none: a user may walk away and a request may fail. In
`NotificationDelivery` the steps of the event loop and of Bull are weakly fair (a fan-out
in progress goes on, a waiting job is picked up, a stalled job is noticed, a post comes back since it has a
timeout, a cache entry gets old); crashes, timeouts, users and administrators are not.
In `KnowledgeHub` the nightly cron is: its collection weakly (`@Cron`), its
commit strongly, because single nights may fail but not all of them for ever.

Each property of a passing run has a mutant in `PROJECT.json`: a change of one
definition, as a plausible mistake in the code would make it, under which TLC
refutes the property. The mutants' definitions stand before the ones they change.

## 4. Proofs

All theorems hold for any sets of rows, users, requests and any bounds; each uses only the
named assumption on constants of its module, except those about the workflow, which state more:
the two history theorems of `ProjectWorkflowProofs` assume that `Kinds` has no rollback, as in the run
`workflow_concurrent`, and those of `WorkflowAloneProofs` that requests do not overlap
(`OneAtATime`), as in the runs `workflow_one_by_one` and `workflow_batches`. Every safety
invariant and action property of a passing run is stated by a theorem.

| Module | Theorems |
|---|---|
| `RevisionAssemblyProofs` | types, the newest version, bookings, leaves, the refinement of `PublishedBook`, forks |
| `SupplementAssemblyProofs` | the same for supplements, and the locks |
| `ProjectWorkflowProofs` | types; without rollback `NoStageSkipped`, `NeverWithoutStatus` |
| `WorkflowAloneProofs` | without overlap `SingleLatest`, `HistoryIsPath`, `BookedPlanSettled`, `BookedNeverReverted` |
| `NotificationDeliveryProofs` | types, `ExtraCopyNeedsFault`, `ConsentAtDispatch`, `LineFaultsAbsorbed`, `OutcomeReported` |
| `AiQuotaProofs` | types, `BalanceConsistent`, `NeverOvercharged`, `CapNeverPremature` |
| `PresenceProofs` | types, `LastSeenCoversKeys`, `CalmUsersShown` |
| `KnowledgeHubProofs` | types, `HistoryMatches`, `NoLostEdit`, `ProvenanceKept`, `RefusedStaysOut` |

*RevisionAssembly.* `OfficialIsNewest` is not inductive: a merge publishes the number
a draft has aimed at since its creation, and a request may save a row that old.
`Inductive` adds that published numbers are exactly `1..n` (`NumbersDense`) and
that no draft row and no row a request is about to write aims past `n + 1`
(`DraftsAimNext`, `RequestsAimNext`). The unique index on version numbers refuses
every target up to `n`, so a commit publishes `n + 1` (`MergeTargetIsNext`). The index
on completed versions means no official version exists at that moment, so nothing
else needs its bookings or leaves; `MergeLineage` and `CancelLineage` say what a
commit and a cancel do to the leaves. The refinement maps `last` to `MaxNumber`, `official`
to the completed version's number and `printed` to the lists: a commit is `Publish`, a
cancel or correction is `Retire`, every other step stutters (`BookStep`). For the forks
`ForksKnown` is inductive: whatever forked project a request is about to un-book or delete was forked after it
had looked.

*SupplementAssembly.* The same index stands behind a lock. `MergesAlone` says that
while a request merges the round is not booked, no other request merges, and the number it
will take is still the next one; an unbooked round may still have an official version, after a stale save, and then
`CanCommit` stops the merge. So a commit always meets a book without an official version and
creates the only one, and the refinement needs no exception. `ParentsListed` is needed because a cancel makes the parent
the leaf again. A correction of Part 1 or 2 keeps the bookings, and leaves no official version to speak of.

*ProjectWorkflow.* Both history theorems rest on `HistoryInvariant`. `WritesFollow` says that each
write of a request follows either an earlier write of its own list or a row that is still in the
history; the row read may have stopped being the latest, but only a rollback deletes rows, and
`NothingRollsBack` keeps those out. A commit inserts a row for each project whose rows it clears, and
`NewStamp` is greater than every stamp in use (`Greatest`: a bounded set of numbers has a greatest
element, shown without induction over data), so the new row is none of the cleared ones and the
project keeps a latest row.

*ProjectWorkflow, without overlap.* TLC refutes `SingleLatest` for two requests at once
(`workflow_two_latest`); `WorkflowAloneSingleLatest` proves it for one at a time, so the defect is the
missing isolation and not the logic of a handler. Four invariants build on each other, and TLC checked
each on the instances of the two runs before it was proved:

* `AloneInvariant`: the rows of a project have different identities and one is latest; the time of
  the request in progress is later than every row (`Later`), its UPDATEs have touched all rows of
  the projects it writes about (`Clears`), and what a rollback has read is still the latest row and the
  most recent other one (`Reverts`).
* `WalkInvariant`: ordered by time the rows are a walk from Ready (`Walk`), and what a request will
  write may follow the row that is latest (`Lawful`). It needs a list that names a project once
  (`ListedOnce`): a list that repeats one gives two rows one `createAt`, and the walk has no order.
* `BookInvariant`: nothing in progress has read a book open that is now closed (`Unbooked`).
  It holds for any number of plans, with cancel, restore and corrections.
* `BoundInvariant`: a booked project is approved or rejected (`Final`), and no request in progress
  is about to book another or to move a booked one (`Careful`). It holds for any number of plans, because a merge
  renders what it lists and only what is approved is printable; it needs that no plan is
  cancelled, since a cancel resets booked projects to Ready by design.

*NotificationDelivery.* `ExtraCopyNeedsFault` counts what may still come: `Paid` says that the copies
made, the runs that Bull has given up on and that may post again (`Loose`), and one more while the
job may start a run or has one that is not done (`Open`), are together at most one more than the
faults. A timeout makes a run loose and pays for it; a crash takes all runs. `JobSound` says that
Bull follows one run at a time, and `QueuedOnce` that the fan-out never queues a job again.
`OutcomeInvariant` keeps accounts from the other side. `Budgeted` says that the tries Bull has used, and
the stalls it has counted, are covered by faults and crashes, so a job fails for good only after
as many as there are tries. `Recorded` says that a LINE job that is completed, or has a run that is about to
complete it, has had its message accepted, or was skipped or refused, and that this was reported.

*AiQuota.* A save writes a mixture of two rows. `SavesBothAmounts` says that `used` and
`remaining` differ together - since both copies balance, one differs exactly when the other does - so no
mixture breaks the balance. It holds when the limit is what a renewal gives; for another limit one amount may differ
alone, a mixture may break the balance, and the theorem then speaks of histories without one. `CopiesCovered` says
that the copies requests hold were themselves deducted, but for the cost they are about to add.
`CapNeverPremature` says that what is logged and what the calls in progress have cost are together at most
what was spent; a call adds its cost to both sides, a log row moves it within one side, and a failed insert
or an end takes it from that side. It has a sum over the requests, which the community modules define by
recursion over subsets. The induction theorems of the library cannot be used, so the lemmas argue by a
smallest counterexample: a finite set's family of subsets has a minimal member (`SmallestSubset`). From it
follow that the recursion has a solution (`SumExists`), that any element may be taken first
(`SumTakesAny`), and that one term that changes changes the sum by as much (`SumChanges`).

*Presence.* `LastSeenCoversKeys` follows from `GatesWitness`: a gate that is still closed, in Redis or
in memory, witnesses an update of `last_seen_at` no older than the time it has been closed. A tick ages
keys, gates and the time seen alike. `CalmUsersShown` follows from `ShownInvariant`: a call marked as
alone has no other beside it (`AloneIsAlone`), and a calm user with a live key is shown except between
the setting of the first key and the event that follows it (`CalmIsQuiet`).

*KnowledgeHub.* `RequestsSound` says that what a request has read was true: an edit whose version is still
the current one has seen the current text. `StagedSound` keeps items that were refused on receipt
from becoming reviewable again.

Each action has its lemma, and one lemma per module gathers them for `Next`.

*Only model-checked*: `EveryDeliveryEnds`, `OffIsHeard` and `StagingIsPurged`, which are liveness under
fairness, and the two findings. *Out of the prover's reach*: liveness and ENABLED, recursive operators (none
of the modules declares one), and the library's induction theorems, which take an operator as
a parameter; where induction over data was needed it is a smallest-counterexample
argument for one formula, as in `AiQuotaProofs` and for `Greatest`.

## 5. Plan

1. Weaken `OneAtATime` in `WorkflowAloneProofs` to "no two requests about the same project": each
   of its invariants is about one project and the request that works on it, except where a
   merge or cancel takes all members of a plan.
2. `MainAssembly`: draft life cycle, corrections of each part, two plans, lineage;
   an implementation of `PublishedBook`, and the hazards listed at
   `main-assembly.service.ts`.
3. `BookChain`: creation of revisions, book lock and lineage lock over several books,
   composed with the abstract book of each.
4. `SessionRegistry` and `Lockout`: a cache against revocation, a counter with a fallback.

## 6. Not modelled

The map covers a small part of the repository's lines, and most of the rest will not be modelled. Half of the source is
prompt building and tool handlers of the AI services, PDF layout, DTO mapping, look-up tables, dashboards
and read queries, which keep no state that steps of several actors change. Equipment, revised and supplement
projects repeat the workflow of main-plan projects over other tables, handler by handler. Citizen and
public engagement are independent records. `PROJECT.json` gives the reason for each component.
