# David Leads: a TLA+ model of the system and its evidence workflow

David Leads is a FastAPI application that finds organizations in public filings
and lets licensed operators research them. Scheduled jobs collect the filings
and publish them as signed snapshots on a dataset hub; the server reads the
snapshots, shows public boards and answers operators. Its core is an evidence
ledger in PostgreSQL, which decides what may be relied on, and the operators'
workflow on top of it, which ends in a manual research task that a worker
delivers. Beside it stands the broker desk, which decides whether a business may
be called. This directory models these, checks them with TLC and proves with
TLAPS nearly all the safety properties that the runs check.

Paths below are relative to the repository root.

## 1. Inventory

| Component | Code | State | Operations |
|---|---|---|---|
| Evidence ledger | `app/domain/david_postgres.py`, `app/evidence_schema.sql` | nodes and edges, a decision epoch and a suppression flag per scope, grant tombstones, manual tasks, outbox | append, admit_observation, revoke/correct, revoke_grant, suppress, create_manual_task, claim_outbox, begin_outbox_dispatch, finalize_outbox |
| Reference ledger | `app/domain/david_reference.py` | a graph and an event log in SQLite | append, revoke, get, state |
| Operator workflow | `app/domain/david_workflow.py`, `app/workflow_api.py`, `app/domain/operator_policy.py` | none of its own; the operator's screen and the policy file | workspace, admit, review_identity, brief, review_brief, clearance, manual_task, correct, suppress, outcome, counter_evidence, refresh_source |
| Source admission | `app/domain/source_admission.py` | the admission policy file | load_admission_policy, get_admitted_observation, validate_stored_admission |
| Source health | `app/domain/source_health_store.py`, `app/domain/source_policy.py` | one record per source and tenant | record_attempt, current_source_health, source_status |
| Deal desk | `app/dealdesk.py`, `app/dealdesk_schema.sql` | `_STATE`, `_KNOWN`, the state file or table, the event table | record_research, record_clearance, update, record_disposition, call_sheet, export_rows |
| Receipts | `app/receipts.py`, `app/consensus.py` | the tip of a hash chain, witness keys | make_receipt, witness quorum, verification |
| Collection and publication | `tools/ingestor/`, `app/benefit_frontier.py` | a local bundle; a Hub dataset with snapshots and a latest pointer per lane | collect, build, publish_snapshot, verify_snapshot |
| Snapshot readers | `app/federal_*.py`, `app/echo_snapshot.py`, `app/echo_name_screen.py` | a cache per lane | load the latest pointer, load a pinned revision |
| Evidence constellation | `app/evidence_constellation.py` | none that outlives a pull | group, status, clock, grade |
| Public boards | `app/server.py`, `app/frontier_sources.py` | rendered boards, receipts behind them, the ECHO selection, a refresh slot | board, receipt, verify |
| Operator sessions | `app/server.py` | tokens in memory | login, logout, the two reads of a request |
| Consent capture | `app/server.py` | the opt-in list and its file | optin, list |
| CRM webhook test | `app/server.py` | one request | resolve, connect, send, judge |
| Work loop, receipt lake | `app/work.py`, `app/receipt_lake.py` | the lake and its mirror file | work, append, query |
| Release and operations tooling | `ops/`, `.github/workflows/rotate-space-credentials.yml` | secrets and settings of the Space, gate artifacts, a report | rotate, canary, diagnose, report, validate |
| Scoring, signals, demo backend, browser client | `app/scoring.py`, `app/signals*.py`, `backend/`, `app/static/` | none that outlives a call | |

How they interact. The server builds, per request, a `Workflow` over a
`PostgresLedger` connection; the workflow takes the ledger's scope lock, reloads
the operator policy and the clock under it, reads the graph and appends. The
workflow's context digest and the ledger's epoch are the two mechanisms that tie
a decision to the evidence it was taken on. A worker, which is not in this
repository, claims tasks from the outbox. Source admission reads a snapshot at a
pinned revision, feeds observations in and is consulted again on every later
use; the source health records its attempts. Collection jobs write a bundle, the
publisher moves it and the lane's pointer to the hub in one compare-and-swap
commit, and the readers cache what they load. The public boards collect from the
readers under a refresh slot, and mint a receipt per pull; the work loop, the
boards and every signed answer share the process's one chain of receipts. The
rotation replaces the Space's credentials and asks the running Space until its
answers carry the new generation. The deal desk, the consent list and the
webhook are independent of the ledger.

What is hard: requests composed on screens that have gone out of date, a
correction racing derivations, a grant shared by scopes, policy files replaced
between two steps of one case, evidence expiring along chains of derivations,
workers that crash or outlive their lease, two publishers on one branch, a
commit whose answer is lost, a day that ends between two steps of a run,
handlers that FastAPI runs in threads over dictionaries and files without a
lock, locks ordered by Python in one transaction and by the database's collation
in another, and a stale process that answers for a restarted one. The list, line
by line, is `hazards` in `PROJECT.json`.

What makes each component correct:

- ledger: nothing valid rests on anything revoked or withdrawn; suppression and
  withdrawal are complete and final; whatever was reviewed cannot change under
  an unchanged epoch; a task is delivered at most once, by the last holder of
  its lease, and only while its evidence stands; it does what the reference
  ledger does, and its transactions do not wait on each other for ever.
- workflow: a clearance in force rests on the latest decisions and on no open
  contradiction; nobody decides on an outdated screen; a chain has one policy.
- source health: attempts take effect in order, the last success survives
  failures, HEALTHY is said only of what was verified under the key held now.
- deal desk: a do-not-call request is never lost and covers every opportunity of
  the business; no mixture of concurrent requests makes a row that is cleared
  and suppressed, or in a contact stage without a clearance; success is durable.
- receipts: the chain does not fork; a consensus reaches its quorum.
- publication: the latest pointer never moves back, a published snapshot is
  complete, and what is served was current and is fresh.
- collection: a written bundle holds what its source answered, complete per
  state, and every job ends.
- constellation: groups are what shared identifiers and exact names connect, in
  whatever order records come; certainty is not claimed beyond the evidence.
- public boards: dictionaries stay bounded, an answer's receipts can be verified,
  the slot is always freed. Sessions: nobody writes under another's name, and a
  logout ends a session. Consent: what was acknowledged is kept. Webhook: at most
  one delivery, only to a validated address, and "sent" is said of an accepted one.
- rotation: the evidence of an attempt comes from the process it started, from
  one dataset revision that was fresh; the login it made is closed. Release: a
  complete report stays complete until the moment it names.

## 2. Modules

| Module | What it is |
|---|---|
| `EvidenceLedger` | the ledger; one action per committed transaction |
| `AtMostOnceDelivery` | what the outbox promises, as an abstract specification; `EvidenceLedger` refines it |
| `ReferenceLedger` | the reference ledger, a specification of its own |
| `EvidenceReference` | how the tables of `EvidenceLedger` are read as the reference's graph and events; the refinement |
| `LedgerLocks` | the row locks below the atomic steps of `EvidenceLedger` |
| `OperatorWorkflow` | the workflow; EXTENDS `EvidenceLedger` and calls its actions |
| `SourceHealth` | checks of the admitted source, their record, the status shown |
| `DealDesk` | the broker desk, its request threads and its database |
| `DeskFile` | the desk over its file store |
| `PublishedRegister` | what the publisher promises, as an abstract specification |
| `SnapshotPublication` | publishers, the hub and the readers with their caches; refines `PublishedRegister` |
| `EchoExport` | the ECHO lane, from an archive row to a served record |
| `FrontierCollection` | one scheduled collection job |
| `ReceiptChain` | receipts, witnesses and the threads that mint them |
| `PublicBoards` | the anonymous boards, their dictionaries and the refresh slot |
| `Constellation` | grouping, status, clocks and grades of one pull |
| `OperatorSessions`, `ConsentCapture`, `CrmWebhook`, `WorkLoop` | the server's parts that keep state or talk to the outside |
| `ReaderRotation`, `ReleaseContract` | the credential rotation with its canary; the release report |
| `EvidenceStore` | the ledger with its reference (EXTENDS `EvidenceReference`), the row locks and the reference's own graph |
| `FederalSnapshots` | `SourceHealth`, `SnapshotPublication` and `Constellation` |
| `FederalCollection` | `FrontierCollection`, `ReaderRotation`, `ReleaseContract` and `EchoExport` |
| `Server` | `OperatorSessions`, `ConsentCapture`, `PublicBoards`, `WorkLoop`, `CrmWebhook` |
| `EvidenceLedgerProofs` | theorems about the ledger and the row locks of `EvidenceStore` |
| `EvidencePromiseProofs` | theorems about what the ledger promises: the outbox, the epochs, the reference ledger |
| `OperatorWorkflowProofs`, `DealDeskProofs`, `DeskFileProofs`, `ReceiptChainProofs` | theorems about the module each is named for |
| `FederalSourceProofs` | theorems about the parts of `FederalSnapshots` and `FederalCollection` |
| `ServerProofs` | theorems about the parts of `Server` |
| `MCEvidenceLedger`, `MCOperatorWorkflow`, `MCDealDesk`, `MCReceiptChain` | values, small sets and symmetries for TLC |
| `MCLedgerGraph`, `MCWorkflow`, `MCDealDeskThreads`, `MCServer`, `MCSources`, `MCCollection`, `MCProgress` | several instances each, joined into one run |

`EvidenceStore`, `FederalSnapshots`, `FederalCollection` and `Server` put side by
side what the code keeps side by side: their parts are instances with variables of
their own, as the code's handlers and jobs touch one part in a step. They name the
properties of the parts; a run and the theorems about them are both about these
names.

### EvidenceLedger

`epoch`, `suppressed` are `decision_scopes`; `withdrawn` is
`source_grant_authorities.revoked`; `node` is `evidence_nodes` with
`evidence_edges`; `outbox` holds the `MANUAL_TASK_READY` rows; `held` is what a
worker remembers of its claim; `authorized` is what the operator policy grants;
`clock` is wall time. Actions carry the methods' names: `AppendEvidence`
(append), `AdmitObservation`, `Revoke` (revoke and correct), `RevokeGrant`,
`Suppress`, `CreateManualTask`, `ClaimOutbox`, `BeginDispatch`,
`FinalizeDispatch`; `WorkerStops` is a crash or an abandoned lease.

A transaction is one step because every transaction holds the row lock of its
scope from its first read to its commit. What the locks do not make atomic stays
separate: the caller's reading of the clock may lag (`Readings`, `MaxLag`), the
epoch it expects is an argument, and claim, dispatch and finalize are three
steps of a worker between which anything may happen. A call that raises `Hold`
changes nothing and is no step.

Abstractions. An id is a number in order of insertion, not a digest; a retry of
stored content is recognised by equal content. A node keeps the answer of the
recursive edge query (`lineage`), which never changes as edges are only written
with their child; `LineageIsTheWalk` checks it against the least fixed point.
Projection rows stand and fall with their node and are represented by it, except
for the unique keys of grants and observations (`ProjectionKeyFree`). Stored
bytes are assumed intact.

### OperatorWorkflow

`client[o]` is the workspace operator `o` last loaded; every request `o` sends
carries that epoch, however old. `admitting` is the set of grants the admission
policy file states. Each operation of the API is an action with the method's
guards (`Usable` is `_node` with `_current_admissions`, `IsLatest` is
`_require_latest_decision`, `EvidenceContext` the digest a brief is bound to)
that appends through the ledger's actions with `expected_epoch` and the clock
read under the lock. Authority is that in force at the commit: `_reauthorize`
refuses a request whose policy was another. Bodies keep what later steps read.
A screen's `seen` is what the operator was shown; no code compares it, the
property `DecidedOnWhatWasSeen` does. `NEEDS_REVIEW` is a decision like
`REJECTED` for every later check and is left out, as are the reads
(`view_node`, `decision_diff`) and the 500-node limit. `refresh_source` is in
`SourceHealth`.

### AtMostOnceDelivery

An item waits, is attempted at most once, and settles as published, unknown or
(before an attempt only) cancelled: the docstring of `begin_outbox_dispatch`.
The ledger refines it under the mapping `deliveryOf`, which forgets leases,
tokens and workers.

### DealDesk

`memory` is `_STATE`, `known` is `_KNOWN`, `store` the table
`david_dealdesk_state`, `health` is `_PERSISTENCE_HEALTH`; `task[h]` is what
thread `h` has in its local variables. Unlike the ledger, the desk has no lock
around a handler, and FastAPI runs its handlers in threads, so a request is
several steps between which others run:

| Step | Code |
|---|---|
| `Board`, `RecordResearch`, `RecordClearance`, `Update`, `RecordDisposition`, `CallSheet` | readiness, `_saved`, the checks, the candidate row (no I/O in between) |
| `TakeSnapshot` | `snapshot = {**_STATE, oid: candidate}` in `_commit` |
| `Write`, `WriteFails` | `_persist`: one transaction that upserts every row |
| `Publish` | `_STATE[oid] = candidate` |
| `Enrich` | `enrich` up to its first `_persist` |
| `Answer` | the rest of `enrich`, which may commit once more |
| `ReloadReads`, `ReloadWrites`, `ReloadClears`, `ReloadInstalls`, `ReloadFails`, `ProbeFails` | `_refresh_postgres_health` |
| `Restart` | a crash, and `_load` |

A write that fails may have taken effect (the acknowledgement was lost).
`promised` and `crowded` are history variables: the aliases of every do-not-call
request that was committed, and whether two requests have been in progress at
once. A clearance is kept as the time it ends. `Observations` gives for
each opportunity what the sources may report of it; its aliases are a name and
official numbers, and `Named` says that an opportunity keeps its name, which its
id is made from. Computing an alias (`subject_ids`, hashing) is the identity,
except that a saved identity does not reproduce some identifiers
(`Unrestorable`).

The desk's other store, a JSON file, has a module of its own below.

### DeskFile

`file` is the state file (none when it does not exist), `memory` is `_STATE`,
`acked` and `crowded` are history variables: the updates answered with success,
and whether two requests have been in progress at once. Every desk
request and every health check first probes the file: under the `flock` with its
two-second deadline it reads the rows and replaces the file by the same bytes
(`Probe`, `Replace`), and after the lock clears `_STATE` and fills it (`Clear`,
`Fill`). Then come the handler's row (`Handle`), the snapshot of all rows
(`Commit`), its replacement of the file (`Acquire`, `Write`), `Publish` and the
enrichment of the answer (`Enrich`), which may write again. A file operation may
fail at each of them, a waiter may reach its deadline, and the process may
restart. A row is the set of updates in its history, which is all the properties
tell apart; `DealDesk` says what rows say.

### LedgerLocks

`EvidenceLedger` takes a transaction for one step. `LedgerLocks` shows the locks
that make it so: one row per grant (`source_grant_authorities`) and one per scope
(`decision_scopes`), taken one at a time, kept to the end of the transaction and
waited for. `Ordered` is the order in which scopes are taken, `Blockers(t)` all
the transactions that stand in the way of `t`, directly or not. `holder` is who
has a row, `tx` what each connection's transaction is
and still has to lock. An admission and a withdrawal lock the grant and then
scopes; a claim goes on to the next scope while it finds nothing to lease; every
other operation locks one scope (`Begin`, then `Step`: lock, write or end). Two
orders of the scopes matter: `CodeOrder`, by which a withdrawal sorts
(`sorted(...)` in Python), and `collation`, by which a claim does (`ORDER BY
scope_id`); it is one of `Collations`, chosen when the database is made. PostgreSQL's deadlock detector ends one of the transactions that wait
on each other, and its writes with it. Contents other than which scopes hold
evidence of a grant are left to `EvidenceLedger`.

### ReferenceLedger

`dag` is the nodes and edges, `events` the count of revocation events per node.
`Insert`, `Revoke` are `append` and `revoke`; there is no clock, as each call
brings its own reading. `InsertTwo`, and a `Revoke` of several roots, are the
series of calls that the production ledger runs in one transaction.
`EvidenceLedger` refines it under `dagOf` (nodes, parents, expiry, revoked or
not) and `eventsOf`; `EvidenceReference` states the refinement
(`ImplementsTheReference`).

### SourceHealth

`record` is the tenant's row, `policy` and `key` the two files a deployment
replaces (`ReplacePolicy`, `RotateKey`), `ch` what each check is doing: `Begin`
reads the policy and the clock, `Fetch` reads the snapshot and verifies it with
the key of that moment, `RecordAttempt` is the transaction that keeps or refuses
the attempt, `Refuse` one whose scope moved on or whose operator lost the right. `verified` is a history
variable. The status shown (`Status`) lays the policy and the key of now over the
record, as `current_source_health` and `source_status` do. The several states of
an attempt always come from one outcome and are one field.

### PublishedRegister and SnapshotPublication

The register promises that a snapshot is added once and that the pointer of a
lane never returns to an older processing or source date; a step of it adds a
snapshot. The detailed module
has publishers (`pub`, `dir`), the revisions of the hub's main branch (`hub`),
the publication receipts, and reader threads (`load`, `served`) over `_CACHE`.
A publisher freezes its bundle, resolves the head, checks the pointers it finds
there, commits against that head, reads the commit back and writes its receipt;
each is a step, each hub call may fail, a commit may take effect although its
answer is lost, and the process may stop before any step and run again in the
same directory. A reader looks in the cache, reads the pointer at the head,
loads, checks freshness and puts the result into the cache; threads interleave.
A bundle is its digest, so files under a content-addressed path are one read.

### EchoExport

The ECHO lane row by row: `run` streams an archive, `bundle` is what verified
itself, `latest` what the pointer names, `read` the runtime's load, which uses
its own verifier because the production image does not carry the ingestor's.
The property is that the two, written twice, agree. Hashes are what they bind: a
file that is not its snapshot's whole part has `intact = FALSE`. A name is its
length and the position at which a personal name or a residence shows in it. The
day may change between any two steps.

### FrontierCollection

One job of `frontier_refresh_cli.py`: for each requested state in turn the call
(`Began`), its failure or answer (`CallFails`, `CallReturns`), the pause
(`Retry`) and in the end the bundle (`Build`), which must verify. The adapters
are operators on the rows a source answers: which are taken, which pass
`validate_record`, the order and the cut of benefit filings, and the accounting
written beside them. A filter is a recursive function (`Those`). One filing is kept
for a sponsor (`OnePerSponsor`, a set of positions), and filings of one rank stay in
the order in which their sponsors were first met (`Above`), as a dictionary and a
stable sort leave them; a filing's place is the number of those above it
(`Ordered`). What the day is enters the windows and the checks of the bundle.

### ReceiptChain

`tip` is `_chain_tip["hash"]`, `built` every payload whose hash was computed,
`issued` those returned, `stored` those a handler kept, `keys` the witness keys
by generation, `lock` the holder of `_RECEIPT_LOCK`. `make_receipt` is four steps
of a thread (read the tip; build and sign; witness, generating keys when there
are none; advance the tip), which interleave with those of other requests; only
the public-source collectors hold a lock. `Arrive` starts any reachable surface,
`Restart` empties the process. A signature is whether a key was there.

### PublicBoards

`cache` holds `_PUBLIC_RECEIPTS` and `_PUBLIC_BOARD_CACHE` as sequences in
insertion order; the eviction loop is one loop over the dictionary a thread is
trimming, its size test, its choice of a victim and its pop being steps, since
another request may run between them. `echo` is `_ECHO_CACHE`, `slot` the
holder of `_PUBLIC_FRONTIER_LIMITER`. `alone` marks a request during which no
other ran. `torn` is a history variable: whether an expired board was dropped
while boards were trimmed, and no trimming of them has finished since.

### Constellation

`parent` is the union-find over the positions of a pull, `byId` and `byName` the
links recorded. One identifier, or one candidate key, is linked per step, in any
order, so that every order of records and keys is a behaviour; then only time
passes. Status, group id, clock and grade are operators on the result.

### The server's other parts

`OperatorSessions`: `sessions` is `_TOKENS`; a request reads it more than once
(`DeskAuth`, `DeskName`; `FlowBind`, then under the scope's lock
`FlowAuthAgain`) while other threads log in and out, sessions expire and the
process restarts. `ConsentCapture`: `leads` is `_OPTIN_LEADS`; a submission
appends, opens (which truncates), serialises, closes (which writes from the start
of the file) and answers; write errors are swallowed, a file that does not parse
is ignored at the start. `CrmWebhook`: one push with its addresses, its deadline
and the CRM's copies; the name server may answer otherwise at any time (`Rebind`).
`WorkLoop`: requests with any budget and threshold over score curves, appending
to `lake` and, when the write does not fail, to `mirror`; a query is a set of
positions of the lake, those of the newest matching receipts.

### ReaderRotation and ReleaseContract

`settings` are the secrets and variables of the Space, `procs` the processes that
may answer (the stale one first), `history` the dataset's commits, `job` the
rotation: it pins a revision, binds the pointers, installs the secrets one by one
and the generation last, waits for a healthy answer of that generation, logs in
and out, and compares the board and the build information with what it bound,
all within a bounded number of tries. Publications, deployments, crashes, cache fills and
expiries happen in between, and a failed attempt may be run again under another
generation. `ReleaseContract` has gates that leave artifacts, a report that
binds them by digest, and `Complete`, which is `validate`; what produces
artifacts and report is outside the repository and only shaped by the contract.

## 3. Runs

A run of a module `MC...` may hold several instances. A variable `part` (or
`instance`) says which of them a behaviour is about and never changes; instances
of different components share no variable, so the others rest in their initial
state, and what TLC explores is the union of what it would explore for each
alone. A property that only makes sense of one instance is stated of the
behaviours about it (`LocksSuffice` asks for freedom from deadlocks where the
scopes are sorted alike); one that is not restricted is true of the resting
state as well.

The properties are stated in the component's module, each with a name and a
comment. A run checks them under the names of the questions they answer
together: `EvidenceStands` is the conjunction of what must hold of valid
evidence, `LocksSuffice` of what row locks must give, `RequestsEnd` of what every
request is owed. A conjunction stands in the component's module when it is about one
component, and in the module that composes components when a run has several. A module's type invariant is checked with the property
that leans on it, and those of the workflow and of the two desks are proved.

### Fairness and deadlock

Safety runs use `Init /\ [][Next]_vars`. Liveness is claimed where the code
justifies fairness, and nowhere else; `progress` states each module's fairness
for the behaviours about that module and checks all of it:

| Module | Fairness | Why |
|---|---|---|
| `FrontierCollection` | `WF(JobStep)` | a scheduled job is one thread; its calls have a timeout, its pauses are finite and its retries counted |
| `PublicBoards` | `WF(Work(t))` for every thread | a request thread goes on; collecting under the slot ends with an answer or an exception, and `finally` frees it |
| `LedgerLocks` | `SF(Step(t))` for every transaction | PostgreSQL queues those who wait for a row, and its deadlock detector ends one of a cycle; a row that is freed and taken again and again is why weak fairness would not do |
| `CrmWebhook` | `WF` of the handler's steps | every socket call has what is left of the deadline as its timeout |
| `ReaderRotation` | `WF(Attempt)` | the job's polling has deadlines, its tries are bounded |
| `DeskFile` | `WF(Step(h) /\ CountCrowd)` for every thread | waiting for the file's lock ends at a deadline of two seconds |

No request, publication, deployment or tick of a clock is assumed to happen. For
the outbox nothing is claimed to happen at all: `claim_outbox` has no caller
outside its tests, so no scheduler is part of the repository.

An instance stops when its bounds (ids, clock, attempts) are used up, so TLC's
check for deadlocks is off in every run. Where waiting on each other is the
question, a property asks it: `LocksSuffice` with `NoDeadlock` and
`DeadlocksAreClaimsAgainstWithdrawals` of the row locks, and `RequestsEnd` and
`JobsEnd` of `progress`, which a thread that waits for ever violates.

### `ledger_dispatch` (`MCEvidenceLedger`)

One scope; a source or an observation under a grant, clearances, tasks; 4 nodes, 2
epochs; 2 workers, 2 idempotency keys, 2 tokens,
clock to 2, lag 1, leases of 1. It shows fencing, recall, what a dispatch rests
on, and the refinement of `AtMostOnceDelivery`. Two tokens are a lease and its
takeover; a clock to 2 with leases of 1 lets a lease end and be taken over before
the evidence expires. `MaxLag` 1 with that clock includes a caller whose reading
predates the other worker's whole lease.

### `ledger_graph` (`MCLedgerGraph`)

| Instance | Bounds | What it shows |
|---|---|---|
| lineage | 1 scope; grants, observations, briefs; 4 nodes, 4 epochs, expiries 1 and 2, clock to 1 | corrections reach every derivation, expiries shrink along chains, material epochs are distinct, context changes advance the epoch |
| withdrawal | 2 scopes sharing a grant; 4 nodes, 3 epochs | withdrawal and suppression are complete, including scopes first seen afterwards, and final |
| tasks | 1 scope; repeated task requests, clearances and corrections; 5 nodes, 3 epochs | an idempotency key has one task |
| graph | `ReferenceLedger` alone: 4 ids, 2 expiries, clock to 1 | every graph of up to four nodes: validity is inherited at every reading of the clock, a revocation is recorded once and never undone |
| locks | 3 connections, 2 scopes, 1 grant; the database sorts the two names like Python or the other way round | where they are sorted alike (`SortedAlike`) no deadlock, otherwise only a claim against a withdrawal; a withdrawal reaches every scope that holds evidence of its grant |

On the first three every transaction is also shown to be one or a short series of
operations of `ReferenceLedger` (`ImplementsTheReference`).

Four nodes give a chain of three and a sibling. Three connections are a claim, a
withdrawal and a third that makes them wait; two scopes are the least that two
orders can differ on. Three of the four ids, and the connections, are
interchangeable.

### `workflow` (`MCWorkflow`)

| Instance | Bounds | What it shows |
|---|---|---|
| decisions | 1 operator, 1 policy (the authority is one policy's from the start), 8 nodes, 6 epochs, clock to 1, decisions live 1 | what a clearance in force rests on |
| duties | researcher and manager, each with own screen; 8 nodes, 6 epochs | nobody decides on an outdated screen |
| policies | 2 policy files, one of which ends at 1; 7 nodes, 5 epochs | one policy per chain |

Seven nodes are a whole case (grant, observation, organization review, brief,
brief review, clearance, task); the eighth is the event that disturbs it.
`workflow_contradictions` is an expected violation, see below.

### `sources` (`MCSources`)

| Part | Bounds | What it shows |
|---|---|---|
| health | 2 checks at once, 3 attempts, 2 snapshots and 2 keys, 2 changes of policy or key, clock to 4, freshness 2 | HEALTHY is verified under the key held now and fresh; the newest attempt is shown; a success is only replaced by a newer one |
| race | 2 publishers, 2 lanes, 2 commits, clock to 2, crashes, lost answers, reruns | the dataset refines `PublishedRegister`; each receipt names a commit that adds its bundle and nothing else to the parent it names; every revision is whole; a pinned revision admitted once is refused later only for its age |
| loads | 1 publisher, 2 readers, clock to 1 | what a load returns was the pointer's at some moment not before the cache's horizon, whatever the other thread puts into the cache |
| ages | 1 publisher, 1 reader, one lane at a time, 2 bundles of a day told apart (ECHO's by their dates), clock to 3 | the same while data and cache age; data past its freshness on the hub, in the cache or during the load is not served |
| groups | up to 4 records of 7 kinds, in every order of records and keys | groups are the connected components; a group needs no review just when identifiers alone join it; ids are distinct |
| clocks | up to 3 records of 3 sources, clock to 5 | the best grade has another source behind it, joined by identifiers; time only weakens what is said |

Three attempts are an old success, a newer failure and one that finishes between
or after them; two changes are a new policy and a new key. Two publishers and two
commits are the least for an older bundle to lose a race, and clock 2 orders a
bundle before, with and after another. Snapshots are fresh for 2 and cached for 2;
a clock to 3 lets a snapshot age past its freshness in the cache, and the cache end
before the data of a snapshot that a newer one has replaced. A clock to 5 outlasts the longest lifetime
of the instance. Checks, publishers and readers are interchangeable.

### `collection` (`MCCollection`)

| Part | Bounds | What it shows |
|---|---|---|
| lane | exports of up to 2 rows of 9 kinds, 2 days pass | an ingestion fails only across midnight; the runtime's verifier accepts what the exporter's did; nothing it must not serve is served |
| choice | exports of up to 3 rows of 3 good kinds, 2 taken, 1 day passes | selecting while streaming returns the first of all the eligible |
| carriers | carriers and awards, 2 states, captures of up to 3 rows of 6 kinds, pages of 2, 1 record per state, 2 attempts | a written bundle is complete |
| plans | benefit plans, 2 states, captures of up to 3 filings of 4 kinds, pages of 2, 1 record per state, 2 attempts, 2 days pass | the best plans are published; the verifier refuses a complete capture only for a cause |
| retry | rotation: 2 lanes read in one order, every record signed, 1 commit, 2 attempts of 1 try, 2 Space revisions, stale processes and crashes | evidence is from the process this attempt started; its session is gone |
| refreshed | rotation: 2 lanes, 2 commits, 1 attempt of 2 tries, 1 day passes | evidence is one dataset revision, and was fresh when it was taken |
| gates | 2 gates of different ages, one bound to the Space, 2 revisions of the Space, clock to 1 | a complete report stays so to the moment it names; its gates ran on one revision; every gate stands for itself |

Three rows of which two are taken are the least in which the first ones are not
all of them. Three filings are two of one sponsor and one that ranks above or with
it, and a page of two leaves one out. Nothing tells the lanes of "retry" apart, so
one order of reading them stands for both (`ReadInOrder`). Two attempts are what tells a generation from the one before; two
tries let a deadline pass with and without an answer.

### `server` (`MCServer`)

| Part | Bounds | What it shows |
|---|---|---|
| receipts | 2 threads, 3 receipts, 1 restart, every surface, both keys | collectors' receipts fork only at the genesis; predecessors were issued; every consensus is reached; no stored receipt is called FAILED |
| boards | 2 threads, 1 query of each kind, limits 2 and 1, 3 receipts, boards cached for 1, clock to 1 | both dictionaries are within their limits whenever no request trims them; a request that ran alone is answered, with receipts that can be verified |
| overflow | the same with one query, 5 receipts | an eviction that another request's KeyError left undone is made up for |
| drops | three queries whose boards expire at once, 1 board kept | boards stay over their limit only after an expired one was dropped while others were trimmed |
| ageing | 1 frontier query, its ECHO snapshot fresh before 1 and cached for 3, boards for 1, clock to 2 | no board shows ECHO records later than one board TTL after they stopped being fresh |
| sessions | 2 requests, 2 tokens, 2 operators, lifetime 1, clock to 1, restarts | nobody writes under another's name; a request after a logout is refused |
| consent | 3 submissions, failing writes, 1 restart | acknowledged consents are listed until the restart; undisturbed ones survive it |
| webhook | names of up to 3 addresses, public and not, a timeout of 2 | at most one delivery, to a validated address; "sent" is an accepted one |
| loops | 2 work loops, budgets of 0, 1 and 3, thresholds -1 to 1, 2 falling curves | the lake is what the loops did; exit reasons are true; queries are suffixes |

With limits of 2 and 1 three receipts make two threads trim at once, and five let
one of them fail while it does; a board dropped for its age needs a third query. ECHO
is cached longer than it stays fresh, which is where a cache could serve stale
data. The
threads are interchangeable. `receipt_fork` is an
expected violation, see below.

### `dealdesk` (`MCDealDeskThreads`)

| Instance | Bounds | What it shows |
|---|---|---|
| alone | 2 opportunities sharing a number, one request at a time (never `crowded`), faults, clock to 1 | suppression, sheets and memory against the store, through failures, reloads and restarts |
| threads | 2 threads, 1 opportunity with varying identifiers, faults | rows stay coherent under every interleaving |

Two opportunities that share one official number and differ in name are the
smallest case in which a suppression must reach across opportunities, and two
threads the smallest in which a read-modify-write is lost; "threads" keeps only
the disposition and the stage that the property tells apart, and no clock.
`dealdesk_aliases` and `dealdesk_races` are expected violations, see below.

### `progress` (`MCProgress`)

| Part | Bounds | What it shows |
|---|---|---|
| crowd | the desk's file: 2 threads, 1 opportunity, faults | a probe never undoes a write; every request ends |
| alone | the desk's file: 1 thread, 2 opportunities, an operation that fails at every step, restarts | what was answered with success is on file |
| boards | 2 threads, 3 receipts, ECHO cached for 3, fresh for 2, clock to 4 | every request ends; the refresh slot is freed |
| locks | 2 connections, 2 scopes the database sorts the other way round | every transaction commits, is refused or is the victim |
| webhook | names of up to 3 addresses, public and not, a timeout of 2 | every test is answered |
| rotation | 1 lane, 1 attempt, 2 commits, 2 tries | every attempt ends |
| collection | carriers and plans, 2 states, captures of 2 rows, 3 attempts, 2 days pass | every job ends |

No symmetry is used here, as it is unsound for liveness.

Each property of a passing run is also known to fail there for a mutated form of
the code, kept in the modules and marked "Mutated form".

### What the code does otherwise than it says

**Expired contradictions.**

`docs/execution/OPERATOR_WORKFLOW.md:65-66`: "The brief includes source facts,
dates, uncertainty and unresolved counter-evidence." The code cites the
counter-evidence that is `VALID` now, and counter-evidence expires within 24
hours (`_expiry`); its decision stays `UNRESOLVED`, and no operation resolves
it. `workflow_contradictions` shows the brief written a day later without the
contradiction, which `review_brief` will then approve. While a contradiction is
valid the hold is sound (`ContradictionsBlockClearance`).

**Shrinking suppressions.** `app/dealdesk.py:276` calls the aliases "Stable
business aliases used for irreversible contact suppression". `enrich` replaces
the identity saved with a suppressed row by the identity observed last, and the
next `enrich` of any record replaces the suppression's aliases by those of the
saved identity. `dealdesk_aliases` shows an official number dropped after one
report without it; the business is then not suppressed under that number and
another name. With identifiers that do not change (instance "alone" of
`dealdesk`) suppression is permanent.

**Lost suppressions.** `app/dealdesk.py:1061` says that a do-not-call request
"permanently suppresses this business identity". `dealdesk_races` shows a second
request on the opportunity, composed before and published after it, that puts
the older row back into memory, from where it reaches the database. With one
request at a time the property holds. Keeping one lock from `_saved` to the end
of `_commit` would remove the interleaving.

**The forked chain.** `app/receipts.py:23` speaks of "in-memory hash-chain tip
for the session", `SPEC.md:74` of "SHA-256 hash-chained JSON". `make_receipt`
reads the tip and advances it many lines later without a lock, and only the
public-source collectors take one, of their own. `receipt_fork` shows two
requests whose receipts name one predecessor. Among receipts of the collectors
the chain forks only at the genesis, after a restart or a reset
(`SourceReceiptsForkOnlyAtGenesis`).

### Other things to know

Not contradictions of anything written, but consequences that the models show:

- A claim and a withdrawal deadlock when the database's collation orders two
  scope names differently from Python (`"B" < "a"` in Python, not in most
  locales). PostgreSQL ends one of them, which is answered 503 and may be retried.
  `DeadlocksAreClaimsAgainstWithdrawals` says that nothing else deadlocks.
- `receipt_lake.append` swallows a failed write to the mirror, which
  `app/receipt_lake.py:9` calls the durable copy; the receipt is in the lake of
  the process only.
- `_operator_actor` reads the session a second time. When another request's
  logout or expiry removed it in between, the desk's write is attributed to
  "operator" (`DeskName` of `OperatorSessions`), never to another operator
  (`NobodyElsesName`).
- Two consent submissions that truncate and write the file at once can leave a
  shorter list over the tail of a longer one, which does not parse and which the
  next start ignores. Undisturbed ones are durable
  (`UndisturbedConsentsAreDurable`).
- With the file store every request of the desk first reads the file and puts
  what it read into `_STATE` after releasing the lock. A request that read before
  another's commit erases that row from memory, and its own snapshot then erases
  it from the file. With one request at a time success is durable
  (`AloneSuccessIsOnFile`, and as a theorem below).
- In the constellation an UNKNOWN clock does not prevent the best grade, whereas
  the next one asks for a current clock; and two organizations with different
  official numbers become one without review when a chain of shared identifiers
  leads from one to the other.
- When two requests trim the dictionary of boards and a third drops an expired
  board under them, both trimmers can end in a KeyError, and the dictionary stays
  over its limit until a later request has trimmed it. The proof of
  `CachesStayBounded` found it (`torn`); without a dropped board the limit holds
  whenever nobody trims.
- A slow load may put an older snapshot over a newer one in the reader's cache;
  what is served is within the cache's horizon all the same.
- A projection row of a revoked observation keeps its unique key, so the same
  revision of a record cannot be admitted again after a correction.

## 4. Proofs

Every theorem is for every value of the constants under the module's assumptions;
none rests on an unproved statement. The assumptions say what the code has and
the configurations satisfy: bounds that are naturals, lifetimes that are positive,
markers that are no member of what they mark the absence of (`AnyEpochAssumption`,
`Free \notin Threads`, `None \notin Bundles`), finite sets of addresses and
scopes, readings of the clock that are naturals (`TimesAssumption`), bodies and
kinds of the ledger that contain the workflow's (`LedgerOfTheWorkflow`). TLC
evaluates them in the runs. Hypotheses beyond these are named with the theorem.

The proofs are by an inductive invariant: what is claimed is seldom inductive,
and the text below says what had to be added and why. Components that share no
variable have their proofs in one module (`ServerProofs`, `FederalSourceProofs`),
each as an instance with variables of its own.

### The ledger

`EvidenceLedgerProofs`. That a correction reaches every descendant is not
inductive: it says nothing of what a later correction will find. The proof needs
lineages that are transitively closed (`Derived`: a member's lineage is contained
in its descendant's), which makes the set one correction revokes closed under
derivation (`ReachedIsClosed`); it needs scopes to agree along a lineage for the
same of a suppression (`ScopeIsClosed`); and it needs ids in use to be `1..n`, so
that a new node never overwrites an old one (`Consecutive`, `FreshId`). `Typed`
and `Derived` are stated of any table, so the two insertions of an admission are
two uses of one lemma. Steps then fall into three kinds: growth (`GrowthKeeps`),
revocation of a closed set (`RevocationKeeps`) and delivery (`DeliveryKeeps`).

| Theorem | States |
|---|---|
| `LedgerInvariant` | `Spec => []LedgerInv` |
| `TypeCorrectness` | `[]TypeOK` |
| `CorrectionsReachDescendants` | `[]RevocationReachesDescendants` |
| `LineageIsBounded` | `[]NoChildOutlivesItsEvidence` |
| `LineageHasOneScope` | `[]LineageStaysInScope` |
| `SuppressionIsComplete` | `[]SuppressedScopesHoldNothing` |
| `RevokedTasksAreOut` | `[]RevokedTasksAreRecalled` |
| `RevocationIsFinal` | `NothingIsRevived`, an action property |

`EvidencePromiseProofs`, **withdrawals**. Since everything a valid node derives
from is stored valid, it is enough that no grant stored valid is withdrawn
(`ValidGrantsStand`), which holds as both paths that store a grant read its
tombstone and a withdrawal revokes the grant's nodes in every scope. Another
theorem is about the model itself: `lineage` is kept with a node, and the least
set that holds the node and the parents of its members is what the recursive
query finds. Minimality is an invariant over tables (`LineagesAreLeast`: no set
closed under parents is smaller), kept by each insertion since a child comes
after its parents; so the proof needs no induction over the graph.

**Epochs.** No node's epoch is ahead of its scope's (`EpochsAreReached`), so the
epoch a material node is given is new. Conversely every operation's effect on the
stored context of a scope is inside the scopes whose epoch it advances
(`Advances`).

**Deliveries.** Every step but the start of a dispatch moves each row by
`RowMove`, which neither starts an attempt nor takes one back (`Quiet`); under
`deliveryOf` a quiet step is a settling or a stutter. Fencing needs `TokenInv`:
what a worker remembers is not ahead of its row, no two workers remember one row
with one token, and a sender's row is past its lease. What a dispatch rests on
needs more: `begin_outbox_dispatch` compares one epoch, that of the task, and
looks at no decision. `BoundTogether` says why that is enough: decisions
(`EpochBoundKinds`) are cited only while they are of the current epoch, they do
not advance it, and only decisions cite decisions, so every decision in a lineage
has its node's own epoch. The last of these is the hypothesis `CitesApart`; the
calls in `david_workflow.py` cite so (a task cites a clearance, a clearance its
brief and the review), and so do the configurations.

**The reference ledger.** `Walk` follows parents until nothing is new; that it
finds the least closed set (`RevocationsStayWhole`) is by the cardinality of what
it has found, which grows with each step within a finite set of ids. The graph's
own invariant (`GraphInv`) is then that of the ledger with the walk in place of
the lineage. In the refinement the lineage kept is the walk, so the two refuse
and revoke the same nodes: `append` and `create_manual_task` are `Insert`, an
admission is one or two of them, and a correction, a withdrawal and a suppression
are a `Revoke` of several roots; the outbox, epochs and tombstones are not seen.

| Theorem | States |
|---|---|
| `WithdrawalIsComplete` | `[]WithdrawnGrantsSupportNothing` |
| `LineageIsTheQuery` | `[]LineageIsTheWalk` |
| `EvidenceAlwaysStands` | `[]EvidenceStands`: these and the theorems above together |
| `MaterialEpochsDiffer` | `[]MaterialEpochsAreDistinct` |
| `EpochsCoverTheEvidence` | `EvidenceChangesAdvanceTheEpoch`, an action property |
| `TheLedgerMovesForward` | `LedgerMovesForward` |
| `DeliveryImplementsThePromise` | `Spec => DeliveryIsAtMostOnce`: the refinement |
| `SendersAreFenced` | `[]SenderHoldsTheLastToken` |
| `KeysNameOneTask`, `TasksStaySound` | `[]OneTaskPerKey`, `[]TasksAreSound` |
| `DispatchesRestOnTheCurrentDecision` | under `CitesApart`, `DispatchRestsOnTheCurrentDecision`, an action property |
| `RevocationsStayWhole` | `[]RevocationsAreWhole` |
| `LedgerImplementsTheReference` | `Spec => ImplementsTheReference`: the refinement |

**Row locks** (`EvidenceLedgerProofs`). `LocksInv` says that a transaction waits
only for locks that come after all it holds, in the order of its kind. Along a
chain of waiting transactions the awaited places therefore grow, which no circle
can do in one order; with two orders a circle must contain a transaction of each,
a claim and a withdrawal. The completeness of a withdrawal needs the grant to stay
locked while the list of its scopes is in use.

| Theorem | States |
|---|---|
| `LocksInvariant` | `[]LocksInv` |
| `LocksAreEnough` | `[]LocksSuffice` |

### The workflow

`OperatorWorkflowProofs`. Every request is a transaction of the ledger or changes
nothing it keeps (`Transaction`, which lists what the workflow may do to the
ledger), so the ledger's invariant and promises carry over. Screens: a screen
whose epoch is still the scope's shows the evidence that is stored (`ScreenInv`),
by `EpochsCoverTheEvidence`; so the one number a request carries stands for all
the operator saw. Decisions: each keeps what it was checked against
(`DecisionsInv`). A brief answers every contradiction and adverse review of the
context it is bound to; an approved review has a brief that cites no
contradiction; a clearance whose epoch is still the scope's stands (`Stands`), and
as new contradictions, reviews and verdicts advance the epoch, one that is in
force has met none. The policy of a task is its clearance's, and that one the
review's, whatever the file said in between.

| Theorem | States |
|---|---|
| `WorkflowTypeCorrectness` | `WorkflowSpec => []WorkflowTypeOK` |
| `WorkflowEvidenceStands`, `WorkflowTasksAreSound` | `[]EvidenceStands`, `[]TasksAreSound` under the workflow |
| `DecisionsAreMadeOnWhatWasSeen` | `DecidedOnWhatWasSeen`, an action property |
| `ClearancesStaySupported` | `[]ClearancesAreSupported` |
| `TasksHaveOnePolicy` | `[]OnePolicyPerTask` |

### The desk

`DealDeskProofs`, for any opportunities, observations and number of threads,
under `DeskAssumption` and `Named`. Since threads overwrite each other's rows,
the invariant `DeskInv` relates no row to another: it says that every row in
memory, in the store, in a snapshot under way and in a candidate is sound by
itself, which suffices because each check of a handler reads one row in one
step. `RowsAreCoherent` alone is not inductive: a row may be cleared when the
gate is open, so a suppressed row must always close the gate of its own
opportunity. That is what `Named` is for: the row's suppression and its saved
identity keep the name alias (`Sound`), which normalization restores and every
observation carries (`OpenGateIsUnsuppressed`).

While requests come one at a time (`~crowded`) more holds, and needs a second
invariant: `AloneInv` says of the one thread at work what it knows of memory and
the store, while it serves (they are alike), saves (its snapshot covers the store,
and differs from memory in the row it installs) or reloads (it holds what is
stored). The hypothesis `SteadyReports` says that every report of an opportunity
names the same aliases and that saved identities reproduce them; without it
`dealdesk_aliases` shows that the property is false, and with overlapping requests
`dealdesk_races` does.

`DeskFileProofs`. A probe is harmless because the thread that probes is alone in
the lock (`OneHolder`) and has read the file as it still is (`ProbesSawTheFile`).
`AloneSuccessIsDurable` is again about requests that come one at a time, since a
thread's snapshot may lack a row another has just written. `Safe` says, phase by
phase, what the thread relies on: what it has read is the file while it probes,
memory is the file whenever it computes or writes, and its snapshot is the file
with one row that has only grown, so writing it loses nothing (`GrownRowKeeps`).

| Theorem | States |
|---|---|
| `DeskInvariant` | `Spec => []DeskInv` |
| `DeskTypeCorrectness` | `[]TypeOK` |
| `RowsStayCoherent` | `[]RowsAreCoherent` |
| `SuppressionIsPermanentAlone` | under `SteadyReports`, `[]SuppressionSurvivesAlone` |
| `NoSheetAfterDoNotCall` | under `SteadyReports`, `NoSheetAfterDoNotCallAlone`, an action property |
| `FileInvariant` | `Spec => []FileInv` |
| `FileTypeCorrectness` | `[]FileTypeOK` |
| `ProbesAreHarmless` | `ProbesKeepTheFile`, an action property |
| `AloneSuccessIsDurable` | `[]AloneSuccessIsOnFile` |

### Receipts

`ReceiptChainProofs`. The collectors' links differ because the tip has left the
predecessor of every receipt a collector built, unless that collector still holds
the lock (`TipMovesOn`); and it never comes back, since the tip moves only to a
receipt that was not issued before, threads witness receipts of their own
(`MintsAreOwn`), and a restart returns it to the genesis. The holder of the lock
is the collector that mints (`HolderMints`).

| Theorem | States |
|---|---|
| `ChainInvariant` | `Spec => []ChainInv` |
| `ChainTypeCorrectness` | `[]ChainTypeOK` |
| `SourceLinksAreUnique` | `[]SourceReceiptsForkOnlyAtGenesis` |
| `LinksAreIssued` | `[]EveryPredecessorWasIssued` |
| `WitnessesAgree` | `[]EveryConsensusIsReached` |
| `StoredVerify` | `[]StoredReceiptsVerify` |
| `ReceiptsStaySound` | `[]ReceiptsAreSound` |

### The server's other parts

`ServerProofs`. **Sessions**: a token belongs for ever to the operator it was
handed to and one that was logged out is not live again (`Onward`), so what a
request found out at its last look stands (`RequestStands`). **Consents**: a
submission past its last close is listed, and, while no two writes overlapped,
failed or were cut short (`clean`), on file. **Webhook**: what is left to connect to is
public, and the request that was sent was the only one. **Boards**: that a
dictionary is within its limit at rest is not inductive, since an eviction may
end in a KeyError; what holds is that one beyond its limit has a trimmer that
goes on (`Guarded`: a thread about to look at its size, iterating one that has
not changed size since, or about to remove a victim that is still there). A
KeyError of one trimmer is the removal by another, who goes on. Dropping an expired
board is a removal by a request that does not trim, and breaks it: hence `torn`,
and the item in the list above. What a request finds of its own needs that it is
alone (`AloneStands`): then the dictionary of receipts grows at its end by receipts
of its own, of which only the last, the one that came with the cached ECHO
snapshot, may have been there before; with room for the receipts of one board the
entry evicted is therefore never its own. That ECHO records are not shown for long
needs no such hypothesis: a board with them is stored only before `FreshUntil`, and
carries the time it expires at (`Dated`). **Work loops**: the lake has, of each request,
the receipts its steps made and in their order, which is kept by counting them
(`LakeIsWhatTheLoopsDid`); the query's lemma is for every lake, filter and limit.

| Theorem | States |
|---|---|
| `SessionsStayHonoured` | `[]SessionsAreHonoured` |
| `ConsentsStayKept` | `[]ConsentsAreKept` |
| `WebhookStaysHonest` | `[]WebhookIsHonest` |
| `CachesStayBounded` | `[]CachesAreBoundedAtRest`, and the boards' types |
| `BoardsTellTheTruth` | `BoardsAnswerTruly`, two action properties |
| `LoopsStayOnRecord` | `[]LoopsAreOnRecord` |

### Federal sources

`FederalSourceProofs`, **source health**. HEALTHY combines the record, the policy,
the key and the clock of now; the invariant says that the success in the record,
and the one a check is about to record, is a verification of the snapshot and
with the key it names (`SuccessIsBacked`, `AttemptsAreBacked`). A failure keeps the
success and the names it was verified under together, which is why both are kept
or both are replaced.

**Publication**. What a publisher has learned of a revision stays true of it, as
revisions never change (`Learned`); the commit that is accepted is on the very
revision it checked, so it is the register's `Publish`, and every other step
leaves the register alone. Of the readers, `Current` says that a bundle was the
pointer of a revision that had no successor before the load began; what is cached
carries the beginning of its load (`Keeps`), so what is served was current no
longer ago than the cache's life, whatever slow loads overwrote in between.

**Rotation**. From the moment the generation is set until the attempt ends the
settings are fixed; so a process that carries the attempt's generation has loaded
all its secrets (`GenerationsHold`), though the job looks at the generation
alone. A session is named by attempt and try, is in at most one process
until it is logged out, and is never handed out again (`SessionsAreOnce`). What is
bound of the pointers is of the pinned revision (`PointersAreBound`). **Release**:
an artifact that says it is of a gate lies where that gate left it (`ReleaseInv`),
so no gate can stand in for another, and the times a complete report compared
bound the moment it expires at.

**ECHO**. What a run admitted is what it and the runtime will verify: every record
was admitted on the day the run began, so a run that ends on that day verifies
(`SameDayVerifies`), one that verified is fit for the runtime's own verifier
(`WholeIsAccepted`), and the window is tried again on the day of the load. Keeping
the first records while they stream is a lemma about lists: placing a record keeps
the order (`PlacedAscends`), and the list kept is the first `Take` of all seen, of
those that belong (`KeepKeeps`), for every limit. Identities are distinct in a
verified bundle, which makes the order total.

**The other registries.** The invariant (`CollectionInv`) says of every state that
was answered that the records of that state are, in their order, what was kept of
its last answer, that they were checked and counted as the verifier will count them
(`Captured`); a step adds one state's records behind the others', and what is kept
of a concatenation is the concatenation of what is kept (`ThoseOfConcat`). Hence a
complete capture can be refused only for its records' ids or for the day, and that
cause stays one (`RefusalCause`, `RefusedForACause`): both are found when the bundle
is built, and the day only advances. For the page of benefit plans, being above is a
total order of the sponsors' filings (`AboveIsAnOrder`), so the numbers of filings
above one are all the numbers below their count (`HeightsOrder`, `EveryHeight`), and
a prefix of them leaves out only filings that no filing on the page is below
(`PlansAreBest`).

**The constellation.** The lemmas about the union-find are about a forest of any
size: every nonempty set of positions closed under the parents has a root
(`Forest`). Nothing decreases along the parents, as a union may point either way;
a climb of as many steps as there are positions visits one of them twice, and the
set between the two visits is closed, so it holds a root (`RootIs`). Whatever is
alike along the parents and tells each root by itself gives the root
(`RootByLabel`); hence a union moves what was under one root and nothing else
(`LinkedTwo`), and the loop over the members of a key joins them and nothing that
the links it recorded leave apart (`LinkedAll`). The invariant (`Grouped`) states both
halves for the pull: the keys that are done with join their members, and a set of
records that respects every key, or every link recorded, is a union of groups; a
connected part is the least such set, so no path has to be spelled out. The
hazard is the link of a candidate key, recorded only where the pair is not united
yet: when it is recorded, all identifiers are done with, so the records under the
first of the key are a set closed under shared identifiers that the other is not
in (`NameLink`). That set is what shows, at the end, that such a group needs its
review; and where no such link lies in a group, those by identifiers alone join
all of it (`NamedOrIdentified`).

| Theorem | States |
|---|---|
| `HealthInvariant` | `Spec => []HealthInv` |
| `SourceTypeCorrectness` | `[]SourceTypeOK` |
| `HealthyIsVerified`, `NewestIsShown` | `[]HealthyMeansVerified`, `[]NewestAttemptIsShown` |
| `StatusStaysTrue` | `[]StatusIsTrue` |
| `SuccessesStay` | `SuccessesAreKept`, an action property |
| `PublicationInvariant` | `[]PublicationInv` |
| `PublicationsStayWhole` | `[]PublicationsAreWhole` |
| `ServedStaysCurrent` | `[]ServedIsCurrent` |
| `HistoryIsKept` | `HistoryStands`: the refinement of `PublishedRegister`, and what admission answers |
| `RotationInvariant` | `[]RotationInv` |
| `RotationEvidenceStands` | `[]EvidenceIsTheSuccessors` |
| `CompleteReportsStand` | `[]CompleteReportsHold` |
| `LaneStaysSound` | `[]LaneIsSound` |
| `BundlesStayWhole` | `[]BundlesAreWhole` |
| `GroupsStayRight` | `GroupsAreRight`: five invariants and an action property |

### How recursion is reasoned about

The library's induction theorems take an operator as a parameter, which no
installed prover can instantiate. `LeastNumber` (a set of naturals has a least
member, from the well-foundedness of `<`) and `EachStep` (a set with 0 and the
successors of its members holds all) do without: the property is the set of the
numbers that have it. They carry the walk of `ReferenceLedger`, the tail query of
`WorkLoop`, the selection of `EchoExport`, the filters of `FrontierCollection` and
the climbs and unions of `Constellation`, which are written as recursive functions
or as sets of positions.

### Only model-checked

Liveness: `RequestsEnd` and `JobsEnd`. Fairness and ENABLED are out of the
prover's reach. Every invariant, action property and refinement that a passing run
checks is a theorem.

## 5. Plan

Done: the components above, each with its runs, and theorems about all of them.

Next: `OperatorWorkflow` composed with `SourceHealth`, so that `refresh_source` and
the rechecks of a grant share one policy file.

## 6. Not modelled

- Scoring and signals (`app/scoring.py`, `app/signals*.py`, `app/formulas.py`,
  `app/warn_leads.py`, `app/org_chain.py`): numbers and text matching without
  state. `POST /api/run` answers 410, so the leads it would leave in the process
  are always none, and with them the legacy brief and outcome, the Ouroboros
  Director and the organization chain are unreachable.
- `backend/`, a stateless demonstration, and the browser client.
- `ops/source_health.py`, which probes once and prints, and the deployment
  workflows but for the steps that the rotation races with.
- Of the ledger: projections that only mirror a node, outbox rows nobody reads,
  recomputation of hashes, `remember_identity`, the migration of the first scope
  format, connection handling. Row level security, digests and signatures are
  assumed to work.
- Of the desk: the event table, which no code reads, rows written before
  suppressions had aliases, the priority score.
- Of the workflow: the 500-node limit. A scope beyond it is refused with the
  request to archive it, and no code does that nor a document says how.
- Liveness of the outbox, for want of a scheduler in the repository.
