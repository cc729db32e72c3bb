# SpoofVane in TLA+

SpoofVane finds web pages that impersonate a brand: it discovers suspect URLs, renders them through
Bright Data, scores them, asks a language model for a verdict, raises alerts, lets people review them
and files takedowns. The service is FastAPI over SQLAlchemy and one SQLite file, served by
`uvicorn --workers 2` (`deploy/Dockerfile.api:42`). These modules model the parts whose correctness
depends on the order in which requests, threads, transactions, writes and failures meet, and the
algorithms whose answers can be compared with what they promise; TLC checks them on small instances,
and TLAPS proves what matters most for every instance.

Paths below are the repository's own (`src/common/review.py`).

## 1. The system

| Component | State | Operations | Who it meets | Module |
|---|---|---|---|---|
| Audit log (`common/audit.py`, `api/audit_middleware.py`, `AuditLogRepo`) | `audit_log`: `seq`, account, `prev_hash`, `row_hash` | `record`, `verify_chain`, `AuditLogRepo.record`, the middleware's own session | every mutating request; SQLite's one write lock | `AuditChain` |
| Review queue (`common/review.py`, `api/ops_router.py`) | `review_items`, labels, notifications | enqueue, decide, assign, sweep SLA breaches | the audit log in the same transaction; the takedown route should read it | `ReviewQueue`, `ReviewGate` |
| Takedown route (`api/app.py:491-539`) | cases at the provider | load, file, record, answer | audit log twice (its own session, the middleware's), review queue not at all | `TakedownGate` |
| Brand sweep (`common/pipeline.py`) | suspects, inspections, cost rows, scores, verdicts, alerts | one phase after the other, one transaction per row | other sweeps and rechecks, through the tables | `Pipeline` |
| Time-bomb recheck (`inspection/diff_detector.py`) | inspections; the diffs only in memory | load priors, re-inspect, store, answer | sweeps | `Pipeline` |
| Governed agents, live scan (`agents/lifecycle.py`, `api/scan_router.py`) | kill switch, ledger list | evaluate, run, append, fall back | threads of one process | `ScanAgents` |
| Cost envelope (`integrations/brightdata/cost.py`) | rows, sum, throttle | test, book under a lock, fetch | all threads that call Bright Data | `CostEnvelope` |
| Identity (`common/identity.py`, `rbac.py`, `api/auth_router.py`, `api/deps.py`) | users, memberships, sessions, tokens | sign-up, login, MFA, recovery codes, logout, SSO | every request of a person | `Identity`, `Rbac` |
| Alerts, keys, copilot (`api/app.py`, `admin_router.py`, `verdict/copilot.py`, `delivery/mcp_server.py`) | alerts, brands, notes, preferences, API keys, feedback | triage, note, create, issue, revoke, ask | identity's sessions, the write lock, each other's rows | `Desk` |
| Delivery (`delivery/webhooks.py`, `integration_base.py`) | none but the retry loop | one call per destination, in order | one step of the sweep; the network | `Delivery` |
| Idempotency store, rate limiter (`common/`) | in-memory maps | `execute`, `allow` | no route uses them | `Guards` |
| Notifications (`common/notifications.py`) | notices, preferences | `notify`, mail, `mark_read` | runs inside its caller's transaction | `Notices` |
| Evidence files and chains (`storage/blob_store.py`, `common/reports.py`, calibration files, chain of custody) | files | open, write, read; record, verify | writers of both workers | `Evidence` |
| Discovery run (`discovery/run_once.py` and its sources) | suspects | ask, filter, flush, commit | one session for all sources | `Harvest` |
| Takedown cases (`delivery/takedown/`) | history of a case | route, advance, decide, file | the clock | `Cases` |
| Ensemble, cloaking, fusion, tuning (`verdict/`, `inspection/`, `scoring/`) | none | one answer each | the sweep | `Verdicts` |
| Families and kits (`scoring/`) | none | loops over signatures | the sweep | `Kits` |
| Clusters, campaigns (`scoring/cluster.py`, `graph/`) | a forest | union-find | batches of alerts | `Grouping` |
| Lead deduplication, review sampling, pivot (`discovery/unified_dedup.py`, `scoring/al_sampling.py`, `graph/`) | a batch | unify, select, pivot | batches of leads | `Leads` |

What is hard here:

- **Reads outside the write lock.** pysqlite begins a transaction at the first write, so a `SELECT`
  before it sees the committed state of that moment and protects nothing. `audit.record`,
  `InspectionRepo.create`, `review.decide`, `sweep_sla_breaches`, `complete_mfa`, `update_triage` and
  `create_brand` all read first.
- **Column-wise writes.** The ORM writes the columns whose value differs from the one it loaded. Two
  overlapping requests may leave one column of each; on the other hand a stale row does not undo a
  revocation.
- **Rollback by exception.** `session_scope` rolls back whatever an `HTTPException` leaves behind it,
  also what was meant to be kept.
- **Threads of one process.** `def` routes run in the thread pool and share the kill switch, the ledger,
  the cost tracker and the idempotency store; the locks they have cover a test or a write and not both.
- **Partial failure.** A sweep is a chain of committed steps with the network between them, a takedown
  files before it records, a dispatch goes through seven destinations, a mail leaves before its
  transaction commits, and several handlers swallow exceptions.
- **Restarts.** Nothing resumes a run; what had been committed stays, and so does a half-written file.

## 2. Modules

| Module | Models | Extends or uses |
|---|---|---|
| `AuditChain` | the log, its four kinds of writer, the write lock, `verify_chain` | |
| `ReviewGate` | the promise: an item is decided once, for good | |
| `ReviewQueue` | the handlers of the queue on several workers | refines `ReviewGate` for items no two decisions raced for |
| `TakedownGate` | the takedown route inside the middleware, next to the reviewers | extends `AuditChain`, instance of `ReviewGate` |
| `Pipeline` | sweeps and rechecks over the shared tables | |
| `CostEnvelope` | the cost tracker's test, booking and fetch | |
| `ScanAgents` | kill switch, governance, ledger and live scan on threads | extends `CostEnvelope` |
| `Rbac` | permissions of roles, scopes of keys | |
| `Identity` | users, sessions, second factor, recovery codes on several workers | extends `Rbac` |
| `Desk` | keys, alerts, brands, preferences, MCP, copilot | extends `Identity`, shares its write lock |
| `Delivery` | one alert to its destinations over a lossy network | |
| `Guards` | idempotency store, token bucket | |
| `Notices` | a notice, its recipients and its mail in one transaction | |
| `Evidence` | files and hash chains | |
| `Harvest` | a discovery run in one session | |
| `Cases` | a takedown case and its filing | |
| `Verdicts` | the answers of ensemble, cloaking, fusion, tuning | |
| `Kits` | family and kit of a page | |
| `Grouping` | union-find, turn by turn | |
| `Leads` | `unify`, `select_for_review`, `pivot`, turn by turn | |
| `MCOffline` | the last ten side by side | extends them |
| `MC*` | small instances for TLC | extend the above |
| `*Proofs` | theorems | extend the module they are named for, and `TLAPS`; `ServicesProofs`: `Guards`, `Notices`, `Evidence`, `Harvest` and `Delivery`; `OfflineProofs`: `MCOffline`, for `Grouping`, `Leads`, `Cases`, `Kits` and `Verdicts` |

Definitions whose name has a suffix (`Insert_NotUnique`, `Evaluate_ScanExempt`) are not part of the
specification. Each is the definition it is named after with one plausible bug, and shows that a
property would notice that bug. Variables marked "history" in a module are read by no guard: they
remember what the properties compare with.

### AuditChain

`table` is the set of committed rows, `lock` the holder of the write lock, `req` the session of each
process. There are four paths, named for the order in which a request reads and writes:

| Path | In the code | Reads `prev_hash` | Writes another table first |
|---|---|---|---|
| `decision` | `review.decide` flushes its UPDATE, then `audit.record` | yes | yes, so it holds the lock |
| `middleware` | `AuditMiddleware.dispatch`, a session that only audits | yes | no |
| `mutation` | `create_brand`, `triage_alert`, ...: flush, then `AuditLogRepo.record` | no | yes |
| `submission` | `run_discovery`, `recheck_brand`, the takedown: `AuditLogRepo.record` first | no | no |

`ReadPrev`, `ReadSeq`, `Insert`, `Collide`, `Commit` and `Rollback` are the statements of one session.
A hash is the sequence of the contents it covers, so equal hashes mean equal histories (SHA-256 without
collisions). `ChainValid` and `BrokenAt` are `verify_chain`.

### ReviewGate and ReviewQueue

Each handler is a read of the row, a first UPDATE that takes the lock, and a commit; `Abort` is the busy
timeout or a later exception, and rolls everything back. A commit merges with what another worker
committed: `Decided` does that. `trail`, `label`, `notice` and `eligible` record the audit entries,
training labels, notifications and answers the queue is judged by, and `raced` the items two workers
have been deciding at the same time. `ReviewGate` has two actions, and `GateHolds` says that the rows of
the items that were not raced for implement it, whatever several workers assign, sweep or lose.

### TakedownGate

`call` follows one takedown from `_load_alert_bundle` through the filing, the route's session, the
middleware's session and the answer; both sessions are steps of `AuditChain`. An exception in the
route's session passes through `call_next`, so nothing is logged at all. `Review` is any step of
`ReviewGate`.

### Pipeline

`job[p]` is the local state of a sweep or recheck: its `stage`, the suspects it listed, the one it is at,
what it has stored. Every network call and every transaction is a step; exceptions and restarts
(`InspectionFails`, `ScoringFails`, `VerdictFails`, `RecheckRaises`, `Dies`) may strike between any two.
Discovery is one step because it is one transaction (`Harvest` looks inside it). The score, the result
of the region pass and the model's answer are choices within what the code can return; the rules that
follow from them (promotion, cloaking override, severity of an alert) are as in the code. `Fallback` are
the answers of the rule-based verdict: a phish at any score, because the rules test their own 0.85
before the brand's threshold, which may be set up to 1.0 (`src/verdict/claude_verdict.py:221`,
`src/api/app.py:84`). Pages are
`benign` or `phish`, which is what the recheck's heuristics tell apart; `FlipPage` is the site's
operator. A rendering that changes from `benign` to `phish` is taken to differ by at least 0.4; other
redesigns by at least 0.2 or not at all.

### CostEnvelope and ScanAgents

`Clear` is the unlocked `if self._throttled`, `Book` the section under the lock, `Fetch` the request,
`Unsent` a failure before it leaves. `ScanAgents` runs `BaseAgent.run` on each thread: `Evaluate`, the
second reading of the kill switch (`Deny`), the execution, then `ReadLen`, `ReadTail` and `AppendEntry`,
the three statements of the ledger's `append`, and `Answer`. A scan executes through the envelope; when
`_merge` raises, `_scan_via_agent` scans again without the agent.

### Rbac, Identity and Desk

A worker serves one request at a time: `req[w]` while `identity.py` has it, `desk[w]` while a route of
`Desk` has it. `Begin` and `Calls` are the reads of a handler, and store in `op` what it will write and
what it has loaded; `Flush` and `DeskFlush` are the first INSERT or UPDATE and take the write lock; a
`...Commit` is the end of `session_scope`; `Rollback` and `DeskRollback` are the busy timeout, an
exception and a restart. A caller is resolved by cookie (`CookieRead`, which stores `last_seen_at` in a
transaction of its own), by token (`Bearer`, which reads no table), by API key (`KeyRead`, which stores
`last_used_at`) or not at all (`Anonymous`, unless `require_auth`); `Permits` and `Satisfies` are the
tests of the routes. The copilot's loop (`CopilotAsk`, `AgentReads`, `AgentMarks`, `AgentCommit`,
`AgentEnds`) calls `mark_triaged` on a session of its own for each tool call, and may end after any number
of them, by the model's answer or by the fallback's. `overlap` and `torn` name what two requests had both
read before either wrote; `refused` counts the wrong passwords a user was refused in a row.

### The ten parts of MCOffline

- `Delivery`: `job[a]` is where `dispatch_alert` is in the order of its destinations, `try` the attempts,
  each with where the request is (`wire`, `accepted`, `rejected`) and what the sender saw of it. `Arrive`
  belongs to the network, and may come after the sender has left.
- `Guards`: `Miss`, `Run`, `Returns`, `Remember` are the locked test, the unlocked run and the locked
  write of `execute`; `Allow` is one call of the bucket.
- `Notices`: `Notify` to `Keep` or `Undo` are the statements of one transaction, the mail among them.
- `Evidence`: `OpenFile` empties a file and `Write` fills it, `Kill` may strike in between; files are
  blobs, reports (named to the second), calibrations. `Record` and `Present` build and show the two
  hash chains, whole, cut, reordered or edited.
- `Harvest`: `Ask`, `Take`, `Flush` and their failures for each source of a plan; `Settle` is the commit.
- `Cases`: `SlaTracker`'s history, `EscalationLadder.decide`, the providers and the hosting report.
- `Verdicts`: one step from inputs to an answer, scores in thousandths; where the code rounds a float
  next to a bound, either neighbour is an answer.
- `Kits`, `Grouping`, `Leads`: one action per turn of a loop.

A behaviour of `MCOffline` is about one `part`; they share no state, so TLC explores the sum of the ten
and not their product.

## 3. Runs

| Run | Instance | Distinct states | Shows |
|---|---|---|---|
| `AuditChain_fork` | decisions and middleware, 4 rows | violation | an untouched log can fail verification |
| `AuditChain_cut` | as above, 2 contents | violation | the newest row is deleted and the log verifies |
| `ReviewQueue_workers` | 2 workers, 1 item, weak fairness | 53 044 | state is the last audited decision; one decision per worker; labels are earned; requests end; an item not raced for implements the gate, and what was answered and audited of it stays true of the row |
| `ReviewQueue_race` | 2 workers, 1 item | violation | an item is decided twice |
| `TakedownGate_log` | 2 requests or sessions on all paths, 2 accounts, 2 contents, 3 rows, 1 alert, 1 filing | 2 813 845 | a client told of a submission finds it in the log; dense numbering, append-only, an intact chain for the account whose writers lock first, no collision for them, what `verify_chain` pinpoints after an edit or a deletion |
| `TakedownGate_ungated` | 2 requests, 1 alert, 3 rows, 2 filings | violation | a takedown nobody approved |
| `Pipeline_runs` | 2 sweeps or rechecks, 2 suspects, 2 inspections, 1 flip, 1 failure | 1 895 847 | alerts are backed, losses counted, inspections paid, evidence chained, activations genuine |
| `Pipeline_bomb` | as above | violation | a stored activation is lost |
| `ScanAgents_runs` | 2 threads, 3 runs, prices 1 and 2, threshold 2 | 1 019 510 | books and throttle agree, overshoot bounded, fetches billed, halts hold, executions authorised and in the ledger, the ledger links back |
| `Desk_requests` | 2 workers, 3 requests, 1 user (2 sets of 2 codes), 1 key, 2 tenants, 1 alert, 1 brand name | 808 174 | codes are spent once, revocation lasts, a triage is whole, names stay single |
| `Identity_lockout` | 1 worker, 1 user, 6 requests, the code's own limit of 5 | violation | five refused passwords lock nobody |
| `Offline_work` | one small instance of each of the ten parts | 259 078 | copies explained, nobody skipped, guards hold, groups are components, answers and leads meet their references, files whole, notices reach, harvests honest, work ends |

**Why the bounds are enough.** Every race in this code is between a read and a write of one session and
the commit of another, so two sessions suffice to lose, and three rows give a row, its predecessor and a
row of another account between them. In `TakedownGate_log` one account is written by decisions only and
the other by every path, so a chain that must hold stands next to one that need not; the second filing
that `TakedownGate_ungated` allows adds nothing to the log that the first does not. Two reviewers and one
item give the double decision, and every other meeting of two handlers, with and without a race. In
`Pipeline_runs`, two suspects give every loop a first and a last element, two inspections a predecessor,
and one failure hits any step; one site flips, the other is geo-hinted. In `ScanAgents_runs`, three runs
on two threads let two overlap and a third start after a halt; the threshold is one dear call, so the
fallback meets an engaged throttle, and each grant of the egress agent is missing in one run. In
`Desk_requests` two requests overlap and a third comes after both, which is what it takes to see a
stale row and a spent code that returns; two
tenants tell a visible alert from a foreign one. In `Offline_work`, of the configured destinations one
is tried once and guarded, one tried once and unguarded, one retried three times, and four are skipped;
two threads and four calls let calls overlap, fail and replay; three domains and two kinds of
infrastructure are the least that connects two domains only through a third; the composites, pages and
hits stand on and beside every bound the code tests (`MCOffline` lists them).

**Deadlock.** `CHECK_DEADLOCK FALSE` stands where the bounded number of requests or runs is used up and
everybody rests: `Pipeline`, `ScanAgents`, `Desk_requests`, `Identity_lockout`, `Offline_work`. There `RequestsEnd` and
`WorkEnds` are about ending; in the `Desk` run a waiting request can always roll back, which is the
busy timeout.

**Bounds.** `MaxRows` (log), `MaxFilings` (cases per alert), `MaxSuspects`, `MaxInspections`, `MaxRuns`,
`MaxFlips`, `MaxFailures`, `MaxInspect` (the code's own `max_inspect`), `MaxSets`, `MaxSecrets`,
`MaxSessions`, `MaxRequests`, `MaxTurns` (the copilot's tool calls), `MaxCalls`, `MaxNow`, `MaxDay`,
`MaxLeads`, `MaxFindings`, `MaxFeedback`, `MaxSecond`, `MaxWrites`, `MaxEvents`, `MaxNotices`, `MaxHits`.
They are guards of the actions that would exceed them, and no property depends on them. `MaxFailed`,
`MaxAttempts`, `MinSamples`, `MaxPerPlatform` and `CodesPerSet` are the code's own limits; the last three
are smaller here (6 samples for 20, 1 hit for 4, 2 codes for 10).

**Fairness.** Two properties need it. `RequestsEnd` takes weak fairness of the progress of each worker's
request: a handler is a Python call that runs on, and waiting for the lock ends after the busy timeout,
which `Abort` models; arrivals, deadlines and enqueuing are never assumed to happen. `WorkEnds` takes
weak fairness of `Dispatch`, `GroupStep`, `LeadStep`, `KitStep` and `HarvestStep`: each is the next
statement of a running loop. The network is given none: an attempt ends by its deadline (`TimeOut`)
whether or not anything arrives.

## 4. Findings

Each is a run that TLC must refute.

1. **The chain forks** (`AuditChain_fork`). `record` reads the latest hash and the next `seq` before it
   holds the lock. A decision that commits in between makes a row whose `prev_hash` is stale although its
   `seq` is the newest; `verify_chain` then reports tampering. `src/storage/models.py:130-132` says
   "seq never ties, so _latest() and verify_chain() agree on order deterministically".
2. **An item is decided twice** (`ReviewQueue_race`). `decide` tests the state of a row loaded before the
   lock (`src/common/review.py:117`); `tests/test_ops.py:112` expects the second decision to be refused,
   which only holds inside one worker.
3. **A shortened log verifies** (`AuditChain_cut`). `verify_chain` compares each row with the one before
   it, and nothing outside the table knows how many there were: without its newest rows an account's
   chain is still valid. `src/common/audit.py:9-11` says that "altering or deleting any historical row
   breaks the chain, which `verify_chain` detects". `TamperingPinpointed` states what it does detect.
4. **A takedown without a review** (`TakedownGate_ungated`). The route reads no review item, while
   `src/common/review.py:11-12,16` calls an approved phish "the only path to takedown:submit".
5. **A lost activation** (`Pipeline_bomb`). The diffs of a recheck live in a local list, and the new
   rendering is committed at once: if a later suspect raises or the worker restarts, the activation is
   never reported and the next recheck compares phish with phish. The docstring promises an
   `inspection_diff` table (`src/inspection/diff_detector.py:25-27`).
6. **Nobody is ever locked out** (`Identity_lockout`). `authenticate_password` counts a wrong password and
   sets the lock, and raises; the router answers with an `HTTPException` inside `session_scope`
   (`src/api/auth_router.py:133-136`), which rolls both back. `src/common/identity.py:7` says "5 failed
   logins locks the user for 15 minutes". `tests/test_identity.py:141` passes because it catches the
   error inside the session, which then commits.

Other places where code and text disagree, or that a maintainer should know, seen while modelling and
without a run of their own:

*Log, queue, takedown*

- `_next_seq` (`src/common/audit.py:58`, "never collides"): two sessions that audit first do collide, and
  one is rolled back (`Collide`; `MutationsNeverCollide` says who is safe).
- A row of `AuditLogRepo` in an account's log breaks its chain, since it carries no hashes.
- An escalated item can never be decided again (`src/common/review.py:13` against line 117), and when two
  decisions race, the audited snapshot may show a `human_verdict` the row does not have.
- A filed takedown whose audit session fails is in no log (`src/api/audit_middleware.py:8-10`), and a
  repeated request files again: no route uses `src/common/idempotency.py`.
- `TakedownCase.escalation_tier` stays "auto" whatever the ladder decides. The first provider that
  supports a site is the only one asked, also when it fails; in mock mode cloudflare supports every site.

*Sweeps and agents*

- The docstring of the sweep says that an alert is emitted only when the score is above the threshold
  (`src/common/pipeline.py:14-17`). A page whose regions differ is promoted whatever its score, gets a
  verdict and may raise an alert; `AlertsAreBacked` says that no other page below the threshold does. With
  a threshold above 0.85 the rules may even call such a page a critical phish
  (`src/verdict/claude_verdict.py:221`).
- The browser minute of an inspection whose transaction is rolled back was used and is billed nowhere:
  `InspectionsArePaid` is about the rows that stay.
- The sweep never enqueues an item for review (`src/common/review.py:4-6`), the recheck raises no alert
  and does not skip alerted suspects (`src/inspection/diff_detector.py:20-24`), its inspections are not
  billed, and `recheck_count` is never stored.
- Overlapping sweeps and rechecks fork the chain of inspections
  (`src/storage/repositories.py:145-189`); `EvidenceIsChained` holds only while none overlap.
- Running agents do not poll the kill switch (`src/agents/lifecycle.py:4-5`). A run that is halted,
  refused or raises leaves no ledger entry (`src/agents/agents.py:95-96`), and after `_merge` raises the
  scan is fetched and paid for a second time, outside the ledger. The unlocked `append` breaks the
  ledger's chain under parallel scans. A halt lifted between the two readings of the switch is answered
  as a scan result. The envelope is one per process and not per tenant.

*Identity and desk*

- A recovery code can be used twice by overlapping requests (`tests/test_identity.py:177-179` expects it
  to be consumed); `SpentStaysSpent` says exactly when it is not.
- Enrolling replaces the secret of a user whose second factor is enabled. An access token outlives the
  logout of its session and a change of role, for its lifetime.
- The MCP tools describe statuses (`src/delivery/mcp_server.py:181,224`) that `AlertStatus` does not
  have. `mark_triaged` writes no audit entry and no feedback event, and is not bound to a tenant. When
  the copilot falls back, the steps of the live attempt are dropped although their triages stay, and a
  step is "one tool call made during the agent loop (for transparency/audit)"
  (`src/verdict/copilot.py:157`).
- Names of brands and preferences are looked up and then inserted without a unique column.

*Delivery, notices, files*

- An answer that is no HTTP leaves `dispatch_alert` by an `http.client.HTTPException`, and later
  destinations are not told. PagerDuty and ServiceNow may receive an alert twice after a timeout.
- `emailed_at` is set also when mail is not configured or failed; `in_app` is stored and never read;
  `mark_read` of an account-wide notice hides it from everybody; the mail is sent while the transaction
  holds the write lock.
- A blob cut short by a kill is never repaired, because its name exists. Two reports of one kind in one
  second share a file. `_detection_data` counts the verdicts of all accounts although its comment
  (`src/common/reports.py:46`) says "belonging to this account's brands". Provenance's `verify_chain`
  accepts a chain without its first records.

*Discovery and algorithms*

- `crawl_seed` promises that "re-ingesting the same seed set queues nothing new", but each run makes a
  fresh instance (`src/discovery/run_once.py:58`). A failed flush is caught per suspect, but the session
  is dead and the whole run is lost. `is_same_brand_domain` compares two labels, so for a `.co.uk` brand
  every `.co.uk` suspect is withheld. `openphish_feed` stores synthetic rows in live mode too. One failed
  query ends the feed, shortener and registrar sources and is skipped by the others.
- `unify` strips every leading `w`, so `wix.com` and `ix.com` are one host, and a batch that mixes times
  with and without a zone raises.
- `active_learning` never renormalises the weights it recommends. The Platt fit ascends where it should
  descend (`src/scoring/calibration.py:43-50`). The cheap path of the small model ignores a Claude
  verdict it was given. One family signature already reaches the 0.6 threshold the comment
  (`src/scoring/family.py:171`) calls medium. The verdict is told the first kit of a list whose surest
  entry may come last.

## 5. Theorems

All are checked by `tlapm` for every value of the constants, under the named `ASSUME`s of the modules
(small facts about the constants: sets of routes, a `NULL` that is no value, finite sets of threads;
that scores, dates and sizes are numbers, which `LeadsAssumption`, `PagesAssumption`,
`OpinionAssumption`, `RegionAssumption`, `TuningAssumption`, `VisualAssumption` and
`HarvestAssumption` say of the inputs of the offline parts).

**AuditChainProofs.** `SeqInv` adds to `SeqIsDense` that an uncommitted row exists only under the lock
and that the number a request read is at most one past the committed rows: without these a commit could
repeat a number. From it follow `TypeCorrect`, `SeqAlwaysDense` and `LogIsAppendOnly`. `FirstInv` adds
that a request which changed a row first still holds the lock, so its number is fresh; it gives
`DecisionsAreNotLost`. `ChainInv` adds that such a request's `prev_hash` is still the latest, and gives
`SerialChainIntact`: every account whose writers lock first, or run alone, has a chain that verifies.
`TamperingIsPinpointed` goes on from there: in a chain whose rows are numbered and each continue their
predecessor, an edited row fails its own hash and no earlier one, and a deleted row breaks the link of
the next, so `verify_chain` names that place. What it misses is finding 3.

**ReviewQueueProofs.** `TrailInv` adds that a worker on its way to a decision has not decided that item,
and gives `QueueMatchesTrail` and `WorkersDecideOnce` for any number of workers. `LabelsAlwaysEarned`
counts places: each commit that appends a label appends its decision to the trail, and a trail only
grows. `UnracedInv` says that at most one worker is deciding an item that was never raced for, and that
what it loaded as pending still is; it gives the refinement `UnracedItemsAreGated` and
`UnracedAnswersStand`, for any number of workers that assign, sweep and fail around that decision.

**TakedownGateProofs.** `GateUsesChain`: every step of the route is a step of `AuditChain` or leaves the
log alone, so `GateSeqAlwaysDense` is inherited. `AnswersAreRecorded`: what a client was told is in the
log, because the row commits before the answer and the log only grows.

**ScanAgentsProofs.** About the envelope, `ThrottleFollowsBooks` and `RequestsHaveRows` are inductive
with the types; `SpendIsBounded` is not, since the sum alone does not know what is under way.
`PendingIsBounded` says that once the throttle is engaged the sum and the calls already cleared stay
within the bound, and that before it the sum is below the threshold. `ScanUsesEnvelope` shows that each
step of an agent is a step of the envelope or leaves its books alone, so these theorems hold of
`ScanAgents` too. `HaltInv` says that a run which began under a halt is at its evaluation or refused,
and that the halt is still in force, which gives `HaltAlwaysHolds`. `AuthInv` (a run whose action is
"executed" has its grants) gives `ExecutionAlwaysAuthorised`, `LedgerInv` (a run about to answer has
been filed, and the list only grows) `AnswersAlwaysLedgered`, and `LinkInv` (the length and the tail
that `append` has read are of an earlier or the present ledger, and of the present one while no run
overlapped) `LedgerAlwaysLinksBack`.

**DeskProofs.** `RowsOK` types rows, sessions and the operations requests carry. `SpentInv` adds that used codes are off the list and used once, that outside an overlap at
most one request about a user's codes is pending, and that the list it will store is the present one
without its code: `SpentForGood`. `RevocationIsFinal` follows from the columns each commit writes, and
from `KeysOK`, since a key that is issued takes a new row. `CallsOK` says that outside a race what a request loaded is still
in the table and that it is the only one about it; with it `TriageAlwaysWhole` and `TwinsAreRaced` are
inductive.

**ServicesProofs.** For the store: the runs under a key, and the calls on their way to one, are at most one
more than the races and the losses as long as nothing is stored. For the bucket: what was granted and
what is left never exceeds a full bucket and the inflow up to the bucket's last use, which is past; this
needs that two parts of an interval refill as much as the whole. Together `GuardsAlwaysHold`.
For the notices: the open transaction's notice is the newest, and it holds the lock, so the preferences
and recipients it saw are those of the notice: `NoticesAlwaysReach`.
For a dispatch: `DeliveryInv` says of each destination whether its turn is over (settled: it has a
status, and its last attempt explains it), now, or still to come (untouched), that only unclear attempts
were repeated, and that the end an attempt shows is honest about where its request is. It gives
`CopiesAlwaysExplained` and `NobodyEverSkipped` for every list of settings and every limit.
For the evidence: a file belongs to the kind and owner of its path, and the writer that opened a path is
the only one to fill it, so what a committed row points at is whole unless a kill cut the writer short; the
chains are linked as they grow, what is shown is a selection of one, and the first place where a verifier
stops exists by the least-number principle: `EvidenceIsWhole`.
For a discovery run: the stored rows and their keys are those of earlier runs and of this one, the
answers belong to the sources already called, the share of a platform is what was counted, and each hit
that was walked is stored, known, beyond the share or lost with its source: `RunsAreHonest`.

**PipelineProofs.** `TypesInv` types the tables and the runs and places a run inside the list its phase
walks; `EveryInspectionPaid` counts rows on top of it. `ChainInv` says that while no runs overlapped at most
one is under way, that the row it holds is dated after every stored one, and that the chain's end it read
is still the end when it stores: `EvidenceAlwaysChained`, although the read and the insert are two
transactions. `GenuineInv` says that a recheck's list and prior rows agree element by element and that
what it compares is about one site, which survives every `Advance`: `ActivationsAlwaysGenuine`.
`BackedInv` says that the rows of a run are its own (no two runs and no two positions share one), that the
cloaked ones passed, that no row still ahead of the run has a verdict, and that the one it alerts on was
judged actionable; then a score or verdict filed later cannot take the ground from an alert:
`AlertsAlwaysBacked`. `CountInv` keeps the books of a sweep in the middle of its loops: errors and alerts
together are the suspects walked and not stored, the rows scanned and not scored, those decided and not
judged, and those judged actionable. Each step of the run moves both sides by the same amount, or neither;
a step of another run touches none of its rows (by `BackedInv`), so the balance stands. At the end it is
`EveryLossAlwaysCounted`.

**OfflineProofs.** Each part runs a loop, or computes one answer, that is compared with a definition of
what it promises. Induction over data is out of reach for the provers, so the inductions are over what
the loops have done so far: a set of numbers that has 0 and passes from each to the next has all
(`StepsReachAll`, by the least-number principle), and likewise for the subsets of a finite set, one
element at a time (`SubsetsAreBuilt`).

- *Grouping.* The parents stay a forest: no set of domains is closed under parents without holding a root.
  Halving keeps it, and a walk to the root that did not end would revisit a domain (pigeonhole). Roots of
  pairs that share something are united, or the pair still waits; when none waits, the trees are closed
  under sharing and connected by it, so they are the components: `GroupsAreTheComponents`.
- *Leads.* A record stands for exactly the candidates of its host seen so far; a selection has counted `r` or
  `r + 1` turns of each surface that had more to give; what the pivot has seen after `k` rounds is what `k`
  hops reach: `LeadsAlwaysMeetReferences`.
- *Cases.* A history is on a road of at most four stages whose dates do not fall; what was decided and filed
  is a function of what was asked: `CasesAlwaysTraceable`.
- *Kits.* The best family so far is the likeliest of those tried, and the matches so far are those of the
  kits tried. The rank of a match in the sorted list is a bijection (ranks differ, so by pigeonhole each is
  taken): `KitsAlwaysNamed`.
- *Verdicts.* The sums of the code are totals that do not depend on the order in which a set is walked
  (`TotalsTakeAny`) and only on its elements (`TotalsAreLocal`); one signal more adds its weight below and
  its share above. A rounded quotient is multiplied out, which leaves linear bounds. With at least two
  opinions there is a verdict that leads, and dissent means it leads with less than all votes:
  `VerdictsAlwaysFair`. Proving it corrected the model: the multiplier is rounded to four digits before it
  is applied (`src/verdict/diversity.py:58`), and regions of no page at all are "consistent".

`AnswersAlwaysMeetReferences` puts cases, kits and verdicts together in the composition that is run.

**Only model-checked.** `RequestsEnd` and `WorkEnds`: liveness under fairness is out of the prover's reach.
The six violated properties of section 4 have counterexamples instead of proofs.

## 6. Not modelled

- **Cost events and tenant budgets**: summaries and price lists are read-only arithmetic over rows, and no
  route enforces a budget. The rows a sweep writes are in `Pipeline`, the envelope in `CostEnvelope`.
- **Console and read-only routes**: queries and projections without state.
- **Compliance documents, report layout, PDF**: text and layout. Their files and rows are in `Evidence`.
- **Front ends, deployment, scripts**: views of the API; the number of workers is what makes `Process`
  and `Worker` sets of two.
- **Partly**: API keys and tenants (`create_tenant` is one INSERT under a unique name), the scores
  themselves (image, DOM, logo similarity and the Platt fit are floating-point functions of external
  data; what is done with them is modelled), discovery (generators of candidates are pure functions),
  intelligence modules (stateless analysers of fetched or mock data, except campaigns, graph and chain of
  custody), chat channels (payload formats).
- **Not reached by any route**: `EscalationLadder`, `SlaTracker`, `HostingAbuseReporter`, `VerdictMerger`,
  `classify_cloaking`, `unify`, `select_for_review`, `pivot` and the idempotency store are exercised only
  by tests and package exports. They are modelled as the code stands, for whoever wires them in.

`PROJECT.json` lists each component with its files and its status, and each hazard with the line where
it bites and the properties that watch it.
