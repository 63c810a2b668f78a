# Verification of the escalation proxy

TLA+ specifications of the escalation proxy (`src/escalation-proxy/app`), the TLC
configurations that check them on small instances, and proofs checked by TLAPS for
every instance. File names below are relative to `src/escalation-proxy/app` unless a
directory is given.

## The system

Workload SRE agents escalate incidents to a platform SRE agent they may not talk to
directly. The proxy authenticates the caller, admits the request under the caller's
policy and quota, opens a thread on the platform agent, and answers the caller's
polls for status and findings. Several replicas of the proxy share one Azure Table.

| Component | State | Operations | Interacts with |
|---|---|---|---|
| Table registry (`investigation_registry.py:380-1147`) | per caller: quota counter row, one row per investigation, one index row per idempotency key | reserve, finalize, release, complete, record polls/findings, look up by key, claim leases, release stale, clean up | Table Storage by single calls and two-or-three-row transactions guarded by ETags |
| Memory registry (`:84-377`) | the same in two dictionaries | the same, partly under a lock | none; the default, for local development |
| Escalation service (`investigation_service.py`) | none of its own | create, status, summary | policy store, registry, platform client |
| Background loops (`main.py:649-731`) | lease owner id | expiry cleanup; terminal reconciler (stale release, claim, poll, complete) | registry, platform client |
| Platform client (`platform_client.py`, `main.py:199-210`) | circuit breaker (failures, opened-at, probe flag), request semaphore | bounded, retried requests | platform agent |
| Caller policy store (`caller_policy.py`) | last good snapshot, its ETag, times of last attempt and success | get, authorize, refresh | App Configuration |
| Readiness (`main.py:213-243`) | cached result and its time | probe | policy store, registry, identity, breaker |
| Authorization (`authorization.py`) | none | validate token, severity claim, role | Entra keys |
| Output validation (`output_validation.py`) | none | select, validate and redact the report | none |
| Endpoints, MCP transport, contracts, telemetry | none | map requests and errors | service |
| Scripts (`scripts/*.ps1`) | policy document, Entra roles | grant, disable, revoke callers; deploy | App Configuration, Entra, Azure |
| Infrastructure and agent definitions (`*.bicep`, `*.yaml`) | none | none | Azure |

What makes it hard is above all the registry. Every operation is several calls to a table that
other replicas write at the same time; each replica also runs a cleanup and a
reconciler; operations can stop half way; rows pass deadlines (a 15 minute grace for a
reservation with an uncertain outcome, one day of retention while open, seven days
once final) at any moment; the quota lives in a counter that has to agree with the
rows. What must be right, component by component:

- **Table registry and background loops.** The counter never forgets a slot that is
  held; a caller is neither admitted over its quota nor denied below it; one key, one
  investigation; a replay is answered with the right record; a terminal investigation
  stays terminal; no record is deleted while it is in use; every slot comes back.
- **Platform client.** An open circuit admits one probe; the breaker closes again once
  the platform answers; every call ends; the request permits are given back on every
  way out.
- **Caller policy store.** No request is checked against a document that was replaced
  longer ago than the allowed staleness, or one refresh interval if all is well; the
  snapshot never goes back; access comes back after an outage.
- **Requests and reconcilers.** A poll reaches the platform only within its
  investigation's budget and interval, however many replicas race; the first recorded
  outcome stands and has a cause on the platform; nobody is told what is not recorded;
  repeated summaries do not extend retention; a lease that lasts is one replica's; no
  ended investigation keeps its slot for ever, and every request is answered.
- **Output validation.** Findings come from one message that ends in the token and parses;
  the one report among the messages is found.
- **Memory registry.** The quota and the key hold and nothing open is deleted, although
  parts of it run without its lock; no exception stops it.
- **Readiness.** "Ready" is an observation of the dependencies not older than the
  cache lifetime.

## Modules

| Module | What it is |
|---|---|
| `TableRegistry` | the Table registry of one caller, the service operations that drive it, and both background loops, call by call |
| `InvestigationLifecycle` | the abstract specification: lifecycle, quota at admission, retention |
| `TableRegistryInvariants` | the inductive invariant, in named parts |
| `MCTableRegistry` | instances and symmetry for TLC |
| `TableRegistryStructure`, `TableRegistryRows`, `TableRegistryProofs` | the proofs: types, control and copies; rows and keys; counts, theorems |
| `PlatformClient` | the calls of one replica to the platform agent: permits, circuit breaker, retries, and the readiness answer that depends on the breaker |
| `PlatformClientInvariants`, `MCPlatformClient`, `PlatformClientProofs` | its inductive invariant, instances and proofs |
| `CallerPolicy` | the cached caller policy of one replica, the threads that use it, and the document that operators replace |
| `CallerPolicyInvariants`, `MCCallerPolicy`, `CallerPolicyProofs` | its inductive invariant, instances and proofs |
| `ReportSelection` | the choice of the final report among the agent's messages, when it is final, and when it parses: operators, no state |
| `InvestigationPolling` | status and summary requests and the reconcilers of all replicas, on the rows and the threads they share; extends `ReportSelection` |
| `MCInvestigationPolling` | the initial situations and the messages for TLC |
| `ReportSelectionProofs`, `InvestigationPollingProofs` | the proofs |
| `MemoryRegistry`, `MCMemoryRegistry`, `MemoryRegistryProofs` | the registry of one process, an instance, and the proofs |

`TableRegistry` and `InvestigationPolling` are two views of one table. The first has what
costs and frees a slot: the counter, the index, every way to create and delete a row. The
second has what happens to rows that exist: polls, outcomes, findings, leases. Each shows
the other's writes as changes of a row or of its ETag only (`Touch`; `Finalize`,
`CreationEnds`, `Settle`, `Cleanup`, `TouchCounter`). In one module their interleavings would be out of TLC's reach.

### TableRegistry and the code

One partition (one caller) is modelled: no operation except the two background queries
spans partitions, and those treat each row by itself.

- `counter` is `active_count` of the row `__quota_counter__`; `state[i]` the
  `reservation_state` of row `i`, with `free` for an id never used and `gone` for a
  deleted row, and `closed` for both `completed` and `failed`; `keyOf[i]` its
  `idempotency_key`; `index[k]` the `investigation_id` of the index row of `k`.
- `age[i]` counts the deadlines the row has outlived: 1, the grace of an uncertain
  reservation; 2, the retention of active metadata (the index row's `expires_at` is the
  same instant and never moves); 3, the retention of final metadata, for rows in
  `retained`, those whose `expires_at` a terminal state has extended.
- `loc[w]` is the operation worker `w` is in, with its program counter and local
  variables; `fresh[w]` are the rows whose ETag `w` holds and is still current. A read
  adds to it, a write by anyone removes. A conditional call succeeds exactly if its rows
  are in `fresh[w]`; otherwise it is a 412 (or a 404 for a deleted row) and the
  `...Conflict` action follows the code's `except` clauses, retries included.
- `owing` are the workers between the deletion of an open row and its decrement.
  History variables, which guard no action: `blind`, a recount has run while it could not
  see every held slot; `slips`, how often a slot was given back that nobody had freed, or
  taken again by a reopened row; `doubtful`, the rows whose finalize was applied and its
  response lost; `asked`, the rows for which the POST to the platform was sent.
- One action is one call to the table together with the Python up to the next call:
  `ReadIndex`, `GetRecord`, `ExpireRecord`, `Unindex`, `FallbackQuery` are the lookup by
  key; `SweepQuery` to `SweepDone` are `cleanup_expired`; `DecrementRead/Write/Conflict`
  are `_decrement_quota_counter`; `ReadCounter`, `DenyQuota`, `Recount`, `RecountWrite`,
  `Reserve...` are `reserve_investigation`; `TokenFails`, `PostUncertain`,
  `PostSucceeds` are the platform call of `create_investigation`; then `Finalize...`,
  `Release...`, `Complete...` and `...Stale...`. `PROJECT.json` maps each definition
  to its lines.
- A query that returns rows is one atomic snapshot, and a batch takes any `Limit` of them
  or fewer: the table's row order is not modelled, and both background queries span all
  partitions, so that other callers' rows may take any share of a batch. A sweep or a stale
  release that finds no row of this caller is not started in the model.
- The response to a single-row PUT or DELETE can be lost. The client library then sends the
  request again, which meets the row that it has itself written: a 412, which the code takes
  for somebody else's write, or for a deleted row a 404. `DecrementWrite` and `Finalize`
  have this as their second alternative, and the retry reads the row again; `ExpireRecord`
  and `SweepRecord` have it where a 404 raises, and a release or a recount that meets it
  ends as one that dies after its write (`Abandon`) or that loses to another (`RecountWrite`
  reads again in either case). Transactions are POSTs, which the library does not send again
  after a lost response: for `reserve_investigation` the code reads the record back
  (`:674-695`), for the others the operation dies after its effect, which to the table is
  the same as `Complete` or `ReleaseStale` followed by the end of the operation. Lost
  responses and deaths share the bound `MaxFaults`.
- `SilentDeletes` says what deleting a row that is gone does. With `FALSE` it raises
  `ResourceNotFoundError`, as the handlers (`:1132`, `:922`) and
  `test_security.py:1915-1937` expect; with `TRUE` it succeeds, as the documentation of the
  pinned library says (azure-data-tables 12.7.0, `requirements.txt:3`). The library is not
  in the repository, so that both are modelled: `SweepGone` goes on to the index row and the
  decrement, `ExpireRecord` to the index row, `ReleaseConflict` to the decrement. The
  promise of `docs/operations.md:46-47`, that a replica "only releases quota after its own
  successful deletion", holds with `FALSE` and not with `TRUE`.
- `Touch` stands for the writers of `InvestigationPolling`: status and
  summary polls, findings metadata and the reconciler's lease. They change an unexpired
  row's ETag. (The first findings write may also extend `expires_at` of a row that is
  final already; its retention starts moments earlier, when the row is completed, and
  the model keeps that one deadline.)
- `Abandon` ends an operation between any two of its calls: the replica stops, the
  request is cancelled, or a call fails in a way the code does not handle, the failed
  read-back after a lost reserve response included. A lost response that the read-back
  recovers is `Reserve` itself.
- The request fingerprint, the caller's name and the policy snapshot in a row, and the
  difference between "replayed" and "conflict" answers, change no state and are left
  out. The quota is the constant `Quota`: a policy that changes while a request runs
  belongs to the caller policy module.

`SlowOperations` says whether one operation may see a row pass two of its deadlines, or
see it both created and past one. The shortest gap is the 15 minute grace, and an
operation that lasts that long needs a platform call or a table call far beyond its
timeout; with `FALSE` the model excludes it, with `TRUE` it does not. What depends on
the exclusion is said with each property.

`InvestigationLifecycle` knows only where each investigation is, whose retention has
passed, whether the quota was recounted blind, how many slots have slipped, and which
activations the registry is not sure of. `ImplementsLifecycle` states that `TableRegistry`
implements it with `life <- state`, `lapsed` the expired rows, `miscounted <- blind`,
`slips <- slips` and `unsure <- doubtful`: in particular the only ways out of `closed` are a
removal after retention and, for an activation in doubt, a reopening that costs a slip; the
only deletions of open rows are withdrawals and removals; and nobody is admitted beyond the
quota and the slips unless a recount ran blind. That the lifecycle does not let slots slip
at will is `NothingSlips`: it takes a fault or a silent delete.

### PlatformClient and the code

The breaker, the semaphore and the calls of one replica; nothing of them is shared
between replicas. All calls run on one event loop, so that an action is what happens
between two awaits: the await of a permit, of the platform's answer, and of the pause
before a retry. (The breaker has a lock as well, which one event loop does not need.)

- `failures`, `opened` and `probing` are `_failure_count`, `_opened_at` and
  `_probe_in_flight`. `failures` is counted up to `Threshold` only, since the code
  compares it with nothing else; `opened` says whether the recovery time has passed.
- `permits` is the semaphore, `call[c]` where a call is: queued for a permit, with a
  request under way, or in the pause before a retry. Requests that callers make carry
  either method; those of the terminal reconciler, `Background`, are GETs.
- `Arrive`, `Grant` and `QueueTimeout` are `_bounded_platform_request` (`main.py:199`);
  `Enter`, `Send`, `Succeed`, `Pause`, `SendAgain`, `Exhaust` and `Escape` are
  `_platform_request`. The `fate` of a request is chosen when it is sent, from what the
  platform may do at that time, and acted on when it comes back. The semaphore serves
  its queue in order; the model grants a permit to any queued call, which allows more.
- A status or exception counts as one of four fates, by what the code does with it: a
  success; a failure that may be retried; an error status for which `raise_for_status`
  raises; an end that the `except` clause does not list (an oversized response, `:109`, a
  cancelled task, a protocol error). `MaxEscapes` bounds the last. Cancelling a queued
  call or one in the pause has the same effect as `QueueTimeout` or `Escape`.
- `_platform_request` retries the third fate like the second: the `HTTPStatusError` that
  `raise_for_status` raises at `:111` is caught at `:126`. A GET answered with 404 is
  therefore sent `MaxAttempts` times and then counts towards the breaker, although
  `docs/plan.md:558` says that nonretryable errors are not retried.
- `CheckReadiness` is the last part of `_probe_readiness_dependency`; the checks before
  it and the cache, which only delays the answer, are left out. That requests reach only
  a replica whose latest answer was "ready" is what the readiness probe of
  `infrastructure/main.bicep:524` is for. `healthy` is the platform agent: while it is
  healthy, every request that is sent succeeds, unless it escapes.
- `PLATFORM_REQUEST_MAX_ATTEMPTS` may be configured as 0, which sends nothing and
  records a failure; the model assumes at least one attempt.
- `admitted` is a history variable: the calls admitted since the circuit last opened or
  its recovery time last began again.

### CallerPolicy and the code

- `doc` is the version of the document, which stands for its ETag, and `content[v]` what
  version `v` says about a request: allowed, denied, or a value that `from_json` rejects
  (or no value at all). The severity, resource group and enabled tests of one document
  are one answer; a request that asks twice may be answered by two versions.
- `store` is `_store` with its `_etag`. Times are ages: `sinceAttempt` and
  `sinceSuccess` are the clock less `_last_refresh_attempt` and `_last_success`, and a
  thread's `lag` is the clock less the reading it took in `refresh`. The code only
  compares differences, so ages stop at `Horizon`, beyond all of them.
- A thread takes the lock and reads the clock in one action (`EnterRefresh`); it holds
  the lock while it is `fetching` or `answered`. `Answer` is the moment at which App
  Configuration reads the document, which may be replaced again before `RefreshSucceeds`
  or `RefreshFails`. The age of the snapshot is then looked at (`FindUsable`,
  `Unavailable`) and the snapshot used (`Allow`, `Deny`), both without the lock, so that
  another thread may replace the snapshot before either.
- `create_investigation` asks twice (`authorize`, then `BeginGroup`), reads ask once, and
  the readiness probe calls `health_check`, which forces the refresh.
- The write of `_store` and that of `_last_success` are one action: a thread that saw the
  new snapshot with the old age would do what it could also have done before or after.
- `MaxDelay` bounds the time from a thread's clock reading to its use of the snapshot,
  the request to App Configuration included: its timeouts bound that in the program,
  and the promises below are relative to it.
- `retired` is a history variable, the age of every replaced version.

### ReportSelection and the code

- A message is what the code looks for in it, not its text. `json` is
  `LiaisonFinalReport.model_validate_json` succeeding; `token` is where the finalization
  token stands: nowhere, somewhere, or where it makes the report final (the last line of a
  text, the `finalization_token` field of a JSON report); `marks` the headings that score;
  `complete` a text that `_parse_markdown_finalized_findings` accepts but for the token;
  `garbled` a text that redaction leaves unparsable. The regular expressions
  that decide these are not modelled.
- `Score`, `Selected`, `IsFinalized`, `Redacted` and `Parses` are
  `summary_candidate_score`, `select_best_summary_text`, `is_finalized_summary`,
  `redact_sensitive_text` and `parse_finalized_findings`, with the weights and thresholds
  of the code. The stable sort, reversed, is `Outranks`: of equal scores the later message.
- `Composite` is the message that the last three make when they are put together. Its
  length and its sections do not matter: it is scored by the best of its parts, and
  `CompositeIsNotFinal` shows that it never gets as far as the parser.

### InvestigationPolling and the code

- A worker is a request (`Readers`) or the reconciler of a replica (`Replicas`); `loc` has
  its operation, program counter and local variables. One action is one call to the table
  or to the platform with the Python up to the next one. `fresh[w]` is as in
  `TableRegistry`.
- `signals[i]` are the terminal words in the three status fields of thread `i`, `posts[i]`
  its messages. The platform may add to both at any time. `state`, `threaded`, `polls`,
  `finalized` are `reservation_state`, `platform_thread_id`, the two poll counts and
  `findings_finalized_at`.
- There is no clock. `spaced[i][k]`, `lease[i]`, `expired` and `wait` say whether the
  interval since the last poll, the lease, the retention and the caller's deadline are
  over, and each ends at some step, in any order with the others. This allows more than
  the clock does, for instance a lease that ends within its own batch.
- `Ask` is `get_investigation` at the start of `get_status` and `get_summary`; `bare`
  is the snapshot of a record without a thread, which the rest of the request keeps.
  `PollRead`, `PollWrite`, `PollConflict`, `Drop` are `record_status_poll` and
  `record_summary_poll`; `FetchThread`, `FetchMessages`, `MessagesUnread` are
  `fetch_investigation_status_once`; `ReadReport` is the summary's choice; `Close...` and
  `Findings...` are `complete_investigation` and `record_findings_metadata`; `Answer` and
  `AnswerWithheld` the end of a request, the v1 routes' second read included; `StartSweep`
  to `NextRecord` are the claim of a batch and the loop over it.
- `Applied` is a write that succeeds. Its response may be lost: the client library sends
  it again, meets the row's new ETag, and the code takes its own write for a conflict. A
  poll is then counted without being let through, and a lease taken without being used.
- `Finalize`, `CreationEnds` and `Settle` are the creations of `TableRegistry` seen from
  here. `creating` are the rows whose creation is under way on some replica. `Finalize` makes
  such a row active whatever state it has, as the code does (`:698-714`), and after a lost
  response once more; `reopened` records that it undid an outcome. `Settle` is the stale
  release, which does not wait for the creation to end, or the release before the POST.
- `complete_investigation` reads the row and then the counter. The model takes both reads
  in one action; a counter that moves between them only makes the read later.
- Rows are numbered in the order of the table, which `Window` needs: the code takes the
  first `Limit` rows of the query, leased ones included, and skips those it cannot use.
- `Abandon` ends an operation between any two calls: a stopped replica, a cancelled
  request, a failed call to the table.
- `granted` and `shown` are history variables: the polls that were let through, and the
  outcomes the platform ever gave grounds for.

### MemoryRegistry and the code

- The records of one caller, one `lock`, and the threads of `asyncio.to_thread` that run
  registry operations. An operation that only takes the lock, looks a record up and
  writes it is one step (`Finalize`, `Release`, `Complete`, `RecordFindings`,
  `ReleaseStale`); the others stop wherever another thread may run between two loops or
  statements: `Lookup` before the lock, `Enter`, `List`, `Remove`, `Find`, `Count`,
  `Insert` under it, `List` and `Remove` of the cleanup loop and `Drop` of
  `get_investigation` without it.
- `ScanRaises` is the `RuntimeError` of a loop over the dictionary while another
  thread is about to add or delete a record, `RemoveRaises` the `KeyError` of a record
  that another thread has deleted since it was listed. Both end the operation, and the
  `with` block gives the lock back.
- `Settled` is the time assumption of `TableRegistry` without slow operations: a creation
  is over before its record meets its first deadline, 15 minutes later.

## Runs

The runs of `MCTableRegistry` and `memory` do not check for deadlock: ids are finite and
never reused, so a run of the system ends once they are used up. Nor does `polling`, which
ends once the polls are used up and every investigation is closed. All others do.

| Run | Instance | Shows |
|---|---|---|
| `safety` | 2 workers in every role, 2 investigations, 1 key, quota 1, 2 attempts, batches of 2, silent deletes, 1 crash or lost response | `TypeOK`, `CounterCovers`, `QuotaHonoured`, `KeyKeepsItsRecord`, `IndInv` (which has `IndexAgrees` in it), `DeletedOnlyWhenDone`, `ReopenedOnlyInDoubt`, `ImplementsLifecycle` |
| `sequential` | 1 worker, 3 investigations, 1 key, batches of 1, deletes that raise, 1 crash or lost response, 1 foreign write | `RepeatIsReplay`, when operations do not overlap |
| `live` | one requester; one worker for both loops; no key, 1 attempt, deletes that raise, 1 crash or lost response, 1 foreign write | `NothingSlips`, `ReservationSettled`, `SlotFreed` |
| `keyed_denied` | 1 worker, 1 key, quota 2 | `DeniedOnlyWhenFull` fails |
| `quota_exceeded` | 2 workers, 3 investigations | `QuotaNeverExceeded` fails |
| `duplicate` | 2 workers, 3 investigations, 1 key | `NoDuplicate` fails |
| `reopened` | 2 workers, 2 investigations, no key, silent deletes, 1 lost response | `TerminalIsFinal` fails |
| `recovery` | `PlatformClient`: 3 calls, one the reconciler's, 2 permits, threshold 2, 2 attempts, 1 escape | `TypeOK`, `PermitsKept`, `OneProbe`, `ClientInv`, `CallEnds`, `ReadyUnlessProbeLost` |
| `unrouted` | `PlatformClient`: 2 calls, no reconciler, no escape | `ReadyAgain` fails |
| `policy` | `CallerPolicy`: 2 threads, 1 replacement, refresh 2, staleness 3, delay 1, every content | `TypeOK`, `PolicyInv`, `BoundedStaleness`, `PromptPropagation`, `NeverBackwards`, `AccessRestored` |
| `polling` | `InvestigationPolling`: 2 requests, 2 replicas, 2 rows, 2 polls of each kind, 2 attempts, batches of 1, the last 3 messages, 1 fault | `TypeOK`, `EveryPollCounts`, `AnswersAreRecorded`, `OutcomeHasCause`, `ReportIsFound`, `PollsAreSpaced`, `LeaseIsExclusive`, `FirstOutcomeStands`, `RetentionIsSetOnce`, `EndedIsReconciled`, `RequestEnds` |
| `memory` | `MemoryRegistry`: 3 threads, one the cleanup, 3 investigations, one made earlier, 1 key, quota 2, batches of 1 | `TypeOK`, `QuotaHonoured`, `OneLivePerKey`, `OpenIsKept`, `NothingStuck` |

Why these bounds are enough to be interesting. `TableRegistry`: two workers are every pair of
operations (two reservations, a sweep against a finalize, a recount against a
decrement, two completions of one row). `safety` leaves out the writers of `Touch`, which
take an ETag and change nothing else, in favour of both kinds of fault; what a write that
nobody in the model makes does to an operation is in `sequential` and `live`. Two ids with quota 1 let the second request meet a full quota, a
recount and the slot of the first given back. Two attempts reach both the retry and the
exhausted retry. A batch of 2 holds a record and its index row, and a batch that meets a
conflict on its first row still has another; a batch of 1, in `sequential`, leaves a record
behind whose index row is gone, or the reverse. `PlatformClient`: with two permits and three
calls one call queues while two are in flight, and a call from before the circuit opened
comes back while another is the probe; threshold 2 separates a counted failure from the
one that opens the circuit. `CallerPolicy`: two threads are one that fetches and one that
skips or is past the lock; with one replacement a snapshot can be older than the document, and
be replaced by a newer or a broken one; the numbers differ so that each comparison has
both sides and its boundary. `InvestigationPolling`: `MCInit` starts the table in one of five
situations, each with the workers that matter in it and all faults used up where they
would add nothing: two requests that race for the polls of one row; one request from before
its thread exists, with a failing call or a lost response; a request against a reconciler,
whose verdicts may differ, since the thread gets a report and the platform then says it
failed; two reconcilers on two rows whose callers have no polls left, with one crash or
lost lease, where a batch of 1 puts row 2 behind row 1; and a closed row with every
sequence of four messages out of eight (no agent's, a note, a draft with every heading, a
text that quotes the token, a Markdown report, a token alone, a JSON report, one that
redaction breaks), of which the last three count. Two attempts are as many as there are replicas:
`EndedIsReconciled` needs that a lost race costs fewer attempts than the code has, three
there. `MemoryRegistry`: with quota 2 and one record made earlier the second new one fills
the quota; the same key twice is two creations; a batch of 1 leaves an expired record
behind, and the third thread is the cleanup that takes no lock. The proofs remove the
bounds for the safety properties.

### What the failing runs say

1. `keyed_denied`. `_reconcile_quota_counter` takes a missing `reservation_state` for
   `active` (`:481`), and index rows have none, so every keyed investigation counts
   twice: a caller with quota 2, one open investigation and a stale counter is denied.
   The contract counts investigations (`docs/service-contract-v1.md:96`).
2. `quota_exceeded`. A row is deleted and the counter decremented in two calls
   (`:732-738`, `:1131-1142`), and a recount (`:474`) may fall between: it no longer sees
   the row, stores the lower count, and the decrement lowers it again. The counter is
   now below the held slots and the next request is admitted over the quota. An
   expired row not yet swept is invisible to the recount in the same way.
3. `duplicate`. `_get_idempotency_record` (`:874`) and `cleanup_expired` (`:1137`) delete
   the index row without an ETag. Two lookups that both find the same expired record
   race: one deletes the index row and reserves again with the key, the other then
   deletes the new index row. The lookup by query still finds the new record for a
   while, but a request that had passed its query by then reserves a second time.
   `docs/plan.md:511` says "Two replicas using the same caller/key/payload expose one
   investigation and do not issue a second create while the first outcome is unknown."
4. `reopened`. `finalize_reservation` (`:698-721`) writes `active` over whatever state it
   reads. Its first write is applied and the response lost; the row is active, so that a poll
   or the reconciler of another replica completes it and frees its slot; the write sent again
   meets a 412, the retry reads the completed row and makes it active once more. No operation
   has to be slow for that. `docs/service-contract-v1.md:116` calls the three states terminal.
   `ReopenedOnlyInDoubt` in `safety` says that this is the only way; the investigation
   is then open without a slot until it is completed a second time, which lowers the counter
   for another investigation's slot.
5. `unrouted`. `is_available` (`platform_client.py:45`) is false while the circuit is
   open, so that the readiness endpoint answers 503 and the replica gets no requests; but
   only an admitted request can close the circuit. A replica whose reconciler has nothing
   to poll stays unready after the platform has recovered. `docs/plan.md:557` says
   "Recovery restores readiness without restart."
What needs no run. `NoDuplicate` can fail with one worker, too: the instance of `sequential`
violates it, with batches of 1. A request that was left uncertain and then ended (a crash,
say) leaves a reserved row; once both it and its index row have expired, a sweep takes the
index row only, the repeat of the request finds no index row and no unexpired record, and
reserves, and the reconciler then fails the old row and moves its `expires_at` seven days ahead
(`:1078`): two unexpired rows with one key. The older is `failed` and has no thread,
so that no second thread comes of it, but the query by key may answer with it.
`RepeatIsReplay` is what remains: nothing is ever created beside an unexpired record.

With `SlowOperations = TRUE` the instance of `safety` violates `ReopenedOnlyInDoubt`: if the
platform call outlasts the grace period, the reconciler has failed the reservation and freed
its slot by then, and `finalize_reservation` opens the investigation again without one.

A slot slips in three ways, each of them in the steps of `safety`: a decrement whose response
is lost is repeated (`:457-470`; `docs/plan.md:512` says "no lost update or double quota
release"), two sweeps decrement for one row where deletes are silent (`:1131`), and a row is
reopened (`:705`). `CounterCovers` and `QuotaHonoured` say that nothing else puts the counter
or the quota out, apart from a recount that ran blind, and by how much.

A probe that ends at `platform_client.py:109` (a response over the limit), is cancelled, or
raises an exception that is not listed records neither success nor failure. `_probe_in_flight`
stays set, `before_request` refuses every later call, and even the reconciler's polls cannot
close the circuit, although `docs/plan.md:557` says that recovery restores readiness without
restart. `ReadyUnlessProbeLost` in `recovery` says that this is the only way to lose
readiness for good, given those polls.

`DeniedOnlyWhenFull` without keys is proved (`DenialIsDue`) and not run. It is about the quota
exit (`:626`) only: the exit after three conflicts (`:696`) is a 429 to the caller as well,
whether or not there is room.

What was met while modelling, is visible in the modules' actions, and is stated by no run:

- The docs call `completed`, `failed` and `expired` terminal. The registry never replaces one
  by another (`FirstOutcomeStands`), but a status answer does not read them: `get_status` asks the
  platform again (`investigation_service.py:494`), and after `completed` a failing call
  for the messages is answered with `running` (`:458`). A status of `completed` from the
  thread's fields also says nothing of findings, and `get_summary` returns findings of an
  investigation that the registry has as `failed` (`:583` changes nothing then).
- "so only one replica reconciles each thread" (`investigation_registry.py:1028`,
  `docs/operations.md:50`): the lease of a batch is 55 seconds and the batch is polled one
  call after another, so that it can end before its last rows are reached. Two
  replicas then poll one thread; no property forbids it, since the code does not, and
  `FirstOutcomeStands` is what keeps their verdicts from replacing one another.
- The window of the claim query is its first rows (`:1032`). Rows behind a full window of
  rows that never end are not looked at until those expire; `EndedIsReconciled` therefore
  speaks of the time when all active threads have ended.
- A poll that loses three times is answered with 404 (`investigation_service.py:488`), a
  poll whose response is lost with 429 though nothing was let through.
- A request on a reserved row asks for `/threads/` with an empty id, and a long poll keeps
  the snapshot without the thread until its deadline.
- A text that quotes the token among several headings can outrank the true final report
  (500 points and headings against 500 and fewer, or 600). The report is then not final
  and the investigation stays `running`. `OneReportIsFound` assumes a single message with
  the token and so does not speak of this case. A report that redaction breaks is answered with 502 for ever, while the
  status says `completed`. Without `REQUIRE_FINALIZATION_TOKEN`, a Markdown report without
  the token counts as final and never parses.
- The window of messages is the last `max_agent_messages` of all authors, filtered
  afterwards (`:535`): a report can leave it.
- In the memory registry a completion may extend the retention of a record that the
  cleanup has listed as expired already; it is deleted all the same. That is why
  `OpenIsKept` speaks of open records only. Two threads that delete one record, or a
  loop that another thread disturbs, end in a `KeyError` or `RuntimeError`, a 500 to the
  caller; the class says "Thread-safe registry" (`:85`).

### Fairness

`FairSpec` of `TableRegistry` assumes weak fairness of every step of an operation that has begun (the
handlers and loops run to their end unless abandoned), of time, and of the start of
both background loops: `_run_expiry_cleanup` and `_run_terminal_reconciliation`
(`main.py:649-715`) catch every exception but cancellation, sleep, and start again for
as long as a replica runs. Nothing is assumed of callers: `SlotFreed` holds if nobody
ever polls and the thread never ends, since the row expires and the sweep takes it.
The live run has no keys, one worker that shares both loops, and a single attempt at each
conditional write, which keeps the state graph small enough for the temporal check.

That of `PlatformClient` assumes that calls go on, since every request and every wait has
a timeout; that the recovery time passes; that the readiness probe of the container
platform comes again and again (`main.bicep:524`, every 30 seconds); and that the reconciler polls again
and again (`main.py:666-715`), for the calls in `Background`. Whether a replica has such
calls depends on there being an active investigation to reconcile, which is why
`unrouted` has none. Nothing is assumed of callers or of the platform.

That of `CallerPolicy` assumes that threads go on, requests to App Configuration being
bounded by timeouts, and that time passes. Nothing is assumed of callers, operators or
App Configuration; `AccessRestored` is about the time after it has become reachable for
good.

That of `InvestigationPolling` assumes that requests and sweeps go on (every call has a
timeout and every retry a limit), that the reconciler starts again (`main.py:666-715`), that
the caller's wait ends, and that the lease of a row ends or the row is cleaned up. Nothing is
assumed of callers, of the platform, or of time otherwise: polls need not become due.
`EndedIsReconciled` needs one replica that runs; a crash is a fault, of which there are
finitely many.

That of `MemoryRegistry` assumes that threads run and that the cleanup loop starts again
after an exception (`main.py:649-663`). A thread that waits for the lock gets it if the lock
becomes free and stays so; `NothingStuck` does not need more.

## Proofs

`TableRegistryProofs` proves, for every finite set of workers, ids and keys, every quota,
batch size and number of attempts, faults and touches:

| Theorem | Statement |
|---|---|
| `Invariance` | `Spec => []IndInv` |
| `TypeCorrect` | `Spec => []TypeOK` |
| `ReplayIsRight` | `Spec => []IndexAgrees` |
| `KeyTheorem` | `Spec => []KeyKeepsItsRecord` |
| `ReplayTheorem` | one worker: `Spec => RepeatIsReplay` |
| `CounterIsSafe` | `Spec => []CounterCovers` |
| `QuotaIsSafe` | `Spec => []QuotaHonoured` |
| `SlipsNeedFaults` | `~SlowOperations`, `~SilentDeletes`: `Spec => []NothingSlips` |
| `DenialIsDue` | `Keys = {}`: `Spec => DeniedOnlyWhenFull` |
| `DenialIsCounted` | any keys: a denial means that `Live` and the unexpired index rows fill the quota |
| `NothingIsLost` | `Spec => DeletedOnlyWhenDone` |
| `OverIsOver` | `~SlowOperations`: `Spec => ReopenedOnlyInDoubt` |
| `LifecycleIsImplemented` | `~SlowOperations`: `Spec => ImplementsLifecycle` |

`PlatformClientProofs` proves, for any number of calls, permits, attempts and failures:

| Theorem | Statement |
|---|---|
| `ClientInvariance` | `Spec => []ClientInv` |
| `ClientTypes` | `Spec => []TypeOK` |
| `PermitsAreKept` | `Spec => []PermitsKept` |
| `OneProbeOnly` | `Spec => []OneProbe` |

`CallerPolicyProofs` proves, for any threads, versions, intervals and delay:

| Theorem | Statement |
|---|---|
| `PolicyInvariance` | `Spec => []PolicyInv` |
| `PolicyTypes` | `Spec => []TypeOK` |
| `StalenessIsBounded` | `Spec => BoundedStaleness` |
| `PropagationIsPrompt` | `Spec => PromptPropagation` |
| `OnlyForwards` | `Spec => NeverBackwards` |

`InvestigationPollingProofs` proves, for any requests, replicas, rows, messages, poll limits,
attempts, batch size and faults:

| Theorem | Statement |
|---|---|
| `PollingInvariant` | `Spec => []PollingInv` |
| `TypeTheorem` | `Spec => []TypeOK` |
| `PollsTheorem` | `Spec => []EveryPollCounts` |
| `CauseTheorem` | `Spec => []OutcomeHasCause` |
| `AnswersTheorem` | `Spec => []AnswersAreRecorded` |
| `SpacingTheorem` | `Spec => PollsAreSpaced` |
| `LeaseTheorem` | `Spec => LeaseIsExclusive` |
| `OutcomeTheorem` | `Spec => FirstOutcomeStands` |
| `RetentionTheorem` | `Spec => RetentionIsSetOnce` |
| `ReportTheorem` | `Spec => []ReportIsFound` |

`ReportSelectionProofs` proves the parts of `ReportIsFound` for every sequence of messages:
`CompositeTheorem`, `OneReportTheorem` and `FindingsTheorem`. `ReportTheorem` carries them to
the rows: `AgentTexts`, a recursive function, because the prover knows nothing of `SelectSeq`,
makes a sequence of messages of any thread (`TextsAreMessages`, by `Induction` up to the
length of the thread). `MemoryRegistryProofs` proves, for any threads, records, keys, quota and batch size:

| Theorem | Statement |
|---|---|
| `MemoryInvariant` | `Spec => []MemoryInv` |
| `TypeCorrect` | `Spec => []TypeOK` |
| `QuotaTheorem` | `Spec => []QuotaHonoured` |
| `OneLiveTheorem` | `Spec => []OneLivePerKey` |
| `OpenKeptTheorem` | `Spec => OpenIsKept` |

They rest on the named assumptions of the modules (rows have distinct names, sets are
finite, numbers are naturals, the refresh interval does not exceed the staleness, which
`main.py:124` sees to), which TLC evaluates in every run.

None of the properties is inductive alone. In `TableRegistry`, `IndInv` is a conjunction of parts, each with
its own lemma, in the order in which they depend on one another:

- `Structure`: types; `Control`, which operation can be at which program counter with which
  variables set; `Copies`, that a worker whose ETag of the
  counter is current holds its exact value, so `cnt + 1` and `max(0, cnt - 1)` are
  increments of the counter itself.
- `Rows`: ids in use are distinct, a row not yet created has no traces, and `Held`, that what
  an operation learned from a row (expired, open, uncertain, reserved) is still true as
  long as its ETag is. This is what a conditional write relies on, and what shows that
  only expired rows or due releases are deleted.
- `IndexAgrees`: the transaction is the only writer that sets an index row, and it sets
  the record's key in the same step.
- `Keyed`: until some investigation of a key is deleted or outlives its first retention,
  there is one only, and the index row leads to it. Three calls delete an index row without
  an ETag, so the proof has to show that each of them can do so only with a key that is
  spent (`Spent`). That is `Known`: what an operation has learned of a key between reading
  a record and deleting its index row is about ages, keys and deletions, which never
  go back (`Steady`), so that it needs no ETag. A swept index row does: it is stale as
  long as its ETag is. `KeyKept` then has three cases (`IndexMoves`): no change, a spent key
  loses its row, or the transaction creates record and row at once, where there was no row.
  None of it needs the time assumption.
- `Unasked`: a release can only meet a row for which the platform was never asked, since
  the POST comes after the choice between finalize and release.
- `Settling` (only without slow operations): between the reservation and its settlement
  the row stays `reserved` and within its grace, so finalize and release find what they
  left, unless its finalize was applied and the response lost (`doubtful`).
  `ReopenedOnlyInDoubt` is this part's consequence; with slow operations it is false.
- `Counts`: the counter and the slips cover open rows and owed decrements unless a recount ran
  blind; `Tallies` carries the same through a recount that is counted but not yet written;
  `QuotaHonoured` follows because the transaction commits only with the counter it was
  compared with. A decrement by a worker that owes none, and a reopening, are the two steps
  that raise `slips`. The proofs about cardinalities of `Open` and `owing` need exactly
  one row or worker to change per step. None of it needs the time assumption.
- `NothingSlips` (without slow operations and silent deletes): as long as there was no fault,
  a worker about to decrement is in `owing`, having deleted the row itself, and no row is
  doubtful; so neither step has raised `slips`.

`ReplayTheorem` adds, for a worker that is alone, `Checked`: from `find_by_idempotency_key`
to the transaction no unexpired record has the key of the request. It says nothing of the
index row, and that is the point: the query by key makes up for a lost one. With a second
worker it is false (`duplicate`). The assumption is that of the property, not of the code;
`KeyTheorem` is what holds without it. `DenialIsDue` has the assumption of its run: a
caller that sends no idempotency keys. What a caller with keys gets instead is `DenialIsCounted`.

The step lemmas sort the actions by what they can disturb: `Acts` are those that change a row,
the counter or a slot, and for the `Rest` one argument serves all. `Carries` says what a worker
brings along to its decrement, `Watches` what all others keep while it does.
`NothingIsLost` and `OverIsOver` follow from `EveryMove`, which lists how a step can change
`state`. The refinement needs more: `LifeMoves` lists how a step changes states, ages,
retention, slips and doubts together, and `LifecycleStep` turns each case into an action of
the lifecycle or a stutter. A row is admitted under the quota because the counter and the
slips cover the open rows, and the transaction commits only if the value it was compared with
is current.

In `PlatformClient`, `OneProbe` needs `CircuitOK`: an open circuit has always reached the
threshold, so that a failure that comes late, and clears the flag of a probe it has
nothing to do with, also starts the recovery time again; and a call admitted since then is
a probe whose flag is set. `PermitsKept` needs the calls in flight to change by one call
at a time.

In `CallerPolicy`, the bounds follow from what ties the ages together. `SnapshotOK`: the
snapshot was current when its success is dated, because success is dated back to the clock
reading and the document is read after that (`AnswersOK`). `LockOK`: one fetch at a time, so
that answers arrive in the order of the versions and no success is dated before another.
`UsableOK`: once found usable, a snapshot can only be replaced by a fresher one. `PromptOK`:
while no refresh has failed, the latest attempt outside the lock is the latest success, so
that skipping the refresh is as good as making it.

In `InvestigationPolling`, `PollingInv` is `TypeOK`, `RowsOK` and, for each worker, `Fine`
and `Current`. `Fine` is what stays true whatever others do: a verdict was shown by
the platform, and after a close the row is not open any more. `Current` is what a worker
learned from a row and what is true only as long as its ETag is: the poll count it read is
the count, the interval is over, the row is open, nobody leases it. Each conditional write
turns such a fact into its effect, and every write by another worker takes the ETag, so that
the proof of a step is one lemma for the worker that acts and one (`Steady`) for all others.
`EveryPollCounts` needs `Current`, since a write of an old count would lose a poll;
`OutcomeHasCause` needs `GroundsOK`, that `shown` has all the platform now shows.

In `MemoryRegistry`, `MemoryInv` says what the holder of the lock has established: past
`Find` no live record has its key, past `Count` there is room, and nobody else can insert;
what others do without the lock, deleting expired records, can only make both truer.
`DoomedOK`: what a thread is about to delete has expired or is over, and neither is undone for an open
record.

Every invariant and every action property of a passing run is proved, for the constants
named in the tables above. Only model-checked are the liveness properties,
`ReservationSettled`, `SlotFreed`, `CallEnds`, `ReadyUnlessProbeLost`, `AccessRestored`,
`EndedIsReconciled`, `RequestEnds`, `NothingStuck`: the prover does not treat fairness and
enabledness.

## Not modelled, and what is left

- Readiness: the checks before the breaker's and the cache. They have no state but the
  cached answer and its time, which only delays the answer.
- The poll recorders of the memory registry, which compare and count without its lock; no
  document promises poll limits to concurrent requests of that backend. Its lease fields
  have no reader but the one process.
- Resends of a transaction after a 5xx answer, beyond the operation that dies after its
  effect: the library's retry policy for POSTs is outside the repository.
- The caller administration scripts: one administrator at a time; what a replaced
  document means to a running proxy is in `CallerPolicy`.
- Token validation and the regular expressions of redaction and parsing: library calls
  over one value. Endpoint and error mapping, contracts, telemetry, deployment scripts,
  templates and agent prompts, the test stub: no state that interleaves.
