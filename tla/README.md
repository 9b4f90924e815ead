# A formal model of ASTP

ASTP (Automated Security Testing Platform, `src/src/astp`) lets a planner or an
operator act on a target only through a chain of artifacts: a program page
becomes a reviewed policy, the policy authorizes an action, the authorization is
signed into a permit, the permit is consumed once, a worker makes a bounded
number of requests, and what came back goes to evidence files, a hash-linked
manifest and a hash-linked audit log. Around that chain run campaigns, unattended
nights and a development runner. This directory holds TLA+ modules for the parts
that keep state, TLC configurations that check them on small instances, and
TLAPS proofs of the most important properties for every value of the constants.

The program starts no threads of its own except the handlers of the counting
proxy. Its concurrency is that of *processes*: CLI commands, nightly runs,
containers, wrapper scripts and operators that share JSON, JSONL and SQLite
files, and that may die between any two writes. That is what the modules are
about.

Contents: [inventory](#inventory), [modules](#modules),
[runs and bounds](#runs-and-bounds), [fairness](#fairness),
[proofs](#proofs), [disagreements](#where-code-and-documents-disagree),
[not modelled](#not-modelled), [what comes next](#what-comes-next).

To check: `tlc -config MCPermitLifecycle.cfg MCPermitLifecycle` and so on for
each `.cfg`, with the module whose name its own begins with
(`MCDetectorExecutionLate.cfg` with `MCDetectorExecution`,
`MCCampaignStop.cfg` with `MCCampaign`, `MCCampaignNight.cfg` with
`MCCampaignNight`); `tlapm XProofs.tla` for each module of proofs.

## Inventory

State, operations, interaction, what is hard, and what makes each part correct.
`PROJECT.json` lists every part, the ones not modelled too, and every hazard at
its line.

### From a page to a policy

| | state | operations |
|---|---|---|
| intake (`program_intake.py`) | none; text to policy, issues, guardrails, engagement | `import_program_text`, `resolve_*`, `compile_program` |
| catalog (`program_catalog.py`, `intake_server.py`, `program_preflight.py`) | `programs.yaml`, a policy and a capture file per program | sync, select, review, refresh by browser, preflight |

The companion's server, the operator's commands and the preflight load, change
and write whole files that nothing locks. Hard: a page that changes under a
review, a capture that arrives between a read and a write, reviews carried
forward by issue id. Correct: an eligible program is one whose current policy
was reviewed; a review holds for the text it was made on.

### Policy, planning and permits

| | state | operations |
|---|---|---|
| authorization (`authorization.py`, `permits.py`) | none; an engagement, a test and a request give a verdict; a verdict gives a signed permit | `authorize_test`, `issue_execution_permit`, `verify_execution_permit` |
| operational leases (`operational_lease.py`) | one JSON store, unlocked | issue, renew, revoke |
| plans and queues (`planner.py`, `work_queue.py`, `planner_state.py`) | SQLite row per queue item | `build_observation_plan`, `build_fair_work_queue`, `transition_planner_state` |
| permit store, audit log (`lifecycle.py`) | JSON map permit -> available, consumed, revoked; JSONL chain; a `flock` each | `consume_execution_permit`, `revoke_permit`, `append_audit_event` |
| runtime database (`runtime_state.py`) | SQLite `permit_state` and `rate_events` | `admit_worker_action`, `revoke_runtime_permit` |
| rate-state file (`rate_limit.py`) | JSON slots per target, an `O_EXCL` lock file | `acquire_rate_slot` |

Hard: an engagement, a lease or a review changes while permits issued from them
are still valid; the lease store loses updates; a status is read without the
lock before verification; consumption and its audit record are two critical
sections; clocks are read before a lock is waited for. Correct: a permit never
outlives its grounds, is granted to at most one caller and never after a
revocation, the log does not contradict the store, requests are spaced, and the
queue starves no program.

### Detector runs

| | state | operations |
|---|---|---|
| service (`detector_execution.py`) | `detector-budgets.db`: one reservation per run; `result.json` | `execute` |
| Docker adapter (`docker_detector_adapter.py`) | containers of a run | run worker, read ledger, remove |
| field HTTP adapter (`field_http_observation.py`) | a proxy and a redirect chain | `execute` |
| counting proxy (`counting_proxy.py`) | request ledger (SQLite), pacing stamp, circuit counter, active handlers | one handler thread per request |
| orchestrator (`orchestrator.py`, `orchestrator_store.py`) | `campaign.db`: campaign, actions, counters | start, stop, resume, report; the journal of the service |
| chaos campaign (`m53_chaos.py`, acceptance scripts) | artifacts of each fault point | inject, recover, report |

The orchestrator runs a batch through the service, which drives the journal and
the adapter; the worker's only way to its target is the proxy, whose ledger the
adapter reads back. Hard: every write is durable by itself, so a crash leaves
reservation, result, action and counters at different points; a run may be
executed twice; the proxy outlives the process that started it; commands
interrupt a batch and each other. Correct: a run is launched at most once; the
stores never contradict each other; what the target received is in the ledger,
within the ceilings, and in the accounts; only runs whose outcome is known are
retried; the campaign follows its transition table, stops, and ends.

### Nights

| | state | operations |
|---|---|---|
| nightly campaign (`nightly_campaign.py`) | target registry, session ledgers, results and summary | gates, rounds of plan, queue, session and discovery |
| night scheduler (`m53_night_scheduler.py`) | one JSON state, replaced by each operation | select, rate-limit, complete, replace leases |
| full night (`m53_full_night.py`) | results, report, acceptance, manifest | the driver's rounds, follow-ups, counts, publication |

Hard: budgets across rounds with failures, links that lead back, a 429 in the
middle of a round, leases and revisions replaced in between, a crash between
execution and completion, documents that describe each other. Correct: nothing
is observed or launched twice, waits are kept, and what a night publishes is
what happened.

### Observation sessions and field work

| | state | operations |
|---|---|---|
| session (`controlled_loop.py`, `cli.py` run-observation-session) | queue position, circuit breaker, outcomes | the item loop |
| session ledger (`session_ledger.py`) | SQLite counters per session id | `reserve_action`, `record_completion` |
| worker (`observation.py`, `authenticated_observation.py`, CTF adapter) | evidence files | `observe_http` and its callers |
| evidence store (`evidence_store.py`) | JSONL manifest, a lock file | `register_evidence`, `verify_evidence_manifest` |
| execution trace (`execution_trace.py`) | JSONL chain, no lock | `append_trace_event` |
| field assessment (`program_field_assessment.py`, wrapper scripts, `assessment.py` and the analyzers) | a prepared directory, a session in it, classified results, findings, continuations | prepare, run, classify, assess, bind, continue |

Hard: two commands may name the same session (the id has a default) and then
share everything; a wrapper picks the newest preparation, which may be
another's; any file operation may fail half-way; a dead process leaves lock files
behind. Correct: requests stay within budget and are asked once, no request
precedes its audit record, chains are chains, what is reported or concluded
rests on intact evidence of known origin, and every run ends.

### Qualification of runtimes

| | state | operations |
|---|---|---|
| image builds (`build-images.ps1`, `offline-negative-probes.ps1`) | the tag of each runtime, a provenance file naming the image it was built as, probes | build, write provenance, probe |
| qualification runs (`physical_qualification_runner.py`, `permit_consumption_proof.py`, `physical_runtime_commands.py`, `worker_evidence_bridge.py`) | one request file per runtime, a directory per permit, the evidence manifest | `run_runtime_lab_qualification` |
| probes and status (`physical_probe_evaluator.py`, `qualification_session.py`) | one record per probe, filed by image | `record_physical_probe`, `qualification_status` |
| adaptive assessment, readiness (`physical_adaptive_assessment.py`, `full_pentest_readiness.py`) | a trace of two runs; a report | observe, verify, persist; collect, evaluate |

Hard: runs of one runtime share its request file, the container reads it after
the permit was consumed for it, the image is named by a tag that is moved before
the provenance says so, and a run may die between writing and registering.
Correct: registered evidence is never replaced, a probe rests on a run that paid
and asked for its own target, a ready report on a trace and on all probes of one
image.

### Development runner

`scripts/autonomous-dev/autonomous_dev.py` is a state machine over a state file, a
repository, two lock directories, an agent and a validation. Hard: processes die
anywhere, stale locks are taken over, the repository changes under the runner.
Correct: a milestone is claimed only after its validation, on the tree that was
validated.

## Modules

| module | models | relation to the others |
|---|---|---|
| `OneShotPermit` | what every permit store promises: available, then granted once or revoked for ever | refined by `PermitLifecycle`, `RuntimeAdmission`, `DetectorExecution` |
| `PermitLifecycle` | `lifecycle.py`, `consume-permit`, `revoke-permit` | implements `OneShotPermit` |
| `RuntimeAdmission` | `runtime_state.py` | implements `OneShotPermit`; one step of the next ones |
| `Cascade` | a chain of early returns as rows of condition and verdict | used by `Authorization`, `NightlyCampaign` |
| `Authorization` | `authorize_test`, lease rules, building and verifying of permits, as operators | used by `PolicyAuthority` |
| `PolicyAuthority` | engagement, attestation, lease store, plan, queue and permits over time | issues what the permit stores consume |
| `PlannerQueue` | `work_queue.py`, `planner_state.py`, the resume guard | |
| `ProgramIntake` | `program_intake.py` and the carrying of reviews, as operators | used by `ProgramCatalog` |
| `ProgramCatalog` | server, review commands and preflight over the catalog's files | its engagement is what `PolicyAuthority` begins with |
| `DetectorExecution` | `detector_execution.py`, the journal of `orchestrator.py`, actions and counters of `orchestrator_store.py`, what adapter and proxy bring back | its budget store implements `OneShotPermit` for runs |
| `CountingProxy` | `counting_proxy.py`, one thread per request | its ledger is the `ledger` of `DetectorExecution` |
| `FieldObservation` | `field_http_observation.py` as an adapter of the service | |
| `DetectorChaos` | the chaos matrix, the Docker adapter under faults, reconstruction and report | |
| `Campaign` | campaign states and commands of `orchestrator.py` and `orchestrator_store.py` | the batch is `DetectorExecution` seen as one outcome per run |
| `NightlyCampaign` | `run_nightly_campaign`, `_run_program`, target discovery and registry | a session is one step per target |
| `NightScheduler` | `m53_night_scheduler.py` and its driver in `m53_full_night.py` | a launch is `DetectorExecution` seen as a journal that accepts a run once |
| `FullNight` | `run_full_night`: runs, counts, report, acceptance, manifest | a result is what `DetectorExecution` stores |
| `ObservationSession` | `run-observation-session`, `run_controlled_queue`, `observe_http`, `session_ledger.py`, `evidence_store.py` | admission is one step, as `RuntimeAdmission` shows it may be |
| `WorkerObservation` | the file branch of `observe_http`, rate file, transport addresses, authenticated and CTF callers | consumes as `PermitLifecycle` does |
| `StoredAssessment` | analyzers, candidates and findings over stored evidence, as operators | used by `FieldAssessment` |
| `FieldAssessment` | wrappers, preparation, session, classification, trace, provenance, continuation | a session has one item per directory |
| `AutonomousRunner` | `autonomous_dev.py` | |
| `QualificationLab` | image builds, qualification runs, physical probes, the adaptive assessment and the readiness evaluation | a permit is consumed in one step, as `PermitLifecycle` shows it may be; registering is one step, as `ObservationSession` shows |

`MCPermitLifecycle`, `MCDetectorExecution`, `MCCampaign`,
`MCObservationSession` and `MCProgramCatalog` give one module its constants.
`MCProxyAndLab`, `MCCampaignNight`, `MCFieldWork` and `MCNightWork` do so for
several. The components of such a module share no variable, so a product of them would only
multiply states: a variable `component` is chosen in the initial state and never
changes, a step belongs to that component, and the variables of the others keep
their initial values. What is checked is exactly the union of the components'
own state spaces. Where a component has a specification with fairness, the
fairness of the union names the component.

How state and actions correspond to the code:

* **PermitLifecycle.** `store` is the state file, `audit` the log, `stateLock`
  and `auditLock` the `flock`s, which the kernel drops when a holder dies.
  `Peek`, `Verify`, `LockState`, `Claim`, `ReadLatest`, `LockAudit`,
  `AppendAudit` are the stretches of code between which another process can act.
  A whole-file read and an `os.replace` are each one step.
* **RuntimeAdmission.** `BEGIN IMMEDIATE ... COMMIT` is one step; reading the
  clock and verifying is another, before it, because a worker waits for the
  write lock for as long as it takes.
* **Authorization.** Each function with early returns is a `Cascade`: the first
  row whose condition holds gives the verdict, in the order of the code. Rules
  stand for the set of targets they match, digests for what they digest.
* **PolicyAuthority.** The clock, the engagement (replaced by the operator), the
  attestations, and the lease store: a client reads the file and changes its copy
  (`pending`) in one step and replaces the file in another, so that updates can be lost.
  Permits are kept as issued; verification is evaluated in every state.
* **PlannerQueue.** The loops that build a queue are modelled by what they produce,
  cut at the limit: the open rows of the active plans by turn (how many open rows of
  the plan come before) and then by plan; or those of one plan by the score of their
  target, rows of one target in their order. Item states are read in one step and
  written in another.
* **ProgramCatalog.** Each command is a sequence of loads and dumps; a command
  can be abandoned between any two. Each capture finds any page of `Pages`.
* **CountingProxy.** One step per critical section of `_LedgerStore` and of the
  pacing lock; `row` is durable, `lastForwarded` and `failures` die with the
  process; `hit` records what the target received, so that the ledger can be
  compared with it.
* **DetectorExecution.** Every durable write of `execute` is a step. The
  journal's calls are sequences of store operations that are performed one at a
  time. Executing a run again meets the rows of the first time, since all ids
  are digests of the request and its attempt. `live` containers keep forwarding
  after their process died, and between the reading of the ledger and their
  removal; the history variable `late` counts what left in that window.
* **FieldObservation, DetectorChaos.** The proxy and its request in flight are
  actors of their own, which go on while the adapter reads, raises and removes.
  The client may give up wherever the request is (`TransportFails`): before it was
  sent, while the proxy holds it back, or after it left.
  A chaos point is a way the adapter is told to fail; recovery reads what is on
  disk.
* **Campaign.** `transition_campaign` is a read and a write. A command is the
  sequence of transitions it makes (`StartPlan`, `StopPlan`, `Resume`, `Drain`,
  `Conclude`), and commands interleave between any two of these steps. `Crashes`
  lets them die, which includes ending in an exception; the history variable
  `torn` says that one died within its plan.
* **NightlyCampaign.** `Gate` is the cascade before the rounds; a round plans the
  ready targets, observes them one by one with the breaker and the budgets of
  `_run_program`, and merges what the answers link to. A target is a spelling of a
  URL: seeds are registered as their scope rules spell them, links by
  `CanonicalForm`. An error that `run_nightly_campaign` catches cuts a program off
  (`Raise`), which then loses its result in memory, not what it did; one that it
  does not catch (`Escape`: YAML, the session ledger's database, the writing of the
  summary) ends the night: its stage is `dead`, where one that ends in its summary is
  `written`.
* **NightScheduler.** `file` is what the state file holds (clock, round,
  rows, events); `decision`, `launchOutcome` and `kept` live in the driver and are lost when it dies (`DriverCrash`), after
  which the file is reopened. `runs` is what the journal accepted; a run has the revision
  its work requires and the one that its request names (`NamedRevision`), which the
  driver writes without looking at the work.
* **FullNight.** A step per document; `Disk` is what a reader finds. The process
  may die between any two.
* **ObservationSession.** The item loop, the broker, the admission, the audit
  events, the transport and its three kinds of outcome, the writing of the
  files, the registration under its lock (`Lock`, `Sign`, `AppendEntry`,
  `Unlock`), and the catch-all that turns any exception into a failed item
  (`Raise`, `Fail`). A lock that times out is a step. `files` are shared by
  position because the path is built from the session id and the queue id;
  `Keepers` are the processes run with `--persist-body`.
* **WorkerObservation.** The same request under a permit file: consumption,
  the clock read before the rate lock, the slot, the addresses tried one after
  the other, the artifact and its registration.
* **FieldAssessment.** A directory per preparation; `at` is the step a wrapper has reached in
  its script; the session's ledger and trace are files of the directory, the trace
  is read and appended in two steps; a wrapper dies anywhere and another picks
  its directory up.
* **AutonomousRunner.** Session lock, runner lock, load, recover, agent, settle,
  validate, advance, finish, account; each write of the state file is a step,
  `Foreign` is a change of the tree by
  somebody else.

* **QualificationLab.** `tagged` and `provenance` are what Docker and the
  provenance file say; a script is a sequence of their changes. A run is a record whose
  `at` is how far it got; it launches whatever image is tagged and asks whatever the
  request file holds at that moment. A run that dies has registered a first part
  of what a step registers (`Reaches`). Readiness reads manifest, runtimes and
  trace one after the other.

## Runs and bounds

Runs expected to pass:

| run | question | bounds and why they are enough |
|---|---|---|
| `permit_lifecycle` | can two commands, in any order and dying anywhere, both use a permit, fork the log, or make it lie? | 2 processes, 2 permits (one expires), 2 records: every pair of commands on the same and on different permits, with both outcomes |
| `proxy_and_lab` | do the ceilings hold at the target, and is the ledger never short? Do probes, trace and readiness rest on what ran, and does evidence stay? | proxy: 4 threads for 3 requests and 2 connections, interval 2, so one thread is refused and two pace from the same stamp. Lab: 2 runs, which are an assessment or any two of an operator, one of another target and one bounded; 2 runtimes, the verifier's image built twice, 1 offline probe, one run dies; readiness is asked for once the assessment has begun its last run |
| `observation_session` | do two processes on one session keep budget, chain, log order and ledger, and do they end? | 2 processes, 3 items with 2 origins, budget 3 (below the 6 items), breaker 2, one process keeps bodies; failures, crashes and expiry anywhere |
| `campaign_and_night` | do commands that interrupt each other leave a campaign that ends or is paused; does a night end, honestly? | campaign: 3 processes, 1 run, 3 commands after the start, no crash. Night: 2 programs, 4 targets that name each other in a cycle and across a downgrade, two of them spellings of one URL, 7 catalogs that between them meet every verdict of the gates, 2 rounds, budgets of 3, breaker 2, so that a found target is ready one round later and a failed one is tried again |
| `field_work` | is everything around a field observation grounded: permits, admission, queue, assessment; do commands that overwrite each other leave a campaign that somebody moves on; does the runner claim what was validated? | admission: 2 workers, 3 permits, 2 targets, 6 instants, so that instants of one target commit out of order. Campaign: 2 processes, 2 runs, 4 commands, crashes. Authority: 2 clients, 2 policies, 2 leases, 1 permit, 4 instants with lease lengths 1 and 2: a lease is renewed, revoked and lost by a concurrent write while a permit lives. Assessment: 2 wrappers, 1 action, 1 death, a root that redirects into and out of the scope, 2 stored records that must not count. Planner: 3 programs of 0 to 3 rows, one held back. Runner: 1 process started up to 3 times with up to 2 crashes, 2 milestones and one change by somebody else |
| `night_work` | does what a night rests on hold under races, deaths and faults? Do a run's budget and counters miss nothing but what left after the ledger was read, and is it retried only if all that the adapter saw was answered? | execution: 2 processes for 1 run of 2 requests, whose proxy goes on until it is removed: every ending of the run. Scheduler: programs that are offline, revised, renewed, denied, rate-limited or exhausted, one driver crash, a horizon of 8 of which 4 are the night, a 429 that asks for less and one that asks for more than the night. Full night: 2 scheduled, 2 external, 2 internal runs with every pair of outcomes the service stores. Chaos: 2 tries of 1 request at each fault point. Field observation: every answer of a target over the redirects the permit allows. Catalog: 2 commands at a time, 5 in all, 1 program, 3 issues. Workers: 2 with runtime database, permit file and CTF requests, 2 addresses, interval 2, one crash |

Each component of a run that names several was also checked alone, with the same
constants, while it was written.

Runs expected to be violated are in
[the section on disagreements](#where-code-and-documents-disagree).

What the properties say:

* Permits: `GrantedOnce`, `ImplementsOneShot`: the store is a `OneShotPermit`,
  under the mapping that reads its statuses. `AuditTrail`,
  `LostRaceExplained`: `verify_audit_chain` always succeeds, and
  an accepted record means a consumed permit, also when the process that audits
  is late; a loser of a race is told the status that won. `LocksReleased`: a
  lock that is held is eventually released. `AdmissionSound`:
  consumed permits, rate events and accepted admissions correspond; admissions
  for one target are apart by the interval of their rate, or by the second for
  which events are kept, whichever is shorter (`Enforced`). `PermitsGrounded`: no permit under a program that must be
  online outlives the attestation by more than a lease (`OnlineHorizon`); while
  a permit verifies the policy still allows its request (`GroundsStillHold`); a
  permit of the queue rests on a review of that very target (`ReviewBound`).
* Queues: `FairShare`: no program gets two items more than one that still has
  work and a place among the active.
* Proxy: `BudgetCeiling`, `BurstBounded`: what the target sees at any time and
  within an interval. `LedgerTruthful`: what the target received is in the
  ledger.
* Detector runs: `StoresAgree`: reservation, result, action and counters never
  contradict each other. `GapAccounted`: a closed reservation misses exactly
  the requests that left between the reading of the ledger and the removal of the
  proxy. `AftermathSafe`: a run offered for a retry has no request of unknown or
  failed fate but those of that window (a worker that timed out after its requests
  were answered is retried, and asks again), each launch was counted as a permit
  before, and no request is counted twice. `FieldAccounted`: the verdict of a field
  run misses at most the one request in flight when the transport failed, a run
  that may be retried has no other behind it, and a completed one has one hop for
  each counted response. `RecoverySound`: what a recovery reports stays true
  after the containers are gone, and a fault point is tried again only if no
  request left.
* Campaign: `Unwedged`: whatever commands overwrite of each other, when nobody is
  at work the campaign runs, is paused or has ended, unless a command died within
  its plan. `Settles`: a campaign that was created ends, is paused or is resumed.
* Nights: `NightHonest`: no spelling of a target is observed with success twice
  (`ObservedOnce`), none without its own review (`ReviewedOnly`), and results
  report what was done (`ResultsTruthful`). `NightEnds`: a summary with one result
  for every selected program, in order, unless an error that nothing catches ends
  the night. `ScheduleKept`: no work is launched twice, waits
  after a 429 are kept, COMPLETED means launched and successful.
  `LaunchesCurrent`: a launched work was planned for the revision and bound to the
  lease that are its program's at that moment, in order and in time.
  `NightAccounted`: the manifest of a night that returned verifies everything on
  disk, and report, acceptance and results agree on what was forwarded.
* Sessions: `BudgetHeld`, `RefusalsBind` (no request before permit and audit
  record, none after the breaker), `ManifestChained`, `CompletedIsRegistered`,
  `LedgerAccounted`, `SessionsEnd`. `SharedFilesHold`: rate slots are an
  interval apart, or the second the file looks back; of the processes with one
  permit one gets to the wire; an evidence file is registered as it is, unless its
  last writer has yet to do so or died.
* Field assessment: `OneRequest`: a prepared directory asks its target once,
  however many wrappers find it. `AssessmentGrounded`: a continuation follows an
  intact response of the target; no finding rests on an altered record or on one
  of unknown origin. `SummaryOrdered`: the counters of a running session do not
  run ahead of its trace.
* Catalog: `ReviewsHold`: what is eligible was reviewed as it is, and a reviewed
  rate is kept.
* Runner: `ClaimsValidated`: what is claimed as complete was validated as it is.
* Lab: `LabEvidenceIntact`: whatever runs overlap, die or are started again, a
  registered file holds what it held then. `QualificationBacked`: no container
  starts before its permit is consumed; a probe was recorded by a run that asked
  for its own target and registered what came back; a trace is of two runs that
  ended well with permits of their own; a ready report had a trace, and for each
  runtime all probes of one image.

`CHECK_DEADLOCK FALSE` is set throughout: commands, runs and sessions end, and
clocks and logs are bounded, so that a state without successors is an end and
not a deadlock. Bounds on counters (`MaxClock`, `MaxTime`, `MaxAudit`,
`MaxCommands`, `MaxCrashes`, `MaxDeaths`, `MaxLeases`, `MaxPermits`, `MaxIssues`)
are guards of the actions that would exceed them.

Symmetry is used for detector runs and processes, proxy threads, wrappers and
observing workers, and only in runs whose temporal
properties are step properties; the constants that tell members apart
(`Expiry`, `OriginOf`, ranks) are not permuted.

## Fairness

* `LocksReleased` (PermitLifecycle): weak fairness of the steps of a process
  inside a critical section, or of its death: code under the lock only computes
  and writes one file.
* `Settles`, `QuietWhenStopped` (Campaign, `FairSpec`): a command that
  does not die goes on, and a run of the batch ends, because the worker has a
  timeout.
* `NightEnds`, `NightSummarised` (NightlyCampaign): weak fairness of `NightStep`,
  the single process of the night: it waits for nobody, its sessions have timeouts
  and its rounds a bound. Nothing is assumed of the attestations, which may grow stale.
* `SchedSpec` states weak fairness of the driver; only safety is checked of it.
* `SessionsEnd` (ObservationSession, `FairSpec`): weak fairness of each
  process's step. A process waits for nothing but the manifest's lock file, and
  there the ten-second timeout is a step that is enabled as long as the lock is
  taken. The property says that a process ends *or dies*; nothing is assumed of
  dead ones, whose lock files stay for ever.

No fairness is assumed of users, of the target or of the clock.

## Proofs

All theorems hold for every value of the constants that meets the named
`ASSUME`s of the modules (finite sets of processes, positive budgets, sentinel
values that are no members of the sets they stand apart from, policies, pages,
plans and links of the shape the code gives them: rates are numbers or absent, the
lines of a page raise issues the importer knows, a plan is a sequence of rows, a chaos
plan names each point once). `ScriptAssumption` says that the scheduler's script has a
round before the deadline for every work of a program that may be launched, and at most
two works for a program that gets a 429. The script of `m53_full_night.py` (506-516,
612-686) is such a script: three rounds before the deadline, two of them after leases
were replaced, for one or two works. With fewer rounds, a program whose works are still
pending and that has no result would be reported COMPLETED. Three theorems assume
more, and say so in their statement: `AsksOnce` and `AssessmentsGrounded` that a
ledger allows one action (`MaxActions = 1`, as the wrapper scripts have it), and `ClaimsAreValidated` that at most one process is past
the session lock (`OneSession`). TLC evaluates the assumptions of each module in its
runs.

| module | theorems | argument |
|---|---|---|
| `PermitLifecycleProofs` | `TypeCorrect`, `OneGrant`, `RefinesOneShot`, `AuditChain`, `LogIsTruthful`, `AuditTrailHolds`, `LosersAreTold` | `Guarded`: who is inside a critical section holds its lock, and what it loaded is still what the file says. Without it, neither the claim nor the append is safe. The refinement maps `store` and `grants` to the abstract permit |
| `FieldWorkProofs` | `TypeCorrect`, `RefinesOneShot`, `AdmissionIsAtomic`, `RequestsAreSpaced`, `AdmissionsAreSound`, `PermitsAreGrounded`, `SharesAreFair`, `ClaimsAreValidated` | Admission: the invariant keeps, for each admission, its own event until a later one is a window younger, so two admissions are apart by the interval or by the window, whichever is shorter. Authority: each permit was issued under a policy and a test, for a request that these allowed at that moment, and one taken from the queue for its item's target and clearances (`AuthorityInv`, `Issued`); lemmas say which gates of the two cascades a request that is allowed has passed. Queues: a queue marked fair is one of the plans on file (`QueueInv`). Take a program's first row that was left out: nothing of a later turn was queued (`TurnsAreKept`), so the program got as many items as the turn of that row, and no other more than one above that (`ActiveShares`); and a program with work is left out altogether only when the active ones fill all places (`PlacesAreUsed`). First rows exist because sets of numbers have least elements, which stands in for an induction over the loop. Runner: who loaded the state file has it in memory (`Current`), and what it is about to record, advance or declare complete was validated (`Claims`). This needs that at most one process is past the session lock (`OneSession`), which the lock does not ensure (`OneRunner`, below), so the theorem assumes it at every moment; a single process always satisfies it (`LoneRunnerClaims`), and that is what the run checks |
| `ProxyAndLabProofs` | `TypeCorrect`, `LedgerIsTruthful`, `CeilingsHold`, `BurstsBounded`, `LabEvidenceStays`, `QualificationsBacked` | Proxy: rows and threads are staged together; the set of rows stamped within an interval, or about to be, never outgrows the active ones. Lab (`LabInv`): an entry of the manifest was registered by a probe, by a run that got as far as that file, or by the trace, and none of these writes that file again (`Attributed`), so what is hashed stays; a run has done what its stage says (`Advanced`), and a runtime is judged qualified on probes that are still there (`Judged`) |
| `DetectorExecutionProofs` | `TypeCorrect`, `LaunchedOnce`, `StoresNeverContradict`, `CountersCover`, `BudgetsAccounted`, `RetriesAreSafe`, `AftermathsAreSafe`, `RecoveriesAreSound`, `NightsAreAccounted` | `Owned`: only one process is past the reservation of a run; `Ordered`: what each process has still to write agrees with what the stores say; `Accounted`: no container of a run lives before its launch or after its reservation was closed (`Quiet`), what the adapter read and what left since then add up to the ledger (`Counted`), and of a run that may be retried only the latter may lack an answer (`RetriesKnown`). That nothing is late is not so: `detector_late_forward` shows it. Counters: a journal call counts each thing once (`InPlace`), and the counters lead or trail what happened by the processes between the two steps (`Counters`): those that hold a permit not yet counted as consumed, those that paid and have not launched, and the units of the reservations whose process has not reconciled yet. Chaos (`ChaosInv`): the proxy is there only inside the run of the point at hand (`ProxyGone`), so a point's ledger is written only before it is recovered (`FirstRun`) or in a second run, which begins only when nothing was forwarded in the first (`SecondRun`). Full night (`NightDocuments`): from the report on, all runs are stored and none changes, so each document counts the same results (`Reported`, `Accepted`), and the manifest hashes what is still there (`Hashed`) |
| `CampaignProofs` | `TypeCorrect`, `NeverWedged`, `NightIsHonest` | Campaign: what a command has still to write is a path of the transition table that leads to a state where a campaign may stay, or to `draining` with the conclusion to come (`Chained`); and from any other state some command drives it on: one that has validated its next transition and will write it whatever the others do, or one that may still validate it (`Driven`). A command whose transition is refused leaves the state to the one that changed it. Night (`NightInv`): the registry of the current program names the targets answered in it (`Accounted`), and its queue names each target once, none of the observed still to come and each allowed by policy and review (`Rowed`); a night that is dead has changed nothing else (`EscapeStays`) |
| `ObservationSessionProofs` | `TypeCorrect`, `BudgetsHold`, `LedgersAccounted`, `RequestsAnnounced`, `CircuitsHold`, `RefusalsAreBinding`, `ManifestsChained`, `CompletedAreRegistered` | the ledger counts the items taken (`Begun`), and requests are among them; what is reserved and not completed is counted by the processes inside an item (`Holders`); a process at the manifest owns its lock file, and what it signed still continues the chain (`Locked`); what an item has registered so far (`Filed`); the breaker counts the failures since the last completed item, and each item taken but the one at hand is resolved (`CircuitsHold`) |
| `FieldAssessmentProofs` | `AsksOnce`, `SummariesOrdered`, `FindingsAreBacked`, `AssessmentsGrounded` | a directory's ledger pays for its requests: the reservations of a directory count the requests made in it and the wrappers about to make one (`Paid`), a completion and a failure are each counted after their reservation (`Counted`), and a wrapper past a step of the script has the directory that step needs (`Placed`). With one action per ledger, one request follows, however many wrappers work in the directory. The counters count what the trace already has and the trace what was announced, with one wrapper in each step between (`Balanced`), so a report that reads the counters first never finds more there than in the trace. Each signal is founded on an intact record of the target (`Founded`). With one action, a directory keeps a response or a failure, never both (`Settled`), and what is bound or continued rests on the response kept (`Grounded`) |
| `NightWorkProofs` | `AccountsForRequests`, `LaunchesOnce`, `LimitsAreKept`, `ReportsAreTrue`, `SchedulesAreKept`, `LaunchesAreCurrent`, `SharedFilesAreSafe`, `ReviewsAreHeld` | Field observation: the ledger's rows are the hops sent (`Ledgered`), a hop is in the chain when its answer was read (`Answered`, `Hops`), and a verdict lacks the request that was admitted when its transport failed, if that was forwarded since, and no other (`Concluded`, `Late`). Scheduler: every launch is in the journal (`Journaled`), which the driver's death does not touch; a row's pending works follow those it has done (`Queued`), a decision holds heads of rows that are still eligible (`Decided`), the outcome in hand is the last result (`InHand`), and a row waits for each 429 of a work that left it (`Waited`). Reports (`NightStory`): works are bound to the revision and lease of their row (`Bound`), so none that is dispatched is refused; each program without a limit has had a work done in every round that is over (`Served`), which with `ScriptAssumption` leaves none pending at the end, and one with a limit has its two works in any trace that verifies; the results in the driver's memory are those of the runs (`Remembered`), a work that left its row is among the events (`Announced`), and a report is made only of a trace that verified (`Reported`). Workers: a slot once handed out is still a stamp of the file, or one at least `SlotGap` later is (`Slotted`), which is the shorter of the interval and the second the file looks back; so a stamp that leaves the file is never the newest one that matters. A worker past the admission holds a permit nobody else past it holds (`Admitted`), and what lies in an evidence file was written by a worker that registered it or has not come to that (`Filed`). Catalog (`CatalogInv`): a policy, on file or in the memory of any command, contains every issue its text raises (`Covered`), resolves only issues somebody reviewed for that program (`Backed`) and has a rate where the review of a rate says so (`Rated`); lemmas show that the import, the carrying forward, a review and a guardrail preserve these |

`RequestsAnnounced` and `CircuitsHold` together are `RefusalsBind`;
`RetriesAreSafe` and `CountersCover` are `AftermathSafe`; `LaunchesOnce`,
`LimitsAreKept` and `ReportsAreTrue` are the three parts of `ScheduleKept`, which
`SchedulesAreKept` states. The `TypeCorrect`
theorems state the type invariants of their modules, which the runs therefore do
not check again. `CountersCover` compares the counters with the sizes of sets
(`Units`: one element for each launch, or for each request of a reservation), which
are as large as the sums of the two functions.

Every safety property of a passing run is stated by a theorem. Only model-checked are the
liveness properties (`LocksReleased`, `Settles`, `NightEnds`, `SessionsEnd`): they
depend on fairness and enabledness, which the prover does not handle.

No module uses a recursive operator.

## Where code and documents disagree

Each is a run that TLC finds violated.

* `detector_late_forward`: the adapter reads the proxy's ledger while the proxy
  still runs, and removes it afterwards; a request forwarded in between is in no
  account (`docker_detector_adapter.py:356`).
* `detector_program_budget`: each run of a batch reserves what remained when its
  request was built (`detector_execution.py:186`).
* `campaign_stop`: a stop that is stored does not keep the batch from beginning
  its next run (`orchestrator.py:128`).
* `campaign_resume`: an action that a dead batch left executing is no unknown
  outcome, so the campaign is resumed over it without a review
  (`orchestrator.py:175`).
* `observation_evidence`: two runs of a session write to the same evidence
  files; the second destroys the evidence of the first, whose manifest entry
  then no longer matches (`cli.py:2075`).
* `program_guardrail`: a reviewed exclusion is recognised by the position of its
  issue; when the page is captured again and its lines have moved, the review is
  carried forward by text and the guardrail it stands for is not
  (`program_intake.py:555`).

Also seen. Each is a definition of the module named, not in a run of its own, that
TLC refutes when it is checked on the module's component:

* `StepsLegal` (Campaign): a transition is validated against a state that another
  command has left in the meantime, and the stored state makes a jump the table
  does not have (`orchestrator_store.py:85`). `Unwedged` states what does hold.
* `RateHonoured` (RuntimeAdmission, with `Window < Interval`): rate events are
  deleted after a second, so that a rate below one per second is enforced as one per
  second (`runtime_state.py:188`; the rate file does the same, `rate_limit.py:72`).
* `FieldRetrySafe` (FieldObservation): the field adapter, too, reads the ledger
  before it removes the proxy: a run whose client gave up while its request was held
  back is closed as retryable, and the request leaves
  (`field_http_observation.py:151`).
* `RunsRevised` (NightScheduler): the driver names revision 1 for the only run of F,
  which is launched after F was revised to 2 (`m53_full_night.py:556`).
* `UrlObservedOnce` (NightlyCampaign): seeds keep the spelling of their scope rule,
  links do not: one URL is observed as two targets (`nightly_campaign.py:350`).
* `NightSummarised` (NightlyCampaign): the errors of YAML and SQLite are not among
  those that a night makes results of: one of them ends it without a summary
  (`nightly_campaign.py:555`).
* `RequestBudget` (NightlyCampaign): a round subtracts successful observations only,
  so that the requests of a program exceed `max_requests` when targets fail
  (`nightly_campaign.py:768`).
* `UnknownNotReplayed` (NightlyCampaign): a detector run of unknown outcome is an
  error like any other, and its target is taken up again in a later round
  (`nightly_campaign.py:254`).
* `OutcomesIngested` (NightScheduler): after a crash between the run and
  `complete`, the journal refuses the second launch and the refusal is what is
  recorded (`m53_night_scheduler.py:143`).
* `CompletedTruthful` (FullNight): follow-ups count as completed whatever they
  ended with (`m53_full_night.py:972`). `PassMeansVerifies`: the verdict on the
  manifest is written into a file that the manifest hashes; when the acceptance
  then raises, a report that says PASS lies beside a manifest that does not
  verify.
* `OrphansReported` (DetectorChaos): the report's count of orphaned workers is a
  constant 0, whatever was left behind (`scripts/run-m53-chaos-acceptance.py:142`).
* `SatisfiedMeansObserved` (FieldObservation): an answer that the proxy made up
  for an unreachable target completes a run (`field_http_observation.py:141`).
* `DriftReviewed` (ProgramCatalog): a policy that drifted and is reviewed again
  under the same issue ids counts as unchanged.
* `TransitionsAllowed` (PlannerQueue): two transitions validated against the same
  row (`planner_state.py:102`).
* `OwnTarget`, `TraceVerifies`, `FailureRecordTruthful` (FieldAssessment): two
  wrappers that pick the newest preparation share one directory, fork its trace,
  and one records the failure of the other
  (`scripts/programs/run-smartfit-bounded-assessment.ps1:33`,
  `execution_trace.py:47`). The script also calls `astp assess`, which the command
  line does not define.
* `OneRunner`, `CrashResumes` (AutonomousRunner): between creating a lock directory
  and writing its owner another process may take it over
  (`autonomous_dev.py:308`), and a crash between the writes of the
  checkpoint and of the state leaves a pair that the next session refuses.
* `ImageRan` (QualificationLab): a runtime may qualify for an image that no run
  executed, because the tag moves before the provenance is written and runs are
  filed under the provenance (`physical_probe_evaluator.py:90`), although a
  runtime is said to qualify only when "an authorized-lab permit-gated execution
  is present" for its current image (`docs/M40_4A_FIELD_TEST.md:51`).
  `OwnRequest`: of two overlapping runs of a runtime, one container executes the
  other's request; if both name the same target, nobody notices
  (`physical_qualification_runner.py:184`).
* `AtMostOneRequest` (WorkerObservation): with two addresses one admitted
  observation may reach its target twice, the second time after the first
  connection failed (`transport.py:142`).

And two limits of what the properties say:

* `Settles` fails with `Crashes = TRUE`: a command that dies in `preflight`,
  `ready` or `pausing` leaves a campaign that no command moves.
* The proxy paces threads from the same stamp: up to `MaxConcurrency` requests
  leave together. `BurstBounded` states what does hold.

## Not modelled

Of the modelled parts: torn lines of a log (an append is one step), hash
collisions (a hash stands for its content), signatures (a signature is equality
of what was signed and the key), per-permit rates that differ for one target,
refused requests and byte counts of the proxy, redirects of a session's worker,
redaction and previews, event rows and checkpoints of the campaign, the pass-1
simulation and the authentication chain of the full night, capability grants and
the approval workflow, rendered reports; of the lab, the negative gate probes of
the readiness evaluation (calls of pure functions with fixed arguments), the
provenance and readiness records about a host's other properties, and a worker's
own exit codes (a worker answers, or fails).

Of the system, as `PROJECT.json` lists it:

* detector registry, policy tables and tools; static heuristics; scope parsing;
  scoring of methods and artifacts: tables and pure functions of data, where a
  model would repeat the code;
* campaign scheduling helpers: weighted round robin, retry backoff and the
  manifest digest, pure and unused by the components modelled here;
* the coordinator, the verification pipeline, worker jobs and capability grants:
  functions and rows that tests put together, beside one pure evaluation
  (`adaptive_verification_e2e.py`) and `plan-verification`, which prints
  proposals. Nothing in the package says who calls the rest, how often or in
  which order, so a model would invent its environment. Where two of them meet, the hazard is the read and write in two
  transactions of `PlannerQueue`;
* browser workers, container policies, the other readiness matrices, labs, the
  companion's extension: I/O around one external process, or facts recorded once
  about an environment.

## What comes next

1. The coordinator, the verification pipeline and worker jobs, once a command of
   the package composes them.
2. Capability grants and approvals in `PolicyAuthority`; the budget a grant gives
   as an instance of `OneShotPermit`.
3. Refinement of the night: `NightlyCampaign`'s observation to the requests of
   `ObservationSession`, `NightScheduler`'s launch to `DetectorExecution`, each
   as an abstract specification that the detailed one implements.
4. Proofs: the refinements of item 3, for which the invariants of both sides are
   there already.
