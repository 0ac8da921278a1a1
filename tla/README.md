# Live AI Terrarium in TLA+

The Live AI Terrarium runs an agent in a sandbox ("glass box") and keeps control
of it on the host: operators may only watch until a mode switch is approved,
everything that is done is recorded in an append-only audit ledger, a cycle of
the agent counts only if it passes the gates, and a run that went wrong is
recovered from snapshots.  This directory models that host side, checks it with
TLC on small instances and proves the invariants that carry it with TLAPS.

Paths below are relative to `src/live_ai_terrarium/` in the repository unless
they begin with `docs/` or `tests/`.

## The system

| Part | State it keeps | Operations | Talks to |
|---|---|---|---|
| Orchestrator service, `orchestrator/service.py` | active mode-switch receipt per run | `register_run`, `execute_command`, `pause`, `rollback`, `restore` (for recovery) | dispatcher, approvals, runtime, ledger |
| Runtime, `orchestrator/runtime.py` | one session per run (lifecycle, mode), in memory | one method per action: read the session, replace it | called by the service |
| Commands and dispatcher, `control/commands.py`, `control/dispatcher.py` | an idempotency cache, for the life of one call | `dispatch`: allow or deny | called by the service |
| Approvals, `control/approval.py` | approval records, in memory | `record_request`, `approve`, `reject`, `record_started/completed/failed` | appends each step to the ledger |
| Audit ledger, `audit/ledger.py` | one hash-chained JSONL file per run | `append`, `read_run_events`, `verify_run_chain` | the file system |
| Read model, `query/service.py` | none: a projection | `build_run_summary`, `build_cycle_detail` | reads ledger events and session |
| Cycle runner and gates, `agent/runner.py`, `evaluation/gates.py` | a context handed from cycle to cycle | `run_cycle`, `evaluate` | pure functions |
| Recovery, `recovery/recovery.py`, `recovery/snapshots.py` | snapshots, branch files, reports and records on disk | `branch_and_continue`, `manual_rollback`, `kill_and_restore`, captures | service, file system, the workspace |
| Log capture, `storage/log_capture.py` | a bundle's metadata and its JSONL log | `append_entries`, `read_entries` | the file system |
| Run evidence, `storage/run_evidence.py` | a manifest per run, a link per cycle | `create_run_manifest`, `link_cycle_to_audit`, `lookup_cycle_proof_evidence` | ledger, log, file system |
| Host file system, `storage/filesystem.py` | files that are never overwritten | `write_json/text/bytes`, `append_jsonl` | the operating system |
| Exports, `storage/exports.py` | exported artifacts and their manifest | `export_bytes` | the file system |
| Storage layout, `storage/paths.py`, `contracts/identifiers.py` | none: paths and ids | the path of each artifact | everything that writes |
| Model gateway, `gateway/service.py` | bindings of run to credential | `register_run`, `generate` | a transport that the host provides |
| Dashboard controller, `adapters/dashboard/controller.py` | none: the loaded page view | load, select a cycle, `_build_command` | the read model, the service |
| Other adapters, `adapters/` | none | routes, CLI, rendering | the service and the read model |

What is hard about it:

- **Concurrency.** The API routes are plain functions, which the framework runs in
  a thread pool, and nothing in the service, the runtime, the approvals or the
  ledger takes a lock.  Decisions, sessions and the tail of the ledger are read in
  one step and used in a later one.
- **Partial failure.** Control state is in memory, its record is on disk, and
  `execute_command` changes them one after the other with up to five appends in
  between.  Any append may raise.
- **Crashes.** Memory is lost and files are not; no write is synced or renamed into
  place; a line and its newline are two writes.
- **Retries on append-only storage.** What a first attempt left behind, torn or
  whole, stays there, and the second attempt meets it.
- **Two sources of one truth.** Surfaces offer actions from the events, the
  dispatcher decides from sessions and receipts; pages name cycles to go back to
  from the records, the session from what was last done to it, and the workspace
  holds what it holds.
- **Callers' clocks.** Events are ordered by times that callers give.
- **Names chosen by others.** Ids and workspace files become paths, and a path that
  is taken is refused for ever.

What makes each part correct, in one line each: control is applied only under an
approved switch of the same run and context; the ledger says what the caller was
told; the ledger is a log that only grows; what is shown agrees with what is
enforced; the baseline follows what was accepted and counters count what they
say; a recovery destroys nothing that is not in a snapshot and reports only what
holds; a link names the entries of its cycle and proof, once given, stays; an
approval is decided once and a command answered once; a receipt of an export
stays true; pages never name a cycle to go back to that was not accepted; a model
is called under one binding of the run; no two artifacts need one path.

## Modules

**`ControlPlane`** models `execute_command` and the lifecycle calls of recovery as
threads that take one access to shared state per step.  `sessions`, `receipts`,
`approvals` and `ledger` are the dictionaries of runtime, service and approvals and
the event files; `pc`, `cmd`, `ctx` and `held` are a call's program counter, its
command, its `DispatchContext` and the session it has read.  The actions follow the
code in order: `Submit` (session read), `Dispatch` (receipt read and decision),
`RecordRefused`/`RecordDenied`, `RecordRequest`, `RequestApproval`, `Approve`,
`RecordStarted`, `ReadSession`, `WriteSession`, `RememberReceipt`,
`RecordCompleted`, `RecordFailed`; `CallRuntime` is the way recovery takes, past
dispatch and ledger; `Crash` empties memory.  `Threads` is the number of calls
served at once.

**`Dispatcher`** is `CommandDispatcher` with its idempotency cache over many calls:
`Lookup`, `Handle` and `Remember` are the three steps of a call that other calls can
come between.  `Kept` says whether one dispatcher serves all calls, as tests and
embedders of the class have it, or each call has its own, as `service.py:157` has it.
`SemanticFingerprint` is what a cached result is compared by: it leaves the mode
context and the metadata of the command out.

**`Approvals`** has every operation of `ApprovalService`, one access to the records
or one append per step, `reject` and a second decision included, which
`ControlPlane` has no use for.  **`DecideOnce`** is what an approval promises;
`IsDecideOnce` says that the service implements it.

**`ReadModel`** extends `ControlPlane` with what `QueryService` shows: `Shown` (the
receipt), `AvailableActions`, `ApprovalStatus`, `ObservationModeState`, all as
functions of the ledger and the sessions.  `OccurredAt` and `ApprovedAt` are the
times that callers give; `EventTime` is which of them an event carries, and
`NotAfter` the order that pages sort events by.

**`RunView`** has the rest of the read model that decisions rest on, and the
dashboard over it: cycles and incidents on record, the session's rollback target and
restore snapshot, whose files the workspace holds, and a page view that is loaded by
two reads (`LoadRunSummary`, `LoadCycleDetail`).  Recoveries are taken in the steps
that the session or a page can tell apart, and operators roll back to what was shown.
`settled` remembers after how many cycles a reported rollback was settled.

**`AuditLedger`** opens the append up: `ReadLast` is the read of the file for its
last hash, `Write`, `WriteFails` and `Crash` what the write leaves (nothing, part of
a line, a line without its newline, all), and `Landed` how a line lands behind one
that has no newline.  **`AppendOnlyLog`** is what readers are promised;
`IsAppendOnlyLog` says that the file implements it, the log being what a verified
read returns.

**`Exports`** is `export_bytes` one system call at a time: directory, file, payload,
line of the manifest.  **`Gateway`** is `generate` with bindings that are replaced
while it runs and a transport that raises or answers anything.  **`StorageLayout`**
builds the path of each of the artifacts that the host writes from ids and names, as
sequences of segments, and lets `write` refuse what is taken (`Meet`).

**`CycleRunner`** is `run_cycle` with the six stop conditions and two gates as
operators on a cycle's report, and `_build_next_context` as one operator for each of
its fields.  `history` keeps the results, for the properties; `lost` counts the
cycles that were judged and whose result the pareto callback lost by raising
(`CallbackRaises`), which leaves the caller with the old context.  Scores are integers
or `NaN`, which is below nothing and nothing below it.

**`Recovery`** runs one capture or recovery at a time, file by file: pause, cycle
snapshot, full snapshot, then branch, or lifecycle, plan, unlink, write back and
tidy; then report and record.  Around it the agent writes and deletes, the operator
resumes, the process crashes, and the operator asks again.

**`LogCapture`** and **`RunEvidence`** model the log bundle, the manifest and the
links.  `RunEvidence` extends `AuditLedger`, the ledger of the run, and instantiates
`LogCapture` with one batch of entries for each event, so that a cycle's entries, its
event and its link are written by three stores that fail and stop on their own
(`HostCrash` stops them together).  With `Serial = FALSE` two brokers log at once.

The `MC*` modules give the constants of the runs; the `*_proofs` modules hold the
theorems.  `RunEvidence`, `RunView` and `StorageLayout` are proved about beside another
module, so their specifications carry a name of their own: `EvidenceInit`, `ViewNext`,
`LayoutSpec`, `ViewTypeOK` and so on.

### What is abstracted

- SHA-256 is injective: a line's hash is represented by its event, a file's by its
  content.
- Descriptive fields (actors, reasons, labels, times other than those that events are
  sorted by, the rest of a session) are left out.
- In `ControlPlane` an append to the ledger is one step that succeeds or raises without
  a trace; `AuditLedger` has the torn lines and the two halves of the append.  The two
  writes of a clone, and the test and insertion of `register_run`, are one step.
- The idempotency cache is absent from `ControlPlane` because `execute_command` builds
  its dispatcher for one call; `Dispatcher` has it, with the decision reduced to a flag
  that says whether a run is unlocked.
- An id is the sequence of its words, a workspace name the sequence of its segments.
  Values that the id patterns and the boundary policy reject are not there.
- `RunView` numbers the cycles, counts a stopped cycle as rejected and has a recovery of
  the latest cycle only; `Recovery` has the files of a recovery.
- Recovery operations do not overlap.  Directories are one level deep (`Nested` in
  `MCRecovery`: path 1 may be a file or the directory of path 2).
- The agent is outside: it writes only while its run's lifecycle is active, not while a
  capture is on, and, with `AgentWaits`, not before a recovery is over.
- `create_run_manifest` and `link_cycle_to_audit` are one step each; what they look at
  before they write never changes once it is there.
- A crash stops the host process.  Loss of data that was written is not modelled.

## Runs

All bounds are constants of the `.cfg` files.

| Run | Bounds | What it shows |
|---|---|---|
| `control_serial` | 2 runs, 2 contexts, 3 calls of 9 commands, 1 thread, failures, crashes | reply, ledger, session, receipt and view agree |
| `control_races` | 2 calls of 6 commands, 2 threads, crashes, weak fairness | what holds even when calls interleave; what was started is closed on record |
| `dispatch` | 3 calls, 2 at once, 2 runs, 1 key or none, a handler that may raise | a reply was earned by the same command; after an answer, nothing executes |
| `approvals` | 2 approvals of one command, another gated one and a free one, 6 events, failures, crashes | one story on record; refinement of `DecideOnce` |
| `ledger_faults` | 5 appends one at a time, failures, crashes | a readable file is a chain with everything that returned; refinement of the log |
| `view_pages` | 4 cycles, recoveries, commands, failures, crashes | pages name accepted cycles; an incident row opens on its incident; a reported recovery is where the session says |
| `cycles` | 4 cycles of 14 kinds, one lost result | the context agrees with the history |
| `recovery` | 2 paths, 2 contents, a capture and each recovery of one incident, failures, crashes, retries | snapshots, reports and evidence hold |
| `evidence` | 2 cycles of 2 entries, 5 lines, failures, crashes, retries | links are exact and provable, proof stays |
| `exports` | 2 callers in turn, 3 ids, 2 names, 2 payloads, 3 lines, failures, crashes | receipts stay true, the manifest lists whole artifacts |
| `gateway` | 1 call, 2 runs, 2 models, 2 credentials | a model is called under one binding, not older than the call |
| `layout` | 3 runs, 8 ids, 3 workspace names, every pair of artifacts | no two artifacts need one path |

Why these bounds are enough:

- *Control.* The longest scenarios in view are three commands: a switch, a second
  switch or a reset, and a command that relies on the first; two runs give a clone its
  destination and an unlock that must not leak; two contexts give an unlock that must
  not cover a command.  Two threads suffice for a decision to be overtaken.  The
  commands of `control_serial` reach every end of a call: denied, approved and completed,
  raised by the runtime (`branch`), raised by a disk, unknown run, lost.
- *Dispatcher.* One key is enough, since entries of different keys never meet; three calls
  hold an answer, or a failure after the effect, a relock and a retry that meets another.
- *Approvals.* Two approvals of one command, because the second may be decided otherwise;
  six events are a request and a decision of each and two lifecycle events; one event of
  the free command (`MaxFree`) is enough, as it needs no approval.
- *Ledger.* Five lines let a torn or glued line lie at the start, inside or at the end,
  with appends before and after it.
- *View.* Four cycles: an accepted one to go back to, a failure, and two more after the
  recovery, accepted or not.
- *Cycles.* Three crashes in a row and one before or after them need four cycles; the
  reports sit on both sides of each threshold (90 and 91 percent, 59 and 60 seconds, two
  and three samples in a row, with an interruption).
- *Recovery.* The accepted cycle gives a rollback and a restore something to go back to;
  the three recoveries of one incident write the same snapshots, report and record, so each
  meets what the others left; two contents tell a restored file from one that was left;
  retries are not bounded.
- *Evidence.* Five lines hold a batch that broke off and two whole ones, so that numbers,
  windows and links meet what an earlier attempt left.
- *Exports.* Three ids make directories of which some may be taken, and two names under
  one id are the files that an id could be listed with twice.
- *Gateway.* Calls share the bindings only, and these are replaced at any time.
- *Layout.* Paths meet in pairs, so `MaxFiles = 1` with every artifact met in turn is
  every pair; the ids are the host's own names, prefixes of each other and words that it
  adds to ids.

`CHECK_DEADLOCK FALSE` is set where a bounded supply of calls, events, cycles or entries
is used up in the end; the recovery and layout runs, without it, check for
deadlock.

**Fairness.** Only `control_races` uses it: weak fairness of each call's own steps.
A call is straight-line code in one thread, so it does not stop for ever between two of
its steps; nothing is assumed of callers, disks or of the process staying up.

### Known divergences

Met while modelling: what a document of the repository says, or what one would like to
say, and the code does not do.  Each shows under the constants that are named, or when
the property is written out; the runs above check what does hold beside it.

Control:

- `docs/v1-architecture-brief.md:84`: control actions "are denied until an active
  `ModeSwitchReceipt` exists for the same run scope and the same `mode_context`".  Mode
  and receipt are read at `service.py:157` and the operation is applied at
  `service.py:293`, appends later and without a lock.  With `Threads = 2` a reset or a
  switch of another request comes in between and `ControlAppliesOnlyWhileUnlocked` fails.
- A pause that read the session before a reset writes the unlocked mode back after it
  (`runtime.py:123`), so `ModeBackedByReceipt` holds for `Threads = 1` only.
- A recovery call, or a mode switch to observation-only, leaves a receipt with a run
  in observation-only mode (`service.py:208`, `service.py:366`);
  `docs/design/v1-control-states.md:88` has "no active mode-switch receipt" there.  The
  dispatcher denies control all the same, because it looks at the mode as well.
- `docs/design/v1-control-states.md:47` wants controls enabled "from backend truth".
  Nothing in the events ends a receipt (`query/service.py:225`): after a reset the old one
  is shown as active, with actions that the dispatcher then denies.
- `query/service.py:259` tests for a receipt before it looks at a recovery: since a
  recovery command is started only under a receipt, "Recovery executing"
  (`docs/design/v1-control-states.md:94`) is not shown while one executes.
- `docs/v1-architecture-brief.md:24`: "Audit chain is the authoritative source for command
  receipts."  The pages sort events by the callers' times (`query/service.py:216`): of two
  switches whose clocks differ they may show the first while the service holds the
  second.  `ShownIsHeld` is checked with one clock, `UnlockedIsOffered` needs none.

Dispatcher and approvals:

- `docs/v1-architecture-brief.md:26` gives the dispatcher "idempotency handling", which
  `tests/control/test_dispatcher.py:137` tests.  `execute_command` builds a dispatcher per
  call (`service.py:157`), so a retry with the same key executes again: with
  `Kept = FALSE`, `AnsweredIsReplayed` fails.
- "idempotency_key cannot be reused for a different semantic command"
  (`control/dispatcher.py:120`), but the fingerprint leaves out `surface_metadata`
  (`control/commands.py:155`), where a rollback has its target and a clone its run: one
  rollback is answered with the receipt of another.
- A handler that raises after its effect leaves no entry in the cache, so a retry under
  its key executes again, and two calls under one key at once both execute
  (`control/dispatcher.py:94`): `AnsweredIsReplayed` speaks of keys that were answered
  before a call began.
- A denial is cached like a result: under its key it is replayed after the run was
  unlocked, by a dispatcher that is kept.
- `docs/operators/v1-runbook.md:103` has `command.approved` on record "before command
  execution begins".  `approve` stores the record before it appends the event
  (`control/approval.py:159`): if the append raises, the approval holds, a retry is refused
  as resolved, and the command starts without it on record.
- Two operators who decide one approval at once are both recorded
  (`control/approval.py:183`): with `Serial = FALSE`, `LedgerTellsOneStory` fails.

Ledger and log:

- `docs/specs/v1-data-contract.md:128`: the chain "remains contiguous for the full run
  lifetime".  Two appends at once read one last hash (`audit/ledger.py:125`) and the chain
  forks; `verify_run_chain` raises from then on.
- An append after a crash that left a line without its newline returns, and its line is
  glued to the other; every later read raises.  So `ReturnedIsOnRecord` speaks of files
  that can be read, and `IsAppendOnlyLog` has `Break`.
- `docs/reviews/runtime-boundary-audit.md:50` has append-only sequence numbering as
  implemented.  Two brokers that log at once read the same last number
  (`storage/log_capture.py:123`), and two cycles are linked to one window: `WindowIsOwn`
  is for one call at a time.

Cycles:

- `docs/specs/v1-ops-contract.md:43`: "3 consecutive crash-terminated cycles".  If the
  pareto callback raises for a cycle that was accepted (`agent/runner.py:149`), the context
  that ends a row of crashes is lost, and crashes on both sides of it count as in a row.
- `docs/specs/v1-ops-contract.md:34` stops a "score drop against the active run baseline".
  A score that is not a number is below nothing (`evaluation/gates.py:156`): it is accepted,
  becomes the baseline, and after it any score is accepted.

Recovery and pages:

- `docs/specs/v1-ops-contract.md:52`: "A file-level snapshot is taken every cycle."  A
  recovery captures that snapshot itself (`recovery.py:223`) and files are not written
  over: the recovery of a cycle that has its snapshot raises, after the pause.
- With `AgentWaits = FALSE`, an agent that starts as soon as the lifecycle is active
  (`recovery.py:131`, before the workspace is restored) writes files that the rollback
  destroys without evidence: `EvidenceFirst` fails.
- A directory in the place of a file of the snapshot makes a restore raise half-way
  (`snapshots.py:169`), on a disk that works, after files were deleted and with the run
  active; what holds then is that nothing is reported (`RestoredIsTarget`).
- `docs/design/v1-control-states.md:67` has a rollback flow through recovery.
  `execute_command` ends at the lifecycle (`service.py:345`): the session names a cycle
  whose files the workspace does not hold.
- After `kill_and_restore` the session's restore snapshot is the one of the failing state
  (`recovery.py:184`), not the one that was restored
  (`docs/runtime/sandbox-runtime-contract.md:115`).
- `docs/operators/v1-runbook.md:220`: the rollback target "is always the last accepted
  stable cycle".  The session's target, or the first report that has one
  (`query/service.py:308`), wins over it and stays after later cycles were accepted.
- `docs/design/v1-streamlit-surfaces.md:163` has every page read the same outputs.  The
  detail of a cycle takes the last stable cycle from that cycle alone
  (`query/service.py:138`), the summary from all: two pages may disagree.

Exports and names:

- `docs/runtime/sandbox-runtime-contract.md:87`: "Every export appends a line to the run
  manifest".  The copy is written first (`storage/exports.py:66`): if anything raises in
  between it stays without a line, and the directory denies the retry.
- Two exports under one id at once both find no directory (`storage/exports.py:57`):
  with `Serial = FALSE`, `ReceiptsHold` and `ListedIsWhole` fail.
- `docs/specs/v1-data-contract.md:60`: ids are unique within their parent, and uuids
  "plus parent references" globally.  Incidents `x` and `incident-x` of one run share a
  full snapshot (`recovery.py:327`), which the second cannot write (`TakenIsOwn` leaves this
  pair out); and incidents of one name, of runs of one name in two experiments, have the
  same uuids (`recovery.py:302`).

## Theorems

TLC's answers are for the instances above; the theorems hold for any number of
runs, calls, threads, events, cycles, files and ids, with and without failures and
crashes.  Every safety property of the runs is stated by one; what is left to TLC is
at the end of this section.

They rest on the named assumptions of the modules, which say what kind of thing each
constant is, and which TLC evaluates in every run: `ControlAssumption`,
`ClockAssumption`, `DispatcherAssumption`, `ApprovalAssumption`, `LedgerAssumption`,
`RunnerAssumption`, `ExportAssumption`, `GatewayAssumption`, `RecoveryAssumption` and
`TornAssumption` (paths one directory deep; a torn file is no content, path or request),
`EvidenceAssumption` (which has `LogConstants`), `RunViewAssumption` and
`LayoutAssumption`.  Only the last says more than that: `NamesApart`, that the files of
one workspace do not lie under one another, which is what a file system is; and
`SnapshotsApart`, that no two incidents share a full snapshot, which the code does not
see to (see *Exports and names* above).

The hypotheses of theorems fix a constant as the runs that check the same properties do:
`Threads = 1`, a host that serves one call at a time (with two, the properties fail, see
*Control* above); `AgentWaits = TRUE`, a sandbox that starts no agent before a recovery
is over (without it `EvidenceFirst` fails); `Serial`, one logger, approval or export at a
time, which is a part of the properties or a hypothesis.

| Theorem | In | States |
|---|---|---|
| `TypeCorrect` | `ControlPlane_proofs` | `[]TypeOK` |
| `ControlIsApproved` | `ControlPlane_proofs` | `[]StartedUnderApproval` |
| `ReceiptsAreApproved` | `ControlPlane_proofs` | `[]ReceiptIsApproved` |
| `ModeHasItsReceipt` | `ControlPlane_proofs` | `[]ModeBackedByReceipt`, if `Threads = 1` |
| `ControlIsAppliedUnlocked` | `ControlPlane_proofs` | `ControlAppliesOnlyWhileUnlocked`, if `Threads = 1` |
| `RepliesMatchLedger` | `ControlPlane_proofs` | `[]ReplyMatchesLedger`, for any number of threads |
| `ControlIsNeverHidden` | `ControlPlane_proofs` | `[]UnlockedIsOffered`, whatever the clocks say |
| `ShownReceiptIsHeld` | `ControlPlane_proofs` | `[](ClocksFollowLedger => ShownIsHeld)`, if `Threads = 1` |
| `LedgersAreLogs` | `ControlPlane_proofs` | every run's ledger implements `AppendOnlyLog`, for any number of threads |
| `ControlPlaneDecidesOnce` | `ControlPlane_proofs` | the approvals implement `DecideOnce`, for any number of threads |
| `LedgerTypeCorrect` | `AuditLedger_proofs` | `[]TypeOK` |
| `SerialLedgerIsChained` | `AuditLedger_proofs` | `[]ReadableIsChained`, one append at a time |
| `ReturnedStaysOnRecord` | `AuditLedger_proofs` | `[]ReturnedIsOnRecord`, appends interleaved or not |
| `LedgerIsAppendOnlyLog` | `AuditLedger_proofs` | `IsAppendOnlyLog`, the refinement |
| `EvidenceKeepsALedger` | `AuditLedger_proofs` | `RunEvidence` implements `AuditLedger` |
| `EvidenceTypeCorrect` | `AuditLedger_proofs` | `[]EvidenceTypeOK` |
| `WindowsAreTheirOwn` | `AuditLedger_proofs` | `[]WindowIsOwn` |
| `LinkedCanBeProven` | `AuditLedger_proofs` | `[]LinkedIsProvable` |
| `ProofsStay` | `AuditLedger_proofs` | `ProvenStays` |
| `TypeCorrect` | `CycleRunner_proofs` | `[]TypeOK` |
| `RepeatedCrashesAreInARow` | `CycleRunner_proofs` | `[]ThirdCrashStops` |
| `BaselineFollowsAcceptance` | `CycleRunner_proofs` | `[]BaselineIsLastAccepted` |
| `NoRegressionIsAccepted` | `CycleRunner_proofs` | `[]AcceptedScoresNeverDrop`: drops follow a score that is no number |
| `MilestoneIsReached` | `CycleRunner_proofs` | `[]MilestoneCountsAccepted` |
| `StopsStayOnRecord` | `CycleRunner_proofs` | `[]StopsArePersisted` |
| `AcceptanceIsClean` | `CycleRunner_proofs` | `[]AcceptedIsClean` |
| `PagesTypeCorrect` | `CycleRunner_proofs` | `[]ViewTypeOK` |
| `TargetsWereAccepted` | `CycleRunner_proofs` | `[]StableWasAccepted` |
| `IncidentsAreDetailed` | `CycleRunner_proofs` | `[]IncidentIsDetailed` |
| `RollbacksAreRestored` | `CycleRunner_proofs` | `[]RolledBackIsRestored` |
| `TypeCorrect` | `Recovery_proofs` | `[]TypeOK` |
| `SnapshotsHold` | `Recovery_proofs` | `[]SnapshotsAreWhole` |
| `RecordsLeadToEvidence` | `Recovery_proofs` | `[]ReportedEvidenceHolds` |
| `RestoreReachesTarget` | `Recovery_proofs` | `[]RestoredIsTarget`, if the agent waits |
| `EvidenceComesFirst` | `Recovery_proofs` | `EvidenceFirst`, if the agent waits |
| `LayoutTypeCorrect` | `Recovery_proofs` | `[]LayoutTypeOK` |
| `PathsAreTheirOwn` | `Recovery_proofs` | `[]TakenIsOwn` |
| `TypeCorrect` | `Dispatcher_proofs` | `[]TypeOK` |
| `RepliesAreEarned` | `Dispatcher_proofs` | `[]ReplyIsEarned` |
| `KeysAreAnsweredOnce` | `Dispatcher_proofs` | `[]AnsweredIsReplayed`, if the dispatcher is kept |
| `OneStory` | `Approvals_proofs` | `[](TypeOK /\ LedgerTellsOneStory)`, one operation at a time |
| `ServiceDecidesOnce` | `Approvals_proofs` | `IsDecideOnce`, the refinement, one operation at a time |
| `TypeCorrect` | `Exports_proofs` | `[]TypeOK`, one export at a time |
| `ReceiptsStayTrue` | `Exports_proofs` | `[]ReceiptsHold`, one export at a time |
| `ManifestIsWhole` | `Exports_proofs` | `[]ListedIsWhole`, one export at a time |
| `TypeCorrect` | `Gateway_proofs` | `[]TypeOK` |
| `ModelsAreCalledAsBound` | `Gateway_proofs` | `[]InvokedAsBound` |

The arguments:

- *Control plane.* `StartedUnderApproval` is not inductive: a call is cleared by
  `Dispatch` long before its `RecordStarted`.  `SafetyInv` adds that a held receipt, and
  a receipt captured in a call's context, was issued to a mode switch whose approval is
  in its run's ledger; that a call past the dispatcher was cleared by such a receipt;
  that approvals stay where they are in a ledger that only grows; and that a call has no
  event before it is submitted, so that its approval is its own.  The mode a call
  captured cannot be `Obs` if it was cleared, which is what ties the receipt's target to
  it, although session and receipt are read in two steps.
- *Control plane, one call at a time.* `SerialInv` adds to `SafetyInv` that one call is
  on its way at most, that what it has read of its session is still so, and that what the
  dispatcher decided still holds up to the write (`DecisionHolds`).  Between a session's
  write and its receipt the switch itself is on its way, which is the exception in
  `ModeIsBacked`.
- *Replies.* `TrailInv` has for each place of the code the trail that a call has left
  there (`Fits`).  A trail is a fold over the ledger, written as a recursive function:
  that the function exists, and that one event more extends it, is shown of the least
  index at which it would not, which is an argument on natural numbers and no induction
  over data.  Only its own steps add to a call's trail, so threads do not matter.
- *The service and the abstract specifications.* `OnceInv` says of each event on record
  that its call is past every place from which it could be recorded again
  (`RecordedIsPast`), so an event that a step appends is new to its ledger, whatever other
  calls did meanwhile; and that a refused command is none that needs an approval.  For
  `DecideOnce`, a call that ended, or was lost, without its approval counts as forgotten.
- *Ledger.* `ChainInv`: one append at a time, the hash an append has read is still
  that of the last line when it writes.  A break-off behind a line without newline only
  ever makes the file unreadable.  For the refinement, `RefInv` adds that the lines on
  file are of appends that are over, so an event never joins twice, and that a file no
  fault can reach is whole.  That a chain which does not verify never verifies again
  (`DamageStays`), and that what returned is on record, need no serial host: a line that
  lands neither mends nor moves what lies before it.
- *Run evidence.* Every step of `RunEvidence` is a step of its ledger or leaves the ledger
  alone, so the ledger's theorems hold of it.  `WindowInv` says that the lines of a log
  that can be read are numbered by their places, and that a batch on its way has the
  number that follows: a line that broke off makes the log unreadable for ever, rather
  than shifting numbers.  `EvidenceInv` adds that a link that can be read is the receipt
  of a batch and an event that both returned, under a manifest; neither is written over.
- *Dispatcher.* `EarnedInv` says that every entry of the cache, and every result that is
  on its way to a reply, was earned by a call with the same fingerprint; a replay hands
  it on.  `FirstInv` adds that an answered key is in the cache and stays there, so a call
  that began after the answer and is past its lookup found it.  Nothing is assumed of the
  number of calls at once.
- *Approvals.* `ApprovalInv` ties an operation that is under way to the status it has
  read (`OperationsFit`) and the ledger to the statuses (`LedgerFits`): an approval whose
  decision is not on record, and that the service has not forgotten, is undecided in the
  ledger.  One operation at a time, what was read still holds when it is recorded.  For
  the refinement a forgotten approval stays forgotten: its id is drawn once.
- *Exports.* `ExportInv` says what of an export's artifact is on the host at each of its
  steps (`CallsFit`) and that files lie in directories that exist: a directory that is
  there is refused, so no later export, retry or caller writes below it, and neither a
  receipt nor a line is ever undone.
- *Cycle runner.* `RunnerInv` says that the crash count is exactly the length of the
  crashes at the end of the history (up to the first cycle that did not crash), and that
  the baseline is the last accepted score, which bounds those accepted before it, back to
  the last that is not a number.  For the rest, the stable count is the cardinality of
  `Accepted`, and the list of stops is that of the history before, with those of the last
  cycle behind it, which are later and differ from all.  That the streak a fold over
  samples counts is there whenever three in a row are above the threshold is shown of the
  least sample at which the count would be wrong.
- *Pages.* `PagesInv` follows a target from where it is accepted through reports, session,
  pages and commands back to the session (`TargetsStood`); a report is never taken back,
  so what the first read saw the second finds (`SummaryIsOnRecord`).  A recovery past its
  move of the session has settled nothing yet, and one that reports has its target in the
  workspace (`RecoveryHolds`): no command comes in between that would not settle it anew.
- *Recovery.* `IInv`: a capture has copied what is no longer to do (`CopiedSoFar`), while
  the agent is held; past the captures both are whole (`EvidenceTaken`); files are never
  written over, so a snapshot whose manifest is there stays as it is, and a retry that
  meets one raises.  `WInv` needs an agent that waits: what is still to be deleted or
  written is what the full snapshot has (`Evident`), and the workspace differs from the
  target in what is still to do and nothing else (`AsPlanned`), directories included
  (`ParentsAreDirs`).
- *Storage layout.* Two paths meet exactly if they agree as far as both go (`Agree`), so it
  is enough that two artifacts differ in one segment that both have.  Trees, runs and the
  fixed segments of `Place` are compared one by one; an id never looks like a file
  (`SegmentsDiffer`), which keeps `manifest.jsonl` from an export that is called
  `manifest`; the rest are ids and names, which `NamesApart` and `SnapshotsApart` keep
  apart.
- *Gateway.* `GatewayInv` adds that a call which has passed its check holds a binding
  that its run has had since the call began and that allows its model; what is read once
  and carried along cannot be changed by a later `register_run`.
- *Read model.* An unlocked run holds a receipt (`ReceiptIsApproved`), whose approval is
  among the events, so a receipt is among those the view may choose; and among finitely
  many events one comes last in the order of times that `NotAfter` is, whatever the times.
  `HeldInv` says that what follows the approval of the receipt that is held are approvals
  of switches that failed, or of the one on its way.  `ClocksFollowLedger`, that times do
  not contradict the order on file, is a property of the callers: `OneClockFollows` shows
  that it holds of any reachable state if they have one clock, as in the run.

Model-checked only: `StartedIsClosed`, which is liveness under fairness and beyond the
prover; deadlock freedom of the recovery and layout runs; and `ShownIsHeld` beyond one
thread, where it does not hold.  The hazards that PROJECT.json lists without a property
have no theorem either.

Type correctness is proved for every component; where a run has a type
invariant among its properties a theorem states the same formula.

## Plan

Built, in this order, because control and its record carry the rest: `ControlPlane`;
`AuditLedger` with `AppendOnlyLog`; `CycleRunner`; `Recovery`; `ReadModel` over
`ControlPlane`; `LogCapture` and `RunEvidence` over `AuditLedger`; then `Dispatcher`,
`Approvals` with `DecideOnce`, `Exports`, `RunView`, `Gateway`, `StorageLayout`, the
brokers that overlap, and the faults of clocks, scores and callbacks in `ReadModel` and
`CycleRunner`.

Then the theorems, by component, from the control plane and the ledger to recovery,
evidence, pages and layout.  A component without a proof module of its own is proved
about beside the one it extends or resembles: `ReadModel` in `ControlPlane_proofs`,
`RunEvidence` in `AuditLedger_proofs`, `RunView` in `CycleRunner_proofs`,
`StorageLayout` in `Recovery_proofs`.

Next:

1. What holds with two threads in place of the serial theorems: which session a call that
   was overtaken may leave.
2. That the snapshots of `Recovery` lie at the places `StorageLayout` gives them.

## Not modelled

- `adapters/api/`: routes that check a request, build a command and call the service;
  that they run in a thread pool is `Threads` of `ControlPlane`.
- `adapters/cli/`, the Streamlit and preview apps and the dashboard's views: argument
  parsing and rendering, and a preview over fixed data.  None keeps state or decides.
- `orchestrator/boundary.py`, and the validation of fields in `contracts/records.py` and
  `contracts/identifiers.py`: checks without state, which refuse a value or let it through.
  What they refuse never reaches a component that is modelled; ids that they let through
  are in `StorageLayout`.
- The lifecycle methods of the service that nothing in `src/` calls (tests do): they are
  the runtime's methods, which `ControlPlane` has.
- The fields of the read model that are copied from records as they are.
