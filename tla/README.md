# Verification of the Z-Century control plane and runtime queues

TLA+ models of the parts of this repository whose correctness depends on the
order of steps: the Java shadow queue and its generation fencer, the durable
authority generation they are bound to, and the product lifecycle; the Python
station queue with the runtime generation that a reset rotates, the execution
ledger through which the Agents call their providers, and the pipeline item that
Agent2, Agent3, mapping and admission pass on. TLC checks small instances; TLAPS
proves the safety of each part, and that the queue implements what it promises,
for every instance.

Java paths below are relative to
`src/java-control-plane/src/main/java/com/zcentury/v24/`, Python paths to
`src/src/services/`.

## The system

| Component | State | Operations | Interacts with |
|---|---|---|---|
| Stage queue, `QueueAuthority.java` | items, jobs, idempotency index, one priority queue per stage, artifacts, outbox (in memory, per-job monitors) | registerItem, enqueue, claim, completeAndHandoff, recoverExpired | reads the fencer up to three times per operation |
| Generation fencer, `GenerationFencer.java` | sequence, token and hash of the generation, or a reference to the durable root | rotate, current, fence, matches | queue; durable root |
| Durable generation, `AuthorityGenerationStore.java`, `AuthorityGenerationMain.java` | one state file, replaced atomically under a file lock | status, prepareCutover, rollbackToReady | operator processes and the server |
| Root-bound reads, `UnifiedAuthorityGenerationRoot.java`, `RootBoundAuthorityAdapter.java` | none | current; execute with a check before and after | durable generation; domain authorities |
| Review endpoint and server, `V269SystemReviewEndpoint.java`, `ProductionAuthorityMain.java` | two handler threads | handle | root-bound reads |
| Python station queue, `station_queue_service.py` | tables pipeline_jobs, station_queue | enqueue, claim, run, stream, complete, fail | worker loop, manual ticks, imports, reset |
| Runtime generation, `runtime_generation_barrier_v1_service.py`, `system_service.py` | runtime_meta (sequence, state, active data version); one process-wide lock | execution guard, reset barrier, mark active, clear_runtime_data | worker ticks; status reads; deletes the queue tables |
| Product lifecycle, `ProductLifecycleAuthority.java` | one lifecycle record per product in a file, file lock and in-process locks | monitor, beginObservation, markReviewReady, beginReview, settle, adjustmentRequired, commitReview, replayReviewDispatch, beginNextObservation | stage queue |
| Agent execution ledger, `hash_directed_artifact_runtime_v2259_service.py` | table artifact_execution_index_v2259 | resolve, claim, complete, fail, revoke | the runs of the Agents |
| Agent runs, `agent_token_runtime_hash_exact_v2259_service.py`, `agent_token_runtime_v22520_service.py`, `agent3_runtime_v23215_service.py`, `agent2_hash_proof_bridge_v22515_service.py` | the locals of a run | prepare, provider batches, retry of missing items, review | ledger, model providers |
| Frontend publication, `FrontendViewAuthority.java`, `FrontendSseAuthority.java` | head (version, generation, manifest), last manifest per subscriber | publish, event | fencer |
| Deployment, compatibility, legacy removal, mirror parity | slot state; the rest judge evidence | activate, rollback | fencer |
| Task states, gates, kernel, adapter registry | none (pure) | validate | - |
| Local subgraph revision, review contract | none (pure) | revise, validate | review endpoint |
| Admission gate, volatility, flow simulation, mapping, knowledge and retrieval | none or read-only | compute | - |
| Pipeline items, `pipeline_item_service.py`, `agent2_runtime_v22515_service.py`, `agent2_runtime_resilience_v2143_service.py`, `pipeline_agent3_sop_v225_service.py`, `pipeline_task_mapping_v225_service.py`, `task_pool_admission_core_v20_service.py` and what they call | pipeline_items, tasks, task_pool_entries | one microbatch per stage and tick, recoveries, promotion, migration | worker tick, Agent runs |
| Startup repair, SQLite repository, API routes, web demo, scripts | - | - | - |

What is hard in it: workers whose lease ran out and who answer anyway; a fence
compared with one read of the generation and issued with another; exceptions
out of a fencer that reads a file, between two writes; operators who race for
the generation file, with kills and power failures between rename and force;
file locks that exclude processes but throw between threads of one process;
ticks, resets, imports and status reads of which only the first two share a
lock; a directory force whose failure is swallowed;
transactions that begin after the read they depend on; Agent calls that outlive
the lease of their claim, and batches that fail after half of their outputs are
stored; row updates that name the item and not the claim; a file that was moved
in place and not yet forced.

What makes each part correct: a claim has one winner and only the newest
attempt commits; what waits can be claimed; a completed stage hands over; an
outcome is final; every job settles. A generation is replaced only by who was
shown it, and survives once acknowledged and forced; a result is returned only if it was
computed under the generation it was asked for. A station has work only behind
a completed one; job and row tell one story; no reset moves the generation under a tick. What
an Agent run returns was accepted; no claim is forgotten; an accepted output
stands. An item is called by one Agent handler at a time, enters the task pool
at most once per handler, and comes to rest. What a lifecycle call returned
survives, and a queued adjustment is one the product waits for.

## Modules

| Module | What it is |
|---|---|
| `StageWork` | what the stage queue promises, without threads, leases or fences |
| `QueueAuthority` | the stage queue with its fencer; refines `StageWork` |
| `QueueAuthorityProofs` | the theorems about its claims and outcomes |
| `QueueWorkProofs` | the theorems about its work: handoff, versions, the refinement of `StageWork` |
| `MCQueueAuthority` | constants and symmetry for TLC |
| `AuthorityGeneration` | the generation file, its lock, operators, handlers, kills, power failure |
| `MCAuthorityGeneration` | symmetry for TLC |
| `AuthorityGenerationProofs` | the theorems about it |
| `StationQueue` | the Python station queue, the execution barrier, reset and import |
| `StationQueueProofs` | the theorems about it |
| `AgentExecution` | the execution ledger and the runs of Agent1, Agent2 and Agent3 |
| `AgentExecutionProofs` | the theorems about it |
| `AgentItems` | one pipeline item, the handlers that pass it on, and the recoveries |
| `AgentItemsProofs` | the theorems about it |
| `ProductLifecycle` | the lifecycle row of a product, its file and the review dispatch |
| `ProductLifecycleProofs` | the theorems about it |

`AgentExecution`, `AgentItems` and `ProductLifecycle` compose with the others by what they assume of them. A tick of
`AgentItems` is one iteration that holds the barrier of `StationQueue`, so a
handler is a process; its Agents answer from the ledger of `AgentExecution`, so
a second pass over an item yields the first decision; the queue of
`ProductLifecycle` is `QueueAuthority`'s idempotent enqueue.

### QueueAuthority

A job is named by its idempotency key (item, stage, input hash), from which the
code computes both its id and its index entry. A generation is a number:
sequence, token and hash move together. `jobs`, `queue`, `items`, `artifacts`
and `outbox` are the maps of the class; `worker` is the program counter and the
locals of each caller; `sweep` the iteration of `recoverExpired`. The methods
are cut where another thread can be seen:

| Code | Actions |
|---|---|
| `claim` | `Poll` (queue.poll), `ClaimGrant` or `ClaimSkip` (monitor, first read of the fencer), `ReturnClaim` (second read, monitor released) |
| `completeAndHandoff` | `Submit` (fence test before the monitor), `CommitCheck` (tests under it), `CommitAdvance` (artifact, COMPLETED, item), `Handoff` (next job, outbox) |
| `recoverExpired` | `BeginSweep` (generation read once), `SweepJob` per job, under its monitor |
| `enqueue` | `Enqueue` for clients; `Admit` inside `Handoff` |
| an exception of a root-bound fencer | `ClaimThrows`, `CommitThrows` |

`LeaseExpires` is time; `Drop` is a worker that dies or gives up. A sweep that
is iterating may or may not visit a job inserted meanwhile (`Admit`), as a
ConcurrentHashMap iteration may.

### AuthorityGeneration

`disk` is the state file, `durable` what the last force of its directory left
on the disk, `loose` the states moved in place since, `lost` those a power
failure took back (history), `fileLock` the process that holds the lock file,
`thread` each caller of `withLock`, `request` each handler between its token and
its second check, `acked` the generations whose writer returned (history). A file lock belongs to
a process: a second thread of it gets an exception from `FileChannel.lock`
(`Enter`), and closing any channel of the lock file releases the lock for all
its threads. That is harmless only because each process that writes has a
single thread, which `ProcessOf` states. `Kill` and `PowerFailure` may strike
between any two steps.

`writeAtomic` swallows the exception of a directory force and acknowledges all
the same (line 284: "The file fsync and atomic rename remain authoritative on
filesystems without directory channels."). `ForceFails` is that step: the move
stays loose, and `PowerFailure` may keep the forced state or any loose one.
`AckedSurvives` says what is left of the promise: an acknowledged generation
survives every kill, and a power failure unless no force succeeded after its
move. The fallback to a move that is not atomic (lines 276-277) is not modelled:
the temporary file lies in the directory of the state file, where POSIX renames
are atomic.

### StationQueue

One process, the default of `scripts/start_server.sh` (APP_WORKERS=1). The
active worker is the chain `station_agent_worker_v2255` - `v2259` - `v22515` -
`v22514`, in which `v22515` replaces `_run_one` by a version that holds
`runtime_execution_guard` for a whole iteration; manual ticks go the same way.
So `BarrierFree` guards `GuardEnter` and `ResetBegin`, and nothing guards an
import. `sqlite3` opens a transaction at the first write, so `ClaimSelect` and
`ClaimUpdate`, `EnqueueCheck` and `EnqueueInsert` are separate steps, while
`FinishAndStream` (row completed, next row inserted, job moved) is one. The
import's `gen` is a history field: the generation it began in. `Die` is a kill
of the process, `Abandon` an exception that leaves the guard without further
writes, `Start` the startup, which the guard refuses when the generation is
closed.

`ensure_runtime_generation_state` reads sequence, hash and state outside any
transaction and then replaces them. A tick and a reset call it inside the
barrier, in one step with what they do next; a status read calls it outside
(`station_agent_worker_v22515_service.py` lines 170, 208, 251, 270 and 287,
`system_service.py` 308, 384, 432 and 450,
`pipeline_live_read_model_v225_service.py` 60). `ObserveSeq`, `ObserveState` and
`PutBack` are such a read: sequence and hash, which are read side by side and
belong together, are one value. `GiveUp` is a locked database, or a thread in
the barrier that overwrites what was put back with its own older read. Not
modelled are the marking of a data version that an Agent stage, rather than a
station, selected (`_competition_run_one` 156-158), and the contents of deleted
rows, which are all alike.

### AgentExecution

A run is an actor: it takes a set of executions, and one step is one transaction
on the ledger or one answer of the provider. `ledger` is the table, `run` the
program counter and the locals of each run.

| Code | Actions |
|---|---|
| preparation of an input | `Look` (replay), `Claim` (replay, busy, or claim), `WaitedReplay`, `WaitTimesOut`, `Rebind`, `NoRebind` |
| a provider batch | `ProviderAnswers`, `StoreOutput` per output, then `SettleAgent1`-`3`, or `BatchFailsAgent1`-`3` when one raised |
| missing items, one by one | `NextRound`, `SingletonAccepted`, `SingletonInvalid`, `SingletonMissing`, `RetriesExhausted` |
| Agent2's contract check | `FinalizeAcceptance`, `RevokeExecution` |

The three Agents share the ledger's code and differ in who waits, what a failed
batch does and which reference they keep: `stage` selects one. `LeaseExpires`
may strike while the holder still runs, as batches outlast
EXECUTION_LEASE_SECONDS; `Crash` ends a run anywhere. The settling of a batch
(the missing and invalid items failed, one transaction each) is one step; an
exception inside it, behind which Agent1 and Agent2 keep the outputs already
taken, is not modelled (an exception before it is `BatchRaises`). All executions are taken
to share a semantic hash, which gives a rebinding every source it could have.

### AgentItems

A handler is the worker of one process; the barrier keeps a process to one tick,
and nothing keeps two processes apart. One step is one statement. `row` is the
item's row of pipeline_items, `tick` what each handler has read. The upsert that
stores every result is `UpsertReads` (the stage does not go back behind the one
read) and `UpsertWrites`; after it `ClearClaim` and `ResetFailures` write by
item id alone. Agent2 is `SelectForAgent2` - `RejectPack` - `ClaimForAgent2` -
`BindInput` - `CallAgain` - `FinishAgent2` - `FailAgent2` -
`ScheduleAgent2Failure`; Agent3 likewise, with a result dropped unless the claim
is still owned; mapping and admission claim nothing. Admission is `LookForEntry`
- `CreateTask` - `EnterPool` - `RecordUsage`, each with its own transaction.
Exceptions are taken for verdicts: `PackRaises` and `DraftRaises` reject an item
whose input could not be read or made, `AdmissionRaises` stores a failed
admission wherever the call was, behind the committed entry included. `SeeStaleAgent2` and
`RecoverAgent2` (and Agent3's) are the read and the write of a recovery.
`checks` fixes what deterministic checks say of the item. A lease runs out under
a dead holder (`LeaseExpires`) or a slow one (`HolderIsSlow`). `trouble` is
history: a recovery has `robbed` when it takes the row from a handler that still
works on it (`HolderBusy`; a handler that died and came back does not work on
it). The row tells who that is while its claim stands;
when a late writer has cleared the claim, any handler that is with the Agent in
question is one the row may be taken from. `TypeOK` includes `AttemptsLeft`: a
row that waits for an Agent has an attempt left.

### ProductLifecycle

`disk` is the product's row as readers see it, `durable` what a power failure
leaves. `compute` is cut at the rename: `Computes` (lock, load, next row, within
the operation's own action), `Move`, `Answer` (directory forced, row returned),
`Raise` anywhere between. `ProcessDies` takes locks and the in-memory queue with
it; `PowerLoss` keeps the moved file or the forced one (of several moves that
were not forced, the newest or none). A receipt is the request
it answers; `copy` and the short constructors drop it, as `Turned` and
`Observing` do.

## Runs

| Run | Instance | Shows |
|---|---|---|
| `queue_lanes` | 1 item, 2 inputs, 1 output, 2 workers, 1 sweep, 2 attempts | type, reachability of waiting work, single winner, final outcomes, newest attempt commits, versions count commits, complete handoff |
| `queue_root_bound` | 1 input, 2 generations, fencer throws, callers repeat | single winner, final outcomes and newest attempt survive exceptions and repeats |
| `queue_fair` | 1 input, 2 generations | every job settles; positions match the work done; refinement of `StageWork` with its fairness |
| `queue_stale_commit` | 2 generations | expected violation, below |
| `queue_lost_handoff` | root-bound fencer | expected violation, below |
| `generation_race` | 2 operators, no handler, 2 releases, sequences to 3, kills, power failures, failing forces | no lost update, acknowledged generations survive |
| `generation_server` | 1 operator, 2 handlers of one server, sequences to 1 | types, returned results belong to their token, calls return |
| `station_queue` | 2 ticking threads, 1 reset, 1 import at a time, 1 status read, 2 stations, 2 jobs, 2 attempts, 2 generations, 1 fault | seven properties, one of them liveness |
| `station_reset` | the same with 3 stations and no status read | expected violation, below |
| `agent_execution` | 2 runs over 2 executions, each Agent, batches of up to 2, 1 retry round, 1 crash | returned outputs were accepted, no claim is forgotten, one output per claim, acceptance stands, every run ends |
| `agent_items` | 2 handlers, 2 attempts per Agent, 1 slow holder, 1 death, 1 raised call, 2 rebinds | the pool is accounted for, one call per item unless robbed, entered items end admitted, every item comes to rest |
| `product_lifecycle` | 2 callers, 2 tasks, 2 windows, 2 revisions, versions to 6 | answers stand, queued revisions are awaited |

Bounds. Two attempts per job make a late answer of the first race the second;
a third adds no new kind of racer. Two inputs give two AGENT1 lanes that meet
at one AGENT2 key, since they may produce the same hash. Two generations let
one rotation fall anywhere. `MaxSeq = 3` allows prepare, rollback and prepare
again, so a sequence is reused after a power failure that took a generation back.
The race is run without handlers, which only read, and the server with a single
rotation; the proofs cover both together. Two stations, the first of which may
end the job, show a handoff and both ends; that a middle one behaves like them
is proved. One status read, at any time, may straddle a reset or the end of one;
any number of them is proved. One fault is a death or a lost write at any step; a second adds a job
already known to be orphaned or stopped.
Two runs over two executions are enough for each to hold what the other waits
for, and a batch of two can fail with one output stored. Two handlers, one of
which is slow or dies, give each write of the row a stale writer; two attempts
separate a retry from the last one; rebinds have the code's own limit. Version 6
reaches a settled review, a second observation of the product and the review
that plans its adjustment, so a lost commit can be followed by another.
Deadlock is checked in the queue, generation and lifecycle runs. It is off in
the station runs and the two Agent runs, where the system rests once jobs,
resets, runs and faults are used up.

### What the violations show

* `queue_stale_commit`: `claim` compares the generation, then reads it again
  for the fence it returns. A rotation in between lets work of the old
  generation commit. The documents say it is rejected as STALE_GENERATION.
* `queue_lost_handoff`: with a root-bound fencer an exception after COMPLETED
  and before the outbox leaves a stage finished without successor. The document
  calls the handoff atomic.
* `station_reset`: an import that began before a reset enqueues after it, and
  the generation declared empty has a job of the old one.

## Fairness

`QueueAuthority!Fairness`: pools keep polling, a worker finishes a call it
began, time passes, the sweep is called periodically and ends. Clients,
rotations and dying workers owe nothing. The attempt bound leaves one attempt
in which the worker does not die and its lease does not run out: without it a
job could be lost and requeued for ever.
`AuthorityGeneration!FairSpec`: a process that runs goes on; a waiter gets a
lock that is free again and again (strong fairness, as the operating system
queues waiters); kills and power failures are not fair.
`AgentExecution!FairSpec`: a run that has begun takes its next step; every wait
has a deadline.
`AgentItems!FairSpec`: some process's loop goes on ticking (not each one), a
handler that began goes on (its calls time out), leases of dead holders run out
and retry times come. Nothing is assumed of Agent3's recovery, which runs only
in ticks that have other work, of promotions, slow holders or faults.
`StationQueue!FairSpec`: the loop ticks, a thread that has the barrier goes on,
a dead service is started again; faults are finite (`MaxFaults`). Agent stages,
which a tick tries before the station queue, are assumed to run dry.

## Proofs

`QueueAuthorityProofs` proves, for any finite or infinite sets of items,
hashes, workers and sweepers and any bounds:

| Theorem | Statement |
|---|---|
| `TypeCorrect` | `Spec => []TypeOK` |
| `SingleWinner` | `Spec => []ClaimSingleWinner` |
| `OutcomeDecidedOnce` | `Spec => OutcomeIsFinal` |
| `OnlyLatestAttemptCommits` | `Spec => LatestAttemptCommits` |
| `WaitingIsReachable` | `RootBound = FALSE` implies `Spec => []ReadyIsReachable` |

They rest on `QueueAssumption` and `NoneAssumption` only. None of these
properties is inductive. `TypeInv` adds to the types that a busy worker has a
job. `ClaimInv` is the heart: the monitor of a job has one owner
(`LockExclusive`), a running job has been claimed (`RunningIsClaimed`), a
granted claim is the job's newest (`GrantIsNewest`), and what a commit tested
still holds until it writes, because the monitor is not released in between
(`CheckStillHolds`). The claim id is not enough without the first: a sweep
between test and write would let two attempts commit. `WaitingIsReachable`
needs that a READY or RETRY job leaves its queue only into a worker that will
take the monitor, which an exception breaks: hence its assumption, and the
hazard listed for `claim`. Each step lemma has one step per action.

`AuthorityGenerationProofs` proves, for any sets of operators, handlers,
releases and reasons and any bound on the sequence:

| Theorem | Statement |
|---|---|
| `GenerationTypeCorrect` | `Spec => []TypeOK` |
| `NoUpdateIsLost` | `Spec => NoLostUpdate` |
| `AcknowledgedSurvives` | `Spec => []AckedSurvives` |
| `ReturnedUnderToken` | `Spec => []ReturnedUnderItsToken` |

They rest on `GenerationAssumption` (operators are processes of their own, apart
from the server) and `NoneAssumption`. The inductive invariant is `WriteInv`. An
operator inside the lock owns it (`OperatorOwnsLock`): no other process can
release it, and its own has no second thread that could. The server's threads
can release each other's lock, so the argument also needs that they never write
(`HandlersOnlyRead`), which holds because a request begins only once there is a
state file. Then what an operator compared with its hash is still in the file
when it moves the successor over it (`RenameSucceeds`). `DurableBehind` says
that the forced state is the file's or an older generation, and that what is
loose lies between the two. `WrittenIsAccounted` says of each acknowledged
generation that the forced state covers it, or it is loose, or a power failure
took it back (`Accounted`); the first two are covered by the file.
`AnswersInOrder` puts token, operation and second check of a
request in the order of generations: when first and last are equal, so is the
one between. A request does not survive a power failure, the only step that
turns generations back.

`ProductLifecycleProofs` proves, for any sets of callers, tasks, windows and
revisions and any bound on the version:

| Theorem | Statement |
|---|---|
| `TypeCorrect` | `Spec => []TypeOK` |
| `AnswersAreDurable` | `Spec => []AnswersStand` |
| `DispatchIsAwaited` | `Spec => []QueuedIsAwaited` |

They rest on `LifecycleAssumption` (None is no value; SETTLED is no revision).
The inductive invariant is `IInv`. Only the holder of the lock has a row to
write (`LockInv`), and that row is the file's own or its successor
(`WriteInv`), so no caller writes from an older load. `ForceInv` says that
between move and force the file has the caller's row, `DiskInv` that the durable
row is the file's or an older one: then an answer, given after the force, is
durable (`AnswersStand`). `QueuedIsAwaited` needs that the row about to be
written keeps a queued revision's receipt: a pending dispatch has no successor,
because `beginNextObservation` refuses it and `copy` is reached from other
states only.

`AgentExecutionProofs` proves, for any executions, batch size, retry limit and
number of runs and crashes:

| Theorem | Statement |
|---|---|
| `TypeCorrect` | `Spec => []TypeOK` |
| `ReturnedIsAccepted` | `Spec => []ReturnedWasAccepted` |
| `ClaimsAreDecided` | `Spec => []NothingLeftRunning` |
| `ClaimDecidesOnce` | `Spec => []OneOutputPerClaim` |
| `AcceptedStands` | `Spec => AcceptanceStands` |

They rest on `ExecutionAssumption`. A step is one of eight kinds by what it does
to the ledger (keeps it, takes a claim, decides, fails, reviews, begins, crashes,
a lease expires). `StepKinds` shows that every action of a run is one of them,
and one lemma per kind that it preserves `IInv`. `Shape` says what a run may
hold at each program counter (no entry while it calls the provider, no batch
outside of one). `AcceptedInv` gives a lost claim something to return.
`OpenInv` strengthens `NothingLeftRunning`: an output that is stored no longer
keeps its execution running, so a batch that fails or settles forgets nothing.
`UnusedInv` is what makes a claim decide once: a run has no output accepted for
what it still has to look at, nor for what runs under its claim.

`QueueWorkProofs` proves, for any finite or infinite sets of items, hashes,
workers and sweepers and any bounds, under `RootBound = FALSE`:

| Theorem | Statement |
|---|---|
| `QueueImplementsStageWork` | `Spec => ImplementsStageWork` |
| `CompletedIsHandedOff` | `Spec => []HandoffComplete` |
| `CommitsAreCounted` | `Spec => []VersionCountsCommits` |
| `PositionIsWork` | `OneInput` implies `Spec => []PositionMatchesWork` |

They rest on the queue's assumptions and on a fencer that cannot throw. The last
is needed: with a root-bound fencer `queue_lost_handoff` is a counterexample to
all four (an exception behind COMPLETED leaves the version uncounted and the
job without successor). The invariant is `WorkInv`: `ClaimInv`, and with it that
work is opened for registered items only (`WorkIsRegistered`), that a worker
between commit and handoff has completed its job and stored its output
(`AdvancedIsStored`: the monitor keeps a sweep out, and `putIfAbsent` never
removes what another commit of the same output is still to hand on), and that
an item's committed jobs are finitely many, without which their number means
nothing. `StepIsWork` reduces every step to six kinds by what it does to the
work: it idles, registers, opens, discards, completes, or pays a handoff.
Invariant and refinement are then proved per kind. Under the mapping a lost
lease, a retry, a late answer that is refused, a rotation and a sweep that finds
nothing all idle, that is, stutter. `PositionIsWork` takes in addition that
there is one AGENT1 input (`OneInput`, as in the run `queue_fair`): two inputs
of one item are two lines of jobs that move its stage independently, so that it
may move back. Its invariant, `PlaceInv`, says per item that its jobs are one
per stage (`OneJobPerStage`), that they begin at AGENT1 (`BeginsAtFirst`), that
the completed ones are behind its stage and the others at it
(`CompletedIsBehind`), and that between commit and handoff its stage has no job
yet (`HandoffIsAhead`); so each handoff finds its key free.

`StationQueueProofs` proves, for any clients, ticking threads, resets, jobs,
stations, versions and bounds:

| Theorem | Statement |
|---|---|
| `TypeCorrect` | `Spec => []TypeOK` |
| `WorkInClaimedGeneration` | `Spec => GenerationHolds` |
| `NothingDownstreamOfUnfinished` | `Spec => []StationsInLine` |
| `TablesAgree` | `Spec => []JobTellsItsRow` |
| `AttemptsAreDecisive` | `Spec => []AttemptsDecide` |
| `ActiveVersionIsThere` | `Spec => []ActiveIsCurrent` |

They rest on `StationAssumption`. Everything hangs on `BarrierOne`: one thread
is in the barrier, tick or reset. So what a worker read in one transaction
still holds in the next, although the SQL of the claim, of completion and of
failure looks at no status: `RowsHeld` says, per program counter, that the row
is still waiting, still running with the attempts that were read, that its
artifact is there, that its job was not deleted. `InLine` orders the rows of a
job: completed with their artifacts before the job's station, at one with the
job at it, absent behind it; from that follow both `StationsInLine` and
`JobTellsItsRow`. `GenerationHolds` needs no more than `BarrierOne` and names the
one writer outside the barrier, a status read; the other theorems hold with any
number of them, as no row depends on the generation. An import is outside the
barrier too, and may insert a job at any
time: it is harmless here because it inserts a new job and never touches one
that is there (but see `station_reset`).

`AgentItemsProofs` proves, for any handlers, attempts, faults and rebinds:

| Theorem | Statement |
|---|---|
| `TypeCorrect` | `Spec => []TypeOK` |
| `PoolIsAccounted` | `Spec => []PoolAccounted` |
| `CallIsExclusive` | `Spec => []OneCallUntilRobbed` |

They rest on `ItemAssumption`. `TicksFit` bounds what a handler may be about to
write: a stored result offers the row only to a later stage, a retry has an
attempt left. Hence the attempts in `TypeOK`. For the pool, `PoolCounts` counts a
handler from its lookup on, as it may already be past it when another one
enters. `CallsFit` is why a call is exclusive although most writes name the item
alone. A handler has a role (`Role`) from its
claim until it has stored what came of the call; a failure about to be stored
is none, since it ends the item wherever it is. As long as nothing was robbed or
promoted, at most one handler has a role, and its row is with that Agent, under
the handler's claim or a cleared one, or was carried off to where no Agent is
offered it (`Fits`). So a late writer may clear a running claim, but hands the
call to nobody. Each step leaves the row with its Agent (`Stays`), claims a row
that waits (`Takes`), carries it on (`LetsGo`), or recovers it when no handler
that could hold it works on it (`Recovers`).
`BadPackIsRejected` keeps the packs that never reach an Agent
apart.

Attempting the last proof found two faults of the model, both out of the reach
of two handlers. `HolderBusy` asked for a handler with Agent2 whatever the row
was running in, so with three handlers a second recovery of Agent3 could take a
row, whose claim a late Agent2 writer had cleared, without counting as robbery:
TLC then found `OneCallUntilRobbed` violated. And `TypeOK` bounded the retry
count by attempts and slow holders, which four handlers exceed (each of them may
count a failure late); what the code does guarantee, an attempt left wherever an
Agent is still offered the row, took its place.

Model-checked only: liveness (`JobsSettle`, `CallsReturn`, `OnlyFaultsStall`,
`RunEnds`, `EnteredIsAdmitted`, `ItemSettles`) and the fairness part of
`ImplementsFairStageWork`, which are out of the prover's reach. Every invariant
and action property of the passing runs is the subject of a theorem; those of
the queue that need a local fencer or one input say so in their hypotheses.

## Observations

Behaviour met while modelling that no run of its own shows: a property names it
as an exception, or the sources promise nothing precise enough about it. The
first three disagree with what a document says.

* A status read puts back the runtime generation it has read (`PutBack`). Over a
  reset that rotated meanwhile it restores the old sequence and hash, over the
  end of one it leaves `resetting` or `failed` behind: every tick and the next
  start are then refused until another reset, or, with an old hash, an
  iteration finds itself stale at its end. The registry
  `config/runtime_generation_lineage_registry_v1.json` lists
  `monotonic_per_reset`, `must_change_on_successive_reset` and
  `successful_reset_finishes_empty`, and the barrier's module says that a
  restart does "not silently reopen an older generation" (lines 6-7).
  (The reset after a sequence was put back gives out a hash for the second time.)
  `GenerationHolds` and `OnlyFaultsStall` except this step and its effect.
* Two processes may admit one decision twice: each looks for the dedupe key
  before the other inserts, and the column is not unique.
  `task_pool_admission_core_v20_service.py:3-5` says that a decision "produces
  one idempotent task admission", `src/api/main.py:259` "one Agent3 SOP item
  equals one idempotent admission attempt". It takes a second process (the
  barrier excludes a second thread): `PoolAccounted` allows one entry per
  handler, so with one process the two sentences hold.
* What records the usage runs after the pool entry is committed
  (`task_pool_admission_core_v20_service.py:406-407`). When it raises, the caller
  stores `task_admission_failed` (`pipeline_task_mapping_v225_service.py:402-412`)
  for an item that is in the pool, with one process and no faulty lease; the
  item is not tried again. `EnteredIsAdmitted` excepts a raised call.

Durable generation.
* `status` may return a generation that is moved in place and not forced (its
  writer was killed, or its force failed); a power failure may take it back and
  its sequence be used again. The same holds for an acknowledged generation
  whose force failed: both are `lost`.
* An operator who lost the answer of a successful call and repeats it with the
  old hash is refused. The model lets operators present the hash of the latest
  status only.

Execution ledger.
* A batch of Agent2 or Agent3 that raises half way fails the outputs it has just
  accepted as well. Another run may then have a second output accepted for the
  hash: the table "resolves one immutable accepted output Artifact" (comment at
  `src/api/main.py:237`) only between such failures. `AcceptanceStands` names
  the ways out. Agent3 keeps returning its own reference.
* `revoke_agent2_execution` names the row by its hash alone and may undo what
  another run accepted.

Pipeline item.
* `upsert_pipeline_item` reads the stage and writes it in a later transaction,
  and clearing after it names the item alone: a stale writer can NULL the lease
  of Agent3's claim. Agent3's recovery asks for a lease that has run out, so
  such a row stays running. Agent2's recovery has a rule for a missing lease.
* A result or failure of an Agent2 call whose claim was taken over is written
  all the same and may overwrite later progress; two recoveries may both count
  an attempt.
* The holds of Agent2 and the failed admission are absent from STAGE_ORDER: the
  upsert keeps the stage it read and changes the status only, so the row shows
  `agent2_running`, `blocked` or `task_mapped`, `failed`.
* retry_count is shared by Agent2 and Agent3: retries of the one shorten the
  other's.
* A pack over the size limit is rejected and migrated back without end (first
  exception of `ItemSettles`); Agent1's selection of that version waits behind it.
* An exception of the moment (a busy store) while an input is read or made
  rejects the item like a bad input, and for good.
* A dead letter may be promoted twice, which sends an admitted item through
  Agent3 again, or promoted under a late failure, which gives it all its
  attempts back (the other exceptions).
* An insert that raises after the task is made leaves a task without an entry.
* `force_new_snapshot` skips the lookup of the dedupe key; the worker never sets
  it, and it is not modelled.

Product lifecycle.
* The receipt of a committed review is dropped by the next transition, so the
  same request is then refused rather than answered again.
  `docs/V26_8_EVIDENCE_CONTINUITY.md:74` promises the committed result to a
  retry, and only of the latest commit.
* A pending dispatch is never marked as dispatched, so `beginNextObservation`
  refuses such a product for good.
* An exception after the rename tells the caller of a failure that every reader
  sees as done; `AnswersStand` therefore speaks of answers only.

## Not modelled

Stateless Java code (kernel, gates, task states, admission, volatility,
mapping, knowledge, retrieval) has nothing a unit test does not reach. Model
providers, HTTP, web demo, scripts and release tools are outside, and frontend
publication is left for the plan. In the modelled parts, receipts, counters,
wording, release identities and payloads are left out. More than one server
process (APP_WORKERS > 1) is modelled where the code has a protection of its own
across processes (ledger and pipeline item). The station queue has none: the
barrier is per process.

Of a pipeline item, Agent1's part (it writes other tables and seeds the Action
Packs), the graph contract admission and the events of an item are left out. Of
the lifecycle, the variant without a file, a file whose hash does not match
(every call refuses it) and `snapshot`, which reads outside the monitor. The
content of outputs and the hashes over them are taken as given: an output is
named by the run and the round that made it. The sweep's use of a generation read
before the iteration is in the model (`BeginSweep`), but no property judges it:
a job of the next generation that it fails counts as settled.

## Plan

1. `FrontendPublication`: compare-and-set head by version and generation,
   subscribers; hazards: older view after a newer one, publication across a
   rotation.
2. If room is left: the slot switch of `DeploymentAuthority`, and revision of a
   subgraph as pure operators against a reference definition.
