------------------------------ MODULE AgentItems ------------------------------
(***************************************************************************)
(* One pipeline item from its Action Pack to its task: the row of table    *)
(* pipeline_items, the handlers of Agent2, Agent3, task mapping and task   *)
(* pool admission, and the recoveries a tick runs before them.             *)
(*                                                                         *)
(* A handler is the worker of one process.  Within a process the execution *)
(* barrier (StationQueue) lets one tick run at a time; two handlers are    *)
(* two processes on one database (APP_WORKERS, the Agent3 rerun command).  *)
(* One step is one statement that others can see: sqlite3 begins a         *)
(* transaction at the first write, so a row that is read and then written  *)
(* may have changed in between.  The Agents claim the row with a           *)
(* compare-and-set and a lease; mapping and admission claim nothing.       *)
(*                                                                         *)
(* Items do not meet, so one is enough.  What a deterministic check says   *)
(* of the item's pack, draft, SOP and decision is fixed at the start       *)
(* (checks); the ledger (AgentExecution) replays an accepted output, so a  *)
(* second pass maps to the decision, and the dedupe key, of the first.  A claim id is  *)
(* the handler's name: a handler compares it only after its own claim has  *)
(* replaced whatever older one the row held.                               *)
(***************************************************************************)
EXTENDS Naturals, FiniteSets

CONSTANTS
    Handlers,        \* the processes' workers
    Agent2Attempts,  \* max_attempts of Agent2
    Agent3Attempts,  \* max_attempts of Agent3
    MaxSlow,         \* bound on the leases that run out under a live holder
    MaxDeaths,       \* bound on the ticks that die
    MaxFailures,     \* bound on the reads of an input and on the calls of the
                     \* admission that raise
    MaxRebinds,      \* regenerations and repairs of a run (2 in the code)
    None             \* no claim

ASSUME ItemAssumption ==
    /\ Agent2Attempts \in Nat \ {0}
    /\ Agent3Attempts \in Nat \ {0}
    /\ MaxSlow \in Nat
    /\ MaxDeaths \in Nat
    /\ MaxFailures \in Nat
    /\ MaxRebinds \in Nat
    /\ IsFiniteSet(Handlers)
    /\ None \notin Handlers

VARIABLES
    row,     \* the item's row in pipeline_items
    tick,    \* where each handler is, and what it read
    pool,    \* lifecycle tasks made, task_pool_entries inserted
    checks,  \* the first of pack, draft, SOP and decision to fail its check
    trouble  \* history: slow holders, deaths, raised calls, promotions, robberies

vars == <<row, tick, pool, checks, trouble>>

\* Stages the table does not list count as 0: the three holds of Agent2 (one
\* stage here) and the failed admission.
STAGE_ORDER ==
    [action_pack_ready |-> 70, action_pack_invalid |-> 72,
     agent2_running |-> 75, agent2_dead_letter |-> 78,
     agent2_draft_input_invalid |-> 81, agent2_draft_ready |-> 82,
     agent2_draft_output_invalid |-> 83, agent3_sop_running |-> 85,
     agent3_sop_ready |-> 88, agent3_sop_output_invalid |-> 89,
     agent3_sop_failed |-> 89, task_mapped |-> 94, task_mapping_failed |-> 95,
     task_admitted |-> 100, agent2_hold |-> 0, task_admission_failed |-> 0]

Stages   == DOMAIN STAGE_ORDER
Waiting  == {"queued", "ready", "retry"}
Statuses == Waiting \cup {"running", "blocked", "failed", "completed"}

BadPacks == {"pack_invalid", "pack_unreadable", "pack_oversized"}

\* The first check the item does not pass, if any.
Verdicts == BadPacks \cup {"draft_invalid", "sop_invalid", "refused", "passes"}

Pcs == {"idle", "prepare2", "bind", "call2", "fail2", "prepare3", "call3",
        "retry3", "upsert", "write", "clear", "reset", "admit", "create",
        "enter", "record", "recover2", "recover3"}

\* work: whose result is being stored; stage, status: that result; retry: the
\* retry_count it read; rebinds: regenerations and repairs still possible.
Idle == [pc |-> "idle", work |-> "none", stage |-> "action_pack_ready",
         status |-> "ready", retry |-> 0, rebinds |-> 0]

Init ==
    /\ row = [stage |-> "action_pack_ready", status |-> "ready", claim |-> None,
              lease |-> "none", retry |-> 0, due |-> TRUE]
    /\ tick = [h \in Handlers |-> Idle]
    /\ pool = [tasks |-> 0, entries |-> 0]
    /\ checks \in Verdicts
    /\ trouble = [slow |-> 0, deaths |-> 0, failures |-> 0, promoted |-> FALSE,
                 robbed |-> FALSE]

At(h, pc)   == tick[h].pc = pc
Goes(h, pc) == tick' = [tick EXCEPT ![h].pc = pc]
Rests(h)    == tick' = [tick EXCEPT ![h] = Idle]

\* An exception that the handler catches and takes for a verdict on the item.
Raises ==
    /\ trouble.failures < MaxFailures
    /\ trouble' = [trouble EXCEPT !.failures = @ + 1]

\* _pending_items of a stage: the row waits there, for whoever comes.
Waits(stage) == row.stage = stage /\ row.status \in Waiting

\* The row under a new claim (claim_agent2_items, _claim_items).
ClaimedBy(h, stage) ==
    [row EXCEPT !.stage = stage, !.status = "running", !.claim = h,
                !.lease = "live", !.due = TRUE]

\* The row without a claim: claim_id, lease_expires_at and retry_after NULL.
Unclaimed(r) == [r EXCEPT !.claim = None, !.lease = "none", !.due = TRUE]

\* _claim_owned
Owned(h) ==
    /\ row.stage = "agent3_sop_running"
    /\ row.status = "running"
    /\ row.claim = h

-----------------------------------------------------------------------------
(* upsert_pipeline_item and what the finishers do after it                 *)

\* The handler has a result to store, and no statement of the upsert ran yet.
Stores(h, work, stage, status) ==
    tick' = [tick EXCEPT ![h] = [Idle EXCEPT !.pc = "upsert", !.work = work,
                                             !.stage = stage, !.status = status]]

\* The stage does not go back behind the one that was read; the status is taken
\* as it comes.
FurtherOf(stage) ==
    IF STAGE_ORDER[stage] < STAGE_ORDER[row.stage] THEN row.stage ELSE stage

UpsertReads(h) ==
    /\ At(h, "upsert")
    /\ tick' = [tick EXCEPT ![h].pc = "write", ![h].stage = FurtherOf(@)]
    /\ UNCHANGED <<row, pool, checks, trouble>>

UpsertWrites(h) ==
    /\ At(h, "write")
    /\ row' = [row EXCEPT !.stage = tick[h].stage, !.status = tick[h].status]
    /\ IF tick[h].work \in {"agent2", "agent3"} THEN Goes(h, "clear") ELSE Rests(h)
    /\ UNCHANGED <<pool, checks, trouble>>

\* clear_agent2_runtime_control, and the last statement of Agent3's _finish_item:
\* neither looks at the claim it clears.
ClearClaim(h) ==
    /\ At(h, "clear")
    /\ row' = Unclaimed(row)
    /\ IF tick[h].work = "agent2" /\ tick[h].status \in {"ready", "blocked"}
         THEN Goes(h, "reset")
         ELSE Rests(h)
    /\ UNCHANGED <<pool, checks, trouble>>

\* _clear_failure_state
ResetFailures(h) ==
    /\ At(h, "reset")
    /\ row' = [Unclaimed(row) EXCEPT !.retry = 0]
    /\ Rests(h)
    /\ UNCHANGED <<pool, checks, trouble>>

-----------------------------------------------------------------------------
(* Agent2: run_agent2_draft_microbatch_hard                                *)

SelectForAgent2(h) ==
    /\ At(h, "idle")
    /\ Waits("action_pack_ready") /\ row.due
    /\ Goes(h, "prepare2")
    /\ UNCHANGED <<row, pool, checks, trouble>>

\* _mark_action_pack_invalid, _mark_agent2_draft_input_invalid: without a claim.
RejectPack(h) ==
    /\ At(h, "prepare2")
    /\ \/ /\ checks = "pack_invalid"
          /\ Stores(h, "agent2", "action_pack_invalid", "failed")
       \/ /\ checks \in {"pack_unreadable", "pack_oversized"}
          /\ Stores(h, "agent2", "agent2_draft_input_invalid", "failed")
    /\ UNCHANGED <<row, pool, checks, trouble>>

\* Any exception of reading the source or of making the input is taken for a bad
\* input of that item, a store that is busy for a moment included.
PackRaises(h) ==
    /\ At(h, "prepare2")
    /\ Raises
    /\ Stores(h, "agent2", "agent2_draft_input_invalid", "failed")
    /\ UNCHANGED <<row, pool, checks>>

\* Mutant: the claim's UPDATE names the item and not the stage and status.
MayClaimForAgent2Anyway == TRUE

MayClaimForAgent2 == Waits("action_pack_ready") /\ row.due

ClaimForAgent2(h) ==
    /\ At(h, "prepare2")
    /\ checks \notin BadPacks
    /\ IF MayClaimForAgent2
         THEN /\ row' = ClaimedBy(h, "agent2_running")
              /\ tick' = [tick EXCEPT ![h].pc = "bind", ![h].rebinds = MaxRebinds]
         ELSE /\ Rests(h)
              /\ UNCHANGED row
    /\ UNCHANGED <<pool, checks, trouble>>

\* bind_agent2_execution_input raises when the claim is lost, which ends the tick.
BindInput(h) ==
    /\ At(h, "bind")
    /\ IF row.claim = h /\ row.status = "running" THEN Goes(h, "call2") ELSE Rests(h)
    /\ UNCHANGED <<row, pool, checks, trouble>>

\* A replay that fails the contract is regenerated, an invalid draft repaired,
\* each at most once and from a newly bound input.
CallAgain(h) ==
    /\ At(h, "call2")
    /\ tick[h].rebinds > 0
    /\ tick' = [tick EXCEPT ![h].pc = "bind", ![h].rebinds = @ - 1]
    /\ UNCHANGED <<row, pool, checks, trouble>>

\* _finish_ready, _finish_hold, _finish_invalid_output
FinishAgent2(h) ==
    /\ At(h, "call2")
    /\ \E result \in {<<"agent2_draft_ready", "ready">>, <<"agent2_hold", "blocked">>,
                      <<"agent2_draft_output_invalid", "failed">>} :
          Stores(h, "agent2", result[1], result[2])
    /\ UNCHANGED <<row, pool, checks, trouble>>

\* schedule_agent2_failure.  Mutant: an eligible failure is always retried.
Agent2RetriesAlways(attempt) == TRUE

Agent2Retries(attempt) == attempt < Agent2Attempts

\* It reads the count ...
FailAgent2(h) ==
    /\ At(h, "call2")
    /\ \E eligible \in BOOLEAN :
          LET attempt == row.retry + 1
              retry   == eligible /\ Agent2Retries(attempt)
          IN  tick' = [tick EXCEPT ![h] = [Idle EXCEPT
                         !.pc = "fail2", !.retry = attempt,
                         !.stage = IF retry THEN "action_pack_ready" ELSE "agent2_dead_letter",
                         !.status = IF retry THEN "retry" ELSE "failed"]]
    /\ UNCHANGED <<row, pool, checks, trouble>>

\* ... and updates the row by its item id alone.
ScheduleAgent2Failure(h) ==
    /\ At(h, "fail2")
    /\ row' = [stage |-> tick[h].stage, status |-> tick[h].status, claim |-> None,
               lease |-> "none", retry |-> tick[h].retry,
               due |-> tick[h].status = "failed"]
    /\ Rests(h)
    /\ UNCHANGED <<pool, checks, trouble>>

-----------------------------------------------------------------------------
(* Agent3: run_agent3_sop_microbatch_v225                                  *)

\* The claimed item keeps the retry_count of the selection.
SelectForAgent3(h) ==
    /\ At(h, "idle")
    /\ Waits("agent2_draft_ready") /\ row.due
    /\ tick' = [tick EXCEPT ![h].pc = "prepare3", ![h].retry = row.retry]
    /\ UNCHANGED <<row, pool, checks, trouble>>

\* An invalid draft is stored without a claim, and nothing is cleared after it.
RejectDraft(h) ==
    /\ At(h, "prepare3")
    /\ checks = "draft_invalid"
    /\ Stores(h, "task", "agent3_sop_output_invalid", "failed")
    /\ UNCHANGED <<row, pool, checks, trouble>>

\* Any exception of making or reading Agent3's input is taken for a bad draft.
DraftRaises(h) ==
    /\ At(h, "prepare3")
    /\ checks # "draft_invalid"
    /\ Raises
    /\ Stores(h, "task", "agent3_sop_output_invalid", "failed")
    /\ UNCHANGED <<row, pool, checks>>

ClaimForAgent3(h) ==
    /\ At(h, "prepare3")
    /\ checks # "draft_invalid"
    /\ IF Waits("agent2_draft_ready") /\ row.due
         THEN /\ row' = ClaimedBy(h, "agent3_sop_running")
              /\ Goes(h, "call3")
         ELSE /\ Rests(h)
              /\ UNCHANGED row
    /\ UNCHANGED <<pool, checks, trouble>>

\* _finish_item: a result without a claim is dropped.
FinishAgent3(h) ==
    /\ At(h, "call3")
    /\ IF Owned(h)
         THEN \E result \in {<<"agent3_sop_ready", "ready">>,
                             <<"agent3_sop_output_invalid", "failed">>,
                             <<"agent3_sop_failed", "failed">>} :
                 Stores(h, "agent3", result[1], result[2])
         ELSE Rests(h)
    /\ UNCHANGED <<row, pool, checks, trouble>>

\* _schedule_provider_failure of a transient failure ...
FailAgent3(h) ==
    /\ At(h, "call3")
    /\ tick[h].retry + 1 < Agent3Attempts
    /\ IF Owned(h) THEN Goes(h, "retry3") ELSE Rests(h)
    /\ UNCHANGED <<row, pool, checks, trouble>>

\* ... whose UPDATE names the item and the claim.
ScheduleAgent3Retry(h) ==
    /\ At(h, "retry3")
    /\ row' = IF row.claim = h
                THEN [stage |-> "agent2_draft_ready", status |-> "retry",
                      claim |-> None, lease |-> "none",
                      retry |-> tick[h].retry + 1, due |-> FALSE]
                ELSE row
    /\ Rests(h)
    /\ UNCHANGED <<pool, checks, trouble>>

-----------------------------------------------------------------------------
(* Task mapping and task pool admission                                    *)

\* run_task_mapping_microbatch_v225
MapTask(h) ==
    /\ At(h, "idle")
    /\ Waits("agent3_sop_ready")
    /\ IF checks # "sop_invalid"
         THEN Stores(h, "task", "task_mapped", "queued")
         ELSE Stores(h, "task", "task_mapping_failed", "failed")
    /\ UNCHANGED <<row, pool, checks, trouble>>

\* run_task_pool_admission_microbatch_v225
SelectForAdmission(h) ==
    /\ At(h, "idle")
    /\ Waits("task_mapped")
    /\ Goes(h, "admit")
    /\ UNCHANGED <<row, pool, checks, trouble>>

\* The decision fails a gate of admit_decision_to_task_pool.
RefuseDecision(h) ==
    /\ At(h, "admit")
    /\ checks = "refused"
    /\ Stores(h, "task", "task_admission_failed", "failed")
    /\ UNCHANGED <<row, pool, checks, trouble>>

\* _existing_entry.  Mutant: the dedupe key is not looked up.
NeverEntered == FALSE

Entered == pool.entries > 0

\* An existing entry counts as success.  Mutant: only a created task does.
OutcomeOfNewOnly == <<"task_admission_failed", "failed">>

OutcomeOfExisting == <<"task_admitted", "completed">>

\* force_new_snapshot, which skips the lookup, is never passed by the worker.
LookForEntry(h) ==
    /\ At(h, "admit")
    /\ checks # "refused"
    /\ IF Entered
         THEN Stores(h, "task", OutcomeOfExisting[1], OutcomeOfExisting[2])
         ELSE Goes(h, "create")
    /\ UNCHANGED <<row, pool, checks, trouble>>

CreateTask(h) ==
    /\ At(h, "create")
    /\ pool' = [pool EXCEPT !.tasks = @ + 1]
    /\ Goes(h, "enter")
    /\ UNCHANGED <<row, checks, trouble>>

EnterPool(h) ==
    /\ At(h, "enter")
    /\ pool' = [pool EXCEPT !.entries = @ + 1]
    /\ Goes(h, "record")
    /\ UNCHANGED <<row, checks, trouble>>

\* record_authorization_decision and record_authorized_usage, each a transaction
\* of its own, after the entry is committed.
RecordUsage(h) ==
    /\ At(h, "record")
    /\ Stores(h, "task", "task_admitted", "completed")
    /\ UNCHANGED <<row, pool, checks, trouble>>

\* Reading the mapping, looking for the entry, making the task, inserting the
\* entry or recording the usage raises.  The caller takes each for a refusal,
\* whatever is there by then: a task, and in the last case the entry as well.
AdmissionRaises(h) ==
    /\ tick[h].pc \in {"admit", "create", "enter", "record"}
    /\ Raises
    /\ Stores(h, "task", "task_admission_failed", "failed")
    /\ UNCHANGED <<row, pool, checks>>

-----------------------------------------------------------------------------
(* What a tick recovers before it selects                                  *)

RunningInAgent2 == row.stage = "agent2_running" /\ row.status = "running"
RunningInAgent3 == row.stage = "agent3_sop_running" /\ row.status = "running"

Storing(h, work) == tick[h].work = work /\ tick[h].pc \in {"upsert", "write"}

\* The handler has claimed the Agent's call and not yet stored what came of it.
WithAgent2(h) == tick[h].pc \in {"bind", "call2", "fail2"} \/ Storing(h, "agent2")
WithAgent3(h) == tick[h].pc \in {"call3", "retry3"} \/ Storing(h, "agent3")

\* The claimant of the running row still works on the call it was claimed for (it
\* may have died and started again); a cleared claim does not tell who that is.
HolderBusy ==
    \E h \in IF row.claim = None THEN Handlers ELSE {row.claim} :
        IF RunningInAgent2 THEN WithAgent2(h) ELSE WithAgent3(h)

\* History: the row is taken from a handler that still works on it.
Robs == trouble' = [trouble EXCEPT !.robbed = @ \/ (row' # row /\ HolderBusy)]

\* recover_stale_agent2_claims
SeeStaleAgent2(h) ==
    /\ At(h, "idle")
    /\ RunningInAgent2
    /\ row.lease = "expired"
    /\ tick' = [tick EXCEPT ![h].pc = "recover2", ![h].retry = row.retry + 1]
    /\ UNCHANGED <<row, pool, checks, trouble>>

\* A row whose payload holds a proof is not retried.
RecoverAgent2(h) ==
    /\ At(h, "recover2")
    /\ \E proven \in BOOLEAN :
          LET retry == ~proven /\ Agent2Retries(tick[h].retry)
          IN  row' = IF RunningInAgent2
                       THEN [Unclaimed(row) EXCEPT
                               !.retry = tick[h].retry,
                               !.stage = IF retry THEN "action_pack_ready"
                                                  ELSE "agent2_dead_letter",
                               !.status = IF retry THEN "retry" ELSE "failed"]
                       ELSE row
    /\ Rests(h)
    /\ Robs
    /\ UNCHANGED <<pool, checks>>

\* recover_stale_agent3_claims.  It runs at the start of a process, and in the
\* ticks of a data version that has something else to do: nothing makes it run
\* for the sake of this item.
SeeStaleAgent3(h) ==
    /\ At(h, "idle")
    /\ RunningInAgent3
    /\ row.lease = "expired"
    /\ tick' = [tick EXCEPT ![h].pc = "recover3", ![h].retry = row.retry + 1]
    /\ UNCHANGED <<row, pool, checks, trouble>>

RecoverAgent3(h) ==
    /\ At(h, "recover3")
    /\ row' = IF RunningInAgent3
                THEN [Unclaimed(row) EXCEPT
                        !.retry = tick[h].retry,
                        !.stage = IF tick[h].retry < Agent3Attempts
                                    THEN "agent2_draft_ready" ELSE "agent3_sop_failed",
                        !.status = IF tick[h].retry < Agent3Attempts
                                     THEN "retry" ELSE "failed",
                        !.due = tick[h].retry >= Agent3Attempts]
                ELSE row
    /\ Rests(h)
    /\ Robs
    /\ UNCHANGED <<pool, checks>>

\* reconcile_agent2_hash_proof_dead_letters_v22515, when the ledger holds an
\* accepted output for the dead letter.
PromoteDeadLetter(h) ==
    /\ At(h, "idle")
    /\ row.stage = "agent2_dead_letter" /\ row.status = "failed"
    /\ Stores(h, "agent2", "agent2_draft_ready", "ready")
    /\ trouble' = [trouble EXCEPT !.promoted = TRUE]
    /\ UNCHANGED <<row, pool, checks>>

\* migrate_agent2_projection_failures_v22514: the pack that is too large today
\* is queued again as if only an older projection had been.
MigrateProjectionFailure(h) ==
    /\ At(h, "idle")
    /\ checks = "pack_oversized"
    /\ row.stage = "agent2_draft_input_invalid"
    /\ row.status = "failed"
    /\ row' = [Unclaimed(row) EXCEPT !.stage = "action_pack_ready",
                                     !.status = "retry", !.retry = 0]
    /\ UNCHANGED <<tick, pool, checks, trouble>>

-----------------------------------------------------------------------------
(* Time and failures                                                       *)

\* A lease that was cleared under Agent2 lasts as long as it did: the recovery
\* then counts from updated_at, which the clearing leaves alone.  Agent3's has no
\* such rule.  Mutant: nor has Agent2's.
LeasedByRowOnly == (RunningInAgent2 \/ RunningInAgent3) /\ row.lease = "live"

Leased == \/ RunningInAgent2 /\ row.lease # "expired"
          \/ RunningInAgent3 /\ row.lease = "live"

\* The lease of a handler that is gone.
LeaseExpires ==
    /\ Leased
    /\ ~HolderBusy
    /\ row' = [row EXCEPT !.lease = "expired"]
    /\ UNCHANGED <<tick, pool, checks, trouble>>

\* The lease of a handler that is slower than it.
HolderIsSlow ==
    /\ Leased
    /\ HolderBusy
    /\ trouble.slow < MaxSlow
    /\ row' = [row EXCEPT !.lease = "expired"]
    /\ trouble' = [trouble EXCEPT !.slow = @ + 1]
    /\ UNCHANGED <<tick, pool, checks>>

\* retry_after passes.
BecomesDue ==
    /\ ~row.due
    /\ row' = [row EXCEPT !.due = TRUE]
    /\ UNCHANGED <<tick, pool, checks, trouble>>

\* The process dies and starts again, or an exception leaves the tick (another
\* item's lost claim, a failed statement): the row stays as it is.
TickDies(h) ==
    /\ ~At(h, "idle")
    /\ trouble.deaths < MaxDeaths
    /\ trouble' = [trouble EXCEPT !.deaths = @ + 1]
    /\ Rests(h)
    /\ UNCHANGED <<row, pool, checks>>

-----------------------------------------------------------------------------
Begin(h) ==
    \/ SelectForAgent2(h) \/ SelectForAgent3(h)
    \/ MapTask(h) \/ SelectForAdmission(h)
    \/ SeeStaleAgent2(h) \/ MigrateProjectionFailure(h)

Continue(h) ==
    \/ UpsertReads(h) \/ UpsertWrites(h) \/ ClearClaim(h) \/ ResetFailures(h)
    \/ RejectPack(h) \/ ClaimForAgent2(h) \/ BindInput(h) \/ CallAgain(h)
    \/ FinishAgent2(h) \/ FailAgent2(h) \/ ScheduleAgent2Failure(h)
    \/ RejectDraft(h) \/ ClaimForAgent3(h) \/ FinishAgent3(h)
    \/ FailAgent3(h) \/ ScheduleAgent3Retry(h)
    \/ RefuseDecision(h) \/ LookForEntry(h) \/ CreateTask(h) \/ EnterPool(h)
    \/ RecordUsage(h) \/ RecoverAgent2(h) \/ RecoverAgent3(h)

Next ==
    \/ \E h \in Handlers :
          \/ Begin(h) \/ Continue(h)
          \/ SeeStaleAgent3(h) \/ PromoteDeadLetter(h)
          \/ PackRaises(h) \/ DraftRaises(h) \/ AdmissionRaises(h) \/ TickDies(h)
    \/ LeaseExpires \/ HolderIsSlow \/ BecomesDue

Spec == Init /\ [][Next]_vars

\* Some process's loop goes on ticking, a tick that has begun ends (its calls
\* time out), and time passes.  Nothing is assumed of Agent3's recovery, of the
\* promotion of dead letters, or of slow holders and faults.
FairSpec ==
    /\ Spec
    /\ WF_vars(\E h \in Handlers : Begin(h))
    /\ \A h \in Handlers : WF_vars(Continue(h))
    /\ WF_vars(LeaseExpires)
    /\ WF_vars(BecomesDue)

-----------------------------------------------------------------------------
(* Properties                                                              *)

\* Who is called again has attempts left: the row waits for Agent2, or runs in
\* it, and waits for a retry of Agent3, only below the attempts of that Agent.
\* (Elsewhere the count may exceed them: a failure of a run that lost the row
\* counts on top of an exhausted one.)
AttemptsLeft ==
    /\ Waits("action_pack_ready") \/ RunningInAgent2 => row.retry < Agent2Attempts
    /\ row.stage = "agent2_draft_ready" /\ row.status = "retry" =>
          row.retry < Agent3Attempts

Row  == [stage: Stages, status: Statuses, claim: Handlers \cup {None},
         lease: {"none", "live", "expired"}, retry: Nat, due: BOOLEAN]
Tick == [pc: Pcs, work: {"none", "agent2", "agent3", "task"}, stage: Stages,
         status: Statuses, retry: Nat, rebinds: 0..MaxRebinds]

\* Every variable holds a value of its kind, and no retry is offered beyond the
\* attempts of its Agent.
TypeOK ==
    /\ row \in Row
    /\ tick \in [Handlers -> Tick]
    /\ pool \in [tasks: Nat, entries: Nat]
    /\ checks \in Verdicts
    /\ trouble \in [slow: 0..MaxSlow, deaths: 0..MaxDeaths,
                    failures: 0..MaxFailures, promoted: BOOLEAN,
                    robbed: BOOLEAN]
    /\ AttemptsLeft

\* Admission claims nothing, looks for an entry and inserts one later; the task
\* is made in between.  Two processes can therefore admit one decision twice, which
\* "one Agent3 SOP item equals one idempotent admission attempt" (api/main.py) does
\* not say; but a handler enters it at most once, so one process makes one entry.
\* A task without an entry is one being entered or one a fault left behind, and
\* an item is admitted only with an entry.
PoolAccounted ==
    /\ pool.entries <= Cardinality(Handlers)
    /\ pool.tasks <= pool.entries + trouble.deaths + trouble.failures
                     + Cardinality({h \in Handlers : At(h, "enter")})
    /\ row.stage = "task_admitted" => pool.entries > 0

\* Two handlers work on one Agent's call of the item only after a recovery took
\* it from one of them (whose lease ran out, or whose claim is younger than what
\* the recovery read), or after a dead letter was promoted (by two handlers at
\* once, whose writes may straddle Agent3's claim): nothing else the handlers do
\* to the row, the clearing of another's claim included, hands it out twice.
OneCallUntilRobbed ==
    (~trouble.robbed /\ ~trouble.promoted) =>
        /\ Cardinality({h \in Handlers :
                           tick[h].pc \in {"bind", "call2", "fail2"}}) <= 1
        /\ Cardinality({h \in Handlers : tick[h].pc \in {"call3", "retry3"}}) <= 1

\* A decision in the pool ends with its item at task_admitted, although mapping
\* and admission write without a claim and a late writer may put the row back
\* behind it: the row comes round and finds the entry.  The exceptions are an
\* Agent the row was taken from, whose late result or failure is not guarded; a
\* call that raises, after the entry is committed or in another handler, and whose
\* caller stores a refusal; and two promotions of one dead letter, the later of
\* which sends an admitted item through Agent3 again.
EnteredIsAdmitted ==
    <>[]( \/ pool.entries = 0
          \/ row.stage = "task_admitted"
          \/ trouble.robbed \/ trouble.failures > 0 \/ trouble.promoted )

\* Nobody selects the row and no recovery is due that would reach it.  A row of
\* Agent3 whose lease has run out, or was cleared, is among them.
AtRest ==
    /\ \A stage \in {"action_pack_ready", "agent2_draft_ready", "agent3_sop_ready",
                     "task_mapped"} : ~Waits(stage)
    /\ ~RunningInAgent2
    /\ ~(RunningInAgent3 /\ row.lease = "live")

\* Whatever dies or is slow, the attempts run out: the item comes to rest and
\* stays there, and is not sent round between Agent and recovery for ever.  In
\* particular no death leaves it running in Agent2.  There are two exceptions.
\* The oversized pack is rejected and migrated back for ever, and a dead letter
\* is only dead until it is promoted: a promotion that resets the retry count
\* under a late failure brings the row back to Agent2 with all its attempts.
ItemSettles ==
    \/ checks = "pack_oversized"
    \/ []<><<\E h \in Handlers : PromoteDeadLetter(h)>>_vars
    \/ <>[]AtRest

=============================================================================
