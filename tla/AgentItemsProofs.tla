---------------------------- MODULE AgentItemsProofs ----------------------------
(***************************************************************************)
(* What AgentItems keeps true of an item for all values of its constants:  *)
(* retries stay within the attempts of their Agent, the task pool is       *)
(* accounted for, and an Agent's call is with one handler until a recovery *)
(* or a promotion takes it away.                                           *)
(***************************************************************************)
EXTENDS AgentItems, FiniteSetTheorems, TLAPS

\* The stages from agent2_draft_ready on, and those behind it: what STAGE_ORDER
\* puts at 82 and more, and at 88 and more.
Drafted == {"agent2_draft_ready", "agent2_draft_output_invalid",
            "agent3_sop_running", "agent3_sop_ready", "agent3_sop_output_invalid",
            "agent3_sop_failed", "task_mapped", "task_mapping_failed",
            "task_admitted"}

Answered == Drafted \ {"agent2_draft_ready", "agent2_draft_output_invalid",
                       "agent3_sop_running"}

\* What a handler holds while it stores a result: the result offers the row to a
\* later stage, or to none.
ResultFits(t) ==
    /\ t.work # "none"
    /\ t.status \notin {"running", "retry"}
    /\ t.status \in Waiting => t.stage \in (IF t.work = "agent2" THEN Drafted ELSE Answered)

\* What a handler holds that has read an Agent's count of failures, and whose
\* claim it is about to clear.
PhaseFits(t) ==
    /\ t.pc = "fail2" => \/ /\ t.stage = "action_pack_ready" /\ t.status = "retry"
                            /\ t.retry < Agent2Attempts
                         \/ t.stage = "agent2_dead_letter" /\ t.status = "failed"
    /\ t.pc = "retry3" => t.retry + 1 < Agent3Attempts
    /\ t.pc = "clear" => t.work \in {"agent2", "agent3"}
    /\ t.pc = "reset" => t.work = "agent2"

TicksFit ==
    \A h \in Handlers : /\ tick[h].pc \in {"upsert", "write"} => ResultFits(tick[h])
                        /\ PhaseFits(tick[h])

\* What stands between the row and a handler's claim to have put it in the pool.
AdmittedIsEntered ==
    /\ row.stage = "task_admitted" => pool.entries > 0
    /\ \A h \in Handlers :
          /\ tick[h].pc = "record" => pool.entries > 0
          /\ tick[h].pc \in {"upsert", "write"} /\ tick[h].stage = "task_admitted" =>
                pool.entries > 0

Creating == {h \in Handlers : tick[h].pc \in {"create", "enter"}}
Entering == {h \in Handlers : At(h, "enter")}

PoolCounts ==
    /\ pool.entries + Cardinality(Creating) <= Cardinality(Handlers)
    /\ pool.tasks <= pool.entries + trouble.deaths + trouble.failures
                     + Cardinality(Entering)

\* A bad pack is rejected before anyone claims the item.
BadPackStages == {"action_pack_ready", "action_pack_invalid", "agent2_draft_input_invalid"}

BadPackIsRejected ==
    checks \in BadPacks =>
        /\ row.stage \in BadPackStages
        /\ row.status \in Waiting \cup {"failed"}
        /\ \A h \in Handlers :
              /\ tick[h].pc \in {"idle", "prepare2", "upsert", "write", "clear"}
              /\ tick[h].pc \in {"upsert", "write", "clear"} =>
                    tick[h].work = "agent2" /\ tick[h].status = "failed"
              /\ tick[h].pc \in {"upsert", "write"} => tick[h].stage \in BadPackStages

\* Whose turn it is with a row of this stage and status ...
PlaceOf(stage, status) ==
    IF stage = "action_pack_ready" /\ status \in Waiting THEN "for2"
    ELSE IF stage = "agent2_running" /\ status = "running" THEN "with2"
    ELSE IF stage = "agent2_draft_ready" /\ status \in Waiting THEN "for3"
    ELSE IF stage = "agent3_sop_running" /\ status = "running" THEN "with3"
    ELSE "other"

Place == PlaceOf(row.stage, row.status)

\* ... and which handler has it.  One that stores a failure has nothing any more:
\* the failure ends the item wherever it is.
RoleOf(t) ==
    IF t.pc \in {"bind", "call2", "fail2"} THEN "with2"
    ELSE IF t.pc \in {"call3", "retry3"} THEN "with3"
    ELSE IF t.pc \in {"upsert", "write"} /\ t.status # "failed"
           THEN IF t.work = "agent2" THEN "with2"
                ELSE IF t.work = "agent3" THEN "with3" ELSE "none"
    ELSE "none"

Role(h) == RoleOf(tick[h])

\* A handler with an Agent has the row there, under its own claim or one that was
\* cleared, or the row has been carried off to where no Agent is offered it.
Fits(h) ==
    \A turn \in {"with2", "with3"} :
        Role(h) = turn => \/ Place = turn /\ row.claim \in {h, None}
                          \/ Place = "other"

Untroubled == ~trouble.robbed /\ ~trouble.promoted

CallsFit ==
    Untroubled /\ checks \notin BadPacks =>
        /\ \A h \in Handlers : Fits(h)
        /\ \A g, h \in Handlers : Role(g) # "none" /\ Role(h) # "none" => g = h

\* The inductive invariant.
ItemInv ==
    /\ TypeOK
    /\ TicksFit
    /\ AdmittedIsEntered
    /\ PoolCounts
    /\ BadPackIsRejected
    /\ CallsFit

-----------------------------------------------------------------------------
\* Where STAGE_ORDER puts the stages.
LEMMA OrderFacts ==
    \A s \in Stages : /\ STAGE_ORDER[s] \in Nat
                      /\ s \in Drafted <=> STAGE_ORDER[s] >= 82
                      /\ s \in Answered <=> STAGE_ORDER[s] >= 88
  <1>1. Stages = {"action_pack_ready", "action_pack_invalid", "agent2_running",
                  "agent2_dead_letter", "agent2_draft_input_invalid",
                  "agent2_hold", "task_admission_failed"} \cup Drafted
    BY DEF Stages, STAGE_ORDER, Drafted
  <1>. QED BY <1>1 DEF STAGE_ORDER, Drafted, Answered

\* The stage an upsert writes is not behind the one it was given.
LEMMA FurtherFacts ==
    ASSUME row.stage \in Stages, NEW s \in Stages
    PROVE  /\ FurtherOf(s) \in {s, row.stage}
           /\ s \in Drafted => FurtherOf(s) \in Drafted
           /\ s \in Answered => FurtherOf(s) \in Answered
BY OrderFacts DEF FurtherOf

-----------------------------------------------------------------------------
\* The handler h acts and the others stay where they are.
Moves(h) ==
    /\ tick' \in [Handlers -> Tick]
    /\ \A g \in Handlers \ {h} : tick'[g] = tick[g]

HandlerStep(h) ==
    \/ Begin(h) \/ Continue(h)
    \/ SeeStaleAgent3(h) \/ PromoteDeadLetter(h)
    \/ PackRaises(h) \/ DraftRaises(h) \/ AdmissionRaises(h) \/ TickDies(h)

TimeStep == LeaseExpires \/ HolderIsSlow \/ BecomesDue

\* What the handler does next, as far as it holds a result or a count.
TickFits(t) ==
    /\ t.pc \in {"upsert", "write"} => ResultFits(t)
    /\ PhaseFits(t)

\* The names of the stages.
LEMMA StageNames ==
    /\ Stages = {"action_pack_ready", "action_pack_invalid", "agent2_running",
                 "agent2_dead_letter", "agent2_draft_input_invalid",
                 "agent2_hold", "task_admission_failed"} \cup Drafted
    /\ Answered \subseteq Drafted
BY DEF Stages, STAGE_ORDER, Drafted, Answered

\* A stored result offers the row to a stage that comes after the work.
ResultOf(work, stage, status) ==
    /\ work \in {"agent2", "agent3", "task"}
    /\ stage \in Stages
    /\ status \in Statuses \ {"running", "retry"}
    /\ status \in Waiting => stage \in (IF work = "agent2" THEN Drafted ELSE Answered)

\* Storing such a result is a move of the handler.
LEMMA StoreMoves ==
    ASSUME TypeOK, NEW h \in Handlers, NEW work, NEW stage, NEW status,
           ResultOf(work, stage, status), Stores(h, work, stage, status)
    PROVE  /\ Moves(h) /\ TickFits(tick'[h])
           /\ tick'[h].pc = "upsert" /\ tick'[h].work = work
           /\ tick'[h].stage = stage /\ tick'[h].status = status
  <1>1. tick \in [Handlers -> Tick]
    BY DEF TypeOK
  <1>2. tick'[h] = [pc |-> "upsert", work |-> work, stage |-> stage,
                    status |-> status, retry |-> 0, rebinds |-> 0]
    BY <1>1 DEF Stores, Idle
  <1>3. tick'[h] \in Tick
    BY <1>2, ItemAssumption DEF ResultOf, Tick, Pcs
  <1>. QED
    BY <1>1, <1>2, <1>3
    DEF Stores, Moves, TickFits, PhaseFits, ResultFits, ResultOf

\* The first steps of a tick, and the steps nobody is sure to take.
LEMMA BeginMoves ==
    ASSUME TypeOK, TicksFit, NEW h \in Handlers,
           Begin(h) \/ SeeStaleAgent3(h) \/ PromoteDeadLetter(h)
    PROVE  Moves(h) /\ TickFits(tick'[h])
  <1>1. tick[h] \in Tick /\ tick \in [Handlers -> Tick] /\ row.retry \in Nat
    BY DEF TypeOK, Row
  <1>2. CASE SelectForAgent2(h) \/ SelectForAdmission(h)
    BY <1>1, <1>2
    DEF SelectForAgent2, SelectForAdmission, Goes, Moves, TickFits, PhaseFits,
        Tick, Pcs
  <1>3. CASE SelectForAgent3(h)
    BY <1>1, <1>3 DEF SelectForAgent3, Moves, TickFits, PhaseFits, Tick, Pcs
  <1>4. CASE SeeStaleAgent2(h) \/ SeeStaleAgent3(h)
    BY <1>1, <1>4
    DEF SeeStaleAgent2, SeeStaleAgent3, Moves, TickFits, PhaseFits, Tick, Pcs
  <1>5. CASE MapTask(h)
    BY <1>5, StoreMoves, StageNames
    DEF MapTask, ResultOf, Statuses, Waiting, Answered, Drafted
  <1>6. CASE PromoteDeadLetter(h)
    BY <1>6, StoreMoves, StageNames
    DEF PromoteDeadLetter, ResultOf, Statuses, Waiting, Drafted
  <1>7. CASE MigrateProjectionFailure(h)
    BY <1>1, <1>7 DEF MigrateProjectionFailure, At, Moves, TickFits, PhaseFits
  <1>. QED
    BY <1>2, <1>3, <1>4, <1>5, <1>6, <1>7 DEF Begin

\* The steps of a tick that has begun, and its failures.
LEMMA ContinueMoves ==
    ASSUME TypeOK, TicksFit, NEW h \in Handlers,
           \/ Continue(h) \/ PackRaises(h) \/ DraftRaises(h)
           \/ AdmissionRaises(h) \/ TickDies(h)
    PROVE  Moves(h) /\ TickFits(tick'[h])
  <1>1. /\ tick \in [Handlers -> Tick] /\ tick[h] \in Tick
        /\ row \in Row /\ row.retry \in Nat /\ row.stage \in Stages
        /\ TickFits(tick[h])
    BY DEF TypeOK, Row, TicksFit, TickFits
  <1>2. ASSUME Rests(h) PROVE Moves(h) /\ TickFits(tick'[h])
    <2>1. Idle \in Tick
      BY StageNames, ItemAssumption DEF Idle, Tick, Pcs, Statuses, Waiting
    <2>. QED
      BY <1>1, <1>2, <2>1 DEF Rests, Moves, TickFits, PhaseFits, Idle
  <1>3. ASSUME NEW pc \in Pcs \ {"upsert", "write", "fail2", "retry3", "clear", "reset"},
               Goes(h, pc)
        PROVE  Moves(h) /\ TickFits(tick'[h])
    BY <1>1, <1>3 DEF Goes, Moves, TickFits, PhaseFits, Tick
  <1>4. CASE UpsertReads(h)
    <2>1. tick'[h] = [tick[h] EXCEPT !.pc = "write", !.stage = FurtherOf(tick[h].stage)]
      BY <1>1, <1>4 DEF UpsertReads
    <2>2. /\ tick[h].stage \in Stages /\ tick[h].pc = "upsert"
          /\ ResultFits(tick[h])
      BY <1>1, <1>4 DEF UpsertReads, At, Tick, TickFits
    <2>3. /\ FurtherOf(tick[h].stage) \in Stages
          /\ tick[h].stage \in Drafted => FurtherOf(tick[h].stage) \in Drafted
          /\ tick[h].stage \in Answered => FurtherOf(tick[h].stage) \in Answered
      BY <1>1, <2>2, FurtherFacts
    <2>4. /\ tick'[h].pc = "write" /\ tick'[h].work = tick[h].work
          /\ tick'[h].status = tick[h].status
          /\ tick'[h].stage = FurtherOf(tick[h].stage)
          /\ tick'[h] \in Tick
      BY <1>1, <2>1, <2>3 DEF Tick, Pcs
    <2>5. TickFits(tick'[h])
      BY <2>2, <2>3, <2>4 DEF TickFits, PhaseFits, ResultFits
    <2>. QED BY <1>1, <1>4, <2>4, <2>5 DEF UpsertReads, Moves
  <1>5. CASE UpsertWrites(h) \/ ClearClaim(h) \/ ResetFailures(h)
    <2>1. CASE Rests(h)
      BY <1>2, <2>1
    <2>2. CASE ~Rests(h)
      <3>1. PICK pc \in {"clear", "reset"} :
               /\ Goes(h, pc)
               /\ pc = "clear" => tick[h].work \in {"agent2", "agent3"}
               /\ pc = "reset" => tick[h].work = "agent2"
        BY <1>5, <2>2 DEF UpsertWrites, ClearClaim, ResetFailures
      <3>. QED BY <1>1, <3>1 DEF Goes, Moves, TickFits, PhaseFits, Tick, Pcs
    <2>. QED BY <2>1, <2>2
  <1>6. CASE RejectPack(h) \/ PackRaises(h)
    BY <1>6, StoreMoves, StageNames
    DEF RejectPack, PackRaises, ResultOf, Statuses, Waiting
  <1>7. CASE ClaimForAgent2(h)
    <2>1. CASE ~MayClaimForAgent2
      BY <1>2, <1>7, <2>1 DEF ClaimForAgent2
    <2>2. CASE MayClaimForAgent2
      <3>1. tick'[h] = [tick[h] EXCEPT !.pc = "bind", !.rebinds = MaxRebinds]
        BY <1>1, <1>7, <2>2 DEF ClaimForAgent2
      <3>2. tick'[h].pc = "bind" /\ tick'[h] \in Tick
        <4>1. MaxRebinds \in 0..MaxRebinds
          BY ItemAssumption
        <4>. QED BY <1>1, <3>1, <4>1 DEF Tick, Pcs
      <3>. QED
        BY <1>1, <1>7, <2>2, <3>2 DEF ClaimForAgent2, Moves, TickFits, PhaseFits
    <2>. QED BY <2>1, <2>2
  <1>8. CASE BindInput(h) \/ ClaimForAgent3(h)
    BY <1>2, <1>3, <1>8 DEF BindInput, ClaimForAgent3, Pcs
  <1>9. CASE CallAgain(h)
    <2>1. tick'[h] = [tick[h] EXCEPT !.pc = "bind", !.rebinds = tick[h].rebinds - 1]
      BY <1>1, <1>9 DEF CallAgain
    <2>2. tick[h].rebinds - 1 \in 0..MaxRebinds
      <3>1. tick[h].rebinds \in 0..MaxRebinds /\ tick[h].rebinds > 0 /\ MaxRebinds \in Nat
        BY <1>1, <1>9, ItemAssumption DEF CallAgain, Tick
      <3>. QED BY <3>1
    <2>3. tick'[h].pc = "bind" /\ tick'[h] \in Tick
      BY <1>1, <2>1, <2>2 DEF Tick, Pcs
    <2>. QED
      BY <1>1, <1>9, <2>3 DEF CallAgain, Moves, TickFits, PhaseFits
  <1>10. CASE FinishAgent2(h)
    BY <1>10, StoreMoves, StageNames
    DEF FinishAgent2, ResultOf, Statuses, Waiting, Drafted
  <1>11. CASE FailAgent2(h)
    <2>1. PICK retry \in BOOLEAN :
             /\ retry => row.retry + 1 < Agent2Attempts
             /\ tick' = [tick EXCEPT ![h] = [Idle EXCEPT
                   !.pc = "fail2", !.retry = row.retry + 1,
                   !.stage = IF retry THEN "action_pack_ready" ELSE "agent2_dead_letter",
                   !.status = IF retry THEN "retry" ELSE "failed"]]
      <3>1. PICK eligible \in BOOLEAN :
               tick' = [tick EXCEPT ![h] = [Idle EXCEPT
                   !.pc = "fail2", !.retry = row.retry + 1,
                   !.stage = IF eligible /\ Agent2Retries(row.retry + 1)
                               THEN "action_pack_ready" ELSE "agent2_dead_letter",
                   !.status = IF eligible /\ Agent2Retries(row.retry + 1)
                                THEN "retry" ELSE "failed"]]
        BY <1>11 DEF FailAgent2
      <3>. QED BY <3>1 DEF Agent2Retries
    <2>2. tick'[h] = [pc |-> "fail2", work |-> "none",
                      stage |-> IF retry THEN "action_pack_ready" ELSE "agent2_dead_letter",
                      status |-> IF retry THEN "retry" ELSE "failed",
                      retry |-> row.retry + 1, rebinds |-> 0]
      BY <1>1, <2>1 DEF Idle
    <2>3. tick'[h] \in Tick
      BY <1>1, <2>2, StageNames, ItemAssumption DEF Tick, Pcs, Statuses, Waiting
    <2>4. TickFits(tick'[h])
      BY <2>1, <2>2 DEF TickFits, PhaseFits
    <2>. QED BY <1>1, <2>1, <2>3, <2>4 DEF Moves
  <1>12. CASE ScheduleAgent2Failure(h) \/ ScheduleAgent3Retry(h)
              \/ RecoverAgent2(h) \/ RecoverAgent3(h) \/ TickDies(h)
    BY <1>2, <1>12
    DEF ScheduleAgent2Failure, ScheduleAgent3Retry, RecoverAgent2, RecoverAgent3,
        TickDies
  <1>13. CASE RejectDraft(h) \/ DraftRaises(h)
    BY <1>13, StoreMoves, StageNames
    DEF RejectDraft, DraftRaises, ResultOf, Statuses, Waiting, Drafted
  <1>14. CASE FinishAgent3(h)
    <2>1. CASE ~Owned(h)
      BY <1>2, <1>14, <2>1 DEF FinishAgent3
    <2>2. CASE Owned(h)
      BY <1>14, <2>2, StoreMoves, StageNames
      DEF FinishAgent3, ResultOf, Statuses, Waiting, Answered, Drafted
    <2>. QED BY <2>1, <2>2
  <1>15. CASE FailAgent3(h)
    <2>1. CASE ~Owned(h)
      BY <1>2, <1>15, <2>1 DEF FailAgent3
    <2>2. CASE Owned(h)
      <3>1. tick'[h] = [tick[h] EXCEPT !.pc = "retry3"]
        BY <1>1, <1>15, <2>2 DEF FailAgent3, Goes
      <3>2. /\ tick'[h].pc = "retry3" /\ tick'[h].retry = tick[h].retry
            /\ tick'[h] \in Tick
        BY <1>1, <3>1 DEF Tick, Pcs
      <3>. QED
        BY <1>1, <1>15, <2>2, <3>2 DEF FailAgent3, Goes, Moves, TickFits, PhaseFits
    <2>. QED BY <2>1, <2>2
  <1>16. CASE RefuseDecision(h) \/ AdmissionRaises(h)
    BY <1>16, StoreMoves, StageNames
    DEF RefuseDecision, AdmissionRaises, ResultOf, Statuses, Waiting
  <1>17. CASE LookForEntry(h)
    <2>1. CASE ~Entered
      BY <1>3, <1>17, <2>1 DEF LookForEntry, Pcs
    <2>2. CASE Entered
      BY <1>17, <2>2, StoreMoves, StageNames
      DEF LookForEntry, OutcomeOfExisting, ResultOf, Statuses, Waiting, Drafted
    <2>. QED BY <2>1, <2>2
  <1>18. CASE CreateTask(h)
    BY <1>3, <1>18 DEF CreateTask, Pcs
  <1>19. CASE EnterPool(h)
    BY <1>3, <1>19 DEF EnterPool, Pcs
  <1>20. CASE RecordUsage(h)
    BY <1>20, StoreMoves, StageNames
    DEF RecordUsage, ResultOf, Statuses, Waiting, Drafted
  <1>. QED
    BY <1>4, <1>5, <1>6, <1>7, <1>8, <1>9, <1>10, <1>11, <1>12, <1>13, <1>14,
       <1>15, <1>16, <1>17, <1>18, <1>19, <1>20
    DEF Continue

\* An action of a handler that writes the row.
WritesRow(h) ==
    \/ UpsertWrites(h) \/ ClearClaim(h) \/ ResetFailures(h)
    \/ ClaimForAgent2(h) \/ ScheduleAgent2Failure(h)
    \/ ClaimForAgent3(h) \/ ScheduleAgent3Retry(h)
    \/ RecoverAgent2(h) \/ RecoverAgent3(h)
    \/ MigrateProjectionFailure(h)

\* All others leave it alone.
LEMMA RowKept ==
    ASSUME NEW h \in Handlers, HandlerStep(h), ~WritesRow(h)
    PROVE  row' = row
BY DEF HandlerStep, Begin, Continue, WritesRow, SelectForAgent2, SelectForAgent3,
       MapTask, SelectForAdmission, SeeStaleAgent2, UpsertReads, RejectPack,
       BindInput, CallAgain, FinishAgent2, FailAgent2, RejectDraft, FinishAgent3,
       FailAgent3, RefuseDecision, LookForEntry, CreateTask, EnterPool,
       RecordUsage, SeeStaleAgent3, PromoteDeadLetter, PackRaises, DraftRaises,
       AdmissionRaises, TickDies

\* A row loses its claim and nothing else.
LEMMA UnclaimedFacts ==
    ASSUME row \in Row
    PROVE  /\ Unclaimed(row) \in Row
           /\ Unclaimed(row).stage = row.stage /\ Unclaimed(row).status = row.status
           /\ Unclaimed(row).retry = row.retry /\ Unclaimed(row).claim = None
BY DEF Unclaimed, Row

\* The row stays one, and offers no retry beyond the attempts of its Agent.
LEMMA RowWritten ==
    ASSUME TypeOK, TicksFit, NEW h \in Handlers, WritesRow(h)
    PROVE  row' \in Row /\ AttemptsLeft'
  <1>1. /\ row \in Row /\ AttemptsLeft /\ tick[h] \in Tick /\ TickFits(tick[h])
        /\ Agent2Attempts \in Nat \ {0} /\ Agent3Attempts \in Nat \ {0}
    BY ItemAssumption DEF TypeOK, TicksFit, TickFits
  <1>2. CASE UpsertWrites(h)
    <2>1. row' = [row EXCEPT !.stage = tick[h].stage, !.status = tick[h].status]
      BY <1>2 DEF UpsertWrites
    <2>2. /\ tick[h].stage \in Stages /\ tick[h].status \in Statuses
          /\ ResultFits(tick[h])
      BY <1>1, <1>2 DEF UpsertWrites, At, Tick, TickFits
    <2>3. row' \in Row /\ row'.stage = tick[h].stage /\ row'.status = tick[h].status
      BY <1>1, <2>1, <2>2 DEF Row
    <2>4. /\ row'.status \notin {"running", "retry"}
          /\ row'.status \in Waiting => row'.stage # "action_pack_ready"
      BY <2>2, <2>3 DEF ResultFits, Drafted, Answered
    <2>. QED BY <2>3, <2>4 DEF AttemptsLeft, Waits, RunningInAgent2
  <1>3. CASE ClearClaim(h) \/ ResetFailures(h)
    <2>1. PICK u \in Row : /\ u = Unclaimed(row)
                           /\ u.stage = row.stage /\ u.status = row.status
                           /\ u.retry = row.retry
      BY <1>1, UnclaimedFacts
    <2>2. row' = u \/ row' = [u EXCEPT !.retry = 0]
      BY <1>3, <2>1 DEF ClearClaim, ResetFailures
    <2>3. /\ row' \in Row /\ row'.stage = row.stage /\ row'.status = row.status
          /\ row'.retry = row.retry \/ row'.retry = 0
      BY <2>1, <2>2 DEF Row
    <2>. QED BY <1>1, <2>3 DEF AttemptsLeft, Waits, RunningInAgent2
  <1>4. CASE ClaimForAgent2(h)
    <2>1. CASE ~MayClaimForAgent2
      BY <1>1, <1>4, <2>1 DEF ClaimForAgent2, AttemptsLeft, Waits, RunningInAgent2
    <2>2. CASE MayClaimForAgent2
      <3>1. row' = ClaimedBy(h, "agent2_running") /\ row.retry < Agent2Attempts
        BY <1>1, <1>4, <2>2 DEF ClaimForAgent2, MayClaimForAgent2, AttemptsLeft
      <3>2. /\ row' \in Row /\ row'.stage = "agent2_running"
            /\ row'.status = "running" /\ row'.retry = row.retry
        BY <1>1, <3>1, StageNames DEF ClaimedBy, Row, Statuses
      <3>. QED BY <3>1, <3>2 DEF AttemptsLeft
    <2>. QED BY <2>1, <2>2
  <1>5. CASE ClaimForAgent3(h)
    <2>1. CASE row' = row
      BY <1>1, <2>1 DEF AttemptsLeft, Waits, RunningInAgent2
    <2>2. CASE row' = ClaimedBy(h, "agent3_sop_running")
      <3>1. /\ row' \in Row /\ row'.stage = "agent3_sop_running"
            /\ row'.status = "running"
        BY <1>1, <2>2, StageNames DEF ClaimedBy, Row, Statuses, Drafted
      <3>. QED BY <3>1 DEF AttemptsLeft, Waits, RunningInAgent2
    <2>. QED BY <1>5, <2>1, <2>2 DEF ClaimForAgent3
  <1>6. CASE ScheduleAgent2Failure(h)
    <2>1. /\ row'.stage = tick[h].stage /\ row'.status = tick[h].status
          /\ row'.retry = tick[h].retry /\ row' \in Row
      BY <1>1, <1>6 DEF ScheduleAgent2Failure, Row, Tick
    <2>2. \/ tick[h].stage = "action_pack_ready" /\ tick[h].retry < Agent2Attempts
          \/ tick[h].stage = "agent2_dead_letter"
      BY <1>1, <1>6 DEF ScheduleAgent2Failure, At, TickFits, PhaseFits
    <2>. QED BY <2>1, <2>2 DEF AttemptsLeft, Waits, RunningInAgent2
  <1>7. CASE ScheduleAgent3Retry(h)
    <2>1. CASE row' = row
      BY <1>1, <2>1 DEF AttemptsLeft, Waits, RunningInAgent2
    <2>2. CASE row' # row
      <3>1. /\ row'.stage = "agent2_draft_ready" /\ row'.status = "retry"
            /\ row'.retry = tick[h].retry + 1 /\ row' \in Row
        BY <1>1, <1>7, <2>2, StageNames
        DEF ScheduleAgent3Retry, Row, Tick, Statuses, Waiting, Drafted
      <3>2. tick[h].retry + 1 < Agent3Attempts
        BY <1>1, <1>7 DEF ScheduleAgent3Retry, At, TickFits, PhaseFits
      <3>. QED BY <3>1, <3>2 DEF AttemptsLeft, Waits, RunningInAgent2
    <2>. QED BY <2>1, <2>2
  <1>8. CASE RecoverAgent2(h)
    <2>1. CASE row' = row
      BY <1>1, <2>1 DEF AttemptsLeft, Waits, RunningInAgent2
    <2>2. CASE row' # row
      <3>1. PICK retry \in BOOLEAN :
               /\ retry => tick[h].retry < Agent2Attempts
               /\ row' = [Unclaimed(row) EXCEPT
                            !.retry = tick[h].retry,
                            !.stage = IF retry THEN "action_pack_ready"
                                               ELSE "agent2_dead_letter",
                            !.status = IF retry THEN "retry" ELSE "failed"]
        <4>1. PICK proven \in BOOLEAN :
                 row' = [Unclaimed(row) EXCEPT
                           !.retry = tick[h].retry,
                           !.stage = IF ~proven /\ Agent2Retries(tick[h].retry)
                                       THEN "action_pack_ready" ELSE "agent2_dead_letter",
                           !.status = IF ~proven /\ Agent2Retries(tick[h].retry)
                                        THEN "retry" ELSE "failed"]
          BY <1>8, <2>2 DEF RecoverAgent2
        <4>. QED BY <4>1 DEF Agent2Retries
      <3>2. /\ row'.stage = IF retry THEN "action_pack_ready" ELSE "agent2_dead_letter"
            /\ row'.retry = tick[h].retry /\ row' \in Row
        BY <1>1, <3>1, StageNames DEF Unclaimed, Row, Tick, Statuses, Waiting
      <3>. QED BY <3>1, <3>2 DEF AttemptsLeft, Waits, RunningInAgent2
    <2>. QED BY <2>1, <2>2
  <1>9. CASE RecoverAgent3(h)
    <2>1. CASE row' = row
      BY <1>1, <2>1 DEF AttemptsLeft, Waits, RunningInAgent2
    <2>2. CASE row' # row
      <3>1. PICK u \in Row : u = Unclaimed(row)
        BY <1>1, UnclaimedFacts
      <3>2. PICK retry \in BOOLEAN :
               /\ retry <=> tick[h].retry < Agent3Attempts
               /\ row' = [u EXCEPT
                            !.retry = tick[h].retry,
                            !.stage = IF retry THEN "agent2_draft_ready"
                                               ELSE "agent3_sop_failed",
                            !.status = IF retry THEN "retry" ELSE "failed",
                            !.due = ~retry]
        <4>1. (tick[h].retry >= Agent3Attempts) = ~(tick[h].retry < Agent3Attempts)
          BY <1>1 DEF Tick
        <4>. QED BY <1>9, <2>2, <3>1, <4>1 DEF RecoverAgent3
      <3>3. /\ row'.stage = IF retry THEN "agent2_draft_ready" ELSE "agent3_sop_failed"
            /\ row'.retry = tick[h].retry /\ row' \in Row
        <4>1. {"agent2_draft_ready", "agent3_sop_failed"} \subseteq Stages
          BY StageNames DEF Drafted
        <4>2. {"retry", "failed"} \subseteq Statuses
          BY DEF Statuses, Waiting
        <4>3. tick[h].retry \in Nat
          BY <1>1 DEF Tick
        <4>. QED BY <3>2, <4>1, <4>2, <4>3 DEF Row
      <3>. QED BY <3>2, <3>3 DEF AttemptsLeft, Waits, RunningInAgent2
    <2>. QED BY <2>1, <2>2
  <1>10. CASE MigrateProjectionFailure(h)
    <2>1. /\ row'.stage = "action_pack_ready" /\ row'.retry = 0 /\ row' \in Row
      BY <1>1, <1>10, StageNames
      DEF MigrateProjectionFailure, Unclaimed, Row, Statuses, Waiting
    <2>. QED BY <1>1, <2>1 DEF AttemptsLeft, Waits, RunningInAgent2
  <1>. QED
    BY <1>2, <1>3, <1>4, <1>5, <1>6, <1>7, <1>8, <1>9, <1>10 DEF WritesRow

\* Time touches the lease and the delay of a retry only.
LEMMA TimeFacts ==
    ASSUME TypeOK, TimeStep
    PROVE  /\ row' \in Row
           /\ row'.stage = row.stage /\ row'.status = row.status
           /\ row'.claim = row.claim /\ row'.retry = row.retry
           /\ UNCHANGED <<tick, pool, checks>>
           /\ \/ UNCHANGED trouble
              \/ /\ trouble.slow < MaxSlow
                 /\ trouble' = [trouble EXCEPT !.slow = @ + 1]
  <1>1. row \in Row
    BY DEF TypeOK
  <1>. QED
    BY <1>1 DEF TimeStep, LeaseExpires, HolderIsSlow, BecomesDue, Row

-----------------------------------------------------------------------------
\* What tick and history say after the parts of the handlers' actions.
LEMMA TickFacts ==
    ASSUME TypeOK, NEW h \in Handlers
    PROVE  /\ \A work, stage, status : Stores(h, work, stage, status) =>
                 /\ tick'[h].pc = "upsert" /\ tick'[h].work = work
                 /\ tick'[h].stage = stage /\ tick'[h].status = status
           /\ \A pc : Goes(h, pc) => /\ tick'[h].pc = pc
                                     /\ tick'[h].work = tick[h].work
                                     /\ tick'[h].stage = tick[h].stage
                                     /\ tick'[h].status = tick[h].status
           /\ Rests(h) => tick'[h].pc = "idle" /\ tick'[h].work = "none"
           /\ tick[h] \in Tick /\ tick \in [Handlers -> Tick]
  <1>1. tick[h] \in Tick /\ tick \in [Handlers -> Tick]
    BY DEF TypeOK
  <1>2. ASSUME NEW work, NEW stage, NEW status, Stores(h, work, stage, status)
        PROVE  /\ tick'[h].pc = "upsert" /\ tick'[h].work = work
               /\ tick'[h].stage = stage /\ tick'[h].status = status
    BY <1>1, <1>2 DEF Stores, Idle
  <1>3. ASSUME NEW pc, Goes(h, pc)
        PROVE  /\ tick'[h].pc = pc
               /\ tick'[h].work = tick[h].work
               /\ tick'[h].stage = tick[h].stage
               /\ tick'[h].status = tick[h].status
    BY <1>1, <1>3 DEF Goes, Tick
  <1>4. Rests(h) => tick'[h].pc = "idle" /\ tick'[h].work = "none"
    BY <1>1 DEF Rests, Idle
  <1>. QED BY <1>1, <1>2, <1>3, <1>4

Trouble == [slow: 0..MaxSlow, deaths: 0..MaxDeaths, failures: 0..MaxFailures,
            promoted: BOOLEAN, robbed: BOOLEAN]

\* Whether the row is robbed is the only thing a recovery adds to the history.
LEMMA RobsFacts ==
    ASSUME TypeOK, Robs
    PROVE  /\ trouble'.slow = trouble.slow /\ trouble'.deaths = trouble.deaths
           /\ trouble'.failures = trouble.failures
           /\ trouble'.promoted = trouble.promoted
           /\ trouble'.robbed \in BOOLEAN
           /\ ~trouble'.robbed => ~trouble.robbed /\ (row' = row \/ ~HolderBusy)
           /\ trouble' \in Trouble
  <1>1. trouble \in Trouble
    BY DEF TypeOK, Trouble
  <1>2. PICK b \in BOOLEAN : /\ b <=> trouble.robbed \/ (row' # row /\ HolderBusy)
                             /\ trouble' = [trouble EXCEPT !.robbed = b]
    <2>1. (trouble.robbed \/ (row' # row /\ HolderBusy)) \in BOOLEAN
      BY <1>1 DEF Trouble
    <2>. QED BY <2>1 DEF Robs
  <1>. QED BY <1>1, <1>2 DEF Trouble

AdmissionStep(h) ==
    \/ LookForEntry(h) \/ CreateTask(h) \/ EnterPool(h)
    \/ PackRaises(h) \/ DraftRaises(h) \/ AdmissionRaises(h) \/ TickDies(h)

\* What is no step of the admission neither makes a task nor is about to.
LEMMA OutsideAdmission ==
    ASSUME TypeOK, NEW h \in Handlers, HandlerStep(h), ~AdmissionStep(h)
    PROVE  /\ pool' = pool
           /\ tick[h].pc \notin {"create", "enter"}
           /\ tick'[h].pc \notin {"create", "enter", "record"}
           /\ trouble'.deaths = trouble.deaths
           /\ trouble'.failures = trouble.failures
           /\ trouble' \in Trouble
  <1>0. trouble \in Trouble
    BY DEF TypeOK, Trouble
  <1>1. CASE \/ RejectPack(h) \/ FinishAgent2(h) \/ RejectDraft(h) \/ MapTask(h)
             \/ RefuseDecision(h) \/ RecordUsage(h)
    <2>1. /\ \E work, stage, status : Stores(h, work, stage, status)
          /\ UNCHANGED <<pool, trouble>>
          /\ tick[h].pc \in {"idle", "prepare2", "prepare3", "call2", "admit", "record"}
      BY <1>1
      DEF RejectPack, FinishAgent2, RejectDraft, MapTask, RefuseDecision, RecordUsage, At
    <2>. QED BY <1>0, <2>1, TickFacts
  <1>2. CASE PromoteDeadLetter(h)
    <2>1. trouble'.deaths = trouble.deaths /\ trouble'.failures = trouble.failures
          /\ trouble' \in Trouble
      BY <1>0, <1>2 DEF PromoteDeadLetter, Trouble
    <2>. QED BY <1>2, <2>1, TickFacts DEF PromoteDeadLetter, At
  <1>8. CASE FinishAgent3(h)
    <2>1. /\ Rests(h) \/ \E work, stage, status : Stores(h, work, stage, status)
          /\ UNCHANGED <<pool, trouble>>
          /\ tick[h].pc = "call3"
      BY <1>8 DEF FinishAgent3, At
    <2>. QED BY <1>0, <2>1, TickFacts
  <1>3. CASE \/ SelectForAgent2(h) \/ SelectForAdmission(h) \/ BindInput(h)
             \/ UpsertWrites(h) \/ ClearClaim(h) \/ ResetFailures(h)
             \/ ScheduleAgent2Failure(h) \/ ClaimForAgent3(h) \/ FailAgent3(h)
             \/ ScheduleAgent3Retry(h) \/ MigrateProjectionFailure(h)
    BY <1>0, <1>3, TickFacts
    DEF SelectForAgent2, SelectForAdmission, BindInput, UpsertWrites, ClearClaim,
        ResetFailures, ScheduleAgent2Failure, ClaimForAgent3, FailAgent3,
        ScheduleAgent3Retry, MigrateProjectionFailure, At, Idle
  <1>4. CASE \/ SelectForAgent3(h) \/ SeeStaleAgent2(h) \/ SeeStaleAgent3(h)
    BY <1>0, <1>4, TickFacts DEF SelectForAgent3, SeeStaleAgent2, SeeStaleAgent3, At, Tick
  <1>5. CASE UpsertReads(h) \/ ClaimForAgent2(h) \/ CallAgain(h)
    BY <1>0, <1>5, TickFacts DEF UpsertReads, ClaimForAgent2, CallAgain, At, Idle, Tick
  <1>6. CASE FailAgent2(h)
    BY <1>0, <1>6, TickFacts DEF FailAgent2, At, Idle
  <1>7. CASE RecoverAgent2(h) \/ RecoverAgent3(h)
    <2>1. /\ Rests(h) /\ Robs /\ pool' = pool
          /\ tick[h].pc \in {"recover2", "recover3"}
      BY <1>7 DEF RecoverAgent2, RecoverAgent3, At
    <2>. QED BY <2>1, TickFacts, RobsFacts
  <1>. QED
    BY <1>1, <1>2, <1>3, <1>4, <1>5, <1>6, <1>7, <1>8
    DEF HandlerStep, Begin, Continue, AdmissionStep

-----------------------------------------------------------------------------
\* Two sets of handlers that differ at most in one.
LEMMA OneHandler ==
    ASSUME NEW h \in Handlers, NEW S \in SUBSET Handlers, NEW T \in SUBSET Handlers,
           S \ {h} = T \ {h}
    PROVE  /\ Cardinality(S) \in Nat /\ Cardinality(T) \in Nat
           /\ Cardinality(Handlers) \in Nat
           /\ Cardinality(T) <= Cardinality(Handlers)
           /\ Cardinality(T) = IF h \in S /\ h \notin T THEN Cardinality(S) - 1
                               ELSE IF h \notin S /\ h \in T THEN Cardinality(S) + 1
                               ELSE Cardinality(S)
  <1>1. IsFiniteSet(Handlers) /\ IsFiniteSet(S) /\ IsFiniteSet(T)
    BY ItemAssumption, FS_Subset
  <1>2. /\ Cardinality(S) \in Nat /\ Cardinality(T) \in Nat
        /\ Cardinality(Handlers) \in Nat
        /\ Cardinality(T) <= Cardinality(Handlers)
    BY <1>1, FS_CardinalityType, FS_Subset
  <1>3. CASE h \in S /\ h \notin T
    BY <1>1, <1>2, <1>3, FS_RemoveElement, T = S \ {h}
  <1>4. CASE h \notin S /\ h \in T
    BY <1>1, <1>2, <1>4, FS_AddElement, T = S \cup {h}
  <1>5. CASE h \in S <=> h \in T
    BY <1>2, <1>5, S = T
  <1>. QED BY <1>2, <1>3, <1>4, <1>5

PoolType == pool \in [tasks: Nat, entries: Nat]

\* The accounts of the pool stay right, and the history in its bounds.
LEMMA PoolStep ==
    ASSUME TypeOK, PoolCounts, NEW h \in Handlers, HandlerStep(h), Moves(h)
    PROVE  /\ PoolType' /\ PoolCounts' /\ trouble' \in Trouble
           /\ pool'.entries >= pool.entries
  <1>1. /\ trouble \in Trouble
        /\ pool.tasks \in Nat /\ pool.entries \in Nat
        /\ trouble.deaths \in Nat /\ trouble.failures \in Nat
        /\ pool \in [tasks: Nat, entries: Nat]
    BY ItemAssumption DEF TypeOK, Trouble
  <1>2. /\ Creating \in SUBSET Handlers /\ Creating' \in SUBSET Handlers
        /\ Entering \in SUBSET Handlers /\ Entering' \in SUBSET Handlers
        /\ Creating \ {h} = Creating' \ {h} /\ Entering \ {h} = Entering' \ {h}
        /\ h \in Creating <=> tick[h].pc \in {"create", "enter"}
        /\ h \in Creating' <=> tick'[h].pc \in {"create", "enter"}
        /\ h \in Entering <=> tick[h].pc = "enter"
        /\ h \in Entering' <=> tick'[h].pc = "enter"
    BY DEF Creating, Entering, Moves, At
  <1>3. PICK c \in Nat, d \in Nat, e \in Nat, f \in Nat, n \in Nat :
           /\ c = Cardinality(Creating) /\ d = Cardinality(Creating')
           /\ e = Cardinality(Entering) /\ f = Cardinality(Entering')
           /\ n = Cardinality(Handlers)
           /\ d <= n
           /\ d = IF h \in Creating /\ h \notin Creating' THEN c - 1
                  ELSE IF h \notin Creating /\ h \in Creating' THEN c + 1 ELSE c
           /\ f = IF h \in Entering /\ h \notin Entering' THEN e - 1
                  ELSE IF h \notin Entering /\ h \in Entering' THEN e + 1 ELSE e
    <2>1. /\ Cardinality(Creating) \in Nat /\ Cardinality(Creating') \in Nat
          /\ Cardinality(Handlers) \in Nat
          /\ Cardinality(Creating') <= Cardinality(Handlers)
          /\ Cardinality(Creating') =
                IF h \in Creating /\ h \notin Creating' THEN Cardinality(Creating) - 1
                ELSE IF h \notin Creating /\ h \in Creating' THEN Cardinality(Creating) + 1
                ELSE Cardinality(Creating)
      BY <1>2, OneHandler
    <2>2. /\ Cardinality(Entering) \in Nat /\ Cardinality(Entering') \in Nat
          /\ Cardinality(Entering') =
                IF h \in Entering /\ h \notin Entering' THEN Cardinality(Entering) - 1
                ELSE IF h \notin Entering /\ h \in Entering' THEN Cardinality(Entering) + 1
                ELSE Cardinality(Entering)
      BY <1>2, OneHandler
    <2>. QED BY <2>1, <2>2
  <1>4. /\ pool.entries + c <= n
        /\ pool.tasks <= pool.entries + trouble.deaths + trouble.failures + e
    BY <1>3 DEF PoolCounts
  <1>5. SUFFICES /\ PoolType' /\ trouble' \in Trouble
                 /\ pool'.entries >= pool.entries
                 /\ pool'.entries + d <= n
                 /\ pool'.tasks <= pool'.entries + trouble'.deaths
                                   + trouble'.failures + f
    BY <1>3 DEF PoolCounts
  <1>6. CASE ~AdmissionStep(h)
    <2>1. /\ pool' = pool /\ trouble'.deaths = trouble.deaths
          /\ trouble'.failures = trouble.failures /\ trouble' \in Trouble
          /\ h \notin Creating /\ h \notin Creating'
          /\ h \notin Entering /\ h \notin Entering'
      BY <1>2, <1>6, OutsideAdmission
    <2>. QED BY <1>1, <1>3, <1>4, <2>1 DEF PoolType
  <1>7. CASE LookForEntry(h)
    <2>1. /\ pool' = pool /\ trouble' = trouble
          /\ tick[h].pc = "admit"
          /\ tick'[h].pc \in {"upsert", "create"}
          /\ tick'[h].pc = "create" => pool.entries = 0
      BY <1>1, <1>7, TickFacts DEF LookForEntry, Entered, At
    <2>. QED BY <1>1, <1>2, <1>3, <1>4, <2>1 DEF PoolType
  <1>8. CASE CreateTask(h)
    <2>1. /\ pool'.tasks = pool.tasks + 1 /\ pool'.entries = pool.entries
          /\ pool' \in [tasks: Nat, entries: Nat]
          /\ trouble' = trouble
          /\ tick[h].pc = "create" /\ tick'[h].pc = "enter"
      BY <1>1, <1>8, TickFacts DEF CreateTask, At
    <2>. QED BY <1>1, <1>2, <1>3, <1>4, <2>1 DEF PoolType
  <1>9. CASE EnterPool(h)
    <2>1. /\ pool'.tasks = pool.tasks /\ pool'.entries = pool.entries + 1
          /\ pool' \in [tasks: Nat, entries: Nat]
          /\ trouble' = trouble
          /\ tick[h].pc = "enter" /\ tick'[h].pc = "record"
      BY <1>1, <1>9, TickFacts DEF EnterPool, At
    <2>. QED BY <1>1, <1>2, <1>3, <1>4, <2>1 DEF PoolType
  <1>10. CASE PackRaises(h) \/ DraftRaises(h) \/ AdmissionRaises(h) \/ TickDies(h)
    <2>1. \/ /\ trouble'.failures = trouble.failures + 1
             /\ trouble'.deaths = trouble.deaths
          \/ /\ trouble'.deaths = trouble.deaths + 1
             /\ trouble'.failures = trouble.failures
      BY <1>1, <1>10 DEF PackRaises, DraftRaises, AdmissionRaises, Raises, TickDies, Trouble
    <2>2. trouble' \in Trouble
      BY <1>1, <1>10, ItemAssumption
      DEF PackRaises, DraftRaises, AdmissionRaises, Raises, TickDies, Trouble
    <2>3. pool' = pool /\ tick'[h].pc \in {"idle", "upsert"}
      BY <1>1, <1>10, TickFacts DEF PackRaises, DraftRaises, AdmissionRaises, TickDies
    <2>. QED BY <1>1, <1>2, <1>3, <1>4, <2>1, <2>2, <2>3 DEF PoolType
  <1>. QED BY <1>6, <1>7, <1>8, <1>9, <1>10 DEF AdmissionStep

-----------------------------------------------------------------------------
\* What the actions make of stage, status and claim.
LEMMA RowFacts ==
    ASSUME TypeOK, NEW h \in Handlers
    PROVE  /\ UpsertWrites(h) => /\ row'.stage = tick[h].stage
                                 /\ row'.status = tick[h].status
                                 /\ row'.claim = row.claim
           /\ ClearClaim(h) \/ ResetFailures(h) =>
                 /\ row'.stage = row.stage /\ row'.status = row.status
                 /\ row'.claim = None
           /\ ClaimForAgent2(h) /\ MayClaimForAgent2 =>
                 /\ row'.stage = "agent2_running" /\ row'.status = "running"
                 /\ row'.claim = h
           /\ ClaimForAgent3(h) /\ row' # row =>
                 /\ row'.stage = "agent3_sop_running" /\ row'.status = "running"
                 /\ row'.claim = h
           /\ ScheduleAgent2Failure(h) => /\ row'.stage = tick[h].stage
                                          /\ row'.status = tick[h].status
                                          /\ row'.claim = None
           /\ ScheduleAgent3Retry(h) /\ row' # row =>
                 /\ row.claim = h
                 /\ row'.stage = "agent2_draft_ready" /\ row'.status = "retry"
                 /\ row'.claim = None
           /\ RecoverAgent2(h) /\ row' # row =>
                 /\ RunningInAgent2
                 /\ <<row'.stage, row'.status>> \in {<<"action_pack_ready", "retry">>,
                                                     <<"agent2_dead_letter", "failed">>}
           /\ RecoverAgent3(h) /\ row' # row =>
                 /\ RunningInAgent3
                 /\ <<row'.stage, row'.status>> \in {<<"agent2_draft_ready", "retry">>,
                                                     <<"agent3_sop_failed", "failed">>}
           /\ MigrateProjectionFailure(h) => /\ row'.stage = "action_pack_ready"
                                             /\ row'.status = "retry"
  <1>1. row \in Row /\ tick[h] \in Tick
    BY DEF TypeOK
  <1>2. PICK u \in Row : /\ u = Unclaimed(row) /\ u.stage = row.stage
                         /\ u.status = row.status /\ u.claim = None
    BY <1>1, UnclaimedFacts
  <1>3. ASSUME UpsertWrites(h)
        PROVE  /\ row'.stage = tick[h].stage /\ row'.status = tick[h].status
               /\ row'.claim = row.claim
    BY <1>1, <1>3 DEF UpsertWrites, Row
  <1>4. ASSUME ClearClaim(h) \/ ResetFailures(h)
        PROVE  /\ row'.stage = row.stage /\ row'.status = row.status
               /\ row'.claim = None
    BY <1>2, <1>4 DEF ClearClaim, ResetFailures, Row
  <1>5. ASSUME ClaimForAgent2(h), MayClaimForAgent2
        PROVE  /\ row'.stage = "agent2_running" /\ row'.status = "running"
               /\ row'.claim = h
    BY <1>1, <1>5 DEF ClaimForAgent2, ClaimedBy, Row
  <1>6. ASSUME ClaimForAgent3(h), row' # row
        PROVE  /\ row'.stage = "agent3_sop_running" /\ row'.status = "running"
               /\ row'.claim = h
    <2>1. row' = ClaimedBy(h, "agent3_sop_running")
      BY <1>6 DEF ClaimForAgent3
    <2>. QED BY <1>1, <2>1 DEF ClaimedBy, Row
  <1>7. ASSUME ScheduleAgent2Failure(h)
        PROVE  /\ row'.stage = tick[h].stage /\ row'.status = tick[h].status
               /\ row'.claim = None
    BY <1>7 DEF ScheduleAgent2Failure
  <1>8. ASSUME ScheduleAgent3Retry(h), row' # row
        PROVE  /\ row.claim = h
               /\ row'.stage = "agent2_draft_ready" /\ row'.status = "retry"
               /\ row'.claim = None
    BY <1>8 DEF ScheduleAgent3Retry
  <1>9. ASSUME RecoverAgent2(h), row' # row
        PROVE  /\ RunningInAgent2
               /\ <<row'.stage, row'.status>> \in {<<"action_pack_ready", "retry">>,
                                                   <<"agent2_dead_letter", "failed">>}
    <2>1. PICK retry \in BOOLEAN :
             row' = [u EXCEPT !.retry = tick[h].retry,
                              !.stage = IF retry THEN "action_pack_ready"
                                                 ELSE "agent2_dead_letter",
                              !.status = IF retry THEN "retry" ELSE "failed"]
      <3>1. PICK proven \in BOOLEAN :
               row' = [u EXCEPT
                         !.retry = tick[h].retry,
                         !.stage = IF ~proven /\ Agent2Retries(tick[h].retry)
                                     THEN "action_pack_ready" ELSE "agent2_dead_letter",
                         !.status = IF ~proven /\ Agent2Retries(tick[h].retry)
                                      THEN "retry" ELSE "failed"]
        BY <1>2, <1>9 DEF RecoverAgent2
      <3>. QED BY <3>1 DEF Agent2Retries
    <2>2. RunningInAgent2
      BY <1>9 DEF RecoverAgent2
    <2>. QED BY <2>1, <2>2 DEF Row
  <1>10. ASSUME RecoverAgent3(h), row' # row
         PROVE  /\ RunningInAgent3
                /\ <<row'.stage, row'.status>> \in {<<"agent2_draft_ready", "retry">>,
                                                    <<"agent3_sop_failed", "failed">>}
    <2>1. PICK retry \in BOOLEAN, due \in BOOLEAN :
             row' = [u EXCEPT !.retry = tick[h].retry,
                              !.stage = IF retry THEN "agent2_draft_ready"
                                                 ELSE "agent3_sop_failed",
                              !.status = IF retry THEN "retry" ELSE "failed",
                              !.due = due]
      <3>1. (tick[h].retry >= Agent3Attempts) \in BOOLEAN
            /\ (tick[h].retry < Agent3Attempts) \in BOOLEAN
        OBVIOUS
      <3>. QED BY <1>2, <1>10, <3>1 DEF RecoverAgent3
    <2>2. RunningInAgent3
      BY <1>10 DEF RecoverAgent3
    <2>. QED BY <2>1, <2>2 DEF Row
  <1>11. ASSUME MigrateProjectionFailure(h)
         PROVE  row'.stage = "action_pack_ready" /\ row'.status = "retry"
    BY <1>2, <1>11 DEF MigrateProjectionFailure, Row
  <1>. QED
    BY <1>3, <1>4, <1>5, <1>6, <1>7, <1>8, <1>9, <1>10, <1>11

\* Where a result comes from that a handler is about to store.
LEMMA ResultsAreStored ==
    ASSUME TypeOK, NEW h \in Handlers, HandlerStep(h),
           tick'[h].pc \in {"upsert", "write"}
    PROVE  \/ UpsertReads(h) \/ LookForEntry(h) \/ RecordUsage(h)
           \/ \E work, stage, status : /\ Stores(h, work, stage, status)
                                       /\ stage # "task_admitted"
  <1>1. CASE \/ RejectPack(h) \/ FinishAgent2(h) \/ RejectDraft(h) \/ MapTask(h)
             \/ RefuseDecision(h) \/ PromoteDeadLetter(h) \/ PackRaises(h)
             \/ DraftRaises(h) \/ AdmissionRaises(h)
    BY <1>1
    DEF RejectPack, FinishAgent2, RejectDraft, MapTask, RefuseDecision,
        PromoteDeadLetter, PackRaises, DraftRaises, AdmissionRaises
  <1>2. CASE FinishAgent3(h)
    <2>1. \/ Rests(h)
          \/ \E work, stage, status : /\ Stores(h, work, stage, status)
                                      /\ stage # "task_admitted"
      BY <1>2 DEF FinishAgent3
    <2>. QED BY <2>1, TickFacts
  <1>3. CASE \/ SelectForAgent2(h) \/ SelectForAdmission(h) \/ BindInput(h)
             \/ UpsertWrites(h) \/ ClearClaim(h) \/ ResetFailures(h)
             \/ ScheduleAgent2Failure(h) \/ ClaimForAgent3(h) \/ FailAgent3(h)
             \/ ScheduleAgent3Retry(h) \/ CreateTask(h) \/ EnterPool(h) \/ TickDies(h)
             \/ RecoverAgent2(h) \/ RecoverAgent3(h)
    <2>1. Rests(h) \/ \E pc \in Pcs \ {"upsert", "write"} : Goes(h, pc)
      BY <1>3
      DEF SelectForAgent2, SelectForAdmission, BindInput, UpsertWrites, ClearClaim,
          ResetFailures, ScheduleAgent2Failure, ClaimForAgent3, FailAgent3,
          ScheduleAgent3Retry, CreateTask, EnterPool, TickDies, RecoverAgent2,
          RecoverAgent3, Pcs
    <2>. QED BY <2>1, TickFacts
  <1>4. CASE \/ SelectForAgent3(h) \/ SeeStaleAgent2(h) \/ SeeStaleAgent3(h)
             \/ MigrateProjectionFailure(h)
    BY <1>4, TickFacts
    DEF SelectForAgent3, SeeStaleAgent2, SeeStaleAgent3, MigrateProjectionFailure,
        At, Tick
  <1>5. CASE ClaimForAgent2(h) \/ CallAgain(h)
    BY <1>5, TickFacts DEF ClaimForAgent2, CallAgain, Tick
  <1>6. CASE FailAgent2(h)
    BY <1>6, TickFacts DEF FailAgent2, Idle
  <1>. QED
    BY <1>1, <1>2, <1>3, <1>4, <1>5, <1>6 DEF HandlerStep, Begin, Continue

\* A row or a result at task_admitted stays backed by an entry.
LEMMA AdmittedStep ==
    ASSUME TypeOK, AdmittedIsEntered, NEW h \in Handlers, HandlerStep(h), Moves(h),
           PhaseFits(tick[h]), pool'.entries >= pool.entries, PoolType'
    PROVE  AdmittedIsEntered'
  <1>1. /\ pool.entries \in Nat /\ pool'.entries \in Nat
        /\ row \in Row /\ tick[h] \in Tick
    BY DEF TypeOK, PoolType
  <1>2. ASSUME row'.stage = "task_admitted" PROVE pool'.entries > 0
    <2>1. row'.stage = row.stage \/ (tick[h].pc = "write" /\ row'.stage = tick[h].stage)
      <3>1. CASE ~WritesRow(h) \/ row' = row
        BY <3>1, RowKept
      <3>2. CASE ScheduleAgent2Failure(h)
        BY <1>2, <3>2, RowFacts DEF ScheduleAgent2Failure, At, PhaseFits
      <3>3. CASE ClaimForAgent2(h)
        BY <1>2, <3>3, RowFacts DEF ClaimForAgent2
      <3>. QED BY <1>2, <3>1, <3>2, <3>3, RowFacts DEF WritesRow, UpsertWrites, At
    <2>. QED BY <1>1, <1>2, <2>1 DEF AdmittedIsEntered
  <1>3. ASSUME tick'[h].pc \in {"upsert", "write"}, tick'[h].stage = "task_admitted"
        PROVE  pool'.entries > 0
    <2>1. CASE UpsertReads(h)
      <3>1. /\ tick'[h].stage = FurtherOf(tick[h].stage) /\ tick[h].pc = "upsert"
            /\ UNCHANGED <<row, pool>>
        BY <2>1, TickFacts DEF UpsertReads, At, Tick
      <3>2. FurtherOf(tick[h].stage) \in {tick[h].stage, row.stage}
        BY DEF FurtherOf
      <3>. QED BY <1>1, <1>3, <3>1, <3>2 DEF AdmittedIsEntered
    <2>2. CASE LookForEntry(h)
      BY <1>1, <1>3, <2>2, TickFacts DEF LookForEntry, Entered
    <2>3. CASE RecordUsage(h)
      BY <1>1, <2>3 DEF RecordUsage, At, AdmittedIsEntered
    <2>4. CASE ~UpsertReads(h) /\ ~LookForEntry(h) /\ ~RecordUsage(h)
      <3>1. \E work, stage, status : /\ Stores(h, work, stage, status)
                                     /\ stage # "task_admitted"
        BY <1>3, <2>4, ResultsAreStored
      <3>. QED BY <1>3, <3>1, TickFacts
    <2>. QED BY <2>1, <2>2, <2>3, <2>4
  <1>4. ASSUME tick'[h].pc = "record" PROVE pool'.entries > 0
    <2>1. CASE EnterPool(h)
      BY <1>1, <2>1 DEF EnterPool, TypeOK
    <2>2. CASE ~EnterPool(h)
      <3>1. AdmissionStep(h)
        BY <1>4, OutsideAdmission
      <3>. QED
        BY <1>4, <2>2, <3>1, TickFacts
        DEF AdmissionStep, LookForEntry, CreateTask, PackRaises, DraftRaises,
            AdmissionRaises, TickDies
    <2>. QED BY <2>1, <2>2
  <1>. QED BY <1>1, <1>2, <1>3, <1>4 DEF AdmittedIsEntered, Moves

-----------------------------------------------------------------------------
\* What the deterministic checks say of an item is fixed.
LEMMA ChecksKept ==
    ASSUME NEW h \in Handlers, HandlerStep(h)
    PROVE  checks' = checks
BY DEF HandlerStep, Begin, Continue, SelectForAgent2, SelectForAgent3, MapTask,
       SelectForAdmission, SeeStaleAgent2, MigrateProjectionFailure, UpsertReads,
       UpsertWrites, ClearClaim, ResetFailures, RejectPack, ClaimForAgent2,
       BindInput, CallAgain, FinishAgent2, FailAgent2, ScheduleAgent2Failure,
       RejectDraft, ClaimForAgent3, FinishAgent3, FailAgent3, ScheduleAgent3Retry,
       RefuseDecision, LookForEntry, CreateTask, EnterPool, RecordUsage,
       RecoverAgent2, RecoverAgent3, SeeStaleAgent3, PromoteDeadLetter, PackRaises,
       DraftRaises, AdmissionRaises, TickDies

\* A bad pack is never claimed: its row is rejected, and at most migrated back.
LEMMA BadPackStep ==
    ASSUME TypeOK, BadPackIsRejected, NEW h \in Handlers, HandlerStep(h), Moves(h)
    PROVE  BadPackIsRejected'
  <1>1. SUFFICES ASSUME checks \in BadPacks
                 PROVE  /\ row'.stage \in BadPackStages
                        /\ row'.status \in Waiting \cup {"failed"}
                        /\ tick'[h].pc \in {"idle", "prepare2", "upsert", "write", "clear"}
                        /\ tick'[h].pc \in {"upsert", "write", "clear"} =>
                              tick'[h].work = "agent2" /\ tick'[h].status = "failed"
                        /\ tick'[h].pc \in {"upsert", "write"} =>
                              tick'[h].stage \in BadPackStages
    BY ChecksKept DEF BadPackIsRejected, Moves
  <1>2. /\ row.stage \in BadPackStages
        /\ row.status \in Waiting \cup {"failed"}
        /\ tick[h].pc \in {"idle", "prepare2", "upsert", "write", "clear"}
        /\ tick[h].pc \in {"upsert", "write", "clear"} =>
              tick[h].work = "agent2" /\ tick[h].status = "failed"
        /\ tick[h].pc \in {"upsert", "write"} => tick[h].stage \in BadPackStages
        /\ row \in Row /\ tick[h] \in Tick
    BY <1>1 DEF BadPackIsRejected, TypeOK
  <1>3. CASE SelectForAgent2(h) \/ TickDies(h)
    BY <1>2, <1>3, TickFacts DEF SelectForAgent2, TickDies
  <1>4. CASE RejectPack(h) \/ PackRaises(h)
    BY <1>2, <1>4, TickFacts DEF RejectPack, PackRaises, BadPackStages
  <1>5. CASE UpsertReads(h)
    <2>1. /\ tick'[h].stage = FurtherOf(tick[h].stage)
          /\ tick'[h].work = tick[h].work /\ tick'[h].status = tick[h].status
          /\ tick'[h].pc = "write" /\ tick[h].pc = "upsert" /\ row' = row
      BY <1>5, TickFacts DEF UpsertReads, At, Tick
    <2>2. FurtherOf(tick[h].stage) \in {tick[h].stage, row.stage}
      BY DEF FurtherOf
    <2>. QED BY <1>2, <2>1, <2>2
  <1>6. CASE UpsertWrites(h)
    BY <1>2, <1>6, RowFacts, TickFacts DEF UpsertWrites, At
  <1>7. CASE ClearClaim(h)
    BY <1>2, <1>7, RowFacts, TickFacts DEF ClearClaim, At
  <1>8. CASE MigrateProjectionFailure(h)
    BY <1>2, <1>8, RowFacts
    DEF MigrateProjectionFailure, At, BadPackStages, Waiting
  <1>9. ~\/ SelectForAgent3(h) \/ MapTask(h) \/ SelectForAdmission(h)
         \/ SeeStaleAgent2(h) \/ SeeStaleAgent3(h) \/ PromoteDeadLetter(h)
    BY <1>2
    DEF SelectForAgent3, MapTask, SelectForAdmission, SeeStaleAgent2, SeeStaleAgent3,
        PromoteDeadLetter, Waits, RunningInAgent2, RunningInAgent3, BadPackStages
  <1>10. ~\/ ClaimForAgent2(h) \/ BindInput(h) \/ CallAgain(h) \/ FinishAgent2(h)
          \/ FailAgent2(h) \/ ScheduleAgent2Failure(h) \/ ResetFailures(h)
    BY <1>1, <1>2
    DEF ClaimForAgent2, BindInput, CallAgain, FinishAgent2, FailAgent2,
        ScheduleAgent2Failure, ResetFailures, At
  <1>11. ~\/ RejectDraft(h) \/ DraftRaises(h) \/ ClaimForAgent3(h)
          \/ FinishAgent3(h) \/ FailAgent3(h) \/ ScheduleAgent3Retry(h) \/ RecoverAgent2(h) \/ RecoverAgent3(h)
    BY <1>2
    DEF RejectDraft, DraftRaises, ClaimForAgent3, FinishAgent3, FailAgent3,
        ScheduleAgent3Retry, RecoverAgent2, RecoverAgent3, At
  <1>12. ~\/ RefuseDecision(h) \/ LookForEntry(h) \/ CreateTask(h) \/ EnterPool(h)
          \/ RecordUsage(h) \/ AdmissionRaises(h)
    BY <1>2
    DEF RefuseDecision, LookForEntry, CreateTask, EnterPool, RecordUsage,
        AdmissionRaises, At
  <1>. QED
    BY <1>3, <1>4, <1>5, <1>6, <1>7, <1>8, <1>9, <1>10, <1>11, <1>12
    DEF HandlerStep, Begin, Continue

-----------------------------------------------------------------------------
(* Kinds of step, as far as whose turn it is goes.                         *)

\* The row stays where it is, and h as it was or without it.
Stays(h) ==
    /\ Place' = Place /\ row'.claim \in {row.claim, None}
    /\ Role(h)' \in {Role(h), "none"}

\* A handler claims the row that waits for an Agent.
Takes(h) ==
    /\ row'.claim = h
    /\ \/ Place = "for2" /\ Place' = "with2" /\ Role(h)' = "with2"
       \/ Place = "for3" /\ Place' = "with3" /\ Role(h)' = "with3"

\* A handler that had the row offers it to an Agent, or whoever it is carries it
\* off to where it is offered to none.
LetsGo(h) ==
    /\ Role(h)' = "none"
    /\ Place' = "other" \/ (Role(h) # "none" /\ Place' \in {"for2", "for3"})

\* Nobody who has the row works on it.
NotBusy == \A g \in IF row.claim = None THEN Handlers ELSE {row.claim} : Role(g) # Place

Recovers(h) ==
    /\ Role(h)' = "none" /\ NotBusy
    /\ Place \in {"with2", "with3"} /\ Place' \in {"for2", "for3", "other"}

CallStep(h) == Stays(h) \/ Takes(h) \/ LetsGo(h) \/ Recovers(h)

\* None of them gives an Agent's call to a second handler.
LEMMA CallsKept ==
    ASSUME CallsFit, Untroubled, checks \notin BadPacks,
           NEW h \in Handlers, CallStep(h), None \notin Handlers,
           \A g \in Handlers \ {h} : Role(g)' = Role(g)
    PROVE  CallsFit'
  <1>1. /\ \A g \in Handlers : Fits(g)
        /\ \A f, g \in Handlers : Role(f) # "none" /\ Role(g) # "none" => f = g
        /\ \A g \in Handlers : Role(g) \in {"none", "with2", "with3"}
    BY DEF CallsFit, Role, RoleOf
  <1>. SUFFICES /\ \A g \in Handlers : Fits(g)'
                /\ \A f, g \in Handlers :
                      Role(f)' # "none" /\ Role(g)' # "none" => f = g
    BY DEF CallsFit
  <1>2. CASE Stays(h)
    BY <1>1, <1>2 DEF Stays, Fits
  <1>3. CASE Takes(h)
    <2>1. \A g \in Handlers : Role(g) = "none"
      BY <1>1, <1>3 DEF Takes, Fits
    <2>. QED BY <1>3, <2>1 DEF Takes, Fits
  <1>4. CASE LetsGo(h)
    BY <1>1, <1>4 DEF LetsGo, Fits
  <1>5. CASE Recovers(h)
    <2>1. \A g \in Handlers : Role(g) = "none"
      BY <1>1, <1>5 DEF Recovers, NotBusy, Fits
    <2>. QED BY <1>5, <2>1 DEF Recovers, Fits
  <1>. QED BY <1>2, <1>3, <1>4, <1>5 DEF CallStep

\* Who has the row is with the Agent.
LEMMA RoleFacts ==
    ASSUME NEW h \in Handlers
    PROVE  /\ Role(h) = "with2" => WithAgent2(h)
           /\ Role(h) = "with3" => WithAgent3(h)
BY DEF WithAgent2, WithAgent3, Storing, Role, RoleOf

\* The places by name.
LEMMA PlaceFacts ==
    /\ Waits("action_pack_ready") <=> Place = "for2"
    /\ RunningInAgent2 <=> Place = "with2"
    /\ Waits("agent2_draft_ready") <=> Place = "for3"
    /\ RunningInAgent3 <=> Place = "with3"
    /\ row.stage \notin {"action_pack_ready", "agent2_running", "agent2_draft_ready",
                         "agent3_sop_running"} => Place = "other"
BY DEF Waits, RunningInAgent2, RunningInAgent3, Place, PlaceOf, Waiting

\* A row is only taken from a handler that works on it under trouble.
LEMMA RobsOnlyIdle ==
    ASSUME TypeOK, RunningInAgent2 \/ RunningInAgent3, ~HolderBusy
    PROVE  NotBusy
  <1>1. row.claim \in Handlers \cup {None}
    BY DEF TypeOK, Row
  <1>2. CASE RunningInAgent2
    BY <1>1, <1>2, RoleFacts, PlaceFacts DEF HolderBusy, NotBusy
  <1>3. CASE ~RunningInAgent2
    BY <1>1, <1>3, RoleFacts, PlaceFacts DEF HolderBusy, NotBusy
  <1>. QED BY <1>2, <1>3

\* Every step of a handler is one of these kinds, unless it robs or promotes.
LEMMA StepIsCallStep ==
    ASSUME TypeOK, TicksFit, NEW h \in Handlers, HandlerStep(h), Moves(h),
           checks \notin BadPacks, Untroubled'
    PROVE  CallStep(h) /\ Untroubled
  <1>1. /\ tick[h] \in Tick /\ tick \in [Handlers -> Tick] /\ row \in Row
        /\ PhaseFits(tick[h])
        /\ tick[h].pc \in {"upsert", "write"} => ResultFits(tick[h])
    BY DEF TypeOK, TicksFit
  <1>2. Role(h) = RoleOf(tick[h]) /\ Role(h)' = RoleOf(tick'[h])
    BY DEF Role
  <1>3. Place' = PlaceOf(row'.stage, row'.status)
    BY DEF Place
  <1>4. ASSUME UNCHANGED trouble PROVE Untroubled
    BY <1>4 DEF Untroubled
  <1>5. ASSUME row' = row, Role(h)' \in {Role(h), "none"} PROVE CallStep(h)
    BY <1>5 DEF CallStep, Stays, Place
  <1>6. ~MigrateProjectionFailure(h) /\ ~RejectPack(h)
    BY DEF MigrateProjectionFailure, RejectPack, BadPacks
  <1>7. ~PromoteDeadLetter(h)
    <2>1. PromoteDeadLetter(h) => trouble'.promoted = TRUE
      BY DEF PromoteDeadLetter, TypeOK
    <2>. QED BY <2>1 DEF Untroubled
  <1>8. CASE \/ SelectForAgent2(h) \/ SeeStaleAgent2(h) \/ SeeStaleAgent3(h)
             \/ SelectForAgent3(h) \/ SelectForAdmission(h)
    <2>1. /\ tick'[h].pc \in {"prepare2", "recover2", "recover3", "prepare3", "admit"}
          /\ UNCHANGED <<row, trouble>>
      BY <1>1, <1>8, TickFacts
      DEF SelectForAgent2, SeeStaleAgent2, SeeStaleAgent3, SelectForAgent3,
          SelectForAdmission, Tick
    <2>. QED BY <1>2, <1>4, <1>5, <2>1 DEF RoleOf
  <1>9. CASE \/ MapTask(h) \/ RejectDraft(h) \/ RefuseDecision(h) \/ LookForEntry(h)
             \/ CreateTask(h) \/ EnterPool(h) \/ RecordUsage(h)
    <2>1. /\ UNCHANGED <<row, trouble>>
          /\ \/ tick'[h].pc \in {"create", "enter", "record"}
             \/ tick'[h].pc = "upsert" /\ tick'[h].work = "task"
      BY <1>9, TickFacts
      DEF MapTask, RejectDraft, RefuseDecision, LookForEntry, CreateTask, EnterPool,
          RecordUsage
    <2>. QED BY <1>2, <1>4, <1>5, <2>1 DEF RoleOf
  <1>10. CASE PackRaises(h) \/ DraftRaises(h) \/ AdmissionRaises(h)
    <2>1. row' = row /\ tick'[h].pc = "upsert" /\ tick'[h].status = "failed"
      BY <1>10, TickFacts DEF PackRaises, DraftRaises, AdmissionRaises
    <2>2. trouble'.robbed = trouble.robbed /\ trouble'.promoted = trouble.promoted
      BY <1>10 DEF PackRaises, DraftRaises, AdmissionRaises, Raises, TypeOK
    <2>. QED BY <1>2, <1>5, <2>1, <2>2 DEF RoleOf, Untroubled
  <1>11. CASE UpsertReads(h)
    <2>1. /\ tick'[h].pc = "write" /\ tick'[h].work = tick[h].work
          /\ tick'[h].status = tick[h].status
          /\ tick[h].pc = "upsert" /\ UNCHANGED <<row, trouble>>
      BY <1>1, <1>11 DEF UpsertReads, At, Tick
    <2>. QED BY <1>2, <1>4, <1>5, <2>1 DEF RoleOf
  <1>12. CASE UpsertWrites(h)
    <2>1. /\ row'.stage = tick[h].stage /\ row'.status = tick[h].status
          /\ trouble' = trouble
          /\ tick[h].pc = "write" /\ ResultFits(tick[h])
          /\ tick'[h].pc \in {"clear", "idle"}
      BY <1>1, <1>12, RowFacts, TickFacts DEF UpsertWrites, At
    <2>2. Place' \in {"for3", "other"}
      BY <1>3, <2>1 DEF PlaceOf, ResultFits, Drafted, Answered
    <2>3. Place' = "for3" => Role(h) = "with2"
      BY <1>2, <1>3, <2>1 DEF PlaceOf, RoleOf, ResultFits, Answered, Waiting
    <2>. QED BY <1>2, <1>4, <2>1, <2>2, <2>3 DEF RoleOf, CallStep, LetsGo
  <1>13. CASE ClearClaim(h) \/ ResetFailures(h)
    <2>1. /\ row'.stage = row.stage /\ row'.status = row.status /\ row'.claim = None
          /\ trouble' = trouble /\ tick'[h].pc \in {"idle", "reset"}
      BY <1>1, <1>13, RowFacts, TickFacts DEF ClearClaim, ResetFailures
    <2>. QED BY <1>2, <1>4, <2>1 DEF RoleOf, CallStep, Stays, Place
  <1>14. CASE ClaimForAgent2(h)
    <2>1. CASE ~MayClaimForAgent2
      BY <1>2, <1>4, <1>5, <1>14, <2>1, TickFacts DEF ClaimForAgent2, RoleOf
    <2>2. CASE MayClaimForAgent2
      <3>1. /\ row'.stage = "agent2_running" /\ row'.status = "running"
            /\ row'.claim = h /\ Place = "for2" /\ trouble' = trouble
        BY <1>14, <2>2, RowFacts, PlaceFacts DEF ClaimForAgent2, MayClaimForAgent2
      <3>2. tick'[h].pc = "bind"
        BY <1>1, <1>14, <2>2 DEF ClaimForAgent2, Tick
      <3>. QED
        BY <1>2, <1>3, <1>4, <3>1, <3>2 DEF RoleOf, PlaceOf, CallStep, Takes
    <2>. QED BY <2>1, <2>2
  <1>15. CASE BindInput(h) \/ CallAgain(h) \/ FinishAgent2(h) \/ FailAgent2(h)
    <2>1. /\ UNCHANGED <<row, trouble>> /\ tick[h].pc \in {"bind", "call2"}
      BY <1>15 DEF BindInput, CallAgain, FinishAgent2, FailAgent2, At
    <2>2. \/ tick'[h].pc \in {"bind", "call2", "fail2", "idle"}
          \/ tick'[h].pc = "upsert" /\ tick'[h].work = "agent2"
      <3>1. CASE BindInput(h)
        BY <3>1, TickFacts DEF BindInput
      <3>2. CASE CallAgain(h)
        BY <1>1, <3>2 DEF CallAgain, Tick
      <3>3. CASE FinishAgent2(h)
        BY <3>3, TickFacts DEF FinishAgent2
      <3>4. CASE FailAgent2(h)
        BY <1>1, <3>4 DEF FailAgent2, Idle
      <3>. QED BY <1>15, <3>1, <3>2, <3>3, <3>4
    <2>. QED BY <1>2, <1>4, <1>5, <2>1, <2>2 DEF RoleOf
  <1>16. CASE ScheduleAgent2Failure(h)
    <2>1. /\ tick[h].pc = "fail2" /\ tick'[h].pc = "idle" /\ trouble' = trouble
          /\ \/ row'.stage = "action_pack_ready" /\ row'.status = "retry"
             \/ row'.stage = "agent2_dead_letter" /\ row'.status = "failed"
      BY <1>1, <1>16, RowFacts, TickFacts DEF ScheduleAgent2Failure, At, PhaseFits
    <2>. QED
      BY <1>2, <1>3, <1>4, <2>1 DEF RoleOf, PlaceOf, Waiting, CallStep, LetsGo
  <1>17. CASE ClaimForAgent3(h)
    <2>1. CASE ~(Waits("agent2_draft_ready") /\ row.due)
      <3>1. tick'[h].pc = "idle" /\ UNCHANGED <<row, trouble>>
        BY <1>17, <2>1, TickFacts DEF ClaimForAgent3
      <3>. QED BY <1>2, <1>4, <1>5, <3>1 DEF RoleOf
    <2>2. CASE Waits("agent2_draft_ready") /\ row.due
      <3>1. /\ row' = ClaimedBy(h, "agent3_sop_running") /\ trouble' = trouble
            /\ tick'[h].pc = "call3"
        BY <1>17, <2>2, TickFacts DEF ClaimForAgent3
      <3>2. /\ row'.stage = "agent3_sop_running" /\ row'.status = "running"
            /\ row'.claim = h
        BY <1>1, <3>1 DEF ClaimedBy, Row
      <3>. QED
        BY <1>2, <1>3, <1>4, <2>2, <3>1, <3>2, PlaceFacts
        DEF RoleOf, PlaceOf, CallStep, Takes
    <2>. QED BY <2>1, <2>2
  <1>18. CASE FinishAgent3(h) \/ FailAgent3(h)
    <2>1. /\ UNCHANGED <<row, trouble>> /\ tick[h].pc = "call3"
          /\ \/ tick'[h].pc \in {"idle", "retry3"}
             \/ tick'[h].pc = "upsert" /\ tick'[h].work = "agent3"
      BY <1>18, TickFacts DEF FinishAgent3, FailAgent3, At
    <2>. QED BY <1>2, <1>4, <1>5, <2>1 DEF RoleOf
  <1>19. CASE ScheduleAgent3Retry(h)
    <2>1. tick[h].pc = "retry3" /\ tick'[h].pc = "idle" /\ trouble' = trouble
      BY <1>19, TickFacts DEF ScheduleAgent3Retry, At
    <2>2. CASE row' = row
      BY <1>2, <1>4, <1>5, <2>1, <2>2 DEF RoleOf
    <2>3. CASE row' # row
      <3>1. row'.stage = "agent2_draft_ready" /\ row'.status = "retry"
        BY <1>19, <2>3, RowFacts
      <3>. QED
        BY <1>2, <1>3, <1>4, <2>1, <3>1 DEF RoleOf, PlaceOf, Waiting, CallStep, LetsGo
    <2>. QED BY <2>2, <2>3
  <1>20. CASE RecoverAgent2(h) \/ RecoverAgent3(h)
    <2>1. /\ tick[h].pc \in {"recover2", "recover3"} /\ tick'[h].pc = "idle" /\ Robs
      BY <1>20, TickFacts DEF RecoverAgent2, RecoverAgent3, At
    <2>2. Untroubled /\ (row' = row \/ ~HolderBusy)
      BY <2>1, RobsFacts DEF Untroubled
    <2>3. CASE row' = row
      BY <1>2, <1>5, <2>1, <2>2, <2>3 DEF RoleOf
    <2>4. CASE row' # row
      <3>1. /\ Place \in {"with2", "with3"}
            /\ RunningInAgent2 \/ RunningInAgent3
            /\ Place' \in {"for2", "for3", "other"}
        BY <1>3, <1>20, <2>4, RowFacts, PlaceFacts DEF PlaceOf, Waiting
      <3>2. NotBusy
        BY <2>2, <2>4, <3>1, RobsOnlyIdle
      <3>. QED BY <1>2, <2>1, <2>2, <3>1, <3>2 DEF RoleOf, CallStep, Recovers
    <2>. QED BY <2>3, <2>4
  <1>21. CASE TickDies(h)
    <2>1. tick'[h].pc = "idle" /\ row' = row
      BY <1>21, TickFacts DEF TickDies
    <2>2. trouble'.robbed = trouble.robbed /\ trouble'.promoted = trouble.promoted
      BY <1>21 DEF TickDies, TypeOK
    <2>. QED BY <1>2, <1>5, <2>1, <2>2 DEF RoleOf, Untroubled
  <1>. QED
    BY <1>6, <1>7, <1>8, <1>9, <1>10, <1>11, <1>12, <1>13, <1>14, <1>15, <1>16,
       <1>17, <1>18, <1>19, <1>20, <1>21
    DEF HandlerStep, Begin, Continue

-----------------------------------------------------------------------------
\* The invariant holds initially ...
LEMMA InitItem == Init => ItemInv
  <1>. SUFFICES ASSUME Init PROVE ItemInv
    OBVIOUS
  <1>1. \A h \in Handlers : tick[h] = Idle
    BY DEF Init
  <1>2. TypeOK
    <2>1. Idle \in Tick /\ row \in Row
      BY StageNames, ItemAssumption DEF Init, Idle, Row, Tick, Pcs, Statuses, Waiting
    <2>2. AttemptsLeft
      BY ItemAssumption DEF Init, AttemptsLeft, Waits
    <2>3. trouble \in Trouble
      BY ItemAssumption DEF Init, Trouble
    <2>. QED BY <2>1, <2>2, <2>3 DEF Init, TypeOK, Trouble
  <1>3. TicksFit /\ AdmittedIsEntered
    BY <1>1 DEF Init, Idle, TicksFit, PhaseFits, AdmittedIsEntered
  <1>4. PoolCounts
    <2>1. Creating = {} /\ Entering = {}
      BY <1>1 DEF Creating, Entering, At, Idle
    <2>2. Cardinality(Handlers) \in Nat
      BY ItemAssumption, FS_CardinalityType
    <2>. QED BY <2>1, <2>2, FS_EmptySet DEF Init, PoolCounts
  <1>5. BadPackIsRejected
    BY <1>1 DEF Init, Idle, BadPackIsRejected, BadPackStages, Waiting
  <1>6. CallsFit
    <2>1. \A h \in Handlers : Role(h) = "none"
      BY <1>1 DEF Role, RoleOf, Idle
    <2>. QED BY <2>1 DEF CallsFit, Fits
  <1>. QED BY <1>2, <1>3, <1>4, <1>5, <1>6 DEF ItemInv

\* ... is kept by every step of a handler ...
LEMMA HandlerKeeps ==
    ASSUME ItemInv, NEW h \in Handlers, HandlerStep(h)
    PROVE  ItemInv'
  <1>1. /\ TypeOK /\ TicksFit /\ AdmittedIsEntered /\ PoolCounts
        /\ BadPackIsRejected /\ CallsFit /\ PhaseFits(tick[h])
    BY DEF ItemInv, TicksFit
  <1>2. Moves(h) /\ TickFits(tick'[h])
    BY <1>1, BeginMoves, ContinueMoves DEF HandlerStep
  <1>3. checks' = checks
    BY ChecksKept
  <1>4. /\ PoolType' /\ PoolCounts' /\ trouble' \in Trouble
        /\ pool'.entries >= pool.entries
    BY <1>1, <1>2, PoolStep
  <1>5. row' \in Row /\ AttemptsLeft'
    <2>1. CASE WritesRow(h)
      BY <1>1, <2>1, RowWritten
    <2>2. CASE ~WritesRow(h)
      BY <1>1, <2>2, RowKept DEF TypeOK, AttemptsLeft, Waits, RunningInAgent2
    <2>. QED BY <2>1, <2>2
  <1>6. TypeOK'
    BY <1>1, <1>2, <1>3, <1>4, <1>5 DEF TypeOK, Moves, PoolType, Trouble
  <1>7. TicksFit'
    BY <1>1, <1>2 DEF TicksFit, Moves, TickFits
  <1>8. AdmittedIsEntered'
    BY <1>1, <1>2, <1>4, AdmittedStep
  <1>9. BadPackIsRejected'
    BY <1>1, <1>2, BadPackStep
  <1>10. CallsFit'
    <2>1. CASE Untroubled' /\ checks \notin BadPacks
      <3>1. CallStep(h) /\ Untroubled
        BY <1>1, <1>2, <2>1, StepIsCallStep
      <3>2. \A g \in Handlers \ {h} : Role(g)' = Role(g)
        BY <1>2, <1>3 DEF Role, Moves
      <3>. QED BY <1>1, <2>1, <3>1, <3>2, CallsKept, ItemAssumption
    <2>2. CASE ~(Untroubled' /\ checks \notin BadPacks)
      BY <1>3, <2>2 DEF CallsFit
    <2>. QED BY <2>1, <2>2
  <1>. QED BY <1>4, <1>6, <1>7, <1>8, <1>9, <1>10 DEF ItemInv

\* ... and by the passing of time.
LEMMA TimeKeeps ==
    ASSUME ItemInv, TimeStep \/ UNCHANGED vars
    PROVE  ItemInv'
  <1>1. /\ TypeOK /\ TicksFit /\ AdmittedIsEntered /\ PoolCounts
        /\ BadPackIsRejected /\ CallsFit
    BY DEF ItemInv
  <1>2. /\ row' \in Row
        /\ row'.stage = row.stage /\ row'.status = row.status
        /\ row'.claim = row.claim /\ row'.retry = row.retry
        /\ UNCHANGED <<tick, pool, checks>>
        /\ \/ UNCHANGED trouble
           \/ /\ trouble.slow < MaxSlow
              /\ trouble' = [trouble EXCEPT !.slow = @ + 1]
    <2>1. CASE TimeStep
      BY <1>1, <2>1, TimeFacts
    <2>2. CASE UNCHANGED vars
      BY <1>1, <2>2 DEF vars, TypeOK
    <2>. QED BY <2>1, <2>2
  <1>3. /\ trouble' \in Trouble
        /\ trouble'.deaths = trouble.deaths /\ trouble'.failures = trouble.failures
        /\ trouble'.robbed = trouble.robbed /\ trouble'.promoted = trouble.promoted
    <2>1. trouble \in Trouble
      BY <1>1 DEF TypeOK, Trouble
    <2>. QED BY <1>2, <2>1, ItemAssumption DEF Trouble
  <1>4. AttemptsLeft'
    BY <1>1, <1>2 DEF TypeOK, AttemptsLeft, Waits, RunningInAgent2
  <1>5. TypeOK'
    BY <1>1, <1>2, <1>3, <1>4 DEF TypeOK, Trouble
  <1>6. TicksFit' /\ AdmittedIsEntered' /\ BadPackIsRejected'
    BY <1>1, <1>2 DEF TicksFit, AdmittedIsEntered, BadPackIsRejected
  <1>7. PoolCounts'
    BY <1>1, <1>2, <1>3 DEF PoolCounts, Creating, Entering, At
  <1>8. CallsFit'
    <2>1. Place' = Place /\ (Untroubled' <=> Untroubled)
      BY <1>2, <1>3 DEF Place, Untroubled
    <2>2. \A h \in Handlers : Role(h)' = Role(h)
      BY <1>2 DEF Role
    <2>3. \A h \in Handlers : Fits(h)' <=> Fits(h)
      BY <1>2, <2>1, <2>2 DEF Fits
    <2>. QED BY <1>1, <1>2, <2>1, <2>2, <2>3 DEF CallsFit
  <1>. QED BY <1>5, <1>6, <1>7, <1>8 DEF ItemInv

\* What the properties below follow from.
THEOREM Invariance == Spec => []ItemInv
  <1>1. ItemInv /\ [Next]_vars => ItemInv'
    <2>. SUFFICES ASSUME ItemInv, [Next]_vars PROVE ItemInv'
      OBVIOUS
    <2>1. (\E h \in Handlers : HandlerStep(h)) \/ TimeStep \/ UNCHANGED vars
      BY DEF Next, HandlerStep, TimeStep
    <2>. QED BY <2>1, HandlerKeeps, TimeKeeps
  <1>. QED BY <1>1, InitItem, PTL DEF Spec

\* Whatever dies, is slow or robs: values keep their kinds, and neither Agent is
\* offered an item again without an attempt left.
THEOREM TypeCorrect == Spec => []TypeOK
  <1>1. ItemInv => TypeOK
    BY DEF ItemInv
  <1>. QED BY <1>1, Invariance, PTL

\* However many handlers admit at once, each enters the pool at most once, a task
\* without an entry has its cause, and an admitted item has an entry.
THEOREM PoolIsAccounted == Spec => []PoolAccounted
  <1>1. ItemInv => PoolAccounted
    <2>. SUFFICES ASSUME ItemInv PROVE PoolAccounted
      OBVIOUS
    <2>1. /\ pool.entries + Cardinality(Creating) <= Cardinality(Handlers)
          /\ pool.tasks <= pool.entries + trouble.deaths + trouble.failures
                           + Cardinality(Entering)
          /\ row.stage = "task_admitted" => pool.entries > 0
          /\ pool.entries \in Nat
      BY DEF ItemInv, PoolCounts, AdmittedIsEntered, TypeOK
    <2>2. Cardinality(Creating) \in Nat /\ Cardinality(Handlers) \in Nat
      <3>1. Creating \in SUBSET Handlers
        BY DEF Creating
      <3>. QED BY <3>1, ItemAssumption, FS_Subset, FS_CardinalityType
    <2>3. pool.entries <= Cardinality(Handlers)
      BY <2>1, <2>2
    <2>. QED BY <2>1, <2>3 DEF PoolAccounted, Entering
  <1>. QED BY <1>1, Invariance, PTL

\* A set in which any two are equal has at most one element.
LEMMA AtMostOne ==
    ASSUME NEW S, \A x, y \in S : x = y
    PROVE  Cardinality(S) <= 1
  <1>1. CASE S = {}
    BY <1>1, FS_EmptySet
  <1>2. CASE S # {}
    <2>1. PICK x \in S : TRUE
      BY <1>2
    <2>2. S = {x}
      BY <2>1
    <2>. QED BY <2>2, FS_Singleton
  <1>. QED BY <1>1, <1>2

\* An Agent's call is with one handler until a recovery robs it or a dead letter
\* is promoted, for any number of handlers and whatever clears whose claim.
THEOREM CallIsExclusive == Spec => []OneCallUntilRobbed
  <1>1. ItemInv => OneCallUntilRobbed
    <2>. DEFINE Calls2 == {h \in Handlers : tick[h].pc \in {"bind", "call2", "fail2"}}
                Calls3 == {h \in Handlers : tick[h].pc \in {"call3", "retry3"}}
    <2>1. SUFFICES ASSUME ItemInv, Untroubled
                   PROVE  Cardinality(Calls2) <= 1 /\ Cardinality(Calls3) <= 1
      BY DEF OneCallUntilRobbed, Untroubled
    <2>2. \A h \in Calls2 : Role(h) = "with2"
      BY DEF Role, RoleOf
    <2>3. \A h \in Calls3 : Role(h) = "with3"
      BY DEF Role, RoleOf
    <2>4. \A g, h \in Calls2 : g = h
      <3>1. CASE checks \in BadPacks
        BY <2>1, <3>1 DEF ItemInv, BadPackIsRejected
      <3>2. CASE checks \notin BadPacks
        BY <2>1, <2>2, <3>2 DEF ItemInv, CallsFit, Fits
      <3>. QED BY <3>1, <3>2
    <2>5. \A g, h \in Calls3 : g = h
      <3>1. CASE checks \in BadPacks
        BY <2>1, <3>1 DEF ItemInv, BadPackIsRejected
      <3>2. CASE checks \notin BadPacks
        BY <2>1, <2>3, <3>2 DEF ItemInv, CallsFit
      <3>. QED BY <3>1, <3>2
    <2>. HIDE DEF Calls2, Calls3
    <2>. QED BY <2>4, <2>5, AtMostOne
  <1>. QED BY <1>1, Invariance, PTL
=============================================================================
