---------------------------- MODULE AgentExecution ----------------------------
(***************************************************************************)
(* The execution ledger of the three Agents                                *)
(* (hash_directed_artifact_runtime_v2259_service.py, table                 *)
(* artifact_execution_index_v2259) and the runs that use it: Agent1        *)
(* (agent_token_runtime_hash_exact_v2259_service.py), Agent2               *)
(* (agent_token_runtime_v22520_service.py) and Agent3                      *)
(* (agent3_runtime_v23215_service.py).                                     *)
(*                                                                         *)
(* A run takes a set of inputs, each with an exact execution hash.  It     *)
(* replays what the ledger has accepted, claims the rest under a lease,    *)
(* calls the provider for the claimed ones in batches, one batch after     *)
(* another, and completes or fails each claim.  A process runs one tick at *)
(* a time; runs overlap across processes (several server workers, the      *)
(* Agent3 rerun command), which share the ledger and no barrier.           *)
(* One step is one transaction on the ledger, or one provider answer.      *)
(* A process keeps nothing from one run to the next, so the runs are the   *)
(* actors; a claim id is unique to a run and an execution, and the model   *)
(* uses the number of the run.  The executions are taken to share one      *)
(* semantic hash, so that each may be rebound from any other.              *)
(***************************************************************************)
EXTENDS Naturals, FiniteSets

CONSTANTS
    Exec,        \* execution hashes
    Stages,      \* the Agents an instance looks at
    BatchSize,   \* max_items_per_call
    RetryLimit,  \* AGENT1_MISSING_ITEM_RETRY_ATTEMPTS
    MaxRuns,     \* bound on the runs
    MaxCrashes   \* bound on the runs that die

ASSUME ExecutionAssumption ==
    /\ Stages \subseteq {"agent1", "agent2", "agent3"}
    /\ BatchSize \in Nat \ {0}
    /\ RetryLimit \in Nat
    /\ MaxRuns \in Nat
    /\ MaxCrashes \in Nat

VARIABLES
    stage,    \* the Agent whose executions these are
    ledger,   \* artifact_execution_index_v2259
    run,      \* where each run is, and what it holds
    runs,     \* how many runs have begun
    accepts,  \* history: every output the ledger ever accepted
    crashed   \* history: the runs that died

vars == <<stage, ledger, run, runs, accepts, crashed>>

RunIds   == 1..MaxRuns
Rounds   == 0..(RetryLimit + 2)
Outputs  == [run: RunIds, round: Rounds]
NoOutput == [run |-> 0, round |-> 0]
Refs     == [exec: Exec, output: Outputs]
Answers  == {"none", "exact", "invalid", "missing", "stored"}

NoRow == [status |-> "absent", claim |-> 0, live |-> FALSE,
          output |-> NoOutput, revoked |-> FALSE]

NoBatch == [e \in Exec |-> "none"]

\* todo: inputs not looked at; entry: the one being claimed; queue: claimed, in
\* no batch yet; batch: the provider's answers to the current batch; fresh: what
\* the batch has accepted so far; pending, next: missing items to ask for one by
\* one in this round and in the following; returned: what the caller receives.
NoRun == [pc |-> "idle", todo |-> {}, entry |-> {}, queue |-> {},
          batch |-> NoBatch, fresh |-> {}, pending |-> {}, next |-> {},
          round |-> 0, returned |-> {}]

Pcs == {"idle", "prepare", "claim", "wait", "rebind", "store", "review"}

TypeOK ==
    /\ stage \in Stages
    /\ ledger \in [Exec -> [status: {"absent", "running", "accepted", "failed"},
                            claim: 0..MaxRuns, live: BOOLEAN,
                            output: Outputs \cup {NoOutput}, revoked: BOOLEAN]]
    /\ run \in [RunIds -> [pc: Pcs, todo: SUBSET Exec, entry: SUBSET Exec,
                           queue: SUBSET Exec,
                           batch: [Exec -> Answers], fresh: SUBSET Refs,
                           pending: SUBSET Exec, next: SUBSET Exec,
                           round: Rounds, returned: SUBSET Refs]]
    /\ runs \in 0..MaxRuns
    /\ accepts \subseteq Refs
    /\ crashed \subseteq RunIds

Init ==
    /\ stage \in Stages
    /\ ledger = [e \in Exec |-> NoRow]
    /\ run = [r \in RunIds |-> NoRun]
    /\ runs = 0
    /\ accepts = {}
    /\ crashed = {}

-----------------------------------------------------------------------------
(* The ledger.                                                             *)

Accepted(e) == ledger[e].status = "accepted"

AcceptedRef(e) == [exec |-> e, output |-> ledger[e].output]

Leased(e) == ledger[e].status = "running" /\ ledger[e].live

\* The upsert of claim_execution: it keeps the output of an earlier acceptance.
Claimed(r, e) ==
    [ledger EXCEPT ![e].status = "running", ![e].claim = r,
                   ![e].live = TRUE]

\* The condition of the update in complete_execution; mutant: the status is not
\* tested.
MayCompleteAnyStatus(r, e) == ledger[e].claim = r

MayComplete(r, e) ==
    /\ ledger[e].status = "running"
    /\ ledger[e].claim = r

Completed(e, o) ==
    [ledger EXCEPT ![e].status = "accepted", ![e].output = o, ![e].live = FALSE]

\* complete_execution raises claim_lost: the claim is gone and nobody's output
\* has been accepted.
ClaimLost(r, e) == ~MayComplete(r, e) /\ ~Accepted(e)

\* The reference complete_execution returns: the output given to it, or the one
\* another claim had accepted; mutant: always the one given to it.
GivenRef(r, e, o) == [exec |-> e, output |-> o]

CompletedRef(r, e, o) ==
    IF MayComplete(r, e) THEN [exec |-> e, output |-> o] ELSE AcceptedRef(e)

\* fail_execution, for each execution of S; mutant: the claim is not tested.
FailedByHash(r, S) ==
    [e \in Exec |-> IF e \in S
                    THEN [ledger[e] EXCEPT !.status = "failed", !.live = FALSE]
                    ELSE ledger[e]]

Failed(r, S) ==
    [e \in Exec |-> IF e \in S /\ ledger[e].claim = r
                    THEN [ledger[e] EXCEPT !.status = "failed", !.live = FALSE]
                    ELSE ledger[e]]

\* complete_execution where it does not raise.
Complete(r, e, o) ==
    /\ ~ClaimLost(r, e)
    /\ ledger' = IF MayComplete(r, e) THEN Completed(e, o) ELSE ledger
    /\ accepts' = IF MayComplete(r, e)
                  THEN accepts \cup {[exec |-> e, output |-> o]} ELSE accepts

LedgerUnchanged == UNCHANGED <<stage, ledger, runs, accepts, crashed>>

-----------------------------------------------------------------------------
(* Preparing: replay, claim, wait, rebind.                                 *)

\* Agent2 compiles a new input, with another execution hash, in place of one
\* whose accepted output was revoked.
Start(r, X) ==
    /\ r = runs + 1
    /\ X # {}
    /\ stage = "agent2" => \A e \in X : ~ledger[e].revoked
    /\ run' = [run EXCEPT ![r] = [NoRun EXCEPT !.pc = "prepare", !.todo = X]]
    /\ runs' = r
    /\ UNCHANGED <<stage, ledger, accepts, crashed>>

\* The read that precedes a claim, in a transaction of its own.
Look(r, e) ==
    /\ run[r].pc = "prepare"
    /\ e \in run[r].todo
    /\ run' = [run EXCEPT
         ![r].todo = @ \ {e},
         ![r].returned = IF Accepted(e) THEN @ \cup {AcceptedRef(e)} ELSE @,
         ![r].entry = IF Accepted(e) THEN {} ELSE {e},
         ![r].pc = IF Accepted(e) THEN "prepare" ELSE "claim"]
    /\ LedgerUnchanged

ReplayAtClaim(r, e) ==
    /\ Accepted(e)
    /\ run' = [run EXCEPT ![r].returned = @ \cup {AcceptedRef(e)},
                          ![r].entry = {}, ![r].pc = "prepare"]
    /\ LedgerUnchanged

\* Agent1 waits for the other run's answer; Agent2 and Agent3 report the item busy.
AlreadyRunning(r, e) ==
    /\ Leased(e)
    /\ run' = IF stage = "agent1"
              THEN [run EXCEPT ![r].pc = "wait"]
              ELSE [run EXCEPT ![r].entry = {}, ![r].pc = "prepare"]
    /\ LedgerUnchanged

TakeClaim(r, e) ==
    /\ ~Accepted(e)
    /\ ~Leased(e)
    /\ ledger' = Claimed(r, e)
    /\ run' = [run EXCEPT ![r].pc = "rebind"]
    /\ UNCHANGED <<stage, runs, accepts, crashed>>

Claim(r, e) ==
    /\ run[r].pc = "claim"
    /\ run[r].entry = {e}
    /\ ReplayAtClaim(r, e) \/ AlreadyRunning(r, e) \/ TakeClaim(r, e)

WaitedReplay(r, e) ==
    /\ run[r].pc = "wait"
    /\ run[r].entry = {e}
    /\ Accepted(e)
    /\ run' = [run EXCEPT ![r].returned = @ \cup {AcceptedRef(e)},
                          ![r].entry = {}, ![r].pc = "prepare"]
    /\ LedgerUnchanged

\* The deadline passes; the last poll may have come before an acceptance.
\* Mutant: the poll has no deadline.
WaitForever(r) == FALSE

WaitTimesOut(r) ==
    /\ run[r].pc = "wait"
    /\ run' = [run EXCEPT ![r].entry = {}, ![r].pc = "prepare"]
    /\ LedgerUnchanged

\* Another accepted execution with the same semantic hash; Agent2 asks that its
\* output be reusable.
SemanticSource(e, s) ==
    /\ s # e
    /\ Accepted(s)
    /\ stage = "agent2" => ~ledger[s].revoked

Rebind(r, e) ==
    /\ run[r].pc = "rebind"
    /\ run[r].entry = {e}
    /\ \E s \in Exec : SemanticSource(e, s)
    /\ LET o == [run |-> r, round |-> 0] IN
         /\ Complete(r, e, o)
         /\ run' = [run EXCEPT ![r].returned = @ \cup {CompletedRef(r, e, o)},
                               ![r].entry = {}, ![r].pc = "prepare"]
    /\ UNCHANGED <<stage, runs, crashed>>

\* No source, or the rebinding raised: the entry goes to the provider.
NoRebind(r, e) ==
    /\ run[r].pc = "rebind"
    /\ run[r].entry = {e}
    /\ run' = [run EXCEPT ![r].queue = @ \cup {e},
                          ![r].entry = {}, ![r].pc = "prepare"]
    /\ LedgerUnchanged

-----------------------------------------------------------------------------
(* Provider batches.                                                       *)

Prepared(r) == run[r].pc = "prepare" /\ run[r].todo = {}

Batch(r) == {e \in Exec : run[r].batch[e] # "none"}

Answered(r, a) == {e \in Exec : run[r].batch[e] = a}

\* What the provider's answer may hold for an item.  An output that Agent3's
\* validation rejects is an item without one.
AnswerKinds ==
    IF stage = "agent3" THEN {"exact", "missing"}
    ELSE {"exact", "invalid", "missing"}

ProviderAnswers(r, B, answer) ==
    /\ Prepared(r)
    /\ B # {}
    /\ Cardinality(B) <= BatchSize
    /\ run' = [run EXCEPT ![r].pc = "store",
                 ![r].queue = @ \ B,
                 ![r].batch = [e \in Exec |-> IF e \in B THEN answer[e] ELSE "none"]]
    /\ LedgerUnchanged

\* The outputs of one call are stored and completed one by one, each in a
\* transaction of its own.  Agent3 keeps the reference of its own artifact
\* whatever complete_execution returned, and keeps it if the batch fails later.
StoreOutput(r, e) ==
    /\ run[r].pc = "store"
    /\ run[r].batch[e] = "exact"
    /\ LET o   == [run |-> r, round |-> 1]
           ref == CompletedRef(r, e, o)
       IN /\ Complete(r, e, o)
          /\ run' = IF stage = "agent3"
                    THEN [run EXCEPT ![r].batch[e] = "stored", ![r].returned =
                            @ \cup {[exec |-> e, output |-> o]}]
                    ELSE [run EXCEPT ![r].batch[e] = "stored",
                                     ![r].fresh = @ \cup {ref}]
    /\ UNCHANGED <<stage, runs, crashed>>

\* The loop over the batch has stored every output it was given.
Stored(r) == run[r].pc = "store" /\ Answered(r, "exact") = {}

AfterBatch(r, retry, kept) ==
    run' = [run EXCEPT ![r].pc = "prepare", ![r].batch = NoBatch,
                       ![r].fresh = {}, ![r].next = @ \cup retry,
                       ![r].returned = @ \cup kept]

\* Returned but invalid items fail; missing ones are asked for again.
SettleAgent1(r) ==
    /\ stage = "agent1"
    /\ Stored(r)
    /\ ledger' = Failed(r, Answered(r, "invalid"))
    /\ AfterBatch(r, Answered(r, "missing"), run[r].fresh)
    /\ UNCHANGED <<stage, runs, accepts, crashed>>

SettleAgent2(r) ==
    /\ stage = "agent2"
    /\ Stored(r)
    /\ ledger' = Failed(r, Answered(r, "invalid"))
    /\ AfterBatch(r, Answered(r, "missing"), run[r].fresh)
    /\ UNCHANGED <<stage, runs, accepts, crashed>>

SettleAgent3(r) ==
    /\ stage = "agent3"
    /\ Stored(r)
    /\ ledger' = Failed(r, Answered(r, "missing"))
    /\ AfterBatch(r, {}, {})
    /\ UNCHANGED <<stage, runs, accepts, crashed>>

\* What ends the batch before its outputs are taken: the provider call (nothing
\* stored yet), an output whose normalisation, storage or completion raises, or
\* the batch's manifest, written when all are stored.
BatchRaises(r) == run[r].pc = "store"

\* Agent1 asks again for every item of the batch, those just accepted too.
BatchFailsAgent1(r) ==
    /\ stage = "agent1"
    /\ BatchRaises(r)
    /\ AfterBatch(r, Batch(r), {})
    /\ LedgerUnchanged

\* Agent2 and Agent3 fail every item of the batch, those just accepted too.
BatchFailsAgent2(r) ==
    /\ stage = "agent2"
    /\ BatchRaises(r)
    /\ ledger' = Failed(r, Batch(r))
    /\ AfterBatch(r, {}, {})
    /\ UNCHANGED <<stage, runs, accepts, crashed>>

BatchFailsAgent3(r) ==
    /\ stage = "agent3"
    /\ BatchRaises(r)
    /\ ledger' = Failed(r, Batch(r))
    /\ AfterBatch(r, {}, {})
    /\ UNCHANGED <<stage, runs, accepts, crashed>>

-----------------------------------------------------------------------------
(* Asking for the missing items one by one.                                *)

RetryRounds == IF stage = "agent1" THEN RetryLimit ELSE 1

Called(r) == Prepared(r) /\ run[r].queue = {}

\* Mutant: the rounds are not counted.
NextRoundUncounted(r) ==
    /\ Called(r)
    /\ run[r].pending = {}
    /\ run[r].next # {}
    /\ run' = [run EXCEPT ![r].round = @ + 1, ![r].pending = run[r].next,
                          ![r].next = {}]
    /\ LedgerUnchanged

NextRound(r) ==
    /\ Called(r)
    /\ run[r].pending = {}
    /\ run[r].next # {}
    /\ run[r].round < RetryRounds
    /\ run' = [run EXCEPT ![r].round = @ + 1, ![r].pending = run[r].next,
                          ![r].next = {}]
    /\ LedgerUnchanged

SingletonAccepted(r, e) ==
    /\ Called(r)
    /\ e \in run[r].pending
    /\ LET o == [run |-> r, round |-> run[r].round + 1] IN
         /\ Complete(r, e, o)
         /\ run' = [run EXCEPT ![r].pending = @ \ {e},
                               ![r].returned = @ \cup {CompletedRef(r, e, o)}]
    /\ UNCHANGED <<stage, runs, crashed>>

\* An invalid answer fails the claim, whatever the row's status.
SingletonInvalid(r, e) ==
    /\ Called(r)
    /\ e \in run[r].pending
    /\ ledger' = Failed(r, {e})
    /\ run' = [run EXCEPT ![r].pending = @ \ {e}]
    /\ UNCHANGED <<stage, runs, accepts, crashed>>

\* Missing again, or the call or its completion raised: Agent1 keeps the item for
\* the next round, Agent2 fails it.
SingletonMissing(r, e) ==
    /\ Called(r)
    /\ e \in run[r].pending
    /\ IF stage = "agent1"
       THEN /\ run' = [run EXCEPT ![r].pending = @ \ {e}, ![r].next = @ \cup {e}]
            /\ UNCHANGED ledger
       ELSE /\ run' = [run EXCEPT ![r].pending = @ \ {e}]
            /\ ledger' = Failed(r, {e})
    /\ UNCHANGED <<stage, runs, accepts, crashed>>

\* The rounds are used up: what was not accepted fails.  Mutant: it is dropped.
RetriesDropped(r) ==
    /\ Called(r)
    /\ run[r].pending = {}
    /\ run[r].next # {}
    /\ run[r].round = RetryRounds
    /\ run' = [run EXCEPT ![r].next = {}]
    /\ LedgerUnchanged

RetriesExhausted(r) ==
    /\ Called(r)
    /\ run[r].pending = {}
    /\ run[r].next # {}
    /\ run[r].round = RetryRounds
    /\ ledger' = Failed(r, {e \in run[r].next : ~Accepted(e)})
    /\ run' = [run EXCEPT ![r].next = {}]
    /\ UNCHANGED <<stage, runs, accepts, crashed>>

Finish(r) ==
    /\ Called(r)
    /\ run[r].pending = {}
    /\ run[r].next = {}
    /\ run' = [run EXCEPT ![r] = IF stage = "agent2"
                                 THEN [@ EXCEPT !.pc = "review"] ELSE NoRun]
    /\ LedgerUnchanged

-----------------------------------------------------------------------------
(* Agent2 checks each returned draft against its current contract.         *)

ReviewEnds(r, ref) ==
    run' = [run EXCEPT ![r] = IF run[r].returned = {ref} THEN NoRun
                              ELSE [run[r] EXCEPT !.returned = @ \ {ref}]]

FinalizeAcceptance(r, ref) ==
    /\ run[r].pc = "review"
    /\ ref \in run[r].returned
    /\ ledger' = [ledger EXCEPT ![ref.exec].revoked = @ /\ ~Accepted(ref.exec)]
    /\ ReviewEnds(r, ref)
    /\ UNCHANGED <<stage, runs, accepts, crashed>>

\* revoke_agent2_execution names the row by its hash alone, whoever claims it
\* now and whatever it has accepted since.
RevokeExecution(r, ref) ==
    /\ run[r].pc = "review"
    /\ ref \in run[r].returned
    /\ ledger' = [ledger EXCEPT ![ref.exec].status = "failed",
                                ![ref.exec].live = FALSE,
                                ![ref.exec].revoked = TRUE]
    /\ ReviewEnds(r, ref)
    /\ UNCHANGED <<stage, runs, accepts, crashed>>

NothingToReview(r) ==
    /\ run[r].pc = "review"
    /\ run[r].returned = {}
    /\ run' = [run EXCEPT ![r] = NoRun]
    /\ LedgerUnchanged

-----------------------------------------------------------------------------
(* Time and faults.                                                        *)

\* EXECUTION_LEASE_SECONDS pass; the batches of a run may well take longer.
LeaseExpires(e) ==
    /\ Leased(e)
    /\ ledger' = [ledger EXCEPT ![e].live = FALSE]
    /\ UNCHANGED <<stage, run, runs, accepts, crashed>>

Crash(r) ==
    /\ run[r].pc # "idle"
    /\ Cardinality(crashed) < MaxCrashes
    /\ crashed' = crashed \cup {r}
    /\ run' = [run EXCEPT ![r] = NoRun]
    /\ UNCHANGED <<stage, ledger, runs, accepts>>

-----------------------------------------------------------------------------
Prepare(r) ==
    \/ \E e \in Exec : Look(r, e) \/ Claim(r, e) \/ WaitedReplay(r, e)
                       \/ Rebind(r, e) \/ NoRebind(r, e)
    \/ WaitTimesOut(r)

CallProvider(r) ==
    \/ \E B \in SUBSET run[r].queue : \E answer \in [B -> AnswerKinds] :
         ProviderAnswers(r, B, answer)
    \/ \E e \in Exec : StoreOutput(r, e)
    \/ SettleAgent1(r) \/ SettleAgent2(r) \/ SettleAgent3(r)
    \/ BatchFailsAgent1(r) \/ BatchFailsAgent2(r) \/ BatchFailsAgent3(r)

RetryMissing(r) ==
    \/ NextRound(r)
    \/ \E e \in Exec : SingletonAccepted(r, e) \/ SingletonInvalid(r, e)
                       \/ SingletonMissing(r, e)
    \/ RetriesExhausted(r)
    \/ Finish(r)

Review(r) ==
    \/ \E ref \in run[r].returned :
         FinalizeAcceptance(r, ref) \/ RevokeExecution(r, ref)
    \/ NothingToReview(r)

Step(r) == Prepare(r) \/ CallProvider(r) \/ RetryMissing(r) \/ Review(r)

Next ==
    \/ \E r \in RunIds : Step(r) \/ Crash(r) \/ \E X \in SUBSET Exec : Start(r, X)
    \/ \E e \in Exec : LeaseExpires(e)

Spec == Init /\ [][Next]_vars

\* A thread that runs takes its next step: no step waits for another thread but
\* the poll of _wait_for_accepted, which has a deadline.
FairSpec == Spec /\ \A r \in RunIds : WF_vars(Step(r))

-----------------------------------------------------------------------------
(* Properties.                                                             *)

\* What Agent1 and Agent2 hand to their caller names an output that the ledger
\* accepted for that very execution, also where the claim was lost to another
\* run, the batch failed half way or the item was asked for again.  (Agent3
\* keeps its own reference: there it is not so.)
ReturnedWasAccepted ==
    stage # "agent3" =>
        \A r \in RunIds : run[r].fresh \cup run[r].returned \subseteq accepts

\* The executions a run has claimed and neither completed nor failed.
Undecided(r) ==
    run[r].queue \cup Batch(r) \cup run[r].pending \cup run[r].next
        \cup (IF run[r].pc = "rebind" THEN run[r].entry ELSE {})

\* No path through a run forgets a claim: an execution is left running only by
\* the run that still has to decide it or by one that died.
NothingLeftRunning ==
    \A e \in Exec : ledger[e].status = "running" =>
        \/ ledger[e].claim \in crashed
        \/ e \in Undecided(ledger[e].claim)

\* A claim decides once: whatever is answered again after a batch failed, a run
\* gets at most one output accepted for an execution.
OneOutputPerClaim ==
    \A a, b \in accepts :
        a.exec = b.exec /\ a.output.run = b.output.run => a = b

\* An accepted execution stays accepted with its output, or is undone by the
\* run whose claim it is, or revoked by an Agent2 review.  No claim of another
\* run and no late failure of a superseded one undoes it.
AcceptanceStands ==
    [][\A e \in Exec : Accepted(e) =>
         \/ Accepted(e)' /\ ledger'[e].output = ledger[e].output
         \/ ledger'[e].status = "failed" /\ ledger'[e].revoked
         \/ /\ ledger'[e].status = "failed"
            /\ run'[ledger[e].claim] # run[ledger[e].claim]
      ]_vars

\* Every run ends, also when two Agent1 runs each wait for an execution the
\* other has claimed, or for one whose run died.
RunEnds == \A r \in RunIds : run[r].pc # "idle" ~> run[r].pc = "idle"

=============================================================================
