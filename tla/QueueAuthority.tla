--------------------------- MODULE QueueAuthority ---------------------------
(***************************************************************************)
(* The shadow queue of the Java control plane (QueueAuthority.java) with   *)
(* the generation fencer it reads (GenerationFencer.java).                 *)
(*                                                                         *)
(* Worker threads claim stage jobs, run them, and commit the result with a *)
(* handoff to the next stage; a sweep puts jobs with an expired lease back *)
(* in the queue; a reset rotates the generation at any moment.  One TLA+   *)
(* step is one stretch of code between two points where another thread can *)
(* be seen: a queue poll, a lock taken or released, a read of the fencer.  *)
(*                                                                         *)
(* A generation (sequence, token and hash move together) is a number.  A   *)
(* job is named by its idempotency key <<item, stage, input hash>>, which  *)
(* is also what its job id and its index entry are computed from.  Claim   *)
(* ids come from a global sequence; the id of a job's n-th claim is n.     *)
(***************************************************************************)
EXTENDS Naturals, FiniteSets

CONSTANTS
    Items,          \* pipeline items
    Inputs,         \* content hashes an AGENT1 job is enqueued with
    Outputs,        \* content hashes a worker may produce
    Workers,        \* threads that claim and commit
    Sweepers,       \* threads that call recoverExpired
    Priority,       \* [Items -> Nat], smaller is served first
    RootBound,      \* TRUE: the fencer reads the durable root and may throw
    RepeatsCall,    \* TRUE: a caller may repeat a commit whose answer it lost
    MaxGeneration,  \* bound on rotations
    MaxAttempts,    \* bound on the claims of one job
    None            \* no job, no hash

ASSUME QueueAssumption ==
    /\ Priority \in [Items -> Nat]
    /\ RootBound \in BOOLEAN
    /\ RepeatsCall \in BOOLEAN
    /\ MaxGeneration \in Nat \ {0}
    /\ MaxAttempts \in Nat \ {0}

Stages == {"AGENT1", "AGENT2", "AGENT3"}
Hashes == Inputs \cup Outputs
Keys   == Items \X Stages \X Hashes

ASSUME NoneAssumption == None \notin Keys

ItemOf(k)  == k[1]
StageOf(k) == k[2]
InputOf(k) == k[3]

NextStage(s) == CASE s = "AGENT1" -> "AGENT2"
                  [] s = "AGENT2" -> "AGENT3"
                  [] OTHER        -> "COMPLETE"

IsLast(k) == StageOf(k) = "AGENT3"

Successor(k, o) == <<ItemOf(k), NextStage(StageOf(k)), o>>

VARIABLES
    gen,        \* the fencer's current generation
    items,      \* business position per item; version 0: not registered
    jobs,       \* the jobs map and the idempotency index, by key
    queue,      \* jobs waiting in the queue of their stage
    artifacts,  \* content hash -> what was first stored under it
    outbox,     \* handoff events
    worker,     \* where each worker thread is, and the claim it holds
    sweep       \* the running recoverExpired calls

vars == <<gen, items, jobs, queue, artifacts, outbox, worker, sweep>>

Open  == {"READY", "RETRY"}
Final == {"COMPLETED", "FAILED"}

NoJob      == [status |-> "ABSENT", gen |-> 0, claim |-> 0, attempts |-> 0,
               expired |-> FALSE]
NewJob(g)  == [status |-> "READY", gen |-> g, claim |-> 0, attempts |-> 0,
               expired |-> FALSE]
Idle       == [pc |-> "idle", job |-> None, attempt |-> 0, fence |-> 0,
               out |-> None]
NoSweep    == [gen |-> 0, todo |-> {}]
NoArtifact == [gen |-> 0]

Init ==
    /\ gen = 1
    /\ items = [i \in Items |-> [stage |-> "AGENT1", version |-> 0, gen |-> 0]]
    /\ jobs = [k \in Keys |-> NoJob]
    /\ queue = {}
    /\ artifacts = [h \in Outputs |-> NoArtifact]
    /\ outbox = {}
    /\ worker = [w \in Workers |-> Idle]
    /\ sweep = [s \in Sweepers |-> NoSweep]

-----------------------------------------------------------------------------
(* The lock of a job is held between the two halves of a claim and between *)
(* the check of a commit and its return.                                   *)

LockHeld == {"granted", "checked", "advanced"}

Locked(k) == \E w \in Workers : worker[w].pc \in LockHeld /\ worker[w].job = k

(* Worker w's call returns: it lets go of the claim, or keeps it to repeat *)
(* the call.                                                               *)
Return(w) ==
    \/ worker' = [worker EXCEPT ![w] = Idle]
    \/ /\ RepeatsCall
       /\ worker' = [worker EXCEPT ![w].pc = "working", ![w].out = None]

(* The insertion part of enqueue, atomic under enqueueLock: an existing    *)
(* key is suppressed.  A running iteration over the jobs map may or may    *)
(* not see the insertion.                                                  *)
Admit(k) ==
    IF jobs[k].status = "ABSENT"
    THEN /\ jobs' = [jobs EXCEPT ![k] = NewJob(gen)]
         /\ queue' = queue \cup {k}
         /\ \E seen \in SUBSET {s \in Sweepers : sweep[s].todo # {}} :
               sweep' = [s \in Sweepers |->
                           IF s \in seen
                           THEN [sweep[s] EXCEPT !.todo = @ \cup {k}]
                           ELSE sweep[s]]
    ELSE UNCHANGED <<jobs, queue, sweep>>

-----------------------------------------------------------------------------
(* GenerationFencer.rotate, or a rotation of the durable root.             *)
Rotate ==
    /\ gen < MaxGeneration
    /\ gen' = gen + 1
    /\ UNCHANGED <<items, jobs, queue, artifacts, outbox, worker, sweep>>

RegisterItem(i) ==
    /\ items[i].version = 0
    /\ items' = [items EXCEPT ![i] = [stage |-> "AGENT1", version |-> 1,
                                      gen |-> gen]]
    /\ UNCHANGED <<gen, jobs, queue, artifacts, outbox, worker, sweep>>

(* Clients enqueue AGENT1 work only; later stages are reached by handoff.  *)
Enqueue(i, h) ==
    /\ items[i].version > 0
    /\ Admit(<<i, "AGENT1", h>>)
    /\ UNCHANGED <<gen, items, artifacts, outbox, worker>>

(* claim, first part: poll the queue of stage s.                           *)
Poll(w, s) ==
    /\ worker[w].pc = "idle"
    /\ \E k \in queue :
          /\ StageOf(k) = s
          /\ \A j \in queue : StageOf(j) = s =>
                Priority[ItemOf(k)] <= Priority[ItemOf(j)]
          /\ queue' = queue \ {k}
          /\ worker' = [worker EXCEPT ![w].pc = "polled", ![w].job = k]
    /\ UNCHANGED <<gen, items, jobs, artifacts, outbox, sweep>>

(* A claim id is new; mutant: it is derived from the job alone.            *)
ClaimIdOfJob(k) == 1

NewClaimId(k) == jobs[k].attempts + 1

(* claim, under the job's lock up to the second read of the fencer.        *)
ClaimGrant(w) ==
    LET k == worker[w].job IN
    /\ worker[w].pc = "polled"
    /\ ~Locked(k)
    /\ jobs[k].status \in Open
    /\ jobs[k].gen = gen
    /\ jobs[k].attempts < MaxAttempts
    /\ jobs' = [jobs EXCEPT ![k].status = "RUNNING",
                            ![k].attempts = @ + 1,
                            ![k].claim = NewClaimId(k),
                            ![k].expired = FALSE]
    /\ worker' = [worker EXCEPT ![w].pc = "granted"]
    /\ UNCHANGED <<gen, items, queue, artifacts, outbox, sweep>>

ClaimSkip(w) ==
    LET k == worker[w].job IN
    /\ worker[w].pc = "polled"
    /\ ~Locked(k)
    /\ jobs[k].status \notin Open \/ jobs[k].gen # gen
    /\ jobs' = [jobs EXCEPT ![k].status = IF @ \in Open THEN "FAILED" ELSE @]
    /\ worker' = [worker EXCEPT ![w] = Idle]
    /\ UNCHANGED <<gen, items, queue, artifacts, outbox, sweep>>

(* claim, the rest: the fence is read again and the lock released.         *)
ReturnClaim(w) ==
    /\ worker[w].pc = "granted"
    /\ worker' = [worker EXCEPT ![w].pc = "working",
                                ![w].attempt = jobs[worker[w].job].claim,
                                ![w].fence = gen]
    /\ UNCHANGED <<gen, items, jobs, queue, artifacts, outbox, sweep>>

(* completeAndHandoff, the check before the lock.                          *)
Submit(w) ==
    /\ worker[w].pc = "working"
    /\ IF worker[w].fence = gen
       THEN worker' = [worker EXCEPT ![w].pc = "submitting"]
       ELSE Return(w)
    /\ UNCHANGED <<gen, items, jobs, queue, artifacts, outbox, sweep>>

(* The tests a commit makes once it has the job's lock; mutant: the claim  *)
(* id is not compared.                                                     *)
CommittableByAnyClaim(w) ==
    /\ jobs[worker[w].job].status = "RUNNING"
    /\ worker[w].fence = gen

Committable(w) ==
    LET k == worker[w].job IN
    /\ jobs[k].status = "RUNNING"
    /\ jobs[k].claim = worker[w].attempt
    /\ worker[w].fence = gen

CommitCheck(w) ==
    /\ worker[w].pc = "submitting"
    /\ ~Locked(worker[w].job)
    /\ IF Committable(w)
       THEN worker' = [worker EXCEPT ![w].pc = "checked"]
       ELSE Return(w)
    /\ UNCHANGED <<gen, items, jobs, queue, artifacts, outbox, sweep>>

(* Mutant: the artifact does not name its parent.                          *)
ArtifactOfNoParent(k, g) ==
    [item |-> ItemOf(k), stage |-> StageOf(k), parent |-> None, gen |-> g]

ArtifactOf(k, g) ==
    [item |-> ItemOf(k), stage |-> StageOf(k), parent |-> InputOf(k), gen |-> g]

(* The artifact is stored unless its hash is taken, the job is COMPLETED.  *)
StoreResult(w, o) ==
    LET k == worker[w].job IN
    /\ artifacts' = IF artifacts[o] = NoArtifact
                    THEN [artifacts EXCEPT ![o] = ArtifactOf(k, worker[w].fence)]
                    ELSE artifacts
    /\ jobs' = [jobs EXCEPT ![k].status = "COMPLETED"]

(* advance.  Mutants: the last commit is not counted; the stage stays.     *)
AdvancedUnlessLast(k) ==
    [stage |-> NextStage(StageOf(k)), gen |-> gen,
     version |-> items[ItemOf(k)].version + (IF IsLast(k) THEN 0 ELSE 1)]

AdvancedInPlace(k) ==
    [stage |-> StageOf(k), gen |-> gen,
     version |-> items[ItemOf(k)].version + 1]

Advanced(k) ==
    [stage |-> NextStage(StageOf(k)), gen |-> gen,
     version |-> items[ItemOf(k)].version + 1]

(* The item moves on; the fencer is read a third time for its stamp.       *)
CommitAdvance(w, o) ==
    LET k == worker[w].job IN
    /\ worker[w].pc = "checked"
    /\ StoreResult(w, o)
    /\ items' = [items EXCEPT ![ItemOf(k)] = Advanced(k)]
    /\ IF IsLast(k)
       THEN Return(w)
       ELSE worker' = [worker EXCEPT ![w].pc = "advanced", ![w].out = o]
    /\ UNCHANGED <<gen, queue, outbox, sweep>>

(* Mutant: the outbox event stands for the job, which is not created.      *)
OpenNextByEventOnly(k, o) == UNCHANGED <<jobs, queue, sweep>>

OpenNext(k, o) == Admit(Successor(k, o))

(* The next stage's job and the outbox event; the lock is released.        *)
Handoff(w) ==
    LET k == worker[w].job
        o == worker[w].out IN
    /\ worker[w].pc = "advanced"
    /\ OpenNext(k, o)
    /\ outbox' = outbox \cup {[item |-> ItemOf(k), stage |-> StageOf(k),
                               payload |-> o, gen |-> worker[w].fence]}
    /\ Return(w)
    /\ UNCHANGED <<gen, items, artifacts>>

(* A worker dies or gives up while it holds a claim.  The bound keeps one  *)
(* attempt in which that does not happen.                                  *)
Drop(w) ==
    /\ worker[w].pc = "working"
    /\ worker[w].attempt < MaxAttempts
    /\ worker' = [worker EXCEPT ![w] = Idle]
    /\ UNCHANGED <<gen, items, jobs, queue, artifacts, outbox, sweep>>

-----------------------------------------------------------------------------
(* A read of the root-bound fencer throws: an I/O error, or another thread *)
(* of the process inside the store's file lock.  The exception leaves the  *)
(* method, the monitor is released and what was already written stays.     *)

ReadFails(w) ==
    /\ RootBound
    /\ UNCHANGED <<gen, items, queue, outbox, sweep>>

ClaimThrows(w) ==
    /\ ReadFails(w)
    /\ worker[w].pc \in {"polled", "granted"}
    /\ worker[w].pc = "polled" => ~Locked(worker[w].job)
    /\ worker' = [worker EXCEPT ![w] = Idle]
    /\ UNCHANGED <<jobs, artifacts>>

CommitThrows(w) ==
    /\ ReadFails(w)
    /\ \/ /\ worker[w].pc \in {"working", "submitting", "advanced"}
          /\ UNCHANGED <<jobs, artifacts>>
       \/ /\ worker[w].pc = "checked"
          /\ \E o \in Outputs : StoreResult(w, o)
    /\ Return(w)

-----------------------------------------------------------------------------
(* The current claim of k is still in some worker's hands.                 *)
Held(k) == \E w \in Workers : /\ worker[w].job = k
                              /\ worker[w].pc # "polled"
                              /\ worker[w].attempt \in {0, jobs[k].claim}

(* Time passes.  The bound leaves the last attempt its lease.              *)
LeaseExpires(k) ==
    /\ jobs[k].status = "RUNNING"
    /\ ~jobs[k].expired
    /\ jobs[k].attempts < MaxAttempts \/ ~Held(k)
    /\ jobs' = [jobs EXCEPT ![k].expired = TRUE]
    /\ UNCHANGED <<gen, items, queue, artifacts, outbox, worker, sweep>>

(* recoverExpired: the generation is read once, then each job is visited   *)
(* under its lock.                                                         *)
BeginSweep(s) ==
    /\ sweep[s].todo = {}
    /\ sweep' = [sweep EXCEPT ![s] =
                   [gen |-> gen,
                    todo |-> {k \in Keys : jobs[k].status # "ABSENT"}]]
    /\ UNCHANGED <<gen, items, jobs, queue, artifacts, outbox, worker>>

(* Mutant: the status is not looked at.                                    *)
LeaseLostAtAnyStatus(k) == jobs[k].expired

LeaseLost(k) == jobs[k].status = "RUNNING" /\ jobs[k].expired

(* Mutant: the job is not offered again.                                   *)
RequeueWithoutOffer(k) ==
    /\ jobs' = [jobs EXCEPT ![k].status = "RETRY", ![k].claim = 0,
                            ![k].expired = FALSE]
    /\ UNCHANGED queue

Requeue(k) ==
    /\ jobs' = [jobs EXCEPT ![k].status = "RETRY", ![k].claim = 0,
                            ![k].expired = FALSE]
    /\ queue' = queue \cup {k}

SweepJob(s, k) ==
    /\ k \in sweep[s].todo
    /\ ~Locked(k)
    /\ IF ~LeaseLost(k)
       THEN UNCHANGED <<jobs, queue>>
       ELSE IF jobs[k].gen # sweep[s].gen
            THEN /\ jobs' = [jobs EXCEPT ![k].status = "FAILED"]
                 /\ UNCHANGED queue
            ELSE Requeue(k)
    /\ sweep' = [sweep EXCEPT ![s].todo = @ \ {k}]
    /\ UNCHANGED <<gen, items, artifacts, outbox, worker>>

-----------------------------------------------------------------------------
WorkerStep(w) ==
    \/ ClaimGrant(w) \/ ClaimSkip(w) \/ ReturnClaim(w)
    \/ Submit(w) \/ CommitCheck(w)
    \/ \E o \in Outputs : CommitAdvance(w, o)
    \/ Handoff(w)

Next ==
    \/ Rotate
    \/ \E i \in Items : RegisterItem(i)
    \/ \E i \in Items, h \in Inputs : Enqueue(i, h)
    \/ \E w \in Workers, s \in Stages : Poll(w, s)
    \/ \E w \in Workers : WorkerStep(w)
    \/ \E w \in Workers : Drop(w)
    \/ \E w \in Workers : ClaimThrows(w)
    \/ \E w \in Workers : CommitThrows(w)
    \/ \E k \in Keys : LeaseExpires(k)
    \/ \E s \in Sweepers : BeginSweep(s)
    \/ \E s \in Sweepers, k \in Keys : SweepJob(s, k)

Spec == Init /\ [][Next]_vars

(* Worker pools keep polling and finish what they started, the sweep runs  *)
(* periodically, time passes.  Clients, resets and crashes owe nothing.    *)
Fairness ==
    /\ \A s \in Stages : WF_vars(\E w \in Workers : Poll(w, s))
    /\ \A w \in Workers : WF_vars(WorkerStep(w))
    /\ \A k \in Keys : WF_vars(LeaseExpires(k))
    /\ \A s \in Sweepers : /\ WF_vars(BeginSweep(s))
                           /\ WF_vars(\E k \in Keys : SweepJob(s, k))

FairSpec == Spec /\ Fairness

-----------------------------------------------------------------------------
(* Properties *)

Claimed == {"working", "submitting", "checked", "advanced"}

Item     == [stage: Stages \cup {"COMPLETE"}, version: Nat, gen: Nat]
Job      == [status: {"ABSENT", "RUNNING"} \cup Open \cup Final, gen: Nat,
             claim: Nat, attempts: Nat, expired: BOOLEAN]
Artifact == [item: Items, stage: Stages, parent: Hashes, gen: Nat]
Event    == [item: Items, stage: Stages, payload: Outputs, gen: Nat]
Thread   == [pc: {"idle", "polled", "granted"} \cup Claimed,
             job: Keys \cup {None}, attempt: Nat, fence: Nat,
             out: Outputs \cup {None}]
Sweep    == [gen: Nat, todo: SUBSET Keys]

(* Every variable holds a value of its kind; an artifact always names the  *)
(* item, stage and parent hash it came from.                               *)
TypeOK ==
    /\ gen \in 1..MaxGeneration
    /\ items \in [Items -> Item]
    /\ jobs \in [Keys -> Job]
    /\ queue \in SUBSET Keys
    /\ artifacts \in [Outputs -> {NoArtifact} \cup Artifact]
    /\ outbox \in SUBSET Event
    /\ worker \in [Workers -> Thread]
    /\ sweep \in [Sweepers -> Sweep]

Polled(w, k) == worker[w].pc = "polled" /\ worker[w].job = k

(* No ready job is lost and none is queued twice: a READY or RETRY job is  *)
(* in its stage's queue or in the hands of the one worker that polled it,  *)
(* never both, and whatever is there may still be claimed.  It is what     *)
(* makes the status test of claim redundant and the re-offer of            *)
(* recoverExpired necessary.                                               *)
ReadyIsReachable ==
    \A k \in Keys :
        /\ jobs[k].status \in Open <=> \/ k \in queue
                                       \/ \E w \in Workers : Polled(w, k)
        /\ k \in queue => \A w \in Workers : ~Polled(w, k)
        /\ \A v, w \in Workers : Polled(v, k) /\ Polled(w, k) => v = w

(* The current claim of a job is in at most one worker's hands, and no     *)
(* worker holds a claim or fence the job never issued: a claim id belongs  *)
(* to the worker it was given to, also after lease recovery gave the job   *)
(* to another ("Claim is single-winner").                                  *)
ClaimSingleWinner ==
    \A v, w \in Workers :
        /\ worker[v].pc \in Claimed =>
              /\ worker[v].attempt \in 1..jobs[worker[v].job].attempts
              /\ jobs[worker[v].job].gen <= worker[v].fence
              /\ worker[v].fence <= gen
        /\ ( /\ worker[v].pc \in Claimed
             /\ worker[w].pc \in Claimed
             /\ worker[v].job = worker[w].job
             /\ worker[v].attempt = worker[w].attempt ) => v = w

Committed(i) == {k \in Keys : ItemOf(k) = i /\ jobs[k].status = "COMPLETED"}

(* An item's state version is one more than the number of its jobs that    *)
(* completed: no commit is lost and none is counted twice, whichever       *)
(* workers race on the item's jobs.                                        *)
VersionCountsCommits ==
    \A i \in Items :
        items[i].version = IF items[i].version = 0 THEN 0
                           ELSE 1 + Cardinality(Committed(i))

(* The commit of k has reached the item but not yet the next stage.        *)
InHandoff(k) == \E w \in Workers : /\ worker[w].pc = "advanced"
                                   /\ worker[w].job = k

HandedOff(k) ==
    \E o \in Outputs :
        /\ artifacts[o] # NoArtifact
        /\ jobs[Successor(k, o)].status # "ABSENT"
        /\ \E e \in outbox : /\ e.item = ItemOf(k)
                             /\ e.stage = StageOf(k)
                             /\ e.payload = o

(* A completed job of AGENT1 or AGENT2 has handed its output on: the next  *)
(* stage has a job for it, an outbox event announces it, an artifact holds *)
(* it.  Work is never completed without its handoff once the commit call   *)
(* has let go of the job.                                                  *)
HandoffComplete ==
    \A k \in Keys :
        jobs[k].status = "COMPLETED" /\ ~IsLast(k) =>
            HandedOff(k) \/ InHandoff(k)

(* When each item is given one AGENT1 input, its business position is      *)
(* where its work is: the stage with the only job that is not COMPLETED,   *)
(* all earlier stages being completed, except inside a handoff.            *)
PositionMatchesWork ==
    \A k \in Keys :
        /\ jobs[k].status \notin {"ABSENT", "COMPLETED"} =>
              items[ItemOf(k)].stage = StageOf(k)
        /\ jobs[k].status = "COMPLETED" =>
              \/ InHandoff(k) /\ items[ItemOf(k)].stage = NextStage(StageOf(k))
              \/ IsLast(k) /\ items[ItemOf(k)].stage = "COMPLETE"
              \/ \E j \in Keys : /\ ItemOf(j) = ItemOf(k)
                                 /\ StageOf(j) = NextStage(StageOf(k))
                                 /\ jobs[j].status # "ABSENT"

(* A job's outcome is decided once: what is COMPLETED or FAILED is never   *)
(* run, requeued, failed or completed again ("repeated business execution  *)
(* is not" allowed), and a job record never disappears.                    *)
OutcomeIsFinal ==
    [][\A k \in Keys :
         /\ jobs[k].status \in Final => jobs'[k] = jobs[k]
         /\ jobs[k].status # "ABSENT" => jobs'[k].status # "ABSENT"]_vars

(* The step takes w out of the commit it had checked.                      *)
Commits(w) == worker[w].pc = "checked" /\ worker'[w].pc # "checked"

(* Only the holder of the job's latest attempt completes it: a worker      *)
(* whose lease was recovered cannot commit over its successor, nor over a  *)
(* job that is waiting to be retried.                                      *)
LatestAttemptCommits ==
    [][\A k \in Keys :
         jobs[k].status # "COMPLETED" /\ jobs'[k].status = "COMPLETED" =>
            /\ jobs[k].status = "RUNNING"
            /\ \E w \in Workers : /\ Commits(w)
                                  /\ worker[w].job = k
                                  /\ worker[w].attempt = jobs[k].attempts]_vars

(* Every queued job reaches an outcome: workers that die, leases that run  *)
(* out under a live worker and resets only delay it.                       *)
JobsSettle ==
    \A k \in Keys : jobs[k].status # "ABSENT" ~> jobs[k].status \in Final

(* What the documents say of the fence: after a rotation, work admitted    *)
(* before it cannot commit.                                                *)
StaleWorkNeverCommits ==
    [][\A k \in Keys :
         jobs[k].status # "COMPLETED" /\ jobs'[k].status = "COMPLETED" =>
            jobs[k].gen = gen]_vars

-----------------------------------------------------------------------------
(* The parts of the inductive invariant behind the properties above.       *)

BusyHasJob ==
    \A w \in Workers :
        /\ worker[w].pc # "idle" => worker[w].job \in Keys
        /\ worker[w].pc = "advanced" => /\ ~IsLast(worker[w].job)
                                        /\ worker[w].out \in Outputs

TypeInv == TypeOK /\ BusyHasJob

LockExclusive ==
    \A v, w \in Workers :
        ( /\ worker[v].pc \in LockHeld
          /\ worker[w].pc \in LockHeld
          /\ worker[v].job = worker[w].job ) => v = w

RunningIsClaimed ==
    \A k \in Keys :
        /\ jobs[k].gen <= gen
        /\ jobs[k].status = "ABSENT" => jobs[k].attempts = 0
        /\ jobs[k].status = "RUNNING" =>
              /\ jobs[k].claim = jobs[k].attempts
              /\ jobs[k].attempts > 0

(* The half-returned claim is newer than every claim handed out before.    *)
GrantIsNewest ==
    \A v, w \in Workers :
        /\ worker[v].pc = "granted" => jobs[worker[v].job].status = "RUNNING"
        /\ ( /\ worker[v].pc = "granted"
             /\ worker[w].pc \in Claimed
             /\ worker[v].job = worker[w].job ) =>
                worker[w].attempt < jobs[worker[v].job].attempts

CheckStillHolds ==
    \A w \in Workers : worker[w].pc = "checked" =>
        /\ jobs[worker[w].job].status = "RUNNING"
        /\ jobs[worker[w].job].claim = worker[w].attempt

ClaimInv ==
    /\ TypeInv
    /\ LockExclusive
    /\ RunningIsClaimed
    /\ GrantIsNewest
    /\ CheckStillHolds
    /\ ClaimSingleWinner

-----------------------------------------------------------------------------
(* Refinement: the queue implements StageWork.                             *)

Outcome(k) == CASE jobs[k].status = "ABSENT"    -> "none"
                [] jobs[k].status = "COMPLETED" -> "done"
                [] jobs[k].status = "FAILED"    -> "dead"
                [] OTHER                        -> "open"

Promise == INSTANCE StageWork WITH
    FirstStage <- "AGENT1",
    LastStage  <- "AGENT3",
    Following  <- NextStage,
    outcome    <- [k \in Keys |-> Outcome(k)],
    version    <- [i \in Items |-> items[i].version],
    owed       <- {k \in Keys : InHandoff(k)}

(* Every step of the threads is a step of StageWork or leaves it alone:    *)
(* whatever the interleaving, work is decided once and opened only by a    *)
(* client or by the handoff it is owed to.                                 *)
ImplementsStageWork == Promise!Spec

(* Under the scheduling assumed, the debt of a handoff is always paid.     *)
ImplementsFairStageWork == Promise!FairSpec
=============================================================================
