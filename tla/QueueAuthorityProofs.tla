------------------------ MODULE QueueAuthorityProofs ------------------------
(* Theorems about QueueAuthority, for all values of its constants.         *)
EXTENDS QueueAuthority, TLAPS

(* The worker's call returns: it holds no job any more, or the claim it    *)
(* held before.                                                            *)
LEMMA ReturnStep ==
    ASSUME TypeOK, NEW w \in Workers, Return(w)
    PROVE  /\ worker' \in [Workers -> Thread]
           /\ \A v \in Workers \ {w} : worker'[v] = worker[v]
           /\ \/ worker'[w] = Idle
              \/ /\ worker'[w].pc = "working"
                 /\ worker'[w].job = worker[w].job
                 /\ worker'[w].attempt = worker[w].attempt
                 /\ worker'[w].fence = worker[w].fence
    BY DEF TypeOK, Thread, Return, Idle, Claimed

(* The fields of an empty control plane hold values of their kinds.        *)
LEMMA InitType == Init => TypeOK
    BY QueueAssumption
    DEF Init, TypeOK, Item, Job, Artifact, Event, Thread, Sweep, NoJob, Idle,
        NoSweep, NoArtifact, Keys, Stages, Open, Final, Claimed

(* enqueue creates a well-formed job.                                      *)
LEMMA NewJobType == \A g \in Nat : NewJob(g) \in Job
    BY DEF NewJob, Job, Open

(* The insertion of enqueue adds a READY job under an absent key and puts  *)
(* it in the queue, or changes neither.                                    *)
LEMMA AdmitType ==
    ASSUME TypeOK, NEW k \in Keys, Admit(k)
    PROVE  /\ jobs' \in [Keys -> Job]
           /\ queue' \in SUBSET Keys
           /\ sweep' \in [Sweepers -> Sweep]
           /\ \A j \in Keys \ {k} : jobs'[j] = jobs[j]
           /\ \/ /\ jobs[k].status = "ABSENT"
                 /\ jobs'[k] = NewJob(gen)
                 /\ queue' = queue \cup {k}
              \/ /\ jobs[k].status # "ABSENT"
                 /\ jobs' = jobs
                 /\ queue' = queue
  <1>1. CASE jobs[k].status = "ABSENT"
    <2>1. jobs' = [jobs EXCEPT ![k] = NewJob(gen)] /\ queue' = queue \cup {k}
      BY <1>1 DEF Admit
    <2>2. NewJob(gen) \in Job
      BY NewJobType, QueueAssumption DEF TypeOK
    <2>3. PICK seen \in SUBSET {s \in Sweepers : sweep[s].todo # {}} :
               sweep' = [s \in Sweepers |->
                           IF s \in seen
                           THEN [sweep[s] EXCEPT !.todo = @ \cup {k}]
                           ELSE sweep[s]]
      BY <1>1 DEF Admit
    <2>4. sweep' \in [Sweepers -> Sweep]
      BY <2>3 DEF TypeOK, Sweep
    <2>. QED BY <1>1, <2>1, <2>2, <2>4 DEF TypeOK
  <1>2. CASE jobs[k].status # "ABSENT"
    BY <1>2 DEF Admit, TypeOK
  <1>. QED BY <1>1, <1>2

(* The parts of a job key.                                                 *)
LEMMA KeyParts ==
    \A k \in Keys : /\ ItemOf(k) \in Items
                    /\ StageOf(k) \in Stages
                    /\ InputOf(k) \in Hashes
                    /\ NextStage(StageOf(k)) \in Stages \cup {"COMPLETE"}
    BY DEF Keys, ItemOf, StageOf, InputOf, NextStage, Stages

(* The job a handoff opens is a job of the next stage.                     *)
LEMMA SuccessorKey ==
    ASSUME NEW k \in Keys, NEW o \in Outputs, ~IsLast(k)
    PROVE  Successor(k, o) \in Keys
    BY DEF Keys, Hashes, Successor, IsLast, ItemOf, StageOf, NextStage, Stages

(* Storing a result keeps jobs and artifacts well-formed.                  *)
LEMMA StoreType ==
    ASSUME TypeInv, NEW w \in Workers, NEW o \in Outputs,
           worker[w].pc = "checked", StoreResult(w, o)
    PROVE  /\ artifacts' \in [Outputs -> {NoArtifact} \cup Artifact]
           /\ jobs' \in [Keys -> Job]
  <1>. DEFINE k == worker[w].job
  <1>1. k \in Keys /\ worker[w] \in Thread
    BY DEF TypeInv, TypeOK, BusyHasJob
  <1>2. ArtifactOf(k, worker[w].fence) \in Artifact
    BY <1>1, KeyParts DEF ArtifactOf, Artifact, Thread
  <1>3. artifacts' \in [Outputs -> {NoArtifact} \cup Artifact]
    BY <1>2 DEF StoreResult, TypeInv, TypeOK
  <1>4. jobs' = [jobs EXCEPT ![k].status = "COMPLETED"]
    BY DEF StoreResult
  <1>5. jobs' \in [Keys -> Job]
    BY <1>1, <1>4 DEF TypeInv, TypeOK, Job, Final
  <1>. QED BY <1>3, <1>5

(* A step leaves every variable with a value of its kind, and every busy   *)
(* worker with a job.                                                      *)
LEMMA StepType == TypeInv /\ [Next]_vars => TypeInv'
  <1>. SUFFICES ASSUME TypeInv, [Next]_vars PROVE TypeInv'
    OBVIOUS
  <1>. USE DEF TypeInv
  <1>1. CASE Rotate
    BY <1>1, QueueAssumption DEF Rotate, TypeOK, BusyHasJob
  <1>2. ASSUME NEW i \in Items, RegisterItem(i) PROVE TypeInv'
    BY <1>2, QueueAssumption DEF RegisterItem, TypeOK, BusyHasJob, Item, Stages
  <1>3. ASSUME NEW i \in Items, NEW h \in Inputs, Enqueue(i, h) PROVE TypeInv'
    <2>1. <<i, "AGENT1", h>> \in Keys
      BY DEF Keys, Stages, Hashes
    <2>. QED BY <1>3, <2>1, AdmitType DEF Enqueue, TypeOK, BusyHasJob
  <1>4. ASSUME NEW w \in Workers, NEW s \in Stages, Poll(w, s) PROVE TypeInv'
    <2>1. PICK k \in queue :
             /\ queue' = queue \ {k}
             /\ worker' = [worker EXCEPT ![w].pc = "polled", ![w].job = k]
      BY <1>4 DEF Poll
    <2>2. k \in Keys BY DEF TypeOK
    <2>3. worker' \in [Workers -> Thread]
      BY <2>1, <2>2 DEF TypeOK, Thread
    <2>4. BusyHasJob' BY <2>1, <2>2 DEF TypeOK, BusyHasJob, Thread
    <2>. QED BY <1>4, <2>1, <2>3, <2>4 DEF Poll, TypeOK
  <1>5. ASSUME NEW w \in Workers, ClaimGrant(w) PROVE TypeInv'
    <2>1. worker[w].job \in Keys BY <1>5 DEF ClaimGrant, BusyHasJob
    <2>2. jobs' \in [Keys -> Job]
      BY <1>5, <2>1 DEF ClaimGrant, NewClaimId, TypeOK, Job
    <2>3. worker' \in [Workers -> Thread]
      BY <1>5 DEF ClaimGrant, TypeOK, Thread
    <2>4. BusyHasJob' BY <1>5 DEF ClaimGrant, TypeOK, BusyHasJob, Thread
    <2>. QED BY <1>5, <2>2, <2>3, <2>4 DEF ClaimGrant, TypeOK
  <1>6. ASSUME NEW w \in Workers, ClaimSkip(w) PROVE TypeInv'
    <2>1. worker[w].job \in Keys BY <1>6 DEF ClaimSkip, BusyHasJob
    <2>2. jobs' \in [Keys -> Job]
      BY <1>6, <2>1 DEF ClaimSkip, TypeOK, Job, Final
    <2>. QED BY <1>6, <2>2 DEF ClaimSkip, TypeOK, BusyHasJob, Thread, Idle
  <1>7. ASSUME NEW w \in Workers, ReturnClaim(w) PROVE TypeInv'
    <2>1. jobs[worker[w].job].claim \in Nat /\ gen \in Nat
      BY <1>7, QueueAssumption DEF ReturnClaim, BusyHasJob, TypeOK, Job
    <2>. DEFINE r == [worker[w] EXCEPT !.pc = "working", !.fence = gen,
                        !.attempt = jobs[worker[w].job].claim]
    <2>4. worker[w] \in Thread BY DEF TypeOK
    <2>5. r \in Thread BY <2>1, <2>4 DEF Thread, Claimed
    <2>6. worker' = [worker EXCEPT ![w] = r]
      BY <1>7 DEF ReturnClaim, TypeOK
    <2>2. worker' \in [Workers -> Thread]
      BY <2>5, <2>6 DEF TypeOK
    <2>3. BusyHasJob'
      BY <1>7 DEF ReturnClaim, TypeOK, BusyHasJob, Thread
    <2>. QED BY <1>7, <2>2, <2>3 DEF ReturnClaim, TypeOK
  <1>8. ASSUME NEW w \in Workers, Submit(w) PROVE TypeInv'
    <2>1. CASE worker[w].fence = gen
      <3>1. worker' = [worker EXCEPT ![w].pc = "submitting"]
        BY <1>8, <2>1 DEF Submit
      <3>2. worker' \in [Workers -> Thread]
        BY <3>1 DEF TypeOK, Thread, Claimed
      <3>3. BusyHasJob'
        BY <1>8, <3>1 DEF Submit, TypeOK, BusyHasJob, Thread
      <3>. QED BY <1>8, <3>2, <3>3 DEF Submit, TypeOK
    <2>2. CASE worker[w].fence # gen
      BY <1>8, <2>2, ReturnStep DEF Submit, TypeOK, BusyHasJob, Idle
    <2>. QED BY <2>1, <2>2
  <1>9. ASSUME NEW w \in Workers, CommitCheck(w) PROVE TypeInv'
    <2>1. CASE Committable(w)
      <3>1. worker' = [worker EXCEPT ![w].pc = "checked"]
        BY <1>9, <2>1 DEF CommitCheck
      <3>2. worker' \in [Workers -> Thread]
        BY <3>1 DEF TypeOK, Thread, Claimed
      <3>3. BusyHasJob'
        BY <1>9, <3>1 DEF CommitCheck, TypeOK, BusyHasJob, Thread
      <3>. QED BY <1>9, <3>2, <3>3 DEF CommitCheck, TypeOK
    <2>2. CASE ~Committable(w)
      BY <1>9, <2>2, ReturnStep DEF CommitCheck, TypeOK, BusyHasJob, Idle
    <2>. QED BY <2>1, <2>2
  <1>10. ASSUME NEW w \in Workers, NEW o \in Outputs, CommitAdvance(w, o)
         PROVE TypeInv'
    <2>. DEFINE k == worker[w].job
    <2>1. k \in Keys BY <1>10 DEF CommitAdvance, BusyHasJob
    <2>2. Advanced(k) \in Item
      BY <2>1, KeyParts, QueueAssumption DEF Advanced, Item, TypeOK
    <2>3. items' \in [Items -> Item]
      BY <1>10, <2>2 DEF CommitAdvance, TypeOK
    <2>4. worker' \in [Workers -> Thread] /\ BusyHasJob'
      <3>1. CASE IsLast(k)
        BY <1>10, <3>1, ReturnStep DEF CommitAdvance, BusyHasJob, TypeOK, Idle
      <3>2. CASE ~IsLast(k)
        BY <1>10, <3>2 DEF CommitAdvance, BusyHasJob, TypeOK, Thread, Claimed
      <3>. QED BY <3>1, <3>2
    <2>. QED BY <1>10, <2>3, <2>4, StoreType DEF CommitAdvance, TypeOK
  <1>11. ASSUME NEW w \in Workers, Handoff(w) PROVE TypeInv'
    <2>. DEFINE k == worker[w].job
                o == worker[w].out
                e == [item |-> ItemOf(k), stage |-> StageOf(k),
                      payload |-> o, gen |-> worker[w].fence]
    <2>1. k \in Keys /\ ~IsLast(k) /\ o \in Outputs /\ worker[w] \in Thread
      BY <1>11 DEF Handoff, BusyHasJob, TypeOK
    <2>2. Successor(k, o) \in Keys BY <2>1, SuccessorKey
    <2>3. e \in Event BY <2>1, KeyParts DEF Event, Thread
    <2>4. outbox' \in SUBSET Event BY <1>11, <2>3 DEF Handoff, TypeOK
    <2>5. Admit(Successor(k, o)) BY <1>11 DEF Handoff, OpenNext
    <2>6. /\ jobs' \in [Keys -> Job]
          /\ queue' \in SUBSET Keys
          /\ sweep' \in [Sweepers -> Sweep]
      BY <2>2, <2>5, AdmitType
    <2>7. worker' \in [Workers -> Thread] /\ BusyHasJob'
      BY <1>11, ReturnStep DEF Handoff, BusyHasJob, Idle
    <2>. QED BY <1>11, <2>4, <2>6, <2>7 DEF Handoff, TypeOK
  <1>12. ASSUME NEW w \in Workers, Drop(w) PROVE TypeInv'
    BY <1>12 DEF Drop, TypeOK, BusyHasJob, Thread, Idle
  <1>13. ASSUME NEW w \in Workers, ClaimThrows(w) PROVE TypeInv'
    BY <1>13 DEF ClaimThrows, ReadFails, TypeOK, BusyHasJob, Thread, Idle
  <1>14. ASSUME NEW w \in Workers, CommitThrows(w) PROVE TypeInv'
    <2>1. /\ artifacts' \in [Outputs -> {NoArtifact} \cup Artifact]
          /\ jobs' \in [Keys -> Job]
      BY <1>14, StoreType DEF CommitThrows, TypeOK
    <2>2. worker[w].pc # "idle" BY <1>14 DEF CommitThrows
    <2>3. worker' \in [Workers -> Thread] /\ BusyHasJob'
      BY <1>14, <2>2, ReturnStep DEF CommitThrows, BusyHasJob, Idle
    <2>. QED BY <1>14, <2>1, <2>3 DEF CommitThrows, ReadFails, TypeOK
  <1>15. ASSUME NEW k \in Keys, LeaseExpires(k) PROVE TypeInv'
    BY <1>15 DEF LeaseExpires, TypeOK, BusyHasJob, Job
  <1>16. ASSUME NEW s \in Sweepers, BeginSweep(s) PROVE TypeInv'
    BY <1>16, QueueAssumption DEF BeginSweep, TypeOK, BusyHasJob, Sweep
  <1>17. ASSUME NEW s \in Sweepers, NEW k \in Keys, SweepJob(s, k) PROVE TypeInv'
    <2>1. jobs' \in [Keys -> Job] /\ queue' \in SUBSET Keys
      BY <1>17 DEF SweepJob, Requeue, TypeOK, Job, Open, Final
    <2>2. sweep' \in [Sweepers -> Sweep]
      BY <1>17 DEF SweepJob, TypeOK, Sweep
    <2>. QED BY <1>17, <2>1, <2>2 DEF SweepJob, TypeOK, BusyHasJob
  <1>18. CASE UNCHANGED vars
    BY <1>18 DEF vars, TypeOK, BusyHasJob
  <1>. QED
    BY <1>1, <1>2, <1>3, <1>4, <1>5, <1>6, <1>7, <1>8, <1>9, <1>10, <1>11,
       <1>12, <1>13, <1>14, <1>15, <1>16, <1>17, <1>18 DEF Next, WorkerStep

(* Every variable always holds a value of its kind.                        *)
THEOREM TypeCorrect == Spec => []TypeOK
  <1>1. Init => TypeInv
    BY InitType DEF Init, TypeInv, BusyHasJob, Idle
  <1>2. TypeInv => TypeOK BY DEF TypeInv
  <1>. QED BY <1>1, <1>2, StepType, PTL DEF Spec

-----------------------------------------------------------------------------
(* The claims.  Most steps only give claims back: no job becomes RUNNING,  *)
(* no worker gets a claim, and no job whose lock another worker holds is   *)
(* touched.  Such steps are treated together.                              *)

(* The worker has no claim, or the one it had, outside the check.          *)
Recedes(w) ==
    \/ worker'[w] = worker[w]
    \/ worker'[w].pc \in {"idle", "polled"}
    \/ /\ worker'[w].pc \in {"working", "submitting", "advanced"}
       /\ worker'[w].pc = "advanced" => worker[w].pc \in LockHeld
       /\ worker[w].pc \in Claimed
       /\ worker'[w].job = worker[w].job
       /\ worker'[w].attempt = worker[w].attempt
       /\ worker'[w].fence = worker[w].fence

(* Nothing that a worker which keeps the lock of job k relies on changes.  *)
Slackens(k) ==
    \/ /\ jobs'[k].status = jobs[k].status
       /\ jobs'[k].claim = jobs[k].claim
       /\ jobs'[k].attempts = jobs[k].attempts
       /\ jobs'[k].gen = jobs[k].gen
    \/ /\ jobs[k].status = "ABSENT"
       /\ jobs'[k] = NewJob(gen)
    \/ /\ \A v \in Workers :
              worker[v].pc \in LockHeld /\ worker[v].job = k =>
                  worker'[v].pc \notin {"granted", "checked"}
       /\ jobs'[k].status \notin {"ABSENT", "RUNNING"}
       /\ jobs'[k].attempts = jobs[k].attempts
       /\ jobs'[k].gen = jobs[k].gen

(* A step that gives claims back preserves the invariant.                  *)
LEMMA SlackStep ==
    ASSUME ClaimInv, TypeInv', gen <= gen',
           \A v \in Workers : Recedes(v),
           \A k \in Keys : Slackens(k)
    PROVE  ClaimInv'
  <1>. USE DEF ClaimInv
  <1>1. \A v \in Workers : /\ worker[v].attempt \in Nat /\ worker[v].fence \in Nat
                           /\ worker'[v].attempt \in Nat /\ worker'[v].fence \in Nat
    BY DEF TypeInv, TypeOK, Thread
  <1>2. \A k \in Keys : /\ jobs[k].attempts \in Nat /\ jobs[k].gen \in Nat
                        /\ jobs[k].claim \in Nat /\ jobs'[k].attempts \in Nat
                        /\ jobs'[k].claim \in Nat /\ jobs'[k].gen \in Nat
    BY DEF TypeInv, TypeOK, Job
  <1>3. gen \in Nat /\ gen' \in Nat
    BY QueueAssumption DEF TypeInv, TypeOK
  <1>4. \A v \in Workers : /\ worker[v].pc # "idle" => worker[v].job \in Keys
                           /\ worker'[v].pc # "idle" => worker'[v].job \in Keys
    BY DEF TypeInv, BusyHasJob
  <1>5. \A v \in Workers :
           /\ worker'[v].pc \in LockHeld => /\ worker[v].pc \in LockHeld
                                          /\ worker'[v].job = worker[v].job
           /\ worker'[v].pc \in {"granted", "checked"} => worker'[v] = worker[v]
           /\ worker'[v].pc \in Claimed =>
                  /\ worker[v].pc \in Claimed
                  /\ worker'[v].job = worker[v].job
                  /\ worker'[v].attempt = worker[v].attempt
                  /\ worker'[v].fence = worker[v].fence
    BY DEF Recedes, LockHeld, Claimed
  <1>6. LockExclusive'
    BY <1>5 DEF LockExclusive
  <1>7. RunningIsClaimed'
    BY <1>2, <1>3 DEF RunningIsClaimed, Slackens, NewJob
  <1>8. \A v \in Workers : worker[v].pc \in Claimed =>
           /\ jobs[worker[v].job].status # "ABSENT"
           /\ jobs'[worker[v].job].attempts = jobs[worker[v].job].attempts
           /\ jobs'[worker[v].job].gen = jobs[worker[v].job].gen
    BY <1>1, <1>2, <1>4 DEF RunningIsClaimed, ClaimSingleWinner, Slackens, Claimed
  <1>9. \A v \in Workers : worker'[v].pc \in {"granted", "checked"} =>
           /\ jobs[worker[v].job].status = "RUNNING"
           /\ jobs'[worker[v].job].status = "RUNNING"
           /\ jobs'[worker[v].job].claim = jobs[worker[v].job].claim
           /\ jobs'[worker[v].job].attempts = jobs[worker[v].job].attempts
    BY <1>4, <1>5 DEF GrantIsNewest, CheckStillHolds, Slackens, LockHeld
  <1>10. GrantIsNewest'
    BY <1>1, <1>2, <1>5, <1>9 DEF GrantIsNewest
  <1>11. CheckStillHolds'
    BY <1>5, <1>9 DEF CheckStillHolds
  <1>12. ClaimSingleWinner'
    BY <1>1, <1>2, <1>3, <1>4, <1>5, <1>8 DEF ClaimSingleWinner
  <1>. QED BY <1>6, <1>7, <1>10, <1>11, <1>12
(* The call returns: every worker recedes.                                 *)
LEMMA ReturnRecedes ==
    ASSUME TypeInv, NEW w \in Workers, Return(w), worker[w].pc \in Claimed
    PROVE  /\ \A v \in Workers : Recedes(v)
           /\ worker'[w].pc \notin LockHeld
    BY ReturnStep DEF TypeInv, Recedes, Idle, LockHeld

(* The insertion of a job changes no job that is there.                    *)
LEMMA AdmitSlackens ==
    ASSUME TypeInv, NEW j \in Keys, Admit(j)
    PROVE  \A k \in Keys : Slackens(k)
    BY AdmitType DEF TypeInv, Slackens

(* To complete the job a worker holds the lock of slackens every job.      *)
LEMMA StoreSlackens ==
    ASSUME ClaimInv, NEW w \in Workers, worker[w].pc = "checked",
           NEW o \in Outputs, StoreResult(w, o),
           worker'[w].pc \notin {"granted", "checked"}
    PROVE  \A k \in Keys : Slackens(k)
  <1>1. worker[w].job \in Keys
    BY DEF ClaimInv, TypeInv, BusyHasJob
  <1>2. \A v \in Workers \ {w} :
           ~(worker[v].pc \in LockHeld /\ worker[v].job = worker[w].job)
    BY DEF ClaimInv, LockExclusive, LockHeld
  <1>3. jobs' = [jobs EXCEPT ![worker[w].job].status = "COMPLETED"]
    BY DEF StoreResult
  <1>. QED BY <1>1, <1>2, <1>3 DEF Slackens, ClaimInv, TypeInv, TypeOK, Job

(* No two workers ever hold the same claim, whatever the interleaving.     *)
LEMMA StepClaims == ClaimInv /\ [Next]_vars => ClaimInv'
  <1>. SUFFICES ASSUME ClaimInv, [Next]_vars PROVE ClaimInv'
    OBVIOUS
  <1>1. TypeInv /\ TypeInv' /\ TypeOK /\ gen \in Nat
    BY StepType, QueueAssumption DEF ClaimInv, TypeInv, TypeOK
  <1>. DEFINE SameJobs == \A k \in Keys : Slackens(k)
              SameWorkers == \A w \in Workers : Recedes(w)
  <1>2. UNCHANGED jobs => SameJobs
    BY DEF Slackens
  <1>3. UNCHANGED worker => SameWorkers
    BY DEF Recedes
  <1>4. gen' \in {gen, gen + 1} /\ SameJobs /\ SameWorkers => ClaimInv'
    BY <1>1, SlackStep
  <1>. HIDE DEF SameJobs, SameWorkers
  <1>5. CASE Rotate \/ UNCHANGED vars
    BY <1>2, <1>3, <1>4, <1>5 DEF Rotate, vars
  <1>6. ASSUME NEW i \in Items, RegisterItem(i) PROVE ClaimInv'
    BY <1>2, <1>3, <1>4, <1>6 DEF RegisterItem
  <1>7. ASSUME NEW i \in Items, NEW h \in Inputs, Enqueue(i, h) PROVE ClaimInv'
    <2>1. <<i, "AGENT1", h>> \in Keys
      BY DEF Keys, Stages, Hashes
    <2>2. SameJobs
      BY <1>1, <1>7, <2>1, AdmitSlackens DEF Enqueue, SameJobs
    <2>. QED BY <1>3, <1>4, <1>7, <2>2 DEF Enqueue
  <1>8. ASSUME NEW w \in Workers, NEW s \in Stages, Poll(w, s) PROVE ClaimInv'
    <2>1. SameWorkers
      BY <1>1, <1>8 DEF Poll, SameWorkers, Recedes, TypeOK, Thread
    <2>. QED BY <1>2, <1>4, <1>8, <2>1 DEF Poll
  <1>9. ASSUME NEW w \in Workers, ClaimGrant(w) PROVE ClaimInv'
    <2>. DEFINE k == worker[w].job
    <2>1. k \in Keys /\ jobs[k] \in Job /\ jobs[k].attempts \in Nat
      BY <1>1, <1>9 DEF ClaimGrant, TypeInv, TypeOK, BusyHasJob, Job
    <2>2. /\ jobs'[k].status = "RUNNING"
          /\ jobs'[k].attempts = jobs[k].attempts + 1
          /\ jobs'[k].claim = jobs[k].attempts + 1
          /\ jobs'[k].gen = jobs[k].gen
          /\ \A j \in Keys \ {k} : jobs'[j] = jobs[j]
          /\ gen' = gen
      BY <1>1, <1>9, <2>1 DEF ClaimGrant, NewClaimId, TypeOK, Job
    <2>3. /\ worker'[w].pc = "granted"
          /\ worker'[w].job = k
          /\ \A v \in Workers \ {w} : worker'[v] = worker[v]
          /\ \A v \in Workers : ~(worker[v].pc \in LockHeld /\ worker[v].job = k)
      BY <1>1, <1>9 DEF ClaimGrant, TypeOK, Thread, Locked
    <2>4. \A v \in Workers : worker[v].attempt \in Nat
      BY <1>1 DEF TypeOK, Thread
    <2>5. \A j \in Keys : jobs[j].attempts \in Nat
      BY <1>1 DEF TypeOK, Job
    <2>6. \A v \in Workers : worker[v].pc # "idle" => worker[v].job \in Keys
      BY <1>1 DEF TypeInv, BusyHasJob
    <2>7. LockExclusive'
      BY <2>3 DEF ClaimInv, LockExclusive
    <2>8. RunningIsClaimed'
      BY <2>1, <2>2 DEF ClaimInv, RunningIsClaimed
    <2>9. GrantIsNewest'
      BY <2>1, <2>2, <2>3, <2>4, <2>5, <2>6
      DEF ClaimInv, GrantIsNewest, ClaimSingleWinner, LockHeld, Claimed
    <2>10. CheckStillHolds'
      BY <2>2, <2>3, <2>6 DEF ClaimInv, CheckStillHolds, LockHeld
    <2>11. ClaimSingleWinner'
      BY <2>1, <2>2, <2>3, <2>4, <2>5, <2>6
      DEF ClaimInv, ClaimSingleWinner, Claimed
    <2>. QED BY <1>1, <2>7, <2>8, <2>9, <2>10, <2>11 DEF ClaimInv
  <1>10. ASSUME NEW w \in Workers, ClaimSkip(w) PROVE ClaimInv'
    <2>1. SameWorkers
      BY <1>1, <1>10 DEF ClaimSkip, SameWorkers, Recedes, Idle, TypeOK
    <2>2. SameJobs
      BY <1>1, <1>10
      DEF ClaimSkip, SameJobs, Slackens, Locked, Open, TypeInv, TypeOK, Job,
          BusyHasJob
    <2>. QED BY <1>4, <1>10, <2>1, <2>2 DEF ClaimSkip
  <1>11. ASSUME NEW w \in Workers, ReturnClaim(w) PROVE ClaimInv'
    <2>. DEFINE k == worker[w].job
    <2>1. k \in Keys /\ jobs[k].attempts \in Nat /\ jobs[k].gen \in Nat
      BY <1>1, <1>11 DEF ReturnClaim, TypeInv, TypeOK, BusyHasJob, Job
    <2>2. /\ jobs[k].status = "RUNNING"
          /\ jobs[k].claim = jobs[k].attempts
          /\ jobs[k].attempts > 0
          /\ jobs[k].gen <= gen
      BY <1>11, <2>1
      DEF ReturnClaim, ClaimInv, GrantIsNewest, RunningIsClaimed
    <2>3. /\ worker'[w].pc = "working"
          /\ worker'[w].job = k
          /\ worker'[w].attempt = jobs[k].attempts
          /\ worker'[w].fence = gen
          /\ \A v \in Workers \ {w} : worker'[v] = worker[v]
      BY <1>1, <1>11, <2>2 DEF ReturnClaim, TypeOK, Thread
    <2>4. jobs' = jobs /\ gen' = gen
      BY <1>11 DEF ReturnClaim
    <2>5. \A v \in Workers : worker[v].attempt \in Nat
      BY <1>1 DEF TypeOK, Thread
    <2>6. \A v \in Workers \ {w} :
             ~(worker[v].pc \in LockHeld /\ worker[v].job = k)
      BY <1>11 DEF ReturnClaim, ClaimInv, LockExclusive, LockHeld
    <2>7. \A v \in Workers \ {w} :
             worker[v].pc \in Claimed /\ worker[v].job = k =>
                worker[v].attempt < jobs[k].attempts
      BY <1>11 DEF ReturnClaim, ClaimInv, GrantIsNewest
    <2>8. LockExclusive'
      BY <2>3 DEF ClaimInv, LockExclusive, LockHeld
    <2>9. RunningIsClaimed'
      BY <2>4 DEF ClaimInv, RunningIsClaimed
    <2>10. GrantIsNewest'
      BY <2>3, <2>4, <2>6 DEF ClaimInv, GrantIsNewest, LockHeld
    <2>11. CheckStillHolds'
      BY <2>3, <2>4 DEF ClaimInv, CheckStillHolds
    <2>12. ClaimSingleWinner'
      BY <1>1, <2>1, <2>2, <2>3, <2>4, <2>5, <2>7 DEF ClaimInv, ClaimSingleWinner
    <2>. QED BY <1>1, <2>8, <2>9, <2>10, <2>11, <2>12 DEF ClaimInv
  <1>12. ASSUME NEW w \in Workers, Submit(w) PROVE ClaimInv'
    <2>1. SameWorkers
      <3>1. CASE worker[w].fence = gen
        BY <1>1, <1>12, <3>1
        DEF Submit, SameWorkers, Recedes, TypeOK, Thread, Claimed
      <3>2. CASE worker[w].fence # gen
        BY <1>1, <1>12, <3>2, ReturnRecedes DEF Submit, SameWorkers, Claimed
      <3>. QED BY <3>1, <3>2
    <2>. QED BY <1>2, <1>4, <1>12, <2>1 DEF Submit
  <1>13. ASSUME NEW w \in Workers, CommitCheck(w) PROVE ClaimInv'
    <2>1. CASE Committable(w)
      <3>. DEFINE k == worker[w].job
      <3>1. /\ worker'[w].pc = "checked"
            /\ worker'[w].job = k
            /\ worker'[w].attempt = worker[w].attempt
            /\ worker'[w].fence = worker[w].fence
            /\ \A v \in Workers \ {w} : worker'[v] = worker[v]
            /\ jobs' = jobs
            /\ gen' = gen
        BY <1>1, <1>13, <2>1 DEF CommitCheck, TypeOK, Thread
      <3>2. \A v \in Workers : ~(worker[v].pc \in LockHeld /\ worker[v].job = k)
        BY <1>13 DEF CommitCheck, Locked
      <3>3. worker[w].pc \in Claimed
        BY <1>13 DEF CommitCheck, Claimed
      <3>4. LockExclusive'
        BY <3>1, <3>2 DEF ClaimInv, LockExclusive
      <3>5. RunningIsClaimed'
        BY <3>1 DEF ClaimInv, RunningIsClaimed
      <3>6. GrantIsNewest'
        BY <3>1, <3>3 DEF ClaimInv, GrantIsNewest
      <3>7. CheckStillHolds'
        BY <2>1, <3>1 DEF ClaimInv, CheckStillHolds, Committable
      <3>8. ClaimSingleWinner'
        BY <3>1, <3>3 DEF ClaimInv, ClaimSingleWinner
      <3>. QED BY <1>1, <3>4, <3>5, <3>6, <3>7, <3>8 DEF ClaimInv
    <2>2. CASE ~Committable(w)
      <3>1. SameWorkers
        BY <1>1, <1>13, <2>2, ReturnRecedes DEF CommitCheck, SameWorkers, Claimed
      <3>. QED BY <1>2, <1>4, <1>13, <3>1 DEF CommitCheck
    <2>. QED BY <2>1, <2>2
  <1>14. ASSUME NEW w \in Workers, NEW o \in Outputs, CommitAdvance(w, o)
         PROVE ClaimInv'
    <2>1. SameWorkers /\ worker'[w].pc \notin {"granted", "checked"}
      <3>1. CASE IsLast(worker[w].job)
        BY <1>1, <1>14, <3>1, ReturnRecedes
        DEF CommitAdvance, SameWorkers, Claimed, LockHeld
      <3>2. CASE ~IsLast(worker[w].job)
        BY <1>1, <1>14, <3>2
        DEF CommitAdvance, SameWorkers, Recedes, TypeOK, Thread, Claimed, LockHeld
      <3>. QED BY <3>1, <3>2
    <2>2. SameJobs
      BY <1>14, <2>1, StoreSlackens DEF CommitAdvance, SameJobs
    <2>. QED BY <1>4, <1>14, <2>1, <2>2 DEF CommitAdvance
  <1>15. ASSUME NEW w \in Workers, Handoff(w) PROVE ClaimInv'
    <2>1. Successor(worker[w].job, worker[w].out) \in Keys
      BY <1>1, <1>15, SuccessorKey DEF Handoff, TypeInv, BusyHasJob
    <2>2. SameJobs
      BY <1>1, <1>15, <2>1, AdmitSlackens DEF Handoff, OpenNext, SameJobs
    <2>3. SameWorkers
      BY <1>1, <1>15, ReturnRecedes DEF Handoff, SameWorkers, Claimed
    <2>. QED BY <1>4, <1>15, <2>2, <2>3 DEF Handoff
  <1>16. ASSUME NEW w \in Workers, Drop(w) \/ ClaimThrows(w) PROVE ClaimInv'
    <2>1. SameWorkers
      BY <1>1, <1>16 DEF Drop, ClaimThrows, SameWorkers, Recedes, Idle, TypeOK
    <2>. QED BY <1>2, <1>4, <1>16, <2>1 DEF Drop, ClaimThrows, ReadFails
  <1>17. ASSUME NEW w \in Workers, CommitThrows(w) PROVE ClaimInv'
    <2>1. SameWorkers /\ worker'[w].pc \notin LockHeld
      BY <1>1, <1>17, ReturnRecedes DEF CommitThrows, SameWorkers, Claimed
    <2>2. SameJobs
      BY <1>2, <1>17, <2>1, StoreSlackens DEF CommitThrows, SameJobs, LockHeld
    <2>. QED BY <1>4, <1>17, <2>1, <2>2 DEF CommitThrows, ReadFails
  <1>18. ASSUME NEW k \in Keys, LeaseExpires(k) PROVE ClaimInv'
    <2>1. SameJobs
      BY <1>1, <1>18 DEF LeaseExpires, SameJobs, Slackens, TypeOK, Job
    <2>. QED BY <1>3, <1>4, <1>18, <2>1 DEF LeaseExpires
  <1>19. ASSUME NEW s \in Sweepers, BeginSweep(s) PROVE ClaimInv'
    BY <1>2, <1>3, <1>4, <1>19 DEF BeginSweep
  <1>20. ASSUME NEW s \in Sweepers, NEW k \in Keys, SweepJob(s, k)
         PROVE ClaimInv'
    <2>1. SameJobs
      BY <1>1, <1>20
      DEF SweepJob, Requeue, Locked, SameJobs, Slackens, TypeOK, Job
    <2>. QED BY <1>3, <1>4, <1>20, <2>1 DEF SweepJob
  <1>. QED
    BY <1>5, <1>6, <1>7, <1>8, <1>9, <1>10, <1>11, <1>12, <1>13, <1>14, <1>15,
       <1>16, <1>17, <1>18, <1>19, <1>20 DEF Next, WorkerStep

(* Initially nobody holds anything.                                        *)
LEMMA InitClaims == Init => ClaimInv
  <1>. SUFFICES ASSUME Init PROVE ClaimInv
    OBVIOUS
  <1>1. TypeInv
    BY InitType DEF Init, TypeInv, BusyHasJob, Idle
  <1>. QED
    BY <1>1
    DEF Init, ClaimInv, LockExclusive, RunningIsClaimed, GrantIsNewest,
        CheckStillHolds, ClaimSingleWinner, NoJob, Idle, LockHeld, Claimed

(* A claim is in one worker's hands, for any number of workers, sweeps,    *)
(* jobs and rotations, with and without a root-bound fencer.               *)
THEOREM SingleWinner == Spec => []ClaimSingleWinner
  <1>1. ClaimInv => ClaimSingleWinner
    BY DEF ClaimInv
  <1>. QED BY <1>1, InitClaims, StepClaims, PTL DEF Spec
-----------------------------------------------------------------------------
(* The life of a job.  A step opens it, decides it or passes it between    *)
(* waiting and running; only the holder of its latest attempt completes it.*)
JobMoves(k) ==
    \/ jobs'[k] = jobs[k]
    \/ jobs[k].status = "ABSENT" /\ jobs'[k].status = "READY"
    \/ jobs[k].status \in Open /\ jobs'[k].status \in {"RUNNING", "FAILED"}
    \/ /\ jobs[k].status = "RUNNING"
       /\ jobs'[k].status \in {"RUNNING", "RETRY", "FAILED"}
    \/ /\ jobs[k].status = "RUNNING"
       /\ jobs'[k].status = "COMPLETED"
       /\ \E w \in Workers : /\ Commits(w)
                             /\ worker[w].job = k
                             /\ worker[w].attempt = jobs[k].attempts

(* The insertion of a job opens it.                                        *)
LEMMA AdmitMoves ==
    ASSUME TypeInv, NEW j \in Keys, Admit(j)
    PROVE  \A k \in Keys : JobMoves(k)
    BY AdmitType DEF TypeInv, JobMoves, NewJob

(* A result is stored by the worker that checked its claim under the lock. *)
LEMMA StoreMoves ==
    ASSUME ClaimInv, NEW w \in Workers, Commits(w),
           NEW o \in Outputs, StoreResult(w, o)
    PROVE  \A k \in Keys : JobMoves(k)
  <1>1. worker[w].job \in Keys
    BY DEF ClaimInv, TypeInv, BusyHasJob, Commits
  <1>2. /\ jobs[worker[w].job].status = "RUNNING"
        /\ worker[w].attempt = jobs[worker[w].job].attempts
    BY <1>1 DEF ClaimInv, CheckStillHolds, RunningIsClaimed, Commits
  <1>3. jobs' = [jobs EXCEPT ![worker[w].job].status = "COMPLETED"]
    BY DEF StoreResult
  <1>. QED BY <1>1, <1>2, <1>3 DEF JobMoves, ClaimInv, TypeInv, TypeOK, Job

(* Every step moves every job along its life cycle.                        *)
LEMMA StepMoves ==
    ClaimInv /\ [Next]_vars => \A k \in Keys : JobMoves(k)
  <1>. SUFFICES ASSUME ClaimInv, [Next]_vars PROVE \A k \in Keys : JobMoves(k)
    OBVIOUS
  <1>1. TypeInv /\ TypeOK
    BY DEF ClaimInv, TypeInv
  <1>2. ASSUME UNCHANGED jobs PROVE \A k \in Keys : JobMoves(k)
    BY <1>2 DEF JobMoves
  <1>3. ASSUME NEW i \in Items, NEW h \in Inputs, Enqueue(i, h)
        PROVE  \A k \in Keys : JobMoves(k)
    <2>1. <<i, "AGENT1", h>> \in Keys
      BY DEF Keys, Stages, Hashes
    <2>. QED BY <1>1, <1>3, <2>1, AdmitMoves DEF Enqueue
  <1>4. ASSUME NEW w \in Workers, ClaimGrant(w) \/ ClaimSkip(w)
        PROVE  \A k \in Keys : JobMoves(k)
    BY <1>1, <1>4
    DEF ClaimGrant, ClaimSkip, JobMoves, TypeInv, TypeOK, Job, BusyHasJob
  <1>5. ASSUME NEW w \in Workers, NEW o \in Outputs, CommitAdvance(w, o)
        PROVE  \A k \in Keys : JobMoves(k)
    <2>1. Commits(w)
      <3>1. CASE IsLast(worker[w].job)
        BY <1>1, <1>5, <3>1, ReturnStep DEF CommitAdvance, Commits, Idle
      <3>2. CASE ~IsLast(worker[w].job)
        BY <1>1, <1>5, <3>2 DEF CommitAdvance, Commits, TypeOK, Thread
      <3>. QED BY <3>1, <3>2
    <2>. QED BY <1>5, <2>1, StoreMoves DEF CommitAdvance
  <1>6. ASSUME NEW w \in Workers, Handoff(w)
        PROVE  \A k \in Keys : JobMoves(k)
    <2>1. Successor(worker[w].job, worker[w].out) \in Keys
      BY <1>1, <1>6, SuccessorKey DEF Handoff, TypeInv, BusyHasJob
    <2>. QED BY <1>1, <1>6, <2>1, AdmitMoves DEF Handoff, OpenNext
  <1>7. ASSUME NEW w \in Workers, CommitThrows(w)
        PROVE  \A k \in Keys : JobMoves(k)
    <2>1. CASE worker[w].pc # "checked"
      BY <1>2, <1>7, <2>1 DEF CommitThrows
    <2>2. CASE worker[w].pc = "checked"
      <3>1. Commits(w)
        BY <1>1, <1>7, <2>2, ReturnStep DEF CommitThrows, Commits, Idle
      <3>. QED BY <1>7, <2>2, <3>1, StoreMoves DEF CommitThrows
    <2>. QED BY <2>1, <2>2
  <1>8. ASSUME NEW k \in Keys, LeaseExpires(k)
        PROVE  \A j \in Keys : JobMoves(j)
    BY <1>1, <1>8 DEF LeaseExpires, JobMoves, TypeOK, Job
  <1>9. ASSUME NEW s \in Sweepers, NEW k \in Keys, SweepJob(s, k)
        PROVE  \A j \in Keys : JobMoves(j)
    BY <1>1, <1>9 DEF SweepJob, LeaseLost, Requeue, JobMoves, TypeOK, Job
  <1>10. ASSUME NEW w \in Workers,
                \/ \E s \in Stages : Poll(w, s)
                \/ ReturnClaim(w) \/ Submit(w) \/ CommitCheck(w)
                \/ Drop(w) \/ ClaimThrows(w)
         PROVE  UNCHANGED jobs
    BY <1>10 DEF Poll, ReturnClaim, Submit, CommitCheck, Drop, ClaimThrows
  <1>11. ASSUME \/ Rotate \/ UNCHANGED vars
                \/ \E i \in Items : RegisterItem(i)
                \/ \E s \in Sweepers : BeginSweep(s)
         PROVE  UNCHANGED jobs
    BY <1>11 DEF Rotate, vars, RegisterItem, BeginSweep
  <1>. QED
    BY <1>2, <1>3, <1>4, <1>5, <1>6, <1>7, <1>8, <1>9, <1>10, <1>11
    DEF Next, WorkerStep

(* What is decided stays decided, in every interleaving.                   *)
THEOREM OutcomeDecidedOnce == Spec => OutcomeIsFinal
  <1>. DEFINE Stays == \A k \in Keys :
                /\ jobs[k].status \in Final => jobs'[k] = jobs[k]
                /\ jobs[k].status # "ABSENT" => jobs'[k].status # "ABSENT"
  <1>1. ClaimInv /\ [Next]_vars => [Stays]_vars
    BY StepMoves DEF JobMoves, Open, Final
  <1>2. Spec => [][Stays]_vars
    BY <1>1, InitClaims, StepClaims, PTL DEF Spec
  <1>. QED BY <1>2 DEF OutcomeIsFinal

(* A worker that lost its lease never completes the job it lost.           *)
THEOREM OnlyLatestAttemptCommits == Spec => LatestAttemptCommits
  <1>. DEFINE Latest == \A k \in Keys :
                jobs[k].status # "COMPLETED" /\ jobs'[k].status = "COMPLETED" =>
                   /\ jobs[k].status = "RUNNING"
                   /\ \E w \in Workers : /\ Commits(w)
                                         /\ worker[w].job = k
                                         /\ worker[w].attempt = jobs[k].attempts
  <1>1. ClaimInv /\ [Next]_vars => [Latest]_vars
    BY StepMoves DEF JobMoves, Open
  <1>2. Spec => [][Latest]_vars
    BY <1>1, InitClaims, StepClaims, PTL DEF Spec
  <1>. QED BY <1>2 DEF LatestAttemptCommits
-----------------------------------------------------------------------------
(* The queue.  With a local fencer no exception can come between the poll  *)
(* and the decision on what was polled.                                    *)

(* A step that moves no job into or out of the waiting statuses, and no    *)
(* worker into or out of "polled", leaves what is reachable.               *)
LEMMA WaitingUnchanged ==
    ASSUME ReadyIsReachable, UNCHANGED queue,
           \A k \in Keys : jobs'[k].status \in Open <=> jobs[k].status \in Open,
           \A w \in Workers, k \in Keys : Polled(w, k)' <=> Polled(w, k)
    PROVE  ReadyIsReachable'
    BY DEF ReadyIsReachable

(* An inserted job is reachable.                                           *)
LEMMA AdmitReachable ==
    ASSUME TypeInv, ReadyIsReachable, NEW j \in Keys, Admit(j),
           \A w \in Workers, k \in Keys : Polled(w, k)' <=> Polled(w, k)
    PROVE  ReadyIsReachable'
  <1>1. CASE jobs[j].status = "ABSENT"
    <2>1. /\ jobs'[j].status = "READY"
          /\ queue' = queue \cup {j}
          /\ \A k \in Keys \ {j} : jobs'[k] = jobs[k]
      BY <1>1, AdmitType DEF TypeInv, NewJob
    <2>2. \A w \in Workers : ~Polled(w, j)
      BY <1>1 DEF ReadyIsReachable, Open
    <2>. QED BY <2>1, <2>2 DEF ReadyIsReachable, Open
  <1>2. CASE jobs[j].status # "ABSENT"
    BY <1>2, WaitingUnchanged DEF Admit
  <1>. QED BY <1>1, <1>2

(* No step loses a waiting job or puts it in two places.                   *)
LEMMA StepReachable ==
    ASSUME RootBound = FALSE
    PROVE  ClaimInv /\ ReadyIsReachable /\ [Next]_vars => ReadyIsReachable'
  <1>. SUFFICES ASSUME ClaimInv, ReadyIsReachable, [Next]_vars
                PROVE  ReadyIsReachable'
    OBVIOUS
  <1>1. TypeInv /\ TypeOK
    BY DEF ClaimInv, TypeInv
  <1>2. ASSUME UNCHANGED <<jobs, queue, worker>> PROVE ReadyIsReachable'
    BY <1>2 DEF ReadyIsReachable, Polled
  <1>3. ASSUME NEW w \in Workers, worker[w].pc # "polled",
               worker'[w].pc # "polled",
               \A v \in Workers \ {w} : worker'[v] = worker[v]
        PROVE  \A v \in Workers, k \in Keys : Polled(v, k)' <=> Polled(v, k)
    BY <1>3 DEF Polled
  <1>4. CASE \/ Rotate \/ UNCHANGED vars
             \/ \E i \in Items : RegisterItem(i)
             \/ \E s \in Sweepers : BeginSweep(s)
    BY <1>2, <1>4 DEF Rotate, vars, RegisterItem, BeginSweep
  <1>5. ASSUME NEW i \in Items, NEW h \in Inputs, Enqueue(i, h)
        PROVE  ReadyIsReachable'
    <2>1. <<i, "AGENT1", h>> \in Keys
      BY DEF Keys, Stages, Hashes
    <2>2. \A v \in Workers, k \in Keys : Polled(v, k)' <=> Polled(v, k)
      BY <1>5 DEF Enqueue, Polled
    <2>. QED BY <1>1, <1>5, <2>1, <2>2, AdmitReachable DEF Enqueue
  <1>6. ASSUME NEW w \in Workers, NEW s \in Stages, Poll(w, s)
        PROVE  ReadyIsReachable'
    <2>1. PICK j \in queue :
             /\ queue' = queue \ {j}
             /\ worker' = [worker EXCEPT ![w].pc = "polled", ![w].job = j]
      BY <1>6 DEF Poll
    <2>2. j \in Keys
      BY <1>1 DEF TypeOK
    <2>3. \A k \in Keys : Polled(w, k)' <=> k = j
      BY <1>1, <2>1 DEF Polled, TypeOK, Thread
    <2>4. \A k \in Keys : ~Polled(w, k)
      BY <1>6 DEF Poll, Polled
    <2>5. \A v \in Workers \ {w}, k \in Keys : Polled(v, k)' <=> Polled(v, k)
      BY <1>1, <2>1 DEF Polled, TypeOK
    <2>6. jobs' = jobs
      BY <1>6 DEF Poll
    <2>. HIDE DEF Polled
    <2>. QED BY <2>1, <2>2, <2>3, <2>4, <2>5, <2>6 DEF ReadyIsReachable
  <1>7. ASSUME NEW w \in Workers, ClaimGrant(w) \/ ClaimSkip(w)
        PROVE  ReadyIsReachable'
    <2>. DEFINE j == worker[w].job
    <2>1. j \in Keys /\ Polled(w, j) /\ queue' = queue
      BY <1>1, <1>7 DEF ClaimGrant, ClaimSkip, TypeInv, BusyHasJob, Polled
    <2>2. /\ jobs'[j].status \notin Open
          /\ \A k \in Keys \ {j} : jobs'[k] = jobs[k]
      BY <1>1, <1>7, <2>1 DEF ClaimGrant, ClaimSkip, TypeOK, Job, Open
    <2>3. /\ worker'[w].pc # "polled"
          /\ \A v \in Workers \ {w} : worker'[v] = worker[v]
      BY <1>1, <1>7 DEF ClaimGrant, ClaimSkip, Idle, TypeOK, Thread
    <2>4. \A k \in Keys : ~Polled(w, k)' /\ (Polled(w, k) => k = j)
      BY <2>3 DEF Polled
    <2>5. \A v \in Workers \ {w}, k \in Keys : Polled(v, k)' <=> Polled(v, k)
      BY <2>3 DEF Polled
    <2>6. j \notin queue /\ \A v \in Workers \ {w} : ~Polled(v, j)
      BY <2>1 DEF ReadyIsReachable
    <2>. QED BY <2>1, <2>2, <2>4, <2>5, <2>6 DEF ReadyIsReachable
  <1>8. ASSUME NEW w \in Workers,
               ReturnClaim(w) \/ Submit(w) \/ CommitCheck(w) \/ Drop(w)
        PROVE  ReadyIsReachable'
    <2>1. UNCHANGED <<jobs, queue>>
      BY <1>8 DEF ReturnClaim, Submit, CommitCheck, Drop
    <2>2. worker[w].pc # "polled"
      BY <1>8 DEF ReturnClaim, Submit, CommitCheck, Drop
    <2>3. \/ Return(w)
          \/ worker' = [worker EXCEPT ![w] = Idle]
          \/ worker' = [worker EXCEPT ![w].pc = "submitting"]
          \/ worker' = [worker EXCEPT ![w].pc = "checked"]
          \/ ReturnClaim(w)
      BY <1>8 DEF Submit, CommitCheck, Drop
    <2>4. /\ worker'[w].pc # "polled"
          /\ \A v \in Workers \ {w} : worker'[v] = worker[v]
      BY <1>1, <2>3, ReturnStep DEF ReturnClaim, Idle, TypeOK, Thread
    <2>. QED BY <1>3, <2>1, <2>2, <2>4, WaitingUnchanged
  <1>9. ASSUME NEW w \in Workers, NEW o \in Outputs, CommitAdvance(w, o)
        PROVE  ReadyIsReachable'
    <2>. DEFINE j == worker[w].job
    <2>1. /\ j \in Keys
          /\ jobs[j].status = "RUNNING"
      BY <1>1, <1>9
      DEF CommitAdvance, ClaimInv, CheckStillHolds, TypeInv, BusyHasJob
    <2>2. jobs' = [jobs EXCEPT ![j].status = "COMPLETED"] /\ queue' = queue
      BY <1>9 DEF CommitAdvance, StoreResult
    <2>3. \A k \in Keys : jobs'[k].status \in Open <=> jobs[k].status \in Open
      BY <1>1, <2>1, <2>2 DEF TypeOK, Job, Open
    <2>4. /\ worker[w].pc # "polled" /\ worker'[w].pc # "polled"
          /\ \A v \in Workers \ {w} : worker'[v] = worker[v]
      <3>1. CASE IsLast(j)
        BY <1>1, <1>9, <3>1, ReturnStep DEF CommitAdvance, Idle
      <3>2. CASE ~IsLast(j)
        BY <1>1, <1>9, <3>2 DEF CommitAdvance, TypeOK, Thread
      <3>. QED BY <3>1, <3>2
    <2>. QED BY <1>3, <2>2, <2>3, <2>4, WaitingUnchanged
  <1>10. ASSUME NEW w \in Workers, Handoff(w)
         PROVE  ReadyIsReachable'
    <2>1. Successor(worker[w].job, worker[w].out) \in Keys
      BY <1>1, <1>10, SuccessorKey DEF Handoff, TypeInv, BusyHasJob
    <2>2. /\ worker[w].pc # "polled" /\ worker'[w].pc # "polled"
          /\ \A v \in Workers \ {w} : worker'[v] = worker[v]
      BY <1>1, <1>10, ReturnStep DEF Handoff, Idle
    <2>. QED BY <1>1, <1>3, <1>10, <2>1, <2>2, AdmitReachable DEF Handoff, OpenNext
  <1>11. ASSUME NEW k \in Keys, LeaseExpires(k)
         PROVE  ReadyIsReachable'
    <2>1. \A j \in Keys : jobs'[j].status = jobs[j].status
      BY <1>1, <1>11 DEF LeaseExpires, TypeOK, Job
    <2>2. \A v \in Workers, j \in Keys : Polled(v, j)' <=> Polled(v, j)
      BY <1>11 DEF LeaseExpires, Polled
    <2>. QED BY <1>11, <2>1, <2>2, WaitingUnchanged DEF LeaseExpires
  <1>12. ASSUME NEW s \in Sweepers, NEW k \in Keys, SweepJob(s, k)
         PROVE  ReadyIsReachable'
    <2>1. \A v \in Workers, j \in Keys : Polled(v, j)' <=> Polled(v, j)
      BY <1>12 DEF SweepJob, Polled
    <2>2. CASE ~LeaseLost(k)
      BY <1>12, <2>1, <2>2, WaitingUnchanged DEF SweepJob
    <2>3. CASE LeaseLost(k) /\ jobs[k].gen # sweep[s].gen
      <3>1. \A j \in Keys : jobs'[j].status \in Open <=> jobs[j].status \in Open
        BY <1>1, <1>12, <2>3 DEF SweepJob, LeaseLost, TypeOK, Job, Open
      <3>. QED BY <1>12, <2>1, <2>3, <3>1, WaitingUnchanged DEF SweepJob
    <2>4. CASE LeaseLost(k) /\ jobs[k].gen = sweep[s].gen
      <3>1. /\ queue' = queue \cup {k}
            /\ jobs'[k].status = "RETRY"
            /\ \A j \in Keys \ {k} : jobs'[j] = jobs[j]
        BY <1>1, <1>12, <2>4 DEF SweepJob, Requeue, TypeOK, Job
      <3>2. \A v \in Workers : ~Polled(v, k)
        BY <2>4 DEF LeaseLost, ReadyIsReachable, Open
      <3>. QED BY <2>1, <3>1, <3>2 DEF ReadyIsReachable, Open
    <2>. QED BY <2>2, <2>3, <2>4
  <1>13. ~ \E w \in Workers : ClaimThrows(w) \/ CommitThrows(w)
    BY DEF ClaimThrows, CommitThrows, ReadFails
  <1>. QED
    BY <1>4, <1>5, <1>6, <1>7, <1>8, <1>9, <1>10, <1>11, <1>12, <1>13
    DEF Next, WorkerStep

(* No waiting job is lost or queued twice while the fencer is local.  With *)
(* the durable root behind it a read may throw between the poll and the    *)
(* decision, and the job polled is out of reach.                           *)
THEOREM WaitingIsReachable ==
    ASSUME RootBound = FALSE
    PROVE  Spec => []ReadyIsReachable
  <1>1. Init => ReadyIsReachable
    BY DEF Init, ReadyIsReachable, Polled, NoJob, Open, Idle
  <1>. QED BY <1>1, InitClaims, StepClaims, StepReachable, PTL DEF Spec
=============================================================================
