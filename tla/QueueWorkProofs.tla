--------------------------- MODULE QueueWorkProofs ---------------------------
(***************************************************************************)
(* What QueueAuthority does to the work itself, for all values of its      *)
(* constants, while the fencer is local: it implements StageWork, a        *)
(* completed job has been handed on, a version counts the commits, and an  *)
(* item with one input is where its work is.                               *)
(***************************************************************************)
EXTENDS QueueAuthorityProofs, FiniteSetTheorems

(* Work is opened for registered items only. *)
WorkIsRegistered ==
    \A k \in Keys : jobs[k].status # "ABSENT" => items[ItemOf(k)].version > 0

Advancing(w) == worker[w].pc = "advanced"

(* A commit that has reached the item has completed the job and stored     *)
(* what it is going to hand on.                                            *)
AdvancedIsStored ==
    \A w \in Workers : Advancing(w) =>
        /\ jobs[worker[w].job].status = "COMPLETED"
        /\ artifacts[worker[w].out] # NoArtifact

CommittedIsFinite == \A i \in Items : IsFiniteSet(Committed(i))

(* The inductive invariant. *)
WorkInv ==
    /\ ClaimInv
    /\ WorkIsRegistered
    /\ AdvancedIsStored
    /\ HandoffComplete
    /\ CommittedIsFinite
    /\ VersionCountsCommits

-----------------------------------------------------------------------------
(* Kinds of step, as far as the work goes.                                 *)

OutcomesBut(k) == \A j \in Keys \ {k} : Outcome(j)' = Outcome(j)

ItemsKept == items' = items

StoresKept == artifacts' = artifacts /\ outbox' = outbox

(* The same workers are between a commit and its handoff. *)
AdvancingKept ==
    \A w \in Workers : /\ Advancing(w)' <=> Advancing(w)
                       /\ Advancing(w) => /\ worker'[w].job = worker[w].job
                                          /\ worker'[w].out = worker[w].out

Idles ==
    /\ \A k \in Keys : Outcome(k)' = Outcome(k)
    /\ ItemsKept /\ StoresKept /\ AdvancingKept

Registers(i) ==
    /\ items[i].version = 0
    /\ items'[i].version = 1 /\ items'[i].stage = "AGENT1"
    /\ \A j \in Items \ {i} : items'[j] = items[j]
    /\ \A k \in Keys : Outcome(k)' = Outcome(k)
    /\ StoresKept /\ AdvancingKept

Opens(k) ==
    /\ StageOf(k) = "AGENT1" /\ InputOf(k) \in Inputs
    /\ items[ItemOf(k)].version > 0
    /\ Outcome(k) = "none" /\ Outcome(k)' = "open"
    /\ OutcomesBut(k)
    /\ ItemsKept /\ StoresKept /\ AdvancingKept

Discards(k) ==
    /\ Outcome(k) = "open" /\ Outcome(k)' = "dead"
    /\ OutcomesBut(k)
    /\ ItemsKept /\ StoresKept /\ AdvancingKept

(* Worker w commits job k with output o, which is handed on later ...      *)
Completes(w, k, o) ==
    /\ worker[w].pc = "checked"
    /\ worker[w].job = k
    /\ Outcome(k) = "open" /\ Outcome(k)' = "done"
    /\ OutcomesBut(k)
    /\ items'[ItemOf(k)].version = items[ItemOf(k)].version + 1
    /\ items'[ItemOf(k)].stage = NextStage(StageOf(k))
    /\ \A i \in Items \ {ItemOf(k)} : items'[i] = items[i]
    /\ artifacts'[o] # NoArtifact
    /\ \A p \in Outputs : artifacts[p] # NoArtifact => artifacts'[p] # NoArtifact
    /\ outbox' = outbox
    /\ \A v \in Workers \ {w} : worker'[v] = worker[v]
    /\ Advancing(w)' <=> ~IsLast(k)
    /\ Advancing(w)' => worker'[w].job = k /\ worker'[w].out = o

(* ... and hands it on to the next stage.                                  *)
Pays(w, k, o) ==
    /\ Advancing(w)
    /\ worker[w].job = k
    /\ worker[w].out = o
    /\ Outcome(Successor(k, o))'
          = IF Outcome(Successor(k, o)) = "none" THEN "open"
            ELSE Outcome(Successor(k, o))
    /\ OutcomesBut(Successor(k, o))
    /\ ItemsKept
    /\ artifacts' = artifacts
    /\ outbox \subseteq outbox'
    /\ \E e \in outbox' : /\ e.item = ItemOf(k)
                          /\ e.stage = StageOf(k)
                          /\ e.payload = o
    /\ \A v \in Workers \ {w} : worker'[v] = worker[v]
    /\ ~Advancing(w)'

WorkStep ==
    \/ Idles
    \/ \E i \in Items : Registers(i)
    \/ \E k \in Keys : Opens(k) \/ Discards(k)
    \/ \E w \in Workers, k \in Keys, o \in Outputs :
          Completes(w, k, o) \/ Pays(w, k, o)

-----------------------------------------------------------------------------
(* An outcome is a coarser status. *)
LEMMA OutcomeFacts ==
    ASSUME TypeOK, NEW k \in Keys
    PROVE  /\ Outcome(k) \in {"none", "open", "done", "dead"}
           /\ Outcome(k) = "none" <=> jobs[k].status = "ABSENT"
           /\ Outcome(k) = "done" <=> jobs[k].status = "COMPLETED"
           /\ Outcome(k) = "dead" <=> jobs[k].status = "FAILED"
           /\ Outcome(k) = "open" <=> jobs[k].status \in Open \cup {"RUNNING"}
  <1>1. jobs[k].status \in {"ABSENT", "RUNNING"} \cup Open \cup Final
    BY DEF TypeOK, Job
  <1>. QED  BY <1>1 DEF Outcome, Open, Final

\* What the outcome of a key says of the status of its job, before and after a step.
LEMMA StatusFacts ==
    ASSUME TypeOK, TypeOK'
    PROVE  \A k \in Keys :
              /\ Outcome(k)' = "none" <=> jobs'[k].status = "ABSENT"
              /\ Outcome(k)' = "done" <=> jobs'[k].status = "COMPLETED"
              /\ Outcome(k)' = "dead" <=> jobs'[k].status = "FAILED"
              /\ Outcome(k)' = "open" <=> jobs'[k].status \in Open \cup {"RUNNING"}
              /\ jobs'[k].status = jobs[k].status => Outcome(k)' = Outcome(k)
  <1>. SUFFICES ASSUME NEW k \in Keys
                PROVE  /\ Outcome(k)' = "none" <=> jobs'[k].status = "ABSENT"
                       /\ Outcome(k)' = "done" <=> jobs'[k].status = "COMPLETED"
                       /\ Outcome(k)' = "dead" <=> jobs'[k].status = "FAILED"
                       /\ Outcome(k)' = "open"
                             <=> jobs'[k].status \in Open \cup {"RUNNING"}
                       /\ jobs'[k].status = jobs[k].status
                             => Outcome(k)' = Outcome(k)
    OBVIOUS
  <1>1. jobs'[k].status \in {"ABSENT", "RUNNING"} \cup Open \cup Final
    BY DEF TypeOK, Job
  <1>. QED  BY <1>1 DEF Outcome, Open, Final

(* No status changes and nobody advances: the work idles. *)
LEMMA IdlesWhen ==
    ASSUME TypeOK, TypeOK',
           \A k \in Keys : Outcome(k)' = Outcome(k),
           items' = items, artifacts' = artifacts, outbox' = outbox,
           NEW w \in Workers, ~Advancing(w), ~Advancing(w)',
           \A v \in Workers \ {w} : worker'[v] = worker[v]
    PROVE  WorkStep
BY DEF WorkStep, Idles, ItemsKept, StoresKept, AdvancingKept, Advancing

(* With a local fencer every step of the queue is one of these kinds. *)
LEMMA StepIsWork ==
    ASSUME RootBound = FALSE
    PROVE  ClaimInv /\ [Next]_vars => WorkStep
  <1>. SUFFICES ASSUME ClaimInv, [Next]_vars PROVE WorkStep
    OBVIOUS
  <1>1. TypeInv /\ TypeOK /\ TypeInv' /\ TypeOK'
    BY StepType DEF ClaimInv, TypeInv
  <1>2. \A k \in Keys : jobs'[k].status = jobs[k].status => Outcome(k)' = Outcome(k)
    BY <1>1, StatusFacts
  <1>3. ASSUME UNCHANGED worker PROVE AdvancingKept
    BY <1>3 DEF AdvancingKept, Advancing
  <1>4. CASE \/ Rotate \/ UNCHANGED vars
             \/ \E s \in Sweepers : BeginSweep(s)
    BY <1>2, <1>3, <1>4
    DEF Rotate, vars, BeginSweep, WorkStep, Idles, ItemsKept, StoresKept
  <1>5. ASSUME NEW i \in Items, RegisterItem(i) PROVE WorkStep
    <2>1. /\ items'[i].version = 1 /\ items'[i].stage = "AGENT1"
          /\ \A j \in Items \ {i} : items'[j] = items[j]
      BY <1>1, <1>5 DEF RegisterItem, TypeOK
    <2>2. Registers(i)
      BY <1>2, <1>3, <1>5, <2>1 DEF Registers, RegisterItem, StoresKept
    <2>. QED BY <2>2 DEF WorkStep
  <1>6. ASSUME NEW i \in Items, NEW h \in Inputs, Enqueue(i, h) PROVE WorkStep
    <2>. DEFINE k == <<i, "AGENT1", h>>
    <2>1. /\ k \in Keys /\ StageOf(k) = "AGENT1" /\ ItemOf(k) = i
          /\ InputOf(k) \in Inputs
      BY DEF Keys, Stages, Hashes, StageOf, ItemOf, InputOf
    <2>2. items[i].version > 0 /\ Admit(k) /\ UNCHANGED <<items, artifacts, outbox, worker>>
      BY <1>6 DEF Enqueue
    <2>. HIDE DEF k
    <2>3. CASE jobs[k].status = "ABSENT"
      <3>1. /\ jobs'[k].status = "READY"
            /\ \A j \in Keys \ {k} : jobs'[j] = jobs[j]
        BY <1>1, <2>1, <2>2, <2>3, AdmitType DEF NewJob
      <3>2. Outcome(k) = "none" /\ Outcome(k)' = "open"
        BY <1>1, <2>1, <2>3, <3>1, OutcomeFacts, StatusFacts DEF Open
      <3>3. Opens(k)
        BY <1>2, <1>3, <2>1, <2>2, <3>1, <3>2
        DEF Opens, OutcomesBut, ItemsKept, StoresKept
      <3>. QED BY <2>1, <3>3 DEF WorkStep
    <2>4. CASE jobs[k].status # "ABSENT"
      <3>1. jobs' = jobs
        BY <2>2, <2>4 DEF Admit
      <3>. QED
        BY <1>2, <1>3, <2>2, <3>1 DEF WorkStep, Idles, ItemsKept, StoresKept
    <2>. QED BY <2>3, <2>4
  <1>7. ASSUME NEW w \in Workers,
               \/ \E s \in Stages : Poll(w, s)
               \/ ReturnClaim(w) \/ Submit(w) \/ CommitCheck(w) \/ Drop(w)
        PROVE  WorkStep
    <2>1. UNCHANGED <<items, jobs, artifacts, outbox>>
      BY <1>7 DEF Poll, ReturnClaim, Submit, CommitCheck, Drop
    <2>2. worker[w].pc \in {"idle", "granted", "working", "submitting"}
      BY <1>7 DEF Poll, ReturnClaim, Submit, CommitCheck, Drop
    <2>3. \/ Return(w)
          \/ worker' = [worker EXCEPT ![w] = Idle]
          \/ worker' = [worker EXCEPT ![w].pc = "submitting"]
          \/ worker' = [worker EXCEPT ![w].pc = "checked"]
          \/ ReturnClaim(w)
          \/ \E s \in Stages : Poll(w, s)
      BY <1>7 DEF Submit, CommitCheck, Drop
    <2>4. /\ worker'[w].pc # "advanced"
          /\ \A v \in Workers \ {w} : worker'[v] = worker[v]
      BY <1>1, <2>3, ReturnStep DEF ReturnClaim, Poll, Idle, TypeOK, Thread
    <2>. QED  BY <1>1, <1>2, <2>1, <2>2, <2>4, IdlesWhen DEF Advancing
  <1>8. ASSUME NEW w \in Workers, ClaimGrant(w) \/ ClaimSkip(w) PROVE WorkStep
    <2>0. PICK k \in Keys : k = worker[w].job
      BY <1>1, <1>8 DEF ClaimGrant, ClaimSkip, TypeInv, BusyHasJob
    <2>1. UNCHANGED <<items, artifacts, outbox>>
      BY <1>8 DEF ClaimGrant, ClaimSkip
    <2>2. /\ worker[w].pc = "polled" /\ worker'[w].pc # "advanced"
          /\ \A v \in Workers \ {w} : worker'[v] = worker[v]
      BY <1>1, <1>8 DEF ClaimGrant, ClaimSkip, Idle, TypeOK, Thread
    <2>3. /\ \A j \in Keys \ {k} : jobs'[j] = jobs[j]
          /\ \/ jobs[k].status \in Open /\ jobs'[k].status \in {"RUNNING", "FAILED"}
             \/ jobs'[k].status = jobs[k].status
      BY <1>1, <1>8, <2>0 DEF ClaimGrant, ClaimSkip, TypeOK, Job
    <2>4. Outcome(k)' = Outcome(k) \/ (Outcome(k) = "open" /\ Outcome(k)' = "dead")
      BY <1>1, <1>2, <2>1, <2>3, OutcomeFacts, StatusFacts
    <2>5. \A j \in Keys \ {k} : Outcome(j)' = Outcome(j)
      BY <1>2, <2>3
    <2>6. CASE Outcome(k)' = Outcome(k)
      BY <1>1, <2>1, <2>2, <2>5, <2>6, IdlesWhen DEF Advancing
    <2>7. CASE Outcome(k) = "open" /\ Outcome(k)' = "dead"
      <3>1. Discards(k)
        BY <2>1, <2>2, <2>5, <2>7
        DEF Discards, OutcomesBut, ItemsKept, StoresKept, AdvancingKept,
            Advancing
      <3>. QED BY <2>1, <3>1 DEF WorkStep
    <2>. QED BY <2>4, <2>6, <2>7
  <1>9. ASSUME NEW w \in Workers, NEW o \in Outputs, CommitAdvance(w, o)
        PROVE  WorkStep
    <2>0. PICK k \in Keys : k = worker[w].job
      BY <1>1, <1>9 DEF CommitAdvance, TypeInv, BusyHasJob
    <2>1. /\ worker[w].pc = "checked" /\ ItemOf(k) \in Items
          /\ jobs[k].status = "RUNNING"
          /\ worker[w] \in Thread /\ outbox' = outbox
      BY <1>1, <1>9, <2>0, KeyParts
      DEF CommitAdvance, ClaimInv, CheckStillHolds, TypeInv, BusyHasJob, TypeOK
    <2>2. jobs' = [jobs EXCEPT ![k].status = "COMPLETED"]
      BY <1>9, <2>0 DEF CommitAdvance, StoreResult
    <2>3. /\ jobs'[k].status = "COMPLETED"
          /\ \A j \in Keys \ {k} : jobs'[j] = jobs[j]
      BY <1>1, <2>1, <2>2 DEF TypeOK, Job
    <2>4. /\ items'[ItemOf(k)].version = items[ItemOf(k)].version + 1
          /\ items'[ItemOf(k)].stage = NextStage(StageOf(k))
          /\ \A i \in Items \ {ItemOf(k)} : items'[i] = items[i]
      BY <1>1, <1>9, <2>0, <2>1 DEF CommitAdvance, Advanced, TypeOK
    <2>5. ArtifactOf(k, worker[w].fence) # NoArtifact
      <3>1. ArtifactOf(k, worker[w].fence).item = ItemOf(k)
        BY DEF ArtifactOf
      <3>2. DOMAIN ArtifactOf(k, worker[w].fence) # DOMAIN NoArtifact
        BY DEF ArtifactOf, NoArtifact
      <3>. QED BY <3>2
    <2>6. /\ artifacts'[o] # NoArtifact
          /\ \A p \in Outputs :
                artifacts[p] # NoArtifact => artifacts'[p] # NoArtifact
      BY <1>1, <1>9, <2>0, <2>5 DEF CommitAdvance, StoreResult, TypeOK
    <2>7. /\ \A v \in Workers \ {w} : worker'[v] = worker[v]
          /\ Advancing(w)' <=> ~IsLast(k)
          /\ Advancing(w)' => worker'[w].job = k /\ worker'[w].out = o
      <3>1. CASE IsLast(k)
        BY <1>1, <1>9, <2>0, <3>1, ReturnStep DEF CommitAdvance, Advancing, Idle
      <3>2. CASE ~IsLast(k)
        <4>1. worker' = [worker EXCEPT ![w].pc = "advanced", ![w].out = o]
          BY <1>9, <2>0, <3>2 DEF CommitAdvance
        <4>. QED  BY <1>1, <2>0, <3>2, <4>1 DEF Advancing, TypeOK, Thread
      <3>. QED BY <3>1, <3>2
    <2>8. Outcome(k) = "open" /\ Outcome(k)' = "done" /\ OutcomesBut(k)
      BY <1>1, <1>2, <2>1, <2>3, OutcomeFacts, StatusFacts DEF OutcomesBut
    <2>9. Completes(w, k, o)
      BY <2>0, <2>1, <2>4, <2>6, <2>7, <2>8 DEF Completes
    <2>. QED BY <2>9 DEF WorkStep
  <1>10. ASSUME NEW w \in Workers, Handoff(w) PROVE WorkStep
    <2>0. PICK k \in Keys, o \in Outputs : k = worker[w].job /\ o = worker[w].out
      BY <1>1, <1>10 DEF Handoff, TypeInv, BusyHasJob
    <2>. DEFINE n == Successor(k, o)
                e == [item |-> ItemOf(k), stage |-> StageOf(k),
                      payload |-> o, gen |-> worker[w].fence]
    <2>1. /\ worker[w].pc = "advanced" /\ n \in Keys /\ Admit(n)
          /\ outbox' = outbox \cup {e}
          /\ items' = items /\ artifacts' = artifacts
      BY <1>1, <1>10, <2>0, SuccessorKey DEF Handoff, OpenNext, TypeInv, BusyHasJob
    <2>2. /\ worker'[w].pc # "advanced"
          /\ \A v \in Workers \ {w} : worker'[v] = worker[v]
      BY <1>1, <1>10, ReturnStep DEF Handoff, Idle
    <2>3. \A j \in Keys \ {n} : jobs'[j] = jobs[j]
      BY <1>1, <2>1, AdmitType
    <2>4. Outcome(n)' = IF Outcome(n) = "none" THEN "open" ELSE Outcome(n)
      <3>. HIDE DEF n
      <3>1. CASE jobs[n].status = "ABSENT"
        <4>1. jobs'[n].status = "READY"
          BY <1>1, <2>1, <3>1, AdmitType DEF NewJob
        <4>. QED BY <1>1, <2>1, <3>1, <4>1, OutcomeFacts, StatusFacts DEF Open
      <3>2. CASE jobs[n].status # "ABSENT"
        <4>1. jobs'[n] = jobs[n]
          BY <1>1, <2>1, <3>2, AdmitType
        <4>. QED BY <1>1, <1>2, <2>1, <3>2, <4>1, OutcomeFacts
      <3>. QED BY <3>1, <3>2
    <2>5. OutcomesBut(n)
      BY <1>2, <2>3 DEF OutcomesBut
    <2>6. /\ outbox \subseteq outbox'
          /\ \E a \in outbox' : /\ a.item = ItemOf(k)
                                /\ a.stage = StageOf(k)
                                /\ a.payload = o
      <3>1. e \in outbox' /\ e.item = ItemOf(k) /\ e.stage = StageOf(k)
            /\ e.payload = o
        BY <2>1
      <3>. QED BY <2>1, <3>1
    <2>7. Pays(w, k, o)
      BY <2>0, <2>1, <2>2, <2>4, <2>5, <2>6 DEF Pays, ItemsKept, Advancing
    <2>. QED BY <2>7 DEF WorkStep
  <1>11. ASSUME NEW k \in Keys, LeaseExpires(k) PROVE WorkStep
    <2>1. \A j \in Keys : jobs'[j].status = jobs[j].status
      BY <1>1, <1>11 DEF LeaseExpires, TypeOK, Job
    <2>. QED
      BY <1>2, <1>3, <1>11, <2>1
      DEF LeaseExpires, WorkStep, Idles, ItemsKept, StoresKept
  <1>12. ASSUME NEW s \in Sweepers, NEW k \in Keys, SweepJob(s, k)
         PROVE  WorkStep
    <2>1. UNCHANGED <<items, artifacts, outbox, worker>>
      BY <1>12 DEF SweepJob
    <2>2. /\ \A j \in Keys \ {k} : jobs'[j] = jobs[j]
          /\ \/ /\ jobs[k].status = "RUNNING"
                /\ jobs'[k].status \in {"RETRY", "FAILED"}
             \/ jobs'[k].status = jobs[k].status
      BY <1>1, <1>12 DEF SweepJob, LeaseLost, Requeue, TypeOK, Job
    <2>3. Outcome(k)' = Outcome(k) \/ (Outcome(k) = "open" /\ Outcome(k)' = "dead")
      BY <1>1, <1>2, <2>2, OutcomeFacts, StatusFacts DEF Open
    <2>4. OutcomesBut(k)
      BY <1>2, <2>2 DEF OutcomesBut
    <2>5. ItemsKept /\ StoresKept /\ AdvancingKept
      BY <1>3, <2>1 DEF ItemsKept, StoresKept
    <2>. QED BY <2>3, <2>4, <2>5 DEF WorkStep, Idles, Discards, OutcomesBut
  <1>13. ~ \E w \in Workers : ClaimThrows(w) \/ CommitThrows(w)
    BY DEF ClaimThrows, CommitThrows, ReadFails
  <1>. QED
    BY <1>4, <1>5, <1>6, <1>7, <1>8, <1>9, <1>10, <1>11, <1>12, <1>13
    DEF Next, WorkerStep

-----------------------------------------------------------------------------
(* The invariant.                                                          *)

(* The successor of a job belongs to the same item. *)
LEMMA SuccessorItem ==
    \A k \in Keys, o \in Outputs : ItemOf(Successor(k, o)) = ItemOf(k)
BY DEF Successor, ItemOf

(* What is open stays in the books, what is stored stays stored, a version *)
(* never goes back.                                                        *)
LEMMA WorkGrows ==
    ASSUME TypeOK, TypeOK', WorkStep
    PROVE  /\ \A p \in Outputs :
                 artifacts[p] # NoArtifact => artifacts'[p] # NoArtifact
           /\ outbox \subseteq outbox'
           /\ \A k \in Keys : Outcome(k) # "none" => Outcome(k)' # "none"
           /\ \A i \in Items : /\ items[i].version \in Nat
                               /\ items'[i].version \in Nat
                               /\ items[i].version <= items'[i].version
  <1>. DEFINE Grows ==
           /\ \A p \in Outputs :
                 artifacts[p] # NoArtifact => artifacts'[p] # NoArtifact
           /\ outbox \subseteq outbox'
           /\ \A k \in Keys : Outcome(k) # "none" => Outcome(k)' # "none"
           /\ \A i \in Items : items[i].version <= items'[i].version
  <1>1. \A i \in Items : items[i].version \in Nat /\ items'[i].version \in Nat
    BY DEF TypeOK, Item
  <1>2. CASE Idles
    BY <1>1, <1>2 DEF Idles, ItemsKept, StoresKept
  <1>3. ASSUME NEW i \in Items, Registers(i) PROVE Grows
    BY <1>1, <1>3 DEF Registers, StoresKept
  <1>4. ASSUME NEW k \in Keys, Opens(k) \/ Discards(k) PROVE Grows
    BY <1>1, <1>4 DEF Opens, Discards, OutcomesBut, ItemsKept, StoresKept
  <1>5. ASSUME NEW w \in Workers, NEW k \in Keys, NEW o \in Outputs,
               Completes(w, k, o)
        PROVE  Grows
    <2>1. \A i \in Items : items[i].version <= items'[i].version
      BY <1>1, <1>5 DEF Completes
    <2>. QED BY <1>5, <2>1 DEF Completes, OutcomesBut
  <1>6. ASSUME NEW w \in Workers, NEW k \in Keys, NEW o \in Outputs,
               Pays(w, k, o)
        PROVE  Grows
    <2>1. \A i \in Items : items[i].version <= items'[i].version
      BY <1>1, <1>6 DEF Pays, ItemsKept
    <2>2. \A j \in Keys : Outcome(j) # "none" => Outcome(j)' # "none"
      <3>1. ASSUME NEW j \in Keys, Outcome(j) # "none" PROVE Outcome(j)' # "none"
        <4>1. CASE j = Successor(k, o)
          BY <1>6, <3>1, <4>1 DEF Pays
        <4>2. CASE j # Successor(k, o)
          BY <1>6, <3>1, <4>2 DEF Pays, OutcomesBut
        <4>. QED BY <4>1, <4>2
      <3>. QED BY <3>1
    <2>. QED BY <1>6, <2>1, <2>2 DEF Pays
  <1>. QED BY <1>1, <1>2, <1>3, <1>4, <1>5, <1>6 DEF WorkStep

(* A handoff that took place is never undone. *)
LEMMA HandedOffStays ==
    ASSUME TypeOK, TypeOK', WorkStep, NEW k \in Keys, ~IsLast(k), HandedOff(k)
    PROVE  HandedOff(k)'
  <1>1. PICK o \in Outputs :
           /\ artifacts[o] # NoArtifact
           /\ jobs[Successor(k, o)].status # "ABSENT"
           /\ \E e \in outbox : /\ e.item = ItemOf(k)
                                /\ e.stage = StageOf(k)
                                /\ e.payload = o
    BY DEF HandedOff
  <1>2. Successor(k, o) \in Keys
    BY SuccessorKey
  <1>3. jobs'[Successor(k, o)].status # "ABSENT"
    <2>1. Outcome(Successor(k, o)) # "none"
      BY <1>1, <1>2, OutcomeFacts
    <2>2. Outcome(Successor(k, o))' # "none"
      BY <1>2, <2>1, WorkGrows
    <2>. QED BY <1>2, <2>2, StatusFacts
  <1>4. artifacts'[o] # NoArtifact /\ outbox \subseteq outbox'
    BY <1>1, WorkGrows
  <1>. QED BY <1>1, <1>3, <1>4 DEF HandedOff

(* What leaves its handoff has been handed off. *)
LEMMA HandoffStep ==
    ASSUME WorkInv, TypeInv', WorkStep
    PROVE  HandoffComplete'
  <1>1. TypeOK /\ TypeOK' /\ TypeInv
    BY DEF WorkInv, ClaimInv, TypeInv
  <1>. SUFFICES ASSUME NEW k \in Keys, jobs'[k].status = "COMPLETED", ~IsLast(k)
                PROVE  HandedOff(k)' \/ InHandoff(k)'
    BY DEF HandoffComplete, IsLast
  <1>2. CASE Outcome(k) = "done"
    <2>1. HandedOff(k) \/ InHandoff(k)
      BY <1>1, <1>2, OutcomeFacts DEF WorkInv, HandoffComplete
    <2>2. CASE HandedOff(k)
      BY <1>1, <2>2, HandedOffStays
    <2>3. CASE InHandoff(k)
      <3>1. PICK w \in Workers : Advancing(w) /\ worker[w].job = k
        BY <2>3 DEF InHandoff, Advancing
      <3>2. CASE Advancing(w)' /\ worker'[w].job = k
        BY <3>2 DEF InHandoff, Advancing
      <3>3. CASE ~(Advancing(w)' /\ worker'[w].job = k)
        <4>1. ~AdvancingKept
          BY <3>1, <3>3 DEF AdvancingKept
        <4>2. ~ \E v \in Workers, j \in Keys, o \in Outputs : Completes(v, j, o)
          BY <3>1, <3>3 DEF Completes, Advancing
        <4>3. PICK v \in Workers, j \in Keys, o \in Outputs : Pays(v, j, o)
          BY <4>1, <4>2 DEF WorkStep, Idles, Registers, Opens, Discards
        <4>4. v = w /\ j = k
          BY <3>1, <3>3, <4>3 DEF Pays, Advancing
        <4>5. worker[w].out = o /\ artifacts[o] # NoArtifact
          BY <3>1, <4>3, <4>4 DEF Pays, WorkInv, AdvancedIsStored
        <4>6. Successor(k, o) \in Keys
          BY SuccessorKey
        <4>7. Outcome(Successor(k, o))' # "none"
          BY <4>3, <4>4 DEF Pays
        <4>8. jobs'[Successor(k, o)].status # "ABSENT"
          BY <1>1, <4>6, <4>7, StatusFacts
        <4>9. artifacts'[o] # NoArtifact
          BY <4>3, <4>5 DEF Pays
        <4>10. \E e \in outbox' : /\ e.item = ItemOf(k)
                                  /\ e.stage = StageOf(k)
                                  /\ e.payload = o
          BY <4>3, <4>4 DEF Pays
        <4>. QED BY <4>8, <4>9, <4>10 DEF HandedOff
      <3>. QED BY <3>2, <3>3
    <2>. QED BY <2>1, <2>2, <2>3
  <1>3. CASE Outcome(k) # "done"
    <2>1. Outcome(k)' = "done"
      BY <1>1, StatusFacts
    <2>2. PICK w \in Workers, j \in Keys, o \in Outputs : Completes(w, j, o)
      <3>1. ~ \E v \in Workers, j \in Keys, o \in Outputs : Pays(v, j, o)
        <4>1. ASSUME NEW v \in Workers, NEW j \in Keys, NEW o \in Outputs,
                     Pays(v, j, o)
              PROVE  FALSE
          <5>1. CASE k = Successor(j, o)
            BY <1>3, <2>1, <4>1, <5>1 DEF Pays
          <5>2. CASE k # Successor(j, o)
            BY <1>3, <2>1, <4>1, <5>2 DEF Pays, OutcomesBut
          <5>. QED BY <5>1, <5>2
        <4>. QED BY <4>1
      <3>. QED
        BY <1>3, <2>1, <3>1
        DEF WorkStep, Idles, Registers, Opens, Discards, OutcomesBut
    <2>3. j = k
      BY <1>3, <2>1, <2>2 DEF Completes, OutcomesBut
    <2>4. Advancing(w)' /\ worker'[w].job = k
      BY <2>2, <2>3 DEF Completes
    <2>. QED BY <2>4 DEF InHandoff, Advancing
  <1>. QED BY <1>2, <1>3

(* Work stays registered. *)
LEMMA RegisteredStep ==
    ASSUME WorkInv, TypeInv', WorkStep
    PROVE  WorkIsRegistered'
  <1>1. TypeOK /\ TypeOK' /\ TypeInv
    BY DEF WorkInv, ClaimInv, TypeInv
  <1>. SUFFICES ASSUME NEW k \in Keys, jobs'[k].status # "ABSENT"
                PROVE  items'[ItemOf(k)].version > 0
    BY DEF WorkIsRegistered, ItemOf
  <1>2. /\ ItemOf(k) \in Items
        /\ items[ItemOf(k)].version \in Nat /\ items'[ItemOf(k)].version \in Nat
        /\ items[ItemOf(k)].version <= items'[ItemOf(k)].version
    BY <1>1, KeyParts, WorkGrows
  <1>3. items[ItemOf(k)].version > 0 => items'[ItemOf(k)].version > 0
    BY <1>2
  <1>4. CASE Outcome(k) # "none"
    <2>1. jobs[k].status # "ABSENT"
      BY <1>1, <1>4, OutcomeFacts
    <2>. QED BY <1>3, <2>1 DEF WorkInv, WorkIsRegistered
  <1>5. CASE Outcome(k) = "none"
    <2>1. Outcome(k)' # "none"
      BY <1>1, StatusFacts
    <2>2. CASE \E j \in Keys : Opens(j)
      BY <1>3, <1>5, <2>1, <2>2 DEF Opens, OutcomesBut
    <2>3. CASE \E w \in Workers, j \in Keys, o \in Outputs : Pays(w, j, o)
      <3>1. PICK w \in Workers, j \in Keys, o \in Outputs : Pays(w, j, o)
        BY <2>3
      <3>2. k = Successor(j, o)
        BY <1>5, <2>1, <3>1 DEF Pays, OutcomesBut
      <3>3. ItemOf(k) = ItemOf(j)
        BY <3>2, SuccessorItem
      <3>4. jobs[j].status = "COMPLETED"
        BY <3>1 DEF Pays, WorkInv, AdvancedIsStored
      <3>. QED BY <1>3, <3>3, <3>4 DEF WorkInv, WorkIsRegistered
    <2>4. CASE \E w \in Workers, j \in Keys, o \in Outputs : Completes(w, j, o)
      BY <1>5, <2>1, <2>4 DEF Completes, OutcomesBut
    <2>. QED
      BY <1>5, <2>1, <2>2, <2>3, <2>4
      DEF WorkStep, Idles, Registers, Discards, OutcomesBut
  <1>. QED BY <1>4, <1>5

(* What an advanced commit is going to hand on stays stored. *)
LEMMA StoredStep ==
    ASSUME WorkInv, TypeInv', WorkStep
    PROVE  AdvancedIsStored'
  <1>1. TypeOK /\ TypeOK' /\ TypeInv /\ BusyHasJob
    BY DEF WorkInv, ClaimInv, TypeInv
  <1>. SUFFICES ASSUME NEW w \in Workers, Advancing(w)'
                PROVE  /\ jobs'[worker'[w].job].status = "COMPLETED"
                       /\ artifacts'[worker'[w].out] # NoArtifact
    BY DEF AdvancedIsStored
  <1>2. CASE Advancing(w) /\ worker'[w].job = worker[w].job
                          /\ worker'[w].out = worker[w].out
    <2>1. PICK k \in Keys, o \in Outputs : k = worker[w].job /\ o = worker[w].out
      BY <1>1, <1>2 DEF BusyHasJob, Advancing
    <2>2. Outcome(k) = "done" /\ artifacts[o] # NoArtifact
      BY <1>1, <1>2, <2>1, OutcomeFacts DEF WorkInv, AdvancedIsStored
    <2>3. Outcome(k)' = "done"
      <3>1. CASE Idles \/ \E i \in Items : Registers(i)
        BY <2>2, <3>1 DEF Idles, Registers
      <3>2. CASE \E j \in Keys : Opens(j) \/ Discards(j)
        BY <2>2, <3>2 DEF Opens, Discards, OutcomesBut
      <3>3. ASSUME NEW v \in Workers, NEW j \in Keys, NEW p \in Outputs,
                   Completes(v, j, p)
            PROVE  Outcome(k)' = "done"
        BY <2>2, <3>3 DEF Completes, OutcomesBut
      <3>4. ASSUME NEW v \in Workers, NEW j \in Keys, NEW p \in Outputs,
                   Pays(v, j, p)
            PROVE  Outcome(k)' = "done"
        <4>1. CASE k = Successor(j, p)
          BY <2>2, <3>4, <4>1 DEF Pays
        <4>2. CASE k # Successor(j, p)
          BY <2>2, <3>4, <4>2 DEF Pays, OutcomesBut
        <4>. QED BY <4>1, <4>2
      <3>. QED BY <3>1, <3>2, <3>3, <3>4 DEF WorkStep
    <2>4. jobs'[k].status = "COMPLETED" /\ artifacts'[o] # NoArtifact
      BY <1>1, <2>2, <2>3, StatusFacts, WorkGrows
    <2>. QED BY <1>2, <2>1, <2>4
  <1>3. CASE ~(Advancing(w) /\ worker'[w].job = worker[w].job
                            /\ worker'[w].out = worker[w].out)
    <2>1. ~AdvancingKept
      BY <1>3 DEF AdvancingKept
    <2>2. ~ \E v \in Workers, j \in Keys, o \in Outputs : Pays(v, j, o)
      BY <1>3 DEF Pays, Advancing
    <2>3. PICK v \in Workers, j \in Keys, o \in Outputs : Completes(v, j, o)
      BY <2>1, <2>2 DEF WorkStep, Idles, Registers, Opens, Discards
    <2>4. v = w
      BY <1>3, <2>3 DEF Completes, Advancing
    <2>5. worker'[w].job = j /\ worker'[w].out = o /\ artifacts'[o] # NoArtifact
      BY <2>3, <2>4 DEF Completes
    <2>6. jobs'[j].status = "COMPLETED"
      BY <1>1, <2>3, StatusFacts DEF Completes
    <2>. QED BY <2>5, <2>6
  <1>. QED BY <1>2, <1>3

(* A commit adds one job to the committed ones and one to the version; no  *)
(* other step touches either, but the registration of the item.            *)
LEMMA CountStep ==
    ASSUME WorkInv, TypeInv', WorkStep
    PROVE  CommittedIsFinite' /\ VersionCountsCommits'
  <1>1. TypeOK /\ TypeOK' /\ TypeInv
    BY DEF WorkInv, ClaimInv, TypeInv
  <1>. DEFINE Counted(i) ==
           /\ IsFiniteSet(Committed(i))
           /\ items[i].version = IF items[i].version = 0 THEN 0
                                 ELSE 1 + Cardinality(Committed(i))
  <1>2. \A i \in Items : Counted(i)
    BY DEF WorkInv, CommittedIsFinite, VersionCountsCommits
  <1>3. \A i \in Items, k \in Keys :
           /\ k \in Committed(i) <=> ItemOf(k) = i /\ Outcome(k) = "done"
           /\ k \in Committed(i)' <=> ItemOf(k) = i /\ Outcome(k)' = "done"
    BY <1>1, OutcomeFacts, StatusFacts DEF Committed, ItemOf
  <1>4. \A i \in Items : Committed(i) \subseteq Keys /\ Committed(i)' \subseteq Keys
    BY DEF Committed
  <1>5. ASSUME NEW i \in Items, items'[i].version = items[i].version,
               \A k \in Keys : Outcome(k)' = "done" <=> Outcome(k) = "done"
        PROVE  Counted(i)'
    <2>1. Committed(i)' = Committed(i)
      BY <1>3, <1>4, <1>5
    <2>. QED BY <1>2, <1>5, <2>1
  <1>6. CASE Idles
    BY <1>5, <1>6 DEF Idles, ItemsKept, CommittedIsFinite, VersionCountsCommits
  <1>7. ASSUME NEW i \in Items, Registers(i)
        PROVE  \A j \in Items : Counted(j)'
    <2>1. \A j \in Items \ {i} : Counted(j)'
      BY <1>5, <1>7 DEF Registers
    <2>2. Committed(i)' = {}
      <3>1. \A k \in Keys : ItemOf(k) = i => Outcome(k) = "none"
        BY <1>1, <1>7, OutcomeFacts DEF Registers, WorkInv, WorkIsRegistered
      <3>. QED BY <1>3, <1>4, <1>7, <3>1 DEF Registers
    <2>3. IsFiniteSet({}) /\ Cardinality({}) = 0
      BY FS_EmptySet
    <2>4. Counted(i)'
      BY <1>7, <2>2, <2>3 DEF Registers
    <2>. QED BY <2>1, <2>4
  <1>8. ASSUME NEW k \in Keys, Opens(k) \/ Discards(k)
        PROVE  \A i \in Items : Counted(i)'
    <2>1. \A j \in Keys : Outcome(j)' = "done" <=> Outcome(j) = "done"
      BY <1>8 DEF Opens, Discards, OutcomesBut
    <2>2. ItemsKept
      BY <1>8 DEF Opens, Discards
    <2>. QED BY <1>5, <2>1, <2>2 DEF ItemsKept
  <1>9. ASSUME NEW w \in Workers, NEW k \in Keys, NEW o \in Outputs,
               Completes(w, k, o)
        PROVE  \A i \in Items : Counted(i)'
    <2>. DEFINE i == ItemOf(k)
    <2>1. i \in Items /\ items[i].version > 0 /\ items[i].version \in Nat
      BY <1>1, <1>9, KeyParts, OutcomeFacts
      DEF WorkInv, WorkIsRegistered, Completes, TypeOK, Item
    <2>2. Committed(i)' = Committed(i) \cup {k} /\ k \notin Committed(i)
      BY <1>3, <1>4, <1>9, <2>1 DEF Completes, OutcomesBut
    <2>3. /\ IsFiniteSet(Committed(i))
          /\ Cardinality(Committed(i)) \in Nat
          /\ items[i].version = 1 + Cardinality(Committed(i))
      BY <1>2, <2>1, FS_CardinalityType
    <2>4. /\ IsFiniteSet(Committed(i)')
          /\ Cardinality(Committed(i)') = Cardinality(Committed(i)) + 1
      BY <2>2, <2>3, FS_AddElement
    <2>5. Counted(i)'
      BY <1>9, <2>1, <2>3, <2>4 DEF Completes
    <2>6. ASSUME NEW j \in Items \ {i} PROVE Counted(j)'
      <3>1. Committed(j)' = Committed(j)
        BY <1>3, <1>4, <1>9, <2>6 DEF Completes, OutcomesBut
      <3>2. items'[j].version = items[j].version
        BY <1>9, <2>6 DEF Completes
      <3>. QED BY <1>2, <3>1, <3>2
    <2>. QED BY <2>5, <2>6
  <1>10. ASSUME NEW w \in Workers, NEW k \in Keys, NEW o \in Outputs,
                Pays(w, k, o)
         PROVE  \A i \in Items : Counted(i)'
    <2>1. \A j \in Keys : Outcome(j)' = "done" <=> Outcome(j) = "done"
      <3>1. ASSUME NEW j \in Keys
            PROVE  Outcome(j)' = "done" <=> Outcome(j) = "done"
        <4>1. CASE j = Successor(k, o)
          BY <1>10, <4>1 DEF Pays
        <4>2. CASE j # Successor(k, o)
          BY <1>10, <4>2 DEF Pays, OutcomesBut
        <4>. QED BY <4>1, <4>2
      <3>. QED BY <3>1
    <2>2. ItemsKept
      BY <1>10 DEF Pays
    <2>. QED BY <1>5, <2>1, <2>2 DEF ItemsKept
  <1>11. \A i \in Items : Counted(i)'
    BY <1>5, <1>6, <1>7, <1>8, <1>9, <1>10 DEF WorkStep, Idles, ItemsKept
  <1>. QED BY <1>11 DEF CommittedIsFinite, VersionCountsCommits

\* Nothing is registered and nothing committed at the start.
LEMMA InitWork == Init => WorkInv
  <1>. SUFFICES ASSUME Init PROVE WorkInv
    OBVIOUS
  <1>1. ClaimInv
    BY InitClaims
  <1>2. \A k \in Keys : jobs[k].status = "ABSENT"
    BY DEF Init, NoJob
  <1>3. WorkIsRegistered /\ HandoffComplete
    BY <1>2 DEF WorkIsRegistered, HandoffComplete
  <1>4. AdvancedIsStored
    BY DEF Init, AdvancedIsStored, Advancing, Idle
  <1>5. \A i \in Items : Committed(i) = {}
    BY <1>2 DEF Committed
  <1>6. CommittedIsFinite
    BY <1>5, FS_EmptySet DEF CommittedIsFinite
  <1>7. VersionCountsCommits
    BY DEF Init, VersionCountsCommits
  <1>. QED BY <1>1, <1>3, <1>4, <1>6, <1>7 DEF WorkInv

\* Every kind of step keeps the invariant; with a root-bound fencer it would not.
LEMMA StepWork ==
    ASSUME RootBound = FALSE
    PROVE  WorkInv /\ [Next]_vars => WorkInv'
  <1>. SUFFICES ASSUME WorkInv, [Next]_vars PROVE WorkInv'
    OBVIOUS
  <1>1. ClaimInv'
    BY StepClaims DEF WorkInv
  <1>2. TypeInv' /\ WorkStep
    BY <1>1, StepIsWork DEF WorkInv, ClaimInv
  <1>. QED
    BY <1>1, <1>2, HandoffStep, RegisteredStep, StoredStep, CountStep DEF WorkInv

(* While the fencer is local no commit is lost and none counted twice: an  *)
(* item's version is one more than the number of its completed jobs,       *)
(* whichever workers race on them.                                         *)
THEOREM CommitsAreCounted ==
    ASSUME RootBound = FALSE
    PROVE  Spec => []VersionCountsCommits
  <1>1. WorkInv => VersionCountsCommits
    BY DEF WorkInv
  <1>. QED BY <1>1, InitWork, StepWork, PTL DEF Spec

(* While the fencer is local work is never completed without its handoff:  *)
(* artifact, next job and outbox event are there once the job is let go.   *)
THEOREM CompletedIsHandedOff ==
    ASSUME RootBound = FALSE
    PROVE  Spec => []HandoffComplete
  <1>1. WorkInv => HandoffComplete
    BY DEF WorkInv
  <1>. QED BY <1>1, InitWork, StepWork, PTL DEF Spec

-----------------------------------------------------------------------------
(***************************************************************************)
(* The refinement: each kind of step is a step of StageWork or stutters.   *)

(* The pieces of work of StageWork are the keys of the jobs map. *)
LEMMA WorkIsKeys == Promise!Work = Keys
  BY DEF Promise!Work, Keys, Hashes

(* A commit under way is a debt; nobody advances, no debt changes. *)
LEMMA DebtsKept ==
    ASSUME AdvancingKept
    PROVE  {k \in Keys : InHandoff(k)}' = {k \in Keys : InHandoff(k)}
  <1>1. ASSUME NEW k \in Keys PROVE InHandoff(k)' <=> InHandoff(k)
    <2>1. ASSUME NEW w \in Workers
          PROVE  (worker'[w].pc = "advanced" /\ worker'[w].job = k)
                    <=> (worker[w].pc = "advanced" /\ worker[w].job = k)
      BY DEF AdvancingKept, Advancing
    <2>. QED BY <2>1 DEF InHandoff
  <1>. QED BY <1>1

(* Initially no work exists, no item is registered and nothing is owed. *)
LEMMA InitPromise == Init => Promise!Init
  <1>. SUFFICES ASSUME Init PROVE Promise!Init
    OBVIOUS
  <1>. QED
    BY WorkIsKeys DEF Init, Promise!Init, Outcome, NoJob, InHandoff, Idle

\* A step that changes no outcome and no version is a stutter of the promise.
LEMMA IdlesStutter == Idles => UNCHANGED Promise!workVars
  <1>. SUFFICES ASSUME Idles PROVE UNCHANGED Promise!workVars
    OBVIOUS
  <1>1. [k \in Keys |-> Outcome(k)]' = [k \in Keys |-> Outcome(k)]
    BY DEF Idles
  <1>2. [i \in Items |-> items[i].version]' = [i \in Items |-> items[i].version]
    BY DEF Idles, ItemsKept
  <1>. QED BY <1>1, <1>2, DebtsKept DEF Idles, Promise!workVars

\* registerItem is the promise's Register.
LEMMA RegistersPromise ==
    ASSUME NEW i \in Items, Registers(i)
    PROVE  Promise!Register(i)
  <1>1. [k \in Keys |-> Outcome(k)]' = [k \in Keys |-> Outcome(k)]
    BY DEF Registers
  <1>2. [j \in Items |-> items[j].version]'
           = [[j \in Items |-> items[j].version] EXCEPT ![i] = 1]
    BY DEF Registers
  <1>. QED BY <1>1, <1>2, DebtsKept DEF Registers, Promise!Register

\* The creation of a job by enqueue is the promise's Open.
LEMMA OpensPromise ==
    ASSUME NEW k \in Keys, Opens(k)
    PROVE  Promise!Open(k)
  <1>1. [j \in Keys |-> Outcome(j)]'
           = [[j \in Keys |-> Outcome(j)] EXCEPT ![k] = "open"]
    BY DEF Opens, OutcomesBut
  <1>2. [i \in Items |-> items[i].version]' = [i \in Items |-> items[i].version]
    BY DEF Opens, ItemsKept
  <1>3. ItemOf(k) \in Items
    BY KeyParts
  <1>. QED
    BY <1>1, <1>2, <1>3, DebtsKept DEF Opens, Promise!Open, StageOf, ItemOf

\* Giving up a job, by a sweep or a claim of an old generation, is the promise's Discard.
LEMMA DiscardsPromise ==
    ASSUME NEW k \in Keys, Discards(k)
    PROVE  Promise!Discard(k)
  <1>1. [j \in Keys |-> Outcome(j)]'
           = [[j \in Keys |-> Outcome(j)] EXCEPT ![k] = "dead"]
    BY DEF Discards, OutcomesBut
  <1>2. [i \in Items |-> items[i].version]' = [i \in Items |-> items[i].version]
    BY DEF Discards, ItemsKept
  <1>. QED BY <1>1, <1>2, DebtsKept DEF Discards, Promise!Discard

(* A commit is the completion of its work, and leaves the debt of a handoff *)
(* unless the stage was the last.                                           *)
LEMMA CompletesPromise ==
    ASSUME NEW w \in Workers, NEW k \in Keys, NEW o \in Outputs,
           Completes(w, k, o)
    PROVE  Promise!Complete(k)
  <1>1. [j \in Keys |-> Outcome(j)]'
           = [[j \in Keys |-> Outcome(j)] EXCEPT ![k] = "done"]
    BY DEF Completes, OutcomesBut
  <1>2. ItemOf(k) = k[1] /\ k[1] \in Items
    BY KeyParts DEF ItemOf
  <1>3. [i \in Items |-> items[i].version]'
           = [[i \in Items |-> items[i].version] EXCEPT ![k[1]] = @ + 1]
    BY <1>2 DEF Completes
  <1>4. ASSUME NEW j \in Keys
        PROVE  InHandoff(j)' <=> InHandoff(j) \/ (j = k /\ ~IsLast(k))
    <2>1. ~Advancing(w)
      BY DEF Completes, Advancing
    <2>2. \A v \in Workers \ {w} : worker'[v] = worker[v]
      BY DEF Completes
    <2>3. Advancing(w)' /\ worker'[w].job = j <=> j = k /\ ~IsLast(k)
      BY DEF Completes
    <2>. QED BY <2>1, <2>2, <2>3 DEF InHandoff, Advancing
  <1>5. {j \in Keys : InHandoff(j)}'
           = IF k[2] = "AGENT3" THEN {j \in Keys : InHandoff(j)}
             ELSE {j \in Keys : InHandoff(j)} \cup {k}
    BY <1>4 DEF IsLast, StageOf
  <1>. QED BY <1>1, <1>3, <1>5 DEF Completes, Promise!Complete

(* The handoff pays the debt: only the holder of the job's lock owes it. *)
LEMMA PaysPromise ==
    ASSUME LockExclusive, NEW w \in Workers, NEW k \in Keys, NEW o \in Outputs,
           Successor(k, o) \in Keys, Pays(w, k, o)
    PROVE  Promise!Pay(k)
  <1>. DEFINE n == <<k[1], NextStage(k[2]), o>>
  <1>1. n = Successor(k, o) /\ n \in Keys
    BY DEF Successor, ItemOf, StageOf
  <1>2. [j \in Keys |-> Outcome(j)]'
           = [[j \in Keys |-> Outcome(j)]
                 EXCEPT ![n] = IF @ = "none" THEN "open" ELSE @]
    <2>. HIDE DEF n
    <2>1. PICK z \in Keys : z = n
      BY <1>1
    <2>2. /\ Outcome(z)' = IF Outcome(z) = "none" THEN "open" ELSE Outcome(z)
          /\ \A j \in Keys \ {z} : Outcome(j)' = Outcome(j)
      BY <1>1, <2>1 DEF Pays, OutcomesBut
    <2>3. [j \in Keys |-> Outcome(j)]'
             = [[j \in Keys |-> Outcome(j)]
                   EXCEPT ![z] = IF @ = "none" THEN "open" ELSE @]
      BY <2>2
    <2>. QED BY <2>1, <2>3
  <1>3. [i \in Items |-> items[i].version]' = [i \in Items |-> items[i].version]
    BY DEF Pays, ItemsKept
  <1>4. ASSUME NEW j \in Keys
        PROVE  InHandoff(j)' <=> InHandoff(j) /\ j # k
    <2>1. /\ Advancing(w) /\ worker[w].job = k /\ ~Advancing(w)'
          /\ \A v \in Workers \ {w} : worker'[v] = worker[v]
      BY DEF Pays
    <2>2. \A v \in Workers \ {w} : ~(Advancing(v) /\ worker[v].job = k)
      BY <2>1 DEF LockExclusive, LockHeld, Advancing
    <2>. QED BY <2>1, <2>2 DEF InHandoff, Advancing
  <1>5. InHandoff(k)
    BY DEF Pays, InHandoff, Advancing
  <1>6. {j \in Keys : InHandoff(j)}' = {j \in Keys : InHandoff(j)} \ {k}
    BY <1>4
  <1>. QED BY <1>2, <1>3, <1>5, <1>6 DEF Promise!Pay

(* Every step of the queue is a step of StageWork or a stutter. *)
LEMMA StepPromise ==
    ASSUME WorkInv, TypeInv', WorkStep
    PROVE  [Promise!Next]_Promise!workVars
  <1>1. CASE Idles
    BY <1>1, IdlesStutter
  <1>2. ASSUME NEW i \in Items, Registers(i)
        PROVE  Promise!Next
    BY <1>2, RegistersPromise DEF Promise!Next
  <1>3. ASSUME NEW k \in Keys, Opens(k) \/ Discards(k)
        PROVE  Promise!Next
    BY <1>3, OpensPromise, DiscardsPromise, WorkIsKeys DEF Promise!Next
  <1>4. ASSUME NEW w \in Workers, NEW k \in Keys, NEW o \in Outputs,
               Completes(w, k, o)
        PROVE  Promise!Next
    BY <1>4, CompletesPromise, WorkIsKeys DEF Promise!Next
  <1>5. ASSUME NEW w \in Workers, NEW k \in Keys, NEW o \in Outputs,
               Pays(w, k, o)
        PROVE  Promise!Next
    <2>1. ~IsLast(k)
      BY <1>5 DEF Pays, Advancing, WorkInv, ClaimInv, TypeInv, BusyHasJob
    <2>2. Successor(k, o) \in Keys /\ LockExclusive
      BY <2>1, SuccessorKey DEF WorkInv, ClaimInv
    <2>. QED BY <1>5, <2>2, PaysPromise, WorkIsKeys DEF Promise!Next
  <1>. QED BY <1>1, <1>2, <1>3, <1>4, <1>5 DEF WorkStep

(* While the fencer is local the queue implements StageWork: work is opened *)
(* by a client or by the handoff it is owed to, and is decided once.        *)
THEOREM QueueImplementsStageWork ==
    ASSUME RootBound = FALSE
    PROVE  Spec => ImplementsStageWork
  <1>1. WorkInv /\ [Next]_vars => [Promise!Next]_Promise!workVars
    <2>1. WorkInv /\ [Next]_vars => TypeInv' /\ WorkStep
      BY StepWork, StepIsWork DEF WorkInv, ClaimInv
    <2>. QED BY <2>1, StepPromise
  <1>. QED
    BY <1>1, InitPromise, InitWork, StepWork, PTL
    DEF Spec, ImplementsStageWork, Promise!Spec
-----------------------------------------------------------------------------
(***************************************************************************)
(* Where an item is.  With one input per item its jobs form a line: one    *)
(* per stage, each opened by the handoff of the one before.                *)
(***************************************************************************)

OneInput == \A g, h \in Inputs : g = h

Depth(s) == CASE s = "AGENT1" -> 1
              [] s = "AGENT2" -> 2
              [] s = "AGENT3" -> 3
              [] OTHER        -> 4

WorkOf(i) == {k \in Keys : ItemOf(k) = i /\ Outcome(k) # "none"}

OneJobPerStage(i) == \A j, k \in WorkOf(i) : StageOf(j) = StageOf(k) => j = k

FirstIsInput(i) ==
    \A k \in WorkOf(i) : StageOf(k) = "AGENT1" => InputOf(k) \in Inputs

BeginsAtFirst(i) ==
    items[i].stage # "AGENT1" \/ WorkOf(i) # {} =>
        \E k \in WorkOf(i) : StageOf(k) = "AGENT1"

CompletedIsBehind(i) ==
    \A k \in WorkOf(i) : IF Outcome(k) = "done"
                          THEN Depth(StageOf(k)) < Depth(items[i].stage)
                          ELSE StageOf(k) = items[i].stage

(* Between commit and handoff the item is at a stage that has no job yet. *)
HandoffIsAhead(i) ==
    \A w \in Workers : Advancing(w) /\ ItemOf(worker[w].job) = i =>
        /\ items[i].stage = NextStage(StageOf(worker[w].job))
        /\ \A k \in WorkOf(i) : StageOf(k) # items[i].stage

Placed(i) ==
    /\ OneJobPerStage(i)
    /\ FirstIsInput(i)
    /\ BeginsAtFirst(i)
    /\ CompletedIsBehind(i)
    /\ HandoffIsAhead(i)

(* The inductive invariant. *)
PlaceInv == WorkInv /\ \A i \in Items : Placed(i)

(* The next stage is one deeper, and depth tells the stages apart. *)
LEMMA DepthFacts ==
    /\ \A s \in Stages \cup {"COMPLETE"} : Depth(s) \in 1..4
    /\ \A s \in Stages : Depth(NextStage(s)) = Depth(s) + 1
    /\ \A s, t \in Stages \cup {"COMPLETE"} : Depth(s) = Depth(t) => s = t
  <1>1. /\ Depth("AGENT1") = 1 /\ Depth("AGENT2") = 2
        /\ Depth("AGENT3") = 3 /\ Depth("COMPLETE") = 4
    BY DEF Depth
  <1>2. /\ NextStage("AGENT1") = "AGENT2"
        /\ NextStage("AGENT2") = "AGENT3"
        /\ NextStage("AGENT3") = "COMPLETE"
    BY DEF NextStage
  <1>. QED BY <1>1, <1>2 DEF Stages

(* A key is its item, its stage and its input. *)
LEMMA KeyIsItsParts ==
    ASSUME NEW j \in Keys, NEW k \in Keys, ItemOf(j) = ItemOf(k),
           StageOf(j) = StageOf(k), InputOf(j) = InputOf(k)
    PROVE  j = k
BY DEF Keys, ItemOf, StageOf, InputOf

(* What the invariant of the work says of an item. *)
LEMMA PlaceFacts ==
    ASSUME WorkInv, NEW i \in Items
    PROVE  /\ items[i].stage \in Stages \cup {"COMPLETE"}
           /\ WorkOf(i) # {} => items[i].version # 0
           /\ \A w \in Workers : Advancing(w) =>
                 /\ worker[w].job \in Keys
                 /\ ItemOf(worker[w].job) = i => worker[w].job \in WorkOf(i)
                 /\ Outcome(worker[w].job) = "done"
                 /\ ~IsLast(worker[w].job)
           /\ \A v, w \in Workers :
                 Advancing(v) /\ Advancing(w) /\ worker[v].job = worker[w].job => v = w
  <1>1. TypeOK /\ BusyHasJob /\ LockExclusive
    BY DEF WorkInv, ClaimInv, TypeInv
  <1>2. items[i].stage \in Stages \cup {"COMPLETE"}
    BY <1>1 DEF TypeOK, Item
  <1>3. WorkOf(i) # {} => items[i].version # 0
    <2>1. ASSUME NEW k \in WorkOf(i) PROVE items[i].version # 0
      <3>1. k \in Keys /\ ItemOf(k) = i /\ jobs[k].status # "ABSENT"
        BY <1>1, OutcomeFacts DEF WorkOf
      <3>2. items[i].version > 0 /\ items[i].version \in Nat
        BY <1>1, <3>1 DEF WorkInv, WorkIsRegistered, TypeOK, Item
      <3>. QED BY <3>2
    <2>. QED BY <2>1
  <1>4. ASSUME NEW w \in Workers, Advancing(w)
        PROVE  /\ worker[w].job \in Keys
               /\ ItemOf(worker[w].job) = i => worker[w].job \in WorkOf(i)
               /\ Outcome(worker[w].job) = "done"
               /\ ~IsLast(worker[w].job)
    <2>1. worker[w].job \in Keys /\ ~IsLast(worker[w].job)
      BY <1>1, <1>4 DEF BusyHasJob, Advancing
    <2>2. Outcome(worker[w].job) = "done"
      BY <1>1, <1>4, <2>1, OutcomeFacts DEF WorkInv, AdvancedIsStored
    <2>. QED BY <2>1, <2>2 DEF WorkOf
  <1>5. \A v, w \in Workers :
           Advancing(v) /\ Advancing(w) /\ worker[v].job = worker[w].job => v = w
    BY <1>1 DEF LockExclusive, LockHeld, Advancing
  <1>. QED BY <1>2, <1>3, <1>4, <1>5

(* An item stays in place while its stage stays, no job of it is opened or *)
(* completed, and nobody begins a handoff for it.                          *)
LEMMA StaysPlaced ==
    ASSUME NEW i \in Items, Placed(i), items'[i].stage = items[i].stage,
           \A k \in Keys : ItemOf(k) = i =>
               /\ Outcome(k)' = "none" <=> Outcome(k) = "none"
               /\ Outcome(k)' = "done" <=> Outcome(k) = "done",
           \A w \in Workers : Advancing(w)' /\ ItemOf(worker'[w].job) = i =>
               Advancing(w) /\ worker'[w].job = worker[w].job
    PROVE  Placed(i)'
  <1>1. WorkOf(i)' = WorkOf(i)
    BY DEF WorkOf, ItemOf
  <1>2. OneJobPerStage(i)' /\ FirstIsInput(i)' /\ BeginsAtFirst(i)'
    BY <1>1 DEF Placed, OneJobPerStage, FirstIsInput, BeginsAtFirst, StageOf, InputOf
  <1>3. CompletedIsBehind(i)'
    <2>1. \A k \in WorkOf(i) : Outcome(k)' = "done" <=> Outcome(k) = "done"
      BY DEF WorkOf
    <2>. QED BY <1>1, <2>1 DEF Placed, CompletedIsBehind, Depth, StageOf
  <1>4. HandoffIsAhead(i)'
    BY <1>1 DEF Placed, HandoffIsAhead, StageOf, ItemOf, NextStage
  <1>. QED BY <1>2, <1>3, <1>4 DEF Placed

(* Registration finds no work of its item. *)
LEMMA RegistersPlaces ==
    ASSUME WorkInv, NEW i \in Items, Registers(i)
    PROVE  Placed(i)'
  <1>1. WorkOf(i) = {} /\ WorkOf(i)' = {}
    BY PlaceFacts DEF Registers, WorkOf, ItemOf
  <1>2. \A w \in Workers : ~(Advancing(w)' /\ ItemOf(worker'[w].job) = i)
    BY <1>1, PlaceFacts DEF Registers, AdvancingKept
  <1>. QED
    BY <1>1, <1>2
    DEF Registers, Placed, OneJobPerStage, FirstIsInput, BeginsAtFirst,
        CompletedIsBehind, HandoffIsAhead, ItemOf

(* A client's job is the first of its item, which has one input. *)
LEMMA OpensPlaces ==
    ASSUME OneInput, WorkInv, NEW k \in Keys, Opens(k),
           NEW i \in Items, i = ItemOf(k), Placed(i)
    PROVE  Placed(i)'
  <1>1. WorkOf(i) = {} /\ items[i].stage = "AGENT1"
    <2>1. ASSUME NEW j \in WorkOf(i), StageOf(j) = "AGENT1" PROVE FALSE
      <3>1. j \in Keys /\ ItemOf(j) = ItemOf(k) /\ Outcome(j) # "none"
        BY <2>1 DEF WorkOf
      <3>2. InputOf(j) = InputOf(k) /\ StageOf(j) = StageOf(k)
        BY <2>1 DEF OneInput, Placed, FirstIsInput, Opens
      <3>3. j = k
        BY <3>1, <3>2, KeyIsItsParts
      <3>. QED BY <3>1, <3>3 DEF Opens
    <2>. QED BY <2>1 DEF Placed, BeginsAtFirst
  <1>2. WorkOf(i)' = {k}
    BY <1>1 DEF Opens, OutcomesBut, WorkOf, ItemOf
  <1>3. items'[i].stage = "AGENT1"
    BY <1>1 DEF Opens, ItemsKept
  <1>4. \A w \in Workers : ~(Advancing(w)' /\ ItemOf(worker'[w].job) = i)
    BY <1>1, PlaceFacts DEF Opens, AdvancingKept
  <1>. QED
    BY <1>2, <1>3, <1>4
    DEF Opens, Placed, OneJobPerStage, FirstIsInput, BeginsAtFirst,
        CompletedIsBehind, HandoffIsAhead, ItemOf, StageOf, InputOf

(* A commit takes the item one stage further, where there is no job yet. *)
LEMMA CompletesPlaces ==
    ASSUME WorkInv, NEW w \in Workers, NEW k \in Keys, NEW o \in Outputs,
           Completes(w, k, o), NEW i \in Items, i = ItemOf(k), Placed(i)
    PROVE  Placed(i)'
  <1>. DEFINE s == StageOf(k)
  <1>1. /\ k \in WorkOf(i) /\ Outcome(k) = "open" /\ s \in Stages
        /\ items[i].stage = s /\ items'[i].stage = NextStage(s)
    BY KeyParts DEF Completes, WorkOf, Placed, CompletedIsBehind
  <1>2. WorkOf(i)' = WorkOf(i)
    BY DEF Completes, OutcomesBut, WorkOf, ItemOf
  <1>3. Depth(s) \in 1..4 /\ Depth(NextStage(s)) = Depth(s) + 1
    BY <1>1, DepthFacts
  <1>4. ASSUME NEW j \in WorkOf(i)
        PROVE  /\ StageOf(j) \in Stages /\ Depth(StageOf(j)) \in 1..4
               /\ Outcome(j)' = "done"
               /\ Depth(StageOf(j)) < Depth(NextStage(s))
    <2>1. j \in Keys /\ StageOf(j) \in Stages /\ Depth(StageOf(j)) \in 1..4
      BY KeyParts, DepthFacts DEF WorkOf
    <2>2. CASE j = k
      BY <1>3, <2>1, <2>2 DEF Completes
    <2>3. CASE j # k
      <3>1. StageOf(j) # s
        BY <1>1, <2>3 DEF Placed, OneJobPerStage
      <3>2. Outcome(j) = "done" /\ Depth(StageOf(j)) < Depth(s)
        BY <1>1, <3>1 DEF Placed, CompletedIsBehind
      <3>3. Outcome(j)' = "done"
        BY <2>1, <2>3, <3>2 DEF Completes, OutcomesBut
      <3>. QED BY <1>3, <2>1, <3>2, <3>3
    <2>. QED BY <2>2, <2>3
  <1>5. ASSUME NEW v \in Workers, Advancing(v)', ItemOf(worker'[v].job) = i
        PROVE  v = w
    <2>1. CASE Advancing(v) /\ worker'[v] = worker[v]
      BY <1>1, <1>5, <2>1 DEF Placed, HandoffIsAhead
    <2>. QED BY <1>5, <2>1 DEF Completes, Advancing
  <1>6. HandoffIsAhead(i)'
    <2>1. Advancing(w)' => worker'[w].job = k
      BY DEF Completes
    <2>2. \A j \in WorkOf(i) : StageOf(j) # NextStage(s)
      BY <1>4
    <2>. QED
      BY <1>1, <1>2, <1>5, <2>1, <2>2 DEF HandoffIsAhead, ItemOf, StageOf, NextStage
  <1>7. CompletedIsBehind(i)'
    BY <1>1, <1>2, <1>4 DEF CompletedIsBehind, StageOf, Depth
  <1>8. BeginsAtFirst(i)'
    BY <1>1, <1>2 DEF Placed, BeginsAtFirst, StageOf
  <1>9. OneJobPerStage(i)' /\ FirstIsInput(i)'
    BY <1>2 DEF Placed, OneJobPerStage, FirstIsInput, StageOf, InputOf
  <1>. QED BY <1>6, <1>7, <1>8, <1>9 DEF Placed

(* A handoff opens the job of the item's stage, which has none. *)
LEMMA PaysPlaces ==
    ASSUME WorkInv, NEW w \in Workers, NEW k \in Keys, NEW o \in Outputs,
           Pays(w, k, o), NEW i \in Items, i = ItemOf(k), Placed(i)
    PROVE  Placed(i)'
  <1>. DEFINE n == Successor(k, o)
              s == StageOf(k)
  <1>1. /\ Advancing(w) /\ worker[w].job = k /\ k \in WorkOf(i) /\ ~IsLast(k)
        /\ Outcome(k) = "done"
    BY PlaceFacts DEF Pays
  <1>2. /\ n \in Keys /\ ItemOf(n) = i /\ StageOf(n) = NextStage(s)
        /\ s \in Stages /\ NextStage(s) # "AGENT1"
    <2>1. n \in Keys /\ ItemOf(n) = i /\ StageOf(n) = NextStage(s)
      BY <1>1, SuccessorKey DEF Successor, ItemOf, StageOf
    <2>2. s \in Stages
      BY KeyParts
    <2>. QED BY <2>1, <2>2 DEF NextStage, Stages
  <1>3. /\ items[i].stage = NextStage(s) /\ items'[i].stage = NextStage(s)
        /\ \A j \in WorkOf(i) : StageOf(j) # NextStage(s)
    BY <1>1 DEF Placed, HandoffIsAhead, Pays, ItemsKept
  <1>. HIDE DEF n
  <1>4. Outcome(n) = "none" /\ Outcome(n)' = "open"
    BY <1>2, <1>3 DEF WorkOf, Pays, n
  <1>5. /\ WorkOf(i)' = WorkOf(i) \cup {n} /\ n \notin WorkOf(i)
        /\ \A j \in WorkOf(i) : Outcome(j)' = Outcome(j)
    BY <1>2, <1>4 DEF Pays, OutcomesBut, WorkOf, ItemOf, n
  <1>6. OneJobPerStage(i)'
    <2>1. \A j, m \in WorkOf(i) : StageOf(j) = StageOf(m) => j = m
      BY DEF Placed, OneJobPerStage
    <2>2. \A j \in WorkOf(i) : StageOf(j) # StageOf(n)
      BY <1>2, <1>3
    <2>3. \A j, m \in WorkOf(i) \cup {n} : StageOf(j) = StageOf(m) => j = m
      BY <2>1, <2>2
    <2>. QED BY <1>5, <2>3 DEF OneJobPerStage, StageOf
  <1>7. FirstIsInput(i)' /\ BeginsAtFirst(i)'
    <2>1. \A j \in WorkOf(i) \cup {n} : StageOf(j) = "AGENT1" => InputOf(j) \in Inputs
      BY <1>2 DEF Placed, FirstIsInput
    <2>2. \E j \in WorkOf(i) \cup {n} : StageOf(j) = "AGENT1"
      BY <1>1 DEF Placed, BeginsAtFirst
    <2>. QED BY <1>5, <2>1, <2>2 DEF FirstIsInput, BeginsAtFirst, StageOf, InputOf
  <1>8. CompletedIsBehind(i)'
    <2>1. \A j \in WorkOf(i) : IF Outcome(j)' = "done"
                               THEN Depth(StageOf(j)) < Depth(items[i].stage)
                               ELSE StageOf(j) = items[i].stage
      BY <1>5 DEF Placed, CompletedIsBehind
    <2>2. Outcome(n)' # "done" /\ StageOf(n) = items[i].stage
      BY <1>2, <1>3, <1>4
    <2>. QED BY <1>3, <1>5, <2>1, <2>2 DEF CompletedIsBehind, StageOf, Depth
  <1>9. ASSUME NEW v \in Workers, Advancing(v)', ItemOf(worker'[v].job) = i
        PROVE  FALSE
    <2>1. v # w /\ Advancing(v) /\ worker'[v] = worker[v]
      BY <1>9 DEF Pays, Advancing
    <2>2. PICK j \in Keys : j = worker[v].job
      BY <2>1, PlaceFacts
    <2>3. j \in WorkOf(i) /\ ~IsLast(j)
      BY <1>9, <2>1, <2>2, PlaceFacts
    <2>4. NextStage(StageOf(j)) = NextStage(s) /\ StageOf(j) \in Stages
      BY <1>3, <1>9, <2>1, <2>2, KeyParts DEF Placed, HandoffIsAhead
    <2>5. StageOf(j) = s
      <3>1. Depth(StageOf(j)) = Depth(s)
        BY <1>2, <2>4, DepthFacts
      <3>. QED BY <1>2, <2>4, <3>1, DepthFacts
    <2>6. j = k
      BY <1>1, <2>3, <2>5 DEF Placed, OneJobPerStage
    <2>. QED BY <1>1, <2>1, <2>2, <2>6, PlaceFacts
  <1>10. HandoffIsAhead(i)'
    BY <1>9 DEF HandoffIsAhead, ItemOf
  <1>. QED BY <1>6, <1>7, <1>8, <1>10 DEF Placed

(* Every kind of step leaves every item in place. *)
LEMMA StepPlaces ==
    ASSUME OneInput, PlaceInv, WorkStep
    PROVE  \A i \in Items : Placed(i)'
  <1>. SUFFICES ASSUME NEW i \in Items PROVE Placed(i)'
    OBVIOUS
  <1>1. WorkInv /\ Placed(i)
    BY DEF PlaceInv
  <1>2. CASE Idles
    BY <1>1, <1>2, StaysPlaced DEF Idles, ItemsKept, AdvancingKept
  <1>3. ASSUME NEW j \in Items, Registers(j) PROVE Placed(i)'
    <2>1. CASE j = i
      BY <1>1, <1>3, <2>1, RegistersPlaces
    <2>2. CASE j # i
      BY <1>1, <1>3, <2>2, StaysPlaced DEF Registers, AdvancingKept
    <2>. QED BY <2>1, <2>2
  <1>4. ASSUME NEW k \in Keys, Opens(k) PROVE Placed(i)'
    <2>1. CASE ItemOf(k) = i
      BY <1>1, <1>4, <2>1, OpensPlaces
    <2>2. CASE ItemOf(k) # i
      <3>1. \A j \in Keys : ItemOf(j) = i => Outcome(j)' = Outcome(j)
        BY <1>4, <2>2 DEF Opens, OutcomesBut
      <3>. QED
        BY <1>1, <1>4, <3>1, StaysPlaced DEF Opens, ItemsKept, AdvancingKept
    <2>. QED BY <2>1, <2>2
  <1>5. ASSUME NEW k \in Keys, Discards(k) PROVE Placed(i)'
    <2>1. \A j \in Keys : /\ Outcome(j)' = "none" <=> Outcome(j) = "none"
                          /\ Outcome(j)' = "done" <=> Outcome(j) = "done"
      BY <1>5 DEF Discards, OutcomesBut
    <2>. QED
      BY <1>1, <1>5, <2>1, StaysPlaced DEF Discards, ItemsKept, AdvancingKept
  <1>6. ASSUME NEW w \in Workers, NEW k \in Keys, NEW o \in Outputs,
               Completes(w, k, o)
        PROVE  Placed(i)'
    <2>1. CASE ItemOf(k) = i
      BY <1>1, <1>6, <2>1, CompletesPlaces
    <2>2. CASE ItemOf(k) # i
      <3>1. \A j \in Keys : ItemOf(j) = i => Outcome(j)' = Outcome(j)
        BY <1>6, <2>2 DEF Completes, OutcomesBut
      <3>2. items'[i].stage = items[i].stage
        BY <1>6, <2>2 DEF Completes
      <3>3. \A v \in Workers : Advancing(v)' /\ ItemOf(worker'[v].job) = i =>
               Advancing(v) /\ worker'[v].job = worker[v].job
        BY <1>6, <2>2 DEF Completes, Advancing
      <3>. QED BY <1>1, <3>1, <3>2, <3>3, StaysPlaced
    <2>. QED BY <2>1, <2>2
  <1>7. ASSUME NEW w \in Workers, NEW k \in Keys, NEW o \in Outputs,
               Pays(w, k, o)
        PROVE  Placed(i)'
    <2>1. CASE ItemOf(k) = i
      BY <1>1, <1>7, <2>1, PaysPlaces
    <2>2. CASE ItemOf(k) # i
      <3>1. \A j \in Keys : ItemOf(j) = i => Outcome(j)' = Outcome(j)
        BY <1>7, <2>2, SuccessorItem DEF Pays, OutcomesBut
      <3>2. \A v \in Workers : Advancing(v)' =>
               Advancing(v) /\ worker'[v].job = worker[v].job
        BY <1>7 DEF Pays, Advancing
      <3>. QED BY <1>1, <1>7, <3>1, <3>2, StaysPlaced DEF Pays, ItemsKept
    <2>. QED BY <2>1, <2>2
  <1>. QED BY <1>2, <1>3, <1>4, <1>5, <1>6, <1>7 DEF WorkStep

(* An item begins at AGENT1, without work. *)
LEMMA InitPlaces == Init => PlaceInv
  <1>. SUFFICES ASSUME Init PROVE PlaceInv
    OBVIOUS
  <1>1. \A i \in Items : WorkOf(i) = {} /\ items[i].stage = "AGENT1"
    BY DEF Init, WorkOf, Outcome, NoJob
  <1>2. \A w \in Workers : ~Advancing(w)
    BY DEF Init, Idle, Advancing
  <1>3. \A i \in Items : Placed(i)
    BY <1>1, <1>2
    DEF Placed, OneJobPerStage, FirstIsInput, BeginsAtFirst, CompletedIsBehind,
        HandoffIsAhead
  <1>. QED BY <1>3, InitWork DEF PlaceInv

(* The line of jobs and the handoffs give the item's position. *)
LEMMA PlacesMatch == PlaceInv => PositionMatchesWork
  <1>. SUFFICES ASSUME PlaceInv, NEW k \in Keys, jobs[k].status # "ABSENT"
                PROVE  /\ jobs[k].status # "COMPLETED" =>
                             items[ItemOf(k)].stage = StageOf(k)
                       /\ jobs[k].status = "COMPLETED" =>
                             \/ /\ InHandoff(k)
                                /\ items[ItemOf(k)].stage = NextStage(StageOf(k))
                             \/ IsLast(k) /\ items[ItemOf(k)].stage = "COMPLETE"
                             \/ \E j \in Keys : /\ ItemOf(j) = ItemOf(k)
                                                /\ StageOf(j) = NextStage(StageOf(k))
                                                /\ jobs[j].status # "ABSENT"
    BY DEF PositionMatchesWork
  <1>. DEFINE i == ItemOf(k)
  <1>1. WorkInv /\ TypeOK /\ i \in Items /\ StageOf(k) \in Stages /\ Placed(i)
    BY KeyParts DEF PlaceInv, WorkInv, ClaimInv, TypeInv
  <1>2. k \in WorkOf(i) /\ (Outcome(k) = "done" <=> jobs[k].status = "COMPLETED")
    BY <1>1, OutcomeFacts DEF WorkOf
  <1>3. jobs[k].status # "COMPLETED" => items[i].stage = StageOf(k)
    BY <1>1, <1>2 DEF Placed, CompletedIsBehind
  <1>4. ASSUME jobs[k].status = "COMPLETED", IsLast(k)
        PROVE  items[i].stage = "COMPLETE"
    <2>1. Depth("AGENT3") < Depth(items[i].stage)
      BY <1>1, <1>2, <1>4 DEF Placed, CompletedIsBehind, IsLast
    <2>2. items[i].stage \in Stages \cup {"COMPLETE"}
      BY <1>1, PlaceFacts
    <2>3. /\ Depth("AGENT1") = 1 /\ Depth("AGENT2") = 2 /\ Depth("AGENT3") = 3
      BY DEF Depth
    <2>. QED BY <2>1, <2>2, <2>3 DEF Stages
  <1>5. ASSUME jobs[k].status = "COMPLETED", InHandoff(k)
        PROVE  items[i].stage = NextStage(StageOf(k))
    BY <1>1, <1>5 DEF InHandoff, Advancing, Placed, HandoffIsAhead
  <1>6. ASSUME jobs[k].status = "COMPLETED", ~IsLast(k), HandedOff(k)
        PROVE  \E j \in Keys : /\ ItemOf(j) = ItemOf(k)
                               /\ StageOf(j) = NextStage(StageOf(k))
                               /\ jobs[j].status # "ABSENT"
    <2>1. PICK o \in Outputs : jobs[Successor(k, o)].status # "ABSENT"
      BY <1>6 DEF HandedOff
    <2>2. Successor(k, o) \in Keys
      BY <1>6, SuccessorKey
    <2>3. ItemOf(Successor(k, o)) = i /\ StageOf(Successor(k, o)) = NextStage(StageOf(k))
      BY DEF Successor, ItemOf, StageOf
    <2>. QED BY <2>1, <2>2, <2>3
  <1>7. jobs[k].status = "COMPLETED" /\ ~IsLast(k) => HandedOff(k) \/ InHandoff(k)
    BY <1>1 DEF WorkInv, HandoffComplete
  <1>. QED BY <1>3, <1>4, <1>5, <1>6, <1>7

(* While the fencer is local, an item that is given one input is where its *)
(* work is, whichever workers race on it and whatever a sweep takes back.  *)
THEOREM PositionIsWork ==
    ASSUME RootBound = FALSE, OneInput
    PROVE  Spec => []PositionMatchesWork
  <1>1. PlaceInv /\ [Next]_vars => PlaceInv'
    <2>. SUFFICES ASSUME PlaceInv, [Next]_vars PROVE PlaceInv'
      OBVIOUS
    <2>1. WorkStep /\ WorkInv'
      BY StepIsWork, StepWork DEF PlaceInv, WorkInv
    <2>. QED BY <2>1, StepPlaces DEF PlaceInv
  <1>. QED BY <1>1, InitPlaces, PlacesMatch, PTL DEF Spec
=============================================================================
