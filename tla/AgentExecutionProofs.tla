------------------------- MODULE AgentExecutionProofs -------------------------
(***************************************************************************)
(* Proofs about AgentExecution, for any executions and bounds.             *)
(*                                                                         *)
(* A run is a record of ten fields and has some thirty actions, so the     *)
(* proof goes through what a step does to the ledger.  There are eight     *)
(* kinds: a step keeps the ledger, takes a claim, decides one, fails some, *)
(* reviews one, begins a run, ends one by a crash, or lets a lease expire. *)
(* Every action is one of them (StepKinds), and each kind preserves the    *)
(* inductive invariant (one lemma per kind).                               *)
(***************************************************************************)
EXTENDS AgentExecution, TLAPS

Rows == [status: {"absent", "running", "accepted", "failed"},
         claim: 0..MaxRuns, live: BOOLEAN,
         output: Outputs \cup {NoOutput}, revoked: BOOLEAN]

Records == [pc: Pcs, todo: SUBSET Exec, entry: SUBSET Exec, queue: SUBSET Exec,
            batch: [Exec -> Answers], fresh: SUBSET Refs,
            pending: SUBSET Exec, next: SUBSET Exec,
            round: Rounds, returned: SUBSET Refs]

\* What a run x may hold at each of its program counters.
Shape(x) ==
    /\ x.pc = "idle" => x = NoRun
    /\ x.pc \in {"idle", "prepare", "store", "review"} => x.entry = {}
    /\ x.pc \in {"idle", "store", "review"} => x.todo = {}
    /\ x.pc # "store" => x.batch = NoBatch
    /\ stage = "agent3" => \A e \in Exec : x.batch[e] # "invalid"
    /\ x.pc = "review" => x.queue = {} /\ x.pending = {} /\ x.next = {}
    /\ x.entry \cap x.todo = {}
    /\ x.round <= RetryRounds

\* The executions that x has yet to look at or to claim, and those it has claimed
\* and has to complete or fail; the references it holds.
Ahead(x) == x.todo \cup x.entry

Open(x) ==
    x.queue \cup {e \in Exec : x.batch[e] \notin {"none", "stored"}}
        \cup x.pending \cup x.next
        \cup (IF x.pc = "rebind" THEN x.entry ELSE {})

Held(x) == x.fresh \cup x.returned

AcceptedBy(r, e) == \E a \in accepts : a.exec = e /\ a.output.run = r

RunInv ==
    \A r \in RunIds : /\ Shape(run[r])
                      /\ r > runs => run[r].pc = "idle"

\* What the ledger shows as accepted was accepted, and by a run that has begun.
AcceptedInv ==
    /\ \A e \in Exec : Accepted(e) => AcceptedRef(e) \in accepts
    /\ \A a \in accepts : a.output.run <= runs

HeldInv ==
    stage # "agent3" => \A r \in RunIds : Held(run[r]) \subseteq accepts

\* The claim of a running execution is a run's that has to decide it, or has died.
OpenInv ==
    \A e \in Exec : ledger[e].status = "running" =>
        /\ ledger[e].claim \in RunIds
        /\ \/ ledger[e].claim \in crashed
           \/ e \in Open(run[ledger[e].claim])

\* A run that may still complete an execution has had none of its outputs accepted.
UnusedInv ==
    \A e \in Exec :
        /\ ledger[e].status = "running" => ~AcceptedBy(ledger[e].claim, e)
        /\ \A r \in RunIds : e \in Ahead(run[r]) => ~AcceptedBy(r, e)

IInv ==
    /\ TypeOK
    /\ RunInv
    /\ AcceptedInv
    /\ HeldInv
    /\ OpenInv
    /\ UnusedInv
    /\ OneOutputPerClaim

-----------------------------------------------------------------------------
(* The kinds of a step.                                                    *)

\* The record of run r changes, and nothing comes back ahead of it.
Moves(r) ==
    /\ r <= runs
    /\ run' = [run EXCEPT ![r] = run'[r]]
    /\ run'[r] \in Records
    /\ Shape(run'[r])
    /\ Ahead(run'[r]) \subseteq Ahead(run[r])
    /\ UNCHANGED <<stage, runs, crashed>>

Keeps(r) ==
    /\ Moves(r)
    /\ UNCHANGED <<ledger, accepts>>
    /\ Open(run[r]) \subseteq Open(run'[r])
    /\ Held(run'[r]) \subseteq Held(run[r]) \cup accepts

Takes(r, e) ==
    /\ Moves(r)
    /\ ledger' = Claimed(r, e)
    /\ UNCHANGED accepts
    /\ ~Accepted(e)
    /\ e \in Ahead(run[r])
    /\ Open(run[r]) \cup {e} \subseteq Open(run'[r])
    /\ Held(run'[r]) \subseteq Held(run[r])

Decides(r, e, o) ==
    /\ Moves(r)
    /\ Complete(r, e, o)
    /\ o \in Outputs
    /\ o.run = r
    /\ e \notin Ahead(run'[r])
    /\ Open(run[r]) \ {e} \subseteq Open(run'[r])
    /\ stage # "agent3" =>
         Held(run'[r]) \subseteq Held(run[r]) \cup {CompletedRef(r, e, o)}

Fails(r, F) ==
    /\ Moves(r)
    /\ ledger' = Failed(r, F)
    /\ UNCHANGED accepts
    /\ \A e \in Open(run[r]) \ Open(run'[r]) : e \in F \/ ledger[e].status # "running"
    /\ Held(run'[r]) \subseteq Held(run[r])
    /\ run'[r] # run[r]

Reviews(r, e) ==
    /\ Moves(r)
    /\ \/ ledger' = [ledger EXCEPT ![e].revoked = @ /\ ~Accepted(e)]
       \/ ledger' = [ledger EXCEPT ![e].status = "failed",
                                   ![e].live = FALSE,
                                   ![e].revoked = TRUE]
    /\ UNCHANGED accepts
    /\ Open(run[r]) \subseteq Open(run'[r])
    /\ Held(run'[r]) \subseteq Held(run[r])

Kinds ==
    \/ \E r \in RunIds :
          \/ Keeps(r)
          \/ \E e \in Exec : Takes(r, e) \/ Reviews(r, e)
          \/ \E e \in Exec, o \in Outputs : Decides(r, e, o)
          \/ \E F \in SUBSET Exec : Fails(r, F)
          \/ \E X \in SUBSET Exec : Start(r, X)
          \/ Crash(r)
    \/ \E e \in Exec : LeaseExpires(e)
    \/ UNCHANGED vars

-----------------------------------------------------------------------------
(* Types.                                                                  *)

LEMMA Types ==
    TypeOK <=> /\ stage \in Stages
               /\ ledger \in [Exec -> Rows]
               /\ run \in [RunIds -> Records]
               /\ runs \in 0..MaxRuns
               /\ accepts \subseteq Refs
               /\ crashed \subseteq RunIds
  BY DEF TypeOK, Rows, Records

\* TypeOK one step later, conjunct by conjunct, so that a step can prove each apart.
LEMMA TypesNext ==
    TypeOK' <=> /\ stage' \in Stages
                /\ ledger' \in [Exec -> Rows]
                /\ run' \in [RunIds -> Records]
                /\ runs' \in 0..MaxRuns
                /\ accepts' \subseteq Refs
                /\ crashed' \subseteq RunIds
  BY DEF TypeOK, Rows, Records

\* The record of a slot without a run is a record of the right shape.
LEMMA NoRunShape == NoRun \in Records /\ Shape(NoRun)
  BY ExecutionAssumption DEF NoRun, Records, Pcs, NoBatch, Answers, Rounds, Shape, RetryRounds

\* A slot without a run holds nothing, waits for nothing and has nothing ahead.
LEMMA NoRunHolds == Ahead(NoRun) = {} /\ Open(NoRun) = {} /\ Held(NoRun) = {}
  BY DEF Ahead, Open, Held, NoRun, NoBatch

\* Every row but the claimed one stays; the claimed one keeps its output.
LEMMA ClaimedRows ==
    ASSUME ledger \in [Exec -> Rows], NEW r \in RunIds, NEW e \in Exec,
           ledger' = Claimed(r, e)
    PROVE  /\ ledger' \in [Exec -> Rows]
           /\ \A f \in Exec \ {e} : ledger'[f] = ledger[f]
           /\ ledger'[e].status = "running"
           /\ ledger'[e].claim = r
           /\ ledger'[e].output = ledger[e].output
  <1>1. ledger' = [ledger EXCEPT ![e] =
                     [ledger[e] EXCEPT !.status = "running", !.claim = r, !.live = TRUE]]
    BY DEF Claimed, Rows
  <1>2. r \in 0..MaxRuns
    BY ExecutionAssumption DEF RunIds
  <1>3. [ledger[e] EXCEPT !.status = "running", !.claim = r, !.live = TRUE] \in Rows
    BY <1>2 DEF Rows
  <1>4. QED
    BY <1>1, <1>3 DEF Rows

\* complete_execution touches one row, which is accepted afterwards.
LEMMA CompletedRows ==
    ASSUME ledger \in [Exec -> Rows], NEW e \in Exec, NEW o \in Outputs,
           ledger' = Completed(e, o)
    PROVE  /\ ledger' \in [Exec -> Rows]
           /\ \A f \in Exec \ {e} : ledger'[f] = ledger[f]
           /\ ledger'[e].status = "accepted"
           /\ ledger'[e].claim = ledger[e].claim
           /\ ledger'[e].output = o
  <1>1. ledger' = [ledger EXCEPT ![e] =
                     [ledger[e] EXCEPT !.status = "accepted", !.output = o, !.live = FALSE]]
    BY DEF Completed, Rows
  <1>2. [ledger[e] EXCEPT !.status = "accepted", !.output = o, !.live = FALSE] \in Rows
    BY DEF Rows
  <1>3. QED
    BY <1>1, <1>2 DEF Rows

\* fail_execution touches only the rows whose claim is still the run's.
LEMMA FailedRows ==
    ASSUME ledger \in [Exec -> Rows], NEW r \in RunIds, NEW F \in SUBSET Exec,
           ledger' = Failed(r, F)
    PROVE  /\ ledger' \in [Exec -> Rows]
           /\ \A e \in Exec : IF e \in F /\ ledger[e].claim = r
                              THEN /\ ledger'[e].status = "failed"
                                   /\ ledger'[e].claim = ledger[e].claim
                                   /\ ledger'[e].output = ledger[e].output
                              ELSE ledger'[e] = ledger[e]
  BY DEF Failed, Rows

\* A review may fail a row; it changes no claim and no output.
LEMMA ReviewedRows ==
    ASSUME ledger \in [Exec -> Rows], NEW e \in Exec,
           \/ ledger' = [ledger EXCEPT ![e].revoked = @ /\ ~Accepted(e)]
           \/ ledger' = [ledger EXCEPT ![e].status = "failed",
                                       ![e].live = FALSE,
                                       ![e].revoked = TRUE]
    PROVE  /\ ledger' \in [Exec -> Rows]
           /\ \A f \in Exec : /\ ledger'[f].status \in {ledger[f].status, "failed"}
                              /\ ledger'[f].claim = ledger[f].claim
                              /\ ledger'[f].output = ledger[f].output
  <1>1. CASE ledger' = [ledger EXCEPT ![e].revoked = @ /\ ~Accepted(e)]
    <2>1. PICK b \in BOOLEAN : ledger' = [ledger EXCEPT ![e].revoked = b]
      BY <1>1
    <2>2. QED
      BY <2>1 DEF Rows
  <1>2. CASE ledger' = [ledger EXCEPT ![e].status = "failed",
                                      ![e].live = FALSE,
                                      ![e].revoked = TRUE]
    <2>1. ledger' = [ledger EXCEPT ![e] =
                       [ledger[e] EXCEPT !.status = "failed", !.live = FALSE,
                                         !.revoked = TRUE]]
      BY <1>2 DEF Rows
    <2>2. ledger[e] \in Rows
      OBVIOUS
    <2>3. [ledger[e] EXCEPT !.status = "failed", !.live = FALSE, !.revoked = TRUE] \in Rows
      BY <2>2 DEF Rows
    <2>4. QED
      BY <2>1, <2>3 DEF Rows
  <1>3. QED
    BY <1>1, <1>2

\* What a move of run r leaves of the other runs.
LEMMA MovesRuns ==
    ASSUME TypeOK, RunInv, NEW r \in RunIds, Moves(r)
    PROVE  /\ run' \in [RunIds -> Records]
           /\ RunInv'
           /\ \A q \in RunIds \ {r} : run'[q] = run[q]
           /\ \A q \in RunIds : Ahead(run'[q]) \subseteq Ahead(run[q])
  <1>1. /\ run \in [RunIds -> Records]
        /\ run' = [run EXCEPT ![r] = run'[r]]
        /\ run'[r] \in Records
    BY Types DEF Moves
  <1>2. /\ run' \in [RunIds -> Records]
        /\ \A q \in RunIds \ {r} : run'[q] = run[q]
    BY <1>1
  <1>3. \A q \in RunIds : Ahead(run'[q]) \subseteq Ahead(run[q])
    BY <1>2 DEF Moves
  <1>4. /\ r <= runs
        /\ stage' = stage
        /\ runs' = runs
        /\ Shape(run'[r])
    BY DEF Moves
  <1>5. runs \in Nat /\ RunIds \subseteq Nat
    BY Types, ExecutionAssumption DEF RunIds
  <1>6. \A q \in RunIds : Shape(run'[q]) /\ (q > runs => run'[q].pc = "idle")
    BY <1>2, <1>4, <1>5 DEF RunInv
  <1>7. RunInv'
    BY <1>4, <1>6 DEF RunInv, Shape, RetryRounds
  <1>8. QED
    BY <1>2, <1>3, <1>7

-----------------------------------------------------------------------------
(* Each kind preserves the invariant.                                      *)

LEMMA KeepsInv ==
    ASSUME IInv, NEW r \in RunIds, Keeps(r)
    PROVE  IInv'
  <1>1. /\ TypeOK /\ RunInv
        /\ Moves(r)
        /\ UNCHANGED <<stage, ledger, runs, accepts, crashed>>
    BY DEF IInv, Keeps, Moves
  <1>2. /\ run' \in [RunIds -> Records]
        /\ RunInv'
        /\ \A q \in RunIds \ {r} : run'[q] = run[q]
        /\ \A q \in RunIds : Ahead(run'[q]) \subseteq Ahead(run[q])
    BY <1>1, MovesRuns
  <1>3. TypeOK'
    BY <1>1, <1>2, Types, TypesNext
  <1>4. AcceptedInv' /\ OneOutputPerClaim'
    BY <1>1 DEF IInv, AcceptedInv, Accepted, AcceptedRef, OneOutputPerClaim
  <1>5. HeldInv'
    BY <1>1, <1>2 DEF IInv, HeldInv, Keeps
  <1>6. OpenInv'
    BY <1>1, <1>2 DEF IInv, OpenInv, Keeps
  <1>7. UnusedInv'
    BY <1>1, <1>2 DEF IInv, UnusedInv, AcceptedBy
  <1>8. QED
    BY <1>2, <1>3, <1>4, <1>5, <1>6, <1>7 DEF IInv

\* A claim (claim_execution) keeps the invariant.
LEMMA TakesInv ==
    ASSUME IInv, NEW r \in RunIds, NEW e \in Exec, Takes(r, e)
    PROVE  IInv'
  <1>1. /\ TypeOK /\ RunInv
        /\ Moves(r)
        /\ UNCHANGED <<stage, runs, accepts, crashed>>
    BY DEF IInv, Takes, Moves
  <1>2. /\ run' \in [RunIds -> Records]
        /\ RunInv'
        /\ \A q \in RunIds \ {r} : run'[q] = run[q]
        /\ \A q \in RunIds : Ahead(run'[q]) \subseteq Ahead(run[q])
    BY <1>1, MovesRuns
  <1>3. /\ ledger' \in [Exec -> Rows]
        /\ \A f \in Exec \ {e} : ledger'[f] = ledger[f]
        /\ ledger'[e].status = "running"
        /\ ledger'[e].claim = r
    BY <1>1, Types, ClaimedRows DEF Takes
  <1>4. TypeOK'
    BY <1>1, <1>2, <1>3, Types, TypesNext
  <1>5. AcceptedInv' /\ OneOutputPerClaim'
    BY <1>1, <1>3 DEF IInv, AcceptedInv, Accepted, AcceptedRef, OneOutputPerClaim
  <1>6. HeldInv'
    BY <1>1, <1>2 DEF IInv, HeldInv, Takes
  <1>7. OpenInv'
    BY <1>1, <1>2, <1>3 DEF IInv, OpenInv, Takes
  <1>8. UnusedInv'
    BY <1>1, <1>2, <1>3 DEF IInv, UnusedInv, AcceptedBy, Takes
  <1>9. QED
    BY <1>2, <1>4, <1>5, <1>6, <1>7, <1>8 DEF IInv

\* A completion adds at most its own output, and where the claim was lost it
\* returns what the other claim had accepted.
LEMMA CompleteEffect ==
    ASSUME TypeOK, AcceptedInv, NEW r \in RunIds, NEW e \in Exec, NEW o \in Outputs,
           Complete(r, e, o)
    PROVE  \/ /\ MayComplete(r, e)
              /\ ledger' = Completed(e, o)
              /\ accepts' = accepts \cup {[exec |-> e, output |-> o]}
              /\ CompletedRef(r, e, o) \in accepts'
           \/ /\ ~MayComplete(r, e)
              /\ UNCHANGED <<ledger, accepts>>
              /\ CompletedRef(r, e, o) \in accepts'
  BY DEF Complete, CompletedRef, ClaimLost, AcceptedInv

\* An accepted output (complete_execution, or a rebinding) keeps the invariant.
LEMMA DecidesInv ==
    ASSUME IInv, NEW r \in RunIds, NEW e \in Exec, NEW o \in Outputs, Decides(r, e, o)
    PROVE  IInv'
  <1>1. /\ TypeOK /\ RunInv /\ AcceptedInv
        /\ Moves(r)
        /\ UNCHANGED <<stage, runs, crashed>>
        /\ Complete(r, e, o)
    BY DEF IInv, Decides, Moves
  <1>2. /\ run' \in [RunIds -> Records]
        /\ RunInv'
        /\ \A q \in RunIds \ {r} : run'[q] = run[q]
        /\ \A q \in RunIds : Ahead(run'[q]) \subseteq Ahead(run[q])
    BY <1>1, MovesRuns
  <1>3. /\ accepts \subseteq accepts'
        /\ CompletedRef(r, e, o) \in accepts'
    BY <1>1, CompleteEffect
  <1>4. HeldInv'
    BY <1>1, <1>2, <1>3 DEF IInv, HeldInv, Decides
  <1>5. CASE /\ MayComplete(r, e)
             /\ ledger' = Completed(e, o)
             /\ accepts' = accepts \cup {[exec |-> e, output |-> o]}
    <2>1. /\ ledger' \in [Exec -> Rows]
          /\ \A f \in Exec \ {e} : ledger'[f] = ledger[f]
          /\ ledger'[e].status = "accepted"
          /\ ledger'[e].output = o
      BY <1>1, <1>5, Types, CompletedRows
    <2>2. [exec |-> e, output |-> o] \in Refs
      BY DEF Refs
    <2>3. TypeOK'
      BY <1>1, <1>2, <1>5, <2>1, <2>2, Types, TypesNext
    <2>4. AcceptedInv'
      BY <1>1, <1>5, <2>1 DEF AcceptedInv, Accepted, AcceptedRef, Decides, Moves
    <2>5. ledger[e].status = "running" /\ ledger[e].claim = r /\ ~AcceptedBy(r, e)
      BY <1>5 DEF IInv, UnusedInv, MayComplete
    <2>6. OneOutputPerClaim'
      BY <1>5, <2>5 DEF IInv, OneOutputPerClaim, AcceptedBy, Decides
    <2>7. OpenInv'
      BY <1>1, <1>2, <2>1 DEF IInv, OpenInv, Decides
    <2>8. UnusedInv'
      BY <1>1, <1>2, <1>5, <2>1 DEF IInv, UnusedInv, AcceptedBy, Decides
    <2>9. QED
      BY <1>2, <1>4, <2>3, <2>4, <2>6, <2>7, <2>8 DEF IInv
  <1>6. CASE /\ ~MayComplete(r, e)
             /\ UNCHANGED <<ledger, accepts>>
    <2>1. TypeOK'
      BY <1>1, <1>2, <1>6, Types, TypesNext
    <2>2. AcceptedInv' /\ OneOutputPerClaim'
      BY <1>1, <1>6 DEF IInv, AcceptedInv, Accepted, AcceptedRef, OneOutputPerClaim
    <2>3. OpenInv'
      BY <1>1, <1>2, <1>6 DEF IInv, OpenInv, Decides, MayComplete
    <2>4. UnusedInv'
      BY <1>1, <1>2, <1>6 DEF IInv, UnusedInv, AcceptedBy
    <2>5. QED
      BY <1>2, <1>4, <2>1, <2>2, <2>3, <2>4 DEF IInv
  <1>7. QED
    BY <1>1, <1>5, <1>6, CompleteEffect

\* A failure of some executions (fail_execution) keeps the invariant.
LEMMA FailsInv ==
    ASSUME IInv, NEW r \in RunIds, NEW F \in SUBSET Exec, Fails(r, F)
    PROVE  IInv'
  <1>1. /\ TypeOK /\ RunInv
        /\ Moves(r)
        /\ UNCHANGED <<stage, runs, accepts, crashed>>
    BY DEF IInv, Fails, Moves
  <1>2. /\ run' \in [RunIds -> Records]
        /\ RunInv'
        /\ \A q \in RunIds \ {r} : run'[q] = run[q]
        /\ \A q \in RunIds : Ahead(run'[q]) \subseteq Ahead(run[q])
    BY <1>1, MovesRuns
  <1>3. /\ ledger' \in [Exec -> Rows]
        /\ \A e \in Exec : IF e \in F /\ ledger[e].claim = r
                           THEN /\ ledger'[e].status = "failed"
                                /\ ledger'[e].claim = ledger[e].claim
                                /\ ledger'[e].output = ledger[e].output
                           ELSE ledger'[e] = ledger[e]
    BY <1>1, Types, FailedRows DEF Fails
  <1>4. TypeOK'
    BY <1>1, <1>2, <1>3, Types, TypesNext
  <1>5. AcceptedInv' /\ OneOutputPerClaim'
    BY <1>1, <1>3 DEF IInv, AcceptedInv, Accepted, AcceptedRef, OneOutputPerClaim
  <1>6. HeldInv'
    BY <1>1, <1>2 DEF IInv, HeldInv, Fails
  <1>7. OpenInv'
    BY <1>1, <1>2, <1>3 DEF IInv, OpenInv, Fails
  <1>8. UnusedInv'
    BY <1>1, <1>2, <1>3 DEF IInv, UnusedInv, AcceptedBy
  <1>9. QED
    BY <1>2, <1>4, <1>5, <1>6, <1>7, <1>8 DEF IInv

\* A review that accepts or revokes (Agent2) keeps the invariant.
LEMMA ReviewsInv ==
    ASSUME IInv, NEW r \in RunIds, NEW e \in Exec, Reviews(r, e)
    PROVE  IInv'
  <1>1. /\ TypeOK /\ RunInv
        /\ Moves(r)
        /\ UNCHANGED <<stage, runs, accepts, crashed>>
    BY DEF IInv, Reviews, Moves
  <1>2. /\ run' \in [RunIds -> Records]
        /\ RunInv'
        /\ \A q \in RunIds \ {r} : run'[q] = run[q]
        /\ \A q \in RunIds : Ahead(run'[q]) \subseteq Ahead(run[q])
    BY <1>1, MovesRuns
  <1>3. /\ ledger' \in [Exec -> Rows]
        /\ \A f \in Exec : /\ ledger'[f].status \in {ledger[f].status, "failed"}
                           /\ ledger'[f].claim = ledger[f].claim
                           /\ ledger'[f].output = ledger[f].output
    BY <1>1, Types, ReviewedRows DEF Reviews
  <1>4. TypeOK'
    BY <1>1, <1>2, <1>3, Types, TypesNext
  <1>5. AcceptedInv' /\ OneOutputPerClaim'
    BY <1>1, <1>3 DEF IInv, AcceptedInv, Accepted, AcceptedRef, OneOutputPerClaim
  <1>6. HeldInv'
    BY <1>1, <1>2 DEF IInv, HeldInv, Reviews
  <1>7. OpenInv'
    BY <1>1, <1>2, <1>3 DEF IInv, OpenInv, Reviews
  <1>8. UnusedInv'
    BY <1>1, <1>2, <1>3 DEF IInv, UnusedInv, AcceptedBy
  <1>9. QED
    BY <1>2, <1>4, <1>5, <1>6, <1>7, <1>8 DEF IInv

\* A new run keeps the invariant: its slot held nothing before.
LEMMA StartInv ==
    ASSUME IInv, NEW r \in RunIds, NEW X \in SUBSET Exec, Start(r, X)
    PROVE  IInv'
  <1>. DEFINE y == [NoRun EXCEPT !.pc = "prepare", !.todo = X]
  <1>1. /\ TypeOK
        /\ runs \in Nat
        /\ runs' = runs + 1 /\ r = runs + 1
        /\ run' = [run EXCEPT ![r] = y]
        /\ UNCHANGED <<stage, ledger, accepts, crashed>>
    BY Types, ExecutionAssumption DEF IInv, Start
  <1>2. y \in Records /\ Shape(y)
    BY NoRunShape DEF Records, Shape, NoRun, Pcs, RetryRounds
  <1>3. Ahead(y) = X /\ Held(y) = {}
    BY DEF Ahead, Held, NoRun
  <1>4. run[r] = NoRun
    BY <1>1 DEF IInv, RunInv, Shape
  <1>. HIDE DEF y
  <1>5. /\ run' \in [RunIds -> Records]
        /\ run'[r] = y
        /\ \A q \in RunIds \ {r} : run'[q] = run[q]
    BY <1>1, <1>2, Types
  <1>6. r \in 0..MaxRuns /\ RunIds \subseteq Nat
    BY ExecutionAssumption DEF RunIds
  <1>7. TypeOK'
    BY <1>1, <1>5, <1>6, Types, TypesNext
  <1>8. RunInv'
    <2>1. \A q \in RunIds : Shape(run'[q]) /\ (q > runs' => run'[q].pc = "idle")
      BY <1>1, <1>2, <1>5, <1>6 DEF IInv, RunInv
    <2>2. QED
      BY <1>1, <2>1 DEF RunInv, Shape, RetryRounds
  <1>9. \A a \in accepts : a.output.run <= runs /\ a.output.run \in Nat
    BY <1>1, <1>6, Types DEF IInv, AcceptedInv, Refs, Outputs
  <1>10. AcceptedInv' /\ OneOutputPerClaim'
    BY <1>1, <1>9 DEF IInv, AcceptedInv, Accepted, AcceptedRef, OneOutputPerClaim
  <1>11. HeldInv'
    BY <1>1, <1>3, <1>5 DEF IInv, HeldInv
  <1>12. OpenInv'
    BY <1>1, <1>4, <1>5, NoRunHolds DEF IInv, OpenInv
  <1>13. UnusedInv'
    <2>1. \A e \in Exec : ~AcceptedBy(r, e)
      BY <1>1, <1>9 DEF AcceptedBy
    <2>2. QED
      BY <1>1, <1>5, <2>1 DEF IInv, UnusedInv, AcceptedBy
  <1>14. QED
    BY <1>7, <1>8, <1>10, <1>11, <1>12, <1>13 DEF IInv

\* The death of a process keeps the invariant: what it ran is crashed's to answer for.
LEMMA CrashInv ==
    ASSUME IInv, NEW r \in RunIds, Crash(r)
    PROVE  IInv'
  <1>1. /\ TypeOK
        /\ crashed' = crashed \cup {r}
        /\ run' = [run EXCEPT ![r] = NoRun]
        /\ UNCHANGED <<stage, ledger, runs, accepts>>
    BY DEF IInv, Crash
  <1>2. /\ run' \in [RunIds -> Records]
        /\ run'[r] = NoRun
        /\ \A q \in RunIds \ {r} : run'[q] = run[q]
    BY <1>1, NoRunShape, Types
  <1>3. TypeOK'
    BY <1>1, <1>2, Types, TypesNext
  <1>4. RunInv'
    <2>1. \A q \in RunIds : Shape(run'[q]) /\ (q > runs => run'[q].pc = "idle")
      BY <1>2, NoRunShape DEF IInv, RunInv, NoRun
    <2>2. QED
      BY <1>1, <2>1 DEF RunInv, Shape, RetryRounds
  <1>5. AcceptedInv' /\ OneOutputPerClaim'
    BY <1>1 DEF IInv, AcceptedInv, Accepted, AcceptedRef, OneOutputPerClaim
  <1>6. HeldInv'
    BY <1>1, <1>2, NoRunHolds DEF IInv, HeldInv
  <1>7. OpenInv'
    BY <1>1, <1>2 DEF IInv, OpenInv
  <1>8. UnusedInv'
    BY <1>1, <1>2, NoRunHolds DEF IInv, UnusedInv, AcceptedBy
  <1>9. QED
    BY <1>3, <1>4, <1>5, <1>6, <1>7, <1>8 DEF IInv

\* A lease that runs out changes nothing that the invariant looks at.
LEMMA LeaseInv ==
    ASSUME IInv, NEW e \in Exec, LeaseExpires(e)
    PROVE  IInv'
  <1>1. /\ TypeOK
        /\ ledger' = [ledger EXCEPT ![e].live = FALSE]
        /\ UNCHANGED <<stage, run, runs, accepts, crashed>>
    BY DEF IInv, LeaseExpires
  <1>2. /\ ledger' \in [Exec -> Rows]
        /\ \A f \in Exec : /\ ledger'[f].status = ledger[f].status
                           /\ ledger'[f].claim = ledger[f].claim
                           /\ ledger'[f].output = ledger[f].output
    BY <1>1, Types DEF Rows
  <1>3. TypeOK'
    BY <1>1, <1>2, Types, TypesNext
  <1>4. RunInv' /\ HeldInv'
    BY <1>1 DEF IInv, RunInv, Shape, RetryRounds, HeldInv
  <1>5. AcceptedInv' /\ OneOutputPerClaim'
    BY <1>1, <1>2 DEF IInv, AcceptedInv, Accepted, AcceptedRef, OneOutputPerClaim
  <1>6. OpenInv' /\ UnusedInv'
    BY <1>1, <1>2 DEF IInv, OpenInv, UnusedInv, AcceptedBy
  <1>7. QED
    BY <1>3, <1>4, <1>5, <1>6 DEF IInv

-----------------------------------------------------------------------------
(* Each action is of a kind.  x is the record of its run, y the next one.  *)

LEMMA RunFacts ==
    ASSUME IInv, NEW r \in RunIds
    PROVE  /\ run \in [RunIds -> Records]
           /\ run[r] \in Records
           /\ Shape(run[r])
           /\ run[r].pc # "idle" => r <= runs
           /\ accepts \subseteq Refs
           /\ \A e \in Exec : Accepted(e) => AcceptedRef(e) \in accepts
  <1>1. runs \in Nat /\ RunIds \subseteq Nat
    BY Types, ExecutionAssumption DEF IInv, RunIds
  <1>2. QED
    BY <1>1, Types DEF IInv, RunInv, AcceptedInv

\* A change of one run's record that takes nothing new and drops nothing open is a move.
LEMMA MoveIs ==
    ASSUME IInv, NEW r \in RunIds, NEW y \in Records,
           run[r].pc # "idle",
           run' = [run EXCEPT ![r] = y],
           Shape(y),
           Ahead(y) \subseteq Ahead(run[r]),
           UNCHANGED <<stage, runs, crashed>>
    PROVE  Moves(r) /\ run'[r] = y
  BY RunFacts DEF Moves

\* Look, the reading of the ledger, only moves its run.
LEMMA LookKeeps ==
    ASSUME IInv, NEW r \in RunIds, NEW e \in Exec, Look(r, e)
    PROVE  Keeps(r)
  <1>. DEFINE x == run[r]
              ret == IF Accepted(e) THEN x.returned \cup {AcceptedRef(e)} ELSE x.returned
              ent == IF Accepted(e) THEN {} ELSE {e}
              pc == IF Accepted(e) THEN "prepare" ELSE "claim"
              y == [x EXCEPT !.todo = @ \ {e}, !.returned = ret, !.entry = ent, !.pc = pc]
  <1>1. x \in Records /\ Shape(x)
    BY RunFacts
  <1>2. x.pc = "prepare" /\ e \in x.todo /\ LedgerUnchanged
    BY DEF Look
  <1>3. ret \in SUBSET Refs /\ ret \subseteq x.returned \cup accepts
    BY <1>1, RunFacts DEF Records
  <1>4. ent \in SUBSET {e} /\ pc \in {"prepare", "claim"} /\ (pc = "prepare" => ent = {})
    OBVIOUS
  <1>5. run' = [run EXCEPT ![r] = y]
    BY RunFacts DEF Look, Records
  <1>. HIDE DEF ret, ent, pc
  <1>6. y \in Records
    BY <1>1, <1>3, <1>4 DEF Records, Pcs
  <1>7. Shape(y) /\ Ahead(y) \subseteq Ahead(x)
    BY <1>1, <1>2, <1>4 DEF Records, Shape, Ahead
  <1>8. Open(x) \subseteq Open(y) /\ Held(y) \subseteq Held(x) \cup accepts
    BY <1>1, <1>2, <1>3, <1>4 DEF Records, Open, Held
  <1>. HIDE DEF y
  <1>9. QED
    BY <1>2, <1>5, <1>6, <1>7, <1>8, MoveIs DEF Keeps, LedgerUnchanged

\* An accepted output is replayed, at the claim or while the run waits.
LEMMA ReplayKeeps ==
    ASSUME IInv, NEW r \in RunIds, NEW e \in Exec,
           run[r].pc \in {"claim", "wait"},
           Accepted(e),
           run' = [run EXCEPT ![r].returned = @ \cup {AcceptedRef(e)},
                              ![r].entry = {}, ![r].pc = "prepare"],
           LedgerUnchanged
    PROVE  Keeps(r)
  <1>. DEFINE x == run[r]
              ret == x.returned \cup {AcceptedRef(e)}
              y == [x EXCEPT !.returned = ret, !.entry = {}, !.pc = "prepare"]
  <1>1. x \in Records /\ Shape(x)
    BY RunFacts
  <1>2. ret \in SUBSET Refs /\ ret \subseteq x.returned \cup accepts
    BY <1>1, RunFacts DEF Records
  <1>3. run' = [run EXCEPT ![r] = y]
    BY RunFacts DEF Records
  <1>. HIDE DEF ret
  <1>4. y \in Records
    BY <1>1, <1>2 DEF Records, Pcs
  <1>5. Shape(y) /\ Ahead(y) \subseteq Ahead(x)
    BY <1>1 DEF Records, Shape, Ahead
  <1>6. Open(x) \subseteq Open(y) /\ Held(y) \subseteq Held(x) \cup accepts
    BY <1>1, <1>2 DEF Records, Open, Held
  <1>. HIDE DEF y
  <1>7. QED
    BY <1>3, <1>4, <1>5, <1>6, MoveIs DEF Keeps, LedgerUnchanged

\* The entry is given up: busy, or the wait is over.
LEMMA GiveUpKeeps ==
    ASSUME IInv, NEW r \in RunIds,
           run[r].pc \in {"claim", "wait"},
           run' = [run EXCEPT ![r].entry = {}, ![r].pc = "prepare"],
           LedgerUnchanged
    PROVE  Keeps(r)
  <1>. DEFINE x == run[r]
              y == [x EXCEPT !.entry = {}, !.pc = "prepare"]
  <1>1. x \in Records /\ Shape(x)
    BY RunFacts
  <1>2. run' = [run EXCEPT ![r] = y]
    BY RunFacts DEF Records
  <1>3. y \in Records
    BY <1>1 DEF Records, Pcs
  <1>4. Shape(y) /\ Ahead(y) \subseteq Ahead(x)
    BY <1>1 DEF Records, Shape, Ahead
  <1>5. Open(x) \subseteq Open(y) /\ Held(y) \subseteq Held(x)
    BY <1>1 DEF Records, Open, Held
  <1>. HIDE DEF y
  <1>6. QED
    BY <1>2, <1>3, <1>4, <1>5, MoveIs DEF Keeps, LedgerUnchanged

\* Claim takes the execution, or goes on without it when another run holds it.
LEMMA ClaimKind ==
    ASSUME IInv, NEW r \in RunIds, NEW e \in Exec, Claim(r, e)
    PROVE  Keeps(r) \/ Takes(r, e)
  <1>. DEFINE x == run[r]
              y(pc) == [x EXCEPT !.pc = pc]
  <1>1. x \in Records /\ Shape(x)
    BY RunFacts
  <1>2. x.pc = "claim" /\ x.entry = {e}
    BY DEF Claim
  <1>3. ASSUME NEW pc \in {"wait", "rebind"}
        PROVE  /\ [run EXCEPT ![r].pc = pc] = [run EXCEPT ![r] = y(pc)]
               /\ y(pc) \in Records
               /\ Shape(y(pc))
               /\ Ahead(y(pc)) = Ahead(x)
               /\ Held(y(pc)) = Held(x)
    BY <1>1, <1>2, RunFacts DEF Records, Pcs, Shape, Ahead, Held
  <1>4. Open(x) \subseteq Open(y("wait")) /\ Open(x) \cup {e} \subseteq Open(y("rebind"))
    BY <1>1, <1>2 DEF Records, Open
  <1>. HIDE DEF y
  <1>5. CASE ReplayAtClaim(r, e)
    BY <1>2, <1>5, ReplayKeeps DEF ReplayAtClaim
  <1>6. CASE AlreadyRunning(r, e)
    <2>1. CASE stage = "agent1"
      <3>1. run' = [run EXCEPT ![r] = y("wait")] /\ LedgerUnchanged
        BY <1>3, <1>6, <2>1 DEF AlreadyRunning
      <3>2. Moves(r) /\ run'[r] = y("wait")
        BY <1>2, <1>3, <3>1, MoveIs DEF LedgerUnchanged
      <3>3. QED
        BY <1>3, <1>4, <3>1, <3>2 DEF Keeps, LedgerUnchanged
    <2>2. CASE stage # "agent1"
      BY <1>2, <1>6, <2>2, GiveUpKeeps DEF AlreadyRunning
    <2>3. QED
      BY <2>1, <2>2
  <1>7. CASE TakeClaim(r, e)
    <2>1. /\ run' = [run EXCEPT ![r] = y("rebind")]
          /\ ~Accepted(e)
          /\ ledger' = Claimed(r, e)
          /\ UNCHANGED <<stage, runs, accepts, crashed>>
      BY <1>3, <1>7 DEF TakeClaim
    <2>2. Moves(r) /\ run'[r] = y("rebind")
      BY <1>2, <1>3, <2>1, MoveIs
    <2>3. e \in Ahead(x)
      BY <1>2 DEF Ahead
    <2>4. QED
      BY <1>3, <1>4, <2>1, <2>2, <2>3 DEF Takes
  <1>8. QED
    BY <1>5, <1>6, <1>7 DEF Claim

\* A rebinding is an accepted output of round 0.
LEMMA RebindDecides ==
    ASSUME IInv, NEW r \in RunIds, NEW e \in Exec, Rebind(r, e)
    PROVE  \E o \in Outputs : Decides(r, e, o)
  <1>. DEFINE x == run[r]
              o == [run |-> r, round |-> 0]
              ref == CompletedRef(r, e, o)
              ret == x.returned \cup {ref}
              y == [x EXCEPT !.returned = ret, !.entry = {}, !.pc = "prepare"]
  <1>1. x \in Records /\ Shape(x)
    BY RunFacts
  <1>2. o \in Outputs /\ o.run = r
    BY ExecutionAssumption DEF Outputs, Rounds
  <1>3. /\ x.pc = "rebind" /\ x.entry = {e}
        /\ Complete(r, e, o)
        /\ UNCHANGED <<stage, runs, crashed>>
    BY DEF Rebind
  <1>4. run' = [run EXCEPT ![r] = y]
    BY RunFacts DEF Rebind, Records
  <1>. HIDE DEF o
  <1>5. ref \in Refs
    BY <1>2, <1>3, RunFacts DEF CompletedRef, ClaimLost, Complete, Refs
  <1>. HIDE DEF ref
  <1>6. y \in Records
    BY <1>1, <1>5 DEF Records, Pcs
  <1>7. Shape(y) /\ Ahead(y) \subseteq Ahead(x) /\ e \notin Ahead(y)
    BY <1>1, <1>3 DEF Records, Shape, Ahead
  <1>8. Open(x) \ {e} \subseteq Open(y) /\ Held(y) \subseteq Held(x) \cup {ref}
    BY <1>1, <1>3 DEF Records, Open, Held
  <1>. HIDE DEF y
  <1>9. Moves(r) /\ run'[r] = y
    BY <1>3, <1>4, <1>6, <1>7, MoveIs
  <1>10. QED
    BY <1>2, <1>3, <1>7, <1>8, <1>9 DEF Decides, ref

\* An execution without a source to rebind only joins the queue of its run.
LEMMA NoRebindKeeps ==
    ASSUME IInv, NEW r \in RunIds, NEW e \in Exec, NoRebind(r, e)
    PROVE  Keeps(r)
  <1>. DEFINE x == run[r]
              y == [x EXCEPT !.queue = @ \cup {e}, !.entry = {}, !.pc = "prepare"]
  <1>1. x \in Records /\ Shape(x)
    BY RunFacts
  <1>2. x.pc = "rebind" /\ x.entry = {e} /\ LedgerUnchanged
    BY DEF NoRebind
  <1>3. run' = [run EXCEPT ![r] = y]
    BY RunFacts DEF NoRebind, Records
  <1>4. y \in Records
    BY <1>1 DEF Records, Pcs
  <1>5. Shape(y) /\ Ahead(y) \subseteq Ahead(x)
    BY <1>1, <1>2 DEF Records, Shape, Ahead
  <1>6. Open(x) \subseteq Open(y) /\ Held(y) \subseteq Held(x)
    BY <1>1, <1>2 DEF Records, Open, Held
  <1>. HIDE DEF y
  <1>7. QED
    BY <1>2, <1>3, <1>4, <1>5, <1>6, MoveIs DEF Keeps, LedgerUnchanged

\* An answer of the provider only moves its run.
LEMMA ProviderKeeps ==
    ASSUME IInv, NEW r \in RunIds, NEW B \in SUBSET run[r].queue,
           NEW answer \in [B -> AnswerKinds], ProviderAnswers(r, B, answer)
    PROVE  Keeps(r)
  <1>. DEFINE x == run[r]
              b == [e \in Exec |-> IF e \in B THEN answer[e] ELSE "none"]
              y == [x EXCEPT !.pc = "store", !.queue = @ \ B, !.batch = b]
  <1>1. x \in Records /\ Shape(x)
    BY RunFacts
  <1>2. x.pc = "prepare" /\ x.todo = {} /\ LedgerUnchanged
    BY DEF ProviderAnswers, Prepared
  <1>3. run' = [run EXCEPT ![r] = y]
    BY RunFacts DEF ProviderAnswers, Records
  <1>4. /\ b \in [Exec -> Answers]
        /\ \A e \in B : e \in Exec => b[e] \notin {"none", "stored"}
        /\ stage = "agent3" => \A e \in Exec : b[e] # "invalid"
    BY DEF AnswerKinds, Answers
  <1>5. \A e \in Exec : x.batch[e] = "none"
    BY <1>1, <1>2 DEF Shape, NoBatch
  <1>. HIDE DEF b
  <1>6. y \in Records
    BY <1>1, <1>4 DEF Records, Pcs
  <1>7. Shape(y) /\ Ahead(y) \subseteq Ahead(x)
    BY <1>1, <1>2, <1>4 DEF Records, Shape, Ahead
  <1>8. Open(x) \subseteq Open(y) /\ Held(y) \subseteq Held(x)
    BY <1>1, <1>2, <1>4, <1>5 DEF Records, Open, Held
  <1>. HIDE DEF y
  <1>9. QED
    BY <1>2, <1>3, <1>6, <1>7, <1>8, MoveIs DEF Keeps, LedgerUnchanged

\* Storing an output of a batch is an accepted output of round 1.
LEMMA StoreDecides ==
    ASSUME IInv, NEW r \in RunIds, NEW e \in Exec, StoreOutput(r, e)
    PROVE  \E o \in Outputs : Decides(r, e, o)
  <1>. DEFINE x == run[r]
              o == [run |-> r, round |-> 1]
              ref == CompletedRef(r, e, o)
              own == [exec |-> e, output |-> o]
              b == [x.batch EXCEPT ![e] = "stored"]
              y3 == [x EXCEPT !.batch = b, !.returned = @ \cup {own}]
              y12 == [x EXCEPT !.batch = b, !.fresh = @ \cup {ref}]
              y == IF stage = "agent3" THEN y3 ELSE y12
  <1>1. x \in Records /\ Shape(x)
    BY RunFacts
  <1>2. o \in Outputs /\ o.run = r
    BY ExecutionAssumption DEF Outputs, Rounds
  <1>3. /\ x.pc = "store" /\ x.batch[e] = "exact"
        /\ Complete(r, e, o)
        /\ UNCHANGED <<stage, runs, crashed>>
    BY DEF StoreOutput
  <1>4. run' = IF stage = "agent3"
               THEN [run EXCEPT ![r].batch[e] = "stored", ![r].returned = @ \cup {own}]
               ELSE [run EXCEPT ![r].batch[e] = "stored", ![r].fresh = @ \cup {ref}]
    BY DEF StoreOutput
  <1>. HIDE DEF o
  <1>5. ref \in Refs /\ own \in Refs
    BY <1>2, <1>3, RunFacts DEF CompletedRef, ClaimLost, Complete, Refs
  <1>. HIDE DEF ref, own
  <1>6. run' = [run EXCEPT ![r] = y]
    BY <1>4, RunFacts DEF Records
  <1>7. /\ b \in [Exec -> Answers]
        /\ \A f \in Exec \ {e} : b[f] = x.batch[f]
        /\ b[e] = "stored"
    BY <1>1 DEF Records, Answers
  <1>. HIDE DEF b
  <1>8. y3 \in Records /\ y12 \in Records
    BY <1>1, <1>5, <1>7 DEF Records
  <1>9. ASSUME NEW z \in {y3, y12}
        PROVE  /\ Shape(z)
               /\ Ahead(z) \subseteq Ahead(x)
               /\ e \notin Ahead(z)
               /\ Open(x) \ {e} \subseteq Open(z)
    <2>1. /\ z.pc = x.pc /\ z.todo = x.todo /\ z.entry = x.entry /\ z.batch = b
          /\ z.queue = x.queue /\ z.pending = x.pending /\ z.next = x.next
          /\ z.round = x.round
      BY <1>1 DEF Records
    <2>2. QED
      BY <1>1, <1>3, <1>7, <2>1 DEF Shape, Ahead, Open
  <1>10. Held(y12) \subseteq Held(x) \cup {ref}
    BY <1>1 DEF Records, Held
  <1>. HIDE DEF y3, y12
  <1>11. Moves(r) /\ run'[r] = y
    BY <1>3, <1>6, <1>8, <1>9, MoveIs
  <1>12. QED
    BY <1>2, <1>3, <1>9, <1>10, <1>11 DEF Decides, ref

\* A batch is over: what it leaves undecided is what was answered and is not
\* asked for again.
LEMMA AfterBatchMoves ==
    ASSUME IInv, NEW r \in RunIds, NEW retry \in SUBSET Exec,
           NEW kept \in SUBSET run[r].fresh,
           run[r].pc = "store",
           AfterBatch(r, retry, kept),
           UNCHANGED <<stage, runs, crashed>>
    PROVE  /\ Moves(r)
           /\ run'[r] # run[r]
           /\ Held(run'[r]) \subseteq Held(run[r])
           /\ \A e \in Open(run[r]) \ Open(run'[r]) :
                /\ e \in Exec
                /\ run[r].batch[e] \notin {"none", "stored"}
                /\ e \notin retry
  <1>. DEFINE x == run[r]
              y == [x EXCEPT !.pc = "prepare", !.batch = NoBatch, !.fresh = {},
                             !.next = @ \cup retry, !.returned = @ \cup kept]
  <1>1. x \in Records /\ Shape(x)
    BY RunFacts
  <1>2. run' = [run EXCEPT ![r] = y]
    BY RunFacts DEF AfterBatch, Records
  <1>3. NoBatch \in [Exec -> Answers] /\ \A e \in Exec : NoBatch[e] = "none"
    BY DEF NoBatch, Answers
  <1>4. y \in Records
    BY <1>1, <1>3 DEF Records, Pcs
  <1>5. Shape(y) /\ Ahead(y) \subseteq Ahead(x)
    BY <1>1, <1>3 DEF Records, Shape, Ahead
  <1>6. Held(y) \subseteq Held(x)
    BY <1>1 DEF Records, Held
  <1>7. \A e \in Open(x) \ Open(y) :
          e \in Exec /\ x.batch[e] \notin {"none", "stored"} /\ e \notin retry
    BY <1>1 DEF Records, Open
  <1>8. y # x
    BY <1>1 DEF Records
  <1>. HIDE DEF y
  <1>9. QED
    BY <1>2, <1>4, <1>5, <1>6, <1>7, <1>8, MoveIs

\* The settling of a batch, at each of the three Agents, is a failure of what it names.
LEMMA SettleFails ==
    ASSUME IInv, NEW r \in RunIds,
           SettleAgent1(r) \/ SettleAgent2(r) \/ SettleAgent3(r)
    PROVE  \E F \in SUBSET Exec : Fails(r, F)
  <1>. DEFINE invalid == Answered(r, "invalid")
              missing == Answered(r, "missing")
  <1>1. run[r] \in Records /\ Shape(run[r])
    BY RunFacts
  <1>2. /\ run[r].pc = "store"
        /\ \A e \in Exec : run[r].batch[e] \in {"none", "stored"} \/ e \in invalid \cup missing
        /\ UNCHANGED <<stage, runs, accepts, crashed>>
    BY <1>1 DEF SettleAgent1, SettleAgent2, SettleAgent3, Stored, Answered, Records, Answers
  <1>3. run[r].fresh \in SUBSET run[r].fresh /\ {} \in SUBSET run[r].fresh
    OBVIOUS
  <1>4. invalid \in SUBSET Exec /\ missing \in SUBSET Exec
    BY DEF Answered
  <1>5. CASE SettleAgent1(r) \/ SettleAgent2(r)
    <2>1. ledger' = Failed(r, invalid) /\ AfterBatch(r, missing, run[r].fresh)
      BY <1>5 DEF SettleAgent1, SettleAgent2
    <2>. HIDE DEF invalid, missing
    <2>2. /\ Moves(r) /\ run'[r] # run[r] /\ Held(run'[r]) \subseteq Held(run[r])
          /\ \A e \in Open(run[r]) \ Open(run'[r]) : e \in invalid
      BY <1>2, <1>3, <1>4, <2>1, AfterBatchMoves
    <2>3. QED
      BY <1>2, <1>4, <2>1, <2>2 DEF Fails
  <1>6. CASE SettleAgent3(r)
    <2>1. ledger' = Failed(r, missing) /\ AfterBatch(r, {}, {})
      BY <1>6 DEF SettleAgent3
    <2>2. invalid = {}
      BY <1>1, <1>6 DEF Answered, SettleAgent3, Shape
    <2>. HIDE DEF invalid, missing
    <2>3. /\ Moves(r) /\ run'[r] # run[r] /\ Held(run'[r]) \subseteq Held(run[r])
          /\ \A e \in Open(run[r]) \ Open(run'[r]) : e \in missing
      BY <1>2, <1>3, <2>1, <2>2, AfterBatchMoves
    <2>4. QED
      BY <1>2, <1>4, <2>1, <2>3 DEF Fails
  <1>7. QED
    BY <1>5, <1>6

\* A batch that raises fails its executions or only moves its run.
LEMMA BatchFailsKind ==
    ASSUME IInv, NEW r \in RunIds,
           BatchFailsAgent1(r) \/ BatchFailsAgent2(r) \/ BatchFailsAgent3(r)
    PROVE  Keeps(r) \/ \E F \in SUBSET Exec : Fails(r, F)
  <1>1. run[r].pc = "store"
    BY DEF BatchFailsAgent1, BatchFailsAgent2, BatchFailsAgent3, BatchRaises
  <1>2. Batch(r) \in SUBSET Exec /\ {} \in SUBSET run[r].fresh
    BY DEF Batch
  <1>3. \A e \in Exec : run[r].batch[e] # "none" => e \in Batch(r)
    BY DEF Batch
  <1>4. CASE BatchFailsAgent1(r)
    <2>1. AfterBatch(r, Batch(r), {}) /\ LedgerUnchanged
      BY <1>4 DEF BatchFailsAgent1
    <2>2. /\ Moves(r) /\ Held(run'[r]) \subseteq Held(run[r])
          /\ Open(run[r]) \subseteq Open(run'[r])
      BY <1>1, <1>2, <1>3, <2>1, AfterBatchMoves DEF LedgerUnchanged
    <2>3. QED
      BY <2>1, <2>2 DEF Keeps, LedgerUnchanged
  <1>5. CASE BatchFailsAgent2(r) \/ BatchFailsAgent3(r)
    <2>1. /\ AfterBatch(r, {}, {})
          /\ ledger' = Failed(r, Batch(r))
          /\ UNCHANGED <<stage, runs, accepts, crashed>>
      BY <1>5 DEF BatchFailsAgent2, BatchFailsAgent3
    <2>2. /\ Moves(r) /\ run'[r] # run[r] /\ Held(run'[r]) \subseteq Held(run[r])
          /\ \A e \in Open(run[r]) \ Open(run'[r]) : e \in Batch(r)
      BY <1>1, <1>2, <1>3, <2>1, AfterBatchMoves
    <2>3. QED
      BY <1>2, <2>1, <2>2 DEF Fails
  <1>6. QED
    BY <1>4, <1>5

\* The next round of retries only moves its run.
LEMMA NextRoundKeeps ==
    ASSUME IInv, NEW r \in RunIds, NextRound(r)
    PROVE  Keeps(r)
  <1>. DEFINE x == run[r]
              y == [x EXCEPT !.round = @ + 1, !.pending = x.next, !.next = {}]
  <1>1. x \in Records /\ Shape(x)
    BY RunFacts
  <1>2. /\ x.pc = "prepare" /\ x.pending = {} /\ x.round < RetryRounds
        /\ LedgerUnchanged
    BY DEF NextRound, Called, Prepared
  <1>3. run' = [run EXCEPT ![r] = y]
    BY RunFacts DEF NextRound, Records
  <1>4. RetryRounds \in Nat /\ RetryRounds <= RetryLimit + 1 /\ x.round \in Nat
    BY <1>1, ExecutionAssumption DEF RetryRounds, Records, Rounds
  <1>5. x.round + 1 \in Rounds /\ x.round + 1 <= RetryRounds
    BY <1>2, <1>4, ExecutionAssumption DEF Rounds
  <1>6. y \in Records
    BY <1>1, <1>5 DEF Records
  <1>7. /\ y.pc = x.pc /\ y.todo = x.todo /\ y.entry = x.entry /\ y.batch = x.batch
        /\ y.round = x.round + 1
    BY <1>1 DEF Records
  <1>8. Shape(y) /\ Ahead(y) \subseteq Ahead(x)
    BY <1>1, <1>2, <1>5, <1>7 DEF Shape, Ahead
  <1>9. Open(x) \subseteq Open(y) /\ Held(y) \subseteq Held(x)
    BY <1>1, <1>2 DEF Records, Open, Held
  <1>. HIDE DEF y
  <1>10. QED
    BY <1>2, <1>3, <1>6, <1>8, <1>9, MoveIs DEF Keeps, LedgerUnchanged

\* An accepted singleton is an accepted output of its round.
LEMMA SingletonDecides ==
    ASSUME IInv, NEW r \in RunIds, NEW e \in Exec, SingletonAccepted(r, e)
    PROVE  \E o \in Outputs : Decides(r, e, o)
  <1>. DEFINE x == run[r]
              o == [run |-> r, round |-> x.round + 1]
              ref == CompletedRef(r, e, o)
              y == [x EXCEPT !.pending = @ \ {e}, !.returned = @ \cup {ref}]
  <1>1. x \in Records /\ Shape(x)
    BY RunFacts
  <1>2. o \in Outputs /\ o.run = r
    <2>1. RetryRounds \in Nat /\ RetryRounds <= RetryLimit + 1 /\ x.round \in Nat
      BY <1>1, ExecutionAssumption DEF RetryRounds, Records, Rounds
    <2>2. x.round + 1 \in Rounds
      BY <1>1, <2>1, ExecutionAssumption DEF Rounds, Shape
    <2>3. QED
      BY <2>2 DEF Outputs
  <1>3. /\ x.pc = "prepare" /\ x.todo = {}
        /\ Complete(r, e, o)
        /\ UNCHANGED <<stage, runs, crashed>>
    BY DEF SingletonAccepted, Called, Prepared
  <1>4. run' = [run EXCEPT ![r] = y]
    BY RunFacts DEF SingletonAccepted, Records
  <1>. HIDE DEF o
  <1>5. ref \in Refs
    BY <1>2, <1>3, RunFacts DEF CompletedRef, ClaimLost, Complete, Refs
  <1>. HIDE DEF ref
  <1>6. y \in Records
    BY <1>1, <1>5 DEF Records
  <1>7. Shape(y) /\ Ahead(y) \subseteq Ahead(x) /\ e \notin Ahead(y)
    BY <1>1, <1>3 DEF Records, Shape, Ahead
  <1>8. Open(x) \ {e} \subseteq Open(y) /\ Held(y) \subseteq Held(x) \cup {ref}
    BY <1>1, <1>3 DEF Records, Open, Held
  <1>. HIDE DEF y
  <1>9. Moves(r) /\ run'[r] = y
    BY <1>3, <1>4, <1>6, <1>7, MoveIs
  <1>10. QED
    BY <1>2, <1>3, <1>7, <1>8, <1>9 DEF Decides, ref

\* An answer to a single item that fails its claim.
LEMMA SingletonFails ==
    ASSUME IInv, NEW r \in RunIds, NEW e \in run[r].pending,
           Called(r),
           ledger' = Failed(r, {e}),
           run' = [run EXCEPT ![r].pending = @ \ {e}],
           UNCHANGED <<stage, runs, accepts, crashed>>
    PROVE  \E F \in SUBSET Exec : Fails(r, F)
  <1>. DEFINE x == run[r]
              y == [x EXCEPT !.pending = @ \ {e}]
  <1>1. x \in Records /\ Shape(x)
    BY RunFacts
  <1>2. x.pc = "prepare" /\ e \in Exec
    BY <1>1 DEF Called, Prepared, Records
  <1>3. run' = [run EXCEPT ![r] = y]
    BY RunFacts DEF Records
  <1>4. y \in Records /\ y # x
    BY <1>1 DEF Records
  <1>5. Shape(y) /\ Ahead(y) \subseteq Ahead(x)
    BY <1>1, <1>2 DEF Records, Shape, Ahead
  <1>6. Open(x) \ {e} \subseteq Open(y) /\ Held(y) \subseteq Held(x)
    BY <1>1 DEF Records, Open, Held
  <1>. HIDE DEF y
  <1>7. Moves(r) /\ run'[r] = y
    BY <1>2, <1>3, <1>4, <1>5, MoveIs
  <1>8. Fails(r, {e})
    BY <1>4, <1>6, <1>7 DEF Fails
  <1>9. QED
    BY <1>2, <1>8

\* A singleton without an answer is put off by Agent1 and fails at the others.
LEMMA SingletonMissingKind ==
    ASSUME IInv, NEW r \in RunIds, NEW e \in Exec, SingletonMissing(r, e)
    PROVE  Keeps(r) \/ \E F \in SUBSET Exec : Fails(r, F)
  <1>1. CASE stage = "agent1"
    <2>. DEFINE x == run[r]
                y == [x EXCEPT !.pending = @ \ {e}, !.next = @ \cup {e}]
    <2>1. x \in Records /\ Shape(x)
      BY RunFacts
    <2>2. x.pc = "prepare" /\ UNCHANGED <<stage, ledger, runs, accepts, crashed>>
      BY <1>1 DEF SingletonMissing, Called, Prepared
    <2>3. run' = [run EXCEPT ![r] = y]
      BY <1>1, RunFacts DEF SingletonMissing, Records
    <2>4. y \in Records
      BY <2>1 DEF Records
    <2>5. Shape(y) /\ Ahead(y) \subseteq Ahead(x)
      BY <2>1, <2>2 DEF Records, Shape, Ahead
    <2>6. Open(x) \subseteq Open(y) /\ Held(y) \subseteq Held(x)
      BY <2>1 DEF Records, Open, Held
    <2>. HIDE DEF y
    <2>7. QED
      BY <2>2, <2>3, <2>4, <2>5, <2>6, MoveIs DEF Keeps
  <1>2. CASE stage # "agent1"
    BY <1>2, SingletonFails DEF SingletonMissing
  <1>3. QED
    BY <1>1, <1>2

\* When the rounds are used up, what is still pending fails.
LEMMA ExhaustedFails ==
    ASSUME IInv, NEW r \in RunIds, RetriesExhausted(r)
    PROVE  \E F \in SUBSET Exec : Fails(r, F)
  <1>. DEFINE x == run[r]
              F == {e \in x.next : ~Accepted(e)}
              y == [x EXCEPT !.next = {}]
  <1>1. x \in Records /\ Shape(x)
    BY RunFacts
  <1>2. /\ x.pc = "prepare" /\ x.next # {}
        /\ ledger' = Failed(r, F)
        /\ UNCHANGED <<stage, runs, accepts, crashed>>
    BY DEF RetriesExhausted, Called, Prepared
  <1>3. F \in SUBSET Exec
    BY <1>1 DEF Records
  <1>4. run' = [run EXCEPT ![r] = y]
    BY RunFacts DEF RetriesExhausted, Records
  <1>5. y \in Records /\ y # x
    BY <1>1, <1>2 DEF Records
  <1>6. Shape(y) /\ Ahead(y) \subseteq Ahead(x)
    BY <1>1, <1>2 DEF Records, Shape, Ahead
  <1>7. Open(x) \ x.next \subseteq Open(y) /\ Held(y) \subseteq Held(x)
    BY <1>1 DEF Records, Open, Held
  <1>8. \A e \in x.next : e \in F \/ ledger[e].status # "running"
    BY DEF Accepted
  <1>. HIDE DEF y, F
  <1>9. Moves(r) /\ run'[r] = y
    BY <1>2, <1>4, <1>5, <1>6, MoveIs
  <1>10. Fails(r, F)
    BY <1>2, <1>5, <1>7, <1>8, <1>9 DEF Fails
  <1>11. QED
    BY <1>3, <1>10

\* The end of a run before its review only moves the run.
LEMMA FinishKeeps ==
    ASSUME IInv, NEW r \in RunIds, Finish(r) \/ NothingToReview(r)
    PROVE  Keeps(r)
  <1>. DEFINE x == run[r]
              z == [x EXCEPT !.pc = "review"]
  <1>1. x \in Records /\ Shape(x)
    BY RunFacts
  <1>2. /\ x.pc \in {"prepare", "review"} /\ x.todo = {}
        /\ x.queue = {} /\ x.pending = {} /\ x.next = {}
        /\ LedgerUnchanged
    BY <1>1 DEF Finish, NothingToReview, Called, Prepared, Shape
  <1>3. Open(x) = {}
    BY <1>1, <1>2 DEF Open, Shape, NoBatch
  <1>4. CASE run' = [run EXCEPT ![r] = NoRun]
    <2>1. Moves(r) /\ run'[r] = NoRun
      BY <1>2, <1>4, NoRunShape, NoRunHolds, MoveIs DEF LedgerUnchanged
    <2>2. QED
      BY <1>2, <1>3, <2>1, NoRunHolds DEF Keeps, LedgerUnchanged
  <1>5. CASE run' = [run EXCEPT ![r] = z] /\ x.pc = "prepare"
    <2>1. z \in Records
      BY <1>1 DEF Records, Pcs
    <2>2. Shape(z) /\ Ahead(z) \subseteq Ahead(x) /\ Held(z) = Held(x)
      BY <1>1, <1>2, <1>5 DEF Records, Shape, Ahead, Held
    <2>. HIDE DEF z
    <2>3. Moves(r) /\ run'[r] = z
      BY <1>2, <1>5, <2>1, <2>2, MoveIs DEF LedgerUnchanged
    <2>4. QED
      BY <1>2, <1>3, <2>2, <2>3 DEF Keeps, LedgerUnchanged
  <1>6. QED
    BY <1>4, <1>5 DEF Finish, NothingToReview, Called, Prepared

\* Finalizing and revoking are the two reviews.
LEMMA ReviewKind ==
    ASSUME IInv, NEW r \in RunIds, NEW ref \in run[r].returned,
           FinalizeAcceptance(r, ref) \/ RevokeExecution(r, ref)
    PROVE  \E e \in Exec : Reviews(r, e)
  <1>. DEFINE x == run[r]
              z == [x EXCEPT !.returned = @ \ {ref}]
              y == IF x.returned = {ref} THEN NoRun ELSE z
  <1>1. x \in Records /\ Shape(x)
    BY RunFacts
  <1>2. /\ x.pc = "review"
        /\ run' = [run EXCEPT ![r] = y]
        /\ UNCHANGED <<stage, runs, accepts, crashed>>
    <2>1. /\ x.pc = "review"
          /\ ReviewEnds(r, ref)
          /\ UNCHANGED <<stage, runs, accepts, crashed>>
      BY DEF FinalizeAcceptance, RevokeExecution
    <2>2. run' = [run EXCEPT ![r] = y]
      BY <2>1 DEF ReviewEnds
    <2>3. QED
      BY <2>1, <2>2
  <1>3. z \in Records
    BY <1>1 DEF Records
  <1>4. Shape(z) /\ Ahead(z) \subseteq Ahead(x) /\ Held(z) \subseteq Held(x)
    BY <1>1, <1>2 DEF Records, Shape, Ahead, Held
  <1>5. Open(x) = {}
    BY <1>1, <1>2 DEF Open, Shape, NoBatch
  <1>6. ref.exec \in Exec
    BY <1>1 DEF Records, Refs
  <1>. HIDE DEF z
  <1>7. /\ y \in Records /\ Shape(y)
        /\ Ahead(y) \subseteq Ahead(x) /\ Held(y) \subseteq Held(x)
    BY <1>3, <1>4, NoRunShape, NoRunHolds
  <1>. HIDE DEF y
  <1>8. Moves(r) /\ run'[r] = y
    BY <1>2, <1>7, MoveIs
  <1>9. Reviews(r, ref.exec)
    BY <1>2, <1>5, <1>7, <1>8 DEF Reviews, FinalizeAcceptance, RevokeExecution
  <1>10. QED
    BY <1>6, <1>9

\* Every step is of one of the eight kinds, or leaves everything as it is.
LEMMA StepKinds ==
    ASSUME IInv, [Next]_vars
    PROVE  Kinds
  <1>1. ASSUME NEW r \in RunIds, Step(r)
        PROVE  Kinds
    <2>1. CASE Prepare(r)
      <3>1. ASSUME NEW e \in Exec, WaitedReplay(r, e)
            PROVE  Keeps(r)
        BY <3>1, ReplayKeeps DEF WaitedReplay
      <3>2. CASE WaitTimesOut(r)
        BY <3>2, GiveUpKeeps DEF WaitTimesOut, Kinds
      <3>3. QED
        BY <2>1, <3>1, <3>2, LookKeeps, ClaimKind, RebindDecides, NoRebindKeeps
           DEF Prepare, Kinds
    <2>2. CASE CallProvider(r)
      BY <2>2, ProviderKeeps, StoreDecides, SettleFails, BatchFailsKind
         DEF CallProvider, Kinds
    <2>3. CASE RetryMissing(r)
      <3>1. ASSUME NEW e \in Exec, SingletonInvalid(r, e)
            PROVE  \E F \in SUBSET Exec : Fails(r, F)
        BY <3>1, SingletonFails DEF SingletonInvalid
      <3>2. QED
        BY <2>3, <3>1, NextRoundKeeps, SingletonDecides, SingletonMissingKind,
           ExhaustedFails, FinishKeeps DEF RetryMissing, Kinds
    <2>4. CASE Review(r)
      BY <2>4, ReviewKind, FinishKeeps DEF Review, Kinds
    <2>5. QED
      BY <1>1, <2>1, <2>2, <2>3, <2>4 DEF Step
  <1>2. QED
    BY <1>1 DEF Next, Kinds

\* The invariant holds of an empty ledger without runs.
LEMMA InitInv == Init => IInv
  <1>. SUFFICES ASSUME Init PROVE IInv
    OBVIOUS
  <1>1. TypeOK
    BY NoRunShape, Types, ExecutionAssumption DEF Init, NoRow, Rows
  <1>2. RunInv
    BY NoRunShape DEF Init, RunInv, NoRun
  <1>3. AcceptedInv /\ OneOutputPerClaim /\ OpenInv
    BY DEF Init, AcceptedInv, Accepted, NoRow, OneOutputPerClaim, OpenInv
  <1>4. HeldInv /\ UnusedInv
    BY NoRunHolds DEF Init, HeldInv, UnusedInv, AcceptedBy
  <1>5. QED
    BY <1>1, <1>2, <1>3, <1>4 DEF IInv

\* Every step of every run keeps the invariant.
LEMMA NextInv == IInv /\ [Next]_vars => IInv'
  <1>. SUFFICES ASSUME IInv, [Next]_vars PROVE IInv'
    OBVIOUS
  <1>1. CASE UNCHANGED vars
    BY <1>1 DEF vars, IInv, TypeOK, RunInv, Shape, RetryRounds, AcceptedInv, Accepted,
       AcceptedRef, HeldInv, OpenInv, UnusedInv, AcceptedBy, OneOutputPerClaim
  <1>2. QED
    BY <1>1, StepKinds, KeepsInv, TakesInv, DecidesInv, FailsInv, ReviewsInv,
       StartInv, CrashInv, LeaseInv DEF Kinds

-----------------------------------------------------------------------------
(* The theorems.                                                           *)

\* The inductive invariant holds in every behaviour of ledger and runs.
THEOREM Invariance == Spec => []IInv
  BY InitInv, NextInv, PTL DEF Spec

\* Ledger rows and the locals of every run keep their types; in particular a run
\* never asks in more rounds than the retry limit lets it.
THEOREM TypeCorrect == Spec => []TypeOK
  <1>1. IInv => TypeOK
    BY DEF IInv
  <1>2. QED
    BY Invariance, <1>1, PTL

\* What Agent1 and Agent2 return was accepted for that execution, however claims
\* are lost and batches fail.
THEOREM ReturnedIsAccepted == Spec => []ReturnedWasAccepted
  <1>1. IInv => ReturnedWasAccepted
    BY DEF IInv, HeldInv, Held, ReturnedWasAccepted
  <1>2. QED
    BY Invariance, <1>1, PTL

\* No path through a run forgets a claim: a running execution has a run that will
\* decide it, or one that died.
THEOREM ClaimsAreDecided == Spec => []NothingLeftRunning
  <1>1. ASSUME IInv
        PROVE  NothingLeftRunning
    <2>1. ASSUME NEW r \in RunIds, NEW e \in Exec, e \in Open(run[r])
          PROVE  e \in Undecided(r)
      BY <2>1 DEF Open, Undecided, Batch
    <2>2. QED
      BY <1>1, <2>1 DEF IInv, OpenInv, NothingLeftRunning
  <1>2. QED
    BY Invariance, <1>1, PTL

\* A run gets at most one output accepted for an execution, whatever it asks for
\* again.
THEOREM ClaimDecidesOnce == Spec => []OneOutputPerClaim
  <1>1. IInv => OneOutputPerClaim
    BY DEF IInv
  <1>2. QED
    BY Invariance, <1>1, PTL

\* Only the run whose claim it is, or a review, undoes an acceptance.
THEOREM AcceptedStands == Spec => AcceptanceStands
  <1>. DEFINE Stands(e) ==
         Accepted(e) =>
           \/ Accepted(e)' /\ ledger'[e].output = ledger[e].output
           \/ ledger'[e].status = "failed" /\ ledger'[e].revoked
           \/ /\ ledger'[e].status = "failed"
              /\ run'[ledger[e].claim] # run[ledger[e].claim]
  <1>1. ASSUME IInv, [Next]_vars, NEW e \in Exec
        PROVE  Stands(e)
    <2>1. Kinds /\ ledger \in [Exec -> Rows] /\ TypeOK /\ AcceptedInv
      BY <1>1, StepKinds, Types DEF IInv
    <2>2. ASSUME NEW r \in RunIds, NEW f \in Exec, Takes(r, f)
          PROVE  Stands(e)
      BY <2>1, <2>2, ClaimedRows DEF Takes, Accepted
    <2>3. ASSUME NEW r \in RunIds, NEW f \in Exec, NEW o \in Outputs, Decides(r, f, o)
          PROVE  Stands(e)
      <3>1. UNCHANGED ledger \/ (MayComplete(r, f) /\ ledger' = Completed(f, o))
        BY <2>1, <2>3, CompleteEffect DEF Decides
      <3>2. QED
        BY <2>1, <3>1, CompletedRows DEF Accepted, MayComplete
    <2>4. ASSUME NEW r \in RunIds, NEW F \in SUBSET Exec, Fails(r, F)
          PROVE  Stands(e)
      BY <2>1, <2>4, FailedRows DEF Fails, Accepted
    <2>5. ASSUME NEW r \in RunIds, NEW f \in Exec, Reviews(r, f)
          PROVE  Stands(e)
      BY <2>1, <2>5 DEF Reviews, Accepted, Rows
    <2>6. ASSUME NEW f \in Exec, LeaseExpires(f)
          PROVE  Stands(e)
      BY <2>1, <2>6 DEF LeaseExpires, Accepted, Rows
    <2>7. UNCHANGED ledger => Stands(e)
      BY DEF Accepted
    <2>. HIDE DEF Stands
    <2>8. QED
      BY <2>1, <2>2, <2>3, <2>4, <2>5, <2>6, <2>7
         DEF Kinds, Keeps, Start, Crash, vars
  <1>2. IInv /\ [Next]_vars => [\A e \in Exec : Stands(e)]_vars
    BY <1>1
  <1>3. QED
    BY Invariance, <1>2, PTL DEF Spec, AcceptanceStands

===============================================================================
