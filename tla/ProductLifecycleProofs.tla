------------------------ MODULE ProductLifecycleProofs ------------------------
(***************************************************************************)
(* Proofs about ProductLifecycle, for any callers, tasks, windows and      *)
(* revisions.  The invariant is inductive with what the lock gives: only   *)
(* its holder has a row to write, and that row was computed from the one   *)
(* the file still has.                                                     *)
(***************************************************************************)
EXTENDS ProductLifecycle, TLAPS

\* a is b or came after it.
Ahead(a, b) == a = b \/ a.version > b.version

\* Only the holder of the lock is inside compute.
LockInv == \A c \in Callers : call[c].pc # "idle" => lock = c

\* The row to write is the file's or its successor; a product whose dispatch is
\* queued gets no successor.
WriteInv ==
    \A c \in Callers : call[c].pc = "write" =>
        /\ call[c].row \in Rows
        /\ Coherent(call[c].row)
        /\ \/ call[c].row = disk
           \/ call[c].row.version = disk.version + 1 /\ queue = {}

\* What was moved is what will be returned.
ForceInv ==
    \A c \in Callers : call[c].pc = "force" => call[c].row = disk

\* The file is never behind what was forced.
DiskInv ==
    /\ Ahead(disk, durable)
    /\ durable # NoRow => Coherent(durable)

IInv ==
    /\ TypeOK
    /\ LockInv
    /\ WriteInv
    /\ ForceInv
    /\ DiskInv
    /\ AnswersStand
    /\ QueuedIsAwaited

-----------------------------------------------------------------------------
(* Rows                                                                    *)

LEMMA Versions ==
    ASSUME NEW row \in Rows \cup {NoRow}
    PROVE  row.version \in Nat
  BY LifecycleAssumption DEF Rows, NoRow

\* A product without a file entry is not confused with one that has it.
LEMMA NoRowIsNone ==
    NoRow \notin Rows
  BY DEF NoRow, Rows, States

\* A later version of a later version is a later version.
LEMMA AheadTransitive ==
    ASSUME NEW a \in Rows \cup {NoRow}, NEW b \in Rows \cup {NoRow},
           NEW c \in Rows \cup {NoRow}, Ahead(a, b), Ahead(b, c)
    PROVE  Ahead(a, c)
  <1>1. a.version \in Nat /\ b.version \in Nat /\ c.version \in Nat
    BY Versions
  <1>2. QED
    BY <1>1 DEF Ahead

\* monitor writes a coherent row.
LEMMA MonitoredIsRow ==
    ASSUME NEW version \in 1..MaxVersion
    PROVE  Monitored(version) \in Rows /\ Coherent(Monitored(version))
  BY DEF Monitored, Rows, Coherent, Pending, States

\* beginObservation writes a coherent row.
LEMMA ObservingIsRow ==
    ASSUME NEW task \in Tasks, NEW window \in Windows, NEW version \in 1..MaxVersion
    PROVE  /\ Observing(task, window, version) \in Rows
           /\ Coherent(Observing(task, window, version))
  BY LifecycleAssumption DEF Observing, Rows, Coherent, Pending, States

\* A transition (copy) of a coherent row is a coherent row.
LEMMA TurnedIsRow ==
    ASSUME NEW state \in States \ {"MONITORING"},
           disk \in Rows, Coherent(disk), disk.state # "MONITORING",
           disk.version + 1 <= MaxVersion
    PROVE  Turned(state) \in Rows /\ Coherent(Turned(state))
  <1>1. disk.version \in 1..MaxVersion
    BY DEF Rows
  <1>2. disk.version + 1 \in 1..MaxVersion
    BY <1>1, LifecycleAssumption
  <1>3. Turned(state) \in Rows
    BY <1>2 DEF Turned, Rows
  <1>4. Coherent(Turned(state))
    BY DEF Turned, Rows, Coherent, Pending
  <1>5. QED
    BY <1>3, <1>4

\* commitReview writes a coherent row when its contract holds.
LEMMA ReviewedIsRow ==
    ASSUME NEW request \in Requests, ContractHolds(request),
           disk \in Rows, Coherent(disk), disk.version + 1 <= MaxVersion
    PROVE  Reviewed(request) \in Rows /\ Coherent(Reviewed(request))
  <1>1. disk.version + 1 \in 1..MaxVersion
    BY LifecycleAssumption DEF Rows
  <1>2. CASE request.verdict = "SETTLED"
    <2>1. Monitored(disk.version + 1) \in Rows
      BY <1>1, MonitoredIsRow
    <2>2. Reviewed(request) =
            [state |-> "MONITORING", task |-> None, window |-> None,
             version |-> disk.version + 1, receipt |-> request]
      BY <1>2 DEF Reviewed, Monitored
    <2>3. Reviewed(request) \in Rows
      BY <1>1, <2>2 DEF Rows, States
    <2>4. ~Pending(Reviewed(request))
      BY <1>2, <2>2, LifecycleAssumption DEF Pending
    <2>5. QED
      BY <2>2, <2>3, <2>4 DEF Coherent
  <1>3. CASE request.verdict # "SETTLED"
    <2>1. disk.state # "MONITORING"
      BY DEF ContractHolds
    <2>2. /\ Turned("ADJUSTMENT_REQUIRED") \in Rows
          /\ Coherent(Turned("ADJUSTMENT_REQUIRED"))
      BY <2>1, TurnedIsRow DEF States
    <2>3. Reviewed(request) = [Turned("ADJUSTMENT_REQUIRED") EXCEPT !.receipt = request]
      BY <1>3 DEF Reviewed
    <2>4. QED
      BY <2>2, <2>3 DEF Turned, Rows, Coherent, Pending
  <1>4. QED
    BY <1>2, <1>3

-----------------------------------------------------------------------------
(* Steps                                                                   *)

(* What every mutation keeps: the row it will write is the file's own, or  *)
(* its successor, and the queue grows only by the revision of the file's   *)
(* row.                                                                    *)
LEMMA ComputesInv ==
    ASSUME IInv, NEW c \in Callers, NEW next \in Rows, Computes(c, next),
           Coherent(next),
           next = disk \/ (next.version = disk.version + 1 /\ ~Pending(disk)),
           \/ queue' = queue
           \/ /\ MayTurn(disk.version, "ADJUSTMENT_REQUIRED") /\ Pending(disk)
              /\ queue' = queue \cup {disk.receipt.verdict},
           UNCHANGED <<disk, durable, answered>>
    PROVE  IInv'
  <1>1. lock = None /\ lock' = c
    BY DEF Computes, LockFree
  <1>2. call' = [call EXCEPT ![c] = [pc |-> "write", row |-> next]]
    BY DEF Computes
  <1>3. \A d \in Callers : call[d].pc = "idle"
    BY <1>1, LifecycleAssumption DEF IInv, LockInv
  <1>4. queue' \subseteq Revisions
    BY DEF IInv, TypeOK, Pending
  <1>5. queue # {} => Pending(disk)
    BY DEF IInv, TypeOK, QueuedIsAwaited, Pending
  <1>6. TypeOK'
    BY <1>1, <1>2, <1>4 DEF IInv, TypeOK
  <1>7. LockInv'
    BY <1>1, <1>2, <1>3 DEF LockInv, IInv, TypeOK
  <1>8. WriteInv'
    <2>. SUFFICES ASSUME NEW d \in Callers, call'[d].pc = "write"
                  PROVE  /\ call'[d].row \in Rows
                         /\ Coherent(call'[d].row)
                         /\ \/ call'[d].row = disk'
                            \/ call'[d].row.version = disk'.version + 1 /\ queue' = {}
      BY DEF WriteInv, Coherent, Pending
    <2>1. d = c
      BY <1>2, <1>3 DEF IInv, TypeOK
    <2>2. call'[d].row = next
      BY <1>2, <2>1 DEF IInv, TypeOK
    <2>3. next = disk \/ (next.version = disk.version + 1 /\ queue' = {})
      BY <1>5
    <2>4. QED
      BY <2>2, <2>3
  <1>9. ForceInv'
    BY <1>2, <1>3 DEF ForceInv, IInv, TypeOK
  <1>10. DiskInv' /\ AnswersStand'
    BY DEF IInv, DiskInv, AnswersStand, Ahead, Coherent, Pending
  <1>11. QueuedIsAwaited'
    BY DEF IInv, QueuedIsAwaited, MayTurn, Pending
  <1>12. QED
    BY <1>6, <1>7, <1>8, <1>9, <1>10, <1>11 DEF IInv

(* A turn of the file's row, the row not being one with a queued dispatch. *)
LEMMA TurnInv ==
    ASSUME IInv, NEW c \in Callers, NEW state \in States \ {"MONITORING"},
           disk.state \in {"OBSERVING", "REVIEW_READY", "REVIEWING"},
           Computes(c, Turned(state)),
           UNCHANGED <<disk, durable, queue, answered>>
    PROVE  IInv'
  <1>1. disk \in Rows /\ Coherent(disk) /\ ~Pending(disk)
    BY DEF IInv, TypeOK, NoRow, Coherent
  <1>2. disk.version \in Nat
    BY <1>1, Versions
  <1>3. Turned(state).version = disk.version + 1
    BY <1>1 DEF Turned, Rows
  <1>4. disk.version + 1 <= MaxVersion
    BY <1>3 DEF Computes
  <1>5. Turned(state) \in Rows /\ Coherent(Turned(state))
    BY <1>1, <1>4, TurnedIsRow
  <1>6. QED
    BY <1>1, <1>3, <1>5, ComputesInv

(* A new observation of a product none of whose dispatches is pending.     *)
LEMMA ObserveInv ==
    ASSUME IInv, NEW c \in Callers, NEW task \in Tasks, NEW window \in Windows,
           ~Pending(disk),
           Computes(c, Observing(task, window, disk.version + 1)),
           UNCHANGED <<disk, durable, queue, answered>>
    PROVE  IInv'
  <1>1. disk.version \in Nat
    BY Versions DEF IInv, TypeOK
  <1>2. disk.version + 1 \in 1..MaxVersion
    BY <1>1, LifecycleAssumption DEF Computes, Observing
  <1>3. /\ Observing(task, window, disk.version + 1) \in Rows
        /\ Coherent(Observing(task, window, disk.version + 1))
    BY <1>2, ObservingIsRow
  <1>4. Observing(task, window, disk.version + 1).version = disk.version + 1
    BY DEF Observing
  <1>5. QED
    BY <1>3, <1>4, ComputesInv

(* A return to monitoring without a review's receipt.                      *)
LEMMA MonitorInv ==
    ASSUME IInv, NEW c \in Callers, ~Pending(disk),
           Computes(c, Monitored(disk.version + 1)),
           UNCHANGED <<disk, durable, queue, answered>>
    PROVE  IInv'
  <1>1. disk.version \in Nat
    BY Versions DEF IInv, TypeOK
  <1>2. disk.version + 1 \in 1..MaxVersion
    BY <1>1, LifecycleAssumption DEF Computes, Monitored
  <1>3. /\ Monitored(disk.version + 1) \in Rows
        /\ Coherent(Monitored(disk.version + 1))
    BY <1>2, MonitoredIsRow
  <1>4. Monitored(disk.version + 1).version = disk.version + 1
    BY DEF Monitored
  <1>5. QED
    BY <1>3, <1>4, ComputesInv

(* The row is written again as it is.                                      *)
LEMMA RewriteInv ==
    ASSUME IInv, NEW c \in Callers, disk # NoRow, Computes(c, disk),
           UNCHANGED <<disk, durable, answered>>,
           \/ queue' = queue
           \/ /\ MayTurn(disk.version, "ADJUSTMENT_REQUIRED") /\ Pending(disk)
              /\ queue' = queue \cup {disk.receipt.verdict}
    PROVE  IInv'
  <1>1. disk \in Rows /\ Coherent(disk)
    BY DEF IInv, TypeOK
  <1>2. QED
    BY <1>1, ComputesInv

(* The rename makes the prepared row the file's; the forced one is behind. *)
LEMMA MoveInv ==
    ASSUME IInv, NEW c \in Callers, Move(c)
    PROVE  IInv'
  <1>1. /\ call[c].row \in Rows /\ Coherent(call[c].row)
        /\ \/ call[c].row = disk
           \/ call[c].row.version = disk.version + 1 /\ queue = {}
    BY DEF IInv, WriteInv, Move
  <1>2. lock = c
    BY DEF IInv, LockInv, Move
  <1>3. \A d \in Callers \ {c} : call[d].pc = "idle" /\ call'[d] = call[d]
    BY <1>2 DEF IInv, LockInv, Move, TypeOK
  <1>4. call'[c].pc = "force" /\ call'[c].row = disk' /\ disk' = call[c].row
    BY DEF IInv, TypeOK, Move
  <1>5. TypeOK'
    BY <1>1 DEF IInv, TypeOK, Move, Coherent, Pending
  <1>6. LockInv' /\ WriteInv' /\ ForceInv'
    BY <1>2, <1>3, <1>4 DEF LockInv, WriteInv, ForceInv, Move
  <1>7. DiskInv'
    <2>1. Ahead(disk', disk)
      <3>1. disk.version \in Nat
        BY Versions DEF IInv, TypeOK
      <3>2. QED
        BY <1>1, <1>4, <3>1 DEF Ahead
    <2>2. disk' \in Rows \cup {NoRow}
      BY <1>5 DEF TypeOK
    <2>3. Ahead(disk', durable)
      BY <2>1, <2>2, AheadTransitive DEF IInv, TypeOK, DiskInv
    <2>4. durable' = durable
      BY DEF Move
    <2>5. QED
      BY <2>3, <2>4 DEF IInv, DiskInv, Ahead, Coherent, Pending
  <1>8. AnswersStand'
    BY DEF IInv, AnswersStand, Move
  <1>9. QueuedIsAwaited'
    BY <1>1, <1>4 DEF IInv, QueuedIsAwaited, Move
  <1>10. QED
    BY <1>5, <1>6, <1>7, <1>8, <1>9 DEF IInv

(* The answer: file, forced file and returned row are one.                 *)
LEMMA AnswerInv ==
    ASSUME IInv, NEW c \in Callers, Answer(c)
    PROVE  IInv'
  <1>1. lock = c /\ call[c].row = disk
    BY DEF IInv, LockInv, ForceInv, Answer
  <1>2. \A d \in Callers : call'[d].pc = "idle"
    BY <1>1 DEF IInv, LockInv, TypeOK, Answer, Leaves, Idle
  <1>3. TypeOK'
    BY <1>1 DEF IInv, TypeOK, Answer, Leaves, Idle, Coherent, Pending
  <1>4. LockInv' /\ WriteInv' /\ ForceInv'
    BY <1>2 DEF LockInv, WriteInv, ForceInv
  <1>5. DiskInv' /\ AnswersStand' /\ QueuedIsAwaited'
    BY <1>1 DEF IInv, TypeOK, DiskInv, AnswersStand, QueuedIsAwaited, Answer,
                Ahead, Coherent, Pending
  <1>6. QED
    BY <1>3, <1>4, <1>5 DEF IInv

(* A call that raises leaves file and queue as it found or made them.      *)
LEMMA RaiseInv ==
    ASSUME IInv, NEW c \in Callers, Raise(c)
    PROVE  IInv'
  <1>1. lock = c
    BY DEF IInv, LockInv, Raise
  <1>2. \A d \in Callers : call'[d].pc = "idle"
    BY <1>1 DEF IInv, LockInv, TypeOK, Raise, Leaves, Idle
  <1>3. TypeOK'
    BY DEF IInv, TypeOK, Raise, Leaves, Idle, Coherent, Pending
  <1>4. LockInv' /\ WriteInv' /\ ForceInv'
    BY <1>2 DEF LockInv, WriteInv, ForceInv
  <1>5. DiskInv' /\ AnswersStand' /\ QueuedIsAwaited'
    BY DEF IInv, DiskInv, AnswersStand, QueuedIsAwaited, Raise, Ahead,
           Coherent, Pending
  <1>6. QED
    BY <1>3, <1>4, <1>5 DEF IInv

(* A death empties calls and queue; a loss of power keeps the file's row   *)
(* or the forced one, and neither is behind an answer.                     *)
LEMMA DeathInv ==
    ASSUME IInv, Dies, NEW kept \in {disk, durable},
           \/ disk' = disk /\ durable' = durable
           \/ disk' = kept /\ durable' = kept
    PROVE  IInv'
  <1>1. \A d \in Callers : call'[d].pc = "idle"
    BY DEF Dies, Idle
  <1>2. TypeOK'
    BY DEF IInv, TypeOK, DiskInv, Dies, Idle, Coherent, Pending
  <1>3. LockInv' /\ WriteInv' /\ ForceInv'
    BY <1>1 DEF LockInv, WriteInv, ForceInv
  <1>4. DiskInv'
    BY DEF IInv, TypeOK, DiskInv, Ahead, Coherent, Pending
  <1>5. AnswersStand'
    <2>1. Ahead(durable, answered) /\ Ahead(disk, durable)
      BY DEF IInv, AnswersStand, DiskInv, Ahead
    <2>2. Ahead(disk, answered)
      BY <2>1, AheadTransitive DEF IInv, TypeOK
    <2>3. answered' = answered
      BY DEF Dies
    <2>4. durable' \in {disk, durable}
      OBVIOUS
    <2>5. QED
      BY <2>1, <2>2, <2>3, <2>4 DEF AnswersStand, Ahead
  <1>6. QueuedIsAwaited'
    BY DEF QueuedIsAwaited, Dies
  <1>7. QED
    BY <1>2, <1>3, <1>4, <1>5, <1>6 DEF IInv

-----------------------------------------------------------------------------
\* The invariant holds of an authority without a file.
LEMMA InitInv == Init => IInv
  BY LifecycleAssumption
  DEF Init, IInv, TypeOK, LockInv, WriteInv, ForceInv, DiskInv, AnswersStand,
      QueuedIsAwaited, Ahead, Idle

\* Every step of every caller, a raise, a death or a loss of power keeps the invariant.
LEMMA StepInv ==
    ASSUME IInv, [Next]_vars
    PROVE  IInv'
  <1>1. ASSUME NEW c \in Callers, Monitor(c)
        PROVE  IInv'
    <2>1. CASE disk = NoRow
      <3>1. disk.version + 1 = 1 /\ ~Pending(disk)
        BY <2>1 DEF NoRow, Pending
      <3>2. QED
        BY <1>1, <2>1, <3>1, MonitorInv DEF Monitor
    <2>2. CASE disk # NoRow
      BY <1>1, <2>2, RewriteInv DEF Monitor
    <2>3. QED
      BY <2>1, <2>2
  <1>2. ASSUME NEW c \in Callers, NEW expected \in 1..MaxVersion,
               \/ MarkReviewReady(c, expected) \/ BeginReview(c, expected)
               \/ AdjustmentRequired(c, expected)
        PROVE  IInv'
    BY <1>2, TurnInv
    DEF MarkReviewReady, BeginReview, AdjustmentRequired, MayTurn, States
  <1>3. ASSUME NEW c \in Callers, NEW expected \in 1..MaxVersion, Settle(c, expected)
        PROVE  IInv'
    <2>1. ~Pending(disk)
      BY <1>3 DEF Settle, MayTurn, IInv, TypeOK, NoRow, Coherent
    <2>2. QED
      BY <1>3, <2>1, MonitorInv DEF Settle
  <1>4. ASSUME NEW c \in Callers, NEW expected \in 1..MaxVersion,
               ReplayReviewDispatch(c, expected)
        PROVE  IInv'
    <2>1. disk # NoRow /\ MayTurn(disk.version, "ADJUSTMENT_REQUIRED")
      BY <1>4 DEF ReplayReviewDispatch, MayTurn, NoRow
    <2>2. QED
      BY <1>4, <2>1, RewriteInv DEF ReplayReviewDispatch
  <1>5. ASSUME NEW c \in Callers, NEW expected \in 1..MaxVersion,
               NEW task \in Tasks, NEW window \in Windows,
               BeginObservation(c, expected, task, window)
        PROVE  IInv'
    <2>1. ~Pending(disk)
      BY <1>5 DEF BeginObservation, IInv, TypeOK, NoRow, Pending, Coherent
    <2>2. QED
      BY <1>5, <2>1, ObserveInv DEF BeginObservation
  <1>6. ASSUME NEW c \in Callers, NEW expected \in 1..MaxVersion,
               NEW task \in Tasks, NEW window \in Windows,
               BeginNextObservation(c, expected, task, window)
        PROVE  IInv'
    BY <1>6, ObserveInv DEF BeginNextObservation, MayObserveNext
  <1>7. ASSUME NEW c \in Callers, NEW request \in Requests, CommitReview(c, request)
        PROVE  IInv'
    <2>1. disk \in Rows /\ Coherent(disk) /\ ~Pending(disk) /\ ContractHolds(request)
      BY <1>7 DEF CommitReview, ContractHolds, IInv, TypeOK, NoRow, Coherent
    <2>2. Reviewed(request).version = disk.version + 1
      BY <2>1 DEF Reviewed, Monitored, Turned, Rows
    <2>3. disk.version + 1 <= MaxVersion
      BY <1>7, <2>2 DEF CommitReview, Computes
    <2>4. Reviewed(request) \in Rows /\ Coherent(Reviewed(request))
      BY <2>1, <2>3, ReviewedIsRow
    <2>5. QED
      BY <1>7, <2>1, <2>2, <2>4, ComputesInv DEF CommitReview
  <1>8. ASSUME NEW c \in Callers, NEW request \in Requests, ReturnCurrent(c, request)
        PROVE  IInv'
    <2>1. disk # NoRow
      BY <1>8, LifecycleAssumption
      DEF ReturnCurrent, ContractHolds, NoRow, Requests
    <2>2. QED
      BY <1>8, <2>1, RewriteInv DEF ReturnCurrent
  <1>9. ASSUME NEW c \in Callers, Move(c) \/ Answer(c) \/ Raise(c)
        PROVE  IInv'
    BY <1>9, MoveInv, AnswerInv, RaiseInv
  <1>10. CASE ProcessDies \/ PowerLoss
    BY <1>10, DeathInv DEF ProcessDies, PowerLoss
  <1>11. CASE UNCHANGED vars
    BY <1>11 DEF vars, IInv, TypeOK, LockInv, WriteInv, ForceInv, DiskInv,
                 AnswersStand, QueuedIsAwaited, Ahead, Coherent, Pending
  <1>12. QED
    BY <1>1, <1>2, <1>3, <1>4, <1>5, <1>6, <1>7, <1>8, <1>9, <1>10, <1>11 DEF Next

(* The invariant holds in every reachable state.                           *)
THEOREM Invariance == Spec => []IInv
  <1>1. IInv /\ [Next]_vars => IInv'
    BY StepInv
  <1>2. QED
    BY InitInv, <1>1, PTL DEF Spec

(* Rows keep their form, and a product's task, window and pending dispatch *)
(* fit its state, under every caller, failure and loss of power.           *)
THEOREM TypeCorrect == Spec => []TypeOK
  <1>1. IInv => TypeOK
    BY DEF IInv
  <1>2. QED
    BY Invariance, <1>1, PTL

(* A row that compute returned is never lost nor replaced by another of    *)
(* its version.                                                            *)
THEOREM AnswersAreDurable == Spec => []AnswersStand
  <1>1. IInv => AnswersStand
    BY DEF IInv
  <1>2. QED
    BY Invariance, <1>1, PTL

(* What replayReviewDispatch has put in the queue is the revision that the *)
(* product's file is waiting for.                                          *)
THEOREM DispatchIsAwaited == Spec => []QueuedIsAwaited
  <1>1. IInv => QueuedIsAwaited
    BY DEF IInv
  <1>2. QED
    BY Invariance, <1>1, PTL

===============================================================================
