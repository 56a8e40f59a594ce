--------------------------- MODULE ProductLifecycle ---------------------------
(***************************************************************************)
(* ProductLifecycleAuthority over a file: monitoring, observation, review, *)
(* adjustment and the next observation of a product, each a mutation under *)
(* the lock of the file, and the replay of a review's dispatch into the    *)
(* queue, which lives in memory only.                                      *)
(*                                                                         *)
(* A mutation loads the file, computes the product's next row, writes and  *)
(* forces a temporary file, moves it over the file and forces the          *)
(* directory.  Any of these may raise, the process may die and the machine *)
(* may lose power: what was moved and not yet forced is then visible, or   *)
(* gone, and the caller was told that the call failed.                     *)
(*                                                                         *)
(* Products do not meet, so one is enough: its row, or NoRow.  A call that *)
(* throws before the write leaves no trace and is no step.                 *)
(***************************************************************************)
EXTENDS Naturals

CONSTANTS
    Callers,     \* threads and processes that call the authority
    Tasks,       \* task ids
    Windows,     \* observation windows: start and due time
    Revisions,   \* revisions a breached review may plan
    MaxVersion,  \* bound on the product's stateVersion
    None         \* null: no holder, no task, no window, no receipt

ASSUME LifecycleAssumption ==
    /\ MaxVersion \in Nat
    /\ None \notin Callers \cup Tasks \cup Windows \cup Revisions
    /\ "SETTLED" \notin Revisions

VARIABLES
    disk,      \* the product's row in the file as everyone reads it
    durable,   \* the row the file has after a loss of power
    lock,      \* the caller inside compute
    call,      \* per caller: how far its compute is, and the row to write
    queue,     \* revisions enqueued for Agent1
    answered   \* history: the row of the last call that returned

vars == <<disk, durable, lock, call, queue, answered>>

States ==
    {"MONITORING", "OBSERVING", "REVIEW_READY", "REVIEWING", "ADJUSTMENT_REQUIRED"}

\* What a review commits, besides waiting: settled, or a revision.
Verdicts == {"SETTLED"} \cup Revisions

\* requestHash; expectedVersion is part of it.
Requests == [task: Tasks, window: Windows, verdict: Verdicts, version: 1..MaxVersion]

NoRow == [state |-> "ABSENT", task |-> None, window |-> None, version |-> 0,
          receipt |-> None]

Rows == [state: States, task: Tasks \cup {None}, window: Windows \cup {None},
         version: 1..MaxVersion, receipt: Requests \cup {None}]

\* dispatchStatus PENDING: the receipt's verdict is a revision.
Pending(row) == row.receipt # None /\ row.receipt.verdict \in Revisions

\* A product that is monitored has no task; any other has the task and window of
\* its observation; a dispatch is pending only while it is to be adjusted.
Coherent(row) ==
    /\ (row.state = "MONITORING") <=> (row.task = None)
    /\ (row.task = None) <=> (row.window = None)
    /\ Pending(row) => row.state = "ADJUSTMENT_REQUIRED"

TypeOK ==
    /\ disk \in Rows \cup {NoRow}
    /\ durable \in Rows \cup {NoRow}
    /\ lock \in Callers \cup {None}
    /\ call \in [Callers -> [pc: {"idle", "write", "force"}, row: Rows \cup {NoRow}]]
    /\ queue \subseteq Revisions
    /\ answered \in Rows \cup {NoRow}
    /\ disk # NoRow => Coherent(disk)

Idle == [pc |-> "idle", row |-> NoRow]

Init ==
    /\ disk = NoRow
    /\ durable = NoRow
    /\ lock = None
    /\ call = [c \in Callers |-> Idle]
    /\ queue = {}
    /\ answered = NoRow

-----------------------------------------------------------------------------
(* compute                                                                 *)

\* The monitor of the path and the lock of its file.
\* Mutant: a process does not wait for the other's file lock.
LockIgnored == TRUE

LockFree == lock = None

\* The lock, the load, and the mutation's result.
Computes(c, next) ==
    /\ LockFree
    /\ call[c].pc = "idle"
    /\ next.version <= MaxVersion
    /\ lock' = c
    /\ call' = [call EXCEPT ![c] = [pc |-> "write", row |-> next]]

Leaves(c) ==
    /\ lock' = None
    /\ call' = [call EXCEPT ![c] = Idle]

\* Files.move, once the temporary file is forced.
Move(c) ==
    /\ call[c].pc = "write"
    /\ disk' = call[c].row
    /\ call' = [call EXCEPT ![c].pc = "force"]
    /\ UNCHANGED <<durable, lock, queue, answered>>

\* The directory is forced and the row returned.
Answer(c) ==
    /\ call[c].pc = "force"
    /\ durable' = disk
    /\ answered' = call[c].row
    /\ Leaves(c)
    /\ UNCHANGED <<disk, queue>>

\* IOException, before the move or after it; the second root check of a replay; or
\* the caller's own process dies.  No row is returned.
Raise(c) ==
    /\ call[c].pc # "idle"
    /\ Leaves(c)
    /\ UNCHANGED <<disk, durable, queue, answered>>

-----------------------------------------------------------------------------
(* The operations                                                          *)

Monitored(version) ==
    [state |-> "MONITORING", task |-> None, window |-> None,
     version |-> version, receipt |-> None]

\* The constructor without reviewCommitJson: the receipt goes.
Observing(task, window, version) ==
    [state |-> "OBSERVING", task |-> task, window |-> window,
     version |-> version, receipt |-> None]

\* copy, which drops the receipt too.
Turned(state) ==
    [disk EXCEPT !.state = state, !.version = @ + 1, !.receipt = None]

Monitor(c) ==
    /\ disk = NoRow \/ disk.state = "MONITORING"
    /\ Computes(c, IF disk = NoRow THEN Monitored(1) ELSE disk)
    /\ UNCHANGED <<disk, durable, queue, answered>>

BeginObservation(c, expected, task, window) ==
    /\ disk # NoRow => disk.version = expected /\ disk.state = "MONITORING"
    /\ Computes(c, Observing(task, window, disk.version + 1))
    /\ UNCHANGED <<disk, durable, queue, answered>>

\* transition: the version and the state it starts from.
MayTurn(expected, state) == disk.version = expected /\ disk.state = state

\* The window's due time has come.
MarkReviewReady(c, expected) ==
    /\ MayTurn(expected, "OBSERVING")
    /\ Computes(c, Turned("REVIEW_READY"))
    /\ UNCHANGED <<disk, durable, queue, answered>>

BeginReview(c, expected) ==
    /\ MayTurn(expected, "REVIEW_READY")
    /\ Computes(c, Turned("REVIEWING"))
    /\ UNCHANGED <<disk, durable, queue, answered>>

Settle(c, expected) ==
    /\ MayTurn(expected, "REVIEWING")
    /\ Computes(c, Monitored(disk.version + 1))
    /\ UNCHANGED <<disk, durable, queue, answered>>

AdjustmentRequired(c, expected) ==
    /\ MayTurn(expected, "REVIEWING")
    /\ Computes(c, Turned("ADJUSTMENT_REQUIRED"))
    /\ UNCHANGED <<disk, durable, queue, answered>>

\* The contract is that of the observation under way.
ContractHolds(request) ==
    /\ disk.state \in {"OBSERVING", "REVIEW_READY", "REVIEWING"}
    /\ disk.version = request.version
    /\ disk.task = request.task
    /\ disk.window = request.window

\* Outcome and receipt in one row.  Mutant: a settled product keeps its task.
ReviewedInPlace(request) ==
    [disk EXCEPT !.state = IF request.verdict = "SETTLED" THEN "MONITORING"
                                                          ELSE "ADJUSTMENT_REQUIRED",
                 !.version = @ + 1, !.receipt = request]

Reviewed(request) ==
    IF request.verdict = "SETTLED"
      THEN [Monitored(disk.version + 1) EXCEPT !.receipt = request]
      ELSE [Turned("ADJUSTMENT_REQUIRED") EXCEPT !.receipt = request]

CommitReview(c, request) ==
    /\ ContractHolds(request)
    /\ Computes(c, Reviewed(request))
    /\ UNCHANGED <<disk, durable, queue, answered>>

\* The request that is committed already, or a review that waits for time or
\* evidence: the row is written again as it is.
ReturnCurrent(c, request) ==
    /\ (disk.receipt # None /\ disk.receipt = request) \/ ContractHolds(request)
    /\ Computes(c, disk)
    /\ UNCHANGED <<disk, durable, queue, answered>>

\* replayReviewDispatch registers and enqueues, both idempotent, before the write.
ReplayReviewDispatch(c, expected) ==
    /\ MayTurn(expected, "ADJUSTMENT_REQUIRED")
    /\ Pending(disk)
    /\ Computes(c, disk)
    /\ queue' = queue \cup {disk.receipt.verdict}
    /\ UNCHANGED <<disk, durable, answered>>

\* beginNextObservation.  Mutant: a pending dispatch does not hold it back.
MayObserveAnew == TRUE

MayObserveNext == ~Pending(disk)

BeginNextObservation(c, expected, task, window) ==
    /\ MayTurn(expected, "ADJUSTMENT_REQUIRED")
    /\ MayObserveNext
    /\ task # disk.task
    /\ Computes(c, Observing(task, window, disk.version + 1))
    /\ UNCHANGED <<disk, durable, queue, answered>>

-----------------------------------------------------------------------------
(* Failures of process and machine                                         *)

\* The locks go with the process, and so does the queue.
Dies ==
    /\ lock' = None
    /\ call' = [c \in Callers |-> Idle]
    /\ queue' = {}
    /\ UNCHANGED answered

ProcessDies ==
    /\ Dies
    /\ UNCHANGED <<disk, durable>>

\* A move that was not forced may have reached the disk all the same.
PowerLoss ==
    /\ Dies
    /\ \E kept \in {disk, durable} : disk' = kept /\ durable' = kept

-----------------------------------------------------------------------------
Next ==
    \/ \E c \in Callers :
          \/ Monitor(c)
          \/ \E expected \in 1..MaxVersion :
                \/ MarkReviewReady(c, expected)
                \/ BeginReview(c, expected)
                \/ Settle(c, expected)
                \/ AdjustmentRequired(c, expected)
                \/ ReplayReviewDispatch(c, expected)
                \/ \E task \in Tasks, window \in Windows :
                      \/ BeginObservation(c, expected, task, window)
                      \/ BeginNextObservation(c, expected, task, window)
          \/ \E request \in Requests :
                CommitReview(c, request) \/ ReturnCurrent(c, request)
          \/ Move(c) \/ Answer(c) \/ Raise(c)
    \/ ProcessDies \/ PowerLoss

Spec == Init /\ [][Next]_vars

-----------------------------------------------------------------------------
(* Properties                                                              *)

\* What a call has returned stands: the file keeps that very row, or has gone on
\* to a later version, over raised writes, dead processes and lost power, and no
\* other caller overwrites it from an older load.
AnswersStand == durable = answered \/ durable.version > answered.version

\* A revision in the queue is the one the product waits for: the product stays to
\* be adjusted under the review that planned it, although the replay enqueues
\* before it writes and may then raise, and although a commit that was seen may
\* be lost with the power.
QueuedIsAwaited ==
    \A revision \in queue :
        /\ disk.state = "ADJUSTMENT_REQUIRED"
        /\ disk.receipt # None
        /\ disk.receipt.verdict = revision

===============================================================================
