-------------------------- MODULE StationQueueProofs --------------------------
(***************************************************************************)
(* Proofs about StationQueue.                                              *)
(***************************************************************************)
EXTENDS StationQueue, TLAPS

(* The records of each table and thread. *)
JobRecords    == [status: JobStatus, version: DataVersions \cup {None},
                  station: Stations]
RowRecords    == [status: RowStatus, attempts: 0..MaxAttempts]
ThreadRecords == [pc: Pcs, row: RowIds \cup {None}, attempts: 0..MaxAttempts]
ClientRecords == [pc: {"idle", "importing", "checked"},
                  version: DataVersions \cup {None}, gen: 1..MaxSeq]
States        == Writable \cup {"resetting", "failed"}
ReadRecords   == [pc: {"idle", "seq", "read", "over"}, seq: 1..MaxSeq, state: States]
GenRecords    == [seq: 1..MaxSeq, state: States, active: DataVersions \cup {None}]

(* The pcs of a worker, in the order it goes through them. *)
Tried      == {"running", "recorded", "failing"}
Holding    == {"claimed"} \cup Tried
Busy       == {"selected", "finished"} \cup Holding
WorkerPcs  == {"idle", "guarded"} \cup Busy
ResetPcs   == {"idle", "rotated", "deleted"}

(* The barrier admits one thread. *)
BarrierOne ==
    \A t, u \in Threads : thread[t].pc # "idle" /\ thread[u].pc # "idle" => t = u

Roles ==
    /\ \A w \in Workers : thread[w].pc \in WorkerPcs
    /\ \A t \in Resetters : thread[t].pc \in ResetPcs

(* A reset that is not over has no active data version. *)
ResetPointsNowhere ==
    \A t \in Resetters : thread[t].pc # "idle" => generation.active = None

(* What the tables hold of the row a worker works on. *)
Holds(x) ==
    /\ x.pc \in Busy => x.row \in RowIds
    /\ x.pc = "selected" => rows[x.row].status \in Waiting
    /\ x.pc \in Holding => rows[x.row].status = "running"
    /\ x.pc \in Tried => rows[x.row].attempts = x.attempts
    /\ x.pc = "recorded" => <<x.row.job, x.row.station>> \in artifacts
    /\ x.pc = "finished" => jobs[x.row.job].status \notin Gone

RowsHeld == \A w \in Workers : Holds(thread[w])

(* The row of a station before, at and after the station of its job. *)
Passed(j, s) == rows[Row(j, s)].status = "completed" /\ <<j, s>> \in artifacts

Current(j, s) ==
    /\ rows[Row(j, s)].status \notin Gone
    /\ jobs[j].status = "failed" <=> rows[Row(j, s)].status = "failed"
    /\ jobs[j].status = "completed" <=> rows[Row(j, s)].status = "completed"

Ahead(j, s) == rows[Row(j, s)].status = "absent"

Positioned(j, s) ==
    /\ jobs[j].status = "absent" => rows[Row(j, s)].status = "absent"
    /\ jobs[j].status = "deleted" => rows[Row(j, s)].status \in Gone
    /\ jobs[j].status \notin Gone =>
          /\ s < jobs[j].station => Passed(j, s)
          /\ s = jobs[j].station => Current(j, s)
          /\ s > jobs[j].station => Ahead(j, s)

InLine == \A j \in JobIds, s \in Stations : Positioned(j, s)

(* The attempts of one row. *)
Decided(x) ==
    /\ x.status = "queued" => x.attempts = 0
    /\ x.status = "retry" => x.attempts < MaxAttempts
    /\ x.status = "failed" => x.attempts = MaxAttempts

Attempts == \A r \in RowIds : Decided(rows[r])

(* The inductive invariant. *)
IInv ==
    /\ TypeOK
    /\ BarrierOne
    /\ Roles
    /\ ResetPointsNowhere
    /\ RowsHeld
    /\ InLine
    /\ Attempts
    /\ ActiveIsCurrent
-----------------------------------------------------------------------------
(* Kinds of step, in place of the twenty actions.                          *)

(* Thread t, alone in the barrier, becomes y. *)
ThreadStep(t, y) ==
    /\ y \in ThreadRecords
    /\ thread' = [thread EXCEPT ![t] = y]
    /\ \A u \in Threads : u # t => thread[u].pc = "idle"

(* What y must be in the state the step leads to. *)
WorkerFits(y) ==
    /\ y.pc \in WorkerPcs
    /\ Holds(y)'

ResetFits(y) ==
    /\ y.pc \in ResetPcs
    /\ y.pc # "idle" => generation'.active = None

(* No row and no job is touched. *)
TablesKept ==
    /\ jobs' = jobs
    /\ rows' = rows
    /\ artifacts' \in SUBSET (JobIds \X Stations)
    /\ artifacts \subseteq artifacts'

(* An absent job is inserted as y, with its first row. *)
Inserted(j, y) ==
    /\ jobs[j].status = "absent"
    /\ y \in JobRecords
    /\ y.status = "queued"
    /\ y.station = 1
    /\ jobs' = [jobs EXCEPT ![j] = y]
    /\ rows' = [rows EXCEPT ![Row(j, 1)] = NewRow]
    /\ artifacts' = artifacts

(* r is the row at the station of a job that is not gone. *)
AtStation(r) ==
    /\ r \in RowIds
    /\ jobs[r.job].status \notin Gone
    /\ jobs[r.job].station = r.station

(* The job of row r becomes y, in the same place or further on. *)
JobMoves(r, y) ==
    /\ AtStation(r)
    /\ y \in JobRecords
    /\ y.status \notin Gone
    /\ y.version = jobs[r.job].version
    /\ jobs' = [jobs EXCEPT ![r.job] = y]

(* Row r becomes x, and its job y tells the same. *)
RowMoves(r, x, y) ==
    /\ JobMoves(r, y)
    /\ y.station = r.station
    /\ x \in RowRecords
    /\ x.status \notin Gone
    /\ Decided(x)
    /\ y.status = "failed" <=> x.status = "failed"
    /\ y.status = "completed" <=> x.status = "completed"
    /\ rows' = [rows EXCEPT ![r] = x]
    /\ artifacts' = artifacts

(* Row r is completed as x, and the row of the next station inserted. *)
RowStreams(r, x, y) ==
    /\ JobMoves(r, y)
    /\ r.station < LastStation
    /\ y.station = r.station + 1
    /\ y.status = "running"
    /\ x \in RowRecords
    /\ x.status = "completed"
    /\ <<r.job, r.station>> \in artifacts
    /\ rows' = [rows EXCEPT ![r] = x, ![Row(r.job, r.station + 1)] = NewRow]
    /\ artifacts' = artifacts

(* Every record of both tables is deleted. *)
TablesDeleted ==
    /\ jobs' = DeleteFrom(jobs, NoJob)
    /\ rows' = DeleteFrom(rows, NoRow)
    /\ artifacts' = artifacts

(* A step of the queue itself: no reset deletes the tables. *)
QueueStep ==
    \/ TablesKept
    \/ \E j \in JobIds : \E y : Inserted(j, y)
    \/ \E r, x, y : RowMoves(r, x, y)
    \/ \E r, x, y : RowStreams(r, x, y)

TableStep == QueueStep \/ TablesDeleted

(* The thread of a worker or of a reset moves, every thread is killed, or  *)
(* none moves and nothing that is there changes.                           *)
WorkerMoves == \E w \in Workers : \E y : ThreadStep(w, y) /\ WorkerFits(y)

ResetMoves  == \E t \in Resetters : \E y : ThreadStep(t, y) /\ ResetFits(y)

AllKilled   == thread' = [t \in Threads |-> Idle]

NoneMoves ==
    /\ thread' = thread
    /\ generation'.active = generation.active
    /\ artifacts' = artifacts
    /\ \A j \in JobIds : jobs[j].status # "absent" => jobs'[j] = jobs[j]
    /\ \A r \in RowIds : rows[r].status # "absent" => rows'[r] = rows[r]

BarrierStep == WorkerMoves \/ ResetMoves \/ AllKilled \/ NoneMoves

(* The active data version stays while the tables do, is cleared, or is    *)
(* set to the version of a job that is there.                              *)
ActiveStep ==
    \/ generation'.active = generation.active /\ QueueStep
    \/ generation'.active = None
    \/ \E j \in JobIds : /\ jobs'[j].status \notin Gone
                         /\ generation'.active = jobs'[j].version

(* The variables no invariant but the type invariant is about. *)
RestTyped ==
    /\ generation \in GenRecords
    /\ client \in [Clients -> ClientRecords]
    /\ observer \in [Observers -> ReadRecords]
    /\ server \in [up: BOOLEAN, faults: 0..MaxFaults]

-----------------------------------------------------------------------------
(* A row id is the pair of its job and its station. *)
LEMMA RowFacts ==
    /\ \A j \in JobIds, s \in Stations : /\ Row(j, s) \in RowIds
                                         /\ Row(j, s).job = j
                                         /\ Row(j, s).station = s
    /\ \A r \in RowIds : /\ r.job \in JobIds
                         /\ r.station \in Stations
                         /\ r = Row(r.job, r.station)
BY DEF Row, RowIds

(* Stations are numbers, the first and the last among them. *)
LEMMA StationFacts ==
    /\ \A s \in Stations : s \in Nat /\ 1 <= s /\ s <= LastStation
    /\ 1 \in Stations /\ LastStation \in Stations
    /\ \A s \in Stations : s < LastStation => s + 1 \in Stations
BY StationAssumption DEF Stations

(* A failure leaves a row to try again while attempts are left, and a      *)
(* failed one when none is.                                                *)
LEMMA FailureDecides ==
    ASSUME NEW n \in 0..MaxAttempts
    PROVE  /\ FailureStatus(n) \in {"retry", "failed"}
           /\ FailureStatus(n) = "retry" => n < MaxAttempts
           /\ FailureStatus(n) = "failed" => n = MaxAttempts
BY StationAssumption DEF FailureStatus

(* The types of the tables, as records. *)
LEMMA TypeRecords ==
    TypeOK <=>
        /\ jobs \in [JobIds -> JobRecords]
        /\ rows \in [RowIds -> RowRecords]
        /\ artifacts \in SUBSET (JobIds \X Stations)
        /\ generation \in GenRecords
        /\ thread \in [Threads -> ThreadRecords]
        /\ client \in [Clients -> ClientRecords]
        /\ observer \in [Observers -> ReadRecords]
        /\ server \in [up: BOOLEAN, faults: 0..MaxFaults]
BY DEF TypeOK, JobRecords, RowRecords, GenRecords, ThreadRecords, ClientRecords,
       ReadRecords, States

(* The job of a row that waits or runs stands at the station of that row:  *)
(* what is behind it is completed and what is ahead of it absent.          *)
LEMMA OpenRowIsCurrent ==
    ASSUME InLine, TypeOK, NEW r \in RowIds,
           rows[r].status \in Waiting \cup {"running"}
    PROVE  AtStation(r)
<1> DEFINE j == r.job
           s == r.station
<1>1. j \in JobIds /\ s \in Stations /\ r = Row(j, s)
  BY RowFacts
<1>2. Positioned(j, s)
  BY <1>1 DEF InLine
<1>3. rows[r].status \notin Gone \cup {"completed"}
  BY DEF Waiting, Gone
<1>4. jobs[j].status \notin Gone
  BY <1>1, <1>2, <1>3 DEF Positioned, Gone
<1>5. s \in Nat /\ jobs[j].station \in Nat
  BY <1>1, StationFacts, TypeRecords DEF JobRecords
<1>6. ~(s < jobs[j].station) /\ ~(s > jobs[j].station)
  BY <1>1, <1>2, <1>3, <1>4 DEF Positioned, Passed, Ahead, Gone
<1>. QED  BY <1>4, <1>5, <1>6 DEF AtStation

-----------------------------------------------------------------------------
(* The tables: each kind of step keeps their types, and keeps what is      *)
(* behind a job's station completed and what is ahead absent.              *)

TablesTyped ==
    /\ jobs \in [JobIds -> JobRecords]
    /\ rows \in [RowIds -> RowRecords]
    /\ artifacts \in SUBSET (JobIds \X Stations)

TableInv == TablesTyped /\ InLine /\ Attempts

(* Keeping the tables, and recording an artifact, keeps them in line. *)
LEMMA KeptKeepsTables ==
    ASSUME TableInv, TablesKept
    PROVE  TableInv'
<1>1. TablesTyped'
  BY DEF TableInv, TablesTyped, TablesKept
<1>2. InLine'
  <2>1. ASSUME NEW j \in JobIds, NEW s \in Stations
        PROVE  Positioned(j, s)'
    <3>1. Positioned(j, s)
      BY DEF TableInv, InLine
    <3>. QED  BY <3>1 DEF TablesKept, Positioned, Passed, Current, Ahead
  <2>. QED  BY <2>1 DEF InLine
<1>3. Attempts'
  BY DEF TableInv, TablesKept, Attempts
<1>. QED  BY <1>1, <1>2, <1>3 DEF TableInv

(* An inserted job stands at its first station with nothing ahead. *)
LEMMA InsertKeepsTables ==
    ASSUME TableInv, NEW i \in JobIds, NEW y, Inserted(i, y)
    PROVE  TableInv'
<1> DEFINE f == Row(i, 1)
<1>1. f \in RowIds /\ f.job = i /\ f.station = 1
  BY RowFacts, StationFacts
<1>2. NewRow \in RowRecords /\ NewRow.status = "queued" /\ NewRow.attempts = 0
  BY StationAssumption DEF NewRow, RowRecords, RowStatus, Waiting
<1>3. TablesTyped'
  BY <1>1, <1>2 DEF TableInv, TablesTyped, Inserted
<1>4. \A r \in RowIds : rows'[r] = IF r = f THEN NewRow ELSE rows[r]
  BY <1>1 DEF Inserted, TableInv, TablesTyped
<1>5. \A j \in JobIds : jobs'[j] = IF j = i THEN y ELSE jobs[j]
  BY DEF Inserted, TableInv, TablesTyped
<1>6. InLine'
  <2>1. ASSUME NEW j \in JobIds, NEW s \in Stations
        PROVE  Positioned(j, s)'
    <3>1. Positioned(j, s)
      BY DEF TableInv, InLine
    <3>2. Row(j, s) \in RowIds /\ Row(j, s).job = j /\ Row(j, s).station = s
      BY RowFacts
    <3>3. CASE j # i
      <4>1. rows'[Row(j, s)] = rows[Row(j, s)] /\ jobs'[j] = jobs[j]
        BY <1>1, <1>4, <1>5, <3>2, <3>3
      <4>. QED  BY <3>1, <4>1 DEF Inserted, Positioned, Passed, Current, Ahead
    <3>4. CASE j = i /\ s = 1
      <4>1. rows'[Row(j, s)] = NewRow /\ jobs'[j] = y
        BY <1>4, <1>5, <3>2, <3>4
      <4>2. y.status = "queued" /\ y.station = 1
        BY DEF Inserted
      <4>. QED
        BY <1>2, <3>4, <4>1, <4>2 DEF Positioned, Passed, Current, Ahead, Gone
    <3>5. CASE j = i /\ s # 1
      <4>1. rows'[Row(j, s)] = rows[Row(j, s)] /\ jobs'[j] = y
        BY <1>1, <1>4, <1>5, <3>2, <3>5
      <4>2. rows[Row(j, s)].status = "absent"
        BY <3>1, <3>5 DEF Inserted, Positioned
      <4>3. y.status = "queued" /\ y.station = 1
        BY DEF Inserted
      <4>4. s \in Nat /\ 1 <= s
        BY StationFacts
      <4>. QED
        BY <3>5, <4>1, <4>2, <4>3, <4>4
        DEF Positioned, Passed, Current, Ahead, Gone
    <3>. QED  BY <3>3, <3>4, <3>5
  <2>. QED  BY <2>1 DEF InLine
<1>7. Attempts'
  <2>1. Decided(NewRow)
    BY <1>2 DEF Decided
  <2>. QED  BY <1>4, <2>1 DEF TableInv, Attempts, Decided
<1>. QED  BY <1>3, <1>6, <1>7 DEF TableInv

(* A row that moves on the spot keeps what is behind and ahead of it. *)
LEMMA MoveKeepsTables ==
    ASSUME TableInv, NEW r, NEW x, NEW y, RowMoves(r, x, y)
    PROVE  TableInv'
<1>1. r \in RowIds /\ r.job \in JobIds /\ r.station \in Stations
  BY RowFacts DEF RowMoves, JobMoves, AtStation
<1>2. TablesTyped'
  BY <1>1 DEF TableInv, TablesTyped, RowMoves, JobMoves
<1>3. \A q \in RowIds : rows'[q] = IF q = r THEN x ELSE rows[q]
  BY <1>1 DEF RowMoves, TableInv, TablesTyped
<1>4. \A j \in JobIds : jobs'[j] = IF j = r.job THEN y ELSE jobs[j]
  BY <1>1 DEF RowMoves, JobMoves, TableInv, TablesTyped
<1>5. InLine'
  <2>1. ASSUME NEW j \in JobIds, NEW s \in Stations
        PROVE  Positioned(j, s)'
    <3>1. Positioned(j, s)
      BY DEF TableInv, InLine
    <3>2. Row(j, s) \in RowIds /\ Row(j, s).job = j /\ Row(j, s).station = s
      BY RowFacts
    <3>3. CASE j # r.job
      <4>1. rows'[Row(j, s)] = rows[Row(j, s)] /\ jobs'[j] = jobs[j]
        BY <1>3, <1>4, <3>2, <3>3
      <4>. QED  BY <3>1, <4>1 DEF RowMoves, Positioned, Passed, Current, Ahead
    <3>4. CASE j = r.job /\ s = r.station
      <4>1. r = Row(j, s)
        BY <1>1, <3>4, RowFacts
      <4>2. rows'[Row(j, s)] = x /\ jobs'[j] = y
        BY <1>1, <1>3, <1>4, <3>4, <4>1
      <4>3. y.station = s /\ s \in Nat
        BY <3>4, StationFacts DEF RowMoves
      <4>. QED
        BY <3>4, <4>2, <4>3
        DEF RowMoves, JobMoves, Positioned, Passed, Current, Ahead, Gone
    <3>5. CASE j = r.job /\ s # r.station
      <4>1. rows'[Row(j, s)] = rows[Row(j, s)] /\ jobs'[j] = y
        BY <1>1, <1>3, <1>4, <3>2, <3>5
      <4>2. /\ y.station = r.station /\ jobs[j].station = r.station
            /\ jobs[j].status \notin Gone /\ y.status \notin Gone
        BY <3>5 DEF RowMoves, JobMoves, AtStation
      <4>. QED
        BY <3>1, <3>5, <4>1, <4>2
        DEF RowMoves, Positioned, Passed, Current, Ahead, Gone
    <3>. QED  BY <3>3, <3>4, <3>5
  <2>. QED  BY <2>1 DEF InLine
<1>6. Attempts'
  BY <1>3 DEF RowMoves, TableInv, Attempts, Decided
<1>. QED  BY <1>2, <1>5, <1>6 DEF TableInv

(* The row that is completed falls behind its job, the inserted one is     *)
(* where the job is.                                                       *)
LEMMA StreamKeepsTables ==
    ASSUME TableInv, NEW r, NEW x, NEW y, RowStreams(r, x, y)
    PROVE  TableInv'
<1> DEFINE n == Row(r.job, r.station + 1)
<1>1. r \in RowIds /\ r.job \in JobIds /\ r.station \in Stations
  BY RowFacts DEF RowStreams, JobMoves, AtStation
<1>2. r.station + 1 \in Stations
  BY <1>1, StationFacts DEF RowStreams
<1>3. /\ n \in RowIds /\ n.job = r.job /\ n.station = r.station + 1 /\ n # r
      /\ r.station \in Nat
  BY <1>1, <1>2, RowFacts, StationFacts
<1>4. NewRow \in RowRecords /\ NewRow.status = "queued" /\ NewRow.attempts = 0
  BY StationAssumption DEF NewRow, RowRecords, RowStatus, Waiting
<1>5. rows' = [rows EXCEPT ![r] = x, ![n] = NewRow]
  BY DEF RowStreams
<1> HIDE DEF n
<1>6. TablesTyped'
  BY <1>1, <1>3, <1>4, <1>5 DEF TableInv, TablesTyped, RowStreams, JobMoves
<1>7. \A q \in RowIds : rows'[q] = IF q = n THEN NewRow
                                   ELSE IF q = r THEN x ELSE rows[q]
  BY <1>1, <1>3, <1>5 DEF TableInv, TablesTyped
<1>8. \A j \in JobIds : jobs'[j] = IF j = r.job THEN y ELSE jobs[j]
  BY <1>1 DEF RowStreams, JobMoves, TableInv, TablesTyped
<1>9. InLine'
  <2>1. ASSUME NEW j \in JobIds, NEW s \in Stations
        PROVE  Positioned(j, s)'
    <3>1. Positioned(j, s)
      BY DEF TableInv, InLine
    <3>2. /\ Row(j, s) \in RowIds /\ Row(j, s).job = j /\ Row(j, s).station = s
          /\ s \in Nat
      BY RowFacts, StationFacts
    <3>3. /\ y.station = r.station + 1 /\ y.status = "running"
          /\ jobs[r.job].station = r.station
          /\ jobs[r.job].status \notin Gone
          /\ artifacts' = artifacts
      BY DEF RowStreams, JobMoves, AtStation
    <3>4. CASE j # r.job
      <4>1. rows'[Row(j, s)] = rows[Row(j, s)] /\ jobs'[j] = jobs[j]
        BY <1>1, <1>3, <1>7, <1>8, <3>2, <3>4
      <4>. QED  BY <3>1, <3>3, <4>1 DEF Positioned, Passed, Current, Ahead
    <3>5. CASE j = r.job /\ s = r.station
      <4>1. r = Row(j, s)
        BY <1>1, <3>5, RowFacts
      <4>2. rows'[Row(j, s)] = x /\ jobs'[j] = y
        BY <1>1, <1>3, <1>7, <1>8, <3>5, <4>1
      <4>3. <<j, s>> \in artifacts /\ x.status = "completed"
        BY <3>5 DEF RowStreams
      <4>. QED
        BY <1>3, <3>3, <3>5, <4>2, <4>3
        DEF Positioned, Passed, Current, Ahead, Gone
    <3>6. CASE j = r.job /\ s = r.station + 1
      <4>1. n = Row(j, s)
        BY <3>6 DEF n
      <4>2. rows'[Row(j, s)] = NewRow /\ jobs'[j] = y
        BY <1>1, <1>3, <1>7, <1>8, <3>6, <4>1
      <4>. QED
        BY <1>3, <1>4, <3>3, <3>6, <4>2
        DEF Positioned, Passed, Current, Ahead, Gone
    <3>7. CASE j = r.job /\ s # r.station /\ s # r.station + 1
      <4>1. rows'[Row(j, s)] = rows[Row(j, s)] /\ jobs'[j] = y
        BY <1>1, <1>3, <1>7, <1>8, <3>2, <3>7
      <4>2. s < r.station <=> s < r.station + 1
        BY <1>3, <3>2, <3>7
      <4>3. s > r.station <=> s > r.station + 1
        BY <1>3, <3>2, <3>7
      <4>. QED
        BY <3>1, <3>3, <3>7, <4>1, <4>2, <4>3
        DEF Positioned, Passed, Current, Ahead, Gone
    <3>. QED  BY <3>4, <3>5, <3>6, <3>7
  <2>. QED  BY <2>1 DEF InLine
<1>10. Attempts'
  <2>1. Decided(NewRow) /\ Decided(x)
    BY <1>4 DEF Decided, RowStreams
  <2>. QED  BY <1>7, <2>1 DEF TableInv, Attempts, Decided
<1>. QED  BY <1>6, <1>9, <1>10 DEF TableInv

(* After a reset a job and its rows are absent or deleted. *)
LEMMA DeleteKeepsTables ==
    ASSUME TableInv, TablesDeleted
    PROVE  TableInv'
<1> DEFINE Dead(z) == [z EXCEPT !.status = "deleted"]
<1>1. \A j \in JobIds : jobs'[j] = IF jobs[j].status = "absent" THEN jobs[j]
                                   ELSE Dead(NoJob)
  BY DEF TablesDeleted, DeleteFrom, TableInv, TablesTyped
<1>2. \A r \in RowIds : rows'[r] = IF rows[r].status = "absent" THEN rows[r]
                                   ELSE Dead(NoRow)
  BY DEF TablesDeleted, DeleteFrom, TableInv, TablesTyped
<1>3. Dead(NoJob) \in JobRecords /\ Dead(NoJob).status = "deleted"
  BY StationAssumption DEF JobRecords, JobStatus, Gone, NoJob, Stations
<1>4. Dead(NoRow) \in RowRecords /\ Dead(NoRow).status = "deleted"
  BY StationAssumption DEF RowRecords, RowStatus, Gone, NoRow
<1>5. DOMAIN jobs' = JobIds /\ DOMAIN rows' = RowIds
  BY DEF TablesDeleted, DeleteFrom, TableInv, TablesTyped
<1>6. /\ jobs' = [j \in JobIds |-> jobs'[j]]
      /\ rows' = [r \in RowIds |-> rows'[r]]
  BY <1>5 DEF TablesDeleted, DeleteFrom
<1> HIDE DEF Dead
<1>7. TablesTyped'
  <2>1. \A j \in JobIds : jobs'[j] \in JobRecords
    BY <1>1, <1>3 DEF TableInv, TablesTyped
  <2>2. \A r \in RowIds : rows'[r] \in RowRecords
    BY <1>2, <1>4 DEF TableInv, TablesTyped
  <2>. QED
    BY <1>6, <2>1, <2>2 DEF TableInv, TablesTyped, TablesDeleted
<1>8. \A j \in JobIds : jobs'[j].status = IF jobs[j].status = "absent"
                                          THEN "absent" ELSE "deleted"
  BY <1>1, <1>3 DEF TableInv, TablesTyped
<1>9. \A r \in RowIds : rows'[r].status = IF rows[r].status = "absent"
                                          THEN "absent" ELSE "deleted"
  BY <1>2, <1>4 DEF TableInv, TablesTyped
<1>10. InLine'
  <2>1. ASSUME NEW j \in JobIds, NEW s \in Stations
        PROVE  Positioned(j, s)'
    <3>1. Positioned(j, s)
      BY DEF TableInv, InLine
    <3>2. Row(j, s) \in RowIds
      BY RowFacts
    <3>. QED  BY <1>8, <1>9, <3>1, <3>2 DEF Positioned, Gone
  <2>. QED  BY <2>1 DEF InLine
<1>11. Attempts'
  BY <1>9 DEF Attempts, Decided
<1>. QED  BY <1>7, <1>10, <1>11 DEF TableInv

(* Every kind of step keeps the tables. *)
LEMMA StepKeepsTables ==
    ASSUME TableInv, TableStep
    PROVE  TableInv'
BY KeptKeepsTables, InsertKeepsTables, MoveKeepsTables, StreamKeepsTables,
   DeleteKeepsTables DEF TableStep, QueueStep

-----------------------------------------------------------------------------
(* The barrier: each kind of step keeps one thread in it, and the row a    *)
(* worker holds as it left it.                                             *)

BarrierInv ==
    /\ thread \in [Threads -> ThreadRecords]
    /\ BarrierOne
    /\ Roles
    /\ ResetPointsNowhere
    /\ RowsHeld

(* An idle thread holds nothing. *)
LEMMA IdleFacts ==
    /\ Idle \in ThreadRecords
    /\ Idle.pc = "idle"
    /\ \A x : x.pc = "idle" => Holds(x) /\ Holds(x)'
BY StationAssumption
DEF Idle, ThreadRecords, Pcs, Holds, Busy, Holding, Tried

(* A worker is alone, and is in its new place what the place requires. *)
LEMMA WorkerKeepsBarrier ==
    ASSUME BarrierInv, WorkerMoves
    PROVE  BarrierInv'
<1>0. PICK w \in Workers : \E y : ThreadStep(w, y) /\ WorkerFits(y)
  BY DEF WorkerMoves
<1>1. PICK y : ThreadStep(w, y) /\ WorkerFits(y)
  BY <1>0
<1>2. w \in Threads /\ w \notin Resetters /\ Resetters \subseteq Threads
      /\ Workers \subseteq Threads
  BY StationAssumption DEF Threads
<1>3. \A u \in Threads : thread'[u] = IF u = w THEN y ELSE thread[u]
  BY <1>1, <1>2 DEF ThreadStep, BarrierInv
<1>4. \A u \in Threads : u # w => thread'[u].pc = "idle"
  BY <1>1, <1>3 DEF ThreadStep
<1>5. thread' \in [Threads -> ThreadRecords]
  BY <1>1, <1>2 DEF ThreadStep, BarrierInv
<1>6. BarrierOne'
  BY <1>4 DEF BarrierOne
<1>7. Roles'
  BY <1>1, <1>2, <1>3, <1>4
  DEF Roles, WorkerFits, WorkerPcs, ResetPcs, BarrierInv
<1>9. ResetPointsNowhere'
  BY <1>2, <1>4 DEF ResetPointsNowhere
<1>10. RowsHeld'
  <2>1. ASSUME NEW v \in Workers
        PROVE  Holds(thread[v])'
    <3>1. CASE v = w
      <4>1. thread'[v] = y
        BY <1>2, <1>3, <3>1
      <4>2. Holds(y)'
        BY <1>1 DEF WorkerFits
      <4>. QED  BY <4>1, <4>2 DEF Holds
    <3>2. CASE v # w
      BY <1>2, <1>4, <3>2
      DEF Holds, Busy, Holding, Tried
    <3>. QED  BY <3>1, <3>2
  <2>. QED  BY <2>1 DEF RowsHeld
<1>. QED  BY <1>5, <1>6, <1>7, <1>9, <1>10 DEF BarrierInv

(* A reset is alone, and points nowhere until it is over. *)
LEMMA ResetKeepsBarrier ==
    ASSUME BarrierInv, ResetMoves
    PROVE  BarrierInv'
<1>0. PICK t \in Resetters : \E y : ThreadStep(t, y) /\ ResetFits(y)
  BY DEF ResetMoves
<1>1. PICK y : ThreadStep(t, y) /\ ResetFits(y)
  BY <1>0
<1>2. t \in Threads /\ t \notin Workers /\ Resetters \subseteq Threads
      /\ Workers \subseteq Threads
  BY StationAssumption DEF Threads
<1>3. \A u \in Threads : thread'[u] = IF u = t THEN y ELSE thread[u]
  BY <1>1, <1>2 DEF ThreadStep, BarrierInv
<1>4. \A u \in Threads : u # t => thread'[u].pc = "idle"
  BY <1>1, <1>3 DEF ThreadStep
<1>5. thread' \in [Threads -> ThreadRecords]
  BY <1>1, <1>2 DEF ThreadStep, BarrierInv
<1>6. BarrierOne'
  BY <1>4 DEF BarrierOne
<1>7. Roles'
  BY <1>1, <1>2, <1>3, <1>4
  DEF Roles, ResetFits, WorkerPcs, ResetPcs, BarrierInv
<1>9. ResetPointsNowhere'
  BY <1>1, <1>2, <1>3, <1>4 DEF ResetPointsNowhere, ResetFits
<1>10. RowsHeld'
  <2>1. ASSUME NEW v \in Workers
        PROVE  Holds(thread[v])'
    BY <1>2, <1>4 DEF Holds, Busy, Holding, Tried
  <2>. QED  BY <2>1 DEF RowsHeld
<1>. QED  BY <1>5, <1>6, <1>7, <1>9, <1>10 DEF BarrierInv

(* After a death nobody is in the barrier. *)
LEMMA KillKeepsBarrier ==
    ASSUME AllKilled
    PROVE  BarrierInv'
<1>1. \A t \in Threads : thread'[t] = Idle
  BY DEF AllKilled
<1>2. Workers \subseteq Threads /\ Resetters \subseteq Threads
  BY DEF Threads
<1>3. thread' \in [Threads -> ThreadRecords]
  BY IdleFacts DEF AllKilled
<1>4. \A t \in Threads : thread'[t].pc = "idle"
  BY <1>1, IdleFacts
<1>5. RowsHeld'
  <2>1. ASSUME NEW v \in Workers
        PROVE  Holds(thread[v])'
    BY <1>2, <1>4 DEF Holds, Busy, Holding, Tried
  <2>. QED  BY <2>1 DEF RowsHeld
<1>. QED
  BY <1>2, <1>3, <1>4, <1>5
  DEF BarrierInv, BarrierOne, Roles, ResetPointsNowhere,
      WorkerPcs, ResetPcs

(* A thread that holds no lock may insert a job without touching what the  *)
(* one in the barrier works on.                                            *)
LEMMA OthersKeepBarrier ==
    ASSUME BarrierInv, NoneMoves
    PROVE  BarrierInv'
<1>1. ASSUME NEW v \in Workers
      PROVE  Holds(thread[v])'
  <2> DEFINE x == thread[v]
  <2>1. x' = x /\ Holds(x)
    BY DEF NoneMoves, BarrierInv, RowsHeld
  <2>2. ASSUME x.pc \in Busy
        PROVE  x.row \in RowIds /\ x.row.job \in JobIds
    BY <2>1, <2>2, RowFacts DEF Holds
  <2>3. ASSUME x.pc \in {"selected"} \cup Holding
        PROVE  rows'[x.row] = rows[x.row]
    <3>1. rows[x.row].status # "absent"
      BY <2>1, <2>3 DEF Holds, Waiting
    <3>. QED  BY <2>2, <2>3, <3>1 DEF NoneMoves, Busy
  <2>4. ASSUME x.pc = "finished"
        PROVE  jobs'[x.row.job] = jobs[x.row.job]
    <3>1. jobs[x.row.job].status # "absent"
      BY <2>1, <2>4 DEF Holds, Gone
    <3>. QED  BY <2>2, <2>4, <3>1 DEF NoneMoves, Busy
  <2>5. artifacts' = artifacts
    BY DEF NoneMoves
  <2> HIDE DEF x
  <2>6. Holds(x)'
    BY <2>1, <2>2, <2>3, <2>4, <2>5 DEF Holds, Holding, Tried, Busy
  <2>. QED  BY <2>6 DEF x
<1>2. RowsHeld'
  BY <1>1 DEF RowsHeld
<1>. QED
  BY <1>2 DEF BarrierInv, NoneMoves, BarrierOne, Roles,
              ResetPointsNowhere

\* Guard and barrier keep their invariant whoever of worker, reset or kill steps.
LEMMA StepKeepsBarrier ==
    ASSUME BarrierInv, BarrierStep
    PROVE  BarrierInv'
BY WorkerKeepsBarrier, ResetKeepsBarrier, KillKeepsBarrier, OthersKeepBarrier
DEF BarrierStep

-----------------------------------------------------------------------------
(* A job that is there stays, with its version, while no reset deletes.    *)
LEMMA JobsStay ==
    ASSUME TablesTyped, QueueStep, NEW j \in JobIds, jobs[j].status \notin Gone
    PROVE  jobs'[j].status \notin Gone /\ jobs'[j].version = jobs[j].version
<1>1. CASE TablesKept
  BY <1>1 DEF TablesKept
<1>2. ASSUME NEW i \in JobIds, NEW y, Inserted(i, y)
      PROVE  jobs'[j] = jobs[j]
  BY <1>2 DEF Inserted, TablesTyped, Gone
<1>3. ASSUME NEW r, NEW y, JobMoves(r, y)
      PROVE  jobs'[j].status \notin Gone /\ jobs'[j].version = jobs[j].version
  BY <1>3 DEF JobMoves, TablesTyped
<1>. QED  BY <1>1, <1>2, <1>3 DEF QueueStep, RowMoves, RowStreams

(* The active data version goes with its job. *)
LEMMA StepKeepsActive ==
    ASSUME TablesTyped, ActiveIsCurrent, ActiveStep
    PROVE  ActiveIsCurrent'
BY JobsStay DEF ActiveStep, ActiveIsCurrent

(* A thread out of its idle place is alone in the barrier. *)
LEMMA Alone ==
    ASSUME BarrierOne, NEW t \in Threads, thread[t].pc # "idle"
    PROVE  \A u \in Threads : u # t => thread[u].pc = "idle"
BY DEF BarrierOne

(* The updates of a thread: it moves on, takes a row, reads the attempts. *)
Goes(x, p)     == [x EXCEPT !.pc = p]
Takes(x, p, r) == [[x EXCEPT !.pc = p] EXCEPT !.row = r]
Reads(x, p, n) == [[x EXCEPT !.pc = p] EXCEPT !.attempts = n]

(* Each changes what it says and nothing else.                             *)
LEMMA GoesFacts ==
    ASSUME NEW x \in ThreadRecords, NEW p \in Pcs
    PROVE  /\ Goes(x, p) \in ThreadRecords
           /\ Goes(x, p).pc = p /\ Goes(x, p).row = x.row
           /\ Goes(x, p).attempts = x.attempts
BY DEF Goes, ThreadRecords

\* Taking a row changes the program counter and the row of a thread only.
LEMMA TakesFacts ==
    ASSUME NEW x \in ThreadRecords, NEW p \in Pcs, NEW r \in RowIds
    PROVE  /\ Takes(x, p, r) \in ThreadRecords
           /\ Takes(x, p, r).pc = p /\ Takes(x, p, r).row = r
<1>1. Takes(x, p, r) = [Goes(x, p) EXCEPT !.row = r]
  BY DEF Takes, Goes
<1>. QED  BY <1>1, GoesFacts DEF ThreadRecords

\* Reading the attempts of a row changes nothing else of the thread but its counter.
LEMMA ReadsFacts ==
    ASSUME NEW x \in ThreadRecords, NEW p \in Pcs, NEW n \in 0..MaxAttempts
    PROVE  /\ Reads(x, p, n) \in ThreadRecords
           /\ Reads(x, p, n).pc = p /\ Reads(x, p, n).row = x.row
           /\ Reads(x, p, n).attempts = n
<1>1. Reads(x, p, n) = [Goes(x, p) EXCEPT !.attempts = n]
  BY DEF Reads, Goes
<1>. QED  BY <1>1, GoesFacts DEF ThreadRecords

-----------------------------------------------------------------------------
(* Every action is a step of these kinds.                                  *)

StepOf == RestTyped' /\ TableStep /\ BarrierStep /\ ActiveStep

(* The parts of the invariant. *)
LEMMA IInvParts ==
    IInv <=> TableInv /\ BarrierInv /\ RestTyped /\ ActiveIsCurrent
BY TypeRecords DEF IInv, TableInv, TablesTyped, BarrierInv, RestTyped

(* A worker in the barrier goes on. *)
LEMMA WorkerGoesOn ==
    ASSUME IInv, NEW w \in Workers, thread[w].pc # "idle",
           NEW y \in ThreadRecords,
           y.pc \in WorkerPcs, Holds(y)',
           thread' = [thread EXCEPT ![w] = y]
    PROVE  BarrierStep
<1>1. w \in Threads
  BY DEF Threads
<1>2. ThreadStep(w, y)
  BY <1>1, Alone DEF ThreadStep, IInv
<1>3. WorkerFits(y)
  BY DEF WorkerFits
<1>. QED  BY <1>2, <1>3 DEF BarrierStep, WorkerMoves

(* A thread leaves the barrier. *)
LEMMA ThreadLeaves ==
    ASSUME IInv, NEW t \in Threads, thread[t].pc # "idle",
           thread' = [thread EXCEPT ![t] = Idle]
    PROVE  BarrierStep
<1>1. ThreadStep(t, Idle)
  BY Alone, IdleFacts DEF ThreadStep, IInv
<1>2. WorkerFits(Idle)
  BY IdleFacts DEF WorkerFits, WorkerPcs
<1>3. ResetFits(Idle)
  BY IdleFacts DEF ResetFits, ResetPcs
<1>. QED
  BY <1>1, <1>2, <1>3 DEF BarrierStep, WorkerMoves, ResetMoves, Threads

(* Nothing but threads and artifacts changed. *)
LEMMA TablesStay ==
    ASSUME IInv, jobs' = jobs, rows' = rows, artifacts' = artifacts
    PROVE  TablesKept /\ QueueStep /\ TableStep
BY IInvParts DEF TablesKept, QueueStep, TableStep, TableInv, TablesTyped

(* The active data version is as it was. *)
LEMMA ActiveStays ==
    ASSUME QueueStep, generation'.active = generation.active
    PROVE  ActiveStep /\ TableStep
BY DEF ActiveStep, TableStep

(* An import remembers its data version and the generation it began in. *)
LEMMA ImportBeginsStep ==
    ASSUME IInv, NEW c \in Clients, NEW d \in DataVersions, ImportBegins(c, d)
    PROVE  StepOf
<1>1. RestTyped
  BY IInvParts
<1>2. [pc |-> "importing", version |-> d, gen |-> generation.seq]
         \in ClientRecords
  BY <1>1 DEF RestTyped, GenRecords, ClientRecords
<1>3. client' \in [Clients -> ClientRecords]
  BY <1>1, <1>2 DEF ImportBegins, RestTyped
<1>4. RestTyped'
  BY <1>1, <1>3 DEF ImportBegins, RestTyped
<1>5. QueueStep
  BY TablesStay DEF ImportBegins
<1>6. BarrierStep
  BY DEF BarrierStep, NoneMoves, ImportBegins
<1>. QED  BY <1>4, <1>5, <1>6, ActiveStays DEF StepOf, ImportBegins

\* EnqueueCheck, the look for an active job, is of the kinds that keep the invariant.
LEMMA EnqueueCheckStep ==
    ASSUME IInv, NEW c \in Clients, EnqueueCheck(c)
    PROVE  StepOf
<1>1. RestTyped
  BY IInvParts
<1>2. NoCall \in ClientRecords /\ [client[c] EXCEPT !.pc = "checked"] \in ClientRecords
  BY <1>1, StationAssumption DEF RestTyped, ClientRecords, NoCall
<1>3. client' \in [Clients -> ClientRecords]
  <2>1. PICK b \in BOOLEAN :
          client' = [client EXCEPT ![c] =
                       IF b THEN NoCall ELSE [client[c] EXCEPT !.pc = "checked"]]
    BY DEF EnqueueCheck
  <2>. QED  BY <1>1, <1>2, <2>1 DEF RestTyped
<1>4. RestTyped'
  BY <1>1, <1>3 DEF EnqueueCheck, RestTyped
<1>5. QueueStep
  BY TablesStay DEF EnqueueCheck
<1>6. BarrierStep
  BY DEF BarrierStep, NoneMoves, EnqueueCheck
<1>. QED  BY <1>4, <1>5, <1>6, ActiveStays DEF StepOf, EnqueueCheck

(* The first absent job is inserted; no row of it was there. *)
LEMMA EnqueueInsertStep ==
    ASSUME IInv, NEW c \in Clients, EnqueueInsert(c)
    PROVE  StepOf
<1>1. RestTyped /\ TableInv
  BY IInvParts
<1> DEFINE y == [status |-> "queued", station |-> 1,
                 version |-> client[c].version]
<1>2. PICK j \in JobIds :
         /\ \A i \in JobIds : jobs[i].status = "absent" <=> i >= j
         /\ jobs' = [jobs EXCEPT ![j] = y]
         /\ rows' = [rows EXCEPT ![Row(j, 1)] = NewRow]
  BY DEF EnqueueInsert
<1>3. j \in Nat /\ jobs[j].status = "absent"
  BY <1>2, StationAssumption DEF JobIds
<1>4. client[c] \in ClientRecords
  BY <1>1 DEF RestTyped
<1>5. y \in JobRecords /\ y.status = "queued" /\ y.station = 1
  BY <1>4, StationFacts DEF JobRecords, ClientRecords, JobStatus, Active
<1>6. NoCall \in ClientRecords
  BY StationAssumption DEF ClientRecords, NoCall
<1>7. RestTyped'
  BY <1>1, <1>6 DEF EnqueueInsert, RestTyped
<1> HIDE DEF y
<1>8. Inserted(j, y)
  BY <1>2, <1>3, <1>5 DEF Inserted, EnqueueInsert
<1>9. Row(j, 1) \in RowIds /\ rows[Row(j, 1)].status = "absent"
  <2>1. Positioned(j, 1)
    BY <1>1, StationFacts DEF TableInv, InLine
  <2>. QED  BY <1>3, <2>1, RowFacts, StationFacts DEF Positioned
<1>10. NoneMoves
  BY <1>1, <1>2, <1>3, <1>9
  DEF NoneMoves, EnqueueInsert, TableInv, TablesTyped
<1>11. QueueStep
  BY <1>8 DEF QueueStep
<1>. QED
  BY <1>7, <1>10, <1>11, ActiveStays DEF StepOf, BarrierStep, EnqueueInsert

(* A worker that enters the barrier finds nobody in it. *)
LEMMA GuardEnterStep ==
    ASSUME IInv, NEW w \in Workers, GuardEnter(w)
    PROVE  StepOf
<1>1. RestTyped
  BY IInvParts
<1> DEFINE y == [Idle EXCEPT !.pc = "guarded"]
<1>2. y \in ThreadRecords /\ y.pc = "guarded"
  BY IdleFacts DEF ThreadRecords, Pcs
<1>3. Holds(y)'
  BY <1>2 DEF Holds, Busy, Holding, Tried
<1> HIDE DEF y
<1>4. ThreadStep(w, y)
  BY <1>2 DEF ThreadStep, GuardEnter, BarrierFree, y
<1>5. WorkerFits(y)
  BY <1>2, <1>3 DEF WorkerFits, WorkerPcs, GuardEnter
<1>6. BarrierStep
  BY <1>4, <1>5 DEF BarrierStep, WorkerMoves
<1>7. QueueStep /\ ActiveStep /\ TableStep
  BY TablesStay, ActiveStays DEF GuardEnter
<1>. QED  BY <1>1, <1>6, <1>7 DEF StepOf, RestTyped, GuardEnter

(* The selected row waits. *)
LEMMA ClaimSelectStep ==
    ASSUME IInv, NEW w \in Workers, ClaimSelect(w)
    PROVE  StepOf
<1>1. RestTyped /\ BarrierInv /\ w \in Threads
  BY IInvParts DEF Threads
<1>2. PICK r \in RowIds :
         /\ rows[r].status \in Waiting
         /\ thread' = [thread EXCEPT ![w].pc = "selected", ![w].row = r]
  BY DEF ClaimSelect
<1>z. PICK y : y = Takes(thread[w], "selected", r)
  OBVIOUS
<1>t. thread' = [thread EXCEPT ![w] = y]
  BY <1>1, <1>2, <1>z DEF Takes, BarrierInv
<1>3. thread[w].attempts \in 0..MaxAttempts /\ "selected" \in Pcs
  BY <1>1 DEF BarrierInv, ThreadRecords, Pcs
<1>4. /\ y \in ThreadRecords /\ y.pc = "selected" /\ y.row = r
  BY <1>1, <1>2, <1>3, <1>z, TakesFacts DEF BarrierInv
<1>5. Holds(y)'
  BY <1>2, <1>4 DEF Holds, Busy, Holding, Tried, ClaimSelect
<1>6. BarrierStep
  BY <1>1, <1>4, <1>5, <1>t, WorkerGoesOn DEF ClaimSelect, WorkerPcs, Busy
<1>7. QueueStep /\ ActiveStep /\ TableStep
  BY TablesStay, ActiveStays DEF ClaimSelect
<1>. QED  BY <1>1, <1>6, <1>7 DEF StepOf, RestTyped, ClaimSelect

\* NothingToClaim, a claim on an empty queue, is of the kinds that keep the invariant.
LEMMA NothingToClaimStep ==
    ASSUME IInv, NEW w \in Workers, NothingToClaim(w)
    PROVE  StepOf
<1>1. RestTyped /\ w \in Threads
  BY IInvParts DEF Threads
<1>2. BarrierStep
  BY <1>1, ThreadLeaves DEF NothingToClaim
<1>3. QueueStep /\ ActiveStep /\ TableStep
  BY TablesStay, ActiveStays DEF NothingToClaim
<1>. QED  BY <1>1, <1>2, <1>3 DEF StepOf, RestTyped, NothingToClaim

(* What a worker holds as it goes on, and that the row is its job's. *)
LEMMA HeldRow ==
    ASSUME IInv, NEW w \in Workers, thread[w].pc \in {"selected"} \cup Holding
    PROVE  LET r == thread[w].row IN
           /\ w \in Threads
           /\ thread[w] \in ThreadRecords
           /\ r \in RowIds
           /\ r.job \in JobIds
           /\ r.station \in Stations
           /\ rows[r] \in RowRecords
           /\ jobs[r.job] \in JobRecords
           /\ rows[r].status \in Waiting \cup {"running"}
           /\ Decided(rows[r])
           /\ AtStation(r)
           /\ Holds(thread[w])
<1>1. /\ w \in Threads /\ thread[w] \in ThreadRecords /\ Holds(thread[w])
      /\ TablesTyped /\ InLine /\ Attempts /\ TypeOK
  BY IInvParts DEF Threads, IInv, TableInv, RowsHeld, BarrierInv
<1>2. thread[w].row \in RowIds
  BY <1>1 DEF Holds, Busy
<1>3. rows[thread[w].row].status \in Waiting \cup {"running"}
  BY <1>1 DEF Holds
<1>. QED
  BY <1>1, <1>2, <1>3, RowFacts, OpenRowIsCurrent DEF TablesTyped, Attempts

(* The claimed row runs, and one more attempt is counted. *)
LEMMA ClaimUpdateStep ==
    ASSUME IInv, NEW w \in Workers, ClaimUpdate(w)
    PROVE  StepOf
<1> DEFINE r == thread[w].row
           x == Claimed(r)
           y == [[jobs[r.job] EXCEPT !.status = "running"]
                              EXCEPT !.station = r.station]
<1>z. PICK z : z = Goes(thread[w], "claimed")
  OBVIOUS
<1>t. thread' = [thread EXCEPT ![w] = z]
  BY <1>z DEF Goes, ClaimUpdate
<1>1. RestTyped /\ BarrierInv /\ TableInv
  BY IInvParts
<1>2. /\ w \in Threads /\ thread[w] \in ThreadRecords
      /\ r \in RowIds /\ r.job \in JobIds /\ r.station \in Stations
      /\ rows[r] \in RowRecords /\ jobs[r.job] \in JobRecords
      /\ Decided(rows[r]) /\ AtStation(r) /\ rows[r].status \in Waiting
  BY HeldRow DEF ClaimUpdate, Holds
<1>3. rows[r].attempts \in Nat /\ rows[r].attempts < MaxAttempts
  BY <1>2, StationAssumption DEF Decided, Waiting, RowRecords
<1>4. x \in RowRecords /\ x.status = "running"
  <2> DEFINE u == [rows[r] EXCEPT !.status = "running"]
  <2>1. u \in RowRecords /\ u.status = "running"
        /\ u.attempts = rows[r].attempts
    BY <1>2 DEF RowRecords, RowStatus
  <2>2. rows[r].attempts + 1 \in 0..MaxAttempts
    BY <1>3, StationAssumption
  <2>3. x = [u EXCEPT !.attempts = rows[r].attempts + 1]
    BY <2>1 DEF Claimed
  <2> HIDE DEF u
  <2>. QED  BY <2>1, <2>2, <2>3 DEF RowRecords
<1>5. /\ y \in JobRecords /\ y.status = "running" /\ y.station = r.station
      /\ y.version = jobs[r.job].version
  BY <1>2 DEF JobRecords, JobStatus, Active
<1>6. jobs' = [jobs EXCEPT ![r.job] = y]
  BY <1>1, <1>2 DEF ClaimUpdate, TableInv, TablesTyped
<1>7. rows' = [rows EXCEPT ![r] = x] /\ rows'[r] = x
  BY <1>1, <1>2 DEF ClaimUpdate, TableInv, TablesTyped
<1>8. /\ z \in ThreadRecords /\ z.pc = "claimed" /\ z.row = r
  <2>1. thread[w].attempts \in 0..MaxAttempts /\ "claimed" \in Pcs
    BY <1>2 DEF ThreadRecords, Pcs
  <2>. QED  BY <1>1, <1>2, <2>1, <1>z, GoesFacts DEF BarrierInv
<1> HIDE DEF x, y, r
<1>9. RowMoves(r, x, y)
  <2>1. JobMoves(r, y)
    BY <1>2, <1>5, <1>6 DEF JobMoves, Gone
  <2>2. Decided(x)
    BY <1>4 DEF Decided
  <2>. QED
    BY <1>4, <1>5, <1>7, <2>1, <2>2 DEF RowMoves, Gone, ClaimUpdate
<1>10. Holds(z)'
  BY <1>2, <1>4, <1>7, <1>8 DEF Holds, Busy, Holding, Tried
<1>11. BarrierStep
  BY <1>8, <1>10, <1>t, WorkerGoesOn DEF ClaimUpdate, WorkerPcs, Busy, Holding
<1>12. QueueStep /\ ActiveStep /\ TableStep
  BY <1>9, ActiveStays DEF QueueStep, ClaimUpdate
<1>. QED  BY <1>1, <1>11, <1>12 DEF StepOf, RestTyped, ClaimUpdate

(* The attempts read are those of the row. *)
LEMMA ClaimRereadStep ==
    ASSUME IInv, NEW w \in Workers, ClaimReread(w)
    PROVE  StepOf
<1> DEFINE r == thread[w].row
           n == rows[r].attempts
<1>z. PICK z : z = Reads(thread[w], "running", n)
  OBVIOUS
<1>t. thread' = [thread EXCEPT ![w] = z]
  BY <1>z DEF Reads, ClaimReread
<1>1. RestTyped /\ BarrierInv
  BY IInvParts
<1>2. /\ w \in Threads /\ thread[w] \in ThreadRecords /\ r \in RowIds
      /\ rows[r] \in RowRecords /\ rows[r].status = "running"
  BY HeldRow DEF ClaimReread, Holds, Holding
<1>3. n \in 0..MaxAttempts /\ "running" \in Pcs
  BY <1>2 DEF RowRecords, Pcs
<1>4. /\ z \in ThreadRecords /\ z.pc = "running" /\ z.row = r
      /\ z.attempts = n
  BY <1>1, <1>2, <1>3, <1>z, ReadsFacts DEF BarrierInv
<1>5. Holds(z)'
  BY <1>2, <1>4 DEF Holds, Busy, Holding, Tried, ClaimReread
<1>6. BarrierStep
  BY <1>4, <1>5, <1>t, WorkerGoesOn DEF ClaimReread, WorkerPcs, Busy, Holding, Tried
<1>7. QueueStep /\ ActiveStep /\ TableStep
  BY TablesStay, ActiveStays DEF ClaimReread
<1>. QED  BY <1>1, <1>6, <1>7 DEF StepOf, RestTyped, ClaimReread

(* The output of the station is recorded. *)
LEMMA StationSucceedsStep ==
    ASSUME IInv, NEW w \in Workers, StationSucceeds(w)
    PROVE  StepOf
<1> DEFINE r == thread[w].row
<1>z. PICK z : z = Goes(thread[w], "recorded")
  OBVIOUS
<1>t. thread' = [thread EXCEPT ![w] = z]
  BY <1>z DEF Goes, StationSucceeds
<1>1. RestTyped /\ BarrierInv /\ TableInv
  BY IInvParts
<1>2. /\ w \in Threads /\ thread[w] \in ThreadRecords /\ r \in RowIds
      /\ r.job \in JobIds /\ r.station \in Stations
      /\ rows[r].status = "running" /\ rows[r].attempts = thread[w].attempts
  BY HeldRow DEF StationSucceeds, Holds, Holding, Tried
<1>3. thread[w].attempts \in 0..MaxAttempts /\ "recorded" \in Pcs
  BY <1>2 DEF ThreadRecords, Pcs
<1>4. /\ z \in ThreadRecords /\ z.pc = "recorded" /\ z.row = r
      /\ z.attempts = thread[w].attempts
  BY <1>1, <1>2, <1>3, <1>z, GoesFacts DEF BarrierInv
<1>5. <<r.job, r.station>> \in artifacts'
  BY DEF StationSucceeds
<1>6. artifacts' \in SUBSET (JobIds \X Stations) /\ artifacts \subseteq artifacts'
  BY <1>1, <1>2 DEF StationSucceeds, TableInv, TablesTyped
<1>7. Holds(z)'
  BY <1>2, <1>4, <1>5 DEF Holds, Busy, Holding, Tried, StationSucceeds
<1>8. BarrierStep
  BY <1>4, <1>7, <1>t, WorkerGoesOn
  DEF StationSucceeds, WorkerPcs, Busy, Holding, Tried
<1>9. QueueStep /\ ActiveStep /\ TableStep
  BY <1>6, ActiveStays DEF QueueStep, TablesKept, StationSucceeds
<1>. QED  BY <1>1, <1>8, <1>9 DEF StepOf, RestTyped, StationSucceeds

\* StationFails, the exception of a station, is of the kinds that keep the invariant.
LEMMA StationFailsStep ==
    ASSUME IInv, NEW w \in Workers, StationFails(w)
    PROVE  StepOf
<1> DEFINE r == thread[w].row
<1>z. PICK z : z = Goes(thread[w], "failing")
  OBVIOUS
<1>t. thread' = [thread EXCEPT ![w] = z]
  BY <1>z DEF Goes, StationFails
<1>1. RestTyped /\ BarrierInv
  BY IInvParts
<1>2. /\ w \in Threads /\ thread[w] \in ThreadRecords /\ r \in RowIds
      /\ rows[r].status = "running" /\ rows[r].attempts = thread[w].attempts
  BY HeldRow DEF StationFails, Holds, Holding, Tried
<1>3. thread[w].attempts \in 0..MaxAttempts /\ "failing" \in Pcs
  BY <1>2 DEF ThreadRecords, Pcs
<1>4. /\ z \in ThreadRecords /\ z.pc = "failing" /\ z.row = r
      /\ z.attempts = thread[w].attempts
  BY <1>1, <1>2, <1>3, <1>z, GoesFacts DEF BarrierInv
<1>5. Holds(z)'
  BY <1>2, <1>4 DEF Holds, Busy, Holding, Tried, StationFails
<1>6. BarrierStep
  BY <1>4, <1>5, <1>t, WorkerGoesOn DEF StationFails, WorkerPcs, Busy, Holding, Tried
<1>7. QueueStep /\ ActiveStep /\ TableStep
  BY TablesStay, ActiveStays DEF StationFails
<1>. QED  BY <1>1, <1>6, <1>7 DEF StepOf, RestTyped, StationFails

(* The completed row gives way to the row of the next station. *)
LEMMA FinishAndStreamStep ==
    ASSUME IInv, NEW w \in Workers, FinishAndStream(w)
    PROVE  StepOf
<1> DEFINE r == thread[w].row
           x == Streamed(r)
           y == [[jobs[r.job] EXCEPT !.status = "running"]
                              EXCEPT !.station = r.station + 1]
<1>z. PICK z : z = Goes(thread[w], "finished")
  OBVIOUS
<1>t. thread' = [thread EXCEPT ![w] = z]
  BY <1>z DEF Goes, FinishAndStream
<1>1. RestTyped /\ BarrierInv /\ TableInv
  BY IInvParts
<1>2. /\ w \in Threads /\ thread[w] \in ThreadRecords
      /\ r \in RowIds /\ r.job \in JobIds /\ r.station \in Stations
      /\ rows[r] \in RowRecords /\ jobs[r.job] \in JobRecords
      /\ AtStation(r) /\ <<r.job, r.station>> \in artifacts
  BY HeldRow DEF FinishAndStream, Holds, Holding, Tried
<1>3. r.station + 1 \in Stations
  BY <1>2, StationFacts DEF FinishAndStream
<1>4. x \in RowRecords /\ x.status = "completed"
  BY <1>2 DEF Streamed, RowRecords, RowStatus
<1>5. /\ y \in JobRecords /\ y.status = "running"
      /\ y.station = r.station + 1 /\ y.version = jobs[r.job].version
  BY <1>2, <1>3 DEF JobRecords, JobStatus, Active
<1>6. jobs' = [jobs EXCEPT ![r.job] = y] /\ jobs'[r.job] = y
  BY <1>1, <1>2 DEF FinishAndStream, TableInv, TablesTyped
<1>7. /\ z \in ThreadRecords /\ z.pc = "finished" /\ z.row = r
  <2>1. thread[w].attempts \in 0..MaxAttempts /\ "finished" \in Pcs
    BY <1>2 DEF ThreadRecords, Pcs
  <2>. QED  BY <1>1, <1>2, <2>1, <1>z, GoesFacts DEF BarrierInv
<1>8. rows' = [rows EXCEPT ![r] = x, ![Row(r.job, r.station + 1)] = NewRow]
  BY DEF FinishAndStream
<1> HIDE DEF x, y
<1>9. RowStreams(r, x, y)
  <2>1. JobMoves(r, y)
    BY <1>2, <1>5, <1>6 DEF JobMoves, Gone
  <2>. QED
    BY <1>2, <1>4, <1>5, <1>8, <2>1 DEF RowStreams, FinishAndStream
<1>10. Holds(z)'
  BY <1>2, <1>5, <1>6, <1>7 DEF Holds, Busy, Holding, Tried, Gone
<1>11. BarrierStep
  BY <1>7, <1>10, <1>t, WorkerGoesOn DEF FinishAndStream, WorkerPcs, Busy
<1>12. QueueStep /\ ActiveStep /\ TableStep
  BY <1>9, ActiveStays DEF QueueStep, FinishAndStream
<1>. QED  BY <1>1, <1>11, <1>12 DEF StepOf, RestTyped, FinishAndStream

(* The completed row completes its job. *)
LEMMA FinishAndEndStep ==
    ASSUME IInv, NEW w \in Workers, FinishAndEnd(w)
    PROVE  StepOf
<1> DEFINE r == thread[w].row
           x == [rows[r] EXCEPT !.status = "completed"]
           y == [[jobs[r.job] EXCEPT !.status = "completed"]
                              EXCEPT !.station = r.station]
<1>z. PICK z : z = Goes(thread[w], "finished")
  OBVIOUS
<1>t. thread' = [thread EXCEPT ![w] = z]
  BY <1>z DEF Goes, FinishAndEnd
<1>1. RestTyped /\ BarrierInv /\ TableInv
  BY IInvParts
<1>2. /\ w \in Threads /\ thread[w] \in ThreadRecords
      /\ r \in RowIds /\ r.job \in JobIds /\ r.station \in Stations
      /\ rows[r] \in RowRecords /\ jobs[r.job] \in JobRecords
      /\ AtStation(r)
  BY HeldRow DEF FinishAndEnd, Holds, Holding, Tried
<1>3. x \in RowRecords /\ x.status = "completed"
  BY <1>2 DEF RowRecords, RowStatus
<1>4. /\ y \in JobRecords /\ y.status = "completed"
      /\ y.station = r.station /\ y.version = jobs[r.job].version
  BY <1>2 DEF JobRecords, JobStatus
<1>5. jobs' = [jobs EXCEPT ![r.job] = y] /\ jobs'[r.job] = y
  BY <1>1, <1>2 DEF FinishAndEnd, TableInv, TablesTyped
<1>6. /\ z \in ThreadRecords /\ z.pc = "finished" /\ z.row = r
  <2>1. thread[w].attempts \in 0..MaxAttempts /\ "finished" \in Pcs
    BY <1>2 DEF ThreadRecords, Pcs
  <2>. QED  BY <1>1, <1>2, <2>1, <1>z, GoesFacts DEF BarrierInv
<1>7. rows' = [rows EXCEPT ![r] = x]
  BY <1>1, <1>2 DEF FinishAndEnd, TableInv, TablesTyped
<1> HIDE DEF x, y
<1>8. RowMoves(r, x, y)
  <2>1. JobMoves(r, y)
    BY <1>2, <1>4, <1>5 DEF JobMoves, Gone
  <2>2. Decided(x)
    BY <1>3 DEF Decided
  <2>. QED  BY <1>3, <1>4, <1>7, <2>1, <2>2 DEF RowMoves, FinishAndEnd, Gone
<1>9. Holds(z)'
  BY <1>2, <1>4, <1>5, <1>6 DEF Holds, Busy, Holding, Tried, Gone
<1>10. BarrierStep
  BY <1>6, <1>9, <1>t, WorkerGoesOn DEF FinishAndEnd, WorkerPcs, Busy
<1>11. QueueStep /\ ActiveStep /\ TableStep
  BY <1>8, ActiveStays DEF QueueStep, FinishAndEnd
<1>. QED  BY <1>1, <1>10, <1>11 DEF StepOf, RestTyped, FinishAndEnd

(* The active version is that of the job the worker finished a row of. *)
LEMMA MarkActiveStep ==
    ASSUME IInv, NEW w \in Workers, MarkActive(w)
    PROVE  StepOf
<1> DEFINE j == thread[w].row.job
<1>1. RestTyped /\ TableInv /\ w \in Threads
  BY IInvParts DEF Threads
<1>2. j \in JobIds /\ jobs[j].status \notin Gone
  <2>1. Holds(thread[w])
    BY DEF IInv, RowsHeld
  <2>. QED  BY <2>1, RowFacts DEF Holds, MarkActive, Busy
<1>3. jobs[j] \in JobRecords
  BY <1>1, <1>2 DEF TableInv, TablesTyped
<1> HIDE DEF j
<1>7. BarrierStep
  BY <1>1, ThreadLeaves DEF MarkActive
<1>8. TableStep
  BY TablesStay DEF MarkActive
<1>4. CASE generation.state = "failed"
  <2>1. generation' = generation /\ RestTyped'
    BY <1>1, <1>4 DEF RestTyped, MarkActive
  <2>2. QueueStep
    BY TablesStay DEF MarkActive
  <2>. QED  BY <1>7, <1>8, <2>1, <2>2, ActiveStays DEF StepOf
<1>5. CASE generation.state # "failed"
  <2>1. generation' = [[generation EXCEPT !.state = "active"]
                          EXCEPT !.active = jobs[j].version]
    BY <1>1, <1>5 DEF MarkActive, RestTyped, GenRecords, j
  <2>2. generation' \in GenRecords /\ generation'.active = jobs[j].version
    BY <1>1, <1>3, <2>1 DEF RestTyped, GenRecords, JobRecords, Writable, States
  <2>3. RestTyped'
    BY <1>1, <2>2 DEF RestTyped, MarkActive
  <2>4. ActiveStep
    BY <1>2, <2>2 DEF ActiveStep, MarkActive
  <2>. QED  BY <1>7, <1>8, <2>3, <2>4 DEF StepOf
<1>. QED  BY <1>4, <1>5

(* The attempts decide between another try and the end of row and job. *)
LEMMA FailCommitStep ==
    ASSUME IInv, NEW w \in Workers, FailCommit(w)
    PROVE  StepOf
<1> DEFINE r == thread[w].row
           n == thread[w].attempts
           x == [rows[r] EXCEPT !.status = FailureStatus(n)]
           y == [jobs[r.job] EXCEPT !.status = JobAfter(FailureStatus(n))]
<1>1. RestTyped /\ BarrierInv /\ TableInv
  BY IInvParts
<1>2. /\ w \in Threads /\ n \in 0..MaxAttempts
      /\ r \in RowIds /\ r.job \in JobIds /\ r.station \in Stations
      /\ rows[r] \in RowRecords /\ jobs[r.job] \in JobRecords
      /\ AtStation(r) /\ rows[r].attempts = n
  BY HeldRow DEF FailCommit, Holds, Holding, Tried, ThreadRecords
<1>3. /\ FailureStatus(n) \in {"retry", "failed"}
      /\ FailureStatus(n) = "retry" => n < MaxAttempts
      /\ FailureStatus(n) = "failed" => n = MaxAttempts
  BY <1>2, FailureDecides
<1>4. /\ x \in RowRecords /\ x.status = FailureStatus(n)
      /\ x.attempts = n
  BY <1>2, <1>3 DEF RowRecords, RowStatus, Waiting
<1>5. /\ JobAfter(FailureStatus(n)) \in {"failed", "running"}
      /\ JobAfter(FailureStatus(n)) = "failed" <=> FailureStatus(n) = "failed"
  BY <1>3 DEF JobAfter
<1>6. /\ y \in JobRecords /\ y.status = JobAfter(FailureStatus(n))
      /\ y.station = r.station /\ y.version = jobs[r.job].version
  BY <1>2, <1>5 DEF JobRecords, JobStatus, Active, AtStation
<1>7. jobs' = [jobs EXCEPT ![r.job] = y]
  BY DEF FailCommit
<1>8. rows' = [rows EXCEPT ![r] = x]
  BY DEF FailCommit
<1> HIDE DEF x, y
<1>9. RowMoves(r, x, y)
  <2>1. JobMoves(r, y)
    BY <1>2, <1>5, <1>6, <1>7 DEF JobMoves, Gone
  <2>2. Decided(x)
    BY <1>3, <1>4 DEF Decided
  <2>. QED
    BY <1>3, <1>4, <1>5, <1>6, <1>8, <2>1, <2>2 DEF RowMoves, FailCommit, Gone
<1>10. BarrierStep
  BY <1>2, ThreadLeaves DEF FailCommit
<1>11. QueueStep /\ ActiveStep /\ TableStep
  BY <1>9, ActiveStays DEF QueueStep, FailCommit
<1>. QED  BY <1>1, <1>10, <1>11 DEF StepOf, RestTyped, FailCommit

(* A reset enters the barrier alone and clears the active version. *)
LEMMA ResetBeginStep ==
    ASSUME IInv, NEW t \in Resetters, ResetBegin(t)
    PROVE  StepOf
<1>1. RestTyped
  BY IInvParts
<1> DEFINE y == [Idle EXCEPT !.pc = "rotated"]
<1>2. y \in ThreadRecords /\ y.pc = "rotated"
  BY IdleFacts DEF ThreadRecords, Pcs
<1>3. generation' \in GenRecords /\ generation'.active = None
  BY <1>1, StationAssumption DEF ResetBegin, Rotated, RestTyped, GenRecords, States
<1> HIDE DEF y
<1>4. ThreadStep(t, y)
  BY <1>2 DEF ThreadStep, ResetBegin, BarrierFree, y
<1>5. ResetFits(y)
  BY <1>2, <1>3 DEF ResetFits, ResetPcs
<1>6. BarrierStep
  BY <1>4, <1>5 DEF BarrierStep, ResetMoves
<1>7. TableStep
  BY TablesStay DEF ResetBegin
<1>8. ActiveStep
  BY <1>3 DEF ActiveStep
<1>. QED  BY <1>1, <1>3, <1>6, <1>7, <1>8 DEF StepOf, RestTyped, ResetBegin

(* The tables are deleted while nothing is active. *)
LEMMA ResetDeleteStep ==
    ASSUME IInv, NEW t \in Resetters, ResetDelete(t)
    PROVE  StepOf
<1>z. PICK z : z = Goes(thread[t], "deleted")
  OBVIOUS
<1>t. thread' = [thread EXCEPT ![t] = z]
  BY <1>z DEF Goes, ResetDelete
<1>1. RestTyped /\ BarrierInv /\ t \in Threads
  BY IInvParts DEF Threads
<1>2. generation.active = None
  BY DEF IInv, ResetPointsNowhere, ResetDelete
<1>3. /\ thread[t].attempts \in 0..MaxAttempts /\ "deleted" \in Pcs
      /\ thread[t].row \in RowIds \cup {None}
  BY <1>1 DEF BarrierInv, ThreadRecords, Pcs
<1>4. /\ z \in ThreadRecords /\ z.pc = "deleted"
  BY <1>1, <1>3, <1>z, GoesFacts DEF BarrierInv
<1>5. ThreadStep(t, z)
  BY <1>1, <1>4, <1>t, Alone DEF ThreadStep, IInv, ResetDelete
<1>6. ResetFits(z)
  BY <1>2, <1>4 DEF ResetFits, ResetPcs, ResetDelete
<1>7. BarrierStep
  BY <1>5, <1>6 DEF BarrierStep, ResetMoves
<1>8. TableStep
  BY DEF TableStep, TablesDeleted, ResetDelete
<1>9. ActiveStep
  BY <1>2 DEF ActiveStep, ResetDelete
<1>. QED  BY <1>1, <1>7, <1>8, <1>9 DEF StepOf, RestTyped, ResetDelete

(* A reset ends with nothing active, whatever the outcome. *)
LEMMA ResetEndsStep ==
    ASSUME IInv, NEW t \in Resetters, ResetFinish(t) \/ ResetFails(t)
    PROVE  StepOf
<1>1. RestTyped /\ t \in Threads /\ thread[t].pc # "idle"
  BY IInvParts DEF Threads, ResetFinish, ResetFails
<1>2. PICK state \in {"empty", "failed"} : ResetEnds(t, state)
  BY DEF ResetFinish, ResetFails
<1>3. generation' = [[generation EXCEPT !.state = state] EXCEPT !.active = None]
  BY <1>1, <1>2 DEF ResetEnds, RestTyped, GenRecords
<1>4. generation' \in GenRecords /\ generation'.active = None
  BY <1>1, <1>2, <1>3 DEF RestTyped, GenRecords, Writable, States
<1>5. BarrierStep
  BY <1>1, <1>2, ThreadLeaves DEF ResetEnds
<1>6. TableStep
  BY <1>2, TablesStay DEF ResetEnds
<1>7. ActiveStep
  BY <1>4 DEF ActiveStep
<1>. QED  BY <1>1, <1>2, <1>4, <1>5, <1>6, <1>7 DEF StepOf, RestTyped, ResetEnds

(* A status read moves no thread in the barrier, and what it puts back is  *)
(* a sequence and a state there were.                                      *)
LEMMA ObserverStep ==
    ASSUME IInv, NEW o \in Observers,
           ObserveSeq(o) \/ ObserveState(o) \/ PutBack(o) \/ GiveUp(o)
    PROVE  StepOf
<1>1. RestTyped /\ observer[o] \in ReadRecords /\ generation \in GenRecords
  BY IInvParts DEF RestTyped
<1>2. NoRead \in ReadRecords /\ ReadOver \in ReadRecords
  BY StationAssumption DEF NoRead, ReadOver, ReadRecords, States, Writable
<1>3. observer' \in [Observers -> ReadRecords]
  <2>1. CASE ObserveSeq(o)
    BY <1>1, <2>1 DEF ObserveSeq, RestTyped, ReadRecords, GenRecords
  <2>2. CASE ObserveState(o)
    BY <1>1, <2>2 DEF ObserveState, RestTyped, ReadRecords, GenRecords
  <2>3. CASE PutBack(o) \/ GiveUp(o)
    BY <1>1, <1>2, <2>3 DEF PutBack, GiveUp, RestTyped
  <2>. QED  BY <2>1, <2>2, <2>3
<1>4. generation' \in GenRecords /\ generation'.active = generation.active
  <2>1. CASE PutBack(o)
    <3>1. generation' = [[generation EXCEPT !.seq = observer[o].seq]
                           EXCEPT !.state = observer[o].state]
      BY <1>1, <2>1 DEF PutBack, GenRecords
    <3>. QED  BY <1>1, <3>1 DEF ReadRecords, GenRecords
  <2>2. CASE ~PutBack(o)
    BY <1>1, <2>2 DEF ObserveSeq, ObserveState, GiveUp
  <2>. QED  BY <2>1, <2>2
<1>5. UNCHANGED <<jobs, rows, artifacts, thread, client, server>>
  BY DEF ObserveSeq, ObserveState, PutBack, GiveUp
<1>6. RestTyped'
  BY <1>1, <1>3, <1>4, <1>5 DEF RestTyped
<1>7. BarrierStep
  BY <1>4, <1>5 DEF BarrierStep, NoneMoves
<1>8. QueueStep
  BY <1>5, TablesStay
<1>. QED  BY <1>4, <1>6, <1>7, <1>8, ActiveStays DEF StepOf

\* Abandon, a thread that ends with its call undone, is of the kinds that keep the invariant.
LEMMA AbandonStep ==
    ASSUME IInv, NEW t \in Threads, Abandon(t)
    PROVE  StepOf
<1>1. RestTyped
  BY IInvParts
<1>2. server' \in [up: BOOLEAN, faults: 0..MaxFaults]
  BY <1>1, StationAssumption DEF Abandon, RestTyped
<1>3. BarrierStep
  BY ThreadLeaves DEF Abandon
<1>4. QueueStep /\ ActiveStep /\ TableStep
  BY TablesStay, ActiveStays DEF Abandon
<1>. QED  BY <1>1, <1>2, <1>3, <1>4 DEF StepOf, RestTyped, Abandon

\* Die, the end of the process, is of the kinds that keep the invariant.
LEMMA DieStep ==
    ASSUME IInv, Die
    PROVE  StepOf
<1>1. RestTyped
  BY IInvParts
<1>2. server' \in [up: BOOLEAN, faults: 0..MaxFaults]
  BY <1>1, StationAssumption DEF Die, RestTyped
<1>3. /\ client' \in [Clients -> ClientRecords]
      /\ observer' \in [Observers -> ReadRecords]
  BY StationAssumption
  DEF Die, ClientRecords, NoCall, ReadRecords, NoRead, States, Writable
<1>4. BarrierStep
  BY DEF BarrierStep, AllKilled, Die
<1>5. QueueStep /\ ActiveStep /\ TableStep
  BY TablesStay, ActiveStays DEF Die
<1>. QED  BY <1>1, <1>2, <1>3, <1>4, <1>5 DEF StepOf, RestTyped, Die

\* Start, the process again, is of the kinds that keep the invariant.
LEMMA StartStep ==
    ASSUME IInv, Start
    PROVE  StepOf
<1>1. RestTyped
  BY IInvParts
<1>2. server' \in [up: BOOLEAN, faults: 0..MaxFaults]
  BY <1>1 DEF Start, RestTyped
<1>3. BarrierStep
  BY DEF BarrierStep, NoneMoves, Start
<1>4. QueueStep /\ ActiveStep /\ TableStep
  BY TablesStay, ActiveStays DEF Start
<1>. QED  BY <1>1, <1>2, <1>3, <1>4 DEF StepOf, RestTyped, Start

\* A step that changes nothing is of the kinds that keep the invariant.
LEMMA StutterStep ==
    ASSUME IInv, UNCHANGED vars
    PROVE  StepOf
<1>1. RestTyped
  BY IInvParts
<1>2. BarrierStep
  BY DEF BarrierStep, NoneMoves, vars
<1>3. QueueStep /\ ActiveStep /\ TableStep
  BY TablesStay, ActiveStays DEF vars
<1>. QED  BY <1>1, <1>2, <1>3 DEF StepOf, RestTyped, vars

-----------------------------------------------------------------------------
(* The invariant.                                                          *)

LEMMA InitIInv == Init => IInv
<1> SUFFICES ASSUME Init PROVE IInv
  OBVIOUS
<1>1. /\ NoJob \in JobRecords /\ NoJob.status = "absent"
      /\ NoRow \in RowRecords /\ NoRow.status = "absent"
      /\ NoCall \in ClientRecords
  BY StationAssumption, StationFacts
  DEF NoJob, NoRow, NoCall, JobRecords, RowRecords, ClientRecords, JobStatus,
      RowStatus, Gone
<1>0. NoRead \in ReadRecords
  BY StationAssumption DEF NoRead, ReadRecords, States, Writable
<1>2. TablesTyped
  BY <1>1 DEF Init, TablesTyped
<1>3. InLine
  BY <1>1, RowFacts DEF Init, InLine, Positioned, Gone
<1>4. Attempts
  BY <1>1 DEF Init, Attempts, Decided
<1>5. RestTyped
  BY <1>0, <1>1, StationAssumption DEF Init, RestTyped, GenRecords, Writable, States
<1>6. BarrierInv
  <2>1. \A t \in Threads : thread[t] = Idle
    BY DEF Init
  <2>2. thread \in [Threads -> ThreadRecords]
    BY IdleFacts DEF Init
  <2>3. \A t \in Threads : thread[t].pc = "idle"
    BY <2>1, IdleFacts
  <2>4. Workers \subseteq Threads /\ Resetters \subseteq Threads
    BY DEF Threads
  <2>. QED
    BY <2>2, <2>3, <2>4, IdleFacts
    DEF BarrierInv, BarrierOne, Roles, ResetPointsNowhere,
        RowsHeld, WorkerPcs, ResetPcs
<1>7. ActiveIsCurrent
  BY DEF Init, ActiveIsCurrent
<1>. QED  BY <1>2, <1>3, <1>4, <1>5, <1>6, <1>7, IInvParts DEF TableInv

\* Every disjunct of Next is of the kinds that keep the invariant.
LEMMA NextIsStep == IInv /\ [Next]_vars => StepOf
<1> SUFFICES ASSUME IInv, [Next]_vars PROVE StepOf
  OBVIOUS
<1>1. CASE \E c \in Clients, d \in DataVersions : ImportBegins(c, d)
  BY <1>1, ImportBeginsStep
<1>2. CASE \E c \in Clients : EnqueueCheck(c) \/ EnqueueInsert(c)
  BY <1>2, EnqueueCheckStep, EnqueueInsertStep
<1>3. CASE \E w \in Workers : WorkerStep(w)
  BY <1>3, GuardEnterStep, ClaimSelectStep, NothingToClaimStep,
     ClaimUpdateStep, ClaimRereadStep, StationSucceedsStep, StationFailsStep,
     FinishAndStreamStep, FinishAndEndStep, MarkActiveStep, FailCommitStep
  DEF WorkerStep
<1>4. CASE \E t \in Resetters : ResetBegin(t) \/ ResetStep(t)
  BY <1>4, ResetBeginStep, ResetDeleteStep, ResetEndsStep DEF ResetStep
<1>5. CASE \E t \in Threads : Abandon(t)
  BY <1>5, AbandonStep
<1>6. CASE Die \/ Start
  BY <1>6, DieStep, StartStep
<1>7. CASE UNCHANGED vars
  BY <1>7, StutterStep
<1>8. CASE \E o \in Observers :
              ObserveSeq(o) \/ ObserveState(o) \/ PutBack(o) \/ GiveUp(o)
  BY <1>8, ObserverStep
<1>. QED  BY <1>1, <1>2, <1>3, <1>4, <1>5, <1>6, <1>7, <1>8 DEF Next

\* Every step keeps the invariant: each kind of step keeps each of its parts.
LEMMA StepIInv == IInv /\ [Next]_vars => IInv'
<1> SUFFICES ASSUME IInv, [Next]_vars PROVE IInv'
  OBVIOUS
<1>1. StepOf
  BY NextIsStep
<1>2. TableInv /\ TablesTyped /\ BarrierInv /\ ActiveIsCurrent
  BY IInvParts DEF TableInv
<1>3. TableInv' /\ BarrierInv' /\ ActiveIsCurrent' /\ RestTyped'
  BY <1>1, <1>2, StepKeepsTables, StepKeepsBarrier, StepKeepsActive DEF StepOf
<1>4. TypeOK'
  BY <1>3
  DEF TypeOK, TableInv, TablesTyped, BarrierInv, RestTyped, JobRecords,
      RowRecords, GenRecords, ThreadRecords, ClientRecords, ReadRecords, States
<1>. QED  BY <1>3, <1>4 DEF IInv, TableInv, BarrierInv

(* The inductive invariant holds in every state of the specification. *)
THEOREM Invariance == Spec => []IInv
BY InitIInv, StepIInv, PTL DEF Spec

(* Every variable holds a value of its kind, and no row is ever tried more *)
(* often than max_attempts allows.                                         *)
THEOREM TypeCorrect == Spec => []TypeOK
<1>1. IInv => TypeOK
  BY DEF IInv
<1>. QED  BY <1>1, Invariance, PTL

(* While an iteration is in the guard only a status read that puts back    *)
(* what it read before moves the generation's sequence or closes it: no    *)
(* reset gets between the guard's entry and its exit.                      *)
THEOREM WorkInClaimedGeneration == Spec => GenerationHolds
<1> DEFINE Held ==
      (\E w \in Workers : thread[w].pc # "idle") =>
         \/ /\ generation'.seq = generation.seq
            /\ generation.state \in Writable => generation'.state \in Writable
         \/ \E o \in Observers : PutBack(o)
<1>1. IInv /\ [Next]_vars => [Held]_vars
  <2> SUFFICES ASSUME IInv, [Next]_vars,
                      NEW w \in Workers, thread[w].pc # "idle",
                      \A o \in Observers : ~PutBack(o)
               PROVE  /\ generation'.seq = generation.seq
                      /\ generation.state \in Writable => generation'.state \in Writable
    OBVIOUS
  <2>1. w \in Threads /\ \A t \in Resetters : t \in Threads /\ thread[t].pc = "idle"
    BY StationAssumption DEF IInv, BarrierOne, Threads
  <2>2. CASE generation' = generation
    BY <2>2
  <2>3. ASSUME NEW v \in Workers, MarkActive(v), generation' # generation
        PROVE  /\ generation'.seq = generation.seq
               /\ generation.state \in Writable => generation'.state \in Writable
    BY <2>3, IInvParts DEF MarkActive, RestTyped, GenRecords, Writable
  <2>4. ASSUME NEW t \in Resetters, ResetBegin(t) \/ ResetStep(t)
        PROVE  FALSE
    BY <2>1, <2>4
    DEF ResetBegin, BarrierFree, ResetStep, ResetDelete, ResetFinish, ResetFails
  <2>5. ASSUME NEW v \in Workers, WorkerStep(v), ~MarkActive(v)
        PROVE  generation' = generation
    BY <2>5
    DEF WorkerStep, GuardEnter, ClaimSelect, NothingToClaim, ClaimUpdate,
        ClaimReread, StationSucceeds, StationFails, FinishAndStream,
        FinishAndEnd, FailCommit
  <2>6. ASSUME NEW c \in Clients,
               \/ \E d \in DataVersions : ImportBegins(c, d)
               \/ EnqueueCheck(c) \/ EnqueueInsert(c)
        PROVE  generation' = generation
    BY <2>6 DEF ImportBegins, EnqueueCheck, EnqueueInsert
  <2>7. ASSUME NEW o \in Observers, ObserveSeq(o) \/ ObserveState(o) \/ GiveUp(o)
        PROVE  generation' = generation
    BY <2>7 DEF ObserveSeq, ObserveState, GiveUp
  <2>8. CASE (\E t \in Threads : Abandon(t)) \/ Die \/ Start \/ UNCHANGED vars
    BY <2>2, <2>8 DEF Abandon, Die, Start, vars
  <2>. QED
    BY <2>2, <2>3, <2>4, <2>5, <2>6, <2>7, <2>8 DEF Next
<1>2. Spec => [][Held]_vars
  BY <1>1, Invariance, PTL DEF Spec
<1>. QED  BY <1>2 DEF GenerationHolds

(* A retry is given only while attempts are left, and a row fails only     *)
(* when they are used up.                                                  *)
THEOREM AttemptsAreDecisive == Spec => []AttemptsDecide
<1>1. IInv => AttemptsDecide
  BY DEF IInv, Attempts, Decided, AttemptsDecide
<1>. QED  BY <1>1, Invariance, PTL

(* The active data version is that of a job that is there: no reset leaves *)
(* a pointer to what it deleted.                                           *)
THEOREM ActiveVersionIsThere == Spec => []ActiveIsCurrent
<1>1. IInv => ActiveIsCurrent
  BY DEF IInv
<1>. QED  BY <1>1, Invariance, PTL

(* A station has a row only when the station before it completed and left  *)
(* its artifact.                                                           *)
THEOREM NothingDownstreamOfUnfinished == Spec => []StationsInLine
<1>1. ASSUME IInv PROVE StationsInLine
  <2>1. ASSUME NEW j \in JobIds, NEW r \in RowsOf(j), r.station > 1
        PROVE  /\ rows[Row(j, r.station - 1)].status = "completed"
               /\ <<j, r.station - 1>> \in artifacts
    <3> DEFINE s == r.station
    <3>1. /\ r \in RowIds /\ r.job = j /\ rows[r].status \notin Gone
          /\ s \in Stations /\ r = Row(j, s)
      BY <2>1, RowFacts DEF RowsOf
    <3>2. s \in Nat /\ s - 1 \in Stations /\ s - 1 < s /\ s - 1 \in Nat
      BY <2>1, <3>1, StationAssumption DEF Stations
    <3>3. Positioned(j, s) /\ Positioned(j, s - 1)
      BY <1>1, <3>1, <3>2 DEF IInv, InLine
    <3>4. jobs[j].status \notin Gone
      BY <3>1, <3>3 DEF Positioned, Gone
    <3>5. jobs[j].station \in Nat
      BY IInvParts, <1>1, StationFacts DEF TableInv, TablesTyped, JobRecords
    <3>6. ~(s > jobs[j].station)
      BY <3>1, <3>3, <3>4 DEF Positioned, Ahead, Gone
    <3>7. s - 1 < jobs[j].station
      BY <3>2, <3>5, <3>6
    <3>. QED  BY <3>3, <3>4, <3>7 DEF Positioned, Passed
  <2>. QED  BY <2>1 DEF StationsInLine
<1>. QED  BY <1>1, Invariance, PTL

(* The last row of a job that is there is the one at its station. *)
LEMMA LastRowIsCurrent ==
    ASSUME IInv, NEW j \in JobIds, jobs[j].status \notin Gone
    PROVE  /\ jobs[j].station \in Stations
           /\ LastRow(j) = Row(j, jobs[j].station)
<1> DEFINE s == jobs[j].station
           last == Row(j, s)
           IsLast(r) == r \in RowsOf(j) /\ \A q \in RowsOf(j) : q.station <= r.station
<1>1. s \in Stations /\ s \in Nat
  BY IInvParts, StationFacts DEF TableInv, TablesTyped, JobRecords
<1>2. last \in RowIds /\ last.job = j /\ last.station = s
  BY <1>1, RowFacts
<1>3. last \in RowsOf(j)
  BY <1>1, <1>2 DEF IInv, InLine, Positioned, Current, RowsOf
<1>4. ASSUME NEW q \in RowsOf(j)
      PROVE  q.station \in Nat /\ q.station <= s /\ q = Row(j, q.station)
  <2>1. /\ q \in RowIds /\ q.job = j /\ rows[q].status \notin Gone
        /\ q.station \in Stations /\ q = Row(j, q.station) /\ q.station \in Nat
    BY <1>4, RowFacts, StationFacts DEF RowsOf
  <2>2. ~(q.station > s)
    BY <2>1 DEF IInv, InLine, Positioned, Ahead, Gone
  <2>. QED  BY <1>1, <2>1, <2>2
<1>5. IsLast(last)
  BY <1>2, <1>3, <1>4
<1>6. LastRow(j) = CHOOSE r : IsLast(r)
  BY DEF LastRow
<1>7. IsLast(LastRow(j))
  BY <1>5, <1>6
<1>8. LastRow(j).station = s
  BY <1>1, <1>2, <1>3, <1>4, <1>7
<1>. QED  BY <1>1, <1>4, <1>7, <1>8

(* The two tables tell the same story after every transaction: the job is  *)
(* where its last row is, and failed or completed exactly when it is.      *)
THEOREM TablesAgree == Spec => []JobTellsItsRow
<1>1. ASSUME IInv PROVE JobTellsItsRow
  <2>1. ASSUME NEW j \in JobIds, jobs[j].status \notin Gone
        PROVE  LET status == rows[LastRow(j)].status IN
               /\ jobs[j].station = LastRow(j).station
               /\ jobs[j].status = "failed" <=> status = "failed"
               /\ jobs[j].status = "completed" <=> status = "completed"
    <3> DEFINE s == jobs[j].station
    <3>1. s \in Stations /\ LastRow(j) = Row(j, s)
      BY <1>1, <2>1, LastRowIsCurrent
    <3>2. Current(j, s)
      BY <1>1, <2>1, <3>1 DEF IInv, InLine, Positioned
    <3>. QED  BY <3>1, <3>2, RowFacts DEF Current
  <2>. QED  BY <2>1 DEF JobTellsItsRow
<1>. QED  BY <1>1, Invariance, PTL
=============================================================================
