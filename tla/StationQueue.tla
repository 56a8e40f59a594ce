----------------------------- MODULE StationQueue -----------------------------
(***************************************************************************)
(* The pre-Agent station queue of the Python runtime, in the tables        *)
(* pipeline_jobs and station_queue (station_queue_service.py), and the     *)
(* runtime generation (runtime_generation_barrier_v1_service.py) that a    *)
(* reset rotates before it deletes those tables.                           *)
(*                                                                         *)
(* A pipeline job takes one data version through a sequence of stations;   *)
(* each station's row is inserted when the station before it completes.    *)
(* One process runs the loop, the manual ticks, the resets, the imports    *)
(* and the status reads, each in a thread.  A tick and a reset hold the    *)
(* same lock from beginning to end.  An import holds none, and neither     *)
(* does a status read, which writes back the generation it has read.       *)
(* sqlite3 opens a transaction at the first write: what was read before    *)
(* may have changed by then.  One step is one transaction, or one read     *)
(* outside any.                                                            *)
(***************************************************************************)
EXTENDS Naturals

CONSTANTS
    Workers,        \* threads that tick: the loop and the manual ticks
    Resetters,      \* threads in clear_runtime_data
    Clients,        \* threads that import a report
    Observers,      \* status reads, each made once
    DataVersions,
    LastStation,    \* stations are numbered by STATION_INDEX, from 1
    Validation,     \* bundle_validation_station, which may end the sequence
    MaxAttempts,    \* column max_attempts
    MaxJobs,        \* bound on the jobs
    MaxSeq,         \* bound on the generations
    MaxFaults,      \* bound on the deaths and the failed writes
    None            \* no data version, no row

Threads  == Workers \cup Resetters
Stations == 1..LastStation
JobIds   == 1..MaxJobs
RowIds   == [job: JobIds, station: Stations]

ASSUME StationAssumption ==
    /\ LastStation \in Nat \ {0}
    /\ Validation \in Stations
    /\ MaxAttempts \in Nat \ {0}
    /\ MaxJobs \in Nat
    /\ MaxSeq \in Nat \ {0}
    /\ MaxFaults \in Nat
    /\ Workers \cap Resetters = {}
    /\ None \notin RowIds
    /\ None \notin DataVersions

VARIABLES
    jobs,       \* pipeline_jobs
    rows,       \* station_queue
    artifacts,  \* the stations of each job whose output was recorded
    generation, \* runtime_meta
    thread,     \* where each worker and resetter is, and what it read
    client,     \* each import: its data version, where it is, and the
                \* generation it began in
    observer,   \* what each status read has read of the generation
    server      \* whether the process is up, and the faults so far

vars == <<jobs, rows, artifacts, generation, thread, client, observer, server>>

NoJob  == [status |-> "absent", version |-> None, station |-> 1]
NoRow  == [status |-> "absent", attempts |-> 0]
NewRow == [status |-> "queued", attempts |-> 0]
Idle   == [pc |-> "idle", row |-> None, attempts |-> 0]
NoCall == [pc |-> "idle", version |-> None, gen |-> 1]
NoRead == [pc |-> "idle", seq |-> 1, state |-> "active"]
ReadOver == [NoRead EXCEPT !.pc = "over"]

Gone     == {"absent", "deleted"}
Waiting  == {"queued", "retry"}
Active   == {"queued", "running"}
Writable == {"active", "empty"}

Init ==
    /\ jobs = [j \in JobIds |-> NoJob]
    /\ rows = [r \in RowIds |-> NoRow]
    /\ artifacts = {}
    /\ generation = [seq |-> 1, state |-> "active", active |-> None]
    /\ thread = [t \in Threads |-> Idle]
    /\ client = [c \in Clients |-> NoCall]
    /\ observer = [o \in Observers |-> NoRead]
    /\ server = [up |-> TRUE, faults |-> 0]

Row(j, s) == [job |-> j, station |-> s]

-----------------------------------------------------------------------------
(* Imports.  A report is stored, and then its task generation enqueued.    *)
ImportBegins(c, d) ==
    /\ server.up
    /\ client[c].pc = "idle"
    /\ client' = [client EXCEPT ![c] = [pc |-> "importing", version |-> d,
                                        gen |-> generation.seq]]
    /\ UNCHANGED <<jobs, rows, artifacts, generation, thread, observer, server>>

(* enqueue_task_generation looks for an active job of the version ...      *)
EnqueueCheck(c) ==
    LET hit == \E j \in JobIds : /\ jobs[j].version = client[c].version
                                 /\ jobs[j].status \in Active IN
    /\ client[c].pc = "importing"
    /\ client' = [client EXCEPT ![c] = IF hit THEN NoCall ELSE [@ EXCEPT !.pc = "checked"]]
    /\ UNCHANGED <<jobs, rows, artifacts, generation, thread, observer, server>>

(* ... and, in a later transaction, inserts one with its first station.    *)
EnqueueInsert(c) ==
    /\ client[c].pc = "checked"
    /\ \E j \in JobIds :
          /\ \A i \in JobIds : jobs[i].status = "absent" <=> i >= j
          /\ jobs' = [jobs EXCEPT ![j] = [status |-> "queued", station |-> 1,
                                          version |-> client[c].version]]
          /\ rows' = [rows EXCEPT ![Row(j, 1)] = NewRow]
    /\ client' = [client EXCEPT ![c] = NoCall]
    /\ UNCHANGED <<artifacts, generation, thread, observer, server>>

-----------------------------------------------------------------------------
(* The execution barrier.  Mutant: it is not taken.                        *)
BarrierIgnored(t) == thread[t].pc = "idle"

BarrierFree(t) == \A u \in Threads : thread[u].pc = "idle"

(* runtime_execution_guard, entered; it refuses a closed generation.  Its  *)
(* check at the exit changes nothing: it raises after all is committed.    *)
GuardEnter(w) ==
    /\ server.up
    /\ BarrierFree(w)
    /\ generation.state \in Writable
    /\ thread' = [thread EXCEPT ![w] = [Idle EXCEPT !.pc = "guarded"]]
    /\ UNCHANGED <<jobs, rows, artifacts, generation, client, observer, server>>

(* _claim_next_station selects the waiting row of the earliest station ... *)
ClaimSelect(w) ==
    /\ thread[w].pc = "guarded"
    /\ \E r \in RowIds :
          /\ rows[r].status \in Waiting
          /\ \A q \in RowIds : rows[q].status \in Waiting => r.station <= q.station
          /\ thread' = [thread EXCEPT ![w].pc = "selected", ![w].row = r]
    /\ UNCHANGED <<jobs, rows, artifacts, generation, client, observer, server>>

(* ... or finds none.                                                      *)
NothingToClaim(w) ==
    /\ thread[w].pc = "guarded"
    /\ \A r \in RowIds : rows[r].status \notin Waiting
    /\ thread' = [thread EXCEPT ![w] = Idle]
    /\ UNCHANGED <<jobs, rows, artifacts, generation, client, observer, server>>

(* Mutant: the attempt is not counted.                                     *)
ClaimedUncounted(r) == [rows[r] EXCEPT !.status = "running"]

Claimed(r) == [rows[r] EXCEPT !.status = "running", !.attempts = @ + 1]

(* It marks the row it selected, whatever became of it since.              *)
ClaimUpdate(w) ==
    LET r == thread[w].row IN
    /\ thread[w].pc = "selected"
    /\ rows' = [rows EXCEPT ![r] = Claimed(r)]
    /\ jobs' = [jobs EXCEPT ![r.job].status = "running",
                            ![r.job].station = r.station]
    /\ thread' = [thread EXCEPT ![w].pc = "claimed"]
    /\ UNCHANGED <<artifacts, generation, client, observer, server>>

(* The claimed row is read again; its attempts decide a later failure.     *)
ClaimReread(w) ==
    /\ thread[w].pc = "claimed"
    /\ thread' = [thread EXCEPT ![w].pc = "running",
                                ![w].attempts = rows[thread[w].row].attempts]
    /\ UNCHANGED <<jobs, rows, artifacts, generation, client, observer, server>>

(* The station ran and its output was recorded as an artifact.             *)
StationSucceeds(w) ==
    LET r == thread[w].row IN
    /\ thread[w].pc = "running"
    /\ artifacts' = artifacts \cup {<<r.job, r.station>>}
    /\ thread' = [thread EXCEPT ![w].pc = "recorded"]
    /\ UNCHANGED <<jobs, rows, generation, client, observer, server>>

(* An exception: the station was rejected, or a step after it failed.      *)
StationFails(w) ==
    /\ thread[w].pc \in {"running", "recorded"}
    /\ thread' = [thread EXCEPT ![w].pc = "failing"]
    /\ UNCHANGED <<jobs, rows, artifacts, generation, client, observer, server>>

(* Mutant: the row is left running when the next one is inserted.          *)
StreamedRunning(r) == rows[r]

Streamed(r) == [rows[r] EXCEPT !.status = "completed"]

(* The row is completed and, in the same transaction, the next station's   *)
(* row inserted ...                                                        *)
FinishAndStream(w) ==
    LET r == thread[w].row IN
    /\ thread[w].pc = "recorded"
    /\ r.station < LastStation
    /\ rows' = [rows EXCEPT ![r] = Streamed(r),
                            ![Row(r.job, r.station + 1)] = NewRow]
    /\ jobs' = [jobs EXCEPT ![r.job].status = "running",
                            ![r.job].station = r.station + 1]
    /\ thread' = [thread EXCEPT ![w].pc = "finished"]
    /\ UNCHANGED <<artifacts, generation, client, observer, server>>

(* ... or the job completed: at the last station, or at the validation     *)
(* that found no bundle.                                                   *)
FinishAndEnd(w) ==
    LET r == thread[w].row IN
    /\ thread[w].pc = "recorded"
    /\ r.station \in {Validation, LastStation}
    /\ rows' = [rows EXCEPT ![r].status = "completed"]
    /\ jobs' = [jobs EXCEPT ![r.job].status = "completed",
                            ![r.job].station = r.station]
    /\ thread' = [thread EXCEPT ![w].pc = "finished"]
    /\ UNCHANGED <<artifacts, generation, client, observer, server>>

(* mark_runtime_generation_active, which a failed generation refuses, and  *)
(* the guard is left.                                                      *)
MarkActive(w) ==
    /\ thread[w].pc = "finished"
    /\ generation' = IF generation.state = "failed" THEN generation
                     ELSE [generation EXCEPT !.state = "active",
                             !.active = jobs[thread[w].row.job].version]
    /\ thread' = [thread EXCEPT ![w] = Idle]
    /\ UNCHANGED <<jobs, rows, artifacts, client, observer, server>>

(* _failure_status; mutant: one attempt too many.                          *)
FailureStatusLate(n) == IF n <= MaxAttempts THEN "retry" ELSE "failed"

FailureStatus(n) == IF n < MaxAttempts THEN "retry" ELSE "failed"

(* Mutant: a failed station leaves its job running.                        *)
JobStaysRunning(status) == "running"

JobAfter(status) == IF status = "failed" THEN "failed" ELSE "running"

(* The failure is written, and the guard is left.                          *)
FailCommit(w) ==
    LET r == thread[w].row
        status == FailureStatus(thread[w].attempts) IN
    /\ thread[w].pc = "failing"
    /\ rows' = [rows EXCEPT ![r].status = status]
    /\ jobs' = [jobs EXCEPT ![r.job].status = JobAfter(status)]
    /\ thread' = [thread EXCEPT ![w] = Idle]
    /\ UNCHANGED <<artifacts, generation, client, observer, server>>

-----------------------------------------------------------------------------
(* runtime_reset_barrier.  Mutant: the active data version is kept.        *)
RotatedKeepingActive(g) == [g EXCEPT !.seq = @ + 1, !.state = "resetting"]

Rotated(g) == [seq |-> g.seq + 1, state |-> "resetting", active |-> None]

ResetBegin(t) ==
    /\ server.up
    /\ BarrierFree(t)
    /\ generation.seq < MaxSeq
    /\ generation' = Rotated(generation)
    /\ thread' = [thread EXCEPT ![t] = [Idle EXCEPT !.pc = "rotated"]]
    /\ UNCHANGED <<jobs, rows, artifacts, client, observer, server>>

(* Nothing is left of a deleted row but that its job's number is used.     *)
DeleteFrom(table, no) ==
    [x \in DOMAIN table |-> IF table[x].status = "absent" THEN table[x]
                            ELSE [no EXCEPT !.status = "deleted"]]

ResetDelete(t) ==
    /\ thread[t].pc = "rotated"
    /\ jobs' = DeleteFrom(jobs, NoJob)
    /\ rows' = DeleteFrom(rows, NoRow)
    /\ thread' = [thread EXCEPT ![t].pc = "deleted"]
    /\ UNCHANGED <<artifacts, generation, client, observer, server>>

ResetEnds(t, state) ==
    /\ generation' = [generation EXCEPT !.state = state, !.active = None]
    /\ thread' = [thread EXCEPT ![t] = Idle]
    /\ UNCHANGED <<jobs, rows, artifacts, client, observer, server>>

ResetFinish(t) == thread[t].pc = "deleted" /\ ResetEnds(t, "empty")

(* Drift of the registered tables, a locked database, a file.              *)
ResetFails(t) == thread[t].pc \in {"rotated", "deleted"} /\ ResetEnds(t, "failed")

-----------------------------------------------------------------------------
(* ensure_runtime_generation_state, called for a status without the        *)
(* barrier: the sequence with its hash, and then the state, are read       *)
(* outside any transaction ...                                             *)
ObserveSeq(o) ==
    /\ server.up
    /\ observer[o].pc = "idle"
    /\ observer' = [observer EXCEPT ![o].pc = "seq", ![o].seq = generation.seq]
    /\ UNCHANGED <<jobs, rows, artifacts, generation, thread, client, server>>

ObserveState(o) ==
    /\ observer[o].pc = "seq"
    /\ observer' = [observer EXCEPT ![o].pc = "read", ![o].state = generation.state]
    /\ UNCHANGED <<jobs, rows, artifacts, generation, thread, client, server>>

(* ... and replaced, in one transaction, by what was read.                 *)
PutBack(o) ==
    /\ observer[o].pc = "read"
    /\ generation' = [generation EXCEPT !.seq = observer[o].seq,
                                        !.state = observer[o].state]
    /\ observer' = [observer EXCEPT ![o] = ReadOver]
    /\ UNCHANGED <<jobs, rows, artifacts, thread, client, server>>

(* The database is locked; or what was put back is replaced by a thread    *)
(* with the barrier that had read the generation before.                   *)
GiveUp(o) ==
    /\ observer[o].pc \in {"seq", "read"}
    /\ observer' = [observer EXCEPT ![o] = ReadOver]
    /\ UNCHANGED <<jobs, rows, artifacts, generation, thread, client, server>>

-----------------------------------------------------------------------------
(* A write fails where nothing catches it: the barrier is left, and        *)
(* nothing looks at the row, or the reset, again.                          *)
Abandon(t) ==
    /\ thread[t].pc # "idle"
    /\ server.faults < MaxFaults
    /\ server' = [server EXCEPT !.faults = @ + 1]
    /\ thread' = [thread EXCEPT ![t] = Idle]
    /\ UNCHANGED <<jobs, rows, artifacts, generation, client, observer>>

(* The process dies; its tables stay.                                      *)
Die ==
    /\ server.up
    /\ server.faults < MaxFaults
    /\ server' = [up |-> FALSE, faults |-> server.faults + 1]
    /\ thread' = [t \in Threads |-> Idle]
    /\ client' = [c \in Clients |-> NoCall]
    /\ observer' = [o \in Observers |-> NoRead]
    /\ UNCHANGED <<jobs, rows, artifacts, generation>>

(* The start enters the guard once, and fails when the guard refuses.      *)
Start ==
    /\ ~ server.up
    /\ generation.state \in Writable
    /\ server' = [server EXCEPT !.up = TRUE]
    /\ UNCHANGED <<jobs, rows, artifacts, generation, thread, client, observer>>

-----------------------------------------------------------------------------
WorkerStep(w) ==
    \/ GuardEnter(w) \/ ClaimSelect(w) \/ NothingToClaim(w)
    \/ ClaimUpdate(w) \/ ClaimReread(w)
    \/ StationSucceeds(w) \/ StationFails(w)
    \/ FinishAndStream(w) \/ FinishAndEnd(w) \/ MarkActive(w) \/ FailCommit(w)

ResetStep(t) == ResetDelete(t) \/ ResetFinish(t) \/ ResetFails(t)

Next ==
    \/ \E c \in Clients, d \in DataVersions : ImportBegins(c, d)
    \/ \E c \in Clients : EnqueueCheck(c) \/ EnqueueInsert(c)
    \/ \E w \in Workers : WorkerStep(w)
    \/ \E t \in Resetters : ResetBegin(t) \/ ResetStep(t)
    \/ \E o \in Observers : \/ ObserveSeq(o) \/ ObserveState(o)
                            \/ PutBack(o) \/ GiveUp(o)
    \/ \E t \in Threads : Abandon(t)
    \/ Die \/ Start

Spec == Init /\ [][Next]_vars

(* The loop ticks every few seconds, a thread that has the barrier goes    *)
(* on, and the service is started again when it died.  MaxFaults makes the *)
(* faults finite: nothing ends a job of a server that dies for ever.       *)
FairSpec ==
    /\ Spec
    /\ \A w \in Workers : WF_vars(WorkerStep(w))
    /\ \A t \in Resetters : WF_vars(ResetStep(t))
    /\ WF_vars(Start)

-----------------------------------------------------------------------------
(* Properties *)

RowStatus == Gone \cup Waiting \cup {"running", "completed", "failed"}
JobStatus == Gone \cup Active \cup {"completed", "failed"}
Pcs == {"idle", "guarded", "selected", "claimed", "running", "recorded",
        "failing", "finished", "rotated", "deleted"}

(* Every variable holds a value of its kind, and no row is tried more      *)
(* often than max_attempts allows.                                         *)
TypeOK ==
    /\ jobs \in [JobIds -> [status: JobStatus, version: DataVersions \cup {None},
                            station: Stations]]
    /\ rows \in [RowIds -> [status: RowStatus, attempts: 0..MaxAttempts]]
    /\ artifacts \in SUBSET (JobIds \X Stations)
    /\ generation \in [seq: 1..MaxSeq, state: Writable \cup {"resetting", "failed"},
                       active: DataVersions \cup {None}]
    /\ thread \in [Threads -> [pc: Pcs, row: RowIds \cup {None},
                               attempts: 0..MaxAttempts]]
    /\ client \in [Clients -> [pc: {"idle", "importing", "checked"},
                               version: DataVersions \cup {None}, gen: 1..MaxSeq]]
    /\ observer \in [Observers -> [pc: {"idle", "seq", "read", "over"},
                                   seq: 1..MaxSeq,
                                   state: Writable \cup {"resetting", "failed"}]]
    /\ server \in [up: BOOLEAN, faults: 0..MaxFaults]

RowsOf(j) == {r \in RowIds : r.job = j /\ rows[r].status \notin Gone}

(* A station has a row only when the station before it completed and left  *)
(* its artifact: what failed, was rejected or is being retried has nothing *)
(* downstream, whichever threads ran it and wherever they were killed.     *)
StationsInLine ==
    \A j \in JobIds : \A r \in RowsOf(j) : r.station > 1 =>
        /\ rows[Row(j, r.station - 1)].status = "completed"
        /\ <<j, r.station - 1>> \in artifacts

LastRow(j) == CHOOSE r \in RowsOf(j) : \A q \in RowsOf(j) : q.station <= r.station

(* The two tables tell the same story after every transaction: the job is  *)
(* where its last row is, and has failed or completed exactly when that    *)
(* row has.                                                                *)
JobTellsItsRow ==
    \A j \in JobIds : jobs[j].status \notin Gone =>
        LET status == rows[LastRow(j)].status IN
        /\ jobs[j].station = LastRow(j).station
        /\ jobs[j].status = "failed" <=> status = "failed"
        /\ jobs[j].status = "completed" <=> status = "completed"

(* A retry is given only while attempts are left, and a row fails only     *)
(* when they are used up, through any sequence of failures and deaths.     *)
AttemptsDecide ==
    \A r \in RowIds :
        /\ rows[r].status = "retry" => rows[r].attempts < MaxAttempts
        /\ rows[r].status = "failed" => rows[r].attempts = MaxAttempts

(* While an iteration is in the guard, no reset, however it is timed, moves *)
(* the generation's sequence or closes it for writing.  The one step that  *)
(* does is a status read that puts back what it had read before: it takes  *)
(* no barrier, and assert_generation_current then finds the iteration      *)
(* stale, or the generation closed, at its end.                            *)
GenerationHolds ==
    [][(\E w \in Workers : thread[w].pc # "idle") =>
         \/ /\ generation'.seq = generation.seq
            /\ generation.state \in Writable => generation'.state \in Writable
         \/ \E o \in Observers : PutBack(o)]_vars

(* The active data version is that of a job the generation still has: a    *)
(* reset leaves no pointer to what it deleted.                             *)
ActiveIsCurrent ==
    generation.active # None =>
        \E j \in JobIds : /\ jobs[j].status \notin Gone
                          /\ jobs[j].version = generation.active

(* The row runs and no worker has it.                                      *)
Orphaned(r) ==
    /\ rows[r].status = "running"
    /\ \A w \in Workers : thread[w].row # r

(* Every active job ends, unless a fault orphaned its row, or the          *)
(* generation is closed: by a reset that has not ended or has failed, or   *)
(* by a status read that put such a state back.  Nothing else stops the    *)
(* queue.                                                                  *)
OnlyFaultsStall ==
    \A j \in JobIds :
        jobs[j].status \in Active ~>
            \/ jobs[j].status \notin Active
            \/ \E r \in RowIds : r.job = j /\ Orphaned(r)
            \/ generation.state \notin Writable

(* What the reset says: old-generation state cannot repopulate the new     *)
(* empty generation.  What an import enqueues into a generation that is    *)
(* open is of that generation, in which the import began.                  *)
NoOldJobInNewGeneration ==
    [][\A c \in Clients :
         EnqueueInsert(c) /\ generation.state \in Writable =>
             client[c].gen = generation.seq]_vars
=============================================================================
