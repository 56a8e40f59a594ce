------------------------- MODULE AuthorityGeneration -------------------------
(***************************************************************************)
(* The durable generation root: the state file of AuthorityGenerationStore *)
(* with its file lock, compare-and-set and atomic replacement, read by     *)
(* UnifiedAuthorityGenerationRoot and by the check-run-check of            *)
(* RootBoundAuthorityAdapter.                                              *)
(*                                                                         *)
(* Operators run the command line of AuthorityGenerationMain, a process    *)
(* per call; handlers are threads of one server process (the review        *)
(* endpoint), which only read.  Processes are killed and the machine loses *)
(* power at any step.  A file lock belongs to the process: a thread that   *)
(* closes the lock file gives up the lock of all its process's threads.    *)
(***************************************************************************)
EXTENDS Naturals, FiniteSets

CONSTANTS
    Operators,      \* processes with one thread, which write
    Handlers,       \* threads of the server
    Server,         \* the server process
    Releases,       \* sealed releases a generation may be prepared for
    Reasons,        \* reasons an operator gives for a rollback
    MaxSeq,         \* bound on the generations
    None            \* no process, no state, no release

Threads   == Operators \cup Handlers
Processes == Operators \cup {Server}

ASSUME GenerationAssumption ==
    /\ Server \notin Operators
    /\ None \notin Processes
    /\ Operators \cap Handlers = {}
    /\ None \notin Releases
    /\ MaxSeq \in Nat

ProcessOf(t) == IF t \in Operators THEN t ELSE Server

VARIABLES
    disk,       \* the state file as processes see it
    durable,    \* the state file as of the last force of its directory
    loose,      \* states moved in place since, with no force after them
    lost,       \* loose states that a power failure took back
    fileLock,   \* the process the file lock belongs to
    thread,     \* the call each thread is in
    request,    \* the operation each handler is executing
    acked       \* states returned by the calls that created them

vars == <<disk, durable, loose, lost, fileLock, thread, request, acked>>

Ready    == "READY_NO_AUTHORITY"
Prepared == "CUTOVER_PREPARED"

(* The generation's identity (sequence, fencing token and hash) does not   *)
(* cover the release; the hash of a state covers all of it.                *)
Token(s) == [seq |-> s.seq, mode |-> s.mode, reason |-> s.reason]

NoToken == [seq |-> 0, mode |-> Ready, reason |-> "none"]

InitialState ==
    [seq |-> 0, mode |-> Ready, reason |-> "initial", release |-> None,
     prev |-> NoToken]

(* nextState; mutant: the sequence is advanced twice.                      *)
AfterNext(s, mode, release, reason) ==
    [seq |-> s.seq + 2, mode |-> mode, reason |-> reason,
     release |-> release, prev |-> Token(s)]

After(s, mode, release, reason) ==
    [seq |-> s.seq + 1, mode |-> mode, reason |-> reason,
     release |-> release, prev |-> Token(s)]

(* a is b, or of an earlier generation.                                    *)
Upto(a, b) == a = b \/ a.seq < b.seq

(* The file f has s, or a later generation.                                *)
Covers(f, s) == f # None /\ Upto(s, f)

Status == [kind |-> "status", expect |-> None, arg |-> None]

Resting    == [pc |-> "idle", call |-> Status, state |-> None, wrote |-> FALSE]
NoRequest  == [phase |-> "token", token |-> NoToken, at |-> NoToken]

Init ==
    /\ disk = None
    /\ durable = None
    /\ loose = {}
    /\ lost = {}
    /\ fileLock = None
    /\ thread = [t \in Threads |-> Resting]
    /\ request = [h \in Handlers |-> NoRequest]
    /\ acked = {}

-----------------------------------------------------------------------------
(* withLock *)

InLock == {"waiting", "locked", "rename", "sync", "unlock"}

(* The virtual machine knows of a lock one of its threads has or awaits.   *)
KnownLock(p) == \E t \in Threads : ProcessOf(t) = p /\ thread[t].pc \in InLock

Unlocked(p) == IF fileLock = p THEN None ELSE fileLock

(* FileChannel.lock, up to the wait for other processes.  If a thread of   *)
(* the same process is there first it throws, and the channel is closed.   *)
Enter(t, call) ==
    /\ thread[t].pc = "idle"
    /\ IF KnownLock(ProcessOf(t))
       THEN /\ fileLock' = Unlocked(ProcessOf(t))
            /\ thread' = [thread EXCEPT ![t] =
                            [Resting EXCEPT !.pc = "closed", !.call = call]]
       ELSE /\ thread' = [thread EXCEPT ![t] =
                            [Resting EXCEPT !.pc = "waiting", !.call = call]]
            /\ UNCHANGED fileLock
    /\ UNCHANGED <<disk, durable, loose, lost, acked>>

Obtain(t) ==
    /\ thread[t].pc = "waiting"
    /\ fileLock \in {None, ProcessOf(t)}
    /\ fileLock' = ProcessOf(t)
    /\ thread' = [thread EXCEPT ![t].pc = "locked"]
    /\ UNCHANGED <<disk, durable, loose, lost, request, acked>>

-----------------------------------------------------------------------------
(* The operation, under the lock, on the current state s.                  *)

Leave(t, s, wrote) ==
    thread' = [thread EXCEPT ![t].pc = "unlock", ![t].state = s,
                             ![t].wrote = wrote]

Refuse(t) == Leave(t, None, FALSE)

Replace(t, s) == thread' = [thread EXCEPT ![t].pc = "rename", ![t].state = s]

(* compareStateHash; mutant: the caller's hash is not compared.            *)
AnyHashMatches(call, s) == TRUE

HashMatches(call, s) == call.expect = s

Prepare(t, s) ==
    LET call == thread[t].call IN
    IF ~HashMatches(call, s) THEN Refuse(t)
    ELSE IF s.mode = Ready
    THEN Replace(t, After(s, Prepared, call.arg, "five_authority_cutover_prepared"))
    ELSE IF s.release = call.arg THEN Leave(t, s, FALSE)
    ELSE Refuse(t)

Rollback(t, s) ==
    LET call == thread[t].call IN
    IF ~HashMatches(call, s) THEN Refuse(t)
    ELSE IF s.mode = Prepared
    THEN Replace(t, After(s, Ready, s.release, call.arg))
    ELSE Leave(t, s, FALSE)

Decide(t, s) ==
    CASE thread[t].call.kind = "prepare"  -> Prepare(t, s)
      [] thread[t].call.kind = "rollback" -> Rollback(t, s)
      [] OTHER                            -> Leave(t, s, FALSE)

(* readOrInitialize, and the decision when there is a state.               *)
Read(t) ==
    /\ thread[t].pc = "locked"
    /\ IF disk = None THEN Replace(t, InitialState) ELSE Decide(t, disk)
    /\ UNCHANGED <<disk, durable, loose, lost, fileLock, request, acked>>

(* writeAtomic: the temporary file is written and forced, then moved over  *)
(* the state file, then the directory is forced.                           *)
Rename(t) ==
    /\ thread[t].pc = "rename"
    /\ disk' = thread[t].state
    /\ loose' = loose \cup {thread[t].state}
    /\ lost' = lost \ {thread[t].state}
    /\ thread' = [thread EXCEPT ![t].pc = "sync"]
    /\ UNCHANGED <<durable, fileLock, request, acked>>

(* Reading or writing the file throws.                                     *)
FileFails(t) ==
    /\ thread[t].pc \in {"locked", "rename"}
    /\ Refuse(t)
    /\ UNCHANGED <<disk, durable, loose, lost, fileLock, request, acked>>

(* Mutant: the directory is not forced.                                    *)
NotForced == durable

Forced == disk

(* After the initial state the operation goes on, after another it is done.*)
GoesOn(t) ==
    IF thread[t].state = InitialState
    THEN Decide(t, InitialState)
    ELSE Leave(t, thread[t].state, TRUE)

Sync(t) ==
    /\ thread[t].pc = "sync"
    /\ durable' = Forced
    /\ loose' = {}
    /\ GoesOn(t)
    /\ UNCHANGED <<disk, lost, fileLock, request, acked>>

(* The directory cannot be opened or forced: the exception is swallowed    *)
(* and the call goes on as after a force.                                  *)
ForceFails(t) ==
    /\ thread[t].pc = "sync"
    /\ GoesOn(t)
    /\ UNCHANGED <<disk, durable, loose, lost, fileLock, request, acked>>

(* The lock is released first, its channel closed after that: in between   *)
(* another thread of the process may have taken the lock it then loses.    *)
Unlock(t) ==
    /\ thread[t].pc = "unlock"
    /\ fileLock' = Unlocked(ProcessOf(t))
    /\ thread' = [thread EXCEPT ![t].pc = "closed"]
    /\ UNCHANGED <<disk, durable, loose, lost, request, acked>>

(* The call is over: state is what it returns, None if it threw.           *)
Close(t) ==
    LET s == thread[t].state IN
    /\ thread[t].pc = "closed"
    /\ fileLock' = Unlocked(ProcessOf(t))
    /\ thread' = [thread EXCEPT ![t] = Resting]
    /\ acked' = IF thread[t].wrote THEN acked \cup {s} ELSE acked
    /\ UNCHANGED <<disk, durable, loose, lost>>

-----------------------------------------------------------------------------
(* The calls.  An operator presents the hash of the state it was shown,    *)
(* which may no longer be the current one when it has the lock.            *)

Calls ==
    {Status}
    \cup [kind: {"prepare"}, expect: {disk}, arg: Releases]
    \cup [kind: {"rollback"}, expect: {disk}, arg: Reasons]

OperatorCalls(o) ==
    /\ \E call \in Calls :
          /\ call # Status => disk # None /\ disk.seq < MaxSeq
          /\ Enter(o, call)
    /\ UNCHANGED request

OperatorReturns(o) == Close(o) /\ UNCHANGED request

(* RootBoundAuthorityAdapter.execute: take a token, check it, run the      *)
(* operation, check the token again.  Each reads the state file.           *)
HandlerReads(h) ==
    /\ request[h].phase \in {"token", "before", "after"}
    /\ request[h].phase = "token" => disk # None
    /\ Enter(h, Status)
    /\ UNCHANGED request

(* requireCurrent; mutant: the second check is not made.                   *)
CurrentOnlyBefore(r, s) == r.phase = "after" \/ r.token = Token(s)

Current(r, s) == r.token = Token(s)

HandlerReturns(h) ==
    LET s == thread[h].state
        r == request[h] IN
    /\ Close(h)
    /\ request' = [request EXCEPT ![h] =
         IF s = None                THEN NoRequest
         ELSE IF r.phase = "token"  THEN [r EXCEPT !.phase = "before",
                                                   !.token = Token(s)]
         ELSE IF ~Current(r, s)     THEN NoRequest
         ELSE IF r.phase = "before" THEN [r EXCEPT !.phase = "run"]
                                    ELSE [r EXCEPT !.phase = "returned"]]

(* The operation takes effect; "at" records under which generation.        *)
Run(h) ==
    /\ thread[h].pc = "idle"
    /\ request[h].phase = "run"
    /\ request' = [request EXCEPT ![h].phase = "after", ![h].at = Token(disk)]
    /\ UNCHANGED <<disk, durable, loose, lost, fileLock, thread, acked>>

NextRequest(h) ==
    /\ request[h].phase = "returned"
    /\ request' = [request EXCEPT ![h] = NoRequest]
    /\ UNCHANGED <<disk, durable, loose, lost, fileLock, thread, acked>>

-----------------------------------------------------------------------------
(* Failures *)

(* The system frees the locks of dead processes; mutant: they stay.        *)
LockStays(P) == fileLock

LockAfter(P) == IF fileLock \in P THEN None ELSE fileLock

KilledIn(P) ==
    /\ thread' = [t \in Threads |->
                    IF ProcessOf(t) \in P THEN Resting ELSE thread[t]]
    /\ request' = [h \in Handlers |->
                    IF Server \in P THEN NoRequest ELSE request[h]]
    /\ fileLock' = LockAfter(P)
    /\ UNCHANGED acked

Kill(p) ==
    /\ KilledIn({p})
    /\ UNCHANGED <<disk, durable, loose, lost>>

(* What was moved in place with no force after it may be taken back.       *)
PowerFailure ==
    /\ KilledIn(Processes)
    /\ disk' \in {durable} \cup loose
    /\ durable' = disk'
    /\ loose' = {}
    /\ lost' = lost \cup {s \in loose : ~Covers(disk', s)}

Next ==
    \/ \E t \in Threads : \/ Obtain(t) \/ Read(t) \/ Rename(t)
                          \/ FileFails(t) \/ Sync(t) \/ ForceFails(t)
                          \/ Unlock(t)
    \/ \E o \in Operators : OperatorCalls(o) \/ OperatorReturns(o)
    \/ \E h \in Handlers : \/ HandlerReads(h) \/ HandlerReturns(h)
                           \/ Run(h) \/ NextRequest(h)
    \/ \E p \in Processes : Kill(p)
    \/ PowerFailure

Spec == Init /\ [][Next]_vars

(* Calls run to their end, and the system's queue for the lock is fair.    *)
FairSpec ==
    /\ Spec
    /\ \A t \in Threads : /\ SF_vars(Obtain(t))
                          /\ WF_vars(Read(t) \/ Rename(t) \/ Sync(t) \/ Unlock(t))
    /\ \A o \in Operators : WF_vars(OperatorReturns(o))
    /\ \A h \in Handlers : WF_vars(HandlerReturns(h))

-----------------------------------------------------------------------------
(* Properties *)

Tokens == [seq: 0..MaxSeq, mode: {Ready, Prepared},
           reason: Reasons \cup {"none", "initial", "five_authority_cutover_prepared"}]
States == [seq: 0..MaxSeq, mode: {Ready, Prepared},
           reason: Reasons \cup {"initial", "five_authority_cutover_prepared"},
           release: Releases \cup {None}, prev: Tokens]
CallType == [kind: {"status", "prepare", "rollback"}, expect: States \cup {None},
             arg: Releases \cup Reasons \cup {None}]
Local    == [pc: InLock \cup {"idle", "closed"}, call: CallType,
             state: States \cup {None}, wrote: BOOLEAN]
Request  == [phase: {"token", "before", "run", "after", "returned"},
             token: Tokens, at: Tokens]

(* Every variable holds a value of its kind; generations stay in sequence. *)
TypeOK ==
    /\ disk \in States \cup {None}
    /\ durable \in States \cup {None}
    /\ loose \in SUBSET States
    /\ lost \in SUBSET States
    /\ fileLock \in Processes \cup {None}
    /\ thread \in [Threads -> Local]
    /\ request \in [Handlers -> Request]
    /\ acked \in SUBSET States

(* The generation a write replaces is the one whose hash its caller        *)
(* presented, still current when the file is moved and not only when it    *)
(* was compared: operators who race never overwrite a generation they were *)
(* not shown.  Only a power failure takes back, and only what was not      *)
(* durable.                                                                *)
NoLostUpdate ==
    [][disk' # disk =>
         \/ /\ disk' \in {durable} \cup loose
            /\ thread' = [t \in Threads |-> Resting]
         \/ disk = None /\ disk' = InitialState
         \/ \E o \in Operators : /\ thread[o].pc = "rename"
                                 /\ thread[o].call.expect = disk
                                 /\ disk'.seq = disk.seq + 1]_vars

(* No kill loses a generation whose creation was acknowledged, or puts     *)
(* another of the same sequence in its place: what the operator was told   *)
(* is what every later process finds.  A power failure does so only when   *)
(* no force of the directory succeeded after the move, because writeAtomic *)
(* acknowledges a generation whose force failed.                           *)
AckedSurvives == \A s \in acked \ lost : Covers(disk, s)

(* An operation whose result the adapter returns took effect under the     *)
(* generation of its token, although the generation may rotate at any      *)
(* moment and neither check is made at that moment.                        *)
ReturnedUnderItsToken ==
    \A h \in Handlers :
        request[h].phase = "returned" => request[h].at = request[h].token

(* Whoever waits for the lock gets it or is killed, whichever process dies *)
(* or fails while it holds it.                                             *)
CallsReturn ==
    \A t \in Threads : thread[t].pc = "waiting" ~> thread[t].pc \in {"idle", "closed"}

-----------------------------------------------------------------------------
(* The inductive invariant of the proofs.                                  *)

ASSUME NoneAssumption == None \notin States

Inside == {"locked", "rename", "sync", "unlock"}
Over   == {"unlock", "closed"}

(* Only operators call what writes, with the hash of a state there was and *)
(* while the bound leaves a sequence for its successor.                    *)
CallsInv ==
    \A t \in Threads :
        LET call == thread[t].call IN
        /\ call.kind # "status" => /\ t \in Operators
                                   /\ call.expect \in States
                                   /\ call.expect.seq < MaxSeq
        /\ call.kind = "prepare" => call.arg \in Releases
        /\ call.kind = "rollback" => call.arg \in Reasons

TypeInv == TypeOK /\ CallsInv

(* An operator inside the lock has it: the lock is the process's, and the  *)
(* process has no other thread that could give it up.                      *)
OperatorOwnsLock ==
    \A o \in Operators : thread[o].pc \in Inside => fileLock = o

(* The server, whose threads do give up each other's lock, never writes:   *)
(* it is asked only when there is a state to read.                         *)
HandlersOnlyRead ==
    \A h \in Handlers :
        /\ thread[h].pc \notin {"rename", "sync"}
        /\ ~thread[h].wrote
        /\ thread[h].pc # "idle" \/ request[h].phase # "token" => disk # None

(* What is about to replace the state file succeeds what is in it.         *)
Succeeds(s, call) ==
    \/ disk = None /\ s = InitialState
    \/ disk # None /\ call.expect = disk /\ s.seq = disk.seq + 1

RenameSucceeds ==
    \A o \in Operators :
        /\ thread[o].pc = "rename" => /\ thread[o].state # None
                                      /\ Succeeds(thread[o].state, thread[o].call)
        /\ thread[o].pc = "sync" => disk # None /\ thread[o].state = disk

(* The forced file is behind the file, and what is loose between the two.  *)
DurableBehind ==
    /\ disk # None => disk = durable \/ disk \in loose
    /\ durable # None => Covers(disk, durable)
    /\ \A s \in loose : Covers(disk, s) /\ (durable # None => Upto(durable, s))

(* The only ways an acknowledged generation may be, or become, lost.       *)
Accounted(s) == Covers(durable, s) \/ s \in loose \/ s \in lost

WrittenIsAccounted ==
    /\ \A o \in Operators : thread[o].pc \in Over /\ thread[o].wrote =>
           thread[o].state # None /\ Accounted(thread[o].state)
    /\ \A s \in acked : Accounted(s)

WriteInv ==
    /\ TypeInv
    /\ OperatorOwnsLock
    /\ HandlersOnlyRead
    /\ RenameSucceeds
    /\ DurableBehind
    /\ WrittenIsAccounted

(* Tokens, operations and answers of a request follow each other in the    *)
(* order of the generations.                                               *)
AnswersInOrder ==
    \A h \in Handlers :
        LET r == request[h]
            s == thread[h].state IN
        /\ r.phase # "token" => Upto(r.token, Token(disk))
        /\ r.phase \in {"after", "returned"} =>
              Upto(r.token, r.at) /\ Upto(r.at, Token(disk))
        /\ r.phase = "run" => thread[h].pc = "idle"
        /\ r.phase = "returned" => r.at = r.token
        /\ thread[h].pc \in Over /\ s # None =>
              /\ Upto(Token(s), Token(disk))
              /\ r.phase = "after" => Upto(r.at, Token(s))
=============================================================================
