---------------------- MODULE AuthorityGenerationProofs ----------------------
(* Proofs about AuthorityGeneration, for any operators, handlers, releases *)
(* and reasons and any bound on the generations.                           *)
EXTENDS AuthorityGeneration, TLAPS

-----------------------------------------------------------------------------
(* Types *)

(* The initial generation is a state.                                      *)
LEMMA InitialIsState == InitialState \in States
    BY GenerationAssumption DEF InitialState, NoToken, States, Tokens, Ready, Prepared

(* A state's token is a token.                                             *)
LEMMA TokenType ==
    ASSUME NEW s \in States
    PROVE  Token(s) \in Tokens /\ Token(s).seq = s.seq
    BY DEF States, Tokens, Token

(* A state has a successor below the bound.                                *)
LEMMA AfterType ==
    ASSUME NEW s \in States, s.seq < MaxSeq, NEW mode \in {Ready, Prepared},
           NEW release \in Releases \cup {None},
           NEW reason \in Reasons \cup {"five_authority_cutover_prepared"}
    PROVE  /\ After(s, mode, release, reason) \in States
           /\ After(s, mode, release, reason).seq = s.seq + 1
  <1>1. s.seq + 1 \in 0..MaxSeq
    BY GenerationAssumption DEF States
  <1>. QED BY <1>1, TokenType DEF After, States

(* What a decision does to its thread: it answers with the state it read,  *)
(* refuses, or goes on to replace it with a successor, if it is an         *)
(* operator that was shown it.                                             *)
LEMMA DecideStep ==
    ASSUME TypeInv, NEW t \in Threads, NEW s \in States, Decide(t, s)
    PROVE  /\ thread' \in [Threads -> Local]
           /\ \A v \in Threads \ {t} : thread'[v] = thread[v]
           /\ thread'[t].call = thread[t].call
           /\ \/ /\ thread'[t].pc = "unlock"
                 /\ thread'[t].state \in {s, None}
                 /\ thread'[t].wrote = FALSE
              \/ /\ t \in Operators
                 /\ thread'[t].pc = "rename"
                 /\ thread'[t].state \in States
                 /\ thread'[t].state.seq = s.seq + 1
                 /\ thread'[t].wrote = thread[t].wrote
                 /\ thread[t].call.expect = s
  <1>. DEFINE call == thread[t].call
  <1>0. thread \in [Threads -> Local]
    BY DEF TypeInv, TypeOK
  <1>1. ASSUME NEW r \in {s, None}, Leave(t, r, FALSE)
        PROVE  /\ thread' \in [Threads -> Local]
               /\ \A v \in Threads \ {t} : thread'[v] = thread[v]
               /\ thread'[t].call = thread[t].call
               /\ thread'[t].pc = "unlock"
               /\ thread'[t].state \in {s, None}
               /\ thread'[t].wrote = FALSE
    BY <1>0, <1>1 DEF Leave, Local, InLock
  <1>2. ASSUME NEW r \in States, Replace(t, r)
        PROVE  /\ thread' \in [Threads -> Local]
               /\ \A v \in Threads \ {t} : thread'[v] = thread[v]
               /\ thread'[t].call = thread[t].call
               /\ thread'[t].pc = "rename"
               /\ thread'[t].state = r
               /\ thread'[t].wrote = thread[t].wrote
    BY <1>0, <1>2 DEF Replace, Local, InLock
  <1>3. CASE call.kind = "prepare"
    <2>1. /\ t \in Operators /\ call.expect \in States
          /\ call.expect.seq < MaxSeq /\ call.arg \in Releases
      BY <1>3 DEF TypeInv, CallsInv
    <2>2. Prepare(t, s)
      BY <1>3 DEF Decide
    <2>3. CASE call.expect = s /\ s.mode = Ready
      <3>. DEFINE r == After(s, Prepared, call.arg, "five_authority_cutover_prepared")
      <3>1. r \in States /\ r.seq = s.seq + 1
        BY <2>1, <2>3, AfterType
      <3>2. Replace(t, r)
        BY <2>2, <2>3 DEF Prepare, HashMatches
      <3>. HIDE DEF r
      <3>. QED BY <1>2, <2>1, <2>3, <3>1, <3>2
    <2>4. CASE ~(call.expect = s /\ s.mode = Ready)
      <3>1. Leave(t, s, FALSE) \/ Leave(t, None, FALSE)
        BY <2>2, <2>4 DEF Prepare, HashMatches, Refuse
      <3>. QED BY <1>1, <3>1
    <2>. QED BY <2>3, <2>4
  <1>4. CASE call.kind = "rollback"
    <2>1. /\ t \in Operators /\ call.expect \in States
          /\ call.expect.seq < MaxSeq /\ call.arg \in Reasons
      BY <1>4 DEF TypeInv, CallsInv
    <2>2. Rollback(t, s)
      BY <1>4 DEF Decide
    <2>3. CASE call.expect = s /\ s.mode = Prepared
      <3>. DEFINE r == After(s, Ready, s.release, call.arg)
      <3>1. r \in States /\ r.seq = s.seq + 1
        <4>1. s.release \in Releases \cup {None}
          BY DEF States
        <4>. QED BY <2>1, <2>3, <4>1, AfterType
      <3>2. Replace(t, r)
        BY <2>2, <2>3 DEF Rollback, HashMatches
      <3>. HIDE DEF r
      <3>. QED BY <1>2, <2>1, <2>3, <3>1, <3>2
    <2>4. CASE ~(call.expect = s /\ s.mode = Prepared)
      <3>1. Leave(t, s, FALSE) \/ Leave(t, None, FALSE)
        BY <2>2, <2>4 DEF Rollback, HashMatches, Refuse
      <3>. QED BY <1>1, <3>1
    <2>. QED BY <2>3, <2>4
  <1>5. CASE call.kind \notin {"prepare", "rollback"}
    <2>1. Leave(t, s, FALSE)
      BY <1>5 DEF Decide
    <2>. QED BY <1>1, <2>1
  <1>. QED BY <1>3, <1>4, <1>5

(* A thread that is not in a call.                                         *)
LEMMA RestingType ==
    /\ Resting \in Local
    /\ NoRequest \in Request
    /\ NoToken \in Tokens
    BY GenerationAssumption
    DEF Resting, Status, Local, CallType, NoRequest, Request, NoToken, Tokens,
        Ready, Prepared

(* The calls an operator may make.                                         *)
LEMMA CallsAreTyped ==
    ASSUME TypeInv, NEW call \in Calls,
           call # Status => disk # None /\ disk.seq < MaxSeq
    PROVE  /\ call \in CallType
           /\ call.kind # "status" => call.expect \in States /\ call.expect.seq < MaxSeq
           /\ call.kind = "prepare" => call.arg \in Releases
           /\ call.kind = "rollback" => call.arg \in Reasons
    BY DEF TypeInv, TypeOK, Calls, Status, CallType

(* The state a thread brings to the end of its call.                       *)
LEMMA WroteAState ==
    ASSUME WriteInv, NEW t \in Threads, thread[t].pc \in Over, thread[t].wrote
    PROVE  t \in Operators /\ thread[t].state \in States
    BY DEF WriteInv, TypeInv, TypeOK, Local, HandlersOnlyRead, WrittenIsAccounted,
           Threads

(* Entering and closing the lock file.                                     *)
LEMMA EnterStep ==
    ASSUME TypeOK, NEW t \in Threads, NEW call \in CallType, Enter(t, call)
    PROVE  /\ thread' \in [Threads -> Local]
           /\ \A v \in Threads \ {t} : thread'[v] = thread[v]
           /\ thread'[t].pc = "waiting" \/ thread'[t].pc = "closed"
           /\ KnownLock(ProcessOf(t)) <=> thread'[t].pc = "closed"
           /\ thread'[t].call = call
           /\ thread'[t].state = None
           /\ thread'[t].wrote = FALSE
           /\ fileLock' \in {fileLock, Unlocked(ProcessOf(t))}
           /\ fileLock' \in Processes \cup {None}
  <1>. DEFINE r(pc) == [Resting EXCEPT !.pc = pc, !.call = call]
  <1>1. \A pc \in {"waiting", "closed"} :
           /\ r(pc) \in Local
           /\ r(pc).pc = pc /\ r(pc).call = call
           /\ r(pc).state = None /\ r(pc).wrote = FALSE
    BY DEF Resting, Local, InLock
  <1>2. CASE KnownLock(ProcessOf(t))
    <2>1. /\ thread' = [thread EXCEPT ![t] = r("closed")]
          /\ fileLock' = Unlocked(ProcessOf(t))
      BY <1>2 DEF Enter
    <2>. HIDE DEF r
    <2>. QED BY <1>1, <1>2, <2>1 DEF TypeOK, Unlocked
  <1>3. CASE ~KnownLock(ProcessOf(t))
    <2>1. thread' = [thread EXCEPT ![t] = r("waiting")] /\ fileLock' = fileLock
      BY <1>3 DEF Enter
    <2>. HIDE DEF r
    <2>. QED BY <1>1, <1>3, <2>1 DEF TypeOK
  <1>. QED BY <1>2, <1>3

(* A call ends, and what it wrote is acknowledged.                         *)
LEMMA CloseStep ==
    ASSUME WriteInv, NEW t \in Threads, Close(t)
    PROVE  /\ thread' \in [Threads -> Local]
           /\ \A v \in Threads \ {t} : thread'[v] = thread[v]
           /\ thread'[t] = Resting
           /\ fileLock' = Unlocked(ProcessOf(t))
           /\ fileLock' \in Processes \cup {None}
           /\ acked' \in SUBSET States
  <1>1. TypeOK /\ Resting \in Local
    BY RestingType DEF WriteInv, TypeInv
  <1>2. acked' \in SUBSET States
    BY <1>1, WroteAState DEF Close, TypeOK, Over
  <1>. QED BY <1>1, <1>2 DEF Close, TypeOK, Unlocked

(* What every step leaves of the types and of the calls' arguments.        *)
LEMMA StepTypes == WriteInv /\ [Next]_vars => TypeInv'
  <1>. SUFFICES ASSUME WriteInv, [Next]_vars PROVE TypeInv'
    OBVIOUS
  <1>1. TypeInv /\ TypeOK /\ CallsInv
    BY DEF WriteInv, TypeInv
  <1>2. ASSUME thread' \in [Threads -> Local],
               \A t \in Threads : thread'[t].call \in {thread[t].call, Status}
        PROVE  CallsInv'
    BY <1>1, <1>2 DEF CallsInv, Status
  <1>3. ASSUME NEW t \in Threads, Obtain(t) \/ Rename(t) \/ Unlock(t)
        PROVE  TypeInv'
    <2>0. ASSUME Rename(t) PROVE thread[t].state \in States
      BY <2>0, NoneAssumption DEF WriteInv, TypeInv, TypeOK, Local, Rename,
         HandlersOnlyRead, RenameSucceeds, Threads
    <2>1. TypeOK' /\ \A v \in Threads : thread'[v].call = thread[v].call
      <3>1. ProcessOf(t) \in Processes
        BY DEF ProcessOf, Processes
      <3>2. CASE Obtain(t)
        BY <1>1, <3>1, <3>2 DEF Obtain, TypeOK, Local, InLock
      <3>3. CASE Rename(t)
        BY <1>1, <2>0, <3>3 DEF Rename, TypeOK, Local, InLock
      <3>4. CASE Unlock(t)
        BY <1>1, <3>1, <3>4 DEF Unlock, Unlocked, TypeOK, Local, InLock
      <3>. QED BY <1>3, <3>2, <3>3, <3>4
    <2>. QED BY <1>2, <2>1 DEF TypeOK, TypeInv
  <1>4. ASSUME NEW t \in Threads,
               Read(t) \/ Sync(t) \/ ForceFails(t) \/ FileFails(t)
        PROVE  TypeInv'
    <2>1. ASSUME NEW s \in States, Decide(t, s)
          PROVE  /\ thread' \in [Threads -> Local]
                 /\ \A v \in Threads : thread'[v].call = thread[v].call
      BY <1>1, <2>1, DecideStep
    <2>2. ASSUME NEW s \in States \cup {None}, NEW wrote \in BOOLEAN,
                 Replace(t, s) \/ Leave(t, s, wrote)
          PROVE  /\ thread' \in [Threads -> Local]
                 /\ \A v \in Threads : thread'[v].call = thread[v].call
      BY <1>1, <2>2 DEF Replace, Leave, TypeOK, Local, InLock
    <2>3. /\ thread' \in [Threads -> Local]
          /\ \A v \in Threads : thread'[v].call = thread[v].call
      <3>1. CASE Read(t)
        BY <1>1, <2>1, <2>2, <3>1, InitialIsState DEF Read, TypeOK
      <3>2. CASE Sync(t) \/ ForceFails(t)
        BY <1>1, <2>1, <2>2, <3>2, InitialIsState
        DEF Sync, ForceFails, GoesOn, TypeOK, Local
      <3>3. CASE FileFails(t)
        BY <2>2, <3>3 DEF FileFails, Refuse
      <3>. QED BY <1>4, <3>1, <3>2, <3>3
    <2>4. /\ UNCHANGED <<disk, lost, fileLock, request, acked>>
          /\ durable' \in {durable, disk} /\ loose' \in {loose, {}}
      BY <1>4 DEF Read, Sync, ForceFails, FileFails, Forced
    <2>. QED BY <1>1, <1>2, <2>3, <2>4 DEF TypeOK, TypeInv
  <1>5. ASSUME NEW o \in Operators, OperatorCalls(o)
        PROVE  TypeInv'
    <2>1. PICK call \in Calls : /\ call # Status => disk # None /\ disk.seq < MaxSeq
                               /\ Enter(o, call)
      BY <1>5 DEF OperatorCalls
    <2>2. o \in Threads
      BY DEF Threads
    <2>3. UNCHANGED <<disk, durable, loose, lost, request, acked>>
      BY <1>5, <2>1 DEF OperatorCalls, Enter
    <2>4. TypeOK'
      BY <1>1, <2>1, <2>2, <2>3, CallsAreTyped, EnterStep DEF TypeOK
    <2>5. \A t \in Threads : thread'[t].call \in {thread[t].call, call}
      BY <1>1, <2>1, <2>2, CallsAreTyped, EnterStep
    <2>6. \A t \in Threads \ {o} : thread'[t].call = thread[t].call
      BY <1>1, <2>1, <2>2, CallsAreTyped, EnterStep
    <2>7. CallsInv'
      BY <1>1, <2>1, <2>5, <2>6, CallsAreTyped DEF CallsInv
    <2>. QED BY <2>4, <2>7 DEF TypeInv
  <1>6. ASSUME NEW h \in Handlers, HandlerReads(h)
        PROVE  TypeInv'
    <2>1. Enter(h, Status) /\ h \in Threads /\ Status \in CallType
      BY <1>6 DEF HandlerReads, Threads, Status, CallType
    <2>2. UNCHANGED <<disk, durable, loose, lost, request, acked>>
      BY <1>6 DEF HandlerReads, Enter
    <2>. QED BY <1>1, <1>2, <2>1, <2>2, EnterStep DEF TypeInv, TypeOK
  <1>7. ASSUME NEW o \in Operators, OperatorReturns(o)
        PROVE  TypeInv'
    <2>1. Close(o) /\ o \in Threads
      BY <1>7 DEF OperatorReturns, Threads
    <2>2. UNCHANGED <<disk, durable, loose, lost, request>>
      BY <1>7 DEF OperatorReturns, Close
    <2>. QED BY <1>1, <1>2, <2>1, <2>2, CloseStep DEF TypeInv, TypeOK, Resting
  <1>8. ASSUME NEW h \in Handlers, HandlerReturns(h)
        PROVE  TypeInv'
    <2>1. Close(h) /\ h \in Threads
      BY <1>8 DEF HandlerReturns, Threads
    <2>2. UNCHANGED <<disk, durable, loose, lost>>
      BY <1>8, <2>1 DEF Close
    <2>3. request' \in [Handlers -> Request]
      <3>1. thread[h].state # None => Token(thread[h].state) \in Tokens
        BY <1>1, <2>1, TokenType DEF TypeOK, Local
      <3>. QED BY <1>1, <1>8, <3>1, RestingType DEF HandlerReturns, TypeOK, Request
    <2>. QED BY <1>1, <1>2, <2>1, <2>2, <2>3, CloseStep DEF TypeInv, TypeOK, Resting
  <1>9. ASSUME NEW h \in Handlers, Run(h) \/ NextRequest(h)
        PROVE  TypeInv'
    <2>1. UNCHANGED <<disk, durable, loose, lost, fileLock, thread, acked>>
      BY <1>9 DEF Run, NextRequest
    <2>2. request' \in [Handlers -> Request]
      <3>1. CASE Run(h)
        <4>1. Token(disk) \in Tokens
          BY <1>1, <3>1, TokenType DEF Run, WriteInv, HandlersOnlyRead, TypeOK
        <4>. QED BY <1>1, <3>1, <4>1 DEF Run, TypeOK, Request
      <3>2. CASE NextRequest(h)
        BY <1>1, <3>2, RestingType DEF NextRequest, TypeOK
      <3>. QED BY <1>9, <3>1, <3>2
    <2>. QED BY <1>1, <1>2, <2>1, <2>2 DEF TypeInv, TypeOK
  <1>10. ASSUME NEW P \in SUBSET Processes, KilledIn(P),
                disk' \in States \cup {None}, durable' \in States \cup {None},
                loose' \in SUBSET States, lost' \in SUBSET States
         PROVE  TypeInv'
    <2>1. /\ thread' \in [Threads -> Local]
          /\ \A t \in Threads : thread'[t].call \in {thread[t].call, Status}
      BY <1>1, <1>10, RestingType DEF KilledIn, TypeOK, Resting
    <2>2. request' \in [Handlers -> Request]
      BY <1>1, <1>10, RestingType DEF KilledIn, TypeOK
    <2>. QED BY <1>1, <1>2, <1>10, <2>1, <2>2
         DEF KilledIn, LockAfter, TypeInv, TypeOK
  <1>11. CASE UNCHANGED vars
    BY <1>1, <1>2, <1>11 DEF vars, TypeInv, TypeOK
  <1>12. ASSUME NEW p \in Processes, Kill(p) PROVE TypeInv'
    BY <1>1, <1>10, <1>12 DEF Kill, TypeOK
  <1>13. ASSUME PowerFailure PROVE TypeInv'
    BY <1>1, <1>10, <1>13 DEF PowerFailure, TypeOK
  <1>. QED
    BY <1>3, <1>4, <1>5, <1>6, <1>7, <1>8, <1>9, <1>11, <1>12, <1>13 DEF Next

-----------------------------------------------------------------------------
(* The lock *)

(* An operator is a process of its own.                                    *)
LEMMA OwnProcess ==
    ASSUME NEW t \in Threads, NEW o \in Operators, t # o
    PROVE  ProcessOf(t) # o
    BY GenerationAssumption DEF Threads, ProcessOf

(* Two operators are never inside the lock together.                       *)
LEMMA OneInside ==
    ASSUME OperatorOwnsLock, NEW o \in Operators, NEW v \in Operators,
           thread[o].pc \in Inside, thread[v].pc \in Inside
    PROVE  v = o
    BY DEF OperatorOwnsLock

(* No step of another process takes the lock from an operator inside it.   *)
LEMMA StepOwnsLock == WriteInv /\ [Next]_vars => OperatorOwnsLock'
  <1>. SUFFICES ASSUME WriteInv, [Next]_vars PROVE OperatorOwnsLock'
    OBVIOUS
  <1>1. TypeInv /\ TypeOK /\ OperatorOwnsLock
    BY DEF WriteInv, TypeInv
  <1>2. ASSUME NEW t \in Threads,
               \A v \in Threads \ {t} : thread'[v] = thread[v],
               \/ fileLock' \in {fileLock, Unlocked(ProcessOf(t))}
               \/ fileLock \in {None, ProcessOf(t)},
               t \in Operators /\ thread'[t].pc \in Inside => fileLock' = t
        PROVE  OperatorOwnsLock'
    <2>. SUFFICES ASSUME NEW o \in Operators, thread'[o].pc \in Inside
                  PROVE  fileLock' = o
      BY DEF OperatorOwnsLock
    <2>1. CASE o = t
      BY <1>2, <2>1
    <2>2. CASE o # t
      <3>1. o \in Threads /\ thread'[o] = thread[o]
        BY <1>2, <2>2 DEF Threads
      <3>2. fileLock = o /\ fileLock # ProcessOf(t) /\ fileLock # None
        BY <1>1, <2>2, <3>1, OwnProcess, GenerationAssumption
        DEF OperatorOwnsLock, Processes
      <3>. QED BY <1>2, <3>2 DEF Unlocked
    <2>. QED BY <2>1, <2>2
  <1>3. ASSUME NEW t \in Threads, Obtain(t) PROVE OperatorOwnsLock'
    <2>1. t \in Operators => fileLock' = t
      BY <1>3 DEF Obtain, ProcessOf
    <2>2. \A v \in Threads \ {t} : thread'[v] = thread[v]
      BY <1>1, <1>3 DEF Obtain, TypeOK
    <2>. QED BY <1>2, <1>3, <2>1, <2>2 DEF Obtain
  <1>4. ASSUME NEW t \in Threads,
               Read(t) \/ Rename(t) \/ FileFails(t) \/ Sync(t) \/ ForceFails(t)
        PROVE  OperatorOwnsLock'
    <2>1. fileLock' = fileLock /\ thread[t].pc \in Inside
      BY <1>4 DEF Read, Rename, FileFails, Sync, ForceFails, Inside
    <2>2. t \in Operators => fileLock' = t
      BY <1>1, <2>1 DEF OperatorOwnsLock
    <2>3. \A v \in Threads \ {t} : thread'[v] = thread[v]
      <3>1. CASE Read(t) \/ Sync(t) \/ ForceFails(t)
        <4>1. ASSUME NEW s \in States, Decide(t, s)
              PROVE  \A v \in Threads \ {t} : thread'[v] = thread[v]
          BY <1>1, <4>1, DecideStep
        <4>2. ASSUME NEW s, NEW wrote, Replace(t, s) \/ Leave(t, s, wrote)
              PROVE  \A v \in Threads \ {t} : thread'[v] = thread[v]
          BY <1>1, <4>2 DEF Replace, Leave, TypeOK
        <4>. QED BY <1>1, <3>1, <4>1, <4>2, InitialIsState
             DEF Read, Sync, ForceFails, GoesOn, TypeOK
      <3>2. CASE Rename(t) \/ FileFails(t)
        BY <1>1, <3>2 DEF Rename, FileFails, Refuse, Leave, TypeOK
      <3>. QED BY <1>4, <3>1, <3>2
    <2>. QED BY <1>2, <2>1, <2>2, <2>3
  <1>5. ASSUME NEW t \in Threads, Unlock(t) PROVE OperatorOwnsLock'
    <2>1. /\ \A v \in Threads \ {t} : thread'[v] = thread[v]
          /\ thread'[t].pc = "closed"
      BY <1>1, <1>5 DEF Unlock, TypeOK, Local
    <2>. QED BY <1>2, <1>5, <2>1 DEF Unlock, Inside
  <1>6. ASSUME NEW t \in Threads, NEW call \in CallType, Enter(t, call)
        PROVE  OperatorOwnsLock'
    <2>1. /\ \A v \in Threads \ {t} : thread'[v] = thread[v]
          /\ thread'[t].pc \notin Inside
          /\ fileLock' \in {fileLock, Unlocked(ProcessOf(t))}
      BY <1>1, <1>6, EnterStep DEF Inside
    <2>. QED BY <1>2, <2>1
  <1>7. ASSUME NEW t \in Threads, Close(t) PROVE OperatorOwnsLock'
    <2>1. thread'[t].pc \notin Inside
      BY <1>7, CloseStep DEF Resting, Inside
    <2>. QED BY <1>2, <1>7, <2>1, CloseStep
  <1>8. ASSUME NEW P \in SUBSET Processes, KilledIn(P) PROVE OperatorOwnsLock'
    <2>. SUFFICES ASSUME NEW o \in Operators, thread'[o].pc \in Inside
                  PROVE  fileLock' = o
      BY DEF OperatorOwnsLock
    <2>1. o \in Threads /\ ProcessOf(o) = o
      BY DEF Threads, ProcessOf
    <2>2. o \notin P /\ thread'[o] = thread[o]
      BY <1>8, <2>1 DEF KilledIn, Resting, Inside
    <2>. QED BY <1>1, <1>8, <2>2 DEF OperatorOwnsLock, KilledIn, LockAfter
  <1>9. ASSUME UNCHANGED <<thread, fileLock>> PROVE OperatorOwnsLock'
    BY <1>1, <1>9 DEF OperatorOwnsLock
  <1>10. ASSUME NEW o \in Operators, OperatorCalls(o) PROVE OperatorOwnsLock'
    BY <1>1, <1>6, <1>10, CallsAreTyped DEF OperatorCalls, Threads
  <1>11. ASSUME NEW h \in Handlers, HandlerReads(h) PROVE OperatorOwnsLock'
    <2>1. Status \in CallType
      BY DEF Status, CallType
    <2>. QED BY <1>6, <1>11, <2>1 DEF HandlerReads, Threads
  <1>. QED
    BY <1>3, <1>4, <1>5, <1>7, <1>8, <1>9, <1>10, <1>11
    DEF Next, vars, OperatorReturns, HandlerReturns, Run, NextRequest, Kill,
        PowerFailure, Threads

-----------------------------------------------------------------------------
(* What each step inside the lock does to its thread.                      *)

OthersStay(t) == \A v \in Threads \ {t} : thread'[v] = thread[v]

Answered(t, s) ==
    /\ thread'[t].pc = "unlock"
    /\ thread'[t].state \in {s, None}
    /\ ~thread'[t].wrote

Replacing(t, s) ==
    /\ t \in Operators
    /\ thread'[t].pc = "rename"
    /\ thread'[t].state \in States
    /\ thread'[t].state.seq = s.seq + 1
    /\ thread'[t].call.expect = s

(* Obtaining and releasing the lock, moving the file, and failing.         *)
LEMMA PlainStep ==
    ASSUME TypeInv, NEW t \in Threads
    PROVE  /\ Obtain(t) => /\ OthersStay(t)
                           /\ thread'[t] = [thread[t] EXCEPT !.pc = "locked"]
           /\ Rename(t) => /\ OthersStay(t)
                           /\ thread'[t] = [thread[t] EXCEPT !.pc = "sync"]
           /\ Unlock(t) => /\ OthersStay(t)
                           /\ thread'[t] = [thread[t] EXCEPT !.pc = "closed"]
           /\ FileFails(t) => OthersStay(t) /\ Answered(t, None)
  <1>1. thread \in [Threads -> Local]
    BY DEF TypeInv, TypeOK
  <1>2. FileFails(t) => OthersStay(t) /\ Answered(t, None)
    BY <1>1 DEF FileFails, Refuse, Leave, OthersStay, Answered, Local
  <1>. QED BY <1>1, <1>2 DEF Obtain, Rename, Unlock, OthersStay

(* Reading the file.                                                       *)
LEMMA ReadStep ==
    ASSUME TypeInv, NEW t \in Threads, Read(t)
    PROVE  /\ OthersStay(t)
           /\ disk = None => /\ thread'[t].pc = "rename"
                             /\ thread'[t].state = InitialState
           /\ disk # None => Answered(t, disk) \/ Replacing(t, disk)
  <1>1. thread \in [Threads -> Local] /\ disk \in States \cup {None}
    BY DEF TypeInv, TypeOK
  <1>2. CASE disk = None
    BY <1>1, <1>2 DEF Read, Replace, OthersStay, Local
  <1>3. CASE disk # None
    <2>1. Decide(t, disk) /\ disk \in States
      BY <1>1, <1>3 DEF Read
    <2>. QED BY <1>3, <2>1, DecideStep DEF OthersStay, Answered, Replacing
  <1>. QED BY <1>2, <1>3

(* After the force of the directory, or its failure.                       *)
LEMMA SyncStep ==
    ASSUME TypeInv, NEW t \in Threads, Sync(t) \/ ForceFails(t)
    PROVE  /\ OthersStay(t)
           /\ thread[t].state = InitialState =>
                 Answered(t, InitialState) \/ Replacing(t, InitialState)
           /\ thread[t].state # InitialState =>
                 thread'[t] = [thread[t] EXCEPT !.pc = "unlock", !.wrote = TRUE]
  <1>1. thread \in [Threads -> Local]
    BY DEF TypeInv, TypeOK
  <1>2. CASE thread[t].state = InitialState
    <2>1. Decide(t, InitialState)
      BY <1>2 DEF Sync, ForceFails, GoesOn
    <2>. QED BY <1>2, <2>1, DecideStep, InitialIsState
         DEF OthersStay, Answered, Replacing
  <1>3. CASE thread[t].state # InitialState
    <2>1. Leave(t, thread[t].state, TRUE)
      BY <1>3 DEF Sync, ForceFails, GoesOn
    <2>. QED BY <1>1, <1>3, <2>1 DEF Leave, OthersStay, Local
  <1>. QED BY <1>2, <1>3

(* The server only reads, and only when there is something to read.        *)
LEMMA StepOnlyReads == WriteInv /\ [Next]_vars => HandlersOnlyRead'
  <1>. SUFFICES ASSUME WriteInv, [Next]_vars, NEW h \in Handlers
                PROVE  /\ thread'[h].pc \notin {"rename", "sync"}
                       /\ ~thread'[h].wrote
                       /\ thread'[h].pc # "idle" \/ request'[h].phase # "token" =>
                             disk' # None
    BY DEF HandlersOnlyRead
  <1>. DEFINE Reads == /\ thread'[h].pc \notin {"rename", "sync"}
                       /\ ~thread'[h].wrote
                       /\ thread'[h].pc # "idle" \/ request'[h].phase # "token" =>
                             disk' # None
  <1>1. TypeInv /\ TypeOK /\ HandlersOnlyRead /\ h \in Threads /\ h \notin Operators
    BY GenerationAssumption DEF WriteInv, TypeInv, Threads
  <1>2. ASSUME thread'[h] = thread[h], request'[h] = request[h],
               disk # None => disk' # None
        PROVE  Reads
    BY <1>1, <1>2 DEF HandlersOnlyRead
  <1>3. ASSUME NEW t \in Threads, Rename(t) PROVE Reads
    <2>1. t \in Operators /\ thread[t].state # None
      BY <1>1, <1>3 DEF Rename, HandlersOnlyRead, WriteInv, RenameSucceeds, Threads
    <2>. QED BY <1>1, <1>2, <1>3, <2>1, PlainStep DEF Rename, OthersStay
  <1>4. ASSUME NEW t \in Threads,
               \/ Obtain(t) \/ Read(t) \/ FileFails(t)
               \/ Sync(t) \/ ForceFails(t) \/ Unlock(t)
        PROVE  Reads
    <2>1. UNCHANGED <<disk, request>> /\ OthersStay(t)
      BY <1>1, <1>4, PlainStep, ReadStep, SyncStep
      DEF Obtain, Read, FileFails, Sync, ForceFails, Unlock
    <2>2. CASE t # h
      BY <1>1, <1>2, <2>1, <2>2 DEF OthersStay
    <2>3. CASE t = h
      <3>1. /\ thread[h].pc # "idle" /\ disk # None
            /\ ~Sync(h) /\ ~ForceFails(h)
        BY <1>1, <1>4, <2>3
        DEF Obtain, Read, FileFails, Sync, ForceFails, Unlock, HandlersOnlyRead
      <3>2. /\ thread'[h].pc \in {"locked", "unlock", "closed"}
            /\ ~thread'[h].wrote
        <4>1. CASE Obtain(h) \/ Unlock(h)
          BY <1>1, <4>1, PlainStep DEF TypeOK, Local, HandlersOnlyRead
        <4>2. CASE Read(h) \/ FileFails(h)
          BY <1>1, <3>1, <4>2, PlainStep, ReadStep DEF Answered, Replacing
        <4>. QED BY <1>4, <2>3, <3>1, <4>1, <4>2
      <3>. QED BY <2>1, <3>1, <3>2
    <2>. QED BY <2>2, <2>3
  <1>5. ASSUME NEW o \in Operators, OperatorCalls(o) \/ OperatorReturns(o)
        PROVE  Reads
    <2>1. /\ o \in Threads /\ o # h
          /\ UNCHANGED <<disk, request>>
      BY <1>1, <1>5 DEF Threads, OperatorCalls, OperatorReturns, Enter, Close
    <2>2. thread'[h] = thread[h]
      <3>1. CASE OperatorCalls(o)
        BY <1>1, <2>1, <3>1, CallsAreTyped, EnterStep DEF OperatorCalls
      <3>2. CASE OperatorReturns(o)
        BY <1>1, <2>1, <3>2, CloseStep DEF OperatorReturns
      <3>. QED BY <1>5, <3>1, <3>2
    <2>. QED BY <1>2, <2>1, <2>2
  <1>6. ASSUME NEW g \in Handlers, HandlerReads(g) PROVE Reads
    <2>1. /\ g \in Threads /\ Status \in CallType /\ Enter(g, Status)
          /\ UNCHANGED <<disk, request>>
      BY <1>6 DEF HandlerReads, Enter, Threads, Status, CallType
    <2>2. CASE g # h
      BY <1>1, <1>2, <2>1, <2>2, EnterStep
    <2>3. CASE g = h
      <3>1. disk # None
        BY <1>1, <1>6, <2>3 DEF HandlerReads, HandlersOnlyRead
      <3>. QED BY <1>1, <2>1, <2>3, <3>1, EnterStep
    <2>. QED BY <2>2, <2>3
  <1>7. ASSUME NEW g \in Handlers, HandlerReturns(g) PROVE Reads
    <2>1. g \in Threads /\ Close(g) /\ UNCHANGED disk
      BY <1>7 DEF HandlerReturns, Close, Threads
    <2>2. CASE g # h
      <3>1. request'[h] = request[h]
        BY <1>1, <1>7, <2>2 DEF HandlerReturns, TypeOK
      <3>. QED BY <1>1, <1>2, <2>1, <2>2, <3>1, CloseStep
    <2>3. CASE g = h
      <3>1. disk # None
        BY <1>1, <2>1, <2>3 DEF Close, HandlersOnlyRead
      <3>. QED BY <2>1, <2>3, <3>1, CloseStep DEF Resting
    <2>. QED BY <2>2, <2>3
  <1>8. ASSUME NEW g \in Handlers, Run(g) \/ NextRequest(g) PROVE Reads
    <2>1. UNCHANGED <<disk, thread>>
      BY <1>8 DEF Run, NextRequest
    <2>2. /\ thread[h].pc # "idle" => disk # None
          /\ request'[h].phase # "token" => request[h].phase # "token"
      BY <1>1, <1>8
      DEF Run, NextRequest, TypeOK, Request, NoRequest, HandlersOnlyRead
    <2>. QED BY <1>1, <2>1, <2>2 DEF HandlersOnlyRead
  <1>9. ASSUME NEW p \in Processes, Kill(p) PROVE Reads
    <2>1. CASE p = Server
      <3>1. thread'[h] = Resting /\ request'[h] = NoRequest
        BY <1>1, <1>9, <2>1 DEF Kill, KilledIn, ProcessOf
      <3>. QED BY <3>1 DEF Resting, NoRequest
    <2>2. CASE p # Server
      BY <1>1, <1>2, <1>9, <2>2 DEF Kill, KilledIn, ProcessOf
    <2>. QED BY <2>1, <2>2
  <1>10. ASSUME PowerFailure PROVE Reads
    <2>1. thread'[h] = Resting /\ request'[h] = NoRequest
      BY <1>1, <1>10 DEF PowerFailure, KilledIn, ProcessOf, Processes
    <2>. QED BY <2>1 DEF Resting, NoRequest
  <1>11. CASE UNCHANGED vars
    BY <1>2, <1>11 DEF vars
  <1>. QED
    BY <1>3, <1>4, <1>5, <1>6, <1>7, <1>8, <1>9, <1>10, <1>11 DEF Next

-----------------------------------------------------------------------------
(* The file *)

(* The order of the generations.                                           *)
LEMMA UptoTransitive ==
    ASSUME NEW a \in States, NEW b \in States, NEW c \in States,
           Upto(a, b), Upto(b, c)
    PROVE  Upto(a, c)
    BY GenerationAssumption DEF Upto, States

(* Only an operator that has the lock moves a file over the state file,    *)
(* and what it moves succeeds what it replaces.                            *)
LEMMA RenameStep ==
    ASSUME WriteInv, NEW t \in Threads, Rename(t)
    PROVE  /\ t \in Operators
           /\ disk' \in States
           /\ disk' = thread[t].state
           /\ Succeeds(disk', thread[t].call)
           /\ disk # None => disk'.seq = disk.seq + 1
           /\ loose' = loose \cup {disk'} /\ lost' = lost \ {disk'}
           /\ UNCHANGED <<durable, request, acked>>
  <1>1. t \in Operators
    BY DEF WriteInv, HandlersOnlyRead, Rename, Threads
  <1>. QED BY <1>1
       DEF WriteInv, TypeInv, TypeOK, Local, RenameSucceeds, Rename, Succeeds

(* A power failure leaves the forced file or a loose one, and no call.     *)
LEMMA PowerStep ==
    ASSUME PowerFailure
    PROVE  /\ thread' = [t \in Threads |-> Resting]
           /\ request' = [h \in Handlers |-> NoRequest]
           /\ disk' \in {durable} \cup loose
           /\ durable' = disk' /\ loose' = {}
           /\ lost' = lost \cup {s \in loose : ~Covers(disk', s)}
           /\ UNCHANGED acked
    BY DEF PowerFailure, KilledIn, ProcessOf, Processes

(* What does not touch the files.                                          *)
LEMMA FilesStay ==
    ASSUME [Next]_vars
    PROVE  \/ \E t \in Threads : Rename(t) \/ Sync(t)
           \/ PowerFailure
           \/ UNCHANGED <<disk, durable, loose, lost>>
  <1>1. ASSUME NEW t \in Threads,
               \/ Obtain(t) \/ Read(t) \/ FileFails(t)
               \/ ForceFails(t) \/ Unlock(t)
        PROVE  UNCHANGED <<disk, durable, loose, lost>>
    BY <1>1 DEF Obtain, Read, FileFails, ForceFails, Unlock
  <1>2. ASSUME NEW o \in Operators, OperatorCalls(o) \/ OperatorReturns(o)
        PROVE  UNCHANGED <<disk, durable, loose, lost>>
    BY <1>2 DEF OperatorCalls, OperatorReturns, Enter, Close
  <1>3. ASSUME NEW h \in Handlers,
               HandlerReads(h) \/ HandlerReturns(h) \/ Run(h) \/ NextRequest(h)
        PROVE  UNCHANGED <<disk, durable, loose, lost>>
    BY <1>3 DEF HandlerReads, HandlerReturns, Run, NextRequest, Enter, Close
  <1>4. ASSUME NEW p \in Processes, Kill(p) 
        PROVE  UNCHANGED <<disk, durable, loose, lost>>
    BY <1>4 DEF Kill
  <1>5. CASE UNCHANGED vars
    BY <1>5 DEF vars
  <1>. QED BY <1>1, <1>2, <1>3, <1>4, <1>5 DEF Next

(* The forced file never leads the file, and no step takes an acknowledged *)
(* generation out of the account.                                          *)
LEMMA StepBehind ==
    WriteInv /\ [Next]_vars =>
        DurableBehind' /\ \A s \in States : Accounted(s) => Accounted(s)'
  <1>. SUFFICES ASSUME WriteInv, [Next]_vars
                PROVE  DurableBehind' /\ \A s \in States : Accounted(s) => Accounted(s)'
    OBVIOUS
  <1>1. /\ TypeInv /\ TypeOK /\ DurableBehind
        /\ disk \in States \cup {None} /\ durable \in States \cup {None}
        /\ loose \in SUBSET States
    BY DEF WriteInv, TypeInv, TypeOK
  <1>2. ASSUME NEW t \in Threads, Rename(t)
        PROVE  DurableBehind' /\ \A s \in States : Accounted(s) => Accounted(s)'
    <2>1. /\ disk' \in States /\ disk' # None
          /\ disk # None => disk'.seq = disk.seq + 1
          /\ durable' = durable
          /\ loose' = loose \cup {disk'} /\ lost' = lost \ {disk'}
      BY <1>2, RenameStep, NoneAssumption
    <2>2. ASSUME NEW s \in States, Covers(disk, s) PROVE Covers(disk', s)
      <3>1. disk \in States /\ Upto(s, disk) /\ Upto(disk, disk')
        BY <1>1, <2>1, <2>2, GenerationAssumption DEF Covers, Upto, States
      <3>. QED BY <2>1, <3>1, UptoTransitive DEF Covers
    <2>3. durable # None => Covers(disk', durable)
      BY <1>1, <2>2 DEF DurableBehind
    <2>4. ASSUME NEW s \in loose'
          PROVE  Covers(disk', s) /\ (durable # None => Upto(durable, s))
      <3>1. CASE s \in loose
        BY <1>1, <2>2, <3>1 DEF DurableBehind
      <3>2. CASE s = disk'
        BY <2>1, <2>3, <3>2 DEF Covers, Upto
      <3>. QED BY <2>1, <2>4, <3>1, <3>2
    <2>. QED BY <2>1, <2>3, <2>4 DEF DurableBehind, Accounted
  <1>3. ASSUME NEW t \in Threads, Sync(t)
        PROVE  DurableBehind' /\ \A s \in States : Accounted(s) => Accounted(s)'
    <2>1. disk' = disk /\ durable' = disk /\ loose' = {} /\ lost' = lost
      BY <1>3 DEF Sync, Forced
    <2>2. DurableBehind'
      BY <2>1 DEF DurableBehind, Covers, Upto
    <2>3. ASSUME NEW s \in States, Accounted(s) PROVE Accounted(s)'
      <3>1. CASE Covers(durable, s)
        <4>1. durable # None /\ disk # None /\ Upto(s, durable) /\ Upto(durable, disk)
          BY <1>1, <3>1 DEF Covers, DurableBehind
        <4>2. Upto(s, disk)
          BY <1>1, <4>1, UptoTransitive
        <4>. QED BY <2>1, <4>1, <4>2 DEF Accounted, Covers
      <3>2. CASE s \in loose
        BY <1>1, <2>1, <3>2 DEF DurableBehind, Accounted
      <3>3. CASE s \in lost
        BY <2>1, <3>3 DEF Accounted
      <3>. QED BY <2>3, <3>1, <3>2, <3>3 DEF Accounted
    <2>. QED BY <2>2, <2>3
  <1>4. ASSUME PowerFailure
        PROVE  DurableBehind' /\ \A s \in States : Accounted(s) => Accounted(s)'
    <2>1. DurableBehind'
      BY <1>4, PowerStep DEF DurableBehind, Covers, Upto
    <2>2. ASSUME NEW s \in States, Accounted(s) PROVE Accounted(s)'
      <3>1. CASE Covers(durable, s)
        <4>1. durable \in States /\ Upto(s, durable)
          BY <1>1, <3>1 DEF Covers
        <4>2. CASE disk' = durable
          BY <1>4, <3>1, <4>2, PowerStep DEF Accounted
        <4>3. CASE disk' \in loose
          <5>1. disk' \in States /\ Upto(durable, disk')
            BY <1>1, <3>1, <4>3 DEF DurableBehind, Covers
          <5>2. Upto(s, disk') /\ disk' # None
            BY <4>1, <5>1, UptoTransitive, NoneAssumption
          <5>. QED BY <1>4, <5>2, PowerStep DEF Accounted, Covers
        <4>. QED BY <1>4, <4>2, <4>3, PowerStep
      <3>2. CASE s \in loose
        BY <1>4, <3>2, PowerStep DEF Accounted
      <3>3. CASE s \in lost
        BY <1>4, <3>3, PowerStep DEF Accounted
      <3>. QED BY <2>2, <3>1, <3>2, <3>3 DEF Accounted
    <2>. QED BY <2>1, <2>2
  <1>5. CASE UNCHANGED <<disk, durable, loose, lost>>
    BY <1>1, <1>5 DEF DurableBehind, Accounted
  <1>. QED BY <1>2, <1>3, <1>4, <1>5, FilesStay

(* What an operator is about to move over the file keeps succeeding what   *)
(* is in it, because nobody else moves a file while it has the lock.       *)
LEMMA StepSucceeds == WriteInv /\ [Next]_vars => RenameSucceeds'
  <1>. SUFFICES ASSUME WriteInv, [Next]_vars, NEW o \in Operators
                PROVE  /\ thread'[o].pc = "rename" =>
                             /\ thread'[o].state # None
                             /\ Succeeds(thread[o].state, thread[o].call)'
                       /\ thread'[o].pc = "sync" =>
                             disk' # None /\ thread'[o].state = disk'
    BY DEF RenameSucceeds
  <1>. DEFINE Fits == /\ thread'[o].pc = "rename" =>
                            /\ thread'[o].state # None
                            /\ Succeeds(thread[o].state, thread[o].call)'
                      /\ thread'[o].pc = "sync" =>
                            disk' # None /\ thread'[o].state = disk'
  <1>1. /\ TypeInv /\ TypeOK /\ RenameSucceeds /\ o \in Threads
        /\ disk \in States \cup {None}
    BY DEF WriteInv, TypeInv, TypeOK, Threads
  <1>2. ASSUME thread'[o] = thread[o], disk' = disk PROVE Fits
    BY <1>1, <1>2 DEF RenameSucceeds, Succeeds
  <1>3. ASSUME thread'[o].pc \notin {"rename", "sync"} PROVE Fits
    BY <1>3
  <1>4. ASSUME NEW t \in Threads, Rename(t) PROVE Fits
    <2>1. CASE t = o
      <3>1. thread'[o] = [thread[o] EXCEPT !.pc = "sync"]
        BY <1>1, <1>4, <2>1, PlainStep
      <3>2. thread'[o].pc = "sync" /\ thread'[o].state = thread[o].state
        BY <1>1, <3>1 DEF TypeOK, Local
      <3>3. disk' = thread[o].state /\ disk' # None
        BY <1>4, <2>1, RenameStep, NoneAssumption
      <3>. QED BY <3>2, <3>3
    <2>2. CASE t # o
      <3>1. t \in Operators /\ thread[t].pc \in Inside /\ thread'[o] = thread[o]
        BY <1>1, <1>4, <2>2, RenameStep, PlainStep DEF Rename, Inside, OthersStay
      <3>2. thread[o].pc \notin Inside
        BY <2>2, <3>1, OneInside DEF WriteInv
      <3>. QED BY <1>3, <3>1, <3>2 DEF Inside
    <2>. QED BY <2>1, <2>2
  <1>5. ASSUME NEW t \in Threads, Read(t) \/ Sync(t) \/ ForceFails(t) PROVE Fits
    <2>1. disk' = disk
      BY <1>5 DEF Read, Sync, ForceFails
    <2>2. CASE t # o
      BY <1>1, <1>2, <1>5, <2>1, <2>2, ReadStep, SyncStep DEF OthersStay
    <2>3. ASSUME NEW s \in States, s = disk, Answered(o, s) \/ Replacing(o, s)
          PROVE  Fits
      BY <2>1, <2>3, NoneAssumption DEF Answered, Replacing, Succeeds
    <2>4. CASE t = o /\ Read(o)
      <3>1. CASE disk = None
        BY <1>1, <2>1, <2>4, <3>1, ReadStep, InitialIsState, NoneAssumption
        DEF Succeeds
      <3>2. CASE disk # None
        BY <1>1, <2>3, <2>4, <3>2, ReadStep
      <3>. QED BY <3>1, <3>2
    <2>5. CASE t = o /\ (Sync(o) \/ ForceFails(o))
      <3>1. disk # None /\ thread[o].state = disk
        BY <1>1, <2>5 DEF Sync, ForceFails, RenameSucceeds
      <3>2. CASE thread[o].state = InitialState
        BY <1>1, <2>3, <2>5, <3>1, <3>2, SyncStep, InitialIsState
      <3>3. CASE thread[o].state # InitialState
        <4>1. thread'[o].pc = "unlock"
          BY <1>1, <2>5, <3>3, SyncStep DEF TypeOK, Local
        <4>. QED BY <1>3, <4>1
      <3>. QED BY <3>2, <3>3
    <2>. QED BY <1>5, <2>2, <2>4, <2>5
  <1>6. ASSUME NEW t \in Threads, Obtain(t) \/ FileFails(t) \/ Unlock(t)
        PROVE  Fits
    <2>1. disk' = disk
      BY <1>6 DEF Obtain, FileFails, Unlock
    <2>2. CASE t # o
      BY <1>1, <1>2, <1>6, <2>1, <2>2, PlainStep DEF OthersStay
    <2>3. CASE t = o
      <3>1. thread'[o].pc \in {"locked", "closed", "unlock"}
        BY <1>1, <1>6, <2>3, PlainStep DEF TypeOK, Local, Answered
      <3>. QED BY <1>3, <3>1
    <2>. QED BY <2>2, <2>3
  <1>7. ASSUME NEW t \in Threads, NEW call \in CallType, Enter(t, call)
        PROVE  Fits
    <2>1. CASE t # o
      BY <1>1, <1>2, <1>7, <2>1, EnterStep DEF Enter
    <2>2. CASE t = o
      BY <1>1, <1>3, <1>7, <2>2, EnterStep
    <2>. QED BY <2>1, <2>2
  <1>8. ASSUME NEW t \in Threads, Close(t) PROVE Fits
    <2>1. CASE t # o
      BY <1>1, <1>2, <1>8, <2>1, CloseStep DEF Close
    <2>2. CASE t = o
      BY <1>3, <1>8, <2>2, CloseStep DEF Resting
    <2>. QED BY <2>1, <2>2
  <1>9. ASSUME NEW p \in Processes, Kill(p) PROVE Fits
    <2>1. disk' = disk /\ thread'[o] \in {thread[o], Resting}
      BY <1>1, <1>9 DEF Kill, KilledIn
    <2>. QED BY <1>2, <1>3, <2>1 DEF Resting
  <1>10. ASSUME PowerFailure PROVE Fits
    <2>1. thread'[o] = Resting
      BY <1>1, <1>10, PowerStep
    <2>. QED BY <1>3, <2>1 DEF Resting
  <1>11. ASSUME UNCHANGED <<disk, thread>> PROVE Fits
    BY <1>2, <1>11
  <1>12. ASSUME NEW u \in Operators, OperatorCalls(u) PROVE Fits
    BY <1>1, <1>7, <1>12, CallsAreTyped DEF OperatorCalls, Threads
  <1>13. ASSUME NEW h \in Handlers, HandlerReads(h) PROVE Fits
    <2>1. Status \in CallType
      BY DEF Status, CallType
    <2>. QED BY <1>7, <1>13, <2>1 DEF HandlerReads, Threads
  <1>14. ASSUME NEW u \in Operators, OperatorReturns(u) PROVE Fits
    BY <1>8, <1>14 DEF OperatorReturns, Threads
  <1>15. ASSUME NEW h \in Handlers, HandlerReturns(h) PROVE Fits
    BY <1>8, <1>15 DEF HandlerReturns, Threads
  <1>16. ASSUME NEW h \in Handlers, Run(h) \/ NextRequest(h) PROVE Fits
    BY <1>11, <1>16 DEF Run, NextRequest
  <1>. HIDE DEF Fits
  <1>17. Fits
    BY <1>4, <1>5, <1>6, <1>9, <1>10, <1>11, <1>12, <1>13, <1>14, <1>15, <1>16
    DEF Next, vars
  <1>. QED BY <1>17 DEF Fits

(* What an operator brings back as written, and what was acknowledged, is  *)
(* forced, or loose, or was lost to a power failure.                       *)
LEMMA StepWritten == WriteInv /\ [Next]_vars => WrittenIsAccounted'
  <1>. SUFFICES ASSUME WriteInv, [Next]_vars PROVE WrittenIsAccounted'
    OBVIOUS
  <1>1. /\ TypeInv /\ TypeOK /\ WrittenIsAccounted /\ HandlersOnlyRead
        /\ \A s \in States : Accounted(s) => Accounted(s)'
        /\ Operators \subseteq Threads /\ Handlers \subseteq Threads
    BY StepBehind DEF WriteInv, TypeInv, Threads
  <1>. DEFINE Brings(o) == thread[o].pc \in Over /\ thread[o].wrote =>
                             thread[o].state # None /\ Accounted(thread[o].state)
  <1>2. \A o \in Operators : thread[o].state \in States \cup {None}
    BY <1>1 DEF TypeOK, Local
  <1>3. \A o \in Operators :
           \/ thread'[o] = thread[o]
           \/ thread'[o].pc \notin Over
           \/ ~thread'[o].wrote
           => Brings(o)'
    BY <1>1, <1>2 DEF WrittenIsAccounted
  <1>4. ASSUME acked' = acked, \A o \in Operators : Brings(o)'
        PROVE  WrittenIsAccounted'
    <2>1. \A s \in acked : Accounted(s)'
      BY <1>1 DEF WrittenIsAccounted, TypeOK
    <2>. QED BY <1>4, <2>1 DEF WrittenIsAccounted
  <1>5. ASSUME NEW t \in Threads, OthersStay(t), acked' = acked,
               t \in Operators => Brings(t)'
        PROVE  WrittenIsAccounted'
    <2>1. \A o \in Operators \ {t} : Brings(o)'
      BY <1>1, <1>3, <1>5 DEF OthersStay
    <2>. HIDE DEF Brings
    <2>. QED BY <1>4, <1>5, <2>1
  <1>6. ASSUME NEW t \in Threads, Sync(t) \/ ForceFails(t)
        PROVE  WrittenIsAccounted'
    <2>1. OthersStay(t) /\ acked' = acked
      BY <1>1, <1>6, SyncStep DEF Sync, ForceFails
    <2>2. ASSUME t \in Operators PROVE Brings(t)'
      <3>1. CASE thread[t].state = InitialState
        BY <1>1, <1>3, <1>6, <2>2, <3>1, SyncStep DEF Answered, Replacing, Over
      <3>2. CASE thread[t].state # InitialState
        <4>1. thread'[t].state = thread[t].state
          BY <1>1, <1>6, <3>2, SyncStep DEF TypeOK, Local
        <4>2. thread[t].state = disk /\ disk # None /\ disk \in States
          BY <1>1, <1>6, <2>2
          DEF WriteInv, RenameSucceeds, Sync, ForceFails, TypeOK
        <4>3. Accounted(disk)'
          <5>1. CASE Sync(t)
            BY <4>2, <5>1 DEF Sync, Forced, Accounted, Covers, Upto
          <5>2. CASE ForceFails(t)
            <6>1. Accounted(disk)
              BY <4>2 DEF WriteInv, DurableBehind, Accounted, Covers, Upto
            <6>. QED BY <1>1, <4>2, <5>2, <6>1 DEF ForceFails
          <5>. QED BY <1>6, <5>1, <5>2
        <4>. QED BY <1>6, <4>1, <4>2, <4>3 DEF Sync, ForceFails
      <3>. QED BY <3>1, <3>2
    <2>. QED BY <1>5, <2>1, <2>2
  <1>7. ASSUME NEW t \in Threads, Unlock(t) PROVE WrittenIsAccounted'
    <2>1. OthersStay(t) /\ acked' = acked /\ thread[t].pc \in Over
      BY <1>1, <1>7, PlainStep DEF Unlock, Over
    <2>2. /\ thread'[t].state = thread[t].state
          /\ thread'[t].wrote = thread[t].wrote
      BY <1>1, <1>7, PlainStep DEF TypeOK, Local
    <2>3. t \in Operators => Brings(t)'
      BY <1>1, <1>2, <2>1, <2>2 DEF WrittenIsAccounted
    <2>. QED BY <1>5, <2>1, <2>3
  <1>8. ASSUME NEW t \in Threads, Obtain(t) \/ Read(t) \/ Rename(t) \/ FileFails(t)
        PROVE  WrittenIsAccounted'
    <2>1. OthersStay(t) /\ acked' = acked
      BY <1>1, <1>8, PlainStep, ReadStep DEF Obtain, Read, Rename, FileFails
    <2>2. thread'[t].pc \notin Over \/ ~thread'[t].wrote
      <3>1. CASE Obtain(t) \/ Rename(t)
        BY <1>1, <3>1, PlainStep DEF TypeOK, Local, Over
      <3>2. CASE Read(t) \/ FileFails(t)
        BY <1>1, <3>2, PlainStep, ReadStep DEF Answered, Replacing, Over
      <3>. QED BY <1>8, <3>1, <3>2
    <2>. QED BY <1>3, <1>5, <2>1, <2>2
  <1>9. ASSUME NEW t \in Threads, NEW call \in CallType, Enter(t, call)
        PROVE  WrittenIsAccounted'
    <2>1. OthersStay(t) /\ acked' = acked /\ ~thread'[t].wrote
      BY <1>1, <1>9, EnterStep DEF Enter, OthersStay
    <2>. QED BY <1>3, <1>5, <2>1
  <1>10. ASSUME NEW t \in Threads, Close(t) PROVE WrittenIsAccounted'
    <2>1. /\ OthersStay(t) /\ ~thread'[t].wrote
          /\ UNCHANGED <<durable, loose, lost>>
      BY <1>10, CloseStep DEF OthersStay, Resting, Close
    <2>2. \A o \in Operators : Brings(o)'
      BY <1>1, <1>3, <2>1 DEF OthersStay
    <2>3. \A s \in acked' : Accounted(s)
      <3>1. thread[t].wrote =>
              t \in Operators /\ Accounted(thread[t].state)
        BY <1>1, <1>10, WroteAState DEF Close, Over, WrittenIsAccounted
      <3>. QED BY <1>1, <1>10, <3>1 DEF Close, WrittenIsAccounted
    <2>4. \A s \in acked' : Accounted(s)'
      BY <2>1, <2>3 DEF Accounted
    <2>. QED BY <2>2, <2>4 DEF WrittenIsAccounted
  <1>11. ASSUME NEW p \in Processes, Kill(p) PROVE WrittenIsAccounted'
    <2>1. \A o \in Operators : thread'[o] \in {thread[o], Resting}
      BY <1>1, <1>11 DEF Kill, KilledIn
    <2>. QED BY <1>3, <1>4, <1>11, <2>1 DEF Kill, KilledIn, Resting
  <1>12. ASSUME PowerFailure PROVE WrittenIsAccounted'
    <2>1. \A o \in Operators : thread'[o] = Resting
      BY <1>1, <1>12, PowerStep
    <2>. QED BY <1>3, <1>4, <1>12, <2>1, PowerStep DEF Resting
  <1>13. ASSUME UNCHANGED <<thread, acked>> PROVE WrittenIsAccounted'
    BY <1>3, <1>4, <1>13
  <1>14. ASSUME NEW u \in Operators, OperatorCalls(u) PROVE WrittenIsAccounted'
    BY <1>1, <1>9, <1>14, CallsAreTyped DEF OperatorCalls
  <1>15. ASSUME NEW h \in Handlers, HandlerReads(h) PROVE WrittenIsAccounted'
    <2>1. Status \in CallType
      BY DEF Status, CallType
    <2>. QED BY <1>1, <1>9, <1>15, <2>1 DEF HandlerReads
  <1>16. ASSUME NEW u \in Operators, OperatorReturns(u) PROVE WrittenIsAccounted'
    BY <1>1, <1>10, <1>16 DEF OperatorReturns
  <1>17. ASSUME NEW h \in Handlers, HandlerReturns(h) PROVE WrittenIsAccounted'
    BY <1>1, <1>10, <1>17 DEF HandlerReturns
  <1>18. ASSUME NEW h \in Handlers, Run(h) \/ NextRequest(h)
         PROVE  WrittenIsAccounted'
    BY <1>13, <1>18 DEF Run, NextRequest
  <1>. QED
    BY <1>6, <1>7, <1>8, <1>11, <1>12, <1>13, <1>14, <1>15, <1>16, <1>17, <1>18
    DEF Next, vars

-----------------------------------------------------------------------------
(* The invariant and what follows from it.                                 *)

(* No file, no lock, no call.                                              *)
LEMMA InitWrites == Init => WriteInv
  <1>. SUFFICES ASSUME Init PROVE WriteInv
    OBVIOUS
  <1>1. \A t \in Threads : thread[t] = Resting
    BY DEF Init
  <1>2. TypeInv
    BY <1>1, RestingType DEF Init, TypeInv, TypeOK, CallsInv, Resting, Status
  <1>. QED
    BY <1>1, <1>2
    DEF Init, WriteInv, OperatorOwnsLock, HandlersOnlyRead, RenameSucceeds,
        DurableBehind, WrittenIsAccounted, Resting, NoRequest, Threads, Inside, Over

(* Every step preserves it.                                                *)
LEMMA StepWrites == WriteInv /\ [Next]_vars => WriteInv'
    BY StepTypes, StepOwnsLock, StepOnlyReads, StepSucceeds, StepBehind, StepWritten
    DEF WriteInv

(* Every variable always holds a value of its kind.                        *)
THEOREM GenerationTypeCorrect == Spec => []TypeOK
  <1>1. WriteInv => TypeOK
    BY DEF WriteInv, TypeInv
  <1>. QED BY <1>1, InitWrites, StepWrites, PTL DEF Spec

(* A generation replaces exactly the one its operator was shown; nothing   *)
(* else changes the state file but its creation and a power failure.       *)
THEOREM NoUpdateIsLost == Spec => NoLostUpdate
  <1>. DEFINE Succession ==
         disk' # disk =>
           \/ /\ disk' \in {durable} \cup loose
              /\ thread' = [t \in Threads |-> Resting]
           \/ disk = None /\ disk' = InitialState
           \/ \E o \in Operators : /\ thread[o].pc = "rename"
                                   /\ thread[o].call.expect = disk
                                   /\ disk'.seq = disk.seq + 1
  <1>1. WriteInv /\ [Next]_vars => [Succession]_vars
    <2>. SUFFICES ASSUME WriteInv, [Next]_vars, disk' # disk PROVE Succession
      OBVIOUS
    <2>1. CASE \E t \in Threads : Rename(t)
      BY <2>1, RenameStep DEF Succeeds, Rename
    <2>2. CASE \E t \in Threads : Sync(t)
      BY <2>2 DEF Sync
    <2>3. CASE PowerFailure
      BY <2>3, PowerStep
    <2>. QED BY <2>1, <2>2, <2>3, FilesStay
  <1>2. Spec => [][Succession]_vars
    BY <1>1, InitWrites, StepWrites, PTL DEF Spec
  <1>. QED BY <1>2 DEF NoLostUpdate

(* What an operator was told survives every kill, and every power failure  *)
(* unless no force of the directory succeeded since it was moved in place. *)
THEOREM AcknowledgedSurvives == Spec => []AckedSurvives
  <1>1. WriteInv => AckedSurvives
    <2>. SUFFICES ASSUME WriteInv, NEW s \in acked \ lost PROVE Covers(disk, s)
      BY DEF AckedSurvives
    <2>1. s \in States /\ disk \in States \cup {None} /\ durable \in States \cup {None}
      BY DEF WriteInv, TypeInv, TypeOK
    <2>2. CASE s \in loose
      BY <2>2 DEF WriteInv, DurableBehind
    <2>3. CASE Covers(durable, s)
      <3>1. /\ durable # None /\ disk # None
            /\ Upto(s, durable) /\ Upto(durable, disk)
        BY <2>3 DEF WriteInv, DurableBehind, Covers
      <3>. QED BY <2>1, <3>1, UptoTransitive DEF Covers
    <2>. QED BY <2>2, <2>3 DEF WriteInv, WrittenIsAccounted, Accounted
  <1>. QED BY <1>1, InitWrites, StepWrites, PTL DEF Spec

-----------------------------------------------------------------------------
(* Requests *)

(* Tokens are ordered by their generations.                                *)
LEMMA UptoTokens ==
    ASSUME NEW a \in Tokens, NEW b \in Tokens, NEW c \in Tokens,
           Upto(a, b), Upto(b, c)
    PROVE  Upto(a, c)
    BY GenerationAssumption DEF Upto, Tokens

(* Unless the power fails, the generation of the file only moves forward.  *)
LEMMA TokensGrow ==
    ASSUME WriteInv, [Next]_vars, ~PowerFailure, disk # None
    PROVE  /\ disk \in States /\ disk' \in States
           /\ Token(disk) \in Tokens /\ Token(disk') \in Tokens
           /\ Upto(Token(disk), Token(disk'))
  <1>1. disk \in States /\ disk' \in States
    <2>1. disk \in States
      BY DEF WriteInv, TypeInv, TypeOK
    <2>2. CASE \E t \in Threads : Rename(t)
      BY <2>1, <2>2, RenameStep
    <2>3. CASE \E t \in Threads : Sync(t)
      BY <2>1, <2>3 DEF Sync
    <2>. QED BY <2>1, <2>2, <2>3, FilesStay
  <1>2. CASE disk' = disk
    BY <1>1, <1>2, TokenType DEF Upto
  <1>3. CASE disk' # disk
    <2>1. disk'.seq = disk.seq + 1
      BY <1>3, RenameStep, FilesStay DEF Sync
    <2>2. disk.seq \in Nat
      BY <1>1, GenerationAssumption DEF States
    <2>. QED BY <1>1, <2>1, <2>2, TokenType DEF Upto
  <1>. QED BY <1>2, <1>3

RequestInv == WriteInv /\ AnswersInOrder

(* The part of AnswersInOrder about one handler.                           *)
InOrder(h) ==
    LET r == request[h]
        s == thread[h].state IN
    /\ r.phase # "token" => Upto(r.token, Token(disk))
    /\ r.phase \in {"after", "returned"} =>
          Upto(r.token, r.at) /\ Upto(r.at, Token(disk))
    /\ r.phase = "run" => thread[h].pc = "idle"
    /\ r.phase = "returned" => r.at = r.token
    /\ thread[h].pc \in Over /\ s # None =>
          /\ Upto(Token(s), Token(disk))
          /\ r.phase = "after" => Upto(r.at, Token(s))

(* No step breaks the order of a request's generations.                    *)
LEMMA StepInOrder == RequestInv /\ [Next]_vars => AnswersInOrder'
  <1>. SUFFICES ASSUME RequestInv, [Next]_vars, NEW h \in Handlers
                PROVE  InOrder(h)'
    BY DEF AnswersInOrder, InOrder
  <1>1. /\ WriteInv /\ TypeInv /\ TypeOK /\ HandlersOnlyRead /\ InOrder(h)
        /\ h \in Threads /\ h \notin Operators
    BY GenerationAssumption
    DEF RequestInv, AnswersInOrder, InOrder, WriteInv, TypeInv, Threads
  <1>2. /\ request[h] \in Request /\ thread[h] \in Local
        /\ request[h].token \in Tokens /\ request[h].at \in Tokens
        /\ thread[h].state # None =>
              thread[h].state \in States /\ Token(thread[h].state) \in Tokens
    BY <1>1, TokenType DEF TypeOK, Request, Local
  <1>3. ASSUME thread'[h] = Resting, request'[h] = NoRequest
        PROVE  InOrder(h)'
    BY <1>3 DEF InOrder, Resting, NoRequest, Over
  <1>4. CASE PowerFailure
    BY <1>1, <1>3, <1>4, PowerStep
  <1>. SUFFICES ASSUME ~PowerFailure PROVE InOrder(h)'
    BY <1>4
  <1>5. thread[h].pc # "idle" \/ request[h].phase # "token" =>
          /\ disk # None
          /\ Token(disk) \in Tokens /\ Token(disk') \in Tokens
          /\ Upto(Token(disk), Token(disk'))
    BY <1>1, TokensGrow DEF HandlersOnlyRead
  (* The request stays; the thread stays, or brings nothing, or still      *)
  (* brings what it read.                                                  *)
  <1>6. ASSUME request'[h] = request[h],
               thread'[h] = thread[h] \/ request[h].phase # "run",
               \/ thread'[h] = thread[h]
               \/ thread'[h].pc \notin Over
               \/ thread'[h].state = None
               \/ thread[h].pc \in Over /\ thread'[h].state = thread[h].state
        PROVE  InOrder(h)'
    <2>1. request[h].phase # "token" => Upto(request[h].token, Token(disk'))
      BY <1>1, <1>2, <1>5, UptoTokens DEF InOrder
    <2>2. request[h].phase \in {"after", "returned"} =>
             Upto(request[h].token, request[h].at)
             /\ Upto(request[h].at, Token(disk'))
      BY <1>1, <1>2, <1>5, UptoTokens DEF InOrder
    <2>3. CASE thread'[h].pc \notin Over \/ thread'[h].state = None
      BY <1>1, <1>6, <2>1, <2>2, <2>3 DEF InOrder
    <2>4. CASE thread[h].pc \in Over /\ thread'[h].state = thread[h].state
      <3>1. thread[h].state # None =>
               /\ Upto(Token(thread[h].state), Token(disk'))
               /\ request[h].phase = "after" =>
                     Upto(request[h].at, Token(thread[h].state))
        BY <1>1, <1>2, <1>5, <2>4, UptoTokens DEF InOrder, Over
      <3>. QED BY <1>1, <1>6, <2>1, <2>2, <2>4, <3>1 DEF InOrder
    <2>5. CASE thread'[h] = thread[h] /\ thread[h].pc \notin Over
      BY <2>3, <2>5
    <2>. QED BY <1>6, <2>3, <2>4, <2>5
  <1>7. ASSUME NEW t \in Threads,
               \/ Obtain(t) \/ Read(t) \/ Rename(t)
               \/ FileFails(t) \/ Sync(t) \/ ForceFails(t) \/ Unlock(t)
        PROVE  InOrder(h)'
    <2>1. UNCHANGED request /\ OthersStay(t)
      BY <1>1, <1>7, PlainStep, ReadStep, SyncStep
      DEF Obtain, Read, Rename, FileFails, Sync, ForceFails, Unlock
    <2>2. CASE t # h
      BY <1>1, <1>6, <2>1, <2>2 DEF OthersStay
    <2>3. CASE t = h
      <3>0. request[h].phase # "run"
        BY <1>1, <1>7, <2>3
        DEF InOrder, Obtain, Read, Rename, FileFails, Sync, ForceFails, Unlock
      <3>1. ~Rename(h) /\ ~Sync(h) /\ ~ForceFails(h)
        BY <1>1 DEF Rename, Sync, ForceFails, HandlersOnlyRead
      <3>2. CASE Obtain(h) \/ FileFails(h) \/ Unlock(h)
        <4>1. CASE Obtain(h)
          BY <1>1, <1>2, <1>6, <2>1, <3>0, <4>1, PlainStep DEF Local, Over
        <4>2. CASE FileFails(h)
          BY <1>1, <1>6, <2>1, <3>0, <4>2, PlainStep DEF Answered
        <4>3. CASE Unlock(h)
          BY <1>1, <1>2, <1>6, <2>1, <3>0, <4>3, PlainStep DEF Unlock, Local, Over
        <4>. QED BY <3>2, <4>1, <4>2, <4>3
      <3>3. CASE Read(h)
        <4>1. disk # None /\ disk' = disk /\ thread[h].pc \notin Over
          BY <1>1, <3>3 DEF Read, HandlersOnlyRead, Over
        <4>2. thread'[h].pc = "unlock" /\ thread'[h].state \in {disk, None}
          BY <1>1, <3>3, <4>1, ReadStep DEF Answered, Replacing
        <4>3. CASE thread'[h].state = None
          BY <1>6, <2>1, <3>0, <4>3
        <4>4. CASE thread'[h].state = disk
          BY <1>1, <2>1, <3>0, <4>1, <4>2, <4>4 DEF InOrder, Upto
        <4>. QED BY <4>2, <4>3, <4>4
      <3>. QED BY <1>7, <2>3, <3>1, <3>2, <3>3
    <2>. QED BY <2>2, <2>3
  <1>8. ASSUME NEW o \in Operators, OperatorCalls(o) \/ OperatorReturns(o)
        PROVE  InOrder(h)'
    <2>1. o \in Threads /\ o # h /\ UNCHANGED request
      BY <1>1, <1>8 DEF Threads, OperatorCalls, OperatorReturns
    <2>2. thread'[h] = thread[h]
      <3>1. CASE OperatorCalls(o)
        BY <1>1, <2>1, <3>1, CallsAreTyped, EnterStep DEF OperatorCalls
      <3>2. CASE OperatorReturns(o)
        BY <1>1, <2>1, <3>2, CloseStep DEF OperatorReturns
      <3>. QED BY <1>8, <3>1, <3>2
    <2>. QED BY <1>6, <2>1, <2>2
  <1>9. ASSUME NEW g \in Handlers, HandlerReads(g) PROVE InOrder(h)'
    <2>1. /\ g \in Threads /\ Status \in CallType /\ Enter(g, Status)
          /\ UNCHANGED request
      BY <1>9 DEF HandlerReads, Threads, Status, CallType
    <2>2. \/ thread'[h] = thread[h]
          \/ thread'[h].state = None /\ request[h].phase # "run"
      BY <1>1, <1>9, <2>1, EnterStep DEF HandlerReads
    <2>. QED BY <1>6, <2>1, <2>2
  <1>10. ASSUME NEW g \in Handlers, Run(g) \/ NextRequest(g) PROVE InOrder(h)'
    <2>1. UNCHANGED <<disk, thread>>
      BY <1>10 DEF Run, NextRequest
    <2>2. CASE g # h
      <3>1. request'[h] = request[h]
        BY <1>1, <1>10, <2>2 DEF Run, NextRequest, TypeOK
      <3>. QED BY <1>6, <2>1, <3>1
    <2>3. CASE g = h /\ Run(h)
      <3>1. /\ request'[h] = [request[h] EXCEPT !.phase = "after", !.at = Token(disk)]
            /\ thread[h].pc = "idle" /\ request[h].phase = "run"
        BY <1>1, <2>3 DEF Run, TypeOK
      <3>2. /\ request'[h].phase = "after" /\ request'[h].at = Token(disk)
            /\ request'[h].token = request[h].token
        BY <1>2, <3>1 DEF Request
      <3>. QED BY <1>1, <2>1, <3>1, <3>2 DEF InOrder, Upto, Over
    <2>4. CASE g = h /\ NextRequest(h)
      <3>1. request'[h] = NoRequest /\ request[h].phase = "returned"
        BY <1>1, <2>4 DEF NextRequest, TypeOK
      <3>. QED BY <1>1, <2>1, <3>1 DEF InOrder, NoRequest
    <2>. QED BY <1>10, <2>2, <2>3, <2>4
  <1>11. ASSUME NEW g \in Handlers, HandlerReturns(g) PROVE InOrder(h)'
    <2>1. g \in Threads /\ Close(g) /\ disk' = disk
      BY <1>11 DEF HandlerReturns, Close, Threads
    <2>2. CASE g # h
      <3>1. request'[h] = request[h]
        BY <1>1, <1>11, <2>2 DEF HandlerReturns, TypeOK
      <3>. QED BY <1>1, <1>6, <2>1, <2>2, <3>1, CloseStep
    <2>3. CASE g = h
      <3>. DEFINE r == request[h]
                  s == thread[h].state
      <3>1. /\ thread[h].pc \in Over
            /\ thread'[h].pc = "idle" /\ thread'[h].pc \notin Over
        BY <1>1, <2>1, <2>3, CloseStep DEF Close, Resting, Over
      <3>2. CASE s = None
        <4>1. request'[h] = NoRequest
          BY <1>1, <1>11, <2>3, <3>2 DEF HandlerReturns, TypeOK
        <4>. QED BY <3>1, <4>1 DEF InOrder, NoRequest
      <3>3. CASE s # None /\ r.phase = "token"
        <4>1. request'[h] = [r EXCEPT !.phase = "before", !.token = Token(s)]
          BY <1>1, <1>11, <2>3, <3>3 DEF HandlerReturns, TypeOK
        <4>2. request'[h].phase = "before" /\ request'[h].token = Token(s)
          BY <1>2, <4>1 DEF Request
        <4>. QED BY <1>1, <2>1, <3>1, <3>3, <4>2 DEF InOrder
      <3>4. CASE s # None /\ r.phase # "token" /\ r.token # Token(s)
        <4>1. request'[h] = NoRequest
          BY <1>1, <1>11, <2>3, <3>4 DEF HandlerReturns, TypeOK, Current
        <4>. QED BY <3>1, <4>1 DEF InOrder, NoRequest
      <3>5. CASE s # None /\ r.phase = "before" /\ r.token = Token(s)
        <4>1. request'[h] = [r EXCEPT !.phase = "run"]
          BY <1>1, <1>11, <2>3, <3>5 DEF HandlerReturns, TypeOK, Current
        <4>2. request'[h].phase = "run" /\ request'[h].token = r.token
          BY <1>2, <4>1 DEF Request
        <4>. QED BY <1>1, <2>1, <3>1, <3>5, <4>2 DEF InOrder
      <3>6. CASE s # None /\ r.phase \notin {"token", "before"} /\ r.token = Token(s)
        <4>1. request'[h] = [r EXCEPT !.phase = "returned"]
          BY <1>1, <1>11, <2>3, <3>6 DEF HandlerReturns, TypeOK, Current
        <4>2. /\ request'[h].phase = "returned"
              /\ request'[h].token = r.token /\ request'[h].at = r.at
          BY <1>2, <4>1 DEF Request
        <4>3. r.phase \in {"after", "returned"}
          BY <1>1, <1>2, <3>1, <3>6 DEF InOrder, Request, Over
        <4>4. Upto(r.token, r.at) /\ Upto(r.at, Token(disk))
          BY <1>1, <4>3 DEF InOrder
        <4>5. r.at = r.token
          <5>1. CASE r.phase = "returned"
            BY <1>1, <5>1 DEF InOrder
          <5>2. CASE r.phase = "after"
            <6>1. Upto(r.at, Token(s))
              BY <1>1, <3>1, <3>6, <5>2 DEF InOrder
            <6>. QED BY <1>2, <3>6, <4>4, <6>1, GenerationAssumption DEF Upto, Tokens
          <5>. QED BY <4>3, <5>1, <5>2
        <4>. QED BY <1>1, <2>1, <3>1, <3>6, <4>2, <4>4, <4>5 DEF InOrder
      <3>. QED BY <3>2, <3>3, <3>4, <3>5, <3>6
    <2>. QED BY <2>2, <2>3
  <1>12. ASSUME NEW p \in Processes, Kill(p) PROVE InOrder(h)'
    <2>1. CASE p = Server
      <3>1. thread'[h] = Resting /\ request'[h] = NoRequest
        BY <1>1, <1>12, <2>1 DEF Kill, KilledIn, ProcessOf
      <3>. QED BY <1>3, <3>1
    <2>2. CASE p # Server
      BY <1>1, <1>6, <1>12, <2>2 DEF Kill, KilledIn, ProcessOf
    <2>. QED BY <2>1, <2>2
  <1>13. CASE UNCHANGED vars
    BY <1>6, <1>13 DEF vars
  <1>. QED
    BY <1>7, <1>8, <1>9, <1>10, <1>11, <1>12, <1>13 DEF Next

(* A result is only returned when the operation took effect under the      *)
(* generation of its token, although neither check is made at that moment: *)
(* equal tokens before and after leave no room for a rotation between.     *)
THEOREM ReturnedUnderToken == Spec => []ReturnedUnderItsToken
  <1>1. Init => AnswersInOrder
    BY DEF Init, AnswersInOrder, Resting, NoRequest, Threads, Over
  <1>2. RequestInv => ReturnedUnderItsToken
    BY DEF RequestInv, AnswersInOrder, ReturnedUnderItsToken
  <1>3. Init => RequestInv
    BY <1>1, InitWrites DEF RequestInv
  <1>4. RequestInv /\ [Next]_vars => RequestInv'
    BY StepInOrder, StepWrites DEF RequestInv
  <1>. QED BY <1>2, <1>3, <1>4, PTL DEF Spec
=============================================================================
