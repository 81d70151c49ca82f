------------------------ MODULE SessionOnEngineProofs ------------------------
(***************************************************************************)
(* Theorems about a session on the shared engine, for any set of calls,    *)
(* hung or not, and both versions of wait_for: the session uses the engine *)
(* through its calls only, so that the engine's promises hold, and keeps   *)
(* the part of its own invariant that says which text a call may infer.    *)
(***************************************************************************)
EXTENDS SessionOnEngine, KokoroEngineProofs

(* What is proved of SpeakerSession alone.                                 *)
P == INSTANCE SpeakerSessionProofs

USE SessionAssumption DEF engine, session, system

-----------------------------------------------------------------------------
(* The engine under a session                                              *)

(* Every step of the system is a step of the engine or none for it.        *)
LEMMA EngineStep == [SystemNext]_system => [Next]_vars
<1> SUFFICES ASSUME [SystemNext]_system PROVE [Next]_vars
  OBVIOUS
<1>1. CASE Main \/ SystemTerminated \/ UNCHANGED system
  BY <1>1 DEF Main, SystemTerminated
<1>2. CASE Elsewhere
  BY <1>2 DEF Elsewhere, Others, Next
<1>3. CASE AcquireLock \/ Close
  BY <1>3 DEF AcquireLock, Close, Next
<1>4. ASSUME NEW t \in S!Tasks, WorkerSteps(t) PROVE [Next]_vars
  <2>1. CASE StartCall(t) \/ CallYields(t) \/ CallFails(t) \/ CancelDropped(t)
    BY <2>1 DEF StartCall, CallYields, CallFails, CancelDropped, Speaking, Next, Call
  <2>2. CASE Stream(t) \/ CancelWorker(t)
    BY <2>2 DEF Stream, CancelWorker, Speaking, Next, Call
  <2>3. CASE Speak(t)
    BY <2>3 DEF Speak
  <2>4. QED
    BY <1>4, <2>1, <2>2, <2>3 DEF WorkerSteps
<1>5. QED
  BY <1>1, <1>2, <1>3, <1>4 DEF SystemNext

(* A session and the other callers use the engine as KokoroEngine expects: *)
(* through synthesize(), by reading its audio and by cancelling it.        *)
THEOREM EngineKept == System => Spec
<1>1. SystemInit => Init
  BY DEF SystemInit
<1>2. QED
  BY <1>1, EngineStep, PTL DEF System, Spec

-----------------------------------------------------------------------------
(* The session on the engine                                               *)

(* The main task's steps are those of SpeakerSession ...                   *)
LEMMA SameMain ==
  ASSUME S!Receive \/ S!Proceed \/ S!Timeout \/ S!PeerCloses
  PROVE  P!Receive \/ P!Proceed \/ P!Timeout \/ P!PeerCloses
<1>1. CASE S!Receive
  BY <1>1 DEF S!Receive, P!Receive,
    S!Authenticate, S!ReceiveToken, S!ReceiveFlush, S!ReceiveEnd, S!ReceiveDisconnect,
    S!ReceiveBinary, S!ReceiveMalformed, S!ReceiveInterrupt,
    P!Authenticate, P!ReceiveToken, P!ReceiveFlush, P!ReceiveEnd, P!ReceiveDisconnect,
    P!ReceiveBinary, P!ReceiveMalformed, P!ReceiveInterrupt,
    S!ReceiveCounted, S!PutAll, S!LoopTop, S!Flushed, S!MainStep, S!ErrorOccurred,
    S!Restart, S!Discard, S!Cancel, S!worker, S!text, S!chunks, S!client,
    P!ReceiveCounted, P!PutAll, P!LoopTop, P!Flushed, P!MainStep, P!ErrorOccurred,
    P!Restart, P!Discard, P!Cancel, P!worker, P!text, P!chunks, P!client
<1>2. CASE S!Proceed
  BY <1>2 DEF S!Proceed, P!Proceed,
    S!Reject, S!AuthOk, S!SendParseError, S!PutEnd, S!SendQueueFull, S!AbortPut,
    S!PutAborted, S!WorkerJoined, S!SendAborted, S!CountAborted, S!SendInterrupted,
    S!SendTimeout, S!CancelOnTimeout, S!Join,
    P!Reject, P!AuthOk, P!SendParseError, P!PutEnd, P!SendQueueFull, P!AbortPut,
    P!PutAborted, P!WorkerJoined, P!SendAborted, P!CountAborted, P!SendInterrupted,
    P!SendTimeout, P!CancelOnTimeout, P!Join,
    S!MainSend, S!MainStep, S!Write, S!Deliver, S!SendRaises, S!ChunkFinished,
    S!Restart, S!Discard, S!Cancel, S!LoopTop, S!Notice, S!Error, S!Message,
    S!worker, S!text, S!chunks, S!client,
    P!MainSend, P!MainStep, P!Write, P!Deliver, P!SendRaises, P!ChunkFinished,
    P!Restart, P!Discard, P!Cancel, P!LoopTop, P!Notice, P!Error, P!Message,
    P!worker, P!text, P!chunks, P!client
<1>3. CASE S!Timeout
  BY <1>3 DEF S!Timeout, P!Timeout, S!Interruptible, P!Interruptible, S!MainStep,
    P!MainStep, S!ErrorOccurred, P!ErrorOccurred, S!Cancel, P!Cancel, S!text, P!text,
    S!chunks, P!chunks, S!client, P!client
<1>4. CASE S!PeerCloses
  BY <1>4 DEF S!PeerCloses, P!PeerCloses, S!main, P!main, S!worker, P!worker, S!text,
    P!text, S!chunks, P!chunks, S!client, P!client
<1>5. QED
  BY <1>1, <1>2, <1>3, <1>4

(* ... the worker's are ...                                                *)
LEMMA SameWork ==
  ASSUME NEW t, S!Work(t)
  PROVE  P!Work(t)
BY DEF S!Work, P!Work,
  S!Begin, S!TakeSegment, S!TakeSentinel, S!StartChunk, S!SendFrame, S!FrameLost,
  S!EngineFails, S!EngineDone, S!EndChunk, S!CountChunk, S!ReportFailure, S!GiveUp,
  S!SendDone, S!Cancelled,
  P!Begin, P!TakeSegment, P!TakeSentinel, P!StartChunk, P!SendFrame, P!FrameLost,
  P!EngineFails, P!EngineDone, P!EndChunk, P!CountChunk, P!ReportFailure, P!GiveUp,
  P!SendDone, P!Cancelled,
  S!ChunkSend, S!WorkerSend, S!SegmentFails, S!WorkerStep, S!Write, S!Deliver,
  S!SendRaises, S!ErrorOccurred, S!ChunkFinished, S!Notice, S!Error, S!Message,
  S!chunkCounter, S!main, S!text, S!chunks, S!client,
  P!ChunkSend, P!WorkerSend, P!SegmentFails, P!WorkerStep, P!Write, P!Deliver,
  P!SendRaises, P!ErrorOccurred, P!ChunkFinished, P!Notice, P!Error, P!Message,
  P!chunkCounter, P!main, P!text, P!chunks, P!client

(* ... and only a cancellation that wait_for drops is a step of its own:   *)
(* the worker goes on, or reports what its call raises instead.            *)
Dropped(t) ==
  /\ Speaking(t) /\ wcancel[t] /\ wcancel' = [wcancel EXCEPT ![t] = FALSE]
  /\ \/ UNCHANGED <<wpc, current, errors>>
     \/ /\ wpc' = [wpc EXCEPT ![t] = "err"] /\ current' = None
        /\ S!ErrorOccurred("synthesis_error")
  /\ UNCHANGED <<mpc, timer, cur, aborted, msgs, job, queue, buf, epoch,
                 owed, tally, out, open, heard, ws>>

(* What a step of the system is for the session.                           *)
LEMMA SessionStep ==
  [SystemNext]_system =>
    [P!Next]_(P!vars) \/ (WaitForKeeps /\ \E t \in P!Tasks : Dropped(t))
<1> SUFFICES ASSUME [SystemNext]_system
             PROVE  [P!Next]_(P!vars) \/ (WaitForKeeps /\ \E t \in P!Tasks : Dropped(t))
  OBVIOUS
<1>0. P!Tasks = S!Tasks
  BY DEF P!Tasks, S!Tasks
<1>1. CASE UNCHANGED session
  BY <1>1 DEF P!vars, P!main, P!worker, P!text, P!chunks, P!client
<1>2. CASE Main
  BY <1>2, SameMain DEF Main, P!Next
<1>3. CASE Elsewhere \/ AcquireLock \/ Close \/ SystemTerminated
  BY <1>1, <1>3 DEF Elsewhere, AcquireLock, Close, SystemTerminated
<1>4. ASSUME NEW t \in S!Tasks, WorkerSteps(t)
      PROVE  [P!Next]_(P!vars) \/ (WaitForKeeps /\ \E u \in P!Tasks : Dropped(u))
  <2>1. CASE StartCall(t) \/ CallYields(t)
    BY <1>1, <2>1 DEF StartCall, CallYields
  <2>2. CASE CallFails(t) \/ Stream(t) \/ CancelWorker(t) \/ Speak(t)
    <3>1. S!Work(t)
      BY <2>2 DEF CallFails, Stream, CancelWorker, Speak, S!Work
    <3>2. QED
      BY <1>0, <3>1, SameWork DEF P!Next
  <2>3. CASE CancelDropped(t)
    BY <1>0, <2>3 DEF CancelDropped, Dropped
  <2>4. QED
    BY <1>4, <2>1, <2>2, <2>3 DEF WorkerSteps
<1>5. QED
  BY <1>1, <1>2, <1>3, <1>4 DEF SystemNext

(* A new session is one of SpeakerSession.                                 *)
LEMMA SameInit == S!Init => P!Init
BY DEF S!Init, P!Init, S!Tasks, P!Tasks, S!Notice, P!Notice, S!Message, P!Message

(* Where wait_for raises every cancellation (Python from 3.12 on), what a  *)
(* session does on the engine is what SpeakerSession says it does, so that *)
(* everything proved of it holds here: the audio it takes for granted is   *)
(* what the engine gives, or less (session.py, _synthesize_segment).       *)
THEOREM SessionKept ==
  ASSUME ~WaitForKeeps
  PROVE  System => P!Spec
<1>1. SystemInit => P!Init
  BY SameInit DEF SystemInit
<1>2. [SystemNext]_system => [P!Next]_(P!vars)
  BY SessionStep
<1>3. QED
  BY <1>1, <1>2, PTL DEF System, P!Spec

(* What the session knows of its tasks and of the text that is left.       *)
TextInv == P!TypeInv /\ P!TaskInv /\ P!EpochInv

(* It holds in a new session.                                              *)
LEMMA TextInit == SystemInit => TextInv
BY SameInit, P!TypeInit, P!TaskInit, P!EpochInit
   DEF SystemInit, TextInv, S!BoundsAssumption, S!NoneAssumption, S!EventsAssumption,
       P!BoundsAssumption, P!NoneAssumption, P!EventsAssumption, S!EventKinds, P!EventKinds

(* It is kept, also when a cancellation is dropped: the worker stays as it *)
(* is, with the text it has, or is about to end.                           *)
LEMMA TextStep == TextInv /\ [SystemNext]_system => TextInv'
<1> SUFFICES ASSUME TextInv, [SystemNext]_system PROVE TextInv'
  OBVIOUS
<1>1. CASE [P!Next]_(P!vars)
  BY <1>1, P!TypeStep, P!TaskStep, P!EpochStep
     DEF TextInv, S!BoundsAssumption, S!NoneAssumption, S!EventsAssumption,
         P!BoundsAssumption, P!NoneAssumption, P!EventsAssumption, S!EventKinds, P!EventKinds
<1>2. ASSUME NEW t \in P!Tasks, Dropped(t) PROVE TextInv'
  <2>1. P!TypeInv'
    <3>1. P!TypeOK'
      BY <1>2 DEF Dropped, TextInv, P!TypeInv, P!TypeOK, P!WorkerStates, P!ErrorCodes,
                  S!ErrorOccurred
    <3>2. P!LocalInv'
      BY <1>2 DEF Dropped, TextInv, P!TypeInv, P!TypeOK, P!LocalInv, P!ChunkIds,
                  P!chunkCounter, P!Speaking
    <3>3. QED
      BY <3>1, <3>2 DEF P!TypeInv
  <2>2. P!TaskInv' /\ P!EpochInv'
    BY <1>2 DEF Dropped, TextInv, P!TypeInv, P!TypeOK, P!TaskInv, P!Live, P!EpochInv,
                P!Speaking
  <2>3. QED
    BY <2>1, <2>2 DEF TextInv
<1>3. QED
  BY <1>1, <1>2, SessionStep

-----------------------------------------------------------------------------
(* Which text a call speaks                                                *)

(* A call that has not ended is the one a worker is speaking through.      *)
CallInv ==
  \A c \in Chunks : pc[c] \in {"lock", "infer", "yield"} =>
     \E t \in S!Tasks : Speaking(t) /\ CallOf(t) = c

(* A worker that speaks goes on with its chunk.                            *)
GoesOn(t) == wpc[t] = "synth" => wpc'[t] = "synth" /\ job'[t] = job[t]

(* Calls keep their workers if the workers that speak go on, but for one   *)
(* whose call ends.                                                        *)
LEMMA KeptCalls ==
  ASSUME CallInv, pc \in [Calls -> {"idle", "lock", "infer", "yield"} \cup Ended],
         \A t \in S!Tasks : GoesOn(t) \/ pc'[CallOf(t)] \in Ended \cup {"idle"},
         \A c \in Chunks : pc'[c] \in {"lock", "infer", "yield"} =>
            pc[c] \in {"lock", "infer", "yield"}
  PROVE  CallInv'
<1> SUFFICES ASSUME NEW c \in Chunks, pc'[c] \in {"lock", "infer", "yield"}
             PROVE  \E t \in S!Tasks : (Speaking(t) /\ CallOf(t) = c)'
  BY DEF CallInv, Chunks, S!Tasks
<1>1. PICK t \in S!Tasks : Speaking(t) /\ CallOf(t) = c
  BY DEF CallInv
<1>2. GoesOn(t)
  BY <1>1 DEF Ended
<1>3. QED
  BY <1>1, <1>2 DEF GoesOn, Speaking, CallOf

(* The main task leaves a worker that speaks alone: a restart only creates *)
(* one.                                                                    *)
LEMMA MainGoesOn ==
  ASSUME TextInv, Main, NEW t \in S!Tasks
  PROVE  GoesOn(t)
<1>0. /\ cur \in 0..MaxTasks /\ wpc \in [P!Tasks -> P!WorkerStates] /\ t \in P!Tasks
      /\ P!LocalInv /\ P!TaskInv
  BY DEF TextInv, P!TypeInv, P!TypeOK, P!Tasks, S!Tasks
<1>1. ASSUME cur' = cur + 1, wpc' = [wpc EXCEPT ![cur + 1] = "new"], UNCHANGED job
      PROVE  GoesOn(t)
  BY <1>0, <1>1 DEF GoesOn, P!TaskInv
<1>2. CASE S!Receive
  BY <1>1, <1>2 DEF GoesOn, S!Receive, S!Authenticate, S!ReceiveToken, S!ReceiveFlush,
    S!ReceiveEnd, S!ReceiveDisconnect, S!ReceiveBinary, S!ReceiveMalformed,
    S!ReceiveInterrupt, S!PutAll, S!Restart, S!worker
<1>3. CASE S!WorkerJoined
  BY <1>1, <1>3 DEF S!WorkerJoined, S!Restart
<1>4. CASE S!AuthOk
  <2>1. cur = 0
    BY <1>0, <1>4 DEF S!AuthOk, P!LocalInv, P!Before
  <2>2. QED
    BY <1>1, <1>4, <2>1 DEF S!AuthOk, GoesOn
<1>5. CASE \/ S!Reject \/ S!SendParseError \/ S!PutEnd \/ S!SendQueueFull \/ S!AbortPut
           \/ S!PutAborted \/ S!SendAborted \/ S!CountAborted \/ S!SendInterrupted
           \/ S!SendTimeout \/ S!CancelOnTimeout \/ S!Join
  BY <1>5 DEF GoesOn, S!Reject, S!SendParseError, S!PutEnd, S!SendQueueFull, S!AbortPut,
    S!PutAborted, S!SendAborted, S!CountAborted, S!SendInterrupted, S!SendTimeout,
    S!CancelOnTimeout, S!Join, S!MainSend, S!worker
<1>6. CASE S!Timeout \/ S!PeerCloses
  BY <1>6 DEF GoesOn, S!Timeout, S!PeerCloses, S!worker
<1>7. QED
  BY <1>2, <1>3, <1>4, <1>5, <1>6 DEF Main, S!Proceed

(* A step of the worker changes no other worker.                           *)
LEMMA OthersGoOn ==
  ASSUME TextInv, NEW t \in S!Tasks, NEW u \in S!Tasks, u # t,
         S!Work(t) \/ UNCHANGED session \/ Dropped(t)
  PROVE  GoesOn(u)
<1>1. wpc \in [P!Tasks -> P!WorkerStates] /\ t \in P!Tasks /\ u \in P!Tasks
      /\ job \in [P!Tasks -> [chunk : Nat \cup {None}, seg : Nat \cup {None}]]
  BY DEF TextInv, P!TypeInv, P!TypeOK, P!Tasks, S!Tasks
<1>2. CASE S!Work(t)
  BY <1>1, <1>2 DEF GoesOn, S!Work, S!Begin, S!TakeSegment, S!TakeSentinel, S!StartChunk,
    S!SendFrame, S!FrameLost, S!EngineFails, S!EngineDone, S!EndChunk, S!CountChunk,
    S!ReportFailure, S!GiveUp, S!SendDone, S!Cancelled, S!ChunkSend, S!WorkerSend,
    S!SegmentFails, S!WorkerStep
<1>3. CASE UNCHANGED session \/ Dropped(t)
  BY <1>1, <1>3 DEF GoesOn, Dropped
<1>4. QED
  BY <1>2, <1>3

(* No step separates a call from the worker that speaks through it.        *)
LEMMA CallStep == Inv /\ TextInv /\ CallInv /\ [SystemNext]_system => CallInv'
<1> SUFFICES ASSUME Inv, TextInv, CallInv, [SystemNext]_system PROVE CallInv'
  OBVIOUS
<1>0. TypeOK /\ WaitInv
  BY DEF Inv
<1> USE <1>0 DEF TypeOK
<1>1. CASE Main
  <2>1. \A t \in S!Tasks : GoesOn(t)
    BY <1>1, MainGoesOn
  <2>2. UNCHANGED pc
    BY <1>1 DEF Main, vars
  <2>3. QED
    BY <2>1, <2>2, KeptCalls
<1>2. CASE Elsewhere \/ AcquireLock \/ Close \/ SystemTerminated \/ UNCHANGED system
  <2>1. \A t \in S!Tasks : GoesOn(t)
    BY <1>2 DEF Elsewhere, AcquireLock, Close, SystemTerminated, GoesOn
  <2>2. ASSUME NEW c \in Others, Call(c) PROVE \A d \in Chunks : pc'[d] = pc[d]
    BY <2>2 DEF Call, Synthesize, Resume, Timeout, Cancel, Finish, Submit, Goto, Others,
                Chunks
  <2>3. CASE Elsewhere
    <3>1. \A d \in Chunks : pc'[d] = pc[d]
      BY <2>2, <2>3 DEF Elsewhere, Infer, Begin
    <3>2. QED
      BY <2>1, <3>1, KeptCalls
  <2>4. CASE AcquireLock
    <3>1. /\ Head(waiters) \in Calls /\ pc[Head(waiters)] = "lock"
          /\ pc' = [pc EXCEPT ![Head(waiters)] = "infer"]
      BY <2>4 DEF AcquireLock, Acquire, Submit, Goto, WaitInv
    <3>2. QED
      BY <2>1, <3>1, KeptCalls DEF Chunks
  <2>5. CASE Close \/ SystemTerminated \/ UNCHANGED system
    <3>1. UNCHANGED pc
      BY <2>5 DEF Close, AClose, SystemTerminated, vars
    <3>2. QED
      BY <2>1, <3>1, KeptCalls
  <2>6. QED
    BY <1>2, <2>3, <2>4, <2>5
<1>3. ASSUME NEW t \in S!Tasks, WorkerSteps(t) PROVE CallInv'
  <2>1. S!Work(t) \/ UNCHANGED session \/ Dropped(t)
    BY <1>3 DEF WorkerSteps, StartCall, CallYields, CallFails, Stream, CancelWorker,
                CancelDropped, Dropped, Speak, S!Work
  <2>2. \A u \in S!Tasks \ {t} : GoesOn(u)
    BY <2>1, OthersGoOn
  <2>3. CASE StartCall(t)
    <3>1. /\ Speaking(t) /\ UNCHANGED session
          /\ \E to \in {"lock", "infer"} : pc' = [pc EXCEPT ![CallOf(t)] = to]
      BY <2>3 DEF StartCall, Synthesize, Submit, Goto
    <3>2. \A c \in Chunks : c # CallOf(t) => pc'[c] = pc[c]
      BY <3>1
    <3>3. QED
      BY <3>1, <3>2 DEF CallInv, Speaking, CallOf, Chunks, S!Tasks
  <2>4. CASE Speak(t)
    <3>1. wpc[t] # "synth" /\ UNCHANGED pc
      BY <2>4 DEF Speak, vars, S!Begin, S!TakeSegment, S!TakeSentinel, S!StartChunk,
        S!EndChunk, S!CountChunk, S!ReportFailure, S!GiveUp, S!SendDone, S!ChunkSend,
        S!WorkerSend, S!SegmentFails, S!WorkerStep
    <3>2. GoesOn(t)
      BY <3>1 DEF GoesOn
    <3>3. QED
      BY <2>2, <3>1, <3>2, KeptCalls
  <2>5. CASE CallYields(t) \/ CancelDropped(t)
    <3>1. /\ Speaking(t) /\ pc[CallOf(t)] = "infer"
          /\ \E to \in {"yield"} \cup Ended : pc' = [pc EXCEPT ![CallOf(t)] = to]
      BY <2>5 DEF CallYields, CancelDropped, Resume, Goto, Ended
    <3>2. GoesOn(t) \/ pc'[CallOf(t)] \in Ended
      BY <2>5, <3>1 DEF CallYields, CancelDropped, Resume, Goto, GoesOn, Ended, Speaking
    <3>3. QED
      BY <2>2, <3>1, <3>2, KeptCalls DEF Chunks
  <2>6. CASE CallFails(t)
    <3>1. Speaking(t) /\ pc' = [pc EXCEPT ![CallOf(t)] = "failed"]
      BY <2>6 DEF CallFails, Resume, Timeout, Goto, Speaking
    <3>2. QED
      BY <2>2, <3>1, KeptCalls DEF Chunks, Speaking, Ended
  <2>7. CASE Stream(t)
    <3>1. CASE S!SendFrame(t) /\ UNCHANGED engine
      <4>1. GoesOn(t)
        BY <3>1, <2>1 DEF GoesOn, S!SendFrame, S!WorkerStep, TextInv, P!TypeInv, P!TypeOK,
                          P!Tasks, S!Tasks
      <4>2. QED
        BY <2>2, <3>1, <4>1, KeptCalls DEF vars
    <3>2. CASE Cancel(CallOf(t)) \/ Finish(CallOf(t))
      <4>1. Speaking(t) /\ \E to \in Ended : pc' = [pc EXCEPT ![CallOf(t)] = to]
        BY <2>7, <3>2 DEF Stream, Cancel, Finish, Goto, Ended
      <4>2. QED
        BY <2>2, <4>1, KeptCalls DEF Chunks, Speaking, Ended
    <3>3. QED
      BY <2>7, <3>1, <3>2 DEF Stream
  <2>8. CASE CancelWorker(t)
    <3>1. CASE Speaking(t) /\ pc[CallOf(t)] # "idle"
      <4>1. pc' = [pc EXCEPT ![CallOf(t)] = "cancelled"]
        BY <2>8, <3>1 DEF CancelWorker, Cancel, Goto
      <4>2. QED
        BY <2>2, <3>1, <4>1, KeptCalls DEF Chunks, Speaking, Ended
    <3>2. CASE Speaking(t) /\ pc[CallOf(t)] = "idle"
      <4>1. UNCHANGED pc
        BY <2>8, <3>2 DEF CancelWorker, vars
      <4>2. QED
        BY <2>2, <3>2, <4>1, KeptCalls
    <3>3. CASE ~Speaking(t)
      <4>1. UNCHANGED pc
        BY <2>8, <3>3 DEF CancelWorker, vars
      <4>2. QED
        <5> SUFFICES ASSUME NEW c \in Chunks, pc[c] \in {"lock", "infer", "yield"}
                     PROVE  \E u \in S!Tasks : (Speaking(u) /\ CallOf(u) = c)'
          BY <4>1 DEF CallInv, Chunks, S!Tasks
        <5>1. PICK u \in S!Tasks : Speaking(u) /\ CallOf(u) = c
          BY DEF CallInv
        <5>2. GoesOn(u)
          BY <2>2, <3>3, <5>1
        <5>3. QED
          BY <5>1, <5>2 DEF GoesOn, Speaking, CallOf
    <3>4. QED
      BY <3>1, <3>2, <3>3
  <2>9. QED
    BY <1>3, <2>3, <2>4, <2>5, <2>6, <2>7, <2>8 DEF WorkerSteps
<1>4. QED
  BY <1>1, <1>2, <1>3 DEF SystemNext

(* All of it holds in every reachable state.                               *)
LEMMA SystemInvariant == System => [](Inv /\ TextInv /\ CallInv)
<1>1. SystemInit => Inv /\ TextInv /\ CallInv
  <2>1. SystemInit => CallInv
    BY DEF SystemInit, Init, CallInv, Chunks
  <2>2. QED
    BY <2>1, InvInit, TextInit DEF SystemInit
<1>2. Inv /\ TextInv /\ CallInv /\ [SystemNext]_system => (Inv /\ TextInv /\ CallInv)'
  BY EngineStep, InvStep, TextStep, CallStep
<1>3. QED
  BY <1>1, <1>2, PTL DEF System

(* The thread never begins to infer text that a barge-in has discarded:    *)
(* the cancelled worker takes its call along, and the next worker starts   *)
(* when it is dead (session.py, _handle_interrupt; engine.py, synthesize). *)
THEOREM NoStaleInferenceCorrect == System => NoStaleInference
<1>1. Inv /\ TextInv /\ CallInv /\ [SystemNext]_system =>
        [\A c \in (running' \ running) \cap Chunks :
           \E t \in S!Tasks : Speaking(t) /\ CallOf(t) = c /\ job[t].seg = epoch]_system
  <2> SUFFICES ASSUME Inv, TextInv, CallInv, [SystemNext]_system,
                      NEW c \in (running' \ running) \cap Chunks
               PROVE  \E t \in S!Tasks : Speaking(t) /\ CallOf(t) = c /\ job[t].seg = epoch
    OBVIOUS
  <2>1. pc[c] = "infer"
    BY EngineStep, InferenceBegins
  <2>2. PICK t \in S!Tasks : Speaking(t) /\ CallOf(t) = c
    BY <2>1 DEF CallInv
  <2>3. job[t].seg = epoch
    BY <2>2 DEF TextInv, P!EpochInv, P!Speaking, Speaking, P!Tasks, S!Tasks
  <2>4. QED
    BY <2>2, <2>3
<1>2. QED
  BY <1>1, SystemInvariant, PTL DEF System, NoStaleInference

(* Two workers never live at once, even where wait_for drops the           *)
(* cancellation of a barge-in (session.py, _handle_interrupt).             *)
THEOREM OneWorkerOnEngine == System => []S!OneWorker
<1>1. TextInv => S!OneWorker
  BY DEF TextInv, P!TaskInv, P!Live, S!OneWorker, S!Live, P!Tasks, S!Tasks
<1>2. QED
  BY <1>1, SystemInvariant, PTL

(* Nor is text from before a barge-in spoken after it then.                *)
THEOREM NoStaleAudioOnEngine == System => S!NoStaleAudio
<1>1. TextInv /\ [SystemNext]_system =>
        [out' # out /\ out'.type \in {"audio_start", "frame"} => out'.ep = epoch]_(S!vars)
  <2> SUFFICES ASSUME TextInv, [SystemNext]_system
               PROVE  out' # out /\ out'.type \in {"audio_start", "frame"} => out'.ep = epoch
    OBVIOUS
  <2>1. CASE [P!Next]_(P!vars)
    BY <2>1, P!AudioStep
       DEF TextInv, S!BoundsAssumption, S!NoneAssumption, S!EventsAssumption,
           P!BoundsAssumption, P!NoneAssumption, P!EventsAssumption, S!EventKinds, P!EventKinds
  <2>2. CASE \E t \in P!Tasks : Dropped(t)
    BY <2>2 DEF Dropped
  <2>3. QED
    BY <2>1, <2>2, SessionStep
<1>2. QED
  BY <1>1, SystemInvariant, PTL DEF System, S!NoStaleAudio
=============================================================================
