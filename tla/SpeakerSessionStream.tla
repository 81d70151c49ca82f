------------------------ MODULE SpeakerSessionStream ------------------------
(***************************************************************************)
(* A SpeakerSession implements ChunkStream: while the socket is open the   *)
(* client's view follows the worker (ViewInv), so that every message on    *)
(* the wire is one the stream allows.  Before it, the chunks are proved to *)
(* be counted once each; with it, a session without a fault to speak what  *)
(* it accepted, and SessionInv to be inductive.                            *)
(***************************************************************************)
EXTENDS SpeakerSessionProofs

USE BoundsAssumption, NoneAssumption

-----------------------------------------------------------------------------
(* A barge-in being confirmed                                              *)

(* The main task begins to confirm a barge-in only by a restart.           *)
LEMMA RestartQuiet ==
  ASSUME TypeInv, TaskInv, cur \in Tasks, cur + 1 \in Tasks, NEW id, Restart(id)
  PROVE  QuietInv'
BY DEF Restart, Discard, QuietInv, TaskInv, Live, TypeInv, TypeOK, Tasks

(* No session begins with a barge-in.                                      *)
LEMMA QuietInit == Init => QuietInv
BY DEF Init, QuietInv, Confirming

(* While a barge-in is confirmed nothing is put, and the new worker, which *)
(* nobody cancels, finds nothing to take (session.py, _handle_interrupt).  *)
LEMMA QuietStep == TypeInv /\ TaskInv /\ QuietInv /\ [Next]_vars => QuietInv'
<1> SUFFICES ASSUME TypeInv, TaskInv, QuietInv, [Next]_vars PROVE QuietInv'
  OBVIOUS
<1>0. TypeOK /\ LocalInv
  BY DEF TypeInv
<1>1. CASE ReceiveInterrupt
  <2>1. cur \in Tasks /\ cur + 1 \in Tasks
    BY <1>0, <1>1 DEF ReceiveInterrupt, LocalInv, Before, Tasks
  <2>2. QED
    BY <1>1, <2>1, RestartQuiet DEF ReceiveInterrupt, QuietInv, Confirming
<1>2. CASE WorkerJoined
  <2>1. cur \in Tasks /\ cur + 1 \in Tasks
    BY <1>0, <1>2 DEF WorkerJoined, LocalInv, Before, Tasks
  <2>2. QED
    BY <1>2, <2>1, RestartQuiet DEF WorkerJoined
<1>3. CASE SendAborted \/ CountAborted
  BY <1>3 DEF SendAborted, CountAborted, MainSend, MainStep, worker, text, QuietInv,
              Confirming
<1>4. CASE Reject \/ SendParseError \/ SendQueueFull \/ SendInterrupted \/ SendTimeout
  BY <1>4 DEF Reject, SendParseError, SendQueueFull, SendInterrupted, SendTimeout,
              MainSend, MainStep, LoopTop, QuietInv, Confirming
<1>5. CASE AuthOk \/ PutEnd \/ AbortPut \/ PutAborted \/ CancelOnTimeout \/ Join
  BY <1>5 DEF AuthOk, PutEnd, AbortPut, PutAborted, CancelOnTimeout, Join, MainStep,
              QuietInv, Confirming
<1>6. CASE Timeout
  BY <1>6 DEF Timeout, MainStep, QuietInv, Confirming
<1>7. CASE ReceiveToken \/ ReceiveFlush \/ ReceiveEnd
  BY <1>7 DEF ReceiveToken, ReceiveFlush, ReceiveEnd, PutAll, LoopTop, QuietInv,
              Confirming
<1>8. CASE Authenticate \/ ReceiveDisconnect \/ ReceiveBinary \/ ReceiveMalformed
  BY <1>8 DEF Authenticate, ReceiveDisconnect, ReceiveBinary, ReceiveMalformed,
              MainStep, QuietInv, Confirming
<1>9. CASE PeerCloses \/ Terminated \/ UNCHANGED vars
  BY <1>9 DEF PeerCloses, Terminated, vars, main, worker, text, QuietInv
<1>10. ASSUME NEW t \in Tasks, Work(t) PROVE QuietInv'
  <2>1. t = cur /\ UNCHANGED <<mpc, cur, buf>>
    BY <1>10 DEF Work, Begin, TakeSegment, TakeSentinel, StartChunk, SendFrame, FrameLost,
       EngineFails, EngineDone, EndChunk, CountChunk, ReportFailure, GiveUp, SendDone,
       Cancelled, ChunkSend, WorkerSend, SegmentFails, WorkerStep, main, text, TaskInv,
       Live
  <2>2. CASE mpc \in Confirming
    <3>1. Begin(t)
      BY <1>10, <2>1, <2>2
         DEF QuietInv, Work, TakeSegment, TakeSentinel, StartChunk, SendFrame, FrameLost,
             EngineFails, EngineDone, EndChunk, CountChunk, ReportFailure, GiveUp,
             SendDone, Cancelled, ChunkSend, WorkerSend, SegmentFails, WorkerStep
    <3>2. QED
      BY <1>0, <2>1, <2>2, <3>1 DEF QuietInv, Begin, WorkerStep, TypeOK
  <2>3. QED
    BY <2>1, <2>2 DEF QuietInv
<1>11. QED
  BY <1>1, <1>2, <1>3, <1>4, <1>5, <1>6, <1>7, <1>8, <1>9, <1>10
     DEF Next, Receive, Proceed

-----------------------------------------------------------------------------
(* What the steps do to the chunks                                         *)

(* The chunks, and which task speaks, are left alone.                      *)
ChunksKept == /\ UNCHANGED <<job, current, tally>>
              /\ \A t \in Tasks : wpc'[t] \in Speaking <=> wpc[t] \in Speaking

Takes(t) == /\ wpc[t] = "get" /\ ~wcancel[t] /\ queue # <<>>
            /\ wpc' = [wpc EXCEPT ![t] = "start"]
            /\ \E seg \in Nat :
                 job' = [job EXCEPT ![t] = [chunk |-> chunkCounter, seg |-> seg]]
            /\ current' = chunkCounter /\ tally' = Append(tally, 0)

Leaves(t) == /\ wpc[t] \in Speaking
             /\ \E to \in WorkerStates \ Speaking : wpc' = [wpc EXCEPT ![t] = to]
             /\ current' = None /\ UNCHANGED job

Counts(t) == /\ Leaves(t) /\ ~wcancel[t] /\ ChunkFinished(job[t].chunk)

(* It is cut before its end, by a failure or by a cancel.                  *)
Cuts(t) == /\ Leaves(t) /\ UNCHANGED tally
           /\ wcancel[t] \/ "synthesis_error" \in errors'

(* A worker step leaves the chunks alone, takes a segment up, or leaves    *)
(* its chunk, counted or cut (session.py, _synthesize_segment).            *)
LEMMA WorkerEffect ==
  ASSUME TypeInv, NEW t \in Tasks, Work(t)
  PROVE  /\ ChunksKept \/ Takes(t) \/ Counts(t) \/ Cuts(t)
         /\ UNCHANGED <<main, buf, epoch>>
<1>0. TypeOK /\ LocalInv
  BY DEF TypeInv
<1>1. CASE TakeSegment(t)
  <2>1. Head(queue) \in Nat
    BY <1>0, <1>1 DEF TakeSegment, TypeOK
  <2>2. QED
    BY <1>0, <1>1, <2>1 DEF TakeSegment, WorkerStep, Takes, TypeOK
<1>2. CASE FrameLost(t) \/ CountChunk(t)
  BY <1>0, <1>2 DEF FrameLost, CountChunk, WorkerStep, Counts, Leaves, Speaking,
                    WorkerStates
<1>3. CASE EngineFails(t)
  BY <1>0, <1>3 DEF EngineFails, SegmentFails, WorkerStep, ErrorOccurred, Cuts, Leaves,
                    Speaking, WorkerStates
<1>4. CASE StartChunk(t) \/ EndChunk(t)
  <2>1. CASE SegmentFails(t, "start") \/ SegmentFails(t, "end")
    BY <2>1 DEF SegmentFails, WorkerStep, ErrorOccurred, Cuts, Leaves, Speaking,
                WorkerStates
  <2>2. CASE /\ WorkerStep(t, "start", "synth") \/ WorkerStep(t, "end", "endSent")
             /\ UNCHANGED <<job, chunks>>
    BY <1>0, <2>2 DEF WorkerStep, chunks, ChunksKept, Speaking, TypeOK
  <2>3. QED
    BY <1>4, <2>1, <2>2 DEF StartChunk, EndChunk, ChunkSend
<1>5. CASE Cancelled(t)
  <2>1. UNCHANGED <<main, buf, epoch, job, tally>> /\ wcancel[t]
        /\ \E to \in {"dead", "done"} : wpc' = [wpc EXCEPT ![t] = to]
    BY <1>5 DEF Cancelled, text
  <2>2. CASE wpc[t] \in Speaking
    BY <1>5, <2>1, <2>2 DEF Cancelled, Cuts, Leaves, Speaking, WorkerStates
  <2>3. CASE wpc[t] \notin Speaking
    BY <1>0, <1>5, <2>1, <2>3 DEF Cancelled, ChunksKept, Speaking, TypeOK
  <2>4. QED
    BY <2>1, <2>2, <2>3
<1>6. CASE SendFrame(t) \/ EngineDone(t) \/ Begin(t) \/ TakeSentinel(t)
           \/ ReportFailure(t) \/ GiveUp(t) \/ SendDone(t)
  BY <1>0, <1>6 DEF SendFrame, EngineDone, Begin, TakeSentinel, ReportFailure, GiveUp,
                    SendDone, WorkerSend, WorkerStep, chunks, ChunksKept, Speaking,
                    TypeOK
<1>7. QED
  BY <1>1, <1>2, <1>3, <1>4, <1>5, <1>6 DEF Work

(* Only the task in _tts_task takes steps, and only a cancelled one while  *)
(* a barge-in awaits it.  None speaks while the barge-in is confirmed.     *)
LEMMA WorkerWho ==
  ASSUME TypeInv, TaskInv, QuietInv, CurrentInv, NEW t \in Tasks, Work(t)
  PROVE  /\ t = cur /\ \A u \in Tasks : wpc[u] \in Speaking => u = t
         /\ mpc = "intJoin" => wcancel[t] \/ wpc[t] \in {"done", "dead"}
         /\ mpc \in Confirming => wpc[t] \in {"new", "get"} /\ queue = <<>>
<1>1. Live(t)
  BY DEF Work, Begin, TakeSegment, TakeSentinel, StartChunk, SendFrame, FrameLost,
       EngineFails, EngineDone, EndChunk, CountChunk, ReportFailure, GiveUp, SendDone,
       Cancelled, ChunkSend, WorkerSend, SegmentFails, WorkerStep, TaskInv, Live
<1>2. QED
  BY <1>1 DEF TaskInv, Live, QuietInv, CurrentInv, Speaking

Awaiting == {"intJoin", "intAborted", "abortSent"}

(* The main task begins a barge-in, restarts the worker, goes on with what *)
(* the barge-in remembers, or is not about one.                            *)
LEMMA MainEffect ==
  ASSUME TypeInv, TaskInv, [Next]_vars, ~\E t \in Tasks : Work(t)
  PROVE  /\ ChunksKept \/ CountAborted
         /\ mpc' = "intJoin" =>
               /\ cur' = cur /\ wpc' = wpc
               /\ \/ mpc = "recv" /\ aborted' = current
                  \/ mpc = "intJoin" /\ aborted' = aborted
               /\ wcancel' = wcancel \/ Cancel(cur)
               /\ mpc = "recv" => wpc[cur] # "dead" /\ Cancel(cur)
         /\ mpc' \in {"intAborted", "abortSent"} =>
               \/ mpc \in Awaiting /\ aborted' = aborted
               \/ mpc = "recv" /\ wpc[cur] = "dead" /\ aborted' = current
         /\ mpc \in Awaiting /\ mpc' \notin Awaiting =>
               \/ mpc = "intJoin" /\ aborted = None
               \/ CountAborted
               \/ "session_timeout" \in errors'
         /\ errors \subseteq errors' /\ (ws' = "open" => ws = "open")
<1>0. TypeOK /\ LocalInv
  BY DEF TypeInv
<1> USE DEF Awaiting
<1>1. CASE ReceiveInterrupt
  <2>1. cur + 1 \in Tasks
    BY <1>0, <1>1 DEF ReceiveInterrupt, LocalInv, Before, Tasks
  <2>2. wpc[cur + 1] = "none"
    BY <1>0, <2>1 DEF TaskInv, Tasks, TypeOK
  <2>3. QED
    BY <1>0, <1>1, <2>1, <2>2
       DEF ReceiveInterrupt, Restart, Discard, ChunksKept, Speaking, chunks, TypeOK
<1>2. CASE WorkerJoined
  <2>1. cur + 1 \in Tasks
    BY <1>0, <1>2 DEF WorkerJoined, LocalInv, Before, Tasks
  <2>2. wpc[cur + 1] = "none"
    BY <1>0, <2>1 DEF TaskInv, Tasks, TypeOK
  <2>3. QED
    BY <1>0, <1>2, <2>1, <2>2
       DEF WorkerJoined, Restart, Discard, ChunksKept, Speaking, chunks, TypeOK
<1>3. CASE AuthOk
  <2>1. cur = 0 /\ 1 \in Tasks
    BY <1>0, <1>3 DEF AuthOk, LocalInv, Before, Tasks
  <2>2. wpc[1] = "none"
    BY <1>0, <2>1 DEF TaskInv, Tasks, TypeOK
  <2>3. QED
    BY <1>0, <1>3, <2>1, <2>2
       DEF AuthOk, Write, SendRaises, ChunksKept, Speaking, chunks, TypeOK
<1>4. CASE Reject \/ SendParseError \/ SendQueueFull \/ SendAborted \/ SendInterrupted
           \/ SendTimeout
  BY <1>4 DEF Reject, SendParseError, SendQueueFull, SendAborted, SendInterrupted,
              SendTimeout, MainSend, MainStep, LoopTop, worker, chunks, Write,
              SendRaises, ChunksKept
<1>5. CASE PutEnd \/ AbortPut \/ PutAborted \/ CancelOnTimeout \/ Join \/ CountAborted
  BY <1>5 DEF PutEnd, AbortPut, PutAborted, CancelOnTimeout, Join, CountAborted,
              MainStep, worker, chunks, ChunksKept
<1>6. CASE Timeout
  BY <1>6 DEF Timeout, MainStep, ErrorOccurred, Cancel, chunks, ChunksKept
<1>7. CASE ReceiveToken \/ ReceiveFlush \/ ReceiveEnd
  BY <1>7 DEF ReceiveToken, ReceiveFlush, ReceiveEnd, PutAll, LoopTop, ErrorOccurred,
              ReceiveCounted, worker, chunks, ChunksKept
<1>8. CASE Authenticate \/ ReceiveDisconnect \/ ReceiveBinary \/ ReceiveMalformed
  BY <1>8 DEF Authenticate, ReceiveDisconnect, ReceiveBinary, ReceiveMalformed,
              ReceiveCounted, MainStep, ErrorOccurred, worker, chunks, ChunksKept
<1>9. CASE PeerCloses \/ Terminated \/ UNCHANGED vars
  BY <1>9 DEF PeerCloses, Terminated, vars, main, worker, chunks, ChunksKept
<1>10. QED
  BY <1>1, <1>2, <1>3, <1>4, <1>5, <1>6, <1>7, <1>8, <1>9 DEF Next, Receive, Proceed

-----------------------------------------------------------------------------
(* The current chunk                                                       *)

(* No chunk exists in a new session.                                       *)
LEMMA CurrentInit == Init => CurrentInv
BY DEF Init, CurrentInv, Speaking

(* Counting chunks does not make them more or fewer.                       *)
LEMMA CountLength ==
  ASSUME TypeOK, NEW c \in ChunkIds, ChunkFinished(c)
  PROVE  chunkCounter' = chunkCounter
BY ChunkFinishedEffect DEF chunkCounter

(* _current_chunk_id follows the worker, and a barge-in that remembers it  *)
(* is not overtaken by another chunk (session.py, _synthesize_segment and  *)
(* _handle_interrupt).                                                     *)
LEMMA CurrentStep ==
  TypeInv /\ TaskInv /\ QuietInv /\ CurrentInv /\ [Next]_vars => CurrentInv'
<1> SUFFICES ASSUME TypeInv, TaskInv, QuietInv, CurrentInv, [Next]_vars
             PROVE  CurrentInv'
  OBVIOUS
<1>0. TypeOK /\ LocalInv
  BY DEF TypeInv
<1>1. ASSUME NEW t \in Tasks, Work(t) PROVE CurrentInv'
  <2>1. /\ t = cur /\ UNCHANGED <<mpc, cur, aborted>>
        /\ \A u \in Tasks : wpc[u] \in Speaking => u = t
        /\ mpc = "intJoin" => wcancel[t] \/ wpc[t] \in {"done", "dead"}
        /\ mpc \in Confirming => wpc[t] \in {"new", "get"} /\ queue = <<>>
    BY <1>1, WorkerEffect, WorkerWho DEF main
  <2>2. mpc = "intJoin" => (wcancel[cur] \/ wpc[cur] \in {"done", "dead"})'
    BY <1>0, <1>1, <2>1
       DEF Work, Begin, TakeSegment, TakeSentinel, StartChunk, SendFrame, FrameLost,
           EngineFails, EngineDone, EndChunk, CountChunk, ReportFailure, GiveUp, SendDone,
           Cancelled, ChunkSend, WorkerSend, SegmentFails, WorkerStep, TypeOK
  <2>3. CASE ChunksKept
    BY <2>1, <2>2, <2>3 DEF ChunksKept, CurrentInv, chunkCounter
  <2>4. CASE Takes(t)
    <3>1. mpc \notin {"intJoin", "intAborted", "abortSent"}
      BY <2>1, <2>4 DEF Takes, Confirming
    <3>2. chunkCounter' = chunkCounter + 1 /\ chunkCounter \in Nat
      BY <1>0, <2>4 DEF Takes, chunkCounter, TypeOK
    <3>3. wpc'[t] \in Speaking /\ job'[t].chunk = chunkCounter /\ current' = chunkCounter
      BY <1>0, <2>4 DEF Takes, TypeOK, Speaking
    <3>4. \A u \in Tasks : wpc'[u] \in Speaking => u = t
      BY <1>0, <2>1, <2>4 DEF Takes, TypeOK
    <3>5. QED
      BY <2>1, <3>1, <3>2, <3>3, <3>4 DEF CurrentInv
  <2>5. CASE Counts(t) \/ Cuts(t)
    <3>1. chunkCounter' = chunkCounter
      BY <1>0, <2>5, CountLength DEF Counts, Cuts, Leaves, LocalInv, chunkCounter
    <3>2. \A u \in Tasks : wpc'[u] \notin Speaking
      BY <1>0, <2>1, <2>5 DEF Counts, Cuts, Leaves, TypeOK
    <3>3. QED
      BY <2>1, <2>2, <2>5, <3>1, <3>2 DEF CurrentInv, Counts, Cuts, Leaves
  <2>6. QED
    BY <1>1, <2>3, <2>4, <2>5, WorkerEffect
<1>2. CASE ~\E t \in Tasks : Work(t)
  <2>1. (chunkCounter' = chunkCounter /\ ChunksKept) \/ CountAborted
    BY <1>2, MainEffect DEF ChunksKept, chunkCounter
  <2>2. CASE CountAborted
    <3>1. aborted \in ChunkIds /\ mpc = "abortSent" /\ mpc' = "intDone"
          /\ UNCHANGED <<cur, aborted, wpc, wcancel, job, current>>
          /\ ChunkFinished(aborted)
      BY <1>0, <2>2 DEF CountAborted, MainStep, LocalInv, worker
    <3>2. chunkCounter' = chunkCounter
      BY <1>0, <3>1, CountLength
    <3>3. QED
      BY <3>1, <3>2 DEF CurrentInv
  <2>3. CASE chunkCounter' = chunkCounter /\ ChunksKept
    <3>1. CASE mpc' = "intJoin"
      <4>1. cur \in Tasks
        BY <1>0, <1>2, <3>1, MainEffect DEF LocalInv, Before
      <4>2. (wcancel[cur] \/ wpc[cur] \in {"done", "dead"})'
        BY <1>0, <1>2, <3>1, <4>1, MainEffect DEF Cancel, TypeOK, CurrentInv
      <4>3. \A t \in Tasks : wpc'[t] \in Speaking => aborted' = current'
        BY <1>2, <2>3, <3>1, MainEffect DEF ChunksKept, CurrentInv
      <4>4. aborted' # None => aborted' = chunkCounter' - 1
        BY <1>2, <2>3, <3>1, MainEffect DEF CurrentInv
      <4>5. QED
        BY <2>3, <3>1, <4>2, <4>3, <4>4 DEF ChunksKept, CurrentInv
    <3>2. CASE mpc' # "intJoin"
      <4>1. mpc' \in {"intAborted", "abortSent"} /\ aborted' # None =>
              aborted' = chunkCounter' - 1
        BY <1>2, <2>3, MainEffect DEF CurrentInv, Awaiting
      <4>2. QED
        BY <2>3, <3>2, <4>1 DEF ChunksKept, CurrentInv
    <3>3. QED
      BY <3>1, <3>2
  <2>4. QED
    BY <2>1, <2>2, <2>3
<1>3. QED
  BY <1>1, <1>2

-----------------------------------------------------------------------------
(* Faults                                                                  *)

(* Nothing has gone wrong in a new session.                                *)
LEMMA FaultInit == Init => FaultInv
BY DEF Init, FaultInv

(* What went wrong stays: codes are only added, and a socket that is not   *)
(* open never opens again.                                                 *)
LEMMA FaultsStay ==
  ASSUME TypeInv, TaskInv, [Next]_vars
  PROVE  errors \subseteq errors' /\ (ws' = "open" => ws = "open")
<1>1. ASSUME NEW t \in Tasks, Work(t)
      PROVE  errors \subseteq errors' /\ (ws' = "open" => ws = "open")
  BY <1>1
     DEF Work, Begin, TakeSegment, TakeSentinel, StartChunk, SendFrame, FrameLost,
         EngineFails, EngineDone, EndChunk, CountChunk, ReportFailure, GiveUp, SendDone,
         Cancelled, ChunkSend, WorkerSend, SegmentFails, Write, SendRaises, ErrorOccurred
<1>2. QED
  BY <1>1, MainEffect

(* The error is counted before it is reported, and the worker cancelled    *)
(* after it (session.py, _put, _tts_worker and run).                       *)
LEMMA FaultStep == TypeInv /\ TaskInv /\ FaultInv /\ [Next]_vars => FaultInv'
<1> SUFFICES ASSUME TypeInv, TaskInv, FaultInv, [Next]_vars PROVE FaultInv'
  OBVIOUS
<1>0. TypeOK /\ LocalInv /\ errors \subseteq errors'
  BY FaultsStay DEF TypeInv
<1> USE <1>0 DEF FaultInv
<1>1. CASE ReceiveInterrupt \/ WorkerJoined
  <2>1. mpc' \in {"intJoin", "intAborted", "intDone"}
    BY <1>1 DEF ReceiveInterrupt, WorkerJoined, Restart
  <2>2. \A t \in Tasks : wpc'[t] \in {"err", "errSent"} => wpc'[t] = wpc[t]
    BY <1>1 DEF ReceiveInterrupt, WorkerJoined, Restart, TypeOK
  <2>3. mpc' = "intJoin" \/ (wcancel' = wcancel /\ wpc[cur] = "dead")
    BY <1>1 DEF ReceiveInterrupt, WorkerJoined, Restart
  <2>4. wpc[cur] = "dead" => \A t \in Tasks : ~wcancel[t]
    BY DEF TaskInv, Live
  <2>5. QED
    BY <2>1, <2>2, <2>3, <2>4
<1>2. CASE AuthOk
  <2>1. \A t \in Tasks : ~wcancel[t]
    BY <1>2 DEF AuthOk, TaskInv, Live, Tasks, LocalInv, Before, TypeOK, WorkerStates
  <2>2. QED
    BY <1>2, <2>1 DEF AuthOk, TypeOK
<1>3. CASE AbortPut \/ CancelOnTimeout \/ Timeout
  BY <1>3 DEF AbortPut, CancelOnTimeout, Timeout, MainStep, Cancel, ErrorOccurred, TypeOK,
              Interruptible
<1>4. CASE PutEnd \/ PutAborted \/ Join \/ CountAborted \/ PeerCloses \/ Terminated
           \/ UNCHANGED vars
  BY <1>4 DEF PutEnd, PutAborted, Join, CountAborted, PeerCloses, Terminated, MainStep,
              vars, main, worker
<1>5. CASE Reject \/ SendParseError \/ SendQueueFull \/ SendAborted
           \/ SendInterrupted \/ SendTimeout
  BY <1>5 DEF Reject, SendParseError, SendQueueFull, SendAborted, SendInterrupted,
              SendTimeout, MainSend, MainStep, LoopTop, worker
<1>6. CASE Authenticate \/ ReceiveDisconnect \/ ReceiveBinary \/ ReceiveMalformed
  BY <1>6 DEF Authenticate, ReceiveDisconnect, ReceiveBinary, ReceiveMalformed,
              ReceiveCounted, MainStep, worker
<1>7. CASE ReceiveToken \/ ReceiveFlush \/ ReceiveEnd
  BY <1>7 DEF ReceiveToken, ReceiveFlush, ReceiveEnd, ReceiveCounted, PutAll, LoopTop,
              ErrorOccurred, worker
<1>8. ASSUME NEW t \in Tasks, Work(t) PROVE FaultInv'
  <2>1. mpc' = mpc /\ \A u \in Tasks : wcancel'[u] => wcancel[u]
    BY <1>8
       DEF Work, Begin, TakeSegment, TakeSentinel, StartChunk, SendFrame, FrameLost,
           EngineFails, EngineDone, EndChunk, CountChunk, ReportFailure, GiveUp,
           SendDone, Cancelled, ChunkSend, WorkerSend, SegmentFails, WorkerStep, main,
           TypeOK
  <2>2. \A u \in Tasks : wpc'[u] \in {"err", "errSent"} => "synthesis_error" \in errors'
    BY <1>8
       DEF Work, Begin, TakeSegment, TakeSentinel, StartChunk, SendFrame, FrameLost,
           EngineFails, EngineDone, EndChunk, CountChunk, ReportFailure, GiveUp,
           SendDone, Cancelled, ChunkSend, WorkerSend, SegmentFails, WorkerStep,
           ErrorOccurred, TypeOK
  <2>3. QED
    BY <2>1, <2>2
<1>9. QED
  BY <1>1, <1>2, <1>3, <1>4, <1>5, <1>6, <1>7, <1>8 DEF Next, Receive, Proceed

-----------------------------------------------------------------------------
(* Counts                                                                  *)

Spoken(c) == \E t \in Tasks : wpc[t] \in Speaking /\ job[t].chunk = c

(* A chunk is in flight while a worker speaks it or a barge-in is about to *)
(* count it.                                                               *)
LEMMA InFlightIs ==
  ASSUME NEW c
  PROVE  /\ c \in InFlight <=> Spoken(c) \/ (mpc \in Awaiting /\ aborted = c)
         /\ c \in InFlight' <=> Spoken(c)' \/ (mpc' \in Awaiting /\ aborted' = c)
BY DEF InFlight, Spoken, Awaiting, Speaking

(* What ChunkCountedOnce says of a chunk, before and after a step.         *)
LEMMA CountedIs ==
  ASSUME TypeOK, TypeOK'
  PROVE  /\ ChunkCountedOnce <=>
              \A c \in ChunkIds :
                  /\ tally[c + 1] \in {0, 1}
                  /\ c \in InFlight => tally[c + 1] = 0
                  /\ c \notin InFlight => ~NoFault \/ tally[c + 1] = 1
         /\ ChunkCountedOnce' <=>
              \A c \in ChunkIds' :
                  /\ tally'[c + 1] \in {0, 1}
                  /\ c \in InFlight' => tally'[c + 1] = 0
                  /\ c \notin InFlight' => ~NoFault' \/ tally'[c + 1] = 1
<1>1. ASSUME NEW n \in Nat PROVE (n <= 0 <=> n = 0) /\ (n <= 1 <=> n \in {0, 1})
  BY <1>1
<1>2. tally \in Seq(Nat) /\ tally' \in Seq(Nat)
  BY DEF TypeOK
<1>3. /\ \A c \in ChunkIds : tally[c + 1] \in Nat
      /\ \A c \in ChunkIds' : tally'[c + 1] \in Nat
  BY <1>2 DEF ChunkIds, chunkCounter
<1>4. QED
  BY <1>1, <1>3 DEF ChunkCountedOnce, ChunkIds, chunkCounter, NoFault

(* No chunk exists in a new session.                                       *)
LEMMA CountInit == Init => ChunkCountedOnce
BY DEF Init, ChunkCountedOnce, chunkCounter

CountInv == /\ TypeInv /\ TaskInv /\ QuietInv /\ CurrentInv /\ FaultInv
            /\ ChunkCountedOnce

(* The worker counts its chunk when it leaves it, unless it fails or is    *)
(* cancelled; cancelled by a barge-in, it leaves the chunk to it           *)
(* (session.py, _synthesize_segment).                                      *)
LEMMA WorkerCounts ==
  ASSUME CountInv, [Next]_vars, NEW t \in Tasks, Work(t)
  PROVE  ChunkCountedOnce'
<1>0. TypeOK /\ TypeOK' /\ LocalInv /\ (NoFault' => NoFault)
  BY TypeStep, FaultsStay DEF CountInv, TypeInv, NoFault
<1>1. /\ UNCHANGED <<mpc, aborted>>
      /\ \A u \in Tasks : wpc[u] \in Speaking => u = t
      /\ mpc = "intJoin" => wcancel[t] \/ wpc[t] \in {"done", "dead"}
      /\ mpc \in Confirming => wpc[t] \in {"new", "get"} /\ queue = <<>>
  BY WorkerEffect, WorkerWho DEF CountInv, main
<1>2. \A c \in ChunkIds :
        /\ tally[c + 1] \in {0, 1}
        /\ c \in InFlight => tally[c + 1] = 0
        /\ c \notin InFlight => ~NoFault \/ tally[c + 1] = 1
  BY <1>0, CountedIs DEF CountInv
<1>3. SUFFICES ASSUME NEW c \in ChunkIds'
               PROVE  /\ tally'[c + 1] \in {0, 1}
                      /\ c \in InFlight' => tally'[c + 1] = 0
                      /\ c \notin InFlight' => ~NoFault' \/ tally'[c + 1] = 1
  BY <1>0, CountedIs
<1>4. /\ c \in InFlight <=> Spoken(c) \/ (mpc \in Awaiting /\ aborted = c)
      /\ c \in InFlight' <=> Spoken(c)' \/ (mpc \in Awaiting /\ aborted = c)
  BY <1>1, InFlightIs
<1>5. CASE ChunksKept
  <2>1. c \in ChunkIds /\ tally' = tally /\ (Spoken(c)' <=> Spoken(c))
    BY <1>5 DEF ChunksKept, ChunkIds, chunkCounter, Spoken
  <2>2. c \in InFlight' <=> c \in InFlight
    BY <1>4, <2>1
  <2>3. QED
    BY <1>0, <1>2, <2>1, <2>2 DEF NoFault, ChunkIds, chunkCounter
<1>6. CASE Takes(t)
  <2>1. tally' = Append(tally, 0) /\ chunkCounter \in Nat /\ c \in 0..chunkCounter
    BY <1>0, <1>6 DEF Takes, ChunkIds, chunkCounter, TypeOK
  <2>2. wpc'[t] \in Speaking /\ job'[t].chunk = chunkCounter
    BY <1>0, <1>6 DEF Takes, Speaking, TypeOK
  <2>3. CASE c = chunkCounter
    <3>1. Spoken(c)' /\ tally'[c + 1] = 0
      BY <1>0, <2>1, <2>2, <2>3 DEF Spoken, chunkCounter, TypeOK
    <3>2. c \in InFlight'
      BY <1>4, <3>1
    <3>3. QED
      BY <3>1, <3>2
  <2>4. CASE c # chunkCounter
    <3>1. c \in ChunkIds /\ tally'[c + 1] = tally[c + 1]
      BY <1>0, <2>1, <2>4 DEF ChunkIds, chunkCounter, TypeOK
    <3>2. Spoken(c)' <=> Spoken(c)
      BY <1>0, <1>6, <2>2, <2>4 DEF Takes, Spoken, Speaking, TypeOK
    <3>3. c \in InFlight' <=> c \in InFlight
      BY <1>4, <3>2
    <3>4. QED
      BY <1>0, <1>2, <3>1, <3>3 DEF NoFault, ChunkIds, chunkCounter
  <2>5. QED
    BY <2>3, <2>4
<1>7. ASSUME Leaves(t)
      PROVE  ~Spoken(c)' /\ job[t].chunk \in ChunkIds /\ job[t].chunk \in InFlight
             /\ (Spoken(c) <=> c = job[t].chunk)
  BY <1>0, <1>1, <1>7, InFlightIs DEF Leaves, Spoken, LocalInv, TypeOK
<1>8. CASE Counts(t)
  <2>1. job[t].chunk \in ChunkIds /\ ChunkFinished(job[t].chunk) /\ Leaves(t)
    BY <1>7, <1>8 DEF Counts
  <2>2. /\ c \in ChunkIds
        /\ tally'[c + 1] = IF c = job[t].chunk THEN tally[c + 1] + 1 ELSE tally[c + 1]
    BY <1>0, <2>1, ChunkFinishedEffect DEF ChunkIds, chunkCounter
  <2>3. mpc \notin Awaiting
    BY <1>1, <1>8 DEF Counts, Leaves, Awaiting, Confirming, Speaking
  <2>4. c \notin InFlight' /\ (c \in InFlight <=> c = job[t].chunk)
    BY <1>4, <1>7, <2>1, <2>3
  <2>5. QED
    BY <1>0, <1>2, <2>2, <2>4 DEF NoFault, ChunkIds, chunkCounter
<1>9. CASE Cuts(t)
  <2>1. c \in ChunkIds /\ tally' = tally /\ Leaves(t)
    BY <1>9 DEF Cuts, ChunkIds, chunkCounter
  <2>2. CASE mpc = "intJoin"
    <3>1. aborted = job[t].chunk
      BY <2>1, <2>2 DEF CountInv, CurrentInv, Leaves
    <3>2. c \in InFlight' <=> c \in InFlight
      BY <1>4, <1>7, <2>1, <2>2, <3>1 DEF Awaiting
    <3>3. QED
      BY <1>0, <1>2, <2>1, <3>2 DEF NoFault, ChunkIds, chunkCounter
  <2>3. CASE mpc # "intJoin"
    <3>1. mpc \notin Awaiting
      BY <1>1, <2>1, <2>3 DEF Leaves, Awaiting, Confirming, Speaking
    <3>2. ~NoFault'
      <4>1. CASE wcancel[t]
        BY <1>0, <2>3, <4>1 DEF CountInv, FaultInv, NoFault
      <4>2. CASE "synthesis_error" \in errors'
        BY <4>2 DEF NoFault, ChunkIds, chunkCounter
      <4>3. QED
        BY <1>9, <4>1, <4>2 DEF Cuts
    <3>3. c \notin InFlight'
      BY <1>4, <1>7, <2>1, <3>1
    <3>4. QED
      BY <1>2, <2>1, <3>2, <3>3 DEF NoFault, ChunkIds, chunkCounter
  <2>4. QED
    BY <2>2, <2>3
<1>10. QED
  BY <1>5, <1>6, <1>8, <1>9, WorkerEffect DEF CountInv

(* The barge-in counts the chunk it remembers, once it has told the client *)
(* that the chunk is aborted (session.py, _handle_interrupt).              *)
LEMMA MainCounts ==
  ASSUME CountInv, [Next]_vars, ~\E t \in Tasks : Work(t)
  PROVE  ChunkCountedOnce'
<1>0. TypeOK /\ TypeOK' /\ LocalInv /\ (NoFault' => NoFault)
  BY TypeStep, FaultsStay DEF CountInv, TypeInv, NoFault
<1>1. \A c \in ChunkIds :
        /\ tally[c + 1] \in {0, 1}
        /\ c \in InFlight => tally[c + 1] = 0
        /\ c \notin InFlight => ~NoFault \/ tally[c + 1] = 1
  BY <1>0, CountedIs DEF CountInv
<1>2. SUFFICES ASSUME NEW c \in ChunkIds'
               PROVE  /\ tally'[c + 1] \in {0, 1}
                      /\ c \in InFlight' => tally'[c + 1] = 0
                      /\ c \notin InFlight' => ~NoFault' \/ tally'[c + 1] = 1
  BY <1>0, CountedIs
<1>3. /\ c \in InFlight <=> Spoken(c) \/ (mpc \in Awaiting /\ aborted = c)
      /\ c \in InFlight' <=> Spoken(c)' \/ (mpc' \in Awaiting /\ aborted' = c)
  BY InFlightIs
<1>4. CASE CountAborted
  <2>1. /\ mpc = "abortSent" /\ mpc' = "intDone" /\ aborted \in ChunkIds
        /\ ChunkFinished(aborted) /\ UNCHANGED <<wpc, job>>
    BY <1>0, <1>4 DEF CountAborted, MainStep, LocalInv, worker
  <2>2. /\ c \in ChunkIds
        /\ tally'[c + 1] = IF c = aborted THEN tally[c + 1] + 1 ELSE tally[c + 1]
    BY <1>0, <2>1, ChunkFinishedEffect DEF ChunkIds, chunkCounter
  <2>3. \A t \in Tasks : wpc[t] \notin Speaking
    BY <2>1 DEF CountInv, TaskInv, Live, QuietInv, Confirming, Speaking
  <2>4. ~Spoken(c) /\ ~Spoken(c)'
    BY <2>1, <2>3 DEF Spoken
  <2>5. c \notin InFlight' /\ (c \in InFlight <=> c = aborted)
    BY <1>3, <2>1, <2>4 DEF Awaiting
  <2>6. QED
    BY <1>0, <1>1, <2>2, <2>5 DEF NoFault, ChunkIds, chunkCounter
<1>5. CASE ChunksKept
  <2>1. c \in ChunkIds /\ tally' = tally /\ (Spoken(c)' <=> Spoken(c)) /\ c # None
    <3>1. tally' = tally /\ c \in ChunkIds
      BY <1>5 DEF ChunksKept, ChunkIds, chunkCounter
    <3>2. Spoken(c)' <=> Spoken(c)
      BY <1>5 DEF ChunksKept, Spoken
    <3>3. c # None
      <4>1. Len(tally) \in Nat
        BY <1>0 DEF TypeOK
      <4>2. QED
        BY <3>1, <4>1 DEF ChunkIds, chunkCounter
    <3>4. QED
      BY <3>1, <3>2, <3>3
  <2>2. current = c => Spoken(c)
    BY <2>1 DEF CountInv, CurrentInv, Spoken
  <2>3. c \in InFlight' => c \in InFlight
    BY <1>3, <2>1, <2>2, MainEffect DEF CountInv, Awaiting
  <2>4. CASE mpc \in Awaiting /\ mpc' \notin Awaiting /\ aborted = c
    <3>1. CountAborted \/ "session_timeout" \in errors'
      BY <2>1, <2>4, MainEffect DEF CountInv
    <3>2. QED
      <4>1. CASE ~NoFault'
        BY <1>1, <2>1, <2>3, <4>1 DEF NoFault, ChunkIds, chunkCounter
      <4>2. CASE CountAborted
        BY <1>4, <4>2
      <4>3. QED
        BY <3>1, <4>1, <4>2 DEF NoFault, ChunkIds, chunkCounter
  <2>5. CASE c \in InFlight => c \in InFlight'
    BY <1>0, <1>1, <2>1, <2>3, <2>5 DEF NoFault, ChunkIds, chunkCounter
  <2>6. CASE mpc \in Awaiting /\ mpc' \in Awaiting
    <3>1. aborted' = aborted
      BY <2>6, MainEffect DEF CountInv, Awaiting
    <3>2. QED
      BY <1>3, <2>1, <2>5, <2>6, <3>1
  <2>7. QED
    BY <1>3, <2>1, <2>4, <2>5, <2>6
<1>6. QED
  BY <1>4, <1>5, MainEffect DEF CountInv

(* All of it is inductive together.                                        *)
LEMMA CountStep == CountInv /\ [Next]_vars => CountInv'
<1>1. CountInv /\ [Next]_vars => (TypeInv /\ TaskInv /\ QuietInv /\ CurrentInv)'
  BY TypeStep, TaskStep, QuietStep, CurrentStep DEF CountInv
<1>2. CountInv /\ [Next]_vars => FaultInv' /\ ChunkCountedOnce'
  BY FaultStep, WorkerCounts, MainCounts DEF CountInv
<1>3. QED
  BY <1>1, <1>2 DEF CountInv

(* It holds in every reachable state.                                      *)
LEMMA CountCorrect == Spec => []CountInv
<1>1. Init => CountInv
  BY TypeInit, TaskInit, QuietInit, CurrentInit, FaultInit, CountInit DEF CountInv
<1>2. QED
  BY <1>1, CountStep, PTL DEF Spec

(* chunk_finished() is called once for every chunk, by the worker or by    *)
(* the barge-in that cut it, never by both (session.py,                    *)
(* _synthesize_segment and _handle_interrupt).                             *)
THEOREM ChunkCountedOnceCorrect == Spec => []ChunkCountedOnce
<1>1. CountInv => ChunkCountedOnce
  BY DEF CountInv
<1>2. QED
  BY <1>1, CountCorrect, PTL

-----------------------------------------------------------------------------
(* What the steps write                                                    *)

(* While the socket stays open, a send of the main task is delivered ...   *)
LEMMA MainDelivers ==
  ASSUME ws = "open", ws' = "open", NEW from, NEW m, NEW returned, NEW raised,
         MainSend(from, m, returned, raised)
  PROVE  /\ mpc = from /\ mpc' = returned /\ Deliver(m)
         /\ UNCHANGED <<timer, cur, aborted, msgs, wpc, wcancel, job, queue, buf, epoch,
                        owed, current, tally, errors>>
BY DEF MainSend, MainStep, Write, SendRaises, worker, text, chunks

(* ... and so is one of the worker.                                        *)
LEMMA WorkerDelivers ==
  ASSUME ws = "open", ws' = "open", NEW t, NEW from, NEW m, NEW to,
         ChunkSend(t, from, m, to) \/ WorkerSend(t, from, m, to)
  PROVE  /\ wpc[t] = from /\ wpc' = [wpc EXCEPT ![t] = to] /\ Deliver(m)
         /\ UNCHANGED <<mpc, timer, cur, aborted, msgs, wcancel, job, queue, buf, epoch,
                        owed, current, tally, errors>>
BY DEF ChunkSend, WorkerSend, WorkerStep, Write, SendRaises, main, chunks

ChunkInv == TypeInv /\ TaskInv /\ QuietInv /\ CurrentInv

Silent == UNCHANGED <<out, open, heard>>

-----------------------------------------------------------------------------
(* The client's view                                                       *)

(* Nothing was written in a new session.                                   *)
LEMMA ViewInit == Init => ViewInv
BY DEF Init, ViewInv, Before, Notice, Message, chunkCounter

(* A restart leaves what the client hears as it is: the cut chunk is open  *)
(* until chunk_aborted, or interrupted, closes it.                         *)
LEMMA RestartView ==
  ASSUME ChunkInv, ViewInv, ws = "open", ws' = "open",
         ReceiveInterrupt \/ WorkerJoined
  PROVE  ViewInv'
<1>0. TypeOK /\ LocalInv
  BY DEF ChunkInv, TypeInv
<1>1. cur \in Tasks /\ cur + 1 \in Tasks /\ wpc[cur + 1] = "none" /\ mpc \notin Before
  BY <1>0 DEF ReceiveInterrupt, WorkerJoined, LocalInv, Before, Tasks, ChunkInv, TaskInv,
              TypeOK
<1>2. Silent /\ UNCHANGED <<job, current, tally>>
  BY DEF ReceiveInterrupt, WorkerJoined, Silent, chunks, client
<1>3. CASE wpc[cur] = "dead" /\ (Restart(current) \/ Restart(aborted))
  <2>1. /\ cur' = cur + 1 /\ wpc' = [wpc EXCEPT ![cur + 1] = "new"] /\ queue' = <<>>
        /\ wpc'[cur'] = "new"
    BY <1>0, <1>1, <1>3 DEF Restart, Discard, TypeOK
  <2>2. \A t \in Tasks : wpc'[t] \notin Speaking
    BY <1>0, <1>3, <2>1 DEF ChunkInv, TaskInv, Live, Speaking, TypeOK
  <2>3. mpc' = "intDone" => aborted' = None
    BY <1>3, <2>2 DEF ReceiveInterrupt, WorkerJoined, Restart
  <2>4. mpc' \in {"intAborted", "intDone"}
    BY <1>3 DEF Restart
  <2>5. mpc' = "intAborted" => mpc = "intJoin" /\ aborted' = aborted
    BY <1>0, <1>3, <2>4
       DEF ReceiveInterrupt, WorkerJoined, Restart, ChunkInv, CurrentInv, TaskInv, Live,
           Speaking
  <2>6. QED
    BY <1>1, <1>2, <2>1, <2>2, <2>3, <2>4, <2>5
       DEF ReceiveInterrupt, WorkerJoined, ViewInv, Silent, Speaking, Before, Leaving,
           chunkCounter
<1>4. CASE mpc = "recv" /\ mpc' = "intJoin" /\ UNCHANGED <<text, cur, wpc>>
           /\ aborted' = current
  <2>1. current # None /\ open # None => open = current
    BY <1>1, <1>4 DEF ViewInv, ChunkInv, CurrentInv, TaskInv, Live, Speaking, Leaving
  <2>2. QED
    BY <1>1, <1>2, <1>4, <2>1
       DEF ViewInv, Silent, text, Before, Leaving, chunkCounter
<1>5. QED
  BY <1>3, <1>4 DEF ReceiveInterrupt, WorkerJoined

(* The other steps of the main task that write nothing.                    *)
LEMMA MainSilentView ==
  ASSUME ChunkInv, ViewInv, ws = "open", ws' = "open",
         \/ Authenticate \/ ReceiveToken \/ ReceiveFlush \/ ReceiveEnd
         \/ ReceiveBinary \/ ReceiveMalformed
         \/ PutEnd \/ AbortPut \/ PutAborted \/ CountAborted \/ CancelOnTimeout \/ Join
         \/ Timeout \/ Terminated \/ UNCHANGED vars
  PROVE  ViewInv' /\ Silent
<1>0. TypeOK /\ LocalInv
  BY DEF ChunkInv, TypeInv
<1>1. Silent /\ UNCHANGED <<cur, wpc, job, aborted>>
  BY DEF Authenticate, ReceiveToken, ReceiveFlush, ReceiveEnd, ReceiveBinary,
         ReceiveMalformed, PutEnd, AbortPut, PutAborted, CountAborted, CancelOnTimeout,
         Join, Timeout, Terminated, vars, PutAll, MainStep, main, worker, chunks, client,
         Silent
<1>2. chunkCounter' = chunkCounter
  <2>1. CASE CountAborted
    BY <1>0, <2>1, CountLength DEF CountAborted, MainStep, LocalInv
  <2>2. CASE ~CountAborted
    BY <2>2
     DEF Authenticate, ReceiveToken, ReceiveFlush, ReceiveEnd, ReceiveBinary,
         ReceiveMalformed, PutEnd, AbortPut, PutAborted, CancelOnTimeout,
         Join, Timeout, Terminated, vars, PutAll, chunks, chunkCounter
  <2>3. QED
    BY <2>1, <2>2
<1>3. /\ mpc' \in Before => mpc \in Before
      /\ mpc' \in {"intJoin", "intAborted", "abortSent"} => mpc' = mpc
      /\ mpc' = "intDone" => mpc \in {"abortSent", "intDone"}
      /\ mpc \in Leaving => mpc' \in Leaving
      /\ mpc \in {"intJoin", "intAborted", "abortSent", "intDone"} =>
           mpc' \in {mpc} \cup Leaving \/ (mpc = "abortSent" /\ mpc' = "intDone")
  BY DEF Authenticate, ReceiveToken, ReceiveFlush, ReceiveEnd, ReceiveBinary,
         ReceiveMalformed, PutEnd, AbortPut, PutAborted, CountAborted, CancelOnTimeout,
         Join, Timeout, Terminated, vars, PutAll, MainStep, main, ReceiveCounted, LoopTop,
         Before, Leaving
<1>4. mpc \in {"intAborted", "intDone"} \cup Leaving => queue' = queue
  BY DEF Authenticate, ReceiveToken, ReceiveFlush, ReceiveEnd, ReceiveBinary,
         ReceiveMalformed, PutEnd, AbortPut, PutAborted, CountAborted, CancelOnTimeout,
         Join, Timeout, Terminated, vars, MainStep, text, ReceiveCounted, Leaving
<1>5. QED
  BY <1>1, <1>2, <1>3, <1>4 DEF ViewInv, Silent, ChunkInv, QuietInv, Confirming

(* The client is let in.                                                   *)
LEMMA AuthOkView ==
  ASSUME ChunkInv, ViewInv, ws = "open", ws' = "open", AuthOk
  PROVE  ViewInv' /\ Stream!Notice
<1>0. TypeOK /\ LocalInv
  BY DEF ChunkInv, TypeInv
<1>1. /\ mpc = "authOk" /\ mpc' = "recv" /\ cur' = 1 /\ wpc' = [wpc EXCEPT ![1] = "new"]
      /\ out' = Notice("auth_ok") /\ UNCHANGED <<open, heard, job, queue, tally, aborted>>
  BY DEF AuthOk, Write, SendRaises, Deliver, Notice, Error, Message, text, chunks
<1>2. cur = 0 /\ 1 \in Tasks /\ open = None
  BY <1>0, <1>1 DEF LocalInv, Before, ViewInv, Tasks
<1>3. \A t \in Tasks : wpc'[t] \notin Speaking
  BY <1>0, <1>1, <1>2 DEF ChunkInv, TaskInv, Live, Speaking, TypeOK, Tasks
<1>4. QED
  BY <1>1, <1>2, <1>3 DEF ViewInv, Notice, Message, Before, Leaving, Speaking,
                          chunkCounter, Stream!Notice

(* The main task reports an error, confirms an abort or an interrupt.      *)
LEMMA MainSendView ==
  ASSUME ChunkInv, ViewInv, ws = "open", ws' = "open",
         \/ Reject \/ SendParseError \/ SendQueueFull \/ SendAborted
         \/ SendInterrupted \/ SendTimeout
  PROVE  ViewInv' /\ Stream!Next
<1>0. TypeOK /\ LocalInv
  BY DEF ChunkInv, TypeInv
<1> USE DEF Stream!Next, Error, Notice, Message, Deliver
<1>1. CASE Reject
  <2>1. /\ mpc = "reject" /\ mpc' = "ended"
        /\ out'.id = None /\ out'.type \in {"auth_error", "error"}
        /\ UNCHANGED <<open, heard, cur, wpc, job, queue, tally, aborted>>
    BY <1>1, MainDelivers DEF Reject
  <2>2. QED
    BY <2>1 DEF ViewInv, Before, Leaving, chunkCounter, Stream!Notice, Stream!Failed
<1>2. CASE SendParseError \/ SendQueueFull \/ SendTimeout
  <2>1. /\ mpc \in {"parseErr", "full", "timeoutErr"}
        /\ mpc' \in {"recv", "putEnd", "fullSent", "timeoutSent"}
        /\ mpc \in Leaving => mpc' \in Leaving
        /\ out'.id = None /\ out'.type = "error"
        /\ UNCHANGED <<open, heard, cur, wpc, job, queue, tally, aborted>>
    BY <1>2, MainDelivers
       DEF SendParseError, SendQueueFull, SendTimeout, LoopTop, Leaving
  <2>2. QED
    BY <2>1 DEF ViewInv, Before, Leaving, chunkCounter, Stream!Failed
<1>3. CASE SendAborted
  <2>1. /\ mpc = "intAborted" /\ mpc' = "abortSent" /\ open' = None
        /\ out'.id = aborted /\ out'.type = "chunk_aborted"
        /\ heard' = IF aborted >= heard THEN aborted + 1 ELSE heard
        /\ UNCHANGED <<cur, wpc, job, queue, tally, aborted>>
    BY <1>3, MainDelivers DEF SendAborted
  <2>2. /\ aborted \in Nat /\ aborted # None /\ aborted + 1 = chunkCounter
        /\ heard \in Nat /\ heard <= aborted + 1
        /\ open # None => open = aborted /\ heard = aborted + 1
    <3>1. aborted \in Nat /\ aborted # None
      BY <1>0, <2>1 DEF LocalInv, ChunkIds, chunkCounter, TypeOK
    <3>2. aborted + 1 = chunkCounter
      BY <1>0, <2>1, <3>1 DEF ChunkInv, CurrentInv, chunkCounter, TypeOK
    <3>3. heard \in Nat /\ heard <= chunkCounter
      BY <1>0 DEF ViewInv, TypeOK
    <3>4. open # None => open = aborted /\ heard = open + 1
      BY <2>1, <3>1 DEF ViewInv
    <3>5. QED
      BY <3>1, <3>2, <3>3, <3>4
  <2>3. heard' = aborted + 1
    BY <2>1, <2>2
  <2>4. Stream!Abort
    BY <2>1, <2>2, <2>3 DEF Stream!Abort
  <2>5. wpc[cur] \in {"new", "get"} /\ \A t \in Tasks : wpc'[t] \notin Speaking
    BY <2>1 DEF ChunkInv, QuietInv, Confirming, TaskInv, Live, Speaking
  <2>6. ViewInv'
    BY <2>1, <2>2, <2>3, <2>5 DEF ViewInv, Before, Leaving, Speaking, chunkCounter
  <2>7. QED
    BY <2>4, <2>6
<1>4. CASE SendInterrupted
  <2>1. /\ mpc = "intDone" /\ mpc' = "recv" /\ open' = None
        /\ out'.id = (IF aborted = None THEN 0 ELSE aborted) /\ out'.type = "interrupted"
        /\ UNCHANGED <<heard, cur, wpc, job, queue, tally, aborted>>
    BY <1>4, MainDelivers DEF SendInterrupted, LoopTop
  <2>2. /\ aborted # None => out.type = "chunk_aborted" /\ out.id = aborted
        /\ aborted = None => out.type # "chunk_aborted"
    BY <2>1 DEF ViewInv, Leaving
  <2>3. Stream!Interrupted
    BY <2>1, <2>2 DEF Stream!Interrupted
  <2>4. wpc[cur] \in {"new", "get"} /\ \A t \in Tasks : wpc'[t] \notin Speaking
    BY <2>1 DEF ChunkInv, QuietInv, Confirming, TaskInv, Live, Speaking
  <2>5. ViewInv'
    BY <2>1, <2>4 DEF ViewInv, Before, Leaving, Speaking, chunkCounter
  <2>6. QED
    BY <2>3, <2>5
<1>5. QED
  BY <1>1, <1>2, <1>3, <1>4

(* A worker's message is one the stream allows, and keeps the view.        *)
LEMMA WorkerSendView ==
  ASSUME ChunkInv, ViewInv, ws = "open", ws' = "open", NEW t \in Tasks,
         Work(t), t = cur,
         \/ StartChunk(t) \/ SendFrame(t) \/ EndChunk(t)
         \/ ReportFailure(t) \/ SendDone(t)
  PROVE  ViewInv' /\ Stream!Next
<1>0. TypeOK /\ LocalInv
  BY DEF ChunkInv, TypeInv
<1> USE DEF Stream!Next
<1>1. /\ UNCHANGED <<mpc, aborted, cur, job, queue, tally>>
      /\ \A u \in Tasks : u # t => wpc[u] \notin Speaking /\ wpc'[u] = wpc[u]
      /\ wpc[t] \notin {"new", "get"} => mpc \notin Confirming
      /\ mpc = "intJoin" => wpc[t] \in {"done", "dead"} \/ wcancel[t]
  BY <1>0 DEF StartChunk, SendFrame, EndChunk, ReportFailure, SendDone, ChunkSend,
         WorkerSend, SegmentFails, WorkerStep, main, chunks, ChunkInv, TaskInv, Live,
         Speaking, QuietInv, CurrentInv, TypeOK
<1>2. CASE StartChunk(t)
  <2>0. /\ wpc[t] = "start" /\ ~wcancel[t] /\ wpc' = [wpc EXCEPT ![t] = "synth"]
        /\ Deliver(Message("audio_start", job[t].chunk, job[t].seg))
    BY <1>2, WorkerDelivers DEF StartChunk, ChunkSend, WorkerSend, WorkerStep, SegmentFails
  <2>1. /\ wpc[t] = "start" /\ wpc'[t] = "synth" /\ ~wcancel[t]
        /\ out'.id = job[t].chunk /\ out'.type = "audio_start"
        /\ open' = job[t].chunk
        /\ heard' = IF job[t].chunk >= heard THEN job[t].chunk + 1 ELSE heard
    BY <1>0, <2>0 DEF Deliver, Message, Error, Notice, TypeOK
  <2>2. /\ job[t].chunk \in Nat /\ job[t].chunk + 1 = chunkCounter
        /\ heard \in Nat /\ heard <= job[t].chunk /\ open = None
    BY <1>0, <2>1
       DEF LocalInv, Speaking, ChunkIds, chunkCounter, ChunkInv, CurrentInv, ViewInv, TypeOK
  <2>3. Stream!Start
    BY <2>1, <2>2 DEF Stream!Start
  <2>4. ViewInv'
    BY <1>0, <1>1, <2>1, <2>2 DEF ViewInv, Before, Leaving, Confirming, Speaking,
                                  chunkCounter, LocalInv, Tasks
  <2>5. QED
    BY <2>3, <2>4
<1>3. CASE SendFrame(t)
  <2>0. /\ wpc[t] = "synth" /\ ~wcancel[t] /\ wpc' = [wpc EXCEPT ![t] = "synth"]
        /\ Deliver(Message("frame", job[t].chunk, job[t].seg))
    BY <1>3, WorkerDelivers DEF SendFrame, ChunkSend, WorkerSend, WorkerStep, SegmentFails
  <2>1. /\ wpc[t] = "synth" /\ wpc'[t] = "synth" /\ ~wcancel[t]
        /\ out'.id = job[t].chunk /\ out'.type = "frame" /\ UNCHANGED <<open, heard>>
    BY <1>0, <2>0 DEF Deliver, Message, Error, Notice, TypeOK
  <2>2. open = job[t].chunk /\ open # None
    BY <1>0, <2>1 DEF ViewInv, LocalInv, Speaking, ChunkIds, chunkCounter, TypeOK
  <2>3. Stream!Frame
    BY <2>1, <2>2 DEF Stream!Frame
  <2>4. ViewInv'
    BY <1>1, <2>1, <2>2 DEF ViewInv, Before, Leaving, Confirming, Speaking, chunkCounter
  <2>5. QED
    BY <2>3, <2>4
<1>4. CASE EndChunk(t)
  <2>0. /\ wpc[t] = "end" /\ ~wcancel[t] /\ wpc' = [wpc EXCEPT ![t] = "endSent"]
        /\ Deliver(Message("audio_end", job[t].chunk, None))
    BY <1>4, WorkerDelivers DEF EndChunk, ChunkSend, WorkerSend, WorkerStep, SegmentFails
  <2>1. /\ wpc[t] = "end" /\ wpc'[t] = "endSent" /\ ~wcancel[t]
        /\ out'.id = job[t].chunk /\ out'.type = "audio_end"
        /\ open' = None /\ UNCHANGED heard
    BY <1>0, <2>0 DEF Deliver, Message, Error, Notice, TypeOK
  <2>2. open = job[t].chunk /\ open # None
    BY <1>0, <2>1 DEF ViewInv, LocalInv, Speaking, ChunkIds, chunkCounter, TypeOK
  <2>3. Stream!End
    BY <2>1, <2>2 DEF Stream!End
  <2>4. ViewInv'
    BY <1>1, <2>1, <2>2 DEF ViewInv, Before, Leaving, Confirming, Speaking, chunkCounter
  <2>5. QED
    BY <2>3, <2>4
<1>5. CASE ReportFailure(t)
  <2>0. /\ wpc[t] = "err" /\ ~wcancel[t] /\ wpc' = [wpc EXCEPT ![t] = "errSent"]
        /\ Deliver(Error("synthesis_error"))
    BY <1>5, WorkerDelivers DEF ReportFailure, ChunkSend, WorkerSend, WorkerStep, SegmentFails
  <2>1. /\ wpc[t] = "err" /\ wpc'[t] = "errSent"
        /\ out'.id = None /\ out'.type = "error" /\ open' = None /\ UNCHANGED heard
    BY <1>0, <2>0 DEF Deliver, Message, Error, Notice, TypeOK
  <2>2. QED
    BY <1>1, <2>1 DEF ViewInv, Before, Leaving, Confirming, Speaking, chunkCounter,
                      Stream!Failed
<1>6. CASE SendDone(t)
  <2>0. /\ wpc[t] = "done" /\ ~wcancel[t] /\ wpc' = [wpc EXCEPT ![t] = "dead"]
        /\ Deliver(Notice("done"))
    BY <1>6, WorkerDelivers DEF SendDone, ChunkSend, WorkerSend, WorkerStep, SegmentFails
  <2>1. /\ wpc[t] = "done" /\ wpc'[t] = "dead"
        /\ out'.id = None /\ out'.type = "done" /\ UNCHANGED <<open, heard>>
    BY <1>0, <2>0 DEF Deliver, Message, Error, Notice, TypeOK
  <2>2. QED
    BY <1>1, <2>1 DEF ViewInv, Before, Leaving, Confirming, Speaking, chunkCounter,
                      Stream!Notice
<1>7. QED
  BY <1>2, <1>3, <1>4, <1>5, <1>6

(* So does a worker that writes nothing.                                   *)
LEMMA WorkerSilentView ==
  ASSUME ChunkInv, ViewInv, ws = "open", ws' = "open", NEW t \in Tasks,
         Work(t), t = cur,
         \/ Begin(t) \/ TakeSegment(t) \/ TakeSentinel(t) \/ FrameLost(t)
         \/ EngineFails(t) \/ EngineDone(t) \/ CountChunk(t) \/ GiveUp(t)
         \/ Cancelled(t)
  PROVE  ViewInv' /\ Silent
<1>0. TypeOK /\ LocalInv
  BY DEF ChunkInv, TypeInv
<1>1. /\ UNCHANGED <<mpc, aborted, cur>> /\ Silent
      /\ \A u \in Tasks : u # t => wpc[u] \notin Speaking /\ wpc'[u] = wpc[u]
      /\ mpc \notin Before
  <2>1. UNCHANGED <<mpc, aborted, cur, out, open, heard>>
    BY DEF Begin, TakeSegment, TakeSentinel, FrameLost, EngineFails, EngineDone,
           CountChunk, GiveUp, Cancelled, SegmentFails, WorkerStep, main, client
  <2>2. \A u \in Tasks : u # t => wpc'[u] = wpc[u]
    BY <1>0 DEF Begin, TakeSegment, TakeSentinel, FrameLost, EngineFails, EngineDone,
                CountChunk, GiveUp, Cancelled, SegmentFails, WorkerStep, TypeOK
  <2>3. QED
    BY <1>0, <2>1, <2>2
       DEF Silent, ChunkInv, TaskInv, Live, Speaking, LocalInv, Before, Tasks
<1>2. CASE TakeSegment(t)
  <2>1. /\ wpc[t] = "get" /\ wpc'[t] = "start" /\ queue # <<>>
        /\ chunkCounter' = chunkCounter + 1
    BY <1>0, <1>2 DEF TakeSegment, WorkerStep, chunkCounter, TypeOK
  <2>2. open = None /\ heard <= chunkCounter /\ heard \in Nat /\ chunkCounter \in Nat
    BY <1>0, <2>1 DEF ViewInv, chunkCounter, TypeOK
  <2>3. QED
    BY <1>1, <2>1, <2>2 DEF ViewInv, Silent, Before, Leaving, Speaking
<1>3. ASSUME Begin(t) \/ TakeSentinel(t) \/ EngineFails(t) \/ EngineDone(t) \/ CountChunk(t)
             \/ GiveUp(t) \/ Cancelled(t)
      PROVE  ViewInv'
  <2>1. chunkCounter' = chunkCounter /\ job' = job
    <3>1. CASE CountChunk(t)
      BY <1>0, <3>1, CountLength DEF CountChunk, WorkerStep, LocalInv, Speaking
    <3>2. CASE ~CountChunk(t)
      BY <1>3, <3>2 DEF Begin, TakeSentinel, EngineFails, EngineDone, GiveUp, Cancelled,
                        SegmentFails, chunks, chunkCounter
    <3>3. QED
      BY <3>1, <3>2
  <2>2. \/ wpc[t] = "new" /\ wpc'[t] = "get" /\ queue' = queue
        \/ wpc[t] = "get" /\ wpc'[t] = "done" /\ queue # <<>>
        \/ wpc[t] = "synth" /\ wpc'[t] \in {"err", "end"}
        \/ wpc[t] = "endSent" /\ wpc'[t] = "get"
        \/ wpc[t] = "errSent" /\ wpc'[t] = "done"
        \/ wpc'[t] \in {"done", "dead"}
    BY <1>0, <1>3 DEF Begin, TakeSentinel, EngineFails, EngineDone, CountChunk, GiveUp,
                      Cancelled, SegmentFails, WorkerStep, TypeOK
  <2>3. QED
    BY <1>1, <2>1, <2>2 DEF ViewInv, Silent, Leaving, Speaking
<1>4. CASE FrameLost(t)
  BY <1>4 DEF FrameLost
<1>5. QED
  BY <1>1, <1>2, <1>3, <1>4

(* Nothing is written on a socket that is not open, or closes.             *)
LEMMA ClosedIsSilent ==
  ASSUME [Next]_vars, ~(ws = "open" /\ ws' = "open")
  PROVE  Silent
<1> USE DEF Silent, client
<1>1. CASE Reject \/ SendParseError \/ SendQueueFull \/ SendAborted \/ SendInterrupted
           \/ SendTimeout
  BY <1>1 DEF Reject, SendParseError, SendQueueFull, SendAborted, SendInterrupted,
              SendTimeout, MainSend, Write, SendRaises
<1>2. CASE AuthOk
  BY <1>2 DEF AuthOk, Write, SendRaises
<1>3. CASE Authenticate \/ ReceiveToken \/ ReceiveFlush \/ ReceiveEnd \/ ReceiveDisconnect
           \/ ReceiveBinary \/ ReceiveMalformed \/ ReceiveInterrupt
  BY <1>3 DEF Authenticate, ReceiveToken, ReceiveFlush, ReceiveEnd, ReceiveDisconnect,
              ReceiveBinary, ReceiveMalformed, ReceiveInterrupt, PutAll
<1>4. CASE PutEnd \/ AbortPut \/ PutAborted \/ WorkerJoined \/ CountAborted
           \/ CancelOnTimeout \/ Join \/ Timeout \/ PeerCloses \/ Terminated
           \/ UNCHANGED vars
  BY <1>4 DEF PutEnd, AbortPut, PutAborted, WorkerJoined, CountAborted, CancelOnTimeout,
              Join, Timeout, PeerCloses, Terminated, vars
<1>5. ASSUME NEW t \in Tasks, Work(t) PROVE Silent
  BY <1>5 DEF Work, Begin, TakeSegment, TakeSentinel, StartChunk, SendFrame, FrameLost,
       EngineFails, EngineDone, EndChunk, CountChunk, ReportFailure, GiveUp, SendDone,
       Cancelled, ChunkSend, WorkerSend, SegmentFails, Write, SendRaises
<1>6. QED
  BY <1>1, <1>2, <1>3, <1>4, <1>5 DEF Next, Receive, Proceed

(* The session's steps keep the view and are steps of the stream.          *)
LEMMA ViewStep ==
  ASSUME ChunkInv, ViewInv, [Next]_vars
  PROVE  ViewInv' /\ [Stream!Next]_(Stream!vars)
<1>1. CASE ~(ws = "open" /\ ws' = "open")
  <2>1. ws' # "open"
    BY <1>1, FaultsStay DEF ChunkInv
  <2>2. Silent
    BY <1>1, ClosedIsSilent
  <2>3. QED
    BY <2>1, <2>2 DEF ViewInv, Silent, Stream!vars
<1>2. CASE ws = "open" /\ ws' = "open"
  <2> SUFFICES ViewInv' /\ (Silent \/ Stream!Next)
    BY DEF Silent, Stream!vars
  <2>1. ASSUME NEW t \in Tasks, Work(t) PROVE ViewInv' /\ (Silent \/ Stream!Next)
    <3>1. t = cur
      BY <2>1, WorkerWho DEF ChunkInv
    <3>2. QED
      BY <1>2, <2>1, <3>1, WorkerSendView, WorkerSilentView DEF Work
  <2>2. CASE ReceiveInterrupt \/ WorkerJoined
    <3>1. Silent
      BY <2>2 DEF ReceiveInterrupt, WorkerJoined, Silent, client
    <3>2. QED
      BY <1>2, <2>2, <3>1, RestartView
  <2>3. CASE ReceiveDisconnect \/ PeerCloses
    BY <1>2, <2>3 DEF ReceiveDisconnect, PeerCloses
  <2>4. CASE AuthOk
    BY <1>2, <2>4, AuthOkView DEF Stream!Next
  <2>5. QED
    BY <1>2, <2>1, <2>2, <2>3, <2>4, MainSendView, MainSilentView
       DEF Next, Receive, Proceed
<1>3. QED
  BY <1>1, <1>2

(* The two together are inductive.                                         *)
LEMMA ChunkStep == ChunkInv /\ [Next]_vars => ChunkInv'
BY TypeStep, TaskStep, QuietStep, CurrentStep DEF ChunkInv

(* A session implements the chunk stream: every message on the wire        *)
(* follows its protocol (session.py, _synthesize_segment, _tts_worker and  *)
(* _handle_interrupt).                                                     *)
THEOREM StreamProtocolCorrect == Spec => StreamProtocol
<1>1. Init => ChunkInv /\ ViewInv
  BY TypeInit, TaskInit, QuietInit, CurrentInit, ViewInit DEF ChunkInv
<1>2. Init => Stream!Init
  BY DEF Init, Stream!Init, Notice, Message
<1>3. ChunkInv /\ ViewInv /\ [Next]_vars => (ChunkInv /\ ViewInv)'
  BY ChunkStep, ViewStep
<1>4. ChunkInv /\ ViewInv /\ [Next]_vars => [Stream!Next]_(Stream!vars)
  BY ViewStep
<1>5. QED
  BY <1>1, <1>2, <1>3, <1>4, PTL DEF Spec, StreamProtocol, Stream!Spec

-----------------------------------------------------------------------------
(* What is owed to the client                                              *)

FullInv == ChunkInv /\ ViewInv /\ FaultInv /\ OwedInv

(* Nothing is owed in a new session.                                       *)
LEMMA OwedInit == Init => OwedInv
BY DEF Init, OwedInv, Texts, Closed, InHand, Speaking, Tasks

(* What a step leaves owed if it touches neither the queue nor a worker.   *)
Kept == UNCHANGED <<queue, owed, cur, wpc>>

(* The texts in the queue after segments are put behind them ...           *)
LEMMA TextsPut ==
  ASSUME queue \in Seq(Nat \cup {Sentinel}), NEW put \in Seq(Nat), queue' = queue \o put,
         ~Closed, \A i \in 1..(Len(queue) - 1) : queue[i] # Sentinel
  PROVE  /\ ~Closed' /\ \A i \in 1..(Len(queue') - 1) : queue'[i] # Sentinel
         /\ Texts' = Texts + Len(put)
<1>1. \A i \in 1..Len(queue) : queue[i] # Sentinel
  BY DEF Closed
<1>2. \A i \in 1..Len(put) : put[i] # Sentinel
  OBVIOUS
<1>3. Len(queue') = Len(queue) + Len(put) /\ \A i \in 1..Len(queue') : queue'[i] # Sentinel
  BY <1>1, <1>2
<1>4. ~Closed'
  BY <1>3 DEF Closed
<1>5. QED
  BY <1>3, <1>4 DEF Texts

(* ... after the sentinel is ...                                           *)
LEMMA TextsEnd ==
  ASSUME queue \in Seq(Nat \cup {Sentinel}), queue' = Append(queue, Sentinel),
         ~Closed, \A i \in 1..(Len(queue) - 1) : queue[i] # Sentinel
  PROVE  /\ Closed' /\ \A i \in 1..(Len(queue') - 1) : queue'[i] # Sentinel
         /\ Texts' = Texts
<1>1. \A i \in 1..Len(queue) : queue[i] # Sentinel
  BY DEF Closed
<1>2. /\ Len(queue') = Len(queue) + 1 /\ queue'[Len(queue) + 1] = Sentinel
      /\ \A i \in 1..Len(queue) : queue'[i] # Sentinel
  BY <1>1
<1>3. Closed'
  BY <1>2 DEF Closed
<1>4. QED
  BY <1>2, <1>3 DEF Texts

(* ... and after the first is taken.                                       *)
LEMMA TextsTake ==
  ASSUME queue \in Seq(Nat \cup {Sentinel}), queue # <<>>, queue' = Tail(queue),
         \A i \in 1..(Len(queue) - 1) : queue[i] # Sentinel
  PROVE  /\ \A i \in 1..(Len(queue') - 1) : queue'[i] # Sentinel
         /\ Head(queue) # Sentinel => Texts' = Texts - 1 /\ (Closed' <=> Closed)
         /\ Head(queue) = Sentinel => queue' = <<>> /\ Texts' = Texts /\ Closed /\ ~Closed'
<1>1. /\ Len(queue) \in Nat \ {0} /\ Len(queue') = Len(queue) - 1 /\ Head(queue) = queue[1]
      /\ \A i \in 1..Len(queue') : queue'[i] = queue[i + 1]
  OBVIOUS
<1>2. \A i \in 1..(Len(queue') - 1) : queue'[i] # Sentinel
  BY <1>1
<1>3. Head(queue) = Sentinel => Len(queue) = 1
  BY <1>1
<1>4. Len(queue) = 1 => queue' = <<>> /\ (Closed <=> Head(queue) = Sentinel)
  BY <1>1 DEF Closed
<1>5. ASSUME Len(queue) # 1 PROVE (Closed' <=> Closed) /\ queue' # <<>>
  <2>1. Len(queue') \in 1..Len(queue') /\ Len(queue') + 1 = Len(queue)
    BY <1>1, <1>5
  <2>2. queue'[Len(queue')] = queue[Len(queue)]
    BY <1>1, <2>1
  <2>3. queue # <<>> /\ queue' # <<>>
    <3>0. Len(<<>>) = 0
      OBVIOUS
    <3>1. queue' = <<>> => Len(queue') = 0
      BY <3>0, Zenon
    <3>2. Len(queue') # 0
      BY <2>1
    <3>3. QED
      BY <3>1, <3>2
  <2>4. QED
    BY <2>2, <2>3 DEF Closed
<1>6. QED
  BY <1>1, <1>2, <1>3, <1>4, <1>5 DEF Texts, Closed

(* A text is in hand while the current worker speaks.                      *)
LEMMA InHandIs ==
  ASSUME TaskInv, TaskInv'
  PROVE  /\ InHand = IF cur \in Tasks /\ wpc[cur] \in Speaking THEN 1 ELSE 0
         /\ InHand' = IF cur' \in Tasks /\ wpc'[cur'] \in Speaking THEN 1 ELSE 0
<1>1. (\E t \in Tasks : wpc[t] \in Speaking) <=> cur \in Tasks /\ wpc[cur] \in Speaking
  BY DEF TaskInv, Live, Speaking
<1>2. (\E t \in Tasks : wpc'[t] \in Speaking) <=> cur' \in Tasks /\ wpc'[cur'] \in Speaking
  BY DEF TaskInv, Live, Speaking
<1>3. QED
  BY <1>1, <1>2 DEF InHand

(* The main task puts what it accepts, and discards what a barge-in cuts   *)
(* (session.py, _put and _handle_interrupt).                               *)
LEMMA MainOwes ==
  ASSUME FullInv, ChunkInv', FaultInv', NoFault, NoFault', [Next]_vars,
         ~\E t \in Tasks : Work(t)
  PROVE  OwedInv'
<1>0. /\ TypeOK /\ LocalInv /\ ws = "open" /\ ws' = "open" /\ TaskInv /\ TaskInv'
      /\ mpc \notin {"full", "fullSent", "fullJoin", "timeoutErr", "timeoutSent"}
      /\ mpc' \notin {"full", "fullSent", "fullJoin", "timeoutErr", "timeoutSent"}
  BY DEF FullInv, ChunkInv, TypeInv, NoFault, FaultInv
<1>1. /\ mpc # "intJoin" => owed = Texts + InHand
      /\ \A i \in 1..(Len(queue) - 1) : queue[i] # Sentinel
      /\ Closed => mpc = "join"
      /\ cur \in Tasks =>
           /\ wpc[cur] \in {"done", "dead"} =>
                mpc = "intJoin" \/ (mpc \in {"join", "ended"} /\ queue = <<>>)
           /\ mpc = "join" => wpc[cur] \in {"done", "dead"} \/ Closed
           /\ mpc = "ended" => wpc[cur] = "dead"
           /\ mpc \in {"join", "ended"} /\ wpc[cur] = "dead" => out = Notice("done")
           /\ open # None =>
                \/ wpc[cur] \in {"synth", "end"}
                \/ mpc \in {"intJoin", "intAborted"} /\ aborted # None
  BY DEF FullInv, OwedInv
<1>2. cur \in Tasks \/ mpc \in Before \cup {"ended"}
  BY <1>0 DEF LocalInv
<1>3. ASSUME Kept
      PROVE  Texts' = Texts /\ InHand' = InHand /\ (Closed' <=> Closed)
  BY <1>3 DEF Kept, Texts, InHand, Closed
<1>4. ASSUME UNCHANGED <<mpc, aborted, out, open>>, Kept PROVE OwedInv'
  BY <1>1, <1>3, <1>4 DEF OwedInv, Kept
<1>5. CASE Terminated \/ UNCHANGED vars
  BY <1>4, <1>5 DEF Terminated, vars, main, text, worker, client, Kept
<1>6. CASE Timeout
  BY <1>0, <1>4, <1>6 DEF Timeout, MainStep, NoFault, ErrorOccurred, text, client, Kept
<1>7. CASE Authenticate \/ Reject
  <2>1. /\ mpc \in Before /\ mpc' \in Before \cup {"ended"} /\ Kept /\ cur = 0
    BY <1>0, <1>7 DEF Authenticate, Reject, MainSend, MainStep, text, worker, Kept, Before,
                      LocalInv
  <2>2. QED
    BY <1>1, <1>3, <2>1 DEF OwedInv, Kept, Before, Tasks
<1>8. CASE ReceiveBinary \/ ReceiveMalformed \/ SendParseError
  <2>1. /\ mpc \in {"recv", "parseErr"} /\ mpc' \in {"putEnd", "parseErr", "recv"} /\ Kept
    BY <1>0, <1>8 DEF ReceiveBinary, ReceiveMalformed, ReceiveCounted, SendParseError,
                      LoopTop, MainSend, MainStep, SendRaises, text, worker, Kept
  <2>2. UNCHANGED open
    BY <1>0, <1>8 DEF ReceiveBinary, ReceiveMalformed, SendParseError, MainSend, Write,
                      SendRaises, Deliver, Error, Message, client
  <2>3. QED
    BY <1>1, <1>3, <2>1, <2>2 DEF OwedInv, Kept
<1>9. CASE SendAborted \/ SendInterrupted
  <2>1. /\ mpc \in {"intAborted", "intDone"} /\ mpc' \in {"abortSent", "recv"} /\ Kept
        /\ open' = None
    <3>1. CASE SendAborted
      BY <1>0, <3>1, MainDelivers DEF SendAborted, Deliver, Message, Kept
    <3>2. CASE SendInterrupted
      BY <1>0, <3>2, MainDelivers DEF SendInterrupted, LoopTop, Deliver, Message, Kept
    <3>3. QED
      BY <1>9, <3>1, <3>2
  <2>2. QED
    BY <1>1, <1>3, <2>1 DEF OwedInv, Kept
<1>10. CASE CountAborted \/ Join
  <2>1. /\ \/ mpc = "abortSent" /\ mpc' = "intDone"
           \/ mpc = "join" /\ mpc' = "ended" /\ wpc[cur] = "dead"
        /\ Kept /\ UNCHANGED <<aborted, open, out>>
    BY <1>10 DEF CountAborted, Join, MainStep, text, worker, client, Kept
  <2>2. queue = <<>> => ~Closed
    BY DEF Closed
  <2>3. QED
    BY <1>1, <1>2, <1>3, <2>1, <2>2 DEF OwedInv, Kept, Before
<1>11. CASE AuthOk
  <2>1. /\ mpc = "authOk" /\ mpc' = "recv" /\ cur' = 1 /\ wpc' = [wpc EXCEPT ![1] = "new"]
        /\ UNCHANGED <<queue, owed, open>>
    BY <1>0, <1>11 DEF AuthOk, Write, SendRaises, Deliver, Notice, Error, Message, text
  <2>2. cur = 0 /\ 1 \in Tasks /\ wpc'[1] = "new" /\ open = None
    BY <1>0, <2>1 DEF LocalInv, Before, FullInv, ViewInv, Tasks, TypeOK
  <2>3. Texts' = Texts /\ (Closed' <=> Closed)
    BY <2>1 DEF Texts, Closed
  <2>4. InHand' = InHand
    BY <1>0, <2>1, <2>2, InHandIs DEF Speaking, Tasks
  <2>5. QED
    BY <1>1, <2>1, <2>2, <2>3, <2>4 DEF OwedInv
<1>12. CASE PutEnd
  <2>1. /\ mpc = "putEnd" /\ mpc' = "join" /\ queue' = Append(queue, Sentinel)
        /\ UNCHANGED <<owed, cur, wpc, open>>
    BY <1>12 DEF PutEnd, MainStep, worker, client
  <2>2. /\ Closed' /\ \A i \in 1..(Len(queue') - 1) : queue'[i] # Sentinel
        /\ Texts' = Texts
    BY <1>0, <1>1, <2>1, TextsEnd DEF TypeOK
  <2>3. InHand' = InHand
    BY <2>1 DEF InHand
  <2>4. QED
    BY <1>1, <1>2, <2>1, <2>2, <2>3 DEF OwedInv, Before
<1>13. ASSUME NEW segs \in Seq(Nat), NEW next, PutAll(segs, next), mpc = "recv",
              next \in {"recv", "putEnd"}
       PROVE  OwedInv'
  <2>1. mpc' = next /\ queue' = queue \o [i \in 1..Len(segs) |-> segs[i]]
        /\ owed' = owed + Len(segs)
    BY <1>0, <1>13 DEF PutAll
  <2>2. [i \in 1..Len(segs) |-> segs[i]] = segs
    BY <1>13
  <2>3. /\ ~Closed' /\ \A i \in 1..(Len(queue') - 1) : queue'[i] # Sentinel
        /\ Texts' = Texts + Len(segs)
    BY <1>0, <1>1, <1>13, <2>1, <2>2, TextsPut DEF TypeOK
  <2>4. InHand' = InHand /\ UNCHANGED <<cur, wpc, open>>
    BY <1>13 DEF PutAll, InHand, worker, client
  <2>5. owed \in Int /\ Len(segs) \in Nat /\ Texts \in Int /\ InHand \in Int
    BY <1>0, <1>13 DEF TypeOK, Texts, InHand
  <2>6. owed' = Texts' + InHand'
    BY <1>1, <1>13, <2>1, <2>3, <2>4, <2>5
  <2>7. QED
    BY <1>1, <1>2, <1>13, <2>1, <2>3, <2>4, <2>6 DEF OwedInv, Before
<1>14. CASE ReceiveToken \/ ReceiveFlush \/ ReceiveEnd
  <2>1. CASE ReceiveToken
    <3>1. PICK k \in 0..MaxSegs :
            PutAll([i \in 1..k |-> IF i = 1 /\ buf # None THEN buf ELSE epoch], LoopTop)
      BY <2>1 DEF ReceiveToken
    <3>2. [i \in 1..k |-> IF i = 1 /\ buf # None THEN buf ELSE epoch] \in Seq(Nat)
      BY <1>0 DEF TypeOK
    <3>3. QED
      BY <1>13, <2>1, <3>1, <3>2 DEF ReceiveToken, ReceiveCounted, LoopTop
  <2>2. CASE ReceiveFlush \/ ReceiveEnd
    <3>1. Flushed \in Seq(Nat)
      BY <1>0 DEF TypeOK, Flushed
    <3>2. QED
      BY <1>13, <2>2, <3>1 DEF ReceiveFlush, ReceiveEnd, ReceiveCounted, LoopTop
  <2>3. QED
    BY <1>14, <2>1, <2>2
<1>15. CASE ReceiveInterrupt \/ WorkerJoined
  <2>1. CASE mpc = "recv" /\ mpc' = "intJoin" /\ UNCHANGED <<text, cur, wpc, open>>
    BY <1>1, <1>2, <1>3, <2>1, InHandIs DEF OwedInv, Kept, text, Before
  <2>2. CASE \/ mpc = "recv" /\ wpc[cur] = "dead"
             \/ mpc = "intJoin" /\ wpc[cur] = "dead" /\ Restart(aborted)
    <3>1. mpc = "intJoin" /\ Restart(aborted) /\ UNCHANGED <<aborted, open>>
      BY <1>1, <1>2, <1>15, <2>2 DEF ReceiveInterrupt, WorkerJoined, Before, client
    <3>2. /\ cur \in Tasks /\ cur + 1 \in Tasks
      BY <1>0, <3>1 DEF LocalInv, Before, Tasks
    <3>3. /\ queue' = <<>> /\ owed' = 0 /\ cur' = cur + 1 /\ wpc'[cur'] = "new"
          /\ mpc' \in {"intAborted", "intDone"} /\ (aborted # None => mpc' = "intAborted")
      BY <1>0, <3>1, <3>2 DEF Restart, Discard, TypeOK
    <3>4. open # None => aborted # None
      BY <1>1, <2>2, <3>2
    <3>5. Texts' = 0 /\ ~Closed'
      BY <3>3 DEF Texts, Closed
    <3>6. InHand' = 0
      BY <1>0, <3>3, InHandIs DEF Speaking
    <3>7. QED
      BY <3>1, <3>3, <3>4, <3>5, <3>6 DEF OwedInv
  <2>3. QED
    BY <1>15, <2>1, <2>2 DEF ReceiveInterrupt, WorkerJoined, client
<1>16. QED
  BY <1>0, <1>5, <1>6, <1>7, <1>8, <1>9, <1>10, <1>11, <1>12, <1>14, <1>15
     DEF Next, Receive, Proceed, SendQueueFull, AbortPut, PutAborted, SendTimeout,
         CancelOnTimeout, MainSend, MainStep, ReceiveDisconnect, PeerCloses

(* The worker takes a text in hand, and lets it go when it has spoken it;  *)
(* it ends at the sentinel (session.py, _tts_worker).                      *)
LEMMA WorkerOwes ==
  ASSUME FullInv, ChunkInv', FaultInv', NoFault, NoFault', [Next]_vars,
         NEW t \in Tasks, Work(t)
  PROVE  OwedInv'
<1>0. /\ TypeOK /\ LocalInv /\ ws = "open" /\ ws' = "open" /\ TaskInv /\ TaskInv'
      /\ "synthesis_error" \notin errors' /\ wpc[t] \notin {"err", "errSent"}
      /\ wpc'[t] \notin {"err", "errSent"} /\ (wcancel[t] => mpc = "intJoin")
  BY DEF FullInv, ChunkInv, TypeInv, NoFault, FaultInv
<1>1. /\ mpc # "intJoin" => owed = Texts + InHand
      /\ \A i \in 1..(Len(queue) - 1) : queue[i] # Sentinel
      /\ Closed => mpc = "join"
      /\ cur \in Tasks =>
           /\ wpc[cur] \in {"done", "dead"} =>
                mpc = "intJoin" \/ (mpc \in {"join", "ended"} /\ queue = <<>>)
           /\ mpc = "join" => wpc[cur] \in {"done", "dead"} \/ Closed
           /\ mpc = "ended" => wpc[cur] = "dead"
           /\ mpc \in {"join", "ended"} /\ wpc[cur] = "dead" => out = Notice("done")
           /\ open # None =>
                \/ wpc[cur] \in {"synth", "end"}
                \/ mpc \in {"intJoin", "intAborted"} /\ aborted # None
  BY DEF FullInv, OwedInv
<1>2. /\ t = cur /\ cur' = cur /\ UNCHANGED <<mpc, aborted>>
      /\ mpc = "intJoin" => wcancel[t] \/ wpc[t] \in {"done", "dead"}
  BY WorkerEffect, WorkerWho DEF FullInv, ChunkInv, main
<1>3. /\ InHand = IF wpc[t] \in Speaking THEN 1 ELSE 0
      /\ InHand' = IF wpc'[t] \in Speaking THEN 1 ELSE 0
  BY <1>0, <1>2, InHandIs
<1>4. owed \in Int /\ Texts \in Int
  BY <1>0 DEF TypeOK, Texts
<1>5. ASSUME UNCHANGED queue
      PROVE  Texts' = Texts /\ (Closed' <=> Closed)
  BY <1>5 DEF Texts, Closed
<1>6. CASE TakeSegment(t)
  <2>1. /\ queue # <<>> /\ Head(queue) # Sentinel /\ queue' = Tail(queue)
        /\ wpc[t] = "get" /\ wpc'[t] = "start" /\ ~wcancel[t] /\ UNCHANGED <<owed, open>>
    BY <1>0, <1>6 DEF TakeSegment, WorkerStep, client, TypeOK
  <2>2. /\ \A i \in 1..(Len(queue') - 1) : queue'[i] # Sentinel
        /\ Texts' = Texts - 1 /\ (Closed' <=> Closed)
    BY <1>0, <1>1, <2>1, TextsTake DEF TypeOK
  <2>3. QED
    BY <1>1, <1>2, <1>3, <1>4, <2>1, <2>2 DEF OwedInv, Speaking
<1>7. CASE TakeSentinel(t)
  <2>1. /\ queue # <<>> /\ Head(queue) = Sentinel /\ queue' = Tail(queue)
        /\ wpc[t] = "get" /\ wpc'[t] = "done" /\ ~wcancel[t] /\ UNCHANGED <<owed, open>>
    BY <1>0, <1>7 DEF TakeSentinel, WorkerStep, client, TypeOK
  <2>2. /\ \A i \in 1..(Len(queue') - 1) : queue'[i] # Sentinel
        /\ queue' = <<>> /\ Texts' = Texts /\ Closed /\ ~Closed'
    BY <1>0, <1>1, <2>1, TextsTake DEF TypeOK
  <2>3. QED
    BY <1>1, <1>2, <1>3, <1>4, <2>1, <2>2 DEF OwedInv, Speaking
<1>8. CASE Cancelled(t)
  <2>1. /\ mpc = "intJoin" /\ UNCHANGED <<queue, open, aborted>>
    BY <1>0, <1>8 DEF Cancelled, text, client, main
  <2>2. CASE wpc[t] \in Speaking
    <3>1. aborted # None
      BY <1>0, <2>1, <2>2 DEF FullInv, ChunkInv, CurrentInv, LocalInv, ChunkIds, chunkCounter,
                              TypeOK
    <3>2. QED
      BY <1>1, <1>2, <1>5, <2>1, <3>1 DEF OwedInv
  <2>3. CASE wpc[t] \notin Speaking
    BY <1>1, <1>2, <1>5, <2>1, <2>3 DEF OwedInv, Speaking
  <2>4. QED
    BY <2>2, <2>3
<1>9. CASE CountChunk(t)
  <2>1. /\ wpc[t] = "endSent" /\ wpc'[t] = "get" /\ ~wcancel[t] /\ owed' = owed - 1
        /\ UNCHANGED <<queue, open>>
    BY <1>0, <1>9 DEF CountChunk, WorkerStep, client, TypeOK
  <2>2. QED
    BY <1>1, <1>2, <1>3, <1>4, <1>5, <2>1 DEF OwedInv, Speaking
<1>10. CASE Begin(t) \/ EngineDone(t) \/ StartChunk(t) \/ SendFrame(t) \/ EndChunk(t)
  <2>1. /\ \/ wpc[t] = "new" /\ wpc'[t] = "get" /\ UNCHANGED open
           \/ wpc[t] = "synth" /\ wpc'[t] \in {"synth", "end"} /\ UNCHANGED open
           \/ wpc[t] = "start" /\ wpc'[t] = "synth"
           \/ wpc[t] = "end" /\ wpc'[t] = "endSent" /\ open' = None
        /\ ~wcancel[t] /\ UNCHANGED <<owed, queue>>
    <3>1. CASE Begin(t) \/ EngineDone(t)
      BY <1>0, <3>1 DEF Begin, EngineDone, WorkerStep, client, TypeOK
    <3>2. CASE SendFrame(t)
      <4>1. /\ WorkerStep(t, "synth", "synth") /\ UNCHANGED <<queue, owed>>
            /\ Deliver(Message("frame", job[t].chunk, job[t].seg))
        BY <3>2 DEF SendFrame
      <4>2. UNCHANGED open
        BY <4>1 DEF Deliver, Message, Error
      <4>3. QED
        BY <1>0, <4>1, <4>2 DEF WorkerStep, TypeOK
    <3>3. CASE StartChunk(t)
      BY <1>0, <3>3, WorkerDelivers
         DEF StartChunk, ChunkSend, WorkerStep, SegmentFails, SendRaises, TypeOK
    <3>4. CASE EndChunk(t)
      <4>1. /\ WorkerStep(t, "end", "endSent") /\ UNCHANGED <<queue, owed>>
            /\ Deliver(Message("audio_end", job[t].chunk, None))
        BY <1>0, <3>4 DEF EndChunk, ChunkSend, Write, SendRaises
      <4>2. QED
        BY <1>0, <4>1 DEF WorkerStep, Deliver, Message, TypeOK
    <3>5. QED
      BY <1>10, <3>1, <3>2, <3>3, <3>4
  <2>2. QED
    BY <1>1, <1>2, <1>3, <1>4, <1>5, <2>1 DEF OwedInv, Speaking
<1>11. CASE SendDone(t)
  <2>1. /\ wpc[t] = "done" /\ wpc'[t] = "dead" /\ out' = Notice("done")
        /\ UNCHANGED <<owed, queue, open>>
    BY <1>0, <1>11 DEF SendDone, WorkerSend, WorkerStep, Write, SendRaises, Deliver, Notice,
                       Error, Message, TypeOK
  <2>2. QED
    BY <1>1, <1>2, <1>3, <1>4, <1>5, <2>1 DEF OwedInv, Speaking, Notice
<1>12. QED
  BY <1>0, <1>6, <1>7, <1>8, <1>9, <1>10, <1>11
     DEF Work, ReportFailure, GiveUp, WorkerSend, WorkerStep, EngineFails, FrameLost,
         SegmentFails, ErrorOccurred

(* Every step keeps the account.                                           *)
LEMMA OwedStep ==
  ASSUME FullInv, ChunkInv', FaultInv', [Next]_vars
  PROVE  OwedInv'
<1>1. NoFault' => NoFault
  BY FaultsStay DEF FullInv, ChunkInv, NoFault
<1>2. CASE ~NoFault'
  BY <1>2 DEF OwedInv
<1>3. CASE NoFault'
  BY <1>1, <1>3, MainOwes, WorkerOwes
<1>4. QED
  BY <1>2, <1>3

-----------------------------------------------------------------------------
(* All of it                                                               *)

(* The whole invariant is inductive ...                                    *)
LEMMA SessionStep == SessionInv /\ [Next]_vars => SessionInv'
<1> SUFFICES ASSUME SessionInv, [Next]_vars PROVE SessionInv'
  OBVIOUS
<1>1. FullInv /\ CountInv /\ ChunkInv /\ EpochInv
  BY DEF SessionInv, FullInv, CountInv, ChunkInv
<1>2. CountInv' /\ EpochInv'
  BY <1>1, CountStep, EpochStep DEF ChunkInv
<1>3. ChunkInv' /\ FaultInv'
  BY <1>2 DEF ChunkInv, CountInv
<1>4. ViewInv'
  BY <1>1, ViewStep DEF FullInv
<1>5. OwedInv'
  BY <1>1, <1>3, OwedStep
<1>6. QED
  BY <1>2, <1>4, <1>5 DEF SessionInv, CountInv

(* ... and holds in every reachable state: what the two coroutines rely on *)
(* where they stand (session.py, SpeakerSession).                          *)
THEOREM SessionInvCorrect == Spec => []SessionInv
<1>1. Init => SessionInv
  BY TypeInit, TaskInit, QuietInit, EpochInit, CurrentInit, ViewInit, FaultInit, OwedInit,
     CountInit DEF SessionInv
<1>2. QED
  BY <1>1, SessionStep, PTL DEF Spec

(* A session that ends without a fault has spoken every segment accepted   *)
(* since the last barge-in to its end, and done is its last message        *)
(* (session.py, run and _tts_worker).                                      *)
THEOREM DoneMeansSpokenCorrect == Spec => []DoneMeansSpoken
<1>1. SessionInv => DoneMeansSpoken
  <2> SUFFICES ASSUME SessionInv, mpc = "ended", cur # 0, NoFault
               PROVE  owed = 0 /\ open = None /\ out = Notice("done")
    BY DEF DoneMeansSpoken
  <2>1. cur \in Tasks /\ TaskInv /\ OwedInv
    BY DEF SessionInv, TypeInv, TypeOK, Tasks
  <2>2. /\ wpc[cur] = "dead" /\ queue = <<>> /\ out = Notice("done") /\ open = None
        /\ owed = Texts + InHand
    BY <2>1 DEF OwedInv
  <2>3. Texts = 0
    BY <2>2 DEF Texts, Closed
  <2>4. InHand = 0
    BY <2>1, <2>2 DEF InHand, TaskInv, Live, Speaking
  <2>5. QED
    BY <2>2, <2>3, <2>4
<1>2. QED
  BY <1>1, SessionInvCorrect, PTL
=============================================================================
