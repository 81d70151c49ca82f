--------------------------- MODULE SessionOnEngine ---------------------------
(***************************************************************************)
(* A WebSocket session on the shared engine.  The worker of the session    *)
(* speaks chunk c through call c of synthesize(); requests of other users  *)
(* call the same engine.  A step of the worker and of its call is one      *)
(* step: the call runs in the worker's task, and cancelling the task is    *)
(* cancelling the call.                                                    *)
(*                                                                         *)
(* SpeakerSession lets a segment take as long as it likes and fail when it *)
(* likes.  Here the engine decides, and what the session promises must     *)
(* survive its lock, its thread and its time limit.                        *)
(***************************************************************************)
EXTENDS KokoroEngine

CONSTANTS
  QMax, MaxSegs, MaxMsgs, MaxTasks, Events, Sentinel,  (* SpeakerSession   *)
  WaitForKeeps  (* BOOLEAN: asyncio.wait_for, cancelled when its future is *)
                (* done, returns the result and drops the cancellation:    *)
                (* Python up to 3.11, which pyproject.toml admits          *)

ASSUME WaitForAssumption == WaitForKeeps \in BOOLEAN

VARIABLES mpc, timer, cur, aborted, msgs, wpc, wcancel, job, queue, buf,
          current, tally, ws, errors, epoch, owed, out, open, heard

S == INSTANCE SpeakerSession

ASSUME SessionAssumption ==
  S!BoundsAssumption /\ S!NoneAssumption /\ S!EventsAssumption

engine  == vars
session == <<mpc, timer, cur, aborted, msgs, wpc, wcancel, job, queue, buf,
             current, tally, ws, errors, epoch, owed, out, open, heard>>
system  == <<engine, session>>

(* Call c speaks chunk c of the session; the other calls are of others.    *)
Chunks == Calls \cap Nat
Others == Calls \ Chunks

SystemInit == Init /\ S!Init

-----------------------------------------------------------------------------
(* Steps of a worker that involve its call *)

CallOf(t)   == job[t].chunk
(* Bound: only a chunk that has a call is spoken.                          *)
Speaking(t) == wpc[t] = "synth" /\ CallOf(t) \in Calls

StartCall(t) ==
  /\ Speaking(t) /\ ~wcancel[t]
  /\ Synthesize(CallOf(t))
  /\ UNCHANGED session

(* The lock goes to the first in the queue, unless it is being cancelled.  *)
AcquireLock ==
  /\ Acquire
  /\ ~\E t \in S!Tasks : /\ wcancel[t] /\ Speaking(t)
                         /\ CallOf(t) = Head(waiters)
  /\ UNCHANGED session

CallYields(t) ==
  /\ Speaking(t) /\ ~wcancel[t]
  /\ Resume(CallOf(t)) /\ pc'[CallOf(t)] = "yield"
  /\ UNCHANGED session

(* Out of the engine the exception runs through _synthesize_segment.       *)
CallFails(t) ==
  /\ Speaking(t)
  /\ Resume(CallOf(t)) \/ Timeout(CallOf(t))
  /\ pc'[CallOf(t)] = "failed"
  /\ S!EngineFails(t)

(* The frames of a chunk are there once its call yields.                   *)
Stream(t) ==
  /\ Speaking(t) /\ pc[CallOf(t)] = "yield"
  /\ \/ S!SendFrame(t) /\ UNCHANGED engine
     \/ S!FrameLost(t) /\ Cancel(CallOf(t))
     \/ S!EngineDone(t) /\ Finish(CallOf(t))

(* Mutation: the call sits out its turn in the thread, as under shield().  *)
CancelWorker_Shielded(t) ==
  /\ ~(Speaking(t) /\ pc[CallOf(t)] = "infer" /\ fut[CallOf(t)] = "pending")
  /\ S!Cancelled(t)
  /\ IF Speaking(t) /\ pc[CallOf(t)] # "idle" THEN Cancel(CallOf(t))
                                              ELSE UNCHANGED engine

(* CancelledError is raised in the worker, inside its call if it is there. *)
CancelWorker(t) ==
  /\ S!Cancelled(t)
  /\ IF Speaking(t) /\ pc[CallOf(t)] # "idle" THEN Cancel(CallOf(t))
                                              ELSE UNCHANGED engine

(* The cancellation came after the inference ended and before the call     *)
(* resumed: wait_for returns the audio, and the worker goes on, or raises  *)
(* what the inference raised, and the worker is about to report it.        *)
CancelDropped(t) ==
  /\ WaitForKeeps /\ TimeLimit
  /\ Speaking(t) /\ wcancel[t] /\ wcancel' = [wcancel EXCEPT ![t] = FALSE]
  /\ Resume(CallOf(t))
  /\ \/ fut[CallOf(t)] = "finished" /\ UNCHANGED <<wpc, current, errors>>
     \/ /\ fut[CallOf(t)] = "failed" /\ "crash" \in Events
        /\ wpc' = [wpc EXCEPT ![t] = "err"]
        /\ current' = None /\ S!ErrorOccurred("synthesis_error")
  /\ UNCHANGED <<mpc, timer, cur, aborted, msgs, job, queue, buf, epoch,
                 owed, tally, out, open, heard, ws>>

(* The rest of the worker's steps do not touch the engine.                 *)
Speak(t) ==
  /\ \/ S!Begin(t) \/ S!TakeSegment(t) \/ S!TakeSentinel(t)
     \/ S!StartChunk(t) \/ S!EndChunk(t) \/ S!CountChunk(t)
     \/ S!ReportFailure(t) \/ S!GiveUp(t) \/ S!SendDone(t)
  /\ UNCHANGED engine

WorkerSteps(t) == \/ StartCall(t) \/ CallYields(t) \/ CallFails(t)
                  \/ Stream(t) \/ CancelWorker(t) \/ CancelDropped(t)
                  \/ Speak(t)

-----------------------------------------------------------------------------
(* What the main task and the peer do.                                     *)
Main == /\ S!Receive \/ S!Proceed \/ S!Timeout \/ S!PeerCloses
        /\ UNCHANGED engine

(* What the engine does for others, and its thread for anybody.            *)
Elsewhere == /\ \/ \E c \in Others : Call(c)
                \/ \E c \in Calls : Infer(c)
                \/ Begin
             /\ UNCHANGED session

(* The lifespan closes the engines when the connections are gone.          *)
Close == mpc = "ended" /\ AClose /\ UNCHANGED session

SystemTerminated ==
  /\ mpc = "ended" /\ \A c \in Others : pc[c] \in Ended
  /\ running \subseteq Hung
  /\ UNCHANGED system

SystemNext ==
  \/ Main \/ Elsewhere \/ AcquireLock \/ Close \/ SystemTerminated
  \/ \E t \in S!Tasks : WorkerSteps(t)

(* As in the two modules.  Nothing is assumed of a segment any more: that  *)
(* its audio ends follows from the engine.                                 *)
SystemFairness ==
  /\ WF_system(S!Proceed /\ UNCHANGED engine)
  /\ WF_system(S!Timeout /\ UNCHANGED engine)
  /\ WF_system(S!ReceiveDisconnect /\ UNCHANGED engine)
  /\ \A t \in S!Tasks : WF_system(WorkerSteps(t))
  /\ WF_system(AcquireLock) /\ WF_system(Begin /\ UNCHANGED session)
  /\ \A c \in Calls : WF_system(Infer(c) /\ UNCHANGED session)
  /\ \A c \in Others : /\ WF_system(Resume(c) /\ UNCHANGED session)
                       /\ WF_system(Timeout(c) /\ UNCHANGED session)
                       /\ WF_system(Finish(c) /\ UNCHANGED session)

System == SystemInit /\ [][SystemNext]_system /\ SystemFairness

-----------------------------------------------------------------------------
(* The properties of KokoroEngine are checked here again, its calls being  *)
(* those of a session.                                                     *)

(* README.md:254: on `interrupt` the server cancels the chunk in flight    *)
(* and replies, though the inference of another user hangs in the only     *)
(* thread.                                                                 *)
BargeInCompletes == S!InterruptCompletes

(* The main task awaits a worker whose cancellation was dropped and that   *)
(* goes on with its segments, then waits for more.                         *)
CancelLost == /\ mpc \in {"intJoin", "fullJoin"} /\ ~wcancel[cur]
              /\ wpc[cur] \in {"get", "start", "synth", "end", "endSent"}

(* Nothing else keeps a barge-in waiting, neither the lock nor the thread  *)
(* nor what others do with them.                                           *)
BargeInWaitsForNobody ==
  mpc = "intJoin" ~> mpc \in {"recv", "putEnd", "timeoutErr"} \/ CancelLost

(* A session ends although an inference hangs, its own or another's: the   *)
(* time limit and the lock see to it.  The exceptions are that one and     *)
(* those of SessionEnds.                                                   *)
SessionOutlastsEngine ==
  timer = "armed" ~> \/ mpc = "ended" \/ CancelLost
                     \/ S!TimerSwallowed \/ S!WorkerOrphaned

(* The thread never begins to infer text that a barge-in has discarded.    *)
NoStaleInference ==
  [][\A c \in (running' \ running) \cap Chunks :
        \E t \in S!Tasks : Speaking(t) /\ CallOf(t) = c /\ job[t].seg = epoch]_system
=============================================================================
