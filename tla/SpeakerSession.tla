--------------------------- MODULE SpeakerSession ---------------------------
(***************************************************************************)
(* One WebSocket session of the speaker server (class SpeakerSession).     *)
(* Two coroutines of one event loop share it: the main task authenticates  *)
(* the client and reads its messages, a worker task takes text segments    *)
(* from a bounded queue and streams each as a numbered chunk of audio.  A  *)
(* barge-in (`interrupt`) cancels the worker, waits for it, discards the   *)
(* pending text and creates a new worker.                                  *)
(*                                                                         *)
(* An action is what a coroutine does between two points where it may be   *)
(* suspended.  A send may be suspended before its message is written (the  *)
(* state named after it) or after (the states ending in Sent, kept where   *)
(* the coroutine still changes state when it resumes).  cancel() raises    *)
(* CancelledError at the next resumption: no other step comes first.       *)
(***************************************************************************)
EXTENDS Integers, Sequences

CONSTANTS
  QMax,      (* queue_maxsize                                              *)
  MaxSegs,   (* bound: segments one token can complete                     *)
  MaxMsgs,   (* bound: token, flush and malformed messages of the client   *)
  MaxTasks,  (* bound: worker tasks created, one more than the barge-ins   *)
  Events,    (* what goes wrong around the session, see EventKinds         *)
  None,      (* Python's None: no chunk, no text                           *)
  Sentinel   (* _SENTINEL, the end-of-stream mark in the queue             *)

(* The peer disconnects, the engine raises, the session timer expires.     *)
EventKinds == {"close", "crash", "timeout"}

ASSUME BoundsAssumption == /\ QMax \in Nat \ {0}
                           /\ MaxSegs \in Nat
                           /\ MaxMsgs \in Nat
                           /\ MaxTasks \in Nat \ {0}
ASSUME NoneAssumption   == /\ None \notin Nat /\ Sentinel \notin Nat
                           /\ None # Sentinel
ASSUME EventsAssumption == Events \subseteq EventKinds

Tasks == 1..MaxTasks

VARIABLES
  mpc,      \* where the main task stands
  timer,    \* wait_for(..., session_timeout): "off", "armed" or "fired"
  cur,      \* _tts_task; tasks are numbered as they are created, 0: none yet
  aborted,  \* local aborted_id of _handle_interrupt
  msgs,     \* messages received, for the bound
  wpc,      \* where each worker task stands
  wcancel,  \* the task was cancelled and CancelledError not raised yet
  job,      \* chunk_id and segment each worker speaks
  queue,    \* _queue; a segment is named by the epoch of its oldest text
  buf,      \* the accumulator: None, or the epoch of its oldest text
  current,  \* _current_chunk_id
  tally,    \* calls of chunk_finished() for chunk 0, 1, ...
  ws,       \* the socket, see SocketStates
  errors,   \* codes error_occurred() was called with
  \* history, not read by the program
  epoch,    \* barge-ins carried out
  owed,     \* segments accepted in this epoch and not spoken to the end
  out,      \* the last message written to the wire
  open,     \* the chunk the client has seen start and not end, or None
  heard     \* every chunk id the client was told of is below this

main   == <<mpc, timer, cur, aborted, msgs>>
worker == <<wpc, wcancel, job>>
text   == <<queue, buf, epoch, owed>>
chunks == <<current, tally>>
client == <<out, open, heard>>
vars   == <<main, worker, text, chunks, client, ws, errors>>

(* "closed": the peer has gone and the server has not noticed.  "failed":  *)
(* a send raised, Starlette refuses further calls (application_state).     *)
(* "gone": the disconnect message was read (client_state).                 *)
SocketStates == {"open", "closed", "failed", "gone"}

chunkCounter == Len(tally)

Message(type, id, ep) == [type |-> type, id |-> id, ep |-> ep]
Notice(type)          == Message(type, None, None)
Error(code)           == Message("error", None, code)

Init ==
  /\ mpc = "auth" /\ timer = "off" /\ cur = 0 /\ aborted = None /\ msgs = 0
  /\ wpc = [t \in Tasks |-> "none"]
  /\ wcancel = [t \in Tasks |-> FALSE]
  /\ job = [t \in Tasks |-> [chunk |-> None, seg |-> None]]
  /\ queue = <<>> /\ buf = None /\ epoch = 0 /\ owed = 0
  /\ current = None /\ tally = <<>>
  /\ ws = "open" /\ errors = {}
  /\ out = Notice("none") /\ open = None /\ heard = 0

-----------------------------------------------------------------------------
(* The client reads m.  A chunk is over for it when it ends or is aborted, *)
(* or when synthesis is reported to have failed or been interrupted.       *)
Deliver(m) ==
  /\ out' = m
  /\ open' = IF m.type = "audio_start" THEN m.id
             ELSE IF m.type \in {"audio_end", "chunk_aborted", "interrupted"}
                     \/ m = Error("synthesis_error") THEN None
             ELSE open
  /\ heard' = IF m.type \in {"audio_start", "chunk_aborted"} /\ m.id >= heard
              THEN m.id + 1 ELSE heard

(* _send returns: m is written, or the call is skipped because the client  *)
(* left, or its RuntimeError is swallowed.                                 *)
Write(m) ==
  /\ ws # "closed"
  /\ IF ws = "open" THEN Deliver(m) ELSE UNCHANGED client
  /\ UNCHANGED ws

(* _send raises WebSocketDisconnect: the peer is gone and nobody knew.     *)
SendRaises == ws = "closed" /\ ws' = "failed" /\ UNCHANGED client

(* Mutation: the task is awaited but not cancelled.                        *)
Cancel_Missing(t) == wpc[t] \in STRING /\ UNCHANGED wcancel

Cancel(t) == wcancel' = [wcancel EXCEPT ![t] = (wpc[t] # "dead")]

ErrorOccurred(code) == errors' = errors \cup {code}

ChunkFinished(c) == tally' = [tally EXCEPT ![c + 1] = @ + 1]

-----------------------------------------------------------------------------
(* The main task *)

MainStep(from, to) ==
  /\ mpc = from /\ mpc' = to
  /\ UNCHANGED <<cur, aborted, msgs>>

(* A send of the main task that changes nothing but its place.             *)
MainSend(from, m, returned, raised) ==
  /\ \/ MainStep(from, returned) /\ Write(m)
     \/ MainStep(from, raised) /\ SendRaises
  /\ UNCHANGED <<timer, worker, text, chunks, errors>>

(* The first message is read and its token validated: the client is let    *)
(* in, turned down, or told that the provider raised.                      *)
Authenticate ==
  /\ \/ MainStep("auth", "authOk") /\ UNCHANGED errors
     \/ MainStep("auth", "reject") /\ UNCHANGED errors
     \/ MainStep("auth", "reject") /\ ErrorOccurred("auth_error")
  /\ UNCHANGED <<timer, worker, text, chunks, client, ws>>

(* run() returns, or the send or the close raises out of it.               *)
Reject ==
  LET m == IF errors = {} THEN Notice("auth_error") ELSE Error("auth_error")
  IN  MainSend("reject", m, "ended", "ended")

(* auth_ok is sent, the first worker created and the session timer armed.  *)
AuthOk ==
  /\ mpc = "authOk"
  /\ \/ /\ Write(Notice("auth_ok"))
        /\ mpc' = "recv" /\ timer' = "armed" /\ cur' = 1
        /\ wpc' = [wpc EXCEPT ![1] = "new"]
     \/ SendRaises /\ mpc' = "ended" /\ UNCHANGED <<timer, cur, wpc>>
  /\ UNCHANGED <<aborted, msgs, wcancel, job, text, chunks, errors>>

(* receive_text() refuses to work once a send of either task has failed:   *)
(* back at its top, the loop then ends with the sentinel.                  *)
LoopTop == IF ws = "failed" THEN "putEnd" ELSE "recv"

(* A message within the client's budget.                                   *)
ReceiveCounted == mpc = "recv" /\ msgs < MaxMsgs /\ msgs' = msgs + 1

(* Segments are put one after another without suspension.  The one that    *)
(* does not fit makes _put report queue_full, and the rest is lost.        *)
PutAll(segs, next) ==
  LET room == QMax - Len(queue)
      n    == IF Len(segs) <= room THEN Len(segs) ELSE room
  IN  /\ queue' = queue \o [i \in 1..n |-> segs[i]]
      /\ owed' = owed + n
      /\ \/ n = Len(segs) /\ mpc' = next /\ UNCHANGED errors
         \/ n < Len(segs) /\ mpc' = "full" /\ ErrorOccurred("queue_full")
      /\ UNCHANGED <<timer, cur, aborted, worker, epoch, chunks, client, ws>>

(* A token completes k segments, the first of which begins with what the   *)
(* buffer held, and may leave text behind.                                 *)
ReceiveToken ==
  /\ ReceiveCounted
  /\ \E k \in 0..MaxSegs, rest \in {None, epoch} :
       /\ buf' = IF k = 0 /\ buf # None THEN buf ELSE rest
       /\ PutAll([i \in 1..k |-> IF i = 1 /\ buf # None THEN buf ELSE epoch],
                 LoopTop)

Flushed == IF buf = None THEN <<>> ELSE <<buf>>

ReceiveFlush == ReceiveCounted /\ buf' = None /\ PutAll(Flushed, LoopTop)

ReceiveEnd ==
  /\ mpc = "recv" /\ buf' = None
  /\ PutAll(Flushed, "putEnd")
  /\ UNCHANGED msgs

(* receive_text() reads a disconnect ...                                   *)
ReceiveDisconnect ==
  /\ MainStep("auth", "reject") \/ MainStep("recv", "putEnd")
  /\ ws \in {"closed", "failed"} /\ ws' = "gone"
  /\ UNCHANGED <<timer, worker, text, chunks, client, errors>>

(* ... or a binary frame, which it cannot return.                          *)
ReceiveBinary ==
  /\ MainStep("recv", "putEnd")
  /\ UNCHANGED <<timer, worker, text, chunks, client, ws, errors>>

ReceiveMalformed ==
  /\ ReceiveCounted /\ mpc' = "parseErr"
  /\ ErrorOccurred("parse_error")
  /\ UNCHANGED <<timer, cur, aborted, worker, text, chunks, client, ws>>

SendParseError ==
  MainSend("parseErr", Error("parse_error"), LoopTop, "putEnd")

(* await queue.put(_SENTINEL) blocks while the queue is full.  The receive *)
(* loop then returns, which disarms the timer.  Mutations: the put does    *)
(* not respect the bound, or is left out.                                  *)
PutEnd_Unbounded ==
  /\ queue' = Append(queue, Sentinel)
  /\ MainStep("putEnd", "join") /\ timer' = "off"
  /\ UNCHANGED <<worker, buf, epoch, owed, chunks, client, ws, errors>>

PutEnd_Missing ==
  /\ MainStep("putEnd", "join") /\ timer' = "off"
  /\ UNCHANGED <<worker, text, chunks, client, ws, errors>>

PutEnd ==
  /\ Len(queue) < QMax
  /\ queue' = Append(queue, Sentinel)
  /\ MainStep("putEnd", "join") /\ timer' = "off"
  /\ UNCHANGED <<worker, buf, epoch, owed, chunks, client, ws, errors>>

(* _put gives up: it reports the error, then cancels and awaits the worker.*)
SendQueueFull ==
  MainSend("full", Error("queue_full"), "fullSent", "putEnd")

AbortPut ==
  /\ MainStep("fullSent", "fullJoin") /\ Cancel(cur)
  /\ UNCHANGED <<timer, wpc, job, text, chunks, client, ws, errors>>

PutAborted ==
  /\ MainStep("fullJoin", "join") /\ wpc[cur] = "dead" /\ timer' = "off"
  /\ UNCHANGED <<worker, text, chunks, client, ws, errors>>

(* The queue is drained and the accumulator flushed.  Mutation: it is not. *)
Discard_QueueOnly ==
  queue' = <<>> /\ UNCHANGED buf /\ epoch' = epoch + 1 /\ owed' = 0

Discard == queue' = <<>> /\ buf' = None /\ epoch' = epoch + 1 /\ owed' = 0

(* The second half of _handle_interrupt, once the old worker is over.      *)
Restart(id) ==
  /\ Discard
  /\ cur' = cur + 1
  /\ wpc' = [wpc EXCEPT ![cur + 1] = "new"]
  /\ mpc' = IF id = None THEN "intDone" ELSE "intAborted"
  /\ UNCHANGED wcancel

ReceiveInterrupt ==
  /\ mpc = "recv" /\ cur < MaxTasks
  /\ aborted' = current
  /\ \/ wpc[cur] = "dead" /\ Restart(current)
     \/ /\ wpc[cur] # "dead" /\ Cancel(cur) /\ mpc' = "intJoin"
        /\ UNCHANGED <<text, cur, wpc>>
  /\ UNCHANGED <<timer, msgs, job, chunks, client, ws, errors>>

(* Mutation: the worker is cancelled but not awaited.                      *)
WorkerJoined_AtOnce ==
  /\ mpc = "intJoin"
  /\ Restart(aborted)
  /\ UNCHANGED <<timer, aborted, msgs, job, chunks, client, ws, errors>>

WorkerJoined ==
  /\ mpc = "intJoin" /\ wpc[cur] = "dead"
  /\ Restart(aborted)
  /\ UNCHANGED <<timer, aborted, msgs, job, chunks, client, ws, errors>>

SendAborted ==
  MainSend("intAborted", Message("chunk_aborted", aborted, None),
           "abortSent", "abortSent")

CountAborted ==
  /\ MainStep("abortSent", "intDone") /\ ChunkFinished(aborted)
  /\ UNCHANGED <<timer, worker, text, current, client, ws, errors>>

SendInterrupted ==
  LET id == IF aborted = None THEN 0 ELSE aborted
  IN  MainSend("intDone", Message("interrupted", id, epoch), LoopTop, "putEnd")

(* The timer cancels the main task.  Suspended here, it leaves the loop... *)
Interruptible ==
  \/ mpc = "recv"
  \/ mpc = "putEnd" /\ Len(queue) = QMax
  \/ /\ mpc \in {"parseErr", "full", "fullSent",
                 "intAborted", "abortSent", "intDone"}
     /\ ws \in {"open", "closed"}

(* ... but awaiting the worker, it passes the cancel on to the worker and  *)
(* swallows the CancelledError.                                            *)
Timeout ==
  /\ "timeout" \in Events
  /\ timer = "armed" /\ timer' = "fired"
  /\ \/ /\ Interruptible /\ MainStep(mpc, "timeoutErr")
        /\ ErrorOccurred("session_timeout") /\ UNCHANGED wcancel
     \/ /\ mpc \in {"intJoin", "fullJoin"} /\ MainStep(mpc, mpc)
        /\ Cancel(cur) /\ UNCHANGED errors
  /\ UNCHANGED <<wpc, job, text, chunks, client, ws>>

(* If the send raises, run() awaits a worker that it did not cancel.       *)
SendTimeout ==
  MainSend("timeoutErr", Error("session_timeout"), "timeoutSent", "join")

CancelOnTimeout ==
  /\ MainStep("timeoutSent", "join") /\ Cancel(cur)
  /\ UNCHANGED <<timer, wpc, job, text, chunks, client, ws, errors>>

(* Mutation: run() returns without awaiting the worker.                    *)
Join_AtOnce ==
  /\ MainStep("join", "ended")
  /\ UNCHANGED <<timer, worker, text, chunks, client, ws, errors>>

Join ==
  /\ MainStep("join", "ended") /\ wpc[cur] = "dead"
  /\ UNCHANGED <<timer, worker, text, chunks, client, ws, errors>>

-----------------------------------------------------------------------------
(* The worker task *)

WorkerStep(t, from, to) ==
  /\ wpc[t] = from /\ ~wcancel[t]
  /\ wpc' = [wpc EXCEPT ![t] = to]
  /\ UNCHANGED <<main, wcancel, buf, epoch>>

Begin(t) ==
  /\ WorkerStep(t, "new", "get")
  /\ UNCHANGED <<job, queue, owed, chunks, client, ws, errors>>

(* queue.get() returns a segment: _synthesize_segment numbers its chunk... *)
TakeSegment(t) ==
  /\ queue # <<>> /\ Head(queue) # Sentinel
  /\ WorkerStep(t, "get", "start")
  /\ queue' = Tail(queue)
  /\ job' = [job EXCEPT ![t] = [chunk |-> chunkCounter, seg |-> Head(queue)]]
  /\ current' = chunkCounter /\ tally' = Append(tally, 0)
  /\ UNCHANGED <<owed, client, ws, errors>>

(* ... or the sentinel: the worker leaves its loop.                        *)
TakeSentinel(t) ==
  /\ queue # <<>> /\ Head(queue) = Sentinel
  /\ WorkerStep(t, "get", "done")
  /\ queue' = Tail(queue)
  /\ UNCHANGED <<job, owed, chunks, client, ws, errors>>

(* An exception leaves _synthesize_segment, whose finally clears the       *)
(* current chunk; the worker is about to report it.                        *)
SegmentFails(t, from) ==
  /\ WorkerStep(t, from, "err")
  /\ current' = None /\ ErrorOccurred("synthesis_error")
  /\ UNCHANGED <<job, queue, owed, tally>>

ChunkSend(t, from, m, to) ==
  \/ /\ WorkerStep(t, from, to) /\ Write(m)
     /\ UNCHANGED <<job, queue, owed, chunks, errors>>
  \/ SegmentFails(t, from) /\ SendRaises

StartChunk(t) ==
  ChunkSend(t, "start", Message("audio_start", job[t].chunk, job[t].seg), "synth")

SendFrame(t) ==
  /\ ws = "open" /\ Deliver(Message("frame", job[t].chunk, job[t].seg))
  /\ WorkerStep(t, "synth", "synth")
  /\ UNCHANGED <<job, queue, owed, chunks, ws, errors>>

(* send_bytes raises.  The chunk_aborted that follows cannot be written    *)
(* any more; the chunk is counted and the worker carries on.               *)
FrameLost(t) ==
  /\ ws # "open" /\ ws' = IF ws = "closed" THEN "failed" ELSE ws
  /\ WorkerStep(t, "synth", "get")
  /\ ChunkFinished(job[t].chunk) /\ current' = None
  /\ UNCHANGED <<job, queue, owed, client, errors>>

EngineFails(t) ==
  "crash" \in Events /\ SegmentFails(t, "synth") /\ UNCHANGED <<client, ws>>

EngineDone(t) ==
  /\ WorkerStep(t, "synth", "end")
  /\ UNCHANGED <<job, queue, owed, chunks, client, ws, errors>>

EndChunk(t) ==
  ChunkSend(t, "end", Message("audio_end", job[t].chunk, None), "endSent")

CountChunk(t) ==
  /\ WorkerStep(t, "endSent", "get")
  /\ ChunkFinished(job[t].chunk) /\ current' = None /\ owed' = owed - 1
  /\ UNCHANGED <<job, queue, client, ws, errors>>

(* The error report, then done from the worker's finally.                  *)
WorkerSend(t, from, m, to) ==
  /\ WorkerStep(t, from, to)
  /\ Write(m) \/ SendRaises
  /\ UNCHANGED <<job, queue, owed, chunks, errors>>

ReportFailure(t) == WorkerSend(t, "err", Error("synthesis_error"), "errSent")

GiveUp(t) ==
  /\ WorkerStep(t, "errSent", "done")
  /\ UNCHANGED <<job, queue, owed, chunks, client, ws, errors>>

SendDone(t) == WorkerSend(t, "done", Notice("done"), "dead")

(* CancelledError is raised.  A task that never ran, or that is already in *)
(* its last send, ends at once; any other runs its finally clauses.        *)
(* Mutation: the current chunk is not cleared.                             *)
Cancelled_KeepsChunk(t) ==
  /\ wcancel[t] /\ wcancel' = [wcancel EXCEPT ![t] = FALSE]
  /\ wpc' = [wpc EXCEPT ![t] = IF @ \in {"new", "done"} THEN "dead" ELSE "done"]
  /\ UNCHANGED <<main, job, text, chunks, client, ws, errors>>

Cancelled(t) ==
  /\ wcancel[t] /\ wcancel' = [wcancel EXCEPT ![t] = FALSE]
  /\ wpc' = [wpc EXCEPT ![t] = IF @ \in {"new", "done"} THEN "dead" ELSE "done"]
  /\ current' = IF wpc[t] \in {"start", "synth", "end", "endSent"}
                THEN None ELSE current
  /\ UNCHANGED <<main, job, text, tally, client, ws, errors>>

-----------------------------------------------------------------------------
PeerCloses ==
  /\ "close" \in Events
  /\ ws = "open" /\ mpc # "ended" /\ ws' = "closed"
  /\ UNCHANGED <<main, worker, text, chunks, client, errors>>

Terminated == mpc = "ended" /\ UNCHANGED vars

(* What the client decides, what the main task does on its own, and what a *)
(* worker does.                                                            *)
Receive == \/ Authenticate \/ ReceiveToken \/ ReceiveFlush \/ ReceiveEnd
           \/ ReceiveDisconnect \/ ReceiveBinary \/ ReceiveMalformed
           \/ ReceiveInterrupt
Proceed == \/ Reject \/ AuthOk \/ SendParseError \/ PutEnd
           \/ SendQueueFull \/ AbortPut \/ PutAborted
           \/ WorkerJoined \/ SendAborted \/ CountAborted \/ SendInterrupted
           \/ SendTimeout \/ CancelOnTimeout \/ Join
Work(t) == \/ Begin(t) \/ TakeSegment(t) \/ TakeSentinel(t) \/ StartChunk(t)
           \/ SendFrame(t) \/ FrameLost(t) \/ EngineFails(t) \/ EngineDone(t)
           \/ EndChunk(t) \/ CountChunk(t) \/ ReportFailure(t) \/ GiveUp(t)
           \/ SendDone(t) \/ Cancelled(t)

Next == \/ Receive \/ Proceed \/ Timeout \/ PeerCloses \/ Terminated
        \/ \E t \in Tasks : Work(t)

Spec == Init /\ [][Next]_vars

(* The event loop runs every ready coroutine, reads a disconnect and fires *)
(* an expired timer.  Sends complete: the peer reads, or has gone.  Audio  *)
(* of a segment ends.  The client owes the server no message.              *)
Fairness == /\ WF_vars(Proceed) /\ WF_vars(Timeout)
            /\ WF_vars(ReceiveDisconnect)
            /\ \A t \in Tasks : WF_vars(Work(t))

FairSpec == Spec /\ Fairness

-----------------------------------------------------------------------------
MainStates == {"auth", "reject", "authOk", "recv", "parseErr", "putEnd",
               "full", "fullSent", "fullJoin",
               "intJoin", "intAborted", "abortSent", "intDone",
               "timeoutErr", "timeoutSent", "join", "ended"}
WorkerStates == {"none", "new", "get", "start", "synth", "end", "endSent",
                 "err", "errSent", "done", "dead"}
ErrorCodes == {"auth_error", "parse_error", "queue_full", "session_timeout",
               "synthesis_error"}

(* Every variable has its type, and the queue never exceeds queue_maxsize, *)
(* the sentinel included.                                                  *)
TypeOK ==
  /\ mpc \in MainStates /\ timer \in {"off", "armed", "fired"}
  /\ cur \in 0..MaxTasks /\ aborted \in Nat \cup {None} /\ msgs \in 0..MaxMsgs
  /\ wpc \in [Tasks -> WorkerStates] /\ wcancel \in [Tasks -> BOOLEAN]
  /\ job \in [Tasks -> [chunk : Nat \cup {None}, seg : Nat \cup {None}]]
  /\ queue \in Seq(Nat \cup {Sentinel}) /\ Len(queue) <= QMax
  /\ buf \in Nat \cup {None} /\ epoch \in Nat /\ owed \in Int
  /\ current \in Nat \cup {None} /\ tally \in Seq(Nat)
  /\ ws \in SocketStates /\ errors \subseteq ErrorCodes
  /\ open \in Nat \cup {None} /\ heard \in Nat

Live(t) == wpc[t] \notin {"none", "dead"}

(* Two workers never run at once: _handle_interrupt and _put cancel and    *)
(* await the old one before anything replaces it, whatever else cancels it *)
(* meanwhile.                                                              *)
OneWorker == \A s, t \in Tasks : Live(s) /\ Live(t) => s = t

(* No text accepted before a barge-in is spoken after it, neither from the *)
(* queue, nor from the accumulator, nor by a worker that outlived it.      *)
NoStaleAudio ==
  [][out' # out /\ out'.type \in {"audio_start", "frame"} => out'.ep = epoch]_vars

(* The chunks whose count is still to come.                                *)
InFlight == {job[t].chunk : t \in {u \in Tasks :
                 wpc[u] \in {"start", "synth", "end", "endSent"}}}
            \cup (IF mpc \in {"intJoin", "intAborted", "abortSent"}
                  THEN {aborted} ELSE {})

(* Nothing went wrong: no error but malformed messages, the peer is there. *)
NoFault == ws = "open" /\ errors \subseteq {"parse_error"}

(* chunk_finished() is called once for every chunk: by the worker for one  *)
(* it completed, by the barge-in for the one it cut, never by both.        *)
ChunkCountedOnce ==
  \A c \in 0..(chunkCounter - 1) :
     /\ tally[c + 1] <= (IF c \in InFlight THEN 0 ELSE 1)
     /\ NoFault /\ c \notin InFlight => tally[c + 1] = 1

(* A session that ends without a fault has spoken every segment accepted   *)
(* since the last barge-in to its end, and done is its last message.       *)
DoneMeansSpoken ==
  mpc = "ended" /\ cur # 0 /\ NoFault => owed = 0 /\ open = None /\ out = Notice("done")

(* The wire follows the protocol of the chunk stream.                      *)
Stream == INSTANCE ChunkStream WITH last <- <<out.type, out.id>>
StreamProtocol == Stream!Spec

(* A barge-in is never stuck behind the worker it cancels.                 *)
InterruptCompletes == mpc = "intJoin" ~> mpc \in {"recv", "putEnd", "timeoutErr"}

(* The timer expired under a barge-in that awaits the worker, and is lost. *)
TimerSwallowed == timer = "fired" /\ mpc = "intJoin"

(* Its report raised, the peer having left: run() awaits an idle worker    *)
(* that it did not cancel.                                                 *)
WorkerOrphaned == /\ timer = "fired" /\ mpc = "join"
                  /\ wpc[cur] = "get" /\ ~wcancel[cur] /\ queue = <<>>

(* Whatever goes wrong, the session ends, unless one of these two occurs:  *)
(* no other state of the two coroutines is one they cannot leave.          *)
SessionEnds == timer = "armed" ~> mpc = "ended" \/ TimerSwallowed \/ WorkerOrphaned

(* README.md:289: if no end is received in time, the server "closes the    *)
(* connection": the timer bounds the session.                              *)
TimerEndsSession == timer = "armed" ~> mpc = "ended"

(* README.md:434: done is sent "in response to the client's end message".  *)
(* The worker that a barge-in cancels sends it too.                        *)
DoneAnswersEnd ==
  [][out' # out /\ out'.type = "done" => mpc \in {"putEnd", "join"}]_vars
=============================================================================
