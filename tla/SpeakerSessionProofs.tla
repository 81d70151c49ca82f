------------------------ MODULE SpeakerSessionProofs ------------------------
(***************************************************************************)
(* Theorems about SpeakerSession for every queue size, client and number   *)
(* of barge-ins, with every fault of the environment: its types, its       *)
(* worker tasks, and the epoch of what is left to speak.  Each part of the *)
(* inductive invariant is inductive relative to those proved before it.    *)
(***************************************************************************)
EXTENDS SpeakerSessionInv, SequenceTheorems, TLAPS

USE BoundsAssumption, NoneAssumption

-----------------------------------------------------------------------------
(* Lemmas on the operators the actions are built from.                     *)

(* The client's view after a message.                                      *)
LEMMA DeliverType ==
  ASSUME TypeOK, NEW m, Deliver(m),
         m.type \in {"audio_start", "chunk_aborted"} => m.id \in Nat
  PROVE  open' \in Nat \cup {None} /\ heard' \in Nat
BY DEF Deliver, TypeOK

(* A write that returns leaves the client's view typed ...                 *)
LEMMA WriteType ==
  ASSUME TypeOK, NEW m, Write(m),
         m.type \in {"audio_start", "chunk_aborted"} => m.id \in Nat
  PROVE  open' \in Nat \cup {None} /\ heard' \in Nat /\ ws' \in SocketStates
BY DeliverType DEF Write, TypeOK, client

(* ... and so does one that raises.                                        *)
LEMMA RaiseType ==
  ASSUME TypeOK, SendRaises
  PROVE  open' \in Nat \cup {None} /\ heard' \in Nat /\ ws' \in SocketStates
BY DEF SendRaises, TypeOK, client, SocketStates

(* A send of the main task moves it and touches nothing but the client.    *)
Sent(from, to) ==
  /\ mpc = from /\ mpc' \in to
  /\ UNCHANGED <<timer, cur, aborted, msgs, wpc, wcancel, job, queue, buf, epoch,
                 owed, current, tally, errors>>
  /\ open' \in Nat \cup {None} /\ heard' \in Nat /\ ws' \in SocketStates

(* Every send of the main task is of that kind.                            *)
LEMMA MainSendEffect ==
  ASSUME TypeOK, NEW from, NEW m, NEW returned, NEW raised,
         MainSend(from, m, returned, raised),
         m.type \in {"audio_start", "chunk_aborted"} => m.id \in Nat
  PROVE  Sent(from, {returned, raised})
BY WriteType, RaiseType DEF MainSend, MainStep, worker, text, chunks, Sent

(* Putting segments keeps the bound of the queue.                          *)
Put(to) ==
  /\ queue' \in Seq(Nat \cup {Sentinel}) /\ Len(queue') <= QMax
  /\ owed' \in Int /\ errors' \subseteq ErrorCodes
  /\ mpc' \in to
  /\ UNCHANGED <<timer, cur, aborted, wpc, wcancel, job, epoch, current, tally,
                 out, open, heard, ws>>

(* PutAll appends what fits, so that the queue stays within QMax.          *)
LEMMA PutAllEffect ==
  ASSUME TypeOK, NEW segs \in Seq(Nat), NEW next, PutAll(segs, next)
  PROVE  Put({next, "full"})
<1> DEFINE room == QMax - Len(queue)
           n    == IF Len(segs) <= room THEN Len(segs) ELSE room
           put  == [i \in 1..n |-> segs[i]]
<1>1. n \in Nat /\ n <= Len(segs) /\ n <= QMax - Len(queue)
  BY DEF TypeOK
<1>2. put \in Seq(Nat \cup {Sentinel}) /\ Len(put) = n
  BY <1>1
<1>3. queue' = queue \o put /\ owed' = owed + n
  BY DEF PutAll
<1>4. queue' \in Seq(Nat \cup {Sentinel}) /\ Len(queue') = Len(queue) + n
  BY <1>2, <1>3 DEF TypeOK
<1>5. errors' \subseteq ErrorCodes /\ mpc' \in {next, "full"}
  BY DEF PutAll, ErrorOccurred, ErrorCodes, TypeOK
<1>6. QED
  BY <1>1, <1>3, <1>4, <1>5 DEF Put, TypeOK, PutAll, worker, chunks, client

(* Counting a chunk keeps the number of chunks.                            *)
LEMMA ChunkFinishedEffect ==
  ASSUME TypeOK, NEW c \in ChunkIds, ChunkFinished(c)
  PROVE  /\ tally' \in Seq(Nat) /\ Len(tally') = Len(tally)
         /\ \A d \in ChunkIds : tally'[d + 1] = IF d = c THEN tally[c + 1] + 1 ELSE tally[d + 1]
<1>1. tally \in Seq(Nat) /\ c + 1 \in 1..Len(tally)
  BY DEF TypeOK, ChunkIds, chunkCounter
<1>2. tally' = [tally EXCEPT ![c + 1] = tally[c + 1] + 1]
  BY DEF ChunkFinished
<1>3. tally[c + 1] + 1 \in Nat
  BY <1>1
<1>4. QED
  BY <1>1, <1>2, <1>3, ExceptSeq DEF ChunkIds, chunkCounter

-----------------------------------------------------------------------------
(* Type correctness.                                                       *)

(* A new session is well typed.                                            *)
LEMMA TypeInit == Init => TypeInv
BY DEF Init, TypeInv, TypeOK, LocalInv, Tasks, MainStates, WorkerStates,
       SocketStates, Before, Speaking, ChunkIds, chunkCounter

(* Every step keeps the types, action by action.                           *)
LEMMA TypeStep == TypeInv /\ [Next]_vars => TypeInv'
<1> SUFFICES ASSUME TypeInv, [Next]_vars PROVE TypeInv'
  OBVIOUS
<1>0. TypeOK /\ LocalInv
  BY DEF TypeInv
<1>1. CASE Reject
  <2>1. Sent("reject", {"ended"})
    BY <1>0, <1>1, MainSendEffect
       DEF Reject, LoopTop, Sent, Notice, Error, Message
  <2>2. QED
    BY <1>0, <2>1 DEF Sent, TypeInv, TypeOK, LocalInv, ChunkIds, chunkCounter, Before,
         Speaking, Tasks, MainStates, WorkerStates
<1>2. CASE SendParseError
  <2>1. Sent("parseErr", {"recv", "putEnd"})
    BY <1>0, <1>2, MainSendEffect
       DEF SendParseError, LoopTop, Sent, Notice, Error, Message
  <2>2. QED
    BY <1>0, <2>1 DEF Sent, TypeInv, TypeOK, LocalInv, ChunkIds, chunkCounter, Before,
         Speaking, Tasks, MainStates, WorkerStates
<1>3. CASE SendQueueFull
  <2>1. Sent("full", {"fullSent", "putEnd"})
    BY <1>0, <1>3, MainSendEffect
       DEF SendQueueFull, LoopTop, Sent, Notice, Error, Message
  <2>2. QED
    BY <1>0, <2>1 DEF Sent, TypeInv, TypeOK, LocalInv, ChunkIds, chunkCounter, Before,
         Speaking, Tasks, MainStates, WorkerStates
<1>4. CASE SendAborted
  <2>1. aborted \in Nat
    BY <1>0, <1>4 DEF SendAborted, MainSend, MainStep, LocalInv, ChunkIds, chunkCounter, TypeOK
  <2>2. Sent("intAborted", {"abortSent"})
    BY <1>0, <1>4, <2>1, MainSendEffect DEF SendAborted, Sent, Message
  <2>3. QED
    BY <1>0, <2>2 DEF Sent, TypeInv, TypeOK, LocalInv, ChunkIds, chunkCounter, Before,
         Speaking, Tasks, MainStates, WorkerStates
<1>5. CASE SendInterrupted
  <2>1. Sent("intDone", {"recv", "putEnd"})
    BY <1>0, <1>5, MainSendEffect
       DEF SendInterrupted, LoopTop, Sent, Notice, Error, Message
  <2>2. QED
    BY <1>0, <2>1 DEF Sent, TypeInv, TypeOK, LocalInv, ChunkIds, chunkCounter, Before,
         Speaking, Tasks, MainStates, WorkerStates
<1>6. CASE SendTimeout
  <2>1. Sent("timeoutErr", {"timeoutSent", "join"})
    BY <1>0, <1>6, MainSendEffect
       DEF SendTimeout, LoopTop, Sent, Notice, Error, Message
  <2>2. QED
    BY <1>0, <2>1 DEF Sent, TypeInv, TypeOK, LocalInv, ChunkIds, chunkCounter, Before,
         Speaking, Tasks, MainStates, WorkerStates
<1>7. CASE ReceiveToken
  <2>1. PICK k \in 0..MaxSegs, rest \in {None, epoch} :
          /\ buf' = IF k = 0 /\ buf # None THEN buf ELSE rest
          /\ PutAll([i \in 1..k |-> IF i = 1 /\ buf # None THEN buf ELSE epoch],
                    LoopTop)
    BY <1>7 DEF ReceiveToken
  <2>2. [i \in 1..k |-> IF i = 1 /\ buf # None THEN buf ELSE epoch] \in Seq(Nat)
    BY <1>0 DEF TypeOK
  <2>3. Put({"recv", "putEnd", "full"})
    BY <1>0, <2>1, <2>2, PutAllEffect DEF LoopTop, Put
  <2>4. mpc = "recv" /\ msgs' \in 0..MaxMsgs /\ buf' \in Nat \cup {None}
    BY <1>0, <1>7, <2>1 DEF ReceiveToken, ReceiveCounted, TypeOK
  <2>5. QED
    BY <1>0, <2>3, <2>4 DEF Put, TypeInv, TypeOK, LocalInv, ChunkIds, chunkCounter, Before,
         Speaking, Tasks, MainStates, WorkerStates
<1>8. CASE ReceiveFlush
  <2>1. Flushed \in Seq(Nat)
    BY <1>0 DEF TypeOK, Flushed
  <2>3. Put({"recv", "putEnd", "full"})
    BY <1>0, <1>8, <2>1, PutAllEffect DEF ReceiveFlush, LoopTop, Put
  <2>4. mpc = "recv" /\ msgs' \in 0..MaxMsgs /\ buf' \in Nat \cup {None}
    BY <1>0, <1>8 DEF ReceiveFlush, ReceiveCounted, TypeOK
  <2>5. QED
    BY <1>0, <2>3, <2>4 DEF Put, TypeInv, TypeOK, LocalInv, ChunkIds, chunkCounter, Before,
         Speaking, Tasks, MainStates, WorkerStates
<1>9. CASE ReceiveEnd
  <2>1. Flushed \in Seq(Nat)
    BY <1>0 DEF TypeOK, Flushed
  <2>3. Put({"putEnd", "full"})
    BY <1>0, <1>9, <2>1, PutAllEffect DEF ReceiveEnd, LoopTop, Put
  <2>4. mpc = "recv" /\ msgs' \in 0..MaxMsgs /\ buf' \in Nat \cup {None}
    BY <1>0, <1>9 DEF ReceiveEnd, ReceiveCounted, TypeOK
  <2>5. QED
    BY <1>0, <2>3, <2>4 DEF Put, TypeInv, TypeOK, LocalInv, ChunkIds, chunkCounter, Before,
         Speaking, Tasks, MainStates, WorkerStates
<1>10. CASE Authenticate
  BY <1>0, <1>10 DEF Authenticate, MainStep, main, worker, text, chunks, client,
     ErrorOccurred, ErrorCodes, TypeInv, TypeOK, LocalInv, ChunkIds, chunkCounter, Before,
         Speaking, Tasks, MainStates, WorkerStates
<1>11. CASE ReceiveDisconnect
  BY <1>0, <1>11 DEF ReceiveDisconnect, MainStep, main, worker, text, chunks, client,
     SocketStates, TypeInv, TypeOK, LocalInv, ChunkIds, chunkCounter, Before,
         Speaking, Tasks, MainStates, WorkerStates
<1>12. CASE ReceiveBinary
  BY <1>0, <1>12 DEF ReceiveBinary, MainStep, main, worker, text, chunks, client,
     TypeInv, TypeOK, LocalInv, ChunkIds, chunkCounter, Before,
         Speaking, Tasks, MainStates, WorkerStates
<1>13. CASE ReceiveMalformed
  BY <1>0, <1>13 DEF ReceiveMalformed, MainStep, main, worker, text, chunks, client,
     ReceiveCounted, ErrorOccurred, ErrorCodes, TypeInv, TypeOK, LocalInv, ChunkIds, chunkCounter, Before,
         Speaking, Tasks, MainStates, WorkerStates
<1>14. CASE ReceiveInterrupt
  <2>1. /\ mpc = "recv" /\ cur < MaxTasks /\ aborted' = current
        /\ UNCHANGED <<timer, msgs, job, current, tally, out, open, heard, ws, errors>>
    BY <1>14 DEF ReceiveInterrupt, chunks, client
  <2>2. CASE Restart(current)
    BY <1>0, <2>1, <2>2 DEF Restart, Discard, TypeInv, TypeOK, LocalInv, ChunkIds, chunkCounter, Before,
         Speaking, Tasks, MainStates, WorkerStates
  <2>3. CASE Cancel(cur) /\ mpc' = "intJoin" /\ UNCHANGED <<text, cur, wpc>>
    BY <1>0, <2>1, <2>3 DEF Cancel, text, TypeInv, TypeOK, LocalInv, ChunkIds, chunkCounter, Before,
         Speaking, Tasks, MainStates, WorkerStates
  <2>4. QED
    BY <1>14, <2>2, <2>3 DEF ReceiveInterrupt
<1>15. CASE PutEnd
  BY <1>0, <1>15 DEF PutEnd, MainStep, main, worker, text, chunks, client,
     TypeInv, TypeOK, LocalInv, ChunkIds, chunkCounter, Before,
         Speaking, Tasks, MainStates, WorkerStates
<1>16. CASE AbortPut
  BY <1>0, <1>16 DEF AbortPut, MainStep, main, worker, text, chunks, client,
     Cancel, TypeInv, TypeOK, LocalInv, ChunkIds, chunkCounter, Before,
         Speaking, Tasks, MainStates, WorkerStates
<1>17. CASE PutAborted
  BY <1>0, <1>17 DEF PutAborted, MainStep, main, worker, text, chunks, client,
     TypeInv, TypeOK, LocalInv, ChunkIds, chunkCounter, Before,
         Speaking, Tasks, MainStates, WorkerStates
<1>18. CASE WorkerJoined
  BY <1>0, <1>18 DEF WorkerJoined, MainStep, main, worker, text, chunks, client,
     Restart, Discard, TypeInv, TypeOK, LocalInv, ChunkIds, chunkCounter, Before,
         Speaking, Tasks, MainStates, WorkerStates
<1>19. CASE Timeout
  BY <1>0, <1>19 DEF Timeout, MainStep, main, worker, text, chunks, client,
     Interruptible, Cancel, ErrorOccurred, ErrorCodes, TypeInv, TypeOK, LocalInv, ChunkIds, chunkCounter, Before,
         Speaking, Tasks, MainStates, WorkerStates
<1>20. CASE CancelOnTimeout
  BY <1>0, <1>20 DEF CancelOnTimeout, MainStep, main, worker, text, chunks, client,
     Cancel, TypeInv, TypeOK, LocalInv, ChunkIds, chunkCounter, Before,
         Speaking, Tasks, MainStates, WorkerStates
<1>21. CASE Join
  BY <1>0, <1>21 DEF Join, MainStep, main, worker, text, chunks, client,
     TypeInv, TypeOK, LocalInv, ChunkIds, chunkCounter, Before,
         Speaking, Tasks, MainStates, WorkerStates
<1>22. CASE PeerCloses
  BY <1>0, <1>22 DEF PeerCloses, MainStep, main, worker, text, chunks, client,
     SocketStates, TypeInv, TypeOK, LocalInv, ChunkIds, chunkCounter, Before,
         Speaking, Tasks, MainStates, WorkerStates
<1>23. CASE Terminated
  BY <1>0, <1>23 DEF Terminated, MainStep, main, worker, text, chunks, client,
     vars, TypeInv, TypeOK, LocalInv, ChunkIds, chunkCounter, Before,
         Speaking, Tasks, MainStates, WorkerStates
<1>24. CASE AuthOk
  <2>1. open' \in Nat \cup {None} /\ heard' \in Nat /\ ws' \in SocketStates
    BY <1>0, <1>24, WriteType, RaiseType DEF AuthOk, Notice, Message
  <2>2. /\ mpc = "authOk"
        /\ UNCHANGED <<aborted, msgs, wcancel, job, queue, buf, epoch, owed, current,
                       tally, errors>>
    BY <1>24 DEF AuthOk, text, chunks
  <2>3. CASE /\ mpc' = "recv" /\ timer' = "armed" /\ cur' = 1
             /\ wpc' = [wpc EXCEPT ![1] = "new"]
    BY <1>0, <2>1, <2>2, <2>3 DEF TypeInv, TypeOK, LocalInv, ChunkIds, chunkCounter, Before,
         Speaking, Tasks, MainStates, WorkerStates
  <2>4. CASE mpc' = "ended" /\ UNCHANGED <<timer, cur, wpc>>
    BY <1>0, <2>1, <2>2, <2>4 DEF TypeInv, TypeOK, LocalInv, ChunkIds, chunkCounter, Before,
         Speaking, Tasks, MainStates, WorkerStates
  <2>5. QED
    BY <1>24, <2>3, <2>4 DEF AuthOk
<1>25. CASE CountAborted
  <2>1. tally' \in Seq(Nat) /\ Len(tally') = Len(tally)
    BY <1>0, <1>25, ChunkFinishedEffect DEF CountAborted, MainStep, LocalInv
  <2>2. QED
    BY <1>0, <1>25, <2>1 DEF CountAborted, MainStep, worker, text, client,
         TypeInv, TypeOK, LocalInv, ChunkIds, chunkCounter, Before,
         Speaking, Tasks, MainStates, WorkerStates
<1>26. ASSUME NEW t \in Tasks, Begin(t) PROVE TypeInv'
  BY <1>0, <1>26 DEF Begin, WorkerStep, main, chunks, client,
     TypeInv, TypeOK, LocalInv, ChunkIds, chunkCounter, Before,
         Speaking, Tasks, MainStates, WorkerStates
<1>27. ASSUME NEW t \in Tasks, TakeSentinel(t) PROVE TypeInv'
  BY <1>0, <1>27 DEF TakeSentinel, WorkerStep, main, chunks, client,
     TypeInv, TypeOK, LocalInv, ChunkIds, chunkCounter, Before,
         Speaking, Tasks, MainStates, WorkerStates
<1>28. ASSUME NEW t \in Tasks, EngineDone(t) PROVE TypeInv'
  BY <1>0, <1>28 DEF EngineDone, WorkerStep, main, chunks, client,
     TypeInv, TypeOK, LocalInv, ChunkIds, chunkCounter, Before,
         Speaking, Tasks, MainStates, WorkerStates
<1>29. ASSUME NEW t \in Tasks, GiveUp(t) PROVE TypeInv'
  BY <1>0, <1>29 DEF GiveUp, WorkerStep, main, chunks, client,
     TypeInv, TypeOK, LocalInv, ChunkIds, chunkCounter, Before,
         Speaking, Tasks, MainStates, WorkerStates
<1>30. ASSUME NEW t \in Tasks, EngineFails(t) PROVE TypeInv'
  BY <1>0, <1>30 DEF EngineFails, WorkerStep, main, chunks, client,
     SegmentFails, ErrorOccurred, ErrorCodes, TypeInv, TypeOK, LocalInv, ChunkIds, chunkCounter, Before,
         Speaking, Tasks, MainStates, WorkerStates
<1>31. ASSUME NEW t \in Tasks, Cancelled(t) PROVE TypeInv'
  BY <1>0, <1>31 DEF Cancelled, main, text, client,
     TypeInv, TypeOK, LocalInv, ChunkIds, chunkCounter, Before,
         Speaking, Tasks, MainStates, WorkerStates
<1>32. ASSUME NEW t \in Tasks, TakeSegment(t) PROVE TypeInv'
  <2>1. Head(queue) \in Nat /\ queue' \in Seq(Nat \cup {Sentinel}) /\ Len(queue') <= QMax
    BY <1>0, <1>32 DEF TakeSegment, TypeOK
  <2>2. tally' \in Seq(Nat) /\ Len(tally') = Len(tally) + 1
    BY <1>0, <1>32 DEF TakeSegment, TypeOK
  <2>3. /\ wpc' = [wpc EXCEPT ![t] = "start"]
        /\ job' = [job EXCEPT ![t] = [chunk |-> Len(tally), seg |-> Head(queue)]]
        /\ current' = Len(tally)
        /\ UNCHANGED <<mpc, timer, cur, aborted, msgs, wcancel, buf, epoch, owed, out,
                       open, heard, ws, errors>>
    BY <1>32 DEF TakeSegment, WorkerStep, main, client, chunkCounter
  <2>4. Len(tally) \in Nat /\ (\A c \in ChunkIds : c \in ChunkIds') /\ Len(tally) \in ChunkIds'
    BY <1>0, <2>2 DEF TypeOK, ChunkIds, chunkCounter
  <2>5. job' \in [Tasks -> [chunk : Nat \cup {None}, seg : Nat \cup {None}]]
    BY <1>0, <2>1, <2>3, <2>4 DEF TypeOK
  <2>6. wpc' \in [Tasks -> WorkerStates]
    BY <1>0, <2>3 DEF TypeOK, WorkerStates
  <2>7. TypeOK'
    BY <1>0, <2>1, <2>2, <2>3, <2>4, <2>5, <2>6 DEF TypeOK
  <2>8. ASSUME NEW u \in Tasks, wpc'[u] \in Speaking
        PROVE  job'[u].chunk \in ChunkIds' /\ job'[u].seg \in Nat
    <3>1. CASE u = t
      BY <1>0, <2>1, <2>3, <2>4, <3>1 DEF TypeOK
    <3>2. CASE u # t
      BY <1>0, <2>3, <2>4, <2>8, <3>2 DEF TypeOK, LocalInv
    <3>3. QED
      BY <3>1, <3>2
  <2>9. LocalInv'
    BY <1>0, <2>3, <2>4, <2>8 DEF LocalInv, Before, Tasks
  <2>10. QED
    BY <2>7, <2>9 DEF TypeInv
<1>33. ASSUME NEW t \in Tasks, StartChunk(t) PROVE TypeInv'
  <2>1. /\ open' \in Nat \cup {None} /\ heard' \in Nat /\ ws' \in SocketStates
        /\ wpc[t] = "start" /\ wpc' = [wpc EXCEPT ![t] = wpc'[t]]
        /\ wpc'[t] \in {"synth", "err"} /\ errors' \subseteq ErrorCodes
        /\ current' \in {current, None}
        /\ UNCHANGED <<mpc, timer, cur, aborted, msgs, wcancel, job, queue, buf, epoch,
                       owed, tally>>
    <3>1. CASE /\ WorkerStep(t, "start", "synth")
               /\ Write(Message("audio_start", job[t].chunk, job[t].seg))
               /\ UNCHANGED <<job, queue, owed, chunks, errors>>
      <4>1. wpc[t] = "start"
        BY <3>1 DEF WorkerStep
      <4>2. job[t].chunk \in Nat
        BY <1>0, <4>1 DEF LocalInv, Speaking, ChunkIds, chunkCounter, TypeOK
      <4>3. open' \in Nat \cup {None} /\ heard' \in Nat /\ ws' \in SocketStates
        BY <1>0, <3>1, <4>2, WriteType DEF Message
      <4>4. QED
        BY <1>0, <3>1, <4>3 DEF WorkerStep, main, chunks, TypeOK
    <3>2. CASE SegmentFails(t, "start") /\ SendRaises
      <4>1. open' \in Nat \cup {None} /\ heard' \in Nat /\ ws' \in SocketStates
        BY <1>0, <3>2, RaiseType
      <4>2. QED
        BY <1>0, <3>2, <4>1 DEF SegmentFails, WorkerStep, ErrorOccurred, ErrorCodes, main, TypeOK
    <3>3. QED
      BY <1>33, <3>1, <3>2 DEF StartChunk, ChunkSend
  <2>2. TypeOK'
    BY <1>0, <2>1 DEF TypeOK, Tasks, WorkerStates
  <2>3. LocalInv'
    <3>1. \A u \in Tasks : wpc'[u] \in Speaking => job'[u].chunk \in ChunkIds' /\ job'[u].seg \in Nat
      BY <1>0, <2>1 DEF LocalInv, ChunkIds, chunkCounter,
         Before, Speaking, TypeOK, Tasks
    <3>2. QED
      BY <1>0, <3>1, <2>1 DEF LocalInv, ChunkIds, chunkCounter,
         Before, Speaking, TypeOK, Tasks
  <2>4. QED
    BY <2>2, <2>3 DEF TypeInv
<1>34. ASSUME NEW t \in Tasks, EndChunk(t) PROVE TypeInv'
  <2>1. /\ open' \in Nat \cup {None} /\ heard' \in Nat /\ ws' \in SocketStates
        /\ wpc[t] = "end" /\ wpc' = [wpc EXCEPT ![t] = wpc'[t]]
        /\ wpc'[t] \in {"endSent", "err"} /\ errors' \subseteq ErrorCodes
        /\ current' \in {current, None}
        /\ UNCHANGED <<mpc, timer, cur, aborted, msgs, wcancel, job, queue, buf, epoch,
                       owed, tally>>
    <3>1. CASE /\ WorkerStep(t, "end", "endSent")
               /\ Write(Message("audio_end", job[t].chunk, None))
               /\ UNCHANGED <<job, queue, owed, chunks, errors>>
      <4>1. wpc[t] = "end"
        BY <3>1 DEF WorkerStep
      <4>2. job[t].chunk \in Nat
        BY <1>0, <4>1 DEF LocalInv, Speaking, ChunkIds, chunkCounter, TypeOK
      <4>3. open' \in Nat \cup {None} /\ heard' \in Nat /\ ws' \in SocketStates
        BY <1>0, <3>1, <4>2, WriteType DEF Message
      <4>4. QED
        BY <1>0, <3>1, <4>3 DEF WorkerStep, main, chunks, TypeOK
    <3>2. CASE SegmentFails(t, "end") /\ SendRaises
      <4>1. open' \in Nat \cup {None} /\ heard' \in Nat /\ ws' \in SocketStates
        BY <1>0, <3>2, RaiseType
      <4>2. QED
        BY <1>0, <3>2, <4>1 DEF SegmentFails, WorkerStep, ErrorOccurred, ErrorCodes, main, TypeOK
    <3>3. QED
      BY <1>34, <3>1, <3>2 DEF EndChunk, ChunkSend
  <2>2. TypeOK'
    BY <1>0, <2>1 DEF TypeOK, Tasks, WorkerStates
  <2>3. LocalInv'
    <3>1. \A u \in Tasks : wpc'[u] \in Speaking => job'[u].chunk \in ChunkIds' /\ job'[u].seg \in Nat
      BY <1>0, <2>1 DEF LocalInv, ChunkIds, chunkCounter,
         Before, Speaking, TypeOK, Tasks
    <3>2. QED
      BY <1>0, <3>1, <2>1 DEF LocalInv, ChunkIds, chunkCounter,
         Before, Speaking, TypeOK, Tasks
  <2>4. QED
    BY <2>2, <2>3 DEF TypeInv
<1>35. ASSUME NEW t \in Tasks, SendFrame(t) PROVE TypeInv'
  <2>1. open' \in Nat \cup {None} /\ heard' \in Nat
    BY <1>0, <1>35, DeliverType DEF SendFrame, Message
  <2>2. QED
    BY <1>0, <1>35, <2>1 DEF SendFrame, WorkerStep, main, chunks,
         TypeInv, TypeOK, LocalInv, ChunkIds, chunkCounter, Before,
         Speaking, Tasks, MainStates, WorkerStates
<1>36. ASSUME NEW t \in Tasks, FrameLost(t) PROVE TypeInv'
  <2>1. job[t].chunk \in ChunkIds
    BY <1>0, <1>36 DEF FrameLost, WorkerStep, LocalInv, Speaking
  <2>2. tally' \in Seq(Nat) /\ Len(tally') = Len(tally)
    BY <1>0, <1>36, <2>1, ChunkFinishedEffect DEF FrameLost
  <2>3. TypeOK'
    BY <1>0, <1>36, <2>2 DEF FrameLost, WorkerStep, main, client, SocketStates, TypeOK, Tasks, WorkerStates
  <2>4. LocalInv'
    <3>1. \A u \in Tasks : wpc'[u] \in Speaking => job'[u].chunk \in ChunkIds' /\ job'[u].seg \in Nat
      BY <1>0, <1>36, <2>2 DEF FrameLost, WorkerStep, main, client, SocketStates, LocalInv, ChunkIds, chunkCounter,
         Before, Speaking, TypeOK, Tasks
    <3>2. QED
      BY <1>0, <3>1, <1>36, <2>2 DEF FrameLost, WorkerStep, main, client, SocketStates, LocalInv, ChunkIds, chunkCounter,
         Before, Speaking, TypeOK, Tasks
  <2>5. QED
    BY <2>3, <2>4 DEF TypeInv
<1>37. ASSUME NEW t \in Tasks, CountChunk(t) PROVE TypeInv'
  <2>1. job[t].chunk \in ChunkIds
    BY <1>0, <1>37 DEF CountChunk, WorkerStep, LocalInv, Speaking
  <2>2. tally' \in Seq(Nat) /\ Len(tally') = Len(tally)
    BY <1>0, <1>37, <2>1, ChunkFinishedEffect DEF CountChunk
  <2>3. QED
    BY <1>0, <1>37, <2>2 DEF CountChunk, WorkerStep, main, client, SocketStates,
         TypeInv, TypeOK, LocalInv, ChunkIds, chunkCounter, Before,
         Speaking, Tasks, MainStates, WorkerStates
<1>38. ASSUME NEW t \in Tasks, ReportFailure(t) PROVE TypeInv'
  <2>1. open' \in Nat \cup {None} /\ heard' \in Nat /\ ws' \in SocketStates
    BY <1>0, <1>38, WriteType, RaiseType DEF ReportFailure, WorkerSend, Error, Notice, Message
  <2>2. QED
    BY <1>0, <1>38, <2>1 DEF ReportFailure, WorkerSend, WorkerStep, main, chunks,
         TypeInv, TypeOK, LocalInv, ChunkIds, chunkCounter, Before,
         Speaking, Tasks, MainStates, WorkerStates
<1>39. ASSUME NEW t \in Tasks, SendDone(t) PROVE TypeInv'
  <2>1. open' \in Nat \cup {None} /\ heard' \in Nat /\ ws' \in SocketStates
    BY <1>0, <1>39, WriteType, RaiseType DEF SendDone, WorkerSend, Error, Notice, Message
  <2>2. QED
    BY <1>0, <1>39, <2>1 DEF SendDone, WorkerSend, WorkerStep, main, chunks,
         TypeInv, TypeOK, LocalInv, ChunkIds, chunkCounter, Before,
         Speaking, Tasks, MainStates, WorkerStates
<1>40. CASE UNCHANGED vars
  BY <1>0, <1>40 DEF vars, main, worker, text, chunks, client,
     TypeInv, TypeOK, LocalInv, ChunkIds, chunkCounter, Before,
         Speaking, Tasks, MainStates, WorkerStates
<1>41. QED
  BY <1>1, <1>2, <1>3, <1>4, <1>5, <1>6, <1>7, <1>8, <1>9, <1>10, <1>11, <1>12, <1>13, <1>14, <1>15, <1>16, <1>17, <1>18, <1>19, <1>20, <1>21, <1>22, <1>23, <1>24, <1>25, <1>26, <1>27, <1>28, <1>29, <1>30, <1>31, <1>32, <1>33, <1>34, <1>35, <1>36, <1>37, <1>38, <1>39, <1>40
     DEF Next, Receive, Proceed, Work

(* Every reachable state is well typed, and the locals are what they are   *)
(* expected to be.                                                         *)
THEOREM TypeCorrect == Spec => []TypeInv
<1>1. Init => TypeInv
  BY TypeInit
<1>2. TypeInv /\ [Next]_vars => TypeInv'
  BY TypeStep
<1>3. QED
  BY <1>1, <1>2, PTL DEF Spec

(* Every variable of the session has its type, and the queue is never      *)
(* longer than queue_maxsize, the sentinel included (session.py, _put and  *)
(* the end of _receive_loop).                                              *)
THEOREM TypeOKCorrect == Spec => []TypeOK
<1>1. TypeInv => TypeOK
  BY DEF TypeInv
<1>2. QED
  BY <1>1, TypeCorrect, PTL

-----------------------------------------------------------------------------
(* Tasks                                                                   *)

Created == /\ cur + 1 \in Tasks
           /\ cur \in Tasks => wpc[cur] = "dead"
           /\ cur' = cur + 1 /\ wpc' = [wpc EXCEPT ![cur + 1] = "new"]
           /\ UNCHANGED wcancel

CurCancelled == cur \in Tasks /\ Cancel(cur) /\ UNCHANGED <<cur, wpc>>

Moved(t) == /\ Live(t) /\ ~wcancel[t]
            /\ \E to \in WorkerStates \ {"none"} : wpc' = [wpc EXCEPT ![t] = to]
            /\ UNCHANGED <<cur, wcancel>>

(* What a step may do to the worker tasks: create one in place of a dead   *)
(* one, cancel the current one, or let one run.                            *)
LEMMA TaskEffect ==
  ASSUME TypeInv, [Next]_vars
  PROVE  \/ UNCHANGED <<cur, wpc, wcancel>>
         \/ Created
         \/ CurCancelled
         \/ \E t \in Tasks : Moved(t) \/ Cancelled(t)
<1>0. cur \in 0..MaxTasks /\ LocalInv
  BY DEF TypeInv, TypeOK
<1>1. CASE AuthOk
  <2>1. cur = 0 /\ 1 \in Tasks
    BY <1>0, <1>1 DEF AuthOk, LocalInv, Before, Tasks
  <2>2. QED
    BY <1>1, <2>1 DEF AuthOk, Created, Tasks
<1>2. CASE ReceiveInterrupt
  <2>1. cur \in Tasks /\ cur + 1 \in Tasks
    BY <1>0, <1>2 DEF ReceiveInterrupt, LocalInv, Before, Tasks
  <2>2. QED
    BY <1>2, <2>1 DEF ReceiveInterrupt, Restart, Created, CurCancelled
<1>3. CASE WorkerJoined
  <2>1. cur \in Tasks /\ cur + 1 \in Tasks
    BY <1>0, <1>3 DEF WorkerJoined, LocalInv, Before, Tasks
  <2>2. QED
    BY <1>3, <2>1 DEF WorkerJoined, Restart, Created
<1>4. CASE AbortPut \/ CancelOnTimeout
  BY <1>0, <1>4 DEF AbortPut, CancelOnTimeout, MainStep, CurCancelled, LocalInv, Before
<1>5. CASE Timeout
  BY <1>0, <1>5 DEF Timeout, MainStep, CurCancelled, LocalInv, Before
<1>6. CASE PutEnd \/ PutAborted \/ CountAborted \/ Join \/ Terminated \/ PeerCloses
           \/ UNCHANGED vars
  BY <1>6 DEF PutEnd, PutAborted, CountAborted, Join, Terminated, PeerCloses, MainStep,
              vars, main, worker
<1>7. CASE Reject \/ SendParseError \/ SendQueueFull \/ SendAborted
           \/ SendInterrupted \/ SendTimeout
  BY <1>7 DEF Reject, SendParseError, SendQueueFull, SendAborted, SendInterrupted,
              SendTimeout, MainSend, MainStep, worker
<1>8. CASE Authenticate \/ ReceiveDisconnect \/ ReceiveBinary \/ ReceiveMalformed
  BY <1>8 DEF Authenticate, ReceiveDisconnect, ReceiveBinary, ReceiveMalformed,
              MainStep, worker
<1>9. CASE ReceiveToken \/ ReceiveFlush \/ ReceiveEnd
  BY <1>9 DEF ReceiveToken, ReceiveFlush, ReceiveEnd, PutAll, worker
<1>10. ASSUME NEW t \in Tasks, Work(t) PROVE Moved(t) \/ Cancelled(t)
  BY <1>10 DEF Work, Begin, TakeSegment, TakeSentinel, StartChunk, SendFrame, FrameLost,
       EngineFails, EngineDone, EndChunk, CountChunk, ReportFailure, GiveUp, SendDone,
       ChunkSend, WorkerSend, SegmentFails, WorkerStep, main, Moved, Live, WorkerStates
<1>11. QED
  BY <1>1, <1>2, <1>3, <1>4, <1>5, <1>6, <1>7, <1>8, <1>9, <1>10
     DEF Next, Receive, Proceed

(* No task exists in a new session.                                        *)
LEMMA TaskInit == Init => TaskInv
BY DEF Init, TaskInv, Live, Tasks

(* The effects above keep TaskInv: a task is created only over a dead one. *)
LEMMA TaskStep == TypeInv /\ TaskInv /\ [Next]_vars => TaskInv'
<1> SUFFICES ASSUME TypeInv, TaskInv, [Next]_vars PROVE TaskInv'
  OBVIOUS
<1> USE DEF TaskInv, Live
<1>0. cur \in 0..MaxTasks /\ wpc \in [Tasks -> WorkerStates] /\ wcancel \in [Tasks -> BOOLEAN]
  BY DEF TypeInv, TypeOK
<1>1. CASE UNCHANGED <<cur, wpc, wcancel>>
  BY <1>1
<1>2. CASE Created
  BY <1>0, <1>2 DEF Created, Tasks
<1>3. CASE CurCancelled
  BY <1>0, <1>3 DEF CurCancelled, Cancel, Tasks
<1>4. ASSUME NEW t \in Tasks, Moved(t) PROVE TaskInv'
  BY <1>0, <1>4 DEF Moved
<1>5. ASSUME NEW t \in Tasks, Cancelled(t) PROVE TaskInv'
  BY <1>0, <1>5 DEF Cancelled, main
<1>6. QED
  BY <1>1, <1>2, <1>3, <1>4, <1>5, TaskEffect

(* Two workers never run at once (session.py, _handle_interrupt and _put). *)
THEOREM OneWorkerCorrect == Spec => []OneWorker
<1>1. Init => TypeInv /\ TaskInv
  BY TypeInit, TaskInit
<1>2. TypeInv /\ TaskInv /\ [Next]_vars => (TypeInv /\ TaskInv)'
  BY TypeStep, TaskStep
<1>3. TaskInv => OneWorker
  BY DEF TaskInv, OneWorker
<1>4. QED
  BY <1>1, <1>2, <1>3, PTL DEF Spec

-----------------------------------------------------------------------------
(* Epochs                                                                  *)

(* Segments put in the queue are of the epoch.                             *)
LEMMA PutEpoch ==
  ASSUME TypeOK, EpochInv, NEW segs \in Seq(Nat), NEW next, PutAll(segs, next),
         \A i \in 1..Len(segs) : segs[i] = epoch
  PROVE  \A i \in 1..Len(queue') : queue'[i] \in {epoch, Sentinel}
<1> DEFINE room == QMax - Len(queue)
           n    == IF Len(segs) <= room THEN Len(segs) ELSE room
           put  == [i \in 1..n |-> segs[i]]
<1>1. n \in Nat /\ n <= Len(segs)
  BY DEF TypeOK
<1>2. \A i \in 1..n : segs[i] = epoch
  BY <1>1
<1>3. epoch \in Nat \cup {Sentinel}
  BY DEF TypeOK
<1>4. put \in Seq(Nat \cup {Sentinel}) /\ Len(put) = n
  BY <1>1, <1>2, <1>3
<1>5. \A i \in 1..n : put[i] = epoch
  BY <1>1, <1>2
<1>6. queue' = queue \o put
  BY DEF PutAll
<1> HIDE DEF put, n
<1>7. QED
  BY <1>1, <1>4, <1>5, <1>6 DEF EpochInv, TypeOK

(* Texts and jobs are left alone, and no worker takes up a segment.        *)
TextKept == /\ UNCHANGED <<queue, buf, epoch>>
            /\ \A t \in Tasks : wpc'[t] \in Speaking => wpc[t] \in Speaking
                                                        /\ job'[t] = job[t]

(* Such a step keeps every epoch.                                          *)
LEMMA TextKeptEpoch == EpochInv /\ TextKept => EpochInv'
BY DEF TextKept, EpochInv

(* A restart leaves no text and no worker that speaks.                     *)
LEMMA RestartEpoch ==
  ASSUME TypeInv, TaskInv, cur \in Tasks, wpc[cur] = "dead", NEW id, Restart(id)
  PROVE  EpochInv'
BY DEF Restart, Discard, EpochInv, TaskInv, Live, Speaking, TypeInv, TypeOK, Tasks

(* A new session has no text.                                              *)
LEMMA EpochInit == Init => EpochInv
BY DEF Init, EpochInv, Speaking

(* Every step keeps texts and jobs in the current epoch.                   *)
LEMMA EpochStep ==
  TypeInv /\ TaskInv /\ EpochInv /\ [Next]_vars => EpochInv'
<1> SUFFICES ASSUME TypeInv, TaskInv, EpochInv, [Next]_vars PROVE EpochInv'
  OBVIOUS
<1>0. TypeOK /\ LocalInv
  BY DEF TypeInv
<1>1. CASE ReceiveToken
  <2>1. PICK k \in 0..MaxSegs, rest \in {None, epoch} :
          /\ buf' = IF k = 0 /\ buf # None THEN buf ELSE rest
          /\ PutAll([i \in 1..k |-> IF i = 1 /\ buf # None THEN buf ELSE epoch],
                    LoopTop)
    BY <1>1 DEF ReceiveToken
  <2> DEFINE segs == [i \in 1..k |-> IF i = 1 /\ buf # None THEN buf ELSE epoch]
  <2>2. segs \in Seq(Nat) /\ \A i \in 1..Len(segs) : segs[i] = epoch
    BY <1>0 DEF TypeOK, EpochInv
  <2>3. \A i \in 1..Len(queue') : queue'[i] \in {epoch, Sentinel}
    BY <1>0, <2>1, <2>2, PutEpoch
  <2>4. UNCHANGED <<epoch, wpc, job>> /\ buf' \in {None, epoch}
    BY <2>1 DEF PutAll, worker, EpochInv
  <2>5. QED
    BY <2>3, <2>4 DEF EpochInv
<1>2. CASE ReceiveFlush \/ ReceiveEnd
  <2>1. Flushed \in Seq(Nat) /\ \A i \in 1..Len(Flushed) : Flushed[i] = epoch
    BY <1>0 DEF TypeOK, EpochInv, Flushed
  <2>2. \A i \in 1..Len(queue') : queue'[i] \in {epoch, Sentinel}
    BY <1>0, <1>2, <2>1, PutEpoch DEF ReceiveFlush, ReceiveEnd
  <2>3. UNCHANGED <<epoch, wpc, job>> /\ buf' = None
    BY <1>2 DEF ReceiveFlush, ReceiveEnd, PutAll, worker
  <2>4. QED
    BY <2>2, <2>3 DEF EpochInv
<1>3. CASE ReceiveInterrupt
  <2>1. cur \in Tasks
    BY <1>0, <1>3 DEF ReceiveInterrupt, LocalInv, Before
  <2>2. CASE wpc[cur] = "dead" /\ Restart(current)
    BY <2>1, <2>2, RestartEpoch
  <2>3. CASE UNCHANGED <<text, cur, wpc>>
    BY <1>3, <2>3, TextKeptEpoch DEF ReceiveInterrupt, TextKept, text
  <2>4. QED
    BY <1>3, <2>2, <2>3 DEF ReceiveInterrupt
<1>4. CASE WorkerJoined
  BY <1>0, <1>4, RestartEpoch DEF WorkerJoined, LocalInv, Before
<1>5. CASE PutEnd
  <2>1. queue' = Append(queue, Sentinel) /\ UNCHANGED <<buf, epoch, wpc, job>>
    BY <1>5 DEF PutEnd, worker
  <2>2. QED
    BY <1>0, <2>1 DEF EpochInv, TypeOK
<1>6. CASE AuthOk
  <2>1. UNCHANGED <<queue, buf, epoch, job>>
        /\ (wpc' = wpc \/ wpc' = [wpc EXCEPT ![1] = "new"])
    BY <1>6 DEF AuthOk, text
  <2>2. QED
    BY <1>0, <2>1, TextKeptEpoch DEF TextKept, Speaking, TypeOK
<1>7. CASE Timeout \/ PutAborted \/ CountAborted \/ Join \/ AbortPut \/ CancelOnTimeout
           \/ Terminated \/ PeerCloses \/ UNCHANGED vars
  BY <1>7, TextKeptEpoch
     DEF Timeout, PutAborted, CountAborted, Join, AbortPut, CancelOnTimeout, Terminated,
         PeerCloses, vars, worker, text, TextKept
<1>8. CASE Reject \/ SendParseError \/ SendQueueFull \/ SendAborted
           \/ SendInterrupted \/ SendTimeout
  BY <1>8, TextKeptEpoch
     DEF Reject, SendParseError, SendQueueFull, SendAborted, SendInterrupted,
         SendTimeout, MainSend, worker, text, TextKept
<1>9. CASE Authenticate \/ ReceiveDisconnect \/ ReceiveBinary \/ ReceiveMalformed
  BY <1>9, TextKeptEpoch
     DEF Authenticate, ReceiveDisconnect, ReceiveBinary, ReceiveMalformed, worker, text,
         TextKept
<1>10. ASSUME NEW t \in Tasks, TakeSegment(t) PROVE EpochInv'
  <2>1. queue # <<>> /\ Head(queue) # Sentinel /\ queue' = Tail(queue)
        /\ wpc' = [wpc EXCEPT ![t] = "start"]
        /\ job' = [job EXCEPT ![t] = [chunk |-> chunkCounter, seg |-> Head(queue)]]
        /\ UNCHANGED <<buf, epoch>>
    BY <1>10 DEF TakeSegment, WorkerStep
  <2>2. Head(queue) = epoch
    BY <1>0, <2>1 DEF EpochInv, TypeOK
  <2>3. \A i \in 1..Len(queue') : queue'[i] \in {epoch, Sentinel}
    BY <1>0, <2>1 DEF EpochInv, TypeOK
  <2>4. \A u \in Tasks : wpc'[u] \in Speaking => job'[u].seg = epoch
    BY <1>0, <2>1, <2>2 DEF EpochInv, TypeOK
  <2>5. QED
    BY <2>1, <2>3, <2>4 DEF EpochInv
<1>11. ASSUME NEW t \in Tasks, TakeSentinel(t) PROVE EpochInv'
  <2>1. queue # <<>> /\ queue' = Tail(queue) /\ UNCHANGED <<buf, epoch, job>>
        /\ wpc' = [wpc EXCEPT ![t] = "done"]
    BY <1>11 DEF TakeSentinel, WorkerStep
  <2>2. QED
    BY <1>0, <2>1 DEF EpochInv, TypeOK, Speaking
<1>12. ASSUME NEW t \in Tasks,
              Begin(t) \/ StartChunk(t) \/ SendFrame(t) \/ FrameLost(t)
              \/ EngineFails(t) \/ EngineDone(t) \/ EndChunk(t) \/ CountChunk(t)
              \/ ReportFailure(t) \/ GiveUp(t) \/ SendDone(t)
       PROVE  EpochInv'
  <2>1. UNCHANGED <<queue, buf, epoch, job>>
        /\ \E from, to \in WorkerStates :
             /\ wpc[t] = from /\ wpc' = [wpc EXCEPT ![t] = to]
             /\ to \in Speaking => from \in Speaking
    BY <1>12
       DEF Begin, StartChunk, SendFrame, FrameLost, EngineFails, EngineDone, EndChunk,
           CountChunk, ReportFailure, GiveUp, SendDone, ChunkSend, WorkerSend,
           SegmentFails, WorkerStep, WorkerStates, Speaking
  <2>2. TextKept
    BY <1>0, <2>1 DEF TextKept, TypeOK
  <2>3. QED
    BY <2>2, TextKeptEpoch
<1>13. ASSUME NEW t \in Tasks, Cancelled(t) PROVE EpochInv'
  BY <1>0, <1>13, TextKeptEpoch DEF Cancelled, text, TextKept, TypeOK, Speaking
<1>14. QED
  BY <1>1, <1>2, <1>3, <1>4, <1>5, <1>6, <1>7, <1>8, <1>9, <1>10, <1>11, <1>12, <1>13
     DEF Next, Receive, Proceed, Work

(* What is written is a chunk's start or frame of this epoch, or no audio. *)
LEMMA AudioStep ==
  ASSUME TypeInv, EpochInv, [Next]_vars
  PROVE  out' # out /\ out'.type \in {"audio_start", "frame"} => out'.ep = epoch
<1> DEFINE P == out' # out /\ out'.type \in {"audio_start", "frame"} => out'.ep = epoch
<1>1. ASSUME NEW m, Write(m), m.type \notin {"audio_start", "frame"} \/ m.ep = epoch
      PROVE  P
  BY <1>1 DEF Write, Deliver, client
<1>2. CASE UNCHANGED out
  BY <1>2
<1>3. CASE Reject \/ SendParseError \/ SendQueueFull \/ SendAborted
           \/ SendInterrupted \/ SendTimeout \/ AuthOk
  BY <1>1, <1>2, <1>3
     DEF Reject, SendParseError, SendQueueFull, SendAborted, SendInterrupted,
         SendTimeout, AuthOk, MainSend, SendRaises, client, Error, Notice, Message
<1>4. CASE PutEnd \/ AbortPut \/ PutAborted \/ WorkerJoined \/ CountAborted \/ Join
           \/ CancelOnTimeout \/ Timeout \/ PeerCloses \/ Terminated \/ UNCHANGED vars
  BY <1>4 DEF PutEnd, AbortPut, PutAborted, WorkerJoined, CountAborted, Join,
              CancelOnTimeout, Timeout, PeerCloses, Terminated, vars, client
<1>5. CASE Authenticate \/ ReceiveToken \/ ReceiveFlush \/ ReceiveEnd
           \/ ReceiveDisconnect \/ ReceiveBinary \/ ReceiveMalformed \/ ReceiveInterrupt
  BY <1>5 DEF Authenticate, ReceiveToken, ReceiveFlush, ReceiveEnd, ReceiveDisconnect,
              ReceiveBinary, ReceiveMalformed, ReceiveInterrupt, PutAll, client
<1>6. ASSUME NEW t \in Tasks, StartChunk(t) PROVE P
  <2>1. wpc[t] = "start"
    BY <1>6 DEF StartChunk, ChunkSend, WorkerStep, SegmentFails
  <2>2. job[t].seg = epoch
    BY <2>1 DEF EpochInv, Speaking
  <2>3. QED
    BY <1>1, <1>6, <2>2 DEF StartChunk, ChunkSend, SendRaises, client, Message
<1>7. ASSUME NEW t \in Tasks, SendFrame(t) PROVE P
  BY <1>7 DEF SendFrame, Deliver, WorkerStep, EpochInv, Speaking, Message
<1>8. ASSUME NEW t \in Tasks, EndChunk(t) \/ ReportFailure(t) \/ SendDone(t) PROVE P
  BY <1>1, <1>8 DEF EndChunk, ReportFailure, SendDone, ChunkSend, WorkerSend,
                    SendRaises, client, Error, Notice, Message
<1>9. ASSUME NEW t \in Tasks,
             Begin(t) \/ TakeSegment(t) \/ TakeSentinel(t) \/ FrameLost(t)
             \/ EngineFails(t) \/ EngineDone(t) \/ CountChunk(t) \/ GiveUp(t)
             \/ Cancelled(t)
      PROVE  P
  BY <1>9 DEF Begin, TakeSegment, TakeSentinel, FrameLost, EngineFails, EngineDone,
              CountChunk, GiveUp, Cancelled, client
<1>10. QED
  BY <1>3, <1>4, <1>5, <1>6, <1>7, <1>8, <1>9 DEF Next, Receive, Proceed, Work

(* No text accepted before a barge-in is spoken after it                   *)
(* (session.py, _handle_interrupt).                                        *)
THEOREM NoStaleAudioCorrect == Spec => NoStaleAudio
<1> DEFINE I == TypeInv /\ TaskInv /\ EpochInv
<1>1. Init => I
  BY TypeInit, TaskInit, EpochInit
<1>2. I /\ [Next]_vars => I'
  BY TypeStep, TaskStep, EpochStep
<1>3. I /\ [Next]_vars =>
        [out' # out /\ out'.type \in {"audio_start", "frame"} => out'.ep = epoch]_vars
  BY AudioStep
<1> HIDE DEF I
<1>4. QED
  BY <1>1, <1>2, <1>3, PTL DEF Spec, NoStaleAudio

=============================================================================
