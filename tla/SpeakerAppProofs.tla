-------------------------- MODULE SpeakerAppProofs --------------------------
(***************************************************************************)
(* Why no connection finds its engine closed: the lifespan closes engines  *)
(* only in its last phase, which it reaches after wait_closed(), and no    *)
(* connection is accepted once the server is closing.  And why every       *)
(* connection is counted out once: the books are kept by the handler's     *)
(* position alone.                                                         *)
(***************************************************************************)
EXTENDS SpeakerApp, FiniteSetTheorems, TLAPS

Steps == {"none", "read", "describe", "start", "chunk", "close", "end", "gone"}

(* How far the Wyoming server is in each phase of the lifespan.            *)
ServerInv ==
  /\ phase \in {"load", "bind"} => wyoming \in {"disabled", "new"}
  /\ phase \in {"normalizer", "serve"} => wyoming \in {"disabled", "listening"}
  /\ phase = "stop" => wyoming = "closing"
  /\ phase \in {"close", "down"} => wyoming \in {"disabled", "stopped"}
  /\ wyoming \in {"disabled", "new"} => \A c \in Clients : pc[c] = "none"

(* An engine is closed in the last phase only, and from the phase before   *)
(* it no connection is open.                                               *)
ClosedInv ==
  /\ (\E m \in Models : engines[m] = "closed") => phase = "down"
  /\ phase \in {"close", "down"} => \A c \in Clients : ~Open(c)

Inv ==
  /\ pc \in [Clients -> Steps]
  /\ phase \in {"load", "bind", "normalizer", "serve", "stop", "close", "down", "failed"}
  /\ ServerInv /\ ClosedInv

(* It holds initially.                                                     *)
LEMMA InvInit == Init => Inv
BY DEF Init, Inv, ServerInv, ClosedInv, Steps, Open

(* A step of the lifespan keeps it; stop() waits for the connections.      *)
LEMMA LifespanKeeps ==
  ASSUME AwaitConns, Inv, Lifespan \/ Shutdown
  PROVE  Inv'
<1>0. pc' = pc
  BY DEF Lifespan, Shutdown, Load, Bind, CreateNormalizer, Stopped, CloseEngines, Quiet, handler
<1>1. CASE Load
  BY <1>0, <1>1 DEF Inv, ServerInv, ClosedInv, Load, Open
<1>2. CASE Bind
  BY <1>0, <1>2 DEF Inv, ServerInv, ClosedInv, Bind, Open
<1>3. CASE CreateNormalizer
  BY <1>0, <1>3 DEF Inv, ServerInv, ClosedInv, CreateNormalizer, Open
<1>4. CASE Stopped
  BY <1>0, <1>4 DEF Inv, ServerInv, ClosedInv, Stopped, Open
<1>5. CASE CloseEngines
  BY <1>0, <1>5 DEF Inv, ServerInv, ClosedInv, CloseEngines, Open
<1>6. CASE Shutdown
  BY <1>0, <1>6 DEF Inv, ServerInv, ClosedInv, Shutdown, Open
<1> QED  BY <1>1, <1>2, <1>3, <1>4, <1>5, <1>6 DEF Lifespan

(* What a connection's step does to it: it is accepted while the server    *)
(* listens, moves on while it is open, or leaves the totals' books.        *)
LEMMA ConnectionEffect ==
  ASSUME Inv, NEW c \in Clients, Handle(c) \/ Client(c)
  PROVE  /\ UNCHANGED app
         /\ pc' \in [Clients -> Steps]
         /\ \A d \in Clients : d # c => pc'[d] = pc[d]
         /\ \/ pc'[c] = pc[c]
            \/ pc[c] = "none" /\ wyoming = "listening"
            \/ Open(c) /\ pc'[c] # "none"
            \/ pc[c] = "end" /\ pc'[c] = "gone"
<1>0. pc \in [Clients -> Steps]
  BY DEF Inv
<1>1. CASE Accept(c) \/ Sends(c) \/ ClientCloses(c) \/ ClientResets(c)
  BY <1>0, <1>1 DEF Accept, Sends, ClientCloses, ClientResets, handler, Steps
<1>2. CASE ReadEvent(c)
  BY <1>0, <1>2 DEF ReadEvent, Lost, Finish, Goto, Steps, Open
<1>3. CASE Describe(c) \/ SynthesisFails(c)
  BY <1>0, <1>3 DEF Describe, SynthesisFails, Lost, Finish, Goto, Steps, Open
<1>4. CASE StartAudio(c) \/ AudioChunk(c) \/ StopAudio(c)
  BY <1>0, <1>4 DEF StartAudio, AudioChunk, StopAudio, Goto, Steps, Open
<1>5. CASE Close(c) \/ Ended(c)
  BY <1>0, <1>5 DEF Close, Ended, Goto, Steps, Open
<1> QED  BY <1>1, <1>2, <1>3, <1>4, <1>5 DEF Handle, Client

(* So it keeps the invariant too.                                          *)
LEMMA ConnectionKeeps ==
  ASSUME Inv, NEW c \in Clients, Handle(c) \/ Client(c)
  PROVE  Inv'
<1>1. /\ UNCHANGED <<phase, engines, wyoming>>
      /\ pc' \in [Clients -> Steps]
      /\ \A d \in Clients : d # c => pc'[d] = pc[d]
      /\ \/ pc'[c] = pc[c]
         \/ pc[c] = "none" /\ wyoming = "listening"
         \/ Open(c) /\ pc'[c] # "none"
         \/ pc[c] = "end" /\ pc'[c] = "gone"
  BY ConnectionEffect DEF app
<1>2. ServerInv'
  BY <1>1 DEF Inv, ServerInv, Open
<1>3. ClosedInv'
  BY <1>1 DEF Inv, ServerInv, ClosedInv, Open
<1> QED  BY <1>1, <1>2, <1>3 DEF Inv

(* When stop() awaits the open connections (Python 3.12), no engine is     *)
(* closed while a connection can ask it for audio, for any number of       *)
(* clients, events and engines.                                            *)
THEOREM EngineOutlivesCorrect ==
  ASSUME AwaitConns
  PROVE  Spec => []EngineOutlivesConnections
<1>1. Init => Inv
  BY InvInit
<1>2. Inv /\ [Next]_vars => Inv'
  <2> SUFFICES ASSUME Inv, [Next]_vars  PROVE Inv'
    OBVIOUS
  <2>1. CASE Lifespan \/ Shutdown
    BY <2>1, LifespanKeeps
  <2>2. CASE \E c \in Clients : Handle(c) \/ Client(c)
    BY <2>2, ConnectionKeeps
  <2>3. CASE UNCHANGED vars
    BY <2>3 DEF vars, Inv, ServerInv, ClosedInv, Open
  <2> QED  BY <2>1, <2>2, <2>3 DEF Next, Terminated
<1>3. Inv => EngineOutlivesConnections
  BY DEF Inv, ClosedInv, EngineOutlivesConnections
<1> QED  BY <1>1, <1>2, <1>3, PTL DEF Spec
-----------------------------------------------------------------------------
(* The metrics.  _handle_connection counts its session at its start and    *)
(* once more at its end, on every way out of it.                           *)

Running == {c \in Clients : pc[c] \notin {"none", "gone"}}
Gone == {c \in Clients : pc[c] = "gone"}

(* What a client has on its way and what it may still send do not exceed   *)
(* its events together.                                                    *)
DataInv ==
  /\ pc \in [Clients -> Steps]
  /\ phase \in {"load", "bind", "normalizer", "serve", "stop", "close", "down", "failed"}
  /\ engines \in [Models -> {"absent", "loaded", "closed"}]
  /\ wyoming \in {"disabled", "new", "listening", "closing", "stopped"}
  /\ left \in [Clients -> 0..Chunks] /\ sends \in [Clients -> 0..MaxEvents]
  /\ queue \in [Clients -> Seq(Events)]
  /\ \A c \in Clients : Len(queue[c]) + sends[c] <= MaxEvents
  /\ peer \in [Clients -> {"open", "eof", "reset"}] /\ result \in [Clients -> Results]

BooksInv ==
  /\ active \in Nat /\ ended \in [Results -> Nat]
  /\ active = Cardinality(Running)
  /\ ended["ok"] + ended["error"] + ended["client_close"] = Cardinality(Gone)

(* Both hold initially.                                                    *)
LEMMA BooksInit == Init => DataInv /\ BooksInv
<1> SUFFICES ASSUME Init  PROVE DataInv /\ BooksInv
  OBVIOUS
<1>1. DataInv
  BY AppAssumption DEF Init, DataInv, Steps, Results
<1>2. Running = {} /\ Gone = {}
  BY DEF Init, Running, Gone
<1>3. BooksInv
  BY <1>2, FS_EmptySet DEF Init, BooksInv, Results
<1> QED  BY <1>1, <1>3

(* The lifespan touches no connection and no metric.                       *)
LEMMA LifespanBooks ==
  ASSUME DataInv, BooksInv, Lifespan \/ Shutdown
  PROVE  DataInv' /\ BooksInv'
<1>1. UNCHANGED <<pc, left, result, queue, sends, peer, active, ended>>
  BY DEF Lifespan, Shutdown, Load, Bind, CreateNormalizer, Stopped, CloseEngines, Quiet, handler,
         client, metrics
<1>2. /\ phase' \in {"load", "bind", "normalizer", "serve", "stop", "close", "down", "failed"}
      /\ engines' \in [Models -> {"absent", "loaded", "closed"}]
      /\ wyoming' \in {"disabled", "new", "listening", "closing", "stopped"}
  BY DEF Lifespan, Shutdown, Load, Bind, CreateNormalizer, Stopped, CloseEngines, DataInv
<1> QED  BY <1>1, <1>2 DEF DataInv, BooksInv, Running, Gone

(* A connection's step keeps its data in its bounds.                       *)
LEMMA ConnectionData ==
  ASSUME DataInv, NEW c \in Clients, Handle(c) \/ Client(c)
  PROVE  DataInv'
<1>0. MaxEvents \in Nat /\ Chunks \in Nat /\ result[c] \in Results /\ left[c] \in 0..Chunks
  BY AppAssumption DEF DataInv
<1>1. CASE Accept(c) \/ ClientCloses(c) \/ ClientResets(c)
  BY <1>0, <1>1 DEF DataInv, Accept, ClientCloses, ClientResets, app, handler, client, Steps
<1>2. CASE Sends(c)
  <2>1. PICK e \in Events :
          /\ queue' = [queue EXCEPT ![c] = Append(@, e)]
          /\ sends' = [sends EXCEPT ![c] = IF e = "torn" THEN 0 ELSE @ - 1]
    BY <1>2 DEF Sends
  <2>2. queue[c] \in Seq(Events) /\ sends[c] \in 1..MaxEvents
    BY <1>2 DEF Sends, DataInv
  <2>3. Append(queue[c], e) \in Seq(Events) /\ Len(Append(queue[c], e)) = Len(queue[c]) + 1
    BY <2>2
  <2>4. queue' \in [Clients -> Seq(Events)] /\ sends' \in [Clients -> 0..MaxEvents]
    BY <1>0, <2>1, <2>2, <2>3 DEF DataInv
  <2>5. ASSUME NEW d \in Clients
        PROVE  Len(queue'[d]) + sends'[d] <= MaxEvents
    BY <1>0, <2>1, <2>2, <2>3, <2>4 DEF DataInv
  <2> QED  BY <1>2, <2>4, <2>5 DEF Sends, DataInv, app, handler
<1>3. CASE ReadEvent(c)
  <2>1. /\ pc' = pc \/ \E s \in Steps : pc' = [pc EXCEPT ![c] = s]
        /\ result' = result \/ \E r \in Results : result' = [result EXCEPT ![c] = r]
    BY <1>3, <1>0 DEF ReadEvent, Lost, Finish, Goto, Steps, Results
  <2>2. \/ UNCHANGED queue
        \/ queue[c] # <<>> /\ queue' = [queue EXCEPT ![c] = Tail(queue[c])]
    BY <1>3 DEF ReadEvent
  <2>3. queue' \in [Clients -> Seq(Events)]
    <3>1. queue[c] \in Seq(Events)
      BY DEF DataInv
    <3>2. queue[c] # <<>> => Tail(queue[c]) \in Seq(Events)
      BY <3>1
    <3> QED  BY <2>2, <3>2 DEF DataInv
  <2>4. ASSUME NEW d \in Clients
        PROVE  Len(queue'[d]) <= Len(queue[d]) /\ Len(queue'[d]) \in Nat /\ Len(queue[d]) \in Nat
    BY <2>2, <2>3 DEF DataInv
  <2>5. UNCHANGED <<phase, engines, wyoming, left, sends, peer>>
    BY <1>3 DEF ReadEvent, app
  <2>6. \A d \in Clients : Len(queue'[d]) + sends'[d] <= MaxEvents
    BY <1>0, <2>4, <2>5 DEF DataInv
  <2> QED  BY <2>1, <2>3, <2>5, <2>6 DEF DataInv
<1>4. CASE Describe(c) \/ SynthesisFails(c)
  <2>1. /\ \E s \in Steps : pc' = [pc EXCEPT ![c] = s]
        /\ result' = result \/ \E r \in Results : result' = [result EXCEPT ![c] = r]
        /\ UNCHANGED <<app, left, client>>
    BY <1>4, <1>0
       DEF Describe, SynthesisFails, Lost, Finish, Goto, Steps, Results
  <2> QED  BY <2>1 DEF DataInv, app, client
<1>5. CASE StartAudio(c) \/ AudioChunk(c) \/ StopAudio(c)
  <2>1. /\ pc' = pc \/ \E s \in Steps : pc' = [pc EXCEPT ![c] = s]
        /\ left' = left \/ \E n \in 0..Chunks : left' = [left EXCEPT ![c] = n]
        /\ UNCHANGED <<app, result, client>>
    BY <1>0, <1>5 DEF StartAudio, AudioChunk, StopAudio, Goto, Steps
  <2> QED  BY <2>1 DEF DataInv, app, client
<1>6. CASE Close(c) \/ Ended(c)
  BY <1>0, <1>6 DEF DataInv, Close, Ended, Goto, app, client, Steps
<1> QED  BY <1>1, <1>2, <1>3, <1>4, <1>5, <1>6 DEF Handle, Client

(* How it enters the books: only Accept opens a session, only Ended ends   *)
(* one, and everything between keeps the connection among the running.     *)
LEMMA ConnectionBooks ==
  ASSUME DataInv, BooksInv, NEW c \in Clients, Handle(c) \/ Client(c)
  PROVE  BooksInv'
<1>0. /\ pc \in [Clients -> Steps] /\ result[c] \in Results
      /\ IsFiniteSet(Clients)
  BY AppAssumption DEF DataInv
<1>1. IsFiniteSet(Running) /\ IsFiniteSet(Gone)
  BY <1>0, FS_Subset DEF Running, Gone
<1>2. CASE Accept(c)
  <2>1. Running' = Running \cup {c} /\ c \notin Running /\ Gone' = Gone
    BY <1>0, <1>2 DEF Accept, Running, Gone
  <2>2. Cardinality(Running') = Cardinality(Running) + 1
    BY <1>1, <2>1, FS_AddElement
  <2> QED  BY <1>2, <2>1, <2>2 DEF Accept, BooksInv
<1>3. CASE Ended(c)
  <2>1. /\ Running' = Running \ {c} /\ c \in Running
        /\ Gone' = Gone \cup {c} /\ c \notin Gone
    BY <1>0, <1>3 DEF Ended, Goto, Running, Gone
  <2>2. /\ Cardinality(Running') = Cardinality(Running) - 1
        /\ Cardinality(Gone') = Cardinality(Gone) + 1
    BY <1>1, <2>1, FS_AddElement, FS_RemoveElement
  <2>3. Cardinality(Running') \in Nat
    BY <1>1, <2>1, FS_RemoveElement, FS_CardinalityType
  <2>4. /\ active' = active - 1
        /\ ended' = [ended EXCEPT ![result[c]] = @ + 1]
    BY <1>3 DEF Ended
  <2>5. active' = Cardinality(Running') /\ active' \in Nat
    BY <2>2, <2>3, <2>4 DEF BooksInv
  <2>6. /\ ended' \in [Results -> Nat]
        /\ ended'["ok"] + ended'["error"] + ended'["client_close"] = Cardinality(Gone')
    BY <1>0, <2>2, <2>4 DEF BooksInv, Results
  <2> QED  BY <2>5, <2>6 DEF BooksInv
<1>4. CASE (Handle(c) \/ Client(c)) /\ ~Accept(c) /\ ~Ended(c)
  <2>1. /\ UNCHANGED metrics
        /\ pc' = pc \/ (\E s \in Steps \ {"none", "gone"} :
                          pc[c] \notin {"none", "gone"} /\ pc' = [pc EXCEPT ![c] = s])
    <3>1. CASE Sends(c) \/ ClientCloses(c) \/ ClientResets(c)
      BY <3>1 DEF Sends, ClientCloses, ClientResets, handler
    <3>2. CASE ReadEvent(c)
      BY <3>2 DEF ReadEvent, Lost, Finish, Goto, Steps
    <3>3. CASE Describe(c) \/ SynthesisFails(c)
      BY <3>3 DEF Describe, SynthesisFails, Lost, Finish, Goto, Steps
    <3>4. CASE StartAudio(c) \/ AudioChunk(c) \/ StopAudio(c) \/ Close(c)
      BY <3>4 DEF StartAudio, AudioChunk, StopAudio, Close, Goto, Steps
    <3> QED  BY <1>4, <3>1, <3>2, <3>3, <3>4 DEF Handle, Client
  <2>2. Running' = Running /\ Gone' = Gone
    BY <1>0, <2>1 DEF Running, Gone, Steps
  <2> QED  BY <2>1, <2>2 DEF BooksInv, metrics
<1> QED  BY <1>2, <1>3, <1>4

(* Both hold in every state of every execution.                            *)
LEMMA BooksCorrect == Spec => [](DataInv /\ BooksInv)
<1>1. DataInv /\ BooksInv /\ [Next]_vars => (DataInv /\ BooksInv)'
  <2> SUFFICES ASSUME DataInv, BooksInv, [Next]_vars  PROVE DataInv' /\ BooksInv'
    OBVIOUS
  <2>1. CASE Lifespan \/ Shutdown
    BY <2>1, LifespanBooks
  <2>2. CASE \E c \in Clients : Handle(c) \/ Client(c)
    BY <2>2, ConnectionData, ConnectionBooks
  <2>3. CASE UNCHANGED vars
    BY <2>3 DEF vars, DataInv, BooksInv, Running, Gone
  <2> QED  BY <2>1, <2>2, <2>3 DEF Next, Terminated
<1> QED  BY <1>1, BooksInit, PTL DEF Spec

(* The gauge is the number of running handlers and the totals hold every   *)
(* ended one exactly once, for any number of clients and events: of the    *)
(* many ways a handler ends none skips or repeats session_ended().         *)
THEOREM MetricsBalanceCorrect == Spec => []MetricsBalance
<1>1. BooksInv => MetricsBalance
  BY DEF BooksInv, MetricsBalance, Running, Gone
<1> QED  BY <1>1, BooksCorrect, PTL

(* Every variable stays in its range, the gauge and the totals within the  *)
(* number of connections, the events within what a client sends.           *)
THEOREM TypeOKCorrect == Spec => []TypeOK
<1>1. DataInv /\ BooksInv => TypeOK
  <2> SUFFICES ASSUME DataInv, BooksInv  PROVE TypeOK
    OBVIOUS
  <2>1. /\ IsFiniteSet(Clients) /\ Cardinality(Clients) \in Nat
        /\ Cardinality(Running) \in Nat /\ Cardinality(Gone) \in Nat
        /\ Cardinality(Running) <= Cardinality(Clients)
        /\ Cardinality(Gone) <= Cardinality(Clients)
    BY AppAssumption, FS_Subset, FS_CardinalityType DEF Running, Gone
  <2>2. active \in 0..Cardinality(Clients)
    BY <2>1 DEF BooksInv
  <2>3. ended \in [Results -> 0..Cardinality(Clients)]
    BY <2>1 DEF BooksInv, Results
  <2>4. \A c \in Clients : Len(queue[c]) <= MaxEvents
    BY AppAssumption DEF DataInv
  <2> QED  BY <2>2, <2>3, <2>4 DEF DataInv, TypeOK, Steps
<1> QED  BY <1>1, BooksCorrect, PTL
=============================================================================
