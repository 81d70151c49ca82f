----------------------------- MODULE SpeakerApp -----------------------------
(***************************************************************************)
(* The process around the sessions: the lifespan hook, which loads the     *)
(* engines, starts the Wyoming server and releases both on shutdown, and   *)
(* the Wyoming server's connections, each a loop of its own over the one   *)
(* default engine.                                                         *)
(*                                                                         *)
(* The HTTP server serves between the two halves of the hook and has ended *)
(* its own connections before the second.  Loading is one step: nothing    *)
(* else runs in the process until the first await, which binds the port.   *)
(***************************************************************************)
EXTENDS Integers, Sequences, FiniteSets

CONSTANTS
  Models,    (* the discovered models, one engine each                     *)
  Default,   (* the one that Wyoming uses                                  *)
  Clients,   (* TCP connections to the Wyoming port                        *)
  MaxEvents, (* events a client sends                                      *)
  Chunks,    (* audio chunks of one synthesis                              *)
  AwaitConns (* BOOLEAN: wait_closed() awaits open connections, as of 3.12 *)

ASSUME AppAssumption ==
  /\ Default \in Models /\ IsFiniteSet(Clients)
  /\ MaxEvents \in Nat /\ Chunks \in Nat /\ AwaitConns \in BOOLEAN

VARIABLES
  phase,   \* of the lifespan: load, bind, normalizer, serve, stop, close, down, failed
  engines, \* each engine: absent, loaded, closed
  wyoming, \* app.state.wyoming_server: disabled, new, listening, closing, stopped
  pc,      \* a connection's handler: none, read, describe, start, chunk, close, end, gone
  left,    \* audio chunks the engine has still to yield to it
  queue,   \* the events on their way to it
  sends,   \* how many the client may still send
  peer,    \* the client's end: open, eof, reset
  result,  \* the handler's result: ok, error, client_close
  active,  \* the gauge SESSIONS_ACTIVE
  ended    \* the counter SESSIONS_TOTAL by result

vars == <<phase, engines, wyoming, pc, left, queue, sends, peer, result, active, ended>>
app == <<phase, engines, wyoming>>
client == <<queue, sends, peer>>
metrics == <<active, ended>>
handler == <<pc, left, result>>

Results == {"ok", "error", "client_close"}
Events == {"describe", "synthesize", "other", "garbage", "torn"}

Init ==
  /\ phase = "load" /\ engines = [m \in Models |-> "absent"]
  /\ wyoming \in {"disabled", "new"}
  /\ pc = [c \in Clients |-> "none"] /\ left = [c \in Clients |-> 0]
  /\ queue = [c \in Clients |-> <<>>] /\ sends = [c \in Clients |-> MaxEvents]
  /\ peer = [c \in Clients |-> "open"] /\ result = [c \in Clients |-> "ok"]
  /\ active = 0 /\ ended = [r \in Results |-> 0]

-----------------------------------------------------------------------------
(* The lifespan *)

Quiet == UNCHANGED <<handler, client, metrics>>

(* create_engine_registry and create_auth_provider.                        *)
Load ==
  /\ phase = "load" /\ UNCHANGED wyoming /\ Quiet
  /\ \/ phase' = "bind" /\ engines' = [m \in Models |-> "loaded"]
     \/ phase' = "failed" /\ UNCHANGED engines

(* WyomingServer.start(); the port may be taken.                           *)
Bind ==
  /\ phase = "bind" /\ UNCHANGED engines /\ Quiet
  /\ \/ wyoming = "disabled" /\ phase' = "normalizer" /\ UNCHANGED wyoming
     \/ wyoming = "new" /\ phase' = "normalizer" /\ wyoming' = "listening"
     \/ wyoming = "new" /\ phase' = "failed" /\ UNCHANGED wyoming

CreateNormalizer ==
  /\ phase = "normalizer" /\ phase' \in {"serve", "failed"}
  /\ UNCHANGED <<engines, wyoming>> /\ Quiet

Shutdown ==
  /\ phase = "serve" /\ UNCHANGED engines /\ Quiet
  /\ \/ wyoming = "disabled" /\ phase' = "close" /\ UNCHANGED wyoming
     \/ wyoming = "listening" /\ phase' = "stop" /\ wyoming' = "closing"

Open(c) == pc[c] \notin {"none", "end", "gone"}

(* Mutation: stop() closes the port and does not wait.                     *)
Stopped_AtOnce ==
  /\ phase = "stop" /\ phase' = "close" /\ wyoming' = "stopped"
  /\ UNCHANGED engines /\ Quiet

(* wait_closed() returns.                                                  *)
Stopped ==
  /\ phase = "stop"
  /\ AwaitConns => \A c \in Clients : ~Open(c)
  /\ phase' = "close" /\ wyoming' = "stopped"
  /\ UNCHANGED engines /\ Quiet

(* EngineRegistry.aclose(); no engine's aclose() has an await.             *)
CloseEngines ==
  /\ phase = "close" /\ phase' = "down"
  /\ engines' = [m \in Models |-> "closed"]
  /\ UNCHANGED wyoming /\ Quiet

-----------------------------------------------------------------------------
(* The clients *)

Accept(c) ==
  /\ wyoming = "listening" /\ pc[c] = "none"
  /\ pc' = [pc EXCEPT ![c] = "read"] /\ active' = active + 1
  /\ UNCHANGED <<app, left, result, client, ended>>

(* An event; `other' is one without an answer (empty text, unknown type),  *)
(* `garbage' is no JSON, `torn' ends before its announced length.          *)
Sends(c) ==
  /\ Open(c) /\ peer[c] = "open" /\ sends[c] > 0
  /\ \E e \in Events :
       /\ queue' = [queue EXCEPT ![c] = Append(@, e)]
       /\ sends' = [sends EXCEPT ![c] = IF e = "torn" THEN 0 ELSE @ - 1]
  /\ UNCHANGED <<app, handler, peer, metrics>>

ClientCloses(c) ==
  /\ Open(c) /\ peer[c] = "open"
  /\ peer' = [peer EXCEPT ![c] = "eof"]
  /\ UNCHANGED <<app, handler, queue, sends, metrics>>

ClientResets(c) ==
  /\ Open(c) /\ peer[c] # "reset"
  /\ peer' = [peer EXCEPT ![c] = "reset"]
  /\ UNCHANGED <<app, handler, queue, sends, metrics>>

-----------------------------------------------------------------------------
(* A connection's handler *)

Goto(c, step) == pc' = [pc EXCEPT ![c] = step]
Finish(c, how) == Goto(c, "close") /\ result' = [result EXCEPT ![c] = how]

(* The connection is lost: ConnectionResetError is the client's close,     *)
(* BrokenPipeError leaves the handler with the result as it is.            *)
Lost(c) == peer[c] = "reset" /\ \E how \in {"client_close", result[c]} : Finish(c, how)

Loaded == engines[Default] = "loaded"

(* Mutation: only a reset ends the loop.                                   *)
AtEnd_Reset(c) == peer[c] = "reset"

AtEnd(c) == queue[c] = <<>> /\ peer[c] = "eof"

(* read_event: what is no JSON escapes the handler; a torn event shows at  *)
(* the end of the stream.                                                  *)
ReadEvent(c) ==
  /\ pc[c] = "read"
  /\ \/ /\ queue[c] # <<>> /\ queue' = [queue EXCEPT ![c] = Tail(@)]
        /\ \/ Head(queue[c]) = "describe" /\ Goto(c, "describe") /\ UNCHANGED result
           \/ Head(queue[c]) = "synthesize" /\ Goto(c, "start") /\ UNCHANGED result
           \/ Head(queue[c]) = "other" /\ UNCHANGED <<pc, result>>
           \/ Head(queue[c]) = "garbage" /\ Finish(c, result[c])
           \/ Head(queue[c]) = "torn" /\ peer[c] = "eof" /\ Finish(c, "client_close")
     \/ AtEnd(c) /\ Finish(c, result[c]) /\ UNCHANGED queue
     \/ Lost(c) /\ UNCHANGED queue
  /\ UNCHANGED <<app, left, sends, peer, metrics>>

(* Only a loaded engine has voices to list; its AttributeError escapes.    *)
Describe(c) ==
  /\ pc[c] = "describe"
  /\ \/ Loaded /\ Goto(c, "read") /\ UNCHANGED result
     \/ ~Loaded /\ Finish(c, result[c])
     \/ Lost(c)
  /\ UNCHANGED <<app, left, client, metrics>>

(* Whatever _synthesize raises, a lost connection included, is logged, and *)
(* the handler reads on.                                                   *)
SynthesisFails(c) ==
  /\ pc[c] \in {"start", "chunk"}
  /\ Goto(c, "read") /\ result' = [result EXCEPT ![c] = "error"]
  /\ UNCHANGED <<app, left, client, metrics>>

StartAudio(c) ==
  /\ pc[c] = "start" /\ Loaded
  /\ Goto(c, "chunk") /\ left' = [left EXCEPT ![c] = Chunks]
  /\ UNCHANGED <<app, result, client, metrics>>

AudioChunk(c) ==
  /\ pc[c] = "chunk" /\ left[c] > 0
  /\ left' = [left EXCEPT ![c] = @ - 1]
  /\ UNCHANGED <<app, pc, result, client, metrics>>

StopAudio(c) ==
  /\ pc[c] = "chunk" /\ left[c] = 0
  /\ Goto(c, "read")
  /\ UNCHANGED <<app, left, result, client, metrics>>

(* Mutation: session_ended() is called here as well.                       *)
Close_Ends(c) ==
  /\ pc[c] = "close" /\ Goto(c, "end") /\ active' = active - 1
  /\ UNCHANGED <<app, left, result, client, ended>>

(* The writer is closed, whatever that raises.                             *)
Close(c) ==
  /\ pc[c] = "close" /\ Goto(c, "end")
  /\ UNCHANGED <<app, left, result, client, metrics>>

(* Mutation: session_ended() is called only when nothing went wrong.       *)
Ended_WhenOk(c) ==
  /\ pc[c] = "end" /\ Goto(c, "gone")
  /\ IF result[c] = "ok" THEN /\ active' = active - 1
                              /\ ended' = [ended EXCEPT !["ok"] = @ + 1]
                         ELSE UNCHANGED metrics
  /\ UNCHANGED <<app, left, result, client>>

Ended(c) ==
  /\ pc[c] = "end" /\ Goto(c, "gone")
  /\ active' = active - 1 /\ ended' = [ended EXCEPT ![result[c]] = @ + 1]
  /\ UNCHANGED <<app, left, result, client>>

-----------------------------------------------------------------------------

Lifespan == Load \/ Bind \/ CreateNormalizer \/ Stopped \/ CloseEngines
Handle(c) == ReadEvent(c) \/ Describe(c) \/ SynthesisFails(c) \/ StartAudio(c)
             \/ AudioChunk(c) \/ StopAudio(c) \/ Close(c) \/ Ended(c)
Client(c) == Accept(c) \/ Sends(c) \/ ClientCloses(c) \/ ClientResets(c)

Terminated ==
  /\ phase \in {"down", "failed"} /\ \A c \in Clients : ~Open(c) /\ pc[c] # "end"
  /\ UNCHANGED vars

Next ==
  \/ Lifespan \/ Shutdown \/ Terminated
  \/ \E c \in Clients : Handle(c) \/ Client(c)

Spec == Init /\ [][Next]_vars

(* The event loop runs every task that can go on; the engine yields, ends  *)
(* or raises; and a client closes its connection some day.                 *)
Fairness ==
  /\ WF_vars(Lifespan)
  /\ \A c \in Clients : WF_vars(Handle(c)) /\ WF_vars(ClientCloses(c))

FairSpec == Spec /\ Fairness

-----------------------------------------------------------------------------
(* Properties *)

(* Each variable holds a value of the code's.                              *)
TypeOK ==
  /\ phase \in {"load", "bind", "normalizer", "serve", "stop", "close", "down", "failed"}
  /\ engines \in [Models -> {"absent", "loaded", "closed"}]
  /\ wyoming \in {"disabled", "new", "listening", "closing", "stopped"}
  /\ pc \in [Clients -> {"none", "read", "describe", "start", "chunk", "close", "end", "gone"}]
  /\ left \in [Clients -> 0..Chunks] /\ sends \in [Clients -> 0..MaxEvents]
  /\ \A c \in Clients : Len(queue[c]) <= MaxEvents
  /\ peer \in [Clients -> {"open", "eof", "reset"}] /\ result \in [Clients -> Results]
  /\ active \in 0..Cardinality(Clients)
  /\ ended \in [Results -> 0..Cardinality(Clients)]

(* No engine is closed while a connection can still ask it for audio: the  *)
(* shutdown never shows up as a synthesis error.                           *)
EngineOutlivesConnections ==
  (\E m \in Models : engines[m] = "closed") => \A c \in Clients : ~Open(c)

(* The gauge counts the connections whose handler runs, and every handler  *)
(* that has ended is in the totals once, whatever it died of.              *)
MetricsBalance ==
  /\ active = Cardinality({c \in Clients : pc[c] \notin {"none", "gone"}})
  /\ ended["ok"] + ended["error"] + ended["client_close"]
       = Cardinality({c \in Clients : pc[c] = "gone"})

(* When every client closes in the end, a shutdown completes.              *)
ShutdownEnds == phase = "stop" ~> phase = "down"
=============================================================================
