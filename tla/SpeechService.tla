--------------------------- MODULE SpeechService ---------------------------
(***************************************************************************)
(* One request of the OpenAI-compatible API: POST /v1/audio/speech or GET  *)
(* /v1/voices, from FastAPI's validation to the end of the body.  The      *)
(* engine yields Chunks chunks of audio or fails; chunk i is the number i. *)
(* Of the encoder only its promise is here: a prefix of the audio in its   *)
(* order, and a clean end even when the engine failed.  SpeechResponses    *)
(* puts FfmpegStream in its place.                                         *)
(*                                                                         *)
(* Which model and voice a request resolves to changes no step, and is     *)
(* left out.                                                               *)
(***************************************************************************)
EXTENDS Integers, Sequences, SequencesExt

CONSTANT Chunks (* chunks the engine yields for the request's text *)

(* mp3, opus, aac and flac differ in the arguments that ffmpeg is given.   *)
Formats == {"pcm", "wav", "ffmpeg"}

(* What decides a request's way: what FastAPI finds wrong with the body,   *)
(* if anything; whether the Authorization header has a bearer token, and   *)
(* what the provider says of it; whether the input is only whitespace; and *)
(* app.state.ffmpeg_available.                                             *)
Requests ==
  [route: {"speech"}, body: {"valid", "field", "structure"},
   token: {"missing", "accepted", "refused", "unknown"}, blank: BOOLEAN,
   format: Formats, stream: BOOLEAN, ffmpeg: BOOLEAN]
  \cup
  [route: {"voices"}, body: {"valid"}, token: {"missing", "accepted", "refused", "unknown"},
   blank: {FALSE}, format: {"pcm"}, stream: {FALSE}, ffmpeg: {TRUE}]

VARIABLES
  req,      \* the request
  pc,       \* the handler's next step
  status,   \* the HTTP status sent, 0 before
  envelope, \* the body is an ErrorResponse
  pulled,   \* chunks the engine has yielded
  engine,   \* engine_stream: idle, live, ended, failed
  part,     \* the bytes collected so far in buffered mode
  header,   \* the response's WAV header, with its data size if it has one
  sent,     \* the chunks in the response's body
  end       \* how the body ended: none, clean, broken, left

vars == <<req, pc, status, envelope, pulled, engine, part, header, sent, end>>
audio == <<pulled, engine, part>>

NoHeader == [kind |-> "none", size |-> 0]
Sentinel == [kind |-> "unknown", size |-> 0]
Sized(n) == [kind |-> "exact", size |-> n]

Init ==
  /\ req \in Requests /\ pc = "parse"
  /\ status = 0 /\ envelope = FALSE
  /\ pulled = 0 /\ engine = "idle" /\ part = <<>>
  /\ header = NoHeader /\ sent = <<>> /\ end = "none"

-----------------------------------------------------------------------------
(* Answers *)

Goto(step) == pc' = step /\ UNCHANGED <<req, status, envelope, audio, header, sent, end>>

Answer(code, enveloped) ==
  /\ pc' = "done" /\ status' = code /\ envelope' = enveloped /\ end' = "clean"
  /\ UNCHANGED req

Plain(code) == Answer(code, FALSE) /\ UNCHANGED <<header, sent, audio>>
Refuse(code) == Answer(code, TRUE) /\ UNCHANGED <<header, sent, audio>>

-----------------------------------------------------------------------------
(* The handler up to the audio *)

(* FastAPI validates the body before the handler runs; a violated field    *)
(* gets the envelope, any other fault FastAPI's own 422.                   *)
Validate ==
  /\ pc = "parse"
  /\ \/ req.body = "valid" /\ Goto("auth")
     \/ req.body = "field" /\ Refuse(400)
     \/ req.body = "structure" /\ Plain(422)

(* Mutation: a provider that fails lets the request pass.                  *)
Authenticate_Open ==
  /\ pc = "auth"
  /\ \/ req.token \in {"missing", "refused"} /\ Refuse(401)
     \/ req.token \in {"accepted", "unknown"} /\ Goto("input")

Authenticate ==
  /\ pc = "auth"
  /\ \/ req.token \in {"missing", "refused"} /\ Refuse(401)
     \/ req.token = "unknown" /\ Refuse(500)
     \/ req.token = "accepted" /\ Goto("input")

CheckInput ==
  /\ pc = "input" /\ req.route = "speech"
  /\ IF req.blank THEN Refuse(400) ELSE Goto("encode")

ListVoices ==
  /\ pc = "input" /\ req.route = "voices"
  /\ Plain(200)

Encoded == req.format = "ffmpeg"

(* A streamed response sends its status before the first chunk is asked    *)
(* for.  Calling synthesize() only makes the generator: the `try' around   *)
(* the call has nothing to catch.                                          *)
OpenStream ==
  /\ pc = "encode"
  /\ \/ Encoded /\ ~req.ffmpeg /\ Refuse(503)
     \/ /\ Encoded => req.ffmpeg
        /\ engine' = "live"
        /\ IF req.stream
           THEN /\ pc' = "stream" /\ status' = 200
                /\ header' = IF req.format = "wav" THEN Sentinel ELSE NoHeader
           ELSE pc' = "collect" /\ UNCHANGED <<status, header>>
        /\ UNCHANGED <<req, envelope, pulled, part, sent, end>>

-----------------------------------------------------------------------------
(* The audio *)

(* The next chunk of the stream; an encoder may hand over several at once. *)
Yields ==
  /\ engine = "live" /\ pulled < Chunks
  /\ pulled' \in (pulled + 1)..(IF Encoded THEN Chunks ELSE pulled + 1)
  /\ UNCHANGED engine

Yielded == [i \in 1..(pulled' - pulled) |-> pulled + i]

EngineEnds == engine = "live" /\ pulled = Chunks /\ engine' = "ended"
EngineFails == engine = "live" /\ engine' = "failed"

(* The stream the service reads ends: with the engine's, or, for an ffmpeg *)
(* format, also when the engine fails or ffmpeg dies.                      *)
StreamEnds ==
  /\ EngineEnds \/ (Encoded /\ EngineFails) \/ (Encoded /\ engine' = "ended")
  /\ UNCHANGED pulled

(* It raises: the engine's exception, or ffmpeg could not be started.      *)
StreamRaises ==
  /\ (~Encoded /\ EngineFails) \/ (Encoded /\ pulled = 0 /\ engine' = "ended")
  /\ UNCHANGED pulled

Collect ==
  /\ pc = "collect" /\ Yields
  /\ part' = part \o Yielded
  /\ UNCHANGED <<req, pc, status, envelope, header, sent, end>>

(* Mutation: the header is built before the audio is collected.            *)
Deliver_Early ==
  /\ Answer(200, FALSE) /\ sent' = part
  /\ header' = IF req.format = "wav" THEN Sized(0) ELSE NoHeader

Deliver ==
  /\ Answer(200, FALSE) /\ sent' = part
  /\ header' = IF req.format = "wav" THEN Sized(Len(part)) ELSE NoHeader

(* Mutation: an engine that fails ends the collection like any other end.  *)
Collected_Partial ==
  /\ pc = "collect" /\ UNCHANGED part
  /\ StreamEnds \/ StreamRaises
  /\ Deliver

(* An exception of the stream meets no handler: a plain 500.               *)
Collected ==
  /\ pc = "collect" /\ UNCHANGED part
  /\ \/ StreamEnds /\ Deliver
     \/ StreamRaises /\ Answer(500, FALSE) /\ UNCHANGED <<header, sent>>

Send ==
  /\ pc = "stream" /\ Yields
  /\ sent' = sent \o Yielded
  /\ UNCHANGED <<req, pc, status, envelope, part, header, end>>

(* The status is sent: an exception only breaks the connection off.        *)
Streamed ==
  /\ pc = "stream" /\ pc' = "done"
  /\ \/ StreamEnds /\ end' = "clean"
     \/ StreamRaises /\ end' = "broken"
  /\ UNCHANGED <<req, status, envelope, part, header, sent>>

(* Only a streamed response watches for the client's disconnect; it drops  *)
(* the engine's stream.                                                    *)
Leaves ==
  /\ pc = "stream" /\ pc' = "done" /\ end' = "left"
  /\ engine' = "ended"
  /\ UNCHANGED <<req, status, envelope, pulled, part, header, sent>>

Terminated == pc = "done" /\ UNCHANGED vars

-----------------------------------------------------------------------------

Handle == Validate \/ Authenticate \/ CheckInput \/ ListVoices \/ OpenStream
Transmit == Collect \/ Collected \/ Send \/ Streamed

Next == Handle \/ Transmit \/ Leaves \/ Terminated

Spec == Init /\ [][Next]_vars

(* For the properties: a response with audio.                              *)
Speech == req.route = "speech" /\ status = 200
=============================================================================
