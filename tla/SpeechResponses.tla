--------------------------- MODULE SpeechResponses ---------------------------
(***************************************************************************)
(* POST /v1/audio/speech and GET /v1/voices as a whole: the handler of     *)
(* SpeechService with the encoder of FfmpegStream behind an ffmpeg format. *)
(* The response is either streamed, at the client's pace and until it      *)
(* leaves, or collected first, at no one's pace but the encoder's.         *)
(***************************************************************************)
EXTENDS FfmpegStream

VARIABLES
  req, pc, status, envelope, engine, part, header, sent, end,
  read     \* the chunks the handler has read from its stream

S == INSTANCE SpeechService WITH pulled <- read

encoder == <<gen, exit, feeder, stderr, pulled, ffmpeg, coding, owed, in,
             open, out, err, got, fault>>
handler == <<req, pc, status, envelope, engine, part, header, sent, end, read>>
system  == <<encoder, handler>>

SystemInit == Init /\ S!Init

-----------------------------------------------------------------------------
(* The encoder runs when the handler first asks it for a chunk, and goes   *)
(* on by itself; only what it yields, and its end, reach the handler.      *)
Encoding == pc \in {"collect", "stream"} /\ S!Encoded

Start == Encoding /\ (Spawn \/ SpawnRaises) /\ UNCHANGED handler

Run == /\ Feed \/ StdinLost \/ ReadStderr \/ Encode \/ SourceRaises \/ Crash
          \/ ReadOutput \/ ReadEOF \/ CancelChildren \/ Gather
       /\ UNCHANGED handler

(* Mutation: a chunk is sent in place of what was there.                   *)
Take_Latest ==
  /\ Encoding /\ Taken
  /\ read' = Len(got)
  /\ IF req.stream THEN sent' = SubSeq(got, read + 1, Len(got)) /\ UNCHANGED part
                   ELSE part' = SubSeq(got, read + 1, Len(got)) /\ UNCHANGED sent
  /\ UNCHANGED <<req, pc, status, envelope, engine, header, end>>

Take ==
  /\ Encoding /\ Taken
  /\ read' = Len(got)
  /\ IF req.stream THEN sent' = got /\ UNCHANGED part
                   ELSE part' = got /\ UNCHANGED sent
  /\ UNCHANGED <<req, pc, status, envelope, engine, header, end>>

(* The generator is over: it has no more, or it never started ffmpeg.      *)
EncoderEnds ==
  /\ Encoding /\ gen = "ended"
  /\ engine' = IF fault = "source" THEN "failed" ELSE "ended"
  /\ \/ pc = "collect" /\ exit = "eof" /\ S!Deliver
     \/ pc = "collect" /\ exit = "raised" /\ S!Answer(500, FALSE)
        /\ UNCHANGED <<header, sent>>
     \/ /\ pc = "stream" /\ pc' = "done"
        /\ end' = IF exit = "eof" THEN "clean" ELSE "broken"
        /\ UNCHANGED <<req, status, envelope, header, sent>>
  /\ UNCHANGED <<part, read, encoder>>

(* The client of a streamed response leaves, and takes the encoder along.  *)
Leave ==
  /\ S!Leaves
  /\ IF Encoding /\ gen # "ended" THEN LeaveReading \/ LeaveYielding
                                  ELSE UNCHANGED encoder

(* Everything else is the handler's own.                                   *)
Handle == S!Handle /\ UNCHANGED encoder
Transmit == ~S!Encoded /\ S!Transmit /\ UNCHANGED encoder

SystemTerminated ==
  /\ pc = "done" /\ gen \in {"start", "ended"}
  /\ ffmpeg \in {"none", "dead"} /\ in = <<>>
  /\ UNCHANGED system

SystemNext == Start \/ Run \/ Take \/ EncoderEnds \/ Leave
              \/ Handle \/ Transmit \/ SystemTerminated

(* The parts of the encoder go on as in FfmpegStream, the handler when it  *)
(* can, and the engine yields or ends.                                     *)
SystemFairness ==
  /\ WF_system(Start) /\ WF_system(Take) /\ WF_system(EncoderEnds)
  /\ WF_system(Feed /\ UNCHANGED handler)
  /\ WF_system(StdinLost /\ UNCHANGED handler)
  /\ WF_system(ReadStderr /\ UNCHANGED handler)
  /\ WF_system(Encode /\ UNCHANGED handler)
  /\ WF_system((ReadOutput \/ ReadEOF \/ CancelChildren \/ Gather) /\ UNCHANGED handler)
  /\ WF_system(Handle) /\ WF_system(Transmit)

System == SystemInit /\ [][SystemNext]_system /\ SystemFairness

-----------------------------------------------------------------------------
(* The encoder keeps what SpeechService takes for granted of it, whatever  *)
(* fails: the response as a whole is one of SpeechService's.               *)
ServiceKept == S!Spec

(* Neither the engine nor ffmpeg is put to work, and no voice list is      *)
(* given, without a token that the provider has accepted.                  *)
AudioNeedsToken ==
  engine # "idle" \/ ffmpeg # "none" \/ status = 200 => req.token = "accepted"

(* A WAV body has one header, and it tells the body's true size when the   *)
(* response was buffered and no size when it was not.                      *)
HeaderExact ==
  S!Speech => header = IF req.format # "wav" THEN S!NoHeader
                       ELSE IF req.stream THEN S!Sentinel ELSE S!Sized(Len(sent))

(* A body that ends cleanly has all of the audio.  Only an ffmpeg format   *)
(* can hide that the engine or ffmpeg failed on the way.                   *)
CleanMeansComplete ==
  S!Speech /\ end = "clean" => sent = Source \/ (S!Encoded /\ fault # "none")

(* With the client there and the engine going on every request is answered *)
(* to the end: nobody waits on a full pipe for ever.                       *)
ResponseEnds == <>(pc = "done")
=============================================================================
