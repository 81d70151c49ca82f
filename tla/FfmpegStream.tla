---------------------------- MODULE FfmpegStream ----------------------------
(***************************************************************************)
(* One encoded response of POST /v1/audio/speech (_ffmpeg_stream and the   *)
(* four generators around it).  A feeder task copies the engine's chunks   *)
(* into ffmpeg's stdin, a second task reads its stderr, and the generator  *)
(* yields what it reads from stdout, whose pace the client sets.  All      *)
(* three pipes are bounded.  Chunk i of the source is the number i, and    *)
(* its encoding keeps the number.                                          *)
(*                                                                         *)
(* A pipe and the asyncio buffer at its end are one queue.                 *)
(***************************************************************************)
EXTENDS Integers, Sequences, SequencesExt

CONSTANTS
  Chunks,    (* chunks the engine yields                                   *)
  InMax,     (* stdin: above it drain() waits                              *)
  OutMax,    (* stdout: where ffmpeg blocks                                *)
  ErrMax,    (* stderr: where ffmpeg blocks                                *)
  WaitEOF,   (* BOOLEAN: wait() also waits for the pipes, as in Python 3.11  *)
  Faults     (* what may go wrong                                          *)

ASSUME BoundsAssumption ==
  /\ Chunks \in Nat /\ {InMax, OutMax, ErrMax} \subseteq Nat \ {0}
  /\ WaitEOF \in BOOLEAN /\ Faults \subseteq {"spawn", "source", "crash", "noise", "leave"}

VARIABLES
  gen,     \* the generator: start, read, yield, cleanup, ended
  exit,    \* why it left its loop: none, raised, eof, closed, cancelled
  feeder,  \* feed_task: none, pull, drain, done
  stderr,  \* stderr_task: none, read, done
  pulled,  \* chunks the source has yielded
  ffmpeg,  \* the process: none, run, dying (SIGKILL is sent), exited (with
           \* its pipes closed, and not reaped yet), dead
  coding,  \* the chunk ffmpeg has read and not written
  owed,    \* the warnings ffmpeg must write before it goes on
  in,      \* stdin's contents
  open,    \* stdin's transport is open
  out,     \* stdout's contents
  err,     \* stderr's contents, counted
  got,     \* what the response has received
  fault    \* what cut the audio short: none, spawn, source, crash

vars == <<gen, exit, feeder, stderr, pulled, ffmpeg, coding, owed, in, open, out, err, got, fault>>
process == <<ffmpeg, coding, owed>>
pipes == <<in, open, out, err>>
tasks == <<feeder, stderr, pulled>>

Init ==
  /\ gen = "start" /\ exit = "none"
  /\ feeder = "none" /\ stderr = "none" /\ pulled = 0
  /\ ffmpeg = "none" /\ coding = <<>> /\ owed = 0
  /\ in = <<>> /\ open = FALSE /\ out = <<>> /\ err = 0
  /\ got = <<>> /\ fault = "none"

(* The other ends of the pipes are closed.                                 *)
Gone == ffmpeg \in {"exited", "dead"}

-----------------------------------------------------------------------------
(* feed_task *)

CloseStdin == open' = FALSE

(* write() of a chunk: into the buffer while the transport is open.  With  *)
(* an empty buffer it tries the pipe at once and notices a dead reader.    *)
SourceYields ==
  /\ feeder = "pull" /\ pulled < Chunks
  /\ pulled' = pulled + 1 /\ feeder' = "drain"
  /\ \/ open /\ (~Gone \/ in # <<>>)
        /\ in' = Append(in, pulled') /\ UNCHANGED open
     \/ open /\ Gone /\ open' = FALSE /\ UNCHANGED in
     \/ ~open /\ UNCHANGED <<in, open>>
  /\ UNCHANGED <<gen, exit, stderr, process, out, err, got, fault>>

Drained ==
  /\ feeder = "drain" /\ open /\ Len(in) <= InMax
  /\ feeder' = "pull"
  /\ UNCHANGED <<gen, exit, stderr, pulled, process, pipes, got, fault>>

(* drain() raises: the feeder gives up, silently.                          *)
DrainRaises ==
  /\ feeder = "drain" /\ ~open
  /\ feeder' = "done"
  /\ UNCHANGED <<gen, exit, stderr, pulled, process, pipes, got, fault>>

SourceEnds ==
  /\ feeder = "pull" /\ pulled = Chunks
  /\ feeder' = "done" /\ CloseStdin
  /\ UNCHANGED <<gen, exit, stderr, pulled, process, in, out, err, got, fault>>

(* Logged, and ffmpeg sees nothing but the end of its input.               *)
SourceRaises ==
  /\ "source" \in Faults /\ feeder = "pull"
  /\ feeder' = "done" /\ CloseStdin
  /\ fault' = IF fault = "none" THEN "source" ELSE fault
  /\ UNCHANGED <<gen, exit, stderr, pulled, process, in, out, err, got>>

(* The event loop learns that nobody reads stdin any more.                 *)
StdinLost ==
  /\ Gone /\ (open \/ in # <<>>)
  /\ open' = FALSE /\ in' = <<>>
  /\ UNCHANGED <<gen, exit, tasks, process, out, err, got, fault>>

(* stderr_task *)

ReadStderr ==
  /\ stderr = "read"
  /\ \/ err > 0 /\ err' = 0 /\ UNCHANGED stderr
     \/ err = 0 /\ Gone /\ stderr' = "done" /\ UNCHANGED err
  /\ UNCHANGED <<gen, exit, feeder, pulled, process, in, open, out, got, fault>>

-----------------------------------------------------------------------------
(* The process *)

ReadInput ==
  /\ ffmpeg = "run" /\ coding = <<>> /\ owed = 0 /\ in # <<>>
  /\ coding' = <<Head(in)>> /\ in' = Tail(in)
  /\ owed' \in IF "noise" \in Faults THEN {0, 1} ELSE {0}
  /\ UNCHANGED <<gen, exit, tasks, ffmpeg, open, out, err, got, fault>>

Warn ==
  /\ ffmpeg = "run" /\ owed > 0 /\ err < ErrMax
  /\ owed' = owed - 1 /\ err' = err + 1
  /\ UNCHANGED <<gen, exit, tasks, ffmpeg, coding, in, open, out, got, fault>>

WriteOutput ==
  /\ ffmpeg = "run" /\ coding # <<>> /\ owed = 0 /\ Len(out) < OutMax
  /\ out' = out \o coding /\ coding' = <<>>
  /\ UNCHANGED <<gen, exit, tasks, ffmpeg, owed, in, open, err, got, fault>>

Dies == ffmpeg' = "exited" /\ coding' = <<>> /\ owed' = 0

Finish ==
  /\ ffmpeg = "run" /\ coding = <<>> /\ owed = 0 /\ in = <<>> /\ ~open
  /\ Dies /\ UNCHANGED <<gen, exit, tasks, pipes, got, fault>>

Crash ==
  /\ "crash" \in Faults /\ ffmpeg = "run"
  /\ Dies /\ fault' = IF fault = "none" THEN "crash" ELSE fault
  /\ UNCHANGED <<gen, exit, tasks, pipes, got>>

Killed ==
  /\ ffmpeg = "dying"
  /\ Dies /\ UNCHANGED <<gen, exit, tasks, pipes, got, fault>>

(* The child watcher reaps it and sets returncode.                         *)
Reaped ==
  /\ ffmpeg = "exited" /\ ffmpeg' = "dead"
  /\ UNCHANGED <<gen, exit, tasks, coding, owed, pipes, got, fault>>

-----------------------------------------------------------------------------
(* The generator *)

Spawn ==
  /\ gen = "start" /\ gen' = "read"
  /\ ffmpeg' = "run" /\ open' = TRUE
  /\ feeder' = "pull" /\ stderr' = "read"
  /\ UNCHANGED <<exit, pulled, coding, owed, in, out, err, got, fault>>

SpawnRaises ==
  /\ "spawn" \in Faults /\ gen = "start"
  /\ gen' = "ended" /\ exit' = "raised" /\ fault' = "spawn"
  /\ UNCHANGED <<tasks, process, pipes, got>>

(* Mutation: stdout is read once the whole input is written.               *)
Readable_Fed == feeder = "done"

Readable == TRUE

(* One read() returns whatever is there, up to 4096 bytes.                 *)
ReadOutput ==
  /\ gen = "read" /\ out # <<>> /\ Readable
  /\ \E n \in 1..Len(out) :
       got' = got \o SubSeq(out, 1, n) /\ out' = SubSeq(out, n + 1, Len(out))
  /\ gen' = "yield"
  /\ UNCHANGED <<exit, tasks, process, in, open, err, fault>>

(* The client has taken it.                                                *)
Taken ==
  /\ gen = "yield" /\ gen' = "read"
  /\ UNCHANGED <<exit, tasks, process, pipes, got, fault>>

(* Mutation: cleanup waits for the children and does not kill ffmpeg.      *)
Cleanup_Polite(why) ==
  /\ gen' = "cleanup" /\ exit' = why
  /\ UNCHANGED ffmpeg

(* The finally: kill what still runs, then wait for the children.  Killing *)
(* a process that has exited and has no returncode yet does nothing.       *)
Cleanup(why) ==
  /\ gen' = "cleanup" /\ exit' = why
  /\ ffmpeg' = IF ffmpeg = "run" THEN "dying" ELSE ffmpeg

(* Mutation: the generator is done with ffmpeg as soon as it is fed.       *)
AtEOF_Fed == feeder = "done"

AtEOF == Gone

ReadEOF ==
  /\ gen = "read" /\ out = <<>> /\ AtEOF
  /\ Cleanup("eof")
  /\ UNCHANGED <<tasks, coding, owed, pipes, got, fault>>

(* The client goes while the response waits for ffmpeg: the read, and then *)
(* the wait for the children, are cancelled.                               *)
LeaveReading ==
  /\ "leave" \in Faults
  /\ \/ gen = "start" /\ gen' = "ended" /\ exit' = "cancelled" /\ UNCHANGED ffmpeg
     \/ gen = "read" /\ Cleanup("cancelled")
     \/ gen = "cleanup" /\ exit = "eof" /\ exit' = "cancelled" /\ UNCHANGED <<gen, ffmpeg>>
  /\ UNCHANGED <<tasks, coding, owed, pipes, got, fault>>

(* It goes while a chunk is being sent: the suspended generators are       *)
(* dropped and the event loop closes them, outside the cancelled task.     *)
LeaveYielding ==
  /\ "leave" \in Faults /\ gen = "yield"
  /\ Cleanup("closed")
  /\ UNCHANGED <<tasks, coding, owed, pipes, got, fault>>

CancelChildren ==
  /\ gen = "cleanup" /\ exit = "cancelled" /\ {feeder, stderr} # {"done"}
  /\ feeder' = "done" /\ stderr' = "done" /\ CloseStdin
  /\ UNCHANGED <<gen, exit, pulled, process, in, out, err, got, fault>>

(* wait() has seen the process exit.  With WaitEOF it sees it when stdout  *)
(* is read to its end, and a full StreamReader has stopped reading.        *)
Exited == ffmpeg = "dead" /\ (WaitEOF => Len(out) < OutMax)

(* Mutation: the feeder is not awaited.                                    *)
Gathered_Fed == stderr = "done" /\ (exit = "cancelled" \/ Exited)

Gathered ==
  /\ feeder = "done" /\ stderr = "done"
  /\ exit = "cancelled" \/ Exited

Gather ==
  /\ gen = "cleanup" /\ Gathered
  /\ gen' = "ended"
  /\ UNCHANGED <<exit, tasks, process, pipes, got, fault>>

Terminated ==
  /\ gen = "ended" /\ ffmpeg \in {"none", "dead"} /\ in = <<>>
  /\ UNCHANGED vars

-----------------------------------------------------------------------------

Feed == SourceYields \/ Drained \/ DrainRaises \/ SourceEnds
Encode == ReadInput \/ Warn \/ WriteOutput \/ Finish \/ Killed \/ Reaped
Generate == Spawn \/ ReadOutput \/ Taken \/ ReadEOF \/ CancelChildren \/ Gather
Fail == SourceRaises \/ SpawnRaises \/ Crash \/ LeaveReading \/ LeaveYielding

Next == Feed \/ StdinLost \/ ReadStderr \/ Encode \/ Generate \/ Fail \/ Terminated

Spec == Init /\ [][Next]_vars

(* The event loop runs every task that can go on, the system every process *)
(* that is not blocked; the engine yields or ends, and a client that stays *)
(* takes what it is sent.                                                  *)
Fairness ==
  /\ WF_vars(Feed) /\ WF_vars(StdinLost) /\ WF_vars(ReadStderr)
  /\ WF_vars(Encode) /\ WF_vars(Generate)

FairSpec == Spec /\ Fairness

-----------------------------------------------------------------------------
(* Properties *)

Source == [i \in 1..Chunks |-> i]

(* What the client gets is the encoding of the source in its order, with   *)
(* nothing missing inside; and all of it when the generator ends by itself *)
(* and neither the engine nor ffmpeg failed (the kill in the finally never *)
(* costs output).                                                          *)
OutputFaithful ==
  /\ IsPrefix(got, Source)
  /\ gen = "ended" /\ exit = "eof" /\ fault = "none" => got = Source

(* An ended generator leaves nothing behind: no task of its own, and the   *)
(* process reaped, or at its end when the wait itself was cancelled.       *)
NothingLeft ==
  gen = "ended" =>
    /\ {feeder, stderr} \in {{"none"}, {"done"}}
    /\ ffmpeg \in {"none", "dead"} \/ (exit = "cancelled" /\ ffmpeg \in {"dying", "exited"})

(* A client that leaves frees the process and the tasks, however full the  *)
(* pipes were.                                                             *)
LeaverFreed ==
  exit \in {"closed", "cancelled"} ~> gen = "ended" /\ ffmpeg \in {"none", "dead"}
=============================================================================
