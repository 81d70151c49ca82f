----------------------- MODULE SpeechResponsesProofs -----------------------
(***************************************************************************)
(* Why an encoded response is what the engine said, and why the handler    *)
(* around it is a SpeechService.  The chunks on their way lie, in their    *)
(* order, in the response, in stdout, in ffmpeg and in stdin; until ffmpeg *)
(* dies they are, put together, all that the engine has yielded.           *)
(***************************************************************************)
EXTENDS SpeechResponses, SequenceTheorems, TLAPS

USE DEF Gone

(* s goes on counting after n.                                             *)
Counts(s, n) == s \in Seq(Nat) /\ \A i \in 1..Len(s) : s[i] = n + i

(* Two stretches that follow each other are one.                           *)
LEMMA CountsConcat ==
  ASSUME NEW s, NEW t, NEW n \in Nat, Counts(s, n), Counts(t, n + Len(s))
  PROVE  Counts(s \o t, n) /\ Len(s \o t) = Len(s) + Len(t)
<1>1. /\ s \in Seq(Nat) /\ t \in Seq(Nat) /\ s \o t \in Seq(Nat)
      /\ Len(s \o t) = Len(s) + Len(t)
      /\ Len(s) \in Nat /\ Len(t) \in Nat
  BY DEF Counts
<1>2. ASSUME NEW i \in 1..Len(s \o t)  PROVE (s \o t)[i] = n + i
  <2>1. CASE i <= Len(s)
    BY <1>1, <2>1 DEF Counts
  <2>2. CASE i > Len(s)
    <3>1. i - Len(s) \in 1..Len(t) /\ (s \o t)[i] = t[i - Len(s)]
      BY <1>1, <2>2
    <3> QED  BY <1>1, <3>1 DEF Counts
  <2> QED  BY <1>1, <2>1, <2>2
<1> QED  BY <1>1, <1>2 DEF Counts

(* One stretch is two where it is cut.                                     *)
LEMMA CountsSplit ==
  ASSUME NEW s, NEW n \in Nat, Counts(s, n), NEW k \in 0..Len(s)
  PROVE  /\ Counts(SubSeq(s, 1, k), n) /\ Len(SubSeq(s, 1, k)) = k
         /\ Counts(SubSeq(s, k + 1, Len(s)), n + k)
         /\ Len(SubSeq(s, k + 1, Len(s))) = Len(s) - k
<1>1. s \in Seq(Nat) /\ Len(s) \in Nat /\ k \in Nat
  BY DEF Counts
<1>2. /\ SubSeq(s, 1, k) \in Seq(Nat) /\ Len(SubSeq(s, 1, k)) = k
      /\ \A i \in 1..k : SubSeq(s, 1, k)[i] = s[i]
  BY <1>1
<1>3. /\ SubSeq(s, k + 1, Len(s)) \in Seq(Nat)
      /\ Len(SubSeq(s, k + 1, Len(s))) = Len(s) - k
      /\ \A i \in 1..(Len(s) - k) : SubSeq(s, k + 1, Len(s))[i] = s[k + i]
  BY <1>1
<1> QED  BY <1>1, <1>2, <1>3 DEF Counts

(* A stretch is its first element and the rest.                            *)
LEMMA CountsHead ==
  ASSUME NEW s, NEW n \in Nat, Counts(s, n), s # <<>>
  PROVE  /\ Head(s) = n + 1 /\ Counts(<<Head(s)>>, n)
         /\ Counts(Tail(s), n + 1) /\ Len(Tail(s)) = Len(s) - 1 /\ Len(s) \in Nat \ {0}
<1>1. s \in Seq(Nat) /\ Len(s) \in Nat \ {0}
  BY DEF Counts
<1>2. Head(s) = s[1] /\ 1 \in 1..Len(s)
  BY <1>1
<1>3. Head(s) = n + 1
  BY <1>2 DEF Counts
<1>4. Tail(s) \in Seq(Nat) /\ Len(Tail(s)) = Len(s) - 1
      /\ \A i \in 1..(Len(s) - 1) : Tail(s)[i] = s[i + 1]
  BY <1>1
<1>5. Counts(Tail(s), n + 1)
  BY <1>1, <1>4 DEF Counts
<1>6. <<n + 1>> \in Seq(Nat) /\ Len(<<n + 1>>) = 1 /\ <<n + 1>>[1] = n + 1
  OBVIOUS
<1> QED  BY <1>1, <1>3, <1>4, <1>5, <1>6 DEF Counts

(* It goes on with the next chunk.                                         *)
LEMMA CountsAppend ==
  ASSUME NEW s, NEW n \in Nat, Counts(s, n), NEW m, m = n + Len(s) + 1
  PROVE  Counts(Append(s, m), n) /\ Len(Append(s, m)) = Len(s) + 1
<1>1. s \in Seq(Nat) /\ Len(s) \in Nat /\ m \in Nat
  BY DEF Counts
<1>2. Append(s, m) \in Seq(Nat) /\ Len(Append(s, m)) = Len(s) + 1
      /\ Append(s, m)[Len(s) + 1] = m /\ \A i \in 1..Len(s) : Append(s, m)[i] = s[i]
  BY <1>1
<1> QED  BY <1>1, <1>2 DEF Counts

(* Nothing is the shortest stretch, the source the longest from 0.         *)
LEMMA CountsEmpty == \A n \in Nat : Counts(<<>>, n)
BY DEF Counts

(* A stretch from the first chunk to the last is the whole source.         *)
LEMMA CountsAll ==
  ASSUME NEW s, Counts(s, 0), Len(s) <= Chunks
  PROVE  IsPrefix(s, Source) /\ (Len(s) = Chunks => s = Source)
<1>1. Chunks \in Nat /\ s \in Seq(Nat) /\ Len(s) \in Nat
  BY BoundsAssumption DEF Counts
<1>2. Source \in Seq(Nat) /\ Len(Source) = Chunks /\ \A i \in 1..Chunks : Source[i] = i
  BY <1>1 DEF Source
<1>3. SubSeq(s, 1, Len(s)) \in Seq(Nat) /\ Len(SubSeq(s, 1, Len(s))) = Len(s)
      /\ \A i \in 1..Len(s) : SubSeq(s, 1, Len(s))[i] = i
  BY <1>1 DEF Counts
<1>4. SubSeq(Source, 1, Len(s)) \in Seq(Nat) /\ Len(SubSeq(Source, 1, Len(s))) = Len(s)
      /\ \A i \in 1..Len(s) : SubSeq(Source, 1, Len(s))[i] = i
  BY <1>1, <1>2
<1>5. SubSeq(s, 1, Len(s)) = SubSeq(Source, 1, Len(s))
  BY <1>3, <1>4, SeqEqual
<1>6. Len(s) = Chunks => s = Source
  BY <1>1, <1>2, SeqEqual DEF Counts
<1> QED  BY <1>1, <1>2, <1>5, <1>6 DEF IsPrefix

-----------------------------------------------------------------------------
(* The encoder *)

TypeInv ==
  /\ gen \in {"start", "read", "yield", "cleanup", "ended"}
  /\ exit \in {"none", "raised", "eof", "closed", "cancelled"}
  /\ feeder \in {"none", "pull", "drain", "done"} /\ stderr \in {"none", "read", "done"}
  /\ ffmpeg \in {"none", "run", "dying", "exited", "dead"}
  /\ pulled \in 0..Chunks /\ fault \in {"none", "spawn", "source", "crash"}

(* What the generator has started, and what it has taken down again.       *)
StateInv ==
  /\ ffmpeg = "none" <=> feeder = "none"
  /\ ffmpeg = "none" <=> stderr = "none"
  /\ gen = "start" => ffmpeg = "none" /\ exit = "none" /\ fault = "none"
  /\ gen \in {"read", "yield"} => ffmpeg \in {"run", "exited", "dead"} /\ exit = "none"
  /\ gen = "cleanup" => /\ ffmpeg \in {"dying", "exited", "dead"}
                        /\ exit \in {"eof", "closed", "cancelled"}
  /\ gen = "ended" /\ ffmpeg = "none" =>
       exit = "cancelled" \/ (exit = "raised" /\ fault = "spawn")
  /\ gen = "ended" /\ ffmpeg # "none" =>
       /\ feeder = "done" /\ stderr = "done" /\ exit \in {"eof", "closed", "cancelled"}
       /\ ffmpeg = "dead" \/ (exit = "cancelled" /\ ffmpeg \in {"dying", "exited"})
  /\ exit = "eof" => Gone

(* Where the chunks are.  A feeder that still pulls has its pipe open until*)
(* ffmpeg is gone.                                                         *)
FlowInv ==
  /\ Counts(got, 0) /\ Counts(out, Len(got)) /\ Counts(coding, Len(got) + Len(out))
  /\ Len(got) + Len(out) + Len(coding) <= pulled /\ in \in Seq(Nat)
  /\ Gone => coding = <<>>
  /\ ~Gone => /\ Counts(in, Len(got) + Len(out) + Len(coding))
              /\ Len(got) + Len(out) + Len(coding) + Len(in) = pulled
  /\ ffmpeg \in {"run", "dying"} => open \/ feeder = "done"

(* Unless something fails, a feeder that is done has fed everything, an    *)
(* ffmpeg that is gone has written everything, and a generator at the end  *)
(* of its output has read everything.                                      *)
DoneInv ==
  fault = "none" =>
    /\ gen \in {"read", "yield"} /\ ffmpeg = "run" /\ feeder = "done" => pulled = Chunks
    /\ gen \in {"read", "yield"} /\ Gone => Len(got) + Len(out) = Chunks
    /\ exit = "eof" => Len(got) = Chunks

EncoderInv == TypeInv /\ StateInv /\ FlowInv /\ DoneInv

(* It holds initially.                                                     *)
LEMMA EncoderInit == Init => EncoderInv
<1> SUFFICES ASSUME Init  PROVE EncoderInv
  OBVIOUS
<1>1. Chunks \in Nat /\ Counts(<<>>, 0) /\ Len(<<>>) = 0 /\ <<>> \in Seq(Nat)
  BY BoundsAssumption, CountsEmpty
<1>2. TypeInv /\ StateInv
  BY <1>1 DEF Init, TypeInv, StateInv
<1>3. FlowInv
  BY <1>1 DEF Init, FlowInv
<1>4. DoneInv
  BY DEF Init, DoneInv
<1> QED  BY <1>2, <1>3, <1>4 DEF EncoderInv

(* No step takes the generator, its tasks and the process out of step.     *)
LEMMA StateStep ==
  ASSUME TypeInv, StateInv, [Next]_vars
  PROVE  TypeInv' /\ StateInv'
<1>0. Chunks \in Nat
  BY BoundsAssumption
<1>1. CASE Feed \/ ReadStderr
  <2>1. /\ UNCHANGED <<gen, exit, ffmpeg, fault>>
        /\ \/ feeder \in {"pull", "drain"} /\ feeder' \in {"pull", "drain", "done"}
              /\ UNCHANGED stderr
           \/ stderr = "read" /\ stderr' \in {"read", "done"} /\ UNCHANGED feeder
    BY <1>1 DEF Feed, SourceYields, Drained, DrainRaises, SourceEnds, ReadStderr, process
  <2>2. pulled' \in 0..Chunks
    BY <1>0, <1>1 DEF TypeInv, Feed, SourceYields, Drained, DrainRaises, SourceEnds, ReadStderr
  <2> QED  BY <2>1, <2>2 DEF TypeInv, StateInv
<1>2. CASE StdinLost \/ Encode
  BY <1>2 DEF TypeInv, StateInv, StdinLost, Encode, ReadInput, Warn, WriteOutput, Finish, Killed, Reaped,
              Dies, tasks, process, pipes
<1>3. CASE Spawn \/ ReadOutput \/ Taken
  BY <1>3 DEF TypeInv, StateInv, Spawn, ReadOutput, Taken, tasks, process, pipes
<1>4. CASE ReadEOF \/ CancelChildren \/ Gather
  BY <1>4 DEF TypeInv, StateInv, ReadEOF, CancelChildren, Gather, Cleanup, AtEOF, Gathered,
              Exited, CloseStdin, tasks, process, pipes
<1>5. CASE SourceRaises \/ SpawnRaises \/ Crash
  BY <1>5 DEF TypeInv, StateInv, SourceRaises, SpawnRaises, Crash, Dies, CloseStdin, tasks,
              process, pipes
<1>6. CASE LeaveReading \/ LeaveYielding
  BY <1>6 DEF TypeInv, StateInv, LeaveReading, LeaveYielding, Cleanup, tasks, pipes
<1>7. CASE UNCHANGED vars
  BY <1>7 DEF TypeInv, StateInv, vars
<1> QED
  BY <1>1, <1>2, <1>3, <1>4, <1>5, <1>6, <1>7 DEF Next, Generate, Fail, Terminated

(* Chunks only move on, and only one that is read by nobody any more is    *)
(* lost.                                                                   *)
LEMMA FlowStep ==
  ASSUME TypeInv, StateInv, FlowInv, [Next]_vars
  PROVE  FlowInv'
<1>0. /\ Chunks \in Nat /\ pulled \in Nat /\ Len(got) \in Nat /\ Len(out) \in Nat
      /\ Len(coding) \in Nat /\ Len(in) \in Nat
  BY BoundsAssumption DEF TypeInv, FlowInv, Counts
<1>1. CASE SourceYields
  <2>1. /\ feeder = "pull" /\ pulled' = pulled + 1
        /\ UNCHANGED <<got, out, coding, ffmpeg>>
    BY <1>1 DEF SourceYields, process
  <2>2. CASE Gone
    <3>1. in' = in \/ in' = Append(in, pulled + 1)
      BY <1>1, <2>1 DEF SourceYields
    <3>2. in' \in Seq(Nat)
      <4>1. in \in Seq(Nat) /\ pulled + 1 \in Nat
        BY <1>0 DEF FlowInv
      <4> QED  BY <3>1, <4>1
    <3> QED  BY <1>0, <2>1, <2>2, <3>2 DEF FlowInv
  <2>3. CASE ~Gone
    <3>1. open /\ open' = open /\ in' = Append(in, pulled + 1)
      BY <1>1, <2>1, <2>3 DEF SourceYields, FlowInv, TypeInv, StateInv
    <3>2. /\ Len(got) + Len(out) + Len(coding) \in Nat
          /\ Counts(in, Len(got) + Len(out) + Len(coding))
          /\ pulled + 1 = Len(got) + Len(out) + Len(coding) + Len(in) + 1
      <4>1. /\ Counts(in, Len(got) + Len(out) + Len(coding))
            /\ pulled = Len(got) + Len(out) + Len(coding) + Len(in)
        BY <2>3 DEF FlowInv
      <4> QED  BY <1>0, <4>1
    <3>3. Counts(in', Len(got) + Len(out) + Len(coding)) /\ Len(in') = Len(in) + 1
      BY <3>1, <3>2, CountsAppend
    <3>4. in' \in Seq(Nat)
      BY <3>3 DEF Counts
    <3>5. /\ Counts(in', Len(got') + Len(out') + Len(coding'))
          /\ Len(got') + Len(out') + Len(coding') + Len(in') = pulled'
          /\ Len(got') + Len(out') + Len(coding') <= pulled'
      BY <1>0, <2>1, <3>2, <3>3 DEF FlowInv
    <3> QED  BY <2>1, <2>3, <3>1, <3>4, <3>5 DEF FlowInv
  <2> QED  BY <2>2, <2>3
<1>2. CASE Drained \/ DrainRaises \/ SourceEnds \/ SourceRaises \/ ReadStderr
  BY <1>2 DEF FlowInv, Drained, DrainRaises, SourceEnds, SourceRaises, ReadStderr, CloseStdin,
              process, pipes
<1>3. CASE StdinLost
  BY <1>3, CountsEmpty DEF FlowInv, StdinLost, process, tasks, Counts
<1>4. CASE ReadInput
  <2>1. /\ coding = <<>> /\ in # <<>> /\ coding' = <<Head(in)>> /\ in' = Tail(in)
        /\ ffmpeg = "run" /\ UNCHANGED <<got, out, ffmpeg, pulled, open, feeder>>
    BY <1>4 DEF ReadInput, tasks
  <2>2. /\ Counts(coding', Len(got) + Len(out)) /\ Len(coding') = 1 /\ Len(coding) = 0
        /\ Counts(in', Len(got) + Len(out) + 1) /\ Len(in') = Len(in) - 1
    BY <1>0, <2>1, CountsHead DEF FlowInv
  <2>3. in' \in Seq(Nat)
    BY <2>2 DEF Counts
  <2> QED  BY <1>0, <2>1, <2>2, <2>3 DEF FlowInv
<1>5. CASE Warn \/ Killed \/ Reaped \/ Finish \/ Crash
  <2>1. /\ UNCHANGED <<got, out, pulled, in, open, feeder>>
        /\ UNCHANGED <<ffmpeg, coding>> \/ (Gone' /\ coding' = <<>>)
    BY <1>5 DEF FlowInv, Warn, Killed, Reaped, Finish, Crash, Dies, tasks, pipes
  <2>2. CASE UNCHANGED <<ffmpeg, coding>>
    BY <2>1, <2>2 DEF FlowInv
  <2>3. CASE Gone' /\ coding' = <<>>
    <3>1. Counts(coding', Len(got) + Len(out)) /\ Len(coding') = 0
      BY <1>0, <2>3, CountsEmpty
    <3>2. Len(got') + Len(out') + Len(coding') <= pulled'
      BY <1>0, <2>1, <3>1 DEF FlowInv
    <3> QED  BY <2>1, <2>3, <3>1, <3>2 DEF FlowInv
  <2> QED  BY <2>1, <2>2, <2>3
<1>6. CASE WriteOutput
  <2>1. /\ out' = out \o coding /\ coding' = <<>> /\ ffmpeg = "run"
        /\ UNCHANGED <<got, in, ffmpeg, pulled, open, feeder>>
    BY <1>6 DEF WriteOutput, tasks
  <2>2. Counts(out', Len(got)) /\ Len(out') = Len(out) + Len(coding)
    BY <1>0, <2>1, CountsConcat DEF FlowInv
  <2>3. Counts(coding', Len(got) + Len(out')) /\ Len(coding') = 0
    BY <1>0, <2>1, <2>2, CountsEmpty
  <2> QED  BY <1>0, <2>1, <2>2, <2>3 DEF FlowInv
<1>7. CASE ReadOutput
  <2>1. PICK n \in 1..Len(out) :
          got' = got \o SubSeq(out, 1, n) /\ out' = SubSeq(out, n + 1, Len(out))
    BY <1>7 DEF ReadOutput
  <2>2. UNCHANGED <<coding, in, ffmpeg, pulled, open, feeder>>
    BY <1>7 DEF ReadOutput, process, tasks
  <2>3. /\ Counts(SubSeq(out, 1, n), Len(got)) /\ Len(SubSeq(out, 1, n)) = n
        /\ Counts(out', Len(got) + n) /\ Len(out') = Len(out) - n
    BY <1>0, <2>1, CountsSplit DEF FlowInv
  <2>4. Counts(got', 0) /\ Len(got') = Len(got) + n
    BY <1>0, <2>1, <2>3, CountsConcat DEF FlowInv
  <2>5. Len(got') + Len(out') = Len(got) + Len(out)
    BY <1>0, <2>3, <2>4
  <2> QED  BY <1>0, <2>1, <2>2, <2>3, <2>4, <2>5 DEF FlowInv
<1>8. CASE Spawn \/ Taken \/ ReadEOF \/ CancelChildren \/ Gather
  <2>1. /\ UNCHANGED <<got, out, coding, in, pulled>>
        /\ Gone' <=> Gone
        /\ ffmpeg' \in {"run", "dying"} => open' \/ feeder' = "done"
    BY <1>8 DEF FlowInv, TypeInv, StateInv, Spawn, Taken, ReadEOF, CancelChildren, Gather,
                Cleanup, AtEOF, CloseStdin, tasks, process, pipes
  <2> QED  BY <2>1 DEF FlowInv
<1>9. CASE SpawnRaises \/ LeaveReading \/ LeaveYielding
  <2>1. /\ UNCHANGED <<got, out, coding, in, pulled>>
        /\ Gone' <=> Gone
        /\ ffmpeg' \in {"run", "dying"} => open' \/ feeder' = "done"
    BY <1>9 DEF FlowInv, TypeInv, StateInv, SpawnRaises, LeaveReading, LeaveYielding,
                Cleanup, tasks, process, pipes
  <2> QED  BY <2>1 DEF FlowInv
<1>10. CASE UNCHANGED vars
  BY <1>10 DEF FlowInv, vars
<1> QED
  BY <1>1, <1>2, <1>3, <1>4, <1>5, <1>6, <1>7, <1>8, <1>9, <1>10
     DEF Next, Feed, Encode, Generate, Fail, Terminated

(* The end of the audio travels along: closed stdin, dead ffmpeg, end of   *)
(* stdout.                                                                 *)
LEMMA DoneStep ==
  ASSUME TypeInv, StateInv, FlowInv, DoneInv, FlowInv', [Next]_vars
  PROVE  DoneInv'
<1>0. /\ Chunks \in Nat /\ pulled \in Nat /\ Len(got) \in Nat /\ Len(out) \in Nat
      /\ Len(coding) \in Nat /\ Len(in) \in Nat /\ Len(<<>>) = 0
  <2>1. got \in Seq(Nat) /\ out \in Seq(Nat) /\ coding \in Seq(Nat) /\ in \in Seq(Nat)
    BY DEF FlowInv, Counts
  <2> QED  BY <2>1, BoundsAssumption DEF TypeInv
<1>1. CASE Feed
  <2>1. UNCHANGED <<gen, exit, ffmpeg, got, out, fault>>
    BY <1>1 DEF Feed, SourceYields, Drained, DrainRaises, SourceEnds, process, pipes
  <2>2. gen \in {"read", "yield"} /\ ffmpeg = "run" /\ feeder' = "done" => pulled' = Chunks
    BY <1>1 DEF Feed, SourceYields, Drained, DrainRaises, SourceEnds, FlowInv
  <2> QED  BY <2>1, <2>2 DEF DoneInv
<1>2. CASE StdinLost \/ ReadStderr \/ ReadInput \/ Warn
  BY <1>2 DEF DoneInv, StdinLost, ReadStderr, ReadInput, Warn, process, tasks
<1>3. CASE WriteOutput
  <2>1. ffmpeg = "run" /\ UNCHANGED <<gen, exit, ffmpeg, got, feeder, pulled, fault>>
    BY <1>3 DEF WriteOutput, tasks
  <2> QED  BY <2>1 DEF DoneInv
<1>4. CASE Finish
  <2>1. /\ ffmpeg = "run" /\ coding = <<>> /\ in = <<>> /\ ~open
        /\ Gone' /\ UNCHANGED <<gen, exit, got, out, fault>>
    BY <1>4 DEF Finish, Dies, pipes
  <2>2. feeder = "done" /\ Len(got) + Len(out) = pulled
    BY <1>0, <2>1 DEF FlowInv
  <2> QED  BY <2>1, <2>2 DEF DoneInv
<1>5. CASE Killed
  <2>1. ffmpeg = "dying" /\ UNCHANGED <<gen, exit, got, out, fault>>
    BY <1>5 DEF Killed, pipes
  <2> QED  BY <2>1 DEF DoneInv, StateInv, TypeInv
<1>6. CASE Spawn \/ Taken
  <2>1. /\ UNCHANGED <<exit, got, out, pulled, fault>>
        /\ \/ ffmpeg' = "run" /\ feeder' = "pull"
           \/ gen = "yield" /\ gen' = "read" /\ UNCHANGED <<ffmpeg, feeder>>
    BY <1>6 DEF Spawn, Taken, tasks, process, pipes
  <2> QED  BY <2>1 DEF DoneInv
<1>7. CASE ReadOutput
  <2>1. /\ gen = "read" /\ gen' = "yield" /\ exit = "none"
        /\ UNCHANGED <<exit, ffmpeg, coding, feeder, pulled, fault>>
    BY <1>7 DEF ReadOutput, process, tasks, StateInv
  <2>2. Len(got') + Len(out') = Len(got) + Len(out)
    <3>1. PICK n \in 1..Len(out) :
            got' = got \o SubSeq(out, 1, n) /\ out' = SubSeq(out, n + 1, Len(out))
      BY <1>7 DEF ReadOutput
    <3>2. n \in Nat /\ Len(SubSeq(out, 1, n)) = n /\ Len(out') = Len(out) - n
      BY <1>0, <3>1, CountsSplit DEF FlowInv
    <3>3. Len(got') = Len(got) + n
      BY <1>0, <3>1, <3>2, CountsSplit, CountsConcat DEF FlowInv
    <3> QED  BY <1>0, <3>2, <3>3
  <2> QED  BY <2>1, <2>2 DEF DoneInv
<1>8. CASE ReadEOF
  <2>1. /\ gen = "read" /\ gen' = "cleanup" /\ out = <<>> /\ Gone
        /\ UNCHANGED <<got, fault>>
    BY <1>8 DEF ReadEOF, AtEOF, Cleanup
  <2> QED  BY <1>0, <2>1 DEF DoneInv
<1>9. CASE CancelChildren \/ Gather
  BY <1>9 DEF DoneInv, CancelChildren, Gather, process, pipes
<1>10. CASE SourceRaises \/ SpawnRaises \/ Crash
  BY <1>10 DEF DoneInv, SourceRaises, SpawnRaises, Crash
<1>11. CASE LeaveReading \/ LeaveYielding
  BY <1>11 DEF DoneInv, LeaveReading, LeaveYielding, Cleanup
<1>12. CASE Reaped \/ UNCHANGED vars
  BY <1>12 DEF DoneInv, Reaped, tasks, pipes, vars
<1> QED
  BY <1>1, <1>2, <1>3, <1>4, <1>5, <1>6, <1>7, <1>8, <1>9, <1>10, <1>11, <1>12
     DEF Next, Encode, Generate, Fail, Terminated

(* Every step of the encoder keeps its invariant.                          *)
LEMMA EncoderStep ==
  ASSUME EncoderInv, [Next]_vars
  PROVE  EncoderInv'
BY StateStep, FlowStep, DoneStep DEF EncoderInv

(* What every step of the encoder leaves to the handler.                   *)
LEMMA EncoderVisible ==
  ASSUME EncoderInv, [Next]_vars
  PROVE  /\ fault # "none" => fault' # "none"
         /\ gen' = "start" => gen = "start" /\ UNCHANGED <<exit, got>>
         /\ exit' = "raised" => got' = got /\ (exit = "raised" \/ gen = "start")
<1>1. CASE Feed \/ StdinLost \/ ReadStderr \/ Encode
  BY <1>1 DEF Feed, SourceYields, Drained, DrainRaises, SourceEnds, StdinLost, ReadStderr, Encode,
              ReadInput, Warn, WriteOutput, Finish, Killed, Reaped, tasks, process, pipes
<1>2. CASE Generate
  BY <1>2 DEF Generate, Spawn, ReadOutput, Taken, ReadEOF, CancelChildren, Gather, Cleanup,
              tasks, process, pipes, EncoderInv, StateInv
<1>3. CASE Fail
  BY <1>3 DEF Fail, SourceRaises, SpawnRaises, Crash, LeaveReading, LeaveYielding, Cleanup,
              tasks, process, pipes
<1>4. CASE UNCHANGED vars
  BY <1>4 DEF vars
<1> QED
  BY <1>1, <1>2, <1>3, <1>4 DEF Next, Terminated

(* The promises of FfmpegStream follow.                                    *)
LEMMA EncoderKeeps == EncoderInv => OutputFaithful /\ NothingLeft
<1> SUFFICES ASSUME EncoderInv  PROVE OutputFaithful /\ NothingLeft
  OBVIOUS
<1>1. /\ Counts(got, 0) /\ Len(got) \in Nat /\ Len(got) <= Chunks
  BY BoundsAssumption DEF EncoderInv, TypeInv, FlowInv, Counts
<1>2. OutputFaithful
  BY <1>1, CountsAll DEF OutputFaithful, EncoderInv, DoneInv
<1>3. NothingLeft
  BY DEF NothingLeft, EncoderInv, TypeInv, StateInv
<1> QED  BY <1>2, <1>3

-----------------------------------------------------------------------------
(* The handler *)

Body == IF pc = "stream" THEN sent ELSE part

(* Which way a request has come.                                           *)
WayInv ==
  /\ pc \in {"parse", "auth", "input", "encode", "collect", "stream", "done"}
  /\ pc \in {"input", "encode", "collect", "stream"} => req.token = "accepted"
  /\ engine # "idle" \/ gen # "start" \/ status = 200 => req.token = "accepted"
  /\ gen # "start" => S!Encoded
  /\ gen = "start" \/ exit = "raised" => got = <<>>
  /\ pc \in {"parse", "auth", "input", "encode"} =>
       /\ engine = "idle" /\ gen = "start" /\ read = 0 /\ part = <<>> /\ sent = <<>>
       /\ status = 0 /\ header = S!NoHeader
  /\ pc # "done" => end = "none"

(* What it has collected or sent while the audio lasts: all the chunks it  *)
(* has read, which are all that the encoder has handed over.               *)
BodyInv ==
  /\ pc = "collect" => ~req.stream /\ status = 0 /\ header = S!NoHeader
  /\ pc = "stream" => /\ req.stream /\ status = 200
                      /\ header = IF req.format = "wav" THEN S!Sentinel ELSE S!NoHeader
  /\ pc \in {"collect", "stream"} =>
       /\ engine = "live" /\ Counts(Body, 0) /\ Len(Body) = read /\ read <= Chunks
       /\ S!Encoded => /\ exit \notin {"closed", "cancelled"}
                       /\ gen # "yield" => Body = got
                       /\ gen = "yield" => read < Len(got)

HandlerInv == WayInv /\ BodyInv /\ HeaderExact /\ CleanMeansComplete

(* It holds initially.                                                     *)
LEMMA HandlerInit == SystemInit => HandlerInv
BY DEF SystemInit, Init, S!Init, HandlerInv, WayInv, BodyInv, HeaderExact, CleanMeansComplete,
       S!Speech

(* Up to the audio, no step opens the engine but OpenStream, and that one  *)
(* only after the provider has accepted the token.                         *)
LEMMA HandleKeeps ==
  ASSUME EncoderInv, HandlerInv, Handle
  PROVE  HandlerInv'
<1>0. UNCHANGED encoder
  BY DEF Handle
<1>1. CASE S!OpenStream /\ ~(S!Encoded /\ ~req.ffmpeg)
  <2>1. /\ pc = "encode" /\ engine' = "live" /\ UNCHANGED <<req, read, part, sent, end>>
        /\ IF req.stream
           THEN /\ pc' = "stream" /\ status' = 200
                /\ header' = IF req.format = "wav" THEN S!Sentinel ELSE S!NoHeader
           ELSE pc' = "collect" /\ UNCHANGED <<status, header>>
    BY <1>1 DEF S!OpenStream
  <2>2. /\ gen = "start" /\ got = <<>> /\ read = 0 /\ part = <<>> /\ sent = <<>> /\ exit = "none"
        /\ Counts(<<>>, 0) /\ Len(<<>>) = 0 /\ Chunks \in Nat /\ UNCHANGED <<gen, got, exit>>
    BY <1>0, <2>1, CountsEmpty, BoundsAssumption
       DEF HandlerInv, WayInv, EncoderInv, StateInv, encoder
  <2>3. WayInv'
    BY <2>1, <2>2 DEF HandlerInv, WayInv, S!Encoded
  <2>4. BodyInv'
    BY <2>1, <2>2 DEF HandlerInv, WayInv, BodyInv, Body, S!Encoded
  <2>5. HeaderExact' /\ CleanMeansComplete'
    BY <2>1, <2>2 DEF HandlerInv, WayInv, HeaderExact, CleanMeansComplete, S!Speech
  <2> QED  BY <2>3, <2>4, <2>5 DEF HandlerInv
<1>2. CASE S!Validate \/ S!Authenticate \/ S!CheckInput \/ S!ListVoices
           \/ (S!OpenStream /\ S!Encoded /\ ~req.ffmpeg)
  <2>1. /\ pc \in {"parse", "auth", "input", "encode"}
        /\ UNCHANGED <<req, engine, read, part, sent, header>>
        /\ \/ pc' \in {"auth", "input", "encode"} /\ UNCHANGED <<status, end>>
           \/ pc' = "done" /\ status' # 200
           \/ pc' = "done" /\ req.route = "voices" /\ req.token = "accepted"
        /\ pc' \in {"input", "encode"} => req.token = "accepted"
    BY <1>2 DEF HandlerInv, WayInv, S!Validate, S!Authenticate, S!CheckInput, S!ListVoices,
                S!OpenStream, S!Goto, S!Plain, S!Refuse, S!Answer, S!audio
  <2>2. UNCHANGED <<gen, got, exit, fault>>
    BY <1>0 DEF encoder
  <2>3. WayInv' /\ BodyInv'
    BY <2>1, <2>2 DEF HandlerInv, WayInv, BodyInv, S!Encoded
  <2>4. HeaderExact' /\ CleanMeansComplete'
    BY <2>1, <2>2 DEF HandlerInv, WayInv, HeaderExact, CleanMeansComplete, S!Speech
  <2> QED  BY <2>3, <2>4 DEF HandlerInv
<1> QED  BY <1>1, <1>2 DEF Handle, S!Handle, S!OpenStream

(* Two stretches of the same length and start are the same.                *)
LEMMA CountsSame ==
  ASSUME NEW n \in Nat, NEW s, NEW t, Counts(s, n), Counts(t, n), Len(s) = Len(t)
  PROVE  s = t
BY SeqEqual DEF Counts

(* What the engine yields next goes on where the audio so far ends.        *)
LEMMA YieldedCounts ==
  ASSUME NEW n \in Nat, NEW m \in Nat, n < m, read = n, read' = m
  PROVE  Counts(S!Yielded, n) /\ Len(S!Yielded) = m - n
<1>1. m - n \in Nat
  OBVIOUS
<1>2. S!Yielded = [i \in 1..(m - n) |-> n + i]
  BY DEF S!Yielded
<1>3. S!Yielded \in [1..(m - n) -> Nat]
  BY <1>2
<1>4. S!Yielded \in Seq(Nat) /\ Len(S!Yielded) = m - n
  BY <1>1, <1>3
<1> QED  BY <1>1, <1>2, <1>4 DEF Counts

(* While the encoder runs, the handler waits.                              *)
LEMMA RunKeeps ==
  ASSUME EncoderInv, EncoderInv', HandlerInv, Start \/ Run
  PROVE  HandlerInv'
<1>0. UNCHANGED <<req, pc, status, engine, part, header, sent, end, read>>
  BY DEF Start, Run, handler
<1>1. [Next]_vars
  BY DEF Start, Run, Next, Generate, Fail
<1>2. /\ fault # "none" => fault' # "none"
      /\ gen' = "start" => gen = "start" /\ UNCHANGED <<exit, got>>
      /\ exit' = "raised" => got' = got /\ (exit = "raised" \/ gen = "start")
  BY <1>1, EncoderVisible
<1>3. CASE Start
  <2>1. /\ pc \in {"collect", "stream"} /\ S!Encoded /\ gen = "start" /\ UNCHANGED got
        /\ gen' # "yield" /\ exit' \notin {"closed", "cancelled"}
    BY <1>3 DEF Start, Encoding, Spawn, SpawnRaises, EncoderInv, StateInv
  <2>2. WayInv' /\ BodyInv'
    BY <1>0, <1>2, <2>1 DEF HandlerInv, WayInv, BodyInv, Body, S!Encoded
  <2> QED  BY <1>0, <1>2, <2>2 DEF HandlerInv, HeaderExact, CleanMeansComplete, S!Speech, S!Encoded
<1>4. CASE Run
  <2>1. \/ UNCHANGED <<gen, exit, got>>
        \/ gen = "cleanup" /\ gen' = "ended" /\ UNCHANGED <<exit, got>>
        \/ gen = "read" /\ gen' = "cleanup" /\ exit' = "eof" /\ UNCHANGED got
        \/ gen = "read" /\ gen' = "yield" /\ UNCHANGED exit /\ Len(got) < Len(got')
    <3>1. CASE Feed \/ StdinLost \/ ReadStderr \/ Encode
      BY <3>1 DEF Feed, SourceYields, Drained, DrainRaises, SourceEnds, StdinLost, ReadStderr,
                  Encode, ReadInput, Warn, WriteOutput, Finish, Killed, Reaped
    <3>2. CASE SourceRaises \/ Crash \/ CancelChildren \/ Gather
      BY <3>2 DEF SourceRaises, Crash, CancelChildren, Gather, pipes
    <3>3. CASE ReadEOF
      BY <3>3 DEF ReadEOF, Cleanup
    <3>4. CASE ReadOutput
      <4>1. PICK n \in 1..Len(out) : got' = got \o SubSeq(out, 1, n)
        BY <3>4 DEF ReadOutput
      <4>2. Counts(got, 0) /\ Counts(out, Len(got))
        BY DEF EncoderInv, FlowInv
      <4>3. Len(got) \in Nat /\ Len(out) \in Nat
        BY <4>2 DEF Counts
      <4>4. Len(got') = Len(got) + n
        BY <4>1, <4>2, <4>3, CountsSplit, CountsConcat
      <4> QED  BY <3>4, <4>3, <4>4 DEF ReadOutput
    <3> QED  BY <1>4, <3>1, <3>2, <3>3, <3>4 DEF Run
  <2>2. WayInv'
    BY <1>0, <1>2, <2>1 DEF HandlerInv, WayInv, S!Encoded, EncoderInv, StateInv
  <2>3. BodyInv'
    <3>1. pc \in {"collect", "stream"} => Len(Body) = read
      BY DEF HandlerInv, BodyInv
    <3> QED  BY <1>0, <2>1, <3>1 DEF HandlerInv, BodyInv, Body, S!Encoded
  <2> QED  BY <1>0, <1>2, <2>2, <2>3
             DEF HandlerInv, HeaderExact, CleanMeansComplete, S!Speech, S!Encoded
<1> QED  BY <1>3, <1>4

(* It takes all that is there and asks on.                                 *)
LEMMA TakeKeeps ==
  ASSUME EncoderInv, EncoderInv', HandlerInv, Take
  PROVE  HandlerInv' /\ (S!Collect \/ S!Send)
<1>1. /\ pc \in {"collect", "stream"} /\ S!Encoded /\ gen = "yield" /\ gen' = "read"
      /\ UNCHANGED <<exit, got, fault>> /\ read' = Len(got)
      /\ IF req.stream THEN sent' = got /\ UNCHANGED part ELSE part' = got /\ UNCHANGED sent
      /\ UNCHANGED <<req, pc, status, envelope, engine, header, end>>
  BY DEF Take, Encoding, Taken, pipes
<1>2. /\ Counts(got, 0) /\ Len(got) \in Nat /\ Len(got) <= Chunks /\ read < Len(got)
      /\ engine = "live" /\ Counts(Body, 0) /\ Len(Body) = read /\ read \in Nat /\ Chunks \in Nat
      /\ pc = "stream" <=> req.stream
  <2>1. /\ Counts(got, 0) /\ Len(got) \in Nat /\ Len(got) <= Chunks /\ Chunks \in Nat
    <3>1. /\ Counts(got, 0) /\ Counts(out, Len(got)) /\ Counts(coding, Len(got) + Len(out))
          /\ Len(got) + Len(out) + Len(coding) <= pulled
      BY DEF EncoderInv, FlowInv
    <3>2. Len(got) \in Nat /\ Len(out) \in Nat /\ Len(coding) \in Nat
      BY <3>1 DEF Counts
    <3>3. Chunks \in Nat /\ pulled \in Nat /\ pulled <= Chunks
      BY BoundsAssumption DEF EncoderInv, TypeInv
    <3> QED  BY <3>1, <3>2, <3>3
  <2>2. /\ read < Len(got) /\ engine = "live" /\ Counts(Body, 0) /\ Len(Body) = read
        /\ pc = "stream" <=> req.stream
    BY <1>1 DEF HandlerInv, BodyInv
  <2>3. read \in Nat
    BY <2>2 DEF Counts
  <2> QED  BY <2>1, <2>2, <2>3
<1>3. Body' = got /\ status # 0 => pc = "stream"
  BY <1>1, <1>2 DEF Body, HandlerInv, BodyInv
<1>4. got = Body \o S!Yielded
  <2>1. Counts(S!Yielded, read) /\ Len(S!Yielded) = Len(got) - read
    BY <1>1, <1>2, YieldedCounts
  <2>2. Counts(Body \o S!Yielded, 0) /\ Len(Body \o S!Yielded) = Len(got)
    BY <1>2, <2>1, CountsConcat
  <2> QED  BY <1>2, <2>2, CountsSame
<1>5. S!Yields
  BY <1>1, <1>2 DEF S!Yields
<1>6. S!Collect \/ S!Send
  BY <1>1, <1>2, <1>4, <1>5 DEF S!Collect, S!Send, Body
<1>7. WayInv'
  BY <1>1, <1>2 DEF HandlerInv, WayInv, EncoderInv, StateInv, S!Encoded
<1>8. BodyInv'
  BY <1>1, <1>2 DEF HandlerInv, BodyInv, Body, S!Encoded, EncoderInv, StateInv
<1>9. HeaderExact' /\ CleanMeansComplete'
  BY <1>1, <1>2 DEF HandlerInv, WayInv, BodyInv, HeaderExact, CleanMeansComplete, S!Speech
<1> QED  BY <1>6, <1>7, <1>8, <1>9 DEF HandlerInv

(* A clean end of the encoder's stream comes after its last chunk.         *)
LEMMA EndKeeps ==
  ASSUME EncoderInv, EncoderInv', HandlerInv, EncoderEnds
  PROVE  HandlerInv' /\ (S!Collected \/ S!Streamed)
<1>1. /\ pc \in {"collect", "stream"} /\ S!Encoded /\ gen = "ended"
      /\ engine' = IF fault = "source" THEN "failed" ELSE "ended"
      /\ UNCHANGED <<req, part, read, gen, exit, got, fault>>
  BY DEF EncoderEnds, Encoding, encoder, S!Deliver, S!Answer
<1>2. /\ engine = "live" /\ Body = got /\ Len(got) = read /\ read <= Chunks
      /\ exit \in {"eof", "raised"} /\ Counts(got, 0)
      /\ req.token = "accepted" /\ end = "none"
      /\ exit = "raised" => fault = "spawn" /\ read = 0
  <2>1. exit \in {"eof", "raised"} /\ (exit = "raised" => fault = "spawn")
    BY <1>1 DEF HandlerInv, BodyInv, EncoderInv, TypeInv, StateInv
  <2>2. exit = "raised" => got = <<>>
    BY DEF HandlerInv, WayInv
  <2> QED  BY <1>1, <2>1, <2>2 DEF HandlerInv, BodyInv, WayInv, EncoderInv, FlowInv
<1>3. exit = "eof" => got = Source \/ fault # "none"
  BY <1>2, CountsAll, BoundsAssumption DEF EncoderInv, DoneInv
<1>4. CASE pc = "collect" /\ exit = "eof" /\ S!Deliver
  <2>1. /\ pc' = "done" /\ status' = 200 /\ sent' = got /\ ~req.stream
        /\ header' = IF req.format = "wav" THEN S!Sized(Len(sent')) ELSE S!NoHeader
    BY <1>1, <1>2, <1>4 DEF S!Deliver, S!Answer, HandlerInv, BodyInv, Body
  <2>2. S!Collected
    BY <1>1, <1>2, <1>4 DEF S!Collected, S!StreamEnds, S!EngineFails
  <2>3. WayInv' /\ BodyInv'
    BY <1>1, <1>2, <2>1 DEF HandlerInv, WayInv, BodyInv, S!Encoded
  <2>4. HeaderExact' /\ CleanMeansComplete'
    BY <1>1, <1>3, <1>4, <2>1 DEF HeaderExact, CleanMeansComplete, S!Speech, S!Encoded
  <2> QED  BY <2>2, <2>3, <2>4 DEF HandlerInv
<1>5. CASE pc = "collect" /\ exit = "raised" /\ S!Answer(500, FALSE) /\ UNCHANGED <<header, sent>>
  <2>1. pc' = "done" /\ status' = 500
    BY <1>5 DEF S!Answer
  <2>2. S!Collected
    BY <1>1, <1>2, <1>5 DEF S!Collected, S!StreamRaises
  <2>3. WayInv' /\ BodyInv'
    BY <1>1, <1>2, <2>1 DEF HandlerInv, WayInv, BodyInv, S!Encoded
  <2>4. HeaderExact' /\ CleanMeansComplete'
    BY <2>1 DEF HeaderExact, CleanMeansComplete, S!Speech
  <2> QED  BY <2>2, <2>3, <2>4 DEF HandlerInv
<1>6. CASE /\ pc = "stream" /\ pc' = "done"
           /\ end' = IF exit = "eof" THEN "clean" ELSE "broken"
           /\ UNCHANGED <<req, status, envelope, header, sent>>
  <2>1. S!Streamed
    BY <1>1, <1>2, <1>6 DEF S!Streamed, S!StreamEnds, S!StreamRaises, S!EngineFails
  <2>2. WayInv' /\ BodyInv'
    BY <1>1, <1>2, <1>6 DEF HandlerInv, WayInv, BodyInv, S!Encoded
  <2>3. HeaderExact' /\ CleanMeansComplete'
    BY <1>1, <1>2, <1>3, <1>6
       DEF HandlerInv, BodyInv, Body, HeaderExact, CleanMeansComplete, S!Speech, S!Encoded
  <2> QED  BY <2>1, <2>2, <2>3 DEF HandlerInv
<1> QED  BY <1>4, <1>5, <1>6 DEF EncoderEnds

(* A client that leaves ends the response, never cleanly.                  *)
LEMMA LeaveKeeps ==
  ASSUME EncoderInv, EncoderInv', HandlerInv, Leave
  PROVE  HandlerInv'
<1>1. /\ pc = "stream" /\ pc' = "done" /\ end' = "left"
      /\ UNCHANGED <<req, status, read, part, header, sent>>
  BY DEF Leave, S!Leaves
<1>2. /\ \/ UNCHANGED encoder
         \/ S!Encoded /\ (LeaveReading \/ LeaveYielding)
      /\ req.stream /\ req.token = "accepted"
  BY <1>1 DEF Leave, Encoding, HandlerInv, WayInv, BodyInv
<1>3. UNCHANGED got /\ (gen' = "start" \/ exit' = "raised" => gen = "start" \/ exit = "raised")
      /\ (gen' # "start" => S!Encoded)
  BY <1>2 DEF LeaveReading, LeaveYielding, Cleanup, pipes, encoder, HandlerInv, WayInv
<1>4. WayInv' /\ BodyInv'
  BY <1>1, <1>2, <1>3 DEF HandlerInv, WayInv, BodyInv, S!Encoded
<1>5. HeaderExact' /\ CleanMeansComplete'
  BY <1>1, <1>2 DEF HandlerInv, BodyInv, HeaderExact, CleanMeansComplete, S!Speech
<1> QED  BY <1>4, <1>5 DEF HandlerInv

(* PCM and WAV take the engine's chunks one by one, without an encoder.    *)
LEMMA TransmitKeeps ==
  ASSUME EncoderInv, HandlerInv, Transmit
  PROVE  HandlerInv'
<1>0. ~S!Encoded /\ UNCHANGED <<gen, exit, got, fault>> /\ gen = "start"
  BY DEF Transmit, encoder, HandlerInv, WayInv
<1>1. CASE S!Collect \/ S!Send
  <2>1. /\ pc \in {"collect", "stream"} /\ engine = "live" /\ Counts(Body, 0) /\ Len(Body) = read
        /\ read < Chunks /\ req.token = "accepted" /\ end = "none"
    BY <1>1 DEF S!Collect, S!Send, S!Yields, HandlerInv, WayInv, BodyInv
  <2>2. read \in Nat /\ Chunks \in Nat
    BY <2>1, BoundsAssumption DEF Counts
  <2>3. read' = read + 1 /\ UNCHANGED <<req, pc, status, header, end, engine>>
    BY <1>0, <1>1, <2>2 DEF S!Collect, S!Send, S!Yields
  <2>4. Body' = Body \o S!Yielded
    BY <1>1, <2>3 DEF S!Collect, S!Send, Body
  <2>5. Counts(S!Yielded, read) /\ Len(S!Yielded) = 1
    <3>1. read + 1 \in Nat /\ read < read + 1 /\ (read + 1) - read = 1
      BY <2>2
    <3> QED  BY <2>2, <2>3, <3>1, YieldedCounts
  <2>6. Counts(Body', 0) /\ Len(Body') = read' /\ read' <= Chunks
    <3>1. Counts(Body, 0) /\ Counts(S!Yielded, 0 + Len(Body))
      BY <2>1, <2>2, <2>5
    <3>2. Counts(Body \o S!Yielded, 0) /\ Len(Body \o S!Yielded) = Len(Body) + Len(S!Yielded)
      BY <3>1, CountsConcat
    <3> QED  BY <2>1, <2>2, <2>3, <2>4, <2>5, <3>2
  <2>7. WayInv' /\ BodyInv'
    BY <1>0, <2>1, <2>3, <2>6 DEF HandlerInv, WayInv, BodyInv, S!Encoded
  <2>8. HeaderExact' /\ CleanMeansComplete'
    BY <2>1, <2>3 DEF HandlerInv, BodyInv, HeaderExact, CleanMeansComplete, S!Speech
  <2> QED  BY <2>7, <2>8 DEF HandlerInv
<1>2. CASE S!Collected \/ S!Streamed
  <2>1. /\ pc \in {"collect", "stream"} /\ Counts(Body, 0) /\ Len(Body) = read
        /\ read <= Chunks /\ req.token = "accepted"
        /\ pc = "collect" => ~req.stream /\ status = 0
        /\ pc = "stream" => /\ req.stream
                            /\ header = IF req.format = "wav" THEN S!Sentinel ELSE S!NoHeader
    BY <1>2 DEF S!Collected, S!Streamed, HandlerInv, WayInv, BodyInv
  <2>2. S!StreamEnds => Body = Source
    <3>1. S!StreamEnds => read = Chunks
      BY <1>0 DEF S!StreamEnds, S!EngineEnds
    <3> QED  BY <2>1, <3>1, CountsAll
  <2>3. /\ pc' = "done" /\ UNCHANGED <<req, part, read>>
        /\ \/ pc = "collect" /\ status' # 200
           \/ /\ pc = "collect" /\ S!StreamEnds /\ sent' = part
              /\ header' = IF req.format = "wav" THEN S!Sized(Len(sent')) ELSE S!NoHeader
           \/ /\ pc = "stream" /\ UNCHANGED <<sent, header>>
              /\ end' = "clean" => S!StreamEnds
    BY <1>2 DEF S!Collected, S!Streamed, S!Deliver, S!Answer, S!StreamEnds, S!StreamRaises
  <2>4. WayInv' /\ BodyInv'
    BY <1>0, <2>1, <2>3 DEF HandlerInv, WayInv, BodyInv, S!Encoded
  <2>5. HeaderExact'
    BY <2>1, <2>3 DEF HeaderExact, S!Speech
  <2>6. CleanMeansComplete'
    BY <2>1, <2>2, <2>3 DEF CleanMeansComplete, S!Speech, Body
  <2> QED  BY <2>4, <2>5, <2>6 DEF HandlerInv
<1> QED  BY <1>1, <1>2 DEF Transmit, S!Transmit

(* Seen from the encoder, every step of the whole is one of its own.       *)
LEMMA EncoderInSystem == [SystemNext]_system => [Next]_vars
<1> SUFFICES ASSUME [SystemNext]_system  PROVE [Next]_vars
  OBVIOUS
<1>1. CASE UNCHANGED encoder
  BY <1>1 DEF encoder, vars
<1>2. CASE Start \/ Run \/ Take \/ Leave
  BY <1>2 DEF Start, Run, Take, Leave, Next, Generate, Fail, encoder, vars
<1> QED
  BY <1>1, <1>2 DEF SystemNext, EncoderEnds, Handle, Transmit, SystemTerminated, system

(* A step of the whole keeps both invariants, and is one of SpeechService. *)
LEMMA SystemStep ==
  ASSUME EncoderInv, HandlerInv, [SystemNext]_system
  PROVE  EncoderInv' /\ HandlerInv' /\ [S!Next]_(S!vars)
<1>1. EncoderInv'
  BY EncoderInSystem, EncoderStep
<1>2. CASE Start \/ Run
  BY <1>1, <1>2, RunKeeps DEF Start, Run, handler, S!vars
<1>3. CASE Take
  BY <1>1, <1>3, TakeKeeps DEF S!Next, S!Transmit
<1>4. CASE EncoderEnds
  BY <1>1, <1>4, EndKeeps DEF S!Next, S!Transmit
<1>5. CASE Leave
  BY <1>1, <1>5, LeaveKeeps DEF Leave, S!Next
<1>6. CASE Handle
  BY <1>1, <1>6, HandleKeeps DEF Handle, S!Next
<1>7. CASE Transmit
  BY <1>1, <1>7, TransmitKeeps DEF Transmit, S!Next
<1>8. CASE UNCHANGED system
  BY <1>1, <1>8 DEF system, handler, encoder, HandlerInv, WayInv, BodyInv, Body, HeaderExact,
                    CleanMeansComplete, S!Speech, S!Encoded, S!vars
<1> QED
  BY <1>2, <1>3, <1>4, <1>5, <1>6, <1>7, <1>8 DEF SystemNext, SystemTerminated

(* Both invariants hold in every reachable state of the composition.       *)
LEMMA SystemInvariant == System => [](EncoderInv /\ HandlerInv)
<1>1. SystemInit => EncoderInv /\ HandlerInv
  BY EncoderInit, HandlerInit DEF SystemInit
<1>2. EncoderInv /\ HandlerInv /\ [SystemNext]_system => (EncoderInv /\ HandlerInv)'
  BY SystemStep
<1> QED  BY <1>1, <1>2, PTL DEF System

-----------------------------------------------------------------------------

(* What the client gets of an encoded response is the source in its order, *)
(* nothing missing inside, and all of it when nothing failed, whatever the *)
(* sizes of the pipes: the kill in the finally costs no output.            *)
THEOREM OutputFaithfulCorrect == System => []OutputFaithful
BY SystemInvariant, EncoderKeeps, PTL

(* Whatever fails and whenever the client leaves, an ended generator has   *)
(* no task running and its process is reaped or killed.                    *)
THEOREM NothingLeftCorrect == System => []NothingLeft
BY SystemInvariant, EncoderKeeps, PTL

(* Neither the engine nor ffmpeg is put to work without a token that the   *)
(* provider has accepted, for every request.                               *)
THEOREM AudioNeedsTokenCorrect == System => []AudioNeedsToken
<1>1. EncoderInv /\ HandlerInv => AudioNeedsToken
  BY DEF EncoderInv, StateInv, HandlerInv, WayInv, AudioNeedsToken
<1> QED  BY <1>1, SystemInvariant, PTL

(* A WAV header tells the body's true size, or none when streamed, for any *)
(* number of chunks.                                                       *)
THEOREM HeaderExactCorrect == System => []HeaderExact
<1>1. HandlerInv => HeaderExact
  BY DEF HandlerInv
<1> QED  BY <1>1, SystemInvariant, PTL

(* A body that ends cleanly has all of the audio; only an ffmpeg format    *)
(* can hide that something failed.                                         *)
THEOREM CleanMeansCompleteCorrect == System => []CleanMeansComplete
<1>1. HandlerInv => CleanMeansComplete
  BY DEF HandlerInv
<1> QED  BY <1>1, SystemInvariant, PTL

(* The handler with the real encoder behind it implements SpeechService:   *)
(* whatever fails, the encoder hands over a prefix of the audio in its     *)
(* order and ends the way SpeechService assumes.                           *)
THEOREM ServiceKeptCorrect == System => ServiceKept
<1>1. SystemInit => EncoderInv /\ HandlerInv /\ S!Init
  BY EncoderInit, HandlerInit DEF SystemInit
<1>2. EncoderInv /\ HandlerInv /\ [SystemNext]_system => (EncoderInv /\ HandlerInv)'
  BY SystemStep
<1>3. EncoderInv /\ HandlerInv /\ [SystemNext]_system => [S!Next]_(S!vars)
  BY SystemStep
<1> QED  BY <1>1, <1>2, <1>3, PTL DEF System, ServiceKept, S!Spec
=============================================================================
