---------------------------- MODULE AudioChunks ----------------------------
(***************************************************************************)
(* How an engine's audio becomes frames: iter_chunks_with_crossfade cuts   *)
(* one utterance into chunks and fades the first N samples of each into    *)
(* the end of the chunk before it.  The callers are generators of the one  *)
(* engine, which interleave.                                               *)
(*                                                                         *)
(* A sample is an integer.  An emitted sample is N times its value, so     *)
(* that the blend, whose weights are multiples of 1/N, stays an integer.   *)
(***************************************************************************)
EXTENDS Integers, Sequences, SequencesExt

CONSTANTS
  Callers,   (* generators over an utterance each                          *)
  Samples,   (* values of a sample                                         *)
  MaxLen,    (* samples of the longest utterance                           *)
  ChunkSize, (* chunk_size                                                 *)
  N          (* n, the samples that are blended                            *)

(* iter_chunks_with_crossfade refuses N > ChunkSize; the engine's are 240  *)
(* and 4800.                                                               *)
ASSUME AudioAssumption ==
  /\ Samples \subseteq Int /\ MaxLen \in Nat
  /\ N \in Nat \ {0} /\ ChunkSize \in Nat /\ N <= ChunkSize

VARIABLES
  audio,  \* each caller's utterance
  start,  \* where its next chunk starts
  prev,   \* the chunk before, as it was cut; empty before the first
  out     \* what it has emitted

vars == <<audio, start, prev, out>>

Init ==
  /\ audio \in [Callers -> BoundedSeq(Samples, MaxLen)]
  /\ start = [c \in Callers |-> 0]
  /\ prev = [c \in Callers |-> <<>>]
  /\ out = [c \in Callers |-> <<>>]

-----------------------------------------------------------------------------

Smaller(a, b) == IF a < b THEN a ELSE b
Chunk(c) == SubSeq(audio[c], start[c] + 1, Smaller(start[c] + ChunkSize, Len(audio[c])))
Scaled(q) == [i \in DOMAIN q |-> N * q[i]]

(* Mutation: the weights do not add up to one.                             *)
Blend_Loud(tail, head) ==
  [i \in 1..N |-> N * tail[Len(tail) - (i - 1)] + (i - 1) * head[i]]

(* crossfade_blend: from the last sample of the tail backward, and forward *)
(* through the head.                                                       *)
Blend(tail, head) ==
  [i \in 1..N |-> (N - (i - 1)) * tail[Len(tail) - (i - 1)] + (i - 1) * head[i]]

(* Mutation: a blended chunk ends where its blend does, one sample over.   *)
Frame_Short(before, chunk) ==
  IF Len(before) < N \/ Len(chunk) < N
    THEN Scaled(chunk)
    ELSE Blend(before, chunk) \o Scaled(SubSeq(chunk, N + 2, Len(chunk)))

(* What is emitted for a chunk after the chunk before it: verbatim if one  *)
(* of them is too short.                                                   *)
Frame(before, chunk) ==
  IF Len(before) < N \/ Len(chunk) < N
    THEN Scaled(chunk)
    ELSE Blend(before, chunk) \o Scaled(SubSeq(chunk, N + 1, Len(chunk)))

(* Mutation: the chunk before is the engine's, not the caller's.           *)
Remember_Shared(c) == prev' = [d \in Callers |-> Chunk(c)]

Remember(c) == prev' = [prev EXCEPT ![c] = Chunk(c)]

NextChunk(c) ==
  /\ start[c] < Len(audio[c])
  /\ out' = [out EXCEPT ![c] = @ \o Frame(prev[c], Chunk(c))]
  /\ Remember(c)
  /\ start' = [start EXCEPT ![c] = @ + ChunkSize]
  /\ UNCHANGED audio

Terminated == (\A c \in Callers : start[c] >= Len(audio[c])) /\ UNCHANGED vars

Next == Terminated \/ \E c \in Callers : NextChunk(c)

Spec == Init /\ [][Next]_vars

-----------------------------------------------------------------------------
(* Properties *)

(* No sample is lost or added: what is emitted ends where the next chunk   *)
(* starts, and but for the first N samples of a chunk that has one before  *)
(* it every sample is its own.                                             *)
SamplesKept ==
  \A c \in Callers :
    /\ Len(out[c]) = Smaller(start[c], Len(audio[c]))
    /\ \A i \in DOMAIN out[c] :
         (i <= ChunkSize \/ (i - 1) % ChunkSize >= N) => out[c][i] = N * audio[c][i]

(* Where a chunk is blended, it begins with the value the chunk before it  *)
(* ended with: there is no click at the seam.                              *)
NoClick ==
  \A c \in Callers : \A k \in 1..Len(out[c]) \div ChunkSize :
    LET seam == k * ChunkSize
    IN Len(out[c]) >= seam + N => out[c][seam + 1] = out[c][seam]

(* The blend never leaves the range of the samples, so that the conversion *)
(* to 16 bits that follows cannot overflow where the engine's audio does   *)
(* not.                                                                    *)
InRange ==
  \A c \in Callers : \A i \in DOMAIN out[c] :
    \E a, b \in DOMAIN audio[c] : N * audio[c][a] <= out[c][i] /\ out[c][i] <= N * audio[c][b]
=============================================================================
