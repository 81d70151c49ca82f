-------------------------- MODULE TokenAccumulator --------------------------
(***************************************************************************)
(* The text accumulator of a session (class TokenAccumulator): tokens of   *)
(* an LLM go in, segments ready for synthesis come out, cut at sentence    *)
(* boundaries and, failing those, by length.  Characters are told apart    *)
(* only by what the code asks of them: "." stands for . ! and ?, Tab for   *)
(* every blank that str.strip() takes and rfind(" ") does not see: a tab,  *)
(* a carriage return, a no-break space.                                    *)
(***************************************************************************)
EXTENDS Integers, SequencesExt

CONSTANTS
  Letters,   (* characters that are neither blank nor a boundary           *)
  MinFlush,  (* min_flush_chars                                            *)
  MaxToken,  (* bound: characters of one token                             *)
  MaxChars,  (* bound: characters fed, blanks left out                     *)
  MaxText,   (* bound: characters of the text one call works on            *)
  None       (* Python's None: no segment                                  *)

ASSUME LengthsAssumption == /\ MinFlush \in Nat \ {0} /\ MaxToken \in Nat
                            /\ MaxChars \in Nat /\ MaxText \in Nat

Space      == " "
Tab        == "\t"
FlushChars == {".", "\n"}
Blanks     == {Space, Tab, "\n"}
Chars      == Letters \cup FlushChars \cup Blanks

ASSUME LettersAssumption == Letters \cap (FlushChars \cup Blanks) = {}
ASSUME NoneAssumption    == None \notin Seq(Chars)

VARIABLES
  buffer,    \* _buffer
  returned,  \* the segments the last call returned
  text,      \* history: the text the last call worked on
  fed,       \* history: the characters fed, blanks left out
  spoken     \* history: those of them returned in segments

vars == <<buffer, returned, text, fed, spoken>>

Init == /\ buffer = <<>> /\ returned = <<>> /\ text = <<>>
        /\ fed = <<>> /\ spoken = <<>>

-----------------------------------------------------------------------------
(* The slices s[:n] and s[n:].                                             *)
Take(s, n) == SubSeq(s, 1, IF n <= Len(s) THEN n ELSE Len(s))
Drop(s, n) == SubSeq(s, n + 1, Len(s))

IsBlank(s) == \A i \in DOMAIN s : s[i] \in Blanks

(* The characters that are not blank.                                      *)
NonBlank(s) ==
  LET keep[i \in 0..Len(s)] ==
        IF i = 0 THEN <<>>
        ELSE IF s[i] \in Blanks THEN keep[i - 1] ELSE Append(keep[i - 1], s[i])
  IN  keep[Len(s)]

Strip(s) ==
  SubSeq(s, SelectInSeq(s, LAMBDA c : c \notin Blanks),
            SelectLastInSeq(s, LAMBDA c : c \notin Blanks))

(* A cut after n characters; a blank piece is dropped and yields nothing.  *)
Cut(b, n) == [seg  |-> IF IsBlank(Take(b, n)) THEN None ELSE Strip(Take(b, n)),
              rest |-> Drop(b, n)]

(* The loop over the characters of the buffer.  It goes on enumerating the *)
(* buffer it started with after a blank piece has been cut off the front:  *)
(* the positions then lie further right than the text.                     *)
AtBoundary(b) ==
  LET scan[i \in 0..Len(b)] ==
        IF i = 0 THEN [seg |-> None, rest |-> b]
        ELSE IF scan[i - 1].seg # None \/ b[i] \notin FlushChars THEN scan[i - 1]
        ELSE Cut(scan[i - 1].rest, i)
  IN  scan[Len(b)]

(* The split of a long buffer at its last space; there is none in a word.  *)
AtLastSpace(b) ==
  LET p == SelectLastInSeq(b, LAMBDA c : c = Space)
  IN  Cut(b, IF p = 0 THEN MinFlush ELSE p - 1)

(* Mutation: the length of the buffer is not looked at.                    *)
TryExtractOne_NoSplit(b) == AtBoundary(b)

TryExtractOne(b) ==
  LET s == AtBoundary(b)
  IN  IF s.seg = None /\ Len(s.rest) >= MinFlush THEN AtLastSpace(s.rest) ELSE s

(* Mutation: one segment only is taken from each token.                    *)
ExtractSegments_One(b) ==
  LET r == TryExtractOne(b)
  IN  [segs |-> IF r.seg = None THEN <<>> ELSE <<r.seg>>, rest |-> r.rest]

(* The loop ends with the first pass that finds no segment.  Each pass     *)
(* before takes a character at least, so there are Len(b) of them at most. *)
ExtractSegments(b) ==
  LET pass[i \in 0..(Len(b) + 1)] ==
        IF i = 0 THEN [segs |-> <<>>, rest |-> b, more |-> TRUE]
        ELSE LET p == pass[i - 1]
                 r == TryExtractOne(p.rest)
             IN  IF ~p.more THEN p
                 ELSE [segs |-> IF r.seg = None THEN p.segs ELSE Append(p.segs, r.seg),
                       rest |-> r.rest,
                       more |-> r.seg # None]
  IN  pass[Len(b) + 1]

Return(segs) == /\ returned' = segs
                /\ spoken' = spoken \o NonBlank(FlattenSeq(segs))

Add(token) ==
  /\ LET r == ExtractSegments(buffer \o token)
     IN  Return(r.segs) /\ buffer' = r.rest
  /\ text' = buffer \o token
  /\ fed' = fed \o NonBlank(token)

(* Mutation: a blank buffer is returned as a segment.                      *)
Flush_Blank ==
  /\ Return(<<IF IsBlank(buffer) THEN <<>> ELSE Strip(buffer)>>)
  /\ buffer' = <<>> /\ text' = buffer
  /\ UNCHANGED fed

(* Mutation: the buffer is not emptied.                                    *)
Flush_Kept ==
  /\ Return(IF IsBlank(buffer) THEN <<>> ELSE <<Strip(buffer)>>)
  /\ text' = buffer
  /\ UNCHANGED <<buffer, fed>>

Flush ==
  /\ Return(IF IsBlank(buffer) THEN <<>> ELSE <<Strip(buffer)>>)
  /\ buffer' = <<>> /\ text' = buffer
  /\ UNCHANGED fed

Tokens == {t \in BoundedSeq(Chars, MaxToken) : /\ Len(fed) + Len(t) <= MaxChars
                                               /\ Len(buffer) + Len(t) <= MaxText}

Next == (\E token \in Tokens : Add(token)) \/ Flush

Spec == Init /\ [][Next]_vars

-----------------------------------------------------------------------------
(* What was fed is spoken or still in the buffer: in order, nothing lost,  *)
(* nothing said twice.                                                     *)
NothingLost == fed = spoken \o NonBlank(buffer)

(* Every segment has something to say and no blank around it.              *)
SegmentsSpeakable ==
  \A i \in DOMAIN returned : /\ ~IsBlank(returned[i])
                             /\ returned[i] = Strip(returned[i])

(* No sentence stays behind: a boundary never waits in the buffer for the  *)
(* next token, however many sentences one token completes.                 *)
NoSentenceWaits == \A i \in DOMAIN buffer : buffer[i] \notin FlushChars

(* The sentences of a text, blank ones included: the reference the scan is *)
(* compared with.                                                          *)
Sentences(s) ==
  LET ends == {i \in DOMAIN s : s[i] \in FlushChars}
      end[n \in 0..Cardinality(ends)] ==
        IF n = 0 THEN 0 ELSE Min({i \in ends : i > end[n - 1]})
  IN  [n \in 1..Cardinality(ends) |-> SubSeq(s, end[n - 1] + 1, end[n])]

Cuts(s) == [n \in DOMAIN Sentences(s) |->
              IF IsBlank(Sentences(s)[n]) THEN <<>> ELSE Strip(Sentences(s)[n])]

(* A text whose boundaries all end a sentence is cut at each of them, in   *)
(* order, before anything is cut by length.                                *)
CutAtBoundaries ==
  (\A n \in DOMAIN Sentences(text) : ~IsBlank(Sentences(text)[n]))
    => IsPrefix(Cuts(text), returned)

(* A buffer is as long as min_flush_chars only where the split by length   *)
(* finds nothing to say: behind a leading space, the space at which it is  *)
(* tried, or behind as many blanks of the text, none of them a space, that *)
(* it has just cut off and dropped.                                        *)
LongBehindBlanks ==
  Len(buffer) >= MinFlush =>
    \/ buffer[1] = Space
    \/ \E d \in MinFlush..Len(text) :
         /\ buffer = Drop(text, d)
         /\ \A j \in (d - MinFlush + 1)..d : text[j] \in Blanks \ {Space}

(* README.md:161: text is flushed on "sentence boundaries - any of . ! ?   *)
(* \n".  After an empty line the scan cuts where there is none.            *)
OnlyAtBoundaries ==
  [][(\E token \in Tokens : Add(token)) /\ Len(text') < MinFlush
       => returned' = SelectSeq(Cuts(text'), LAMBDA p : p # <<>>)]_vars
=============================================================================
