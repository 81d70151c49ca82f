--------------------------- MODULE NormalizerForms ---------------------------
(***************************************************************************)
(* What a listener hears: the reading of the forms that the design has a   *)
(* row for (docs/superpowers/specs/2026-06-29-fase-2-normalizacion-        *)
(* espanol.md:68), written down without regard to how the normalizer finds *)
(* them.  Where the normalizer keeps to the design, the reading is the     *)
(* design's.  Where it does not, in Departures, it is the normalizer's own *)
(* and the design's stands beside it.                                      *)
(***************************************************************************)
EXTENDS SpanishNormalizer

(* A form and its reading.                                                 *)
Form(written, read) == [text |-> written, read |-> read]
Same(written)       == Form(written, written)

(* A protected form is read as it is written, or else as another would be. *)
Guarded(kept, kind, written, read) ==
  Form(written, IF kind \in kept THEN written ELSE read)

(* What follows a number in words.                                         *)
Then(n, ws) == <<Said(n), Sp>> \o Words(ws)
Coma        == <<Said(3), Sp, Word("coma"), Sp, Said(14)>>
Pi          == <<Num(<<3>>), Sign(","), Num(<<1, 4>>)>>

Numerals == {
  Form(<<Num(<<3, 0>>)>>, <<Said(30)>>),
  Form(<<Num(<<5, 0>>), Sign("%")>>, Then(50, <<"por", "ciento">>)),
  Form(Pi \o <<Sp, Sign("%")>>, Coma \o <<Sp>> \o Words(<<"por", "ciento">>)),
  Form(Pi, Coma)}

Prefixed == {Form(<<Sign("€"), Num(<<5, 0>>)>>, Then(50, <<"euros">>))}

Amounts == Prefixed \cup {
  Form(<<Num(<<5, 0>>), Sign("€")>>, Then(50, <<"euros">>)),
  Form(<<Num(<<5>>), Sp, Word("euros")>>, Then(5, <<"euros">>))}

Addresses(kept) == {
  Guarded(kept, "postal_code", <<Num(<<2, 8, 0, 1, 3>>)>>, <<Said(28013)>>),
  Guarded(kept, "hash", <<Num(<<1, 2, 3, 4, 5, 6, 7, 8>>)>>, <<Said(12345678)>>),
  Guarded(kept, "url", <<Word("https"), Sign("://"), Word("x"), Sign("/"), Num(<<5>>)>>,
                 <<Word("https"), Sign("://"), Word("x"), Sign("/"), Said(5)>>)}

Phrased == {
  Form(<<Sign("#"), Word("ola")>>, Words(<<"hashtag", "ola">>)),
  Form(<<Sign("@"), Word("ana")>>, Words(<<"arroba", "ana">>)),
  Form(<<Word("dr"), Sign(".")>>, <<Word("doctor")>>),
  Form(<<Word("p"), Sign("."), Sp, Word("ej"), Sign(".")>>, Words(<<"por", "ejemplo">>)),
  Same(<<Word("hola")>>), Same(<<Word("sal"), Word("ud")>>)}

(* Row 4: the design has "quince de marzo de dos mil veinticuatro", with   *)
(* no article.                                                             *)
Day(d, month, y) ==
  <<Word("el"), Sp, Said(d), Sp>> \o Words(<<"de", month, "de">>) \o <<Sp, Said(y)>>

Dates == {
  Form(<<Num(<<0, 5>>), Sign("/"), Num(<<3>>), Sign("/"), Num(<<2, 0, 2, 4>>)>>,
       Day(5, "marzo", 2024)),
  Form(<<Num(<<3, 1>>), Sign("-"), Num(<<1, 2>>), Sign("-"), Num(<<9, 9>>)>>,
       Day(31, "diciembre", 2099))}

(* Row 5: the design has "las quince treinta" and "las tres y media de la  *)
(* tarde", with an article and, in 24h, without "y".                       *)
Three == <<Num(<<3>>), Sign(":")>>

Times(hours) == {
  Form(Three \o <<Num(<<0, 0>>)>>, Then(3, <<"en", "punto">>)),
  Form(Three \o <<Num(<<1, 0>>)>>, <<Said(3), Sp, Word("y"), Sp, Said(10)>>),
  Form(Three \o <<Num(<<3, 0>>), Sp, Word("pm")>>,
       IF hours = "12h" THEN Then(3, <<"y", "media", "de", "la", "tarde">>)
                        ELSE <<Said(3), Sp, Word("y"), Sp, Said(30)>>)}

(* Row 2: the design has "foo arroba bar punto com", dots included.        *)
Emails(kept) == {
  Guarded(kept, "email", <<Word("foo"), Sign("."), Word("bar"), Sign("@"), Word("x"), Sign("."), Word("es")>>,
                   Words(<<"foo", "bar", "arroba", "x", "es">>))}

(* Rows 11 and 12: the design has "arroba" for an @ that stands alone and  *)
(* "sonriendo" for the emoticon.  The normalizer has no rule for either.   *)
Unread == {Same(<<Sign("@")>>), Same(<<Sign(":)")>>)}

Departures(kept, hours) == Dates \cup Times(hours) \cup Emails(kept) \cup Unread

Forms(kept, hours) ==
  Numerals \cup Amounts \cup Addresses(kept) \cup Phrased \cup Departures(kept, hours)

(* What stands between two forms, and how it reads.                        *)
Glues == {Same(<<Sp>>), Same(<<Sign(","), Sp>>), Same(<<Sign("."), Sp>>),
          Form(<<Sp, Sign("&"), Sp>>, <<Sp, Word("y"), Sp>>)}

FormTexts ==
  LET all == Forms({}, "24h")
  IN  {f.text \o s.text \o g.text : f \in all, s \in Glues, g \in all}

-----------------------------------------------------------------------------
(* The readings that the order of the expressions, or one of them, spoils. *)

Last1(s) == s[Len(s)]

(* A form whose text ends in a number: a whole one, or a time.             *)
InDigits(f) == Last1(f.text)[1] = "num" /\ Last1(f.read) # Last1(f.text)
Clock(f)    == InDigits(f) /\ At(f.text, 2) = Sign(":")
Whole(f)    == InDigits(f) /\ ~Clock(f) /\ f \notin Dates \cup {Form(Pi, Coma)}

(* A whole number at the end of a sentence stays in digits: (?![\w.]).     *)
LeftInDigits(f, s) == Whole(f) /\ f \notin Prefixed /\ s.text[1] = Sign(".")

(* A time takes the space before a word or a number with it.               *)
SpaceTaken(f, s, g) == Clock(f) /\ s.text = <<Sp>> /\ InWord(g.text, 1)

(* A sign before an amount is taken by the number before it.               *)
SignTaken(f, s, g) == Whole(f) /\ s.text = <<Sp>> /\ g \in Prefixed

(* The end of a word is taken for an abbreviation.                         *)
WordCut(f, s) == f.text = <<Word("sal"), Word("ud")>> /\ s.text[1] = Sign(".")

Spoiled(f, s, g) == \/ LeftInDigits(f, s)   \/ SpaceTaken(f, s, g)
                    \/ SignTaken(f, s, g)   \/ WordCut(f, s)

-----------------------------------------------------------------------------
(* Every form is read the same whatever form stands beside it, as the      *)
(* design says or as Departures has it: no expression takes a part of what *)
(* another was to read, nor a part of what it was not to touch.  The pairs *)
(* for which this is false of the code are Spoiled.                        *)
FormsRead ==
  LET forms == Forms(excluded, hour_format)
  IN  spoken # <<>> =>
        \A f \in {f \in forms : IsPrefix(f.text, text)}, s \in Glues, g \in forms :
          text = f.text \o s.text \o g.text /\ ~Spoiled(f, s, g)
            => spoken = f.read \o s.read \o g.read

(* The number a token stands for, if any; the year 24 is the year 2024.    *)
Heard(tok) ==
  CASE tok[1] = "num"                    -> <<Value(tok[2]) % 2000>>
    [] tok[1] = "said"                   -> <<tok[2] % 2000>>
    [] tok = Word("punto")               -> <<0>>
    [] tok = Word("media")               -> <<30>>
    [] \E m \in 1..12 : tok = Word(Months[m]) -> <<CHOOSE m \in 1..12 : tok = Word(Months[m])>>
    [] OTHER                             -> <<>>

NumbersOf(t) == FlattenSeq([i \in 1..Len(t) |-> Heard(t[i])])

(* Whatever the text, each of its numbers is heard or kept once, in its    *)
(* place and with its value, and no placeholder is left for the engine to  *)
(* read: not even where two patterns want the same digits.                 *)
NumbersKept ==
  spoken # <<>> => /\ NumbersOf(spoken) = NumbersOf(text)
                   /\ \A i \in DOMAIN spoken : spoken[i][1] # "hidden"
=============================================================================
