-------------------------- MODULE SpanishNormalizer --------------------------
(***************************************************************************)
(* What is done to a segment before it is spoken (class SpanishNormalizer):*)
(* protected parts are replaced by placeholders, a series of regular       *)
(* expressions turns numbers and signs into words, each over the result of *)
(* the one before, and the protected parts are put back.                   *)
(*                                                                         *)
(* A text is a sequence of tokens: words, runs of digits, single signs.    *)
(* Words that stand together without a space are one word of the text, so  *)
(* that a pattern may match a part of it.  num2words(n) is the token       *)
(* Said(n).  A run has at most 15 digits; case is left out.                *)
(***************************************************************************)
EXTENDS Integers, Sequences, SequencesExt

CONSTANTS
  Texts,     (* the segments checked                                       *)
  Exclusions,(* values of normalizer_excluded_patterns                     *)
  HourFormats(* values of hour_format                                      *)

VARIABLES text, excluded, hour_format,  \* the segment, and the settings
          spoken                        \* what normalize() returned, or <<>>

vars == <<text, excluded, hour_format, spoken>>

Word(w)   == <<"word", w>>
Num(ds)   == <<"num", ds>>
Sign(c)   == <<"sign", c>>
Said(n)   == <<"said", n>>
Hidden(k) == <<"hidden", k>>   \* the placeholder of the k-th protected part
Sp        == Sign(" ")

Kinds == {"postal_code", "hash", "url", "email"}

ASSUME SettingsAssumption == /\ \A e \in Exclusions : e \subseteq Kinds
                             /\ HourFormats \subseteq {"24h", "12h"}

-----------------------------------------------------------------------------
(* Regular expressions over tokens.  Span(t, i) is the number of tokens    *)
(* that a pattern matches at i, 0 if none.                                 *)

At(t, i) == IF i \in DOMAIN t THEN t[i] ELSE <<"edge", 0>>

IsSign(t, i, signs) == At(t, i)[1] = "sign" /\ At(t, i)[2] \in signs
IsWord(t, i, words) == At(t, i)[1] = "word" /\ At(t, i)[2] \in words
IsNum(t, i, lengths) == At(t, i)[1] = "num" /\ Len(At(t, i)[2]) \in lengths
InWord(t, i) == At(t, i)[1] \in {"word", "num", "said"}               \* \w

(* The length of the longest run of tokens from i on that pass the test.   *)
Run(t, i, Test(_, _)) ==
  CHOOSE n \in 0..Len(t) : /\ \A j \in i..(i + n - 1) : j \in DOMAIN t /\ Test(t, j)
                           /\ ~(i + n \in DOMAIN t /\ Test(t, i + n))

Space(t, i)    == IsSign(t, i, {" "})
NoSpace(t, i)  == ~Space(t, i)
Spaces(t, i)   == Run(t, i, Space)                                    \* \s*

(* (?<![\w.,]) before and (?![\w.]) after token i.                         *)
Alone(t, i) == /\ ~InWord(t, i - 1) /\ ~IsSign(t, i - 1, {".", ","})
               /\ ~InWord(t, i + 1) /\ ~IsSign(t, i + 1, {"."})

(* Pattern.sub: every match, leftmost first, is replaced by Put(k, match). *)
Sub(t, Span(_, _), Put(_, _)) ==
  LET matches[i \in 1..(Len(t) + 1)] ==
        IF i > Len(t) THEN <<>>
        ELSE IF Span(t, i) = 0 THEN matches[i + 1]
        ELSE <<<<i, i + Span(t, i)>>>> \o matches[i + Span(t, i)]
      ms      == matches[1]
      from(k) == IF k = 1 THEN 1 ELSE ms[k - 1][2]
      piece(k) == SubSeq(t, from(k), ms[k][1] - 1)
                  \o Put(k, SubSeq(t, ms[k][1], ms[k][2] - 1))
  IN  FlattenSeq([k \in 1..Len(ms) |-> piece(k)])
      \o SubSeq(t, from(Len(ms) + 1), Len(t))

(* int(): the value of a run of digits.                                    *)
Value(ds) == FoldLeft(LAMBDA n, d : 10 * n + d, 0, ds)

SayNum(tok) == Said(Value(tok[2]))
Words(ws) == [i \in 1..(2 * Len(ws) - 1) |->
                IF i % 2 = 0 THEN Sp ELSE Word(ws[(i + 1) \div 2])]

-----------------------------------------------------------------------------
(* Protected parts *)

UrlSpan(t, i) ==
  LET n == Run(t, i + 2, NoSpace)
  IN  IF IsWord(t, i, {"https"}) /\ IsSign(t, i + 1, {"://"}) /\ n > 0 THEN 2 + n ELSE 0

InLocal(t, i)  == InWord(t, i) \/ IsSign(t, i, {".", "+", "-"})
InDomain(t, i) == InWord(t, i) \/ IsSign(t, i, {".", "-"})

(* The domain ends with the word behind its last dot that has one.         *)
EmailSpan(t, i) ==
  LET local == Run(t, i, InLocal)
      first == i + local + 1
      dots  == {j \in (first + 1)..(first + Run(t, first, InDomain) - 1) :
                  IsSign(t, j, {"."}) /\ InWord(t, j + 1)}
      last  == CHOOSE j \in dots : \A k \in dots : k <= j
  IN  IF local > 0 /\ IsSign(t, i + local, {"@"}) /\ dots # {}
      THEN last + 1 + Run(t, last + 1, InWord) - i ELSE 0

(* Eight digits or more (hexadecimal ones in the code).                    *)
HashSpan(t, i) ==
  IF IsNum(t, i, 8..15) /\ ~InWord(t, i - 1) /\ ~InWord(t, i + 1) THEN 1 ELSE 0

PostalSpan(t, i) == IF IsNum(t, i, {5}) /\ Alone(t, i) THEN 1 ELSE 0

(* The text and the parts protected so far, by the number of their key.    *)
Protect(tp, kind, Span(_, _)) ==
  LET t == tp[1]  n == Len(tp[2])
      starts[i \in 1..(Len(t) + 1)] ==
        IF i > Len(t) THEN <<>>
        ELSE IF Span(t, i) = 0 THEN starts[i + 1]
        ELSE <<SubSeq(t, i, i + Span(t, i) - 1)>> \o starts[i + Span(t, i)]
  IN  IF kind \notin excluded THEN tp
      ELSE <<Sub(t, Span, LAMBDA k, m : <<Hidden(n + k)>>), tp[2] \o starts[1]>>

(* Mutation: every part is protected under the same key.                   *)
Restore_OneKey(t, parts) ==
  FlattenSeq([i \in 1..Len(t) |->
    IF t[i][1] = "hidden" THEN parts[Len(parts)] ELSE <<t[i]>>])

Restore(t, parts) ==
  FlattenSeq([i \in 1..Len(t) |->
    IF t[i][1] = "hidden" THEN parts[t[i][2]] ELSE <<t[i]>>])

-----------------------------------------------------------------------------
(* Numbers *)

DateSpan(t, i) ==
  IF /\ IsNum(t, i, 1..2) /\ ~InWord(t, i - 1) /\ IsSign(t, i + 1, {"/", "-"})
     /\ IsNum(t, i + 2, 1..2) /\ IsSign(t, i + 3, {"/", "-"})
     /\ IsNum(t, i + 4, 2..4) /\ ~InWord(t, i + 5) THEN 5 ELSE 0

Months == <<"enero", "febrero", "marzo", "abril", "mayo", "junio", "julio",
            "agosto", "septiembre", "octubre", "noviembre", "diciembre">>

Date(k, m) ==
  LET month == Value(m[3][2])
      year  == Value(m[5][2]) + (IF Len(m[5][2]) = 4 THEN 0 ELSE 2000)
  IN  <<Word("el"), Sp, SayNum(m[1]), Sp, Word("de"), Sp,
        IF month \in 1..12 THEN Word(Months[month]) ELSE m[3],
        Sp, Word("de"), Sp, Said(year)>>

(* \s*(am|pm|AM|PM)?\b: the spaces belong to the match before a word, too. *)
TimeSpan(t, i) ==
  LET s == Spaces(t, i + 3)
      n == IF IsWord(t, i + 3 + s, {"am", "pm"}) /\ ~InWord(t, i + 4 + s) THEN 4 + s
           ELSE IF ~InWord(t, i + 3 + s) THEN 3
           ELSE IF s > 0 THEN 3 + s ELSE 0
  IN  IF /\ IsNum(t, i, 1..2) /\ ~InWord(t, i - 1)
         /\ IsSign(t, i + 1, {":"}) /\ IsNum(t, i + 2, {2}) THEN n ELSE 0

Time(k, m) ==
  LET minutes == Value(m[3][2])
      half    == hour_format = "12h" /\ m[Len(m)][1] = "word"
      period  == IF half THEN <<Sp>> \o Words(<<"de", "la",
                        IF m[Len(m)][2] = "am" THEN "mañana" ELSE "tarde">>)
                 ELSE <<>>
  IN  <<SayNum(m[1]), Sp>>
      \o (IF minutes = 0 THEN Words(<<"en", "punto">>)
          ELSE IF minutes = 30 /\ half THEN Words(<<"y", "media">>)
          ELSE <<Word("y"), Sp, Said(minutes)>>)
      \o period

(* \d+(?:[.,]\d+)? and the sign or word behind it.                         *)
Fraction(t, i) == IsSign(t, i + 1, {".", ","}) /\ IsNum(t, i + 2, 1..15)

AmountSpan(t, i, Unit(_, _)) ==
  LET behind(n) == n + Spaces(t, i + n)
  IN  IF ~IsNum(t, i, 1..15) THEN 0
      ELSE IF Fraction(t, i) /\ Unit(t, i + behind(3)) THEN behind(3) + 1
      ELSE IF Unit(t, i + behind(1)) THEN behind(1) + 1 ELSE 0

PercentSpan(t, i) == AmountSpan(t, i, LAMBDA u, j : IsSign(u, j, {"%"}))

Decimal(k, m) == <<SayNum(m[1]), Sp, Word("coma"), Sp, SayNum(m[3])>>

Percentage(k, m) ==
  (IF Len(m) > 1 /\ IsSign(m, 2, {".", ","}) THEN Decimal(k, m) ELSE <<SayNum(m[1])>>)
  \o <<Sp>> \o Words(<<"por", "ciento">>)

DecimalSpan(t, i) == IF IsNum(t, i, 1..15) /\ Fraction(t, i) THEN 3 ELSE 0

EuroSpan(t, i) ==
  AmountSpan(t, i, LAMBDA u, j : IsSign(u, j, {"€"}) \/ IsWord(u, j, {"euro", "euros"}))

PrefixSpan(t, i) ==
  LET j == i + 1 + Spaces(t, i + 1)
  IN  IF ~(IsSign(t, i, {"€"}) /\ IsNum(t, j, 1..15)) THEN 0
      ELSE j - i + (IF Fraction(t, j) THEN 3 ELSE 1)

(* num.replace(): the separators are dropped.                              *)
Euros(k, m) ==
  LET digits == FlattenSeq([i \in 1..Len(m) |-> IF m[i][1] = "num" THEN m[i][2] ELSE <<>>])
  IN  <<Said(Value(digits)), Sp, Word("euros")>>

IntegerSpan(t, i) == IF IsNum(t, i, 1..15) /\ Alone(t, i) THEN 1 ELSE 0

Integer(k, m) == <<SayNum(m[1])>>

-----------------------------------------------------------------------------
(* Words and signs *)

(* Split at its signs and joined with spaces.                              *)
Spaced(m) ==
  LET inner(i) == \E j, k \in DOMAIN m : j < i /\ i < k /\ InWord(m, j) /\ InWord(m, k)
  IN  FlattenSeq([i \in 1..Len(m) |->
        IF InWord(m, i) THEN <<m[i]>>
        ELSE IF inner(i) /\ InWord(m, i + 1) THEN <<Sp>> ELSE <<>>])

Email(k, m) ==
  LET at == CHOOSE i \in 1..Len(m) : m[i] = Sign("@")
  IN  Spaced(SubSeq(m, 1, at - 1)) \o <<Sp, Word("arroba"), Sp>>
      \o Spaced(SubSeq(m, at + 1, Len(m)))

HashtagSpan(t, i) ==
  LET n == Run(t, i + 1, InWord) IN IF IsSign(t, i, {"#"}) /\ n > 0 THEN 1 + n ELSE 0

MentionSpan(t, i) ==
  LET n == Run(t, i + 1, InWord)
  IN  IF IsSign(t, i, {"@"}) /\ ~InWord(t, i - 1) /\ n > 0 THEN 1 + n ELSE 0

Hashtag(k, m) == <<Word("hashtag"), Sp>> \o Tail(m)
Mention(k, m) == <<Word("arroba"), Sp>> \o Tail(m)

(* One of each length, the longest first; a full stop follows each.        *)
Abbreviations == <<
  [short |-> <<Word("p"), Sign("."), Sp, Word("ej")>>, long |-> <<"por", "ejemplo">>],
  [short |-> <<Word("srta")>>, long |-> <<"señorita">>],
  [short |-> <<Word("etc")>>, long |-> <<"etcétera">>],
  [short |-> <<Word("s"), Sign("."), Word("a")>>, long |-> <<"sociedad", "anónima">>],
  [short |-> <<Word("dr")>>, long |-> <<"doctor">>],
  [short |-> <<Word("ud")>>, long |-> <<"usted">>]>>

Abbreviate(t, a) ==
  LET short == Append(a.short, Sign("."))
      span(u, i) == IF \A j \in DOMAIN short : At(u, i + j - 1) = short[j]
                    THEN Len(short) ELSE 0
  IN  Sub(t, span, LAMBDA k, m : Words(a.long))

AmpersandSpan(t, i) ==
  LET s == Spaces(t, i)  e == Spaces(t, i + s + 1)
  IN  IF s > 0 /\ IsSign(t, i + s, {"&"}) /\ e > 0 THEN s + 1 + e ELSE 0

Ampersand(k, m) == <<Sp, Word("y"), Sp>>

-----------------------------------------------------------------------------
(* normalize() *)

Hide(t) ==
  Protect(Protect(Protect(Protect(<<t, <<>>>>, "url", UrlSpan),
    "email", EmailSpan), "hash", HashSpan), "postal_code", PostalSpan)

(* Mutations: percentages are left to the end; amounts go before decimals. *)
Numbers_Late(t) ==
  LET dated == Sub(Sub(t, DateSpan, Date), TimeSpan, Time)
      spoke == Sub(Sub(dated, DecimalSpan, Decimal), EuroSpan, Euros)
  IN  Sub(Sub(Sub(spoke, PrefixSpan, Euros), IntegerSpan, Integer), PercentSpan, Percentage)

Numbers_EurosFirst(t) ==
  LET dated   == Sub(Sub(t, DateSpan, Date), TimeSpan, Time)
      charged == Sub(Sub(dated, EuroSpan, Euros), PrefixSpan, Euros)
      parts   == Sub(Sub(charged, PercentSpan, Percentage), DecimalSpan, Decimal)
  IN  Sub(parts, IntegerSpan, Integer)

Numbers(t) ==
  LET dated   == Sub(Sub(t, DateSpan, Date), TimeSpan, Time)
      parts   == Sub(Sub(dated, PercentSpan, Percentage), DecimalSpan, Decimal)
      charged == Sub(Sub(parts, EuroSpan, Euros), PrefixSpan, Euros)
  IN  Sub(charged, IntegerSpan, Integer)

Phrases(t) ==
  LET mailed  == IF "email" \in excluded THEN t ELSE Sub(t, EmailSpan, Email)
      handled == Sub(Sub(mailed, HashtagSpan, Hashtag), MentionSpan, Mention)
  IN  Sub(FoldLeft(Abbreviate, handled, Abbreviations), AmpersandSpan, Ampersand)

Normalized(t) ==
  LET hidden == Hide(t) IN Restore(Phrases(Numbers(hidden[1])), hidden[2])

Init == /\ text \in Texts /\ excluded \in Exclusions /\ hour_format \in HourFormats
        /\ spoken = <<>>

Normalize == /\ spoken = <<>> /\ spoken' = Normalized(text)
             /\ UNCHANGED <<text, excluded, hour_format>>

Next == Normalize

Spec == Init /\ [][Next]_vars
=============================================================================
