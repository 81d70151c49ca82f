----------------------- MODULE TokenAccumulatorProofs -----------------------
(***************************************************************************)
(* The accumulator loses no text and cuts where a sentence ends, for any   *)
(* alphabet, any token and any length limit.                               *)
(***************************************************************************)
EXTENDS TokenAccumulator, SequenceTheorems, FiniteSetTheorems, WellFoundedInduction, TLAPS

-----------------------------------------------------------------------------
(* Induction, over sets instead of predicates                              *)

(* A set of natural numbers has a least element.                           *)
LEMMA Least ==
  ASSUME NEW T \in SUBSET Nat, T # {}
  PROVE  \E x \in T : \A y \in T : x <= y
<1>1. IsWellFoundedOn({ss \in Nat \X Nat : ss[1] < ss[2]}, Nat)
  BY NatLessThanWellFounded DEF OpToRel
<1>2. PICK x \in T : \A y \in T : <<y, x>> \notin {ss \in Nat \X Nat : ss[1] < ss[2]}
  BY <1>1, WFMin, T \subseteq Nat, Zenon
<1>3. ASSUME NEW y \in T PROVE x <= y
  <2>1. x \in Nat /\ y \in Nat
    OBVIOUS
  <2>2. CASE y < x
    <3>1. <<y, x>> \in {ss \in Nat \X Nat : ss[1] < ss[2]}
      BY <2>1, <2>2
    <3>2. QED
      BY <3>1, <1>2
  <2>3. QED
    BY <2>1, <2>2
<1>4. QED
  BY <1>3

(* A set with 0 that is closed under the successor has all of them.        *)
LEMMA Induct ==
  ASSUME NEW T, 0 \in T, \A n \in Nat : n \in T => n + 1 \in T
  PROVE  \A n \in Nat : n \in T
<1> DEFINE F == Nat \ T
<1> SUFFICES ASSUME F # {} PROVE FALSE
  OBVIOUS
<1>1. PICK x \in F : \A y \in F : x <= y
  BY Least
<1>2. x - 1 \in Nat /\ x - 1 \notin F
  BY <1>1
<1>3. QED
  BY <1>1, <1>2

(* f makes m steps, from c on.                                             *)
Iterates(f, S, c, step, m) ==
  f \in [0..m -> S] /\ f[0] = c /\ \A i \in 1..m : f[i] = step[f[i - 1]][i]

(* Any number of steps can be made.                                        *)
LEMMA Recursion ==
  ASSUME NEW S, NEW c \in S, NEW step, NEW m \in Nat,
         \A x \in S : \A i \in Nat : step[x][i] \in S
  PROVE  \E f : Iterates(f, S, c, step, m)
<1> DEFINE T == {n \in Nat : \E f : Iterates(f, S, c, step, n)}
<1>1. 0 \in T
  <2> DEFINE g == [i \in 0..0 |-> c]
  <2>1. Iterates(g, S, c, step, 0)
    BY DEF Iterates
  <2> HIDE DEF g
  <2>2. QED
    BY <2>1
<1>2. ASSUME NEW n \in Nat, n \in T PROVE n + 1 \in T
  <2>1. PICK f : Iterates(f, S, c, step, n)
    BY <1>2
  <2> DEFINE g == [i \in 0..(n + 1) |-> IF i <= n THEN f[i] ELSE step[f[n]][n + 1]]
  <2>2. step[f[n]][n + 1] \in S
    BY <2>1 DEF Iterates
  <2>3. g \in [0..(n + 1) -> S] /\ g[0] = c
    BY <2>1, <2>2 DEF Iterates
  <2>4. ASSUME NEW i \in 1..(n + 1) PROVE g[i] = step[g[i - 1]][i]
    <3>1. CASE i <= n
      BY <2>1, <3>1 DEF Iterates
    <3>2. CASE i = n + 1
      <4>1. n \in 0..(n + 1) /\ n + 1 \in 0..(n + 1) /\ n <= n /\ ~(n + 1 <= n) /\ i - 1 = n
        BY <3>2
      <4>2. QED
        BY <3>2, <4>1
    <3>3. QED
      BY <3>1, <3>2
  <2>5. Iterates(g, S, c, step, n + 1)
    BY <2>3, <2>4 DEF Iterates
  <2> HIDE DEF g
  <2>6. QED
    BY <2>5
<1> HIDE DEF T
<1>3. m \in T
  BY <1>1, <1>2, Induct
<1>4. QED
  BY <1>3 DEF T

(* f and g start alike and step alike, m times.                            *)
StepAlike(f, g, m) == /\ f[0] = g[0]
                      /\ \A i \in 1..m : f[i - 1] = g[i - 1] => f[i] = g[i]

(* Two functions that start alike and step alike are alike.                *)
LEMMA SameRecursion ==
  ASSUME NEW f, NEW g, NEW m \in Nat, StepAlike(f, g, m)
  PROVE  \A i \in 0..m : f[i] = g[i]
<1> DEFINE T == {n \in Nat : n <= m => f[n] = g[n]}
<1>1. 0 \in T
  BY DEF StepAlike
<1>2. ASSUME NEW n \in Nat, n \in T PROVE n + 1 \in T
  <2>1. CASE n + 1 <= m
    <3>1. f[n] = g[n] /\ n + 1 \in 1..m /\ (n + 1) - 1 = n
      BY <1>2, <2>1
    <3>2. f[n + 1] = g[n + 1]
      BY <3>1 DEF StepAlike
    <3>3. QED
      BY <3>2
  <2>2. QED
    BY <2>1
<1> HIDE DEF T
<1>3. \A n \in Nat : n \in T
  BY <1>1, <1>2, Induct
<1>4. QED
  BY <1>3 DEF T

-----------------------------------------------------------------------------
(* What is left without the blanks                                         *)

KeepStep(s) ==
  [x \in Seq(Chars) |-> [i \in Nat |->
     IF i \in 1..Len(s) /\ s[i] \notin Blanks THEN Append(x, s[i]) ELSE x]]

(* NonBlank goes through its text character by character.                  *)
LEMMA Keeping ==
  ASSUME NEW s \in Seq(Chars)
  PROVE  \E keep : Iterates(keep, Seq(Chars), <<>>, KeepStep(s), Len(s)) /\ NonBlank(s) = keep[Len(s)]
<1> DEFINE keep == CHOOSE f : f = [i \in 0..Len(s) |->
                     IF i = 0 THEN <<>>
                     ELSE IF s[i] \in Blanks THEN f[i - 1] ELSE Append(f[i - 1], s[i])]
<1>0. Len(s) \in Nat /\ <<>> \in Seq(Chars)
  OBVIOUS
<1>1. NonBlank(s) = keep[Len(s)]
  BY DEF NonBlank
<1>2. \A x \in Seq(Chars) : \A i \in Nat : KeepStep(s)[x][i] \in Seq(Chars)
  BY DEF KeepStep
<1>3. PICK f : Iterates(f, Seq(Chars), <<>>, KeepStep(s), Len(s))
  BY <1>0, <1>2, Recursion, Zenon
<1>4. /\ f = [i \in 0..Len(s) |-> f[i]] /\ f[0] = <<>>
      /\ \A i \in 1..Len(s) :
           f[i] = IF s[i] \in Blanks THEN f[i - 1] ELSE Append(f[i - 1], s[i])
  <2>1. f \in [0..Len(s) -> Seq(Chars)] /\ f[0] = <<>>
    BY <1>3 DEF Iterates
  <2>2. ASSUME NEW i \in 1..Len(s)
        PROVE  f[i] = IF s[i] \in Blanks THEN f[i - 1] ELSE Append(f[i - 1], s[i])
    <3>1. f[i] = KeepStep(s)[f[i - 1]][i]
      BY <1>3, Zenon DEF Iterates
    <3>2. i \in Nat /\ i - 1 \in 0..Len(s)
      BY <1>0
    <3>3. f[i - 1] \in Seq(Chars)
      BY <2>1, <3>2
    <3>4. QED
      BY <3>1, <3>2, <3>3 DEF KeepStep
  <2>3. QED
    BY <2>1, <2>2
<1> DEFINE Kept(g) == [i \in 0..Len(s) |->
                        IF i = 0 THEN <<>>
                        ELSE IF s[i] \in Blanks THEN g[i - 1] ELSE Append(g[i - 1], s[i])]
<1>5. f = Kept(f)
  <2>1. ASSUME NEW i \in 0..Len(s) PROVE f[i] = Kept(f)[i]
    <3>1. CASE i = 0
      BY <1>4, <3>1
    <3>2. CASE i # 0
      <4>1. i \in 1..Len(s)
        BY <1>0, <3>2
      <4>2. QED
        BY <1>4, <3>2, <4>1, Zenon
    <3>3. QED
      BY <3>1, <3>2
  <2>2. QED
    BY <1>4, <2>1, Zenon
<1>6. keep = Kept(keep)
  BY <1>5, Zenon
<1> HIDE DEF keep
<1>7. \A i \in 0..Len(s) : keep[i] = f[i]
  <2>1. keep[0] = f[0]
    BY <1>5, <1>6
  <2>2. ASSUME NEW i \in 1..Len(s), keep[i - 1] = f[i - 1] PROVE keep[i] = f[i]
    <3>1. i \in 0..Len(s) /\ i # 0
      BY <1>0
    <3>2. keep[i] = IF s[i] \in Blanks THEN keep[i - 1] ELSE Append(keep[i - 1], s[i])
      BY <1>6, <3>1, Zenon
    <3>3. QED
      BY <1>4, <3>2, <2>2, Zenon
  <2>3. StepAlike(keep, f, Len(s)) /\ Len(s) \in Nat
    BY <1>0, <2>1, <2>2 DEF StepAlike
  <2>4. QED
    BY <2>3, SameRecursion, Zenon
<1>8. NonBlank(s) = f[Len(s)]
  BY <1>0, <1>1, <1>7
<1>9. QED
  BY <1>3, <1>8

(* Of nothing, nothing is left.                                            *)
LEMMA NonBlankEmpty == NonBlank(<<>>) = <<>>
<1>1. <<>> \in Seq(Chars) /\ Len(<<>>) = 0
  OBVIOUS
<1>2. QED
  BY <1>1, Keeping DEF Iterates

(* The type of what is left.                                               *)
LEMMA NonBlankType ==
  ASSUME NEW s \in Seq(Chars)
  PROVE  NonBlank(s) \in Seq(Chars)
<1>1. PICK keep : Iterates(keep, Seq(Chars), <<>>, KeepStep(s), Len(s))
                  /\ NonBlank(s) = keep[Len(s)]
  BY Keeping
<1>2. Len(s) \in 0..Len(s)
  OBVIOUS
<1>3. QED
  BY <1>1, <1>2 DEF Iterates

(* A character more.                                                       *)
LEMMA NonBlankAppend ==
  ASSUME NEW s \in Seq(Chars), NEW c \in Chars
  PROVE  NonBlank(Append(s, c)) = IF c \in Blanks THEN NonBlank(s) ELSE Append(NonBlank(s), c)
<1> DEFINE t == Append(s, c)
<1>1. /\ t \in Seq(Chars) /\ Len(t) = Len(s) + 1 /\ t[Len(s) + 1] = c /\ Len(s) \in Nat
      /\ \A i \in 1..Len(s) : t[i] = s[i]
  OBVIOUS
<1> HIDE DEF t
<1>2. PICK f : Iterates(f, Seq(Chars), <<>>, KeepStep(s), Len(s)) /\ NonBlank(s) = f[Len(s)]
  BY Keeping
<1>3. PICK g : Iterates(g, Seq(Chars), <<>>, KeepStep(t), Len(t)) /\ NonBlank(t) = g[Len(t)]
  BY <1>1, Keeping
<1>4. \A i \in 0..Len(s) : f[i] = g[i]
  <2>1. f[0] = g[0]
    BY <1>2, <1>3 DEF Iterates
  <2>2. ASSUME NEW i \in 1..Len(s), f[i - 1] = g[i - 1] PROVE f[i] = g[i]
    <3>1. i \in Nat /\ i \in 1..Len(t) /\ i - 1 \in 0..Len(s) /\ t[i] = s[i]
      BY <1>1
    <3>2. f[i] = KeepStep(s)[f[i - 1]][i] /\ g[i] = KeepStep(t)[g[i - 1]][i]
          /\ f[i - 1] \in Seq(Chars)
      BY <1>2, <1>3, <3>1 DEF Iterates
    <3>3. QED
      BY <2>2, <3>1, <3>2 DEF KeepStep
  <2>3. StepAlike(f, g, Len(s)) /\ Len(s) \in Nat
    BY <1>1, <2>1, <2>2 DEF StepAlike
  <2>4. QED
    BY <2>3, SameRecursion, Zenon
<1>5. /\ g[Len(s) + 1] = KeepStep(t)[g[Len(s)]][Len(s) + 1] /\ g[Len(s)] = NonBlank(s)
      /\ g[Len(s)] \in Seq(Chars)
  <2>1. Len(s) + 1 \in 1..Len(t) /\ Len(s) \in 0..Len(s) /\ (Len(s) + 1) - 1 = Len(s)
        /\ Len(s) \in 0..Len(t)
    BY <1>1
  <2>2. QED
    BY <1>2, <1>3, <1>4, <2>1 DEF Iterates
<1>6. NonBlank(t) = IF c \in Blanks THEN NonBlank(s) ELSE Append(NonBlank(s), c)
  BY <1>1, <1>3, <1>5 DEF KeepStep
<1>7. QED
  BY <1>6 DEF t

(* A sequence that is not empty is a shorter one and its last element.     *)
LEMMA LastApart ==
  ASSUME NEW S, NEW s \in Seq(S), NEW n \in Nat, Len(s) = n + 1
  PROVE  \E r \in Seq(S), c \in S : s = Append(r, c) /\ Len(r) = n
<1> DEFINE r == SubSeq(s, 1, n)
<1>1. r \in Seq(S) /\ Len(r) = n /\ s[n + 1] \in S /\ \A i \in 1..n : r[i] = s[i]
  OBVIOUS
<1>2. Append(r, s[n + 1]) \in Seq(S) /\ Len(Append(r, s[n + 1])) = n + 1
      /\ \A i \in 1..(n + 1) : Append(r, s[n + 1])[i] = s[i]
  BY <1>1
<1>3. s = Append(r, s[n + 1])
  BY <1>2, SeqEqual
<1> HIDE DEF r
<1>4. QED
  BY <1>1, <1>3

(* Appending after putting together.                                       *)
LEMMA ConcatAppend ==
  ASSUME NEW S, NEW s \in Seq(S), NEW t \in Seq(S), NEW c \in S
  PROVE  s \o Append(t, c) = Append(s \o t, c)
<1>1. /\ s \o t \in Seq(S) /\ Len(s \o t) = Len(s) + Len(t) /\ Len(s) \in Nat /\ Len(t) \in Nat
      /\ Append(t, c) \in Seq(S) /\ Len(Append(t, c)) = Len(t) + 1
  OBVIOUS
<1>2. /\ s \o Append(t, c) \in Seq(S) /\ Append(s \o t, c) \in Seq(S)
      /\ Len(s \o Append(t, c)) = Len(s) + Len(t) + 1
      /\ Len(Append(s \o t, c)) = Len(s) + Len(t) + 1
  BY <1>1
<1>3. ASSUME NEW i \in 1..(Len(s) + Len(t) + 1)
      PROVE  (s \o Append(t, c))[i] = Append(s \o t, c)[i]
  BY <1>1
<1>4. QED
  BY <1>2, <1>3, SeqEqual

(* Of three texts it does not matter which two are put together first.     *)
LEMMA ThreePieces ==
  \A x \in Seq(Chars) : \A y \in Seq(Chars) : \A z \in Seq(Chars) :
    (x \o y) \o z = x \o (y \o z)
<1>1. ASSUME NEW x \in Seq(Chars), NEW y \in Seq(Chars), NEW z \in Seq(Chars)
      PROVE  (x \o y) \o z = x \o (y \o z)
  BY ConcatAssociative
<1>2. QED
  BY <1>1

(* What is left of two texts is left of each.                              *)
LEMMA NonBlankConcat ==
  ASSUME NEW s \in Seq(Chars), NEW t \in Seq(Chars)
  PROVE  NonBlank(s \o t) = NonBlank(s) \o NonBlank(t)
<1> DEFINE T == {n \in Nat : \A u \in Seq(Chars) :
                   Len(u) = n => NonBlank(s \o u) = NonBlank(s) \o NonBlank(u)}
<1>1. 0 \in T
  <2>1. ASSUME NEW u \in Seq(Chars), Len(u) = 0
        PROVE  NonBlank(s \o u) = NonBlank(s) \o NonBlank(u)
    <3>1. u = <<>> /\ s \o u = s
      BY <2>1
    <3>2. QED
      BY <3>1, NonBlankEmpty, NonBlankType
  <2>2. QED
    BY <2>1
<1>2. ASSUME NEW n \in Nat, n \in T PROVE n + 1 \in T
  <2>1. ASSUME NEW u \in Seq(Chars), Len(u) = n + 1
        PROVE  NonBlank(s \o u) = NonBlank(s) \o NonBlank(u)
    <3>1. PICK r \in Seq(Chars), c \in Chars : u = Append(r, c) /\ Len(r) = n
      BY <2>1, LastApart
    <3>2. s \o u = Append(s \o r, c) /\ s \o r \in Seq(Chars)
      BY <3>1, ConcatAppend
    <3>3. NonBlank(s \o r) = NonBlank(s) \o NonBlank(r)
      BY <1>2, <3>1
    <3>4. CASE c \in Blanks
      BY <3>1, <3>2, <3>3, <3>4, NonBlankAppend
    <3>5. CASE c \notin Blanks
      <4>1. NonBlank(s \o u) = Append(NonBlank(s) \o NonBlank(r), c)
            /\ NonBlank(u) = Append(NonBlank(r), c)
        BY <3>1, <3>2, <3>3, <3>5, NonBlankAppend
      <4>2. NonBlank(s) \in Seq(Chars) /\ NonBlank(r) \in Seq(Chars)
        BY NonBlankType
      <4>3. ASSUME NEW a \in Seq(Chars), NEW b \in Seq(Chars)
            PROVE  a \o Append(b, c) = Append(a \o b, c)
        BY ConcatAppend
      <4>4. NonBlank(s) \o Append(NonBlank(r), c) = Append(NonBlank(s) \o NonBlank(r), c)
        BY <4>2, <4>3, Zenon
      <4>5. QED
        BY <4>1, <4>4, Zenon
    <3>6. QED
      BY <3>4, <3>5
  <2>2. QED
    BY <2>1
<1> HIDE DEF T
<1>3. Len(t) \in T
  BY <1>1, <1>2, Induct
<1>4. QED
  BY <1>3 DEF T

(* Nothing is left of blanks.                                              *)
LEMMA NonBlankOfBlank ==
  ASSUME NEW s \in Seq(Chars), IsBlank(s)
  PROVE  NonBlank(s) = <<>>
<1> DEFINE T == {n \in Nat : \A u \in Seq(Chars) : Len(u) = n /\ IsBlank(u) => NonBlank(u) = <<>>}
<1>1. 0 \in T
  <2>1. ASSUME NEW u \in Seq(Chars), Len(u) = 0 PROVE NonBlank(u) = <<>>
    <3>1. u = <<>>
      BY <2>1
    <3>2. QED
      BY <3>1, NonBlankEmpty
  <2>2. QED
    BY <2>1
<1>2. ASSUME NEW n \in Nat, n \in T PROVE n + 1 \in T
  <2>1. ASSUME NEW u \in Seq(Chars), Len(u) = n + 1, IsBlank(u) PROVE NonBlank(u) = <<>>
    <3>1. PICK r \in Seq(Chars), c \in Chars : u = Append(r, c) /\ Len(r) = n
      BY <2>1, LastApart
    <3>2. c \in Blanks
      <4>1. u[n + 1] = c /\ n + 1 \in DOMAIN u
        BY <2>1, <3>1
      <4>2. QED
        BY <2>1, <4>1 DEF IsBlank
    <3>3. IsBlank(r)
      <4>1. ASSUME NEW i \in DOMAIN r PROVE r[i] \in Blanks
        <5>1. i \in DOMAIN u /\ u[i] = r[i]
          BY <2>1, <3>1
        <5>2. QED
          BY <2>1, <5>1 DEF IsBlank
      <4>2. QED
        BY <4>1 DEF IsBlank
    <3>4. NonBlank(r) = <<>>
      BY <1>2, <3>1, <3>3
    <3>5. QED
      BY <3>1, <3>2, <3>4, NonBlankAppend
  <2>2. QED
    BY <2>1
<1> HIDE DEF T
<1>3. Len(s) \in T
  BY <1>1, <1>2, Induct
<1>4. QED
  BY <1>3 DEF T

-----------------------------------------------------------------------------
(* strip() and the slices                                                  *)

(* A bounded set of positions has a greatest element.                      *)
LEMMA Greatest ==
  ASSUME NEW m \in Nat, NEW T \in SUBSET (0..m), T # {}
  PROVE  \E x \in T : \A y \in T : y <= x
<1> DEFINE F == {k \in Nat : \A y \in T : y <= k}
<1>1. m \in F
  OBVIOUS
<1>2. PICK k \in F : \A j \in F : k <= j
  BY <1>1, Least
<1>3. CASE k \in T
  BY <1>2, <1>3
<1>4. CASE k \notin T
  <2>1. \A y \in T : y < k
    BY <1>2, <1>4
  <2>2. k - 1 \in Nat
    <3>1. PICK y : y \in T
      OBVIOUS
    <3>2. y \in Nat /\ y < k /\ k \in Nat
      BY <1>2, <2>1, <3>1
    <3>3. QED
      BY <3>2
  <2>3. \A y \in T : y \in Nat /\ y <= k - 1
    BY <1>2, <2>1
  <2>4. k - 1 \in F
    BY <2>2, <2>3
  <2>5. QED
    BY <1>2, <2>4
<1>5. QED
  BY <1>3, <1>4

(* What strip() leaves of a text that is not blank.                        *)
LEMMA StripBounds ==
  ASSUME NEW s \in Seq(Chars), ~IsBlank(s)
  PROVE  \E p \in 1..Len(s), q \in 1..Len(s) :
           /\ p <= q /\ s[p] \notin Blanks /\ s[q] \notin Blanks
           /\ \A i \in 1..Len(s) : i < p \/ i > q => s[i] \in Blanks
           /\ Strip(s) = SubSeq(s, p, q)
<1> DEFINE I == {i \in 1..Len(s) : s[i] \notin Blanks}
<1>1. I # {} /\ I \in SUBSET Nat /\ I \in SUBSET (0..Len(s)) /\ Len(s) \in Nat
  BY DEF IsBlank
<1>2. Strip(s) = SubSeq(s, Min(I), Max(I))
  BY <1>1 DEF Strip, SelectInSeq, SelectLastInSeq
<1>3. Min(I) \in I /\ \A y \in I : Min(I) <= y
  <2>1. \E x \in I : \A y \in I : x <= y
    BY <1>1, Least
  <2> HIDE DEF I
  <2>2. QED
    BY <2>1 DEF Min
<1>4. Max(I) \in I /\ \A y \in I : y <= Max(I)
  <2>1. \E x \in I : \A y \in I : y <= x
    BY <1>1, Greatest
  <2>2. \E x \in I : \A y \in I : x >= y
    BY <2>1
  <2>3. Max(I) \in I /\ \A y \in I : Max(I) >= y
    <3> HIDE DEF I
    <3>1. QED
      BY <2>2 DEF Max
  <2>4. QED
    BY <2>3
<1>5. ASSUME NEW i \in 1..Len(s), i < Min(I) \/ i > Max(I) PROVE s[i] \in Blanks
  BY <1>3, <1>4, <1>5
<1>6. QED
  BY <1>2, <1>3, <1>4, <1>5

(* A text that begins and ends with no blank stays as it is.               *)
LEMMA StripTight ==
  ASSUME NEW s \in Seq(Chars), s # <<>>, s[1] \notin Blanks, s[Len(s)] \notin Blanks
  PROVE  ~IsBlank(s) /\ Strip(s) = s
<1>1. Len(s) \in Nat \ {0} /\ 1 \in DOMAIN s
  OBVIOUS
<1>2. ~IsBlank(s)
  BY <1>1 DEF IsBlank
<1>3. PICK p \in 1..Len(s), q \in 1..Len(s) :
           /\ p <= q /\ s[p] \notin Blanks /\ s[q] \notin Blanks
           /\ \A i \in 1..Len(s) : i < p \/ i > q => s[i] \in Blanks
           /\ Strip(s) = SubSeq(s, p, q)
  BY <1>2, StripBounds
<1>4. p = 1 /\ q = Len(s)
  BY <1>1, <1>3
<1>5. SubSeq(s, 1, Len(s)) = s
  BY SubSeqFull
<1>6. QED
  BY <1>2, <1>3, <1>4, <1>5

(* A piece has its own positions.                                          *)
LEMMA Piece ==
  ASSUME NEW S, NEW s \in Seq(S), NEW a \in Nat \ {0}, NEW z \in Nat, z <= Len(s), a <= z + 1
  PROVE  /\ SubSeq(s, a, z) \in Seq(S) /\ Len(SubSeq(s, a, z)) = z - a + 1
         /\ \A i \in 1..(z - a + 1) : SubSeq(s, a, z)[i] = s[a + i - 1]
OBVIOUS

(* Two adjacent pieces are one.                                            *)
LEMMA TwoPieces ==
  ASSUME NEW S, NEW s \in Seq(S), NEW a \in Nat \ {0}, NEW m \in Nat, NEW z \in Nat,
         a <= m + 1, m <= z, z <= Len(s)
  PROVE  SubSeq(s, a, m) \o SubSeq(s, m + 1, z) = SubSeq(s, a, z)
<1> DEFINE u == SubSeq(s, a, m)  v == SubSeq(s, m + 1, z)  w == SubSeq(s, a, z)
<1>1. /\ u \in Seq(S) /\ Len(u) = m - a + 1
      /\ \A i \in 1..Len(u) : u[i] = s[a + i - 1]
  BY Piece
<1>2. /\ v \in Seq(S) /\ Len(v) = z - m
      /\ \A i \in 1..Len(v) : v[i] = s[m + i]
  OBVIOUS
<1>3. /\ w \in Seq(S) /\ Len(w) = z - a + 1
      /\ \A i \in 1..Len(w) : w[i] = s[a + i - 1]
  BY Piece
<1> HIDE DEF u, v, w
<1>4. /\ u \o v \in Seq(S) /\ Len(u \o v) = Len(u) + Len(v) /\ Len(u) \in Nat /\ Len(v) \in Nat
      /\ \A i \in 1..Len(u) : (u \o v)[i] = u[i]
      /\ \A i \in 1..Len(v) : (u \o v)[Len(u) + i] = v[i]
  <2>1. u \in Seq(S) /\ v \in Seq(S)
    BY <1>1, <1>2
  <2>2. QED
    BY <2>1
<1>5. Len(u \o v) = Len(w)
  BY <1>1, <1>2, <1>3, <1>4
<1>6. ASSUME NEW i \in 1..Len(w) PROVE (u \o v)[i] = w[i]
  <2>1. CASE i <= Len(u)
    <3>1. i \in 1..Len(u)
      BY <1>4, <2>1
    <3>2. (u \o v)[i] = u[i] /\ u[i] = s[a + i - 1] /\ w[i] = s[a + i - 1]
      BY <1>1, <1>3, <1>4, <3>1, Zenon
    <3>3. QED
      BY <3>2
  <2>2. CASE i > Len(u)
    <3>1. i - Len(u) \in 1..Len(v) /\ Len(u) + (i - Len(u)) = i
      BY <1>1, <1>2, <1>3, <2>2
    <3>2. (u \o v)[i] = s[m + (i - Len(u))]
      BY <1>2, <1>4, <3>1
    <3>3. m + (i - Len(u)) = a + i - 1
      BY <1>1, <1>3
    <3>4. QED
      BY <1>3, <3>2, <3>3
  <2>3. QED
    <3>1. i <= Len(u) \/ i > Len(u)
      BY <1>3, <1>4
    <3>2. QED
      BY <3>1, <2>1, <2>2, Zenon
<1>7. u \o v = w
  BY <1>3, <1>4, <1>5, <1>6, SeqEqual
<1>8. QED
  BY <1>7 DEF u, v, w

(* A text is what lies before a position and what lies behind it.          *)
LEMMA NonBlankPieces ==
  ASSUME NEW s \in Seq(Chars), NEW k \in 0..Len(s)
  PROVE  NonBlank(s) = NonBlank(SubSeq(s, 1, k)) \o NonBlank(SubSeq(s, k + 1, Len(s)))
<1> DEFINE u == SubSeq(s, 1, k)  w == SubSeq(s, k + 1, Len(s))
<1>1. u \in Seq(Chars) /\ w \in Seq(Chars) /\ k \in Nat /\ Len(s) \in Nat /\ k <= Len(s)
  OBVIOUS
<1>2. u \o w = SubSeq(s, 1, Len(s))
  <2>1. s \in Seq(Chars) /\ 1 \in Nat \ {0} /\ 1 <= k + 1 /\ Len(s) <= Len(s)
    BY <1>1
  <2>2. SubSeq(s, 1, k) \o SubSeq(s, k + 1, Len(s)) = SubSeq(s, 1, Len(s))
    BY <1>1, <2>1, TwoPieces, Zenon
  <2>3. QED
    BY <2>2
<1>3. SubSeq(s, 1, Len(s)) = s
  BY SubSeqFull
<1> HIDE DEF u, w
<1>4. NonBlank(u \o w) = NonBlank(u) \o NonBlank(w)
  BY <1>1, NonBlankConcat
<1>5. QED
  BY <1>2, <1>3, <1>4 DEF u, w

(* A segment worth speaking.                                               *)
Speakable(g) == g \in Seq(Chars) /\ ~IsBlank(g) /\ g = Strip(g)

(* strip() takes blanks only, and all it can take.                         *)
LEMMA StripSpeakable ==
  ASSUME NEW s \in Seq(Chars), ~IsBlank(s)
  PROVE  Speakable(Strip(s)) /\ NonBlank(Strip(s)) = NonBlank(s)
<1>1. PICK p \in 1..Len(s), q \in 1..Len(s) :
           /\ p <= q /\ s[p] \notin Blanks /\ s[q] \notin Blanks
           /\ \A i \in 1..Len(s) : i < p \/ i > q => s[i] \in Blanks
           /\ Strip(s) = SubSeq(s, p, q)
  BY StripBounds
<1> DEFINE u == SubSeq(s, p, q)  v == SubSeq(s, 1, p - 1)  w == SubSeq(s, q + 1, Len(s))
<1>2. Len(s) \in Nat /\ p \in Nat \ {0} /\ q \in Nat \ {0} /\ p - 1 \in Nat /\ p <= q /\ q <= Len(s)
  BY <1>1
<1>3. /\ u \in Seq(Chars) /\ Len(u) = q - p + 1
      /\ \A i \in 1..(q - p + 1) : u[i] = s[p + i - 1]
  BY <1>2, Piece
<1>4. u # <<>> /\ u[1] = s[p] /\ u[Len(u)] = s[q]
  <2>1. 1 \in 1..(q - p + 1) /\ q - p + 1 \in 1..(q - p + 1) /\ p + 1 - 1 = p
        /\ p + (q - p + 1) - 1 = q
    BY <1>2
  <2>2. QED
    BY <1>3, <2>1
<1>5. Speakable(u)
  BY <1>1, <1>3, <1>4, StripTight DEF Speakable
<1>6. v \in Seq(Chars) /\ IsBlank(v) /\ w \in Seq(Chars) /\ IsBlank(w)
  <2>1. v \in Seq(Chars) /\ Len(v) = p - 1 /\ \A i \in 1..(p - 1) : v[i] = s[i]
    BY <1>2
  <2>2. w \in Seq(Chars) /\ Len(w) = Len(s) - q /\ \A i \in 1..(Len(s) - q) : w[i] = s[q + i]
    BY <1>2
  <2>3. ASSUME NEW i \in DOMAIN v PROVE v[i] \in Blanks
    BY <1>1, <1>2, <2>1
  <2>4. ASSUME NEW i \in DOMAIN w PROVE w[i] \in Blanks
    <3>1. i \in 1..(Len(s) - q) /\ q + i \in 1..Len(s) /\ q + i > q
      BY <1>2, <2>2
    <3>2. QED
      BY <1>1, <2>2, <3>1
  <2>5. QED
    BY <2>1, <2>2, <2>3, <2>4 DEF IsBlank
<1>7. s = (v \o u) \o w
  <2>1. v \o u = SubSeq(s, 1, q)
    <3>1. 1 <= (p - 1) + 1 /\ p - 1 <= q /\ (p - 1) + 1 = p /\ 1 \in Nat \ {0}
      BY <1>2
    <3>2. QED
      BY <1>2, <3>1, TwoPieces
  <2>2. SubSeq(s, 1, q) \o w = SubSeq(s, 1, Len(s))
    BY <1>2, TwoPieces
  <2>3. SubSeq(s, 1, Len(s)) = s
    BY SubSeqFull
  <2>4. QED
    BY <2>1, <2>2, <2>3
<1> HIDE DEF u, v, w
<1>8. NonBlank(s) = (NonBlank(v) \o NonBlank(u)) \o NonBlank(w)
  <2>1. v \o u \in Seq(Chars)
    BY <1>3, <1>6
  <2>2. NonBlank(v \o u) = NonBlank(v) \o NonBlank(u)
    BY <1>3, <1>6, NonBlankConcat
  <2>3. NonBlank((v \o u) \o w) = NonBlank(v \o u) \o NonBlank(w)
    BY <2>1, <1>6, NonBlankConcat
  <2>4. QED
    BY <1>7, <2>2, <2>3
<1>9. NonBlank(v) = <<>> /\ NonBlank(w) = <<>> /\ NonBlank(u) \in Seq(Chars)
  BY <1>3, <1>6, NonBlankOfBlank, NonBlankType
<1>10. (<<>> \o NonBlank(u)) \o <<>> = NonBlank(u)
  BY <1>9
<1>11. NonBlank(u) = NonBlank(s)
  BY <1>8, <1>9, <1>10
<1>12. QED
  BY <1>1, <1>5, <1>11 DEF u

(* What a pass says of its segment.                                        *)
Voiced(g) == IF g = None THEN <<>> ELSE NonBlank(g)

(* A cut divides the text where it is asked to, or at its end.             *)
LEMMA CutDivides ==
  ASSUME NEW b \in Seq(Chars), NEW n \in Nat
  PROVE  \E k \in 0..Len(b) :
           /\ k = IF n <= Len(b) THEN n ELSE Len(b)
           /\ Cut(b, n).rest = SubSeq(b, k + 1, Len(b))
           /\ Cut(b, n).seg = None => IsBlank(SubSeq(b, 1, k))
           /\ Cut(b, n).seg # None => /\ Cut(b, n).seg = Strip(SubSeq(b, 1, k))
                                      /\ Speakable(Cut(b, n).seg) /\ k > 0
           /\ NonBlank(b) = Voiced(Cut(b, n).seg) \o NonBlank(Cut(b, n).rest)
<1> DEFINE k == IF n <= Len(b) THEN n ELSE Len(b)
           u == SubSeq(b, 1, k)
           w == SubSeq(b, k + 1, Len(b))
<1>1. /\ Len(b) \in Nat /\ k \in 0..Len(b)
      /\ n <= Len(b) => k = n
      /\ ~(n <= Len(b)) => k = Len(b)
  OBVIOUS
<1> HIDE DEF k
<1>2. u \in Seq(Chars) /\ Len(u) = k /\ w \in Seq(Chars) /\ Len(w) = Len(b) - k
  BY <1>1
<1>3. Take(b, n) = u
  BY <1>1 DEF Take
<1>4. Drop(b, n) = w
  <2>1. CASE n <= Len(b)
    BY <1>1, <2>1 DEF Drop
  <2>2. CASE n > Len(b)
    <3>1. SubSeq(b, n + 1, Len(b)) = <<>> /\ SubSeq(b, Len(b) + 1, Len(b)) = <<>>
      BY <1>1, <2>2, SubSeqEmpty
    <3>2. QED
      BY <1>1, <2>2, <3>1 DEF Drop
  <2>3. n <= Len(b) \/ n > Len(b)
    BY <1>1
  <2>4. QED
    BY <2>1, <2>2, <2>3, Zenon
<1>5. NonBlank(b) = NonBlank(u) \o NonBlank(w)
  BY <1>1, NonBlankPieces
<1>6. Cut(b, n).seg = (IF IsBlank(u) THEN None ELSE Strip(u)) /\ Cut(b, n).rest = w
  BY <1>3, <1>4 DEF Cut
<1>7. k = 0 => IsBlank(u)
  BY <1>2 DEF IsBlank
<1> HIDE DEF u, w
<1>8. CASE IsBlank(u)
  <2>1. NonBlank(u) = <<>> /\ Voiced(Cut(b, n).seg) = <<>> /\ Cut(b, n).seg = None
    BY <1>2, <1>6, <1>8, NonBlankOfBlank DEF Voiced
  <2>2. QED
    BY <1>1, <1>5, <1>6, <1>8, <2>1 DEF k, u, w
<1>9. CASE ~IsBlank(u)
  <2>1. Speakable(Strip(u)) /\ NonBlank(Strip(u)) = NonBlank(u)
    BY <1>2, <1>9, StripSpeakable
  <2>2. Strip(u) # None
    BY <2>1, NoneAssumption DEF Speakable
  <2>3. Cut(b, n).seg = Strip(u) /\ Voiced(Cut(b, n).seg) = NonBlank(u)
    BY <1>6, <1>9, <2>1, <2>2 DEF Voiced
  <2>4. k > 0
    BY <1>1, <1>7, <1>9
  <2>5. QED
    BY <1>1, <1>5, <1>6, <2>1, <2>2, <2>3, <2>4 DEF k, u, w
<1>10. QED
  BY <1>8, <1>9

-----------------------------------------------------------------------------
(* A pass over the buffer                                                  *)

(* What a pass has: a segment or none, and the rest of the buffer.         *)
Results == [seg : Seq(Chars) \cup {None}, rest : Seq(Chars)]

(* A cut yields such a pair.                                               *)
LEMMA CutType ==
  ASSUME NEW b \in Seq(Chars), NEW n \in Nat
  PROVE  Cut(b, n) \in Results
<1>1. Cut(b, n) = [seg |-> Cut(b, n).seg, rest |-> Cut(b, n).rest]
  BY DEF Cut
<1>2. PICK k \in 0..Len(b) : /\ Cut(b, n).rest = SubSeq(b, k + 1, Len(b))
                             /\ Cut(b, n).seg # None => Speakable(Cut(b, n).seg)
  BY CutDivides
<1>3. Cut(b, n).seg \in Seq(Chars) \cup {None}
  BY <1>2 DEF Speakable
<1>4. Cut(b, n).rest \in Seq(Chars)
  BY <1>2
<1>5. QED
  BY <1>1, <1>3, <1>4 DEF Results

ScanStep(b) ==
  [x \in Results |-> [i \in Nat |->
     IF x.seg # None \/ i \notin 1..Len(b) \/ b[i] \notin FlushChars THEN x ELSE Cut(x.rest, i)]]

(* AtBoundary goes through its text character by character.                *)
LEMMA Scanning ==
  ASSUME NEW b \in Seq(Chars)
  PROVE  \E scan : /\ Iterates(scan, Results, [seg |-> None, rest |-> b], ScanStep(b), Len(b))
                   /\ AtBoundary(b) = scan[Len(b)]
<1> DEFINE first == [seg |-> None, rest |-> b]
           scan == CHOOSE f : f = [i \in 0..Len(b) |->
                     IF i = 0 THEN [seg |-> None, rest |-> b]
                     ELSE IF f[i - 1].seg # None \/ b[i] \notin FlushChars THEN f[i - 1]
                     ELSE Cut(f[i - 1].rest, i)]
<1>0. Len(b) \in Nat /\ first \in Results
  BY DEF Results
<1>1. AtBoundary(b) = scan[Len(b)]
  BY DEF AtBoundary
<1>2. \A x \in Results : \A i \in Nat : ScanStep(b)[x][i] \in Results
  <2>1. ASSUME NEW x \in Results, NEW i \in Nat PROVE ScanStep(b)[x][i] \in Results
    <3>1. x.rest \in Seq(Chars)
      BY DEF Results
    <3>2. Cut(x.rest, i) \in Results
      BY <3>1, CutType
    <3>3. QED
      BY <3>2 DEF ScanStep
  <2>2. QED
    BY <2>1
<1> HIDE DEF first
<1>3. PICK f : Iterates(f, Results, first, ScanStep(b), Len(b))
  BY <1>0, <1>2, Recursion, Zenon
<1>4. /\ f = [i \in 0..Len(b) |-> f[i]] /\ f[0] = first
      /\ \A i \in 1..Len(b) :
           f[i] = IF f[i - 1].seg # None \/ b[i] \notin FlushChars THEN f[i - 1]
                  ELSE Cut(f[i - 1].rest, i)
  <2>1. f \in [0..Len(b) -> Results] /\ f[0] = first
    BY <1>3 DEF Iterates
  <2>2. ASSUME NEW i \in 1..Len(b)
        PROVE  f[i] = IF f[i - 1].seg # None \/ b[i] \notin FlushChars THEN f[i - 1]
                      ELSE Cut(f[i - 1].rest, i)
    <3>1. f[i] = ScanStep(b)[f[i - 1]][i] /\ f[i - 1] \in Results /\ i \in Nat
      BY <1>0, <1>3, <2>1 DEF Iterates
    <3>2. QED
      BY <3>1 DEF ScanStep
  <2>3. QED
    BY <2>1, <2>2
<1> DEFINE Scanned(g) == [i \in 0..Len(b) |->
                     IF i = 0 THEN [seg |-> None, rest |-> b]
                     ELSE IF g[i - 1].seg # None \/ b[i] \notin FlushChars THEN g[i - 1]
                     ELSE Cut(g[i - 1].rest, i)]
<1>5. f = Scanned(f)
  <2>1. ASSUME NEW i \in 0..Len(b) PROVE f[i] = Scanned(f)[i]
    <3>1. CASE i = 0
      BY <1>4, <3>1 DEF first
    <3>2. CASE i # 0
      <4>1. i \in 1..Len(b)
        BY <1>0, <3>2
      <4>2. QED
        BY <1>4, <3>2, <4>1, Zenon
    <3>3. QED
      BY <3>1, <3>2
  <2>2. QED
    BY <1>4, <2>1, Zenon
<1>6. scan = Scanned(scan)
  BY <1>5, Zenon
<1> HIDE DEF scan
<1>7. \A i \in 0..Len(b) : scan[i] = f[i]
  <2>1. scan[0] = f[0]
    BY <1>5, <1>6
  <2>2. ASSUME NEW i \in 1..Len(b), scan[i - 1] = f[i - 1] PROVE scan[i] = f[i]
    <3>1. i \in 0..Len(b) /\ i # 0
      BY <1>0
    <3>2. scan[i] = IF scan[i - 1].seg # None \/ b[i] \notin FlushChars THEN scan[i - 1]
                    ELSE Cut(scan[i - 1].rest, i)
      BY <1>6, <3>1, Zenon
    <3>3. QED
      BY <1>4, <3>2, <2>2, Zenon
  <2>3. StepAlike(scan, f, Len(b)) /\ Len(b) \in Nat
    BY <1>0, <2>1, <2>2 DEF StepAlike
  <2>4. QED
    BY <2>3, SameRecursion, Zenon
<1>8. AtBoundary(b) = f[Len(b)]
  BY <1>0, <1>1, <1>7
<1>9. QED
  BY <1>3, <1>8 DEF first

(* What a pass leaves behind a position: all that is not said, and no      *)
(* boundary that it has come by.                                           *)
Divides(r, b, i) ==
  /\ r \in Results
  /\ NonBlank(b) = Voiced(r.seg) \o NonBlank(r.rest)
  /\ r.seg # None => Speakable(r.seg)
  /\ \E d \in 0..Len(b) :
       /\ r.rest = SubSeq(b, d + 1, Len(b))
       /\ r.seg # None => d > 0
       /\ r.seg = None => \A j \in 1..i : b[j] \in FlushChars => j <= d

(* A cut of the rest divides the whole.                                    *)
LEMMA CutRest ==
  ASSUME NEW b \in Seq(Chars), NEW i \in 1..Len(b), NEW r, r.seg = None, Divides(r, b, i - 1)
  PROVE  Divides(Cut(r.rest, i), b, i)
<1> DEFINE c == Cut(r.rest, i)
<1>1. PICK d \in 0..Len(b) : r.rest = SubSeq(b, d + 1, Len(b))
  BY DEF Divides
<1>2. /\ r.rest \in Seq(Chars) /\ i \in Nat /\ Len(b) \in Nat /\ d \in Nat /\ d <= Len(b)
      /\ Len(r.rest) = Len(b) - d
  BY <1>1
<1>3. PICK k \in 0..Len(r.rest) :
           /\ k = IF i <= Len(r.rest) THEN i ELSE Len(r.rest)
           /\ c.rest = SubSeq(r.rest, k + 1, Len(r.rest))
           /\ c.seg # None => Speakable(c.seg) /\ k > 0
           /\ NonBlank(r.rest) = Voiced(c.seg) \o NonBlank(c.rest)
  BY <1>2, CutDivides
<1>4. c \in Results
  BY <1>2, CutType
<1> HIDE DEF c
<1>5. NonBlank(b) = Voiced(c.seg) \o NonBlank(c.rest)
  <2>1. NonBlank(r.rest) \in Seq(Chars)
    BY <1>2, NonBlankType
  <2>2. NonBlank(b) = <<>> \o NonBlank(r.rest)
    BY DEF Divides, Voiced
  <2>3. QED
    BY <1>3, <2>1, <2>2
<1>6. d + k \in 0..Len(b) /\ c.rest = SubSeq(b, (d + k) + 1, Len(b))
  <2>1. k \in Nat /\ k <= Len(b) - d
    BY <1>2, <1>3
  <2>2. SubSeq(SubSeq(b, d + 1, Len(b)), k + 1, Len(b) - d) = SubSeq(b, (d + k) + 1, Len(b))
    BY <1>2, <2>1
  <2>3. c.rest = SubSeq(SubSeq(b, d + 1, Len(b)), k + 1, Len(b) - d)
    BY <1>1, <1>2, <1>3, Zenon
  <2>4. d + k \in 0..Len(b)
    BY <1>2, <2>1
  <2>5. QED
    BY <2>2, <2>3, <2>4, Zenon
<1>7. c.seg # None => d + k > 0
  BY <1>2, <1>3
<1>8. \A j \in 1..i : j <= d + k
  BY <1>2, <1>3
<1>9. c.seg # None => Speakable(c.seg)
  BY <1>3
<1>10. Divides(c, b, i)
  <2>1. \E e \in 0..Len(b) :
           /\ c.rest = SubSeq(b, e + 1, Len(b))
           /\ c.seg # None => e > 0
           /\ c.seg = None => \A j \in 1..i : b[j] \in FlushChars => j <= e
    BY <1>6, <1>7, <1>8, Zenon
  <2>2. QED
    BY <1>4, <1>5, <1>9, <2>1, Zenon DEF Divides
<1>11. QED
  BY <1>10 DEF c

(* The scan divides the buffer, and no boundary stays behind it.           *)
LEMMA ScanDivides ==
  ASSUME NEW b \in Seq(Chars)
  PROVE  Divides(AtBoundary(b), b, Len(b))
<1> DEFINE first == [seg |-> None, rest |-> b]
<1>1. PICK scan : /\ Iterates(scan, Results, first, ScanStep(b), Len(b))
                  /\ AtBoundary(b) = scan[Len(b)]
  BY Scanning
<1>2. Len(b) \in Nat /\ scan[0] = first /\ \A i \in 0..Len(b) : scan[i] \in Results
  BY <1>1 DEF Iterates
<1>3. Divides(first, b, 0)
  <2>1. first \in Results /\ first.seg = None /\ first.rest = b
    BY DEF Results
  <2>2. b = SubSeq(b, 0 + 1, Len(b))
    BY SubSeqFull
  <2>3. NonBlank(b) = Voiced(None) \o NonBlank(b)
    BY NonBlankType DEF Voiced
  <2>4. 0 \in 0..Len(b) /\ \A j \in 1..0 : b[j] \in FlushChars => j <= 0
    BY <1>2
  <2> HIDE DEF first
  <2>5. QED
    BY <2>1, <2>2, <2>3, <2>4, Zenon DEF Divides
<1> HIDE DEF first
<1>4. ASSUME NEW i \in 1..Len(b), Divides(scan[i - 1], b, i - 1) PROVE Divides(scan[i], b, i)
  <2> DEFINE r == scan[i - 1]
  <2>1. i \in Nat /\ i - 1 \in Nat /\ i - 1 \in 0..Len(b)
    BY <1>2
  <2>2. scan[i] = ScanStep(b)[r][i] /\ r \in Results
    BY <1>1, <1>2, <2>1 DEF Iterates
  <2>3. scan[i] = IF r.seg # None \/ b[i] \notin FlushChars THEN r ELSE Cut(r.rest, i)
    BY <2>1, <2>2 DEF ScanStep
  <2> HIDE DEF r
  <2>4. CASE r.seg # None
    <3>1. scan[i] = r
      BY <2>3, <2>4
    <3>2. QED
      BY <1>4, <2>4, <3>1 DEF Divides, r
  <2>5. CASE r.seg = None /\ b[i] \notin FlushChars
    <3>1. scan[i] = r
      BY <2>3, <2>5
    <3>2. Divides(r, b, i - 1)
      BY <1>4 DEF r
    <3>3. PICK d \in 0..Len(b) :
             /\ r.rest = SubSeq(b, d + 1, Len(b))
             /\ \A j \in 1..(i - 1) : b[j] \in FlushChars => j <= d
      BY <2>5, <3>2 DEF Divides
    <3>4. \A j \in 1..i : b[j] \in FlushChars => j <= d
      <4>1. ASSUME NEW j \in 1..i, b[j] \in FlushChars PROVE j <= d
        <5>1. j # i
          BY <2>5, <4>1
        <5>2. j \in 1..(i - 1)
          BY <2>1, <5>1
        <5>3. QED
          BY <3>3, <4>1, <5>2
      <4>2. QED
        BY <4>1
    <3>5. QED
      BY <2>5, <3>1, <3>2, <3>3, <3>4 DEF Divides
  <2>6. CASE r.seg = None /\ b[i] \in FlushChars
    <3>1. scan[i] = Cut(r.rest, i)
      BY <2>3, <2>6
    <3>2. Divides(r, b, i - 1)
      BY <1>4 DEF r
    <3>3. QED
      BY <2>6, <3>1, <3>2, CutRest
  <2>7. QED
    BY <2>4, <2>5, <2>6
<1> DEFINE T == {n \in Nat : n <= Len(b) => Divides(scan[n], b, n)}
<1>5. 0 \in T
  BY <1>2, <1>3
<1>6. ASSUME NEW n \in Nat, n \in T PROVE n + 1 \in T
  <2>1. CASE n + 1 <= Len(b)
    <3>1. n + 1 \in 1..Len(b) /\ (n + 1) - 1 = n /\ Divides(scan[n], b, n)
      BY <1>2, <1>6, <2>1
    <3>2. Divides(scan[n + 1], b, n + 1)
      BY <1>4, <3>1
    <3>3. QED
      BY <3>2
  <2>2. QED
    BY <2>1
<1> HIDE DEF T
<1>7. Len(b) \in T
  BY <1>2, <1>5, <1>6, Induct
<1>8. QED
  BY <1>1, <1>2, <1>7 DEF T

(* What is left of a text when pieces have been cut off its front.         *)
Suffix(r, b) == \E d \in 0..Len(b) : r = SubSeq(b, d + 1, Len(b))

(* A rest the split by length can make nothing of: a space in front, or    *)
(* min_flush_chars blanks just cut off that hold no space.                 *)
Unsplit(r, b) ==
  \/ r[1] = Space
  \/ \E d \in MinFlush..Len(b) :
       /\ r = SubSeq(b, d + 1, Len(b))
       /\ \A j \in (d - MinFlush + 1)..d : b[j] \in Blanks \ {Space}

(* What may stay of the text b in the buffer: no boundary, and             *)
(* min_flush_chars or more only where the split makes nothing of them.     *)
Settled(r, b) == /\ \A i \in DOMAIN r : r[i] \notin FlushChars
                 /\ Len(r) >= MinFlush => Unsplit(r, b)

(* What a pass makes of a buffer: a segment and a shorter rest, or a rest  *)
(* that can stay.                                                          *)
Extracts(r, b) ==
  /\ r \in Results
  /\ NonBlank(b) = Voiced(r.seg) \o NonBlank(r.rest)
  /\ Suffix(r.rest, b)
  /\ r.seg # None => Speakable(r.seg) /\ Len(r.rest) < Len(b)
  /\ r.seg = None => Settled(r.rest, b)

(* A suffix of a suffix is one of the whole, and what may stay of a suffix *)
(* may stay of the whole.                                                  *)
LEMMA SuffixOfSuffix ==
  ASSUME NEW b \in Seq(Chars), NEW s, NEW r, Suffix(s, b), Suffix(r, s)
  PROVE  Suffix(r, b) /\ (Settled(r, s) => Settled(r, b))
<1>1. PICK d \in 0..Len(b) : s = SubSeq(b, d + 1, Len(b))
  BY DEF Suffix
<1>2. /\ Len(b) \in Nat /\ d \in Nat /\ d <= Len(b) /\ s \in Seq(Chars)
      /\ Len(s) = Len(b) - d /\ \A i \in 1..(Len(b) - d) : s[i] = b[d + i]
  BY <1>1
<1>3. ASSUME NEW k \in 0..Len(s), r = SubSeq(s, k + 1, Len(s))
      PROVE  d + k \in 0..Len(b) /\ r = SubSeq(b, (d + k) + 1, Len(b))
  <2>1. k \in Nat /\ k <= Len(b) - d
    BY <1>2
  <2>2. SubSeq(SubSeq(b, d + 1, Len(b)), k + 1, Len(b) - d) = SubSeq(b, (d + k) + 1, Len(b))
    BY <1>2, <2>1
  <2>3. r = SubSeq(SubSeq(b, d + 1, Len(b)), k + 1, Len(b) - d)
    BY <1>1, <1>2, <1>3, Zenon
  <2>4. d + k \in 0..Len(b)
    BY <1>2, <2>1
  <2>5. QED
    BY <2>2, <2>3, <2>4, Zenon
<1>4. Suffix(r, b)
  <2>1. PICK k \in 0..Len(s) : r = SubSeq(s, k + 1, Len(s))
    BY DEF Suffix
  <2>2. QED
    BY <1>3, <2>1, Zenon DEF Suffix
<1>5. ASSUME Unsplit(r, s) PROVE Unsplit(r, b)
  <2>1. CASE r[1] = Space
    BY <2>1 DEF Unsplit
  <2>2. CASE \E k \in MinFlush..Len(s) :
               /\ r = SubSeq(s, k + 1, Len(s))
               /\ \A j \in (k - MinFlush + 1)..k : s[j] \in Blanks \ {Space}
    <3>1. PICK k \in MinFlush..Len(s) :
               /\ r = SubSeq(s, k + 1, Len(s))
               /\ \A j \in (k - MinFlush + 1)..k : s[j] \in Blanks \ {Space}
      BY <2>2
    <3>2. MinFlush \in Nat /\ k \in 0..Len(s) /\ k \in Nat /\ MinFlush <= k
      BY <1>2, LengthsAssumption
    <3>3. d + k \in 0..Len(b) /\ r = SubSeq(b, (d + k) + 1, Len(b))
      BY <1>3, <3>1, <3>2
    <3>4. d + k \in MinFlush..Len(b)
      BY <1>2, <3>2, <3>3
    <3>5. ASSUME NEW j \in ((d + k) - MinFlush + 1)..(d + k) PROVE b[j] \in Blanks \ {Space}
      <4>1. j - d \in (k - MinFlush + 1)..k /\ j - d \in 1..(Len(b) - d) /\ d + (j - d) = j
        BY <1>2, <3>2, <3>3
      <4>2. s[j - d] = b[d + (j - d)]
        BY <1>2, <4>1, Zenon
      <4>3. s[j - d] \in Blanks \ {Space}
        BY <3>1, <4>1, Zenon
      <4>4. QED
        BY <4>1, <4>2, <4>3, Zenon
    <3>6. QED
      BY <3>3, <3>4, <3>5, Zenon DEF Unsplit
  <2>3. QED
    BY <1>5, <2>1, <2>2 DEF Unsplit
<1>6. QED
  BY <1>4, <1>5 DEF Settled

(* The split of a long buffer without a boundary.                          *)
LEMMA SplitExtracts ==
  ASSUME NEW b \in Seq(Chars), \A i \in DOMAIN b : b[i] \notin FlushChars, Len(b) >= MinFlush
  PROVE  Extracts(AtLastSpace(b), b)
<1> DEFINE I == {i \in 1..Len(b) : b[i] = Space}
           p == SelectLastInSeq(b, LAMBDA c : c = Space)
           n == IF p = 0 THEN MinFlush ELSE p - 1
           r == AtLastSpace(b)
<1>1. Len(b) \in Nat /\ MinFlush \in Nat \ {0} /\ MinFlush <= Len(b)
  BY LengthsAssumption
<1>2. (p = 0 /\ I = {}) \/ p \in I
  <2>1. p = IF I = {} THEN 0 ELSE Max(I)
    BY DEF SelectLastInSeq
  <2>2. CASE I # {}
    <3>1. I \in SUBSET (0..Len(b))
      BY <1>1
    <3>2. \E x \in I : \A y \in I : y <= x
      BY <1>1, <2>2, <3>1, Greatest
    <3>3. \E x \in I : \A y \in I : x >= y
      BY <3>2
    <3>4. Max(I) \in I
      <4> HIDE DEF I
      <4>1. QED
        BY <3>3 DEF Max
    <3>5. QED
      BY <2>1, <2>2, <3>4
  <2>3. QED
    BY <2>1, <2>2
<1>3. r = Cut(b, n)
  BY DEF AtLastSpace
<1> HIDE DEF p
<1>4. n \in Nat /\ n <= Len(b)
  BY <1>1, <1>2
<1> HIDE DEF n, r
<1>5. PICK k \in 0..Len(b) :
           /\ k = IF n <= Len(b) THEN n ELSE Len(b)
           /\ r.rest = SubSeq(b, k + 1, Len(b))
           /\ r.seg = None => IsBlank(SubSeq(b, 1, k))
           /\ r.seg # None => Speakable(r.seg) /\ k > 0
           /\ NonBlank(b) = Voiced(r.seg) \o NonBlank(r.rest)
  BY <1>3, <1>4, CutDivides
<1>6. k = n
  BY <1>4, <1>5
<1>7. r \in Results
  BY <1>3, <1>4, CutType
<1>8. r.seg # None => Len(r.rest) < Len(b)
  <2>1. Len(SubSeq(b, k + 1, Len(b))) = Len(b) - k
    BY <1>1
  <2>2. Len(r.rest) = Len(b) - k
    BY <1>5, <2>1, Zenon
  <2>3. r.seg # None => k > 0
    BY <1>5
  <2>4. QED
    BY <1>1, <2>2, <2>3
<1>9. Suffix(r.rest, b)
  BY <1>5 DEF Suffix
<1>10. ASSUME r.seg = None PROVE Settled(r.rest, b)
  <2>1. IsBlank(SubSeq(b, 1, k)) /\ k \in Nat /\ k <= Len(b)
    BY <1>1, <1>5, <1>10
  <2>2. \A j \in 1..k : b[j] \in Blanks
    <3>1. ASSUME NEW j \in 1..k PROVE b[j] \in Blanks
      <4>1. j \in DOMAIN SubSeq(b, 1, k) /\ SubSeq(b, 1, k)[j] = b[j]
        BY <1>1, <2>1
      <4>2. QED
        BY <2>1, <4>1 DEF IsBlank
    <3>2. QED
      BY <3>1
  <2>3. Unsplit(r.rest, b)
    <3>1. CASE p = 0 /\ I = {}
      <4>1. k = MinFlush
        BY <1>6, <3>1 DEF n
      <4>2. k \in MinFlush..Len(b) /\ k - MinFlush + 1 = 1
        BY <1>1, <2>1, <4>1
      <4>3. ASSUME NEW j \in 1..k PROVE b[j] \in Blanks \ {Space}
        <5>1. j \in 1..Len(b)
          BY <1>1, <2>1
        <5>2. b[j] # Space
          BY <3>1, <5>1
        <5>3. QED
          BY <2>2, <5>2
      <4>4. \A j \in (k - MinFlush + 1)..k : b[j] \in Blanks \ {Space}
        BY <4>2, <4>3, Zenon
      <4>5. QED
        BY <1>5, <4>2, <4>4, Zenon DEF Unsplit
    <3>2. CASE p \in I
      <4>1. k = p - 1 /\ p \in 1..Len(b) /\ b[p] = Space
        BY <1>1, <1>6, <3>2 DEF n
      <4>2. r.rest = SubSeq(b, p, Len(b))
        <5>1. k + 1 = p
          BY <1>1, <4>1
        <5>2. QED
          BY <1>5, <5>1, Zenon
      <4> HIDE DEF p
      <4>3. r.rest[1] = Space
        <5>1. \A i \in 1..(Len(b) - p + 1) : r.rest[i] = b[p + i - 1]
          BY <1>1, <4>1, <4>2
        <5>2. 1 \in 1..(Len(b) - p + 1) /\ p + 1 - 1 = p
          BY <1>1, <4>1
        <5>3. r.rest[1] = b[p + 1 - 1]
          BY <5>1, <5>2, Zenon
        <5>4. QED
          BY <4>1, <5>2, <5>3, Zenon
      <4>4. QED
        BY <4>3 DEF Unsplit
    <3>3. QED
      BY <1>2, <3>1, <3>2
  <2>4. ASSUME NEW i \in DOMAIN r.rest PROVE r.rest[i] \notin FlushChars
    <3>1. DOMAIN r.rest = 1..(Len(b) - k) /\ r.rest[i] = b[k + i] /\ k + i \in DOMAIN b
      <4>1. r.rest = SubSeq(b, k + 1, Len(b))
        BY <1>5
      <4>2. QED
        BY <1>1, <2>1, <4>1
    <3>2. QED
      BY <3>1
  <2>5. QED
    BY <2>3, <2>4 DEF Settled
<1>11. QED
  BY <1>5, <1>7, <1>8, <1>9, <1>10 DEF Extracts, r

(* One pass.                                                               *)
LEMMA PassExtracts ==
  ASSUME NEW b \in Seq(Chars)
  PROVE  Extracts(TryExtractOne(b), b)
<1> DEFINE s == AtBoundary(b)
<1>1. TryExtractOne(b) =
        IF s.seg = None /\ Len(s.rest) >= MinFlush THEN AtLastSpace(s.rest) ELSE s
  BY DEF TryExtractOne
<1>2. Divides(s, b, Len(b))
  BY ScanDivides
<1> HIDE DEF s
<1>3. /\ s \in Results /\ s.rest \in Seq(Chars)
      /\ NonBlank(b) = Voiced(s.seg) \o NonBlank(s.rest)
  BY <1>2 DEF Divides, Results
<1>4. PICK d \in 0..Len(b) :
         /\ s.rest = SubSeq(b, d + 1, Len(b))
         /\ s.seg # None => d > 0
         /\ s.seg = None => \A j \in 1..Len(b) : b[j] \in FlushChars => j <= d
  BY <1>2 DEF Divides
<1>5. /\ Len(b) \in Nat /\ Len(s.rest) = Len(b) - d
      /\ \A i \in 1..(Len(b) - d) : s.rest[i] = b[d + i]
      /\ DOMAIN s.rest = 1..(Len(b) - d)
  BY <1>4
<1>6. CASE s.seg # None
  <2>1. TryExtractOne(b) = s
    BY <1>1, <1>6
  <2>2. Len(s.rest) < Len(b)
    BY <1>4, <1>5, <1>6
  <2>3. Speakable(s.seg)
    BY <1>2, <1>6 DEF Divides
  <2>4. Suffix(s.rest, b)
    BY <1>4 DEF Suffix
  <2>5. QED
    BY <1>3, <1>6, <2>1, <2>2, <2>3, <2>4 DEF Extracts
<1>7. CASE s.seg = None
  <2>1. ASSUME NEW i \in DOMAIN s.rest PROVE s.rest[i] \notin FlushChars
    <3>1. d + i \in 1..Len(b) /\ ~(d + i <= d) /\ s.rest[i] = b[d + i]
      BY <1>5
    <3>2. QED
      BY <1>4, <1>7, <3>1
  <2>2. Voiced(s.seg) = <<>> /\ NonBlank(s.rest) \in Seq(Chars)
    BY <1>3, <1>7, NonBlankType DEF Voiced
  <2>3. NonBlank(b) = NonBlank(s.rest)
    BY <1>3, <2>2
  <2>4. CASE Len(s.rest) >= MinFlush
    <3>1. Extracts(AtLastSpace(s.rest), s.rest)
      BY <1>3, <2>1, <2>4, SplitExtracts
    <3>2. TryExtractOne(b) = AtLastSpace(s.rest)
      BY <1>1, <1>7, <2>4
    <3> DEFINE r == TryExtractOne(b)
    <3>3. Extracts(r, s.rest)
      BY <3>1, <3>2
    <3> HIDE DEF r
    <3>4. r.rest \in Seq(Chars) /\ Len(r.rest) \in Nat
      BY <3>3 DEF Extracts, Results
    <3>5. Suffix(s.rest, b)
      BY <1>4 DEF Suffix
    <3>6. Suffix(r.rest, b) /\ (r.seg = None => Settled(r.rest, b))
      BY <3>3, <3>5, SuffixOfSuffix DEF Extracts
    <3>7. Extracts(r, b)
      BY <1>5, <2>3, <3>3, <3>4, <3>6 DEF Extracts
    <3>8. QED
      BY <3>7 DEF r
  <2>5. CASE ~(Len(s.rest) >= MinFlush)
    <3>1. TryExtractOne(b) = s
      BY <1>1, <1>7, <2>5
    <3>2. Suffix(s.rest, b)
      BY <1>4 DEF Suffix
    <3>3. QED
      BY <1>3, <1>7, <2>1, <2>5, <3>1, <3>2 DEF Extracts, Settled
  <2>6. QED
    BY <2>4, <2>5
<1>8. QED
  BY <1>6, <1>7

-----------------------------------------------------------------------------
(* The loop of passes                                                      *)

JoinStep(segs) ==
  [x \in Seq(Chars) |-> [i \in Nat |-> IF i \in 1..Len(segs) THEN x \o segs[i] ELSE x]]

(* FlattenSeq joins its segments one by one.                               *)
LEMMA Joining ==
  ASSUME NEW segs \in Seq(Seq(Chars))
  PROVE  \E join : /\ Iterates(join, Seq(Chars), <<>>, JoinStep(segs), Len(segs))
                   /\ FlattenSeq(segs) = join[Len(segs)]
<1> DEFINE m == Len(segs)
           flat == CHOOSE f : f = [i \in 1..m |->
                     IF i = 1 THEN segs[i] ELSE f[i - 1] \o segs[i]]
<1>0. m \in Nat /\ <<>> \in Seq(Chars) /\ \A i \in 1..m : segs[i] \in Seq(Chars)
  OBVIOUS
<1>1. FlattenSeq(segs) = IF m = 0 THEN segs ELSE flat[m]
  BY DEF FlattenSeq
<1>2. \A x \in Seq(Chars) : \A i \in Nat : JoinStep(segs)[x][i] \in Seq(Chars)
  BY <1>0 DEF JoinStep
<1> HIDE DEF m
<1>3. PICK f : Iterates(f, Seq(Chars), <<>>, JoinStep(segs), m)
  BY <1>0, <1>2, Recursion, Zenon
<1>4. /\ f[0] = <<>>
      /\ \A i \in 1..m : f[i] = f[i - 1] \o segs[i]
  <2>1. f \in [0..m -> Seq(Chars)] /\ f[0] = <<>>
    BY <1>3 DEF Iterates
  <2>2. ASSUME NEW i \in 1..m PROVE f[i] = f[i - 1] \o segs[i]
    <3>1. f[i] = JoinStep(segs)[f[i - 1]][i] /\ f[i - 1] \in Seq(Chars) /\ i \in Nat
      BY <1>0, <1>3, <2>1 DEF Iterates
    <3>2. i \in 1..Len(segs)
      BY DEF m
    <3>3. QED
      BY <3>1, <3>2 DEF JoinStep
  <2>3. QED
    BY <2>1, <2>2
<1> DEFINE Joined(g) == [i \in 1..m |-> IF i = 1 THEN segs[i] ELSE g[i - 1] \o segs[i]]
           g == [i \in 1..m |-> f[i]]
<1>5. g = Joined(g)
  <2>1. ASSUME NEW i \in 1..m PROVE f[i] = IF i = 1 THEN segs[i] ELSE g[i - 1] \o segs[i]
    <3>1. CASE i = 1
      <4>1. i - 1 = 0 /\ segs[i] \in Seq(Chars)
        BY <1>0, <3>1
      <4>2. f[i] = f[i - 1] \o segs[i]
        BY <1>4, Zenon
      <4>3. f[i] = <<>> \o segs[i]
        BY <1>4, <4>1, <4>2, Zenon
      <4>4. <<>> \o segs[i] = segs[i]
        BY <4>1
      <4>5. QED
        BY <3>1, <4>3, <4>4, Zenon
    <3>2. CASE i # 1
      <4>1. i - 1 \in 1..m
        BY <1>0, <3>2
      <4>2. g[i - 1] = f[i - 1]
        BY <4>1
      <4>3. QED
        BY <1>4, <3>2, <4>2
    <3>3. QED
      BY <3>1, <3>2
  <2> HIDE DEF g
  <2>2. [i \in 1..m |-> f[i]] = [i \in 1..m |-> IF i = 1 THEN segs[i] ELSE g[i - 1] \o segs[i]]
    BY <2>1
  <2>3. QED
    BY <2>2 DEF g
<1> HIDE DEF g
<1>6. flat = Joined(flat)
  BY <1>5, Zenon
<1> HIDE DEF flat
<1> DEFINE T == {n \in Nat : n \in 1..m => flat[n] = f[n]}
<1>7. 0 \in T
  OBVIOUS
<1>8. ASSUME NEW n \in Nat, n \in T PROVE n + 1 \in T
  <2>1. CASE n + 1 \in 1..m
    <3>1. flat[n + 1] = IF n + 1 = 1 THEN segs[n + 1] ELSE flat[(n + 1) - 1] \o segs[n + 1]
      BY <1>6, <2>1, Zenon
    <3>2. f[n + 1] = f[(n + 1) - 1] \o segs[n + 1] /\ (n + 1) - 1 = n
      <4>1. f[n + 1] = f[(n + 1) - 1] \o segs[n + 1]
        BY <1>4, <2>1, Zenon
      <4>2. QED
        BY <4>1
    <3>3. CASE n = 0
      <4>1. segs[n + 1] \in Seq(Chars) /\ f[n + 1] = <<>> \o segs[n + 1]
        BY <1>0, <1>4, <2>1, <3>2, <3>3
      <4>2. flat[n + 1] = f[n + 1]
        BY <3>1, <3>3, <4>1
      <4>3. QED
        BY <4>2
    <3>4. CASE n # 0
      <4>1. n \in 1..m /\ n + 1 # 1
        BY <1>0, <2>1, <3>4
      <4>2. flat[n] = f[n]
        BY <1>8, <4>1
      <4>3. flat[n + 1] = f[n + 1]
        BY <3>1, <3>2, <4>1, <4>2
      <4>4. QED
        BY <4>3
    <3>5. QED
      BY <3>3, <3>4
  <2>2. QED
    BY <2>1
<1> HIDE DEF T
<1>9. m \in T
  BY <1>0, <1>7, <1>8, Induct
<1>10. FlattenSeq(segs) = f[m]
  <2>1. CASE m = 0
    <3>1. segs = <<>>
      BY <2>1 DEF m
    <3>2. QED
      BY <1>1, <1>4, <2>1, <3>1
  <2>2. CASE m # 0
    <3>1. m \in 1..m
      BY <1>0, <2>2
    <3>2. QED
      BY <1>1, <1>9, <2>2, <3>1 DEF T
  <2>3. QED
    BY <2>1, <2>2
<1>11. QED
  BY <1>3, <1>10 DEF m

(* Segments put together are text.                                         *)
LEMMA FlattenType ==
  ASSUME NEW segs \in Seq(Seq(Chars))
  PROVE  FlattenSeq(segs) \in Seq(Chars)
<1>1. PICK join : Iterates(join, Seq(Chars), <<>>, JoinStep(segs), Len(segs))
                  /\ FlattenSeq(segs) = join[Len(segs)]
  BY Joining
<1>2. Len(segs) \in 0..Len(segs)
  OBVIOUS
<1>3. QED
  BY <1>1, <1>2 DEF Iterates

(* No segment is no text.                                                  *)
LEMMA FlattenEmpty == FlattenSeq(<<>>) = <<>>
BY DEF FlattenSeq

(* A segment more.                                                         *)
LEMMA FlattenAppend ==
  ASSUME NEW segs \in Seq(Seq(Chars)), NEW g \in Seq(Chars)
  PROVE  FlattenSeq(Append(segs, g)) = FlattenSeq(segs) \o g
<1> DEFINE more == Append(segs, g)
<1>1. /\ more \in Seq(Seq(Chars)) /\ Len(more) = Len(segs) + 1 /\ more[Len(segs) + 1] = g
      /\ Len(segs) \in Nat /\ \A i \in 1..Len(segs) : more[i] = segs[i]
  OBVIOUS
<1> HIDE DEF more
<1>2. PICK f : Iterates(f, Seq(Chars), <<>>, JoinStep(segs), Len(segs))
               /\ FlattenSeq(segs) = f[Len(segs)]
  BY Joining
<1>3. PICK h : Iterates(h, Seq(Chars), <<>>, JoinStep(more), Len(more))
               /\ FlattenSeq(more) = h[Len(more)]
  BY <1>1, Joining
<1>4. \A i \in 0..Len(segs) : f[i] = h[i]
  <2>1. f[0] = h[0]
    BY <1>2, <1>3 DEF Iterates
  <2>2. ASSUME NEW i \in 1..Len(segs), f[i - 1] = h[i - 1] PROVE f[i] = h[i]
    <3>1. i \in Nat /\ i \in 1..Len(more) /\ i - 1 \in 0..Len(segs) /\ more[i] = segs[i]
      BY <1>1
    <3>2. f[i] = JoinStep(segs)[f[i - 1]][i] /\ h[i] = JoinStep(more)[h[i - 1]][i]
          /\ f[i - 1] \in Seq(Chars)
      BY <1>2, <1>3, <3>1 DEF Iterates
    <3>3. QED
      BY <2>2, <3>1, <3>2 DEF JoinStep
  <2>3. StepAlike(f, h, Len(segs)) /\ Len(segs) \in Nat
    BY <1>1, <2>1, <2>2 DEF StepAlike
  <2>4. QED
    BY <2>3, SameRecursion, Zenon
<1>5. /\ h[Len(segs) + 1] = JoinStep(more)[h[Len(segs)]][Len(segs) + 1]
      /\ h[Len(segs)] = FlattenSeq(segs) /\ h[Len(segs)] \in Seq(Chars)
  <2>1. Len(segs) + 1 \in 1..Len(more) /\ Len(segs) \in 0..Len(segs)
        /\ (Len(segs) + 1) - 1 = Len(segs) /\ Len(segs) \in 0..Len(more)
    BY <1>1
  <2>2. QED
    BY <1>2, <1>3, <1>4, <2>1 DEF Iterates
<1>6. FlattenSeq(more) = FlattenSeq(segs) \o g
  <2>1. Len(segs) + 1 \in Nat /\ Len(segs) + 1 \in 1..Len(more)
    BY <1>1
  <2>2. JoinStep(more)[h[Len(segs)]][Len(segs) + 1] = h[Len(segs)] \o more[Len(segs) + 1]
    BY <1>5, <2>1 DEF JoinStep
  <2>3. QED
    BY <1>1, <1>3, <1>5, <2>2
<1>7. QED
  BY <1>6 DEF more

(* What the loop carries from pass to pass.                                *)
Passes == [segs : Seq(Seq(Chars)), rest : Seq(Chars), more : BOOLEAN]

(* One pass of the loop.                                                   *)
Pass(x) == IF ~x.more THEN x
           ELSE [segs |-> IF TryExtractOne(x.rest).seg = None THEN x.segs
                          ELSE Append(x.segs, TryExtractOne(x.rest).seg),
                 rest |-> TryExtractOne(x.rest).rest,
                 more |-> TryExtractOne(x.rest).seg # None]

PassStep == [x \in Passes |-> [i \in Nat |-> Pass(x)]]

(* A pass keeps the type.                                                  *)
LEMMA PassType ==
  ASSUME NEW x \in Passes
  PROVE  Pass(x) \in Passes
<1> DEFINE r == TryExtractOne(x.rest)
<1>1. x.segs \in Seq(Seq(Chars)) /\ x.rest \in Seq(Chars)
  BY DEF Passes
<1>2. Extracts(r, x.rest)
  BY <1>1, PassExtracts
<1>3. Pass(x) = IF ~x.more THEN x
                ELSE [segs |-> IF r.seg = None THEN x.segs ELSE Append(x.segs, r.seg),
                      rest |-> r.rest, more |-> r.seg # None]
  BY Zenon DEF Pass
<1> HIDE DEF r
<1>4. r.rest \in Seq(Chars) /\ (r.seg # None => r.seg \in Seq(Chars))
  BY <1>2 DEF Extracts, Results
<1>5. (IF r.seg = None THEN x.segs ELSE Append(x.segs, r.seg)) \in Seq(Seq(Chars))
  BY <1>1, <1>4
<1>6. CASE ~x.more
  BY <1>3, <1>6
<1>7. CASE x.more
  <2> DEFINE segs == IF r.seg = None THEN x.segs ELSE Append(x.segs, r.seg)
             more == r.seg # None
  <2>1. Pass(x) = [segs |-> segs, rest |-> r.rest, more |-> more]
    BY <1>3, <1>7, Zenon
  <2>2. segs \in Seq(Seq(Chars)) /\ more \in BOOLEAN
    BY <1>5
  <2> HIDE DEF segs, more
  <2>3. QED
    BY <1>4, <2>1, <2>2 DEF Passes
<1>8. QED
  BY <1>6, <1>7

(* ExtractSegments makes a pass more than there are characters.            *)
LEMMA Passing ==
  ASSUME NEW b \in Seq(Chars)
  PROVE  \E pass :
           /\ Iterates(pass, Passes, [segs |-> <<>>, rest |-> b, more |-> TRUE], PassStep, Len(b) + 1)
           /\ ExtractSegments(b) = pass[Len(b) + 1]
<1> DEFINE m == Len(b) + 1
           first == [segs |-> <<>>, rest |-> b, more |-> TRUE]
           Run(f) == [i \in 0..m |->
                        IF i = 0 THEN [segs |-> <<>>, rest |-> b, more |-> TRUE]
                        ELSE LET p == f[i - 1]
                                 r == TryExtractOne(p.rest)
                             IN  IF ~p.more THEN p
                                 ELSE [segs |-> IF r.seg = None THEN p.segs
                                                ELSE Append(p.segs, r.seg),
                                       rest |-> r.rest,
                                       more |-> r.seg # None]]
           pass == CHOOSE f : f = Run(f)
<1>0. m \in Nat /\ first \in Passes /\ m = Len(b) + 1
  BY DEF Passes
<1>1. ExtractSegments(b) = pass[m]
  BY Zenon DEF ExtractSegments
<1>2. \A x \in Passes : \A i \in Nat : PassStep[x][i] \in Passes
  BY PassType DEF PassStep
<1> HIDE DEF m, first
<1>3. PICK f : Iterates(f, Passes, first, PassStep, m)
  BY <1>0, <1>2, Recursion, Zenon
<1>4. /\ f = [i \in 0..m |-> f[i]] /\ f[0] = first
      /\ \A i \in 1..m : f[i] = Pass(f[i - 1])
  <2>1. f \in [0..m -> Passes] /\ f[0] = first
    BY <1>3 DEF Iterates
  <2>2. ASSUME NEW i \in 1..m PROVE f[i] = Pass(f[i - 1])
    <3>1. f[i] = PassStep[f[i - 1]][i] /\ f[i - 1] \in Passes /\ i \in Nat
      BY <1>0, <1>3, <2>1 DEF Iterates
    <3>2. QED
      BY <3>1 DEF PassStep
  <2>3. QED
    BY <2>1, <2>2
<1> DEFINE Steps(g) == [i \in 0..m |-> IF i = 0 THEN first ELSE Pass(g[i - 1])]
<1>5. ASSUME NEW g PROVE Run(g) = Steps(g)
  BY Zenon DEF Pass, first
<1> HIDE DEF Run
<1>6. f = Steps(f)
  <2>1. ASSUME NEW i \in 0..m PROVE f[i] = Steps(f)[i]
    <3>1. CASE i = 0
      BY <1>4, <3>1
    <3>2. CASE i # 0
      <4>1. i \in 1..m
        BY <1>0, <3>2
      <4>2. QED
        BY <1>4, <3>2, <4>1, Zenon
    <3>3. QED
      BY <3>1, <3>2
  <2>2. QED
    BY <1>4, <2>1, Zenon
<1>7. pass = Steps(pass)
  <2>1. f = Run(f)
    BY <1>5, <1>6, Zenon
  <2>2. pass = Run(pass)
    BY <2>1, Zenon
  <2> HIDE DEF pass
  <2>3. QED
    BY <1>5, <2>2, Zenon
<1> HIDE DEF pass
<1>8. \A i \in 0..m : pass[i] = f[i]
  <2>1. pass[0] = f[0]
    <3>1. 0 \in 0..m
      BY <1>0
    <3>2. QED
      BY <1>4, <1>7, <3>1, Zenon
  <2>2. ASSUME NEW i \in 1..m, pass[i - 1] = f[i - 1] PROVE pass[i] = f[i]
    <3>1. i \in 0..m /\ i # 0
      BY <1>0
    <3>2. pass[i] = Pass(pass[i - 1])
      BY <1>7, <3>1, Zenon
    <3>3. QED
      BY <1>4, <3>2, <2>2, Zenon
  <2>3. StepAlike(pass, f, m) /\ m \in Nat
    BY <1>0, <2>1, <2>2 DEF StepAlike
  <2>4. QED
    BY <2>3, SameRecursion, Zenon
<1>9. ExtractSegments(b) = f[m]
  <2>1. m \in 0..m
    BY <1>0
  <2>2. QED
    BY <1>1, <1>8, <2>1, Zenon
<1>10. QED
  BY <1>3, <1>9 DEF m, first

(* What the loop has after i passes: all that is not said, and either a    *)
(* rest that can stay or one that has lost a character per pass.           *)
Divided(p, b, i) ==
  /\ p \in Passes
  /\ \A j \in DOMAIN p.segs : Speakable(p.segs[j])
  /\ NonBlank(b) = NonBlank(FlattenSeq(p.segs)) \o NonBlank(p.rest)
  /\ Suffix(p.rest, b)
  /\ p.more => Len(p.rest) + i <= Len(b)
  /\ ~p.more => Settled(p.rest, b)

(* A pass more.                                                            *)
LEMMA PassDivides ==
  ASSUME NEW b \in Seq(Chars), NEW i \in Nat, NEW p, Divided(p, b, i)
  PROVE  Divided(Pass(p), b, i + 1)
<1> DEFINE r == TryExtractOne(p.rest)
<1>1. /\ p.segs \in Seq(Seq(Chars)) /\ p.rest \in Seq(Chars) /\ p \in Passes
      /\ p.more \in BOOLEAN
  BY DEF Divided, Passes
<1>2. Extracts(r, p.rest)
  BY <1>1, PassExtracts
<1>3. Pass(p) = IF ~p.more THEN p
                ELSE [segs |-> IF r.seg = None THEN p.segs ELSE Append(p.segs, r.seg),
                      rest |-> r.rest, more |-> r.seg # None]
  BY Zenon DEF Pass
<1>4. Pass(p) \in Passes
  BY <1>1, PassType
<1> HIDE DEF r
<1>5. r.rest \in Seq(Chars) /\ NonBlank(p.rest) = Voiced(r.seg) \o NonBlank(r.rest)
      /\ NonBlank(r.rest) \in Seq(Chars)
  BY <1>2, NonBlankType DEF Extracts, Results
<1>6. Suffix(r.rest, b) /\ (r.seg = None => Settled(r.rest, b))
  BY <1>2, SuffixOfSuffix DEF Divided, Extracts
<1> DEFINE q == Pass(p)
<1>7. CASE ~p.more
  <2>1. q = p
    BY <1>3, <1>7
  <2> HIDE DEF q
  <2>2. Divided(q, b, i + 1)
    BY <1>7, <2>1 DEF Divided
  <2>3. QED
    BY <2>2 DEF q
<1>8. CASE p.more /\ r.seg = None
  <2>1. q = [segs |-> p.segs, rest |-> r.rest, more |-> FALSE]
    BY <1>3, <1>8
  <2>2. q.segs = p.segs /\ q.rest = r.rest /\ ~q.more
    BY <2>1
  <2> HIDE DEF q
  <2>3. Settled(q.rest, b) /\ Suffix(q.rest, b)
    BY <1>8, <1>6, <2>2
  <2>4. NonBlank(p.rest) = NonBlank(q.rest)
    BY <1>5, <1>8, <2>2 DEF Voiced
  <2>5. q \in Passes
    BY <1>4 DEF q
  <2>6. Divided(q, b, i + 1)
    BY <2>2, <2>3, <2>4, <2>5 DEF Divided
  <2>7. QED
    BY <2>6 DEF q
<1>9. CASE p.more /\ r.seg # None
  <2>1. q = [segs |-> Append(p.segs, r.seg), rest |-> r.rest, more |-> TRUE]
    BY <1>3, <1>9
  <2>2. q.segs = Append(p.segs, r.seg) /\ q.rest = r.rest /\ q.more
    BY <2>1
  <2> HIDE DEF q
  <2>3. Speakable(r.seg) /\ Len(r.rest) < Len(p.rest) /\ r.seg \in Seq(Chars)
    BY <1>2, <1>9 DEF Extracts, Speakable
  <2>4. \A j \in DOMAIN q.segs : Speakable(q.segs[j])
    <3>1. \A j \in DOMAIN p.segs : Speakable(p.segs[j])
      BY DEF Divided
    <3>2. ASSUME NEW j \in DOMAIN q.segs PROVE Speakable(q.segs[j])
      <4>1. (j \in DOMAIN p.segs /\ q.segs[j] = p.segs[j]) \/ q.segs[j] = r.seg
        BY <1>1, <2>2, <2>3
      <4>2. QED
        BY <2>3, <3>1, <4>1, Zenon
    <3>3. QED
      BY <3>2
  <2>5. NonBlank(b) = NonBlank(FlattenSeq(q.segs)) \o NonBlank(q.rest)
    <3> DEFINE flat == FlattenSeq(p.segs)
    <3>1. FlattenSeq(q.segs) = flat \o r.seg /\ flat \in Seq(Chars)
      BY <1>1, <2>2, <2>3, FlattenAppend, FlattenType
    <3>2. NonBlank(b) = NonBlank(flat) \o NonBlank(p.rest)
      BY DEF Divided
    <3> HIDE DEF flat
    <3>3. NonBlank(flat \o r.seg) = NonBlank(flat) \o NonBlank(r.seg)
      BY <2>3, <3>1, NonBlankConcat
    <3>4. NonBlank(p.rest) = NonBlank(r.seg) \o NonBlank(r.rest)
      BY <1>5, <1>9 DEF Voiced
    <3>5. NonBlank(flat) \in Seq(Chars) /\ NonBlank(r.seg) \in Seq(Chars)
      BY <2>3, <3>1, NonBlankType
    <3>6. (NonBlank(flat) \o NonBlank(r.seg)) \o NonBlank(r.rest)
            = NonBlank(flat) \o (NonBlank(r.seg) \o NonBlank(r.rest))
      <4>1. NonBlank(r.rest) \in Seq(Chars)
        BY <1>5
      <4>2. QED
        BY <3>5, <4>1, ThreePieces, Zenon
    <3>7. QED
      BY <2>2, <3>1, <3>2, <3>3, <3>4, <3>6, Zenon
  <2>6. Len(q.rest) + (i + 1) <= Len(b)
    <3>1. Len(p.rest) + i <= Len(b)
      BY <1>9 DEF Divided
    <3>2. Len(p.rest) \in Nat /\ Len(r.rest) \in Nat /\ Len(b) \in Nat
      BY <1>1, <1>5
    <3>3. \A x, y, z \in Nat : x < y /\ y + i <= z => x + (i + 1) <= z
      OBVIOUS
    <3>4. QED
      BY <2>2, <2>3, <3>1, <3>2, <3>3, Zenon
  <2>7. q \in Passes
    BY <1>4 DEF q
  <2>8. Divided(q, b, i + 1)
    BY <1>6, <2>2, <2>4, <2>5, <2>6, <2>7 DEF Divided
  <2>9. QED
    BY <2>8 DEF q
<1>10. QED
  BY <1>7, <1>8, <1>9

(* The segments of a buffer and its rest: nothing is lost between them,    *)
(* the segments can be spoken and the rest can stay.                       *)
LEMMA SegmentsExtracted ==
  ASSUME NEW b \in Seq(Chars)
  PROVE  Divided(ExtractSegments(b), b, Len(b) + 1) /\ Settled(ExtractSegments(b).rest, b)
<1> DEFINE m == Len(b) + 1
           first == [segs |-> <<>>, rest |-> b, more |-> TRUE]
<1>1. PICK pass : Iterates(pass, Passes, first, PassStep, m) /\ ExtractSegments(b) = pass[m]
  BY Passing
<1>2. Divided(first, b, 0)
  <2>1. first.segs = <<>> /\ first.rest = b /\ first.more = TRUE
    OBVIOUS
  <2>2. first \in Passes
    BY DEF Passes
  <2>3. NonBlank(b) = <<>> \o NonBlank(b)
    BY NonBlankType
  <2> HIDE DEF first
  <2>4. NonBlank(b) = NonBlank(FlattenSeq(first.segs)) \o NonBlank(first.rest)
    BY <2>1, <2>3, FlattenEmpty, NonBlankEmpty
  <2>5. Len(first.rest) + 0 <= Len(b) /\ DOMAIN first.segs = {}
    BY <2>1
  <2>6. Suffix(first.rest, b)
    <3>1. 0 \in 0..Len(b) /\ b = SubSeq(b, 0 + 1, Len(b))
      BY SubSeqFull
    <3>2. QED
      BY <2>1, <3>1 DEF Suffix
  <2>7. QED
    BY <2>1, <2>2, <2>4, <2>5, <2>6 DEF Divided
<1>3. m \in Nat /\ Len(b) \in Nat /\ m = Len(b) + 1
  OBVIOUS
<1> HIDE DEF first, m
<1> DEFINE T == {n \in Nat : n <= m => Divided(pass[n], b, n)}
<1>4. 0 \in T
  BY <1>1, <1>2 DEF Iterates
<1>5. ASSUME NEW n \in Nat, n \in T PROVE n + 1 \in T
  <2>1. CASE n + 1 <= m
    <3>1. n + 1 \in 1..m /\ (n + 1) - 1 = n /\ Divided(pass[n], b, n) /\ n + 1 \in Nat
      BY <1>3, <1>5, <2>1
    <3>2. pass[n + 1] = PassStep[pass[n]][n + 1]
      BY <1>1, <3>1 DEF Iterates
    <3>3. pass[n] \in Passes
      BY <3>1 DEF Divided
    <3>4. pass[n + 1] = Pass(pass[n])
      BY <3>1, <3>2, <3>3 DEF PassStep
    <3>5. Divided(pass[n + 1], b, n + 1)
      BY <3>1, <3>4, PassDivides
    <3>6. QED
      BY <3>5
  <2>2. QED
    BY <2>1
<1> HIDE DEF T
<1>6. m \in T
  BY <1>3, <1>4, <1>5, Induct
<1>7. Divided(ExtractSegments(b), b, m)
  BY <1>1, <1>3, <1>6 DEF T
<1> DEFINE p == ExtractSegments(b)
<1> HIDE DEF p
<1>8. Divided(p, b, m)
  BY <1>7 DEF p
<1>9. ~p.more
  <2>1. Len(p.rest) \in Nat
    BY <1>8 DEF Divided, Passes
  <2>2. p.more => Len(p.rest) + m <= Len(b)
    BY <1>8 DEF Divided
  <2>3. \A x \in Nat : ~(x + m <= Len(b))
    BY <1>3
  <2>4. ~(Len(p.rest) + m <= Len(b))
    BY <2>1, <2>3, Zenon
  <2>5. QED
    BY <2>2, <2>4
<1>10. Settled(p.rest, b)
  BY <1>8, <1>9 DEF Divided
<1>11. QED
  BY <1>8, <1>10 DEF p, m

-----------------------------------------------------------------------------
(* The scan and its reference                                              *)

(* The least element of a set of numbers.                                  *)
LEMMA LeastIn ==
  ASSUME NEW T \in SUBSET Nat, T # {}
  PROVE  Min(T) \in T /\ \A y \in T : Min(T) <= y
<1>1. \E x \in T : \A y \in T : x <= y
  BY Least
<1>2. QED
  BY <1>1 DEF Min

(* A scan cuts at the first boundary, when something to say lies before it.*)
LEMMA FirstCut ==
  ASSUME NEW u \in Seq(Chars), NEW k \in 1..Len(u), u[k] \in FlushChars,
         \A j \in 1..Len(u) : j < k => u[j] \notin FlushChars,
         ~IsBlank(SubSeq(u, 1, k))
  PROVE  /\ TryExtractOne(u).seg = Strip(SubSeq(u, 1, k))
         /\ TryExtractOne(u).rest = SubSeq(u, k + 1, Len(u))
         /\ TryExtractOne(u).seg # None
<1> DEFINE first == [seg |-> None, rest |-> u]
           c == Cut(u, k)
<1>1. PICK scan : /\ Iterates(scan, Results, first, ScanStep(u), Len(u))
                  /\ AtBoundary(u) = scan[Len(u)]
  BY Scanning
<1>2. Len(u) \in Nat /\ k \in Nat /\ k <= Len(u) /\ k > 0 /\ first \in Results
      /\ first.seg = None /\ first.rest = u
  BY DEF Results
<1>3. c.rest = SubSeq(u, k + 1, Len(u)) /\ c.seg = Strip(SubSeq(u, 1, k)) /\ c.seg # None
      /\ c \in Results
  <2>1. PICK d \in 0..Len(u) :
           /\ d = IF k <= Len(u) THEN k ELSE Len(u)
           /\ c.rest = SubSeq(u, d + 1, Len(u))
           /\ c.seg = None => IsBlank(SubSeq(u, 1, d))
           /\ c.seg # None => c.seg = Strip(SubSeq(u, 1, d))
    BY <1>2, CutDivides
  <2>2. d = k
    BY <1>2, <2>1
  <2>3. c \in Results
    BY <1>2, CutType
  <2> HIDE DEF c
  <2>4. QED
    BY <2>1, <2>2, <2>3, Zenon
<1> HIDE DEF first
<1> DEFINE T == {n \in Nat : n <= Len(u) => scan[n] = IF n < k THEN first ELSE c}
<1>4. 0 \in T
  BY <1>1, <1>2 DEF Iterates
<1>5. ASSUME NEW n \in Nat, n \in T PROVE n + 1 \in T
  <2> HIDE DEF c
  <2>1. CASE n + 1 <= Len(u)
    <3> DEFINE i == n + 1
               r == scan[n]
    <3>1. i \in 1..Len(u) /\ i - 1 = n /\ i \in Nat /\ n \in 0..Len(u)
          /\ r = IF n < k THEN first ELSE c
      BY <1>2, <1>5, <2>1
    <3>2. scan[i] = ScanStep(u)[r][i]
      BY <1>1, <3>1 DEF Iterates
    <3>3. r \in Results
      BY <1>2, <1>3, <3>1
    <3> HIDE DEF i, r
    <3>4. scan[i] = IF r.seg # None \/ u[i] \notin FlushChars THEN r ELSE Cut(r.rest, i)
      BY <3>1, <3>2, <3>3 DEF ScanStep
    <3>5. CASE i < k
      <4>1. r = first /\ u[i] \notin FlushChars
        BY <3>1, <3>5
      <4>2. scan[i] = first
        BY <3>4, <4>1
      <4>3. QED
        BY <3>5, <4>2 DEF i
    <3>6. CASE i = k
      <4>1. r = first
        BY <3>1, <3>6
      <4>2. scan[i] = Cut(u, k)
        BY <1>2, <3>4, <3>6, <4>1
      <4>3. ~(i < k)
        BY <1>2, <3>6
      <4>4. QED
        BY <4>2, <4>3 DEF i, c
    <3>7. CASE i > k
      <4>1. ~(n < k) /\ ~(i < k)
        BY <1>2, <3>1, <3>7
      <4>2. r = c
        BY <3>1, <4>1
      <4>3. scan[i] = c
        BY <1>3, <3>4, <4>2
      <4>4. QED
        BY <4>1, <4>3 DEF i
    <3>8. i < k \/ i = k \/ i > k
      BY <1>2, <3>1
    <3>9. QED
      BY <3>5, <3>6, <3>7, <3>8, Zenon
  <2>2. QED
    BY <2>1
<1> HIDE DEF c, T
<1>6. Len(u) \in T
  BY <1>2, <1>4, <1>5, Induct
<1>7. AtBoundary(u) = c
  BY <1>1, <1>2, <1>6 DEF T
<1>8. TryExtractOne(u) = c
  BY <1>3, <1>7 DEF TryExtractOne
<1>9. QED
  BY <1>3, <1>8

(* The first n boundaries of a text end at e[1], e[2], ..., e[n].          *)
CutsAt(e, s, n) ==
  /\ e \in [0..n -> 0..Len(s)] /\ e[0] = 0
  /\ \A i \in 1..n :
       /\ e[i - 1] < e[i] /\ s[e[i]] \in FlushChars
       /\ \A j \in 1..Len(s) : e[i - 1] < j /\ j < e[i] => s[j] \notin FlushChars

(* The sentences of a text lie between its boundaries.                     *)
LEMMA SentencesCut ==
  ASSUME NEW s \in Seq(Chars)
  PROVE  \E n \in 0..Len(s) : \E e :
           /\ CutsAt(e, s, n)
           /\ Sentences(s) = [i \in 1..n |-> SubSeq(s, e[i - 1] + 1, e[i])]
<1> DEFINE ends == {i \in DOMAIN s : s[i] \in FlushChars}
           Later(x) == {i \in ends : i > x}
           n == Cardinality(ends)
           step == [x \in 0..Len(s) |-> [i \in Nat |->
                      IF Later(x) = {} THEN x ELSE Min(Later(x))]]
           Ended(g) == [i \in 0..n |-> IF i = 0 THEN 0 ELSE Min(Later(g[i - 1]))]
           end == CHOOSE f : f = Ended(f)
<1>1. Sentences(s) = [i \in 1..n |-> SubSeq(s, end[i - 1] + 1, end[i])]
  BY Zenon DEF Sentences
<1>2. ends \subseteq 1..Len(s) /\ Len(s) \in Nat
  OBVIOUS
<1>3. IsFiniteSet(ends) /\ n \in Nat /\ n <= Len(s)
  <2>1. IsFiniteSet(1..Len(s)) /\ Cardinality(1..Len(s)) = IF 1 > Len(s) THEN 0 ELSE Len(s) - 1 + 1
    BY <1>2, FS_Interval
  <2>2. IsFiniteSet(ends) /\ Cardinality(ends) <= Cardinality(1..Len(s))
    BY <1>2, <2>1, FS_Subset
  <2>3. n \in Nat
    BY <2>2, FS_CardinalityType
  <2>4. QED
    BY <1>2, <2>1, <2>2, <2>3
<1>4. ASSUME NEW x \in 0..Len(s), Later(x) # {}
      PROVE  /\ Min(Later(x)) \in Later(x) /\ \A y \in Later(x) : Min(Later(x)) <= y
             /\ Min(Later(x)) \in 0..Len(s)
  <2>1. Later(x) \in SUBSET Nat
    BY <1>2
  <2>2. Min(Later(x)) \in Later(x) /\ \A y \in Later(x) : Min(Later(x)) <= y
    BY <1>4, <2>1, LeastIn
  <2>3. QED
    BY <1>2, <2>2
<1>5. \A x \in 0..Len(s) : \A i \in Nat : step[x][i] \in 0..Len(s)
  <2>1. ASSUME NEW x \in 0..Len(s), NEW i \in Nat PROVE step[x][i] \in 0..Len(s)
    BY <1>4, Zenon
  <2>2. QED
    BY <2>1
<1> DEFINE places == 0..Len(s)
<1>6. PICK f : Iterates(f, places, 0, step, n)
  <2>1. 0 \in places
    BY <1>2
  <2>2. \A x \in places : \A i \in Nat : step[x][i] \in places
    BY <1>5
  <2> HIDE DEF step, places, n
  <2>3. QED
    BY <1>3, <2>1, <2>2, Recursion, Zenon
<1>7. /\ f \in [0..n -> 0..Len(s)] /\ f[0] = 0
      /\ \A i \in 1..n : f[i] = IF Later(f[i - 1]) = {} THEN f[i - 1] ELSE Min(Later(f[i - 1]))
  <2>1. f \in [0..n -> 0..Len(s)] /\ f[0] = 0 /\ \A i \in 1..n : f[i] = step[f[i - 1]][i]
    BY <1>6 DEF Iterates
  <2>2. ASSUME NEW i \in 1..n
        PROVE  f[i] = IF Later(f[i - 1]) = {} THEN f[i - 1] ELSE Min(Later(f[i - 1]))
    <3>1. i - 1 \in 0..n /\ i \in Nat
      BY <1>3
    <3> HIDE DEF n, Later
    <3>2. f[i - 1] \in 0..Len(s)
      BY <2>1, <3>1
    <3>3. QED
      BY <2>1, <3>1, <3>2, Zenon
  <2>3. QED
    BY <2>1, <2>2
<1> DEFINE T == {i \in Nat : i <= n => Cardinality(Later(f[i])) = n - i}
<1>8. 0 \in T
  <2>1. Later(f[0]) = ends
    BY <1>2, <1>7
  <2> HIDE DEF Later
  <2>2. Cardinality(Later(f[0])) = n
    BY <2>1, Zenon
  <2> HIDE DEF n
  <2>3. QED
    BY <1>3, <2>2
<1>9. ASSUME NEW i \in Nat, i \in T, i + 1 <= n
      PROVE  Later(f[i]) # {} /\ f[i + 1] = Min(Later(f[i])) /\ f[i] \in 0..Len(s)
  <2>1. f[i] \in 0..Len(s) /\ i + 1 \in 1..n /\ (i + 1) - 1 = i
    BY <1>3, <1>7, <1>9
  <2>2. Cardinality(Later(f[i])) = n - i
    BY <1>3, <1>9
  <2> HIDE DEF Later, n
  <2>3. Later(f[i]) # {}
    <3>1. Cardinality({}) = 0
      BY FS_EmptySet
    <3>2. n - i # 0
      BY <1>3, <1>9
    <3>3. QED
      BY <2>2, <3>1, <3>2
  <2>4. QED
    BY <1>7, <2>1, <2>3
<1>10. ASSUME NEW i \in Nat, i \in T PROVE i + 1 \in T
  <2>1. CASE i + 1 <= n
    <3> DEFINE q == f[i + 1]
    <3>1. q = Min(Later(f[i])) /\ Later(f[i]) # {} /\ f[i] \in 0..Len(s)
      BY <1>9, <1>10, <2>1
    <3>2. q \in Later(f[i]) /\ \A y \in Later(f[i]) : q <= y
      BY <1>4, <3>1
    <3> HIDE DEF q
    <3>3. Later(q) = Later(f[i]) \ {q}
      <4>0. q \in Nat /\ q > f[i] /\ f[i] \in Nat
        <5>1. q \in ends /\ q > f[i]
          BY <3>2, Zenon
        <5> HIDE DEF ends
        <5>2. QED
          BY <1>2, <3>1, <5>1
      <4>1. ASSUME NEW y \in Later(q) PROVE y \in Later(f[i]) \ {q}
        <5>1. y \in ends /\ y > q /\ y \in Nat
          BY <1>2
        <5>2. y > f[i] /\ y # q
          BY <4>0, <5>1
        <5>3. QED
          BY <5>1, <5>2, Zenon
      <4>2. ASSUME NEW y \in Later(f[i]) \ {q} PROVE y \in Later(q)
        <5>1. y \in ends /\ q <= y /\ y # q /\ y \in Nat
          BY <1>2, <3>2
        <5>2. y > q
          BY <4>0, <5>1
        <5>3. QED
          BY <5>1, <5>2, Zenon
      <4> HIDE DEF Later
      <4>3. QED
        BY <4>1, <4>2
    <3>4. IsFiniteSet(Later(f[i]))
      <4>1. Later(f[i]) \in SUBSET ends
        OBVIOUS
      <4>2. QED
        BY <1>3, <4>1, FS_Subset
    <3>5. Cardinality(Later(f[i])) = n - i
      BY <1>3, <1>10, <2>1
    <3> HIDE DEF Later, n
    <3>6. Cardinality(Later(f[i]) \ {q}) = Cardinality(Later(f[i])) - 1
      BY <3>2, <3>4, FS_RemoveElement
    <3>7. Cardinality(Later(q)) = n - (i + 1)
      BY <1>3, <3>3, <3>5, <3>6
    <3>8. QED
      BY <3>7 DEF q
  <2>2. QED
    BY <2>1
<1> HIDE DEF T
<1>11. \A i \in Nat : i \in T
  BY <1>8, <1>10, Induct
<1>12. ASSUME NEW i \in 1..n
       PROVE  /\ Later(f[i - 1]) # {} /\ f[i] = Min(Later(f[i - 1]))
              /\ f[i - 1] \in 0..Len(s)
  <2>1. i - 1 \in Nat /\ (i - 1) + 1 <= n /\ (i - 1) + 1 = i
    BY <1>3
  <2> HIDE DEF Later, n
  <2>2. QED
    BY <1>9, <1>11, <2>1
<1>13. CutsAt(f, s, n)
  <2>1. ASSUME NEW i \in 1..n
        PROVE  /\ f[i - 1] < f[i] /\ s[f[i]] \in FlushChars
               /\ \A j \in 1..Len(s) : f[i - 1] < j /\ j < f[i] => s[j] \notin FlushChars
    <3>1. f[i] \in Later(f[i - 1]) /\ \A y \in Later(f[i - 1]) : f[i] <= y
      BY <1>4, <1>12
    <3>2. f[i - 1] < f[i] /\ s[f[i]] \in FlushChars
      BY <1>2, <1>12, <3>1
    <3>3. ASSUME NEW j \in 1..Len(s), f[i - 1] < j, j < f[i], s[j] \in FlushChars PROVE FALSE
      <4>1. j \in Later(f[i - 1])
        BY <1>2, <1>12, <3>3
      <4>2. f[i] <= j /\ f[i] \in Nat
        BY <1>2, <3>1, <4>1
      <4>3. QED
        BY <3>3, <4>2
    <3>4. QED
      BY <3>2, <3>3
  <2> HIDE DEF n
  <2>2. QED
    BY <1>7, <2>1 DEF CutsAt
<1>14. f = Ended(f)
  <2>1. ASSUME NEW i \in 0..n PROVE f[i] = IF i = 0 THEN 0 ELSE Min(Later(f[i - 1]))
    <3>1. i # 0 => i \in 1..n
      BY <1>3
    <3> HIDE DEF n, Later
    <3>2. QED
      BY <1>7, <1>12, <3>1
  <2>2. f = [i \in 0..n |-> f[i]]
    BY <1>7
  <2> HIDE DEF n, Later
  <2>3. QED
    BY <2>1, <2>2
<1> HIDE DEF Ended
<1>15. end = Ended(end)
  BY <1>14, Zenon
<1> HIDE DEF end, Later
<1>16. \A i \in 0..n : end[i] = f[i]
  <2>0. n \in Nat /\ 0 \in 0..n
    BY <1>3
  <2> HIDE DEF n
  <2>1. end[0] = f[0]
    BY <1>7, <1>15, <2>0, Zenon DEF Ended
  <2>2. ASSUME NEW i \in 1..n, end[i - 1] = f[i - 1] PROVE end[i] = f[i]
    <3>1. i \in 0..n /\ i # 0
      BY <2>0
    <3>2. end[i] = Min(Later(end[i - 1]))
      BY <1>15, <3>1, Zenon DEF Ended
    <3>3. QED
      BY <1>12, <2>2, <3>2, Zenon
  <2>3. StepAlike(end, f, n)
    BY <2>1, <2>2 DEF StepAlike
  <2>4. QED
    BY <2>0, <2>3, SameRecursion, Zenon
<1> HIDE DEF n
<1>17. Sentences(s) = [i \in 1..n |-> SubSeq(s, f[i - 1] + 1, f[i])]
  <2>1. ASSUME NEW i \in 1..n PROVE end[i - 1] = f[i - 1] /\ end[i] = f[i]
    <3>1. i \in 0..n /\ i - 1 \in 0..n
      BY <1>3
    <3>2. QED
      BY <1>16, <3>1
  <2>2. QED
    BY <1>1, <2>1, Zenon
<1>18. n \in 0..Len(s)
  BY <1>2, <1>3
<1>19. QED
  BY <1>13, <1>17, <1>18, Zenon

(* The sentence that ends at e[i].                                         *)
SentenceOf(s, e, i) == SubSeq(s, e[i - 1] + 1, e[i])

(* The loop has come as far as the reference: n sentences are said, the    *)
(* rest begins behind the last of them.                                    *)
Followed(p, s, e, n) ==
  /\ p \in Passes /\ p.more /\ Len(p.segs) = n
  /\ \A i \in 1..n : p.segs[i] = Strip(SentenceOf(s, e, i))
  /\ p.rest = SubSeq(s, e[n] + 1, Len(s))

(* A pass says the next sentence.                                          *)
LEMMA PassFollows ==
  ASSUME NEW s \in Seq(Chars), NEW m \in Nat, NEW e, CutsAt(e, s, m), NEW n \in Nat, n + 1 <= m,
         ~IsBlank(SentenceOf(s, e, n + 1)), NEW p, Followed(p, s, e, n)
  PROVE  Followed(Pass(p), s, e, n + 1)
<1> DEFINE u == SubSeq(s, e[n] + 1, Len(s))
           d == e[n]
           z == e[n + 1]
           k == z - d
           r == TryExtractOne(u)
<1>1. n \in 0..m /\ n + 1 \in 1..m /\ n + 1 \in 0..m /\ (n + 1) - 1 = n
  OBVIOUS
<1>2. /\ d \in 0..Len(s) /\ z \in 0..Len(s) /\ d < z /\ s[z] \in FlushChars
      /\ \A j \in 1..Len(s) : d < j /\ j < z => s[j] \notin FlushChars
  BY <1>1 DEF CutsAt
<1>3. SentenceOf(s, e, n + 1) = SubSeq(s, d + 1, z)
  BY <1>1 DEF SentenceOf
<1>4. p \in Passes /\ p.more /\ Len(p.segs) = n /\ p.rest = u
      /\ \A i \in 1..n : p.segs[i] = Strip(SentenceOf(s, e, i))
  BY DEF Followed
<1> HIDE DEF d, z
<1>5. u = SubSeq(s, d + 1, Len(s))
  BY DEF d
<1> HIDE DEF u
<1>6. /\ Len(s) \in Nat /\ u \in Seq(Chars) /\ Len(u) = Len(s) - d
      /\ \A i \in 1..(Len(s) - d) : u[i] = s[d + i]
  BY <1>2, <1>5
<1>7. k \in 1..Len(u) /\ d + k = z /\ k \in Nat
  BY <1>2, <1>6
<1> HIDE DEF k
<1>8. u[k] \in FlushChars
  BY <1>2, <1>6, <1>7
<1>9. ASSUME NEW j \in 1..Len(u), j < k PROVE u[j] \notin FlushChars
  <2>1. d + j \in 1..Len(s) /\ d < d + j /\ d + j < z /\ u[j] = s[d + j]
    BY <1>2, <1>6, <1>7, <1>9
  <2>2. QED
    BY <1>2, <2>1
<1>10. SubSeq(u, 1, k) = SubSeq(s, d + 1, z)
  <2> DEFINE x == SubSeq(u, 1, k)  y == SubSeq(s, d + 1, z)
  <2>1. x \in Seq(Chars) /\ Len(x) = k /\ \A i \in 1..k : x[i] = u[i]
    BY <1>6, <1>7
  <2>2. y \in Seq(Chars) /\ Len(y) = k /\ \A i \in 1..k : y[i] = s[d + i]
    BY <1>2, <1>6, <1>7
  <2>3. \A i \in 1..k : u[i] = s[d + i]
    BY <1>2, <1>6, <1>7
  <2> HIDE DEF x, y
  <2>4. x = y
    BY <2>1, <2>2, <2>3, SeqEqual
  <2>5. QED
    BY <2>4 DEF x, y
<1>11. SubSeq(u, k + 1, Len(u)) = SubSeq(s, z + 1, Len(s))
  <2> DEFINE l == Len(s) - z
             x == SubSeq(u, k + 1, Len(u))
             y == SubSeq(s, z + 1, Len(s))
  <2>0. l \in Nat /\ Len(s) = z + l /\ z \in Nat /\ k \in Nat /\ d \in Nat
    BY <1>2, <1>6, <1>7
  <2>1. Len(u) = k + l /\ l \in Nat /\ Len(s) = z + l /\ z \in Nat /\ k \in Nat
    <3> HIDE DEF l
    <3>1. QED
      BY <1>6, <1>7, <2>0
  <2> HIDE DEF l
  <2>2. x \in Seq(Chars) /\ Len(x) = l /\ \A i \in 1..l : x[i] = u[k + i]
    <3>1. x \in Seq(Chars) /\ Len(x) = Len(u) - k /\ \A i \in 1..(Len(u) - k) : x[i] = u[k + i]
      BY <1>6, <1>7
    <3>2. Len(u) - k = l
      BY <2>1
    <3> HIDE DEF x
    <3>3. QED
      BY <3>1, <3>2, Zenon
  <2>3. y \in Seq(Chars) /\ Len(y) = l /\ \A i \in 1..l : y[i] = s[z + i]
    BY <2>1
  <2>4. ASSUME NEW i \in 1..l PROVE u[k + i] = s[z + i]
    <3>1. k + i \in 1..(Len(s) - d) /\ d + (k + i) = z + i
      BY <1>2, <1>6, <1>7, <2>1
    <3>2. QED
      BY <1>6, <3>1
  <2> HIDE DEF x, y
  <2>5. x = y
    BY <2>2, <2>3, <2>4, SeqEqual
  <2>6. QED
    BY <2>5 DEF x, y
<1>12. /\ r.seg = Strip(SentenceOf(s, e, n + 1)) /\ r.seg # None
       /\ r.rest = SubSeq(s, z + 1, Len(s))
  <2>1. ~IsBlank(SubSeq(u, 1, k))
    BY <1>3, <1>10
  <2>2. /\ TryExtractOne(u).seg = Strip(SubSeq(u, 1, k))
        /\ TryExtractOne(u).rest = SubSeq(u, k + 1, Len(u))
        /\ TryExtractOne(u).seg # None
    BY <1>6, <1>7, <1>8, <1>9, <2>1, FirstCut
  <2>3. QED
    BY <1>3, <1>10, <1>11, <2>2, Zenon
<1>13. r.seg \in Seq(Chars)
  BY <1>6, <1>12, PassExtracts DEF Extracts, Speakable
<1> HIDE DEF r
<1> DEFINE q == Pass(p)
<1>14. q = [segs |-> Append(p.segs, r.seg), rest |-> r.rest, more |-> TRUE]
  BY <1>4, <1>12, Zenon DEF Pass, r
<1>15. q \in Passes
  BY <1>4, PassType
<1> HIDE DEF q
<1>16. q.segs = Append(p.segs, r.seg) /\ q.rest = r.rest /\ q.more
  BY <1>14
<1>17. p.segs \in Seq(Seq(Chars))
  BY <1>4 DEF Passes
<1>18. Len(q.segs) = n + 1
  BY <1>4, <1>13, <1>16, <1>17
<1>19. ASSUME NEW i \in 1..(n + 1) PROVE q.segs[i] = Strip(SentenceOf(s, e, i))
  <2>1. CASE i = n + 1
    <3>1. q.segs[n + 1] = r.seg
      BY <1>4, <1>13, <1>16, <1>17
    <3>2. QED
      BY <1>12, <2>1, <3>1, Zenon
  <2>2. CASE i # n + 1
    <3>1. i \in 1..n
      BY <2>2
    <3>2. q.segs[i] = p.segs[i]
      BY <1>4, <1>13, <1>16, <1>17, <3>1
    <3>3. QED
      BY <1>4, <3>1, <3>2, Zenon
  <2>3. QED
    BY <2>1, <2>2
<1>20. q.rest = SubSeq(s, e[n + 1] + 1, Len(s))
  BY <1>12, <1>16 DEF z
<1>21. Followed(q, s, e, n + 1)
  BY <1>15, <1>16, <1>18, <1>19, <1>20, Zenon DEF Followed
<1>22. QED
  BY <1>21 DEF q

(* The first n segments are the first n sentences.                         *)
Leads(p, s, e, n) ==
  /\ p \in Passes /\ Len(p.segs) >= n
  /\ \A i \in 1..n : p.segs[i] = Strip(SentenceOf(s, e, i))

(* A pass takes no segment back.                                           *)
LEMMA PassLeads ==
  ASSUME NEW s, NEW e, NEW n \in Nat, NEW p, Leads(p, s, e, n)
  PROVE  Leads(Pass(p), s, e, n)
<1> DEFINE q == Pass(p)
<1>1. p \in Passes /\ p.segs \in Seq(Seq(Chars)) /\ Len(p.segs) >= n /\ Len(p.segs) \in Nat
  BY DEF Leads, Passes
<1>2. q \in Passes
  BY <1>1, PassType
<1>3. q.segs = p.segs \/ \E g : q.segs = Append(p.segs, g) /\ q.segs \in Seq(Seq(Chars))
  <2>1. CASE ~p.more
    BY <2>1 DEF Pass
  <2>2. CASE p.more
    <3>1. q.segs = IF TryExtractOne(p.rest).seg = None THEN p.segs
                   ELSE Append(p.segs, TryExtractOne(p.rest).seg)
      BY <2>2 DEF Pass
    <3>2. q.segs \in Seq(Seq(Chars))
      BY <1>2 DEF Passes
    <3> HIDE DEF q
    <3>3. QED
      BY <3>1, <3>2
  <2>3. QED
    BY <2>1, <2>2
<1> HIDE DEF q
<1>4. Len(q.segs) >= n /\ \A i \in 1..n : q.segs[i] = p.segs[i]
  <2>1. CASE q.segs = p.segs
    BY <1>1, <2>1
  <2>2. CASE \E g : q.segs = Append(p.segs, g) /\ q.segs \in Seq(Seq(Chars))
    <3>1. PICK g : q.segs = Append(p.segs, g)
      BY <2>2
    <3>2. Len(q.segs) = Len(p.segs) + 1 /\ \A i \in 1..Len(p.segs) : q.segs[i] = p.segs[i]
      BY <1>1, <3>1
    <3>3. \A i \in 1..n : i \in 1..Len(p.segs)
      BY <1>1
    <3>4. \A i \in 1..n : q.segs[i] = p.segs[i]
      BY <3>2, <3>3, Zenon
    <3>5. \A x \in Nat : x >= n => x + 1 >= n
      OBVIOUS
    <3>6. Len(q.segs) >= n
      BY <1>1, <3>2, <3>5, Zenon
    <3>7. QED
      BY <3>4, <3>6
  <2>3. QED
    BY <1>3, <2>1, <2>2
<1>5. Leads(q, s, e, n)
  BY <1>2, <1>4, Zenon DEF Leads
<1>6. QED
  BY <1>5 DEF q

(* The reference is met: what the loop returns begins with the sentences.  *)
LEMMA ReferenceMet ==
  ASSUME NEW s \in Seq(Chars),
         \A i \in DOMAIN Sentences(s) : ~IsBlank(Sentences(s)[i])
  PROVE  IsPrefix(Cuts(s), ExtractSegments(s).segs)
<1> DEFINE m == Len(s) + 1
           first == [segs |-> <<>>, rest |-> s, more |-> TRUE]
<1>1. PICK n \in 0..Len(s) : \E e :
           /\ CutsAt(e, s, n)
           /\ Sentences(s) = [i \in 1..n |-> SubSeq(s, e[i - 1] + 1, e[i])]
  BY SentencesCut
<1>2. PICK e :
           /\ CutsAt(e, s, n)
           /\ Sentences(s) = [i \in 1..n |-> SubSeq(s, e[i - 1] + 1, e[i])]
  BY <1>1
<1>3. PICK pass : Iterates(pass, Passes, first, PassStep, m) /\ ExtractSegments(s) = pass[m]
  BY Passing
<1>4. n \in Nat /\ m \in Nat /\ n <= m /\ Len(s) \in Nat
  OBVIOUS
<1>5. DOMAIN Sentences(s) = 1..n /\ \A i \in 1..n : Sentences(s)[i] = SentenceOf(s, e, i)
  BY <1>2 DEF SentenceOf
<1>6. \A i \in 1..n : ~IsBlank(SentenceOf(s, e, i))
  BY <1>5, Zenon
<1>7. Cuts(s) = [i \in 1..n |-> Strip(SentenceOf(s, e, i))]
  <2>1. ASSUME NEW i \in 1..n
        PROVE  (IF IsBlank(Sentences(s)[i]) THEN <<>> ELSE Strip(Sentences(s)[i]))
                 = Strip(SentenceOf(s, e, i))
    BY <1>5, <1>6, Zenon
  <2>2. QED
    BY <1>5, <2>1, Zenon DEF Cuts
<1>8. \A i \in 1..n : SentenceOf(s, e, i) \in Seq(Chars)
  <2>1. ASSUME NEW i \in 1..n PROVE SentenceOf(s, e, i) \in Seq(Chars)
    <3>1. i - 1 \in 0..n /\ i \in 0..n
      BY <1>4
    <3>2. e[i - 1] \in 0..Len(s) /\ e[i] \in 0..Len(s)
      BY <1>2, <3>1 DEF CutsAt
    <3>3. QED
      BY <3>2 DEF SentenceOf
  <2>2. QED
    BY <2>1
<1>9. \A i \in 1..n : Strip(SentenceOf(s, e, i)) \in Seq(Chars)
  BY <1>6, <1>8, StripSpeakable DEF Speakable
<1>10. Followed(first, s, e, 0)
  <2>1. e[0] = 0 /\ s = SubSeq(s, 0 + 1, Len(s))
    BY <1>2, SubSeqFull DEF CutsAt
  <2>2. first \in Passes /\ first.more /\ Len(first.segs) = 0 /\ first.rest = s
    BY DEF Passes
  <2> HIDE DEF first
  <2>3. \A i \in 1..0 : first.segs[i] = Strip(SentenceOf(s, e, i))
    OBVIOUS
  <2>4. QED
    BY <2>1, <2>2, <2>3, Zenon DEF Followed
<1> HIDE DEF first, m
<1>11. ASSUME NEW p, Followed(p, s, e, n) PROVE Leads(p, s, e, n)
  BY <1>4, <1>11 DEF Followed, Leads
<1> DEFINE T == {i \in Nat : i <= m => /\ i <= n => Followed(pass[i], s, e, i)
                                       /\ i >= n => Leads(pass[i], s, e, n)}
<1>12. 0 \in T
  <2>1. pass[0] = first
    BY <1>3 DEF Iterates
  <2>2. Followed(pass[0], s, e, 0)
    BY <1>10, <2>1
  <2>3. 0 >= n => n = 0
    BY <1>4
  <2>4. 0 >= n => Leads(pass[0], s, e, n)
    BY <1>11, <2>2, <2>3
  <2>5. QED
    BY <2>2, <2>4
<1>13. ASSUME NEW i \in Nat, i \in T PROVE i + 1 \in T
  <2>1. CASE i + 1 <= m
    <3>1. i + 1 \in 1..m /\ (i + 1) - 1 = i /\ i \in 0..m /\ i <= m /\ i + 1 \in Nat
      BY <1>4, <2>1
    <3>2. pass[i + 1] = PassStep[pass[i]][i + 1] /\ pass[i] \in Passes
      BY <1>3, <3>1 DEF Iterates
    <3>3. pass[i + 1] = Pass(pass[i])
      BY <3>1, <3>2 DEF PassStep
    <3>4. (i <= n => Followed(pass[i], s, e, i)) /\ (i >= n => Leads(pass[i], s, e, n))
      BY <1>13, <3>1
    <3>5. ASSUME i + 1 <= n PROVE Followed(pass[i + 1], s, e, i + 1)
      <4>1. i <= n /\ i + 1 \in 1..n
        BY <1>4, <3>5
      <4>2. Followed(pass[i], s, e, i) /\ ~IsBlank(SentenceOf(s, e, i + 1))
        BY <1>6, <3>4, <4>1
      <4>3. QED
        BY <1>2, <1>4, <3>3, <3>5, <4>2, PassFollows
    <3>6. ASSUME i + 1 >= n PROVE Leads(pass[i + 1], s, e, n)
      <4>1. CASE i + 1 = n
        <5>1. Followed(pass[i + 1], s, e, n)
          BY <1>4, <3>5, <4>1
        <5>2. QED
          BY <1>11, <5>1
      <4>2. CASE i >= n
        <5>1. Leads(pass[i], s, e, n)
          BY <3>4, <4>2
        <5>2. QED
          BY <1>4, <3>3, <5>1, PassLeads
      <4>3. i + 1 = n \/ i >= n
        BY <1>4, <3>6
      <4>4. QED
        BY <4>1, <4>2, <4>3
    <3>7. QED
      BY <3>5, <3>6
  <2>2. QED
    BY <2>1
<1> HIDE DEF T
<1>14. m \in T
  BY <1>4, <1>12, <1>13, Induct
<1> DEFINE p == ExtractSegments(s)
           cuts == Cuts(s)
<1>15. Leads(p, s, e, n)
  BY <1>3, <1>4, <1>14 DEF T
<1> HIDE DEF p, cuts
<1>16. p.segs \in Seq(Seq(Chars)) /\ Len(p.segs) >= n
       /\ \A i \in 1..n : p.segs[i] = Strip(SentenceOf(s, e, i))
  BY <1>15 DEF Leads, Passes
<1>17. cuts = [i \in 1..n |-> Strip(SentenceOf(s, e, i))]
  BY <1>7 DEF cuts
<1>18. cuts \in Seq(Seq(Chars)) /\ Len(cuts) = n /\ \A i \in 1..n : cuts[i] = p.segs[i]
  <2>1. cuts \in [1..n -> Seq(Chars)]
    BY <1>9, <1>17
  <2>2. \A i \in 1..n : cuts[i] = p.segs[i]
    BY <1>16, <1>17
  <2>3. QED
    BY <1>4, <2>1, <2>2
<1>19. SubSeq(cuts, 1, n) = SubSeq(p.segs, 1, n)
  <2>1. SubSeq(cuts, 1, n) \in Seq(Seq(Chars)) /\ Len(SubSeq(cuts, 1, n)) = n
        /\ \A i \in 1..n : SubSeq(cuts, 1, n)[i] = cuts[i]
    BY <1>4, <1>18
  <2>2. SubSeq(p.segs, 1, n) \in Seq(Seq(Chars)) /\ Len(SubSeq(p.segs, 1, n)) = n
        /\ \A i \in 1..n : SubSeq(p.segs, 1, n)[i] = p.segs[i]
    BY <1>4, <1>16
  <2>3. \A i \in 1..n : SubSeq(cuts, 1, n)[i] = SubSeq(p.segs, 1, n)[i]
    BY <1>18, <2>1, <2>2
  <2>4. QED
    BY <2>1, <2>2, <2>3, SeqEqual
<1>20. IsPrefix(cuts, p.segs)
  BY <1>4, <1>16, <1>18, <1>19 DEF IsPrefix
<1>21. QED
  BY <1>20 DEF p, cuts

(* A text without boundaries has no sentences.                             *)
LEMMA NoSentences ==
  ASSUME NEW s \in Seq(Chars), \A i \in DOMAIN s : s[i] \notin FlushChars
  PROVE  \A segs \in Seq(Seq(Chars)) : IsPrefix(Cuts(s), segs)
<1>1. PICK n \in 0..Len(s) : \E e :
           /\ CutsAt(e, s, n)
           /\ Sentences(s) = [i \in 1..n |-> SubSeq(s, e[i - 1] + 1, e[i])]
  BY SentencesCut
<1>2. n = 0
  <2>1. SUFFICES ASSUME n # 0 PROVE FALSE
    OBVIOUS
  <2>2. PICK e : CutsAt(e, s, n)
    BY <1>1
  <2>3. n \in 1..n /\ n \in 0..n /\ n - 1 \in 0..n /\ Len(s) \in Nat
    BY <2>1
  <2>4. e[n] \in 0..Len(s) /\ e[n - 1] \in 0..Len(s) /\ e[n - 1] < e[n] /\ s[e[n]] \in FlushChars
    BY <2>2, <2>3 DEF CutsAt
  <2>5. e[n] \in DOMAIN s
    BY <2>3, <2>4
  <2>6. QED
    BY <2>4, <2>5
<1>3. DOMAIN Sentences(s) = {}
  BY <1>1, <1>2
<1>4. Cuts(s) = <<>>
  BY <1>3 DEF Cuts
<1>5. ASSUME NEW segs \in Seq(Seq(Chars)) PROVE IsPrefix(<<>>, segs)
  <2>1. Len(<<>>) = 0 /\ SubSeq(<<>>, 1, 0) = <<>> /\ SubSeq(segs, 1, 0) = <<>> /\ Len(segs) >= 0
    BY SubSeqEmpty
  <2>2. QED
    BY <2>1 DEF IsPrefix
<1>6. QED
  BY <1>4, <1>5

-----------------------------------------------------------------------------
(* The accumulator                                                         *)

(* The type of the state.                                                  *)
Typed == /\ buffer \in Seq(Chars) /\ text \in Seq(Chars)
         /\ fed \in Seq(Chars) /\ spoken \in Seq(Chars)
         /\ returned \in Seq(Seq(Chars))

(* The inductive invariant: NoSentenceWaits and LongBehindBlanks are       *)
(* Settled(buffer, text).                                                  *)
AccumulatorInv == Typed /\ NothingLost /\ SegmentsSpeakable /\ Settled(buffer, text)

(* A token is text.                                                        *)
LEMMA TokensType == Tokens \subseteq Seq(Chars)
<1>1. ASSUME NEW t \in Tokens PROVE t \in Seq(Chars)
  <2>1. PICK n \in 0..MaxToken : t \in [1..n -> Chars]
    BY DEF Tokens, BoundedSeq, SeqOf
  <2>2. n \in Nat
    BY LengthsAssumption
  <2>3. QED
    BY <2>1, <2>2
<1>2. QED
  BY <1>1

(* The segments flush() returns.                                           *)
FlushSegments(b) == IF IsBlank(b) THEN <<>> ELSE <<Strip(b)>>

(* flush() says what the buffer says.                                      *)
LEMMA FlushSays ==
  ASSUME NEW b \in Seq(Chars)
  PROVE  /\ FlushSegments(b) \in Seq(Seq(Chars))
         /\ \A j \in DOMAIN FlushSegments(b) : Speakable(FlushSegments(b)[j])
         /\ NonBlank(FlattenSeq(FlushSegments(b))) = NonBlank(b)
<1> DEFINE F == FlushSegments(b)
<1>1. CASE IsBlank(b)
  <2>1. F = <<>>
    BY <1>1 DEF FlushSegments
  <2> HIDE DEF F
  <2>2. F \in Seq(Seq(Chars)) /\ DOMAIN F = {}
    BY <2>1
  <2>3. NonBlank(FlattenSeq(F)) = NonBlank(b)
    BY <1>1, <2>1, FlattenEmpty, NonBlankEmpty, NonBlankOfBlank
  <2>4. QED
    BY <2>2, <2>3 DEF F
<1>2. CASE ~IsBlank(b)
  <2> DEFINE g == Strip(b)
  <2>1. F = <<g>>
    BY <1>2 DEF FlushSegments
  <2>2. Speakable(g) /\ NonBlank(g) = NonBlank(b)
    BY <1>2, StripSpeakable
  <2>3. g \in Seq(Chars)
    BY <2>2 DEF Speakable
  <2> HIDE DEF F, g
  <2>4. F \in Seq(Seq(Chars)) /\ DOMAIN F = 1..1 /\ F[1] = g /\ F = Append(<<>>, g)
        /\ <<>> \in Seq(Seq(Chars)) /\ <<>> \o g = g
    BY <2>1, <2>3
  <2>5. FlattenSeq(F) = FlattenSeq(<<>>) \o g
    BY <2>3, <2>4, FlattenAppend
  <2>6. FlattenSeq(F) = g
    BY <2>4, <2>5, FlattenEmpty
  <2>7. \A j \in DOMAIN F : Speakable(F[j])
    BY <2>2, <2>4
  <2>8. QED
    BY <2>2, <2>4, <2>6, <2>7 DEF F
<1>3. QED
  BY <1>1, <1>2

(* add() keeps the invariant: what the passes say and leave is what the    *)
(* buffer and the token held.                                              *)
LEMMA AddKeeps ==
  ASSUME AccumulatorInv, NEW token \in Tokens, Add(token)
  PROVE  AccumulatorInv'
<1> DEFINE b == buffer \o token
           r == ExtractSegments(b)
<1>1. token \in Seq(Chars) /\ buffer \in Seq(Chars) /\ fed \in Seq(Chars) /\ spoken \in Seq(Chars)
  BY TokensType DEF AccumulatorInv, Typed
<1>2. b \in Seq(Chars)
  BY <1>1
<1>3. /\ returned' = r.segs /\ spoken' = spoken \o NonBlank(FlattenSeq(r.segs))
      /\ buffer' = r.rest /\ text' = b /\ fed' = fed \o NonBlank(token)
  BY DEF Add, Return
<1>4. NonBlank(b) = NonBlank(buffer) \o NonBlank(token)
  BY <1>1, NonBlankConcat
<1> HIDE DEF b
<1>5. Divided(r, b, Len(b) + 1) /\ Settled(r.rest, b)
  BY <1>2, SegmentsExtracted
<1> HIDE DEF r
<1>6. /\ r.segs \in Seq(Seq(Chars)) /\ r.rest \in Seq(Chars)
      /\ \A j \in DOMAIN r.segs : Speakable(r.segs[j])
      /\ NonBlank(b) = NonBlank(FlattenSeq(r.segs)) \o NonBlank(r.rest)
  BY <1>5 DEF Divided, Passes
<1> DEFINE said == NonBlank(FlattenSeq(r.segs))
           left == NonBlank(r.rest)
           old  == NonBlank(buffer)
           new  == NonBlank(token)
<1>7. said \in Seq(Chars) /\ left \in Seq(Chars) /\ old \in Seq(Chars) /\ new \in Seq(Chars)
  <2>1. FlattenSeq(r.segs) \in Seq(Chars)
    BY <1>6, FlattenType
  <2>2. QED
    BY <1>1, <1>6, <2>1, NonBlankType
<1>8. fed = spoken \o old /\ old \o new = said \o left
  BY <1>4, <1>6 DEF AccumulatorInv, NothingLost
<1>9. fed' = fed \o new /\ spoken' = spoken \o said /\ NonBlank(buffer') = left
  BY <1>3
<1> HIDE DEF said, left, old, new
<1>11. fed' = spoken' \o NonBlank(buffer')
  <2>1. fed' = (spoken \o old) \o new
    BY <1>8, <1>9
  <2>2. (spoken \o old) \o new = spoken \o (old \o new)
    <3>1. spoken \in Seq(Chars) /\ old \in Seq(Chars) /\ new \in Seq(Chars)
      BY <1>1, <1>7
    <3>2. QED
      BY <3>1, ThreePieces, Zenon
  <2>3. (spoken \o said) \o left = spoken \o (said \o left)
    <3>1. spoken \in Seq(Chars) /\ said \in Seq(Chars) /\ left \in Seq(Chars)
      BY <1>1, <1>7
    <3>2. QED
      BY <3>1, ThreePieces, Zenon
  <2>4. QED
    BY <1>8, <1>9, <2>1, <2>2, <2>3, Zenon
<1>12. Typed'
  <2>1. fed' \in Seq(Chars) /\ spoken' \in Seq(Chars)
    BY <1>1, <1>7, <1>9
  <2>2. QED
    BY <1>2, <1>3, <1>6, <2>1 DEF Typed
<1>13. SegmentsSpeakable'
  BY <1>3, <1>6 DEF SegmentsSpeakable, Speakable
<1>14. Settled(buffer, text)'
  BY <1>3, <1>5 DEF Settled
<1>15. QED
  BY <1>11, <1>12, <1>13, <1>14 DEF AccumulatorInv, NothingLost

(* flush() keeps the invariant: it says all and leaves nothing.            *)
LEMMA FlushKeeps ==
  ASSUME AccumulatorInv, Flush
  PROVE  AccumulatorInv'
<1> DEFINE F == FlushSegments(buffer)
<1>1. buffer \in Seq(Chars) /\ fed \in Seq(Chars) /\ spoken \in Seq(Chars)
      /\ fed = spoken \o NonBlank(buffer)
  BY DEF AccumulatorInv, Typed, NothingLost
<1>2. /\ returned' = F /\ spoken' = spoken \o NonBlank(FlattenSeq(F))
      /\ buffer' = <<>> /\ text' = buffer /\ fed' = fed
  BY DEF Flush, Return, FlushSegments
<1>3. /\ F \in Seq(Seq(Chars))
      /\ \A j \in DOMAIN F : Speakable(F[j])
      /\ NonBlank(FlattenSeq(F)) = NonBlank(buffer)
  BY <1>1, FlushSays
<1> HIDE DEF F
<1>4. spoken' = fed
  BY <1>1, <1>2, <1>3
<1>5. fed' = spoken' \o NonBlank(buffer')
  <2>1. NonBlank(buffer') = <<>> /\ fed \o <<>> = fed
    BY <1>1, <1>2, NonBlankEmpty
  <2>2. QED
    BY <1>2, <1>4, <2>1, Zenon
<1>6. Typed'
  BY <1>1, <1>2, <1>3, <1>4 DEF Typed
<1>7. SegmentsSpeakable'
  BY <1>2, <1>3 DEF SegmentsSpeakable, Speakable
<1>8. Settled(buffer, text)'
  <2>1. DOMAIN buffer' = {} /\ ~(Len(buffer') >= MinFlush)
    BY <1>2, LengthsAssumption
  <2>2. QED
    BY <2>1 DEF Settled
<1>9. QED
  BY <1>5, <1>6, <1>7, <1>8 DEF AccumulatorInv, NothingLost

(* The invariant holds in every state the accumulator reaches.             *)
THEOREM AccumulatorInvCorrect == Spec => []AccumulatorInv
<1>1. Init => AccumulatorInv
  <2>1. SUFFICES ASSUME Init PROVE AccumulatorInv
    OBVIOUS
  <2>2. buffer = <<>> /\ text = <<>> /\ fed = <<>> /\ spoken = <<>> /\ returned = <<>>
    BY <2>1 DEF Init
  <2>3. Typed
    BY <2>2 DEF Typed
  <2>4. NothingLost
    BY <2>2, NonBlankEmpty DEF NothingLost
  <2>5. SegmentsSpeakable
    BY <2>2 DEF SegmentsSpeakable
  <2>6. Settled(buffer, text)
    <3>1. DOMAIN buffer = {} /\ ~(Len(buffer) >= MinFlush)
      BY <2>2, LengthsAssumption
    <3>2. QED
      BY <3>1 DEF Settled
  <2>7. QED
    BY <2>3, <2>4, <2>5, <2>6 DEF AccumulatorInv
<1>2. AccumulatorInv /\ [Next]_vars => AccumulatorInv'
  <2>1. SUFFICES ASSUME AccumulatorInv, [Next]_vars PROVE AccumulatorInv'
    OBVIOUS
  <2>2. CASE \E token \in Tokens : Add(token)
    BY <2>1, <2>2, AddKeeps
  <2>3. CASE Flush
    BY <2>1, <2>3, FlushKeeps
  <2>4. CASE UNCHANGED vars
    BY <2>1, <2>4
       DEF vars, AccumulatorInv, Typed, NothingLost, SegmentsSpeakable, Settled, Unsplit
  <2>5. QED
    BY <2>1, <2>2, <2>3, <2>4 DEF Next
<1>3. QED
  BY <1>1, <1>2, PTL DEF Spec

(* Nothing is lost and nothing is said twice: what was fed is what was     *)
(* spoken and what waits in the buffer, in order.                          *)
THEOREM NothingLostCorrect == Spec => []NothingLost
<1>1. AccumulatorInv => NothingLost
  BY DEF AccumulatorInv
<1>2. QED
  BY <1>1, AccumulatorInvCorrect, PTL

(* Every segment has something to say and no blank around it.              *)
THEOREM SegmentsSpeakableCorrect == Spec => []SegmentsSpeakable
<1>1. AccumulatorInv => SegmentsSpeakable
  BY DEF AccumulatorInv
<1>2. QED
  BY <1>1, AccumulatorInvCorrect, PTL

(* No boundary waits in the buffer for the next token.                     *)
THEOREM NoSentenceWaitsCorrect == Spec => []NoSentenceWaits
<1>1. AccumulatorInv => NoSentenceWaits
  BY DEF AccumulatorInv, Settled, NoSentenceWaits
<1>2. QED
  BY <1>1, AccumulatorInvCorrect, PTL

(* A long buffer waits only where the split by length has nothing to say:  *)
(* behind a leading space, or behind min_flush_chars blanks that hold none *)
(* and have just been cut off.                                             *)
THEOREM LongBehindBlanksCorrect == Spec => []LongBehindBlanks
<1>1. AccumulatorInv => LongBehindBlanks
  BY DEF AccumulatorInv, Settled, Unsplit, LongBehindBlanks, Drop
<1>2. QED
  BY <1>1, AccumulatorInvCorrect, PTL

(* A text whose boundaries all end a sentence is cut at each of them: the  *)
(* loop of scans does what the sentences of the text say.                  *)
THEOREM CutAtBoundariesCorrect == Spec => []CutAtBoundaries
<1>1. Init => CutAtBoundaries
  <2>1. SUFFICES ASSUME Init PROVE CutAtBoundaries
    OBVIOUS
  <2>2. text = <<>> /\ returned = <<>>
    BY <2>1 DEF Init
  <2>3. <<>> \in Seq(Chars) /\ (\A i \in DOMAIN <<>> : <<>>[i] \notin FlushChars)
        /\ <<>> \in Seq(Seq(Chars))
    OBVIOUS
  <2>4. IsPrefix(Cuts(<<>>), <<>>)
    BY <2>3, NoSentences
  <2>5. QED
    BY <2>2, <2>4 DEF CutAtBoundaries
<1>2. AccumulatorInv /\ CutAtBoundaries /\ [Next]_vars => CutAtBoundaries'
  <2>1. SUFFICES ASSUME AccumulatorInv, CutAtBoundaries, [Next]_vars PROVE CutAtBoundaries'
    OBVIOUS
  <2>2. buffer \in Seq(Chars) /\ \A i \in DOMAIN buffer : buffer[i] \notin FlushChars
    BY <2>1 DEF AccumulatorInv, Typed, Settled
  <2>3. CASE \E token \in Tokens : Add(token)
    <3>1. PICK token \in Tokens : Add(token)
      BY <2>3
    <3> DEFINE b == buffer \o token
    <3>2. returned' = ExtractSegments(b).segs /\ text' = b
      BY <3>1 DEF Add, Return
    <3>3. token \in Seq(Chars)
      BY TokensType
    <3>4. b \in Seq(Chars)
      BY <2>2, <3>3
    <3> HIDE DEF b
    <3>5. ASSUME \A n \in DOMAIN Sentences(b) : ~IsBlank(Sentences(b)[n])
          PROVE  IsPrefix(Cuts(b), ExtractSegments(b).segs)
      BY <3>4, <3>5, ReferenceMet
    <3>6. QED
      BY <3>2, <3>5 DEF CutAtBoundaries
  <2>4. CASE Flush
    <3>1. returned' = FlushSegments(buffer) /\ text' = buffer
      BY <2>4 DEF Flush, Return, FlushSegments
    <3>2. FlushSegments(buffer) \in Seq(Seq(Chars))
      BY <2>2, FlushSays
    <3>3. IsPrefix(Cuts(buffer), FlushSegments(buffer))
      BY <2>2, <3>2, NoSentences
    <3>4. QED
      BY <3>1, <3>3 DEF CutAtBoundaries
  <2>5. CASE UNCHANGED vars
    BY <2>1, <2>5 DEF vars, CutAtBoundaries
  <2>6. QED
    BY <2>1, <2>3, <2>4, <2>5 DEF Next
<1>3. QED
  BY <1>1, <1>2, AccumulatorInvCorrect, PTL DEF Spec
=============================================================================
