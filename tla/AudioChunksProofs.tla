------------------------- MODULE AudioChunksProofs -------------------------
(***************************************************************************)
(* What iter_chunks_with_crossfade emits, for any utterance, chunk size    *)
(* and length of the blend: every sample of a frame is the utterance's     *)
(* own, or lies between two of its samples.                                *)
(***************************************************************************)
EXTENDS AudioChunks, SequenceTheorems, TLAPS

-----------------------------------------------------------------------------
(* Arithmetic *)

(* A number is its quotient and its remainder.                             *)
LEMMA DivMod ==
  ASSUME NEW k \in Int, k > 0, NEW s \in Int
  PROVE  s = k * (s \div k) + (s % k)
BY SMT

(* A remainder is smaller than the divisor.                                *)
LEMMA ModBound ==
  ASSUME NEW k \in Int, k > 0, NEW s \in Int
  PROVE  s % k \in Int /\ 0 <= s % k /\ s % k < k /\ s \div k \in Int
BY SMT

(* The products that start every chunk, written out.                       *)
LEMMA Distribute ==
  ASSUME NEW k \in Nat, NEW a \in Int, NEW b \in Int
  PROVE  k * (a + b) = k * a + k * b /\ k * (a - b) = k * a - k * b
OBVIOUS

(* A weight that is not negative keeps the order of two samples.           *)
LEMMA Monotone ==
  ASSUME NEW k \in Nat, NEW a \in Int, NEW b \in Int, a <= b
  PROVE  k * a <= k * b
OBVIOUS

(* A number has one quotient and one remainder.                            *)
LEMMA DivUnique ==
  ASSUME NEW k \in Nat \ {0}, NEW p \in Int, NEW q \in Int,
         NEW i \in 0..(k - 1), NEW j \in 0..(k - 1), k * p + i = k * q + j
  PROVE  p = q /\ i = j
<1>1. CASE p >= q + 1
  <2>1. k * p >= k * q + k
    BY <1>1
  <2> QED  BY <2>1
<1>2. CASE q >= p + 1
  <2>1. k * q >= k * p + k
    BY <1>2
  <2> QED  BY <2>1
<1> QED  BY <1>1, <1>2

(* The position of a sample in its chunk, from its position in the output. *)
LEMMA Remainder ==
  ASSUME NEW k \in Nat \ {0}, NEW p \in Nat, NEW j \in 0..(k - 1)
  PROVE  (k * p + j) % k = j
<1>1. k * p + j \in Int /\ k > 0 /\ k \in Int
  OBVIOUS
<1>2. PICK q \in Int : q = (k * p + j) \div k
  BY <1>1, ModBound
<1>3. PICK i \in 0..(k - 1) : i = (k * p + j) % k
  BY <1>1, ModBound
<1>4. k * p + j = k * q + i
  BY <1>1, <1>2, <1>3, DivMod
<1>5. i = j
  BY <1>4, DivUnique
<1> QED  BY <1>3, <1>5

-----------------------------------------------------------------------------
(* A frame *)

(* The weights of a blended sample are not negative and add up to N: it    *)
(* lies between the two samples it is made of.                             *)
LEMMA BlendBetween ==
  ASSUME NEW n \in Nat, NEW j \in Nat, j <= n, NEW x \in Int, NEW y \in Int
  PROVE  \/ n * x <= (n - j) * x + j * y /\ (n - j) * x + j * y <= n * y
         \/ n * y <= (n - j) * x + j * y /\ (n - j) * x + j * y <= n * x
<1>0. n - j \in Nat /\ (n - j) * x + j * x = n * x /\ (n - j) * y + j * y = n * y
  OBVIOUS
<1>1. CASE x <= y
  <2>1. j * x <= j * y /\ (n - j) * x <= (n - j) * y
    BY <1>0, <1>1, Monotone
  <2> QED  BY <1>0, <2>1
<1>2. CASE y <= x
  <2>1. j * y <= j * x /\ (n - j) * y <= (n - j) * x
    BY <1>0, <1>2, Monotone
  <2> QED  BY <1>0, <2>1
<1> QED  BY <1>1, <1>2

(* Between two samples of the utterance s, as an emitted sample is scaled. *)
Within(s, v) ==
  \E a, b \in 1..Len(s) : N * s[a] <= v /\ v <= N * s[b]

(* A chunk of m samples of s, from the one after st.                       *)
ChunkOf(s, st, m, chunk) ==
  chunk \in Seq(Int) /\ Len(chunk) = m /\ \A j \in 1..m : chunk[j] = s[st + j]

(* A sample of the utterance's own is in its range.                        *)
LEMMA OwnWithin ==
  ASSUME NEW s \in Seq(Int), NEW i \in 1..Len(s)
  PROVE  s[i] \in Int /\ N * s[i] \in Int /\ Within(s, N * s[i])
<1>1. N \in Nat /\ s[i] \in Int
  BY AudioAssumption
<1>2. N * s[i] \in Int
  BY <1>1
<1> QED  BY <1>1, <1>2 DEF Within

(* A chunk that is emitted as it is has the utterance's own samples.       *)
LEMMA ScaledIs ==
  ASSUME NEW s \in Seq(Int), NEW st \in Nat, NEW m \in Nat, st + m <= Len(s),
         NEW chunk, ChunkOf(s, st, m, chunk)
  PROVE  /\ Scaled(chunk) \in Seq(Int) /\ Len(Scaled(chunk)) = m
         /\ \A j \in 1..m : /\ Scaled(chunk)[j] = N * s[st + j]
                            /\ Within(s, Scaled(chunk)[j])
<1>1. Scaled(chunk) = [j \in 1..m |-> N * chunk[j]]
  BY DEF Scaled, ChunkOf
<1>2. ASSUME NEW j \in 1..m  PROVE chunk[j] = s[st + j] /\ st + j \in 1..Len(s)
  BY DEF ChunkOf
<1>3. \A j \in 1..m : N * chunk[j] \in Int /\ Within(s, N * chunk[j])
  BY <1>2, OwnWithin
<1>4. Scaled(chunk) \in [1..m -> Int]
  BY <1>1, <1>3
<1>5. Scaled(chunk) \in Seq(Int) /\ Len(Scaled(chunk)) = m
  BY <1>4
<1> QED  BY <1>1, <1>2, <1>3, <1>5

(* Without a long enough chunk before it, or if it is too short itself, a  *)
(* chunk is emitted as it is.                                              *)
LEMMA FrameVerbatim ==
  ASSUME NEW s \in Seq(Int), NEW st \in Nat, NEW m \in Nat, st + m <= Len(s),
         NEW chunk, ChunkOf(s, st, m, chunk), NEW q, Len(q) < N \/ m < N
  PROVE  /\ Frame(q, chunk) \in Seq(Int) /\ Len(Frame(q, chunk)) = m
         /\ \A j \in 1..m : /\ Frame(q, chunk)[j] = N * s[st + j]
                            /\ Within(s, Frame(q, chunk)[j])
<1>1. Frame(q, chunk) = Scaled(chunk)
  BY DEF Frame, ChunkOf
<1>2. /\ Scaled(chunk) \in Seq(Int) /\ Len(Scaled(chunk)) = m
      /\ \A j \in 1..m : /\ Scaled(chunk)[j] = N * s[st + j]
                         /\ Within(s, Scaled(chunk)[j])
  BY ScaledIs
<1> QED  BY <1>1, <1>2

(* Otherwise its first N samples lie between two samples of the utterance, *)
(* and the first of them is the last one before the seam.                  *)
LEMMA FrameBlended ==
  ASSUME NEW s \in Seq(Int), NEW st \in Nat, NEW m \in Nat, st + m <= Len(s),
         NEW chunk, ChunkOf(s, st, m, chunk),
         NEW b \in Nat, NEW k \in Nat, st = b + k, NEW q, ChunkOf(s, b, k, q),
         NEW n \in Nat \ {0}, n = N, n <= k, n <= m
  PROVE  /\ Frame(q, chunk) \in Seq(Int) /\ Len(Frame(q, chunk)) = m
         /\ \A j \in 1..m : /\ j > n => Frame(q, chunk)[j] = N * s[st + j]
                            /\ Within(s, Frame(q, chunk)[j])
         /\ Frame(q, chunk)[1] = N * s[st]
<1> DEFINE rest == SubSeq(chunk, n + 1, m)
           head == Blend(q, chunk)
<1>1. PICK r \in Nat : m = n + r
  <2>1. m - n \in Nat /\ m = n + (m - n)
    OBVIOUS
  <2> QED  BY <2>1
<1>2. Frame(q, chunk) = head \o Scaled(rest)
  <2>1. Len(q) = k /\ Len(chunk) = m
    BY DEF ChunkOf
  <2>2. ~(Len(q) < N \/ Len(chunk) < N)
    BY <2>1
  <2> QED  BY <2>1, <2>2 DEF Frame
<1>3. ChunkOf(s, st + n, r, rest)
  <2>1. rest \in Seq(Int) /\ Len(rest) = r /\ \A j \in 1..r : rest[j] = chunk[n + j]
    <3>1. chunk \in Seq(Int) /\ Len(chunk) = m
      BY DEF ChunkOf
    <3>2. ASSUME NEW j \in 1..r  PROVE chunk[n + j] \in Int
      <4>1. n + j \in 1..Len(chunk)
        BY <1>1, <3>1
      <4> QED  BY <3>1, <4>1, ElementOfSeq
    <3>3. rest = [j \in 1..r |-> chunk[n + j]]
      BY <1>1, <3>1
    <3> HIDE DEF rest
    <3>4. rest \in [1..r -> Int]
      BY <3>2, <3>3
    <3>5. rest \in Seq(Int) /\ Len(rest) = r
      BY <3>4
    <3> QED  BY <3>3, <3>5
  <2>2. ASSUME NEW j \in 1..r  PROVE chunk[n + j] = s[(st + n) + j]
    <3>1. n + j \in 1..m /\ st + (n + j) = (st + n) + j
      BY <1>1
    <3> QED  BY <3>1 DEF ChunkOf
  <2> HIDE DEF rest
  <2>3. \A j \in 1..r : rest[j] = s[(st + n) + j]
    BY <2>1, <2>2
  <2> QED  BY <2>1, <2>3 DEF ChunkOf
<1>4. /\ Scaled(rest) \in Seq(Int) /\ Len(Scaled(rest)) = r
      /\ \A j \in 1..r : /\ Scaled(rest)[j] = N * s[(st + n) + j]
                         /\ Within(s, Scaled(rest)[j])
  <2>1. st + n \in Nat /\ (st + n) + r <= Len(s)
    BY <1>1
  <2> HIDE DEF rest
  <2> QED  BY <1>3, <2>1, ScaledIs
<1>5. ASSUME NEW i \in 1..n
      PROVE  /\ head[i] = (n - (i - 1)) * s[st - (i - 1)] + (i - 1) * s[st + i]
             /\ st - (i - 1) \in 1..Len(s) /\ st + i \in 1..Len(s)
  <2>1. k - (i - 1) \in 1..k /\ i \in 1..m /\ b + (k - (i - 1)) = st - (i - 1)
    OBVIOUS
  <2>2. q[k - (i - 1)] = s[st - (i - 1)] /\ chunk[i] = s[st + i] /\ Len(q) = k
    BY <2>1 DEF ChunkOf
  <2>3. head[i] = (n - (i - 1)) * q[k - (i - 1)] + (i - 1) * chunk[i]
    BY <2>2 DEF Blend
  <2>4. st - (i - 1) \in 1..Len(s) /\ st + i \in 1..Len(s)
    OBVIOUS
  <2> QED  BY <2>2, <2>3, <2>4
<1>6. ASSUME NEW i \in 1..n
      PROVE  head[i] \in Int /\ Within(s, head[i])
  <2>0. s[st - (i - 1)] \in Int /\ s[st + i] \in Int
    BY <1>5, ElementOfSeq
  <2>1. PICK x \in Int : x = s[st - (i - 1)]
    BY <2>0
  <2>2. PICK y \in Int : y = s[st + i]
    BY <2>0
  <2>3. PICK j \in Nat : j = i - 1 /\ j <= n
    <3>1. i - 1 \in Nat /\ i - 1 <= n
      OBVIOUS
    <3> QED  BY <3>1
  <2>4. head[i] = (n - j) * x + j * y
    BY <1>5, <2>1, <2>2, <2>3
  <2>5. \/ n * x <= head[i] /\ head[i] <= n * y
        \/ n * y <= head[i] /\ head[i] <= n * x
    <3>1. \/ n * x <= (n - j) * x + j * y /\ (n - j) * x + j * y <= n * y
          \/ n * y <= (n - j) * x + j * y /\ (n - j) * x + j * y <= n * x
      BY <2>3, BlendBetween
    <3> QED  BY <2>4, <3>1
  <2>6. Within(s, head[i])
    BY <1>5, <2>1, <2>2, <2>5 DEF Within
  <2> QED  BY <2>4, <2>6
<1>7. head \in Seq(Int) /\ Len(head) = n
  <2>1. head = [i \in 1..n |-> head[i]]
    BY DEF Blend
  <2>2. \A i \in 1..n : head[i] \in Int
    BY <1>6
  <2> HIDE DEF head
  <2>3. head \in [1..n -> Int]
    BY <2>1, <2>2
  <2> QED  BY <2>3
<1> HIDE DEF head, rest
<1>8. PICK f : f = head \o Scaled(rest)
  OBVIOUS
<1>9. /\ f \in Seq(Int) /\ Len(f) = m
      /\ \A j \in 1..m : f[j] = IF j <= n THEN head[j] ELSE Scaled(rest)[j - n]
  <2>1. /\ f \in Seq(Int) /\ Len(f) = Len(head) + Len(Scaled(rest))
        /\ \A j \in 1..(Len(head) + Len(Scaled(rest))) :
             f[j] = IF j <= Len(head) THEN head[j] ELSE Scaled(rest)[j - Len(head)]
    BY <1>4, <1>7, <1>8, ConcatProperties
  <2>2. Len(head) = n /\ Len(Scaled(rest)) = r /\ Len(head) + Len(Scaled(rest)) = m
    BY <1>1, <1>4, <1>7
  <2> QED  BY <2>1, <2>2
<1>10. ASSUME NEW j \in 1..m
       PROVE  /\ j > n => f[j] = N * s[st + j]
              /\ Within(s, f[j])
  <2>1. CASE j <= n
    <3>1. j \in 1..n /\ f[j] = head[j]
      BY <1>9, <2>1
    <3> QED  BY <1>6, <2>1, <3>1
  <2>2. CASE j > n
    <3>1. j - n \in 1..r /\ (st + n) + (j - n) = st + j
      BY <1>1, <2>2
    <3>2. f[j] = Scaled(rest)[j - n]
      <4>1. ~(j <= n)
        BY <2>2
      <4>2. f[j] = IF j <= n THEN head[j] ELSE Scaled(rest)[j - n]
        BY <1>9
      <4> QED  BY <4>1, <4>2, Zenon
    <3>3. Scaled(rest)[j - n] = N * s[st + j] /\ Within(s, Scaled(rest)[j - n])
      BY <1>4, <3>1
    <3> QED  BY <3>2, <3>3
  <2> QED  BY <2>1, <2>2
<1>11. f[1] = N * s[st]
  <2>1. 1 \in 1..n /\ 1 \in 1..m /\ n - (1 - 1) = n /\ st - (1 - 1) = st /\ 1 - 1 = 0
    OBVIOUS
  <2>2. head[1] = n * s[st] + 0 * s[st + 1] /\ st \in 1..Len(s) /\ st + 1 \in 1..Len(s)
    BY <1>5, <2>1
  <2>3. s[st] \in Int /\ s[st + 1] \in Int
    BY <2>2, ElementOfSeq
  <2>4. head[1] = n * s[st]
    BY <2>2, <2>3
  <2>5. f[1] = head[1]
    BY <1>9, <2>1
  <2> QED  BY <2>4, <2>5
<1> QED  BY <1>2, <1>8, <1>9, <1>10, <1>11

-----------------------------------------------------------------------------
(* The invariant *)

(* A caller's next chunk starts p whole chunks into its utterance; the     *)
(* chunk before, if there is one and audio is left, is a whole one.        *)
PlaceInv(c) ==
  /\ \E p \in Nat : start[c] = ChunkSize * p
  /\ start[c] = 0 => prev[c] = <<>>
  /\ 0 < start[c] /\ start[c] < Len(audio[c]) =>
       \E b \in Nat : start[c] = b + ChunkSize /\ ChunkOf(audio[c], b, ChunkSize, prev[c])

(* What it has emitted: the samples up to there, each in its place and     *)
(* between two of the utterance's, and every blend begins where the chunk  *)
(* before it ends.                                                         *)
OutInv(c) ==
  /\ Len(out[c]) = Smaller(start[c], Len(audio[c]))
  /\ \A i \in 1..Len(out[c]) :
       /\ i <= ChunkSize \/ (i - 1) % ChunkSize >= N => out[c][i] = N * audio[c][i]
       /\ Within(audio[c], out[c][i])
  /\ \A p \in Nat \ {0} :
       ChunkSize * p + N <= Len(out[c]) =>
         out[c][ChunkSize * p + 1] = N * audio[c][ChunkSize * p]

Inv ==
  /\ audio \in [Callers -> Seq(Int)] /\ out \in [Callers -> Seq(Int)]
  /\ start \in [Callers -> Nat] /\ prev \in [Callers -> Seq(Int)]
  /\ \A c \in Callers : PlaceInv(c) /\ OutInv(c)

(* It holds before the first chunk.                                        *)
LEMMA InvInit == Init => Inv
<1> SUFFICES ASSUME Init  PROVE Inv
  OBVIOUS
<1>0. N \in Nat \ {0} /\ ChunkSize \in Nat /\ Samples \subseteq Int /\ MaxLen \in Nat
  BY AudioAssumption
<1>1. audio \in [Callers -> Seq(Int)]
  <2>1. ASSUME NEW c \in Callers  PROVE audio[c] \in Seq(Int)
    <3>1. audio[c] \in UNION {[1..m -> Samples] : m \in 0..MaxLen}
      BY DEF Init, BoundedSeq, SeqOf
    <3>2. PICK m \in 0..MaxLen : audio[c] \in [1..m -> Samples]
      BY <3>1
    <3>3. m \in Nat
      BY <1>0
    <3>4. audio[c] \in [1..m -> Int]
      BY <1>0, <3>2
    <3> QED  BY <3>3, <3>4
  <2>2. audio = [c \in Callers |-> audio[c]]
    BY DEF Init
  <2> QED  BY <2>1, <2>2
<1>2. start = [c \in Callers |-> 0] /\ prev = [c \in Callers |-> <<>>]
      /\ out = [c \in Callers |-> <<>>]
  BY DEF Init
<1>3. ASSUME NEW c \in Callers  PROVE PlaceInv(c) /\ OutInv(c)
  <2>1. start[c] = 0 /\ prev[c] = <<>> /\ out[c] = <<>> /\ Len(<<>>) = 0
        /\ Len(audio[c]) \in Nat /\ ChunkSize * 0 = 0
    BY <1>0, <1>1, <1>2
  <2>2. PlaceInv(c)
    BY <2>1 DEF PlaceInv
  <2>3. \A p \in Nat \ {0} : ~(ChunkSize * p + N <= 0)
    <3>1. TAKE p \in Nat \ {0}
    <3>2. PICK v \in Nat, n \in Nat \ {0} : v = ChunkSize * p /\ n = N
      BY <1>0
    <3>3. ~(v + n <= 0)
      OBVIOUS
    <3> QED  BY <3>2, <3>3
  <2>4. OutInv(c)
    BY <2>1, <2>3 DEF OutInv, Smaller
  <2> QED  BY <2>2, <2>4
<1> QED  BY <1>1, <1>2, <1>3 DEF Inv

(* A step of the caller c: s is its utterance, st its place.               *)
LEMMA CallerStep ==
  ASSUME Inv, NEW c \in Callers, NextChunk(c)
  PROVE  /\ start'[c] \in Nat /\ prev'[c] \in Seq(Int) /\ out'[c] \in Seq(Int)
         /\ PlaceInv(c)' /\ OutInv(c)'
<1>0. PICK s \in Seq(Int), st \in Nat, k \in Nat \ {0}, n \in Nat \ {0}, l \in Nat :
        s = audio[c] /\ st = start[c] /\ k = ChunkSize /\ n = N /\ l = Len(s) /\ n <= k
  <2>1. audio[c] \in Seq(Int) /\ start[c] \in Nat
    BY DEF Inv
  <2>2. ChunkSize \in Nat \ {0} /\ N \in Nat \ {0} /\ N <= ChunkSize
    BY AudioAssumption
  <2>3. Len(audio[c]) \in Nat
    BY <2>1
  <2> QED  BY <2>1, <2>2, <2>3
<1>1. /\ st < l /\ audio'[c] = s /\ start'[c] = st + k
      /\ out'[c] = out[c] \o Frame(prev[c], Chunk(c))
      /\ prev'[c] = Chunk(c)
      /\ Chunk(c) = SubSeq(s, st + 1, Smaller(st + k, l))
  BY <1>0 DEF NextChunk, Remember, Chunk, Inv
<1>2. PICK m \in Nat : /\ st + m = Smaller(st + k, l) /\ 1 <= m /\ m <= k /\ st + m <= l
                       /\ m = k \/ st + m = l
  <2>1. CASE st + k < l
    BY <2>1 DEF Smaller
  <2>2. CASE ~(st + k < l)
    <3>1. l - st \in Nat /\ st + (l - st) = l /\ 1 <= l - st /\ l - st <= k
      BY <1>1, <2>2
    <3> QED  BY <2>2, <3>1 DEF Smaller
  <2> QED  BY <2>1, <2>2
<1>3. PICK chunk : chunk = Chunk(c) /\ ChunkOf(s, st, m, chunk)
  <2>1. PICK chunk : chunk = SubSeq(s, st + 1, st + m)
    OBVIOUS
  <2>3. \A i \in (st + 1)..(st + m) : s[i] \in Int
    BY <1>0, <1>2, ElementOfSeq
  <2>4. /\ chunk \in Seq(Int) /\ Len(chunk) = IF st + 1 <= st + m THEN st + m - (st + 1) + 1 ELSE 0
        /\ \A i \in 1..(st + m - (st + 1) + 1) : chunk[i] = s[st + 1 + i - 1]
    <3>1. st + 1 \in Int /\ st + m \in Int
      OBVIOUS
    <3> QED  BY <2>1, <2>3, <3>1, SubSeqProperties
  <2>5. Len(chunk) = m /\ \A i \in 1..m : chunk[i] = s[st + i]
    <3>1. st + 1 <= st + m /\ st + m - (st + 1) + 1 = m /\ \A i \in 1..m : st + 1 + i - 1 = st + i
      BY <1>2
    <3> QED  BY <2>4, <3>1
  <2>6. ChunkOf(s, st, m, chunk)
    BY <2>4, <2>5 DEF ChunkOf
  <2> QED  BY <1>1, <1>2, <2>1, <2>6
<1>4. PICK p \in Nat : st = k * p
  BY <1>0 DEF Inv, PlaceInv
<1>5. PICK f : f = Frame(prev[c], chunk)
  OBVIOUS
<1>6. /\ f \in Seq(Int) /\ Len(f) = m
      /\ \A j \in 1..m : /\ st = 0 \/ j > n => f[j] = N * s[st + j]
                         /\ Within(s, f[j])
      /\ st > 0 /\ n <= m => f[1] = N * s[st]
  <2>1. CASE st = 0 \/ m < n
    <3>1. Len(prev[c]) < N \/ m < N
      <4>1. st = 0 => prev[c] = <<>>
        BY <1>0 DEF Inv, PlaceInv
      <4> QED  BY <1>0, <2>1, <4>1
    <3>2. st + m <= Len(s)
      BY <1>0, <1>2
    <3>3. /\ f \in Seq(Int) /\ Len(f) = m
          /\ \A j \in 1..m : f[j] = N * s[st + j] /\ Within(s, f[j])
      <4>1. PICK q : q = prev[c]
        OBVIOUS
      <4>2. ChunkOf(s, st, m, chunk) /\ (Len(q) < N \/ m < N)
        BY <1>3, <3>1, <4>1
      <4>3. /\ Frame(q, chunk) \in Seq(Int) /\ Len(Frame(q, chunk)) = m
            /\ \A j \in 1..m : /\ Frame(q, chunk)[j] = N * s[st + j]
                               /\ Within(s, Frame(q, chunk)[j])
        BY <3>2, <4>2, FrameVerbatim
      <4> QED  BY <1>5, <4>1, <4>3
    <3>4. ~(st > 0 /\ n <= m)
      BY <2>1
    <3> QED  BY <3>3, <3>4
  <2>2. CASE st > 0 /\ n <= m
    <3>1. PICK b \in Nat : st = b + k /\ ChunkOf(s, b, k, prev[c])
      BY <1>0, <1>1, <2>2 DEF Inv, PlaceInv
    <3>2. st + m <= Len(s)
      BY <1>0, <1>2
    <3>3. /\ f \in Seq(Int) /\ Len(f) = m
          /\ \A j \in 1..m : /\ j > n => f[j] = N * s[st + j]
                             /\ Within(s, f[j])
          /\ f[1] = N * s[st]
      <4>1. ChunkOf(s, st, m, chunk) /\ n = N /\ n <= k /\ n <= m
        BY <1>0, <1>3, <2>2
      <4>2. /\ Frame(prev[c], chunk) \in Seq(Int) /\ Len(Frame(prev[c], chunk)) = m
            /\ \A j \in 1..m : /\ j > n => Frame(prev[c], chunk)[j] = N * s[st + j]
                               /\ Within(s, Frame(prev[c], chunk)[j])
            /\ Frame(prev[c], chunk)[1] = N * s[st]
        BY <3>1, <3>2, <4>1, FrameBlended
      <4> QED  BY <1>5, <4>2
    <3> QED  BY <2>2, <3>3
  <2> QED  BY <2>1, <2>2
<1>7. PICK o \in Seq(Int) : o = out[c] /\ Len(o) = st
  <2>1. out[c] \in Seq(Int) /\ Len(out[c]) = Smaller(st, l)
    BY <1>0 DEF Inv, OutInv
  <2>2. Smaller(st, l) = st
    BY <1>1 DEF Smaller
  <2> QED  BY <2>1, <2>2
<1>8. PICK g : g = out'[c]
  OBVIOUS
<1>9. /\ g \in Seq(Int) /\ Len(g) = st + m
      /\ \A i \in 1..st : g[i] = o[i]
      /\ \A j \in 1..m : g[st + j] = f[j]
  <2>1. g = o \o f
    BY <1>1, <1>3, <1>5, <1>7, <1>8
  <2>2. /\ g \in Seq(Int) /\ Len(g) = Len(o) + Len(f)
        /\ \A i \in 1..(Len(o) + Len(f)) : g[i] = IF i <= Len(o) THEN o[i] ELSE f[i - Len(o)]
    BY <1>6, <2>1, ConcatProperties
  <2>3. Len(g) = st + m /\ \A i \in 1..(st + m) : g[i] = IF i <= st THEN o[i] ELSE f[i - st]
    BY <1>6, <1>7, <2>2
  <2>4. ASSUME NEW i \in 1..st  PROVE g[i] = o[i]
    <3>1. i \in 1..(st + m) /\ i <= st
      OBVIOUS
    <3> QED  BY <2>3, <3>1, Zenon
  <2>5. ASSUME NEW j \in 1..m  PROVE g[st + j] = f[j]
    <3>1. st + j \in 1..(st + m) /\ ~(st + j <= st) /\ (st + j) - st = j
      OBVIOUS
    <3>2. g[st + j] = f[(st + j) - st]
      BY <2>3, <3>1, Zenon
    <3> QED  BY <3>1, <3>2
  <2> QED  BY <2>2, <2>3, <2>4, <2>5
<1>10. PlaceInv(c)'
  <2>1. p + 1 \in Nat /\ start'[c] = k * (p + 1)
    BY <1>1, <1>4
  <2>2. start'[c] # 0
    BY <1>1
  <2>3. start'[c] < l => ChunkOf(s, st, k, prev'[c])
    BY <1>1, <1>2, <1>3
  <2> QED  BY <1>0, <1>1, <2>1, <2>2, <2>3 DEF PlaceInv
<1>11. OutInv(c)'
  <2>1. Len(g) = Smaller(st + k, l)
    BY <1>2, <1>9
  <2>2. ASSUME NEW i \in 1..(st + m)
        PROVE  /\ i <= k \/ (i - 1) % k >= n => g[i] = N * s[i]
               /\ Within(s, g[i])
    <3>1. CASE i <= st
      <4>1. i \in 1..st /\ i \in 1..Len(out[c])
        BY <1>7, <3>1
      <4>2. /\ i <= ChunkSize \/ (i - 1) % ChunkSize >= N => out[c][i] = N * audio[c][i]
            /\ Within(audio[c], out[c][i])
        BY <4>1 DEF Inv, OutInv
      <4> QED  BY <1>0, <1>7, <1>9, <4>1, <4>2
    <3>2. CASE i > st
      <4>1. PICK j \in 1..m : i = st + j
        <5>1. i - st \in 1..m /\ i = st + (i - st)
          BY <3>2
        <5> QED  BY <5>1
      <4>2. g[i] = f[j] /\ Within(s, f[j])
        BY <1>6, <1>9, <4>1
      <4>3. (i - 1) % k = j - 1
        <5>1. j - 1 \in 0..(k - 1) /\ i - 1 = k * p + (j - 1)
          BY <1>2, <1>4, <4>1
        <5> QED  BY <5>1, Remainder
      <4>4. i <= k \/ (i - 1) % k >= n => st = 0 \/ j > n
        <5>1. st = 0 \/ st >= k
          BY <1>4
        <5> QED  BY <4>1, <4>3, <5>1
      <4> QED  BY <1>6, <4>1, <4>2, <4>4
    <3> QED  BY <3>1, <3>2
  <2>3. ASSUME NEW r \in Nat \ {0}, k * r + n <= st + m
        PROVE  g[k * r + 1] = N * s[k * r]
    <3>1. CASE k * r + n <= st
      <4>1. out[c][k * r + 1] = N * s[k * r]
        BY <1>0, <1>7, <3>1 DEF Inv, OutInv
      <4>2. k * r + 1 \in 1..st
        BY <3>1
      <4> QED  BY <1>7, <1>9, <4>1, <4>2
    <3>2. CASE k * r + n > st
      <4>1. ~(r >= p + 1)
        <5>1. CASE r >= p + 1
          <6>1. k * r >= k * (p + 1)
            BY <5>1
          <6>2. k * (p + 1) = st + k
            BY <1>4
          <6>3. st + k >= k * r + n
            BY <1>2, <2>3
          <6> QED  BY <6>1, <6>2, <6>3
        <5> QED  BY <5>1
      <4>2. ~(r <= p - 1)
        <5>1. CASE r <= p - 1
          <6>1. k * r <= k * (p - 1)
            BY <5>1
          <6> QED  BY <1>0, <1>4, <3>2, <6>1
        <5> QED  BY <5>1
      <4>3. r = p
        BY <4>1, <4>2
      <4>4. st = k * r /\ st > 0 /\ n <= m /\ 1 \in 1..m
        BY <1>2, <1>4, <2>3, <4>3
      <4> QED  BY <1>6, <1>9, <4>4
    <3> QED  BY <3>1, <3>2
  <2> QED  BY <1>0, <1>1, <1>8, <1>9, <2>1, <2>2, <2>3 DEF OutInv
<1>12. start'[c] \in Nat
  BY <1>1
<1>13. prev'[c] \in Seq(Int)
  BY <1>1, <1>3 DEF ChunkOf
<1> QED  BY <1>8, <1>9, <1>10, <1>11, <1>12, <1>13

(* The callers do not meet: each has its own state.                        *)
LEMMA InvStep == Inv /\ [Next]_vars => Inv'
<1> SUFFICES ASSUME Inv, [Next]_vars  PROVE Inv'
  OBVIOUS
<1>1. CASE \E c \in Callers : NextChunk(c)
  <2>1. PICK c \in Callers : NextChunk(c)
    BY <1>1
  <2>2. /\ start'[c] \in Nat /\ prev'[c] \in Seq(Int) /\ out'[c] \in Seq(Int)
        /\ PlaceInv(c)' /\ OutInv(c)'
    BY <2>1, CallerStep
  <2>3. /\ audio' = audio
        /\ start' = [start EXCEPT ![c] = start'[c]]
        /\ prev' = [prev EXCEPT ![c] = prev'[c]]
        /\ out' = [out EXCEPT ![c] = out'[c]]
    BY <2>1 DEF NextChunk, Remember, Inv
  <2>4. /\ audio' \in [Callers -> Seq(Int)] /\ out' \in [Callers -> Seq(Int)]
        /\ start' \in [Callers -> Nat] /\ prev' \in [Callers -> Seq(Int)]
    BY <2>2, <2>3 DEF Inv
  <2>5. ASSUME NEW d \in Callers, d # c  PROVE PlaceInv(d)' /\ OutInv(d)'
    <3>1. UNCHANGED <<audio[d], start[d], prev[d], out[d]>>
      BY <2>3, <2>5 DEF Inv
    <3> QED  BY <3>1 DEF Inv, PlaceInv, OutInv
  <2> QED  BY <2>2, <2>4, <2>5 DEF Inv
<1>2. CASE UNCHANGED vars
  BY <1>2 DEF vars, Inv, PlaceInv, OutInv
<1> QED  BY <1>1, <1>2 DEF Next, Terminated

(* Hence the invariant holds in every reachable state.                     *)
LEMMA Invariant == Spec => []Inv
BY InvInit, InvStep, PTL DEF Spec

-----------------------------------------------------------------------------

(* No sample is lost or added, for any utterances, chunk size, length of   *)
(* the blend and number of callers that interleave.                        *)
THEOREM SamplesKeptCorrect == Spec => []SamplesKept
<1>1. Inv => SamplesKept
  <2> SUFFICES ASSUME Inv, NEW c \in Callers
               PROVE  /\ Len(out[c]) = Smaller(start[c], Len(audio[c]))
                      /\ \A i \in DOMAIN out[c] :
                           (i <= ChunkSize \/ (i - 1) % ChunkSize >= N)
                             => out[c][i] = N * audio[c][i]
    BY DEF SamplesKept
  <2>1. DOMAIN out[c] = 1..Len(out[c])
    BY DEF Inv
  <2> QED  BY <2>1 DEF Inv, OutInv
<1> QED  BY <1>1, Invariant, PTL

(* The blend stays in the range of the utterance's samples: converting it  *)
(* to 16 bits overflows only where the engine's own audio would.           *)
THEOREM InRangeCorrect == Spec => []InRange
<1>1. Inv => InRange
  <2> SUFFICES ASSUME Inv, NEW c \in Callers, NEW i \in DOMAIN out[c]
               PROVE  \E a, b \in DOMAIN audio[c] :
                        N * audio[c][a] <= out[c][i] /\ out[c][i] <= N * audio[c][b]
    BY DEF InRange
  <2>1. DOMAIN out[c] = 1..Len(out[c]) /\ DOMAIN audio[c] = 1..Len(audio[c])
    BY DEF Inv
  <2> QED  BY <2>1 DEF Inv, OutInv, Within
<1> QED  BY <1>1, Invariant, PTL

(* There is no click at a seam as long as the blend is shorter than the    *)
(* chunk: its first sample is the last one emitted before it.  (The engine *)
(* has 240 and 4800.  A blend as long as the chunk, which                  *)
(* iter_chunks_with_crossfade accepts, replaces that last sample too.)     *)
THEOREM NoClickCorrect ==
  ASSUME N < ChunkSize
  PROVE  Spec => []NoClick
<1>1. Inv => NoClick
  <2> SUFFICES ASSUME Inv, NEW c \in Callers, NEW r \in 1..Len(out[c]) \div ChunkSize,
                      Len(out[c]) >= r * ChunkSize + N
               PROVE  out[c][r * ChunkSize + 1] = out[c][r * ChunkSize]
    BY DEF NoClick
  <2>1. PICK k \in Nat \ {0}, n \in Nat \ {0}, p \in Nat :
          k = ChunkSize /\ n = N /\ n < k /\ r = p + 1 /\ r \in Nat \ {0}
    <3>1. ChunkSize \in Nat \ {0} /\ N \in Nat \ {0}
      BY AudioAssumption
    <3>2. Len(out[c]) \in Int /\ Len(out[c]) \div ChunkSize \in Int
      BY <3>1, ModBound DEF Inv
    <3>3. r \in Nat \ {0} /\ r - 1 \in Nat /\ r = (r - 1) + 1
      BY <3>2
    <3> QED  BY <3>1, <3>3
  <2>2. r * ChunkSize = k * r /\ k * r \in Nat /\ k * r = k * p + k
    BY <2>1
  <2>3. PICK l \in Nat : l = Len(out[c]) /\ k * r + n <= l
    <3>1. Len(out[c]) \in Nat
      BY DEF Inv
    <3> QED  BY <2>1, <2>2, <3>1
  <2>4. out[c][k * r + 1] = N * audio[c][k * r]
    BY <2>1, <2>3 DEF Inv, OutInv
  <2>5. (k * r - 1) % k = k - 1
    <3>1. k * r - 1 = k * p + (k - 1) /\ k - 1 \in 0..(k - 1)
      BY <2>2
    <3> QED  BY <3>1, Remainder
  <2>6. k * r \in 1..l /\ k - 1 >= n
    BY <2>1, <2>2, <2>3
  <2>7. out[c][k * r] = N * audio[c][k * r]
    BY <2>1, <2>3, <2>5, <2>6 DEF Inv, OutInv
  <2> QED  BY <2>2, <2>4, <2>7
<1> QED  BY <1>1, Invariant, PTL
=============================================================================
