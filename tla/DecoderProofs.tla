----------------------------- MODULE DecoderProofs -----------------------------
(***************************************************************************)
(* StreamDecoder, for any markers, any limit, any stream and any way to    *)
(* cut it: what the reader receives depends on the bytes alone.            *)
(***************************************************************************)
EXTENDS StreamDecoder, Integers, SequenceTheorems, FiniteSetTheorems, TLAPS

-----------------------------------------------------------------------------
(* The inductive invariant. *)

\* What of the stream has left the buffer, and how many frames were in it.
Gone  == taken - Len(buffer)
Count == Len(received) + Len(events)

Typed ==
    /\ stream \in Seq(Byte)
    /\ taken \in 0..Len(stream) /\ before \in 0..taken
    /\ buffer \in Seq(Byte) /\ Gone \in Nat
    /\ events \in Seq(Seq(Byte)) /\ received \in Seq(Seq(Byte))
    /\ Count \in 0..Len(stream)
    /\ push \in {"idle", "scanning", "failed"}

Acceptable(k) == Framing[k][2] < Framing[k][1] + MaxEvent /\ Valid(Content(k))

(***************************************************************************)
(* The buffer is what follows in the stream after the frames decoded, less *)
(* some bytes that begin no further frame; each of those frames is         *)
(* acceptable.                                                             *)
(***************************************************************************)
Aligned ==
    /\ buffer = SubSeq(stream, Gone + 1, taken)
    /\ received \o events = [k \in 1..Count |-> Content(k)]
    /\ Framing[Count][2] <= Gone
    /\ NextFrame(Gone) = NextFrame(Framing[Count][2])
    /\ \A k \in 1..Count : Acceptable(k)

DecoderInv ==
    /\ Typed
    /\ push # "failed" => Aligned
    /\ push = "idle" => events = << >>
    /\ push # "idle" => received = FramesBy(before)
    /\ CutsDoNotMatter /\ FailureLosesOnePush /\ BufferBounded

-----------------------------------------------------------------------------
(* The least of a set of numbers. *)

LEMMA LeastNat ==
    ASSUME NEW S \in SUBSET Nat, S # {}
    PROVE  \E m \in S : \A n \in S : m <= n
<1>1. PICK top \in S : TRUE
  OBVIOUS
<1> DEFINE U == 0..top
           T == {0..n : n \in S \cap U}
           R == StrictSubsetOrdering(U)
<1>2. IsFiniteSet(U)
  <2>1. \A n \in Nat : IsFiniteSet(0..n)
    BY FS_Interval
  <2> QED BY <2>1
<1>3. IsWellFoundedOn(R, SUBSET U)
  BY <1>2, FS_StrictSubsetOrderingWellFounded, FS_FiniteSubsetsOfFinite
<1>4. T \subseteq SUBSET U /\ 0..top \in T
  OBVIOUS
<1>5. \E x \in T : \A y \in T : <<y, x>> \notin R
  <2> HIDE DEF T, U, R
  <2> QED BY <1>3, <1>4, WFMin
<1>6. PICK m \in S \cap U : \A n \in S \cap U : <<0..n, 0..m>> \notin R
  BY <1>5
<1>7. ASSUME NEW n \in S, n < m PROVE FALSE
  <2>1. n \in S \cap U /\ 0..n \subseteq 0..m /\ m \in 0..m /\ m \notin 0..n
    BY <1>7
  <2>2. <<0..n, 0..m>> \in R
    BY <1>7, <2>1 DEF StrictSubsetOrdering
  <2> QED BY <1>6, <2>1, <2>2
<1> QED BY <1>7

LEMMA MinIsLeast ==
    ASSUME NEW S \in SUBSET Nat, S # {}
    PROVE  Min(S) \in S /\ \A n \in S : Min(S) <= n
BY LeastNat DEF Min

LEMMA Marks ==
    /\ Len(StartMark) \in Nat /\ Len(EndMark) \in Nat /\ MaxEvent \in Nat
    /\ 1 <= Len(StartMark) /\ Len(StartMark) <= Len(EndMark)
<1>1. Len(StartMark) \in Nat /\ Len(EndMark) \in Nat
  BY DecoderAssumption, LenProperties
<1> QED BY <1>1, DecoderAssumption

-----------------------------------------------------------------------------
(* The frames of a stream. *)

\* What Following finds is the marker, or that there is none.
LEMMA FollowingIs ==
    ASSUME stream \in Seq(Byte), NEW mark \in {StartMark, EndMark}, NEW i \in Nat
    PROVE  /\ Following(mark, i) \in 1..(Len(stream) + 1)
           /\ Following(mark, i) <= Len(stream) =>
                Following(mark, i) \in Places(mark, stream) /\ Following(mark, i) > i
           /\ \A x \in Places(mark, stream) : x > i => Following(mark, i) <= x
<1> DEFINE S == {x \in Places(mark, stream) : x > i}
<1>1. Len(stream) \in Nat /\ Len(mark) \in Nat /\ 1 <= Len(mark)
  BY LenProperties, Marks
<1>2. Places(mark, stream) \subseteq 1..Len(stream)
  BY <1>1 DEF Places
<1>3. S \cup {Len(stream) + 1} \in SUBSET Nat
  BY <1>1, <1>2
<1>4. /\ Min(S \cup {Len(stream) + 1}) \in S \cup {Len(stream) + 1}
      /\ \A n \in S \cup {Len(stream) + 1} : Min(S \cup {Len(stream) + 1}) <= n
  <2> HIDE DEF S
  <2> QED BY <1>3, MinIsLeast
<1>5. Following(mark, i) = Min(S \cup {Len(stream) + 1})
  BY DEF Following
<1> HIDE DEF Following
<1> QED BY <1>1, <1>2, <1>4, <1>5

LEMMA NextFrameIs ==
    ASSUME stream \in Seq(Byte), NEW i \in Nat
    PROVE  LET first == NextFrame(i)[1]
               last  == NextFrame(i)[2]
           IN  /\ first \in 1..(Len(stream) + 1) /\ last \in Nat
               /\ first + Len(StartMark) - 1 <= last
               /\ first <= Len(stream) => first > i
               /\ NextFrame(i) = <<first, last>>
<1>1. Len(stream) \in Nat
  BY LenProperties
<1> DEFINE first == Following(StartMark, i)
           z     == Following(EndMark, first - 1)
<1>2. first \in 1..(Len(stream) + 1) /\ (first <= Len(stream) => first > i)
  BY FollowingIs
<1>3. first - 1 \in Nat
  BY <1>1, <1>2
<1>4. z \in 1..(Len(stream) + 1) /\ (z <= Len(stream) => z > first - 1)
  <2> HIDE DEF first
  <2> QED BY <1>3, FollowingIs
<1>5. NextFrame(i) = <<first, z + Len(EndMark) - 1>>
  BY DEF NextFrame
<1>6. NextFrame(i)[1] = first /\ NextFrame(i)[2] = z + Len(EndMark) - 1
  BY <1>5
<1> HIDE DEF first, z
<1> QED BY <1>1, <1>2, <1>4, <1>5, <1>6, Marks

\* The recursive function exists, and is what its definition says.
LEMMA FramingIs ==
    ASSUME stream \in Seq(Byte)
    PROVE  Framing = [k \in 0..Len(stream) |->
                        IF k = 0 THEN <<0, 0>> ELSE NextFrame(Framing[k - 1][2])]
<1> DEFINE UpTo(n, g) == g = [k \in 0..n |->
                               IF k = 0 THEN <<0, 0>> ELSE NextFrame(g[k - 1][2])]
           Missing == {n \in 0..Len(stream) : ~ \E g : UpTo(n, g)}
<1>1. Len(stream) \in Nat
  BY LenProperties
<1>2. ASSUME NEW m \in Missing, \A n \in Missing : m <= n
      PROVE  FALSE
  <2>1. m # 0
    <3>1. UpTo(0, [k \in 0..0 |-> <<0, 0>>])
      OBVIOUS
    <3> QED BY <1>2, <3>1
  <2>2. m \in 0..Len(stream) /\ m - 1 \in 0..Len(stream) /\ ~(m <= m - 1)
    <3> HIDE DEF UpTo
    <3> QED BY <1>1, <1>2, <2>1
  <2>3. PICK g : UpTo(m - 1, g)
    <3> HIDE DEF UpTo
    <3> QED BY <1>2, <2>2
  <2> DEFINE h == [k \in 0..m |-> IF k = 0 THEN <<0, 0>> ELSE NextFrame(g[k - 1][2])]
  <2>4. ASSUME NEW k \in 0..m, k # 0 PROVE h[k - 1] = g[k - 1]
    <3>1. k - 1 \in 0..(m - 1) /\ k - 1 \in 0..m
      BY <1>1, <2>2, <2>4
    <3> QED BY <2>3, <3>1
  <2>5. UpTo(m, h)
    BY <2>4
  <2> QED BY <1>2, <2>5
<1>3. Missing = {}
  <2>1. Missing \in SUBSET Nat
    BY <1>1
  <2> HIDE DEF Missing
  <2> QED BY <1>2, <2>1, LeastNat
<1>4. \E g : UpTo(Len(stream), g)
  BY <1>1, <1>3
<1> QED BY <1>4 DEF Framing

LEMMA FrameIs ==
    ASSUME stream \in Seq(Byte)
    PROVE  /\ Framing[0] = <<0, 0>>
           /\ \A k \in 1..Len(stream) :
                /\ k - 1 \in 0..Len(stream)
                /\ Framing[k] = NextFrame(Framing[k - 1][2])
<1>1. Len(stream) \in Nat
  BY LenProperties
<1>2. Framing[0] = <<0, 0>>
  BY <1>1, FramingIs
<1>3. ASSUME NEW k \in 1..Len(stream) PROVE Framing[k] = NextFrame(Framing[k - 1][2])
  <2>1. k \in 0..Len(stream) /\ k # 0
    BY <1>1
  <2> QED BY <2>1, FramingIs
<1> QED BY <1>1, <1>2, <1>3

\* Frames have positions, and each follows the frame before it.
LEMMA FrameTyped ==
    ASSUME stream \in Seq(Byte)
    PROVE  \A k \in 0..Len(stream) :
              /\ Framing[k] = <<Framing[k][1], Framing[k][2]>>
              /\ Framing[k][1] \in Nat /\ Framing[k][2] \in Nat /\ k <= Framing[k][2]
<1> DEFINE Good(k) == /\ Framing[k] = <<Framing[k][1], Framing[k][2]>>
                      /\ Framing[k][1] \in Nat /\ Framing[k][2] \in Nat
                      /\ k <= Framing[k][2]
           Wrong == {k \in 0..Len(stream) : ~Good(k)}
<1>1. Len(stream) \in Nat
  BY LenProperties
<1>2. ASSUME NEW m \in Wrong, \A n \in Wrong : m <= n
      PROVE  FALSE
  <2>1. m # 0
    BY FrameIs
  <2>2. m \in 1..Len(stream) /\ m - 1 \in 0..Len(stream) /\ m - 1 \notin Wrong
    BY <1>1, <1>2, <2>1
  <2>3. Good(m - 1) /\ Framing[m] = NextFrame(Framing[m - 1][2])
    BY <2>2, FrameIs
  <2>4. Framing[m - 1][2] \in Nat /\ m - 1 <= Framing[m - 1][2]
    BY <2>3
  <2>5. LET first == Framing[m][1]
            last  == Framing[m][2]
        IN  /\ first \in 1..(Len(stream) + 1) /\ last \in Nat
            /\ first + Len(StartMark) - 1 <= last
            /\ first <= Len(stream) => first > Framing[m - 1][2]
            /\ Framing[m] = <<first, last>>
    BY <2>3, <2>4, NextFrameIs
  <2>6. m <= Framing[m][2]
    BY <1>1, <2>2, <2>4, <2>5, Marks
  <2>7. Good(m)
    BY <2>5, <2>6
  <2> QED BY <2>7
<1>3. Wrong = {}
  <2>1. Wrong \in SUBSET Nat
    BY <1>1
  <2> HIDE DEF Wrong
  <2> QED BY <1>2, <2>1, LeastNat
<1> QED BY <1>3

LEMMA FrameFollows ==
    ASSUME stream \in Seq(Byte), NEW k \in 1..Len(stream)
    PROVE  /\ k - 1 \in 0..Len(stream) /\ Framing[k - 1][2] \in Nat
           /\ Framing[k] = NextFrame(Framing[k - 1][2])
           /\ Framing[k][1] \in 1..(Len(stream) + 1) /\ Framing[k][2] \in Nat
           /\ Framing[k][1] + Len(StartMark) - 1 <= Framing[k][2]
           /\ Framing[k][1] <= Framing[k][2]
           /\ Framing[k][1] <= Len(stream) => Framing[k][1] > Framing[k - 1][2]
<1>1. k - 1 \in 0..Len(stream) /\ Framing[k] = NextFrame(Framing[k - 1][2])
  BY FrameIs
<1>2. Framing[k - 1][2] \in Nat
  BY <1>1, FrameTyped
<1>3. /\ Framing[k][1] \in 1..(Len(stream) + 1) /\ Framing[k][2] \in Nat
      /\ Framing[k][1] + Len(StartMark) - 1 <= Framing[k][2]
      /\ Framing[k][1] <= Len(stream) => Framing[k][1] > Framing[k - 1][2]
  BY <1>1, <1>2, NextFrameIs
<1>4. Framing[k][1] <= Framing[k][2]
  <2>1. Framing[k][1] \in Nat /\ Framing[k][2] \in Nat
    BY <1>3, LenProperties
  <2> QED BY <1>3, <2>1, Marks
<1> QED BY <1>1, <1>2, <1>3, <1>4

\* If a frame is not complete after t bytes, no frame after it has begun by then.
LEMMA LaterFrames ==
    ASSUME stream \in Seq(Byte), NEW t \in 0..Len(stream), NEW m \in 0..Len(stream),
           Framing[m][2] > t
    PROVE  \A k \in 1..Len(stream) : k > m => Framing[k][1] > t /\ Framing[k][2] > t
<1> DEFINE Wrong == {k \in 1..Len(stream) : k > m /\ ~(Framing[k][1] > t /\ Framing[k][2] > t)}
<1>1. Len(stream) \in Nat
  BY LenProperties
<1>2. ASSUME NEW k \in Wrong, \A n \in Wrong : k <= n
      PROVE  FALSE
  <2>1. k \in 1..Len(stream) /\ k > m /\ k - 1 \in 0..Len(stream) /\ k - 1 \notin Wrong
    BY <1>1, <1>2
  <2>2. Framing[k - 1][2] > t
    BY <1>1, <2>1
  <2>3. Framing[k][1] > t /\ Framing[k][2] > t
    <3>1. /\ Framing[k][1] \in 1..(Len(stream) + 1) /\ Framing[k][2] \in Nat
          /\ Framing[k][1] <= Framing[k][2]
          /\ Framing[k][1] <= Len(stream) => Framing[k][1] > Framing[k - 1][2]
          /\ Framing[k - 1][2] \in Nat
      BY <2>1, FrameFollows
    <3> QED BY <1>1, <2>2, <3>1
  <2> QED BY <1>2, <2>3
<1>3. Wrong = {}
  <2>1. Wrong \in SUBSET Nat
    BY <1>1
  <2> HIDE DEF Wrong
  <2> QED BY <1>2, <2>1, LeastNat
<1> QED BY <1>3

\* If a frame is complete after t bytes, so are those before it.
LEMMA EarlierFrames ==
    ASSUME stream \in Seq(Byte), NEW t \in 0..Len(stream), NEW m \in 0..Len(stream),
           Framing[m][2] <= t
    PROVE  \A k \in 1..Len(stream) : k <= m => Framing[k][2] <= t
<1>1. ASSUME NEW k \in 1..Len(stream), k < m, Framing[k][2] > t
      PROVE  FALSE
  <2>1. k \in 0..Len(stream) /\ m \in 1..Len(stream)
    BY <1>1, LenProperties
  <2>2. Framing[m][2] > t
    BY <1>1, <2>1, LaterFrames
  <2> QED BY <2>2, <2>1, FrameTyped, LenProperties
<1>2. ASSUME NEW k \in 1..Len(stream), k <= m PROVE Framing[k][2] <= t
  <2>1. CASE k = m
    BY <2>1
  <2>2. CASE k # m
    <3>1. k \in 0..Len(stream) /\ k < m /\ t \in Nat
      BY <1>2, <2>2, LenProperties
    <3>2. Framing[k][2] \in Nat /\ ~(Framing[k][2] > t)
      BY <1>1, <3>1, FrameTyped
    <3> QED BY <3>1, <3>2
  <2> QED BY <2>1, <2>2
<1> QED BY <1>2

-----------------------------------------------------------------------------
(* A stretch of the stream, which the buffer is. *)

LEMMA StretchIs ==
    ASSUME NEW s \in Seq(Byte), NEW p \in Nat, NEW t \in 0..Len(s), p <= t
    PROVE  SubSeq(s, p + 1, t) \in Seq(Byte) /\ Len(SubSeq(s, p + 1, t)) = t - p
<1>1. Len(s) \in Nat /\ \A i \in 1..Len(s) : s[i] \in Byte
  BY LenProperties, ElementOfSeq
<1>2. \A i \in (p + 1)..t : s[i] \in Byte
  BY <1>1
<1>3. p + 1 \in Int /\ t \in Int
  BY <1>1
<1> QED BY <1>1, <1>2, <1>3, SubSeqProperties

LEMMA DropIs ==
    ASSUME NEW s \in Seq(Byte), NEW p \in Nat, NEW t \in 0..Len(s), p <= t,
           NEW n \in 0..(t - p)
    PROVE  Drop(SubSeq(s, p + 1, t), n) = SubSeq(s, p + n + 1, t)
<1> DEFINE b == SubSeq(s, p + 1, t)
<1>1. Len(s) \in Nat /\ b \in Seq(Byte) /\ Len(b) = t - p
  BY StretchIs, LenProperties
<1>2. Drop(b, n) = SubSeq(b, n + 1, t - p)
  BY <1>1 DEF Drop
<1>3. CASE n = t - p
  <2>1. SubSeq(b, n + 1, t - p) = << >> /\ SubSeq(s, p + n + 1, t) = << >>
    <3>1. n + 1 \in Int /\ t - p \in Int /\ t - p < n + 1
          /\ p + n + 1 \in Int /\ t \in Int /\ t < p + n + 1
      BY <1>1, <1>3
    <3> HIDE DEF b
    <3> QED BY <3>1, SubSeqEmpty
  <2> QED BY <1>2, <2>1
<1>4. CASE n < t - p
  <2>1. /\ p + 1 \in 1..Len(s) /\ t \in 1..Len(s)
        /\ n + 1 \in 1..(t - (p + 1) + 1) /\ t - p \in 1..(t - (p + 1) + 1)
    BY <1>1, <1>4
  <2>2. SubSeq(b, n + 1, t - p) = SubSeq(s, (p + 1) + (n + 1) - 1, (p + 1) + (t - p) - 1)
    BY <2>1, SubSeqOfSubSeq
  <2>3. (p + 1) + (n + 1) - 1 = p + n + 1 /\ (p + 1) + (t - p) - 1 = t
    BY <1>1
  <2> QED BY <1>2, <2>2, <2>3
<1> QED BY <1>1, <1>3, <1>4

\* The markers in a stretch are those of the stream that lie in it.
LEMMA Visible ==
    ASSUME NEW s \in Seq(Byte), NEW p \in Nat, NEW t \in 0..Len(s), p <= t,
           NEW mark \in {StartMark, EndMark}, NEW i \in Nat
    PROVE  i \in Places(mark, SubSeq(s, p + 1, t)) <=>
             /\ 1 <= i /\ p + i \in Places(mark, s)
             /\ p + i + Len(mark) - 1 <= t
<1> DEFINE b == SubSeq(s, p + 1, t)
           m == Len(mark)
<1>1. Len(s) \in Nat /\ Len(b) = t - p /\ m \in Nat /\ 1 <= m
  BY StretchIs, LenProperties, Marks
<1>2. ASSUME 1 <= i, p + i + m - 1 <= t
      PROVE  SubSeq(b, i, i + m - 1) = SubSeq(s, p + i, p + i + m - 1)
  <2>1. /\ p + 1 \in 1..Len(s) /\ t \in 1..Len(s)
        /\ i \in 1..(t - (p + 1) + 1) /\ i + m - 1 \in 1..(t - (p + 1) + 1)
    BY <1>1, <1>2
  <2>2. SubSeq(b, i, i + m - 1) = SubSeq(s, (p + 1) + i - 1, (p + 1) + (i + m - 1) - 1)
    <3> HIDE DEF m
    <3> QED BY <2>1, SubSeqOfSubSeq
  <2>3. (p + 1) + i - 1 = p + i /\ (p + 1) + (i + m - 1) - 1 = p + i + m - 1
    BY <1>1
  <2> QED BY <2>2, <2>3
<1>3. i \in Places(mark, b) <=>
        i \in 1..(t - p + 1 - m) /\ SubSeq(b, i, i + m - 1) = mark
  BY <1>1 DEF Places
<1>4. p + i \in Places(mark, s) <=>
        p + i \in 1..(Len(s) + 1 - m) /\ SubSeq(s, p + i, p + i + m - 1) = mark
  BY DEF Places
<1>5. i \in 1..(t - p + 1 - m) <=> 1 <= i /\ p + i + m - 1 <= t
  <2> HIDE DEF m, b
  <2> QED BY <1>1
<1>6. 1 <= i /\ p + i + m - 1 <= t => p + i \in 1..(Len(s) + 1 - m)
  <2> HIDE DEF m, b
  <2> QED BY <1>1
<1> HIDE DEF m, b
<1>7. i \in Places(mark, b) <=> 1 <= i /\ p + i \in Places(mark, s) /\ p + i + m - 1 <= t
  BY <1>2, <1>3, <1>4, <1>5, <1>6
<1> QED BY <1>7 DEF m, b

LEMMA ContentTyped ==
    ASSUME stream \in Seq(Byte), NEW k \in 1..Len(stream), Framing[k][2] <= Len(stream)
    PROVE  Content(k) \in Seq(Byte)
<1>1. Len(stream) \in Nat /\ \A i \in 1..Len(stream) : stream[i] \in Byte
  BY LenProperties, ElementOfSeq
<1>2. Framing[k][1] \in 1..(Len(stream) + 1) /\ Framing[k][2] \in Nat
  BY FrameFollows
<1>3. \A i \in Framing[k][1]..Framing[k][2] : stream[i] \in Byte
  BY <1>1, <1>2
<1>4. Framing[k][1] \in Int /\ Framing[k][2] \in Int
  BY <1>1, <1>2
<1> QED BY <1>3, <1>4, SubSeqProperties DEF Content

LEMMA SameFrames ==
    ASSUME stream' = stream
    PROVE  /\ Framing' = Framing
           /\ \A k : Content(k)' = Content(k)
           /\ \A k : NextFrame(k)' = NextFrame(k)
           /\ \A k : Acceptable(k)' = Acceptable(k)
           /\ \A t : FramesBy(t)' = FramesBy(t)
           /\ \A t : BadBy(t)' = BadBy(t)
BY DEF Framing, Content, NextFrame, Following, Acceptable, FramesBy, BadBy, Bad


-----------------------------------------------------------------------------
(* What the buffer shows of the stream ahead. *)

LEMMA Lengths ==
    ASSUME Typed
    PROVE  /\ Len(stream) \in Nat /\ Len(buffer) \in Nat
           /\ Len(events) \in Nat /\ Len(received) \in Nat
           /\ taken \in Nat /\ taken <= Len(stream)
           /\ Gone <= taken /\ Gone + Len(buffer) = taken
BY LenProperties DEF Typed, Gone

\* The first marker in the buffer is the next of the stream; if there is none, the
\* next of the stream has not arrived.
LEMMA Ahead ==
    ASSUME Typed, Aligned, NEW mark \in {StartMark, EndMark}
    PROVE  LET P == Places(mark, buffer)
               x == Following(mark, Gone)
           IN  /\ P # {} => /\ Min(P) \in P /\ Min(P) \in Nat /\ 1 <= Min(P)
                            /\ x = Gone + Min(P) /\ x + Len(mark) - 1 <= taken
               /\ P = {} => x + Len(mark) - 1 > taken
               /\ x \in Nat /\ P \subseteq Nat
<1> DEFINE P == Places(mark, buffer)
           x == Following(mark, Gone)
           m == Len(mark)
           g == Gone
<1>1. /\ stream \in Seq(Byte) /\ g \in Nat /\ taken \in 0..Len(stream) /\ g <= taken
      /\ Len(stream) \in Nat /\ m \in Nat /\ 1 <= m
  BY Lengths, Marks DEF Typed
<1>2. \A i \in Nat : i \in P <=> 1 <= i /\ g + i \in Places(mark, stream) /\ g + i + m - 1 <= taken
  BY <1>1, Visible DEF Aligned
<1>3. /\ x \in 1..(Len(stream) + 1)
      /\ x <= Len(stream) => x \in Places(mark, stream) /\ x > g
      /\ \A y \in Places(mark, stream) : y > g => x <= y
  BY <1>1, FollowingIs
<1>4. P \in SUBSET Nat
  BY Lengths, <1>1 DEF Places
<1>5. x + m - 1 <= taken => P # {} /\ x - g \in P
  <2> SUFFICES ASSUME x + m - 1 <= taken PROVE x - g \in P
    OBVIOUS
  <2> HIDE DEF P, x, m, g
  <2>1. x <= Len(stream) /\ x \in Nat
    BY <1>1, <1>3
  <2>2. x - g \in Nat /\ 1 <= x - g /\ g + (x - g) = x
    BY <1>1, <1>3, <2>1
  <2> QED BY <1>2, <1>3, <2>1, <2>2
<1>6. ASSUME P # {}
      PROVE  /\ Min(P) \in P /\ Min(P) \in Nat /\ 1 <= Min(P)
             /\ x = g + Min(P) /\ x + m - 1 <= taken
  <2> HIDE DEF P, x, m, g
  <2>1. Min(P) \in P /\ Min(P) \in Nat /\ \A i \in P : Min(P) <= i
    BY <1>4, <1>6, MinIsLeast
  <2>2. 1 <= Min(P) /\ g + Min(P) \in Places(mark, stream) /\ g + Min(P) + m - 1 <= taken
    BY <1>2, <2>1
  <2>3. x <= g + Min(P)
    BY <1>1, <1>3, <2>1, <2>2
  <2>4. x + m - 1 <= taken
    BY <1>1, <1>3, <2>1, <2>2, <2>3
  <2>5. Min(P) <= x - g
    BY <1>5, <2>1, <2>4
  <2> QED BY <1>1, <1>3, <2>1, <2>2, <2>3, <2>4, <2>5
<1>7. P = {} => x + m - 1 > taken
  <2> HIDE DEF P, x, m, g
  <2> QED BY <1>1, <1>3, <1>5
<1>8. x \in Nat
  BY <1>1, <1>3
<1> QED BY <1>4, <1>6, <1>7, <1>8

\* Bytes before the next start marker are no part of a frame.
LEMMA SkipKeepsNext ==
    ASSUME stream \in Seq(Byte), NEW i \in Nat, NEW j \in Nat, i <= j, j < Following(StartMark, i)
    PROVE  NextFrame(j) = NextFrame(i)
<1> DEFINE x == Following(StartMark, i)
           y == Following(StartMark, j)
<1>1. Len(stream) \in Nat
  BY LenProperties
<1>2. /\ x \in 1..(Len(stream) + 1)
      /\ x <= Len(stream) => x \in Places(StartMark, stream) /\ x > i
      /\ \A n \in Places(StartMark, stream) : n > i => x <= n
  BY FollowingIs
<1>3. /\ y \in 1..(Len(stream) + 1)
      /\ y <= Len(stream) => y \in Places(StartMark, stream) /\ y > j
      /\ \A n \in Places(StartMark, stream) : n > j => y <= n
  BY FollowingIs
<1>4. x = y
  <2> HIDE DEF x, y
  <2>1. CASE x <= Len(stream)
    <3>1. y <= x
      BY <1>2, <1>3, <2>1 DEF x
    <3> QED BY <1>1, <1>2, <1>3, <2>1, <3>1
  <2>2. CASE x = Len(stream) + 1
    BY <1>1, <1>2, <1>3, <2>2
  <2> QED BY <1>1, <1>2, <2>1, <2>2
<1> QED BY <1>4 DEF NextFrame

\* The frame after those decoded is the next one of the stream, if one has begun.
LEMMA NextNumber ==
    ASSUME Typed, Aligned
    PROVE  /\ NextFrame(Gone)[2] \in Nat /\ NextFrame(Gone)[1] \in Nat
           /\ Gone < Len(stream) =>
                Count + 1 \in 1..Len(stream) /\ Framing[Count + 1] = NextFrame(Gone)
<1>1. /\ stream \in Seq(Byte) /\ Gone \in Nat /\ Count \in 0..Len(stream)
      /\ Len(stream) \in Nat
  BY Lengths DEF Typed
<1>2. Count <= Framing[Count][2] /\ Framing[Count][2] \in Nat
  BY <1>1, FrameTyped
<1>3. ASSUME Gone < Len(stream)
      PROVE  Count + 1 \in 1..Len(stream) /\ Framing[Count + 1] = NextFrame(Gone)
  <2>1. Framing[Count][2] <= Gone
    BY DEF Aligned
  <2>2. Count + 1 \in 1..Len(stream) /\ (Count + 1) - 1 = Count
    BY <1>1, <1>2, <1>3, <2>1
  <2> QED BY <1>1, <2>2, FrameIs DEF Aligned
<1>4. NextFrame(Gone)[2] \in Nat /\ NextFrame(Gone)[1] \in Nat
  BY <1>1, NextFrameIs
<1> QED BY <1>3, <1>4

\* Without a complete frame ahead, those decoded are all that are complete.
LEMMA NoneAhead ==
    ASSUME Typed, Aligned, NextFrame(Gone)[2] > taken
    PROVE  \A k \in 1..Len(stream) :
              /\ Framing[k][2] <= taken <=> k <= Count
              /\ k > Count + 1 => Framing[k][1] > taken
<1>1. /\ stream \in Seq(Byte) /\ Gone \in Nat /\ Count \in 0..Len(stream)
      /\ Len(stream) \in Nat /\ taken \in 0..Len(stream) /\ Gone <= taken
  BY Lengths DEF Typed
<1> SUFFICES ASSUME NEW k \in 1..Len(stream)
             PROVE  /\ Framing[k][2] <= taken <=> k <= Count
                    /\ k > Count + 1 => Framing[k][1] > taken
  OBVIOUS
<1>2. Framing[k][2] \in Nat /\ k \in Nat /\ Count \in Nat
  BY <1>1, FrameFollows
<1>3. CASE k <= Count
  <2>1. Framing[Count][2] <= taken
    BY <1>1, FrameTyped DEF Aligned
  <2>2. Framing[k][2] <= taken
    BY <1>1, <1>3, <2>1, EarlierFrames
  <2> QED BY <1>2, <1>3, <2>2
<1>4. CASE k > Count
  <2>1. Count + 1 \in 1..Len(stream)
    BY <1>1, <1>4
  <2>2. Framing[Count + 1] = NextFrame(Gone)
    <3>1. (Count + 1) - 1 = Count
      BY <1>1
    <3> QED BY <1>1, <2>1, <3>1, FrameIs DEF Aligned
  <2>3. Framing[Count + 1][2] > taken
    BY <2>2
  <2>4. CASE k = Count + 1
    BY <1>1, <1>2, <2>3, <2>4
  <2>5. CASE k > Count + 1
    <3>1. Count + 1 \in 0..Len(stream)
      BY <1>1, <2>1
    <3>2. Framing[k][1] > taken /\ Framing[k][2] > taken
      BY <1>1, <2>3, <2>5, <3>1, LaterFrames
    <3> QED BY <1>1, <1>2, <1>4, <3>2
  <2> QED BY <1>2, <1>4, <2>4, <2>5
<1> QED BY <1>2, <1>3, <1>4

LEMMA AllDecoded ==
    ASSUME Typed, Aligned, NextFrame(Gone)[2] > taken
    PROVE  received \o events = FramesBy(taken)
<1>1. {j \in 1..Len(stream) : Framing[j][2] <= taken} = 1..Count
  BY NoneAhead, Lengths DEF Typed
<1> QED BY <1>1 DEF FramesBy, Aligned

\* The frames decoded are not bad; the one ahead is not if it has not begun, or
\* is not too long yet.
LEMMA NoneBad ==
    ASSUME Typed, Aligned, NextFrame(Gone)[2] > taken,
           \/ NextFrame(Gone)[1] + Len(StartMark) - 1 > taken
           \/ NextFrame(Gone)[1] + MaxEvent > taken
    PROVE  ~BadBy(taken)
<1>1. /\ stream \in Seq(Byte) /\ Gone \in Nat /\ Count \in Nat
      /\ Len(stream) \in Nat /\ taken \in Nat
      /\ Len(StartMark) \in Nat /\ 1 <= Len(StartMark) /\ MaxEvent \in Nat
  BY Lengths, Marks DEF Typed
<1> SUFFICES ASSUME NEW k \in 1..Len(stream), Bad(k, taken) PROVE FALSE
  BY DEF BadBy
<1> DEFINE first == Framing[k][1]
           last  == Framing[k][2]
<1>2. /\ first \in Nat /\ last \in Nat /\ k \in Nat
      /\ last <= taken <=> k <= Count
      /\ k > Count + 1 => first > taken
  BY <1>1, FrameFollows, NoneAhead
<1>3. \/ last <= taken /\ ~Valid(Content(k))
      \/ /\ first + Len(StartMark) - 1 <= taken
         /\ first + MaxEvent <= last /\ first + MaxEvent <= taken
  BY DEF Bad
<1>4. CASE k <= Count
  <2>1. k \in 1..Count
    BY <1>1, <1>4
  <2>2. last < first + MaxEvent /\ Valid(Content(k))
    BY <2>1 DEF Aligned, Acceptable
  <2> QED BY <1>1, <1>2, <1>3, <2>2
<1>5. CASE k = Count + 1
  <2>1. Framing[k] = NextFrame(Gone)
    <3>1. k - 1 = Count
      BY <1>1, <1>5
    <3> QED BY <1>1, <3>1, FrameIs DEF Aligned
  <2>2. \/ first + Len(StartMark) - 1 > taken
        \/ first + MaxEvent > taken
    BY <2>1
  <2>3. ~(last <= taken)
    BY <1>1, <1>2, <1>5
  <2> HIDE DEF first, last
  <2> QED BY <1>1, <1>2, <1>3, <2>2, <2>3
<1>6. CASE k > Count + 1
  <2>1. first > taken /\ ~(last <= taken)
    BY <1>1, <1>2, <1>6
  <2> HIDE DEF first, last
  <2> QED BY <1>1, <1>2, <1>3, <2>1
<1> QED BY <1>1, <1>2, <1>4, <1>5, <1>6

-----------------------------------------------------------------------------
(* Each step keeps the invariant. *)

LEMMA InitDecoder == Init => DecoderInv
<1> SUFFICES ASSUME Init PROVE DecoderInv
  OBVIOUS
<1>1. stream \in Seq(Byte) /\ Len(stream) \in Nat
  BY DecoderAssumption, LenProperties DEF Init
<1>2. /\ taken = 0 /\ before = 0 /\ push = "idle"
      /\ buffer = << >> /\ events = << >> /\ received = << >>
  BY DEF Init
<1>3. /\ Len(<< >>) = 0 /\ << >> \in Seq(Byte) /\ << >> \in Seq(Seq(Byte))
      /\ << >> \o << >> = << >>
  BY EmptySeq, ConcatEmptySeq
<1>4. Gone = 0 /\ Count = 0
  <2>1. Len(buffer) = 0 /\ Len(events) = 0 /\ Len(received) = 0
    BY <1>2, <1>3
  <2>2. taken = 0
    BY <1>2
  <2> QED BY <2>1, <2>2 DEF Gone, Count
<1>5. Typed
  BY <1>1, <1>2, <1>3, <1>4 DEF Typed
<1>6. Aligned
  <2>1. SubSeq(stream, 1, 0) = << >>
    BY SubSeqEmpty
  <2>2. Framing[0][2] = 0
    BY <1>1, FrameIs
  <2>3. [k \in 1..0 |-> Content(k)] = << >>
    OBVIOUS
  <2> QED BY <1>2, <1>3, <1>4, <2>1, <2>2, <2>3 DEF Aligned
<1>7. NextFrame(0)[2] > 0 /\ NextFrame(0)[1] + Len(StartMark) - 1 > 0
  <2>1. /\ NextFrame(0)[1] \in 1..(Len(stream) + 1) /\ NextFrame(0)[2] \in Nat
        /\ NextFrame(0)[1] + Len(StartMark) - 1 <= NextFrame(0)[2]
    BY <1>1, NextFrameIs
  <2> QED BY <1>1, <2>1, Marks
<1>8. CutsDoNotMatter
  BY <1>2, <1>3, <1>4, <1>5, <1>6, <1>7, AllDecoded, NoneBad DEF CutsDoNotMatter
<1>9. FailureLosesOnePush /\ BufferBounded
  BY <1>2, <1>3, DecoderAssumption DEF FailureLosesOnePush, BufferBounded
<1> QED BY <1>2, <1>5, <1>6, <1>8, <1>9 DEF DecoderInv

LEMMA ReadKeeps ==
    ASSUME DecoderInv, Read
    PROVE  DecoderInv'
<1>1. Typed /\ Aligned /\ events = << >> /\ received = FramesBy(taken)
  BY DEF DecoderInv, Read, CutsDoNotMatter
<1>2. PICK n \in 1..(Len(stream) - taken) :
        /\ buffer' = buffer \o SubSeq(stream, taken + 1, taken + n)
        /\ taken' = taken + n
  BY DEF Read
<1>3. /\ stream' = stream /\ before' = taken /\ push' = "scanning"
      /\ events' = events /\ received' = received
  BY DEF Read
<1>4. /\ stream \in Seq(Byte) /\ Gone \in Nat /\ taken \in Nat /\ Gone <= taken
      /\ Len(stream) \in Nat /\ taken + n \in 0..Len(stream) /\ taken <= taken + n
      /\ buffer = SubSeq(stream, Gone + 1, taken)
  BY <1>1, <1>2, Lengths DEF Typed, Aligned
<1>5. buffer' = SubSeq(stream, Gone + 1, taken + n)
  <2>1. /\ Gone + 1 \in 1..(Len(stream) + 1)
        /\ taken \in ((Gone + 1) - 1)..Len(stream)
        /\ taken + n \in taken..Len(stream)
    BY <1>4
  <2> QED BY <1>2, <1>4, <2>1, ConcatAdjacentSubSeq
<1>6. buffer' \in Seq(Byte) /\ Len(buffer') = (taken + n) - Gone
  <2>1. Gone <= taken + n
    BY <1>4
  <2> QED BY <1>4, <1>5, <2>1, StretchIs
<1>7. Gone' = Gone /\ Count' = Count
  BY <1>2, <1>3, <1>4, <1>6 DEF Gone, Count
<1>8. Typed'
  BY <1>1, <1>2, <1>3, <1>4, <1>6, <1>7 DEF Typed
<1>9. Aligned'
  BY <1>1, <1>2, <1>3, <1>5, <1>7, SameFrames DEF Aligned
<1>10. (received = FramesBy(before))'
  BY <1>1, <1>3, SameFrames
<1> QED BY <1>3, <1>8, <1>9, <1>10
        DEF DecoderInv, CutsDoNotMatter, FailureLosesOnePush, BufferBounded

\* The reader counts what the push decoded: that is all that is complete.
LEMMA YieldKeeps ==
    ASSUME Typed, Aligned, Yield, UNCHANGED <<stream, taken, before>>,
           NextFrame(Gone)[2] > taken,
           \/ NextFrame(Gone)[1] + Len(StartMark) - 1 > taken
           \/ NextFrame(Gone)[1] + MaxEvent > taken,
           NEW n \in 0..Len(buffer), buffer' = Drop(buffer, n),
           NextFrame(Gone + n) = NextFrame(Gone),
           Len(buffer) - n <= MaxEvent \/ Len(buffer) - n < Len(StartMark)
    PROVE  DecoderInv'
<1>1. received \o events = FramesBy(taken) /\ ~BadBy(taken)
  BY AllDecoded, NoneBad
<1>2. /\ push' = "idle" /\ received' = received \o events /\ events' = << >>
      /\ stream' = stream /\ taken' = taken /\ before' = before
  BY DEF Yield
<1>3. /\ stream \in Seq(Byte) /\ Gone \in Nat /\ taken \in 0..Len(stream)
      /\ Gone <= taken /\ Len(buffer) = taken - Gone /\ Len(buffer) \in Nat
      /\ buffer = SubSeq(stream, Gone + 1, taken) /\ Len(stream) \in Nat
  <2>1. /\ Len(stream) \in Nat /\ Len(buffer) \in Nat /\ taken \in Nat
        /\ Gone <= taken /\ Gone + Len(buffer) = taken
    BY Lengths
  <2>2. stream \in Seq(Byte) /\ Gone \in Nat /\ taken \in 0..Len(stream)
    BY DEF Typed
  <2>3. buffer = SubSeq(stream, Gone + 1, taken)
    BY DEF Aligned
  <2>4. Len(buffer) = taken - Gone
    BY <2>1, <2>2
  <2> QED BY <2>1, <2>2, <2>3, <2>4
<1>4. buffer' = SubSeq(stream, Gone + n + 1, taken)
  BY <1>3, DropIs
<1>5. buffer' \in Seq(Byte) /\ Len(buffer') = taken - (Gone + n)
  <2>1. Gone + n \in Nat /\ Gone + n <= taken
    BY <1>3
  <2> QED BY <1>3, <1>4, <2>1, StretchIs
<1>6. Gone' = Gone + n
  BY <1>2, <1>3, <1>5 DEF Gone
<1>7. /\ received' \in Seq(Seq(Byte)) /\ events' \in Seq(Seq(Byte))
      /\ Count' = Count /\ received' \o events' = received \o events
  <2>1. /\ received \o events \in Seq(Seq(Byte))
        /\ Len(received \o events) = Len(received) + Len(events)
    BY ConcatProperties DEF Typed
  <2>2. /\ << >> \in Seq(Seq(Byte)) /\ Len(<< >>) = 0
        /\ (received \o events) \o << >> = received \o events
    BY <2>1, EmptySeq, ConcatEmptySeq
  <2> QED BY <1>2, <2>1, <2>2, Lengths DEF Count
<1>8. Typed'
  BY <1>2, <1>3, <1>5, <1>6, <1>7 DEF Typed
<1>9. Aligned'
  <2>1. Framing[Count][2] \in Nat /\ Framing[Count][2] <= Gone + n
    BY <1>3, FrameTyped DEF Typed, Aligned
  <2> QED BY <1>2, <1>4, <1>6, <1>7, <2>1, SameFrames DEF Aligned
<1>10. CutsDoNotMatter'
  BY <1>1, <1>2, SameFrames DEF CutsDoNotMatter
<1>11. BufferBounded'
  <2>1. Len(buffer') = Len(buffer) - n
    BY <1>3, <1>5
  <2> QED BY <2>1 DEF BufferBounded
<1> QED BY <1>2, <1>8, <1>9, <1>10, <1>11 DEF DecoderInv, FailureLosesOnePush

LEMMA SkipPreambleKeeps ==
    ASSUME DecoderInv, SkipPreamble
    PROVE  DecoderInv'
<1>1. Typed /\ Aligned /\ push = "scanning" /\ received = FramesBy(before)
  BY DEF DecoderInv, SkipPreamble
<1> DEFINE n == Min(Starts) - 1
<1>2. /\ stream' = stream /\ taken' = taken /\ before' = before
      /\ push' = push /\ events' = events /\ received' = received
      /\ buffer' = Drop(buffer, n)
  BY DEF SkipPreamble
<1>3. /\ stream \in Seq(Byte) /\ Gone \in Nat /\ taken \in 0..Len(stream)
      /\ Gone <= taken /\ Len(buffer) = taken - Gone /\ Len(buffer) \in Nat
      /\ buffer = SubSeq(stream, Gone + 1, taken) /\ Len(stream) \in Nat
  BY <1>1, Lengths DEF Typed, Aligned
<1>4. /\ n \in 0..(taken - Gone) /\ Gone + n \in Nat
      /\ Gone + n < Following(StartMark, Gone)
  <2>1. /\ Min(Starts) \in Nat /\ 1 <= Min(Starts)
        /\ Following(StartMark, Gone) = Gone + Min(Starts)
        /\ Following(StartMark, Gone) + Len(StartMark) - 1 <= taken
    BY <1>1, Ahead DEF Starts, SkipPreamble
  <2> QED BY <1>3, <2>1, Marks
<1> HIDE DEF n
<1>5. buffer' = SubSeq(stream, Gone + n + 1, taken)
  BY <1>2, <1>3, <1>4, DropIs
<1>6. buffer' \in Seq(Byte) /\ Len(buffer') = taken - (Gone + n)
  <2>1. Gone + n <= taken
    BY <1>3, <1>4
  <2> QED BY <1>3, <1>4, <1>5, <2>1, StretchIs
<1>7. Gone' = Gone + n /\ Count' = Count
  BY <1>2, <1>3, <1>4, <1>6 DEF Gone, Count
<1>8. Typed'
  BY <1>1, <1>2, <1>4, <1>6, <1>7 DEF Typed
<1>9. Aligned'
  <2>1. NextFrame(Gone + n) = NextFrame(Gone)
    BY <1>3, <1>4, SkipKeepsNext
  <2>2. Framing[Count][2] \in Nat /\ Framing[Count][2] <= Gone + n
    BY <1>1, <1>3, <1>4, FrameTyped DEF Typed, Aligned
  <2> QED BY <1>1, <1>2, <1>5, <1>7, <2>1, <2>2, SameFrames DEF Aligned
<1>10. (received = FramesBy(before))'
  BY <1>1, <1>2, SameFrames
<1> QED BY <1>1, <1>2, <1>8, <1>9, <1>10
        DEF DecoderInv, CutsDoNotMatter, FailureLosesOnePush, BufferBounded

LEMMA KeepTailKeeps ==
    ASSUME DecoderInv, KeepTail
    PROVE  DecoderInv'
<1>1. Typed /\ Aligned /\ Yield /\ UNCHANGED <<stream, taken, before>>
  BY DEF DecoderInv, KeepTail
<1> DEFINE m == Len(StartMark)
           n == IF Len(buffer) > m - 1 THEN Len(buffer) - (m - 1) ELSE 0
           x == Following(StartMark, Gone)
<1>2. buffer' = Drop(buffer, n)
  BY DEF KeepTail
<1>3. /\ Gone \in Nat /\ taken \in Nat /\ Len(buffer) \in Nat /\ Gone + Len(buffer) = taken
      /\ m \in Nat /\ 1 <= m /\ stream \in Seq(Byte)
  BY <1>1, Lengths, Marks DEF Typed
<1>4. x \in Nat /\ x + m - 1 > taken /\ x > Gone
  <2>1. x \in Nat /\ x + m - 1 > taken
    BY <1>1, Ahead DEF KeepTail, Starts
  <2>2. x > Gone
    <3>1. /\ x \in 1..(Len(stream) + 1) /\ (x <= Len(stream) => x > Gone)
      BY <1>3, FollowingIs
    <3> QED BY <1>1, <1>3, <3>1, Lengths
  <2> QED BY <2>1, <2>2
<1>5. n \in 0..Len(buffer) /\ Len(buffer) - n < m /\ Gone + n \in Nat /\ Gone + n < x
  <2> HIDE DEF m, x
  <2> QED BY <1>3, <1>4
<1>6. NextFrame(Gone)[1] = x /\ NextFrame(Gone)[2] \in Nat
      /\ x + m - 1 <= NextFrame(Gone)[2]
  <2>1. NextFrame(Gone)[1] = x
    BY DEF NextFrame
  <2> QED BY <1>3, <2>1, NextFrameIs
<1>7. NextFrame(Gone)[2] > taken
  <2> HIDE DEF m, x
  <2> QED BY <1>3, <1>4, <1>6
<1>8. NextFrame(Gone + n) = NextFrame(Gone)
  <2> HIDE DEF n
  <2>1. Gone <= Gone + n
    BY <1>3, <1>5
  <2> QED BY <1>3, <1>5, <2>1, SkipKeepsNext
<1>9. NextFrame(Gone)[1] + Len(StartMark) - 1 > taken
  BY <1>4, <1>6
<1>10. Len(buffer) - n < Len(StartMark)
  BY <1>5
<1> HIDE DEF n
<1> QED BY <1>1, <1>2, <1>5, <1>7, <1>8, <1>9, <1>10, YieldKeeps

\* The frame that the buffer begins with is the next one of the stream.
LEMMA FrameBegun ==
    ASSUME Typed, Aligned, 1 \in Starts
    PROVE  /\ NextFrame(Gone) = <<Gone + 1, Following(EndMark, Gone) + Len(EndMark) - 1>>
           /\ Gone + 1 + Len(StartMark) - 1 <= taken /\ Gone < Len(stream)
           /\ Following(EndMark, Gone) \in Nat
<1>1. /\ Gone \in Nat /\ taken \in Nat /\ taken <= Len(stream) /\ Len(stream) \in Nat
      /\ Len(StartMark) \in Nat /\ 1 <= Len(StartMark)
  BY Lengths, Marks DEF Typed
<1>2. /\ 1 <= Min(Starts) /\ Min(Starts) \in Nat /\ Starts \subseteq Nat
      /\ Following(StartMark, Gone) = Gone + Min(Starts)
      /\ Following(StartMark, Gone) + Len(StartMark) - 1 <= taken
  BY Ahead DEF Starts
<1>3. Min(Starts) = 1
  <2>1. Min(Starts) <= 1
    BY <1>2, MinIsLeast
  <2> QED BY <1>2, <2>1
<1>4. Following(StartMark, Gone) = Gone + 1 /\ (Gone + 1) - 1 = Gone
  BY <1>1, <1>2, <1>3
<1>5. Following(EndMark, Gone) \in Nat
  BY Ahead
<1> QED BY <1>1, <1>2, <1>4, <1>5 DEF NextFrame

\* A push fails over a frame that is bad, and leaves what was received before it.
LEMMA FailKeeps ==
    ASSUME DecoderInv, push = "scanning", Fail, UNCHANGED <<stream, taken, before>>,
           BadBy(taken), buffer' \in Seq(Byte), Gone' \in Nat
    PROVE  DecoderInv'
<1>1. Typed /\ received = FramesBy(before)
  BY DEF DecoderInv
<1>2. /\ push' = "failed" /\ events' = << >> /\ received' = received
      /\ stream' = stream /\ taken' = taken /\ before' = before
  BY DEF Fail
<1>3. Count' \in 0..Len(stream)
  <2>1. Len(events') = 0
    BY <1>2, EmptySeq
  <2>2. Count' = Len(received)
    BY <1>1, <1>2, <2>1, Lengths DEF Count
  <2>3. /\ Len(received) \in Nat /\ Len(events) \in Nat
        /\ Len(received) + Len(events) <= Len(stream) /\ Len(stream) \in Nat
    BY <1>1, Lengths DEF Typed, Count
  <2> QED BY <2>2, <2>3
<1>4. Typed'
  <2>1. << >> \in Seq(Seq(Byte))
    BY EmptySeq
  <2> QED BY <1>1, <1>2, <1>3, <2>1 DEF Typed
<1>5. BadBy(taken)' /\ (received = FramesBy(before))'
  BY <1>1, <1>2, SameFrames
<1> QED BY <1>2, <1>4, <1>5
        DEF DecoderInv, CutsDoNotMatter, FailureLosesOnePush, BufferBounded

LEMMA AwaitEndKeeps ==
    ASSUME DecoderInv, AwaitEnd
    PROVE  DecoderInv'
<1>1. /\ Typed /\ Aligned /\ push = "scanning" /\ 1 \in Starts /\ Ends = {}
      /\ UNCHANGED <<stream, taken, before, buffer>>
  BY DEF DecoderInv, AwaitEnd, AtFrame
<1>2. /\ Gone \in Nat /\ taken \in Nat /\ Len(buffer) \in Nat /\ Gone + Len(buffer) = taken
      /\ Len(EndMark) \in Nat /\ MaxEvent \in Nat /\ stream \in Seq(Byte)
      /\ buffer \in Seq(Byte)
  BY <1>1, Lengths, Marks DEF Typed
<1>3. /\ NextFrame(Gone) = <<Gone + 1, Following(EndMark, Gone) + Len(EndMark) - 1>>
      /\ Gone + 1 + Len(StartMark) - 1 <= taken /\ Gone < Len(stream)
  BY <1>1, FrameBegun
<1>4. NextFrame(Gone)[1] = Gone + 1
  BY <1>3
<1>5. NextFrame(Gone)[2] > taken
  <2>1. Places(EndMark, buffer) = {}
    BY <1>1 DEF Ends
  <2> QED BY <1>1, <1>3, <2>1, Ahead
<1>6. CASE Len(buffer) > MaxEvent
  <2>1. Fail
    BY <1>6 DEF AwaitEnd
  <2>2. /\ Count + 1 \in 1..Len(stream) /\ Framing[Count + 1] = NextFrame(Gone)
        /\ NextFrame(Gone)[2] \in Nat
    BY <1>1, <1>3, NextNumber
  <2>3. Gone + 1 + MaxEvent <= taken /\ Gone + 1 + MaxEvent <= NextFrame(Gone)[2]
    BY <1>2, <1>5, <1>6, <2>2
  <2>4. Bad(Count + 1, taken)
    BY <1>3, <1>4, <2>2, <2>3 DEF Bad
  <2>5. BadBy(taken)
    BY <2>2, <2>4 DEF BadBy
  <2>6. buffer' \in Seq(Byte) /\ Gone' \in Nat
    BY <1>1, <1>2 DEF Gone
  <2> QED BY <1>1, <2>1, <2>5, <2>6, FailKeeps
<1>7. CASE ~(Len(buffer) > MaxEvent)
  <2>1. Yield
    BY <1>7 DEF AwaitEnd
  <2>2. NextFrame(Gone)[1] + MaxEvent > taken /\ Len(buffer) - 0 <= MaxEvent
    BY <1>2, <1>4, <1>7
  <2>3. buffer' = Drop(buffer, 0) /\ Gone + 0 = Gone /\ 0 \in 0..Len(buffer)
    <3>1. Drop(buffer, 0) = buffer
      BY <1>2, SubSeqFull DEF Drop
    <3> QED BY <1>1, <1>2, <3>1
  <2>4. NextFrame(Gone + 0) = NextFrame(Gone)
    BY <2>3
  <2> QED BY <1>1, <1>5, <2>1, <2>2, <2>3, <2>4, YieldKeeps
<1> QED BY <1>6, <1>7

\* A complete frame at the beginning of the buffer is the next one of the stream.
LEMMA FrameComplete ==
    ASSUME Typed, Aligned, 1 \in Starts, Ends # {}
    PROVE  /\ Min(Ends) \in 1..Len(buffer) /\ Len(Frame) = Min(Ends)
           /\ NextFrame(Gone) = <<Gone + 1, Gone + Min(Ends)>>
           /\ Count + 1 \in 1..Len(stream) /\ Framing[Count + 1] = NextFrame(Gone)
           /\ Frame = Content(Count + 1) /\ Frame \in Seq(Byte)
<1> DEFINE P == Places(EndMark, buffer)
           m == Len(EndMark)
<1>1. /\ Gone \in Nat /\ taken \in 0..Len(stream) /\ Len(buffer) \in Nat
      /\ Gone + Len(buffer) = taken /\ Gone <= taken /\ Len(stream) \in Nat
      /\ m \in Nat /\ 1 <= m /\ stream \in Seq(Byte)
      /\ buffer = SubSeq(stream, Gone + 1, taken) /\ buffer \in Seq(Byte)
  BY Lengths, Marks DEF Typed, Aligned
<1>2. /\ Min(P) \in P /\ Min(P) \in Nat /\ 1 <= Min(P) /\ P \subseteq Nat
      /\ Following(EndMark, Gone) = Gone + Min(P) /\ Gone + Min(P) + m - 1 <= taken
  <2>1. P # {}
    BY DEF Ends
  <2> QED BY <2>1, Ahead
<1>3. Min(Ends) = Min(P) + m - 1
  <2>1. Ends \in SUBSET Nat
    <3>1. Ends = {i + m - 1 : i \in P}
      BY DEF Ends
    <3>2. P \subseteq Nat /\ m \in Nat /\ 1 <= m
      BY <1>1, <1>2
    <3> HIDE DEF P, m
    <3>3. \A i \in P : i + m - 1 \in Nat
      BY <3>2
    <3> QED BY <3>1, <3>3
  <2>2. Min(Ends) \in Ends /\ \A e \in Ends : Min(Ends) <= e
    BY <2>1, MinIsLeast
  <2>3. \A i \in P : Min(P) <= i
    BY <1>2, MinIsLeast
  <2>4. PICK i \in P : Min(Ends) = i + m - 1
    BY <2>2 DEF Ends
  <2>5. Min(P) + m - 1 \in Ends
    BY <1>2 DEF Ends
  <2>6. Min(P) <= i /\ i + m - 1 <= Min(P) + m - 1 /\ i \in Nat
    BY <1>2, <2>2, <2>3, <2>4, <2>5
  <2>7. i = Min(P)
    <3>1. Min(P) \in Nat /\ m \in Nat
      BY <1>1, <1>2
    <3> HIDE DEF P, m
    <3> QED BY <2>6, <3>1
  <2> QED BY <2>4, <2>7
<1>4. Min(Ends) \in 1..Len(buffer) /\ Gone + Min(Ends) <= taken
  <2> HIDE DEF P, m
  <2> QED BY <1>1, <1>2, <1>3
<1>5. NextFrame(Gone) = <<Gone + 1, Gone + Min(Ends)>>
  <2>1. NextFrame(Gone) = <<Gone + 1, Following(EndMark, Gone) + m - 1>>
    BY FrameBegun
  <2>2. Following(EndMark, Gone) + m - 1 = Gone + Min(Ends)
    <3> HIDE DEF P, m
    <3> QED BY <1>1, <1>2, <1>3
  <2> QED BY <2>1, <2>2
<1>6. Count + 1 \in 1..Len(stream) /\ Framing[Count + 1] = NextFrame(Gone)
  BY FrameBegun, NextNumber
<1>7. Frame = Content(Count + 1)
  <2>1. /\ Gone + 1 \in 1..Len(stream) /\ taken \in 1..Len(stream)
        /\ 1 \in 1..(taken - (Gone + 1) + 1) /\ Min(Ends) \in 1..(taken - (Gone + 1) + 1)
    BY <1>1, <1>4
  <2>2. SubSeq(buffer, 1, Min(Ends)) = SubSeq(stream, (Gone + 1) + 1 - 1, (Gone + 1) + Min(Ends) - 1)
    BY <1>1, <2>1, SubSeqOfSubSeq
  <2>3. (Gone + 1) + 1 - 1 = Gone + 1 /\ (Gone + 1) + Min(Ends) - 1 = Gone + Min(Ends)
    BY <1>1, <1>4
  <2>4. Framing[Count + 1][1] = Gone + 1 /\ Framing[Count + 1][2] = Gone + Min(Ends)
    BY <1>5, <1>6
  <2>5. Frame = SubSeq(stream, Gone + 1, Gone + Min(Ends))
    BY <2>2, <2>3 DEF Frame
  <2> QED BY <2>4, <2>5 DEF Content
<1>8. Frame \in Seq(Byte) /\ Len(Frame) = Min(Ends)
  <2>1. Min(Ends) \in 0..Len(buffer) /\ 0 <= Min(Ends) /\ 0 + 1 = 1 /\ 0 \in Nat
        /\ Min(Ends) - 0 = Min(Ends)
    BY <1>1, <1>4
  <2> QED BY <1>1, <2>1, StretchIs DEF Frame
<1> QED BY <1>4, <1>5, <1>6, <1>7, <1>8

LEMMA AppendLast ==
    ASSUME NEW s \in Seq(Seq(Byte)), NEW t \in Seq(Seq(Byte)), NEW x \in Seq(Byte)
    PROVE  s \o Append(t, x) = Append(s \o t, x)
<1>1. << x >> \in Seq(Seq(Byte)) /\ Append(t, x) = t \o << x >>
  BY AppendIsConcat
<1>2. s \o t \in Seq(Seq(Byte))
  BY ConcatProperties
<1>3. Append(s \o t, x) = (s \o t) \o << x >>
  BY <1>2, AppendIsConcat
<1> QED BY <1>1, <1>3, ConcatAssociative

\* The contents of n frames and of one more are those of n + 1.
LEMMA OneMore ==
    ASSUME NEW n \in Nat, NEW s \in Seq(Seq(Byte)), Content(n + 1) \in Seq(Byte),
           s = [j \in 1..n |-> Content(j)]
    PROVE  Append(s, Content(n + 1)) = [j \in 1..(n + 1) |-> Content(j)]
<1> DEFINE new == Append(s, Content(n + 1))
<1>1. Len(s) = n
  BY LenProperties
<1>2. /\ new \in Seq(Seq(Byte)) /\ Len(new) = n + 1
      /\ \A j \in 1..n : new[j] = s[j]
      /\ new[n + 1] = Content(n + 1)
  BY <1>1, AppendProperties
<1>3. new = [j \in 1..(n + 1) |-> new[j]]
  BY <1>2, LenProperties
<1>4. \A j \in 1..n : s[j] = Content(j)
  OBVIOUS
<1> HIDE DEF new
<1>5. \A j \in 1..(n + 1) : new[j] = Content(j)
  <2> SUFFICES ASSUME NEW j \in 1..(n + 1) PROVE new[j] = Content(j)
    OBVIOUS
  <2>1. j \in 1..n \/ j = n + 1
    OBVIOUS
  <2> QED BY <1>2, <1>4, <2>1
<1>6. new = [j \in 1..(n + 1) |-> Content(j)]
  BY <1>3, <1>5
<1> QED BY <1>6 DEF new

LEMMA TakeFrameKeeps ==
    ASSUME DecoderInv, TakeFrame
    PROVE  DecoderInv'
<1>1. /\ Typed /\ Aligned /\ push = "scanning" /\ 1 \in Starts /\ Ends # {}
      /\ UNCHANGED <<stream, taken, before>> /\ received = FramesBy(before)
  BY DEF DecoderInv, TakeFrame, AtFrame
<1> DEFINE e == Min(Ends)
           k == Count + 1
<1>2. /\ e \in 1..Len(buffer) /\ Len(Frame) = e
      /\ NextFrame(Gone) = <<Gone + 1, Gone + e>>
      /\ k \in 1..Len(stream) /\ Framing[k] = NextFrame(Gone)
      /\ Frame = Content(k) /\ Frame \in Seq(Byte)
  BY <1>1, FrameComplete
<1>3. Framing[k][1] = Gone + 1 /\ Framing[k][2] = Gone + e
  BY <1>2
<1>4. /\ Gone \in Nat /\ taken \in 0..Len(stream) /\ Len(buffer) \in Nat
      /\ Gone + Len(buffer) = taken /\ Gone <= taken /\ Len(stream) \in Nat
      /\ stream \in Seq(Byte) /\ buffer = SubSeq(stream, Gone + 1, taken)
      /\ MaxEvent \in Nat /\ Count \in Nat
      /\ events \in Seq(Seq(Byte)) /\ received \in Seq(Seq(Byte))
  BY <1>1, Lengths, Marks DEF Typed, Aligned
<1>5. buffer' = SubSeq(stream, Gone + e + 1, taken)
  <2>1. buffer' = Drop(buffer, e) /\ e \in 0..(taken - Gone)
    BY <1>2, <1>4 DEF TakeFrame
  <2> HIDE DEF e
  <2> QED BY <1>4, <2>1, DropIs
<1>6. /\ buffer' \in Seq(Byte) /\ Len(buffer') = taken - (Gone + e)
      /\ Gone + e \in Nat /\ Gone + e <= taken
  <2> HIDE DEF e
  <2>1. Gone + e \in Nat /\ Gone + e <= taken
    BY <1>2, <1>4
  <2> QED BY <1>4, <1>5, <2>1, StretchIs
<1>7. Gone' = Gone + e
  <2> HIDE DEF e
  <2>1. taken' = taken
    BY <1>1
  <2> QED BY <1>4, <1>6, <2>1 DEF Gone
<1>8. CASE Len(Frame) > MaxEvent \/ ~Valid(Frame)
  <2>1. Fail
    BY <1>8 DEF TakeFrame
  <2>2. Gone + 1 + Len(StartMark) - 1 <= taken
    BY <1>1, FrameBegun
  <2>3. \/ ~Valid(Content(k))
        \/ Gone + 1 + MaxEvent <= Gone + e /\ Gone + 1 + MaxEvent <= taken
    <3>1. e > MaxEvent => Gone + 1 + MaxEvent <= Gone + e /\ Gone + 1 + MaxEvent <= taken
      <4> HIDE DEF e
      <4> QED BY <1>2, <1>4, <1>6
    <3> QED BY <1>2, <1>8, <3>1
  <2>4. Bad(k, taken)
    <3> HIDE DEF e, k
    <3> QED BY <1>3, <1>6, <2>2, <2>3 DEF Bad
  <2>5. BadBy(taken)
    BY <1>2, <2>4 DEF BadBy
  <2> QED BY <1>1, <1>6, <1>7, <2>1, <2>5, FailKeeps
<1>9. CASE ~(Len(Frame) > MaxEvent \/ ~Valid(Frame))
  <2>1. /\ events' = Append(events, Frame) /\ push' = push /\ received' = received
        /\ stream' = stream /\ taken' = taken /\ before' = before
    BY <1>1, <1>9 DEF TakeFrame
  <2>2. events' \in Seq(Seq(Byte)) /\ Len(events') = Len(events) + 1
    BY <1>2, <1>4, <2>1, AppendProperties
  <2>3. Count' = k
    BY <1>1, <2>1, <2>2, Lengths DEF Count
  <2>4. Typed'
    <3>1. k \in 0..Len(stream)
      BY <1>2, <1>4
    <3> QED BY <1>1, <1>4, <1>6, <1>7, <2>1, <2>2, <2>3, <3>1 DEF Typed
  <2>5. received' \o events' = [j \in 1..k |-> Content(j)]
    <3>1. received' \o events' = Append(received \o events, Content(k))
      BY <1>2, <1>4, <2>1, AppendLast
    <3>2. /\ received \o events \in Seq(Seq(Byte))
          /\ received \o events = [j \in 1..Count |-> Content(j)]
      BY <1>1, <1>4, ConcatProperties DEF Aligned
    <3>3. Content(Count + 1) \in Seq(Byte)
      BY <1>2
    <3> QED BY <1>4, <3>1, <3>2, <3>3, OneMore
  <2>6. Acceptable(k)
    <3> HIDE DEF k
    <3>1. e <= MaxEvent /\ Valid(Content(k))
      BY <1>2, <1>4, <1>9
    <3>2. Gone + e < Gone + 1 + MaxEvent
      <4> HIDE DEF e
      <4> QED BY <1>2, <1>4, <3>1
    <3> QED BY <1>3, <3>1, <3>2 DEF Acceptable
  <2>7. \A j \in 1..k : Acceptable(j)
    <3> SUFFICES ASSUME NEW j \in 1..k PROVE Acceptable(j)
      OBVIOUS
    <3>1. j \in 1..Count \/ j = k
      BY <1>4
    <3> HIDE DEF k
    <3> QED BY <1>1, <2>6, <3>1 DEF Aligned
  <2>8. Aligned'
    <3> HIDE DEF e, k
    <3>1. Framing'[Count'] = Framing[k] /\ NextFrame(Gone)' = NextFrame(Gone + e)
      BY <1>7, <2>1, <2>3, SameFrames
    <3>2. Framing[k][2] = Gone + e
      BY <1>3
    <3> QED BY <1>5, <1>6, <1>7, <2>1, <2>3, <2>5, <2>7, <3>1, <3>2, SameFrames DEF Aligned
  <2>9. (received = FramesBy(before))'
    BY <1>1, <2>1, SameFrames
  <2> QED BY <1>1, <2>1, <2>4, <2>8, <2>9
          DEF DecoderInv, CutsDoNotMatter, FailureLosesOnePush, BufferBounded
<1> QED BY <1>8, <1>9

LEMMA NextDecoder == DecoderInv /\ [Next]_vars => DecoderInv'
<1> SUFFICES ASSUME DecoderInv, [Next]_vars PROVE DecoderInv'
  OBVIOUS
<1>1. CASE UNCHANGED vars
  <2>1. Gone' = Gone /\ Count' = Count
    BY <1>1 DEF vars, Gone, Count
  <2> QED BY <1>1, <2>1, SameFrames
          DEF vars, DecoderInv, Typed, Aligned, CutsDoNotMatter, FailureLosesOnePush, BufferBounded
<1> QED BY <1>1, ReadKeeps, SkipPreambleKeeps, KeepTailKeeps, AwaitEndKeeps, TakeFrameKeeps
        DEF Next, Scan, Terminated

-----------------------------------------------------------------------------
\* The reader receives what the peer sent, however TCP cuts it into reads and
\* whatever preambles there are between the events (protocol.rs:156-191).
THEOREM CutsAreInvisible == Spec => []CutsDoNotMatter
BY InitDecoder, NextDecoder, PTL DEF Spec, Safety, DecoderInv

\* A push that returns an Err has met a frame that is malformed or too long in any
\* cut of the stream, and costs the reader no event of an earlier push
\* (protocol.rs:173-188, scenarios.rs:626).
THEOREM FailuresAreContained == Spec => []FailureLosesOnePush
BY InitDecoder, NextDecoder, PTL DEF Spec, Safety, DecoderInv

\* Between pushes the decoder holds at most one frame of the allowed size, or the
\* beginning of a marker (protocol.rs:160-178), whatever and however much a peer sends.
THEOREM BufferIsBounded == Spec => []BufferBounded
BY InitDecoder, NextDecoder, PTL DEF Spec, Safety, DecoderInv

\* A turn of push's loop ends it or takes something out of the buffer.
TurnsShorten ==
    [][push = "scanning" =>
        push' # "scanning" \/ (Len(buffer') \in Nat /\ Len(buffer') < Len(buffer))]_vars

\* push ends after no more turns than the buffer has bytes: a frame and a preamble are
\* never empty (protocol.rs:156-191). With the fairness of the loop this is why
\* PushReturns holds.
THEOREM PushMovesOn == Spec => TurnsShorten
<1>1. ASSUME DecoderInv, [Next]_vars, push = "scanning", push' = "scanning", vars' # vars
      PROVE  Len(buffer') \in Nat /\ Len(buffer') < Len(buffer)
  <2>1. Typed /\ Aligned
    BY <1>1 DEF DecoderInv
  <2>2. /\ Gone \in Nat /\ taken \in Nat /\ Len(buffer) \in Nat /\ Gone + Len(buffer) = taken
        /\ Gone <= taken /\ Len(stream) \in Nat /\ taken \in 0..Len(stream)
        /\ stream \in Seq(Byte) /\ buffer = SubSeq(stream, Gone + 1, taken)
    BY <2>1, Lengths DEF Typed, Aligned
  <2>3. ASSUME NEW n \in 1..Len(buffer), buffer' = Drop(buffer, n)
        PROVE  Len(buffer') \in Nat /\ Len(buffer') < Len(buffer)
    <3>1. n \in 0..(taken - Gone) /\ Gone + n \in Nat /\ Gone + n <= taken
      BY <2>2
    <3>2. buffer' = SubSeq(stream, Gone + n + 1, taken)
      BY <2>2, <2>3, <3>1, DropIs
    <3>3. Len(buffer') = taken - (Gone + n)
      BY <2>2, <3>1, <3>2, StretchIs
    <3> QED BY <2>2, <3>1, <3>3
  <2>4. CASE SkipPreamble
    <3> DEFINE n == Min(Starts) - 1
    <3>1. buffer' = Drop(buffer, n) /\ Starts # {} /\ 1 \notin Starts
      BY <2>4 DEF SkipPreamble
    <3>2. /\ Min(Starts) \in Nat /\ 1 <= Min(Starts) /\ Min(Starts) \in Starts
          /\ Min(Starts) <= Len(buffer)
      <4>1. /\ Min(Starts) \in Nat /\ 1 <= Min(Starts)
            /\ Following(StartMark, Gone) = Gone + Min(Starts)
            /\ Following(StartMark, Gone) + Len(StartMark) - 1 <= taken
        BY <2>1, <3>1, Ahead DEF Starts
      <4>2. Min(Starts) \in Starts
        <5>1. Starts \in SUBSET Nat
          BY <2>2 DEF Starts, Places
        <5> QED BY <3>1, <5>1, MinIsLeast
      <4> QED BY <2>2, <4>1, <4>2, Marks
    <3>3. n \in 1..Len(buffer)
      BY <2>2, <3>1, <3>2
    <3> HIDE DEF n
    <3> QED BY <2>3, <3>1, <3>3
  <2>5. CASE TakeFrame
    <3>1. /\ 1 \in Starts /\ Ends # {} /\ buffer' = Drop(buffer, Len(Frame))
      BY <2>5 DEF TakeFrame, AtFrame
    <3>2. Len(Frame) \in 1..Len(buffer)
      BY <2>1, <3>1, FrameComplete
    <3> QED BY <2>3, <3>1, <3>2
  <2>6. ~Read /\ ~KeepTail /\ ~AwaitEnd /\ ~Terminated
    BY <1>1 DEF Read, KeepTail, AwaitEnd, Terminated, Yield, Fail
  <2> QED BY <1>1, <2>4, <2>5, <2>6 DEF Next, Scan
<1>2. DecoderInv /\ [Next]_vars =>
        [push = "scanning" =>
            push' # "scanning" \/ (Len(buffer') \in Nat /\ Len(buffer') < Len(buffer))]_vars
  BY <1>1
<1> QED BY <1>2, InitDecoder, NextDecoder, PTL DEF Spec, Safety, TurnsShorten
================================================================================
