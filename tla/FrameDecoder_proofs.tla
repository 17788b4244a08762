-------------------------- MODULE FrameDecoder_proofs -------------------------
(***************************************************************************)
(* Proofs about FrameDecoder, for every stream, every way of cutting it    *)
(* into reads, and every checksum.                                         *)
(***************************************************************************)
EXTENDS FrameDecoder, NaturalOrder, SequenceTheorems

LEMMA Bounds ==
    /\ Bytes \subseteq Nat /\ MaxPayload \in Nat /\ MaxChunk \in Nat /\ MaxBuffer \in Nat
    /\ SYNC0 # SYNC1
    /\ MaxFrame \in Nat /\ MaxFrame >= 5 /\ MaxFrame = 5 + MaxPayload
    /\ MaxChunk + MaxFrame - 1 <= MaxBuffer
  BY BytesAssumption, BufferAssumption
     DEF BytesAssumption, BufferAssumption, MaxFrame, HeaderLen, CrcLen

\* The slice of a sequence between two offsets.
LEMMA Slice ==
    ASSUME NEW S, NEW s \in Seq(S), NEW c \in 0 .. Len(s), NEW n \in c .. Len(s)
    PROVE  /\ SubSeq(s, c + 1, n) \in Seq(S)
           /\ Len(SubSeq(s, c + 1, n)) = n - c
           /\ \A j \in 1 .. n - c : SubSeq(s, c + 1, n)[j] = s[c + j]
  <1>1. Len(s) \in Nat /\ c + 1 \in Int /\ n \in Int /\ n - (c + 1) + 1 = n - c
        /\ (IF c + 1 <= n THEN n - (c + 1) + 1 ELSE 0) = n - c
    BY LenProperties
  <1>2. \A j \in (c + 1) .. n : s[j] \in S
    BY <1>1, ElementOfSeq
  <1>3. /\ SubSeq(s, c + 1, n) \in Seq(S)
        /\ Len(SubSeq(s, c + 1, n)) = IF c + 1 <= n THEN n - (c + 1) + 1 ELSE 0
        /\ \A j \in 1 .. n - (c + 1) + 1 : SubSeq(s, c + 1, n)[j] = s[c + 1 + j - 1]
    BY <1>1, <1>2, SubSeqProperties
  <1>4. \A j \in 1 .. n - c : c + 1 + j - 1 = c + j
    BY <1>1
  <1>. QED
    BY <1>1, <1>3, <1>4

(***************************************************************************)
(* What a set holds of i when it holds all above i, it holds all of:       *)
(* induction from the end of the bytes, where the loop ends, to the start. *)
(***************************************************************************)
LEMMA FromTheEnd ==
    ASSUME NEW n \in Nat, NEW S \in SUBSET (0 .. n),
           \A i \in 0 .. n : (\A j \in 0 .. n : i < j => j \in S) => i \in S
    PROVE  \A i \in 0 .. n : i \in S
  <1>. SUFFICES ASSUME NEW e \in 0 .. n, e \notin S PROVE FALSE
    OBVIOUS
  <1>. DEFINE T == {d \in 0 .. n : n - d \notin S}
  <1>1. n - e \in T /\ T \in SUBSET Nat
    OBVIOUS
  <1>2. PICK d \in T : \A c \in T : d <= c
    BY <1>1, LeastNatural
  <1>3. ASSUME NEW j \in 0 .. n, n - d < j PROVE j \in S
    <2>1. n - j \in 0 .. n /\ n - j < d /\ n - (n - j) = j
      BY <1>2, <1>3
    <2>. QED
      BY <1>2, <2>1
  <1>4. n - d \in 0 .. n
    BY <1>2
  <1>. QED
    BY <1>2, <1>3, <1>4

(***************************************************************************)
(* One pass of the loop.                                                   *)
(***************************************************************************)
Frame  == [at : Nat, len : Nat]
Result == [keep : Nat, ends : BOOLEAN, frames : Seq(Frame), crcErrors : Nat, resyncs : Nat]

\* A pass looks at the first sync pair, if there is one.
LEMMA FirstPair ==
    ASSUME NEW s \in Seq(Bytes), NEW i \in Nat
    PROVE  \/ SyncPairs(s, i) = {} /\ Pass(s, i) = NoSync(s, i)
           \/ \E k \in SyncPairs(s, i) :
                 (\A j \in SyncPairs(s, i) : k <= j) /\ Pass(s, i) = AtSync(s, k)
  <1>1. CASE SyncPairs(s, i) = {}
    BY <1>1 DEF Pass
  <1>2. CASE SyncPairs(s, i) # {}
    <2>. DEFINE K    == SyncPairs(s, i)
                P(k) == \A j \in K : k <= j
    <2>1. K \in SUBSET Nat
      BY LenProperties DEF SyncPairs
    <2>2. \E k \in K : P(k)
      BY <1>2, <2>1, LeastNatural
    <2>3. Min(K) = CHOOSE k \in K : P(k)
      BY Zenon DEF Min
    <2>4. Pass(s, i) = AtSync(s, Min(K))
      BY <1>2, Zenon DEF Pass
    <2>. HIDE DEF K, P
    <2>5. Min(K) \in K /\ P(Min(K))
      BY <2>2, <2>3, Zenon
    <2>. QED
      BY <2>4, <2>5, Zenon DEF K, P
  <1>. QED
    BY <1>1, <1>2

\* What a pass may do at a sync pair.
LEMMA AtSyncCases ==
    ASSUME NEW s \in Seq(Bytes), NEW k \in Nat, k + 2 <= Len(s)
    PROVE  \/ /\ AtSync(s, k) = Waits(k)
              /\ \/ Len(s) - k < HeaderLen
                 \/ (Plausible(s[k + 3], s[k + 4]) /\ Len(s) - k < HeaderLen + s[k + 4] + CrcLen)
           \/ /\ AtSync(s, k) = GoesOn(k + 2, <<>>, 0, 1)
              /\ Len(s) - k >= HeaderLen /\ ~Plausible(s[k + 3], s[k + 4])
           \/ \E total \in Nat :
                /\ total = HeaderLen + s[k + 4] + CrcLen
                /\ Len(s) - k >= HeaderLen /\ Len(s) - k >= total
                /\ Plausible(s[k + 3], s[k + 4])
                /\ \/ /\ AtSync(s, k) = GoesOn(k + total, <<[at |-> k, len |-> total]>>, 0, 0)
                      /\ Crc(SubSeq(s, k + 3, k + total - 1)) = s[k + total]
                   \/ /\ AtSync(s, k) = GoesOn(k + 2, <<>>, 1, 0)
                      /\ Crc(SubSeq(s, k + 3, k + total - 1)) # s[k + total]
  <1>. DEFINE len   == s[k + 4]
              total == HeaderLen + len + CrcLen
  <1>1. Len(s) \in Nat
    BY LenProperties
  <1>2. CASE Len(s) - k < HeaderLen
    <2>1. AtSync(s, k) = Waits(k)
      BY <1>2, Zenon DEF AtSync
    <2>2. /\ AtSync(s, k) = Waits(k)
          /\ \/ Len(s) - k < HeaderLen
             \/ (Plausible(s[k + 3], s[k + 4]) /\ Len(s) - k < HeaderLen + s[k + 4] + CrcLen)
      BY <1>2, <2>1, Zenon
    <2>. QED
      BY <2>2, Zenon
  <1>3. CASE ~(Len(s) - k < HeaderLen)
    <2>1. len \in Nat
      <3>1. k + 4 \in 1 .. Len(s)
        BY <1>1, <1>3 DEF HeaderLen
      <3>. QED
        BY <3>1, ElementOfSeq, Bounds
    <2>. HIDE DEF len
    <2>2. total \in Nat /\ k + HeaderLen + len = k + total - 1
      BY <2>1 DEF HeaderLen, CrcLen
    <2>3. AtSync(s, k) = IF ~Plausible(s[k + 3], len) THEN GoesOn(k + 2, <<>>, 0, 1)
                         ELSE IF Len(s) - k < total THEN Waits(k)
                         ELSE IF Crc(SubSeq(s, k + 3, k + total - 1)) = s[k + total]
                         THEN GoesOn(k + total, <<[at |-> k, len |-> total]>>, 0, 0)
                         ELSE GoesOn(k + 2, <<>>, 1, 0)
      BY <1>3, <2>2 DEF AtSync, AfterBadCrc, len
    <2>. HIDE DEF total
    <2>. DEFINE good == Crc(SubSeq(s, k + 3, k + total - 1)) = s[k + total]
    <2>4. CASE Plausible(s[k + 3], len) /\ ~(Len(s) - k < total) /\ good
      <3>1. Len(s) - k >= HeaderLen /\ Len(s) - k >= total
        BY <1>1, <1>3, <2>2, <2>4 DEF HeaderLen
      <3>2. total = HeaderLen + s[k + 4] + CrcLen /\ Plausible(s[k + 3], s[k + 4])
        BY <2>4 DEF total, len
      <3>3. AtSync(s, k) = GoesOn(k + total, <<[at |-> k, len |-> total]>>, 0, 0)
        BY <2>3, <2>4, Zenon
      <3>. QED
        BY <2>2, <2>4, <3>1, <3>2, <3>3, Zenon
    <2>5. CASE Plausible(s[k + 3], len) /\ ~(Len(s) - k < total) /\ ~good
      <3>1. Len(s) - k >= HeaderLen /\ Len(s) - k >= total
        BY <1>1, <1>3, <2>2, <2>5 DEF HeaderLen
      <3>2. total = HeaderLen + s[k + 4] + CrcLen /\ Plausible(s[k + 3], s[k + 4])
        BY <2>5 DEF total, len
      <3>3. AtSync(s, k) = GoesOn(k + 2, <<>>, 1, 0)
        BY <2>3, <2>5, Zenon
      <3>. QED
        BY <2>2, <2>5, <3>1, <3>2, <3>3, Zenon
    <2>6. CASE Plausible(s[k + 3], len) /\ Len(s) - k < total
      BY <2>3, <2>6 DEF total, len
    <2>7. CASE ~Plausible(s[k + 3], len)
      BY <1>1, <1>3, <2>3, <2>7 DEF len, HeaderLen
    <2>. QED
      BY <2>4, <2>5, <2>6, <2>7
  <1>. QED
    BY <1>2, <1>3

\* A pass goes on behind what it dropped, or leaves less than a frame.
LEMMA PassEffect ==
    ASSUME NEW s \in Seq(Bytes), NEW i \in 0 .. Len(s)
    PROVE  /\ Pass(s, i) \in Result /\ Pass(s, i).keep \in i .. Len(s)
           /\ ~Pass(s, i).ends => i < Pass(s, i).keep
           /\ Pass(s, i).ends =>
                /\ Pass(s, i) = Waits(Pass(s, i).keep)
                /\ Len(s) - Pass(s, i).keep < MaxFrame
  <1>1. Len(s) \in Nat /\ i \in Nat
    BY LenProperties
  <1>2. \A k \in Nat : Waits(k) \in Result
    BY EmptySeq DEF Waits, Result
  <1>3. \A k \in Nat, b, c \in Nat : GoesOn(k, <<>>, b, c) \in Result
    BY EmptySeq DEF GoesOn, Result
  <1>4. \A k, l, t \in Nat : GoesOn(k, <<[at |-> l, len |-> t]>>, 0, 0) \in Result
    BY DEF GoesOn, Result, Frame
  <1>5. CASE SyncPairs(s, i) = {} /\ Pass(s, i) = NoSync(s, i)
    <2>1. PICK k \in i .. Len(s) : Pass(s, i) = Waits(k) /\ Len(s) - k <= 1
      BY <1>1, <1>5 DEF NoSync
    <2>. QED
      BY <1>1, <1>2, <2>1, Bounds DEF Waits
  <1>6. ASSUME NEW k \in SyncPairs(s, i), Pass(s, i) = AtSync(s, k)
        PROVE  /\ Pass(s, i) \in Result /\ Pass(s, i).keep \in i .. Len(s)
               /\ ~Pass(s, i).ends => i < Pass(s, i).keep
               /\ Pass(s, i).ends =>
                    /\ Pass(s, i) = Waits(Pass(s, i).keep)
                    /\ Len(s) - Pass(s, i).keep < MaxFrame
    <2>1. k \in Nat /\ i <= k /\ k + 2 <= Len(s)
      BY <1>1 DEF SyncPairs
    <2>2. CASE /\ AtSync(s, k) = Waits(k)
               /\ \/ Len(s) - k < HeaderLen
                  \/ (Plausible(s[k + 3], s[k + 4]) /\ Len(s) - k < HeaderLen + s[k + 4] + CrcLen)
      <3>1. Len(s) - k < MaxFrame
        <4>1. CASE Len(s) - k < HeaderLen
          BY <1>1, <2>1, <4>1, Bounds DEF HeaderLen
        <4>2. CASE ~(Len(s) - k < HeaderLen)
          <5>1. k + 4 \in 1 .. Len(s)
            BY <1>1, <2>1, <4>2 DEF HeaderLen
          <5>2. s[k + 4] \in Nat /\ s[k + 4] <= MaxPayload
            BY <2>2, <4>2, <5>1, ElementOfSeq, Bounds DEF Plausible
          <5>. QED
            BY <1>1, <2>1, <2>2, <4>2, <5>2, Bounds DEF HeaderLen, CrcLen
        <4>. QED
          BY <4>1, <4>2
      <3>. QED
        BY <1>1, <1>2, <1>6, <2>1, <2>2, <3>1 DEF Waits
    <2>3. CASE \/ AtSync(s, k) = GoesOn(k + 2, <<>>, 0, 1)
               \/ AtSync(s, k) = GoesOn(k + 2, <<>>, 1, 0)
      <3>1. Pass(s, i) \in Result
        BY <1>3, <1>6, <2>1, <2>3
      <3>. QED
        BY <1>1, <1>6, <2>1, <2>3, <3>1 DEF GoesOn
    <2>4. ASSUME NEW total \in Nat, total >= HeaderLen, Len(s) - k >= total,
                 AtSync(s, k) = GoesOn(k + total, <<[at |-> k, len |-> total]>>, 0, 0)
          PROVE  /\ Pass(s, i) \in Result /\ Pass(s, i).keep \in i .. Len(s)
                 /\ i < Pass(s, i).keep /\ ~Pass(s, i).ends
      <3>1. Pass(s, i) \in Result
        BY <1>4, <1>6, <2>1, <2>4
      <3>. QED
        BY <1>1, <1>6, <2>1, <2>4, <3>1 DEF GoesOn, HeaderLen
    <2>5. ASSUME NEW total \in Nat, total = HeaderLen + s[k + 4] + CrcLen,
                 Len(s) - k >= HeaderLen
          PROVE  total >= HeaderLen
      <3>1. k + 4 \in 1 .. Len(s)
        BY <1>1, <2>1, <2>5 DEF HeaderLen
      <3>2. s[k + 4] \in Nat
        BY <3>1, ElementOfSeq, Bounds
      <3>. QED
        BY <2>5, <3>2 DEF HeaderLen, CrcLen
    <2>. QED
      BY <2>1, <2>2, <2>3, <2>4, <2>5, AtSyncCases
  <1>. QED
    BY <1>1, <1>5, <1>6, FirstPair

(***************************************************************************)
(* The loop.                                                               *)
(***************************************************************************)

\* The recursive definition of the loop has a solution: each pass that goes on
\* leaves fewer bytes.
LEMMA LoopEquation ==
    ASSUME NEW s \in Seq(Bytes)
    PROVE  ScanFrom(s) = [i \in 0 .. Len(s) |->
              IF Pass(s, i).ends THEN Pass(s, i)
              ELSE Then(Pass(s, i), ScanFrom(s)[Pass(s, i).keep])]
  <1>. DEFINE Loop(h, i) == IF Pass(s, i).ends THEN Pass(s, i)
                            ELSE Then(Pass(s, i), h[Pass(s, i).keep])
              n    == Len(s)
              P(h) == h = [i \in 0 .. n |-> Loop(h, i)]
              From(i) == \E h : h = [j \in i .. n |-> Loop(h, j)]
              S    == {i \in 0 .. n : From(i)}
  <1>1. n \in Nat
    BY LenProperties
  <1>2. ASSUME NEW i \in 0 .. n, \A j \in 0 .. n : i < j => From(j) PROVE From(i)
    <2>1. PICK f : f = [j \in (i + 1) .. n |-> Loop(f, j)]
      <3>1. CASE i = n
        <4>. DEFINE g == [j \in (i + 1) .. n |-> Loop(<<>>, j)]
        <4>1. g = [j \in (i + 1) .. n |-> Loop(g, j)]
          <5>1. (i + 1) .. n = {}
            BY <1>1, <3>1
          <5>. QED
            BY <5>1
        <4>. QED
          BY <4>1
      <3>2. CASE i # n
        <4>1. i + 1 \in 0 .. n /\ i < i + 1
          BY <1>1, <3>2
        <4>. QED
          BY <1>2, <4>1
      <3>. QED
        BY <3>1, <3>2
    <2>. DEFINE g == [j \in i .. n |-> IF j = i THEN Loop(f, i) ELSE f[j]]
    <2>2. ASSUME NEW j \in i .. n PROVE g[j] = Loop(g, j)
      <3>1. j \in 0 .. n /\ Pass(s, j).keep \in j .. n
            /\ (~Pass(s, j).ends => j < Pass(s, j).keep)
        BY <1>1, PassEffect
      <3>2. ~Pass(s, j).ends => g[Pass(s, j).keep] = f[Pass(s, j).keep]
        BY <1>1, <3>1
      <3>3. Loop(g, j) = Loop(f, j)
        BY <3>2
      <3>4. j # i => f[j] = Loop(f, j)
        <4>1. j # i => j \in (i + 1) .. n
          BY <1>1
        <4>. HIDE DEF Loop
        <4>. QED
          BY <2>1, <4>1
      <3>. QED
        BY <3>3, <3>4
    <2>3. g = [j \in i .. n |-> Loop(g, j)]
      <3>. HIDE DEF Loop
      <3>. QED
        BY <2>2
    <2>. QED
      BY <2>3
  <1>3. 0 \in S
    <2>. HIDE DEF From
    <2>1. S \in SUBSET (0 .. n)
      OBVIOUS
    <2>2. \A i \in 0 .. n : (\A j \in 0 .. n : i < j => j \in S) => i \in S
      BY <1>2
    <2>. HIDE DEF S
    <2>3. \A i \in 0 .. n : i \in S
      BY <1>1, <2>1, <2>2, FromTheEnd
    <2>. QED
      BY <1>1, <2>3
  <1>4. PICK f : P(f)
    BY <1>3
  <1>5. ScanFrom(s) = CHOOSE h : P(h)
    BY Zenon DEF ScanFrom
  <1>. HIDE DEF P
  <1>6. P(ScanFrom(s))
    BY <1>4, <1>5, Zenon
  <1>. QED
    BY <1>6 DEF P

LEMMA ThenAssociative ==
    ASSUME NEW p \in Result, NEW q \in Result, NEW r \in Result
    PROVE  Then(p, Then(q, r)) = Then(Then(p, q), r)
  <1>1. p.frames \in Seq(Frame) /\ q.frames \in Seq(Frame) /\ r.frames \in Seq(Frame)
    BY DEF Result
  <1>2. (p.frames \o q.frames) \o r.frames = p.frames \o (q.frames \o r.frames)
    <2>1. \A a, b, c \in Seq(Frame) : (a \o b) \o c = a \o (b \o c)
      BY ConcatAssociative
    <2>. QED
      BY <1>1, <2>1, Zenon
  <1>3. /\ p.crcErrors \in Nat /\ q.crcErrors \in Nat /\ r.crcErrors \in Nat
        /\ p.resyncs \in Nat /\ q.resyncs \in Nat /\ r.resyncs \in Nat
    BY DEF Result
  <1>4. /\ p.crcErrors + (q.crcErrors + r.crcErrors) = (p.crcErrors + q.crcErrors) + r.crcErrors
        /\ p.resyncs + (q.resyncs + r.resyncs) = (p.resyncs + q.resyncs) + r.resyncs
    BY <1>3
  <1>. QED
    BY <1>2, <1>4, Zenon DEF Then

\* From every offset the loop ends, with less than a frame left.
LEMMA LoopResult ==
    ASSUME NEW s \in Seq(Bytes), NEW i \in 0 .. Len(s)
    PROVE  /\ ScanFrom(s)[i] \in Result /\ ScanFrom(s)[i].ends
           /\ ScanFrom(s)[i].keep \in i .. Len(s)
           /\ Len(s) - ScanFrom(s)[i].keep < MaxFrame
  <1>. DEFINE n    == Len(s)
              R(j) == /\ ScanFrom(s)[j] \in Result /\ ScanFrom(s)[j].ends
                      /\ ScanFrom(s)[j].keep \in j .. n
                      /\ n - ScanFrom(s)[j].keep < MaxFrame
              S    == {j \in 0 .. n : R(j)}
  <1>1. n \in Nat
    BY LenProperties
  <1>2. ASSUME NEW j \in 0 .. n, \A k \in 0 .. n : j < k => k \in S PROVE j \in S
    <2>. DEFINE p == Pass(s, j)
                r == ScanFrom(s)[p.keep]
    <2>1. ScanFrom(s)[j] = IF p.ends THEN p ELSE Then(p, r)
      BY LoopEquation
    <2>2. /\ p \in Result /\ p.keep \in j .. n
          /\ ~p.ends => j < p.keep
          /\ p.ends => n - p.keep < MaxFrame
      BY PassEffect
    <2>3. CASE p.ends
      BY <2>1, <2>2, <2>3
    <2>4. CASE ~p.ends
      <3>1. p.keep \in 0 .. n /\ j < p.keep
        BY <1>1, <2>2, <2>4
      <3>2. R(p.keep)
        BY <1>2, <3>1
      <3>. HIDE DEF p, r
      <3>3. p.frames \o r.frames \in Seq(Frame) /\ p.crcErrors + r.crcErrors \in Nat
            /\ p.resyncs + r.resyncs \in Nat
        BY <2>2, <3>2, ConcatProperties, SMTT(30) DEF Result, r
      <3>4. Then(p, r) \in Result /\ Then(p, r).ends = r.ends /\ Then(p, r).keep = r.keep
        BY <3>2, <3>3 DEF Then, Result, r
      <3>5. ScanFrom(s)[j] = Then(p, r)
        BY <2>1, <2>4
      <3>6. r.ends /\ r.keep \in p.keep .. n /\ n - r.keep < MaxFrame
        BY <3>2 DEF r
      <3>7. r.keep \in j .. n
        BY <1>1, <3>1, <3>6
      <3>. HIDE DEF r
      <3>. QED
        BY <3>4, <3>5, <3>6, <3>7
    <2>. QED
      BY <2>3, <2>4
  <1>. HIDE DEF R
  <1>3. \A j \in 0 .. n : j \in S
    BY <1>1, <1>2, FromTheEnd
  <1>. QED
    BY <1>3 DEF R

(***************************************************************************)
(* More bytes at the end.  A pass that went on does the same on them, and  *)
(* one that returned is taken up where it stopped.                         *)
(***************************************************************************)
Begins(s, u) == Len(s) <= Len(u) /\ \A j \in 1 .. Len(s) : u[j] = s[j]

LEMMA FirstPairIs ==
    ASSUME NEW s \in Seq(Bytes), NEW i \in Nat, NEW k \in SyncPairs(s, i),
           \A j \in SyncPairs(s, i) : k <= j
    PROVE  Pass(s, i) = AtSync(s, k)
  <1>1. SyncPairs(s, i) \subseteq Nat
    BY LenProperties DEF SyncPairs
  <1>2. PICK l \in SyncPairs(s, i) :
              (\A j \in SyncPairs(s, i) : l <= j) /\ Pass(s, i) = AtSync(s, l)
    BY FirstPair
  <1>3. k \in Nat /\ l \in Nat /\ k <= l /\ l <= k
    BY <1>1, <1>2
  <1>. QED
    BY <1>2, <1>3

LEMMA SamePairs ==
    ASSUME NEW s \in Seq(Bytes), NEW u \in Seq(Bytes), Begins(s, u),
           NEW i \in Nat, NEW k \in Nat, i <= k, k + 2 <= Len(s)
    PROVE  k \in SyncPairs(s, i) <=> k \in SyncPairs(u, i)
  <1>1. Len(s) \in Nat /\ Len(u) \in Nat /\ Len(s) <= Len(u)
    BY LenProperties DEF Begins
  <1>2. u[k + 1] = s[k + 1] /\ u[k + 2] = s[k + 2]
    BY <1>1 DEF Begins
  <1>. QED
    BY <1>1, <1>2 DEF SyncPairs

\* The bytes s inside the bytes u, c further on, and what is found there.
Inside(s, u, c) == c + Len(s) <= Len(u) /\ \A j \in 1 .. Len(s) : u[c + j] = s[j]
Moved(r, c) ==
    [keep |-> c + r.keep, ends |-> r.ends, frames |-> Shift(r.frames, c),
     crcErrors |-> r.crcErrors, resyncs |-> r.resyncs]

LEMMA MovedWaits ==
    ASSUME NEW k \in Nat, NEW c \in Nat
    PROVE  Moved(Waits(k), c) = Waits(c + k)
  <1>1. Shift(<<>>, c) = <<>>
    BY DEF Shift
  <1>. QED
    BY <1>1 DEF Moved, Waits

LEMMA MovedOn ==
    ASSUME NEW k \in Nat, NEW c \in Nat, NEW m, NEW n
    PROVE  Moved(GoesOn(k, <<>>, m, n), c) = GoesOn(c + k, <<>>, m, n)
  <1>1. Shift(<<>>, c) = <<>>
    BY DEF Shift
  <1>. QED
    BY <1>1 DEF Moved, GoesOn

LEMMA MovedFrame ==
    ASSUME NEW k \in Nat, NEW c \in Nat, NEW l \in Nat, NEW d \in Nat
    PROVE  Moved(GoesOn(k, <<[at |-> l, len |-> d]>>, 0, 0), c)
             = GoesOn(c + k, <<[at |-> c + l, len |-> d]>>, 0, 0)
  <1>1. Shift(<<[at |-> l, len |-> d]>>, c) = <<[at |-> c + l, len |-> d]>>
    BY DEF Shift
  <1>. QED
    BY <1>1 DEF Moved, GoesOn

LEMMA NotMoved ==
    ASSUME NEW r \in Result PROVE Moved(r, 0) = r
  <1>1. r.frames \in Seq(Frame) /\ r.keep \in Nat
    BY DEF Result
  <1>2. Shift(r.frames, 0) = r.frames
    <2>1. \A f \in Frame : [f EXCEPT !.at = @ + 0] = f
      BY DEF Frame
    <2>2. \A j \in DOMAIN r.frames : r.frames[j] \in Frame
      BY <1>1, LenProperties, ElementOfSeq
    <2>3. r.frames = [j \in DOMAIN r.frames |-> r.frames[j]]
      BY <1>1, LenProperties
    <2>. QED
      BY <2>1, <2>2, <2>3 DEF Shift
  <1>. QED
    BY <1>1, <1>2 DEF Moved, Result

\* What the pass makes of a header, once its frame is there.
Checked(s, k, total) ==
    IF Crc(SubSeq(s, k + 3, k + total - 1)) = s[k + total]
    THEN GoesOn(k + total, <<[at |-> k, len |-> total]>>, 0, 0)
    ELSE GoesOn(k + 2, <<>>, 1, 0)

LEMMA WholeFrame ==
    ASSUME NEW s \in Seq(Bytes), NEW k \in Nat, NEW total \in Nat, s[k + 4] \in Nat,
           total = HeaderLen + s[k + 4] + CrcLen, ~(Len(s) - k < HeaderLen),
           Plausible(s[k + 3], s[k + 4])
    PROVE  AtSync(s, k) = IF Len(s) - k < total THEN Waits(k) ELSE Checked(s, k, total)
  <1>1. k + HeaderLen + s[k + 4] = k + total - 1
    BY SMTT(30) DEF HeaderLen, CrcLen
  <1>. QED
    BY <1>1, Zenon DEF AtSync, Checked, AfterBadCrc

\* Only the bytes from the sync pair on matter, and while the pass goes on, only
\* those of its frame.
LEMMA SameAtSync ==
    ASSUME NEW s \in Seq(Bytes), NEW u \in Seq(Bytes), NEW c \in Nat, Inside(s, u, c),
           NEW k \in Nat, k + 2 <= Len(s),
           ~AtSync(s, k).ends \/ c + Len(s) = Len(u)
    PROVE  AtSync(u, c + k) = Moved(AtSync(s, k), c)
  <1>. PICK h \in Nat : h = c + k
    OBVIOUS
  <1>1. /\ Len(s) \in Nat /\ Len(u) \in Nat /\ h + 2 <= Len(u)
        /\ Len(s) - k <= Len(u) - h
        /\ (c + Len(s) = Len(u)) => (Len(s) - k = Len(u) - h)
    <2>1. Len(s) \in Nat /\ Len(u) \in Nat /\ c + Len(s) <= Len(u)
      BY LenProperties DEF Inside
    <2>. QED
      BY <2>1
  <1>2. \A j \in Nat : 1 <= j /\ j <= Len(s) - k => u[h + j] = s[k + j]
    <2>. SUFFICES ASSUME NEW j \in Nat, 1 <= j, j <= Len(s) - k PROVE u[h + j] = s[k + j]
      OBVIOUS
    <2>1. k + j \in 1 .. Len(s) /\ c + (k + j) = h + j
      BY <1>1
    <2>2. u[c + (k + j)] = s[k + j]
      BY <2>1 DEF Inside
    <2>. QED
      BY <2>1, <2>2
  <1>3. \/ Len(s) - k < HeaderLen
        \/ /\ Len(s) - k >= HeaderLen /\ ~(Len(s) - k < HeaderLen)
           /\ Len(u) - h >= HeaderLen /\ ~(Len(u) - h < HeaderLen)
           /\ u[h + 3] = s[k + 3] /\ u[h + 4] = s[k + 4] /\ s[k + 4] \in Nat
    <2>1. CASE ~(Len(s) - k < HeaderLen)
      <3>1. k + 4 \in 1 .. Len(s) /\ 3 <= Len(s) - k /\ 4 <= Len(s) - k
        BY <1>1, <2>1 DEF HeaderLen
      <3>2. s[k + 4] \in Nat
        BY <3>1, ElementOfSeq, Bounds
      <3>. QED
        BY <1>1, <1>2, <2>1, <3>1, <3>2 DEF HeaderLen
    <2>. QED
      BY <2>1
  <1>4. CASE Len(s) - k < HeaderLen
    <2>1. AtSync(s, k) = Waits(k)
      BY <1>4, Zenon DEF AtSync
    <2>2. c + Len(s) = Len(u)
      BY <2>1 DEF Waits
    <2>3. Len(u) - h < HeaderLen
      BY <1>1, <1>4, <2>2
    <2>4. AtSync(u, h) = Waits(h)
      BY <2>3, Zenon DEF AtSync
    <2>. QED
      BY <2>1, <2>4, MovedWaits
  <1>5. CASE ~(Len(s) - k < HeaderLen) /\ ~Plausible(s[k + 3], s[k + 4])
    <2>1. AtSync(s, k) = GoesOn(k + 2, <<>>, 0, 1)
      BY <1>3, <1>5, AtSyncCases
    <2>2. AtSync(u, h) = GoesOn(h + 2, <<>>, 0, 1)
      BY <1>1, <1>3, <1>5, AtSyncCases
    <2>3. PICK l \in Nat : l = k + 2 /\ c + l = h + 2
      OBVIOUS
    <2>. QED
      <3>1. Moved(GoesOn(l, <<>>, 0, 1), c) = GoesOn(c + l, <<>>, 0, 1)
        BY MovedOn
      <3>. QED
        BY <2>1, <2>2, <2>3, <3>1
  <1>6. CASE ~(Len(s) - k < HeaderLen) /\ Plausible(s[k + 3], s[k + 4])
    <2>. DEFINE total == HeaderLen + s[k + 4] + CrcLen
    <2>0. /\ total = HeaderLen + u[h + 4] + CrcLen
          /\ Plausible(u[h + 3], u[h + 4]) /\ u[h + 4] \in Nat /\ s[k + 4] \in Nat
      BY <1>3, <1>6
    <2>1. total \in Nat /\ total >= 5
      BY <2>0, SMTT(30) DEF HeaderLen, CrcLen
    <2>2. AtSync(s, k) = IF Len(s) - k < total THEN Waits(k) ELSE Checked(s, k, total)
      BY <1>6, <2>0, <2>1, WholeFrame
    <2>3. AtSync(u, h) = IF Len(u) - h < total THEN Waits(h) ELSE Checked(u, h, total)
      BY <1>3, <1>6, <2>0, <2>1, WholeFrame
    <2>. HIDE DEF total
    <2>4. CASE Len(s) - k < total
      <3>1. AtSync(s, k) = Waits(k)
        BY <2>2, <2>4, Zenon
      <3>2. c + Len(s) = Len(u)
        BY <3>1 DEF Waits
      <3>3. AtSync(u, h) = Waits(h)
        BY <1>1, <2>1, <2>3, <2>4, <3>2
      <3>. QED
        BY <3>1, <3>3, MovedWaits
    <2>5. CASE ~(Len(s) - k < total)
      <3>1. AtSync(s, k) = Checked(s, k, total) /\ AtSync(u, h) = Checked(u, h, total)
        BY <1>1, <2>1, <2>2, <2>3, <2>5
      <3>2. u[h + total] = s[k + total]
        <4>1. 1 <= total /\ total <= Len(s) - k
          BY <1>1, <2>1, <2>5
        <4>. QED
          BY <1>2, <2>1, <4>1, Zenon
      <3>3. SubSeq(u, h + 3, h + total - 1) = SubSeq(s, k + 3, k + total - 1)
        <4>1. PICK b \in Nat, e \in Nat, d \in Nat, f \in Nat :
                   /\ b = k + 2 /\ b + 1 = k + 3 /\ e = k + total - 1 /\ e - b = total - 3
                   /\ b \in 0 .. Len(s) /\ e \in b .. Len(s)
                   /\ d = h + 2 /\ d + 1 = h + 3 /\ f = h + total - 1 /\ f - d = total - 3
                   /\ d \in 0 .. Len(u) /\ f \in d .. Len(u)
          <5>1. k + 2 \in Nat /\ k + total - 1 \in Nat /\ h + 2 \in Nat /\ h + total - 1 \in Nat
            BY <2>1
          <5>. QED
            BY <1>1, <2>1, <2>5, <5>1
        <4>. DEFINE x == SubSeq(s, k + 3, k + total - 1)
                    y == SubSeq(u, h + 3, h + total - 1)
        <4>2. x \in Seq(Bytes) /\ Len(x) = total - 3 /\ \A j \in 1 .. total - 3 : x[j] = s[b + j]
          BY <4>1, Slice
        <4>3. y \in Seq(Bytes) /\ Len(y) = total - 3 /\ \A j \in 1 .. total - 3 : y[j] = u[d + j]
          BY <4>1, Slice
        <4>. HIDE DEF x, y
        <4>4. \A j \in 1 .. Len(y) : y[j] = x[j]
          <5>. SUFFICES ASSUME NEW j \in 1 .. total - 3 PROVE y[j] = x[j]
            BY <4>3
          <5>1. 2 + j \in Nat /\ 1 <= 2 + j /\ 2 + j <= Len(s) - k
                /\ h + (2 + j) = d + j /\ k + (2 + j) = b + j
            BY <1>1, <2>1, <2>5, <4>1
          <5>2. u[h + (2 + j)] = s[k + (2 + j)]
            BY <1>2, <5>1
          <5>. QED
            BY <4>2, <4>3, <5>1, <5>2
        <4>5. y = x
          BY <4>2, <4>3, <4>4, SeqEqual
        <4>. QED
          BY <4>5 DEF x, y
      <3>4. CASE Crc(SubSeq(s, k + 3, k + total - 1)) = s[k + total]
        <4>1. AtSync(s, k) = GoesOn(k + total, <<[at |-> k, len |-> total]>>, 0, 0)
          BY <3>1, <3>4, Zenon DEF Checked
        <4>2. AtSync(u, h) = GoesOn(h + total, <<[at |-> h, len |-> total]>>, 0, 0)
          BY <3>1, <3>2, <3>3, <3>4, Zenon DEF Checked
        <4>3. PICK l \in Nat : l = k + total /\ c + l = h + total
          BY <2>1
        <4>4. Moved(GoesOn(l, <<[at |-> k, len |-> total]>>, 0, 0), c)
                = GoesOn(c + l, <<[at |-> c + k, len |-> total]>>, 0, 0)
          BY <2>1, MovedFrame
        <4>. QED
          BY <4>1, <4>2, <4>3, <4>4
      <3>5. CASE Crc(SubSeq(s, k + 3, k + total - 1)) # s[k + total]
        <4>1. AtSync(s, k) = GoesOn(k + 2, <<>>, 1, 0)
          BY <3>1, <3>5, Zenon DEF Checked
        <4>2. AtSync(u, h) = GoesOn(h + 2, <<>>, 1, 0)
          BY <3>1, <3>2, <3>3, <3>5, Zenon DEF Checked
        <4>3. PICK l \in Nat : l = k + 2 /\ c + l = h + 2
          OBVIOUS
        <4>4. Moved(GoesOn(l, <<>>, 1, 0), c) = GoesOn(c + l, <<>>, 1, 0)
          BY MovedOn
        <4>. QED
          BY <4>1, <4>2, <4>3, <4>4
      <3>. QED
        BY <3>4, <3>5
    <2>. QED
      BY <1>1, <2>1, <2>4, <2>5
  <1>. QED
    BY <1>4, <1>5, <1>6

LEMMA PassOnMore ==
    ASSUME NEW s \in Seq(Bytes), NEW u \in Seq(Bytes), Begins(s, u), NEW i \in 0 .. Len(s)
    PROVE  /\ ~Pass(s, i).ends => Pass(u, i) = Pass(s, i)
           /\ Pass(s, i).ends => Pass(u, i) = Pass(u, Pass(s, i).keep)
  <1>1. Len(s) \in Nat /\ Len(u) \in Nat /\ Len(s) <= Len(u) /\ i \in Nat
    BY LenProperties DEF Begins
  <1>2. \A v \in Seq(Bytes), j \in Nat : SyncPairs(v, j) = {} => Pass(v, j) = NoSync(v, j)
    BY DEF Pass
  <1>3. CASE SyncPairs(s, i) = {}
    <2>. DEFINE l == Len(s) - 1
    <2>1. CASE Len(s) - i <= 1
      <3>1. NoSync(s, i) = Waits(i)
        BY <1>1, <2>1 DEF NoSync
      <3>. QED
        BY <1>1, <1>2, <1>3, <3>1 DEF Waits
    <2>2. CASE Len(s) - i > 1
      <3>1. NoSync(s, i) = Waits(l) /\ l \in Nat /\ i < l
        BY <1>1, <2>2 DEF NoSync
      <3>2. SyncPairs(u, i) = SyncPairs(u, l)
        <4>1. ASSUME NEW k \in SyncPairs(u, i) PROVE k \in SyncPairs(u, l)
          <5>1. k \in Nat /\ i <= k
            BY <1>1, <4>1 DEF SyncPairs
          <5>2. ~(k + 2 <= Len(s))
            BY <1>1, <1>3, <4>1, <5>1, SamePairs
          <5>. QED
            BY <1>1, <4>1, <5>1, <5>2 DEF SyncPairs
        <4>2. SyncPairs(u, l) \subseteq SyncPairs(u, i)
          BY <1>1, <3>1 DEF SyncPairs
        <4>. QED
          BY <4>1, <4>2
      <3>3. NoSync(u, i) = NoSync(u, l)
        BY <1>1, <2>2, <3>1 DEF NoSync
      <3>4. Pass(u, i) = Pass(u, l)
        BY <3>2, <3>3, Zenon DEF Pass
      <3>. QED
        BY <1>1, <1>2, <1>3, <3>1, <3>4 DEF Waits
    <2>. QED
      BY <1>1, <2>1, <2>2
  <1>4. ASSUME NEW k \in SyncPairs(s, i), \A j \in SyncPairs(s, i) : k <= j,
               Pass(s, i) = AtSync(s, k)
        PROVE  /\ ~Pass(s, i).ends => Pass(u, i) = Pass(s, i)
               /\ Pass(s, i).ends => Pass(u, i) = Pass(u, Pass(s, i).keep)
    <2>1. k \in Nat /\ i <= k /\ k + 2 <= Len(s)
      BY <1>1 DEF SyncPairs
    <2>2. k \in SyncPairs(u, i)
      BY <1>1, <2>1, SamePairs
    <2>3. \A j \in SyncPairs(u, i) : k <= j
      <3>1. ASSUME NEW j \in SyncPairs(u, i), ~(k <= j) PROVE FALSE
        <4>1. j \in Nat /\ i <= j /\ j + 2 <= Len(s)
          BY <1>1, <2>1, <3>1 DEF SyncPairs
        <4>2. j \in SyncPairs(s, i)
          BY <1>1, <4>1, SamePairs
        <4>. QED
          BY <1>4, <3>1, <4>2
      <3>. QED
        BY <3>1
    <2>4. Pass(u, i) = AtSync(u, k)
      BY <1>1, <2>2, <2>3, FirstPairIs
    <2>5. CASE ~AtSync(s, k).ends
      <3>1. Inside(s, u, 0)
        BY DEF Inside, Begins
      <3>2. AtSync(u, 0 + k) = Moved(AtSync(s, k), 0) /\ 0 + k = k
        BY <2>1, <2>5, <3>1, SameAtSync
      <3>3. AtSync(s, k) \in Result
        BY <1>4, PassEffect
      <3>. QED
        BY <1>4, <2>4, <2>5, <3>2, <3>3, NotMoved
    <2>6. CASE AtSync(s, k).ends
      <3>1. AtSync(s, k) = Waits(k)
        BY <2>1, <2>6, AtSyncCases DEF GoesOn
      <3>2. k \in SyncPairs(u, k) /\ \A j \in SyncPairs(u, k) : k <= j
        BY <1>1, <2>1, <2>2 DEF SyncPairs
      <3>3. Pass(u, k) = AtSync(u, k)
        BY <2>1, <3>2, FirstPairIs
      <3>. QED
        BY <1>4, <2>4, <2>6, <3>1, <3>3 DEF Waits
    <2>. QED
      BY <2>5, <2>6
  <1>. QED
    BY <1>1, <1>3, <1>4, FirstPair

\* The loop on more bytes: what it did on the first ones, and then on from there.
LEMMA LoopOnMore ==
    ASSUME NEW s \in Seq(Bytes), NEW u \in Seq(Bytes), Begins(s, u), NEW i \in 0 .. Len(s)
    PROVE  ScanFrom(u)[i] = Then(ScanFrom(s)[i], ScanFrom(u)[ScanFrom(s)[i].keep])
  <1>. DEFINE n    == Len(s)
              F(j) == ScanFrom(s)[j]
              G(j) == ScanFrom(u)[j]
              R(j) == G(j) = Then(F(j), G(F(j).keep))
              S    == {j \in 0 .. n : R(j)}
  <1>1. n \in Nat /\ Len(u) \in Nat /\ n <= Len(u)
    BY LenProperties DEF Begins
  <1>2. \A j \in 0 .. n : /\ F(j) = IF Pass(s, j).ends THEN Pass(s, j)
                                   ELSE Then(Pass(s, j), F(Pass(s, j).keep))
                         /\ F(j) \in Result /\ F(j).keep \in 0 .. n
                         /\ Pass(s, j) \in Result
    BY <1>1, LoopEquation, LoopResult, PassEffect
  <1>3. \A j \in 0 .. Len(u) : /\ G(j) = IF Pass(u, j).ends THEN Pass(u, j)
                                        ELSE Then(Pass(u, j), G(Pass(u, j).keep))
                              /\ G(j) \in Result
    BY LoopEquation, LoopResult
  <1>. HIDE DEF F, G
  <1>4. ASSUME NEW j \in 0 .. n, \A k \in 0 .. n : j < k => k \in S PROVE j \in S
    <2>. DEFINE p == Pass(s, j)
    <2>1. /\ p \in Result /\ p.keep \in j .. n
          /\ ~p.ends => j < p.keep
          /\ p.ends => p = Waits(p.keep)
      BY PassEffect
    <2>2. /\ ~p.ends => Pass(u, j) = p
          /\ p.ends => Pass(u, j) = Pass(u, p.keep)
      BY PassOnMore
    <2>3. p.keep \in 0 .. n /\ p.keep \in 0 .. Len(u) /\ j \in 0 .. Len(u)
      BY <1>1, <2>1
    <2>4. CASE p.ends
      <3>1. F(j) = p
        BY <1>2, <2>4
      <3>2. G(j) = G(p.keep)
        BY <1>3, <2>2, <2>3, <2>4
      <3>3. G(p.keep) \in Result
        BY <1>3, <2>3
      <3>4. <<>> \o G(p.keep).frames = G(p.keep).frames
        BY <3>3, ConcatEmptySeq DEF Result
      <3>5. Then(Waits(p.keep), G(p.keep)) = G(p.keep)
        BY <3>3, <3>4 DEF Then, Waits, Result
      <3>. QED
        BY <2>1, <2>4, <3>1, <3>2, <3>5
    <2>5. CASE ~p.ends
      <3>. DEFINE k == p.keep
                  q == F(k)
                  r == G(q.keep)
      <3>1. F(j) = Then(p, q) /\ G(j) = Then(p, G(k))
        BY <1>2, <1>3, <2>2, <2>3, <2>5
      <3>2. R(k)
        BY <1>4, <2>1, <2>3, <2>5
      <3>3. q \in Result /\ r \in Result /\ q.keep \in 0 .. n
        <4>1. q \in Result /\ q.keep \in 0 .. n
          BY <1>2, <2>3
        <4>2. q.keep \in 0 .. Len(u)
          BY <1>1, <4>1
        <4>. QED
          BY <1>3, <4>1, <4>2
      <3>4. Then(p, q).keep = q.keep
        BY DEF Then
      <3>. HIDE DEF p, q, r
      <3>5. Then(p, Then(q, r)) = Then(Then(p, q), r)
        BY <2>1, <3>3, ThenAssociative
      <3>. QED
        BY <3>1, <3>2, <3>4, <3>5 DEF q, r
    <2>. QED
      BY <2>4, <2>5
  <1>. HIDE DEF R
  <1>5. \A j \in 0 .. n : j \in S
    BY <1>1, <1>4, FromTheEnd
  <1>. QED
    BY <1>5 DEF R, F, G

(***************************************************************************)
(* Fewer bytes at the start: the same frames, further on.                  *)
(***************************************************************************)
Ends(s, u, c) == Inside(s, u, c) /\ c + Len(s) = Len(u)

LEMMA PassOnLess ==
    ASSUME NEW s \in Seq(Bytes), NEW u \in Seq(Bytes), NEW c \in Nat, Ends(s, u, c),
           NEW i \in 0 .. Len(s)
    PROVE  Pass(u, c + i) = Moved(Pass(s, i), c)
  <1>. PICK h \in Nat : h = c + i
    BY LenProperties
  <1>1. Len(s) \in Nat /\ Len(u) \in Nat /\ c + Len(s) = Len(u) /\ i \in Nat
    BY LenProperties DEF Ends
  <1>2. \A k \in Nat : k \in SyncPairs(s, i) <=> c + k \in SyncPairs(u, h)
    <2>. SUFFICES ASSUME NEW k \in Nat
                  PROVE  k \in SyncPairs(s, i) <=> c + k \in SyncPairs(u, h)
      OBVIOUS
    <2>1. k \in i .. (Len(s) - 2) <=> c + k \in h .. (Len(u) - 2)
      BY <1>1
    <2>2. k \in i .. (Len(s) - 2) =>
             u[c + k + 1] = s[k + 1] /\ u[c + k + 2] = s[k + 2]
      <3>. SUFFICES ASSUME k \in i .. (Len(s) - 2)
                    PROVE  u[c + k + 1] = s[k + 1] /\ u[c + k + 2] = s[k + 2]
        OBVIOUS
      <3>1. k + 1 \in 1 .. Len(s) /\ k + 2 \in 1 .. Len(s)
            /\ c + (k + 1) = c + k + 1 /\ c + (k + 2) = c + k + 2
        BY <1>1
      <3>2. u[c + (k + 1)] = s[k + 1] /\ u[c + (k + 2)] = s[k + 2]
        BY <3>1 DEF Ends, Inside
      <3>. QED
        BY <3>1, <3>2
    <2>. QED
      BY <2>1, <2>2 DEF SyncPairs
  <1>3. \A j \in SyncPairs(u, h) : \E k \in SyncPairs(s, i) : j = c + k
    <2>. SUFFICES ASSUME NEW j \in SyncPairs(u, h)
                  PROVE  \E k \in SyncPairs(s, i) : j = c + k
      OBVIOUS
    <2>1. j \in Nat /\ h <= j
      BY <1>1 DEF SyncPairs
    <2>2. j - c \in Nat /\ c + (j - c) = j
      BY <1>1, <2>1
    <2>. QED
      BY <1>2, <2>2
  <1>4. SyncPairs(s, i) \subseteq Nat
    BY <1>1 DEF SyncPairs
  <1>5. CASE SyncPairs(s, i) = {} /\ Pass(s, i) = NoSync(s, i)
    <2>1. SyncPairs(u, h) = {}
      BY <1>3, <1>5
    <2>2. Pass(u, h) = NoSync(u, h)
      BY <2>1, Zenon DEF Pass
    <2>3. PICK k \in Nat : NoSync(s, i) = Waits(k) /\ NoSync(u, h) = Waits(c + k)
      <3>1. CASE Len(s) - i > 1
        <4>1. Len(u) - h > 1 /\ Len(s) - 1 \in Nat /\ c + (Len(s) - 1) = Len(u) - 1
          BY <1>1, <3>1
        <4>2. NoSync(s, i) = Waits(Len(s) - 1) /\ NoSync(u, h) = Waits(Len(u) - 1)
          BY <3>1, <4>1 DEF NoSync
        <4>. QED
          BY <4>1, <4>2
      <3>2. CASE ~(Len(s) - i > 1)
        <4>1. ~(Len(u) - h > 1)
          BY <1>1, <3>2
        <4>2. NoSync(s, i) = Waits(i) /\ NoSync(u, h) = Waits(h)
          BY <3>2, <4>1 DEF NoSync
        <4>. QED
          BY <1>1, <4>2
      <3>. QED
        BY <3>1, <3>2
    <2>. QED
      BY <1>5, <2>2, <2>3, MovedWaits
  <1>6. ASSUME NEW k \in SyncPairs(s, i), \A j \in SyncPairs(s, i) : k <= j,
               Pass(s, i) = AtSync(s, k)
        PROVE  Pass(u, h) = Moved(Pass(s, i), c)
    <2>1. k \in Nat /\ k + 2 <= Len(s)
      BY <1>1 DEF SyncPairs
    <2>2. c + k \in SyncPairs(u, h)
      BY <1>2, <2>1
    <2>3. \A j \in SyncPairs(u, h) : c + k <= j
      BY <1>3, <1>4, <1>6, <2>1
    <2>4. Pass(u, h) = AtSync(u, c + k)
      BY <2>2, <2>3, FirstPairIs
    <2>5. AtSync(u, c + k) = Moved(AtSync(s, k), c)
      BY <1>1, <2>1, SameAtSync DEF Ends
    <2>. QED
      BY <1>6, <2>4, <2>5
  <1>. QED
    BY <1>1, <1>5, <1>6, FirstPair

LEMMA ShiftProperties ==
    ASSUME NEW f \in Seq(Frame), NEW c \in Nat
    PROVE  /\ Shift(f, c) \in Seq(Frame) /\ Len(Shift(f, c)) = Len(f)
           /\ \A j \in 1 .. Len(f) :
                Shift(f, c)[j] = [at |-> f[j].at + c, len |-> f[j].len]
  <1>1. Len(f) \in Nat /\ DOMAIN f = 1 .. Len(f)
    BY LenProperties
  <1>2. \A j \in 1 .. Len(f) : f[j] \in Frame
    BY ElementOfSeq
  <1>3. \A g \in Frame : /\ [g EXCEPT !.at = @ + c] \in Frame
                        /\ [g EXCEPT !.at = @ + c] = [at |-> g.at + c, len |-> g.len]
    BY DEF Frame
  <1>4. Shift(f, c) \in [1 .. Len(f) -> Frame]
    BY <1>1, <1>2, <1>3 DEF Shift
  <1>. QED
    BY <1>1, <1>2, <1>3, <1>4, LenProperties DEF Shift

LEMMA ShiftConcat ==
    ASSUME NEW f \in Seq(Frame), NEW g \in Seq(Frame), NEW c \in Nat
    PROVE  Shift(f \o g, c) = Shift(f, c) \o Shift(g, c)
  <1>. DEFINE h == f \o g
              a == Shift(f, c)
              b == Shift(g, c)
              x == Shift(h, c)
              y == a \o b
  <1>1. Len(f) \in Nat /\ Len(g) \in Nat
    BY LenProperties
  <1>2. /\ h \in Seq(Frame) /\ Len(h) = Len(f) + Len(g)
        /\ \A j \in 1 .. Len(f) + Len(g) : h[j] = IF j <= Len(f) THEN f[j] ELSE g[j - Len(f)]
    BY ConcatProperties
  <1>3. /\ a \in Seq(Frame) /\ Len(a) = Len(f)
        /\ \A j \in 1 .. Len(f) : a[j] = [at |-> f[j].at + c, len |-> f[j].len]
    BY ShiftProperties
  <1>4. /\ b \in Seq(Frame) /\ Len(b) = Len(g)
        /\ \A j \in 1 .. Len(g) : b[j] = [at |-> g[j].at + c, len |-> g[j].len]
    BY ShiftProperties
  <1>. HIDE DEF a, b, h
  <1>5. /\ x \in Seq(Frame) /\ Len(x) = Len(f) + Len(g)
        /\ \A j \in 1 .. Len(f) + Len(g) : x[j] = [at |-> h[j].at + c, len |-> h[j].len]
    <2>1. /\ x \in Seq(Frame) /\ Len(x) = Len(h)
          /\ \A j \in 1 .. Len(h) : x[j] = [at |-> h[j].at + c, len |-> h[j].len]
      BY <1>2, ShiftProperties
    <2>. HIDE DEF x
    <2>. QED
      BY <1>2, <2>1
  <1>6. /\ y \in Seq(Frame) /\ Len(y) = Len(f) + Len(g)
        /\ \A j \in 1 .. Len(f) + Len(g) : y[j] = IF j <= Len(f) THEN a[j] ELSE b[j - Len(f)]
    <2>1. /\ y \in Seq(Frame) /\ Len(y) = Len(a) + Len(b)
          /\ \A j \in 1 .. Len(a) + Len(b) : y[j] = IF j <= Len(a) THEN a[j] ELSE b[j - Len(a)]
      <3>1. a \in Seq(Frame) /\ b \in Seq(Frame)
        BY <1>3, <1>4
      <3>. QED
        BY <3>1, ConcatProperties
    <2>. HIDE DEF y
    <2>. QED
      BY <1>3, <1>4, <2>1
  <1>. HIDE DEF x, y
  <1>7. ASSUME NEW j \in 1 .. Len(x) PROVE x[j] = y[j]
    <2>1. j \in 1 .. Len(f) + Len(g)
      BY <1>5
    <2>2. CASE j <= Len(f)
      <3>1. j \in 1 .. Len(f)
        BY <1>1, <2>1, <2>2
      <3>. QED
        BY <1>2, <1>3, <1>5, <1>6, <2>1, <2>2, <3>1
    <2>3. CASE ~(j <= Len(f))
      <3>1. j - Len(f) \in 1 .. Len(g)
        BY <1>1, <2>1, <2>3
      <3>. QED
        BY <1>2, <1>4, <1>5, <1>6, <2>1, <2>3, <3>1
    <2>. QED
      BY <2>2, <2>3
  <1>8. x = y
    BY <1>5, <1>6, <1>7, SeqEqual
  <1>. QED
    BY <1>8 DEF x, y, a, b, h

LEMMA LoopOnLess ==
    ASSUME NEW s \in Seq(Bytes), NEW u \in Seq(Bytes), NEW c \in Nat, Ends(s, u, c),
           NEW i \in 0 .. Len(s)
    PROVE  ScanFrom(u)[c + i] = Moved(ScanFrom(s)[i], c)
  <1>. DEFINE n    == Len(s)
              F(j) == ScanFrom(s)[j]
              G(j) == ScanFrom(u)[j]
              R(j) == G(c + j) = Moved(F(j), c)
              S    == {j \in 0 .. n : R(j)}
  <1>1. n \in Nat /\ Len(u) \in Nat /\ c + n = Len(u)
    BY LenProperties DEF Ends
  <1>2. \A j \in 0 .. n : /\ F(j) = IF Pass(s, j).ends THEN Pass(s, j)
                                   ELSE Then(Pass(s, j), F(Pass(s, j).keep))
                         /\ F(j) \in Result
    BY <1>1, LoopEquation, LoopResult
  <1>3. \A j \in 0 .. Len(u) : G(j) = IF Pass(u, j).ends THEN Pass(u, j)
                                      ELSE Then(Pass(u, j), G(Pass(u, j).keep))
    BY LoopEquation
  <1>. HIDE DEF F, G
  <1>4. ASSUME NEW j \in 0 .. n, \A k \in 0 .. n : j < k => k \in S PROVE j \in S
    <2>. DEFINE p == Pass(s, j)
    <2>1. p \in Result /\ p.keep \in j .. n /\ (~p.ends => j < p.keep)
      BY PassEffect
    <2>2. Pass(u, c + j) = Moved(p, c)
      BY PassOnLess
    <2>3. c + j \in 0 .. Len(u) /\ p.keep \in 0 .. n
      BY <1>1, <2>1
    <2>. HIDE DEF p
    <2>4. Moved(p, c).ends = p.ends /\ Moved(p, c).keep = c + p.keep
      BY DEF Moved
    <2>5. CASE p.ends
      <3>1. G(c + j) = Pass(u, c + j)
        BY <1>3, <2>2, <2>3, <2>4, <2>5
      <3>2. F(j) = p
        BY <1>2, <2>5 DEF p
      <3>. QED
        BY <2>2, <3>1, <3>2
    <2>6. CASE ~p.ends
      <3>. DEFINE r == F(p.keep)
      <3>1. F(j) = Then(p, r)
        BY <1>2, <2>6 DEF p
      <3>2. G(c + j) = Then(Moved(p, c), G(c + p.keep))
        BY <1>3, <2>2, <2>3, <2>4, <2>6
      <3>3. G(c + p.keep) = Moved(r, c)
        BY <1>4, <2>1, <2>3, <2>6
      <3>4. r \in Result
        BY <1>2, <2>3
      <3>. HIDE DEF r
      <3>5. Shift(p.frames \o r.frames, c) = Shift(p.frames, c) \o Shift(r.frames, c)
        <4>1. p.frames \in Seq(Frame) /\ r.frames \in Seq(Frame)
          BY <2>1, <3>4 DEF Result
        <4>2. \A f, g \in Seq(Frame) : Shift(f \o g, c) = Shift(f, c) \o Shift(g, c)
          BY ShiftConcat
        <4>. QED
          BY <4>1, <4>2, Zenon
      <3>6. Then(Moved(p, c), Moved(r, c)) = Moved(Then(p, r), c)
        BY <3>5 DEF Then, Moved
      <3>. QED
        BY <3>1, <3>2, <3>3, <3>6
    <2>. QED
      BY <2>5, <2>6
  <1>. HIDE DEF R
  <1>5. \A j \in 0 .. n : j \in S
    BY <1>1, <1>4, FromTheEnd
  <1>. QED
    BY <1>5 DEF R, F, G

(***************************************************************************)
(* feed().                                                                 *)
(***************************************************************************)
LEMMA SliceOfSlice ==
    ASSUME NEW S, NEW s \in Seq(S), NEW c \in 0 .. Len(s), NEW n \in c .. Len(s),
           NEW d \in 0 .. (n - c)
    PROVE  SubSeq(SubSeq(s, c + 1, n), d + 1, n - c) = SubSeq(s, c + d + 1, n)
  <1>. DEFINE t == SubSeq(s, c + 1, n)
              x == SubSeq(t, d + 1, n - c)
              y == SubSeq(s, c + d + 1, n)
  <1>1. Len(s) \in Nat /\ n - c \in Nat
    BY LenProperties
  <1>2. t \in Seq(S) /\ Len(t) = n - c /\ \A j \in 1 .. n - c : t[j] = s[c + j]
    BY Slice
  <1>3. PICK e \in Nat : e = c + d
    BY <1>1
  <1>4. e \in 0 .. Len(s) /\ n \in e .. Len(s) /\ n - e = n - c - d
    BY <1>1, <1>3
  <1>5. y \in Seq(S) /\ Len(y) = n - e /\ \A j \in 1 .. n - e : y[j] = s[e + j]
    <2>1. y = SubSeq(s, e + 1, n)
      BY <1>3
    <2>. HIDE DEF y
    <2>. QED
      BY <1>4, <2>1, Slice
  <1>. HIDE DEF t
  <1>6. x \in Seq(S) /\ Len(x) = n - c - d /\ \A j \in 1 .. n - c - d : x[j] = t[d + j]
    <2>1. d \in 0 .. Len(t) /\ n - c \in d .. Len(t)
      BY <1>1, <1>2
    <2>. QED
      BY <1>2, <2>1, Slice
  <1>. HIDE DEF x, y
  <1>7. ASSUME NEW j \in 1 .. Len(x) PROVE x[j] = y[j]
    <2>1. j \in 1 .. n - e /\ j \in 1 .. n - c - d /\ d + j \in 1 .. n - c
          /\ c + (d + j) = e + j
      BY <1>1, <1>3, <1>4, <1>6
    <2>2. x[j] = t[d + j] /\ t[d + j] = s[c + (d + j)] /\ y[j] = s[e + j]
      BY <1>2, <1>5, <1>6, <2>1
    <2>. QED
      BY <2>1, <2>2
  <1>8. x = y
    BY <1>4, <1>5, <1>6, <1>7, SeqEqual
  <1>. QED
    BY <1>8 DEF x, y, t

\* The stream, and of it what the buffer and what a read holds.
Bounded == stream \in Streams /\ TypeOK /\ BufferInv

\* No read overfills the buffer: feed() scans what waited, and the bytes read.
LEMMA FeedEffect ==
    ASSUME Bounded, NEW n \in 1 .. MaxChunk, Feed(n)
    PROVE  /\ stream' = stream /\ fed' = fed + n
           /\ stream.bytes \in Seq(Bytes)
           /\ base \in 0 .. Len(stream.bytes) /\ fed' \in base .. Len(stream.bytes)
           /\ \E s : /\ s = SubSeq(stream.bytes, base + 1, fed')
                    /\ buf' = SubSeq(s, Scan(s).keep + 1, Len(s))
                    /\ base' = base + Scan(s).keep
                    /\ out' = out \o Shift(Scan(s).frames, base)
                    /\ crcErrors' = crcErrors + Scan(s).crcErrors
                    /\ resyncs' = resyncs + Scan(s).resyncs
  <1>. DEFINE all == stream.bytes
              longer == buf \o SubSeq(all, fed + 1, fed + n)
              s == SubSeq(all, base + 1, fed + n)
  <1>1. all \in Seq(Bytes) /\ Len(all) \in Nat
    BY StreamsAssumption, LenProperties DEF StreamsAssumption, Bounded
  <1>2. /\ fed \in 0 .. Len(all) /\ base \in 0 .. fed /\ buf \in Seq(Bytes)
        /\ Len(buf) < MaxFrame /\ base + Len(buf) = fed
        /\ buf = SubSeq(all, base + 1, fed)
    BY DEF Bounded, TypeOK, BufferInv
  <1>3. n \in Nat /\ n <= MaxChunk /\ n <= Len(all) - fed
    <2>1. n \in Nat /\ n <= MaxChunk
      BY Bounds
    <2>2. n <= Len(all) - fed
      BY ZenonT(30) DEF Feed
    <2>. QED
      BY <2>1, <2>2
  <1>4. base \in 0 .. Len(all) /\ fed + n \in base .. Len(all)
        /\ fed \in base .. Len(all) /\ fed + n \in fed .. Len(all)
        /\ base + 1 \in 1 .. Len(all) + 1 /\ fed \in (base + 1 - 1) .. Len(all)
    BY <1>1, <1>2, <1>3
  <1>5. longer = s
    BY <1>1, <1>2, <1>4, ConcatAdjacentSubSeq
  <1>6. s \in Seq(Bytes) /\ Len(s) = fed + n - base
    BY <1>1, <1>4, Slice
  <1>7. ~(Len(s) > MaxBuffer)
    <2>1. Len(buf) \in Nat
      BY <1>2, LenProperties
    <2>2. fed + n - base = Len(buf) + n
      BY <1>2, <1>3, <2>1
    <2>3. Len(buf) + n <= MaxBuffer
      BY <1>2, <1>3, <2>1, Bounds
    <2>. QED
      BY <1>2, <1>3, <1>6, <2>1, <2>2, <2>3, Bounds
  <1>8. SubSeq(s, 0 + 1, Len(s)) = s
    <2>1. 0 + 1 = 1
      OBVIOUS
    <2>. HIDE DEF s
    <2>. QED
      BY <1>6, <2>1, SubSeqFull
  <1>. HIDE DEF s, longer
  <1>9. Len(longer) > MaxBuffer <=> FALSE
    BY <1>5, <1>7
  <1>10. /\ buf' = SubSeq(s, Scan(s).keep + 1, Len(s))
         /\ base' = base + 0 + Scan(s).keep
         /\ out' = out \o Shift(Scan(s).frames, base + 0)
         /\ crcErrors' = crcErrors + Scan(s).crcErrors
         /\ resyncs' = resyncs + Scan(s).resyncs + 0
    <2>1. longer = buf \o SubSeq(stream.bytes, fed + 1, fed + n)
      BY DEF longer
    <2>. QED
      BY <1>5, <1>8, <1>9, <2>1 DEF Feed
  <1>11. Scan(s).resyncs \in Nat /\ Scan(s).keep \in Nat /\ resyncs \in Nat
    <2>1. 0 \in 0 .. Len(s)
      BY <1>2, <1>3, <1>6
    <2>. QED
      BY <1>6, <2>1, LoopResult DEF Scan, Result, Bounded, TypeOK
  <1>12. base + 0 = base /\ resyncs + Scan(s).resyncs + 0 = resyncs + Scan(s).resyncs
    BY <1>2, <1>11
  <1>13. stream' = stream /\ fed' = fed + n
    BY DEF Feed
  <1>. QED
    BY <1>1, <1>4, <1>10, <1>12, <1>13 DEF s

LEMMA BoundedInit == Init => Bounded
  <1>. SUFFICES ASSUME Init PROVE Bounded
    OBVIOUS
  <1>1. stream.bytes \in Seq(Bytes) /\ Len(stream.bytes) \in Nat
    BY StreamsAssumption, LenProperties DEF StreamsAssumption, Init
  <1>2. <<>> \in Seq(Bytes) /\ <<>> \in Seq([at : Nat, len : Nat]) /\ Len(<<>>) = 0
    BY EmptySeq
  <1>3. SubSeq(stream.bytes, 1, 0) = <<>>
    BY SubSeqEmpty
  <1>4. 0 + 1 = 1
    OBVIOUS
  <1>. QED
    BY <1>1, <1>2, <1>3, <1>4, Bounds DEF Init, Bounded, TypeOK, BufferInv

LEMMA BoundedStep == Bounded /\ [Next]_vars => Bounded'
  <1>. SUFFICES ASSUME Bounded, [Next]_vars PROVE Bounded'
    OBVIOUS
  <1>1. ASSUME NEW n \in 1 .. MaxChunk, Feed(n) PROVE Bounded'
    <2>. DEFINE all == stream.bytes
    <2>1. PICK s : /\ s = SubSeq(all, base + 1, fed')
                   /\ buf' = SubSeq(s, Scan(s).keep + 1, Len(s))
                   /\ base' = base + Scan(s).keep
                   /\ out' = out \o Shift(Scan(s).frames, base)
                   /\ crcErrors' = crcErrors + Scan(s).crcErrors
                   /\ resyncs' = resyncs + Scan(s).resyncs
      BY <1>1, FeedEffect
    <2>2. /\ stream' = stream /\ fed' = fed + n /\ all \in Seq(Bytes)
          /\ base \in 0 .. Len(all) /\ fed' \in base .. Len(all)
      BY <1>1, FeedEffect
    <2>3. /\ fed \in Nat /\ base \in Nat /\ n \in Nat /\ Len(all) \in Nat
          /\ crcErrors \in Nat /\ resyncs \in Nat /\ out \in Seq(Frame)
      BY <2>2, Bounds, LenProperties DEF Bounded, TypeOK, BufferInv, Frame
    <2>4. s \in Seq(Bytes) /\ Len(s) = fed' - base /\ Len(s) \in Nat
      BY <2>1, <2>2, <2>3, Slice, LenProperties
    <2>. DEFINE r == Scan(s)
    <2>5. r \in Result /\ r.keep \in 0 .. Len(s) /\ Len(s) - r.keep < MaxFrame
      <3>1. 0 \in 0 .. Len(s)
        BY <2>4
      <3>. QED
        BY <2>4, <3>1, LoopResult DEF Scan
    <2>6. /\ r.frames \in Seq(Frame) /\ r.crcErrors \in Nat /\ r.resyncs \in Nat
      BY <2>5 DEF Result
    <2>. HIDE DEF r
    <2>7. buf' \in Seq(Bytes) /\ Len(buf') = Len(s) - r.keep
      <3>1. Len(s) \in r.keep .. Len(s)
        BY <2>4, <2>5
      <3>2. buf' = SubSeq(s, r.keep + 1, Len(s))
        BY <2>1 DEF r
      <3>. QED
        BY <2>4, <2>5, <3>1, <3>2, Slice
    <2>8. base' = base + r.keep /\ fed' = fed + n
      BY <2>1, <2>2 DEF r
    <2>9. fed' \in 0 .. Len(all) /\ base' \in 0 .. fed' /\ base' + Len(buf') = fed'
      BY <2>2, <2>3, <2>4, <2>5, <2>7, <2>8
    <2>10. out' \in Seq(Frame)
      <3>1. Shift(r.frames, base) \in Seq(Frame)
        BY <2>3, <2>6, ShiftProperties
      <3>2. out' = out \o Shift(r.frames, base)
        BY <2>1 DEF r
      <3>. QED
        BY <2>3, <3>1, <3>2, ConcatProperties
    <2>11. crcErrors' \in Nat /\ resyncs' \in Nat
      <3>1. crcErrors' = crcErrors + r.crcErrors /\ resyncs' = resyncs + r.resyncs
        BY <2>1 DEF r
      <3>. QED
        BY <2>3, <2>6, <3>1
    <2>12. buf' = SubSeq(all, base' + 1, fed')
      <3>. DEFINE d == r.keep
      <3>1. d \in 0 .. (fed' - base)
        BY <2>4, <2>5
      <3>. HIDE DEF d
      <3>2. SubSeq(SubSeq(all, base + 1, fed'), d + 1, fed' - base) = SubSeq(all, base + d + 1, fed')
        BY <2>2, <3>1, SliceOfSlice
      <3>. QED
        BY <2>1, <2>4, <2>8, <3>2 DEF r, d
    <2>13. TypeOK'
      BY <2>2, <2>5, <2>7, <2>9, <2>10, <2>11 DEF TypeOK, Frame
    <2>14. BufferInv'
      BY <2>2, <2>9, <2>12 DEF BufferInv
    <2>. QED
      BY <2>2, <2>13, <2>14 DEF Bounded
  <1>2. CASE UNCHANGED vars
    BY <1>2 DEF vars, Bounded, TypeOK, BufferInv
  <1>. QED
    BY <1>1, <1>2 DEF Next

\* What waits in the buffer is the end of what was fed, and less than a frame.
THEOREM BufferInvariant == Spec => []Bounded
  <1>. QED
    BY BoundedInit, BoundedStep, PTL DEF Spec

\* However the bytes come, noise that passes for a header among them, feed() keeps less
\* than one frame waiting.
THEOREM TypeCorrect == Spec => []TypeOK
  <1>1. Bounded => TypeOK
    BY DEF Bounded
  <1>. QED
    BY <1>1, BufferInvariant, PTL

LEMMA ReadsStep == Bounded /\ ChunkingDoesNotMatter /\ [Next]_vars => ChunkingDoesNotMatter'
  <1>. SUFFICES ASSUME Bounded, ChunkingDoesNotMatter, [Next]_vars PROVE ChunkingDoesNotMatter'
    OBVIOUS
  <1>1. ASSUME NEW n \in 1 .. MaxChunk, Feed(n) PROVE ChunkingDoesNotMatter'
    <2>. DEFINE all == stream.bytes
                w   == SubSeq(all, 0 + 1, fed)
                u   == SubSeq(all, 0 + 1, fed')
    <2>1. PICK s : /\ s = SubSeq(all, base + 1, fed')
                   /\ base' = base + Scan(s).keep
                   /\ out' = out \o Shift(Scan(s).frames, base)
                   /\ crcErrors' = crcErrors + Scan(s).crcErrors
                   /\ resyncs' = resyncs + Scan(s).resyncs
      BY <1>1, FeedEffect
    <2>2. /\ stream' = stream /\ fed' = fed + n /\ all \in Seq(Bytes)
          /\ base \in 0 .. Len(all) /\ fed' \in base .. Len(all)
      BY <1>1, FeedEffect
    <2>3. /\ n \in Nat /\ Len(all) \in Nat /\ fed \in 0 .. Len(all) /\ base \in 0 .. fed
          /\ fed' \in 0 .. Len(all) /\ 0 \in 0 .. Len(all) /\ fed <= fed'
      BY <2>2, Bounds, LenProperties DEF Bounded, BufferInv
    <2>4. /\ w \in Seq(Bytes) /\ Len(w) = fed - 0 /\ \A j \in 1 .. fed - 0 : w[j] = all[0 + j]
      BY <2>2, <2>3, Slice
    <2>5. /\ u \in Seq(Bytes) /\ Len(u) = fed' - 0 /\ \A j \in 1 .. fed' - 0 : u[j] = all[0 + j]
      BY <2>2, <2>3, Slice
    <2>6. s \in Seq(Bytes) /\ Len(s) = fed' - base /\ \A j \in 1 .. fed' - base : s[j] = all[base + j]
      BY <2>1, <2>2, <2>3, Slice
    <2>. HIDE DEF w, u
    <2>7. Begins(w, u)
      BY <2>3, <2>4, <2>5 DEF Begins
    <2>8. Ends(s, u, base)
      <3>1. base + Len(s) = Len(u)
        BY <2>3, <2>5, <2>6
      <3>2. ASSUME NEW j \in 1 .. Len(s) PROVE u[base + j] = s[j]
        <4>1. base + j \in 1 .. fed' - 0 /\ 0 + (base + j) = base + j
          BY <2>2, <2>3, <2>6
        <4>2. u[base + j] = all[0 + (base + j)]
          BY <2>5, <4>1
        <4>. QED
          BY <2>6, <4>1, <4>2
      <3>3. Len(u) \in Nat /\ Len(s) \in Nat /\ base \in Nat
        <4>1. Len(u) \in Nat
          BY <2>5, LenProperties
        <4>2. Len(s) \in Nat
          BY <2>6, LenProperties
        <4>. QED
          BY <2>3, <4>1, <4>2
      <3>4. base + Len(s) <= Len(u)
        BY <3>1, <3>3
      <3>. QED
        BY <3>1, <3>2, <3>4 DEF Ends, Inside
    <2>9. Scan(w).keep = base /\ Scan(w).frames = out
          /\ Scan(w).crcErrors = crcErrors /\ Scan(w).resyncs = resyncs
      BY DEF ChunkingDoesNotMatter, w
    <2>10. 0 \in 0 .. Len(w) /\ 0 \in 0 .. Len(s)
      BY <2>2, <2>3, <2>4, <2>6
    <2>11. Scan(u) = Then(Scan(w), ScanFrom(u)[base])
      BY <2>4, <2>5, <2>7, <2>9, <2>10, LoopOnMore DEF Scan
    <2>12. ScanFrom(u)[base] = Moved(Scan(s), base)
      <3>1. base + 0 = base /\ base \in Nat
        BY <2>3
      <3>. QED
        BY <2>5, <2>6, <2>8, <2>10, <3>1, LoopOnLess DEF Scan
    <2>13. /\ Scan(u).keep = base' /\ Scan(u).frames = out'
           /\ Scan(u).crcErrors = crcErrors' /\ Scan(u).resyncs = resyncs'
      <3>1. Scan(u) = Then(Scan(w), Moved(Scan(s), base))
        BY <2>11, <2>12
      <3>2. /\ Scan(u).keep = base + Scan(s).keep
            /\ Scan(u).frames = Scan(w).frames \o Shift(Scan(s).frames, base)
            /\ Scan(u).crcErrors = Scan(w).crcErrors + Scan(s).crcErrors
            /\ Scan(u).resyncs = Scan(w).resyncs + Scan(s).resyncs
        <4>. DEFINE r == Moved(Scan(s), base)
        <4>1. /\ r.keep = base + Scan(s).keep /\ r.frames = Shift(Scan(s).frames, base)
              /\ r.crcErrors = Scan(s).crcErrors /\ r.resyncs = Scan(s).resyncs
          BY DEF Moved
        <4>. HIDE DEF r
        <4>2. \A q : /\ Then(q, r).keep = r.keep /\ Then(q, r).frames = q.frames \o r.frames
                     /\ Then(q, r).crcErrors = q.crcErrors + r.crcErrors
                     /\ Then(q, r).resyncs = q.resyncs + r.resyncs
          BY DEF Then
        <4>3. Scan(u) = Then(Scan(w), r)
          BY <3>1 DEF r
        <4>. QED
          BY <4>1, <4>2, <4>3, Zenon
      <3>. QED
        BY <2>1, <2>9, <3>2
    <2>14. Scan(SubSeq((stream').bytes, 1, fed')) = Scan(u)
      BY <2>2 DEF u
    <2>. QED
      BY <2>13, <2>14 DEF ChunkingDoesNotMatter
  <1>2. CASE UNCHANGED vars
    BY <1>2 DEF vars, ChunkingDoesNotMatter
  <1>. QED
    BY <1>1, <1>2 DEF Next

\* Whatever the reads were, feed() has found the same frames, counted the same
\* errors and kept the same rest as one feed() of all the bytes.
THEOREM ReadsDoNotMatter == Spec => []ChunkingDoesNotMatter
  <1>1. Init => ChunkingDoesNotMatter
    <2>. SUFFICES ASSUME Init PROVE ChunkingDoesNotMatter
      OBVIOUS
    <2>1. SubSeq(stream.bytes, 1, fed) = <<>> /\ <<>> \in Seq(Bytes) /\ Len(<<>>) = 0
      BY SubSeqEmpty, EmptySeq DEF Init
    <2>2. SyncPairs(<<>>, 0) = {}
      BY <2>1 DEF SyncPairs
    <2>3. Pass(<<>>, 0) = Waits(0)
      BY <2>1, <2>2 DEF Pass, NoSync
    <2>4. Scan(<<>>) = Waits(0)
      <3>1. 0 \in 0 .. Len(<<>>)
        BY <2>1
      <3>2. ScanFrom(<<>>)[0] = IF Pass(<<>>, 0).ends THEN Pass(<<>>, 0)
                                ELSE Then(Pass(<<>>, 0), ScanFrom(<<>>)[Pass(<<>>, 0).keep])
        <4>. DEFINE e == <<>>
        <4>1. e \in Seq(Bytes) /\ 0 \in 0 .. Len(e)
          BY <2>1, <3>1
        <4>. HIDE DEF e
        <4>2. ScanFrom(e)[0] = IF Pass(e, 0).ends THEN Pass(e, 0)
                               ELSE Then(Pass(e, 0), ScanFrom(e)[Pass(e, 0).keep])
          BY <4>1, LoopEquation
        <4>. QED
          BY <4>2 DEF e
      <3>3. Pass(<<>>, 0).ends
        BY <2>3 DEF Waits
      <3>. QED
        BY <2>3, <3>2, <3>3, Zenon DEF Scan
    <2>5. Scan(SubSeq(stream.bytes, 1, fed)) = Waits(0)
      BY <2>1, <2>4
    <2>. QED
      BY <2>5 DEF Init, ChunkingDoesNotMatter, Waits
  <1>. QED
    BY <1>1, ReadsStep, BufferInvariant, PTL DEF Spec

(***************************************************************************)
(* No frame is lost.                                                       *)
(***************************************************************************)

\* The frame of type t and payload m stands at p in the bytes s, as far as they go.
FrameAt(s, p, t, m) ==
    \A i \in 1 .. Len(Encode(t, m)) : p + i <= Len(s) => s[p + i] = Encode(t, m)[i]

Covered(frames, p) ==
    \E j \in DOMAIN frames : frames[j].at <= p /\ p < frames[j].at + frames[j].len

LEMMA EncodeBytes ==
    ASSUME NEW t \in KnownTypes, NEW m \in Payloads
    PROVE  \E body :
              /\ Len(m) \in 0 .. MaxPayload /\ Len(Encode(t, m)) = Len(m) + 5
              /\ Encode(t, m)[1] = SYNC0 /\ Encode(t, m)[2] = SYNC1
              /\ Encode(t, m)[3] = t /\ Encode(t, m)[4] = Len(m)
              /\ body \in Seq(Bytes) /\ Len(body) = Len(m) + 2
              /\ \A i \in 1 .. Len(m) + 2 : Encode(t, m)[2 + i] = body[i]
              /\ Encode(t, m)[Len(m) + 5] = Crc(body)
  <1>1. m \in Seq(Bytes) /\ Len(m) \in 0 .. MaxPayload /\ Len(m) \in Nat
    <2>1. PICK n \in 0 .. MaxPayload : m \in [1 .. n -> Bytes]
      BY DEF Payloads
    <2>2. n \in Nat
      BY <2>1, Bounds
    <2>3. m \in Seq(Bytes)
      BY <2>1, <2>2, SeqDef
    <2>4. Len(m) = n
      BY <2>1, <2>2, <2>3, LenProperties
    <2>. QED
      BY <2>1, <2>2, <2>3, <2>4
  <1>. DEFINE head == <<t, Len(m)>>
              body == head \o m
              S    == Bytes \cup {Crc(body)}
              sync == <<SYNC0, SYNC1>>
              tail == <<Crc(body)>>
  <1>2. head \in Seq(Bytes) /\ Len(head) = 2 /\ head[1] = t /\ head[2] = Len(m)
    <2>1. t \in Bytes /\ Len(m) \in Bytes
      BY <1>1, BytesAssumption DEF BytesAssumption
    <2>. QED
      BY <2>1
  <1>. HIDE DEF head
  <1>3. /\ body \in Seq(Bytes) /\ Len(body) = Len(m) + 2
        /\ body[1] = t /\ body[2] = Len(m)
    <2>1. /\ body \in Seq(Bytes) /\ Len(body) = Len(head) + Len(m)
          /\ \A i \in 1 .. Len(head) + Len(m) :
               body[i] = IF i <= Len(head) THEN head[i] ELSE m[i - Len(head)]
      BY <1>1, <1>2, ConcatProperties
    <2>. HIDE DEF body
    <2>2. 1 \in 1 .. Len(head) + Len(m) /\ 2 \in 1 .. Len(head) + Len(m)
      BY <1>1, <1>2
    <2>. QED
      BY <1>1, <1>2, <2>1, <2>2
  <1>4. Encode(t, m) = (sync \o body) \o tail
    BY DEF Encode, head
  <1>. HIDE DEF body
  <1>5. sync \in Seq(S) /\ Len(sync) = 2 /\ sync[1] = SYNC0 /\ sync[2] = SYNC1
        /\ tail \in Seq(S) /\ Len(tail) = 1 /\ tail[1] = Crc(body)
    BY BytesAssumption DEF BytesAssumption
  <1>6. body \in Seq(S)
    BY <1>3, SeqMonotonic
  <1>. HIDE DEF sync, tail, S
  <1>. DEFINE x == sync \o body
              y == x \o tail
  <1>7. /\ x \in Seq(S) /\ Len(x) = Len(m) + 4
        /\ \A i \in 1 .. Len(m) + 4 : x[i] = IF i <= 2 THEN sync[i] ELSE body[i - 2]
    <2>1. /\ x \in Seq(S) /\ Len(x) = Len(sync) + Len(body)
          /\ \A i \in 1 .. Len(sync) + Len(body) :
               x[i] = IF i <= Len(sync) THEN sync[i] ELSE body[i - Len(sync)]
      BY <1>5, <1>6, ConcatProperties
    <2>. HIDE DEF x
    <2>2. Len(sync) + Len(body) = Len(m) + 4
      BY <1>1, <1>3, <1>5
    <2>. QED
      BY <1>5, <2>1, <2>2
  <1>. HIDE DEF x
  <1>8. /\ Len(y) = Len(m) + 5
        /\ \A i \in 1 .. Len(m) + 5 : y[i] = IF i <= Len(m) + 4 THEN x[i] ELSE tail[i - (Len(m) + 4)]
    <2>1. /\ y \in Seq(S) /\ Len(y) = Len(x) + Len(tail)
          /\ \A i \in 1 .. Len(x) + Len(tail) :
               y[i] = IF i <= Len(x) THEN x[i] ELSE tail[i - Len(x)]
      BY <1>5, <1>7, ConcatProperties
    <2>. HIDE DEF y
    <2>2. Len(x) + Len(tail) = Len(m) + 5
      BY <1>1, <1>5, <1>7
    <2>. QED
      BY <1>7, <2>1, <2>2
  <1>. HIDE DEF y
  <1>9. Encode(t, m) = y
    BY <1>4 DEF x, y
  <1>10. y[1] = SYNC0 /\ y[2] = SYNC1
    <2>1. 1 \in 1 .. Len(m) + 5 /\ 2 \in 1 .. Len(m) + 5 /\ 1 <= Len(m) + 4 /\ 2 <= Len(m) + 4
          /\ 1 \in 1 .. Len(m) + 4 /\ 2 \in 1 .. Len(m) + 4
      BY <1>1
    <2>2. y[1] = x[1] /\ y[2] = x[2]
      BY <1>8, <2>1
    <2>3. x[1] = sync[1] /\ x[2] = sync[2]
      BY <1>7, <2>1
    <2>. QED
      BY <1>5, <2>2, <2>3
  <1>11. ASSUME NEW i \in 1 .. Len(m) + 2 PROVE y[2 + i] = body[i]
    <2>1. 2 + i \in 1 .. Len(m) + 5 /\ 2 + i <= Len(m) + 4 /\ 2 + i \in 1 .. Len(m) + 4
          /\ ~(2 + i <= 2) /\ 2 + i - 2 = i
      BY <1>1
    <2>2. y[2 + i] = x[2 + i]
      BY <1>8, <2>1
    <2>3. x[2 + i] = body[2 + i - 2]
      BY <1>7, <2>1
    <2>. QED
      BY <2>1, <2>2, <2>3
  <1>12. y[3] = t /\ y[4] = Len(m)
    <2>1. 1 \in 1 .. Len(m) + 2 /\ 2 \in 1 .. Len(m) + 2 /\ 2 + 1 = 3 /\ 2 + 2 = 4
      BY <1>1
    <2>2. y[2 + 1] = body[1] /\ y[2 + 2] = body[2]
      BY <1>11, <2>1
    <2>. QED
      BY <1>3, <2>1, <2>2
  <1>13. y[Len(m) + 5] = Crc(body)
    <2>1. Len(m) + 5 \in 1 .. Len(m) + 5 /\ ~(Len(m) + 5 <= Len(m) + 4)
          /\ Len(m) + 5 - (Len(m) + 4) = 1
      BY <1>1
    <2>. QED
      BY <1>5, <1>8, <2>1
  <1>. QED
    BY <1>1, <1>3, <1>8, <1>9, <1>10, <1>11, <1>12, <1>13

\* A pass drops no byte of the frame at p, except as a part of another frame.
LEMMA PassKeeps ==
    ASSUME NEW s \in Seq(Bytes), NEW p \in Nat, NEW t \in KnownTypes, NEW m \in Payloads,
           FrameAt(s, p, t, m), NEW i \in 0 .. Len(s), i <= p
    PROVE  \/ p >= Pass(s, i).keep
           \/ Covered(Pass(s, i).frames, p)
  <1>. USE DEF Covered
  <1>. DEFINE e == Encode(t, m)
  <1>1. PICK body :
           /\ Len(m) \in 0 .. MaxPayload /\ Len(e) = Len(m) + 5
           /\ e[1] = SYNC0 /\ e[2] = SYNC1 /\ e[3] = t /\ e[4] = Len(m)
           /\ body \in Seq(Bytes) /\ Len(body) = Len(m) + 2
           /\ \A l \in 1 .. Len(m) + 2 : e[2 + l] = body[l]
           /\ e[Len(m) + 5] = Crc(body)
    BY EncodeBytes
  <1>. HIDE DEF e
  <1>2. /\ Len(s) \in Nat /\ Len(m) \in Nat /\ i \in Nat
        /\ 1 \in 1 .. Len(e) /\ 2 \in 1 .. Len(e) /\ 3 \in 1 .. Len(e) /\ 4 \in 1 .. Len(e)
    BY <1>1, Bounds, LenProperties
  <1>3. \A l \in 1 .. Len(e) : p + l <= Len(s) => s[p + l] = e[l]
    BY DEF FrameAt, e
  <1>4. (p + 1 <= Len(s) => s[p + 1] = SYNC0) /\ (p + 2 <= Len(s) => s[p + 2] = SYNC1)
    BY <1>1, <1>2, <1>3
  <1>5. p + 2 <= Len(s) => p \in SyncPairs(s, i)
    BY <1>2, <1>4 DEF SyncPairs
  <1>6. CASE SyncPairs(s, i) = {} /\ Pass(s, i) = NoSync(s, i)
    <2>1. p + 2 > Len(s)
      BY <1>2, <1>5, <1>6
    <2>2. \E k \in Nat : NoSync(s, i) = Waits(k) /\ k <= p
      BY <1>2, <2>1 DEF NoSync
    <2>. QED
      BY <1>6, <2>2 DEF Waits
  <1>7. ASSUME NEW k \in SyncPairs(s, i), \A j \in SyncPairs(s, i) : k <= j,
               Pass(s, i) = AtSync(s, k)
        PROVE  \/ p >= Pass(s, i).keep
               \/ Covered(Pass(s, i).frames, p)
    <2>1. k \in Nat /\ k + 2 <= Len(s) /\ s[k + 1] = SYNC0 /\ s[k + 2] = SYNC1
      BY <1>2 DEF SyncPairs
    <2>2. k <= p
      BY <1>2, <1>5, <1>7, <2>1
    <2>3. p # k + 1
      <3>1. SUFFICES ASSUME p = k + 1 PROVE FALSE
        OBVIOUS
      <3>2. p + 1 = k + 2 /\ p + 1 <= Len(s)
        BY <2>1, <3>1
      <3>3. s[k + 2] = SYNC0
        BY <1>4, <3>2
      <3>. QED
        BY <2>1, <3>3, Bounds
    <2>4. CASE AtSync(s, k) = Waits(k)
      BY <1>7, <2>1, <2>2, <2>4 DEF Waits
    <2>5. CASE AtSync(s, k) = GoesOn(k + 2, <<>>, 0, 1) \/ AtSync(s, k) = GoesOn(k + 2, <<>>, 1, 0)
      <3>1. p # k
        <4>. SUFFICES ASSUME p = k PROVE FALSE
          OBVIOUS
        <4>1. AtSync(s, k) # Waits(k)
          BY <2>5 DEF Waits, GoesOn
        <4>2. ~(Len(s) - k < HeaderLen)
          BY <4>1, Zenon DEF AtSync
        <4>3. s[k + 3] = t /\ s[k + 4] = Len(m)
          <5>1. p + 3 <= Len(s) /\ p + 4 <= Len(s)
            BY <1>2, <2>1, <4>2 DEF HeaderLen
          <5>. QED
            BY <1>1, <1>2, <1>3, <5>1
        <4>4. Plausible(s[k + 3], s[k + 4])
          BY <1>1, <4>3, Bounds DEF Plausible
        <4>. DEFINE total == Len(m) + 5
        <4>5. total \in Nat /\ total = HeaderLen + s[k + 4] + CrcLen /\ s[k + 4] \in Nat
          BY <1>2, <4>3 DEF HeaderLen, CrcLen
        <4>6. AtSync(s, k) = IF Len(s) - k < total THEN Waits(k) ELSE Checked(s, k, total)
          BY <2>1, <4>2, <4>4, <4>5, WholeFrame
        <4>7. ~(Len(s) - k < total)
          BY <4>1, <4>6, Zenon
        <4>8. s[k + total] = Crc(body)
          <5>1. total \in 1 .. Len(e) /\ p + total <= Len(s)
            BY <1>1, <1>2, <2>1, <4>7
          <5>. QED
            BY <1>1, <1>3, <5>1
        <4>9. SubSeq(s, k + 3, k + total - 1) = body
          <5>1. PICK b \in Nat, f \in Nat :
                     /\ b = k + 2 /\ b + 1 = k + 3 /\ f = k + total - 1 /\ f - b = Len(m) + 2
                     /\ b \in 0 .. Len(s) /\ f \in b .. Len(s)
            <6>1. k + 2 \in Nat /\ k + total - 1 \in Nat
              BY <1>2, <2>1
            <6>. QED
              BY <1>2, <2>1, <4>7, <6>1
          <5>. DEFINE x == SubSeq(s, k + 3, k + total - 1)
          <5>2. x \in Seq(Bytes) /\ Len(x) = Len(m) + 2
                /\ \A j \in 1 .. Len(m) + 2 : x[j] = s[b + j]
            BY <5>1, Slice
          <5>. HIDE DEF x
          <5>3. \A j \in 1 .. Len(x) : x[j] = body[j]
            <6>. SUFFICES ASSUME NEW j \in 1 .. Len(m) + 2 PROVE x[j] = body[j]
              BY <5>2
            <6>1. 2 + j \in 1 .. Len(e) /\ p + (2 + j) <= Len(s) /\ p + (2 + j) = b + j
              BY <1>1, <1>2, <2>1, <4>7, <5>1
            <6>2. s[p + (2 + j)] = e[2 + j]
              BY <1>3, <6>1
            <6>. QED
              BY <1>1, <5>2, <6>1, <6>2
          <5>4. x = body
            BY <1>1, <5>2, <5>3, SeqEqual
          <5>. QED
            BY <5>4 DEF x
        <4>10. AtSync(s, k) = GoesOn(k + total, <<[at |-> k, len |-> total]>>, 0, 0)
          BY <4>6, <4>7, <4>8, <4>9, Zenon DEF Checked
        <4>. QED
          BY <2>5, <4>10, <1>2, <2>1 DEF GoesOn
      <3>2. p >= k + 2
        BY <2>1, <2>2, <2>3, <3>1
      <3>. QED
        BY <1>7, <2>5, <3>2 DEF GoesOn
    <2>6. ASSUME NEW total \in Nat,
                 AtSync(s, k) = GoesOn(k + total, <<[at |-> k, len |-> total]>>, 0, 0)
          PROVE  \/ p >= AtSync(s, k).keep
                 \/ Covered(AtSync(s, k).frames, p)
      <3>. DEFINE f == <<[at |-> k, len |-> total]>>
      <3>1. 1 \in DOMAIN f /\ f[1].at = k /\ f[1].len = total
        OBVIOUS
      <3>. HIDE DEF f
      <3>2. AtSync(s, k).keep = k + total /\ AtSync(s, k).frames = f
        BY <2>6 DEF GoesOn, f
      <3>. QED
        BY <2>1, <2>2, <3>1, <3>2
    <2>. QED
      BY <1>7, <2>1, <2>4, <2>5, <2>6, AtSyncCases
  <1>. QED
    BY <1>2, <1>6, <1>7, FirstPair

LEMMA CoveredByBoth ==
    ASSUME NEW f \in Seq(Frame), NEW g \in Seq(Frame), NEW p \in Nat
    PROVE  Covered(f \o g, p) <=> Covered(f, p) \/ Covered(g, p)
  <1>. DEFINE h == f \o g
  <1>1. /\ h \in Seq(Frame) /\ Len(h) = Len(f) + Len(g)
        /\ \A j \in 1 .. Len(f) + Len(g) : h[j] = IF j <= Len(f) THEN f[j] ELSE g[j - Len(f)]
    BY ConcatProperties
  <1>. HIDE DEF h
  <1>2. /\ Len(f) \in Nat /\ Len(g) \in Nat /\ DOMAIN f = 1 .. Len(f)
        /\ DOMAIN g = 1 .. Len(g) /\ DOMAIN h = 1 .. Len(f) + Len(g)
    BY <1>1, LenProperties
  <1>3. ASSUME Covered(f, p) PROVE Covered(h, p)
    BY <1>1, <1>2, <1>3 DEF Covered
  <1>4. ASSUME Covered(g, p) PROVE Covered(h, p)
    <2>1. PICK j \in 1 .. Len(g) : g[j].at <= p /\ p < g[j].at + g[j].len
      BY <1>2, <1>4 DEF Covered
    <2>2. Len(f) + j \in 1 .. Len(f) + Len(g) /\ ~(Len(f) + j <= Len(f))
          /\ Len(f) + j - Len(f) = j
      BY <1>2
    <2>3. h[Len(f) + j] = g[j]
      BY <1>1, <2>2
    <2>. QED
      BY <1>2, <2>1, <2>2, <2>3 DEF Covered
  <1>5. ASSUME Covered(h, p) PROVE Covered(f, p) \/ Covered(g, p)
    <2>1. PICK j \in 1 .. Len(f) + Len(g) : h[j].at <= p /\ p < h[j].at + h[j].len
      BY <1>2, <1>5 DEF Covered
    <2>2. \/ j \in 1 .. Len(f) /\ h[j] = f[j]
          \/ j - Len(f) \in 1 .. Len(g) /\ h[j] = g[j - Len(f)]
      BY <1>1, <1>2, <2>1
    <2>. QED
      BY <1>2, <2>1, <2>2 DEF Covered
  <1>. QED
    BY <1>3, <1>4, <1>5 DEF h

LEMMA LoopKeeps ==
    ASSUME NEW s \in Seq(Bytes), NEW p \in Nat, NEW t \in KnownTypes, NEW m \in Payloads,
           FrameAt(s, p, t, m)
    PROVE  p >= Scan(s).keep \/ Covered(Scan(s).frames, p)
  <1>. DEFINE n    == Len(s)
              F(j) == ScanFrom(s)[j]
              R(j) == j <= p => p >= F(j).keep \/ Covered(F(j).frames, p)
              S    == {j \in 0 .. n : R(j)}
  <1>1. n \in Nat
    BY LenProperties
  <1>2. \A j \in 0 .. n : /\ F(j) = IF Pass(s, j).ends THEN Pass(s, j)
                                   ELSE Then(Pass(s, j), F(Pass(s, j).keep))
                         /\ F(j) \in Result
    BY <1>1, LoopEquation, LoopResult
  <1>. HIDE DEF F
  <1>3. ASSUME NEW j \in 0 .. n, \A k \in 0 .. n : j < k => k \in S PROVE j \in S
    <2>. SUFFICES ASSUME j <= p PROVE p >= F(j).keep \/ Covered(F(j).frames, p)
      OBVIOUS
    <2>. DEFINE q == Pass(s, j)
                r == F(q.keep)
    <2>1. q \in Result /\ q.keep \in j .. n /\ (~q.ends => j < q.keep)
      BY PassEffect
    <2>2. p >= q.keep \/ Covered(q.frames, p)
      BY PassKeeps
    <2>3. CASE q.ends
      BY <1>2, <2>2, <2>3
    <2>4. CASE ~q.ends
      <3>1. F(j) = Then(q, r)
        BY <1>2, <2>4
      <3>2. q.keep \in 0 .. n /\ j < q.keep /\ q.keep \in Nat
        BY <1>1, <2>1, <2>4
      <3>3. q.keep <= p => p >= r.keep \/ Covered(r.frames, p)
        BY <1>3, <3>2
      <3>4. r \in Result
        BY <1>2, <3>2
      <3>. HIDE DEF q, r
      <3>5. q.frames \in Seq(Frame) /\ r.frames \in Seq(Frame)
        BY <2>1, <3>4 DEF Result
      <3>6. \A f, g \in Seq(Frame) : Covered(f \o g, p) <=> Covered(f, p) \/ Covered(g, p)
        BY CoveredByBoth
      <3>7. Covered(q.frames \o r.frames, p) <=> Covered(q.frames, p) \/ Covered(r.frames, p)
        BY <3>5, <3>6, Zenon
      <3>8. F(j).keep = r.keep /\ F(j).frames = q.frames \o r.frames
        <4>1. Then(q, r).keep = r.keep /\ Then(q, r).frames = q.frames \o r.frames
          BY DEF Then
        <4>. QED
          BY <3>1, <4>1
      <3>9. p >= r.keep \/ Covered(r.frames, p) \/ Covered(q.frames, p)
        <4>1. CASE p >= q.keep
          BY <3>2, <3>3, <4>1
        <4>. QED
          BY <2>2, <4>1
      <3>. QED
        BY <3>7, <3>8, <3>9, Zenon
    <2>. QED
      BY <2>3, <2>4
  <1>. HIDE DEF R
  <1>4. \A j \in 0 .. n : j \in S
    BY <1>1, <1>3, FromTheEnd
  <1>5. R(0)
    BY <1>1, <1>4
  <1>. QED
    BY <1>5 DEF R, F, Scan

\* A frame of the stream that is behind the bytes kept was returned, or a frame
\* that was returned holds its first byte.
THEOREM NoFrameIsEverLost == Spec => []NoFrameIsLost
  <1>1. Bounded /\ ChunkingDoesNotMatter => NoFrameIsLost
    <2>. SUFFICES ASSUME Bounded, ChunkingDoesNotMatter, NEW p \in stream.starts
                  PROVE  p >= base \/ Covered(out, p)
      BY DEF NoFrameIsLost, Covered
    <2>. DEFINE all == stream.bytes
                w   == SubSeq(all, 0 + 1, fed)
    <2>1. PICK t \in KnownTypes, m \in Payloads : FrameAt(all, p, t, m)
      BY StreamsAssumption DEF StreamsAssumption, FrameAt, Bounded
    <2>2. all \in Seq(Bytes) /\ p \in Nat
      BY StreamsAssumption DEF StreamsAssumption, Bounded
    <2>3. Len(all) \in Nat /\ fed \in 0 .. Len(all) /\ 0 \in 0 .. Len(all)
      BY <2>2, LenProperties DEF Bounded, TypeOK
    <2>4. /\ w \in Seq(Bytes) /\ Len(w) = fed - 0 /\ \A j \in 1 .. fed - 0 : w[j] = all[0 + j]
      BY <2>2, <2>3, Slice
    <2>5. Scan(w).keep = base /\ Scan(w).frames = out
      BY DEF ChunkingDoesNotMatter
    <2>. HIDE DEF w
    <2>6. FrameAt(w, p, t, m)
      <3>1. PICK body : Len(m) \in 0 .. MaxPayload /\ Len(Encode(t, m)) = Len(m) + 5
        BY EncodeBytes
      <3>. SUFFICES ASSUME NEW i \in 1 .. Len(Encode(t, m)), p + i <= Len(w)
                    PROVE  w[p + i] = Encode(t, m)[i]
        BY DEF FrameAt
      <3>2. i \in Nat /\ 1 <= i
        BY <3>1, Bounds
      <3>3. p + i \in 1 .. fed - 0 /\ 0 + (p + i) = p + i /\ p + i <= Len(all)
        BY <2>2, <2>3, <2>4, <3>2
      <3>. QED
        BY <2>1, <2>4, <3>3 DEF FrameAt
    <2>. QED
      BY <2>2, <2>4, <2>5, <2>6, LoopKeeps
  <1>. QED
    BY <1>1, BufferInvariant, ReadsDoNotMatter, PTL
=============================================================================
