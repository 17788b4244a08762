--------------------------- MODULE DriveData_proofs ---------------------------
(***************************************************************************)
(* Proofs about DriveData: for every battery curve, every track width and  *)
(* every telemetry payload, not only those of the instance that is         *)
(* model-checked.                                                          *)
(***************************************************************************)
EXTENDS SkidCalib, NaturalOrder

\* The types of the constants.
LEMMA Bounds ==
    /\ Frames \subseteq Telemetry /\ Tracks \subseteq Nat
    /\ Twists \subseteq [nan : BOOLEAN, v : Int]
    /\ None \notin Int /\ None \notin Nat \X Nat
    /\ DefaultTrack \in Int /\ SkidNum \in Int /\ SkidDen \in Nat /\ SkidDen > 0
    /\ GyroBias \in Int /\ Offset \in Int \X Int
    /\ SlipFloor \in Nat /\ SlipFloor > 0 /\ RateUnit \in Nat /\ RateUnit > 0
    /\ Cells \in Nat /\ Cells > 0 /\ MaxSpeed \in Nat /\ Int16Max \in Nat
  BY InputsAssumption, GeometryAssumption DEF InputsAssumption, GeometryAssumption

(***************************************************************************)
(* The discharge curve.                                                    *)
(***************************************************************************)
LEMMA CurvePoints ==
    /\ Len(Curve) \in Nat /\ Len(Curve) >= 2 /\ DOMAIN Curve = 1 .. Len(Curve)
    /\ \A k \in DOMAIN Curve : Curve[k][1] \in Int /\ Curve[k][2] \in Int
    /\ \A i, j \in DOMAIN Curve :
         i # j => \/ Curve[i][1] < Curve[j][1] /\ Curve[i][2] <= Curve[j][2]
                  \/ Curve[i][1] > Curve[j][1] /\ Curve[i][2] >= Curve[j][2]
  BY CurveAssumption DEF CurveAssumption

\* Of two points the lower one has more points above it.
LEMMA AboveCounts ==
    /\ \A k \in DOMAIN Curve : Cardinality(Above(k)) \in 0 .. Len(Curve) - 1
    /\ \A k, l \in DOMAIN Curve :
         Cardinality(Above(k)) < Cardinality(Above(l)) <=> Curve[k][1] > Curve[l][1]
  <1>. DEFINE n == Len(Curve)
  <1>1. IsFiniteSet(1 .. n) /\ Cardinality(1 .. n) = n
    BY CurvePoints, FS_Interval
  <1>2. \A k \in DOMAIN Curve : Above(k) \subseteq 1 .. n /\ k \notin Above(k)
    BY CurvePoints DEF Above
  <1>3. \A k \in DOMAIN Curve : IsFiniteSet(Above(k)) /\ Cardinality(Above(k)) \in Nat
    BY <1>1, <1>2, FS_Subset, FS_CardinalityType
  <1>4. ASSUME NEW k \in DOMAIN Curve PROVE Cardinality(Above(k)) < n
    <2>1. Above(k) \subseteq 1 .. n /\ Above(k) # 1 .. n
      BY <1>2, <1>4, CurvePoints
    <2>. QED
      BY <1>1, <1>3, <2>1, CurvePoints, FS_Subset
  <1>5. ASSUME NEW k \in DOMAIN Curve, NEW l \in DOMAIN Curve, Curve[k][1] > Curve[l][1]
        PROVE  Cardinality(Above(k)) < Cardinality(Above(l))
    <2>1. Above(k) \subseteq Above(l)
      BY <1>5, CurvePoints DEF Above
    <2>2. k \in Above(l) /\ k \notin Above(k)
      BY <1>5, <1>2 DEF Above
    <2>. QED
      BY <2>1, <2>2, <1>3, FS_Subset
  <1>6. \A k, l \in DOMAIN Curve : Curve[k][1] = Curve[l][1] => k = l
    BY CurvePoints
  <1>7. \A k, l \in DOMAIN Curve :
          Curve[k][1] > Curve[l][1] \/ Curve[l][1] > Curve[k][1] \/ Curve[k][1] = Curve[l][1]
    BY CurvePoints
  <1>. QED
    BY <1>3, <1>4, <1>5, <1>6, <1>7, CurvePoints

\* Every place is taken by one point, and every point has its place.
LEMMA Places ==
    /\ \A i \in 1 .. Len(Curve) :
         \E k \in DOMAIN Curve : Cardinality(Above(k)) = i - 1 /\ SortedCurve[i] = Curve[k]
    /\ \A k \in DOMAIN Curve : \E i \in 1 .. Len(Curve) : SortedCurve[i] = Curve[k]
  <1>. DEFINE n     == Len(Curve)
              place == [k \in 1 .. n |-> Cardinality(Above(k)) + 1]
  <1>1. /\ n \in Nat /\ DOMAIN Curve = 1 .. n
        /\ IsFiniteSet(1 .. n)
    BY CurvePoints, FS_Interval
  <1>2. \A k, l \in DOMAIN Curve : Cardinality(Above(k)) = Cardinality(Above(l)) => k = l
    <2>1. \A k \in DOMAIN Curve : Cardinality(Above(k)) \in Int
      BY AboveCounts, CurvePoints
    <2>2. \A k, l \in DOMAIN Curve :
            k # l => Curve[k][1] > Curve[l][1] \/ Curve[l][1] > Curve[k][1]
      BY CurvePoints
    <2>. QED
      BY <2>1, <2>2, AboveCounts
  <1>3. place \in Injection(1 .. n, 1 .. n)
    <2>1. \A k \in 1 .. n : Cardinality(Above(k)) \in 0 .. n - 1
      BY AboveCounts, <1>1
    <2>2. place \in [1 .. n -> 1 .. n]
      BY <2>1, <1>1
    <2>3. \A k, l \in 1 .. n : place[k] = place[l] => k = l
      BY <1>1, <1>2, <2>1
    <2>. QED
      BY <2>2, <2>3 DEF Injection, IsInjective
  <1>4. place \in Surjection(1 .. n, 1 .. n)
    BY <1>1, <1>3, FS_Injection
  <1>5. ASSUME NEW i \in 1 .. n
        PROVE  \E k \in DOMAIN Curve : Cardinality(Above(k)) = i - 1
    <2>1. PICK k \in 1 .. n : place[k] = i
      BY <1>4 DEF Surjection
    <2>2. Cardinality(Above(k)) \in Nat /\ i = Cardinality(Above(k)) + 1
      BY <2>1, AboveCounts, <1>1
    <2>. QED
      BY <2>2, <1>1
  <1>6. ASSUME NEW i \in 1 .. n
        PROVE  \E k \in DOMAIN Curve : Cardinality(Above(k)) = i - 1 /\ SortedCurve[i] = Curve[k]
    <2>. DEFINE P(k) == Cardinality(Above(k)) = i - 1
    <2>1. \E k \in DOMAIN Curve : P(k)
      BY <1>5
    <2>2. SortedCurve[i] = Curve[CHOOSE k \in DOMAIN Curve : P(k)]
      BY <1>1, Zenon DEF SortedCurve
    <2>. HIDE DEF P
    <2>3. /\ (CHOOSE k \in DOMAIN Curve : P(k)) \in DOMAIN Curve
          /\ P(CHOOSE k \in DOMAIN Curve : P(k))
      BY <2>1, Zenon
    <2>4. \E k \in DOMAIN Curve : P(k) /\ SortedCurve[i] = Curve[k]
      BY <2>2, <2>3, Zenon
    <2>. QED
      BY <2>4, Zenon DEF P
  <1>7. ASSUME NEW k \in DOMAIN Curve
        PROVE  \E i \in 1 .. n : SortedCurve[i] = Curve[k]
    <2>1. place[k] \in 1 .. n /\ Cardinality(Above(k)) = place[k] - 1
      BY AboveCounts, <1>1, CurvePoints
    <2>2. PICK l \in DOMAIN Curve : /\ Cardinality(Above(l)) = place[k] - 1
                                    /\ SortedCurve[place[k]] = Curve[l]
      BY <1>6, <2>1
    <2>. QED
      BY <2>1, <2>2, <1>2
  <1>. QED
    BY <1>6, <1>7

\* The places go by falling voltage, and the charge falls with it.
LEMMA Descending ==
    /\ \A i \in 1 .. Len(Curve) : SortedCurve[i][1] \in Int /\ SortedCurve[i][2] \in Int
    /\ \A i, j \in 1 .. Len(Curve) :
         i < j => /\ SortedCurve[i][1] > SortedCurve[j][1]
                  /\ SortedCurve[i][2] >= SortedCurve[j][2]
  <1>1. \A i \in 1 .. Len(Curve) : SortedCurve[i][1] \in Int /\ SortedCurve[i][2] \in Int
    BY Places, CurvePoints
  <1>2. ASSUME NEW i \in 1 .. Len(Curve), NEW j \in 1 .. Len(Curve), i < j
        PROVE  /\ SortedCurve[i][1] > SortedCurve[j][1]
               /\ SortedCurve[i][2] >= SortedCurve[j][2]
    <2>1. PICK k \in DOMAIN Curve : Cardinality(Above(k)) = i - 1 /\ SortedCurve[i] = Curve[k]
      BY Places
    <2>2. PICK l \in DOMAIN Curve : Cardinality(Above(l)) = j - 1 /\ SortedCurve[j] = Curve[l]
      BY Places
    <2>3. Cardinality(Above(k)) < Cardinality(Above(l))
      BY <1>2, <2>1, <2>2, CurvePoints
    <2>4. Curve[k][1] > Curve[l][1]
      BY <2>3, AboveCounts
    <2>5. k # l /\ Curve[k][1] \in Int /\ Curve[l][1] \in Int
      BY <2>4, CurvePoints
    <2>6. Curve[k][2] >= Curve[l][2]
      BY <2>4, <2>5, CurvePoints
    <2>. QED
      BY <2>1, <2>2, <2>4, <2>6
  <1>. QED
    BY <1>1, <1>2

\* A voltage strictly between the ends of the curve lies on one of its pieces.
LEMMA PieceExists ==
    ASSUME NEW v \in Int,
           v < SortedCurve[1][1] * Cells, v > SortedCurve[Len(Curve)][1] * Cells
    PROVE  Piece(v) \in 1 .. Len(Curve) - 1 /\ Within(v, Piece(v))
  <1>. DEFINE n  == Len(Curve)
              at(i) == SortedCurve[i][1] * Cells
              Below == {i \in 1 .. n : at(i) <= v}
              P(k)  == Within(v, k) /\ \A j \in 1 .. k - 1 : ~Within(v, j)
  <1>1. n \in Nat /\ n >= 2
    BY CurvePoints
  <1>2. \A i \in 1 .. n : at(i) \in Int
    BY Descending, Bounds
  <1>3. n \in Below /\ Below \in SUBSET Nat
    BY <1>1, <1>2
  <1>4. PICK m \in Below : \A i \in Below : m <= i
    BY <1>3, LeastNatural
  <1>. HIDE DEF at
  <1>5. m \in 1 .. n /\ m # 1
    BY <1>1, <1>2, <1>4 DEF at
  <1>6. m - 1 \in 1 .. n /\ m - 1 \notin Below
    BY <1>1, <1>4, <1>5
  <1>7. /\ m - 1 \in 1 .. n - 1 /\ (m - 1) + 1 = m
        /\ at(m) <= v /\ v <= at(m - 1)
    BY <1>1, <1>2, <1>4, <1>5, <1>6
  <1>8. Within(v, m - 1)
    BY <1>7 DEF Within, at
  <1>9. ASSUME NEW j \in 1 .. (m - 1) - 1 PROVE ~Within(v, j)
    <2>1. j + 1 \in 1 .. n /\ j + 1 < m
      BY <1>1, <1>5
    <2>2. v < at(j + 1)
      BY <1>2, <1>4, <2>1
    <2>. QED
      BY <1>2, <2>1, <2>2 DEF Within, at
  <1>10. \E k \in 1 .. n - 1 : P(k)
    BY <1>7, <1>8, <1>9
  <1>11. Piece(v) = CHOOSE k \in 1 .. n - 1 : P(k)
    BY Zenon DEF Piece
  <1>. HIDE DEF P
  <1>12. Piece(v) \in 1 .. n - 1 /\ P(Piece(v))
    BY <1>10, <1>11, Zenon
  <1>. QED
    BY <1>12 DEF P

LEMMA Monotone ==
    ASSUME NEW a \in Int, NEW b \in Int, NEW c \in Nat
    PROVE  a <= b => a * c <= b * c
  OBVIOUS
LEMMA StrictlyMonotone ==
    ASSUME NEW a \in Int, NEW b \in Int, NEW c \in Nat, c > 0, a < b
    PROVE  a * c < b * c
  OBVIOUS

\* On the line between two points the charge is between theirs.
LEMMA LineIsBetween ==
    ASSUME NEW v \in Int, NEW h \in Int, NEW hs \in Int, NEW l \in Int, NEW ls \in Int,
           NEW c \in Nat, c > 0, h > l, hs >= ls, l * c <= v, v <= h * c
    PROVE  /\ (h - l) * c \in Nat /\ (h - l) * c > 0
           /\ ls * (h - l) * c + (v - l * c) * (hs - ls) \in Int
           /\ ls * ((h - l) * c) <= ls * (h - l) * c + (v - l * c) * (hs - ls)
           /\ ls * (h - l) * c + (v - l * c) * (hs - ls) <= hs * ((h - l) * c)
  <1>. DEFINE span == (h - l) * c
              x    == v - l * c
              rise == hs - ls
  <1>1. span \in Nat /\ span > 0
    OBVIOUS
  <1>2. x \in Nat /\ rise \in Nat /\ x <= span
    <2>1. span = h * c - l * c
      OBVIOUS
    <2>2. h * c \in Int /\ l * c \in Int
      OBVIOUS
    <2>. HIDE DEF span
    <2>. QED
      BY <2>1, <2>2
  <1>3. ls * (h - l) * c = ls * span
    OBVIOUS
  <1>. HIDE DEF x
  <1>4. ls * span \in Int /\ x * rise \in Nat /\ x * rise <= span * rise
    BY <1>1, <1>2
  <1>5. hs * span = ls * span + span * rise
    BY <1>1
  <1>. QED
    BY <1>1, <1>2, <1>3, <1>4, <1>5 DEF x

\* The charge of a voltage is a fraction, and lies between the charges of the
\* points of the curve on either side.
LEMMA ChargeFollowsCurve ==
    ASSUME NEW v \in Int
    PROVE  /\ Charge(v).n \in Int /\ Charge(v).d \in Nat /\ Charge(v).d > 0
           /\ \A k \in DOMAIN Curve :
                /\ v <= Curve[k][1] * Cells => Charge(v).n <= Curve[k][2] * Charge(v).d
                /\ v >= Curve[k][1] * Cells => Charge(v).n >= Curve[k][2] * Charge(v).d
  <1>. DEFINE n      == Len(Curve)
              volt(i) == SortedCurve[i][1]
              soc(i)  == SortedCurve[i][2]
              Bracketed(r) ==
                 /\ r.n \in Int /\ r.d \in Nat /\ r.d > 0
                 /\ \A i \in 1 .. n : /\ v <= volt(i) * Cells => r.n <= soc(i) * r.d
                                      /\ v >= volt(i) * Cells => r.n >= soc(i) * r.d
  <1>1. n \in Nat /\ n >= 2 /\ 1 \in 1 .. n /\ n \in 1 .. n
    BY CurvePoints
  <1>2. /\ \A i \in 1 .. n : volt(i) \in Int /\ soc(i) \in Int
        /\ \A i, j \in 1 .. n : i < j => volt(i) > volt(j) /\ soc(i) >= soc(j)
    BY Descending
  <1>8. \A k \in DOMAIN Curve :
          \E i \in 1 .. n : volt(i) = Curve[k][1] /\ soc(i) = Curve[k][2]
    BY Places
  <1>. HIDE DEF volt, soc
  <1>. SUFFICES Bracketed(Charge(v))
    BY <1>8
  <1>3. \A i, j \in 1 .. n : i < j => volt(i) * Cells > volt(j) * Cells
    BY <1>2, Bounds, StrictlyMonotone
  <1>4. \A i \in 1 .. n : volt(i) * Cells \in Int
    BY <1>2, Bounds
  <1>5. CASE v >= volt(1) * Cells
    <2>1. Charge(v) = [n |-> soc(1), d |-> 1]
      <3>1. volt(1) * Cells > volt(n) * Cells
        BY <1>1, <1>3
      <3>2. ~(v <= volt(n) * Cells)
        BY <3>1, <1>1, <1>4, <1>5
      <3>. QED
        BY <1>5, <3>2, Zenon DEF Charge, volt, soc
    <2>2. \A i \in 1 .. n : soc(1) >= soc(i)
      BY <1>1, <1>2
    <2>3. \A i \in 1 .. n : v <= volt(i) * Cells => i = 1
      BY <1>1, <1>3, <1>4, <1>5
    <2>. QED
      BY <1>1, <1>2, <2>1, <2>2, <2>3
  <1>6. CASE ~(v >= volt(1) * Cells) /\ v <= volt(n) * Cells
    <2>1. Charge(v) = [n |-> soc(n), d |-> 1]
      BY <1>6 DEF Charge, volt, soc
    <2>2. \A i \in 1 .. n : soc(n) <= soc(i)
      BY <1>1, <1>2
    <2>3. \A i \in 1 .. n : v >= volt(i) * Cells => i = n
      BY <1>1, <1>3, <1>4, <1>6
    <2>. QED
      BY <1>1, <1>2, <2>1, <2>2, <2>3
  <1>7. CASE ~(v >= volt(1) * Cells) /\ ~(v <= volt(n) * Cells)
    <2>. DEFINE p == Piece(v)
                d == (volt(p) - volt(p + 1)) * Cells
                m == soc(p + 1) * (volt(p) - volt(p + 1)) * Cells
                       + (v - volt(p + 1) * Cells) * (soc(p) - soc(p + 1))
    <2>1. p \in 1 .. n - 1 /\ volt(p + 1) * Cells <= v /\ v <= volt(p) * Cells
      <3>1. v < volt(1) * Cells /\ v > volt(n) * Cells
        BY <1>1, <1>4, <1>7
      <3>2. p \in 1 .. n - 1 /\ Within(v, p)
        BY <3>1, PieceExists DEF volt
      <3>. QED
        BY <3>2 DEF Within, volt
    <2>2. Charge(v) = [n |-> m, d |-> d]
      BY <1>7, Zenon DEF Charge, Interpolate, volt, soc
    <2>. HIDE DEF p
    <2>3. p \in 1 .. n /\ p + 1 \in 1 .. n /\ p < p + 1
      BY <1>1, <2>1
    <2>4. /\ volt(p) \in Int /\ volt(p + 1) \in Int /\ soc(p) \in Int /\ soc(p + 1) \in Int
          /\ volt(p) > volt(p + 1) /\ soc(p) >= soc(p + 1)
      BY <1>2, <2>3
    <2>5. /\ d \in Nat /\ d > 0 /\ m \in Int
          /\ soc(p + 1) * d <= m /\ m <= soc(p) * d
      BY <2>1, <2>4, Bounds, LineIsBetween
    <2>. HIDE DEF d, m
    <2>6. ASSUME NEW i \in 1 .. n, v <= volt(i) * Cells PROVE m <= soc(i) * d
      <3>1. CASE i <= p
        <4>1. soc(p) <= soc(i)
          BY <1>2, <2>3, <2>4, <3>1
        <4>2. soc(p) * d <= soc(i) * d
          BY <4>1, <1>2, <2>4, <2>5, Monotone
        <4>3. soc(p) * d \in Int /\ soc(i) * d \in Int
          BY <1>2, <2>4, <2>5
        <4>. QED
          BY <4>2, <4>3, <2>5
      <3>2. CASE i > p
        <4>1. volt(i) * Cells <= volt(p + 1) * Cells
          BY <1>3, <1>4, <2>3, <3>2
        <4>2. v = volt(p + 1) * Cells
          BY <4>1, <1>4, <2>1, <2>3, <2>6
        <4>3. i = p + 1
          BY <4>2, <1>3, <1>4, <2>3, <2>6, <3>2
        <4>4. m = soc(p + 1) * d
          <5>1. v - volt(p + 1) * Cells = 0
            BY <4>2, <1>4, <2>3
          <5>2. (v - volt(p + 1) * Cells) * (soc(p) - soc(p + 1)) = 0
            BY <5>1, <2>4
          <5>. QED
            BY <5>2, <2>4, Bounds DEF m, d
        <4>. QED
          BY <4>3, <4>4, <2>4, <2>5
      <3>. QED
        BY <3>1, <3>2, <2>3
    <2>7. ASSUME NEW i \in 1 .. n, v >= volt(i) * Cells PROVE m >= soc(i) * d
      <3>1. CASE i >= p + 1
        <4>1. soc(i) <= soc(p + 1)
          BY <1>2, <2>3, <2>4, <3>1
        <4>2. soc(i) * d <= soc(p + 1) * d
          BY <4>1, <1>2, <2>4, <2>5, Monotone
        <4>3. soc(p + 1) * d \in Int /\ soc(i) * d \in Int
          BY <1>2, <2>4, <2>5
        <4>. QED
          BY <4>2, <4>3, <2>5
      <3>2. CASE i < p + 1
        <4>1. volt(i) * Cells >= volt(p) * Cells
          BY <1>3, <1>4, <2>3, <3>2
        <4>2. v = volt(p) * Cells
          BY <4>1, <1>4, <2>1, <2>3, <2>7
        <4>3. i = p
          BY <4>2, <1>3, <1>4, <2>3, <2>7, <3>2
        <4>4. m = soc(p) * d
          <5>1. v - volt(p + 1) * Cells = d
            BY <4>2, <2>4, Bounds DEF d
          <5>2. m = soc(p + 1) * d + d * (soc(p) - soc(p + 1))
            BY <5>1, <2>4, Bounds DEF m, d
          <5>. QED
            BY <5>2, <2>4, <2>5
        <4>. QED
          BY <4>3, <4>4, <2>4, <2>5
      <3>. QED
        BY <3>1, <3>2, <2>3
    <2>. QED
      BY <2>2, <2>5, <2>6, <2>7
  <1>. QED
    BY <1>5, <1>6, <1>7

(***************************************************************************)
(* The other numbers.                                                      *)
(***************************************************************************)
LEMMA Arithmetic ==
    ASSUME NEW a \in Int, NEW b \in Int
    PROVE  /\ Larger(a, b) \in Int /\ a <= Larger(a, b) /\ b <= Larger(a, b)
           /\ Smaller(a, b) \in Int /\ Smaller(a, b) <= a /\ Smaller(a, b) <= b
           /\ Abs(a) \in Nat
  BY DEF Larger, Smaller, Abs

\* The scale is never below the floor, nor below either rate.
LEMMA ScaleBounds ==
    ASSUME NEW enc \in Int, NEW imu \in Int, NEW floor \in Int
    PROVE  /\ Scale(enc, imu, floor) \in Int
           /\ Abs(enc) <= Scale(enc, imu, floor) /\ Abs(imu) <= Scale(enc, imu, floor)
           /\ floor <= Scale(enc, imu, floor)
  BY DEF Scale, Larger, Abs

\* Two rates differ by at most twice the larger, and by at most the larger one
\* when neither opposes the other.
LEMMA Difference ==
    ASSUME NEW enc \in Int, NEW imu \in Int
    PROVE  /\ Abs(enc - imu) <= Abs(enc) + Abs(imu)
           /\ ~(enc * imu < 0) => Abs(enc - imu) <= Larger(Abs(enc), Abs(imu))
  <1>1. Abs(enc - imu) <= Abs(enc) + Abs(imu)
    BY DEF Abs
  <1>2. CASE enc > 0 /\ imu < 0
    <2>1. enc * imu < 0
      BY <1>2
    <2>. QED
      BY <1>1, <2>1
  <1>3. CASE enc < 0 /\ imu > 0
    <2>1. enc * imu < 0
      BY <1>3
    <2>. QED
      BY <1>1, <2>1
  <1>4. CASE ~(enc > 0 /\ imu < 0) /\ ~(enc < 0 /\ imu > 0)
    <2>1. Abs(enc - imu) <= Larger(Abs(enc), Abs(imu))
      BY <1>4 DEF Abs, Larger
    <2>. QED
      BY <1>1, <2>1
  <1>. QED
    BY <1>2, <1>3, <1>4

\* What _compute_slip returns.
LEMMA SlipNumbers ==
    ASSUME NEW f \in Telemetry, track \in Int
    PROVE  /\ Slip(f).ratio.d \in Nat /\ Slip(f).ratio.d > 0
           /\ Slip(f).rate.d \in Nat /\ Slip(f).rate.d > 0 /\ Slip(f).rate.n \in Int
           /\ Slip(f).rate = OdomRate(f)
           /\ Slip(f).ratio.n <= (IF Slip(f).opposed THEN 2 ELSE 1) * Slip(f).ratio.d
           /\ Slip(f).valid => /\ {"imu_ok", "imu_calibrated"} \subseteq f.status
                               /\ "openloop" \notin f.status
  <1>. DEFINE d     == track * SkidNum
              enc   == (f.right - f.left) * SkidDen * RateUnit
              imu   == (f.gyro - GyroBias) * d
              floor == SlipFloor * d
  <1>1. d \in Int /\ f.left \in Int /\ f.right \in Int /\ f.gyro \in Int
    BY Bounds DEF Telemetry
  <1>2. enc \in Int /\ imu \in Int /\ (f.right - f.left) * SkidDen \in Int
    <2>1. f.right - f.left \in Int /\ f.gyro - GyroBias \in Int
      BY <1>1, Bounds
    <2>. HIDE DEF d
    <2>. QED
      BY <1>1, <2>1, Bounds
  <1>3. CASE d <= 0
    <2>1. Slip(f) = NoSlip
      BY <1>3, Zenon DEF Slip
    <2>2. OdomRate(f) = [n |-> 0, d |-> 1]
      <3>1. ~(track * SkidNum > 0)
        BY <1>1, <1>3
      <3>. QED
        BY <3>1, Zenon DEF OdomRate
    <2>. QED
      BY <2>1, <2>2 DEF NoSlip
  <1>4. CASE ~(d <= 0)
    <2>1. d \in Nat /\ d > 0 /\ ~(d <= 0)
      BY <1>1, <1>4
    <2>2. /\ Slip(f).rate = [n |-> (f.right - f.left) * SkidDen, d |-> d]
          /\ Slip(f).ratio = [n |-> Abs(enc - imu), d |-> Scale(enc, imu, floor)]
          /\ Slip(f).opposed = (enc * imu < 0)
          /\ Slip(f).valid => /\ {"imu_ok", "imu_calibrated"} \subseteq f.status
                              /\ "openloop" \notin f.status
      BY <1>4 DEF Slip
    <2>3. OdomRate(f) = [n |-> (f.right - f.left) * SkidDen, d |-> d]
      BY <2>1, Zenon DEF OdomRate
    <2>4. floor \in Int /\ floor > 0
      <3>. HIDE DEF d
      <3>. QED
        BY <2>1, Bounds
    <2>. HIDE DEF d, enc, imu, floor
    <2>. DEFINE scale == Scale(enc, imu, floor)
    <2>5. /\ scale \in Nat /\ scale > 0
          /\ Abs(enc) <= scale /\ Abs(imu) <= scale
      <3>1. /\ scale \in Int /\ floor <= scale
            /\ Abs(enc) <= scale /\ Abs(imu) <= scale
        BY <1>2, <2>4, ScaleBounds, Zenon
      <3>. HIDE DEF scale
      <3>. QED
        BY <2>4, <3>1
    <2>6. /\ Abs(enc) \in Nat /\ Abs(imu) \in Nat /\ Abs(enc - imu) \in Nat
          /\ Larger(Abs(enc), Abs(imu)) <= scale
      BY <1>2, <2>5 DEF Abs, Larger
    <2>7. /\ Abs(enc - imu) <= Abs(enc) + Abs(imu)
          /\ ~(enc * imu < 0) => Abs(enc - imu) <= Larger(Abs(enc), Abs(imu))
      BY <1>2, Difference, Zenon
    <2>8. /\ Abs(enc - imu) <= 2 * scale
          /\ ~(enc * imu < 0) => Abs(enc - imu) <= scale
      <3>. DEFINE opposed == enc * imu < 0
                  larger  == Larger(Abs(enc), Abs(imu))
                  a       == Abs(enc)
                  b       == Abs(imu)
                  c       == Abs(enc - imu)
      <3>1. larger \in Int
        BY <2>6 DEF Larger
      <3>2. c <= a + b /\ (~opposed => c <= larger)
        BY <2>7
      <3>3. a \in Nat /\ b \in Nat /\ c \in Nat /\ larger <= scale /\ a <= scale /\ b <= scale
        BY <2>5, <2>6
      <3>. HIDE DEF opposed, larger, a, b, c, scale
      <3>4. c <= 2 * scale /\ (~opposed => c <= scale)
        BY <2>5, <3>1, <3>2, <3>3
      <3>. QED
        BY <3>4 DEF opposed, c
    <2>. HIDE DEF scale
    <2>9. Slip(f).ratio.n <= (IF Slip(f).opposed THEN 2 ELSE 1) * Slip(f).ratio.d
      <3>1. /\ Slip(f).ratio.n = Abs(enc - imu) /\ Slip(f).ratio.d = scale
            /\ Slip(f).opposed = (enc * imu < 0)
        BY <2>2 DEF scale
      <3>2. CASE Slip(f).opposed
        BY <2>5, <2>8, <3>1, <3>2
      <3>3. CASE ~Slip(f).opposed
        <4>1. Slip(f).ratio.n <= scale
          BY <2>8, <3>1, <3>3
        <4>. QED
          BY <2>5, <3>1, <3>3, <4>1
      <3>. QED
        BY <3>2, <3>3
    <2>. QED
      BY <1>2, <2>1, <2>2, <2>3, <2>5, <2>9 DEF scale
  <1>. QED
    BY <1>3, <1>4

\* The product of two complex numbers, squared.
LEMMA ProductOfParts ==
    ASSUME NEW a \in Int, NEW b \in Int, NEW u \in Int, NEW v \in Int
    PROVE  (a*u - b*v) * (a*v + b*u) = (a*a - b*b) * (u*v) + (a*b) * (u*u - v*v)
  OBVIOUS
LEMMA SquaresOfParts ==
    ASSUME NEW a \in Int, NEW b \in Int, NEW u \in Int, NEW v \in Int
    PROVE  (a*u - b*v) * (a*u - b*v) - (a*v + b*u) * (a*v + b*u)
             = (a*a - b*b) * (u*u - v*v) - 4 * ((a*b) * (u*v))
  OBVIOUS

\* Rotating the quaternion by the offset turns its yaw by the offset's angle,
\* whatever the roll and the pitch: _apply_yaw_offset against the sum of angles
\* in _resolve_orientation.
LEMMA OffsetTurnsYaw ==
    ASSUME NEW q \in Int \X Int \X Int \X Int
    PROVE  /\ Yaw(WithOffset(q)) = Plus(Yaw(q), Yaw(<<Offset[1], 0, 0, Offset[2]>>))
           /\ Yaw(WithOffset(q)) \in Int \X Int
  <1>. DEFINE a == Offset[1]
              b == Offset[2]
              w == q[1]
              x == q[2]
              y == q[3]
              z == q[4]
              A == a*a - b*b
              B == a*b
              W == w*z
              X == x*y
              P == w*w - z*z
              Q == x*x - y*y
              sine   == 2 * ((a*w - b*z) * (a*z + b*w) + (a*x - b*y) * (a*y + b*x))
              cosine == (a*w - b*z) * (a*w - b*z) + (a*x - b*y) * (a*x - b*y)
                          - (a*y + b*x) * (a*y + b*x) - (a*z + b*w) * (a*z + b*w)
  <1>1. a \in Int /\ b \in Int /\ w \in Int /\ x \in Int /\ y \in Int /\ z \in Int
    BY Bounds
  <1>2. Yaw(WithOffset(q)) = <<sine, cosine>>
    BY DEF Yaw, WithOffset
  <1>3. Yaw(q) = <<2 * (w*z + x*y), w*w + x*x - y*y - z*z>>
    BY DEF Yaw
  <1>4. Yaw(<<a, 0, 0, b>>) = <<2 * (a*b + 0*0), a*a + 0*0 - 0*0 - b*b>>
    BY DEF Yaw
  <1>. HIDE DEF a, b, w, x, y, z
  <1>5. A \in Int /\ B \in Int /\ W \in Int /\ X \in Int /\ P \in Int /\ Q \in Int
    BY <1>1
  <1>6. Yaw(q) = <<2 * (W + X), P + Q>>
    <2>1. w*w + x*x - y*y - z*z = P + Q
      BY <1>1
    <2>. QED
      BY <1>3, <2>1
  <1>7. Yaw(<<a, 0, 0, b>>) = <<2 * B, A>>
    <2>1. 2 * (a*b + 0*0) = 2 * B /\ a*a + 0*0 - 0*0 - b*b = A
      BY <1>1
    <2>. QED
      BY <1>4, <2>1
  <1>8. sine = 2 * ((A * W + B * P) + (A * X + B * Q))
    <2>1. (a*w - b*z) * (a*z + b*w) = A * W + B * P
      BY <1>1, ProductOfParts
    <2>2. (a*x - b*y) * (a*y + b*x) = A * X + B * Q
      BY <1>1, ProductOfParts
    <2>. QED
      BY <2>1, <2>2
  <1>9. cosine = (A * P - 4 * (B * W)) + (A * Q - 4 * (B * X))
    <2>. DEFINE s1 == (a*w - b*z) * (a*w - b*z)
                s2 == (a*x - b*y) * (a*x - b*y)
                s3 == (a*y + b*x) * (a*y + b*x)
                s4 == (a*z + b*w) * (a*z + b*w)
    <2>1. s1 - s4 = A * P - 4 * (B * W)
      BY <1>1, SquaresOfParts
    <2>2. s2 - s3 = A * Q - 4 * (B * X)
      BY <1>1, SquaresOfParts
    <2>3. s1 \in Int /\ s2 \in Int /\ s3 \in Int /\ s4 \in Int
      BY <1>1
    <2>4. cosine = s1 + s2 - s3 - s4
      OBVIOUS
    <2>. HIDE DEF s1, s2, s3, s4, cosine, A, B, P, Q, W, X
    <2>5. cosine = (s1 - s4) + (s2 - s3)
      BY <2>3, <2>4
    <2>. QED
      BY <2>1, <2>2, <2>5
  <1>. HIDE DEF A, B, W, X, P, Q, sine, cosine
  <1>10. Plus(Yaw(q), Yaw(<<a, 0, 0, b>>))
           = <<(2 * (W + X)) * A + (P + Q) * (2 * B), (P + Q) * A - (2 * (W + X)) * (2 * B)>>
    BY <1>6, <1>7 DEF Plus
  <1>11. /\ sine = (2 * (W + X)) * A + (P + Q) * (2 * B)
         /\ cosine = (P + Q) * A - (2 * (W + X)) * (2 * B)
         /\ sine \in Int /\ cosine \in Int
    BY <1>5, <1>8, <1>9
  <1>. QED
    BY <1>2, <1>10, <1>11 DEF a, b

\* Rounding a half to the even neighbour keeps the order, and is odd.
LEMMA RoundKeepsOrder ==
    ASSUME NEW g \in Int, NEW h \in Int, g <= h
    PROVE  /\ Round(g) \in Int /\ Round(h) \in Int /\ Round(g) <= Round(h)
           /\ Round(-h) = -Round(h)
  <1>1. /\ g \div 2 \in Int /\ g = 2 * (g \div 2) + (g % 2) /\ g % 2 \in {0, 1}
        /\ h \div 2 \in Int /\ h = 2 * (h \div 2) + (h % 2) /\ h % 2 \in {0, 1}
    OBVIOUS
  <1>2. Round(g) \in Int /\ Round(h) \in Int
    BY <1>1 DEF Round
  <1>3. Round(g) <= Round(h)
    <2>1. CASE g \div 2 = h \div 2
      <3>1. g % 2 <= h % 2
        BY <1>1, <2>1
      <3>. QED
        BY <1>1, <2>1, <3>1 DEF Round
    <2>2. CASE g \div 2 < h \div 2
      BY <1>1, <2>2 DEF Round
    <2>3. g \div 2 <= h \div 2
      BY <1>1
    <2>. QED
      BY <1>1, <2>1, <2>2, <2>3
  <1>4. Round(-h) = -Round(h)
    BY <1>1 DEF Round
  <1>. QED
    BY <1>2, <1>3, <1>4

\* The limits hold for every float, NaN and the infinities among them.
LEMMA ClampLimits ==
    ASSUME NEW x \in [nan : BOOLEAN, v : Int]
    PROVE  ~Clamp(x).nan /\ Clamp(x).v \in -MaxSpeed .. MaxSpeed
  <1>1. MaxSpeed \in Nat /\ x.v \in Int /\ x.nan \in BOOLEAN
    BY Bounds
  <1>2. LET m == PyMin(Float(MaxSpeed), x) IN ~m.nan /\ m.v \in Int /\ m.v <= MaxSpeed
    BY <1>1 DEF PyMin, Less, Float
  <1>. QED
    BY <1>1, <1>2 DEF Clamp, PyMax, Less, Float

\* Of the battery lines that compete in a frame, the one logged is the frame's level.
LEMMA WorstLineIsLogged ==
    ASSUME NEW old, NEW new, Level(old) < Level(new)
    PROVE  Level(BatteryLine(new \ old)) = Level(new)
  <1>1. /\ \A s : Level(s) \in {0, 1, 2, 3}
        /\ Level({"dead"}) = 3 /\ Level({"critical"}) = 2 /\ Level({"warn"}) = 1 /\ Level({}) = 0
    BY Zenon DEF Level
  <1>2. CASE "dead" \in new
    <2>1. "dead" \notin old
      BY <1>2 DEF Level
    <2>. QED
      BY <1>1, <1>2, <2>1 DEF Level, BatteryLine
  <1>3. CASE "dead" \notin new /\ "critical" \in new
    <2>1. "critical" \notin old
      BY <1>3 DEF Level
    <2>. QED
      BY <1>1, <1>3, <2>1 DEF Level, BatteryLine
  <1>4. CASE "dead" \notin new /\ "critical" \notin new /\ "warn" \in new
    <2>1. "warn" \notin old
      BY <1>4 DEF Level
    <2>2. "warn" \in BatteryLine(new \ old) /\ BatteryLine(new \ old) \subseteq {"warn"}
      BY <1>4, <2>1 DEF BatteryLine
    <2>. QED
      BY <1>4, <2>2 DEF Level
  <1>5. CASE "dead" \notin new /\ "critical" \notin new /\ "warn" \notin new
    BY <1>1, <1>5 DEF Level
  <1>. QED
    BY <1>2, <1>3, <1>4, <1>5

(***************************************************************************)
(* Theorems.  Only OnTelemetry publishes; of the other steps a proof needs *)
(* to know what they leave alone.                                          *)
(***************************************************************************)
\* The track width is a number, before and after a BOOT_INFO.
LEMMA TrackIsInt ==
    ASSUME TypeOK
    PROVE  track \in Int
  <1>1. track \in Tracks \union {DefaultTrack}
    BY DEF TypeOK
  <1>. QED
    BY <1>1, Bounds

\* What a frame changes.
LEMMA FrameEffect ==
    ASSUME NEW f \in Frames, OnTelemetry(f)
    PROVE  /\ f \in Telemetry
           /\ \E v \in IF f.battery = 0 THEN {filtered} ELSE Filtered(f.battery) :
                /\ filtered' = v
                /\ topics'.odom = Odom(f) /\ topics'.imu = Imu(f) /\ topics'.slip = Slip(f)
                /\ topics'.charge = IF f.battery = 0 THEN None ELSE Charge(v)
           /\ UNCHANGED <<track, cached, warned, pc, wrong, toldWrong>>
           /\ readings' = IF f.battery = 0 THEN readings
                          ELSE IF readings = None THEN <<f.battery, f.battery>>
                          ELSE <<Smaller(readings[1], f.battery), Larger(readings[2], f.battery)>>
  BY Bounds DEF OnTelemetry, Battery, version

\* The steps that publish nothing.
LEMMA QuietSteps ==
    ASSUME [Next]_vars, ~ \E f \in Frames : OnTelemetry(f)
    PROVE  UNCHANGED <<filtered, topics, readings, flags, heard>>
  BY DEF Next, vars, numbers, version, OnBootInfo, WrongLength, SetWarned, LogError, PortOpens,
         OnCmdVel

\* The filter stays within the readings.
THEOREM FilterInvariant == Spec => []FilterInv
  <1>1. Init => FilterInv
    BY DEF Init, FilterInv
  <1>2. FilterInv /\ [Next]_vars => FilterInv'
    <2>. SUFFICES ASSUME FilterInv, [Next]_vars PROVE FilterInv'
      OBVIOUS
    <2>1. ASSUME NEW f \in Frames, OnTelemetry(f) PROVE FilterInv'
      <3>1. f.battery \in Nat
        BY Bounds DEF Telemetry
      <3>2. CASE f.battery = 0
        BY <2>1, <3>2, FrameEffect DEF FilterInv
      <3>3. CASE f.battery # 0 /\ filtered = None
        BY <2>1, <3>1, <3>3, FrameEffect, Bounds DEF FilterInv, Filtered
      <3>4. CASE f.battery # 0 /\ filtered # None
        <4>1. /\ readings[1] \in Nat /\ readings[2] \in Nat /\ filtered \in Nat /\ readings # None
              /\ readings[1] <= filtered /\ filtered <= readings[2]
          BY <3>4 DEF FilterInv
        <4>2. PICK v \in Between(filtered, f.battery) : filtered' = v
          BY <2>1, <3>4, FrameEffect DEF Filtered
        <4>3. readings' = <<Smaller(readings[1], f.battery), Larger(readings[2], f.battery)>>
          BY <2>1, <3>4, <4>1, FrameEffect
        <4>4. /\ readings' \in Nat \X Nat /\ filtered' \in Nat
              /\ readings'[1] <= filtered' /\ filtered' <= readings'[2]
          BY <3>1, <4>1, <4>2, <4>3 DEF Between, Larger, Smaller
        <4>. QED
          BY <4>4, Bounds DEF FilterInv
      <3>. QED
        BY <3>2, <3>3, <3>4
    <2>2. CASE ~ \E f \in Frames : OnTelemetry(f)
      BY <2>2, QuietSteps DEF FilterInv
    <2>. QED
      BY <2>1, <2>2
  <1>. QED
    BY <1>1, <1>2, PTL DEF Spec

\* Every variable keeps its type, and nothing is divided by zero: not by a track
\* that BOOT_INFO left at zero, nor by a slip of no motion, nor by a piece of the
\* curve.
THEOREM TypeCorrect == Spec => []TypeOK
  <1>1. Init => TypeOK
    BY DEF Init, TypeOK, Published
  <1>2. TypeOK /\ FilterInv /\ FilterInv' /\ [Next]_vars => TypeOK'
    <2>. SUFFICES ASSUME TypeOK, FilterInv, FilterInv', [Next]_vars PROVE TypeOK'
      OBVIOUS
    <2>1. ASSUME NEW f \in Frames, OnTelemetry(f) PROVE TypeOK'
      <3>1. track \in Int
        BY TrackIsInt
      <3>2. /\ topics'.slip.ratio.d > 0 /\ topics'.slip.rate.d > 0 /\ topics'.odom.rate.d > 0
        <4>1. Slip(f).ratio.d > 0 /\ Slip(f).rate.d > 0 /\ OdomRate(f).d > 0
          BY <2>1, <3>1, FrameEffect, SlipNumbers
        <4>2. topics'.slip = Slip(f) /\ topics'.odom.rate = OdomRate(f)
          <5>1. topics'.slip = Slip(f) /\ topics'.odom = Odom(f)
            BY <2>1, FrameEffect
          <5>2. Odom(f).rate = OdomRate(f)
            BY DEF Odom
          <5>. QED
            BY <5>1, <5>2
        <4>. QED
          BY <4>1, <4>2
      <3>3. topics'.charge # None => topics'.charge.d > 0
        <4>1. SUFFICES ASSUME topics'.charge # None PROVE topics'.charge.d > 0
          OBVIOUS
        <4>2. f.battery # 0
          BY <2>1, <4>1, FrameEffect
        <4>3. topics'.charge = Charge(filtered') /\ filtered' \in Int
          BY <2>1, <4>2, FrameEffect, Bounds DEF FilterInv, Filtered
        <4>. QED
          BY <4>3, ChargeFollowsCurve
      <3>. QED
        BY <2>1, <3>2, <3>3, FrameEffect DEF TypeOK, Published, FilterInv
    <2>2. CASE ~ \E f \in Frames : OnTelemetry(f)
      <3>1. (Published => /\ topics.slip.ratio.d > 0 /\ topics.slip.rate.d > 0
                          /\ topics.odom.rate.d > 0
                          /\ topics.charge # None => topics.charge.d > 0)'
        BY <2>2, QuietSteps DEF TypeOK, Published
      <3>2. (track \in Tracks \union {DefaultTrack})'
        BY <2>2 DEF TypeOK, Next, vars, numbers, version, OnBootInfo, WrongLength, SetWarned,
                    LogError, PortOpens, OnCmdVel
      <3>3. (pc \in {"idle", "warn", "log"} /\ warned \in BOOLEAN /\ wrong \in BOOLEAN
              /\ toldWrong \in BOOLEAN)'
        BY <2>2 DEF TypeOK, Next, vars, numbers, version, OnBootInfo, WrongLength, SetWarned,
                    LogError, PortOpens, OnCmdVel
      <3>. QED
        BY <3>1, <3>2, <3>3 DEF TypeOK, FilterInv
    <2>. QED
      BY <2>1, <2>2
  <1>. QED
    BY <1>1, <1>2, FilterInvariant, PTL DEF Spec

\* Odometry and the slip estimate turn at one rate.
THEOREM RatesAgree == Spec => []OneTurnRate
  <1>1. Init => OneTurnRate
    BY DEF Init, OneTurnRate, Published
  <1>2. TypeOK /\ OneTurnRate /\ [Next]_vars => OneTurnRate'
    <2>. SUFFICES ASSUME TypeOK, OneTurnRate, [Next]_vars PROVE OneTurnRate'
      OBVIOUS
    <2>1. ASSUME NEW f \in Frames, OnTelemetry(f) PROVE OneTurnRate'
      <3>1. track \in Int
        BY TrackIsInt
      <3>2. /\ topics'.odom.rate = OdomRate(f) /\ topics'.slip.rate = OdomRate(f)
            /\ OdomRate(f).n \in Int /\ OdomRate(f).d \in Nat
        <4>1. topics'.slip = Slip(f) /\ topics'.odom = Odom(f) /\ f \in Telemetry
          BY <2>1, FrameEffect
        <4>2. Odom(f).rate = OdomRate(f)
          BY DEF Odom
        <4>. QED
          BY <3>1, <4>1, <4>2, SlipNumbers
      <3>. QED
        BY <3>2 DEF OneTurnRate, SameRate
    <2>2. CASE ~ \E f \in Frames : OnTelemetry(f)
      BY <2>2, QuietSteps DEF OneTurnRate, Published
    <2>. QED
      BY <2>1, <2>2
  <1>. QED
    BY <1>1, <1>2, TypeCorrect, PTL DEF Spec

\* The heading that odometry and TF take from the IMU is that of the quaternion
\* drive/imu publishes, for every attitude and every offset.
THEOREM OneHeading == Spec => []HeadingsAgree
  <1>1. Init => HeadingsAgree
    BY DEF Init, HeadingsAgree, Published
  <1>2. HeadingsAgree /\ [Next]_vars => HeadingsAgree'
    <2>. SUFFICES ASSUME HeadingsAgree, [Next]_vars PROVE HeadingsAgree'
      OBVIOUS
    <2>1. ASSUME NEW f \in Frames, OnTelemetry(f),
                 topics'.odom.pose.source = "imu", Yaw(topics'.imu.quat) # <<0, 0>>
          PROVE  /\ SameDirection(topics'.odom.pose.yaw, Yaw(topics'.imu.quat))
                 /\ topics'.odom.pose.trusted = topics'.imu.trusted
      <3>. DEFINE rotated == Yaw(WithOffset(f.quat))
      <3>1. /\ topics'.odom = Odom(f) /\ topics'.imu = Imu(f)
            /\ f.quat \in Int \X Int \X Int \X Int
        BY <2>1, FrameEffect DEF Telemetry
      <3>2. Odom(f).pose = Orientation(f)
        BY DEF Odom
      <3>3. UseImu /\ "imu_ok" \in f.status
        BY <2>1, <3>1, <3>2 DEF Orientation
      <3>4. /\ Orientation(f).yaw = rotated
            /\ Orientation(f).trusted = ("imu_calibrated" \in f.status)
        BY <3>1, <3>3, OffsetTurnsYaw DEF Orientation
      <3>5. Imu(f).quat = WithOffset(f.quat) /\ Imu(f).trusted = ("imu_calibrated" \in f.status)
        BY <3>3 DEF Imu
      <3>6. rotated \in Int \X Int /\ rotated # <<0, 0>>
        BY <2>1, <3>1, <3>5, OffsetTurnsYaw
      <3>. HIDE DEF rotated
      <3>7. SameDirection(rotated, rotated)
        <4>1. rotated[1] \in Int /\ rotated[2] \in Int /\ (rotated[1] # 0 \/ rotated[2] # 0)
          BY <3>6
        <4>2. \A a, b \in Int : a # 0 \/ b # 0 => a * a + b * b > 0 /\ a * b = b * a
          OBVIOUS
        <4>. QED
          BY <4>1, <4>2 DEF SameDirection
      <3>. QED
        BY <3>1, <3>2, <3>4, <3>5, <3>7 DEF rotated
    <2>2. CASE ~ \E f \in Frames : OnTelemetry(f)
      BY <2>2, QuietSteps DEF HeadingsAgree, Published
    <2>. QED
      BY <2>1, <2>2 DEF HeadingsAgree
  <1>. QED
    BY <1>1, <1>2, PTL DEF Spec

\* A slip ratio is normalised, and valid only on inputs the other topics vouch for.
THEOREM SlipIsBounded == Spec => []SlipIsNormalised
  <1>1. Init => SlipIsNormalised
    BY DEF Init, SlipIsNormalised, Published
  <1>2. TypeOK /\ SlipIsNormalised /\ [Next]_vars => SlipIsNormalised'
    <2>. SUFFICES ASSUME TypeOK, SlipIsNormalised, [Next]_vars PROVE SlipIsNormalised'
      OBVIOUS
    <2>1. ASSUME NEW f \in Frames, OnTelemetry(f) PROVE SlipIsNormalised'
      <3>1. track \in Int
        BY TrackIsInt
      <3>2. topics'.slip = Slip(f) /\ topics'.odom = Odom(f) /\ topics'.imu = Imu(f)
        BY <2>1, FrameEffect
      <3>3. /\ Slip(f).ratio.n <= (IF Slip(f).opposed THEN 2 ELSE 1) * Slip(f).ratio.d
            /\ Slip(f).valid => /\ {"imu_ok", "imu_calibrated"} \subseteq f.status
                                /\ "openloop" \notin f.status
        BY <2>1, <3>1, FrameEffect, SlipNumbers
      <3>4. Odom(f).inflated = ("openloop" \in f.status)
        BY DEF Odom
      <3>5. Slip(f).valid => Imu(f).present /\ Imu(f).trusted
        BY <3>3 DEF Imu
      <3>. QED
        BY <3>2, <3>3, <3>4, <3>5 DEF SlipIsNormalised
    <2>2. CASE ~ \E f \in Frames : OnTelemetry(f)
      BY <2>2, QuietSteps DEF SlipIsNormalised, Published
    <2>. QED
      BY <2>1, <2>2
  <1>. QED
    BY <1>1, <1>2, TypeCorrect, PTL DEF Spec

\* The charge stays between those of the points of the curve that enclose the
\* readings, in whatever order the parameters list the curve.
THEOREM ChargeStaysWithinReadings == Spec => []ChargeWithinReadings
  <1>1. Init => ChargeWithinReadings
    BY DEF Init, ChargeWithinReadings, Published
  <1>2. FilterInv' /\ ChargeWithinReadings /\ [Next]_vars => ChargeWithinReadings'
    <2>. SUFFICES ASSUME FilterInv', ChargeWithinReadings, [Next]_vars
                  PROVE  ChargeWithinReadings'
      OBVIOUS
    <2>1. ASSUME NEW f \in Frames, OnTelemetry(f), topics'.charge # None,
                 NEW k \in DOMAIN Curve
          PROVE  LET v == Curve[k][1] * Cells
                     s == Curve[k][2] * topics'.charge.d
                 IN  /\ readings'[2] <= v => topics'.charge.n <= s
                     /\ readings'[1] >= v => topics'.charge.n >= s
      <3>. DEFINE w == filtered'
                  v == Curve[k][1] * Cells
      <3>1. f.battery # 0 /\ f.battery \in Nat
        BY <2>1, FrameEffect DEF Telemetry
      <3>2. topics'.charge = Charge(w) /\ w # None /\ w \in Nat
        <4>1. PICK u \in IF f.battery = 0 THEN {filtered} ELSE Filtered(f.battery) :
                /\ w = u
                /\ topics'.charge = IF f.battery = 0 THEN None ELSE Charge(u)
          BY <2>1, FrameEffect
        <4>2. topics'.charge = Charge(w)
          BY <3>1, <4>1
        <4>3. w # None
          <5>1. w \in Filtered(f.battery)
            BY <3>1, <4>1
          <5>2. Filtered(f.battery) \subseteq Int
            BY <3>1 DEF Filtered, Between
          <5>. QED
            BY <5>1, <5>2, Bounds
        <4>. QED
          BY <4>2, <4>3 DEF FilterInv
      <3>3. /\ readings'[1] \in Nat /\ readings'[2] \in Nat
            /\ readings'[1] <= w /\ w <= readings'[2]
        BY <3>2 DEF FilterInv
      <3>4. v \in Int
        BY CurvePoints, Bounds
      <3>5. /\ w <= v => Charge(w).n <= Curve[k][2] * Charge(w).d
            /\ w >= v => Charge(w).n >= Curve[k][2] * Charge(w).d
        BY <3>2, ChargeFollowsCurve
      <3>. HIDE DEF w, v
      <3>6. (readings'[2] <= v => w <= v) /\ (readings'[1] >= v => w >= v)
        BY <3>2, <3>3, <3>4
      <3>. QED
        BY <3>2, <3>5, <3>6 DEF v
    <2>2. CASE ~ \E f \in Frames : OnTelemetry(f)
      BY <2>2, QuietSteps DEF ChargeWithinReadings, Published
    <2>. QED
      BY <2>1, <2>2 DEF ChargeWithinReadings
  <1>. QED
    BY <1>1, <1>2, FilterInvariant, PTL DEF Spec

\* Every e-stop and encoder loss is known from the log, begun and over; every stall
\* and every worsening of the battery has its line in the frame that brings it.
THEOREM LogIsComplete == Spec => LogTellsTheState
  <1>1. Init => HeardInv
    BY DEF Init, HeardInv
  <1>2. HeardInv /\ [Next]_vars => HeardInv' /\ heard' = flags' \cap Announced
    <2>. SUFFICES ASSUME HeardInv, [Next]_vars PROVE heard' = flags' \cap Announced
      BY DEF HeardInv
    <2>1. ASSUME NEW f \in Frames, OnTelemetry(f) PROVE heard' = flags' \cap Announced
      <3>1. /\ flags' = f.status
            /\ heard' = (heard \ FallsLogged(f.status)) \union (RisesLogged(f.status) \cap Announced)
        BY <2>1 DEF OnTelemetry
      <3>2. BatteryLine(f.status \ flags) \cap Announced = {}
        BY DEF BatteryLine, Announced
      <3>3. RisesLogged(f.status) \cap Announced = (f.status \ flags) \cap Announced
        BY <3>2 DEF RisesLogged
      <3>. QED
        BY <3>1, <3>3 DEF HeardInv, FallsLogged
    <2>2. CASE ~ \E f \in Frames : OnTelemetry(f)
      BY <2>2, QuietSteps DEF HeardInv
    <2>. QED
      BY <2>1, <2>2
  <1>3. /\ "stall" \in flags' \ flags => "stall" \in RisesLogged(flags')
        /\ Level(flags') > Level(flags) => Level(RisesLogged(flags')) = Level(flags')
    <2>1. Level(RisesLogged(flags')) = Level(BatteryLine(flags' \ flags))
      <3>1. \A l \in {"dead", "critical", "warn"} :
              l \in RisesLogged(flags') <=> l \in BatteryLine(flags' \ flags)
        BY DEF RisesLogged, Announced
      <3>. QED
        BY <3>1 DEF Level
    <2>2. Level(flags') > Level(flags) => Level(flags) < Level(flags')
      BY DEF Level
    <2>. QED
      BY <2>1, <2>2, WorstLineIsLogged DEF RisesLogged
  <1>4. HeardInv /\ [Next]_vars =>
          [ /\ heard' = flags' \cap Announced
            /\ "stall" \in flags' \ flags => "stall" \in RisesLogged(flags')
            /\ Level(flags') > Level(flags) => Level(RisesLogged(flags')) = Level(flags') ]_vars
    BY <1>2, <1>3
  <1>. QED
    BY <1>1, <1>2, <1>4, PTL DEF Spec, LogTellsTheState

\* Between two frames a disarmed warning has been logged since the port opened.
THEOREM WarningInvariant == Spec => []WarningInv
  <1>1. Init => WarningInv
    BY DEF Init, WarningInv
  <1>2. WarningInv /\ [Next]_vars => WarningInv'
    BY DEF WarningInv, Next, vars, numbers, version, OnTelemetry, OnBootInfo, WrongLength,
           SetWarned, LogError, PortOpens, OnCmdVel
  <1>. QED
    BY <1>1, <1>2, PTL DEF Spec

\* A firmware with other frames is reported in every session of the port.
THEOREM MismatchIsAlwaysReported == Spec => []MismatchIsReported
  <1>1. WarningInv => MismatchIsReported
    BY DEF WarningInv, MismatchIsReported
  <1>. QED
    BY <1>1, WarningInvariant, PTL

\* What waits to be sent is a number within the limits, whatever cmd_vel said.
THEOREM SpeedInvariant == Spec => []SpeedInv
  <1>1. Init => SpeedInv
    BY Bounds DEF Init, SpeedInv, Float
  <1>2. SpeedInv /\ [Next]_vars => SpeedInv'
    <2>. SUFFICES ASSUME SpeedInv, [Next]_vars PROVE SpeedInv'
      OBVIOUS
    <2>1. ASSUME NEW x \in Twists, OnCmdVel(x) PROVE SpeedInv'
      BY <2>1, ClampLimits, Bounds DEF OnCmdVel, SpeedInv
    <2>2. CASE ~ \E x \in Twists : OnCmdVel(x)
      BY <2>2 DEF SpeedInv, Next, vars, version, OnTelemetry, OnBootInfo, WrongLength,
                  SetWarned, LogError, PortOpens
    <2>. QED
      BY <2>1, <2>2
  <1>. QED
    BY <1>1, <1>2, PTL DEF Spec

\* So the timer that feeds the MCU can always encode it, within the limits.
THEOREM EveryTwistCanBeSent == Spec => []EveryTwistIsSendable
  <1>1. SpeedInv => EveryTwistIsSendable
    <2>. SUFFICES ASSUME SpeedInv PROVE EveryTwistIsSendable
      OBVIOUS
    <2>. DEFINE r == Round(cached.v)
                R == Round(MaxSpeed)
    <2>1. cached.v \in Int /\ -MaxSpeed <= cached.v /\ cached.v <= MaxSpeed /\ -MaxSpeed \in Int
      BY Bounds DEF SpeedInv
    <2>2. R \in Int /\ r \in Int /\ r <= R /\ Round(-MaxSpeed) = -R
      BY <2>1, Bounds, RoundKeepsOrder
    <2>3. Round(-MaxSpeed) <= r
      BY <2>1, RoundKeepsOrder
    <2>. HIDE DEF r, R
    <2>4. -R <= r
      BY <2>2, <2>3
    <2>5. OnWire(cached) = Larger(-Int16Max - 1, Smaller(Int16Max, r))
      BY DEF OnWire, SpeedInv, r
    <2>6. /\ Larger(-Int16Max - 1, Smaller(Int16Max, r)) \in Int
          /\ Abs(Larger(-Int16Max - 1, Smaller(Int16Max, r))) <= R
      BY <2>2, <2>4, Bounds DEF Larger, Smaller, Abs
    <2>. QED
      BY <2>5, <2>6, Bounds DEF EveryTwistIsSendable, R
  <1>. QED
    BY <1>1, SpeedInvariant, PTL

(***************************************************************************)
(* The calibration tool beside the bridge.                                 *)
(***************************************************************************)
\* The tool only listens: what holds of the bridge alone holds of it beside the
\* tool, for every theorem above.
THEOREM ToolOnlyListens == CalibSpec => Spec
  <1>1. CalibInit => Init
    BY DEF CalibInit
  <1>2. [CalibNext]_calibVars => [Next]_vars
    BY CalibrationAssumption
    DEF CalibrationAssumption, CalibNext, calibVars, Next, BridgeStep, IgnoreStatus, FirstStatus,
        SkipStatus, OnStatus
  <1>. QED
    BY <1>1, <1>2, PTL DEF CalibSpec, Spec

LEMMA CalibBounds ==
    /\ Turns \subseteq Frames /\ Gaps \subseteq Nat
    /\ MinRate \in Nat /\ MinRate > 0 /\ MaxGap \in Nat
  BY CalibrationAssumption DEF CalibrationAssumption

\* Products keep the sign, and a positive factor can be taken away.
LEMMA ProductSigns ==
    ASSUME NEW a \in Int, NEW b \in Int
    PROVE  /\ a * b \in Int
           /\ a > 0 /\ b > 0 => a * b > 0
           /\ a >= 0 /\ b >= 0 => a * b >= 0
           /\ a > 0 /\ a * b >= 0 => b >= 0
           /\ a > 0 /\ a * b > 0 => b > 0
           /\ a * a >= 0 /\ (a # 0 => a * a > 0)
  OBVIOUS

\* A sum is the sum of the cross products over a positive common factor.
LEMMA SumOfFractions ==
    ASSUME NEW a \in [n : Int, d : Nat \ {0}], NEW b \in [n : Int, d : Nat \ {0}]
    PROVE  /\ Sum(a, b) \in [n : Int, d : Nat \ {0}]
           /\ \E k \in Nat : /\ k > 0
                             /\ k * Sum(a, b).n = a.n * b.d + b.n * a.d
                             /\ k * Sum(a, b).d = a.d * b.d
  <1>1. /\ a.n \in Int /\ b.n \in Int /\ a.d \in Int /\ b.d \in Int
        /\ a.d > 0 /\ b.d > 0 /\ a.d * b.d \in Int /\ a.d * b.d > 0
        /\ a.n * b.d \in Int /\ b.n * a.d \in Int
    BY ProductSigns
  <1>2. CASE a.d = b.d
    <2>1. Sum(a, b) = [n |-> a.n + b.n, d |-> a.d]
      BY <1>2 DEF Sum
    <2>2. a.d * (a.n + b.n) = a.n * b.d + b.n * a.d
      BY <1>1, <1>2
    <2>. QED
      BY <1>1, <1>2, <2>1, <2>2
  <1>3. CASE a.d # b.d
    <2>1. Sum(a, b) = [n |-> a.n * b.d + b.n * a.d, d |-> a.d * b.d]
      BY <1>3 DEF Sum
    <2>2. a.n * b.d + b.n * a.d \in Int
      BY <1>1
    <2>3. /\ 1 * (a.n * b.d + b.n * a.d) = a.n * b.d + b.n * a.d
          /\ 1 * (a.d * b.d) = a.d * b.d
      BY <1>1, <2>2
    <2>. QED
      BY <1>1, <2>1, <2>2, <2>3
  <1>. QED
    BY <1>2, <1>3

\* Polynomial identities behind the two lemmas that follow.
LEMMA MediantIdentity ==
    ASSUME NEW e \in Int, NEW ed \in Int, NEW i \in Int, NEW id \in Int,
           NEW g \in Int, NEW gd \in Int, NEW h \in Int, NEW hd \in Int,
           NEW c \in Int, NEW y \in Int
    PROVE  (e * gd + g * ed) * (id * hd) * c - y * ((ed * gd) * (i * hd + h * id))
             = (gd * hd) * (e * id * c - y * (ed * i)) + (ed * id) * (g * hd * c - y * (gd * h))
  OBVIOUS

LEMMA TransferIdentity ==
    ASSUME NEW e \in Int, NEW ed \in Int, NEW i \in Int, NEW id \in Int,
           NEW c \in Int, NEW y \in Int, NEW cv \in Int, NEW yv \in Int
    PROVE  (i * c) * (e * id * cv - yv * (ed * i))
             = (i * cv) * (e * id * c - y * (ed * i)) + (ed * (i * i)) * (y * cv - yv * c)
  OBVIOUS

LEMMA GainIdentity ==
    ASSUME NEW w \in Int, NEW q \in Int, NEW dt \in Int, NEW r \in Int, NEW x \in Int,
           NEW b \in Int, NEW c \in Int, NEW y \in Int
    PROVE  (w * q * dt) * r * c - y * (x * (b * dt))
             = dt * ((w * r * q) * c - y * (x * b))
  OBVIOUS

LEMMA CommonFactors ==
    ASSUME NEW k \in Int, NEW m \in Int, NEW sn \in Int, NEW sd \in Int, NEW tn \in Int,
           NEW td \in Int, NEW c \in Int, NEW y \in Int
    PROVE  (k * sn) * (m * td) * c - y * ((k * sd) * (m * tn))
             = (k * m) * (sn * td * c - y * (sd * tn))
  OBVIOUS

\* A positive combination of two numbers lies on their side of 0.
LEMMA Combination ==
    ASSUME NEW r \in Int, NEW p \in Int, NEW q \in Int, r > 0, p > 0, q > 0,
           NEW a \in Int, NEW b \in Int, NEW z \in Int, r * z = p * a + q * b
    PROVE  /\ a >= 0 /\ b >= 0 => z >= 0
           /\ a <= 0 /\ b <= 0 => z <= 0
           /\ a >= 0 /\ b > 0 => z > 0
  <1>1. /\ a >= 0 => p * a >= 0
        /\ a <= 0 => p * a <= 0
        /\ b >= 0 => q * b >= 0
        /\ b <= 0 => q * b <= 0
        /\ b > 0 => q * b > 0
    OBVIOUS
  <1>2. /\ p * a \in Int /\ q * b \in Int /\ r * z \in Int
        /\ z < 0 => r * z < 0
        /\ z > 0 => r * z > 0
        /\ z = 0 => r * z = 0
    OBVIOUS
  <1>. QED
    BY <1>1, <1>2

\* Two ratios of fractions on one side of a bound have their sums on that side.
LEMMA Mediant ==
    ASSUME NEW a \in [n : Int, d : Nat \ {0}], NEW b \in [n : Int, d : Nat \ {0}],
           NEW u \in [n : Int, d : Nat \ {0}], NEW v \in [n : Int, d : Nat \ {0}],
           NEW c \in Int, NEW y \in Int
    PROVE  LET old  == a.n * u.d * c - y * (a.d * u.n)
               gain == b.n * v.d * c - y * (b.d * v.n)
               new  == Sum(a, b).n * Sum(u, v).d * c - y * (Sum(a, b).d * Sum(u, v).n)
           IN  /\ new \in Int
               /\ old >= 0 /\ gain >= 0 => new >= 0
               /\ old <= 0 /\ gain <= 0 => new <= 0
  <1>. DEFINE s == Sum(a, b)
              t == Sum(u, v)
              old  == a.n * u.d * c - y * (a.d * u.n)
              gain == b.n * v.d * c - y * (b.d * v.n)
              new  == s.n * t.d * c - y * (s.d * t.n)
  <1>1. /\ a.n \in Int /\ a.d \in Int /\ b.n \in Int /\ b.d \in Int
        /\ u.n \in Int /\ u.d \in Int /\ v.n \in Int /\ v.d \in Int
        /\ a.d > 0 /\ b.d > 0 /\ u.d > 0 /\ v.d > 0
    OBVIOUS
  <1>2. /\ s.n \in Int /\ s.d \in Int /\ t.n \in Int /\ t.d \in Int
    BY SumOfFractions
  <1>3. PICK k \in Nat : k > 0 /\ k * s.n = a.n * b.d + b.n * a.d /\ k * s.d = a.d * b.d
    BY SumOfFractions
  <1>4. PICK m \in Nat : m > 0 /\ m * t.n = u.n * v.d + v.n * u.d /\ m * t.d = u.d * v.d
    BY SumOfFractions
  <1>. HIDE DEF s, t
  <1>5. (k * m) * new = (b.d * v.d) * old + (a.d * u.d) * gain
    <2>1. (k * s.n) * (m * t.d) * c - y * ((k * s.d) * (m * t.n)) = (k * m) * new
      BY <1>2, <1>3, <1>4, CommonFactors
    <2>2. (a.n * b.d + b.n * a.d) * (u.d * v.d) * c - y * ((a.d * b.d) * (u.n * v.d + v.n * u.d))
            = (b.d * v.d) * old + (a.d * u.d) * gain
      BY <1>1, MediantIdentity
    <2>. QED
      BY <2>1, <2>2, <1>3, <1>4
  <1>6. /\ k * m \in Int /\ b.d * v.d \in Int /\ a.d * u.d \in Int
        /\ k * m > 0 /\ b.d * v.d > 0 /\ a.d * u.d > 0
    BY <1>1, <1>3, <1>4, ProductSigns
  <1>7. old \in Int /\ gain \in Int /\ new \in Int
    BY <1>1, <1>2
  <1>. HIDE DEF old, gain, new
  <1>8. /\ old >= 0 /\ gain >= 0 => new >= 0
        /\ old <= 0 /\ gain <= 0 => new <= 0
    BY <1>5, <1>6, <1>7, Combination
  <1>. QED
    BY <1>7, <1>8 DEF old, gain, new, s, t

\* The sum of two angles turned one way is turned that way.
LEMMA SumSign ==
    ASSUME NEW u \in [n : Int, d : Nat \ {0}], NEW v \in [n : Int, d : Nat \ {0}],
           NEW b \in Int, u.n * b >= 0, v.n * b > 0
    PROVE  Sum(u, v).n * b > 0
  <1>. DEFINE t == Sum(u, v)
              old  == u.n * b
              gain == v.n * b
  <1>1. /\ u.n \in Int /\ u.d \in Int /\ v.n \in Int /\ v.d \in Int /\ u.d > 0 /\ v.d > 0
    OBVIOUS
  <1>2. t.n \in Int
    BY SumOfFractions
  <1>3. PICK m \in Nat : m > 0 /\ m * t.n = u.n * v.d + v.n * u.d
    BY SumOfFractions
  <1>. HIDE DEF t
  <1>4. m * (t.n * b) = v.d * (u.n * b) + u.d * (v.n * b)
    <2>1. m * (t.n * b) = (m * t.n) * b
      BY <1>2, <1>3
    <2>2. (u.n * v.d + v.n * u.d) * b = v.d * (u.n * b) + u.d * (v.n * b)
      BY <1>1
    <2>. QED
      BY <2>1, <2>2, <1>3
  <1>. DEFINE new == t.n * b
  <1>5. /\ new \in Int /\ old \in Int /\ gain \in Int /\ old >= 0 /\ gain > 0
        /\ m * new = v.d * old + u.d * gain
    BY <1>1, <1>2, <1>4
  <1>. HIDE DEF old, gain, new
  <1>6. new > 0
    BY <1>1, <1>3, <1>5, Combination
  <1>. QED
    BY <1>6 DEF new, t

\* A turn with less (more) scrub than one below (above) the ratio is below (above) it too.
LEMMA Transfer ==
    ASSUME NEW e \in Int, NEW ed \in Int, NEW i \in Int, NEW id \in Int,
           NEW c \in Int, NEW y \in Int, NEW cv \in Int, NEW yv \in Int,
           ed > 0, i * c > 0, i * cv > 0
    PROVE  LET old == e * id * c - y * (ed * i)
               new == e * id * cv - yv * (ed * i)
           IN  /\ old >= 0 /\ y * cv - yv * c >= 0 => new >= 0
               /\ old <= 0 /\ y * cv - yv * c <= 0 => new <= 0
  <1>. DEFINE old == e * id * c - y * (ed * i)
              new == e * id * cv - yv * (ed * i)
              dif == y * cv - yv * c
              sq  == ed * (i * i)
  <1>1. (i * c) * new = (i * cv) * old + sq * dif
    BY TransferIdentity
  <1>2. old \in Int /\ new \in Int /\ dif \in Int /\ sq \in Int /\ i * c \in Int /\ i * cv \in Int
    OBVIOUS
  <1>3. sq > 0
    <2>1. i # 0
      OBVIOUS
    <2>2. i * i > 0 /\ i * i \in Int
      BY <2>1, ProductSigns
    <2>. QED
      BY <2>2, ProductSigns
  <1>. HIDE DEF old, new, dif, sq
  <1>4. /\ old >= 0 /\ dif >= 0 => new >= 0
        /\ old <= 0 /\ dif <= 0 => new <= 0
    BY <1>1, <1>2, <1>3, Combination
  <1>. QED
    BY <1>4 DEF old, new, dif

\* The rates in the status that the tool gets are those of the frame's turn, until
\* the next frame, whatever BOOT_INFO says of the track in between.
THEOREM TurnInvariant == CalibSpec => []TurnInv
  <1>1. CalibInit => TurnInv
    BY Bounds DEF CalibInit, Init, TurnInv, Published
  <1>2. TurnInv /\ [CalibNext]_calibVars => TurnInv'
    <2>. SUFFICES ASSUME TurnInv, [CalibNext]_calibVars PROVE TurnInv'
      OBVIOUS
    <2>1. CASE ~attached /\ Next /\ UNCHANGED toolVars
      <3>1. track' \in Int
        <4>1. ASSUME NEW mm \in Tracks, OnBootInfo(mm) PROVE track' \in Int
          BY <4>1, Bounds DEF TurnInv, OnBootInfo
        <4>2. CASE ~ \E mm \in Tracks : OnBootInfo(mm)
          <5>1. track' = track
            BY <2>1, <4>2 DEF Next, OnTelemetry, WrongLength, SetWarned, LogError, PortOpens,
                              OnCmdVel, numbers
          <5>. QED
            BY <5>1 DEF TurnInv
        <4>. QED
          BY <4>1, <4>2
      <3>2. ~attached'
        BY <2>1 DEF toolVars
      <3>. QED
        BY <3>1, <3>2 DEF TurnInv
    <2>2. ASSUME NEW f \in Turns, OnTelemetry(f), attached' = attached,
                 turn' = [wheels |-> f.right - f.left, track |-> track, body |-> f.gyro - GyroBias]
          PROVE  TurnInv'
      <3>1. f \in Telemetry /\ topics'.slip = Slip(f) /\ track' = track /\ track \in Int
        BY <2>2, FrameEffect, CalibBounds DEF TurnInv
      <3>2. /\ f.right \in Int /\ f.left \in Int /\ f.gyro \in Int
            /\ track * SkidNum \in Int
        BY <3>1, Bounds DEF Telemetry
      <3>3. CASE track * SkidNum <= 0
        <4>1. topics'.slip.imu.n = 0
          BY <3>1, <3>3 DEF Slip, NoSlip
        <4>. QED
          BY <3>1, <4>1 DEF TurnInv
      <3>4. CASE ~(track * SkidNum <= 0)
        <4>1. /\ topics'.slip.rate = [n |-> (f.right - f.left) * SkidDen, d |-> track * SkidNum]
              /\ topics'.slip.imu = [n |-> f.gyro - GyroBias, d |-> RateUnit]
          BY <3>1, <3>4 DEF Slip
        <4>2. turn' \in Turn /\ track * SkidNum > 0
          BY <2>2, <3>1, <3>2, <3>4, Bounds DEF Turn
        <4>. QED
          BY <2>2, <3>1, <4>1, <4>2 DEF TurnInv
      <3>. QED
        BY <3>3, <3>4
    <2>3. ASSUME NEW mm \in Tracks, OnBootInfo(mm), UNCHANGED <<turn, attached>>
          PROVE  TurnInv'
      BY <2>3, Bounds DEF OnBootInfo, TurnInv, Published
    <2>4. CASE UNCHANGED <<vars, attached, turn>>
      BY <2>4 DEF TurnInv, Published, vars, numbers
    <2>. QED
      BY <2>1, <2>2, <2>3, <2>4
      DEF CalibNext, BridgeStep, FirstStatus, IgnoreStatus, SkipStatus, OnStatus, calibVars,
          toolVars
  <1>. QED
    BY <1>1, <1>2, PTL DEF CalibSpec

LEMMA SumWithZero ==
    ASSUME NEW a \in [n : Int, d : Nat \ {0}]
    PROVE  Sum(a, Zero) = a
  <1>1. a.n \in Int /\ a.d \in Int /\ a = [n |-> a.n, d |-> a.d]
    OBVIOUS
  <1>2. CASE a.d = 1
    BY <1>1, <1>2 DEF Sum, Zero
  <1>3. CASE a.d # 1
    <2>1. Sum(a, Zero) = [n |-> a.n * 1 + 0 * a.d, d |-> a.d * 1]
      BY <1>3 DEF Sum, Zero
    <2>2. a.n * 1 + 0 * a.d = a.n /\ a.d * 1 = a.d
      BY <1>1
    <2>. QED
      BY <1>1, <2>1, <2>2
  <1>. QED
    BY <1>2, <1>3

\* A status message either leaves the angles alone or adds to both what the turn
\* turned by in the time since the message before.
EncTurned(t, dt) == [n |-> t.wheels * SkidDen * dt, d |-> t.track * SkidNum]
ImuTurned(t, dt) == [n |-> t.body * dt, d |-> RateUnit]

LEMMA StatusEffect ==
    ASSUME AngleInv, TurnInv, NEW gap \in Gaps, OnStatus(gap)
    PROVE  \/ UNCHANGED <<encAngle, imuAngle, samples, turned>>
           \/ /\ turn \in Turn /\ turn.track * SkidNum > 0 /\ turn.body # 0
              /\ samples' = samples + 1 /\ turned' = turned \union {turn}
              /\ \E dt \in Nat : /\ dt > 0
                                 /\ encAngle' = Sum(encAngle, EncTurned(turn, dt))
                                 /\ imuAngle' = Sum(imuAngle, ImuTurned(turn, dt))
  <1>1. CASE ~Turning
    BY <1>1, SumWithZero DEF OnStatus, EncGain, ImuGain, AngleInv
  <1>2. CASE Turning
    <2>1. topics.slip.imu.n # 0 /\ attached /\ Published
      BY <1>2, CalibBounds DEF Turning, Abs, OnStatus, Published
    <2>2. /\ turn \in Turn /\ turn.track * SkidNum > 0
          /\ topics.slip.rate = [n |-> turn.wheels * SkidDen, d |-> turn.track * SkidNum]
          /\ topics.slip.imu = [n |-> turn.body, d |-> RateUnit]
      BY <2>1 DEF TurnInv
    <2>3. since + gap \in Nat /\ since + gap > 0
      BY CalibBounds DEF OnStatus, AngleInv
    <2>4. /\ encAngle' = Sum(encAngle, EncTurned(turn, since + gap))
          /\ imuAngle' = Sum(imuAngle, ImuTurned(turn, since + gap))
      BY <1>2, <2>2 DEF OnStatus, EncGain, ImuGain, EncTurned, ImuTurned
    <2>5. samples' = samples + 1 /\ turned' = turned \union {turn}
      BY <1>2 DEF OnStatus
    <2>6. turn.body # 0
      BY <2>1, <2>2
    <2>. QED
      BY <2>2, <2>3, <2>4, <2>5, <2>6
  <1>. QED
    BY <1>1, <1>2

LEMMA TurnedFractions ==
    ASSUME NEW t \in Turn, t.track * SkidNum > 0, t.body # 0, NEW dt \in Nat, dt > 0
    PROVE  /\ EncTurned(t, dt) \in [n : Int, d : Nat \ {0}]
           /\ ImuTurned(t, dt) \in [n : Int, d : Nat \ {0}]
  <1>1. /\ t.wheels \in Int /\ t.track \in Int /\ t.body \in Int
    BY DEF Turn
  <1>2. /\ t.wheels * SkidDen * dt \in Int /\ t.track * SkidNum \in Int
        /\ t.body * dt \in Int
    BY <1>1, Bounds
  <1>. QED
    BY <1>2, Bounds DEF EncTurned, ImuTurned

\* The other steps leave the angles alone.
LEMMA QuietTool ==
    ASSUME [CalibNext]_calibVars, ~ \E gap \in Gaps : OnStatus(gap)
    PROVE  UNCHANGED <<encAngle, imuAngle, samples, turned>>
  BY DEF CalibNext, calibVars, toolVars, BridgeStep, IgnoreStatus, FirstStatus, SkipStatus

\* The angles are fractions, 0 until the first sample, and every turn sampled had a
\* track and a rate: the gate of the tool keeps the others out.
THEOREM SampleInvariant == CalibSpec => [](AngleInv /\ SampleInv)
  <1>1. CalibInit => AngleInv /\ SampleInv
    BY DEF CalibInit, AngleInv, SampleInv, Zero
  <1>2. TurnInv /\ AngleInv /\ SampleInv /\ [CalibNext]_calibVars => (AngleInv /\ SampleInv)'
    <2>. SUFFICES ASSUME TurnInv, AngleInv, SampleInv, [CalibNext]_calibVars
                  PROVE  AngleInv' /\ SampleInv'
      OBVIOUS
    <2>1. since' \in Nat \union {None}
      BY CalibBounds DEF AngleInv, CalibNext, calibVars, toolVars, BridgeStep, IgnoreStatus,
                         FirstStatus, SkipStatus, OnStatus, Smaller
    <2>2. CASE UNCHANGED <<encAngle, imuAngle, samples, turned>>
      BY <2>1, <2>2 DEF AngleInv, SampleInv
    <2>3. ASSUME turn \in Turn, turn.track * SkidNum > 0, turn.body # 0,
                 samples' = samples + 1, turned' = turned \union {turn},
                 NEW dt \in Nat, dt > 0,
                 encAngle' = Sum(encAngle, EncTurned(turn, dt)),
                 imuAngle' = Sum(imuAngle, ImuTurned(turn, dt))
          PROVE  AngleInv' /\ SampleInv'
      <3>1. /\ EncTurned(turn, dt) \in [n : Int, d : Nat \ {0}]
            /\ ImuTurned(turn, dt) \in [n : Int, d : Nat \ {0}]
        BY <2>3, TurnedFractions
      <3>2. AngleInv'
        BY <2>1, <2>3, <3>1, SumOfFractions DEF AngleInv
      <3>. QED
        BY <2>3, <3>2 DEF AngleInv, SampleInv
    <2>. QED
      BY <2>2, <2>3, StatusEffect, QuietTool
  <1>. QED
    BY <1>1, <1>2, TurnInvariant, PTL DEF CalibSpec

\* Numbers of one sign with a third have one sign.
LEMMA SameSign ==
    ASSUME NEW i \in Int, NEW a \in Int, NEW b \in Int, i * a > 0, a * b > 0
    PROVE  i * b > 0
  <1>1. (a * a) * (i * b) = (i * a) * (a * b)
    OBVIOUS
  <1>2. (i * a) * (a * b) > 0 /\ a * a > 0 /\ a * a \in Int /\ i * b \in Int
    <2>1. i * a \in Int /\ a * b \in Int /\ a # 0
      OBVIOUS
    <2>. QED
      BY <2>1, ProductSigns
  <1>. QED
    BY <1>1, <1>2, ProductSigns

LEMMA TurnNumbers ==
    ASSUME NEW t \in Turn
    PROVE  /\ t.wheels \in Int /\ t.track \in Int /\ t.body \in Int
           /\ t.track * SkidNum \in Int /\ Body(t) \in Int /\ Wheels(t) \in Int
           /\ \A i \in Int : t.track * SkidNum > 0 /\ i * t.body > 0 => i * Body(t) > 0
  <1>1. t.wheels \in Int /\ t.track \in Int /\ t.body \in Int
    BY DEF Turn
  <1>2. t.track * SkidNum \in Int /\ Body(t) \in Int /\ Wheels(t) \in Int
    BY <1>1, Bounds DEF Body, Wheels
  <1>3. ASSUME NEW i \in Int, t.track * SkidNum > 0, i * t.body > 0
        PROVE  i * Body(t) > 0
    <2>. DEFINE x == t.track * SkidNum
    <2>1. x \in Int /\ x > 0 /\ Body(t) = x * t.body
      BY <1>2, <1>3 DEF Body
    <2>. HIDE DEF x
    <2>2. i * (x * t.body) = x * (i * t.body)
      BY <1>1, <2>1
    <2>3. i * t.body \in Int
      BY <1>1
    <2>. QED
      BY <1>3, <2>1, <2>2, <2>3, ProductSigns
  <1>. QED
    BY <1>1, <1>2, <1>3

LEMMA NoFactorZero ==
    ASSUME NEW a \in Int, NEW b \in Int, a # 0, a * b = 0
    PROVE  b = 0
  OBVIOUS

LEMMA BodyIsNotZero ==
    ASSUME NEW t \in Turn, t.track * SkidNum > 0, t.body # 0
    PROVE  Body(t) # 0
  <1>. DEFINE x == t.track * SkidNum
  <1>1. x \in Int /\ x # 0 /\ t.body \in Int /\ Body(t) = x * t.body
    BY TurnNumbers DEF Body
  <1>. HIDE DEF x
  <1>. QED
    BY <1>1, NoFactorZero

\* Of a turn with less (more) scrub than the one sampled, the ratio keeps its side.
LEMMA ExcessAfter ==
    ASSUME AngleInv, NEW t \in Turn, NEW v \in Turn, v.track * SkidNum > 0, v.body # 0,
           NEW dt \in Nat, dt > 0,
           encAngle' = Sum(encAngle, EncTurned(v, dt)),
           imuAngle' = Sum(imuAngle, ImuTurned(v, dt))
    PROVE  LET more == Wheels(v) * Body(t) - Wheels(t) * Body(v)
           IN  /\ Excess(t) >= 0 /\ more >= 0 => Excess(t)' >= 0
               /\ Excess(t) <= 0 /\ more <= 0 => Excess(t)' <= 0
  <1>. DEFINE e    == EncTurned(v, dt)
              i    == ImuTurned(v, dt)
              c    == Body(t)
              y    == Wheels(t)
              more == Wheels(v) * Body(t) - Wheels(t) * Body(v)
              gain == e.n * i.d * c - y * (e.d * i.n)
  <1>1. e \in [n : Int, d : Nat \ {0}] /\ i \in [n : Int, d : Nat \ {0}]
    BY TurnedFractions
  <1>2. c \in Int /\ y \in Int /\ more \in Int
    BY TurnNumbers
  <1>3. gain = dt * more
    <2>1. /\ e.n = v.wheels * SkidDen * dt /\ e.d = v.track * SkidNum
          /\ i.n = v.body * dt /\ i.d = RateUnit
      BY DEF EncTurned, ImuTurned
    <2>2. (v.wheels * SkidDen * dt) * RateUnit * c - y * ((v.track * SkidNum) * (v.body * dt))
            = dt * ((v.wheels * RateUnit * SkidDen) * c - y * ((v.track * SkidNum) * v.body))
      BY <1>2, TurnNumbers, Bounds, GainIdentity
    <2>. QED
      BY <2>1, <2>2 DEF Body, Wheels
  <1>4. /\ more >= 0 => gain >= 0
        /\ more <= 0 => gain <= 0
    <2>. HIDE DEF more, gain
    <2>. QED
      BY <1>2, <1>3
  <1>5. /\ Excess(t) = encAngle.n * imuAngle.d * c - y * (encAngle.d * imuAngle.n)
        /\ Excess(t)' = Sum(encAngle, e).n * Sum(imuAngle, i).d * c
                          - y * (Sum(encAngle, e).d * Sum(imuAngle, i).n)
    BY DEF Excess, Body, Wheels
  <1>6. encAngle \in [n : Int, d : Nat \ {0}] /\ imuAngle \in [n : Int, d : Nat \ {0}]
    BY DEF AngleInv
  <1>. HIDE DEF e, i, c, y, more
  <1>7. /\ Excess(t) >= 0 /\ gain >= 0 => Excess(t)' >= 0
        /\ Excess(t) <= 0 /\ gain <= 0 => Excess(t)' <= 0
    <2>. DEFINE old == encAngle.n * imuAngle.d * c - y * (encAngle.d * imuAngle.n)
                new == Sum(encAngle, e).n * Sum(imuAngle, i).d * c
                         - y * (Sum(encAngle, e).d * Sum(imuAngle, i).n)
    <2>1. /\ old >= 0 /\ gain >= 0 => new >= 0
          /\ old <= 0 /\ gain <= 0 => new <= 0
      BY <1>1, <1>2, <1>6, Mediant, Zenon
    <2>. HIDE DEF old, new, gain
    <2>2. Excess(t) = old /\ Excess(t)' = new
      BY <1>5, Zenon DEF old, new
    <2>. QED
      BY <2>1, <2>2, Zenon
  <1>. QED
    BY <1>4, <1>7 DEF more

\* Sampling a turn moves the ratio of the angles towards its scrub: the turn that was
\* below the ratio still is, or the turn sampled is.
LEMMA StaysBetween ==
    ASSUME AngleInv, SampleInv, OneWayInv, NEW v \in Turn, v.track * SkidNum > 0, v.body # 0,
           NEW dt \in Nat, dt > 0,
           encAngle' = Sum(encAngle, EncTurned(v, dt)),
           imuAngle' = Sum(imuAngle, ImuTurned(v, dt)),
           turned' = turned \union {v}
    PROVE  OneWayInv'
  <1>. SUFFICES ASSUME \A t, u \in turned' : t.body * u.body > 0
                PROVE  /\ \A t \in turned' : imuAngle'.n * t.body > 0
                       /\ \E t, u \in turned' : Excess(t)' >= 0 /\ Excess(u)' <= 0
    BY DEF OneWayInv, Excess, Body, Wheels
  <1>. DEFINE i     == imuAngle.n
              D(t)  == Wheels(v) * Body(t) - Wheels(t) * Body(v)
  <1>1. /\ encAngle \in [n : Int, d : Nat \ {0}] /\ imuAngle \in [n : Int, d : Nat \ {0}]
        /\ encAngle.n \in Int /\ encAngle.d \in Int /\ imuAngle.d \in Int /\ i \in Int
        /\ encAngle.d > 0
    BY DEF AngleInv
  <1>2. /\ v \in turned' /\ turned \subseteq turned'
        /\ \A t \in turned' : t \in Turn /\ t.track * SkidNum > 0 /\ t.body # 0
    BY DEF SampleInv
  <1>3. \A t, u \in turned : t.body * u.body > 0
    BY <1>2
  <1>4. ASSUME NEW t \in turned' PROVE i * t.body >= 0
    <2>1. CASE turned = {}
      <3>1. i = 0
        BY <2>1 DEF SampleInv
      <3>2. 0 * t.body >= 0
        BY <1>2, TurnNumbers
      <3>. QED
        BY <3>1, <3>2
    <2>2. CASE turned # {}
      <3>1. PICK w \in turned : TRUE
        BY <2>2
      <3>2. i * w.body > 0 /\ w.body * t.body > 0
        BY <1>2, <1>3, <2>2, <3>1 DEF OneWayInv
      <3>3. i * t.body > 0 /\ i * t.body \in Int
        BY <1>1, <1>2, <3>1, <3>2, SameSign, TurnNumbers
      <3>. QED
        BY <3>3
    <2>. QED
      BY <2>1, <2>2
  <1>5. ASSUME NEW t \in turned' PROVE imuAngle'.n * t.body > 0
    <2>. DEFINE h == ImuTurned(v, dt)
    <2>1. h \in [n : Int, d : Nat \ {0}]
      BY TurnedFractions
    <2>2. h.n * t.body > 0
      <3>1. v.body * t.body > 0 /\ v.body * t.body \in Int
        BY <1>2, TurnNumbers
      <3>2. (v.body * dt) * t.body = dt * (v.body * t.body)
        BY <1>2, TurnNumbers
      <3>3. dt * (v.body * t.body) > 0
        BY <3>1, ProductSigns
      <3>. QED
        BY <3>2, <3>3 DEF ImuTurned
    <2>. HIDE DEF h
    <2>3. Sum(imuAngle, h).n * t.body > 0
      BY <1>1, <1>2, <1>4, <2>1, <2>2, TurnNumbers, SumSign
    <2>. QED
      BY <2>3 DEF h
  <1>6. /\ D(v) = 0
        /\ \A t \in turned' : D(t) \in Int /\ Excess(t) \in Int
    BY <1>1, <1>2, TurnNumbers DEF Excess
  <1>. HIDE DEF D
  <1>7. ASSUME NEW t \in turned'
        PROVE  /\ Excess(t) >= 0 /\ D(t) >= 0 => Excess(t)' >= 0
               /\ Excess(t) <= 0 /\ D(t) <= 0 => Excess(t)' <= 0
    BY <1>2, ExcessAfter, Zenon DEF D
  <1>8. CASE turned = {}
    <2>1. encAngle.n = 0 /\ imuAngle.n = 0
      BY <1>8 DEF SampleInv
    <2>2. Excess(v) = 0
      <3>1. /\ 0 * imuAngle.d * Body(v) = 0
            /\ Wheels(v) * (encAngle.d * 0) = 0
        BY <1>1, TurnNumbers
      <3>. QED
        BY <2>1, <3>1 DEF Excess
    <2>3. Excess(v)' >= 0 /\ Excess(v)' <= 0
      BY <1>2, <1>6, <1>7, <2>2
    <2>. QED
      BY <1>2, <1>5, <2>3
  <1>9. CASE turned # {}
    <2>1. PICK t \in turned, u \in turned : Excess(t) >= 0 /\ Excess(u) <= 0
      BY <1>3, <1>9 DEF OneWayInv
    <2>2. ASSUME NEW w \in turned
          PROVE  /\ Excess(w) >= 0 /\ D(w) <= 0 => Excess(v) >= 0
                 /\ Excess(w) <= 0 /\ D(w) >= 0 => Excess(v) <= 0
      <3>1. i * w.body > 0 /\ w.body * v.body > 0
        BY <1>2, <1>3, <1>9 DEF OneWayInv
      <3>2. i * v.body > 0
        BY <1>1, <1>2, <3>1, SameSign, TurnNumbers
      <3>3. i * Body(w) > 0 /\ i * Body(v) > 0
        BY <1>1, <1>2, <3>1, <3>2, TurnNumbers
      <3>. DEFINE back == Wheels(w) * Body(v) - Wheels(v) * Body(w)
      <3>4. /\ Excess(w) >= 0 /\ back >= 0 => Excess(v) >= 0
            /\ Excess(w) <= 0 /\ back <= 0 => Excess(v) <= 0
        <4>1. /\ Body(w) \in Int /\ Wheels(w) \in Int /\ Body(v) \in Int /\ Wheels(v) \in Int
          BY <1>2, TurnNumbers
        <4>. QED
          BY <1>1, <3>3, <4>1, Transfer, Zenon DEF Excess
      <3>5. back = -D(w)
        BY <1>2, TurnNumbers DEF D
      <3>. HIDE DEF back
      <3>. QED
        BY <1>2, <1>6, <3>4, <3>5
    <2>3. \E x \in turned' : Excess(x)' >= 0
      BY <1>2, <1>6, <1>7, <2>1, <2>2
    <2>4. \E x \in turned' : Excess(x)' <= 0
      BY <1>2, <1>6, <1>7, <2>1, <2>2
    <2>. QED
      BY <1>5, <2>3, <2>4
  <1>. QED
    BY <1>8, <1>9

\* Where every turn scrubs alike, one that is sampled leaves no excess over any of them.
LEMMA StaysAlike ==
    ASSUME AngleInv, SampleInv, AlikeInv, NEW v \in Turn, v.track * SkidNum > 0, v.body # 0,
           NEW dt \in Nat, dt > 0,
           encAngle' = Sum(encAngle, EncTurned(v, dt)),
           imuAngle' = Sum(imuAngle, ImuTurned(v, dt)),
           turned' = turned \union {v}
    PROVE  AlikeInv'
  <1>. SUFFICES ASSUME \A t, u \in turned' : Wheels(t) * Body(u) = Wheels(u) * Body(t),
                       NEW t \in turned'
                PROVE  Excess(t)' = 0
    BY DEF AlikeInv, Excess, Body, Wheels
  <1>1. /\ v \in turned' /\ turned \subseteq turned'
        /\ \A u \in turned' : u \in Turn /\ u.track * SkidNum > 0 /\ u.body # 0
    BY DEF SampleInv
  <1>2. \A u \in turned : Excess(u) = 0
    BY <1>1 DEF AlikeInv
  <1>3. /\ encAngle.n \in Int /\ encAngle.d \in Int /\ imuAngle.n \in Int /\ imuAngle.d \in Int
    BY DEF AngleInv
  <1>4. Excess(t) = 0
    <2>1. CASE t \in turned
      BY <1>2, <2>1
    <2>2. CASE turned = {}
      <3>1. encAngle.n = 0 /\ imuAngle.n = 0
        BY <2>2 DEF SampleInv
      <3>2. 0 * imuAngle.d * Body(t) = 0 /\ Wheels(t) * (encAngle.d * 0) = 0
        BY <1>1, <1>3, TurnNumbers
      <3>. QED
        BY <3>1, <3>2 DEF Excess
    <2>3. ASSUME NEW u \in turned PROVE Excess(t) = 0
      <3>. DEFINE e == encAngle.n * imuAngle.d
                  m == encAngle.d * imuAngle.n
                  c == Body(t)
                  y == Wheels(t)
                  cu == Body(u)
                  yu == Wheels(u)
      <3>1. /\ e \in Int /\ m \in Int /\ c \in Int /\ y \in Int /\ cu \in Int /\ yu \in Int
            /\ y * cu = yu * c /\ e * cu - yu * m = 0
            /\ Excess(t) = e * c - y * m
        BY <1>1, <1>2, <1>3, <2>3, TurnNumbers DEF Excess
      <3>2. cu # 0
        BY <1>1, <2>3, BodyIsNotZero
      <3>. HIDE DEF e, m, c, y, cu, yu
      <3>3. cu * (e * c - y * m) = c * (e * cu - yu * m) + m * (yu * c - y * cu)
        BY <3>1
      <3>4. c * 0 = 0 /\ m * (yu * c - y * cu) = 0
        BY <3>1
      <3>5. cu * Excess(t) = 0
        BY <3>1, <3>3, <3>4
      <3>. QED
        BY <3>1, <3>2, <3>5, NoFactorZero
    <2>. QED
      BY <2>1, <2>2, <2>3
  <1>5. /\ Wheels(v) * Body(t) - Wheels(t) * Body(v) = 0
        /\ Excess(t)' >= 0 /\ Excess(t)' <= 0
    <2>1. Wheels(v) * Body(t) - Wheels(t) * Body(v) = 0
      BY <1>1, TurnNumbers
    <2>. QED
      BY <1>1, <1>4, <2>1, ExcessAfter
  <1>6. Excess(t)' \in Int
    <2>1. /\ Sum(encAngle, EncTurned(v, dt)) \in [n : Int, d : Nat \ {0}]
          /\ Sum(imuAngle, ImuTurned(v, dt)) \in [n : Int, d : Nat \ {0}]
      BY TurnedFractions, SumOfFractions DEF AngleInv
    <2>2. /\ encAngle'.n \in Int /\ encAngle'.d \in Int /\ imuAngle'.n \in Int /\ imuAngle'.d \in Int
      BY <2>1
    <2>3. Body(t) \in Int /\ Wheels(t) \in Int
      BY <1>1, TurnNumbers
    <2>4. Excess(t)' = encAngle'.n * imuAngle'.d * Body(t) - Wheels(t) * (encAngle'.d * imuAngle'.n)
      BY DEF Excess, Body, Wheels
    <2>. QED
      BY <2>2, <2>3, <2>4
  <1>. QED
    BY <1>5, <1>6

\* The ratio stays between the scrubs of two turns sampled one way, and is the one
\* scrub of turns that scrub alike.
THEOREM RatioInvariant == CalibSpec => []RatioInv
  <1>1. CalibInit => RatioInv
    BY DEF CalibInit, RatioInv, OneWayInv, AlikeInv
  <1>2. TurnInv /\ AngleInv /\ SampleInv /\ RatioInv /\ [CalibNext]_calibVars => RatioInv'
    <2>. SUFFICES ASSUME TurnInv, AngleInv, SampleInv, OneWayInv, AlikeInv,
                         [CalibNext]_calibVars
                  PROVE  OneWayInv' /\ AlikeInv'
      BY DEF RatioInv
    <2>1. CASE UNCHANGED <<encAngle, imuAngle, samples, turned>>
      BY <2>1 DEF OneWayInv, AlikeInv, Excess, Body, Wheels
    <2>2. ASSUME turn \in Turn, turn.track * SkidNum > 0, turn.body # 0,
                 turned' = turned \union {turn}, NEW dt \in Nat, dt > 0,
                 encAngle' = Sum(encAngle, EncTurned(turn, dt)),
                 imuAngle' = Sum(imuAngle, ImuTurned(turn, dt))
          PROVE  OneWayInv' /\ AlikeInv'
      <3>1. PICK v \in Turn : v = turn
        BY <2>2
      <3>. QED
        BY <2>2, <3>1, StaysBetween, StaysAlike
    <2>. QED
      BY <2>1, <2>2, StatusEffect, QuietTool
  <1>. QED
    BY <1>1, <1>2, TurnInvariant, SampleInvariant, PTL DEF CalibSpec

\* Making the denominator positive multiplies both by its sign.
LEMMA FractionSign ==
    ASSUME NEW n \in Int, NEW d \in Int, d # 0
    PROVE  \E s \in {1, -1} : /\ Fraction(n, d) = [n |-> s * n, d |-> s * d]
                              /\ s * d > 0
  <1>1. CASE d < 0
    <2>1. Fraction(n, d) = [n |-> (-1) * n, d |-> (-1) * d] /\ (-1) * d > 0
      BY <1>1 DEF Fraction
    <2>. QED
      BY <2>1
  <1>2. CASE ~(d < 0)
    <2>1. Fraction(n, d) = [n |-> 1 * n, d |-> 1 * d] /\ 1 * d > 0
      BY <1>2 DEF Fraction
    <2>. QED
      BY <2>1
  <1>. QED
    BY <1>1, <1>2

LEMMA OneSign ==
    ASSUME NEW a \in Int, NEW b \in Int, a * b > 0
    PROVE  \/ a > 0 /\ b > 0
           \/ a < 0 /\ b < 0
  <1>1. CASE a > 0
    <2>1. b > 0
      BY <1>1, ProductSigns
    <2>. QED
      BY <1>1, <2>1
  <1>2. CASE a < 0
    <2>1. -a \in Int /\ -b \in Int /\ -a > 0 /\ (-a) * (-b) = a * b
      BY <1>2
    <2>2. -b > 0
      BY <2>1, ProductSigns
    <2>. QED
      BY <1>2, <2>2
  <1>3. CASE a = 0
    <2>1. 0 * b = 0
      OBVIOUS
    <2>. QED
      BY <1>3, <2>1
  <1>. QED
    BY <1>1, <1>2, <1>3

\* Cross-multiplying the printed ratio and a scrub.
LEMMA CrossProducts ==
    ASSUME NEW r \in Int, NEW s \in Int, NEW e \in Int, NEW ed \in Int, NEW i \in Int,
           NEW id \in Int, NEW w \in Int, NEW rate \in Int, NEW x \in Int, NEW b \in Int,
           NEW num \in Int, NEW den \in Int
    PROVE  (s * (e * id)) * num * (r * (x * b)) - (r * (w * rate)) * ((s * (ed * i)) * den)
             = (r * s) * (e * id * (x * num * b) - w * rate * den * (ed * i))
  OBVIOUS

\* The scrub of a turn, and the printed ratio times the factor in force, are what they
\* are before the signs are turned round, up to a sign each; crosswise they differ by
\* the excess.
LEMMA ScrubAndMeasured ==
    ASSUME AngleInv, NEW t \in Turn, t.track * SkidNum > 0, t.body # 0, imuAngle.n # 0
    PROVE  \E r, s \in {1, -1} :
              /\ Scrub(t) = [n |-> r * (t.wheels * RateUnit), d |-> r * (t.track * t.body)]
              /\ r * (t.track * t.body) > 0 /\ s * imuAngle.n > 0
              /\ Scrub(t).n \in Int /\ Scrub(t).d \in Int
              /\ Measured.n \in Int /\ Measured.d \in Int
              /\ Excess(t) \in Int
              /\ Measured.n * Scrub(t).d - Scrub(t).n * Measured.d = (r * s) * Excess(t)
  <1>. DEFINE e  == encAngle.n
              ed == encAngle.d
              i  == imuAngle.n
              id == imuAngle.d
              w  == t.wheels
              x  == t.track
              b  == t.body
              N  == e * id
              M  == ed * i
              W  == w * RateUnit
              X  == x * b
  <1>1. /\ e \in Int /\ ed \in Int /\ i \in Int /\ id \in Int /\ ed > 0 /\ id > 0
        /\ w \in Int /\ x \in Int /\ b \in Int
        /\ RateUnit \in Int /\ SkidNum \in Int /\ SkidDen \in Int
    BY TurnNumbers, Bounds DEF AngleInv
  <1>2. /\ N \in Int /\ M \in Int /\ W \in Int /\ X \in Int
        /\ M # 0 /\ X # 0
    <2>1. x # 0 /\ b # 0 /\ i # 0
      <3>1. 0 * SkidNum = 0
        BY <1>1
      <3>. QED
        BY <3>1
    <2>. HIDE DEF e, ed, i, id, w, x, b
    <2>2. ed # 0
      BY <1>1
    <2>3. M # 0
      BY <1>1, <2>1, <2>2, NoFactorZero
    <2>4. X # 0
      BY <1>1, <2>1, NoFactorZero
    <2>. QED
      BY <1>1, <2>3, <2>4
  <1>3. PICK s \in {1, -1} : Fraction(N, M) = [n |-> s * N, d |-> s * M] /\ s * M > 0
    BY <1>2, FractionSign
  <1>4. PICK r \in {1, -1} : Fraction(W, X) = [n |-> r * W, d |-> r * X] /\ r * X > 0
    BY <1>2, FractionSign
  <1>5. s * i > 0
    <2>. HIDE DEF ed, i
    <2>1. s * M = ed * (s * i)
      BY <1>1, <1>3
    <2>2. s * i \in Int
      BY <1>1, <1>3
    <2>. QED
      BY <1>1, <1>3, <2>1, <2>2, ProductSigns
  <1>6. Scrub(t) = [n |-> r * W, d |-> r * X]
    BY <1>4 DEF Scrub, W, X
  <1>7. Measured = [n |-> (s * N) * SkidNum, d |-> (s * M) * SkidDen]
    BY <1>3 DEF Measured, Ratio, N, M
  <1>. DEFINE left  == (r * W) * ((s * M) * SkidDen)
              right == (s * N) * SkidNum * (r * X)
  <1>8. right - left = (r * s) * Excess(t)
    <2>1. right - left
            = (r * s) * (e * id * (x * SkidNum * b) - w * RateUnit * SkidDen * (ed * i))
      <3>1. r \in Int /\ s \in Int
        OBVIOUS
      <3>. HIDE DEF e, ed, i, id, w, x, b
      <3>. QED
        BY <1>1, <3>1, CrossProducts
    <2>. QED
      BY <2>1 DEF Excess, Body, Wheels
  <1>9. Excess(t) \in Int
    BY <1>1, TurnNumbers DEF Excess
  <1>10. /\ r * W \in Int /\ r * X \in Int
         /\ (s * N) * SkidNum \in Int /\ (s * M) * SkidDen \in Int
    <2>. HIDE DEF N, M, W, X
    <2>. QED
      BY <1>1, <1>2
  <1>11. Measured.n * Scrub(t).d - Scrub(t).n * Measured.d = (r * s) * Excess(t)
    BY <1>6, <1>7, <1>8
  <1>. QED
    BY <1>4, <1>5, <1>6, <1>7, <1>9, <1>10, <1>11

\* The excess compares the two as fractions; a negative skid factor turns the order round.
LEMMA ScrubOrder ==
    ASSUME AngleInv, NEW t \in Turn, t.track * SkidNum > 0, imuAngle.n * t.body > 0
    PROVE  \/ /\ AtMost(Scrub(t), Measured) <=> Excess(t) >= 0
              /\ AtMost(Measured, Scrub(t)) <=> Excess(t) <= 0
              /\ SkidNum > 0
           \/ /\ AtMost(Scrub(t), Measured) <=> Excess(t) <= 0
              /\ AtMost(Measured, Scrub(t)) <=> Excess(t) >= 0
              /\ SkidNum < 0
  <1>. DEFINE i == imuAngle.n
              x == t.track
              b == t.body
              X == x * b
  <1>1. /\ i \in Int /\ x \in Int /\ b \in Int /\ SkidNum \in Int /\ X \in Int
    BY TurnNumbers, Bounds DEF AngleInv
  <1>2. \/ i > 0 /\ b > 0
        \/ i < 0 /\ b < 0
    BY <1>1, OneSign
  <1>3. PICK r \in {1, -1}, s \in {1, -1} :
           /\ r * X > 0 /\ s * i > 0
           /\ Scrub(t).n \in Int /\ Scrub(t).d \in Int
           /\ Measured.n \in Int /\ Measured.d \in Int
           /\ Excess(t) \in Int
           /\ Measured.n * Scrub(t).d - Scrub(t).n * Measured.d = (r * s) * Excess(t)
    BY <1>1, <1>2, ScrubAndMeasured
  <1>4. \/ SkidNum > 0 /\ r * s = 1
        \/ SkidNum < 0 /\ r * s = -1
    <2>1. x * SkidNum > 0
      OBVIOUS
    <2>. HIDE DEF i, x, b
    <2>2. \/ x > 0 /\ SkidNum > 0
          \/ x < 0 /\ SkidNum < 0
      BY <1>1, <2>1, OneSign
    <2>3. \/ i > 0 /\ s = 1
          \/ i < 0 /\ s = -1
      BY <1>1, <1>3, OneSign
    <2>4. \/ X > 0 /\ r = 1
          \/ X < 0 /\ r = -1
      <3>. HIDE DEF X
      <3>. QED
        BY <1>1, <1>3, OneSign
    <2>5. \/ x > 0 /\ b > 0 /\ X > 0
          \/ x < 0 /\ b < 0 /\ X > 0
          \/ x > 0 /\ b < 0 /\ X < 0
          \/ x < 0 /\ b > 0 /\ X < 0
      BY <1>1, <1>2, <2>2
    <2>. HIDE DEF X
    <2>6. \/ SkidNum > 0 /\ r = s
          \/ SkidNum < 0 /\ r = -s
      BY <1>1, <1>2, <1>3, <2>2, <2>3, <2>4, <2>5
    <2>7. s * s = 1 /\ (-s) * s = -1
      BY <1>3
    <2>. QED
      BY <2>6, <2>7
  <1>. DEFINE left  == Scrub(t).n * Measured.d
              right == Measured.n * Scrub(t).d
  <1>5. /\ AtMost(Scrub(t), Measured) <=> left <= right
        /\ AtMost(Measured, Scrub(t)) <=> right <= left
        /\ left \in Int /\ right \in Int /\ Excess(t) \in Int
        /\ right - left = (r * s) * Excess(t)
    BY <1>3 DEF AtMost
  <1>. HIDE DEF left, right
  <1>6. CASE SkidNum > 0 /\ r * s = 1
    <2>1. right - left = Excess(t)
      BY <1>5, <1>6
    <2>. QED
      BY <1>5, <1>6, <2>1
  <1>7. CASE SkidNum < 0 /\ r * s = -1
    <2>1. right - left = -Excess(t)
      BY <1>5, <1>7
    <2>. QED
      BY <1>5, <1>7, <2>1
  <1>. QED
    BY <1>4, <1>6, <1>7

\* With no excess the two are one number.
LEMMA ScrubIsMeasured ==
    ASSUME AngleInv, NEW t \in Turn, t.track * SkidNum > 0, t.body # 0, imuAngle.n # 0,
           Excess(t) = 0
    PROVE  SameRate(Scrub(t), Measured)
  <1>1. PICK r \in {1, -1}, s \in {1, -1} :
           /\ Scrub(t).n \in Int /\ Scrub(t).d \in Int
           /\ Measured.n \in Int /\ Measured.d \in Int
           /\ Measured.n * Scrub(t).d - Scrub(t).n * Measured.d = (r * s) * Excess(t)
    BY ScrubAndMeasured
  <1>2. (r * s) * Excess(t) = 0
    OBVIOUS
  <1>3. Measured.n * Scrub(t).d \in Int /\ Scrub(t).n * Measured.d \in Int
    BY <1>1
  <1>. QED
    BY <1>1, <1>2, <1>3 DEF SameRate

\* Turns that scrub alike do so crosswise, whatever the signs of their fractions.
LEMMA AlikeCrosswise ==
    ASSUME NEW t \in Turn, t.track * SkidNum > 0, t.body # 0,
           NEW u \in Turn, u.track * SkidNum > 0, u.body # 0,
           SameRate(Scrub(t), Scrub(u))
    PROVE  Wheels(t) * Body(u) = Wheels(u) * Body(t)
  <1>. DEFINE W  == t.wheels * RateUnit
              X  == t.track * t.body
              Wu == u.wheels * RateUnit
              Xu == u.track * u.body
  <1>1. /\ t.wheels \in Int /\ t.track \in Int /\ t.body \in Int /\ RateUnit \in Int
        /\ u.wheels \in Int /\ u.track \in Int /\ u.body \in Int
        /\ SkidNum \in Int /\ SkidDen \in Int
    BY TurnNumbers, Bounds
  <1>2. W \in Int /\ X \in Int /\ Wu \in Int /\ Xu \in Int /\ X # 0 /\ Xu # 0
    <2>1. t.track # 0 /\ u.track # 0
      <3>1. 0 * SkidNum = 0
        BY <1>1
      <3>. QED
        BY <3>1
    <2>. HIDE DEF W, Wu
    <2>2. X # 0 /\ Xu # 0
      BY <1>1, <2>1, NoFactorZero
    <2>3. X \in Int /\ Xu \in Int
      BY <1>1
    <2>4. W \in Int /\ Wu \in Int
      BY <1>1 DEF W, Wu
    <2>. QED
      BY <2>2, <2>3, <2>4
  <1>3. /\ Wheels(t) * Body(u) = (SkidDen * SkidNum) * (W * Xu)
        /\ Wheels(u) * Body(t) = (SkidDen * SkidNum) * (Wu * X)
    BY <1>1 DEF Wheels, Body
  <1>4. Scrub(t) = Fraction(W, X) /\ Scrub(u) = Fraction(Wu, Xu)
    BY DEF Scrub
  <1>. HIDE DEF W, X, Wu, Xu
  <1>5. PICK r \in {1, -1} : Fraction(W, X) = [n |-> r * W, d |-> r * X]
    BY <1>2, FractionSign
  <1>6. PICK q \in {1, -1} : Fraction(Wu, Xu) = [n |-> q * Wu, d |-> q * Xu]
    BY <1>2, FractionSign
  <1>7. (r * W) * (q * Xu) = (q * Wu) * (r * X)
    BY <1>4, <1>5, <1>6 DEF SameRate
  <1>8. W * Xu = Wu * X
    <2>1. /\ (r * W) * (q * Xu) = (r * q) * (W * Xu)
          /\ (q * Wu) * (r * X) = (r * q) * (Wu * X)
          /\ W * Xu \in Int /\ Wu * X \in Int
      BY <1>2
    <2>2. r * q = 1 \/ r * q = -1
      OBVIOUS
    <2>3. /\ 1 * (W * Xu) = W * Xu /\ 1 * (Wu * X) = Wu * X
          /\ (-1) * (W * Xu) = -(W * Xu) /\ (-1) * (Wu * X) = -(Wu * X)
      BY <2>1
    <2>. QED
      BY <1>7, <2>1, <2>2, <2>3
  <1>. QED
    BY <1>3, <1>8

\* What the tool prints, times the factor in force, lies between the scrubs of two of the
\* turns of a robot turned one way, and is the scrub of one that scrubs alike in every
\* turn, whichever ways it turned: for all rates, tracks, gaps and gates.
THEOREM FactorIsAlwaysMeasured == CalibSpec => []FactorIsMeasured
  <1>1. ASSUME AngleInv, SampleInv, RatioInv, samples > 0,
               \A t, u \in turned : t.body * u.body > 0
        PROVE  /\ imuAngle.n # 0
               /\ \E t, u \in turned : /\ AtMost(Scrub(t), Measured)
                                       /\ AtMost(Measured, Scrub(u))
    <2>1. /\ \A t \in turned : imuAngle.n * t.body > 0
          /\ \A t \in turned : t \in Turn /\ t.track * SkidNum > 0
      BY <1>1 DEF SampleInv, RatioInv, OneWayInv
    <2>2. PICK t \in turned, u \in turned : Excess(t) >= 0 /\ Excess(u) <= 0
      BY <1>1 DEF SampleInv, RatioInv, OneWayInv
    <2>3. imuAngle.n # 0
      <3>1. 0 * t.body = 0
        BY <2>1, TurnNumbers
      <3>. QED
        BY <2>1, <3>1
    <2>4. \/ AtMost(Scrub(t), Measured) /\ AtMost(Measured, Scrub(u))
          \/ AtMost(Scrub(u), Measured) /\ AtMost(Measured, Scrub(t))
      <3>1. SkidNum \in Int
        BY Bounds
      <3>. HIDE DEF AtMost, Scrub, Measured, Excess
      <3>. QED
        BY <1>1, <2>1, <2>2, <3>1, ScrubOrder
    <2>. QED
      BY <2>3, <2>4
  <1>2. ASSUME AngleInv, SampleInv, RatioInv, imuAngle.n # 0,
               \A t, u \in turned : SameRate(Scrub(t), Scrub(u)), NEW t \in turned
        PROVE  SameRate(Scrub(t), Measured)
    <2>1. \A u \in turned : u \in Turn /\ u.track * SkidNum > 0 /\ u.body # 0
      BY <1>2 DEF SampleInv
    <2>2. \A u, v \in turned : Wheels(u) * Body(v) = Wheels(v) * Body(u)
      <3>. HIDE DEF Scrub, SameRate
      <3>. QED
        BY <1>2, <2>1, AlikeCrosswise
    <2>3. Excess(t) = 0
      BY <1>2, <2>2 DEF RatioInv, AlikeInv
    <2>. QED
      BY <1>2, <2>1, <2>3, ScrubIsMeasured
  <1>3. AngleInv /\ SampleInv /\ RatioInv => FactorIsMeasured
    BY <1>1, <1>2 DEF FactorIsMeasured
  <1>. QED
    BY <1>3, SampleInvariant, RatioInvariant, PTL
=============================================================================
