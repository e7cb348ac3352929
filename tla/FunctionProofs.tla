--------------------------- MODULE FunctionProofs ---------------------------
(***************************************************************************)
(* What the functions of Codec, Optics and Picture promise for every       *)
(* argument, of which the runs try a sample: a region that is zoomed to    *)
(* fits, a snapshot can be aimed by, a picture that is cut short is        *)
(* noticed and the size that is read is its own, percentages keep their    *)
(* order and come back, and a frame is parsed to what it was built from.   *)
(*                                                                         *)
(* No fact is about the state of a component.  The sums and products are   *)
(* brought under the solver's reach by naming them and hiding what they    *)
(* stand for.                                                              *)
(***************************************************************************)
EXTENDS Codec, Optics, Picture, TLAPS, FiniteSetTheorems

(* Arithmetic: division, order and cancellation, and the least of some     *)
(* numbers, which is the one with no smaller ones: the sets of smaller     *)
(* ones are well-founded.                                                  *)
LEMMA Division ==
    ASSUME NEW n \in Int, NEW d \in Nat \ {0}
    PROVE  /\ n \div d \in Int /\ n % d \in 0..d - 1
           /\ n = d * (n \div d) + (n % d)
  OBVIOUS

LEMMA MulOrder ==
    ASSUME NEW c \in Nat, NEW x \in Int, NEW y \in Int, x <= y PROVE c * x <= c * y /\ x * c <= y * c
  OBVIOUS

LEMMA MulCancel ==
    ASSUME NEW c \in Nat \ {0}, NEW x \in Int, NEW y \in Int, c * x <= c * y PROVE x <= y
  <1>1. c * (x - y) = c * x - c * y
    OBVIOUS
  <1>2. \A z \in Int : z >= 1 => c * z >= c
    OBVIOUS
  <1> QED  BY <1>1, <1>2

LEMMA LeastIn == ASSUME NEW T \in SUBSET Nat, IsFiniteSet(T), T # {}
                 PROVE  \E x \in T : \A y \in T : x <= y
  <1> DEFINE Below(x) == {y \in T : y < x}
  <1>1. T \subseteq Nat
    OBVIOUS
  <1>2. {Below(x) : x \in T} \subseteq FiniteSubsetsOf(T)
    BY FS_FiniteSubsetsOfFinite
  <1>3. \E A \in {Below(x) : x \in T} : \A B \in {Below(x) : x \in T} :
           <<B, A>> \notin StrictSubsetOrdering(T)
    <2>1. {Below(x) : x \in T} # {}
      OBVIOUS
    <2> HIDE DEF Below
    <2> QED  BY <1>2, <2>1, FS_StrictSubsetOrderingWellFounded, WFMin
  <1>4. PICK x \in T : \A y \in T : <<Below(y), Below(x)>> \notin StrictSubsetOrdering(T)
    BY <1>3
  <1>5. ASSUME NEW y \in T, y < x PROVE FALSE
    <2>1. Below(y) \subseteq Below(x)
      <3> SUFFICES ASSUME NEW z \in T, z < y PROVE z < x
        OBVIOUS
      <3>1. x \in Nat /\ y \in Nat /\ z \in Nat
        BY <1>1
      <3> QED  BY <1>5, <3>1
    <2>2. y \in Below(x) /\ y \notin Below(y)
      BY <1>1, <1>5
    <2>3. <<Below(y), Below(x)>> \in StrictSubsetOrdering(T)
      BY <2>1, <2>2 DEF StrictSubsetOrdering
    <2> QED  BY <1>4, <2>3
  <1> QED  BY <1>1, <1>5

(* Induction over the naturals, for a set of them.                         *)
LEMMA AllNaturals ==
    ASSUME NEW S, 0 \in S, \A n \in Nat : n \in S => n + 1 \in S
    PROVE  Nat \subseteq S
  <1> SUFFICES ASSUME NEW n \in Nat, n \notin S PROVE FALSE
    OBVIOUS
  <1> DEFINE T == {m \in 0..n : m \notin S}
  <1>1. T \in SUBSET Nat /\ T # {}
    OBVIOUS
  <1>2. IsFiniteSet(T)
    <2>1. IsFiniteSet(0..n) /\ T \subseteq 0..n
      BY FS_Interval
    <2> QED  BY <2>1, FS_Subset
  <1>3. PICK m \in T : \A k \in T : m <= k
    BY <1>1, <1>2, LeastIn
  <1>4. m # 0 /\ m - 1 \in 0..n /\ m - 1 \notin T
    <2>1. m \in 0..n /\ m # 0
      OBVIOUS
    <2>2. m - 1 \in 0..n /\ ~(m <= m - 1)
      BY <2>1
    <2> HIDE DEF T
    <2> QED  BY <1>3, <2>1, <2>2
  <1>5. m - 1 \in S /\ m - 1 \in Nat /\ (m - 1) + 1 = m
    BY <1>4
  <1> QED  BY <1>5

-----------------------------------------------------------------------------
(* Rounding is off by half a unit at most, and by a thousandth more where  *)
(* the code adds one.                                                      *)
LEMMA RoundNear ==
    ASSUME NEW n \in Int, NEW d \in Nat \ {0}
    PROVE  Round(n, d) \in Int /\ -d <= 2 * (d * Round(n, d)) - 2 * n /\  2 * (d * Round(n, d)) - 2 * n <= d
  <1> DEFINE q == n \div d
             r == n % d
  <1>1. q \in Int /\ r \in 0..d - 1 /\ n = d * q + r
    BY Division
  <1>2. Round(n, d) = IF 2 * r < d \/ (2 * r = d /\ q % 2 = 0) THEN q ELSE q + 1
    BY DEF Round
  <1> HIDE DEF q, r
  <1>3. d * (q + 1) = d * q + d /\ d * q \in Int
    BY <1>1
  <1> QED BY <1>1, <1>2, <1>3

LEMMA RoundedNear ==
    ASSUME NEW n \in Int, NEW d \in Nat \ {0}
    PROVE  /\ Rounded(n, d) \in Int
           /\ -1000 * d <= 2000 * (d * Rounded(n, d)) - 2000 * n
           /\  2000 * (d * Rounded(n, d)) - 2000 * n <= 1002 * d
  <1> DEFINE q == n \div d
             r == n % d
  <1>1. q \in Int /\ r \in 0..d - 1 /\ n = d * q + r
    BY Division
  <1>2. Rounded(n, d) = q + (IF 2 * (1000 * r + d) > 1000 * d THEN 1 ELSE 0)
    BY DEF Rounded
  <1> HIDE DEF q, r
  <1>3. d * (q + 1) = d * q + d /\ d * q \in Int
    BY <1>1
  <1> QED BY <1>1, <1>2, <1>3

(* A zoom percentage is within 0.6 percent of the ratio it is made of.     *)
LEMMA WithinRange ==
    ASSUME NEW ratio \in Int, 1000 <= ratio, ratio <= 2000
    PROVE  LET percent == ZoomUnits(ratio, 1000, 0, 100)
           IN percent \in 0..100 /\ 10 * percent - (ratio - 1000) \in -6..6
  <1> DEFINE percent == ZoomUnits(ratio, 1000, 0, 100)
             n == 100 * (ratio - 1000)
  <1>1. 1000 * 0 + (100 - 0) * (ratio - 1000) = n /\ n \in Int /\ 0 <= n /\ n <= 100000
    OBVIOUS
  <1>2. percent = Rounded(n, 1000)
    BY <1>1 DEF ZoomUnits
  <1>3. /\ percent \in Int
        /\ -1000 * 1000 <= 2000 * (1000 * percent) - 2000 * n
        /\ 2000 * (1000 * percent) - 2000 * n <= 1002 * 1000
    <2>1. 1000 \in Nat \ {0}
      OBVIOUS
    <2> QED  BY <1>1, <1>2, <2>1, RoundedNear
  <1> HIDE DEF percent
  <1>4. percent \in 0..100 /\ 10 * percent - (ratio - 1000) \in -6..6
    <2>1. n = 100 * (ratio - 1000)
      OBVIOUS
    <2> HIDE DEF n
    <2>2. percent >= 0 /\ percent <= 100
      BY <1>1, <1>3
    <2>3. 10 * percent - (ratio - 1000) >= -6 /\ 10 * percent - (ratio - 1000) <= 6
      BY <1>3, <2>1
    <2> QED  BY <1>3, <2>2, <2>3
  <1> QED  BY <1>4 DEF percent

LEMMA NothingMisread == Misread = {}
  <1> DEFINE Ratios == 1000..2000
  <1>1. ASSUME NEW ratio \in Ratios
        PROVE  Plausible(ratio)
    <2> DEFINE percent == ZoomUnits(ratio, 1000, 0, 100)
    <2>1. ratio \in Int /\ 1000 <= ratio /\ ratio <= 2000
      OBVIOUS
    <2>2. percent \in 0..100 /\ 10 * percent - (ratio - 1000) \in -6..6
      BY <2>1, WithinRange
    <2> HIDE DEF percent
    <2>3. MagnificationOf(percent) = <<100 + 3 * percent, 100>>
      BY DEF MagnificationOf
    <2>4. /\ 10 * percent - (ratio - 1000) \in -10..10
          /\ 10 * (100 + 3 * percent) - (3 * ratio - 2000) \in -20..20
      BY <2>1, <2>2
    <2>5. Within(<<100 + 3 * percent, 100>>, 1, 4) = <<100 + 3 * percent, 100>>
      BY <2>2 DEF Within
    <2> DEFINE m == MagnificationOf(percent)
    <2>6. m[1] = 100 + 3 * percent /\ Within(m, 1, 4) = m
      BY <2>3, <2>5
    <2> HIDE DEF m
    <2>7. 10 * m[1] - (3 * ratio - 2000) \in -20..20
      BY <2>4, <2>6
    <2> QED  BY <2>4, <2>6, <2>7 DEF m, percent, Plausible
  <1>2. Misread = {ratio \in Ratios : ~ Plausible(ratio)}
    BY Zenon DEF Misread
  <1> HIDE DEF Ratios
  <1> QED  BY <1>1, <1>2, Zenon

(* A magnification of a / b, as the percentage it is commanded as.         *)
CloseTo(a, b, percent) ==
    LET now == 100 + 3 * percent
    IN /\ percent \in Int
       /\ 2000 * (b * now) <= 200000 * a + 3006 * b
       /\ 2000 * (b * now) >= 200000 * a - 3000 * b

LEMMA ZoomClose ==
    ASSUME NEW a \in Nat, NEW b \in Nat \ {0}
    PROVE  CloseTo(a, b, ZoomUnits(a + 2 * b, 3 * b, 0, 100))
  <1> DEFINE percent == ZoomUnits(a + 2 * b, 3 * b, 0, 100)
             now == 100 + 3 * percent
             d == 3 * b
             n == 100 * (a - b)
  <1>1. d \in Nat \ {0} /\ n \in Int
    OBVIOUS
  <1>2. d * 0 + (100 - 0) * (a + 2 * b - d) = n
    OBVIOUS
  <1>3. percent = Rounded(n, d)
    BY <1>2 DEF ZoomUnits
  <1>4. /\ percent \in Int
        /\ -1000 * d <= 2000 * (d * percent) - 2000 * n
        /\ 2000 * (d * percent) - 2000 * n <= 1002 * d
    BY <1>1, <1>3, RoundedNear
  <1> HIDE DEF percent
  <1>5. d * percent = 3 * (b * percent) /\ b * percent \in Int
    BY <1>4
  <1>6. b * now = 100 * b + 3 * (b * percent)
    BY <1>4
  <1> HIDE DEF now
  <1>7. 2000 * (b * now) <= 200000 * a + 3006 * b /\ 2000 * (b * now) >= 200000 * a - 3000 * b
    BY <1>4, <1>5, <1>6
  <1>8. CloseTo(a, b, percent)
    BY <1>4, <1>7 DEF CloseTo, now
  <1> QED  BY <1>8 DEF percent

LEMMA EndsOfZoom ==
    /\ ZoomUnits(1 + 2 * 1, 3 * 1, 0, 100) = 0
    /\ ZoomUnits(4 + 2 * 1, 3 * 1, 0, 100) = 100
  BY DEF ZoomUnits, Rounded

(* zoom_to_fit along one axis: A of the frame, B of the region and a zoom  *)
(* of M hundredths, which is scaled by k hundredths less the margin.  If   *)
(* the quotient is within the ends of the zoom, the rounding is less than  *)
(* two hundredths, and less than a margin of two percent leaves.           *)
PercentFor(A, B, M, margin) ==
    LET ratio == RatioFor(Within(<<M * A * 100, 100 * B * (100 + margin)>>, 1, 4))
    IN ZoomUnits(ratio[1], ratio[2], 0, 100)

FitsAxis(A, B, M, margin, percent) ==
    LET now == 100 + 3 * percent
    IN /\ percent \in Int
       /\ B * (now - 2) <= A * M
       /\ margin >= 2 => B * now <= A * M
       /\ percent < 100 => (B * (100 + margin)) * (now + 2) >= 100 * (A * M)

LEMMA AxisFits ==
    ASSUME NEW A \in Nat \ {0}, NEW B \in 1..A, NEW M \in 100..400,
           NEW margin \in Nat
    PROVE  FitsAxis(A, B, M, margin, PercentFor(A, B, M, margin))
  <1> DEFINE k == 100 + margin
             X == A * M
             Y == B * k
             N == M * A * 100
             D == 100 * B * k
             fit == Within(<<N, D>>, 1, 4)
             ratio == RatioFor(fit)
             percent == ZoomUnits(ratio[1], ratio[2], 0, 100)
             now == 100 + 3 * percent
             Goal == /\ percent \in Int
                     /\ B * (now - 2) <= X
                     /\ margin >= 2 => B * now <= X
                     /\ percent < 100 => Y * (now + 2) >= 100 * X
  <1> SUFFICES Goal
    BY Zenon DEF FitsAxis, PercentFor
  <1>1. k \in Nat /\ k >= 100 /\ (margin >= 2 => k >= 102) /\ X \in Nat /\ Y \in Nat
    OBVIOUS
  <1>2. 100 * B <= X
    <2>1. B * 100 <= A * 100
      OBVIOUS
    <2>2. A * 100 <= A * M
      BY MulOrder
    <2> QED  BY <2>1, <2>2
  <1>3. Y > 0 /\ 100 * B <= Y
    <2>1. B \in Nat /\ B * 100 <= B * k
      BY <1>1, MulOrder
    <2> QED  BY <2>1
  <1>4. N = 100 * X /\ D = 100 * Y
    OBVIOUS
  <1>5. \A c \in Int : Y * c = k * (B * c)
    OBVIOUS
  <1> HIDE DEF X, Y, N, D, k
  <1>6. fit = IF X < Y THEN <<1, 1>> ELSE IF X > 4 * Y THEN <<4, 1>> ELSE <<N, D>>
    BY <1>1, <1>4 DEF Within
  <1> HIDE DEF fit
  <1>7. \A a, b : fit = <<a, b>> => percent = ZoomUnits(a + 2 * b, 3 * b, 0, 100)
    BY DEF RatioFor
  <1> HIDE DEF ratio, percent
  <1>8. CASE X < Y
    <2>1. percent = 0
      BY <1>6, <1>7, <1>8, EndsOfZoom
    <2> QED  BY <1>1, <1>2, <1>8, <2>1
  <1>9. CASE X > 4 * Y
    <2>1. percent = 100
      BY <1>1, <1>3, <1>6, <1>9, <1>7, EndsOfZoom
    <2> QED  BY <1>1, <1>3, <1>9, <2>1
  <1>10. CASE ~(X < Y) /\ ~(X > 4 * Y)
    <2>1. percent = ZoomUnits(N + 2 * D, 3 * D, 0, 100)
      BY <1>6, <1>7, <1>10
    <2>2. N \in Nat /\ D \in Nat \ {0}
      BY <1>1, <1>3, <1>4
    <2>3. /\ percent \in Int
          /\ 2000 * (D * now) <= 200000 * N + 3006 * D
          /\ 2000 * (D * now) >= 200000 * N - 3000 * D
      <3>1. CloseTo(N, D, ZoomUnits(N + 2 * D, 3 * D, 0, 100))
        BY <2>2, ZoomClose, Zenon
      <3>2. CloseTo(N, D, percent)
        BY <2>1, <3>1, Zenon
      <3> QED  BY <3>2 DEF CloseTo
    <2> HIDE DEF now
    <2>4. now \in Int
      BY <2>3 DEF now
    <2>5. D * now = 100 * (Y * now) /\ Y * now \in Int /\ Y * (now + 2) = Y * now + 2 * Y
      BY <1>1, <1>4, <2>4
    <2>6. 2000 * (Y * now) <= 200000 * X + 3006 * Y /\ 2000 * (Y * now) >= 200000 * X - 3000 * Y
      BY <1>1, <1>4, <2>3, <2>5
    <2>7. Y * (now + 2) >= 100 * X
      BY <1>1, <2>5, <2>6
    <2>8. /\ k \in Nat \ {0} /\ X \in Int
          /\ \A z \in Int : k * z \in Int /\ (k * z <= k * X => z <= X)
      <3>1. k \in Nat \ {0} /\ X \in Int
        BY <1>1
      <3> QED  BY <3>1, MulCancel
    <2>9. margin >= 2 => B * now <= X
      <3> DEFINE z == B * now
      <3>1. z \in Int /\ Y * now = k * z
        BY <1>5, <2>4
      <3> HIDE DEF z
      <3>2. 2000 * (k * z) <= 203006 * X
        BY <1>1, <1>10, <2>6, <3>1
      <3>3. margin >= 2 => 102 * X <= k * X /\ k * X \in Int
        BY <1>1, <3>1, MulOrder
      <3>4. margin >= 2 => k * z <= k * X
        BY <1>1, <2>8, <3>1, <3>2, <3>3
      <3>5. margin >= 2 => z <= X
        BY <2>8, <3>1, <3>4
      <3> QED  BY <3>5 DEF z
    <2>10. B * (now - 2) <= X
      <3> DEFINE z == B * (now - 2)
      <3>1. z \in Int /\ Y * (now - 2) = k * z
        BY <1>5, <2>4
      <3>2. Y * (now - 2) = Y * now - 2 * Y
        BY <1>1, <2>4
      <3> HIDE DEF z
      <3>3. 2000 * (k * z) <= 200000 * X
        BY <1>1, <2>5, <2>6, <3>1, <3>2
      <3>4. 100 * X <= k * X /\ k * X \in Int
        BY <1>1, MulOrder
      <3>5. k * z <= k * X
        BY <1>1, <2>8, <3>1, <3>3, <3>4
      <3>6. z <= X
        BY <2>8, <3>1, <3>5
      <3> QED  BY <3>6 DEF z
    <2> QED  BY <2>3, <2>7, <2>9, <2>10
  <1> QED  BY <1>8, <1>9, <1>10

(* The axis that decides needs less zoom than the other one.               *)
LEMMA OtherAxis ==
    ASSUME NEW W \in Nat, NEW H \in Nat, NEW w \in Nat \ {0}, NEW h \in Nat,
           NEW M \in Nat, NEW now \in Int, W * h <= H * w, w * now <= W * M
    PROVE  h * now <= H * M
  <1> DEFINE z == h * now
             y == H * M
  <1>1. z \in Int /\ y \in Int
    OBVIOUS
  <1>2. w * z = h * (w * now) /\ w * y = (H * w) * M
    OBVIOUS
  <1>3. h * (w * now) <= h * (W * M)
    <2> DEFINE a == w * now
               b == W * M
    <2>1. a \in Int /\ b \in Int /\ a <= b
      OBVIOUS
    <2> HIDE DEF a, b
    <2>2. h * a <= h * b
      BY <2>1, MulOrder
    <2> QED  BY <2>2 DEF a, b
  <1>4. h * (W * M) = (W * h) * M
    OBVIOUS
  <1>5. (W * h) * M <= (H * w) * M
    <2> DEFINE a == W * h
               b == H * w
    <2>1. a \in Int /\ b \in Int /\ a <= b
      OBVIOUS
    <2> HIDE DEF a, b
    <2>2. a * M <= b * M
      BY <2>1, MulOrder
    <2> QED  BY <2>2 DEF a, b
  <1>6. w * z <= w * y
    <2> DEFINE p == h * (w * now)
               q == h * (W * M)
               r == (H * w) * M
    <2>1. p \in Int /\ q \in Int /\ r \in Int
      OBVIOUS
    <2>2. w * z = p /\ w * y = r /\ p <= q /\ q <= r
      BY <1>2, <1>3, <1>4, <1>5
    <2> HIDE DEF p, q, r, z, y
    <2> QED  BY <2>1, <2>2
  <1> HIDE DEF z, y
  <1>7. z <= y
    BY <1>1, <1>6, MulCancel
  <1> QED  BY <1>7 DEF z, y

(* Whatever the frame and the zoom it is taken with, the region in it and  *)
(* the margin, the region is inside the frame, but for half a unit of zoom,*)
(* at the zoom that obsbot_zoom_to_fit commands for it, and wholly so at a *)
(* margin of 2 percent or more; and it fills one of its sides but for the  *)
(* margin and half a unit, unless the zoom is at its end (aim.py:112).     *)
THEOREM RegionFits ==
    ASSUME NEW width \in Nat \ {0}, NEW height \in Nat \ {0},
           NEW w \in 1..width, NEW h \in 1..height,
           NEW from \in 0..100, NEW margin \in Nat
    PROVE  Fits(width, height, w, h, from, margin)
  <1> DEFINE M == 100 + 3 * from
             m == MagnificationOf(from)
             fit == FitMagnification(m, width, height, w, h, margin)
             ratio == RatioFor(fit)
             percent == ZoomUnits(ratio[1], ratio[2], 0, 100)
             now == MagnificationOf(percent)[1]
             Goal == /\ w * (now - 2) <= width * m[1] /\ h * (now - 2) <= height * m[1]
                     /\ margin >= 2 => w * now <= width * m[1] /\ h * now <= height * m[1]
                     /\ percent < 100 =>
                          \/ (w * (100 + margin)) * (now + 2) >= 100 * (width * m[1])
                          \/ (h * (100 + margin)) * (now + 2) >= 100 * (height * m[1])
  <1> SUFFICES Goal
    BY Zenon DEF Fits, Inside, FitPercent
  <1>1. M \in 100..400 /\ M \in Nat /\ m = <<M, 100>> /\ m[1] = M /\ m[2] = 100
    BY DEF MagnificationOf
  <1>2. now = 100 + 3 * percent
    BY DEF MagnificationOf
  <1>3. w \in Nat \ {0} /\ h \in Nat \ {0}
    OBVIOUS
  <1> HIDE DEF M, m
  <1>4. fit = LET axis == TighterAxis(width, height, w, h)
              IN Within(<<M * axis[1] * 100, 100 * axis[2] * (100 + margin)>>, 1, 4)
    BY <1>1 DEF FitMagnification
  <1>5. CASE width * h <= height * w
    <2>1. fit = Within(<<M * width * 100, 100 * w * (100 + margin)>>, 1, 4)
      BY <1>4, <1>5 DEF TighterAxis
    <2> HIDE DEF fit
    <2> USE DEF ratio, percent
    <2>2. /\ percent \in Int
          /\ w * ((100 + 3 * percent) - 2) <= width * M
          /\ margin >= 2 => w * (100 + 3 * percent) <= width * M
          /\ percent < 100 => (w * (100 + margin)) * ((100 + 3 * percent) + 2) >= 100 * (width * M)
      <3>1. percent = PercentFor(width, w, M, margin)
        BY <2>1 DEF PercentFor
      <3>2. FitsAxis(width, w, M, margin, percent)
        <4>1. FitsAxis(width, w, M, margin, PercentFor(width, w, M, margin))
          <5> HIDE DEF percent
          <5> QED  BY <1>1, AxisFits
        <4> QED  BY <3>1, <4>1, Zenon
      <3> HIDE DEF percent
      <3> QED  BY <3>2 DEF FitsAxis
    <2> HIDE DEF ratio, percent, now
    <2>3. /\ now \in Int /\ now - 2 \in Int
          /\ w * (now - 2) <= width * M
          /\ margin >= 2 => w * now <= width * M
      BY <1>2, <2>2
    <2>4. /\ h * (now - 2) <= height * M
          /\ margin >= 2 => h * now <= height * M
      BY <1>1, <1>3, <1>5, <2>3, OtherAxis
    <2> QED  BY <1>1, <1>2, <2>2, <2>3, <2>4, Zenon
  <1>6. CASE ~(width * h <= height * w)
    <2>1. fit = Within(<<M * height * 100, 100 * h * (100 + margin)>>, 1, 4)
      BY <1>4, <1>6 DEF TighterAxis
    <2> HIDE DEF fit
    <2> USE DEF ratio, percent
    <2>2. /\ percent \in Int
          /\ h * ((100 + 3 * percent) - 2) <= height * M
          /\ margin >= 2 => h * (100 + 3 * percent) <= height * M
          /\ percent < 100 => (h * (100 + margin)) * ((100 + 3 * percent) + 2) >= 100 * (height * M)
      <3>1. percent = PercentFor(height, h, M, margin)
        BY <2>1 DEF PercentFor
      <3>2. FitsAxis(height, h, M, margin, percent)
        <4>1. FitsAxis(height, h, M, margin, PercentFor(height, h, M, margin))
          <5> HIDE DEF percent
          <5> QED  BY <1>1, AxisFits
        <4> QED  BY <3>1, <4>1, Zenon
      <3> HIDE DEF percent
      <3> QED  BY <3>2 DEF FitsAxis
    <2> HIDE DEF ratio, percent, now
    <2>3. /\ now \in Int /\ now - 2 \in Int
          /\ h * (now - 2) <= height * M
          /\ margin >= 2 => h * now <= height * M
      BY <1>2, <2>2
    <2>4. height * w <= width * h
      BY <1>3, <1>6
    <2>5. /\ w * (now - 2) <= width * M
          /\ margin >= 2 => w * now <= width * M
      BY <1>1, <1>3, <2>3, <2>4, OtherAxis
    <2> QED  BY <1>1, <1>2, <2>2, <2>3, <2>5, Zenon
  <1> QED  BY <1>5, <1>6

(* The run's sample of regions.                                            *)
LEMMA EveryRegionFits == Misfit = {}
  <1>1. ASSUME NEW s \in Regions
        PROVE  Fits(16, 9, s.w, s.h, s.from, s.margin)
    <2>1. PICK width : width = 16
      OBVIOUS
    <2>2. PICK height : height = 9
      OBVIOUS
    <2>3. /\ width \in Nat \ {0} /\ height \in Nat \ {0}
          /\ s.w \in 1..width /\ s.h \in 1..height
          /\ s.from \in 0..100 /\ s.margin \in Nat
      BY <2>1, <2>2 DEF Regions
    <2>4. \A w \in 1..width, h \in 1..height, from \in 0..100, margin \in Nat :
            Fits(width, height, w, h, from, margin)
      BY <2>3, RegionFits
    <2>5. PICK w : w = s.w
      OBVIOUS
    <2>6. PICK h : h = s.h
      OBVIOUS
    <2>7. PICK from : from = s.from
      OBVIOUS
    <2>8. PICK margin : margin = s.margin
      OBVIOUS
    <2>9. w \in 1..width
      BY <2>3, <2>5
    <2>10. h \in 1..height
      BY <2>3, <2>6
    <2>11. from \in 0..100
      BY <2>3, <2>7
    <2>12. margin \in Nat
      BY <2>3, <2>8
    <2>13. Fits(width, height, w, h, from, margin)
      BY <2>4, <2>9, <2>10, <2>11, <2>12
    <2> QED  BY <2>1, <2>2, <2>5, <2>6, <2>7, <2>8, <2>13, Zenon
  <1> DEFINE Good(s) == Fits(16, 9, s.w, s.h, s.from, s.margin)
  <1>2. Misfit = {s \in Regions : ~ Good(s)}
    BY Zenon DEF Misfit
  <1> HIDE DEF Good
  <1>3. \A s \in Regions : Good(s)
    BY <1>1, Zenon DEF Good
  <1> QED  BY <1>2, <1>3

-----------------------------------------------------------------------------
(* Where the zeros begin that the loop of is_complete_jpeg strips.         *)
LEMMA UnpaddedIs ==
    ASSUME NEW buf \in Seq(Int), Len(buf) >= 2
    PROVE  /\ Unpadded(buf) \in 2..Len(buf)
           /\ Unpadded(buf) = 2 \/ buf[Unpadded(buf)] # 0
           /\ \A j \in Unpadded(buf) + 1..Len(buf) : buf[j] = 0
  <1> DEFINE Padding(n) == \A j \in n + 1..Len(buf) : buf[j] = 0
             T == {n \in 2..Len(buf) : Padding(n)}
  <1>1. Len(buf) \in Nat
    OBVIOUS
  <1>2. T \in SUBSET Nat /\ IsFiniteSet(T)
    <2>1. IsFiniteSet(2..Len(buf))
      BY <1>1, FS_Interval
    <2>2. T \subseteq 2..Len(buf)
      OBVIOUS
    <2> QED  BY <2>1, <2>2, FS_Subset
  <1>3. Len(buf) \in T
    BY <1>1
  <1>4. PICK n \in T : \A y \in T : n <= y
    BY <1>2, <1>3, LeastIn
  <1>5. n = 2 \/ buf[n] # 0
    <2> SUFFICES ASSUME n # 2, buf[n] = 0 PROVE FALSE
      OBVIOUS
    <2>1. n - 1 \in 2..Len(buf)
      BY <1>1
    <2>2. Padding(n - 1)
      <3> SUFFICES ASSUME NEW j \in (n - 1) + 1..Len(buf) PROVE buf[j] = 0
        OBVIOUS
      <3>1. j = n \/ j \in n + 1..Len(buf)
        BY <1>1
      <3> QED  BY <3>1
    <2>3. n - 1 \in T
      BY <2>1, <2>2
    <2>4. n \in Nat
      OBVIOUS
    <2> HIDE DEF T
    <2>5. n <= n - 1
      BY <1>4, <2>3
    <2> QED  BY <2>4, <2>5
  <1>6. \E m \in 2..Len(buf) : (m = 2 \/ buf[m] # 0) /\ \A j \in m + 1..Len(buf) : buf[j] = 0
    BY <1>4, <1>5
  <1> QED  BY <1>6 DEF Unpadded

LEMMA StartIs ==
    ASSUME NEW buf \in Seq(Int), Len(buf) >= 4
    PROVE  SubSeq(buf, 1, 2) = <<255, 216>> <=> buf[1] = 255 /\ buf[2] = 216
  <1>1. Len(SubSeq(buf, 1, 2)) = 2 /\ SubSeq(buf, 1, 2) \in Seq(Int)
    OBVIOUS
  <1>2. SubSeq(buf, 1, 2)[1] = buf[1] /\ SubSeq(buf, 1, 2)[2] = buf[2]
    OBVIOUS
  <1> DEFINE s == SubSeq(buf, 1, 2)
             a == buf[1]
             b == buf[2]
  <1>3. s = <<a, b>>
    <2>1. s \in Seq(Int) /\ Len(s) = 2 /\ s[1] = a /\ s[2] = b
      BY <1>1, <1>2
    <2> HIDE DEF s, a, b
    <2> QED  BY <2>1
  <1> QED  BY <1>3

(* For every buffer is_complete_jpeg says whether it starts as a picture   *)
(* and ends as one but for zeros: neither a picture that was cut short     *)
(* passes, nor is a padded one refused (capture.py:39).                    *)
THEOREM CompleteIsWhole ==
    ASSUME NEW buf \in Seq(Int)
    PROVE  IsCompleteJpeg(buf) <=> Whole(buf)
  <1>1. CASE ~(Len(buf) >= 4)
    BY <1>1 DEF IsCompleteJpeg, Whole
  <1>2. CASE Len(buf) >= 4 /\ ~(buf[1] = 255 /\ buf[2] = 216)
    BY <1>2, StartIs DEF IsCompleteJpeg, Whole
  <1>3. CASE Len(buf) >= 4 /\ buf[1] = 255 /\ buf[2] = 216
    <2> DEFINE n == Unpadded(buf)
    <2>1. /\ n \in 2..Len(buf) /\ (n = 2 \/ buf[n] # 0)
          /\ \A j \in n + 1..Len(buf) : buf[j] = 0
      BY <1>3, UnpaddedIs
    <2> HIDE DEF n
    <2>2. IsCompleteJpeg(buf) <=> buf[n - 1] = 255 /\ buf[n] = 217
      BY <1>3 DEF IsCompleteJpeg, n
    <2>3. Whole(buf) <=> EndsWhole(buf)
      BY <1>3, StartIs DEF Whole
    <2>4. ASSUME buf[n - 1] = 255, buf[n] = 217
          PROVE  EndsWhole(buf)
      <3>1. n # 2 /\ n # 3
        <4>1. n = 2 => buf[n] = 216
          BY <1>3
        <4>2. n = 3 => buf[n - 1] = 216
          BY <1>3
        <4> QED  BY <2>4, <4>1, <4>2
      <3>2. n \in 4..Len(buf)
        BY <2>1, <3>1
      <3> QED  BY <2>1, <2>4, <3>2 DEF EndsWhole
    <2>5. ASSUME EndsWhole(buf)
          PROVE  buf[n - 1] = 255 /\ buf[n] = 217
      <3>1. PICK k \in 4..Len(buf) :
              /\ buf[k - 1] = 255 /\ buf[k] = 217
              /\ \A j \in k + 1..Len(buf) : buf[j] = 0
        BY <2>5 DEF EndsWhole
      <3>2. ~(n < k)
        <4> SUFFICES ASSUME n < k PROVE FALSE
          OBVIOUS
        <4>1. k \in n + 1..Len(buf)
          BY <2>1
        <4> QED  BY <2>1, <3>1, <4>1
      <3>3. ~(n > k)
        <4> SUFFICES ASSUME n > k PROVE FALSE
          OBVIOUS
        <4>1. n \in k + 1..Len(buf) /\ n # 2
          BY <2>1
        <4> QED  BY <2>1, <3>1, <4>1
      <3>4. n = k
        BY <2>1, <3>2, <3>3
      <3> QED  BY <3>1, <3>4
    <2> QED  BY <2>2, <2>3, <2>4, <2>5
  <1> QED  BY <1>1, <1>2, <1>3

(* The run's sample of buffers.                                            *)
LEMMA NothingMisjudged == Misjudged = {}
  <1>1. ASSUME NEW buf \in Buffers PROVE buf \in Seq(Int)
    <2> DEFINE Four == {0, 216, 217, 255}
    <2> HIDE DEF Four
    <2>1. PICK top \in Nat : top = 6
      OBVIOUS
    <2>2. Buffers = UNION {[1..n -> Four] : n \in 0..top}
      BY <2>1 DEF Buffers, Four
    <2>3. PICK n \in 0..top : buf \in [1..n -> Four]
      BY <2>2, Zenon
    <2>4. n \in Nat /\ \A i \in 1..n : buf[i] \in Int
      BY <2>3 DEF Four
    <2>5. buf \in [1..n -> Int]
      BY <2>3, <2>4
    <2> QED  BY <2>4, <2>5
  <1>2. \A buf \in Buffers : IsCompleteJpeg(buf) \in BOOLEAN /\ Whole(buf) \in BOOLEAN
    BY DEF IsCompleteJpeg, Whole
  <1> QED  BY <1>1, <1>2, CompleteIsWhole DEF Misjudged

(* A side of a frame whose longest one is a times k, if it is b times k:   *)
(* scaled, it is the resolution's share b / a of it but for a pixel.       *)
LEMMA SideNear ==
    ASSUME NEW k \in Nat \ {0}, NEW resolution \in Nat, resolution >= 256,
           NEW a \in {4, 16}, NEW b \in {3, 4, 9, 16},
           NEW side \in ScaledSide(b * k, a * k, resolution)
    PROVE  /\ side \in Int
           /\ b * resolution - a <= a * side /\ a * side <= b * resolution + a
  <1>1. PICK half \in Nearest((b * k) * resolution, 2 * (a * k)) :
           side = IF half = 0 THEN 2 ELSE 2 * half
    BY DEF ScaledSide
  <1> DEFINE n == (b * k) * resolution
             d == 2 * (a * k)
             low == 2 * (b * resolution) - 2 * a
             mid == 4 * (a * half)
             high == 2 * (b * resolution) + 2 * a
  <1>2. half \in Int
    BY DEF Nearest
  <1>3. 2 * n - d <= 2 * half * d /\ 2 * half * d <= 2 * n + d
    BY DEF Nearest
  <1>4. /\ low \in Int /\ mid \in Int /\ high \in Int
        /\ k * low = 2 * n - d /\ k * mid = 2 * half * d /\ k * high = 2 * n + d
    BY <1>2
  <1>5. k * low <= k * mid /\ k * mid <= k * high
    BY <1>3, <1>4, Zenon
  <1>6. low <= mid /\ mid <= high
    <2> HIDE DEF low, mid, high
    <2> QED  BY <1>4, <1>5, MulCancel
  <1>7. half # 0
    BY <1>2, <1>6
  <1> QED  BY <1>1, <1>2, <1>6, <1>7

(* take_snapshot's frame of any 16:9 stream, in any resolution the tool    *)
(* admits and whether its scaling works or not, passes the shape guard of  *)
(* the aiming tools, and is the stream's own or has the edge that was asked*)
(* for but for a pixel (aim.py:130, capture.py:85, 117).                   *)
THEOREM SnapshotsAim ==
    ASSUME NEW k \in Nat \ {0}, NEW resolution \in Nat, resolution >= 256,
           NEW width, NEW height, width = 16 * k, height = 9 * k,
           NEW size \in Sizes(width, height, resolution)
    PROVE  Aimable(size, <<width, height>>, resolution)
  <1>1. width \in Nat /\ height \in Nat /\ width > height
    OBVIOUS
  <1>2. CASE size = <<width, height>>
    <2>1. size[1] = 16 * k /\ size[2] = 9 * k
      BY <1>2
    <2>2. Is16To9(size[1], size[2])
      BY <2>1 DEF Is16To9
    <2> QED  BY <1>2, <2>2 DEF Aimable
  <1>3. CASE size # <<width, height>>
    <2>1. /\ width > resolution
          /\ size \in ScaledSide(width, width, resolution) \X ScaledSide(height, width, resolution)
      BY <1>1, <1>3 DEF Sizes
    <2>2. /\ 16 * k > resolution
          /\ size \in ScaledSide(16 * k, 16 * k, resolution) \X ScaledSide(9 * k, 16 * k, resolution)
      BY <2>1
    <2>3. /\ size[1] \in Int /\ size[2] \in Int
          /\ 16 * resolution - 16 <= 16 * size[1] /\ 16 * size[1] <= 16 * resolution + 16
          /\ 9 * resolution - 16 <= 16 * size[2] /\ 16 * size[2] <= 9 * resolution + 16
      BY <2>2, SideNear
    <2> QED  BY <2>3 DEF Aimable, Is16To9
  <1> QED  BY <1>2, <1>3

(* And of a 4:3 stream none passes it: a grab that names no size may get   *)
(* one (capture.py:72), and no rounding makes it look like 16:9.           *)
THEOREM OddOnesRefused ==
    ASSUME NEW k \in Nat \ {0}, NEW resolution \in Nat, resolution >= 256,
           NEW width, NEW height, width = 4 * k, height = 3 * k,
           NEW size \in Sizes(width, height, resolution)
    PROVE  ~Is16To9(size[1], size[2])
  <1>1. width \in Nat /\ height \in Nat /\ width > height
    OBVIOUS
  <1>2. CASE size = <<width, height>>
    <2>1. size[1] = 4 * k /\ size[2] = 3 * k
      BY <1>2
    <2> QED  BY <2>1 DEF Is16To9
  <1>3. CASE size # <<width, height>>
    <2>1. size \in ScaledSide(width, width, resolution) \X ScaledSide(height, width, resolution)
      BY <1>1, <1>3 DEF Sizes
    <2>2. size \in ScaledSide(4 * k, 4 * k, resolution) \X ScaledSide(3 * k, 4 * k, resolution)
      BY <2>1
    <2>3. /\ size[1] \in Int /\ size[2] \in Int
          /\ 4 * resolution - 4 <= 4 * size[1] /\ 4 * size[1] <= 4 * resolution + 4
          /\ 3 * resolution - 4 <= 4 * size[2] /\ 4 * size[2] <= 3 * resolution + 4
      BY <2>2, SideNear
    <2> QED  BY <2>3 DEF Is16To9
  <1> QED  BY <1>2, <1>3

(* The run's sample: every resolution of seven streams.                    *)
LEMMA NothingMisshapen == Misshapen = {}
  <1>1. ASSUME NEW resolution \in Resolutions, NEW stream \in Wide,
               NEW size \in Sizes(stream[1], stream[2], resolution)
        PROVE  Aimable(size, stream, resolution)
    <2>1. resolution \in Nat /\ resolution >= 256
      BY DEF Resolutions
    <2>2. PICK k \in {40, 80, 120, 240} :
            stream[1] = 16 * k /\ stream[2] = 9 * k /\ stream = <<stream[1], stream[2]>>
      BY DEF Wide, NativeSize
    <2>3. k \in Nat \ {0}
      BY <2>2
    <2>4. Aimable(size, <<stream[1], stream[2]>>, resolution)
      BY <2>1, <2>2, <2>3, SnapshotsAim
    <2> QED  BY <2>2, <2>4
  <1>2. ASSUME NEW resolution \in Resolutions, NEW stream \in DefaultSizes \ Wide,
               NEW size \in Sizes(stream[1], stream[2], resolution)
        PROVE  ~Is16To9(size[1], size[2])
    <2>1. resolution \in Nat /\ resolution >= 256
      BY DEF Resolutions
    <2>2. PICK k \in {160, 200, 320} : stream[1] = 4 * k /\ stream[2] = 3 * k
      BY DEF Wide, DefaultSizes, NativeSize
    <2>3. k \in Nat \ {0}
      BY <2>2
    <2> QED  BY <2>1, <2>2, <2>3, OddOnesRefused
  <1>3. ASSUME NEW resolution \in Resolutions, NEW stream \in Wide
        PROVE  ~\E size \in Sizes(stream[1], stream[2], resolution) :
                  ~Aimable(size, stream, resolution)
    BY <1>1, Zenon
  <1>4. ASSUME NEW resolution \in Resolutions, NEW stream \in DefaultSizes \ Wide
        PROVE  ~\E size \in Sizes(stream[1], stream[2], resolution) : Is16To9(size[1], size[2])
    BY <1>2, Zenon
  <1>5. ASSUME NEW resolution \in Misshapen PROVE FALSE
    BY <1>3, <1>4, Zenon DEF Misshapen
  <1> QED  BY <1>5, Zenon

-----------------------------------------------------------------------------
(* jpeg_dimensions reads a buffer from an offset on: its size there is the *)
(* one at a later offset, but for the end and for an SOF.                  *)
SizeAt(buf, size, i) ==
    IF i + 9 >= Len(buf) THEN <<0, 0>>
    ELSE IF buf[i + 1] # 255 THEN size[i + 1]
    ELSE IF buf[i + 2] \in Bare THEN size[i + 2]
    ELSE IF buf[i + 2] \in StartOfFrame THEN <<Big(buf, i + 7), Big(buf, i + 5)>>
    ELSE size[PastSegment(buf, i)]
Reads(buf, size) == \A i \in Nat : size[i] = SizeAt(buf, size, i)

Octets == 0..255
LEMMA OctetsOf == ASSUME NEW buf \in Seq(Octets) PROVE \A k \in 1..Len(buf) : buf[k] \in Octets
  OBVIOUS

LEMMA BigIs ==
    ASSUME NEW buf \in Seq(Octets), NEW i \in Nat, i + 2 <= Len(buf)
    PROVE  Big(buf, i) \in Nat
  <1>1. \A k \in 1..Len(buf) : buf[k] \in 0..255
    BY OctetsOf DEF Octets
  <1>2. i + 1 \in 1..Len(buf) /\ i + 2 \in 1..Len(buf)
    OBVIOUS
  <1> DEFINE a == buf[i + 1]
             b == buf[i + 2]
  <1>3. a \in 0..255 /\ b \in 0..255
    BY <1>1, <1>2, Zenon
  <1>4. Big(buf, i) = 256 * a + b
    BY Zenon DEF Big
  <1> HIDE DEF a, b
  <1> QED  BY <1>3, <1>4

(* The function jpeg_dimensions stands for exists: the sizes at the last m *)
(* offsets are settled by those behind them.                               *)
LEMMA SomeReads == ASSUME NEW buf \in Seq(Octets) PROVE \E size \in [Nat -> {<<0, 0>>} \cup (Nat \X Nat)] : Reads(buf, size)
  <1> DEFINE N == Len(buf)
             V == {<<0, 0>>} \cup (Nat \X Nat)
             S == {m \in Nat : \E size \in [Nat -> V] :
                       \A i \in Nat : i + m >= N => size[i] = SizeAt(buf, size, i)}
  <1>1. N \in Nat
    OBVIOUS
  <1>2. 0 \in S
    <2> DEFINE size == [i \in Nat |-> <<0, 0>>]
    <2>1. size \in [Nat -> V]
      OBVIOUS
    <2>2. ASSUME NEW i \in Nat, i + 0 >= N PROVE size[i] = SizeAt(buf, size, i)
      BY <1>1, <2>2 DEF SizeAt
    <2> HIDE DEF size
    <2> QED  BY <2>1, <2>2
  <1>3. ASSUME NEW m \in Nat, m \in S PROVE m + 1 \in S
    <2>1. PICK size \in [Nat -> V] : \A i \in Nat : i + m >= N => size[i] = SizeAt(buf, size, i)
      BY <1>3
    <2>2. CASE m >= N
      BY <2>1, <2>2, <1>1
    <2>3. CASE m < N
      <3> DEFINE k == N - (m + 1)
                 longer == [size EXCEPT ![k] = SizeAt(buf, size, k)]
      <3>1. k \in Nat /\ k < N
        BY <1>1, <2>3
      <3>2. ASSUME NEW i \in Nat, i >= k
            PROVE  SizeAt(buf, longer, i) = SizeAt(buf, size, i)
        <4>1. CASE i + 9 >= Len(buf)
          BY <4>1 DEF SizeAt
        <4>2. CASE ~(i + 9 >= Len(buf))
          <5>1. PastSegment(buf, i) \in Nat /\ PastSegment(buf, i) > i
            <6>1. i + 2 \in Nat /\ (i + 2) + 2 <= Len(buf)
              BY <4>2, <1>1
            <6>2. Big(buf, i + 2) \in Nat
              BY <6>1, BigIs
            <6> QED  BY <6>2 DEF PastSegment
          <5>2. \A j \in Nat : j > i => longer[j] = size[j]
            BY <3>1, <3>2
          <5>3. i + 1 \in Nat /\ i + 1 > i /\ i + 2 \in Nat /\ i + 2 > i
            OBVIOUS
          <5>4. /\ longer[i + 1] = size[i + 1] /\ longer[i + 2] = size[i + 2]
                /\ longer[PastSegment(buf, i)] = size[PastSegment(buf, i)]
            BY <5>1, <5>2, <5>3
          <5> HIDE DEF longer
          <5> QED  BY <5>4 DEF SizeAt
        <4> QED  BY <4>1, <4>2
      <3>3. SizeAt(buf, size, k) \in V
        <4>1. CASE k + 9 >= N
          BY <4>1 DEF SizeAt
        <4>2. CASE ~(k + 9 >= N)
          <5>1. Big(buf, k + 2) \in Nat /\ Big(buf, k + 5) \in Nat /\ Big(buf, k + 7) \in Nat
            <6>1. \A j \in {2, 5, 7} : k + j \in Nat /\ (k + j) + 2 <= Len(buf)
              BY <3>1, <4>2
            <6> QED  BY <6>1, BigIs
          <5>2. PastSegment(buf, k) \in Nat
            BY <3>1, <5>1 DEF PastSegment
          <5>3. k + 1 \in Nat /\ k + 2 \in Nat
            BY <3>1
          <5>4. size[k + 1] \in V /\ size[k + 2] \in V /\ size[PastSegment(buf, k)] \in V
            BY <5>2, <5>3
          <5>5. <<Big(buf, k + 7), Big(buf, k + 5)>> \in V
            BY <5>1
          <5> HIDE DEF V, k
          <5> QED  BY <4>2, <5>4, <5>5 DEF SizeAt
        <4> QED  BY <4>1, <4>2
      <3>4. longer \in [Nat -> V]
        BY <3>1, <3>3
      <3>5. ASSUME NEW i \in Nat, i + (m + 1) >= N
            PROVE  longer[i] = SizeAt(buf, longer, i)
        <4>1. i >= k
          BY <3>5, <1>1
        <4>2. SizeAt(buf, longer, i) = SizeAt(buf, size, i)
          BY <4>1, <3>2
        <4>3. CASE i = k
          BY <4>2, <4>3, <3>1
        <4>4. CASE i # k
          <5>1. i + m >= N
            BY <4>1, <4>4, <1>1
          <5> QED  BY <5>1, <2>1, <4>2, <4>4
        <4> QED  BY <4>3, <4>4
      <3> HIDE DEF longer
      <3>6. m + 1 \in Nat
        OBVIOUS
      <3> QED  BY <3>4, <3>5, <3>6
    <2>4. m >= N \/ m < N
      BY <1>1
    <2> HIDE DEF S
    <2> QED  BY <2>2, <2>3, <2>4
  <1> HIDE DEF S
  <1>4. N \in S
    BY <1>1, <1>2, <1>3, AllNaturals
  <1>5. PICK size \in [Nat -> V] : \A i \in Nat : i + N >= N => size[i] = SizeAt(buf, size, i)
    BY <1>4 DEF S
  <1>6. Reads(buf, size)
    BY <1>1, <1>5 DEF Reads
  <1> QED  BY <1>6

LEMMA DimensionsRead ==
    ASSUME NEW buf \in Seq(Octets)
    PROVE  \E size : Reads(buf, size) /\ JpegDimensions(buf) = size[2]
  <1> DEFINE IsSize(size) == size = [i \in Nat |-> SizeAt(buf, size, i)]
             size == CHOOSE size : IsSize(size)
  <1>1. JpegDimensions(buf) = size[2]
    BY Zenon DEF JpegDimensions, SizeAt
  <1>2. \E g : IsSize(g)
    <2>1. PICK g \in [Nat -> {<<0, 0>>} \cup (Nat \X Nat)] : Reads(buf, g)
      BY SomeReads
    <2>2. \A i \in Nat : g[i] = [j \in Nat |-> SizeAt(buf, g, j)][i]
      BY <2>1 DEF Reads
    <2>3. IsSize(g)
      BY <2>2
    <2> QED  BY <2>3
  <1>3. IsSize(size)
    BY <1>2
  <1>4. Reads(buf, size)
    <2> HIDE DEF size
    <2> QED  BY <1>3 DEF Reads
  <1> QED  BY <1>1, <1>4

(* A stray byte, a marker without a segment and a segment of any other     *)
(* kind are stepped over.                                                  *)
StepsOver(buf, i, j) ==
    /\ i + 9 < Len(buf)
    /\ \/ buf[i + 1] # 255 /\ j = i + 1
       \/ buf[i + 1] = 255 /\ buf[i + 2] \in Bare /\ j = i + 2
       \/ /\ buf[i + 1] = 255 /\ buf[i + 2] \notin Bare \cup StartOfFrame
          /\ j = (i + 2) + (256 * buf[i + 3] + buf[i + 4])

LEMMA StepReads ==
    ASSUME NEW buf \in Seq(Octets), NEW size, Reads(buf, size),
           NEW i \in Nat, NEW j \in Nat, StepsOver(buf, i, j)
    PROVE  size[i] = size[j]
  <1>1. size[i] = SizeAt(buf, size, i)
    BY DEF Reads
  <1>2. ~(i + 9 >= Len(buf))
    BY DEF StepsOver
  <1>3. PastSegment(buf, i) = (i + 2) + (256 * buf[i + 3] + buf[i + 4])
    <2>1. (i + 2) + 1 = i + 3 /\ (i + 2) + 2 = i + 4
      OBVIOUS
    <2> QED  BY <2>1, Zenon DEF PastSegment, Big
  <1> QED  BY <1>1, <1>2, <1>3 DEF SizeAt, StepsOver

(* However many parts a buffer has between its first two bytes and its     *)
(* first SOF, the size that is read is the SOF's; and if the parts come to *)
(* the end without one, it is the size that the code takes for unknown     *)
(* (capture.py:57).                                                        *)
THEOREM SizeOfFirstSof ==
    ASSUME NEW buf \in Seq(Octets), NEW parts \in Nat, NEW at \in [0..parts -> Nat],
           at[0] = 2, \A k \in 0..parts - 1 : StepsOver(buf, at[k], at[k + 1])
    PROVE  LET i == at[parts]
           IN /\ i + 9 >= Len(buf) => JpegDimensions(buf) = <<0, 0>>
              /\ i + 9 < Len(buf) /\ buf[i + 1] = 255 /\ buf[i + 2] \in StartOfFrame
                   => JpegDimensions(buf) = <<Big(buf, i + 7), Big(buf, i + 5)>>
  <1>1. PICK size : Reads(buf, size) /\ JpegDimensions(buf) = size[2]
    BY DimensionsRead
  <1> DEFINE S == {k \in Nat : k <= parts => size[at[k]] = size[2]}
  <1>2. 0 \in S
    OBVIOUS
  <1>3. ASSUME NEW k \in Nat, k \in S PROVE k + 1 \in S
    <2> SUFFICES ASSUME k + 1 <= parts PROVE size[at[k + 1]] = size[2]
      OBVIOUS
    <2>1. k \in 0..parts - 1 /\ at[k] \in Nat /\ at[k + 1] \in Nat
      OBVIOUS
    <2>2. size[at[k]] = size[at[k + 1]]
      BY <1>1, <2>1, StepReads
    <2> QED  BY <1>3, <2>1, <2>2
  <1>4. parts \in S
    <2> HIDE DEF S
    <2> QED  BY <1>2, <1>3, AllNaturals
  <1>5. size[at[parts]] = size[2] /\ at[parts] \in Nat
    BY <1>4
  <1> DEFINE i == at[parts]
  <1> HIDE DEF i, S
  <1>6. JpegDimensions(buf) = SizeAt(buf, size, i)
    BY <1>1, <1>5 DEF Reads, i
  <1>7. i \in Nat /\ Len(buf) \in Nat
    BY <1>5 DEF i
  <1>8. \A v \in StartOfFrame : v \notin Bare
    BY DEF StartOfFrame, Bare
  <1>9. /\ i + 9 >= Len(buf) => JpegDimensions(buf) = <<0, 0>>
        /\ i + 9 < Len(buf) /\ buf[i + 1] = 255 /\ buf[i + 2] \in StartOfFrame
             => JpegDimensions(buf) = <<Big(buf, i + 7), Big(buf, i + 5)>>
    BY <1>6, <1>7, <1>8 DEF SizeAt
  <1> QED  BY <1>9 DEF i

(* The run's sample: its parts are stepped over.                           *)
BytesAt(buf, i, part) == \A j \in 1..Len(part) : buf[i + j] = part[j]

LEMMA SofIs ==
    ASSUME NEW marker \in {192, 194}
    PROVE  /\ Sof(marker, 1920, 1080) = <<255, marker, 0, 11, 8, 4, 56, 7, 128, 1, 1, 17, 0>>
           /\ Sof(192, 160, 120) = <<255, 192, 0, 11, 8, 0, 120, 0, 160, 1, 1, 17, 0>>
  BY DEF Sof

LEMMA JoinIs ==
    ASSUME NEW s \in Seq(Octets), NEW t \in Seq(Octets)
    PROVE  /\ s \o t \in Seq(Octets) /\ Len(s \o t) = Len(s) + Len(t)
           /\ BytesAt(s \o t, 0, s) /\ BytesAt(s \o t, Len(s), t)
  BY DEF BytesAt

LEMMA SofsIn ==
    ASSUME NEW marker \in {192, 194}
    PROVE  /\ Sof(marker, 1920, 1080) \in Seq(Octets) /\ Len(Sof(marker, 1920, 1080)) = 13
           /\ Sof(192, 160, 120) \in Seq(Octets) /\ Len(Sof(192, 160, 120)) = 13
  BY DEF Sof, Octets

LEMMA PartsIn ==
    /\ Len(Thumbnail) = 17 /\ Thumbnail[1] = 255 /\ Thumbnail[2] = 225
    /\ Thumbnail[3] = 0 /\ Thumbnail[4] = 15
    /\ \A p \in Parts : p \in Seq(Octets) /\ Len(p) \in Nat
  <1>1. PICK head : head = <<255, 225, 0, 15>>
    OBVIOUS
  <1>2. PICK sof : sof = Sof(192, 160, 120)
    OBVIOUS
  <1>3. head \in Seq(Octets) /\ Len(head) = 4
    BY <1>1 DEF Octets
  <1>4. sof \in Seq(Octets) /\ Len(sof) = 13
    BY <1>2, SofsIn
  <1>5. /\ head \o sof \in Seq(Octets) /\ Len(head \o sof) = Len(head) + Len(sof)
        /\ BytesAt(head \o sof, 0, head)
    BY <1>3, <1>4, JoinIs
  <1>6. Thumbnail = head \o sof
    BY <1>1, <1>2 DEF Thumbnail
  <1>7. /\ Len(Thumbnail) = 17 /\ Thumbnail[1] = 255 /\ Thumbnail[2] = 225
        /\ Thumbnail[3] = 0 /\ Thumbnail[4] = 15
    BY <1>1, <1>3, <1>4, <1>5, <1>6 DEF BytesAt
  <1>8. /\ <<>> \in Seq(Octets) /\ <<255, 196, 0, 4, 255, 192>> \in Seq(Octets)
        /\ <<255, 216>> \in Seq(Octets) /\ <<0, 7>> \in Seq(Octets)
    <2>1. \A n \in {0, 4, 7, 192, 196, 216, 255} : n \in Octets
      BY DEF Octets
    <2>2. <<>> \in Seq(Octets) /\ <<255, 216>> \in Seq(Octets) /\ <<0, 7>> \in Seq(Octets)
      BY <2>1
    <2>3. <<255, 196, 0, 4, 255, 192>> \in Seq(Octets)
      BY <2>1
    <2> QED  BY <2>2, <2>3
  <1>9. Thumbnail \in Seq(Octets)
    BY <1>5, <1>6
  <1>10. \A p \in Parts : p \in Seq(Octets)
    <2> DEFINE table == <<255, 196, 0, 4, 255, 192>>
               bare == <<255, 216>>
               stray == <<0, 7>>
    <2>1. table \in Seq(Octets) /\ bare \in Seq(Octets) /\ stray \in Seq(Octets)
      BY <1>8
    <2>2. Parts = {<<>>, Thumbnail, table, bare, stray}
      BY DEF Parts
    <2> HIDE DEF table, bare, stray
    <2> QED  BY <1>8, <1>9, <2>1, <2>2
  <1>11. \A s \in Seq(Octets) : Len(s) \in Nat
    OBVIOUS
  <1> QED  BY <1>7, <1>10, <1>11

LEMMA PartSkipped ==
    ASSUME NEW buf \in Seq(Octets), NEW size, Reads(buf, size), NEW i \in Nat,
           NEW part \in Parts, BytesAt(buf, i, part), (i + Len(part)) + 9 < Len(buf)
    PROVE  size[i + Len(part)] = size[i]
  <1>1. CASE part = <<>>
    BY <1>1
  <1>2. CASE part = Thumbnail
    <2>1. Len(part) = 17 /\ part[1] = 255 /\ part[2] = 225 /\ part[3] = 0 /\ part[4] = 15
      BY <1>2, PartsIn
    <2>2. buf[i + 1] = 255 /\ buf[i + 2] = 225 /\ buf[i + 3] = 0 /\ buf[i + 4] = 15
      BY <2>1 DEF BytesAt
    <2>3. StepsOver(buf, i, i + 17)
      BY <2>1, <2>2 DEF StepsOver, Bare, StartOfFrame
    <2> QED  BY <2>1, <2>3, StepReads
  <1>3. CASE part = <<255, 196, 0, 4, 255, 192>>
    <2>1. Len(part) = 6 /\ part[1] = 255 /\ part[2] = 196 /\ part[3] = 0 /\ part[4] = 4
      BY <1>3
    <2>2. buf[i + 1] = 255 /\ buf[i + 2] = 196 /\ buf[i + 3] = 0 /\ buf[i + 4] = 4
      BY <2>1 DEF BytesAt
    <2>3. StepsOver(buf, i, i + 6)
      BY <2>1, <2>2 DEF StepsOver, Bare, StartOfFrame
    <2> QED  BY <2>1, <2>3, StepReads
  <1>4. CASE part = <<255, 216>>
    <2>1. Len(part) = 2 /\ part[1] = 255 /\ part[2] = 216
      BY <1>4
    <2>2. buf[i + 1] = 255 /\ buf[i + 2] = 216
      BY <2>1 DEF BytesAt
    <2>3. StepsOver(buf, i, i + 2)
      BY <2>1, <2>2 DEF StepsOver, Bare
    <2> QED  BY <2>1, <2>3, StepReads
  <1>5. CASE part = <<0, 7>>
    <2>1. Len(part) = 2 /\ part[1] = 0 /\ part[2] = 7
      BY <1>5
    <2>2. buf[i + 1] = 0 /\ buf[i + 2] = 7
      BY <2>1 DEF BytesAt
    <2>3. StepsOver(buf, i, i + 1) /\ StepsOver(buf, i + 1, i + 2)
      <3>1. (i + 1) + 1 = i + 2 /\ i + 9 < Len(buf) /\ (i + 1) + 9 < Len(buf)
        BY <2>1
      <3> QED  BY <2>2, <3>1 DEF StepsOver
    <2>4. size[i] = size[i + 1] /\ size[i + 1] = size[i + 2]
      BY <2>3, StepReads
    <2> QED  BY <2>1, <2>4
  <1> QED  BY <1>1, <1>2, <1>3, <1>4, <1>5 DEF Parts

LEMMA SizeIs1080 ==
    ASSUME NEW p \in Parts, NEW q \in Parts, NEW marker \in {192, 194}
    PROVE  JpegDimensions(<<255, 216>> \o p \o q \o Sof(marker, 1920, 1080)) = <<1920, 1080>>
  <1>1. PICK a : a = <<255, 216>>
    OBVIOUS
  <1>2. PICK sof : sof = Sof(marker, 1920, 1080)
    OBVIOUS
  <1> DEFINE b == a \o p
             c == b \o q
             buf == c \o sof
             m == Len(p)
             n == Len(q)
  <1> HIDE DEF b, c, buf, m, n
  <1>3. /\ a \in Seq(Octets) /\ p \in Seq(Octets) /\ q \in Seq(Octets) /\ sof \in Seq(Octets)
        /\ Len(a) = 2 /\ Len(sof) = 13 /\ m \in Nat /\ n \in Nat
    <2>1. a \in Seq(Octets) /\ Len(a) = 2
      BY <1>1 DEF Octets
    <2> QED  BY <1>2, <2>1, PartsIn, SofsIn DEF m, n
  <1>4. b \in Seq(Octets) /\ Len(b) = 2 + m /\ BytesAt(b, 2, p)
    <2>1. /\ a \o p \in Seq(Octets) /\ Len(a \o p) = Len(a) + Len(p)
          /\ BytesAt(a \o p, Len(a), p)
      <3>1. a \in Seq(Octets) /\ p \in Seq(Octets)
        BY <1>3
      <3> QED  BY <3>1, JoinIs, Zenon
    <2> QED  BY <1>3, <2>1 DEF m, b
  <1>5. /\ c \in Seq(Octets) /\ Len(c) = (2 + m) + n /\ BytesAt(c, 2 + m, q)
        /\ \A j \in 1..2 + m : c[j] = b[j]
    <2>1. /\ b \o q \in Seq(Octets) /\ Len(b \o q) = Len(b) + Len(q)
          /\ BytesAt(b \o q, Len(b), q) /\ BytesAt(b \o q, 0, b)
      <3>1. b \in Seq(Octets) /\ q \in Seq(Octets)
        BY <1>3, <1>4
      <3> QED  BY <3>1, JoinIs, Zenon
    <2> QED  BY <1>3, <1>4, <2>1 DEF n, c, BytesAt
  <1>6. /\ buf \in Seq(Octets) /\ Len(buf) = ((2 + m) + n) + 13 /\ BytesAt(buf, (2 + m) + n, sof)
        /\ \A j \in 1..(2 + m) + n : buf[j] = c[j]
    <2>1. /\ c \o sof \in Seq(Octets) /\ Len(c \o sof) = Len(c) + Len(sof)
          /\ BytesAt(c \o sof, Len(c), sof) /\ BytesAt(c \o sof, 0, c)
      <3>1. c \in Seq(Octets) /\ sof \in Seq(Octets)
        BY <1>3, <1>5
      <3> QED  BY <3>1, JoinIs, Zenon
    <2>2. buf \in Seq(Octets) /\ Len(buf) = ((2 + m) + n) + 13
      BY <1>3, <1>5, <2>1 DEF buf
    <2>3. BytesAt(buf, (2 + m) + n, sof)
      BY <1>5, <2>1, Zenon DEF buf
    <2>4. \A j \in 1..(2 + m) + n : buf[j] = c[j]
      <3>1. \A j \in 1..Len(c) : buf[0 + j] = c[j]
        BY <2>1, Zenon DEF buf, BytesAt
      <3> QED  BY <1>5, <3>1
    <2> QED  BY <2>2, <2>3, <2>4
  <1>8. BytesAt(buf, 2, p)
    <2> SUFFICES ASSUME NEW j \in 1..m PROVE buf[2 + j] = p[j]
      BY DEF BytesAt, m
    <2>1. 2 + j \in 1..2 + m /\ 2 + j \in 1..(2 + m) + n
      BY <1>3
    <2>2. buf[2 + j] = b[2 + j]
      BY <1>5, <1>6, <2>1
    <2> QED  BY <1>4, <2>2 DEF BytesAt, m
  <1>9. BytesAt(buf, 2 + m, q)
    <2> SUFFICES ASSUME NEW j \in 1..n PROVE buf[(2 + m) + j] = q[j]
      BY DEF BytesAt, n
    <2>1. (2 + m) + j \in 1..(2 + m) + n
      BY <1>3
    <2>2. buf[(2 + m) + j] = c[(2 + m) + j]
      BY <1>6, <2>1
    <2> QED  BY <1>5, <2>2 DEF BytesAt, n
  <1>10. PICK size : Reads(buf, size) /\ JpegDimensions(buf) = size[2]
    BY <1>6, DimensionsRead
  <1>11. size[2 + m] = size[2]
    <2>1. (2 + m) + 9 < Len(buf) /\ 2 \in Nat
      BY <1>3, <1>6
    <2> QED  BY <1>6, <1>8, <1>10, <2>1, PartSkipped DEF m
  <1>12. size[(2 + m) + n] = size[2 + m]
    <2>1. ((2 + m) + n) + 9 < Len(buf) /\ 2 + m \in Nat
      BY <1>3, <1>6
    <2> QED  BY <1>6, <1>9, <1>10, <2>1, PartSkipped DEF n
  <1>13. PICK i \in Nat : i = (2 + m) + n
    BY <1>3
  <1>14. BytesAt(buf, i, sof) /\ i + 9 < Len(buf) /\ JpegDimensions(buf) = size[i]
    BY <1>6, <1>10, <1>11, <1>12, <1>13
  <1>15. /\ buf[i + 1] = 255 /\ buf[i + 2] = marker /\ buf[i + 6] = 4 /\ buf[i + 7] = 56
         /\ buf[i + 8] = 7 /\ buf[i + 9] = 128
    <2>1. \A j \in 1..13 : buf[i + j] = sof[j]
      BY <1>3, <1>14 DEF BytesAt
    <2>2. sof = <<255, marker, 0, 11, 8, 4, 56, 7, 128, 1, 1, 17, 0>>
      BY <1>2, SofIs
    <2> QED  BY <2>1, <2>2
  <1>16. size[i] = <<Big(buf, i + 7), Big(buf, i + 5)>>
    <2>1. size[i] = SizeAt(buf, size, i)
      BY <1>10 DEF Reads
    <2>2. marker \in StartOfFrame /\ marker \notin Bare
      BY DEF StartOfFrame, Bare
    <2>3. ~(i + 9 >= Len(buf))
      BY <1>6, <1>14, <1>3
    <2> QED  BY <1>15, <2>1, <2>2, <2>3 DEF SizeAt
  <1>17. Big(buf, i + 7) = 1920 /\ Big(buf, i + 5) = 1080
    <2>1. /\ (i + 7) + 1 = i + 8 /\ (i + 7) + 2 = i + 9
          /\ (i + 5) + 1 = i + 6 /\ (i + 5) + 2 = i + 7
      OBVIOUS
    <2> QED  BY <1>15, <2>1 DEF Big
  <1> QED  BY <1>1, <1>2, <1>14, <1>16, <1>17 DEF buf, c, b

LEMMA NothingMissized == Missized = {}
  <1> DEFINE Sof1080(marker) == Sof(marker, 1920, 1080)
             Missized1080(p, q, marker) ==
                JpegDimensions(<<255, 216>> \o p \o q \o Sof1080(marker)) # <<1920, 1080>>
  <1>1. \A p, q \in Parts, marker \in {192, 194} : ~Missized1080(p, q, marker)
    BY SizeIs1080
  <1>2. Missized = {s \in [p : Parts, q : Parts, marker : {192, 194}] : Missized1080(s.p, s.q, s.marker)}
    BY DEF Missized
  <1> HIDE DEF Missized1080
  <1> QED  BY <1>1, <1>2

-----------------------------------------------------------------------------
(* The integer that round gives is the only one nearer than half a unit,   *)
(* and it grows with the quotient.                                         *)
LEMMA RoundIs ==
    ASSUME NEW n \in Int, NEW d \in Nat \ {0}, NEW p \in Int,
           -d < 2 * (d * p) - 2 * n, 2 * (d * p) - 2 * n < d
    PROVE  Round(n, d) = p
  <1> DEFINE x == Round(n, d)
  <1>1. x \in Int /\ -d <= 2 * (d * x) - 2 * n /\ 2 * (d * x) - 2 * n <= d
    BY RoundNear
  <1> HIDE DEF x
  <1>2. d * x \in Int /\ d * p \in Int /\ d * (x - p) = d * x - d * p
    BY <1>1
  <1>3. -d < d * (x - p) /\ d * (x - p) < d
    BY <1>1, <1>2
  <1>4. \A y \in Int : y >= 1 => d * y >= d
    OBVIOUS
  <1>5. \A y \in Int : y <= -1 => d * y <= -d
    OBVIOUS
  <1>6. x - p \in Int /\ ~(x - p >= 1) /\ ~(x - p <= -1)
    BY <1>1, <1>3, <1>4, <1>5
  <1>7. x = p
    BY <1>1, <1>6
  <1> QED  BY <1>7 DEF x

LEMMA RoundOrder ==
    ASSUME NEW m \in Int, NEW n \in Int, m <= n
    PROVE  Round(m, 100) <= Round(n, 100)
  <1> DEFINE q == m \div 100
             r == m % 100
             s == n \div 100
             t == n % 100
  <1>1. /\ q \in Int /\ r \in 0..99 /\ m = 100 * q + r
        /\ s \in Int /\ t \in 0..99 /\ n = 100 * s + t
    OBVIOUS
  <1>2. /\ Round(m, 100) = IF 2 * r < 100 \/ (2 * r = 100 /\ q % 2 = 0) THEN q ELSE q + 1
        /\ Round(n, 100) = IF 2 * t < 100 \/ (2 * t = 100 /\ s % 2 = 0) THEN s ELSE s + 1
    BY DEF Round
  <1> HIDE DEF q, r, s, t
  <1>3. q <= s /\ (q = s => r <= t)
    BY <1>1
  <1> QED  BY <1>1, <1>2, <1>3

LEMMA PercentNear ==
    ASSUME NEW lo \in Int, NEW hi \in Int, lo <= hi, NEW p \in 0..100
    PROVE  LET x == PercentToRange(p, lo, hi)
               err == 100 * (x - lo) - (hi - lo) * p
           IN x \in lo..hi /\ -50 <= err /\ err <= 50
  <1> DEFINE m == (hi - lo) * p
             x == PercentToRange(p, lo, hi)
  <1>1. m \in Int /\ 0 <= m /\ m <= 100 * (hi - lo)
    <2> DEFINE w == hi - lo
    <2>1. w \in Nat
      OBVIOUS
    <2> HIDE DEF w
    <2>2. w * p \in Int /\ 0 <= w * p /\ w * p <= w * 100
      BY <2>1
    <2> QED  BY <2>2 DEF w
  <1> HIDE DEF m
  <1>2. x = Round(100 * lo + m, 100)
    BY DEF PercentToRange, m
  <1>3. /\ x \in Int
        /\ -100 <= 2 * (100 * x) - 2 * (100 * lo + m)
        /\ 2 * (100 * x) - 2 * (100 * lo + m) <= 100
    <2>1. 100 \in Nat \ {0}
      OBVIOUS
    <2>2. PICK n \in Int : n = 100 * lo + m
      BY <1>1
    <2>3. x = Round(n, 100)
      BY <1>2, <2>2, Zenon
    <2> HIDE DEF x
    <2>4. x \in Int /\ -100 <= 2 * (100 * x) - 2 * n /\ 2 * (100 * x) - 2 * n <= 100
      BY <2>1, <2>3, RoundNear
    <2> QED  BY <2>2, <2>4
  <1>4. x \in lo..hi /\ -50 <= 100 * (x - lo) - m /\ 100 * (x - lo) - m <= 50
    BY <1>1, <1>3
  <1> QED  BY <1>4 DEF m

(* Percent 0 is the lowest value of the range and 100 the highest          *)
(* (protocol.py:227).                                                      *)
THEOREM LevelsKeepEnds ==
    ASSUME NEW lo \in Int, NEW hi \in Int
    PROVE  PercentToRange(0, lo, hi) = lo /\ PercentToRange(100, lo, hi) = hi
  <1>1. \A x \in Int : Round(100 * x, 100) = x
    <2> SUFFICES ASSUME NEW x \in Int PROVE Round(100 * x, 100) = x
      OBVIOUS
    <2>1. (100 * x) \div 100 = x /\ (100 * x) % 100 = 0
      OBVIOUS
    <2> QED  BY <2>1 DEF Round
  <1>2. 100 * lo + (hi - lo) * 0 = 100 * lo /\ 100 * lo + (hi - lo) * 100 = 100 * hi
    OBVIOUS
  <1> QED  BY <1>1, <1>2 DEF PercentToRange

(* A higher percentage is never a lower value.                             *)
THEOREM LevelsKeepOrder ==
    ASSUME NEW lo \in Int, NEW hi \in Int, lo <= hi,
           NEW p \in 0..100, NEW q \in 0..100, p <= q
    PROVE  PercentToRange(p, lo, hi) <= PercentToRange(q, lo, hi)
  <1> DEFINE w == hi - lo
  <1>1. w \in Nat
    OBVIOUS
  <1> HIDE DEF w
  <1>2. w * p \in Int /\ w * q \in Int /\ w * p <= w * q
    BY <1>1
  <1>3. 100 * lo + w * p \in Int /\ 100 * lo + w * q \in Int /\ 100 * lo + w * p <= 100 * lo + w * q
    BY <1>2
  <1>4. Round(100 * lo + w * p, 100) <= Round(100 * lo + w * q, 100)
    BY <1>3, RoundOrder
  <1> QED  BY <1>4 DEF PercentToRange, w

(* Where the range has room for a hundred steps, the value that a          *)
(* percentage is scaled to is read back as that percentage                 *)
(* (protocol.py:231).                                                      *)
THEOREM LevelsReturn ==
    ASSUME NEW lo \in Int, NEW hi \in Int, hi - lo >= 100, NEW p \in 0..100
    PROVE  RangeToPercent(PercentToRange(p, lo, hi), lo, hi) = p
  <1> DEFINE w == hi - lo
             x == PercentToRange(p, lo, hi)
             m == w * p
  <1>1. w \in Int /\ w >= 100 /\ lo <= hi /\ hi # lo /\ w \in Nat \ {0}
    OBVIOUS
  <1>2. x \in Int /\ -50 <= 100 * (x - lo) - m /\ 100 * (x - lo) - m <= 50
    <2>1. /\ x \in lo..hi /\ -50 <= 100 * (x - lo) - (hi - lo) * p
          /\ 100 * (x - lo) - (hi - lo) * p <= 50
      BY <1>1, PercentNear, Zenon
    <2>2. x \in Int
      <3> HIDE DEF x
      <3> QED  BY <2>1
    <2> QED  BY <2>1, <2>2, Zenon
  <1>3. RangeToPercent(x, lo, hi) = Round((x - lo) * 100, w)
    BY <1>1 DEF RangeToPercent
  <1>4. m \in Int /\ (w = 100 => m = 100 * p)
    OBVIOUS
  <1> HIDE DEF w, x
  <1>5. -w < 2 * m - 2 * ((x - lo) * 100) /\ 2 * m - 2 * ((x - lo) * 100) < w
    <2> HIDE DEF m
    <2>1. CASE w = 100
      BY <1>2, <1>4, <2>1
    <2>2. CASE w # 100
      BY <1>1, <1>2, <1>4, <2>2
    <2> QED  BY <2>1, <2>2
  <1>6. (x - lo) * 100 \in Int
    BY <1>2
  <1>7. Round((x - lo) * 100, w) = p
    BY <1>1, <1>5, <1>6, RoundIs
  <1> QED  BY <1>3, <1>7 DEF x

(* The three together, for every range of a control that VIDIOC_QUERYCTRL  *)
(* may tell.                                                               *)
THEOREM RangesScale ==
    ASSUME NEW lo \in Int, NEW hi \in Int, lo <= hi
    PROVE  Scales(lo, hi)
  <1>1. PercentToRange(0, lo, hi) = lo /\ PercentToRange(100, lo, hi) = hi
    BY LevelsKeepEnds
  <1>2. ASSUME NEW p \in 1..100
        PROVE  PercentToRange(p - 1, lo, hi) <= PercentToRange(p, lo, hi)
    <2>1. p - 1 \in 0..100 /\ p \in 0..100 /\ p - 1 <= p
      OBVIOUS
    <2> QED  BY <2>1, LevelsKeepOrder
  <1>3. hi - lo >= 100 =>
          \A p \in 0..100 : RangeToPercent(PercentToRange(p, lo, hi), lo, hi) = p
    BY LevelsReturn
  <1> QED  BY <1>1, <1>2, <1>3, Zenon DEF Scales

(* The run's sample of ranges, and the names, of which there are finitely  *)
(* many: each is read back as it was set, and no byte makes a mode of a    *)
(* switch that is under way.                                               *)
LEMMA NoBadRanges == BadRanges = {}
  <1>1. ASSUME NEW lo \in {-64, 0, 1}, NEW span \in {0, 1, 7, 99, 100, 101, 128, 200, 255, 2499}
        PROVE  Scales(lo, lo + span)
    <2>1. lo \in Int /\ lo + span \in Int /\ lo <= lo + span
      OBVIOUS
    <2> QED  BY <2>1, RangesScale
  <1> QED  BY <1>1 DEF BadRanges

LEMMA NamesReturn == Misnamed = {}
  <1>1. \A mode \in AiModes : ReadBack(mode) = mode
    <2>1. ASSUME NEW mode \in {"normal", "upper_body", "close_up", "headless", "lower_body"}
          PROVE  ReadBack(mode) = mode
      <3>1. mode \notin DOMAIN SceneModes /\ mode # "none"
        BY DEF SceneModes
      <3>2. EncodeAiMode(mode) = <<2, FramingModes[mode]>>
        BY <3>1 DEF EncodeAiMode
      <3>3. FramingModes[mode] \in 0..4 /\ <<"normal", "upper_body", "close_up", "headless", "lower_body">>[FramingModes[mode] + 1] = mode
        BY DEF FramingModes
      <3>4. ReadBack(mode) = DecodeAiMode(2, FramingModes[mode])
        BY <3>2 DEF ReadBack
      <3> QED BY <3>3, <3>4 DEF DecodeAiMode
    <2>2. ASSUME NEW mode \in {"group", "whiteboard", "desk", "hand"}
          PROVE  ReadBack(mode) = mode
      <3>1. mode \in DOMAIN SceneModes /\ mode # "none"
        BY DEF SceneModes
      <3>2. EncodeAiMode(mode) = <<SceneModes[mode], 0>>
        BY <3>1 DEF EncodeAiMode
      <3>4. ReadBack(mode) = DecodeAiMode(SceneModes[mode], 0)
        BY <3>2 DEF ReadBack
      <3>5. SceneModes[mode] = CASE mode = "group" -> 1 [] mode = "whiteboard" -> 4 [] mode = "desk" -> 5 [] mode = "hand" -> 3
        BY DEF SceneModes
      <3> QED BY <3>4, <3>5 DEF DecodeAiMode
    <2> QED BY <2>1, <2>2 DEF AiModes, FramingModes, SceneModes
  <1>2. ReadBack("none") = "no_tracking"
    <2>1. EncodeAiMode("none") = <<0, 0>>
      <3>1. "none" \notin DOMAIN SceneModes
        BY DEF SceneModes
      <3>2. ASSUME NEW mode, mode = "none" PROVE EncodeAiMode(mode) = <<0, 0>>
        BY <3>1, <3>2 DEF EncodeAiMode
      <3> QED  BY <3>2
    <2>2. ReadBack("none") = DecodeAiMode(0, 0)
      BY <2>1 DEF ReadBack
    <2>3. DecodeAiMode(0, 0) = "no_tracking"
      BY DEF DecodeAiMode
    <2> QED BY <2>2, <2>3
  <1>3. \A fov \in DOMAIN FovValue : DecodeFov(FovValue[fov]) = fov
    BY DEF FovValue, DecodeFov
  <1>4. \A speed \in {"standard", "sport"} : DecodeSpeed(EncodeSpeed(speed)) = speed
    BY DEF DecodeSpeed, EncodeSpeed
  <1> QED  BY <1>1, <1>2, <1>3, <1>4 DEF Misnamed

LEMMA NoTransients == Transients = {}
  BY DEF Transients, DecodeAiMode

-----------------------------------------------------------------------------
(* The words of a frame: two bytes, the low one first.  A checksum is one. *)
Words == {n \in Nat : n <= 65535}
LEMMA BitIs == \A A, k : Bit(A, k) \in 0..1
  BY DEF Bit

LEMMA DigitIs == \A A, k : Digit(A, k) \in 0..15
  BY BitIs DEF Digit

LEMMA BytePair == ASSUME NEW a \in 0..255, NEW b \in 0..255 PROVE a + 256 * b \in Words
  <1>1. a + 256 * b \in Nat /\ a + 256 * b <= 65535
    OBVIOUS
  <1> QED  BY <1>1 DEF Words

LEMMA ValueIs == ASSUME NEW A PROVE ValueOf(A) \in Words
  <1>1. \A k : Digit(A, k) \in 0..15
    BY DigitIs
  <1>2. \A a, b \in 0..15 : a + 16 * b \in 0..255
    OBVIOUS
  <1>3. Byte(A, 0) \in 0..255 /\ Byte(A, 8) \in 0..255
    <2>1. \A k : Byte(A, k) \in 0..255
      BY <1>1, <1>2, Zenon DEF Byte
    <2> QED  BY <2>1, Zenon
  <1>4. PICK a \in 0..255, b \in 0..255 : a = Byte(A, 0) /\ b = Byte(A, 8)
    BY <1>3
  <1>5. ValueOf(A) = a + 256 * b
    BY <1>4, Zenon DEF ValueOf
  <1>6. a + 256 * b \in Nat /\ a + 256 * b <= 65535
    OBVIOUS
  <1> QED  BY <1>5, <1>6 DEF Words

LEMMA Crc16Is == ASSUME NEW data PROVE Crc16(data) \in Words
  BY ValueIs DEF Crc16

LEMMA WordIs ==
    ASSUME NEW n \in Nat
    PROVE  /\ Word(n) \in Seq(Int) /\ Len(Word(n)) = 2
           /\ Word(n)[1] = n % 256 /\ Word(n)[2] = (n \div 256) % 256
  BY DEF Word

LEMMA SmallByte == ASSUME NEW x \in Nat, x <= 255 PROVE x % 256 = x
  OBVIOUS

LEMMA WordBack ==
    ASSUME NEW n \in Words PROVE Word(n)[1] + 256 * Word(n)[2] = n
  <1> DEFINE q == n \div 256
             a == n % 256
             b == q % 256
  <1>1. q \in Nat /\ a \in 0..255 /\ n = 256 * q + a
    BY DEF Words
  <1>2. q <= 255
    BY <1>1 DEF Words
  <1>3. b = q
    BY <1>1, <1>2, SmallByte
  <1>4. Word(n)[1] = a /\ Word(n)[2] = b
    BY DEF Word
  <1> HIDE DEF q, a, b
  <1> QED  BY <1>1, <1>3, <1>4

(* Sequences put together and taken apart, element by element.             *)
LEMMA ConcatIs ==
    ASSUME NEW s \in Seq(Int), NEW t \in Seq(Int)
    PROVE  /\ s \o t \in Seq(Int) /\ Len(s \o t) = Len(s) + Len(t)
           /\ \A i \in 1..Len(s) : (s \o t)[i] = s[i]
           /\ \A i \in 1..Len(t) : (s \o t)[Len(s) + i] = t[i]
  OBVIOUS

LEMMA SameSeq ==
    ASSUME NEW s \in Seq(Int), NEW t \in Seq(Int), Len(s) = Len(t),
           \A i \in 1..Len(s) : s[i] = t[i]
    PROVE  s = t
  OBVIOUS

LEMMA ZerosIs ==
    ASSUME NEW n \in Nat
    PROVE Zeros(n) \in Seq(Int) /\ Len(Zeros(n)) = n /\ \A i \in 1..n : Zeros(n)[i] = 0
  <1>1. Zeros(n) \in [1..n -> Int]
    BY DEF Zeros
  <1> QED BY <1>1 DEF Zeros

LEMMA Pair ==
    ASSUME NEW t, NEW u, NEW n \in Nat, \A i \in 1..2 : u[n + i] = t[i]
    PROVE  u[n + 1] = t[1] /\ u[n + 2] = t[2]
  OBVIOUS

Sized(s, n) == s \in Seq(Int) /\ Len(s) = n
Longer(u, s, t, n) ==
    (\A i \in 1..n : u[i] = s[i]) /\ u[n + 1] = t[1] /\ u[n + 2] = t[2]

LEMMA PairOn ==
    ASSUME NEW s, NEW t, NEW n \in Nat, Sized(s, n), Sized(t, 2)
    PROVE  Sized(s \o t, n + 2) /\ Longer(s \o t, s, t, n)
  <1> DEFINE u == s \o t
  <1> USE DEF Sized
  <1>1. /\ u \in Seq(Int) /\ Len(u) = Len(s) + Len(t)
        /\ \A i \in 1..Len(s) : u[i] = s[i]
        /\ \A i \in 1..Len(t) : u[Len(s) + i] = t[i]
    BY ConcatIs, Zenon
  <1> HIDE DEF u
  <1>2. u \in Seq(Int) /\ Len(u) = n + 2 /\ \A i \in 1..n : u[i] = s[i]
    BY <1>1
  <1>3. \A i \in 1..2 : u[n + i] = t[i]
    BY <1>1, Zenon
  <1>4. u[n + 1] = t[1] /\ u[n + 2] = t[2]
    BY <1>3, Pair, Zenon
  <1> QED  BY <1>2, <1>4 DEF u, Longer

LEMMA SameSized ==
    ASSUME NEW n \in Nat, NEW s, NEW t, Sized(s, n), Sized(t, n), \A i \in 1..n : s[i] = t[i]
    PROVE  s = t
  <1>1. s \in Seq(Int) /\ t \in Seq(Int) /\ Len(s) = Len(t)
    BY DEF Sized
  <1>2. \A i \in 1..Len(s) : s[i] = t[i]
    BY DEF Sized
  <1> QED  BY <1>1, <1>2, SameSeq

Slice(u, s, m, n) == \A i \in 1..n - m + 1 : u[i] = s[m + i - 1]
LEMMA SliceIs ==
    ASSUME NEW s \in Seq(Int), NEW m \in Nat, NEW n \in Nat,
           1 <= m, m - 1 <= n, n <= Len(s)
    PROVE  Sized(SubSeq(s, m, n), n - m + 1) /\ Slice(SubSeq(s, m, n), s, m, n)
  <1>1. SubSeq(s, m, n) \in Seq(Int) /\ Len(SubSeq(s, m, n)) = n - m + 1
    OBVIOUS
  <1>2. \A i \in 1..n - m + 1 : SubSeq(s, m, n)[i] = s[m + i - 1]
    OBVIOUS
  <1> QED  BY <1>1, <1>2 DEF Sized, Slice

(* The bytes of the header and of the segment with the payload.            *)
HeadIs(h, flags, seq, receiver, cmd, token) ==
    /\ h[1] = 170 /\ h[2] = flags
    /\ h[3] = Word(seq)[1] /\ h[4] = Word(seq)[2]
    /\ h[5] = 12 /\ h[6] = 0
    /\ h[7] = token[1] /\ h[8] = token[2]
    /\ h[9] = 10 /\ h[10] = receiver
    /\ h[11] = Word(cmd)[1] /\ h[12] = Word(cmd)[2]

LEMMA HeadedIs ==
    ASSUME NEW flags \in Int, NEW seq \in Nat, NEW receiver \in Int, NEW cmd \in Nat,
           NEW token, Sized(token, 2)
    PROVE  /\ Sized(Headed(flags, seq, receiver, cmd, token), 12)
           /\ HeadIs(Headed(flags, seq, receiver, cmd, token), flags, seq, receiver, cmd, token)
  <1> DEFINE p == <<170, flags>>
             q == <<10, receiver>>
             a == p \o Word(seq)
             b == a \o Word(12)
             c == b \o token
             d == c \o q
             e == d \o Word(cmd)
  <1>1. /\ Sized(p, 2) /\ p[1] = 170 /\ p[2] = flags
        /\ Sized(q, 2) /\ q[1] = 10 /\ q[2] = receiver
    BY DEF Sized
  <1>2. \A n \in Nat : Sized(Word(n), 2)
    BY WordIs DEF Sized
  <1>3. 2 \in Nat /\ 4 \in Nat /\ 6 \in Nat /\ 8 \in Nat /\ 10 \in Nat /\ 12 \in Nat
    OBVIOUS
  <1>4. Word(12)[1] = 12 /\ Word(12)[2] = 0
    BY DEF Word
  <1>5. Headed(flags, seq, receiver, cmd, token) = e
    BY DEF Headed
  <1> HIDE DEF p, q, a, b, c, d, e
  <1>6. Sized(a, 4) /\ Longer(a, p, Word(seq), 2)
    BY <1>1, <1>2, PairOn DEF a
  <1>7. Sized(b, 6) /\ Longer(b, a, Word(12), 4)
    BY <1>2, <1>6, PairOn DEF b
  <1>8. Sized(c, 8) /\ Longer(c, b, token, 6)
    BY <1>7, PairOn DEF c
  <1>9. Sized(d, 10) /\ Longer(d, c, q, 8)
    BY <1>1, <1>8, PairOn DEF d
  <1>10. Sized(e, 12) /\ Longer(e, d, Word(cmd), 10)
    BY <1>2, <1>9, PairOn DEF e
  <1>11. a[1] = 170 /\ a[2] = flags /\ a[3] = Word(seq)[1] /\ a[4] = Word(seq)[2]
    BY <1>1, <1>6 DEF Longer
  <1>12. (\A i \in 1..4 : b[i] = a[i]) /\ b[5] = 12 /\ b[6] = 0
    BY <1>4, <1>7 DEF Longer
  <1>13. (\A i \in 1..6 : c[i] = b[i]) /\ c[7] = token[1] /\ c[8] = token[2]
    BY <1>8 DEF Longer
  <1>14. (\A i \in 1..8 : d[i] = c[i]) /\ d[9] = 10 /\ d[10] = receiver
    BY <1>1, <1>9 DEF Longer
  <1>15. (\A i \in 1..10 : e[i] = d[i]) /\ e[11] = Word(cmd)[1] /\ e[12] = Word(cmd)[2]
    BY <1>10 DEF Longer
  <1>16. e[1] = 170 /\ e[2] = flags /\ e[3] = Word(seq)[1] /\ e[4] = Word(seq)[2]
    BY <1>11, <1>12, <1>13, <1>14, <1>15
  <1>17. e[5] = 12 /\ e[6] = 0 /\ e[7] = token[1] /\ e[8] = token[2]
    BY <1>12, <1>13, <1>14, <1>15
  <1>18. e[9] = 10 /\ e[10] = receiver
    BY <1>14, <1>15
  <1> QED  BY <1>5, <1>10, <1>15, <1>16, <1>17, <1>18 DEF HeadIs

SegmentOf(s, payload, token) ==
    /\ s[1] = Word(Len(payload))[1] /\ s[2] = Word(Len(payload))[2]
    /\ s[3] = token[1] /\ s[4] = token[2]
    /\ \A i \in 1..Len(payload) : s[4 + i] = payload[i]

LEMMA SegmentIs ==
    ASSUME NEW payload \in Seq(Int), NEW token, Sized(token, 2)
    PROVE  /\ Sized(Segment(payload, token), 4 + Len(payload))
           /\ SegmentOf(Segment(payload, token), payload, token)
  <1> DEFINE n == Len(payload)
             w == Word(n)
             a == w \o token
             s == a \o payload
  <1>1. n \in Nat
    OBVIOUS
  <1>2. Sized(w, 2)
    BY <1>1, WordIs DEF Sized
  <1>3. Segment(payload, token) = s
    BY DEF Segment
  <1> HIDE DEF a, s, w
  <1>4. Sized(a, 4) /\ Longer(a, w, token, 2)
    BY <1>2, PairOn DEF a
  <1>5. a[1] = w[1] /\ a[2] = w[2] /\ a[3] = token[1] /\ a[4] = token[2]
    BY <1>4 DEF Longer
  <1>6. a \in Seq(Int) /\ Len(a) = 4
    BY <1>4 DEF Sized
  <1>7. /\ s \in Seq(Int) /\ Len(s) = Len(a) + Len(payload)
        /\ \A i \in 1..Len(a) : s[i] = a[i]
        /\ \A i \in 1..Len(payload) : s[Len(a) + i] = payload[i]
    BY <1>6, ConcatIs, Zenon DEF s
  <1>8. Sized(s, 4 + n)
    BY <1>6, <1>7, Zenon DEF n, Sized
  <1>9. \A i \in 1..n : s[4 + i] = payload[i]
    BY <1>6, <1>7, Zenon DEF n
  <1>10. \A i \in 1..4 : s[i] = a[i]
    BY <1>6, <1>7, Zenon
  <1> QED  BY <1>3, <1>5, <1>8, <1>9, <1>10 DEF w, SegmentOf

(* The frame is the header, the segment and zeros.                         *)
LEMMA TwelveCases ==
    ASSUME NEW i \in 1..12
    PROVE  i = 1 \/ i = 2 \/ i = 3 \/ i = 4 \/ i = 5 \/ i = 6
           \/ i = 7 \/ i = 8 \/ i = 9 \/ i = 10 \/ i = 11 \/ i = 12
  OBVIOUS

(* The frame is the header, the segment and zeros.                         *)
Filled(f, h, s, m) ==
    /\ Sized(f, 60)
    /\ \A i \in 1..12 : f[i] = h[i]
    /\ \A i \in 1..m : f[12 + i] = s[i]
    /\ \A i \in 13 + m..60 : f[i] = 0

LEMMA FilledIs ==
    ASSUME NEW h, Sized(h, 12), NEW s, NEW m \in 0..48, Sized(s, m)
    PROVE  Filled((h \o s) \o Zeros(FrameLen - Len(h \o s)), h, s, m)
  <1> DEFINE top == h \o s
             k == 48 - m
             z == Zeros(k)
             f == top \o z
  <1>1. /\ top \in Seq(Int) /\ Len(top) = Len(h) + Len(s)
        /\ \A i \in 1..Len(h) : top[i] = h[i]
        /\ \A i \in 1..Len(s) : top[Len(h) + i] = s[i]
    BY ConcatIs, Zenon DEF Sized
  <1>2. Len(h) = 12 /\ Len(s) = m
    BY DEF Sized
  <1> HIDE DEF top
  <1>3. /\ top \in Seq(Int) /\ Len(top) = 12 + m
        /\ \A i \in 1..12 : top[i] = h[i]
        /\ \A i \in 1..m : top[12 + i] = s[i]
    BY <1>1, <1>2, Zenon
  <1>4. k \in Nat /\ 60 - (12 + m) = k /\ 12 + m + k = 60
    OBVIOUS
  <1> HIDE DEF k
  <1>5. z \in Seq(Int) /\ Len(z) = k /\ \A i \in 1..k : z[i] = 0
    BY <1>4, ZerosIs
  <1>6. FrameLen - Len(top) = k
    BY <1>3, <1>4, Zenon DEF FrameLen
  <1> HIDE DEF z
  <1>7. /\ f \in Seq(Int) /\ Len(f) = Len(top) + Len(z)
        /\ \A i \in 1..Len(top) : f[i] = top[i]
        /\ \A i \in 1..Len(z) : f[Len(top) + i] = z[i]
    BY <1>3, <1>5, ConcatIs, Zenon
  <1> HIDE DEF f
  <1>8. Len(f) = 60
    BY <1>3, <1>4, <1>5, <1>7, Zenon
  <1>9. Sized(f, 60)
    BY <1>7, <1>8 DEF Sized
  <1>10. ASSUME NEW i \in 1..12 PROVE f[i] = h[i]
    <2>1. i \in 1..12 + m
      OBVIOUS
    <2> QED  BY <1>3, <1>7, <2>1
  <1>11. ASSUME NEW i \in 1..m PROVE f[12 + i] = s[i]
    <2>1. 12 + i \in 1..12 + m
      OBVIOUS
    <2> QED  BY <1>3, <1>7, <2>1
  <1>12. ASSUME NEW i \in 13 + m..60 PROVE f[i] = 0
    <2>1. PICK j \in 1..k : i = 12 + m + j
      <3>1. i - (12 + m) \in 1..k /\ i = 12 + m + (i - (12 + m))
        BY <1>4
      <3> QED  BY <3>1
    <2> QED  BY <1>3, <1>5, <1>7, <2>1
  <1>13. (h \o s) \o Zeros(FrameLen - Len(h \o s)) = f
    BY <1>6 DEF f, z, top
  <1> QED  BY <1>9, <1>10, <1>11, <1>12, <1>13 DEF Filled

(* parse_frame computes its checksums over the bytes that build_frame did: *)
(* those of the frame with the checksum's own place cleared.               *)
Cleared(u, f, from, to, at) ==
    \A i \in 1..to - from :
       u[i] = IF from + i - 1 \in {at, at + 1} THEN 0 ELSE f[from + i]

LEMMA UntokenedIs ==
    ASSUME NEW f \in Seq(Int), NEW from \in Nat, NEW to \in from..Len(f), NEW at \in Nat
    PROVE  /\ Sized(Untokened(f, from, to, at), to - from)
           /\ Cleared(Untokened(f, from, to, at), f, from, to, at)
  <1> DEFINE u == Untokened(f, from, to, at)
  <1>1. u = [i \in 1..to - from |->
               IF from + i - 1 \in {at, at + 1} THEN 0 ELSE f[from + i]]
    BY DEF Untokened
  <1> HIDE DEF u
  <1>2. \A i \in 1..to - from : f[from + i] \in Int
    <2>1. \A i \in 1..to - from : from + i \in 1..Len(f)
      OBVIOUS
    <2> QED  BY <2>1
  <1>3. u \in [1..to - from -> Int]
    BY <1>1, <1>2
  <1>4. Sized(u, to - from)
    <2>1. PICK n \in Nat : n = to - from
      OBVIOUS
    <2>2. u \in [1..n -> Int]
      BY <1>3, <2>1, Zenon
    <2>3. Sized(u, n)
      BY <2>2 DEF Sized
    <2> QED  BY <2>1, <2>3, Zenon
  <1>5. Cleared(u, f, from, to, at)
    BY <1>1 DEF Cleared
  <1> QED  BY <1>4, <1>5 DEF u

LEMMA HeaderIntact ==
    ASSUME NEW f \in Seq(Int), Len(f) = 60, NEW flags \in Int, NEW seq \in Nat,
           NEW receiver \in Int, NEW cmd \in Nat, NEW token,
           HeadIs(f, flags, seq, receiver, cmd, token)
    PROVE  Untokened(f, 0, 12, 6) = Headed(flags, seq, receiver, cmd, <<0, 0>>)
  <1> DEFINE u == Untokened(f, 0, 12, 6)
             zero == <<0, 0>>
             g == Headed(flags, seq, receiver, cmd, zero)
  <1>1. Sized(u, 12) /\ \A i \in 1..12 : u[i] = IF i - 1 \in {6, 7} THEN 0 ELSE f[i]
    <2>1. PICK from \in Nat : from = 0
      OBVIOUS
    <2>2. PICK to \in from..Len(f) : to = 12
      BY <2>1
    <2>3. PICK at \in Nat : at = 6
      OBVIOUS
    <2>4. u = Untokened(f, from, to, at)
      BY <2>1, <2>2, <2>3
    <2> HIDE DEF u
    <2>5. Sized(u, to - from) /\ Cleared(u, f, from, to, at)
      BY <2>4, UntokenedIs, Zenon
    <2>6. to - from = 12
      BY <2>1, <2>2
    <2>7. \A i \in 1..12 : u[i] = IF from + i - 1 \in {at, at + 1} THEN 0 ELSE f[from + i]
      BY <2>5, <2>6 DEF Cleared
    <2> QED  BY <2>1, <2>3, <2>5, <2>6, <2>7
  <1>2. Sized(zero, 2) /\ zero[1] = 0 /\ zero[2] = 0
    BY DEF Sized
  <1> HIDE DEF zero
  <1>3. Sized(g, 12) /\ HeadIs(g, flags, seq, receiver, cmd, zero)
    BY <1>2, HeadedIs
  <1> HIDE DEF u, g
  <1>6. g[7] = 0 /\ g[8] = 0
    BY <1>2, <1>3 DEF HeadIs
  <1>7. /\ f[1] = g[1] /\ f[2] = g[2] /\ f[3] = g[3] /\ f[4] = g[4] /\ f[5] = g[5]
        /\ f[6] = g[6] /\ f[9] = g[9] /\ f[10] = g[10] /\ f[11] = g[11] /\ f[12] = g[12]
    BY <1>3 DEF HeadIs
  <1>4. ASSUME NEW i \in 1..12 PROVE u[i] = g[i]
    <2>1. u[i] = IF i - 1 \in {6, 7} THEN 0 ELSE f[i]
      BY <1>1
    <2>2. CASE i = 7 \/ i = 8
      BY <1>6, <2>1, <2>2
    <2>3. CASE ~(i = 7 \/ i = 8)
      <3>1. u[i] = f[i]
        BY <2>1, <2>3
      <3>2. i = 1 \/ i = 2 \/ i = 3 \/ i = 4 \/ i = 5 \/ i = 6
            \/ i = 9 \/ i = 10 \/ i = 11 \/ i = 12
        BY <2>3, TwelveCases
      <3>3. f[i] = g[i]
        BY <1>7, <3>2
      <3> QED  BY <3>1, <3>3
    <2> QED  BY <2>2, <2>3, Zenon
  <1>5. u = g
    <2>1. PICK n \in Nat : n = 12
      OBVIOUS
    <2>2. Sized(u, n) /\ Sized(g, n) /\ \A i \in 1..n : u[i] = g[i]
      BY <1>1, <1>3, <1>4, <2>1
    <2> QED  BY <2>2, SameSized
  <1> QED  BY <1>5 DEF u, g, zero

LEMMA SegmentIntact ==
    ASSUME NEW f \in Seq(Int), Len(f) = 60, NEW payload \in Seq(Int), Len(payload) <= 44,
           NEW token, Sized(token, 2),
           \A i \in 1..4 + Len(payload) : f[12 + i] = Segment(payload, token)[i]
    PROVE  Untokened(f, 12, 16 + Len(payload), 14) = Segment(payload, <<0, 0>>)
  <1> DEFINE n == Len(payload)
             to == 16 + n
             u == Untokened(f, 12, to, 14)
             zero == <<0, 0>>
             h == Segment(payload, token)
             g == Segment(payload, zero)
  <1>1. n \in Nat /\ n <= 44
    OBVIOUS
  <1> HIDE DEF n
  <1>2. to \in 12..Len(f) /\ 12 \in Nat /\ 14 \in Nat /\ to - 12 = 4 + n
    BY <1>1
  <1> HIDE DEF to
  <1>3. Sized(u, to - 12) /\ Cleared(u, f, 12, to, 14)
    <2>1. PICK from \in Nat : from = 12
      OBVIOUS
    <2>2. PICK at \in Nat : at = 14
      OBVIOUS
    <2>3. to \in from..Len(f)
      BY <1>2, <2>1
    <2>4. u = Untokened(f, from, to, at)
      BY <2>1, <2>2
    <2> HIDE DEF u
    <2>5. Sized(u, to - from) /\ Cleared(u, f, from, to, at)
      BY <2>3, <2>4, UntokenedIs, Zenon
    <2> QED  BY <2>1, <2>2, <2>5
  <1>4. Sized(zero, 2) /\ zero[1] = 0 /\ zero[2] = 0
    BY DEF Sized
  <1> HIDE DEF zero
  <1>5. SegmentOf(h, payload, token)
    BY SegmentIs
  <1>6. Sized(g, 4 + n) /\ SegmentOf(g, payload, zero)
    BY <1>4, SegmentIs DEF n
  <1>7. \A i \in 1..4 + n : f[12 + i] = h[i]
    BY DEF n
  <1> HIDE DEF u, g, h
  <1>8. \A i \in 1..4 + n : u[i] = IF 12 + i - 1 \in {14, 14 + 1} THEN 0 ELSE f[12 + i]
    BY <1>2, <1>3 DEF Cleared
  <1>9. ASSUME NEW i \in 1..4 + n PROVE u[i] = g[i]
    <2>1. u[i] = IF i = 3 \/ i = 4 THEN 0 ELSE h[i]
      BY <1>7, <1>8
    <2>2. CASE i = 3 \/ i = 4
      BY <1>4, <1>6, <2>1, <2>2 DEF SegmentOf
    <2>3. CASE i = 1 \/ i = 2
      BY <1>5, <1>6, <2>1, <2>3 DEF SegmentOf
    <2>4. CASE i \notin 1..4
      <3>1. PICK j \in 1..n : i = 4 + j
        <4>1. i - 4 \in 1..n /\ i = 4 + (i - 4)
          BY <1>1, <2>4
        <4> QED  BY <4>1
      <3>2. h[4 + j] = payload[j] /\ g[4 + j] = payload[j]
        BY <1>5, <1>6 DEF SegmentOf, n
      <3> QED  BY <2>1, <2>4, <3>1, <3>2
    <2>5. i = 1 \/ i = 2 \/ i = 3 \/ i = 4 \/ i \notin 1..4
      OBVIOUS
    <2> QED  BY <2>2, <2>3, <2>4, <2>5
  <1>10. 4 + n \in Nat /\ Sized(u, 4 + n)
    BY <1>1, <1>2, <1>3
  <1>11. u = g
    BY <1>6, <1>9, <1>10, SameSized
  <1> QED  BY <1>11 DEF u, g, zero, to, n

LEMMA PayloadBack ==
    ASSUME NEW f \in Seq(Int), Len(f) = 60, NEW payload \in Seq(Int), Len(payload) <= 44,
           \A i \in 1..Len(payload) : f[16 + i] = payload[i]
    PROVE  SubSeq(f, 17, 16 + Len(payload)) = payload
  <1> DEFINE n == Len(payload)
             to == 16 + n
             u == SubSeq(f, 17, to)
  <1>1. n \in Nat /\ n <= 44 /\ payload \in Seq(Int) /\ Len(payload) = n
        /\ \A i \in 1..n : f[16 + i] = payload[i]
    OBVIOUS
  <1> HIDE DEF n
  <1>2. 17 \in Nat /\ to \in Nat /\ 1 <= 17 /\ 17 - 1 <= to /\ to <= Len(f)
        /\ to - 17 + 1 = n
    BY <1>1
  <1> HIDE DEF to
  <1>3. Sized(u, to - 17 + 1) /\ Slice(u, f, 17, to)
    <2>1. PICK from : from = 17
      OBVIOUS
    <2>2. from \in Nat /\ to \in Nat /\ 1 <= from /\ from - 1 <= to /\ to <= Len(f)
      BY <1>2, <2>1
    <2>3. Sized(SubSeq(f, from, to), to - from + 1) /\ Slice(SubSeq(f, from, to), f, from, to)
      BY <2>2, SliceIs, Zenon
    <2> QED  BY <2>1, <2>3
  <1> HIDE DEF u
  <1>4. Sized(u, n) /\ Sized(payload, n)
    BY <1>1, <1>2, <1>3 DEF Sized
  <1>5. \A i \in 1..n : u[i] = payload[i]
    <2>1. \A i \in 1..n : 17 + i - 1 = 16 + i
      BY <1>1
    <2> QED  BY <1>1, <1>2, <1>3, <2>1 DEF Slice
  <1>6. u = payload
    BY <1>1, <1>4, <1>5, SameSized
  <1> QED  BY <1>6 DEF u, to, n

(* The bytes of a frame, with the checksums of its header and its segment. *)
FrameOf(f, flags, seq, receiver, cmd, payload, top, body) ==
    /\ Sized(f, 60)
    /\ HeadIs(f, flags, seq, receiver, cmd, Word(top))
    /\ f[13] = Word(Len(payload))[1] /\ f[14] = Word(Len(payload))[2]
    /\ f[15] = Word(body)[1] /\ f[16] = Word(body)[2]
    /\ \A i \in 1..Len(payload) : f[16 + i] = payload[i]
    /\ \A i \in 17 + Len(payload)..60 : f[i] = 0

TopOf(flags, seq, receiver, cmd) == Crc16(Headed(flags, seq, receiver, cmd, <<0, 0>>))
BodyOf(payload) == IF payload = <<>> THEN 0 ELSE Crc16(Segment(payload, <<0, 0>>))

LEMMA FrameIs ==
    ASSUME NEW cmd \in Words, NEW receiver \in Int, NEW seq \in Words, NEW flags \in Int,
           NEW payload \in Seq(Int), Len(payload) <= 44
    PROVE  FrameOf(BuildFrame(cmd, receiver, seq, payload, flags), flags, seq, receiver, cmd,
                   payload, TopOf(flags, seq, receiver, cmd), BodyOf(payload))
  <1> DEFINE n == Len(payload)
             top == TopOf(flags, seq, receiver, cmd)
             body == Crc16(Segment(payload, <<0, 0>>))
             h == Headed(flags, seq, receiver, cmd, Word(top))
             s == IF payload = <<>> THEN <<>> ELSE Segment(payload, Word(body))
             m == IF payload = <<>> THEN 0 ELSE 4 + n
             f == (h \o s) \o Zeros(FrameLen - Len(h \o s))
  <1>1. BuildFrame(cmd, receiver, seq, payload, flags) = f
    BY DEF BuildFrame, TopOf
  <1>2. top \in Words /\ body \in Words
    BY Crc16Is DEF TopOf
  <1>3. n \in Nat /\ n <= 44 /\ m \in 0..48 /\ (payload = <<>> <=> n = 0)
    <2>1. n \in Nat /\ n <= 44
      OBVIOUS
    <2>2. payload = <<>> <=> n = 0
      OBVIOUS
    <2> HIDE DEF n
    <2> QED  BY <2>1, <2>2
  <1>14. BodyOf(payload) = IF payload = <<>> THEN 0 ELSE body
    BY DEF BodyOf
  <1> HIDE DEF n, top, body
  <1>4. Sized(Word(top), 2) /\ Sized(Word(body), 2) /\ cmd \in Nat /\ seq \in Nat
    <2>1. top \in Nat /\ body \in Nat /\ cmd \in Nat /\ seq \in Nat
      BY <1>2 DEF Words
    <2>2. \A x \in Nat : Sized(Word(x), 2)
      BY WordIs, Zenon DEF Sized
    <2> QED  BY <2>1, <2>2, Zenon
  <1>5. Sized(h, 12) /\ HeadIs(h, flags, seq, receiver, cmd, Word(top))
    BY <1>4, HeadedIs
  <1>6. /\ Sized(s, m)
        /\ payload # <<>> => SegmentOf(s, payload, Word(body))
    <2>1. CASE payload = <<>>
      BY <2>1 DEF Sized
    <2>2. CASE payload # <<>>
      <3>1. /\ Sized(Segment(payload, Word(body)), 4 + n)
            /\ SegmentOf(Segment(payload, Word(body)), payload, Word(body))
        BY <1>4, SegmentIs, Zenon DEF n
      <3>2. s = Segment(payload, Word(body)) /\ m = 4 + n
        BY <2>2, Zenon
      <3> QED  BY <3>1, <3>2, Zenon
    <2> QED  BY <2>1, <2>2
  <1> HIDE DEF h, s, m
  <1>7. Filled(f, h, s, m)
    BY <1>3, <1>5, <1>6, FilledIs
  <1> HIDE DEF f
  <1>8. Sized(f, 60)
    BY <1>7 DEF Filled
  <1>15. \A i \in 1..m : f[12 + i] = s[i]
    BY <1>7 DEF Filled
  <1>16. \A i \in 13 + m..60 : f[i] = 0
    BY <1>7 DEF Filled
  <1>9. HeadIs(f, flags, seq, receiver, cmd, Word(top))
    <2>1. \A i \in 1..12 : f[i] = h[i]
      BY <1>7 DEF Filled
    <2>2. /\ f[1] = h[1] /\ f[2] = h[2] /\ f[3] = h[3] /\ f[4] = h[4]
          /\ f[5] = h[5] /\ f[6] = h[6] /\ f[7] = h[7] /\ f[8] = h[8]
          /\ f[9] = h[9] /\ f[10] = h[10] /\ f[11] = h[11] /\ f[12] = h[12]
      BY <2>1
    <2> QED  BY <1>5, <2>2 DEF HeadIs
  <1>10. /\ f[13] = Word(n)[1] /\ f[14] = Word(n)[2]
         /\ f[15] = Word(BodyOf(payload))[1] /\ f[16] = Word(BodyOf(payload))[2]
         /\ \A i \in 1..n : f[16 + i] = payload[i]
         /\ \A i \in 17 + n..60 : f[i] = 0
    <2>1. CASE payload = <<>>
      <3>1. m = 0 /\ n = 0 /\ BodyOf(payload) = 0 /\ Word(0)[1] = 0 /\ Word(0)[2] = 0
        BY <1>3, <1>14, <2>1 DEF m, Word
      <3>2. ASSUME NEW i \in 13..60 PROVE f[i] = 0
        <4>1. i \in 13 + m..60
          BY <3>1
        <4> QED  BY <1>16, <4>1
      <3>3. f[13] = 0 /\ f[14] = 0 /\ f[15] = 0 /\ f[16] = 0
        BY <3>2
      <3>4. (\A i \in 1..n : f[16 + i] = payload[i]) /\ \A i \in 17 + n..60 : f[i] = 0
        BY <3>1, <3>2
      <3> QED  BY <3>1, <3>3, <3>4
    <2>2. CASE payload # <<>>
      <3>1. m = 4 + n /\ n > 0 /\ BodyOf(payload) = body
        BY <1>3, <1>14, <2>2 DEF m
      <3>2. SegmentOf(s, payload, Word(body))
        BY <1>6, <2>2
      <3>3. f[12 + 1] = s[1] /\ f[12 + 2] = s[2] /\ f[12 + 3] = s[3] /\ f[12 + 4] = s[4]
        BY <1>3, <1>15, <3>1
      <3>4. ASSUME NEW i \in 1..n PROVE f[16 + i] = payload[i]
        <4>1. 4 + i \in 1..m /\ 12 + (4 + i) = 16 + i
          BY <1>3, <3>1
        <4>2. f[12 + (4 + i)] = s[4 + i]
          BY <1>15, <4>1
        <4> QED  BY <3>2, <4>1, <4>2 DEF SegmentOf, n
      <3>5. \A i \in 17 + n..60 : f[i] = 0
        BY <1>3, <1>16, <3>1
      <3> QED  BY <3>1, <3>2, <3>3, <3>4, <3>5 DEF SegmentOf, n
    <2> QED  BY <2>1, <2>2
  <1> QED  BY <1>1, <1>8, <1>9, <1>10 DEF FrameOf, n, top

(* The checksum at at of the bytes from from to to is right.               *)
Intact(b, from, to, at) == Crc16(Untokened(b, from, to, at)) = WordAt(b, at)

(* The checksums of a frame are right, and its length is the payload's.    *)
LEMMA FrameIntact ==
    ASSUME NEW cmd \in Words, NEW receiver \in Int, NEW seq \in Words, NEW flags \in Int,
           NEW payload \in Seq(Int), Len(payload) <= 44, NEW f,
           FrameOf(f, flags, seq, receiver, cmd, payload, TopOf(flags, seq, receiver, cmd),
                   BodyOf(payload))
    PROVE  /\ Intact(f, 0, 12, 6) /\ WordAt(f, 12) = Len(payload)
           /\ WordAt(f, 2) = seq /\ WordAt(f, 10) = cmd /\ WordAt(f, 14) = BodyOf(payload)
           /\ payload # <<>> => Intact(f, 12, 16 + Len(payload), 14)
  <1> DEFINE n == Len(payload)
             top == TopOf(flags, seq, receiver, cmd)
             body == BodyOf(payload)
  <1>1. /\ Sized(f, 60) /\ HeadIs(f, flags, seq, receiver, cmd, Word(top))
        /\ f[13] = Word(n)[1] /\ f[14] = Word(n)[2]
        /\ f[15] = Word(body)[1] /\ f[16] = Word(body)[2]
        /\ \A i \in 1..n : f[16 + i] = payload[i]
    BY DEF FrameOf
  <1>2. n \in Words /\ n \in Nat /\ n <= 44 /\ cmd \in Nat /\ seq \in Nat
    BY DEF Words
  <1>3. top \in Words /\ body \in Words
    BY Crc16Is DEF TopOf, BodyOf, Words
  <1>4. top = Crc16(Headed(flags, seq, receiver, cmd, <<0, 0>>))
    BY DEF TopOf
  <1>5. payload # <<>> => body = Crc16(Segment(payload, <<0, 0>>))
    BY DEF BodyOf
  <1>6. f \in Seq(Int) /\ Len(f) = 60
    BY <1>1 DEF Sized
  <1> HIDE DEF n, top, body
  <1>7. /\ WordAt(f, 2) = f[3] + 256 * f[4] /\ WordAt(f, 6) = f[7] + 256 * f[8]
        /\ WordAt(f, 10) = f[11] + 256 * f[12] /\ WordAt(f, 12) = f[13] + 256 * f[14]
        /\ WordAt(f, 14) = f[15] + 256 * f[16]
    BY DEF WordAt
  <1>8. /\ f[3] = Word(seq)[1] /\ f[4] = Word(seq)[2] /\ f[7] = Word(top)[1]
        /\ f[8] = Word(top)[2] /\ f[11] = Word(cmd)[1] /\ f[12] = Word(cmd)[2]
    BY <1>1 DEF HeadIs
  <1>9. WordAt(f, 2) = seq /\ WordAt(f, 6) = top /\ WordAt(f, 10) = cmd
    BY <1>3, <1>7, <1>8, WordBack
  <1>10. WordAt(f, 12) = n /\ WordAt(f, 14) = body
    <2>1. Word(n)[1] + 256 * Word(n)[2] = n /\ Word(body)[1] + 256 * Word(body)[2] = body
      BY <1>2, <1>3, WordBack
    <2>2. /\ f[13] = Word(n)[1] /\ f[14] = Word(n)[2]
          /\ f[15] = Word(body)[1] /\ f[16] = Word(body)[2]
      BY <1>1
    <2>3. f[13] + 256 * f[14] = n /\ f[15] + 256 * f[16] = body
      BY <2>1, <2>2
    <2> QED  BY <1>7, <2>3
  <1>11. Intact(f, 0, 12, 6)
    <2>1. Untokened(f, 0, 12, 6) = Headed(flags, seq, receiver, cmd, <<0, 0>>)
      BY <1>1, <1>2, <1>6, HeaderIntact
    <2> QED  BY <1>4, <1>9, <2>1 DEF Intact
  <1>12. ASSUME payload # <<>> PROVE Intact(f, 12, 16 + n, 14)
    <2> DEFINE s == Segment(payload, Word(body))
    <2>1. Sized(Word(body), 2)
      BY <1>3, WordIs DEF Sized, Words
    <2>2. SegmentOf(s, payload, Word(body))
      BY <2>1, SegmentIs
    <2> HIDE DEF s
    <2>3. ASSUME NEW i \in 1..4 + n PROVE f[12 + i] = s[i]
      <3>1. CASE i = 1 \/ i = 2 \/ i = 3 \/ i = 4
        <4>1. s[1] = f[13] /\ s[2] = f[14] /\ s[3] = f[15] /\ s[4] = f[16]
          BY <1>1, <2>2 DEF SegmentOf, n
        <4> QED  BY <3>1, <4>1
      <3>2. CASE ~(i = 1 \/ i = 2 \/ i = 3 \/ i = 4)
        <4>1. PICK j \in 1..n : i = 4 + j
          <5>1. i - 4 \in 1..n /\ i = 4 + (i - 4)
            BY <1>2, <3>2
          <5> QED  BY <5>1
        <4>2. s[4 + j] = payload[j] /\ f[16 + j] = payload[j] /\ 12 + i = 16 + j
          BY <1>1, <2>2, <4>1 DEF SegmentOf, n
        <4> QED  BY <4>1, <4>2
      <3> QED  BY <3>1, <3>2
    <2>4. Untokened(f, 12, 16 + n, 14) = Segment(payload, <<0, 0>>)
      BY <1>2, <1>6, <2>1, <2>3, SegmentIntact DEF n, s
    <2> QED  BY <1>5, <1>10, <1>12, <2>4 DEF Intact
  <1> QED  BY <1>9, <1>10, <1>11, <1>12 DEF n, body

(* What parse_frame makes of a report of 60 bytes.                         *)
ReadAs(b, payload) ==
    [seq |-> WordAt(b, 2), sender |-> b[9], receiver |-> b[10],
     cmd |-> WordAt(b, 10), payload |-> payload]
LEMMA ParsedIs ==
    ASSUME NEW b, Len(b) = 60, WordAt(b, 12) \in Nat
    PROVE  LET n == WordAt(b, 12)
           IN ParseFrame(b) =
                IF b[1] # 170 \/ ~Intact(b, 0, 12, 6) THEN BadFrame
                ELSE IF n = 0 THEN ReadAs(b, <<>>)
                ELSE IF n > 44 \/ ~Intact(b, 12, 16 + n, 14) THEN BadFrame
                ELSE ReadAs(b, SubSeq(b, 17, 16 + n))
  <1> DEFINE n == WordAt(b, 12)
             end == 16 + n
  <1>1. ParseFrame(b) =
          IF Len(b) < 12 \/ b[1] # 170 \/ Crc16(Untokened(b, 0, 12, 6)) # WordAt(b, 6)
          THEN BadFrame
          ELSE IF Len(b) < 16 \/ end = 16 THEN ReadAs(b, <<>>)
          ELSE IF Len(b) < end \/ ~PayloadIntact(b, end) THEN BadFrame
          ELSE ReadAs(b, SubSeq(b, 17, end))
    BY Zenon DEF ParseFrame, ReadAs
  <1>2. Intact(b, 0, 12, 6) <=> Crc16(Untokened(b, 0, 12, 6)) = WordAt(b, 6)
    BY DEF Intact
  <1>3. Intact(b, 12, end, 14) <=> PayloadIntact(b, end)
    BY DEF Intact, PayloadIntact
  <1>4. n \in Nat
    OBVIOUS
  <1> HIDE DEF n
  <1>5. ~(Len(b) < 12) /\ ~(Len(b) < 16) /\ (end = 16 <=> n = 0) /\ (Len(b) < end <=> n > 44)
    BY <1>4
  <1> QED  BY <1>1, <1>2, <1>3, <1>5 DEF n

(* Whatever command, receiver, sequence number and flags a frame is built  *)
(* with, and whatever payload fits in it, parse_frame accepts the frame    *)
(* and finds them in it (protocol.py:67, protocol.py:96).  It needs of the *)
(* checksum only that it is a 16-bit function of the bytes.                *)
THEOREM ParseInverts ==
    ASSUME NEW cmd \in Words, NEW receiver \in Int, NEW seq \in Words, NEW flags \in Int,
           NEW payload \in Seq(Int), Len(payload) <= 44
    PROVE  Survives(cmd, receiver, seq, payload, flags)
  <1> DEFINE n == Len(payload)
             top == TopOf(flags, seq, receiver, cmd)
             body == BodyOf(payload)
             f == BuildFrame(cmd, receiver, seq, payload, flags)
  <1>1. FrameOf(f, flags, seq, receiver, cmd, payload, top, body)
    BY FrameIs
  <1> HIDE DEF f
  <1>2. /\ Intact(f, 0, 12, 6) /\ WordAt(f, 12) = n
        /\ WordAt(f, 2) = seq /\ WordAt(f, 10) = cmd
        /\ payload # <<>> => Intact(f, 12, 16 + n, 14)
    BY <1>1, FrameIntact
  <1>3. /\ f \in Seq(Int) /\ Len(f) = 60 /\ f[1] = 170 /\ f[9] = 10 /\ f[10] = receiver
        /\ \A i \in 1..n : f[16 + i] = payload[i]
    BY <1>1 DEF FrameOf, HeadIs, Sized
  <1>4. n \in Nat /\ n <= 44 /\ (n = 0 <=> payload = <<>>)
    OBVIOUS
  <1>5. SubSeq(f, 17, 16 + n) = payload
    BY <1>3, PayloadBack
  <1> HIDE DEF n, top, body
  <1>6. ParseFrame(f) =
          IF f[1] # 170 \/ ~Intact(f, 0, 12, 6) THEN BadFrame
          ELSE IF n = 0 THEN ReadAs(f, <<>>)
          ELSE IF n > 44 \/ ~Intact(f, 12, 16 + n, 14) THEN BadFrame
          ELSE ReadAs(f, SubSeq(f, 17, 16 + n))
    <2>1. Len(f) = 60 /\ WordAt(f, 12) \in Nat
      BY <1>2, <1>3, <1>4
    <2> QED  BY <1>2, <2>1, ParsedIs
  <1>7. ParseFrame(f) = ReadAs(f, payload)
    <2>1. f[1] = 170 /\ Intact(f, 0, 12, 6) /\ ~(n > 44)
      BY <1>2, <1>3, <1>4
    <2>2. CASE n = 0
      BY <1>4, <1>6, <2>1, <2>2, Zenon
    <2>3. CASE n # 0
      BY <1>2, <1>4, <1>5, <1>6, <2>1, <2>3, Zenon
    <2> QED  BY <2>2, <2>3
  <1>8. ReadAs(f, payload) = [seq |-> seq, sender |-> 10, receiver |-> receiver,
                              cmd |-> cmd, payload |-> payload]
    BY <1>2, <1>3 DEF ReadAs
  <1> QED  BY <1>3, <1>7, <1>8, Zenon DEF Survives, FrameLen, f

(* The run's sample of frames.                                             *)
LEMMA NothingMisparsed == Misparsed = {}
  <1>1. \A payload \in Payloads : payload \in Seq(Int) /\ Len(payload) <= 44
    <2> SUFFICES ASSUME NEW payload \in Payloads
                 PROVE  payload \in Seq(Int) /\ Len(payload) <= 44
      OBVIOUS
    <2>1. PICK n \in 0..44 : payload = [i \in 1..n |-> (37 * i + 200) % 256]
      BY Zenon DEF Payloads
    <2>2. n \in Nat /\ n <= 44 /\ \A i \in 1..n : (37 * i + 200) % 256 \in Int
      OBVIOUS
    <2>3. payload \in [1..n -> Int]
      BY <2>1, <2>2
    <2>4. payload \in Seq(Int) /\ Len(payload) = n
      BY <2>2, <2>3
    <2> QED  BY <2>2, <2>4
  <1>2. \A seq \in {1, 255, 256, 65535} : seq \in Words
    BY DEF Words
  <1>3. \A c \in Commands : c[1] \in Words /\ c[2] \in Int
    BY DEF Commands, Words
  <1>4. 37 \in Int
    OBVIOUS
  <1>5. ASSUME NEW c \in Commands, NEW seq \in {1, 255, 256, 65535}, NEW payload \in Payloads
        PROVE  Survives(c[1], c[2], seq, payload, 37)
    <2>1. PICK flags : flags = 37
      OBVIOUS
    <2>2. PICK cmd, receiver : cmd = c[1] /\ receiver = c[2]
      OBVIOUS
    <2>3. cmd \in Words /\ receiver \in Int /\ seq \in Words /\ flags \in Int
      BY <1>2, <1>3, <2>1, <2>2
    <2>4. Survives(cmd, receiver, seq, payload, flags)
      BY <1>1, <2>3, ParseInverts
    <2> QED  BY <2>1, <2>2, <2>4
  <1> QED  BY <1>5 DEF Misparsed
=============================================================================
