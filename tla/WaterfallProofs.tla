---------------------------- MODULE WaterfallProofs ---------------------------
(***************************************************************************)
(* Proofs about Waterfall, for an image and a ring of any width and for    *)
(* any samples.                                                            *)
(***************************************************************************)
EXTENDS Waterfall, SequenceTheorems, WellFoundedInduction, TLAPS

-----------------------------------------------------------------------------
\* Numbers.

LEMMA WidthFacts ==
  /\ Width \in Nat /\ DisplayWidth \in Nat /\ 1 <= DisplayWidth
  /\ DisplayWidth <= Width - 1
BY WaterfallAssumption

LEMMA SmallestNat ==
  ASSUME NEW T \in SUBSET Nat, T # {}
  PROVE  \E m \in T : \A k \in T : m <= k
<1> DEFINE R == {pair \in Nat \X Nat : pair[1] < pair[2]}
<1>1. IsWellFoundedOn(R, Nat)
  BY NatLessThanWellFounded DEF OpToRel
<1>2. PICK m \in T : \A k \in T : ~(<<k, m>> \in R)
  BY <1>1, WFMin
<1>3. ASSUME NEW k \in T PROVE m <= k
  <2>1. <<k, m>> \in Nat \X Nat /\ ~(<<k, m>> \in R)
    BY <1>2
  <2>2. ~(k < m)
    BY <2>1
  <2>3. QED
    BY <2>2
<1>4. QED
  BY <1>3

\* The least of some numbers and the greatest of bounded ones.
LEMMA MinFacts ==
  ASSUME NEW S \in SUBSET Nat, S # {}
  PROVE  Min(S) \in S /\ \A y \in S : Min(S) <= y
<1>1. \E x \in S : \A y \in S : x =< y
  BY SmallestNat
<1>2. QED
  BY <1>1, Zenon DEF Min

LEMMA MaxFacts ==
  ASSUME NEW b \in Nat, NEW S \in SUBSET (0..b), S # {}
  PROVE  Max(S) \in S /\ \A y \in S : y <= Max(S)
<1> DEFINE T == {b - y : y \in S}
<1>1. T \in SUBSET Nat /\ T # {}
  <2>1. ASSUME NEW y \in S PROVE b - y \in Nat
    OBVIOUS
  <2>2. T \in SUBSET Nat
    BY <2>1, Zenon
  <2>3. PICK y \in S : TRUE
    OBVIOUS
  <2>4. b - y \in T
    OBVIOUS
  <2>5. QED
    BY <2>2, <2>4
<1>2. PICK m \in T : \A k \in T : m <= k
  BY <1>1, SmallestNat
<1>3. PICK x \in S : m = b - x
  OBVIOUS
<1>4. \A y \in S : x >= y
  <2>1. ASSUME NEW y \in S PROVE x >= y
    <3>1. b - y \in T
      OBVIOUS
    <3>2. b - x <= b - y
      BY <1>2, <1>3, <3>1
    <3>3. QED
      BY <3>2
  <2>2. QED
    BY <2>1
<1>5. Max(S) \in S /\ \A y \in S : Max(S) >= y
  BY <1>4, Zenon DEF Max
<1>6. QED
  BY <1>5

LEMMA ModStep ==
  ASSUME NEW b \in Nat \ {0}, NEW x \in 0..b
  PROVE  x % b = IF x = b THEN 0 ELSE x
<1>1. x \div b \in Int /\ x % b \in 0..(b - 1) /\ x = b * (x \div b) + (x % b)
  OBVIOUS
<1>2. PICK q \in Int : x % b \in 0..(b - 1) /\ x = b * q + (x % b)
  BY <1>1, Zenon
<1>3. /\ q >= 1 => b * q >= b
      /\ q >= 2 => b * q >= 2 * b
      /\ q <= -1 => b * q <= -b
      /\ q = 0 => b * q = 0
      /\ q = 1 => b * q = b
  OBVIOUS
<1>4. q = 0 \/ q = 1
  BY <1>2, <1>3
<1>5. QED
  BY <1>2, <1>3, <1>4

\* The next number and the next place of the ring.
LEMMA NextFacts ==
  /\ \A n \in 1..(Width + 1) :
       (n % (Width + 1)) + 1 = IF n = Width + 1 THEN 1 ELSE n + 1
  /\ \A i \in 0..(DisplayWidth - 1) :
       (i + 1) % DisplayWidth = IF i + 1 = DisplayWidth THEN 0 ELSE i + 1
<1>1. ASSUME NEW n \in 1..(Width + 1)
      PROVE  (n % (Width + 1)) + 1 = IF n = Width + 1 THEN 1 ELSE n + 1
  <2>1. Width + 1 \in Nat \ {0} /\ n \in 0..(Width + 1)
    BY WidthFacts
  <2>2. n % (Width + 1) = IF n = Width + 1 THEN 0 ELSE n
    BY <2>1, ModStep, Zenon
  <2>3. QED
    BY <2>1, <2>2
<1>2. ASSUME NEW i \in 0..(DisplayWidth - 1)
      PROVE  (i + 1) % DisplayWidth = IF i + 1 = DisplayWidth THEN 0 ELSE i + 1
  <2>1. DisplayWidth \in Nat \ {0} /\ i + 1 \in 0..DisplayWidth
    BY WidthFacts
  <2>2. QED
    BY <2>1, ModStep, Zenon
<1>3. QED
  BY <1>1, <1>2

-----------------------------------------------------------------------------
\* The samples shown.

LEMMA NumberFacts ==
  ASSUME ShownInv
  PROVE  /\ NextNumber \in 1..(Width + 1)
         /\ Len(shown) \in Nat
         /\ Len(shown) > 0 =>
              LET n == shown[Len(shown)]
              IN /\ n \in 1..(Width + 1)
                 /\ NextNumber = IF n = Width + 1 THEN 1 ELSE n + 1
<1>1. shown \in Seq(1..(Width + 1)) /\ Len(shown) \in Nat
  BY DEF ShownInv
<1>2. CASE shown = <<>>
  <2>1. NextNumber = 1 /\ Len(shown) = 0
    BY <1>2 DEF NextNumber
  <2>2. QED
    BY <1>1, <2>1, WidthFacts
<1>3. CASE shown # <<>>
  <2>0. Len(shown) > 0 /\ Len(shown) \in 1..Len(shown)
    BY <1>1, <1>3, EmptySeq
  <2>1. Len(shown) > 0 /\ shown[Len(shown)] \in 1..(Width + 1)
    BY <1>1, <2>0, ElementOfSeq, Zenon
  <2>2. NextNumber = (shown[Len(shown)] % (Width + 1)) + 1
    BY <1>3 DEF NextNumber, Last
  <2>3. NextNumber = IF shown[Len(shown)] = Width + 1 THEN 1 ELSE shown[Len(shown)] + 1
    BY <2>1, <2>2, NextFacts, Zenon
  <2>4. QED
    BY <1>1, <2>1, <2>3, WidthFacts
<1>4. QED
  BY <1>2, <1>3

LEMMA LaterOne ==
  ASSUME NEW a \in Int PROVE Max({1, a}) = IF a > 1 THEN a ELSE 1
<1>1. \E x \in {1, a} : \A y \in {1, a} : x >= y
  <2>1. 1 >= 1 /\ a >= a /\ (a >= 1 \/ 1 >= a)
    OBVIOUS
  <2>2. QED
    BY <2>1, Zenon
<1>2. Max({1, a}) \in {1, a} /\ \A y \in {1, a} : Max({1, a}) >= y
  BY <1>1, Zenon DEF Max
<1>3. QED
  BY <1>2

\* A sequence that takes one more element and drops its first when it is longer
\* than allowed.
Trim(s, e, w) == LET all == Append(s, e)
                 IN SubSeq(all, Max({1, Len(all) - w + 1}), Len(all))

Numbers == 1..(Width + 1)

LEMMA Trimmed ==
  ASSUME ShownInv, NEW t, t = Trim(shown, NextNumber, DisplayWidth)
  PROVE  /\ t \in Seq(Numbers) /\ Len(t) \in Nat /\ Len(shown) \in Nat
         /\ 1 <= Len(t) /\ Len(t) <= DisplayWidth /\ Len(t) <= Len(shown) + 1
         /\ Len(t) = DisplayWidth \/ Len(t) = Len(shown) + 1
         /\ t[Len(t)] = NextNumber
         /\ \A k \in Int : 1 <= k /\ k <= Len(t) - 1 => t[Len(t) - k] = shown[Len(shown) - k + 1]
<1> DEFINE all == Append(shown, NextNumber)
<1>0. /\ shown \in Seq(Numbers) /\ Len(shown) <= DisplayWidth
      /\ NextNumber \in Numbers /\ DisplayWidth \in Nat \ {0}
  BY NumberFacts, WidthFacts DEF ShownInv, Numbers
<1>1. PICK n \in Nat : n = Len(shown) /\ n <= DisplayWidth
  BY <1>0, LenProperties, Zenon
<1>2. /\ all \in Seq(Numbers) /\ Len(all) = n + 1
      /\ \A i \in 1..n : all[i] = shown[i]
      /\ all[n + 1] = NextNumber
  <2>1. /\ all \in Seq(Numbers) /\ Len(all) = Len(shown) + 1
        /\ \A i \in 1..Len(shown) : all[i] = shown[i]
        /\ all[Len(shown) + 1] = NextNumber
    BY <1>0, AppendProperties, LenProperties
  <2>2. QED
    BY <1>1, <2>1, Zenon
<1> HIDE DEF all
<1>3. t = SubSeq(all, Max({1, (n + 1) - DisplayWidth + 1}), n + 1)
  <2>1. t = SubSeq(all, Max({1, Len(all) - DisplayWidth + 1}), Len(all))
    BY DEF all, Trim
  <2>2. Len(all) = n + 1 /\ Len(all) - DisplayWidth + 1 = (n + 1) - DisplayWidth + 1
    BY <1>2, Zenon
  <2>3. QED
    BY <2>1, <2>2, Zenon
<1>4. \A i \in 1..(n + 1) : all[i] \in Numbers
  <2>1. \A i \in 1..Len(all) : all[i] \in Numbers
    BY <1>2, ElementOfSeq
  <2>2. QED
    BY <1>2, <2>1, Zenon
<1>5. /\ Max({1, (n + 1) - DisplayWidth + 1}) \in Int
      /\ Max({1, (n + 1) - DisplayWidth + 1}) = IF n = DisplayWidth THEN 2 ELSE 1
  <2>1. (n + 1) - DisplayWidth + 1 \in Int
    BY <1>0
  <2>2. Max({1, (n + 1) - DisplayWidth + 1}) = IF (n + 1) - DisplayWidth + 1 > 1 THEN (n + 1) - DisplayWidth + 1 ELSE 1
    BY <2>1, LaterOne, Zenon
  <2>3. QED
    BY <1>0, <1>1, <2>2
<1>6. PICK f \in Int : f = Max({1, (n + 1) - DisplayWidth + 1})
  BY <1>5, Zenon
<1>7. /\ n = DisplayWidth => f = 2
      /\ n # DisplayWidth => f = 1
      /\ f \in Int /\ n + 1 \in Int /\ 1 <= f /\ f <= n + 1
  <2>1. f = IF n = DisplayWidth THEN 2 ELSE 1
    BY <1>5, <1>6, Zenon
  <2>2. QED
    BY <1>0, <1>1, <2>1
<1>8. \A i \in f..(n + 1) : all[i] \in Numbers
  BY <1>4, <1>7
<1>9. /\ t \in Seq(Numbers)
      /\ Len(t) = n + 1 - f + 1
      /\ \A i \in 1..(n + 1 - f + 1) : t[i] = all[f + i - 1]
  <2>1. t = SubSeq(all, f, n + 1)
    BY <1>3, <1>6, Zenon
  <2>2. /\ SubSeq(all, f, n + 1) \in Seq(Numbers)
        /\ Len(SubSeq(all, f, n + 1)) = IF f <= n + 1 THEN n + 1 - f + 1 ELSE 0
        /\ \A i \in 1..(n + 1 - f + 1) : SubSeq(all, f, n + 1)[i] = all[f + i - 1]
    BY <1>7, <1>8, SubSeqProperties
  <2>3. QED
    BY <1>7, <2>1, <2>2, Zenon
<1>10. PICK m \in Int : m = n + 1 - f + 1
  OBVIOUS
<1>11. /\ Len(t) = m /\ \A i \in 1..m : t[i] = all[f + i - 1]
       /\ m \in Nat /\ 1 <= m /\ m <= DisplayWidth /\ m <= n + 1 /\ (m = DisplayWidth \/ m = n + 1)
       /\ f + m - 1 = n + 1
  <2>1. Len(t) = m /\ \A i \in 1..m : t[i] = all[f + i - 1]
    BY <1>9, <1>10, Zenon
  <2>2. /\ m \in Nat /\ 1 <= m /\ m <= DisplayWidth /\ m <= n + 1 /\ (m = DisplayWidth \/ m = n + 1)
        /\ f + m - 1 = n + 1
    BY <1>0, <1>1, <1>7, <1>10
  <2>3. QED
    BY <2>1, <2>2
<1>12. t[m] = NextNumber
  <2>1. m \in 1..m
    BY <1>11
  <2>2. t[m] = all[f + m - 1]
    BY <1>11, <2>1, Zenon
  <2>3. QED
    BY <1>2, <1>11, <2>2, Zenon
<1>13. ASSUME NEW k \in Int, 1 <= k, k <= m - 1 PROVE t[m - k] = shown[n - k + 1]
  <2>1. m - k \in 1..m /\ f + (m - k) - 1 = n - k + 1 /\ n - k + 1 \in 1..n
    BY <1>7, <1>10, <1>13
  <2>2. t[m - k] = all[f + (m - k) - 1]
    BY <1>11, <2>1, Zenon
  <2>3. all[n - k + 1] = shown[n - k + 1]
    BY <1>2, <2>1, Zenon
  <2>4. QED
    BY <2>1, <2>2, <2>3, Zenon
<1>14. QED
  BY <1>1, <1>9, <1>11, <1>12, <1>13, Zenon

\* The number before the last is one before it.
LEMMA BeforeFacts ==
  ASSUME NEW n \in 1..(Width + 1), NEW d \in Int, 1 <= d, d <= Width,
         NEW m, m = IF n = Width + 1 THEN 1 ELSE n + 1
  PROVE  Before(m, 0) = m /\ Before(m, d) = Before(n, d - 1)
BY WidthFacts DEF Before

\* A sample that is drawn becomes the newest, the ones before it move on, and
\* the oldest leaves the view when that is full.
LEMMA ShownFacts ==
  ASSUME ShownInv, NEW number, number = NextNumber,
         shown' = Trim(shown, NextNumber, DisplayWidth)
  PROVE  /\ ShownInv'
         /\ Len(shown') \in Nat /\ Len(shown) \in Nat
         /\ 1 <= Len(shown') /\ Len(shown') <= DisplayWidth
         /\ Len(shown') <= Len(shown) + 1
         /\ Len(shown') = DisplayWidth \/ Len(shown') = Len(shown) + 1
         /\ shown'[Len(shown')] = number
         /\ \A k \in Int : 1 <= k /\ k <= Len(shown') - 1 =>
              shown'[Len(shown') - k] = shown[Len(shown) - k + 1]
<1>1. PICK t : t = shown' /\ t = Trim(shown, NextNumber, DisplayWidth)
  OBVIOUS
<1>2. /\ t \in Seq(Numbers) /\ Len(t) \in Nat /\ Len(shown) \in Nat
      /\ 1 <= Len(t) /\ Len(t) <= DisplayWidth /\ Len(t) <= Len(shown) + 1
      /\ Len(t) = DisplayWidth \/ Len(t) = Len(shown) + 1
      /\ t[Len(t)] = number
      /\ \A k \in Int : 1 <= k /\ k <= Len(t) - 1 => t[Len(t) - k] = shown[Len(shown) - k + 1]
  BY <1>1, Trimmed, Zenon
<1>3. PICK n \in Nat, m \in Nat : n = Len(shown) /\ m = Len(t)
  BY <1>2
<1>4. /\ number \in 1..(Width + 1) /\ 1 <= m /\ m <= DisplayWidth /\ m <= n + 1
      /\ t[m] = number
      /\ \A k \in Int : 1 <= k /\ k <= m - 1 => t[m - k] = shown[n - k + 1]
  BY <1>2, <1>3, NumberFacts, Zenon
<1>5. ASSUME NEW d \in 0..(m - 1) PROVE t[m - d] = Before(number, d)
  <2>1. CASE d = 0
    <3>1. Before(number, 0) = number
      BY <1>4, WidthFacts DEF Before
    <3>2. m - d = m
      BY <2>1
    <3>3. QED
      BY <1>4, <2>1, <3>1, <3>2, Zenon
  <2>2. CASE d # 0
    <3>1. /\ d \in Int /\ 1 <= d /\ d <= m - 1 /\ d - 1 \in 0..(n - 1)
          /\ n - d + 1 = n - (d - 1) /\ n > 0 /\ d <= Width
      BY <1>4, <2>2, WidthFacts
    <3>2. t[m - d] = shown[n - (d - 1)]
      <4>1. t[m - d] = shown[n - d + 1]
        BY <1>4, <3>1, Zenon
      <4>2. QED
        BY <3>1, <4>1, Zenon
    <3>3. shown[n - (d - 1)] = Before(shown[n], d - 1)
      BY <1>3, <3>1, Zenon DEF ShownInv
    <3>4. /\ shown[n] \in 1..(Width + 1)
          /\ number = IF shown[n] = Width + 1 THEN 1 ELSE shown[n] + 1
      <4>1. Len(shown) > 0
        BY <1>3, <3>1, Zenon
      <4>2. QED
        BY <1>3, <4>1, NumberFacts, Zenon
    <3>5. Before(number, d) = Before(shown[n], d - 1)
      BY <3>1, <3>4, BeforeFacts, Zenon
    <3>6. QED
      BY <3>2, <3>3, <3>5, Zenon
  <2>3. QED
    BY <2>1, <2>2
<1>6. \A d \in 0..(Len(t) - 1) : t[Len(t) - d] = Before(t[Len(t)], d)
  BY <1>3, <1>4, <1>5, Zenon
<1>7. ShownInv'
  <2>1. /\ shown' \in Seq(1..(Width + 1)) /\ Len(shown') <= DisplayWidth
        /\ \A d \in 0..(Len(shown') - 1) :
             shown'[Len(shown') - d] = Before(shown'[Len(shown')], d)
    BY <1>1, <1>2, <1>6, Zenon DEF Numbers
  <2>2. QED
    BY <2>1, Zenon DEF ShownInv, Before
<1>8. QED
  BY <1>1, <1>2, <1>7, Zenon

-----------------------------------------------------------------------------
\* The columns of the image.

LEMMA StretchedFacts ==
  ASSUME NEW c, NEW d
  PROVE  /\ Stretched(c, d).number = c.number
         /\ Stretched(c, d).initPoint = c.initPoint
         /\ Stretched(c, d).length = c.length
         /\ Stretched(Transparent, d) = Transparent
         /\ c # Transparent => Stretched(c, d).redrawn \in {"cut", "whole"}
<1>1. CASE c = Transparent
  <2>1. Stretched(c, d) = c
    BY <1>1, Zenon DEF Stretched
  <2>2. QED
    BY <1>1, <2>1, Zenon
<1>2. CASE c # Transparent
  <2>1. PICK top, bottom, redrawn :
          /\ Stretched(c, d) = [number |-> c.number, initPoint |-> c.initPoint,
                                length |-> c.length, top |-> top, bottom |-> bottom,
                                redrawn |-> redrawn]
          /\ redrawn \in {"cut", "whole"}
    BY <1>2, Zenon DEF Stretched
  <2>2. Stretched(Transparent, d) = Transparent
    BY Zenon DEF Stretched
  <2>3. QED
    BY <2>1, <2>2
<1>3. QED
  BY <1>1, <1>2, Zenon

\* A column of the image after the scale became d.
Kept(c, d) == IF d = dynamic THEN c ELSE Stretched(c, d)

LEMMA KeptFacts ==
  ASSUME NEW c, NEW d
  PROVE  /\ Kept(c, d).number = c.number
         /\ Kept(c, d).initPoint = c.initPoint
         /\ Kept(c, d).length = c.length
         /\ Kept(Transparent, d) = Transparent
BY StretchedFacts, Zenon DEF Kept

\* Rows are the truncated product of a depth and a scale, or one less.
LEMMA PixelsFacts ==
  ASSUME NEW depth \in Nat, NEW d \in BOOLEAN, NEW rows \in Pixels(depth, d)
  PROVE  Truncated(rows, depth, d)
<1>1. PICK product \in Nat : product = depth * Scale(d)
  <2>1. CASE d = TRUE
    BY <2>1, SMT DEF Scale
  <2>2. CASE d = FALSE
    BY <2>2, SMT DEF Scale
  <2>3. QED
    BY <2>1, <2>2
<1>2. Max({0, product - 1}) = IF product - 1 > 0 THEN product - 1 ELSE 0
  <2>1. \E x \in {0, product - 1} : \A y \in {0, product - 1} : x >= y
    <3>1. 0 >= 0 /\ product - 1 >= product - 1 /\ (product - 1 >= 0 \/ 0 >= product - 1)
      OBVIOUS
    <3>2. QED
      BY <3>1, Zenon
  <2>2. /\ Max({0, product - 1}) \in {0, product - 1}
        /\ \A y \in {0, product - 1} : Max({0, product - 1}) >= y
    BY <2>1, Zenon DEF Max
  <2>3. QED
    BY <2>2
<1>3. PICK less \in Nat : /\ less = Max({0, product - 1})
                          /\ less = IF product - 1 > 0 THEN product - 1 ELSE 0
  BY <1>2
<1>4. rows = product \div TwoMetres \/ rows = less \div TwoMetres
  BY <1>1, <1>3, Zenon DEF Pixels
<1>5. rows \in Nat /\ TwoMetres * rows <= product /\ product <= TwoMetres * rows + TwoMetres
  BY <1>3, <1>4, SMT DEF TwoMetres
<1>6. QED
  BY <1>1, <1>5, Zenon DEF Truncated

LEMMA RowType ==
  /\ \A y \in Nat : Up(y) \in Nat /\ Down(y) \in Nat
  /\ \A y, z \in Nat : y <= z => Up(y) <= Up(z) /\ Down(y) <= Down(z)
<1>1. ASSUME NEW y \in Nat
      PROVE  /\ Up(y) \in Nat /\ 7 * Up(y) <= 80 * y + 3 /\ 80 * y + 3 <= 7 * Up(y) + 6
             /\ Down(y) \in Nat /\ 3500 * Down(y) <= 306 * y + 1749
             /\ 306 * y + 1749 <= 3500 * Down(y) + 3499
  BY SMT DEF Up, Down, Height
<1>2. ASSUME NEW y \in Nat, NEW z \in Nat, y <= z
      PROVE  Up(y) <= Up(z) /\ Down(y) <= Down(z)
  <2>1. PICK a, b, e, f :
          a = Up(y) /\ b = Up(z) /\ e = Down(y) /\ f = Down(z)
    OBVIOUS
  <2>2. /\ a \in Nat /\ 7 * a <= 80 * y + 3
        /\ b \in Nat /\ 80 * z + 3 <= 7 * b + 6
        /\ e \in Nat /\ 3500 * e <= 306 * y + 1749
        /\ f \in Nat /\ 306 * z + 1749 <= 3500 * f + 3499
    BY <1>1, <2>1, SMT
  <2>3. a <= b /\ e <= f
    BY <1>2, <2>2, SMT
  <2>4. QED
    BY <2>1, <2>3
<1>3. QED
  BY <1>1, <1>2

LEMMA SampleType ==
  /\ MaxLength \in Nat /\ Height \in Nat
  /\ \A e : IsSample(e) => e.initPoint \in Nat /\ e.length \in Nat
<1>1. PICK m \in Nat : m = MaxLength
  BY SMT DEF MaxLength
<1>2. (\A x \in 0..m : x \in Nat) /\ (\A x \in 1..m : x \in Nat)
  OBVIOUS
<1>3. Height \in Nat
  BY SMT DEF Height
<1>4. QED
  BY <1>1, <1>2, <1>3, Zenon DEF IsSample

\* Making a row that is in view larger and then smaller gives it back.
LEMMA ThereAndBack ==
  ASSUME NEW y \in Nat, Up(y) <= Height
  PROVE  Down(Up(y)) = y
BY SMT DEF Up, Down, Height

\* A column drawn on the dynamic scale and made smaller.
LEMMA Smaller ==
  ASSUME NEW y \in Nat, NEW z \in 0..Height, NEW l \in Nat,
         Truncated(z - y, l, TRUE)
  PROVE  NearPlain(Down(z) - Down(y), l)
<1>1. PICK u \in Nat, v \in Nat : u = Down(y) /\ v = Down(z)
  <2>1. \A h \in Nat : \A x \in 0..h : x \in Nat
    OBVIOUS
  <2>2. z \in Nat
    BY <2>1, SampleType, Zenon
  <2>3. QED
    BY <2>2, RowType
<1>2. /\ 3500 * u <= 306 * y + 1749 /\ 306 * y + 1749 <= 3500 * u + 3499
      /\ 3500 * v <= 306 * z + 1749 /\ 306 * z + 1749 <= 3500 * v + 3499
  BY <1>1, SMT DEF Down, Height
<1>3. z - y <= 3500 /\ 2000 * (z - y) <= l * 400 /\ l * 400 <= 2000 * (z - y) + 2000
  BY SMT DEF Height, Truncated, Scale, TwoMetres
<1>4. 35 * l - 3000 <= 2000 * (v - u) /\ 2000 * (v - u) <= 35 * l + 3000
  BY <1>2, <1>3, SMT DEF Height
<1>5. NearPlain(v - u, l)
  BY <1>4, SMT DEF NearPlain, Scale, TwoMetres
<1>6. QED
  BY <1>1, <1>5, Zenon

LEMMA LessOfTwo ==
  ASSUME NEW a \in Int, NEW b \in Int
  PROVE  /\ Min({a, b}) \in Int
         /\ b <= a => Min({a, b}) = b
<1>1. \E x \in {a, b} : \A y \in {a, b} : x =< y
  <2>1. a =< a /\ b =< b /\ (a =< b \/ b =< a)
    OBVIOUS
  <2>2. QED
    BY <2>1, Zenon
<1>2. Min({a, b}) \in {a, b} /\ \A y \in {a, b} : Min({a, b}) =< y
  BY <1>1, Zenon DEF Min
<1>3. QED
  BY <1>2

\* A column that is redrawn keeps near the length of its sample or is cut.
LEMMA StretchedColumn ==
  ASSUME NEW c, c # Transparent, NEW d \in BOOLEAN, NEW e \in BOOLEAN, d = ~e,
         ColumnInv(c, e)
  PROVE  ColumnInv(Stretched(c, d), d)
<1> DEFINE row(y) == IF d THEN Up(y) ELSE Down(y)
           isCut == c.redrawn = "cut" \/ row(c.bottom) > Height
           r == Stretched(c, d)
<1>1. /\ r.top = Min({Height, row(c.top)}) /\ r.bottom = Min({Height, row(c.bottom)})
      /\ r.redrawn = IF isCut THEN "cut" ELSE "whole"
      /\ r.initPoint = c.initPoint /\ r.length = c.length
  <2>1. r = [number |-> c.number, initPoint |-> c.initPoint, length |-> c.length,
             top |-> Min({Height, row(c.top)}), bottom |-> Min({Height, row(c.bottom)}),
             redrawn |-> IF isCut THEN "cut" ELSE "whole"]
    BY Zenon DEF Stretched
  <2> HIDE DEF row, isCut, r
  <2>2. QED
    BY <2>1
<1>2. PICK y \in Nat, z \in Nat, l \in Nat :
        /\ y = c.top /\ z = c.bottom /\ z \in 0..Height /\ y <= z
        /\ l = c.length /\ l = r.length
  <2>1. \A h \in Nat : \A x \in 0..h : \A w \in 0..x : x \in Nat /\ w \in Nat /\ w <= x
    OBVIOUS
  <2>2. /\ c.bottom \in 0..Height /\ c.top \in 0..c.bottom
        /\ c.length \in Nat /\ c.length = r.length
    BY <1>1, SampleType, Zenon DEF ColumnInv
  <2>3. c.bottom \in Nat /\ c.top \in Nat /\ c.top <= c.bottom
    BY <2>1, <2>2, SampleType, Zenon
  <2>4. QED
    BY <2>2, <2>3, Zenon
<1>3. row(y) \in Nat /\ row(z) \in Nat /\ row(y) <= row(z)
  <2>1. /\ Up(y) \in Nat /\ Up(z) \in Nat /\ Up(y) <= Up(z)
        /\ Down(y) \in Nat /\ Down(z) \in Nat /\ Down(y) <= Down(z)
    BY <1>2, RowType, Zenon
  <2>2. QED
    BY <2>1, Zenon
<1>4. /\ r.bottom \in 0..Height /\ r.top \in 0..r.bottom
      /\ row(z) <= Height => r.top = row(y) /\ r.bottom = row(z)
  <2> HIDE DEF row, isCut, r
  <2>1. Height \in Nat
    BY SMT DEF Height
  <2>2. ASSUME NEW a \in Nat, NEW t, t = Min({Height, a})
        PROVE  t = IF a <= Height THEN a ELSE Height
    <3>1. PICK h \in Nat : h = Height
      BY <2>1
    <3>2. /\ Min({h, a}) \in Int /\ (a <= h => Min({h, a}) = a)
          /\ Min({a, h}) \in Int /\ (h <= a => Min({a, h}) = h) /\ {a, h} = {h, a}
      BY LessOfTwo
    <3>3. a <= h \/ h <= a
      OBVIOUS
    <3>4. t = IF a <= h THEN a ELSE h
      BY <2>2, <3>1, <3>2, <3>3, Zenon
    <3>5. QED
      BY <3>1, <3>4, Zenon
  <2>3. r.top = Min({Height, row(y)}) /\ r.bottom = Min({Height, row(z)})
    BY <1>1, <1>2, Zenon
  <2>4. PICK a \in Nat, b \in Nat : a = row(y) /\ b = row(z) /\ a <= b
    BY <1>3, Zenon
  <2>5. /\ r.top = IF a <= Height THEN a ELSE Height
        /\ r.bottom = IF b <= Height THEN b ELSE Height
    BY <2>2, <2>3, <2>4, Zenon
  <2>6. QED
    BY <2>1, <2>4, <2>5
<1>5. r.redrawn \in {"whole", "cut"} /\ (r.redrawn = "whole" => ~isCut)
  BY <1>1, Zenon
<1>6. IsSample(r)
  <2>1. IsSample(c) /\ r.initPoint = c.initPoint /\ r.length = c.length
    BY <1>1, Zenon DEF ColumnInv
  <2> HIDE DEF r
  <2>2. QED
    BY <2>1, Zenon DEF IsSample
<1>7. ASSUME r.redrawn = "whole"
      PROVE  /\ c.redrawn \in {"no", "whole"} /\ row(z) <= Height
             /\ r.top = row(y) /\ r.bottom = row(z)
  <2>1. c.redrawn # "cut" /\ ~(row(z) > Height)
    BY <1>2, <1>5, <1>7, Zenon
  <2>2. c.redrawn \in {"no", "whole", "cut"}
    BY Zenon DEF ColumnInv
  <2> HIDE DEF row, isCut, r
  <2>3. row(z) <= Height
    BY <1>3, <2>1, SMT DEF Height
  <2>4. QED
    BY <1>4, <2>1, <2>2, <2>3
<1>8. ASSUME r.redrawn = "whole", d PROVE /\ NearPlain(Down(r.bottom) - Down(r.top), r.length)
                                          /\ Up(Down(r.top)) = r.top /\ Up(Down(r.bottom)) = r.bottom
  <2>1. NearPlain(z - y, l)
    <3>1. CASE c.redrawn = "no"
      <4>1. Truncated(z - y, l, FALSE)
        BY <1>2, <1>8, <3>1, Zenon DEF ColumnInv
      <4>2. QED
        BY <4>1, SMT DEF Truncated, Scale, NearPlain, TwoMetres
    <3>2. CASE c.redrawn = "whole"
      BY <1>2, <1>8, <3>2, Zenon DEF ColumnInv
    <3>3. QED
      BY <1>7, <1>8, <3>1, <3>2, Zenon
  <2>2. r.top = Up(y) /\ r.bottom = Up(z) /\ Up(y) <= Up(z) /\ Up(z) <= Height
    BY <1>3, <1>7, <1>8, Zenon
  <2>3. Up(y) <= Height
    <3>1. \A p \in Nat, q \in Nat, h \in Nat : p <= q /\ q <= h => p <= h
      OBVIOUS
    <3>2. Height \in Nat
      BY SMT DEF Height
    <3>3. QED
      BY <2>2, <3>1, <3>2, RowType, Zenon
  <2>4. Down(r.top) = y /\ Down(r.bottom) = z
    BY <2>2, <2>3, ThereAndBack, Zenon
  <2>5. QED
    BY <1>2, <2>1, <2>2, <2>4, Zenon
<1>9. ASSUME r.redrawn = "whole", ~d PROVE NearPlain(r.bottom - r.top, r.length)
  <2>1. r.top = Down(y) /\ r.bottom = Down(z)
    BY <1>7, <1>9, Zenon
  <2>2. NearPlain(Down(z) - Down(y), l)
    <3>1. CASE c.redrawn = "no"
      <4>1. Truncated(z - y, l, TRUE)
        BY <1>2, <1>9, <3>1, Zenon DEF ColumnInv
      <4>2. QED
        BY <1>2, <4>1, Smaller, Zenon
    <3>2. CASE c.redrawn = "whole"
      BY <1>2, <1>9, <3>2, Zenon DEF ColumnInv
    <3>3. QED
      BY <1>7, <1>9, <3>1, <3>2, Zenon
  <2>3. QED
    BY <1>2, <2>1, <2>2, Zenon
<1>10. QED
  BY <1>4, <1>5, <1>6, <1>8, <1>9, Zenon DEF ColumnInv

LEMMA KeptColumn ==
  ASSUME NEW c, c # Transparent, NEW d \in BOOLEAN, dynamic \in BOOLEAN,
         ColumnInv(c, dynamic)
  PROVE  ColumnInv(Kept(c, d), d)
<1>1. CASE d = dynamic
  BY <1>1, Zenon DEF Kept
<1>2. CASE d # dynamic
  <2>1. d = ~dynamic
    BY <1>2, Zenon
  <2>2. QED
    BY <1>2, <2>1, StretchedColumn, Zenon DEF Kept
<1>3. QED
  BY <1>1, <1>2, Zenon

-----------------------------------------------------------------------------
\* What a sample does, with d for the scale it is drawn on.

Fits(v, h) == v + h <= Height
At         == IF drawIndex >= Width THEN DisplayWidth ELSE drawIndex
Base(d)    == IF drawIndex >= Width THEN TailToHead(RedrawImage(d)) ELSE RedrawImage(d)
Entry(s, n)       == [number |-> n, initPoint |-> s.initPoint, length |-> s.length]
ColumnOf(s, n, v, h) == [number |-> n, initPoint |-> s.initPoint, length |-> s.length,
                         top |-> v, bottom |-> v + h, redrawn |-> "no"]
WithColumn(d, column) == [Base(d) EXCEPT ![At] = column]

\* The rows v and h of a sample and those in view.
RowsOf(s, v, h) ==
  /\ v \in Pixels(s.initPoint, FALSE) /\ h \in Pixels(s.length, dynamic')
  /\ minPixel' \in Pixels(MinDepth(ring'), FALSE)
  /\ maxPixel' \in Pixels(MaxDepth(ring') - MinDepth(ring'), dynamic')

LEMMA DrawIs ==
  ASSUME NEW s, Sample(s)
  PROVE  /\ dynamic' \in BOOLEAN
         /\ ringIndex' = (ringIndex + 1) % DisplayWidth
         /\ \E v, h :
              /\ RowsOf(s, v, h)
              /\ \/ /\ Fits(v, h) /\ ring' = Appended(Entry(s, NextNumber))
                    /\ image' = WithColumn(dynamic', ColumnOf(s, NextNumber, v, h))
                    /\ drawIndex' = At + 1
                    /\ shown' = Trim(shown, NextNumber, DisplayWidth)
                 \/ /\ ~Fits(v, h) /\ ring' = Appended(Entry(s, 0))
                    /\ image' = Base(dynamic')
                    /\ drawIndex' = At
                    /\ UNCHANGED shown
<1>1. dynamic' \in BOOLEAN
  <2>1. PICK p, q : dynamic' = (p < q)
    BY Zenon DEF Sample
  <2>2. QED
    BY <2>1
<1>2. PICK v \in Pixels(s.initPoint, FALSE), h \in Pixels(s.length, dynamic') : Draw(s, v, h)
  BY Zenon DEF Sample
<1>3. ringIndex' = (ringIndex + 1) % DisplayWidth /\ RowsOf(s, v, h)
  BY <1>2, Zenon DEF Draw, RowsOf
<1>4. CASE Fits(v, h)
  <2>1. /\ ring' = Appended(Entry(s, NextNumber))
        /\ image' = WithColumn(dynamic', ColumnOf(s, NextNumber, v, h))
        /\ drawIndex' = At + 1
        /\ shown' = Trim(shown, NextNumber, DisplayWidth)
    BY <1>2, <1>4, Zenon DEF Draw, Fits, Entry, Base, At, ColumnOf, WithColumn, Trim
  <2>2. QED
    BY <1>1, <1>3, <1>4, <2>1, Zenon
<1>5. CASE ~Fits(v, h)
  <2>1. /\ ring' = Appended(Entry(s, 0)) /\ image' = Base(dynamic')
        /\ drawIndex' = At /\ UNCHANGED shown
    BY <1>2, <1>5, Zenon DEF Draw, Fits, Entry, Base, At
  <2>2. QED
    BY <1>1, <1>3, <1>5, <2>1, Zenon
<1>6. QED
  BY <1>4, <1>5, Zenon

\* The image before the new column: what is in view stays in view, and nothing
\* stands where the next columns are drawn.
LEMMA BaseFacts ==
  ASSUME LatestInOrder, DOMAIN image = 0..(Width - 1), NEW d
  PROVE  /\ At \in Int /\ DisplayWidth <= At /\ At <= Width - 1
         /\ DOMAIN Base(d) = 0..(Width - 1)
         /\ \A k \in View : Base(d)[At - k] = Kept(Shown(k), d)
         /\ \A x \in At..(Width - 1) : Base(d)[x] = Transparent
<1> DEFINE i == RedrawImage(d)
<1>0. /\ drawIndex \in DisplayWidth..Width
      /\ \A x \in drawIndex..(Width - 1) : image[x] = Transparent
  BY Zenon DEF LatestInOrder
<1>1. DOMAIN i = 0..(Width - 1) /\ \A x \in 0..(Width - 1) : i[x] = Kept(image[x], d)
  <2>1. CASE d = dynamic
    BY <2>1, Zenon DEF RedrawImage, Kept
  <2>2. CASE d # dynamic
    <3>1. i = [x \in 0..(Width - 1) |-> Stretched(image[x], d)]
      BY <2>2, Zenon DEF RedrawImage
    <3>2. QED
      BY <2>2, <3>1, Zenon DEF Kept
  <2>3. QED
    BY <2>1, <2>2, Zenon
<1> HIDE DEF i
<1>2. CASE drawIndex >= Width
  <2>1. drawIndex = Width /\ At = DisplayWidth
    BY <1>0, <1>2, WidthFacts DEF At
  <2>2. Base(d) = [x \in 0..(Width - 1) |-> IF x < DisplayWidth THEN i[Width - DisplayWidth + x]
                                            ELSE Transparent]
    BY <1>1, <1>2, Zenon DEF Base, TailToHead, i
  <2>3. ASSUME NEW k \in View PROVE Base(d)[At - k] = Kept(Shown(k), d)
    <3>1. /\ DisplayWidth - k \in 0..(Width - 1) /\ DisplayWidth - k < DisplayWidth
          /\ Width - DisplayWidth + (DisplayWidth - k) = Width - k
          /\ Width - k \in 0..(Width - 1)
      BY WidthFacts DEF View
    <3>2. Base(d)[DisplayWidth - k] = i[Width - k]
      BY <2>2, <3>1
    <3>3. i[Width - k] = Kept(image[Width - k], d)
      BY <1>1, <3>1, Zenon
    <3>4. QED
      BY <2>1, <3>2, <3>3, Zenon DEF Shown
  <2>4. ASSUME NEW x \in At..(Width - 1) PROVE Base(d)[x] = Transparent
    <3>1. x \in 0..(Width - 1) /\ ~(x < DisplayWidth)
      BY <2>1, WidthFacts
    <3>2. QED
      BY <2>2, <3>1, Zenon
  <2>5. At \in Int /\ DisplayWidth <= At /\ At <= Width - 1
    BY <2>1, WidthFacts
  <2>6. DOMAIN Base(d) = 0..(Width - 1)
    BY <2>2, Zenon
  <2>7. QED
    BY <2>3, <2>4, <2>5, <2>6, Zenon
<1>3. CASE ~(drawIndex >= Width)
  <2>1. At = drawIndex /\ DisplayWidth <= At /\ At <= Width - 1 /\ At \in Int
    BY <1>0, <1>3, WidthFacts DEF At
  <2>2. Base(d) = i
    BY <1>3, Zenon DEF Base, i
  <2>3. ASSUME NEW k \in View PROVE Base(d)[At - k] = Kept(Shown(k), d)
    <3>1. At - k \in 0..(Width - 1)
      BY <2>1, WidthFacts DEF View
    <3>2. QED
      BY <1>1, <2>1, <2>2, <3>1, Zenon DEF Shown
  <2>4. ASSUME NEW x \in At..(Width - 1) PROVE Base(d)[x] = Transparent
    <3>1. x \in 0..(Width - 1) /\ x \in drawIndex..(Width - 1)
      BY <2>1, WidthFacts
    <3>2. QED
      BY <1>0, <1>1, <2>2, <3>1, KeptFacts, Zenon
  <2>5. QED
    BY <1>1, <2>1, <2>2, <2>3, <2>4, Zenon
<1>4. QED
  BY <1>2, <1>3, Zenon

\* The columns in view after a sample that is drawn: the new one is the first,
\* the others are one place further.
LEMMA DrawnImage ==
  ASSUME LatestInOrder, DOMAIN image = 0..(Width - 1), NEW d, NEW column,
         NEW i, i = WithColumn(d, column)
  PROVE  /\ At + 1 \in DisplayWidth..Width
         /\ DOMAIN i = 0..(Width - 1)
         /\ i[At] = column
         /\ \A k \in 1..(DisplayWidth - 1) : i[At - k] = Kept(Shown(k), d)
         /\ \A x \in (At + 1)..(Width - 1) : i[x] = Transparent
<1>1. /\ At \in Int /\ DisplayWidth <= At /\ At <= Width - 1
      /\ DOMAIN Base(d) = 0..(Width - 1)
      /\ \A k \in View : Base(d)[At - k] = Kept(Shown(k), d)
      /\ \A x \in At..(Width - 1) : Base(d)[x] = Transparent
  BY BaseFacts, Zenon
<1>2. i = [x \in 0..(Width - 1) |-> IF x = At THEN column ELSE Base(d)[x]]
  BY <1>1 DEF WithColumn
<1>3. At + 1 \in DisplayWidth..Width /\ At \in 0..(Width - 1)
  BY <1>1, WidthFacts
<1>4. ASSUME NEW k \in 1..(DisplayWidth - 1) PROVE i[At - k] = Kept(Shown(k), d)
  <2>1. k \in View /\ At - k \in 0..(Width - 1) /\ At - k # At
    BY <1>1, WidthFacts DEF View
  <2>2. QED
    BY <1>1, <1>2, <2>1, Zenon
<1>5. ASSUME NEW x \in (At + 1)..(Width - 1) PROVE i[x] = Transparent
  <2>1. x \in At..(Width - 1) /\ x \in 0..(Width - 1) /\ x # At
    BY <1>1, WidthFacts
  <2>2. QED
    BY <1>1, <1>2, <2>1, Zenon
<1>6. QED
  BY <1>2, <1>3, <1>4, <1>5, Zenon

\* LatestInOrder for given values of the variables.
Latest(i, at, seq) ==
  /\ at \in DisplayWidth..Width
  /\ \A k \in View : IF k <= Len(seq) THEN i[at - k].number = seq[Len(seq) - k + 1]
                     ELSE i[at - k] = Transparent
  /\ \A x \in at..(Width - 1) : i[x] = Transparent

LEMMA LatestDrawn ==
  ASSUME LatestInOrder, DOMAIN image = 0..(Width - 1), ShownInv, NEW d, NEW column,
         column.number = NextNumber,
         NEW i, i = WithColumn(d, column),
         NEW t, Len(t) \in Nat, 1 <= Len(t), Len(t) <= DisplayWidth, Len(t) <= Len(shown) + 1,
         Len(t) = DisplayWidth \/ Len(t) = Len(shown) + 1,
         t[Len(t)] = NextNumber,
         \A k \in Int : 1 <= k /\ k <= Len(t) - 1 => t[Len(t) - k] = shown[Len(shown) - k + 1]
  PROVE  Latest(i, At + 1, t)
<1>1. /\ At + 1 \in DisplayWidth..Width /\ i[At] = column
      /\ \A k \in 1..(DisplayWidth - 1) : i[At - k] = Kept(Shown(k), d)
      /\ \A x \in (At + 1)..(Width - 1) : i[x] = Transparent
  <2>1. \A j : j = WithColumn(d, column) =>
          /\ At + 1 \in DisplayWidth..Width /\ j[At] = column
          /\ \A k \in 1..(DisplayWidth - 1) : j[At - k] = Kept(Shown(k), d)
          /\ \A x \in (At + 1)..(Width - 1) : j[x] = Transparent
    BY DrawnImage
  <2>2. QED
    BY <2>1, Zenon
<1>2. PICK m \in Nat, n \in Nat : /\ m = Len(t) /\ n = Len(shown)
                                  /\ m <= n + 1 /\ (m = DisplayWidth \/ m = n + 1)
  BY NumberFacts
<1>3. At \in Int
  BY BaseFacts, Zenon
<1>4. ASSUME NEW k \in View
      PROVE  IF k <= Len(t) THEN i[(At + 1) - k].number = t[Len(t) - k + 1]
             ELSE i[(At + 1) - k] = Transparent
  <2>1. CASE k = 1
    <3>1. (At + 1) - k = At /\ m - k + 1 = m /\ k <= m
      BY <1>2, <1>3, <2>1
    <3>2. QED
      BY <1>1, <1>2, <3>1, Zenon
  <2>2. CASE k # 1
    <3>1. PICK j \in 1..(DisplayWidth - 1) : j = k - 1
      BY <2>2, WidthFacts DEF View
    <3>2. (At + 1) - k = At - j /\ m - k + 1 = m - j /\ j \in View /\ j \in Int /\ 1 <= j
      BY <1>2, <1>3, <3>1, WidthFacts DEF View
    <3>3. i[(At + 1) - k] = Kept(Shown(j), d)
      BY <1>1, <3>2, Zenon
    <3>4. CASE k <= m
      <4>1. j <= m - 1 /\ j <= n
        BY <1>2, <3>1, <3>4, WidthFacts DEF View
      <4>2. t[m - j] = shown[n - j + 1]
        BY <1>2, <3>2, <4>1, Zenon
      <4>3. Shown(j).number = shown[n - j + 1]
        BY <1>2, <3>2, <4>1, Zenon DEF LatestInOrder
      <4>4. i[(At + 1) - k].number = t[m - k + 1]
        <5>1. Kept(Shown(j), d).number = Shown(j).number
          BY KeptFacts, Zenon
        <5>2. QED
          BY <3>2, <3>3, <4>2, <4>3, <5>1, Zenon
      <4>5. QED
        BY <1>2, <3>4, <4>4, Zenon
    <3>5. CASE ~(k <= m)
      <4>1. ~(j <= n)
        BY <1>2, <3>1, <3>5, WidthFacts DEF View
      <4>2. Shown(j) = Transparent
        BY <1>2, <3>2, <4>1, Zenon DEF LatestInOrder
      <4>3. i[(At + 1) - k] = Transparent
        BY <3>3, <4>2, KeptFacts, Zenon
      <4>4. QED
        BY <1>2, <3>5, <4>3, Zenon
    <3>6. QED
      BY <3>4, <3>5, Zenon
  <2>3. QED
    BY <2>1, <2>2, Zenon
<1>5. QED
  BY <1>1, <1>4, Zenon DEF Latest

LEMMA LatestRefused ==
  ASSUME LatestInOrder, DOMAIN image = 0..(Width - 1), NEW d
  PROVE  Latest(Base(d), At, shown)
<1>1. /\ At \in Int /\ DisplayWidth <= At /\ At <= Width - 1
      /\ \A k \in View : Base(d)[At - k] = Kept(Shown(k), d)
      /\ \A x \in At..(Width - 1) : Base(d)[x] = Transparent
  BY BaseFacts, Zenon
<1>2. At \in DisplayWidth..Width
  BY <1>1, WidthFacts
<1>3. ASSUME NEW k \in View
      PROVE  IF k <= Len(shown) THEN Base(d)[At - k].number = shown[Len(shown) - k + 1]
             ELSE Base(d)[At - k] = Transparent
  <2>1. Base(d)[At - k] = Kept(Shown(k), d)
    BY <1>1, Zenon
  <2>2. /\ Kept(Shown(k), d).number = Shown(k).number
        /\ Kept(Transparent, d) = Transparent
    BY KeptFacts, Zenon
  <2>3. IF k <= Len(shown) THEN Shown(k).number = shown[Len(shown) - k + 1]
        ELSE Shown(k) = Transparent
    BY Zenon DEF LatestInOrder
  <2>4. CASE k <= Len(shown)
    BY <2>1, <2>2, <2>3, <2>4, Zenon
  <2>5. CASE ~(k <= Len(shown))
    BY <2>1, <2>2, <2>3, <2>5, Zenon
  <2>6. QED
    BY <2>4, <2>5, Zenon
<1>4. QED
  BY <1>1, <1>2, <1>3, Zenon DEF Latest

\* The new column is as high as its sample is long.
LEMMA ColumnFacts ==
  ASSUME NEW s \in Samples, NEW n, NEW d \in BOOLEAN,
         NEW v \in Pixels(s.initPoint, FALSE), NEW h \in Pixels(s.length, d), Fits(v, h)
  PROVE  /\ ColumnInv(ColumnOf(s, n, v, h), d)
         /\ ColumnOf(s, n, v, h).number = n
         /\ ColumnOf(s, n, v, h).initPoint = Entry(s, n).initPoint
         /\ ColumnOf(s, n, v, h).length = Entry(s, n).length
<1> DEFINE c == ColumnOf(s, n, v, h)
<1>1. /\ c.number = n /\ c.initPoint = s.initPoint /\ c.length = s.length
      /\ c.top = v /\ c.bottom = v + h /\ c.redrawn = "no"
      /\ Entry(s, n).initPoint = s.initPoint /\ Entry(s, n).length = s.length
  <2>1. c = [number |-> n, initPoint |-> s.initPoint, length |-> s.length,
             top |-> v, bottom |-> v + h, redrawn |-> "no"]
    BY Zenon DEF ColumnOf
  <2> HIDE DEF c
  <2>2. QED
    BY <2>1 DEF Entry
<1>2. IsSample(s) /\ s.initPoint \in Nat /\ s.length \in Nat
  BY WaterfallAssumption, SampleType, Zenon
<1>3. Truncated(v, s.initPoint, FALSE) /\ Truncated(h, s.length, d)
  BY <1>2, PixelsFacts, Zenon
<1>4. v \in Nat /\ h \in Nat
  BY <1>3, Zenon DEF Truncated
<1> HIDE DEF c
<1>5. c.bottom \in 0..Height /\ c.top \in 0..c.bottom /\ c.bottom - c.top = h
  <2>1. \A x, y \in Nat : x + y <= Height =>
          x + y \in 0..Height /\ x \in 0..(x + y) /\ (x + y) - x = y
    BY SMT DEF Height
  <2>2. v + h <= Height
    BY DEF Fits
  <2>3. v + h \in 0..Height /\ v \in 0..(v + h) /\ (v + h) - v = h
    BY <1>4, <2>1, <2>2, Zenon
  <2>4. QED
    BY <1>1, <2>3, Zenon
<1>6. IsSample(c)
  BY <1>1, <1>2, Zenon DEF IsSample
<1>7. c.redrawn \in {"no", "whole", "cut"} /\ c.redrawn # "whole"
  BY <1>1
<1>8. ColumnInv(c, d)
  BY <1>1, <1>3, <1>5, <1>6, <1>7, Zenon DEF ColumnInv
<1>9. QED
  BY <1>1, <1>8, Zenon DEF c

LEMMA EntryFacts ==
  ASSUME NEW s \in Samples, NEW n
  PROVE  IsSample(Entry(s, n)) /\ Entry(s, n).number = n
<1>1. /\ Entry(s, n).number = n /\ Entry(s, n).initPoint = s.initPoint
      /\ Entry(s, n).length = s.length
  BY DEF Entry
<1>2. QED
  BY <1>1, WaterfallAssumption, Zenon DEF IsSample

LEMMA NumberedColumn ==
  ASSUME LatestInOrder, ShownInv, NEW k \in 1..Len(shown)
  PROVE  k \in View /\ Shown(k) # Transparent /\ Shown(k).number = shown[Len(shown) - k + 1]
<1>1. k \in View
  BY NumberFacts, WidthFacts DEF View, ShownInv
<1>2. k <= Len(shown) /\ Len(shown) - k + 1 \in 1..Len(shown)
  BY NumberFacts
<1>3. Shown(k).number = shown[Len(shown) - k + 1]
  BY <1>1, <1>2, Zenon DEF LatestInOrder
<1>4. shown[Len(shown) - k + 1] \in 1..(Width + 1)
  BY <1>2, ElementOfSeq DEF ShownInv
<1>5. shown[Len(shown) - k + 1] # 0
  BY <1>4, WidthFacts
<1>6. Transparent.number = 0
  BY DEF Transparent
<1>7. QED
  BY <1>1, <1>3, <1>5, <1>6, Zenon

\* The columns that stay in view, on the scale d.
LEMMA KeptColumns ==
  ASSUME LatestInOrder, ShownInv, ImageInv, dynamic \in BOOLEAN, NEW d \in BOOLEAN,
         NEW k \in 1..Len(shown)
  PROVE  ColumnInv(Kept(Shown(k), d), d)
<1>1. Shown(k) # Transparent /\ ColumnInv(Shown(k), dynamic)
  BY NumberedColumn, Zenon DEF ImageInv
<1>2. QED
  BY <1>1, KeptColumn, Zenon

-----------------------------------------------------------------------------
\* The ring.

LEMMA AgeFacts ==
  ASSUME NEW x \in 0..(DisplayWidth - 1), NEW r \in 0..(DisplayWidth - 1), ringIndex = r,
         ringIndex' = (ringIndex + 1) % DisplayWidth
  PROVE  /\ ringIndex' \in 0..(DisplayWidth - 1)
         /\ x = ringIndex' => Age(x)' = 0
         /\ x # ringIndex' => Age(x) \in Nat /\ Age(x)' = Age(x) + 1 /\ Age(x)' <= DisplayWidth - 1
<1>1. (r + 1) % DisplayWidth = IF r + 1 = DisplayWidth THEN 0 ELSE r + 1
  BY NextFacts, Zenon
<1>2. ringIndex' = IF r + 1 = DisplayWidth THEN 0 ELSE r + 1
  BY <1>1, Zenon
<1>3. QED
  BY <1>2, WidthFacts DEF Age

\* A sample that enters the ring; those in view moved by so many places.
LEMMA RingStep ==
  ASSUME RingInv, NEW e, IsSample(e), ring' = Appended(e),
         ringIndex' = (ringIndex + 1) % DisplayWidth,
         Len(shown) \in Nat, Len(shown') \in Nat,
         NEW moved \in 0..1,
         \A k \in 1..Len(shown) : k + moved <= DisplayWidth =>
            /\ k + moved <= Len(shown')
            /\ Shown(k + moved)'.number = Shown(k).number
            /\ Shown(k + moved)'.initPoint = Shown(k).initPoint
            /\ Shown(k + moved)'.length = Shown(k).length,
         e.number # 0 => 1 <= Len(shown') /\ InView(e, 1)'
  PROVE  RingInv'
<1>1. /\ DOMAIN ring = 0..(DisplayWidth - 1) /\ ringIndex \in 0..(DisplayWidth - 1)
      /\ \A x \in 0..(DisplayWidth - 1) :
           /\ IsSample(ring[x]) \/ ring[x] = Filler
           /\ ring[x].number # 0 =>
                \E k \in 1..Len(shown) : k <= Age(x) + 1 /\ InView(ring[x], k)
  BY Zenon DEF RingInv
<1>2. PICK r \in 0..(DisplayWidth - 1) : r = ringIndex
  BY <1>1, Zenon
<1>3. ringIndex' \in 0..(DisplayWidth - 1)
  BY <1>2, AgeFacts
<1>4. ring' = [x \in 0..(DisplayWidth - 1) |-> IF x = ringIndex' THEN e ELSE ring[x]]
  BY <1>1 DEF Appended
<1>5. ASSUME NEW x \in 0..(DisplayWidth - 1)
      PROVE  /\ IsSample(ring'[x]) \/ ring'[x] = Filler
             /\ ring'[x].number # 0 =>
                  \E k \in 1..Len(shown') : k <= Age(x)' + 1 /\ InView(ring[x], k)'
  <2>1. CASE x = ringIndex'
    <3>1. ring'[x] = e
      BY <1>4, <2>1, Zenon
    <3>2. Age(x)' = 0
      BY <1>2, <2>1, AgeFacts
    <3>3. ASSUME e.number # 0
          PROVE  \E k \in 1..Len(shown') : k <= Age(x)' + 1 /\ InView(e, k)'
      <4>1. 1 \in 1..Len(shown') /\ 1 <= Age(x)' + 1 /\ InView(e, 1)'
        BY <3>2, <3>3
      <4>2. QED
        BY <4>1, Zenon
    <3>4. \A k : InView(e, k)' => InView(ring[x], k)'
      BY <3>1, Zenon DEF InView
    <3>5. QED
      BY <3>1, <3>3, <3>4, Zenon
  <2>2. CASE x # ringIndex'
    <3>1. ring'[x] = ring[x]
      BY <1>4, <2>2, Zenon
    <3>2. Age(x) \in Nat /\ Age(x)' = Age(x) + 1 /\ Age(x)' <= DisplayWidth - 1
      BY <1>2, <2>2, AgeFacts
    <3>3. ASSUME ring[x].number # 0
          PROVE  \E k \in 1..Len(shown') : k <= Age(x)' + 1 /\ InView(ring[x], k)'
      <4>1. PICK k \in 1..Len(shown) : k <= Age(x) + 1 /\ InView(ring[x], k)
        BY <1>1, <3>3, Zenon
      <4>2. k + moved \in Nat /\ 1 <= k + moved /\ k + moved <= Age(x)' + 1 /\ k + moved <= DisplayWidth
        BY <3>2, <4>1, WidthFacts
      <4>3. /\ k + moved <= Len(shown')
            /\ Shown(k + moved)'.number = Shown(k).number
            /\ Shown(k + moved)'.initPoint = Shown(k).initPoint
            /\ Shown(k + moved)'.length = Shown(k).length
        BY <4>2, Zenon
      <4>4. InView(ring[x], k + moved)'
        BY <3>1, <4>1, <4>3, Zenon DEF InView
      <4>5. k + moved \in 1..Len(shown')
        BY <4>2, <4>3
      <4>6. QED
        BY <4>2, <4>4, <4>5, Zenon
    <3>4. QED
      BY <1>1, <3>1, <3>3, Zenon
  <2>3. QED
    BY <2>1, <2>2, Zenon
<1>6. DOMAIN ring' = 0..(DisplayWidth - 1)
  BY <1>4, Zenon
<1>7. QED
  BY <1>3, <1>5, <1>6, Zenon DEF RingInv

-----------------------------------------------------------------------------
\* The rows in view.

\* Where a sample ends, in a bounded number of millimetres.
LEMMA SampleEnds ==
  \E b \in Nat : \A f : IsSample(f) =>
     f.initPoint \in Nat /\ f.length \in Nat /\ f.initPoint + f.length \in 0..b
<1>1. PICK m \in Nat : m = MaxLength
  BY SMT DEF MaxLength
<1>2. \A x \in 0..m, y \in 1..m : x \in Nat /\ y \in Nat /\ x + y \in 0..(m + m)
  OBVIOUS
<1>3. m + m \in Nat
  OBVIOUS
<1>4. QED
  BY <1>1, <1>2, <1>3, Zenon DEF IsSample

\* The least and the greatest depth of the ring, and what lies between them.
LEMMA DepthFacts ==
  ASSUME NEW r, \A x \in 0..(DisplayWidth - 1) : IsSample(r[x]) \/ r[x] = Filler,
         NEW e \in Entries(r), IsSample(e)
  PROVE  /\ MinDepth(r) \in Nat /\ MinDepth(r) <= e.initPoint
         /\ MaxDepth(r) \in Nat /\ e.initPoint + e.length <= MaxDepth(r)
<1> DEFINE Tops    == {f.initPoint : f \in Entries(r)}
           Seen    == {f \in Entries(r) : f.initPoint # Filler.initPoint}
           Bottoms == {0} \cup {f.initPoint + f.length : f \in Seen}
<1>0. PICK b \in Nat : \A f : IsSample(f) =>
         f.initPoint \in Nat /\ f.length \in Nat /\ f.initPoint + f.length \in 0..b
  BY SampleEnds
<1>1. \A f \in Entries(r) : IsSample(f) \/ f = Filler
  BY Zenon DEF Entries
<1>2. Filler.initPoint \in Nat /\ ~(Filler.initPoint \in 0..MaxLength)
  BY SMT DEF Filler, Height, MaxLength
<1>3. \A f : IsSample(f) => f.initPoint # Filler.initPoint
  BY <1>2, Zenon DEF IsSample
<1>4. /\ MinDepth(r) \in Nat /\ MinDepth(r) <= e.initPoint
  <2>1. Tops \in SUBSET Nat /\ Tops # {} /\ e.initPoint \in Tops
    BY <1>0, <1>1, <1>2, Zenon
  <2>2. PICK m : m = Min(Tops) /\ m = MinDepth(r)
    BY Zenon DEF MinDepth
  <2>3. m \in Tops /\ m <= e.initPoint
    BY <2>1, <2>2, MinFacts, Zenon
  <2>4. QED
    BY <2>1, <2>2, <2>3, Zenon
<1>5. /\ MaxDepth(r) \in Nat /\ e.initPoint + e.length <= MaxDepth(r)
  <2>1. e.initPoint + e.length \in Bottoms
    BY <1>3, Zenon
  <2>2. 0 \in 0..b
    BY SMT
  <2>3. Bottoms \in SUBSET (0..b) /\ Bottoms # {}
    BY <1>0, <1>1, <2>2, Zenon
  <2>4. PICK m : m = Max(Bottoms) /\ m = MaxDepth(r)
    BY Zenon DEF MaxDepth
  <2>5. m \in Bottoms /\ e.initPoint + e.length <= m
    <3> HIDE DEF Bottoms
    <3>1. Max(Bottoms) \in Bottoms /\ \A y \in Bottoms : y <= Max(Bottoms)
      BY <2>3, MaxFacts, Zenon
    <3>2. QED
      BY <2>1, <2>4, <3>1, Zenon
  <2>6. m \in 0..b
    BY <2>3, <2>5, Zenon
  <2>7. m \in Nat
    BY SMT, <2>6
  <2>8. QED
    BY <2>4, <2>5, <2>7, Zenon
<1>6. QED
  BY <1>4, <1>5

\* The rows in view after a sample.
LEMMA RowsStep ==
  ASSUME RingInv', dynamic' \in BOOLEAN,
         minPixel' \in Pixels(MinDepth(ring'), FALSE),
         maxPixel' \in Pixels(MaxDepth(ring') - MinDepth(ring'), dynamic')
  PROVE  RowsInv'
<1>1. CASE \A x \in 0..(DisplayWidth - 1) : ring'[x].number = 0
  BY <1>1, Zenon DEF RowsInv
<1>2. ASSUME NEW x \in 0..(DisplayWidth - 1), ring'[x].number # 0 PROVE RowsInv'
  <2>1. Filler.number = 0
    BY DEF Filler
  <2>2. PICK r : r = ring' /\ \A y \in 0..(DisplayWidth - 1) : IsSample(r[y]) \/ r[y] = Filler
    BY Zenon DEF RingInv, IsSample
  <2>3. PICK e : e = r[x] /\ IsSample(e) /\ e \in Entries(r)
    BY <1>2, <2>1, <2>2, Zenon DEF Entries
  <2>4. /\ MinDepth(r) \in Nat /\ MinDepth(r) <= e.initPoint
        /\ MaxDepth(r) \in Nat /\ e.initPoint + e.length <= MaxDepth(r)
    BY <2>2, <2>3, DepthFacts, Zenon
  <2>5. e.initPoint \in Nat /\ e.length \in Nat
    BY <2>3, SampleType, Zenon
  <2>6. MaxDepth(r) - MinDepth(r) \in Nat
    BY <2>4, <2>5
  <2>7. /\ Truncated(minPixel', MinDepth(r), FALSE)
        /\ Truncated(maxPixel', MaxDepth(r) - MinDepth(r), dynamic')
    BY <2>2, <2>4, <2>6, PixelsFacts, Zenon
  <2>8. QED
    BY <2>2, <2>7, ZenonT(30) DEF RowsInv, Truncated, Scale, MinDepth, MaxDepth, Entries
<1>3. QED
  BY <1>1, <1>2, Zenon

-----------------------------------------------------------------------------
\* Every step keeps the invariant.

\* A sample that is drawn.
LEMMA DrawnStep ==
  ASSUME Inv, NEW s \in Samples, dynamic' \in BOOLEAN,
         NEW v \in Pixels(s.initPoint, FALSE), NEW h \in Pixels(s.length, dynamic'),
         Fits(v, h),
         ring' = Appended(Entry(s, NextNumber)),
         ringIndex' = (ringIndex + 1) % DisplayWidth,
         image' = WithColumn(dynamic', ColumnOf(s, NextNumber, v, h)),
         drawIndex' = At + 1,
         shown' = Trim(shown, NextNumber, DisplayWidth)
  PROVE  LatestInOrder' /\ ShownInv' /\ ImageInv' /\ RingInv'
<1> DEFINE column == ColumnOf(s, NextNumber, v, h)
<1>0. /\ LatestInOrder /\ ShownInv /\ ImageInv /\ RingInv /\ dynamic \in BOOLEAN
      /\ DOMAIN image = 0..(Width - 1)
  BY Zenon DEF Inv, ImageInv
<1>1. /\ ShownInv'
      /\ Len(shown') \in Nat /\ Len(shown) \in Nat
      /\ 1 <= Len(shown') /\ Len(shown') <= DisplayWidth
      /\ Len(shown') <= Len(shown) + 1
      /\ Len(shown') = DisplayWidth \/ Len(shown') = Len(shown) + 1
      /\ shown'[Len(shown')] = NextNumber
      /\ \A k \in Int : 1 <= k /\ k <= Len(shown') - 1 =>
           shown'[Len(shown') - k] = shown[Len(shown) - k + 1]
  BY <1>0, ShownFacts
<1>a. PICK m \in Nat, n \in Nat :
        /\ m = Len(shown') /\ n = Len(shown) /\ 1 <= m /\ m <= DisplayWidth
        /\ m <= n + 1 /\ (m = DisplayWidth \/ m = n + 1)
  BY <1>1, Zenon
<1>2. /\ ColumnInv(column, dynamic') /\ IsSample(Entry(s, NextNumber))
      /\ column.number = NextNumber /\ Entry(s, NextNumber).number = NextNumber
      /\ column.initPoint = Entry(s, NextNumber).initPoint
      /\ column.length = Entry(s, NextNumber).length
  <2>1. \A d \in BOOLEAN : h \in Pixels(s.length, d) =>
          /\ ColumnInv(column, d) /\ column.number = NextNumber
          /\ column.initPoint = Entry(s, NextNumber).initPoint
          /\ column.length = Entry(s, NextNumber).length
    BY ColumnFacts, ZenonT(30)
  <2>2. QED
    BY <2>1, EntryFacts, Zenon
<1> HIDE DEF column
<1>3. image' = WithColumn(dynamic', column)
  BY Zenon DEF column
<1>4. /\ DOMAIN image' = 0..(Width - 1) /\ image'[At] = column
      /\ \A k \in 1..(DisplayWidth - 1) : image'[At - k] = Kept(Shown(k), dynamic')
  <2>1. \A j : j = WithColumn(dynamic', column) =>
          /\ DOMAIN j = 0..(Width - 1) /\ j[At] = column
          /\ \A k \in 1..(DisplayWidth - 1) : j[At - k] = Kept(Shown(k), dynamic')
    BY <1>0, DrawnImage
  <2>2. QED
    BY <1>3, <2>1, Zenon
<1>5. Shown(1)' = column /\ \A k \in 1..(DisplayWidth - 1) : Shown(k + 1)' = Kept(Shown(k), dynamic')
  <2>1. At \in Int
    BY <1>0, BaseFacts, Zenon
  <2>2. (At + 1) - 1 = At /\ \A k \in 1..(DisplayWidth - 1) : (At + 1) - (k + 1) = At - k
    BY <2>1
  <2>3. QED
    BY <1>4, <2>2, Zenon DEF Shown
<1>6. LatestInOrder'
  <2>1. \A j, t : /\ j = WithColumn(dynamic', column)
                  /\ Len(t) \in Nat /\ 1 <= Len(t) /\ Len(t) <= DisplayWidth
                  /\ Len(t) <= Len(shown) + 1
                  /\ Len(t) = DisplayWidth \/ Len(t) = Len(shown) + 1
                  /\ t[Len(t)] = NextNumber
                  /\ \A k \in Int : 1 <= k /\ k <= Len(t) - 1 =>
                       t[Len(t) - k] = shown[Len(shown) - k + 1]
                  => Latest(j, At + 1, t)
    BY <1>0, <1>2, LatestDrawn
  <2>2. Latest(image', At + 1, shown')
    BY <1>1, <1>3, <2>1, Zenon
  <2>3. QED
    BY <2>2, Zenon DEF Latest, LatestInOrder, Shown
<1>7. ImageInv'
  <2>1. ASSUME NEW k \in 1..Len(shown') PROVE ColumnInv(Shown(k)', dynamic')
    <3>1. CASE k = 1
      BY <1>2, <1>5, <3>1, Zenon
    <3>2. CASE k # 1
      <4>0. k \in 1..m
        BY <1>a, Zenon
      <4>1. PICK j \in 1..n : j = k - 1 /\ k = j + 1 /\ j \in 1..(DisplayWidth - 1)
        BY <1>a, <3>2, <4>0, WidthFacts
      <4>2. ColumnInv(Kept(Shown(j), dynamic'), dynamic')
        BY <1>0, <1>a, KeptColumns, Zenon
      <4>3. QED
        BY <1>5, <4>1, <4>2, Zenon
    <3>3. QED
      BY <3>1, <3>2, Zenon
  <2>2. \A k \in 1..Len(shown') : ColumnInv(Shown(k), dynamic)'
    BY <2>1, Zenon DEF ColumnInv, IsSample, Truncated, NearPlain, Up, Down, Scale
  <2>3. QED
    BY <1>4, <2>2, Zenon DEF ImageInv
<1>8. RingInv'
  <2>1. ASSUME NEW k \in 1..Len(shown), k + 1 <= DisplayWidth
        PROVE  /\ k + 1 <= Len(shown')
               /\ Shown(k + 1)'.number = Shown(k).number
               /\ Shown(k + 1)'.initPoint = Shown(k).initPoint
               /\ Shown(k + 1)'.length = Shown(k).length
    <3>0. k \in 1..n
      BY <1>a, Zenon
    <3>1. k \in 1..(DisplayWidth - 1) /\ k + 1 <= m
      BY <1>a, <2>1, <3>0, WidthFacts
    <3>2. Shown(k + 1)' = Kept(Shown(k), dynamic')
      BY <1>5, <3>1, Zenon
    <3>3. QED
      BY <1>a, <3>1, <3>2, KeptFacts, Zenon
  <2>2. PICK e : e = Entry(s, NextNumber)
    OBVIOUS
  <2>3. InView(e, 1)'
    BY <1>2, <1>5, <2>2, Zenon DEF InView
  <2>4. RingInv /\ IsSample(e) /\ ring' = Appended(e) /\ 1 \in 0..1 /\ 1 <= Len(shown')
    BY <1>0, <1>1, <1>2, <2>2
  <2>5. QED
    BY <1>1, <2>1, <2>3, <2>4, RingStep
<1>9. QED
  BY <1>1, <1>6, <1>7, <1>8

\* A sample that does not fit: the columns stay where they are.
LEMMA RefusedStep ==
  ASSUME Inv, NEW s \in Samples, dynamic' \in BOOLEAN,
         ring' = Appended(Entry(s, 0)),
         ringIndex' = (ringIndex + 1) % DisplayWidth,
         image' = Base(dynamic'), drawIndex' = At, UNCHANGED shown
  PROVE  LatestInOrder' /\ ShownInv' /\ ImageInv' /\ RingInv'
<1>0. /\ LatestInOrder /\ ShownInv /\ ImageInv /\ RingInv /\ dynamic \in BOOLEAN
      /\ DOMAIN image = 0..(Width - 1)
  BY Zenon DEF Inv, ImageInv
<1>1. /\ DOMAIN image' = 0..(Width - 1)
      /\ \A k \in View : Shown(k)' = Kept(Shown(k), dynamic')
  BY <1>0, BaseFacts, Zenon DEF Shown
<1>2. ShownInv' /\ Len(shown) \in Nat /\ Len(shown') = Len(shown)
  BY <1>0, NumberFacts, Zenon DEF ShownInv, Before
<1>3. LatestInOrder'
  <2>1. Latest(image', At, shown)
    BY <1>0, LatestRefused, Zenon
  <2>2. QED
    BY <2>1, Zenon DEF Latest, LatestInOrder, Shown
<1>4. ImageInv'
  <2>1. ASSUME NEW k \in 1..Len(shown') PROVE ColumnInv(Shown(k)', dynamic')
    <3>1. k \in 1..Len(shown) /\ k \in View
      BY <1>0, <1>2, NumberedColumn, Zenon
    <3>2. ColumnInv(Kept(Shown(k), dynamic'), dynamic')
      BY <1>0, <3>1, KeptColumns, Zenon
    <3>3. QED
      BY <1>1, <3>1, <3>2, Zenon
  <2>2. \A k \in 1..Len(shown') : ColumnInv(Shown(k), dynamic)'
    BY <2>1, Zenon DEF ColumnInv, IsSample, Truncated, NearPlain, Up, Down, Scale
  <2>3. QED
    BY <1>1, <2>2, Zenon DEF ImageInv
<1>5. RingInv'
  <2>1. ASSUME NEW k \in 1..Len(shown), k + 0 <= DisplayWidth
        PROVE  /\ k + 0 <= Len(shown')
               /\ Shown(k + 0)'.number = Shown(k).number
               /\ Shown(k + 0)'.initPoint = Shown(k).initPoint
               /\ Shown(k + 0)'.length = Shown(k).length
    <3>1. k + 0 = k /\ k <= Len(shown')
      BY <1>2
    <3>2. k \in View
      BY <1>0, NumberedColumn, Zenon
    <3>3. Shown(k)' = Kept(Shown(k), dynamic')
      BY <1>1, <3>2, Zenon
    <3>4. Shown(k + 0)' = Shown(k)'
      BY <3>1
    <3>5. /\ Shown(k)'.number = Shown(k).number
          /\ Shown(k)'.initPoint = Shown(k).initPoint
          /\ Shown(k)'.length = Shown(k).length
      BY <3>3, KeptFacts, Zenon
    <3>6. QED
      BY <3>1, <3>4, <3>5, Zenon
  <2>2. PICK e : e = Entry(s, 0)
    OBVIOUS
  <2>3. IsSample(e) /\ e.number = 0 /\ ring' = Appended(e)
    BY <2>2, EntryFacts, Zenon
  <2>4. RingInv /\ 0 \in 0..1 /\ Len(shown') \in Nat
    BY <1>0, <1>2
  <2>5. QED
    BY <1>2, <2>1, <2>3, <2>4, RingStep
<1>6. QED
  BY <1>2, <1>3, <1>4, <1>5

LEMMA ClearStep == ASSUME Inv, Clear PROVE Inv'
<1>1. /\ image' = Clean /\ ring' = Refill /\ shown' = <<>>
      /\ UNCHANGED <<drawIndex, ringIndex, dynamic>>
  BY Zenon DEF Clear
<1>2. /\ drawIndex \in DisplayWidth..Width /\ ringIndex \in 0..(DisplayWidth - 1)
      /\ dynamic' \in BOOLEAN
  BY <1>1, Zenon DEF Inv, LatestInOrder, RingInv
<1>3. /\ DOMAIN image' = 0..(Width - 1)
      /\ \A x \in 0..(Width - 1) : image'[x] = Transparent
  BY <1>1, Zenon DEF Clean
<1>4. /\ DOMAIN ring' = 0..(DisplayWidth - 1)
      /\ \A x \in 0..(DisplayWidth - 1) : ring'[x] = Filler
  BY <1>1, Zenon DEF Refill
<1>5. Len(shown') = 0 /\ shown' \in Seq(1..(Width + 1))
  BY <1>1
<1>6. /\ \A k \in View : drawIndex - k \in 0..(Width - 1) /\ ~(k <= 0)
      /\ \A x \in drawIndex..(Width - 1) : x \in 0..(Width - 1)
      /\ 0 <= DisplayWidth
      /\ 1..0 = {} /\ 0..(0 - 1) = {}
  BY <1>2, WidthFacts DEF View
<1>7. LatestInOrder'
  BY <1>1, <1>2, <1>3, <1>5, <1>6, Zenon DEF LatestInOrder, Shown
<1>8. ShownInv'
  BY <1>5, <1>6, Zenon DEF ShownInv
<1>9. ImageInv'
  BY <1>3, <1>5, <1>6, Zenon DEF ImageInv
<1>10. Filler.number = 0
  BY DEF Filler
<1>11. RingInv' /\ RowsInv'
  <2>1. \A x \in 0..(DisplayWidth - 1) : ring'[x] = Filler /\ ring'[x].number = 0
    BY <1>4, <1>10, Zenon
  <2>2. ringIndex' \in 0..(DisplayWidth - 1)
    BY <1>1, <1>2, Zenon
  <2>3. RingInv'
    BY <1>4, <2>1, <2>2, Zenon DEF RingInv
  <2>4. RowsInv'
    BY <2>1, Zenon DEF RowsInv
  <2>5. QED
    BY <2>3, <2>4
<1>12. QED
  BY <1>2, <1>7, <1>8, <1>9, <1>11, Zenon DEF Inv

LEMMA Start == Init => Inv
<1> SUFFICES ASSUME Init PROVE Inv
  OBVIOUS
<1>1. /\ image = Clean /\ ring = Refill /\ shown = <<>>
      /\ drawIndex = DisplayWidth /\ ringIndex = DisplayWidth - 1 /\ dynamic \in BOOLEAN
  BY DEF Init
<1>2. drawIndex \in DisplayWidth..Width /\ ringIndex \in 0..(DisplayWidth - 1)
  BY <1>1, WidthFacts
<1>3. /\ DOMAIN image = 0..(Width - 1)
      /\ \A x \in 0..(Width - 1) : image[x] = Transparent
  BY <1>1, Zenon DEF Clean
<1>4. /\ DOMAIN ring = 0..(DisplayWidth - 1)
      /\ \A x \in 0..(DisplayWidth - 1) : ring[x] = Filler
  BY <1>1, Zenon DEF Refill
<1>5. Len(shown) = 0 /\ shown \in Seq(1..(Width + 1))
  BY <1>1
<1>6. /\ \A k \in View : drawIndex - k \in 0..(Width - 1) /\ ~(k <= 0)
      /\ \A x \in drawIndex..(Width - 1) : x \in 0..(Width - 1)
      /\ 0 <= DisplayWidth
      /\ 1..0 = {} /\ 0..(0 - 1) = {}
  BY <1>2, WidthFacts DEF View
<1>7. LatestInOrder
  BY <1>2, <1>3, <1>5, <1>6, Zenon DEF LatestInOrder, Shown
<1>8. ShownInv
  BY <1>5, <1>6, Zenon DEF ShownInv
<1>9. ImageInv
  BY <1>3, <1>5, <1>6, Zenon DEF ImageInv
<1>10. Filler.number = 0
  BY DEF Filler
<1>11. RingInv /\ RowsInv
  <2>1. \A x \in 0..(DisplayWidth - 1) : ring[x] = Filler /\ ring[x].number = 0
    BY <1>4, <1>10, Zenon
  <2>2. QED
    BY <1>2, <1>4, <2>1, Zenon DEF RingInv, RowsInv
<1>12. QED
  BY <1>1, <1>7, <1>8, <1>9, <1>11, Zenon DEF Inv

LEMMA Step == Inv /\ [Next]_vars => Inv'
<1> SUFFICES ASSUME Inv, [Next]_vars PROVE Inv'
  OBVIOUS
<1>1. CASE Clear
  BY <1>1, ClearStep, Zenon
<1>2. ASSUME NEW s \in Samples, Sample(s) PROVE Inv'
  <2>1. /\ dynamic' \in BOOLEAN
        /\ ringIndex' = (ringIndex + 1) % DisplayWidth
    BY <1>2, DrawIs, Zenon
  <2>2. PICK v, h :
          /\ RowsOf(s, v, h)
          /\ \/ /\ Fits(v, h) /\ ring' = Appended(Entry(s, NextNumber))
                /\ image' = WithColumn(dynamic', ColumnOf(s, NextNumber, v, h))
                /\ drawIndex' = At + 1
                /\ shown' = Trim(shown, NextNumber, DisplayWidth)
             \/ /\ ~Fits(v, h) /\ ring' = Appended(Entry(s, 0))
                /\ image' = Base(dynamic')
                /\ drawIndex' = At
                /\ UNCHANGED shown
    BY <1>2, DrawIs, Zenon
  <2>3. LatestInOrder' /\ ShownInv' /\ ImageInv' /\ RingInv'
    BY <2>1, <2>2, DrawnStep, RefusedStep, Zenon DEF RowsOf
  <2>4. RowsInv'
    BY <2>1, <2>2, <2>3, RowsStep, Zenon DEF RowsOf
  <2>5. QED
    BY <2>1, <2>3, <2>4, Zenon DEF Inv
<1>3. CASE UNCHANGED vars
  <2>1. /\ image' = image /\ drawIndex' = drawIndex /\ ring' = ring /\ ringIndex' = ringIndex
        /\ dynamic' = dynamic /\ minPixel' = minPixel /\ maxPixel' = maxPixel /\ shown' = shown
    BY <1>3 DEF vars
  <2>2. LatestInOrder' /\ ShownInv'
    BY <2>1, Zenon DEF Inv, LatestInOrder, ShownInv, Shown
  <2>3. ImageInv'
    BY <2>1, Zenon DEF Inv, ImageInv, Shown
  <2>4. RingInv' /\ RowsInv'
    BY <2>1, Zenon DEF Inv, RingInv, RowsInv, Shown, InView, Age
  <2>5. QED
    BY <2>1, <2>2, <2>3, <2>4, Zenon DEF Inv
<1>4. QED
  BY <1>1, <1>2, <1>3, Zenon DEF Next

\* The columns, their numbers, the ring and the rows in view fit together after
\* any number of samples, changes of the scale, wraps of the image and clears.
THEOREM WaterfallInvariant == Spec => []Inv
BY Start, Step, PTL DEF Spec

\* WaterfallPlot::paint() shows the last samples that were drawn since clear(),
\* in their order and without a gap, also when draw() has just copied the tail
\* of the image to its head or redrawn it.
THEOREM ShownInOrder == Spec => []LatestInOrder
<1>1. Inv => LatestInOrder
  BY Zenon DEF Inv
<1>2. QED
  BY <1>1, WaterfallInvariant, PTL

-----------------------------------------------------------------------------
\* A sample between these depths is between their rows, but for a few.
LEMMA RowsBetween ==
  ASSUME NEW m \in Nat, NEW n \in Nat, NEW i \in Nat, NEW l \in Nat, NEW d \in BOOLEAN,
         m <= i, i + l <= n,
         NEW a, NEW b, NEW v, NEW h,
         Truncated(a, m, FALSE), Truncated(b, n - m, d),
         Truncated(v, i, FALSE), Truncated(h, l, d)
  PROVE  v + 1 >= a /\ v + h <= a + b + 2
<1>1. /\ a \in Nat /\ b \in Nat /\ v \in Nat /\ h \in Nat
      /\ 2000 * a <= m * 35 /\ m * 35 <= 2000 * a + 2000
      /\ 2000 * v <= i * 35 /\ i * 35 <= 2000 * v + 2000
  BY SMT DEF Truncated, Scale, TwoMetres
<1>2. CASE d = TRUE
  <2>1. 2000 * h <= l * 400 /\ (n - m) * 400 <= 2000 * b + 2000
    BY <1>2, SMT DEF Truncated, Scale, TwoMetres
  <2>2. QED
    BY <1>1, <2>1, SMT
<1>3. CASE d = FALSE
  <2>1. 2000 * h <= l * 35 /\ (n - m) * 35 <= 2000 * b + 2000
    BY <1>3, SMT DEF Truncated, Scale, TwoMetres
  <2>2. QED
    BY <1>1, <2>1, SMT
<1>4. QED
  BY <1>2, <1>3

\* A column that was made larger is near the length of its sample.
LEMMA LargerColumn ==
  ASSUME NEW t \in Nat, NEW b \in Nat, NEW l \in Nat,
         NearPlain(Down(b) - Down(t), l), Up(Down(t)) = t, Up(Down(b)) = b
  PROVE  -36000 <= 2000 * (b - t) - 400 * l /\ 2000 * (b - t) - 400 * l <= 36000
<1>1. PICK y \in Nat, z \in Nat : y = Down(t) /\ z = Down(b)
  BY RowType
<1>2. t = Up(y) /\ b = Up(z) /\ NearPlain(z - y, l)
  BY <1>1, Zenon
<1>3. 35 * l - 3000 <= 2000 * (z - y) /\ 2000 * (z - y) <= 35 * l + 3000
  BY <1>2, SMT DEF NearPlain, Scale, TwoMetres
<1>4. /\ 7 * t <= 80 * y + 3 /\ 80 * y + 3 <= 7 * t + 6
      /\ 7 * b <= 80 * z + 3 /\ 80 * z + 3 <= 7 * b + 6
  BY <1>2, SMT DEF Up
<1>5. QED
  BY <1>3, <1>4, SMT

\* A column that was not cut is near the length of its sample.
LEMMA HeightFacts ==
  ASSUME NEW c, NEW d \in BOOLEAN, ColumnInv(c, d), c.redrawn # "cut"
  PROVE  LET off == TwoMetres * (c.bottom - c.top) - Scale(d) * c.length
         IN -90 * Scale(d) <= off /\ off <= 90 * Scale(d)
<1>1. PICK t \in Nat, b \in Nat, l \in Nat : t = c.top /\ b = c.bottom /\ l = c.length
  <2>1. \A h \in Nat : \A x \in 0..h : \A w \in 0..x : x \in Nat /\ w \in Nat
    OBVIOUS
  <2>2. c.bottom \in 0..Height /\ c.top \in 0..c.bottom /\ c.length \in Nat
    BY SampleType, Zenon DEF ColumnInv
  <2>3. QED
    BY <2>1, <2>2, SampleType, Zenon
<1>2. c.redrawn = "no" \/ c.redrawn = "whole"
  BY Zenon DEF ColumnInv
<1>3. CASE d = TRUE
  <2>1. -36000 <= 2000 * (b - t) - 400 * l /\ 2000 * (b - t) - 400 * l <= 36000
    <3>1. CASE c.redrawn = "no"
      <4>1. Truncated(b - t, l, TRUE)
        BY <1>1, <1>3, <3>1, Zenon DEF ColumnInv
      <4>2. QED
        BY <4>1, SMT DEF Truncated, Scale, TwoMetres
    <3>2. CASE c.redrawn = "whole"
      <4>1. NearPlain(Down(b) - Down(t), l) /\ Up(Down(t)) = t /\ Up(Down(b)) = b
        BY <1>1, <1>3, <3>2, Zenon DEF ColumnInv
      <4>2. QED
        BY <4>1, LargerColumn, SMT
    <3>3. QED
      BY <1>2, <3>1, <3>2
  <2>2. Scale(d) = 400
    BY <1>3 DEF Scale
  <2>3. QED
    BY <1>1, <2>1, <2>2, SMT DEF TwoMetres
<1>4. CASE d = FALSE
  <2>1. -3000 <= 2000 * (b - t) - 35 * l /\ 2000 * (b - t) - 35 * l <= 3000
    <3>1. CASE c.redrawn = "no"
      <4>1. Truncated(b - t, l, FALSE)
        BY <1>1, <1>4, <3>1, Zenon DEF ColumnInv
      <4>2. QED
        BY <4>1, SMT DEF Truncated, Scale, TwoMetres
    <3>2. CASE c.redrawn = "whole"
      <4>1. NearPlain(b - t, l)
        BY <1>1, <1>4, <3>2, Zenon DEF ColumnInv
      <4>2. QED
        BY <4>1, SMT DEF NearPlain, Scale, TwoMetres
    <3>3. QED
      BY <1>2, <3>1, <3>2
  <2>2. Scale(d) = 35
    BY <1>4 DEF Scale
  <2>3. QED
    BY <1>1, <2>1, <2>2, SMT DEF TwoMetres
<1>5. QED
  BY <1>3, <1>4

LEMMA BeforeDistinct ==
  ASSUME NEW n \in 1..(Width + 1), NEW c \in 0..(DisplayWidth - 1),
         NEW d \in 0..(DisplayWidth - 1), Before(n, c) = Before(n, d)
  PROVE  c = d
BY WidthFacts DEF Before

\* No two columns in view have the same number.
LEMMA DistinctNumbers ==
  ASSUME ShownInv, NEW j \in 1..Len(shown), NEW k \in 1..Len(shown),
         shown[Len(shown) - j + 1] = shown[Len(shown) - k + 1]
  PROVE  j = k
<1>1. PICK m : m = Len(shown) /\ m \in Nat /\ m <= DisplayWidth
  BY DEF ShownInv
<1>2. j \in 1..m /\ k \in 1..m
  BY <1>1, Zenon
<1>3. m \in 1..m
  BY <1>1, <1>2
<1>4. PICK n : n = shown[m] /\ n \in 1..(Width + 1)
  BY <1>1, <1>3, ElementOfSeq DEF ShownInv
<1>5. \A d \in 0..(m - 1) : shown[m - d] = Before(n, d)
  BY <1>1, <1>4, Zenon DEF ShownInv
<1>6. /\ j - 1 \in 0..(m - 1) /\ m - j + 1 = m - (j - 1)
      /\ k - 1 \in 0..(m - 1) /\ m - k + 1 = m - (k - 1)
  BY <1>1, <1>2
<1>7. Before(n, j - 1) = Before(n, k - 1)
  BY <1>1, <1>5, <1>6, Zenon
<1>8. j - 1 = k - 1
  <2>1. j - 1 \in 0..(DisplayWidth - 1) /\ k - 1 \in 0..(DisplayWidth - 1)
    BY <1>1, <1>2, WidthFacts
  <2>2. QED
    BY <1>4, <1>7, <2>1, BeforeDistinct, Zenon
<1>9. QED
  BY <1>2, <1>8

\* What the ring has of a column in view is what the column shows.
LEMMA RingColumn ==
  ASSUME Inv, NEW k \in View, InRing(Shown(k))
  PROVE  /\ k \in 1..Len(shown)
         /\ \E e \in Entries(ring) :
              IsSample(e) /\ e.number # 0 /\ e.initPoint = Shown(k).initPoint
              /\ e.length = Shown(k).length
<1>0. LatestInOrder /\ ShownInv /\ RingInv
  BY Zenon DEF Inv
<1>1. Transparent.number = 0 /\ Filler.number = 0
  BY DEF Transparent, Filler
<1>2. Shown(k).number # 0
  BY Zenon DEF InRing
<1>3. k <= Len(shown)
  BY <1>0, <1>1, <1>2, Zenon DEF LatestInOrder
<1>4. k \in 1..Len(shown)
  BY <1>0, <1>3, NumberFacts, WidthFacts DEF View
<1>5. PICK x \in 0..(DisplayWidth - 1) : ring[x].number = Shown(k).number
  BY Zenon DEF InRing, Entries
<1>6. IsSample(ring[x])
  BY <1>0, <1>1, <1>2, <1>5, Zenon DEF RingInv
<1>7. PICK j \in 1..Len(shown) : InView(ring[x], j)
  BY <1>0, <1>2, <1>5, Zenon DEF RingInv
<1>8. Shown(j).number = Shown(k).number
  BY <1>5, <1>7, Zenon DEF InView
<1>9. shown[Len(shown) - j + 1] = shown[Len(shown) - k + 1]
  BY <1>0, <1>4, <1>8, NumberedColumn, Zenon
<1>10. j = k
  BY <1>0, <1>4, <1>9, DistinctNumbers, Zenon
<1>11. ring[x] \in Entries(ring)
  BY Zenon DEF Entries
<1>12. QED
  BY <1>2, <1>4, <1>5, <1>6, <1>7, <1>10, <1>11, Zenon DEF InView

LEMMA ToScale == Inv => DrawnToScale
<1> SUFFICES ASSUME Inv, NEW k \in View, InRing(Shown(k))
             PROVE  LET c == Shown(k)
                    IN /\ c.redrawn # "cut" =>
                            LET off == TwoMetres * (c.bottom - c.top) - Scale(dynamic) * c.length
                            IN -90 * Scale(dynamic) <= off /\ off <= 90 * Scale(dynamic)
                       /\ c.redrawn = "no" => /\ c.top + 1 >= minPixel
                                              /\ c.bottom <= minPixel + maxPixel + 2
  BY Zenon DEF DrawnToScale
<1>1. RingInv /\ RowsInv /\ ImageInv /\ dynamic \in BOOLEAN
  BY Zenon DEF Inv
<1>2. PICK c : c = Shown(k)
  OBVIOUS
<1>3. ColumnInv(c, dynamic)
  BY <1>1, <1>2, RingColumn, Zenon DEF ImageInv
<1>4. PICK e \in Entries(ring) : /\ IsSample(e) /\ e.number # 0
                                 /\ e.initPoint = c.initPoint /\ e.length = c.length
  BY <1>2, RingColumn, Zenon
<1>5. ASSUME c.redrawn = "no" PROVE c.top + 1 >= minPixel /\ c.bottom <= minPixel + maxPixel + 2
  <2>1. PICK m, n : m = MinDepth(ring) /\ n = MaxDepth(ring)
    OBVIOUS
  <2>2. Truncated(minPixel, m, FALSE) /\ Truncated(maxPixel, n - m, dynamic)
    BY <1>1, <1>4, <2>1, Zenon DEF RowsInv, Entries
  <2>3. m \in Nat /\ n \in Nat /\ m <= c.initPoint /\ c.initPoint + c.length <= n
    BY <1>1, <1>4, <2>1, DepthFacts, Zenon DEF RingInv
  <2>4. c.initPoint \in Nat /\ c.length \in Nat
    BY <1>3, SampleType, Zenon DEF ColumnInv
  <2>5. PICK h : h = c.bottom - c.top
    OBVIOUS
  <2>6. Truncated(c.top, c.initPoint, FALSE) /\ Truncated(h, c.length, dynamic)
    BY <1>3, <1>5, <2>5, Zenon DEF ColumnInv
  <2>7. c.top + 1 >= minPixel /\ c.top + h <= minPixel + maxPixel + 2
    BY <1>1, <2>2, <2>3, <2>4, <2>6, RowsBetween, Zenon
  <2>8. c.top + h = c.bottom
    <3>1. \A b \in 0..Height : \A t \in 0..b : t + (b - t) = b
      BY SMT DEF Height
    <3>2. c.bottom \in 0..Height /\ c.top \in 0..c.bottom
      BY <1>3, Zenon DEF ColumnInv
    <3>3. QED
      BY <2>5, <3>1, <3>2, Zenon
  <2>9. QED
    BY <2>7, <2>8, Zenon
<1>6. QED
  BY <1>1, <1>2, <1>3, <1>5, HeightFacts, Zenon

\* A column of which the ring still has the sample is as high as that sample is
\* long on the present scale, to within nine centimetres, until redrawImage()
\* cuts it, and one that was never redrawn is within the rows that paint() shows
\* but for a few: an old column can be compared with a new one, however often
\* the scale changed between them.
THEOREM ColumnsToScale == Spec => []DrawnToScale
BY ToScale, WaterfallInvariant, PTL

=============================================================================
