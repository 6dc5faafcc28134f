------------------------------- MODULE Waterfall ------------------------------
(***************************************************************************)
(* The waterfall of a Ping1D (waterfallplot.cpp, ringvector.h): an image   *)
(* with one column per sample, of which the last DisplayWidth are shown,   *)
(* and a ring of the last samples from which the depth in view is taken.   *)
(*                                                                         *)
(* When the image is full its last columns are copied to its head.  When   *)
(* the depth in view is small the scale is dynamic and the whole image is  *)
(* redrawn larger.  Rows are the program's pixels; a column is the sample  *)
(* it shows and the rows it takes, its colours are left out.  Depths are   *)
(* in millimetres, as a Ping1D gives them; rows are rounded as they are.   *)
(***************************************************************************)
EXTENDS Integers, SequencesExt

CONSTANTS Width,         \* columns of the image, 2048
          DisplayWidth,  \* _displayWidth, 500
          Samples        \* records of initPoint and length, in millimetres

\* _waterfallDepth, "the max depth that ping returns", and the rows of the image.
MaxLength == 200000
Height    == 3500

IsSample(s) == s.initPoint \in 0..MaxLength /\ s.length \in 1..MaxLength

ASSUME WaterfallAssumption ==
  /\ Width \in Nat /\ DisplayWidth \in 1..(Width - 1)
  /\ \A s \in Samples : IsSample(s)

VARIABLES image,      \* _image, by column
          drawIndex,  \* _currentDrawIndex
          ring,       \* _DCRing, by place
          ringIndex,  \* its _appendIndex, modulo its length
          dynamic,    \* inDynamic
          minPixel,   \* _minDepthToDrawInPixels
          maxPixel,   \* _maxDepthToDrawInPixels
          shown       \* history: the numbers of the last samples drawn

vars == <<image, drawIndex, ring, ringIndex, dynamic, minPixel, maxPixel, shown>>

\* Rows for so many millimetres, on the dynamic and on the plain scale.
TwoMetres == 2000
Scale(isDynamic) == IF isDynamic THEN 400 ELSE 35

\* What the product of a depth and a scale may be truncated to: where it is a
\* whole number, that of the floats can be a little less.
Pixels(depth, isDynamic) ==
  LET product == depth * Scale(isDynamic)
  IN {product \div TwoMetres, Max({0, product - 1}) \div TwoMetres}

Transparent == [number |-> 0, initPoint |-> 0, length |-> 0, top |-> 0, bottom |-> 0,
                redrawn |-> "no"]
Filler      == [number |-> 0, initPoint |-> 1000 * Height, length |-> 0]

\* Samples that are drawn are numbered, round and round.
NextNumber == IF shown = <<>> THEN 1 ELSE (Last(shown) % (Width + 1)) + 1

Clean  == [x \in 0..(Width - 1) |-> Transparent]
Refill == [x \in 0..(DisplayWidth - 1) |-> Filler]

Init == /\ image = Clean /\ drawIndex = DisplayWidth
        /\ ring = Refill /\ ringIndex = DisplayWidth - 1
        /\ dynamic = FALSE
        /\ minPixel = 0 /\ maxPixel = 0
        /\ shown = <<>>

-----------------------------------------------------------------------------
\* RingVector::append()
Appended(sample) == [ring EXCEPT ![(ringIndex + 1) % DisplayWidth] = sample]

Entries(r) == {r[x] : x \in 0..(DisplayWidth - 1)}

\* lastMaxDC() and lastMinDepth()
MaxDepth(r) == Max({0} \cup {e.initPoint + e.length :
                               e \in {e \in Entries(r) : e.initPoint # Filler.initPoint}})
MinDepth(r) == Min({e.initPoint : e \in Entries(r)})

\* Where a row comes to lie when the image is drawn into 40000 rows, and into
\* 306, which is 306.25 truncated.  A row drawn is the one its middle falls in.
Up(y)   == (80 * y + 3) \div 7
Down(y) == (306 * y + Height \div 2 - 1) \div Height

\* A column of the image drawn larger or smaller; what does not fit is cut.
Stretched(c, isLarger) ==
  LET row(y) == IF isLarger THEN Up(y) ELSE Down(y)
      isCut  == c.redrawn = "cut" \/ row(c.bottom) > Height
  IN IF c = Transparent THEN c
     ELSE [number |-> c.number, initPoint |-> c.initPoint, length |-> c.length,
           top |-> Min({Height, row(c.top)}), bottom |-> Min({Height, row(c.bottom)}),
           redrawn |-> IF isCut THEN "cut" ELSE "whole"]

\* Mutant: the image is not redrawn for another scale.
RedrawImageNot(isDynamic) == image

\* redrawImage() when the scale changes.
RedrawImage(isDynamic) ==
  IF isDynamic = dynamic THEN image
  ELSE [x \in DOMAIN image |-> Stretched(image[x], isDynamic)]

\* Mutant: one column too few is moved.
TailToHeadOneLess(i) ==
  [x \in DOMAIN i |-> IF x < DisplayWidth - 1 THEN i[Width - DisplayWidth + 1 + x]
                      ELSE Transparent]

\* "Copy tail to head"
TailToHead(i) ==
  [x \in DOMAIN i |-> IF x < DisplayWidth THEN i[Width - DisplayWidth + x]
                      ELSE Transparent]

\* draw(): the ring and the view follow every sample, the image only those
\* that fit into its height.
Draw(s, virtualFloor, virtualHeight) ==
  LET fits   == virtualFloor + virtualHeight <= Height
      number == IF fits THEN NextNumber ELSE 0
      full   == drawIndex >= Width
      base   == IF full THEN TailToHead(RedrawImage(dynamic')) ELSE RedrawImage(dynamic')
      at     == IF full THEN DisplayWidth ELSE drawIndex
      column == [number |-> number, initPoint |-> s.initPoint, length |-> s.length,
                 top |-> virtualFloor, bottom |-> virtualFloor + virtualHeight,
                 redrawn |-> "no"]
  IN /\ ring' = Appended([number |-> number, initPoint |-> s.initPoint,
                          length |-> s.length])
     /\ ringIndex' = (ringIndex + 1) % DisplayWidth
     /\ minPixel' \in Pixels(MinDepth(ring'), FALSE)
     /\ maxPixel' \in Pixels(MaxDepth(ring') - MinDepth(ring'), dynamic')
     /\ \/ /\ fits
           /\ image' = [base EXCEPT ![at] = column] /\ drawIndex' = at + 1
           /\ shown' = LET all == Append(shown, number)
                       IN SubSeq(all, Max({1, Len(all) - DisplayWidth + 1}), Len(all))
        \/ /\ ~fits
           /\ image' = base /\ drawIndex' = at /\ UNCHANGED shown

\* A sample arrives.  The scale is dynamic when the depth in view takes fewer
\* than 200 rows.
Sample(s) ==
  LET r == Appended([number |-> 0, initPoint |-> s.initPoint, length |-> s.length])
  IN /\ dynamic' = (Scale(FALSE) * (MaxDepth(r) - MinDepth(r)) < 200 * TwoMetres)
     /\ \E virtualFloor \in Pixels(s.initPoint, FALSE),
           virtualHeight \in Pixels(s.length, dynamic') :
          Draw(s, virtualFloor, virtualHeight)

\* clear(), which leaves the places of the image and of the ring alone.
Clear == /\ image' = Clean /\ ring' = Refill
         /\ minPixel' = 0 /\ maxPixel' = 0
         /\ shown' = <<>>
         /\ UNCHANGED <<drawIndex, ringIndex, dynamic>>

Next == Clear \/ \E s \in Samples : Sample(s)

Spec == Init /\ [][Next]_vars

-----------------------------------------------------------------------------
\* paint(): the columns that are shown, the newest first.
Shown(k) == image[drawIndex - k]
View     == 1..DisplayWidth

\* The columns in view are the last samples drawn since clear(), in their
\* order and without a gap, also when the image has just been wrapped,
\* redrawn or cleared half way; and nothing stands where the next are drawn.
LatestInOrder ==
  /\ drawIndex \in DisplayWidth..Width
  /\ \A k \in View :
       IF k <= Len(shown) THEN Shown(k).number = shown[Len(shown) - k + 1]
       ELSE Shown(k) = Transparent
  /\ \A x \in drawIndex..(Width - 1) : image[x] = Transparent

\* The ring has a sample as long as fewer than DisplayWidth came after it,
\* those that did not fit included.
InRing(c) == c.number # 0 /\ \E e \in Entries(ring) : e.number = c.number

\* Columns drawn before and after a change of the scale can be compared: each
\* is as high as its sample is long on the present scale, to within nine
\* centimetres however often it was redrawn, unless a redraw has cut it off; and
\* those that were never redrawn lie between the rows in view, which follow from
\* the ring, but for a row above and two below.
DrawnToScale ==
  \A k \in View : LET c == Shown(k) IN InRing(c) =>
    /\ c.redrawn # "cut" =>
         LET off == TwoMetres * (c.bottom - c.top) - Scale(dynamic) * c.length
         IN -90 * Scale(dynamic) <= off /\ off <= 90 * Scale(dynamic)
    /\ c.redrawn = "no" => /\ c.top + 1 >= minPixel
                           /\ c.bottom <= minPixel + maxPixel + 2

-----------------------------------------------------------------------------
\* What the two properties rest on, inductive together with LatestInOrder.

\* Numbers of samples that follow each other are consecutive, round and round.
Before(n, d) == IF d < n THEN n - d ELSE n - d + Width + 1
ShownInv == /\ shown \in Seq(1..(Width + 1)) /\ Len(shown) <= DisplayWidth
            /\ \A d \in 0..(Len(shown) - 1) :
                 shown[Len(shown) - d] = Before(shown[Len(shown)], d)

\* Rows are the truncated product of a depth and a scale, or one less.
Truncated(rows, depth, isDynamic) ==
  /\ rows \in Nat
  /\ TwoMetres * rows <= depth * Scale(isDynamic)
  /\ depth * Scale(isDynamic) <= TwoMetres * rows + TwoMetres

\* Rows are those of a length on the plain scale, or a row and a half off.
NearPlain(rows, length) ==
  LET off == TwoMetres * rows - Scale(FALSE) * length
  IN -3 * TwoMetres <= 2 * off /\ 2 * off <= 3 * TwoMetres

\* A column keeps its place until the scale changes.  On the plain scale it may
\* be drawn a row and a half too high or too low, on the dynamic one it is the
\* enlarged picture of such a column: making that smaller gives it back.
ColumnInv(c, isDynamic) ==
  /\ IsSample(c) /\ c.bottom \in 0..Height /\ c.top \in 0..c.bottom
  /\ c.redrawn \in {"no", "whole", "cut"}
  /\ c.redrawn = "no" => /\ Truncated(c.top, c.initPoint, FALSE)
                         /\ Truncated(c.bottom - c.top, c.length, isDynamic)
  /\ c.redrawn = "whole" /\ ~isDynamic => NearPlain(c.bottom - c.top, c.length)
  /\ c.redrawn = "whole" /\ isDynamic =>
       /\ NearPlain(Down(c.bottom) - Down(c.top), c.length)
       /\ Up(Down(c.top)) = c.top /\ Up(Down(c.bottom)) = c.bottom
ImageInv == /\ DOMAIN image = 0..(Width - 1)
            /\ \A k \in 1..Len(shown) : ColumnInv(Shown(k), dynamic)

\* A sample in the ring that is drawn is a column in view, behind at most the
\* columns of the samples that came after it.
Age(x) == IF x <= ringIndex THEN ringIndex - x ELSE ringIndex - x + DisplayWidth
InView(e, k) == /\ e.number = Shown(k).number /\ e.initPoint = Shown(k).initPoint
                /\ e.length = Shown(k).length
RingInv ==
  /\ DOMAIN ring = 0..(DisplayWidth - 1) /\ ringIndex \in 0..(DisplayWidth - 1)
  /\ \A x \in 0..(DisplayWidth - 1) :
       /\ IsSample(ring[x]) \/ ring[x] = Filler
       /\ ring[x].number # 0 =>
            \E k \in 1..Len(shown) : k <= Age(x) + 1 /\ InView(ring[x], k)

\* The rows in view are those of the ring, unless there is nothing to see.
RowsInv == \/ /\ Truncated(minPixel, MinDepth(ring), FALSE)
              /\ Truncated(maxPixel, MaxDepth(ring) - MinDepth(ring), dynamic)
           \/ \A x \in 0..(DisplayWidth - 1) : ring[x].number = 0

Inv == /\ dynamic \in BOOLEAN
       /\ LatestInOrder /\ ShownInv /\ ImageInv /\ RingInv /\ RowsInv
=============================================================================
