------------------------------- MODULE Imaging -------------------------------
(***************************************************************************)
(* What the image-processing module makes of an image's geometry           *)
(* (src/modules/image-processing/processing.py).  Every edit has two       *)
(* implementations, one in Pillow and one as ImageMagick arguments, and    *)
(* which of them runs depends on what a node has installed.  The model     *)
(* runs both side by side on one list of edits.                            *)
(*                                                                         *)
(* An image is its size, the place of one marked pixel and the EXIF        *)
(* orientation (1 upright, 6 a quarter turn); the marked pixel tells a     *)
(* flip from a turn and a crop from a scale.  Colour edits leave all three *)
(* alone.  Angles other than quarter turns are left out.                   *)
(***************************************************************************)
EXTENDS Integers, FiniteSetsExt

CONSTANTS MaxSide,      \* schemas.MAX_DIMENSION, scaled down
          MaxPixels,    \* schemas.MAX_PIXELS, scaled down
          MaxEdits,     \* schemas.MAX_EDITS, scaled down
          Margin        \* the margin of overlays and watermarks, 16 in the code

VARIABLES step,     \* the stage of the call
          pil,      \* what Pillow holds: an image, a layout or Refused
          mag,      \* what ImageMagick holds
          gravity,  \* what its -gravity was last set to; it stays for the edits after
          source,   \* the EXIF orientation of the source file
          exact,    \* every edit so far is one that both engines do pixel by pixel
          edits     \* the number of edits done

vars == <<step, pil, mag, gravity, source, exact, edits>>

Refused == [w |-> 0]
Side == 1 .. MaxSide
Image == {i \in [w : Side, h : Side, x : -1 .. MaxSide - 1, y : -1 .. MaxSide - 1, o : {1, 6}] :
            \/ i.x \in 0 .. i.w - 1 /\ i.y \in 0 .. i.h - 1
            \/ i.x = -1 /\ i.y = -1}

\* A pixel that was cut off or smeared by a scale is no longer followed.
Unmarked(i) == [i EXCEPT !.x = -1, !.y = -1]
Marked(i) == i.x # -1

Fits(w, h) == w \in Side /\ h \in Side /\ w * h <= MaxPixels
Checked(i) == IF i # Refused /\ Fits(i.w, i.h) THEN i ELSE Refused
----------------------------------------------------------------------------
Smaller(a, b) == IF a < b THEN a ELSE b
Larger(a, b) == IF a > b THEN a ELSE b

\* Python's round goes to the even neighbour, ImageMagick rounds halves up
\* and never below one pixel.
HalfEven(n, d) ==
  LET q == n \div d
      r == 2 * (n % d)
  IN  IF r < d \/ (r = d /\ q % 2 = 0) THEN q ELSE q + 1
HalfUp(n, d) == Larger(1, (2 * n + d) \div (2 * d))

Sized(i, w, h) ==
  IF w < 1 \/ h < 1 THEN Refused
  ELSE IF <<w, h>> = <<i.w, i.h>> THEN i
  ELSE [Unmarked(i) EXCEPT !.w = w, !.h = h]

\* The largest size of i's shape in a box; Rounded is the engine's rounding.
Contain(i, w, h, Rounded(_, _)) ==
  IF i.w * h > w * i.h THEN Sized(i, w, Rounded(i.h * w, i.w))
                       ELSE Sized(i, Rounded(i.w * h, i.h), h)

CropTo(i, x, y, w, h) ==
  LET inside == Marked(i) /\ i.x \in x .. x + w - 1 /\ i.y \in y .. y + h - 1
  IN  [w |-> w, h |-> h, o |-> i.o,
       x |-> IF inside THEN i.x - x ELSE -1, y |-> IF inside THEN i.y - y ELSE -1]

QuarterTurn(i) ==
  [w |-> i.h, h |-> i.w, o |-> i.o,
   x |-> IF Marked(i) THEN i.h - 1 - i.y ELSE -1, y |-> IF Marked(i) THEN i.x ELSE -1]
Mirrored(i, axis) ==
  IF ~Marked(i) THEN i
  ELSE IF axis = "horizontal" THEN [i EXCEPT !.x = i.w - 1 - i.x]
                              ELSE [i EXCEPT !.y = i.h - 1 - i.y]
Upright(i) == IF i.o = 6 THEN [QuarterTurn(i) EXCEPT !.o = 1] ELSE i

HalfTurn(i) == QuarterTurn(QuarterTurn(i))
Turned(i, quarters) ==
  CASE quarters = 1 -> QuarterTurn(i)
    [] quarters = 2 -> HalfTurn(i)
    [] quarters = 3 -> QuarterTurn(HalfTurn(i))
----------------------------------------------------------------------------
\* The gravities of a pad; south and west are east and north with the axes
\* exchanged.
Gravities == {"center", "north", "east"}

\* The edits validate_edit accepts, as far as they touch the geometry; "tone"
\* stands for the colour edits.  Crop offsets stay below two.
Edit ==
       [op : {"auto_orient", "tone"}]
  \cup [op : {"resize"}, mode : {"fit", "fill", "stretch"}, w : Side, h : Side]
  \cup [op : {"crop"}, x : 0 .. 1, y : 0 .. 1, w : Side, h : Side]
  \cup [op : {"rotate"}, quarters : 1 .. 3]
  \cup [op : {"flip"}, axis : {"horizontal", "vertical"}]
  \cup [op : {"trim"}, x : 0 .. 1, y : 0 .. 1, w : Side, h : Side]
  \cup [op : {"pad"}, w : Side, h : Side, gravity : Gravities]

\* trim cuts a border of one colour: which rectangle is left is the picture's
\* affair, the same for both engines.
TrimOf(i, e) == IF e.x + e.w <= i.w /\ e.y + e.h <= i.h THEN CropTo(i, e.x, e.y, e.w, e.h) ELSE i

\* Where centring puts an image along one side: Pillow rounds half the
\* difference, ImageMagick subtracts the halves.
Halved(outer, inner) == HalfEven(outer - inner, 2)
HalvesApart(outer, inner) == outer \div 2 - inner \div 2

\* Where ImageMagick puts what is `offset` away from its -gravity, along one
\* axis; at first, with no gravity set, that is the upper left corner.
Middle == [x |-> {"center", "north"}, y |-> {"center", "east"}]
FarSide == [x |-> {"east"}, y |-> {}]
Placed(g, axis, outer, inner, offset) ==
  IF g \in Middle[axis] THEN HalvesApart(outer, inner) + offset
  ELSE IF g \in FarSide[axis] THEN outer - inner - offset
  ELSE offset

\* An image put at (x, y) of a larger one.
Framed(i, w, h, x, y) ==
  [i EXCEPT !.w = w, !.h = h,
            !.x = IF Marked(i) THEN @ + x ELSE @,
            !.y = IF Marked(i) THEN @ + y ELSE @]

\* edit_pillow, one edit without the check of the size that follows it.  Its
\* pad first enlarges the image to the box.
PillowEdit(i, e) ==
  CASE e.op = "auto_orient" -> Upright(i)
    [] e.op = "tone" -> i
    [] e.op = "resize" /\ e.mode = "fit" -> Contain(i, e.w, e.h, HalfEven)
    [] e.op = "resize" /\ e.mode # "fit" -> Sized(i, e.w, e.h)
    [] e.op = "crop" -> IF e.x + e.w > i.w \/ e.y + e.h > i.h THEN Refused
                        ELSE CropTo(i, e.x, e.y, e.w, e.h)
    [] e.op = "rotate" -> Turned(i, e.quarters)
    [] e.op = "flip" -> Mirrored(i, e.axis)
    [] e.op = "trim" -> TrimOf(i, e)
    [] e.op = "pad" -> IF e.w < i.w \/ e.h < i.h THEN Refused
                       ELSE IF e.w > i.w /\ e.h > i.h THEN Sized(i, e.w, e.h)
                       ELSE Framed(i, e.w, e.h, Halved(e.w, i.w), Halved(e.h, i.h))
Pillow(i, e) == IF i = Refused THEN Refused ELSE Checked(PillowEdit(i, e))

\* The part of a region that lies inside the image.
Cut(i, x, y, w, h) ==
  LET left == Larger(0, x)
      top == Larger(0, y)
      right == Smaller(x + w, i.w)
      bottom == Smaller(y + h, i.h)
  IN  IF left >= right \/ top >= bottom THEN Refused
      ELSE CropTo(i, left, top, right - left, bottom - top)

\* edit_imagemagick, one edit, under the gravity g that the edits before have
\* set.  Its fit never enlarges, its crop stops at the edge and counts from the
\* gravity, its pad is an -extent and cuts what is larger.  The size is checked
\* by policy.xml: each side, and the area only as a limit on memory.
MagickEdit(i, g, e) ==
  CASE e.op = "auto_orient" -> Upright(i)
    [] e.op = "tone" -> i
    [] e.op = "resize" /\ e.mode = "fit" -> IF i.w <= e.w /\ i.h <= e.h THEN i
                                            ELSE Contain(i, e.w, e.h, HalfUp)
    [] e.op = "resize" /\ e.mode # "fit" -> Sized(i, e.w, e.h)
    [] e.op = "crop" -> Cut(i, Placed(g, "x", i.w, e.w, e.x), Placed(g, "y", i.h, e.h, e.y), e.w, e.h)
    [] e.op = "rotate" -> Turned(i, e.quarters)
    [] e.op = "flip" -> Mirrored(i, e.axis)
    [] e.op = "trim" -> TrimOf(i, e)
    [] e.op = "pad" -> IF e.w < i.w \/ e.h < i.h THEN Sized(i, e.w, e.h)
                       ELSE Framed(i, e.w, e.h, Placed(e.gravity, "x", e.w, i.w, 0),
                                                Placed(e.gravity, "y", e.h, i.h, 0))
Magick(i, g, e) == IF i = Refused THEN Refused ELSE MagickEdit(i, g, e)

\* A fill and a pad set the gravity, and nothing sets it back.
GravityAfter(g, e) ==
  CASE e.op = "resize" /\ e.mode = "fill" -> "center"
    [] e.op = "pad" -> e.gravity
    [] OTHER -> g

\* The edits whose result the two engines agree on: a fit that shrinks by a
\* whole factor; a crop inside the image which the gravity leaves where it is,
\* after a fill or a pad seldom the case; a pad that leaves one side as it is,
\* adds an even number of pixels to the other, and whose gravity centres the
\* image (Pillow's pad knows no other).
Portable(i, g, e) ==
  /\ e.op = "resize" /\ e.mode = "fit" =>
       /\ i.w >= e.w \/ i.h >= e.h
       /\ IF i.w * e.h > e.w * i.h THEN (i.h * e.w) % i.w = 0 /\ i.h * e.w >= i.w
                                   ELSE (i.w * e.h) % i.h = 0 /\ i.w * e.h >= i.h
  /\ e.op = "crop" =>
       /\ e.x + e.w <= i.w /\ e.y + e.h <= i.h
       /\ Placed(g, "x", i.w, e.w, e.x) = e.x /\ Placed(g, "y", i.h, e.h, e.y) = e.y
  /\ e.op = "pad" =>
       /\ e.w >= i.w /\ e.h >= i.h /\ (e.w = i.w \/ e.h = i.h)
       /\ (e.w - i.w) % 2 = 0 /\ (e.h - i.h) % 2 = 0
       /\ Placed(e.gravity, "x", e.w, i.w, 0) = HalvesApart(e.w, i.w)
       /\ Placed(e.gravity, "y", e.h, i.h, 0) = HalvesApart(e.h, i.h)
  /\ Fits(MagickEdit(i, g, e).w, MagickEdit(i, g, e).h)
----------------------------------------------------------------------------
\* _position, and the offsets of -gravity with -geometry +16+16.
PillowPlace(base, item, corner) ==
  [x |-> Larger(0, CASE corner \in {"northwest", "southwest"} -> Margin
                     [] corner \in {"northeast", "southeast"} -> base.w - item.w - Margin
                     [] OTHER -> (base.w - item.w) \div 2),
   y |-> Larger(0, CASE corner \in {"northwest", "northeast"} -> Margin
                     [] corner \in {"southwest", "southeast"} -> base.h - item.h - Margin
                     [] OTHER -> (base.h - item.h) \div 2)]
MagickPlace(base, item, corner) ==
  [x |-> CASE corner \in {"northwest", "southwest"} -> Margin
           [] corner \in {"northeast", "southeast"} -> base.w - item.w - Margin
           [] OTHER -> (base.w - item.w) \div 2 + Margin,
   y |-> CASE corner \in {"northwest", "northeast"} -> Margin
           [] corner \in {"southwest", "southeast"} -> base.h - item.h - Margin
           [] OTHER -> (base.h - item.h) \div 2 + Margin]

\* A montage: the canvas and the corner of each cell.  Pillow pastes cell by
\* cell; ImageMagick appends cells to rows and rows to a column.
Columns(columns, n) == Smaller(columns, n)
Rows(columns, n) == (n + Columns(columns, n) - 1) \div Columns(columns, n)
Canvas(columns, n, cw, ch) == [w |-> Columns(columns, n) * cw, h |-> Rows(columns, n) * ch]
PillowMontage_ByRows(columns, n, cw, ch) ==
  LET c == Columns(columns, n)
      size == Canvas(columns, n, cw, ch)
  IN  IF ~Fits(size.w, size.h) THEN Refused
      ELSE [w |-> size.w, h |-> size.h,
            cells |-> [k \in 0 .. n - 1 |-> <<(k % c) * cw, (k \div Rows(columns, n)) * ch>>]]
PillowMontage(columns, n, cw, ch) ==
  LET c == Columns(columns, n)
      size == Canvas(columns, n, cw, ch)
  IN  IF ~Fits(size.w, size.h) THEN Refused
      ELSE [w |-> size.w, h |-> size.h,
            cells |-> [k \in 0 .. n - 1 |-> <<(k % c) * cw, (k \div c) * ch>>]]
\* The gravity of the cells, center, holds for the column too: a last row that
\* is shorter than the others is centred.
MagickMontage(columns, n, cw, ch) ==
  LET c == Columns(columns, n)
      size == Canvas(columns, n, cw, ch)
      start == [k \in 0 .. n - 1 |-> Max({s \in 0 .. k : s % c = 0})]
      inset == [k \in 0 .. n - 1 |->
                  IF start[k] = start[n - 1] THEN HalvesApart(size.w, cw * (n - start[n - 1])) ELSE 0]
  IN  [w |-> size.w, h |-> size.h,
       cells |-> [k \in 0 .. n - 1 |->
         <<inset[k] + cw * (k - start[k]), ch * Cardinality({s \in 0 .. start[k] - 1 : s % c = 0})>>]]
----------------------------------------------------------------------------
Stages == {"start", "editing", "done", "laid out"}

Init ==
  /\ step = "start"
  /\ pil = Refused /\ mag = Refused /\ gravity = "northwest"
  /\ source = 1 /\ exact = TRUE /\ edits = 0

\* _open_pillow checks the size of what it opens; ImageMagick's policy checks
\* the sides alone, so a file of too many pixels is refused by one of the two.
Open ==
  /\ step = "start"
  /\ \E i \in Image :
       /\ pil' = Checked(i) /\ mag' = i /\ source' = i.o
       /\ exact' = Fits(i.w, i.h)
  /\ step' = "editing"
  /\ UNCHANGED <<gravity, edits>>

\* One pass of the loops over the list of edits.
ApplyEdit ==
  /\ step = "editing" /\ edits < MaxEdits
  /\ \E e \in Edit :
       /\ pil' = Pillow(pil, e) /\ mag' = Magick(mag, gravity, e)
       /\ gravity' = GravityAfter(gravity, e)
       /\ exact' = (exact /\ Portable(mag, gravity, e))
  /\ edits' = edits + 1
  /\ UNCHANGED <<step, source>>

\* The file is written, with or without its metadata.  Pillow copies the EXIF
\* block of the source, ImageMagick the one its edits have kept up to date.
Save ==
  /\ step = "editing" /\ edits > 0 /\ mag # Refused
  /\ \E strip \in BOOLEAN :
       /\ pil' = IF pil = Refused THEN Refused ELSE [pil EXCEPT !.o = IF strip THEN 1 ELSE source]
       /\ mag' = [mag EXCEPT !.o = IF strip THEN 1 ELSE @]
       /\ exact' = (exact /\ (strip \/ mag.o = source))
  /\ step' = "done"
  /\ UNCHANGED <<gravity, source, edits>>

\* image_compose, overlay: where the layer's corner is put.
Overlay ==
  /\ step = "start"
  /\ \E base, item \in [w : Side, h : Side],
        corner \in {"northwest", "northeast", "southwest", "southeast", "center"} :
       /\ pil' = PillowPlace(base, item, corner)
       /\ mag' = MagickPlace(base, item, corner)
       /\ exact' = (corner # "center" /\ item.w + Margin <= base.w /\ item.h + Margin <= base.h)
  /\ step' = "laid out"
  /\ UNCHANGED <<gravity, source, edits>>

\* image_compose, montage.
Montage ==
  /\ step = "start"
  /\ \E columns \in Side, n \in 1 .. MaxSide + 1, cw, ch \in 1 .. 2 :
       /\ pil' = PillowMontage(columns, n, cw, ch)
       /\ mag' = MagickMontage(columns, n, cw, ch)
       /\ exact' = (Fits(mag'.w, mag'.h) /\ n % Columns(columns, n) = 0)
  /\ step' = "laid out"
  /\ UNCHANGED <<gravity, source, edits>>

Next == Open \/ ApplyEdit \/ Save \/ Overlay \/ Montage
Spec == Init /\ [][Next]_vars
----------------------------------------------------------------------------
TypeOK ==
  /\ step \in Stages /\ source \in {1, 6} /\ exact \in BOOLEAN /\ edits \in 0 .. MaxEdits
  /\ gravity \in Gravities \cup {"northwest"}
  /\ step \in {"editing", "done"} =>
       pil \in Image \cup {Refused} /\ mag \in Image \cup {Refused}

\* What a call gets does not depend on the engine its node happens to have: on
\* the edits and layouts both support, image_edit and image_compose put every
\* pixel at the same place (edit_pillow against edit_imagemagick,
\* compose_pillow against compose_imagemagick).
EnginesAgree == exact => pil = mag
=============================================================================
