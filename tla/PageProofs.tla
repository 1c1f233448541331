----------------------------- MODULE PageProofs -----------------------------
(***************************************************************************)
(* Invariants of the canvas with the detection regions and of nine more     *)
(* parts of the web pages, for every value of their constants: the weekly   *)
(* grid, the picture under the regions, the alarm and face forms, the       *)
(* settings pages, the lists of captures and of recordings, the session,    *)
(* and the network page.  The parts share nothing; each has its own         *)
(* variables and its own section.  The types of all come last.              *)
(***************************************************************************)
EXTENDS MCWebPages, Integers, Sequences, FiniteSetTheorems, TLAPS

-----------------------------------------------------------------------------
\* The region canvas, for every size of the picture, number of regions and
\* set of pointer positions

Point == Int \X Int
Rect == {r \in Region : InPicture(r)}

\* The four things a drag may be; a move and a resize start from a region
DragNone == [mode : {"none"}]
DragDraw == [mode : {"draw"}, start : Point]
DragMove == [mode : {"move"}, start : Point, orig : Region]
DragResize == [mode : {"resize"}, corner : [west : BOOLEAN, north : BOOLEAN],
               start : Point, orig : Region]
Drags == DragNone \cup DragDraw \cup DragMove \cup DragResize

\* The inductive invariant: what a drag remembers is typed, every region is
\* empty or in the picture, and the selection is none or the active region
CanvasInv ==
    /\ regions \in [Indices -> {Empty} \cup Rect]
    /\ activeIndex \in Indices
    /\ selected \in {-1, activeIndex}
    /\ drag \in Drags

-----------------------------------------------------------------------------
\* clamp gives a number between its bounds
LEMMA ClampBounds ==
    ASSUME NEW v \in Int, NEW lo \in Int, NEW hi \in Int, lo <= hi
    PROVE  /\ clamp(v, lo, hi) \in Int
           /\ lo <= clamp(v, lo, hi) /\ clamp(v, lo, hi) <= hi
BY DEF clamp

\* Rounding a number of halves gives an integer
LEMMA RoundInt ==
    ASSUME NEW v \in Int
    PROVE  Round(v) \in Int
BY DEF Round

\* One axis of normRect gives a span of at least one pixel inside the side,
\* whatever the drag was
LEMMA AxisInPicture ==
    ASSUME NEW a \in Int, NEW l \in Int, NEW n \in Nat \ {0}
    PROVE  /\ From(a, l, n) \in Int /\ Length(a, l, n) \in Int
           /\ 0 <= From(a, l, n) /\ 1 <= Length(a, l, n)
           /\ From(a, l, n) + Length(a, l, n) <= n
<1> DEFINE f == From(a, l, n)
<1>1. Round(Least(a, l)) \in Int
  <2>1. Least(a, l) \in Int
    BY DEF Least
  <2> QED BY <2>1, RoundInt
<1>2. Round(Size(l)) \in Int
  <2>1. Size(l) \in Int
    BY DEF Size
  <2> QED BY <2>1, RoundInt
<1>3. f \in Int /\ 0 <= f /\ f <= n - 1
  <2>1. n - 1 \in Int /\ 0 <= n - 1
    OBVIOUS
  <2>2. f = clamp(Round(Least(a, l)), 0, n - 1)
    BY DEF From
  <2> HIDE DEF f
  <2> QED BY <1>1, <2>1, <2>2, ClampBounds
<1>4. /\ Length(a, l, n) \in Int
      /\ 1 <= Length(a, l, n) /\ Length(a, l, n) <= n - f
  <2>1. n - f \in Int /\ 1 <= n - f
    BY <1>3
  <2>2. Length(a, l, n) = clamp(Round(Size(l)), 1, n - f)
    BY DEF Length
  <2> DEFINE s == Round(Size(l))
             t == n - f
  <2>3. s \in Int /\ t \in Int /\ 1 <= t
    BY <1>2, <2>1
  <2> HIDE DEF s, t, f
  <2>4. clamp(s, 1, t) \in Int /\ 1 <= clamp(s, 1, t) /\ clamp(s, 1, t) <= t
    BY <2>3, ClampBounds
  <2> QED BY <2>2, <2>4 DEF s, t
<1> HIDE DEF f
<1>5. f + Length(a, l, n) <= n
  BY <1>3, <1>4
<1> QED BY <1>3, <1>4, <1>5 DEF f

\* normRect gives a region in the picture
LEMMA NormRectInPicture ==
    ASSUME NEW x \in Int, NEW y \in Int, NEW w \in Int, NEW h \in Int
    PROVE  normRect(x, y, w, h) \in Rect
<1>1. /\ From(x, w, W) \in Int /\ Length(x, w, W) \in Int
      /\ 0 <= From(x, w, W) /\ 1 <= Length(x, w, W)
      /\ From(x, w, W) + Length(x, w, W) <= W
  BY AxisInPicture, CanvasAssumption
<1>2. /\ From(y, h, H) \in Int /\ Length(y, h, H) \in Int
      /\ 0 <= From(y, h, H) /\ 1 <= Length(y, h, H)
      /\ From(y, h, H) + Length(y, h, H) <= H
  BY AxisInPicture, CanvasAssumption
<1> QED BY <1>1, <1>2 DEF normRect, Rect, Region, InPicture

\* The form's regions are records of integers
LEMMA RegionsTyped == {Empty} \cup Rect \subseteq Region
<1>1. Empty \in Region
  BY DEF Empty, Region
<1>2. Rect \subseteq Region
  BY DEF Rect
<1> QED BY <1>1, <1>2

-----------------------------------------------------------------------------
LEMMA InitOK == Init => CanvasInv
<1> SUFFICES ASSUME Init PROVE CanvasInv
  OBVIOUS
<1>1. 0 \in Indices
  BY CanvasAssumption DEF Indices
<1>2. drag \in DragNone
  BY DEF Init, NoDrag, DragNone
<1> QED BY <1>1, <1>2 DEF Init, CanvasInv, Drags

\* A press remembers where it was and the region it took
LEMMA DownOK ==
    ASSUME CanvasInv, NEW p \in Points, onPointerDown(p)
    PROVE  CanvasInv'
<1> DEFINE r == regions[activeIndex]
<1>1. p \in Point
  BY CanvasAssumption DEF Point
<1>2. r \in Region
  BY RegionsTyped DEF CanvasInv
<1>3. CornerTaken(r, p) \in [west : BOOLEAN, north : BOOLEAN]
  BY DEF CornerTaken, Near
<1>4. \/ drag' = [mode |-> "resize", corner |-> CornerTaken(r, p), start |-> p, orig |-> r]
      \/ drag' = [mode |-> "move", start |-> p, orig |-> r]
      \/ drag' = [mode |-> "draw", start |-> p]
  BY DEF onPointerDown
<1> HIDE DEF r
<1>5. drag' \in Drags
  BY <1>1, <1>2, <1>3, <1>4 DEF Drags, DragDraw, DragMove, DragResize
<1> QED BY <1>5 DEF CanvasInv, onPointerDown

\* A rectangle written at the active region keeps the invariant
LEMMA WriteOK ==
    ASSUME CanvasInv, NEW q \in Rect, regions' = [regions EXCEPT ![activeIndex] = q],
           selected' \in {-1, activeIndex}, UNCHANGED <<activeIndex, drag>>
    PROVE  CanvasInv'
BY DEF CanvasInv

\* A drag that moves or resizes writes only with a selection, and then to the
\* active region
LEMMA SelectedOK ==
    ASSUME CanvasInv, NEW q \in Rect,
           regions' = IF selected < 0 THEN regions ELSE [regions EXCEPT ![selected] = q],
           UNCHANGED <<selected, activeIndex, drag>>
    PROVE  /\ CanvasInv'
           /\ \A i \in Indices : regions'[i] # regions[i] => i = activeIndex
<1>1. CASE selected < 0
  BY <1>1 DEF CanvasInv
<1>2. CASE ~(selected < 0)
  <2>1. selected = activeIndex
    BY <1>2 DEF CanvasInv
  <2> QED BY <1>2, <2>1, WriteOK DEF CanvasInv
<1> QED BY <1>1, <1>2

\* Every move of the pointer writes what normRect gives, to the active region
LEMMA MoveOK ==
    ASSUME CanvasInv, NEW p \in Points, onPointerMove(p)
    PROVE  /\ CanvasInv'
           /\ \A i \in Indices : regions'[i] # regions[i] => i = activeIndex
<1>0. p[1] \in Int /\ p[2] \in Int /\ UNCHANGED <<activeIndex, drag>>
  BY CanvasAssumption DEF onPointerMove
<1>1. CASE Drawing(p)
  <2>1. drag \in DragDraw
    BY <1>1 DEF CanvasInv, Drags, DragNone, DragDraw, DragMove, DragResize, Drawing
  <2>2. drag.start[1] \in Int /\ drag.start[2] \in Int
    BY <2>1 DEF DragDraw, Point
  <2> DEFINE q == normRect(drag.start[1], drag.start[2],
                           p[1] - drag.start[1], p[2] - drag.start[2])
  <2>3. q \in Rect
    BY <1>0, <2>2, NormRectInPicture
  <2>4. regions' = [regions EXCEPT ![activeIndex] = q] /\ selected' = activeIndex
    BY <1>1 DEF Drawing
  <2> HIDE DEF q
  <2>5. CanvasInv'
    BY <1>0, <2>3, <2>4, WriteOK
  <2> QED BY <2>4, <2>5 DEF CanvasInv
<1>2. CASE Moving(p)
  <2>1. drag \in DragMove
    BY <1>2 DEF CanvasInv, Drags, DragNone, DragDraw, DragMove, DragResize, Moving
  <2> DEFINE o == drag.orig
             dx == Round(p[1] - drag.start[1])
             dy == Round(p[2] - drag.start[2])
             q == normRect(2 * (o.x + dx), 2 * (o.y + dy), 2 * o.w, 2 * o.h)
  <2>2. /\ drag.start[1] \in Int /\ drag.start[2] \in Int
        /\ o.x \in Int /\ o.y \in Int /\ o.w \in Int /\ o.h \in Int
    BY <2>1 DEF DragMove, Point, Region
  <2>3. dx \in Int /\ dy \in Int
    BY <1>0, <2>2, RoundInt
  <2>4. q \in Rect
    <3> HIDE DEF o, dx, dy
    <3>1. /\ 2 * (o.x + dx) \in Int /\ 2 * (o.y + dy) \in Int
          /\ 2 * o.w \in Int /\ 2 * o.h \in Int
      BY <2>2, <2>3
    <3> QED BY <3>1, NormRectInPicture
  <2>5. /\ regions' = IF selected < 0 THEN regions ELSE [regions EXCEPT ![selected] = q]
        /\ UNCHANGED selected
    BY <1>2 DEF Moving
  <2> HIDE DEF q
  <2> QED BY <1>0, <2>4, <2>5, SelectedOK
<1>3. CASE Resizing(p)
  <2>1. drag \in DragResize
    BY <1>3 DEF CanvasInv, Drags, DragNone, DragDraw, DragMove, DragResize, Resizing
  <2> DEFINE o == drag.orig
             x1 == IF drag.corner.west THEN p[1] ELSE 2 * o.x
             x2 == IF drag.corner.west THEN 2 * (o.x + o.w) ELSE p[1]
             y1 == IF drag.corner.north THEN p[2] ELSE 2 * o.y
             y2 == IF drag.corner.north THEN 2 * (o.y + o.h) ELSE p[2]
             q == normRect(x1, y1, x2 - x1, y2 - y1)
  <2>2. o.x \in Int /\ o.y \in Int /\ o.w \in Int /\ o.h \in Int
    BY <2>1 DEF DragResize, Region
  <2>3. x1 \in Int /\ x2 \in Int /\ y1 \in Int /\ y2 \in Int
    BY <1>0, <2>2
  <2>4. q \in Rect
    <3> HIDE DEF x1, x2, y1, y2
    <3>1. x2 - x1 \in Int /\ y2 - y1 \in Int
      BY <2>3
    <3> QED BY <2>3, <3>1, NormRectInPicture
  <2>5. /\ regions' = IF selected < 0 THEN regions ELSE [regions EXCEPT ![selected] = q]
        /\ UNCHANGED selected
    BY <1>3 DEF Resizing
  <2> HIDE DEF q
  <2> QED BY <1>0, <2>4, <2>5, SelectedOK
<1> QED BY <1>1, <1>2, <1>3 DEF onPointerMove

\* Emptying the active region
LEMMA ClearOK ==
    ASSUME CanvasInv, clearSelected
    PROVE  /\ CanvasInv'
           /\ \A i \in Indices : regions'[i] # regions[i] => i = activeIndex
BY DEF CanvasInv, clearSelected

LEMMA CanvasNextOK ==
    ASSUME CanvasInv, [Next]_canvasVars
    PROVE  /\ CanvasInv'
           /\ \A i \in Indices : regions'[i] # regions[i] => i = activeIndex
<1>1. CASE \E p \in Points : onPointerDown(p)
  <2>1. PICK p \in Points : onPointerDown(p)
    BY <1>1
  <2>2. UNCHANGED regions
    BY <2>1 DEF onPointerDown
  <2> QED BY <2>1, <2>2, DownOK
<1>2. CASE \E p \in Points : onPointerMove(p)
  BY <1>2, MoveOK
<1>3. CASE onPointerUp
  <2>1. drag' \in DragNone
    BY <1>3 DEF onPointerUp, NoDrag, DragNone
  <2> QED BY <1>3, <2>1 DEF onPointerUp, CanvasInv, Drags
<1>4. CASE clearSelected
  BY <1>4, ClearOK
<1>5. CASE \E i \in Indices : Choose(i)
  BY <1>5 DEF Choose, CanvasInv
<1>6. CASE UNCHANGED canvasVars
  BY <1>6 DEF canvasVars, CanvasInv
<1> QED BY <1>1, <1>2, <1>3, <1>4, <1>5, <1>6 DEF Next

LEMMA SpecCanvasInv == Spec => []CanvasInv
<1>1. CanvasInv /\ [Next]_canvasVars => CanvasInv'
  BY CanvasNextOK
<1> QED BY InitOK, <1>1, PTL DEF Spec

-----------------------------------------------------------------------------
\* Every variable of the canvas keeps its type.
THEOREM CanvasTypesOK == Spec => []TypeOK
<1>1. CanvasInv => TypeOK
  <2> SUFFICES ASSUME CanvasInv PROVE TypeOK
    OBVIOUS
  <2>1. regions \in [Indices -> Region]
    BY RegionsTyped DEF CanvasInv
  <2>2. selected \in {-1} \cup Indices
    BY DEF CanvasInv
  <2>3. drag.mode \in {"none", "draw", "move", "resize"}
    BY DEF CanvasInv, Drags, DragNone, DragDraw, DragMove, DragResize
  <2> QED BY <2>1, <2>2, <2>3 DEF CanvasInv, TypeOK
<1> QED BY SpecCanvasInv, <1>1, PTL

\* However far outside the picture the captured pointer goes, whatever corner
\* is dragged across another and whichever region is chosen meanwhile, every
\* region of the form is empty or lies inside the picture with at least one
\* pixel (normRect of RegionDrawCanvas.vue).
THEOREM AlwaysInPicture == Spec => []RegionsInPicture
<1>1. CanvasInv => RegionsInPicture
  BY DEF CanvasInv, RegionsInPicture, Rect
<1> QED BY SpecCanvasInv, <1>1, PTL

\* No step edits a region that is not the active one, with the active region
\* changing during a drag (the watcher on activeIndex).
THEOREM AlwaysOnlyActiveEdited == Spec => OnlyActiveEdited
<1>1. CanvasInv /\ [Next]_canvasVars
        => [\A i \in Indices : regions'[i] # regions[i] => i = activeIndex]_canvasVars
  BY CanvasNextOK
<1> QED BY SpecCanvasInv, <1>1, PTL DEF Spec, OnlyActiveEdited

-----------------------------------------------------------------------------
\* The weekly grid

\* The stroke's promise with the types it needs, and: a pointer held outside
\* the grid paints only if it is captured
GridInv ==
    /\ Grid!StrokePaintsOneWay
    /\ painting \in {"null", "0", "1"}
    /\ pointer \in Grid!Cells \cup {<<"up">>, <<"outside">>}
    /\ pointer = <<"outside">> /\ ~captures => painting = "null"
    /\ modelValue \in Grid!Grids \/ modelValue = Grid!Full("?")
    /\ captures \in BOOLEAN

LEMMA CellsAreNoPlace ==
    ASSUME NEW c \in Grid!Cells
    PROVE  c # <<"up">> /\ c # <<"outside">>
<1>1. PICK d \in Days, h \in Hours : c = <<d, h>>
  BY DEF Grid!Cells
<1>2. Len(<<d, h>>) = 2 /\ Len(<<"up">>) = 1 /\ Len(<<"outside">>) = 1
  OBVIOUS
<1> QED BY <1>1, <1>2

LEMMA CellsTyped ==
    ASSUME modelValue \in Grid!Grids \/ modelValue = Grid!Full("?")
    PROVE  Grid!cells \in Grid!Grids
BY DEF Grid!cells, Grid!ensureGrid, Grid!Full, Grid!Grids

\* Painting one cell
LEMMA PaintOK ==
    ASSUME Grid!cells \in Grid!Grids, NEW c \in Grid!Cells, NEW ch \in {"0", "1"},
           modelValue' = [Grid!cells EXCEPT ![c] = ch]
    PROVE  /\ modelValue' \in Grid!Grids
           /\ Grid!cells' = [Grid!cells EXCEPT ![c] = ch]
<1>1. modelValue' \in Grid!Grids
  BY DEF Grid!Grids
<1> QED BY <1>1 DEF Grid!cells, Grid!ensureGrid

LEMMA GridStep ==
    ASSUME GridInv, [Grid!Next]_Grid!gridVars
    PROVE  GridInv'
<1>0. Grid!cells \in Grid!Grids
  BY CellsTyped DEF GridInv
<1>1. ASSUME NEW c \in Grid!Cells, Grid!onDown(c)
      PROVE  GridInv'
  <2>1. pointer' = c /\ pointer = <<"up">> /\ c # <<"up">> /\ c # <<"outside">>
    BY <1>1, CellsAreNoPlace DEF Grid!onDown
  <2>2. painting = "null"
    BY <2>1 DEF GridInv, Grid!StrokePaintsOneWay
  <2>3. CASE disabled
    <3>1. /\ UNCHANGED modelValue /\ UNCHANGED painting /\ UNCHANGED captures
      BY <1>1, <2>3 DEF Grid!onDown
    <3> QED BY <2>1, <2>2, <3>1 DEF GridInv, Grid!StrokePaintsOneWay
  <2>4. CASE ~disabled
    <3>1. /\ painting' = Grid!Flip(Grid!cells[c])
          /\ modelValue' = [Grid!cells EXCEPT ![c] = painting']
          /\ stroke' = [at |-> Grid!cells, over |-> {c}]
          /\ UNCHANGED captures
      BY <1>1, <2>4 DEF Grid!onDown, Grid!setCell
    <3>2. painting' \in {"0", "1"}
      BY <3>1 DEF Grid!Flip
    <3>3. /\ modelValue' \in Grid!Grids
          /\ Grid!cells' = [Grid!cells EXCEPT ![c] = painting']
      BY <1>0, <3>1, <3>2, PaintOK
    <3>4. \A d \in Grid!Cells :
            Grid!cells'[d] = IF d \in stroke'.over THEN painting' ELSE stroke'.at[d]
      BY <1>0, <3>1, <3>3 DEF Grid!Grids
    <3> QED BY <2>1, <3>1, <3>2, <3>3, <3>4 DEF GridInv, Grid!StrokePaintsOneWay, Grid!Cells
  <2> QED BY <2>3, <2>4
<1>2. ASSUME NEW c \in Grid!Cells, Grid!onEnter(c)
      PROVE  GridInv'
  <2>1. /\ pointer' = c /\ c # <<"up">> /\ c # <<"outside">>
        /\ UNCHANGED painting /\ UNCHANGED captures
    BY <1>2, CellsAreNoPlace DEF Grid!onEnter
  <2>2. CASE painting = "null" \/ disabled \/ captures
    <3>1. UNCHANGED modelValue /\ UNCHANGED stroke
      BY <1>2, <2>2 DEF Grid!onEnter
    <3>2. UNCHANGED Grid!cells
      BY <3>1 DEF Grid!cells
    <3> QED BY <2>1, <3>1, <3>2 DEF GridInv, Grid!StrokePaintsOneWay, Grid!Cells
  <2>3. CASE ~(painting = "null" \/ disabled \/ captures)
    <3>1. /\ modelValue' = [Grid!cells EXCEPT ![c] = painting]
          /\ stroke' = [stroke EXCEPT !.over = @ \cup {c}]
      BY <1>2, <2>3 DEF Grid!onEnter, Grid!setCell
    <3>2. painting \in {"0", "1"}
      BY <2>3 DEF GridInv
    <3>3. /\ modelValue' \in Grid!Grids
          /\ Grid!cells' = [Grid!cells EXCEPT ![c] = painting]
      BY <1>0, <3>1, <3>2, PaintOK
    <3>4. \A d \in Grid!Cells :
            Grid!cells[d] = IF d \in stroke.over THEN painting ELSE stroke.at[d]
      BY <2>3 DEF GridInv, Grid!StrokePaintsOneWay
    <3>5. \A d \in Grid!Cells :
            Grid!cells'[d] = IF d \in stroke'.over THEN painting' ELSE stroke'.at[d]
      BY <1>0, <2>1, <3>1, <3>3, <3>4 DEF Grid!Grids
    <3> QED BY <2>1, <3>2, <3>3, <3>5 DEF GridInv, Grid!StrokePaintsOneWay, Grid!Cells
  <2> QED BY <2>2, <2>3
<1>3. ASSUME Grid!Leave
      PROVE  GridInv'
  <2>1. /\ pointer' = <<"outside">> /\ painting' = IF captures THEN painting ELSE "null"
        /\ UNCHANGED modelValue /\ UNCHANGED captures /\ UNCHANGED stroke
        /\ pointer \in Grid!Cells
    BY <1>3 DEF Grid!Leave
  <2>2. UNCHANGED Grid!cells /\ <<"outside">> # <<"up">>
    BY <2>1 DEF Grid!cells
  <2>3. pointer # <<"up">>
    BY <2>1, CellsAreNoPlace
  <2> QED BY <2>1, <2>2, <2>3 DEF GridInv, Grid!StrokePaintsOneWay, Grid!Cells
<1>4. ASSUME Grid!onUp
      PROVE  GridInv'
  <2>1. /\ pointer' = <<"up">>
        /\ painting' = IF captures \/ pointer \in Grid!Cells THEN "null" ELSE painting
        /\ pointer # <<"up">>
        /\ UNCHANGED modelValue /\ UNCHANGED captures
    BY <1>4 DEF Grid!onUp
  <2>2. painting' = "null"
    BY <2>1 DEF GridInv
  <2> QED BY <2>1, <2>2 DEF GridInv, Grid!StrokePaintsOneWay
<1>5. ASSUME NEW g \in Grid!Grids, Grid!Fill(g)
      PROVE  GridInv'
  <2>1. /\ pointer = <<"up">> /\ modelValue' = g /\ UNCHANGED pointer
        /\ UNCHANGED painting /\ UNCHANGED captures
    BY <1>5 DEF Grid!Fill
  <2>2. painting = "null"
    BY <2>1 DEF GridInv, Grid!StrokePaintsOneWay
  <2> QED BY <2>1, <2>2 DEF GridInv, Grid!StrokePaintsOneWay
<1>6. ASSUME Grid!Disable \/ UNCHANGED Grid!gridVars
      PROVE  GridInv'
  <2>1. /\ UNCHANGED modelValue /\ UNCHANGED painting /\ UNCHANGED pointer
        /\ UNCHANGED captures /\ UNCHANGED stroke
    BY <1>6 DEF Grid!Disable, Grid!gridVars
  <2>2. UNCHANGED Grid!cells
    BY <2>1 DEF Grid!cells
  <2> QED BY <2>1, <2>2 DEF GridInv, Grid!StrokePaintsOneWay, Grid!Cells
<1>7. ASSUME NEW raw \in {Grid!Full("1"), Grid!Full("?")}, Grid!Replace(raw)
      PROVE  GridInv'
  <2>1. /\ modelValue' = raw /\ stroke' = [at |-> Grid!cells', over |-> {}]
        /\ UNCHANGED painting /\ UNCHANGED pointer /\ UNCHANGED captures
    BY <1>7 DEF Grid!Replace
  <2>2. modelValue' \in Grid!Grids \/ modelValue' = Grid!Full("?")
    BY <2>1 DEF Grid!Full, Grid!Grids
  <2>3. \A d \in Grid!Cells :
          Grid!cells'[d] = IF d \in stroke'.over THEN painting' ELSE stroke'.at[d]
    BY <2>1
  <2> QED BY <2>1, <2>2, <2>3 DEF GridInv, Grid!StrokePaintsOneWay, Grid!Cells, Grid!Full
<1>8. /\ Grid!Full("0") \in Grid!Grids /\ Grid!Full("1") \in Grid!Grids
      /\ [c \in Grid!Cells |-> IF c \in Workdays \X Daytime THEN "1" ELSE "0"] \in Grid!Grids
  BY DEF Grid!Full, Grid!Grids
<1> QED
  BY <1>1, <1>2, <1>3, <1>4, <1>5, <1>6, <1>7, <1>8
  DEF Grid!Next, Grid!fillAll, Grid!fillWorkdayDaytime

\* A stroke over the weekly grid ends with its press, and while it lasts the
\* cells it has entered have its value and all others the value they had
\* (ScheduleGrid.vue).
THEOREM StrokeAlwaysOneWay == Grid!Spec => []StrokePaintsOneWay
<1>1. Grid!Init => GridInv
  BY DEF Grid!Init, GridInv, Grid!StrokePaintsOneWay, Grid!Full, Grid!Grids
<1>2. GridInv /\ [Grid!Next]_Grid!gridVars => GridInv'
  BY GridStep
<1>3. GridInv => StrokePaintsOneWay
  BY DEF GridInv, StrokePaintsOneWay
<1> QED BY <1>1, <1>2, <1>3, PTL DEF Grid!Spec

-----------------------------------------------------------------------------
\* The picture under the regions

\* The picture held is the newest; unless an older one came after it, it is
\* drawn or still being decoded; a page that was left holds no other
ShotInv ==
    /\ bgUrl = made /\ made \in Nat /\ bgImg \in Nat
    /\ mounted \in BOOLEAN /\ overtaken \in BOOLEAN
    /\ decoding \subseteq 1 .. made
    /\ mounted => live = {bgUrl} \ {0}
    /\ ~mounted => live \subseteq {bgUrl}
    /\ mounted /\ ~overtaken /\ bgUrl \notin decoding => bgImg = bgUrl

LEMMA ShotStep ==
    ASSUME ShotInv, [Shot!Next]_Shot!shotVars
    PROVE  ShotInv'
<1>1. ASSUME UNCHANGED made, UNCHANGED bgUrl, UNCHANGED live, UNCHANGED decoding,
             UNCHANGED bgImg, UNCHANGED overtaken, UNCHANGED mounted
      PROVE  ShotInv'
  BY <1>1 DEF ShotInv
<1>2. CASE Shot!OpenRegionTab \/ Shot!OpenOtherTab \/ Shot!AskAgain \/ Shot!GrabFailed
           \/ UNCHANGED Shot!shotVars
  BY <1>1, <1>2 DEF Shot!OpenRegionTab, Shot!OpenOtherTab, Shot!AskAgain, Shot!GrabFailed,
                    Shot!Ask, Shot!shotVars
<1>3. CASE Shot!Grabbed
  <2>1. /\ made' = made + 1 /\ live' = (live \ {bgUrl}) \cup {made'} /\ bgUrl' = made'
        /\ decoding' = (IF mounted THEN decoding \cup {made'} ELSE decoding)
        /\ UNCHANGED bgImg /\ UNCHANGED overtaken /\ UNCHANGED mounted
    BY <1>3 DEF Shot!Grabbed
  <2>2. live \ {bgUrl} = {}
    BY DEF ShotInv
  <2>3. live' = {bgUrl'} /\ bgUrl' # 0
    BY <2>1, <2>2 DEF ShotInv
  <2>4. decoding' \subseteq 1 .. made'
    BY <2>1 DEF ShotInv
  <2>5. mounted => bgUrl' \in decoding'
    BY <2>1
  <2> QED BY <2>1, <2>3, <2>4, <2>5 DEF ShotInv
<1>4. CASE \E u \in decoding : Shot!Decoded(u)
  <2>1. PICK u \in decoding : Shot!Decoded(u)
    BY <1>4
  <2>2. /\ decoding' = decoding \ {u} /\ bgImg' = u
        /\ overtaken' = (u # bgUrl /\ (overtaken \/ u < bgImg))
        /\ UNCHANGED made /\ UNCHANGED bgUrl /\ UNCHANGED live /\ UNCHANGED mounted
    BY <2>1 DEF Shot!Decoded
  <2>3. u \in 1 .. made
    BY DEF ShotInv
  <2>4. ASSUME mounted, ~overtaken', bgUrl \notin decoding' PROVE bgImg' = bgUrl
    <3>1. CASE u = bgUrl
      BY <2>2, <3>1
    <3>2. CASE u # bgUrl
      <4>1. ~overtaken /\ ~(u < bgImg) /\ bgUrl \notin decoding
        BY <2>2, <2>4, <3>2
      <4>2. bgImg = made
        BY <2>4, <4>1 DEF ShotInv
      <4> QED BY <2>3, <3>2, <4>1, <4>2 DEF ShotInv
    <3> QED BY <3>1, <3>2
  <2>5. overtaken' \in BOOLEAN /\ decoding' \subseteq 1 .. made' /\ bgImg' \in Nat
    BY <2>2, <2>3 DEF ShotInv
  <2> QED BY <2>2, <2>4, <2>5 DEF ShotInv
<1>5. CASE \E u \in decoding : Shot!DecodeFailed(u)
  BY <1>5 DEF Shot!DecodeFailed, ShotInv
<1>6. CASE Shot!Leave
  BY <1>6 DEF Shot!Leave, ShotInv
<1> QED BY <1>2, <1>3, <1>4, <1>5, <1>6 DEF Shot!Next

\* The URL shown is not revoked under the canvas, no older one is left behind,
\* and the newest picture is drawn unless an older one was decoded after it,
\* for any number of grabs (refreshBg of AlarmView.vue and FaceCaptureView.vue).
THEOREM ShotAlwaysKept == Shot!Spec => []ShotKept
<1>1. Shot!Init => ShotInv
  <2> SUFFICES ASSUME Shot!Init PROVE ShotInv
    OBVIOUS
  <2>1. /\ bgUrl = 0 /\ made = 0 /\ bgImg = 0 /\ live = {} /\ decoding = {}
        /\ mounted = TRUE /\ overtaken = FALSE
    BY DEF Shot!Init
  <2>2. live = {bgUrl} \ {0} /\ decoding \subseteq 1 .. made
    BY <2>1
  <2> QED BY <2>1, <2>2 DEF ShotInv
<1>2. ShotInv /\ [Shot!Next]_Shot!shotVars => ShotInv'
  BY ShotStep
<1>3. ShotInv => ShotKept
  BY DEF ShotInv, ShotKept, Shot!ShotKept
<1> QED BY <1>1, <1>2, <1>3, PTL DEF Shot!Spec

-----------------------------------------------------------------------------
\* The alarm and face forms

\* The form is the edit or the stored settings at all times; a load overlaps no
\* save that is still under way, and a save that nobody edited after is the form
AlarmInv ==
    /\ motion \in Alarm!Gears \cup {Alarm!NoForm} /\ edit \in Alarm!Gears \cup {Alarm!NoForm}
    /\ stored \in Alarm!Settings
    /\ motion # Alarm!NoForm =>
         motion = IF edit # Alarm!NoForm THEN edit ELSE Alarm!ensureDefaults(stored)
    /\ \/ alarmLoad = Alarm!Idle
       \/ /\ alarmLoad = [st |-> "sent", set |-> alarmLoad.set, events |-> alarmLoad.events]
          /\ alarmLoad.set \in {Alarm!Pending, stored}
          /\ alarmSave.st \in {"idle", "refresh"}
    /\ alarmSave.st = "sent" =>
         /\ alarmSave.set \in Alarm!Gears /\ motion # Alarm!NoForm
         /\ edit = Alarm!NoForm => motion = alarmSave.set

LEMMA AlarmStep ==
    ASSUME AlarmInv, [Alarm!Next]_Alarm!alarmVars
    PROVE  AlarmInv'
<1>0. /\ Alarm!Idle.st = "idle" /\ Alarm!NoForm \notin Alarm!Gears
      /\ \A s \in Alarm!Settings : Alarm!ensureDefaults(s) \in Alarm!Gears
      /\ \A s \in Alarm!Gears : Alarm!ensureDefaults(s) = s /\ s \in Alarm!Settings
  BY DEF Alarm!Idle, Alarm!NoForm, Alarm!Gears, Alarm!Settings, Alarm!ensureDefaults
<1>1. ASSUME UNCHANGED motion, UNCHANGED stored, UNCHANGED edit, UNCHANGED alarmLoad,
             UNCHANGED alarmSave
      PROVE  AlarmInv'
  BY <1>1 DEF AlarmInv
<1>2. CASE \/ Alarm!PollTick \/ Alarm!PollRead \/ Alarm!PollLost \/ Alarm!PollAnswer
           \/ Alarm!Event \/ Alarm!Leave \/ UNCHANGED Alarm!alarmVars
  BY <1>1, <1>2 DEF Alarm!PollTick, Alarm!PollRead, Alarm!PollLost, Alarm!PollAnswer,
                    Alarm!Event, Alarm!Leave, Alarm!alarmVars
<1>3. CASE Alarm!LoadSettings \/ Alarm!LoadEvents
  <2>1. /\ alarmLoad.st = "sent"
        /\ \/ alarmLoad' = [alarmLoad EXCEPT !.set = stored]
           \/ alarmLoad' = [alarmLoad EXCEPT !.events = happened]
        /\ UNCHANGED motion /\ UNCHANGED stored /\ UNCHANGED edit /\ UNCHANGED alarmSave
    BY <1>3 DEF Alarm!LoadSettings, Alarm!LoadEvents
  <2>2. /\ alarmLoad = [st |-> "sent", set |-> alarmLoad.set, events |-> alarmLoad.events]
        /\ alarmLoad.set \in {Alarm!Pending, stored}
        /\ alarmSave.st \in {"idle", "refresh"}
    BY <1>0, <2>1 DEF AlarmInv
  <2>3. /\ alarmLoad' = [st |-> "sent", set |-> alarmLoad'.set, events |-> alarmLoad'.events]
        /\ alarmLoad'.set \in {Alarm!Pending, stored}
    BY <2>1, <2>2
  <2> QED BY <2>1, <2>2, <2>3 DEF AlarmInv
<1>4. CASE Alarm!Loaded
  <2>1. /\ alarmLoad.st = "sent" /\ alarmLoad.set # Alarm!Pending
        /\ alarmLoad' = Alarm!Idle /\ edit' = Alarm!NoForm
        /\ motion' = Alarm!ensureDefaults(alarmLoad.set)
        /\ UNCHANGED stored /\ UNCHANGED alarmSave
    BY <1>4 DEF Alarm!Loaded
  <2>2. alarmLoad.set = stored /\ alarmSave.st \in {"idle", "refresh"}
    BY <1>0, <2>1 DEF AlarmInv
  <2> QED BY <1>0, <2>1, <2>2 DEF AlarmInv
<1>5. CASE Alarm!LoadFailed
  BY <1>5 DEF Alarm!LoadFailed, AlarmInv
<1>6. ASSUME NEW s \in Alarm!Gears, Alarm!Edit(s)
      PROVE  AlarmInv'
  BY <1>0, <1>6 DEF Alarm!Edit, Alarm!Editable, AlarmInv
<1>7. CASE Alarm!onSave
  BY <1>7 DEF Alarm!onSave, Alarm!Editable, AlarmInv
<1>8. CASE Alarm!SaveHandled
  <2>1. /\ alarmSave.st = "sent"
        /\ alarmSave' = [st |-> "ok"] \/ alarmSave' = Alarm!Lost
        /\ stored' = alarmSave.set \/ stored' = stored
        /\ UNCHANGED motion /\ UNCHANGED edit /\ UNCHANGED alarmLoad
    BY <1>8 DEF Alarm!SaveHandled
  <2>2. alarmSave'.st # "sent"
    BY <2>1 DEF Alarm!Lost
  <2>3. alarmLoad = Alarm!Idle
    BY <2>1 DEF AlarmInv
  <2> QED BY <1>0, <2>1, <2>2, <2>3 DEF AlarmInv
<1>9. CASE Alarm!SaveAnswer
  <2>1. /\ UNCHANGED motion /\ UNCHANGED stored /\ UNCHANGED edit
        /\ \/ alarmLoad' = Alarm!Loading /\ alarmSave' = [st |-> "refresh"]
           \/ alarmSave' = Alarm!Idle /\ UNCHANGED alarmLoad
    BY <1>9 DEF Alarm!SaveAnswer
  <2>2. alarmSave'.st \in {"idle", "refresh"}
    BY <1>0, <2>1
  <2>3. \/ alarmLoad' = alarmLoad
        \/ /\ alarmLoad' = [st |-> "sent", set |-> alarmLoad'.set, events |-> alarmLoad'.events]
           /\ alarmLoad'.set = Alarm!Pending
    BY <2>1 DEF Alarm!Loading
  <2> QED BY <2>1, <2>2, <2>3 DEF AlarmInv
<1> QED BY <1>2, <1>3, <1>4, <1>5, <1>6, <1>7, <1>8, <1>9 DEF Alarm!Next

\* The form is the edit or the device's settings at all times; nothing is sent
\* before the first load is over, and a save nobody edited after is the form
FaceInv ==
    /\ face \in Face!Offered \cup {Face!NoForm} /\ faceTyped \in Face!Offered \cup {Face!NoForm}
    /\ faceDevice \in Face!Settings
    /\ face # Face!NoForm =>
         face = IF faceTyped # Face!NoForm THEN faceTyped ELSE Face!ensureDefaults(faceDevice)
    /\ \/ faceLoad = Face!Idle
       \/ /\ faceLoad \in {Face!Sent, Face!Lost, Face!Back(faceDevice)}
          /\ stage # "live" /\ faceTyped = Face!NoForm /\ faceSave = Face!Idle
    /\ \/ faceSave \in {Face!Idle, Face!Lost, Face!Back(faceDevice)}
       \/ /\ faceSave.st = "sent" /\ faceSave.set \in Face!Offered /\ face # Face!NoForm
          /\ faceTyped = Face!NoForm => face = faceSave.set

LEMMA FaceStep ==
    ASSUME FaceInv, [Face!Next]_Face!formVars
    PROVE  FaceInv'
<1>0. /\ Face!Idle.st = "idle" /\ Face!Sent.st = "sent" /\ Face!Lost.st = "lost"
      /\ \A v : Face!Back(v).st = "back" /\ Face!Back(v).set = v
      /\ Face!NoForm \notin Face!Offered
      /\ \A v \in Face!Settings : Face!ensureDefaults(v) \in Face!Offered
      /\ \A v \in Face!Offered : Face!ensureDefaults(v) = v /\ v \in Face!Settings
  BY DEF Face!Idle, Face!Sent, Face!Lost, Face!Back, Face!NoForm, Face!Offered, Face!Settings,
         Face!ensureDefaults
<1>1. ASSUME UNCHANGED face, UNCHANGED faceTyped, UNCHANGED faceDevice, UNCHANGED faceSave,
             UNCHANGED faceLoad, stage' # "live" \/ stage' = stage
      PROVE  FaceInv'
  BY <1>1 DEF FaceInv
<1>2. CASE \/ Face!PollTick \/ Face!PollRead \/ Face!PollAnswer \/ Face!Leave
           \/ UNCHANGED Face!formVars
  BY <1>1, <1>2 DEF Face!PollTick, Face!PollRead, Face!PollAnswer, Face!Leave, Face!formVars
<1>3. CASE Face!LoadRead
  <2>1. /\ faceLoad = Face!Sent /\ faceLoad' \in {Face!Back(faceDevice), Face!Lost}
        /\ UNCHANGED face /\ UNCHANGED faceTyped /\ UNCHANGED faceDevice
        /\ UNCHANGED faceSave /\ UNCHANGED stage
    BY <1>3 DEF Face!LoadRead
  <2>2. stage # "live" /\ faceTyped = Face!NoForm /\ faceSave = Face!Idle
    BY <1>0, <2>1 DEF FaceInv
  <2> QED BY <2>1, <2>2 DEF FaceInv
<1>4. CASE Face!Loaded
  <2>1. /\ faceLoad.st \in {"back", "lost"} /\ faceLoad' = Face!Idle
        /\ face' = IF faceLoad.st = "back" THEN Face!ensureDefaults(faceLoad.set) ELSE face
        /\ UNCHANGED faceTyped /\ UNCHANGED faceDevice /\ UNCHANGED faceSave
    BY <1>4 DEF Face!Loaded
  <2>2. /\ faceTyped = Face!NoForm /\ faceSave = Face!Idle
        /\ faceLoad.st = "back" => faceLoad.set = faceDevice
    BY <1>0, <2>1 DEF FaceInv
  <2> QED BY <1>0, <2>1, <2>2 DEF FaceInv
<1>5. ASSUME NEW v \in Face!Offered, Face!Edit(v)
      PROVE  FaceInv'
  <2>1. /\ stage = "live" /\ face # Face!NoForm /\ face' = v /\ faceTyped' = v
        /\ UNCHANGED faceDevice /\ UNCHANGED faceLoad /\ UNCHANGED faceSave
    BY <1>5 DEF Face!Edit, Face!Editable
  <2>2. faceLoad = Face!Idle /\ faceTyped' # Face!NoForm /\ face' # Face!NoForm
    BY <1>0, <2>1 DEF FaceInv
  <2> QED BY <2>1, <2>2 DEF FaceInv
<1>6. CASE Face!onSave
  <2>1. /\ stage = "live" /\ face # Face!NoForm
        /\ faceSave' = [st |-> "sent", set |-> face]
        /\ UNCHANGED face /\ UNCHANGED faceTyped /\ UNCHANGED faceDevice
        /\ UNCHANGED faceLoad /\ UNCHANGED stage
    BY <1>6 DEF Face!onSave, Face!Editable
  <2>2. faceLoad = Face!Idle
    BY <2>1 DEF FaceInv
  <2>3. faceSave'.st = "sent" /\ faceSave'.set = face
    BY <2>1
  <2> QED BY <2>1, <2>2, <2>3 DEF FaceInv
<1>7. CASE Face!SaveHandled
  <2>1. /\ faceSave.st = "sent"
        /\ \/ faceDevice' = faceSave.set /\ faceSave' \in {Face!Back(faceDevice'), Face!Lost}
           \/ faceDevice' = faceDevice /\ faceSave' \in {Face!Back(faceDevice'), Face!Lost}
        /\ UNCHANGED face /\ UNCHANGED faceTyped /\ UNCHANGED faceLoad /\ UNCHANGED stage
    BY <1>7 DEF Face!SaveHandled
  <2>2. /\ faceSave.set \in Face!Offered /\ face # Face!NoForm
        /\ faceTyped = Face!NoForm => face = faceSave.set
    BY <1>0, <2>1 DEF FaceInv
  <2>3. faceLoad = Face!Idle
    BY <1>0, <2>1 DEF FaceInv
  <2> QED BY <1>0, <2>1, <2>2, <2>3 DEF FaceInv
<1>8. CASE Face!SaveAnswer
  <2>1. /\ faceSave.st \in {"back", "lost"} /\ faceSave' = Face!Idle
        /\ \/ /\ faceSave.st = "back" /\ face' = Face!ensureDefaults(faceSave.set)
              /\ faceTyped' = Face!NoForm
           \/ UNCHANGED face /\ UNCHANGED faceTyped
        /\ UNCHANGED faceDevice /\ UNCHANGED faceLoad /\ UNCHANGED stage
    BY <1>8 DEF Face!SaveAnswer
  <2>2. /\ faceSave.st = "back" => faceSave.set = faceDevice
        /\ faceLoad = Face!Idle
    BY <1>0, <2>1 DEF FaceInv
  <2> QED BY <1>0, <2>1, <2>2 DEF FaceInv
<1> QED BY <1>2, <1>3, <1>4, <1>5, <1>6, <1>7, <1>8 DEF Face!Next

\* Whenever no request for the settings is on the way, both forms show the
\* user's edit or else the device's settings: late, refused and lost saves, a
\* reload that fails and polls in between included (onSave, refresh and the
\* polls of AlarmView.vue and FaceCaptureView.vue).
THEOREM FormsAlwaysShow == Alarm!Spec /\ Face!Spec => []FormsShow
<1>1. Alarm!Init => AlarmInv
  BY DEF Alarm!Init, AlarmInv, Alarm!Loading, Alarm!Idle, Alarm!NoForm
<1>2. AlarmInv /\ [Alarm!Next]_Alarm!alarmVars => AlarmInv'
  BY AlarmStep
<1>3. Face!Init => FaceInv
  BY DEF Face!Init, FaceInv, Face!Idle, Face!NoForm
<1>4. FaceInv /\ [Face!Next]_Face!formVars => FaceInv'
  BY FaceStep
<1>5. AlarmInv /\ FaceInv => FormsShow
  BY DEF AlarmInv, FaceInv, FormsShow, Alarm!FormShows, Face!FormShows
<1> QED BY <1>1, <1>2, <1>3, <1>4, <1>5, PTL DEF Alarm!Spec, Face!Spec

-----------------------------------------------------------------------------
\* The settings pages

SaveTypes == {Settings!Idle} \cup [st : {"sent"}, set : Settings!Values]
             \cup [st : {"ok"}, set : Settings!Values] \cup [st : {"failed"}]

SettingsTypes ==
    /\ form \in [Settings!Parts -> Settings!Values]
    /\ device \in [Settings!Parts -> Settings!Values]
    /\ read \in [Settings!Parts -> Settings!Values \cup {Settings!Unread}]
    /\ saves \in [Settings!Parts -> SaveTypes]
    /\ loaded \in {"loading", "ok", "failed"}
    /\ partAsked \in Settings!Parts \cup {"none"}

\* Nothing was edited or sent before the load is over, and what it has read is
\* what the device still has
StillLoading(p) ==
    /\ p \notin typed /\ saves[p] = Settings!Idle
    /\ p \notin other => read[p] \in {Settings!Unread, device[p]}

\* A part that others leave alone: an untouched form shows the device's values
\* and sends nothing else, and what a save has stored is what the device has
PartOK(p) ==
    /\ p \in typed => form[p].own = "typed"
    /\ p \notin other /\ p \notin typed => form[p] = device[p]
    /\ p \notin other /\ p \notin typed /\ saves[p].st = "sent" => saves[p].set = device[p]
    /\ p \notin other /\ saves[p].st = "ok" => saves[p].set = device[p]

SettingsInv ==
    /\ SettingsTypes
    /\ loaded = "loading" => partAsked = "none"
    /\ \A p \in Settings!Parts :
         /\ loaded = "loading" => StillLoading(p)
         /\ loaded = "ok" => PartOK(p)

LEMMA SaveFields ==
    ASSUME NEW v \in SaveTypes
    PROVE  /\ v.st \in {"sent", "ok"} => v.set \in Settings!Values
           /\ v = Settings!Idle => v.st = "idle"
BY DEF SaveTypes, Settings!Idle

LEMMA ReadStep ==
    ASSUME SettingsInv, NEW p \in Settings!Parts, Settings!Read(p)
    PROVE  SettingsInv'
<1>1. /\ loaded = "loading" /\ read' = [read EXCEPT ![p] = device[p]]
      /\ UNCHANGED settingsPage /\ UNCHANGED form /\ UNCHANGED loaded /\ UNCHANGED saves
      /\ UNCHANGED partAsked /\ UNCHANGED device /\ UNCHANGED typed /\ UNCHANGED other
  BY DEF Settings!Read
<1>2. Settings!Parts' = Settings!Parts
  BY <1>1 DEF Settings!Parts
<1>3. SettingsTypes'
  BY <1>1, <1>2 DEF SettingsInv, SettingsTypes
<1>4. \A q \in Settings!Parts : StillLoading(q)'
  BY <1>1 DEF SettingsInv, SettingsTypes, StillLoading
<1> QED BY <1>1, <1>2, <1>3, <1>4 DEF SettingsInv

LEMMA RefreshStep ==
    ASSUME SettingsInv, Settings!refresh
    PROVE  SettingsInv'
<1>1. /\ loaded = "loading" /\ read' = [p \in Settings!Parts |-> Settings!Unread]
      /\ UNCHANGED settingsPage /\ UNCHANGED saves
      /\ UNCHANGED partAsked /\ UNCHANGED device /\ UNCHANGED typed /\ UNCHANGED other
  BY DEF Settings!refresh
<1>2. Settings!Parts' = Settings!Parts
  BY <1>1 DEF Settings!Parts
<1>3. CASE Settings!AllShown
  <2>1. /\ \A p \in Settings!Parts : read[p] # Settings!Unread
        /\ form' = read /\ loaded' = "ok"
    BY <1>3 DEF Settings!AllShown
  <2>2. form' \in [Settings!Parts -> Settings!Values]
    BY <2>1 DEF SettingsInv, SettingsTypes
  <2>3. ASSUME NEW p \in Settings!Parts PROVE PartOK(p)'
    <3>1. /\ p \notin typed /\ saves[p] = Settings!Idle
          /\ p \notin other => form'[p] = device[p]
      BY <1>1, <2>1 DEF SettingsInv, StillLoading
    <3>2. saves'[p].st = "idle"
      BY <1>1, <3>1 DEF Settings!Idle
    <3> QED BY <1>1, <3>1, <3>2 DEF PartOK
  <2> QED BY <1>1, <1>2, <2>1, <2>2, <2>3 DEF SettingsInv, SettingsTypes
<1>4. CASE loaded' = "failed" /\ UNCHANGED form
  BY <1>1, <1>2, <1>4 DEF SettingsInv, SettingsTypes
<1> QED BY <1>3, <1>4 DEF Settings!refresh

LEMMA EditStep ==
    ASSUME SettingsInv, NEW p \in Settings!Parts, Settings!Edit(p)
    PROVE  SettingsInv'
<1>1. /\ loaded # "loading" /\ form' = [form EXCEPT ![p].own = "typed"]
      /\ typed' = typed \cup {p}
      /\ UNCHANGED settingsPage /\ UNCHANGED loaded /\ UNCHANGED read /\ UNCHANGED saves
      /\ UNCHANGED partAsked /\ UNCHANGED device /\ UNCHANGED other
  BY DEF Settings!Edit, Settings!Editable
<1>2. Settings!Parts' = Settings!Parts
  BY <1>1 DEF Settings!Parts
<1>3. /\ form' \in [Settings!Parts -> Settings!Values] /\ form'[p].own = "typed"
      /\ \A q \in Settings!Parts : q # p => form'[q] = form[q]
  BY <1>1 DEF SettingsInv, SettingsTypes, Settings!Values
<1>4. ASSUME loaded = "ok", NEW q \in Settings!Parts PROVE PartOK(q)'
  BY <1>1, <1>3, <1>4 DEF SettingsInv, PartOK
<1> QED BY <1>1, <1>2, <1>3, <1>4 DEF SettingsInv, SettingsTypes

\* A save sends what the form holds
LEMMA SendStep ==
    ASSUME SettingsInv, NEW p \in Settings!Parts, Settings!Send(p), loaded # "loading",
           partAsked' \in Settings!Parts \cup {"none"},
           UNCHANGED <<settingsPage, form, loaded, read, device, typed, other>>
    PROVE  SettingsInv'
<1>1. saves' = [saves EXCEPT ![p] = [st |-> "sent", set |-> form[p]]]
  BY DEF Settings!Send
<1>2. Settings!Parts' = Settings!Parts
  BY DEF Settings!Parts
<1>3. [st |-> "sent", set |-> form[p]] \in SaveTypes
  BY DEF SettingsInv, SettingsTypes, SaveTypes
<1>4. saves' \in [Settings!Parts -> SaveTypes]
  BY <1>1, <1>3 DEF SettingsInv, SettingsTypes
<1>5. ASSUME loaded = "ok", NEW q \in Settings!Parts PROVE PartOK(q)'
  <2>1. CASE q = p
    <3>1. saves'[q] = [st |-> "sent", set |-> form[q]]
      BY <1>1, <2>1 DEF SettingsInv, SettingsTypes
    <3> QED BY <1>5, <3>1 DEF SettingsInv, PartOK
  <2>2. CASE q # p
    <3>1. saves'[q] = saves[q]
      BY <1>1, <2>2 DEF SettingsInv, SettingsTypes
    <3> QED BY <1>5, <3>1 DEF SettingsInv, PartOK
  <2> QED BY <2>1, <2>2
<1> QED BY <1>2, <1>4, <1>5 DEF SettingsInv, SettingsTypes

LEMMA HandledStep ==
    ASSUME SettingsInv, NEW p \in Settings!Parts, Settings!SaveHandled(p)
    PROVE  SettingsInv'
<1> DEFINE new == IF Settings!Partial THEN [device[p] EXCEPT !.own = saves[p].set.own]
                  ELSE saves[p].set
<1>1. /\ saves[p].st = "sent"
      /\ UNCHANGED settingsPage /\ UNCHANGED form /\ UNCHANGED loaded /\ UNCHANGED read
      /\ UNCHANGED partAsked /\ UNCHANGED typed /\ UNCHANGED other
  BY DEF Settings!SaveHandled
<1>2. Settings!Parts' = Settings!Parts
  BY <1>1 DEF Settings!Parts
<1>3. saves[p].set \in Settings!Values /\ device[p] \in Settings!Values
  BY <1>1, SaveFields DEF SettingsInv, SettingsTypes
<1>4. new \in Settings!Values
  BY <1>3 DEF Settings!Values
<1>5. saves[p].set = device[p] => new = device[p]
  BY <1>3 DEF Settings!Values
<1>6. loaded # "loading"
  BY <1>1 DEF SettingsInv, StillLoading, Settings!Idle
<1>7. \/ /\ device' = [device EXCEPT ![p] = new]
         /\ \/ saves' = [saves EXCEPT ![p] = [st |-> "ok", set |-> new]]
            \/ saves' = [saves EXCEPT ![p] = [st |-> "failed"]]
      \/ saves' = [saves EXCEPT ![p] = [st |-> "failed"]] /\ UNCHANGED device
  BY DEF Settings!SaveHandled
<1> HIDE DEF new
<1>8. [st |-> "ok", set |-> new] \in SaveTypes /\ [st |-> "failed"] \in SaveTypes
  BY <1>4 DEF SaveTypes
<1>9. /\ saves' \in [Settings!Parts -> SaveTypes]
      /\ device' \in [Settings!Parts -> Settings!Values]
  <2>1. saves \in [Settings!Parts -> SaveTypes] /\ device \in [Settings!Parts -> Settings!Values]
    BY DEF SettingsInv, SettingsTypes
  <2> QED BY <1>4, <1>7, <1>8, <2>1
<1>10. ASSUME loaded = "ok", NEW q \in Settings!Parts PROVE PartOK(q)'
  <2>0. PartOK(q)
    BY <1>10 DEF SettingsInv
  <2>1. CASE q # p
    <3>1. saves'[q] = saves[q] /\ device'[q] = device[q]
      BY <1>7, <2>1 DEF SettingsInv, SettingsTypes
    <3> QED BY <1>1, <2>0, <3>1 DEF PartOK
  <2>2. CASE q = p
    <3>1. \/ device'[q] = new /\ (saves'[q] = [st |-> "ok", set |-> new]
                                  \/ saves'[q] = [st |-> "failed"])
          \/ device'[q] = device[q] /\ saves'[q] = [st |-> "failed"]
      BY <1>7, <2>2 DEF SettingsInv, SettingsTypes
    <3>2. /\ saves'[q].st # "sent"
          /\ saves'[q].st = "ok" => saves'[q].set = device'[q]
      BY <3>1
    <3>3. q \notin other /\ q \notin typed => device'[q] = device[q]
      BY <1>1, <1>5, <2>0, <2>2, <3>1 DEF PartOK
    <3> QED BY <1>1, <2>0, <3>2, <3>3 DEF PartOK
  <2> QED BY <2>1, <2>2
<1> QED BY <1>1, <1>2, <1>6, <1>9, <1>10 DEF SettingsInv, SettingsTypes

LEMMA AnswerStep ==
    ASSUME SettingsInv, NEW p \in Settings!Parts, Settings!SaveAnswer(p)
    PROVE  SettingsInv'
<1>1. /\ saves[p].st \in {"ok", "failed"} /\ saves' = [saves EXCEPT ![p] = Settings!Idle]
      /\ UNCHANGED settingsPage /\ UNCHANGED loaded /\ UNCHANGED read
      /\ UNCHANGED partAsked /\ UNCHANGED device /\ UNCHANGED other
  BY DEF Settings!SaveAnswer
<1>2. Settings!Parts' = Settings!Parts
  BY <1>1 DEF Settings!Parts
<1>3. loaded # "loading"
  BY <1>1 DEF SettingsInv, StillLoading, Settings!Idle
<1>4. saves' \in [Settings!Parts -> SaveTypes]
  BY <1>1 DEF SettingsInv, SettingsTypes, SaveTypes
<1>5. /\ saves'[p].st = "idle"
      /\ \A q \in Settings!Parts : q # p => saves'[q] = saves[q]
  BY <1>1 DEF SettingsInv, SettingsTypes, Settings!Idle
<1>6. CASE saves[p].st = "ok"
  <2>1. form' = [form EXCEPT ![p] = saves[p].set] /\ typed' = typed \ {p}
    BY <1>6 DEF Settings!SaveAnswer
  <2>2. saves[p].set \in Settings!Values
    BY <1>6, SaveFields DEF SettingsInv, SettingsTypes
  <2>3. /\ form' \in [Settings!Parts -> Settings!Values] /\ form'[p] = saves[p].set
        /\ \A q \in Settings!Parts : q # p => form'[q] = form[q]
    BY <2>1, <2>2 DEF SettingsInv, SettingsTypes
  <2>4. ASSUME loaded = "ok", NEW q \in Settings!Parts PROVE PartOK(q)'
    <3>0. PartOK(q)
      BY <2>4 DEF SettingsInv
    <3>1. CASE q = p
      BY <1>1, <1>5, <1>6, <2>1, <2>3, <3>0, <3>1 DEF PartOK
    <3>2. CASE q # p
      BY <1>1, <1>5, <2>1, <2>3, <3>0, <3>2 DEF PartOK
    <3> QED BY <3>1, <3>2
  <2> QED BY <1>1, <1>2, <1>3, <1>4, <2>3, <2>4 DEF SettingsInv, SettingsTypes
<1>7. CASE saves[p].st # "ok"
  <2>1. UNCHANGED form /\ UNCHANGED typed
    BY <1>7 DEF Settings!SaveAnswer
  <2>2. ASSUME loaded = "ok", NEW q \in Settings!Parts PROVE PartOK(q)'
    <3>0. PartOK(q)
      BY <2>2 DEF SettingsInv
    <3>1. CASE q = p
      BY <1>1, <1>5, <2>1, <3>0, <3>1 DEF PartOK
    <3>2. CASE q # p
      BY <1>1, <1>5, <2>1, <3>0, <3>2 DEF PartOK
    <3> QED BY <3>1, <3>2
  <2> QED BY <1>1, <1>2, <1>3, <1>4, <2>1, <2>2 DEF SettingsInv, SettingsTypes
<1> QED BY <1>6, <1>7

LEMMA ElsewhereStep ==
    ASSUME SettingsInv, NEW p \in Settings!Parts, Settings!Elsewhere(p)
    PROVE  SettingsInv'
<1>1. /\ other = {} /\ other' = {p} /\ device' = [device EXCEPT ![p].rest = "elsewhere"]
      /\ UNCHANGED settingsPage /\ UNCHANGED form /\ UNCHANGED loaded /\ UNCHANGED read
      /\ UNCHANGED saves /\ UNCHANGED partAsked /\ UNCHANGED typed
  BY DEF Settings!Elsewhere
<1>2. Settings!Parts' = Settings!Parts
  BY <1>1 DEF Settings!Parts
<1>3. /\ device' \in [Settings!Parts -> Settings!Values]
      /\ \A q \in Settings!Parts : q # p => device'[q] = device[q]
  BY <1>1 DEF SettingsInv, SettingsTypes, Settings!Values
<1>4. ASSUME loaded = "ok", NEW q \in Settings!Parts PROVE PartOK(q)'
  BY <1>1, <1>3, <1>4 DEF SettingsInv, PartOK
<1>5. ASSUME loaded = "loading", NEW q \in Settings!Parts PROVE StillLoading(q)'
  BY <1>1, <1>3, <1>5 DEF SettingsInv, StillLoading
<1> QED BY <1>1, <1>2, <1>3, <1>4, <1>5 DEF SettingsInv, SettingsTypes

LEMMA SettingsStep ==
    ASSUME SettingsInv, [Settings!Next]_Settings!settingsVars
    PROVE  SettingsInv'
<1>1. ASSUME NEW p, Settings!Save(p)
      PROVE  SettingsInv'
  <2>1. p \in Settings!Parts /\ Settings!Send(p) /\ loaded # "loading"
    BY <1>1 DEF Settings!Save, Settings!Editable
  <2>2. UNCHANGED <<settingsPage, form, loaded, read, device, typed, other>> /\ UNCHANGED partAsked
    BY <1>1 DEF Settings!Save
  <2>3. partAsked' \in Settings!Parts \cup {"none"}
    BY <2>2 DEF SettingsInv, SettingsTypes
  <2> QED BY <2>1, <2>2, <2>3, SendStep
<1>2. CASE Settings!onSaveEncode
  <2>1. /\ loaded # "loading" /\ partAsked' = "encode" /\ "encode" \in Settings!Parts
        /\ UNCHANGED settingsPage /\ UNCHANGED form /\ UNCHANGED loaded /\ UNCHANGED read
        /\ UNCHANGED saves /\ UNCHANGED device /\ UNCHANGED typed /\ UNCHANGED other
    BY <1>2 DEF Settings!onSaveEncode, Settings!Editable
  <2>2. Settings!Parts' = Settings!Parts
    BY <2>1 DEF Settings!Parts
  <2> QED BY <2>1, <2>2 DEF SettingsInv, SettingsTypes, PartOK
<1>3. CASE Settings!Confirmed
  <2>1. /\ partAsked \in Settings!Parts /\ partAsked' = "none" /\ loaded # "loading"
        /\ UNCHANGED <<settingsPage, form, loaded, read, device, typed, other>>
    BY <1>3 DEF Settings!Confirmed, SettingsInv, SettingsTypes
  <2>2. CASE Settings!Send(partAsked)
    BY <2>1, <2>2, SendStep
  <2>3. CASE UNCHANGED saves
    <3>1. Settings!Parts' = Settings!Parts
      BY <2>1 DEF Settings!Parts
    <3> QED BY <2>1, <2>3, <3>1 DEF SettingsInv, SettingsTypes, PartOK
  <2> QED BY <1>3, <2>2, <2>3 DEF Settings!Confirmed
<1>4. CASE UNCHANGED Settings!settingsVars
  <2>1. /\ UNCHANGED settingsPage /\ UNCHANGED form /\ UNCHANGED loaded /\ UNCHANGED read
        /\ UNCHANGED saves /\ UNCHANGED partAsked /\ UNCHANGED device /\ UNCHANGED typed
        /\ UNCHANGED other
    BY <1>4 DEF Settings!settingsVars
  <2>2. Settings!Parts' = Settings!Parts
    BY <2>1 DEF Settings!Parts
  <2> QED BY <2>1, <2>2 DEF SettingsInv, SettingsTypes, StillLoading, PartOK
<1> QED
  BY <1>1, <1>2, <1>3, <1>4, ReadStep, RefreshStep, EditStep, HandledStep, AnswerStep,
     ElsewhereStep
  DEF Settings!Next, Settings!onSaveImage, Settings!onSaveOsd, Settings!onSaveName,
      Settings!onSaveTime, Settings!onSaveReboot, Settings!onSavePlan, Settings!onSaveRecycle

LEMMA SettingsStart == Settings!Init => SettingsInv
<1> SUFFICES ASSUME Settings!Init PROVE SettingsInv
  OBVIOUS
<1>1. /\ form = [p \in Settings!Parts |-> Settings!Default] /\ loaded = "loading"
      /\ read = [p \in Settings!Parts |-> Settings!Unread]
      /\ saves = [p \in Settings!Parts |-> Settings!Idle] /\ partAsked = "none"
      /\ device = [p \in Settings!Parts |-> Settings!Stored] /\ typed = {} /\ other = {}
  BY DEF Settings!Init
<1>2. Settings!Default \in Settings!Values /\ Settings!Stored \in Settings!Values
  BY DEF Settings!Default, Settings!Stored, Settings!Values
<1>3. Settings!Idle \in SaveTypes
  BY DEF SaveTypes
<1>4. SettingsTypes
  BY <1>1, <1>2, <1>3 DEF SettingsTypes
<1>5. \A p \in Settings!Parts : StillLoading(p)
  BY <1>1 DEF StillLoading
<1> QED BY <1>1, <1>4, <1>5 DEF SettingsInv

\* Each part's form shows the device's values or an edit of the user, however
\* the answers to the saves of several parts come, or are lost (the save
\* handlers of VideoView.vue, SystemView.vue, RecordPlanView.vue and
\* StorageView.vue).
THEOREM FormAlwaysAgrees == Settings!Spec => []FormAgrees
<1>1. SettingsInv => FormAgrees
  BY DEF SettingsInv, PartOK, FormAgrees, Settings!FormAgrees
<1>2. SettingsInv /\ [Settings!Next]_Settings!settingsVars => SettingsInv'
  BY SettingsStep
<1> QED BY SettingsStart, <1>1, <1>2, PTL DEF Settings!Spec

-----------------------------------------------------------------------------
\* Queues of requests

\* A sequence without its i-th element
LEMMA Removed ==
    ASSUME NEW S, NEW t \in Seq(S), NEW i \in 1 .. Len(t)
    PROVE  LET r == SubSeq(t, 1, i - 1) \o SubSeq(t, i + 1, Len(t)) IN
           /\ r \in Seq(S) /\ Len(r) = Len(t) - 1
           /\ \A j \in 1 .. Len(r) : r[j] = IF j < i THEN t[j] ELSE t[j + 1]
<1> DEFINE a == SubSeq(t, 1, i - 1)
           b == SubSeq(t, i + 1, Len(t))
<1>1. /\ a \in Seq(S) /\ Len(a) = i - 1
      /\ \A j \in 1 .. i - 1 : a[j] = t[j]
  OBVIOUS
<1>2. /\ b \in Seq(S) /\ Len(b) = Len(t) - i
      /\ \A j \in 1 .. Len(t) - i : b[j] = t[j + i]
  OBVIOUS
<1> HIDE DEF a, b
<1>3. /\ a \o b \in Seq(S) /\ Len(a \o b) = Len(t) - 1
      /\ \A j \in 1 .. Len(t) - 1 :
           (a \o b)[j] = IF j < i THEN a[j] ELSE b[j - (i - 1)]
  BY <1>1, <1>2
<1>4. ASSUME NEW j \in 1 .. Len(t) - 1
      PROVE  (a \o b)[j] = IF j < i THEN t[j] ELSE t[j + 1]
  <2>1. CASE j < i
    BY <1>1, <1>3, <2>1
  <2>2. CASE ~(j < i)
    <3>1. j - (i - 1) \in 1 .. Len(t) - i
      BY <2>2
    <3>2. b[j - (i - 1)] = t[(j - (i - 1)) + i]
      BY <1>2, <3>1
    <3>3. (j - (i - 1)) + i = j + 1
      OBVIOUS
    <3> QED BY <1>3, <2>2, <3>2, <3>3
  <2> QED BY <2>1, <2>2
<1> QED BY <1>3, <1>4 DEF a, b

\* A function of 1 .. n is a sequence
LEMMA FunctionIsSeq ==
    ASSUME NEW S, NEW n \in Nat, NEW f, f = [i \in 1 .. n |-> f[i]],
           \A i \in 1 .. n : f[i] \in S
    PROVE  f \in Seq(S) /\ Len(f) = n
<1>1. f \in [1 .. n -> S]
  <2> DEFINE g == [i \in 1 .. n |-> f[i]]
  <2>1. g \in [1 .. n -> S]
    OBVIOUS
  <2> HIDE DEF g
  <2>2. f = g
    BY DEF g
  <2> QED BY <2>1, <2>2
<1> QED BY <1>1

-----------------------------------------------------------------------------
\* The list of recordings

ListRequests ==
    [st : {"sent"}, kind : Storage!Kinds, page : 1 .. MaxClips, late : BOOLEAN]
    \cup [st : {"back"}, late : BOOLEAN, list : SUBSET (1 .. MaxClips), total : 0 .. MaxClips]

\* The page of the list that the controls show
ListNow == Storage!PageOf(Storage!OfKind(clips, kindFilter), page)
TotalNow == Storage!Cardinality(Storage!OfKind(clips, kindFilter))

\* A request whose answer will not be late asks for what the controls show, and
\* its answer is what the card holds
RecordsCurrent(r) ==
    ~r.late => IF r.st = "sent" THEN r.kind = kindFilter /\ r.page = page
               ELSE r.list = ListNow /\ r.total = TotalNow

\* Only the newest request can have an answer that is not late; between
\* formatting and the list request after it nothing is promised
RecordsInv ==
    /\ clips \subseteq 1 .. recorded /\ recorded \in 0 .. MaxClips
    /\ kindFilter \in Storage!Kinds /\ page \in 1 .. MaxClips
    /\ recordLists \in Seq(ListRequests)
    /\ format # "done" =>
         /\ recordLists = <<>> /\ sound => records = ListNow /\ total = TotalNow
         /\ recordLists # <<>> => RecordsCurrent(recordLists[Len(recordLists)])

LEMMA RequestFields ==
    ASSUME NEW r \in ListRequests
    PROVE  /\ r.late \in BOOLEAN /\ r.st \in {"sent", "back"}
           /\ r.st = "sent" => r.kind \in Storage!Kinds /\ r.page \in 1 .. MaxClips
           /\ r.st = "back" => r.list \subseteq 1 .. MaxClips /\ r.total \in 0 .. MaxClips
           /\ Storage!Late(r) \in ListRequests /\ Storage!Late(r).late = TRUE
           /\ Storage!Late(r).st = r.st
BY DEF ListRequests, Storage!Late

\* Dropping a request that is not the newest leaves the newest, and dropping
\* the newest leaves only requests whose answers will be late
LEMMA DropOK ==
    ASSUME recordLists \in Seq(ListRequests), NEW i \in DOMAIN recordLists
    PROVE  /\ Storage!Drop(i) \in Seq(ListRequests)
           /\ Len(Storage!Drop(i)) = Len(recordLists) - 1
           /\ i = Len(recordLists) =>
                \A j \in 1 .. Len(recordLists) - 1 : Storage!Drop(i)[j].late = TRUE
           /\ i # Len(recordLists) =>
                Storage!Drop(i)[Len(recordLists) - 1] = recordLists[Len(recordLists)]
<1> DEFINE t == [j \in DOMAIN recordLists |->
                   IF j < i THEN Storage!Late(recordLists[j]) ELSE recordLists[j]]
<1>1. i \in 1 .. Len(recordLists) /\ DOMAIN recordLists = 1 .. Len(recordLists)
  OBVIOUS
<1>2. ASSUME NEW j \in 1 .. Len(recordLists)
      PROVE  t[j] \in ListRequests /\ (j < i => t[j].late = TRUE)
  <2>1. recordLists[j] \in ListRequests
    OBVIOUS
  <2>2. Storage!Late(recordLists[j]) \in ListRequests /\ Storage!Late(recordLists[j]).late = TRUE
    BY ONLY <2>1, RequestFields, Zenon
  <2>3. t[j] = IF j < i THEN Storage!Late(recordLists[j]) ELSE recordLists[j]
    BY <1>1
  <2> HIDE DEF t
  <2>4. CASE j < i
    BY <2>2, <2>3, <2>4
  <2>5. CASE ~(j < i)
    BY <2>1, <2>3, <2>5
  <2> QED BY <2>4, <2>5
<1>3. t \in Seq(ListRequests) /\ Len(t) = Len(recordLists)
  <2>1. t = [j \in 1 .. Len(recordLists) |-> t[j]] /\ Len(recordLists) \in Nat
    BY <1>1
  <2> HIDE DEF t
  <2> QED BY <1>2, <2>1, FunctionIsSeq
<1>4. t[Len(recordLists)] = recordLists[Len(recordLists)]
  BY <1>1
<1> HIDE DEF t
<1>5. /\ Storage!RemoveAt(t, i) \in Seq(ListRequests)
      /\ Len(Storage!RemoveAt(t, i)) = Len(t) - 1
      /\ \A j \in 1 .. Len(t) - 1 :
           Storage!RemoveAt(t, i)[j] = IF j < i THEN t[j] ELSE t[j + 1]
  BY <1>1, <1>3, Removed DEF Storage!RemoveAt
<1>6. Storage!Drop(i) = Storage!RemoveAt(t, i)
  BY DEF Storage!Drop, t
<1>7. ASSUME i = Len(recordLists), NEW j \in 1 .. Len(recordLists) - 1
      PROVE  Storage!Drop(i)[j].late = TRUE
  <2>1. j \in 1 .. Len(t) - 1 /\ j < i /\ j \in 1 .. Len(recordLists)
    BY <1>1, <1>3, <1>7
  <2>2. Storage!Drop(i)[j] = t[j]
    BY <1>5, <1>6, <2>1
  <2> QED BY <1>2, <2>1, <2>2
<1>8. ASSUME i # Len(recordLists)
      PROVE  Storage!Drop(i)[Len(recordLists) - 1] = recordLists[Len(recordLists)]
  <2>1. Len(recordLists) - 1 \in 1 .. Len(t) - 1 /\ ~(Len(recordLists) - 1 < i)
    BY <1>1, <1>3, <1>8
  <2>2. (Len(recordLists) - 1) + 1 = Len(recordLists)
    BY <1>1
  <2> QED BY <1>4, <1>5, <1>6, <2>1, <2>2
<1> QED BY <1>3, <1>5, <1>6, <1>7, <1>8

\* The queue of requests after Ask is not empty, and ends with a request for
\* what the controls show
LEMMA AskStep ==
    ASSUME recordLists \in Seq(ListRequests), NEW k \in Storage!Kinds,
           NEW p \in 1 .. MaxClips, Storage!Ask(k, p)
    PROVE  /\ recordLists' \in Seq(ListRequests) /\ recordLists' # <<>>
           /\ kindFilter' \in Storage!Kinds /\ page' \in 1 .. MaxClips
           /\ RecordsCurrent(recordLists[Len(recordLists)])'
<1>1. /\ recordLists' = Append(recordLists, Storage!Asked(k, p))
      /\ kindFilter' = k /\ page' = p
  BY DEF Storage!Ask
<1>2. /\ Storage!Asked(k, p) \in ListRequests /\ Storage!Asked(k, p).st = "sent"
      /\ Storage!Asked(k, p).kind = k /\ Storage!Asked(k, p).page = p
  BY DEF Storage!Asked, ListRequests
<1>3. /\ recordLists' \in Seq(ListRequests) /\ recordLists' # <<>>
      /\ recordLists'[Len(recordLists')] = Storage!Asked(k, p)
  BY <1>1, <1>2
<1>4. RecordsCurrent(recordLists[Len(recordLists)])'
  BY <1>1, <1>2, <1>3 DEF RecordsCurrent
<1> QED BY <1>1, <1>3, <1>4

LEMMA OnlyOfTheCard ==
    ASSUME NEW S, NEW k, NEW p
    PROVE  Storage!PageOf(Storage!OfKind(S, k), p) \subseteq S /\ Storage!OfKind(S, k) \subseteq S
BY DEF Storage!PageOf, Storage!OfKind

\* As many clips as were recorded are on the card, or fewer
LEMMA ClipsCounted ==
    ASSUME NEW n \in 0 .. MaxClips, NEW S \in SUBSET (1 .. n)
    PROVE  Storage!Cardinality(S) \in 0 .. MaxClips
<1>1. n \in Nat /\ MaxClips \in Nat
  BY PartsAssumption
<1>2. IsFiniteSet(1 .. n) /\ Cardinality(1 .. n) = n
  <2>1. /\ IsFiniteSet(1 .. n)
        /\ Cardinality(1 .. n) = IF 1 > n THEN 0 ELSE n - 1 + 1
    BY <1>1, FS_Interval
  <2> QED BY <1>1, <2>1
<1>3. IsFiniteSet(S) /\ Cardinality(S) <= n
  BY <1>2, FS_Subset
<1>4. Cardinality(S) \in Nat
  BY <1>3, FS_CardinalityType
<1>5. Storage!Cardinality(S) = Cardinality(S)
  BY DEF Storage!Cardinality, Cardinality
<1> QED BY <1>1, <1>3, <1>4, <1>5

\* Steps that leave the card, the controls and the list alone
LEMMA SameCard ==
    ASSUME RecordsInv, UNCHANGED kindFilter, UNCHANGED page, UNCHANGED clips,
           UNCHANGED recorded
    PROVE  /\ UNCHANGED ListNow /\ UNCHANGED TotalNow
           /\ \A r : RecordsCurrent(r)' = RecordsCurrent(r)
BY DEF ListNow, TotalNow, RecordsCurrent

LEMMA ListReadStep ==
    ASSUME RecordsInv, NEW i \in DOMAIN recordLists, Storage!ListRead(i)
    PROVE  RecordsInv'
<1> DEFINE r == recordLists[i]
           back == [st |-> "back", late |-> r.late,
                    list |-> Storage!PageOf(Storage!OfKind(clips, r.kind), r.page),
                    total |-> Storage!Cardinality(Storage!OfKind(clips, r.kind))]
<1>1. /\ r.st = "sent" /\ recordLists' = [recordLists EXCEPT ![i] = back]
      /\ UNCHANGED kindFilter /\ UNCHANGED page /\ UNCHANGED clips /\ UNCHANGED recorded
      /\ UNCHANGED records /\ UNCHANGED total /\ UNCHANGED format /\ UNCHANGED sound
  BY DEF Storage!ListRead
<1>2. recordLists \in Seq(ListRequests) /\ i \in 1 .. Len(recordLists) /\ r \in ListRequests
  BY DEF RecordsInv
<1>3. back.list \subseteq 1 .. MaxClips /\ back.total \in 0 .. MaxClips /\ r.late \in BOOLEAN
  <2>1. clips \subseteq 1 .. recorded /\ recorded \in 0 .. MaxClips /\ MaxClips \in Nat
    BY PartsAssumption DEF RecordsInv
  <2>2. clips \subseteq 1 .. MaxClips
    BY <2>1
  <2>3. Storage!OfKind(clips, r.kind) \in SUBSET (1 .. recorded)
    BY <2>1, OnlyOfTheCard
  <2>4. back.total \in 0 .. MaxClips
    BY <2>1, <2>3, ClipsCounted
  <2>5. back.list \subseteq 1 .. MaxClips
    BY <2>2, OnlyOfTheCard
  <2>6. r.late \in BOOLEAN
    BY <1>2, RequestFields
  <2> QED BY <2>4, <2>5, <2>6
<1>4. back \in ListRequests
  BY <1>3 DEF ListRequests
<1>5. ASSUME i = Len(recordLists), RecordsCurrent(r)
      PROVE  RecordsCurrent(back)
  BY <1>1, <1>5 DEF RecordsCurrent, ListNow, TotalNow
<1>6. /\ recordLists' \in Seq(ListRequests) /\ recordLists' # <<>>
      /\ Len(recordLists') = Len(recordLists)
      /\ recordLists'[i] = back
      /\ i # Len(recordLists) =>
           recordLists'[Len(recordLists)] = recordLists[Len(recordLists)]
  <2> HIDE DEF back, r
  <2> QED BY <1>1, <1>2, <1>4
<1> HIDE DEF back
<1>7. ASSUME format # "done"
      PROVE  RecordsCurrent(recordLists'[Len(recordLists')])
  <2>1. RecordsCurrent(recordLists[Len(recordLists)])
    BY <1>2, <1>7 DEF RecordsInv
  <2> QED BY <1>5, <1>6, <2>1
<1>8. \A q : RecordsCurrent(q)' = RecordsCurrent(q)
  BY <1>1, SameCard
<1>9. format' # "done" => RecordsCurrent(recordLists[Len(recordLists)])'
  BY <1>1, <1>6, <1>7, <1>8 DEF RecordsCurrent, ListNow, TotalNow
<1> QED BY <1>1, <1>6, <1>9 DEF RecordsInv

\* Request i leaves the queue; if it was the newest, its data is shown or sound
\* is FALSE
LEMMA DropStep ==
    ASSUME RecordsInv, NEW i \in DOMAIN recordLists, recordLists' = Storage!Drop(i),
           UNCHANGED kindFilter, UNCHANGED page, UNCHANGED clips, UNCHANGED recorded,
           UNCHANGED format,
           sound' => /\ recordLists[i].st = "back" /\ ~recordLists[i].late
                     /\ records' = recordLists[i].list /\ total' = recordLists[i].total
    PROVE  RecordsInv'
<1>0. recordLists \in Seq(ListRequests) /\ i \in 1 .. Len(recordLists)
  BY DEF RecordsInv
<1>1. /\ recordLists' \in Seq(ListRequests) /\ Len(recordLists') = Len(recordLists) - 1
      /\ i = Len(recordLists) => \A j \in 1 .. Len(recordLists) - 1 : recordLists'[j].late
      /\ i # Len(recordLists) =>
           recordLists'[Len(recordLists) - 1] = recordLists[Len(recordLists)]
  BY <1>0, DropOK
<1>2. \A r : RecordsCurrent(r)' = RecordsCurrent(r)
  BY SameCard
<1>3. ASSUME format # "done", recordLists' = <<>>, sound'
      PROVE  records' = ListNow /\ total' = TotalNow
  <2>1. i = Len(recordLists)
    BY <1>0, <1>1, <1>3
  <2>2. RecordsCurrent(recordLists[i])
    BY <1>0, <1>3, <2>1 DEF RecordsInv
  <2> QED BY <1>3, <2>2 DEF RecordsCurrent
<1>4. ASSUME format # "done", recordLists' # <<>>
      PROVE  RecordsCurrent(recordLists'[Len(recordLists')])
  <2>0. Len(recordLists') \in 1 .. Len(recordLists) - 1
    BY <1>0, <1>1, <1>4
  <2>1. CASE i = Len(recordLists)
    <3>1. recordLists'[Len(recordLists')].late
      BY <1>1, <2>0, <2>1
    <3> QED BY <3>1 DEF RecordsCurrent
  <2>2. CASE i # Len(recordLists)
    BY <1>0, <1>1, <1>4, <2>2 DEF RecordsInv
  <2> QED BY <2>1, <2>2
<1>5. UNCHANGED ListNow /\ UNCHANGED TotalNow
  BY SameCard
<1>6. format' # "done" => (recordLists' # <<>> => RecordsCurrent(recordLists[Len(recordLists)])')
  BY <1>4 DEF RecordsCurrent, ListNow, TotalNow
<1> QED BY <1>1, <1>3, <1>5, <1>6 DEF RecordsInv

LEMMA OnItsOwnStep ==
    ASSUME RecordsInv, NEW new, new \subseteq 1 .. recorded', Storage!OnItsOwn(new),
           recorded' \in 0 .. MaxClips
    PROVE  RecordsInv'
<1>1. /\ clips' = new /\ sound' = FALSE
      /\ recordLists' = [i \in DOMAIN recordLists |->
                           IF recordLists[i].st = "back" THEN Storage!Late(recordLists[i])
                           ELSE recordLists[i]]
      /\ UNCHANGED kindFilter /\ UNCHANGED page /\ UNCHANGED format
  BY DEF Storage!OnItsOwn
<1>2. recordLists \in Seq(ListRequests) /\ DOMAIN recordLists = 1 .. Len(recordLists)
  BY DEF RecordsInv
<1>3. /\ \A i \in 1 .. Len(recordLists) : recordLists'[i] \in ListRequests
      /\ recordLists' = [i \in 1 .. Len(recordLists) |-> recordLists'[i]]
  <2>1. ASSUME NEW i \in 1 .. Len(recordLists)
        PROVE  recordLists[i] \in ListRequests /\ Storage!Late(recordLists[i]) \in ListRequests
    <3>1. recordLists[i] \in ListRequests
      BY <1>2
    <3> QED BY ONLY <3>1, RequestFields, Zenon
  <2> QED BY <1>1, <1>2, <2>1
<1>4. recordLists' \in Seq(ListRequests) /\ Len(recordLists') = Len(recordLists)
  BY <1>2, <1>3, FunctionIsSeq
<1>5. ASSUME format # "done", recordLists' # <<>>
      PROVE  RecordsCurrent(recordLists[Len(recordLists)])'
  <2> DEFINE n == Len(recordLists)
  <2>1. n \in 1 .. Len(recordLists) /\ recordLists[n] \in ListRequests
    BY <1>2, <1>4, <1>5
  <2>2. CASE recordLists[n].st = "back"
    <3>1. recordLists'[n] = Storage!Late(recordLists[n])
      BY <1>1, <1>2, <2>1, <2>2
    <3>2. Storage!Late(recordLists[n]).late = TRUE
      BY ONLY <2>1, RequestFields, Zenon
    <3>3. recordLists'[Len(recordLists')].late = TRUE
      BY <1>4, <3>1, <3>2
    <3> QED BY <3>3 DEF RecordsCurrent
  <2>3. CASE recordLists[n].st # "back"
    <3>1. recordLists'[n] = recordLists[n]
      BY <1>1, <1>2, <2>1, <2>3
    <3>2. recordLists[n].st = "sent"
      BY <2>1, <2>3, RequestFields
    <3>3. RecordsCurrent(recordLists[n])
      BY <1>5, <2>1 DEF RecordsInv
    <3>4. recordLists'[Len(recordLists')] = recordLists[n]
      BY <1>4, <3>1
    <3> QED BY <1>1, <3>2, <3>3, <3>4 DEF RecordsCurrent
  <2> QED BY <2>2, <2>3
<1> QED BY <1>1, <1>4, <1>5 DEF RecordsInv

LEMMA FormatFailedStep ==
    ASSUME RecordsInv, Storage!FormatFailed
    PROVE  RecordsInv'
<1>1. /\ recordLists' = [i \in DOMAIN recordLists |-> Storage!Late(recordLists[i])]
      /\ sound' = FALSE
      /\ UNCHANGED kindFilter /\ UNCHANGED page /\ UNCHANGED clips /\ UNCHANGED recorded
  BY DEF Storage!FormatFailed
<1>2. recordLists \in Seq(ListRequests) /\ DOMAIN recordLists = 1 .. Len(recordLists)
  BY DEF RecordsInv
<1>3. /\ \A i \in 1 .. Len(recordLists) : recordLists'[i] \in ListRequests
      /\ recordLists' = [i \in 1 .. Len(recordLists) |-> recordLists'[i]]
  <2>1. ASSUME NEW i \in 1 .. Len(recordLists)
        PROVE  recordLists[i] \in ListRequests /\ Storage!Late(recordLists[i]) \in ListRequests
    <3>1. recordLists[i] \in ListRequests
      BY <1>2
    <3> QED BY ONLY <3>1, RequestFields, Zenon
  <2> QED BY <1>1, <1>2, <2>1
<1>4. recordLists' \in Seq(ListRequests) /\ Len(recordLists') = Len(recordLists)
  BY <1>2, <1>3, FunctionIsSeq
<1>5. ASSUME recordLists' # <<>>
      PROVE  RecordsCurrent(recordLists[Len(recordLists)])'
  <2>1. Len(recordLists) \in 1 .. Len(recordLists)
    BY <1>2, <1>4, <1>5
  <2>2. recordLists'[Len(recordLists')] = Storage!Late(recordLists[Len(recordLists)])
    BY <1>1, <1>2, <1>4, <2>1
  <2>3. recordLists[Len(recordLists)] \in ListRequests
    BY <1>2, <2>1
  <2>4. Storage!Late(recordLists[Len(recordLists)]).late = TRUE
    BY ONLY <2>3, RequestFields, Zenon
  <2>5. recordLists'[Len(recordLists')].late = TRUE
    BY <2>2, <2>4
  <2> QED BY <2>5 DEF RecordsCurrent
<1> QED BY <1>1, <1>4, <1>5 DEF RecordsInv

LEMMA RecordsStep ==
    ASSUME RecordsInv, [Storage!Next]_Storage!storageVars
    PROVE  RecordsInv'
<1>1. ASSUME NEW i \in DOMAIN recordLists, Storage!ListAnswer(i)
      PROVE  RecordsInv'
  <2>1. /\ recordLists[i].st = "back" /\ recordLists' = Storage!Drop(i)
        /\ records' = recordLists[i].list /\ total' = recordLists[i].total
        /\ sound' = ~recordLists[i].late
        /\ UNCHANGED kindFilter /\ UNCHANGED page /\ UNCHANGED clips
        /\ UNCHANGED recorded /\ UNCHANGED format
    BY <1>1 DEF Storage!ListAnswer
  <2> QED BY <2>1, DropStep
<1>2. ASSUME NEW i \in DOMAIN recordLists, Storage!ListLost(i)
      PROVE  RecordsInv'
  <2>1. /\ recordLists' = Storage!Drop(i) /\ ~sound'
        /\ UNCHANGED kindFilter /\ UNCHANGED page /\ UNCHANGED clips
        /\ UNCHANGED recorded /\ UNCHANGED format
    BY <1>2 DEF Storage!ListLost
  <2> QED BY <2>1, DropStep
<1>3. ASSUME NEW k \in Storage!Kinds, NEW p \in 1 .. MaxClips, Storage!Ask(k, p),
             UNCHANGED clips, UNCHANGED recorded
      PROVE  RecordsInv'
  BY <1>3, AskStep DEF RecordsInv
<1>4. CASE \/ \E k \in Storage!Kinds : Storage!onQuery(k)
           \/ \E p \in 1 .. MaxClips : Storage!onPageChange(p)
           \/ Storage!FormatAnswer
  <2>1. kindFilter \in Storage!Kinds /\ page \in 1 .. MaxClips
    BY DEF RecordsInv
  <2>2. 1 \in 1 .. MaxClips
    BY PartsAssumption
  <2> QED BY <1>3, <1>4, <2>1, <2>2 DEF Storage!onQuery, Storage!onPageChange, Storage!FormatAnswer
<1>5. ASSUME format # "done" \/ format' = "done", UNCHANGED recordLists, UNCHANGED sound,
             UNCHANGED records, UNCHANGED total, UNCHANGED kindFilter, UNCHANGED page,
             UNCHANGED recorded, UNCHANGED clips \/ (format' = "done" /\ clips' = {})
      PROVE  RecordsInv'
  BY <1>5 DEF RecordsInv, RecordsCurrent, ListNow, TotalNow
<1>6. CASE \/ Storage!StatusFailed \/ Storage!onFormatCard \/ Storage!Answered
           \/ Storage!Formatted \/ UNCHANGED Storage!storageVars
  BY <1>5, <1>6 DEF Storage!StatusFailed, Storage!onFormatCard, Storage!Answered,
                    Storage!Formatted, Storage!storageVars
<1>7. CASE Storage!Record
  <2>1. /\ recorded < MaxClips /\ recorded' = recorded + 1
        /\ recorded \in 0 .. MaxClips /\ clips \subseteq 1 .. recorded /\ MaxClips \in Nat
    BY <1>7, PartsAssumption DEF Storage!Record, RecordsInv
  <2>2. clips \cup {recorded'} \subseteq 1 .. recorded' /\ recorded' \in 0 .. MaxClips
    BY <2>1
  <2>3. Storage!OnItsOwn(clips \cup {recorded'})
    BY <1>7 DEF Storage!Record
  <2> QED BY <2>2, <2>3, OnItsOwnStep
<1>8. CASE Storage!Recycle
  <2>1. UNCHANGED recorded /\ recorded \in 0 .. MaxClips /\ clips \subseteq 1 .. recorded
    BY <1>8 DEF Storage!Recycle, RecordsInv
  <2> QED BY <1>8, <2>1, OnItsOwnStep DEF Storage!Recycle
<1> QED
  BY <1>1, <1>2, <1>4, <1>6, <1>7, <1>8, ListReadStep, FormatFailedStep
  DEF Storage!Next, Storage!Step

LEMMA RecordsStart == Storage!Init => RecordsInv
<1> SUFFICES ASSUME Storage!Init PROVE RecordsInv
  OBVIOUS
<1> DEFINE q == Storage!Asked("", 1)
<1>1. /\ recorded = MaxClips - 1 /\ clips = 1 .. recorded
      /\ kindFilter = "" /\ page = 1 /\ recordLists = <<q>>
  BY DEF Storage!Init
<1>2. MaxClips \in Nat \ {0}
  BY PartsAssumption
<1>3. kindFilter \in Storage!Kinds
  BY <1>1, Zenon DEF Storage!Kinds
<1>4. recorded \in 0 .. MaxClips /\ clips \subseteq 1 .. recorded /\ page \in 1 .. MaxClips
  <2>1. recorded = MaxClips - 1 /\ page = 1 /\ clips = 1 .. recorded
    BY <1>1
  <2>2. recorded \in 0 .. MaxClips
    BY <1>2, <2>1
  <2>3. page \in 1 .. MaxClips
    BY <1>2, <2>1
  <2> QED BY <2>1, <2>2, <2>3
<1>5. q \in ListRequests /\ q.st = "sent" /\ q.kind = "" /\ q.page = 1
  BY <1>2 DEF Storage!Asked, ListRequests, Storage!Kinds
<1> HIDE DEF q
<1>6. /\ recordLists \in Seq(ListRequests) /\ recordLists # <<>>
      /\ recordLists[Len(recordLists)] = q
  <2>1. recordLists = <<q>> /\ q \in ListRequests
    BY <1>1, <1>5
  <2> QED BY <2>1
<1>7. RecordsCurrent(recordLists[Len(recordLists)])
  BY <1>1, <1>5, <1>6 DEF RecordsCurrent
<1> QED BY <1>3, <1>4, <1>6, <1>7 DEF RecordsInv

LEMMA RecordsAlways == Storage!Spec => []RecordsInv
BY RecordsStart, RecordsStep, PTL DEF Storage!Spec

\* The list of recordings with its total is what the card holds of the kind and
\* page chosen, however the answers to several list requests, to formatting and
\* to clearing come (refreshRecords, onFormatCard and onClearRecords of
\* StorageView.vue).
THEOREM RecordsAlwaysShown == Storage!Spec => []RecordsShown
<1>1. RecordsInv => RecordsShown
  BY DEF RecordsInv, RecordsShown, Storage!RecordsShown, ListNow, TotalNow
<1> QED BY <1>1, RecordsAlways, PTL

-----------------------------------------------------------------------------
\* The list of captures

Counts == {Events!Cardinality(S) : S \in SUBSET Nat} \cup {0}
Views ==
    [date : Events!Dates, page : Int, list : SUBSET Nat, total : Counts, busy : BOOLEAN,
     sel : SUBSET Nat]
Seens == [page : Int, covered : Nat, skipped : Nat]
EventRequests ==
    [st : {"sent"}, date : Events!Dates, page : Int, shows : Int]
    \cup [st : {"back"}, shows : Int, list : SUBSET Nat, total : Counts, at : Nat]

\* A confirmation is open only while no delete is on the way
EventTypes ==
    /\ snaps \in 1 .. MaxSnaps /\ counted \in 1 .. snaps /\ files \subseteq 1 .. snaps
    /\ view \in Views /\ seen \in Seens
    /\ lists \in Seq(EventRequests)
    /\ asked.st \in {"poll", "save"} => asked.count \in 1 .. snaps
    /\ dialog.st \in {"files", "day"} => del.st = "idle"

\* Under an open confirmation nothing is selected that it is not about
Agreed ==
    /\ dialog.st = "files" => view.sel \subseteq dialog.files
    /\ del.st = "files" => del.files \subseteq del.agreed
    /\ del.st = "day" => del.agreed = Events!OfDay(1 .. MaxSnaps, del.date)

\* Nothing deleted is in S; between a delete and the list request after it
\* nothing is promised
OnCard(S) == del.st # "back" => S \subseteq files

\* A request whose answer will not be late asks for the pager's page, and its
\* answer holds what is counted
EventsCurrent(r) ==
    r.shows # 0 =>
        /\ r.shows = view.page
        /\ r.st = "back" => OnCard(r.list) /\ counted <= Events!Larger(r.at, seen.skipped)

NewestCurrent == lists # <<>> => EventsCurrent(lists[Len(lists)])

ListCurrent ==
    lists = <<>> /\ seen.page # 0 =>
        /\ seen.page = view.page /\ OnCard(view.list)
        /\ counted <= Events!Larger(seen.covered, seen.skipped)

EventsInv == EventTypes /\ Agreed /\ NewestCurrent /\ ListCurrent

LEMMA ViewFields ==
    ASSUME view \in Views
    PROVE  /\ view.date \in Events!Dates /\ view.page \in Int /\ view.list \in SUBSET Nat
           /\ view.total \in Counts /\ view.busy \in BOOLEAN /\ view.sel \in SUBSET Nat
BY DEF Views

LEMMA EventFields ==
    ASSUME NEW r \in EventRequests
    PROVE  /\ r.st \in {"sent", "back"} /\ r.shows \in Int
           /\ r.st = "sent" => r.date \in Events!Dates /\ r.page \in Int
           /\ r.st = "back" => r.list \in SUBSET Nat /\ r.total \in Counts /\ r.at \in Nat
           /\ Events!Late(r) \in EventRequests /\ Events!Late(r).shows = 0
BY DEF EventRequests, Events!Late

\* Dropping a request that is not the newest leaves the newest, and dropping
\* the newest leaves only requests whose answers will be late
LEMMA EventDropOK ==
    ASSUME lists \in Seq(EventRequests), NEW i \in DOMAIN lists
    PROVE  /\ Events!Drop(i) \in Seq(EventRequests)
           /\ Len(Events!Drop(i)) = Len(lists) - 1
           /\ i = Len(lists) =>
                \A j \in 1 .. Len(lists) - 1 : Events!Drop(i)[j].shows = 0
           /\ i # Len(lists) => Events!Drop(i)[Len(lists) - 1] = lists[Len(lists)]
<1> DEFINE t == [j \in DOMAIN lists |-> IF j < i THEN Events!Late(lists[j]) ELSE lists[j]]
<1>1. i \in 1 .. Len(lists) /\ DOMAIN lists = 1 .. Len(lists)
  OBVIOUS
<1>2. ASSUME NEW j \in 1 .. Len(lists)
      PROVE  t[j] \in EventRequests /\ (j < i => t[j].shows = 0)
  <2>1. lists[j] \in EventRequests
    OBVIOUS
  <2>2. Events!Late(lists[j]) \in EventRequests /\ Events!Late(lists[j]).shows = 0
    BY ONLY <2>1, EventFields, Zenon
  <2>3. t[j] = IF j < i THEN Events!Late(lists[j]) ELSE lists[j]
    BY <1>1
  <2> HIDE DEF t
  <2>4. CASE j < i
    BY <2>2, <2>3, <2>4
  <2>5. CASE ~(j < i)
    BY <2>1, <2>3, <2>5
  <2> QED BY <2>4, <2>5
<1>3. t \in Seq(EventRequests) /\ Len(t) = Len(lists)
  <2>1. t = [j \in 1 .. Len(lists) |-> t[j]] /\ Len(lists) \in Nat
    BY <1>1
  <2> HIDE DEF t
  <2> QED BY <1>2, <2>1, FunctionIsSeq
<1>4. t[Len(lists)] = lists[Len(lists)]
  BY <1>1
<1> HIDE DEF t
<1>5. /\ Events!RemoveAt(t, i) \in Seq(EventRequests)
      /\ Len(Events!RemoveAt(t, i)) = Len(t) - 1
      /\ \A j \in 1 .. Len(t) - 1 :
           Events!RemoveAt(t, i)[j] = IF j < i THEN t[j] ELSE t[j + 1]
  BY <1>1, <1>3, Removed DEF Events!RemoveAt
<1>6. Events!Drop(i) = Events!RemoveAt(t, i)
  BY DEF Events!Drop, t
<1>7. ASSUME i = Len(lists), NEW j \in 1 .. Len(lists) - 1
      PROVE  Events!Drop(i)[j].shows = 0
  <2>1. j \in 1 .. Len(t) - 1 /\ j < i /\ j \in 1 .. Len(lists)
    BY <1>1, <1>3, <1>7
  <2>2. Events!Drop(i)[j] = t[j]
    BY <1>5, <1>6, <2>1
  <2> QED BY <1>2, <2>1, <2>2
<1>8. ASSUME i # Len(lists)
      PROVE  Events!Drop(i)[Len(lists) - 1] = lists[Len(lists)]
  <2>1. Len(lists) - 1 \in 1 .. Len(t) - 1 /\ ~(Len(lists) - 1 < i)
    BY <1>1, <1>3, <1>8
  <2>2. (Len(lists) - 1) + 1 = Len(lists)
    BY <1>1
  <2> QED BY <1>4, <1>5, <1>6, <2>1, <2>2
<1> QED BY <1>3, <1>5, <1>6, <1>7, <1>8

\* After Ask the newest request is for the pager's page
LEMMA EventAskStep ==
    ASSUME lists \in Seq(EventRequests), view \in Views, NEW d \in Events!Dates,
           NEW p \in Int, NEW n \in {1, 2}, NEW silent \in BOOLEAN,
           Events!Ask(d, p, n, silent)
    PROVE  /\ lists' \in Seq(EventRequests) /\ view' \in Views
           /\ view'.sel = view.sel
           /\ NewestCurrent' /\ ListCurrent'
<1> DEFINE r == Events!Asked(d, p)
           b == ~silent \/ view.busy
<1>1. /\ lists' = lists \o [i \in 1 .. n |-> r]
      /\ view' = [view EXCEPT !.date = d, !.page = p, !.busy = b]
  BY DEF Events!Ask
<1>2. r \in EventRequests /\ r.st = "sent" /\ r.shows = p
  BY DEF Events!Asked, EventRequests
<1>3. b \in BOOLEAN
  OBVIOUS
<1> HIDE DEF b
<1>4. view' \in Views /\ view'.sel = view.sel /\ view'.page = p
  BY <1>1, <1>3 DEF Views
<1> HIDE DEF r
<1> DEFINE e == [i \in 1 .. n |-> r]
<1>5. e \in Seq(EventRequests) /\ Len(e) = n /\ e[n] = r /\ n \in Nat \ {0}
  BY <1>2
<1> HIDE DEF e
<1>6. /\ lists \o e \in Seq(EventRequests) /\ Len(lists \o e) = Len(lists) + n
      /\ (lists \o e)[Len(lists) + n] = e[n]
  BY <1>5
<1>7. /\ lists' \in Seq(EventRequests) /\ lists' # <<>>
      /\ lists'[Len(lists')] = r
  BY <1>1, <1>5, <1>6 DEF e
<1>8. NewestCurrent'
  BY <1>2, <1>4, <1>7 DEF NewestCurrent, EventsCurrent
<1> QED BY <1>4, <1>7, <1>8 DEF ListCurrent

\* Steps that leave the list alone
LEMMA SameList ==
    ASSUME EventsInv, UNCHANGED lists, UNCHANGED seen, UNCHANGED counted,
           view'.page = view.page, view'.list = view.list,
           del'.st # "back" => del.st # "back" /\ files \subseteq files'
    PROVE  NewestCurrent' /\ ListCurrent'
<1>1. \A S : OnCard(S) => OnCard(S)'
  BY DEF OnCard
<1>2. \A r : EventsCurrent(r) => EventsCurrent(r)'
  BY <1>1 DEF EventsCurrent, Events!Larger, OnCard
<1>3. NewestCurrent'
  BY <1>2 DEF EventsInv, NewestCurrent, EventsCurrent
<1> QED BY <1>1, <1>3 DEF EventsInv, ListCurrent, OnCard, Events!Larger

LEMMA ListReadOK ==
    ASSUME EventsInv, NEW i \in DOMAIN lists, Events!ListRead(i)
    PROVE  EventsInv'
<1> DEFINE r == lists[i]
           day == Events!OfDay(files, r.date)
           back == [st |-> "back", shows |-> r.shows, list |-> Events!PageOf(day, r.page),
                    total |-> Events!Cardinality(day), at |-> snaps]
<1>1. /\ r.st = "sent" /\ lists' = [lists EXCEPT ![i] = back]
      /\ UNCHANGED counted /\ UNCHANGED view /\ UNCHANGED asked /\ UNCHANGED del
      /\ UNCHANGED dialog /\ UNCHANGED snaps /\ UNCHANGED files /\ UNCHANGED seen
  BY DEF Events!ListRead
<1>2. /\ lists \in Seq(EventRequests) /\ i \in 1 .. Len(lists) /\ r \in EventRequests
      /\ files \subseteq Nat /\ snaps \in Nat /\ counted \in Nat /\ counted <= snaps
      /\ seen.skipped \in Nat
  BY DEF EventsInv, EventTypes, Seens
<1>3. day \subseteq files /\ back.list \subseteq files
  BY DEF Events!OfDay, Events!PageOf
<1>4. /\ back \in EventRequests /\ back.st = "back" /\ back.shows = r.shows
      /\ back.at = snaps
  <2>1. r.shows \in Int /\ Events!PageOf(day, r.page) \in SUBSET Nat
    BY <1>2, <1>3, EventFields
  <2>2. Events!Cardinality(day) \in Counts
    BY <1>2, <1>3 DEF Counts
  <2> HIDE DEF day
  <2> QED BY <1>2, <2>1, <2>2 DEF EventRequests
<1>5. EventsCurrent(r) => EventsCurrent(back)
  <2>1. counted <= Events!Larger(back.at, seen.skipped)
    BY <1>2, <1>4 DEF Events!Larger
  <2> HIDE DEF back, r
  <2> QED BY <1>3, <1>4, <2>1 DEF EventsCurrent, OnCard
<1>6. /\ lists' \in Seq(EventRequests) /\ lists' # <<>> /\ Len(lists') = Len(lists)
      /\ lists'[i] = back
      /\ i # Len(lists) => lists'[Len(lists)] = lists[Len(lists)]
  <2> HIDE DEF back, r
  <2> QED BY <1>1, <1>2, <1>4
<1> HIDE DEF back
<1>7. EventsCurrent(lists'[Len(lists')])
  <2>1. EventsCurrent(lists[Len(lists)])
    BY <1>2 DEF EventsInv, NewestCurrent
  <2> QED BY <1>5, <1>6, <2>1
<1>8. \A q : EventsCurrent(q)' = EventsCurrent(q)
  BY <1>1 DEF EventsCurrent, OnCard, Events!Larger
<1>9. NewestCurrent'
  BY <1>1, <1>6, <1>7, <1>8 DEF NewestCurrent, EventsCurrent, OnCard, Events!Larger
<1>10. EventTypes' /\ Agreed'
  BY <1>1, <1>6 DEF EventsInv, EventTypes, Agreed
<1> QED BY <1>6, <1>9, <1>10 DEF EventsInv, ListCurrent

\* Request i leaves the queue; if it was the newest, its data is shown or
\* seen.page is 0
LEMMA EventDropStep ==
    ASSUME EventsInv, NEW i \in DOMAIN lists, lists' = Events!Drop(i),
           view' \in Views, view'.page = view.page, seen' \in Seens,
           view'.sel \subseteq view.sel,
           seen'.page # 0 =>
             /\ lists[i].st = "back" /\ seen'.page = lists[i].shows
             /\ view'.list = lists[i].list /\ seen'.covered = lists[i].at,
           seen'.skipped = seen.skipped,
           UNCHANGED counted, UNCHANGED asked, UNCHANGED del, UNCHANGED dialog,
           UNCHANGED snaps, UNCHANGED files
    PROVE  EventsInv'
<1>0. lists \in Seq(EventRequests) /\ i \in 1 .. Len(lists)
  BY DEF EventsInv, EventTypes
<1>1. /\ lists' \in Seq(EventRequests) /\ Len(lists') = Len(lists) - 1
      /\ i = Len(lists) => \A j \in 1 .. Len(lists) - 1 : lists'[j].shows = 0
      /\ i # Len(lists) => lists'[Len(lists) - 1] = lists[Len(lists)]
  BY <1>0, EventDropOK
<1>2. EventTypes' /\ Agreed'
  BY <1>1 DEF EventsInv, EventTypes, Agreed
<1>3. EventsCurrent(lists[Len(lists)])
  BY <1>0 DEF EventsInv, NewestCurrent
<1>4. \A q : EventsCurrent(q) => EventsCurrent(q)'
  BY DEF EventsCurrent, OnCard, Events!Larger
<1>5. NewestCurrent'
  <2>1. ASSUME lists' # <<>>
        PROVE  EventsCurrent(lists'[Len(lists')])
    <3>0. Len(lists') \in 1 .. Len(lists) - 1
      BY <1>0, <1>1, <2>1
    <3>1. CASE i = Len(lists)
      <4>1. lists'[Len(lists')].shows = 0
        BY <1>1, <3>0, <3>1
      <4> QED BY <4>1 DEF EventsCurrent
    <3>2. CASE i # Len(lists)
      BY <1>1, <1>3, <3>2
    <3> QED BY <3>1, <3>2
  <2> QED BY <1>4, <2>1 DEF NewestCurrent, EventsCurrent, OnCard, Events!Larger
<1>6. ListCurrent'
  <2>1. ASSUME lists' = <<>>, seen'.page # 0
        PROVE  /\ seen'.page = view'.page /\ OnCard(view'.list)
               /\ counted <= Events!Larger(seen'.covered, seen'.skipped)
    <3>1. i = Len(lists)
      BY <1>0, <1>1, <2>1
    <3> QED BY <1>3, <2>1, <3>1 DEF EventsCurrent
  <2> QED BY <2>1 DEF ListCurrent, OnCard, Events!Larger
<1> QED BY <1>2, <1>5, <1>6 DEF EventsInv

LEMMA ListAnswerOK ==
    ASSUME EventsInv, NEW i \in DOMAIN lists, Events!ListAnswer(i)
    PROVE  EventsInv'
<1> DEFINE r == lists[i]
<1>1. /\ r.st = "back" /\ lists' = Events!Drop(i)
      /\ view' = [view EXCEPT !.list = r.list, !.total = r.total, !.sel = {}, !.busy = FALSE]
      /\ seen' = [seen EXCEPT !.page = r.shows, !.covered = IF r.shows = 0 THEN 0 ELSE r.at]
      /\ UNCHANGED counted /\ UNCHANGED asked /\ UNCHANGED del /\ UNCHANGED dialog
      /\ UNCHANGED snaps /\ UNCHANGED files
  BY DEF Events!ListAnswer
<1>2. r \in EventRequests /\ view \in Views /\ seen \in Seens
  BY DEF EventsInv, EventTypes
<1>3. r.list \in SUBSET Nat /\ r.total \in Counts /\ r.shows \in Int /\ r.at \in Nat
  BY <1>1, <1>2, EventFields
<1>4. /\ view' \in Views /\ view'.page = view.page /\ view'.sel = {}
      /\ view'.list = r.list
  <2> HIDE DEF r
  <2> QED BY <1>1, <1>2, <1>3 DEF Views
<1>5. /\ seen' \in Seens /\ seen'.page = r.shows /\ seen'.skipped = seen.skipped
      /\ r.shows # 0 => seen'.covered = r.at
  <2> HIDE DEF r
  <2> QED BY <1>1, <1>2, <1>3 DEF Seens
<1> QED BY <1>1, <1>4, <1>5, EventDropStep

LEMMA NothingShown ==
    ASSUME seen \in Seens, seen' = [seen EXCEPT !.page = 0, !.covered = 0]
    PROVE  seen' \in Seens /\ seen'.page = 0 /\ seen'.skipped = seen.skipped
<1> DEFINE p == 0
           c == 0
<1>1. seen' = [seen EXCEPT !.page = p, !.covered = c]
  OBVIOUS
<1>2. p \in Int /\ c \in Nat
  OBVIOUS
<1> HIDE DEF p, c
<1>3. seen' \in Seens /\ seen'.page = p /\ seen'.skipped = seen.skipped
  BY <1>1, <1>2 DEF Seens
<1> QED BY <1>3 DEF p

LEMMA ListLostOK ==
    ASSUME EventsInv, NEW i \in DOMAIN lists, Events!ListLost(i)
    PROVE  EventsInv'
<1>1. /\ lists' = Events!Drop(i)
      /\ view' = [view EXCEPT !.busy = FALSE]
      /\ seen' = [seen EXCEPT !.page = 0, !.covered = 0]
      /\ UNCHANGED counted /\ UNCHANGED asked /\ UNCHANGED del /\ UNCHANGED dialog
      /\ UNCHANGED snaps /\ UNCHANGED files
  BY DEF Events!ListLost
<1>2. view \in Views /\ seen \in Seens
  BY DEF EventsInv, EventTypes
<1>3. view' \in Views /\ view'.page = view.page /\ view'.sel = view.sel
  BY <1>1, <1>2 DEF Views
<1>4. seen' \in Seens /\ seen'.page = 0 /\ seen'.skipped = seen.skipped
  BY <1>1, <1>2, NothingShown
<1> QED BY <1>1, <1>3, <1>4, EventDropStep

LEMMA DeleteLostOK ==
    ASSUME EventsInv, Events!DeleteLost
    PROVE  EventsInv'
<1>1. /\ lists' = [i \in DOMAIN lists |-> Events!Late(lists[i])]
      /\ seen' = [seen EXCEPT !.page = 0, !.covered = 0]
      /\ del' = Events!Idle
      /\ UNCHANGED counted /\ UNCHANGED view /\ UNCHANGED asked /\ UNCHANGED dialog
      /\ UNCHANGED snaps /\ UNCHANGED files
  BY DEF Events!DeleteLost
<1>2. lists \in Seq(EventRequests) /\ DOMAIN lists = 1 .. Len(lists) /\ seen \in Seens
  BY DEF EventsInv, EventTypes
<1>3. /\ \A i \in 1 .. Len(lists) : lists'[i] \in EventRequests
      /\ lists' = [i \in 1 .. Len(lists) |-> lists'[i]]
  <2>1. ASSUME NEW i \in 1 .. Len(lists)
        PROVE  Events!Late(lists[i]) \in EventRequests
    <3>1. lists[i] \in EventRequests
      BY <1>2
    <3> QED BY ONLY <3>1, EventFields, Zenon
  <2> QED BY <1>1, <1>2, <2>1
<1>4. lists' \in Seq(EventRequests) /\ Len(lists') = Len(lists)
  BY <1>2, <1>3, FunctionIsSeq
<1>5. NewestCurrent'
  <2>1. ASSUME lists' # <<>>
        PROVE  lists'[Len(lists')].shows = 0
    <3>1. Len(lists) \in 1 .. Len(lists)
      BY <1>2, <1>4, <2>1
    <3>2. lists'[Len(lists')] = Events!Late(lists[Len(lists)])
      BY <1>1, <1>2, <1>4, <3>1
    <3>3. lists[Len(lists)] \in EventRequests
      BY <1>2, <3>1
    <3>4. Events!Late(lists[Len(lists)]).shows = 0
      BY ONLY <3>3, EventFields, Zenon
    <3> QED BY <3>2, <3>4
  <2> QED BY <2>1 DEF NewestCurrent, EventsCurrent
<1>6. seen' \in Seens /\ seen'.page = 0
  BY <1>1, <1>2, NothingShown
<1>7. del'.st = "idle"
  BY <1>1 DEF Events!Idle
<1>8. EventTypes' /\ Agreed'
  BY <1>1, <1>4, <1>6, <1>7 DEF EventsInv, EventTypes, Agreed
<1> QED BY <1>5, <1>6, <1>8 DEF EventsInv, ListCurrent

\* Counting new captures without asking for the list
LEMMA SkipStep ==
    ASSUME EventsInv, asked.st \in {"poll", "save"}, counted' = asked.count,
           seen' = [seen EXCEPT !.skipped = Events!Larger(@, asked.count)],
           asked' = Events!Idle,
           UNCHANGED lists, UNCHANGED view, UNCHANGED del, UNCHANGED dialog,
           UNCHANGED snaps, UNCHANGED files
    PROVE  EventsInv'
<1> DEFINE s == Events!Larger(seen.skipped, asked.count)
<1>1. seen.skipped \in Nat /\ asked.count \in 1 .. snaps /\ snaps \in Nat
  BY DEF EventsInv, EventTypes, Seens
<1>2. s \in Nat /\ asked.count <= s /\ seen.skipped <= s
  BY <1>1 DEF Events!Larger
<1>3. seen' = [seen EXCEPT !.skipped = s] /\ seen \in Seens
  BY DEF EventsInv, EventTypes
<1> HIDE DEF s
<1>4. /\ seen' \in Seens /\ seen'.skipped = s /\ seen'.page = seen.page
      /\ seen'.covered = seen.covered /\ seen.covered \in Nat
  BY <1>2, <1>3 DEF Seens
<1>5. \A n \in Nat : counted' <= Events!Larger(n, seen'.skipped)
  BY <1>1, <1>2, <1>4 DEF Events!Larger
<1>6. NewestCurrent'
  <2>1. ASSUME lists # <<>>
        PROVE  EventsCurrent(lists[Len(lists)])'
    <3>1. EventsCurrent(lists[Len(lists)]) /\ lists[Len(lists)] \in EventRequests
      BY <2>1 DEF EventsInv, EventTypes, NewestCurrent
    <3>2. lists[Len(lists)].st = "back" => lists[Len(lists)].at \in Nat
      BY <3>1, EventFields
    <3> QED BY <1>5, <3>1, <3>2 DEF EventsCurrent, OnCard
  <2> QED BY <2>1 DEF NewestCurrent
<1>7. ListCurrent'
  BY <1>4, <1>5 DEF EventsInv, ListCurrent, OnCard
<1>8. asked'.st = "idle"
  BY DEF Events!Idle
<1>9. EventTypes' /\ Agreed'
  BY <1>1, <1>4, <1>8 DEF EventsInv, EventTypes, Agreed
<1> QED BY <1>6, <1>7, <1>9 DEF EventsInv

LEMMA CounterStep ==
    ASSUME EventsInv,
           \/ Events!SaveHandled \/ Events!SaveAnswer
           \/ Events!PollRead \/ Events!PollAnswer
    PROVE  EventsInv'
<1>1. CASE Events!SaveHandled \/ Events!PollRead
  <2>1. PICK by \in {"save", "poll"} : asked' = [st |-> by, count |-> snaps]
    BY <1>1 DEF Events!SaveHandled, Events!PollRead, Events!Counts
  <2>2. asked'.st = by /\ asked'.count = snaps
    BY <2>1
  <2>3. /\ UNCHANGED counted /\ UNCHANGED view /\ UNCHANGED lists /\ UNCHANGED del
        /\ UNCHANGED dialog /\ UNCHANGED snaps /\ UNCHANGED files /\ UNCHANGED seen
    BY <1>1 DEF Events!SaveHandled, Events!PollRead
  <2>4. EventTypes' /\ Agreed'
    BY <2>2, <2>3 DEF EventsInv, EventTypes, Agreed
  <2> QED BY <2>3, <2>4, SameList DEF EventsInv
<1>2. CASE Events!SaveAnswer
  BY <1>2, SkipStep DEF Events!SaveAnswer
<1>3. CASE Events!PollAnswer
  <2>1. /\ asked.st = "poll" /\ asked' = Events!Idle /\ counted' = asked.count
        /\ UNCHANGED del /\ UNCHANGED dialog /\ UNCHANGED snaps /\ UNCHANGED files
    BY <1>3 DEF Events!PollAnswer
  <2>2. asked'.st = "idle" /\ counted' \in 1 .. snaps
    BY <2>1 DEF Events!Idle, EventsInv, EventTypes
  <2>3. CASE asked.count # counted /\ Events!Looking
    <3>1. Events!Ask("today", 1, 1, TRUE) /\ UNCHANGED seen
      BY <1>3, <2>3 DEF Events!PollAnswer
    <3>2. "today" \in Events!Dates /\ 1 \in Int /\ 1 \in {1, 2} /\ TRUE \in BOOLEAN
      BY DEF Events!Dates
    <3>3. lists \in Seq(EventRequests) /\ view \in Views
      BY DEF EventsInv, EventTypes
    <3>4. /\ lists' \in Seq(EventRequests) /\ view' \in Views /\ view'.sel = view.sel
          /\ NewestCurrent' /\ ListCurrent'
      BY <3>1, <3>2, <3>3, EventAskStep
    <3>5. EventTypes' /\ Agreed'
      BY <2>1, <2>2, <3>1, <3>4 DEF EventsInv, EventTypes, Agreed
    <3> QED BY <3>4, <3>5 DEF EventsInv
  <2>4. CASE ~(asked.count # counted /\ Events!Looking) /\ asked.count # counted
    <3>1. /\ seen' = [seen EXCEPT !.skipped = Events!Larger(@, asked.count)]
          /\ UNCHANGED lists /\ UNCHANGED view
      BY <1>3, <2>4 DEF Events!PollAnswer
    <3> QED BY <2>1, <3>1, SkipStep
  <2>5. CASE asked.count = counted
    <3>1. UNCHANGED seen /\ UNCHANGED lists /\ UNCHANGED view /\ UNCHANGED counted
      BY <1>3, <2>1, <2>5 DEF Events!PollAnswer
    <3>2. EventTypes' /\ Agreed'
      BY <2>1, <2>2, <3>1 DEF EventsInv, EventTypes, Agreed
    <3> QED BY <2>1, <3>1, <3>2, SameList DEF EventsInv
  <2> QED BY <2>3, <2>4, <2>5
<1> QED BY <1>1, <1>2, <1>3

\* Steps that ask for the list again
LEMMA AskAgainStep ==
    ASSUME EventsInv, NEW d \in Events!Dates, NEW p \in Int, NEW n \in {1, 2},
           Events!Ask(d, p, n, FALSE), del' = del \/ del' = Events!Idle,
           UNCHANGED counted, UNCHANGED asked, UNCHANGED dialog, UNCHANGED snaps,
           UNCHANGED files, UNCHANGED seen
    PROVE  EventsInv'
<1>1. lists \in Seq(EventRequests) /\ view \in Views
  BY DEF EventsInv, EventTypes
<1>2. /\ lists' \in Seq(EventRequests) /\ view' \in Views /\ view'.sel = view.sel
      /\ NewestCurrent' /\ ListCurrent'
  <2>1. FALSE \in BOOLEAN
    OBVIOUS
  <2> QED BY <1>1, <2>1, EventAskStep
<1>3. del' = del \/ del'.st = "idle"
  BY DEF Events!Idle
<1>4. EventTypes' /\ Agreed'
  BY <1>2, <1>3 DEF EventsInv, EventTypes, Agreed
<1> QED BY <1>2, <1>4 DEF EventsInv

LEMMA AskingStep ==
    ASSUME EventsInv,
           \/ Events!onQuery \/ Events!DeleteAnswer
           \/ \E p \in 1 .. MaxSnaps : Events!TurnPage(p)
    PROVE  EventsInv'
<1>1. view.date \in Events!Dates /\ view.page \in Int
  BY ViewFields DEF EventsInv, EventTypes
<1>2. /\ UNCHANGED counted /\ UNCHANGED asked /\ UNCHANGED dialog /\ UNCHANGED snaps
      /\ UNCHANGED files /\ UNCHANGED seen
      /\ del' = del \/ del' = Events!Idle
  BY DEF Events!onQuery, Events!DeleteAnswer, Events!TurnPage
<1>3. CASE Events!AskPageOne
  <2>1. PICK n \in {1, 2} : Events!Ask(view.date, 1, n, FALSE)
    BY <1>3 DEF Events!AskPageOne
  <2>2. 1 \in Int
    OBVIOUS
  <2> QED BY <1>1, <1>2, <2>1, <2>2, AskAgainStep
<1>4. ASSUME NEW p \in Int, Events!Ask(view.date, p, 1, FALSE)
      PROVE  EventsInv'
  <2>1. 1 \in {1, 2}
    OBVIOUS
  <2> QED BY <1>1, <1>2, <1>4, <2>1, AskAgainStep
<1>5. CASE \E p \in 1 .. MaxSnaps : Events!TurnPage(p)
  <2>1. PICK p \in 1 .. MaxSnaps : Events!TurnPage(p)
    BY <1>5
  <2>2. p \in Int
    OBVIOUS
  <2> QED BY <1>4, <2>1, <2>2 DEF Events!TurnPage
<1> QED BY <1>1, <1>3, <1>4, <1>5 DEF Events!onQuery, Events!DeleteAnswer

LEMMA ChoiceStep ==
    ASSUME EventsInv,
           \/ \E d \in Events!Dates : Events!TypeDate(d)
           \/ \E S \in SUBSET view.list : Events!onSelectionChange(S)
    PROVE  EventsInv'
<1>1. view \in Views /\ view.list \in SUBSET Nat
  BY ViewFields DEF EventsInv, EventTypes
<1>2. /\ UNCHANGED counted /\ UNCHANGED lists /\ UNCHANGED asked /\ UNCHANGED del
      /\ UNCHANGED dialog /\ UNCHANGED snaps /\ UNCHANGED files /\ UNCHANGED seen
      /\ dialog.st = "idle"
  BY DEF Events!TypeDate, Events!onSelectionChange, Events!Idle
<1>3. /\ view' \in Views /\ view'.page = view.page /\ view'.list = view.list
  <2>1. CASE \E d \in Events!Dates : Events!TypeDate(d)
    <3>1. PICK d \in Events!Dates : view' = [view EXCEPT !.date = d]
      BY <2>1 DEF Events!TypeDate
    <3> QED BY <1>1, <3>1 DEF Views
  <2>2. CASE \E S \in SUBSET view.list : Events!onSelectionChange(S)
    <3>1. PICK S \in SUBSET view.list : view' = [view EXCEPT !.sel = S]
      BY <2>2 DEF Events!onSelectionChange
    <3>2. S \in SUBSET Nat
      BY <1>1
    <3> QED BY <1>1, <3>1, <3>2 DEF Views
  <2> QED BY <2>1, <2>2
<1>4. EventTypes' /\ Agreed'
  BY <1>2, <1>3 DEF EventsInv, EventTypes, Agreed
<1> QED BY <1>2, <1>3, <1>4, SameList DEF EventsInv

LEMMA DeleteStep ==
    ASSUME EventsInv,
           \/ Events!AskDeleteSelected \/ Events!AskDeleteDay \/ Events!Cancel
           \/ Events!ConfirmSelected \/ Events!ConfirmDay \/ Events!DeleteHandled
           \/ Events!Snap
    PROVE  EventsInv'
<1>0. /\ UNCHANGED counted /\ UNCHANGED view /\ UNCHANGED lists /\ UNCHANGED asked
      /\ UNCHANGED seen
  BY DEF Events!AskDeleteSelected, Events!AskDeleteDay, Events!Cancel,
         Events!ConfirmSelected, Events!ConfirmDay, Events!DeleteHandled, Events!Snap
<1>1. CASE Events!AskDeleteSelected \/ Events!AskDeleteDay \/ Events!Cancel
  <2>1. /\ UNCHANGED del /\ UNCHANGED snaps /\ UNCHANGED files
        /\ \/ dialog'.st = "files" /\ dialog'.files = view.sel /\ del.st = "idle"
           \/ dialog'.st = "day" /\ del.st = "idle"
           \/ dialog'.st = "idle"
    BY <1>1 DEF Events!AskDeleteSelected, Events!AskDeleteDay, Events!Cancel, Events!Idle
  <2>2. EventTypes' /\ Agreed'
    BY <1>0, <2>1 DEF EventsInv, EventTypes, Agreed
  <2> QED BY <1>0, <2>1, <2>2, SameList DEF EventsInv
<1>2. CASE Events!ConfirmSelected \/ Events!ConfirmDay
  <2>1. /\ UNCHANGED snaps /\ UNCHANGED files /\ dialog.st \in {"files", "day"}
        /\ dialog'.st = "idle"
        /\ \/ /\ del'.st = "files" /\ del'.files = view.sel /\ del'.agreed = dialog.files
              /\ dialog.st = "files"
           \/ /\ del'.st = "day"
              /\ del'.agreed = Events!OfDay(1 .. MaxSnaps, del'.date)
    BY <1>2 DEF Events!ConfirmSelected, Events!ConfirmDay, Events!Idle
  <2>2. del.st = "idle"
    BY <2>1 DEF EventsInv, EventTypes
  <2>3. EventTypes' /\ Agreed'
    BY <1>0, <2>1 DEF EventsInv, EventTypes, Agreed
  <2> QED BY <1>0, <2>1, <2>2, <2>3, SameList DEF EventsInv
<1>3. CASE Events!DeleteHandled
  <2>1. /\ UNCHANGED snaps /\ UNCHANGED dialog /\ files' \subseteq files
        /\ del'.st = "back" /\ del.st \in {"files", "day"}
    BY <1>3 DEF Events!DeleteHandled
  <2>2. EventTypes' /\ Agreed'
    BY <1>0, <2>1 DEF EventsInv, EventTypes, Agreed
  <2> QED BY <1>0, <2>1, <2>2, SameList DEF EventsInv
<1>4. CASE Events!Snap
  <2>1. /\ snaps < MaxSnaps /\ snaps' = snaps + 1 /\ files' = files \cup {snaps + 1}
        /\ UNCHANGED del /\ UNCHANGED dialog
    BY <1>4 DEF Events!Snap
  <2>2. /\ snaps \in 1 .. MaxSnaps /\ counted \in 1 .. snaps /\ files \subseteq 1 .. snaps
        /\ MaxSnaps \in Nat
    BY PartsAssumption DEF EventsInv, EventTypes
  <2>3. /\ snaps' \in 1 .. MaxSnaps /\ 1 .. snaps \subseteq 1 .. snaps'
        /\ files' \subseteq 1 .. snaps' /\ counted' \in 1 .. snaps'
    BY <1>0, <2>1, <2>2
  <2>4. EventTypes'
    BY <1>0, <2>1, <2>3 DEF EventsInv, EventTypes
  <2>5. Agreed'
    BY <1>0, <2>1 DEF EventsInv, Agreed
  <2> QED BY <1>0, <2>1, <2>4, <2>5, SameList DEF EventsInv
<1> QED BY <1>1, <1>2, <1>3, <1>4

LEMMA EventsStep ==
    ASSUME EventsInv, [Events!Next]_Events!eventsVars
    PROVE  EventsInv'
<1>1. CASE UNCHANGED Events!eventsVars
  <2>1. /\ UNCHANGED counted /\ UNCHANGED view /\ UNCHANGED lists /\ UNCHANGED asked
        /\ UNCHANGED del /\ UNCHANGED dialog /\ UNCHANGED snaps /\ UNCHANGED files
        /\ UNCHANGED seen
    BY <1>1 DEF Events!eventsVars
  <2>2. EventTypes' /\ Agreed'
    BY <2>1 DEF EventsInv, EventTypes, Agreed
  <2> QED BY <2>1, <2>2, SameList DEF EventsInv
<1> QED
  BY <1>1, ListReadOK, ListAnswerOK, ListLostOK, CounterStep, AskingStep, ChoiceStep,
     DeleteStep, DeleteLostOK
  DEF Events!Next, Events!Step

LEMMA EventsStart == Events!Init => EventsInv
<1> SUFFICES ASSUME Events!Init PROVE EventsInv
  OBVIOUS
<1> DEFINE r == Events!Asked("today", 1)
<1>1. /\ snaps = 1 /\ counted = 1 /\ files = {1} /\ lists = <<r>>
      /\ asked.st = "idle" /\ del.st = "idle" /\ dialog.st = "idle"
  BY DEF Events!Init, Events!Idle
<1>2. r \in EventRequests /\ r.st = "sent" /\ r.shows = 1
  BY DEF Events!Asked, EventRequests, Events!Dates
<1> HIDE DEF r
<1>3. lists \in Seq(EventRequests) /\ lists # <<>> /\ lists[Len(lists)] = r
  BY <1>1, <1>2
<1>4. view \in Views /\ view.page = 1 /\ seen \in Seens
  <2> DEFINE o == 1
  <2>1. /\ view = [date |-> "today", page |-> o, list |-> {}, total |-> 0,
                   busy |-> TRUE, sel |-> {}]
        /\ seen = [page |-> o, covered |-> o, skipped |-> o]
    BY DEF Events!Init
  <2>2. o \in Int /\ o \in Nat /\ 0 \in Counts /\ "today" \in Events!Dates
    BY DEF Counts, Events!Dates
  <2> HIDE DEF o
  <2>3. view \in Views /\ view.page = o /\ seen \in Seens
    BY <2>1, <2>2 DEF Views, Seens
  <2> QED BY <2>3 DEF o
<1>5. EventTypes
  <2>1. MaxSnaps \in Nat \ {0}
    BY PartsAssumption
  <2> QED BY <1>1, <1>3, <1>4, <2>1 DEF EventTypes
<1>6. Agreed
  BY <1>1 DEF Agreed
<1>7. NewestCurrent /\ ListCurrent
  BY <1>2, <1>3, <1>4 DEF NewestCurrent, ListCurrent, EventsCurrent
<1> QED BY <1>5, <1>6, <1>7 DEF EventsInv

LEMMA EventsAlways == Events!Spec => []EventsInv
BY EventsStart, EventsStep, PTL DEF Events!Spec

\* Only captures the confirmation was about are deleted, although
\* onDeleteSelected of FaceCaptureView.vue reads the selection again after the
\* user has answered and polls replace the list meanwhile.
THEOREM OnlyConfirmedDeleted == Events!Spec => DeletedWereConfirmed
<1>1. ASSUME EventsInv, [Events!Next]_Events!eventsVars
      PROVE  [\A f \in files \ files' : f \in del.agreed]_Events!eventsVars
  <2>1. CASE Events!DeleteHandled
    <3>1. files \subseteq 1 .. MaxSnaps
      BY <1>1, PartsAssumption DEF EventsInv, EventTypes
    <3>2. CASE del.st = "files"
      BY <1>1, <2>1, <3>2 DEF Events!DeleteHandled, EventsInv, Agreed
    <3>3. CASE del.st = "day"
      BY <1>1, <2>1, <3>1, <3>3
      DEF Events!DeleteHandled, EventsInv, Agreed, Events!OfDay
    <3> QED BY <2>1, <3>2, <3>3 DEF Events!DeleteHandled
  <2>2. CASE files \subseteq files'
    BY <2>2
  <2>3. \/ UNCHANGED Events!eventsVars \/ Events!DeleteHandled \/ files \subseteq files'
    BY <1>1
    DEF Events!Next, Events!Step, Events!ListRead, Events!ListAnswer, Events!ListLost,
        Events!SaveHandled, Events!SaveAnswer, Events!PollRead, Events!PollAnswer,
        Events!TypeDate, Events!onQuery, Events!TurnPage, Events!onSelectionChange,
        Events!AskDeleteSelected, Events!AskDeleteDay, Events!Cancel,
        Events!ConfirmSelected, Events!ConfirmDay, Events!DeleteAnswer,
        Events!DeleteLost, Events!Snap
  <2> QED BY <2>1, <2>2, <2>3
<1> QED
  BY <1>1, EventsAlways, PTL
  DEF Events!Spec, DeletedWereConfirmed, Events!DeletedWereConfirmed

\* The list of captures is the pager's page without deleted captures, and holds
\* every capture the page has counted, however the answers to its list, poll,
\* save and delete requests come (refreshEvents, onDeleteSelected, onDeleteDay
\* and the poll of FaceCaptureView.vue).
THEOREM EventsAlwaysShown == Events!Spec => []EventsShown
<1>1. EventsInv => EventsShown
  BY DEF EventsInv, ListCurrent, OnCard, EventsShown, Events!ListShown,
         Events!CountedIsListed, Events!Idle
<1> QED BY <1>1, EventsAlways, PTL

-----------------------------------------------------------------------------
\* The session

Logins ==
    [st : {"sent"}, pass : {"default", "own"}]
    \cup [st : {"back"}, token : Nat, must_change : BOOLEAN]

\* Tokens are issued in ascending order; the guard asks with the cookie the
\* browser still has
SessionTypes ==
    /\ issued \in Nat /\ token \in 0 .. issued /\ cookie \in 0 .. issued
    /\ pass \in {"default", "own"}
    /\ nav.st = "lost" => nav = Session!Lost
    /\ nav.st = "sent" => nav.cookie = cookie
    /\ logins \in Seq(Logins)
    /\ \A i \in DOMAIN logins : logins[i].st = "back" => logins[i].token \in 1 .. issued
    /\ leave.st = "back" /\ leave.what = "logout" => leave.ok

\* A reset ends the session it finds, and a later token is not the browser's
Confined ==
    /\ nav.st = "back" /\ nav.ok /\ ~nav.must_change /\ Session!auth_ok(cookie) => pass = "own"
    /\ route = "main" /\ nav.st = "idle" /\ Session!auth_ok(cookie) => pass = "own"

\* What keeps a page from standing there without a token: a login whose answer
\* is to come, the answer of what ended the session, or the guard
Granted == \E i \in DOMAIN logins : logins[i].st = "back"
Ended == token = 0 /\ leave.st = "back" /\ leave.ok /\ leave.what \in {"logout", "reset"}
Outside == route \notin Session!Pages /\ (nav.st = "back" => ~nav.ok)
Held == ~upset => Session!auth_ok(cookie) \/ Granted \/ Ended \/ Outside

SessionInv == SessionTypes /\ Confined /\ Held

\* Steps that keep the logins on the way
LEMMA SameLogins ==
    ASSUME UNCHANGED logins
    PROVE  Granted' = Granted
BY DEF Granted

LEMMA NavStep ==
    ASSUME SessionInv,
           \/ \E to \in Session!Pages : Session!Go(to)
           \/ Session!MeHandled \/ Session!Guarded
    PROVE  SessionInv'
<1>1. /\ UNCHANGED token /\ UNCHANGED issued /\ UNCHANGED pass /\ UNCHANGED cookie
      /\ UNCHANGED logins /\ UNCHANGED leave /\ UNCHANGED upset
  BY DEF Session!Go, Session!MeHandled, Session!Guarded
<1>2. Session!auth_ok(cookie)' = Session!auth_ok(cookie) /\ Granted' = Granted /\ Ended' = Ended
  BY <1>1, SameLogins DEF Session!auth_ok, Ended
<1>3. ASSUME NEW to \in Session!Pages, Session!Go(to)
      PROVE  SessionInv'
  <2>1. /\ nav' = [st |-> "sent", to |-> to, cookie |-> cookie]
        /\ UNCHANGED route /\ route \in Session!Pages
    BY <1>1, <1>3 DEF Session!Go, Session!Guard
  <2>2. nav'.st = "sent" /\ nav'.cookie = cookie
    BY <2>1
  <2>3. SessionTypes'
    BY <1>1, <2>2 DEF SessionInv, SessionTypes
  <2>4. Confined'
    BY <2>2 DEF Confined
  <2>5. Held'
    BY <1>1, <1>2, <2>1 DEF SessionInv, Held, Outside
  <2> QED BY <2>3, <2>4, <2>5 DEF SessionInv
<1>4. CASE Session!MeHandled
  <2>0. nav.st = "sent" /\ nav.cookie = cookie /\ UNCHANGED route
    BY <1>4 DEF Session!MeHandled, SessionInv, SessionTypes
  <2>1. CASE nav' = Session!Lost
    <3>1. nav'.st = "lost"
      BY <2>1 DEF Session!Lost
    <3>2. SessionTypes'
      BY <1>1, <2>1, <3>1 DEF SessionInv, SessionTypes, Session!Lost
    <3>3. Confined'
      BY <3>1 DEF Confined
    <3>4. Held'
      BY <1>1, <1>2, <2>0, <3>1 DEF SessionInv, Held, Outside
    <3> QED BY <3>2, <3>3, <3>4 DEF SessionInv
  <2>2. CASE nav' = [st |-> "back", to |-> nav.to, ok |-> Session!auth_ok(nav.cookie),
                     must_change |-> pass = "default"]
    <3>1. /\ nav'.st = "back" /\ nav'.ok = Session!auth_ok(cookie)
          /\ nav'.must_change = (pass = "default")
      BY <2>0, <2>2
    <3>2. SessionTypes'
      BY <1>1, <3>1 DEF SessionInv, SessionTypes
    <3>3. Confined'
      BY <1>1, <3>1 DEF SessionInv, SessionTypes, Confined
    <3>4. Held'
      BY <1>1, <1>2, <2>0, <3>1 DEF SessionInv, Held, Outside
    <3> QED BY <3>2, <3>3, <3>4 DEF SessionInv
  <2> QED BY <1>4, <2>1, <2>2 DEF Session!MeHandled
<1>5. CASE Session!Guarded
  <2>1. CASE route' = "login" /\ nav' = Session!Idle
    <3>1. nav'.st = "idle"
      BY <2>1 DEF Session!Idle
    <3>2. SessionTypes'
      BY <1>1, <3>1 DEF SessionInv, SessionTypes
    <3>3. Confined'
      BY <2>1, <3>1 DEF Confined
    <3>4. Held'
      BY <2>1, <3>1 DEF Held, Outside, Session!Pages
    <3> QED BY <3>2, <3>3, <3>4 DEF SessionInv
  <2>2. CASE ~(nav = Session!Lost \/ ~nav.ok)
    <3>0. nav.st = "back" /\ nav.ok
      BY <1>5, <2>2 DEF Session!Guarded, SessionInv, SessionTypes
    <3>1. CASE nav.must_change /\ nav.to # "password"
      <4>1. /\ nav' = [st |-> "sent", to |-> "password", cookie |-> cookie] /\ UNCHANGED route
        BY <1>1, <1>5, <2>2, <3>1 DEF Session!Guarded, Session!Guard
      <4>2. nav'.st = "sent" /\ nav'.cookie = cookie
        BY <4>1
      <4>3. SessionTypes'
        BY <1>1, <4>2 DEF SessionInv, SessionTypes
      <4>4. Confined'
        BY <4>2 DEF Confined
      <4>5. Held'
        BY <1>1, <1>2, <3>0, <4>1 DEF SessionInv, Held, Outside
      <4> QED BY <4>3, <4>4, <4>5 DEF SessionInv
    <3>2. CASE ~(nav.must_change /\ nav.to # "password")
      <4>1. route' = nav.to /\ nav' = Session!Idle
        BY <1>5, <2>2, <3>2 DEF Session!Guarded
      <4>2. nav'.st = "idle"
        BY <4>1 DEF Session!Idle
      <4>3. SessionTypes'
        BY <1>1, <4>2 DEF SessionInv, SessionTypes
      <4>4. Confined'
        BY <1>1, <1>2, <3>0, <3>2, <4>1, <4>2 DEF SessionInv, Confined
      <4>5. Held'
        BY <1>1, <1>2, <3>0 DEF SessionInv, Held, Outside
      <4> QED BY <4>3, <4>4, <4>5 DEF SessionInv
    <3> QED BY <3>1, <3>2
  <2> QED BY <1>5, <2>1, <2>2 DEF Session!Guarded
<1> QED BY <1>3, <1>4, <1>5

\* A login leaves the queue
LEMMA LoginGone ==
    ASSUME SessionInv, NEW i \in DOMAIN logins, logins' = Session!RemoveAt(logins, i),
           UNCHANGED issued
    PROVE  /\ logins' \in Seq(Logins)
           /\ \A j \in DOMAIN logins' : logins'[j].st = "back" => logins'[j].token \in 1 .. issued'
           /\ logins[i].st # "back" => (Granted => Granted')
<1>1. logins \in Seq(Logins) /\ i \in 1 .. Len(logins) /\ Len(logins) \in Nat
  BY DEF SessionInv, SessionTypes
<1> DEFINE n == Len(logins)
<1>2. /\ logins' \in Seq(Logins) /\ Len(logins') = n - 1
      /\ \A j \in 1 .. n - 1 : logins'[j] = IF j < i THEN logins[j] ELSE logins[j + 1]
  BY <1>1, Removed DEF Session!RemoveAt
<1>3. DOMAIN logins = 1 .. n /\ DOMAIN logins' = 1 .. n - 1
  BY <1>1, <1>2
<1> HIDE DEF n
<1>4. ASSUME NEW j \in DOMAIN logins', logins'[j].st = "back"
      PROVE  logins'[j].token \in 1 .. issued'
  <2>1. PICK k \in DOMAIN logins : logins'[j] = logins[k]
    <3>1. CASE j < i
      <4>1. j \in DOMAIN logins /\ logins'[j] = logins[j]
        BY <1>1, <1>2, <1>3, <3>1 DEF n
      <4> QED BY <4>1
    <3>2. CASE ~(j < i)
      <4>1. j + 1 \in DOMAIN logins /\ logins'[j] = logins[j + 1]
        BY <1>1, <1>2, <1>3, <3>2 DEF n
      <4> QED BY <4>1
    <3> QED BY <3>1, <3>2
  <2> QED BY <1>4, <2>1 DEF SessionInv, SessionTypes
<1>5. ASSUME logins[i].st # "back", Granted
      PROVE  Granted'
  <2>1. PICK k \in DOMAIN logins : logins[k].st = "back" /\ k # i
    BY <1>5 DEF Granted
  <2>2. CASE k < i
    <3>1. k \in DOMAIN logins' /\ logins'[k] = logins[k]
      BY <1>1, <1>2, <1>3, <2>2 DEF n
    <3> QED BY <2>1, <3>1 DEF Granted
  <2>3. CASE ~(k < i)
    <3>1. /\ k - 1 \in DOMAIN logins' /\ ~(k - 1 < i) /\ (k - 1) + 1 = k
      BY <1>1, <1>3, <2>1, <2>3 DEF n
    <3>2. logins'[k - 1] = logins[k]
      BY <1>2, <1>3, <3>1
    <3> QED BY <2>1, <3>1, <3>2 DEF Granted
  <2> QED BY <2>2, <2>3
<1> QED BY <1>2, <1>4, <1>5

\* A new token is not the one the browser has
LEMMA Issued ==
    ASSUME SessionInv, Session!issue_token, UNCHANGED cookie, UNCHANGED pass, UNCHANGED nav,
           UNCHANGED route
    PROVE  /\ token' = issued + 1 /\ issued' = issued + 1
           /\ ~Session!auth_ok(cookie)' /\ Confined'
<1>1. token' = issued + 1 /\ issued' = issued + 1
  BY DEF Session!issue_token
<1>2. ~Session!auth_ok(cookie)'
  BY <1>1 DEF SessionInv, SessionTypes, Session!auth_ok
<1> QED BY <1>1, <1>2 DEF Confined

LEMMA LoginStep ==
    ASSUME SessionInv,
           \/ \E p \in {"default", "own"} : Session!onLogin(p)
           \/ \E i \in DOMAIN logins :
                Session!LoginHandled(i) \/ Session!LoginAnswer(i) \/ Session!LoginLost(i)
    PROVE  SessionInv'
<1>0. logins \in Seq(Logins) /\ DOMAIN logins = 1 .. Len(logins)
  BY DEF SessionInv, SessionTypes
<1>1. ASSUME NEW p \in {"default", "own"}, Session!onLogin(p)
      PROVE  SessionInv'
  <2> DEFINE r == [st |-> "sent", pass |-> p]
  <2>1. /\ logins' = Append(logins, r)
        /\ UNCHANGED token /\ UNCHANGED issued /\ UNCHANGED pass /\ UNCHANGED cookie
        /\ UNCHANGED route /\ UNCHANGED nav /\ UNCHANGED leave /\ UNCHANGED upset
    BY <1>1 DEF Session!onLogin
  <2>2. r \in Logins /\ r.st # "back"
    BY DEF Logins
  <2> HIDE DEF r
  <2>3. /\ logins' \in Seq(Logins)
        /\ \A j \in DOMAIN logins' : logins'[j] = IF j \in DOMAIN logins THEN logins[j] ELSE r
        /\ \A j \in DOMAIN logins : j \in DOMAIN logins' /\ logins'[j] = logins[j]
    BY <1>0, <2>1, <2>2
  <2>4. SessionTypes'
    BY <2>1, <2>2, <2>3 DEF SessionInv, SessionTypes
  <2>5. Confined'
    BY <2>1 DEF SessionInv, Confined, Session!auth_ok
  <2>6. Granted => Granted'
    BY <2>3 DEF Granted
  <2>7. Held'
    BY <2>1, <2>6 DEF SessionInv, Held, Ended, Outside, Session!auth_ok
  <2> QED BY <2>4, <2>5, <2>7 DEF SessionInv
<1>2. ASSUME NEW i \in DOMAIN logins, Session!LoginHandled(i)
      PROVE  SessionInv'
  <2> DEFINE r == [st |-> "back", token |-> token', must_change |-> pass = "default"]
  <2>1. /\ Session!issue_token /\ logins' = [logins EXCEPT ![i] = r]
        /\ UNCHANGED pass /\ UNCHANGED cookie
        /\ UNCHANGED route /\ UNCHANGED nav /\ UNCHANGED leave /\ UNCHANGED upset
    BY <1>2 DEF Session!LoginHandled
  <2>2. /\ token' = issued + 1 /\ issued' = issued + 1 /\ issued \in Nat
        /\ Confined'
    BY <2>1, Issued DEF SessionInv, SessionTypes
  <2>3. r.st = "back" /\ r.token = token' /\ r \in Logins
    BY <2>2 DEF Logins
  <2> HIDE DEF r
  <2>4. logins' \in Seq(Logins) /\ DOMAIN logins' = DOMAIN logins /\ logins'[i] = r
    BY <1>0, <2>1, <2>3
  <2>5. ASSUME NEW j \in DOMAIN logins', logins'[j].st = "back"
        PROVE  logins'[j].token \in 1 .. issued'
    <3>1. CASE j = i
      BY <2>2, <2>3, <2>4, <3>1
    <3>2. CASE j # i
      <4>1. logins'[j] = logins[j]
        BY <1>0, <2>1, <2>4, <3>2
      <4>2. logins[j].token \in 1 .. issued
        BY <2>4, <2>5, <4>1 DEF SessionInv, SessionTypes
      <4> QED BY <2>2, <4>1, <4>2
    <3> QED BY <3>1, <3>2
  <2>6. SessionTypes'
    BY <2>1, <2>2, <2>4, <2>5 DEF SessionInv, SessionTypes
  <2>7. Granted'
    BY <2>3, <2>4 DEF Granted
  <2> QED BY <2>2, <2>6, <2>7 DEF SessionInv, Held
<1>3. ASSUME NEW i \in DOMAIN logins, Session!LoginAnswer(i)
      PROVE  SessionInv'
  <2>1. /\ logins' = Session!RemoveAt(logins, i) /\ logins[i].st = "back"
        /\ cookie' = logins[i].token /\ upset' = (cookie' # token)
        /\ UNCHANGED token /\ UNCHANGED issued /\ UNCHANGED pass
        /\ UNCHANGED route /\ UNCHANGED leave
    BY <1>3 DEF Session!LoginAnswer
  <2>2. nav'.st = "sent" /\ nav'.cookie = cookie'
    BY <1>3 DEF Session!LoginAnswer, Session!Guard
  <2>3. cookie' \in 1 .. issued
    BY <2>1 DEF SessionInv, SessionTypes
  <2>4. SessionTypes'
    BY <2>1, <2>2, <2>3, LoginGone DEF SessionInv, SessionTypes
  <2>5. Confined'
    BY <2>2 DEF Confined
  <2>6. Held'
    <3>1. upset' = (cookie' # token)
      BY <2>1
    <3>2. ~upset' => cookie' = token
      BY ONLY <3>1, Zenon
    <3>3. cookie' # 0
      BY <2>3
    <3> QED BY <2>1, <3>2, <3>3 DEF Held, Session!auth_ok
  <2> QED BY <2>4, <2>5, <2>6 DEF SessionInv
<1>4. ASSUME NEW i \in DOMAIN logins, Session!LoginLost(i)
      PROVE  SessionInv'
  <2>1. /\ logins' = Session!RemoveAt(logins, i)
        /\ upset' = (upset \/ logins[i].st = "back")
        /\ UNCHANGED token /\ UNCHANGED issued /\ UNCHANGED pass /\ UNCHANGED cookie
        /\ UNCHANGED route /\ UNCHANGED nav /\ UNCHANGED leave
    BY <1>4 DEF Session!LoginLost
  <2>2. SessionTypes'
    BY <2>1, LoginGone DEF SessionInv, SessionTypes
  <2>3. Confined'
    BY <2>1 DEF SessionInv, Confined, Session!auth_ok
  <2>4. ~upset' => ~upset /\ logins[i].st # "back"
    BY <2>1, Zenon
  <2>5. Held'
    BY <2>1, <2>4, LoginGone DEF SessionInv, Held, Ended, Outside, Session!auth_ok
  <2> QED BY <2>2, <2>3, <2>5 DEF SessionInv
<1> QED BY <1>1, <1>2, <1>3, <1>4

LEMMA LeaveStep ==
    ASSUME SessionInv,
           \/ \E p \in {"default", "own"} : Session!onPassword(p)
           \/ Session!onLogout \/ Session!onReset
           \/ Session!LogoutHandled \/ Session!PasswordHandled \/ Session!ResetHandled
           \/ Session!LeaveAnswer \/ Session!LeaveLost
    PROVE  SessionInv'
<1>0. UNCHANGED issued /\ UNCHANGED logins /\ Granted' = Granted
  BY SameLogins
  DEF Session!onPassword, Session!onLogout, Session!onReset, Session!Request,
      Session!LogoutHandled, Session!PasswordHandled, Session!ResetHandled,
      Session!LeaveAnswer, Session!LeaveLost
<1>1. ASSUME NEW what, Session!Request(what), what.st # "back"
      PROVE  SessionInv'
  <2>1. /\ leave.st # "back" /\ leave'.st # "back"
        /\ UNCHANGED token /\ UNCHANGED pass /\ UNCHANGED cookie
        /\ UNCHANGED route /\ UNCHANGED nav /\ UNCHANGED upset
    BY <1>1 DEF Session!Request, Session!Idle
  <2>2. SessionTypes'
    BY <1>0, <2>1 DEF SessionInv, SessionTypes
  <2>3. Confined'
    BY <2>1 DEF SessionInv, Confined, Session!auth_ok
  <2>4. Held'
    BY <1>0, <2>1 DEF SessionInv, Held, Ended, Outside, Session!auth_ok
  <2> QED BY <2>2, <2>3, <2>4 DEF SessionInv
<1>2. CASE \/ \E p \in {"default", "own"} : Session!onPassword(p)
           \/ Session!onLogout \/ Session!onReset
  BY <1>1, <1>2 DEF Session!onPassword, Session!onLogout, Session!onReset
<1>3. ASSUME NEW what, leave' = [st |-> "back", what |-> what, ok |-> TRUE],
             what \in {"logout", "reset"}, token' = 0,
             pass' \in {"default", "own"},
             UNCHANGED cookie, UNCHANGED route, UNCHANGED nav
      PROVE  SessionInv'
  <2>1. /\ leave'.st = "back" /\ leave'.ok = TRUE /\ leave'.what = what
        /\ ~Session!auth_ok(cookie)'
    BY <1>3 DEF Session!auth_ok
  <2>2. SessionTypes'
    BY <1>0, <1>3, <2>1 DEF SessionInv, SessionTypes
  <2>3. Confined'
    BY <2>1 DEF Confined
  <2>4. Held'
    BY <1>3, <2>1 DEF Held, Ended
  <2> QED BY <2>2, <2>3, <2>4 DEF SessionInv
<1>4. ASSUME NEW what, NEW ok, leave' = [st |-> "back", what |-> what, ok |-> ok],
             what # "logout", leave.st # "back", pass' \in {pass, "own"},
             UNCHANGED token, UNCHANGED cookie, UNCHANGED route, UNCHANGED nav,
             UNCHANGED upset
      PROVE  SessionInv'
  <2>1. leave'.st = "back" /\ leave'.what = what
    BY <1>4
  <2>2. SessionTypes'
    BY <1>0, <1>4, <2>1 DEF SessionInv, SessionTypes
  <2>3. Confined'
    BY <1>4 DEF SessionInv, Confined, Session!auth_ok
  <2>4. Held'
    BY <1>0, <1>4 DEF SessionInv, Held, Ended, Outside, Session!auth_ok
  <2> QED BY <2>2, <2>3, <2>4 DEF SessionInv
<1>5. pass \in {"default", "own"}
  BY DEF SessionInv, SessionTypes
<1>6. CASE Session!LogoutHandled
  BY <1>3, <1>5, <1>6 DEF Session!LogoutHandled, Session!Done
<1>7. CASE Session!PasswordHandled
  <2>1. \E ok : leave' = [st |-> "back", what |-> "password", ok |-> ok]
    BY <1>7 DEF Session!PasswordHandled, Session!Done
  <2>2. /\ leave.st # "back" /\ pass' \in {pass, "own"}
        /\ UNCHANGED token /\ UNCHANGED cookie /\ UNCHANGED route /\ UNCHANGED nav
        /\ UNCHANGED upset
    BY <1>7 DEF Session!PasswordHandled
  <2> QED BY <1>4, <2>1, <2>2
<1>8. CASE Session!ResetHandled
  <2>1. /\ leave.st # "back" /\ UNCHANGED cookie /\ UNCHANGED route /\ UNCHANGED nav
        /\ UNCHANGED upset
    BY <1>8 DEF Session!ResetHandled
  <2>2. CASE Session!auth_ok(leave.cookie)
    BY <1>3, <1>8, <2>1, <2>2 DEF Session!ResetHandled, Session!Done
  <2>3. CASE ~Session!auth_ok(leave.cookie)
    <3>1. /\ leave' = [st |-> "back", what |-> "reset", ok |-> FALSE]
          /\ UNCHANGED pass /\ UNCHANGED token
      BY <1>8, <2>3 DEF Session!ResetHandled, Session!Done
    <3> QED BY <1>4, <2>1, <3>1
  <2> QED BY <2>2, <2>3
<1>9. CASE Session!LeaveAnswer
  <2>1. /\ leave.st = "back" /\ leave'.st = "idle"
        /\ UNCHANGED token /\ UNCHANGED pass /\ UNCHANGED upset
        /\ cookie' = IF leave.what = "logout" THEN 0 ELSE cookie
    BY <1>9 DEF Session!LeaveAnswer, Session!Idle
  <2>2. cookie' \in 0 .. issued /\ (Session!auth_ok(cookie)' => Session!auth_ok(cookie))
    BY <2>1 DEF SessionInv, SessionTypes, Session!auth_ok
  <2>3. CASE ~leave.ok
    <3>1. UNCHANGED route /\ UNCHANGED nav /\ UNCHANGED cookie
      BY <1>9, <2>1, <2>3 DEF Session!LeaveAnswer, SessionInv, SessionTypes
    <3>2. SessionTypes'
      BY <1>0, <2>1, <3>1 DEF SessionInv, SessionTypes
    <3>3. Confined'
      BY <2>1, <2>2, <3>1 DEF SessionInv, Confined
    <3>4. Held'
      BY <1>0, <2>1, <2>3, <3>1 DEF SessionInv, Held, Ended, Outside, Session!auth_ok
    <3> QED BY <3>2, <3>3, <3>4 DEF SessionInv
  <2>4. CASE leave.ok /\ leave.what = "password"
    <3>1. UNCHANGED route /\ UNCHANGED cookie /\ nav'.st = "sent" /\ nav'.cookie = cookie'
      BY <1>9, <2>1, <2>4 DEF Session!LeaveAnswer, Session!Guard
    <3>2. SessionTypes'
      BY <1>0, <2>1, <3>1 DEF SessionInv, SessionTypes
    <3>3. Confined'
      BY <3>1 DEF Confined
    <3>4. Held'
      BY <1>0, <2>1, <2>4, <3>1 DEF SessionInv, Held, Ended, Outside, Session!auth_ok
    <3> QED BY <3>2, <3>3, <3>4 DEF SessionInv
  <2>5. CASE leave.ok /\ leave.what # "password"
    <3>1. route' = "login" /\ nav' = Session!Idle /\ nav'.st = "idle"
      BY <1>9, <2>5 DEF Session!LeaveAnswer, Session!Idle
    <3>2. SessionTypes'
      BY <1>0, <2>1, <2>2, <3>1 DEF SessionInv, SessionTypes
    <3>3. Confined'
      BY <3>1 DEF Confined
    <3>4. Held'
      BY <3>1 DEF Held, Outside, Session!Pages
    <3> QED BY <3>2, <3>3, <3>4 DEF SessionInv
  <2> QED BY <2>3, <2>4, <2>5
<1>10. CASE Session!LeaveLost
  <2>1. /\ leave'.st = "idle"
        /\ UNCHANGED token /\ UNCHANGED pass /\ UNCHANGED cookie
        /\ UNCHANGED route /\ UNCHANGED nav
        /\ upset' = (upset \/ (leave.st = "back" /\ token = 0))
    BY <1>10 DEF Session!LeaveLost, Session!Idle
  <2>2. SessionTypes'
    BY <1>0, <2>1 DEF SessionInv, SessionTypes
  <2>3. Confined'
    BY <2>1 DEF SessionInv, Confined, Session!auth_ok
  <2>4. ~upset' => ~upset /\ ~Ended
    BY <2>1, Zenon DEF Ended
  <2>5. Held'
    BY <1>0, <2>1, <2>4 DEF SessionInv, Held, Outside, Session!auth_ok
  <2> QED BY <2>2, <2>3, <2>5 DEF SessionInv
<1> QED BY <1>2, <1>6, <1>7, <1>8, <1>9, <1>10

LEMMA OthersStep ==
    ASSUME SessionInv, Session!OtherLogin \/ Session!OtherReset \/ Session!Expire
    PROVE  SessionInv'
<1>1. CASE Session!OtherLogin
  <2>1. /\ Session!issue_token /\ upset' = TRUE
        /\ UNCHANGED pass /\ UNCHANGED cookie /\ UNCHANGED route /\ UNCHANGED nav
        /\ UNCHANGED logins /\ UNCHANGED leave
    BY <1>1 DEF Session!OtherLogin
  <2>2. token' = issued + 1 /\ issued' = issued + 1 /\ Confined'
    BY <2>1, Issued
  <2>3. SessionTypes'
    BY <2>1, <2>2 DEF SessionInv, SessionTypes
  <2> QED BY <2>1, <2>2, <2>3 DEF SessionInv, Held
<1>2. CASE Session!OtherReset \/ Session!Expire
  <2>1. /\ token' = 0 /\ upset' = TRUE /\ pass' \in {pass, "default"}
        /\ UNCHANGED issued /\ UNCHANGED cookie /\ UNCHANGED route /\ UNCHANGED nav
        /\ UNCHANGED logins /\ UNCHANGED leave
    BY <1>2 DEF Session!OtherReset, Session!Expire
  <2>2. SessionTypes'
    BY <2>1 DEF SessionInv, SessionTypes
  <2>3. Confined'
    BY <2>1 DEF Confined, Session!auth_ok
  <2> QED BY <2>1, <2>2, <2>3 DEF SessionInv, Held
<1> QED BY <1>1, <1>2

LEMMA SessionStep ==
    ASSUME SessionInv, [Session!Next]_Session!sessionVars
    PROVE  SessionInv'
<1>1. CASE UNCHANGED Session!sessionVars
  <2>1. /\ UNCHANGED token /\ UNCHANGED issued /\ UNCHANGED pass /\ UNCHANGED cookie
        /\ UNCHANGED route /\ UNCHANGED nav /\ UNCHANGED logins /\ UNCHANGED leave
        /\ UNCHANGED upset
    BY <1>1 DEF Session!sessionVars
  <2> QED BY <2>1, SameLogins
      DEF SessionInv, SessionTypes, Confined, Held, Ended, Outside, Session!auth_ok
<1> QED BY <1>1, NavStep, LoginStep, LeaveStep, OthersStep DEF Session!Next

LEMMA SessionAlways == Session!Spec => []SessionInv
<1>1. Session!Init => SessionInv
  <2> SUFFICES ASSUME Session!Init PROVE SessionInv
    OBVIOUS
  <2>1. /\ token = 0 /\ issued = 0 /\ cookie = 0 /\ logins = <<>> /\ leave.st = "idle"
        /\ nav.st = "sent" /\ nav.cookie = 0
    BY DEF Session!Init, Session!Idle
  <2>2. pass \in {"default", "own"} /\ route = "blank"
    BY DEF Session!Init
  <2>3. SessionTypes
    BY <2>1, <2>2 DEF SessionTypes
  <2> QED BY <2>1, <2>2, <2>3 DEF SessionInv, Confined, Held, Outside, Session!Pages
<1> QED BY <1>1, SessionStep, PTL DEF Session!Spec

\* The default password opens nothing but the password page: a browser with a
\* valid session is on another page only with a changed one (beforeEach of
\* router.ts with handle_me, handle_password and handle_system_reset).
THEOREM MustChangeAlwaysConfines == Session!Spec => []MustChangeConfines
<1>1. SessionInv => MustChangeConfines
  BY DEF SessionInv, Confined, MustChangeConfines, Session!MustChangeConfines, Session!Idle
<1> QED BY <1>1, SessionAlways, PTL

\* A page of the program is shown with the device's token, whatever is pressed
\* twice, unless an answer was lost or overtaken or another client came
\* (onSubmit of LoginView.vue and PasswordView.vue, onLogout of AppLayout.vue
\* and onReset of SystemView.vue).
THEOREM SessionAlwaysHolds == Session!Spec => []SessionHolds
<1>1. SessionInv => SessionHolds
  BY DEF SessionInv, Held, Granted, Ended, Outside, SessionHolds, Session!SessionHolds,
         Session!Idle
<1> QED BY <1>1, SessionAlways, PTL
-----------------------------------------------------------------------------
\* The network page

\* Products with the number of bits of an octet
LEMMA OctetProducts ==
    ASSUME NEW m \in Nat, NEW n \in Nat, m < n
    PROVE  /\ OctetBits * m \in Nat /\ OctetBits * n \in Nat
           /\ OctetBits * m + OctetBits <= OctetBits * n
<1>1. OctetBits \in Nat
  BY NetworkAssumption
<1>2. PICK d \in Nat : n = m + 1 + d
  <2>1. n - m - 1 \in Nat /\ n = m + 1 + (n - m - 1)
    OBVIOUS
  <2> QED BY <2>1
<1>3. OctetBits * n = OctetBits * m + OctetBits + OctetBits * d
  BY <1>1, <1>2
<1>4. OctetBits * m \in Nat /\ OctetBits * d \in Nat
  BY <1>1, <1>2
<1> QED BY <1>1, <1>3, <1>4

\* The octets lie in the number side by side
LEMMA PlaceFacts ==
    ASSUME NEW i \in 1 .. Octets, NEW b \in 0 .. OctetBits - 1
    PROVE  Network!Place(i, b) \in Network!Places
<1>0. Octets \in Nat /\ OctetBits \in Nat /\ i \in Nat /\ b \in Nat /\ b < OctetBits
  BY NetworkAssumption
<1>1. Octets - i \in Nat /\ Octets - i < Octets
  BY <1>0
<1> DEFINE low == OctetBits * (Octets - i)
           all == OctetBits * Octets
<1>2. low \in Nat /\ all \in Nat /\ low + OctetBits <= all
  BY <1>0, <1>1, OctetProducts
<1>3. Octets * OctetBits = all
  BY <1>0
<1> HIDE DEF low, all
<1>4. low + b \in 0 .. all - 1
  BY <1>0, <1>2
<1> QED BY <1>3, <1>4 DEF Network!Place, Network!Places, Network!Bits, low

LEMMA PlaceInjective ==
    ASSUME NEW i \in 1 .. Octets, NEW b \in 0 .. OctetBits - 1,
           NEW j \in 1 .. Octets, NEW c \in 0 .. OctetBits - 1,
           Network!Place(i, b) = Network!Place(j, c)
    PROVE  i = j /\ b = c
<1>0. /\ Octets \in Nat /\ OctetBits \in Nat /\ Octets - i \in Nat /\ Octets - j \in Nat
      /\ b \in Nat /\ b < OctetBits /\ c \in Nat /\ c < OctetBits
  BY NetworkAssumption
<1> DEFINE x == OctetBits * (Octets - i)
           y == OctetBits * (Octets - j)
<1>1. x + b = y + c
  BY DEF Network!Place
<1>2. CASE i = j
  <2>1. x = y /\ x \in Nat
    BY <1>0, <1>2
  <2> HIDE DEF x, y
  <2> QED BY <1>0, <1>1, <1>2, <2>1
<1>3. CASE i < j
  <2>1. Octets - j < Octets - i
    BY <1>0, <1>3
  <2>2. x \in Nat /\ y \in Nat /\ y + OctetBits <= x
    BY <1>0, <2>1, OctetProducts
  <2> HIDE DEF x, y
  <2> QED BY <1>0, <1>1, <2>2
<1>4. CASE j < i
  <2>1. Octets - i < Octets - j
    BY <1>0, <1>4
  <2>2. x \in Nat /\ y \in Nat /\ x + OctetBits <= y
    BY <1>0, <2>1, OctetProducts
  <2> HIDE DEF x, y
  <2> QED BY <1>0, <1>1, <2>2
<1> QED BY <1>2, <1>3, <1>4

\* A set of places that contains what is below each of its members is 0 .. k - 1
LEMMA DownwardClosed ==
    ASSUME NEW S \in SUBSET Network!Places, \A p \in S : 0 .. p \subseteq S
    PROVE  \E k \in Nat : S = 0 .. k - 1
<1>0. Network!Bits \in Nat
  BY NetworkAssumption DEF Network!Bits
<1>1. S \subseteq 0 .. Network!Bits - 1 /\ S \subseteq Nat
  BY <1>0 DEF Network!Places
<1>2. IsFiniteSet(S)
  <2>1. IsFiniteSet(0 .. Network!Bits - 1)
    BY <1>0, FS_Interval
  <2> QED BY <1>1, <2>1, FS_Subset
<1> DEFINE k == Cardinality(S)
<1>3. k \in Nat
  BY <1>2, FS_CardinalityType
<1>4. \A n \in Nat : IsFiniteSet(0 .. n - 1) /\ Cardinality(0 .. n - 1) = n
  <2> SUFFICES ASSUME NEW n \in Nat
               PROVE  IsFiniteSet(0 .. n - 1) /\ Cardinality(0 .. n - 1) = n
    OBVIOUS
  <2>1. /\ IsFiniteSet(0 .. n - 1)
        /\ Cardinality(0 .. n - 1) = IF 0 > n - 1 THEN 0 ELSE n - 1 - 0 + 1
    BY FS_Interval
  <2> QED BY <2>1
<1>5. ASSUME NEW p \in S PROVE p < k
  <2>1. p \in Nat /\ p + 1 \in Nat /\ 0 .. (p + 1) - 1 = 0 .. p
    BY <1>1
  <2>2. Cardinality(0 .. p) = p + 1
    BY <1>4, <2>1
  <2>3. Cardinality(0 .. p) <= Cardinality(S)
    BY <1>2, FS_Subset
  <2> QED BY <1>3, <2>1, <2>2, <2>3
<1>6. ASSUME NEW p \in Nat, p < k, p \notin S PROVE FALSE
  <2>1. S \subseteq 0 .. p - 1
    <3> SUFFICES ASSUME NEW q \in S, ~(q <= p - 1) PROVE FALSE
      BY <1>1, <1>6
    <3>1. p \in 0 .. q
      BY <1>1, <1>6
    <3> QED BY <1>6, <3>1
  <2>2. IsFiniteSet(0 .. p - 1) /\ Cardinality(0 .. p - 1) = p
    BY <1>4, <1>6
  <2>3. Cardinality(S) <= p
    BY <2>1, <2>2, FS_Subset
  <2> QED BY <1>3, <1>6, <2>3
<1> HIDE DEF k
<1>7. S = 0 .. k - 1
  <2>1. \A p \in S : p \in 0 .. k - 1
    BY <1>1, <1>3, <1>5
  <2>2. \A p \in 0 .. k - 1 : p \in Nat /\ p < k
    BY <1>3
  <2>3. \A p \in 0 .. k - 1 : p \in S
    BY <1>6, <2>2
  <2> QED BY <2>1, <2>3
<1> QED BY <1>3, <1>7

\* isValidNetmask accepts only ones followed by zeros, for any number and width
\* of octets: what has no one in common with its successor is all ones at its end.
LEMMA OnlyPrefixesValid ==
    ASSUME NEW mask \in Network!Masks, Network!isValidNetmask(mask)
    PROVE  \E n \in 1 .. Network!Bits : mask = Network!Prefix(n)
<1> DEFINE num == Network!Number(mask)
           inv == Network!Places \ num
<1>0. Network!Bits \in Nat
  BY NetworkAssumption DEF Network!Bits
<1>1. /\ mask \in [1 .. Octets -> SUBSET (0 .. OctetBits - 1)] /\ num # {}
      /\ Network!PlusOne(inv) \cap inv = {}
  BY DEF Network!isValidNetmask, Network!Masks, Network!Inverted
<1>2. \A i \in 1 .. Octets : \A b \in 0 .. OctetBits - 1 :
        Network!Place(i, b) \in num <=> b \in mask[i]
  <2> SUFFICES ASSUME NEW i \in 1 .. Octets, NEW b \in 0 .. OctetBits - 1
               PROVE  Network!Place(i, b) \in num <=> b \in mask[i]
    OBVIOUS
  <2>1. b \in mask[i] => Network!Place(i, b) \in num
    BY DEF Network!Number
  <2>2. ASSUME Network!Place(i, b) \in num
        PROVE  b \in mask[i]
    <3>1. PICK j \in 1 .. Octets : \E c \in mask[j] : Network!Place(i, b) = Network!Place(j, c)
      BY <2>2 DEF Network!Number
    <3>2. PICK c \in mask[j] : Network!Place(i, b) = Network!Place(j, c)
      BY <3>1
    <3>3. c \in 0 .. OctetBits - 1
      BY <1>1
    <3>4. i = j /\ b = c
      BY <3>2, <3>3, PlaceInjective
    <3> QED BY <3>4
  <2> QED BY <2>1, <2>2
<1>3. num \subseteq Network!Places
  <2> SUFFICES ASSUME NEW p \in num PROVE p \in Network!Places
    OBVIOUS
  <2>1. PICK j \in 1 .. Octets : \E c \in mask[j] : p = Network!Place(j, c)
    BY DEF Network!Number
  <2>2. PICK c \in 0 .. OctetBits - 1 : p = Network!Place(j, c)
    BY <1>1, <2>1
  <2> QED BY <2>2, PlaceFacts
<1> HIDE DEF num
<1>4. \A p \in inv : 0 .. p \subseteq inv
  BY <1>1 DEF Network!PlusOne, Network!Carried
<1>5. inv \in SUBSET Network!Places
  OBVIOUS
<1>6. PICK k \in Nat : inv = 0 .. k - 1
  <2> HIDE DEF inv
  <2> QED BY <1>4, <1>5, DownwardClosed
<1>7. \A p \in Network!Places : p \in num <=> p >= k
  <2> SUFFICES ASSUME NEW p \in Network!Places PROVE p \in num <=> p >= k
    OBVIOUS
  <2>1. p \in num <=> p \notin inv
    OBVIOUS
  <2>2. p \in Nat
    BY <1>0 DEF Network!Places
  <2> HIDE DEF inv
  <2> QED BY <1>6, <2>1, <2>2
<1>8. k < Network!Bits
  <2>1. PICK p \in num : p \in Network!Places
    BY <1>1, <1>3
  <2>2. p >= k /\ p \in Nat /\ p <= Network!Bits - 1
    BY <1>0, <1>7, <2>1 DEF Network!Places
  <2> QED BY <1>0, <2>2
<1> DEFINE n == Network!Bits - k
<1>9. n \in 1 .. Network!Bits /\ Network!Bits - n = k
  BY <1>0, <1>8
<1> HIDE DEF n
<1>10. mask = Network!Prefix(n)
  <2>1. ASSUME NEW i \in 1 .. Octets
        PROVE  mask[i] = {b \in 0 .. OctetBits - 1 : Network!Place(i, b) >= Network!Bits - n}
    <3>1. mask[i] \subseteq 0 .. OctetBits - 1
      BY <1>1
    <3>2. \A b \in 0 .. OctetBits - 1 : b \in mask[i] <=> Network!Place(i, b) >= Network!Bits - n
      BY <1>2, <1>7, <1>9, PlaceFacts
    <3> QED BY <3>1, <3>2
  <2> QED BY <1>1, <2>1 DEF Network!Prefix
<1> QED BY <1>9, <1>10

\* What is sound is what StaticIsSound says of the device
Sound(f) ==
    f.mode = "static" =>
        f.addresses /\ \E n \in 1 .. Network!Bits : f.netmask = Network!Prefix(n)

LEMMA ValidIsSound ==
    ASSUME NEW f \in Network!Forms, Network!validateParams(f)
    PROVE  Sound(f)
<1>1. f.netmask \in Network!Masks
  BY DEF Network!Forms
<1> QED BY <1>1, OnlyPrefixesValid DEF Network!validateParams, Sound

NetworkTypes ==
    /\ netForm \in Network!Forms /\ config \in Network!Forms
    /\ load \in {Network!Idle, Network!Sent, Network!Lost}
                  \cup [st : {"back"}, set : Network!Forms]
    /\ save \in {Network!Idle, Network!Lost} \cup [st : {"sent", "back"}, set : Network!Forms]
    /\ confirming \in BOOLEAN /\ netTab \in {"status", "params"}

\* While the user is asked, the form that was validated waits; a save that is
\* under way carries such a form
NetworkInv ==
    /\ NetworkTypes
    /\ confirming => load = Network!Idle /\ save = Network!Idle /\ Network!validateParams(netForm)
    /\ save.st = "sent" => Sound(save.set)
    /\ Sound(config)

LEMMA NetworkRecords ==
    /\ Network!Idle.st = "idle" /\ Network!Sent.st = "sent" /\ Network!Lost.st = "lost"
    /\ Network!Idle # Network!Sent /\ Network!Idle # Network!Lost /\ Network!Sent # Network!Lost
    /\ \A c \in Network!Forms :
         /\ Network!Back(c) \in [st : {"sent", "back"}, set : Network!Forms]
         /\ Network!Back(c) \in [st : {"back"}, set : Network!Forms]
         /\ Network!Back(c).st = "back" /\ Network!Back(c).set = c
    /\ \A r \in [st : {"sent", "back"}, set : Network!Forms] :
         r.st \in {"sent", "back"} /\ r.set \in Network!Forms
    /\ \A r \in [st : {"back"}, set : Network!Forms] : r.st = "back" /\ r.set \in Network!Forms
BY DEF Network!Idle, Network!Sent, Network!Lost, Network!Back

LEMMA NetworkStart == Network!Init => NetworkInv
<1> SUFFICES ASSUME Network!Init PROVE NetworkInv
  OBVIOUS
<1>0. /\ Octets \in Nat \ {0, 1} /\ OctetBits \in Nat \ {0}
  BY NetworkAssumption
<1>1. Network!Bits - OctetBits \in 1 .. Network!Bits
  <2>1. /\ OctetBits * 1 \in Nat /\ OctetBits * Octets \in Nat
        /\ OctetBits * 1 + OctetBits <= OctetBits * Octets
    BY <1>0, OctetProducts
  <2>2. OctetBits * 1 = OctetBits /\ OctetBits * Octets = Octets * OctetBits
    BY <1>0
  <2> QED BY <1>0, <2>1, <2>2 DEF Network!Bits
<1>2. Network!Prefix(Network!Bits - OctetBits) \in Network!Masks /\ Network!NotIpv4 \in Network!Masks
  BY DEF Network!Prefix, Network!Masks
<1> DEFINE h == Network!Hardcoded
<1>3. h \in Network!Forms /\ h.addresses = TRUE /\ h.mode = "dhcp"
      /\ h.netmask = Network!Prefix(Network!Bits - OctetBits)
  BY <1>2 DEF Network!Hardcoded, Network!Forms
<1>4. Sound(h) /\ Sound([h EXCEPT !.mode = "static"]) /\ Sound([h EXCEPT !.netmask = Network!NotIpv4])
  BY <1>1, <1>3 DEF Sound, Network!Forms
<1>5. /\ [h EXCEPT !.mode = "static"] \in Network!Forms
      /\ [h EXCEPT !.netmask = Network!NotIpv4] \in Network!Forms
  BY <1>2, <1>3 DEF Network!Forms
<1>6. /\ netForm = h
      /\ config = h \/ config = [h EXCEPT !.mode = "static"]
           \/ config = [h EXCEPT !.netmask = Network!NotIpv4]
      /\ load = Network!Sent /\ save = Network!Idle /\ confirming = FALSE /\ netTab = "status"
  BY DEF Network!Init
<1> HIDE DEF h
<1>7. Sound(config) /\ config \in Network!Forms
  BY <1>3, <1>4, <1>5, <1>6
<1>8. NetworkTypes
  BY <1>3, <1>6, <1>7 DEF NetworkTypes
<1> QED BY <1>6, <1>7, <1>8, NetworkRecords DEF NetworkInv

LEMMA NetworkStep ==
    ASSUME NetworkInv, [Network!Next]_Network!networkVars
    PROVE  NetworkInv'
<1>1. CASE Network!LoadRead
  <2>1. /\ load = Network!Sent /\ load' \in {Network!Back(config), Network!Lost}
        /\ UNCHANGED netForm /\ UNCHANGED config /\ UNCHANGED save /\ UNCHANGED confirming
        /\ UNCHANGED netTab
    BY <1>1 DEF Network!LoadRead
  <2>2. ~confirming
    BY <2>1, NetworkRecords DEF NetworkInv
  <2>3. NetworkTypes'
    BY <2>1, NetworkRecords DEF NetworkInv, NetworkTypes
  <2> QED BY <2>1, <2>2, <2>3 DEF NetworkInv
<1>2. CASE Network!refresh
  <2>1. /\ load # Network!Idle /\ load # Network!Sent /\ load' = Network!Idle
        /\ netForm' = IF load = Network!Lost THEN netForm ELSE load.set
        /\ UNCHANGED config /\ UNCHANGED save /\ UNCHANGED confirming /\ UNCHANGED netTab
    BY <1>2 DEF Network!refresh
  <2>2. ~confirming /\ netForm' \in Network!Forms
    BY <2>1, NetworkRecords DEF NetworkInv, NetworkTypes
  <2>3. NetworkTypes'
    BY <2>1, <2>2 DEF NetworkInv, NetworkTypes
  <2> QED BY <2>1, <2>2, <2>3 DEF NetworkInv
<1>3. ASSUME NEW t \in {"status", "params"}, Network!Open(t)
      PROVE  NetworkInv'
  <2>1. /\ netTab' = t /\ UNCHANGED netForm /\ UNCHANGED config /\ UNCHANGED load
        /\ UNCHANGED save /\ UNCHANGED confirming
    BY <1>3 DEF Network!Open
  <2>2. NetworkTypes'
    BY <2>1 DEF NetworkInv, NetworkTypes
  <2> QED BY <2>1, <2>2 DEF NetworkInv
<1>4. ASSUME NEW f \in Network!Forms, Network!Edit(f)
      PROVE  NetworkInv'
  <2>1. /\ ~confirming /\ netForm' = f /\ UNCHANGED config /\ UNCHANGED load
        /\ UNCHANGED save /\ UNCHANGED confirming /\ UNCHANGED netTab
    BY <1>4 DEF Network!Edit, Network!Editable
  <2>2. NetworkTypes'
    BY <2>1 DEF NetworkInv, NetworkTypes
  <2> QED BY <2>1, <2>2 DEF NetworkInv
<1>5. CASE Network!onSave
  <2>1. /\ load = Network!Idle /\ save = Network!Idle /\ Network!validateParams(netForm)
        /\ confirming' = TRUE
        /\ UNCHANGED netForm /\ UNCHANGED config /\ UNCHANGED load /\ UNCHANGED save
        /\ UNCHANGED netTab
    BY <1>5 DEF Network!onSave, Network!Editable
  <2>2. Network!validateParams(netForm')
    BY <2>1
  <2>3. NetworkTypes'
    BY <2>1 DEF NetworkInv, NetworkTypes
  <2> QED BY <2>1, <2>2, <2>3 DEF NetworkInv
<1>6. CASE Network!Confirmed
  <2>1. /\ confirming /\ confirming' = FALSE
        /\ save' \in {[st |-> "sent", set |-> netForm], Network!Idle}
        /\ UNCHANGED netForm /\ UNCHANGED config /\ UNCHANGED load /\ UNCHANGED netTab
    BY <1>6 DEF Network!Confirmed
  <2>2. Sound(netForm) /\ netForm \in Network!Forms
    BY <2>1, ValidIsSound DEF NetworkInv, NetworkTypes
  <2>3. save'.st = "sent" => save'.set = netForm
    BY <2>1, NetworkRecords
  <2>4. save' \in {Network!Idle, Network!Lost} \cup [st : {"sent", "back"}, set : Network!Forms]
    BY <2>1, <2>2
  <2>5. NetworkTypes'
    BY <2>1, <2>4 DEF NetworkInv, NetworkTypes
  <2>6. save'.st = "sent" => Sound(save'.set)
    BY <2>2, <2>3
  <2> QED BY <2>1, <2>5, <2>6 DEF NetworkInv
<1>7. CASE Network!SaveHandled
  <2>1. /\ save.st = "sent"
        /\ \/ config' = save.set /\ save' \in {Network!Back(save.set), Network!Lost}
           \/ save' = Network!Lost /\ UNCHANGED config
        /\ UNCHANGED netForm /\ UNCHANGED load /\ UNCHANGED confirming /\ UNCHANGED netTab
    BY <1>7 DEF Network!SaveHandled
  <2>2. save.set \in Network!Forms /\ Sound(save.set) /\ ~confirming
    BY <2>1, NetworkRecords DEF NetworkInv, NetworkTypes
  <2>3. config' \in Network!Forms /\ Sound(config')
    BY <2>1, <2>2 DEF NetworkInv, NetworkTypes
  <2>4. /\ save' \in {Network!Idle, Network!Lost} \cup [st : {"sent", "back"}, set : Network!Forms]
        /\ save'.st # "sent"
    BY <2>1, <2>2, NetworkRecords
  <2>5. NetworkTypes'
    BY <2>1, <2>3, <2>4 DEF NetworkInv, NetworkTypes
  <2> QED BY <2>1, <2>2, <2>3, <2>4, <2>5 DEF NetworkInv
<1>8. CASE Network!SaveAnswer
  <2>1. /\ save.st \in {"back", "lost"} /\ save' = Network!Idle
        /\ \/ save = Network!Lost /\ UNCHANGED netForm /\ UNCHANGED netTab
           \/ save # Network!Lost /\ netForm' = save.set /\ netTab' = "status"
        /\ UNCHANGED config /\ UNCHANGED load /\ UNCHANGED confirming
    BY <1>8 DEF Network!SaveAnswer
  <2>2. ~confirming /\ netForm' \in Network!Forms
    BY <2>1, NetworkRecords DEF NetworkInv, NetworkTypes
  <2>3. NetworkTypes'
    BY <2>1, <2>2 DEF NetworkInv, NetworkTypes
  <2> QED BY <2>1, <2>2, <2>3, NetworkRecords DEF NetworkInv
<1>9. CASE UNCHANGED Network!networkVars
  <2>1. /\ UNCHANGED netForm /\ UNCHANGED config /\ UNCHANGED load /\ UNCHANGED save
        /\ UNCHANGED confirming /\ UNCHANGED netTab
    BY <1>9 DEF Network!networkVars
  <2>2. NetworkTypes'
    BY <2>1 DEF NetworkInv, NetworkTypes
  <2> QED BY <2>1, <2>2 DEF NetworkInv
<1> QED
  BY <1>1, <1>2, <1>3, <1>4, <1>5, <1>6, <1>7, <1>8, <1>9 DEF Network!Next

\* A static address is stored only with a netmask of ones followed by zeros, for
\* any number and width of octets, 4 of 8 bits among them, and however loads,
\* edits, the confirmation and lost answers follow each other (NetworkView.vue).
THEOREM StaticAlwaysSound == Network!Spec => []StaticIsSound
<1>1. NetworkInv /\ [Network!Next]_Network!networkVars => NetworkInv'
  BY NetworkStep
<1>2. NetworkInv => StaticIsSound
  BY DEF NetworkInv, Sound, StaticIsSound, Network!StaticIsSound
<1> QED BY NetworkStart, <1>1, <1>2, PTL DEF Network!Spec

-----------------------------------------------------------------------------
\* The types of the parts

LEMMA GridTypes == Grid!Spec => []Grid!TypeOK
<1> DEFINE Inv == GridInv /\ disabled \in BOOLEAN
<1>1. Grid!Init => Inv
  BY DEF Grid!Init, GridInv, Grid!StrokePaintsOneWay, Grid!Full, Grid!Grids
<1>2. Inv /\ [Grid!Next]_Grid!gridVars => Inv'
  <2> SUFFICES ASSUME Inv, [Grid!Next]_Grid!gridVars PROVE Inv'
    OBVIOUS
  <2>1. GridInv'
    BY GridStep
  <2>2. UNCHANGED disabled \/ disabled' = ~disabled
    BY DEF Grid!Next, Grid!gridVars, Grid!onDown, Grid!onEnter, Grid!Leave, Grid!onUp,
           Grid!fillAll, Grid!fillWorkdayDaytime, Grid!Fill, Grid!Disable, Grid!Replace
  <2> QED BY <2>1, <2>2
<1>3. Inv => Grid!TypeOK
  <2> SUFFICES ASSUME Inv PROVE Grid!TypeOK
    OBVIOUS
  <2>1. modelValue \in [Grid!Cells -> {"0", "1", "?"}]
    BY DEF GridInv, Grid!Grids, Grid!Full
  <2> QED BY <2>1 DEF GridInv, Grid!TypeOK
<1> QED BY <1>1, <1>2, <1>3, PTL DEF Grid!Spec

\* At most one grab is on the way, because the button spins meanwhile and the
\* first opening of the tab, which grabs by itself, comes before any other; 0 is
\* no object URL
GrabsInv ==
    /\ tab \in {"detect", "region"}
    /\ autoSnapDone \in BOOLEAN /\ bgLoading \in BOOLEAN
    /\ grabs = IF bgLoading THEN 1 ELSE 0
    /\ ~autoSnapDone => tab = "detect" /\ grabs = 0
    /\ made <= MaxGrabs /\ bgImg <= made
    /\ 0 \notin live

LEMMA GrabsStep ==
    ASSUME ShotInv, GrabsInv, [Shot!Next]_Shot!shotVars
    PROVE  GrabsInv'
<1>0. made \in Nat /\ bgImg \in Nat /\ decoding \subseteq 1 .. made
  BY DEF ShotInv
<1>1. CASE Shot!OpenRegionTab
  <2>1. /\ tab' = "region" /\ autoSnapDone' = TRUE /\ UNCHANGED made /\ UNCHANGED bgImg
        /\ UNCHANGED live
    BY <1>1 DEF Shot!OpenRegionTab, Shot!Ask
  <2>2. CASE autoSnapDone
    <3>1. UNCHANGED bgLoading /\ UNCHANGED grabs
      BY <1>1, <2>2 DEF Shot!OpenRegionTab
    <3> QED BY <2>1, <3>1 DEF GrabsInv
  <2>3. CASE ~autoSnapDone
    <3>1. bgLoading' = TRUE /\ grabs' = grabs + 1
      BY <1>1, <2>3 DEF Shot!OpenRegionTab, Shot!Ask
    <3>2. grabs' = 1
      BY <2>3, <3>1 DEF GrabsInv
    <3> QED BY <2>1, <3>1, <3>2 DEF GrabsInv
  <2> QED BY <2>2, <2>3
<1>2. CASE Shot!OpenOtherTab
  BY <1>2 DEF Shot!OpenOtherTab, GrabsInv
<1>3. CASE Shot!AskAgain
  <2>1. /\ tab = "region" /\ ~bgLoading /\ bgLoading' = TRUE /\ grabs' = grabs + 1
        /\ UNCHANGED tab /\ UNCHANGED autoSnapDone /\ UNCHANGED made /\ UNCHANGED bgImg
        /\ UNCHANGED live
    BY <1>3 DEF Shot!AskAgain, Shot!Ask
  <2>2. grabs' = 1
    BY <2>1 DEF GrabsInv
  <2> QED BY <2>1, <2>2 DEF GrabsInv
<1>4. CASE Shot!Grabbed \/ Shot!GrabFailed
  <2>1. /\ grabs > 0 /\ grabs' = grabs - 1 /\ bgLoading' = FALSE
        /\ UNCHANGED tab /\ UNCHANGED autoSnapDone /\ UNCHANGED bgImg
        /\ UNCHANGED made \/ (made < MaxGrabs /\ made' = made + 1)
    BY <1>4 DEF Shot!Grabbed, Shot!GrabFailed
  <2>2. grabs = 1
    BY <2>1 DEF GrabsInv
  <2>3. made' <= MaxGrabs /\ bgImg' <= made'
    <3>1. made <= MaxGrabs /\ bgImg <= made /\ MaxGrabs \in Nat
      BY BoundsAssumption DEF GrabsInv
    <3>2. UNCHANGED bgImg
      BY <2>1
    <3>3. UNCHANGED made \/ (made < MaxGrabs /\ made' = made + 1)
      BY <2>1
    <3> QED BY <1>0, <3>1, <3>2, <3>3
  <2>4. grabs' = 0 /\ bgLoading' = FALSE
    BY <2>1, <2>2
  <2>5. 0 \notin live'
    <3>1. UNCHANGED live \/ live' = (live \ {bgUrl}) \cup {made + 1}
      BY <1>4 DEF Shot!Grabbed, Shot!GrabFailed
    <3> QED BY <1>0, <3>1 DEF GrabsInv
  <2> QED BY <2>1, <2>3, <2>4, <2>5 DEF GrabsInv
<1>5. CASE \E u \in decoding : Shot!Decoded(u) \/ Shot!DecodeFailed(u)
  BY <1>0, <1>5 DEF Shot!Decoded, Shot!DecodeFailed, GrabsInv
<1>6. CASE Shot!Leave \/ UNCHANGED Shot!shotVars
  BY <1>6 DEF Shot!Leave, Shot!shotVars, GrabsInv
<1> QED BY <1>1, <1>2, <1>3, <1>4, <1>5, <1>6 DEF Shot!Next

LEMMA ShotTypes == Shot!Spec => []Shot!TypeOK
<1>1. Shot!Init => ShotInv /\ GrabsInv
  <2> SUFFICES ASSUME Shot!Init PROVE ShotInv /\ GrabsInv
    OBVIOUS
  <2>1. /\ bgUrl = 0 /\ made = 0 /\ bgImg = 0 /\ live = {} /\ decoding = {}
        /\ mounted = TRUE /\ overtaken = FALSE
        /\ tab = "detect" /\ autoSnapDone = FALSE /\ bgLoading = FALSE /\ grabs = 0
    BY DEF Shot!Init
  <2>2. live = {bgUrl} \ {0} /\ decoding \subseteq 1 .. made
    BY <2>1
  <2>3. made <= MaxGrabs /\ bgImg <= made /\ 0 \notin live
    BY <2>1, BoundsAssumption
  <2>4. ShotInv
    BY <2>1, <2>2 DEF ShotInv
  <2>5. GrabsInv
    BY <2>1, <2>3 DEF GrabsInv
  <2> QED BY <2>4, <2>5
<1>2. ShotInv /\ GrabsInv /\ [Shot!Next]_Shot!shotVars => ShotInv' /\ GrabsInv'
  BY ShotStep, GrabsStep
<1>3. ShotInv /\ GrabsInv => Shot!TypeOK
  <2> SUFFICES ASSUME ShotInv, GrabsInv PROVE Shot!TypeOK
    OBVIOUS
  <2>1. {autoSnapDone, bgLoading, overtaken, mounted} \subseteq BOOLEAN
    BY DEF ShotInv, GrabsInv
  <2>2. grabs \in 0 .. 1
    BY DEF GrabsInv
  <2>3. made \in 0 .. MaxGrabs /\ bgUrl \in 0 .. made /\ bgImg \in 0 .. made
    <3>1. made <= MaxGrabs /\ bgImg <= made /\ MaxGrabs \in Nat
      BY BoundsAssumption DEF GrabsInv
    <3>2. bgUrl = made /\ made \in Nat /\ bgImg \in Nat
      BY DEF ShotInv
    <3> QED BY <3>1, <3>2
  <2>4. live \subseteq 1 .. made
    <3>1. mounted \/ ~mounted
      OBVIOUS
    <3>2. live \subseteq {made} /\ made \in Nat
      BY <3>1 DEF ShotInv
    <3>3. 0 \notin live
      BY DEF GrabsInv
    <3> QED BY <3>2, <3>3
  <2> QED BY <2>1, <2>2, <2>3, <2>4 DEF ShotInv, GrabsInv, Shot!TypeOK
<1> QED BY <1>1, <1>2, <1>3, PTL DEF Shot!Spec

\* The alarm form's requests and lists; a load has not read the events until it
\* is at the device
AlarmTypesInv ==
    /\ alarmMounted \in BOOLEAN /\ alarmTimer \in BOOLEAN
    /\ list \in 0 .. MaxEvents /\ happened \in 0 .. MaxEvents
    /\ alarmLoad.st \in {"idle", "sent"}
    /\ alarmLoad.st = "sent" => alarmLoad.events \in 0 .. MaxEvents + 1
    /\ alarmSave.st \in {"idle", "sent", "ok", "lost", "refresh"}
    /\ alarmPoll.st \in {"idle", "sent", "back"}
    /\ alarmPoll.st = "back" => alarmPoll.events \in 0 .. MaxEvents

LEMMA AlarmTypesStep ==
    ASSUME AlarmInv, AlarmTypesInv, [Alarm!Next]_Alarm!alarmVars
    PROVE  AlarmTypesInv'
<1>0. /\ Alarm!Idle.st = "idle" /\ Alarm!Lost.st = "lost" /\ MaxEvents \in Nat
      /\ Alarm!Loading.st = "sent" /\ Alarm!Loading.events = MaxEvents + 1
  BY BoundsAssumption DEF Alarm!Idle, Alarm!Lost, Alarm!Loading
<1>1. CASE Alarm!LoadSettings \/ Alarm!LoadEvents
  <2>1. /\ alarmLoad.st = "sent"
        /\ \/ alarmLoad' = [alarmLoad EXCEPT !.set = stored]
           \/ alarmLoad' = [alarmLoad EXCEPT !.events = happened]
        /\ UNCHANGED alarmMounted /\ UNCHANGED alarmTimer /\ UNCHANGED list
        /\ UNCHANGED happened /\ UNCHANGED alarmSave /\ UNCHANGED alarmPoll
    BY <1>1 DEF Alarm!LoadSettings, Alarm!LoadEvents
  <2>2. alarmLoad = [st |-> "sent", set |-> alarmLoad.set, events |-> alarmLoad.events]
    BY <1>0, <2>1 DEF AlarmInv
  <2>3. /\ alarmLoad'.st = "sent"
        /\ alarmLoad'.events = alarmLoad.events \/ alarmLoad'.events = happened
    BY <2>1, <2>2
  <2>4. alarmLoad.events \in 0 .. MaxEvents + 1 /\ happened \in 0 .. MaxEvents
    BY <2>1 DEF AlarmTypesInv
  <2>5. alarmLoad'.events \in 0 .. MaxEvents + 1
    BY <1>0, <2>3, <2>4
  <2> QED BY <2>1, <2>3, <2>5 DEF AlarmTypesInv
<1>2. CASE Alarm!Loaded
  <2>1. /\ alarmLoad.st = "sent" /\ alarmLoad.events <= MaxEvents
        /\ alarmLoad' = Alarm!Idle /\ list' = alarmLoad.events
        /\ UNCHANGED alarmMounted /\ UNCHANGED alarmTimer
        /\ UNCHANGED happened /\ UNCHANGED alarmSave /\ UNCHANGED alarmPoll
    BY <1>2 DEF Alarm!Loaded
  <2>2. list' \in 0 .. MaxEvents
    BY <1>0, <2>1 DEF AlarmTypesInv
  <2> QED BY <1>0, <2>1, <2>2 DEF AlarmTypesInv
<1>3. ASSUME UNCHANGED list, UNCHANGED happened, UNCHANGED alarmMounted,
             UNCHANGED alarmTimer, UNCHANGED alarmPoll,
             alarmLoad' \in {alarmLoad, Alarm!Idle, Alarm!Loading},
             alarmSave' = alarmSave \/ alarmSave'.st \in {"idle", "sent", "ok", "lost", "refresh"}
      PROVE  AlarmTypesInv'
  <2>1. alarmLoad'.st = "sent" => alarmLoad'.events \in 0 .. MaxEvents + 1
    BY <1>0, <1>3 DEF AlarmTypesInv
  <2>2. alarmLoad'.st \in {"idle", "sent"}
    BY <1>0, <1>3 DEF AlarmTypesInv
  <2> QED BY <1>3, <2>1, <2>2 DEF AlarmTypesInv
<1>4. CASE Alarm!LoadFailed \/ \E s \in Alarm!Gears : Alarm!Edit(s)
  BY <1>3, <1>4 DEF Alarm!LoadFailed, Alarm!Edit
<1>5. CASE Alarm!onSave
  BY <1>3, <1>5 DEF Alarm!onSave
<1>6. CASE Alarm!SaveHandled
  <2>1. alarmSave' = [st |-> "ok"] \/ alarmSave' = Alarm!Lost
    BY <1>6 DEF Alarm!SaveHandled
  <2>2. alarmSave'.st \in {"ok", "lost"}
    BY <1>0, <2>1
  <2> QED BY <1>3, <1>6, <2>2 DEF Alarm!SaveHandled
<1>7. CASE Alarm!SaveAnswer
  <2>1. /\ alarmLoad' \in {alarmLoad, Alarm!Loading}
        /\ alarmSave' = [st |-> "refresh"] \/ alarmSave' = Alarm!Idle
    BY <1>7 DEF Alarm!SaveAnswer
  <2>2. alarmSave'.st \in {"refresh", "idle"}
    BY <1>0, <2>1
  <2> QED BY <1>3, <1>7, <2>1, <2>2 DEF Alarm!SaveAnswer
<1>8. CASE Alarm!PollTick \/ Alarm!PollRead \/ Alarm!PollLost
  <2>1. /\ \/ alarmPoll' = [st |-> "sent"] \/ alarmPoll' = Alarm!Idle
           \/ alarmPoll' = [st |-> "back", set |-> stored, events |-> happened]
        /\ UNCHANGED alarmMounted /\ UNCHANGED alarmTimer /\ UNCHANGED list
        /\ UNCHANGED happened /\ UNCHANGED alarmLoad /\ UNCHANGED alarmSave
    BY <1>8 DEF Alarm!PollTick, Alarm!PollRead, Alarm!PollLost
  <2>2. /\ alarmPoll'.st \in {"idle", "sent", "back"}
        /\ alarmPoll'.st = "back" => alarmPoll'.events = happened
    BY <1>0, <2>1
  <2> QED BY <2>1, <2>2 DEF AlarmTypesInv
<1>9. CASE Alarm!PollAnswer
  <2>1. /\ alarmPoll.st = "back" /\ alarmPoll' = Alarm!Idle /\ list' = alarmPoll.events
        /\ UNCHANGED alarmMounted /\ UNCHANGED alarmTimer
        /\ UNCHANGED happened /\ UNCHANGED alarmLoad /\ UNCHANGED alarmSave
    BY <1>9 DEF Alarm!PollAnswer
  <2> QED BY <1>0, <2>1 DEF AlarmTypesInv
<1>10. CASE Alarm!Event
  <2>1. /\ happened < MaxEvents /\ happened' = happened + 1
        /\ UNCHANGED alarmMounted /\ UNCHANGED alarmTimer /\ UNCHANGED list
        /\ UNCHANGED alarmPoll /\ UNCHANGED alarmLoad /\ UNCHANGED alarmSave
    BY <1>10 DEF Alarm!Event
  <2>2. happened' \in 0 .. MaxEvents
    BY <1>0, <2>1 DEF AlarmTypesInv
  <2> QED BY <2>1, <2>2 DEF AlarmTypesInv
<1>11. CASE Alarm!Leave \/ UNCHANGED Alarm!alarmVars
  <2>1. /\ alarmMounted' \in {alarmMounted, FALSE} /\ alarmTimer' \in {alarmTimer, FALSE}
        /\ UNCHANGED list /\ UNCHANGED happened
        /\ UNCHANGED alarmPoll /\ UNCHANGED alarmLoad /\ UNCHANGED alarmSave
    BY <1>11 DEF Alarm!Leave, Alarm!alarmVars
  <2> QED BY <2>1 DEF AlarmTypesInv
<1> QED
  BY <1>1, <1>2, <1>4, <1>5, <1>6, <1>7, <1>8, <1>9, <1>10, <1>11 DEF Alarm!Next

LEMMA AlarmTypes == Alarm!Spec => []Alarm!TypeOK
<1>1. Alarm!Init => AlarmInv /\ AlarmTypesInv
  <2> SUFFICES ASSUME Alarm!Init PROVE AlarmInv /\ AlarmTypesInv
    OBVIOUS
  <2>1. AlarmInv
    BY DEF Alarm!Init, AlarmInv, Alarm!Loading, Alarm!Idle, Alarm!NoForm
  <2>2. /\ alarmMounted = TRUE /\ alarmTimer = TRUE /\ list = 0 /\ happened = 0
        /\ alarmLoad.st = "sent" /\ alarmLoad.events = MaxEvents + 1
        /\ alarmSave.st = "idle" /\ alarmPoll.st = "idle"
    BY DEF Alarm!Init, Alarm!Loading, Alarm!Idle
  <2>3. 0 \in 0 .. MaxEvents /\ MaxEvents + 1 \in 0 .. MaxEvents + 1
    BY BoundsAssumption
  <2>4. AlarmTypesInv
    BY <2>2, <2>3 DEF AlarmTypesInv
  <2> QED BY <2>1, <2>4
<1>2. AlarmInv /\ AlarmTypesInv /\ [Alarm!Next]_Alarm!alarmVars => AlarmInv' /\ AlarmTypesInv'
  BY AlarmStep, AlarmTypesStep
<1>3. AlarmInv /\ AlarmTypesInv => Alarm!TypeOK
  BY DEF AlarmInv, AlarmTypesInv, Alarm!TypeOK
<1> QED BY <1>1, <1>2, <1>3, PTL DEF Alarm!Spec

\* The face form's requests; a save on the way carries a form
FaceTypesInv ==
    /\ stage \in {"first", "live", "left"} /\ timer \in BOOLEAN /\ early \in BOOLEAN
    /\ facePoll \in {Face!Idle, Face!Sent} \cup Face!Reply
    /\ faceSave.st = "sent" => faceSave \in [st : {"sent"}, set : Face!Offered]

LEMMA FaceTypesStep ==
    ASSUME FaceInv, FaceTypesInv, [Face!Next]_Face!formVars
    PROVE  FaceTypesInv'
<1>0. /\ Face!Idle.st # "sent" /\ Face!Lost.st # "sent" /\ \A v : Face!Back(v).st # "sent"
      /\ Face!Back(faceDevice) \in Face!Reply
  BY DEF Face!Idle, Face!Lost, Face!Back, Face!Reply, FaceInv
<1>1. facePoll' \in {Face!Idle, Face!Sent} \cup Face!Reply
  <2>1. \/ UNCHANGED facePoll \/ facePoll' \in {Face!Idle, Face!Sent, Face!Back(faceDevice)}
    BY DEF Face!Next, Face!formVars, Face!LoadRead, Face!Loaded, Face!onSave, Face!SaveHandled,
           Face!SaveAnswer, Face!Edit, Face!PollTick, Face!PollRead, Face!PollAnswer, Face!Leave
  <2> QED BY <1>0, <2>1 DEF FaceTypesInv
<1>2. faceSave'.st = "sent" => faceSave' \in [st : {"sent"}, set : Face!Offered]
  <2>1. CASE Face!onSave
    <3>1. faceSave' = [st |-> "sent", set |-> face] /\ face \in Face!Offered
      BY <2>1 DEF Face!onSave, Face!Editable, FaceInv
    <3> QED BY <3>1
  <2>2. CASE Face!SaveHandled
    <3>1. \E v : faceSave' \in {Face!Back(v), Face!Lost}
      BY <2>2 DEF Face!SaveHandled
    <3> QED BY <1>0, <3>1
  <2>3. CASE Face!SaveAnswer
    BY <1>0, <2>3 DEF Face!SaveAnswer
  <2>4. CASE UNCHANGED faceSave
    BY <2>4 DEF FaceTypesInv
  <2>5. Face!onSave \/ Face!SaveHandled \/ Face!SaveAnswer \/ UNCHANGED faceSave
    BY DEF Face!Next, Face!formVars, Face!LoadRead, Face!Loaded, Face!Edit, Face!PollTick,
           Face!PollRead, Face!PollAnswer, Face!Leave
  <2> QED BY <2>1, <2>2, <2>3, <2>4, <2>5
<1>3. /\ stage' \in {"first", "live", "left"}
      /\ timer' \in {timer, TRUE, FALSE} /\ early' \in {early, TRUE, FALSE}
  <2>1. CASE Face!Loaded
    <3>1. /\ stage' = IF stage = "first" THEN "live" ELSE stage
          /\ timer' = TRUE /\ UNCHANGED early
      BY <2>1 DEF Face!Loaded
    <3> QED BY <3>1 DEF FaceTypesInv
  <2>2. CASE Face!Leave
    <3>1. stage' = "left" /\ timer' = FALSE /\ early' = (stage = "first")
      BY <2>2 DEF Face!Leave
    <3> QED BY <3>1
  <2>3. CASE UNCHANGED stage /\ UNCHANGED timer /\ UNCHANGED early
    BY <2>3 DEF FaceTypesInv
  <2>4. \/ Face!Loaded \/ Face!Leave
        \/ UNCHANGED stage /\ UNCHANGED timer /\ UNCHANGED early
    BY DEF Face!Next, Face!formVars, Face!LoadRead, Face!onSave, Face!SaveHandled,
           Face!SaveAnswer, Face!Edit, Face!PollTick, Face!PollRead, Face!PollAnswer
  <2> QED BY <2>1, <2>2, <2>3, <2>4
<1> QED BY <1>1, <1>2, <1>3 DEF FaceTypesInv

LEMMA FaceTypes == Face!Spec => []Face!TypeOK
<1>1. Face!Init => FaceInv /\ FaceTypesInv
  <2> SUFFICES ASSUME Face!Init PROVE FaceInv /\ FaceTypesInv
    OBVIOUS
  <2>1. FaceInv
    BY DEF Face!Init, FaceInv, Face!Idle, Face!NoForm
  <2>2. /\ stage = "first" /\ timer = FALSE /\ early = FALSE
        /\ facePoll = Face!Idle /\ faceSave.st = "idle"
    BY DEF Face!Init, Face!Idle
  <2>3. FaceTypesInv
    BY <2>2 DEF FaceTypesInv
  <2> QED BY <2>1, <2>3
<1>2. FaceInv /\ FaceTypesInv /\ [Face!Next]_Face!formVars => FaceInv' /\ FaceTypesInv'
  BY FaceStep, FaceTypesStep
<1>3. FaceInv /\ FaceTypesInv => Face!TypeOK
  <2> SUFFICES ASSUME FaceInv, FaceTypesInv PROVE Face!TypeOK
    OBVIOUS
  <2>1. Face!Back(faceDevice) \in Face!Reply /\ Face!Lost \in Face!Reply
    BY DEF Face!Reply, FaceInv
  <2>2. faceLoad \in {Face!Idle, Face!Sent} \cup Face!Reply
    BY <2>1 DEF FaceInv
  <2>3. faceSave \in {Face!Idle} \cup [st : {"sent"}, set : Face!Offered] \cup Face!Reply
    BY <2>1 DEF FaceInv, FaceTypesInv
  <2>4. face \in Face!Offered \cup {Face!NoForm} /\ faceTyped \in Face!Offered \cup {Face!NoForm}
        /\ faceDevice \in Face!Settings
    BY DEF FaceInv
  <2> QED BY <2>2, <2>3, <2>4 DEF FaceTypesInv, Face!TypeOK
<1> QED BY <1>1, <1>2, <1>3, PTL DEF Face!Spec

LEMMA SettingsTypesOK == Settings!Spec => []Settings!TypeOK
<1> DEFINE Known ==
      /\ settingsPage \in DOMAIN Settings!PartsOf
      /\ typed \subseteq Settings!Parts /\ other \subseteq Settings!Parts
<1>1. Settings!Init => Known
  BY DEF Settings!Init
<1>2. SettingsInv /\ Known /\ [Settings!Next]_Settings!settingsVars => Known'
  <2> SUFFICES ASSUME Known, [Settings!Next]_Settings!settingsVars PROVE Known'
    OBVIOUS
  <2>1. UNCHANGED settingsPage
    BY DEF Settings!Next, Settings!settingsVars, Settings!Read, Settings!Edit,
           Settings!SaveHandled, Settings!SaveAnswer, Settings!Elsewhere, Settings!refresh,
           Settings!onSaveImage, Settings!onSaveOsd, Settings!onSaveName, Settings!onSaveTime,
           Settings!onSaveReboot, Settings!onSavePlan, Settings!onSaveRecycle, Settings!Save,
           Settings!onSaveEncode, Settings!Confirmed
  <2>2. Settings!Parts' = Settings!Parts
    BY <2>1 DEF Settings!Parts
  <2>3. \/ typed' \subseteq typed
        \/ \E p \in Settings!Parts : typed' = typed \cup {p}
    BY DEF Settings!Next, Settings!settingsVars, Settings!Read, Settings!Edit,
           Settings!SaveHandled, Settings!SaveAnswer, Settings!Elsewhere, Settings!refresh,
           Settings!onSaveImage, Settings!onSaveOsd, Settings!onSaveName, Settings!onSaveTime,
           Settings!onSaveReboot, Settings!onSavePlan, Settings!onSaveRecycle, Settings!Save,
           Settings!onSaveEncode, Settings!Confirmed
  <2>4. other' = other \/ \E p \in Settings!Parts : other' = {p}
    BY DEF Settings!Next, Settings!settingsVars, Settings!Read, Settings!Edit,
           Settings!SaveHandled, Settings!SaveAnswer, Settings!Elsewhere, Settings!refresh,
           Settings!onSaveImage, Settings!onSaveOsd, Settings!onSaveName, Settings!onSaveTime,
           Settings!onSaveReboot, Settings!onSavePlan, Settings!onSaveRecycle, Settings!Save,
           Settings!onSaveEncode, Settings!Confirmed
  <2> QED BY <2>1, <2>2, <2>3, <2>4
<1>3. SettingsInv /\ Known => Settings!TypeOK
  BY DEF SettingsInv, SettingsTypes, Settings!TypeOK
<1>4. SettingsInv /\ [Settings!Next]_Settings!settingsVars => SettingsInv'
  BY SettingsStep
<1> HIDE DEF Known
<1> QED BY SettingsStart, <1>1, <1>2, <1>3, <1>4, PTL DEF Settings!Spec

LEMMA NetworkTypesOK == Network!Spec => []Network!TypeOK
<1>1. NetworkInv => Network!TypeOK
  <2> SUFFICES ASSUME NetworkInv PROVE Network!TypeOK
    OBVIOUS
  <2>1. load.st \in {"idle", "sent", "back", "lost"}
    BY NetworkRecords DEF NetworkInv, NetworkTypes
  <2>2. save.st \in {"idle", "sent", "back", "lost"}
    BY NetworkRecords DEF NetworkInv, NetworkTypes
  <2> QED BY <2>1, <2>2 DEF NetworkInv, NetworkTypes, Network!TypeOK
<1>2. NetworkInv /\ [Network!Next]_Network!networkVars => NetworkInv'
  BY NetworkStep
<1> QED BY NetworkStart, <1>1, <1>2, PTL DEF Network!Spec

LEMMA RecordsTypes == Storage!Spec => []Storage!TypeOK
<1> DEFINE Shown == records \subseteq 1 .. MaxClips /\ total \in 0 .. MaxClips
           Flags ==
             /\ loading \in BOOLEAN /\ sound \in BOOLEAN
             /\ format \in {"idle", "asked", "sent", "done"}
           Few == Len(recordLists) <= MaxRecordRequests
<1>1. Storage!Init => Shown /\ Flags /\ Few
  <2> SUFFICES ASSUME Storage!Init PROVE Shown /\ Flags /\ Few
    OBVIOUS
  <2>1. records = {} /\ total = 0 /\ recordLists = <<Storage!Asked("", 1)>>
    BY DEF Storage!Init
  <2>2. Len(recordLists) = 1
    BY <2>1
  <2>3. Shown
    <3>1. records = {} /\ total = 0
      BY <2>1
    <3>2. total \in 0 .. MaxClips
      BY <3>1, PartsAssumption
    <3> QED BY <3>1, <3>2
  <2>4. Few
    BY <2>2, BoundsAssumption
  <2>5. Flags
    BY DEF Storage!Init
  <2> QED BY <2>3, <2>4, <2>5
<1>2. RecordsInv /\ Shown /\ [Storage!Next]_Storage!storageVars => Shown'
  <2> SUFFICES ASSUME RecordsInv, Shown, [Storage!Next]_Storage!storageVars PROVE Shown'
    OBVIOUS
  <2>1. ASSUME NEW i \in DOMAIN recordLists, Storage!ListAnswer(i)
        PROVE  Shown'
    <3>1. recordLists[i] \in ListRequests
      BY DEF RecordsInv
    <3>2. /\ recordLists[i].st = "back"
          /\ records' = recordLists[i].list /\ total' = recordLists[i].total
      BY <2>1 DEF Storage!ListAnswer
    <3> QED BY <3>1, <3>2, RequestFields
  <2>2. \/ \E i \in DOMAIN recordLists : Storage!ListAnswer(i)
        \/ UNCHANGED records /\ UNCHANGED total
    BY DEF Storage!Next, Storage!Step, Storage!storageVars, Storage!ListRead, Storage!ListLost,
           Storage!StatusFailed, Storage!onQuery, Storage!onPageChange, Storage!onFormatCard,
           Storage!Answered, Storage!Formatted, Storage!FormatAnswer, Storage!FormatFailed,
           Storage!Record, Storage!Recycle, Storage!OnItsOwn
  <2> QED BY <2>1, <2>2
<1>3. Flags /\ [Storage!Next]_Storage!storageVars => Flags'
  <2> SUFFICES ASSUME Flags, [Storage!Next]_Storage!storageVars PROVE Flags'
    OBVIOUS
  <2>1. /\ loading' \in {loading, TRUE, FALSE}
        /\ format' \in {format, "idle", "asked", "sent", "done"}
    BY DEF Storage!Next, Storage!Step, Storage!storageVars, Storage!ListRead, Storage!ListLost,
           Storage!ListAnswer, Storage!Ask,
           Storage!StatusFailed, Storage!onQuery, Storage!onPageChange, Storage!onFormatCard,
           Storage!Answered, Storage!Formatted, Storage!FormatAnswer, Storage!FormatFailed,
           Storage!Record, Storage!Recycle, Storage!OnItsOwn
  <2>2. \/ sound' \in {sound, FALSE}
        \/ \E i \in DOMAIN recordLists : sound' = ~recordLists[i].late
    BY DEF Storage!Next, Storage!Step, Storage!storageVars, Storage!ListRead, Storage!ListLost,
           Storage!ListAnswer,
           Storage!StatusFailed, Storage!onQuery, Storage!onPageChange, Storage!onFormatCard,
           Storage!Answered, Storage!Formatted, Storage!FormatAnswer, Storage!FormatFailed,
           Storage!Record, Storage!Recycle, Storage!OnItsOwn
  <2> QED BY <2>1, <2>2
<1>4. Few /\ [Storage!Next]_Storage!storageVars => Few'
  BY DEF Storage!Next, Storage!storageVars
<1>5. RecordsInv /\ Shown /\ Flags /\ Few => Storage!TypeOK
  BY DEF RecordsInv, Storage!TypeOK
<1> HIDE DEF Shown, Flags, Few
<1> QED BY RecordsAlways, <1>1, <1>2, <1>3, <1>4, <1>5, PTL DEF Storage!Spec

\* What the list of captures and the answers to come hold has been made, and
\* only what is listed is selected
Made(q) == \A i \in DOMAIN q : q[i].st = "back" => q[i].list \subseteq 1 .. snaps
EventSizes ==
    /\ view.page \in 1 .. MaxSnaps /\ view.list \subseteq 1 .. snaps
    /\ view.sel \subseteq view.list
    /\ Made(lists)

LEMMA LateKeepsList ==
    ASSUME NEW r \in EventRequests
    PROVE  /\ Events!Late(r).st = r.st
           /\ r.st = "back" => Events!Late(r).list = r.list
BY DEF EventRequests, Events!Late

LEMMA DropIsMade ==
    ASSUME lists \in Seq(EventRequests), Made(lists), NEW i \in DOMAIN lists
    PROVE  Made(Events!Drop(i))
<1> DEFINE t == [j \in DOMAIN lists |-> IF j < i THEN Events!Late(lists[j]) ELSE lists[j]]
           n == Len(lists)
<1>1. n \in Nat /\ i \in 1 .. n /\ DOMAIN lists = 1 .. n
  OBVIOUS
<1>2. ASSUME NEW j \in 1 .. n
      PROVE  t[j] \in EventRequests /\ (t[j].st = "back" => t[j].list \subseteq 1 .. snaps)
  <2>1. lists[j] \in EventRequests
    OBVIOUS
  <2>2. /\ Events!Late(lists[j]) \in EventRequests
        /\ Events!Late(lists[j]).st = lists[j].st
        /\ lists[j].st = "back" => Events!Late(lists[j]).list = lists[j].list
    BY ONLY <2>1, EventFields, LateKeepsList, Zenon
  <2>3. lists[j].st = "back" => lists[j].list \subseteq 1 .. snaps
    BY <1>1 DEF Made
  <2>4. t[j] = IF j < i THEN Events!Late(lists[j]) ELSE lists[j]
    BY <1>1
  <2> HIDE DEF t
  <2>5. CASE j < i
    BY <2>2, <2>3, <2>4, <2>5
  <2>6. CASE ~(j < i)
    BY <2>1, <2>3, <2>4, <2>6
  <2> QED BY <2>5, <2>6
<1>3. t \in Seq(EventRequests) /\ Len(t) = n
  <2>1. t = [j \in 1 .. n |-> t[j]] /\ n \in Nat
    BY <1>1
  <2> HIDE DEF t, n
  <2> QED BY <1>2, <2>1, FunctionIsSeq
<1> HIDE DEF t, n
<1>4. /\ Events!RemoveAt(t, i) \in Seq(EventRequests)
      /\ Len(Events!RemoveAt(t, i)) = n - 1
      /\ \A j \in 1 .. n - 1 :
           Events!RemoveAt(t, i)[j] = IF j < i THEN t[j] ELSE t[j + 1]
  BY <1>1, <1>3, Removed DEF Events!RemoveAt
<1>5. Events!Drop(i) = Events!RemoveAt(t, i)
  BY DEF Events!Drop, t
<1> DEFINE d == Events!Drop(i)
<1>6. /\ DOMAIN d = 1 .. n - 1
      /\ \A j \in 1 .. n - 1 : d[j] = IF j < i THEN t[j] ELSE t[j + 1]
  BY <1>1, <1>4, <1>5
<1> HIDE DEF d
<1>7. ASSUME NEW j \in DOMAIN d, d[j].st = "back"
      PROVE  d[j].list \subseteq 1 .. snaps
  <2>1. j \in 1 .. n /\ j + 1 \in 1 .. n
    BY <1>1, <1>6
  <2>2. d[j] = t[j] \/ d[j] = t[j + 1]
    BY <1>6
  <2> QED BY <1>2, <1>7, <2>1, <2>2
<1> QED BY <1>7 DEF Made, d

\* Steps that keep the queue and the cards
LEMMA AskIsMade ==
    ASSUME EventTypes, EventSizes, NEW d, NEW p \in 1 .. MaxSnaps, NEW n \in {1, 2}, NEW silent,
           Events!Ask(d, p, n, silent), UNCHANGED snaps
    PROVE  EventSizes'
<1> DEFINE r == Events!Asked(d, p)
           e == [i \in 1 .. n |-> r]
<1>1. lists' = lists \o e /\ view' = [view EXCEPT !.date = d, !.page = p, !.busy = ~silent \/ @]
  BY DEF Events!Ask
<1>2. r.st = "sent"
  BY DEF Events!Asked
<1>3. view'.page = p /\ view'.list = view.list /\ view'.sel = view.sel
  <2> DEFINE b == ~silent \/ view.busy
  <2>1. view' = [view EXCEPT !.date = d, !.page = p, !.busy = b] /\ view \in Views
    BY <1>1 DEF EventTypes
  <2> HIDE DEF b
  <2> QED BY <2>1 DEF Views
<1>4. ASSUME NEW i \in DOMAIN lists', lists'[i].st = "back"
      PROVE  lists'[i].list \subseteq 1 .. snaps
  <2> HIDE DEF r
  <2>1. lists \in Seq(EventRequests) /\ n \in Nat /\ e \in Seq({r}) /\ Len(e) = n
    BY DEF EventTypes
  <2>2. \A j \in 1 .. n : e[j] = r
    OBVIOUS
  <2> HIDE DEF e
  <2>3. /\ DOMAIN lists = 1 .. Len(lists) /\ Len(lists) \in Nat
        /\ DOMAIN lists' = 1 .. Len(lists) + n
    BY <1>1, <2>1
  <2>4. CASE i \in 1 .. Len(lists)
    <3>1. lists'[i] = lists[i]
      BY <1>1, <2>1, <2>4
    <3> QED BY <1>4, <2>3, <2>4, <3>1 DEF EventSizes, Made
  <2>5. CASE i \notin 1 .. Len(lists)
    <3>1. i - Len(lists) \in 1 .. n
      BY <2>1, <2>3, <2>5
    <3>2. lists'[i] = e[i - Len(lists)]
      BY <1>1, <2>1, <2>3, <2>5, <3>1
    <3> QED BY <1>2, <1>4, <2>2, <3>1, <3>2
  <2> QED BY <2>4, <2>5
<1>5. Made(lists)'
  BY <1>4 DEF Made
<1> QED BY <1>3, <1>5 DEF EventSizes

LEMMA EventSizesStep ==
    ASSUME EventsInv, EventSizes, [Events!Next]_Events!eventsVars
    PROVE  EventSizes'
<1>0. /\ lists \in Seq(EventRequests) /\ DOMAIN lists = 1 .. Len(lists) /\ view \in Views
      /\ files \subseteq 1 .. snaps /\ EventTypes
      /\ view.page \in 1 .. MaxSnaps /\ 1 \in 1 .. MaxSnaps
  BY PartsAssumption DEF EventsInv, EventTypes, EventSizes
<1>1. ASSUME NEW i \in DOMAIN lists, Events!ListRead(i)
      PROVE  EventSizes'
  <2> DEFINE r == lists[i]
             day == Events!OfDay(files, r.date)
             back == [st |-> "back", shows |-> r.shows, list |-> Events!PageOf(day, r.page),
                      total |-> Events!Cardinality(day), at |-> snaps]
  <2>1. lists' = [lists EXCEPT ![i] = back] /\ UNCHANGED view /\ UNCHANGED snaps
    BY <1>1 DEF Events!ListRead
  <2>2. back.list \subseteq 1 .. snaps
    BY <1>0 DEF Events!OfDay, Events!PageOf
  <2> HIDE DEF back
  <2>3. \A j \in DOMAIN lists' : j \in DOMAIN lists /\ lists'[j] = IF j = i THEN back ELSE lists[j]
    BY <1>0, <2>1
  <2>4. Made(lists)'
    BY <2>1, <2>2, <2>3 DEF EventSizes, Made
  <2> QED BY <2>1, <2>4 DEF EventSizes
<1>2. ASSUME NEW i \in DOMAIN lists, Events!ListAnswer(i)
      PROVE  EventSizes'
  <2> DEFINE r == lists[i]
  <2>1. /\ r.st = "back" /\ lists' = Events!Drop(i) /\ UNCHANGED snaps
        /\ view' = [view EXCEPT !.list = r.list, !.total = r.total, !.sel = {}, !.busy = FALSE]
    BY <1>2 DEF Events!ListAnswer
  <2>2. r.list \subseteq 1 .. snaps
    BY <2>1 DEF EventSizes, Made
  <2> HIDE DEF r
  <2>3. view'.page = view.page /\ view'.list = r.list /\ view'.sel = {}
    BY <1>0, <2>1 DEF Views
  <2>4. Made(Events!Drop(i))
    BY <1>0, DropIsMade DEF EventSizes
  <2>5. Made(lists)'
    BY <2>1, <2>4 DEF Made
  <2> QED BY <2>1, <2>2, <2>3, <2>5 DEF EventSizes
<1>3. ASSUME NEW i \in DOMAIN lists, Events!ListLost(i)
      PROVE  EventSizes'
  <2>1. lists' = Events!Drop(i) /\ UNCHANGED snaps /\ view' = [view EXCEPT !.busy = FALSE]
    BY <1>3 DEF Events!ListLost
  <2>2. view'.page = view.page /\ view'.list = view.list /\ view'.sel = view.sel
    BY <1>0, <2>1 DEF Views
  <2>3. Made(Events!Drop(i))
    BY <1>0, DropIsMade DEF EventSizes
  <2>4. Made(lists)'
    BY <2>1, <2>3 DEF Made
  <2> QED BY <2>1, <2>2, <2>4 DEF EventSizes
<1>4. ASSUME UNCHANGED snaps, UNCHANGED view, UNCHANGED lists
      PROVE  EventSizes'
  BY <1>4 DEF EventSizes, Made
<1>5. CASE \/ Events!SaveHandled \/ Events!SaveAnswer \/ Events!PollRead
           \/ Events!AskDeleteSelected \/ Events!AskDeleteDay \/ Events!Cancel
           \/ Events!ConfirmSelected \/ Events!ConfirmDay \/ Events!DeleteHandled
           \/ UNCHANGED Events!eventsVars
  <2>1. UNCHANGED snaps /\ UNCHANGED view /\ UNCHANGED lists
    BY <1>5
    DEF Events!SaveHandled, Events!SaveAnswer, Events!PollRead, Events!AskDeleteSelected,
        Events!AskDeleteDay, Events!Cancel, Events!ConfirmSelected, Events!ConfirmDay,
        Events!DeleteHandled, Events!eventsVars
  <2> QED BY <1>4, <2>1
<1>6. ASSUME NEW d, NEW p \in 1 .. MaxSnaps, NEW silent, Events!Ask(d, p, 1, silent),
             UNCHANGED snaps
      PROVE  EventSizes'
  <2>1. 1 \in {1, 2}
    OBVIOUS
  <2> QED BY <1>0, <1>6, <2>1, AskIsMade
<1>7. CASE Events!PollAnswer
  <2>1. CASE asked.count # counted /\ Events!Looking
    BY <1>0, <1>6, <1>7, <2>1 DEF Events!PollAnswer
  <2>2. CASE ~(asked.count # counted /\ Events!Looking)
    BY <1>4, <1>7, <2>2 DEF Events!PollAnswer
  <2> QED BY <2>1, <2>2
<1>8. ASSUME Events!AskPageOne, UNCHANGED snaps
      PROVE  EventSizes'
  <2>1. PICK n \in {1, 2} : Events!Ask(view.date, 1, n, FALSE)
    BY <1>8 DEF Events!AskPageOne
  <2> QED BY <1>0, <1>8, <2>1, AskIsMade
<1>9. CASE Events!onQuery \/ Events!DeleteAnswer \/ \E p \in 1 .. MaxSnaps : Events!TurnPage(p)
  BY <1>0, <1>6, <1>8, <1>9 DEF Events!onQuery, Events!DeleteAnswer, Events!TurnPage
<1>10. CASE \/ \E d \in Events!Dates : Events!TypeDate(d)
            \/ \E S \in SUBSET view.list : Events!onSelectionChange(S)
  <2>1. UNCHANGED snaps /\ UNCHANGED lists
    BY <1>10 DEF Events!TypeDate, Events!onSelectionChange
  <2>2. /\ view'.page = view.page /\ view'.list = view.list
        /\ view'.sel = view.sel \/ view'.sel \subseteq view.list
    BY <1>0, <1>10 DEF Events!TypeDate, Events!onSelectionChange, Views
  <2> QED BY <2>1, <2>2 DEF EventSizes, Made
<1>11. CASE Events!DeleteLost
  <2>1. /\ lists' = [i \in DOMAIN lists |-> Events!Late(lists[i])]
        /\ UNCHANGED snaps /\ UNCHANGED view
    BY <1>11 DEF Events!DeleteLost
  <2>2. ASSUME NEW i \in DOMAIN lists', lists'[i].st = "back"
        PROVE  lists'[i].list \subseteq 1 .. snaps
    <3>1. i \in DOMAIN lists /\ lists'[i] = Events!Late(lists[i]) /\ lists[i] \in EventRequests
      BY <1>0, <2>1
    <3>2. /\ Events!Late(lists[i]).st = lists[i].st
          /\ lists[i].st = "back" => Events!Late(lists[i]).list = lists[i].list
      BY ONLY <3>1, LateKeepsList, Zenon
    <3> QED BY <2>2, <3>1, <3>2 DEF EventSizes, Made
  <2> QED BY <2>1, <2>2 DEF EventSizes, Made
<1>12. CASE Events!Snap
  <2>1. snaps' = snaps + 1 /\ UNCHANGED view /\ UNCHANGED lists /\ snaps \in Nat
    BY <1>0, <1>12 DEF Events!Snap, EventTypes
  <2>2. 1 .. snaps \subseteq 1 .. snaps'
    BY <2>1
  <2> QED BY <2>1, <2>2 DEF EventSizes, Made
<1> QED
  BY <1>1, <1>2, <1>3, <1>5, <1>7, <1>9, <1>10, <1>11, <1>12 DEF Events!Next, Events!Step

LEMMA EventsTypesOK == Events!Spec => []Events!TypeOK
<1> DEFINE Few == Events!OnTheWay <= MaxEventRequests
<1>1. Events!Init => EventSizes /\ Few
  <2> SUFFICES ASSUME Events!Init PROVE EventSizes /\ Few
    OBVIOUS
  <2>1. /\ view.page = 1 /\ view.list = {} /\ view.sel = {}
        /\ lists = <<Events!Asked("today", 1)>> /\ Events!Asked("today", 1).st = "sent"
        /\ asked = Events!Idle /\ del = Events!Idle
    BY DEF Events!Init, Events!Asked
  <2>2. Len(lists) = 1 /\ Made(lists)
    BY <2>1 DEF Made
  <2>3. 1 \in 1 .. MaxSnaps
    BY PartsAssumption
  <2>4. EventSizes
    BY <2>1, <2>2, <2>3 DEF EventSizes
  <2>5. Events!Cardinality({r \in {asked, del} : r # Events!Idle}) = 0
    <3>1. {r \in {asked, del} : r # Events!Idle} = {}
      BY <2>1
    <3>2. Events!Cardinality({}) = Cardinality({})
      BY DEF Events!Cardinality, Cardinality
    <3> QED BY <3>1, <3>2, FS_EmptySet
  <2>6. Few
    BY <2>2, <2>5, BoundsAssumption DEF Events!OnTheWay
  <2> QED BY <2>4, <2>6
<1>2. EventsInv /\ EventSizes /\ [Events!Next]_Events!eventsVars => EventSizes'
  BY EventSizesStep
<1>3. Few /\ [Events!Next]_Events!eventsVars => Few'
  BY DEF Events!Next, Events!eventsVars, Events!OnTheWay
<1>4. EventsInv /\ EventSizes /\ Few => Events!TypeOK
  <2> SUFFICES ASSUME EventsInv, EventSizes, Few PROVE Events!TypeOK
    OBVIOUS
  <2>1. view.date \in Events!Dates
    BY ViewFields DEF EventsInv, EventTypes
  <2> QED BY <2>1 DEF EventsInv, EventTypes, EventSizes, Events!TypeOK
<1> HIDE DEF Few
<1> QED BY EventsAlways, <1>1, <1>2, <1>3, <1>4, PTL DEF Events!Spec

\* The session's requests, pages and bounds
SessionSizes ==
    /\ issued <= MaxTokens /\ upset \in BOOLEAN
    /\ route \in Session!Pages \cup {"blank", "login"}
    /\ nav.st \in {"idle", "sent", "back", "lost"}
    /\ nav.st \in {"sent", "back"} => nav.to \in Session!Pages
    /\ leave.st \in {"idle", "logout", "password", "reset", "back"}
    /\ Len(logins) <= MaxLogins

LEMMA NavSizes ==
    ASSUME SessionInv, SessionSizes, [Session!Next]_Session!sessionVars
    PROVE  /\ route' \in Session!Pages \cup {"blank", "login"}
           /\ nav'.st \in {"idle", "sent", "back", "lost"}
           /\ nav'.st \in {"sent", "back"} => nav'.to \in Session!Pages
<1>0. /\ Session!Idle.st = "idle" /\ Session!Lost.st = "lost"
      /\ "main" \in Session!Pages /\ "password" \in Session!Pages
      /\ nav.st = "lost" => nav = Session!Lost
  BY DEF Session!Idle, Session!Lost, Session!Pages, SessionInv, SessionTypes
<1>1. ASSUME UNCHANGED route, NEW to \in Session!Pages, nav' = Session!Guard(to)
      PROVE  /\ route' \in Session!Pages \cup {"blank", "login"} /\ nav'.st = "sent"
             /\ nav'.to \in Session!Pages
  BY <1>1 DEF Session!Guard, SessionSizes
<1>2. CASE \E to \in Session!Pages : Session!Go(to)
  BY <1>1, <1>2 DEF Session!Go
<1>3. CASE Session!MeHandled
  <2>1. UNCHANGED route /\ nav.st = "sent"
    BY <1>3 DEF Session!MeHandled
  <2>2. \/ nav' = Session!Lost
        \/ nav' = [st |-> "back", to |-> nav.to, ok |-> Session!auth_ok(nav.cookie),
                   must_change |-> pass = "default"]
    BY <1>3 DEF Session!MeHandled
  <2>3. nav'.st = "lost" \/ (nav'.st = "back" /\ nav'.to = nav.to)
    BY <1>0, <2>2
  <2> QED BY <2>1, <2>3 DEF SessionSizes
<1>4. CASE Session!Guarded
  <2>1. CASE route' = "login" /\ nav' = Session!Idle
    BY <1>0, <2>1
  <2>2. CASE nav' = Session!Guard("password") /\ UNCHANGED route
    BY <1>0, <1>1, <2>2
  <2>3. CASE nav # Session!Lost /\ route' = nav.to /\ nav' = Session!Idle
    <3>1. nav.st = "back"
      BY <1>0, <1>4, <2>3 DEF Session!Guarded
    <3> QED BY <1>0, <2>3, <3>1 DEF SessionSizes
  <2> QED BY <1>4, <2>1, <2>2, <2>3 DEF Session!Guarded
<1>5. CASE \E i \in DOMAIN logins : Session!LoginAnswer(i)
  <2>1. PICK i \in DOMAIN logins : Session!LoginAnswer(i)
    BY <1>5
  <2>2. UNCHANGED route /\ \E to \in Session!Pages : nav' = Session!Guard(to)
    BY <1>0, <2>1 DEF Session!LoginAnswer
  <2> QED BY <1>1, <2>2
<1>6. CASE Session!LeaveAnswer
  <2>1. \/ UNCHANGED route /\ UNCHANGED nav
        \/ nav' = Session!Guard("main") /\ UNCHANGED route
        \/ route' = "login" /\ nav' = Session!Idle
    BY <1>6 DEF Session!LeaveAnswer
  <2>2. CASE UNCHANGED route /\ UNCHANGED nav
    BY <2>2 DEF SessionSizes
  <2>3. CASE nav' = Session!Guard("main") /\ UNCHANGED route
    BY <1>0, <1>1, <2>3
  <2>4. CASE route' = "login" /\ nav' = Session!Idle
    BY <1>0, <2>4
  <2> QED BY <2>1, <2>2, <2>3, <2>4
<1>7. CASE UNCHANGED route /\ UNCHANGED nav
  BY <1>7 DEF SessionSizes
<1>8. \/ \E to \in Session!Pages : Session!Go(to)
      \/ Session!MeHandled \/ Session!Guarded
      \/ \E i \in DOMAIN logins : Session!LoginAnswer(i)
      \/ Session!LeaveAnswer \/ (UNCHANGED route /\ UNCHANGED nav)
  BY DEF Session!Next, Session!sessionVars, Session!onLogin, Session!onPassword,
         Session!LoginHandled, Session!LoginLost, Session!onLogout, Session!onReset,
         Session!Request, Session!LogoutHandled, Session!PasswordHandled,
         Session!ResetHandled, Session!LeaveLost, Session!OtherLogin, Session!OtherReset,
         Session!Expire
<1> QED BY <1>2, <1>3, <1>4, <1>5, <1>6, <1>7, <1>8

LEMMA LeaveSizes ==
    ASSUME SessionSizes, [Session!Next]_Session!sessionVars
    PROVE  leave'.st \in {"idle", "logout", "password", "reset", "back"}
<1>1. \/ UNCHANGED leave \/ leave' = Session!Idle
      \/ leave' = [st |-> "logout"]
      \/ \E p \in {"default", "own"} :
           leave' = [st |-> "password", cookie |-> cookie, old |-> p]
      \/ leave' = [st |-> "reset", cookie |-> cookie]
      \/ \E what, ok : leave' = [st |-> "back", what |-> what, ok |-> ok]
  <2>1. CASE Session!LogoutHandled \/ Session!PasswordHandled \/ Session!ResetHandled
    BY <2>1 DEF Session!LogoutHandled, Session!PasswordHandled, Session!ResetHandled, Session!Done
  <2>2. CASE Session!onLogout \/ Session!onReset \/ \E p \in {"default", "own"} : Session!onPassword(p)
    BY <2>2 DEF Session!onLogout, Session!onReset, Session!onPassword, Session!Request
  <2>3. CASE Session!LeaveAnswer \/ Session!LeaveLost
    BY <2>3 DEF Session!LeaveAnswer, Session!LeaveLost
  <2>4. \/ Session!LogoutHandled \/ Session!PasswordHandled \/ Session!ResetHandled
        \/ Session!onLogout \/ Session!onReset
        \/ \E p \in {"default", "own"} : Session!onPassword(p)
        \/ Session!LeaveAnswer \/ Session!LeaveLost
        \/ UNCHANGED leave
    BY DEF Session!Next, Session!sessionVars, Session!Go, Session!MeHandled, Session!Guarded,
           Session!onLogin, Session!LoginHandled, Session!LoginAnswer, Session!LoginLost,
           Session!OtherLogin, Session!OtherReset, Session!Expire
  <2> QED BY <2>1, <2>2, <2>3, <2>4
<1>2. UNCHANGED leave \/ leave'.st \in {"idle", "logout", "password", "reset", "back"}
  BY <1>1 DEF Session!Idle
<1> QED BY <1>2 DEF SessionSizes

\* The bounds, and the history
LEMMA BoundSizes ==
    ASSUME SessionInv, SessionSizes, [Session!Next]_Session!sessionVars
    PROVE  issued' <= MaxTokens /\ Len(logins') <= MaxLogins /\ upset' \in BOOLEAN
<1>0. /\ logins \in Seq(Logins) /\ issued \in Nat /\ MaxTokens \in Nat /\ MaxLogins \in Nat
      /\ DOMAIN logins = 1 .. Len(logins)
      /\ issued <= MaxTokens /\ Len(logins) <= MaxLogins
  BY BoundsAssumption DEF SessionInv, SessionTypes, SessionSizes
<1>1. issued' <= MaxTokens
  <2>1. UNCHANGED issued \/ (issued < MaxTokens /\ issued' = issued + 1)
    BY DEF Session!Next, Session!sessionVars, Session!Go, Session!MeHandled, Session!Guarded,
           Session!onLogin, Session!onPassword, Session!LoginHandled, Session!LoginAnswer,
           Session!LoginLost, Session!onLogout, Session!onReset, Session!Request,
           Session!LogoutHandled, Session!PasswordHandled, Session!ResetHandled,
           Session!LeaveAnswer, Session!LeaveLost, Session!OtherLogin, Session!OtherReset,
           Session!Expire, Session!issue_token
  <2> QED BY <1>0, <2>1
<1>2. Len(logins') <= MaxLogins
  <2>1. ASSUME NEW i \in DOMAIN logins, logins' = Session!RemoveAt(logins, i)
        PROVE  Len(logins') <= MaxLogins
    <3>1. Len(logins') = Len(logins) - 1
      BY <1>0, <2>1, Removed DEF Session!RemoveAt
    <3> QED BY <1>0, <3>1
  <2>2. ASSUME NEW i \in DOMAIN logins, NEW r, logins' = [logins EXCEPT ![i] = r]
        PROVE  Len(logins') <= MaxLogins
    <3>1. DOMAIN logins' = 1 .. Len(logins)
      BY <1>0, <2>2
    <3>2. logins' \in Seq(Logins \cup {r}) /\ Len(logins') = Len(logins)
      BY <1>0, <2>2
    <3> QED BY <1>0, <3>2
  <2>3. ASSUME NEW r, logins' = Append(logins, r), Len(logins) < MaxLogins
        PROVE  Len(logins') <= MaxLogins
    BY <1>0, <2>3
  <2>4. CASE \E p \in {"default", "own"} : Session!onLogin(p)
    BY <2>3, <2>4 DEF Session!onLogin
  <2>5. CASE \E i \in DOMAIN logins : Session!LoginHandled(i)
    BY <2>2, <2>5 DEF Session!LoginHandled
  <2>6. CASE \E i \in DOMAIN logins : Session!LoginAnswer(i) \/ Session!LoginLost(i)
    BY <2>1, <2>6 DEF Session!LoginAnswer, Session!LoginLost
  <2>7. CASE UNCHANGED logins
    BY <1>0, <2>7
  <2>8. \/ \E p \in {"default", "own"} : Session!onLogin(p)
        \/ \E i \in DOMAIN logins :
             Session!LoginHandled(i) \/ Session!LoginAnswer(i) \/ Session!LoginLost(i)
        \/ UNCHANGED logins
    BY DEF Session!Next, Session!sessionVars, Session!Go, Session!MeHandled, Session!Guarded,
           Session!onPassword, Session!onLogout, Session!onReset, Session!Request,
           Session!LogoutHandled, Session!PasswordHandled, Session!ResetHandled,
           Session!LeaveAnswer, Session!LeaveLost, Session!OtherLogin, Session!OtherReset,
           Session!Expire
  <2> QED BY <2>4, <2>5, <2>6, <2>7, <2>8
<1>3. upset' \in BOOLEAN
  <2>1. CASE \E i \in DOMAIN logins : Session!LoginAnswer(i) \/ Session!LoginLost(i)
    BY <2>1 DEF Session!LoginAnswer, Session!LoginLost
  <2>2. CASE Session!LeaveLost
    BY <2>2 DEF Session!LeaveLost
  <2>3. CASE upset' = TRUE \/ UNCHANGED upset
    BY <2>3 DEF SessionSizes
  <2>4. \/ \E i \in DOMAIN logins : Session!LoginAnswer(i) \/ Session!LoginLost(i)
        \/ Session!LeaveLost \/ upset' = TRUE \/ UNCHANGED upset
    BY DEF Session!Next, Session!sessionVars, Session!Go, Session!MeHandled, Session!Guarded,
           Session!onLogin, Session!onPassword, Session!LoginHandled,
           Session!onLogout, Session!onReset, Session!Request,
           Session!LogoutHandled, Session!PasswordHandled, Session!ResetHandled,
           Session!LeaveAnswer, Session!OtherLogin, Session!OtherReset, Session!Expire
  <2> QED BY <2>1, <2>2, <2>3, <2>4
<1> QED BY <1>1, <1>2, <1>3

LEMMA SessionTypesOK == Session!Spec => []Session!TypeOK
<1>1. Session!Init => SessionSizes
  <2> SUFFICES ASSUME Session!Init PROVE SessionSizes
    OBVIOUS
  <2>1. /\ issued = 0 /\ upset = FALSE /\ route = "blank"
        /\ nav.st = "sent" /\ nav.to = "main" /\ leave.st = "idle" /\ logins = <<>>
    BY DEF Session!Init, Session!Idle
  <2>2. issued <= MaxTokens /\ Len(logins) <= MaxLogins
    BY <2>1, BoundsAssumption
  <2>3. nav.to \in Session!Pages
    BY <2>1 DEF Session!Pages
  <2> QED BY <2>1, <2>2, <2>3 DEF SessionSizes
<1>2. SessionInv /\ SessionSizes /\ [Session!Next]_Session!sessionVars => SessionSizes'
  <2> SUFFICES ASSUME SessionInv, SessionSizes, [Session!Next]_Session!sessionVars
               PROVE  SessionSizes'
    OBVIOUS
  <2> QED BY NavSizes, LeaveSizes, BoundSizes DEF SessionSizes
<1>3. SessionInv /\ SessionSizes => Session!TypeOK
  <2> SUFFICES ASSUME SessionInv, SessionSizes PROVE Session!TypeOK
    OBVIOUS
  <2>1. /\ issued \in Nat /\ issued <= MaxTokens /\ MaxTokens \in Nat
        /\ token \in 0 .. issued /\ cookie \in 0 .. issued
    BY BoundsAssumption DEF SessionInv, SessionTypes, SessionSizes
  <2>2. issued \in 0 .. MaxTokens /\ {token, cookie} \subseteq 0 .. issued
    BY <2>1
  <2> QED BY <2>2 DEF SessionInv, SessionTypes, SessionSizes, Session!TypeOK
<1> QED BY SessionAlways, <1>1, <1>2, <1>3, PTL DEF Session!Spec

-----------------------------------------------------------------------------
\* All parts: a behaviour of MCWebPages is one of every part, of which all but
\* the open one rest

LEMMA PartsAllKept ==
    MCSpec => /\ Spec /\ Grid!Spec /\ Shot!Spec /\ Alarm!Spec /\ Face!Spec /\ Events!Spec
              /\ Storage!Spec /\ Settings!Spec /\ Network!Spec /\ Session!Spec
<1>1. MCInit => /\ Init /\ Grid!Init /\ Shot!Init /\ Alarm!Init /\ Face!Init /\ Events!Init
                /\ Storage!Init /\ Settings!Init /\ Network!Init /\ Session!Init
  BY DEF MCInit
<1>2. [MCNext]_vars =>
        /\ [Next]_canvasVars /\ [Grid!Next]_Grid!gridVars /\ [Shot!Next]_Shot!shotVars
        /\ [Alarm!Next]_Alarm!alarmVars /\ [Face!Next]_Face!formVars
        /\ [Events!Next]_Events!eventsVars /\ [Storage!Next]_Storage!storageVars
        /\ [Settings!Next]_Settings!settingsVars /\ [Network!Next]_Network!networkVars
        /\ [Session!Next]_Session!sessionVars
  <2> SUFFICES ASSUME [MCNext]_vars
               PROVE  /\ [Next]_canvasVars
                      /\ [Grid!Next]_Grid!gridVars
                      /\ [Shot!Next]_Shot!shotVars
                      /\ [Alarm!Next]_Alarm!alarmVars
                      /\ [Face!Next]_Face!formVars
                      /\ [Events!Next]_Events!eventsVars
                      /\ [Storage!Next]_Storage!storageVars
                      /\ [Settings!Next]_Settings!settingsVars
                      /\ [Network!Next]_Network!networkVars
                      /\ [Session!Next]_Session!sessionVars
    OBVIOUS
  <2>1. [Next]_canvasVars
    <3>1. Next \/ UNCHANGED canvasVars
      BY DEF MCNext, vars
    <3> QED BY <3>1
  <2>2. [Grid!Next]_Grid!gridVars
    <3>1. Grid!Next \/ UNCHANGED gridPart
      BY DEF MCNext, vars
    <3> QED BY <3>1 DEF Grid!gridVars, gridPart
  <2>3. [Shot!Next]_Shot!shotVars
    <3>1. Shot!Next \/ UNCHANGED shotPart
      BY DEF MCNext, vars
    <3> QED BY <3>1 DEF Shot!shotVars, shotPart
  <2>4. [Alarm!Next]_Alarm!alarmVars
    <3>1. Alarm!Next \/ UNCHANGED alarmPart
      BY DEF MCNext, vars
    <3> QED BY <3>1 DEF Alarm!alarmVars, alarmPart
  <2>5. [Face!Next]_Face!formVars
    <3>1. Face!Next \/ UNCHANGED facePart
      BY DEF MCNext, vars
    <3> QED BY <3>1 DEF Face!formVars, facePart
  <2>6. [Events!Next]_Events!eventsVars
    <3>1. Events!Next \/ UNCHANGED eventsPart
      BY DEF MCNext, vars
    <3> QED BY <3>1 DEF Events!eventsVars, eventsPart
  <2>7. [Storage!Next]_Storage!storageVars
    <3>1. Storage!Next \/ UNCHANGED storagePart
      BY DEF MCNext, vars
    <3> QED BY <3>1 DEF Storage!storageVars, storagePart
  <2>8. [Settings!Next]_Settings!settingsVars
    <3>1. Settings!Next \/ UNCHANGED settingsPart
      BY DEF MCNext, vars
    <3> QED BY <3>1 DEF Settings!settingsVars, settingsPart
  <2>9. [Network!Next]_Network!networkVars
    <3>1. Network!Next \/ UNCHANGED networkPart
      BY DEF MCNext, vars
    <3> QED BY <3>1 DEF Network!networkVars, networkPart
  <2>10. [Session!Next]_Session!sessionVars
    <3>1. Session!Next \/ UNCHANGED sessionPart
      BY DEF MCNext, vars
    <3> QED BY <3>1 DEF Session!sessionVars, sessionPart
  <2> QED BY <2>1, <2>2, <2>3, <2>4, <2>5, <2>6, <2>7, <2>8, <2>9, <2>10
<1> QED
  BY <1>1, <1>2, PTL
  DEF MCSpec, Spec, Grid!Spec, Shot!Spec, Alarm!Spec, Face!Spec, Events!Spec, Storage!Spec,
      Settings!Spec, Network!Spec, Session!Spec

\* Every variable of every part keeps its type, in behaviours of any part: the
\* bounds on requests and lists hold, what is selected is listed, and what a
\* list shows was made.
THEOREM PagesTypesKept == MCSpec => []PagesTypeOK
<1>1. MCInit => open \in PartNames
  BY DEF MCInit
<1>2. open \in PartNames /\ [MCNext]_vars => (open \in PartNames)'
  BY DEF MCNext, vars
<1>3. /\ open \in PartNames
      /\ TypeOK /\ Grid!TypeOK /\ Shot!TypeOK /\ Alarm!TypeOK /\ Face!TypeOK /\ Events!TypeOK
      /\ Storage!TypeOK /\ Settings!TypeOK /\ Network!TypeOK /\ Session!TypeOK
      => PagesTypeOK
  BY DEF PagesTypeOK, PartNames
<1>4. MCSpec => [](open \in PartNames)
  BY <1>1, <1>2, PTL DEF MCSpec
<1> QED
  BY <1>3, <1>4, PartsAllKept, CanvasTypesOK, GridTypes, ShotTypes, AlarmTypes, FaceTypes,
     EventsTypesOK, RecordsTypes, SettingsTypesOK, NetworkTypesOK, SessionTypesOK, PTL
=============================================================================
