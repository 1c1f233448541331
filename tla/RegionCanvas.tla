---------------------------- MODULE RegionCanvas ----------------------------
(***************************************************************************)
(* The canvas on which the alarm and the face page draw up to four          *)
(* detection regions over the camera picture: a press takes a corner of the *)
(* active region, takes its inside, or starts a new rectangle, and every    *)
(* move of the captured pointer rewrites that region.  Both pages lock the  *)
(* canvas to the region chosen beside it (activeIndex >= 0), so the branch  *)
(* for an unlocked canvas is not part of the program.                       *)
(* A pointer position is counted in half pixels, so that rounding is real;  *)
(* a captured pointer also reports positions outside the picture.           *)
(***************************************************************************)
EXTENDS Integers

CONSTANTS
    W, H,      \* the picture: logicW and logicH pixels
    Max,       \* regions of a form (4 in the program)
    Pad,       \* how far from a corner a press takes it, in half pixels
    Points     \* pointer positions <<x, y>>, in half pixels

ASSUME CanvasAssumption ==
    /\ W \in Nat \ {0} /\ H \in Nat \ {0} /\ Max \in Nat \ {0} /\ Pad \in Nat
    /\ Points \subseteq Int \X Int

VARIABLES
    regions,      \* the form's regions, props.modelValue
    activeIndex,  \* the region chosen beside the canvas
    selected,     \* the region a drag writes to, or -1
    drag          \* dragMode, the corner taken, the press and orig

canvasVars == <<regions, activeIndex, selected, drag>>

Indices == 0 .. Max - 1
Empty == [enabled |-> FALSE, x |-> 0, y |-> 0, w |-> 0, h |-> 0]
Region == [enabled : BOOLEAN, x : Int, y : Int, w : Int, h : Int]
NoDrag == [mode |-> "none"]

-----------------------------------------------------------------------------
\* Math.round of a number of halves, and of a pixel count
Round(halves) == (halves + 1) \div 2

clamp(v, lo, hi) == IF v < lo \/ hi < lo THEN lo ELSE IF hi < v THEN hi ELSE v

Least(a, l) == IF l < 0 THEN a + l ELSE a
Size(l) == IF l < 0 THEN -l ELSE l

\* One axis of normRect: where a span of halves starts, and its length, on a
\* side of n pixels
From(a, l, n) == clamp(Round(Least(a, l)), 0, n - 1)
\* (with a defect: the start of the span is not taken off)
LengthOfSide(a, l, n) == clamp(Round(Size(l)), 1, n)

Length(a, l, n) == clamp(Round(Size(l)), 1, n - From(a, l, n))

normRect(x, y, w, h) ==
    [enabled |-> TRUE,
     x |-> From(x, w, W), y |-> From(y, h, H),
     w |-> Length(x, w, W), h |-> Length(y, h, H)]

Drawn(r) == r.enabled /\ r.w > 0 /\ r.h > 0

Near(p, edge) == Size(p - 2 * edge) <= Pad

\* The four corners are tried in the order nw, ne, sw, se, so where two
\* corners are near the western and the northern one is taken
TakesCorner(r, p) ==
    /\ Near(p[1], r.x) \/ Near(p[1], r.x + r.w)
    /\ Near(p[2], r.y) \/ Near(p[2], r.y + r.h)

CornerTaken(r, p) == [west |-> Near(p[1], r.x), north |-> Near(p[2], r.y)]

Within(r, p) ==
    /\ 2 * r.x <= p[1] /\ p[1] <= 2 * (r.x + r.w)
    /\ 2 * r.y <= p[2] /\ p[2] <= 2 * (r.y + r.h)

-----------------------------------------------------------------------------
Init ==
    /\ regions = [i \in Indices |-> Empty]
    /\ activeIndex = 0 /\ selected = -1
    /\ drag = NoDrag

\* A press on the canvas
onPointerDown(p) ==
    LET r == regions[activeIndex] IN
    /\ selected' = activeIndex
    /\ drag' = CASE Drawn(r) /\ TakesCorner(r, p) ->
                        [mode |-> "resize", corner |-> CornerTaken(r, p),
                         start |-> p, orig |-> r]
                 [] Drawn(r) /\ ~TakesCorner(r, p) /\ Within(r, p) ->
                        [mode |-> "move", start |-> p, orig |-> r]
                 [] OTHER -> [mode |-> "draw", start |-> p]
    /\ UNCHANGED <<regions, activeIndex>>

Drawing(p) ==
    /\ drag.mode = "draw"
    /\ selected' = activeIndex
    /\ regions' = [regions EXCEPT ![activeIndex] =
                     normRect(drag.start[1], drag.start[2],
                              p[1] - drag.start[1], p[2] - drag.start[2])]

Moving(p) ==
    LET o == drag.orig
        dx == Round(p[1] - drag.start[1])
        dy == Round(p[2] - drag.start[2])
    IN
    /\ drag.mode = "move"
    /\ regions' = IF selected < 0 THEN regions
                  ELSE [regions EXCEPT ![selected] =
                         normRect(2 * (o.x + dx), 2 * (o.y + dy), 2 * o.w, 2 * o.h)]
    /\ UNCHANGED selected

Resizing(p) ==
    LET o == drag.orig
        x1 == IF drag.corner.west THEN p[1] ELSE 2 * o.x
        x2 == IF drag.corner.west THEN 2 * (o.x + o.w) ELSE p[1]
        y1 == IF drag.corner.north THEN p[2] ELSE 2 * o.y
        y2 == IF drag.corner.north THEN 2 * (o.y + o.h) ELSE p[2]
    IN
    /\ drag.mode = "resize"
    /\ regions' = IF selected < 0 THEN regions
                  ELSE [regions EXCEPT ![selected] = normRect(x1, y1, x2 - x1, y2 - y1)]
    /\ UNCHANGED selected

onPointerMove(p) ==
    /\ Drawing(p) \/ Moving(p) \/ Resizing(p)
    /\ UNCHANGED <<activeIndex, drag>>

onPointerUp ==
    /\ drag' = NoDrag
    /\ UNCHANGED <<regions, activeIndex, selected>>

\* The page's button that empties the active region
clearSelected ==
    /\ regions' = [regions EXCEPT ![activeIndex] = Empty]
    /\ selected' = -1
    /\ UNCHANGED <<activeIndex, drag>>

\* Another region is chosen beside the canvas, by key also during a drag: the
\* watcher moves the selection and leaves the drag alone
\* (with a defect: it forgets the selection)
ChooseKeepsSelected(i) ==
    /\ i # activeIndex
    /\ activeIndex' = i
    /\ UNCHANGED <<regions, selected, drag>>

Choose(i) ==
    /\ i # activeIndex
    /\ activeIndex' = i /\ selected' = i
    /\ UNCHANGED <<regions, drag>>

Next ==
    \/ \E p \in Points : onPointerDown(p) \/ onPointerMove(p)
    \/ onPointerUp \/ clearSelected
    \/ \E i \in Indices : Choose(i)

Spec == Init /\ [][Next]_canvasVars

-----------------------------------------------------------------------------
TypeOK ==
    /\ regions \in [Indices -> Region]
    /\ activeIndex \in Indices
    /\ selected \in {-1} \cup Indices
    /\ drag.mode \in {"none", "draw", "move", "resize"}

\* Every region of the form is either empty or lies inside the picture with at
\* least one pixel, whatever was dragged and however far outside the picture
\* the captured pointer went: normRect's clamping.
InPicture(r) ==
    /\ 0 <= r.x /\ 1 <= r.w /\ r.x + r.w <= W
    /\ 0 <= r.y /\ 1 <= r.h /\ r.y + r.h <= H

RegionsInPicture == \A i \in Indices : regions[i] = Empty \/ InPicture(regions[i])

\* "When >= 0, only edit this region index": no step of a drag, with the
\* choice of the region changing under it, touches a region that is not the
\* active one.
OnlyActiveEdited ==
    [][\A i \in Indices : regions'[i] # regions[i] => i = activeIndex]_canvasVars
=============================================================================
