---------------------------- MODULE FacePainting ----------------------------
(***************************************************************************)
(* paint_faces, pixel by pixel: the drawing ops, the box that is believed  *)
(* to hold what an op draws, and how the pixels drawn get to a face.  In   *)
(* face space the op draws on an empty source, which is stretched or tiled *)
(* over the face's rectangle; in texture space it draws on the picture,    *)
(* and the face's rectangle cuts out what stays.                           *)
(*                                                                         *)
(* Coordinates of ops and of rectangles are in halves of a pixel: they may *)
(* be fractions, and are rounded in three ways.  Shades of a color are one *)
(* ink.                                                                    *)
(***************************************************************************)
EXTENDS Integers, FiniteSets

CONSTANTS Canvas,      \* the texture's width and height in pixels
          Layout,      \* the UVs tried: face -> [x1, y1, x2, y2]
          Source,      \* the width and height a call may give
          Op,          \* the ops calls have
          Ink, Blank,
          MaxPaints

VARIABLES pic,         \* pixel -> ink
          uv,          \* face -> rectangle
          paint        \* the last call: [n, face, op, space, source, ink, before]

fvars == <<pic, uv, paint>>

Floor(half) == half \div 2
Ceil(half)  == (half + 1) \div 2
Round(half) == (half + 1) \div 2
Lower(a, b) == IF a < b THEN a ELSE b
Upper(a, b) == IF a < b THEN b ELSE a
Distance(a, b) == Upper(a, b) - Lower(a, b)

Box(x1, y1, x2, y2) == [x1 |-> x1, y1 |-> y1, x2 |-> x2, y2 |-> y2]
Grid(size) == (0..size[1] - 1) \X (0..size[2] - 1)
Whole(size) == Box(0, 0, 2 * size[1], 2 * size[2])

\* The pixels of a rectangle, those it cuts included.
Area(size, r) ==
    {p \in Grid(size) : /\ Floor(r.x1) <= p[1] /\ p[1] < Ceil(r.x2)
                        /\ Floor(r.y1) <= p[2] /\ p[2] < Ceil(r.y2)}

\* normalizeRect: a mirrored face is painted like one that is not.
Normalized(r) == Box(Lower(r.x1, r.x2), Lower(r.y1, r.y2), Upper(r.x1, r.x2), Upper(r.y1, r.y2))

\* resolveUvPaintRects, for the one face a call names.
Rect(f) == Normalized(uv[f])

----------------------------------------------------------------------------
(* The ops: the pixels each draws on a source of a size                    *)

StrokeRect(size, op) ==
    LET l == 2 * op.line
        right == op.x + op.w  bottom == op.y + op.h
    IN  IF op.w <= 0 \/ op.h <= 0 THEN {}
        ELSE Area(size, Box(op.x, op.y, right, op.y + l))
             \cup Area(size, Box(op.x, bottom - l, right, bottom))
             \cup Area(size, Box(op.x, op.y + l, op.x + l, bottom - l))
             \cup Area(size, Box(right - l, op.y + l, right, bottom - l))

\* Bresenham's line, from pixel to pixel.
LinePath(op) ==
    LET from == [x |-> Round(op.x), y |-> Round(op.y)]
        to   == [x |-> Round(op.x + op.w), y |-> Round(op.y + op.h)]
        dx == Distance(from.x, to.x)  dy == Distance(from.y, to.y)
        Toward(a, b) == IF a < b THEN 1 ELSE -1
        at[n \in 0..dx + dy] ==
            IF n = 0 THEN [p |-> from, err |-> dx - dy]
            ELSE LET s == at[n - 1]
                     across == 2 * s.err > -dy  down == 2 * s.err < dx
                 IN  IF s.p = to THEN s
                     ELSE [p   |-> [x |-> s.p.x + IF across THEN Toward(from.x, to.x) ELSE 0,
                                    y |-> s.p.y + IF down THEN Toward(from.y, to.y) ELSE 0],
                           err |-> s.err - (IF across THEN dy ELSE 0) + (IF down THEN dx ELSE 0)]
    IN  {at[n].p : n \in 0..dx + dy}

Radius(op) == op.line \div 2
DrawLine(size, op) ==
    {p \in Grid(size) : \E q \in LinePath(op) :
        Distance(p[1], q.x) <= Radius(op) /\ Distance(p[2], q.y) <= Radius(op)}

\* applyTextureOps
Drawn(size, op) ==
    CASE op.op = "set_pixel" -> Grid(size) \cap {<<Round(op.x), Round(op.y)>>}
      [] op.op = "fill_rect" -> Area(size, Box(op.x, op.y, op.x + op.w, op.y + op.h))
      [] op.op = "draw_rect" -> StrokeRect(size, op)
      [] op.op = "draw_line" -> DrawLine(size, op)

\* Fault: a line is taken for as thin as its path.
BoundsOfPath(op) ==
    Box(Lower(op.x, op.x + op.w), Lower(op.y, op.y + op.h),
        Upper(op.x, op.x + op.w) + 2, Upper(op.y, op.y + op.h) + 2)
\* getTextureOpBounds: what the checks before the drawing take for its extent.
OpBounds(op) ==
    LET box == Box(Lower(op.x, op.x + op.w), Lower(op.y, op.y + op.h),
                   Upper(op.x, op.x + op.w), Upper(op.y, op.y + op.h))
        r == 2 * Radius(op)
    IN  CASE op.op = "set_pixel" -> Box(2 * Round(op.x), 2 * Round(op.y), 2 * Round(op.x) + 2, 2 * Round(op.y) + 2)
          [] op.op \in {"fill_rect", "draw_rect"} -> box
          [] op.op = "draw_line" -> Box(box.x1 - r, box.y1 - r, box.x2 + r + 2, box.y2 + r + 2)

Intersect(a, b) == a.x1 < b.x2 /\ a.x2 > b.x1 /\ a.y1 < b.y2 /\ a.y2 > b.y1

----------------------------------------------------------------------------
(* From the source to the face                                             *)

Span(r) == <<Upper(Ceil(r.x2 - r.x1), 1), Upper(Ceil(r.y2 - r.y1), 1)>>

\* The pixel of the source a pixel of the face is copied from.
Clamped(n, size) == Lower(Upper(n, 0), size - 1)
Origin(p, r, source, mapping) ==
    IF mapping = "tile" THEN <<p[1] % source[1], p[2] % source[2]>>
    ELSE <<Clamped(((2 * p[1] + 1 - r.x1) * source[1]) \div (r.x2 - r.x1), source[1]),
           Clamped(((2 * p[2] + 1 - r.y1) * source[2]) \div (r.y2 - r.y1), source[2])>>

\* applyUvPaintPixels and overlayPatchRects: all of the face's pixels, those the
\* op did not draw as transparent ones.
FacePatch(r, source, drawn, mapping, ink) ==
    [p \in Area(Canvas, r) |-> IF Origin(p, r, source, mapping) \in drawn THEN ink ELSE Blank]

\* applyTextureOps on a copy and overlayTextureSpaceRects.
TexturePatch(r, drawn, ink) == [p \in Area(Canvas, r) \cap drawn |-> ink]

\* resolvePaintFacesSourceSize, validatePaintFacesOpBounds
Allowed(r, op, space, source) ==
    /\ space = "texture" => source = Canvas /\ Intersect(OpBounds(op), r)
    /\ Intersect(OpBounds(op), Whole(source))

\* normalizeUvPaintRects: the rectangle the source is mapped to must have a size
\* and lie in the texture.
InTexture(r) == /\ r.x1 < r.x2 /\ r.y1 < r.y2
                /\ r.x1 >= 0 /\ r.y1 >= 0 /\ r.x2 <= 2 * Canvas[1] /\ r.y2 <= 2 * Canvas[2]

Paint(f, op, source, ink) ==
    LET r == Rect(f)  drawn == Drawn(source, op)
        Done(space, patch) ==
            /\ pic' = [p \in DOMAIN pic |-> IF p \in DOMAIN patch THEN patch[p] ELSE pic[p]]
            /\ paint' = [n |-> paint.n + 1, face |-> f, op |-> op, space |-> space,
                         source |-> source, ink |-> ink, before |-> pic]
    IN  /\ paint.n < MaxPaints
        /\ \/ /\ Allowed(r, op, "face", source) /\ InTexture(r)
              /\ \E mapping \in {"stretch", "tile"} : Done("face", FacePatch(r, source, drawn, mapping, ink))
           \/ /\ Allowed(r, op, "texture", source)
              /\ Done("texture", TexturePatch(r, drawn, ink))
        /\ UNCHANGED uv

Init ==
    /\ pic = [p \in Grid(Canvas) |-> Blank]
    /\ uv \in Layout
    /\ paint = [n |-> 0]

Next == \E f \in DOMAIN uv, op \in Op, ink \in Ink : \E source \in Source \cup {Span(Rect(f))} : Paint(f, op, source, ink)

Spec == Init /\ [][Next]_fvars

----------------------------------------------------------------------------

Changed == {p \in Grid(Canvas) : pic[p] # paint.before[p]}

\* How far an op goes: over its box as far as its stroke is thicker than the
\* box is wide or high.
Over(line, side) == Upper(2 * line - side, 0)
Reach(op) ==
    LET b == OpBounds(op)
    IN  IF op.op = "draw_rect"
        THEN Box(b.x1 - Over(op.line, op.w), b.y1 - Over(op.line, op.h),
                 b.x2 + Over(op.line, op.w), b.y2 + Over(op.line, op.h))
        ELSE b

\* A paint changes pixels of its face only; in texture space only such as lie in
\* the box its op was admitted for, or as near to it as a stroke is too thick
\* for it; and an op that fills the source fills the face to its last pixel,
\* however the source is laid over it.
PaintIsExact ==
    paint.n > 0 =>
        /\ Changed \subseteq Area(Canvas, Rect(paint.face))
        /\ paint.space = "texture" => Changed \subseteq Area(Canvas, Reach(paint.op))
        /\ paint.space = "face" /\ Drawn(paint.source, paint.op) = Grid(paint.source) =>
             \A p \in Area(Canvas, Rect(paint.face)) : pic[p] = paint.ink

\* A paint leaves what is there, except where it puts its ink: edits can be laid
\* one over another, as the guides tell to.
LayersStay == paint.n > 0 => \A p \in Changed : pic[p] = paint.ink
=============================================================================
