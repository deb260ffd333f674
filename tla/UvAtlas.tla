------------------------------ MODULE UvAtlas ------------------------------
(***************************************************************************)
(* The plan of the UV atlas: a rectangle for every face of every texture,  *)
(* packed on shelves; a project that overflows is planned again at twice   *)
(* the resolution, and, when it may not grow, at a lower density.          *)
(*                                                                         *)
(* One step is one turn of a loop of the code: a texture begun, a face     *)
(* placed, the resolution grown, the density reduced.                      *)
(***************************************************************************)
EXTENDS Integers, Sequences, FiniteSets

CONSTANTS Face,       \* faces, numbered in the order of their keys
          Units,      \* modelUnitsPerBlock
          Requests    \* the projects planned, see Request

Size == [w : Nat, h : Nat]
Positive == Nat \ {0}

\* What a plan is made of: the faces each texture is used on, the model units of
\* each face, the faces whose cube the session does not know, the resolution,
\* its limit, the padding, the density in pixels per block, and whether the plan
\* is to be applied.
Request == [textures : Seq(SUBSET Face), dims : [Face -> Size], missing : SUBSET Face,
            width : Positive, height : Positive, maxEdge : Positive,
            padding : Nat, density : Positive, apply : BOOLEAN]

ASSUME AtlasAssumption ==
    Face \subseteq Nat /\ Units \in Positive /\ Requests \subseteq Request

VARIABLES req,              \* the request planned
          pc,               \* where the plan is
          width, height,    \* the resolution tried
          density,          \* the density tried
          tex,              \* the textures begun
          rest,             \* faces of the last of them to be placed
          x, y, row,        \* where the next face goes, and the shelf's height
          placed            \* the rectangles: [tex, face, x, y, w, h]

vars == <<req, pc, width, height, density, tex, rest, x, y, row, placed>>

----------------------------------------------------------------------------
Larger(a, b) == IF a >= b THEN a ELSE b

\* Math.round of model units at a density.
Pixels(units, d) == (2 * units * d + Units) \div (2 * Units)
\* computeExpectedUvSize has no size for a face without an area.
Derived(f, d) == Pixels(req.dims[f].w, d) > 0 /\ Pixels(req.dims[f].h, d) > 0
SizeOf(f) == [w |-> Larger(1, Pixels(req.dims[f].w, density)),
              h |-> Larger(1, Pixels(req.dims[f].h, density))]
TooLarge(f) == SizeOf(f).w > width \/ SizeOf(f).h > height

\* The order of packGroups: the highest first, then the widest, then by key.
Before(f, g) ==
    LET a == SizeOf(f)  b == SizeOf(g)
    IN \/ a.h > b.h
       \/ a.h = b.h /\ a.w > b.w
       \/ a.h = b.h /\ a.w = b.w /\ f < g

\* reducePixelsPerBlockForAtlas
Reduced(d) == IF d <= 4 THEN d - 1 ELSE Larger(1, d \div 2)
\* nextResolutionStep.
\* Fault: an edge stops at the limit.
GrownClamped(edge) == IF edge * 2 > req.maxEdge THEN req.maxEdge ELSE edge * 2
Grown(edge) == edge * 2
\* Fault: either edge may still grow.
NoneMayGrow == Grown(width) > req.maxEdge /\ Grown(height) > req.maxEdge
MayNotGrow == Grown(width) > req.maxEdge \/ Grown(height) > req.maxEdge

----------------------------------------------------------------------------
\* Where a plan of a resolution and a density begins.
Begin ==
    /\ pc' = "texture"
    /\ tex' = 0 /\ rest' = {} /\ placed' = {}
    /\ x' = 0 /\ y' = 0 /\ row' = 0

Stop(at) ==
    /\ pc' = at
    /\ UNCHANGED <<width, height, density, tex, rest, x, y, row, placed>>

\* buildGroups: the first face in the usage that has no cube, no size or too
\* large a one ends the plan; a texture without faces is passed over.
BeginTexture ==
    /\ pc = "texture" /\ tex < Len(req.textures)
    /\ LET faces == req.textures[tex + 1] IN
       \/ \E f \in faces : (f \in req.missing \/ ~ Derived(f, density)) /\ Stop("refused")
       \/ \E f \in faces : f \notin req.missing /\ Derived(f, density) /\ TooLarge(f) /\ Stop("reduce")
       \/ /\ \A f \in faces : f \notin req.missing /\ Derived(f, density) /\ ~ TooLarge(f)
          /\ tex' = tex + 1
          /\ rest' = faces
          /\ pc' = IF faces = {} THEN "texture" ELSE "place"
          /\ x' = 0 /\ y' = 0 /\ row' = 0
          /\ UNCHANGED <<width, height, density, placed>>
    /\ UNCHANGED req

\* A face that does not fit to the right begins a shelf.
BeginsShelf(f) == x + SizeOf(f).w > width
FaceY(f) == IF BeginsShelf(f) THEN y + row + req.padding ELSE y
FaceX(f) == IF BeginsShelf(f) THEN 0 ELSE x
\* Fault: a shelf is as high as its last face.
LastHeight(f) == SizeOf(f).h
ShelfHeight(f) == Larger(IF BeginsShelf(f) THEN 0 ELSE row, SizeOf(f).h)
Overflows(f) == TooLarge(f) \/ FaceY(f) + SizeOf(f).h > height

PlaceFace ==
    /\ pc = "place"
    /\ \E f \in rest :
         /\ \A g \in rest : ~ Before(g, f)
         /\ IF Overflows(f)
              THEN Stop("grow")
              ELSE /\ placed' = placed \cup {[tex |-> tex, face |-> f, x |-> FaceX(f), y |-> FaceY(f),
                                              w |-> SizeOf(f).w, h |-> SizeOf(f).h]}
                   /\ x' = FaceX(f) + SizeOf(f).w + req.padding
                   /\ y' = FaceY(f)
                   /\ row' = ShelfHeight(f)
                   /\ rest' = rest \ {f}
                   /\ pc' = IF rest = {f} THEN "texture" ELSE "place"
                   /\ UNCHANGED <<width, height, density, tex>>
    /\ UNCHANGED req

EndPlan ==
    /\ pc = "texture" /\ tex = Len(req.textures)
    /\ Stop("done")
    /\ UNCHANGED req

\* buildUvAtlasPlan's loop.
Grow ==
    /\ pc = "grow"
    /\ IF MayNotGrow
         THEN Stop("reduce")
         ELSE /\ width' = Grown(width) /\ height' = Grown(height)
              /\ Begin
              /\ UNCHANGED density
    /\ UNCHANGED req

\* buildAutoUvAtlasPlan's loop: only a plan that is to be applied gives density
\* away, and it begins at the project's resolution again.
Reduce ==
    /\ pc = "reduce"
    /\ IF req.apply /\ density > 1
         THEN /\ density' = Reduced(density)
              /\ width' = req.width /\ height' = req.height
              /\ Begin
         ELSE Stop("refused")
    /\ UNCHANGED req

Init ==
    /\ req \in Requests
    /\ pc = "texture"
    /\ width = req.width /\ height = req.height /\ density = req.density
    /\ tex = 0 /\ rest = {} /\ placed = {}
    /\ x = 0 /\ y = 0 /\ row = 0

Next == BeginTexture \/ PlaceFace \/ EndPlan \/ Grow \/ Reduce

\* The plan is one synchronous call.
Spec == Init /\ [][Next]_vars /\ WF_vars(Next)

----------------------------------------------------------------------------
TypeOK ==
    /\ req \in Requests
    /\ pc \in {"texture", "place", "grow", "reduce", "done", "refused"}
    /\ width \in Positive /\ height \in Positive /\ density \in Positive
    /\ tex \in 0..Len(req.textures)
    /\ rest \subseteq Face
    /\ x \in Nat /\ y \in Nat /\ row \in Nat
    /\ placed \subseteq [tex : Nat, face : Face, x : Nat, y : Nat, w : Positive, h : Positive]

Inside(p) == p.x + p.w <= width /\ p.y + p.h <= height
\* At least the padding apart, to the side or below.
Apart(p, q) ==
    \/ p.x + p.w + req.padding <= q.x \/ q.x + q.w + req.padding <= p.x
    \/ p.y + p.h + req.padding <= q.y \/ q.y + q.h + req.padding <= p.y

\* The rectangles of one texture lie inside the resolution and apart from each
\* other by the padding (packGroups): no pixel belongs to two faces.
RectsAreApart ==
    /\ \A p \in placed : Inside(p)
    /\ \A p, q \in placed : p.tex = q.tex /\ p # q => Apart(p, q)

\* A plan that is made has one rectangle for every face of every texture, of the
\* size its density calls for, at a resolution that may be set: whatever was
\* placed at a resolution or a density given up is gone.
PlanIsComplete ==
    pc = "done" =>
        /\ \A i \in DOMAIN req.textures :
             \A f \in req.textures[i] :
                \E p \in placed : p.tex = i /\ p.face = f
        /\ \A p \in placed : p.tex \in DOMAIN req.textures /\ p.face \in req.textures[p.tex]
        /\ \A p, q \in placed : p.tex = q.tex /\ p.face = q.face => p = q
        /\ \A p \in placed : p.w = SizeOf(p.face).w /\ p.h = SizeOf(p.face).h
        /\ width # req.width => width <= req.maxEdge /\ height <= req.maxEdge

\* Growing and reducing come to an end: every request is planned or refused.
PlanEnds == <>(pc \in {"done", "refused"})
=============================================================================
