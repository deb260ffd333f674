----------------------- MODULE TexturesAndClipsProofs -----------------------
(***************************************************************************)
(* The parts of MCTexturesAndClips, for every value of the constants: the  *)
(* atlas plan keeps rectangles apart and is complete when it is made; what *)
(* a preview puts back; the session mirrors Blockbench's clips and knows   *)
(* its textures; an atlas and a paint change no face they should keep; and *)
(* the pixels of a paint.                                                  *)
(***************************************************************************)
EXTENDS MCTexturesAndClips, FiniteSetTheorems, SequenceTheorems, WellFoundedInduction, TLAPS

\* A rounded quotient is an integer, and a size at least a pixel.
LEMMA SizeType ==
    ASSUME TypeOK, NEW f \in Face
    PROVE  SizeOf(f) \in [w : Positive, h : Positive]
<1>1. req \in Request /\ Units \in Positive /\ density \in Positive
  BY AtlasAssumption DEF TypeOK
<1>2. req.dims[f].w \in Nat /\ req.dims[f].h \in Nat
  BY <1>1 DEF Request, Size
<1>3. \A u \in Nat, d \in Positive : Pixels(u, d) \in Int
  <2> SUFFICES ASSUME NEW u \in Nat, NEW d \in Positive PROVE Pixels(u, d) \in Int
    OBVIOUS
  <2>1. \A a \in Int, b \in Int : a * b \in Int
    OBVIOUS
  <2>2. 2 * u * d \in Int
    BY <2>1 DEF Positive
  <2>3. \A a \in Int, b \in Positive : a \div b \in Int
    BY DEF Positive
  <2>4. 2 * Units \in Positive /\ 2 * u * d + Units \in Int
    BY <1>1, <2>2 DEF Positive
  <2> QED BY <2>3, <2>4 DEF Pixels
<1>4. \A n \in Int : Larger(1, n) \in Positive
  BY DEF Larger, Positive
<1> QED BY <1>1, <1>2, <1>3, <1>4 DEF SizeOf

\* What a step that only stops leaves alone.
LEMMA StopType ==
    ASSUME TypeOK, NEW at, at \in {"done", "refused", "reduce", "grow"}, Stop(at), UNCHANGED req
    PROVE  TypeOK'
BY DEF TypeOK, Stop

LEMMA ReducedType == \A d \in Positive : d > 1 => Reduced(d) \in Positive
<1> SUFFICES ASSUME NEW d \in Positive, d > 1 PROVE Reduced(d) \in Positive
  OBVIOUS
<1>1. d \div 2 \in Int
  BY DEF Positive
<1> QED BY <1>1 DEF Reduced, Larger, Positive

LEMMA InitType == Init => TypeOK
BY AtlasAssumption DEF Init, TypeOK, Request, Positive

LEMMA BeginTextureType == ASSUME TypeOK, BeginTexture PROVE TypeOK'
<1> DEFINE faces == req.textures[tex + 1]
<1>1. req \in Request /\ req.textures \in Seq(SUBSET Face)
  BY AtlasAssumption DEF TypeOK, Request
<1>2. tex + 1 \in 1..Len(req.textures) /\ faces \subseteq Face
  BY <1>1 DEF TypeOK, BeginTexture
<1>3. CASE Stop("refused") BY <1>3, StopType DEF BeginTexture
<1>4. CASE Stop("reduce") BY <1>4, StopType DEF BeginTexture
<1>5. CASE /\ tex' = tex + 1 /\ rest' = faces
           /\ pc' = IF faces = {} THEN "texture" ELSE "place"
           /\ x' = 0 /\ y' = 0 /\ row' = 0
           /\ UNCHANGED <<req, width, height, density, placed>>
  BY <1>2, <1>5 DEF TypeOK
<1> QED BY <1>3, <1>4, <1>5 DEF BeginTexture

\* The step that adds a rectangle, apart from those that stop.
Placing(f) ==
    /\ pc = "place" /\ f \in rest /\ ~ Overflows(f)
    /\ placed' = placed \cup {[tex |-> tex, face |-> f, x |-> FaceX(f), y |-> FaceY(f),
                               w |-> SizeOf(f).w, h |-> SizeOf(f).h]}
    /\ x' = FaceX(f) + SizeOf(f).w + req.padding
    /\ y' = FaceY(f)
    /\ row' = ShelfHeight(f)
    /\ rest' = rest \ {f}
    /\ pc' = IF rest = {f} THEN "texture" ELSE "place"
    /\ UNCHANGED <<req, width, height, density, tex>>

LEMMA PlaceFaceCases ==
    ASSUME PlaceFace
    PROVE  (Stop("grow") /\ UNCHANGED req) \/ (\E f \in rest : Placing(f))
BY DEF PlaceFace, Placing

\* Where a face goes is on the shelf or below it, at a natural place.
LEMMA PlaceType ==
    ASSUME TypeOK, NEW f \in rest
    PROVE  /\ f \in Face /\ req.padding \in Nat
           /\ SizeOf(f).w \in Positive /\ SizeOf(f).h \in Positive
           /\ FaceX(f) \in Nat /\ FaceY(f) \in Nat /\ ShelfHeight(f) \in Nat
<1>1. f \in Face /\ req \in Request
  BY AtlasAssumption DEF TypeOK
<1>2. SizeOf(f) \in [w : Positive, h : Positive]
  BY <1>1, SizeType
<1>3. req.padding \in Nat
  BY <1>1 DEF Request
<1>4. SizeOf(f).w \in Positive /\ SizeOf(f).h \in Positive
  BY <1>2
<1>5. x \in Nat /\ y \in Nat /\ row \in Nat
  BY DEF TypeOK
<1> QED BY <1>1, <1>3, <1>4, <1>5 DEF FaceX, FaceY, ShelfHeight, Larger, Positive

LEMMA PlaceFaceType == ASSUME TypeOK, PlaceFace PROVE TypeOK'
<1>1. CASE Stop("grow") /\ UNCHANGED req BY <1>1, StopType
<1>2. ASSUME NEW f \in rest, Placing(f) PROVE TypeOK'
  <2> DEFINE n == [tex |-> tex, face |-> f, x |-> FaceX(f), y |-> FaceY(f),
                   w |-> SizeOf(f).w, h |-> SizeOf(f).h]
  <2>1. f \in Face /\ req.padding \in Nat /\ SizeOf(f).w \in Positive /\ SizeOf(f).h \in Positive
        /\ FaceX(f) \in Nat /\ FaceY(f) \in Nat /\ ShelfHeight(f) \in Nat
    BY <1>2, PlaceType
  <2>2. tex \in Nat
    BY AtlasAssumption DEF TypeOK, Request
  <2>3. n \in [tex : Nat, face : Face, x : Nat, y : Nat, w : Positive, h : Positive]
    BY <2>1, <2>2
  <2>4. placed' \subseteq [tex : Nat, face : Face, x : Nat, y : Nat, w : Positive, h : Positive]
    BY <1>2, <2>3 DEF Placing, TypeOK
  <2>5. x' \in Nat /\ y' \in Nat /\ row' \in Nat
    BY <1>2, <2>1 DEF Placing, Positive
  <2> QED BY <1>2, <2>4, <2>5 DEF Placing, TypeOK
<1> QED BY <1>1, <1>2, PlaceFaceCases

LEMMA GrowType == ASSUME TypeOK, Grow PROVE TypeOK'
<1>1. CASE Stop("reduce") BY <1>1, StopType DEF Grow
<1>2. CASE width' = Grown(width) /\ height' = Grown(height) /\ Begin /\ UNCHANGED density
  <2>1. width' \in Positive /\ height' \in Positive
    BY <1>2 DEF TypeOK, Grown, Positive
  <2>2. 0 \in 0..Len(req.textures)
    BY DEF TypeOK
  <2> QED BY <1>2, <2>1, <2>2 DEF TypeOK, Begin, Grow
<1> QED BY <1>1, <1>2 DEF Grow

LEMMA ReduceType == ASSUME TypeOK, Reduce PROVE TypeOK'
<1>1. CASE Stop("refused") BY <1>1, StopType DEF Reduce
<1>2. CASE density > 1 /\ density' = Reduced(density) /\ width' = req.width /\ height' = req.height /\ Begin
  <2>1. density' \in Positive
    BY <1>2, ReducedType DEF TypeOK
  <2>2. width' \in Positive /\ height' \in Positive
    BY <1>2, AtlasAssumption DEF TypeOK, Request
  <2>3. 0 \in 0..Len(req.textures)
    BY DEF TypeOK
  <2> QED BY <1>2, <2>1, <2>2, <2>3 DEF TypeOK, Begin, Reduce
<1> QED BY <1>1, <1>2 DEF Reduce

LEMMA NextType == ASSUME TypeOK, [Next]_vars PROVE TypeOK'
<1>1. CASE BeginTexture BY <1>1, BeginTextureType
<1>2. CASE PlaceFace BY <1>2, PlaceFaceType
<1>3. CASE EndPlan BY <1>3, StopType DEF EndPlan
<1>4. CASE Grow BY <1>4, GrowType
<1>5. CASE Reduce BY <1>5, ReduceType
<1>6. CASE UNCHANGED vars BY <1>6 DEF vars, TypeOK
<1> QED BY <1>1, <1>2, <1>3, <1>4, <1>5, <1>6 DEF Next

\* The variables of the planner keep their types for every project.
THEOREM TypeCorrect == Spec => []TypeOK
BY InitType, NextType, PTL DEF Spec

----------------------------------------------------------------------------
(* The atlas plan (UvAtlas): rectangles stay apart                         *)

\* A rectangle of the texture being packed lies on a shelf above, or on this
\* one and left of where the next face goes.
Above(p) == p.y + p.h + req.padding <= y
OnShelf(p) == p.y = y /\ p.h <= row /\ p.x + p.w + req.padding <= x
ShelfInv ==
    /\ \A p \in placed : p.tex <= tex
    /\ pc = "place" => \A p \in placed : p.tex = tex => Above(p) \/ OnShelf(p)
ApartInv == RectsAreApart /\ ShelfInv

LEMMA NewRectangle ==
    ASSUME TypeOK, ApartInv, NEW f \in rest, Placing(f), NEW p \in placed, p.tex = tex
    PROVE  /\ p.y + p.h + req.padding <= FaceY(f) \/ p.x + p.w + req.padding <= FaceX(f)
           /\ Above(p)' \/ OnShelf(p)'
<1>1. f \in Face /\ req.padding \in Nat /\ SizeOf(f).w \in Positive /\ SizeOf(f).h \in Positive
      /\ FaceX(f) \in Nat /\ FaceY(f) \in Nat /\ ShelfHeight(f) \in Nat
  BY PlaceType
<1>2. p.x \in Nat /\ p.y \in Nat /\ p.w \in Positive /\ p.h \in Positive
  BY DEF TypeOK
<1>3. x \in Nat /\ y \in Nat /\ row \in Nat
  BY DEF TypeOK
<1>4. Above(p) \/ OnShelf(p)
  BY DEF ApartInv, ShelfInv, Placing
<1>5. x' = FaceX(f) + SizeOf(f).w + req.padding /\ y' = FaceY(f) /\ row' = ShelfHeight(f) /\ req' = req
  BY DEF Placing
<1>6. CASE BeginsShelf(f)
  <2>1. FaceY(f) = y + row + req.padding
    BY <1>6 DEF FaceY
  <2>2. p.y + p.h + req.padding <= FaceY(f)
    BY <2>1, <1>1, <1>2, <1>3, <1>4 DEF Above, OnShelf, Positive
  <2> QED BY <2>2, <1>5 DEF Above
<1>7. CASE ~ BeginsShelf(f)
  <2>1. FaceY(f) = y /\ FaceX(f) = x /\ row <= ShelfHeight(f)
    BY <1>7, <1>1, <1>3 DEF FaceY, FaceX, ShelfHeight, Larger, Positive
  <2>2. CASE Above(p) BY <2>1, <2>2, <1>5 DEF Above
  <2>3. CASE OnShelf(p)
    <3>1. p.x + p.w + req.padding <= FaceX(f)
      BY <2>1, <2>3 DEF OnShelf
    <3>2. p.y = y' /\ p.h <= row' /\ p.x + p.w + req.padding <= x'
      BY <2>1, <2>3, <1>1, <1>2, <1>3, <1>5 DEF OnShelf, Positive
    <3> QED BY <3>1, <3>2, <1>5 DEF OnShelf
  <2> QED BY <1>4, <2>2, <2>3
<1> QED BY <1>6, <1>7

LEMMA PlacingApart == ASSUME TypeOK, ApartInv, NEW f \in rest, Placing(f) PROVE ApartInv'
<1>0. PICK n : n = [tex |-> tex, face |-> f, x |-> FaceX(f), y |-> FaceY(f),
                    w |-> SizeOf(f).w, h |-> SizeOf(f).h]
  OBVIOUS
<1>1. f \in Face /\ req.padding \in Nat /\ SizeOf(f).w \in Positive /\ SizeOf(f).h \in Positive
      /\ FaceX(f) \in Nat /\ FaceY(f) \in Nat /\ ShelfHeight(f) \in Nat
  BY PlaceType
<1>2. placed' = placed \cup {n} /\ UNCHANGED <<req, width, height, density, tex>>
  BY <1>0 DEF Placing
<1>3. width \in Positive /\ height \in Positive /\ tex \in Nat
  BY AtlasAssumption DEF TypeOK, Request
<1>4. Inside(n)'
  <2>1. SizeOf(f).w <= width /\ FaceY(f) + SizeOf(f).h <= height
    BY <1>1, <1>3 DEF Placing, Overflows, TooLarge, Positive
  <2>2. FaceX(f) + SizeOf(f).w <= width
    BY <2>1, <1>1, <1>3 DEF FaceX, BeginsShelf, TypeOK, Positive
  <2> QED BY <2>1, <2>2, <1>0, <1>2 DEF Inside
<1>5. \A p \in placed' : Inside(p)'
  BY <1>2, <1>4 DEF ApartInv, RectsAreApart, Inside
<1>6. \A p \in placed : p.tex = n.tex => Apart(p, n)' /\ Apart(n, p)'
  BY <1>0, <1>2, NewRectangle DEF Apart
<1>7. \A p, q \in placed' : p.tex = q.tex /\ p # q => Apart(p, q)'
  <2> SUFFICES ASSUME NEW p \in placed', NEW q \in placed', p.tex = q.tex, p # q PROVE Apart(p, q)'
    OBVIOUS
  <2>1. CASE p \in placed /\ q \in placed
    BY <2>1, <1>2 DEF ApartInv, RectsAreApart, Apart
  <2>2. CASE p = n /\ q \in placed BY <2>2, <1>6
  <2>3. CASE q = n /\ p \in placed BY <2>3, <1>6
  <2> QED BY <2>1, <2>2, <2>3, <1>2
<1>8. (\A p \in placed : p.tex <= tex)'
  BY <1>0, <1>2, <1>3 DEF ApartInv, ShelfInv
<1>9. \A p \in placed' : p.tex = tex => Above(p)' \/ OnShelf(p)'
  <2>1. OnShelf(n)'
    <3>1. SizeOf(f).h <= ShelfHeight(f)
      BY <1>1 DEF ShelfHeight, Larger, TypeOK, Positive
    <3>2. y' = FaceY(f) /\ row' = ShelfHeight(f) /\ x' = FaceX(f) + SizeOf(f).w + req.padding
      BY DEF Placing
    <3> QED BY <3>1, <3>2, <1>0, <1>1, <1>2 DEF OnShelf, Positive
  <2> QED BY <2>1, <1>2, NewRectangle
<1> QED BY <1>2, <1>5, <1>7, <1>8, <1>9 DEF ApartInv, RectsAreApart, ShelfInv

LEMMA StopApart ==
    ASSUME ApartInv, NEW at, at # "place", Stop(at), UNCHANGED req
    PROVE  ApartInv'
BY DEF ApartInv, ShelfInv, RectsAreApart, Inside, Apart, Stop

LEMMA BeginApart == ASSUME Begin PROVE ApartInv'
BY DEF Begin, ApartInv, ShelfInv, RectsAreApart

LEMMA BeginTextureApart == ASSUME TypeOK, ApartInv, BeginTexture PROVE ApartInv'
<1>1. CASE Stop("refused") \/ Stop("reduce") BY <1>1, StopApart DEF BeginTexture
<1>2. CASE /\ tex' = tex + 1 /\ UNCHANGED <<req, width, height, density, placed>>
  <2>1. \A p \in placed : p.tex \in Nat /\ p.tex <= tex /\ tex \in Nat
    BY AtlasAssumption DEF ApartInv, ShelfInv, TypeOK, Request
  <2>2. \A p \in placed' : p.tex <= tex' /\ p.tex # tex'
    BY <1>2, <2>1
  <2> QED BY <1>2, <2>2 DEF ApartInv, ShelfInv, RectsAreApart, Inside, Apart
<1> QED BY <1>1, <1>2 DEF BeginTexture

LEMMA NextApart == ASSUME TypeOK, ApartInv, [Next]_vars PROVE ApartInv'
<1>1. CASE BeginTexture BY <1>1, BeginTextureApart
<1>2. CASE PlaceFace BY <1>2, PlaceFaceCases, StopApart, PlacingApart
<1>3. CASE EndPlan BY <1>3, StopApart DEF EndPlan
<1>4. CASE Grow BY <1>4, StopApart, BeginApart DEF Grow
<1>5. CASE Reduce BY <1>5, StopApart, BeginApart DEF Reduce
<1>6. CASE UNCHANGED vars
  BY <1>6 DEF vars, ApartInv, ShelfInv, RectsAreApart, Inside, Apart, Above, OnShelf
<1> QED BY <1>1, <1>2, <1>3, <1>4, <1>5, <1>6 DEF Next

\* No two faces of a texture share a pixel, and none leaves the texture, for
\* every project, padding, resolution and density.
THEOREM AtlasIsDisjoint == Spec => []RectsAreApart
<1>1. Init => ApartInv
  BY DEF Init, ApartInv, ShelfInv, RectsAreApart
<1>2. ApartInv => RectsAreApart
  BY DEF ApartInv
<1> QED BY <1>1, <1>2, NextApart, TypeCorrect, PTL DEF Spec

----------------------------------------------------------------------------
(* The atlas plan: a plan that is made is complete                         *)

\* Every face of a texture begun is placed once or waits; what is placed has the
\* size of the density tried, since both loops drop it when they begin again.
Waits(i, f) == pc = "place" /\ i = tex /\ f \in rest
Covered ==
    pc \in {"texture", "place", "done"} =>
        \A i \in 1..tex : \A f \in req.textures[i] :
            Waits(i, f) \/ \E p \in placed : p.tex = i /\ p.face = f
Ahead == pc = "place" => /\ tex \in DOMAIN req.textures /\ rest \subseteq req.textures[tex]
                         /\ \A p \in placed : p.tex = tex => p.face \notin rest
Sound(p) == /\ p.tex \in 1..tex /\ p.face \in req.textures[p.tex]
            /\ p.w = SizeOf(p.face).w /\ p.h = SizeOf(p.face).h
Single == \A p, q \in placed : p.tex = q.tex /\ p.face = q.face => p = q
Settable == width = req.width \/ (width <= req.maxEdge /\ height <= req.maxEdge)
CoverInv ==
    /\ Covered /\ Ahead /\ Single /\ Settable
    /\ \A p \in placed : Sound(p)
    /\ pc = "done" => tex = Len(req.textures)

LEMMA TexturesType ==
    ASSUME TypeOK
    PROVE  /\ Len(req.textures) \in Nat /\ DOMAIN req.textures = 1..Len(req.textures)
           /\ tex \in Nat /\ tex <= Len(req.textures)
           /\ \A i \in DOMAIN req.textures : req.textures[i] \subseteq Face
<1>1. req.textures \in Seq(SUBSET Face)
  BY AtlasAssumption DEF TypeOK, Request
<1> QED BY <1>1 DEF TypeOK

LEMMA StopCover ==
    ASSUME CoverInv, NEW at, at \in {"refused", "reduce", "grow"}, Stop(at), UNCHANGED req
    PROVE  CoverInv'
<1>1. pc' \notin {"texture", "place", "done"}
  BY DEF Stop
<1>2. (\A p \in placed : Sound(p))'
  BY DEF CoverInv, Sound, SizeOf, Stop
<1>3. Single' /\ Settable'
  BY DEF CoverInv, Single, Settable, Stop
<1> QED BY <1>1, <1>2, <1>3 DEF CoverInv, Covered, Ahead

LEMMA BeginCover ==
    ASSUME TypeOK, Begin, Settable'
    PROVE  CoverInv'
BY DEF Begin, CoverInv, Covered, Ahead, Single

LEMMA EndPlanCover == ASSUME TypeOK, CoverInv, EndPlan PROVE CoverInv'
<1>1. pc = "texture" /\ pc' = "done" /\ tex' = Len(req'.textures)
  BY DEF EndPlan, Stop
<1>2. (\A p \in placed : Sound(p))' /\ Single' /\ Settable'
  BY DEF CoverInv, Sound, SizeOf, EndPlan, Stop, Single, Settable
<1>3. Covered'
  BY <1>1 DEF CoverInv, Covered, Waits, EndPlan, Stop
<1> QED BY <1>1, <1>2, <1>3 DEF CoverInv, Ahead

LEMMA BeginTextureCover == ASSUME TypeOK, CoverInv, BeginTexture PROVE CoverInv'
<1> DEFINE faces == req.textures[tex + 1]
<1>1. CASE Stop("refused") \/ Stop("reduce") BY <1>1, StopCover DEF BeginTexture
<1>2. CASE /\ tex' = tex + 1 /\ rest' = faces
           /\ pc' = IF faces = {} THEN "texture" ELSE "place"
           /\ UNCHANGED <<req, width, height, density, placed>>
  <2>1. pc = "texture" /\ tex \in Nat /\ tex + 1 \in DOMAIN req.textures
    BY TexturesType DEF BeginTexture
  <2>2. \A p \in placed : p.tex \in 1..tex
    BY DEF CoverInv, Sound
  <2>3. (\A p \in placed : Sound(p))'
    <3> SUFFICES ASSUME NEW p \in placed PROVE Sound(p)'
      BY <1>2
    <3>1. Sound(p)
      BY DEF CoverInv
    <3> QED BY <1>2, <2>1, <3>1 DEF Sound, SizeOf
  <2>4. Single' /\ Settable'
    BY <1>2 DEF CoverInv, Single, Settable
  <2>5. Ahead'
    BY <1>2, <2>1, <2>2 DEF Ahead
  <2>6. Covered'
    <3> SUFFICES ASSUME NEW i \in 1..(tex + 1), NEW f \in req.textures[i]
                 PROVE  Waits(i, f)' \/ \E p \in placed : p.tex = i /\ p.face = f
      BY <1>2 DEF Covered
    <3>1. CASE i = tex + 1 BY <1>2, <3>1 DEF Waits
    <3>2. CASE i \in 1..tex BY <2>1, <3>2 DEF CoverInv, Covered, Waits
    <3> QED BY <2>1, <3>1, <3>2
  <2> QED BY <1>2, <2>3, <2>4, <2>5, <2>6 DEF CoverInv
<1> QED BY <1>1, <1>2 DEF BeginTexture

LEMMA PlacingCover == ASSUME TypeOK, CoverInv, NEW f \in rest, Placing(f) PROVE CoverInv'
<1>0. PICK n : n = [tex |-> tex, face |-> f, x |-> FaceX(f), y |-> FaceY(f),
                    w |-> SizeOf(f).w, h |-> SizeOf(f).h]
  OBVIOUS
<1>1. /\ pc = "place" /\ placed' = placed \cup {n} /\ rest' = rest \ {f}
      /\ pc' = IF rest = {f} THEN "texture" ELSE "place"
      /\ UNCHANGED <<req, width, height, density, tex>>
  BY <1>0 DEF Placing
<1>2. tex \in 1..tex /\ tex \in DOMAIN req.textures /\ f \in req.textures[tex]
      /\ \A p \in placed : p.tex = tex => p.face # f
  BY <1>1, TexturesType DEF CoverInv, Ahead
<1>3. \A g : SizeOf(g)' = SizeOf(g)
  BY <1>1 DEF SizeOf
<1>4. (\A p \in placed : Sound(p))'
  BY <1>0, <1>1, <1>2, <1>3 DEF CoverInv, Sound
<1>5. Single'
  BY <1>0, <1>1, <1>2 DEF CoverInv, Single
<1>6. Ahead' /\ Settable'
  BY <1>0, <1>1 DEF CoverInv, Ahead, Settable
<1>7. Covered'
  <2> SUFFICES ASSUME NEW i \in 1..tex, NEW g \in req.textures[i]
               PROVE  Waits(i, g)' \/ \E p \in placed' : p.tex = i /\ p.face = g
    BY <1>1 DEF Covered
  <2>1. Waits(i, g) \/ \E p \in placed : p.tex = i /\ p.face = g
    BY <1>1 DEF CoverInv, Covered
  <2>2. CASE \E p \in placed : p.tex = i /\ p.face = g BY <2>2, <1>1
  <2>3. CASE i = tex /\ g = f BY <2>3, <1>0, <1>1
  <2>4. CASE i = tex /\ g \in rest /\ g # f BY <2>4, <1>1 DEF Waits
  <2> QED BY <2>1, <2>2, <2>3, <2>4 DEF Waits
<1> QED BY <1>1, <1>4, <1>5, <1>6, <1>7 DEF CoverInv

LEMMA GrowCover == ASSUME TypeOK, CoverInv, Grow PROVE CoverInv'
<1>1. CASE Stop("reduce") BY <1>1, StopCover DEF Grow
<1>2. CASE ~ MayNotGrow /\ width' = Grown(width) /\ height' = Grown(height) /\ Begin
  <2>1. req.maxEdge \in Nat /\ Grown(width) \in Nat /\ Grown(height) \in Nat
    BY AtlasAssumption DEF TypeOK, Request, Grown, Positive
  <2>2. Settable'
    BY <1>2, <2>1 DEF Settable, MayNotGrow, Grow
  <2> QED BY <1>2, <2>2, BeginCover
<1> QED BY <1>1, <1>2 DEF Grow

LEMMA ReduceCover == ASSUME TypeOK, CoverInv, Reduce PROVE CoverInv'
<1>1. CASE Stop("refused") BY <1>1, StopCover DEF Reduce
<1>2. CASE width' = req.width /\ Begin
  BY <1>2, BeginCover DEF Settable, Reduce
<1> QED BY <1>1, <1>2 DEF Reduce

LEMMA NextCover == ASSUME TypeOK, CoverInv, [Next]_vars PROVE CoverInv'
<1>1. CASE BeginTexture BY <1>1, BeginTextureCover
<1>2. CASE PlaceFace BY <1>2, PlaceFaceCases, StopCover, PlacingCover
<1>3. CASE EndPlan BY <1>3, EndPlanCover
<1>4. CASE Grow BY <1>4, GrowCover
<1>5. CASE Reduce BY <1>5, ReduceCover
<1>6. CASE UNCHANGED vars
  BY <1>6 DEF vars, CoverInv, Covered, Ahead, Single, Settable, Sound, SizeOf, Waits
<1> QED BY <1>1, <1>2, <1>3, <1>4, <1>5, <1>6 DEF Next

\* A plan that is made has one rectangle of the right size for every face and a
\* resolution within the limit, whatever was given up before.
THEOREM PlanCorrect == Spec => []PlanIsComplete
<1>1. Init => CoverInv
  BY DEF Init, CoverInv, Covered, Ahead, Single, Settable
<1>2. ASSUME TypeOK, CoverInv PROVE PlanIsComplete
  BY <1>2, TexturesType DEF CoverInv, Covered, Waits, Single, Sound, Settable, PlanIsComplete
<1> QED BY <1>1, <1>2, NextCover, TypeCorrect, PTL DEF Spec

-----------------------------------------------------------------------------
(* The preview (Preview, in the behaviours of MCTexturesAndClips).         *)

\* Among some natural numbers there is a least one.
LEMMA Least ==
    ASSUME NEW S \in SUBSET Nat, NEW n \in S
    PROVE  \E m \in S : \A k \in S : m <= k
<1>1. PICK m \in S : \A k \in S : ~(<<k, m>> \in OpToRel(<, Nat))
  BY WFMin, NatLessThanWellFounded, Zenon
<1>2. \A k \in S : ~(k < m)
  BY <1>1, Zenon DEF OpToRel
<1> QED BY <1>2

View == [yaw : 0..Turn - 1, roll : 0..Turn - 1, selected : Clip \cup {None}, time : [Clip -> Nat]]
CameraType ==
    /\ order \in [1..Cardinality(Clip) -> Clip] /\ title \in [Clip -> ClipName]
    /\ view \in View
CameraInv == CameraType /\ Camera!ViewIsRestored /\ Camera!FramesGoRound

\* A clip found by its name is one.
LEMMA FirstType ==
    ASSUME CameraType, NEW name
    PROVE  Camera!First(name) \in Clip \cup {None}
<1>1. Camera!Cardinality(Clip) = Cardinality(Clip) /\ Cardinality(Clip) \in Nat
  BY PreviewAssumption, FS_CardinalityType DEF Camera!Cardinality, Cardinality
<1> DEFINE at == {i \in DOMAIN order : title[order[i]] = name}
<1>2. CASE at = {}
  BY <1>2 DEF Camera!First
<1>3. CASE at # {}
  <2>1. at \in SUBSET Nat
    BY <1>1 DEF CameraType
  <2>2. \E i \in at : \A j \in at : i <= j
    <3> HIDE DEF at
    <3> QED BY <1>3, <2>1, Least
  <2>3. (CHOOSE i \in at : \A j \in at : i <= j) \in DOMAIN order
    BY <2>2
  <2> QED BY <1>3, <2>3 DEF Camera!First, CameraType
<1> QED BY <1>2, <1>3

LEMMA FoundType ==
    ASSUME CameraType, NEW name
    PROVE  Camera!Found(name) \in Clip \cup {None}
BY FirstType DEF Camera!Found

\* A view that differs from the user's in the camera, the clip posed and that
\* clip's time, or in less.
Near(v, name) ==
    /\ v \in View /\ v.selected \in {view.selected, Camera!Found(name)}
    /\ \A c \in Clip \ {Camera!Found(name)} : v.time[c] = view.time[c]

\* A clip is selected and nothing else changes.
LEMMA SelectType ==
    ASSUME NEW v \in View, NEW clip \in Clip, NEW time \in Nat
    PROVE  LET w == Camera!Select(v, clip, time)
           IN  /\ w \in View /\ w.yaw = v.yaw /\ w.roll = v.roll
               /\ w.selected = clip /\ w.time[clip] = time
               /\ \A c \in Clip \ {clip} : w.time[c] = v.time[c]
BY DEF View, Camera!Select

\* The pictures are taken with a view of the right kind, and posing turns
\* nothing.
LEMMA PosedType ==
    ASSUME CameraType, NEW name, NEW time \in Nat, name = None \/ Camera!First(name) # None
    PROVE  LET v == Camera!Posed(view, name, time)
           IN  v \in View /\ v.yaw = view.yaw /\ v.roll = view.roll /\ Near(v, name)
<1>1. MaxTime \in Nat
  BY PreviewAssumption
<1>2. CASE name = None
  BY <1>2 DEF Camera!Posed, CameraType, Near
<1>3. CASE name # None
  <2> DEFINE to == IF time > MaxTime THEN MaxTime ELSE time
  <2>1. to \in Nat /\ Camera!First(name) \in Clip /\ view \in View
    BY <1>1, <1>3, FirstType DEF CameraType
  <2> DEFINE clip == Camera!First(name)
  <2>2. Camera!Posed(view, name, time) = Camera!Select(view, clip, to)
    BY <1>3 DEF Camera!Posed
  <2>3. Camera!Found(name) = clip
    BY <1>3 DEF Camera!Found
  <2>4. clip \in Clip /\ to \in Nat /\ view \in View
    BY <2>1
  <2> HIDE DEF to, clip
  <2> DEFINE w == Camera!Select(view, clip, to)
  <2>5. /\ w \in View /\ w.yaw = view.yaw /\ w.roll = view.roll /\ w.selected = clip
        /\ \A c \in Clip \ {clip} : w.time[c] = view.time[c]
    BY <2>4, SelectType
  <2> HIDE DEF w
  <2>6. Near(w, name)
    BY <2>3, <2>5 DEF Near
  <2>7. Camera!Posed(view, name, time) = w
    BY <2>2 DEF w
  <2> QED BY <2>5, <2>6, <2>7
<1> QED BY <1>2, <1>3

LEMMA TurnedType ==
    ASSUME NEW v \in View, NEW yaw \in Int, NEW roll \in Int
    PROVE  /\ Camera!Turned(v, yaw, roll) \in View /\ Camera!Turned(v, yaw, roll).yaw = (v.yaw + yaw) % Turn
           /\ \A name : Near(v, name) => Near(Camera!Turned(v, yaw, roll), name)
<1>1. \A n \in Int : n % Turn \in 0..Turn - 1
  BY PreviewAssumption
<1>2. v.yaw + yaw \in Int /\ v.roll + roll \in Int
  BY PreviewAssumption DEF View
<1>3. Camera!Turned(v, yaw, roll) \in View /\ Camera!Turned(v, yaw, roll).yaw = (v.yaw + yaw) % Turn
  BY <1>1, <1>2 DEF Camera!Turned, View
<1>4. Camera!Turned(v, yaw, roll).selected = v.selected /\ Camera!Turned(v, yaw, roll).time = v.time
  BY DEF Camera!Turned, View
<1> QED BY <1>3, <1>4 DEF Near

\* What restoring restores, of whatever view the call got to.
Again == IF view.selected = None THEN None ELSE Camera!First(title[view.selected])
IsBack(w, name) ==
    /\ w \in View /\ w.yaw = view.yaw /\ w.roll = view.roll
    /\ \A c \in Clip \ {Camera!Found(name), Again} : w.time[c] = view.time[c]
    /\ Again = None => w.selected \in {view.selected, Camera!Found(name)}
    /\ Again # None => w.selected = Again /\ w.time[Again] = view.time[view.selected]
LEMMA RestoredType ==
    ASSUME CameraType, NEW v, NEW name, Near(v, name)
    PROVE  IsBack(Camera!Restored(v), name)
<1> DEFINE u == [[v EXCEPT !.yaw = view.yaw] EXCEPT !.roll = view.roll]
           clip == Camera!Found(Camera!SelectedName)
           time == view.time[view.selected]
<1>1. /\ u \in View /\ u.yaw = view.yaw /\ u.roll = view.roll
      /\ u.selected = v.selected /\ u.time = v.time
  BY DEF View, CameraType, Near
<1>2. clip \in Clip \cup {None}
  BY FoundType
<1>3. view.selected # None => /\ Camera!SelectedName = title[view.selected] /\ Camera!SelectedName # None
                              /\ time \in Nat
  BY PreviewAssumption DEF Camera!SelectedName, CameraType, View
<1>4. clip = Again
  BY <1>3 DEF Camera!SelectedName, Camera!Found, Again
<1>5. Camera!Restored(v) = IF clip = None THEN u ELSE Camera!Select(u, clip, time)
  BY DEF Camera!Restored, View, Near
<1>6. clip # None => view.selected # None
  BY <1>4 DEF Again
<1> HIDE DEF u, clip, time
<1>7. CASE clip = None
  BY <1>1, <1>4, <1>5, <1>7 DEF IsBack, Near
<1>8. CASE clip # None
  <2>1. clip \in Clip /\ time \in Nat
    BY <1>2, <1>3, <1>6, <1>8
  <2>2. LET w == Camera!Select(u, clip, time)
        IN  /\ w \in View /\ w.yaw = u.yaw /\ w.roll = u.roll
            /\ w.selected = clip /\ w.time[clip] = time
            /\ \A c \in Clip \ {clip} : w.time[c] = u.time[c]
    BY <1>1, <2>1, SelectType
  <2> QED BY <1>1, <1>4, <1>5, <1>8, <2>2 DEF time, IsBack, Near
<1> QED BY <1>7, <1>8

\* The frames of a call, and the rest of what its answer is about.
Rounded(frames, asked) ==
    Len(frames) > 1 =>
        LET n == Len(frames) IN
        /\ n = Camera!Frames(asked)
        /\ frames[1].yaw = view.yaw
        /\ {f.yaw : f \in {frames[i] : i \in 1..n}} = {(view.yaw + i * (Turn \div n)) % Turn : i \in 0..n - 1}

LEMMA EndsInv ==
    ASSUME CameraInv, NEW v, NEW name, Near(v, name), NEW result, NEW frames, NEW files, NEW asked,
           result = "ok" => Rounded(frames, asked),
           Camera!Ends(v, name, result, frames, files, asked)
    PROVE  CameraInv'
<1>1. view \in View /\ UNCHANGED <<order, title>>
  BY DEF CameraInv, CameraType, Camera!Ends
<1>4. \A n : Camera!First(n)' = Camera!First(n) /\ Camera!Found(n)' = Camera!Found(n)
  BY <1>1 DEF Camera!First, Camera!Found
<1>2. CASE /\ view' = Camera!Restored(v)
           /\ shot' = [result |-> result, clip |-> name, frames |-> frames, files |-> files, asked |-> asked, before |-> view]
  <2> DEFINE w == Camera!Restored(v)
  <2>1. IsBack(w, name)
    BY RestoredType DEF CameraInv
  <2> HIDE DEF w
  <2>2. view' = w
    BY <1>2 DEF w
  <2>3. /\ shot'.result = result /\ shot'.clip = name /\ shot'.frames = frames
        /\ shot'.asked = asked /\ shot'.before = view
    BY <1>2
  <2>5. Camera!ViewIsRestored'
    BY <1>1, <1>4, <2>1, <2>2, <2>3 DEF Camera!ViewIsRestored, IsBack, Again
  <2>6. Camera!FramesGoRound'
    BY <2>3 DEF Camera!FramesGoRound, Rounded, Camera!Frames
  <2> QED BY <1>1, <2>1, <2>2, <2>5, <2>6 DEF CameraInv, CameraType, IsBack
<1>3. CASE /\ Camera!SelectedName # None
           /\ \E clip \in {v.selected, Camera!Found(Camera!SelectedName)} :
                view' = [v EXCEPT !.yaw = view.yaw, !.roll = view.roll, !.selected = clip]
           /\ shot' = [result |-> "threw", clip |-> name, frames |-> <<>>, files |-> 0, asked |-> asked, before |-> view]
  <2>1. PICK clip \in {v.selected, Camera!Found(Camera!SelectedName)} :
          view' = [v EXCEPT !.yaw = view.yaw, !.roll = view.roll, !.selected = clip]
    BY <1>3
  <2>2. v \in View /\ clip \in Clip \cup {None}
    BY FoundType DEF CameraInv, Near, View
  <2>3. /\ view' \in View /\ view'.yaw = view.yaw /\ view'.roll = view.roll
        /\ view'.selected = clip /\ view'.time = v.time
    BY <1>1, <2>1, <2>2 DEF View
  <2>4. Camera!Found(Camera!SelectedName) = Again
    BY <1>1, <1>3 DEF Camera!SelectedName, Camera!Found, Again
  <2>5. clip \in {view.selected, Camera!Found(name), Again}
    BY <2>1, <2>4 DEF Near
  <2>6. \A c \in Clip \ {Camera!Found(name), Again} : v.time[c] = view.time[c]
    BY DEF Near
  <2>7. shot'.result = "threw" /\ shot'.clip = name /\ shot'.before = view
    BY <1>3
  <2>8. Camera!ViewIsRestored'
    BY <1>1, <1>4, <2>3, <2>5, <2>6, <2>7 DEF Camera!ViewIsRestored, Again
  <2> QED BY <1>1, <2>3, <2>7, <2>8 DEF CameraInv, CameraType, Camera!FramesGoRound
<1> QED BY <1>2, <1>3 DEF Camera!Ends

LEMMA SavedInv ==
    ASSUME CameraInv, NEW v, NEW name, Near(v, name), NEW frames, NEW save, NEW asked, Rounded(frames, asked),
           Camera!Saved(v, name, frames, save, asked)
    PROVE  CameraInv'
<1>1. PICK result, taken, files : /\ result = "ok" => taken = frames
                                  /\ Camera!Ends(v, name, result, taken, files, asked)
  BY DEF Camera!Saved
<1>2. result = "ok" => Rounded(taken, asked)
  BY <1>1
<1> QED BY <1>1, <1>2, EndsInv

LEMMA FixedInv ==
    ASSUME CameraInv, NEW pose \in Camera!Pose, NEW angle \in {0, 1}, NEW save,
           Camera!RenderFixed(pose[1], pose[2], angle, angle, save)
    PROVE  CameraInv'
<1> DEFINE posed == Camera!Posed(view, pose[1], pose[2])
           turned == Camera!Turned(posed, angle, angle)
<1>1. pose[2] \in Nat /\ view \in View /\ CameraType
  BY PreviewAssumption DEF Camera!Pose, CameraInv, CameraType
<1>4. Near(view, pose[1])
  BY <1>1 DEF Near
<1>2. CASE Camera!Ends(view, pose[1], "failed", <<>>, 0, 1)
  BY <1>4, <1>2, EndsInv
<1>3. CASE /\ pose[1] # None => Camera!First(pose[1]) # None
           /\ \/ \E v \in {view, posed, turned} : Camera!Ends(v, pose[1], "failed", <<>>, 0, 1)
              \/ Camera!Saved(turned, pose[1], <<turned>>, save, 1)
  <2>1. posed \in View /\ Near(posed, pose[1])
    BY <1>1, <1>3, PosedType
  <2>2. Near(turned, pose[1])
    <3> HIDE DEF posed
    <3> QED BY <2>1, TurnedType
  <2>3. ASSUME NEW v, Near(v, pose[1]), Camera!Ends(v, pose[1], "failed", <<>>, 0, 1) PROVE CameraInv'
    BY <2>3, EndsInv
  <2> HIDE DEF posed, turned
  <2>4. Rounded(<<turned>>, 1)
    BY DEF Rounded
  <2>5. Camera!Saved(turned, pose[1], <<turned>>, save, 1) => CameraInv'
    BY <2>2, <2>4, SavedInv
  <2> QED BY <1>4, <1>3, <2>1, <2>2, <2>3, <2>5
<1> QED BY <1>2, <1>3 DEF Camera!RenderFixed

\* A round of frames: a view each, evenly round the model.
LEMMA RoundType ==
    ASSUME CameraInv, NEW v \in View, v.yaw = view.yaw, NEW name, Near(v, name), NEW asked \in FrameCount
    PROVE  LET frames == Camera!Round(v, Camera!Frames(asked))
           IN  /\ Len(frames) \in Positive /\ DOMAIN frames = 1..Len(frames)
               /\ \A i \in DOMAIN frames : Near(frames[i], name)
               /\ Rounded(frames, asked)
<1> DEFINE n == Camera!Frames(asked)
           d == Turn \div n
           frames == Camera!Round(v, n)
<1>1. n \in Positive
  BY PreviewAssumption DEF Camera!Frames
<1>2. d \in Int
  BY <1>1, PreviewAssumption DEF Positive
<1> HIDE DEF n, d
<1>3. frames = [i \in 1..n |-> Camera!Turned(v, (i - 1) * d, 0)] /\ Len(frames) = n
  BY <1>1 DEF Camera!Round, d, Positive
<1>4. \A i \in 1..n : Near(frames[i], name) /\ frames[i].yaw = (view.yaw + (i - 1) * d) % Turn
  <2> SUFFICES ASSUME NEW i \in 1..n
               PROVE  Near(frames[i], name) /\ frames[i].yaw = (view.yaw + (i - 1) * d) % Turn
    OBVIOUS
  <2> DEFINE far == (i - 1) * d
  <2>1. far \in Int /\ frames[i] = Camera!Turned(v, far, 0)
    BY <1>1, <1>2, <1>3 DEF Positive
  <2> HIDE DEF frames
  <2>2. far = (i - 1) * d
    OBVIOUS
  <2> HIDE DEF far
  <2>3. far \in Int /\ 0 \in Int
    BY <2>1
  <2>4. Near(Camera!Turned(v, far, 0), name) /\ Camera!Turned(v, far, 0).yaw = (v.yaw + far) % Turn
    BY <2>3, TurnedType
  <2> QED BY <2>1, <2>2, <2>4
<1> HIDE DEF frames
<1>5. DOMAIN frames = 1..n
  BY <1>3
<1>6. frames[1].yaw = view.yaw
  <2>1. 1 \in 1..n /\ (1 - 1) * d = 0 /\ view.yaw \in 0..Turn - 1
    BY <1>1, <1>2 DEF Positive, CameraInv, CameraType, View
  <2>2. view.yaw % Turn = view.yaw
    BY <2>1, PreviewAssumption
  <2> QED BY <1>4, <2>1, <2>2
<1>7. {f.yaw : f \in {frames[i] : i \in 1..n}} = {(view.yaw + i * d) % Turn : i \in 0..n - 1}
  <2>1. {f.yaw : f \in {frames[i] : i \in 1..n}} = {(view.yaw + (i - 1) * d) % Turn : i \in 1..n}
    BY <1>4
  <2>2. \A i \in 1..n : i - 1 \in 0..n - 1
    BY <1>1 DEF Positive
  <2>3. \A i \in 0..n - 1 : i + 1 \in 1..n /\ (i + 1) - 1 = i
    BY <1>1 DEF Positive
  <2>4. {(view.yaw + (i - 1) * d) % Turn : i \in 1..n} = {(view.yaw + i * d) % Turn : i \in 0..n - 1}
    BY <2>2, <2>3
  <2> QED BY <2>1, <2>4
<1>8. Rounded(frames, asked)
  BY <1>3, <1>6, <1>7 DEF Rounded, n, d
<1> QED BY <1>1, <1>3, <1>4, <1>5, <1>8 DEF frames, n

LEMMA TurntableInv ==
    ASSUME CameraInv, NEW pose \in Camera!Pose, NEW asked \in FrameCount, NEW save,
           Camera!RenderTurntable(pose[1], pose[2], asked, save)
    PROVE  CameraInv'
<1> DEFINE posed == Camera!Posed(view, pose[1], pose[2])
           frames == Camera!Round(posed, Camera!Frames(asked))
<1>1. pose[2] \in Nat /\ view \in View /\ CameraType
  BY PreviewAssumption DEF Camera!Pose, CameraInv, CameraType
<1>2. posed \in View /\ posed.yaw = view.yaw /\ Near(posed, pose[1]) /\ Near(view, pose[1])
  <2>1. Near(view, pose[1])
    BY <1>1 DEF Near
  <2> QED BY <1>1, <2>1, PosedType DEF Camera!RenderTurntable
<1>3. \/ \E v \in {view, posed} \cup {frames[i] : i \in DOMAIN frames} : Camera!Ends(v, pose[1], "failed", <<>>, 0, asked)
      \/ Camera!Saved(frames[Len(frames)], pose[1], frames, save, asked)
  BY DEF Camera!RenderTurntable
<1> HIDE DEF posed
<1>4. /\ Len(frames) \in Positive /\ DOMAIN frames = 1..Len(frames)
      /\ \A i \in DOMAIN frames : Near(frames[i], pose[1])
      /\ Rounded(frames, asked)
  BY <1>2, RoundType
<1> HIDE DEF frames
<1>5. Len(frames) \in DOMAIN frames
  BY <1>4 DEF Positive
<1>6. ASSUME NEW v, Near(v, pose[1]), Camera!Ends(v, pose[1], "failed", <<>>, 0, asked) PROVE CameraInv'
  BY <1>6, EndsInv
<1> DEFINE last == frames[Len(frames)]
<1>7. Near(last, pose[1])
  BY <1>4, <1>5
<1> HIDE DEF last
<1>8. Camera!Saved(last, pose[1], frames, save, asked) => CameraInv'
  BY <1>4, <1>7, SavedInv
<1> QED BY <1>1, <1>2, <1>3, <1>4, <1>6, <1>8 DEF last

LEMMA LooksInv == ASSUME CameraInv, Camera!UserLooks PROVE CameraInv'
<1>1. PICK clip \in Clip \cup {None}, time \in Camera!Moment, yaw \in {0, 1} :
        view' = [IF clip = None THEN [view EXCEPT !.selected = None] ELSE Camera!Select(view, clip, time) EXCEPT !.yaw = yaw]
  BY DEF Camera!UserLooks
<1>2. time \in Nat /\ yaw \in 0..Turn - 1 /\ view \in View
  BY PreviewAssumption DEF Camera!Moment, CameraInv, CameraType
<1>3. view' \in View
  <2> DEFINE v == IF clip = None THEN [view EXCEPT !.selected = None] ELSE Camera!Select(view, clip, time)
  <2>1. v \in View
    <3>1. clip # None => Camera!Select(view, clip, time) \in View
      BY <1>2, SelectType
    <3> QED BY <1>2, <3>1 DEF View
  <2> HIDE DEF v
  <2>2. [v EXCEPT !.yaw = yaw] \in View
    BY <1>2, <2>1 DEF View
  <2> QED BY <1>1, <2>2 DEF v
<1>4. shot'.result = "none" /\ UNCHANGED <<order, title>>
  BY DEF Camera!UserLooks, Camera!NoShot
<1> QED BY <1>3, <1>4 DEF CameraInv, CameraType, Camera!ViewIsRestored, Camera!FramesGoRound

LEMMA CameraInit == Camera!Init => CameraInv
<1> SUFFICES ASSUME Camera!Init PROVE CameraInv
  OBVIOUS
<1>1. Camera!Cardinality(Clip) = Cardinality(Clip)
  BY DEF Camera!Cardinality, Cardinality
<1>2. view \in View
  BY PreviewAssumption DEF Camera!Init, View
<1>3. shot.result = "none"
  BY DEF Camera!Init, Camera!NoShot
<1> QED BY <1>1, <1>2, <1>3 DEF Camera!Init, CameraInv, CameraType, Camera!ViewIsRestored, Camera!FramesGoRound

\* After a preview, successful or not, the camera is as the user left it and the
\* clip that was selected, or the first of its name, is selected at its time;
\* nothing else moved but the clip posed, which may stay selected where none was
\* or restoring threw (Preview.ViewIsRestored).  A turntable's frames go evenly
\* round the model.
THEOREM PreviewRestoresTheView == MCSpec => []ViewIsRestored
<1> DEFINE Inv == part = "preview" => CameraInv
<1>1. MCInit => Inv
  BY CameraInit DEF MCInit
<1>2. Inv /\ [MCNext]_mcvars => Inv'
  <2> SUFFICES ASSUME part = "preview", CameraInv, [MCNext]_mcvars PROVE CameraInv'
    BY DEF MCNext, mcvars
  <2>1. CASE UNCHANGED mcvars
    <3>1. UNCHANGED <<order, title, view, shot>>
      BY <2>1 DEF mcvars, wvars
    <3>2. \A n : Camera!First(n)' = Camera!First(n) /\ Camera!Found(n)' = Camera!Found(n)
      BY <3>1 DEF Camera!First, Camera!Found
    <3>3. Camera!ViewIsRestored'
      BY <3>1, <3>2 DEF CameraInv, Camera!ViewIsRestored
    <3> QED BY <3>1, <3>3, ZenonT(40) DEF CameraInv, CameraType, Camera!FramesGoRound
  <2>2. CASE Camera!Next
    <3>1. CASE Camera!UserLooks
      BY <3>1, LooksInv
    <3>2. ASSUME NEW pose \in Camera!Pose, NEW save \in BOOLEAN, NEW angle \in {0, 1},
                 Camera!RenderFixed(pose[1], pose[2], angle, angle, save)
          PROVE  CameraInv'
      BY <3>2, FixedInv
    <3>3. ASSUME NEW pose \in Camera!Pose, NEW save \in BOOLEAN, NEW asked \in FrameCount,
                 Camera!RenderTurntable(pose[1], pose[2], asked, save)
          PROVE  CameraInv'
      BY <3>3, TurntableInv
    <3> QED BY <2>2, <3>1, <3>2, <3>3 DEF Camera!Next
  <2> QED BY <2>1, <2>2 DEF MCNext
<1>3. Inv => ViewIsRestored
  BY DEF ViewIsRestored, CameraInv
<1> QED BY <1>1, <1>2, <1>3, PTL DEF MCSpec

-----------------------------------------------------------------------------
(* Recursive functions along a sequence: they are defined, and what every  *)
(* step keeps holds at every place.                                        *)

\* What the first has and each step keeps, all have.
LEMMA Along ==
    ASSUME NEW n \in Nat, NEW Good, NEW f, f[0] \in Good,
           \A i \in 1..n : f[i-1] \in Good => f[i] \in Good
    PROVE  \A i \in 0..n : f[i] \in Good
<1> DEFINE Bad == {i \in 0..n : f[i] \notin Good}
<1>1. SUFFICES ASSUME NEW i \in Bad PROVE FALSE
  OBVIOUS
<1>2. PICK m \in Bad : \A j \in Bad : m <= j
  <2>1. Bad \in SUBSET Nat
    OBVIOUS
  <2> HIDE DEF Bad
  <2> QED BY <1>1, <2>1, Least
<1>3. m \in 1..n /\ m - 1 \in 0..n /\ m - 1 \notin Bad
  BY <1>2
<1> QED BY <1>2, <1>3

\* A step for every place makes a function.
IsRun(f, a, n, g) == f = [i \in 0..n |-> IF i = 0 THEN a ELSE g[<<i, f[i-1]>>]]
LEMMA StepByStep ==
    ASSUME NEW S, NEW a \in S, NEW n \in Nat, NEW g \in [(1..n) \X S -> S]
    PROVE  \E f \in [0..n -> S] : IsRun(f, a, n, g)
<1> USE DEF IsRun
<1> DEFINE Upto(m) == \E f \in [0..m -> S] : f = [i \in 0..m |-> IF i = 0 THEN a ELSE g[<<i, f[i-1]>>]]
           Bad == {m \in 0..n : ~Upto(m)}
<1>1. SUFFICES ASSUME NEW k \in Bad PROVE FALSE
  OBVIOUS
<1>2. PICK m \in Bad : \A j \in Bad : m <= j
  <2>1. Bad \in SUBSET Nat
    OBVIOUS
  <2> HIDE DEF Bad
  <2> QED BY <1>1, <2>1, Least
<1>3. CASE m = 0
  <2> DEFINE f == [i \in 0..0 |-> a]
  <2>1. f \in [0..0 -> S] /\ f = [i \in 0..0 |-> IF i = 0 THEN a ELSE g[<<i, f[i-1]>>]]
    OBVIOUS
  <2> QED BY <1>2, <1>3, <2>1
<1>4. CASE m # 0
  <2>1. m \in 1..n /\ m - 1 \in Nat /\ m - 1 \in 0..n /\ m - 1 \notin Bad
    BY <1>2, <1>4
  <2>2. PICK h \in [0..m-1 -> S] : h = [i \in 0..m-1 |-> IF i = 0 THEN a ELSE g[<<i, h[i-1]>>]]
    BY <2>1
  <2> DEFINE f == [i \in 0..m |-> IF i = m THEN g[<<m, h[m-1]>>] ELSE h[i]]
  <2>3. /\ f[m] = g[<<m, h[m-1]>>] /\ f[m] \in S
        /\ \A i \in 0..m-1 : f[i] = h[i] /\ f[i] \in S
    <3>1. h[m-1] \in S
      BY <2>1, <2>2
    <3> QED BY <2>1, <2>2, <3>1
  <2>4. f = [i \in 0..m |-> f[i]] /\ f \in [0..m -> S]
    <3>1. \A i \in 0..m : i = m \/ i \in 0..m-1
      BY <2>1
    <3>2. \A i \in 0..m : f[i] \in S
      BY <2>3, <3>1
    <3> QED BY <3>2
  <2> HIDE DEF f
  <2>5. ASSUME NEW i \in 0..m PROVE f[i] = IF i = 0 THEN a ELSE g[<<i, f[i-1]>>]
    <3>1. CASE i = m
      <4>1. m - 1 \in 0..m-1 /\ f[m-1] = h[m-1]
        BY <2>1, <2>3
      <4> QED BY <1>4, <2>3, <3>1, <4>1
    <3>2. CASE i # m
      <4>1. i \in 0..m-1 /\ (i # 0 => i - 1 \in 0..m-1)
        BY <2>1, <3>2
      <4> QED BY <2>2, <2>3, <4>1
    <3> QED BY <3>1, <3>2
  <2>6. f = [i \in 0..m |-> IF i = 0 THEN a ELSE g[<<i, f[i-1]>>]]
    BY <2>4, <2>5
  <2> QED BY <1>2, <2>4, <2>6
<1> QED BY <1>3, <1>4

-----------------------------------------------------------------------------
(* The clips (AnimationTools, in the behaviours of MCTexturesAndClips).    *)

Key == [bone : Bone \cup {"effects"}, time : Time, value : Value]
Entry == [name : ClipName, keys : SUBSET Key, marks : SUBSET Key]
Same(k, bone, t) == Animation!SameMoment(k, bone, t)
OneKey(keys) == \A k, l \in keys : Same(k, l.bone, l.time) => k = l
Within(k, l) == Animation!Moments(k) \subseteq Animation!Moments(l)
Matches(a, b, parted) ==
    /\ a.name = b.name /\ Within(a.marks, b.marks)
    /\ "bone" \notin parted => Within(a.keys, b.keys)
    /\ {"bone", "key"} \cap parted = {} => Within(b.keys, a.keys)
IsTable(table) ==
    \E D \in SUBSET Clip : table \in [D -> Entry] /\ \A c \in D : OneKey(table[c].keys)

\* Clips have names of their own in Blockbench, so that a tool that tells the
\* session of a clip by its name tells it of that clip.
NamesDiffer == \A c, d \in DOMAIN clips : clips[c].name = clips[d].name => c = d
Mirrored ==
    DOMAIN clips = DOMAIN tracked /\ \A c \in DOMAIN clips : Matches(clips[c], tracked[c], lapses)
\* Until a bone is renamed each group has the name it had first.
AtFirst == alias = [g \in Grouped |-> g]
AnimationInv ==
    /\ IsTable(clips) /\ IsTable(tracked) /\ NamesDiffer /\ alias \in [Grouped -> Bone]
    /\ "bone" \notin lapses => AtFirst
    /\ "clip" \notin lapses => Mirrored

LEMMA AnimationInvHolds == AnimationInv => Animation!AnimationsMirrored /\ Animation!OneKeyPerMoment
<1> SUFFICES ASSUME AnimationInv PROVE Animation!AnimationsMirrored /\ Animation!OneKeyPerMoment
  OBVIOUS
<1>1. Animation!AnimationsMirrored
  BY DEF AnimationInv, Mirrored, Matches, Within, Animation!AnimationsMirrored
<1>2. \A table \in {clips, tracked} : \A c \in DOMAIN table : OneKey(table[c].keys)
  BY DEF AnimationInv, IsTable
<1> QED BY <1>1, <1>2 DEF Animation!OneKeyPerMoment, OneKey, Same

\* One key more, or another value for the keys of a moment: the same for the
\* editor and for the session.
Put(moments, bone, t, v) ==
    {m \in moments : ~(m.bone = bone /\ m.at = Animation!Bucket(t))}
    \cup {[bone |-> bone, at |-> Animation!Bucket(t), value |-> v]}
NewKey(bone, t, v) == [bone |-> bone, time |-> t, value |-> v]

LEMMA EditorSetsKey ==
    ASSUME NEW keys \in SUBSET Key, NEW bone \in Bone \cup {"effects"}, NEW t \in Time, NEW v \in Value
    PROVE  LET after == Animation!EditorSetKey(keys, bone, t, v)
           IN  /\ after \in SUBSET Key /\ (OneKey(keys) => OneKey(after))
               /\ Animation!Moments(after) = Put(Animation!Moments(keys), bone, t, v)
<1> DEFINE found == Animation!FindExisting(keys, bone, t)
           changed == {[k EXCEPT !.value = v] : k \in found}
           after == Animation!EditorSetKey(keys, bone, t, v)
           new == NewKey(bone, t, v)
<1>1. \A k \in keys : k \in found <=> Same(k, bone, t)
  BY DEF Animation!FindExisting, Same
<1>2. \A k \in found : /\ [k EXCEPT !.value = v] \in Key /\ [k EXCEPT !.value = v].bone = k.bone
                       /\ [k EXCEPT !.value = v].time = k.time /\ [k EXCEPT !.value = v].value = v
                       /\ k.bone = bone /\ Animation!Bucket(k.time) = Animation!Bucket(t) /\ k \in keys
  BY DEF Animation!FindExisting, Animation!SameMoment, Key
<1>3. new \in Key /\ new.bone = bone /\ new.time = t /\ new.value = v
  BY DEF Key, NewKey
<1>4. after = IF found # {} THEN (keys \ found) \cup changed ELSE keys \cup {new}
  BY DEF Animation!EditorSetKey, NewKey
<1>5. \A k \in changed : /\ k \in Key /\ k.value = v /\ k.bone = bone
                         /\ Animation!Bucket(k.time) = Animation!Bucket(t)
                         /\ \E l \in found : k = [l EXCEPT !.value = v]
  <2> SUFFICES ASSUME NEW k \in changed
               PROVE  /\ k \in Key /\ k.value = v /\ k.bone = bone
                      /\ Animation!Bucket(k.time) = Animation!Bucket(t)
                      /\ \E l \in found : k = [l EXCEPT !.value = v]
    OBVIOUS
  <2>1. PICK l \in found : k = [l EXCEPT !.value = v]
    OBVIOUS
  <2> HIDE DEF found, changed
  <2>2. k.time = l.time /\ k.bone = l.bone /\ k.value = v /\ k \in Key
    BY <1>2, <2>1
  <2> QED BY <1>2, <2>1, <2>2
<1> HIDE DEF found, new, after
<1>6. after \in SUBSET Key
  BY <1>3, <1>4, <1>5
<1>7. ASSUME OneKey(keys) PROVE OneKey(after)
  <2>1. \A k, l \in found : k = l
    BY <1>2, <1>7 DEF OneKey, Same, Animation!SameMoment
  <2>2. \A k, l \in changed : k = l
    BY <1>5, <2>1
  <2>3. \A k \in keys \ found : ~(k.bone = bone /\ Animation!Bucket(k.time) = Animation!Bucket(t))
    BY <1>1 DEF Same, Animation!SameMoment
  <2> HIDE DEF changed
  <2>4. CASE found # {}
    BY <1>4, <1>5, <1>7, <2>2, <2>3, <2>4 DEF OneKey, Same, Animation!SameMoment
  <2>5. CASE found = {}
    BY <1>3, <1>4, <1>7, <2>3, <2>5 DEF OneKey, Same, Animation!SameMoment
  <2> QED BY <2>4, <2>5
<1>8. Animation!Moments(after) = Put(Animation!Moments(keys), bone, t, v)
  <2> DEFINE At(k) == [bone |-> k.bone, at |-> Animation!Bucket(k.time), value |-> k.value]
             put == [bone |-> bone, at |-> Animation!Bucket(t), value |-> v]
  <2>1. \A k : At(k).bone = k.bone /\ At(k).at = Animation!Bucket(k.time)
    OBVIOUS
  <2>2. \A k \in changed : At(k) = put
    BY <1>5
  <2>3. At(new) = put
    BY <1>3
  <2>4. /\ Animation!Moments(keys) = {At(k) : k \in keys} /\ Animation!Moments(after) = {At(k) : k \in after}
        /\ Put(Animation!Moments(keys), bone, t, v)
             = {m \in Animation!Moments(keys) : ~(m.bone = bone /\ m.at = Animation!Bucket(t))} \cup {put}
    BY DEF Animation!Moments, Put
  <2>5. \A k \in keys : k \in found <=> At(k).bone = bone /\ At(k).at = Animation!Bucket(t)
    BY <1>1, <2>1 DEF Same, Animation!SameMoment
  <2>6. found # {} => changed # {}
    OBVIOUS
  <2>7. found \subseteq keys
    BY <1>2
  <2> HIDE DEF At, put, changed
  <2>8. CASE found = {}
    <3>1. after = keys \cup {new}
      BY <1>4, <2>8
    <3>2. \A m : m \in {At(k) : k \in after} <=> m = put \/ \E k \in keys : m = At(k)
      BY <2>3, <3>1
    <3>3. \A m : m \in {l \in Animation!Moments(keys) : ~(l.bone = bone /\ l.at = Animation!Bucket(t))}
                   <=> \E k \in keys : m = At(k)
      BY <2>4, <2>5, <2>8
    <3> QED BY <2>4, <3>2, <3>3
  <2>9. CASE found # {}
    <3>1. after = (keys \ found) \cup changed
      BY <1>4, <2>9
    <3>2. \A m : m \in {At(k) : k \in after} <=> m = put \/ \E k \in keys \ found : m = At(k)
      BY <2>2, <2>6, <2>9, <3>1
    <3>3. \A m : m \in {l \in Animation!Moments(keys) : ~(l.bone = bone /\ l.at = Animation!Bucket(t))}
                   <=> \E k \in keys \ found : m = At(k)
      BY <2>4, <2>5
    <3> QED BY <2>4, <3>2, <3>3
  <2> QED BY <2>8, <2>9
<1> QED BY <1>6, <1>7, <1>8 DEF after

LEMMA SessionMergesKey ==
    ASSUME NEW keys \in SUBSET Key, NEW bone \in Bone \cup {"effects"}, NEW t \in Time, NEW v \in Value
    PROVE  LET after == Animation!MergeKey(keys, bone, t, v)
           IN  /\ after \in SUBSET Key /\ (OneKey(keys) => OneKey(after))
               /\ Animation!Moments(after) = Put(Animation!Moments(keys), bone, t, v)
<1> DEFINE after == Animation!MergeKey(keys, bone, t, v)
           others == {k \in keys : ~Animation!SameMoment(k, bone, t)}
           new == NewKey(bone, t, v)
<1>1. new \in Key /\ new.bone = bone /\ new.time = t /\ new.value = v
  BY DEF Key, NewKey
<1>2. after = others \cup {new}
  BY DEF Animation!MergeKey, NewKey
<1>3. \A k \in keys : k \in others <=> ~(k.bone = bone /\ Animation!Bucket(k.time) = Animation!Bucket(t))
  BY DEF Animation!SameMoment
<1>4. others \subseteq keys
  OBVIOUS
<1> HIDE DEF new, others, after
<1>5. after \in SUBSET Key
  BY <1>1, <1>2, <1>4
<1>6. OneKey(keys) => OneKey(after)
  BY <1>1, <1>2, <1>3, <1>4 DEF OneKey, Same, Animation!SameMoment
<1>7. Animation!Moments(after) = Put(Animation!Moments(keys), bone, t, v)
  <2> DEFINE At(k) == [bone |-> k.bone, at |-> Animation!Bucket(k.time), value |-> k.value]
             put == [bone |-> bone, at |-> Animation!Bucket(t), value |-> v]
  <2>1. \A k : At(k).bone = k.bone /\ At(k).at = Animation!Bucket(k.time)
    OBVIOUS
  <2>2. At(new) = put
    BY <1>1
  <2>3. /\ Animation!Moments(keys) = {At(k) : k \in keys} /\ Animation!Moments(after) = {At(k) : k \in after}
        /\ Put(Animation!Moments(keys), bone, t, v)
             = {m \in Animation!Moments(keys) : ~(m.bone = bone /\ m.at = Animation!Bucket(t))} \cup {put}
    BY DEF Animation!Moments, Put
  <2>4. \A k \in keys : k \in others <=> ~(At(k).bone = bone /\ At(k).at = Animation!Bucket(t))
    BY <1>3, <2>1
  <2> HIDE DEF At, put
  <2>5. \A m : m \in {At(k) : k \in after} <=> m = put \/ \E k \in others : m = At(k)
    BY <1>2, <2>2
  <2>6. \A m : m \in {l \in Animation!Moments(keys) : ~(l.bone = bone /\ l.at = Animation!Bucket(t))}
                 <=> \E k \in others : m = At(k)
    BY <1>4, <2>3, <2>4
  <2> QED BY <2>3, <2>5, <2>6
<1> QED BY <1>5, <1>6, <1>7 DEF after

EditorRun(f, keys, t, ups, n, made) ==
    f = [i \in 0..n |-> IF i = 0 THEN keys
                        ELSE IF i \in made
                             THEN Animation!EditorSetKey(f[i-1], Animation!Group(ups[i].bone), t, ups[i].value)
                             ELSE f[i-1]]
SessionRun(f, keys, t, ups, n) ==
    f = [i \in 0..n |-> IF i = 0 THEN keys
                        ELSE Animation!MergeKey(f[i-1], ups[i].bone, t, ups[i].value)]

LEMMA UpdateType ==
    ASSUME NEW ups \in Seq(Animation!Update), NEW n \in 0..Len(ups), NEW i \in 1..n
    PROVE  ups[i].bone \in Bone \cup {"effects"} /\ ups[i].value \in Value
<1>1. ups[i] \in Animation!Update
  BY ElementOfSeq
<1> QED BY <1>1 DEF Animation!Update

\* The group of a bone in the outliner is one of them, and the one of its own
\* name until a bone is renamed.
LEMMA GroupIs ==
    ASSUME alias \in [Grouped -> Bone], NEW bone, Animation!InOutliner(bone)
    PROVE  Animation!Group(bone) \in Bone /\ (AtFirst => Animation!Group(bone) = bone)
<1>1. Animation!Group(bone) \in Grouped /\ alias[Animation!Group(bone)] = bone
  BY DEF Animation!InOutliner, Animation!Group
<1> QED BY <1>1, BoneAssumption DEF AtFirst

\* Every update up to n is one of a bone that is in the outliner.
AllThere(ups, n) == \A i \in 1..n : Animation!InOutliner(ups[i].bone)
LEMMA EditorRuns ==
    ASSUME NEW keys \in SUBSET Key, NEW t \in Time, NEW ups \in Seq(Animation!Update), NEW n \in 0..Len(ups),
           NEW made \in SUBSET (1..n), alias \in [Grouped -> Bone], AllThere(ups, n)
    PROVE  EditorRun(Animation!EditorPose(keys, t, ups, n, made), keys, t, ups, n, made)
<1> DEFINE Step(i, ks) == IF i \in made
                          THEN Animation!EditorSetKey(ks, Animation!Group(ups[i].bone), t, ups[i].value)
                          ELSE ks
           S == SUBSET Key
           g == [p \in (1..n) \X S |-> Step(p[1], p[2])]
<1>1. n \in Nat
  OBVIOUS
<1>2. \A i \in 1..n, ks \in S : Step(i, ks) \in S
  <2> SUFFICES ASSUME NEW i \in 1..n, NEW ks \in S PROVE Step(i, ks) \in S
    OBVIOUS
  <2>1. Animation!Group(ups[i].bone) \in Bone \cup {"effects"} /\ ups[i].value \in Value
    BY UpdateType, GroupIs DEF AllThere
  <2>2. Animation!EditorSetKey(ks, Animation!Group(ups[i].bone), t, ups[i].value) \in S
    BY <2>1, EditorSetsKey
  <2> QED BY <2>2
<1> HIDE DEF Step
<1>3. g \in [(1..n) \X S -> S] /\ \A i \in 1..n, ks \in S : g[<<i, ks>>] = Step(i, ks)
  BY <1>2
<1> HIDE DEF g, S
<1>4. PICK f \in [0..n -> S] : IsRun(f, keys, n, g)
  <2>1. keys \in S
    BY DEF S
  <2> QED BY <1>1, <1>3, <2>1, StepByStep
<1>5. f = [i \in 0..n |-> IF i = 0 THEN keys ELSE Step(i, f[i-1])]
  <2>1. \A i \in 0..n : i # 0 => i \in 1..n /\ i - 1 \in 0..n
    BY <1>1
  <2>2. \A i \in 0..n : i # 0 => g[<<i, f[i-1]>>] = Step(i, f[i-1])
    BY <1>3, <1>4, <2>1
  <2> QED BY <1>4, <2>2 DEF IsRun
<1>6. EditorRun(f, keys, t, ups, n, made)
  BY <1>5 DEF EditorRun, Step
<1> DEFINE h == CHOOSE h : EditorRun(h, keys, t, ups, n, made)
<1>7. EditorRun(h, keys, t, ups, n, made)
  BY <1>6
<1>8. Animation!EditorPose(keys, t, ups, n, made) = h
  BY DEF Animation!EditorPose, EditorRun
<1> QED BY <1>7, <1>8

LEMMA SessionRuns ==
    ASSUME NEW keys \in SUBSET Key, NEW t \in Time, NEW ups \in Seq(Animation!Update), NEW n \in 0..Len(ups)
    PROVE  SessionRun(Animation!SessionPose(keys, t, ups, n), keys, t, ups, n)
<1> DEFINE Step(i, ks) == Animation!MergeKey(ks, ups[i].bone, t, ups[i].value)
           S == SUBSET Key
           g == [p \in (1..n) \X S |-> Step(p[1], p[2])]
<1>1. n \in Nat
  OBVIOUS
<1>2. \A i \in 1..n, ks \in S : Step(i, ks) \in S
  BY UpdateType, SessionMergesKey
<1> HIDE DEF Step
<1>3. g \in [(1..n) \X S -> S] /\ \A i \in 1..n, ks \in S : g[<<i, ks>>] = Step(i, ks)
  BY <1>2
<1> HIDE DEF g, S
<1>4. PICK f \in [0..n -> S] : IsRun(f, keys, n, g)
  <2>1. keys \in S
    BY DEF S
  <2> QED BY <1>1, <1>3, <2>1, StepByStep
<1>5. f = [i \in 0..n |-> IF i = 0 THEN keys ELSE Step(i, f[i-1])]
  <2>1. \A i \in 0..n : i # 0 => i \in 1..n /\ i - 1 \in 0..n
    BY <1>1
  <2>2. \A i \in 0..n : i # 0 => g[<<i, f[i-1]>>] = Step(i, f[i-1])
    BY <1>3, <1>4, <2>1
  <2> QED BY <1>4, <2>2 DEF IsRun
<1>6. SessionRun(f, keys, t, ups, n)
  BY <1>5 DEF SessionRun, Step
<1> DEFINE h == CHOOSE h : SessionRun(h, keys, t, ups, n)
<1>7. SessionRun(h, keys, t, ups, n)
  BY <1>6
<1>8. Animation!SessionPose(keys, t, ups, n) = h
  BY DEF Animation!SessionPose, SessionRun
<1> QED BY <1>7, <1>8

\* A value set at a moment in both, and in the session alone where the editor
\* has none.
LEMMA PutWithin ==
    ASSUME NEW A, NEW B, NEW bone, NEW t, NEW v
    PROVE  /\ A \subseteq B => Put(A, bone, t, v) \subseteq Put(B, bone, t, v)
           /\ (A \subseteq B /\ \A m \in A : ~(m.bone = bone /\ m.at = Animation!Bucket(t)))
                 => A \subseteq Put(B, bone, t, v)
BY DEF Put

LEMMA NoMoment ==
    ASSUME NEW keys, NEW bone, NEW t, Animation!FindExisting(keys, bone, t) = {}
    PROVE  \A m \in Animation!Moments(keys) : ~(m.bone = bone /\ m.at = Animation!Bucket(t))
BY DEF Animation!Moments, Animation!FindExisting, Animation!SameMoment

\* A pose up to any of its updates keeps one key for a moment, and what the
\* editor shows within what the session knows; and the converse, where the
\* editor made every key.
AfterPose(k, l, e, s, whole) ==
    /\ e \in SUBSET Key /\ (OneKey(k) => OneKey(e))
    /\ s \in SUBSET Key /\ (OneKey(l) => OneKey(s))
    /\ AtFirst /\ Within(k, l) => Within(e, s)
    /\ AtFirst /\ whole /\ Within(l, k) => Within(s, e)
LEMMA PoseMirrored ==
    ASSUME NEW k \in SUBSET Key, NEW l \in SUBSET Key, NEW t \in Time,
           NEW ups \in Seq(Animation!Update), NEW n \in 0..Len(ups), NEW made \in SUBSET (1..n),
           alias \in [Grouped -> Bone], AllThere(ups, n),
           Animation!Carried(Animation!EditorPose(k, t, ups, n, made), t, ups, n, made)
    PROVE  AfterPose(k, l, Animation!EditorPose(k, t, ups, n, made)[n],
                     Animation!SessionPose(l, t, ups, n)[n], made = 1..n)
<1> DEFINE f == Animation!EditorPose(k, t, ups, n, made)
           h == Animation!SessionPose(l, t, ups, n)
           whole == made = 1..n
<1>1. EditorRun(f, k, t, ups, n, made)
  BY EditorRuns
<1>2. SessionRun(h, l, t, ups, n)
  BY SessionRuns
<1>c. \A i \in (1..n) \ made : Animation!FindExisting(f[i-1], Animation!Group(ups[i].bone), t) = {}
  BY DEF Animation!Carried
<1>w. whole => \A i \in 1..n : i \in made
  OBVIOUS
<1> HIDE DEF f, h, whole
<1> DEFINE Good == {p \in (SUBSET Key) \X (SUBSET Key) : AfterPose(k, l, p[1], p[2], whole)}
           pair == [i \in 0..n |-> <<f[i], h[i]>>]
<1>3. n \in Nat /\ \A i \in 0..n : pair[i] = <<f[i], h[i]>>
  OBVIOUS
<1>4. pair[0] \in Good
  <2>1. f[0] = k /\ h[0] = l
    BY <1>1, <1>2 DEF EditorRun, SessionRun
  <2> QED BY <1>3, <2>1 DEF AfterPose
<1>5. ASSUME NEW i \in 1..n, pair[i-1] \in Good PROVE pair[i] \in Good
  <2> DEFINE e == f[i-1]
             s == h[i-1]
             bone == ups[i].bone
             group == Animation!Group(ups[i].bone)
             v == ups[i].value
  <2>1. i - 1 \in 0..n /\ i \in 0..n /\ i # 0
    BY <1>3
  <2>2. AfterPose(k, l, e, s, whole) /\ e \in SUBSET Key /\ s \in SUBSET Key
    BY <1>3, <1>5, <2>1
  <2>3. /\ f[i] = IF i \in made THEN Animation!EditorSetKey(e, group, t, v) ELSE e
        /\ h[i] = Animation!MergeKey(s, bone, t, v)
    BY <1>1, <1>2, <2>1 DEF EditorRun, SessionRun
  <2>4. bone \in Bone \cup {"effects"} /\ v \in Value /\ group \in Bone /\ (AtFirst => group = bone)
    BY UpdateType, GroupIs DEF AllThere
  <2>f. i \notin made => Animation!FindExisting(e, group, t) = {}
    BY <1>c
  <2> HIDE DEF e, s, bone, group, v, Good, pair
  <2>6. /\ h[i] \in SUBSET Key /\ (OneKey(s) => OneKey(h[i]))
        /\ Animation!Moments(h[i]) = Put(Animation!Moments(s), bone, t, v)
    <3>1. LET a == Animation!MergeKey(s, bone, t, v)
          IN  /\ a \in SUBSET Key /\ (OneKey(s) => OneKey(a))
              /\ Animation!Moments(a) = Put(Animation!Moments(s), bone, t, v)
      BY <2>2, <2>4, SessionMergesKey
    <3> QED BY <2>3, <3>1
  <2>7. AfterPose(k, l, f[i], h[i], whole)
    <3>1. CASE i \in made
      <4>1. group \in Bone \cup {"effects"}
        BY <2>4
      <4>2. LET a == Animation!EditorSetKey(e, group, t, v)
            IN  /\ a \in SUBSET Key /\ (OneKey(e) => OneKey(a))
                /\ Animation!Moments(a) = Put(Animation!Moments(e), group, t, v)
        BY <2>2, <2>4, <4>1, EditorSetsKey
      <4>3. f[i] = Animation!EditorSetKey(e, group, t, v)
        BY <2>3, <3>1
      <4>4. /\ f[i] \in SUBSET Key /\ (OneKey(e) => OneKey(f[i]))
            /\ Animation!Moments(f[i]) = Put(Animation!Moments(e), group, t, v)
        BY <4>2, <4>3
      <4>5. AtFirst /\ Within(e, s) => Within(f[i], h[i])
        BY <2>4, <2>6, <4>4, PutWithin DEF Within
      <4>6. AtFirst /\ Within(s, e) => Within(h[i], f[i])
        BY <2>4, <2>6, <4>4, PutWithin DEF Within
      <4> QED BY <2>2, <2>6, <4>4, <4>5, <4>6 DEF AfterPose
    <3>2. CASE i \notin made
      <4>1. f[i] = e /\ ~whole
        BY <1>w, <2>3, <3>2
      <4>2. \A m \in Animation!Moments(e) : ~(m.bone = group /\ m.at = Animation!Bucket(t))
        BY <2>f, <3>2, NoMoment
      <4>3. ASSUME AtFirst, Within(e, s) PROVE Within(f[i], h[i])
        <5>1. \A m \in Animation!Moments(e) : ~(m.bone = bone /\ m.at = Animation!Bucket(t))
          BY <2>4, <4>2, <4>3
        <5>2. Animation!Moments(e) \subseteq Put(Animation!Moments(s), bone, t, v)
          BY <4>3, <5>1, PutWithin DEF Within
        <5> QED BY <2>6, <4>1, <5>2 DEF Within
      <4> QED BY <2>2, <2>6, <4>1, <4>3 DEF AfterPose
    <3> QED BY <3>1, <3>2
  <2>8. f[i] \in SUBSET Key /\ h[i] \in SUBSET Key
    BY <2>7 DEF AfterPose
  <2>9. pair[i] = <<f[i], h[i]>>
    BY <1>3, <2>1
  <2>10. <<f[i], h[i]>> \in Good
    BY <2>7, <2>8 DEF Good
  <2> QED BY <2>9, <2>10
<1> HIDE DEF Good, pair
<1>6. pair[n] \in Good
  <2>1. \A i \in 0..n : pair[i] \in Good
    BY <1>3, <1>4, <1>5, Along
  <2> QED BY <1>3, <2>1
<1>7. AfterPose(k, l, f[n], h[n], whole)
  BY <1>3, <1>6 DEF Good
<1> QED BY <1>7 DEF f, h, whole

\* A trigger in the editor, and in the session, which may keep more.
LEMMA TriggersMirrored ==
    ASSUME NEW marks \in SUBSET Key, NEW t \in Time, NEW v \in Value
    PROVE  LET after == Animation!MergeMark(marks, t, v)
           IN  /\ after \in SUBSET Key
               /\ Animation!Moments(marks) \cup {[bone |-> "effects", at |-> Animation!Bucket(t), value |-> v]}
                    \subseteq Animation!Moments(after)
<1> DEFINE after == Animation!MergeMark(marks, t, v)
           new == Animation!Mark(t, v)
           Gone(m) == Animation!SameMoment(m, "effects", t) /\ m.value = v
           At(k) == [bone |-> k.bone, at |-> Animation!Bucket(k.time), value |-> k.value]
           put == [bone |-> "effects", at |-> Animation!Bucket(t), value |-> v]
<1>1. after = {m \in marks : ~Gone(m)} \cup {new}
  BY DEF Animation!MergeMark
<1>2. new \in Key /\ At(new) = put
  BY DEF Animation!Mark, Key
<1>3. \A m \in marks : Gone(m) => At(m) = put
  BY DEF Animation!SameMoment
<1>4. Animation!Moments(marks) = {At(m) : m \in marks} /\ Animation!Moments(after) = {At(m) : m \in after}
  BY DEF Animation!Moments
<1> HIDE DEF after, new, Gone, At, put
<1>5. after \in SUBSET Key
  BY <1>1, <1>2
<1>6. \A m \in marks : At(m) \in {At(k) : k \in after}
  BY <1>1, <1>2, <1>3
<1>7. put \in {At(k) : k \in after}
  BY <1>1, <1>2
<1> QED BY <1>4, <1>5, <1>6, <1>7 DEF after, put

\* What has parted the copies stays so.
LEMMA MatchesMore ==
    ASSUME NEW a, NEW b, NEW parted, NEW more, parted \subseteq more, Matches(a, b, parted)
    PROVE  Matches(a, b, more)
BY DEF Matches

\* A step that gives clip c the entry e, and tells the session by its name.
LEMMA ChangesBoth ==
    ASSUME AnimationInv, NEW c \in DOMAIN clips, NEW e \in Entry, NEW changed \in [DOMAIN tracked -> Entry],
           OneKey(e.keys), \A d \in DOMAIN tracked : OneKey(changed[d].keys),
           \A d \in DOMAIN clips \ {c} : clips[d].name # e.name,
           c \in DOMAIN tracked /\ Matches(clips[c], tracked[c], lapses) => Matches(e, changed[c], lapses'),
           clips' = [clips EXCEPT ![c] = e], Animation!InSession(clips[c].name, changed),
           lapses \subseteq lapses', UNCHANGED alias
    PROVE  AnimationInv'
<1>1. PICK D \in SUBSET Clip : clips \in [D -> Entry] /\ \A d \in D : OneKey(clips[d].keys)
  BY DEF AnimationInv, IsTable
<1>2. PICK E \in SUBSET Clip : tracked \in [E -> Entry] /\ \A d \in E : OneKey(tracked[d].keys)
  BY DEF AnimationInv, IsTable
<1>3. /\ clips' \in [D -> Entry] /\ \A d \in D : clips'[d] = IF d = c THEN e ELSE clips[d]
      /\ \A d \in D : OneKey(clips'[d].keys)
  BY <1>1
<1>4. tracked' = tracked \/ \E d \in E : tracked' = [tracked EXCEPT ![d] = changed[d]]
  BY <1>2 DEF Animation!InSession, Animation!Known
<1>5. /\ tracked' \in [E -> Entry]
      /\ \A d \in E : tracked'[d] \in {tracked[d], changed[d]} /\ OneKey(tracked'[d].keys)
  BY <1>2, <1>4
<1>6. IsTable(clips)' /\ IsTable(tracked)'
  BY <1>1, <1>2, <1>3, <1>5 DEF IsTable
<1>7. NamesDiffer'
  BY <1>1, <1>3 DEF AnimationInv, NamesDiffer
<1>8. ASSUME "clip" \notin lapses' PROVE Mirrored'
  <2>1. D = E /\ c \in D /\ \A d \in D : Matches(clips[d], tracked[d], lapses)
    BY <1>1, <1>2, <1>8 DEF AnimationInv, Mirrored
  <2>2. \A d \in E : tracked[d].name = clips[c].name <=> d = c
    BY <1>1, <2>1 DEF Matches, AnimationInv, NamesDiffer
  <2>3. Animation!Known(clips[c].name) = {c}
    BY <1>2, <2>1, <2>2 DEF Animation!Known
  <2>4. tracked' = [tracked EXCEPT ![c] = changed[c]]
    BY <2>3 DEF Animation!InSession
  <2>5. Matches(e, changed[c], lapses')
    BY <1>2, <2>1
  <2>6. \A d \in D : Matches(clips'[d], tracked'[d], lapses')
    BY <1>2, <1>3, <2>1, <2>4, <2>5, MatchesMore
  <2> QED BY <1>3, <1>5, <2>1, <2>6 DEF Mirrored
<1>9. alias' \in [Grouped -> Bone] /\ ("bone" \notin lapses' => AtFirst')
  BY DEF AnimationInv, AtFirst
<1> QED BY <1>6, <1>7, <1>8, <1>9 DEF AnimationInv

\* Entries, taken apart.
LEMMA EntryType ==
    ASSUME AnimationInv
    PROVE  /\ \A c \in DOMAIN clips : clips[c] \in Entry /\ OneKey(clips[c].keys) /\ c \in Clip
           /\ \A c \in DOMAIN tracked : tracked[c] \in Entry /\ OneKey(tracked[c].keys) /\ c \in Clip
BY DEF AnimationInv, IsTable

LEMMA RenameMirrored ==
    ASSUME AnimationInv, NEW c \in Clip, NEW name \in ClipName, Animation!RenameClip(c, name)
    PROVE  AnimationInv'
<1> DEFINE e == [clips[c] EXCEPT !.name = name]
           changed == [d \in DOMAIN tracked |-> [tracked[d] EXCEPT !.name = name]]
<1>1. /\ c \in DOMAIN clips /\ ~Animation!Taken(name, {c}) /\ UNCHANGED <<alias, lapses>>
      /\ Animation!InSession(clips[c].name, changed)
  BY DEF Animation!RenameClip
<1>2. clips' = [clips EXCEPT ![c] = e]
  BY DEF Animation!RenameClip, Animation!EditorRename
<1>3. \A r \in Entry : LET s == [r EXCEPT !.name = name]
                       IN  s \in Entry /\ s.name = name /\ s.keys = r.keys /\ s.marks = r.marks
  BY DEF Entry
<1>4. e \in Entry /\ e.name = name /\ e.keys = clips[c].keys /\ e.marks = clips[c].marks
  BY <1>1, <1>3, EntryType
<1>5. \A d \in DOMAIN tracked : /\ changed[d] \in Entry /\ changed[d].name = name
                                /\ changed[d].keys = tracked[d].keys /\ changed[d].marks = tracked[d].marks
  BY <1>3, EntryType
<1>6. changed \in [DOMAIN tracked -> Entry]
  BY <1>5
<1> HIDE DEF e, changed
<1>7. OneKey(e.keys) /\ \A d \in DOMAIN tracked : OneKey(changed[d].keys)
  BY <1>1, <1>4, <1>5, EntryType
<1>8. \A d \in DOMAIN clips \ {c} : clips[d].name # e.name
  BY <1>1, <1>4 DEF Animation!Taken
<1>9. c \in DOMAIN tracked /\ Matches(clips[c], tracked[c], lapses) => Matches(e, changed[c], lapses')
  BY <1>1, <1>4, <1>5 DEF Matches
<1> QED BY <1>1, <1>2, <1>4, <1>6, <1>7, <1>8, <1>9, ChangesBoth

LEMMA PoseKeepsMirror ==
    ASSUME AnimationInv, NEW c \in Clip, NEW t \in Time, NEW ups \in Animation!Pose,
           Animation!SetFramePose(c, t, ups)
    PROVE  AnimationInv'
<1>1. ups \in Seq(Animation!Update)
  BY DEF Animation!Pose
<1>2. PICK n \in 0..Len(ups) :
        /\ \A i \in 1..n : Animation!InOutliner(ups[i].bone)
        /\ \E made \in SUBSET (1..n) :
              LET after == Animation!EditorPose(clips[c].keys, t, ups, n, made)
              IN  /\ Animation!Carried(after, t, ups, n, made)
                  /\ clips' = [clips EXCEPT ![c].keys = after[n]]
                  /\ lapses' = IF made = 1..n THEN lapses ELSE lapses \cup {"key"}
        /\ Animation!InSession(clips[c].name,
             [d \in DOMAIN tracked |-> [tracked[d] EXCEPT !.keys = Animation!SessionPose(@, t, ups, n)[n]]])
  BY DEF Animation!SetFramePose
<1>3. PICK made \in SUBSET (1..n) :
        LET after == Animation!EditorPose(clips[c].keys, t, ups, n, made)
        IN  /\ Animation!Carried(after, t, ups, n, made)
            /\ clips' = [clips EXCEPT ![c].keys = after[n]]
            /\ lapses' = IF made = 1..n THEN lapses ELSE lapses \cup {"key"}
  BY <1>2
<1> DEFINE k == Animation!EditorPose(clips[c].keys, t, ups, n, made)[n]
           e == [clips[c] EXCEPT !.keys = k]
           changed == [d \in DOMAIN tracked |-> [tracked[d] EXCEPT !.keys = Animation!SessionPose(@, t, ups, n)[n]]]
           whole == made = 1..n
<1>4. /\ c \in DOMAIN clips /\ UNCHANGED alias /\ clips' = [clips EXCEPT ![c] = e]
      /\ Animation!InSession(clips[c].name, changed)
      /\ lapses \subseteq lapses' /\ ("key" \notin lapses' => whole)
  BY <1>2, <1>3 DEF Animation!SetFramePose
<1>5. /\ clips[c] \in Entry /\ OneKey(clips[c].keys)
      /\ \A d \in DOMAIN tracked : tracked[d] \in Entry /\ OneKey(tracked[d].keys)
  BY <1>4, EntryType
<1>6. \A r \in Entry, x1 \in SUBSET Key : LET s == [r EXCEPT !.keys = x1]
                                          IN  s \in Entry /\ s.name = r.name /\ s.keys = x1 /\ s.marks = r.marks
  BY DEF Entry
<1>7. \A r \in Entry : r.keys \in SUBSET Key
  BY DEF Entry
<1>8. \A l \in SUBSET Key : AfterPose(clips[c].keys, l, k, Animation!SessionPose(l, t, ups, n)[n], whole)
  <2> SUFFICES ASSUME NEW l \in SUBSET Key
               PROVE  AfterPose(clips[c].keys, l, k, Animation!SessionPose(l, t, ups, n)[n], whole)
    OBVIOUS
  <2>1. clips[c].keys \in SUBSET Key /\ alias \in [Grouped -> Bone] /\ AllThere(ups, n)
    BY <1>2, <1>5, <1>7 DEF AnimationInv, AllThere
  <2>2. Animation!Carried(Animation!EditorPose(clips[c].keys, t, ups, n, made), t, ups, n, made)
    BY <1>3
  <2> QED BY <1>1, <2>1, <2>2, PoseMirrored
<1> HIDE DEF k, whole
<1>9. k \in SUBSET Key /\ OneKey(k)
  <2>1. clips[c].keys \in SUBSET Key
    BY <1>5, <1>7
  <2> QED BY <1>5, <1>8, <2>1 DEF AfterPose
<1>10. e \in Entry /\ e.name = clips[c].name /\ e.marks = clips[c].marks /\ e.keys = k
  BY <1>5, <1>6, <1>9
<1>11. \A d \in DOMAIN tracked :
         /\ AfterPose(clips[c].keys, tracked[d].keys, k, changed[d].keys, whole)
         /\ changed[d] \in Entry /\ changed[d].name = tracked[d].name /\ changed[d].marks = tracked[d].marks
         /\ OneKey(changed[d].keys)
  <2> SUFFICES ASSUME NEW d \in DOMAIN tracked
               PROVE  /\ AfterPose(clips[c].keys, tracked[d].keys, k, changed[d].keys, whole)
                      /\ changed[d] \in Entry /\ changed[d].name = tracked[d].name
                      /\ changed[d].marks = tracked[d].marks /\ OneKey(changed[d].keys)
    OBVIOUS
  <2> DEFINE l == Animation!SessionPose(tracked[d].keys, t, ups, n)[n]
  <2>1. tracked[d] \in Entry /\ OneKey(tracked[d].keys) /\ tracked[d].keys \in SUBSET Key
    BY <1>5, <1>7
  <2>2. AfterPose(clips[c].keys, tracked[d].keys, k, l, whole)
    BY <1>8, <2>1
  <2>3. changed[d] = [tracked[d] EXCEPT !.keys = l]
    OBVIOUS
  <2> HIDE DEF l, changed
  <2>4. l \in SUBSET Key /\ OneKey(l)
    BY <2>1, <2>2 DEF AfterPose
  <2>5. /\ changed[d] \in Entry /\ changed[d].name = tracked[d].name
        /\ changed[d].marks = tracked[d].marks /\ changed[d].keys = l
    BY <1>6, <2>1, <2>3, <2>4
  <2> QED BY <2>2, <2>4, <2>5
<1>12. changed \in [DOMAIN tracked -> Entry]
  BY <1>11
<1> HIDE DEF e, changed
<1>13. OneKey(e.keys) /\ \A d \in DOMAIN tracked : OneKey(changed[d].keys)
  BY <1>9, <1>10, <1>11
<1>14. \A d \in DOMAIN clips \ {c} : clips[d].name # e.name
  BY <1>4, <1>10 DEF AnimationInv, NamesDiffer
<1>15. c \in DOMAIN tracked /\ Matches(clips[c], tracked[c], lapses) => Matches(e, changed[c], lapses')
  <2> SUFFICES ASSUME c \in DOMAIN tracked, Matches(clips[c], tracked[c], lapses)
               PROVE  Matches(e, changed[c], lapses')
    OBVIOUS
  <2>1. AfterPose(clips[c].keys, tracked[c].keys, e.keys, changed[c].keys, whole)
    BY <1>10, <1>11
  <2>2. "bone" \notin lapses' => AtFirst /\ Within(clips[c].keys, tracked[c].keys)
    BY <1>4 DEF Matches, AnimationInv
  <2>3. {"bone", "key"} \cap lapses' = {} => whole /\ AtFirst /\ Within(tracked[c].keys, clips[c].keys)
    BY <1>4 DEF Matches, AnimationInv
  <2>4. e.name = changed[c].name /\ Within(e.marks, changed[c].marks)
    BY <1>10, <1>11 DEF Matches
  <2> QED BY <2>1, <2>2, <2>3, <2>4 DEF Matches, AfterPose
<1> QED BY <1>4, <1>10, <1>12, <1>13, <1>14, <1>15, ChangesBoth

LEMMA TriggerMirrored ==
    ASSUME AnimationInv, NEW c \in Clip, NEW t \in Time, NEW v \in Value, Animation!SetTrigger(c, t, v)
    PROVE  AnimationInv'
<1>p. \E set \in {Animation!EditorSetKey(clips[c].marks, "effects", t, v), clips[c].marks} :
        clips' = [clips EXCEPT ![c] = [clips[c] EXCEPT !.marks = set]]
  <2>1. clips[c] = [clips[c] EXCEPT !.marks = clips[c].marks] /\ clips = [clips EXCEPT ![c] = clips[c]]
    BY EntryType DEF Animation!SetTrigger, AnimationInv, IsTable, Entry
  <2> QED BY <2>1 DEF Animation!SetTrigger, Animation!EditorSetTrigger
<1>q. PICK set \in {Animation!EditorSetKey(clips[c].marks, "effects", t, v), clips[c].marks} :
        clips' = [clips EXCEPT ![c] = [clips[c] EXCEPT !.marks = set]]
  BY <1>p
<1> DEFINE e == [clips[c] EXCEPT !.marks = set]
           changed == [d \in DOMAIN tracked |-> [tracked[d] EXCEPT !.marks = Animation!MergeMark(@, t, v)]]
<1>1. c \in DOMAIN clips /\ UNCHANGED alias /\ lapses \subseteq lapses' /\ clips' = [clips EXCEPT ![c] = e]
      /\ Animation!InSession(clips[c].name, changed)
  BY <1>q DEF Animation!SetTrigger
<1>2. /\ clips[c] \in Entry /\ OneKey(clips[c].keys)
      /\ \A d \in DOMAIN tracked : tracked[d] \in Entry /\ OneKey(tracked[d].keys)
  BY <1>1, EntryType
<1>3. \A r \in Entry, k \in SUBSET Key : LET s == [r EXCEPT !.marks = k]
                                         IN  s \in Entry /\ s.name = r.name /\ s.keys = r.keys /\ s.marks = k
  BY DEF Entry
<1>4. \A r \in Entry : r.marks \in SUBSET Key
  BY DEF Entry
<1> DEFINE put == [bone |-> "effects", at |-> Animation!Bucket(t), value |-> v]
<1>5. \A m \in SUBSET Key : LET a == Animation!EditorSetKey(m, "effects", t, v)
                            IN  a \in SUBSET Key /\ Animation!Moments(a) \subseteq Animation!Moments(m) \cup {put}
  <2> SUFFICES ASSUME NEW m \in SUBSET Key
               PROVE  LET a == Animation!EditorSetKey(m, "effects", t, v)
                      IN  a \in SUBSET Key /\ Animation!Moments(a) \subseteq Animation!Moments(m) \cup {put}
    OBVIOUS
  <2>1. "effects" \in Bone \cup {"effects"}
    OBVIOUS
  <2>2. LET a == Animation!EditorSetKey(m, "effects", t, v)
        IN  a \in SUBSET Key /\ Animation!Moments(a) = Put(Animation!Moments(m), "effects", t, v)
    BY <2>1, EditorSetsKey
  <2> QED BY <2>2 DEF Put
<1>6. \A m \in SUBSET Key : LET a == Animation!MergeMark(m, t, v)
                            IN  a \in SUBSET Key /\ Animation!Moments(m) \cup {put} \subseteq Animation!Moments(a)
  BY TriggersMirrored
<1> HIDE DEF put
<1>s. set \in SUBSET Key /\ Animation!Moments(set) \subseteq Animation!Moments(clips[c].marks) \cup {put}
  BY <1>2, <1>4, <1>5
<1>7. e \in Entry /\ e.name = clips[c].name /\ e.keys = clips[c].keys /\ e.marks = set
  BY <1>2, <1>3, <1>s
<1>8. \A d \in DOMAIN tracked :
        /\ changed[d] \in Entry /\ changed[d].name = tracked[d].name /\ changed[d].keys = tracked[d].keys
        /\ changed[d].marks = Animation!MergeMark(tracked[d].marks, t, v)
  <2>1. \A d \in DOMAIN tracked : Animation!MergeMark(tracked[d].marks, t, v) \in SUBSET Key
    BY <1>2, <1>4, <1>6
  <2> QED BY <1>2, <1>3, <2>1
<1>9. changed \in [DOMAIN tracked -> Entry]
  BY <1>8
<1> HIDE DEF e, changed
<1>10. OneKey(e.keys) /\ \A d \in DOMAIN tracked : OneKey(changed[d].keys)
  BY <1>2, <1>7, <1>8
<1>11. \A d \in DOMAIN clips \ {c} : clips[d].name # e.name
  BY <1>1, <1>7 DEF AnimationInv, NamesDiffer
<1>12. c \in DOMAIN tracked /\ Matches(clips[c], tracked[c], lapses) => Matches(e, changed[c], lapses')
  <2> SUFFICES ASSUME c \in DOMAIN tracked, Matches(clips[c], tracked[c], lapses)
               PROVE  Matches(e, changed[c], lapses')
    OBVIOUS
  <2>1. Animation!Moments(e.marks) \subseteq Animation!Moments(clips[c].marks) \cup {put}
    BY <1>s, <1>7
  <2>2. Animation!Moments(tracked[c].marks) \cup {put} \subseteq Animation!Moments(changed[c].marks)
    BY <1>2, <1>4, <1>6, <1>8
  <2>3. Matches(e, changed[c], lapses)
    BY <1>7, <1>8, <2>1, <2>2 DEF Matches, Within
  <2> QED BY <1>1, <2>3, MatchesMore
<1> QED BY <1>1, <1>7, <1>9, <1>10, <1>11, <1>12, ChangesBoth

LEMMA CreateMirrored ==
    ASSUME AnimationInv, NEW c \in Clip, NEW name \in ClipName, Animation!CreateClip(c, name)
    PROVE  AnimationInv'
<1> DEFINE clip == [name |-> name, keys |-> {}, marks |-> {}]
<1>1. PICK D \in SUBSET Clip : clips \in [D -> Entry] /\ \A d \in D : OneKey(clips[d].keys)
  BY DEF AnimationInv, IsTable
<1>2. PICK E \in SUBSET Clip : tracked \in [E -> Entry] /\ \A d \in E : OneKey(tracked[d].keys)
  BY DEF AnimationInv, IsTable
<1>3. clip \in Entry /\ clip.name = name /\ OneKey(clip.keys) /\ Matches(clip, clip, lapses)
  BY DEF Entry, OneKey, Matches, Within
<1>4. /\ ~Animation!Taken(name, {}) /\ c \notin D /\ c \notin E /\ UNCHANGED <<alias, lapses>>
      /\ clips' = Animation!Extended(clips, c, clip) /\ tracked' = Animation!Extended(tracked, c, clip)
  BY <1>1, <1>2 DEF Animation!CreateClip, Animation!EditorCreate
<1> HIDE DEF clip
<1>5. /\ clips' \in [D \cup {c} -> Entry]
      /\ \A d \in D \cup {c} : clips'[d] = IF d = c THEN clip ELSE clips[d]
  BY <1>1, <1>3, <1>4 DEF Animation!Extended
<1>6. /\ tracked' \in [E \cup {c} -> Entry]
      /\ \A d \in E \cup {c} : tracked'[d] = IF d = c THEN clip ELSE tracked[d]
  BY <1>2, <1>3, <1>4 DEF Animation!Extended
<1>7. IsTable(clips)' /\ IsTable(tracked)'
  <2>1. D \cup {c} \in SUBSET Clip /\ \A d \in D \cup {c} : OneKey(clips'[d].keys)
    BY <1>1, <1>3, <1>5
  <2>2. E \cup {c} \in SUBSET Clip /\ \A d \in E \cup {c} : OneKey(tracked'[d].keys)
    BY <1>2, <1>3, <1>6
  <2> QED BY <1>5, <1>6, <2>1, <2>2 DEF IsTable
<1>8. NamesDiffer'
  <2>1. \A d \in D : clips[d].name # name
    BY <1>1, <1>4 DEF Animation!Taken
  <2> QED BY <1>1, <1>3, <1>5, <2>1 DEF AnimationInv, NamesDiffer
<1>9. "clip" \notin lapses => Mirrored'
  BY <1>1, <1>2, <1>3, <1>4, <1>5, <1>6 DEF AnimationInv, Mirrored
<1> QED BY <1>4, <1>7, <1>8, <1>9 DEF AnimationInv, AtFirst

\* Some clips less.
LEMMA RestrictTable ==
    ASSUME NEW table, IsTable(table), NEW D \in SUBSET DOMAIN table
    PROVE  /\ IsTable(Restrict(table, D)) /\ DOMAIN Restrict(table, D) = D
           /\ \A d \in D : Restrict(table, D)[d] = table[d]
BY DEF IsTable, Restrict

\* Clips that are gone from Blockbench only.
LEMMA LossKeeps ==
    ASSUME AnimationInv, NEW gone \in SUBSET Clip, clips' = Animation!EditorDelete(gone),
           lapses' = lapses \cup {"clip"}, UNCHANGED <<tracked, alias>>
    PROVE  AnimationInv'
<1>1. /\ IsTable(clips)' /\ DOMAIN clips' = DOMAIN clips \ gone
      /\ \A d \in DOMAIN clips \ gone : clips'[d] = clips[d]
  BY RestrictTable DEF AnimationInv, Animation!EditorDelete, Animation!Restrict, Restrict, IsTable
<1>2. NamesDiffer'
  BY <1>1 DEF AnimationInv, NamesDiffer
<1> QED BY <1>1, <1>2 DEF AnimationInv, IsTable, AtFirst

LEMMA DeleteMirrored ==
    ASSUME AnimationInv, NEW cs \in SUBSET Clip, Animation!DeleteClips(cs)
    PROVE  AnimationInv'
<1> DEFINE names == {clips[c].name : c \in cs}
           left == {c \in DOMAIN tracked : tracked[c].name \notin names}
<1>0. SUFFICES ASSUME clips' = Animation!EditorDelete(cs), tracked' = Animation!SessionRemove(names),
                      UNCHANGED lapses
               PROVE  AnimationInv'
  BY LossKeeps DEF Animation!DeleteClips
<1>1. /\ cs \subseteq DOMAIN clips /\ UNCHANGED <<alias, lapses>>
      /\ clips' = Animation!Restrict(clips, DOMAIN clips \ cs) /\ tracked' = Animation!Restrict(tracked, left)
  BY <1>0 DEF Animation!DeleteClips, Animation!EditorDelete, Animation!SessionRemove
<1>2. /\ IsTable(clips)' /\ DOMAIN clips' = DOMAIN clips \ cs
      /\ \A d \in DOMAIN clips \ cs : clips'[d] = clips[d]
  BY <1>1, RestrictTable DEF AnimationInv, Animation!Restrict, Restrict, IsTable
<1>3. IsTable(tracked)' /\ DOMAIN tracked' = left /\ \A d \in left : tracked'[d] = tracked[d]
  BY <1>1, RestrictTable DEF AnimationInv, Animation!Restrict, Restrict, IsTable
<1>4. NamesDiffer'
  BY <1>2 DEF AnimationInv, NamesDiffer
<1>5. ASSUME "clip" \notin lapses PROVE Mirrored'
  <2>1. DOMAIN clips = DOMAIN tracked /\ \A c \in DOMAIN clips : Matches(clips[c], tracked[c], lapses)
    BY <1>5 DEF AnimationInv, Mirrored
  <2>2. \A c \in DOMAIN clips : tracked[c].name \in names <=> c \in cs
    BY <1>1, <2>1 DEF Matches, AnimationInv, NamesDiffer
  <2>3. left = DOMAIN clips \ cs
    BY <2>1, <2>2
  <2> QED BY <1>1, <1>2, <1>3, <2>1, <2>3 DEF Mirrored
<1> QED BY <1>1, <1>2, <1>3, <1>4, <1>5 DEF AnimationInv, AtFirst

\* A bone with another name.
LEMMA BoneKeeps ==
    ASSUME AnimationInv, NEW g \in Grouped, NEW name \in Bone, Animation!RenameBone(g, name)
    PROVE  AnimationInv'
<1>1. alias' \in [Grouped -> Bone] /\ "bone" \in lapses' /\ lapses \subseteq lapses' /\ UNCHANGED <<clips, tracked>>
  BY DEF Animation!RenameBone, AnimationInv
<1>2. ("clip" \notin lapses' => "clip" \notin lapses)
  BY <1>1
<1>3. "clip" \notin lapses' => Mirrored'
  BY <1>1, <1>2, MatchesMore DEF AnimationInv, Mirrored
<1> QED BY <1>1, <1>3 DEF AnimationInv, IsTable, NamesDiffer

\* The session knows every clip of Blockbench by its name with no trigger less
\* until a clip is deleted behind it, the value of each bone at each moment until
\* a bone is renamed, and no other until Blockbench does not make a key; and a
\* bone has one value at a moment, whatever happened: the adapter's and the
\* session's part of every animation tool, also where a pose stops half way.
THEOREM ClipsAreMirrored == MCSpec => []AnimationsMirrored
<1> DEFINE Inv == part = "animation" => AnimationInv
<1>1. MCInit => Inv
  <2>1. Animation!Init => AnimationInv
    <3> SUFFICES ASSUME Animation!Init PROVE AnimationInv
      OBVIOUS
    <3>1. /\ clips = << >> /\ tracked = << >> /\ lapses = {} /\ DOMAIN << >> = {}
          /\ alias \in [Grouped -> Bone] /\ AtFirst
      BY BoneAssumption DEF Animation!Init, AtFirst
    <3>2. << >> \in [{} -> Entry]
      OBVIOUS
    <3> QED BY <3>1, <3>2 DEF AnimationInv, IsTable, NamesDiffer, Mirrored
  <2> QED BY <2>1 DEF MCInit
<1>2. Inv /\ [MCNext]_mcvars => Inv'
  <2> SUFFICES ASSUME part = "animation", AnimationInv, [MCNext]_mcvars PROVE AnimationInv'
    BY DEF MCNext, mcvars
  <2>1. CASE UNCHANGED mcvars
    BY <2>1 DEF mcvars, cvars, AnimationInv, IsTable, NamesDiffer, Mirrored, AtFirst
  <2>2. CASE Animation!Next
    <3>1. \A c \in Clip, name \in ClipName : Animation!CreateClip(c, name) => AnimationInv'
      BY CreateMirrored
    <3>2. \A c \in Clip, name \in ClipName : Animation!RenameClip(c, name) => AnimationInv'
      BY RenameMirrored
    <3>3. \A cs \in SUBSET Clip : Animation!DeleteClips(cs) => AnimationInv'
      BY DeleteMirrored
    <3>4. \A c \in Clip, t \in Time, ups \in Animation!Pose : Animation!SetFramePose(c, t, ups) => AnimationInv'
      BY PoseKeepsMirror
    <3>5. \A c \in Clip, t \in Time, v \in Value : Animation!SetTrigger(c, t, v) => AnimationInv'
      BY TriggerMirrored
    <3>6. \A c \in Clip : Animation!UserDelete(c) => AnimationInv'
      <4> SUFFICES ASSUME NEW c \in Clip, Animation!UserDelete(c) PROVE AnimationInv'
        OBVIOUS
      <4>1. {c} \in SUBSET Clip /\ clips' = Animation!EditorDelete({c}) /\ lapses' = lapses \cup {"clip"}
            /\ UNCHANGED <<tracked, alias>>
        BY DEF Animation!UserDelete
      <4> QED BY <4>1, LossKeeps
    <3>7. \A g \in Grouped, name \in Bone : Animation!RenameBone(g, name) => AnimationInv'
      BY BoneKeeps
    <3>8. Animation!Call
      BY <2>2 DEF Animation!Next
    <3> QED BY <3>1, <3>2, <3>3, <3>4, <3>5, <3>6, <3>7, <3>8, Zenon DEF Animation!Call
  <2> QED BY <2>1, <2>2 DEF MCNext
<1>3. Inv => AnimationsMirrored
  BY AnimationInvHolds DEF AnimationsMirrored
<1> QED BY <1>1, <1>2, <1>3, PTL DEF MCSpec

-----------------------------------------------------------------------------
(* The textures (TextureTools, in the behaviours of MCTexturesAndClips).   *)

FaceRecord == [texture : Texture \cup {None}, slot : Slot \cup {None}]
Shaped(w) == w = [textures |-> w.textures, recorded |-> w.recorded, face |-> w.face, astray |-> w.astray]

\* A world of pictures and faces in which the session is right about each texture
\* it knows that has not gone astray, but perhaps for one.
Right(w, u) ==
    u \in DOMAIN w.textures /\ w.recorded[u] = [name |-> w.textures[u].name, hash |-> w.textures[u].pic]
FineBut(w, t) ==
    /\ Shaped(w)
    /\ \A u \in DOMAIN w.textures : w.textures[u].pic \in Texturing!Pictures
    /\ w.face \in [Side -> FaceRecord]
    /\ \A u \in DOMAIN w.recorded \ w.astray : u # t => Right(w, u)
Fine(w) ==
    /\ Shaped(w)
    /\ \A u \in DOMAIN w.textures : w.textures[u].pic \in Texturing!Pictures
    /\ w.face \in [Side -> FaceRecord]
    /\ \A u \in DOMAIN w.recorded \ w.astray : Right(w, u)

LEMMA FineIsFineBut == \A w, t : Fine(w) => FineBut(w, t)
BY DEF Fine, FineBut

LEMMA EditorPaintFine ==
    ASSUME NEW w, NEW t, FineBut(w, t), NEW name, NEW image \in Texturing!Pictures
    PROVE  LET v == Texturing!EditorPaint(w, t, name, image)
           IN  /\ FineBut(v, t)
               /\ v.recorded = w.recorded /\ v.face = w.face /\ v.astray = w.astray
               /\ DOMAIN v.textures = DOMAIN w.textures \cup {t}
               /\ v.textures[t] = [name |-> name, pic |-> image]
               /\ \A u \in DOMAIN w.textures \ {t} : v.textures[u] = w.textures[u]
<1> DEFINE T == Texturing!Stored(w.textures, t, [name |-> name, pic |-> image])
           v == Texturing!EditorPaint(w, t, name, image)
<1>1. /\ DOMAIN T = DOMAIN w.textures \cup {t} /\ T[t] = [name |-> name, pic |-> image]
      /\ \A u \in DOMAIN w.textures \ {t} : T[u] = w.textures[u]
  BY DEF Texturing!Stored
<1>2. v = [textures |-> T, recorded |-> w.recorded, face |-> w.face, astray |-> w.astray]
  BY DEF Texturing!EditorPaint, FineBut, Shaped
<1> HIDE DEF T, v
<1>3. v.textures = T /\ v.recorded = w.recorded /\ v.face = w.face /\ v.astray = w.astray /\ Shaped(v)
  BY <1>2 DEF Shaped
<1>4. \A u \in DOMAIN T : T[u].pic \in Texturing!Pictures
  BY <1>1 DEF FineBut
<1>5. \A u \in DOMAIN v.recorded \ v.astray : u # t => Right(v, u)
  BY <1>1, <1>3 DEF FineBut, Right
<1>6. FineBut(v, t)
  BY <1>3, <1>4, <1>5 DEF FineBut
<1> QED BY <1>1, <1>3, <1>6 DEF v

LEMMA SessionRecordFine ==
    ASSUME NEW w, NEW t \in DOMAIN w.textures, FineBut(w, t), NEW name, NEW hash,
           w.textures[t] = [name |-> name, pic |-> hash]
    PROVE  LET v == Texturing!SessionRecord(w, t, name, hash)
           IN  /\ Fine(v) /\ v.textures = w.textures /\ v.face = w.face /\ v.astray = w.astray \ {t}
               /\ DOMAIN v.recorded = DOMAIN w.recorded \cup {t}
               /\ \A u \in DOMAIN w.recorded \ {t} : v.recorded[u] = w.recorded[u]
<1> DEFINE R == Texturing!Stored(w.recorded, t, [name |-> name, hash |-> hash])
           v == Texturing!SessionRecord(w, t, name, hash)
<1>1. /\ DOMAIN R = DOMAIN w.recorded \cup {t} /\ R[t] = [name |-> name, hash |-> hash]
      /\ \A u \in DOMAIN w.recorded \ {t} : R[u] = w.recorded[u]
  BY DEF Texturing!Stored
<1>2. v = [[w EXCEPT !.recorded = R] EXCEPT !.astray = w.astray \ {t}]
  BY DEF Texturing!SessionRecord, FineBut, Shaped
<1> HIDE DEF R, v
<1>3. /\ v.textures = w.textures /\ v.recorded = R /\ v.face = w.face /\ v.astray = w.astray \ {t} /\ Shaped(v)
  BY <1>2 DEF FineBut, Shaped
<1>4. \A u \in DOMAIN v.recorded \ v.astray : Right(v, u)
  <2> SUFFICES ASSUME NEW u \in DOMAIN v.recorded \ v.astray PROVE Right(v, u)
    OBVIOUS
  <2>1. CASE u = t
    BY <1>1, <1>3, <2>1 DEF Right
  <2>2. CASE u # t
    <3>1. u \in DOMAIN w.recorded \ w.astray
      BY <1>1, <1>3, <2>2
    <3> QED BY <1>1, <1>3, <2>2, <3>1 DEF FineBut, Right
  <2> QED BY <2>1, <2>2
<1>5. Fine(v)
  BY <1>3, <1>4 DEF Fine, FineBut
<1> QED BY <1>1, <1>3, <1>5 DEF v

LEMMA StrayFine ==
    ASSUME NEW w, NEW t, FineBut(w, t)
    PROVE  LET v == Texturing!Stray(w, t)
           IN  Fine(v) /\ v.textures = w.textures /\ v.recorded = w.recorded /\ v.face = w.face
<1> DEFINE A == w.astray \cup ({t} \cap DOMAIN w.recorded)
           v == Texturing!Stray(w, t)
<1>1. v = [textures |-> w.textures, recorded |-> w.recorded, face |-> w.face, astray |-> A]
  BY DEF Texturing!Stray, FineBut, Shaped
<1>2. DOMAIN w.recorded \ A = (DOMAIN w.recorded \ w.astray) \ {t}
  OBVIOUS
<1> HIDE DEF A, v
<1>3. v.textures = w.textures /\ v.recorded = w.recorded /\ v.face = w.face /\ v.astray = A /\ Shaped(v)
  BY <1>1 DEF Shaped
<1>4. \A u \in DOMAIN v.recorded \ v.astray : Right(v, u)
  BY <1>2, <1>3 DEF FineBut, Right
<1>5. Fine(v)
  BY <1>3, <1>4 DEF Fine, FineBut
<1> QED BY <1>3, <1>5 DEF v

LEMMA StillFine ==
    ASSUME NEW w, NEW t, FineBut(w, t), t \in DOMAIN w.recorded => t \in w.astray
    PROVE  Fine(w)
BY DEF Fine, FineBut

\* A texture is painted anew.  The session is wrong about none for it, but a
\* texture that is astray may keep its old picture, refused as no change.
RepaintedEntry(w, v, t, image) ==
    /\ Fine(v) /\ DOMAIN v.textures = DOMAIN w.textures /\ DOMAIN v.recorded = DOMAIN w.recorded
    /\ v.face = w.face /\ v.astray \subseteq w.astray /\ w.astray \ {t} \subseteq v.astray
    /\ t \notin w.astray => v.textures[t].pic = image
    /\ \A u \in DOMAIN w.textures \ {t} : v.textures[u] = w.textures[u]
    /\ \A u \in DOMAIN w.recorded \ {t} : v.recorded[u] = w.recorded[u]
LEMMA RepaintFine ==
    ASSUME NEW w, Fine(w), NEW t \in DOMAIN w.textures, NEW image \in Texturing!Pictures
    PROVE  RepaintedEntry(w, Texturing!Repaint(w, t, image), t, image)
<1> DEFINE v == Texturing!Repaint(w, t, image)
           name == w.textures[t].name
           painted == Texturing!EditorPaint(w, t, name, image)
           told == Texturing!SessionRecord(painted, t, name, image)
<1>1. /\ FineBut(painted, t)
      /\ painted.recorded = w.recorded /\ painted.face = w.face /\ painted.astray = w.astray
      /\ DOMAIN painted.textures = DOMAIN w.textures /\ painted.textures[t] = [name |-> name, pic |-> image]
      /\ \A u \in DOMAIN w.textures \ {t} : painted.textures[u] = w.textures[u]
  <2>1. FineBut(w, t)
    BY FineIsFineBut
  <2>2. DOMAIN painted.textures = DOMAIN w.textures \cup {t} => DOMAIN painted.textures = DOMAIN w.textures
    OBVIOUS
  <2> HIDE DEF name
  <2> QED BY <2>1, <2>2, EditorPaintFine
<1>2. CASE Texturing!RecordedHash(w, t) = image
  <2>1. v = w
    BY <1>2 DEF Texturing!Repaint, Texturing!HashOf
  <2>2. t \in DOMAIN w.recorded /\ w.recorded[t].hash = image
    BY <1>2, TextureAssumption DEF Texturing!RecordedHash, Texturing!Pictures
  <2>3. ASSUME t \notin w.astray PROVE w.textures[t].pic = image
    <3>1. Right(w, t)
      BY <2>2, <2>3 DEF Fine
    <3> QED BY <2>2, <3>1 DEF Right
  <2> QED BY <2>1, <2>3 DEF RepaintedEntry
<1>3. CASE Texturing!RecordedHash(w, t) # image /\ Texturing!Known(w, t)
  <2>1. v = told
    BY <1>3 DEF Texturing!Repaint, Texturing!HashOf
  <2>2. t \in DOMAIN w.recorded
    BY <1>3 DEF Texturing!Known
  <2> HIDE DEF painted, v, name
  <2>3. /\ Fine(told) /\ told.textures = painted.textures /\ told.face = painted.face /\ told.astray = painted.astray \ {t}
        /\ DOMAIN told.recorded = DOMAIN painted.recorded \cup {t}
        /\ \A u \in DOMAIN painted.recorded \ {t} : told.recorded[u] = painted.recorded[u]
    BY <1>1, SessionRecordFine
  <2> HIDE DEF told
  <2> QED BY <1>1, <2>1, <2>2, <2>3 DEF RepaintedEntry, v
<1>4. CASE Texturing!RecordedHash(w, t) # image /\ ~Texturing!Known(w, t)
  <2>1. v = painted
    BY <1>4 DEF Texturing!Repaint, Texturing!HashOf
  <2>2. ASSUME t \in DOMAIN w.recorded, t \notin w.astray PROVE FALSE
    <3>1. Right(w, t)
      BY <2>2 DEF Fine
    <3>2. w.recorded[t].name = w.textures[t].name
      BY <3>1 DEF Right
    <3> QED BY <1>4, <2>2, <3>2 DEF Texturing!Known
  <2> HIDE DEF painted, v
  <2>3. Fine(painted)
    BY <1>1, <2>2, StillFine
  <2> QED BY <1>1, <2>1, <2>3 DEF RepaintedEntry, v
<1> QED BY <1>2, <1>3, <1>4

LEMMA PutBackFine ==
    ASSUME NEW w, Fine(w), NEW t \in DOMAIN w.textures, NEW backup \in Texturing!Pictures,
           NEW v \in Texturing!PutBackElement(w, t, backup)
    PROVE  Fine(v)
<1>1. w.textures[t].pic \in Texturing!Pictures
  BY DEF Fine
<1>2. PICK image \in {backup, w.textures[t].pic} :
        v = Texturing!Stray(Texturing!EditorPaint(w, t, w.textures[t].name, image), t)
  BY DEF Texturing!PutBackElement
<1> DEFINE painted == Texturing!EditorPaint(w, t, w.textures[t].name, image)
<1>3. image \in Texturing!Pictures
  BY <1>1, <1>2
<1>4. FineBut(painted, t)
  BY <1>3, FineIsFineBut, EditorPaintFine
<1> HIDE DEF painted
<1>5. Fine(Texturing!Stray(painted, t))
  BY <1>4, StrayFine
<1> QED BY <1>2, <1>5 DEF painted

-----------------------------------------------------------------------------
(* The atlas                                                               *)

LookIn(w, f) == IF w.face[f].texture \in DOMAIN w.textures THEN Texturing!Shows(w, f) ELSE Blank

\* Some textures get other pictures, as far as they are not astray; nothing else changes.
Repainted(w, v, images, done) ==
    /\ Fine(v) /\ DOMAIN v.textures = DOMAIN w.textures /\ v.face = w.face /\ v.astray \subseteq w.astray
    /\ \A t \in done \ w.astray : v.textures[t].pic = images[t]
LEMMA RepaintAllFine ==
    ASSUME NEW w, Fine(w), NEW images \in [DOMAIN w.textures -> Texturing!Pictures],
           NEW done \in SUBSET DOMAIN w.textures
    PROVE  Repainted(w, Texturing!RepaintAll(w, images, done), images, done)
<1> DEFINE New(t) == Texturing!Repaint(w, t, images[t])
           A == [t \in DOMAIN w.textures |-> IF t \in done THEN New(t).textures[t] ELSE w.textures[t]]
           B == [t \in DOMAIN w.recorded |-> IF t \in done THEN New(t).recorded[t] ELSE w.recorded[t]]
           C == {t \in w.astray : t \in done => t \in New(t).astray}
           v == Texturing!RepaintAll(w, images, done)
<1>1. v = [[[w EXCEPT !.textures = A] EXCEPT !.recorded = B] EXCEPT !.astray = C]
  BY DEF Texturing!RepaintAll, Fine, Shaped
<1>2. \A t \in done : RepaintedEntry(w, New(t), t, images[t])
  <2> SUFFICES ASSUME NEW t \in done PROVE RepaintedEntry(w, New(t), t, images[t])
    OBVIOUS
  <2>1. images[t] \in Texturing!Pictures
    OBVIOUS
  <2> QED BY <2>1, RepaintFine
<1>3. /\ DOMAIN A = DOMAIN w.textures /\ \A t \in DOMAIN w.textures : A[t] = IF t \in done THEN New(t).textures[t] ELSE w.textures[t]
      /\ DOMAIN B = DOMAIN w.recorded /\ \A t \in DOMAIN w.recorded : B[t] = IF t \in done THEN New(t).recorded[t] ELSE w.recorded[t]
      /\ C \subseteq w.astray /\ \A t \in w.astray \ C : t \in done /\ t \notin New(t).astray
  OBVIOUS
<1> HIDE DEF New, A, B, C, v
<1>4. v.textures = A /\ v.recorded = B /\ v.face = w.face /\ v.astray = C /\ Shaped(v)
  BY <1>1 DEF Fine, Shaped
<1>5. \A t \in DOMAIN v.textures : v.textures[t].pic \in Texturing!Pictures
  BY <1>2, <1>3, <1>4 DEF Fine, RepaintedEntry
<1>6. ASSUME NEW t \in DOMAIN v.recorded \ v.astray PROVE Right(v, t)
  <2>1. t \in DOMAIN w.recorded
    BY <1>3, <1>4
  <2>2. CASE t \in done
    <3>1. RepaintedEntry(w, New(t), t, images[t])
      BY <1>2, <2>2
    <3>2. t \notin New(t).astray
      BY <1>3, <1>4, <2>2, <3>1 DEF RepaintedEntry
    <3>3. Right(New(t), t)
      BY <2>1, <3>1, <3>2 DEF RepaintedEntry, Fine
    <3> QED BY <1>3, <1>4, <2>1, <2>2, <3>3 DEF Right
  <2>3. CASE t \notin done
    <3>1. Right(w, t)
      BY <1>3, <1>4, <2>1, <2>3 DEF Fine
    <3> QED BY <1>3, <1>4, <2>1, <2>3, <3>1 DEF Right
  <2> QED BY <2>2, <2>3
<1>7. Fine(v)
  BY <1>4, <1>5, <1>6 DEF Fine
<1>8. \A t \in done \ w.astray : v.textures[t].pic = images[t]
  BY <1>2, <1>3, <1>4 DEF RepaintedEntry
<1> QED BY <1>3, <1>4, <1>7, <1>8 DEF Repainted, v

\* Faces move within their textures.
LEMMA MoveFine ==
    ASSUME NEW w, Fine(w), NEW used \in SUBSET Side, NEW l \in [used -> Slot], NEW moved \in SUBSET used
    PROVE  LET v == Texturing!MoveFaces(w, l, moved)
           IN  /\ Fine(v) /\ v.textures = w.textures /\ v.astray = w.astray
               /\ \A f \in Side : /\ v.face[f].texture = w.face[f].texture
                                  /\ v.face[f].slot = IF f \in moved THEN l[f] ELSE w.face[f].slot
<1> DEFINE F == [f \in Side |-> IF f \in moved THEN [w.face[f] EXCEPT !.slot = l[f]] ELSE w.face[f]]
           v == Texturing!MoveFaces(w, l, moved)
<1>1. Shaped(w) /\ w.face \in [Side -> FaceRecord]
  BY DEF Fine
<1>2. v = [w EXCEPT !.face = F]
  BY <1>1 DEF Texturing!MoveFaces
<1>3. \A f \in Side : /\ F[f] \in FaceRecord
                      /\ F[f].texture = w.face[f].texture
                      /\ F[f].slot = IF f \in moved THEN l[f] ELSE w.face[f].slot
  <2> SUFFICES ASSUME NEW f \in Side
               PROVE  /\ F[f] \in FaceRecord
                      /\ F[f].texture = w.face[f].texture
                      /\ F[f].slot = IF f \in moved THEN l[f] ELSE w.face[f].slot
    OBVIOUS
  <2>1. w.face[f] \in FaceRecord
    BY <1>1
  <2>2. CASE f \in moved
    BY <2>1, <2>2 DEF FaceRecord
  <2>3. CASE f \notin moved
    BY <2>1, <2>3 DEF FaceRecord
  <2> QED BY <2>2, <2>3
<1>4. F \in [Side -> FaceRecord]
  BY <1>3
<1> HIDE DEF F, v
<1>5. /\ v.textures = w.textures /\ v.recorded = w.recorded /\ v.face = F /\ v.astray = w.astray /\ Shaped(v)
  BY <1>1, <1>2 DEF Shaped
<1>6. Fine(v)
  BY <1>4, <1>5 DEF Fine, Right
<1> QED BY <1>3, <1>5, <1>6 DEF v

\* What an atlas leaves: the faces it keeps look as before, but for those of
\* textures that are astray.
Atlased(w, v, kept) ==
    /\ Fine(v) /\ DOMAIN v.textures = DOMAIN w.textures /\ v.astray \subseteq w.astray
    /\ \A f \in Side : v.face[f].texture = w.face[f].texture
    /\ \A f \in kept \cap Side : w.face[f].texture \notin w.astray => LookIn(v, f) = LookIn(w, f)

LEMMA AtlasDoneFine ==
    ASSUME NEW w, Fine(w), NEW r \in Texturing!AtlasDone(w)
    PROVE  Atlased(w, r.world, r.kept)
<1>1. PICK l \in Texturing!Laid(w) : \E whole \in SUBSET {f \in Texturing!Used(w) : w.face[f].slot # None} :
        \E i \in Texturing!Images(w, l, whole) :
          r = [kept |-> Texturing!Kept(w, whole),
               world |-> Texturing!MoveFaces(Texturing!RepaintAll(w, i, DOMAIN w.textures), l, Texturing!Used(w))]
  BY DEF Texturing!AtlasDone
<1>2. PICK whole \in SUBSET {f \in Texturing!Used(w) : w.face[f].slot # None} : \E i \in Texturing!Images(w, l, whole) :
          r = [kept |-> Texturing!Kept(w, whole),
               world |-> Texturing!MoveFaces(Texturing!RepaintAll(w, i, DOMAIN w.textures), l, Texturing!Used(w))]
  BY <1>1
<1>3. PICK i \in Texturing!Images(w, l, whole) :
          r = [kept |-> Texturing!Kept(w, whole),
               world |-> Texturing!MoveFaces(Texturing!RepaintAll(w, i, DOMAIN w.textures), l, Texturing!Used(w))]
  BY <1>2
<1> DEFINE v == Texturing!RepaintAll(w, i, DOMAIN w.textures)
           used == Texturing!Used(w)
           u == Texturing!MoveFaces(v, l, used)
<1>4. l \in Texturing!Layouts(w)
  BY <1>1 DEF Texturing!Laid
<1>5. /\ l \in [used -> Slot] /\ used \in SUBSET Side
      /\ \A f, g \in used : f # g /\ w.face[f].texture = w.face[g].texture => l[f] # l[g]
      /\ \A f \in Side : f \in used <=> w.face[f].texture \in DOMAIN w.textures
  BY <1>4 DEF Texturing!Layouts, Texturing!Used
<1>6. /\ i \in [DOMAIN w.textures -> Texturing!Pictures]
      /\ \A t \in DOMAIN w.textures : Texturing!Reprojected(w, t, l, whole, i[t])
  BY DEF Texturing!Images
<1>7. Repainted(w, v, i, DOMAIN w.textures)
  BY <1>6, RepaintAllFine
<1>8. r.world = u /\ r.kept = Texturing!Kept(w, whole)
  BY <1>3
<1> HIDE DEF v, used
<1>9. /\ Fine(u) /\ u.textures = v.textures /\ u.astray = v.astray
      /\ \A f \in Side : /\ u.face[f].texture = v.face[f].texture
                         /\ u.face[f].slot = IF f \in used THEN l[f] ELSE v.face[f].slot
  <2>1. Fine(v)
    BY <1>7 DEF Repainted
  <2> QED BY <1>5, <2>1, MoveFine
<1> HIDE DEF u
<1>10. ASSUME NEW f \in Texturing!Kept(w, whole), f \in Side, w.face[f].texture \notin w.astray
       PROVE  LookIn(u, f) = LookIn(w, f)
  <2>1. CASE f \notin used
    <3>1. u.face[f].texture = w.face[f].texture /\ DOMAIN u.textures = DOMAIN w.textures
      BY <1>7, <1>9, <1>10 DEF Repainted
    <3>2. w.face[f].texture \notin DOMAIN w.textures
      BY <1>5, <1>10, <2>1
    <3> QED BY <3>1, <3>2 DEF LookIn
  <2>2. CASE f \in used
    <3> DEFINE t == w.face[f].texture
               s == l[f]
               before == w.textures[t].pic
    <3>1. t \in DOMAIN w.textures /\ s \in Slot
      BY <1>5, <2>2
    <3>2. LookIn(u, f) = i[t][s]
      <4>1. u.face[f].texture = t /\ u.face[f].slot = s /\ t \in DOMAIN u.textures
        BY <1>5, <1>7, <1>9, <2>2 DEF Repainted
      <4>2. u.textures[t].pic = i[t]
        BY <1>7, <1>9, <1>10, <3>1 DEF Repainted
      <4>3. s # None
        BY <3>1, TextureAssumption
      <4> HIDE DEF t, s
      <4> QED BY <4>1, <4>2, <4>3 DEF LookIn, Texturing!Shows
    <3>3. Texturing!Reprojected(w, t, l, whole, i[t])
      BY <1>6, <3>1
    <3>4. LookIn(w, f) = Texturing!Shows(w, f)
      BY <3>1 DEF LookIn
    <3>5. \A g \in Texturing!Movers(w, t, l, s) : g = f
      <4>1. \A g \in Texturing!Movers(w, t, l, s) : g \in Side /\ w.face[g].texture = t /\ l[g] = s
        BY DEF Texturing!Movers, Texturing!Mapped, Texturing!Users
      <4>2. \A g \in Texturing!Movers(w, t, l, s) : g \in used
        BY <1>5, <3>1, <4>1
      <4> QED BY <1>5, <2>2, <4>1, <4>2
    <3>6. w.face[f].slot # None => f \in Texturing!Movers(w, t, l, s)
      BY <1>10 DEF Texturing!Movers, Texturing!Mapped, Texturing!Users
    <3>7. w.face[f].slot = None => f \notin Texturing!Movers(w, t, l, s)
      BY DEF Texturing!Movers, Texturing!Mapped
    <3>8. Texturing!Mapped(w, t) # {}
          => /\ Texturing!Movers(w, t, l, s) = {} => i[t][s] = Blank
             /\ \A g \in Texturing!Movers(w, t, l, s) :
                   i[t][s] \in IF g \in whole THEN {before[w.face[g].slot]} ELSE Texturing!Redrawn(before[w.face[g].slot])
      BY <3>1, <3>3 DEF Texturing!Reprojected
    <3>9. \/ f \in whole
          \/ Texturing!Shows(w, f) = Blank /\ Texturing!Mapped(w, t) # {}
      BY <1>10, <2>2 DEF Texturing!Kept, used
    <3>10. w.face[f].slot # None => Texturing!Shows(w, f) = before[w.face[f].slot] /\ Texturing!Mapped(w, t) # {}
      <4>1. w.face[f].slot # None => f \in Texturing!Mapped(w, t)
        BY <1>10 DEF Texturing!Mapped, Texturing!Users
      <4> QED BY <4>1 DEF Texturing!Shows
    <3> HIDE DEF t, s, before
    <3>11. CASE f \in whole
      <4>1. w.face[f].slot # None
        BY <1>2, <3>11
      <4> QED BY <3>2, <3>4, <3>6, <3>8, <3>10, <3>11, <4>1
    <3>12. CASE w.face[f].slot # None /\ f \notin whole
      <4>1. i[t][s] \in Texturing!Redrawn(before[w.face[f].slot])
        BY <3>6, <3>8, <3>10, <3>12
      <4>2. before[w.face[f].slot] = Blank
        BY <3>9, <3>10, <3>12
      <4> QED BY <3>2, <3>4, <3>9, <3>12, <4>1, <4>2 DEF Texturing!Redrawn
    <3>13. CASE w.face[f].slot = None /\ f \notin whole
      <4>1. Texturing!Movers(w, t, l, s) = {}
        BY <3>5, <3>7, <3>13
      <4> QED BY <3>2, <3>4, <3>8, <3>9, <3>13, <4>1
    <3> QED BY <3>11, <3>12, <3>13
  <2> QED BY <2>1, <2>2
<1>11. Atlased(w, u, Texturing!Kept(w, whole))
  BY <1>7, <1>9, <1>10 DEF Atlased, Repainted
<1> QED BY <1>8, <1>11

LEMMA AtlasFailuresFine ==
    ASSUME NEW w, Fine(w), NEW l \in Texturing!Layouts(w), NEW i \in [DOMAIN w.textures -> Texturing!Pictures],
           NEW v \in Texturing!AtlasFailures(w, l, i)
    PROVE  Fine(v)
<1> DEFINE After(done) == Texturing!RepaintAll(w, i, done)
           Undone(done) == {t \in done : Texturing!MayLose(w.textures[t].pic, After(done).textures[t].pic)}
<1>1. \/ \E done \in SUBSET DOMAIN w.textures : v = After(done)
      \/ \E done \in SUBSET DOMAIN w.textures : \E t \in done : v \in Texturing!RolledBack(After(done), t, w.textures[t].pic)
      \/ \E m \in SUBSET Texturing!Used(w) : v = Texturing!MoveFaces(After(DOMAIN w.textures), l, m)
  <2>1. v \in UNION {{After(done)} \cup UNION {Texturing!RolledBack(After(done), t, w.textures[t].pic) : t \in Undone(done)} :
                       done \in SUBSET DOMAIN w.textures}
        \/ v \in {Texturing!MoveFaces(After(DOMAIN w.textures), l, m) : m \in SUBSET Texturing!Used(w)}
    BY DEF Texturing!AtlasFailures
  <2>2. \A done \in SUBSET DOMAIN w.textures : Undone(done) \subseteq done
    OBVIOUS
  <2> HIDE DEF After, Undone
  <2>3. CASE v \in {Texturing!MoveFaces(After(DOMAIN w.textures), l, m) : m \in SUBSET Texturing!Used(w)}
    BY <2>3
  <2>4. CASE v \in UNION {{After(done)} \cup UNION {Texturing!RolledBack(After(done), t, w.textures[t].pic) : t \in Undone(done)} :
                            done \in SUBSET DOMAIN w.textures}
    <3>1. PICK done \in SUBSET DOMAIN w.textures :
            v \in {After(done)} \cup UNION {Texturing!RolledBack(After(done), t, w.textures[t].pic) : t \in Undone(done)}
      BY <2>4
    <3>2. v = After(done) \/ \E t \in Undone(done) : v \in Texturing!RolledBack(After(done), t, w.textures[t].pic)
      BY <3>1
    <3> QED BY <2>2, <3>1, <3>2
  <2> QED BY <2>1, <2>3, <2>4
<1>2. \A done \in SUBSET DOMAIN w.textures : Fine(After(done)) /\ DOMAIN After(done).textures = DOMAIN w.textures
  BY RepaintAllFine DEF Repainted
<1>3. \A t \in DOMAIN w.textures : w.textures[t].pic \in Texturing!Pictures
  BY DEF Fine
<1> HIDE DEF After
<1>4. ASSUME NEW done \in SUBSET DOMAIN w.textures, NEW t \in done, v \in Texturing!RolledBack(After(done), t, w.textures[t].pic)
      PROVE  Fine(v)
  <2>1. /\ Fine(After(done)) /\ t \in DOMAIN After(done).textures /\ w.textures[t].pic \in Texturing!Pictures
    BY <1>2, <1>3
  <2>2. \/ v = Texturing!Repaint(After(done), t, w.textures[t].pic)
        \/ v \in Texturing!PutBackElement(After(done), t, w.textures[t].pic)
    BY <1>4 DEF Texturing!RolledBack
  <2> QED BY <2>1, <2>2, RepaintFine, PutBackFine DEF RepaintedEntry
<1>5. ASSUME NEW m \in SUBSET Texturing!Used(w), v = Texturing!MoveFaces(After(DOMAIN w.textures), l, m)
      PROVE  Fine(v)
  <2>1. Texturing!Used(w) \in SUBSET Side /\ l \in [Texturing!Used(w) -> Slot]
    BY DEF Texturing!Layouts, Texturing!Used
  <2>2. Fine(After(DOMAIN w.textures))
    BY <1>2
  <2> QED BY <1>5, <2>1, <2>2, MoveFine
<1> QED BY <1>1, <1>2, <1>4, <1>5

LEMMA AtlasFailedFine ==
    ASSUME NEW w, Fine(w), NEW v \in Texturing!AtlasFailed(w)
    PROVE  Fine(v)
<1>1. v = w \/ \E l \in Texturing!Laid(w) : \E i \in Texturing!Images(w, l, {}) : v \in Texturing!AtlasFailures(w, l, i)
  BY DEF Texturing!AtlasFailed
<1>2. \A l \in Texturing!Laid(w) : l \in Texturing!Layouts(w)
  BY DEF Texturing!Laid
<1>3. \A l : \A i \in Texturing!Images(w, l, {}) : i \in [DOMAIN w.textures -> Texturing!Pictures]
  BY DEF Texturing!Images
<1> QED BY <1>1, <1>2, <1>3, AtlasFailuresFine

-----------------------------------------------------------------------------
(* The paint                                                               *)

\* A paint puts its ink on its faces, when it is in face space, and leaves all
\* others, but for those of textures that are astray.
PaintedFaces(w, v, fs, space, ink, kept) ==
    \A f \in Side : v.face[f].texture \notin w.astray =>
        /\ f \in fs /\ space = "face" /\ v.face[f].slot # None => LookIn(v, f) = ink
        /\ f \in kept \ fs => LookIn(v, f) = LookIn(w, f)

LEMMA PaintedPicsType ==
    ASSUME NEW w, Fine(w), NEW fs \in SUBSET Side, NEW t \in DOMAIN w.textures, NEW space, NEW ink \in Ink,
           NEW shade \in Texturing!PaintedPics(w, fs, t, space, ink)
    PROVE  /\ shade \in Texturing!Pictures
           /\ \E slots \in SUBSET Texturing!TargetSlots(w, fs) :
                /\ space = "face" => slots = Texturing!TargetSlots(w, fs)
                /\ \A s \in Slot : shade[s] = IF s \in slots THEN ink ELSE w.textures[t].pic[s]
<1>1. PICK slots \in {r \in SUBSET Texturing!TargetSlots(w, fs) : space = "face" => r = Texturing!TargetSlots(w, fs)} :
        shade = [s \in Slot |-> IF s \in slots THEN ink ELSE w.textures[t].pic[s]]
  BY DEF Texturing!PaintedPics, Texturing!SourcePic
<1>2. w.textures[t].pic \in [Slot -> Ink \cup {Blank}]
  BY DEF Fine, Texturing!Pictures
<1> QED BY <1>1, <1>2 DEF Texturing!Pictures

LEMMA PassRight ==
    ASSUME NEW w, Fine(w), NEW fs \in SUBSET Side, NEW t \in DOMAIN w.textures, NEW space, NEW ink \in Ink,
           NEW v \in Texturing!PassDone(w, fs, t, space, ink)
    PROVE  /\ Fine(v) /\ DOMAIN v.textures = DOMAIN w.textures /\ v.face = w.face
           /\ (\A f \in fs : w.face[f].texture = t) => PaintedFaces(w, v, fs, space, ink, Side)
<1>1. PICK shade \in Texturing!PaintedPics(w, fs, t, space, ink) : v = Texturing!Repaint(w, t, shade)
  BY DEF Texturing!PassDone
<1>2. ~Texturing!Overlapping(w, t)
  BY DEF Texturing!PassDone, Texturing!PreflightPasses, Texturing!GuardPasses
<1>3. /\ shade \in Texturing!Pictures
      /\ \E slots \in SUBSET Texturing!TargetSlots(w, fs) :
           /\ space = "face" => slots = Texturing!TargetSlots(w, fs)
           /\ \A s \in Slot : shade[s] = IF s \in slots THEN ink ELSE w.textures[t].pic[s]
  BY PaintedPicsType
<1>4. PICK slots \in SUBSET Texturing!TargetSlots(w, fs) :
        /\ space = "face" => slots = Texturing!TargetSlots(w, fs)
        /\ \A s \in Slot : shade[s] = IF s \in slots THEN ink ELSE w.textures[t].pic[s]
  BY <1>3
<1>5. RepaintedEntry(w, v, t, shade)
  BY <1>1, <1>3, RepaintFine
<1>6. ASSUME \A f \in fs : w.face[f].texture = t, NEW f \in Side, v.face[f].texture \notin w.astray
      PROVE  /\ f \in fs /\ space = "face" /\ v.face[f].slot # None => LookIn(v, f) = ink
             /\ f \in Side \ fs => LookIn(v, f) = LookIn(w, f)
  <2> DEFINE s == w.face[f].slot
             u == w.face[f].texture
  <2>1. v.face[f].slot = s /\ v.face[f].texture = u /\ u \notin w.astray /\ DOMAIN v.textures = DOMAIN w.textures
    BY <1>5, <1>6 DEF RepaintedEntry
  <2>2. s \in Slot \cup {None}
    BY DEF Fine, FaceRecord
  <2>3. ASSUME f \in fs, space = "face", s # None PROVE LookIn(v, f) = ink
    <3>1. u = t /\ v.textures[t].pic = shade
      BY <1>5, <1>6, <2>1, <2>3 DEF RepaintedEntry
    <3>2. s \in slots
      BY <1>4, <2>3 DEF Texturing!TargetSlots
    <3>3. shade[s] = ink
      BY <1>4, <2>2, <2>3, <3>2
    <3> HIDE DEF s, u
    <3> QED BY <2>1, <2>3, <3>1, <3>3 DEF LookIn, Texturing!Shows
  <2>4. ASSUME f \notin fs PROVE LookIn(v, f) = LookIn(w, f)
    <3>1. CASE u # t \/ s = None
      <4> HIDE DEF s, u
      <4>1. u \in DOMAIN w.textures => v.textures[u] = w.textures[u] \/ s = None
        BY <1>5, <3>1 DEF RepaintedEntry
      <4> QED BY <2>1, <4>1 DEF LookIn, Texturing!Shows, s, u
    <3>2. CASE u = t /\ s # None
      <4>1. s \notin slots
        <5>1. \A g \in fs : w.face[g].slot = s => Texturing!Overlapping(w, t)
          BY <1>6, <2>4, <3>2 DEF Texturing!Overlapping, Texturing!Mapped, Texturing!Users
        <5> QED BY <1>2, <1>4, <5>1 DEF Texturing!TargetSlots
      <4>2. shade[s] = w.textures[t].pic[s] /\ v.textures[t].pic = shade
        BY <1>4, <1>5, <2>1, <2>2, <3>2, <4>1 DEF RepaintedEntry
      <4> HIDE DEF s, u
      <4> QED BY <2>1, <3>2, <4>2 DEF LookIn, Texturing!Shows, s, u
    <3> QED BY <3>1, <3>2
  <2> QED BY <2>1, <2>3, <2>4
<1> QED BY <1>5, <1>6 DEF RepaintedEntry, PaintedFaces

LEMMA PassFailedFine ==
    ASSUME NEW w, Fine(w), NEW fs \in SUBSET Side, NEW t \in DOMAIN w.textures, NEW ink \in Ink,
           NEW backup \in Texturing!Pictures, NEW n, NEW v \in Texturing!PassFailed(w, fs, t, ink, backup, n)
    PROVE  Fine(v)
<1>1. \/ v = w
      \/ \E p \in Texturing!PassDone(w, fs, t, "texture", ink) : v = p \/ v \in Texturing!PutBackElement(p, t, backup)
  BY DEF Texturing!PassFailed
<1>2. ASSUME NEW p \in Texturing!PassDone(w, fs, t, "texture", ink), v = p \/ v \in Texturing!PutBackElement(p, t, backup)
      PROVE  Fine(v)
  <2>1. Fine(p) /\ t \in DOMAIN p.textures
    BY PassRight
  <2> QED BY <1>2, <2>1, PutBackFine
<1> QED BY <1>1, <1>2

LEMMA RecoveredOnce ==
    ASSUME NEW w, NEW v, NEW kept, Atlased(w, v, kept), NEW a \in Texturing!AtlasDone(v)
    PROVE  Atlased(w, a.world, kept \cap a.kept)
<1>1. Fine(v)
  BY DEF Atlased
<1>2. Atlased(v, a.world, a.kept)
  BY <1>1, AtlasDoneFine
<1> QED BY <1>2 DEF Atlased

LEMMA RecoveredFine ==
    ASSUME NEW w, Fine(w), NEW n \in {0, 1, 2}, NEW r \in Texturing!Recovered(w, n)
    PROVE  Atlased(w, r.world, r.kept)
<1> DEFINE Onward(rs) ==
             UNION {{[kept |-> q.kept \cap a.kept, world |-> a.world] : a \in Texturing!AtlasDone(q.world)} : q \in rs}
           All(rs) == \A q \in rs : Atlased(w, q.world, q.kept)
           start == {[kept |-> Side, world |-> w]}
<1>1. All(start)
  BY DEF Atlased
<1>2. ASSUME NEW rs, All(rs) PROVE All(Onward(rs))
  <2>1. SUFFICES ASSUME NEW q \in rs, NEW a \in Texturing!AtlasDone(q.world)
                 PROVE  Atlased(w, a.world, q.kept \cap a.kept)
    OBVIOUS
  <2> QED BY <1>2, RecoveredOnce
<1>3. All(Onward(start))
  BY <1>1, <1>2
<1>4. All(Onward(Onward(start)))
  BY <1>2, <1>3
<1>5. r \in start \/ r \in Onward(start) \/ r \in Onward(Onward(start))
  <2> HIDE DEF start
  <2> QED BY DEF Texturing!Recovered, start
<1> HIDE DEF Onward, start
<1> QED BY <1>1, <1>3, <1>4, <1>5

\* The faces fs have texture t, and nothing else has changed.
HasAssigned(w, v, fs, t) ==
    /\ Fine(v) /\ v.textures = w.textures /\ v.astray = w.astray
    /\ \A f \in fs : v.face[f].texture = t
    /\ \A f \in Side \ fs : v.face[f] = w.face[f]
LEMMA AssignFine ==
    ASSUME NEW w, Fine(w), NEW fs \in SUBSET Side, NEW t \in Texture
    PROVE  HasAssigned(w, Texturing!Assigned(w, fs, t), fs, t)
<1> DEFINE F == [f \in Side |-> IF f \in fs THEN [w.face[f] EXCEPT !.texture = t] ELSE w.face[f]]
           v == Texturing!Assigned(w, fs, t)
<1>1. Shaped(w) /\ w.face \in [Side -> FaceRecord]
  BY DEF Fine
<1>2. v = [w EXCEPT !.face = F]
  BY <1>1 DEF Texturing!Assigned
<1>3. \A f \in Side : /\ F[f] \in FaceRecord
                      /\ f \in fs => F[f].texture = t
                      /\ f \notin fs => F[f] = w.face[f]
  <2> SUFFICES ASSUME NEW f \in Side
               PROVE  F[f] \in FaceRecord /\ (f \in fs => F[f].texture = t) /\ (f \notin fs => F[f] = w.face[f])
    OBVIOUS
  <2>1. w.face[f] \in FaceRecord
    BY <1>1
  <2>2. CASE f \in fs
    BY <2>1, <2>2 DEF FaceRecord
  <2>3. CASE f \notin fs
    BY <2>1, <2>3
  <2> QED BY <2>2, <2>3
<1>4. F \in [Side -> FaceRecord]
  BY <1>3
<1> HIDE DEF F, v
<1>5. v.textures = w.textures /\ v.recorded = w.recorded /\ v.face = F /\ v.astray = w.astray /\ Shaped(v)
  BY <1>1, <1>2 DEF Shaped
<1>6. Fine(v)
  BY <1>4, <1>5 DEF Fine, Right
<1>7. HasAssigned(w, v, fs, t)
  BY <1>3, <1>5, <1>6 DEF HasAssigned
<1> QED BY <1>7 DEF v

LEMMA RoundsAre == Texturing!Rounds \in {0, 1, 2} /\ \A n \in 0..Texturing!Rounds : n \in {0, 1, 2}
BY TextureAssumption DEF Texturing!Rounds

\* What the lemmas say of a paint that begins in a world: it begins by assigning.
LEMMA PaintDoneRight ==
    ASSUME NEW w, Fine(w), NEW fs \in SUBSET Side, NEW t \in Texture, t \in DOMAIN w.textures, NEW space, NEW ink \in Ink,
           NEW r \in Texturing!PaintDone(w, fs, t, space, ink)
    PROVE  Fine(r.world) /\ PaintedFaces(w, r.world, fs, space, ink, r.kept)
<1> DEFINE assigned == Texturing!Assigned(w, fs, t)
<1>1. PICK n \in Texturing!Ready(assigned) : \E q \in Texturing!Recovered(assigned, n) :
        \E v \in Texturing!PassDone(q.world, fs, t, space, ink) : r = [kept |-> q.kept, world |-> v]
  BY DEF Texturing!PaintDone
<1>2. PICK q \in Texturing!Recovered(assigned, n) :
        \E v \in Texturing!PassDone(q.world, fs, t, space, ink) : r = [kept |-> q.kept, world |-> v]
  BY <1>1
<1>3. PICK v \in Texturing!PassDone(q.world, fs, t, space, ink) : r = [kept |-> q.kept, world |-> v]
  BY <1>2
<1>4. n \in {0, 1, 2}
  BY <1>1, RoundsAre DEF Texturing!Ready
<1>5. HasAssigned(w, assigned, fs, t)
  BY AssignFine
<1> HIDE DEF assigned
<1>6. Atlased(assigned, q.world, q.kept)
  BY <1>4, <1>5, RecoveredFine DEF HasAssigned
<1>7. Fine(q.world) /\ t \in DOMAIN q.world.textures /\ \A f \in fs : q.world.face[f].texture = t
  BY <1>5, <1>6 DEF Atlased, HasAssigned
<1>8. Fine(v) /\ v.face = q.world.face /\ PaintedFaces(q.world, v, fs, space, ink, Side)
  BY <1>7, PassRight
<1>9. \A f \in q.kept \cap Side : w.face[f].texture \notin w.astray /\ f \notin fs => LookIn(q.world, f) = LookIn(w, f)
  <2>1. \A f \in Side \ fs : LookIn(assigned, f) = LookIn(w, f)
    BY <1>5 DEF LookIn, Texturing!Shows, HasAssigned
  <2> QED BY <1>5, <1>6, <2>1 DEF Atlased, HasAssigned
<1>10. PaintedFaces(w, v, fs, space, ink, q.kept)
  <2> SUFFICES ASSUME NEW f \in Side, v.face[f].texture \notin w.astray
               PROVE  /\ f \in fs /\ space = "face" /\ v.face[f].slot # None => LookIn(v, f) = ink
                      /\ f \in q.kept \ fs => LookIn(v, f) = LookIn(w, f)
    BY DEF PaintedFaces
  <2>1. v.face[f].texture \notin q.world.astray
    BY <1>5, <1>6 DEF Atlased, HasAssigned
  <2>2. f \notin fs => v.face[f].texture = w.face[f].texture
    BY <1>5, <1>6, <1>8 DEF Atlased, HasAssigned
  <2> QED BY <1>8, <1>9, <2>1, <2>2 DEF PaintedFaces
<1> QED BY <1>3, <1>8, <1>10

LEMMA PaintFailedFine ==
    ASSUME NEW w, Fine(w), NEW fs \in SUBSET Side, NEW t \in Texture, t \in DOMAIN w.textures, NEW ink \in Ink,
           NEW v \in Texturing!PaintFailed(w, fs, t, ink)
    PROVE  Fine(v)
<1> DEFINE assigned == Texturing!Assigned(w, fs, t)
           backup == w.textures[t].pic
<1>1. Fine(assigned) /\ assigned.textures = w.textures
  BY AssignFine DEF HasAssigned
<1>2. backup \in Texturing!Pictures
  BY DEF Fine
<1>3. \/ \E gs \in SUBSET fs : v = Texturing!Assigned(w, gs, t)
      \/ \E n \in 0..Texturing!Rounds : \E q \in Texturing!Left(assigned, n) : v \in Texturing!AtlasFailed(q)
      \/ \E n \in 0..Texturing!Rounds : \E q \in Texturing!Left(assigned, n) :
           v \in Texturing!PassFailed(q, fs, t, ink, backup, n)
  BY DEF Texturing!PaintFailed, Texturing!Ready
<1> HIDE DEF assigned, backup
<1>4. ASSUME NEW gs \in SUBSET fs, v = Texturing!Assigned(w, gs, t) PROVE Fine(v)
  <2>1. gs \in SUBSET Side
    OBVIOUS
  <2> QED BY <1>4, <2>1, AssignFine DEF HasAssigned
<1>5. ASSUME NEW n \in 0..Texturing!Rounds, NEW q \in Texturing!Left(assigned, n)
      PROVE  Fine(q) /\ t \in DOMAIN q.textures
  <2>1. PICK r \in Texturing!Recovered(assigned, n) : q = r.world
    BY DEF Texturing!Left
  <2>2. n \in {0, 1, 2}
    BY RoundsAre
  <2>3. Atlased(assigned, q, r.kept)
    BY <1>1, <2>1, <2>2, RecoveredFine
  <2> QED BY <1>1, <2>3 DEF Atlased
<1>6. ASSUME NEW n \in 0..Texturing!Rounds, NEW q \in Texturing!Left(assigned, n), v \in Texturing!AtlasFailed(q)
      PROVE  Fine(v)
  <2>1. Fine(q)
    BY <1>5
  <2> QED BY <1>6, <2>1, AtlasFailedFine
<1>7. ASSUME NEW n \in 0..Texturing!Rounds, NEW q \in Texturing!Left(assigned, n),
             v \in Texturing!PassFailed(q, fs, t, ink, backup, n)
      PROVE  Fine(v)
  <2>1. Fine(q) /\ t \in DOMAIN q.textures
    BY <1>5
  <2> QED BY <1>2, <1>7, <2>1, PassFailedFine
<1> QED BY <1>3, <1>4, <1>6, <1>7

-----------------------------------------------------------------------------
(* The steps                                                               *)

TextureInv == Fine(Texturing!World)
LEMMA WorldIs ==
    /\ Texturing!World.textures = textures /\ Texturing!World.recorded = recorded
    /\ Texturing!World.face = face /\ Texturing!World.astray = astray
BY DEF Texturing!World

\* The world a step leaves is the one its tool made.
LEMMA BecomeFine ==
    ASSUME NEW w, Fine(w), Texturing!Become(w)
    PROVE  TextureInv' /\ Texturing!World' = w
<1>1. Texturing!World' = w
  BY DEF Texturing!Become, Texturing!World, Fine, Shaped
<1>2. textures' = w.textures /\ recorded' = w.recorded /\ face' = w.face /\ astray' = w.astray
  BY DEF Texturing!Become
<1>3. TextureInv'
  BY <1>2 DEF TextureInv, Texturing!World, Fine, Shaped, Right
<1> QED BY <1>1, <1>3

LEMMA LooksAre ==
    ASSUME NEW w, Texturing!World' = w, NEW f \in Side
    PROVE  /\ Texturing!Look(f) = LookIn(Texturing!World, f)
           /\ Texturing!Look(f)' = LookIn(w, f)
           /\ face'[f] = w.face[f]
<1>1. Texturing!Look(f) = LookIn(Texturing!World, f)
  BY DEF Texturing!Look, LookIn, Texturing!Used
<1>2. face' = w.face /\ textures' = w.textures
  BY DEF Texturing!World
<1>3. Texturing!Look(f)' = LookIn(w, f)
  BY <1>2 DEF Texturing!Look, LookIn, Texturing!Used, Texturing!Shows, Texturing!World
<1> QED BY <1>1, <1>2, <1>3

LEMMA AddedFine ==
    ASSUME TextureInv, NEW t, Texturing!Unknown(t), NEW name, NEW image \in Texturing!Pictures
    PROVE  /\ Fine(Texturing!Added(t, name, image)) /\ Fine(Texturing!AddedEmpty(t, name))
           /\ LET w == Texturing!Added(t, name, image)
              IN  /\ w.face = face /\ w.astray \subseteq astray
                  /\ DOMAIN w.textures = DOMAIN textures \cup {t} /\ w.textures[t].pic = image
                  /\ \A u \in DOMAIN textures : u # t /\ w.textures[u] = textures[u]
<1> DEFINE v == Texturing!EditorPaint(Texturing!World, t, name, image)
           w == Texturing!SessionRecord(v, t, name, image)
           empty == Texturing!EditorPaint(Texturing!World, t, name, Texturing!BlankPic)
<1>1. FineBut(Texturing!World, t)
  BY FineIsFineBut DEF TextureInv
<1>2. /\ FineBut(v, t) /\ v.recorded = recorded /\ v.face = face /\ v.astray = astray
      /\ DOMAIN v.textures = DOMAIN textures \cup {t} /\ v.textures[t] = [name |-> name, pic |-> image]
      /\ \A u \in DOMAIN textures \ {t} : v.textures[u] = textures[u]
  BY <1>1, EditorPaintFine, WorldIs
<1>3. Texturing!BlankPic \in Texturing!Pictures
  BY DEF Texturing!BlankPic, Texturing!Pictures
<1>4. FineBut(empty, t) /\ empty.recorded = recorded
  <2>1. /\ FineBut(empty, t) /\ empty.recorded = recorded /\ empty.face = face /\ empty.astray = astray
        /\ DOMAIN empty.textures = DOMAIN textures \cup {t} /\ empty.textures[t] = [name |-> name, pic |-> Texturing!BlankPic]
        /\ \A u \in DOMAIN textures \ {t} : empty.textures[u] = textures[u]
    BY <1>1, <1>3, EditorPaintFine, WorldIs
  <2> QED BY <2>1
<1>5. t \notin DOMAIN textures /\ t \notin DOMAIN recorded
  BY DEF Texturing!Unknown
<1> HIDE DEF v, empty
<1>6. Fine(w) /\ w.textures = v.textures /\ w.face = v.face /\ w.astray = v.astray \ {t}
  BY <1>2, SessionRecordFine
<1>7. Fine(empty)
  BY <1>4, <1>5, StillFine
<1>8. Texturing!Added(t, name, image) = w /\ Texturing!AddedEmpty(t, name) = empty
  BY DEF Texturing!Added, Texturing!AddedEmpty, Texturing!HashOf, v, empty
<1> HIDE DEF w
<1> QED BY <1>2, <1>5, <1>6, <1>7, <1>8

\* A texture made empty changes no face's look, though one may have referred to it.
LEMMA AddedLooks ==
    ASSUME TextureInv, NEW t, Texturing!Unknown(t), NEW name, NEW f \in Side
    PROVE  LookIn(Texturing!Added(t, name, Texturing!BlankPic), f) = LookIn(Texturing!World, f)
<1> DEFINE w == Texturing!Added(t, name, Texturing!BlankPic)
<1>1. Texturing!BlankPic \in Texturing!Pictures
  BY DEF Texturing!BlankPic, Texturing!Pictures
<1>2. /\ w.face = face
      /\ DOMAIN w.textures = DOMAIN textures \cup {t} /\ w.textures[t].pic = Texturing!BlankPic
      /\ \A u \in DOMAIN textures : u # t /\ w.textures[u] = textures[u]
  BY <1>1, AddedFine
<1>3. face[f].slot \in Slot \cup {None}
  BY DEF TextureInv, Fine, FaceRecord, Texturing!World
<1>4. \A s \in Slot : Texturing!BlankPic[s] = Blank
  BY DEF Texturing!BlankPic
<1> HIDE DEF w
<1>5. CASE face[f].texture = t
  <2>1. LookIn(w, f) = Blank
    BY <1>2, <1>3, <1>4, <1>5 DEF LookIn, Texturing!Shows
  <2>2. t \notin DOMAIN textures
    BY DEF Texturing!Unknown
  <2> QED BY <1>5, <2>1, <2>2, WorldIs DEF LookIn, w
<1>6. CASE face[f].texture # t
  <2>1. face[f].texture \in DOMAIN w.textures <=> face[f].texture \in DOMAIN textures
    BY <1>2, <1>6
  <2> QED BY <1>2, <2>1, WorldIs DEF LookIn, Texturing!Shows, w
<1> QED BY <1>5, <1>6

LEMMA ImportFine ==
    ASSUME TextureInv, NEW t, NEW name, NEW p \in Texturing!Pictures, Texturing!ImportTexture(t, name, p)
    PROVE  TextureInv'
<1>1. Fine(Texturing!Added(t, name, p)) /\ Fine(Texturing!AddedEmpty(t, name))
  BY AddedFine DEF Texturing!ImportTexture
<1>2. Texturing!Become(Texturing!Added(t, name, p)) \/ Texturing!Become(Texturing!AddedEmpty(t, name))
  BY DEF Texturing!ImportTexture
<1> QED BY <1>1, <1>2, BecomeFine

\* The session is told, or the texture is astray: its name when the canvas failed.
LEMMA UpdateFine ==
    ASSUME TextureInv, NEW t, NEW name, NEW p \in Texturing!Pictures, Texturing!UpdateTexture(t, name, p)
    PROVE  TextureInv'
<1> DEFINE v == Texturing!EditorPaint(Texturing!World, t, name, p)
           named == Texturing!EditorPaint(Texturing!World, t, name, textures[t].pic)
<1>1. t \in DOMAIN textures /\ FineBut(Texturing!World, t)
  BY FineIsFineBut DEF Texturing!UpdateTexture, TextureInv
<1>2. textures[t].pic \in Texturing!Pictures
  BY <1>1, WorldIs DEF FineBut
<1>3. /\ FineBut(v, t) /\ v.recorded = recorded /\ v.astray = astray
      /\ t \in DOMAIN v.textures /\ v.textures[t] = [name |-> name, pic |-> p]
  BY <1>1, EditorPaintFine, WorldIs
<1>4. FineBut(named, t)
  BY <1>1, <1>2, EditorPaintFine
<1>5. \/ Texturing!Become(IF Texturing!Known(Texturing!World, t) THEN Texturing!SessionRecord(v, t, name, p) ELSE v)
      \/ Texturing!Become(Texturing!Stray(named, t))
  BY DEF Texturing!UpdateTexture, Texturing!HashOf
<1> HIDE DEF v, named
<1>6. CASE Texturing!Become(Texturing!Stray(named, t))
  <2>1. Fine(Texturing!Stray(named, t))
    BY <1>4, StrayFine
  <2> QED BY <1>6, <2>1, BecomeFine
<1>7. CASE Texturing!Become(Texturing!SessionRecord(v, t, name, p))
  <2>1. Fine(Texturing!SessionRecord(v, t, name, p))
    BY <1>3, SessionRecordFine
  <2> QED BY <1>7, <2>1, BecomeFine
<1>8. CASE Texturing!Become(v) /\ ~Texturing!Known(Texturing!World, t)
  <2>1. ASSUME t \in DOMAIN recorded, t \notin astray PROVE FALSE
    <3>1. Right(Texturing!World, t)
      BY <2>1, WorldIs DEF TextureInv, Fine
    <3>2. recorded[t].name = textures[t].name
      BY <3>1, WorldIs DEF Right
    <3> QED BY <1>8, <2>1, <3>2, WorldIs DEF Texturing!Known
  <2>2. Fine(v)
    BY <1>3, <2>1, StillFine
  <2> QED BY <1>8, <2>2, BecomeFine
<1> QED BY <1>5, <1>6, <1>7, <1>8

\* The session forgets every entry of the name, and that texture is the only one
\* it is right about.
LEMMA DeleteFine ==
    ASSUME TextureInv, NEW t, Texturing!DeleteTexture(t)
    PROVE  TextureInv'
<1> DEFINE left == DOMAIN textures \ {t}
           told == {r \in DOMAIN recorded : recorded[r].name # textures[t].name}
<1>1. /\ t \in DOMAIN textures /\ face' = face /\ textures' = Texturing!Restrict(textures, left)
      /\ recorded' = Texturing!Restrict(recorded, told) /\ astray' = astray \cap DOMAIN recorded'
  BY DEF Texturing!DeleteTexture, Texturing!EditorDelete, Texturing!SessionRemove
<1>2. /\ left \subseteq DOMAIN textures /\ told \subseteq DOMAIN recorded /\ t \notin left
      /\ \A r \in told : recorded[r].name # textures[t].name
      /\ \A r \in DOMAIN textures : r # t => r \in left
  OBVIOUS
<1> HIDE DEF left, told
<1>3. /\ DOMAIN textures' = left /\ \A u \in left : textures'[u] = textures[u]
      /\ DOMAIN recorded' = told /\ \A r \in told : recorded'[r] = recorded[r]
  BY <1>1, <1>2 DEF Texturing!Restrict
<1>4. ASSUME NEW r \in DOMAIN recorded' \ astray' PROVE Right(Texturing!World, r)'
  <2>1. r \in told /\ r \in DOMAIN recorded \ astray
    BY <1>1, <1>2, <1>3
  <2>2. Right(Texturing!World, r)
    BY <2>1, WorldIs DEF TextureInv, Fine
  <2>3. r \in DOMAIN textures /\ recorded[r] = [name |-> textures[r].name, hash |-> textures[r].pic]
    BY <2>2, WorldIs DEF Right
  <2>4. r # t
    BY <1>2, <2>1, <2>3
  <2> QED BY <1>2, <1>3, <2>1, <2>3, <2>4 DEF Right, Texturing!World
<1>5. \A u \in DOMAIN textures' : textures'[u].pic \in Texturing!Pictures
  BY <1>2, <1>3, WorldIs DEF TextureInv, Fine
<1>6. face' \in [Side -> FaceRecord]
  BY <1>1, WorldIs DEF TextureInv, Fine
<1> QED BY <1>4, <1>5, <1>6 DEF TextureInv, Fine, Shaped, Texturing!World, Right

LEMMA AssignKeeps ==
    ASSUME TextureInv, NEW fs \in SUBSET Side, NEW t \in Texture, Texturing!AssignTexture(fs, t)
    PROVE  TextureInv'
<1>1. Fine(Texturing!Assigned(Texturing!World, fs, t))
  BY AssignFine DEF TextureInv, HasAssigned
<1> QED BY <1>1, BecomeFine DEF Texturing!AssignTexture

LEMMA PatchFine ==
    ASSUME TextureInv, NEW t, NEW fs, NEW ink \in Ink, Texturing!PaintTexture(t, fs, ink)
    PROVE  TextureInv'
<1>1. Texturing!PatchPic(fs, ink) \in Texturing!Pictures
  BY DEF Texturing!PatchPic, Texturing!Pictures
<1>2. t \in DOMAIN Texturing!World.textures
  BY WorldIs DEF Texturing!PaintTexture
<1> DEFINE v == Texturing!Repaint(Texturing!World, t, Texturing!PatchPic(fs, ink))
<1>3. Fine(v)
  BY <1>1, <1>2, RepaintFine DEF RepaintedEntry, TextureInv
<1>4. Texturing!Become(v)
  BY DEF Texturing!PaintTexture
<1> HIDE DEF v
<1> QED BY <1>3, <1>4, BecomeFine

LEMMA UvFine ==
    ASSUME TextureInv, NEW f \in Side, NEW s \in Slot, Texturing!SetFaceUv(f, s)
    PROVE  TextureInv'
<1>1. face \in [Side -> FaceRecord]
  BY WorldIs DEF TextureInv, Fine
<1>2. [face[f] EXCEPT !.slot = s] \in FaceRecord
  BY <1>1 DEF FaceRecord
<1>3. face' \in [Side -> FaceRecord]
  BY <1>1, <1>2 DEF Texturing!SetFaceUv
<1> QED BY <1>3 DEF TextureInv, Fine, Shaped, Right, Texturing!World, Texturing!SetFaceUv

LEMMA UserPaintsFine ==
    ASSUME TextureInv, NEW t, NEW p \in Texturing!Pictures, Texturing!UserPaints(t, p)
    PROVE  TextureInv'
<1> DEFINE v == Texturing!EditorPaint(Texturing!World, t, textures[t].name, p)
<1>1. FineBut(v, t)
  BY FineIsFineBut, EditorPaintFine DEF TextureInv
<1>2. Texturing!Become(Texturing!Stray(v, t))
  BY DEF Texturing!UserPaints
<1> HIDE DEF v
<1>3. Fine(Texturing!Stray(v, t))
  BY <1>1, StrayFine
<1> QED BY <1>2, <1>3, BecomeFine

LEMMA UserDeletesFine ==
    ASSUME TextureInv, NEW t, Texturing!UserDeletes(t)
    PROVE  TextureInv'
<1> DEFINE v == Texturing!Stray(Texturing!World, t)
           left == DOMAIN textures \ {t}
           w == [v EXCEPT !.textures = Texturing!Restrict(textures, left)]
<1>1. FineBut(Texturing!World, t)
  BY FineIsFineBut DEF TextureInv
<1>2. Fine(v) /\ v.textures = textures /\ v.recorded = recorded
  BY <1>1, StrayFine, WorldIs
<1>3. t \in DOMAIN recorded => t \in v.astray
  <2>1. v = [Texturing!World EXCEPT !.astray = astray \cup ({t} \cap DOMAIN recorded)]
    BY WorldIs DEF Texturing!Stray
  <2>2. v.astray = astray \cup ({t} \cap DOMAIN recorded)
    BY <2>1 DEF Texturing!World
  <2> QED BY <2>2
<1>4. Texturing!Become(w)
  BY DEF Texturing!UserDeletes, Texturing!EditorDelete
<1>5. left \subseteq DOMAIN textures /\ \A r \in DOMAIN textures : r # t => r \in left
  OBVIOUS
<1> HIDE DEF v, left
<1>6. /\ w.recorded = v.recorded /\ w.face = v.face /\ w.astray = v.astray /\ Shaped(w)
      /\ DOMAIN w.textures = left /\ \A u \in left : w.textures[u] = textures[u]
  <2>1. Shaped(v)
    BY <1>2 DEF Fine
  <2>2. w.textures = Texturing!Restrict(textures, left)
    BY <2>1 DEF Shaped
  <2> QED BY <1>5, <2>1, <2>2 DEF Shaped, Texturing!Restrict
<1> HIDE DEF w
<1>7. ASSUME NEW r \in DOMAIN w.recorded \ w.astray PROVE Right(w, r)
  <2>1. Right(v, r) /\ r # t
    BY <1>2, <1>3, <1>6 DEF Fine
  <2> QED BY <1>2, <1>5, <1>6, <2>1 DEF Right
<1>8. \A u \in DOMAIN w.textures : w.textures[u].pic \in Texturing!Pictures
  BY <1>2, <1>5, <1>6 DEF Fine
<1>9. Fine(w)
  BY <1>2, <1>6, <1>7, <1>8 DEF Fine
<1> QED BY <1>4, <1>9, BecomeFine

LEMMA AutoAtlasFine ==
    ASSUME TextureInv, Texturing!AutoUvAtlas
    PROVE  TextureInv' /\ Texturing!AtlasStep
<1>1. CASE \E r \in Texturing!AtlasDone(Texturing!World) : Texturing!Become(r.world) /\ Texturing!Answer("atlas", TRUE, r.kept)
  <2>1. PICK r \in Texturing!AtlasDone(Texturing!World) : Texturing!Become(r.world) /\ Texturing!Answer("atlas", TRUE, r.kept)
    BY <1>1
  <2>2. Atlased(Texturing!World, r.world, r.kept)
    BY AtlasDoneFine DEF TextureInv
  <2>3. TextureInv' /\ Texturing!World' = r.world
    BY <2>1, <2>2, BecomeFine DEF Atlased
  <2>4. reply'.kept = r.kept
    BY <2>1 DEF Texturing!Answer
  <2>5. r.kept \subseteq Side
    BY DEF Texturing!AtlasDone, Texturing!Kept
  <2>6. ASSUME NEW f \in reply'.kept, face[f].texture \notin astray PROVE Texturing!Look(f)' = Texturing!Look(f)
    <3>1. f \in r.kept \cap Side
      BY <2>4, <2>5
    <3>2. LookIn(r.world, f) = LookIn(Texturing!World, f)
      BY <2>2, <2>6, <3>1, WorldIs DEF Atlased
    <3> QED BY <2>3, <3>1, <3>2, LooksAre
  <2> QED BY <2>3, <2>6 DEF Texturing!AtlasStep
<1>2. CASE \E w \in Texturing!AtlasFailed(Texturing!World) : Texturing!Become(w) /\ Texturing!Answer("atlas", FALSE, {})
  <2>1. PICK w \in Texturing!AtlasFailed(Texturing!World) : Texturing!Become(w) /\ Texturing!Answer("atlas", FALSE, {})
    BY <1>2
  <2>2. Fine(w)
    BY AtlasFailedFine DEF TextureInv
  <2>3. ~reply'.ok
    BY <2>1 DEF Texturing!Answer
  <2> QED BY <2>1, <2>2, <2>3, BecomeFine DEF Texturing!AtlasStep
<1> QED BY <1>1, <1>2 DEF Texturing!AutoUvAtlas

LEMMA PaintFacesFine ==
    ASSUME TextureInv, NEW fs \in SUBSET Side, NEW name, NEW ink \in Ink, Texturing!PaintFaces(fs, name, ink)
    PROVE  TextureInv' /\ Texturing!PaintStep
<1> DEFINE Success(t, w) ==
             \E space \in {"face", "texture"} : \E r \in Texturing!PaintDone(w, fs, t, space, ink) :
                 /\ Texturing!Become(r.world)
                 /\ reply' = [tool |-> "paint", ok |-> TRUE, faces |-> fs, space |-> space, ink |-> ink, kept |-> r.kept]
           Failure(t, w) == \E v \in Texturing!PaintFailed(w, fs, t, ink) : Texturing!Become(v) /\ Texturing!Answer("paint", FALSE, {})
           Begun(w) == /\ Fine(w) /\ w.astray \subseteq astray
                       /\ \A f \in Side : LookIn(w, f) = LookIn(Texturing!World, f)
<1>1. PICK t \in Texture :
        \/ t \in Texturing!Named(Texturing!World, name) \cap DOMAIN textures
           /\ (Success(t, Texturing!World) \/ Failure(t, Texturing!World))
        \/ /\ Texturing!Named(Texturing!World, name) = {} /\ Texturing!Unknown(t) /\ Texturing!Free(t, name)
           /\ \/ Success(t, Texturing!Added(t, name, Texturing!BlankPic)) \/ Failure(t, Texturing!Added(t, name, Texturing!BlankPic))
              \/ Texturing!Become(Texturing!AddedEmpty(t, name)) /\ Texturing!Answer("paint", FALSE, {})
  BY DEF Texturing!PaintFaces
<1>2. ASSUME NEW w, Begun(w), t \in DOMAIN w.textures, Success(t, w) PROVE TextureInv' /\ Texturing!PaintStep
  <2>1. PICK space \in {"face", "texture"} : \E r \in Texturing!PaintDone(w, fs, t, space, ink) :
          /\ Texturing!Become(r.world)
          /\ reply' = [tool |-> "paint", ok |-> TRUE, faces |-> fs, space |-> space, ink |-> ink, kept |-> r.kept]
    BY <1>2
  <2>2. PICK r \in Texturing!PaintDone(w, fs, t, space, ink) :
          /\ Texturing!Become(r.world)
          /\ reply' = [tool |-> "paint", ok |-> TRUE, faces |-> fs, space |-> space, ink |-> ink, kept |-> r.kept]
    BY <2>1
  <2>3. Fine(r.world) /\ PaintedFaces(w, r.world, fs, space, ink, r.kept)
    BY <1>2, PaintDoneRight
  <2>4. TextureInv' /\ Texturing!World' = r.world
    BY <2>2, <2>3, BecomeFine
  <2>5. reply'.faces = fs /\ reply'.space = space /\ reply'.ink = ink /\ reply'.kept = r.kept
    BY <2>2
  <2>6. ASSUME NEW f \in Side, face'[f].texture \notin astray
        PROVE  /\ f \in fs /\ space = "face" /\ face'[f].slot # None => Texturing!Look(f)' = ink
               /\ f \in r.kept \ fs => Texturing!Look(f)' = Texturing!Look(f)
    <3>1. /\ Texturing!Look(f) = LookIn(Texturing!World, f)
          /\ Texturing!Look(f)' = LookIn(r.world, f) /\ face'[f] = r.world.face[f]
      BY <2>4, LooksAre
    <3>2. r.world.face[f].texture \notin w.astray /\ LookIn(w, f) = LookIn(Texturing!World, f)
      BY <1>2, <2>6, <3>1
    <3> QED BY <2>3, <3>1, <3>2 DEF PaintedFaces
  <2> QED BY <2>4, <2>5, <2>6 DEF Texturing!PaintStep
<1>3. ASSUME NEW w, Fine(w), t \in DOMAIN w.textures, Failure(t, w) PROVE TextureInv' /\ Texturing!PaintStep
  <2>1. PICK v \in Texturing!PaintFailed(w, fs, t, ink) : Texturing!Become(v) /\ Texturing!Answer("paint", FALSE, {})
    BY <1>3
  <2>2. Fine(v)
    BY <1>3, PaintFailedFine
  <2>3. ~reply'.ok
    BY <2>1 DEF Texturing!Answer
  <2> QED BY <2>1, <2>2, <2>3, BecomeFine DEF Texturing!PaintStep
<1>4. Begun(Texturing!World)
  BY WorldIs DEF TextureInv
<1>5. ASSUME Texturing!Unknown(t)
      PROVE  LET w == Texturing!Added(t, name, Texturing!BlankPic)
             IN  Begun(w) /\ t \in DOMAIN w.textures /\ Fine(Texturing!AddedEmpty(t, name))
  <2>1. Texturing!BlankPic \in Texturing!Pictures
    BY DEF Texturing!BlankPic, Texturing!Pictures
  <2>2. LET w == Texturing!Added(t, name, Texturing!BlankPic)
        IN  Fine(w) /\ w.astray \subseteq astray /\ t \in DOMAIN w.textures /\ Fine(Texturing!AddedEmpty(t, name))
    BY <1>5, <2>1, AddedFine
  <2>3. \A f \in Side : LookIn(Texturing!Added(t, name, Texturing!BlankPic), f) = LookIn(Texturing!World, f)
    BY <1>5, AddedLooks
  <2> QED BY <2>2, <2>3
<1>6. ASSUME Texturing!Become(Texturing!AddedEmpty(t, name)), Texturing!Answer("paint", FALSE, {}), Texturing!Unknown(t)
      PROVE  TextureInv' /\ Texturing!PaintStep
  <2>1. ~reply'.ok
    BY <1>6 DEF Texturing!Answer
  <2> QED BY <1>5, <1>6, <2>1, BecomeFine DEF Texturing!PaintStep
<1>7. \A w : Begun(w) => Fine(w)
  OBVIOUS
<1> HIDE DEF Success, Failure, Begun
<1>8. t \in DOMAIN textures => t \in DOMAIN Texturing!World.textures
  BY WorldIs
<1> QED BY <1>1, <1>2, <1>3, <1>4, <1>5, <1>6, <1>7, <1>8

LEMMA TextureStep ==
    ASSUME part = "texture", TextureInv, Texturing!Next
    PROVE  /\ TextureInv'
           /\ Texturing!AtlasStep /\ Texturing!PaintStep
<1> DEFINE Quiet == reply'.tool \notin {"atlas", "paint"}
<1>2. ASSUME NEW t \in Texture, NEW n \in TextureName, NEW p \in Texturing!Pictures, Texturing!ImportTexture(t, n, p)
      PROVE  TextureInv' /\ Quiet
  BY <1>2, ImportFine DEF Texturing!ImportTexture, Texturing!Answer
<1>3. ASSUME NEW t \in Texture, NEW n \in TextureName, NEW p \in Texturing!Pictures, Texturing!UpdateTexture(t, n, p)
      PROVE  TextureInv' /\ Quiet
  BY <1>3, UpdateFine DEF Texturing!UpdateTexture, Texturing!Answer
<1>4. ASSUME NEW t \in Texture, Texturing!DeleteTexture(t) PROVE TextureInv' /\ Quiet
  BY <1>4, DeleteFine DEF Texturing!DeleteTexture, Texturing!Answer
<1>5. ASSUME NEW t \in Texture, Texturing!UserDeletes(t) PROVE TextureInv' /\ Quiet
  BY <1>5, UserDeletesFine DEF Texturing!UserDeletes, Texturing!Answer
<1>6. ASSUME NEW fs \in SUBSET Side, NEW t \in Texture, Texturing!AssignTexture(fs, t) PROVE TextureInv' /\ Quiet
  BY <1>6, AssignKeeps DEF Texturing!AssignTexture, Texturing!Answer
<1>7. ASSUME NEW f \in Side, NEW s \in Slot, Texturing!SetFaceUv(f, s) PROVE TextureInv' /\ Quiet
  BY <1>7, UvFine DEF Texturing!SetFaceUv, Texturing!Answer
<1>8. ASSUME NEW t \in Texture, NEW fs \in SUBSET Side, NEW i \in Ink, Texturing!PaintTexture(t, fs, i)
      PROVE  TextureInv' /\ Quiet
  BY <1>8, PatchFine DEF Texturing!PaintTexture, Texturing!Answer
<1>9. ASSUME NEW t \in Texture, NEW p \in Texturing!Pictures, Texturing!UserPaints(t, p) PROVE TextureInv' /\ Quiet
  BY <1>9, UserPaintsFine DEF Texturing!UserPaints, Texturing!Answer
<1>10. ASSUME Texturing!AutoUvAtlas PROVE TextureInv' /\ Texturing!AtlasStep /\ Texturing!PaintStep
  <2>1. reply'.tool = "atlas"
    BY <1>10 DEF Texturing!AutoUvAtlas, Texturing!Answer
  <2> QED BY <1>10, <2>1, AutoAtlasFine DEF Texturing!PaintStep
<1>11. ASSUME NEW fs \in SUBSET Side, NEW n \in TextureName, NEW i \in Ink, Texturing!PaintFaces(fs, n, i)
       PROVE  TextureInv' /\ Texturing!AtlasStep /\ Texturing!PaintStep
  <2>1. reply'.tool = "paint"
    BY <1>11 DEF Texturing!PaintFaces, Texturing!Answer
  <2> QED BY <1>11, <2>1, PaintFacesFine DEF Texturing!AtlasStep
<1>12. Quiet => Texturing!AtlasStep /\ Texturing!PaintStep
  BY DEF Texturing!AtlasStep, Texturing!PaintStep
<1>13. SUBSET Side \ {{}} \subseteq SUBSET Side
  OBVIOUS
<1> HIDE DEF Quiet
<1> QED BY <1>2, <1>3, <1>4, <1>5, <1>6, <1>7, <1>8, <1>9, <1>10, <1>11, <1>12, <1>13 DEF Texturing!Next

LEMMA TexturesFine == MCSpec => [](part = "texture" => TextureInv)
<1>1. MCInit => (part = "texture" => TextureInv)
  <2> SUFFICES ASSUME part = "texture", Texturing!Init PROVE TextureInv
    BY DEF MCInit
  <2>1. textures = << >> /\ recorded = << >> /\ DOMAIN << >> = {}
    BY DEF Texturing!Init
  <2>2. face \in [Side -> FaceRecord]
    BY DEF Texturing!Init, FaceRecord
  <2> QED BY <2>1, <2>2 DEF TextureInv, Fine, Shaped, Texturing!World
<1>2. (part = "texture" => TextureInv) /\ [MCNext]_mcvars => (part = "texture" => TextureInv)'
  <2> SUFFICES ASSUME part = "texture", TextureInv, [MCNext]_mcvars PROVE TextureInv'
    BY DEF MCNext, mcvars
  <2>1. CASE UNCHANGED mcvars
    BY <2>1 DEF mcvars, tvars, TextureInv, Fine, Shaped, Right, Texturing!World
  <2>2. CASE Texturing!Next
    BY <2>2, TextureStep
  <2> QED BY <2>1, <2>2 DEF MCNext
<1> QED BY <1>1, <1>2, PTL DEF MCSpec

\* The session has the name of each texture it knows and the hash of its picture
\* (TextureTools.RefusalsAreTrue), so that a change refused as none is none:
\* whatever tools did and wherever they stopped, of every texture that has not
\* gone astray, while others have.
THEOREM TexturesAreMirrored == MCSpec => []RefusalsAreTrue
<1>1. (part = "texture" => TextureInv) => RefusalsAreTrue
  BY WorldIs DEF RefusalsAreTrue, Texturing!RefusalsAreTrue, TextureInv, Fine, Right, Texturing!HashOf
<1> QED BY <1>1, TexturesFine, PTL

\* What a step does when it is the textures' turn.
LEMMA LooksStep ==
    ASSUME part = "texture" => TextureInv, [MCNext]_mcvars
    PROVE  /\ [part = "texture" => Texturing!AtlasStep]_tvars
           /\ [part = "texture" => Texturing!PaintStep]_tvars
<1> SUFFICES ASSUME part = "texture", ~UNCHANGED tvars PROVE Texturing!AtlasStep /\ Texturing!PaintStep
  OBVIOUS
<1>1. Texturing!Next
  BY DEF MCNext, mcvars
<1> QED BY <1>1, TextureStep

\* auto_uv_atlas changes every texture and every UV, and a face that it copies
\* pixel by pixel, or that showed nothing, does not look different for it
\* (TextureTools.AtlasKeepsLooks).
THEOREM AtlasIsInvisible == MCSpec => AtlasKeepsLooks
<1>1. (part = "texture" => TextureInv) /\ [MCNext]_mcvars => [part = "texture" => Texturing!AtlasStep]_tvars
  BY LooksStep
<1> QED BY <1>1, TexturesFine, PTL DEF MCSpec, AtlasKeepsLooks

\* A paint_faces that succeeds shows on its faces and changes no other that the
\* atlas it may call before keeps (TextureTools.PaintStaysOnItsFace).
THEOREM PaintIsLocal == MCSpec => PaintStaysOnItsFace
<1>1. (part = "texture" => TextureInv) /\ [MCNext]_mcvars => [part = "texture" => Texturing!PaintStep]_tvars
  BY LooksStep
<1> QED BY <1>1, TexturesFine, PTL DEF MCSpec, PaintStaysOnItsFace

-----------------------------------------------------------------------------
(* The pixels of a paint (FacePainting, in the behaviours of               *)
(* MCTexturesAndClips).                                                    *)

Rectangle == [x1 : Int, y1 : Int, x2 : Int, y2 : Int]
AnyOp == [op : {"set_pixel", "fill_rect", "draw_rect", "draw_line"}, x : Int, y : Int, w : Int, h : Int, line : Positive]
ASize == Positive \X Positive
InBox(a, b) == b.x1 <= a.x1 /\ b.y1 <= a.y1 /\ a.x2 <= b.x2 /\ a.y2 <= b.y2

\* How halves of a pixel are rounded, without the division.
LEMMA Halves ==
    ASSUME NEW h \in Int, NEW n \in Int
    PROVE  /\ Painting!Floor(h) <= n <=> h < 2 * n + 2
           /\ n < Painting!Ceil(h) <=> 2 * n < h
  BY DEF Painting!Floor, Painting!Ceil

LEMMA Rounding == \A h \in Int : Painting!Round(h) \in Int /\ h <= 2 * Painting!Round(h) /\ 2 * Painting!Round(h) <= h + 1
  BY DEF Painting!Round

LEMMA Bounds ==
    \A a, b \in Int : /\ Painting!Lower(a, b) \in Int /\ Painting!Lower(a, b) <= a /\ Painting!Lower(a, b) <= b
                      /\ Painting!Upper(a, b) \in Int /\ a <= Painting!Upper(a, b) /\ b <= Painting!Upper(a, b)
                      /\ Painting!Distance(a, b) \in Nat
                      /\ Painting!Distance(a, b) = IF a < b THEN b - a ELSE a - b
  BY DEF Painting!Lower, Painting!Upper, Painting!Distance

LEMMA PixelsAre ==
    ASSUME NEW size \in ASize, NEW p \in Painting!Grid(size)
    PROVE  p = <<p[1], p[2]>> /\ p[1] \in Nat /\ p[2] \in Nat /\ p[1] < size[1] /\ p[2] < size[2]
  BY DEF ASize, Positive, Painting!Grid

\* Which pixels a rectangle has.
LEMMA AreaIs ==
    ASSUME NEW size \in ASize, NEW p \in Painting!Grid(size), NEW b \in Rectangle
    PROVE  p \in Painting!Area(size, b) <=> /\ b.x1 < 2 * p[1] + 2 /\ 2 * p[1] < b.x2
                                           /\ b.y1 < 2 * p[2] + 2 /\ 2 * p[2] < b.y2
<1>1. p[1] \in Int /\ p[2] \in Int
  BY PixelsAre
<1>2. b.x1 \in Int /\ b.y1 \in Int /\ b.x2 \in Int /\ b.y2 \in Int
  BY DEF Rectangle
<1>3. Painting!Floor(b.x1) <= p[1] <=> b.x1 < 2 * p[1] + 2
  BY <1>1, <1>2, Halves
<1>4. Painting!Floor(b.y1) <= p[2] <=> b.y1 < 2 * p[2] + 2
  BY <1>1, <1>2, Halves
<1>5. p[1] < Painting!Ceil(b.x2) <=> 2 * p[1] < b.x2
  BY <1>1, <1>2, Halves
<1>6. p[2] < Painting!Ceil(b.y2) <=> 2 * p[2] < b.y2
  BY <1>1, <1>2, Halves
<1> QED BY <1>3, <1>4, <1>5, <1>6 DEF Painting!Area

\* A rectangle within another has only pixels of the other.
LEMMA AreaGrows ==
    ASSUME NEW size \in ASize, NEW a \in Rectangle, NEW b \in Rectangle, InBox(a, b)
    PROVE  Painting!Area(size, a) \subseteq Painting!Area(size, b)
<1> SUFFICES ASSUME NEW p \in Painting!Grid(size), p \in Painting!Area(size, a) PROVE p \in Painting!Area(size, b)
  BY DEF Painting!Area
<1>1. /\ a.x1 < 2 * p[1] + 2 /\ 2 * p[1] < a.x2
      /\ a.y1 < 2 * p[2] + 2 /\ 2 * p[2] < a.y2
  BY AreaIs
<1>2. p[1] \in Int /\ p[2] \in Int
  BY PixelsAre
<1>3. /\ a.x1 \in Int /\ a.y1 \in Int /\ a.x2 \in Int /\ a.y2 \in Int
      /\ b.x1 \in Int /\ b.y1 \in Int /\ b.x2 \in Int /\ b.y2 \in Int
  BY DEF Rectangle
<1>4. /\ b.x1 < 2 * p[1] + 2 /\ 2 * p[1] < b.x2
      /\ b.y1 < 2 * p[2] + 2 /\ 2 * p[2] < b.y2
  BY <1>1, <1>2, <1>3 DEF InBox
<1> QED BY <1>4, AreaIs

\* A stroke stays in its rectangle but for what is thicker than that.
LEMMA StrokeStays ==
    ASSUME NEW size \in ASize, NEW op \in AnyOp, op.op = "draw_rect"
    PROVE  Painting!StrokeRect(size, op) \subseteq Painting!Area(size, Painting!Reach(op))
<1> DEFINE l == 2 * op.line
           right == op.x + op.w
           bottom == op.y + op.h
           b == Painting!Reach(op)
           u == Painting!Over(op.line, op.w)
           v == Painting!Over(op.line, op.h)
           r1 == [x1 |-> op.x, y1 |-> op.y, x2 |-> right, y2 |-> op.y + l]
           r2 == [x1 |-> op.x, y1 |-> bottom - l, x2 |-> right, y2 |-> bottom]
           r3 == [x1 |-> op.x, y1 |-> op.y + l, x2 |-> op.x + l, y2 |-> bottom - l]
           r4 == [x1 |-> right - l, y1 |-> op.y + l, x2 |-> right, y2 |-> bottom - l]
<1>1. /\ op.x \in Int /\ op.y \in Int /\ op.w \in Int /\ op.h \in Int /\ op.line \in Nat
      /\ l \in Nat /\ right \in Int /\ bottom \in Int
  BY DEF AnyOp, Positive
<1>2. SUFFICES ASSUME op.w > 0, op.h > 0 PROVE Painting!StrokeRect(size, op) \subseteq Painting!Area(size, b)
  BY <1>1 DEF Painting!StrokeRect
<1>3. b = [x1 |-> op.x - u, y1 |-> op.y - v, x2 |-> right + u, y2 |-> bottom + v]
  <2>1. /\ Painting!Lower(op.x, right) = op.x /\ Painting!Upper(op.x, right) = right
        /\ Painting!Lower(op.y, bottom) = op.y /\ Painting!Upper(op.y, bottom) = bottom
    BY <1>1, <1>2 DEF Painting!Lower, Painting!Upper
  <2> HIDE DEF u, v
  <2> QED BY <2>1 DEF Painting!Reach, Painting!OpBounds, Painting!Box, u, v
<1>4. u \in Nat /\ v \in Nat /\ l <= op.w + u /\ l <= op.h + v
  BY <1>1 DEF Painting!Over, Painting!Upper
<1> HIDE DEF b, u, v
<1>5. /\ r1 \in Rectangle /\ r2 \in Rectangle /\ r3 \in Rectangle /\ r4 \in Rectangle /\ b \in Rectangle
      /\ InBox(r1, b) /\ InBox(r2, b) /\ InBox(r3, b) /\ InBox(r4, b)
  BY <1>1, <1>2, <1>3, <1>4 DEF Rectangle, InBox
<1>6. Painting!StrokeRect(size, op) =
        Painting!Area(size, r1) \cup Painting!Area(size, r2) \cup Painting!Area(size, r3) \cup Painting!Area(size, r4)
  BY <1>1, <1>2 DEF Painting!StrokeRect, Painting!Box
<1> HIDE DEF r1, r2, r3, r4
<1>7. /\ Painting!Area(size, r1) \subseteq Painting!Area(size, b)
      /\ Painting!Area(size, r2) \subseteq Painting!Area(size, b)
      /\ Painting!Area(size, r3) \subseteq Painting!Area(size, b)
      /\ Painting!Area(size, r4) \subseteq Painting!Area(size, b)
  BY <1>5, AreaGrows
<1> QED BY <1>6, <1>7, Zenon DEF b

\* A line goes from pixel to pixel, i across and j down: its error tells which
\* way is behind, and neither way goes further than the line's end.
LEMMA NoFurther ==
    ASSUME NEW dx \in Nat, NEW dy \in Nat, NEW i \in 0..dx, NEW j \in 0..dy, i # dx \/ j # dy,
           NEW e, e = (j + 1) * dx - (i + 1) * dy
    PROVE  /\ e \in Int
           /\ 2 * e > -dy => i + 1 \in 0..dx
           /\ 2 * e < dx => j + 1 \in 0..dy
<1>1. e \in Int
  OBVIOUS
<1>2. ASSUME i = dx PROVE ~(2 * e > -dy)
  <2>1. j + 1 <= dy /\ (j + 1) * dx <= dy * dx
    BY <1>2
  <2>2. e <= dy * dx - (dx + 1) * dy
    BY <1>2, <2>1
  <2>3. dy * dx - (dx + 1) * dy = -dy
    OBVIOUS
  <2>4. e <= -dy
    BY <2>2, <2>3
  <2> QED BY <1>1, <2>4
<1>3. ASSUME j = dy PROVE ~(2 * e < dx)
  <2>1. i + 1 <= dx /\ (i + 1) * dy <= dx * dy
    BY <1>3
  <2>2. e >= (dy + 1) * dx - dx * dy
    BY <1>3, <2>1
  <2>3. (dy + 1) * dx - dx * dy = dx
    OBVIOUS
  <2>4. e >= dx
    BY <2>2, <2>3
  <2> QED BY <1>1, <2>4
<1> QED BY <1>1, <1>2, <1>3

Point == [x : Int, y : Int]
Width(a, b) == Painting!Distance(a.x, b.x)
Height(a, b) == Painting!Distance(a.y, b.y)
Place(a, b, i, j) == [x |-> IF a.x < b.x THEN a.x + i ELSE a.x - i, y |-> IF a.y < b.y THEN a.y + j ELSE a.y - j]
Error(a, b, i, j) == (j + 1) * Width(a, b) - (i + 1) * Height(a, b)
OnPath(a, b, s) ==
    \E i \in 0..Width(a, b), j \in 0..Height(a, b) : s = [p |-> Place(a, b, i, j), err |-> Error(a, b, i, j)]
PathStep(a, b, s) ==
    LET dx == Width(a, b)  dy == Height(a, b)
        Toward(m, n) == IF m < n THEN 1 ELSE -1
        across == 2 * s.err > -dy  down == 2 * s.err < dx
    IN  IF s.p = b THEN s
        ELSE [p   |-> [x |-> s.p.x + IF across THEN Toward(a.x, b.x) ELSE 0,
                       y |-> s.p.y + IF down THEN Toward(a.y, b.y) ELSE 0],
              err |-> s.err - (IF across THEN dy ELSE 0) + (IF down THEN dx ELSE 0)]

LEMMA StepOnPath ==
    ASSUME NEW a \in Point, NEW b \in Point, NEW s, OnPath(a, b, s)
    PROVE  OnPath(a, b, PathStep(a, b, s))
<1> DEFINE dx == Width(a, b)
           dy == Height(a, b)
           sx == IF a.x < b.x THEN 1 ELSE -1
           sy == IF a.y < b.y THEN 1 ELSE -1
<1>1. /\ a = [x |-> a.x, y |-> a.y] /\ a.x \in Int /\ a.y \in Int
      /\ b = [x |-> b.x, y |-> b.y] /\ b.x \in Int /\ b.y \in Int
  BY DEF Point
<1>2. /\ dx \in Nat /\ b.x = IF a.x < b.x THEN a.x + dx ELSE a.x - dx
      /\ dy \in Nat /\ b.y = IF a.y < b.y THEN a.y + dy ELSE a.y - dy
  BY <1>1, Bounds DEF Width, Height
<1>3. PICK i \in 0..dx, j \in 0..dy : s = [p |-> Place(a, b, i, j), err |-> Error(a, b, i, j)]
  BY DEF OnPath
<1> DEFINE e == Error(a, b, i, j)
           across == 2 * e > -dy
           down == 2 * e < dx
           i1 == IF across THEN i + 1 ELSE i
           j1 == IF down THEN j + 1 ELSE j
<1>4. e = (j + 1) * dx - (i + 1) * dy /\ s.err = e /\ s.p = Place(a, b, i, j)
  BY <1>3 DEF Error
<1> HIDE DEF dx, dy, e
<1>5. CASE s.p = b
  BY <1>5 DEF PathStep
<1>6. CASE s.p # b
  <2>1. i # dx \/ j # dy
    BY <1>1, <1>2, <1>4, <1>6 DEF Place
  <2>2. e \in Int /\ i1 \in 0..dx /\ j1 \in 0..dy
    BY <1>2, <1>4, <2>1, NoFurther
  <2>3. PathStep(a, b, s) = [p |-> [x |-> s.p.x + IF across THEN sx ELSE 0, y |-> s.p.y + IF down THEN sy ELSE 0],
                             err |-> e - (IF across THEN dy ELSE 0) + (IF down THEN dx ELSE 0)]
    BY <1>4, <1>6 DEF PathStep, dx, dy
  <2>4. Place(a, b, i1, j1) = [x |-> s.p.x + IF across THEN sx ELSE 0, y |-> s.p.y + IF down THEN sy ELSE 0]
    BY <1>1, <1>4, <2>2 DEF Place
  <2>5. Error(a, b, i1, j1) = e - (IF across THEN dy ELSE 0) + (IF down THEN dx ELSE 0)
    <3>1. /\ (j + 2) * dx = (j + 1) * dx + dx /\ (j + 1) * dx \in Int
          /\ (i + 2) * dy = (i + 1) * dy + dy /\ (i + 1) * dy \in Int
      BY <1>2
    <3>2. Error(a, b, i1, j1) = (j1 + 1) * dx - (i1 + 1) * dy
      BY DEF Error, dx, dy
    <3>3. (j1 + 1) * dx = (j + 1) * dx + (IF down THEN dx ELSE 0)
      BY <1>2, <3>1
    <3>4. (i1 + 1) * dy = (i + 1) * dy + (IF across THEN dy ELSE 0)
      BY <1>2, <3>1
    <3> HIDE DEF i1, j1
    <3> QED BY <1>2, <1>4, <3>1, <3>2, <3>3, <3>4
  <2>6. PathStep(a, b, s) = [p |-> Place(a, b, i1, j1), err |-> Error(a, b, i1, j1)]
    BY <2>3, <2>4, <2>5
  <2> HIDE DEF i1, j1
  <2> QED BY <2>2, <2>6 DEF OnPath, dx, dy
<1> QED BY <1>5, <1>6

PathRun(f, a, b) ==
    f = [n \in 0..Width(a, b) + Height(a, b) |->
           IF n = 0 THEN [p |-> a, err |-> Width(a, b) - Height(a, b)] ELSE PathStep(a, b, f[n-1])]
LEMMA PathRuns ==
    ASSUME NEW a \in Point, NEW b \in Point
    PROVE  \E f : PathRun(f, a, b)
<1> DEFINE N == Width(a, b) + Height(a, b)
           first == [p |-> a, err |-> Width(a, b) - Height(a, b)]
           S == {[p |-> Place(a, b, q[1], q[2]), err |-> Error(a, b, q[1], q[2])] :
                   q \in (0..Width(a, b)) \X (0..Height(a, b))}
           g == [q \in (1..N) \X S |-> PathStep(a, b, q[2])]
<1>1. Width(a, b) \in Nat /\ Height(a, b) \in Nat /\ N \in Nat
  <2>1. Width(a, b) \in Nat /\ Height(a, b) \in Nat
    BY Bounds DEF Width, Height, Point
  <2> QED BY <2>1
<1>2. ASSUME NEW s PROVE OnPath(a, b, s) <=> s \in S
  <2>1. ASSUME NEW i \in 0..Width(a, b), NEW j \in 0..Height(a, b)
        PROVE  [p |-> Place(a, b, i, j), err |-> Error(a, b, i, j)] \in S
    <3>1. <<i, j>> \in (0..Width(a, b)) \X (0..Height(a, b)) /\ <<i, j>>[1] = i /\ <<i, j>>[2] = j
      OBVIOUS
    <3> QED BY <3>1
  <2>2. ASSUME s \in S PROVE OnPath(a, b, s)
    BY <2>2 DEF OnPath
  <2> HIDE DEF S
  <2> QED BY <2>1, <2>2 DEF OnPath
<1>3. first \in S
  <2>1. first = [p |-> Place(a, b, 0, 0), err |-> Error(a, b, 0, 0)] /\ 0 \in 0..Width(a, b) /\ 0 \in 0..Height(a, b)
    BY <1>1 DEF Place, Error, Point
  <2>2. OnPath(a, b, first)
    BY <2>1 DEF OnPath
  <2> HIDE DEF S
  <2> QED BY <1>2, <2>2
<1> HIDE DEF S, N, first
<1>4. g \in [(1..N) \X S -> S] /\ \A i \in 1..N, s \in S : g[<<i, s>>] = PathStep(a, b, s)
  BY <1>2, StepOnPath
<1> HIDE DEF g
<1>5. PICK f \in [0..N -> S] : IsRun(f, first, N, g)
  BY <1>1, <1>3, <1>4, StepByStep
<1>6. f = [n \in 0..N |-> IF n = 0 THEN first ELSE PathStep(a, b, f[n-1])]
  <2>1. \A n \in 0..N : n # 0 => n \in 1..N /\ n - 1 \in 0..N
    BY <1>1
  <2>2. \A n \in 0..N : n # 0 => g[<<n, f[n-1]>>] = PathStep(a, b, f[n-1])
    BY <1>4, <1>5, <2>1
  <2> QED BY <1>5, <2>2 DEF IsRun
<1>7. PathRun(f, a, b)
  BY <1>6 DEF PathRun, N, first
<1> QED BY <1>7

From(op) == [x |-> Painting!Round(op.x), y |-> Painting!Round(op.y)]
To(op) == [x |-> Painting!Round(op.x + op.w), y |-> Painting!Round(op.y + op.h)]
LEMMA PathIs ==
    ASSUME NEW op \in AnyOp, NEW q \in Painting!LinePath(op)
    PROVE  \E i \in 0..Width(From(op), To(op)), j \in 0..Height(From(op), To(op)) : q = Place(From(op), To(op), i, j)
<1> DEFINE a == From(op)
           b == To(op)
           N == Width(a, b) + Height(a, b)
           h == CHOOSE h : PathRun(h, a, b)
<1>1. a \in Point /\ b \in Point
  BY Rounding DEF AnyOp, Point, From, To
<1>2. Painting!LinePath(op) = {h[n].p : n \in 0..N}
  BY DEF Painting!LinePath, PathRun, PathStep, Width, Height, From, To
<1> HIDE DEF a, b
<1>3. PathRun(h, a, b)
  BY <1>1, PathRuns
<1>4. \A f : PathRun(f, a, b) => \A n \in 0..N : OnPath(a, b, f[n])
  <2> SUFFICES ASSUME NEW f, PathRun(f, a, b) PROVE \A n \in 0..N : OnPath(a, b, f[n])
    OBVIOUS
  <2> DEFINE Good == {s \in {f[n] : n \in 0..N} : OnPath(a, b, s)}
  <2>1. N \in Nat
    <3>1. Width(a, b) \in Nat /\ Height(a, b) \in Nat
      BY <1>1, Bounds DEF Width, Height, Point
    <3> QED BY <3>1
  <2> HIDE DEF N
  <2>2. f[0] = [p |-> a, err |-> Width(a, b) - Height(a, b)] /\ \A n \in 1..N : f[n] = PathStep(a, b, f[n-1])
    BY <2>1 DEF PathRun, N
  <2>3. OnPath(a, b, f[0])
    <3>1. Width(a, b) \in Nat /\ Height(a, b) \in Nat
      BY <1>1, Bounds DEF Width, Height, Point
    <3>2. f[0] = [p |-> Place(a, b, 0, 0), err |-> Error(a, b, 0, 0)]
      BY <1>1, <2>2, <3>1 DEF Place, Error, Point
    <3> QED BY <3>1, <3>2 DEF OnPath
  <2>4. f[0] \in Good /\ \A n \in 1..N : f[n-1] \in Good => f[n] \in Good
    BY <1>1, <2>1, <2>2, <2>3, StepOnPath
  <2>5. \A n \in 0..N : f[n] \in Good
    <3> HIDE DEF Good
    <3> QED BY <2>1, <2>4, Along
  <2> QED BY <2>5
<1> HIDE DEF h, N
<1>5. PICK n \in 0..N : q = h[n].p
  BY <1>2
<1>6. OnPath(a, b, h[n])
  BY <1>3, <1>4
<1> QED BY <1>5, <1>6 DEF OnPath, a, b

\* On one axis: a pixel as near to the path as the brush reaches is in the box
\* that is believed to hold the line.
LEMMA BrushInBounds ==
    ASSUME NEW u \in Int, NEW v \in Int, NEW r \in Nat, NEW i \in Nat, NEW n \in Nat, NEW m \in Int,
           i <= Painting!Distance(Painting!Round(u), Painting!Round(v)),
           m = IF Painting!Round(u) < Painting!Round(v) THEN Painting!Round(u) + i ELSE Painting!Round(u) - i,
           Painting!Distance(n, m) <= r
    PROVE  Painting!Lower(u, v) - 2 * r < 2 * n + 2 /\ 2 * n < Painting!Upper(u, v) + 2 * r + 2
<1> DEFINE a == Painting!Round(u)
           b == Painting!Round(v)
<1>1. a \in Int /\ u <= 2 * a /\ 2 * a <= u + 1 /\ b \in Int /\ v <= 2 * b /\ 2 * b <= v + 1
  BY Rounding
<1> HIDE DEF a, b
<1>2. (a <= m /\ m <= b) \/ (b <= m /\ m <= a)
  <2>1. i <= IF a < b THEN b - a ELSE a - b
    BY <1>1, Bounds DEF a, b
  <2> QED BY <1>1, <2>1 DEF a, b
<1>3. m <= n + r /\ n <= m + r
  <2>1. Painting!Distance(n, m) = IF n < m THEN m - n ELSE n - m
    BY DEF Painting!Distance, Painting!Lower, Painting!Upper
  <2> QED BY <2>1
<1>4. /\ Painting!Lower(u, v) \in Int /\ Painting!Lower(u, v) <= u /\ Painting!Lower(u, v) <= v
      /\ Painting!Upper(u, v) \in Int /\ u <= Painting!Upper(u, v) /\ v <= Painting!Upper(u, v)
  BY Bounds
<1> QED BY <1>1, <1>2, <1>3, <1>4

LEMMA LineStays ==
    ASSUME NEW size \in ASize, NEW op \in AnyOp, op.op = "draw_line"
    PROVE  Painting!DrawLine(size, op) \subseteq Painting!Area(size, Painting!OpBounds(op))
<1> DEFINE r == Painting!Radius(op)
           b == Painting!OpBounds(op)
           u == op.x + op.w
           v == op.y + op.h
<1>1. op.x \in Int /\ op.y \in Int /\ u \in Int /\ v \in Int /\ r \in Nat
  BY DEF AnyOp, Painting!Radius, Positive
<1> HIDE DEF r
<1>2. b = [x1 |-> Painting!Lower(op.x, u) - 2 * r, y1 |-> Painting!Lower(op.y, v) - 2 * r,
           x2 |-> Painting!Upper(op.x, u) + 2 * r + 2, y2 |-> Painting!Upper(op.y, v) + 2 * r + 2]
  BY DEF Painting!OpBounds, Painting!Box, r
<1> SUFFICES ASSUME NEW p \in Painting!DrawLine(size, op) PROVE p \in Painting!Area(size, b)
  OBVIOUS
<1>3. PICK q \in Painting!LinePath(op) : Painting!Distance(p[1], q.x) <= r /\ Painting!Distance(p[2], q.y) <= r
  BY DEF Painting!DrawLine, r
<1>4. p \in Painting!Grid(size)
  BY DEF Painting!DrawLine
<1>5. p[1] \in Nat /\ p[2] \in Nat
  BY <1>4, PixelsAre
<1>6. PICK i \in 0..Width(From(op), To(op)), j \in 0..Height(From(op), To(op)) : q = Place(From(op), To(op), i, j)
  BY PathIs
<1>7. /\ Painting!Round(op.x) \in Int /\ Painting!Round(u) \in Int
      /\ Painting!Round(op.y) \in Int /\ Painting!Round(v) \in Int
  BY <1>1, Rounding
<1> DEFINE c == Painting!Distance(Painting!Round(op.x), Painting!Round(u))
           d == Painting!Distance(Painting!Round(op.y), Painting!Round(v))
<1>8. c = Width(From(op), To(op)) /\ d = Height(From(op), To(op)) /\ c \in Nat /\ d \in Nat
  BY <1>7, Bounds DEF Width, Height, From, To
<1> HIDE DEF c, d
<1>9. /\ i \in Nat /\ i <= c
      /\ q.x = IF Painting!Round(op.x) < Painting!Round(u) THEN Painting!Round(op.x) + i ELSE Painting!Round(op.x) - i
      /\ j \in Nat /\ j <= d
      /\ q.y = IF Painting!Round(op.y) < Painting!Round(v) THEN Painting!Round(op.y) + j ELSE Painting!Round(op.y) - j
  BY <1>6, <1>8 DEF Place, From, To
<1>10. q.x \in Int /\ q.y \in Int
  BY <1>7, <1>9
<1> HIDE DEF u, v
<1>11. b.x1 < 2 * p[1] + 2 /\ 2 * p[1] < b.x2
  BY <1>1, <1>2, <1>3, <1>5, <1>9, <1>10, BrushInBounds DEF c
<1>12. b.y1 < 2 * p[2] + 2 /\ 2 * p[2] < b.y2
  BY <1>1, <1>2, <1>3, <1>5, <1>9, <1>10, BrushInBounds DEF d
<1>13. b \in Rectangle
  <2>1. /\ Painting!Lower(op.x, u) \in Int /\ Painting!Lower(op.y, v) \in Int
        /\ Painting!Upper(op.x, u) \in Int /\ Painting!Upper(op.y, v) \in Int
    BY <1>1, Bounds
  <2> QED BY <1>1, <1>2, <2>1 DEF Rectangle
<1> HIDE DEF b
<1> QED BY <1>4, <1>11, <1>12, <1>13, AreaIs

\* What an op draws lies within its reach.
LEMMA DrawnStays ==
    ASSUME NEW size \in ASize, NEW op \in AnyOp
    PROVE  Painting!Drawn(size, op) \subseteq Painting!Area(size, Painting!Reach(op))
<1> DEFINE bounds == Painting!OpBounds(op)
<1>0. op.op # "draw_rect" => Painting!Reach(op) = bounds
  BY DEF Painting!Reach
<1>1. CASE op.op = "set_pixel"
  <2> DEFINE a == Painting!Round(op.x)
             c == Painting!Round(op.y)
  <2>1. a \in Int /\ c \in Int
    BY Rounding DEF AnyOp
  <2>2. Painting!OpBounds(op) = [x1 |-> 2 * a, y1 |-> 2 * c, x2 |-> 2 * a + 2, y2 |-> 2 * c + 2]
    BY <1>1 DEF Painting!OpBounds, Painting!Box
  <2>3. Painting!Drawn(size, op) = Painting!Grid(size) \cap {<<a, c>>}
    BY <1>1 DEF Painting!Drawn
  <2> HIDE DEF a, c
  <2>4. [x1 |-> 2 * a, y1 |-> 2 * c, x2 |-> 2 * a + 2, y2 |-> 2 * c + 2] \in Rectangle
    BY <2>1 DEF Rectangle
  <2>5. ASSUME <<a, c>> \in Painting!Grid(size) PROVE <<a, c>> \in Painting!Area(size, Painting!OpBounds(op))
    <3>1. <<a, c>>[1] = a /\ <<a, c>>[2] = c
      OBVIOUS
    <3> QED BY <2>1, <2>2, <2>4, <2>5, <3>1, AreaIs
  <2> QED BY <1>0, <1>1, <2>3, <2>5
<1>2. CASE op.op = "fill_rect"
  <2> DEFINE a == [x1 |-> op.x, y1 |-> op.y, x2 |-> op.x + op.w, y2 |-> op.y + op.h]
             b == Painting!OpBounds(op)
  <2>1. op.x \in Int /\ op.y \in Int /\ op.x + op.w \in Int /\ op.y + op.h \in Int
    BY DEF AnyOp
  <2>2. b = [x1 |-> Painting!Lower(op.x, op.x + op.w), y1 |-> Painting!Lower(op.y, op.y + op.h),
             x2 |-> Painting!Upper(op.x, op.x + op.w), y2 |-> Painting!Upper(op.y, op.y + op.h)]
    BY <1>2 DEF Painting!OpBounds, Painting!Box
  <2>3. a \in Rectangle /\ b \in Rectangle /\ InBox(a, b)
    <3>1. /\ Painting!Lower(op.x, op.x + op.w) \in Int /\ Painting!Lower(op.x, op.x + op.w) <= op.x
          /\ Painting!Upper(op.x, op.x + op.w) \in Int /\ op.x + op.w <= Painting!Upper(op.x, op.x + op.w)
          /\ Painting!Lower(op.y, op.y + op.h) \in Int /\ Painting!Lower(op.y, op.y + op.h) <= op.y
          /\ Painting!Upper(op.y, op.y + op.h) \in Int /\ op.y + op.h <= Painting!Upper(op.y, op.y + op.h)
      BY <2>1, Bounds
    <3> QED BY <2>1, <2>2, <3>1 DEF Rectangle, InBox
  <2>4. Painting!Drawn(size, op) = Painting!Area(size, a)
    BY <1>2 DEF Painting!Drawn, Painting!Box
  <2> HIDE DEF a, b
  <2>5. Painting!Drawn(size, op) \subseteq Painting!Area(size, b)
    BY <2>3, <2>4, AreaGrows
  <2> QED BY <1>0, <1>2, <2>5 DEF b
<1>3. CASE op.op = "draw_rect"
  BY <1>3, StrokeStays DEF Painting!Drawn
<1>4. CASE op.op = "draw_line"
  BY <1>0, <1>4, LineStays DEF Painting!Drawn
<1> QED BY <1>1, <1>2, <1>3, <1>4 DEF AnyOp

\* Each pixel of a face comes from one of the source.
LEMMA OriginIsThere ==
    ASSUME NEW size \in ASize, NEW p \in Painting!Grid(Canvas), NEW r \in Rectangle, r.x1 < r.x2, r.y1 < r.y2,
           NEW mapping
    PROVE  Painting!Origin(p, r, size, mapping) \in Painting!Grid(size)
<1>1. size[1] \in Nat /\ size[1] > 0 /\ size[2] \in Nat /\ size[2] > 0 /\ p[1] \in Nat /\ p[2] \in Nat
  BY PaintAssumption, PixelsAre DEF ASize, Positive
<1>2. ASSUME NEW i \in 0..size[1]-1, NEW j \in 0..size[2]-1 PROVE <<i, j>> \in Painting!Grid(size)
  BY DEF Painting!Grid
<1>3. CASE mapping = "tile"
  BY <1>1, <1>2, <1>3 DEF Painting!Origin
<1>4. CASE mapping # "tile"
  <2>1. ASSUME NEW n \in Int, NEW m \in Nat, m > 0 PROVE Painting!Clamped(n, m) \in 0..m-1
    BY <2>1 DEF Painting!Clamped, Painting!Lower, Painting!Upper
  <2>2. r.x1 \in Int /\ r.y1 \in Int /\ r.x2 - r.x1 \in Nat /\ r.x2 - r.x1 > 0 /\ r.y2 - r.y1 \in Nat /\ r.y2 - r.y1 > 0
    BY DEF Rectangle
  <2> DEFINE a == (2 * p[1] + 1 - r.x1) * size[1]
             b == (2 * p[2] + 1 - r.y1) * size[2]
  <2>3. a \in Int /\ b \in Int
    BY <1>1, <2>2
  <2> HIDE DEF a, b
  <2>4. a \div (r.x2 - r.x1) \in Int /\ b \div (r.y2 - r.y1) \in Int
    BY <2>2, <2>3
  <2>5. /\ Painting!Clamped(a \div (r.x2 - r.x1), size[1]) \in 0..size[1]-1
        /\ Painting!Clamped(b \div (r.y2 - r.y1), size[2]) \in 0..size[2]-1
    BY <1>1, <2>1, <2>4
  <2> QED BY <1>2, <1>4, <2>5 DEF Painting!Origin, a, b
<1> QED BY <1>3, <1>4

\* The last paint, of what the canvas was before.
PaintInv ==
    /\ pic \in [Painting!Grid(Canvas) -> Ink \cup {Blank}] /\ uv \in Layout
    /\ Painting!PaintIsExact

LEMMA PaintIt ==
    ASSUME PaintInv, NEW f \in DOMAIN uv, NEW op \in Op, NEW ink \in Ink,
           NEW source \in Source \cup {Painting!Span(Painting!Rect(f))},
           Painting!Paint(f, op, source, ink)
    PROVE  PaintInv'
<1> DEFINE r == Painting!Rect(f)
           drawn == Painting!Drawn(source, op)
           Done(patch) == pic' = [p \in DOMAIN pic |-> IF p \in DOMAIN patch THEN patch[p] ELSE pic[p]]
           Told(space) == paint' = [n |-> paint.n + 1, face |-> f, op |-> op, space |-> space,
                                    source |-> source, ink |-> ink, before |-> pic]
<1>1. /\ Canvas \in ASize /\ op \in AnyOp /\ DOMAIN pic = Painting!Grid(Canvas)
      /\ uv[f] \in Rectangle /\ pic \in [Painting!Grid(Canvas) -> Ink \cup {Blank}] /\ uv \in Layout
  BY PaintAssumption DEF PaintInv, ASize, AnyOp, Rectangle
<1>2. r \in Rectangle
  <2>1. \A a, b \in Int : Painting!Lower(a, b) \in Int /\ Painting!Upper(a, b) \in Int
    BY Bounds
  <2> QED BY <1>1, <2>1 DEF Painting!Rect, Painting!Normalized, Painting!Box, Rectangle
<1>3. source \in ASize
  <2>1. \A h \in Int : Painting!Upper(Painting!Ceil(h), 1) \in Positive
    BY DEF Painting!Upper, Painting!Ceil, Positive
  <2>2. r.x2 - r.x1 \in Int /\ r.y2 - r.y1 \in Int
    BY <1>2 DEF Rectangle
  <2>3. Painting!Span(r) \in ASize
    BY <2>1, <2>2 DEF Painting!Span, ASize
  <2> QED BY <2>3, PaintAssumption DEF ASize
<1>4. /\ uv' = uv
      /\ \/ /\ Painting!InTexture(r)
            /\ \E mapping \in {"stretch", "tile"} :
                 Done(Painting!FacePatch(r, source, drawn, mapping, ink)) /\ Told("face")
         \/ /\ Painting!Allowed(r, op, "texture", source)
            /\ Done(Painting!TexturePatch(r, drawn, ink)) /\ Told("texture")
  BY DEF Painting!Paint
<1>5. Painting!Rect(f)' = r
  BY <1>4 DEF Painting!Rect
<1> HIDE DEF r, drawn
<1>6. ASSUME NEW mapping \in {"stretch", "tile"}, Painting!InTexture(r),
             Done(Painting!FacePatch(r, source, drawn, mapping, ink)), Told("face")
      PROVE  PaintInv'
  <2> DEFINE patch == Painting!FacePatch(r, source, drawn, mapping, ink)
  <2>1. /\ DOMAIN patch = Painting!Area(Canvas, r)
        /\ \A p \in Painting!Area(Canvas, r) :
             patch[p] = IF Painting!Origin(p, r, source, mapping) \in drawn THEN ink ELSE Blank
    BY DEF Painting!FacePatch
  <2>2. Painting!Area(Canvas, r) \subseteq Painting!Grid(Canvas)
    BY DEF Painting!Area
  <2>3. \A p \in Painting!Grid(Canvas) : pic'[p] = IF p \in Painting!Area(Canvas, r) THEN patch[p] ELSE pic[p]
    BY <1>1, <1>6, <2>1
  <2>4. pic' \in [Painting!Grid(Canvas) -> Ink \cup {Blank}]
    <3>1. \A p \in Painting!Area(Canvas, r) : patch[p] \in Ink \cup {Blank}
      BY <2>1
    <3>2. pic' = [p \in Painting!Grid(Canvas) |-> IF p \in DOMAIN patch THEN patch[p] ELSE pic[p]]
      BY <1>1, <1>6
    <3> HIDE DEF patch
    <3> QED BY <1>1, <2>1, <3>1, <3>2
  <2>5. Painting!Changed' \subseteq Painting!Area(Canvas, r)
    <3>1. paint'.before = pic
      BY <1>6
    <3> QED BY <2>3, <3>1 DEF Painting!Changed
  <2>6. ASSUME drawn = Painting!Grid(source), NEW p \in Painting!Area(Canvas, r) PROVE pic'[p] = ink
    <3>1. r.x1 < r.x2 /\ r.y1 < r.y2
      BY <1>6 DEF Painting!InTexture
    <3>2. Painting!Origin(p, r, source, mapping) \in drawn
      BY <1>2, <1>3, <2>2, <2>6, <3>1, OriginIsThere
    <3> QED BY <2>1, <2>2, <2>3, <3>2
  <2>7. paint'.face = f /\ paint'.space = "face" /\ paint'.source = source /\ paint'.op = op /\ paint'.ink = ink
    BY <1>6
  <2>8. Painting!PaintIsExact'
    <3>1. Painting!Rect(paint.face)' = r
      BY <1>5, <2>7 DEF Painting!Rect
    <3>2. Painting!Drawn(paint'.source, paint'.op) = drawn
      BY <2>7 DEF drawn
    <3>3. Painting!Changed' \subseteq Painting!Area(Canvas, Painting!Rect(paint.face)')
      BY <2>5, <3>1
    <3>4. paint'.space # "texture"
      BY <2>7
    <3>5. ASSUME Painting!Drawn(paint'.source, paint'.op) = Painting!Grid(paint'.source),
                 NEW p \in Painting!Area(Canvas, Painting!Rect(paint.face)')
          PROVE  pic'[p] = paint'.ink
      BY <2>6, <2>7, <3>1, <3>2, <3>5
    <3> QED BY <3>3, <3>4, <3>5 DEF Painting!PaintIsExact
  <2> QED BY <1>1, <1>4, <2>4, <2>8 DEF PaintInv
<1>7. ASSUME Painting!Allowed(r, op, "texture", source), Done(Painting!TexturePatch(r, drawn, ink)), Told("texture")
      PROVE  PaintInv'
  <2> DEFINE patch == Painting!TexturePatch(r, drawn, ink)
             spot == Painting!Area(Canvas, r) \cap drawn
  <2>1. DOMAIN patch = spot /\ \A p \in spot : patch[p] = ink
    BY DEF Painting!TexturePatch
  <2>2. Painting!Area(Canvas, r) \subseteq Painting!Grid(Canvas)
    BY DEF Painting!Area
  <2>3. \A p \in Painting!Grid(Canvas) : pic'[p] = IF p \in spot THEN ink ELSE pic[p]
    BY <1>1, <1>7, <2>1
  <2>4. pic' \in [Painting!Grid(Canvas) -> Ink \cup {Blank}]
    <3>1. pic' = [p \in Painting!Grid(Canvas) |-> IF p \in DOMAIN patch THEN patch[p] ELSE pic[p]]
      BY <1>1, <1>7
    <3> HIDE DEF patch, spot
    <3> QED BY <1>1, <2>1, <3>1
  <2>5. Painting!Changed' \subseteq spot
    <3>1. paint'.before = pic
      BY <1>7
    <3> QED BY <2>3, <3>1 DEF Painting!Changed
  <2>6. paint'.face = f /\ paint'.space = "texture" /\ paint'.op = op
    BY <1>7
  <2>7. drawn \subseteq Painting!Area(Canvas, Painting!Reach(op))
    <3>1. source = Canvas
      BY <1>7 DEF Painting!Allowed
    <3> QED BY <1>1, <3>1, DrawnStays DEF drawn
  <2>8. Painting!PaintIsExact'
    <3>1. Painting!Rect(paint.face)' = r
      BY <1>5, <2>6 DEF Painting!Rect
    <3>2. Painting!Changed' \subseteq Painting!Area(Canvas, Painting!Rect(paint.face)')
      BY <2>5, <3>1
    <3>3. Painting!Changed' \subseteq Painting!Area(Canvas, Painting!Reach(paint'.op))
      BY <2>5, <2>6, <2>7
    <3>4. paint'.space # "face"
      BY <2>6
    <3> QED BY <3>2, <3>3, <3>4 DEF Painting!PaintIsExact
  <2> QED BY <1>1, <1>4, <2>4, <2>8 DEF PaintInv
<1> QED BY <1>4, <1>6, <1>7

\* A paint changes pixels of its face only, in texture space only such as lie in
\* the box its op was admitted for, or as near to it as a stroke is thicker than
\* its rectangle, and an op that fills its source fills the face
\* (FacePainting.PaintIsExact): for every canvas, size, rectangle and op.
THEOREM PaintsAreExact == MCSpec => []PaintIsExact
<1> DEFINE Inv == part = "painting" => PaintInv
<1>1. MCInit => Inv
  BY DEF MCInit, Painting!Init, PaintInv, Painting!PaintIsExact
<1>2. Inv /\ [MCNext]_mcvars => Inv'
  <2> SUFFICES ASSUME part = "painting", PaintInv, [MCNext]_mcvars PROVE PaintInv'
    BY DEF MCNext, mcvars
  <2>1. CASE UNCHANGED mcvars
    <3>1. pic' = pic /\ uv' = uv /\ paint' = paint
      BY <2>1 DEF mcvars, fvars
    <3> QED BY <3>1 DEF PaintInv, Painting!PaintIsExact, Painting!Changed, Painting!Rect
  <2>2. CASE Painting!Next
    BY <2>2, PaintIt DEF Painting!Next
  <2> QED BY <2>1, <2>2 DEF MCNext
<1>3. Inv => PaintIsExact
  BY DEF PaintIsExact, PaintInv
<1> QED BY <1>1, <1>2, <1>3, PTL DEF MCSpec

=============================================================================
