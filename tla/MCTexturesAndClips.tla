------------------------- MODULE MCTexturesAndClips -------------------------
(***************************************************************************)
(* Small instances for TLC of the UV atlas' plan (UvAtlas, extended here),  *)
(* of the texture tools, of paint_faces' pixels, of the animation tools    *)
(* and of render_preview.  None reads the others' state: a behaviour       *)
(* chooses one at the start and leaves their variables alone.  The ids and *)
(* names of clips and of textures are the same model values, so that one   *)
(* symmetry serves both; in the plan and in the pixels they do not occur.  *)
(***************************************************************************)
EXTENDS UvAtlas, TLC

CONSTANTS Part,        \* the parts a run is about
          Clip, ClipName, Bone, Root, Grouped, Time, Value, MaxPose, MaxCalls,
          Texture, TextureName, Side, Slot, Ink, Blank, None, MaxRetries, MaxAstray,
          Canvas, Layout, Source, Op, MaxPaints,
          Turn, FrameCount, MaxFrames, MaxTime

ASSUME BoneAssumption == Grouped \subseteq Bone

ASSUME PreviewAssumption ==
    /\ IsFiniteSet(Clip) /\ None \notin Clip /\ None \notin ClipName
    /\ Turn \in Nat /\ Turn > 1 /\ MaxTime \in Nat
    /\ FrameCount \subseteq Positive /\ MaxFrames \in Positive

\* A call's ops and sizes, and the rectangles UVs can be.
ASSUME PaintAssumption ==
    /\ Canvas \in Positive \X Positive /\ Source \subseteq Positive \X Positive
    /\ \A rects \in Layout : \A f \in DOMAIN rects : rects[f] \in [x1 : Int, y1 : Int, x2 : Int, y2 : Int]
    /\ Op \subseteq [op : {"set_pixel", "fill_rect", "draw_rect", "draw_line"},
                    x : Int, y : Int, w : Int, h : Int, line : Positive]

\* The hash of no picture, and the place of no UVs.
ASSUME TextureAssumption == None \notin [Slot -> Ink \cup {Blank}] /\ None \notin Slot /\ MaxRetries \in Nat

VARIABLES part,
          clips, tracked, alias, lapses, calls,
          textures, recorded, face, astray, reply,
          pic, uv, paint,
          order, title, view, shot

cvars == <<clips, tracked, alias, lapses, calls>>
tvars == <<textures, recorded, face, astray, reply>>
fvars == <<pic, uv, paint>>
wvars == <<order, title, view, shot>>

Animation == INSTANCE AnimationTools
Texturing == INSTANCE TextureTools WITH Face <- Side, Target <- SUBSET Side \ {{}}
Painting == INSTANCE FacePainting
Camera == INSTANCE Preview

NoPlan == /\ req = None /\ pc = "refused" /\ width = 0 /\ height = 0 /\ density = 0
          /\ tex = 0 /\ rest = {} /\ x = 0 /\ y = 0 /\ row = 0 /\ placed = {}
NoClips == clips = None /\ tracked = None /\ alias = None /\ lapses = None /\ calls = None
NoTextures == textures = None /\ recorded = None /\ face = None /\ astray = None /\ reply = None
NoPaint == pic = None /\ uv = None /\ paint = None
NoView == order = None /\ title = None /\ view = None /\ shot = None

MCInit ==
    /\ part \in Part
    /\ IF part = "plan" THEN Init ELSE NoPlan
    /\ IF part = "animation" THEN Animation!Init ELSE NoClips
    /\ IF part = "texture" THEN Texturing!Init ELSE NoTextures
    /\ IF part = "painting" THEN Painting!Init ELSE NoPaint
    /\ IF part = "preview" THEN Camera!Init ELSE NoView

MCNext ==
    /\ UNCHANGED part
    /\ \/ part = "plan" /\ Next /\ UNCHANGED <<cvars, tvars, fvars, wvars>>
       \/ part = "animation" /\ Animation!Next /\ UNCHANGED <<vars, tvars, fvars, wvars>>
       \/ part = "texture" /\ Texturing!Next /\ UNCHANGED <<vars, cvars, fvars, wvars>>
       \/ part = "painting" /\ Painting!Next /\ UNCHANGED <<vars, cvars, tvars, wvars>>
       \/ part = "preview" /\ Camera!Next /\ UNCHANGED <<vars, cvars, tvars, fvars>>

mcvars == <<part, vars, cvars, tvars, fvars, wvars>>

\* Only the plan is one call that runs to its end.
MCSpec == MCInit /\ [][MCNext]_mcvars /\ WF_mcvars(part = "plan" /\ MCNext)

\* Every way to give three faces, on one texture or two, one of five sizes, five
\* faces one of two; sizes that fit at once, after growing, at a lower density,
\* and never.
Sizes == {[w |-> 1, h |-> 1], [w |-> 3, h |-> 2], [w |-> 2, h |-> 3], [w |-> 8, h |-> 1], [w |-> 0, h |-> 2]}
Dims(n, sizes) == {[f \in Face |-> IF f <= n THEN d[f] ELSE [w |-> 0, h |-> 0]] : d \in [1..n -> sizes]}
MCRequests ==
    [textures : {<<{1, 2, 3}>>, <<{1, 2}, {}, {3}>>}, dims : Dims(3, Sizes), missing : {{}},
     width : {2, 4}, height : {4}, maxEdge : {4, 8}, padding : {0, 1}, density : {2, 6}, apply : {TRUE}]
    \cup [textures : {<<{1, 2, 3, 4, 5}>>}, dims : Dims(5, {[w |-> 1, h |-> 1], [w |-> 2, h |-> 3]}), missing : {{}},
     width : {4, 6}, height : {4}, maxEdge : {8}, padding : {0, 1}, density : {3}, apply : {TRUE}]
    \cup [textures : {<<{1, 2}>>}, dims : Dims(2, Sizes), missing : {{}, {2}},
     width : {4}, height : {4}, maxEdge : {4, 8}, padding : {1}, density : {2, 6}, apply : BOOLEAN]

\* A texture of four by three pixels.  Two faces side by side, and three that cut
\* pixels, one of them a sliver, mirrored, and one without a width.  Ops of every
\* kind: inside, across an edge and outside, a stroke as thick as its rectangle,
\* a thick line, fractions.
MCCanvas == <<4, 3>>
Box(x1, y1, x2, y2) == [x1 |-> x1, y1 |-> y1, x2 |-> x2, y2 |-> y2]
MCLayout == {<<Box(0, 0, 4, 6), Box(4, 0, 8, 6)>>, <<Box(1, 1, 4, 5), Box(6, 0, 5, 3), Box(3, 0, 3, 6)>>}
MCSource == {<<4, 3>>, <<2, 2>>}
AnOp(kind, x0, y0, w, h, line) == [op |-> kind, x |-> x0, y |-> y0, w |-> w, h |-> h, line |-> line]
MCOp == {AnOp("set_pixel", 2, 2, 0, 0, 1), AnOp("set_pixel", 7, 0, 0, 0, 1),
         AnOp("fill_rect", 0, 0, 8, 6, 1), AnOp("fill_rect", 1, 0, 3, 3, 1), AnOp("fill_rect", 4, 4, 6, 4, 1),
         AnOp("draw_rect", 0, 0, 6, 6, 1), AnOp("draw_rect", 2, 0, 2, 4, 2),
         AnOp("draw_line", 0, 0, 6, 4, 1), AnOp("draw_line", 6, 2, -4, 0, 3)}

\* No step reads the last answer.
MCView == <<part, vars, cvars, textures, recorded, face, astray, fvars, wvars>>

Symmetry == Permutations(Clip) \cup Permutations(ClipName) \cup Permutations(Value) \cup Permutations(Slot)

----------------------------------------------------------------------------
(* The properties of the modules, see there                                *)

\* The session has the clips, the keys and the triggers that Blockbench has, each
\* until something happens that the code does not tell it of: a clip deleted by
\* the user or by a call that fails half way, a key not made, a bone renamed.  And
\* in a clip a bone has one value at a moment, whatever happened.
AnimationsMirrored == part = "animation" => Animation!AnimationsMirrored /\ Animation!OneKeyPerMoment

\* A texture tool that refuses a change as none is right, except about a texture
\* the session was not told of (astray).
RefusalsAreTrue == part = "texture" => Texturing!RefusalsAreTrue

\* An atlas changes pictures and UVs, and no face looks different that it copies
\* pixel by pixel or that showed nothing.
AtlasKeepsLooks == [][part = "texture" => Texturing!AtlasStep]_tvars

\* paint_faces paints its faces, and no other but such as an atlas may change,
\* through its own atlas as well.
PaintStaysOnItsFace == [][part = "texture" => Texturing!PaintStep]_tvars

\* A paint changes no pixel beyond its face, nor beyond the box it was admitted
\* for by more than its stroke is too thick, and an op that fills its source
\* fills the face.
PaintIsExact == part = "painting" => Painting!PaintIsExact

\* A paint leaves what is there, except where it puts its ink.
LayersStay == part = "painting" => Painting!LayersStay

\* After a preview the camera is the user's again and the clip selected before,
\* or the first of its name, is selected at its time; what cannot be put back is
\* no more than the clip that was posed.  The frames go evenly round the model.
ViewIsRestored == part = "preview" => Camera!ViewIsRestored /\ Camera!FramesGoRound
=============================================================================
