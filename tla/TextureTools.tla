----------------------------- MODULE TextureTools -----------------------------
(***************************************************************************)
(* The texture tools: import, update, delete, assign_texture, set_face_uv, *)
(* the auto UV atlas and paint_faces.  What a face shows depends on three   *)
(* things changed one after another: the texture it refers to, the place of *)
(* its UVs, and the picture there.  The atlas changes the pictures texture  *)
(* by texture and then the UVs cube by cube, paint_faces may call the atlas *)
(* before it paints, and either can stop half way.                          *)
(*                                                                         *)
(* A texture's picture is cut into slots, the pixels that UV rectangles     *)
(* select; two rectangles that share a pixel are one slot.  A call that is  *)
(* refused without a change is no step here.                                *)
(***************************************************************************)
EXTENDS Integers, FiniteSets, Functions

CONSTANTS Texture,     \* ids
          TextureName,
          Face,        \* cube faces
          Target,      \* what paint_faces can be told to paint: sets of faces
          Slot,
          Ink,         \* what can be in a slot besides Blank
          Blank,       \* transparent
          None,        \* no texture, no hash, no UVs
          MaxRetries,  \* uvPolicy.autoMaxRetries
          MaxAstray    \* bounds the textures that go astray one after another

VARIABLES textures,    \* Blockbench's: id -> [name, pic : slot -> ink]
          recorded,    \* the session's: id -> [name, hash]
          face,        \* face -> [texture, slot]
          astray,      \* history: textures of which the session was not told what
                       \* they have become: edited or deleted by the user, renamed
                       \* by a call that then failed, put back without a hash
          reply        \* the answer to the last call

tvars == <<textures, recorded, face, astray, reply>>
World == [textures |-> textures, recorded |-> recorded, face |-> face, astray |-> astray]

BlankPic == [s \in Slot |-> Blank]
Pictures == [Slot -> Ink \cup {Blank}]
Opaque(pic) == {s \in Slot : pic[s] # Blank}

\* hashCanvasImage: collisions aside, the picture.
HashOf(pic) == pic

----------------------------------------------------------------------------
(* What a tool sees                                                        *)

\* mergeTextures: textures only the session has are still listed.
Snapshot(w) ==
    CASE DOMAIN w.recorded = {} -> DOMAIN w.textures
      [] DOMAIN w.textures = {} -> DOMAIN w.recorded
      [] OTHER -> DOMAIN w.recorded \cup DOMAIN w.textures
NameOf(w, t) == IF t \in DOMAIN w.textures THEN w.textures[t].name ELSE w.recorded[t].name
Named(w, name) == {t \in Snapshot(w) : NameOf(w, t) = name}
RecordedHash(w, t) == IF t \in DOMAIN w.recorded THEN w.recorded[t].hash ELSE None

\* getTextureUsage
Users(w, t) == {f \in Face : w.face[f].texture = t}
Mapped(w, t) == {f \in Users(w, t) : w.face[f].slot # None}
Used(w) == {f \in Face : w.face[f].texture \in DOMAIN w.textures}
Unresolved(w) == {f \in Face : w.face[f].texture # None} \ Used(w)
Overlapping(w, t) == \E f, g \in Mapped(w, t) : f # g /\ w.face[f].slot = w.face[g].slot

----------------------------------------------------------------------------
(* The steps tools are made of: worlds to worlds                           *)

\* Both keep a list in which an id is replaced or is new.
Stored(table, t, entry) == [u \in DOMAIN table \cup {t} |-> IF u = t THEN entry ELSE table[u]]
EditorPaint(w, t, name, pic) == [w EXCEPT !.textures = Stored(@, t, [name |-> name, pic |-> pic])]
SessionRecord(w, t, name, hash) ==
    [w EXCEPT !.recorded = Stored(@, t, [name |-> name, hash |-> hash]), !.astray = @ \ {t}]
Stray(w, t) == [w EXCEPT !.astray = @ \cup ({t} \cap DOMAIN w.recorded)]

\* The session looks for the name that Blockbench has.
Known(w, t) == t \in DOMAIN w.recorded /\ w.recorded[t].name = w.textures[t].name

\* Fault: the session keeps the hash of the picture before.
RepaintEditorOnly(w, t, pic) ==
    IF RecordedHash(w, t) = HashOf(pic) THEN w ELSE EditorPaint(w, t, w.textures[t].name, pic)

\* updateTexture: refused with no_change, and then nothing changes, when the
\* session has recorded this very picture.
Repaint(w, t, pic) ==
    LET name == w.textures[t].name
        painted == EditorPaint(w, t, name, pic)
    IN  CASE RecordedHash(w, t) = HashOf(pic) -> w
          [] RecordedHash(w, t) # HashOf(pic) /\ Known(w, t) -> SessionRecord(painted, t, name, HashOf(pic))
          [] OTHER -> painted

\* isSuspiciousOpaqueDrop counts pixels, which slots do not: a picture that had
\* any and is another now may have lost most of them, or too few to matter.
MayLose(before, after) == Opaque(before) # {} /\ after # before

\* The backup that is the texture's own image element may have followed the
\* canvas, and has no hash.
PutBackElement(w, t, backup) ==
    {Stray(EditorPaint(w, t, w.textures[t].name, pic), t) : pic \in {backup, w.textures[t].pic}}

\* buildUvAtlasPlan: every used face gets a place of its own in its texture.
Layouts(w) ==
    {l \in [Used(w) -> Slot] : \A f, g \in Used(w) :
        f # g /\ w.face[f].texture = w.face[g].texture => l[f] # l[g]}

\* collectReprojectMappings: the faces whose pixels go to a place.
Movers(w, t, layout, s) == {f \in Mapped(w, t) : layout[f] = s}

\* Fault: a face shows in the new layout what its new place held before.
MovedOnly(w, t, layout, whole, pic) ==
    pic = [s \in Slot |-> IF Movers(w, t, layout, s) = {} THEN Blank ELSE w.textures[t].pic[s]]
\* reprojectTexturePixels: the pixels of a face are copied one by one when its
\* rectangle is whole, neither mirrored nor cut through pixels, and has the size
\* of its new place; otherwise they come out in another order or number.  Without
\* a face that has UVs the picture is scaled as it is.
Redrawn(ink) == IF ink = Blank THEN {Blank} ELSE Ink \cup {Blank}
Reprojected(w, t, layout, whole, pic) ==
    LET before == w.textures[t].pic
    IN  IF Mapped(w, t) = {} THEN pic = before \/ \A s \in Slot : pic[s] \in Range(before)
        ELSE \A s \in Slot :
               /\ Movers(w, t, layout, s) = {} => pic[s] = Blank
               /\ \A f \in Movers(w, t, layout, s) :
                     pic[s] \in IF f \in whole THEN {before[w.face[f].slot]} ELSE Redrawn(before[w.face[f].slot])
Images(w, layout, whole) ==
    {i \in [DOMAIN w.textures -> Pictures] : \A t \in DOMAIN w.textures : Reprojected(w, t, layout, whole, i[t])}

\* The faces an atlas has no reason to change: those it does not lay out, whole
\* ones, and those that show nothing, beside one that has UVs.
Shows(w, f) == IF w.face[f].slot = None THEN Blank ELSE w.textures[w.face[f].texture].pic[w.face[f].slot]
Kept(w, whole) ==
    {f \in Face : f \in Used(w) =>
        \/ f \in whole
        \/ Shows(w, f) = Blank /\ Mapped(w, w.face[f].texture) # {}}

\* applyAtlasTextures, as far as the textures in done.
RepaintAll(w, images, done) ==
    [w EXCEPT
       !.textures = [t \in DOMAIN @ |-> IF t \in done THEN Repaint(w, t, images[t]).textures[t] ELSE @[t]],
       !.recorded = [t \in DOMAIN @ |-> IF t \in done THEN Repaint(w, t, images[t]).recorded[t] ELSE @[t]],
       !.astray = {t \in @ : t \in done => t \in Repaint(w, t, images[t]).astray}]

\* applyFaceUvAssignments, as far as the faces in moved.
MoveFaces(w, layout, moved) ==
    [w EXCEPT !.face = [f \in Face |-> IF f \in moved THEN [@[f] EXCEPT !.slot = layout[f]] ELSE @[f]]]

\* maybeRollbackTextureLoss, of a texture just repainted: its backup was drawn
\* anew, or is its own image element when that failed.
RolledBack(w, t, backup) == {Repaint(w, t, backup)} \cup PutBackElement(w, t, backup)

\* runAutoUvAtlas: any step may fail, and what was done stays done.  A texture
\* that lost its picture may be put back, and that ends the call.
AtlasFailures(w, layout, images) ==
    {MoveFaces(RepaintAll(w, images, DOMAIN w.textures), layout, m) : m \in SUBSET Used(w)}
    \cup UNION {LET v == RepaintAll(w, images, done)
                IN  {v} \cup UNION {RolledBack(v, t, w.textures[t].pic) :
                        t \in {u \in done : MayLose(w.textures[u].pic, v.textures[u].pic)}}
                : done \in SUBSET DOMAIN w.textures}
AtlasRefused(w) == DOMAIN w.textures = {} \/ Unresolved(w) # {}
Laid(w) == IF AtlasRefused(w) THEN {} ELSE Layouts(w)
AtlasFailed(w) ==
    {w} \cup UNION {UNION {AtlasFailures(w, l, i) : i \in Images(w, l, {})} : l \in Laid(w)}
AtlasDone(w) ==
    UNION {UNION {{[kept |-> Kept(w, whole),
                    world |-> MoveFaces(RepaintAll(w, i, DOMAIN w.textures), l, Used(w))] :
                      i \in Images(w, l, whole)}
                  : whole \in SUBSET {f \in Used(w) : w.face[f].slot # None}}
           : l \in Laid(w)}

\* assignTexture, face after face.
Assigned(w, fs, t) == [w EXCEPT !.face = [f \in Face |-> IF f \in fs THEN [@[f] EXCEPT !.texture = t] ELSE @[f]]]

\* preflight's warnings that call for a recovery (UVs out of scale or out of
\* bounds, which the model does not tell apart, may call for one as well).
MustRecover(w) ==
    \/ Unresolved(w) # {}
    \/ \E t \in DOMAIN w.textures : Overlapping(w, t)
    \/ \A t \in DOMAIN w.textures : Mapped(w, t) = {}

\* guardUvUsage, resolvePaintFacesUvTarget, resolvePaintFacesTextureSource: of
\* the world as it is now, once a recovery has been.
GuardPasses(w, t) == ~Overlapping(w, t)
TargetSlots(w, fs) == {w.face[f].slot : f \in fs} \ {None}
SourcePic(w, t) == w.textures[t].pic
\* preparePaintFacesPreflight
PreflightPasses(w, fs, t) == GuardPasses(w, t) /\ TargetSlots(w, fs) # {}

\* Fault: the target's slots are those from before the recovery.
StaleUsagePics(w, fs, t, space, ink) ==
    {[s \in Slot |-> IF \E f \in fs : face[f].slot = s THEN ink ELSE SourcePic(w, t)[s]]}
\* runPaintFacesPass: in face space the op is painted on each target; in texture
\* space on those of them that it reaches.
PaintedPics(w, fs, t, space, ink) ==
    LET On(slots) == [s \in Slot |-> IF s \in slots THEN ink ELSE SourcePic(w, t)[s]]
    IN  {On(slots) : slots \in {r \in SUBSET TargetSlots(w, fs) : space = "face" => r = TargetSlots(w, fs)}}

\* finalizePaintFacesPass: only after a recovery is a lost picture noticed, and
\* then the UVs stay moved.  Rendering, or the update that puts back, may fail.
PassDone(w, fs, t, space, ink) ==
    IF PreflightPasses(w, fs, t) THEN {Repaint(w, t, pic) : pic \in PaintedPics(w, fs, t, space, ink)} ELSE {}
PassFailed(w, fs, t, ink, backup, recoveries) ==
    {w} \cup UNION {{v} \cup PutBackElement(v, t, backup) :
        v \in {p \in PassDone(w, fs, t, "texture", ink) : recoveries > 0 /\ MayLose(backup, p.textures[t].pic)}}

\* runPaintFaces once the texture is known: assign, recover when the warnings
\* ask for it and once more when the pass does, paint.
Rounds == IF MaxRetries < 2 THEN MaxRetries ELSE 2
\* The worlds a number of recoveries may leave, with the faces they kept.
Recovered(w, n) ==
    LET onward(rs) == UNION {{[kept |-> r.kept \cap a.kept, world |-> a.world] : a \in AtlasDone(r.world)} : r \in rs}
        start == {[kept |-> Face, world |-> w]}
    IN  CASE n = 0 -> start
          [] n = 1 -> onward(start)
          [] n = 2 -> onward(onward(start))
Left(w, n) == {r.world : r \in Recovered(w, n)}
Ready(w) == {n \in 0..Rounds : n = 0 /\ Rounds > 0 => ~MustRecover(w)}
PaintDone(w, fs, t, space, ink) ==
    LET assigned == Assigned(w, fs, t)
    IN  UNION {UNION {{[kept |-> r.kept, world |-> v] : v \in PassDone(r.world, fs, t, space, ink)}
                      : r \in Recovered(assigned, n)}
               : n \in Ready(assigned)}
PaintFailed(w, fs, t, ink) ==
    LET assigned == Assigned(w, fs, t)
    IN  {Assigned(w, gs, t) : gs \in SUBSET fs}
        \cup (UNION {UNION {AtlasFailed(v) : v \in Left(assigned, n)} : n \in {m \in 0..Rounds : m < Rounds}})
        \cup (UNION {UNION {PassFailed(v, fs, t, ink, w.textures[t].pic, n) : v \in Left(assigned, n)}
                      : n \in Ready(assigned)})

----------------------------------------------------------------------------

NoReply == [tool |-> "none", ok |-> FALSE, faces |-> {}, space |-> "face", ink |-> Blank, kept |-> {}]
Init == /\ textures = << >> /\ recorded = << >> /\ astray = {}
        /\ face \in [Face -> [texture : {None}, slot : Slot \cup {None}]]
        /\ reply = NoReply

Become(w) == textures' = w.textures /\ recorded' = w.recorded /\ face' = w.face /\ astray' = w.astray
Answer(tool, ok, kept) ==
    reply' = [tool |-> tool, ok |-> ok, faces |-> {}, space |-> "face", ink |-> Blank, kept |-> kept]

\* An id is made afresh.  Without a canvas the texture is in Blockbench all the
\* same, empty, and the session is not told.
Unknown(t) == t \notin DOMAIN textures \cup DOMAIN recorded
Added(t, name, pic) == SessionRecord(EditorPaint(World, t, name, pic), t, name, HashOf(pic))
AddedEmpty(t, name) == EditorPaint(World, t, name, BlankPic)

\* Bound: a texture does not get the name under which the session still has
\* another, astray since its own name changed; the session would take one for
\* the other.
Free(t, name) == \A r \in DOMAIN recorded \ {t} : recorded[r].name # name
MayStray == Cardinality(astray) < MaxAstray

ImportTexture(t, name, pic) ==
    /\ Unknown(t) /\ Named(World, name) = {} /\ Free(t, name)
    /\ \/ Become(Added(t, name, pic)) /\ Answer("import", TRUE, {})
       \/ Become(AddedEmpty(t, name)) /\ Answer("import", FALSE, {})

\* Without a canvas the new name is there, in Blockbench only.
UpdateTexture(t, newName, pic) ==
    LET old == textures[t].name
        painted == EditorPaint(World, t, newName, pic)
        named == EditorPaint(World, t, newName, textures[t].pic)
    IN  /\ t \in DOMAIN textures /\ Named(World, newName) \subseteq {t} /\ Free(t, newName)
        /\ newName # old \/ RecordedHash(World, t) # HashOf(pic)
        /\ \/ /\ Become(IF Known(World, t) THEN SessionRecord(painted, t, newName, HashOf(pic)) ELSE painted)
              /\ Answer("update", TRUE, {})
           \/ newName # old /\ MayStray /\ Become(Stray(named, t)) /\ Answer("update", FALSE, {})

\* The session forgets by name.
EditorDelete(t) == Restrict(textures, DOMAIN textures \ {t})
SessionRemove(name) == Restrict(recorded, {r \in DOMAIN recorded : recorded[r].name # name})
DeleteTexture(t) ==
    /\ t \in DOMAIN textures
    /\ textures' = EditorDelete(t) /\ recorded' = SessionRemove(textures[t].name)
    /\ astray' = astray \cap DOMAIN recorded'
    /\ Answer("delete", TRUE, {}) /\ UNCHANGED face

AssignTexture(fs, t) ==
    /\ t \in DOMAIN textures
    /\ Become(Assigned(World, fs, t)) /\ Answer("assign", TRUE, {})

\* paint_texture on faces: the picture is made from nothing, so all other slots
\* become transparent.
PatchPic(fs, ink) == [s \in Slot |-> IF \E f \in fs : face[f].slot = s THEN ink ELSE Blank]
PaintTexture(t, fs, ink) ==
    /\ t \in DOMAIN textures /\ fs \subseteq Mapped(World, t) /\ fs # {} /\ ~Overlapping(World, t)
    /\ RecordedHash(World, t) # HashOf(PatchPic(fs, ink))
    /\ Become(Repaint(World, t, PatchPic(fs, ink))) /\ Answer("patch", TRUE, {})

SetFaceUv(f, s) ==
    /\ face' = [face EXCEPT ![f].slot = s]
    /\ Answer("uv", TRUE, {}) /\ UNCHANGED <<textures, recorded, astray>>

AutoUvAtlas ==
    \/ \E r \in AtlasDone(World) : Become(r.world) /\ Answer("atlas", TRUE, r.kept)
    \/ \E w \in AtlasFailed(World) : Become(w) /\ Answer("atlas", FALSE, {})

\* resolveTextureForPaintFaces: a texture no snapshot lists is made first; one
\* only the session lists cannot be assigned, and nothing happens.
PaintFaces(fs, name, ink) ==
    LET Paint(t, w) ==
            \/ \E space \in {"face", "texture"} : \E r \in PaintDone(w, fs, t, space, ink) :
                   /\ Become(r.world)
                   /\ reply' = [tool |-> "paint", ok |-> TRUE, faces |-> fs, space |-> space, ink |-> ink, kept |-> r.kept]
            \/ \E v \in PaintFailed(w, fs, t, ink) : Become(v) /\ Answer("paint", FALSE, {})
    IN  \E t \in Texture :
           \/ t \in Named(World, name) \cap DOMAIN textures /\ Paint(t, World)
           \/ /\ Named(World, name) = {} /\ Unknown(t) /\ Free(t, name)
              /\ \/ Paint(t, Added(t, name, BlankPic))
                 \/ Become(AddedEmpty(t, name)) /\ Answer("paint", FALSE, {})

UserPaints(t, pic) ==
    /\ t \in DOMAIN textures /\ MayStray
    /\ Become(Stray(EditorPaint(World, t, textures[t].name, pic), t)) /\ Answer("user", TRUE, {})

UserDeletes(t) ==
    /\ t \in DOMAIN textures /\ MayStray
    /\ Become([Stray(World, t) EXCEPT !.textures = EditorDelete(t)]) /\ Answer("user", TRUE, {})

Next == \/ \E t \in Texture, n \in TextureName, p \in Pictures : ImportTexture(t, n, p) \/ UpdateTexture(t, n, p)
        \/ \E t \in Texture : DeleteTexture(t) \/ UserDeletes(t)
        \/ \E fs \in Target, t \in Texture : AssignTexture(fs, t)
        \/ \E f \in Face, s \in Slot : SetFaceUv(f, s)
        \/ \E t \in Texture, fs \in SUBSET Face, i \in Ink : PaintTexture(t, fs, i)
        \/ AutoUvAtlas
        \/ \E fs \in Target, n \in TextureName, i \in Ink : PaintFaces(fs, n, i)
        \/ \E t \in Texture, p \in Pictures : UserPaints(t, p)

Spec == Init /\ [][Next]_tvars

----------------------------------------------------------------------------

Look(f) == IF f \in Used(World) THEN Shows(World, f) ELSE Blank

\* However a call ends, the session has the name of each texture it knows and
\* the hash of the picture in Blockbench, so that an update refused as "no
\* change" would have changed nothing: of every texture that has not gone astray,
\* whatever was done to the others, and of one that has, once it is painted anew
\* under the name the session has.
RefusalsAreTrue ==
    \A t \in DOMAIN recorded \ astray :
        /\ t \in DOMAIN textures
        /\ recorded[t] = [name |-> textures[t].name, hash |-> HashOf(textures[t].pic)]

\* An atlas that succeeds changes every texture and every UV, and no face that
\* it copies pixel by pixel looks different for it, nor one that showed nothing.
\* A texture astray is left out: the picture may be refused as no change.
AtlasStep ==
    reply'.tool = "atlas" /\ reply'.ok =>
        \A f \in reply'.kept : face[f].texture \notin astray => Look(f)' = Look(f)
AtlasKeepsLooks == [][AtlasStep]_tvars

\* A paint that succeeds in face space shows on each of its faces that has UVs;
\* in either space, and whether or not it had to lay out the textures anew first,
\* on no other face but those that an atlas may change.
PaintStep ==
    reply'.tool = "paint" /\ reply'.ok =>
        \A f \in {g \in Face : face'[g].texture \notin astray} :
            /\ f \in reply'.faces /\ reply'.space = "face" /\ face'[f].slot # None => Look(f)' = reply'.ink
            /\ f \in reply'.kept \ reply'.faces => Look(f)' = Look(f)
PaintStaysOnItsFace == [][PaintStep]_tvars
=============================================================================
