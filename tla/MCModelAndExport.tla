-------------------------- MODULE MCModelAndExport --------------------------
(***************************************************************************)
(* A small instance of the bone and cube tools and one of the export, for  *)
(* TLC.  Neither reads the other's state here: a behaviour chooses one at  *)
(* the start and leaves the variables of the other alone.                  *)
(***************************************************************************)
EXTENDS Integers, Sequences, FiniteSets, TLC

CONSTANTS None,
          Node, Name, Top, MaxCubes, MaxUserEdits, MaxDrift,
          Shape, Grain, KeyGrain, Codec, Request, MaxEdits

\* Ids, names, nothing, the top level and "same" are told apart, and there are
\* only so many ids.
ASSUME ModelAssumption ==
    /\ IsFiniteSet(Node) /\ "root" \in Name /\ Node \cap Name = {}
    /\ {None, Top, "same"} \cap (Node \cup Name) = {} /\ None # Top /\ None # "same" /\ Top # "same"

\* Blockbench's codecs come in an order.
ASSUME CodecAssumption == DOMAIN Codec \subseteq Nat

\* The models are of their types.  Cubes and tracks name a bone, faces and times
\* are numbers, some bone of a model hangs from none of its bones, and a clip has
\* one track for each channel of a bone.
IsSequence(s) == s \in Seq({s[i] : i \in DOMAIN s})
IsClip(clip) ==
    /\ IsSequence(clip)
    /\ \A k \in DOMAIN clip : clip[k].times \in Seq(Nat) /\ clip[k].bone # None
    /\ \A j, k \in DOMAIN clip :
         clip[j].bone = clip[k].bone /\ clip[j].channel = clip[k].channel => j = k
IsModel(m) ==
    /\ IsSequence(m.bones) /\ IsSequence(m.cubes) /\ IsSequence(m.meshes) /\ IsSequence(m.clips)
    /\ m.bones # <<>> => \E i \in DOMAIN m.bones : \A j \in DOMAIN m.bones :
                           m.bones[j].name # m.bones[i].parent
    /\ \A i \in DOMAIN m.cubes : m.cubes[i].bone # None
    /\ \A i \in DOMAIN m.meshes : m.meshes[i].faces \in Seq(Nat)
    /\ \A c \in DOMAIN m.clips : IsClip(m.clips[c])
ASSUME ShapeAssumption ==
    /\ Grain \in Nat \ {0} /\ KeyGrain \in Nat \ {0}
    /\ \A m \in Shape : IsModel(m)

VARIABLES part,
          editor, session, result, drift, userEdits,
          shape, version, disk, reply

mvars == <<editor, session, result, drift, userEdits>>
xvars == <<shape, version, disk, reply>>

Model == INSTANCE ModelTools
Export == INSTANCE ModelExport

Init ==
    \/ /\ part = "model" /\ Model!Init
       /\ shape = None /\ version = None /\ disk = None /\ reply = None
    \/ /\ part = "export" /\ Export!Init
       /\ editor = None /\ session = None /\ result = None /\ drift = None /\ userEdits = None

Next ==
    /\ UNCHANGED part
    /\ \/ part = "model" /\ Model!Next /\ UNCHANGED xvars
       \/ part = "export" /\ Export!Next /\ UNCHANGED mvars

Spec == Init /\ [][Next]_<<part, mvars, xvars>>

Symmetry == Permutations(Node)

\* The shapes exported.  What the codecs make of a model is checked of every
\* shape, in its initial state; the service does not look at the shape, so
\* only one of them goes on to be exported.
Group(n, p) == [name |-> n, parent |-> p]
MCBones == {<<>>, <<Group("root", None), Group("a", "root"), Group("b", "a")>>,
            <<Group("a", "b"), Group("b", None)>>, <<Group("a", "gone"), Group("b", "a")>>}
Geometry == {<<>>, <<[bone |-> "a"], [bone |-> "b"]>>, <<[bone |-> "gone"]>>}
Meshes == {<<>>, <<[bone |-> None, faces |-> <<3, 2>>], [bone |-> "b", faces |-> <<4>>]>>}
Track(b, ch, ts) == [bone |-> b, channel |-> ch, times |-> ts]
Clips == {<<Track("b", "rot", <<0, 3, 2>>), Track("a", "scale", <<>>), Track("a", "pos", <<4>>)>>,
          <<Track("gone", "pos", <<0>>), Track("a", "pos", <<1, 3>>), Track("b", "pos", <<0>>)>>,
          <<Track("b", "scale", <<2, 0>>), Track("b", "pos", <<2, 1>>)>>}
MCShape == [bones : MCBones, cubes : Geometry, meshes : Meshes,
            clips : {<<>>} \cup {<<c>> : c \in Clips} \cup {<<c, d>> : c \in Clips, d \in Clips}]

\* Codecs as Blockbench has them: two write .json, and one before them is called
\* what the last has for an id.
MCCodec == <<[id |-> "bedrock_old", name |-> "bedrock", extensions |-> {"old"}],
             [id |-> "java_block", name |-> "javablock", extensions |-> {"json"}],
             [id |-> "bedrock", name |-> "bedrockmodel", extensions |-> {"json"}]>>

Exported == [bones |-> <<>>, cubes |-> <<>>, meshes |-> <<>>, clips |-> <<>>]
OneShapeGoesOn == part = "export" => shape = Exported

----------------------------------------------------------------------------
(* The properties of the two, see there                                    *)

\* No sequence of renames and moves, of the tools or in Blockbench, closes a
\* cycle of bones or leaves a node without its group.
OutlinerIsTree == part = "model" => Model!OutlinerIsTree

\* The session's bones and cubes are Blockbench's until an edit in Blockbench, a
\* call that ends half way, a move Blockbench does not make, or the group "root"
\* deleted or renamed away from cubes that are outside every group.
SessionMirrorsEditor == part = "model" => Model!SessionMirrorsEditor

\* delete_bone names and counts the bones, and counts the cubes, that are gone
\* (with "root" also cubes that stay), as long as the two trees are in step.  A
\* call that ends with an error leaves no more behind than a root bone and a new
\* name of one cube, or less than before when a delete stopped half way.
RepliesAreTrue == [][part = "model" => Model!DeleteTells /\ Model!RefusalLeaves]_mvars

\* The indices, counts and times of an exported glTF file fit together; it and
\* the GeckoLib files hold the cubes and the keyframes of the model, the times
\* rounded as each of them does.
FilesAreWellFormed == part = "export" => Export!GltfIsWellFormed /\ Export!FormatsAgree

\* Every file an export reports holds the state it exported, by the codec asked
\* for or one that goes by its id; of a reported directory, a file inside.
ReportedFilesMatch == part = "export" => Export!ReportedFilesMatch
=============================================================================
