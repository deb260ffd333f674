---------------------------- MODULE ModelExport ----------------------------
(***************************************************************************)
(* export: the canonical model of a snapshot, the glTF and the GeckoLib    *)
(* codecs, and the service that chooses one of them or Blockbench's own    *)
(* and writes the files.                                                   *)
(*                                                                         *)
(* Positions, rotations, UVs and pictures are left out.  What is kept is   *)
(* what refers to what: a glTF file is a web of indices into arrays that   *)
(* are filled in different loops, bones by name become nodes by index, and *)
(* the keyframes of a channel are packed twice, times and values.          *)
(***************************************************************************)
EXTENDS Integers, Sequences, FiniteSets, SequencesExt, FiniteSetsExt

CONSTANTS Shape,      \* the models exported: [bones, cubes, meshes, clips]
          None,       \* no parent, no file
          Grain,      \* ticks of the time epsilon of the glTF codec
          KeyGrain,   \* ticks of the last digit of a GeckoLib key, four behind the point
          Codec,      \* Blockbench's codecs in their order: [id, name, extensions]
          Request,    \* the codecs a client names
          MaxEdits

VARIABLES shape,      \* the model: what the session's snapshot has
          version,    \* how often it was edited
          disk,       \* file -> what was written there last: [version, by]
          reply       \* the last call's answer: [ok, files, version, by]

xvars == <<shape, version, disk, reply>>

----------------------------------------------------------------------------
(* The nodes of a glTF file: the bones, then the mesh                      *)

Bones(m) == IF m.bones = <<>> THEN <<[name |-> "root", parent |-> None]>> ELSE m.bones

\* boneIndexByName, where the last bone of a name wins; 0 for none.
IndexOf(bs, name) == Max({0} \cup {i \in DOMAIN bs : bs[i].name = name})
ParentIndex(bs, i) == IF bs[i].parent = None THEN 0 ELSE IndexOf(bs, bs[i].parent)
Children(bs, i) == {j \in DOMAIN bs : ParentIndex(bs, j) = i}
MeshNode(bs) == Len(bs) + 1
RootNodes(bs) ==
    LET roots == {i \in DOMAIN bs : ParentIndex(bs, i) = 0}
    IN (IF roots = {} THEN {1} ELSE roots) \cup {MeshNode(bs)}
RootBone(bs) == IF IndexOf(bs, "root") # 0 THEN IndexOf(bs, "root") ELSE Min(RootNodes(bs))

\* The node of a bone's name; what has no bone of the model goes to the root.
NodeOf(bs, bone) == IF IndexOf(bs, bone) = 0 THEN RootBone(bs) ELSE IndexOf(bs, bone)

\* GLT-WARN-ORPHAN_GEOMETRY, of a cube, a mesh or a track.
Orphans(m) == \E bone \in {c.bone : c \in ToSet(m.cubes)} \cup {e.bone : e \in ToSet(m.meshes)}
                          \cup {t.bone : t \in UNION {ToSet(clip) : clip \in ToSet(m.clips)}} :
                 bone # None /\ IndexOf(Bones(m), bone) = 0

\* appendCube: two triangles a face; appendMesh: the fan of a face.
CubeFaces == 6
FaceVertices == 2 * 3
CubeVertices == CubeFaces * FaceVertices
FanVertices(n) == IF n < 3 THEN 0 ELSE 3 * (n - 2)
Total(counts) ==
    LET sum[i \in 0..Len(counts)] == IF i = 0 THEN 0 ELSE sum[i - 1] + counts[i]
    IN sum[Len(counts)]
MeshVertices(mesh) == Total([f \in DOMAIN mesh.faces |-> FanVertices(mesh.faces[f])])
VertexCount(m) ==
    CubeVertices * Len(m.cubes) + Total([i \in DOMAIN m.meshes |-> MeshVertices(m.meshes[i])])

----------------------------------------------------------------------------
(* The animations of a glTF file                                           *)

\* Numbers in the order of their keys, and where two have one key in their own.
Earlier(S, key, x) == {y \in S : key[y] < key[x] \/ (key[y] = key[x] /\ y < x)}
InOrder(S, key) ==
    [p \in 1..Cardinality(S) |-> CHOOSE x \in S : Cardinality(Earlier(S, key, x)) = p - 1]
\* Array.sort, which is stable.
Sorted(s, key) == [p \in DOMAIN s |-> s[InOrder(DOMAIN s, key)[p]]]

\* Math.round and toFixed: the nearest multiple, of two the greater.
Rounded(t, grain) == (2 * t + grain) \div (2 * grain)

\* decodeTrackKeys: one key a bucket, in the order of time.
Bucket(t) == Rounded(t, Grain)
Buckets(times) == {Bucket(t) : t \in ToSet(times)}
DecodedKeys(times) == InOrder(Buckets(times), [b \in Buckets(times) |-> b])

\* buildCanonicalChannels: the keys of a track in the order of time, and no
\* track without keys.
ChannelKeys(times) == Sorted(times, times)
Keyed(clip) == {k \in DOMAIN clip : clip[k].times # <<>>}
Channels(clip) ==
    LET order == InOrder(Keyed(clip), [k \in Keyed(clip) |-> k])
    IN [p \in DOMAIN order |->
           [bone |-> clip[order[p]].bone, channel |-> clip[order[p]].channel,
            times |-> ChannelKeys(clip[order[p]].times)]]

\* By node, and the tracks of a node by channel.
ChannelOrder(channel) == IF channel = "pos" THEN 0 ELSE IF channel = "rot" THEN 1 ELSE 2
TrackOrder(bs, t) == 3 * NodeOf(bs, t.bone) + ChannelOrder(t.channel)
SortedTracks(bs, clip) == Sorted(clip, [k \in DOMAIN clip |-> TrackOrder(bs, clip[k])])

\* A sampler: the node and the path it drives, its times, and the floats it
\* packs for them.
\* Fault: the values of keys that fall into one bucket are kept.
RawValues(track) == Len(track.times) * (IF track.channel = "rot" THEN 4 ELSE 3)
PackedValues(track) == Len(DecodedKeys(track.times)) * (IF track.channel = "rot" THEN 4 ELSE 3)
Sampler(bs, track) ==
    [node |-> NodeOf(bs, track.bone), path |-> track.channel,
     times |-> DecodedKeys(track.times),
     width |-> IF track.channel = "rot" THEN 4 ELSE 3,
     values |-> PackedValues(track)]
Samplers(m, c) ==
    LET bs == Bones(m)
        sorted == SortedTracks(bs, Channels(m.clips[c]))
    IN [k \in DOMAIN sorted |-> Sampler(bs, sorted[k])]
SamplersUpTo(m, c) == FlattenSeq([i \in 1..c |-> Samplers(m, i)])
AllSamplers(m) == SamplersUpTo(m, Len(m.clips))
SamplersBefore(m, c) == Len(SamplersUpTo(m, c - 1))

----------------------------------------------------------------------------
(* The buffer: sections one after another, each at a multiple of four; an  *)
(* accessor reads count elements of so many bytes of one section           *)

Align4(n) == ((n + 3) \div 4) * 4
BaseAccessors(m) ==
    LET v == VertexCount(m)
    IN <<[count |-> Len(Bones(m)), bytes |-> 64], [count |-> v, bytes |-> 12],
         [count |-> v, bytes |-> 12], [count |-> v, bytes |-> 8],
         [count |-> v, bytes |-> 8], [count |-> v, bytes |-> 16]>>
SamplerAccessors(s) ==
    <<[count |-> Len(s.times), bytes |-> 4],
      [count |-> s.values \div s.width, bytes |-> 4 * s.width]>>
Accessors(m) ==
    LET ss == AllSamplers(m)
    IN BaseAccessors(m) \o FlattenSeq([k \in 1..Len(ss) |-> SamplerAccessors(ss[k])])

\* What pushSection is given.
BaseSections(m) ==
    LET v == VertexCount(m)
    IN <<16 * 4 * Len(Bones(m)), 3 * 4 * v, 3 * 4 * v, 2 * 4 * v, 4 * 2 * v, 4 * 4 * v>>
SamplerSections(s) == <<4 * Len(s.times), 4 * s.values>>
Sections(m) ==
    LET ss == AllSamplers(m)
    IN BaseSections(m) \o FlattenSeq([k \in 1..Len(ss) |-> SamplerSections(ss[k])])
Views(m) ==
    LET lengths == Sections(m)
        end[i \in 0..Len(lengths)] == IF i = 0 THEN 0 ELSE Align4(end[i - 1]) + lengths[i]
    IN [i \in DOMAIN lengths |-> [offset |-> Align4(end[i - 1]), length |-> lengths[i]]]

\* The accessors, counted from 1, sampler k of clip c refers to.
InputOf(m, c, k) == 6 + 2 * (SamplersBefore(m, c) + k) - 1
OutputOf(m, c, k) == 6 + 2 * (SamplersBefore(m, c) + k)

\* The references of the file: the scene's nodes, the mesh's accessors, those of
\* the skin, and how long the buffer is.
GltfFile(m) ==
    LET bs == Bones(m)
    IN [scene |-> RootNodes(bs), attributes |-> 2..6,
        joints |-> DOMAIN bs, skeleton |-> RootBone(bs), inverseBind |-> 1,
        buffer |-> Last(Views(m)).offset + Last(Views(m)).length]

----------------------------------------------------------------------------
(* The GeckoLib files                                                      *)

\* buildCanonicalExportModel puts a cube under the bones of its bone's name.
CubesOf(m, i) == {c \in DOMAIN m.cubes : m.cubes[c].bone = m.bones[i].name}
GeoCubes(m) == UNION {CubesOf(m, i) : i \in DOMAIN m.bones}

\* bones[track.bone][channelName]: a later track of a bone's channel replaces
\* an earlier one.
Kept(tracks) ==
    {k \in DOMAIN tracks : \A j \in DOMAIN tracks :
        j > k => <<tracks[j].bone, tracks[j].channel>> # <<tracks[k].bone, tracks[k].channel>>}

\* normalizeTimeKey: a key's name is its time, to four digits, whatever the
\* epsilon of the glTF codec is.  Of two keys of one name the last is kept.
TimeKey(t) == Rounded(t, KeyGrain)
GeckoKeys(m, c) ==
    LET tracks == Channels(m.clips[c])
    IN UNION {{<<tracks[k].bone, tracks[k].channel, TimeKey(t)>> : t \in ToSet(tracks[k].times)} :
              k \in Kept(tracks)}

----------------------------------------------------------------------------
(* ExportService                                                           *)

\* A file: where it lies, and how its name ends.  A destination is a file at the
\* base of the export or a directory; in that, a codec's text gets a name of its
\* own (resolveDirectoryAwarePath), model.json or model.<id>.
AtBase == {<<"base", "geo">>, <<"base", "animation">>, <<"base", "gltf">>}
Directory == <<"outdir", None>>
Inside == {<<"outdir", name>> : name \in {"json"} \cup {Codec[i].id : i \in DOMAIN Codec}}
Files == AtBase \cup Inside
Destination == {<<"base", "geo">>, Directory}

\* The artifacts of a format, the primary one first.  They get the base of the
\* destination for theirs, a directory's name too.
Artifacts(format) ==
    IF format = "gltf" THEN <<<<"base", "gltf">>>> ELSE <<<<"base", "geo">>, <<"base", "animation">>>>

\* Who makes a file: this code, the project's format, or a codec.
Ours == <<"ashfox", None>>
Native == <<"native", None>>
ByCodec(id) == <<"codec", id>>

\* writeInternalFallbackExport: the files before the one that fails are written.
\* Fault: only the primary artifact's error is returned.
PrimaryOnly(files, n) == n >= 1
AllWritten(files, n) == n = Len(files)
WriteFiles(files) ==
    \E n \in 0..Len(files) :
        /\ disk' = [s \in Files |-> IF \E i \in 1..n : files[i] = s
                                    THEN [version |-> version, by |-> Ours] ELSE disk[s]]
        /\ reply' = [ok |-> AllWritten(files, n), files |-> files, version |-> version, by |-> Ours]

Refused ==
    /\ reply' = [ok |-> FALSE, files |-> <<>>, version |-> version, by |-> None]
    /\ UNCHANGED disk

\* exportNative and exportCodec: the codec by writes to dest, or into it under
\* the name given; the reply has dest, and says what was asked for.  (A codec's
\* own write refuses a directory: an io_error.)
NativeWrites(dest, name, by, asked) ==
    /\ disk' = [disk EXCEPT ![IF dest = Directory THEN <<"outdir", name>> ELSE dest] =
                    [version |-> version, by |-> by]]
    /\ reply' = [ok |-> TRUE, files |-> <<dest>>, version |-> version, by |-> asked]

\* What becomes of a call of a compiler or a writer of Blockbench's.
Outcome == {"done", "not_implemented", "io_error"}
Compiler == {"missing", "throws", "empty", "promise", "output"}
\* compileNativeFormat, which does not wait, and compileCodecSelection.
FormatCompiled(compiler) ==
    CASE compiler \in {"missing", "empty", "promise"} -> "not_implemented"
      [] compiler = "throws" -> "io_error"
      [] OTHER -> "done"
CodecCompiled(compiler) ==
    IF compiler = "promise" THEN "done" ELSE FormatCompiled(compiler)

\* readCodecEntries: of two codecs of one id the first.
Entries == {i \in DOMAIN Codec : \A j \in DOMAIN Codec : j < i => Codec[j].id # Codec[i].id}
\* ExportService.resolveCodecId: the id of the first codec that has the name
\* asked for, or that extension.
Listed(request) == {i \in Entries : request \in {Codec[i].id} \cup Codec[i].extensions}
Chosen(request) == Codec[Min(Listed(request))].id
\* resolveCodec: what that id finds in Blockbench, by every name a codec has.
\* It is the id of an entry, so the search for a part of a name never begins.
Tokens(c) == {c.id, c.name} \cup c.extensions
Resolved(id) == {i \in Entries : id \in Tokens(Codec[i])}

ExportGltf == WriteFiles(Artifacts("gltf"))

ExportCodec(dest, request) ==
    \E compiler \in Compiler, written \in Outcome :
        IF Listed(request) # {} /\ CodecCompiled(compiler) = "done" /\ written = "done"
        THEN LET id == Codec[Min(Resolved(Chosen(request)))].id
             IN NativeWrites(dest, id, ByCodec(id), ByCodec(request))
        ELSE Refused

\* The format of the project, if one is known: Blockbench's compiler, and, where
\* the policy is best_effort, the codec of ours when there is none.
ExportGecko(dest, policy) ==
    \E known \in BOOLEAN, compiler \in Compiler, written \in Outcome :
        LET outcome == IF ~ known THEN "unsupported_format"
                       ELSE IF FormatCompiled(compiler) # "done" THEN FormatCompiled(compiler)
                       ELSE written
        IN \/ outcome = "done" /\ NativeWrites(dest, "json", Native, Native)
           \/ /\ policy = "best_effort" /\ outcome \in {"not_implemented", "unsupported_format"}
              /\ WriteFiles(Artifacts("gecko_geo_anim"))
           \/ /\ outcome # "done"
              /\ policy = "strict" \/ outcome = "io_error"
              /\ Refused

Export ==
    /\ \/ ExportGltf
       \/ \E dest \in Destination :
             \/ \E request \in Request : ExportCodec(dest, request)
             \/ \E policy \in {"strict", "best_effort"} : ExportGecko(dest, policy)
    /\ UNCHANGED <<shape, version>>

Edit ==
    /\ version < MaxEdits
    /\ version' = version + 1
    /\ UNCHANGED <<shape, disk, reply>>

Init ==
    /\ shape \in Shape
    /\ version = 0
    /\ disk = [s \in Files |-> None]
    /\ reply = [ok |-> FALSE, files |-> <<>>, version |-> 0, by |-> None]
Next == Export \/ Edit
Spec == Init /\ [][Next]_xvars

----------------------------------------------------------------------------
\* The indices of the glTF file fit: sections are aligned and do not overlap,
\* an accessor reads its section to the last byte, a channel has as many values
\* as times, times rise, and every node is in the scene once, as a root or as
\* the child of one node.  The mesh has as many vertices in every attribute, its
\* skin a matrix for every joint, and no section ends behind the buffer.  Two
\* channels drive one property of a node only when the export warned of a track
\* without a bone.
GltfIsWellFormed ==
    LET m == shape  views == Views(m)  acc == Accessors(m)  bs == Bones(m)  file == GltfFile(m)
    IN /\ Len(acc) = Len(views)
       /\ \A i \in DOMAIN views :
            /\ views[i].offset % 4 = 0
            /\ i > 1 => views[i - 1].offset + views[i - 1].length <= views[i].offset
            /\ acc[i].count * acc[i].bytes = views[i].length
            /\ views[i].offset + views[i].length <= file.buffer
       /\ \A c \in DOMAIN m.clips : LET ss == Samplers(m, c) IN
            /\ \A k \in DOMAIN ss :
                 /\ acc[InputOf(m, c, k)] = [count |-> Len(ss[k].times), bytes |-> 4]
                 /\ acc[OutputOf(m, c, k)].count = acc[InputOf(m, c, k)].count
                 /\ \A j \in 2..Len(ss[k].times) : ss[k].times[j - 1] < ss[k].times[j]
                 /\ ss[k].node \in DOMAIN bs
            /\ Orphans(m) \/ \A j, k \in DOMAIN ss :
                 j # k => <<ss[j].node, ss[j].path>> # <<ss[k].node, ss[k].path>>
       /\ \A i \in DOMAIN bs :
            Cardinality({j \in DOMAIN bs : i \in Children(bs, j)}) + (IF i \in file.scene THEN 1 ELSE 0) = 1
       /\ MeshNode(bs) \in file.scene /\ file.skeleton \in file.joints
       /\ acc[file.inverseBind] = [count |-> Cardinality(file.joints), bytes |-> 64]
       /\ \A a \in file.attributes : acc[a].count = VertexCount(m)

\* The keyframes of a clip, as <<bone, channel, time>>, and those of its glTF
\* animation: of the bones its nodes were made of.
Keyframes(clip) ==
    UNION {{<<track.bone, track.channel, t>> : t \in ToSet(track.times)} : track \in ToSet(clip)}
GltfKeys(m, c) ==
    UNION {{<<Bones(m)[s.node].name, s.path, t>> : t \in ToSet(s.times)} : s \in ToSet(Samplers(m, c))}

\* A key of a file stands for a keyframe of its bone and channel when it is not
\* further from it than half the ticks the file tells apart.
StandsFor(key, frame, grain) ==
    /\ key[1] = frame[1] /\ key[2] = frame[2]
    /\ 2 * (key[3] * grain - frame[3]) <= grain /\ 2 * (frame[3] - key[3] * grain) <= grain
Hold(keys, frames, grain) ==
    /\ \A frame \in frames : \E key \in keys : StandsFor(key, frame, grain)
    /\ \A key \in keys : \E frame \in frames : StandsFor(key, frame, grain)

\* Unless the glTF export warned of an orphan, both formats have every cube, and
\* the keyframes of the model, neither more nor less, each at its moment up to
\* the rounding of the file: of the time epsilon in the one, of four digits in
\* the other.  Keyframes that are closer than that may be one in the file, and
\* so a GeckoLib file may have fewer of them than the glTF file.
FormatsAgree ==
    LET m == shape IN
    (m.bones # <<>> /\ ~ Orphans(m)) =>
        /\ GeoCubes(m) = DOMAIN m.cubes
        /\ \A c \in DOMAIN m.clips :
             /\ Hold(GltfKeys(m, c), Keyframes(m.clips[c]), Grain)
             /\ Hold(GeckoKeys(m, c), Keyframes(m.clips[c]), KeyGrain)

\* Where a path that is reported is, and what may have made it when a codec was
\* asked for: the codec the service chose, or another that goes by its id (the
\* id is looked up once more, and not as an id only).
Held(f) == IF f = Directory THEN Inside ELSE {f}
Namesakes(id) == {Codec[i].id : i \in {j \in DOMAIN Codec : id \in {Codec[j].name} \cup Codec[j].extensions}}
AsAsked(by) ==
    IF by[1] = "codec" THEN {ByCodec(id) : id \in {Chosen(by[2])} \cup Namesakes(Chosen(by[2]))} ELSE {by}

\* The files an export reports hold the model it exported, all of them: the
\* geometry is never reported with an animation of another state.  They are of
\* the format or the codec asked for, unless another codec goes by the id of
\* that.  Where a directory is reported, it is a file inside, which the reply
\* does not name.
ReportedFilesMatch ==
    reply.ok => \A f \in ToSet(reply.files) : \E file \in Held(f), by \in AsAsked(reply.by) :
                    disk[file] = [version |-> reply.version, by |-> by]
=============================================================================
