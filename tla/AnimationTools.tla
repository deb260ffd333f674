--------------------------- MODULE AnimationTools ---------------------------
(***************************************************************************)
(* The animation tools: clips, poses and triggers.  As with bones and      *)
(* cubes every tool changes Blockbench's clips and then the session's, but *)
(* a pose is carried out key by key: it may end half way, and what was     *)
(* done so far stays done in both.  A call that is refused changes nothing  *)
(* and is no step here.  Three things part the copies and are remembered   *)
(* in `lapses`; the tools go on after them:                                 *)
(*   "clip": a clip is gone from Blockbench that the session keeps, because *)
(*           the user deleted it or a deletion of several failed half way;  *)
(*   "key":  Blockbench made no key and threw nothing, which counts as done; *)
(*   "bone": a bone was renamed, and the session's keys keep the old name.  *)
(*                                                                         *)
(* A time is an integer finer than the precision of the time policy; two   *)
(* times are the same moment when they fall in one bucket.                 *)
(***************************************************************************)
EXTENDS Integers, FiniteSets, Sequences, Functions

CONSTANTS Clip,       \* ids of animation clips
          ClipName,   \* their names
          Bone,       \* names of bones
          Root,       \* that of the root bone, which a snapshot always lists
          Grouped,    \* the groups of the outliner, by the name each had first
          Time, Value,
          MaxPose,    \* bound on the updates of one pose
          MaxCalls    \* bound on calls and deletions in a behaviour

VARIABLES clips,      \* Blockbench's: clip -> [name, keys, marks], a key with its group
          tracked,    \* the session's, in the same form, a key with the name of a bone
          alias,      \* group -> the name it has now
          lapses,     \* what has parted the copies so far
          calls

avars == <<clips, tracked, alias, lapses, calls>>

\* keyframeTimeBucket: times 1 and 2 are one moment, 3 and 4 the next, ...
Bucket(t) == (t + 1) \div 2
SameMoment(k, bone, t) == k.bone = bone /\ Bucket(k.time) = Bucket(t)

----------------------------------------------------------------------------
(* Keys and triggers, in the editor and in the session                     *)

\* Fault: a key is looked up by its exact time.
ExactMatch(keys, bone, t) == {k \in keys : k.bone = bone /\ k.time = t}
FindExisting(keys, bone, t) == {k \in keys : SameMoment(k, bone, t)}

\* applyKeyframeValue: a key that is found keeps its time.
EditorSetKey(keys, bone, t, v) ==
    LET found == FindExisting(keys, bone, t)
    IN  IF found # {} THEN (keys \ found) \cup {[k EXCEPT !.value = v] : k \in found}
                      ELSE keys \cup {[bone |-> bone, time |-> t, value |-> v]}

\* upsertAnimationChannel, mergeChannelKeys: the newest key of a bucket stays.
MergeKey(keys, bone, t, v) ==
    {k \in keys : ~SameMoment(k, bone, t)} \cup {[bone |-> bone, time |-> t, value |-> v]}

Mark(t, v) == [bone |-> "effects", time |-> t, value |-> v]
\* mergeTriggerKeys: with triggerDedupeByValue another value is another key.
MergeMark(marks, t, v) ==
    {m \in marks : ~(SameMoment(m, "effects", t) /\ m.value = v)} \cup {Mark(t, v)}

\* A table with one clip more.
Extended(table, c, clip) == [d \in DOMAIN table \cup {c} |-> IF d = c THEN clip ELSE table[d]]
\* What the adapter does to Blockbench's clips, and a mutator to the session's.
EditorCreate(c, clip) == Extended(clips, c, clip)
EditorRename(c, name) == [clips EXCEPT ![c].name = name]
EditorDelete(cs) == Restrict(clips, DOMAIN clips \ cs)
EditorSetTrigger(c, t, v) == [clips EXCEPT ![c].marks = EditorSetKey(@, "effects", t, v)]
SessionRemove(names) == Restrict(tracked, {c \in DOMAIN tracked : tracked[c].name \notin names})

----------------------------------------------------------------------------

Init == /\ clips = << >> /\ tracked = << >>
        /\ alias = [g \in Grouped |-> g] /\ lapses = {} /\ calls = 0

\* getSnapshot: which clips there are is what Blockbench says.
Taken(name, but) == \E c \in DOMAIN clips \ but : clips[c].name = name
Known(name) == {c \in DOMAIN tracked : tracked[c].name = name}

\* The session is told of a clip by its name; it may have lost track of it.
InSession(name, changed) ==
    IF Known(name) = {} THEN tracked' = tracked
    ELSE \E c \in Known(name) : tracked' = [tracked EXCEPT ![c] = changed[c]]

\* An id is made afresh: it is not that of a clip the session still has.
CreateClip(c, name) ==
    LET clip == [name |-> name, keys |-> {}, marks |-> {}]
    IN  /\ ~Taken(name, {}) /\ c \notin DOMAIN clips \cup DOMAIN tracked
        /\ clips' = EditorCreate(c, clip)
        /\ tracked' = Extended(tracked, c, clip)
        /\ UNCHANGED <<alias, lapses>>

RenameClip(c, name) ==
    /\ c \in DOMAIN clips /\ ~Taken(name, {c})
    /\ clips' = EditorRename(c, name)
    /\ InSession(clips[c].name, [d \in DOMAIN tracked |-> [tracked[d] EXCEPT !.name = name]])
    /\ UNCHANGED <<alias, lapses>>

\* Every target is deleted in Blockbench first, then all of them, by name, in
\* the session: which is told of none when Blockbench fails on a later one.
DeleteClips(cs) ==
    LET names == {clips[c].name : c \in cs}
    IN  /\ cs \subseteq DOMAIN clips
        /\ \/ /\ clips' = EditorDelete(cs) /\ tracked' = SessionRemove(names)
              /\ UNCHANGED lapses
           \/ \E gone \in SUBSET cs \ {{}, cs} :
                 /\ clips' = EditorDelete(gone) /\ lapses' = lapses \cup {"clip"}
                 /\ UNCHANGED tracked
        /\ UNCHANGED alias

\* findGroup: the group with the name of a bone; none when it is not in the outliner.
InOutliner(bone) == \E g \in DOMAIN alias : alias[g] = bone
Group(bone) == CHOOSE g \in DOMAIN alias : alias[g] = bone

\* The keys of a clip after each of the first n updates of a pose: the editor sets
\* those in `made`, the session all of them.
EditorPose(keys, t, ups, n, made) ==
    LET after[i \in 0..n] ==
            IF i = 0 THEN keys
            ELSE IF i \in made THEN EditorSetKey(after[i-1], Group(ups[i].bone), t, ups[i].value)
            ELSE after[i-1]
    IN  after
SessionPose(keys, t, ups, n) ==
    LET after[i \in 0..n] ==
            IF i = 0 THEN keys ELSE MergeKey(after[i-1], ups[i].bone, t, ups[i].value)
    IN  after

\* Whether the editor takes n updates: it has no group for the virtual root, and
\* making a key may throw, or make none; changing one that is there does neither.
Carried(after, t, ups, n, made) ==
    LET fresh(i) == FindExisting(after[i-1], Group(ups[i].bone), t) = {}
    IN  /\ \A i \in (1..n) \ made : fresh(i)
        /\ n < Len(ups) /\ InOutliner(ups[n + 1].bone) => fresh(n + 1)

\* buildPoseUpdates refuses an unknown bone before anything is changed; then
\* each update goes to the editor and, when that took it, to the session.
SetFramePose(c, t, ups) ==
    /\ c \in DOMAIN clips /\ \A i \in DOMAIN ups : ups[i].bone = Root \/ InOutliner(ups[i].bone)
    /\ \E n \in 0..Len(ups) :
          /\ \A i \in 1..n : InOutliner(ups[i].bone)
          /\ \E made \in SUBSET (1..n) :
                LET after == EditorPose(clips[c].keys, t, ups, n, made)
                IN  /\ Carried(after, t, ups, n, made)
                    /\ clips' = [clips EXCEPT ![c].keys = after[n]]
                    /\ lapses' = IF made = 1..n THEN lapses ELSE lapses \cup {"key"}
          /\ InSession(clips[c].name,
                 [d \in DOMAIN tracked |-> [tracked[d] EXCEPT !.keys = SessionPose(@, t, ups, n)[n]]])
    /\ UNCHANGED alias

SetTrigger(c, t, v) ==
    /\ c \in DOMAIN clips
    /\ \/ clips' = EditorSetTrigger(c, t, v) /\ UNCHANGED lapses
       \/ /\ FindExisting(clips[c].marks, "effects", t) = {}
          /\ UNCHANGED clips /\ lapses' = lapses \cup {"key"}
    /\ InSession(clips[c].name, [d \in DOMAIN tracked |-> [tracked[d] EXCEPT !.marks = MergeMark(@, t, v)]])
    /\ UNCHANGED alias

\* update_bone with a new name: the keys stay with the group, and the session
\* renames the bone, its children and cubes, but no key.
RenameBone(g, name) ==
    /\ g \in DOMAIN alias /\ name # Root /\ ~InOutliner(name)
    /\ alias' = [alias EXCEPT ![g] = name] /\ lapses' = lapses \cup {"bone"}
    /\ UNCHANGED <<clips, tracked>>

UserDelete(c) ==
    /\ c \in DOMAIN clips
    /\ clips' = EditorDelete({c}) /\ lapses' = lapses \cup {"clip"}
    /\ UNCHANGED <<tracked, alias>>

Update == [bone : Bone, value : Value]
Pose == UNION {[1..n -> Update] : n \in 1..MaxPose}

Call == \/ \E c \in Clip, name \in ClipName : CreateClip(c, name) \/ RenameClip(c, name)
        \/ \E cs \in SUBSET Clip \ {{}} : DeleteClips(cs)
        \/ \E c \in Clip, t \in Time, ups \in Pose : SetFramePose(c, t, ups)
        \/ \E c \in Clip, t \in Time, v \in Value : SetTrigger(c, t, v)
        \/ \E g \in Grouped, name \in Bone : RenameBone(g, name)
        \/ \E c \in Clip : UserDelete(c)
Next == calls < MaxCalls /\ calls' = calls + 1 /\ Call

Spec == Init /\ [][Next]_avars

----------------------------------------------------------------------------

Moments(keys) == {[bone |-> k.bone, at |-> Bucket(k.time), value |-> k.value] : k \in keys}

\* Until a clip is deleted behind the session, it knows every clip of Blockbench
\* by the same name and, of the triggers, perhaps more but no fewer; until a bone
\* is renamed, also the value of each bone at each moment, and nothing beyond
\* that until Blockbench does not make a key: so also after a pose that stopped
\* half way.
AnimationsMirrored ==
    "clip" \notin lapses =>
        /\ DOMAIN clips = DOMAIN tracked
        /\ \A c \in DOMAIN clips :
              LET shown == Moments(clips[c].keys)
                  known == Moments(tracked[c].keys)
              IN  /\ clips[c].name = tracked[c].name
                  /\ Moments(clips[c].marks) \subseteq Moments(tracked[c].marks)
                  /\ "bone" \notin lapses => shown \subseteq known
                  /\ {"bone", "key"} \cap lapses = {} => known \subseteq shown

\* Whatever has parted the copies, a bone has one value at a moment: two keys of
\* one bone in one bucket never arise, in either.
OneKeyPerMoment ==
    \A table \in {clips, tracked} : \A c \in DOMAIN table :
        \A k, l \in table[c].keys : SameMoment(k, l.bone, l.time) => k = l
=============================================================================
