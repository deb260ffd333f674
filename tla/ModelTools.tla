----------------------------- MODULE ModelTools -----------------------------
(***************************************************************************)
(* The bone and cube tools: BoneService and CubeService, the session's     *)
(* mutators, and the Blockbench adapters that carry the same change out in *)
(* the editor's outliner.  Every tool reads one snapshot (with the default *)
(* hybrid policy its bones and cubes are the outliner's), decides, changes *)
(* the outliner, then changes the session: two copies of one tree, kept in *)
(* step only by doing the same thing to both.                              *)
(*                                                                         *)
(* In the outliner a node is an object with an id; in the session, and in  *)
(* what the tools are told, a parent is a NAME.  Somebody using Blockbench *)
(* edits the outliner without the session seeing it.                       *)
(***************************************************************************)
EXTENDS Integers, FiniteSets

CONSTANTS Node,          \* the ids of bones and cubes
          Name,          \* their names, "root" among them
          None,          \* no parent, no id
          Top,           \* the top level of the outliner
          MaxCubes,      \* capabilities.limits.maxCubes
          MaxUserEdits,  \* bound on edits made in Blockbench itself
          MaxDrift       \* bound on calls once the two trees may differ

VARIABLES editor,     \* the outliner: node -> [kind, name, in]
          session,    \* ProjectSession: [active, bones, cubes]
          result,     \* the answer to the last call
          drift,      \* history: 0 until something lets the two trees differ
          userEdits

vars == <<editor, session, result, drift, userEdits>>

Nodes(kind) == {n \in DOMAIN editor : editor[n].kind = kind}
Fresh == Node \ DOMAIN editor
TopCubes == {n \in Nodes("cube") : editor[n].in = Top}

\* walkNodes, and ensureRootBone for cubes outside every group: a bone "root"
\* that is in no outliner and has no id.
LiveCubes ==
    {[id |-> n, name |-> editor[n].name,
      bone |-> IF editor[n].in = Top THEN "root" ELSE editor[editor[n].in].name] : n \in Nodes("cube")}
LiveBones ==
    LET groups == {[id |-> n, name |-> editor[n].name,
                    parent |-> IF editor[n].in = Top THEN None ELSE editor[editor[n].in].name]
                      : n \in Nodes("group")}
        rootless == \A b \in groups : b.name # "root"
    IN  IF rootless /\ \E c \in LiveCubes : c.bone = "root"
        THEN groups \cup {[id |-> None, name |-> "root", parent |-> None]}
        ELSE groups

----------------------------------------------------------------------------
(* sessionLookup, targetGuards, targetSelectors, crudChecks                *)

Names(items) == {i.name : i \in items}

\* What is reached from a set along edges, in so many rounds.
Reached(from, edges, rounds) ==
    LET grow[k \in 0..rounds] ==
            IF k = 0 THEN from
            ELSE grow[k-1] \cup {e[2] : e \in {x \in edges : x[1] \in grow[k-1]}}
    IN  grow[rounds]

Descendants(bones, name) ==
    Reached({name}, {<<b.parent, b.name>> : b \in bones}, Cardinality(bones)) \ {name}

\* resolveTargetOrError: by id when there is one (a name given with it must be
\* that item's), by name only when a single item has it.  {}: an error.
Resolve(items, sel) ==
    LET byId == {i \in items : i.id = sel.id /\ i.id # None}
        byName == {i \in items : i.name = sel.name}
    IN  IF sel.id # None
        THEN {i \in byId : sel.name = None \/ i.name = sel.name}
        ELSE IF Cardinality(byName) = 1 THEN byName ELSE {}

Selector == [id : Node \cup {None}, name : Name \cup {None}] \ {[id |-> None, name |-> None]}
\* What a delete names: one item, or two by the entries of ids and of names.
Selection ==
    LET entry == {sel \in Selector : None \in {sel.id, sel.name}}
    IN  {{sel} : sel \in Selector} \cup {{s1, s2} : s1 \in entry, s2 \in entry}

RenameFree(items, target, newName) ==
    newName \in {None, target.name} \/ newName \notin Names(items)

----------------------------------------------------------------------------
(* The adapters: what a command can leave in the outliner, as the set of   *)
(* outliners possible after it; {} when it answers with an error.          *)

Group(ed, name) == {n \in DOMAIN ed : ed[n].kind = "group" /\ ed[n].name = name}

\* attachToOutliner: addTo may throw, and then the node goes to the top level.
Landing(p) == {p, Top}

Place(ed, n, node) == [m \in DOMAIN ed \cup {n} |-> IF m = n THEN node ELSE ed[m]]

\* moveOutlinerNode: nothing happens to a node that is where it should be.
Move(ed, n, p) ==
    {Place(ed, n, [ed[n] EXCEPT !.in = at]) : at \in IF ed[n].in = p THEN {p} ELSE Landing(p)}

\* A group is made under the group of the given name, or at the top level.
EditorAdd(ed, n, kind, name, parent) ==
    {Place(ed, n, [kind |-> kind, name |-> name, in |-> at]) :
        at \in IF Group(ed, parent) = {} THEN {Top} ELSE UNION {Landing(p) : p \in Group(ed, parent)}}

Renamed(ed, n, newName) == IF newName = None THEN ed ELSE Place(ed, n, [ed[n] EXCEPT !.name = newName])

\* The bone is found by its id, its new parent by name ("same": not given).
EditorUpdateBone(ed, n, newName, parent) ==
    IF n = None THEN {}
    ELSE CASE parent = "same" -> {Renamed(ed, n, newName)}
           [] parent = None   -> Move(Renamed(ed, n, newName), n, Top)
           [] OTHER -> UNION {Move(Renamed(ed, n, newName), n, p) : p \in Group(ed, parent)}

EditorUpdateCube(ed, n, newName, bone) ==
    CASE bone = None -> {Renamed(ed, n, newName)}
      [] bone = Top  -> Move(Renamed(ed, n, newName), n, Top)
      [] OTHER -> UNION {Move(Renamed(ed, n, newName), n, p) : p \in Group(ed, bone)}

\* remove() takes everything below a node with it.
Below(ns) == Reached(ns, {<<editor[m].in, m>> : m \in DOMAIN editor}, Cardinality(Node))
Without(ns) == [m \in DOMAIN editor \ Below(ns) |-> editor[m]]

----------------------------------------------------------------------------
(* The session's mutators                                                  *)

\* Fault: cubes are not told of their bone's new name.
SessionRenameBoneOnly(s, old, id, newName, parent) ==
    LET name == IF newName = None THEN old ELSE newName
    IN  [s EXCEPT
           !.bones = {IF b.name = old
                      THEN [id |-> id, name |-> name,
                            parent |-> IF parent = "same" THEN b.parent ELSE parent]
                      ELSE [b EXCEPT !.parent = IF b.parent = old THEN name ELSE b.parent] : b \in s.bones}]

SessionUpdateBone(s, old, id, newName, parent) ==
    LET name == IF newName = None THEN old ELSE newName
        follow(x) == IF x = old THEN name ELSE x
    IN  [s EXCEPT
           !.bones = {IF b.name = old
                      THEN [id |-> id, name |-> name,
                            parent |-> IF parent = "same" THEN b.parent ELSE parent]
                      ELSE [b EXCEPT !.parent = follow(b.parent)] : b \in s.bones},
           !.cubes = {[c EXCEPT !.bone = follow(c.bone)] : c \in s.cubes}]

SessionRemoveBones(s, names) ==
    [s EXCEPT !.bones = {b \in s.bones : b.name \notin names},
              !.cubes = {c \in s.cubes : c.bone \notin names}]

\* The cube that is found is the first with the name; ids play no part.
SessionUpdateCube(s, old, id, newName, bone) ==
    LET named == {c \in s.cubes : c.name = old}
    IN  IF named = {} THEN {s}
        ELSE {[s EXCEPT !.cubes = (s.cubes \ {c}) \cup
                 {[id |-> id, name |-> IF newName = None THEN c.name ELSE newName,
                   bone |-> IF bone = None THEN c.bone ELSE bone]}] : c \in named}

SessionRemoveCubes(s, names) == [s EXCEPT !.cubes = {c \in s.cubes : c.name \notin names}]

----------------------------------------------------------------------------
(* The handlers.  ensureActive attaches an inactive session to what the    *)
(* editor has; the revision guard is ToolDispatcher's.                     *)

Init ==
    /\ editor = [n \in {} |-> n]
    /\ session = [active |-> FALSE, bones |-> {}, cubes |-> {}]
    /\ result = [tool |-> "other", ok |-> TRUE, deleted |-> {}, bones |-> 0, cubes |-> 0]
    /\ drift = 0
    /\ userEdits = 0

Active == IF session.active THEN session
          ELSE [active |-> TRUE, bones |-> LiveBones, cubes |-> LiveCubes]

\* Only the deletes answer with more than an id and a name.
Answer(ok) ==
    /\ result' = [tool |-> "other", ok |-> ok, deleted |-> {}, bones |-> 0, cubes |-> 0]
    /\ UNCHANGED userEdits
Refuse == editor' = editor /\ session' = Active /\ Answer(FALSE)

\* Cubes outside every group, and no group "root" to answer for them: the tools
\* are shown a bone that no tree has.  Deleting or renaming the group "root"
\* leaves it so, when update_cube (boneRoot) had put a cube at the top level.
RootIsVirtual == TopCubes # {} /\ Group(editor, "root") = {}

\* Called by each action once it has said what editor' is; cause: a move that
\* did not take, or a call that failed half way.
Drifts(cause) == drift' = IF drift > 0 \/ cause \/ RootIsVirtual' THEN drift + 1 ELSE 0

\* A parent may be given by id or by name; a name is not looked up.
AddBone(id, name, parent) ==
    LET byId == {b \in LiveBones : parent \in Node /\ b.id = parent}
        parentName == IF parent \in Node THEN (CHOOSE b \in byId : TRUE).name ELSE parent
        valid == /\ parent \in Node => byId # {}
                 /\ name \notin Names(LiveBones)
                 /\ \A b \in LiveBones : b.id # id
    IN  \/ ~valid /\ Refuse /\ Drifts(FALSE)
        \/ /\ valid /\ id \in Fresh
           /\ editor' \in EditorAdd(editor, id, "group", name, parentName)
           /\ session' = [Active EXCEPT !.bones = @ \cup {[id |-> id, name |-> name, parent |-> parentName]}]
           /\ Drifts((editor'[id].in = Top) # (parentName = None))
           /\ Answer(TRUE)

\* Fault: only the bone itself is refused as its parent.
ParentNotSelf(target, parent) ==
    parent \in {"same", None} \/ (parent # target.name /\ parent \in Names(LiveBones))

\* resolveParentUpdate: "same" leaves the parent alone, None is parentRoot.
ParentAllowed(target, parent) ==
    \/ parent \in {"same", None}
    \/ /\ parent # target.name
       /\ parent \in Names(LiveBones)
       /\ parent \notin Descendants(LiveBones, target.name)

\* The virtual root bone has no node in the outliner: as a target or as a
\* parent it is not found there.
UpdateBone(sel, newName, parent) ==
    LET found == Resolve(LiveBones, sel)
        target == CHOOSE t \in found : TRUE
        valid == found # {} /\ RenameFree(LiveBones, target, newName) /\ ParentAllowed(target, parent)
        after == IF valid THEN EditorUpdateBone(editor, target.id, newName, parent) ELSE {}
        asked(at) == \/ parent = "same" \/ (parent = None /\ at = Top)
                     \/ at \in Group(editor, parent)
    IN  \/ after = {} /\ Refuse /\ Drifts(FALSE)
        \/ /\ editor' \in after
           /\ session' = SessionUpdateBone(Active, target.name, target.id, newName, parent)
           /\ Drifts(~asked(editor'[target.id].in))
           /\ Answer(TRUE)

\* Targets below other targets go with them.
TopMost(targets) ==
    {t \in targets : \A u \in targets : t.name \notin Descendants(LiveBones, u.name)}

\* Fault: only the children of a target.
ChainsOfChildren(targets) ==
    Names(targets) \cup {b.name : b \in {x \in LiveBones : x.parent \in Names(targets)}}

\* The names delete_bone answers with: each target and all bones below it.
Chains(targets) == UNION {{t.name} \cup Descendants(LiveBones, t.name) : t \in targets}

\* The targets leave the outliner one by one, in the order of the call; at one
\* that is not there, or that the adapter fails to remove, the call fails with
\* those before it gone and the session as it was.  Where none was removed
\* that is a refusal, like that of a name that is not found.
DeleteBone(sels) ==
    LET found == {Resolve(LiveBones, sel) : sel \in sels}
        targets == UNION found
        top == TopMost(targets)
        removed == SessionRemoveBones(Active, Chains(top))
        missing(done) == {t \in top \ done : t.id = None \/ t.id \in Below({d.id : d \in done})}
    IN  \/ Refuse /\ Drifts(FALSE)
        \/ /\ {} \notin found
           /\ \E done \in SUBSET {t \in top : t.id # None} \ {{}, top} :
                 editor' = Without({t.id : t \in done})
           /\ session' = Active
           /\ Answer(FALSE) /\ Drifts(TRUE)
        \/ /\ {} \notin found
           /\ \A t \in top : missing(top \ {t}) = {}
           /\ editor' = Without({t.id : t \in top})
           /\ session' = removed
           /\ result' = [tool |-> "delete_bone", ok |-> TRUE, deleted |-> Chains(top),
                         bones |-> Cardinality(Active.bones) - Cardinality(removed.bones),
                         cubes |-> Cardinality(Active.cubes) - Cardinality(removed.cubes)]
           /\ Drifts(FALSE)
           /\ UNCHANGED userEdits

----------------------------------------------------------------------------
\* ensureRootBone puts a bone "root" in both trees when the snapshot has none:
\* <<outliner, session>> as the cube call goes on from them.
RootMissing == "root" \notin Names(LiveBones)
EnsureRootBone(rootId) ==
    IF ~RootMissing THEN <<editor, Active>>
    ELSE <<Place(editor, rootId, [kind |-> "group", name |-> "root", in |-> Top]),
           [Active EXCEPT !.bones = @ \cup {[id |-> None, name |-> "root", parent |-> None]}]>>
RootIds(wanted) == IF wanted /\ RootMissing THEN Fresh ELSE {None}

\* Without a bone the cube goes to "root", which is made first: before the
\* checks of name, limit and id, so that a refused call may leave it behind.
AddCube(id, name, bone) ==
    LET found == IF bone = None THEN {} ELSE Resolve(LiveBones, bone)
        boneName == IF bone = None THEN "root" ELSE (CHOOSE b \in found : TRUE).name
        valid == /\ name \notin Names(LiveCubes)
                 /\ Cardinality(LiveCubes) + 1 <= MaxCubes
                 /\ \A c \in LiveCubes : c.id # id
    IN  \/ bone # None /\ found = {} /\ Refuse /\ Drifts(FALSE)
        \/ /\ bone = None \/ found # {}
           /\ \E rootId \in RootIds(bone = None) \ {id} :
                 LET base == IF bone = None THEN EnsureRootBone(rootId) ELSE <<editor, Active>>
                 IN  \/ /\ ~valid
                        /\ editor' = base[1] /\ session' = base[2]
                        /\ Answer(FALSE) /\ Drifts(FALSE)
                     \/ /\ valid /\ id \in Fresh
                        /\ editor' \in EditorAdd(base[1], id, "cube", name, boneName)
                        /\ session' = [base[2] EXCEPT !.cubes =
                                         @ \cup {[id |-> id, name |-> name, bone |-> boneName]}]
                        /\ Answer(TRUE)
                        /\ Drifts(boneName # "root" /\ editor'[id].in = Top)

\* boneRoot (Top): the cube leaves its group for the top level, and the session
\* calls its bone "root"; bone "root" puts it in the group of that name.
UpdateCube(sel, newName, bone) ==
    LET found == Resolve(LiveCubes, sel)
        target == CHOOSE t \in found : TRUE
        valid == /\ found # {}
                 /\ RenameFree(LiveCubes, target, newName)
                 /\ bone \in {None, "root", Top} \cup Names(LiveBones)
    IN  \/ ~valid /\ Refuse /\ Drifts(FALSE)
        \/ /\ valid
           /\ \E rootId \in RootIds(bone \in {"root", Top}) :
                 LET base == IF bone \in {"root", Top} THEN EnsureRootBone(rootId) ELSE <<editor, Active>>
                     after == EditorUpdateCube(base[1], target.id, newName, bone)
                 IN  \/ /\ after = {}
                        /\ editor' = base[1] /\ session' = base[2]
                        /\ Answer(FALSE) /\ Drifts(FALSE)
                     \/ /\ after # {}   \* a corner did not take: the cube is renamed already
                        /\ editor' = Renamed(base[1], target.id, newName) /\ session' = base[2]
                        /\ Answer(FALSE) /\ Drifts(newName \notin {None, target.name})
                     \/ /\ editor' \in after
                        /\ session' \in SessionUpdateCube(base[2], target.name, target.id, newName,
                                                         IF bone = Top THEN "root" ELSE bone)
                        /\ Answer(TRUE)
                        /\ Drifts(bone \notin {None, Top, "root"} /\ editor'[target.id].in = Top)

\* As the bones do, the cubes leave one by one.
DeleteCube(sels) ==
    LET found == {Resolve(LiveCubes, sel) : sel \in sels}
        targets == UNION found
    IN  \/ Refuse /\ Drifts(FALSE)
        \/ /\ {} \notin found
           /\ \E done \in SUBSET targets \ {{}, targets} : editor' = Without({t.id : t \in done})
           /\ session' = Active
           /\ Answer(FALSE) /\ Drifts(TRUE)
        \/ /\ {} \notin found
           /\ editor' = Without({t.id : t \in targets})
           /\ session' = SessionRemoveCubes(Active, Names(targets))
           /\ Answer(TRUE) /\ Drifts(FALSE)

\* Somebody at Blockbench adds, renames, moves or deletes.  Blockbench keeps
\* the names of groups apart and lets cubes share one.
UserEdit ==
    /\ userEdits < MaxUserEdits
    /\ userEdits' = userEdits + 1
    /\ \/ \E n \in Fresh, kind \in {"group", "cube"}, name \in Name, at \in Nodes("group") \cup {Top} :
             /\ kind = "group" => Group(editor, name) = {}
             /\ editor' = Place(editor, n, [kind |-> kind, name |-> name, in |-> at])
       \/ \E n \in DOMAIN editor : editor' = Without({n})
       \/ \E n \in DOMAIN editor, name \in Name :
             /\ editor[n].kind = "group" => Group(editor, name) = {}
             /\ editor' = [editor EXCEPT ![n].name = name]
       \/ \E n \in DOMAIN editor, at \in Nodes("group") \cup {Top} :
             /\ at \notin Below({n})
             /\ editor' = [editor EXCEPT ![n].in = at]
    /\ Drifts(session.active \/ \E c, d \in LiveCubes' : c # d /\ c.name = d.name)
    /\ UNCHANGED <<session, result>>

Next ==
    /\ drift < MaxDrift
    /\ \/ \E id \in Node, name \in Name, parent \in Name \cup Node \cup {None} : AddBone(id, name, parent)
       \/ \E sel \in Selector, newName \in Name \cup {None}, parent \in Name \cup {"same", None} :
             UpdateBone(sel, newName, parent)
       \/ \E sels \in Selection : DeleteBone(sels)
       \/ \E id \in Node, name \in Name, bone \in Selector \cup {None} : AddCube(id, name, bone)
       \/ \E sel \in Selector, newName \in Name \cup {None}, bone \in Name \cup {None, Top} :
             UpdateCube(sel, newName, bone)
       \/ \E sels \in Selection : DeleteCube(sels)
       \/ UserEdit

Spec == Init /\ [][Next]_vars

----------------------------------------------------------------------------
Bone == [id : Node \cup {None}, name : Name, parent : Name \cup {None}]
Cube == [id : Node \cup {None}, name : Name, bone : Name]

\* A group or a cube hangs in a group, and every chain of parents ends at the
\* top level: the editor never loses a branch in a cycle, whatever sequence of
\* renames and moves the tools and the user make (resolveParentUpdate, which
\* judges by names, against moveOutlinerNode, which moves nodes).
OutlinerIsTree ==
    /\ DOMAIN editor \subseteq Node
    /\ \A n \in DOMAIN editor : editor[n] \in [kind : {"group", "cube"}, name : Name, in : Nodes("group") \cup {Top}]
    /\ session \in [active : BOOLEAN, bones : SUBSET Bone, cubes : SUBSET Cube]
    /\ Below({n \in DOMAIN editor : editor[n].in = Top}) = DOMAIN editor

\* The session's tree and the outliner's are the same, cubes the tools put
\* outside every group included, until one of these: an edit in Blockbench, a
\* call that ended half way, a move Blockbench did not make, and the group
\* "root" deleted or renamed away from such cubes (RootIsVirtual), when the
\* session forgets or renames what the outliner keeps.  What ProjectSession
\* would answer when the snapshot cannot be read is the model.  Ids are left
\* out: the root bone the tools make has none in the session.
SessionMirrorsEditor ==
    session.active /\ drift = 0 =>
        /\ {<<b.name, b.parent>> : b \in session.bones} = {<<b.name, b.parent>> : b \in LiveBones}
        /\ {<<c.name, c.bone>> : c \in session.cubes} = {<<c.name, c.bone>> : c \in LiveCubes}

Called == userEdits' = userEdits
Groups == Nodes("group")
Cubes == Nodes("cube")

\* A successful delete_bone on trees that are in step tells what disappeared
\* from the outliner: the bones it names and counts are the groups that are
\* gone, and it counts the cubes gone with them; when it deletes "root" it
\* counts the cubes outside every group as well, and those are still there.
DeleteTells ==
    Called /\ result'.ok /\ result'.tool = "delete_bone" /\ drift = 0 =>
        /\ result'.deleted = {editor[n].name : n \in Groups} \ {editor'[n].name : n \in Groups'}
        /\ result'.bones = Cardinality(Groups \ Groups')
        /\ result'.cubes = Cardinality(Cubes \ Cubes')
                             + IF "root" \in result'.deleted THEN Cardinality(TopCubes) ELSE 0

\* What a call that answers with an error leaves behind.  In the session, at
\* most the root bone add_cube and update_cube make before their checks, and
\* only with its group.  In the outliner, that group, and a new name on one
\* cube (update_cube whose coordinates did not take); or nodes less, when a
\* delete stopped half way.  No node is moved.
RefusalLeaves ==
    Called /\ ~result'.ok =>
        LET made == DOMAIN editor' \ DOMAIN editor
            gone == DOMAIN editor \ DOMAIN editor'
            renamed == {n \in DOMAIN editor \ gone : editor'[n].name # editor[n].name}
            added == session'.bones \ Active.bones
        IN  /\ session'.cubes = Active.cubes /\ Active.bones \subseteq session'.bones
            /\ \A b \in added : b.name = "root" /\ made # {}
            /\ \A n \in made : editor'[n] = [kind |-> "group", name |-> "root", in |-> Top]
            /\ \A n \in made, m \in made : n = m
            /\ \A n \in DOMAIN editor \ gone : editor'[n].in = editor[n].in
            /\ renamed \subseteq Cubes /\ \A n \in renamed, m \in renamed : n = m
            /\ gone # {} => made = {} /\ renamed = {}
=============================================================================
