----------------------- MODULE ProjectRevisionsProofs -----------------------
(***************************************************************************)
(* ProjectRevisions for every store limit, every number of snapshots and   *)
(* every hash: the store stays consistent; and as long as the hash covers  *)
(* every field and does not collide, a diff starts from what was shown and *)
(* no stale write passes the guard.  Then the other parts of MCProject:    *)
(* tools see the active tab and close only what they name; the trace is    *)
(* the end of what was recorded, and its diffs add up.                     *)
(***************************************************************************)
EXTENDS MCProject, RevisionStoreProofs, FiniteSetTheorems, SequenceTheorems, WellFoundedInduction

\* A token in a client's hands is the hash of the snapshot shown with it.
ShownUnderHash == \A s \in shown : HashSnapshot(s.snapshot) = s.revision

\* The inductive core: types, the store and the tokens handed out.
Core == TypeOK /\ StoreConsistent /\ ShownUnderHash

LEMMA CoreInit == Init => Core
<1> SUFFICES ASSUME Init PROVE Core
  OBVIOUS
<1>1. TypeOK
  BY EmptyStoreConsistent DEF Init, TypeOK, Nothing
<1>2. StoreConsistent
  BY EmptyStoreConsistent DEF Init, StoreConsistent
<1>3. ShownUnderHash
  BY DEF Init, ShownUnderHash
<1> QED BY <1>1, <1>2, <1>3 DEF Core

\* The current snapshot with its revision is something a client can be shown.
LEMMA CurrentShown == ASSUME TypeOK
                      PROVE  Current \in Shown /\ Current.snapshot = project
                             /\ Current.revision = HashSnapshot(project)
BY HashIsRevision DEF TypeOK, Current, Shown

\* Tracking the project keeps the store typed and consistent.
LEMMA TrackedStore == ASSUME Core
                      PROVE  Track(store, project) \in Store /\ Consistent(Track(store, project))
BY RememberKeepsConsistent DEF Core, TypeOK, StoreConsistent

LEMMA CoreStep == Core /\ [Next]_vars => Core'
<1> SUFFICES ASSUME Core, [Next]_vars PROVE Core'
  OBVIOUS
<1> USE DEF Core
<1>1. CASE EditProject
  BY <1>1 DEF EditProject, TypeOK, StoreConsistent, ShownUnderHash
<1>2. CASE GetProjectState
  <2>1. TypeOK'
    BY <1>2, TrackedStore, CurrentShown DEF GetProjectState, TypeOK
  <2>2. StoreConsistent'
    BY <1>2, TrackedStore DEF GetProjectState, StoreConsistent
  <2>3. ShownUnderHash'
    BY <1>2, CurrentShown DEF GetProjectState, ShownUnderHash
  <2> QED BY <2>1, <2>2, <2>3
<1>3. ASSUME NEW s \in shown, GetProjectDiff(s) PROVE Core'
  <2>1. store' = Track(store, project)
    BY <1>3 DEF GetProjectDiff, Track
  <2>2. diff' \in Diff
    <3>1. s \in Shown
      BY <1>3 DEF TypeOK
    <3>2. Cached(store, s.revision) => store.cache[s.revision] \in Snapshot
      BY <3>1 DEF TypeOK, Store, Cached
    <3>3. (IF Cached(store, s.revision) THEN store.cache[s.revision] ELSE project) \in Snapshot
      BY <3>2 DEF TypeOK
    <3> QED BY <1>3, <3>1, <3>3 DEF GetProjectDiff, Diff
  <2>3. TypeOK'
    BY <1>3, <2>1, <2>2, TrackedStore, CurrentShown DEF GetProjectDiff, TypeOK
  <2>4. StoreConsistent'
    BY <2>1, TrackedStore DEF StoreConsistent
  <2>5. ShownUnderHash'
    BY <1>3, CurrentShown DEF GetProjectDiff, ShownUnderHash
  <2> QED BY <2>3, <2>4, <2>5
<1>4. ASSUME NEW s \in shown, GuardedWrite(s) PROVE Core'
  <2>1. write' \in Write
    BY <1>4 DEF GuardedWrite, Write, TypeOK
  <2>2. TypeOK'
    BY <1>4, <2>1, TrackedStore DEF GuardedWrite, TypeOK
  <2>3. StoreConsistent'
    BY <1>4, TrackedStore DEF GuardedWrite, StoreConsistent
  <2>4. ShownUnderHash'
    BY <1>4 DEF GuardedWrite, ShownUnderHash
  <2> QED BY <2>2, <2>3, <2>4
<1>5. ASSUME NEW s \in shown, RefusedWrite(s) PROVE Core'
  <2>1. TypeOK'
    BY <1>5, TrackedStore DEF RefusedWrite, TypeOK
  <2>2. StoreConsistent'
    BY <1>5, TrackedStore DEF RefusedWrite, StoreConsistent
  <2>3. ShownUnderHash'
    BY <1>5 DEF RefusedWrite, ShownUnderHash
  <2> QED BY <2>1, <2>2, <2>3
<1>6. CASE UNCHANGED vars
  BY <1>6 DEF vars, TypeOK, StoreConsistent, ShownUnderHash
<1> QED BY <1>1, <1>2, <1>3, <1>4, <1>5, <1>6 DEF Next

\* The store of every reachable state is one a client can rely on, for every
\* REVISION_CACHE_LIMIT and whether or not the hash collides.
THEOREM StoreStaysConsistent == Spec => [](TypeOK /\ StoreConsistent)
<1>1. Core => TypeOK /\ StoreConsistent
  BY DEF Core
<1> QED BY CoreInit, CoreStep, <1>1, PTL DEF Spec

LEMMA CoreHolds == Spec => []Core
BY CoreInit, CoreStep, PTL DEF Spec

\* A hash that tells outlines apart tells which outline it is of.
LEMMA HashTellsOutlines ==
    ASSUME NEW s \in Snapshot, NEW t \in Snapshot, HashSnapshot(s) = HashSnapshot(t)
    PROVE  SameHashed(s, t)
BY DEF SameHashed, OutlinesDiffer, HashSnapshot, Snapshot

\* A guarded write changes a snapshot that has the hash of the one its client was
\* shown, and so, if the hash does not collide, the same hashed fields.  Of the
\* fields that are not hashed nothing is assumed or said.
THEOREM GuardedWritesAreFresh == Spec => []WriteStartsAtShown
<1>1. Init => WriteStartsAtShown
  BY DEF Init, WriteStartsAtShown
<1>2. Core /\ WriteStartsAtShown /\ [Next]_vars => WriteStartsAtShown'
  <2> SUFFICES ASSUME Core, WriteStartsAtShown, [Next]_vars PROVE WriteStartsAtShown'
    OBVIOUS
  <2>1. ASSUME NEW s \in shown, GuardedWrite(s) PROVE WriteStartsAtShown'
    <3>1. s.snapshot \in Snapshot /\ project \in Snapshot
      BY DEF Core, TypeOK, Shown
    <3>2. HashSnapshot(project) = HashSnapshot(s.snapshot)
      BY <2>1 DEF GuardedWrite, Core, ShownUnderHash
    <3>3. SameHashed(project, s.snapshot)
      BY <3>1, <3>2, HashTellsOutlines
    <3> QED BY <2>1, <3>3 DEF GuardedWrite, WriteStartsAtShown
  <2>2. CASE EditProject
    BY <2>2 DEF EditProject, WriteStartsAtShown
  <2>3. CASE GetProjectState
    BY <2>3 DEF GetProjectState, WriteStartsAtShown
  <2>4. ASSUME NEW s \in shown, GetProjectDiff(s) PROVE WriteStartsAtShown'
    BY <2>4 DEF GetProjectDiff, WriteStartsAtShown
  <2>5. ASSUME NEW s \in shown, RefusedWrite(s) PROVE WriteStartsAtShown'
    BY <2>5 DEF RefusedWrite, WriteStartsAtShown
  <2>6. CASE UNCHANGED vars
    BY <2>6 DEF vars, WriteStartsAtShown
  <2> QED BY <2>1, <2>2, <2>3, <2>4, <2>5, <2>6 DEF Next
<1> QED BY CoreHolds, <1>1, <1>2, PTL DEF Spec

\* ... and a diff that has a base starts from such a snapshot, evictions and
\* re-remembered tokens notwithstanding.
THEOREM DiffsStartAtShown == Spec => []DiffStartsAtShown
<1>1. Init => DiffStartsAtShown
  BY DEF Init, DiffStartsAtShown
<1>2. Core /\ DiffStartsAtShown /\ [Next]_vars => DiffStartsAtShown'
  <2> SUFFICES ASSUME Core, DiffStartsAtShown, [Next]_vars PROVE DiffStartsAtShown'
    OBVIOUS
  <2>1. ASSUME NEW s \in shown, GetProjectDiff(s) PROVE DiffStartsAtShown'
    <3>1. CASE Cached(store, s.revision)
      <4>1. s.snapshot \in Snapshot /\ store.cache[s.revision] \in Snapshot
        BY <3>1 DEF Core, TypeOK, Store, Cached, Shown
      <4>2. HashSnapshot(store.cache[s.revision]) = s.revision
        BY <3>1 DEF Core, StoreConsistent, Consistent, Cached
      <4>3. HashSnapshot(s.snapshot) = s.revision
        BY <2>1 DEF Core, ShownUnderHash
      <4>4. SameHashed(store.cache[s.revision], s.snapshot)
        BY <4>1, <4>2, <4>3, HashTellsOutlines
      <4> QED BY <2>1, <3>1, <4>4 DEF GetProjectDiff, DiffStartsAtShown
    <3>2. CASE ~Cached(store, s.revision)
      BY <2>1, <3>2 DEF GetProjectDiff, DiffStartsAtShown
    <3> QED BY <3>1, <3>2
  <2>2. CASE EditProject
    BY <2>2 DEF EditProject, DiffStartsAtShown
  <2>3. CASE GetProjectState
    BY <2>3 DEF GetProjectState, DiffStartsAtShown
  <2>4. ASSUME NEW s \in shown, GuardedWrite(s) PROVE DiffStartsAtShown'
    BY <2>4 DEF GuardedWrite, DiffStartsAtShown
  <2>5. ASSUME NEW s \in shown, RefusedWrite(s) PROVE DiffStartsAtShown'
    BY <2>5 DEF RefusedWrite, DiffStartsAtShown
  <2>6. CASE UNCHANGED vars
    BY <2>6 DEF vars, DiffStartsAtShown
  <2> QED BY <2>1, <2>2, <2>3, <2>4, <2>5, <2>6 DEF Next
<1> QED BY CoreHolds, <1>1, <1>2, PTL DEF Spec

-----------------------------------------------------------------------------
(* The tabs (ProjectLifecycle, in the behaviours of MCProject).  While the *)
(* session has not gone astray, what the active tab leaves out of the      *)
(* snapshot the session leaves out as well, but for a texture the tab had. *)

Tab == [name : Name \cup {NoName}, format : {"rig", "other"}, saved : BOOLEAN,
        density : Density \cup {None}, textures : SUBSET Project]
Held == [id : Project \cup {None, Stamp}, name : Name \cup {NoName, None}, format : {"rig", "other", None},
         density : Density \cup {None}, textures : SUBSET Project]

TabsType ==
    /\ tabs \in [Project -> Tab \cup {None}] /\ session \in Held
    /\ \A p \in Project : tabs[p] # None => tabs[p].textures \subseteq {p}
    /\ active \in Project \cup {None} /\ (active # None => tabs[active] # None)
\* Nothing shows through from the session.
Covered ==
    IF active = None
    THEN session.name = None /\ session.format = None /\ session.density = None /\ session.textures = {}
    ELSE /\ session.textures \subseteq {active}
         /\ tabs[active].density = None => session.density = None
TabsInv == TabsType /\ (astray \/ Covered)

\* What there is to see, of a tab or without one.
LEMMA SeenIs ==
    ASSUME TabsInv
    PROVE  /\ Life!Seen \in Held
           /\ active # None => /\ tabs[active] \in Tab
                               /\ Life!Seen.name = tabs[active].name /\ Life!Seen.format = tabs[active].format
           /\ Life!Seen.density = IF active # None /\ tabs[active].density # None
                                  THEN tabs[active].density ELSE session.density
           /\ Life!Seen.textures = IF active = None THEN session.textures
                                   ELSE tabs[active].textures \cup session.textures
           /\ active = None => Life!Seen.name = session.name /\ Life!Seen.format = session.format
<1>1. active # None => tabs[active] \in Tab
  BY DEF TabsInv, TabsType
<1>2. CASE active = None
  BY <1>2 DEF Life!Seen, Life!Snapshot, Life!Merge, Life!Live, Life!Else, Life!Empty, TabsInv, TabsType, Held
<1>3. CASE active # None
  <2>1. /\ active \in Project /\ tabs[active].name \in Name \cup {NoName} /\ tabs[active].format \in {"rig", "other"}
        /\ tabs[active].density \in Density \cup {None} /\ tabs[active].textures \in SUBSET Project
    BY <1>1, <1>3 DEF TabsInv, TabsType, Tab
  <2>2. /\ active # None /\ tabs[active].name # None /\ tabs[active].format # None
    BY <2>1, TabsAssumption
  <2> QED BY <1>1, <1>3, <2>1, <2>2 DEF Life!Seen, Life!Snapshot, Life!Merge, Life!Live, Life!Else, TabsInv, TabsType, Held
<1> QED BY <1>1, <1>2, <1>3

\* No tab is open, and the session is empty.
LEMMA TabsInit == Life!Init => TabsInv
BY DEF Life!Init, Life!Empty, TabsInv, TabsType, Covered, Held

\* Tabs and a session on the way to their last step, and what that step leaves.
Fit(T, a, S) ==
    /\ a \in Project \cup {None} /\ T \in [Project -> Tab \cup {None}] /\ S \in Held
    /\ a # None => T[a] \in Tab
    /\ \A p \in Project : T[p] # None => T[p].textures \subseteq {p}
Answered(payload) ==
    /\ reply'.action = payload.action /\ reply'.name = payload.name
    /\ reply'.consent <=> payload.force \/ payload.confirm = TRUE
Settled(density, T, a, S) ==
    /\ TabsType' /\ active' = a
    /\ \A p \in Project : /\ tabs'[p] = None <=> T[p] = None
                          /\ tabs'[p] # None => tabs'[p].saved = T[p].saved /\ tabs'[p].textures = T[p].textures
    /\ a # None => tabs'[a].density = IF density # None THEN density ELSE T[a].density
    /\ session' = IF density # None /\ a # None THEN [S EXCEPT !.density = density] ELSE S

\* The density is the last thing that changes, in the tab and in the session.
LEMMA SettleTabs ==
    ASSUME NEW payload, NEW density \in Density \cup {None}, NEW outcome, NEW T, NEW a, NEW S,
           Fit(T, a, S), Life!Settle(payload, density, T, a, S, outcome)
    PROVE  Settled(density, T, a, S) /\ Answered(payload)
<1> USE DEF Fit
<1>t. None \notin Tab
  BY TabsAssumption DEF Tab
<1>1. /\ active' = a /\ Answered(payload)
      /\ session' = IF density # None /\ a # None THEN [S EXCEPT !.density = density] ELSE S
      /\ tabs' = IF density # None /\ a # None THEN [T EXCEPT ![a].density = density] ELSE T
  BY DEF Life!Settle, Life!SetDensity, Life!Replies, Answered
<1>2. session' \in Held
  BY <1>1 DEF Held
<1>3. CASE density # None /\ a # None
  <2>1. a \in Project /\ T[a] \in Tab /\ tabs' = [T EXCEPT ![a].density = density]
    BY <1>1, <1>3
  <2>2. [T[a] EXCEPT !.density = density] \in Tab
    BY <2>1 DEF Tab
  <2>3. \A p \in Project : tabs'[p] = IF p = a THEN [T[a] EXCEPT !.density = density] ELSE T[p]
    BY <2>1
  <2>4. tabs' \in [Project -> Tab \cup {None}]
    BY <2>1, <2>2
  <2>5. /\ [T[a] EXCEPT !.density = density].saved = T[a].saved
        /\ [T[a] EXCEPT !.density = density].textures = T[a].textures
        /\ [T[a] EXCEPT !.density = density].density = density
    BY <2>1 DEF Tab
  <2>6. tabs'[a] # None /\ T[a] # None
    BY <1>t, <2>1, <2>2, <2>3
  <2> QED BY <1>1, <1>2, <1>3, <2>1, <2>3, <2>4, <2>5, <2>6 DEF TabsType, Settled
<1>4. CASE ~(density # None /\ a # None)
  BY <1>t, <1>1, <1>2, <1>4 DEF TabsType, Settled
<1> QED BY <1>3, <1>4

\* Reusing takes over what is seen, which is the tab's as long as nothing went
\* astray.
LEMMA ReuseTabs ==
    ASSUME TabsInv, NEW payload \in Payload, Life!Reuse(payload)
    PROVE  /\ TabsInv'
           /\ \A p \in Project : /\ tabs'[p] = None <=> tabs[p] = None
                                 /\ tabs'[p] # None => tabs'[p].saved = tabs[p].saved
<1> DEFINE S == Life!Attach(Life!Seen)
<1>1. /\ S \in Held /\ S.density = Life!Seen.density /\ S.textures = Life!Seen.textures
      /\ S.name = Life!Seen.name /\ S.format = Life!Seen.format
  BY SeenIs DEF Life!Attach, Life!Else, Held
<1> HIDE DEF S
<1>2. PICK density \in Density \cup {None} : Life!Settle(payload, density, tabs, active, S, "reused")
  BY TabsAssumption DEF Life!Reuse, Life!Inferred, Life!Estimates, S
<1>3. /\ tabs \in [Project -> Tab \cup {None}] /\ active \in Project \cup {None}
      /\ \A p \in Project : tabs[p] # None => tabs[p].textures \subseteq {p}
      /\ active # None => tabs[active] \in Tab
  BY DEF TabsInv, TabsType
<1>4. /\ TabsType' /\ active' = active
      /\ \A p \in Project : /\ tabs'[p] = None <=> tabs[p] = None
                            /\ tabs'[p] # None => /\ tabs'[p].saved = tabs[p].saved
                                                  /\ tabs'[p].textures = tabs[p].textures
      /\ active # None => tabs'[active].density = IF density # None THEN density ELSE tabs[active].density
      /\ session' = IF density # None /\ active # None THEN [S EXCEPT !.density = density] ELSE S
  <2>1. Fit(tabs, active, S)
    BY <1>1, <1>3 DEF Fit
  <2>2. Settled(density, tabs, active, S) /\ Answered(payload)
    BY <1>2, <2>1, SettleTabs
  <2> QED BY <2>2 DEF Settled
<1>5. astray' = astray
  BY DEF Life!Reuse
<1>6. ASSUME ~astray PROVE Covered'
  <2>1. Covered
    BY <1>6 DEF TabsInv
  <2>2. /\ session'.textures = S.textures /\ session'.name = S.name /\ session'.format = S.format
        /\ session'.density = IF density # None /\ active # None THEN density ELSE S.density
    BY <1>1, <1>4 DEF Held
  <2>3. CASE active = None
    BY <1>1, <1>4, <2>1, <2>2, <2>3, SeenIs DEF Covered
  <2>4. CASE active # None
    <3>1. active \in Project /\ tabs[active] # None /\ tabs'[active] # None
      BY <1>3, <1>4, <2>4 DEF TabsInv, TabsType
    <3> QED BY <1>1, <1>3, <1>4, <2>1, <2>2, <2>4, <3>1, SeenIs DEF Covered
  <2> QED BY <2>3, <2>4
<1> QED BY <1>4, <1>5, <1>6 DEF TabsInv

\* A new project is in its tab and in the session alike; the tab there was
\* loses the mark of unsaved work only with consent or by the policy.
LEMMA CreateTabs ==
    ASSUME TabsInv, NEW payload \in Payload, Life!CreateProject(payload)
    PROVE  /\ TabsInv'
           /\ \/ UNCHANGED lvars
              \/ /\ reply'.action = payload.action
                 /\ reply'.consent <=> payload.force \/ payload.confirm = TRUE
                 /\ \A p \in Life!Open : /\ tabs'[p] # None
                                         /\ ~tabs[p].saved /\ tabs'[p].saved => Life!GivesUp(payload) /\ Life!Unsaved
<1>t. None \notin Tab /\ Life!NewTab \in Tab /\ Life!NewTab.textures = {} /\ Life!NewTab.saved
  BY TabsAssumption DEF Tab, Life!NewTab
<1>1. CASE UNCHANGED lvars
  BY <1>1 DEF lvars, TabsInv, TabsType, Covered
<1>2. CASE ~UNCHANGED lvars
  <2> DEFINE marked == IF active = None THEN tabs ELSE [tabs EXCEPT ![active].saved = TRUE]
  <2>0. \/ Life!FailsMarked(payload, marked)
        \/ \E p \in Project \ Life!Open :
             LET opened == [marked EXCEPT ![p] = Life!NewTab]
             IN  \/ Life!AsksForInput(payload, opened, p)
                 \/ Life!Finalized(payload, [opened EXCEPT ![p].name = payload.name], p)
    BY <1>2 DEF Life!CreateProject, Life!Refuse, lvars, Life!lvars
  <2>2. payload.name # None /\ Life!GivesUp(payload) /\ payload.name \in Name \cup {NoName}
        /\ payload.density \in Density \cup {None}
    BY <1>2, TabsAssumption DEF Life!CreateProject, Life!Refuse, lvars, Life!lvars
  <2>3. /\ tabs \in [Project -> Tab \cup {None}] /\ active \in Project \cup {None}
        /\ \A q \in Project : tabs[q] # None => tabs[q].textures \subseteq {q}
        /\ active # None => tabs[active] \in Tab
    BY DEF TabsInv, TabsType
  <2>4. /\ marked \in [Project -> Tab \cup {None}]
        /\ \A q \in Project : tabs[q] # None => /\ marked[q] # None /\ marked[q].textures = tabs[q].textures
                                                /\ q # active => marked[q] = tabs[q]
        /\ \A q \in Project : tabs[q] = None => marked[q] = None
    <3>1. CASE active = None
      BY <2>3, <3>1
    <3>2. CASE active # None
      <4>1. /\ active \in Project /\ [tabs[active] EXCEPT !.saved = TRUE] \in Tab
            /\ [tabs[active] EXCEPT !.saved = TRUE].textures = tabs[active].textures
        BY <2>3, <3>2 DEF Tab
      <4>2. \A q \in Project : marked[q] = IF q = active THEN [tabs[active] EXCEPT !.saved = TRUE] ELSE tabs[q]
        BY <2>3, <3>2
      <4>3. marked \in [Project -> Tab \cup {None}]
        BY <2>3, <3>2, <4>1
      <4>4. marked[active] = [tabs[active] EXCEPT !.saved = TRUE] /\ marked[active] # None /\ tabs[active] # None
        BY <1>t, <2>3, <3>2, <4>1, <4>2
      <4>5. \A q \in Project : q # active => marked[q] = tabs[q]
        BY <4>2
      <4> HIDE DEF marked
      <4> QED BY <4>1, <4>3, <4>4, <4>5
    <3> QED BY <3>1, <3>2
  <2>m. active # None => marked[active] = [tabs[active] EXCEPT !.saved = TRUE]
                         /\ marked[active].density = tabs[active].density
    BY <2>3 DEF Tab
  <2> HIDE DEF marked
  <2>f. CASE Life!FailsMarked(payload, marked)
    <3>1. /\ tabs' = marked /\ active' = active /\ astray' = astray /\ session' = session
          /\ reply'.action = payload.action /\ (reply'.consent <=> payload.force \/ payload.confirm = TRUE)
      BY <2>f DEF Life!FailsMarked, Life!Replies
    <3>2. /\ \A q \in Project : marked[q] # None => marked[q].textures \subseteq {q}
          /\ active # None => marked[active] # None
      BY <2>3, <2>4 DEF TabsInv, TabsType
    <3>3. TabsType'
      BY <2>3, <2>4, <3>1, <3>2 DEF TabsInv, TabsType
    <3>4. Covered => Covered'
      BY <2>3, <2>m, <3>1 DEF Covered
    <3>5. \A q \in Life!Open : ~tabs[q].saved /\ marked[q].saved => q = active /\ Life!Unsaved
      <4>1. \A q \in Life!Open : q # active => marked[q] = tabs[q]
        BY <2>4 DEF Life!Open
      <4>2. active \in Life!Open /\ ~tabs[active].saved => Life!Unsaved
        BY TabsAssumption DEF Life!Open, Life!Unsaved
      <4> QED BY <4>1, <4>2
    <3> QED BY <2>2, <2>4, <3>1, <3>3, <3>4, <3>5 DEF TabsInv, Life!Open
  <2> SUFFICES ASSUME ~Life!FailsMarked(payload, marked)
               PROVE  /\ TabsInv'
                      /\ reply'.action = payload.action
                      /\ reply'.consent <=> payload.force \/ payload.confirm = TRUE
                      /\ \A p \in Life!Open : /\ tabs'[p] # None
                                              /\ ~tabs[p].saved /\ tabs'[p].saved => Life!GivesUp(payload) /\ Life!Unsaved
    BY <2>f
  <2>1. PICK p \in Project \ Life!Open :
          LET opened == [marked EXCEPT ![p] = Life!NewTab]
          IN  \/ Life!AsksForInput(payload, opened, p)
              \/ Life!Finalized(payload, [opened EXCEPT ![p].name = payload.name], p)
    BY <2>0
  <2> DEFINE opened == [marked EXCEPT ![p] = Life!NewTab]
             named == [opened EXCEPT ![p].name = payload.name]
  <2>5. /\ p \in Project /\ tabs[p] = None
        /\ \A q \in Project : opened[q] = IF q = p THEN Life!NewTab ELSE marked[q]
        /\ opened \in [Project -> Tab \cup {None}]
    BY <1>t, <2>1, <2>4 DEF Life!Open
  <2>6. \A q \in Life!Open : q \in Project /\ tabs[q] # None /\ q # p /\ opened[q] = marked[q] /\ opened[q] # None
    BY <2>4, <2>5 DEF Life!Open
  <2>7. \A q \in Life!Open : ~tabs[q].saved /\ opened[q].saved => q = active /\ Life!Unsaved
    <3>1. \A q \in Life!Open : q # active => opened[q] = tabs[q]
      BY <2>4, <2>6
    <3>2. active \in Life!Open /\ ~tabs[active].saved => Life!Unsaved
      BY TabsAssumption DEF Life!Open, Life!Unsaved
    <3> QED BY <3>1, <3>2
  <2>10. Life!AsksForInput(payload, opened, p) \/ Life!Finalized(payload, named, p)
    BY <2>1
  <2> HIDE DEF opened
  <2>8. CASE Life!AsksForInput(payload, opened, p)
    <3>1. /\ tabs' = opened /\ active' = p /\ astray' = TRUE /\ session' = session
          /\ reply'.action = payload.action /\ (reply'.consent <=> payload.force \/ payload.confirm = TRUE)
      BY <2>8 DEF Life!AsksForInput, Life!Replies
    <3>2. TabsType'
      <4>1. \A q \in Project : opened[q] # None => opened[q].textures \subseteq {q}
        BY <1>t, <2>3, <2>4, <2>5
      <4>2. opened[p] # None
        BY <1>t, <2>5
      <4> QED BY <2>5, <3>1, <4>1, <4>2 DEF TabsType, TabsInv
    <3> QED BY <2>2, <2>6, <2>7, <3>1, <3>2 DEF TabsInv
  <2>9. CASE Life!Finalized(payload, named, p)
    <3>1. PICK textures \in {{}, {p}} :
            Life!Settle(payload, payload.density, [named EXCEPT ![p].textures = textures], p,
                        [Life!Create(payload.name) EXCEPT !.textures = textures], "created")
      BY <2>9 DEF Life!Finalized
    <3> DEFINE T == [named EXCEPT ![p].textures = textures]
               S == [Life!Create(payload.name) EXCEPT !.textures = textures]
    <3>2. /\ S \in Held /\ S.textures = textures /\ S.density = None
      BY <2>2, <2>5 DEF Life!Create, Held
    <3>3. /\ \A q \in Project : T[q] = IF q = p THEN [[Life!NewTab EXCEPT !.name = payload.name] EXCEPT !.textures = textures]
                                       ELSE opened[q]
          /\ T \in [Project -> Tab \cup {None}]
      <4>1. [[Life!NewTab EXCEPT !.name = payload.name] EXCEPT !.textures = textures] \in Tab
        BY <1>t, <2>2, <2>5 DEF Tab
      <4>2. named = [q \in Project |-> IF q = p THEN [Life!NewTab EXCEPT !.name = payload.name] ELSE opened[q]]
        BY <2>5
      <4>3. T = [q \in Project |-> IF q = p THEN [[Life!NewTab EXCEPT !.name = payload.name] EXCEPT !.textures = textures]
                                   ELSE opened[q]]
        <5> HIDE DEF named
        <5> QED BY <2>5, <4>2
      <4> QED BY <2>5, <4>1, <4>3
    <3>4. T[p] \in Tab /\ T[p].textures = textures /\ T[p] # None
      <4> HIDE DEF T
      <4>1. T[p] = [[Life!NewTab EXCEPT !.name = payload.name] EXCEPT !.textures = textures]
        BY <2>5, <3>3
      <4>2. [Life!NewTab EXCEPT !.name = payload.name] \in Tab
        BY <1>t, <2>2 DEF Tab
      <4>3. textures \in SUBSET Project
        BY <2>5
      <4>4. T[p] \in Tab /\ T[p].textures = textures
        BY <4>1, <4>2, <4>3 DEF Tab
      <4> QED BY <1>t, <4>4
    <3> HIDE DEF T, S, named
    <3>5. \A q \in Project : T[q] # None => T[q].textures \subseteq {q}
      BY <1>t, <2>3, <2>4, <2>5, <3>3, <3>4
    <3>6. /\ TabsType' /\ active' = p /\ reply'.action = payload.action
          /\ (reply'.consent <=> payload.force \/ payload.confirm = TRUE)
          /\ \A q \in Project : /\ tabs'[q] = None <=> T[q] = None
                                /\ tabs'[q] # None => tabs'[q].saved = T[q].saved /\ tabs'[q].textures = T[q].textures
          /\ tabs'[p].density = IF payload.density # None THEN payload.density ELSE T[p].density
          /\ session' = IF payload.density # None /\ p # None THEN [S EXCEPT !.density = payload.density] ELSE S
      <4>1. p # None /\ p \in Project \cup {None}
        BY <2>5, TabsAssumption
      <4>2. Life!Settle(payload, payload.density, T, p, S, "created")
        BY <3>1 DEF T, S
      <4>3. Fit(T, p, S)
        BY <3>2, <3>3, <3>4, <3>5, <4>1 DEF Fit
      <4>4. Settled(payload.density, T, p, S) /\ Answered(payload)
        BY <2>2, <4>2, <4>3, SettleTabs
      <4> QED BY <4>1, <4>4 DEF Settled, Answered
    <3>7. Covered'
      BY <2>5, <3>2, <3>4, <3>6, TabsAssumption DEF Covered, Held
    <3>8. \A q \in Life!Open : T[q] = opened[q]
      BY <2>6, <3>3
    <3> QED BY <2>2, <2>6, <2>7, <3>6, <3>7, <3>8 DEF TabsInv
  <2> QED BY <2>8, <2>9, <2>10
<1> QED BY <1>1, <1>2

\* What a call may do to the tabs that were open (Life!ClosesWhatWasNamed).
LEMMA EnsureTabs ==
    ASSUME TabsInv, NEW payload \in Payload, Life!Ensure(payload)
    PROVE  TabsInv' /\ Life!ClosesWhatWasNamed
<1>t. None \notin Tab
  BY TabsAssumption DEF Tab
<1>1. CASE UNCHANGED lvars
  BY <1>1 DEF lvars, TabsInv, TabsType, Covered, Life!ClosesWhatWasNamed, Life!Open
<1>2. CASE Life!Reuse(payload)
  <2>1. TabsInv'
    BY <1>2, ReuseTabs
  <2>2. \A p \in Project : /\ tabs'[p] = None <=> tabs[p] = None
                           /\ tabs'[p] # None => tabs'[p].saved = tabs[p].saved
    BY <1>2, ReuseTabs
  <2> QED BY <2>1, <2>2 DEF Life!ClosesWhatWasNamed, Life!Open
<1>3. CASE Life!CreateProject(payload)
  <2>1. TabsInv'
    BY <1>3, CreateTabs
  <2>2. payload.action = "ensure"
    BY DEF Life!Ensure
  <2>3. CASE ~UNCHANGED lvars
    <3>1. /\ reply'.action = "ensure" /\ (reply'.consent <=> payload.force \/ payload.confirm = TRUE)
          /\ \A p \in Life!Open : /\ tabs'[p] # None
                                  /\ ~tabs[p].saved /\ tabs'[p].saved => Life!GivesUp(payload) /\ Life!Unsaved
      BY <1>3, <2>2, <2>3, CreateTabs
    <3>2. payload.confirm \in BOOLEAN \cup {None}
      BY TabsAssumption
    <3>3. Life!GivesUp(payload) /\ Life!Unsaved => payload.confirm = TRUE \/ discard # FALSE
      BY <3>2 DEF Life!GivesUp, Life!Retries, Life!Else
    <3> QED BY <2>1, <3>1, <3>3 DEF Life!ClosesWhatWasNamed
  <2> QED BY <1>1, <2>1, <2>3
<1> QED BY <1>1, <1>2, <1>3 DEF Life!Ensure, Life!Refuse, lvars, Life!lvars

\* A close leaves an empty session or one that is astray, and closes the tab
\* seen, by its name.
LEMMA DeleteTabs ==
    ASSUME TabsInv, NEW payload \in Payload, Life!Delete(payload)
    PROVE  TabsInv' /\ Life!ClosesWhatWasNamed
<1>t. None \notin Tab
  BY TabsAssumption DEF Tab
<1>1. CASE UNCHANGED lvars
  BY <1>1 DEF lvars, TabsInv, TabsType, Covered, Life!ClosesWhatWasNamed, Life!Open
<1>2. CASE ~UNCHANGED lvars
  <2>1. payload.action = "delete" /\ Life!Named(payload) /\ Life!Closable(payload)
    BY <1>2 DEF Life!Delete, Life!Refuse, lvars, Life!lvars
  <2>2. PICK next \in Life!After(active) :
          LET rest == [tabs EXCEPT ![active] = None]
              still == Life!HasProject(Life!Snapshot(rest, next, session))
          IN  /\ tabs' = rest /\ active' = next
              /\ session' = IF still THEN session ELSE Life!Empty
              /\ Life!Replies(payload, IF still THEN "not applied" ELSE "deleted")
              /\ astray' = still /\ UNCHANGED discard
    BY <1>2 DEF Life!Delete, Life!Refuse, lvars, Life!lvars
  <2>3. /\ active \in Project /\ tabs[active] \in Tab /\ tabs[active].name = payload.name
        /\ tabs \in [Project -> Tab \cup {None}] /\ session \in Held
        /\ \A p \in Project : tabs[p] # None => tabs[p].textures \subseteq {p}
    BY <2>1, SeenIs DEF Life!Named, Life!Closable, TabsInv, TabsType
  <2>4. /\ tabs' = [tabs EXCEPT ![active] = None] /\ active' = next
        /\ reply'.action = "delete" /\ reply'.name = payload.name
        /\ (reply'.consent <=> payload.force \/ payload.confirm = TRUE)
        /\ session' = Life!Empty \/ (session' = session /\ astray')
    <3>1. ASSUME NEW outcome, Life!Replies(payload, outcome) PROVE Answered(payload)
      BY <3>1 DEF Life!Replies, Answered
    <3>2. Answered(payload)
      BY <2>2, <3>1
    <3> QED BY <2>1, <2>2, <3>2 DEF Answered
  <2>5. /\ tabs' \in [Project -> Tab \cup {None}]
        /\ \A p \in Project : tabs'[p] = IF p = active THEN None ELSE tabs[p]
    BY <2>3, <2>4
  <2>6. next = None \/ (next \in Project /\ next # active /\ tabs[next] # None)
    BY DEF Life!After, Life!Open
  <2>7. TabsType'
    <3>1. session' \in Held
      BY <2>3, <2>4 DEF Held, Life!Empty
    <3> QED BY <2>3, <2>4, <2>5, <2>6, <3>1 DEF TabsType
  <2>8. astray' \/ Covered'
    BY <2>4 DEF Covered, Life!Empty
  <2>9. Life!ClosesWhatWasNamed
    <3>1. tabs[active].saved \/ payload.force
      BY <2>1 DEF Life!Closable, Life!Unsaved
    <3> QED BY <2>3, <2>4, <2>5, <3>1 DEF Life!ClosesWhatWasNamed, Life!Open
  <2> QED BY <2>7, <2>8, <2>9 DEF TabsInv
<1> QED BY <1>1, <1>2

\* A tool gives the texture it adds to the tab and to the session.
LEMMA MutateTabs == ASSUME TabsInv, Life!Mutate PROVE TabsInv' /\ reply' = None
<1> DEFINE S == IF Life!HasProject(session) THEN session ELSE Life!Attach(Life!Seen)
           tab == [[tabs[active] EXCEPT !.textures = {active}] EXCEPT !.saved = FALSE]
<1>t. None \notin Tab
  BY TabsAssumption DEF Tab
<1>1. /\ active \in Project /\ tabs[active] \in Tab /\ tabs[active].textures \subseteq {active}
      /\ tabs \in [Project -> Tab \cup {None}] /\ session \in Held
      /\ \A p \in Project : tabs[p] # None => tabs[p].textures \subseteq {p}
  BY SeenIs DEF Life!Mutate, TabsInv, TabsType
<1>2. /\ tabs' = [tabs EXCEPT ![active].textures = {active}, ![active].saved = FALSE]
      /\ session' = [S EXCEPT !.textures = @ \cup {active}]
      /\ active' = active /\ astray' = astray /\ reply' = None
  BY DEF Life!Mutate
<1>3. tab \in Tab /\ tab.textures = {active} /\ tab.density = tabs[active].density /\ tab # None
  <2>1. [tabs[active] EXCEPT !.textures = {active}] \in Tab
    BY <1>1 DEF Tab
  <2>2. tab \in Tab /\ tab.textures = {active} /\ tab.density = tabs[active].density
    BY <1>1, <2>1 DEF Tab
  <2> QED BY <1>t, <2>2
<1>4. \A p \in Project : tabs'[p] = IF p = active THEN tab ELSE tabs[p]
  BY <1>1, <1>2
<1>5. tabs' \in [Project -> Tab \cup {None}]
  BY <1>1, <1>2, <1>3
<1>6. S \in Held /\ (~astray => S.textures \subseteq {active} /\ (tabs[active].density = None => S.density = None))
  <2>1. ~astray => session.textures \subseteq {active} /\ (tabs[active].density = None => session.density = None)
    BY <1>1 DEF TabsInv, Covered
  <2>2. Life!Seen \in Held /\ Life!Seen.textures = tabs[active].textures \cup session.textures
        /\ (tabs[active].density = None => Life!Seen.density = session.density)
    BY <1>1, SeenIs, TabsAssumption
  <2>3. LET A == Life!Attach(Life!Seen) IN A \in Held /\ A.textures = Life!Seen.textures /\ A.density = Life!Seen.density
    BY <2>2 DEF Life!Attach, Life!Else, Held
  <2> QED BY <1>1, <2>1, <2>2, <2>3
<1> HIDE DEF S, tab
<1>7. session' \in Held /\ session'.textures = S.textures \cup {active} /\ session'.density = S.density
  BY <1>1, <1>2, <1>6 DEF Held
<1>8. TabsType'
  BY <1>1, <1>2, <1>3, <1>4, <1>5, <1>7 DEF TabsType
<1>9. ~astray => Covered'
  BY <1>1, <1>2, <1>3, <1>4, <1>6, <1>7, TabsAssumption DEF Covered
<1> QED BY <1>2, <1>8, <1>9 DEF TabsInv

\* The user makes the session go astray, or edits a tab, which takes no
\* texture and no density from it.
LEMMA UserTabs == ASSUME TabsInv, Life!User PROVE TabsInv' /\ reply' = None
<1>t. None \notin Tab
  BY TabsAssumption DEF Tab
<1>1. /\ tabs \in [Project -> Tab \cup {None}] /\ session' = session /\ session \in Held /\ reply' = None
      /\ \A p \in Project : tabs[p] # None => tabs[p] \in Tab /\ tabs[p].textures \subseteq {p}
      /\ active \in Project \cup {None} /\ (active # None => tabs[active] # None)
  BY DEF Life!User, TabsInv, TabsType
<1>2. PICK p \in Project : IF p \in Life!Open THEN Life!Edits(p) \/ Life!Switches(p) \/ Life!Closes(p) ELSE Life!Opens(p)
  BY DEF Life!User
<1>3. CASE p \in Life!Open /\ Life!Edits(p)
  <2>1. tabs[p] \in Tab /\ tabs[p] # None /\ tabs[p].textures \subseteq {p}
    BY <1>1, <1>3 DEF Life!Open
  <2>2. \E tab \in Tab : /\ tabs' = [tabs EXCEPT ![p] = tab] /\ tab.density = tabs[p].density
                         /\ tab.textures \in {tabs[p].textures, {p}, {}}
    <3>1. ASSUME NEW name \in Name, tabs' = [tabs EXCEPT ![p].name = name]
          PROVE  /\ tabs' = [tabs EXCEPT ![p] = [tabs[p] EXCEPT !.name = name]]
                 /\ [tabs[p] EXCEPT !.name = name] \in Tab
                 /\ [tabs[p] EXCEPT !.name = name].density = tabs[p].density
                 /\ [tabs[p] EXCEPT !.name = name].textures = tabs[p].textures
      BY <2>1, <3>1 DEF Tab
    <3>2. ASSUME tabs' = [tabs EXCEPT ![p].saved = ~@]
          PROVE  /\ tabs' = [tabs EXCEPT ![p] = [tabs[p] EXCEPT !.saved = ~tabs[p].saved]]
                 /\ [tabs[p] EXCEPT !.saved = ~tabs[p].saved] \in Tab
                 /\ [tabs[p] EXCEPT !.saved = ~tabs[p].saved].density = tabs[p].density
                 /\ [tabs[p] EXCEPT !.saved = ~tabs[p].saved].textures = tabs[p].textures
      BY <2>1, <3>2 DEF Tab
    <3>3. ASSUME NEW textures \in {{p}, {}},
                 tabs' = [tabs EXCEPT ![p].textures = textures, ![p].saved = FALSE]
          PROVE  LET tab == [[tabs[p] EXCEPT !.textures = textures] EXCEPT !.saved = FALSE]
                 IN  /\ tabs' = [tabs EXCEPT ![p] = tab] /\ tab \in Tab
                     /\ tab.density = tabs[p].density /\ tab.textures = textures
      <4>1. [[tabs[p] EXCEPT !.textures = textures] EXCEPT !.saved = FALSE] \in Tab
        BY <2>1, <3>3 DEF Tab
      <4>2. tabs' = [tabs EXCEPT ![p] = [[tabs[p] EXCEPT !.textures = textures] EXCEPT !.saved = FALSE]]
        BY <1>1, <3>3
      <4> QED BY <2>1, <4>1, <4>2 DEF Tab
    <3> QED BY <1>3, <3>1, <3>2, <3>3 DEF Life!Edits
  <2>3. PICK tab \in Tab : /\ tabs' = [tabs EXCEPT ![p] = tab] /\ tab.density = tabs[p].density
                           /\ tab.textures \in {tabs[p].textures, {p}, {}}
    BY <2>2
  <2>4. /\ tabs' \in [Project -> Tab \cup {None}] /\ active' = active /\ astray' = astray /\ tab # None
        /\ \A q \in Project : tabs'[q] = IF q = p THEN tab ELSE tabs[q]
    BY <1>t, <1>1, <1>3, <2>3 DEF Life!Edits
  <2>5. TabsType'
    BY <1>1, <2>1, <2>3, <2>4 DEF TabsType
  <2>6. Covered => Covered'
    BY <1>1, <2>1, <2>3, <2>4, TabsAssumption DEF Covered
  <2> QED BY <1>1, <2>4, <2>5, <2>6 DEF TabsInv
<1>4. CASE p \in Life!Open /\ (Life!Switches(p) \/ Life!Closes(p))
  <2>1. /\ astray' /\ active' \in Project \cup {None}
        /\ tabs' = tabs \/ tabs' = [tabs EXCEPT ![p] = None]
        /\ active' # None => tabs'[active'] # None
    BY <1>1, <1>4 DEF Life!Switches, Life!Closes, Life!Open, Life!After
  <2>2. /\ tabs' \in [Project -> Tab \cup {None}]
        /\ \A q \in Project : tabs'[q] = tabs[q] \/ tabs'[q] = None
    BY <1>1, <2>1
  <2> QED BY <1>1, <2>1, <2>2 DEF TabsInv, TabsType
<1>5. CASE p \notin Life!Open /\ Life!Opens(p)
  <2>1. PICK format \in {"rig", "other"}, density \in Density \cup {None} :
          tabs' = [tabs EXCEPT ![p] = [[Life!NewTab EXCEPT !.format = format] EXCEPT !.density = density]]
    BY <1>5 DEF Life!Opens
  <2> DEFINE tab == [[Life!NewTab EXCEPT !.format = format] EXCEPT !.density = density]
  <2>2. tab \in Tab /\ tab.textures = {} /\ tab # None
    BY <1>t DEF Life!NewTab, Tab
  <2>3. tabs' = [tabs EXCEPT ![p] = tab] /\ active' = p /\ astray'
    BY <1>5, <2>1 DEF Life!Opens
  <2> HIDE DEF tab
  <2>4. /\ tabs' \in [Project -> Tab \cup {None}]
        /\ \A q \in Project : tabs'[q] = IF q = p THEN tab ELSE tabs[q]
    BY <1>1, <2>2, <2>3
  <2> QED BY <1>1, <2>2, <2>3, <2>4 DEF TabsInv, TabsType
<1> QED BY <1>1, <1>2, <1>3, <1>4, <1>5

LEMMA TabsHold == MCSpec => [](part = "tabs" => TabsInv)
<1>1. MCInit => (part = "tabs" => TabsInv)
  BY TabsInit DEF MCInit
<1>2. (part = "tabs" => TabsInv) /\ [MCNext]_pvars => (part = "tabs" => TabsInv)'
  <2> SUFFICES ASSUME part = "tabs", TabsInv, [MCNext]_pvars PROVE TabsInv'
    BY DEF MCNext, pvars
  <2>1. CASE UNCHANGED pvars
    BY <2>1 DEF pvars, lvars, TabsInv, TabsType, Covered
  <2>2. CASE Life!Next
    BY <2>2, EnsureTabs, DeleteTabs, MutateTabs, UserTabs DEF Life!Next
  <2> QED BY <2>1, <2>2 DEF MCNext
<1> QED BY <1>1, <1>2, PTL DEF MCSpec

\* What the tools see is the active tab and nothing of the project there was
\* before, but for a texture the user deleted in this tab, as long as the session
\* has not gone astray: the merged snapshot of ensure_project's and every other
\* tool's first look.
THEOREM ToolsSeeTheProject == MCSpec => []StateIsOfTheProject
<1>1. TabsInv => Life!StateIsOfTheProject
  <2> SUFFICES ASSUME TabsInv, ~astray
               PROVE  LET live == Life!Live(tabs, active)
                      IN  /\ \A field \in {"name", "format", "density"} : Life!Seen[field] = live[field]
                          /\ active # None => Life!Seen.id = active
                          /\ live.textures \subseteq Life!Seen.textures
                          /\ Life!Seen.textures \ live.textures \subseteq Project \cap {active}
    BY DEF Life!StateIsOfTheProject
  <2>1. Covered /\ session \in Held
    BY DEF TabsInv, TabsType
  <2>2. CASE active = None
    BY <2>1, <2>2 DEF Covered, Held, Life!Seen, Life!Snapshot, Life!Merge, Life!Live, Life!Else, Life!Empty
  <2>3. CASE active # None
    <3>1. /\ tabs[active] \in Tab /\ Life!Seen.name = tabs[active].name /\ Life!Seen.format = tabs[active].format
          /\ Life!Seen.density = IF tabs[active].density # None THEN tabs[active].density ELSE session.density
          /\ Life!Seen.textures = tabs[active].textures \cup session.textures
      BY <2>3, SeenIs
    <3>2. /\ Life!Seen.density = tabs[active].density /\ tabs[active].textures \subseteq Life!Seen.textures
          /\ Life!Seen.textures \ tabs[active].textures \subseteq {active} /\ active \in Project
      BY <2>1, <2>3, <3>1 DEF Covered, TabsInv, TabsType
    <3>3. Life!Seen.id = active
      BY <2>3 DEF Life!Seen, Life!Snapshot, Life!Merge, Life!Live, Life!Else
    <3>4. Life!Live(tabs, active) = [id |-> active, name |-> tabs[active].name, format |-> tabs[active].format,
                                     density |-> tabs[active].density, textures |-> tabs[active].textures]
      BY <2>3 DEF Life!Live
    <3> QED BY <3>1, <3>2, <3>3, <3>4
  <2> QED BY <2>2, <2>3
<1> QED BY <1>1, TabsHold, PTL DEF StateIsOfTheProject

\* A call closes no tab but the one it names, by the name the tab has then, and
\* gives up unsaved work only if told so or if the policy lets it.
THEOREM CallsCloseWhatTheyName == MCSpec => ClosesWhatWasNamed
<1>1. part = "tabs" /\ TabsInv /\ [MCNext]_pvars => (part = "tabs" => Life!ClosesWhatWasNamed) \/ UNCHANGED pvars
  <2> SUFFICES ASSUME part = "tabs", TabsInv, MCNext PROVE Life!ClosesWhatWasNamed
    OBVIOUS
  <2>1. Life!Next
    BY DEF MCNext
  <2> QED BY <2>1, EnsureTabs, DeleteTabs, MutateTabs, UserTabs DEF Life!Next, Life!ClosesWhatWasNamed
<1>2. (part = "tabs" => TabsInv) /\ [MCNext]_pvars => [part = "tabs" => Life!ClosesWhatWasNamed]_pvars
  BY <1>1
<1> QED BY <1>2, TabsHold, PTL DEF MCSpec, ClosesWhatWasNamed

-----------------------------------------------------------------------------
(* Recursive functions along a sequence                                    *)

\* Among some natural numbers there is a least one.
LEMMA Least ==
    ASSUME NEW S \in SUBSET Nat, NEW n \in S
    PROVE  \E m \in S : \A k \in S : m <= k
<1>1. PICK m \in S : \A k \in S : ~(<<k, m>> \in OpToRel(<, Nat))
  BY WFMin, NatLessThanWellFounded, Zenon
<1>2. \A k \in S : ~(k < m)
  BY <1>1, Zenon DEF OpToRel
<1> QED BY <1>2

\* What holds of 0 and is passed on from each number to the next holds of all.
LEMMA Upwards ==
    ASSUME NEW n \in Nat, NEW Good, 0 \in Good, \A i \in 1..n : i - 1 \in Good => i \in Good
    PROVE  \A i \in 0..n : i \in Good
<1> DEFINE Bad == {i \in 0..n : i \notin Good}
<1>1. SUFFICES ASSUME NEW i \in Bad PROVE FALSE
  OBVIOUS
<1>2. PICK m \in Bad : \A j \in Bad : m <= j
  <2>1. Bad \in SUBSET Nat
    OBVIOUS
  <2> HIDE DEF Bad
  <2> QED BY <1>1, <2>1, Least
<1>3. m \in 1..n /\ m - 1 \in 0..n /\ m - 1 \notin Bad
  BY <1>2
<1> QED BY <1>2, <1>3

\* A step for every place makes a function.
IsRun(f, a, n, g) == f = [i \in 0..n |-> IF i = 0 THEN a ELSE g[<<i, f[i-1]>>]]
LEMMA StepByStep ==
    ASSUME NEW S, NEW a \in S, NEW n \in Nat, NEW g \in [(1..n) \X S -> S]
    PROVE  \E f \in [0..n -> S] : IsRun(f, a, n, g)
<1> DEFINE Good == {m \in 0..n : \E f \in [0..m -> S] : IsRun(f, a, m, g)}
<1>1. 0 \in Good
  <2> DEFINE f == [i \in 0..0 |-> a]
  <2>1. f \in [0..0 -> S] /\ IsRun(f, a, 0, g)
    BY DEF IsRun
  <2> QED BY <2>1
<1>2. ASSUME NEW m \in 1..n, m - 1 \in Good PROVE m \in Good
  <2>1. PICK h \in [0..m-1 -> S] : IsRun(h, a, m-1, g)
    BY <1>2
  <2> DEFINE f == [i \in 0..m |-> IF i = m THEN g[<<m, h[m-1]>>] ELSE h[i]]
  <2>2. m - 1 \in 0..m-1 /\ h[m-1] \in S /\ \A i \in 0..m : i # m => i \in 0..m-1
    BY <2>1
  <2>3. /\ f[m] = g[<<m, h[m-1]>>] /\ f[m] \in S
        /\ \A i \in 0..m-1 : f[i] = h[i] /\ f[i] \in S
    BY <2>1, <2>2
  <2>4. f = [i \in 0..m |-> f[i]] /\ f \in [0..m -> S]
    BY <2>2, <2>3
  <2> HIDE DEF f
  <2>5. ASSUME NEW i \in 0..m PROVE f[i] = IF i = 0 THEN a ELSE g[<<i, f[i-1]>>]
    <3>1. CASE i = m
      <4>1. m # 0 /\ f[m-1] = h[m-1]
        BY <2>2, <2>3
      <4> QED BY <2>3, <3>1, <4>1
    <3>2. CASE i # m
      <4>1. i \in 0..m-1 /\ (i # 0 => i - 1 \in 0..m-1)
        BY <3>2
      <4> QED BY <2>1, <2>3, <4>1 DEF IsRun
    <3> QED BY <3>1, <3>2
  <2>6. IsRun(f, a, m, g)
    BY <2>4, <2>5 DEF IsRun
  <2> QED BY <2>4, <2>6
<1>3. \A i \in 0..n : i \in Good
  <2> HIDE DEF Good
  <2> QED BY <1>1, <1>2, Upwards
<1>4. n \in Good
  BY <1>3
<1> QED BY <1>4

-----------------------------------------------------------------------------
(* Totals                                                                  *)

\* f sums up the numbers place by place, as Total does.
SumsUp(f, numbers) == f = [n \in 0..Len(numbers) |-> IF n = 0 THEN 0 ELSE f[n-1] + numbers[n]]
LEMMA TotalIs ==
    ASSUME NEW numbers \in Seq(Nat)
    PROVE  \E f \in [0..Len(numbers) -> Nat] : SumsUp(f, numbers) /\ Trace!Total(numbers) = f[Len(numbers)]
<1> DEFINE g == [p \in (1..Len(numbers)) \X Nat |-> p[2] + numbers[p[1]]]
           h == CHOOSE f : SumsUp(f, numbers)
<1>1. \E f \in [0..Len(numbers) -> Nat] : SumsUp(f, numbers)
  <2>1. g \in [(1..Len(numbers)) \X Nat -> Nat] /\ Len(numbers) \in Nat
    OBVIOUS
  <2> HIDE DEF g
  <2>2. PICK f \in [0..Len(numbers) -> Nat] : IsRun(f, 0, Len(numbers), g)
    BY <2>1, StepByStep
  <2>3. ASSUME NEW n \in 0..Len(numbers) PROVE f[n] = IF n = 0 THEN 0 ELSE f[n-1] + numbers[n]
    <3>1. CASE n = 0
      BY <2>2, <3>1 DEF IsRun
    <3>2. CASE n # 0
      <4>1. n \in 1..Len(numbers) /\ n - 1 \in 0..Len(numbers)
        BY <3>2
      <4>2. f[n] = g[<<n, f[n-1]>>]
        BY <2>2, <3>2 DEF IsRun
      <4> QED BY <3>2, <4>1, <4>2 DEF g
    <3> QED BY <3>1, <3>2
  <2>4. f = [n \in 0..Len(numbers) |-> IF n = 0 THEN 0 ELSE f[n-1] + numbers[n]]
    BY <2>3
  <2> QED BY <2>4 DEF SumsUp
<1>2. SumsUp(h, numbers)
  BY <1>1
<1>3. Trace!Total(numbers) = h[Len(numbers)]
  BY DEF Trace!Total, SumsUp
<1> HIDE DEF h
<1>4. h \in [0..Len(numbers) -> Nat]
  <2> DEFINE Good == {n \in 0..Len(numbers) : h[n] \in Nat}
  <2>1. 0 \in Good
    BY <1>2 DEF SumsUp
  <2>2. ASSUME NEW n \in 1..Len(numbers), n - 1 \in Good PROVE n \in Good
    <3>1. h[n] = h[n-1] + numbers[n]
      BY <1>2 DEF SumsUp
    <3>2. numbers[n] \in Nat /\ h[n-1] \in Nat /\ n \in 0..Len(numbers)
      BY <2>2
    <3> QED BY <3>1, <3>2
  <2>3. \A n \in 0..Len(numbers) : n \in Good
    <3>1. Len(numbers) \in Nat
      OBVIOUS
    <3> HIDE DEF Good
    <3> QED BY <2>1, <2>2, <3>1, Upwards
  <2>4. h = [n \in 0..Len(numbers) |-> h[n]]
    BY <1>2 DEF SumsUp
  <2> QED BY <2>3, <2>4
<1> QED BY <1>2, <1>3, <1>4

\* One number more, and without the first.
LEMMA TotalOfAppend ==
    ASSUME NEW numbers \in Seq(Nat), NEW more \in Seq(Nat), Len(more) = Len(numbers) + 1,
           \A i \in 1..Len(numbers) : more[i] = numbers[i]
    PROVE  Trace!Total(more) = Trace!Total(numbers) + more[Len(more)]
<1>1. PICK f \in [0..Len(numbers) -> Nat] : SumsUp(f, numbers) /\ Trace!Total(numbers) = f[Len(numbers)]
  BY TotalIs
<1>2. PICK e \in [0..Len(more) -> Nat] : SumsUp(e, more) /\ Trace!Total(more) = e[Len(more)]
  BY TotalIs
<1> DEFINE Good == {n \in 0..Len(numbers) : e[n] = f[n]}
<1>3. 0 \in Good
  BY <1>1, <1>2 DEF SumsUp
<1>4. ASSUME NEW n \in 1..Len(numbers), n - 1 \in Good PROVE n \in Good
  <2>1. e[n] = e[n-1] + more[n] /\ f[n] = f[n-1] + numbers[n]
    <3>1. n \in 0..Len(more) /\ n \in 0..Len(numbers) /\ n # 0
      OBVIOUS
    <3> QED BY <1>1, <1>2, <3>1 DEF SumsUp
  <2>2. e[n-1] = f[n-1] /\ more[n] = numbers[n] /\ n \in 0..Len(numbers)
    BY <1>4
  <2> QED BY <2>1, <2>2
<1>5. Len(numbers) \in Good
  <2>1. Len(numbers) \in Nat /\ Len(numbers) \in 0..Len(numbers)
    OBVIOUS
  <2> HIDE DEF Good
  <2> QED BY <1>3, <1>4, <2>1, Upwards
<1>6. e[Len(more)] = e[Len(numbers)] + more[Len(more)]
  BY <1>2 DEF SumsUp
<1> QED BY <1>1, <1>2, <1>5, <1>6

LEMMA TotalOfRest ==
    ASSUME NEW numbers \in Seq(Nat), NEW rest \in Seq(Nat), Len(numbers) = Len(rest) + 1,
           \A i \in 1..Len(rest) : rest[i] = numbers[i+1]
    PROVE  Trace!Total(rest) = Trace!Total(numbers) - numbers[1]
<1>1. PICK f \in [0..Len(numbers) -> Nat] : SumsUp(f, numbers) /\ Trace!Total(numbers) = f[Len(numbers)]
  BY TotalIs
<1>2. PICK e \in [0..Len(rest) -> Nat] : SumsUp(e, rest) /\ Trace!Total(rest) = e[Len(rest)]
  BY TotalIs
<1> DEFINE Good == {n \in 0..Len(rest) : e[n] = f[n+1] - numbers[1]}
<1>3. 0 \in Good
  <2>1. f[0] = 0 /\ f[1] = f[0] + numbers[1] /\ e[0] = 0
    BY <1>1, <1>2 DEF SumsUp
  <2> QED BY <2>1
<1>4. ASSUME NEW n \in 1..Len(rest), n - 1 \in Good PROVE n \in Good
  <2>1. e[n] = e[n-1] + rest[n]
    <3>1. n \in 0..Len(rest) /\ n # 0
      OBVIOUS
    <3> QED BY <1>2, <3>1 DEF SumsUp
  <2>2. n + 1 \in 0..Len(numbers) /\ n + 1 # 0 /\ n + 1 - 1 = n
    OBVIOUS
  <2>3. f[n+1] = f[n+1-1] + numbers[n+1]
    BY <1>1, <2>2 DEF SumsUp
  <2>4. e[n-1] = f[n] - numbers[1] /\ rest[n] = numbers[n+1]
    BY <1>4
  <2>5. e[n-1] \in Nat /\ f[n] \in Nat
    <3>1. n - 1 \in 0..Len(rest) /\ n \in 0..Len(numbers)
      OBVIOUS
    <3> QED BY <1>1, <1>2, <3>1
  <2>6. numbers[1] \in Nat /\ numbers[n+1] \in Nat
    OBVIOUS
  <2>7. f[n+1] = f[n] + numbers[n+1]
    BY <2>2, <2>3
  <2>8. e[n] = f[n+1] - numbers[1]
    BY <2>1, <2>4, <2>5, <2>6, <2>7
  <2> QED BY <2>8
<1>5. Len(rest) \in Good
  <2>1. Len(rest) \in Nat /\ Len(rest) \in 0..Len(rest)
    OBVIOUS
  <2> HIDE DEF Good
  <2> QED BY <1>3, <1>4, <2>1, Upwards
<1> QED BY <1>1, <1>2, <1>5

-----------------------------------------------------------------------------
(* The lines the trace keeps                                               *)

Counting == [missing : BOOLEAN, added : Nat, removed : Nat, changed : Nat]
Line == [kind : {"step"}, seq : Nat, parts : Nat \cup {None}, diff : Counting \cup {None}] \cup {Trace!Header}
Weights(text) == [i \in DOMAIN text |-> Trace!Bytes(text[i])]

\* The text is what is left of the lines, and the size its size.
Log == [lines : Seq(Line), start : Nat, text : Seq(Line), size : Nat]
Kept(L) ==
    /\ L \in Log /\ Len(L.lines) = L.start + Len(L.text)
    /\ \A i \in 1..Len(L.text) : L.text[i] = L.lines[L.start + i]
    /\ L.size = Trace!Total(Weights(L.text))

\* s is t without some of its first lines.
EndOf(s, t) == \E d \in Nat : Len(t) = Len(s) + d /\ \A i \in 1..Len(s) : s[i] = t[i + d]

LEMMA WeightsAre ==
    ASSUME NEW text \in Seq(Line)
    PROVE  /\ Weights(text) \in Seq(Nat) /\ Len(Weights(text)) = Len(text)
           /\ \A i \in 1..Len(text) : Weights(text)[i] = Trace!Bytes(text[i])
BY DEF Weights, Trace!Bytes

LEMMA Appended ==
    ASSUME NEW S, NEW s \in Seq(S), NEW e \in S
    PROVE  /\ Append(s, e) \in Seq(S) /\ Len(Append(s, e)) = Len(s) + 1 /\ Len(s) \in Nat
           /\ \A i \in 1..Len(s) : Append(s, e)[i] = s[i]
           /\ Append(s, e)[Len(s) + 1] = e
OBVIOUS

LEMMA WithoutFirst ==
    ASSUME NEW S, NEW s \in Seq(S), s # <<>>
    PROVE  /\ Tail(s) \in Seq(S) /\ Len(s) = Len(Tail(s)) + 1 /\ Len(Tail(s)) \in Nat
           /\ \A i \in 1..Len(Tail(s)) : Tail(s)[i] = s[i+1]
           /\ s[1] \in S
OBVIOUS

LEMMA FromOn ==
    ASSUME NEW S, NEW s \in Seq(S), NEW m \in Nat, NEW n \in Nat, Len(s) = m + n
    PROVE  /\ SubSeq(s, m + 1, Len(s)) \in Seq(S) /\ Len(SubSeq(s, m + 1, Len(s))) = n
           /\ \A i \in 1..n : SubSeq(s, m + 1, Len(s))[i] = s[m + i]
OBVIOUS

\* A line more at the end of lines and text.
Grown(L, line) ==
    [L EXCEPT !.lines = Append(@, line), !.text = Append(@, line), !.size = @ + Trace!Bytes(line)]
LEMMA GrownIs ==
    ASSUME NEW L \in Log, NEW line \in Line
    PROVE  /\ Grown(L, line).lines = Append(L.lines, line) /\ Grown(L, line).text = Append(L.text, line)
           /\ Grown(L, line).start = L.start /\ Grown(L, line).size = L.size + Trace!Bytes(line)
           /\ Grown(L, line) \in Log
<1>1. /\ L.lines \in Seq(Line) /\ L.text \in Seq(Line) /\ L.start \in Nat /\ L.size \in Nat
      /\ Append(L.lines, line) \in Seq(Line) /\ Append(L.text, line) \in Seq(Line)
      /\ L.size + Trace!Bytes(line) \in Nat
  BY DEF Log, Trace!Bytes
<1> QED BY <1>1 DEF Grown, Log

LEMMA GrownKeeps ==
    ASSUME NEW L, Kept(L), NEW line \in Line
    PROVE  Kept(Grown(L, line)) /\ Grown(L, line).text = Append(L.text, line)
<1> DEFINE M == Grown(L, line)
<1>1. /\ L \in Log /\ L.lines \in Seq(Line) /\ L.text \in Seq(Line) /\ L.start \in Nat
      /\ Len(L.lines) = L.start + Len(L.text) /\ L.size = Trace!Total(Weights(L.text))
      /\ \A i \in 1..Len(L.text) : L.text[i] = L.lines[L.start + i]
  BY DEF Kept, Log
<1>2. /\ M.lines = Append(L.lines, line) /\ M.text = Append(L.text, line)
      /\ M.start = L.start /\ M.size = L.size + Trace!Bytes(line) /\ M \in Log
  BY <1>1, GrownIs
<1> HIDE DEF M
<1>3. /\ Len(L.text) \in Nat /\ Len(M.text) = Len(L.text) + 1 /\ M.text[Len(L.text) + 1] = line
      /\ \A i \in 1..Len(L.text) : M.text[i] = L.text[i]
  BY <1>1, <1>2, Appended
<1>4. /\ Len(L.lines) \in Nat /\ Len(M.lines) = Len(L.lines) + 1 /\ M.lines[Len(L.lines) + 1] = line
      /\ \A i \in 1..Len(L.lines) : M.lines[i] = L.lines[i]
  BY <1>1, <1>2, Appended
<1>5. ASSUME NEW i \in 1..Len(M.text) PROVE M.text[i] = M.lines[M.start + i]
  <2>1. CASE i = Len(L.text) + 1
    BY <1>1, <1>2, <1>3, <1>4, <2>1, SMTT(20)
  <2>2. CASE i # Len(L.text) + 1
    <3>1. i \in 1..Len(L.text) /\ L.start + i \in 1..Len(L.lines)
      BY <1>1, <1>3, <2>2
    <3>2. L.text[i] = L.lines[L.start + i]
      BY <1>1, <3>1
    <3> QED BY <1>2, <1>3, <1>4, <3>1, <3>2
  <2> QED BY <2>1, <2>2
<1>6. M.size = Trace!Total(Weights(M.text))
  <2>1. M.text \in Seq(Line)
    BY <1>2 DEF Log
  <2>2. /\ Weights(L.text) \in Seq(Nat) /\ Len(Weights(L.text)) = Len(L.text)
        /\ \A i \in 1..Len(L.text) : Weights(L.text)[i] = Trace!Bytes(L.text[i])
    BY <1>1, WeightsAre
  <2>3. /\ Weights(M.text) \in Seq(Nat) /\ Len(Weights(M.text)) = Len(M.text)
        /\ \A i \in 1..Len(M.text) : Weights(M.text)[i] = Trace!Bytes(M.text[i])
    BY <2>1, WeightsAre
  <2>4. Len(Weights(M.text)) = Len(Weights(L.text)) + 1
    BY <1>3, <2>2, <2>3
  <2>5. \A i \in 1..Len(Weights(L.text)) : Weights(M.text)[i] = Weights(L.text)[i]
    BY <1>3, <2>2, <2>3
  <2>6. Trace!Total(Weights(M.text)) = Trace!Total(Weights(L.text)) + Weights(M.text)[Len(Weights(M.text))]
    BY <2>2, <2>3, <2>4, <2>5, TotalOfAppend
  <2>7. Weights(M.text)[Len(Weights(M.text))] = Trace!Bytes(line)
    BY <1>3, <2>3
  <2> QED BY <1>1, <1>2, <2>6, <2>7
<1>7. Len(M.lines) = M.start + Len(M.text)
  BY <1>1, <1>2, <1>3, <1>4
<1>8. Kept(M) /\ M.text = Append(L.text, line)
  BY <1>2, <1>5, <1>6, <1>7 DEF Kept
<1> QED BY <1>8 DEF M

\* dropOldest drops the first line of the text, whatever becomes of the array.
Moved(L) ==
    [L EXCEPT !.start = @ + 1, !.size = @ - Trace!Bytes(L.lines[L.start + 1]), !.text = Tail(@)]
Cut(L) == [L EXCEPT !.lines = SubSeq(@, L.start + 1, Len(@)), !.start = 0]

LEMMA MovedIs ==
    ASSUME NEW L \in Log, Tail(L.text) \in Seq(Line), L.size - Trace!Bytes(L.lines[L.start + 1]) \in Nat
    PROVE  /\ Moved(L).lines = L.lines /\ Moved(L).text = Tail(L.text) /\ Moved(L).start = L.start + 1
           /\ Moved(L).size = L.size - Trace!Bytes(L.lines[L.start + 1])
           /\ Moved(L) \in Log
<1>1. L.lines \in Seq(Line) /\ L.text \in Seq(Line) /\ L.start + 1 \in Nat /\ L.size \in Nat
  BY DEF Log
<1> QED BY <1>1 DEF Moved, Log

LEMMA MovedKeeps ==
    ASSUME NEW L, Kept(L), L.text # <<>>
    PROVE  Kept(Moved(L)) /\ Moved(L).text = Tail(L.text)
<1> DEFINE M == Moved(L)
           rest == Tail(L.text)
<1>1. /\ L \in Log /\ L.lines \in Seq(Line) /\ L.text \in Seq(Line) /\ L.start \in Nat
      /\ Len(L.lines) = L.start + Len(L.text) /\ L.size = Trace!Total(Weights(L.text))
      /\ \A i \in 1..Len(L.text) : L.text[i] = L.lines[L.start + i]
  BY DEF Kept, Log
<1>2. /\ rest \in Seq(Line) /\ Len(L.text) = Len(rest) + 1 /\ Len(rest) \in Nat
      /\ \A i \in 1..Len(rest) : rest[i] = L.text[i+1]
  BY <1>1, WithoutFirst
<1> HIDE DEF rest, M
<1>3. L.text[1] = L.lines[L.start + 1]
  BY <1>1, <1>2
<1>4. L.size - Trace!Bytes(L.lines[L.start + 1]) = Trace!Total(Weights(rest)) /\ Trace!Total(Weights(rest)) \in Nat
  <2>1. /\ Weights(L.text) \in Seq(Nat) /\ Len(Weights(L.text)) = Len(L.text)
        /\ \A i \in 1..Len(L.text) : Weights(L.text)[i] = Trace!Bytes(L.text[i])
    BY <1>1, WeightsAre
  <2>2. /\ Weights(rest) \in Seq(Nat) /\ Len(Weights(rest)) = Len(rest)
        /\ \A i \in 1..Len(rest) : Weights(rest)[i] = Trace!Bytes(rest[i])
    BY <1>2, WeightsAre
  <2>3. Len(Weights(L.text)) = Len(Weights(rest)) + 1
    BY <1>2, <2>1, <2>2
  <2>4. ASSUME NEW i \in 1..Len(Weights(rest)) PROVE Weights(rest)[i] = Weights(L.text)[i+1]
    <3>1. i \in 1..Len(rest) /\ i + 1 \in 1..Len(L.text)
      BY <1>2, <2>2
    <3> QED BY <1>2, <2>1, <2>2, <3>1
  <2>5. Trace!Total(Weights(rest)) = Trace!Total(Weights(L.text)) - Weights(L.text)[1]
    BY <2>1, <2>2, <2>3, <2>4, TotalOfRest
  <2>6. Weights(L.text)[1] = Trace!Bytes(L.lines[L.start + 1])
    BY <1>2, <1>3, <2>1
  <2>7. Trace!Total(Weights(rest)) \in Nat
    BY <2>2, TotalIs
  <2> QED BY <1>1, <2>5, <2>6, <2>7
<1>5. /\ M.lines = L.lines /\ M.text = rest /\ M.start = L.start + 1 /\ M.size = Trace!Total(Weights(rest))
      /\ M \in Log
  BY <1>1, <1>2, <1>4, MovedIs DEF M, rest
<1>6. Len(M.lines) = M.start + Len(M.text)
  <2>1. L.start \in Nat /\ Len(rest) \in Nat /\ Len(L.lines) = L.start + (Len(rest) + 1)
    BY <1>1, <1>2
  <2>2. L.start + (Len(rest) + 1) = (L.start + 1) + Len(rest)
    BY <2>1
  <2> QED BY <1>5, <2>1, <2>2
<1>7. ASSUME NEW i \in 1..Len(M.text) PROVE M.text[i] = M.lines[M.start + i]
  <2>1. i \in 1..Len(rest) /\ i + 1 \in 1..Len(L.text) /\ L.start + (i + 1) = M.start + i
    <3>1. i \in 1..Len(rest) /\ M.start = L.start + 1
      BY <1>5
    <3>2. L.start \in Nat /\ Len(rest) \in Nat /\ Len(L.text) = Len(rest) + 1
      BY <1>1, <1>2
    <3>3. L.start + (i + 1) = (L.start + 1) + i /\ i + 1 \in 1..Len(rest) + 1
      BY <3>1, <3>2
    <3> QED BY <3>1, <3>2, <3>3
  <2>2. L.text[i+1] = L.lines[L.start + (i + 1)]
    BY <1>1, <2>1
  <2> QED BY <1>2, <1>5, <2>1, <2>2
<1>8. Kept(M)
  BY <1>5, <1>6, <1>7 DEF Kept
<1> QED BY <1>5, <1>8 DEF M, rest

LEMMA CutIs ==
    ASSUME NEW L \in Log, SubSeq(L.lines, L.start + 1, Len(L.lines)) \in Seq(Line)
    PROVE  /\ Cut(L).lines = SubSeq(L.lines, L.start + 1, Len(L.lines)) /\ Cut(L).text = L.text
           /\ Cut(L).start = 0 /\ Cut(L).size = L.size /\ Cut(L) \in Log
<1>1. L.lines \in Seq(Line) /\ L.text \in Seq(Line) /\ L.start \in Nat /\ L.size \in Nat
  BY DEF Log
<1> QED BY <1>1 DEF Cut, Log

LEMMA CutKeeps ==
    ASSUME NEW L, Kept(L)
    PROVE  Kept(Cut(L)) /\ Cut(L).text = L.text
<1> DEFINE M == Cut(L)
           rest == SubSeq(L.lines, L.start + 1, Len(L.lines))
<1>1. /\ L \in Log /\ L.lines \in Seq(Line) /\ L.text \in Seq(Line) /\ L.start \in Nat /\ Len(L.text) \in Nat
      /\ Len(L.lines) = L.start + Len(L.text) /\ L.size = Trace!Total(Weights(L.text))
      /\ \A i \in 1..Len(L.text) : L.text[i] = L.lines[L.start + i]
  BY DEF Kept, Log
<1>2. /\ rest \in Seq(Line) /\ Len(rest) = Len(L.text)
      /\ \A i \in 1..Len(L.text) : rest[i] = L.lines[L.start + i]
  BY <1>1, FromOn, ZenonT(40)
<1> HIDE DEF M, rest
<1>3. M.lines = rest /\ M.text = L.text /\ M.start = 0 /\ M.size = L.size /\ M \in Log
  BY <1>1, <1>2, CutIs DEF M, rest
<1>4. Len(M.lines) = M.start + Len(M.text)
  BY <1>1, <1>2, <1>3
<1>5. ASSUME NEW i \in 1..Len(M.text) PROVE M.text[i] = M.lines[M.start + i]
  <2>1. i \in 1..Len(L.text) /\ M.start + i = i
    BY <1>1, <1>3
  <2> QED BY <1>1, <1>2, <1>3, <2>1
<1>6. Kept(M)
  BY <1>1, <1>3, <1>4, <1>5 DEF Kept
<1> QED BY <1>3, <1>6 DEF M

LEMMA DropKeeps ==
    ASSUME NEW L, Kept(L), L.text # <<>>
    PROVE  Kept(Trace!DropOldest(L)) /\ Trace!DropOldest(L).text = Tail(L.text)
<1>1. Trace!DropOldest(L) \in {Moved(L), Cut(Moved(L))}
  BY DEF Trace!DropOldest, Moved, Cut
<1> QED BY <1>1, MovedKeeps, CutKeeps

LEMMA TailIsEnd ==
    ASSUME NEW s \in Seq(Line), NEW t \in Seq(Line), EndOf(s, t), s # <<>>
    PROVE  EndOf(Tail(s), t)
<1>1. PICK d \in Nat : Len(t) = Len(s) + d /\ \A i \in 1..Len(s) : s[i] = t[i + d]
  BY DEF EndOf
<1>2. Len(s) = Len(Tail(s)) + 1 /\ Len(Tail(s)) \in Nat /\ \A i \in 1..Len(Tail(s)) : Tail(s)[i] = s[i+1]
  BY WithoutFirst
<1>3. Len(t) = Len(Tail(s)) + (d + 1)
  BY <1>1, <1>2
<1>4. ASSUME NEW i \in 1..Len(Tail(s)) PROVE Tail(s)[i] = t[i + (d + 1)]
  <2>1. i + 1 \in 1..Len(s) /\ (i + 1) + d = i + (d + 1)
    BY <1>2
  <2> QED BY <1>1, <1>2, <2>1
<1>5. d + 1 \in Nat
  OBVIOUS
<1> QED BY <1>3, <1>4, <1>5 DEF EndOf

\* What trim does at each turn of its loop.
Shorter(L) == IF Trace!TooLong(L) THEN Trace!DropOldest(L) ELSE L
IsTrim(h, L) == h = [n \in 0..Len(L.lines) |-> IF n = 0 THEN L ELSE Shorter(h[n-1])]

LEMMA SizeIs == ASSUME NEW L, Kept(L) PROVE Trace!Size(L) = Len(L.text) /\ Len(L.text) \in Nat
<1>1. L.start \in Nat /\ L.text \in Seq(Line) /\ Len(L.lines) = L.start + Len(L.text)
  BY DEF Kept, Log
<1>2. Len(L.text) \in Nat
  BY <1>1
<1> QED BY <1>1, <1>2 DEF Trace!Size

LEMMA TooLongHasLines == ASSUME NEW L, Kept(L), Trace!TooLong(L) PROVE Len(L.text) > 0 /\ L.text # <<>>
<1>1. Trace!Size(L) = Len(L.text) /\ Len(L.text) \in Nat
  BY SizeIs
<1>2. Len(L.text) > 0
  BY <1>1, TraceAssumption DEF Trace!TooLong
<1> QED BY <1>2

LEMMA ShorterKeeps ==
    ASSUME NEW L, Kept(L)
    PROVE  /\ Kept(Shorter(L))
           /\ \/ Shorter(L) = L /\ ~Trace!TooLong(L)
              \/ L.text # <<>> /\ Shorter(L).text = Tail(L.text)
BY DropKeeps, TooLongHasLines DEF Shorter

LEMMA TrimKeeps ==
    ASSUME NEW L, Kept(L)
    PROVE  LET M == Trace!Trim(L) IN Kept(M) /\ ~Trace!TooLong(M) /\ EndOf(M.text, L.text)
<1> DEFINE n == Len(L.lines)
           S == {M \in Log : Kept(M)}
           g == [p \in (1..n) \X S |-> Shorter(p[2])]
           h == CHOOSE f : IsTrim(f, L)
<1>1. n \in Nat /\ L \in S /\ L.text \in Seq(Line) /\ Len(L.text) \in Nat /\ Len(L.text) <= n
  BY DEF Kept, Log
<1>2. g \in [(1..n) \X S -> S]
  <2>1. ASSUME NEW M \in S PROVE Shorter(M) \in S
    BY ShorterKeeps DEF Kept
  <2> QED BY <2>1
<1>3. \E f : IsTrim(f, L)
  <2>1. ASSUME NEW p \in (1..n) \X S PROVE g[p] = Shorter(p[2])
    OBVIOUS
  <2> HIDE DEF n, S, g
  <2>2. PICK f \in [0..n -> S] : IsRun(f, L, n, g)
    BY <1>1, <1>2, StepByStep
  <2>3. ASSUME NEW i \in 0..n PROVE f[i] = IF i = 0 THEN L ELSE Shorter(f[i-1])
    <3>1. CASE i = 0
      BY <2>2, <3>1 DEF IsRun
    <3>2. CASE i # 0
      <4>1. i \in 1..n /\ i - 1 \in 0..n
        BY <1>1, <3>2
      <4>2. f[i] = g[<<i, f[i-1]>>] /\ <<i, f[i-1]>> \in (1..n) \X S
        BY <2>2, <3>2, <4>1 DEF IsRun
      <4> QED BY <2>1, <3>2, <4>2
    <3> QED BY <3>1, <3>2
  <2>4. f = [i \in 0..n |-> f[i]]
    BY <2>2
  <2>5. f = [i \in 0..n |-> IF i = 0 THEN L ELSE Shorter(f[i-1])]
    BY <2>3, <2>4
  <2> QED BY <2>5 DEF IsTrim, n
<1>4. IsTrim(h, L)
  BY <1>3
<1>5. Trace!Trim(L) = h[n]
  BY DEF Trace!Trim, IsTrim, Shorter
<1> HIDE DEF h
<1>6. /\ h[0] = L
      /\ \A i \in 1..n : h[i] = Shorter(h[i-1])
  <2>1. h = [i \in 0..n |-> IF i = 0 THEN L ELSE Shorter(h[i-1])]
    BY <1>4 DEF IsTrim
  <2> HIDE DEF n, S, g
  <2>2. 0 \in 0..n /\ \A i \in 1..n : i \in 0..n /\ i # 0
    BY <1>1
  <2> QED BY <2>1, <2>2, Zenon
<1> DEFINE Right(i) == /\ Kept(h[i]) /\ EndOf(h[i].text, L.text)
                       /\ ~Trace!TooLong(h[i]) \/ Len(h[i].text) <= n - i
           Good == {i \in 0..n : Right(i)}
<1> HIDE DEF n, S, g
<1>7. 0 \in Good
  <2>1. EndOf(L.text, L.text)
    BY <1>1 DEF EndOf
  <2> QED BY <1>1, <1>6, <2>1 DEF S
<1>8. ASSUME NEW i \in 1..n, i - 1 \in Good PROVE i \in Good
  <2> DEFINE M == h[i-1]
  <2>1. Kept(M) /\ EndOf(M.text, L.text) /\ M.text \in Seq(Line)
    BY <1>8 DEF Kept, Log
  <2>2. ~Trace!TooLong(M) \/ Len(M.text) <= n - (i - 1)
    BY <1>8
  <2>3. h[i] = Shorter(M)
    BY <1>6
  <2> HIDE DEF M
  <2>4. CASE Shorter(M) = M /\ ~Trace!TooLong(M)
    BY <1>1, <2>1, <2>3, <2>4
  <2>5. CASE ~(Shorter(M) = M /\ ~Trace!TooLong(M))
    <3>1. M.text # <<>> /\ Shorter(M).text = Tail(M.text) /\ Kept(Shorter(M))
      BY <2>1, <2>5, ShorterKeeps
    <3>2. EndOf(Tail(M.text), L.text)
      BY <1>1, <2>1, <3>1, TailIsEnd
    <3>3. Len(M.text) = Len(Tail(M.text)) + 1 /\ Len(Tail(M.text)) \in Nat
      BY <2>1, <3>1, WithoutFirst
    <3>4. ~Trace!TooLong(Shorter(M)) \/ Len(Tail(M.text)) <= n - i
      <4>1. CASE Trace!TooLong(M)
        BY <1>1, <2>2, <3>3, <4>1
      <4>2. CASE ~Trace!TooLong(M)
        BY <2>5, <4>2 DEF Shorter
      <4> QED BY <4>1, <4>2
    <3>5. Kept(h[i]) /\ EndOf(h[i].text, L.text) /\ (~Trace!TooLong(h[i]) \/ Len(h[i].text) <= n - i)
      BY <2>3, <3>1, <3>2, <3>4
    <3>6. i \in 0..n
      BY <1>1
    <3> QED BY <3>5, <3>6
  <2> QED BY <2>4, <2>5
<1>9. n \in Good
  <2>1. n \in 0..n
    BY <1>1
  <2> HIDE DEF Good
  <2> QED BY <1>1, <1>7, <1>8, <2>1, Upwards
<1>10. ~Trace!TooLong(h[n])
  <2>1. Kept(h[n]) /\ (~Trace!TooLong(h[n]) \/ Len(h[n].text) <= n - n)
    BY <1>9
  <2> HIDE DEF Good
  <2> QED BY <1>1, <2>1, TooLongHasLines, SizeIs
<1> QED BY <1>5, <1>9, <1>10

LEMMA AppendKeeps ==
    ASSUME NEW L, Kept(L), NEW line \in Line
    PROVE  LET M == Trace!Append1(L, line)
           IN  Kept(M) /\ ~Trace!TooLong(M) /\ EndOf(M.text, Append(L.text, line))
<1>1. Trace!Append1(L, line) = Trace!Trim(Grown(L, line))
  BY DEF Trace!Append1, Grown
<1> QED BY <1>1, GrownKeeps, TrimKeeps

-----------------------------------------------------------------------------
(* What the steps of the trace say                                         *)

IsStep(line) == line.kind = "step"
HasState(line) == line.kind = "step" /\ line.parts # None
HasDiff(line) == line.kind = "step" /\ line.diff # None

\* The second line's diff leads from the first line's state to its own.
Follows(a, b) ==
    b.parts = IF b.diff = None THEN a.parts
              ELSE (IF b.diff.missing THEN 0 ELSE a.parts) + b.diff.added - b.diff.removed

\* The steps are numbered up to the last one recorded.
Numbered(text, seq) == \A i \in 1..Len(text) : IsStep(text[i]) => text[i].seq = seq - Len(text) + i
\* A diff comes with a state; each state follows the one before it; the last
\* one is that of the revision recorded last.
Full(text) == \A i \in 1..Len(text) : HasDiff(text[i]) => HasState(text[i])
NoneBetween(text, i, j) == \A k \in 1..Len(text) : HasState(text[k]) => k <= i \/ j <= k
Chained(text) ==
    \A i, j \in 1..Len(text) :
        HasState(text[i]) /\ HasState(text[j]) /\ i < j /\ NoneBetween(text, i, j)
        => Follows(text[i], text[j])
LastState(text, i) ==
    i \in 1..Len(text) /\ HasState(text[i]) /\ \A k \in 1..Len(text) : HasState(text[k]) => k <= i
Shows(line, revision) ==
    revision \in Revision
    /\ \A o \in Outline : Digest[o] = revision => line.parts = Cardinality(Trace!Parts(o))
Linked(text, revision) == \A i \in 1..Len(text) : LastState(text, i) => Shows(text[i], revision)

\* An end of the text says the same.
LEMMA EndSays ==
    ASSUME NEW s \in Seq(Line), NEW t \in Seq(Line), EndOf(s, t), NEW seq \in Nat, NEW revision
    PROVE  /\ Numbered(t, seq) => Numbered(s, seq)
           /\ Full(t) => Full(s)
           /\ Chained(t) => Chained(s)
           /\ Linked(t, revision) => Linked(s, revision)
<1>1. PICK d \in Nat : Len(t) = Len(s) + d /\ \A i \in 1..Len(s) : s[i] = t[i + d]
  BY DEF EndOf
<1>2. Len(s) \in Nat
  OBVIOUS
<1>3. \A i \in 1..Len(s) : i + d \in 1..Len(t)
  BY <1>1, <1>2
<1>4. \A k \in 1..Len(t) : k <= d \/ (k - d \in 1..Len(s) /\ s[k - d] = t[k])
  BY <1>1, <1>2
<1>5. ASSUME Numbered(t, seq) PROVE Numbered(s, seq)
  <2>1. ASSUME NEW i \in 1..Len(s), IsStep(s[i]) PROVE s[i].seq = seq - Len(s) + i
    <3>1. s[i].seq = seq - Len(t) + (i + d)
      BY <1>1, <1>3, <1>5, <2>1 DEF Numbered
    <3> QED BY <1>1, <1>2, <3>1
  <2> QED BY <2>1 DEF Numbered
<1>6. ASSUME Full(t) PROVE Full(s)
  BY <1>1, <1>3, <1>6 DEF Full
<1>7. ASSUME Chained(t) PROVE Chained(s)
  <2>1. ASSUME NEW i \in 1..Len(s), NEW j \in 1..Len(s), HasState(s[i]), HasState(s[j]), i < j, NoneBetween(s, i, j)
        PROVE  Follows(s[i], s[j])
    <3>1. NoneBetween(t, i + d, j + d)
      <4>1. ASSUME NEW k \in 1..Len(t), HasState(t[k]) PROVE k <= i + d \/ j + d <= k
        <5>1. CASE k <= d
          BY <5>1
        <5>2. CASE k - d \in 1..Len(s) /\ s[k - d] = t[k]
          <6>1. k - d <= i \/ j <= k - d
            BY <2>1, <4>1, <5>2 DEF NoneBetween
          <6> QED BY <6>1
        <5> QED BY <1>4, <5>1, <5>2
      <4> QED BY <4>1 DEF NoneBetween
    <3>2. i + d \in 1..Len(t) /\ j + d \in 1..Len(t) /\ i + d < j + d /\ s[i] = t[i + d] /\ s[j] = t[j + d]
      BY <1>1, <1>3, <2>1
    <3> QED BY <1>7, <2>1, <3>1, <3>2 DEF Chained
  <2> QED BY <2>1 DEF Chained
<1>8. ASSUME Linked(t, revision) PROVE Linked(s, revision)
  <2>1. ASSUME NEW i \in 1..Len(s), LastState(s, i) PROVE Shows(s[i], revision)
    <3>1. ASSUME NEW k \in 1..Len(t), HasState(t[k]) PROVE k <= i + d
      <4>1. CASE k <= d
        BY <4>1
      <4>2. CASE k - d \in 1..Len(s) /\ s[k - d] = t[k]
        <5>1. k - d <= i
          BY <2>1, <3>1, <4>2 DEF LastState
        <5> QED BY <5>1
      <4> QED BY <1>4, <4>1, <4>2
    <3>2. i + d \in 1..Len(t) /\ s[i] = t[i + d] /\ HasState(s[i])
      BY <1>1, <1>3, <2>1 DEF LastState
    <3>3. LastState(t, i + d)
      BY <3>1, <3>2 DEF LastState
    <3> QED BY <1>8, <3>2, <3>3 DEF Linked
  <2> QED BY <2>1 DEF Linked
<1> QED BY <1>5, <1>6, <1>7, <1>8

\* A step recorded at the end of the text.
LEMMA StepSays ==
    ASSUME NEW t \in Seq(Line), NEW line \in Line, IsStep(line), NEW seq \in Nat, NEW revision
    PROVE  /\ Numbered(t, seq) /\ line.seq = seq + 1 => Numbered(Append(t, line), seq + 1)
           /\ Full(t) /\ (HasDiff(line) => HasState(line)) => Full(Append(t, line))
           /\ Chained(t) /\ (HasState(line) => \A i \in 1..Len(t) : LastState(t, i) => Follows(t[i], line))
              => Chained(Append(t, line))
           /\ ~HasState(line) /\ Linked(t, revision) => Linked(Append(t, line), revision)
           /\ HasState(line) /\ Shows(line, revision) => Linked(Append(t, line), revision)
<1> DEFINE s == Append(t, line)
           n == Len(t) + 1
<1>1. Len(t) \in Nat /\ Len(s) = n /\ s[n] = line /\ n \in 1..n /\ (\A i \in 1..Len(t) : s[i] = t[i] /\ i \in 1..n)
      /\ \A i \in 1..n : i = n \/ i \in 1..Len(t)
  OBVIOUS
<1> HIDE DEF s
<1>2. ASSUME Numbered(t, seq), line.seq = seq + 1 PROVE Numbered(s, seq + 1)
  <2>1. ASSUME NEW i \in 1..n, IsStep(s[i]) PROVE s[i].seq = (seq + 1) - n + i
    <3>1. CASE i = n
      BY <1>1, <1>2, <3>1
    <3>2. CASE i \in 1..Len(t)
      <4>1. t[i].seq = seq - Len(t) + i
        BY <1>1, <1>2, <2>1, <3>2 DEF Numbered
      <4>2. (seq + 1) - n + i = seq - Len(t) + i
        BY <1>1
      <4> QED BY <1>1, <3>2, <4>1, <4>2
    <3> QED BY <1>1, <3>1, <3>2
  <2> QED BY <1>1, <2>1 DEF Numbered
<1>3. ASSUME Full(t), HasDiff(line) => HasState(line) PROVE Full(s)
  BY <1>1, <1>3 DEF Full
<1>4. ASSUME Chained(t), HasState(line) => \A i \in 1..Len(t) : LastState(t, i) => Follows(t[i], line)
      PROVE  Chained(s)
  <2>1. ASSUME NEW i \in 1..n, NEW j \in 1..n, HasState(s[i]), HasState(s[j]), i < j, NoneBetween(s, i, j)
        PROVE  Follows(s[i], s[j])
    <3>1. i \in 1..Len(t) /\ s[i] = t[i]
      BY <1>1, <2>1
    <3>2. CASE j = n
      <4>1. \A k \in 1..Len(t) : HasState(t[k]) => k <= i
        BY <1>1, <2>1, <3>2 DEF NoneBetween
      <4>2. LastState(t, i)
        BY <2>1, <3>1, <4>1 DEF LastState
      <4> QED BY <1>1, <1>4, <2>1, <3>1, <3>2, <4>2
    <3>3. CASE j \in 1..Len(t)
      <4>1. NoneBetween(t, i, j)
        BY <1>1, <2>1 DEF NoneBetween
      <4> QED BY <1>1, <1>4, <2>1, <3>1, <3>3, <4>1 DEF Chained
    <3> QED BY <1>1, <3>2, <3>3
  <2> QED BY <1>1, <2>1 DEF Chained
<1>5. ASSUME ~HasState(line), Linked(t, revision) PROVE Linked(s, revision)
  <2>1. ASSUME NEW i \in 1..n, LastState(s, i) PROVE Shows(s[i], revision)
    <3>1. i \in 1..Len(t) /\ s[i] = t[i]
      BY <1>1, <1>5, <2>1 DEF LastState
    <3>2. LastState(t, i)
      BY <1>1, <2>1, <3>1 DEF LastState
    <3> QED BY <1>5, <3>1, <3>2 DEF Linked
  <2> QED BY <1>1, <2>1 DEF Linked
<1>6. ASSUME HasState(line), Shows(line, revision) PROVE Linked(s, revision)
  <2>1. ASSUME NEW i \in 1..n, LastState(s, i) PROVE Shows(s[i], revision)
    <3>1. n <= i
      BY <1>1, <1>6, <2>1 DEF LastState
    <3>2. i = n
      BY <1>1, <3>1
    <3> QED BY <1>1, <1>6, <3>2
  <2> QED BY <1>1, <2>1 DEF Linked
<1> QED BY <1>2, <1>3, <1>4, <1>5, <1>6 DEF s

\* So does a header, in an empty text.
LEMMA HeaderSays ==
    ASSUME NEW seq, NEW revision, NEW s \in Seq(Line), EndOf(s, Append(<<>>, Trace!Header))
    PROVE  /\ Numbered(s, seq) /\ Full(s) /\ Chained(s) /\ Linked(s, revision)
           /\ \A i \in 1..Len(s) : ~HasState(s[i])
<1>1. ASSUME NEW i \in 1..Len(s) PROVE s[i] = Trace!Header
  BY DEF EndOf
<1>2. ASSUME NEW i \in 1..Len(s) PROVE ~IsStep(s[i]) /\ ~HasState(s[i]) /\ ~HasDiff(s[i])
  BY <1>1 DEF Trace!Header, IsStep, HasState, HasDiff
<1> QED BY <1>2 DEF Numbered, Full, Chained, Linked, LastState

-----------------------------------------------------------------------------
(* The recorder                                                            *)

\* The trace tracks its snapshots in the very store the clients' calls use.
LEMMA SameStore ==
    /\ \A s, x : Trace!Revisions!Track(s, x) = Track(s, x)
    /\ \A s, r : Trace!Revisions!Cached(s, r) <=> Cached(s, r)
    /\ \A x : Trace!Revisions!HashSnapshot(x) = HashSnapshot(x)
    /\ Trace!Revisions!EmptyStore = EmptyStore /\ Trace!Revisions!Snapshot = Snapshot
BY DEF Trace!Revisions!Track, Track, Trace!Revisions!Remember, Remember, Trace!Revisions!Put, Put,
       Trace!Revisions!Drop, Drop, Trace!Revisions!Cached, Cached, Trace!Revisions!HashSnapshot, HashSnapshot,
       Trace!Revisions!EmptyStore, EmptyStore, Trace!Revisions!Snapshot, Snapshot

\* ... and counts with the very same operator.
LEMMA SameCardinality == \A S : Trace!Cardinality(S) = Cardinality(S)
BY Zenon DEF Trace!Cardinality, Cardinality

\* The parts of an outline are finitely many.
LEMMA PartsAreFinite ==
    ASSUME NEW o \in Outline
    PROVE  IsFiniteSet(Trace!Parts(o)) /\ Cardinality(Trace!Parts(o)) \in Nat
<1>1. IsFiniteSet(DOMAIN o) /\ Trace!Parts(o) \subseteq DOMAIN o
  BY TraceAssumption DEF Trace!Parts
<1> QED BY <1>1, FS_Subset, FS_CardinalityType

\* Between two finite sets, what is added less what is removed.
LEMMA AddedLessRemoved ==
    ASSUME NEW A, NEW B, IsFiniteSet(A), IsFiniteSet(B)
    PROVE  /\ Cardinality(B \ A) \in Nat /\ Cardinality(A \ B) \in Nat
           /\ Cardinality(B) = Cardinality(A) + Cardinality(B \ A) - Cardinality(A \ B)
<1>1. /\ IsFiniteSet(A \ B) /\ Cardinality(A \ B) = Cardinality(A) - Cardinality(A \cap B)
      /\ IsFiniteSet(B \ A) /\ Cardinality(B \ A) = Cardinality(B) - Cardinality(B \cap A)
  BY FS_Difference
<1>2. Cardinality(A \cap B) = Cardinality(B \cap A)
  <2>1. A \cap B = B \cap A
    OBVIOUS
  <2> QED BY <2>1
<1>3. IsFiniteSet(A \cap B)
  BY FS_Subset
<1>4. /\ Cardinality(A) \in Nat /\ Cardinality(B) \in Nat /\ Cardinality(A \cap B) \in Nat
      /\ Cardinality(A \ B) \in Nat /\ Cardinality(B \ A) \in Nat
  BY <1>1, <1>3, FS_CardinalityType
<1> QED BY <1>1, <1>2, <1>4

\* What Counts counts.
LEMMA CountsAre ==
    ASSUME NEW missing \in BOOLEAN, NEW before, NEW after \in Outline, IsFiniteSet(Trace!Parts(before))
    PROVE  LET d == Trace!Counts(missing, before, after)
           IN  /\ d \in Counting /\ d.missing = missing
               /\ Cardinality(Trace!Parts(after)) = Cardinality(Trace!Parts(before)) + d.added - d.removed
<1> DEFINE A == Trace!Parts(before)
           B == Trace!Parts(after)
           C == {k \in A \cap B : before[k] # after[k]}
<1>1. IsFiniteSet(B)
  BY PartsAreFinite
<1>2. Cardinality(C) \in Nat
  <2>1. C \subseteq A
    OBVIOUS
  <2> HIDE DEF C
  <2> QED BY <2>1, FS_Subset, FS_CardinalityType
<1>3. /\ Cardinality(B \ A) \in Nat /\ Cardinality(A \ B) \in Nat
      /\ Cardinality(B) = Cardinality(A) + Cardinality(B \ A) - Cardinality(A \ B)
  BY <1>1, AddedLessRemoved
<1>4. Trace!Counts(missing, before, after) =
        [missing |-> missing, added |-> Cardinality(B \ A), removed |-> Cardinality(A \ B), changed |-> Cardinality(C)]
  BY SameCardinality DEF Trace!Counts
<1> HIDE DEF A, B, C
<1>5. /\ Trace!Counts(missing, before, after) \in Counting
      /\ Trace!Counts(missing, before, after).missing = missing
      /\ Trace!Counts(missing, before, after).added = Cardinality(B \ A)
      /\ Trace!Counts(missing, before, after).removed = Cardinality(A \ B)
  BY <1>2, <1>3, <1>4 DEF Counting
<1> QED BY <1>3, <1>5 DEF A, B

\* The inductive core: types, the store, the log with its steps numbered, and
\* what the file misses.
TraceInv ==
    /\ project \in Snapshot /\ store \in Store /\ Consistent(store)
    /\ recorder \in [header : BOOLEAN, seq : Nat, last : Revision \cup {None}]
    /\ Kept(log) /\ ~Trace!TooLong(log) /\ Numbered(log.text, recorder.seq) /\ Full(log.text)
    /\ ~recorder.header => log.text = <<>>
    /\ scheduler \in [pending : Nat, failed : BOOLEAN] /\ scheduler.pending < FlushEvery
    /\ file \in Nat /\ (~scheduler.failed => file >= recorder.seq - scheduler.pending)
\* ... and the states, which the diffs lead through.
StatesInv == Chained(log.text) /\ Linked(log.text, recorder.last)

\* The project's state is one the store can track.
LEMMA TrackedTrace ==
    ASSUME TraceInv
    PROVE  /\ Trace!Tracked \in Store /\ Consistent(Trace!Tracked) /\ Trace!Current \in Revision
           /\ Trace!Current = Digest[project.outline] /\ project.outline \in Outline
<1>1. Trace!Tracked = Track(store, project) /\ Trace!Current = HashSnapshot(project)
  BY SameStore DEF Trace!Tracked, Trace!Current
<1>2. project \in Snapshot /\ store \in Store /\ Consistent(store)
  BY DEF TraceInv
<1>3. project.outline \in Outline
  BY <1>2 DEF Snapshot
<1> QED BY <1>1, <1>2, <1>3, RememberKeepsConsistent, HashIsRevision DEF HashSnapshot

\* The outline a diff starts from, and what is counted from there on.
LEMMA DiffIs ==
    ASSUME TraceInv, recorder.last \notin {None, Trace!Current}
    PROVE  /\ Trace!Diff \in Counting
           /\ LET known == recorder.last \in DOMAIN Trace!Tracked.cache
                  base == Trace!Tracked.cache[recorder.last].outline
              IN  /\ known => base \in Outline /\ Digest[base] = recorder.last
                  /\ Trace!Diff.missing <=> ~known
                  /\ Cardinality(Trace!Parts(project.outline))
                     = (IF known THEN Cardinality(Trace!Parts(base)) ELSE 0) + Trace!Diff.added - Trace!Diff.removed
<1> DEFINE known == recorder.last \in DOMAIN Trace!Tracked.cache
           base == Trace!Tracked.cache[recorder.last].outline
<1>1. Trace!Tracked \in Store /\ Consistent(Trace!Tracked) /\ project.outline \in Outline
  BY TrackedTrace
<1>2. (Trace!Revisions!Cached(Trace!Tracked, recorder.last) <=> known)
  BY SameStore DEF Cached
<1>3. Trace!Diff = Trace!Counts(~known, Trace!Base, project.outline)
  BY <1>2 DEF Trace!Diff
<1>4. Trace!Base = IF known THEN base ELSE [k \in DOMAIN project.outline |-> 0]
  BY <1>2 DEF Trace!Base
<1>5. ASSUME known PROVE base \in Outline /\ Digest[base] = recorder.last
  <2>1. Trace!Tracked.cache[recorder.last] \in Snapshot
    BY <1>1, <1>5 DEF Store
  <2>2. HashSnapshot(Trace!Tracked.cache[recorder.last]) = recorder.last
    BY <1>1, <1>5 DEF Consistent
  <2> QED BY <2>1, <2>2 DEF Snapshot, HashSnapshot
<1> HIDE DEF known, base
<1>6. /\ IsFiniteSet(Trace!Parts(Trace!Base))
      /\ Cardinality(Trace!Parts(Trace!Base)) = IF known THEN Cardinality(Trace!Parts(base)) ELSE 0
  <2>1. CASE known
    BY <1>4, <1>5, <2>1, PartsAreFinite
  <2>2. CASE ~known
    <3>1. Trace!Parts(Trace!Base) = {}
      BY <1>4, <2>2 DEF Trace!Parts
    <3> QED BY <2>2, <3>1, FS_EmptySet
  <2> QED BY <2>1, <2>2
<1>7. (~known) \in BOOLEAN
  OBVIOUS
<1>8. /\ Trace!Diff \in Counting /\ Trace!Diff.missing = ~known
      /\ Cardinality(Trace!Parts(project.outline))
         = Cardinality(Trace!Parts(Trace!Base)) + Trace!Diff.added - Trace!Diff.removed
  BY <1>1, <1>3, <1>6, <1>7, CountsAre
<1> QED BY <1>5, <1>6, <1>8 DEF known, base

\* The step Record adds.
LEMMA StepIs ==
    ASSUME TraceInv, NEW open \in BOOLEAN
    PROVE  LET line == Trace!Step(open)
           IN  /\ line \in Line /\ IsStep(line) /\ line.seq = recorder.seq + 1
               /\ HasDiff(line) => HasState(line)
               /\ HasState(line) <=> open
               /\ open => line.parts = Cardinality(Trace!Parts(project.outline)) /\ line.diff = Trace!Diff
<1>1. project.outline \in Outline /\ recorder.seq \in Nat
  BY TrackedTrace DEF TraceInv
<1>2. Cardinality(Trace!Parts(project.outline)) \in Nat
  BY <1>1, PartsAreFinite
<1>3. Trace!Diff \in Counting \cup {None}
  <2>1. CASE recorder.last \in {None, Trace!Current}
    BY <2>1 DEF Trace!Diff
  <2>2. CASE recorder.last \notin {None, Trace!Current}
    BY <2>2, DiffIs
  <2> QED BY <2>1, <2>2
<1>4. Trace!Step(open) =
        [kind |-> "step", seq |-> recorder.seq + 1,
         parts |-> IF open THEN Cardinality(Trace!Parts(project.outline)) ELSE None,
         diff |-> IF open THEN Trace!Diff ELSE None]
  BY SameCardinality DEF Trace!Step
<1>5. Trace!Step(open) \in Line
  BY <1>1, <1>2, <1>3, <1>4 DEF Line
<1>6. /\ Trace!Step(open).kind = "step" /\ Trace!Step(open).seq = recorder.seq + 1
      /\ Trace!Step(open).parts = IF open THEN Cardinality(Trace!Parts(project.outline)) ELSE None
      /\ Trace!Step(open).diff = IF open THEN Trace!Diff ELSE None
  BY <1>4
<1>7. None \notin Nat
  BY TraceAssumption
<1> QED BY <1>2, <1>5, <1>6, <1>7 DEF IsStep, HasState, HasDiff

\* A diff leads from the last state to the new one, evicted or not.
LEMMA StepFollows ==
    ASSUME TraceInv, StatesInv, OutlinesDiffer
    PROVE  /\ \A i \in 1..Len(log.text) : LastState(log.text, i) => Follows(log.text[i], Trace!Step(TRUE))
           /\ Shows(Trace!Step(TRUE), Trace!Current)
<1> DEFINE line == Trace!Step(TRUE)
<1>1. /\ Trace!Current \in Revision /\ Trace!Current = Digest[project.outline] /\ project.outline \in Outline
      /\ line.parts = Cardinality(Trace!Parts(project.outline)) /\ line.diff = Trace!Diff
  BY TrackedTrace, StepIs
<1> HIDE DEF line
<1>2. Shows(line, Trace!Current)
  BY <1>1 DEF Shows, OutlinesDiffer
<1>3. ASSUME NEW i \in 1..Len(log.text), LastState(log.text, i) PROVE Follows(log.text[i], line)
  <2>1. Shows(log.text[i], recorder.last)
    BY <1>3 DEF StatesInv, Linked
  <2>2. recorder.last # None
    BY <2>1, TraceAssumption DEF Shows
  <2>3. CASE recorder.last = Trace!Current
    <3>1. line.diff = None
      BY <1>1, <2>3 DEF Trace!Diff
    <3>2. log.text[i].parts = Cardinality(Trace!Parts(project.outline))
      BY <1>1, <2>1, <2>3 DEF Shows
    <3> QED BY <1>1, <3>1, <3>2 DEF Follows
  <2>4. CASE recorder.last # Trace!Current
    <3> DEFINE known == recorder.last \in DOMAIN Trace!Tracked.cache
               base == Trace!Tracked.cache[recorder.last].outline
    <3>1. /\ Trace!Diff \in Counting
          /\ known => base \in Outline /\ Digest[base] = recorder.last
          /\ Trace!Diff.missing <=> ~known
          /\ Cardinality(Trace!Parts(project.outline))
             = (IF known THEN Cardinality(Trace!Parts(base)) ELSE 0) + Trace!Diff.added - Trace!Diff.removed
      BY <2>2, <2>4, DiffIs
    <3> HIDE DEF known, base
    <3>2. known => log.text[i].parts = Cardinality(Trace!Parts(base))
      BY <2>1, <3>1 DEF Shows
    <3>3. line.diff # None
      <4>1. Trace!Diff # None
        BY <3>1, TraceAssumption DEF Counting
      <4> QED BY <1>1, <4>1
    <3> QED BY <1>1, <3>1, <3>2, <3>3 DEF Follows
  <2> QED BY <2>3, <2>4
<1> QED BY <1>2, <1>3 DEF line

-----------------------------------------------------------------------------
(* Every step of the trace keeps the invariant                             *)

\* The log a step is added to: a log without a header gets one.
Started == IF recorder.header THEN log ELSE Trace!Append1(log, Trace!Header)

LEMMA StartedIs ==
    ASSUME TraceInv
    PROVE  /\ Kept(Started) /\ Numbered(Started.text, recorder.seq) /\ Full(Started.text)
           /\ StatesInv => Chained(Started.text) /\ Linked(Started.text, recorder.last)
           /\ Started = log \/ \A i \in 1..Len(Started.text) : ~HasState(Started.text[i])
<1>1. CASE recorder.header
  BY <1>1 DEF Started, TraceInv, StatesInv
<1>2. CASE ~recorder.header
  <2>1. Kept(log) /\ log.text = <<>>
    BY <1>2 DEF TraceInv
  <2>2. Trace!Header \in Line
    BY DEF Line
  <2>3. Started = Trace!Append1(log, Trace!Header)
    BY <1>2 DEF Started
  <2>4. Kept(Started) /\ EndOf(Started.text, Append(<<>>, Trace!Header))
    BY <2>1, <2>2, <2>3, AppendKeeps
  <2>5. Started.text \in Seq(Line)
    BY <2>4 DEF Kept, Log
  <2> QED BY <2>4, <2>5, HeaderSays
<1> QED BY <1>1, <1>2

LEMMA RecordedKeeps ==
    ASSUME TraceInv, Trace!Recorded(recorder.seq + 1)
    PROVE  /\ scheduler' \in [pending : Nat, failed : BOOLEAN] /\ scheduler'.pending < FlushEvery
           /\ file' \in Nat /\ (~scheduler'.failed => file' >= (recorder.seq + 1) - scheduler'.pending)
<1>1. /\ scheduler \in [pending : Nat, failed : BOOLEAN] /\ scheduler.pending < FlushEvery
      /\ file \in Nat /\ (~scheduler.failed => file >= recorder.seq - scheduler.pending)
      /\ recorder.seq \in Nat
  BY DEF TraceInv
<1>2. CASE Trace!Flush(recorder.seq + 1)
  <2>1. PICK fails \in BOOLEAN :
            /\ Trace!Write(recorder.seq + 1, fails) /\ scheduler' = [pending |-> 0, failed |-> fails]
    BY <1>2 DEF Trace!Flush
  <2>2. file' \in Nat /\ (~fails => file' = recorder.seq + 1)
    BY <1>1, <2>1 DEF Trace!Write
  <2> QED BY <1>1, <2>1, <2>2, TraceAssumption
<1>3. CASE /\ FALSE \in Trace!Flushes(scheduler.pending + 1)
           /\ scheduler' = [scheduler EXCEPT !.pending = @ + 1] /\ UNCHANGED file
  <2>1. ~(scheduler.pending + 1 >= FlushEvery)
    BY <1>3 DEF Trace!Flushes
  <2>2. /\ scheduler'.pending = scheduler.pending + 1 /\ scheduler'.failed = scheduler.failed
        /\ scheduler' \in [pending : Nat, failed : BOOLEAN] /\ file' = file
    BY <1>1, <1>3
  <2>3. scheduler.pending \in Nat /\ FlushEvery \in Nat
    BY <1>1, TraceAssumption
  <2> QED BY <1>1, <2>1, <2>2, <2>3
<1> QED BY <1>2, <1>3 DEF Trace!Recorded

LEMMA RecordKeeps ==
    ASSUME TraceInv, NEW open \in BOOLEAN, Trace!Record(open)
    PROVE  TraceInv' /\ (OutlinesDiffer /\ StatesInv => StatesInv')
<1> DEFINE line == Trace!Step(open)
<1>1. /\ line \in Line /\ IsStep(line) /\ line.seq = recorder.seq + 1
      /\ (HasDiff(line) => HasState(line)) /\ (HasState(line) <=> open)
  BY StepIs
<1>2. /\ recorder' = [header |-> TRUE, seq |-> recorder.seq + 1,
                      last |-> IF open THEN Trace!Current ELSE recorder.last]
      /\ log' = Trace!Append1(Started, line)
      /\ store' = IF open THEN Trace!Tracked ELSE store
      /\ project' = project
  BY DEF Trace!Record, Trace!NextBase, Started
<1> HIDE DEF line
<1>3. /\ recorder.seq \in Nat /\ recorder.last \in Revision \cup {None}
      /\ recorder.header \in BOOLEAN /\ Trace!Current \in Revision
  BY TrackedTrace DEF TraceInv
<1>4. /\ recorder' \in [header : BOOLEAN, seq : Nat, last : Revision \cup {None}]
      /\ recorder'.header = TRUE /\ recorder'.seq = recorder.seq + 1
      /\ recorder'.last = IF open THEN Trace!Current ELSE recorder.last
  BY <1>2, <1>3
<1>5. /\ Kept(Started) /\ Started.text \in Seq(Line)
      /\ Numbered(Started.text, recorder.seq) /\ Full(Started.text)
  BY StartedIs DEF Kept, Log
<1> DEFINE t == Append(Started.text, line)
<1>6. t \in Seq(Line)
  BY <1>1, <1>5
<1>7. Kept(log') /\ ~Trace!TooLong(log') /\ EndOf(log'.text, t) /\ log'.text \in Seq(Line)
  BY <1>1, <1>2, <1>5, AppendKeeps DEF Kept, Log
<1>8. Numbered(t, recorder.seq + 1) /\ Full(t)
  BY <1>1, <1>3, <1>5, StepSays
<1> HIDE DEF t
<1>9. Numbered(log'.text, recorder.seq + 1) /\ Full(log'.text)
  <2>1. recorder.seq + 1 \in Nat
    BY <1>3
  <2> QED BY <1>6, <1>7, <1>8, <2>1, EndSays
<1>10. TraceInv'
  <2>1. project' \in Snapshot /\ store' \in Store /\ Consistent(store')
    BY <1>2, TrackedTrace DEF TraceInv
  <2>2. Trace!Recorded(recorder.seq + 1)
    BY <1>4 DEF Trace!Record
  <2>3. /\ scheduler' \in [pending : Nat, failed : BOOLEAN] /\ scheduler'.pending < FlushEvery
        /\ file' \in Nat /\ (~scheduler'.failed => file' >= (recorder.seq + 1) - scheduler'.pending)
    BY <2>2, RecordedKeeps
  <2> QED BY <1>4, <1>7, <1>9, <2>1, <2>3 DEF TraceInv
<1>11. ASSUME OutlinesDiffer, StatesInv PROVE StatesInv'
  <2>1. Chained(Started.text) /\ Linked(Started.text, recorder.last)
    BY <1>11, StartedIs
  <2>2. ASSUME HasState(line), NEW i \in 1..Len(Started.text), LastState(Started.text, i)
        PROVE  Follows(Started.text[i], line)
    <3>1. open /\ HasState(Started.text[i])
      BY <1>1, <2>2 DEF LastState
    <3>2. Started = log
      BY <3>1, StartedIs
    <3> QED BY <1>11, <2>2, <3>1, <3>2, StepFollows DEF line
  <2>3. Chained(t)
    BY <1>1, <1>3, <1>5, <2>1, <2>2, StepSays DEF t
  <2>4. Linked(t, recorder'.last)
    <3>1. CASE open
      <4>1. Shows(line, Trace!Current)
        BY <1>11, <3>1, StepFollows DEF line
      <4> QED BY <1>1, <1>3, <1>4, <1>5, <3>1, <4>1, StepSays DEF t
    <3>2. CASE ~open
      BY <1>1, <1>3, <1>4, <1>5, <2>1, <3>2, StepSays DEF t
    <3> QED BY <3>1, <3>2
  <2>5. Chained(log'.text) /\ Linked(log'.text, recorder'.last)
    BY <1>3, <1>6, <1>7, <2>3, <2>4, EndSays
  <2> QED BY <2>5 DEF StatesInv
<1> QED BY <1>10, <1>11

\* A trace that has just been started.
NoLog == [lines |-> <<>>, start |-> 0, text |-> <<>>, size |-> 0]
LEMMA NoLogSays ==
    /\ Kept(NoLog) /\ ~Trace!TooLong(NoLog)
    /\ \A seq : Numbered(NoLog.text, seq) /\ Full(NoLog.text) /\ Chained(NoLog.text)
    /\ \A revision : Linked(NoLog.text, revision)
<1>1. NoLog \in Log /\ NoLog.text = <<>> /\ NoLog.lines = <<>> /\ NoLog.start = 0 /\ NoLog.size = 0
  BY DEF NoLog, Log
<1>2. Trace!Total(Weights(NoLog.text)) = 0
  <2>1. Weights(NoLog.text) \in Seq(Nat) /\ Len(Weights(NoLog.text)) = 0
    BY <1>1, WeightsAre DEF Log
  <2>2. PICK f \in [0..Len(Weights(NoLog.text)) -> Nat] :
            SumsUp(f, Weights(NoLog.text)) /\ Trace!Total(Weights(NoLog.text)) = f[Len(Weights(NoLog.text))]
    BY <2>1, TotalIs
  <2> QED BY <2>1, <2>2 DEF SumsUp
<1>3. Kept(NoLog)
  BY <1>1, <1>2 DEF Kept
<1>4. ~Trace!TooLong(NoLog)
  BY <1>1, <1>3, TooLongHasLines
<1> QED BY <1>1, <1>3, <1>4 DEF Numbered, Full, Chained, Linked

LEMMA TraceInit == Trace!Init => TraceInv /\ StatesInv
<1> SUFFICES ASSUME Trace!Init PROVE TraceInv /\ StatesInv
  OBVIOUS
<1>1. /\ project \in Snapshot /\ store = EmptyStore /\ log = NoLog
      /\ recorder = [header |-> FALSE, seq |-> 0, last |-> None]
      /\ scheduler = [pending |-> 0, failed |-> TRUE] /\ file = 0
  BY SameStore DEF Trace!Init, NoLog
<1>2. log.text = <<>>
  BY <1>1 DEF NoLog
<1>3. StatesInv
  BY <1>1, NoLogSays DEF StatesInv
<1>4. Kept(log) /\ ~Trace!TooLong(log) /\ Numbered(log.text, recorder.seq) /\ Full(log.text)
  BY <1>1, NoLogSays
<1>5. store \in Store /\ Consistent(store)
  BY <1>1, EmptyStoreConsistent
<1> QED BY <1>1, <1>2, <1>3, <1>4, <1>5, TraceAssumption DEF TraceInv

LEMMA ReloadKeeps ==
    ASSUME TraceInv, Trace!Reload
    PROVE  TraceInv' /\ StatesInv'
<1>1. /\ project' = project /\ store' = EmptyStore /\ log' = NoLog
      /\ recorder' = [header |-> FALSE, seq |-> 0, last |-> None]
      /\ scheduler' = [pending |-> 0, failed |-> TRUE]
  BY SameStore DEF Trace!Reload, NoLog
<1>2. log'.text = <<>>
  BY <1>1 DEF NoLog
<1>3. StatesInv'
  BY <1>1, NoLogSays DEF StatesInv
<1>4. Kept(log') /\ ~Trace!TooLong(log') /\ Numbered(log'.text, recorder'.seq) /\ Full(log'.text)
  BY <1>1, NoLogSays
<1>5. store' \in Store /\ Consistent(store')
  BY <1>1, EmptyStoreConsistent
<1>6. file' \in Nat
  BY DEF Trace!Reload, Trace!Write, TraceInv
<1>7. project' \in Snapshot
  BY <1>1 DEF TraceInv
<1> QED BY <1>1, <1>2, <1>3, <1>4, <1>5, <1>6, <1>7, TraceAssumption DEF TraceInv

LEMMA ChangesKeep ==
    ASSUME TraceInv, Trace!Changes
    PROVE  TraceInv' /\ (StatesInv => StatesInv')
<1>1. /\ project' \in Snapshot /\ store' \in {store, Track(store, project')}
      /\ UNCHANGED <<log, recorder, scheduler, file>>
  BY SameStore DEF Trace!Changes
<1>2. store' \in Store /\ Consistent(store')
  BY <1>1, RememberKeepsConsistent DEF TraceInv
<1> QED BY <1>1, <1>2 DEF TraceInv, StatesInv

LEMMA ExportKeeps ==
    ASSUME TraceInv, Trace!ExportTraceLog
    PROVE  TraceInv' /\ (StatesInv => StatesInv')
<1>1. UNCHANGED <<project, store, log, recorder, scheduler>> /\ file' = recorder.seq
  BY DEF Trace!ExportTraceLog, Trace!Write
<1>2. recorder.seq >= recorder.seq - scheduler.pending /\ recorder.seq \in Nat
  BY DEF TraceInv
<1> QED BY <1>1, <1>2 DEF TraceInv, StatesInv

LEMMA TraceHolds == MCSpec => [](part = "trace" => TraceInv)
<1>1. MCInit => (part = "trace" => TraceInv)
  BY TraceInit DEF MCInit
<1>2. (part = "trace" => TraceInv) /\ [MCNext]_pvars => (part = "trace" => TraceInv)'
  <2> SUFFICES ASSUME part = "trace", TraceInv, [MCNext]_pvars PROVE TraceInv'
    BY DEF MCNext, pvars
  <2>1. CASE UNCHANGED pvars
    BY <2>1 DEF pvars, vars, tvars, TraceInv
  <2>2. CASE Trace!Next
    BY <2>2, RecordKeeps, ExportKeeps, ReloadKeeps, ChangesKeep DEF Trace!Next
  <2> QED BY <2>1, <2>2 DEF MCNext
<1> QED BY <1>1, <1>2, PTL DEF MCSpec

LEMMA StatesHold == ASSUME OutlinesDiffer PROVE MCSpec => [](part = "trace" => StatesInv)
<1>1. MCInit => (part = "trace" => StatesInv)
  BY TraceInit DEF MCInit
<1>2. (part = "trace" => TraceInv) /\ (part = "trace" => StatesInv) /\ [MCNext]_pvars => (part = "trace" => StatesInv)'
  <2> SUFFICES ASSUME part = "trace", TraceInv, StatesInv, [MCNext]_pvars PROVE StatesInv'
    BY DEF MCNext, pvars
  <2>1. CASE UNCHANGED pvars
    BY <2>1 DEF pvars, vars, tvars, StatesInv
  <2>2. CASE Trace!Next
    BY <2>2, RecordKeeps, ExportKeeps, ReloadKeeps, ChangesKeep DEF Trace!Next
  <2> QED BY <2>1, <2>2 DEF MCNext
<1> QED BY <1>1, <1>2, TraceHolds, PTL DEF MCSpec

\* The log is the end of what was recorded, without a gap and within its
\* bounds, and the file misses no more than the scheduler means it to, for
\* every limit and whatever is evicted, flushed and reloaded.
THEOREM TraceIsATail == MCSpec => []LogIsATail
<1>1. TraceInv => Trace!LogIsATail
  <2> SUFFICES ASSUME TraceInv PROVE Trace!LogIsATail
    OBVIOUS
  <2>1. /\ log.lines \in Seq(Line) /\ log.text \in Seq(Line) /\ log.start \in Nat
        /\ Len(log.lines) = log.start + Len(log.text) /\ log.size = Trace!Total(Weights(log.text)) /\ log.size \in Nat
        /\ \A i \in 1..Len(log.text) : log.text[i] = log.lines[log.start + i]
    BY DEF TraceInv, Kept, Log
  <2>2. log.text = SubSeq(log.lines, log.start + 1, Len(log.lines))
    <3> DEFINE u == SubSeq(log.lines, log.start + 1, Len(log.lines))
    <3>1. /\ u \in Seq(Line) /\ Len(u) = Len(log.text)
          /\ \A i \in 1..Len(log.text) : u[i] = log.lines[log.start + i]
      <4>1. Len(log.text) \in Nat
        BY <2>1
      <4> QED BY <2>1, <4>1, FromOn, ZenonT(40)
    <3> HIDE DEF u
    <3>2. \A i \in 1..Len(log.text) : u[i] = log.text[i]
      BY <2>1, <3>1
    <3>3. u = log.text
      BY <2>1, <3>1, <3>2, SeqEqual
    <3> QED BY <3>3 DEF u
  <2>3. log.size = Trace!Total([i \in DOMAIN log.text |-> Trace!Bytes(log.text[i])])
    BY <2>1 DEF Weights
  <2>4. Trace!Size(log) <= MaxEntries /\ (log.size <= MaxBytes \/ Trace!Size(log) <= MinEntries)
    <3>1. Trace!Size(log) \in Nat /\ ~Trace!TooLong(log)
      BY SizeIs DEF TraceInv
    <3> QED BY <2>1, <3>1, TraceAssumption DEF Trace!TooLong
  <2>5. \A i \in Trace!Steps(log.text) : log.text[i].seq = recorder.seq - Len(log.text) + i
    <3>1. DOMAIN log.text = 1..Len(log.text) /\ Numbered(log.text, recorder.seq)
      BY <2>1 DEF TraceInv
    <3> QED BY <3>1 DEF Numbered, IsStep, Trace!Steps
  <2>6. scheduler.pending < FlushEvery /\ (~scheduler.failed => file >= recorder.seq - scheduler.pending)
    BY DEF TraceInv
  <2> QED BY <2>2, <2>3, <2>4, <2>5, <2>6 DEF Trace!LogIsATail
<1> QED BY <1>1, TraceHolds, PTL DEF LogIsATail

\* The numbers the report sums up.
Numbers(text, field) == [i \in DOMAIN text |-> IF HasDiff(text[i]) THEN text[i].diff[field] ELSE 0]
LEMMA NumbersAre ==
    ASSUME NEW text \in Seq(Line), NEW field \in {"added", "removed"}
    PROVE  /\ Numbers(text, field) \in Seq(Nat) /\ Len(Numbers(text, field)) = Len(text)
           /\ \A i \in 1..Len(text) :
                 Numbers(text, field)[i] = IF HasDiff(text[i]) THEN text[i].diff[field] ELSE 0
           /\ Trace!Sum(text, field) = Trace!Total(Numbers(text, field))
<1>1. ASSUME NEW line \in Line, HasDiff(line) PROVE line.diff[field] \in Nat
  <2>1. line \in [kind : {"step"}, seq : Nat, parts : Nat \cup {None}, diff : Counting \cup {None}]
    BY <1>1 DEF Line, HasDiff, Trace!Header
  <2>2. line.diff \in Counting
    BY <1>1, <2>1 DEF HasDiff
  <2> QED BY <2>2 DEF Counting
<1>2. ASSUME NEW i \in 1..Len(text)
      PROVE  (IF HasDiff(text[i]) THEN text[i].diff[field] ELSE 0) \in Nat
  <2>1. text[i] \in Line
    OBVIOUS
  <2> QED BY <1>1, <2>1
<1>3. DOMAIN text = 1..Len(text) /\ Len(text) \in Nat
  OBVIOUS
<1>4. /\ Numbers(text, field) \in [1..Len(text) -> Nat]
      /\ \A i \in 1..Len(text) : Numbers(text, field)[i] = IF HasDiff(text[i]) THEN text[i].diff[field] ELSE 0
  BY <1>2, <1>3 DEF Numbers
<1>5. Trace!Sum(text, field) = Trace!Total(Numbers(text, field))
  <2>1. \A i \in DOMAIN text : (i \in Trace!Diffs(text)) <=> HasDiff(text[i])
    BY DEF Trace!Diffs, Trace!Steps, HasDiff
  <2>2. [i \in DOMAIN text |-> IF i \in Trace!Diffs(text) THEN text[i].diff[field] ELSE 0] = Numbers(text, field)
    BY <2>1 DEF Numbers
  <2> QED BY <2>2 DEF Trace!Sum
<1> QED BY <1>3, <1>4, <1>5

\* Along a text of which i is the first state and no base is missing, what is
\* added less what is removed is the way from i's state to the last one's.
LEMMA ReportAddsUp ==
    ASSUME NEW text \in Seq(Line), Full(text), Chained(text),
           NEW i \in 1..Len(text), HasState(text[i]), ~HasDiff(text[i]),
           NEW j \in 1..Len(text), LastState(text, j),
           \A k \in 1..Len(text) : HasState(text[k]) => i <= k /\ (HasDiff(text[k]) => ~text[k].diff.missing)
    PROVE  Trace!Sum(text, "added") - Trace!Sum(text, "removed") = text[j].parts - text[i].parts
<1> DEFINE n == Len(text)
           A == Numbers(text, "added")
           R == Numbers(text, "removed")
<1>1. /\ n \in Nat
      /\ A \in Seq(Nat) /\ Len(A) = n /\ R \in Seq(Nat) /\ Len(R) = n
      /\ \A k \in 1..n : A[k] = IF HasDiff(text[k]) THEN text[k].diff.added ELSE 0
      /\ \A k \in 1..n : R[k] = IF HasDiff(text[k]) THEN text[k].diff.removed ELSE 0
      /\ Trace!Sum(text, "added") = Trace!Total(A) /\ Trace!Sum(text, "removed") = Trace!Total(R)
  BY NumbersAre
<1>2. ASSUME NEW k \in 1..n, HasState(text[k]) PROVE text[k].parts \in Nat
  <2>1. text[k] \in Line
    OBVIOUS
  <2> QED BY <1>2, <2>1 DEF Line, HasState, Trace!Header
<1> HIDE DEF n, A, R
<1>3. PICK f \in [0..n -> Nat] : SumsUp(f, A) /\ Trace!Total(A) = f[n]
  BY <1>1, TotalIs
<1>4. PICK e \in [0..n -> Nat] : SumsUp(e, R) /\ Trace!Total(R) = e[n]
  BY <1>1, TotalIs
<1>5. /\ f[0] = 0 /\ e[0] = 0
      /\ \A m \in 1..n : f[m] = f[m-1] + A[m] /\ e[m] = e[m-1] + R[m]
  BY <1>1, <1>3, <1>4, SMTT(20) DEF SumsUp
<1> DEFINE Upto(m, k) == k <= m /\ HasState(text[k]) /\ NoneBetween(text, k, m + 1)
                         /\ f[m] - e[m] = text[k].parts - text[i].parts
           Right(m) == IF m < i THEN f[m] = 0 /\ e[m] = 0 ELSE \E k \in 1..n : Upto(m, k)
           Good == {m \in 0..n : Right(m)}
<1>6. 0 \in Good
  BY <1>1, <1>5
<1>7. ASSUME NEW m \in 1..n, m - 1 \in Good PROVE m \in Good
  <2>1. Right(m - 1)
    BY <1>7
  <2>2. f[m] = f[m-1] + A[m] /\ e[m] = e[m-1] + R[m]
    BY <1>5
  <2>3. f[m-1] \in Nat /\ e[m-1] \in Nat /\ A[m] \in Nat /\ R[m] \in Nat
    <3>1. m \in 1..Len(A) /\ m \in 1..Len(R) /\ m - 1 \in 0..n
      BY <1>1
    <3>2. A[m] \in Nat /\ R[m] \in Nat
      <4>1. A \in Seq(Nat) /\ R \in Seq(Nat)
        BY <1>1
      <4> QED BY <3>1, <4>1, ElementOfSeq
    <3> QED BY <1>3, <1>4, <3>1, <3>2
  <2>4. ASSUME ~HasState(text[m]) PROVE A[m] = 0 /\ R[m] = 0
    BY <1>1, <2>4 DEF Full, n
  <2>5. CASE m < i
    <3>1. ~HasState(text[m])
      BY <2>5 DEF n
    <3>2. f[m-1] = 0 /\ e[m-1] = 0
      BY <2>1, <2>5
    <3> QED BY <1>1, <2>2, <2>4, <2>5, <3>1, <3>2
  <2>6. CASE m = i
    <3>1. A[m] = 0 /\ R[m] = 0
      BY <1>1, <2>6
    <3>2. f[m-1] = 0 /\ e[m-1] = 0
      BY <2>1, <2>6
    <3>3. NoneBetween(text, i, m + 1)
      BY <2>6 DEF NoneBetween
    <3>4. text[i].parts \in Nat
      BY <1>2 DEF n
    <3>5. Upto(m, i)
      BY <2>2, <2>6, <3>1, <3>2, <3>3, <3>4
    <3> QED BY <2>6, <3>5 DEF n
  <2>7. CASE m > i
    <3>1. PICK k \in 1..n : Upto(m - 1, k)
      BY <2>1, <2>7 DEF n
    <3>2. /\ k <= m - 1 /\ HasState(text[k]) /\ NoneBetween(text, k, m)
          /\ f[m-1] - e[m-1] = text[k].parts - text[i].parts
      BY <3>1
    <3>3. text[k].parts \in Nat /\ text[i].parts \in Nat
      BY <1>2, <3>2 DEF n
    <3>4. CASE ~HasState(text[m])
      <4>1. f[m] - e[m] = text[k].parts - text[i].parts
        BY <2>2, <2>3, <2>4, <3>2, <3>4
      <4>2. NoneBetween(text, k, m + 1)
        <5>1. ASSUME NEW l \in 1..Len(text), HasState(text[l]) PROVE l <= k \/ m + 1 <= l
          <6>1. (l <= k \/ m <= l) /\ l # m
            BY <3>2, <3>4, <5>1 DEF NoneBetween
          <6> QED BY <6>1
        <5> QED BY <5>1 DEF NoneBetween
      <4>3. Upto(m, k)
        BY <3>2, <4>1, <4>2
      <4> QED BY <2>7, <4>3
    <3>5. CASE HasState(text[m])
      <4>1. Follows(text[k], text[m])
        BY <3>2, <3>5 DEF Chained, n
      <4>2. text[m].parts \in Nat
        BY <1>2, <3>5
      <4>3. f[m] - e[m] = text[m].parts - text[i].parts
        <5>1. CASE HasDiff(text[m])
          <6>1. A[m] = text[m].diff.added /\ R[m] = text[m].diff.removed
            BY <1>1, <5>1
          <6>2. ~text[m].diff.missing /\ text[m].diff # None
            BY <3>5, <5>1 DEF n, HasDiff
          <6>3. text[m].parts = text[k].parts + A[m] - R[m]
            BY <4>1, <6>1, <6>2 DEF Follows
          <6>4. f[m] - e[m] = (f[m-1] - e[m-1]) + (A[m] - R[m])
            BY <2>2, <2>3
          <6>5. text[m].parts = text[k].parts + (A[m] - R[m])
            BY <2>3, <3>3, <6>3
          <6> HIDE DEF Upto
          <6>6. (text[k].parts - text[i].parts) + (A[m] - R[m]) = (text[k].parts + (A[m] - R[m])) - text[i].parts
            BY <2>3, <3>3, SMTT(20)
          <6>7. f[m-1] - e[m-1] = text[k].parts - text[i].parts
            BY <3>2
          <6> QED BY <6>4, <6>5, <6>6, <6>7
        <5>2. CASE ~HasDiff(text[m])
          <6>1. A[m] = 0 /\ R[m] = 0
            BY <1>1, <5>2
          <6>2. text[m].diff = None
            BY <3>5, <5>2 DEF HasState, HasDiff
          <6>3. text[m].parts = text[k].parts
            BY <4>1, <6>2 DEF Follows
          <6> QED BY <2>2, <2>3, <3>2, <3>3, <6>1, <6>3
        <5> QED BY <5>1, <5>2
      <4>4. NoneBetween(text, m, m + 1)
        BY DEF NoneBetween
      <4>5. Upto(m, m)
        BY <3>5, <4>3, <4>4
      <4> QED BY <2>7, <4>5
    <3> QED BY <3>4, <3>5
  <2> QED BY <2>5, <2>6, <2>7
<1>8. n \in Good
  <2>1. n \in 0..n
    BY <1>1
  <2> HIDE DEF Good
  <2> QED BY <1>1, <1>6, <1>7, <2>1, Upwards
<1>9. PICK k \in 1..n : Upto(n, k)
  BY <1>8 DEF n
<1>10. k = j
  <2>1. k <= j /\ HasState(text[j])
    BY <1>9 DEF LastState, n
  <2>2. j <= k \/ n + 1 <= j
    BY <1>9, <2>1 DEF NoneBetween
  <2> QED BY <2>1, <2>2 DEF n
<1> QED BY <1>1, <1>3, <1>4, <1>9, <1>10

\* The diffs of the steps lead through the states they were recorded with,
\* whatever clients evict from the store and whatever the log drops, and the
\* report adds up to where they lead; as long as no two outlines have a hash.
THEOREM TraceAddsUp == ASSUME OutlinesDiffer PROVE MCSpec => []DiffsAddUp
<1>1. TraceInv /\ StatesInv => Trace!DiffsAddUp
  <2> SUFFICES ASSUME TraceInv, StatesInv PROVE Trace!DiffsAddUp
    OBVIOUS
  <2> DEFINE text == log.text
             states == Trace!States(text)
             report == Trace!Report(text)
  <2>1. text \in Seq(Line) /\ Full(text) /\ Chained(text) /\ DOMAIN text = 1..Len(text)
    BY DEF TraceInv, StatesInv, Kept, Log
  <2>2. \A k : k \in states <=> k \in 1..Len(text) /\ HasState(text[k])
    BY <2>1 DEF Trace!States, Trace!Steps, HasState
  <2>3. \A k : k \in Trace!Diffs(text) <=> k \in 1..Len(text) /\ HasDiff(text[k])
    BY <2>1 DEF Trace!Diffs, Trace!Steps, HasDiff
  <2>4. report.added = Trace!Sum(text, "added") /\ report.removed = Trace!Sum(text, "removed")
    BY DEF Trace!Report
  <2> HIDE DEF text, states, report
  <2>5. ASSUME NEW i \in states, NEW j \in states, i < j, \A k \in states : k <= i \/ j <= k
        PROVE  text[j].parts = Trace!After(text, i, j)
    <3>1. NoneBetween(text, i, j)
      BY <2>2, <2>5 DEF NoneBetween
    <3>2. Follows(text[i], text[j])
      BY <2>1, <2>2, <2>5, <3>1 DEF Chained
    <3> QED BY <3>2 DEF Follows, Trace!After, Trace!Before
  <2>6. ASSUME NEW i \in states, NEW j \in states,
               \A k \in states : i <= k /\ k <= j /\ (k \in Trace!Diffs(text) => k # i /\ ~text[k].diff.missing)
        PROVE  report.added - report.removed = text[j].parts - text[i].parts
    <3>1. i \in 1..Len(text) /\ HasState(text[i]) /\ ~HasDiff(text[i]) /\ j \in 1..Len(text)
      BY <2>2, <2>3, <2>6
    <3>2. LastState(text, j)
      BY <2>2, <2>6 DEF LastState
    <3>3. \A k \in 1..Len(text) : HasState(text[k]) => i <= k /\ (HasDiff(text[k]) => ~text[k].diff.missing)
      BY <2>2, <2>3, <2>6
    <3> QED BY <2>1, <2>4, <3>1, <3>2, <3>3, ReportAddsUp
  <2> QED BY <2>5, <2>6 DEF Trace!DiffsAddUp, text, states, report
<1> QED BY <1>1, TraceHolds, StatesHold, PTL DEF DiffsAddUp

=============================================================================
