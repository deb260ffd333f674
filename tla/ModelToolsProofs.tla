-------------------------- MODULE ModelToolsProofs --------------------------
(***************************************************************************)
(* Proofs about the bone and cube tools (ModelTools, in the behaviours of  *)
(* MCModelAndExport), for any finite set of ids, any names and any bounds: *)
(* whatever the tools and the user of Blockbench do, the outliner is a     *)
(* tree, the session mirrors it until one of four things lets the two      *)
(* differ, and the tools' answers say what happened in it.  Then about     *)
(* exports (ModelExport): what they report they have written, and the      *)
(* indices and sections of the files fit together and their keys stand for *)
(* the model's keyframes, whatever is exported.                            *)
(***************************************************************************)
EXTENDS MCModelAndExport, FiniteSetTheorems, SequenceTheorems, WellFoundedInduction, TLAPS

----------------------------------------------------------------------------
(* What is reached from a set along edges                                  *)

\* Among some natural numbers there is a least one.
LEMMA Least ==
  ASSUME NEW S \in SUBSET Nat, NEW n \in S
  PROVE  \E m \in S : \A k \in S : m <= k
<1>1. PICK m \in S : \A k \in S : ~(<<k, m>> \in OpToRel(<, Nat))
  BY WFMin, NatLessThanWellFounded, Zenon
<1>2. \A k \in S : ~(k < m)
  BY <1>1, Zenon DEF OpToRel
<1> QED BY <1>2

\* The module's cardinality is the one of this module.
LEMMA ModelCardinality == \A S : Model!Cardinality(S) = Cardinality(S)
BY DEF Model!Cardinality, Cardinality

\* One more round along the edges.
Onward(from, edges) == from \cup {e[2] : e \in {x \in edges : x[1] \in from}}
IsGrowth(g, from, edges, n) == g = [k \in 0..n |-> IF k = 0 THEN from ELSE Onward(g[k-1], edges)]

\* The rounds of Reached are defined, one after the other.
LEMMA ReachedGrows ==
  ASSUME NEW from, NEW edges, NEW rounds \in Nat
  PROVE  \E g : IsGrowth(g, from, edges, rounds) /\ Model!Reached(from, edges, rounds) = g[rounds]
<1> DEFINE Bad == {n \in Nat : ~ \E g : IsGrowth(g, from, edges, n)}
<1>1. ASSUME NEW n \in Bad PROVE FALSE
  <2>1. PICK m \in Bad : \A k \in Bad : m <= k
    <3>1. Bad \in SUBSET Nat
      OBVIOUS
    <3> HIDE DEF Bad
    <3> QED BY <1>1, <3>1, Least
  <2>2. CASE m = 0
    <3> DEFINE g == [k \in 0..0 |-> from]
    <3>1. IsGrowth(g, from, edges, 0)
      BY DEF IsGrowth
    <3> QED BY <2>1, <2>2, <3>1
  <2>3. CASE m # 0
    <3>1. m \in Nat /\ m-1 \in Nat /\ m-1 \notin Bad
      BY <2>1, <2>3
    <3>2. PICK f : IsGrowth(f, from, edges, m-1)
      BY <3>1
    <3> DEFINE g == [k \in 0..m |-> IF k = m THEN Onward(f[m-1], edges) ELSE f[k]]
    <3>3. \A k \in 0..(m-1) : g[k] = f[k]
      BY <3>1
    <3>4. ASSUME NEW k \in 0..m
          PROVE  g[k] = IF k = 0 THEN from ELSE Onward(g[k-1], edges)
      <4>1. g[m] = Onward(f[m-1], edges) /\ g[m-1] = f[m-1]
        BY <3>1, <3>3
      <4> HIDE DEF g
      <4>2. CASE k = m
        BY <2>3, <4>1, <4>2
      <4>3. CASE k # m
        <5>1. g[k] = f[k] /\ k \in 0..(m-1) /\ (k # 0 => g[k-1] = f[k-1])
          BY <3>1, <3>3, <4>3
        <5>2. f[k] = IF k = 0 THEN from ELSE Onward(f[k-1], edges)
          BY <3>2, <5>1 DEF IsGrowth
        <5> QED BY <5>1, <5>2
      <4> QED BY <4>2, <4>3
    <3>5. IsGrowth(g, from, edges, m)
      <4>1. g = [k \in 0..m |-> g[k]]
        OBVIOUS
      <4> HIDE DEF g
      <4> QED BY <3>4, <4>1 DEF IsGrowth
    <3> QED BY <2>1, <3>5
  <2> QED BY <2>2, <2>3
<1>2. \E g : IsGrowth(g, from, edges, rounds)
  BY <1>1
<1> DEFINE g == CHOOSE g : IsGrowth(g, from, edges, rounds)
<1>3. IsGrowth(g, from, edges, rounds)
  BY <1>2
<1>4. Model!Reached(from, edges, rounds) = g[rounds]
  BY DEF Model!Reached, IsGrowth, Onward
<1> QED BY <1>3, <1>4

\* The edges end in finitely many places, not more than there are rounds.
EndsIn(edges, ends, rounds) ==
    /\ IsFiniteSet(ends) /\ \A e \in edges : e[2] \in ends
    /\ rounds \in Nat /\ Cardinality(ends) <= rounds

\* The least set around a beginning that leads nowhere else.
IsClosure(reached, from, edges, ends) ==
    /\ from \subseteq reached /\ reached \subseteq from \cup ends
    /\ \A e \in edges : e[1] \in reached => e[2] \in reached
    /\ \A D : from \subseteq D /\ (\A e \in edges : e[1] \in D => e[2] \in D) => reached \subseteq D

\* As many rounds as there are ends of edges reach everything: what is reached
\* is closed, and contained in every closed set around the beginning.
LEMMA ReachedIsClosed ==
  ASSUME NEW from, NEW edges, NEW ends, NEW rounds, EndsIn(edges, ends, rounds)
  PROVE  IsClosure(Model!Reached(from, edges, rounds), from, edges, ends)
<1> DEFINE reached == Model!Reached(from, edges, rounds)
<1>0. /\ IsFiniteSet(ends) /\ \A e \in edges : e[2] \in ends
      /\ rounds \in Nat /\ Cardinality(ends) <= rounds
  BY DEF EndsIn
<1>1. PICK g : IsGrowth(g, from, edges, rounds) /\ reached = g[rounds]
  BY <1>0, ReachedGrows
<1> HIDE DEF reached
<1>2. /\ g[0] = from
      /\ \A k \in 0..rounds : k # 0 => g[k] = Onward(g[k-1], edges)
  BY <1>0, <1>1 DEF IsGrowth
<1> DEFINE New(k) == g[k] \cap (ends \ from)
           Closed(D) == \A e \in edges : e[1] \in D => e[2] \in D
           Good(k) == /\ from \subseteq g[k] /\ g[k] \subseteq from \cup ends
                      /\ Closed(g[k]) \/ Cardinality(New(k)) >= k
                      /\ \A D : from \subseteq D /\ Closed(D) => g[k] \subseteq D
           Bad == {k \in 0..rounds : ~Good(k)}
<1>3. \A k \in 0..rounds : IsFiniteSet(New(k)) /\ Cardinality(New(k)) \in Nat
  <2>1. \A k : IsFiniteSet(New(k))
    BY <1>0, FS_Subset
  <2> QED BY <2>1, FS_CardinalityType
<1>4. ASSUME NEW k \in 0..rounds PROVE Good(k)
  <2>1. SUFFICES ASSUME k \in Bad PROVE FALSE
    OBVIOUS
  <2>2. PICK m \in Bad : \A j \in Bad : m <= j
    <3>1. Bad \in SUBSET Nat
      OBVIOUS
    <3> HIDE DEF Bad
    <3> QED BY <2>1, <3>1, Least
  <2>3. m \in 0..rounds /\ ~Good(m)
    BY <2>2
  <2>4. CASE m = 0
    <3>1. Cardinality(New(0)) >= 0
      BY <1>0, <1>3
    <3> HIDE DEF New
    <3> QED BY <1>2, <2>3, <2>4, <3>1
  <2>5. CASE m # 0
    <3> DEFINE j == m - 1
    <3>1. j \in 0..rounds /\ j < m /\ m = j + 1
      BY <1>0, <2>3, <2>5
    <3>2. Good(j)
      BY <2>2, <3>1
    <3>3. g[m] = Onward(g[j], edges)
      BY <1>2, <2>3, <2>5
    <3> HIDE DEF j
    <3>4. from \subseteq g[m] /\ g[m] \subseteq from \cup ends /\ g[j] \subseteq g[m]
      <4>1. from \subseteq g[j] /\ g[j] \subseteq from \cup ends
        BY <3>2
      <4> QED BY <1>0, <3>3, <4>1 DEF Onward
    <3>5. ASSUME NEW D, from \subseteq D, Closed(D) PROVE g[m] \subseteq D
      <4>1. g[j] \subseteq D
        BY <3>2, <3>5
      <4> QED BY <3>3, <3>5, <4>1 DEF Onward
    <3>6. Closed(g[m]) \/ Cardinality(New(m)) >= m
      <4>1. CASE Closed(g[j])
        <5>1. g[m] = g[j]
          BY <3>3, <4>1 DEF Onward
        <5> QED BY <4>1, <5>1
      <4>2. CASE ~Closed(g[j])
        <5>1. PICK e \in edges : e[1] \in g[j] /\ e[2] \notin g[j]
          BY <4>2
        <5>2. e[2] \in New(m) /\ e[2] \notin New(j) /\ New(j) \subseteq New(m)
          <6>1. from \subseteq g[j]
            BY <3>2
          <6> QED BY <3>3, <3>4, <5>1, <6>1 DEF Onward
        <5>3. Cardinality(New(j)) >= j
          BY <3>2, <4>2
        <5>4. Cardinality(New(j)) < Cardinality(New(m))
          <6>1. IsFiniteSet(New(m)) /\ IsFiniteSet(New(j)) /\ Cardinality(New(j)) \in Nat /\ Cardinality(New(m)) \in Nat
            BY <1>3, <2>3, <3>1
          <6> HIDE DEF New
          <6>2. Cardinality(New(j)) <= Cardinality(New(m)) /\ (Cardinality(New(j)) = Cardinality(New(m)) => New(j) = New(m))
            BY <5>2, <6>1, FS_Subset
          <6> QED BY <5>2, <6>1, <6>2
        <5>5. Cardinality(New(j)) \in Nat /\ Cardinality(New(m)) \in Nat
          BY <1>3, <2>3, <3>1
        <5> HIDE DEF New
        <5> QED BY <3>1, <5>3, <5>4, <5>5
      <4> QED BY <4>1, <4>2
    <3> HIDE DEF New
    <3> QED BY <2>3, <3>4, <3>5, <3>6
  <2> QED BY <2>4, <2>5
<1>5. Good(rounds)
  <2> HIDE DEF Good
  <2> QED BY <1>0, <1>4
<1>6. Closed(g[rounds])
  <2> SUFFICES ASSUME NEW e \in edges, e[1] \in g[rounds], e[2] \notin g[rounds] PROVE FALSE
    OBVIOUS
  <2>1. rounds \in 0..rounds /\ Cardinality(New(rounds)) >= rounds
    BY <1>0, <1>5
  <2>2. e[2] \in ends /\ e[2] \notin New(rounds) /\ New(rounds) \subseteq ends
    BY <1>0
  <2>3. Cardinality(New(rounds)) \in Nat /\ Cardinality(ends) \in Nat
    BY <1>0, <1>3, <2>1, FS_CardinalityType
  <2> HIDE DEF New
  <2>4. Cardinality(New(rounds)) <= Cardinality(ends) /\ (Cardinality(New(rounds)) = Cardinality(ends) => New(rounds) = ends)
    BY <1>0, <2>2, FS_Subset
  <2> QED BY <1>0, <2>1, <2>2, <2>3, <2>4
<1> HIDE DEF New
<1>7. IsClosure(reached, from, edges, ends)
  BY <1>1, <1>5, <1>6 DEF IsClosure
<1> QED BY <1>7 DEF reached

----------------------------------------------------------------------------
(* The outliner as a forest                                                *)

Groups(ed) == {n \in DOMAIN ed : ed[n].kind = "group"}
Cubes(ed) == {n \in DOMAIN ed : ed[n].kind = "cube"}

\* What the group of a node is called; a cube outside every group is told to be
\* in "root".
HomeName(ed, n) ==
    IF ed[n].in # Top THEN ed[ed[n].in].name
    ELSE IF ed[n].kind = "cube" THEN "root" ELSE None

\* Nodes hang in groups or at the top level, and no set of nodes hangs only in
\* itself: the first-order form of "every chain of parents ends at the top".
Forest(ed) ==
    /\ DOMAIN ed \subseteq Node
    /\ \A n \in DOMAIN ed : ed[n] \in [kind : {"group", "cube"}, name : Name, in : Groups(ed) \cup {Top}]
    /\ \A S \in SUBSET DOMAIN ed : S # {} => \E n \in S : ed[n].in \notin S

\* With a node, everything in it is in the set.
ClosedBelow(ed, C) == \A m \in DOMAIN ed : ed[m].in \in C => m \in C

SessionType == [active : BOOLEAN, bones : SUBSET Model!Bone, cubes : SUBSET Model!Cube]

\* The top level is no node, and nothing is no node.
LEMMA TopIsNoNode == Top \notin Node /\ None \notin Node /\ None \notin Name /\ Top \notin Name
BY ModelAssumption

\* A new node in a group, or at the top level, leaves a forest.
LEMMA PlaceNew ==
  ASSUME NEW ed, Forest(ed), NEW n \in Node \ DOMAIN ed, NEW kind \in {"group", "cube"},
         NEW name \in Name, NEW at \in Groups(ed) \cup {Top}
  PROVE  Forest(Model!Place(ed, n, [kind |-> kind, name |-> name, in |-> at]))
<1> DEFINE new == Model!Place(ed, n, [kind |-> kind, name |-> name, in |-> at])
<1>1. /\ DOMAIN new = DOMAIN ed \cup {n}
      /\ new[n] = [kind |-> kind, name |-> name, in |-> at]
      /\ \A m \in DOMAIN ed : new[m] = ed[m]
  BY DEF Model!Place
<1> HIDE DEF new
<1>2. Groups(ed) \subseteq Groups(new)
  BY <1>1 DEF Groups
<1>3. ASSUME NEW m \in DOMAIN new
      PROVE  new[m] \in [kind : {"group", "cube"}, name : Name, in : Groups(new) \cup {Top}]
  <2>1. CASE m = n
    BY <1>1, <1>2, <2>1
  <2>2. CASE m # n
    <3>1. m \in DOMAIN ed /\ new[m] = ed[m]
      BY <1>1, <2>2
    <3>2. ed[m] \in [kind : {"group", "cube"}, name : Name, in : Groups(ed) \cup {Top}]
      BY <3>1 DEF Forest
    <3> QED BY <1>2, <3>1, <3>2
  <2> QED BY <2>1, <2>2
<1>4. ASSUME NEW S \in SUBSET DOMAIN new, S # {} PROVE \E m \in S : new[m].in \notin S
  <2>1. at # n /\ Top # n
    BY TopIsNoNode DEF Groups
  <2>2. CASE S = {n}
    BY <1>1, <2>1, <2>2
  <2>3. CASE S # {n}
    <3>1. PICK m \in S \ {n} : ed[m].in \notin S \ {n}
      <4>1. S \ {n} \in SUBSET DOMAIN ed /\ S \ {n} # {}
        BY <1>1, <1>4, <2>3
      <4> QED BY <4>1 DEF Forest
    <3>2. m \in DOMAIN ed /\ new[m] = ed[m]
      BY <1>1, <3>1
    <3>3. ed[m].in # n
      BY <2>1, <3>2 DEF Forest, Groups
    <3> QED BY <3>1, <3>2, <3>3
  <2> QED BY <2>2, <2>3
<1>5. DOMAIN new \subseteq Node
  BY <1>1 DEF Forest
<1>6. Forest(new)
  BY <1>3, <1>4, <1>5 DEF Forest
<1> QED BY <1>6 DEF new

\* A node put back with another name, and where it was or outside a set that
\* holds it and all below it, leaves a forest.
LEMMA PlaceAgain ==
  ASSUME NEW ed, Forest(ed), NEW n \in DOMAIN ed, NEW name \in Name, NEW at \in Groups(ed) \cup {Top},
         NEW C, at = ed[n].in \/ (n \in C /\ ClosedBelow(ed, C) /\ at \notin C),
         NEW new, DOMAIN new = DOMAIN ed,
         new[n] = [kind |-> ed[n].kind, name |-> name, in |-> at],
         \A m \in DOMAIN ed : m # n => new[m] = ed[m]
  PROVE  Forest(new) /\ Groups(new) = Groups(ed)
<1>1. Groups(new) = Groups(ed)
  BY DEF Groups
<1>2. ASSUME NEW m \in DOMAIN new
      PROVE  new[m] \in [kind : {"group", "cube"}, name : Name, in : Groups(new) \cup {Top}]
  <2>1. ed[m] \in [kind : {"group", "cube"}, name : Name, in : Groups(ed) \cup {Top}]
    BY DEF Forest
  <2> QED BY <1>1, <2>1
<1>3. ASSUME NEW S \in SUBSET DOMAIN new, S # {} PROVE \E m \in S : new[m].in \notin S
  <2>1. PICK m \in S : ed[m].in \notin S
    BY <1>3 DEF Forest
  <2>2. CASE m # n \/ at = ed[n].in
    <3>1. new[m].in = ed[m].in
      BY <2>2
    <3> QED BY <2>1, <3>1
  <2>3. CASE m = n /\ at # ed[n].in
    <3>1. n \in C /\ ClosedBelow(ed, C) /\ at \notin C
      BY <2>3
    <3>2. CASE S \subseteq C
      <4>1. new[n].in = at
        OBVIOUS
      <4> QED BY <2>3, <3>1, <3>2, <4>1
    <3>3. CASE ~(S \subseteq C)
      <4>1. PICK k \in S \ C : ed[k].in \notin S \ C
        <5>1. S \ C \in SUBSET DOMAIN ed /\ S \ C # {}
          BY <3>3
        <5> QED BY <5>1 DEF Forest
      <4>2. ed[k].in \notin C /\ k # n
        BY <3>1, <4>1 DEF ClosedBelow
      <4>3. new[k] = ed[k]
        BY <4>1, <4>2
      <4> QED BY <4>1, <4>2, <4>3
    <3> QED BY <3>2, <3>3
  <2> QED BY <2>2, <2>3
<1> QED BY <1>1, <1>2, <1>3 DEF Forest

\* A node with another name leaves a forest with the same parents.
LEMMA RenamedForest ==
  ASSUME NEW ed, Forest(ed), NEW n \in DOMAIN ed, NEW newName \in Name \cup {None},
         NEW new, new = Model!Renamed(ed, n, newName)
  PROVE  /\ Forest(new) /\ Groups(new) = Groups(ed) /\ DOMAIN new = DOMAIN ed
         /\ \A m \in DOMAIN ed : new[m].in = ed[m].in /\ new[m].kind = ed[m].kind
         /\ \A m \in DOMAIN ed : m # n => new[m] = ed[m]
<1>1. CASE newName = None
  BY <1>1 DEF Model!Renamed
<1>2. CASE newName # None
  <2>1. new = Model!Place(ed, n, [ed[n] EXCEPT !.name = newName])
    BY <1>2 DEF Model!Renamed
  <2>2. ed[n] \in [kind : {"group", "cube"}, name : Name, in : Groups(ed) \cup {Top}]
    BY DEF Forest
  <2>3. [ed[n] EXCEPT !.name = newName] = [kind |-> ed[n].kind, name |-> newName, in |-> ed[n].in]
    BY <2>2
  <2>4. DOMAIN new = DOMAIN ed /\ \A m \in DOMAIN ed : m # n => new[m] = ed[m]
    BY <2>1 DEF Model!Place
  <2>5. new[n] = [kind |-> ed[n].kind, name |-> newName, in |-> ed[n].in]
    BY <2>1, <2>3 DEF Model!Place
  <2>6. Forest(new) /\ Groups(new) = Groups(ed)
    <3>1. newName \in Name /\ ed[n].in \in Groups(ed) \cup {Top}
      BY <1>2, <2>2
    <3> QED BY <2>4, <2>5, <3>1, PlaceAgain
  <2> QED BY <2>4, <2>5, <2>6
<1> QED BY <1>1, <1>2

\* A node is moved where it is asked to go, or to the top level.
LEMMA MovePlaces ==
  ASSUME NEW ed, NEW n, NEW p, NEW new \in Model!Move(ed, n, p)
  PROVE  \E at \in {p, Top} : new = Model!Place(ed, n, [ed[n] EXCEPT !.in = at])
BY DEF Model!Move, Model!Landing

\* A node moved outside a set that holds it and all below it leaves a forest,
\* wherever the move lands.
LEMMA MoveForest ==
  ASSUME NEW ed, Forest(ed), NEW n \in DOMAIN ed, NEW p \in Groups(ed) \cup {Top},
         NEW C, n \in C, ClosedBelow(ed, C), p \notin C, Top \notin C,
         NEW new \in Model!Move(ed, n, p)
  PROVE  Forest(new)
<1>1. PICK at \in {p, Top} : new = Model!Place(ed, n, [ed[n] EXCEPT !.in = at])
  BY MovePlaces
<1>2. ed[n] \in [kind : {"group", "cube"}, name : Name, in : Groups(ed) \cup {Top}]
  BY DEF Forest
<1>3. [ed[n] EXCEPT !.in = at] = [kind |-> ed[n].kind, name |-> ed[n].name, in |-> at]
  BY <1>2
<1>4. DOMAIN new = DOMAIN ed /\ \A m \in DOMAIN ed : m # n => new[m] = ed[m]
  BY <1>1 DEF Model!Place
<1>5. new[n] = [kind |-> ed[n].kind, name |-> ed[n].name, in |-> at]
  BY <1>1, <1>3 DEF Model!Place
<1>6. at \in Groups(ed) \cup {Top} /\ at \notin C /\ ed[n].name \in Name
  BY <1>2
<1> QED BY <1>4, <1>5, <1>6, PlaceAgain

\* What is left when a set goes with all below it is a forest.
LEMMA RestForest ==
  ASSUME NEW ed, Forest(ed), NEW C, ClosedBelow(ed, C),
         NEW new, new = [m \in DOMAIN ed \ C |-> ed[m]]
  PROVE  Forest(new)
<1>1. DOMAIN new = DOMAIN ed \ C /\ \A m \in DOMAIN new : new[m] = ed[m]
  OBVIOUS
<1>2. ASSUME NEW m \in DOMAIN new
      PROVE  new[m] \in [kind : {"group", "cube"}, name : Name, in : Groups(new) \cup {Top}]
  <2>1. ed[m] \in [kind : {"group", "cube"}, name : Name, in : Groups(ed) \cup {Top}]
    BY <1>1 DEF Forest
  <2>2. ed[m].in \in Groups(new) \cup {Top}
    BY <1>1, <2>1 DEF Groups, ClosedBelow
  <2> QED BY <1>1, <2>1, <2>2
<1>3. ASSUME NEW S \in SUBSET DOMAIN new, S # {} PROVE \E m \in S : new[m].in \notin S
  <2>1. S \in SUBSET DOMAIN ed
    BY <1>1
  <2>2. PICK m \in S : ed[m].in \notin S
    BY <1>3, <2>1 DEF Forest
  <2> QED BY <1>1, <2>2
<1>4. DOMAIN new \subseteq Node
  BY <1>1 DEF Forest
<1> QED BY <1>2, <1>3, <1>4 DEF Forest

\* What is below some nodes holds them and all below it, and is in every such set.
LEMMA BelowIsClosed ==
  ASSUME Forest(editor), NEW ns
  PROVE  /\ ns \subseteq Model!Below(ns) /\ Model!Below(ns) \subseteq ns \cup DOMAIN editor
         /\ ClosedBelow(editor, Model!Below(ns))
         /\ \A D : ns \subseteq D /\ ClosedBelow(editor, D) => Model!Below(ns) \subseteq D
<1> DEFINE edges == {<<editor[m].in, m>> : m \in DOMAIN editor}
<1>1. IsFiniteSet(DOMAIN editor) /\ Cardinality(DOMAIN editor) <= Cardinality(Node)
  <2>1. IsFiniteSet(Node) /\ DOMAIN editor \subseteq Node
    BY ModelAssumption DEF Forest
  <2> QED BY <2>1, FS_Subset
<1>2. Cardinality(Node) \in Nat
  BY ModelAssumption, FS_CardinalityType
<1>3. \A e \in edges : e[2] \in DOMAIN editor
  OBVIOUS
<1> DEFINE reached == Model!Below(ns)
<1>4. reached = Model!Reached(ns, edges, Cardinality(Node))
  BY ModelCardinality DEF Model!Below
<1>5. IsClosure(reached, ns, edges, DOMAIN editor)
  <2>1. EndsIn(edges, DOMAIN editor, Cardinality(Node))
    BY <1>1, <1>2, <1>3 DEF EndsIn
  <2> HIDE DEF edges, reached
  <2> QED BY <1>4, <2>1, ReachedIsClosed
<1>6. ASSUME NEW D PROVE (\A e \in edges : e[1] \in D => e[2] \in D) <=> ClosedBelow(editor, D)
  <2>1. ASSUME ClosedBelow(editor, D), NEW e \in edges, e[1] \in D PROVE e[2] \in D
    BY <2>1 DEF ClosedBelow
  <2>2. ASSUME \A e \in edges : e[1] \in D => e[2] \in D, NEW m \in DOMAIN editor, editor[m].in \in D PROVE m \in D
    <3>1. <<editor[m].in, m>> \in edges
      OBVIOUS
    <3> HIDE DEF edges
    <3> QED BY <2>2, <3>1
  <2> HIDE DEF edges
  <2> QED BY <2>1, <2>2 DEF ClosedBelow
<1> HIDE DEF edges, reached
<1>7. /\ ns \subseteq reached /\ reached \subseteq ns \cup DOMAIN editor
      /\ ClosedBelow(editor, reached)
      /\ \A D : ns \subseteq D /\ ClosedBelow(editor, D) => reached \subseteq D
  BY <1>5, <1>6 DEF IsClosure
<1> QED BY <1>7 DEF reached

\* In a forest everything is below the top level.
LEMMA AllBelowTop ==
  ASSUME Forest(editor)
  PROVE  Model!Below({n \in DOMAIN editor : editor[n].in = Top}) = DOMAIN editor
<1> DEFINE tops == {n \in DOMAIN editor : editor[n].in = Top}
           B == Model!Below(tops)
<1>1. tops \subseteq B /\ B \subseteq tops \cup DOMAIN editor /\ ClosedBelow(editor, B)
  BY BelowIsClosed
<1> HIDE DEF B
<1>2. DOMAIN editor \ B = {}
  <2> SUFFICES ASSUME DOMAIN editor \ B # {} PROVE FALSE
    OBVIOUS
  <2>1. PICK n \in DOMAIN editor \ B : editor[n].in \notin DOMAIN editor \ B
    BY DEF Forest
  <2>2. editor[n].in \in Groups(editor) \cup {Top}
    BY <2>1 DEF Forest
  <2> QED BY <1>1, <2>1, <2>2 DEF Groups, ClosedBelow
<1> QED BY <1>1, <1>2 DEF B

\* Removing nodes, with all below them, leaves a forest.
LEMMA WithoutForest ==
  ASSUME Forest(editor), NEW ns, NEW new, new = Model!Without(ns)
  PROVE  Forest(new)
<1>1. new = [m \in DOMAIN editor \ Model!Below(ns) |-> editor[m]]
  BY DEF Model!Without
<1>2. ClosedBelow(editor, Model!Below(ns))
  BY BelowIsClosed
<1> QED BY <1>1, <1>2, RestForest

----------------------------------------------------------------------------
(* The bones and cubes the tools are told of                               *)

\* The bones are the groups and, where there is none of its name and a cube
\* needs it, a bone "root" without an id.
LEMMA LiveBonesAre ==
  ASSUME Forest(editor)
  PROVE  /\ \A n \in Groups(editor) :
              [id |-> n, name |-> editor[n].name, parent |-> HomeName(editor, n)] \in Model!LiveBones
         /\ \A b \in Model!LiveBones :
              \/ b.id \in Groups(editor) /\ b = [id |-> b.id, name |-> editor[b.id].name, parent |-> HomeName(editor, b.id)]
              \/ b = [id |-> None, name |-> "root", parent |-> None]
         /\ Model!LiveBones \subseteq Model!Bone /\ IsFiniteSet(Model!LiveBones)
<1> DEFINE bone(n) == [id |-> n, name |-> editor[n].name, parent |-> HomeName(editor, n)]
           groups == {bone(n) : n \in Groups(editor)}
           virtual == [id |-> None, name |-> "root", parent |-> None]
<1>1. Model!LiveBones \in {groups, groups \cup {virtual}}
  BY DEF Model!LiveBones, Model!Nodes, Groups, HomeName
<1>2. groups \subseteq Model!Bone /\ virtual \in Model!Bone
  <2>1. ASSUME NEW n \in Groups(editor) PROVE bone(n) \in Model!Bone
    <3>1. n \in Node /\ editor[n] \in [kind : {"group", "cube"}, name : Name, in : Groups(editor) \cup {Top}]
      BY DEF Forest, Groups
    <3>2. HomeName(editor, n) \in Name \cup {None}
      <4>1. CASE editor[n].in = Top
        BY <4>1 DEF HomeName, Groups
      <4>2. CASE editor[n].in # Top
        <5>1. editor[n].in \in DOMAIN editor
          BY <3>1, <4>2 DEF Groups
        <5>2. editor[editor[n].in].name \in Name
          BY <5>1 DEF Forest
        <5> QED BY <4>2, <5>2 DEF HomeName
      <4> QED BY <4>1, <4>2
    <3> QED BY <3>1, <3>2 DEF Model!Bone
  <2>2. virtual \in Model!Bone
    BY ModelAssumption DEF Model!Bone
  <2> QED BY <2>1, <2>2
<1>3. IsFiniteSet(groups)
  <2>1. IsFiniteSet(Groups(editor))
    <3>1. IsFiniteSet(Node) /\ Groups(editor) \subseteq Node
      BY ModelAssumption DEF Forest, Groups
    <3> QED BY <3>1, FS_Subset
  <2>2. [n \in Groups(editor) |-> bone(n)] \in Surjection(Groups(editor), groups)
    BY DEF Surjection
  <2> QED BY <2>1, <2>2, FS_Surjection
<1>4. IsFiniteSet(groups \cup {virtual})
  <2> HIDE DEF groups, virtual
  <2> QED BY <1>3, FS_AddElement
<1>5. \A n \in Groups(editor) : bone(n) \in Model!LiveBones
  <2>1. groups \subseteq Model!LiveBones
    BY <1>1
  <2> QED BY <2>1
<1>6. ASSUME NEW b \in Model!LiveBones
      PROVE  \/ b.id \in Groups(editor) /\ b = bone(b.id)
             \/ b = virtual
  <2>1. b \in groups \/ b = virtual
    BY <1>1
  <2> QED BY <2>1
<1>7. Model!LiveBones \subseteq Model!Bone /\ IsFiniteSet(Model!LiveBones)
  <2> HIDE DEF groups, virtual
  <2> QED BY <1>1, <1>2, <1>3, <1>4
<1> HIDE DEF groups
<1> QED BY <1>5, <1>6, <1>7

\* The cubes are the nodes that are cubes.
LEMMA LiveCubesAre ==
  ASSUME Forest(editor)
  PROVE  /\ \A c \in Model!LiveCubes : c.id \in DOMAIN editor \ Groups(editor) /\ c.name = editor[c.id].name
         /\ Model!LiveCubes \subseteq Model!Cube
<1> DEFINE cube(n) == [id |-> n, name |-> editor[n].name,
                       bone |-> IF editor[n].in = Top THEN "root" ELSE editor[editor[n].in].name]
<1>1. Model!LiveCubes = {cube(n) : n \in Model!Nodes("cube")}
  BY DEF Model!LiveCubes
<1>2. ASSUME NEW n \in Model!Nodes("cube") PROVE cube(n) \in Model!Cube
  <2>1. n \in Node /\ n \in DOMAIN editor /\ editor[n] \in [kind : {"group", "cube"}, name : Name, in : Groups(editor) \cup {Top}]
    BY DEF Forest, Model!Nodes
  <2>2. editor[n].in # Top => editor[editor[n].in].name \in Name
    BY <2>1 DEF Forest, Groups
  <2>3. "root" \in Name
    BY ModelAssumption
  <2> QED BY <2>1, <2>2, <2>3 DEF Model!Cube
<1>3. \A n \in Model!Nodes("cube") : n \in DOMAIN editor \ Groups(editor)
  BY DEF Model!Nodes, Groups
<1> QED BY <1>1, <1>2, <1>3

\* A name and its descendants hold, with a bone's parent, the bone, and are in
\* every set of names around the name that does.
LEMMA DescendantsAreClosed ==
  ASSUME NEW bones, IsFiniteSet(bones), NEW name
  PROVE  /\ \A b \in bones : b.parent \in {name} \cup Model!Descendants(bones, name)
                              => b.name \in {name} \cup Model!Descendants(bones, name)
         /\ \A D : name \in D /\ (\A b \in bones : b.parent \in D => b.name \in D)
                    => Model!Descendants(bones, name) \subseteq D
<1> DEFINE edges == {<<b.parent, b.name>> : b \in bones}
           ends == {b.name : b \in bones}
           reached == Model!Reached({name}, edges, Cardinality(bones))
<1>1. IsFiniteSet(ends) /\ Cardinality(ends) <= Cardinality(bones)
  <2>1. [b \in bones |-> b.name] \in Surjection(bones, ends)
    BY DEF Surjection
  <2> QED BY <2>1, FS_Surjection
<1>2. \A e \in edges : e[2] \in ends
  OBVIOUS
<1>3. Cardinality(bones) \in Nat
  BY FS_CardinalityType
<1>8. reached = Model!Reached({name}, edges, Cardinality(bones))
  OBVIOUS
<1>4. IsClosure(reached, {name}, edges, ends)
  <2>1. EndsIn(edges, ends, Cardinality(bones))
    BY <1>1, <1>2, <1>3 DEF EndsIn
  <2> HIDE DEF edges, ends, reached
  <2> QED BY <1>8, <2>1, ReachedIsClosed
<1>5. {name} \cup Model!Descendants(bones, name) = reached
  <2>1. Model!Descendants(bones, name) = reached \ {name}
    BY ModelCardinality DEF Model!Descendants
  <2> HIDE DEF reached
  <2> QED BY <1>4, <2>1 DEF IsClosure
<1> HIDE DEF reached
<1>6. \A b \in bones : <<b.parent, b.name>> \in edges
  OBVIOUS
<1> HIDE DEF edges
<1>7. \A b \in bones : b.parent \in reached => b.name \in reached
  <2> TAKE b \in bones
  <2>1. <<b.parent, b.name>> \in edges
    BY <1>6
  <2> QED BY <1>4, <2>1 DEF IsClosure
<1>9. ASSUME NEW D, name \in D, \A b \in bones : b.parent \in D => b.name \in D PROVE reached \subseteq D
  <2>1. \A e \in edges : e[1] \in D => e[2] \in D
    BY <1>9 DEF edges
  <2>2. {name} \subseteq D
    BY <1>9
  <2> QED BY <1>4, <2>1, <2>2 DEF IsClosure
<1> QED BY <1>5, <1>7, <1>9

----------------------------------------------------------------------------
(* The outliner stays a forest, whatever tool is called                    *)

TreeInv == Forest(editor) /\ session \in SessionType

\* The session a tool works on is well formed.
LEMMA ActiveType ==
  ASSUME TreeInv
  PROVE  Model!Active \in SessionType
<1>1. session \in SessionType /\ Model!LiveBones \subseteq Model!Bone /\ Model!LiveCubes \subseteq Model!Cube
  BY LiveBonesAre, LiveCubesAre DEF TreeInv
<1> QED BY <1>1 DEF Model!Active, SessionType

\* A refused call leaves a forest.
LEMMA RefuseTree == TreeInv /\ Model!Refuse => TreeInv'
BY ActiveType DEF TreeInv, Model!Refuse

\* A node is added in a group of the given name or at the top level.
LEMMA EditorAddPlaces ==
  ASSUME NEW ed, NEW n, NEW kind, NEW name, NEW parent, NEW new \in Model!EditorAdd(ed, n, kind, name, parent)
  PROVE  \E at \in {Top} \cup Model!Group(ed, parent) : new = Model!Place(ed, n, [kind |-> kind, name |-> name, in |-> at])
BY DEF Model!EditorAdd, Model!Landing

\* A node added under a parent given by its name leaves a forest.
LEMMA EditorAddForest ==
  ASSUME NEW ed, Forest(ed), NEW n \in Node \ DOMAIN ed, NEW kind \in {"group", "cube"},
         NEW name \in Name, NEW parent, NEW new \in Model!EditorAdd(ed, n, kind, name, parent)
  PROVE  Forest(new)
<1>1. PICK at \in Groups(ed) \cup {Top} : new = Model!Place(ed, n, [kind |-> kind, name |-> name, in |-> at])
  BY EditorAddPlaces DEF Model!Group, Groups
<1> QED BY <1>1, PlaceNew

\* add_bone leaves a forest.
LEMMA AddBoneTree ==
  ASSUME TreeInv, NEW id \in Node, NEW name \in Name, NEW parent \in Name \cup Node \cup {None},
         Model!AddBone(id, name, parent)
  PROVE  TreeInv'
<1> DEFINE byId == {b \in Model!LiveBones : parent \in Node /\ b.id = parent}
           parentName == IF parent \in Node THEN (CHOOSE b \in byId : TRUE).name ELSE parent
<1>1. CASE Model!Refuse
  BY <1>1, RefuseTree
<1>2. CASE ~Model!Refuse
  <2>1. /\ id \in Node \ DOMAIN editor
        /\ parent \in Node => byId # {}
        /\ editor' \in Model!EditorAdd(editor, id, "group", name, parentName)
        /\ session' = [Model!Active EXCEPT !.bones = @ \cup {[id |-> id, name |-> name, parent |-> parentName]}]
    BY <1>2 DEF Model!AddBone, Model!Fresh
  <2>2. Forest(editor')
    BY <2>1, EditorAddForest DEF TreeInv
  <2>3. parentName \in Name \cup {None}
    <3>1. CASE parent \in Node
      <4>1. (CHOOSE b \in byId : TRUE) \in Model!LiveBones
        BY <2>1, <3>1
      <4>2. Model!LiveBones \subseteq Model!Bone
        BY LiveBonesAre DEF TreeInv
      <4> QED BY <3>1, <4>1, <4>2 DEF Model!Bone
    <3>2. CASE parent \notin Node
      BY <3>2
    <3> QED BY <3>1, <3>2
  <2> HIDE DEF parentName
  <2>4. [id |-> id, name |-> name, parent |-> parentName] \in Model!Bone
    BY <2>3 DEF Model!Bone
  <2>5. session' \in SessionType
    BY <2>1, <2>4, ActiveType DEF SessionType
  <2> QED BY <2>2, <2>5 DEF TreeInv
<1> QED BY <1>1, <1>2

\* A bone moved to a parent that is neither itself nor, by the names, one of
\* its descendants leaves a forest.
LEMMA UpdateBoneForest ==
  ASSUME Forest(editor), NEW n \in Groups(editor), NEW newName \in Name \cup {None},
         NEW parent \in Name \cup {"same", None},
         parent \in Name => parent \notin {editor[n].name} \cup Model!Descendants(Model!LiveBones, editor[n].name),
         NEW new \in Model!EditorUpdateBone(editor, n, newName, parent)
  PROVE  Forest(new)
<1> DEFINE ed == Model!Renamed(editor, n, newName)
           D == {editor[n].name} \cup Model!Descendants(Model!LiveBones, editor[n].name)
           C == {m \in DOMAIN editor : m = n \/ (editor[m].in # Top /\ editor[editor[m].in].name \in D)}
<1>1. /\ Forest(ed) /\ Groups(ed) = Groups(editor) /\ DOMAIN ed = DOMAIN editor
      /\ \A m \in DOMAIN editor : ed[m].in = editor[m].in
  BY RenamedForest DEF Groups
<1>2. \A b \in Model!LiveBones : b.parent \in D => b.name \in D
  BY LiveBonesAre, DescendantsAreClosed
<1>3. editor[n].name \in D
  OBVIOUS
<1> HIDE DEF D
<1>4. \A m \in Groups(editor) : m \in C => editor[m].name \in D
  <2> SUFFICES ASSUME NEW m \in Groups(editor), m \in C, m # n PROVE editor[m].name \in D
    BY <1>3
  <2> DEFINE b == [id |-> m, name |-> editor[m].name, parent |-> HomeName(editor, m)]
  <2>1. b \in Model!LiveBones
    BY LiveBonesAre
  <2>2. b.parent \in D
    BY DEF HomeName
  <2> QED BY <1>2, <2>1, <2>2
<1>5. ClosedBelow(ed, C)
  <2> SUFFICES ASSUME NEW m \in DOMAIN editor, editor[m].in \in C PROVE m \in C
    BY <1>1 DEF ClosedBelow
  <2>1. editor[m].in \in Groups(editor)
    <3>1. editor[m].in \in Groups(editor) \cup {Top} /\ DOMAIN editor \subseteq Node
      BY DEF Forest
    <3> QED BY <3>1, TopIsNoNode
  <2>2. editor[m].in # Top
    BY <2>1, TopIsNoNode DEF Forest, Groups
  <2> QED BY <1>4, <2>1, <2>2
<1>6. n \in C /\ n \in DOMAIN ed /\ Top \notin C
  BY <1>1, TopIsNoNode DEF Forest, Groups
<1>7. "same" # None /\ "same" \notin Name /\ None \notin Name /\ n # None
  BY ModelAssumption DEF Forest, Groups
<1> HIDE DEF C, ed
<1>8. CASE parent = "same"
  BY <1>1, <1>7, <1>8 DEF Model!EditorUpdateBone, ed
<1>9. CASE parent = None
  <2>1. new \in Model!Move(ed, n, Top)
    BY <1>7, <1>9 DEF Model!EditorUpdateBone, ed
  <2> QED BY <1>1, <1>5, <1>6, <2>1, MoveForest
<1>10. CASE parent \in Name
  <2>1. PICK p \in Model!Group(editor, parent) : new \in Model!Move(ed, n, p)
    BY <1>7, <1>10 DEF Model!EditorUpdateBone, ed
  <2>2. p \in Groups(editor) /\ editor[p].name = parent
    BY <2>1 DEF Model!Group, Groups
  <2>3. p \notin C
    BY <1>4, <1>10, <2>2 DEF D
  <2> QED BY <1>1, <1>5, <1>6, <2>1, <2>2, <2>3, MoveForest
<1> QED BY <1>8, <1>9, <1>10

\* What the session makes of a bone's new name and parent is well formed.
LEMMA SessionUpdateBoneType ==
  ASSUME NEW s \in SessionType, NEW old, NEW id \in Node \cup {None}, old \in Name,
         NEW newName \in Name \cup {None}, NEW parent \in Name \cup {"same", None}
  PROVE  Model!SessionUpdateBone(s, old, id, newName, parent) \in SessionType
<1> DEFINE name == IF newName = None THEN old ELSE newName
           follow(x) == IF x = old THEN name ELSE x
           bone(b) == IF b.name = old
                      THEN [id |-> id, name |-> name, parent |-> IF parent = "same" THEN b.parent ELSE parent]
                      ELSE [b EXCEPT !.parent = follow(b.parent)]
           cube(c) == [c EXCEPT !.bone = follow(c.bone)]
<1>1. name \in Name
  OBVIOUS
<1> HIDE DEF name
<1>2. ASSUME NEW b \in s.bones PROVE bone(b) \in Model!Bone
  <2>1. b \in Model!Bone
    BY DEF SessionType
  <2>2. [b EXCEPT !.parent = follow(b.parent)] \in Model!Bone
    BY <1>1, <2>1 DEF Model!Bone
  <2>3. [id |-> id, name |-> name, parent |-> IF parent = "same" THEN b.parent ELSE parent] \in Model!Bone
    BY <1>1, <2>1 DEF Model!Bone
  <2> QED BY <2>2, <2>3
<1>3. ASSUME NEW c \in s.cubes PROVE cube(c) \in Model!Cube
  <2>1. c \in Model!Cube
    BY DEF SessionType
  <2> QED BY <1>1, <2>1 DEF Model!Cube
<1> DEFINE new == [s EXCEPT !.bones = {bone(b) : b \in s.bones}, !.cubes = {cube(c) : c \in s.cubes}]
<1>4. Model!SessionUpdateBone(s, old, id, newName, parent) = new
  BY DEF Model!SessionUpdateBone, name
<1>5. {bone(b) : b \in s.bones} \subseteq Model!Bone /\ {cube(c) : c \in s.cubes} \subseteq Model!Cube
  <2> HIDE DEF bone, cube
  <2> QED BY <1>2, <1>3
<1> HIDE DEF bone, cube
<1> QED BY <1>4, <1>5 DEF SessionType

\* What resolves to a bone, or to a cube, is among those asked.
LEMMA ResolveAmong == \A items, sel : Model!Resolve(items, sel) \subseteq items
BY DEF Model!Resolve

\* update_bone leaves a forest.
LEMMA UpdateBoneTree ==
  ASSUME TreeInv, NEW sel \in Model!Selector, NEW newName \in Name \cup {None},
         NEW parent \in Name \cup {"same", None},
         Model!UpdateBone(sel, newName, parent)
  PROVE  TreeInv'
<1> DEFINE found == Model!Resolve(Model!LiveBones, sel)
           target == CHOOSE t \in found : TRUE
           valid == /\ found # {} /\ Model!RenameFree(Model!LiveBones, target, newName)
                    /\ Model!ParentAllowed(target, parent)
           after == IF valid THEN Model!EditorUpdateBone(editor, target.id, newName, parent) ELSE {}
<1>1. CASE Model!Refuse
  BY <1>1, RefuseTree
<1>2. CASE ~Model!Refuse
  <2>1. editor' \in after /\ session' = Model!SessionUpdateBone(Model!Active, target.name, target.id, newName, parent)
    BY <1>2 DEF Model!UpdateBone
  <2>2. valid /\ editor' \in Model!EditorUpdateBone(editor, target.id, newName, parent)
    BY <2>1
  <2>3. target \in Model!LiveBones
    BY <2>2, ResolveAmong
  <2>4. Model!ParentAllowed(target, parent)
    BY <2>2
  <2> HIDE DEF target, after
  <2>5. target.id # None
    BY <2>2 DEF Model!EditorUpdateBone
  <2>6. Forest(editor) /\ session \in SessionType
    BY DEF TreeInv
  <2>7. target.id \in Groups(editor) /\ editor[target.id].name = target.name /\ target \in Model!Bone
    BY <2>3, <2>5, <2>6, LiveBonesAre
  <2>8. parent \in Name => parent \notin {target.name} \cup Model!Descendants(Model!LiveBones, target.name)
    BY <2>4, ModelAssumption DEF Model!ParentAllowed
  <2>9. Forest(editor')
    BY <2>2, <2>6, <2>7, <2>8, UpdateBoneForest
  <2>10. session' \in SessionType
    <3>1. target.name \in Name /\ target.id \in Node \cup {None}
      BY <2>7 DEF Model!Bone
    <3> QED BY <2>1, <3>1, ActiveType, SessionUpdateBoneType
  <2> QED BY <2>9, <2>10 DEF TreeInv
<1> QED BY <1>1, <1>2

\* delete_bone leaves a forest.
LEMMA DeleteBoneTree ==
  ASSUME TreeInv, NEW sels, Model!DeleteBone(sels)
  PROVE  TreeInv'
<1>1. CASE Model!Refuse
  BY <1>1, RefuseTree
<1>2. CASE ~Model!Refuse
  <2>1. PICK ns : editor' = Model!Without(ns)
    BY <1>2 DEF Model!DeleteBone
  <2>2. \E names : session' \in {Model!Active, Model!SessionRemoveBones(Model!Active, names)}
    BY <1>2 DEF Model!DeleteBone
  <2>3. session' \in SessionType
    BY <2>2, ActiveType DEF Model!SessionRemoveBones, SessionType
  <2> QED BY <2>1, <2>3, WithoutForest DEF TreeInv
<1> QED BY <1>1, <1>2

\* The root bone the cube tools make leaves a forest.
LEMMA EnsureRootBoneTree ==
  ASSUME TreeInv, NEW rootId, Model!RootMissing => rootId \in Node \ DOMAIN editor
  PROVE  /\ Forest(Model!EnsureRootBone(rootId)[1]) /\ Model!EnsureRootBone(rootId)[2] \in SessionType
         /\ DOMAIN Model!EnsureRootBone(rootId)[1] \subseteq DOMAIN editor \cup {rootId}
         /\ \A n \in DOMAIN editor : /\ n \in DOMAIN Model!EnsureRootBone(rootId)[1]
                                     /\ Model!EnsureRootBone(rootId)[1][n] = editor[n]
<1>1. CASE ~Model!RootMissing
  BY <1>1, ActiveType DEF Model!EnsureRootBone, TreeInv
<1>2. CASE Model!RootMissing
  <2> DEFINE base == <<Model!Place(editor, rootId, [kind |-> "group", name |-> "root", in |-> Top]),
           [Model!Active EXCEPT !.bones = @ \cup {[id |-> None, name |-> "root", parent |-> None]}]>>
  <2>1. Model!EnsureRootBone(rootId) = base
    BY <1>2 DEF Model!EnsureRootBone
  <2>2. Forest(base[1])
    BY <1>2, PlaceNew, ModelAssumption DEF TreeInv
  <2>3. [id |-> None, name |-> "root", parent |-> None] \in Model!Bone
    BY ModelAssumption DEF Model!Bone
  <2>4. base[2] \in SessionType
    BY <2>3, ActiveType DEF SessionType
  <2>5. DOMAIN base[1] = DOMAIN editor \cup {rootId} /\ \A n \in DOMAIN editor : base[1][n] = editor[n]
    BY <1>2 DEF Model!Place
  <2> QED BY <2>1, <2>2, <2>4, <2>5
<1> QED BY <1>1, <1>2

\* add_cube leaves a forest.
LEMMA AddCubeTree ==
  ASSUME TreeInv, NEW id \in Node, NEW name \in Name, NEW bone \in Model!Selector \cup {None},
         Model!AddCube(id, name, bone)
  PROVE  TreeInv'
<1> DEFINE found == IF bone = None THEN {} ELSE Model!Resolve(Model!LiveBones, bone)
           boneName == IF bone = None THEN "root" ELSE (CHOOSE b \in found : TRUE).name
           base(rootId) == IF bone = None THEN Model!EnsureRootBone(rootId) ELSE <<editor, Model!Active>>
<1>1. CASE Model!Refuse
  BY <1>1, RefuseTree
<1>2. CASE ~Model!Refuse
  <2>1. /\ bone = None \/ found # {}
        /\ \E rootId \in Model!RootIds(bone = None) \ {id} :
              \/ editor' = base(rootId)[1] /\ session' = base(rootId)[2]
              \/ /\ id \in Model!Fresh
                 /\ editor' \in Model!EditorAdd(base(rootId)[1], id, "cube", name, boneName)
                 /\ session' = [base(rootId)[2] EXCEPT !.cubes = @ \cup {[id |-> id, name |-> name, bone |-> boneName]}]
    BY <1>2 DEF Model!AddCube
  <2>2. PICK rootId \in Model!RootIds(bone = None) \ {id} :
              \/ editor' = base(rootId)[1] /\ session' = base(rootId)[2]
              \/ /\ id \in Model!Fresh
                 /\ editor' \in Model!EditorAdd(base(rootId)[1], id, "cube", name, boneName)
                 /\ session' = [base(rootId)[2] EXCEPT !.cubes = @ \cup {[id |-> id, name |-> name, bone |-> boneName]}]
    BY <2>1
  <2>3. /\ Forest(base(rootId)[1]) /\ base(rootId)[2] \in SessionType
        /\ DOMAIN base(rootId)[1] \subseteq DOMAIN editor \cup {rootId}
    <3>1. CASE bone = None
      <4>1. Model!RootMissing => rootId \in Node \ DOMAIN editor
        BY <3>1 DEF Model!RootIds, Model!Fresh
      <4> QED BY <3>1, <4>1, EnsureRootBoneTree
    <3>2. CASE bone # None
      BY <3>2, ActiveType DEF TreeInv
    <3> QED BY <3>1, <3>2
  <2>4. boneName \in Name
    <3>1. CASE bone = None
      BY <3>1, ModelAssumption
    <3>2. CASE bone # None
      <4>1. (CHOOSE b \in found : TRUE) \in Model!LiveBones
        BY <2>1, <3>2, ResolveAmong
      <4>2. Model!LiveBones \subseteq Model!Bone
        BY LiveBonesAre DEF TreeInv
      <4> QED BY <3>2, <4>1, <4>2 DEF Model!Bone
    <3> QED BY <3>1, <3>2
  <2> HIDE DEF boneName, base
  <2>5. CASE editor' = base(rootId)[1] /\ session' = base(rootId)[2]
    BY <2>3, <2>5 DEF TreeInv
  <2>6. CASE /\ id \in Model!Fresh
             /\ editor' \in Model!EditorAdd(base(rootId)[1], id, "cube", name, boneName)
             /\ session' = [base(rootId)[2] EXCEPT !.cubes = @ \cup {[id |-> id, name |-> name, bone |-> boneName]}]
    <3>1. id \in Node \ DOMAIN base(rootId)[1]
      BY <2>2, <2>3, <2>6 DEF Model!Fresh
    <3>2. Forest(editor')
      BY <2>3, <2>6, <3>1, EditorAddForest
    <3>3. [id |-> id, name |-> name, bone |-> boneName] \in Model!Cube
      BY <2>4 DEF Model!Cube
    <3>4. session' \in SessionType
      BY <2>3, <2>6, <3>3 DEF SessionType
    <3> QED BY <3>2, <3>4 DEF TreeInv
  <2> QED BY <2>2, <2>5, <2>6
<1> QED BY <1>1, <1>2

\* A cube, in which nothing hangs, moves to any group and leaves a forest.
LEMMA UpdateCubeForest ==
  ASSUME NEW ed, Forest(ed), NEW n \in DOMAIN ed \ Groups(ed), NEW newName \in Name \cup {None},
         NEW bone \in Name \cup {None, Top}, NEW new \in Model!EditorUpdateCube(ed, n, newName, bone)
  PROVE  Forest(new)
<1> DEFINE named == Model!Renamed(ed, n, newName)
<1>1. /\ Forest(named) /\ Groups(named) = Groups(ed) /\ DOMAIN named = DOMAIN ed
      /\ \A m \in DOMAIN ed : named[m].in = ed[m].in
  BY RenamedForest
<1>2. ClosedBelow(named, {n}) /\ n # Top
  <2>1. \A m \in DOMAIN ed : ed[m].in \in Groups(ed) \cup {Top}
    BY DEF Forest
  <2>2. n # Top
    BY TopIsNoNode DEF Forest
  <2> QED BY <1>1, <2>1, <2>2 DEF ClosedBelow
<1>3. None # Top /\ None \notin Name /\ Top \notin Name
  BY ModelAssumption
<1> HIDE DEF named
<1>4. CASE bone = None
  BY <1>1, <1>3, <1>4 DEF Model!EditorUpdateCube, named
<1>5. CASE bone # None
  <2>1. PICK p \in Groups(ed) \cup {Top} : new \in Model!Move(named, n, p)
    <3>1. CASE bone = Top
      BY <1>3, <3>1 DEF Model!EditorUpdateCube, named
    <3>2. CASE bone # Top
      BY <1>3, <1>5, <3>2 DEF Model!EditorUpdateCube, Model!Group, Groups, named
    <3> QED BY <3>1, <3>2
  <2>2. p \notin {n}
    BY <1>2
  <2> QED BY <1>1, <1>2, <2>1, <2>2, MoveForest
<1> QED BY <1>4, <1>5

\* update_cube leaves a forest.
LEMMA UpdateCubeTree ==
  ASSUME TreeInv, NEW sel \in Model!Selector, NEW newName \in Name \cup {None},
         NEW bone \in Name \cup {None, Top}, Model!UpdateCube(sel, newName, bone)
  PROVE  TreeInv'
<1> DEFINE found == Model!Resolve(Model!LiveCubes, sel)
           target == CHOOSE t \in found : TRUE
           base(rootId) == IF bone \in {"root", Top} THEN Model!EnsureRootBone(rootId) ELSE <<editor, Model!Active>>
           after(rootId) == Model!EditorUpdateCube(base(rootId)[1], target.id, newName, bone)
           home == IF bone = Top THEN "root" ELSE bone
<1>1. CASE Model!Refuse
  BY <1>1, RefuseTree
<1>2. CASE ~Model!Refuse
  <2>1. PICK rootId \in Model!RootIds(bone \in {"root", Top}) :
              /\ found # {}
              /\ \/ editor' = base(rootId)[1] /\ session' = base(rootId)[2]
                 \/ editor' = Model!Renamed(base(rootId)[1], target.id, newName) /\ session' = base(rootId)[2]
                 \/ /\ editor' \in after(rootId)
                    /\ session' \in Model!SessionUpdateCube(base(rootId)[2], target.name, target.id, newName, home)
    BY <1>2 DEF Model!UpdateCube
  <2>2. Model!RootMissing /\ bone \in {"root", Top} => rootId \in Node \ DOMAIN editor
    BY <2>1 DEF Model!RootIds, Model!Fresh
  <2>3. Forest(editor) /\ Model!Active \in SessionType
    BY ActiveType DEF TreeInv
  <2>4. target \in Model!LiveCubes
    BY <2>1, ResolveAmong
  <2> HIDE DEF target
  <2>5. target.id \in DOMAIN editor \ Groups(editor) /\ target \in Model!Cube
    BY <2>3, <2>4, LiveCubesAre
  <2> DEFINE ed == base(rootId)[1]
             s == base(rootId)[2]
  <2>6. /\ Forest(ed) /\ s \in SessionType
        /\ \A n \in DOMAIN editor : n \in DOMAIN ed /\ ed[n] = editor[n]
    <3>1. CASE bone \in {"root", Top}
      BY <2>2, <3>1, EnsureRootBoneTree
    <3>2. CASE bone \notin {"root", Top}
      BY <2>3, <3>2
    <3> QED BY <3>1, <3>2
  <2> HIDE DEF base
  <2>7. target.id \in DOMAIN ed \ Groups(ed)
    BY <2>5, <2>6 DEF Groups
  <2>8. Forest(editor')
    <3>1. CASE editor' = ed
      BY <2>6, <3>1
    <3>2. CASE editor' = Model!Renamed(ed, target.id, newName)
      BY <2>6, <2>7, <3>2, RenamedForest
    <3>3. CASE editor' \in after(rootId)
      BY <2>6, <2>7, <3>3, UpdateCubeForest
    <3> QED BY <2>1, <3>1, <3>2, <3>3
  <2>9. session' \in SessionType
    <3>1. CASE session' = s
      BY <2>6, <3>1
    <3>2. CASE session' \in Model!SessionUpdateCube(s, target.name, target.id, newName, home)
      <4>1. home \in Name \cup {None} /\ target.id \in Node \cup {None}
        BY <2>5, ModelAssumption DEF Model!Cube
      <4> HIDE DEF home, s
      <4>2. CASE session' = s
        BY <2>6, <4>2
      <4>3. CASE session' # s
        <5>1. PICK c \in s.cubes : session' = [s EXCEPT !.cubes = (s.cubes \ {c}) \cup
                 {[id |-> target.id, name |-> IF newName = None THEN c.name ELSE newName,
                   bone |-> IF home = None THEN c.bone ELSE home]}]
          BY <3>2, <4>3 DEF Model!SessionUpdateCube
        <5>2. c \in Model!Cube
          BY <2>6 DEF SessionType
        <5>3. [id |-> target.id, name |-> IF newName = None THEN c.name ELSE newName,
               bone |-> IF home = None THEN c.bone ELSE home] \in Model!Cube
          BY <4>1, <5>2 DEF Model!Cube
        <5> QED BY <2>6, <5>1, <5>3 DEF SessionType
      <4> QED BY <4>2, <4>3
    <3> QED BY <2>1, <3>1, <3>2
  <2> QED BY <2>8, <2>9 DEF TreeInv
<1> QED BY <1>1, <1>2

\* delete_cube leaves a forest.
LEMMA DeleteCubeTree ==
  ASSUME TreeInv, NEW sels, Model!DeleteCube(sels)
  PROVE  TreeInv'
<1>1. CASE Model!Refuse
  BY <1>1, RefuseTree
<1>2. CASE ~Model!Refuse
  <2>1. PICK ns : editor' = Model!Without(ns)
    BY <1>2 DEF Model!DeleteCube
  <2>2. \E names : session' \in {Model!Active, Model!SessionRemoveCubes(Model!Active, names)}
    BY <1>2 DEF Model!DeleteCube
  <2>3. session' \in SessionType
    BY <2>2, ActiveType DEF Model!SessionRemoveCubes, SessionType
  <2> QED BY <2>1, <2>3, WithoutForest DEF TreeInv
<1> QED BY <1>1, <1>2

\* What the user does in Blockbench leaves a forest.
LEMMA UserEditTree ==
  ASSUME TreeInv, Model!UserEdit
  PROVE  TreeInv'
<1>1. Forest(editor) /\ session' \in SessionType
  BY DEF TreeInv, Model!UserEdit
<1>2. Model!Nodes("group") = Groups(editor)
  BY DEF Model!Nodes, Groups
<1>3. ASSUME NEW n \in Model!Fresh, NEW kind \in {"group", "cube"}, NEW name \in Name, NEW at \in Groups(editor) \cup {Top},
             editor' = Model!Place(editor, n, [kind |-> kind, name |-> name, in |-> at])
      PROVE  Forest(editor')
  BY <1>1, <1>3, PlaceNew DEF Model!Fresh
<1>4. ASSUME NEW n \in DOMAIN editor, editor' = Model!Without({n})
      PROVE  Forest(editor')
  BY <1>1, <1>4, WithoutForest
<1>5. ASSUME NEW n \in DOMAIN editor, NEW name \in Name, editor' = [editor EXCEPT ![n].name = name]
      PROVE  Forest(editor')
  <2>1. editor[n] \in [kind : {"group", "cube"}, name : Name, in : Groups(editor) \cup {Top}]
    BY <1>1 DEF Forest
  <2>2. DOMAIN editor' = DOMAIN editor /\ \A m \in DOMAIN editor : m # n => editor'[m] = editor[m]
    BY <1>5
  <2>3. editor'[n] = [kind |-> editor[n].kind, name |-> name, in |-> editor[n].in]
    BY <1>5, <2>1
  <2>4. editor[n].in \in Groups(editor) \cup {Top}
    BY <2>1
  <2> QED BY <1>1, <2>2, <2>3, <2>4, PlaceAgain
<1>6. ASSUME NEW n \in DOMAIN editor, NEW at \in Groups(editor) \cup {Top}, at \notin Model!Below({n}),
             editor' = [editor EXCEPT ![n].in = at]
      PROVE  Forest(editor')
  <2>1. editor[n] \in [kind : {"group", "cube"}, name : Name, in : Groups(editor) \cup {Top}]
    BY <1>1 DEF Forest
  <2>2. DOMAIN editor' = DOMAIN editor /\ \A m \in DOMAIN editor : m # n => editor'[m] = editor[m]
    BY <1>6
  <2>3. editor'[n] = [kind |-> editor[n].kind, name |-> editor[n].name, in |-> at]
    BY <1>6, <2>1
  <2>4. n \in Model!Below({n}) /\ ClosedBelow(editor, Model!Below({n}))
    BY <1>1, BelowIsClosed
  <2>5. editor[n].name \in Name
    BY <2>1
  <2> QED BY <1>1, <1>6, <2>2, <2>3, <2>4, <2>5, PlaceAgain, ZenonT(40)
<1>7. Forest(editor')
  BY <1>2, <1>3, <1>4, <1>5, <1>6 DEF Model!UserEdit
<1> QED BY <1>1, <1>7 DEF TreeInv

\* Every step leaves a forest.
LEMMA NextTree ==
  ASSUME TreeInv, Model!Next
  PROVE  TreeInv'
<1>1. CASE Model!UserEdit
  BY <1>1, UserEditTree
<1>2. CASE ~Model!UserEdit
  BY <1>2, AddBoneTree, UpdateBoneTree, DeleteBoneTree, AddCubeTree, UpdateCubeTree, DeleteCubeTree DEF Model!Next
<1> QED BY <1>1, <1>2

\* A forest is what OutlinerIsTree calls a tree.
LEMMA TreeInvIsTree ==
  ASSUME TreeInv
  PROVE  Model!OutlinerIsTree
<1>1. Forest(editor) /\ session \in SessionType
  BY DEF TreeInv
<1>2. Model!Nodes("group") = Groups(editor)
  BY DEF Model!Nodes, Groups
<1>3. DOMAIN editor \subseteq Node
      /\ \A n \in DOMAIN editor : editor[n] \in [kind : {"group", "cube"}, name : Name, in : Model!Nodes("group") \cup {Top}]
  BY <1>1, <1>2 DEF Forest
<1> QED BY <1>1, <1>3, AllBelowTop DEF Model!OutlinerIsTree, SessionType

\* THEOREM.  No sequence of renames, moves, deletions and additions, by the
\* tools (whose parents are names) or at Blockbench (whose parents are nodes),
\* closes a cycle in the outliner or leaves a node without its group.
THEOREM OutlinerStaysATree == Spec => []OutlinerIsTree
<1>1. Init => (part = "model" => TreeInv)
  <2> SUFFICES ASSUME part = "model", Init PROVE TreeInv
    OBVIOUS
  <2>1. Model!Init
    BY DEF Init
  <2>2. DOMAIN editor = {} /\ session \in SessionType
    BY <2>1 DEF Model!Init, SessionType
  <2> QED BY <2>2 DEF TreeInv, Forest
<1>2. (part = "model" => TreeInv) /\ [Next]_<<part, mvars, xvars>> => (part = "model" => TreeInv)'
  <2> SUFFICES ASSUME part = "model" => TreeInv, [Next]_<<part, mvars, xvars>>, part' = "model" PROVE TreeInv'
    OBVIOUS
  <2>1. CASE UNCHANGED <<part, mvars, xvars>>
    BY <2>1 DEF mvars, TreeInv, Forest, Groups, SessionType, Model!Bone, Model!Cube
  <2>2. CASE Next
    BY <2>2, NextTree DEF Next
  <2> QED BY <2>1, <2>2
<1>3. (part = "model" => TreeInv) => OutlinerIsTree
  BY TreeInvIsTree DEF OutlinerIsTree
<1> QED BY <1>1, <1>2, <1>3, PTL DEF Spec

----------------------------------------------------------------------------
(* The session mirrors the outliner                                        *)

\* Cubes outside every group have a group "root" to answer for them.
RootStands(ed) ==
    (\E n \in Cubes(ed) : ed[n].in = Top) => \E g \in Groups(ed) : ed[g].name = "root"

\* Then, and when names tell groups, and cubes, apart, trees of names and trees
\* of nodes are the same thing.
Apart(ed) ==
    /\ Forest(ed)
    /\ RootStands(ed)
    /\ \A g, h \in Groups(ed) : ed[g].name = ed[h].name => g = h
    /\ \A n, m \in Cubes(ed) : ed[n].name = ed[m].name => n = m

\* The session has the same names under the same names, each once.
Mirrors(s, ed) ==
    /\ \A g \in Groups(ed) : \E b \in s.bones : b.name = ed[g].name /\ b.parent = HomeName(ed, g)
    /\ \A b \in s.bones : \E g \in Groups(ed) : b.name = ed[g].name /\ b.parent = HomeName(ed, g)
    /\ \A n \in Cubes(ed) : \E c \in s.cubes : c.name = ed[n].name /\ c.bone = HomeName(ed, n)
    /\ \A c \in s.cubes : \E n \in Cubes(ed) : c.name = ed[n].name /\ c.bone = HomeName(ed, n)
    /\ \A b, d \in s.bones : b.name = d.name => b = d
    /\ \A c, d \in s.cubes : c.name = d.name => c = d

\* While nothing lets the two trees differ, names tell nodes apart, and an
\* active session mirrors the outliner.
MirrorInv ==
    /\ TreeInv /\ drift \in Nat
    /\ drift = 0 => Apart(editor) /\ (session.active => Mirrors(session, editor))

\* The groups and cubes of a forest, and what they are called.
LEMMA ForestNames ==
  ASSUME NEW ed, Forest(ed)
  PROVE  /\ \A n \in DOMAIN ed : /\ n \in Node /\ ed[n].name \in Name
                                 /\ ed[n].in = Top \/ ed[n].in \in Groups(ed)
                                 /\ n \in Groups(ed) \/ n \in Cubes(ed)
         /\ \A n \in DOMAIN ed : ed[n].in # Top => HomeName(ed, n) \in Name /\ HomeName(ed, n) # None
         /\ \A n \in Groups(ed) : ed[n].in = Top => HomeName(ed, n) = None
         /\ \A n \in Cubes(ed) : ed[n].in = Top => HomeName(ed, n) = "root"
         /\ \A n \in DOMAIN ed : ed[n].in # n
         /\ Groups(ed) \subseteq DOMAIN ed /\ Cubes(ed) \subseteq DOMAIN ed /\ Groups(ed) \cap Cubes(ed) = {}
<1>1. \A n \in DOMAIN ed : /\ n \in Node /\ ed[n].name \in Name
                           /\ ed[n].in = Top \/ ed[n].in \in Groups(ed)
                           /\ n \in Groups(ed) \/ n \in Cubes(ed)
  <2> TAKE n \in DOMAIN ed
  <2>1. ed[n] \in [kind : {"group", "cube"}, name : Name, in : Groups(ed) \cup {Top}] /\ n \in Node
    BY DEF Forest
  <2>2. ed[n].kind \in {"group", "cube"} /\ ed[n].name \in Name /\ ed[n].in \in Groups(ed) \cup {Top}
    BY <2>1
  <2> QED BY <2>1, <2>2 DEF Groups, Cubes
<1>2. Groups(ed) \subseteq DOMAIN ed /\ Cubes(ed) \subseteq DOMAIN ed /\ Groups(ed) \cap Cubes(ed) = {}
  BY DEF Groups, Cubes
<1>3. ASSUME NEW n \in DOMAIN ed, ed[n].in # Top PROVE HomeName(ed, n) \in Name /\ HomeName(ed, n) # None
  BY <1>1, <1>2, <1>3, TopIsNoNode DEF HomeName
<1>4. /\ \A n \in Groups(ed) : ed[n].in = Top => HomeName(ed, n) = None
      /\ \A n \in Cubes(ed) : ed[n].in = Top => HomeName(ed, n) = "root"
  BY DEF HomeName, Groups, Cubes
<1>5. ASSUME NEW n \in DOMAIN ed, ed[n].in = n PROVE FALSE
  <2>1. {n} \in SUBSET DOMAIN ed /\ {n} # {}
    OBVIOUS
  <2>2. \E m \in {n} : ed[m].in \notin {n}
    BY <2>1 DEF Forest
  <2> QED BY <1>5, <2>2
<1> QED BY <1>1, <1>2, <1>3, <1>4, <1>5

\* As long as names tell nodes apart the bones and cubes the tools are told of
\* are the groups and cubes of the outliner, and nothing else.
LEMMA LiveWhenApart ==
  ASSUME Apart(editor)
  PROVE  /\ \A g \in Groups(editor) :
              [id |-> g, name |-> editor[g].name, parent |-> HomeName(editor, g)] \in Model!LiveBones
         /\ \A b \in Model!LiveBones :
              b.id \in Groups(editor) /\ b = [id |-> b.id, name |-> editor[b.id].name, parent |-> HomeName(editor, b.id)]
         /\ \A n \in Cubes(editor) :
              [id |-> n, name |-> editor[n].name, bone |-> HomeName(editor, n)] \in Model!LiveCubes
         /\ \A c \in Model!LiveCubes :
              c.id \in Cubes(editor) /\ c = [id |-> c.id, name |-> editor[c.id].name, bone |-> HomeName(editor, c.id)]
<1> DEFINE cube(n) == [id |-> n, name |-> editor[n].name,
                       bone |-> IF editor[n].in = Top THEN "root" ELSE editor[editor[n].in].name]
           bone(g) == [id |-> g, name |-> editor[g].name, parent |-> HomeName(editor, g)]
           groups == {bone(g) : g \in Groups(editor)}
           virtual == [id |-> None, name |-> "root", parent |-> None]
<1>1. Forest(editor) /\ RootStands(editor)
  BY DEF Apart
<1>2. Model!LiveCubes = {cube(n) : n \in Cubes(editor)}
  BY DEF Model!LiveCubes, Model!Nodes, Cubes
<1>3. \A n \in Cubes(editor) : cube(n) = [id |-> n, name |-> editor[n].name, bone |-> HomeName(editor, n)]
  BY DEF HomeName, Cubes
<1>4. Model!LiveBones = groups
  <2>1. Model!LiveBones = IF (\A b \in groups : b.name # "root") /\ \E c \in Model!LiveCubes : c.bone = "root"
                          THEN groups \cup {virtual} ELSE groups
    BY DEF Model!LiveBones, Model!Nodes, Groups, HomeName
  <2>2. ASSUME NEW c \in Model!LiveCubes, c.bone = "root" PROVE \E b \in groups : b.name = "root"
    <3>1. PICK n \in Cubes(editor) : c = cube(n)
      BY <1>2
    <3>2. \E g \in Groups(editor) : editor[g].name = "root"
      <4>1. CASE editor[n].in = Top
        BY <1>1, <4>1 DEF RootStands
      <4>2. CASE editor[n].in # Top
        <5>1. editor[n].in \in Groups(editor) /\ editor[editor[n].in].name = "root"
          BY <1>1, <2>2, <3>1, <4>2, ForestNames
        <5> QED BY <5>1
      <4> QED BY <4>1, <4>2
    <3>3. PICK g \in Groups(editor) : editor[g].name = "root"
      BY <3>2
    <3>4. bone(g) \in groups /\ bone(g).name = "root"
      BY <3>3
    <3> QED BY <3>4
  <2> HIDE DEF groups
  <2> QED BY <2>1, <2>2
<1>5. \A b \in groups : b.id \in Groups(editor) /\ b = bone(b.id)
  OBVIOUS
<1>6. \A g \in Groups(editor) : bone(g) \in groups
  OBVIOUS
<1>7. \A c \in Model!LiveCubes : c.id \in Cubes(editor) /\ c = cube(c.id)
  BY <1>2
<1>8. \A n \in Cubes(editor) : cube(n) \in Model!LiveCubes
  BY <1>2
<1> HIDE DEF groups
<1> QED BY <1>3, <1>4, <1>5, <1>6, <1>7, <1>8

\* Names in use are the names of groups, and of cubes.
LEMMA NamesWhenApart ==
  ASSUME Apart(editor)
  PROVE  /\ \A x : x \in Model!Names(Model!LiveBones) <=> \E g \in Groups(editor) : x = editor[g].name
         /\ \A x : x \in Model!Names(Model!LiveCubes) <=> \E n \in Cubes(editor) : x = editor[n].name
<1>1. /\ \A g \in Groups(editor) : \E b \in Model!LiveBones : b.name = editor[g].name
      /\ \A n \in Cubes(editor) : \E c \in Model!LiveCubes : c.name = editor[n].name
  BY LiveWhenApart
<1>2. /\ \A b \in Model!LiveBones : \E g \in Groups(editor) : b.name = editor[g].name
      /\ \A c \in Model!LiveCubes : \E n \in Cubes(editor) : c.name = editor[n].name
  BY LiveWhenApart
<1> QED BY <1>1, <1>2 DEF Model!Names

\* The session as ensureActive makes it.
Live == [active |-> TRUE, bones |-> Model!LiveBones, cubes |-> Model!LiveCubes]

\* What the tools are told mirrors the outliner.
LEMMA LiveMirrors ==
  ASSUME Apart(editor)
  PROVE  Mirrors(Live, editor)
<1>1. /\ \A g \in Groups(editor) : \E b \in Model!LiveBones : b.name = editor[g].name /\ b.parent = HomeName(editor, g)
      /\ \A n \in Cubes(editor) : \E c \in Model!LiveCubes : c.name = editor[n].name /\ c.bone = HomeName(editor, n)
  BY LiveWhenApart
<1>2. /\ \A b \in Model!LiveBones : \E g \in Groups(editor) : b.name = editor[g].name /\ b.parent = HomeName(editor, g)
      /\ \A c \in Model!LiveCubes : \E n \in Cubes(editor) : c.name = editor[n].name /\ c.bone = HomeName(editor, n)
  BY LiveWhenApart
<1>3. ASSUME NEW b \in Model!LiveBones, NEW d \in Model!LiveBones, b.name = d.name PROVE b = d
  <2>1. b.id \in Groups(editor) /\ d.id \in Groups(editor) /\ b.name = editor[b.id].name /\ d.name = editor[d.id].name
    BY LiveWhenApart
  <2>2. b.id = d.id
    BY <1>3, <2>1 DEF Apart
  <2> QED BY <2>2, LiveWhenApart
<1>4. ASSUME NEW c \in Model!LiveCubes, NEW d \in Model!LiveCubes, c.name = d.name PROVE c = d
  <2>1. c.id \in Cubes(editor) /\ d.id \in Cubes(editor) /\ c.name = editor[c.id].name /\ d.name = editor[d.id].name
    BY LiveWhenApart
  <2>2. c.id = d.id
    BY <1>4, <2>1 DEF Apart
  <2> QED BY <2>2, LiveWhenApart
<1> QED BY <1>1, <1>2, <1>3, <1>4 DEF Mirrors, Live

\* What an inactive session attaches to mirrors the outliner.
LEMMA ActiveMirrors ==
  ASSUME MirrorInv, drift = 0
  PROVE  Apart(editor) /\ Mirrors(Model!Active, editor) /\ Model!Active.active /\ Model!Active \in SessionType
<1>1. Apart(editor) /\ TreeInv /\ session \in SessionType /\ (session.active => Mirrors(session, editor))
  BY DEF MirrorInv, TreeInv
<1>2. CASE session.active
  BY <1>1, <1>2 DEF Model!Active
<1>3. CASE ~session.active
  <2>1. Model!Active = Live
    BY <1>3 DEF Model!Active, Live
  <2>2. Mirrors(Live, editor) /\ Live.active
    BY <1>1, LiveMirrors DEF Live
  <2> QED BY <1>1, <2>1, <2>2, ActiveType
<1> QED BY <1>2, <1>3

\* One more node, the others called and placed as before.
OneMore(new, ed, n, node) ==
    /\ new[n] = node /\ DOMAIN new = DOMAIN ed \cup {n}
    /\ \A m \in DOMAIN ed : new[m] = ed[m] /\ HomeName(new, m) = HomeName(ed, m)
    /\ node.kind = "group" => Groups(new) = Groups(ed) \cup {n} /\ Cubes(new) = Cubes(ed)
    /\ node.kind = "cube" => Groups(new) = Groups(ed) /\ Cubes(new) = Cubes(ed) \cup {n}
    /\ HomeName(new, n) = IF node.in # Top THEN new[node.in].name
                          ELSE IF node.kind = "cube" THEN "root" ELSE None

\* A node added leaves the others what they are called and where they are.
LEMMA PlaceKeeps ==
  ASSUME NEW ed, Forest(ed), NEW n \in Node \ DOMAIN ed, NEW node
  PROVE  OneMore(Model!Place(ed, n, node), ed, n, node)
<1> DEFINE new == Model!Place(ed, n, node)
<1>1. new[n] = node /\ DOMAIN new = DOMAIN ed \cup {n} /\ \A m \in DOMAIN ed : new[m] = ed[m]
  BY DEF Model!Place
<1> HIDE DEF new
<1>2. \A m \in DOMAIN ed : HomeName(new, m) = HomeName(ed, m)
  <2> TAKE m \in DOMAIN ed
  <2>1. ed[m].in # Top => ed[m].in \in DOMAIN ed
    BY ForestNames
  <2> QED BY <1>1, <2>1 DEF HomeName
<1>3. HomeName(new, n) = IF node.in # Top THEN new[node.in].name
                         ELSE IF node.kind = "cube" THEN "root" ELSE None
  BY <1>1 DEF HomeName
<1>4. node.kind = "group" => Groups(new) = Groups(ed) \cup {n} /\ Cubes(new) = Cubes(ed)
  BY <1>1 DEF Groups, Cubes
<1>5. node.kind = "cube" => Groups(new) = Groups(ed) /\ Cubes(new) = Cubes(ed) \cup {n}
  BY <1>1 DEF Groups, Cubes
<1>6. OneMore(new, ed, n, node)
  BY <1>1, <1>2, <1>3, <1>4, <1>5 DEF OneMore
<1> QED BY <1>6 DEF new

\* A bone b of a new name is a group n at the same place.
BoneJoins(ed, s, n, name, at, b, new, t) ==
    /\ n \in Node \ DOMAIN ed /\ name \in Name /\ \A g \in Groups(ed) : ed[g].name # name
    /\ at \in Groups(ed) \cup {Top}
    /\ b.name = name /\ b.parent = IF at = Top THEN None ELSE ed[at].name
    /\ new = Model!Place(ed, n, [kind |-> "group", name |-> name, in |-> at])
    /\ t.bones = s.bones \cup {b} /\ t.cubes = s.cubes

\* A bone added to both trees, under the same parent, keeps them alike.
LEMMA BoneAdded ==
  ASSUME NEW ed, Apart(ed), NEW s, Mirrors(s, ed), NEW n, NEW name, NEW at, NEW b, NEW new, NEW t,
         BoneJoins(ed, s, n, name, at, b, new, t)
  PROVE  Apart(new) /\ Mirrors(t, new)
<1> USE DEF BoneJoins
<1>1. Forest(ed) /\ Forest(new)
  BY PlaceNew DEF Apart
<1>2. /\ new[n].name = name /\ new[n].in = at
      /\ \A m \in DOMAIN ed : new[m] = ed[m] /\ HomeName(new, m) = HomeName(ed, m)
      /\ Groups(new) = Groups(ed) \cup {n} /\ Cubes(new) = Cubes(ed)
      /\ HomeName(new, n) = IF at = Top THEN None ELSE new[at].name
  <2> DEFINE node == [kind |-> "group", name |-> name, in |-> at]
  <2>1. node.kind = "group" /\ node.name = name /\ node.in = at /\ new = Model!Place(ed, n, node)
    OBVIOUS
  <2> HIDE DEF node
  <2>2. OneMore(new, ed, n, node)
    BY <1>1, <2>1, PlaceKeeps
  <2> QED BY <1>1, <2>1, <2>2 DEF OneMore
<1>3. Groups(ed) \subseteq DOMAIN ed /\ Cubes(ed) \subseteq DOMAIN ed
  BY DEF Groups, Cubes
<1>4. HomeName(new, n) = b.parent
  BY <1>2, <1>3
<1>5. Apart(new)
  <2>1. RootStands(new)
    BY <1>2, <1>3 DEF Apart, RootStands
  <2> QED BY <1>1, <1>2, <1>3, <2>1 DEF Apart
<1>6. \A g \in Groups(new) : \E d \in t.bones : d.name = new[g].name /\ d.parent = HomeName(new, g)
  BY <1>2, <1>3, <1>4 DEF Mirrors
<1>7. \A d \in t.bones : \E g \in Groups(new) : d.name = new[g].name /\ d.parent = HomeName(new, g)
  BY <1>2, <1>3, <1>4 DEF Mirrors
<1>8. \A d \in s.bones : d.name # b.name
  BY DEF Mirrors
<1>9. \A d, e \in t.bones : d.name = e.name => d = e
  BY <1>8 DEF Mirrors
<1>10. /\ \A m \in Cubes(new) : \E c \in t.cubes : c.name = new[m].name /\ c.bone = HomeName(new, m)
       /\ \A c \in t.cubes : \E m \in Cubes(new) : c.name = new[m].name /\ c.bone = HomeName(new, m)
       /\ \A c, d \in t.cubes : c.name = d.name => c = d
  BY <1>2, <1>3 DEF Mirrors
<1> QED BY <1>5, <1>6, <1>7, <1>9, <1>10 DEF Mirrors

\* A cube c of a new name is a cube n in the group of the same name; one outside
\* every group is in "root".
CubeJoins(ed, s, n, name, at, c, new, t) ==
    /\ n \in Node \ DOMAIN ed /\ name \in Name /\ \A m \in Cubes(ed) : ed[m].name # name
    /\ at \in Groups(ed) \cup {Top} /\ RootStands(new)
    /\ c.name = name /\ c.bone = IF at = Top THEN "root" ELSE ed[at].name
    /\ new = Model!Place(ed, n, [kind |-> "cube", name |-> name, in |-> at])
    /\ t.bones = s.bones /\ t.cubes = s.cubes \cup {c}

\* A cube added to both trees, in the same group, keeps them alike.
LEMMA CubeAdded ==
  ASSUME NEW ed, Apart(ed), NEW s, Mirrors(s, ed), NEW n, NEW name, NEW at, NEW c, NEW new, NEW t,
         CubeJoins(ed, s, n, name, at, c, new, t)
  PROVE  Apart(new) /\ Mirrors(t, new)
<1> USE DEF CubeJoins
<1>1. Forest(ed) /\ Forest(new)
  BY PlaceNew DEF Apart
<1>2. /\ new[n].name = name /\ new[n].in = at
      /\ \A m \in DOMAIN ed : new[m] = ed[m] /\ HomeName(new, m) = HomeName(ed, m)
      /\ Groups(new) = Groups(ed) /\ Cubes(new) = Cubes(ed) \cup {n}
      /\ HomeName(new, n) = IF at = Top THEN "root" ELSE new[at].name
  <2> DEFINE node == [kind |-> "cube", name |-> name, in |-> at]
  <2>1. node.kind = "cube" /\ node.name = name /\ node.in = at /\ new = Model!Place(ed, n, node)
    OBVIOUS
  <2> HIDE DEF node
  <2>2. OneMore(new, ed, n, node)
    BY <1>1, <2>1, PlaceKeeps
  <2> QED BY <1>1, <2>1, <2>2 DEF OneMore
<1>3. Groups(ed) \subseteq DOMAIN ed /\ Cubes(ed) \subseteq DOMAIN ed
  BY DEF Groups, Cubes
<1>4. HomeName(new, n) = c.bone
  BY <1>2, <1>3
<1>5. Apart(new)
  BY <1>1, <1>2, <1>3 DEF Apart
<1>6. \A m \in Cubes(new) : \E d \in t.cubes : d.name = new[m].name /\ d.bone = HomeName(new, m)
  BY <1>2, <1>3, <1>4 DEF Mirrors
<1>7. \A d \in t.cubes : \E m \in Cubes(new) : d.name = new[m].name /\ d.bone = HomeName(new, m)
  BY <1>2, <1>3, <1>4 DEF Mirrors
<1>8. \A d \in s.cubes : d.name # c.name
  BY DEF Mirrors
<1>9. \A d, e \in t.cubes : d.name = e.name => d = e
  BY <1>8 DEF Mirrors
<1>10. /\ \A g \in Groups(new) : \E b \in t.bones : b.name = new[g].name /\ b.parent = HomeName(new, g)
       /\ \A b \in t.bones : \E g \in Groups(new) : b.name = new[g].name /\ b.parent = HomeName(new, g)
       /\ \A b, d \in t.bones : b.name = d.name => b = d
  BY <1>2, <1>3 DEF Mirrors
<1> QED BY <1>5, <1>6, <1>7, <1>9, <1>10 DEF Mirrors

\* One node is called otherwise, by a free name, or placed otherwise.
NodeChanges(ed, new, n, nodes, name) ==
    /\ n \in nodes /\ name \in Name /\ \A m \in nodes : ed[m].name = name => m = n
    /\ Forest(new) /\ RootStands(new) /\ DOMAIN new = DOMAIN ed /\ Groups(new) = Groups(ed)
    /\ new[n].name = name /\ \A m \in DOMAIN ed : m # n => new[m] = ed[m]

\* The session's bone changes with the outliner's.
BoneChanges(ed, s, n, id, newName, parent, new, t) ==
    /\ NodeChanges(ed, new, n, Groups(ed), IF newName = None THEN ed[n].name ELSE newName)
    /\ HomeName(new, n) = IF parent = "same" THEN HomeName(ed, n) ELSE parent
    /\ t = Model!SessionUpdateBone(s, ed[n].name, id, newName, parent)

\* A bone with another name and parent in both trees, the others following its
\* name, keeps them alike.
LEMMA BoneUpdated ==
  ASSUME NEW ed, Apart(ed), NEW s \in SessionType, Mirrors(s, ed),
         NEW n, NEW id, NEW newName, NEW parent, NEW new, NEW t,
         BoneChanges(ed, s, n, id, newName, parent, new, t)
  PROVE  Apart(new) /\ Mirrors(t, new)
<1> USE DEF BoneChanges, NodeChanges
<1> DEFINE name == IF newName = None THEN ed[n].name ELSE newName
<1> DEFINE old == ed[n].name
           follow(x) == IF x = old THEN name ELSE x
           bone(b) == IF b.name = old
                      THEN [id |-> id, name |-> name, parent |-> IF parent = "same" THEN b.parent ELSE parent]
                      ELSE [b EXCEPT !.parent = follow(b.parent)]
           cube(c) == [c EXCEPT !.bone = follow(c.bone)]
<1>1. Forest(ed) /\ Cubes(new) = Cubes(ed) /\ n \notin Cubes(ed)
  <2>1. Forest(ed)
    BY DEF Apart
  <2>2. \A m \in DOMAIN ed : (m \in Groups(ed) <=> m \notin Cubes(ed)) /\ (m \in Groups(new) <=> m \notin Cubes(new))
    BY <2>1, ForestNames
  <2>3. Cubes(ed) \subseteq DOMAIN ed /\ Cubes(new) \subseteq DOMAIN ed /\ Groups(ed) \subseteq DOMAIN ed
    BY DEF Cubes, Groups
  <2> QED BY <2>1, <2>2, <2>3
<1>2. Groups(ed) \subseteq DOMAIN ed /\ Cubes(ed) \subseteq DOMAIN ed
  BY DEF Groups, Cubes
<1>3. ASSUME NEW m \in DOMAIN ed, m # n PROVE HomeName(new, m) = follow(HomeName(ed, m))
  <2>1. new[m] = ed[m]
    BY <1>3
  <2>2. CASE ed[m].in = Top
    <3>1. HomeName(ed, m) = HomeName(new, m) /\ old # None
      BY <1>1, <1>2, <2>1, <2>2, ForestNames, TopIsNoNode DEF HomeName
    <3>2. CASE m \in Groups(ed)
      BY <1>1, <2>2, <3>1, <3>2, ForestNames
    <3>3. CASE m \in Cubes(ed)
      <4>1. HomeName(ed, m) = "root" /\ m \in Cubes(new) /\ new[m].in = Top
        BY <1>1, <2>1, <2>2, <3>3, ForestNames
      <4>2. PICK g \in Groups(ed) : new[g].name = "root"
        BY <4>1 DEF RootStands
      <4>3. old = "root" => name = "root"
        <5>1. CASE g = n
          BY <4>2, <5>1
        <5>2. CASE g # n
          BY <1>2, <4>2, <5>2 DEF Apart
        <5> QED BY <5>1, <5>2
      <4> QED BY <3>1, <4>1, <4>3
    <3> QED BY <1>1, <3>2, <3>3, ForestNames
  <2>3. CASE ed[m].in = n
    <3>1. HomeName(ed, m) = old /\ HomeName(new, m) = name
      BY <1>2, <2>1, <2>3, <1>1, TopIsNoNode, ForestNames DEF HomeName
    <3> QED BY <3>1
  <2>4. CASE ed[m].in # Top /\ ed[m].in # n
    <3>1. ed[m].in \in Groups(ed)
      BY <1>1, <2>4, ForestNames
    <3>2. HomeName(ed, m) = ed[ed[m].in].name /\ HomeName(new, m) = ed[ed[m].in].name
      BY <1>2, <2>1, <2>4, <3>1 DEF HomeName
    <3>3. ed[ed[m].in].name # old
      BY <2>4, <3>1 DEF Apart
    <3> QED BY <3>2, <3>3
  <2> QED BY <2>2, <2>3, <2>4
<1>4. t.bones = {bone(b) : b \in s.bones} /\ t.cubes = {cube(c) : c \in s.cubes}
  BY DEF Model!SessionUpdateBone, SessionType
<1>5. ASSUME NEW b \in s.bones, NEW g \in Groups(ed), b.name = ed[g].name, b.parent = HomeName(ed, g)
      PROVE  bone(b).name = new[g].name /\ bone(b).parent = HomeName(new, g)
  <2>1. b \in Model!Bone
    BY DEF SessionType
  <2>2. CASE g = n
    BY <1>5, <2>2
  <2>3. CASE g # n
    <3>1. b.name # old /\ new[g] = ed[g]
      BY <1>2, <1>5, <2>3 DEF Apart
    <3>2. HomeName(new, g) = follow(HomeName(ed, g))
      BY <1>2, <1>3, <2>3
    <3>3. bone(b) = [b EXCEPT !.parent = follow(b.parent)]
      BY <3>1
    <3> HIDE DEF bone, follow
    <3>4. bone(b).name = b.name /\ bone(b).parent = follow(b.parent)
      BY <2>1, <3>3 DEF Model!Bone
    <3> QED BY <1>5, <3>1, <3>2, <3>4
  <2> QED BY <2>2, <2>3
<1>6. ASSUME NEW c \in s.cubes, NEW m \in Cubes(ed), c.name = ed[m].name, c.bone = HomeName(ed, m)
      PROVE  cube(c).name = new[m].name /\ cube(c).bone = HomeName(new, m)
  <2>1. c \in Model!Cube
    BY DEF SessionType
  <2>2. HomeName(new, m) = follow(HomeName(ed, m)) /\ new[m] = ed[m]
    BY <1>1, <1>2, <1>3
  <2> HIDE DEF follow
  <2>3. cube(c).name = c.name /\ cube(c).bone = follow(c.bone)
    BY <2>1 DEF Model!Cube
  <2> QED BY <1>6, <2>2, <2>3
<1> HIDE DEF bone, cube
<1>7. Apart(new)
  <2>1. RootStands(new)
    OBVIOUS
  <2>2. \A g, h \in Groups(new) : new[g].name = new[h].name => g = h
    BY <1>2 DEF Apart
  <2>3. \A m, k \in Cubes(new) : new[m].name = new[k].name => m = k
    BY <1>1, <1>2 DEF Apart
  <2> QED BY <2>1, <2>2, <2>3 DEF Apart
<1>8. \A g \in Groups(new) : \E b \in t.bones : b.name = new[g].name /\ b.parent = HomeName(new, g)
  <2> TAKE g \in Groups(new)
  <2>1. PICK b \in s.bones : b.name = ed[g].name /\ b.parent = HomeName(ed, g)
    BY DEF Mirrors
  <2> QED BY <1>4, <1>5, <2>1
<1>9. \A b \in t.bones : \E g \in Groups(new) : b.name = new[g].name /\ b.parent = HomeName(new, g)
  <2> TAKE b \in t.bones
  <2>1. PICK d \in s.bones : b = bone(d)
    BY <1>4
  <2>2. PICK g \in Groups(ed) : d.name = ed[g].name /\ d.parent = HomeName(ed, g)
    BY DEF Mirrors
  <2> QED BY <1>5, <2>1, <2>2
<1>10. \A m \in Cubes(new) : \E c \in t.cubes : c.name = new[m].name /\ c.bone = HomeName(new, m)
  <2> TAKE m \in Cubes(new)
  <2>1. PICK c \in s.cubes : c.name = ed[m].name /\ c.bone = HomeName(ed, m)
    BY <1>1 DEF Mirrors
  <2> QED BY <1>1, <1>4, <1>6, <2>1
<1>11. \A c \in t.cubes : \E m \in Cubes(new) : c.name = new[m].name /\ c.bone = HomeName(new, m)
  <2> TAKE c \in t.cubes
  <2>1. PICK d \in s.cubes : c = cube(d)
    BY <1>4
  <2>2. PICK m \in Cubes(ed) : d.name = ed[m].name /\ d.bone = HomeName(ed, m)
    BY DEF Mirrors
  <2> QED BY <1>1, <1>6, <2>1, <2>2
<1>12. ASSUME NEW b \in t.bones, NEW d \in t.bones, b.name = d.name PROVE b = d
  <2>1. PICK x \in s.bones, y \in s.bones : b = bone(x) /\ d = bone(y)
    BY <1>4
  <2>2. PICK g \in Groups(ed), h \in Groups(ed) : /\ x.name = ed[g].name /\ x.parent = HomeName(ed, g)
                                                  /\ y.name = ed[h].name /\ y.parent = HomeName(ed, h)
    BY DEF Mirrors
  <2>3. new[g].name = new[h].name
    BY <1>5, <1>12, <2>1, <2>2
  <2>4. g = h
    BY <1>7, <2>3 DEF Apart
  <2>5. x = y
    BY <2>2, <2>4 DEF Mirrors
  <2> QED BY <2>1, <2>5
<1>13. ASSUME NEW c \in t.cubes, NEW d \in t.cubes, c.name = d.name PROVE c = d
  <2>1. PICK x \in s.cubes, y \in s.cubes : c = cube(x) /\ d = cube(y)
    BY <1>4
  <2>2. PICK m \in Cubes(ed), k \in Cubes(ed) : /\ x.name = ed[m].name /\ x.bone = HomeName(ed, m)
                                                /\ y.name = ed[k].name /\ y.bone = HomeName(ed, k)
    BY DEF Mirrors
  <2>3. new[m].name = new[k].name
    BY <1>6, <1>13, <2>1, <2>2
  <2>4. m = k
    BY <1>1, <1>7, <2>3 DEF Apart
  <2>5. x = y
    BY <2>2, <2>4 DEF Mirrors
  <2> QED BY <2>1, <2>5
<1> QED BY <1>7, <1>8, <1>9, <1>10, <1>11, <1>12, <1>13 DEF Mirrors

\* Some nodes less, the others called and placed as before.
SomeLess(new, ed, C) ==
    /\ Groups(new) = Groups(ed) \ C /\ Cubes(new) = Cubes(ed) \ C
    /\ \A m \in Groups(new) \cup Cubes(new) : new[m] = ed[m] /\ HomeName(new, m) = HomeName(ed, m)

\* What is left when a set goes with all below it is called and placed as before.
LEMMA RestKeeps ==
  ASSUME NEW ed, Apart(ed), NEW C, ClosedBelow(ed, C), RootStands([m \in DOMAIN ed \ C |-> ed[m]])
  PROVE  Apart([m \in DOMAIN ed \ C |-> ed[m]]) /\ SomeLess([m \in DOMAIN ed \ C |-> ed[m]], ed, C)
<1> DEFINE new == [m \in DOMAIN ed \ C |-> ed[m]]
<1>1. DOMAIN new = DOMAIN ed \ C /\ \A m \in DOMAIN new : new[m] = ed[m]
  OBVIOUS
<1>2. Forest(ed) /\ Forest(new) /\ RootStands(new)
  BY RestForest DEF Apart
<1> HIDE DEF new
<1>3. Groups(new) = Groups(ed) \ C /\ Cubes(new) = Cubes(ed) \ C
  BY <1>1 DEF Groups, Cubes
<1>4. ASSUME NEW m \in DOMAIN new PROVE HomeName(new, m) = HomeName(ed, m)
  <2>1. new[m].in = ed[m].in /\ (ed[m].in # Top => ed[m].in \in DOMAIN new)
    BY <1>1, <1>2, ForestNames
  <2> QED BY <1>1, <2>1 DEF HomeName
<1>5. Groups(new) \subseteq DOMAIN new /\ Cubes(new) \subseteq DOMAIN new
  BY DEF Groups, Cubes
<1>6. Apart(new)
  BY <1>1, <1>2, <1>3, <1>5 DEF Apart
<1>7. SomeLess(new, ed, C)
  BY <1>1, <1>3, <1>4, <1>5 DEF SomeLess
<1> QED BY <1>6, <1>7 DEF new

\* C is the groups of these names, and the cubes in them.
Named(ed, C, names) ==
    /\ \A g \in Groups(ed) : g \in C <=> ed[g].name \in names
    /\ \A n \in Cubes(ed) : n \in C <=> ed[n].in \in C
    /\ Top \notin C

\* Bones that go from the outliner with all below them, and from the session by
\* their names with their cubes, leave the two alike.
LEMMA BonesRemoved ==
  ASSUME NEW ed, Apart(ed), NEW s \in SessionType, Mirrors(s, ed), NEW C, ClosedBelow(ed, C), NEW names,
         Named(ed, C, names),
         NEW new, new = [m \in DOMAIN ed \ C |-> ed[m]], RootStands(new),
         NEW t, t = Model!SessionRemoveBones(s, names)
  PROVE  Apart(new) /\ Mirrors(t, new)
<1> USE DEF Named
<1>1. Apart(new) /\ SomeLess(new, ed, C)
  BY RestKeeps
<1>2. /\ Groups(new) = Groups(ed) \ C /\ Cubes(new) = Cubes(ed) \ C
      /\ \A m \in Groups(new) \cup Cubes(new) : new[m] = ed[m] /\ HomeName(new, m) = HomeName(ed, m)
  BY <1>1 DEF SomeLess
<1>3. t.bones = {b \in s.bones : b.name \notin names} /\ t.cubes = {c \in s.cubes : c.bone \notin names}
  BY DEF Model!SessionRemoveBones, SessionType
<1>4. \A n \in Cubes(ed) : n \in C <=> HomeName(ed, n) \in names
  <2> TAKE n \in Cubes(ed)
  <2>1. Forest(ed) /\ n \in DOMAIN ed
    BY DEF Apart, Cubes
  <2>2. CASE ed[n].in # Top
    <3>1. ed[n].in \in Groups(ed) /\ HomeName(ed, n) = ed[ed[n].in].name
      BY <2>1, <2>2, ForestNames DEF HomeName
    <3> QED BY <3>1
  <2>3. CASE ed[n].in = Top
    <3>1. n \notin C /\ n \in Cubes(new) /\ new[n].in = Top /\ HomeName(ed, n) = "root"
      BY <1>2, <2>1, <2>3, ForestNames
    <3>2. PICK g \in Groups(new) : new[g].name = "root"
      BY <3>1 DEF RootStands
    <3>3. g \in Groups(ed) \ C /\ ed[g].name = "root"
      BY <1>2, <3>2
    <3> QED BY <3>1, <3>3
  <2> QED BY <2>2, <2>3
<1>5. ASSUME NEW g \in Groups(new) PROVE \E b \in t.bones : b.name = new[g].name /\ b.parent = HomeName(new, g)
  <2>1. PICK b \in s.bones : b.name = ed[g].name /\ b.parent = HomeName(ed, g)
    BY <1>2 DEF Mirrors
  <2>2. ed[g].name \notin names /\ new[g] = ed[g] /\ HomeName(new, g) = HomeName(ed, g)
    BY <1>2
  <2> QED BY <1>3, <2>1, <2>2
<1>6. ASSUME NEW b \in t.bones PROVE \E g \in Groups(new) : b.name = new[g].name /\ b.parent = HomeName(new, g)
  <2>1. PICK g \in Groups(ed) : b.name = ed[g].name /\ b.parent = HomeName(ed, g)
    BY <1>3 DEF Mirrors
  <2>2. g \in Groups(new)
    BY <1>2, <1>3, <2>1
  <2>3. new[g] = ed[g] /\ HomeName(new, g) = HomeName(ed, g)
    BY <1>2, <2>2
  <2> QED BY <2>1, <2>2, <2>3
<1>7. ASSUME NEW n \in Cubes(new) PROVE \E c \in t.cubes : c.name = new[n].name /\ c.bone = HomeName(new, n)
  <2>1. PICK c \in s.cubes : c.name = ed[n].name /\ c.bone = HomeName(ed, n)
    BY <1>2 DEF Mirrors
  <2>2. HomeName(ed, n) \notin names /\ new[n] = ed[n] /\ HomeName(new, n) = HomeName(ed, n)
    BY <1>2, <1>4
  <2> QED BY <1>3, <2>1, <2>2
<1>8. ASSUME NEW c \in t.cubes PROVE \E n \in Cubes(new) : c.name = new[n].name /\ c.bone = HomeName(new, n)
  <2>1. PICK n \in Cubes(ed) : c.name = ed[n].name /\ c.bone = HomeName(ed, n)
    BY <1>3 DEF Mirrors
  <2>2. c.bone \notin names
    BY <1>3
  <2>3. n \notin C
    <3>1. n \in C => HomeName(ed, n) \in names
      BY <1>4, <2>1
    <3> QED BY <2>1, <2>2, <3>1
  <2>4. n \in Cubes(new)
    BY <1>2, <2>3
  <2>5. new[n] = ed[n] /\ HomeName(new, n) = HomeName(ed, n)
    BY <1>2, <2>4
  <2> QED BY <2>1, <2>4, <2>5
<1>9. (\A b, d \in t.bones : b.name = d.name => b = d) /\ (\A c, d \in t.cubes : c.name = d.name => c = d)
  BY <1>3 DEF Mirrors
<1> QED BY <1>1, <1>5, <1>6, <1>7, <1>8, <1>9 DEF Mirrors

\* Cubes that go from both trees, by their names from the session, leave the
\* two alike.
LEMMA CubesRemoved ==
  ASSUME NEW ed, Apart(ed), NEW s \in SessionType, Mirrors(s, ed), NEW C, C \subseteq Cubes(ed), NEW names,
         \A n \in Cubes(ed) : n \in C <=> ed[n].name \in names,
         NEW new, new = [m \in DOMAIN ed \ C |-> ed[m]],
         NEW t, t = Model!SessionRemoveCubes(s, names)
  PROVE  Apart(new) /\ Mirrors(t, new)
<1>1. ClosedBelow(ed, C)
  <2>1. Forest(ed)
    BY DEF Apart
  <2>2. Top \notin C
    BY <2>1, TopIsNoNode, ForestNames
  <2>3. \A m \in DOMAIN ed : ed[m].in \notin C
    BY <2>1, <2>2, ForestNames
  <2> QED BY <2>3 DEF ClosedBelow
<1>2. Apart(new) /\ SomeLess(new, ed, C)
  <2>1. RootStands(new)
    BY DEF Apart, RootStands, Groups, Cubes
  <2> QED BY <1>1, <2>1, RestKeeps
<1>3. /\ Groups(new) = Groups(ed) /\ Cubes(new) = Cubes(ed) \ C
      /\ \A m \in Groups(new) \cup Cubes(new) : new[m] = ed[m] /\ HomeName(new, m) = HomeName(ed, m)
  BY <1>2 DEF SomeLess, Groups, Cubes
<1>4. t.bones = s.bones /\ t.cubes = {c \in s.cubes : c.name \notin names}
  BY DEF Model!SessionRemoveCubes, SessionType
<1>5. /\ \A g \in Groups(new) : \E b \in t.bones : b.name = new[g].name /\ b.parent = HomeName(new, g)
      /\ \A b \in t.bones : \E g \in Groups(new) : b.name = new[g].name /\ b.parent = HomeName(new, g)
  <2>1. \A g \in Groups(ed) : new[g] = ed[g] /\ HomeName(new, g) = HomeName(ed, g)
    BY <1>3
  <2>2. ASSUME NEW g \in Groups(new) PROVE \E b \in t.bones : b.name = new[g].name /\ b.parent = HomeName(new, g)
    <3>1. PICK b \in s.bones : b.name = ed[g].name /\ b.parent = HomeName(ed, g)
      BY <1>3 DEF Mirrors
    <3> QED BY <1>3, <1>4, <2>1, <3>1
  <2>3. ASSUME NEW b \in t.bones PROVE \E g \in Groups(new) : b.name = new[g].name /\ b.parent = HomeName(new, g)
    <3>1. PICK g \in Groups(ed) : b.name = ed[g].name /\ b.parent = HomeName(ed, g)
      BY <1>4 DEF Mirrors
    <3> QED BY <1>3, <2>1, <3>1
  <2> QED BY <2>2, <2>3
<1>6. ASSUME NEW n \in Cubes(new) PROVE \E c \in t.cubes : c.name = new[n].name /\ c.bone = HomeName(new, n)
  <2>1. PICK c \in s.cubes : c.name = ed[n].name /\ c.bone = HomeName(ed, n)
    BY <1>3 DEF Mirrors
  <2>2. ed[n].name \notin names /\ new[n] = ed[n] /\ HomeName(new, n) = HomeName(ed, n)
    BY <1>3
  <2> QED BY <1>4, <2>1, <2>2
<1>7. ASSUME NEW c \in t.cubes PROVE \E n \in Cubes(new) : c.name = new[n].name /\ c.bone = HomeName(new, n)
  <2>1. PICK n \in Cubes(ed) : c.name = ed[n].name /\ c.bone = HomeName(ed, n)
    BY <1>4 DEF Mirrors
  <2>2. n \in Cubes(new)
    BY <1>3, <1>4, <2>1
  <2>3. new[n] = ed[n] /\ HomeName(new, n) = HomeName(ed, n)
    BY <1>3, <2>2
  <2> QED BY <2>1, <2>2, <2>3
<1>8. (\A b, d \in t.bones : b.name = d.name => b = d) /\ (\A c, d \in t.cubes : c.name = d.name => c = d)
  BY <1>4 DEF Mirrors
<1> QED BY <1>2, <1>5, <1>6, <1>7, <1>8 DEF Mirrors

\* The session's cube changes with the outliner's.
CubeChanges(ed, s, n, id, newName, bone, new, t) ==
    /\ NodeChanges(ed, new, n, Cubes(ed), IF newName = None THEN ed[n].name ELSE newName)
    /\ HomeName(new, n) = IF bone = None THEN HomeName(ed, n) ELSE bone
    /\ t \in Model!SessionUpdateCube(s, ed[n].name, id, newName, bone)

\* A cube with another name and group in both trees keeps them alike.
LEMMA CubeUpdated ==
  ASSUME NEW ed, Apart(ed), NEW s \in SessionType, Mirrors(s, ed),
         NEW n, NEW id, NEW newName, NEW bone, NEW new, NEW t,
         CubeChanges(ed, s, n, id, newName, bone, new, t)
  PROVE  Apart(new) /\ Mirrors(t, new)
<1> USE DEF CubeChanges, NodeChanges
<1> DEFINE name == IF newName = None THEN ed[n].name ELSE newName
<1>1. Forest(ed) /\ Cubes(new) = Cubes(ed) /\ n \notin Groups(ed)
  <2>1. Forest(ed)
    BY DEF Apart
  <2>2. \A m \in DOMAIN ed : (m \in Groups(ed) <=> m \notin Cubes(ed)) /\ (m \in Groups(new) <=> m \notin Cubes(new))
    BY <2>1, ForestNames
  <2>3. Cubes(ed) \subseteq DOMAIN ed /\ Cubes(new) \subseteq DOMAIN ed /\ Groups(ed) \subseteq DOMAIN ed
    BY DEF Cubes, Groups
  <2> QED BY <2>1, <2>2, <2>3
<1>2. Groups(ed) \subseteq DOMAIN ed /\ Cubes(ed) \subseteq DOMAIN ed
  BY DEF Groups, Cubes
<1>3. \A m \in DOMAIN ed : m # n => new[m] = ed[m] /\ HomeName(new, m) = HomeName(ed, m)
  <2> TAKE m \in DOMAIN ed
  <2>1. ed[m].in = Top \/ ed[m].in \in Groups(ed)
    BY <1>1, ForestNames
  <2> QED BY <1>1, <1>2, <2>1 DEF HomeName
<1>4. PICK c \in s.cubes : c.name = ed[n].name /\ c.bone = HomeName(ed, n)
  BY DEF Mirrors
<1> DEFINE d == [id |-> id, name |-> IF newName = None THEN c.name ELSE newName,
                 bone |-> IF bone = None THEN c.bone ELSE bone]
<1>5. t = [s EXCEPT !.cubes = (s.cubes \ {c}) \cup {d}]
  <2> DEFINE named == {x \in s.cubes : x.name = ed[n].name}
  <2>1. named = {c}
    BY <1>4 DEF Mirrors
  <2>2. t \in {[s EXCEPT !.cubes = (s.cubes \ {x}) \cup
                 {[id |-> id, name |-> IF newName = None THEN x.name ELSE newName,
                   bone |-> IF bone = None THEN x.bone ELSE bone]}] : x \in named}
    BY <2>1 DEF Model!SessionUpdateCube
  <2> HIDE DEF named
  <2> QED BY <2>1, <2>2
<1>6. d.name = new[n].name /\ d.bone = HomeName(new, n)
  BY <1>4
<1> HIDE DEF d
<1>7. t.bones = s.bones /\ t.cubes = (s.cubes \ {c}) \cup {d}
  BY <1>5 DEF SessionType
<1>8. Apart(new)
  <2>1. RootStands(new)
    OBVIOUS
  <2>2. \A g, h \in Groups(new) : new[g].name = new[h].name => g = h
    BY <1>1, <1>2, <1>3 DEF Apart
  <2>3. \A m, k \in Cubes(new) : new[m].name = new[k].name => m = k
    BY <1>1, <1>2, <1>3 DEF Apart
  <2> QED BY <2>1, <2>2, <2>3 DEF Apart
<1>9. /\ \A g \in Groups(new) : \E b \in t.bones : b.name = new[g].name /\ b.parent = HomeName(new, g)
      /\ \A b \in t.bones : \E g \in Groups(new) : b.name = new[g].name /\ b.parent = HomeName(new, g)
      /\ \A x, y \in t.bones : x.name = y.name => x = y
  BY <1>1, <1>2, <1>3, <1>7 DEF Mirrors
<1>10. \A m \in Cubes(new) : \E x \in t.cubes : x.name = new[m].name /\ x.bone = HomeName(new, m)
  <2> TAKE m \in Cubes(new)
  <2>1. CASE m = n
    BY <1>6, <1>7, <2>1
  <2>2. CASE m # n
    <3>1. PICK x \in s.cubes : x.name = ed[m].name /\ x.bone = HomeName(ed, m)
      BY <1>1 DEF Mirrors
    <3>2. x # c
      BY <1>1, <1>4, <2>2, <3>1 DEF Apart
    <3> QED BY <1>1, <1>2, <1>3, <1>7, <2>2, <3>1, <3>2
  <2> QED BY <2>1, <2>2
<1>11. ASSUME NEW x \in s.cubes, x # c
       PROVE  \E m \in Cubes(ed) : m # n /\ x.name = ed[m].name /\ x.bone = HomeName(ed, m)
  <2>1. PICK m \in Cubes(ed) : x.name = ed[m].name /\ x.bone = HomeName(ed, m)
    BY DEF Mirrors
  <2>2. m # n
    BY <1>4, <1>11, <2>1 DEF Mirrors
  <2> QED BY <2>1, <2>2
<1>12. \A x \in t.cubes : \E m \in Cubes(new) : x.name = new[m].name /\ x.bone = HomeName(new, m)
  <2> TAKE x \in t.cubes
  <2>1. CASE x = d
    BY <1>1, <1>6, <2>1
  <2>2. CASE x # d
    <3>1. PICK m \in Cubes(ed) : m # n /\ x.name = ed[m].name /\ x.bone = HomeName(ed, m)
      BY <1>7, <1>11, <2>2
    <3> QED BY <1>1, <1>2, <1>3, <3>1
  <2> QED BY <2>1, <2>2
<1>13. ASSUME NEW x \in s.cubes, x # c PROVE x.name # d.name
  <2>1. PICK m \in Cubes(ed) : m # n /\ x.name = ed[m].name
    BY <1>11, <1>13
  <2> QED BY <1>6, <2>1
<1>14. \A x, y \in t.cubes : x.name = y.name => x = y
  BY <1>7, <1>13 DEF Mirrors
<1> QED BY <1>8, <1>9, <1>10, <1>12, <1>14 DEF Mirrors

\* The names delete_bone answers with are those of the bones it takes out of the
\* outliner, the cubes that go with them those of these bones.
LEMMA ChainsAreBelow ==
  ASSUME Apart(editor), NEW top, top \subseteq Model!LiveBones, NEW C, C = Model!Below({t.id : t \in top})
  PROVE  /\ ClosedBelow(editor, C) /\ \A t \in top : t.id \in C
         /\ \A g \in Groups(editor) : g \in C <=> editor[g].name \in Model!Chains(top)
         /\ \A n \in Cubes(editor) : n \in C <=> editor[n].in \in C
         /\ \A x \in Model!Chains(top) : \E g \in Groups(editor) : x = editor[g].name
         /\ Top \notin C
<1> DEFINE ids == {t.id : t \in top}
           chain(t) == {t.name} \cup Model!Descendants(Model!LiveBones, t.name)
           chains == Model!Chains(top)
<1>1. Forest(editor) /\ IsFiniteSet(Model!LiveBones)
  BY LiveBonesAre DEF Apart
<1>2. /\ ids \subseteq C /\ ClosedBelow(editor, C)
      /\ \A D : ids \subseteq D /\ ClosedBelow(editor, D) => C \subseteq D
  BY <1>1, BelowIsClosed
<1>3. \A t \in top : t.id \in ids /\ t.id \in Groups(editor) /\ t.name = editor[t.id].name
  BY LiveWhenApart
<1>4. \A x : x \in chains <=> \E t \in top : x \in chain(t)
  BY DEF Model!Chains
<1>5. \A t \in top : /\ \A b \in Model!LiveBones : b.parent \in chain(t) => b.name \in chain(t)
                     /\ \A D : t.name \in D /\ (\A b \in Model!LiveBones : b.parent \in D => b.name \in D)
                               => chain(t) \subseteq D
  <2> TAKE t \in top
  <2>1. \A b \in Model!LiveBones : b.parent \in chain(t) => b.name \in chain(t)
    BY <1>1, DescendantsAreClosed
  <2>2. ASSUME NEW D, t.name \in D, \A b \in Model!LiveBones : b.parent \in D => b.name \in D
        PROVE  chain(t) \subseteq D
    <3>1. Model!Descendants(Model!LiveBones, t.name) \subseteq D
      BY <1>1, <2>2, DescendantsAreClosed
    <3> QED BY <2>2, <3>1
  <2> HIDE DEF chain
  <2> QED BY <2>1, <2>2
<1>6. \A t \in top : t.name \in chain(t)
  OBVIOUS
<1> HIDE DEF chain, chains, ids
<1>7. \A b \in Model!LiveBones : b.parent \in chains => b.name \in chains
  BY <1>4, <1>5
<1>8. ASSUME NEW g \in Groups(editor), g \in C PROVE editor[g].name \in chains
  <2> DEFINE D == {m \in Node \cup C : m \in Groups(editor) => editor[m].name \in chains}
  <2>1. ids \subseteq D
    <3>1. \A t \in top : editor[t.id].name \in chains
      BY <1>3, <1>4, <1>6
    <3>2. \A i \in ids : \E t \in top : i = t.id
      BY DEF ids
    <3> QED BY <1>2, <3>1, <3>2
  <2>2. ClosedBelow(editor, D)
    <3> SUFFICES ASSUME NEW m \in DOMAIN editor, editor[m].in \in D, m \in Groups(editor)
                 PROVE  editor[m].name \in chains
      BY <1>1, ForestNames DEF ClosedBelow
    <3>1. editor[m].in \in Groups(editor) \/ editor[m].in = Top
      BY <1>1, ForestNames
    <3>2. CASE editor[m].in = Top
      <4>1. Top \in C
        BY <3>2, TopIsNoNode
      <4>2. C \subseteq ids \cup DOMAIN editor
        BY <1>1, BelowIsClosed DEF ids
      <4>3. Top \notin ids /\ Top \notin DOMAIN editor
        <5>1. ids \subseteq Groups(editor)
          BY <1>3 DEF ids
        <5>2. Groups(editor) \subseteq DOMAIN editor /\ Top \notin DOMAIN editor
          BY <1>1, ForestNames, TopIsNoNode
        <5> QED BY <5>1, <5>2
      <4> QED BY <4>1, <4>2, <4>3
    <3>3. CASE editor[m].in # Top
      <4>1. HomeName(editor, m) \in chains
        BY <3>1, <3>3 DEF HomeName
      <4> DEFINE b == [id |-> m, name |-> editor[m].name, parent |-> HomeName(editor, m)]
      <4>2. b \in Model!LiveBones /\ b.parent = HomeName(editor, m) /\ b.name = editor[m].name
        BY LiveWhenApart
      <4> HIDE DEF b
      <4> QED BY <1>7, <4>1, <4>2
    <3> QED BY <3>2, <3>3
  <2>3. C \subseteq D
    <3> HIDE DEF D
    <3> QED BY <1>2, <2>1, <2>2
  <2> QED BY <1>8, <2>3
<1>9. ASSUME NEW x \in chains PROVE \E g \in Groups(editor) \cap C : x = editor[g].name
  <2> DEFINE D == {editor[h].name : h \in Groups(editor) \cap C}
  <2>1. PICK t \in top : x \in chain(t)
    BY <1>4
  <2>2. t.name \in D
    BY <1>2, <1>3
  <2>3. ASSUME NEW b \in Model!LiveBones, b.parent \in D PROVE b.name \in D
    <3>1. PICK h \in Groups(editor) \cap C : b.parent = editor[h].name
      BY <2>3
    <3>2. b.id \in Groups(editor) /\ b.name = editor[b.id].name /\ b.parent = HomeName(editor, b.id)
      BY LiveWhenApart
    <3>3. editor[b.id].in = h
      <4>1. b.id \in DOMAIN editor /\ editor[h].name # None
        BY <1>1, <3>2, ForestNames, TopIsNoNode
      <4>2. editor[b.id].in # Top
        BY <1>1, <3>1, <3>2, <4>1, ForestNames
      <4>3. editor[b.id].in \in Groups(editor) /\ editor[editor[b.id].in].name = editor[h].name
        BY <1>1, <3>1, <3>2, <4>1, <4>2, ForestNames DEF HomeName
      <4> QED BY <4>3 DEF Apart
    <3>4. b.id \in C
      BY <1>2, <3>2, <3>3 DEF ClosedBelow, Groups
    <3> QED BY <3>2, <3>4
  <2>4. chain(t) \subseteq D
    <3> HIDE DEF D
    <3> QED BY <1>5, <2>2, <2>3
  <2> QED BY <2>1, <2>4
<1>10. ASSUME NEW n \in Cubes(editor), n \in C PROVE editor[n].in \in C
  <2> DEFINE D == {m \in C : m \in Cubes(editor) => editor[m].in \in C}
  <2>1. ids \subseteq D
    <3>1. ids \subseteq Groups(editor)
      BY <1>3 DEF ids
    <3> QED BY <1>1, <1>2, <3>1, ForestNames
  <2>2. ClosedBelow(editor, D)
    BY <1>2 DEF ClosedBelow
  <2>3. C \subseteq D
    <3> HIDE DEF D
    <3> QED BY <1>2, <2>1, <2>2
  <2> QED BY <1>10, <2>3
<1>11. ASSUME NEW n \in Cubes(editor), editor[n].in \in C PROVE n \in C
  BY <1>2, <1>11 DEF ClosedBelow, Cubes
<1>12. \A t \in top : t.id \in C
  BY <1>2, <1>3
<1>13. ASSUME NEW g \in Groups(editor), editor[g].name \in chains PROVE g \in C
  BY <1>9, <1>13 DEF Apart
<1>14. Top \notin C
  <2>1. C \subseteq ids \cup DOMAIN editor
    BY <1>1, BelowIsClosed DEF ids
  <2>2. ids \subseteq Groups(editor)
    BY <1>3 DEF ids
  <2>3. Groups(editor) \subseteq DOMAIN editor /\ Top \notin DOMAIN editor
    BY <1>1, ForestNames, TopIsNoNode
  <2> QED BY <2>1, <2>2, <2>3
<1> QED BY <1>2, <1>8, <1>9, <1>10, <1>11, <1>12, <1>13, <1>14 DEF chains

\* The drift stays zero only without a cause, and with a group "root" for the
\* cubes outside every group.
LEMMA DriftsOn ==
  ASSUME MirrorInv, NEW ACTION cause, Model!Drifts(cause)
  PROVE  /\ drift' \in Nat
         /\ drift' = 0 => drift = 0 /\ ~cause /\ RootStands(editor')
<1>1. ~(Model!RootIsVirtual)' => RootStands(editor')
  BY DEF Model!RootIsVirtual, Model!TopCubes, Model!Nodes, Model!Group, Cubes, Groups, RootStands
<1> QED BY <1>1 DEF Model!Drifts, MirrorInv

\* A refused call leaves the two alike.
LEMMA RefuseMirrors ==
  ASSUME MirrorInv, TreeInv', Model!Refuse, Model!Drifts(FALSE)
  PROVE  MirrorInv'
<1>1. editor' = editor /\ session' = Model!Active
  BY DEF Model!Refuse
<1>2. drift' \in Nat /\ (drift' = 0 => drift = 0)
  BY DriftsOn
<1>3. drift' = 0 => Apart(editor') /\ Mirrors(session', editor')
  BY <1>1, <1>2, ActiveMirrors
<1> QED BY <1>2, <1>3 DEF MirrorInv

\* add_bone keeps the two alike.
LEMMA AddBoneMirrors ==
  ASSUME MirrorInv, TreeInv', NEW id \in Node, NEW name \in Name, NEW parent \in Name \cup Node \cup {None},
         Model!AddBone(id, name, parent)
  PROVE  MirrorInv'
<1> DEFINE byId == {b \in Model!LiveBones : parent \in Node /\ b.id = parent}
           parentName == IF parent \in Node THEN (CHOOSE b \in byId : TRUE).name ELSE parent
<1>1. CASE Model!Refuse /\ Model!Drifts(FALSE)
  BY <1>1, RefuseMirrors
<1>2. CASE ~(Model!Refuse /\ Model!Drifts(FALSE))
  <2>1. /\ id \in Node \ DOMAIN editor
        /\ name \notin Model!Names(Model!LiveBones)
        /\ editor' \in Model!EditorAdd(editor, id, "group", name, parentName)
        /\ session' = [Model!Active EXCEPT !.bones = @ \cup {[id |-> id, name |-> name, parent |-> parentName]}]
        /\ Model!Drifts((editor'[id].in = Top) # (parentName = None))
    BY <1>2 DEF Model!AddBone, Model!Fresh
  <2>2. drift' \in Nat /\ (drift' = 0 => drift = 0 /\ ((editor'[id].in = Top) <=> (parentName = None)))
    BY <2>1, DriftsOn
  <2>3. ASSUME drift' = 0 PROVE Apart(editor') /\ Mirrors(session', editor')
    <3>1. Apart(editor) /\ Mirrors(Model!Active, editor) /\ Model!Active \in SessionType
      BY <2>2, <2>3, ActiveMirrors
    <3> DEFINE b == [id |-> id, name |-> name, parent |-> parentName]
    <3>2. session'.bones = Model!Active.bones \cup {b} /\ session'.cubes = Model!Active.cubes
      BY <2>1, <3>1 DEF SessionType
    <3> HIDE DEF parentName
    <3>3. PICK at \in {Top} \cup Model!Group(editor, parentName) :
             editor' = Model!Place(editor, id, [kind |-> "group", name |-> name, in |-> at])
      BY <2>1, EditorAddPlaces
    <3>4. editor'[id].in = at
      BY <3>3 DEF Model!Place
    <3>5. b.parent = IF at = Top THEN None ELSE editor[at].name
      BY <2>2, <2>3, <3>3, <3>4 DEF Model!Group
    <3>6. at \in Groups(editor) \cup {Top}
      BY <3>3 DEF Model!Group, Groups
    <3>7. \A g \in Groups(editor) : editor[g].name # name
      BY <2>1, <3>1, NamesWhenApart
    <3>8. b.name = name
      OBVIOUS
    <3> HIDE DEF b
    <3>9. BoneJoins(editor, Model!Active, id, name, at, b, editor', session')
      BY <2>1, <3>2, <3>3, <3>5, <3>6, <3>7, <3>8 DEF BoneJoins
    <3> QED BY <3>1, <3>9, BoneAdded
  <2> QED BY <2>2, <2>3 DEF MirrorInv
<1> QED BY <1>1, <1>2

\* update_bone keeps the two alike.
LEMMA UpdateBoneMirrors ==
  ASSUME MirrorInv, TreeInv', NEW sel \in Model!Selector, NEW newName \in Name \cup {None},
         NEW parent \in Name \cup {"same", None},
         Model!UpdateBone(sel, newName, parent)
  PROVE  MirrorInv'
<1> DEFINE found == Model!Resolve(Model!LiveBones, sel)
           target == CHOOSE t \in found : TRUE
           valid == /\ found # {} /\ Model!RenameFree(Model!LiveBones, target, newName)
                    /\ Model!ParentAllowed(target, parent)
           after == IF valid THEN Model!EditorUpdateBone(editor, target.id, newName, parent) ELSE {}
           asked(at) == \/ parent = "same" \/ (parent = None /\ at = Top)
                        \/ at \in Model!Group(editor, parent)
<1>1. CASE Model!Refuse /\ Model!Drifts(FALSE)
  BY <1>1, RefuseMirrors
<1>2. CASE ~(Model!Refuse /\ Model!Drifts(FALSE))
  <2>1. /\ editor' \in after
        /\ session' = Model!SessionUpdateBone(Model!Active, target.name, target.id, newName, parent)
        /\ Model!Drifts(~asked(editor'[target.id].in))
    BY <1>2 DEF Model!UpdateBone
  <2>2. drift' \in Nat /\ (drift' = 0 => drift = 0 /\ asked(editor'[target.id].in) /\ RootStands(editor'))
    BY <2>1, DriftsOn
  <2>3. ASSUME drift' = 0 PROVE Apart(editor') /\ Mirrors(session', editor')
    <3>1. Apart(editor) /\ Mirrors(Model!Active, editor) /\ Model!Active \in SessionType /\ Forest(editor)
      BY <2>2, <2>3, ActiveMirrors DEF Apart
    <3>2. /\ editor' \in Model!EditorUpdateBone(editor, target.id, newName, parent)
          /\ Model!RenameFree(Model!LiveBones, target, newName) /\ Model!ParentAllowed(target, parent)
          /\ target \in Model!LiveBones
      BY <2>1, ResolveAmong
    <3> HIDE DEF target, after
    <3> DEFINE n == target.id
               name == IF newName = None THEN editor[n].name ELSE newName
               ed == Model!Renamed(editor, n, newName)
    <3>3. n \in Groups(editor) /\ target.name = editor[n].name
      BY <3>1, <3>2, LiveWhenApart
    <3>4. n \in DOMAIN editor /\ name \in Name
      BY <3>1, <3>3, ForestNames
    <3>5. \A g \in Groups(editor) : editor[g].name = name => g = n
      <4>1. \A g \in Groups(editor) : editor[g].name \in Model!Names(Model!LiveBones)
        BY <3>1, NamesWhenApart
      <4>2. CASE newName \in {None, target.name}
        BY <3>1, <3>3, <4>2 DEF Apart
      <4>3. CASE newName \notin {None, target.name}
        BY <3>2, <4>1, <4>3 DEF Model!RenameFree
      <4> QED BY <4>2, <4>3
    <3>6. /\ Forest(ed) /\ Groups(ed) = Groups(editor) /\ DOMAIN ed = DOMAIN editor
          /\ \A m \in DOMAIN editor : ed[m].in = editor[m].in /\ ed[m].kind = editor[m].kind
          /\ \A m \in DOMAIN editor : m # n => ed[m] = editor[m]
      BY <3>1, <3>4, RenamedForest
    <3>7. ed[n].name = name
      BY <3>4, <3>1 DEF Model!Renamed, Model!Place, Forest
    <3>8. n # None /\ None # "same" /\ "same" \notin Name /\ None \notin Name
      BY <3>1, <3>4, ModelAssumption DEF Forest
    <3> HIDE DEF n, name, ed
    <3>9. \E at \in {ed[n].in, Top} \cup Model!Group(editor, parent) :
             editor' = ed \/ editor' = Model!Place(ed, n, [ed[n] EXCEPT !.in = at])
      BY <3>2, <3>8 DEF Model!EditorUpdateBone, Model!Move, Model!Landing, ed, n
    <3>10. /\ DOMAIN editor' = DOMAIN editor /\ \A m \in DOMAIN editor : m # n => editor'[m] = editor[m]
           /\ editor'[n].name = name /\ editor'[n].kind = editor[n].kind
      <4>1. ed[n] \in [kind : {"group", "cube"}, name : Name, in : Groups(ed) \cup {Top}]
        BY <3>4, <3>6 DEF Forest
      <4> QED BY <3>4, <3>6, <3>7, <3>9, <4>1 DEF Model!Place
    <3>11. Groups(editor') = Groups(editor)
      BY <3>10 DEF Groups
    <3>17. n \in Groups(editor)
      BY <3>3 DEF n
    <3>12. HomeName(editor', n) = IF parent = "same" THEN HomeName(editor, n) ELSE parent
      <4>1. asked(editor'[n].in)
        BY <2>2, <2>3 DEF n
      <4>2. CASE parent = "same"
        <5>1. editor' = ed
          BY <3>2, <3>8, <4>2 DEF Model!EditorUpdateBone, ed, n
        <5>2. ed[n].in = editor[n].in /\ editor[n].in # n /\ (editor[n].in # Top => editor[n].in \in DOMAIN editor)
          BY <3>1, <3>4, <3>6, ForestNames DEF Groups
        <5>3. ed[n].kind = editor[n].kind
          BY <3>4, <3>6
        <5> QED BY <3>6, <4>2, <5>1, <5>2, <5>3 DEF HomeName
      <4>3. CASE parent = None
        <5>1. Model!Group(editor, None) = {}
          BY <3>1, <3>8, ForestNames DEF Model!Group
        <5>2. editor'[n].in = Top
          BY <3>8, <4>1, <4>3, <5>1
        <5>3. editor'[n].kind = "group"
          BY <3>10, <3>17 DEF Groups
        <5> QED BY <3>8, <4>3, <5>2, <5>3 DEF HomeName
      <4>4. CASE parent \in Name
        <5>1. editor'[n].in \in Model!Group(editor, parent)
          BY <3>8, <4>1, <4>4
        <5> DEFINE p == editor'[n].in
        <5>2. p \in DOMAIN editor /\ editor[p].name = parent
          BY <5>1 DEF Model!Group
        <5>3. parent # target.name
          BY <3>2, <3>8, <4>4 DEF Model!ParentAllowed
        <5>4. p # n /\ p # Top
          BY <3>1, <3>3, <5>2, <5>3, TopIsNoNode DEF n, Forest
        <5>5. HomeName(editor', n) = editor'[p].name
          BY <5>4 DEF HomeName
        <5> QED BY <3>8, <3>10, <4>4, <5>2, <5>4, <5>5
      <4> QED BY <4>2, <4>3, <4>4
    <3>13. session' = Model!SessionUpdateBone(Model!Active, editor[n].name, n, newName, parent)
      BY <2>1, <3>3 DEF n
    <3>14. Forest(editor')
      BY DEF TreeInv
    <3>15. n \in Groups(editor) /\ name = IF newName = None THEN editor[n].name ELSE newName
      BY <3>3 DEF n, name
    <3>18. RootStands(editor')
      BY <2>2, <2>3
    <3>16. BoneChanges(editor, Model!Active, n, n, newName, parent, editor', session')
      BY <3>18, <3>4, <3>5, <3>10, <3>11, <3>12, <3>13, <3>14, <3>15 DEF BoneChanges, NodeChanges
    <3> QED BY <3>1, <3>16, BoneUpdated
  <2> QED BY <2>2, <2>3 DEF MirrorInv
<1> QED BY <1>1, <1>2

\* How a delete_bone ends: refused before it does anything, stopped after some
\* of its targets, or with every target gone.
LEMMA DeleteBoneEnds ==
  ASSUME NEW sels, Model!DeleteBone(sels),
         NEW top, top = Model!TopMost(UNION {Model!Resolve(Model!LiveBones, sel) : sel \in sels})
  PROVE  /\ top \subseteq Model!LiveBones
         /\ \/ Model!Refuse /\ Model!Drifts(FALSE)
            \/ \E done \in SUBSET top :
                  /\ editor' = Model!Without({t.id : t \in done}) /\ session' = Model!Active
                  /\ Model!Answer(FALSE) /\ Model!Drifts(TRUE)
            \/ /\ editor' = Model!Without({t.id : t \in top})
               /\ session' = Model!SessionRemoveBones(Model!Active, Model!Chains(top))
               /\ result' = [tool |-> "delete_bone", ok |-> TRUE, deleted |-> Model!Chains(top),
                             bones |-> Model!Cardinality(Model!Active.bones) - Model!Cardinality(session'.bones),
                             cubes |-> Model!Cardinality(Model!Active.cubes) - Model!Cardinality(session'.cubes)]
               /\ Model!Drifts(FALSE)
<1> DEFINE targets == UNION {Model!Resolve(Model!LiveBones, sel) : sel \in sels}
<1>1. top \subseteq Model!LiveBones
  BY ResolveAmong DEF Model!TopMost
<1> QED BY <1>1 DEF Model!DeleteBone

\* A call that stopped half way is counted as drift.
LEMMA StoppedMirrors ==
  ASSUME MirrorInv, TreeInv', Model!Drifts(TRUE)
  PROVE  MirrorInv'
<1>1. drift' \in Nat /\ drift' # 0
  BY DriftsOn
<1> QED BY <1>1 DEF MirrorInv

\* delete_bone keeps the two alike.
LEMMA DeleteBoneMirrors ==
  ASSUME MirrorInv, TreeInv', NEW sels, Model!DeleteBone(sels)
  PROVE  MirrorInv'
<1> DEFINE top == Model!TopMost(UNION {Model!Resolve(Model!LiveBones, sel) : sel \in sels})
           C == Model!Below({t.id : t \in top})
           names == Model!Chains(top)
           s == Model!Active
<1>1. CASE Model!Refuse /\ Model!Drifts(FALSE)
  BY <1>1, RefuseMirrors
<1>2. CASE Model!Drifts(TRUE)
  BY <1>2, StoppedMirrors
<1>3. ASSUME top \subseteq Model!LiveBones, editor' = Model!Without({t.id : t \in top}),
             session' = Model!SessionRemoveBones(s, names), Model!Drifts(FALSE)
      PROVE  MirrorInv'
  <2>1. drift' \in Nat /\ (drift' = 0 => drift = 0 /\ RootStands(editor'))
    BY <1>3, DriftsOn
  <2>2. ASSUME drift' = 0 PROVE Apart(editor') /\ Mirrors(session', editor')
    <3>1. Apart(editor) /\ Mirrors(s, editor) /\ s \in SessionType /\ RootStands(editor')
      BY <2>1, <2>2, ActiveMirrors
    <3>2. editor' = [m \in DOMAIN editor \ C |-> editor[m]]
      BY <1>3 DEF Model!Without
    <3>3. session' = Model!SessionRemoveBones(s, names) /\ top \subseteq Model!LiveBones
      BY <1>3
    <3> HIDE DEF top, s
    <3>4. /\ ClosedBelow(editor, C)
          /\ \A g \in Groups(editor) : g \in C <=> editor[g].name \in names
          /\ \A n \in Cubes(editor) : n \in C <=> editor[n].in \in C
          /\ Top \notin C
      BY <3>1, <3>3, ChainsAreBelow
    <3>5. Named(editor, C, names)
      BY <3>4 DEF Named
    <3>6. ClosedBelow(editor, C)
      BY <3>4
    <3> HIDE DEF C, names
    <3>7. Apart(editor) /\ Mirrors(s, editor) /\ s \in SessionType /\ RootStands(editor')
      BY <3>1
    <3>8. session' = Model!SessionRemoveBones(s, names)
      BY <3>3
    <3> QED BY <3>2, <3>5, <3>6, <3>7, <3>8, BonesRemoved
  <2> QED BY <2>1, <2>2 DEF MirrorInv
<1> HIDE DEF top, C, names, s
<1>4. /\ top \subseteq Model!LiveBones
      /\ \/ Model!Refuse /\ Model!Drifts(FALSE)
         \/ Model!Drifts(TRUE)
         \/ /\ editor' = Model!Without({t.id : t \in top})
            /\ session' = Model!SessionRemoveBones(s, names) /\ Model!Drifts(FALSE)
  BY DeleteBoneEnds DEF top, names, s
<1> QED BY <1>1, <1>2, <1>3, <1>4

\* The root bone that the cube tools make is made in both trees.
LEMMA RootMirrors ==
  ASSUME MirrorInv, drift = 0, NEW rootId, Model!RootMissing => rootId \in Node \ DOMAIN editor
  PROVE  /\ Apart(Model!EnsureRootBone(rootId)[1])
         /\ Mirrors(Model!EnsureRootBone(rootId)[2], Model!EnsureRootBone(rootId)[1])
         /\ Cubes(Model!EnsureRootBone(rootId)[1]) = Cubes(editor)
<1>1. Apart(editor) /\ Mirrors(Model!Active, editor) /\ Model!Active \in SessionType
  BY ActiveMirrors
<1>2. CASE ~Model!RootMissing
  BY <1>1, <1>2 DEF Model!EnsureRootBone
<1>3. CASE Model!RootMissing
  <2> DEFINE b == [id |-> None, name |-> "root", parent |-> None]
             new == Model!Place(editor, rootId, [kind |-> "group", name |-> "root", in |-> Top])
             t == [Model!Active EXCEPT !.bones = @ \cup {b}]
  <2>1. Model!EnsureRootBone(rootId)[1] = new /\ Model!EnsureRootBone(rootId)[2] = t
    BY <1>3 DEF Model!EnsureRootBone
  <2>2. \A g \in Groups(editor) : editor[g].name # "root"
    BY <1>1, <1>3, NamesWhenApart DEF Model!RootMissing
  <2>3. t.bones = Model!Active.bones \cup {b} /\ t.cubes = Model!Active.cubes
    BY <1>1 DEF SessionType
  <2>4. b.name = "root" /\ b.parent = None /\ "root" \in Name
    BY ModelAssumption
  <2>5. Cubes(new) = Cubes(editor)
    BY <1>3 DEF Cubes, Model!Place
  <2>6. new = Model!Place(editor, rootId, [kind |-> "group", name |-> "root", in |-> Top])
    OBVIOUS
  <2> HIDE DEF b, new, t
  <2>7. BoneJoins(editor, Model!Active, rootId, "root", Top, b, new, t)
    BY <1>3, <2>2, <2>3, <2>4, <2>6 DEF BoneJoins
  <2>8. Apart(new) /\ Mirrors(t, new)
    BY <1>1, <2>7, BoneAdded
  <2> QED BY <2>1, <2>5, <2>8
<1> QED BY <1>2, <1>3

\* add_cube keeps the two alike.
LEMMA AddCubeMirrors ==
  ASSUME MirrorInv, TreeInv', NEW id \in Node, NEW name \in Name, NEW bone \in Model!Selector \cup {None},
         Model!AddCube(id, name, bone)
  PROVE  MirrorInv'
<1> DEFINE found == IF bone = None THEN {} ELSE Model!Resolve(Model!LiveBones, bone)
           boneName == IF bone = None THEN "root" ELSE (CHOOSE b \in found : TRUE).name
           base(rootId) == IF bone = None THEN Model!EnsureRootBone(rootId) ELSE <<editor, Model!Active>>
           c == [id |-> id, name |-> name, bone |-> boneName]
<1>1. CASE Model!Refuse /\ Model!Drifts(FALSE)
  BY <1>1, RefuseMirrors
<1>2. CASE ~(Model!Refuse /\ Model!Drifts(FALSE))
  <2> DEFINE astray == boneName # "root" /\ editor'[id].in = Top
  <2>1. \E rootId \in Model!RootIds(bone = None) \ {id} :
              \/ editor' = base(rootId)[1] /\ session' = base(rootId)[2] /\ Model!Drifts(FALSE)
              \/ /\ id \in Model!Fresh /\ name \notin Model!Names(Model!LiveCubes)
                 /\ editor' \in Model!EditorAdd(base(rootId)[1], id, "cube", name, boneName)
                 /\ session' = [base(rootId)[2] EXCEPT !.cubes = @ \cup {c}]
                 /\ Model!Drifts(astray)
    BY <1>2 DEF Model!AddCube
  <2>2. PICK rootId \in Model!RootIds(bone = None) \ {id} :
              \/ editor' = base(rootId)[1] /\ session' = base(rootId)[2] /\ Model!Drifts(FALSE)
              \/ /\ id \in Model!Fresh /\ name \notin Model!Names(Model!LiveCubes)
                 /\ editor' \in Model!EditorAdd(base(rootId)[1], id, "cube", name, boneName)
                 /\ session' = [base(rootId)[2] EXCEPT !.cubes = @ \cup {c}]
                 /\ Model!Drifts(astray)
    BY <2>1
  <2>3. drift' \in Nat /\ (drift' = 0 => drift = 0 /\ RootStands(editor'))
    <3> HIDE DEF astray, base
    <3>1. Model!Drifts(FALSE) \/ Model!Drifts(astray)
      BY <2>2
    <3> QED BY <3>1, DriftsOn
  <2>4. ASSUME drift' = 0 PROVE Apart(editor') /\ Mirrors(session', editor')
    <3>1. Apart(editor) /\ Mirrors(Model!Active, editor) /\ Model!Active \in SessionType
      BY <2>3, <2>4, ActiveMirrors
    <3> DEFINE ed == base(rootId)[1]
               s == base(rootId)[2]
    <3>2. /\ Apart(ed) /\ Mirrors(s, ed) /\ Cubes(ed) = Cubes(editor) /\ s \in SessionType
          /\ DOMAIN ed \subseteq DOMAIN editor \cup {rootId}
          /\ \A n \in DOMAIN editor : ed[n] = editor[n]
      <4>1. CASE bone = None
        <5>1. Model!RootMissing => rootId \in Node \ DOMAIN editor
          BY <4>1 DEF Model!RootIds, Model!Fresh
        <5> QED BY <2>3, <2>4, <4>1, <5>1, RootMirrors, EnsureRootBoneTree DEF MirrorInv
      <4>2. CASE bone # None
        BY <3>1, <4>2
      <4> QED BY <4>1, <4>2
    <3>3. c.name = name /\ c.bone = boneName
      OBVIOUS
    <3> HIDE DEF base, c, boneName
    <3>4. CASE editor' = ed /\ session' = s
      BY <3>2, <3>4
    <3>5. CASE /\ id \in Model!Fresh /\ name \notin Model!Names(Model!LiveCubes)
               /\ editor' \in Model!EditorAdd(ed, id, "cube", name, boneName)
               /\ session' = [s EXCEPT !.cubes = @ \cup {c}]
               /\ Model!Drifts(astray)
      <4>1. PICK at \in {Top} \cup Model!Group(ed, boneName) :
               editor' = Model!Place(ed, id, [kind |-> "cube", name |-> name, in |-> at])
        <5> HIDE DEF ed
        <5> QED BY <3>5, EditorAddPlaces
      <4>2. id \in Node \ DOMAIN ed
        BY <2>2, <3>2, <3>5 DEF Model!Fresh
      <4>3. at = Top => boneName = "root"
        <5>1. editor'[id].in = at
          BY <4>1 DEF Model!Place
        <5>2. ~astray
          BY <2>4, <3>5, DriftsOn
        <5> QED BY <5>1, <5>2
      <4>4. at # Top => at \in Groups(ed) /\ ed[at].name = boneName
        BY <4>1 DEF Model!Group, Groups
      <4>5. session'.bones = s.bones /\ session'.cubes = s.cubes \cup {c}
        BY <3>2, <3>5 DEF SessionType
      <4>6. \A n \in Cubes(ed) : ed[n].name # name
        <5>1. \A n \in Cubes(ed) : n \in DOMAIN editor /\ ed[n].name = editor[n].name
          BY <3>2 DEF Cubes
        <5> QED BY <3>1, <3>2, <3>5, <5>1, NamesWhenApart
      <4>7. CubeJoins(ed, s, id, name, at, c, editor', session')
        BY <2>3, <2>4, <3>3, <4>1, <4>2, <4>3, <4>4, <4>5, <4>6 DEF CubeJoins
      <4> QED BY <3>2, <4>7, CubeAdded
    <3> QED BY <2>2, <3>4, <3>5
  <2> QED BY <2>3, <2>4 DEF MirrorInv
<1> QED BY <1>1, <1>2

\* update_cube keeps the two alike.
LEMMA UpdateCubeMirrors ==
  ASSUME MirrorInv, TreeInv', NEW sel \in Model!Selector, NEW newName \in Name \cup {None},
         NEW bone \in Name \cup {None, Top}, Model!UpdateCube(sel, newName, bone)
  PROVE  MirrorInv'
<1> DEFINE found == Model!Resolve(Model!LiveCubes, sel)
           target == CHOOSE t \in found : TRUE
           base(rootId) == IF bone \in {"root", Top} THEN Model!EnsureRootBone(rootId) ELSE <<editor, Model!Active>>
           after(rootId) == Model!EditorUpdateCube(base(rootId)[1], target.id, newName, bone)
           home == IF bone = Top THEN "root" ELSE bone
           n == target.id
           name == IF newName = None THEN editor[n].name ELSE newName
           kept(rootId) == editor' = base(rootId)[1] /\ session' = base(rootId)[2]
           halfWay(rootId) == /\ editor' = Model!Renamed(base(rootId)[1], target.id, newName)
                              /\ session' = base(rootId)[2]
                              /\ Model!Drifts(newName \notin {None, target.name})
           astray == bone \notin {None, Top, "root"} /\ editor'[target.id].in = Top
           done(rootId) == /\ editor' \in after(rootId)
                           /\ session' \in Model!SessionUpdateCube(base(rootId)[2], target.name, target.id, newName, home)
                           /\ Model!Drifts(astray)
<1>1. CASE Model!Refuse /\ Model!Drifts(FALSE)
  BY <1>1, RefuseMirrors
<1>2. CASE ~(Model!Refuse /\ Model!Drifts(FALSE))
  <2>1. PICK rootId \in Model!RootIds(bone \in {"root", Top}) :
              /\ found # {} /\ Model!RenameFree(Model!LiveCubes, target, newName)
              /\ \/ kept(rootId) /\ Model!Drifts(FALSE)
                 \/ halfWay(rootId)
                 \/ done(rootId)
    BY <1>2 DEF Model!UpdateCube
  <2>2. /\ drift' \in Nat
        /\ drift' = 0 => /\ drift = 0 /\ RootStands(editor')
                         /\ \/ kept(rootId)
                            \/ halfWay(rootId) /\ newName \in {None, target.name}
                            \/ done(rootId) /\ ~astray
    <3> HIDE DEF found, target, astray
    <3>1. CASE kept(rootId) /\ Model!Drifts(FALSE)
      BY <3>1, DriftsOn
    <3>2. CASE halfWay(rootId)
      <4>1. drift' \in Nat /\ (drift' = 0 => drift = 0 /\ RootStands(editor') /\ newName \in {None, target.name})
        BY <3>2, DriftsOn
      <4> QED BY <3>2, <4>1
    <3>3. CASE done(rootId)
      <4>1. drift' \in Nat /\ (drift' = 0 => drift = 0 /\ RootStands(editor') /\ ~astray)
        BY <3>3, DriftsOn
      <4> QED BY <3>3, <4>1
    <3> HIDE DEF kept, halfWay, done
    <3> QED BY <2>1, <3>1, <3>2, <3>3
  <2>3. ASSUME drift' = 0 PROVE Apart(editor') /\ Mirrors(session', editor')
    <3>1. Apart(editor) /\ Mirrors(Model!Active, editor) /\ Model!Active \in SessionType
      BY <2>2, <2>3, ActiveMirrors
    <3> DEFINE ed == base(rootId)[1]
               s == base(rootId)[2]
               new == Model!Renamed(ed, n, newName)
    <3>2. /\ Apart(ed) /\ Mirrors(s, ed) /\ Cubes(ed) = Cubes(editor) /\ s \in SessionType
          /\ \A m \in DOMAIN editor : m \in DOMAIN ed /\ ed[m] = editor[m]
      <4>1. CASE bone \in {"root", Top}
        <5>1. Model!RootMissing => rootId \in Node \ DOMAIN editor
          BY <2>1, <4>1 DEF Model!RootIds, Model!Fresh
        <5> QED BY <2>2, <2>3, <4>1, <5>1, RootMirrors, EnsureRootBoneTree DEF MirrorInv
      <4>2. CASE bone \notin {"root", Top}
        BY <3>1, <4>2
      <4> QED BY <4>1, <4>2
    <3>3. target \in Model!LiveCubes
      BY <2>1, ResolveAmong
    <3>4. Model!RenameFree(Model!LiveCubes, target, newName)
      BY <2>1
    <3> HIDE DEF target, base
    <3>5. n \in Cubes(editor) /\ n \in DOMAIN editor /\ target.name = editor[n].name /\ name \in Name
      <4>1. n \in Cubes(editor) /\ target.name = editor[n].name
        BY <3>1, <3>3, LiveWhenApart
      <4>2. n \in DOMAIN editor
        BY <4>1 DEF Cubes
      <4>3. editor[n].name \in Name
        BY <3>1, <4>2, ForestNames DEF Apart
      <4> QED BY <4>1, <4>2, <4>3
    <3>6. \A m \in Cubes(editor) : editor[m].name = name => m = n
      <4>1. CASE newName \in {None, target.name}
        BY <3>1, <3>5, <4>1 DEF Apart
      <4>2. CASE newName \notin {None, target.name}
        <5>1. newName \notin Model!Names(Model!LiveCubes)
          BY <3>4, <4>2 DEF Model!RenameFree
        <5> QED BY <3>1, <4>2, <5>1, NamesWhenApart
      <4> QED BY <4>1, <4>2
    <3> HIDE DEF n, home
    <3>7. n \in DOMAIN ed /\ ed[n] = editor[n] /\ n \in Cubes(ed)
      BY <3>2, <3>5
    <3>8. /\ Forest(new) /\ Groups(new) = Groups(ed) /\ DOMAIN new = DOMAIN ed
          /\ \A m \in DOMAIN ed : new[m].in = ed[m].in /\ new[m].kind = ed[m].kind
          /\ \A m \in DOMAIN ed : m # n => new[m] = ed[m]
      <4> HIDE DEF ed
      <4> QED BY <3>2, <3>7, RenamedForest DEF Apart
    <3>9. new[n].name = name
      <4>1. ed[n] \in [kind : {"group", "cube"}, name : Name, in : Groups(ed) \cup {Top}]
        BY <3>2, <3>7 DEF Apart, Forest
      <4> HIDE DEF ed
      <4>2. newName # None => [ed[n] EXCEPT !.name = newName].name = newName
        BY <4>1
      <4> QED BY <3>7, <4>2 DEF Model!Renamed, Model!Place
    <3>10. CASE kept(rootId)
      BY <3>2, <3>10
    <3>11. CASE halfWay(rootId) /\ newName \in {None, target.name}
      <4>1. editor' = new /\ session' = s
        BY <3>11 DEF n
      <4> HIDE DEF new
      <4>2. new[n].name = ed[n].name
        BY <3>5, <3>7, <3>9, <3>11
      <4>3. \A m \in DOMAIN ed : new[m].name = ed[m].name
        BY <3>8, <4>2
      <4> HIDE DEF ed, s
      <4>4. Groups(new) = Groups(ed) /\ Cubes(new) = Cubes(ed) /\ Groups(ed) \subseteq DOMAIN ed /\ Cubes(ed) \subseteq DOMAIN ed
        BY <3>8 DEF Groups, Cubes
      <4>5. \A m \in DOMAIN ed : HomeName(new, m) = HomeName(ed, m)
        <5> TAKE m \in DOMAIN ed
        <5>1. ed[m].in # Top => ed[m].in \in DOMAIN ed
          BY <3>2, ForestNames DEF Apart
        <5> QED BY <3>8, <4>3, <5>1 DEF HomeName
      <4>6. Apart(new)
        <5>1. RootStands(new)
          BY <2>2, <2>3, <4>1
        <5> QED BY <3>2, <3>8, <4>3, <4>4, <5>1 DEF Apart
      <4>7. /\ \A g \in Groups(new) : new[g].name = ed[g].name /\ HomeName(new, g) = HomeName(ed, g)
            /\ \A m \in Cubes(new) : new[m].name = ed[m].name /\ HomeName(new, m) = HomeName(ed, m)
        BY <4>3, <4>4, <4>5
      <4>8. Mirrors(s, new)
        BY <3>2, <4>4, <4>7 DEF Mirrors
      <4> QED BY <4>1, <4>6, <4>8
    <3>12. CASE done(rootId) /\ ~astray
      <4> HIDE DEF ed, s, new, name
      <4>1. None # Top /\ None \notin Name /\ Top \notin Name /\ "root" \in Name
        BY ModelAssumption
      <4>2. new[n] \in [kind : {"group", "cube"}, name : Name, in : Groups(ed) \cup {Top}]
        BY <3>7, <3>8 DEF Forest
      <4>3. PICK at \in {Top} \cup Model!Group(ed, bone) :
               /\ bone = None => editor' = new
               /\ bone # None => editor' = Model!Place(new, n, [new[n] EXCEPT !.in = at])
        <5>1. editor' \in Model!EditorUpdateCube(ed, n, newName, bone)
          BY <3>12 DEF ed, n
        <5>2. CASE bone = None
          BY <4>1, <5>1, <5>2 DEF Model!EditorUpdateCube, new
        <5>3. CASE bone # None
          <6>1. PICK p \in {Top} \cup Model!Group(ed, bone) : editor' \in Model!Move(new, n, p)
            BY <4>1, <5>1, <5>3 DEF Model!EditorUpdateCube, new
          <6>2. PICK at \in {p, Top} : editor' = Model!Place(new, n, [new[n] EXCEPT !.in = at])
            BY <6>1, MovePlaces
          <6> QED BY <5>3, <6>1, <6>2
        <5> QED BY <5>2, <5>3
      <4>4. /\ DOMAIN editor' = DOMAIN ed /\ \A m \in DOMAIN ed : m # n => editor'[m] = ed[m]
            /\ editor'[n].name = name /\ editor'[n].kind = new[n].kind
        BY <3>7, <3>8, <3>9, <4>2, <4>3 DEF Model!Place
      <4>5. Groups(editor') = Groups(ed) /\ n \in Cubes(editor')
        BY <3>7, <3>8, <4>4 DEF Groups, Cubes
      <4>6. RootStands(editor') /\ (editor'[n].in = Top => bone \in {None, Top, "root"})
        BY <2>2, <2>3, <3>12 DEF n
      <4>7. HomeName(editor', n) = IF home = None THEN HomeName(ed, n) ELSE home
        <5>1. CASE bone = None
          <6>1. new[n].in = ed[n].in /\ new[n].kind = ed[n].kind /\ ed[n].in # n
            BY <3>2, <3>7, <3>8, ForestNames DEF Apart
          <6>2. ed[n].in # Top => ed[n].in \in DOMAIN ed
            BY <3>2, <3>7, ForestNames DEF Apart
          <6>3. HomeName(new, n) = HomeName(ed, n)
            BY <3>8, <6>1, <6>2 DEF HomeName
          <6> QED BY <4>1, <4>3, <5>1, <6>3 DEF home
        <5>2. CASE bone # None /\ at # Top
          <6>1. editor'[n].in = at
            BY <3>7, <3>8, <4>2, <4>3, <5>2 DEF Model!Place
          <6>2. at \in Groups(ed) /\ ed[at].name = bone
            BY <4>3, <5>2 DEF Model!Group, Groups
          <6>3. at # n /\ at \in DOMAIN ed
            BY <3>7, <6>2 DEF Groups, Cubes
          <6>4. bone \in Name
            BY <3>2, <6>2, <6>3, ForestNames DEF Apart
          <6> QED BY <4>1, <4>4, <5>2, <6>1, <6>2, <6>3, <6>4 DEF HomeName, home
        <5>3. CASE bone # None /\ at = Top
          <6>1. editor'[n].in = Top
            BY <3>7, <3>8, <4>2, <4>3, <5>3 DEF Model!Place
          <6>2. HomeName(editor', n) = "root"
            BY <4>5, <6>1 DEF HomeName, Cubes
          <6>3. home = "root"
            BY <4>6, <5>3, <6>1 DEF home
          <6> QED BY <4>1, <6>2, <6>3
        <5> QED BY <5>1, <5>2, <5>3
      <4>8. session' \in Model!SessionUpdateCube(s, ed[n].name, n, newName, home)
        BY <3>5, <3>7, <3>12 DEF s, n
      <4>9. \A m \in Cubes(ed) : ed[m].name = name => m = n
        <5>1. \A m \in Cubes(ed) : m \in Cubes(editor) /\ ed[m] = editor[m]
          BY <3>2 DEF Cubes
        <5> QED BY <3>6, <5>1
      <4>10. name = IF newName = None THEN ed[n].name ELSE newName
        BY <3>7 DEF name
      <4>11. Forest(editor')
        BY DEF TreeInv
      <4>12. CubeChanges(ed, s, n, n, newName, home, editor', session')
        BY <3>5, <3>7, <4>4, <4>5, <4>6, <4>7, <4>8, <4>9, <4>10, <4>11 DEF CubeChanges, NodeChanges
      <4> QED BY <3>2, <4>12, CubeUpdated
    <3> QED BY <2>2, <2>3, <3>10, <3>11, <3>12
  <2> QED BY <2>2, <2>3 DEF MirrorInv
<1> QED BY <1>1, <1>2

\* delete_cube keeps the two alike.
LEMMA DeleteCubeMirrors ==
  ASSUME MirrorInv, TreeInv', NEW sels, Model!DeleteCube(sels)
  PROVE  MirrorInv'
<1> DEFINE targets == UNION {Model!Resolve(Model!LiveCubes, sel) : sel \in sels}
           ids == {t.id : t \in targets}
<1>1. CASE Model!Refuse /\ Model!Drifts(FALSE)
  BY <1>1, RefuseMirrors
<1>2. CASE Model!Drifts(TRUE)
  BY <1>2, StoppedMirrors
<1>3. ASSUME Model!Drifts(FALSE), editor' = Model!Without(ids),
             session' = Model!SessionRemoveCubes(Model!Active, Model!Names(targets))
      PROVE  MirrorInv'
  <2>1. /\ Model!Drifts(FALSE) /\ editor' = Model!Without(ids)
        /\ session' = Model!SessionRemoveCubes(Model!Active, Model!Names(targets))
    BY <1>3
  <2>2. drift' \in Nat /\ (drift' = 0 => drift = 0)
    BY <2>1, DriftsOn
  <2>3. targets \subseteq Model!LiveCubes
    BY ResolveAmong
  <2> HIDE DEF targets
  <2>4. ASSUME drift' = 0 PROVE Apart(editor') /\ Mirrors(session', editor')
    <3>1. Apart(editor) /\ Mirrors(Model!Active, editor) /\ Model!Active \in SessionType /\ Forest(editor)
      BY <2>2, <2>4, ActiveMirrors DEF Apart
    <3>2. \A t \in targets : t.id \in Cubes(editor) /\ t.name = editor[t.id].name
      BY <2>3, <3>1, LiveWhenApart
    <3>3. ids \subseteq Cubes(editor)
      BY <3>2
    <3>4. Model!Below(ids) = ids
      <4>1. ClosedBelow(editor, ids)
        <5> SUFFICES ASSUME NEW m \in DOMAIN editor, editor[m].in \in ids PROVE FALSE
          BY DEF ClosedBelow
        <5>1. editor[m].in \in Cubes(editor)
          BY <3>3
        <5>2. editor[m].in = Top \/ editor[m].in \in Groups(editor)
          BY <3>1, ForestNames
        <5> QED BY <3>1, <5>1, <5>2, ForestNames, TopIsNoNode
      <4> HIDE DEF ids
      <4> QED BY <3>1, <4>1, BelowIsClosed
    <3>5. editor' = [m \in DOMAIN editor \ ids |-> editor[m]]
      BY <2>1, <3>4 DEF Model!Without
    <3>6. \A n \in Cubes(editor) : n \in ids <=> editor[n].name \in Model!Names(targets)
      <4> TAKE n \in Cubes(editor)
      <4>1. n \in ids => editor[n].name \in Model!Names(targets)
        BY <3>2 DEF Model!Names
      <4>2. ASSUME editor[n].name \in Model!Names(targets) PROVE n \in ids
        <5>1. PICK t \in targets : editor[n].name = t.name
          BY <4>2 DEF Model!Names
        <5>2. t.id = n
          BY <3>1, <3>2, <5>1 DEF Apart
        <5> QED BY <5>2
      <4> QED BY <4>1, <4>2
    <3> HIDE DEF ids
    <3> QED BY <2>1, <3>1, <3>3, <3>5, <3>6, CubesRemoved
  <2> QED BY <2>2, <2>4 DEF MirrorInv
<1>4. \/ Model!Refuse /\ Model!Drifts(FALSE)
      \/ Model!Drifts(TRUE)
      \/ /\ Model!Drifts(FALSE) /\ editor' = Model!Without(ids)
         /\ session' = Model!SessionRemoveCubes(Model!Active, Model!Names(targets))
  BY DEF Model!DeleteCube
<1> HIDE DEF ids, targets
<1> QED BY <1>1, <1>2, <1>3, <1>4

\* What the user does keeps names apart where it does not count as drift, and
\* is not seen by an inactive session.
LEMMA UserEditMirrors ==
  ASSUME MirrorInv, TreeInv', Model!UserEdit
  PROVE  MirrorInv'
<1>1. /\ session' = session
      /\ Model!Drifts(session.active \/ \E c, d \in (Model!LiveCubes)' : c # d /\ c.name = d.name)
  BY DEF Model!UserEdit
<1>2. /\ drift' \in Nat
      /\ drift' = 0 => /\ drift = 0 /\ RootStands(editor')
                       /\ ~session.active /\ \A c, d \in (Model!LiveCubes)' : c.name = d.name => c = d
  BY <1>1, DriftsOn
<1>3. ASSUME drift' = 0 PROVE Apart(editor')
  <2>1. Apart(editor) /\ Forest(editor) /\ Forest(editor')
    BY <1>2, <1>3 DEF MirrorInv, TreeInv, Apart
  <2>2. \A n, m \in Cubes(editor') : editor'[n].name = editor'[m].name => n = m
    <3> DEFINE cube(n) == [id |-> n, name |-> editor'[n].name,
                           bone |-> IF editor'[n].in = Top THEN "root" ELSE editor'[editor'[n].in].name]
    <3>1. (Model!LiveCubes)' = {cube(n) : n \in Cubes(editor')}
      BY DEF Model!LiveCubes, Model!Nodes, Cubes
    <3> SUFFICES ASSUME NEW n \in Cubes(editor'), NEW m \in Cubes(editor'), editor'[n].name = editor'[m].name
                 PROVE  n = m
      OBVIOUS
    <3>2. cube(n) \in (Model!LiveCubes)' /\ cube(m) \in (Model!LiveCubes)' /\ cube(n).name = cube(m).name
      BY <3>1
    <3>3. cube(n) = cube(m)
      BY <1>2, <1>3, <3>2
    <3> QED BY <3>3
  <2>3. \A g, h \in Groups(editor') : editor'[g].name = editor'[h].name => g = h
    <3>1. \A g, h \in Groups(editor) : editor[g].name = editor[h].name => g = h
      BY <2>1 DEF Apart
    <3>2. \A n \in DOMAIN editor : editor[n] \in [kind : {"group", "cube"}, name : Name, in : Groups(editor) \cup {Top}]
      BY <2>1 DEF Forest
    <3>3. ASSUME NEW n \in Model!Fresh, NEW kind \in {"group", "cube"}, NEW name \in Name, NEW at,
                 kind = "group" => Model!Group(editor, name) = {},
                 editor' = Model!Place(editor, n, [kind |-> kind, name |-> name, in |-> at])
          PROVE  \A g, h \in Groups(editor') : editor'[g].name = editor'[h].name => g = h
      <4>1. /\ \A m \in DOMAIN editor : editor'[m] = editor[m]
            /\ n \notin DOMAIN editor /\ DOMAIN editor' = DOMAIN editor \cup {n}
            /\ editor'[n].kind = kind /\ editor'[n].name = name
        BY <3>3 DEF Model!Place, Model!Fresh
      <4>2. ASSUME NEW g \in Groups(editor'), g # n PROVE g \in Groups(editor) /\ editor'[g] = editor[g]
        BY <4>1, <4>2 DEF Groups
      <4>3. \A g \in Groups(editor) : n \in Groups(editor') => editor[g].name # name
        BY <3>3, <4>1 DEF Groups, Model!Group
      <4> SUFFICES ASSUME NEW g \in Groups(editor'), NEW h \in Groups(editor'), editor'[g].name = editor'[h].name
                   PROVE  g = h
        OBVIOUS
      <4> QED BY <3>1, <4>1, <4>2, <4>3
    <3>4. ASSUME NEW ns, editor' = Model!Without(ns)
          PROVE  \A g, h \in Groups(editor') : editor'[g].name = editor'[h].name => g = h
      <4>1. \A g \in Groups(editor') : g \in Groups(editor) /\ editor'[g] = editor[g]
        BY <3>4 DEF Model!Without, Groups
      <4> QED BY <3>1, <4>1
    <3>5. ASSUME NEW n \in DOMAIN editor, NEW name \in Name,
                 editor[n].kind = "group" => Model!Group(editor, name) = {},
                 editor' = [editor EXCEPT ![n].name = name]
          PROVE  \A g, h \in Groups(editor') : editor'[g].name = editor'[h].name => g = h
      <4>1. /\ \A m \in DOMAIN editor : m # n => editor'[m] = editor[m]
            /\ DOMAIN editor' = DOMAIN editor
            /\ editor'[n].kind = editor[n].kind /\ editor'[n].name = name
        BY <3>2, <3>5
      <4>2. \A g \in Groups(editor') : g \in Groups(editor)
        BY <4>1 DEF Groups
      <4>3. \A g \in Groups(editor) : n \in Groups(editor) => editor[g].name # name
        BY <3>5 DEF Groups, Model!Group
      <4>4. Groups(editor) \subseteq DOMAIN editor
        BY DEF Groups
      <4> SUFFICES ASSUME NEW g \in Groups(editor'), NEW h \in Groups(editor'), editor'[g].name = editor'[h].name
                   PROVE  g = h
        OBVIOUS
      <4> QED BY <3>1, <4>1, <4>2, <4>3, <4>4
    <3>6. ASSUME NEW n \in DOMAIN editor, NEW at, editor' = [editor EXCEPT ![n].in = at]
          PROVE  \A g, h \in Groups(editor') : editor'[g].name = editor'[h].name => g = h
      <4>1. DOMAIN editor' = DOMAIN editor
            /\ \A m \in DOMAIN editor : editor'[m].kind = editor[m].kind /\ editor'[m].name = editor[m].name
        BY <3>2, <3>6
      <4>2. \A g \in Groups(editor') : g \in Groups(editor) /\ editor'[g].name = editor[g].name
        BY <4>1 DEF Groups
      <4> QED BY <3>1, <4>2
    <3> QED BY <3>3, <3>4, <3>5, <3>6 DEF Model!UserEdit
  <2> QED BY <1>2, <1>3, <2>1, <2>2, <2>3 DEF Apart
<1> QED BY <1>1, <1>2, <1>3 DEF MirrorInv

\* Every step keeps the two alike.
LEMMA NextMirrors ==
  ASSUME MirrorInv, Model!Next
  PROVE  MirrorInv'
<1>1. TreeInv'
  BY NextTree DEF MirrorInv
<1>2. CASE Model!UserEdit
  BY <1>1, <1>2, UserEditMirrors
<1>3. CASE ~Model!UserEdit
  BY <1>1, <1>3, AddBoneMirrors, UpdateBoneMirrors, DeleteBoneMirrors, AddCubeMirrors, UpdateCubeMirrors,
     DeleteCubeMirrors DEF Model!Next
<1> QED BY <1>2, <1>3

\* In every behaviour the strengthened invariant holds while the tools run.
LEMMA AlwaysMirrors == Spec => [](part = "model" => MirrorInv)
<1>1. Init => (part = "model" => MirrorInv)
  <2> SUFFICES ASSUME part = "model", Init PROVE MirrorInv
    OBVIOUS
  <2>1. Model!Init
    BY DEF Init
  <2>2. DOMAIN editor = {} /\ session \in SessionType /\ drift = 0 /\ ~session.active
    BY <2>1 DEF Model!Init, SessionType
  <2> QED BY <2>2 DEF MirrorInv, TreeInv, Forest, Apart, RootStands, Groups, Cubes
<1>2. (part = "model" => MirrorInv) /\ [Next]_<<part, mvars, xvars>> => (part = "model" => MirrorInv)'
  <2> SUFFICES ASSUME part = "model" => MirrorInv, [Next]_<<part, mvars, xvars>>, part' = "model" PROVE MirrorInv'
    OBVIOUS
  <2>1. CASE UNCHANGED <<part, mvars, xvars>>
    <3>1. MirrorInv /\ editor' = editor /\ session' = session /\ drift' = drift
      BY <2>1 DEF mvars
    <3> QED BY <3>1 DEF MirrorInv, TreeInv, Forest, Apart, RootStands, Mirrors, Groups, Cubes, HomeName, SessionType, Model!Bone, Model!Cube
  <2>2. CASE Next
    BY <2>2, NextMirrors DEF Next
  <2> QED BY <2>1, <2>2
<1> QED BY <1>1, <1>2, PTL DEF Spec

\* THEOREM.  The session holds the bones and cubes of the outliner, name for name
\* and parent for parent, cubes outside every group included, after any sequence
\* of tool calls in which none of four things happened: an edit in Blockbench
\* behind the tools, a call that ended half way, a move Blockbench did not make,
\* and the group "root" deleted or renamed away from cubes outside every group
\* (BoneService.ts, CubeService.ts, session/mutators against the adapters).
THEOREM SessionAlwaysMirrors == Spec => []SessionMirrorsEditor
<1>1. (part = "model" => MirrorInv) => SessionMirrorsEditor
  <2> SUFFICES ASSUME MirrorInv, session.active, drift = 0
               PROVE  /\ {<<b.name, b.parent>> : b \in session.bones} = {<<b.name, b.parent>> : b \in Model!LiveBones}
                      /\ {<<c.name, c.bone>> : c \in session.cubes} = {<<c.name, c.bone>> : c \in Model!LiveCubes}
    BY DEF SessionMirrorsEditor, Model!SessionMirrorsEditor
  <2>1. Apart(editor) /\ Mirrors(session, editor)
    BY DEF MirrorInv
  <2>2. /\ \A b \in session.bones : \E d \in Model!LiveBones : b.name = d.name /\ b.parent = d.parent
        /\ \A c \in session.cubes : \E d \in Model!LiveCubes : c.name = d.name /\ c.bone = d.bone
    <3>1. /\ \A g \in Groups(editor) : \E d \in Model!LiveBones : d.name = editor[g].name /\ d.parent = HomeName(editor, g)
          /\ \A n \in Cubes(editor) : \E d \in Model!LiveCubes : d.name = editor[n].name /\ d.bone = HomeName(editor, n)
      BY <2>1, LiveWhenApart
    <3> QED BY <2>1, <3>1 DEF Mirrors
  <2>3. /\ \A d \in Model!LiveBones : \E b \in session.bones : b.name = d.name /\ b.parent = d.parent
        /\ \A d \in Model!LiveCubes : \E c \in session.cubes : c.name = d.name /\ c.bone = d.bone
    <3>1. /\ \A d \in Model!LiveBones : \E g \in Groups(editor) : d.name = editor[g].name /\ d.parent = HomeName(editor, g)
          /\ \A d \in Model!LiveCubes : \E n \in Cubes(editor) : d.name = editor[n].name /\ d.bone = HomeName(editor, n)
      BY <2>1, LiveWhenApart
    <3> QED BY <2>1, <3>1 DEF Mirrors
  <2>4. {<<b.name, b.parent>> : b \in session.bones} = {<<b.name, b.parent>> : b \in Model!LiveBones}
    BY <2>2, <2>3
  <2>5. {<<c.name, c.bone>> : c \in session.cubes} = {<<c.name, c.bone>> : c \in Model!LiveCubes}
    BY <2>2, <2>3
  <2> QED BY <2>4, <2>5
<1> QED BY <1>1, AlwaysMirrors, PTL

----------------------------------------------------------------------------
(* What the answers tell                                                   *)

\* Sets that correspond one to one have as many members.
LEMMA OneToOne ==
  ASSUME NEW S, IsFiniteSet(S), NEW T, NEW f \in [S -> T],
         \A x, y \in S : f[x] = f[y] => x = y, \A y \in T : \E x \in S : f[x] = y
  PROVE  IsFiniteSet(T) /\ Cardinality(T) = Cardinality(S)
<1>1. f \in Bijection(S, T)
  <2>1. f \in Injection(S, T)
    BY DEF Injection, IsInjective
  <2>2. f \in Surjection(S, T)
    BY DEF Surjection
  <2> QED BY <2>1, <2>2 DEF Bijection
<1>2. ExistsBijection(S, T)
  BY <1>1 DEF ExistsBijection
<1> QED BY <1>2, FS_Bijection

\* The bones, and the cubes in bones, of other names than some.
BonesBut(s, names) == {b \in s.bones : b.name \notin names}
CubesBut(s, names) == {c \in s.cubes : c.bone \notin names}
GroupsBut(ed, names) == {g \in Groups(ed) : ed[g].name \notin names}
CubesOutOf(ed, names) == {n \in Cubes(ed) : HomeName(ed, n) \notin names}

\* A session that mirrors an outliner has as many of them as the outliner.
LEMMA MirrorsCount ==
  ASSUME NEW ed, Apart(ed), NEW s, Mirrors(s, ed), NEW names
  PROVE  /\ Cardinality(BonesBut(s, names)) = Cardinality(GroupsBut(ed, names))
         /\ Cardinality(CubesBut(s, names)) = Cardinality(CubesOutOf(ed, names))
         /\ IsFiniteSet(Groups(ed)) /\ IsFiniteSet(Cubes(ed))
<1> DEFINE groups == {g \in Groups(ed) : ed[g].name \notin names}
           cubes == {n \in Cubes(ed) : HomeName(ed, n) \notin names}
           bonesOf == {b \in s.bones : b.name \notin names}
           cubesOf == {c \in s.cubes : c.bone \notin names}
<1>1. IsFiniteSet(Groups(ed)) /\ IsFiniteSet(Cubes(ed))
  <2>1. IsFiniteSet(Node) /\ Groups(ed) \subseteq Node /\ Cubes(ed) \subseteq Node
    BY ModelAssumption DEF Apart, Forest, Groups, Cubes
  <2> QED BY <2>1, FS_Subset
<1>2. IsFiniteSet(groups) /\ IsFiniteSet(cubes)
  <2>1. groups \subseteq Groups(ed) /\ cubes \subseteq Cubes(ed)
    OBVIOUS
  <2> HIDE DEF groups, cubes
  <2> QED BY <1>1, <2>1, FS_Subset
<1>3. Cardinality(bonesOf) = Cardinality(groups)
  <2> DEFINE f == [g \in groups |-> CHOOSE b \in bonesOf : b.name = ed[g].name]
  <2>1. ASSUME NEW g \in groups PROVE f[g] \in bonesOf /\ f[g].name = ed[g].name
    <3>1. \E b \in bonesOf : b.name = ed[g].name
      BY DEF Mirrors
    <3> HIDE DEF bonesOf, groups
    <3> QED BY <3>1
  <2>2. f \in [groups -> bonesOf]
    BY <2>1
  <2> HIDE DEF f
  <2>3. \A g, h \in groups : f[g] = f[h] => g = h
    BY <2>1 DEF Apart
  <2>4. \A b \in bonesOf : \E g \in groups : f[g] = b
    <3> TAKE b \in bonesOf
    <3>1. PICK g \in groups : b.name = ed[g].name
      BY DEF Mirrors
    <3>2. f[g] \in s.bones /\ f[g].name = b.name
      BY <2>1, <3>1
    <3> QED BY <3>1, <3>2 DEF Mirrors
  <2> HIDE DEF groups, bonesOf
  <2> QED BY <1>2, <2>2, <2>3, <2>4, OneToOne
<1>4. Cardinality(cubesOf) = Cardinality(cubes)
  <2> DEFINE f == [n \in cubes |-> CHOOSE c \in cubesOf : c.name = ed[n].name]
  <2>1. ASSUME NEW n \in cubes PROVE f[n] \in cubesOf /\ f[n].name = ed[n].name
    <3>1. \E c \in cubesOf : c.name = ed[n].name
      BY DEF Mirrors
    <3> HIDE DEF cubesOf, cubes
    <3> QED BY <3>1
  <2>2. f \in [cubes -> cubesOf]
    BY <2>1
  <2> HIDE DEF f
  <2>3. \A n, m \in cubes : f[n] = f[m] => n = m
    BY <2>1 DEF Apart
  <2>4. \A c \in cubesOf : \E n \in cubes : f[n] = c
    <3> TAKE c \in cubesOf
    <3>1. PICK n \in cubes : c.name = ed[n].name
      BY DEF Mirrors
    <3>2. f[n] \in s.cubes /\ f[n].name = c.name
      BY <2>1, <3>1
    <3> QED BY <3>1, <3>2 DEF Mirrors
  <2> HIDE DEF cubes, cubesOf
  <2> QED BY <1>2, <2>2, <2>3, <2>4, OneToOne
<1> QED BY <1>1, <1>3, <1>4 DEF BonesBut, CubesBut, GroupsBut, CubesOutOf

\* What a call answers.
LEMMA AnswerIs ==
  ASSUME NEW ok, Model!Answer(ok)
  PROVE  result'.ok = ok /\ result'.tool = "other"
<1>1. result' = [tool |-> "other", ok |-> ok, deleted |-> {}, bones |-> 0, cubes |-> 0]
  BY DEF Model!Answer
<1> QED BY <1>1

\* delete_bone tells what disappears from the outliner, and counts the cubes
\* outside every group when it takes "root" with it.
LEMMA DeleteBoneTells ==
  ASSUME MirrorInv, NEW sels, Model!DeleteBone(sels)
  PROVE  Model!DeleteTells
<1> SUFFICES ASSUME Model!Called, result'.ok, result'.tool = "delete_bone", drift = 0
             PROVE  /\ result'.deleted = {editor[n].name : n \in Model!Groups} \ {editor'[n].name : n \in Model!Groups'}
                    /\ result'.bones = Model!Cardinality(Model!Groups \ Model!Groups')
                    /\ result'.cubes = Model!Cardinality(Model!Cubes \ Model!Cubes')
                          + IF "root" \in result'.deleted THEN Model!Cardinality(Model!TopCubes) ELSE 0
  BY DEF Model!DeleteTells
<1> DEFINE top == Model!TopMost(UNION {Model!Resolve(Model!LiveBones, sel) : sel \in sels})
           C == Model!Below({t.id : t \in top})
           names == Model!Chains(top)
           s == Model!Active
           t == session'
<1>1. ~Model!Refuse /\ ~Model!Answer(FALSE)
  BY AnswerIs DEF Model!Refuse
<1>2. Apart(editor) /\ Mirrors(s, editor) /\ s \in SessionType
  BY ActiveMirrors
<1>3. /\ top \subseteq Model!LiveBones /\ editor' = Model!Without({u.id : u \in top})
      /\ t = Model!SessionRemoveBones(s, names)
      /\ result' = [tool |-> "delete_bone", ok |-> TRUE, deleted |-> names,
                    bones |-> Model!Cardinality(s.bones) - Model!Cardinality(t.bones),
                    cubes |-> Model!Cardinality(s.cubes) - Model!Cardinality(t.cubes)]
  BY <1>1, DeleteBoneEnds
<1>4. editor' = [m \in DOMAIN editor \ C |-> editor[m]]
  BY <1>3 DEF Model!Without
<1> HIDE DEF top
<1>5. /\ \A g \in Groups(editor) : g \in C <=> editor[g].name \in names
      /\ \A n \in Cubes(editor) : n \in C <=> editor[n].in \in C
      /\ \A x \in names : \E g \in Groups(editor) : x = editor[g].name
      /\ Top \notin C
  BY <1>2, <1>3, ChainsAreBelow
<1> HIDE DEF C, names, s
<1>6. /\ result'.deleted = names
      /\ result'.bones = Model!Cardinality(s.bones) - Model!Cardinality(t.bones)
      /\ result'.cubes = Model!Cardinality(s.cubes) - Model!Cardinality(t.cubes)
  BY <1>3
<1>7. t.bones = {b \in s.bones : b.name \notin names} /\ t.cubes = {c \in s.cubes : c.bone \notin names}
  BY <1>2, <1>3 DEF Model!SessionRemoveBones, SessionType
<1> HIDE DEF t
<1> DEFINE groups == Groups(editor)
           cubes == Cubes(editor)
           gone == groups \cap C
           cubesGone == cubes \cap C
           loose == IF "root" \in names THEN Model!TopCubes ELSE {}
<1>8. /\ Model!Groups = groups /\ Model!Groups' = groups \ C
      /\ Model!Cubes = cubes /\ Model!Cubes' = cubes \ C
      /\ \A g \in Model!Groups' : editor'[g] = editor[g]
      /\ Model!TopCubes = {n \in cubes : editor[n].in = Top}
  BY <1>4 DEF Model!Groups, Model!Cubes, Model!Nodes, Model!TopCubes, Groups, Cubes
<1>9. \A n \in cubes : HomeName(editor, n) \notin names <=> n \notin C /\ n \notin loose
  <2> TAKE n \in cubes
  <2>1. Forest(editor)
    BY <1>2 DEF Apart
  <2>2. CASE editor[n].in = Top
    BY <1>5, <1>8, <2>1, <2>2, ForestNames
  <2>3. CASE editor[n].in # Top
    <3>1. editor[n].in \in groups /\ HomeName(editor, n) = editor[editor[n].in].name
      BY <2>1, <2>3, ForestNames DEF HomeName
    <3>2. n \notin loose
      BY <1>8, <2>3
    <3> QED BY <1>5, <3>1, <3>2
  <2> QED BY <2>2, <2>3
<1>10. names = {editor[n].name : n \in Model!Groups} \ {editor'[n].name : n \in Model!Groups'}
  <2>1. ASSUME NEW x \in names PROVE x \notin {editor'[n].name : n \in Model!Groups'}
    BY <1>5, <1>8
  <2>2. ASSUME NEW x \in names PROVE x \in {editor[n].name : n \in Model!Groups}
    BY <1>5, <1>8
  <2>3. ASSUME NEW g \in groups, editor[g].name \notin {editor'[n].name : n \in Model!Groups'} PROVE editor[g].name \in names
    BY <1>5, <1>8, <2>3
  <2> QED BY <1>8, <2>1, <2>2, <2>3
<1> HIDE DEF groups, cubes
<1>11. IsFiniteSet(groups) /\ IsFiniteSet(cubes)
  BY <1>2, MirrorsCount DEF groups, cubes
<1>12. Cardinality(s.bones) = Cardinality(groups) /\ Cardinality(s.cubes) = Cardinality(cubes)
  <2>1. /\ BonesBut(s, {}) = s.bones /\ CubesBut(s, {}) = s.cubes
        /\ GroupsBut(editor, {}) = groups /\ CubesOutOf(editor, {}) = cubes
    BY DEF BonesBut, CubesBut, GroupsBut, CubesOutOf, groups, cubes
  <2>2. /\ Cardinality(BonesBut(s, {})) = Cardinality(GroupsBut(editor, {}))
        /\ Cardinality(CubesBut(s, {})) = Cardinality(CubesOutOf(editor, {}))
    BY <1>2, MirrorsCount
  <2> QED BY <2>1, <2>2
<1>13. Cardinality(t.bones) = Cardinality(groups \ gone) /\ Cardinality(t.cubes) = Cardinality(cubes \ (cubesGone \cup loose))
  <2>1. GroupsBut(editor, names) = groups \ gone /\ BonesBut(s, names) = t.bones
    BY <1>5, <1>7 DEF groups, GroupsBut, BonesBut
  <2>2. CubesOutOf(editor, names) = cubes \ (cubesGone \cup loose) /\ CubesBut(s, names) = t.cubes
    BY <1>7, <1>9 DEF cubes, CubesOutOf, CubesBut
  <2> HIDE DEF gone, cubesGone, loose
  <2>3. /\ Cardinality(BonesBut(s, names)) = Cardinality(GroupsBut(editor, names))
        /\ Cardinality(CubesBut(s, names)) = Cardinality(CubesOutOf(editor, names))
    BY <1>2, MirrorsCount
  <2> QED BY <2>1, <2>2, <2>3
<1>14. /\ gone \subseteq groups /\ cubesGone \cup loose \subseteq cubes /\ cubesGone \cap loose = {}
       /\ gone = Model!Groups \ Model!Groups' /\ cubesGone = Model!Cubes \ Model!Cubes'
  <2>1. \A n \in loose : n \in cubes /\ n \notin C
    BY <1>5, <1>8 DEF cubes
  <2> QED BY <1>8, <2>1
<1>15. Cardinality(loose) = IF "root" \in names THEN Cardinality(Model!TopCubes) ELSE 0
  BY FS_EmptySet
<1> HIDE DEF gone, cubesGone, loose
<1>16. Cardinality(s.bones) - Cardinality(t.bones) = Cardinality(gone)
  <2>1. Cardinality(groups \ gone) = Cardinality(groups) - Cardinality(groups \cap gone) /\ groups \cap gone = gone
    BY <1>11, <1>14, FS_Difference
  <2>2. IsFiniteSet(gone) /\ Cardinality(gone) \in Nat /\ Cardinality(groups) \in Nat
    BY <1>11, <1>14, FS_Subset, FS_CardinalityType
  <2> QED BY <1>12, <1>13, <2>1, <2>2
<1>17. Cardinality(s.cubes) - Cardinality(t.cubes) = Cardinality(cubesGone) + Cardinality(loose)
  <2> DEFINE both == cubesGone \cup loose
  <2>1. Cardinality(cubes \ both) = Cardinality(cubes) - Cardinality(cubes \cap both) /\ cubes \cap both = both
    BY <1>11, <1>14, FS_Difference
  <2>2. IsFiniteSet(cubesGone) /\ IsFiniteSet(loose)
    <3>1. cubesGone \subseteq cubes /\ loose \subseteq cubes
      BY <1>14
    <3> QED BY <1>11, <3>1, FS_Subset
  <2>3. Cardinality(both) = Cardinality(cubesGone) + Cardinality(loose) - Cardinality(cubesGone \cap loose)
    BY <2>2, FS_Union
  <2>4. Cardinality(cubesGone \cap loose) = 0
    BY <1>14, FS_EmptySet
  <2>5. Cardinality(cubesGone) \in Nat /\ Cardinality(loose) \in Nat /\ Cardinality(cubes) \in Nat
    BY <1>11, <2>2, FS_CardinalityType
  <2>6. Cardinality(t.cubes) = Cardinality(cubes) - Cardinality(both)
    BY <1>13, <2>1
  <2> HIDE DEF both
  <2> QED BY <1>12, <2>3, <2>4, <2>5, <2>6
<1>18. /\ result'.bones = Cardinality(Model!Groups \ Model!Groups')
       /\ result'.cubes = Cardinality(Model!Cubes \ Model!Cubes')
             + IF "root" \in result'.deleted THEN Cardinality(Model!TopCubes) ELSE 0
  BY <1>6, <1>14, <1>15, <1>16, <1>17, ModelCardinality
<1> QED BY <1>6, <1>10, <1>18, ModelCardinality

\* Only delete_bone answers as delete_bone.
LEMMA OthersDoNotTell ==
  ASSUME userEdits \in Nat, Model!Next, Model!Called, result'.tool = "delete_bone"
  PROVE  \E sels : Model!DeleteBone(sels)
<1>1. ~Model!UserEdit
  BY DEF Model!UserEdit, Model!Called
<1>2. \A ok : ~Model!Answer(ok)
  BY AnswerIs
<1>3. ~Model!Refuse
  BY <1>2 DEF Model!Refuse
<1>4. \A id, name, parent : ~Model!AddBone(id, name, parent)
  BY <1>2, <1>3 DEF Model!AddBone
<1>5. \A sel, newName, parent : ~Model!UpdateBone(sel, newName, parent)
  BY <1>2, <1>3 DEF Model!UpdateBone
<1>6. \A id, name, bone : ~Model!AddCube(id, name, bone)
  BY <1>2, <1>3 DEF Model!AddCube
<1>7. ASSUME NEW sel, NEW newName, NEW bone, Model!UpdateCube(sel, newName, bone) PROVE FALSE
  <2>1. Model!Refuse \/ Model!Answer(FALSE) \/ Model!Answer(TRUE)
    BY <1>7, Zenon DEF Model!UpdateCube
  <2> QED BY <2>1, <1>2, <1>3
<1>8. \A sels : ~Model!DeleteCube(sels)
  BY <1>2, <1>3 DEF Model!DeleteCube
<1> QED BY <1>1, <1>4, <1>5, <1>6, <1>7, <1>8 DEF Model!Next

\* Edits are counted, and nothing else counts as one.
Counting == userEdits \in Nat => userEdits' \in Nat

LEMMA EditsCount == Model!Next => Counting
<1>1. \A ok : Model!Answer(ok) => Counting
  BY DEF Model!Answer, Counting
<1>2. Model!Refuse => Counting
  BY <1>1, Zenon DEF Model!Refuse
<1>3. UNCHANGED userEdits => Counting
  BY DEF Counting
<1>4. ASSUME NEW id, NEW name, NEW parent, Model!AddBone(id, name, parent) PROVE Counting
  BY <1>1, <1>2, <1>4, Zenon DEF Model!AddBone
<1>5. ASSUME NEW sel, NEW newName, NEW parent, Model!UpdateBone(sel, newName, parent) PROVE Counting
  BY <1>1, <1>2, <1>5, Zenon DEF Model!UpdateBone
<1>6. ASSUME NEW sels, Model!DeleteBone(sels) PROVE Counting
  BY <1>1, <1>2, <1>3, <1>6, Zenon DEF Model!DeleteBone
<1>7. ASSUME NEW id, NEW name, NEW bone, Model!AddCube(id, name, bone) PROVE Counting
  BY <1>1, <1>2, <1>7, Zenon DEF Model!AddCube
<1>8. ASSUME NEW sel, NEW newName, NEW bone, Model!UpdateCube(sel, newName, bone) PROVE Counting
  BY <1>1, <1>2, <1>8, Zenon DEF Model!UpdateCube
<1>9. ASSUME NEW sels, Model!DeleteCube(sels) PROVE Counting
  BY <1>1, <1>2, <1>9, Zenon DEF Model!DeleteCube
<1>10. ASSUME Model!UserEdit PROVE Counting
  BY <1>10 DEF Model!UserEdit, Counting
<1> QED BY <1>4, <1>5, <1>6, <1>7, <1>8, <1>9, <1>10 DEF Model!Next

LEMMA EditsAreCounted == Spec => [](part = "model" => userEdits \in Nat)
<1>1. Init => (part = "model" => userEdits \in Nat)
  BY DEF Init, Model!Init
<1>2. (part = "model" => userEdits \in Nat) /\ [Next]_<<part, mvars, xvars>> => (part = "model" => userEdits \in Nat)'
  <2> SUFFICES ASSUME part = "model" => userEdits \in Nat, [Next]_<<part, mvars, xvars>>, part' = "model"
               PROVE  userEdits' \in Nat
    OBVIOUS
  <2>1. CASE UNCHANGED <<part, mvars, xvars>>
    BY <2>1 DEF mvars
  <2>2. CASE Next
    BY <2>2, EditsCount DEF Next, Counting
  <2> QED BY <2>1, <2>2
<1> QED BY <1>1, <1>2, PTL DEF Spec

\* What the cube tools go on from: the trees as they are, or with a root bone.
IsBase(base) ==
    \/ base = <<editor, Model!Active>>
    \/ \E rootId : (Model!RootMissing => rootId \in Node \ DOMAIN editor) /\ base = Model!EnsureRootBone(rootId)

\* Where a call that answers with an error leaves the trees: some branches gone,
\* or what it went on from, with another name on one cube perhaps.
Stopped == \E ns : editor' = Model!Without(ns) /\ session' = Model!Active
Kept(base) ==
    /\ IsBase(base) /\ session' = base[2]
    /\ \/ editor' = base[1]
       \/ \E n \in Cubes(editor), newName \in Name \cup {None} : editor' = Model!Renamed(base[1], n, newName)

\* Nothing but a root bone at the top level is new in it.
LEMMA BaseIs ==
  ASSUME TreeInv, NEW base, IsBase(base)
  PROVE  /\ Forest(base[1])
         /\ \A n \in DOMAIN editor : n \in DOMAIN base[1] /\ base[1][n] = editor[n]
         /\ \A n \in DOMAIN base[1] \ DOMAIN editor : base[1][n] = [kind |-> "group", name |-> "root", in |-> Top]
         /\ \A n, m \in DOMAIN base[1] \ DOMAIN editor : n = m
         /\ base[2].cubes = Model!Active.cubes /\ Model!Active.bones \subseteq base[2].bones
         /\ \A b \in base[2].bones \ Model!Active.bones : b.name = "root" /\ DOMAIN base[1] \ DOMAIN editor # {}
<1>1. CASE base = <<editor, Model!Active>>
  <2>1. base[1] = editor /\ base[2] = Model!Active
    BY <1>1
  <2> QED BY <2>1 DEF TreeInv
<1>2. ASSUME NEW rootId, Model!RootMissing => rootId \in Node \ DOMAIN editor, base = Model!EnsureRootBone(rootId),
             base # <<editor, Model!Active>>
      PROVE  /\ Forest(base[1])
             /\ \A n \in DOMAIN editor : n \in DOMAIN base[1] /\ base[1][n] = editor[n]
             /\ \A n \in DOMAIN base[1] \ DOMAIN editor : base[1][n] = [kind |-> "group", name |-> "root", in |-> Top]
             /\ \A n, m \in DOMAIN base[1] \ DOMAIN editor : n = m
             /\ base[2].cubes = Model!Active.cubes /\ Model!Active.bones \subseteq base[2].bones
             /\ \A b \in base[2].bones \ Model!Active.bones : b.name = "root" /\ DOMAIN base[1] \ DOMAIN editor # {}
  <2>1. Model!RootMissing /\ rootId \in Node \ DOMAIN editor
    BY <1>2 DEF Model!EnsureRootBone
  <2> DEFINE root == [kind |-> "group", name |-> "root", in |-> Top]
             bone == [id |-> None, name |-> "root", parent |-> None]
             new == Model!Place(editor, rootId, root)
             s == [Model!Active EXCEPT !.bones = @ \cup {bone}]
  <2>2. base[1] = new /\ base[2] = s
    BY <1>2, <2>1 DEF Model!EnsureRootBone
  <2>3. Forest(base[1])
    BY <1>2, EnsureRootBoneTree
  <2>4. DOMAIN new = DOMAIN editor \cup {rootId} /\ new[rootId] = root /\ \A n \in DOMAIN editor : new[n] = editor[n]
    BY <2>1 DEF Model!Place
  <2>5. s.bones = Model!Active.bones \cup {bone} /\ s.cubes = Model!Active.cubes /\ bone.name = "root"
    BY ActiveType DEF SessionType
  <2> HIDE DEF new, s, root, bone
  <2>6. /\ \A n \in DOMAIN editor : n \in DOMAIN base[1] /\ base[1][n] = editor[n]
        /\ \A n \in DOMAIN base[1] \ DOMAIN editor : base[1][n] = root
        /\ \A n, m \in DOMAIN base[1] \ DOMAIN editor : n = m
        /\ DOMAIN base[1] \ DOMAIN editor # {}
    BY <2>1, <2>2, <2>4
  <2>7. /\ base[2].cubes = Model!Active.cubes /\ Model!Active.bones \subseteq base[2].bones
        /\ \A b \in base[2].bones \ Model!Active.bones : b.name = "root"
    BY <2>2, <2>5
  <2> QED BY <2>3, <2>6, <2>7 DEF root
<1> QED BY <1>1, <1>2 DEF IsBase

\* Then what is left is as a refusal may leave it.
LEMMA StoppedLeaves ==
  ASSUME TreeInv, Stopped
  PROVE  Model!RefusalLeaves
<1>1. PICK ns : editor' = Model!Without(ns) /\ session' = Model!Active
  BY DEF Stopped
<1>2. DOMAIN editor' \subseteq DOMAIN editor /\ \A n \in DOMAIN editor' : editor'[n] = editor[n]
  BY <1>1 DEF Model!Without
<1> QED BY <1>1, <1>2 DEF Model!RefusalLeaves

LEMMA KeptLeaves ==
  ASSUME TreeInv, NEW base, Kept(base)
  PROVE  Model!RefusalLeaves
<1> DEFINE ed == base[1]
<1>1. /\ Forest(ed)
      /\ \A n \in DOMAIN editor : n \in DOMAIN ed /\ ed[n] = editor[n]
      /\ \A n \in DOMAIN ed \ DOMAIN editor : ed[n] = [kind |-> "group", name |-> "root", in |-> Top]
      /\ \A n, m \in DOMAIN ed \ DOMAIN editor : n = m
  BY BaseIs DEF Kept
<1>2. /\ session'.cubes = Model!Active.cubes /\ Model!Active.bones \subseteq session'.bones
      /\ \A b \in session'.bones \ Model!Active.bones : b.name = "root" /\ DOMAIN ed \ DOMAIN editor # {}
  BY BaseIs DEF Kept
<1>3. Model!Cubes = Cubes(editor) /\ Cubes(editor) \subseteq DOMAIN editor
  BY DEF Model!Cubes, Model!Nodes, Cubes
<1>4. \/ editor' = ed
      \/ \E n \in Cubes(editor), newName \in Name \cup {None} : editor' = Model!Renamed(ed, n, newName)
  BY DEF Kept
<1> HIDE DEF ed
<1>5. \E n : /\ DOMAIN editor' = DOMAIN ed
             /\ \A m \in DOMAIN ed : editor'[m].in = ed[m].in /\ (m \notin {n} \cap Cubes(editor) => editor'[m] = ed[m])
  <2>1. CASE editor' = ed
    BY <2>1
  <2>2. ASSUME NEW n \in Cubes(editor), NEW newName \in Name \cup {None}, editor' = Model!Renamed(ed, n, newName)
        PROVE  /\ DOMAIN editor' = DOMAIN ed
               /\ \A m \in DOMAIN ed : editor'[m].in = ed[m].in /\ (m \notin {n} \cap Cubes(editor) => editor'[m] = ed[m])
    <3>1. n \in DOMAIN ed \ Groups(ed)
      BY <1>1, <1>3 DEF Groups, Cubes
    <3> QED BY <1>1, <2>2, <3>1, RenamedForest
  <2> QED BY <1>4, <2>1, <2>2
<1>6. PICK n : /\ DOMAIN editor' = DOMAIN ed
               /\ \A m \in DOMAIN ed : editor'[m].in = ed[m].in /\ (m \notin {n} \cap Cubes(editor) => editor'[m] = ed[m])
  BY <1>5
<1> DEFINE made == DOMAIN editor' \ DOMAIN editor
           gone == DOMAIN editor \ DOMAIN editor'
           renamed == {m \in DOMAIN editor \ gone : editor'[m].name # editor[m].name}
<1>7. gone = {} /\ made = DOMAIN ed \ DOMAIN editor
  BY <1>1, <1>6
<1>8. renamed \subseteq {n} \cap Cubes(editor)
  BY <1>1, <1>6
<1>9. \A m \in made : editor'[m] = [kind |-> "group", name |-> "root", in |-> Top]
  BY <1>1, <1>3, <1>6
<1>10. \A m \in DOMAIN editor \ gone : editor'[m].in = editor[m].in
  BY <1>1, <1>6
<1> HIDE DEF made, gone, renamed
<1>11. /\ session'.cubes = Model!Active.cubes /\ Model!Active.bones \subseteq session'.bones
       /\ \A b \in session'.bones \ Model!Active.bones : b.name = "root" /\ made # {}
       /\ \A m \in made : editor'[m] = [kind |-> "group", name |-> "root", in |-> Top]
       /\ \A m \in made, k \in made : m = k
       /\ \A m \in DOMAIN editor \ gone : editor'[m].in = editor[m].in
       /\ renamed \subseteq Model!Cubes /\ \A m \in renamed, k \in renamed : m = k
       /\ gone # {} => made = {} /\ renamed = {}
  BY <1>1, <1>2, <1>3, <1>7, <1>8, <1>9, <1>10
<1> QED BY <1>11 DEF Model!RefusalLeaves, made, gone, renamed

\* A call that answers with an error ends so.
LEMMA RefusalEnds ==
  ASSUME TreeInv, userEdits \in Nat, ~result'.ok, Model!Next, Model!Called
  PROVE  Stopped \/ \E base : Kept(base)
<1>1. ~Model!Answer(TRUE)
  BY AnswerIs
<1>2. CASE Model!Refuse
  <2>1. Kept(<<editor, Model!Active>>)
    BY <1>2 DEF Model!Refuse, Kept, IsBase
  <2> QED BY <2>1
<1>3. CASE ~Model!Refuse
  <2>1. \A id, name, parent : ~Model!AddBone(id, name, parent)
    BY <1>1, <1>3 DEF Model!AddBone
  <2>2. \A sel, newName, parent : ~Model!UpdateBone(sel, newName, parent)
    BY <1>1, <1>3 DEF Model!UpdateBone
  <2>3. ASSUME NEW sels, Model!DeleteBone(sels) PROVE Stopped
    <3> DEFINE top == Model!TopMost(UNION {Model!Resolve(Model!LiveBones, sel) : sel \in sels})
    <3>1. ASSUME NEW n, NEW m, result' = [tool |-> "delete_bone", ok |-> TRUE, deleted |-> Model!Chains(top), bones |-> n, cubes |-> m]
          PROVE  FALSE
      <4>1. result'.ok = TRUE
        BY <3>1
      <4> QED BY <4>1
    <3> HIDE DEF top
    <3>2. \E done : editor' = Model!Without({t.id : t \in done}) /\ session' = Model!Active
      BY <1>3, <2>3, <3>1, DeleteBoneEnds DEF top
    <3> QED BY <3>2 DEF Stopped
  <2>4. ASSUME NEW id \in Node, NEW name \in Name, NEW bone \in Model!Selector \cup {None},
               Model!AddCube(id, name, bone)
        PROVE  \E base : Kept(base)
    <3> DEFINE base(rootId) == IF bone = None THEN Model!EnsureRootBone(rootId) ELSE <<editor, Model!Active>>
    <3>1. PICK rootId \in Model!RootIds(bone = None) \ {id} : editor' = base(rootId)[1] /\ session' = base(rootId)[2]
      BY <1>1, <1>3, <2>4 DEF Model!AddCube
    <3>2. IsBase(base(rootId))
      BY <3>1 DEF Model!RootIds, Model!Fresh, IsBase
    <3> HIDE DEF base
    <3>3. Kept(base(rootId))
      BY <3>1, <3>2 DEF Kept
    <3> QED BY <3>3
  <2>5. ASSUME NEW sel \in Model!Selector, NEW newName \in Name \cup {None},
               NEW bone \in Name \cup {None, Top}, Model!UpdateCube(sel, newName, bone)
        PROVE  \E base : Kept(base)
    <3> DEFINE found == Model!Resolve(Model!LiveCubes, sel)
               target == CHOOSE t \in found : TRUE
               base(rootId) == IF bone \in {"root", Top} THEN Model!EnsureRootBone(rootId) ELSE <<editor, Model!Active>>
    <3>1. PICK rootId \in Model!RootIds(bone \in {"root", Top}) :
             /\ found # {} /\ session' = base(rootId)[2]
             /\ \/ editor' = base(rootId)[1]
                \/ editor' = Model!Renamed(base(rootId)[1], target.id, newName)
      BY <1>1, <1>3, <2>5 DEF Model!UpdateCube
    <3>2. IsBase(base(rootId))
      BY <3>1 DEF Model!RootIds, Model!Fresh, IsBase
    <3>3. target \in Model!LiveCubes
      BY <3>1, ResolveAmong
    <3> HIDE DEF target, base
    <3>4. target.id \in Cubes(editor)
      <4>1. Forest(editor)
        BY DEF TreeInv
      <4>2. target.id \in DOMAIN editor \ Groups(editor)
        BY <3>3, <4>1, LiveCubesAre
      <4> QED BY <4>1, <4>2, ForestNames
    <3>5. Kept(base(rootId))
      BY <3>1, <3>2, <3>4 DEF Kept
    <3> QED BY <3>5
  <2>6. ASSUME NEW sels, Model!DeleteCube(sels) PROVE Stopped
    <3>1. \E done : editor' = Model!Without({t.id : t \in done}) /\ session' = Model!Active
      BY <1>1, <1>3, <2>6 DEF Model!DeleteCube
    <3> QED BY <3>1 DEF Stopped
  <2>7. ~Model!UserEdit
    BY DEF Model!UserEdit, Model!Called
  <2> QED BY <2>1, <2>2, <2>3, <2>4, <2>5, <2>6, <2>7 DEF Model!Next
<1> QED BY <1>2, <1>3

\* THEOREM.  When delete_bone answers, on trees that are in step, it has named and
\* counted the bones that are gone from Blockbench, and counted the cubes gone
\* with them (and, when "root" goes, those outside every group, which stay).  A
\* call that answers with an error, whatever the state of the trees, has at most
\* made a root bone and renamed one cube, or taken some branches out half way,
\* and the session knows of nothing but the root bone.
THEOREM RepliesStayTrue == Spec => RepliesAreTrue
<1>1. ASSUME MirrorInv, userEdits \in Nat, Model!Next PROVE Model!DeleteTells
  <2>1. CASE Model!Called /\ result'.tool = "delete_bone"
    <3>1. PICK sels : Model!DeleteBone(sels)
      BY <1>1, <2>1, OthersDoNotTell
    <3> QED BY <1>1, <3>1, DeleteBoneTells
  <2>2. CASE ~(Model!Called /\ result'.tool = "delete_bone")
    BY <2>2 DEF Model!DeleteTells
  <2> QED BY <2>1, <2>2
<1>2. ASSUME MirrorInv, userEdits \in Nat, Model!Next PROVE Model!RefusalLeaves
  <2>1. CASE Model!Called /\ ~result'.ok
    BY <1>2, <2>1, RefusalEnds, StoppedLeaves, KeptLeaves DEF MirrorInv
  <2>2. CASE ~(Model!Called /\ ~result'.ok)
    BY <2>2 DEF Model!RefusalLeaves
  <2> QED BY <2>1, <2>2
<1>3. (part = "model" => MirrorInv) /\ (part = "model" => userEdits \in Nat) /\ [Next]_<<part, mvars, xvars>>
        => [part = "model" => Model!DeleteTells /\ Model!RefusalLeaves]_mvars
  <2> SUFFICES ASSUME part = "model" => MirrorInv, part = "model" => userEdits \in Nat,
                      [Next]_<<part, mvars, xvars>>, part = "model", mvars' # mvars
               PROVE  Model!DeleteTells /\ Model!RefusalLeaves
    OBVIOUS
  <2>1. Next
    OBVIOUS
  <2>2. Model!Next /\ MirrorInv /\ userEdits \in Nat
    BY <2>1 DEF Next
  <2> QED BY <1>1, <1>2, <2>2
<1> QED BY <1>3, AlwaysMirrors, EditsAreCounted, PTL DEF Spec, RepliesAreTrue

----------------------------------------------------------------------------
(* What an export reports                                                  *)

ExportInv == disk = [s \in Export!Files |-> disk[s]] /\ Export!ReportedFilesMatch

LEMMA FirstIsIn ==
  ASSUME NEW S \in SUBSET Nat, S # {}
  PROVE  Export!Min(S) \in S
<1>1. PICK m \in S : \A k \in S : m <= k
  BY Least
<1> QED BY <1>1 DEF Export!Min

\* The codec that writes is the chosen one, or one that goes by its id.
WriterOf(request) == Codec[Export!Min(Export!Resolved(Export!Chosen(request)))].id
LEMMA CodecIsNamed ==
  ASSUME NEW request, Export!Listed(request) # {}
  PROVE  /\ WriterOf(request) \in {Codec[i].id : i \in DOMAIN Codec}
         /\ Export!ByCodec(WriterOf(request)) \in Export!AsAsked(Export!ByCodec(request))
<1> DEFINE i == Export!Min(Export!Listed(request))
           chosen == Export!Chosen(request)
           j == Export!Min(Export!Resolved(chosen))
<1>1. Export!Listed(request) \in SUBSET Nat /\ \A id : Export!Resolved(id) \in SUBSET Nat
  BY CodecAssumption DEF Export!Listed, Export!Resolved, Export!Entries
<1>2. i \in Export!Listed(request) /\ chosen = Codec[i].id
  BY <1>1, FirstIsIn DEF Export!Chosen
<1>n. WriterOf(request) = Codec[j].id
  BY DEF WriterOf
<1> HIDE DEF i, chosen
<1>3. i \in Export!Resolved(chosen)
  BY <1>2 DEF Export!Listed, Export!Resolved, Export!Tokens
<1>4. j \in Export!Resolved(chosen)
  BY <1>1, <1>3, FirstIsIn
<1> HIDE DEF j
<1>5. j \in DOMAIN Codec /\ chosen \in Export!Tokens(Codec[j])
  BY <1>4 DEF Export!Resolved, Export!Entries
<1>6. Codec[j].id \in {chosen} \cup Export!Namesakes(chosen)
  <2>1. CASE chosen = Codec[j].id
    BY <2>1
  <2>2. CASE chosen \in {Codec[j].name} \cup Codec[j].extensions
    BY <1>5, <2>2 DEF Export!Namesakes
  <2> QED BY <1>5, <2>1, <2>2 DEF Export!Tokens
<1>7. Export!AsAsked(Export!ByCodec(request)) =
        {Export!ByCodec(id) : id \in {chosen} \cup Export!Namesakes(chosen)}
  BY DEF Export!AsAsked, Export!ByCodec, chosen
<1> QED BY <1>5, <1>6, <1>7, <1>n

\* Files of ours are reported when all of them are written.
LEMMA WriteFilesMatch ==
  ASSUME ExportInv, NEW format, NEW files, files = Export!Artifacts(format), Export!WriteFiles(files)
  PROVE  ExportInv'
<1>0. /\ DOMAIN files = 1..Len(files) /\ Len(files) \in Nat
      /\ \A i \in DOMAIN files : files[i] \in Export!AtBase
  <2>1. CASE format = "gltf"
    <3>1. files = <<<<"base", "gltf">>>>
      BY <2>1 DEF Export!Artifacts
    <3>2. <<"base", "gltf">> \in Export!AtBase
      BY DEF Export!AtBase
    <3> QED BY <3>1, <3>2
  <2>2. CASE format # "gltf"
    <3>1. files = <<<<"base", "geo">>, <<"base", "animation">>>>
      BY <2>2 DEF Export!Artifacts
    <3>2. <<"base", "geo">> \in Export!AtBase /\ <<"base", "animation">> \in Export!AtBase
      BY DEF Export!AtBase
    <3> QED BY <3>1, <3>2
  <2> QED BY <2>1, <2>2
<1>1. PICK n \in 0..Len(files) :
        /\ disk' = [s \in Export!Files |-> IF \E i \in 1..n : files[i] = s
                                           THEN [version |-> version, by |-> Export!Ours] ELSE disk[s]]
        /\ reply' = [ok |-> Export!AllWritten(files, n), files |-> files, version |-> version,
                     by |-> Export!Ours]
  BY DEF Export!WriteFiles
<1>2. /\ reply'.ok = (n = Len(files)) /\ reply'.files = files
      /\ reply'.version = version /\ reply'.by = Export!Ours
  BY <1>1 DEF Export!AllWritten
<1>3. Export!AsAsked(Export!Ours) = {Export!Ours}
  BY DEF Export!AsAsked, Export!Ours
<1>4. ASSUME n = Len(files), NEW f \in Export!ToSet(files)
      PROVE  f \in Export!Held(f) /\ disk'[f] = [version |-> version, by |-> Export!Ours]
  <2>1. PICK i \in DOMAIN files : f = files[i]
    BY <1>4 DEF Export!ToSet
  <2>2. i \in 1..n /\ f \in Export!AtBase
    BY <1>0, <1>4, <2>1
  <2>3. f \in Export!Files /\ f # Export!Directory
    BY <2>2 DEF Export!Files, Export!AtBase, Export!Directory
  <2> QED BY <1>1, <2>1, <2>2, <2>3 DEF Export!Held
<1>5. disk' = [s \in Export!Files |-> disk'[s]]
  BY <1>1
<1>6. Export!ReportedFilesMatch'
  <2> SUFFICES ASSUME reply'.ok, NEW f \in Export!ToSet(files)
               PROVE  \E file \in Export!Held(f), by \in Export!AsAsked(Export!Ours) :
                        disk'[file] = [version |-> version, by |-> by]
    BY <1>2 DEF Export!ReportedFilesMatch
  <2>1. f \in Export!Held(f) /\ disk'[f] = [version |-> version, by |-> Export!Ours]
    BY <1>2, <1>4
  <2>2. Export!Ours \in Export!AsAsked(Export!Ours)
    BY <1>3
  <2> HIDE DEF ExportInv
  <2> QED BY <2>1, <2>2
<1> QED BY <1>5, <1>6 DEF ExportInv

\* Blockbench writes one file: the one reported, or one in the directory.
LEMMA NativeMatches ==
  ASSUME ExportInv, NEW dest \in Export!Destination,
         NEW name \in {"json"} \cup {Codec[i].id : i \in DOMAIN Codec},
         NEW asked, NEW by \in Export!AsAsked(asked), Export!NativeWrites(dest, name, by, asked)
  PROVE  ExportInv'
<1> DEFINE file == IF dest = Export!Directory THEN <<"outdir", name>> ELSE dest
<1>1. /\ disk' = [disk EXCEPT ![file] = [version |-> version, by |-> by]]
      /\ reply' = [ok |-> TRUE, files |-> <<dest>>, version |-> version, by |-> asked]
  BY DEF Export!NativeWrites
<1>2. file \in Export!Held(dest) /\ file \in Export!Files
  <2>1. CASE dest = Export!Directory
    BY <2>1 DEF Export!Held, Export!Files, Export!Inside
  <2>2. CASE dest # Export!Directory
    BY <2>2 DEF Export!Held, Export!Files, Export!Destination, Export!AtBase
  <2> QED BY <2>1, <2>2
<1> HIDE DEF file
<1>3. disk = [s \in Export!Files |-> disk[s]]
  BY DEF ExportInv
<1>4. disk' = [s \in Export!Files |-> disk'[s]] /\ disk'[file] = [version |-> version, by |-> by]
  BY <1>1, <1>2, <1>3
<1>5. Export!ToSet(reply'.files) = {dest}
  BY <1>1 DEF Export!ToSet
<1>6. reply'.version = version /\ reply'.by = asked
  BY <1>1
<1> QED BY <1>2, <1>4, <1>5, <1>6 DEF ExportInv, Export!ReportedFilesMatch

LEMMA RefusalMatches == ASSUME ExportInv, Export!Refused PROVE ExportInv'
  BY DEF Export!Refused, ExportInv, Export!ReportedFilesMatch

LEMMA ExportStep ==
  ASSUME ExportInv, Export!Next
  PROVE  ExportInv'
<1>1. CASE Export!ExportGltf
  BY <1>1, WriteFilesMatch DEF Export!ExportGltf
<1>2. ASSUME NEW dest \in Export!Destination, NEW request, Export!ExportCodec(dest, request) PROVE ExportInv'
  <2>1. \/ Export!Refused
        \/ /\ Export!Listed(request) # {}
           /\ Export!NativeWrites(dest, WriterOf(request), Export!ByCodec(WriterOf(request)), Export!ByCodec(request))
    BY <1>2 DEF Export!ExportCodec, WriterOf
  <2> QED BY <2>1, CodecIsNamed, NativeMatches, RefusalMatches
<1>3. ASSUME NEW dest \in Export!Destination, NEW policy, Export!ExportGecko(dest, policy) PROVE ExportInv'
  <2>1. \/ Export!Refused
        \/ Export!NativeWrites(dest, "json", Export!Native, Export!Native)
        \/ Export!WriteFiles(Export!Artifacts("gecko_geo_anim"))
    BY <1>3 DEF Export!ExportGecko
  <2>2. Export!Native \in Export!AsAsked(Export!Native)
    BY DEF Export!AsAsked, Export!Native
  <2> QED BY <2>1, <2>2, WriteFilesMatch, NativeMatches, RefusalMatches
<1>4. CASE Export!Edit
  BY <1>4 DEF Export!Edit, ExportInv, Export!ReportedFilesMatch
<1> QED BY <1>1, <1>2, <1>3, <1>4 DEF Export!Next, Export!Export

\* THEOREM.  What an export reports as done it has written, whole, of the model
\* as it was then, in the format asked for or by the codec chosen for the name
\* asked for: for any list of codecs, any compiler and writer of Blockbench's,
\* and any edits between exports.  Two things the reply does not tell are in the
\* statement: the id chosen is looked up once more among names and extensions, so
\* that an earlier codec which goes by it may have written the file; and of a
\* directory it says nothing but that a file in it holds the model
\* (ExportService.ts, BlockbenchCompileAdapter.ts,
\* pathPolicy.ts).
THEOREM ReportsAreTrue == Spec => []ReportedFilesMatch
<1>1. Init => (part = "export" => ExportInv)
  BY DEF Init, Export!Init, ExportInv, Export!ReportedFilesMatch
<1>2. (part = "export" => ExportInv) /\ [Next]_<<part, mvars, xvars>> => (part = "export" => ExportInv)'
  <2> SUFFICES ASSUME part = "export" => ExportInv, [Next]_<<part, mvars, xvars>>, part' = "export"
               PROVE  ExportInv'
    OBVIOUS
  <2>1. CASE UNCHANGED <<part, mvars, xvars>>
    BY <2>1 DEF xvars, ExportInv, Export!ReportedFilesMatch
  <2>2. CASE Next
    BY <2>2, ExportStep DEF Next
  <2> QED BY <2>1, <2>2
<1>3. (part = "export" => ExportInv) => ReportedFilesMatch
  BY DEF ExportInv, ReportedFilesMatch
<1> QED BY <1>1, <1>2, <1>3, PTL DEF Spec

----------------------------------------------------------------------------
(* The files of an export (ModelExport): every model fits together         *)

LEMMA ExportCardinality == \A S : Export!Cardinality(S) = Cardinality(S)
BY DEF Export!Cardinality, Cardinality

\* x comes before y.
Precedes(key, x, y) == key[x] < key[y] \/ (key[x] = key[y] /\ x < y)

\* What is put in order comes in that order, each once.
LEMMA OrderIs ==
  ASSUME NEW S \in SUBSET Nat, IsFiniteSet(S), NEW key \in [S -> Nat]
  PROVE  LET o == Export!InOrder(S, key)
             n == Cardinality(S)
         IN /\ n \in Nat /\ o \in [1..n -> S]
            /\ \A p, q \in 1..n : p < q => Precedes(key, o[p], o[q])
            /\ \A x \in S : \E p \in 1..n : o[p] = x
<1> DEFINE n == Cardinality(S)
           E(x) == Export!Earlier(S, key, x)
           rank == [x \in S |-> Cardinality(E(x))]
<1>0. n \in Nat
  BY FS_CardinalityType
<1>1. \A x \in S : E(x) = {y \in S : Precedes(key, y, x)}
  BY DEF Precedes, Export!Earlier
<1>2. \A x, y \in S : x # y => Precedes(key, x, y) \/ Precedes(key, y, x)
  BY DEF Precedes
<1>3. \A x, y, z \in S : Precedes(key, x, y) /\ Precedes(key, y, z) => Precedes(key, x, z)
  BY DEF Precedes
<1>4. \A x \in S : ~Precedes(key, x, x)
  BY DEF Precedes
<1>e. \A x \in S : E(x) \in SUBSET S
  BY <1>1
<1> HIDE DEF E
<1>5. ASSUME NEW x \in S
      PROVE  IsFiniteSet(E(x)) /\ Cardinality(E(x)) \in Nat /\ Cardinality(E(x)) < n
  <2>1. IsFiniteSet(E(x)) /\ Cardinality(E(x)) <= n /\ (n = Cardinality(E(x)) => S = E(x))
    BY <1>e, FS_Subset
  <2>2. Cardinality(E(x)) \in Nat
    BY <2>1, FS_CardinalityType
  <2>3. S # E(x)
    BY <1>1, <1>4
  <2> QED BY <1>0, <2>1, <2>2, <2>3
<1>6. ASSUME NEW x \in S, NEW y \in S, Precedes(key, x, y)
      PROVE  rank[x] < rank[y]
  <2>1. E(x) \in SUBSET E(y) /\ E(x) # E(y)
    BY <1>1, <1>3, <1>4, <1>6
  <2>2. IsFiniteSet(E(y)) /\ Cardinality(E(y)) \in Nat /\ Cardinality(E(x)) \in Nat
    BY <1>5
  <2>3. Cardinality(E(x)) <= Cardinality(E(y)) /\ (Cardinality(E(y)) = Cardinality(E(x)) => E(y) = E(x))
    BY <2>1, <2>2, FS_Subset
  <2> QED BY <2>1, <2>2, <2>3
<1>7. rank \in [S -> 0..(n-1)]
  BY <1>0, <1>5
<1>8. ASSUME NEW x \in S, NEW y \in S, rank[x] = rank[y] PROVE x = y
  <2>1. rank[x] \in Int /\ rank[y] \in Int
    BY <1>7
  <2>2. ~(rank[x] < rank[y]) /\ ~(rank[y] < rank[x])
    BY <1>8, <2>1
  <2> QED BY <1>2, <1>6, <2>2
<1>9. \A r \in 0..(n-1) : \E x \in S : rank[x] = r
  <2> HIDE DEF rank
  <2>1. rank \in Injection(S, 0..(n-1))
    BY <1>7, <1>8 DEF Injection, IsInjective
  <2>2. IsFiniteSet(0..(n-1)) /\ Cardinality(0..(n-1)) = n
    BY <1>0, FS_Interval
  <2>3. rank \in Surjection(S, 0..(n-1))
    BY <2>1, <2>2, FS_Injection
  <2> QED BY <2>3 DEF Surjection
<1> DEFINE o == Export!InOrder(S, key)
<1>10. /\ o = [p \in 1..n |-> o[p]]
       /\ \A p \in 1..n : o[p] = CHOOSE x \in S : Export!Cardinality(Export!Earlier(S, key, x)) = p - 1
  <2>1. Export!Cardinality(S) = n
    BY ExportCardinality
  <2> QED BY <2>1 DEF Export!InOrder
<1>r. \A x \in S : rank[x] = Export!Cardinality(Export!Earlier(S, key, x))
  BY ExportCardinality DEF E
<1> HIDE DEF o, rank
<1>11. \A p \in 1..n : o[p] \in S /\ rank[o[p]] = p - 1
  <2> SUFFICES ASSUME NEW p \in 1..n PROVE o[p] \in S /\ rank[o[p]] = p - 1
    OBVIOUS
  <2>1. p - 1 \in 0..(n-1)
    BY <1>0
  <2>2. \E x \in S : Export!Cardinality(Export!Earlier(S, key, x)) = p - 1
    BY <1>9, <1>r, <2>1
  <2>3. o[p] = CHOOSE x \in S : Export!Cardinality(Export!Earlier(S, key, x)) = p - 1
    BY <1>10
  <2>4. o[p] \in S /\ Export!Cardinality(Export!Earlier(S, key, o[p])) = p - 1
    BY <2>2, <2>3
  <2> QED BY <1>r, <2>4
<1>12. o \in [1..n -> S]
  BY <1>10, <1>11
<1>13. ASSUME NEW p \in 1..n, NEW q \in 1..n, p < q PROVE Precedes(key, o[p], o[q])
  <2>1. o[p] \in S /\ o[q] \in S /\ rank[o[p]] = p - 1 /\ rank[o[q]] = q - 1
    BY <1>11
  <2>2. o[p] # o[q]
    BY <1>13, <2>1
  <2>3. ~Precedes(key, o[q], o[p])
    <3>1. Precedes(key, o[q], o[p]) => rank[o[q]] < rank[o[p]]
      BY <1>6, <2>1
    <3> QED BY <1>13, <2>1, <3>1
  <2> QED BY <1>2, <2>1, <2>2, <2>3
<1>14. ASSUME NEW x \in S PROVE \E p \in 1..n : o[p] = x
  <2>1. rank[x] \in 0..(n-1)
    BY <1>7
  <2>2. rank[x] + 1 \in 1..n /\ (rank[x] + 1) - 1 = rank[x]
    BY <1>0, <2>1
  <2>3. rank[o[rank[x] + 1]] = rank[x] /\ o[rank[x] + 1] \in S
    BY <1>11, <2>2
  <2> QED BY <1>8, <2>2, <2>3
<1> QED BY <1>0, <1>12, <1>13, <1>14 DEF o

LEMMA SequenceIs ==
  ASSUME NEW s, IsSequence(s)
  PROVE  Len(s) \in Nat /\ DOMAIN s = 1..Len(s) /\ s = [i \in 1..Len(s) |-> s[i]]
BY DEF IsSequence

\* Among bounded natural numbers there is a greatest one, and Max is it.
LEMMA MaxIs ==
  ASSUME NEW S \in SUBSET Nat, NEW n \in Nat, \A x \in S : x <= n, S # {}
  PROVE  Export!Max(S) \in S /\ \A y \in S : y <= Export!Max(S)
<1> DEFINE Left == {k \in Nat : n - k \in S}
<1>1. PICK x \in S : TRUE
  OBVIOUS
<1>2. n - x \in Left
  BY <1>1
<1>3. PICK k \in Left : \A j \in Left : k <= j
  <2>1. Left \in SUBSET Nat
    OBVIOUS
  <2> HIDE DEF Left
  <2> QED BY <1>2, <2>1, Least
<1>4. ASSUME NEW y \in S PROVE n - k >= y
  <2>1. n - y \in Left
    OBVIOUS
  <2>2. k <= n - y /\ k \in Nat
    BY <1>3, <2>1
  <2> QED BY <2>2
<1>5. \E z \in S : \A y \in S : z >= y
  BY <1>3, <1>4
<1> QED BY <1>5 DEF Export!Max

LEMMA MinIs ==
  ASSUME NEW S \in SUBSET Nat, S # {}
  PROVE  Export!Min(S) \in S /\ \A y \in S : Export!Min(S) <= y
<1>1. \E z \in S : \A y \in S : z <= y
  BY Least
<1> QED BY <1>1 DEF Export!Min

----------------------------------------------------------------------------
(* The nodes of a glTF file                                                *)

\* The last bone of a name, if there is one.
LEMMA IndexIs ==
  ASSUME NEW bs, IsSequence(bs), NEW name
  PROVE  LET k == Export!IndexOf(bs, name)
         IN \/ k = 0 /\ \A i \in DOMAIN bs : bs[i].name # name
            \/ k \in DOMAIN bs /\ bs[k].name = name
<1> DEFINE S == {0} \cup {i \in DOMAIN bs : bs[i].name = name}
<1>0. Len(bs) \in Nat /\ DOMAIN bs = 1..Len(bs)
  BY SequenceIs
<1>1. S \in SUBSET Nat /\ (\A x \in S : x <= Len(bs)) /\ S # {} /\ Len(bs) \in Nat
  BY <1>0
<1>2. Export!IndexOf(bs, name) = Export!Max(S)
  BY DEF Export!IndexOf
<1>3. Export!Max(S) \in S /\ \A y \in S : y <= Export!Max(S)
  <2> HIDE DEF S
  <2> QED BY <1>1, MaxIs
<1>4. CASE Export!Max(S) = 0
  <2>1. \A i \in DOMAIN bs : i \notin S
    BY <1>0, <1>3, <1>4
  <2> QED BY <1>2, <1>4, <2>1
<1>5. CASE Export!Max(S) # 0
  BY <1>2, <1>3, <1>5
<1> QED BY <1>4, <1>5

\* The nodes of a file are a sequence with a bone that hangs from none.
LEMMA BonesAre ==
  ASSUME NEW m, IsModel(m)
  PROVE  LET bs == Export!Bones(m)
         IN /\ IsSequence(bs) /\ Len(bs) \in Nat \ {0} /\ DOMAIN bs = 1..Len(bs)
            /\ \E i \in DOMAIN bs : Export!ParentIndex(bs, i) = 0
<1> DEFINE bs == Export!Bones(m)
<1>1. CASE m.bones = <<>>
  <2>1. bs = <<[name |-> "root", parent |-> None]>>
    BY <1>1 DEF Export!Bones
  <2> HIDE DEF bs
  <2>2. IsSequence(bs) /\ Len(bs) = 1 /\ DOMAIN bs = 1..1 /\ bs[1].parent = None
    BY <2>1 DEF IsSequence
  <2>3. 1 \in DOMAIN bs /\ Export!ParentIndex(bs, 1) = 0
    BY <2>2 DEF Export!ParentIndex
  <2> QED BY <2>2, <2>3 DEF bs
<1>2. CASE m.bones # <<>>
  <2>1. bs = m.bones
    BY <1>2 DEF Export!Bones
  <2>2. IsSequence(bs) /\ Len(bs) \in Nat /\ DOMAIN bs = 1..Len(bs)
    BY <2>1, SequenceIs DEF IsModel
  <2>3. PICK i \in DOMAIN bs : \A j \in DOMAIN bs : bs[j].name # bs[i].parent
    BY <1>2, <2>1 DEF IsModel
  <2> HIDE DEF bs
  <2>4. Export!IndexOf(bs, bs[i].parent) = 0
    BY <2>2, <2>3, IndexIs
  <2>5. Export!ParentIndex(bs, i) = 0
    BY <2>4 DEF Export!ParentIndex
  <2>6. Len(bs) # 0
    BY <2>2, <2>3
  <2> QED BY <2>2, <2>3, <2>5, <2>6 DEF bs
<1> QED BY <1>1, <1>2

LEMMA ParentIs ==
  ASSUME NEW m, IsModel(m), NEW i \in DOMAIN Export!Bones(m)
  PROVE  Export!ParentIndex(Export!Bones(m), i) \in {0} \cup DOMAIN Export!Bones(m)
<1>1. IsSequence(Export!Bones(m))
  BY BonesAre
<1> QED BY <1>1, IndexIs DEF Export!ParentIndex

\* The roots are the bones without a parent, and the mesh.
LEMMA RootsAre ==
  ASSUME NEW m, IsModel(m)
  PROVE  LET bs == Export!Bones(m)
         IN /\ Export!RootNodes(bs) = {i \in DOMAIN bs : Export!ParentIndex(bs, i) = 0}
                                      \cup {Export!MeshNode(bs)}
            /\ Export!MeshNode(bs) \notin DOMAIN bs
            /\ Export!RootBone(bs) \in DOMAIN bs
<1> DEFINE bs == Export!Bones(m)
           roots == {i \in DOMAIN bs : Export!ParentIndex(bs, i) = 0}
<1>1. IsSequence(bs) /\ Len(bs) \in Nat \ {0} /\ DOMAIN bs = 1..Len(bs) /\ roots # {}
  BY BonesAre
<1> HIDE DEF bs
<1>2. Export!RootNodes(bs) = roots \cup {Export!MeshNode(bs)}
  BY <1>1 DEF Export!RootNodes
<1>3. Export!MeshNode(bs) = Len(bs) + 1
  BY DEF Export!MeshNode
<1>4. Export!RootBone(bs) \in DOMAIN bs
  <2>1. CASE Export!IndexOf(bs, "root") # 0
    BY <1>1, <2>1, IndexIs DEF Export!RootBone
  <2>2. CASE Export!IndexOf(bs, "root") = 0
    <3>1. Export!RootNodes(bs) \in SUBSET Nat /\ Export!RootNodes(bs) # {}
      BY <1>1, <1>2, <1>3
    <3>2. PICK r \in roots : TRUE
      BY <1>1
    <3>3. /\ Export!Min(Export!RootNodes(bs)) \in Export!RootNodes(bs)
          /\ Export!Min(Export!RootNodes(bs)) <= r
      BY <1>2, <3>1, <3>2, MinIs
    <3>4. r \in 1..Len(bs)
      BY <1>1, <3>2
    <3>5. Export!Min(Export!RootNodes(bs)) # Len(bs) + 1
      BY <1>1, <3>1, <3>3, <3>4
    <3>6. Export!Min(Export!RootNodes(bs)) \in DOMAIN bs
      BY <1>2, <1>3, <3>3, <3>5
    <3> QED BY <2>2, <3>6 DEF Export!RootBone
  <2> QED BY <2>1, <2>2
<1> QED BY <1>1, <1>2, <1>3, <1>4 DEF bs

LEMMA NodeIs ==
  ASSUME NEW m, IsModel(m), NEW bone
  PROVE  Export!NodeOf(Export!Bones(m), bone) \in DOMAIN Export!Bones(m)
<1>1. IsSequence(Export!Bones(m))
  BY BonesAre
<1>2. Export!RootBone(Export!Bones(m)) \in DOMAIN Export!Bones(m)
  BY RootsAre
<1> QED BY <1>1, <1>2, IndexIs DEF Export!NodeOf

\* Every bone is in the scene once: as a root, or as the child of one node.
LEMMA NodesAreOnce ==
  ASSUME NEW m, IsModel(m), NEW i \in DOMAIN Export!Bones(m)
  PROVE  LET bs == Export!Bones(m)
         IN Export!Cardinality({j \in DOMAIN bs : i \in Export!Children(bs, j)})
              + (IF i \in Export!RootNodes(bs) THEN 1 ELSE 0) = 1
<1> DEFINE bs == Export!Bones(m)
           above == {j \in DOMAIN bs : i \in Export!Children(bs, j)}
           p == Export!ParentIndex(bs, i)
<1>1. p \in {0} \cup DOMAIN bs
  BY ParentIs
<1>2. above = {j \in DOMAIN bs : p = j}
  BY DEF Export!Children
<1>3. i \in Export!RootNodes(bs) <=> p = 0
  BY RootsAre
<1>4. DOMAIN bs = 1..Len(bs) /\ Len(bs) \in Nat
  BY BonesAre
<1> HIDE DEF bs, above, p
<1>5. CASE p = 0
  <2>1. above = {}
    BY <1>2, <1>4, <1>5
  <2> QED BY <1>3, <1>5, <2>1, FS_EmptySet, ExportCardinality DEF above, bs
<1>6. CASE p # 0
  <2>1. above = {p}
    BY <1>1, <1>2, <1>6
  <2> QED BY <1>3, <1>6, <2>1, FS_Singleton, ExportCardinality DEF above, bs
<1> QED BY <1>5, <1>6

\* A function on the first natural numbers is a sequence.
LEMMA RowIs ==
  ASSUME NEW n \in Nat, NEW s, s = [i \in 1..n |-> s[i]]
  PROVE  IsSequence(s) /\ Len(s) = n /\ DOMAIN s = 1..n
<1>1. s \in [1..n -> {s[i] : i \in DOMAIN s}]
  OBVIOUS
<1>2. s \in Seq({s[i] : i \in DOMAIN s}) /\ DOMAIN s = 1..n
  BY <1>1, IsASeq
<1> QED BY <1>2, LenProperties DEF IsSequence

LEMMA ListIs ==
  ASSUME NEW S, NEW s \in Seq(S)
  PROVE  IsSequence(s) /\ Len(s) \in Nat /\ DOMAIN s = 1..Len(s) /\ s \in [DOMAIN s -> S]
<1>1. Len(s) \in Nat /\ s \in [1..Len(s) -> S] /\ DOMAIN s = 1..Len(s)
  BY LenProperties
<1>2. s = [i \in 1..Len(s) |-> s[i]]
  BY <1>1
<1> QED BY <1>1, <1>2, RowIs

----------------------------------------------------------------------------
(* The tracks of a clip, in their order                                    *)

\* A sequence in order has the places of the sequence, each once.
LEMMA SortedIs ==
  ASSUME NEW s, IsSequence(s), NEW key \in [DOMAIN s -> Nat]
  PROVE  \E o \in [DOMAIN s -> DOMAIN s] :
           /\ Export!Sorted(s, key) = [p \in DOMAIN s |-> s[o[p]]]
           /\ \A p, q \in DOMAIN s : p # q => o[p] # o[q]
           /\ \A x \in DOMAIN s : \E p \in DOMAIN s : o[p] = x
<1> DEFINE D == DOMAIN s
           o == Export!InOrder(D, key)
<1>1. D = 1..Len(s) /\ Len(s) \in Nat
  BY SequenceIs
<1>2. IsFiniteSet(D) /\ Cardinality(D) = Len(s) /\ D \in SUBSET Nat
  <2>1. IsFiniteSet(1..Len(s)) /\ Cardinality(1..Len(s)) = IF 1 > Len(s) THEN 0 ELSE Len(s) - 1 + 1
    BY <1>1, FS_Interval
  <2> HIDE DEF D
  <2> QED BY <1>1, <2>1
<1>s. Export!Sorted(s, key) = [p \in D |-> s[o[p]]]
  BY DEF Export!Sorted
<1> HIDE DEF D
<1>3. /\ o \in [1..Cardinality(D) -> D]
      /\ \A p, q \in 1..Cardinality(D) : p < q => Precedes(key, o[p], o[q])
      /\ \A x \in D : \E p \in 1..Cardinality(D) : o[p] = x
  <2>1. key \in [D -> Nat]
    BY DEF D
  <2> QED BY <1>2, <2>1, OrderIs
<1> HIDE DEF o
<1>4. o \in [D -> D] /\ \A x \in D : \E p \in D : o[p] = x
  BY <1>1, <1>2, <1>3
<1>5. ASSUME NEW p \in D, NEW q \in D, p < q PROVE o[p] # o[q]
  <2>1. Precedes(key, o[p], o[q]) /\ o[p] \in D /\ key[o[p]] \in Nat /\ o[p] \in Nat
    BY <1>1, <1>2, <1>3, <1>5 DEF D
  <2> QED BY <2>1 DEF Precedes
<1>6. \A p, q \in D : p # q => o[p] # o[q]
  <2> SUFFICES ASSUME NEW p \in D, NEW q \in D, p # q PROVE o[p] # o[q]
    OBVIOUS
  <2>1. p < q \/ q < p
    BY <1>1
  <2> QED BY <1>5, <2>1
<1> QED BY <1>s, <1>4, <1>6 DEF D

\* What is rounded is no further off than half a grain.
LEMMA RoundedIs ==
  ASSUME NEW t \in Nat, NEW grain \in Nat \ {0}
  PROVE  LET r == Export!Rounded(t, grain)
         IN r \in Nat /\ 2 * (r * grain - t) <= grain /\ 2 * (t - r * grain) <= grain
<1> DEFINE a == 2 * t + grain
           b == 2 * grain
           r == Export!Rounded(t, grain)
<1>1. a \in Nat /\ b \in Nat \ {0} /\ r = a \div b
  BY DEF Export!Rounded
<1> HIDE DEF a, b, r
<1>2. r \in Nat /\ b * r <= a /\ a < b * r + b
  BY <1>1, Z3
<1>3. b * r = 2 * (r * grain)
  BY <1>2, Z3 DEF b
<1> DEFINE p == r * grain
<1>4. p \in Nat /\ 2 * p <= 2 * t + grain /\ 2 * t + grain < 2 * p + 2 * grain
  BY <1>2, <1>3 DEF a, b
<1> HIDE DEF p
<1>5. 2 * (p - t) <= grain /\ 2 * (t - p) <= grain
  BY <1>4
<1> QED BY <1>2, <1>5 DEF p, r

\* The keys of a track are its buckets, and they rise.
LEMMA KeysAre ==
  ASSUME Grain \in Nat \ {0}, NEW times \in Seq(Nat)
  PROVE  LET d == Export!DecodedKeys(times)
         IN /\ d \in Seq(Nat) /\ Len(d) \in Nat /\ DOMAIN d = 1..Len(d)
            /\ \A j \in 2..Len(d) : d[j - 1] < d[j]
            /\ Export!ToSet(d) = Export!Buckets(times)
<1> DEFINE B == Export!Buckets(times)
           key == [b \in B |-> b]
           d == Export!DecodedKeys(times)
           f == [i \in 1..Len(times) |-> Export!Bucket(times[i])]
<1>1. Len(times) \in Nat /\ DOMAIN times = 1..Len(times) /\ times \in [1..Len(times) -> Nat]
  BY ListIs
<1>2. B = {Export!Bucket(times[i]) : i \in 1..Len(times)}
  BY <1>1 DEF Export!Buckets, Export!ToSet
<1>3. B \in SUBSET Nat
  <2>1. \A i \in 1..Len(times) : Export!Bucket(times[i]) \in Nat
    <3> SUFFICES ASSUME NEW i \in 1..Len(times) PROVE Export!Bucket(times[i]) \in Nat
      OBVIOUS
    <3>1. times[i] \in Nat
      BY <1>1
    <3> QED BY <3>1, RoundedIs DEF Export!Bucket
  <2> QED BY <1>2, <2>1
<1>4. IsFiniteSet(B)
  <2>1. f \in Surjection(1..Len(times), B)
    BY <1>2 DEF Surjection
  <2>2. IsFiniteSet(1..Len(times))
    BY <1>1, FS_Interval
  <2> HIDE DEF f, B
  <2> QED BY <2>1, <2>2, FS_Surjection
<1>d. d = Export!InOrder(B, key)
  BY DEF Export!DecodedKeys
<1> HIDE DEF B, d
<1>k. key \in [B -> Nat] /\ \A b \in B : key[b] = b
  BY <1>3
<1> HIDE DEF key
<1> DEFINE n == Cardinality(B)
<1>5. /\ n \in Nat /\ d \in [1..n -> B]
      /\ \A p, q \in 1..n : p < q => Precedes(key, d[p], d[q])
      /\ \A x \in B : \E p \in 1..n : d[p] = x
  BY <1>d, <1>3, <1>4, <1>k, OrderIs
<1> HIDE DEF n
<1>6. d = [i \in 1..n |-> d[i]]
  BY <1>5
<1>7. Len(d) = n /\ DOMAIN d = 1..n
  BY <1>5, <1>6, RowIs
<1>8. d \in Seq(Nat)
  <2>1. d \in [1..n -> Nat]
    BY <1>3, <1>5
  <2> QED BY <1>5, <2>1, IsASeq
<1>9. ASSUME NEW j \in 2..Len(d) PROVE d[j - 1] < d[j]
  <2>1. j \in 1..n /\ j - 1 \in 1..n /\ j - 1 < j
    BY <1>5, <1>7
  <2>2. d[j-1] \in B /\ d[j] \in B /\ Precedes(key, d[j-1], d[j])
    BY <1>5, <2>1
  <2>3. d[j-1] \in Nat /\ d[j] \in Nat
    BY <1>3, <2>2
  <2> QED BY <1>k, <2>2, <2>3 DEF Precedes
<1>10. Export!ToSet(d) = B
  BY <1>5, <1>7 DEF Export!ToSet
<1> QED BY <1>5, <1>7, <1>8, <1>9, <1>10 DEF B, d

\* What a clip is exported with: of every channel of a bone one track.
IsTracks(ch) ==
    /\ IsSequence(ch) /\ Len(ch) \in Nat /\ DOMAIN ch = 1..Len(ch)
    /\ \A p \in DOMAIN ch : ch[p].times \in Seq(Nat)
    /\ \A p, q \in DOMAIN ch :
         p # q => <<ch[p].bone, ch[p].channel>> # <<ch[q].bone, ch[q].channel>>

\* One track has the keyframes of another, in whatever order.
SameTrack(d, e) ==
    d.bone = e.bone /\ d.channel = e.channel /\ Export!ToSet(d.times) = Export!ToSet(e.times)

LEMMA ChannelsAre ==
  ASSUME NEW clip, IsClip(clip)
  PROVE  /\ IsTracks(Export!Channels(clip))
         /\ \A p \in DOMAIN Export!Channels(clip) :
              \E k \in DOMAIN clip : SameTrack(clip[k], Export!Channels(clip)[p])
         /\ \A k \in Export!Keyed(clip) :
              \E p \in DOMAIN Export!Channels(clip) : SameTrack(clip[k], Export!Channels(clip)[p])
<1> DEFINE K == Export!Keyed(clip)
           key == [k \in K |-> k]
           o == Export!InOrder(K, key)
           n == Cardinality(K)
           ch == Export!Channels(clip)
<1>1. DOMAIN clip = 1..Len(clip) /\ Len(clip) \in Nat
  BY SequenceIs DEF IsClip
<1>2. K \in SUBSET (DOMAIN clip)
  BY DEF Export!Keyed
<1>c. ch = [p \in DOMAIN o |->
              [bone |-> clip[o[p]].bone, channel |-> clip[o[p]].channel,
               times |-> Export!ChannelKeys(clip[o[p]].times)]]
  BY DEF Export!Channels
<1> HIDE DEF K, ch
<1>3. K \in SUBSET Nat /\ IsFiniteSet(K)
  <2>1. IsFiniteSet(1..Len(clip))
    BY <1>1, FS_Interval
  <2> QED BY <1>1, <1>2, <2>1, FS_Subset
<1>k. key \in [K -> Nat] /\ \A b \in K : key[b] = b
  BY <1>3
<1> HIDE DEF key
<1>4. /\ n \in Nat /\ o \in [1..n -> K]
      /\ \A p, q \in 1..n : p < q => Precedes(key, o[p], o[q])
      /\ \A k \in K : \E p \in 1..n : o[p] = k
  BY <1>3, <1>k, OrderIs
<1> HIDE DEF o, n
<1>5. ch = [p \in 1..n |-> ch[p]] /\ DOMAIN ch = 1..n
  BY <1>c, <1>4
<1>6. IsSequence(ch) /\ Len(ch) = n
  BY <1>4, <1>5, RowIs
<1>7. \A p \in 1..n : /\ o[p] \in DOMAIN clip /\ o[p] \in K
                      /\ ch[p].bone = clip[o[p]].bone /\ ch[p].channel = clip[o[p]].channel
                      /\ ch[p].times = Export!ChannelKeys(clip[o[p]].times)
  BY <1>c, <1>2, <1>4
<1>8. ASSUME NEW p \in 1..n
      PROVE  ch[p].times \in Seq(Nat) /\ Export!ToSet(ch[p].times) = Export!ToSet(clip[o[p]].times)
  <2> DEFINE t == clip[o[p]].times
  <2>1. t \in Seq(Nat)
    BY <1>7 DEF IsClip
  <2>2. ch[p].times = Export!Sorted(t, t)
    BY <1>7 DEF Export!ChannelKeys
  <2> HIDE DEF t
  <2>3. IsSequence(t) /\ t \in [DOMAIN t -> Nat] /\ DOMAIN t = 1..Len(t) /\ Len(t) \in Nat
    BY <2>1, ListIs
  <2>4. \E r \in [DOMAIN t -> DOMAIN t] :
           /\ Export!Sorted(t, t) = [i \in DOMAIN t |-> t[r[i]]]
           /\ \A i, j \in DOMAIN t : i # j => r[i] # r[j]
           /\ \A x \in DOMAIN t : \E i \in DOMAIN t : r[i] = x
    BY <2>3, SortedIs
  <2>5. Export!Sorted(t, t) \in [1..Len(t) -> Nat]
    <3>1. PICK r \in [DOMAIN t -> DOMAIN t] : Export!Sorted(t, t) = [i \in DOMAIN t |-> t[r[i]]]
      BY <2>4
    <3> QED BY <2>3, <3>1
  <2>6. Export!ToSet(Export!Sorted(t, t)) = Export!ToSet(t)
    <3>1. PICK r \in [DOMAIN t -> DOMAIN t] :
             /\ Export!Sorted(t, t) = [i \in DOMAIN t |-> t[r[i]]]
             /\ \A x \in DOMAIN t : \E i \in DOMAIN t : r[i] = x
      BY <2>4
    <3>2. Export!ToSet(Export!Sorted(t, t)) = {t[r[i]] : i \in DOMAIN t}
      BY <3>1 DEF Export!ToSet
    <3>3. Export!ToSet(t) = {t[i] : i \in DOMAIN t}
      BY DEF Export!ToSet
    <3> QED BY <3>1, <3>2, <3>3
  <2>7. ch[p].times \in Seq(Nat)
    BY <2>2, <2>3, <2>5, IsASeq
  <2> QED BY <2>2, <2>6, <2>7 DEF t
<1>9. ASSUME NEW p \in 1..n, NEW q \in 1..n, p < q PROVE o[p] # o[q]
  <2>1. Precedes(key, o[p], o[q]) /\ o[p] \in K /\ o[p] \in Nat
    BY <1>3, <1>4, <1>9
  <2> QED BY <1>k, <2>1 DEF Precedes
<1>10. ASSUME NEW p \in 1..n, NEW q \in 1..n, p # q
       PROVE  <<ch[p].bone, ch[p].channel>> # <<ch[q].bone, ch[q].channel>>
  <2>1. p < q \/ q < p
    BY <1>4, <1>10
  <2>2. o[p] # o[q]
    BY <1>9, <2>1
  <2> QED BY <1>7, <2>2 DEF IsClip
<1>11. IsTracks(ch)
  BY <1>4, <1>5, <1>6, <1>8, <1>10 DEF IsTracks
<1>12. \A p \in 1..n : SameTrack(clip[o[p]], ch[p])
  BY <1>7, <1>8 DEF SameTrack
<1>13. \A p \in DOMAIN ch : \E k \in DOMAIN clip : SameTrack(clip[k], ch[p])
  BY <1>5, <1>7, <1>12
<1>14. \A k \in K : \E p \in DOMAIN ch : SameTrack(clip[k], ch[p])
  BY <1>4, <1>5, <1>12
<1> QED BY <1>11, <1>13, <1>14 DEF ch, K

\* The samplers ss of the tracks ch: those of a clip, each once.
ComeFrom(ch, ss, bs) ==
    /\ IsTracks(ch) /\ DOMAIN ss = DOMAIN ch
    /\ \E o \in [DOMAIN ch -> DOMAIN ch] :
         /\ \A k \in DOMAIN ch : ss[k] = Export!Sampler(bs, ch[o[k]])
         /\ \A p, q \in DOMAIN ch : p # q => o[p] # o[q]
         /\ \A x \in DOMAIN ch : \E p \in DOMAIN ch : o[p] = x
LEMMA SamplersAre ==
  ASSUME NEW m, IsModel(m), NEW c \in DOMAIN m.clips
  PROVE  /\ ComeFrom(Export!Channels(m.clips[c]), Export!Samplers(m, c), Export!Bones(m))
         /\ IsSequence(Export!Samplers(m, c))
<1> DEFINE ch == Export!Channels(m.clips[c])
           ss == Export!Samplers(m, c)
           bs == Export!Bones(m)
           key == [k \in DOMAIN ch |-> Export!TrackOrder(bs, ch[k])]
           sorted == Export!Sorted(ch, key)
<1>1. IsTracks(ch)
  <2>1. IsClip(m.clips[c])
    BY DEF IsModel
  <2> QED BY <2>1, ChannelsAre
<1>2. sorted = Export!SortedTracks(bs, ch)
  BY DEF Export!SortedTracks
<1>3. ss = [k \in DOMAIN sorted |-> Export!Sampler(bs, sorted[k])]
  BY <1>2 DEF Export!Samplers
<1>b. \A bone : Export!NodeOf(bs, bone) \in Nat
  <2>1. DOMAIN bs = 1..Len(bs) /\ Len(bs) \in Nat
    BY BonesAre
  <2>2. \A bone : Export!NodeOf(bs, bone) \in DOMAIN bs
    BY NodeIs
  <2> QED BY <2>1, <2>2
<1> HIDE DEF ch, ss, bs
<1>4. key \in [DOMAIN ch -> Nat]
  <2> SUFFICES ASSUME NEW k \in DOMAIN ch PROVE Export!TrackOrder(bs, ch[k]) \in Nat
    OBVIOUS
  <2>1. Export!NodeOf(bs, ch[k].bone) \in Nat /\ Export!ChannelOrder(ch[k].channel) \in Nat
    BY <1>b DEF Export!ChannelOrder
  <2> QED BY <2>1 DEF Export!TrackOrder
<1> HIDE DEF key
<1>5. IsSequence(ch) /\ DOMAIN ch = 1..Len(ch) /\ Len(ch) \in Nat
  BY <1>1 DEF IsTracks
<1>6. PICK o \in [DOMAIN ch -> DOMAIN ch] :
        /\ sorted = [p \in DOMAIN ch |-> ch[o[p]]]
        /\ \A p, q \in DOMAIN ch : p # q => o[p] # o[q]
        /\ \A x \in DOMAIN ch : \E p \in DOMAIN ch : o[p] = x
  BY <1>4, <1>5, SortedIs
<1> HIDE DEF sorted
<1>7. DOMAIN ss = DOMAIN ch /\ \A k \in DOMAIN ch : ss[k] = Export!Sampler(bs, ch[o[k]])
  BY <1>3, <1>6
<1>8. ss = [i \in 1..Len(ch) |-> ss[i]]
  BY <1>3, <1>5, <1>7
<1>9. IsSequence(ss) /\ Len(ss) = Len(ch)
  BY <1>5, <1>8, RowIs
<1>10. ComeFrom(ch, ss, bs)
  BY <1>1, <1>6, <1>7 DEF ComeFrom
<1> QED BY <1>9, <1>10 DEF ch, ss, bs

----------------------------------------------------------------------------
(* What is built up from left to right                                     *)

\* What holds at the start and goes on from one place to the next holds at all.
LEMMA ToTheEnd ==
  ASSUME NEW n \in Nat, NEW Good, 0 \in Good,
         \A i \in 1..n : i - 1 \in Good => i \in Good
  PROVE  \A i \in 0..n : i \in Good
<1> DEFINE Bad == {i \in 0..n : i \notin Good}
<1>1. SUFFICES ASSUME NEW i \in Bad PROVE FALSE
  OBVIOUS
<1>2. PICK k \in Bad : \A j \in Bad : k <= j
  <2>1. Bad \in SUBSET Nat
    OBVIOUS
  <2> HIDE DEF Bad
  <2> QED BY <1>1, <2>1, Least
<1>3. k \in 1..n /\ k - 1 \in 0..n /\ k - 1 \notin Bad
  BY <1>2
<1> QED BY <1>2, <1>3

\* A step for every place makes a function, and only one.
IsRun(f, a, n, g) == f = [i \in 0..n |-> IF i = 0 THEN a ELSE g[<<i, f[i-1]>>]]
LEMMA RunIs ==
  ASSUME NEW S, NEW a \in S, NEW n \in Nat, NEW g \in [(1..n) \X S -> S]
  PROVE  \E f \in [0..n -> S] : IsRun(f, a, n, g)
<1> DEFINE Upto(m) == \E f \in [0..m -> S] : IsRun(f, a, m, g)
           Good == {m \in 0..n : Upto(m)}
<1>1. 0 \in Good
  <2> DEFINE f == [i \in 0..0 |-> a]
  <2>1. f \in [0..0 -> S] /\ IsRun(f, a, 0, g)
    BY DEF IsRun
  <2> QED BY <2>1
<1>2. ASSUME NEW m \in 1..n, m - 1 \in Good PROVE m \in Good
  <2>1. m - 1 \in 0..n /\ m - 1 \in Nat
    OBVIOUS
  <2>2. PICK h \in [0..m-1 -> S] : IsRun(h, a, m - 1, g)
    BY <1>2
  <2> DEFINE f == [i \in 0..m |-> IF i = m THEN g[<<m, h[m-1]>>] ELSE h[i]]
  <2>3. /\ f[m] = g[<<m, h[m-1]>>] /\ f[m] \in S
        /\ \A i \in 0..m-1 : f[i] = h[i] /\ f[i] \in S
    <3>1. h[m-1] \in S
      BY <2>1, <2>2
    <3> QED BY <2>1, <2>2, <3>1
  <2>4. f = [i \in 0..m |-> f[i]] /\ f \in [0..m -> S]
    <3>1. \A i \in 0..m : i = m \/ i \in 0..m-1
      BY <2>1
    <3>2. \A i \in 0..m : f[i] \in S
      BY <2>3, <3>1
    <3> QED BY <3>2
  <2> HIDE DEF f
  <2>5. ASSUME NEW i \in 0..m PROVE f[i] = IF i = 0 THEN a ELSE g[<<i, f[i-1]>>]
    <3>1. CASE i = m
      <4>1. m - 1 \in 0..m-1 /\ f[m-1] = h[m-1] /\ m # 0
        BY <2>1, <2>3
      <4> QED BY <2>3, <3>1, <4>1
    <3>2. CASE i # m
      <4>1. i \in 0..m-1 /\ (i # 0 => i - 1 \in 0..m-1)
        BY <2>1, <3>2
      <4>2. h[i] = IF i = 0 THEN a ELSE g[<<i, h[i-1]>>]
        BY <2>2, <4>1 DEF IsRun
      <4> QED BY <2>3, <4>1, <4>2
    <3> QED BY <3>1, <3>2
  <2>6. IsRun(f, a, m, g)
    BY <2>4, <2>5 DEF IsRun
  <2> QED BY <2>4, <2>6
<1> HIDE DEF Good
<1>3. \A m \in 0..n : m \in Good
  BY <1>1, <1>2, ToTheEnd
<1> QED BY <1>3 DEF Good

\* The sum of natural numbers is one.
LEMMA TotalIs ==
  ASSUME NEW counts \in Seq(Nat)
  PROVE  Export!Total(counts) \in Nat
<1> DEFINE n == Len(counts)
           IsSum(s) == s = [i \in 0..n |-> IF i = 0 THEN 0 ELSE s[i - 1] + counts[i]]
           g == [p \in (1..n) \X Nat |-> p[2] + counts[p[1]]]
           sum == CHOOSE s : IsSum(s)
<1>1. n \in Nat /\ \A i \in 1..n : counts[i] \in Nat
  BY ListIs
<1>t. Export!Total(counts) = sum[n]
  BY DEF Export!Total
<1> HIDE DEF n
<1>2. g \in [(1..n) \X Nat -> Nat]
  BY <1>1
<1>3. PICK f \in [0..n -> Nat] : IsRun(f, 0, n, g)
  <2> HIDE DEF g
  <2> QED BY <1>1, <1>2, RunIs
<1>4. IsSum(f)
  <2>1. \A i \in 0..n : f[i] = IF i = 0 THEN 0 ELSE f[i - 1] + counts[i]
    <3> SUFFICES ASSUME NEW i \in 0..n PROVE f[i] = IF i = 0 THEN 0 ELSE f[i - 1] + counts[i]
      OBVIOUS
    <3>1. f[i] = IF i = 0 THEN 0 ELSE g[<<i, f[i-1]>>]
      BY <1>3 DEF IsRun
    <3>2. i # 0 => i \in 1..n /\ f[i-1] \in Nat
      BY <1>1, <1>3
    <3>3. i # 0 => g[<<i, f[i-1]>>] = f[i-1] + counts[i]
      BY <3>2
    <3> HIDE DEF g
    <3> QED BY <3>1, <3>3
  <2>2. f = [i \in 0..n |-> f[i]]
    BY <1>3
  <2> QED BY <2>1, <2>2
<1>5. IsSum(sum)
  BY <1>4
<1> HIDE DEF sum
<1> DEFINE Good == {i \in 0..n : sum[i] \in Nat}
<1>6. 0 \in Good
  BY <1>1, <1>5
<1>7. \A i \in 1..n : i - 1 \in Good => i \in Good
  <2> SUFFICES ASSUME NEW i \in 1..n, sum[i - 1] \in Nat PROVE sum[i] \in Nat
    BY <1>1
  <2>1. sum[i] = sum[i - 1] + counts[i]
    BY <1>1, <1>5
  <2> QED BY <1>1, <2>1
<1> HIDE DEF Good
<1>8. \A i \in 0..n : i \in Good
  BY <1>1, <1>6, <1>7, ToTheEnd
<1> QED BY <1>t, <1>1, <1>8 DEF Good

LEMMA VertexCountIs ==
  ASSUME NEW m, IsModel(m)
  PROVE  Export!VertexCount(m) \in Nat
<1> DEFINE counts == [i \in DOMAIN m.meshes |-> Export!MeshVertices(m.meshes[i])]
<1>1. Len(m.cubes) \in Nat /\ DOMAIN m.meshes = 1..Len(m.meshes) /\ Len(m.meshes) \in Nat
  BY SequenceIs DEF IsModel
<1>2. ASSUME NEW i \in DOMAIN m.meshes PROVE Export!MeshVertices(m.meshes[i]) \in Nat
  <2> DEFINE faces == m.meshes[i].faces
             fans == [f \in DOMAIN faces |-> Export!FanVertices(faces[f])]
  <2>1. faces \in Seq(Nat)
    BY DEF IsModel
  <2>2. DOMAIN faces = 1..Len(faces) /\ Len(faces) \in Nat /\ faces \in [DOMAIN faces -> Nat]
    BY <2>1, ListIs
  <2>m. Export!MeshVertices(m.meshes[i]) = Export!Total(fans)
    BY DEF Export!MeshVertices
  <2> HIDE DEF faces
  <2>3. \A f \in DOMAIN faces : Export!FanVertices(faces[f]) \in Nat
    BY <2>2 DEF Export!FanVertices
  <2>4. fans \in [1..Len(faces) -> Nat]
    BY <2>2, <2>3
  <2>5. fans \in Seq(Nat)
    BY <2>2, <2>4, IsASeq
  <2> QED BY <2>m, <2>5, TotalIs
<1>3. counts \in Seq(Nat)
  <2>1. counts \in [1..Len(m.meshes) -> Nat]
    BY <1>1, <1>2
  <2> QED BY <1>1, <2>1, IsASeq
<1>4. Export!Total(counts) \in Nat
  BY <1>3, TotalIs
<1>5. Export!VertexCount(m) = 36 * Len(m.cubes) + Export!Total(counts)
  BY DEF Export!VertexCount, Export!CubeVertices, Export!CubeFaces, Export!FaceVertices
<1> HIDE DEF counts
<1> QED BY <1>1, <1>4, <1>5

----------------------------------------------------------------------------
(* Sequences one after another                                             *)

First(seqs, c) == [i \in 1..c |-> seqs[i]]
AreLists(seqs, n, T) == seqs \in [1..n -> Seq(T)]
ArePut(F, seqs, n, T) ==
    /\ F \in [0..n -> Seq(T)] /\ F[0] = <<>>
    /\ \A c \in 1..n : F[c] = F[c-1] \o seqs[c]
    /\ \A c \in 0..n : F[c] = Export!FlattenSeq(First(seqs, c))

\* One sequence more is put behind the others.
LEMMA FlatIs ==
  ASSUME NEW T, NEW n \in Nat, NEW seqs, AreLists(seqs, n, T)
  PROVE  \E F : ArePut(F, seqs, n, T)
<1> USE DEF AreLists
<1> DEFINE g == [p \in (1..n) \X Seq(T) |-> p[2] \o seqs[p[1]]]
<1>1. g \in [(1..n) \X Seq(T) -> Seq(T)]
  <2>1. \A c \in 1..n, s \in Seq(T) : s \o seqs[c] \in Seq(T)
    BY ConcatProperties
  <2> QED BY <2>1
<1>2. <<>> \in Seq(T)
  BY EmptySeq
<1>3. PICK F \in [0..n -> Seq(T)] : IsRun(F, <<>>, n, g)
  <2> HIDE DEF g
  <2> QED BY <1>1, <1>2, RunIs
<1>4. F[0] = <<>> /\ \A c \in 1..n : F[c] = F[c-1] \o seqs[c]
  <2>1. F[0] = <<>>
    BY <1>3 DEF IsRun
  <2>2. ASSUME NEW c \in 1..n PROVE F[c] = F[c-1] \o seqs[c]
    <3>1. F[c] = g[<<c, F[c-1]>>]
      <4> HIDE DEF g
      <4>1. c \in 0..n /\ c # 0
        OBVIOUS
      <4> QED BY <1>3, <4>1 DEF IsRun
    <3>2. F[c-1] \in Seq(T)
      BY <1>3
    <3> QED BY <3>1, <3>2
  <2> QED BY <2>1, <2>2
<1> HIDE DEF g
<1>5. ASSUME NEW c \in 0..n PROVE F[c] = Export!FlattenSeq(First(seqs, c))
  <2> DEFINE some == First(seqs, c)
  <2>1. some = [i \in 1..c |-> some[i]] /\ (\A i \in 1..c : some[i] = seqs[i]) /\ c \in Nat
    BY DEF First
  <2> HIDE DEF some
  <2>2. Len(some) = c
    BY <2>1, RowIs
  <2>3. CASE c = 0
    <3>1. some = <<>>
      BY <2>1, <2>3
    <3>2. Export!FlattenSeq(some) = some
      BY <2>2, <2>3 DEF Export!FlattenSeq
    <3> QED BY <1>4, <2>3, <3>1, <3>2 DEF some
  <2>4. CASE c # 0
    <3> DEFINE IsFlat(f) == f = [i \in 1..c |-> IF i = 1 THEN some[i] ELSE f[i-1] \o some[i]]
               h == CHOOSE f : IsFlat(f)
               e == [i \in 1..c |-> F[i]]
    <3>0. Export!FlattenSeq(some) = h[c]
      BY <2>2, <2>4 DEF Export!FlattenSeq
    <3>1. IsFlat(e)
      <4>1. ASSUME NEW i \in 1..c
            PROVE  e[i] = IF i = 1 THEN some[i] ELSE e[i-1] \o some[i]
        <5>0. i \in 1..n
          BY <2>1
        <5>1. some[i] = seqs[i] /\ e[i] = F[i] /\ F[i] = F[i-1] \o seqs[i] /\ seqs[i] \in Seq(T)
          BY <1>4, <2>1, <5>0
        <5>2. CASE i = 1
          <6>1. F[i-1] = <<>>
            BY <1>4, <5>2
          <6>2. <<>> \o seqs[i] = seqs[i]
            BY <5>1, ConcatEmptySeq
          <6> QED BY <5>1, <5>2, <6>1, <6>2
        <5>3. CASE i # 1
          <6>1. i - 1 \in 1..c
            BY <5>3
          <6>2. e[i-1] = F[i-1]
            BY <6>1
          <6> QED BY <5>1, <5>3, <6>2
        <5> QED BY <5>2, <5>3
      <4>2. e = [i \in 1..c |-> e[i]]
        OBVIOUS
      <4> HIDE DEF e
      <4> QED BY <4>1, <4>2
    <3>2. IsFlat(h)
      <4> HIDE DEF e
      <4> QED BY <3>1
    <3> HIDE DEF h, e
    <3> DEFINE Good == {i \in 0..c : i = 0 \/ h[i] = F[i]}
    <3>3. 0 \in Good
      BY <2>1
    <3>4. ASSUME NEW i \in 1..c, i - 1 \in Good PROVE i \in Good
      <4>0. i \in 1..n
        BY <2>1
      <4>1. some[i] = seqs[i] /\ F[i] = F[i-1] \o seqs[i] /\ seqs[i] \in Seq(T)
        BY <1>4, <2>1, <4>0
      <4>2. h[i] = IF i = 1 THEN some[i] ELSE h[i-1] \o some[i]
        BY <3>2
      <4>3. CASE i = 1
        <5>1. F[i-1] = <<>>
          BY <1>4, <4>3
        <5>2. <<>> \o seqs[i] = seqs[i]
          BY <4>1, ConcatEmptySeq
        <5> QED BY <4>1, <4>2, <4>3, <5>1, <5>2
      <4>4. CASE i # 1
        <5>1. h[i-1] = F[i-1]
          BY <3>4, <4>4
        <5>2. h[i] = h[i-1] \o some[i]
          BY <4>2, <4>4
        <5>3. h[i] = F[i]
          BY <4>1, <5>1, <5>2
        <5> QED BY <5>3
      <4> QED BY <4>3, <4>4
    <3> HIDE DEF Good
    <3>5. \A i \in 0..c : i \in Good
      BY <2>1, <3>3, <3>4, ToTheEnd
    <3>6. h[c] = F[c]
      BY <2>1, <2>4, <3>5 DEF Good
    <3> QED BY <3>0, <3>6 DEF some
  <2> QED BY <2>3, <2>4
<1>6. ArePut(F, seqs, n, T)
  BY <1>4, <1>5 DEF ArePut
<1> QED BY <1>6

\* What was put behind the others stays where it is.
StayPut(F, seqs, n) ==
    \A c \in 1..n : \A k \in 1..Len(seqs[c]) :
        /\ Len(F[c-1]) + k \in 1..Len(F[n])
        /\ F[n][Len(F[c-1]) + k] = seqs[c][k]
LEMMA FlatHas ==
  ASSUME NEW T, NEW n \in Nat, NEW seqs, AreLists(seqs, n, T), NEW F, ArePut(F, seqs, n, T)
  PROVE  StayPut(F, seqs, n)
<1> USE DEF AreLists, StayPut
<1> SUFFICES ASSUME NEW c \in 1..n, NEW k \in 1..Len(seqs[c])
             PROVE  /\ Len(F[c-1]) + k \in 1..Len(F[n])
                    /\ F[n][Len(F[c-1]) + k] = seqs[c][k]
  OBVIOUS
<1> DEFINE p == Len(F[c-1]) + k
           Good == {d \in 0..n : d >= c => p <= Len(F[d]) /\ F[d][p] = seqs[c][k]}
<1>0. F \in [0..n -> Seq(T)] /\ \A d \in 1..n : F[d] = F[d-1] \o seqs[d]
  BY DEF ArePut
<1>1. Len(F[c-1]) \in Nat /\ Len(seqs[c]) \in Nat /\ p \in Nat /\ p >= 1 /\ c \in Nat
  <2>1. F[c-1] \in Seq(T) /\ seqs[c] \in Seq(T)
    BY <1>0
  <2>2. Len(F[c-1]) \in Nat /\ Len(seqs[c]) \in Nat
    BY <2>1, LenProperties
  <2> QED BY <2>2
<1>2. 0 \in Good
  BY <1>1
<1>3. ASSUME NEW d \in 1..n, d - 1 \in Good PROVE d \in Good
  <2> SUFFICES ASSUME d >= c PROVE p <= Len(F[d]) /\ F[d][p] = seqs[c][k]
    OBVIOUS
  <2>0. d - 1 \in 0..n
    OBVIOUS
  <2>1. F[d-1] \in Seq(T) /\ seqs[d] \in Seq(T) /\ F[d] = F[d-1] \o seqs[d]
    BY <1>0, <2>0
  <2>2. /\ Len(F[d-1]) \in Nat /\ Len(seqs[d]) \in Nat
        /\ Len(F[d]) = Len(F[d-1]) + Len(seqs[d])
        /\ \A i \in 1..Len(F[d-1]) + Len(seqs[d]) :
             F[d][i] = IF i <= Len(F[d-1]) THEN F[d-1][i] ELSE seqs[d][i - Len(F[d-1])]
    BY <2>1, ConcatProperties, LenProperties
  <2>3. CASE d = c
    <3>1. p \in 1..(Len(F[d-1]) + Len(seqs[d])) /\ ~(p <= Len(F[d-1])) /\ p - Len(F[d-1]) = k
      BY <1>1, <2>2, <2>3
    <3>2. F[d][p] = seqs[d][p - Len(F[d-1])]
      BY <2>2, <3>1
    <3>3. p <= Len(F[d])
      BY <1>1, <2>2, <2>3
    <3> QED BY <2>3, <3>1, <3>2, <3>3
  <2>4. CASE d # c
    <3>1. d - 1 >= c
      BY <2>4
    <3>2. p <= Len(F[d-1]) /\ F[d-1][p] = seqs[c][k]
      BY <1>3, <3>1
    <3>3. p \in 1..(Len(F[d-1]) + Len(seqs[d]))
      BY <1>1, <2>2, <3>2
    <3>4. F[d][p] = F[d-1][p]
      BY <2>2, <3>2, <3>3
    <3> QED BY <1>1, <2>2, <3>2, <3>3, <3>4
  <2> QED BY <2>3, <2>4
<1> HIDE DEF Good, p
<1>4. \A d \in 0..n : d \in Good
  BY <1>2, <1>3, ToTheEnd
<1>5. p <= Len(F[n]) /\ F[n][p] = seqs[c][k]
  BY <1>4 DEF Good
<1>6. Len(F[n]) \in Nat
  BY <1>0, LenProperties
<1> QED BY <1>1, <1>5, <1>6 DEF p

\* Pairs one after another: the first of pair k at 2k - 1, the second at 2k.
ArePairs(pairs, n) == \A k \in 1..n : Len(pairs[k]) = 2
LEMMA PairsAre ==
  ASSUME NEW T, NEW n \in Nat, NEW pairs \in [1..n -> Seq(T)], ArePairs(pairs, n)
  PROVE  LET flat == Export!FlattenSeq(pairs)
         IN /\ flat \in Seq(T) /\ Len(flat) = 2 * n
            /\ \A k \in 1..n : flat[2*k - 1] = pairs[k][1] /\ flat[2*k] = pairs[k][2]
<1>0. PICK F : ArePut(F, pairs, n, T)
  BY FlatIs DEF AreLists
<1>1. F \in [0..n -> Seq(T)] /\ F[0] = <<>> /\ \A c \in 1..n : F[c] = F[c-1] \o pairs[c]
  BY <1>0 DEF ArePut
<1>2. First(pairs, n) = pairs
  BY DEF First
<1>3. F[n] = Export!FlattenSeq(pairs) /\ F[n] \in Seq(T)
  BY <1>0, <1>2 DEF ArePut
<1> DEFINE Good == {c \in 0..n : Len(F[c]) = 2 * c}
<1>4. 0 \in Good
  BY <1>1
<1>5. ASSUME NEW c \in 1..n, c - 1 \in Good PROVE c \in Good
  <2>0. c - 1 \in 0..n
    OBVIOUS
  <2>1. F[c-1] \in Seq(T) /\ pairs[c] \in Seq(T) /\ F[c] = F[c-1] \o pairs[c]
    BY <1>1, <2>0
  <2>2. Len(F[c]) = Len(F[c-1]) + 2
    <3>1. Len(F[c]) = Len(F[c-1]) + Len(pairs[c])
      BY <2>1, ConcatProperties
    <3> QED BY <3>1 DEF ArePairs
  <2>3. Len(F[c-1]) = 2 * (c - 1)
    BY <1>5
  <2> QED BY <2>2, <2>3
<1> HIDE DEF Good
<1>6. \A c \in 0..n : Len(F[c]) = 2 * c
  <2>1. \A c \in 0..n : c \in Good
    BY <1>4, <1>5, ToTheEnd
  <2> QED BY <2>1 DEF Good
<1>7. ASSUME NEW k \in 1..n PROVE F[n][2*k - 1] = pairs[k][1] /\ F[n][2*k] = pairs[k][2]
  <2>0. k - 1 \in 0..n /\ Len(pairs[k]) = 2
    BY DEF ArePairs
  <2>1. Len(F[k-1]) = 2 * (k - 1)
    BY <1>6, <2>0
  <2>2. \A j \in 1..Len(pairs[k]) : F[n][Len(F[k-1]) + j] = pairs[k][j]
    <3>1. AreLists(pairs, n, T)
      BY DEF AreLists
    <3>2. StayPut(F, pairs, n)
      BY <1>0, <3>1, FlatHas
    <3> QED BY <3>2 DEF StayPut
  <2>3. 1 \in 1..Len(pairs[k]) /\ 2 \in 1..Len(pairs[k])
    BY <2>0
  <2>4. Len(F[k-1]) + 1 = 2*k - 1 /\ Len(F[k-1]) + 2 = 2*k
    BY <2>1
  <2> QED BY <2>2, <2>3, <2>4
<1>8. Len(F[n]) = 2 * n
  BY <1>6
<1> QED BY <1>3, <1>7, <1>8

----------------------------------------------------------------------------
(* The samplers of a file                                                  *)

IsSampler(s) ==
    /\ s.times \in Seq(Nat) /\ Len(s.times) \in Nat
    /\ s.width \in {3, 4} /\ s.values = Len(s.times) * s.width
SamplersOf(m) == UNION {Export!ToSet(Export!Samplers(m, c)) : c \in DOMAIN m.clips}

LEMMA SamplerIs ==
  ASSUME Grain \in Nat \ {0}, NEW m, IsModel(m), NEW s \in SamplersOf(m)
  PROVE  IsSampler(s)
<1>1. PICK c \in DOMAIN m.clips : s \in Export!ToSet(Export!Samplers(m, c))
  BY DEF SamplersOf
<1> DEFINE ch == Export!Channels(m.clips[c])
           ss == Export!Samplers(m, c)
           bs == Export!Bones(m)
<1>s. \E k \in DOMAIN ss : s = ss[k]
  BY <1>1 DEF Export!ToSet
<1>C. ComeFrom(ch, ss, bs)
  BY SamplersAre
<1> HIDE DEF ch, ss, bs
<1>2. /\ IsTracks(ch) /\ DOMAIN ss = DOMAIN ch
      /\ \E o \in [DOMAIN ch -> DOMAIN ch] :
           /\ \A k \in DOMAIN ch : ss[k] = Export!Sampler(bs, ch[o[k]])
           /\ \A p, q \in DOMAIN ch : p # q => o[p] # o[q]
           /\ \A x \in DOMAIN ch : \E p \in DOMAIN ch : o[p] = x
  BY <1>C DEF ComeFrom
<1>3. PICK k \in DOMAIN ch : s = ss[k]
  BY <1>2, <1>s
<1>4. PICK t \in DOMAIN ch : s = Export!Sampler(bs, ch[t])
  BY <1>2, <1>3
<1> DEFINE d == Export!DecodedKeys(ch[t].times)
<1>5. ch[t].times \in Seq(Nat)
  BY <1>2 DEF IsTracks
<1>6. d \in Seq(Nat) /\ Len(d) \in Nat
  BY <1>5, KeysAre
<1>7. s.times = d /\ s.width = (IF ch[t].channel = "rot" THEN 4 ELSE 3) /\ s.values = Export!PackedValues(ch[t])
  BY <1>4 DEF Export!Sampler
<1>8. s.values = Len(d) * s.width
  BY <1>7 DEF Export!PackedValues
<1> HIDE DEF d
<1>9. s.width \in {3, 4}
  BY <1>7
<1> QED BY <1>6, <1>7, <1>8, <1>9 DEF IsSampler

\* The samplers of a clip come after those of the clips before it.
LEMMA AllSamplersAre ==
  ASSUME NEW m, IsModel(m)
  PROVE  /\ Export!AllSamplers(m) \in Seq(SamplersOf(m))
         /\ \A c \in DOMAIN m.clips :
              /\ Export!SamplersBefore(m, c) \in Nat
              /\ \A k \in DOMAIN Export!Samplers(m, c) :
                   LET p == Export!SamplersBefore(m, c) + k
                   IN p \in 1..Len(Export!AllSamplers(m)) /\ Export!AllSamplers(m)[p] = Export!Samplers(m, c)[k]
<1> DEFINE n == Len(m.clips)
           T == SamplersOf(m)
           seqs == [c \in 1..n |-> Export!Samplers(m, c)]
<1>1. n \in Nat /\ DOMAIN m.clips = 1..n
  BY SequenceIs DEF IsModel
<1>2. ASSUME NEW c \in 1..n
      PROVE  /\ Export!Samplers(m, c) \in Seq(T)
             /\ DOMAIN Export!Samplers(m, c) = 1..Len(Export!Samplers(m, c))
  <2> DEFINE ss == Export!Samplers(m, c)
  <2>1. IsSequence(ss)
    BY <1>1, SamplersAre
  <2>2. Export!ToSet(ss) \in SUBSET T
    BY <1>1 DEF SamplersOf
  <2> HIDE DEF ss, T
  <2>3. Len(ss) \in Nat /\ DOMAIN ss = 1..Len(ss) /\ ss = [i \in 1..Len(ss) |-> ss[i]]
    BY <2>1, SequenceIs
  <2>4. \A i \in 1..Len(ss) : ss[i] \in T
    BY <2>2, <2>3 DEF Export!ToSet
  <2>5. ss \in [1..Len(ss) -> T]
    BY <2>3, <2>4
  <2>6. ss \in Seq(T)
    BY <2>3, <2>5, IsASeq
  <2> QED BY <2>3, <2>6 DEF ss
<1>3. AreLists(seqs, n, T)
  BY <1>2 DEF AreLists
<1>4. \A c \in 0..n : Export!SamplersUpTo(m, c) = Export!FlattenSeq(First(seqs, c))
  <2> SUFFICES ASSUME NEW c \in 0..n
               PROVE  Export!SamplersUpTo(m, c) = Export!FlattenSeq(First(seqs, c))
    OBVIOUS
  <2>1. First(seqs, c) = [i \in 1..c |-> Export!Samplers(m, i)]
    <3>1. \A i \in 1..c : seqs[i] = Export!Samplers(m, i)
      BY <1>1
    <3> HIDE DEF seqs
    <3> QED BY <3>1 DEF First
  <2> QED BY <2>1 DEF Export!SamplersUpTo
<1>s. \A c \in 1..n : seqs[c] = Export!Samplers(m, c)
  OBVIOUS
<1> HIDE DEF seqs, T
<1>5. PICK F : ArePut(F, seqs, n, T)
  BY <1>1, <1>3, FlatIs
<1>6. F \in [0..n -> Seq(T)] /\ \A c \in 0..n : F[c] = Export!SamplersUpTo(m, c)
  BY <1>4, <1>5 DEF ArePut
<1>7. StayPut(F, seqs, n)
  BY <1>1, <1>3, <1>5, FlatHas
<1>8. Export!AllSamplers(m) = F[n]
  BY <1>1, <1>6 DEF Export!AllSamplers
<1>9. Export!AllSamplers(m) \in Seq(T)
  BY <1>1, <1>6, <1>8
<1>10. ASSUME NEW c \in 1..n
       PROVE  /\ Export!SamplersBefore(m, c) = Len(F[c-1])
              /\ Export!SamplersBefore(m, c) \in Nat
  <2>1. c - 1 \in 0..n
    BY <1>1
  <2>2. F[c-1] = Export!SamplersUpTo(m, c - 1) /\ F[c-1] \in Seq(T)
    BY <1>6, <2>1
  <2>3. Len(F[c-1]) \in Nat
    BY <2>2, LenProperties
  <2> QED BY <2>2, <2>3 DEF Export!SamplersBefore
<1>11. ASSUME NEW c \in 1..n, NEW k \in DOMAIN Export!Samplers(m, c)
       PROVE  LET p == Export!SamplersBefore(m, c) + k
              IN p \in 1..Len(Export!AllSamplers(m)) /\ Export!AllSamplers(m)[p] = Export!Samplers(m, c)[k]
  <2>1. k \in 1..Len(seqs[c])
    BY <1>2, <1>s
  <2>2. Len(F[c-1]) + k \in 1..Len(F[n]) /\ F[n][Len(F[c-1]) + k] = seqs[c][k]
    BY <1>7, <2>1 DEF StayPut
  <2> QED BY <1>8, <1>10, <1>s, <2>2
<1> QED BY <1>1, <1>9, <1>10, <1>11 DEF T

----------------------------------------------------------------------------
(* The buffer, its sections and their accessors                            *)

LEMMA Aligned ==
  ASSUME NEW n \in Nat
  PROVE  Export!Align4(n) \in Nat /\ Export!Align4(n) >= n /\ Export!Align4(n) % 4 = 0
<1> DEFINE q == (n + 3) \div 4
<1>1. q \in Nat /\ 4 * q <= n + 3 /\ n + 3 < 4 * q + 4
  BY SMTT(20)
<1>2. Export!Align4(n) = q * 4
  BY DEF Export!Align4
<1> HIDE DEF q
<1>3. (q * 4) % 4 = 0
  BY <1>1, SMTT(20)
<1>4. q * 4 \in Nat /\ q * 4 >= n
  BY <1>1
<1> QED BY <1>2, <1>3, <1>4

\* Sections are put one after another.
AreViews(views, lengths) ==
    /\ DOMAIN views = 1..Len(lengths) /\ Len(views) = Len(lengths)
    /\ \A i \in DOMAIN views :
         /\ views[i].offset \in Nat /\ views[i].length = lengths[i]
         /\ views[i].offset % 4 = 0
         /\ i > 1 => views[i - 1].offset + views[i - 1].length <= views[i].offset
         /\ views[i].offset + views[i].length <=
              views[Len(lengths)].offset + views[Len(lengths)].length

LEMMA ViewsAre ==
  ASSUME NEW m, Export!Sections(m) \in Seq(Nat)
  PROVE  AreViews(Export!Views(m), Export!Sections(m))
<1> DEFINE lengths == Export!Sections(m)
           n == Len(lengths)
           IsEnd(e) == e = [i \in 0..n |-> IF i = 0 THEN 0 ELSE Export!Align4(e[i - 1]) + lengths[i]]
           g == [p \in (1..n) \X Nat |-> Export!Align4(p[2]) + lengths[p[1]]]
           end == CHOOSE e : IsEnd(e)
           views == Export!Views(m)
<1>1. n \in Nat /\ DOMAIN lengths = 1..n /\ \A i \in 1..n : lengths[i] \in Nat
  BY ListIs
<1>v. views = [i \in DOMAIN lengths |-> [offset |-> Export!Align4(end[i - 1]), length |-> lengths[i]]]
  BY DEF Export!Views
<1> HIDE DEF n, lengths, views
<1>2. g \in [(1..n) \X Nat -> Nat]
  <2>1. \A p \in (1..n) \X Nat : Export!Align4(p[2]) \in Nat /\ lengths[p[1]] \in Nat
    BY <1>1, Aligned
  <2>2. \A p \in (1..n) \X Nat : Export!Align4(p[2]) + lengths[p[1]] \in Nat
    BY <2>1
  <2> QED BY <2>2
<1>3. PICK f \in [0..n -> Nat] : IsRun(f, 0, n, g)
  <2> HIDE DEF g
  <2> QED BY <1>1, <1>2, RunIs
<1>4. IsEnd(f)
  <2>1. \A i \in 0..n : f[i] = IF i = 0 THEN 0 ELSE Export!Align4(f[i - 1]) + lengths[i]
    <3> SUFFICES ASSUME NEW i \in 0..n
                 PROVE  f[i] = IF i = 0 THEN 0 ELSE Export!Align4(f[i - 1]) + lengths[i]
      OBVIOUS
    <3>1. f[i] = IF i = 0 THEN 0 ELSE g[<<i, f[i-1]>>]
      BY <1>3 DEF IsRun
    <3>2. i # 0 => i \in 1..n /\ f[i-1] \in Nat
      BY <1>1, <1>3
    <3>3. i # 0 => g[<<i, f[i-1]>>] = Export!Align4(f[i-1]) + lengths[i]
      BY <3>2
    <3> HIDE DEF g
    <3> QED BY <3>1, <3>3
  <2>2. f = [i \in 0..n |-> f[i]]
    BY <1>3
  <2> QED BY <2>1, <2>2
<1>5. IsEnd(end)
  BY <1>4
<1> HIDE DEF end, g
<1>6. \A i \in 0..n : end[i] \in Nat
  <2> DEFINE Good == {i \in 0..n : end[i] \in Nat}
  <2>1. 0 \in Good
    BY <1>1, <1>5
  <2>2. \A i \in 1..n : i - 1 \in Good => i \in Good
    <3> SUFFICES ASSUME NEW i \in 1..n, end[i - 1] \in Nat PROVE end[i] \in Nat
      BY <1>1
    <3>1. end[i] = Export!Align4(end[i - 1]) + lengths[i]
      BY <1>1, <1>5
    <3>2. Export!Align4(end[i - 1]) \in Nat /\ lengths[i] \in Nat
      BY <1>1, Aligned
    <3> QED BY <3>1, <3>2
  <2> HIDE DEF Good
  <2>3. \A i \in 0..n : i \in Good
    BY <1>1, <2>1, <2>2, ToTheEnd
  <2> QED BY <2>3 DEF Good
<1>7. ASSUME NEW i \in 1..n
      PROVE  /\ end[i - 1] \in Nat /\ end[i] \in Nat /\ Export!Align4(end[i - 1]) \in Nat
             /\ end[i - 1] <= Export!Align4(end[i - 1]) /\ Export!Align4(end[i - 1]) % 4 = 0
             /\ end[i] = Export!Align4(end[i - 1]) + lengths[i]
             /\ end[i - 1] <= end[i]
  <2>1. i - 1 \in 0..n /\ i \in 0..n
    BY <1>1
  <2>2. end[i - 1] \in Nat /\ end[i] \in Nat
    BY <1>6, <2>1
  <2>3. end[i] = Export!Align4(end[i - 1]) + lengths[i]
    BY <1>1, <1>5
  <2>4. /\ Export!Align4(end[i - 1]) \in Nat /\ end[i - 1] <= Export!Align4(end[i - 1])
        /\ Export!Align4(end[i - 1]) % 4 = 0
    BY <2>2, Aligned
  <2>5. lengths[i] \in Nat
    BY <1>1
  <2>6. end[i - 1] <= end[i]
    BY <2>2, <2>3, <2>4, <2>5
  <2> QED BY <2>2, <2>3, <2>4, <2>6
<1>8. ASSUME NEW i \in 1..n PROVE end[i] <= end[n]
  <2> DEFINE Good == {d \in 0..n : d >= i => end[i] <= end[d]}
  <2>1. 0 \in Good
    BY <1>1
  <2>2. ASSUME NEW d \in 1..n, d - 1 \in Good PROVE d \in Good
    <3>1. CASE d < i
      BY <3>1
    <3>2. CASE d = i
      BY <1>7, <3>2
    <3>3. CASE d > i
      <4>1. end[i] <= end[d-1]
        BY <2>2, <3>3
      <4>2. end[d-1] <= end[d] /\ end[d-1] \in Nat /\ end[d] \in Nat /\ end[i] \in Nat
        BY <1>7
      <4> QED BY <4>1, <4>2
    <3> QED BY <3>1, <3>2, <3>3
  <2> HIDE DEF Good
  <2>3. \A d \in 0..n : d \in Good
    BY <1>1, <2>1, <2>2, ToTheEnd
  <2> QED BY <1>1, <2>3 DEF Good
<1>9. \A i \in 1..n : views[i] = [offset |-> Export!Align4(end[i - 1]), length |-> lengths[i]]
  BY <1>1, <1>v
<1>10. DOMAIN views = 1..n /\ Len(views) = n
  <2>1. views = [i \in 1..n |-> views[i]]
    BY <1>1, <1>v
  <2> QED BY <1>1, <2>1, RowIs
<1>11. ASSUME NEW i \in 1..n
       PROVE  /\ views[i].offset \in Nat /\ views[i].length = lengths[i]
              /\ views[i].offset % 4 = 0
              /\ i > 1 => views[i - 1].offset + views[i - 1].length <= views[i].offset
              /\ views[i].offset + views[i].length <= views[n].offset + views[n].length
  <2>0. views[i] = [offset |-> Export!Align4(end[i - 1]), length |-> lengths[i]]
    BY <1>9
  <2>1. views[i].offset = Export!Align4(end[i - 1]) /\ views[i].length = lengths[i]
    BY <2>0
  <2>2. views[i].offset + views[i].length = end[i]
    BY <1>7, <2>1
  <2>3. views[n].offset + views[n].length = end[n]
    <3>1. n \in 1..n
      BY <1>1
    <3>2. end[n] = Export!Align4(end[n - 1]) + lengths[n]
      BY <1>7, <3>1
    <3>3. views[n] = [offset |-> Export!Align4(end[n - 1]), length |-> lengths[n]]
      BY <1>9, <3>1
    <3> QED BY <3>2, <3>3
  <2>4. i > 1 => views[i - 1].offset + views[i - 1].length = end[i - 1]
    <3> SUFFICES ASSUME i > 1 PROVE views[i - 1].offset + views[i - 1].length = end[i - 1]
      OBVIOUS
    <3>1. i - 1 \in 1..n
      BY <1>1
    <3>2. end[i - 1] = Export!Align4(end[(i - 1) - 1]) + lengths[i - 1]
      BY <1>7, <3>1
    <3>3. views[i - 1] = [offset |-> Export!Align4(end[(i - 1) - 1]), length |-> lengths[i - 1]]
      BY <1>9, <3>1
    <3> QED BY <3>2, <3>3
  <2>5. end[i - 1] <= Export!Align4(end[i - 1]) /\ Export!Align4(end[i - 1]) % 4 = 0 /\ Export!Align4(end[i - 1]) \in Nat
    BY <1>7
  <2>6. end[i] <= end[n]
    BY <1>8
  <2> QED BY <2>1, <2>2, <2>3, <2>4, <2>5, <2>6
<1> QED BY <1>10, <1>11 DEF AreViews, n, lengths, views

ReadBy == [count : Nat, bytes : Nat]

LEMMA SamplerReads ==
  ASSUME NEW s, IsSampler(s)
  PROVE  LET a == Export!SamplerAccessors(s)
             b == Export!SamplerSections(s)
         IN /\ a \in Seq(ReadBy) /\ Len(a) = 2 /\ b \in Seq(Nat) /\ Len(b) = 2
            /\ a[1] = [count |-> Len(s.times), bytes |-> 4] /\ a[2].count = Len(s.times)
            /\ a[1].count * a[1].bytes = b[1] /\ a[2].count * a[2].bytes = b[2]
<1> DEFINE a == Export!SamplerAccessors(s)
           b == Export!SamplerSections(s)
           l == Len(s.times)
<1>1. l \in Nat /\ s.width \in {3, 4} /\ s.values = l * s.width
  BY DEF IsSampler
<1>a. a = <<[count |-> l, bytes |-> 4], [count |-> s.values \div s.width, bytes |-> 4 * s.width]>>
  BY DEF Export!SamplerAccessors
<1>b. b = <<4 * l, 4 * s.values>>
  BY DEF Export!SamplerSections
<1> HIDE DEF a, b, l
<1>2. s.values \div s.width = l
  <2>1. CASE s.width = 3
    <3>1. (l * 3) \div 3 = l
      BY <1>1, SMTT(20)
    <3> QED BY <1>1, <2>1, <3>1
  <2>2. CASE s.width = 4
    <3>1. (l * 4) \div 4 = l
      BY <1>1, SMTT(20)
    <3> QED BY <1>1, <2>2, <3>1
  <2> QED BY <1>1, <2>1, <2>2
<1>3. s.values \in Nat /\ 4 * s.width \in Nat /\ l * (4 * s.width) = 4 * s.values
  <2>1. CASE s.width = 3
    BY <1>1, <2>1
  <2>2. CASE s.width = 4
    BY <1>1, <2>2
  <2> QED BY <1>1, <2>1, <2>2
<1>4. a = <<[count |-> l, bytes |-> 4], [count |-> l, bytes |-> 4 * s.width]>>
  BY <1>a, <1>2
<1>5. a[1] = [count |-> l, bytes |-> 4] /\ a[2] = [count |-> l, bytes |-> 4 * s.width] /\ Len(a) = 2
  BY <1>4
<1>6. a \in Seq(ReadBy)
  <2>1. [count |-> l, bytes |-> 4] \in ReadBy /\ [count |-> l, bytes |-> 4 * s.width] \in ReadBy
    BY <1>1, <1>3 DEF ReadBy
  <2> HIDE DEF ReadBy
  <2> QED BY <1>4, <2>1
<1>7. b \in Seq(Nat) /\ Len(b) = 2 /\ b[1] = 4 * l /\ b[2] = 4 * s.values
  BY <1>1, <1>3, <1>b
<1>8. a[1].count * a[1].bytes = b[1]
  BY <1>1, <1>5, <1>7
<1>9. a[2].count * a[2].bytes = b[2] /\ a[2].count = l
  BY <1>3, <1>5, <1>7
<1> QED BY <1>5, <1>6, <1>7, <1>8, <1>9 DEF a, b, l

LEMMA BaseReads ==
  ASSUME NEW m, IsModel(m)
  PROVE  LET a == Export!BaseAccessors(m)
             b == Export!BaseSections(m)
         IN /\ a \in Seq(ReadBy) /\ Len(a) = 6 /\ b \in Seq(Nat) /\ Len(b) = 6
            /\ \A i \in 1..6 : a[i].count * a[i].bytes = b[i]
            /\ a[1] = [count |-> Len(Export!Bones(m)), bytes |-> 64]
            /\ \A i \in 2..6 : a[i].count = Export!VertexCount(m)
<1> DEFINE a == Export!BaseAccessors(m)
           b == Export!BaseSections(m)
           v == Export!VertexCount(m)
           l == Len(Export!Bones(m))
<1>1. v \in Nat /\ l \in Nat
  BY VertexCountIs, BonesAre
<1>a. a = <<[count |-> l, bytes |-> 64], [count |-> v, bytes |-> 12],
            [count |-> v, bytes |-> 12], [count |-> v, bytes |-> 8],
            [count |-> v, bytes |-> 8], [count |-> v, bytes |-> 16]>>
  BY DEF Export!BaseAccessors
<1>b. b = <<16 * 4 * l, 3 * 4 * v, 3 * 4 * v, 2 * 4 * v, 4 * 2 * v, 4 * 4 * v>>
  BY DEF Export!BaseSections
<1> HIDE DEF a, b, v, l
<1>2. /\ Len(a) = 6 /\ a[1] = [count |-> l, bytes |-> 64]
      /\ a[2] = [count |-> v, bytes |-> 12] /\ a[3] = [count |-> v, bytes |-> 12]
      /\ a[4] = [count |-> v, bytes |-> 8] /\ a[5] = [count |-> v, bytes |-> 8]
      /\ a[6] = [count |-> v, bytes |-> 16]
  BY <1>a
<1>3. /\ Len(b) = 6 /\ b[1] = 64 * l /\ b[2] = 12 * v /\ b[3] = 12 * v
      /\ b[4] = 8 * v /\ b[5] = 8 * v /\ b[6] = 16 * v
  BY <1>1, <1>b
<1>4. a \in Seq(ReadBy)
  <2>1. /\ [count |-> l, bytes |-> 64] \in ReadBy /\ [count |-> v, bytes |-> 12] \in ReadBy
        /\ [count |-> v, bytes |-> 8] \in ReadBy /\ [count |-> v, bytes |-> 16] \in ReadBy
    BY <1>1 DEF ReadBy
  <2> HIDE DEF ReadBy
  <2> QED BY <1>a, <2>1
<1>5. b \in Seq(Nat)
  BY <1>1, <1>b
<1>6. \A i \in 1..6 : i = 1 \/ i = 2 \/ i = 3 \/ i = 4 \/ i = 5 \/ i = 6
  OBVIOUS
<1>7. /\ a[1].count * a[1].bytes = b[1] /\ a[2].count * a[2].bytes = b[2]
      /\ a[3].count * a[3].bytes = b[3] /\ a[4].count * a[4].bytes = b[4]
      /\ a[5].count * a[5].bytes = b[5] /\ a[6].count * a[6].bytes = b[6]
  BY <1>1, <1>2, <1>3
<1>8. \A i \in 1..6 : a[i].count * a[i].bytes = b[i]
  BY <1>6, <1>7
<1>9. \A i \in 2..6 : a[i].count = v
  <2>1. a[2].count = v /\ a[3].count = v /\ a[4].count = v /\ a[5].count = v /\ a[6].count = v
    BY <1>2
  <2>2. \A i \in 2..6 : i = 2 \/ i = 3 \/ i = 4 \/ i = 5 \/ i = 6
    OBVIOUS
  <2> QED BY <2>1, <2>2
<1> QED BY <1>2, <1>3, <1>4, <1>5, <1>8, <1>9 DEF a, b, v, l

\* The pairs of the samplers follow the six of the mesh and its skin.
FollowOn(all, base, pairs, n) ==
    /\ Len(all) = 6 + 2 * n
    /\ \A i \in 1..6 : all[i] = base[i]
    /\ \A k \in 1..n : all[6 + 2*k - 1] = pairs[k][1] /\ all[6 + 2*k] = pairs[k][2]
LEMMA PairsFollow ==
  ASSUME NEW T, NEW n \in Nat, NEW pairs, AreLists(pairs, n, T), ArePairs(pairs, n),
         NEW base \in Seq(T), Len(base) = 6
  PROVE  /\ base \o Export!FlattenSeq(pairs) \in Seq(T)
         /\ FollowOn(base \o Export!FlattenSeq(pairs), base, pairs, n)
<1> DEFINE flat == Export!FlattenSeq(pairs)
           all == base \o flat
<1>0. pairs \in [1..n -> Seq(T)]
  BY DEF AreLists
<1>1. /\ flat \in Seq(T) /\ Len(flat) = 2 * n
      /\ \A k \in 1..n : flat[2*k - 1] = pairs[k][1] /\ flat[2*k] = pairs[k][2]
  BY <1>0, PairsAre
<1> HIDE DEF flat
<1>2. /\ all \in Seq(T) /\ Len(all) = 6 + 2 * n
      /\ \A i \in 1..(6 + 2 * n) : all[i] = IF i <= 6 THEN base[i] ELSE flat[i - 6]
  <2>1. /\ all \in Seq(T) /\ Len(all) = Len(base) + Len(flat)
        /\ \A i \in 1..(Len(base) + Len(flat)) :
             all[i] = IF i <= Len(base) THEN base[i] ELSE flat[i - Len(base)]
    BY <1>1, ConcatProperties
  <2> QED BY <1>1, <2>1
<1> HIDE DEF all
<1>3. \A i \in 1..6 : all[i] = base[i]
  <2> SUFFICES ASSUME NEW i \in 1..6 PROVE all[i] = base[i]
    OBVIOUS
  <2>1. i \in 1..(6 + 2 * n) /\ i <= 6
    OBVIOUS
  <2> QED BY <1>2, <2>1
<1>4. ASSUME NEW k \in 1..n PROVE all[6 + 2*k - 1] = pairs[k][1] /\ all[6 + 2*k] = pairs[k][2]
  <2>1. /\ 6 + 2*k - 1 \in 1..(6 + 2 * n) /\ ~(6 + 2*k - 1 <= 6) /\ (6 + 2*k - 1) - 6 = 2*k - 1
        /\ 6 + 2*k \in 1..(6 + 2 * n) /\ ~(6 + 2*k <= 6) /\ (6 + 2*k) - 6 = 2*k
    OBVIOUS
  <2>2. all[6 + 2*k - 1] = flat[2*k - 1]
    BY <1>2, <2>1
  <2>3. all[6 + 2*k] = flat[2*k]
    BY <1>2, <2>1
  <2> QED BY <1>1, <2>2, <2>3
<1>5. FollowOn(all, base, pairs, n)
  BY <1>2, <1>3, <1>4 DEF FollowOn
<1> QED BY <1>2, <1>5 DEF all, flat

\* An accessor reads its section to the last byte, and the accessors of sampler
\* k are at 6 + 2k - 1 and 6 + 2k.
LEMMA AccessorsAre ==
  ASSUME Grain \in Nat \ {0}, NEW m, IsModel(m)
  PROVE  LET acc == Export!Accessors(m)
             sec == Export!Sections(m)
             ss == Export!AllSamplers(m)
             n == Len(ss)
         IN /\ n \in Nat /\ sec \in Seq(Nat) /\ Len(sec) = 6 + 2 * n /\ Len(acc) = 6 + 2 * n
            /\ \A i \in 1..(6 + 2 * n) : acc[i].count * acc[i].bytes = sec[i]
            /\ acc[1] = [count |-> Len(Export!Bones(m)), bytes |-> 64]
            /\ \A i \in 2..6 : acc[i].count = Export!VertexCount(m)
            /\ \A k \in 1..n :
                 /\ acc[6 + 2*k - 1] = [count |-> Len(ss[k].times), bytes |-> 4]
                 /\ acc[6 + 2*k].count = Len(ss[k].times)
<1> DEFINE acc == Export!Accessors(m)
           sec == Export!Sections(m)
           ss == Export!AllSamplers(m)
           n == Len(ss)
           a == Export!BaseAccessors(m)
           b == Export!BaseSections(m)
           as == [k \in 1..n |-> Export!SamplerAccessors(ss[k])]
           bs == [k \in 1..n |-> Export!SamplerSections(ss[k])]
<1>1. ss \in Seq(SamplersOf(m))
  BY AllSamplersAre
<1>A. acc = a \o Export!FlattenSeq(as)
  BY DEF Export!Accessors
<1>B. sec = b \o Export!FlattenSeq(bs)
  BY DEF Export!Sections
<1>C. /\ a \in Seq(ReadBy) /\ Len(a) = 6 /\ b \in Seq(Nat) /\ Len(b) = 6
      /\ \A i \in 1..6 : a[i].count * a[i].bytes = b[i]
      /\ a[1] = [count |-> Len(Export!Bones(m)), bytes |-> 64]
      /\ \A i \in 2..6 : a[i].count = Export!VertexCount(m)
  BY BaseReads
<1> HIDE DEF acc, sec, ss, a, b
<1>2. n \in Nat /\ \A k \in 1..n : IsSampler(ss[k])
  <2>1. n \in Nat /\ DOMAIN ss = 1..n /\ ss \in [DOMAIN ss -> SamplersOf(m)]
    BY <1>1, ListIs
  <2>2. \A k \in 1..n : ss[k] \in SamplersOf(m)
    BY <2>1
  <2> QED BY <2>1, <2>2, SamplerIs
<1> HIDE DEF n
<1>D. \A k \in 1..n : as[k] = Export!SamplerAccessors(ss[k]) /\ bs[k] = Export!SamplerSections(ss[k])
  OBVIOUS
<1>E. as = [k \in 1..n |-> as[k]] /\ bs = [k \in 1..n |-> bs[k]]
  OBVIOUS
<1> HIDE DEF as, bs
<1>3. \A k \in 1..n :
        /\ as[k] \in Seq(ReadBy) /\ Len(as[k]) = 2 /\ bs[k] \in Seq(Nat) /\ Len(bs[k]) = 2
        /\ as[k][1] = [count |-> Len(ss[k].times), bytes |-> 4] /\ as[k][2].count = Len(ss[k].times)
        /\ as[k][1].count * as[k][1].bytes = bs[k][1] /\ as[k][2].count * as[k][2].bytes = bs[k][2]
  <2> SUFFICES ASSUME NEW k \in 1..n
               PROVE  /\ as[k] \in Seq(ReadBy) /\ Len(as[k]) = 2 /\ bs[k] \in Seq(Nat) /\ Len(bs[k]) = 2
                      /\ as[k][1] = [count |-> Len(ss[k].times), bytes |-> 4]
                      /\ as[k][2].count = Len(ss[k].times)
                      /\ as[k][1].count * as[k][1].bytes = bs[k][1]
                      /\ as[k][2].count * as[k][2].bytes = bs[k][2]
    OBVIOUS
  <2> DEFINE s == ss[k]
             p == Export!SamplerAccessors(s)
             q == Export!SamplerSections(s)
  <2>1. IsSampler(s)
    BY <1>2
  <2>2. as[k] = p /\ bs[k] = q
    BY <1>D
  <2>3. /\ p \in Seq(ReadBy) /\ Len(p) = 2 /\ q \in Seq(Nat) /\ Len(q) = 2
        /\ p[1] = [count |-> Len(s.times), bytes |-> 4] /\ p[2].count = Len(s.times)
        /\ p[1].count * p[1].bytes = q[1] /\ p[2].count * p[2].bytes = q[2]
    <3> HIDE DEF s
    <3> QED BY <2>1, SamplerReads
  <2> HIDE DEF p, q
  <2> QED BY <2>2, <2>3
<1>4. AreLists(as, n, ReadBy) /\ ArePairs(as, n)
  <2>1. as \in [1..n -> Seq(ReadBy)]
    BY <1>3, <1>E
  <2>2. ArePairs(as, n)
    BY <1>3 DEF ArePairs
  <2> QED BY <2>1, <2>2 DEF AreLists
<1>5. AreLists(bs, n, Nat) /\ ArePairs(bs, n)
  <2>1. bs \in [1..n -> Seq(Nat)]
    BY <1>3, <1>E
  <2>2. ArePairs(bs, n)
    BY <1>3 DEF ArePairs
  <2> QED BY <2>1, <2>2 DEF AreLists
<1>6. FollowOn(acc, a, as, n)
  BY <1>A, <1>2, <1>4, <1>C, PairsFollow
<1>7. FollowOn(sec, b, bs, n) /\ sec \in Seq(Nat)
  BY <1>B, <1>2, <1>5, <1>C, PairsFollow
<1>8. Len(acc) = 6 + 2 * n /\ Len(sec) = 6 + 2 * n
  BY <1>6, <1>7 DEF FollowOn
<1>9. \A i \in 1..6 : acc[i] = a[i] /\ sec[i] = b[i]
  BY <1>6, <1>7 DEF FollowOn
<1>10. \A k \in 1..n : /\ acc[6 + 2*k - 1] = as[k][1] /\ acc[6 + 2*k] = as[k][2]
                       /\ sec[6 + 2*k - 1] = bs[k][1] /\ sec[6 + 2*k] = bs[k][2]
  BY <1>6, <1>7 DEF FollowOn
<1>11. ASSUME NEW i \in 1..(6 + 2 * n) PROVE acc[i].count * acc[i].bytes = sec[i]
  <2>1. CASE i <= 6
    <3>1. i \in 1..6
      BY <2>1
    <3> QED BY <1>9, <1>C, <3>1
  <2>2. CASE i > 6
    <3>1. \E k \in 1..n : i = 6 + 2*k - 1 \/ i = 6 + 2*k
      <4> DEFINE k == (i - 5) \div 2
      <4>1. k \in Int /\ (i - 5 = 2 * k \/ i - 5 = 2 * k + 1)
        BY SMTT(20)
      <4> HIDE DEF k
      <4>2. k \in 1..n /\ (i = 6 + 2*k - 1 \/ i = 6 + 2*k)
        BY <1>2, <2>2, <4>1
      <4> QED BY <4>2
    <3>2. PICK k \in 1..n : i = 6 + 2*k - 1 \/ i = 6 + 2*k
      BY <3>1
    <3>3. /\ acc[6 + 2*k - 1].count * acc[6 + 2*k - 1].bytes = sec[6 + 2*k - 1]
          /\ acc[6 + 2*k].count * acc[6 + 2*k].bytes = sec[6 + 2*k]
      BY <1>3, <1>10
    <3> QED BY <3>2, <3>3
  <2> QED BY <2>1, <2>2
<1>12. \A k \in 1..n : /\ acc[6 + 2*k - 1] = [count |-> Len(ss[k].times), bytes |-> 4]
                       /\ acc[6 + 2*k].count = Len(ss[k].times)
  BY <1>3, <1>10
<1>13. /\ acc[1] = [count |-> Len(Export!Bones(m)), bytes |-> 64]
       /\ \A i \in 2..6 : acc[i].count = Export!VertexCount(m)
  <2>1. 1 \in 1..6 /\ \A i \in 2..6 : i \in 1..6
    OBVIOUS
  <2> QED BY <1>9, <1>C, <2>1
<1> QED BY <1>2, <1>7, <1>8, <1>11, <1>12, <1>13 DEF acc, sec, ss, n

----------------------------------------------------------------------------
(* The files                                                               *)

\* Unless the export warned of a track without a bone, the node of a track is
\* the bone it names.
LEMMA TracksHaveBones ==
  ASSUME NEW m, IsModel(m), ~ Export!Orphans(m), NEW c \in DOMAIN m.clips,
         NEW p \in DOMAIN Export!Channels(m.clips[c])
  PROVE  LET bs == Export!Bones(m)
             bone == Export!Channels(m.clips[c])[p].bone
         IN bs[Export!NodeOf(bs, bone)].name = bone
<1> DEFINE bs == Export!Bones(m)
           clip == m.clips[c]
           bone == Export!Channels(m.clips[c])[p].bone
<1>1. IsClip(clip)
  BY DEF IsModel
<1>2. PICK k \in DOMAIN clip : clip[k].bone = bone
  BY <1>1, ChannelsAre DEF SameTrack
<1>3. bone # None
  BY <1>1, <1>2 DEF IsClip
<1>4. clip \in Export!ToSet(m.clips) /\ clip[k] \in Export!ToSet(clip)
  BY <1>2 DEF Export!ToSet
<1> HIDE DEF bone
<1>5. bone \in {t.bone : t \in UNION {Export!ToSet(d) : d \in Export!ToSet(m.clips)}}
  <2> HIDE DEF clip
  <2>1. clip[k] \in UNION {Export!ToSet(d) : d \in Export!ToSet(m.clips)}
    BY <1>4
  <2> QED BY <1>2, <2>1
<1>6. Export!IndexOf(bs, bone) # 0
  BY <1>3, <1>5 DEF Export!Orphans
<1>7. IsSequence(bs)
  BY BonesAre
<1>8. bs[Export!IndexOf(bs, bone)].name = bone
  BY <1>6, <1>7, IndexIs
<1> QED BY <1>6, <1>8 DEF Export!NodeOf, bone

\* The samplers of one clip.
IsDriven(m, c, ss) ==
    /\ \A k \in DOMAIN ss :
         /\ \A j \in 2..Len(ss[k].times) : ss[k].times[j - 1] < ss[k].times[j]
         /\ ss[k].node \in DOMAIN Export!Bones(m)
    /\ Export!Orphans(m) \/ \A j, k \in DOMAIN ss :
         j # k => <<ss[j].node, ss[j].path>> # <<ss[k].node, ss[k].path>>
LEMMA ClipIsDriven ==
  ASSUME Grain \in Nat \ {0}, NEW m, IsModel(m), NEW c \in DOMAIN m.clips
  PROVE  IsDriven(m, c, Export!Samplers(m, c))
<1> DEFINE ch == Export!Channels(m.clips[c])
           ss == Export!Samplers(m, c)
           bs == Export!Bones(m)
<1>C. ComeFrom(ch, ss, bs)
  BY SamplersAre
<1>N. \A bone : Export!NodeOf(bs, bone) \in DOMAIN bs
  BY NodeIs
<1>O. ~ Export!Orphans(m) => \A p \in DOMAIN ch : bs[Export!NodeOf(bs, ch[p].bone)].name = ch[p].bone
  BY TracksHaveBones
<1> HIDE DEF ch, ss, bs
<1>1. /\ IsTracks(ch) /\ DOMAIN ss = DOMAIN ch
      /\ \E o \in [DOMAIN ch -> DOMAIN ch] :
           /\ \A k \in DOMAIN ch : ss[k] = Export!Sampler(bs, ch[o[k]])
           /\ \A p, q \in DOMAIN ch : p # q => o[p] # o[q]
           /\ \A x \in DOMAIN ch : \E p \in DOMAIN ch : o[p] = x
  BY <1>C DEF ComeFrom
<1>2. PICK o \in [DOMAIN ch -> DOMAIN ch] :
           /\ \A k \in DOMAIN ch : ss[k] = Export!Sampler(bs, ch[o[k]])
           /\ \A p, q \in DOMAIN ch : p # q => o[p] # o[q]
  BY <1>1
<1>3. ASSUME NEW k \in DOMAIN ss
      PROVE  /\ o[k] \in DOMAIN ch
             /\ ss[k].node = Export!NodeOf(bs, ch[o[k]].bone) /\ ss[k].path = ch[o[k]].channel
             /\ ss[k].times = Export!DecodedKeys(ch[o[k]].times)
  <2>1. o[k] \in DOMAIN ch /\ ss[k] = Export!Sampler(bs, ch[o[k]])
    BY <1>1, <1>2
  <2> QED BY <2>1 DEF Export!Sampler
<1>4. ASSUME NEW k \in DOMAIN ss
      PROVE  /\ \A j \in 2..Len(ss[k].times) : ss[k].times[j - 1] < ss[k].times[j]
             /\ ss[k].node \in DOMAIN bs
  <2> DEFINE d == Export!DecodedKeys(ch[o[k]].times)
  <2>1. ch[o[k]].times \in Seq(Nat)
    BY <1>1, <1>3 DEF IsTracks
  <2>2. \A j \in 2..Len(d) : d[j - 1] < d[j]
    BY <2>1, KeysAre
  <2>3. ss[k].times = d
    BY <1>3
  <2> HIDE DEF d
  <2> QED BY <1>3, <1>N, <2>2, <2>3
<1>5. ASSUME ~ Export!Orphans(m), NEW j \in DOMAIN ss, NEW k \in DOMAIN ss, j # k
      PROVE  <<ss[j].node, ss[j].path>> # <<ss[k].node, ss[k].path>>
  <2>1. o[j] # o[k]
    BY <1>1, <1>2, <1>5
  <2>2. <<ch[o[j]].bone, ch[o[j]].channel>> # <<ch[o[k]].bone, ch[o[k]].channel>>
    BY <1>1, <1>3, <2>1 DEF IsTracks
  <2>3. ss[j].node = ss[k].node => ch[o[j]].bone = ch[o[k]].bone
    BY <1>3, <1>5, <1>O
  <2> QED BY <1>3, <2>2, <2>3
<1> QED BY <1>4, <1>5 DEF IsDriven, ss, bs

\* The indices of a file fit together, whatever model is exported.
LEMMA GltfFits ==
  ASSUME Grain \in Nat \ {0}, IsModel(shape)
  PROVE  Export!GltfIsWellFormed
<1> DEFINE m == shape
           views == Export!Views(m)
           acc == Export!Accessors(m)
           sec == Export!Sections(m)
           ss == Export!AllSamplers(m)
           bs == Export!Bones(m)
           n == Len(ss)
           file == Export!GltfFile(m)
<1>1. /\ n \in Nat /\ sec \in Seq(Nat) /\ Len(sec) = 6 + 2 * n /\ Len(acc) = 6 + 2 * n
      /\ \A i \in 1..(6 + 2 * n) : acc[i].count * acc[i].bytes = sec[i]
      /\ acc[1] = [count |-> Len(bs), bytes |-> 64]
      /\ \A i \in 2..6 : acc[i].count = Export!VertexCount(m)
      /\ \A k \in 1..n :
           /\ acc[6 + 2*k - 1] = [count |-> Len(ss[k].times), bytes |-> 4]
           /\ acc[6 + 2*k].count = Len(ss[k].times)
  BY AccessorsAre
<1>2. AreViews(views, sec)
  BY <1>1, ViewsAre
<1>3. /\ IsSequence(bs) /\ Len(bs) \in Nat /\ DOMAIN bs = 1..Len(bs)
  BY BonesAre
<1>4. /\ \A c \in DOMAIN m.clips :
           /\ Export!SamplersBefore(m, c) \in Nat
           /\ \A k \in DOMAIN Export!Samplers(m, c) :
                LET p == Export!SamplersBefore(m, c) + k
                IN p \in 1..n /\ ss[p] = Export!Samplers(m, c)[k]
  BY AllSamplersAre
<1>5. \A c \in DOMAIN m.clips : IsDriven(m, c, Export!Samplers(m, c))
  BY ClipIsDriven
<1>6. \A i \in DOMAIN bs :
         Export!Cardinality({j \in DOMAIN bs : i \in Export!Children(bs, j)})
           + (IF i \in Export!RootNodes(bs) THEN 1 ELSE 0) = 1
  BY NodesAreOnce
<1>7. Export!MeshNode(bs) \in Export!RootNodes(bs) /\ Export!RootBone(bs) \in DOMAIN bs
  BY RootsAre
<1>8. Export!Cardinality(DOMAIN bs) = Len(bs)
  <2>1. Cardinality(1..Len(bs)) = IF 1 > Len(bs) THEN 0 ELSE Len(bs) - 1 + 1
    BY <1>3, FS_Interval
  <2>2. Cardinality(DOMAIN bs) = Len(bs)
    <3> HIDE DEF bs
    <3> QED BY <1>3, <2>1
  <2> QED BY <2>2, ExportCardinality
<1>f. /\ file.scene = Export!RootNodes(bs) /\ file.attributes = 2..6 /\ file.joints = DOMAIN bs
      /\ file.skeleton = Export!RootBone(bs) /\ file.inverseBind = 1
      /\ file.buffer = Export!Last(views).offset + Export!Last(views).length
  BY DEF Export!GltfFile
<1> HIDE DEF m, views, acc, sec, ss, bs, n, file
<1>9. /\ DOMAIN views = 1..(6 + 2 * n) /\ Len(views) = 6 + 2 * n
      /\ \A i \in DOMAIN views :
           /\ views[i].length = sec[i] /\ views[i].offset % 4 = 0
           /\ i > 1 => views[i - 1].offset + views[i - 1].length <= views[i].offset
           /\ views[i].offset + views[i].length <=
                views[6 + 2 * n].offset + views[6 + 2 * n].length
  BY <1>1, <1>2 DEF AreViews
<1>10. file.buffer = views[6 + 2 * n].offset + views[6 + 2 * n].length
  BY <1>9, <1>f DEF Export!Last
<1>11. /\ Len(acc) = Len(views)
       /\ \A i \in DOMAIN views :
            /\ views[i].offset % 4 = 0
            /\ i > 1 => views[i - 1].offset + views[i - 1].length <= views[i].offset
            /\ acc[i].count * acc[i].bytes = views[i].length
            /\ views[i].offset + views[i].length <= file.buffer
  <2>1. \A i \in DOMAIN views : acc[i].count * acc[i].bytes = views[i].length
    BY <1>1, <1>9
  <2>2. \A i \in DOMAIN views : views[i].offset + views[i].length <= file.buffer
    BY <1>9, <1>10
  <2> QED BY <1>1, <1>9, <2>1, <2>2
<1>12. ASSUME NEW c \in DOMAIN m.clips, NEW k \in DOMAIN Export!Samplers(m, c)
       PROVE  /\ acc[Export!InputOf(m, c, k)] =
                   [count |-> Len(Export!Samplers(m, c)[k].times), bytes |-> 4]
              /\ acc[Export!OutputOf(m, c, k)].count = acc[Export!InputOf(m, c, k)].count
  <2> DEFINE p == Export!SamplersBefore(m, c) + k
  <2>1. p \in 1..n /\ ss[p] = Export!Samplers(m, c)[k]
    BY <1>4
  <2>2. Export!InputOf(m, c, k) = 6 + 2 * p - 1 /\ Export!OutputOf(m, c, k) = 6 + 2 * p
    BY DEF Export!InputOf, Export!OutputOf
  <2> HIDE DEF p
  <2>3. /\ acc[6 + 2 * p - 1] = [count |-> Len(ss[p].times), bytes |-> 4]
        /\ acc[6 + 2 * p].count = Len(ss[p].times)
    BY <1>1, <2>1
  <2> QED BY <2>1, <2>2, <2>3
<1>13. ASSUME NEW c \in DOMAIN m.clips
       PROVE  LET S == Export!Samplers(m, c) IN
              /\ \A k \in DOMAIN S :
                 /\ acc[Export!InputOf(m, c, k)] = [count |-> Len(S[k].times), bytes |-> 4]
                 /\ acc[Export!OutputOf(m, c, k)].count = acc[Export!InputOf(m, c, k)].count
                 /\ \A j \in 2..Len(S[k].times) : S[k].times[j - 1] < S[k].times[j]
                 /\ S[k].node \in DOMAIN bs
              /\ Export!Orphans(m) \/ \A j, k \in DOMAIN S :
                 j # k => <<S[j].node, S[j].path>> # <<S[k].node, S[k].path>>
  BY <1>5, <1>12 DEF IsDriven, bs
<1>14. \A i \in DOMAIN bs :
         Export!Cardinality({j \in DOMAIN bs : i \in Export!Children(bs, j)})
           + (IF i \in file.scene THEN 1 ELSE 0) = 1
  BY <1>6, <1>f
<1>15. /\ Export!MeshNode(bs) \in file.scene /\ file.skeleton \in file.joints
       /\ acc[file.inverseBind] = [count |-> Export!Cardinality(file.joints), bytes |-> 64]
       /\ \A a \in file.attributes : acc[a].count = Export!VertexCount(m)
  BY <1>1, <1>7, <1>8, <1>f
<1> QED
  BY <1>11, <1>13, <1>14, <1>15 DEF Export!GltfIsWellFormed, m, views, acc, bs, file

\* The keyframes of tracks, and the keys a file has for them.
FramesOf(ch) ==
    UNION {{<<ch[k].bone, ch[k].channel, t>> : t \in Export!ToSet(ch[k].times)} : k \in DOMAIN ch}
KeysOf(ch, grain) ==
    UNION {{<<ch[k].bone, ch[k].channel, Export!Rounded(t, grain)>> : t \in Export!ToSet(ch[k].times)} :
           k \in DOMAIN ch}

LEMMA KeysHold ==
  ASSUME NEW ch, IsTracks(ch), NEW grain \in Nat \ {0}
  PROVE  Export!Hold(KeysOf(ch, grain), FramesOf(ch), grain)
<1>1. ASSUME NEW k \in DOMAIN ch, NEW t \in Export!ToSet(ch[k].times)
      PROVE  Export!StandsFor(<<ch[k].bone, ch[k].channel, Export!Rounded(t, grain)>>,
                              <<ch[k].bone, ch[k].channel, t>>, grain)
  <2>1. t \in Nat
    <3> DEFINE times == ch[k].times
    <3>1. times \in Seq(Nat)
      BY DEF IsTracks
    <3> HIDE DEF times
    <3>2. times \in [1..Len(times) -> Nat] /\ DOMAIN times = 1..Len(times)
      BY <3>1, ListIs
    <3>3. Export!ToSet(times) \in SUBSET Nat
      BY <3>2 DEF Export!ToSet
    <3> QED BY <3>3 DEF times
  <2> QED BY <2>1, RoundedIs DEF Export!StandsFor
<1>2. ASSUME NEW frame \in FramesOf(ch)
      PROVE  \E key \in KeysOf(ch, grain) : Export!StandsFor(key, frame, grain)
  <2>1. PICK k \in DOMAIN ch : \E t \in Export!ToSet(ch[k].times) : frame = <<ch[k].bone, ch[k].channel, t>>
    BY DEF FramesOf
  <2>t. PICK t \in Export!ToSet(ch[k].times) : frame = <<ch[k].bone, ch[k].channel, t>>
    BY <2>1
  <2>2. <<ch[k].bone, ch[k].channel, Export!Rounded(t, grain)>> \in KeysOf(ch, grain)
    BY DEF KeysOf
  <2> QED BY <1>1, <2>t, <2>2
<1>3. ASSUME NEW key \in KeysOf(ch, grain)
      PROVE  \E frame \in FramesOf(ch) : Export!StandsFor(key, frame, grain)
  <2>1. PICK k \in DOMAIN ch : \E t \in Export!ToSet(ch[k].times) :
          key = <<ch[k].bone, ch[k].channel, Export!Rounded(t, grain)>>
    BY DEF KeysOf
  <2>t. PICK t \in Export!ToSet(ch[k].times) :
          key = <<ch[k].bone, ch[k].channel, Export!Rounded(t, grain)>>
    BY <2>1
  <2>2. <<ch[k].bone, ch[k].channel, t>> \in FramesOf(ch)
    BY DEF FramesOf
  <2> QED BY <1>1, <2>t, <2>2
<1> QED BY <1>2, <1>3 DEF Export!Hold

\* A clip has the keyframes of the tracks it is exported with.
LEMMA FramesAre ==
  ASSUME NEW clip, IsClip(clip)
  PROVE  Export!Keyframes(clip) = FramesOf(Export!Channels(clip))
<1> DEFINE ch == Export!Channels(clip)
           At(d) == {<<d.bone, d.channel, t>> : t \in Export!ToSet(d.times)}
<1>1. /\ \A p \in DOMAIN ch : \E k \in DOMAIN clip : SameTrack(clip[k], ch[p])
      /\ \A k \in Export!Keyed(clip) : \E p \in DOMAIN ch : SameTrack(clip[k], ch[p])
  BY ChannelsAre
<1>2. Export!Keyframes(clip) = UNION {At(clip[k]) : k \in DOMAIN clip}
  BY DEF Export!Keyframes, Export!ToSet
<1>3. FramesOf(ch) = UNION {At(ch[p]) : p \in DOMAIN ch}
  BY DEF FramesOf
<1>4. \A d, e : SameTrack(d, e) => At(d) = At(e)
  BY DEF SameTrack
<1>5. \A k \in DOMAIN clip : k \in Export!Keyed(clip) \/ At(clip[k]) = {}
  BY DEF Export!Keyed, Export!ToSet
<1> HIDE DEF ch, At
<1>6. UNION {At(clip[k]) : k \in DOMAIN clip} = UNION {At(ch[p]) : p \in DOMAIN ch}
  <2>1. ASSUME NEW k \in DOMAIN clip, NEW x \in At(clip[k]) PROVE \E p \in DOMAIN ch : x \in At(ch[p])
    BY <1>1, <1>4, <1>5
  <2>2. ASSUME NEW p \in DOMAIN ch, NEW x \in At(ch[p]) PROVE \E k \in DOMAIN clip : x \in At(clip[k])
    BY <1>1, <1>4
  <2> QED BY <2>1, <2>2
<1> QED BY <1>2, <1>3, <1>6 DEF ch

\* No track replaces another in a GeckoLib file.
LEMMA GeckoKeysAre ==
  ASSUME NEW m, IsModel(m), NEW c \in DOMAIN m.clips
  PROVE  Export!GeckoKeys(m, c) = KeysOf(Export!Channels(m.clips[c]), KeyGrain)
<1> DEFINE ch == Export!Channels(m.clips[c])
<1>1. IsTracks(ch)
  <2>1. IsClip(m.clips[c])
    BY DEF IsModel
  <2> QED BY <2>1, ChannelsAre
<1>2. Export!GeckoKeys(m, c) =
        UNION {{<<ch[k].bone, ch[k].channel, Export!TimeKey(t)>> : t \in Export!ToSet(ch[k].times)} :
               k \in Export!Kept(ch)}
  BY DEF Export!GeckoKeys
<1> HIDE DEF ch
<1>3. Export!Kept(ch) = DOMAIN ch
  <2>1. \A j, k \in DOMAIN ch : j > k =>
          <<ch[j].bone, ch[j].channel>> # <<ch[k].bone, ch[k].channel>>
    <3> SUFFICES ASSUME NEW j \in DOMAIN ch, NEW k \in DOMAIN ch, j > k
                 PROVE  <<ch[j].bone, ch[j].channel>> # <<ch[k].bone, ch[k].channel>>
      OBVIOUS
    <3>1. DOMAIN ch = 1..Len(ch) /\ Len(ch) \in Nat
      BY <1>1 DEF IsTracks
    <3>2. j # k
      BY <3>1
    <3> QED BY <1>1, <3>2 DEF IsTracks
  <2> QED BY <2>1 DEF Export!Kept
<1>4. Export!GeckoKeys(m, c) = KeysOf(ch, KeyGrain)
  BY <1>2, <1>3 DEF KeysOf, Export!TimeKey
<1> QED BY <1>4 DEF ch

\* The samplers of a clip have the bones, the channels and the buckets of its tracks.
LEMMA GltfKeysAre ==
  ASSUME Grain \in Nat \ {0}, NEW m, IsModel(m), ~ Export!Orphans(m), NEW c \in DOMAIN m.clips
  PROVE  Export!GltfKeys(m, c) = KeysOf(Export!Channels(m.clips[c]), Grain)
<1> DEFINE ch == Export!Channels(m.clips[c])
           ss == Export!Samplers(m, c)
           bs == Export!Bones(m)
           Of(s) == {<<bs[s.node].name, s.path, t>> : t \in Export!ToSet(s.times)}
           In(k) == {<<ch[k].bone, ch[k].channel, Export!Rounded(t, Grain)>> : t \in Export!ToSet(ch[k].times)}
<1>C. ComeFrom(ch, ss, bs)
  BY SamplersAre
<1>O. \A p \in DOMAIN ch : bs[Export!NodeOf(bs, ch[p].bone)].name = ch[p].bone
  BY TracksHaveBones
<1>K. KeysOf(ch, Grain) = UNION {In(k) : k \in DOMAIN ch}
  BY DEF KeysOf
<1>S. Export!GltfKeys(m, c) = UNION {Of(s) : s \in Export!ToSet(ss)}
  BY DEF Export!GltfKeys
<1> HIDE DEF ch, ss, bs
<1>1. /\ IsTracks(ch) /\ DOMAIN ss = DOMAIN ch
      /\ \E o \in [DOMAIN ch -> DOMAIN ch] :
           /\ \A k \in DOMAIN ch : ss[k] = Export!Sampler(bs, ch[o[k]])
           /\ \A p, q \in DOMAIN ch : p # q => o[p] # o[q]
           /\ \A x \in DOMAIN ch : \E p \in DOMAIN ch : o[p] = x
  BY <1>C DEF ComeFrom
<1>2. PICK o \in [DOMAIN ch -> DOMAIN ch] :
           /\ \A k \in DOMAIN ch : ss[k] = Export!Sampler(bs, ch[o[k]])
           /\ \A x \in DOMAIN ch : \E p \in DOMAIN ch : o[p] = x
  BY <1>1
<1>3. ASSUME NEW k \in DOMAIN ch PROVE Of(ss[k]) = In(o[k])
  <2> DEFINE t == ch[o[k]].times
             d == Export!DecodedKeys(t)
  <2>1. o[k] \in DOMAIN ch /\ ss[k] = Export!Sampler(bs, ch[o[k]])
    BY <1>2
  <2>2. ss[k].node = Export!NodeOf(bs, ch[o[k]].bone) /\ ss[k].path = ch[o[k]].channel /\ ss[k].times = d
    BY <2>1 DEF Export!Sampler
  <2>3. bs[ss[k].node].name = ch[o[k]].bone
    BY <1>O, <2>1, <2>2
  <2>4. Export!ToSet(d) = Export!Buckets(t)
    <3>1. t \in Seq(Nat)
      BY <1>1, <2>1 DEF IsTracks
    <3> HIDE DEF t
    <3> QED BY <3>1, KeysAre
  <2>5. Of(ss[k]) = {<<ch[o[k]].bone, ch[o[k]].channel, b>> : b \in Export!Buckets(t)}
    BY <2>2, <2>3, <2>4
  <2>6. In(o[k]) = {<<ch[o[k]].bone, ch[o[k]].channel, b>> : b \in Export!Buckets(t)}
    BY DEF Export!Buckets, Export!Bucket
  <2> QED BY <2>5, <2>6
<1> HIDE DEF Of, In
<1>5. Export!ToSet(ss) = {ss[k] : k \in DOMAIN ch}
  BY <1>1 DEF Export!ToSet
<1>6. UNION {Of(s) : s \in Export!ToSet(ss)} = UNION {In(k) : k \in DOMAIN ch}
  <2>1. ASSUME NEW x \in UNION {Of(s) : s \in Export!ToSet(ss)}
        PROVE  x \in UNION {In(k) : k \in DOMAIN ch}
    <3>1. PICK k \in DOMAIN ch : x \in Of(ss[k])
      BY <1>5
    <3>2. o[k] \in DOMAIN ch /\ x \in In(o[k])
      BY <1>2, <1>3, <3>1
    <3> QED BY <3>2
  <2>2. ASSUME NEW x \in UNION {In(k) : k \in DOMAIN ch}
        PROVE  x \in UNION {Of(s) : s \in Export!ToSet(ss)}
    <3>1. PICK k \in DOMAIN ch : x \in In(k)
      OBVIOUS
    <3>2. PICK p \in DOMAIN ch : o[p] = k
      BY <1>2
    <3>3. x \in Of(ss[p]) /\ ss[p] \in Export!ToSet(ss)
      BY <1>3, <1>5, <3>1, <3>2
    <3> QED BY <3>3
  <2> QED BY <2>1, <2>2
<1>7. Export!GltfKeys(m, c) = KeysOf(ch, Grain)
  BY <1>K, <1>S, <1>6
<1> QED BY <1>7 DEF ch

LEMMA FormatsFit ==
  ASSUME Grain \in Nat \ {0}, KeyGrain \in Nat \ {0}, IsModel(shape)
  PROVE  Export!FormatsAgree
<1> DEFINE m == shape
<1> SUFFICES ASSUME m.bones # <<>>, ~ Export!Orphans(m)
             PROVE  /\ Export!GeoCubes(m) = DOMAIN m.cubes
                    /\ \A c \in DOMAIN m.clips :
                         /\ Export!Hold(Export!GltfKeys(m, c), Export!Keyframes(m.clips[c]), Grain)
                         /\ Export!Hold(Export!GeckoKeys(m, c), Export!Keyframes(m.clips[c]), KeyGrain)
  BY DEF Export!FormatsAgree
<1>1. ASSUME NEW c \in DOMAIN m.clips
      PROVE  /\ Export!Hold(Export!GltfKeys(m, c), Export!Keyframes(m.clips[c]), Grain)
             /\ Export!Hold(Export!GeckoKeys(m, c), Export!Keyframes(m.clips[c]), KeyGrain)
  <2> DEFINE clip == m.clips[c]
             ch == Export!Channels(clip)
  <2>1. IsClip(clip)
    BY DEF IsModel
  <2>2. IsTracks(ch) /\ Export!Keyframes(clip) = FramesOf(ch)
    BY <2>1, ChannelsAre, FramesAre
  <2>3. Export!GltfKeys(m, c) = KeysOf(ch, Grain) /\ Export!GeckoKeys(m, c) = KeysOf(ch, KeyGrain)
    BY GltfKeysAre, GeckoKeysAre
  <2> HIDE DEF clip, ch
  <2>4. \A grain \in Nat \ {0} : Export!Hold(KeysOf(ch, grain), FramesOf(ch), grain)
    BY <2>2, KeysHold
  <2>5. Export!Hold(Export!GltfKeys(m, c), Export!Keyframes(clip), Grain)
    BY <2>2, <2>3, <2>4
  <2>6. Export!Hold(Export!GeckoKeys(m, c), Export!Keyframes(clip), KeyGrain)
    BY <2>2, <2>3, <2>4
  <2> QED BY <2>5, <2>6 DEF clip
<1>2. ASSUME NEW i \in DOMAIN m.cubes PROVE \E k \in DOMAIN m.bones : i \in Export!CubesOf(m, k)
  <2> DEFINE bone == m.cubes[i].bone
  <2>1. m.bones = Export!Bones(m)
    BY DEF Export!Bones
  <2>2. bone \in {d.bone : d \in Export!ToSet(m.cubes)} /\ bone # None
    BY DEF Export!ToSet, IsModel
  <2>3. Export!IndexOf(m.bones, bone) # 0
    BY <2>1, <2>2 DEF Export!Orphans
  <2>4. IsSequence(m.bones)
    BY DEF IsModel
  <2>5. PICK k \in DOMAIN m.bones : m.bones[k].name = bone
    <3> HIDE DEF bone
    <3> QED BY <2>3, <2>4, IndexIs
  <2> QED BY <2>5 DEF Export!CubesOf
<1>3. Export!GeoCubes(m) = DOMAIN m.cubes
  <2>1. \A k \in DOMAIN m.bones : Export!CubesOf(m, k) \in SUBSET (DOMAIN m.cubes)
    BY DEF Export!CubesOf
  <2> QED BY <1>2, <2>1 DEF Export!GeoCubes
<1> QED BY <1>1, <1>3

\* The files of an export are well formed for every model with a root bone and
\* one track for each channel of a bone, however many bones, cubes, meshes,
\* clips and keyframes it has: the sections of a glTF file lie apart and are
\* read to their last byte, every sampler refers to its own accessors, times
\* rise, and each node is in the scene once.  Without orphans, the GeckoLib files
\* hold every cube, and each format has a key for every keyframe and no other,
\* at most half of what it tells apart from its moment: the time epsilon in
\* glTF, four digits in GeckoLib, whatever these two are (gltfCodec.ts,
\* geckoGeoAnimCodec.ts).
THEOREM FilesAlwaysWellFormed == Spec => []FilesAreWellFormed
<1> DEFINE Shaped == part = "export" => shape \in Shape
<1>1. Init => Shaped
  BY DEF Init, Export!Init
<1>2. Shaped /\ [Next]_<<part, mvars, xvars>> => Shaped'
  <2> SUFFICES ASSUME Shaped, [Next]_<<part, mvars, xvars>> PROVE Shaped'
    OBVIOUS
  <2>1. CASE UNCHANGED <<part, mvars, xvars>>
    BY <2>1 DEF xvars
  <2>2. CASE Next
    <3>1. CASE part = "model"
      BY <2>2, <3>1 DEF Next
    <3>2. CASE part = "export"
      BY <2>2, <3>2 DEF Next, Export!Next, Export!Export, Export!Edit
    <3> QED BY <2>2, <3>1, <3>2 DEF Next
  <2> QED BY <2>1, <2>2
<1>3. Shaped => FilesAreWellFormed
  <2> SUFFICES ASSUME shape \in Shape
               PROVE  Export!GltfIsWellFormed /\ Export!FormatsAgree
    BY DEF FilesAreWellFormed
  <2>1. Grain \in Nat \ {0} /\ KeyGrain \in Nat \ {0} /\ IsModel(shape)
    BY ShapeAssumption
  <2> QED BY <2>1, GltfFits, FormatsFit
<1> QED BY <1>1, <1>2, <1>3, PTL DEF Spec

=============================================================================
