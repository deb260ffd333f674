--------------------------- MODULE RevisionStore ---------------------------
(***************************************************************************)
(* The revision tokens of a project and the bounded store of snapshots     *)
(* they name: packages/runtime/src/domain/revision/revisionStore.ts.       *)
(*                                                                         *)
(* A snapshot is split into the fields hashSnapshot lists (outline: bones, *)
(* cubes, textures, animations, name, dirty, ...) and the ones it leaves   *)
(* out (untracked: meshes, uvPixelsPerBlock).  Digest is the JSON text and *)
(* its 32-bit hash: any function, so tokens may even collide.              *)
(***************************************************************************)
EXTENDS Naturals, Sequences, FiniteSets

CONSTANTS
    Outline,        \* values of the fields hashSnapshot lists
    Untracked,      \* values of the fields it leaves out
    Revision,       \* revision tokens
    Digest,         \* hash of the listed fields
    RevisionLimit   \* REVISION_CACHE_LIMIT

ASSUME DigestAssumption == Digest \in [Outline -> Revision]
ASSUME LimitAssumption  == RevisionLimit \in Nat \ {0}

Snapshot == [outline : Outline, untracked : Untracked]

HashSnapshot(snapshot) == Digest[snapshot.outline]

\* order holds the tokens by first insertion; cache the snapshot of each.
Store == [order : Seq(Revision), cache : UNION {[D -> Snapshot] : D \in SUBSET Revision}]

EmptyStore == [order |-> <<>>, cache |-> [r \in {} |-> {}]]

Put(cache, revision, snapshot) ==
    [r \in DOMAIN cache \cup {revision} |-> IF r = revision THEN snapshot ELSE cache[r]]

Drop(cache, revision) == [r \in DOMAIN cache \ {revision} |-> cache[r]]

\* A token already cached keeps its place in the eviction order and has its
\* snapshot replaced; a new one evicts the oldest when the store is full.
Remember(store, snapshot, revision) ==
    IF revision \in DOMAIN store.cache
    THEN [store EXCEPT !.cache = Put(@, revision, snapshot)]
    ELSE LET grown == Append(store.order, revision)
         IN  IF Len(grown) > RevisionLimit
             THEN [order |-> Tail(grown),
                   cache |-> Put(Drop(store.cache, Head(grown)), revision, snapshot)]
             ELSE [order |-> grown,
                   cache |-> Put(store.cache, revision, snapshot)]

Track(store, snapshot) == Remember(store, snapshot, HashSnapshot(snapshot))

Cached(store, revision) == revision \in DOMAIN store.cache

\* What every operation of the store keeps: at most RevisionLimit snapshots,
\* the eviction order lists each of their tokens once, and a snapshot is filed
\* under its own hash.
Consistent(store) ==
    /\ Len(store.order) <= RevisionLimit
    /\ \A i, j \in 1..Len(store.order) : store.order[i] = store.order[j] => i = j
    /\ DOMAIN store.cache = {store.order[i] : i \in 1..Len(store.order)}
    /\ \A r \in DOMAIN store.cache : HashSnapshot(store.cache[r]) = r
=============================================================================
