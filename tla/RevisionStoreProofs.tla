------------------------ MODULE RevisionStoreProofs -------------------------
(***************************************************************************)
(* What remembering a snapshot does to the revision store, for every limit *)
(* and every hash.                                                         *)
(***************************************************************************)
EXTENDS RevisionStore, TLAPS

\* The revision of a snapshot is one of the tokens.
LEMMA HashIsRevision == \A s \in Snapshot : HashSnapshot(s) \in Revision
BY DigestAssumption DEF HashSnapshot, Snapshot

\* The store a project starts with.
LEMMA EmptyStoreConsistent == EmptyStore \in Store /\ Consistent(EmptyStore)
<1>1. EmptyStore.order = << >> /\ DOMAIN EmptyStore.cache = {}
  BY DEF EmptyStore
<1>2. EmptyStore.cache \in [{} -> Snapshot]
  BY DEF EmptyStore
<1>3. EmptyStore \in Store
  BY <1>2 DEF EmptyStore, Store
<1>4. Consistent(EmptyStore)
  BY <1>1, LimitAssumption DEF Consistent
<1> QED BY <1>3, <1>4

\* A cache with one more entry, or with one entry replaced, is a cache.
LEMMA PutCache ==
    ASSUME NEW D \in SUBSET Revision, NEW cache \in [D -> Snapshot],
           NEW r \in Revision, NEW s \in Snapshot
    PROVE  /\ Put(cache, r, s) \in [D \cup {r} -> Snapshot]
           /\ DOMAIN Put(cache, r, s) = D \cup {r}
           /\ Put(cache, r, s)[r] = s
           /\ \A q \in D : q # r => Put(cache, r, s)[q] = cache[q]
BY DEF Put

\* Remembering a snapshot under its own revision keeps the store consistent:
\* an eviction takes the oldest token out of the order and out of the cache.
LEMMA RememberKeepsConsistent ==
    ASSUME NEW st \in Store, Consistent(st), NEW s \in Snapshot
    PROVE  /\ Track(st, s) \in Store
           /\ Consistent(Track(st, s))
           /\ HashSnapshot(s) \in DOMAIN Track(st, s).cache
<1> DEFINE r == HashSnapshot(s)
           D == DOMAIN st.cache
           ord == st.order
           t == Track(st, s)
<1>0. r \in Revision
  BY HashIsRevision
<1>1. ord \in Seq(Revision) /\ D \in SUBSET Revision /\ st.cache \in [D -> Snapshot]
  BY DEF Store
<1>2. st = [order |-> ord, cache |-> st.cache]
  BY DEF Store
<1>3. t = Remember(st, s, r)
  BY DEF Track
<1>c. /\ Len(ord) <= RevisionLimit
      /\ \A i, j \in 1..Len(ord) : ord[i] = ord[j] => i = j
      /\ D = {ord[i] : i \in 1..Len(ord)}
      /\ \A q \in D : HashSnapshot(st.cache[q]) = q
  BY DEF Consistent
<1>4. CASE r \in D
  <2>1. t = [order |-> ord, cache |-> Put(st.cache, r, s)]
    BY <1>2, <1>3, <1>4 DEF Remember
  <2>2. /\ Put(st.cache, r, s) \in [D -> Snapshot]
        /\ DOMAIN Put(st.cache, r, s) = D
        /\ Put(st.cache, r, s)[r] = s
        /\ \A q \in D : q # r => Put(st.cache, r, s)[q] = st.cache[q]
    <3>1. D \cup {r} = D
      BY <1>4
    <3>2. \A f \in [D -> Snapshot] :
            /\ Put(f, r, s) \in [D \cup {r} -> Snapshot]
            /\ DOMAIN Put(f, r, s) = D \cup {r}
            /\ Put(f, r, s)[r] = s
            /\ \A q \in D : q # r => Put(f, r, s)[q] = f[q]
      <4> HIDE DEF r, D
      <4> QED BY <1>0, <1>1, PutCache, Zenon
    <3> HIDE DEF r, D
    <3> QED BY <1>1, <3>1, <3>2, Zenon
  <2>3. t \in Store
    BY <2>1, <2>2, <1>1 DEF Store
  <2>4. \A q \in D : HashSnapshot(Put(st.cache, r, s)[q]) = q
    BY <2>2, <1>c
  <2>5. Consistent(t)
    BY <2>1, <2>2, <2>4, <1>c DEF Consistent
  <2> QED BY <2>1, <2>2, <2>3, <2>5, <1>4
<1>5. CASE r \notin D /\ Len(ord) + 1 > RevisionLimit
  <2> DEFINE old == Head(Append(ord, r))
             kept == Drop(st.cache, old)
  <2>1. Len(ord) \in Nat /\ Len(ord) = RevisionLimit /\ Len(ord) >= 1
    BY <1>1, <1>c, <1>5, LimitAssumption
  <2>2. t = [order |-> Tail(Append(ord, r)), cache |-> Put(kept, r, s)]
    <3>1. Len(Append(ord, r)) > RevisionLimit
      BY <1>0, <1>1, <1>5
    <3> QED BY <1>3, <1>5, <3>1 DEF Remember
  <2>3. old = ord[1]
    BY <1>0, <1>1, <2>1
  <2>4. /\ Tail(Append(ord, r)) \in Seq(Revision)
        /\ Len(Tail(Append(ord, r))) = Len(ord)
        /\ \A i \in 1..Len(ord) :
              Tail(Append(ord, r))[i] = IF i = Len(ord) THEN r ELSE ord[i + 1]
    BY <1>0, <1>1, <2>1
  <2>5. /\ kept \in [D \ {old} -> Snapshot]
        /\ \A q \in D : q # old => kept[q] = st.cache[q]
    <3> HIDE DEF D, old
    <3>1. \A f \in [D -> Snapshot] :
            /\ Drop(f, old) \in [D \ {old} -> Snapshot]
            /\ \A q \in D : q # old => Drop(f, old)[q] = f[q]
      BY DEF Drop
    <3> QED BY <1>1, <3>1
  <2>6. /\ Put(kept, r, s) \in [(D \ {old}) \cup {r} -> Snapshot]
        /\ DOMAIN Put(kept, r, s) = (D \ {old}) \cup {r}
        /\ Put(kept, r, s)[r] = s
        /\ \A q \in D \ {old} : q # r => Put(kept, r, s)[q] = kept[q]
    <3>1. D \ {old} \in SUBSET Revision
      BY <1>1
    <3> DEFINE E == D \ {old}
    <3>2. \A f \in [E -> Snapshot] :
            /\ Put(f, r, s) \in [E \cup {r} -> Snapshot]
            /\ DOMAIN Put(f, r, s) = E \cup {r}
            /\ Put(f, r, s)[r] = s
            /\ \A q \in E : q # r => Put(f, r, s)[q] = f[q]
      <4>1. E \in SUBSET Revision
        BY <3>1
      <4> HIDE DEF E, r
      <4> QED BY <1>0, <4>1, PutCache, Zenon
    <3> QED BY <2>5, <3>2
  <2>7. (D \ {old}) \cup {r} \in SUBSET Revision
    BY <1>0, <1>1
  <2>8. t \in Store
    BY <2>2, <2>4, <2>6, <2>7 DEF Store
  <2> HIDE DEF old, kept
  <2>9. \A q \in (D \ {old}) \cup {r} : HashSnapshot(Put(kept, r, s)[q]) = q
    <3>1. \A q \in D \ {old} : q # r => HashSnapshot(Put(kept, r, s)[q]) = q
      BY <2>5, <2>6, <1>c
    <3> QED BY <3>1, <2>6
  <2>10. \A i \in 1..Len(ord) : ord[i] # r
    BY <1>c, <1>5
  <2>11. \A i, j \in 1..Len(ord) :
            Tail(Append(ord, r))[i] = Tail(Append(ord, r))[j] => i = j
    BY <2>1, <2>4, <2>10, <1>c
  <2>12. (D \ {old}) \cup {r} = {Tail(Append(ord, r))[i] : i \in 1..Len(ord)}
    <3>1. ASSUME NEW q \in D \ {old}
          PROVE  \E i \in 1..Len(ord) : Tail(Append(ord, r))[i] = q
      <4>1. PICK i \in 1..Len(ord) : ord[i] = q
        BY <1>c
      <4>2. i # 1
        BY <2>3, <4>1
      <4>3. i - 1 \in 1..Len(ord) /\ i - 1 # Len(ord) /\ (i - 1) + 1 = i
        BY <2>1, <4>2
      <4> QED BY <2>4, <4>1, <4>3
    <3>2. Tail(Append(ord, r))[Len(ord)] = r /\ Len(ord) \in 1..Len(ord)
      BY <2>1, <2>4
    <3>3. ASSUME NEW i \in 1..Len(ord)
          PROVE  Tail(Append(ord, r))[i] \in (D \ {old}) \cup {r}
      <4>1. CASE i = Len(ord)
        BY <2>4, <4>1
      <4>2. CASE i # Len(ord)
        <5>1. i + 1 \in 1..Len(ord) /\ i + 1 # 1 /\ 1 \in 1..Len(ord)
          BY <2>1, <4>2
        <5>2. ord[i + 1] \in D /\ ord[i + 1] # ord[1]
          BY <1>c, <5>1
        <5> QED BY <2>3, <2>4, <4>2, <5>2
      <4> QED BY <4>1, <4>2
    <3> QED BY <3>1, <3>2, <3>3
  <2>13. Len(t.order) <= RevisionLimit
    BY <2>1, <2>2, <2>4
  <2>14. Consistent(t)
    <3>1. t.order = Tail(Append(ord, r)) /\ t.cache = Put(kept, r, s)
      BY <2>2
    <3>2. Len(t.order) = Len(ord) /\ DOMAIN t.cache = (D \ {old}) \cup {r}
      BY <3>1, <2>4, <2>6
    <3>3. \A i, j \in 1..Len(t.order) : t.order[i] = t.order[j] => i = j
      BY <3>1, <3>2, <2>11
    <3>4. DOMAIN t.cache = {t.order[i] : i \in 1..Len(t.order)}
      BY <3>1, <3>2, <2>12
    <3>5. \A q \in DOMAIN t.cache : HashSnapshot(t.cache[q]) = q
      BY <3>1, <3>2, <2>9
    <3> HIDE DEF t
    <3> QED BY <2>13, <3>3, <3>4, <3>5 DEF Consistent
  <2> QED BY <2>2, <2>6, <2>8, <2>14
<1>6. CASE r \notin D /\ ~(Len(ord) + 1 > RevisionLimit)
  <2>1. t = [order |-> Append(ord, r), cache |-> Put(st.cache, r, s)]
    <3>1. ~(Len(Append(ord, r)) > RevisionLimit)
      BY <1>0, <1>1, <1>6
    <3> QED BY <1>3, <1>6, <3>1 DEF Remember
  <2>2. /\ Put(st.cache, r, s) \in [D \cup {r} -> Snapshot]
        /\ DOMAIN Put(st.cache, r, s) = D \cup {r}
        /\ Put(st.cache, r, s)[r] = s
        /\ \A q \in D : q # r => Put(st.cache, r, s)[q] = st.cache[q]
    <3> HIDE DEF r, D
    <3>1. \A f \in [D -> Snapshot] :
            /\ Put(f, r, s) \in [D \cup {r} -> Snapshot]
            /\ DOMAIN Put(f, r, s) = D \cup {r}
            /\ Put(f, r, s)[r] = s
            /\ \A q \in D : q # r => Put(f, r, s)[q] = f[q]
      BY <1>0, <1>1, PutCache, Zenon
    <3> QED BY <1>1, <3>1
  <2>3. /\ Append(ord, r) \in Seq(Revision)
        /\ Len(Append(ord, r)) = Len(ord) + 1
        /\ \A i \in 1..(Len(ord) + 1) :
              Append(ord, r)[i] = IF i = Len(ord) + 1 THEN r ELSE ord[i]
    BY <1>0, <1>1
  <2>4. D \cup {r} \in SUBSET Revision
    BY <1>0, <1>1
  <2>5. t \in Store
    BY <2>1, <2>2, <2>3, <2>4 DEF Store
  <2>6. \A q \in D \cup {r} : HashSnapshot(Put(st.cache, r, s)[q]) = q
    BY <2>2, <1>c
  <2>7. \A i \in 1..Len(ord) : ord[i] # r
    BY <1>c, <1>6
  <2>8. Len(ord) \in Nat
    BY <1>1
  <2>9. \A i, j \in 1..(Len(ord) + 1) : Append(ord, r)[i] = Append(ord, r)[j] => i = j
    BY <2>3, <2>7, <2>8, <1>c
  <2>10. D \cup {r} = {Append(ord, r)[i] : i \in 1..(Len(ord) + 1)}
    <3>1. ASSUME NEW q \in D
          PROVE  \E i \in 1..(Len(ord) + 1) : Append(ord, r)[i] = q
      <4>1. PICK i \in 1..Len(ord) : ord[i] = q
        BY <1>c
      <4>2. i \in 1..(Len(ord) + 1) /\ i # Len(ord) + 1
        BY <2>8
      <4> QED BY <2>3, <4>1, <4>2
    <3>2. Append(ord, r)[Len(ord) + 1] = r /\ Len(ord) + 1 \in 1..(Len(ord) + 1)
      BY <2>3, <2>8
    <3>3. ASSUME NEW i \in 1..(Len(ord) + 1)
          PROVE  Append(ord, r)[i] \in D \cup {r}
      <4>1. i = Len(ord) + 1 \/ i \in 1..Len(ord)
        BY <2>8
      <4> QED BY <2>3, <4>1, <1>c
    <3> QED BY <3>1, <3>2, <3>3
  <2>11. Len(t.order) <= RevisionLimit
    BY <2>1, <2>3, <2>8, <1>6, LimitAssumption
  <2>12. Consistent(t)
    <3>1. t.order = Append(ord, r) /\ t.cache = Put(st.cache, r, s)
      BY <2>1
    <3>2. Len(t.order) = Len(ord) + 1 /\ DOMAIN t.cache = D \cup {r}
      BY <3>1, <2>2, <2>3
    <3>3. \A i, j \in 1..Len(t.order) : t.order[i] = t.order[j] => i = j
      BY <3>1, <3>2, <2>9
    <3>4. DOMAIN t.cache = {t.order[i] : i \in 1..Len(t.order)}
      BY <3>1, <3>2, <2>10
    <3>5. \A q \in DOMAIN t.cache : HashSnapshot(t.cache[q]) = q
      BY <3>1, <3>2, <2>6
    <3> HIDE DEF t
    <3> QED BY <2>11, <3>3, <3>4, <3>5 DEF Consistent
  <2> QED BY <2>1, <2>2, <2>5, <2>12
<1> QED BY <1>4, <1>5, <1>6
=============================================================================
