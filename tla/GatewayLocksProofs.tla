------------------------- MODULE GatewayLocksProofs -------------------------
(***************************************************************************)
(* Mutual exclusion and order of the gateway's promise queues, for any     *)
(* number of calls, projects and payloads.                                 *)
(***************************************************************************)
EXTENDS GatewayLocks, TLAPS

\* The history lists each call that took the lock once.
Lined ==
    /\ \A i, j \in DOMAIN arrived : arrived[i] = arrived[j] => i = j
    /\ \A i \in DOMAIN arrived : pc[arrived[i]] # "idle"
    /\ \A c \in Call : pc[c] \in {"waiting", "released"} => c \in Range(arrived)

SameKey(i, j) == key[arrived[i]] = key[arrived[j]]

\* A call is chained to one of its key that came no earlier than any other
\* before it ...
Chained ==
    \A i, j \in DOMAIN arrived :
        j < i /\ SameKey(i, j) =>
            \E m \in DOMAIN arrived :
                j <= m /\ m < i /\ SameKey(i, m) /\ prev[arrived[i]] = arrived[m]

\* ... because the queue of a key is its last call.
Tails ==
    \A i \in DOMAIN arrived :
        /\ key[arrived[i]] \in DOMAIN queues
        /\ \E m \in DOMAIN arrived :
              i <= m /\ SameKey(i, m) /\ queues[key[arrived[i]]] = arrived[m]

\* Once a job has begun, all earlier ones of its key are over.
Ordered ==
    \A i, j \in DOMAIN arrived :
        j < i /\ SameKey(i, j) /\ pc[arrived[i]] # "waiting" => pc[arrived[j]] = "released"

\* The jobs in the second history have begun.
Begun == \A i \in DOMAIN started : started[i] \in Range(arrived) /\ pc[started[i]] # "waiting"

IInv == TypeOK /\ Lined /\ Chained /\ Tails /\ Ordered /\ Begun /\ StartsInOrder
-----------------------------------------------------------------------------
\* The project key of any payload is a string of the program.
LEMMA ProjectIdIsText ==
  ASSUME NEW p \in Payload
  PROVE  ReadProjectId(p) \in Text
<1>1. CASE Named(p) = {}
  BY <1>1, TextAssumption DEF ReadProjectId
<1>2. CASE Named(p) # {}
  <2> DEFINE first == CHOOSE i \in Named(p) : \A j \in Named(p) : i <= j
  <2>1. Named(p) \subseteq 1..5
    BY DEF Named, ProjectField
  <2>2. \E i \in Named(p) : \A j \in Named(p) : i <= j
    <3>1. CASE 1 \in Named(p)
      BY <2>1, <3>1
    <3>2. CASE 1 \notin Named(p) /\ 2 \in Named(p)
      BY <2>1, <3>2
    <3>3. CASE 1 \notin Named(p) /\ 2 \notin Named(p) /\ 3 \in Named(p)
      BY <2>1, <3>3
    <3>4. CASE 1 \notin Named(p) /\ 2 \notin Named(p) /\ 3 \notin Named(p) /\ 4 \in Named(p)
      BY <2>1, <3>4
    <3>5. CASE Named(p) \subseteq {5}
      BY <1>2, <3>5
    <3> QED BY <2>1, <3>1, <3>2, <3>3, <3>4, <3>5
  <2>3. first \in Named(p)
    BY <2>2
  <2> HIDE DEF first
  <2>4. first \in DOMAIN ProjectField /\ p[ProjectField[first]] # Absent
    BY <2>3 DEF Named
  <2>5. ProjectField[first] \in Range(ProjectField)
    BY <2>4 DEF Range
  <2>6. p[ProjectField[first]] \in Text
    BY <2>4, <2>5, CallAssumption
  <2>7. Trim[p[ProjectField[first]]] \in Text
    BY <2>6, TextAssumption
  <2> QED BY <1>2, <2>7 DEF ReadProjectId, first
<1> QED BY <1>1, <1>2
-----------------------------------------------------------------------------
\* A step that moves one call between two places, neither of them idle, and
\* changes nothing else, keeps the lines.
LEMMA MoveStep ==
  ASSUME IInv,
         NEW c \in Call, NEW place \in {"settled", "rejected", "hung", "released"},
         pc[c] \in {"running", "settled", "rejected"},
         place = "released" => c \in Range(arrived),
         pc' = [pc EXCEPT ![c] = place],
         UNCHANGED <<queues, request, key, prev, arrived, started>>
  PROVE  IInv'
<1>1. TypeOK'
  BY DEF IInv, TypeOK, Place
<1>2. \A d \in Call : pc'[d] = IF d = c THEN place ELSE pc[d]
  BY DEF IInv, TypeOK
<1>3. \A i \in DOMAIN arrived : arrived[i] \in Call
  BY DEF IInv, TypeOK
<1>4. Lined'
  BY <1>2, <1>3 DEF IInv, Lined, Range
<1>5. Chained' /\ Tails'
  BY DEF IInv, Chained, Tails, SameKey
<1>6. Ordered'
  BY <1>2, <1>3 DEF IInv, Ordered, SameKey
<1>7. Begun'
  BY <1>2, <1>3 DEF IInv, Begun, Range
<1>8. StartsInOrder'
  BY DEF IInv, StartsInOrder, Before
<1> QED BY <1>1, <1>4, <1>5, <1>6, <1>7, <1>8 DEF IInv

\* A call that does not take the lock disturbs nobody.
LEMMA BypassStep ==
  ASSUME IInv,
         NEW c \in Call, NEW tool \in ToolName, NEW payload \in Payload,
         Refuse(c, tool, payload) \/ RunReadOnly(c, tool, payload)
  PROVE  IInv'
<1>1. PICK place \in {"refused", "running"} :
        /\ pc[c] = "idle" /\ pc' = [pc EXCEPT ![c] = place]
        /\ request' = [request EXCEPT ![c] = [tool |-> tool, payload |-> payload]]
        /\ key' = [key EXCEPT ![c] = ReadProjectId(payload)]
        /\ UNCHANGED <<queues, prev, arrived, started>>
  BY DEF Refuse, RunReadOnly, Asks
<1>2. ReadProjectId(payload) \in Text
  BY ProjectIdIsText
<1>3. TypeOK'
  BY <1>1, <1>2 DEF IInv, TypeOK, Place
<1>4. /\ \A d \in Call : pc'[d] = IF d = c THEN place ELSE pc[d]
      /\ \A d \in Call : d # c => key'[d] = key[d]
  BY <1>1 DEF IInv, TypeOK
<1>5. \A i \in DOMAIN arrived : arrived[i] \in Call /\ arrived[i] # c
  BY <1>1 DEF IInv, TypeOK, Lined
<1>6. \A i, j \in DOMAIN arrived : SameKey(i, j)' <=> SameKey(i, j)
  BY <1>1, <1>4, <1>5 DEF SameKey
<1>7. Lined'
  BY <1>1, <1>4, <1>5 DEF IInv, Lined, Range
<1>8. Chained'
  BY <1>1, <1>6 DEF IInv, Chained
<1>9. Tails'
  <2>1. \A i \in DOMAIN arrived : key'[arrived[i]] = key[arrived[i]]
    BY <1>4, <1>5
  <2> QED BY <1>1, <1>6, <2>1 DEF IInv, Tails
<1>10. Ordered'
  BY <1>1, <1>4, <1>5, <1>6 DEF IInv, Ordered
<1>11. \A i \in DOMAIN started : started[i] \in Call /\ started[i] # c
  BY <1>5 DEF IInv, Begun, Range
<1>12. Begun'
  BY <1>1, <1>4, <1>11 DEF IInv, Begun
<1>13. StartsInOrder'
  BY <1>1, <1>4, <1>11 DEF IInv, StartsInOrder, Before
<1> QED BY <1>3, <1>7, <1>8, <1>9, <1>10, <1>12, <1>13 DEF IInv

\* A call that takes the lock is chained to the last call of its key.
LEMMA LockStep ==
  ASSUME IInv,
         NEW c \in Call, NEW tool \in ToolName, NEW payload \in Payload,
         RunLocked(c, tool, payload)
  PROVE  IInv'
<1> DEFINE k == ReadProjectId(payload)
<1>1. k \in Text
  BY ProjectIdIsText
<1> HIDE DEF k
<1>2. /\ pc[c] = "idle" /\ pc' = [pc EXCEPT ![c] = "waiting"]
      /\ request' = [request EXCEPT ![c] = [tool |-> tool, payload |-> payload]]
      /\ key' = [key EXCEPT ![c] = k]
      /\ prev' = [prev EXCEPT ![c] = IF k \in DOMAIN queues THEN queues[k] ELSE NoCall]
      /\ queues' = [q \in DOMAIN queues \cup {k} |-> IF q = k THEN c ELSE queues[q]]
      /\ arrived' = Append(arrived, c) /\ started' = started
  BY DEF RunLocked, Asks, k
<1>3. TypeOK'
  BY <1>1, <1>2 DEF IInv, TypeOK, Place
<1>4. /\ \A d \in Call : pc'[d] = IF d = c THEN "waiting" ELSE pc[d]
      /\ \A d \in Call : key'[d] = IF d = c THEN k ELSE key[d]
      /\ \A d \in Call : d # c => prev'[d] = prev[d]
      /\ prev'[c] = IF k \in DOMAIN queues THEN queues[k] ELSE NoCall
      /\ DOMAIN queues' = DOMAIN queues \cup {k} /\ queues'[k] = c
      /\ \A q \in DOMAIN queues : q # k => queues'[q] = queues[q]
  BY <1>2 DEF IInv, TypeOK
<1>5. PICK n \in Nat \ {0} :
        /\ DOMAIN arrived = 1..(n - 1) /\ DOMAIN arrived' = 1..n
        /\ arrived'[n] = c /\ \A i \in DOMAIN arrived : arrived'[i] = arrived[i]
  <2>1. /\ Len(arrived) + 1 \in Nat \ {0}
        /\ DOMAIN arrived = 1..((Len(arrived) + 1) - 1)
        /\ DOMAIN arrived' = 1..(Len(arrived) + 1) /\ arrived'[Len(arrived) + 1] = c
        /\ \A i \in DOMAIN arrived : arrived'[i] = arrived[i]
    BY <1>2 DEF IInv, TypeOK
  <2> QED BY <2>1
<1>6. \A i \in DOMAIN arrived : arrived[i] \in Call /\ arrived[i] # c
  BY <1>2 DEF IInv, TypeOK, Lined
<1>7. /\ \A i, j \in DOMAIN arrived : SameKey(i, j)' <=> SameKey(i, j)
      /\ \A i \in DOMAIN arrived : SameKey(n, i)' <=> key[arrived[i]] = k
      /\ \A i \in DOMAIN arrived : SameKey(i, n)' <=> key[arrived[i]] = k
  <2>1. \A i \in DOMAIN arrived : key'[arrived'[i]] = key[arrived[i]]
    BY <1>4, <1>5, <1>6
  <2>2. key'[arrived'[n]] = k
    BY <1>4, <1>5
  <2> QED BY <2>1, <2>2 DEF SameKey
<1>8. \A i \in DOMAIN arrived' : i = n \/ i \in DOMAIN arrived
  BY <1>5
<1>9. Lined'
  <2>1. \A i, j \in DOMAIN arrived' : arrived'[i] = arrived'[j] => i = j
    BY <1>5, <1>6, <1>8 DEF IInv, Lined
  <2>2. \A i \in DOMAIN arrived' : pc'[arrived'[i]] # "idle"
    BY <1>4, <1>5, <1>6, <1>8 DEF IInv, Lined
  <2>3. ASSUME NEW d \in Call, pc'[d] \in {"waiting", "released"}
        PROVE  d \in Range(arrived')
    <3>1. CASE d = c
      BY <1>5, <3>1 DEF Range
    <3>2. CASE d # c
      <4>1. PICK i \in DOMAIN arrived : arrived[i] = d
        BY <1>4, <2>3, <3>2 DEF IInv, Lined, Range
      <4> QED BY <1>5, <4>1 DEF Range
    <3> QED BY <3>1, <3>2
  <2> QED BY <2>1, <2>2, <2>3 DEF Lined
<1>10. Chained'
  <2> SUFFICES ASSUME NEW i \in DOMAIN arrived', NEW j \in DOMAIN arrived', j < i, SameKey(i, j)'
               PROVE  \E m \in DOMAIN arrived' :
                        j <= m /\ m < i /\ SameKey(i, m)' /\ prev'[arrived'[i]] = arrived'[m]
    BY DEF Chained
  <2>1. j \in DOMAIN arrived
    BY <1>5, <1>8
  <2>2. CASE i \in DOMAIN arrived
    <3>1. PICK m \in DOMAIN arrived :
            j <= m /\ m < i /\ SameKey(i, m) /\ prev[arrived[i]] = arrived[m]
      BY <1>7, <2>1, <2>2 DEF IInv, Chained
    <3>2. m \in DOMAIN arrived' /\ prev'[arrived'[i]] = arrived'[m]
      BY <1>4, <1>5, <1>6, <2>2, <3>1
    <3> QED BY <1>7, <2>2, <3>1, <3>2
  <2>3. CASE i = n
    <3>1. key[arrived[j]] = k
      BY <1>7, <2>1, <2>3
    <3>2. PICK m \in DOMAIN arrived :
            j <= m /\ SameKey(j, m) /\ queues[k] = arrived[m] /\ k \in DOMAIN queues
      BY <2>1, <3>1 DEF IInv, Tails
    <3>3. key[arrived[m]] = k
      BY <3>1, <3>2 DEF SameKey
    <3>4. m \in DOMAIN arrived' /\ m < n /\ prev'[arrived'[n]] = arrived'[m]
      BY <1>4, <1>5, <3>2
    <3> QED BY <1>7, <2>3, <3>2, <3>3, <3>4
  <2> QED BY <1>8, <2>2, <2>3
<1>11. Tails'
  <2> SUFFICES ASSUME NEW i \in DOMAIN arrived'
               PROVE  /\ key'[arrived'[i]] \in DOMAIN queues'
                      /\ \E m \in DOMAIN arrived' :
                           i <= m /\ SameKey(i, m)' /\ queues'[key'[arrived'[i]]] = arrived'[m]
    BY DEF Tails
  <2>1. CASE key'[arrived'[i]] = k
    <3>1. SameKey(i, n)' /\ i <= n /\ n \in DOMAIN arrived'
      BY <1>4, <1>5, <2>1 DEF SameKey
    <3> QED BY <1>4, <1>5, <2>1, <3>1
  <2>2. CASE key'[arrived'[i]] # k
    <3>1. i \in DOMAIN arrived /\ key'[arrived'[i]] = key[arrived[i]]
      BY <1>4, <1>5, <1>6, <1>8, <2>2
    <3>2. PICK m \in DOMAIN arrived :
            i <= m /\ SameKey(i, m) /\ queues[key[arrived[i]]] = arrived[m]
      BY <3>1 DEF IInv, Tails
    <3>3. key[arrived[i]] \in DOMAIN queues
      BY <3>1 DEF IInv, Tails
    <3>4. m \in DOMAIN arrived' /\ queues'[key'[arrived'[i]]] = arrived'[m]
      BY <1>4, <1>5, <2>2, <3>1, <3>2, <3>3
    <3> QED BY <1>4, <1>7, <3>1, <3>2, <3>3, <3>4
  <2> QED BY <2>1, <2>2
<1>12. Ordered'
  <2> SUFFICES ASSUME NEW i \in DOMAIN arrived', NEW j \in DOMAIN arrived', j < i,
                      SameKey(i, j)', pc'[arrived'[i]] # "waiting"
               PROVE  pc'[arrived'[j]] = "released"
    BY DEF Ordered
  <2>1. i \in DOMAIN arrived
    BY <1>4, <1>5, <1>8
  <2>2. j \in DOMAIN arrived
    BY <1>5, <1>8, <2>1
  <2> QED BY <1>4, <1>5, <1>6, <1>7, <2>1, <2>2 DEF IInv, Ordered
<1>13. \A i \in DOMAIN started : started[i] \in Call /\ started[i] # c
  BY <1>6 DEF IInv, Begun, Range
<1>14. Begun'
  <2>1. Range(arrived) \subseteq Range(arrived')
    BY <1>5 DEF Range
  <2> QED BY <1>2, <1>4, <1>13, <2>1 DEF IInv, Begun
<1>15. StartsInOrder'
  <2> SUFFICES ASSUME NEW i \in DOMAIN started, NEW j \in DOMAIN started, i < j,
                      key'[started[i]] = key'[started[j]]
               PROVE  Before(arrived', started[i], started[j])
    BY <1>2 DEF StartsInOrder
  <2>1. Before(arrived, started[i], started[j])
    BY <1>4, <1>13 DEF IInv, StartsInOrder
  <2>2. PICK p, q \in DOMAIN arrived : p < q /\ arrived[p] = started[i] /\ arrived[q] = started[j]
    BY <2>1 DEF Before
  <2>3. /\ p \in DOMAIN arrived' /\ q \in DOMAIN arrived' /\ p < q
        /\ arrived'[p] = started[i] /\ arrived'[q] = started[j]
    BY <1>5, <2>2
  <2> QED BY <2>3 DEF Before
<1> QED BY <1>3, <1>9, <1>10, <1>11, <1>12, <1>14, <1>15 DEF IInv

\* The call a job is chained to is over, and that one began after all the
\* others of its key were.
LEMMA EarlierAreOver ==
  ASSUME IInv, NEW c \in Call, BeginJob(c), NEW n \in DOMAIN arrived, arrived[n] = c,
         NEW j \in DOMAIN arrived, j < n, SameKey(n, j)
  PROVE  pc[arrived[j]] = "released"
<1>1. prev[c] \in {NoCall} \cup {d \in Call : pc[d] = "released"}
  BY DEF BeginJob
<1>2. PICK m \in DOMAIN arrived : j <= m /\ m < n /\ SameKey(n, m) /\ prev[c] = arrived[m]
  BY DEF IInv, Chained
<1>3. \A i \in DOMAIN arrived : arrived[i] \in Call /\ i \in Nat
  BY DEF IInv, TypeOK
<1>4. pc[arrived[m]] = "released"
  BY <1>1, <1>2, <1>3, CallAssumption
<1>5. CASE j = m
  BY <1>4, <1>5
<1>6. CASE j < m
  BY <1>2, <1>4, <1>6 DEF IInv, Ordered, SameKey
<1> QED BY <1>2, <1>3, <1>5, <1>6

\* A job begins only when every earlier one of its key is over.
LEMMA BeginStep ==
  ASSUME IInv, NEW c \in Call, BeginJob(c)
  PROVE  IInv'
<1>1. /\ prev[c] \in {NoCall} \cup {d \in Call : pc[d] = "released"}
      /\ pc[c] = "waiting" /\ pc' = [pc EXCEPT ![c] = "running"]
      /\ started' = Append(started, c)
      /\ UNCHANGED <<queues, request, key, prev, arrived>>
  BY DEF BeginJob, Begin
<1>2. TypeOK'
  BY <1>1 DEF IInv, TypeOK, Place
<1>3. \A d \in Call : pc'[d] = IF d = c THEN "running" ELSE pc[d]
  BY <1>1 DEF IInv, TypeOK
<1>4. \A i \in DOMAIN arrived : arrived[i] \in Call
  BY DEF IInv, TypeOK
<1>5. PICK n \in DOMAIN arrived : arrived[n] = c
  BY <1>1 DEF IInv, Lined, Range
<1>6. \A i \in DOMAIN arrived : i \in Nat
  BY DEF IInv, TypeOK
<1>7. \A j \in DOMAIN arrived : j < n /\ SameKey(n, j) => pc[arrived[j]] = "released"
  BY <1>5, EarlierAreOver
<1>8. Lined'
  BY <1>1, <1>3, <1>4 DEF IInv, Lined, Range
<1>9. Chained' /\ Tails'
  BY <1>1 DEF IInv, Chained, Tails, SameKey
<1>10. Ordered'
  <2> SUFFICES ASSUME NEW i \in DOMAIN arrived, NEW j \in DOMAIN arrived, j < i,
                      SameKey(i, j), pc'[arrived[i]] # "waiting"
               PROVE  pc'[arrived[j]] = "released"
    BY <1>1 DEF Ordered, SameKey
  <2>1. CASE i = n
    <3>1. pc[arrived[j]] = "released"
      BY <1>7, <2>1
    <3> QED BY <1>1, <1>3, <1>4, <3>1
  <2>2. CASE i # n
    <3>1. arrived[i] # c
      BY <1>5, <2>2 DEF IInv, Lined
    <3>2. pc[arrived[j]] = "released"
      BY <1>3, <1>4, <3>1 DEF IInv, Ordered
    <3> QED BY <1>1, <1>3, <1>4, <3>2
  <2> QED BY <2>1, <2>2
<1>11. /\ DOMAIN started' = 1..(Len(started) + 1) /\ DOMAIN started = 1..Len(started)
       /\ Len(started) \in Nat /\ started'[Len(started) + 1] = c
       /\ \A i \in DOMAIN started : started'[i] = started[i]
  BY <1>1 DEF IInv, TypeOK
<1>12. \A i \in DOMAIN started' : i = Len(started) + 1 \/ i \in DOMAIN started
  BY <1>11
<1>13. c \in Range(arrived)
  BY <1>5 DEF Range
<1>14. \A i \in DOMAIN started : started[i] \in Call
  BY DEF IInv, TypeOK
<1>15. Begun'
  BY <1>1, <1>3, <1>11, <1>12, <1>13, <1>14 DEF IInv, Begun
<1>16. StartsInOrder'
  <2> SUFFICES ASSUME NEW i \in DOMAIN started', NEW j \in DOMAIN started', i < j,
                      key[started'[i]] = key[started'[j]]
               PROVE  Before(arrived, started'[i], started'[j])
    BY <1>1 DEF StartsInOrder
  <2>1. i \in DOMAIN started
    BY <1>11, <1>12
  <2>2. CASE j \in DOMAIN started
    BY <1>11, <2>1, <2>2 DEF IInv, StartsInOrder
  <2>3. CASE j = Len(started) + 1
    <3>1. started'[j] = c /\ started'[i] = started[i] /\ key[started[i]] = key[c]
      BY <1>11, <2>1, <2>3
    <3>2. PICK p \in DOMAIN arrived : arrived[p] = started[i]
      BY <2>1 DEF IInv, Begun, Range
    <3>3. pc[arrived[p]] # "waiting" /\ SameKey(p, n)
      BY <1>5, <2>1, <3>1, <3>2 DEF IInv, Begun, SameKey
    <3>4. p # n
      BY <1>1, <1>5, <3>3
    <3>5. ~(n < p)
      BY <1>1, <1>5, <3>3 DEF IInv, Ordered
    <3>6. p < n
      BY <1>6, <3>4, <3>5
    <3> QED BY <1>5, <3>1, <3>2, <3>6 DEF Before
  <2> QED BY <1>12, <2>2, <2>3
<1> QED BY <1>2, <1>8, <1>9, <1>10, <1>15, <1>16 DEF IInv
-----------------------------------------------------------------------------

\* The invariant holds before any call.
LEMMA InitIInv == Init => IInv
<1> SUFFICES ASSUME Init
             PROVE  IInv
  OBVIOUS
<1>1. TypeOK
  BY DEF Init, TypeOK, Place
<1>2. DOMAIN arrived = {} /\ DOMAIN started = {}
  BY DEF Init
<1> QED BY <1>1, <1>2 DEF Init, IInv, Lined, Chained, Tails, Ordered, Begun, StartsInOrder

\* Every step keeps it.
LEMMA NextIInv == IInv /\ [Next]_vars => IInv'
<1> SUFFICES ASSUME IInv, [Next]_vars
             PROVE  IInv'
  OBVIOUS
<1>1. CASE UNCHANGED vars
  BY <1>1 DEF vars, IInv, TypeOK, Lined, Chained, Tails, Ordered, Begun, SameKey,
              StartsInOrder, Before
<1>2. ASSUME NEW c \in Call, Arrive(c)
      PROVE  IInv'
  BY <1>2, BypassStep, LockStep DEF Arrive
<1>3. ASSUME NEW c \in Call, BeginJob(c)
      PROVE  IInv'
  BY <1>3, BeginStep
<1>4. ASSUME NEW c \in Call, Settle(c)
      PROVE  IInv'
  BY <1>4, MoveStep DEF Settle
<1>5. ASSUME NEW c \in Call, Release(c)
      PROVE  IInv'
  BY <1>5, MoveStep DEF Release
<1> QED BY <1>1, <1>2, <1>3, <1>4, <1>5 DEF Next

\* Two jobs of a key that run at the same time would be at two places of the
\* history, and the earlier one would be over.
LEMMA IInvExcludes == IInv => OneWriterPerKey
<1> SUFFICES ASSUME IInv, NEW c \in Writers, NEW d \in Writers, key[c] = key[d]
             PROVE  c = d
  BY DEF OneWriterPerKey
<1>1. PICK i \in DOMAIN arrived : arrived[i] = c
  BY DEF Writers, Range
<1>2. PICK j \in DOMAIN arrived : arrived[j] = d
  BY DEF Writers, Range
<1>3. i \in Nat /\ j \in Nat
  BY DEF IInv, TypeOK
<1>4. pc[c] \in {"running", "hung"} /\ pc[d] \in {"running", "hung"}
  BY DEF Writers
<1>5. ~(i < j) /\ ~(j < i)
  BY <1>1, <1>2, <1>4 DEF IInv, Ordered, SameKey
<1> QED BY <1>1, <1>2, <1>3, <1>5
-----------------------------------------------------------------------------
(* The refinement of FifoLock *)

\* A step that moves calls outside the line, or to another place in it, is none
\* of the lock's.
LEMMA LockStutters ==
  ASSUME IInv, NEW c \in Call, NEW from, NEW to,
         pc[c] = from, pc' = [pc EXCEPT ![c] = to],
         UNCHANGED arrived, \A d \in Call \ {c} : key'[d] = key[d],
         c \in Range(arrived) => /\ key'[c] = key[c]
                                 /\ from \in {"waiting", "running", "hung"} <=> to \in {"waiting", "running", "hung"}
                                 /\ from \in {"running", "hung"} <=> to \in {"running", "hung"}
  PROVE  UNCHANGED Lock!vars
<1>1. /\ Range(arrived) \subseteq Call
      /\ \A d \in Call : pc'[d] = IF d = c THEN to ELSE pc[d]
  BY DEF IInv, TypeOK, Range
<1>2. InLine' = InLine /\ Writers' = Writers
  <2>1. \A d \in Range(arrived) : /\ pc'[d] \in {"waiting", "running", "hung"} <=> pc[d] \in {"waiting", "running", "hung"}
                                  /\ pc'[d] \in {"running", "hung"} <=> pc[d] \in {"running", "hung"}
    BY <1>1
  <2> QED BY <2>1 DEF InLine, Writers
<1>3. \A d \in InLine : key'[d] = key[d]
  BY <1>1 DEF InLine
<1>4. Line' = Line
  BY <1>2, <1>3 DEF Line
<1>5. Ahead' = Ahead
  BY <1>2, <1>3 DEF Ahead, Before
<1> QED BY <1>2, <1>4, <1>5 DEF Lock!vars

\* A mutating call joins the line of its key behind all that are in it.
LEMMA LockJoins ==
  ASSUME IInv, NEW c \in Call, NEW tool \in ToolName, NEW payload \in Payload, RunLocked(c, tool, payload)
  PROVE  \E k \in Text : Lock!Join(k, c)
<1> DEFINE k == ReadProjectId(payload)
<1>1. k \in Text
  BY ProjectIdIsText
<1> HIDE DEF k
<1>2. /\ pc[c] = "idle" /\ pc' = [pc EXCEPT ![c] = "waiting"]
      /\ key' = [key EXCEPT ![c] = k] /\ arrived' = Append(arrived, c)
  BY DEF RunLocked, Asks, k
<1>3. /\ \A d \in Call : pc'[d] = IF d = c THEN "waiting" ELSE pc[d]
      /\ \A d \in Call : key'[d] = IF d = c THEN k ELSE key[d]
      /\ Range(arrived) \subseteq Call /\ c \notin Range(arrived)
  BY <1>2 DEF IInv, TypeOK, Lined, Range
<1>4. PICK n \in Nat \ {0} :
        /\ DOMAIN arrived = 1..(n - 1) /\ DOMAIN arrived' = 1..n
        /\ arrived'[n] = c /\ \A i \in DOMAIN arrived : arrived'[i] = arrived[i]
  <2>1. /\ Len(arrived) + 1 \in Nat \ {0}
        /\ DOMAIN arrived = 1..((Len(arrived) + 1) - 1)
        /\ DOMAIN arrived' = 1..(Len(arrived) + 1) /\ arrived'[Len(arrived) + 1] = c
        /\ \A i \in DOMAIN arrived : arrived'[i] = arrived[i]
    BY <1>2 DEF IInv, TypeOK
  <2> QED BY <2>1
<1>5. Range(arrived') = Range(arrived) \cup {c}
  <2>1. \A i \in DOMAIN arrived' : i = n \/ i \in DOMAIN arrived
    BY <1>4
  <2>2. \A i \in DOMAIN arrived : i \in DOMAIN arrived'
    BY <1>4
  <2>3. n \in DOMAIN arrived'
    BY <1>4
  <2> QED BY <1>4, <2>1, <2>2, <2>3 DEF Range
<1>6. InLine' = InLine \cup {c} /\ Writers' = Writers /\ c \notin InLine
  BY <1>3, <1>5 DEF InLine, Writers
<1>7. Line' = [Line EXCEPT ![k] = Line[k] \cup {c}]
  <2>1. \A q \in Text : Line'[q] = IF q = k THEN Line[k] \cup {c} ELSE Line[q]
    BY <1>1, <1>3, <1>6 DEF Line, InLine
  <2>2. Line' = [q \in Text |-> Line'[q]]
    BY DEF Line
  <2>3. [Line EXCEPT ![k] = Line[k] \cup {c}] = [q \in Text |-> IF q = k THEN Line[k] \cup {c} ELSE Line[q]]
    BY DEF Line
  <2> QED BY <2>1, <2>2, <2>3
<1>8. /\ \A d \in Range(arrived) : Before(arrived', d, c)
      /\ \A d \in Call, e \in Range(arrived) : Before(arrived', d, e) <=> Before(arrived, d, e)
  <2>1. ASSUME NEW d \in Range(arrived) PROVE Before(arrived', d, c)
    <3>1. PICK i \in DOMAIN arrived : arrived[i] = d
      BY DEF Range
    <3> QED BY <1>4, <3>1 DEF Before
  <2>2. ASSUME NEW d \in Call, NEW e \in Range(arrived), Before(arrived', d, e) PROVE Before(arrived, d, e)
    <3>1. PICK i, j \in DOMAIN arrived' : i < j /\ arrived'[i] = d /\ arrived'[j] = e
      BY <2>2 DEF Before
    <3>2. j # n
      BY <1>3, <1>4, <3>1
    <3>3. i \in DOMAIN arrived /\ j \in DOMAIN arrived
      BY <1>4, <3>1, <3>2
    <3> QED BY <1>4, <3>1, <3>3 DEF Before
  <2>3. ASSUME NEW d \in Call, NEW e \in Range(arrived), Before(arrived, d, e) PROVE Before(arrived', d, e)
    <3>1. PICK i, j \in DOMAIN arrived : i < j /\ arrived[i] = d /\ arrived[j] = e
      BY <2>3 DEF Before
    <3>2. i \in DOMAIN arrived' /\ j \in DOMAIN arrived'
      BY <1>4
    <3> QED BY <1>4, <3>1, <3>2 DEF Before
  <2>4. ~Before(arrived, c, c)
    BY <1>3 DEF Before, Range
  <2> QED BY <2>1, <2>2, <2>3
<1>9. Ahead' = [Ahead EXCEPT ![c] = Line[k]]
  <2>1. ASSUME NEW d \in Call PROVE Ahead'[d] = IF d = c THEN Line[k] ELSE Ahead[d]
    <3>1. InLine \subseteq Range(arrived)
      BY DEF InLine
    <3>2. Ahead'[d] = {e \in InLine' : d \in InLine' /\ key'[e] = key'[d] /\ Before(arrived', e, d)}
      BY DEF Ahead
    <3>3. CASE d = c
      <4>1. ~Before(arrived', c, c)
        <5> SUFFICES ASSUME NEW i \in DOMAIN arrived', NEW j \in DOMAIN arrived', i < j, arrived'[i] = c, arrived'[j] = c
                     PROVE  FALSE
          BY DEF Before
        <5>1. i \in DOMAIN arrived /\ arrived[i] = c
          BY <1>4
        <5> QED BY <1>3, <5>1 DEF Range
      <4>2. Ahead'[d] = {e \in InLine : key[e] = k}
        BY <1>3, <1>6, <1>8, <3>1, <3>2, <3>3, <4>1
      <4> QED BY <1>1, <3>3, <4>2 DEF Line
    <3>4. CASE d # c
      <4>1. ASSUME d \in InLine PROVE ~Before(arrived', c, d)
        <5>1. ~Before(arrived, c, d)
          BY <1>3 DEF Before, Range
        <5> QED BY <1>8, <3>1, <4>1, <5>1
      <4>2. Ahead'[d] = {e \in InLine : d \in InLine /\ key[e] = key[d] /\ Before(arrived, e, d)}
        BY <1>3, <1>6, <1>8, <3>1, <3>2, <3>4, <4>1
      <4> QED BY <3>4, <4>2 DEF Ahead
    <3> QED BY <3>3, <3>4
  <2>2. Ahead' = [d \in Call |-> Ahead'[d]]
    BY DEF Ahead
  <2>3. [Ahead EXCEPT ![c] = Line[k]] = [d \in Call |-> IF d = c THEN Line[k] ELSE Ahead[d]]
    BY DEF Ahead
  <2> QED BY <2>1, <2>2, <2>3
<1>10. ~Lock!InLine(c)
  BY <1>6 DEF Lock!InLine, Line
<1> QED BY <1>1, <1>6, <1>7, <1>9, <1>10 DEF Lock!Join

\* A job that begins enters: of those before it in its line none is left.
LEMMA LockEnters ==
  ASSUME IInv, NEW c \in Call, BeginJob(c)
  PROVE  Lock!Enter(c)
<1>1. /\ pc[c] = "waiting" /\ pc' = [pc EXCEPT ![c] = "running"] /\ UNCHANGED <<key, arrived>>
  BY DEF BeginJob, Begin
<1>2. /\ Range(arrived) \subseteq Call /\ c \in Range(arrived) /\ key[c] \in Text
      /\ \A d \in Call : pc'[d] = IF d = c THEN "running" ELSE pc[d]
  <2>1. \A i \in DOMAIN arrived : key[arrived[i]] \in Text
    BY DEF IInv, TypeOK, Tails
  <2> QED BY <1>1, <2>1 DEF IInv, TypeOK, Lined, Range
<1>3. InLine' = InLine /\ c \in InLine /\ c \notin Writers /\ Writers' = Writers \cup {c}
  BY <1>1, <1>2 DEF InLine, Writers
<1>4. Line' = Line /\ Ahead' = Ahead
  BY <1>1, <1>3 DEF Line, Ahead, Before
<1>5. Ahead[c] = {}
  <2> SUFFICES ASSUME NEW d \in InLine, key[d] = key[c], Before(arrived, d, c) PROVE FALSE
    BY DEF Ahead
  <2>1. PICK j, n \in DOMAIN arrived : j < n /\ arrived[j] = d /\ arrived[n] = c
    BY DEF Before
  <2>2. pc[d] = "released"
    BY <2>1, EarlierAreOver DEF SameKey
  <2> QED BY <2>2 DEF InLine
<1>6. Lock!InLine(c)
  BY <1>2, <1>3 DEF Lock!InLine, Line
<1> QED BY <1>3, <1>4, <1>5, <1>6 DEF Lock!Enter

\* A call whose promise settles leaves.
LEMMA LockLeaves ==
  ASSUME IInv, NEW c \in Range(arrived), pc[c] = "running",
         NEW place \in {"settled", "rejected"}, pc' = [pc EXCEPT ![c] = place], UNCHANGED <<key, arrived>>
  PROVE  Lock!Leave(c)
<1>1. /\ Range(arrived) \subseteq Call
      /\ \A d \in Call : pc'[d] = IF d = c THEN place ELSE pc[d]
  BY DEF IInv, TypeOK, Range
<1>2. InLine' = InLine \ {c} /\ c \in Writers /\ Writers' = Writers \ {c}
  BY <1>1 DEF InLine, Writers
<1>3. Line' = [k \in Text |-> Line[k] \ {c}]
  BY <1>2 DEF Line
<1>4. Ahead' = [d \in Call |-> Ahead[d] \ {c}]
  <2>1. ASSUME NEW d \in Call PROVE Ahead'[d] = Ahead[d] \ {c}
    <3>1. Ahead'[d] = {e \in InLine \ {c} : d \in InLine \ {c} /\ key[e] = key[d] /\ Before(arrived, e, d)}
      BY <1>2 DEF Ahead, Before
    <3>2. CASE d = c
      <4>1. \A e \in InLine : ~(key[e] = key[c] /\ Before(arrived, e, c))
        <5> SUFFICES ASSUME NEW e \in InLine, key[e] = key[c], Before(arrived, e, c) PROVE FALSE
          OBVIOUS
        <5>1. PICK j, n \in DOMAIN arrived : j < n /\ arrived[j] = e /\ arrived[n] = c
          BY DEF Before
        <5>2. pc[e] = "released"
          BY <5>1 DEF IInv, Ordered, SameKey
        <5> QED BY <5>2 DEF InLine
      <4> QED BY <3>1, <3>2, <4>1 DEF Ahead
    <3>3. CASE d # c
      BY <3>1, <3>3 DEF Ahead
    <3> QED BY <3>2, <3>3
  <2>2. Ahead' = [d \in Call |-> Ahead'[d]]
    BY DEF Ahead
  <2> QED BY <2>1, <2>2
<1> QED BY <1>2, <1>3, <1>4 DEF Lock!Leave

\* Before any call the queues are empty lines.
LEMMA LockInit == Init => Lock!Init
BY DEF Init, Lock!Init, Line, Ahead, Writers, InLine, Range

\* Every step of the gateway is a step of the lock, or none.
LEMMA LockNext == IInv /\ [Next]_vars => [Lock!Next]_Lock!vars
<1> SUFFICES ASSUME IInv, [Next]_vars
             PROVE  Lock!Next \/ UNCHANGED Lock!vars
  OBVIOUS
<1>1. CASE UNCHANGED vars
  BY <1>1 DEF vars, Lock!vars, Line, Ahead, Writers, InLine, Before
<1>2. ASSUME NEW c \in Call, NEW tool \in ToolName, NEW payload \in Payload,
             Refuse(c, tool, payload) \/ RunReadOnly(c, tool, payload)
      PROVE  UNCHANGED Lock!vars
  <2>1. PICK to : /\ pc[c] = "idle" /\ pc' = [pc EXCEPT ![c] = to]
                  /\ key' = [key EXCEPT ![c] = ReadProjectId(payload)] /\ UNCHANGED arrived
    BY <1>2 DEF Refuse, RunReadOnly, Asks
  <2>2. c \notin Range(arrived) /\ \A d \in Call \ {c} : key'[d] = key[d]
    BY <2>1 DEF IInv, TypeOK, Lined, Range
  <2> QED BY <2>1, <2>2, LockStutters
<1>3. ASSUME NEW c \in Call, NEW tool \in ToolName, NEW payload \in Payload, RunLocked(c, tool, payload)
      PROVE  Lock!Next
  BY <1>3, LockJoins DEF Lock!Next
<1>4. ASSUME NEW c \in Call, BeginJob(c)
      PROVE  Lock!Next
  BY <1>4, LockEnters DEF Lock!Next
<1>5. ASSUME NEW c \in Call, Settle(c)
      PROVE  Lock!Next \/ UNCHANGED Lock!vars
  <2>1. PICK place \in {"settled", "rejected", "hung"} :
          pc[c] = "running" /\ pc' = [pc EXCEPT ![c] = place] /\ UNCHANGED <<key, arrived>>
    BY <1>5 DEF Settle
  <2>2. CASE place = "hung" \/ c \notin Range(arrived)
    <3>1. c \in Range(arrived) => /\ "running" \in {"waiting", "running", "hung"} <=> place \in {"waiting", "running", "hung"}
                                  /\ "running" \in {"running", "hung"} <=> place \in {"running", "hung"}
      BY <2>2
    <3> QED BY <2>1, <3>1, LockStutters
  <2>3. CASE place # "hung" /\ c \in Range(arrived)
    BY <2>1, <2>3, LockLeaves DEF Lock!Next
  <2> QED BY <2>2, <2>3
<1>6. ASSUME NEW c \in Call, Release(c)
      PROVE  UNCHANGED Lock!vars
  <2>1. /\ pc[c] \in {"settled", "rejected"} /\ pc' = [pc EXCEPT ![c] = "released"]
        /\ UNCHANGED <<key, arrived>>
    BY <1>6 DEF Release
  <2> DEFINE from == pc[c]
  <2>2. /\ from \in {"waiting", "running", "hung"} <=> "released" \in {"waiting", "running", "hung"}
        /\ from \in {"running", "hung"} <=> "released" \in {"running", "hung"}
    BY <2>1
  <2>3. pc[c] = from /\ \A d \in Call : key'[d] = key[d]
    BY <2>1
  <2> HIDE DEF from
  <2> QED BY <2>1, <2>2, <2>3, LockStutters
<1> QED BY <1>1, <1>2, <1>3, <1>4, <1>5, <1>6 DEF Next, Arrive
-----------------------------------------------------------------------------
\* Every variable of the gateway keeps its type, whatever is called.
THEOREM TypeCorrect == Spec => []TypeOK
<1>1. IInv => TypeOK
  BY DEF IInv
<1> QED BY InitIInv, NextIInv, <1>1, PTL DEF Spec

\* ProjectLockManager: the mutating calls of one project key never overlap,
\* for any number of calls and keys, failing and hanging calls included.
THEOREM CallsOfAKeyExclude == Spec => []OneWriterPerKey
  BY InitIInv, NextIInv, IInvExcludes, PTL DEF Spec

\* ProjectLockManager: the calls of a project key start in the order in which
\* they came in.
THEOREM CallsOfAKeyInOrder == Spec => []StartsInOrder
<1>1. IInv => StartsInOrder
  BY DEF IInv
<1> QED BY InitIInv, NextIInv, <1>1, PTL DEF Spec

\* ProjectLockManager implements a FIFO lock per project key, for any number of
\* calls and keys: a call enters only when all that came before it have left,
\* whether they resolved or rejected.
THEOREM QueuesImplementFifoLock == Spec => Lock!Safety
<1>1. IInv /\ [Next]_vars => [Lock!Next]_Lock!vars
  BY LockNext
<1> QED BY InitIInv, NextIInv, LockInit, <1>1, PTL DEF Spec, Lock!Safety
=============================================================================
