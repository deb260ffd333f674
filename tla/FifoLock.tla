------------------------------ MODULE FifoLock ------------------------------
(***************************************************************************)
(* What a lock per key promises: the calls of one key form a line, a call  *)
(* enters only when all that stood in its line before it have left, and    *)
(* once inside it keeps its place until it leaves.  Lines of different     *)
(* keys are independent.                                                   *)
(***************************************************************************)
CONSTANTS Key, Call

VARIABLES
    line,    \* line[k]: the calls of key k that have joined and not left
    ahead,   \* ahead[c]: those of them c still waits for
    inside   \* the calls that have entered and not left

vars == <<line, ahead, inside>>

Init == line = [k \in Key |-> {}] /\ ahead = [c \in Call |-> {}] /\ inside = {}

InLine(c) == \E k \in Key : c \in line[k]

Join(k, c) ==
    /\ ~InLine(c)
    /\ line' = [line EXCEPT ![k] = @ \cup {c}]
    /\ ahead' = [ahead EXCEPT ![c] = line[k]]
    /\ UNCHANGED inside

Enter(c) ==
    /\ InLine(c) /\ c \notin inside /\ ahead[c] = {}
    /\ inside' = inside \cup {c}
    /\ UNCHANGED <<line, ahead>>

Leave(c) ==
    /\ c \in inside
    /\ inside' = inside \ {c}
    /\ line' = [k \in Key |-> line[k] \ {c}]
    /\ ahead' = [d \in Call |-> ahead[d] \ {c}]

Next == \E c \in Call : (\E k \in Key : Join(k, c)) \/ Enter(c) \/ Leave(c)

Safety == Init /\ [][Next]_vars

\* A call may stay inside for ever; who waits for nobody is let in all the same.
Spec == Safety /\ \A c \in Call : WF_vars(Enter(c))
=============================================================================
