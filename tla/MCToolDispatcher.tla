-------------------------- MODULE MCToolDispatcher --------------------------
(***************************************************************************)
(* Small instances of ToolDispatcher for TLC.                              *)
(***************************************************************************)
EXTENDS ToolDispatcher, TLC

CONSTANTS c1, c2, c3, a, b

MCOutline == 0..2
OneUntracked == {0}

\* A hash without collisions.
MCDigest == [o \in MCOutline |-> o]

CallSymmetry == Permutations({c1, c2, c3}) \cup Permutations({a, b})
=============================================================================
