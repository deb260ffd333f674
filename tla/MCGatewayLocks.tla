--------------------------- MODULE MCGatewayLocks ---------------------------
(***************************************************************************)
(* Small instances of GatewayLocks for TLC.                                *)
(***************************************************************************)
EXTENDS GatewayLocks

CONSTANTS c1, c2, c3

MCText == {"", "arm", " arm", "leg", "default-project"}
MCTrim == [t \in MCText |-> IF t = " arm" THEN "arm" ELSE t]

\* A payload with a name and, perhaps, a field of higher precedence.
Bare == [f \in Range(ProjectField) \cup {"backend"} |-> Absent]
MCPayload == {Bare,
              [Bare EXCEPT !["name"] = "arm"],
              [Bare EXCEPT !["name"] = " arm", !["project"] = ""],
              [Bare EXCEPT !["name"] = "arm", !["projectId"] = "leg"],
              [Bare EXCEPT !["backend"] = "engine"]}
=============================================================================
