----------------------------- MODULE MCSidecar -----------------------------
(***************************************************************************)
(* A small instance of Sidecar for TLC.                                    *)
(***************************************************************************)
EXTENDS Sidecar
=============================================================================
