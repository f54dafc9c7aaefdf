----------------------------- MODULE MCHostKeys -----------------------------
(* Instances of HostKeys for TLC. *)
EXTENDS HostKeys
CONSTANTS k1, k2, k3, v1, v2
=============================================================================
