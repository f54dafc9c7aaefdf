----------------------------- MODULE MCBackups -----------------------------
(* Instances of Backups for TLC. *)
EXTENDS Backups
CONSTANTS h1, h2, s1, s2, p1, p2, c1, c2

(* Every session on the first computer; or each on a computer of its own. *)
OneHost == [s \in Session |-> h1]
TwoHosts == [s \in Session |-> IF s = s1 THEN h1 ELSE h2]
=============================================================================
