----------------------------- MODULE MCWebPage -----------------------------
(* Instances of WebPage for TLC. *)
EXTENDS WebPage
CONSTANTS p1, c1, w1, w2
=============================================================================
