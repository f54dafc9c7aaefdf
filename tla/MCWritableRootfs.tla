-------------------------- MODULE MCWritableRootfs --------------------------
(* Instances of WritableRootfs for TLC. *)
EXTENDS WritableRootfs
CONSTANTS s1, s2, s3, p1, p2

(* One unit of space per image; a batch writes stock back. *)
OneUnit == [i \in Session \cup {Stock, Earlier, Torn} |-> 1]
(* The image of s2 is over the cap of 2. *)
OneTooBig == [i \in Session \cup {Stock, Earlier, Torn} |-> IF i = s2 THEN 3 ELSE 1]
=============================================================================
