------------------------------- MODULE Vault -------------------------------
(***************************************************************************)
(* What apply.py promises, told without manifests, computers or calls: a   *)
(* screen's stock image is captured before that screen is ever written,    *)
(* and no copy is given up while the screen holds something else.          *)
(***************************************************************************)
CONSTANTS Screen, Custom, Stock

VARIABLES screen,   \* image on each screen
          saved     \* whether a good copy of its stock art exists

vars == <<screen, saved>>

Init == /\ screen = [p \in Screen |-> Stock]
        /\ saved = [p \in Screen |-> FALSE]

(* Copies are only ever made of what is known to be stock. *)
Capture(p) == /\ screen[p] = Stock \/ saved[p]
              /\ saved' = [saved EXCEPT ![p] = TRUE]
              /\ UNCHANGED screen

(* Losing copies, by a reset or a torn file, while the art is on screen. *)
Lose == /\ \E P \in SUBSET {p \in Screen : screen[p] = Stock} :
              saved' = [p \in Screen |-> IF p \in P THEN FALSE ELSE saved[p]]
        /\ UNCHANGED screen

Write(p, image) == /\ saved[p]
                   /\ screen' = [screen EXCEPT ![p] = image]
                   /\ UNCHANGED saved

Next == \/ \E p \in Screen : Capture(p)
        \/ \E p \in Screen, image \in Custom \cup {Stock} : Write(p, image)
        \/ Lose

Spec == Init /\ [][Next]_vars

(* The stock art is always somewhere. *)
NothingLost == \A p \in Screen : screen[p] = Stock \/ saved[p]
=============================================================================
