---------------------------- MODULE AtomicWrites ----------------------------
(***************************************************************************)
(* What write_bytes promises, told without calls, remounts or temporary     *)
(* files: a screen passes from one complete image to another in one step,  *)
(* each write that was asked for is done at most once, and success is told *)
(* only of a write that was done.                                          *)
(***************************************************************************)
CONSTANTS Writer, Screen, Content, Found  \* each writer's image; what screens hold at first

VARIABLES screen,   \* image on each screen
          write,    \* how far the write of each writer to each screen is
          told      \* writers of one screen that reported success

vars == <<screen, write, told>>

(* A write is asked for, then offered to the tablet; it has landed, and its *)
(* writer knows, or it is over.  What was offered may be left to the tablet *)
(* by a writer that no longer waits for it.                                *)
Course == {<<"asked", "offered">>, <<"offered", "left">>, <<"asked", "over">>,
           <<"offered", "over">>, <<"left", "over">>, <<"landed", "over">>}

Init == /\ screen \in [Screen -> Found]
        /\ write \in [Writer \X Screen -> {"asked", "over"}]
        /\ told = {}

Follows(f) == write'[f] = write[f] \/ <<write[f], write'[f]>> \in Course

(* The one way to change a screen: for good, as far as this write goes. *)
Land(f) == /\ <<write[f], write'[f]>> \in
                  {<<"offered", "landed">>, <<"offered", "over">>, <<"left", "over">>}
           /\ screen' = [screen EXCEPT ![f[2]] = Content[f[1]]]

Tell == /\ told \subseteq told'
        /\ \A w \in told' \ told : \E p \in Screen : write[<<w, p>>] = "landed"

(* A step may end many writes, and land one. *)
Next == /\ \/ UNCHANGED screen /\ \A f \in Writer \X Screen : Follows(f)
           \/ \E f \in Writer \X Screen :
                 Land(f) /\ \A g \in (Writer \X Screen) \ {f} : Follows(g)
        /\ Tell

Spec == Init /\ [][Next]_vars
=============================================================================
