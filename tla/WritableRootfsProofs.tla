------------------------ MODULE WritableRootfsProofs ------------------------
(* Theorems about WritableRootfs, for any number of sessions and screens.  *)
EXTENDS WritableRootfs, TLAPS

(* The part of TypeOK about the tablet, and the part about the sessions. *)
TabletOK ==
    /\ mount \in {"ro", "rw"} /\ free \in Nat
    /\ tmp \in [Session \X Screen -> TempState] /\ file \in [Session \X Screen -> FileState]
    /\ screen \in [Screen -> Session \cup {Stock, Earlier, Torn}]

SessionsOK ==
    /\ lock \in Web \cup {NoOne}
    /\ pc \in [Session -> Label] /\ depth \in [Session -> 0..MaxDepth]
    /\ todo \in [Session -> SUBSET Screen]
    /\ fate \in [Session -> Fate]

(* A handle is closed, and what it kept is free. *)
LEMMA DroppedTyped ==
    ASSUME TypeOK, NEW s \in Session, NEW p \in Screen, Dropped(s, p)
    PROVE  TabletOK'
<1>0. Size[Image(s)] \in Nat
  BY SizeAssumption DEF Image
<1>1. free' \in Nat /\ UNCHANGED <<mount, screen>>
  BY <1>0 DEF Dropped, TypeOK, tablet
<1>2. tmp' \in [Session \X Screen -> TempState]
  BY DEF Dropped, TypeOK, tablet, TempState
<1>3. file' \in [Session \X Screen -> FileState]
  BY DEF Dropped, TypeOK, tablet, FileState
<1> QED BY <1>1, <1>2, <1>3 DEF TypeOK, TabletOK

(* Whatever command the tablet executes, its state keeps its type. *)
LEMMA ExecutedTyped ==
    ASSUME TypeOK, NEW s \in Session, NEW p \in Screen, NEW c, Executed(c, s, p)
    PROVE  TabletOK'
<1>0. /\ Size \in [Session \cup {Stock, Earlier, Torn} -> Nat]
      /\ Image(s) \in Session \cup {Stock, Earlier, Torn}
  BY SizeAssumption DEF Image
<1>1. /\ Size[screen[p]] \in Nat /\ Size[Image(s)] \in Nat
  BY <1>0 DEF TypeOK
<1>2. CASE Moved(s, p)
  <2>1. CASE mount = "rw" /\ HasName(<<s, p>>)
    <3>1. free' \in Nat /\ UNCHANGED <<mount, file>>
      BY <1>1, <1>2, <2>1 DEF Moved, TypeOK
    <3>2. tmp' \in [Session \X Screen -> TempState]
      BY <1>2, <2>1 DEF Moved, TypeOK, TempState
    <3>3. screen' \in [Screen -> Session \cup {Stock, Earlier, Torn}]
      BY <1>0, <1>2, <2>1 DEF Moved, TypeOK
    <3> QED BY <3>1, <3>2, <3>3 DEF TypeOK, TabletOK
  <2>2. CASE ~(mount = "rw" /\ HasName(<<s, p>>))
    BY <1>2, <2>2 DEF Moved, TypeOK, TabletOK, tablet
  <2> QED BY <2>1, <2>2
<1>3. CASE Removed(s, p)
  <2>1. CASE mount = "rw" /\ HasName(<<s, p>>)
    <3>1. free' \in Nat /\ UNCHANGED <<mount, file, screen>>
      BY <1>1, <1>3, <2>1 DEF Removed, TypeOK
    <3>2. tmp' \in [Session \X Screen -> TempState]
      BY <1>3, <2>1 DEF Removed, TypeOK, TempState
    <3> QED BY <3>1, <3>2 DEF TypeOK, TabletOK
  <2>2. CASE ~(mount = "rw" /\ HasName(<<s, p>>))
    BY <1>3, <2>2 DEF Removed, TypeOK, TabletOK, tablet
  <2> QED BY <2>1, <2>2
<1>4. CASE UNCHANGED <<free, tmp, file, screen>> /\ mount' \in {"ro", "rw"}
  BY <1>4 DEF TypeOK, TabletOK
<1>5. CASE UNCHANGED tablet
  BY <1>5 DEF TypeOK, TabletOK, tablet
<1>6. ASSUME NEW held \in {"part", "whole"}, Filled(s, p, held)
      PROVE  TabletOK'
  BY <1>6 DEF Filled, TypeOK, TabletOK, TempState, FileState
<1>7. CASE Created(s, p)
  BY <1>7 DEF Created, TypeOK, TabletOK, tablet, TempState, FileState
<1>8. CASE Dropped(s, p)
  BY <1>8, DroppedTyped
<1> QED BY <1>2, <1>3, <1>4, <1>5, <1>6, <1>7, <1>8 DEF Executed

(* An exception leaves the sessions' state well typed, wherever it is caught. *)
LEMMA RaiseTyped ==
    ASSUME TypeOK, NEW s \in Session, NEW base \in BOOLEAN, Raise(s, base)
    PROVE  SessionsOK'
<1> DEFINE h == Handler(s, base)
<1>1. h \in Label
  BY DEF Handler, Label, InBlock, InWrite, InCall
<1>2. pc' \in [Session -> Label]
  BY <1>1 DEF Raise, TypeOK
<1>3. depth' \in [Session -> 0..MaxDepth]
  BY BoundAssumption DEF Raise, TypeOK
<1>4. todo' \in [Session -> SUBSET Screen]
  BY DEF Raise, TypeOK
<1>5. fate' \in [Session -> Fate]
  BY DEF Raise, TypeOK, Fate
<1>6. lock' \in Web \cup {NoOne}
  BY DEF Raise, Released, TypeOK
<1> QED BY <1>2, <1>3, <1>4, <1>5, <1>6 DEF SessionsOK

(* A call cut short leaves the tablet, and what runs late, well typed. *)
LEMMA StruckTyped ==
    ASSUME TypeOK, NEW s \in Session, Struck(s)
    PROVE  TabletOK' /\ late' \subseteq {"rw", "ro", "open", "put", "mv", "rm"} \X Session \X Screen
<1>1. at[s] \in Screen
  BY DEF TypeOK
<1>2. CASE UNCHANGED <<tablet, late>>
  BY <1>2 DEF TypeOK, TabletOK, tablet
<1>3. CASE Executed(Command(s), s, at[s]) /\ UNCHANGED late
  BY <1>1, <1>3, ExecutedTyped, NamesAssumption DEF TypeOK
<1>5. CASE Filled(s, at[s], "part") /\ UNCHANGED late
  BY <1>1, <1>5 DEF Filled, TypeOK, TabletOK, TempState, FileState
<1>4. CASE /\ Command(s) # "read"
           /\ late' = late \cup {<<Command(s), s, at[s]>>}
           /\ UNCHANGED tablet
  <2>1. Command(s) \in {"rw", "ro", "open", "put", "mv", "rm"}
    BY <1>4 DEF Command
  <2> QED BY <1>1, <1>4, <2>1 DEF TypeOK, TabletOK, tablet
<1> QED BY <1>2, <1>3, <1>4, <1>5 DEF Struck

(* The state before any session has begun. *)
LEMMA InitTyped == Init => TypeOK
<1> SUFFICES ASSUME Init PROVE TypeOK
  OBVIOUS
<1>1. /\ mount \in {"ro", "rw"} /\ free \in Nat
      /\ tmp \in [Session \X Screen -> TempState] /\ file \in [Session \X Screen -> FileState]
      /\ screen \in [Screen -> Session \cup {Stock, Earlier, Torn}]
  BY SizeAssumption DEF Init, TempState, FileState
<1>2. /\ late \subseteq {"rw", "ro", "open", "put", "mv", "rm"} \X Session \X Screen
      /\ lock \in Web \cup {NoOne}
      /\ pc \in [Session -> Label] /\ depth \in [Session -> 0..MaxDepth]
  BY BoundAssumption DEF Init, Label, Waiting
<1>3. todo \in [Session -> SUBSET Screen] /\ at \in [Session -> Screen]
  BY DEF Init
<1>4. /\ up \in [Session -> BOOLEAN] /\ hits \in [Session -> 0..MaxHits]
      /\ fate \in [Session -> Fate]
  BY BoundAssumption DEF Init, Fate
<1> QED BY <1>1, <1>2, <1>3, <1>4 DEF TypeOK

(* One step per action; an action's exceptional branch is RaiseTyped. *)
LEMMA StepTyped ==
    ASSUME TypeOK, NEW s \in Session, Step(s)
    PROVE  TypeOK'
<1> USE SessionAssumption
<1>0. /\ at[s] \in Screen /\ {"idle", "closed"} \subseteq Label
      /\ InBlock \subseteq Label /\ InCall \subseteq Label
  BY DEF TypeOK, Label, Waiting
<1>h. Ineffective(s) => /\ TabletOK'
                        /\ hits' \in [Session -> 0..MaxHits]
  BY BoundAssumption DEF Ineffective, TypeOK, TabletOK, tablet
<1>1. CASE Enqueue(s) \/ TakeLock(s) \/ Begin(s)
  <2>1. CASE Enqueue(s)
    BY <2>1 DEF Enqueue, Goto, tablet, TypeOK, Label, Waiting
  <2>2. CASE TakeLock(s)
    <3>1. s \in Web \cup {NoOne}
      BY <2>2 DEF TakeLock, TypeOK
    <3> QED BY <2>2, <3>1 DEF TakeLock, Goto, tablet, TypeOK, Label, Waiting
  <2>3. CASE Begin(s)
    BY <2>3 DEF Begin, Goto, tablet, TypeOK, Label, InCall
  <2> QED BY <1>1, <2>1, <2>2, <2>3
<1>2. CASE Connect(s)
  BY <1>2 DEF Connect, Goto, tablet, TypeOK, Label, InCall
<1>3. CASE Enter(s)
  <2>1. CASE Raise(s, FALSE) /\ UNCHANGED tablet
    BY <1>3, <2>1, RaiseTyped DEF Enter, tablet, TypeOK, SessionsOK
  <2>2. CASE /\ Executed("rw", s, at[s]) /\ Goto(s, "block")
             /\ depth' = [depth EXCEPT ![s] = 1]
             /\ UNCHANGED <<lock, todo, fate>>
    <3>1. TabletOK'
      BY <1>0, <2>2, ExecutedTyped
    <3>2. depth' \in [Session -> 0..MaxDepth]
      BY <2>2, BoundAssumption DEF TypeOK
    <3> QED BY <1>3, <2>2, <3>1, <3>2 DEF Enter, Goto, TypeOK, TabletOK, Label, InBlock
  <2> QED BY <1>3, <2>1, <2>2 DEF Enter
<1>4. CASE Nest(s)
  <2>1. depth' \in [Session -> 0..MaxDepth]
    BY <1>4, BoundAssumption DEF Nest, TypeOK
  <2> QED BY <1>4, <2>1 DEF Nest, tablet, TypeOK
<1>5. CASE Unnest(s)
  <2>1. depth' \in [Session -> 0..MaxDepth]
    BY <1>5, BoundAssumption DEF Unnest, TypeOK
  <2> QED BY <1>5, <2>1 DEF Unnest, tablet, TypeOK
<1>6. CASE NextScreen(s)
  BY <1>6 DEF NextScreen, Goto, tablet, TypeOK, Label, InBlock, InWrite
<1>7. CASE SkipScreen(s)
  BY <1>7 DEF SkipScreen, tablet, TypeOK
<1>8. CASE CheckSpace(s)
  <2>1. CASE Raise(s, FALSE)
    BY <1>8, <2>1, RaiseTyped DEF CheckSpace, tablet, TypeOK, SessionsOK
  <2>2. CASE Goto(s, "open") /\ UNCHANGED <<lock, depth, todo, fate>>
    BY <1>8, <2>2 DEF CheckSpace, Goto, tablet, TypeOK, Label, InBlock, InWrite
  <2> QED BY <1>8, <2>1, <2>2 DEF CheckSpace
<1>9. CASE OpenTemp(s)
  <2>1. CASE Raise(s, FALSE) /\ UNCHANGED tablet
    BY <1>9, <2>1, RaiseTyped DEF OpenTemp, tablet, TypeOK, SessionsOK
  <2>2. CASE /\ free >= Size[Image(s)]
             /\ tmp' = [tmp EXCEPT ![<<s, at[s]>>] = "part"]
             /\ file' = [file EXCEPT ![<<s, at[s]>>] = "open"]
             /\ free' = free - Size[Image(s)]
             /\ Goto(s, "upload")
             /\ UNCHANGED <<mount, screen, lock, depth, todo, fate>>
    <3>1. Size[Image(s)] \in Nat
      BY SizeAssumption DEF Image
    <3>2. free' \in Nat
      BY <2>2, <3>1 DEF TypeOK
    <3> QED BY <1>0, <1>9, <2>2, <3>2
              DEF OpenTemp, Goto, TypeOK, Label, InBlock, InWrite, TempState, FileState
  <2> QED BY <1>9, <2>1, <2>2 DEF OpenTemp
<1>10. CASE Upload(s)
  <2>1. TabletOK'
    BY <1>0, <1>10, ExecutedTyped DEF Upload
  <2> QED BY <1>10, <2>1 DEF Upload, Goto, TypeOK, TabletOK, Label, InBlock, InWrite
<1>11. CASE Rename(s)
  <2>1. TabletOK'
    BY <1>0, <1>11, ExecutedTyped DEF Rename
  <2>2. CASE Raise(s, FALSE)
    BY <1>11, <2>1, <2>2, RaiseTyped DEF Rename, TypeOK, SessionsOK, TabletOK
  <2>3. CASE Goto(s, "verify") /\ UNCHANGED <<lock, depth, todo, fate>>
    BY <1>11, <2>1, <2>3 DEF Rename, Goto, TypeOK, TabletOK, Label, InBlock, InWrite
  <2> QED BY <1>11, <2>2, <2>3 DEF Rename
<1>12. CASE CleanUp(s)
  <2>1. TabletOK'
    BY <1>0, <1>12, ExecutedTyped DEF CleanUp
  <2> QED BY <1>12, <2>1, RaiseTyped DEF CleanUp, TypeOK, SessionsOK, TabletOK
<1>13. CASE VerifyWrite(s)
  <2>1. CASE Raise(s, FALSE)
    BY <1>13, <2>1, RaiseTyped DEF VerifyWrite, tablet, TypeOK, SessionsOK
  <2>2. CASE /\ Goto(s, "block") /\ todo' = [todo EXCEPT ![s] = @ \ {at[s]}]
             /\ UNCHANGED <<lock, depth, fate>>
    BY <1>13, <2>2 DEF VerifyWrite, Goto, tablet, TypeOK, Label, InBlock
  <2> QED BY <1>13, <2>1, <2>2 DEF VerifyWrite
<1>14. CASE LeaveBlock(s)
  BY <1>14 DEF LeaveBlock, Goto, tablet, TypeOK, Label, InCall
<1>15. CASE Revert(s)
  <2>1. TabletOK' /\ hits' \in [Session -> 0..MaxHits]
    BY <1>0, <1>h, <1>15, ExecutedTyped DEF Revert, TypeOK
  <2>2. CASE Raise(s, FALSE)
    BY <1>15, <2>1, <2>2, RaiseTyped DEF Revert, TypeOK, SessionsOK, TabletOK
  <2>3. CASE Goto(s, "check") /\ UNCHANGED <<lock, depth, todo, fate>>
    BY <1>15, <2>1, <2>3 DEF Revert, Goto, TypeOK, TabletOK, Label, InCall
  <2> QED BY <1>15, <2>2, <2>3 DEF Revert
<1>16. CASE CheckMount(s)
  <2>1. CASE Raise(s, FALSE)
    BY <1>16, <2>1, RaiseTyped DEF CheckMount, tablet, TypeOK, SessionsOK
  <2>2. CASE /\ depth' = [depth EXCEPT ![s] = 0] /\ Goto(s, "close")
             /\ UNCHANGED <<lock, todo, fate>>
    BY <1>16, <2>2, BoundAssumption DEF CheckMount, Goto, tablet, TypeOK, Label, InCall
  <2> QED BY <1>16, <2>1, <2>2 DEF CheckMount
<1>17. CASE Close(s)
  <2>1. TabletOK' /\ hits' \in [Session -> 0..MaxHits]
    BY <1>0, <1>h, <1>17, ExecutedTyped DEF Close, TypeOK
  <2>2. /\ lock' \in Web \cup {NoOne}
        /\ fate' \in [Session -> Fate] /\ depth' \in [Session -> 0..MaxDepth]
    BY <1>17, BoundAssumption DEF Close, Released, TypeOK, Fate
  <2> QED BY <1>17, <2>1, <2>2 DEF Close, Goto, TypeOK, TabletOK, Label
<1>18. CASE CallOnDeadLink(s)
  BY <1>18, RaiseTyped DEF CallOnDeadLink, tablet, TypeOK, SessionsOK
<1> QED BY <1>1, <1>2, <1>3, <1>4, <1>5, <1>6, <1>7, <1>8, <1>9, <1>10, <1>11,
           <1>12, <1>13, <1>14, <1>15, <1>16, <1>17, <1>18 DEF Step

(* A fault ends sessions or marks them, within their types. *)
LEMMA FaultTyped ==
    ASSUME TypeOK, NEW s \in Session, LoseCall(s) \/ Interrupt(s) \/ Kill(s)
    PROVE  TypeOK'
<1>1. CASE LoseCall(s)
  <2>1. hits' \in [Session -> 0..MaxHits]
    BY <1>1, BoundAssumption DEF LoseCall, TypeOK
  <2>2. up' \in [Session -> BOOLEAN]
    BY <1>1 DEF LoseCall, TypeOK
  <2> QED BY <1>1, <2>1, <2>2, StruckTyped, RaiseTyped DEF LoseCall, TypeOK, TabletOK, SessionsOK
<1>2. CASE Interrupt(s)
  <2>0. hits' \in [Session -> 0..MaxHits]
    BY <1>2, BoundAssumption DEF Interrupt, TypeOK
  <2>1. hits' \in [Session -> 0..MaxHits] /\ SessionsOK'
    BY <1>2, <2>0, RaiseTyped DEF Interrupt
  <2>2. CASE Struck(s)
    BY <1>2, <2>1, <2>2, StruckTyped DEF Interrupt, TypeOK, TabletOK, SessionsOK
  <2>3. CASE UNCHANGED <<tablet, late>>
    BY <1>2, <2>1, <2>3 DEF Interrupt, tablet, TypeOK, SessionsOK
  <2> QED BY <1>2, <2>2, <2>3 DEF Interrupt
<1>3. CASE Kill(s)
  <2>1. /\ hits' \in [Session -> 0..MaxHits] /\ pc' \in [Session -> Label]
        /\ depth' \in [Session -> 0..MaxDepth] /\ fate' \in [Session -> Fate]
        /\ lock' \in Web \cup {NoOne}
    BY <1>3, BoundAssumption DEF Kill, TypeOK, Label, Fate
  <2>2. CASE Struck(s)
    BY <1>3, <2>1, <2>2, StruckTyped DEF Kill, TypeOK, TabletOK
  <2>3. CASE UNCHANGED <<tablet, late>>
    BY <1>3, <2>1, <2>3 DEF Kill, tablet, TypeOK
  <2> QED BY <1>3, <2>2, <2>3 DEF Kill
<1> QED BY <1>1, <1>2, <1>3

(* The end of a connection. *)
LEMMA HangUpTyped ==
    ASSUME TypeOK, NEW s \in Session, HangUp(s)
    PROVE  TypeOK'
BY DroppedTyped DEF HangUp, TypeOK, TabletOK

(* A late command is one the tablet executes. *)
LEMMA LateTyped ==
    ASSUME TypeOK, FinishLate
    PROVE  TypeOK'
<1>1. PICK c \in late : /\ Executed(c[1], c[2], c[3])
                        /\ late' = late \ {c}
                        /\ UNCHANGED <<lock, pc, depth, todo, at, up, hits, fate>>
  BY DEF FinishLate
<1>2. c[2] \in Session /\ c[3] \in Screen
  BY DEF TypeOK
<1>3. TabletOK'
  BY <1>1, <1>2, ExecutedTyped
<1> QED BY <1>1, <1>3 DEF TypeOK, TabletOK

(* Type correctness: in particular the depth of a block that an exception  *)
(* leaves, and the free space, never go below zero.                        *)
THEOREM TypeCorrect == Spec => []TypeOK
<1>1. TypeOK /\ [Next]_vars => TypeOK'
  <2> SUFFICES ASSUME TypeOK, [Next]_vars PROVE TypeOK'
    OBVIOUS
  <2>1. CASE UNCHANGED vars
    BY <2>1 DEF vars, TypeOK
  <2>2. CASE \E s \in Session : Step(s) \/ LoseCall(s) \/ Interrupt(s) \/ Kill(s) \/ HangUp(s)
    BY <2>2, StepTyped, FaultTyped, HangUpTyped
  <2>3. CASE FinishLate
    BY <2>3, LateTyped
  <2> QED BY <2>1, <2>2, <2>3 DEF Next, Done
<1> QED BY InitTyped, <1>1, PTL DEF Spec

-----------------------------------------------------------------------------
(* What a step of one session leaves of the others. *)
OthersKept(s) == \A t \in Session \ {s} :
    /\ pc'[t] = pc[t] /\ depth'[t] = depth[t] /\ at'[t] = at[t]
    /\ up'[t] = up[t] /\ hits'[t] = hits[t] /\ fate'[t] = fate[t] /\ todo'[t] = todo[t]

(* Only the death of the process reaches another session. *)
LEMMA StepKeepsOthers ==
    ASSUME TypeOK, NEW s \in Session, Step(s) \/ LoseCall(s) \/ Interrupt(s)
    PROVE  OthersKept(s)
<1> USE DEF Goto, TypeOK, OthersKept
<1>r. ASSUME NEW base \in BOOLEAN, Raise(s, base), UNCHANGED <<at, up, hits>>
      PROVE  OthersKept(s)
  BY <1>r DEF Raise
<1>1. CASE Enqueue(s) \/ TakeLock(s) \/ Begin(s) \/ Connect(s) \/ Nest(s) \/ Unnest(s)
  BY <1>1 DEF Enqueue, TakeLock, Begin, Connect, Nest, Unnest
<1>2. CASE Enter(s) \/ NextScreen(s) \/ SkipScreen(s) \/ CheckSpace(s) \/ OpenTemp(s)
  BY <1>2, <1>r DEF Enter, NextScreen, SkipScreen, CheckSpace, OpenTemp
<1>3. CASE Upload(s) \/ Rename(s) \/ CleanUp(s) \/ VerifyWrite(s) \/ LeaveBlock(s)
  BY <1>3, <1>r DEF Upload, Rename, CleanUp, VerifyWrite, LeaveBlock
<1>4. CASE Revert(s)
  BY <1>4 DEF Revert, Ineffective, Raise
<1>5. CASE CheckMount(s) \/ CallOnDeadLink(s)
  BY <1>5, <1>r DEF CheckMount, CallOnDeadLink
<1>6. CASE Close(s)
  BY <1>6 DEF Close, Ineffective
<1>7. CASE LoseCall(s) \/ Interrupt(s)
  BY <1>7 DEF LoseCall, Interrupt, Raise
<1> QED BY <1>1, <1>2, <1>3, <1>4, <1>5, <1>6, <1>7 DEF Step

-----------------------------------------------------------------------------
(* No screen is ever torn.  A rename moves whole files only, and that is    *)
(* inductive once it is said of renames still running at the tablet, whose  *)
(* screen the session never uploads again.                                  *)

Cut(f) == tmp[f] \in {"empty", "part"}

MvWhole == \A s \in Session, p \in Screen :
    Cut(<<s, p>>) => /\ ~(pc[s] = "rename" /\ at[s] = p)
                     /\ <<"mv", s, p>> \notin late

(* Calls of one write that may be left running: the open, and the rename of *)
(* a write that was opened long before.                                     *)
LateMv == \A s \in Session, p \in Screen, c \in {"open", "mv"} :
    <<c, s, p>> \in late =>
        \/ p \notin todo[s]
        \/ pc[s] = "cleanup" /\ at[s] = p
        \/ pc[s] \in {"revert", "check", "close", "closed"}

OneLate == \A s \in Session, p \in Screen :
    <<"open", s, p>> \in late => <<"mv", s, p>> \notin late

AtTodo == \A s \in Session : pc[s] \in InWrite => at[s] \in todo[s]

WholeInv == TypeOK /\ ScreensWhole /\ MvWhole /\ LateMv /\ OneLate /\ AtTodo

(* No step cuts a file short, but for the one that the session opens or     *)
(* fills.                                                                   *)
NewCut(s) == \A f \in Session \X Screen :
    Cut(f)' => Cut(f) \/ (f = <<s, at[s]>> /\ pc[s] \in {"open", "upload"})

(* A command puts no cut-short file on a screen, unless it renames one. *)
LEMMA ExecutedWhole ==
    ASSUME WholeInv, NEW s \in Session, NEW p \in Screen, NEW c, Executed(c, s, p),
           c = "mv" => ~Cut(<<s, p>>)
    PROVE  /\ ScreensWhole'
           /\ \A f \in Session \X Screen : Cut(f)' => Cut(f) \/ (c = "open" /\ f = <<s, p>>)
<1>0. Image(s) # Torn /\ tmp[<<s, p>>] \in TempState
  BY NamesAssumption DEF Image, WholeInv, TypeOK
<1>1. CASE c = "mv" /\ Moved(s, p)
  <2>1. CASE mount = "rw" /\ HasName(<<s, p>>)
    <3>1. tmp[<<s, p>>] = "whole"
      BY <1>0, <1>1, <2>1 DEF HasName, Named, TempState, Cut
    <3> QED BY <1>0, <1>1, <2>1, <3>1 DEF Moved, WholeInv, TypeOK, ScreensWhole, Cut
  <2>2. CASE ~(mount = "rw" /\ HasName(<<s, p>>))
    BY <1>1, <2>2 DEF Moved, tablet, WholeInv, ScreensWhole, Cut
  <2> QED BY <2>1, <2>2
<1>2. CASE Removed(s, p)
  BY <1>2 DEF Removed, tablet, WholeInv, TypeOK, ScreensWhole, Cut
<1>3. CASE UNCHANGED <<tmp, screen>>
  BY <1>3 DEF WholeInv, ScreensWhole, Cut
<1>4. CASE Filled(s, p, "whole")
  BY <1>4 DEF Filled, WholeInv, TypeOK, ScreensWhole, Cut
<1>5. CASE c = "open" /\ Created(s, p)
  BY <1>5 DEF Created, tablet, WholeInv, TypeOK, ScreensWhole, Cut
<1>6. CASE Dropped(s, p)
  BY <1>6 DEF Dropped, tablet, WholeInv, TypeOK, ScreensWhole, Cut
<1> QED BY <1>1, <1>2, <1>3, <1>4, <1>5, <1>6 DEF Executed, tablet

(* An exception, with the command it interrupts perhaps still running. *)
LEMMA RaiseWhole ==
    ASSUME WholeInv, NEW s \in Session, NEW base \in BOOLEAN, Raise(s, base),
           NewCut(s), UNCHANGED at, TypeOK',
           late' \subseteq late \cup {<<Command(s), s, at[s]>>}
    PROVE  MvWhole' /\ LateMv' /\ OneLate' /\ AtTodo'
<1> DEFINE h == Handler(s, base)
<1>1. /\ pc' = [pc EXCEPT ![s] = h]
      /\ todo' = [todo EXCEPT ![s] = IF h = "block" THEN @ \ {at[s]} ELSE @]
  BY DEF Raise
<1>2. /\ h \in {"cleanup", "block", "revert", "close", "closed"}
      /\ h = "cleanup" => pc[s] \in {"open", "upload", "rename"}
      /\ h = "block" => pc[s] \in {"space", "cleanup", "verify"}
      /\ h = "close" => pc[s] \in {"enter", "revert", "check"}
      /\ pc[s] = "rename" => h \in {"cleanup", "revert"}
      /\ pc[s] = "cleanup" => h \in {"block", "revert"}
      /\ pc[s] \in {"open", "upload", "rename"} => h \in {"cleanup", "revert"}
  BY DEF Handler
<1>3. /\ Command(s) = "mv" => pc[s] = "rename"
      /\ Command(s) = "open" => pc[s] = "open"
  BY DEF Command
<1>4. \A t \in Session, p \in Screen, c \in {"open", "mv"} : <<c, t, p>> \in late' =>
          \/ <<c, t, p>> \in late
          \/ t = s /\ p = at[s] /\ c = Command(s) /\ pc[s] \in {"open", "rename"}
  BY <1>3
<1>5. \A t \in Session \ {s} : pc'[t] = pc[t] /\ todo'[t] = todo[t] /\ at'[t] = at[t]
  BY <1>1 DEF WholeInv, TypeOK
<1>6. /\ pc'[s] = h /\ at'[s] = at[s] /\ at[s] \in Screen
      /\ todo'[s] = IF h = "block" THEN todo[s] \ {at[s]} ELSE todo[s]
  BY <1>1 DEF WholeInv, TypeOK
<1>g. pc[s] \in {"open", "upload", "rename"} =>
          \A c \in {"open", "mv"} : <<c, s, at[s]>> \notin late
  BY <1>6 DEF WholeInv, LateMv, AtTodo, InWrite
<1> HIDE DEF h
<1>7. MvWhole'
  <2> SUFFICES ASSUME NEW t \in Session, NEW p \in Screen, Cut(<<t, p>>)'
               PROVE  ~(pc'[t] = "rename" /\ at'[t] = p) /\ <<"mv", t, p>> \notin late'
    BY DEF MvWhole, Cut
  <2>1. CASE t = s /\ p = at[s] /\ pc[s] \in {"open", "upload"}
    BY <1>2, <1>3, <1>4, <1>6, <1>g, <2>1
  <2>2. CASE Cut(<<t, p>>)
    <3>1. ~(pc[t] = "rename" /\ at[t] = p) /\ <<"mv", t, p>> \notin late
      BY <2>2 DEF WholeInv, MvWhole
    <3> QED BY <1>2, <1>3, <1>4, <1>5, <1>6, <3>1
  <2> QED BY <2>1, <2>2 DEF NewCut
<1>8. LateMv'
  <2> SUFFICES ASSUME NEW t \in Session, NEW p \in Screen, NEW c \in {"open", "mv"},
                      <<c, t, p>> \in late'
               PROVE  \/ p \notin todo'[t]
                      \/ pc'[t] = "cleanup" /\ at'[t] = p
                      \/ pc'[t] \in {"revert", "check", "close", "closed"}
    BY DEF LateMv
  <2>1. CASE t # s
    BY <1>4, <1>5, <2>1 DEF LateMv, WholeInv
  <2>2. CASE t = s /\ <<c, s, p>> \in late
    BY <1>2, <1>6, <2>2 DEF LateMv, WholeInv
  <2>3. CASE t = s /\ pc[s] \in {"open", "rename"} /\ at[s] = p
    BY <1>2, <1>6, <2>3
  <2> QED BY <1>4, <2>1, <2>2, <2>3
<1>9. OneLate'
  <2> SUFFICES ASSUME NEW t \in Session, NEW p \in Screen, <<"open", t, p>> \in late'
               PROVE  <<"mv", t, p>> \notin late'
    BY DEF OneLate
  <2> SUFFICES ASSUME <<"mv", t, p>> \in late' PROVE FALSE
    OBVIOUS
  <2>1. ~(<<"open", t, p>> \in late /\ <<"mv", t, p>> \in late)
    BY DEF OneLate, WholeInv
  <2>2. t = s /\ p = at[s] /\ pc[s] \in {"open", "rename"}
    BY <1>3, <1>4, <2>1
  <2>3. <<"open", s, p>> \notin late /\ <<"mv", s, p>> \notin late
    BY <1>g, <2>2
  <2> QED BY <1>3, <1>4, <2>2, <2>3
<1>10. AtTodo'
  BY <1>2, <1>5, <1>6 DEF AtTodo, WholeInv, InWrite
<1> QED BY <1>7, <1>8, <1>9, <1>10

(* Nor does a command that is cut short or left running. *)
LEMMA StruckWhole ==
    ASSUME WholeInv, NEW s \in Session, Struck(s)
    PROVE  /\ ScreensWhole' /\ NewCut(s)
           /\ late' \subseteq late \cup {<<Command(s), s, at[s]>>}
<1>1. at[s] \in Screen
  BY DEF WholeInv, TypeOK
<1>2. Command(s) = "mv" => ~Cut(<<s, at[s]>>)
  BY <1>1 DEF Command, WholeInv, MvWhole
<1>5. /\ Command(s) = "open" => pc[s] = "open"
      /\ Command(s) = "put" => pc[s] = "upload"
  BY DEF Command
<1>3. CASE Executed(Command(s), s, at[s]) /\ UNCHANGED late
  BY <1>1, <1>2, <1>3, <1>5, ExecutedWhole DEF NewCut
<1>4. CASE UNCHANGED tablet
  BY <1>4 DEF tablet, ScreensWhole, NewCut, Cut, WholeInv, Struck
<1>6. CASE Command(s) = "put" /\ Filled(s, at[s], "part") /\ UNCHANGED late
  BY <1>1, <1>5, <1>6 DEF Filled, WholeInv, TypeOK, ScreensWhole, NewCut, Cut
<1> QED BY <1>3, <1>4, <1>6 DEF Struck, tablet

(* The steps of the program, one by one; those that can raise, raise or go  *)
(* on, and neither starts a rename of an incomplete file.                   *)
LEMMA StepWhole ==
    ASSUME WholeInv, TypeOK', NEW s \in Session, Step(s)
    PROVE  WholeInv'
<1>0. at[s] \in Screen /\ s \in Session
  BY DEF WholeInv, TypeOK
<1> USE DEF Goto, InWrite
<1> DEFINE NoNewPart == \A f \in Session \X Screen : Cut(f)' => Cut(f)
<1>r. ASSUME Raise(s, FALSE), UNCHANGED <<late, at>>, NoNewPart, ScreensWhole'
      PROVE  WholeInv'
  BY <1>r, RaiseWhole DEF WholeInv, NewCut
<1>e. ASSUME NEW c, Executed(c, s, at[s]), c # "mv", c # "open"
      PROVE  NoNewPart /\ ScreensWhole'
  BY <1>0, <1>e, ExecutedWhole
<1>u. UNCHANGED tablet => NoNewPart /\ ScreensWhole'
  BY DEF tablet, Cut, ScreensWhole, WholeInv
<1>1. CASE Enqueue(s) \/ TakeLock(s) \/ Begin(s)
  <2>1. /\ pc[s] \in Waiting /\ UNCHANGED <<tmp, screen, late, todo, at>>
        /\ \E l \in {"queued", "granted", "connect"} : Goto(s, l)
    BY <1>1 DEF Enqueue, TakeLock, Begin, tablet, Waiting
  <2>2. ScreensWhole' /\ MvWhole'
    BY <2>1 DEF WholeInv, TypeOK, ScreensWhole, MvWhole, Cut
  <2>3. LateMv' /\ OneLate' /\ AtTodo'
    BY <2>1 DEF WholeInv, TypeOK, LateMv, OneLate, AtTodo, Waiting
  <2> QED BY <2>2, <2>3 DEF WholeInv
<1>2. CASE Connect(s)
  BY <1>2, <1>u DEF Connect, tablet, WholeInv, TypeOK, MvWhole, Cut, LateMv, OneLate, AtTodo
<1>3. CASE Enter(s)
  <2>1. NoNewPart /\ ScreensWhole'
    BY <1>3, <1>u DEF Enter, Executed, Cut, ScreensWhole, WholeInv
  <2>2. CASE Goto(s, "block") /\ UNCHANGED <<lock, todo, fate>>
    BY <1>3, <2>1, <2>2 DEF Enter, WholeInv, TypeOK, MvWhole, Cut, LateMv, OneLate, AtTodo
  <2> QED BY <1>3, <1>r, <2>1, <2>2 DEF Enter
<1>4. CASE Nest(s) \/ Unnest(s)
  BY <1>4, <1>u DEF Nest, Unnest, tablet, WholeInv, MvWhole, Cut, LateMv, OneLate, AtTodo
<1>5. CASE NextScreen(s)
  <2>1. /\ pc[s] = "block" /\ Goto(s, "space") /\ at'[s] \in todo[s]
        /\ UNCHANGED <<tablet, late, todo>> /\ at' = [at EXCEPT ![s] = at'[s]]
    BY <1>5 DEF NextScreen, WholeInv, TypeOK
  <2>2. MvWhole' /\ LateMv' /\ OneLate' /\ AtTodo'
    BY <2>1 DEF tablet, WholeInv, TypeOK, MvWhole, Cut, LateMv, OneLate, AtTodo
  <2> QED BY <1>u, <2>1, <2>2 DEF WholeInv
<1>6. CASE SkipScreen(s)
  BY <1>6, <1>u DEF SkipScreen, tablet, WholeInv, TypeOK, MvWhole, Cut, LateMv, OneLate, AtTodo
<1>7. CASE CheckSpace(s)
  <2>1. CASE Goto(s, "open") /\ UNCHANGED <<lock, depth, todo, fate>>
    BY <1>7, <1>u, <2>1 DEF CheckSpace, tablet, WholeInv, TypeOK, MvWhole, Cut, LateMv, OneLate, AtTodo
  <2> QED BY <1>7, <1>r, <1>u, <2>1 DEF CheckSpace
<1>8. CASE OpenTemp(s)
  <2>1. CASE /\ tmp' = [tmp EXCEPT ![<<s, at[s]>>] = "part"]
             /\ Goto(s, "upload")
             /\ UNCHANGED <<mount, screen, lock, depth, todo, fate>>
    <3>1. <<"mv", s, at[s]>> \notin late
      BY <1>0, <1>8 DEF OpenTemp, WholeInv, LateMv, AtTodo
    <3>2. ScreensWhole' /\ LateMv' /\ OneLate' /\ AtTodo'
      BY <1>8, <2>1 DEF OpenTemp, WholeInv, TypeOK, ScreensWhole, LateMv, OneLate, AtTodo
    <3>3. MvWhole'
      BY <1>0, <1>8, <2>1, <3>1 DEF OpenTemp, WholeInv, TypeOK, MvWhole, Cut
    <3> QED BY <3>2, <3>3 DEF WholeInv
  <2> QED BY <1>8, <1>r, <1>u, <2>1 DEF OpenTemp
<1>9. CASE Upload(s)
  <2>1. /\ tmp' = [tmp EXCEPT ![<<s, at[s]>>] = "whole"] /\ UNCHANGED screen
    BY <1>9 DEF Upload, Executed, Filled
  <2>2. ScreensWhole' /\ LateMv' /\ OneLate' /\ AtTodo'
    BY <1>9, <2>1 DEF Upload, WholeInv, TypeOK, ScreensWhole, LateMv, OneLate, AtTodo
  <2>3. MvWhole'
    BY <1>0, <1>9, <2>1 DEF Upload, WholeInv, TypeOK, MvWhole, Cut
  <2> QED BY <2>2, <2>3 DEF WholeInv
<1>10. CASE Rename(s)
  <2>1. NoNewPart /\ ScreensWhole'
    <3>1. ~Cut(<<s, at[s]>>)
      BY <1>0, <1>10 DEF Rename, WholeInv, MvWhole
    <3> QED BY <1>0, <1>10, <3>1, ExecutedWhole DEF Rename
  <2>2. CASE Goto(s, "verify") /\ UNCHANGED <<lock, depth, todo, fate>>
    BY <1>10, <2>1, <2>2 DEF Rename, WholeInv, TypeOK, MvWhole, Cut, LateMv, OneLate, AtTodo
  <2> QED BY <1>10, <1>r, <2>1, <2>2 DEF Rename
<1>11. CASE CleanUp(s)
  BY <1>11, <1>e, <1>r DEF CleanUp
<1>12. CASE VerifyWrite(s)
  <2>1. CASE /\ Goto(s, "block") /\ todo' = [todo EXCEPT ![s] = @ \ {at[s]}]
    BY <1>12, <1>u, <2>1 DEF VerifyWrite, tablet, WholeInv, TypeOK, MvWhole, Cut, LateMv, OneLate, AtTodo
  <2> QED BY <1>12, <1>r, <1>u, <2>1 DEF VerifyWrite
<1>13. CASE LeaveBlock(s)
  BY <1>13, <1>u DEF LeaveBlock, tablet, WholeInv, TypeOK, MvWhole, Cut, LateMv, OneLate, AtTodo
<1>14. CASE Revert(s)
  <2>1. NoNewPart /\ ScreensWhole'
    BY <1>e, <1>u, <1>14 DEF Revert, Ineffective
  <2>2. CASE Goto(s, "check") /\ UNCHANGED <<lock, depth, todo, fate>>
    BY <1>14, <2>1, <2>2 DEF Revert, WholeInv, TypeOK, MvWhole, Cut, LateMv, OneLate, AtTodo
  <2> QED BY <1>14, <1>r, <2>1, <2>2 DEF Revert
<1>15. CASE CheckMount(s)
  <2>1. CASE Goto(s, "close") /\ UNCHANGED <<lock, todo, fate>>
    BY <1>15, <1>u, <2>1 DEF CheckMount, tablet, WholeInv, TypeOK, MvWhole, Cut, LateMv, OneLate, AtTodo
  <2> QED BY <1>15, <1>r, <1>u, <2>1 DEF CheckMount
<1>16. CASE Close(s)
  <2>1. Command(s) # "mv" /\ Command(s) # "open"
    BY <1>16 DEF Close, Command
  <2>2. NoNewPart /\ ScreensWhole'
    BY <1>e, <1>u, <1>16, <2>1 DEF Close, Ineffective
  <2> QED BY <1>16, <2>2 DEF Close, WholeInv, TypeOK, MvWhole, Cut, LateMv, OneLate, AtTodo
<1>17. CASE CallOnDeadLink(s)
  BY <1>17, <1>r, <1>u DEF CallOnDeadLink
<1> QED BY <1>1, <1>2, <1>3, <1>4, <1>5, <1>6, <1>7, <1>8, <1>9, <1>10, <1>11,
           <1>12, <1>13, <1>14, <1>15, <1>16, <1>17 DEF Step

(* Nor any fault. *)
LEMMA FaultWhole ==
    ASSUME WholeInv, TypeOK', NEW s \in Session, LoseCall(s) \/ Interrupt(s) \/ Kill(s)
    PROVE  WholeInv'
<1>1. /\ ScreensWhole' /\ NewCut(s)
      /\ late' \subseteq late \cup {<<Command(s), s, at[s]>>}
  <2>1. CASE UNCHANGED <<tablet, late>>
    BY <2>1 DEF tablet, NewCut, Cut, ScreensWhole, WholeInv
  <2> QED BY <2>1, StruckWhole DEF LoseCall, Interrupt, Kill
<1>2. CASE LoseCall(s) \/ Interrupt(s)
  BY <1>1, <1>2, RaiseWhole DEF LoseCall, Interrupt, WholeInv
<1>3. CASE Kill(s)
  <2>1. \A t \in Session : pc'[t] = "closed" \/ pc'[t] = pc[t]
    BY <1>3 DEF Kill
  <2>2. /\ pc'[s] = "closed" /\ UNCHANGED <<todo, at>>
    BY <1>3 DEF Kill
  <2>3. \A t \in Session, p \in Screen, c \in {"open", "mv"} : <<c, t, p>> \in late' =>
            \/ <<c, t, p>> \in late
            \/ t = s /\ p = at[s] /\ (IF c = "mv" THEN pc[s] = "rename" ELSE pc[s] = "open")
    BY <1>1 DEF Command
  <2>4. /\ at[s] \in Screen
        /\ pc[s] \in {"open", "upload", "rename"} =>
               \A c \in {"open", "mv"} : <<c, s, at[s]>> \notin late
    BY DEF WholeInv, TypeOK, LateMv, AtTodo, InWrite
  <2>5. MvWhole'
    <3> SUFFICES ASSUME NEW t \in Session, NEW p \in Screen, Cut(<<t, p>>)'
                 PROVE  ~(pc'[t] = "rename" /\ at'[t] = p) /\ <<"mv", t, p>> \notin late'
      BY DEF MvWhole, Cut
    <3>1. CASE t = s /\ p = at[s] /\ pc[s] \in {"open", "upload"}
      BY <2>2, <2>3, <2>4, <3>1
    <3>2. CASE Cut(<<t, p>>)
      <4>1. ~(pc[t] = "rename" /\ at[t] = p) /\ <<"mv", t, p>> \notin late
        BY <3>2 DEF WholeInv, MvWhole
      <4> QED BY <2>1, <2>2, <2>3, <4>1
    <3> QED BY <1>1, <3>1, <3>2 DEF NewCut
  <2>6. LateMv'
    <3> SUFFICES ASSUME NEW t \in Session, NEW p \in Screen, NEW c \in {"open", "mv"},
                        <<c, t, p>> \in late'
                 PROVE  \/ p \notin todo'[t]
                        \/ pc'[t] = "cleanup" /\ at'[t] = p
                        \/ pc'[t] \in {"revert", "check", "close", "closed"}
      BY DEF LateMv
    <3>1. CASE t # s
      BY <2>1, <2>2, <2>3, <3>1 DEF LateMv, WholeInv
    <3> QED BY <2>2, <3>1
  <2>7. OneLate'
    <3> SUFFICES ASSUME NEW t \in Session, NEW p \in Screen, <<"open", t, p>> \in late'
                 PROVE  <<"mv", t, p>> \notin late'
      BY DEF OneLate
    <3> SUFFICES ASSUME <<"mv", t, p>> \in late' PROVE FALSE
      OBVIOUS
    <3>1. ~(<<"open", t, p>> \in late /\ <<"mv", t, p>> \in late)
      BY DEF OneLate, WholeInv
    <3>2. t = s /\ p = at[s] /\ pc[s] \in {"open", "rename"}
      BY <2>3, <3>1
    <3>3. <<"open", s, p>> \notin late /\ <<"mv", s, p>> \notin late
      BY <2>4, <3>2
    <3> QED BY <2>3, <3>2, <3>3
  <2>8. AtTodo'
    BY <2>1, <2>2 DEF AtTodo, InWrite, WholeInv
  <2> QED BY <1>1, <2>5, <2>6, <2>7, <2>8 DEF WholeInv
<1> QED BY <1>2, <1>3

(* Nor a command that completes late. *)
LEMMA LateWhole ==
    ASSUME WholeInv, TypeOK', FinishLate
    PROVE  WholeInv'
<1>1. PICK c \in late : /\ Executed(c[1], c[2], c[3])
                        /\ late' = late \ {c}
                        /\ UNCHANGED <<lock, pc, depth, todo, at, up, hits, fate>>
  BY DEF FinishLate
<1>2. /\ c[2] \in Session /\ c[3] \in Screen
      /\ c = <<c[1], c[2], c[3]>>
  BY DEF WholeInv, TypeOK
<1>3. /\ ScreensWhole'
      /\ \A f \in Session \X Screen :
             Cut(f)' => Cut(f) \/ (c[1] = "open" /\ f = <<c[2], c[3]>>)
  <2>1. c[1] = "mv" => ~Cut(<<c[2], c[3]>>)
    BY <1>1, <1>2 DEF WholeInv, MvWhole
  <2> QED BY <1>1, <1>2, <2>1, ExecutedWhole
<1>4. MvWhole'
  <2> SUFFICES ASSUME NEW t \in Session, NEW p \in Screen, Cut(<<t, p>>)'
               PROVE  ~(pc[t] = "rename" /\ at[t] = p) /\ <<"mv", t, p>> \notin late
    BY <1>1 DEF MvWhole, Cut
  <2>1. CASE Cut(<<t, p>>)
    BY <2>1 DEF WholeInv, MvWhole
  <2>2. CASE c[1] = "open" /\ <<t, p>> = <<c[2], c[3]>>
    BY <1>2, <2>2 DEF WholeInv, LateMv, OneLate, AtTodo, InWrite
  <2> QED BY <1>3, <2>1, <2>2
<1>5. LateMv' /\ OneLate' /\ AtTodo'
  BY <1>1 DEF WholeInv, LateMv, OneLate, AtTodo
<1> QED BY <1>3, <1>4, <1>5 DEF WholeInv

(* The end of a connection leaves the names on / as they are. *)
LEMMA HangUpWhole ==
    ASSUME WholeInv, TypeOK', NEW s \in Session, HangUp(s)
    PROVE  WholeInv'
<1>1. /\ \A f \in Session \X Screen : Cut(f)' => Cut(f)
      /\ UNCHANGED screen
  BY DEF HangUp, Dropped, tablet, Cut, WholeInv, TypeOK
<1> QED BY <1>1 DEF HangUp, WholeInv, ScreensWhole, MvWhole, LateMv, OneLate, AtTodo

LEMMA InitWhole == Init => WholeInv
BY InitTyped, NamesAssumption DEF Init, WholeInv, ScreensWhole, MvWhole, Cut, LateMv, OneLate, AtTodo, InWrite

LEMMA NextWhole == ASSUME WholeInv, TypeOK', [Next]_vars PROVE WholeInv'
<1>1. CASE UNCHANGED vars
  BY <1>1 DEF vars, WholeInv, ScreensWhole, MvWhole, Cut, LateMv, OneLate, AtTodo
<1>2. CASE \E s \in Session : Step(s) \/ LoseCall(s) \/ Interrupt(s) \/ Kill(s) \/ HangUp(s)
  BY <1>2, StepWhole, FaultWhole, HangUpWhole
<1>3. CASE FinishLate
  BY <1>3, LateWhole
<1> QED BY <1>1, <1>2, <1>3 DEF Next, Done

LEMMA WholeAlways == Spec => []WholeInv
<1>1. WholeInv /\ TypeOK' /\ [Next]_vars => WholeInv'
  BY NextWhole
<1> QED BY InitWhole, <1>1, TypeCorrect, PTL DEF Spec

(* Whatever faults hit whatever sessions, no screen path ever holds an      *)
(* incomplete upload: "an interrupted transfer cannot leave a half-written  *)
(* screen in place".                                                        *)
THEOREM NoTornScreen == Spec => []ScreensWhole
<1>1. WholeInv => ScreensWhole
  BY DEF WholeInv
<1> QED BY <1>1, WholeAlways, PTL

-----------------------------------------------------------------------------
(* Requests behind the lock, whose commands do not outlive them, keep their *)
(* remounts: at most one request is past TakeLock, and it is the one that   *)
(* mounts / and the only one that could unmount it.                         *)

NoLock == {"idle", "queued", "closed"}

LockHeld == \A s \in Web : pc[s] \notin NoLock <=> lock = s

LockInv == TypeOK /\ LockHeld /\ NotUnderAnothersWrite /\ late = {}

(* An exception gives the lock back only when the session closes. *)
LEMMA RaiseLock ==
    ASSUME TypeOK, LockHeld, Web = Session, NEW s \in Session, pc[s] \notin NoLock,
           NEW base \in BOOLEAN, Raise(s, base)
    PROVE  LockHeld' /\ (pc'[s] \in InBlock => pc[s] \in InBlock)
<1>1. /\ Handler(s, base) \in {"cleanup", "block", "revert", "close", "closed"}
      /\ Handler(s, base) \in InBlock => pc[s] \in InBlock
  BY DEF Handler, InBlock, InWrite
<1>2. lock = s
  BY DEF LockHeld
<1>3. NoOne \notin Session
  BY NamesAssumption
<1> QED BY <1>1, <1>2, <1>3 DEF Raise, Released, TypeOK, LockHeld, NoLock

(* No command but remount,ro makes a writable / read-only. *)
LEMMA ExecutedMount ==
    ASSUME NEW s, NEW p, NEW c, c # "ro", Executed(c, s, p), mount = "rw"
    PROVE  mount' = "rw"
BY DEF Executed, Created, Filled, Dropped, Moved, Removed, tablet

(* A request's step leaves the lock with the request at work. *)
LEMMA StepLock ==
    ASSUME LockInv, Web = Session, NEW s \in Session, Step(s)
    PROVE  LockHeld' /\ NotUnderAnothersWrite' /\ late' = {}
<1> USE DEF Goto, NoLock
<1>0. NoOne \notin Session
  BY NamesAssumption
<1>1. late' = {}
  BY DEF Step, Enqueue, TakeLock, Begin, Connect, Enter, Nest, Unnest, NextScreen, SkipScreen, CheckSpace,
         OpenTemp, Upload, Rename, CleanUp, VerifyWrite, LeaveBlock, Revert, CheckMount,
         Close, CallOnDeadLink, LockInv
<1>2. CASE Enqueue(s) \/ TakeLock(s)
  BY <1>0, <1>1, <1>2 DEF Enqueue, TakeLock, tablet, LockInv, TypeOK, LockHeld,
         NotUnderAnothersWrite, InBlock, InWrite
<1>3. ASSUME pc[s] \notin NoLock, UNCHANGED lock, pc' = [pc EXCEPT ![s] = pc'[s]],
             pc'[s] \notin NoLock,
             pc'[s] \in InBlock => mount' = "rw"
      PROVE  LockHeld' /\ NotUnderAnothersWrite'
  BY <1>3 DEF LockInv, TypeOK, LockHeld, NotUnderAnothersWrite, InBlock, InWrite
<1>4. pc[s] \notin NoLock /\ Raise(s, FALSE) /\ (pc[s] \in InBlock => mount' = "rw")
      => LockHeld' /\ NotUnderAnothersWrite'
  <2> SUFFICES ASSUME pc[s] \notin NoLock, Raise(s, FALSE),
                      pc[s] \in InBlock => mount' = "rw"
               PROVE  LockHeld' /\ NotUnderAnothersWrite'
    OBVIOUS
  <2>1. LockHeld' /\ (pc'[s] \in InBlock => pc[s] \in InBlock)
    BY RaiseLock DEF LockInv
  <2>2. \A t \in Session \ {s} : pc'[t] = pc[t] /\ pc[t] \notin InBlock
    BY DEF Raise, LockInv, TypeOK, LockHeld, InBlock, InWrite
  <2> QED BY <2>1, <2>2 DEF NotUnderAnothersWrite
<1>5. pc[s] \in InBlock => mount = "rw"
  BY DEF LockInv, NotUnderAnothersWrite
<1>6. CASE Begin(s) \/ Connect(s)
  BY <1>1, <1>6, <1>3 DEF Begin, Connect, LockInv, TypeOK, InBlock, InWrite
<1>7. CASE Enter(s)
  <2>1. CASE Raise(s, FALSE) /\ UNCHANGED tablet
    BY <1>1, <1>7, <2>1, <1>4 DEF Enter, InBlock, InWrite
  <2>2. CASE Executed("rw", s, at[s]) /\ Goto(s, "block") /\ UNCHANGED <<lock, todo, fate>>
    <3>1. mount' = "rw"
      BY <2>2 DEF Executed
    <3> QED BY <1>1, <1>7, <2>2, <3>1, <1>3 DEF Enter, LockInv, TypeOK
  <2> QED BY <1>7, <2>1, <2>2 DEF Enter
<1>8. CASE Nest(s) \/ Unnest(s) \/ SkipScreen(s)
  BY <1>8 DEF Nest, Unnest, SkipScreen, tablet, LockInv, LockHeld, NotUnderAnothersWrite
<1>9. CASE NextScreen(s) \/ LeaveBlock(s)
  BY <1>1, <1>9, <1>3, <1>5 DEF NextScreen, LeaveBlock, tablet, LockInv, TypeOK, InBlock, InWrite
<1>10. CASE CheckSpace(s) \/ VerifyWrite(s) \/ CheckMount(s)
  <2>1. CASE Raise(s, FALSE)
    BY <1>1, <1>10, <2>1, <1>4, <1>5 DEF CheckSpace, VerifyWrite, CheckMount, tablet
  <2>2. CASE ~Raise(s, FALSE)
    BY <1>1, <1>10, <2>2, <1>3, <1>5
       DEF CheckSpace, VerifyWrite, CheckMount, tablet, LockInv, TypeOK, InBlock, InWrite
  <2> QED BY <2>1, <2>2
<1>11. CASE OpenTemp(s)
  <2>1. CASE Raise(s, FALSE) /\ UNCHANGED tablet
    BY <1>1, <1>11, <2>1, <1>4, <1>5 DEF OpenTemp, tablet
  <2>2. CASE Goto(s, "upload") /\ UNCHANGED <<mount, screen, lock, depth, todo, fate>>
    BY <1>1, <1>11, <2>2, <1>3, <1>5 DEF OpenTemp, LockInv, TypeOK, InBlock, InWrite
  <2> QED BY <1>11, <2>1, <2>2 DEF OpenTemp
<1>12. CASE Upload(s)
  <2>1. mount' = "rw"
    BY <1>5, <1>12, ExecutedMount DEF Upload, InBlock, InWrite
  <2> QED BY <1>1, <1>12, <2>1, <1>3 DEF Upload, LockInv, TypeOK
<1>13. CASE Rename(s)
  <2>1. mount' = "rw"
    BY <1>5, <1>13, ExecutedMount DEF Rename, InBlock, InWrite
  <2>2. CASE Raise(s, FALSE)
    BY <1>1, <1>13, <2>1, <2>2, <1>4 DEF Rename
  <2>3. CASE Goto(s, "verify") /\ UNCHANGED <<lock, depth, todo, fate>>
    BY <1>1, <1>13, <2>1, <2>3, <1>3 DEF Rename, LockInv, TypeOK
  <2> QED BY <1>13, <2>2, <2>3 DEF Rename
<1>14. CASE CleanUp(s)
  <2>1. mount' = "rw"
    BY <1>5, <1>14, ExecutedMount DEF CleanUp, InBlock, InWrite
  <2> QED BY <1>1, <1>14, <2>1, <1>4 DEF CleanUp
<1>15. CASE Revert(s)
  <2>1. CASE Raise(s, FALSE)
    BY <1>1, <1>15, <2>1, <1>4 DEF Revert, InBlock, InWrite
  <2>2. CASE Goto(s, "check") /\ UNCHANGED <<lock, depth, todo, fate>>
    BY <1>1, <1>15, <2>2, <1>3 DEF Revert, LockInv, TypeOK, InBlock, InWrite
  <2> QED BY <1>15, <2>1, <2>2 DEF Revert
<1>16. CASE Close(s)
  <2>1. lock = s /\ \A t \in Session \ {s} : pc[t] \in NoLock
    BY <1>16 DEF Close, LockInv, LockHeld
  <2> QED BY <1>0, <1>1, <1>16, <2>1
             DEF Close, Released, LockInv, TypeOK, LockHeld, NotUnderAnothersWrite, InBlock, InWrite
<1>17. CASE CallOnDeadLink(s)
  BY <1>1, <1>17, <1>4, <1>5 DEF CallOnDeadLink, AtCall, InCall, InWrite, tablet
<1> QED BY <1>1, <1>2, <1>6, <1>7, <1>8, <1>9, <1>10, <1>11, <1>12, <1>13, <1>14,
           <1>15, <1>16, <1>17 DEF Step

(* A fault takes the lock from no request that goes on. *)
LEMMA FaultLock ==
    ASSUME LockInv, Web = Session, "late" \notin Fault, NEW s \in Session,
           LoseCall(s) \/ Kill(s)
    PROVE  LockHeld' /\ NotUnderAnothersWrite' /\ late' = {}
<1>1. late' = {}
  BY DEF LoseCall, Kill, Struck, LockInv
<1>2. CASE LoseCall(s)
  <2>1. pc[s] \notin NoLock
    BY <1>2 DEF LoseCall, AtCall, InCall, InWrite, NoLock
  <2>2. LockHeld' /\ (pc'[s] \in InBlock => pc[s] \in InBlock)
    BY <1>2, <2>1, RaiseLock DEF LoseCall, LockInv
  <2>3. pc[s] \in InBlock => mount' = "rw"
    <3>1. pc[s] \in InBlock => Command(s) # "ro" /\ mount = "rw"
      BY DEF Command, InBlock, InWrite, LockInv, NotUnderAnothersWrite
    <3> QED BY <1>2, <3>1, ExecutedMount DEF LoseCall, Struck, Filled, tablet
  <2>4. \A t \in Session \ {s} : pc'[t] = pc[t] /\ pc[t] \notin InBlock
    BY <1>2, <2>1 DEF LoseCall, Raise, LockInv, TypeOK, LockHeld, NoLock, InBlock, InWrite
  <2> QED BY <1>1, <2>2, <2>3, <2>4 DEF NotUnderAnothersWrite
<1>3. CASE Kill(s)
  <2>1. \A t \in Session : pc'[t] \in {"idle", "closed"}
    BY <1>3 DEF Kill
  <2>2. lock' = NoOne
    BY <1>3 DEF Kill, LockInv, LockHeld, TypeOK, NoLock
  <2> QED BY <1>1, <2>1, <2>2, NamesAssumption
             DEF LockHeld, NoLock, NotUnderAnothersWrite, InBlock, InWrite
<1> QED BY <1>2, <1>3

(* The lock and the remount of the request that holds it go together.      *)
LEMMA LockAlways ==
    ASSUME Web = Session, "late" \notin Fault
    PROVE  Spec => []LockInv
<1>1. Init => LockHeld /\ NotUnderAnothersWrite /\ late = {}
  BY NamesAssumption DEF Init, LockHeld, NoLock, NotUnderAnothersWrite, InBlock, InWrite
<1>2. LockInv /\ TypeOK' /\ [Next]_vars => LockInv'
  <2> SUFFICES ASSUME LockInv, TypeOK', [Next]_vars
               PROVE  LockHeld' /\ NotUnderAnothersWrite' /\ late' = {}
    BY DEF LockInv
  <2>1. CASE UNCHANGED vars
    BY <2>1 DEF vars, LockInv, LockHeld, NotUnderAnothersWrite
  <2>2. CASE \E s \in Session : Step(s) \/ LoseCall(s) \/ Interrupt(s) \/ Kill(s) \/ HangUp(s)
    <3>1. \A s \in Session : ~Interrupt(s)
      BY DEF Interrupt
    <3>2. \A s \in Session : HangUp(s) => UNCHANGED <<mount, lock, pc, late>>
      BY DEF HangUp, Dropped, tablet
    <3>3. UNCHANGED <<mount, lock, pc, late>> => LockHeld' /\ NotUnderAnothersWrite' /\ late' = {}
      BY DEF LockInv, LockHeld, NotUnderAnothersWrite
    <3> QED BY <2>2, <3>1, <3>2, <3>3, StepLock, FaultLock
  <2>3. ~FinishLate
    BY DEF FinishLate, LockInv
  <2> QED BY <2>1, <2>2, <2>3 DEF Next, Done
<1>3. Init => LockInv
  BY <1>1, InitTyped DEF LockInv
<1> QED BY <1>2, <1>3, TypeCorrect, PTL DEF Spec

(* "Different requests must not remount read-only during another request's  *)
(* write": true of any number of requests, under dead links, lost calls and *)
(* a dying server, as long as no command outlives its call.                 *)
THEOREM RequestsKeepTheirRemount ==
    ASSUME Web = Session, "late" \notin Fault
    PROVE  Spec => []NotUnderAnothersWrite
<1>1. LockInv => NotUnderAnothersWrite
  BY DEF LockInv
<1> QED BY <1>1, LockAlways, PTL

-----------------------------------------------------------------------------
(* The refinement of AtomicWrites.  A rename finds a complete file in place  *)
(* (Full), its session removes that file only when it is through with the   *)
(* screen (LateRm), and a session of one screen reports success only past   *)
(* its verification (Okay).                                                 *)

Ending == {"revert", "check", "close", "closed"}

Full(s) == pc[s] = "rename" => tmp[<<s, at[s]>>] = "whole"

LateRm(s) == \A p \in Screen : <<"rm", s, p>> \in late => p \notin todo[s] \/ pc[s] \in Ending

(* A session of one screen that has verified it has it no longer to do. *)
Verified(s) == s \notin Batch => /\ todo[s] \subseteq {at[s]}
                                 /\ at[s] \notin todo[s] => /\ pc[s] \in {"block"} \cup Ending
                                                            /\ <<"mv", s, at[s]>> \notin late

Okay(s) ==
    /\ s \notin Batch /\ pc[s] \in Ending /\ fate[s] \in {"running", "ok"} => at[s] \notin todo[s]
    /\ fate[s] = "ok" => pc[s] = "closed"

OneWrite(s) == Full(s) /\ LateRm(s) /\ Verified(s) /\ Okay(s)
WriteInv == WholeInv /\ \A s \in Session : OneWrite(s)

(* What a command of one session leaves of the files of the others. *)
LEMMA ExecutedElsewhere ==
    ASSUME TypeOK, NEW s \in Session, NEW p \in Screen, NEW c, Executed(c, s, p)
    PROVE  /\ \A f \in Session \X Screen : f # <<s, p>> => tmp'[f] = tmp[f]
           /\ \/ UNCHANGED screen
              \/ /\ c = "mv" /\ HasName(<<s, p>>)
                 /\ screen' = [screen EXCEPT ![p] = IF tmp[<<s, p>>] = "whole" THEN Image(s) ELSE Torn]
           /\ tmp[<<s, p>>] = "whole" /\ c \notin {"put", "mv", "rm"} => UNCHANGED tmp
<1>1. CASE c = "put" /\ (Filled(s, p, "whole") \/ Dropped(s, p))
  BY <1>1 DEF Filled, Dropped, tablet, TypeOK
<1>2. CASE c = "open" /\ Created(s, p)
  BY <1>2 DEF Created, tablet, TypeOK
<1>3. CASE c = "mv" /\ Moved(s, p)
  BY <1>3 DEF Moved, tablet, TypeOK
<1>4. CASE c = "rm" /\ Removed(s, p)
  BY <1>4 DEF Removed, tablet, TypeOK
<1>5. CASE UNCHANGED <<tmp, screen>>
  BY <1>5
<1> QED BY <1>1, <1>2, <1>3, <1>4, <1>5 DEF Executed, tablet

LEMMA StruckElsewhere ==
    ASSUME WriteInv, NEW s \in Session, Struck(s)
    PROVE  /\ \A f \in Session \X Screen : f[1] # s => tmp'[f] = tmp[f]
           /\ late \subseteq late' /\ late' \subseteq late \cup {<<Command(s), s, at[s]>>}
           /\ \/ UNCHANGED screen
              \/ /\ pc[s] = "rename" /\ UNCHANGED late
                 /\ screen' = [screen EXCEPT ![at[s]] = Image(s)]
<1>0. TypeOK /\ at[s] \in Screen /\ Full(s)
  BY DEF WriteInv, WholeInv, OneWrite, TypeOK
<1>1. \A f \in Session \X Screen : f[1] # s => f # <<s, at[s]>>
  OBVIOUS
<1>2. CASE Executed(Command(s), s, at[s]) /\ UNCHANGED late
  <2>1. Command(s) = "mv" => pc[s] = "rename"
    BY DEF Command
  <2> QED BY <1>0, <1>1, <1>2, <2>1, ExecutedElsewhere DEF Full
<1>3. CASE UNCHANGED tablet /\ late \subseteq late' /\ late' \subseteq late \cup {<<Command(s), s, at[s]>>}
  BY <1>3 DEF tablet
<1>4. CASE Filled(s, at[s], "part") /\ UNCHANGED late
  BY <1>0, <1>1, <1>4 DEF Filled, TypeOK
<1> QED BY <1>2, <1>3, <1>4 DEF Struck, tablet

(* The step of one session says nothing of another. *)
LEMMA OthersOneWrite ==
    ASSUME WriteInv, NEW s \in Session, OthersKept(s),
           \A f \in Session \X Screen : f[1] # s => tmp'[f] = tmp[f],
           late' \subseteq late \cup {<<Command(s), s, at[s]>>},
           NEW t \in Session \ {s}
    PROVE  OneWrite(t)'
<1>1. /\ pc'[t] = pc[t] /\ at'[t] = at[t] /\ todo'[t] = todo[t] /\ fate'[t] = fate[t]
      /\ OneWrite(t) /\ at[t] \in Screen
  BY DEF OthersKept, WriteInv, WholeInv, TypeOK
<1>2. \A c, p : <<c, t, p>> \in late' => <<c, t, p>> \in late
  OBVIOUS
<1>3. tmp'[<<t, at[t]>>] = tmp[<<t, at[t]>>]
  BY <1>1
<1> QED BY <1>1, <1>2, <1>3 DEF OneWrite, Full, LateRm, Verified, Okay

(* An exception, with the command it interrupts perhaps still running. *)
LEMMA RaiseOneWrite ==
    ASSUME WriteInv, NEW s \in Session, NEW base \in BOOLEAN, Raise(s, base), UNCHANGED at,
           late' \subseteq late \cup {<<Command(s), s, at[s]>>}
    PROVE  OneWrite(s)'
<1> DEFINE h == Handler(s, base)
<1>0. /\ OneWrite(s) /\ at'[s] = at[s]
      /\ pc[s] \in InWrite => at[s] \in todo[s]
  BY DEF WriteInv, WholeInv, AtTodo
<1>1. /\ h \in {"cleanup", "block", "revert", "close", "closed"}
      /\ h = "cleanup" => pc[s] \in {"open", "upload", "rename"}
      /\ h = "block" => pc[s] \in {"space", "cleanup", "verify"} /\ s \in Batch
      /\ pc[s] = "cleanup" => h \in {"block", "revert"}
      /\ pc[s] \in Ending \cup {"closed"} => h \in Ending
      /\ pc[s] = "block" /\ s \notin Batch => h = "revert"
      /\ pc[s] = "closed" => h = "closed"
  BY DEF Handler, Ending
<1>2. /\ pc'[s] = h
      /\ todo'[s] = IF h = "block" THEN todo[s] \ {at[s]} ELSE todo[s]
      /\ fate'[s] = CASE pc[s] = "enter" -> "unentered"
                      [] h \in {"cleanup", "block"} \/ pc[s] = "close" -> fate[s]
                      [] OTHER -> IF fate[s] = "running" THEN "failed" ELSE fate[s]
  BY DEF Raise, WriteInv, WholeInv, TypeOK
<1>3. \A c, p : <<c, s, p>> \in late' => <<c, s, p>> \in late \/ (c = Command(s) /\ p = at[s])
  OBVIOUS
<1>4. (Command(s) = "mv" => pc[s] = "rename") /\ (Command(s) = "rm" => pc[s] = "cleanup")
  BY DEF Command
<1>5. Full(s)' /\ LateRm(s)'
  BY <1>0, <1>1, <1>2, <1>3, <1>4 DEF Full, LateRm, OneWrite, Ending
<1>6. Verified(s)'
  BY <1>0, <1>1, <1>2, <1>3, <1>4 DEF Verified, OneWrite, Ending, InWrite
<1>7. Okay(s)'
  BY <1>0, <1>1, <1>2 DEF Okay, OneWrite, Ending
<1> QED BY <1>5, <1>6, <1>7 DEF OneWrite

(* The steps that do not raise, of a session and of what it has sent. *)
LEMMA StepOneWrite ==
    ASSUME WriteInv, NEW s \in Session, Step(s)
    PROVE  /\ OneWrite(s)' /\ UNCHANGED late
           /\ \A f \in Session \X Screen : f[1] # s => tmp'[f] = tmp[f]
<1> USE DEF Goto
<1>0. /\ TypeOK /\ OneWrite(s) /\ at[s] \in Screen /\ WholeInv
      /\ pc[s] \in InWrite => at[s] \in todo[s]
  BY DEF WriteInv, WholeInv, AtTodo, TypeOK
<1>f. \A f \in Session \X Screen : f[1] # s => f # <<s, at[s]>>
  OBVIOUS
<1>r. ASSUME Raise(s, FALSE), UNCHANGED <<late, at>>
      PROVE  OneWrite(s)'
  BY <1>r, RaiseOneWrite
<1> DEFINE Elsewhere == \A f \in Session \X Screen : f[1] # s => tmp'[f] = tmp[f]
<1>u. UNCHANGED tmp => Elsewhere
  OBVIOUS
<1>e. ASSUME NEW c, Executed(c, s, at[s]) PROVE Elsewhere
  <2>1. \A f \in Session \X Screen : f # <<s, at[s]>> => tmp'[f] = tmp[f]
    BY <1>0, <1>e, ExecutedElsewhere
  <2> QED BY <1>f, <2>1
<1>1. CASE Enqueue(s) \/ TakeLock(s) \/ Begin(s)
  BY <1>0, <1>1 DEF Enqueue, TakeLock, Begin, tablet, TypeOK, OneWrite, Full, LateRm, Verified,
                    Okay, Ending
<1>2. CASE Connect(s) \/ Nest(s) \/ Unnest(s)
  BY <1>0, <1>2 DEF Connect, Nest, Unnest, tablet, TypeOK, OneWrite, Full, LateRm, Verified,
                    Okay, Ending
<1>3. CASE Enter(s)
  <2>1. CASE Executed("rw", s, at[s]) /\ Goto(s, "block") /\ UNCHANGED <<todo, fate>>
    BY <1>0, <1>3, <1>e, <2>1 DEF Enter, TypeOK, OneWrite, Full, LateRm, Verified, Okay, Ending
  <2> QED BY <1>3, <1>r, <1>u, <2>1 DEF Enter, tablet
<1>4. CASE NextScreen(s) \/ SkipScreen(s)
  BY <1>0, <1>4 DEF NextScreen, SkipScreen, tablet, TypeOK, OneWrite, Full, LateRm, Verified,
                    Okay, Ending
<1>5. CASE CheckSpace(s)
  <2>1. CASE Goto(s, "open") /\ UNCHANGED <<todo, fate>>
    BY <1>0, <1>5, <2>1 DEF CheckSpace, tablet, TypeOK, OneWrite, Full, LateRm, Verified, Okay,
                            Ending, InWrite
  <2> QED BY <1>5, <1>r, <1>u, <2>1 DEF CheckSpace, tablet
<1>6. CASE OpenTemp(s)
  <2>1. CASE tmp' = [tmp EXCEPT ![<<s, at[s]>>] = "part"] /\ Goto(s, "upload") /\ UNCHANGED <<todo, fate>>
    BY <1>0, <1>6, <1>f, <2>1 DEF OpenTemp, TypeOK, OneWrite, Full, LateRm, Verified, Okay,
                            Ending, InWrite
  <2> QED BY <1>6, <1>r, <1>u, <2>1 DEF OpenTemp, tablet
<1>7. CASE Upload(s)
  <2>1. tmp' = [tmp EXCEPT ![<<s, at[s]>>] = "whole"] /\ Goto(s, "rename") /\ UNCHANGED <<late, at, todo, fate>>
    BY <1>7 DEF Upload, Executed, Filled
  <2>2. pc[s] = "upload"
    BY <1>7 DEF Upload
  <2> QED BY <1>0, <1>f, <2>1, <2>2 DEF TypeOK, OneWrite, Full, LateRm, Verified, Okay, Ending, InWrite
<1>8. CASE Rename(s)
  <2>1. CASE Goto(s, "verify") /\ UNCHANGED <<todo, fate>>
    BY <1>0, <1>8, <1>e, <2>1 DEF Rename, TypeOK, OneWrite, Full, LateRm, Verified, Okay,
                                  Ending, InWrite
  <2> QED BY <1>8, <1>e, <1>r, <2>1 DEF Rename
<1>9. CASE CleanUp(s)
  BY <1>9, <1>e, <1>r DEF CleanUp
<1>10. CASE VerifyWrite(s)
  <2>1. CASE Goto(s, "block") /\ todo' = [todo EXCEPT ![s] = @ \ {at[s]}] /\ UNCHANGED fate
    <3>1. <<"mv", s, at[s]>> \notin late
      BY <1>0, <1>10 DEF VerifyWrite, WholeInv, LateMv, InWrite
    <3> QED BY <1>0, <1>10, <2>1, <3>1 DEF VerifyWrite, tablet, TypeOK, OneWrite, Full, LateRm,
                                           Verified, Okay, Ending
  <2> QED BY <1>10, <1>r, <1>u, <2>1 DEF VerifyWrite, tablet
<1>11. CASE LeaveBlock(s)
  BY <1>0, <1>11 DEF LeaveBlock, tablet, TypeOK, OneWrite, Full, LateRm, Verified, Okay, Ending
<1>12. CASE Revert(s)
  <2>1. Elsewhere
    BY <1>12, <1>e, <1>u DEF Revert, Ineffective, tablet
  <2>2. CASE Goto(s, "check") /\ UNCHANGED <<todo, fate>>
    BY <1>0, <1>12, <2>1, <2>2 DEF Revert, TypeOK, OneWrite, Full, LateRm, Verified, Okay, Ending
  <2> QED BY <1>12, <1>r, <2>1, <2>2 DEF Revert
<1>13. CASE CheckMount(s)
  <2>1. CASE Goto(s, "close") /\ UNCHANGED <<todo, fate>>
    BY <1>0, <1>13, <2>1 DEF CheckMount, tablet, TypeOK, OneWrite, Full, LateRm, Verified, Okay, Ending
  <2> QED BY <1>13, <1>r, <1>u, <2>1 DEF CheckMount, tablet
<1>14. CASE Close(s)
  <2>1. Elsewhere
    BY <1>14, <1>e, <1>u DEF Close, Ineffective, tablet
  <2>2. /\ pc[s] = "close" /\ Goto(s, "closed") /\ UNCHANGED <<late, todo, at>>
        /\ fate'[s] = IF fate[s] = "running" THEN "ok" ELSE fate[s]
    BY <1>0, <1>14 DEF Close, TypeOK
  <2> QED BY <1>0, <2>1, <2>2 DEF TypeOK, OneWrite, Full, LateRm, Verified, Okay, Ending
<1>15. CASE CallOnDeadLink(s)
  BY <1>15, <1>r, <1>u DEF CallOnDeadLink, tablet
<1> QED BY <1>1, <1>2, <1>3, <1>4, <1>5, <1>6, <1>7, <1>8, <1>9, <1>10, <1>11, <1>12, <1>13,
           <1>14, <1>15 DEF Step

LEMMA KillOneWrite ==
    ASSUME WriteInv, NEW s \in Session, Kill(s), NEW t \in Session
    PROVE  OneWrite(t)'
<1> DEFINE dead == {u \in IF s \in Web THEN Web ELSE {s} : pc[u] \notin {"idle", "closed"}}
<1>1. /\ s \in dead /\ UNCHANGED <<todo, at>>
      /\ \A u \in Session : u \in dead => pc'[u] = "closed" /\ fate'[u] = "killed"
      /\ \A u \in Session : u \notin dead => pc'[u] = pc[u] /\ fate'[u] = fate[u]
      /\ Struck(s) \/ UNCHANGED <<tablet, late>>
  BY DEF Kill
<1>2. /\ \A f \in Session \X Screen : f[1] # s => tmp'[f] = tmp[f]
      /\ late' \subseteq late \cup {<<Command(s), s, at[s]>>}
  BY <1>1, StruckElsewhere DEF tablet
<1>3. /\ OneWrite(t) /\ at[t] \in Screen /\ todo[t] \subseteq Screen
      /\ pc[t] \in InWrite => at[t] \in todo[t]
  BY DEF WriteInv, WholeInv, AtTodo, TypeOK
<1>4. CASE t \in dead
  <2>1. \A p : <<"mv", t, p>> \in late' => <<"mv", t, p>> \in late \/ pc[t] = "rename"
    BY <1>2 DEF Command
  <2> QED BY <1>1, <1>3, <1>4, <2>1 DEF OneWrite, Full, LateRm, Verified, Okay, Ending, InWrite
<1>5. CASE t \notin dead
  <2>1. t # s /\ \A c, p : <<c, t, p>> \in late' => <<c, t, p>> \in late
    BY <1>1, <1>2, <1>5
  <2>2. tmp'[<<t, at[t]>>] = tmp[<<t, at[t]>>]
    BY <1>2, <1>3, <2>1
  <2> QED BY <1>1, <1>3, <1>5, <2>1, <2>2 DEF OneWrite, Full, LateRm, Verified, Okay
<1> QED BY <1>4, <1>5

(* A command that completes late finds no session about to rename its file. *)
LEMMA LateOneWrite ==
    ASSUME WriteInv, FinishLate, NEW t \in Session
    PROVE  OneWrite(t)'
<1>1. PICK c \in late : /\ Executed(c[1], c[2], c[3])
                        /\ late' = late \ {c}
                        /\ UNCHANGED <<lock, pc, depth, todo, at, up, hits, fate>>
  BY DEF FinishLate
<1>2. /\ c[1] \in {"rw", "ro", "open", "put", "mv", "rm"} /\ c[2] \in Session /\ c[3] \in Screen
      /\ c = <<c[1], c[2], c[3]>>
  BY DEF WriteInv, WholeInv, TypeOK
<1>3. /\ OneWrite(t) /\ WholeInv /\ TypeOK /\ at[t] \in Screen
      /\ pc[t] \in InWrite => at[t] \in todo[t]
  BY DEF WriteInv, WholeInv, AtTodo, TypeOK
<1>4. pc[t] = "rename" => tmp'[<<t, at[t]>>] = tmp[<<t, at[t]>>]
  <2> SUFFICES ASSUME pc[t] = "rename" PROVE tmp'[<<t, at[t]>>] = tmp[<<t, at[t]>>]
    OBVIOUS
  <2>1. /\ <<"mv", t, at[t]>> \notin late /\ <<"rm", t, at[t]>> \notin late
        /\ tmp[<<t, at[t]>>] = "whole"
    BY <1>3 DEF WholeInv, LateMv, OneWrite, Full, LateRm, Ending, InWrite
  <2>2. c[1] \in {"mv", "rm"} => <<c[2], c[3]>> # <<t, at[t]>>
    BY <1>2, <2>1
  <2>3. /\ \A f \in Session \X Screen : f # <<c[2], c[3]>> => tmp'[f] = tmp[f]
        /\ <<c[2], c[3]>> = <<t, at[t]>> /\ c[1] # "put" => UNCHANGED tmp
    BY <1>1, <1>2, <1>3, <2>1, <2>2, ExecutedElsewhere
  <2>4. c[1] = "put" /\ <<c[2], c[3]>> = <<t, at[t]>> => UNCHANGED tmp
    BY <1>1, <2>1 DEF Executed, Dropped, tablet
  <2> QED BY <1>2, <1>3, <2>2, <2>3, <2>4
<1>5. Full(t)'
  BY <1>1, <1>3, <1>4 DEF OneWrite, Full
<1> QED BY <1>1, <1>3, <1>5 DEF OneWrite, LateRm, Verified, Okay

(* The end of a connection leaves a complete file where it is. *)
LEMMA HangUpOneWrite ==
    ASSUME WriteInv, NEW s \in Session, HangUp(s), NEW t \in Session
    PROVE  OneWrite(t)'
<1>1. /\ OneWrite(t) /\ UNCHANGED <<late, pc, todo, at, fate>>
      /\ \A f \in Session \X Screen : tmp[f] = "whole" => tmp'[f] = "whole"
  BY DEF HangUp, Dropped, tablet, WriteInv, WholeInv, TypeOK
<1>2. <<t, at[t]>> \in Session \X Screen
  BY DEF WriteInv, WholeInv, TypeOK
<1> QED BY <1>1, <1>2 DEF OneWrite, Full, LateRm, Verified, Okay

LEMMA InitWrites == Init => WriteInv
<1> SUFFICES ASSUME Init PROVE WriteInv
  OBVIOUS
<1>1. WholeInv
  BY InitWhole
<1>2. ASSUME NEW s \in Session PROVE OneWrite(s)
  BY DEF Init, OneWrite, Full, LateRm, Verified, Okay, Ending
<1> QED BY <1>1, <1>2 DEF WriteInv

LEMMA NextWrites == ASSUME WriteInv, WholeInv', [Next]_vars PROVE WriteInv'
<1>1. ASSUME NEW s \in Session, Step(s) PROVE WriteInv'
  <2>1. OthersKept(s)
    BY <1>1, StepKeepsOthers DEF WriteInv, WholeInv
  <2> QED BY <1>1, <2>1, StepOneWrite, OthersOneWrite DEF WriteInv
<1>2. ASSUME NEW s \in Session, LoseCall(s) \/ Interrupt(s) PROVE WriteInv'
  <2>1. OthersKept(s)
    BY <1>2, StepKeepsOthers DEF WriteInv, WholeInv
  <2>2. Struck(s) \/ UNCHANGED <<tablet, late>>
    BY <1>2 DEF LoseCall, Interrupt
  <2>3. /\ \A f \in Session \X Screen : f[1] # s => tmp'[f] = tmp[f]
        /\ late' \subseteq late \cup {<<Command(s), s, at[s]>>}
    BY <2>2, StruckElsewhere DEF tablet
  <2>4. OneWrite(s)'
    BY <1>2, <2>3, RaiseOneWrite DEF LoseCall, Interrupt
  <2> QED BY <2>1, <2>3, <2>4, OthersOneWrite DEF WriteInv
<1>3. ASSUME NEW s \in Session, Kill(s) PROVE WriteInv'
  BY <1>3, KillOneWrite DEF WriteInv
<1>6. ASSUME NEW s \in Session, HangUp(s) PROVE WriteInv'
  BY <1>6, HangUpOneWrite DEF WriteInv
<1>4. CASE FinishLate
  BY <1>4, LateOneWrite DEF WriteInv
<1>5. CASE UNCHANGED vars
  BY <1>5 DEF vars, WriteInv, OneWrite, Full, LateRm, Verified, Okay
<1> QED BY <1>1, <1>2, <1>3, <1>4, <1>5, <1>6 DEF Next, Done

(* What a step makes of a write, and of the reports. *)
Goes(s, p) == \/ WriteState(s, p)' = WriteState(s, p)
              \/ <<WriteState(s, p), WriteState(s, p)'>> \in Promise!Course

Lands(s, p) == /\ <<WriteState(s, p), WriteState(s, p)'>> \in
                      {<<"offered", "landed">>, <<"offered", "over">>, <<"left", "over">>}
               /\ screen' = [screen EXCEPT ![p] = Image(s)]

Tells == \A s \in Session \ Batch :
    /\ fate[s] = "ok" => fate'[s] = "ok"
    /\ fate'[s] = "ok" => fate[s] = "ok" \/ \E p \in Screen : WriteState(s, p) = "landed"

(* All of it is a step of AtomicWrites. *)
LEMMA StepAllowed ==
    ASSUME NEW s \in Session, NEW p \in Screen, Tells,
           Lands(s, p) \/ (UNCHANGED screen /\ Goes(s, p)),
           \A t \in Session, q \in Screen : <<t, q>> # <<s, p>> => Goes(t, q)
    PROVE  Promise!Next
<1> DEFINE write == [f \in Session \X Screen |-> WriteState(f[1], f[2])]
           Move(f) == <<write[f], write'[f]>>
<1>1. \A t \in Session, q \in Screen :
          write[<<t, q>>] = WriteState(t, q) /\ write'[<<t, q>>] = WriteState(t, q)'
  OBVIOUS
<1>2. \A t \in Session, q \in Screen : Goes(t, q) =>
          write'[<<t, q>>] = write[<<t, q>>] \/ Move(<<t, q>>) \in Promise!Course
  BY <1>1 DEF Goes
<1>3. \A t \in Session, q \in Screen : Goes(t, q) => Promise!Follows(<<t, q>>)
  BY <1>2 DEF Promise!Follows
<1>4. Promise!Tell
  BY <1>1 DEF Promise!Tell, Tells
<1>5. CASE UNCHANGED screen /\ Goes(s, p)
  <2>1. \A f \in Session \X Screen : Promise!Follows(f)
    BY <1>3, <1>5
  <2> QED BY <1>4, <1>5, <2>1 DEF Promise!Next
<1>6. CASE Lands(s, p)
  <2>1. Promise!Land(<<s, p>>)
    BY <1>1, <1>6 DEF Promise!Land, Lands
  <2>2. \A g \in (Session \X Screen) \ {<<s, p>>} : Promise!Follows(g)
    BY <1>3
  <2> QED BY <1>4, <2>1, <2>2 DEF Promise!Next
<1> QED BY <1>5, <1>6

(* Of a session that does not move nothing is heard. *)
LEMMA OthersGo ==
    ASSUME TypeOK, NEW s \in Session, OthersKept(s), NEW t \in Session \ {s}, NEW q \in Screen,
           late \subseteq late', late' \subseteq late \cup {<<Command(s), s, at[s]>>}
    PROVE  Goes(t, q)
<1>1. <<"mv", t, q>> \in late' <=> <<"mv", t, q>> \in late
  OBVIOUS
<1> QED BY <1>1 DEF Goes, WriteState, OthersKept

(* An exception ends the write in progress, or leaves it to the tablet, and *)
(* perhaps all that the session had still to do.                            *)
LEMMA RaiseGoes ==
    ASSUME WriteInv, NEW s \in Session, NEW base \in BOOLEAN, Raise(s, base), UNCHANGED at,
           late \subseteq late', late' \subseteq late \cup {<<Command(s), s, at[s]>>}
    PROVE  /\ \A q \in Screen : Goes(s, q)
           /\ pc[s] = "rename" /\ UNCHANGED late =>
                  WriteState(s, at[s]) = "offered" /\ WriteState(s, at[s])' = "over"
           /\ fate'[s] = "ok" <=> fate[s] = "ok"
<1> DEFINE h == Handler(s, base)
<1>0. /\ OneWrite(s) /\ at'[s] = at[s] /\ at[s] \in Screen
      /\ pc[s] \in InWrite => at[s] \in todo[s]
      /\ \A q \in Screen : <<"mv", s, q>> \in late =>
            q \notin todo[s] \/ (pc[s] = "cleanup" /\ at[s] = q) \/ pc[s] \in Ending
  BY DEF WriteInv, WholeInv, TypeOK, AtTodo, LateMv, Ending
<1>1. /\ h \in {"cleanup", "block", "revert", "close", "closed"}
      /\ h = "cleanup" => pc[s] \in {"open", "upload", "rename"}
      /\ h = "block" => pc[s] \in {"space", "cleanup", "verify"} /\ s \in Batch
      /\ pc[s] \in Ending => h \in Ending
      /\ pc[s] = "rename" => h \in {"cleanup", "revert"}
      /\ pc[s] = "verify" => h \in {"block", "revert"}
  BY DEF Handler, Ending
<1>2. /\ pc'[s] = h
      /\ todo'[s] = IF h = "block" THEN todo[s] \ {at[s]} ELSE todo[s]
      /\ fate'[s] = CASE pc[s] = "enter" -> "unentered"
                      [] h \in {"cleanup", "block"} \/ pc[s] = "close" -> fate[s]
                      [] OTHER -> IF fate[s] = "running" THEN "failed" ELSE fate[s]
  BY DEF Raise, WriteInv, WholeInv, TypeOK
<1>3. /\ \A q \in Screen : <<"mv", s, q>> \in late => <<"mv", s, q>> \in late'
      /\ \A q \in Screen : <<"mv", s, q>> \in late' =>
            <<"mv", s, q>> \in late \/ (pc[s] = "rename" /\ q = at[s])
  BY DEF Command
<1>4. pc[s] = "rename" => /\ WriteState(s, at[s]) = "offered"
                          /\ <<"mv", s, at[s]>> \in late' => WriteState(s, at[s])' = "left"
                          /\ <<"mv", s, at[s]>> \notin late' => WriteState(s, at[s])' = "over"
  BY <1>0, <1>1, <1>2, <1>3 DEF WriteState, InWrite, Ending
<1>5. ASSUME NEW q \in Screen, q = at[s], pc[s] # "rename"
      PROVE  WriteState(s, q)' \in {WriteState(s, q), "over"}
  BY <1>0, <1>1, <1>2, <1>3, <1>5 DEF WriteState, InWrite, Ending, OneWrite, Verified
<1>6. ASSUME NEW q \in Screen, q # at[s]
      PROVE  WriteState(s, q)' \in {WriteState(s, q), "over"}
  BY <1>0, <1>1, <1>2, <1>3, <1>6 DEF WriteState, Ending
<1>7. \A q \in Screen : WriteState(s, q) \in {"asked", "offered", "left", "landed", "over"}
  BY DEF WriteState
<1>8. \A q \in Screen : Goes(s, q)
  BY <1>4, <1>5, <1>6, <1>7 DEF Goes, Promise!Course
<1>9. fate'[s] = "ok" <=> fate[s] = "ok"
  <2>1. fate[s] = "ok" => pc[s] = "closed"
    BY <1>0 DEF OneWrite, Okay
  <2> QED BY <1>2, <2>1
<1>10. UNCHANGED late /\ pc[s] = "rename" => <<"mv", s, at[s]>> \notin late'
  BY <1>0 DEF InWrite, Ending
<1> QED BY <1>4, <1>8, <1>9, <1>10

(* The steps of a session that do not raise: it takes up a screen, offers   *)
(* its file, renames it, has verified it, or only goes on.                  *)
LEMMA StepGoes ==
    ASSUME WriteInv, NEW s \in Session, Step(s)
    PROVE  /\ \A q \in Screen : q # at[s] => Goes(s, q)
           /\ Lands(s, at[s]) \/ (UNCHANGED screen /\ Goes(s, at[s]))
           /\ s \notin Batch => /\ fate[s] = "ok" => fate'[s] = "ok"
                                /\ fate'[s] = "ok" => fate[s] = "ok" \/ WriteState(s, at[s]) = "landed"
<1> USE DEF Goto
<1>0. /\ TypeOK /\ OneWrite(s) /\ at[s] \in Screen
      /\ pc[s] \in InWrite => at[s] \in todo[s]
      /\ \A q \in Screen : <<"mv", s, q>> \in late =>
            q \notin todo[s] \/ (pc[s] = "cleanup" /\ at[s] = q) \/ pc[s] \in Ending
      /\ \A q \in Screen : WriteState(s, q) \in {"asked", "offered", "left", "landed", "over"}
  BY DEF WriteInv, WholeInv, TypeOK, AtTodo, LateMv, Ending, WriteState
<1>l. UNCHANGED late
  BY StepOneWrite
<1> DEFINE Quiet == /\ UNCHANGED screen /\ \A q \in Screen : Goes(s, q)
                    /\ fate'[s] = "ok" <=> fate[s] = "ok"
<1>r. ASSUME Raise(s, FALSE), UNCHANGED at, UNCHANGED screen
      PROVE  Quiet
  BY <1>l, <1>r, RaiseGoes
<1>e. ASSUME NEW c, Executed(c, s, at[s]), c # "mv"
      PROVE  UNCHANGED screen
  BY <1>0, <1>e, ExecutedElsewhere
<1>1. CASE Enqueue(s) \/ TakeLock(s) \/ Begin(s) \/ Connect(s) \/ Nest(s) \/ Unnest(s)
  <2>1. /\ UNCHANGED <<screen, todo, at, fate>>
        /\ pc[s] \in Waiting \cup {"connect", "block"} /\ pc'[s] \in Waiting \cup {"connect", "enter", "block"}
    BY <1>0, <1>1 DEF Enqueue, TakeLock, Begin, Connect, Nest, Unnest, tablet, Waiting, TypeOK
  <2>2. Quiet
    BY <1>0, <1>l, <2>1 DEF Goes, WriteState, Waiting
  <2> QED BY <1>0, <2>2
<1>2. CASE Enter(s)
  <2>1. CASE Executed("rw", s, at[s]) /\ Goto(s, "block") /\ UNCHANGED <<todo, fate>>
    <3>1. /\ UNCHANGED <<screen, todo, at, fate>> /\ pc[s] = "enter" /\ pc'[s] = "block"
      BY <1>0, <1>2, <1>e, <2>1 DEF Enter, TypeOK
    <3> QED BY <1>0, <1>l, <3>1 DEF Goes, WriteState
  <2> QED BY <1>0, <1>2, <1>r, <2>1 DEF Enter, tablet
<1>3. CASE NextScreen(s)
  <2>1. /\ UNCHANGED <<screen, todo, fate>> /\ pc[s] = "block" /\ pc'[s] = "space"
        /\ at'[s] \in todo[s]
    BY <1>0, <1>3 DEF NextScreen, tablet, TypeOK
  <2>2. s \notin Batch => at[s] \in todo[s] /\ at'[s] = at[s]
    BY <1>0, <2>1 DEF OneWrite, Verified
  <2>3. Quiet
    BY <1>0, <1>l, <2>1, <2>2 DEF Goes, WriteState
  <2> QED BY <1>0, <2>3
<1>4. CASE SkipScreen(s)
  <2>1. /\ UNCHANGED <<screen, pc, at, fate>> /\ pc[s] = "block" /\ s \in Batch /\ todo'[s] \subseteq todo[s]
    BY <1>0, <1>4 DEF SkipScreen, tablet, TypeOK
  <2>2. \A q \in Screen : WriteState(s, q)' \in {WriteState(s, q), "over"}
    BY <1>l, <2>1 DEF WriteState
  <2>3. Quiet
    BY <1>0, <2>1, <2>2 DEF Goes, Promise!Course
  <2> QED BY <1>0, <2>1, <2>3
<1>5. CASE CheckSpace(s)
  <2>1. CASE Goto(s, "open") /\ UNCHANGED <<todo, fate>>
    <3>1. UNCHANGED <<screen, todo, at, fate>> /\ pc[s] = "space" /\ pc'[s] = "open"
      BY <1>0, <1>5, <2>1 DEF CheckSpace, tablet, TypeOK
    <3> QED BY <1>0, <1>l, <3>1 DEF Goes, WriteState
  <2> QED BY <1>0, <1>5, <1>r, <2>1 DEF CheckSpace, tablet
<1>6. CASE OpenTemp(s)
  <2>1. CASE Goto(s, "upload") /\ UNCHANGED <<screen, todo, fate>>
    <3>1. UNCHANGED <<screen, todo, at, fate>> /\ pc[s] = "open" /\ pc'[s] = "upload"
      BY <1>0, <1>6, <2>1 DEF OpenTemp, TypeOK
    <3> QED BY <1>0, <1>l, <3>1 DEF Goes, WriteState
  <2> QED BY <1>0, <1>6, <1>r, <2>1 DEF OpenTemp, tablet
<1>7. CASE Upload(s)
  <2>1. UNCHANGED <<screen, todo, at, fate>> /\ pc[s] = "upload" /\ pc'[s] = "rename"
    BY <1>0, <1>7, <1>e DEF Upload, TypeOK
  <2>2. WriteState(s, at[s]) = "asked" /\ WriteState(s, at[s])' = "offered"
    BY <1>0, <1>l, <2>1 DEF WriteState, InWrite, Ending
  <2>3. \A q \in Screen : q # at[s] => WriteState(s, q)' = WriteState(s, q)
    BY <1>l, <2>1 DEF WriteState
  <2> QED BY <1>0, <2>1, <2>2, <2>3 DEF Goes, Promise!Course
<1>8. CASE Rename(s)
  <2>1. CASE mount = "rw"
    <3>1. UNCHANGED <<todo, at, fate>> /\ pc[s] = "rename" /\ pc'[s] = "verify"
      BY <1>0, <1>8, <2>1 DEF Rename, TypeOK
    <3>2. screen' = [screen EXCEPT ![at[s]] = Image(s)]
      BY <1>0, <1>8, <2>1 DEF Rename, Executed, Moved, HasName, Named, OneWrite, Full
    <3>3. WriteState(s, at[s]) = "offered" /\ WriteState(s, at[s])' = "landed"
      BY <1>0, <1>l, <3>1 DEF WriteState, InWrite, Ending
    <3>4. \A q \in Screen : q # at[s] => WriteState(s, q)' = WriteState(s, q)
      BY <1>l, <3>1 DEF WriteState
    <3> QED BY <3>1, <3>2, <3>3, <3>4 DEF Lands, Goes
  <2>2. CASE mount # "rw"
    <3>1. Raise(s, FALSE) /\ UNCHANGED <<screen, at>>
      BY <1>8, <2>2 DEF Rename, Executed, Moved, tablet
    <3> QED BY <1>0, <1>r, <3>1
  <2> QED BY <2>1, <2>2
<1>9. CASE CleanUp(s)
  BY <1>0, <1>9, <1>e, <1>r DEF CleanUp
<1>10. CASE VerifyWrite(s)
  <2>1. CASE Goto(s, "block") /\ todo' = [todo EXCEPT ![s] = @ \ {at[s]}] /\ UNCHANGED fate
    <3>1. /\ UNCHANGED <<screen, at, fate>> /\ pc[s] = "verify" /\ pc'[s] = "block"
          /\ todo'[s] = todo[s] \ {at[s]}
      BY <1>0, <1>10, <2>1 DEF VerifyWrite, tablet, TypeOK
    <3>2. WriteState(s, at[s]) = "landed" /\ WriteState(s, at[s])' \in {"landed", "over"}
      BY <1>0, <1>l, <3>1 DEF WriteState, InWrite, Ending
    <3>3. \A q \in Screen : q # at[s] => WriteState(s, q)' = WriteState(s, q)
      BY <1>l, <3>1 DEF WriteState
    <3> QED BY <3>1, <3>2, <3>3 DEF Goes, Promise!Course
  <2> QED BY <1>0, <1>10, <1>r, <2>1 DEF VerifyWrite, tablet
<1>11. ASSUME pc[s] \in {"block", "revert", "check", "close"}, pc'[s] \in Ending,
              pc[s] = "block" => todo[s] = {}, UNCHANGED <<screen, todo, at>>
       PROVE  \A q \in Screen : Goes(s, q)
  BY <1>l, <1>11 DEF Goes, WriteState, Ending
<1>12. CASE LeaveBlock(s)
  <2>1. /\ pc[s] = "block" /\ pc'[s] \in Ending /\ todo[s] = {} /\ UNCHANGED <<screen, todo, at, fate>>
    BY <1>0, <1>12 DEF LeaveBlock, tablet, TypeOK, Ending
  <2> QED BY <1>0, <1>11, <2>1
<1>13. CASE Revert(s)
  <2>1. UNCHANGED screen
    BY <1>13, <1>e DEF Revert, Ineffective, tablet
  <2>2. CASE Goto(s, "check") /\ UNCHANGED <<todo, fate>>
    <3>1. /\ pc[s] = "revert" /\ pc'[s] \in Ending /\ UNCHANGED <<screen, todo, at, fate>>
      BY <1>0, <1>13, <2>1, <2>2 DEF Revert, TypeOK, Ending
    <3> QED BY <1>0, <1>11, <3>1
  <2> QED BY <1>0, <1>13, <1>r, <2>1, <2>2 DEF Revert
<1>14. CASE CheckMount(s)
  <2>1. CASE Goto(s, "close") /\ UNCHANGED <<todo, fate>>
    <3>1. /\ pc[s] = "check" /\ pc'[s] \in Ending /\ UNCHANGED <<screen, todo, at, fate>>
      BY <1>0, <1>14, <2>1 DEF CheckMount, tablet, TypeOK, Ending
    <3> QED BY <1>0, <1>11, <3>1
  <2> QED BY <1>0, <1>14, <1>r, <2>1 DEF CheckMount, tablet
<1>15. CASE Close(s)
  <2>1. Command(s) # "mv" /\ pc[s] = "close"
    BY <1>15 DEF Close, Command
  <2>2. /\ UNCHANGED <<screen, todo, at>> /\ pc'[s] \in Ending
        /\ fate'[s] = IF fate[s] = "running" THEN "ok" ELSE fate[s]
    BY <1>0, <1>15, <1>e, <2>1 DEF Close, Ineffective, tablet, TypeOK, Ending
  <2>3. s \notin Batch /\ fate[s] = "running" => WriteState(s, at[s]) = "landed"
    BY <1>0, <2>1 DEF OneWrite, Okay, Verified, WriteState, Ending
  <2> QED BY <1>0, <1>11, <2>1, <2>2, <2>3
<1>16. CASE CallOnDeadLink(s)
  BY <1>0, <1>16, <1>r DEF CallOnDeadLink, tablet
<1> QED BY <1>1, <1>2, <1>3, <1>4, <1>5, <1>6, <1>7, <1>8, <1>9, <1>10, <1>12, <1>13,
           <1>14, <1>15, <1>16 DEF Step

(* A call that is lost or interrupted. *)
LEMMA LoseAllowed ==
    ASSUME WriteInv, NEW s \in Session, LoseCall(s) \/ Interrupt(s)
    PROVE  Promise!Next
<1>0. TypeOK /\ at[s] \in Screen
  BY DEF WriteInv, WholeInv, TypeOK
<1>1. OthersKept(s)
  BY <1>0, StepKeepsOthers
<1>2. PICK base \in BOOLEAN : Raise(s, base) /\ UNCHANGED at
  BY DEF LoseCall, Interrupt
<1>3. /\ late \subseteq late' /\ late' \subseteq late \cup {<<Command(s), s, at[s]>>}
      /\ \/ UNCHANGED screen
         \/ /\ pc[s] = "rename" /\ UNCHANGED late
            /\ screen' = [screen EXCEPT ![at[s]] = Image(s)]
  BY StruckElsewhere DEF LoseCall, Interrupt, tablet
<1>4. \A t \in Session \ {s}, q \in Screen : Goes(t, q)
  BY <1>0, <1>1, <1>3, OthersGo
<1>5. /\ \A q \in Screen : Goes(s, q)
      /\ pc[s] = "rename" /\ UNCHANGED late =>
             WriteState(s, at[s]) = "offered" /\ WriteState(s, at[s])' = "over"
      /\ fate'[s] = "ok" <=> fate[s] = "ok"
  BY <1>2, <1>3, RaiseGoes
<1>6. Lands(s, at[s]) \/ UNCHANGED screen
  BY <1>3, <1>5 DEF Lands
<1>7. Tells
  BY <1>1, <1>5 DEF Tells, OthersKept
<1>8. \A t \in Session, q \in Screen : Goes(t, q)
  BY <1>4, <1>5
<1> QED BY <1>0, <1>6, <1>7, <1>8, StepAllowed

(* The death of the process ends the writes of its sessions. *)
LEMMA KillAllowed ==
    ASSUME WriteInv, NEW s \in Session, Kill(s)
    PROVE  Promise!Next
<1> DEFINE dead == {u \in IF s \in Web THEN Web ELSE {s} : pc[u] \notin {"idle", "closed"}}
<1>0. /\ TypeOK /\ at[s] \in Screen
      /\ pc[s] = "rename" => <<"mv", s, at[s]>> \notin late
  BY DEF WriteInv, WholeInv, TypeOK, AtTodo, LateMv, InWrite
<1>1. /\ s \in dead /\ UNCHANGED <<todo, at>>
      /\ \A u \in Session : u \in dead => pc[u] # "closed" /\ pc'[u] = "closed" /\ fate'[u] = "killed"
      /\ \A u \in Session : u \notin dead => pc'[u] = pc[u] /\ fate'[u] = fate[u]
      /\ Struck(s) \/ UNCHANGED <<tablet, late>>
  BY DEF Kill
<1>2. /\ late \subseteq late' /\ late' \subseteq late \cup {<<Command(s), s, at[s]>>}
      /\ \/ UNCHANGED screen
         \/ /\ pc[s] = "rename" /\ UNCHANGED late
            /\ screen' = [screen EXCEPT ![at[s]] = Image(s)]
  BY <1>1, StruckElsewhere DEF tablet
<1>3. \A u \in Session, q \in Screen :
          /\ <<"mv", u, q>> \in late => <<"mv", u, q>> \in late'
          /\ <<"mv", u, q>> \in late' => <<"mv", u, q>> \in late \/ (u = s /\ q = at[s] /\ pc[s] = "rename")
  BY <1>2 DEF Command
<1>4. ASSUME NEW u \in Session, NEW q \in Screen, u \notin dead
      PROVE  Goes(u, q)
  BY <1>1, <1>3, <1>4 DEF Goes, WriteState
<1>5. \A u \in Session, q \in Screen : WriteState(u, q) \in {"asked", "offered", "left", "landed", "over"}
  BY DEF WriteState
<1>6. pc[s] = "rename" => /\ WriteState(s, at[s]) = "offered"
                          /\ WriteState(s, at[s])' \in {"left", "over"}
                          /\ UNCHANGED late => WriteState(s, at[s])' = "over"
  <2> SUFFICES ASSUME pc[s] = "rename"
               PROVE  /\ WriteState(s, at[s]) = "offered"
                      /\ WriteState(s, at[s])' \in {"left", "over"}
                      /\ UNCHANGED late => WriteState(s, at[s])' = "over"
    OBVIOUS
  <2>1. at[s] \in todo[s] /\ pc'[s] = "closed" /\ at'[s] = at[s] /\ todo'[s] = todo[s]
    BY <1>1 DEF WriteInv, WholeInv, AtTodo, InWrite
  <2> QED BY <1>0, <2>1 DEF WriteState
<1>7. ASSUME NEW u \in Session, NEW q \in Screen, u \in dead, ~(u = s /\ q = at[s] /\ pc[s] = "rename")
      PROVE  WriteState(u, q)' \in {WriteState(u, q), "over"}
  <2>1. OneWrite(u) /\ pc'[u] = "closed" /\ at'[u] = at[u] /\ todo'[u] = todo[u]
    BY <1>1, <1>7 DEF WriteInv
  <2>2. <<"mv", u, q>> \in late' <=> <<"mv", u, q>> \in late
    BY <1>3, <1>7
  <2> QED BY <2>1, <2>2 DEF WriteState, OneWrite, Verified, Ending
<1>8. ASSUME NEW u \in Session, NEW q \in Screen
      PROVE  Goes(u, q)
  <2>1. CASE u = s /\ q = at[s] /\ pc[s] = "rename"
    BY <1>1, <1>6, <2>1 DEF Goes, WriteState, Promise!Course
  <2>2. CASE u \in dead /\ ~(u = s /\ q = at[s] /\ pc[s] = "rename")
    <3>1. WriteState(u, q)' \in {WriteState(u, q), "over"}
      BY <1>7, <2>2
    <3> QED BY <1>5, <3>1 DEF Goes, Promise!Course
  <2>3. CASE u \notin dead
    BY <1>4, <2>3
  <2> QED BY <1>1, <2>1, <2>2, <2>3
<1>9. Lands(s, at[s]) \/ UNCHANGED screen
  BY <1>2, <1>6 DEF Lands
<1>10. Tells
  BY <1>1 DEF Tells, WriteInv, OneWrite, Okay
<1> QED BY <1>0, <1>8, <1>9, <1>10, StepAllowed

(* A rename that was left to the tablet lands, or finds nothing to move. *)
LEMMA LateAllowed ==
    ASSUME WriteInv, FinishLate
    PROVE  Promise!Next
<1>1. PICK c \in late : /\ Executed(c[1], c[2], c[3])
                        /\ late' = late \ {c}
                        /\ UNCHANGED <<lock, pc, depth, todo, at, up, hits, fate>>
  BY DEF FinishLate
<1>2. /\ c[1] \in {"rw", "ro", "open", "put", "mv", "rm"} /\ c[2] \in Session /\ c[3] \in Screen
      /\ c = <<c[1], c[2], c[3]>> /\ TypeOK
  BY DEF WriteInv, WholeInv, TypeOK
<1> DEFINE s == c[2]  p == c[3]
<1>3. \A t \in Session, q \in Screen : ~(c[1] = "mv" /\ <<t, q>> = <<s, p>>) =>
          (<<"mv", t, q>> \in late' <=> <<"mv", t, q>> \in late)
  BY <1>1, <1>2
<1>4. \A t \in Session, q \in Screen : ~(c[1] = "mv" /\ <<t, q>> = <<s, p>>) =>
          WriteState(t, q)' = WriteState(t, q)
  BY <1>1, <1>3 DEF WriteState
<1>5. Tells
  BY <1>1 DEF Tells
<1>6. CASE c[1] # "mv"
  <2>1. UNCHANGED screen
    BY <1>1, <1>2, <1>6, ExecutedElsewhere
  <2>2. \A t \in Session, q \in Screen : Goes(t, q)
    BY <1>4, <1>6 DEF Goes
  <2> QED BY <1>2, <1>5, <2>1, <2>2, StepAllowed
<1>7. CASE c[1] = "mv"
  <2>1. <<"mv", s, p>> \in late /\ <<"mv", s, p>> \notin late'
    BY <1>1, <1>2, <1>7
  <2>2. /\ pc[s] \in InWrite => at[s] \in todo[s]
        /\ p \notin todo[s] \/ (pc[s] = "cleanup" /\ at[s] = p) \/ pc[s] \in Ending
        /\ s \notin Batch => p \in todo[s] \/ at[s] # p
        /\ ~Cut(<<s, p>>)
    BY <1>2, <2>1 DEF WriteInv, WholeInv, AtTodo, LateMv, MvWhole, OneWrite, Verified, Ending
  <2>3. WriteState(s, p) = "left" /\ WriteState(s, p)' = "over"
    BY <1>1, <2>1, <2>2 DEF WriteState, InWrite, Ending
  <2>4. UNCHANGED screen \/ screen' = [screen EXCEPT ![p] = Image(s)]
    <3>1. \/ UNCHANGED screen
          \/ /\ HasName(<<s, p>>)
             /\ screen' = [screen EXCEPT ![p] = IF tmp[<<s, p>>] = "whole" THEN Image(s) ELSE Torn]
      BY <1>1, <1>2, ExecutedElsewhere
    <3>2. tmp[<<s, p>>] \in TempState
      BY <1>2 DEF TypeOK
    <3> QED BY <2>2, <3>1, <3>2 DEF Cut, HasName, Named, TempState
  <2>5. Goes(s, p) /\ (Lands(s, p) \/ UNCHANGED screen)
    BY <2>3, <2>4 DEF Goes, Lands, Promise!Course
  <2>6. \A t \in Session, q \in Screen : <<t, q>> # <<s, p>> => Goes(t, q)
    BY <1>4 DEF Goes
  <2> QED BY <1>2, <1>5, <2>5, <2>6, StepAllowed
<1> QED BY <1>6, <1>7

LEMMA NextAllowed == ASSUME WriteInv, [Next]_vars PROVE [Promise!Next]_Promise!vars
<1>1. ASSUME NEW s \in Session, Step(s) PROVE Promise!Next
  <2>0. TypeOK /\ at[s] \in Screen
    BY DEF WriteInv, WholeInv, TypeOK
  <2>1. OthersKept(s) /\ UNCHANGED late
    BY <1>1, <2>0, StepKeepsOthers, StepOneWrite
  <2>2. \A t \in Session \ {s}, q \in Screen : Goes(t, q)
    BY <2>0, <2>1, OthersGo
  <2>3. Tells
    BY <1>1, <2>0, <2>1, StepGoes DEF Tells, OthersKept
  <2> QED BY <1>1, <2>0, <2>2, <2>3, StepGoes, StepAllowed
<1>2. CASE UNCHANGED <<screen, late, pc, todo, at, fate>>
  <2>1. \A s \in Session, p \in Screen : WriteState(s, p)' = WriteState(s, p)
    BY <1>2 DEF WriteState
  <2>2. [f \in Session \X Screen |-> WriteState(f[1], f[2])]'
            = [f \in Session \X Screen |-> WriteState(f[1], f[2])]
    BY <2>1
  <2> QED BY <1>2, <2>2 DEF Promise!vars
<1>3. ASSUME NEW s \in Session, HangUp(s) PROVE UNCHANGED <<screen, late, pc, todo, at, fate>>
  BY <1>3 DEF HangUp, Dropped, tablet
<1> QED BY <1>1, <1>2, <1>3, LoseAllowed, KillAllowed, LateAllowed DEF Next, Done, vars

(* write_bytes "writes to a temporary file in the same directory and        *)
(* renames over the target", and verifies.  Any number of commands and      *)
(* requests, with every fault and late commands, change screens only by     *)
(* whole writes, each done once or not at all; and a session of one screen  *)
(* reports success only of a write it has done.                             *)
THEOREM OneWriteEach == Spec => WritesAreAtomic
<1>1. Init => Promise!Init
  <2> SUFFICES ASSUME Init PROVE Promise!Init
    OBVIOUS
  <2>1. \A s \in Session, p \in Screen : WriteState(s, p) \in {"asked", "over"}
    BY DEF Init, WriteState
  <2>2. {s \in Session \ Batch : fate[s] = "ok"} = {}
    BY DEF Init
  <2> QED BY <2>1, <2>2 DEF Init, Promise!Init
<1>2. WriteInv /\ WholeInv' /\ [Next]_vars => WriteInv'
  BY NextWrites
<1>3. WriteInv /\ [Next]_vars => [Promise!Next]_Promise!vars
  BY NextAllowed
<1> QED BY <1>1, <1>2, <1>3, InitWrites, WholeAlways, PTL DEF Spec, WritesAreAtomic, Promise!Spec
=============================================================================
