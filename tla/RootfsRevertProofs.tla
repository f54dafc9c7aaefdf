------------------------- MODULE RootfsRevertProofs -------------------------
(* Theorems about what WritableRootfs leaves behind: how / is mounted, the  *)
(* space that is left on it, temporary files.                               *)
EXTENDS WritableRootfsProofs

-----------------------------------------------------------------------------
(* / is never left writable in silence.  As long as it is writable, some    *)
(* session is at work on it or has ended, or is about to end, without       *)
(* success.  A session that leaves that set found / read-only; a remount    *)
(* still running at the tablet belongs to a session that can only fail.     *)

Owning(s) == /\ pc[s] \notin Waiting
             /\ ~(pc[s] \in {"close", "closed"} /\ fate[s] \in {"running", "ok"})

Failing(s) == pc[s] \in {"close", "closed"} /\ fate[s] \in {"unentered", "killed"}

OkClosed == \A s \in Session : fate[s] = "ok" => pc[s] = "closed"

LateFailing == \A s \in Session, p \in Screen : <<"rw", s, p>> \in late => Failing(s)

Owned == mount = "rw" => \E s \in Session : Owning(s)

OwnedInv == TypeOK /\ OkClosed /\ LateFailing /\ Owned

(* An exception makes no owner a non-owner, and fails a remount for good. *)
LEMMA RaiseOwning ==
    ASSUME TypeOK, OkClosed, NEW s \in Session, NEW base \in BOOLEAN,
           pc[s] \notin {"idle", "queued", "granted", "closed"}, Raise(s, base)
    PROVE  /\ fate'[s] # "ok"
           /\ Owning(s) => Owning(s)'
           /\ Failing(s) => Failing(s)'
           /\ pc[s] = "enter" => Failing(s)'
<1> DEFINE h == Handler(s, base)
<1>1. /\ h \in {"cleanup", "block", "revert", "close", "closed"}
      /\ pc[s] = "enter" => h = "close"
      /\ pc[s] = "close" => h = "closed"
  BY DEF Handler, InBlock, InWrite
<1>2. pc'[s] = h
  BY DEF Raise, TypeOK
<1>3. fate'[s] = CASE pc[s] = "enter" -> "unentered"
                   [] h \in {"cleanup", "block"} \/ pc[s] = "close" -> fate[s]
                   [] OTHER -> IF fate[s] = "running" THEN "failed" ELSE fate[s]
  BY DEF Raise, TypeOK
<1>c1. pc[s] = "enter" => fate'[s] = "unentered"
  BY <1>1, <1>3
<1>c2. pc[s] = "close" => fate'[s] = fate[s]
  BY <1>3
<1>c3. pc[s] \notin {"enter", "close"} =>
          fate'[s] = IF h \notin {"cleanup", "block"} /\ fate[s] = "running" THEN "failed" ELSE fate[s]
  BY <1>3
<1>4. fate[s] # "ok"
  BY DEF OkClosed
<1> HIDE DEF h
<1> QED BY <1>1, <1>2, <1>c1, <1>c2, <1>c3, <1>4 DEF Owning, Failing, Waiting

(* A step that keeps owners, and mounts / only for one, keeps the invariant. *)
LEMMA OwnedKept ==
    ASSUME OwnedInv, TypeOK', NEW s \in Session, OthersKept(s),
           fate'[s] = "ok" => pc'[s] = "closed",
           Failing(s) => Failing(s)',
           mount' = "rw" /\ Owning(s) => Owning(s)',
           mount' = "rw" => mount = "rw" \/ Owning(s)',
           \A p \in Screen : <<"rw", s, p>> \in late' => <<"rw", s, p>> \in late \/ Failing(s)',
           \A t \in Session \ {s}, p \in Screen : <<"rw", t, p>> \in late' => <<"rw", t, p>> \in late
    PROVE  OwnedInv'
<1>1. OkClosed'
  BY DEF OwnedInv, OkClosed, OthersKept
<1>2. LateFailing'
  BY DEF OwnedInv, LateFailing, Failing, OthersKept
<1>3. Owned'
  BY DEF OwnedInv, Owned, Owning, OthersKept
<1> QED BY <1>1, <1>2, <1>3 DEF OwnedInv

(* Only remount,rw makes / writable. *)
LEMMA ExecutedNotMounting ==
    ASSUME NEW s, NEW p, NEW c, c # "rw", Executed(c, s, p), mount' = "rw"
    PROVE  mount = "rw"
BY DEF Executed, Created, Filled, Dropped, Moved, Removed, tablet

(* The steps of the program: a session stops owning / only where it has     *)
(* seen it read-only.                                                       *)
LEMMA StepOwned ==
    ASSUME OwnedInv, TypeOK', NEW s \in Session, Step(s)
    PROVE  OwnedInv'
<1> USE DEF Goto, Waiting
<1>0. OthersKept(s) /\ TypeOK /\ OkClosed
  BY StepKeepsOthers DEF OwnedInv
<1>1. UNCHANGED late
  BY DEF Step, Enqueue, TakeLock, Begin, Connect, Enter, Nest, Unnest, NextScreen, SkipScreen,
         CheckSpace, OpenTemp, Upload, Rename, CleanUp, VerifyWrite, LeaveBlock, Revert,
         CheckMount, Close, CallOnDeadLink
<1>2. ASSUME fate'[s] = "ok" => pc'[s] = "closed", Failing(s) => Failing(s)',
             mount' = "rw" /\ Owning(s) => Owning(s)',
             mount' = "rw" => mount = "rw" \/ Owning(s)'
      PROVE  OwnedInv'
  BY <1>0, <1>1, <1>2, OwnedKept
<1>r. ASSUME Raise(s, FALSE), pc[s] \notin {"idle", "queued", "granted", "closed"},
             mount' = "rw" => mount = "rw" \/ pc[s] = "enter"
      PROVE  OwnedInv'
  <2>1. Failing(s)' => Owning(s)'
    BY DEF Failing, Owning
  <2> QED BY <1>0, <1>2, <1>r, <2>1, RaiseOwning
<1>u. UNCHANGED tablet => (mount' = "rw" => mount = "rw")
  BY DEF tablet
<1>g. ASSUME NEW l \in {"queued", "granted", "connect", "enter", "block", "space", "open",
                        "upload", "rename", "verify", "revert", "check"},
             pc[s] \notin {"close", "closed"}, l \in {"queued", "granted"} => pc[s] \in Waiting,
             Goto(s, l), UNCHANGED fate, mount' = "rw" => mount = "rw" \/ l = "block"
      PROVE  OwnedInv'
  <2>1. pc'[s] = l /\ fate'[s] = fate[s] /\ fate[s] # "ok"
    BY <1>0, <1>g DEF TypeOK, OkClosed
  <2> QED BY <1>2, <1>g, <2>1 DEF Owning, Failing
<1>3. CASE Enqueue(s) \/ TakeLock(s) \/ Begin(s) \/ Connect(s)
  BY <1>3, <1>g, <1>u DEF Enqueue, TakeLock, Begin, Connect
<1>4. CASE Enter(s)
  BY <1>4, <1>g, <1>r, <1>u DEF Enter
<1>5. CASE Nest(s) \/ Unnest(s) \/ SkipScreen(s)
  BY <1>0, <1>2, <1>5, <1>u DEF Nest, Unnest, SkipScreen, Owning, Failing, OkClosed
<1>6. CASE NextScreen(s) \/ LeaveBlock(s)
  BY <1>6, <1>g, <1>u DEF NextScreen, LeaveBlock
<1>7. CASE CheckSpace(s)
  BY <1>7, <1>g, <1>r, <1>u DEF CheckSpace
<1>8. CASE OpenTemp(s)
  BY <1>8, <1>g, <1>r, <1>u DEF OpenTemp
<1>9. CASE Upload(s) \/ Rename(s) \/ CleanUp(s)
  <2>1. mount' = "rw" => mount = "rw"
    BY <1>9, ExecutedNotMounting DEF Upload, Rename, CleanUp
  <2> QED BY <1>9, <2>1, <1>g, <1>r DEF Upload, Rename, CleanUp
<1>10. CASE VerifyWrite(s)
  <2>1. CASE Raise(s, FALSE)
    BY <1>10, <2>1, <1>r, <1>u DEF VerifyWrite
  <2>2. CASE Goto(s, "block") /\ UNCHANGED fate
    BY <1>10, <2>2, <1>g, <1>u DEF VerifyWrite
  <2> QED BY <1>10, <2>1, <2>2 DEF VerifyWrite
<1>11. CASE Revert(s)
  <2>1. mount' = "rw" => mount = "rw"
    BY <1>11, <1>u, ExecutedNotMounting DEF Revert, Ineffective
  <2> QED BY <1>11, <2>1, <1>g, <1>r DEF Revert
<1>12. CASE CheckMount(s)
  <2>1. CASE mount = "ro"
    <3>1. mount' = "ro" /\ Goto(s, "close") /\ UNCHANGED fate
      BY <1>12, <2>1 DEF CheckMount, tablet
    <3> QED BY <1>0, <1>2, <1>12, <3>1 DEF CheckMount, Owning, Failing, OkClosed, TypeOK
  <2>2. CASE mount # "ro"
    BY <1>12, <2>2, <1>r, <1>u DEF CheckMount
  <2> QED BY <2>1, <2>2
<1>13. CASE Close(s)
  <2>1. Command(s) # "rw"
    BY <1>13 DEF Close, Command
  <2>2. mount' = "rw" => mount = "rw"
    BY <1>13, <2>1, <1>u, ExecutedNotMounting DEF Close, Ineffective
  <2>3. /\ pc[s] = "close" /\ pc'[s] = "closed"
        /\ fate'[s] = IF fate[s] = "running" THEN "ok" ELSE fate[s]
    BY <1>0, <1>13 DEF Close, TypeOK
  <2> QED BY <1>2, <2>2, <2>3 DEF Owning, Failing
<1>14. CASE CallOnDeadLink(s)
  BY <1>14, <1>r, <1>u DEF CallOnDeadLink, AtCall, InCall, InWrite
<1> QED BY <1>3, <1>4, <1>5, <1>6, <1>7, <1>8, <1>9, <1>10, <1>11, <1>12, <1>13, <1>14 DEF Step

(* A call cut short mounts / only if it was the remount, then or later. *)
LEMMA StruckMounting ==
    ASSUME NEW s \in Session, Struck(s) \/ UNCHANGED <<tablet, late>>
    PROVE  /\ mount' = "rw" => mount = "rw" \/ pc[s] = "enter"
           /\ \A t \in Session, p \in Screen : <<"rw", t, p>> \in late' =>
                  <<"rw", t, p>> \in late \/ (t = s /\ pc[s] = "enter")
<1>1. Command(s) = "rw" => pc[s] = "enter"
  BY DEF Command
<1>2. mount' = "rw" => mount = "rw" \/ Command(s) = "rw"
  BY ExecutedNotMounting DEF Struck, Filled, tablet
<1> QED BY <1>1, <1>2 DEF Struck

(* A fault fails the session it hits. *)
LEMMA FaultOwned ==
    ASSUME OwnedInv, TypeOK', NEW s \in Session, LoseCall(s) \/ Interrupt(s) \/ Kill(s)
    PROVE  OwnedInv'
<1>1. CASE LoseCall(s) \/ Interrupt(s)
  <2>1. /\ pc[s] \notin {"idle", "queued", "granted", "closed"}
        /\ \E base \in BOOLEAN : Raise(s, base)
        /\ Struck(s) \/ UNCHANGED <<tablet, late>>
    BY <1>1 DEF LoseCall, Interrupt, AtCall, InCall, InWrite
  <2>2. /\ fate'[s] # "ok" /\ (Owning(s) => Owning(s)') /\ (Failing(s) => Failing(s)')
        /\ pc[s] = "enter" => Failing(s)'
    BY <2>1, RaiseOwning DEF OwnedInv
  <2>3. Failing(s)' => Owning(s)'
    BY DEF Failing, Owning, Waiting
  <2>4. OthersKept(s)
    BY <1>1, StepKeepsOthers DEF OwnedInv
  <2> QED BY <2>1, <2>2, <2>3, <2>4, StruckMounting, OwnedKept
<1>2. CASE Kill(s)
  <2>1. /\ \A t \in Session : \/ pc'[t] = "closed" /\ fate'[t] = "killed"
                              \/ pc'[t] = pc[t] /\ fate'[t] = fate[t]
        /\ pc'[s] = "closed" /\ fate'[s] = "killed"
    BY <1>2 DEF Kill, OwnedInv, TypeOK
  <2>2. Struck(s) \/ UNCHANGED <<tablet, late>>
    BY <1>2 DEF Kill
  <2>3. OkClosed'
    BY <2>1 DEF OwnedInv, OkClosed
  <2>4. LateFailing'
    BY <2>1, <2>2, StruckMounting DEF OwnedInv, LateFailing, Failing
  <2>5. Owned'
    BY <2>1 DEF Owned, Owning, Waiting
  <2> QED BY <2>3, <2>4, <2>5 DEF OwnedInv
<1> QED BY <1>1, <1>2

(* A remount that completes late is one that failed its session. *)
LEMMA LateOwned ==
    ASSUME OwnedInv, TypeOK', FinishLate
    PROVE  OwnedInv'
<1>1. PICK c \in late : /\ Executed(c[1], c[2], c[3])
                        /\ late' = late \ {c}
                        /\ UNCHANGED <<lock, pc, depth, todo, at, up, hits, fate>>
  BY DEF FinishLate
<1>2. c[2] \in Session /\ c[3] \in Screen /\ c = <<c[1], c[2], c[3]>>
  BY DEF OwnedInv, TypeOK
<1>3. CASE c[1] = "rw"
  <2>1. Failing(c[2])
    BY <1>2, <1>3 DEF OwnedInv, LateFailing
  <2> QED BY <1>1, <1>2, <2>1 DEF OwnedInv, OkClosed, LateFailing, Failing, Owned, Owning, Waiting
<1>4. CASE c[1] # "rw"
  <2>1. mount' = "rw" => mount = "rw"
    BY <1>1, <1>4, ExecutedNotMounting
  <2> QED BY <1>1, <2>1 DEF OwnedInv, OkClosed, LateFailing, Failing, Owned, Owning
<1> QED BY <1>3, <1>4

(* Every step of every session, and of the tablet. *)
LEMMA NextOwned == OwnedInv /\ TypeOK' /\ [Next]_vars => OwnedInv'
<1> SUFFICES ASSUME OwnedInv, TypeOK', [Next]_vars PROVE OwnedInv'
  OBVIOUS
<1>1. CASE UNCHANGED vars
  BY <1>1 DEF vars, OwnedInv, OkClosed, LateFailing, Failing, Owned, Owning
<1>2. CASE \E s \in Session : Step(s) \/ LoseCall(s) \/ Interrupt(s) \/ Kill(s)
  BY <1>2, StepOwned, FaultOwned
<1>3. CASE FinishLate
  BY <1>3, LateOwned
<1>4. ASSUME NEW s \in Session, HangUp(s)
      PROVE  OwnedInv'
  <2>1. UNCHANGED <<mount, late, pc, fate>>
    BY <1>4 DEF HangUp, Dropped, tablet
  <2> QED BY <2>1 DEF OwnedInv, OkClosed, LateFailing, Failing, Owned, Owning
<1> QED BY <1>1, <1>2, <1>3, <1>4 DEF Next, Done

LEMMA OwnedAlways == Spec => []OwnedInv
<1>1. Init => OwnedInv
  BY InitTyped DEF Init, OwnedInv, OkClosed, LateFailing, Owned
<1> QED BY <1>1, NextOwned, TypeCorrect, PTL DEF Spec

(* "/" is writable only while a session works on it or after one that did   *)
(* not report success: of any number of commands and requests, with every   *)
(* kind of fault, a remount that lies about its success included.           *)
THEOREM WritableIsReported == Spec => []NeverSilentlyWritable
<1>1. OwnedInv => NeverSilentlyWritable
  BY DEF OwnedInv, Owned, Owning, NeverSilentlyWritable
<1> QED BY <1>1, OwnedAlways, PTL

-----------------------------------------------------------------------------
(* Uploads that were given up.  A file whose session is not at its upload   *)
(* and that is not shut is abandoned, and stays so: the session is through  *)
(* with that screen (Over) and never opens the file again.                  *)

Abandoned(f) == file[f] # "shut" /\ ~(pc[f[1]] = "upload" /\ at[f[1]] = f[2])

Over(s, p) == \/ p \notin todo[s]
              \/ pc[s] \in {"upload", "cleanup"} /\ at[s] = p
              \/ pc[s] \in Ending

FileOver == \A s \in Session, p \in Screen : file[<<s, p>>] # "shut" => Over(s, p)

AbandonedKept == \A f \in Session \X Screen : Abandoned(f) => Abandoned(f)'

(* A command opens a handle only if it is the open of an upload, and closes *)
(* one for good only if the upload's session waits for it.                  *)
LEMMA ExecutedFile ==
    ASSUME TypeOK, NEW s \in Session, NEW p \in Screen, NEW c, Executed(c, s, p)
    PROVE  /\ \A f \in Session \X Screen :
                  file'[f] # "shut" => file[f] # "shut" \/ (c = "open" /\ f = <<s, p>>)
           /\ \A f \in Session \X Screen : file[f] # "shut" =>
                  file'[f] # "shut" \/ (f = <<s, p>> /\ pc[s] = "upload" /\ at[s] = p)
<1>1. CASE c = "open" /\ Created(s, p)
  BY <1>1 DEF Created, tablet, TypeOK
<1>2. CASE pc[s] = "upload" /\ at[s] = p /\ Filled(s, p, "whole")
  BY <1>2 DEF Filled, TypeOK
<1>3. CASE Dropped(s, p)
  BY <1>3 DEF Dropped, tablet, TypeOK
<1>4. CASE UNCHANGED file
  BY <1>4
<1> QED BY <1>1, <1>2, <1>3, <1>4 DEF Executed, Moved, Removed, tablet

LEMMA StruckFile ==
    ASSUME TypeOK, NEW s \in Session, Struck(s) \/ UNCHANGED <<tablet, late>>
    PROVE  /\ \A f \in Session \X Screen :
                  file'[f] # "shut" => file[f] # "shut" \/ (pc[s] = "open" /\ f = <<s, at[s]>>)
           /\ \A f \in Session \X Screen : file[f] # "shut" =>
                  file'[f] # "shut" \/ (f = <<s, at[s]>> /\ pc[s] = "upload")
<1>0. at[s] \in Screen
  BY DEF TypeOK
<1>1. /\ Command(s) = "open" => pc[s] = "open"
      /\ Command(s) = "put" => pc[s] = "upload"
  BY DEF Command
<1>2. CASE Executed(Command(s), s, at[s])
  BY <1>0, <1>1, <1>2, ExecutedFile
<1>3. CASE Command(s) = "put" /\ Filled(s, at[s], "part")
  BY <1>0, <1>1, <1>3 DEF Filled, TypeOK
<1>4. CASE UNCHANGED tablet
  BY <1>4 DEF tablet
<1> QED BY <1>2, <1>3, <1>4 DEF Struck, tablet

(* An exception ends the write it interrupts.                               *)
LEMMA RaiseOver ==
    ASSUME TypeOK, NEW s \in Session, NEW base \in BOOLEAN, Raise(s, base), UNCHANGED at
    PROVE  /\ \A p \in Screen : Over(s, p) => Over(s, p)'
           /\ pc[s] \in {"open", "upload"} => \A p \in Screen : p = at[s] => Over(s, p)'
           /\ pc'[s] # "upload"
<1> DEFINE h == Handler(s, base)
<1>1. /\ h \in {"cleanup", "block", "revert", "close", "closed"}
      /\ h = "block" => pc[s] \in {"space", "cleanup", "verify"}
      /\ pc[s] \in {"open", "upload"} => h \in {"cleanup", "revert"}
      /\ pc[s] = "cleanup" => h \in {"block", "revert"}
      /\ pc[s] \in Ending => h \in Ending
  BY DEF Handler, Ending
<1>2. /\ pc'[s] = h /\ at'[s] = at[s]
      /\ todo'[s] = IF h = "block" THEN todo[s] \ {at[s]} ELSE todo[s]
  BY DEF Raise, TypeOK
<1> HIDE DEF h
<1> QED BY <1>1, <1>2 DEF Over, Ending

(* What one session may do for its own files, and the others keep theirs.   *)
LEMMA FileKept ==
    ASSUME WholeInv, FileOver, NEW s \in Session, OthersKept(s),
           \A f \in Session \X Screen : f[1] # s => (file'[f] # "shut" <=> file[f] # "shut"),
           \A p \in Screen : file'[<<s, p>>] # "shut" => Over(s, p)',
           \A p \in Screen : file[<<s, p>>] # "shut" =>
               file'[<<s, p>>] # "shut" \/ (pc[s] = "upload" /\ at[s] = p),
           pc'[s] = "upload" => pc[s] \in {"open", "upload"} /\ at'[s] = at[s]
    PROVE  FileOver' /\ AbandonedKept
<1>1. ASSUME NEW t \in Session, NEW p \in Screen, t # s
      PROVE  /\ file'[<<t, p>>] # "shut" <=> file[<<t, p>>] # "shut"
             /\ pc'[t] = pc[t] /\ at'[t] = at[t] /\ todo'[t] = todo[t]
  BY <1>1 DEF OthersKept
<1>2. FileOver'
  <2> SUFFICES ASSUME NEW t \in Session, NEW p \in Screen, file'[<<t, p>>] # "shut"
               PROVE  Over(t, p)'
    BY DEF FileOver
  <2> QED BY <1>1 DEF FileOver, Over
<1>3. AbandonedKept
  <2> SUFFICES ASSUME NEW t \in Session, NEW p \in Screen, file[<<t, p>>] # "shut",
                      ~(pc[t] = "upload" /\ at[t] = p)
               PROVE  file'[<<t, p>>] # "shut" /\ ~(pc'[t] = "upload" /\ at'[t] = p)
    BY DEF AbandonedKept, Abandoned
  <2>1. CASE t # s
    BY <1>1, <2>1
  <2>2. CASE t = s
    <3>1. pc[s] = "open" /\ at[s] = p => p \in todo[s]
      BY DEF WholeInv, AtTodo, InWrite
    <3>2. Over(s, p)
      BY <2>2 DEF FileOver
    <3> QED BY <2>2, <3>1, <3>2 DEF Over, Ending
  <2> QED BY <2>1, <2>2
<1> QED BY <1>2, <1>3

(* The steps of the program.                                                *)
LEMMA StepFile ==
    ASSUME WholeInv, FileOver, NEW s \in Session, Step(s)
    PROVE  FileOver' /\ AbandonedKept
<1> USE DEF Goto
<1>0. TypeOK /\ OthersKept(s) /\ at[s] \in Screen
  BY StepKeepsOthers DEF WholeInv, TypeOK
<1>1. ASSUME UNCHANGED file, \A p \in Screen : Over(s, p) => Over(s, p)',
             pc'[s] = "upload" => pc[s] \in {"open", "upload"} /\ at'[s] = at[s]
      PROVE  FileOver' /\ AbandonedKept
  <2>1. \A p \in Screen : file'[<<s, p>>] # "shut" => Over(s, p)'
    BY <1>1 DEF FileOver
  <2> QED BY <1>0, <1>1, <2>1, FileKept
<1>r. ASSUME Raise(s, FALSE), UNCHANGED <<at, file>>
      PROVE  FileOver' /\ AbandonedKept
  <2>1. (\A p \in Screen : Over(s, p) => Over(s, p)') /\ pc'[s] # "upload"
    BY <1>0, <1>r, RaiseOver
  <2> QED BY <1>1, <1>r, <2>1
<1>g. ASSUME UNCHANGED <<file, todo, at>>, NEW l, l # "upload", Goto(s, l),
             pc[s] \notin {"upload", "cleanup"}, pc[s] \in Ending => l \in Ending
      PROVE  FileOver' /\ AbandonedKept
  <2>1. pc'[s] = l
    BY <1>0, <1>g DEF TypeOK
  <2> QED BY <1>1, <1>g, <2>1 DEF Over
<1>e. ASSUME NEW c, c \notin {"open", "put"}, Executed(c, s, at[s])
      PROVE  UNCHANGED file
  BY <1>e DEF Executed, Moved, Removed, tablet
<1>2. CASE Enqueue(s) \/ TakeLock(s) \/ Begin(s) \/ Connect(s)
  BY <1>2, <1>g DEF Enqueue, TakeLock, Begin, Connect, tablet, Ending
<1>3. CASE Enter(s)
  <2>1. UNCHANGED file
    BY <1>3, <1>e DEF Enter, tablet
  <2> QED BY <1>3, <2>1, <1>g, <1>r DEF Enter, Ending
<1>4. CASE Nest(s) \/ Unnest(s)
  BY <1>1, <1>4 DEF Nest, Unnest, tablet, Over
<1>5. CASE NextScreen(s) \/ SkipScreen(s)
  <2>1. /\ pc[s] = "block" /\ pc'[s] \in {"block", "space"} /\ UNCHANGED file
        /\ todo'[s] \subseteq todo[s]
    BY <1>0, <1>5 DEF NextScreen, SkipScreen, tablet, TypeOK
  <2> QED BY <1>1, <2>1 DEF Over, Ending
<1>6. CASE CheckSpace(s)
  BY <1>6, <1>g, <1>r DEF CheckSpace, tablet, Ending
<1>7. CASE OpenTemp(s)
  <2>1. CASE Raise(s, FALSE) /\ UNCHANGED tablet
    BY <1>7, <2>1, <1>r DEF OpenTemp, tablet
  <2>2. CASE file' = [file EXCEPT ![<<s, at[s]>>] = "open"] /\ Goto(s, "upload") /\ UNCHANGED todo
    <3>1. /\ pc[s] = "open" /\ pc'[s] = "upload" /\ at'[s] = at[s] /\ todo'[s] = todo[s]
          /\ \A f \in Session \X Screen : f # <<s, at[s]>> => file'[f] = file[f]
          /\ file'[<<s, at[s]>>] = "open"
      BY <1>0, <1>7, <2>2 DEF OpenTemp, TypeOK
    <3>2. \A p \in Screen : file'[<<s, p>>] # "shut" => Over(s, p)'
      BY <1>0, <3>1 DEF FileOver, Over, Ending
    <3>3. \A f \in Session \X Screen : f[1] # s => f # <<s, at[s]>>
      OBVIOUS
    <3> QED BY <1>0, <3>1, <3>2, <3>3, FileKept
  <2> QED BY <1>7, <2>1, <2>2 DEF OpenTemp
<1>8. CASE Upload(s)
  <2>1. /\ pc[s] = "upload" /\ pc'[s] = "rename" /\ UNCHANGED <<at, todo>>
        /\ \A f \in Session \X Screen : f # <<s, at[s]>> => file'[f] = file[f]
        /\ file'[<<s, at[s]>>] = "shut"
    BY <1>0, <1>8 DEF Upload, Executed, Filled, TypeOK
  <2>2. \A p \in Screen : file'[<<s, p>>] # "shut" => Over(s, p)'
    BY <1>0, <2>1 DEF FileOver, Over, Ending
  <2>3. \A f \in Session \X Screen : f[1] # s => f # <<s, at[s]>>
    OBVIOUS
  <2> QED BY <1>0, <2>1, <2>2, <2>3, FileKept
<1>9. CASE Rename(s)
  BY <1>9, <1>e, <1>g, <1>r DEF Rename, Ending
<1>10. CASE CleanUp(s)
  BY <1>10, <1>e, <1>r DEF CleanUp
<1>11. CASE VerifyWrite(s)
  <2>1. CASE Goto(s, "block") /\ todo' = [todo EXCEPT ![s] = @ \ {at[s]}]
    <3>1. /\ pc[s] = "verify" /\ pc'[s] = "block" /\ UNCHANGED <<file, at>> /\ todo'[s] \subseteq todo[s]
      BY <1>0, <1>11, <2>1 DEF VerifyWrite, tablet, TypeOK
    <3> QED BY <1>1, <3>1 DEF Over, Ending
  <2> QED BY <1>11, <2>1, <1>r DEF VerifyWrite, tablet
<1>12. CASE LeaveBlock(s)
  BY <1>12, <1>g DEF LeaveBlock, tablet, Ending
<1>13. CASE Revert(s)
  <2>1. UNCHANGED file
    BY <1>13, <1>e DEF Revert, Ineffective, tablet
  <2> QED BY <1>13, <2>1, <1>g, <1>r DEF Revert, Ending
<1>14. CASE CheckMount(s)
  BY <1>14, <1>g, <1>r DEF CheckMount, tablet, Ending
<1>15. CASE Close(s)
  <2>1. Command(s) \notin {"open", "put"}
    BY <1>15 DEF Close, Command
  <2>2. UNCHANGED file
    BY <1>15, <2>1, <1>e DEF Close, Ineffective, tablet
  <2> QED BY <1>15, <2>2, <1>g DEF Close, Ending
<1>16. CASE CallOnDeadLink(s)
  BY <1>16, <1>r DEF CallOnDeadLink, tablet
<1> QED BY <1>2, <1>3, <1>4, <1>5, <1>6, <1>7, <1>8, <1>9, <1>10, <1>11, <1>12, <1>13, <1>14,
           <1>15, <1>16 DEF Step

(* Faults, what is left running at the tablet, and the end of connections.  *)
LEMMA NextFile ==
    ASSUME WholeInv, FileOver, [Next]_vars
    PROVE  FileOver' /\ AbandonedKept
<1>0. TypeOK
  BY DEF WholeInv
<1>1. ASSUME NEW s \in Session, LoseCall(s) \/ Interrupt(s)
      PROVE  FileOver' /\ AbandonedKept
  <2>1. PICK base \in BOOLEAN : Raise(s, base) /\ UNCHANGED at
    BY <1>1 DEF LoseCall, Interrupt
  <2>2. /\ \A p \in Screen : Over(s, p) => Over(s, p)'
        /\ pc[s] \in {"open", "upload"} => \A p \in Screen : p = at[s] => Over(s, p)'
        /\ pc'[s] # "upload"
    BY <1>0, <2>1, RaiseOver
  <2>3. /\ \A f \in Session \X Screen :
               file'[f] # "shut" => file[f] # "shut" \/ (pc[s] = "open" /\ f = <<s, at[s]>>)
        /\ \A f \in Session \X Screen : file[f] # "shut" =>
               file'[f] # "shut" \/ (f = <<s, at[s]>> /\ pc[s] = "upload")
    BY <1>0, <1>1, StruckFile DEF LoseCall, Interrupt
  <2>4. \A p \in Screen : file'[<<s, p>>] # "shut" => Over(s, p)'
    <3> SUFFICES ASSUME NEW p \in Screen, file'[<<s, p>>] # "shut" PROVE Over(s, p)'
      OBVIOUS
    <3>1. file[<<s, p>>] # "shut" \/ (pc[s] = "open" /\ p = at[s])
      BY <2>3
    <3> QED BY <2>2, <3>1 DEF FileOver
  <2>5. \A f \in Session \X Screen : f[1] # s => (file'[f] # "shut" <=> file[f] # "shut")
    BY <2>3
  <2>6. \A p \in Screen : file[<<s, p>>] # "shut" =>
            file'[<<s, p>>] # "shut" \/ (pc[s] = "upload" /\ at[s] = p)
    BY <2>3
  <2>7. OthersKept(s)
    BY <1>0, <1>1, StepKeepsOthers
  <2> QED BY <2>2, <2>4, <2>5, <2>6, <2>7, FileKept
<1>2. ASSUME NEW s \in Session, Kill(s)
      PROVE  FileOver' /\ AbandonedKept
  <2>1. /\ \A t \in Session : pc'[t] = "closed" \/ pc'[t] = pc[t]
        /\ pc'[s] = "closed" /\ UNCHANGED <<todo, at>>
    BY <1>0, <1>2 DEF Kill, TypeOK
  <2>2. /\ \A f \in Session \X Screen :
               file'[f] # "shut" => file[f] # "shut" \/ (pc[s] = "open" /\ f = <<s, at[s]>>)
        /\ \A f \in Session \X Screen : file[f] # "shut" =>
               file'[f] # "shut" \/ (f = <<s, at[s]>> /\ pc[s] = "upload")
    BY <1>0, <1>2, StruckFile DEF Kill
  <2>3. FileOver'
    <3> SUFFICES ASSUME NEW t \in Session, NEW p \in Screen, file'[<<t, p>>] # "shut"
                 PROVE  Over(t, p)'
      BY DEF FileOver
    <3>1. CASE t = s
      BY <2>1, <3>1 DEF Over, Ending
    <3>2. CASE t # s
      <4>1. file[<<t, p>>] # "shut"
        BY <2>2, <3>2
      <4> QED BY <2>1, <4>1 DEF FileOver, Over, Ending
    <3> QED BY <3>1, <3>2
  <2>4. AbandonedKept
    <3> SUFFICES ASSUME NEW t \in Session, NEW p \in Screen, file[<<t, p>>] # "shut",
                        ~(pc[t] = "upload" /\ at[t] = p)
                 PROVE  file'[<<t, p>>] # "shut" /\ ~(pc'[t] = "upload" /\ at'[t] = p)
      BY DEF AbandonedKept, Abandoned
    <3> QED BY <2>1, <2>2
  <2> QED BY <2>3, <2>4
<1>3. ASSUME UNCHANGED <<pc, at, todo>>,
             \A s \in Session, p \in Screen : file'[<<s, p>>] # "shut" =>
                 file[<<s, p>>] # "shut" \/ <<"open", s, p>> \in late,
             \A s \in Session, p \in Screen : file[<<s, p>>] # "shut" =>
                 file'[<<s, p>>] # "shut" \/ (pc[s] = "upload" /\ at[s] = p)
      PROVE  FileOver' /\ AbandonedKept
  <2>1. \A s \in Session, p \in Screen : <<"open", s, p>> \in late => Over(s, p)
    BY DEF WholeInv, LateMv, Over, Ending
  <2>2. FileOver'
    BY <1>3, <2>1 DEF FileOver, Over
  <2>3. AbandonedKept
    BY <1>3 DEF AbandonedKept, Abandoned
  <2> QED BY <2>2, <2>3
<1>4. CASE FinishLate
  <2>1. PICK c \in late : /\ Executed(c[1], c[2], c[3])
                          /\ UNCHANGED <<pc, at, todo>>
    BY <1>4 DEF FinishLate
  <2>2. c[2] \in Session /\ c[3] \in Screen /\ c = <<c[1], c[2], c[3]>>
    BY <1>0 DEF TypeOK
  <2>3. /\ \A f \in Session \X Screen :
               file'[f] # "shut" => file[f] # "shut" \/ (c[1] = "open" /\ f = <<c[2], c[3]>>)
        /\ \A f \in Session \X Screen : file[f] # "shut" =>
               file'[f] # "shut" \/ (f = <<c[2], c[3]>> /\ pc[c[2]] = "upload" /\ at[c[2]] = c[3])
    BY <1>0, <2>1, <2>2, ExecutedFile
  <2>4. \A s \in Session, p \in Screen : file'[<<s, p>>] # "shut" =>
            file[<<s, p>>] # "shut" \/ <<"open", s, p>> \in late
    BY <2>2, <2>3
  <2>5. \A s \in Session, p \in Screen : file[<<s, p>>] # "shut" =>
            file'[<<s, p>>] # "shut" \/ (pc[s] = "upload" /\ at[s] = p)
    BY <2>3
  <2> QED BY <1>3, <2>1, <2>4, <2>5
<1>5. ASSUME NEW s \in Session, HangUp(s)
      PROVE  FileOver' /\ AbandonedKept
  <2>1. \A f \in Session \X Screen : file'[f] # "shut" <=> file[f] # "shut"
    BY <1>0, <1>5 DEF HangUp, Dropped, tablet, TypeOK
  <2>2. \A t \in Session, p \in Screen : file'[<<t, p>>] # "shut" <=> file[<<t, p>>] # "shut"
    BY <2>1
  <2> QED BY <1>3, <1>5, <2>2 DEF HangUp
<1>6. CASE UNCHANGED vars
  BY <1>3, <1>6 DEF vars
<1> QED BY <1>1, <1>2, <1>4, <1>5, <1>6, StepFile DEF Next, Done

LEMMA FileAlways == Spec => []FileOver
<1>1. Init => FileOver
  BY DEF Init, FileOver
<1>2. WholeInv /\ FileOver /\ [Next]_vars => FileOver'
  BY NextFile
<1> QED BY <1>1, <1>2, WholeAlways, PTL DEF Spec

-----------------------------------------------------------------------------
(* What one failure cannot leave behind.  While / is writable some session  *)
(* will still revert it (Due): one in its block or about to leave it, or    *)
(* one that lost a call there and has its depth to tell close() so.  Or one *)
(* has met more than the promise covers (Spoilt), or abandoned an upload.   *)
(* A session that finds / busy at its revert leaves it to the one whose     *)
(* file is open.                                                            *)

Spoilt(s) == ~up[s] \/ hits[s] > 1 \/ fate[s] \in {"unentered", "killed"}

Due(s) == /\ depth[s] > 0
          /\ \/ pc[s] \in InBlock \cup {"revert"}
             \/ pc[s] \in {"check", "close"} /\ hits[s] > 0

DepthCounts == \A s \in Session : pc[s] \in InBlock => depth[s] > 0

Answered == mount = "rw" => \/ \E s \in Session : Spoilt(s) \/ Due(s)
                            \/ \E f \in Session \X Screen : Abandoned(f)

RevertInv == OwnedInv /\ DepthCounts /\ Answered

(* An exception in the block leads out of it over the revert, one at the    *)
(* revert leads to close() with the depth as it was.                        *)
LEMMA RaiseDue ==
    ASSUME TypeOK, NEW s \in Session, NEW base \in BOOLEAN,
           pc[s] \notin {"idle", "queued", "granted", "closed"},
           pc[s] = "block" => base, Raise(s, base)
    PROVE  /\ pc[s] \in InBlock => /\ pc'[s] \in InBlock \cup {"revert"}
                                   /\ depth'[s] = depth[s] \/ depth'[s] = 1
           /\ pc[s] \in {"revert", "check"} => pc'[s] = "close" /\ depth'[s] = depth[s]
           /\ pc'[s] \in InBlock => pc[s] \in InBlock
           /\ pc[s] = "enter" => fate'[s] = "unentered"
           /\ fate[s] \in {"unentered", "killed"} => fate'[s] \in {"unentered", "killed"}
<1> DEFINE h == Handler(s, base)
<1>1. /\ h \in {"cleanup", "block", "revert", "close", "closed"}
      /\ pc[s] \in {"enter", "revert", "check"} => h = "close"
      /\ pc[s] \in {"connect", "close"} => h = "closed"
  BY DEF Handler, InBlock, InWrite
<1>2. pc[s] \in InBlock => h \in {"cleanup", "block", "revert"}
  <2>1. CASE base
    BY <2>1 DEF Handler, InBlock, InWrite
  <2>2. CASE ~base
    BY <2>2 DEF Handler, InBlock, InWrite
  <2> QED BY <2>1, <2>2
<1>3. pc[s] \in InBlock \cup {"enter", "revert", "check", "connect", "close"}
  BY DEF TypeOK, Label, Waiting, InCall, InBlock
<1>4. pc'[s] = h
  BY DEF Raise, TypeOK
<1>5. depth'[s] = CASE h = "revert" -> 1 [] h = "closed" -> 0 [] OTHER -> depth[s]
  BY DEF Raise, TypeOK
<1>c1. h = "revert" => depth'[s] = 1
  BY <1>5
<1>c2. h \notin {"revert", "closed"} => depth'[s] = depth[s]
  BY <1>5
<1>6. fate'[s] = CASE pc[s] = "enter" -> "unentered"
                   [] h \in {"cleanup", "block"} \/ pc[s] = "close" -> fate[s]
                   [] OTHER -> IF fate[s] = "running" THEN "failed" ELSE fate[s]
  BY DEF Raise, TypeOK
<1>c3. pc[s] = "enter" => fate'[s] = "unentered"
  BY <1>1, <1>6
<1>c4. pc[s] # "enter" /\ fate[s] \in {"unentered", "killed"} => fate'[s] = fate[s]
  BY <1>6
<1> HIDE DEF h
<1> QED BY <1>1, <1>2, <1>3, <1>4, <1>c1, <1>c2, <1>c3, <1>c4 DEF InBlock, InWrite

(* A step after which the session still answers for /, or another does.     *)
LEMMA RevertKept ==
    ASSUME RevertInv, OwnedInv', AbandonedKept, NEW s \in Session, OthersKept(s),
           pc'[s] \in InBlock => depth'[s] > 0,
           Spoilt(s) => Spoilt(s)',
           mount' = "rw" => mount = "rw" \/ Spoilt(s)' \/ Due(s)',
           mount' = "rw" /\ Due(s) =>
               \/ Spoilt(s)' \/ Due(s)'
               \/ \E t \in Session \ {s} : pc[t] \in InBlock
               \/ \E f \in Session \X Screen : Abandoned(f)
    PROVE  RevertInv'
<1>1. DepthCounts'
  BY DEF RevertInv, DepthCounts, OthersKept
<1>2. \A t \in Session \ {s} : (Due(t) => Due(t)') /\ (Spoilt(t) => Spoilt(t)')
  BY DEF Due, Spoilt, OthersKept
<1>3. \A t \in Session : pc[t] \in InBlock => Due(t)
  BY DEF RevertInv, DepthCounts, Due
<1>4. Answered'
  BY <1>2, <1>3 DEF RevertInv, Answered, AbandonedKept
<1> QED BY <1>1, <1>4 DEF RevertInv

(* What keeps / busy, to a session that has no upload of its own: another's *)
(* upload, or one that was given up.                                        *)
LEMMA BusyElsewhere ==
    ASSUME NEW s \in Session, pc[s] # "upload", Busy
    PROVE  \/ \E t \in Session \ {s} : pc[t] \in InBlock
           \/ \E f \in Session \X Screen : Abandoned(f)
<1>1. PICK f \in Session \X Screen : file[f] = "open"
  BY DEF Busy
<1>2. CASE pc[f[1]] = "upload"
  BY <1>2 DEF InBlock, InWrite
<1>3. CASE pc[f[1]] # "upload"
  BY <1>1, <1>3 DEF Abandoned
<1> QED BY <1>2, <1>3

(* A session that has its link and loses no call. *)
LEMMA StepReverts ==
    ASSUME RevertInv, OwnedInv', AbandonedKept, NEW s \in Session, Step(s)
    PROVE  RevertInv'
<1> USE DEF Goto
<1>0. OthersKept(s) /\ TypeOK
  BY StepKeepsOthers DEF RevertInv, OwnedInv
<1>1. ASSUME UNCHANGED <<up, hits>>, UNCHANGED fate,
             pc'[s] \in InBlock => depth'[s] > 0,
             mount' = "rw" => mount = "rw" \/ Due(s)',
             mount' = "rw" /\ Due(s) => Due(s)'
      PROVE  RevertInv'
  <2>1. Spoilt(s) => Spoilt(s)'
    BY <1>1 DEF Spoilt
  <2> QED BY <1>0, <1>1, <2>1, RevertKept
<1>u. UNCHANGED tablet => (mount' = "rw" => mount = "rw")
  BY DEF tablet
<1>r. ASSUME Raise(s, FALSE), UNCHANGED <<up, hits>>,
             pc[s] \notin {"idle", "queued", "granted", "block", "closed"},
             pc[s] \in {"revert", "close"} => ~up[s],
             mount' = "rw" => mount = "rw" \/ pc[s] = "enter"
      PROVE  RevertInv'
  <2>0. /\ pc[s] \in InBlock => /\ pc'[s] \in InBlock \cup {"revert"}
                                /\ depth'[s] = depth[s] \/ depth'[s] = 1
        /\ pc[s] \in {"revert", "check"} => pc'[s] = "close" /\ depth'[s] = depth[s]
        /\ pc'[s] \in InBlock => pc[s] \in InBlock
        /\ pc[s] = "enter" => fate'[s] = "unentered"
        /\ fate[s] \in {"unentered", "killed"} => fate'[s] \in {"unentered", "killed"}
    BY <1>0, <1>r, RaiseDue
  <2>1. pc'[s] \in InBlock => depth'[s] > 0
    BY <2>0 DEF RevertInv, DepthCounts
  <2>2. /\ Spoilt(s) => Spoilt(s)'
        /\ pc[s] \in {"enter", "revert", "close"} => Spoilt(s)'
    BY <1>r, <2>0 DEF Spoilt
  <2>3. Due(s) /\ pc[s] \notin {"close", "revert"} => Due(s)'
    BY <1>r, <2>0 DEF Due, InBlock, InWrite
  <2> QED BY <1>0, <1>r, <2>1, <2>2, <2>3, RevertKept
<1>g. ASSUME NEW l \in {"queued", "granted", "connect", "enter"} \cup InBlock \cup {"revert"},
             Goto(s, l), UNCHANGED <<depth, up, hits, fate>>,
             pc[s] \in Waiting \cup {"connect"} => l \notin InBlock \cup {"revert"},
             pc[s] \in Waiting \cup {"connect"} \cup InBlock,
             pc[s] \in InBlock => l \in InBlock \cup {"revert"},
             mount' = "rw" => mount = "rw"
      PROVE  RevertInv'
  <2>1. pc'[s] = l
    BY <1>0, <1>g DEF TypeOK
  <2> QED BY <1>g, <2>1, <1>1 DEF Due, RevertInv, DepthCounts, InBlock, InWrite, Waiting
<1>2. CASE Enqueue(s) \/ TakeLock(s) \/ Begin(s) \/ Connect(s)
  BY <1>2, <1>g, <1>u DEF Enqueue, TakeLock, Begin, Connect, Waiting, InBlock, InWrite
<1>3. CASE Enter(s)
  <2>1. CASE Raise(s, FALSE) /\ UNCHANGED tablet
    BY <1>3, <2>1, <1>r, <1>u DEF Enter
  <2>2. CASE Goto(s, "block") /\ depth' = [depth EXCEPT ![s] = 1] /\ UNCHANGED fate
    <3>1. pc'[s] = "block" /\ depth'[s] = 1
      BY <1>0, <2>2 DEF TypeOK
    <3> QED BY <1>1, <1>3, <2>2, <3>1 DEF Enter, Due, InBlock
  <2> QED BY <1>3, <2>1, <2>2 DEF Enter
<1>4. CASE Nest(s) \/ Unnest(s)
  <2>1. /\ UNCHANGED <<tablet, pc, up, hits, fate>> /\ pc[s] = "block" /\ depth'[s] > 0
    BY <1>0, <1>4 DEF Nest, Unnest, TypeOK
  <2> QED BY <1>1, <2>1, <1>u DEF Due, InBlock
<1>5. CASE SkipScreen(s)
  BY <1>1, <1>5, <1>u DEF SkipScreen, Due, RevertInv, DepthCounts
<1>6. CASE NextScreen(s) \/ LeaveBlock(s)
  BY <1>6, <1>g, <1>u DEF NextScreen, LeaveBlock, InBlock, InWrite, Waiting
<1>7. CASE CheckSpace(s)
  BY <1>7, <1>g, <1>r, <1>u DEF CheckSpace, InBlock, InWrite, Waiting
<1>8. CASE OpenTemp(s)
  BY <1>8, <1>g, <1>r, <1>u DEF OpenTemp, InBlock, InWrite, Waiting
<1>9. CASE Upload(s) \/ Rename(s) \/ CleanUp(s)
  <2>1. mount' = "rw" => mount = "rw"
    BY <1>9, ExecutedNotMounting DEF Upload, Rename, CleanUp
  <2> QED BY <1>9, <2>1, <1>g, <1>r DEF Upload, Rename, CleanUp, InBlock, InWrite, Waiting
<1>10. CASE VerifyWrite(s)
  BY <1>10, <1>g, <1>r, <1>u DEF VerifyWrite, InBlock, InWrite, Waiting
<1>11. CASE Revert(s)
  <2>1. mount' = "rw" => mount = "rw"
    BY <1>11, <1>u, ExecutedNotMounting DEF Revert, Ineffective
  <2>2. mount' = "rw" => \/ hits'[s] > 0
                         \/ \E t \in Session \ {s} : pc[t] \in InBlock
                         \/ \E f \in Session \X Screen : Abandoned(f)
    <3>1. Busy => \/ \E t \in Session \ {s} : pc[t] \in InBlock
                  \/ \E f \in Session \X Screen : Abandoned(f)
      BY <1>11, BusyElsewhere DEF Revert
    <3>2. ~Busy => mount' = "ro" \/ hits'[s] > 0
      BY <1>0, <1>11 DEF Revert, Ineffective, Executed, TypeOK
    <3> QED BY <1>0, <3>1, <3>2 DEF OwnedInv, TypeOK
  <2>3. /\ pc'[s] \in {"check", "close"} /\ depth'[s] = depth[s] /\ UNCHANGED up
        /\ fate[s] \in {"unentered", "killed"} => fate'[s] \in {"unentered", "killed"}
    <3>1. CASE Raise(s, FALSE)
      BY <1>0, <1>11, <3>1, RaiseDue DEF Revert
    <3>2. CASE Goto(s, "check") /\ UNCHANGED <<lock, depth, todo, fate>>
      BY <1>0, <1>11, <3>2 DEF Revert, TypeOK
    <3> QED BY <1>11, <3>1, <3>2 DEF Revert
  <2>4. hits'[s] >= hits[s]
    BY <1>0, <1>11 DEF Revert, Ineffective, TypeOK
  <2>5. Spoilt(s) => Spoilt(s)'
    BY <1>0, <2>3, <2>4 DEF Spoilt, TypeOK, OwnedInv
  <2>6. hits'[s] > 0 /\ Due(s) => Due(s)'
    BY <2>3 DEF Due
  <2> QED BY <1>0, <2>1, <2>2, <2>3, <2>5, <2>6, RevertKept DEF InBlock, InWrite
<1>12. CASE CheckMount(s)
  <2>1. CASE mount = "ro"
    <3>1. mount' = "ro" /\ Goto(s, "close") /\ UNCHANGED <<up, hits, fate>>
      BY <1>12, <2>1 DEF CheckMount, tablet
    <3> QED BY <1>0, <1>1, <3>1 DEF InBlock, InWrite, TypeOK
  <2>2. CASE mount # "ro"
    BY <1>12, <2>2, <1>r, <1>u DEF CheckMount
  <2> QED BY <2>1, <2>2
<1>13. CASE Close(s)
  <2>1. /\ pc[s] = "close" /\ pc'[s] = "closed" /\ UNCHANGED up
        /\ fate[s] \in {"unentered", "killed"} => fate'[s] = fate[s]
    BY <1>0, <1>13 DEF Close, TypeOK
  <2>2. hits'[s] >= hits[s]
    BY <1>0, <1>13 DEF Close, Ineffective, TypeOK
  <2>3. Spoilt(s) => Spoilt(s)'
    BY <1>0, <2>1, <2>2 DEF Spoilt, TypeOK, OwnedInv
  <2>4. mount' = "rw" => mount = "rw"
    <3>1. Command(s) # "rw"
      BY <1>13 DEF Close, Command
    <3> QED BY <1>13, <3>1, <1>u, ExecutedNotMounting DEF Close, Ineffective
  <2>5. mount' = "rw" /\ Due(s) =>
            \/ Spoilt(s)'
            \/ \E t \in Session \ {s} : pc[t] \in InBlock
            \/ \E f \in Session \X Screen : Abandoned(f)
    <3> SUFFICES ASSUME mount' = "rw", Due(s), ~Spoilt(s)'
                 PROVE  \/ \E t \in Session \ {s} : pc[t] \in InBlock
                        \/ \E f \in Session \X Screen : Abandoned(f)
      OBVIOUS
    <3>1. hits[s] > 0 /\ depth[s] > 0 /\ Command(s) = "ro"
      BY <2>1 DEF Due, Command, InBlock, InWrite
    <3>2. CASE Ineffective(s)
      BY <1>0, <3>1, <3>2 DEF Ineffective, Spoilt, TypeOK
    <3>3. CASE Executed("ro", s, at[s])
      <4>1. Busy
        BY <3>3 DEF Executed
      <4> QED BY <2>1, <4>1, BusyElsewhere
    <3> QED BY <1>13, <3>1, <3>2, <3>3 DEF Close
  <2> QED BY <1>0, <2>1, <2>3, <2>4, <2>5, RevertKept DEF InBlock, InWrite
<1>14. CASE CallOnDeadLink(s)
  BY <1>14, <1>r, <1>u DEF CallOnDeadLink, AtCall, InCall, InWrite
<1> QED BY <1>2, <1>3, <1>4, <1>5, <1>6, <1>7, <1>8, <1>9, <1>10, <1>11, <1>12, <1>13, <1>14 DEF Step

(* A fault spoils a session that has met one before, or was not in its      *)
(* block; in the block or behind it, it makes the revert due at close().    *)
LEMMA FaultReverts ==
    ASSUME RevertInv, OwnedInv', AbandonedKept, NEW s \in Session, LoseCall(s) \/ Interrupt(s) \/ Kill(s)
    PROVE  RevertInv'
<1>0. TypeOK /\ TypeOK'
  BY DEF RevertInv, OwnedInv
<1>1. CASE LoseCall(s) \/ Interrupt(s)
  <2>1. PICK base \in BOOLEAN : Raise(s, base) /\ (pc[s] = "block" => base)
    BY <1>1 DEF LoseCall, Interrupt, AtCall, InCall, InWrite
  <2>2. /\ pc[s] \notin {"idle", "queued", "granted", "closed"}
        /\ hits'[s] = hits[s] + 1 /\ (~up[s] => ~up'[s])
        /\ Struck(s) \/ UNCHANGED <<tablet, late>>
    BY <1>0, <1>1 DEF LoseCall, Interrupt, AtCall, InCall, InWrite, TypeOK
  <2>3. /\ pc[s] \in InBlock => /\ pc'[s] \in InBlock \cup {"revert"}
                                /\ depth'[s] = depth[s] \/ depth'[s] = 1
        /\ pc[s] \in {"revert", "check"} => pc'[s] = "close" /\ depth'[s] = depth[s]
        /\ pc'[s] \in InBlock => pc[s] \in InBlock
        /\ pc[s] = "enter" => fate'[s] = "unentered"
        /\ fate[s] \in {"unentered", "killed"} => fate'[s] \in {"unentered", "killed"}
    BY <1>0, <2>1, <2>2, RaiseDue
  <2>4. pc'[s] \in InBlock => depth'[s] > 0
    BY <2>3 DEF RevertInv, DepthCounts
  <2>5. hits[s] \in Nat /\ hits'[s] > 0 /\ (hits[s] > 0 => hits'[s] > 1)
    BY <1>0, <2>2, BoundAssumption DEF TypeOK
  <2>6. /\ Spoilt(s) => Spoilt(s)'
        /\ pc[s] = "enter" => Spoilt(s)'
        /\ hits[s] > 0 => Spoilt(s)'
    BY <2>2, <2>3, <2>5 DEF Spoilt
  <2>7. Due(s) /\ ~(hits[s] > 0) => Due(s)'
    BY <2>3, <2>5 DEF Due
  <2>8. mount' = "rw" => mount = "rw" \/ pc[s] = "enter"
    BY <2>2, StruckMounting
  <2>9. OthersKept(s)
    BY <1>0, <1>1, StepKeepsOthers
  <2> QED BY <2>4, <2>6, <2>7, <2>8, <2>9, RevertKept
<1>2. CASE Kill(s)
  <2>1. /\ \A t \in Session :
              \/ pc'[t] = "closed" /\ fate'[t] = "killed"
              \/ /\ pc'[t] = pc[t] /\ fate'[t] = fate[t] /\ depth'[t] = depth[t]
                 /\ hits'[t] = hits[t] /\ up'[t] = up[t]
        /\ pc'[s] = "closed" /\ fate'[s] = "killed"
    BY <1>0, <1>2 DEF Kill, TypeOK
  <2>2. DepthCounts'
    BY <2>1 DEF RevertInv, DepthCounts, InBlock, InWrite
  <2>3. Spoilt(s)'
    BY <2>1 DEF Spoilt
  <2> QED BY <2>2, <2>3 DEF RevertInv, Answered
<1> QED BY <1>1, <1>2

(* A remount that completes late belongs to a session that never entered.   *)
LEMMA LateReverts ==
    ASSUME RevertInv, OwnedInv', AbandonedKept, FinishLate
    PROVE  RevertInv'
<1>1. PICK c \in late : /\ Executed(c[1], c[2], c[3])
                        /\ late' = late \ {c}
                        /\ UNCHANGED <<lock, pc, depth, todo, at, up, hits, fate>>
  BY DEF FinishLate
<1>2. c[2] \in Session /\ c[3] \in Screen /\ c = <<c[1], c[2], c[3]>>
  BY DEF RevertInv, OwnedInv, TypeOK
<1>3. CASE c[1] = "rw"
  <2>1. Spoilt(c[2])
    BY <1>2, <1>3 DEF RevertInv, OwnedInv, LateFailing, Failing, Spoilt
  <2> QED BY <1>1, <1>2, <2>1 DEF RevertInv, DepthCounts, Answered, Spoilt
<1>4. CASE c[1] # "rw"
  <2>1. mount' = "rw" => mount = "rw"
    BY <1>1, <1>4, ExecutedNotMounting
  <2> QED BY <1>1, <2>1 DEF RevertInv, DepthCounts, Answered, AbandonedKept, Spoilt, Due
<1> QED BY <1>3, <1>4

(* The finally and close() between them: however many commands and requests *)
(* overlap, with or without the lock, / is read-only at the end unless a    *)
(* session lost two calls, its link or its life, never got through its      *)
(* first remount, or gave up on an upload whose file the tablet had open.   *)
THEOREM RevertedAtTheEnd == Spec => []CloseReverts
<1>1. Init => RevertInv
  BY InitTyped DEF Init, RevertInv, OwnedInv, OkClosed, LateFailing, Owned, DepthCounts,
                   Answered, InBlock, InWrite
<1>2. RevertInv /\ WholeInv /\ FileOver /\ OwnedInv' /\ [Next]_vars => RevertInv'
  <2> SUFFICES ASSUME RevertInv, WholeInv, FileOver, OwnedInv', [Next]_vars PROVE RevertInv'
    OBVIOUS
  <2>0. AbandonedKept
    BY NextFile
  <2>1. CASE UNCHANGED <<mount, pc, depth, up, hits, fate>>
    BY <2>0, <2>1 DEF RevertInv, DepthCounts, Answered, AbandonedKept, Spoilt, Due
  <2>2. CASE \E s \in Session : Step(s) \/ LoseCall(s) \/ Interrupt(s) \/ Kill(s)
    BY <2>0, <2>2, StepReverts, FaultReverts
  <2>3. CASE FinishLate
    BY <2>0, <2>3, LateReverts
  <2>4. ASSUME NEW s \in Session, HangUp(s) PROVE UNCHANGED <<mount, pc, depth, up, hits, fate>>
    BY <2>4 DEF HangUp, Dropped, tablet
  <2> QED BY <2>1, <2>2, <2>3, <2>4 DEF Next, Done, vars
<1>3. RevertInv => CloseReverts
  <2> SUFFICES ASSUME RevertInv, EndedWell, NoneAbandoned,
                      \A s \in Session : fate[s] # "unentered", mount = "rw"
               PROVE  FALSE
    BY DEF CloseReverts, RevertInv, OwnedInv, TypeOK
  <2>1. \A s \in Session : hits[s] <= 1 /\ hits[s] \in Nat
    BY BoundAssumption DEF EndedWell, RevertInv, OwnedInv, TypeOK
  <2>2. \A s \in Session : ~Spoilt(s)
    BY <2>1 DEF EndedWell, Spoilt
  <2>3. \A s \in Session : ~Due(s)
    BY DEF EndedWell, Due, InBlock, InWrite
  <2>4. \A f \in Session \X Screen : ~Abandoned(f)
    BY DEF NoneAbandoned, Abandoned
  <2> QED BY <2>2, <2>3, <2>4 DEF RevertInv, Answered
<1> QED BY <1>1, <1>2, <1>3, OwnedAlways, WholeAlways, FileAlways, PTL DEF Spec

-----------------------------------------------------------------------------
(* The floor.  The check and the upload are two steps, so a request that    *)
(* has passed the check must still find the space it was promised: nobody   *)
(* else opens a temporary file meanwhile, because of the lock.              *)

HasRoom == \A s \in Session : pc[s] = "open" => free >= Size[Image(s)] + Floor

FloorInv == TypeOK /\ LockHeld /\ FloorKept /\ HasRoom

(* The lock is with the request at work, commands left running or not.      *)
LEMMA StepHeld ==
    ASSUME TypeOK, LockHeld, Web = Session, NEW s \in Session, Step(s)
    PROVE  LockHeld'
<1> USE DEF Goto, NoLock
<1>0. NoOne \notin Session
  BY NamesAssumption
<1>1. CASE Enqueue(s) \/ TakeLock(s)
  BY <1>0, <1>1 DEF Enqueue, TakeLock, TypeOK, LockHeld
<1>2. ASSUME pc[s] \notin NoLock, UNCHANGED lock, NEW l, l \notin NoLock, Goto(s, l)
      PROVE  LockHeld'
  BY <1>2 DEF TypeOK, LockHeld
<1>3. ASSUME pc[s] \notin NoLock, Raise(s, FALSE)
      PROVE  LockHeld'
  BY <1>3, RaiseLock
<1>4. CASE Begin(s) \/ Connect(s)
  BY <1>2, <1>4 DEF Begin, Connect
<1>5. CASE Nest(s) \/ Unnest(s) \/ SkipScreen(s)
  BY <1>5 DEF Nest, Unnest, SkipScreen, LockHeld
<1>6. CASE Enter(s) \/ NextScreen(s) \/ CheckSpace(s) \/ OpenTemp(s)
  BY <1>2, <1>3, <1>6 DEF Enter, NextScreen, CheckSpace, OpenTemp
<1>7. CASE Upload(s) \/ Rename(s) \/ CleanUp(s) \/ VerifyWrite(s) \/ LeaveBlock(s)
  BY <1>2, <1>3, <1>7 DEF Upload, Rename, CleanUp, VerifyWrite, LeaveBlock
<1>8. CASE Revert(s) \/ CheckMount(s)
  BY <1>2, <1>3, <1>8 DEF Revert, CheckMount
<1>9. CASE Close(s)
  BY <1>0, <1>9 DEF Close, Released, TypeOK, LockHeld
<1>10. CASE CallOnDeadLink(s)
  BY <1>3, <1>10 DEF CallOnDeadLink, AtCall, InCall, InWrite
<1> QED BY <1>1, <1>4, <1>5, <1>6, <1>7, <1>8, <1>9, <1>10 DEF Step

(* A fault gives the lock up only together with the request.                *)
LEMMA FaultHeld ==
    ASSUME TypeOK, LockHeld, Web = Session, NEW s \in Session, LoseCall(s) \/ Kill(s)
    PROVE  LockHeld'
<1>1. CASE LoseCall(s)
  BY <1>1, RaiseLock DEF LoseCall, AtCall, InCall, InWrite, NoLock
<1>2. CASE Kill(s)
  <2>1. \A t \in Session : pc'[t] \in NoLock
    BY <1>2 DEF Kill, NoLock
  <2>2. lock' = NoOne
    BY <1>2 DEF Kill, LockHeld, TypeOK, NoLock
  <2> QED BY <2>1, <2>2, NamesAssumption DEF LockHeld
<1> QED BY <1>1, <1>2

(* No command the tablet executes takes space: putfo is charged when it     *)
(* opens its file.                                                          *)
LEMMA ExecutedFrees ==
    ASSUME TypeOK, NEW s \in Session, NEW p \in Screen, NEW c, Executed(c, s, p)
    PROVE  free' >= free
<1>1. Size[screen[p]] \in Nat /\ Size[Image(s)] \in Nat
  BY SizeAssumption DEF TypeOK, Image
<1>2. CASE Moved(s, p) \/ Removed(s, p) \/ Dropped(s, p)
  BY <1>1, <1>2 DEF Moved, Removed, Dropped, tablet, TypeOK
<1>3. CASE UNCHANGED free
  BY <1>3 DEF TypeOK
<1> QED BY <1>2, <1>3 DEF Executed, Created, Filled, tablet

(* A step that takes no space and lets nobody through the check.            *)
LEMMA RoomKept ==
    ASSUME FloorInv, TypeOK', free' >= free,
           \A t \in Session : pc'[t] = "open" => pc[t] = "open"
    PROVE  FloorKept' /\ HasRoom'
<1>1. /\ free \in Nat /\ free' \in Nat /\ Floor \in Nat
      /\ \A t \in Session : Size[Image(t)] \in Nat
  BY SizeAssumption DEF FloorInv, TypeOK, Image
<1> QED BY <1>1 DEF FloorInv, FloorKept, HasRoom

(* An exception is not the way through the check.                           *)
LEMMA RaiseNotOpen ==
    ASSUME TypeOK, NEW s \in Session, NEW base \in BOOLEAN, Raise(s, base)
    PROVE  \A t \in Session : pc'[t] = "open" => pc[t] = "open"
<1>1. Handler(s, base) # "open"
  BY DEF Handler
<1> QED BY <1>1 DEF Raise, TypeOK

(* Only a request that passed the check takes space.                        *)
LEMMA StepFloor ==
    ASSUME FloorInv, TypeOK', Web = Session, NEW s \in Session, Step(s)
    PROVE  FloorKept' /\ HasRoom'
<1> USE DEF Goto
<1>0. TypeOK /\ at[s] \in Screen /\ free \in Nat /\ free' \in Nat
  BY DEF FloorInv, TypeOK
<1>g. ASSUME free' >= free, NEW l, l # "open", Goto(s, l)
      PROVE  FloorKept' /\ HasRoom'
  BY <1>0, <1>g, RoomKept DEF TypeOK
<1>r. ASSUME free' >= free, Raise(s, FALSE)
      PROVE  FloorKept' /\ HasRoom'
  BY <1>0, <1>r, RoomKept, RaiseNotOpen
<1>u. UNCHANGED tablet => free' >= free
  BY <1>0 DEF tablet
<1>1. CASE Enqueue(s) \/ TakeLock(s) \/ Begin(s) \/ Connect(s)
  BY <1>1, <1>g, <1>u DEF Enqueue, TakeLock, Begin, Connect
<1>2. CASE Enter(s)
  <2>1. free' >= free
    BY <1>0, <1>2, <1>u, ExecutedFrees DEF Enter
  <2> QED BY <1>2, <2>1, <1>g, <1>r DEF Enter
<1>3. CASE Nest(s) \/ Unnest(s) \/ SkipScreen(s)
  BY <1>3, <1>u, RoomKept DEF Nest, Unnest, SkipScreen
<1>4. CASE NextScreen(s) \/ LeaveBlock(s)
  BY <1>4, <1>g, <1>u DEF NextScreen, LeaveBlock
<1>5. CASE CheckSpace(s)
  <2>1. CASE Raise(s, FALSE)
    BY <1>5, <2>1, <1>r, <1>u DEF CheckSpace
  <2>2. CASE ~Refused(s) /\ Goto(s, "open")
    <3>1. free >= Size[Image(s)] + Floor
      <4>1. Size[Image(s)] \in Nat /\ Floor \in Nat
        BY SizeAssumption DEF Image
      <4> QED BY <1>0, <2>2, <4>1 DEF Refused
    <3> QED BY <1>0, <1>5, <2>2, <3>1 DEF CheckSpace, tablet, FloorInv, FloorKept, HasRoom, TypeOK
  <2> QED BY <1>5, <2>1, <2>2 DEF CheckSpace
<1>6. CASE OpenTemp(s)
  <2>1. CASE Raise(s, FALSE) /\ UNCHANGED tablet
    BY <2>1, <1>r, <1>u
  <2>2. CASE free' = free - Size[Image(s)] /\ Goto(s, "upload")
    <3>1. Size[Image(s)] \in Nat /\ Floor \in Nat /\ free >= Size[Image(s)] + Floor
      BY <1>6, SizeAssumption DEF OpenTemp, Image, FloorInv, HasRoom
    <3>2. FloorKept'
      BY <1>0, <2>2, <3>1 DEF FloorKept
    <3>3. \A t \in Session \ {s} : pc[t] \in NoLock
      BY <1>6 DEF OpenTemp, FloorInv, LockHeld, NoLock
    <3> QED BY <1>0, <2>2, <3>2, <3>3 DEF HasRoom, NoLock, TypeOK
  <2> QED BY <1>6, <2>1, <2>2 DEF OpenTemp
<1>7. CASE Upload(s) \/ Rename(s) \/ CleanUp(s)
  <2>1. free' >= free
    BY <1>0, <1>7, ExecutedFrees DEF Upload, Rename, CleanUp
  <2> QED BY <1>7, <2>1, <1>g, <1>r DEF Upload, Rename, CleanUp
<1>8. CASE VerifyWrite(s) \/ CheckMount(s)
  BY <1>8, <1>g, <1>r, <1>u DEF VerifyWrite, CheckMount
<1>9. CASE Revert(s)
  <2>1. free' >= free
    BY <1>0, <1>9, <1>u, ExecutedFrees DEF Revert, Ineffective
  <2> QED BY <1>9, <2>1, <1>g, <1>r DEF Revert
<1>10. CASE Close(s)
  <2>1. free' >= free
    BY <1>0, <1>10, <1>u, ExecutedFrees DEF Close, Ineffective
  <2> QED BY <1>10, <2>1, <1>g DEF Close
<1>11. CASE CallOnDeadLink(s)
  BY <1>11, <1>r, <1>u DEF CallOnDeadLink
<1> QED BY <1>1, <1>2, <1>3, <1>4, <1>5, <1>6, <1>7, <1>8, <1>9, <1>10, <1>11 DEF Step

(* Nor does a fault. *)
LEMMA FaultFloor ==
    ASSUME FloorInv, TypeOK', NEW s \in Session, LoseCall(s) \/ Kill(s)
    PROVE  FloorKept' /\ HasRoom'
<1>1. free' >= free
  <2>1. TypeOK /\ at[s] \in Screen
    BY DEF FloorInv, TypeOK
  <2>2. CASE Executed(Command(s), s, at[s])
    BY <2>1, <2>2, ExecutedFrees
  <2>3. CASE UNCHANGED tablet
    BY <2>1, <2>3 DEF tablet, TypeOK
  <2>4. UNCHANGED free => free' >= free
    BY <2>1 DEF TypeOK
  <2> QED BY <2>2, <2>3, <2>4 DEF LoseCall, Kill, Struck, Filled, tablet
<1>2. \A t \in Session : pc'[t] = "open" => pc[t] = "open"
  <2>1. CASE LoseCall(s)
    BY <2>1, RaiseNotOpen DEF LoseCall, FloorInv
  <2>2. CASE Kill(s)
    BY <2>2 DEF Kill
  <2> QED BY <2>1, <2>2
<1> QED BY <1>1, <1>2, RoomKept

(* MIN_FREE_BYTES stands for any number of requests: the images they write, *)
(* the ones they replace and the temporary files of those that died never   *)
(* take / below the floor together, late commands included.                 *)
THEOREM FloorStands ==
    ASSUME Web = Session, Space >= Floor
    PROVE  Spec => []FloorKept
<1>1. Init => FloorInv
  BY InitTyped, NamesAssumption DEF Init, FloorInv, LockHeld, NoLock, FloorKept, HasRoom
<1>2. FloorInv /\ TypeOK' /\ [Next]_vars => FloorInv'
  <2> SUFFICES ASSUME FloorInv, TypeOK', [Next]_vars
               PROVE  LockHeld' /\ FloorKept' /\ HasRoom'
    BY DEF FloorInv
  <2>1. CASE UNCHANGED vars
    BY <2>1 DEF vars, FloorInv, LockHeld, FloorKept, HasRoom
  <2>2. CASE \E s \in Session : Step(s) \/ LoseCall(s) \/ Interrupt(s) \/ Kill(s)
    <3>1. \A s \in Session : ~Interrupt(s)
      BY DEF Interrupt
    <3> QED BY <2>2, <3>1, StepHeld, FaultHeld, StepFloor, FaultFloor DEF FloorInv
  <2>4. ASSUME NEW s \in Session, HangUp(s)
        PROVE  LockHeld' /\ FloorKept' /\ HasRoom'
    <3>1. UNCHANGED <<lock, pc>>
      BY <2>4 DEF HangUp
    <3>2. Size[Image(s)] \in Nat
      BY SizeAssumption DEF Image
    <3>3. free' >= free
      BY <2>4, <3>2 DEF HangUp, Dropped, tablet, FloorInv, TypeOK
    <3> QED BY <3>1, <3>3, RoomKept DEF FloorInv, LockHeld
  <2>3. CASE FinishLate
    <3>1. PICK c \in late : /\ Executed(c[1], c[2], c[3])
                            /\ UNCHANGED <<lock, pc>>
      BY <2>3 DEF FinishLate
    <3>2. c[2] \in Session /\ c[3] \in Screen
      BY DEF FloorInv, TypeOK
    <3>3. free' >= free
      BY <3>1, <3>2, ExecutedFrees DEF FloorInv
    <3> QED BY <3>1, <3>3, RoomKept DEF FloorInv, LockHeld
  <2> QED BY <2>1, <2>2, <2>3, <2>4 DEF Next, Done
<1>3. FloorInv => FloorKept
  BY DEF FloorInv
<1> QED BY <1>1, <1>2, <1>3, TypeCorrect, PTL DEF Spec

-----------------------------------------------------------------------------
(* Temporary files.  One has a name only while its session uploads or       *)
(* renames it, or is about to remove it after a lost call.  This needs      *)
(* the lock: under another session's revert the rm would fail.              *)

Broken(s) == ~up[s] \/ hits[s] > 1 \/ fate[s] = "killed"

KilledClosed == \A s \in Session : fate[s] = "killed" => pc[s] = "closed"

TempHeld == \A s \in Session, p \in Screen :
    HasName(<<s, p>>) =>
        \/ Broken(s)
        \/ /\ at[s] = p
           /\ pc[s] \in {"upload", "rename"} \/ (pc[s] = "cleanup" /\ hits[s] > 0)

TempInv == LockInv /\ KilledClosed /\ TempHeld

(* A step after which the one session's files are still accounted for.      *)
LEMMA TempKept ==
    ASSUME TempInv, NEW s \in Session, OthersKept(s),
           \A t \in Session \ {s}, p \in Screen : tmp'[<<t, p>>] = tmp[<<t, p>>],
           \/ Broken(s)'
           \/ /\ \A p \in Screen : tmp'[<<s, p>>] \in Named => p = at[s]
              /\ at'[s] = at[s]
              /\ \/ pc'[s] \in {"upload", "rename"}
                 \/ pc'[s] = "cleanup" /\ hits'[s] > 0
           \/ \A p \in Screen : tmp'[<<s, p>>] \notin Named
    PROVE  TempHeld'
<1>1. \A t \in Session \ {s} : /\ at'[t] = at[t] /\ pc'[t] = pc[t] /\ hits'[t] = hits[t]
                               /\ Broken(t) => Broken(t)'
  BY DEF OthersKept, Broken
<1> QED BY <1>1 DEF TempInv, TempHeld, HasName

(* What a command does to the temporary files.                              *)
LEMMA ExecutedTemp ==
    ASSUME TypeOK, NEW s \in Session, NEW p \in Screen, NEW c, Executed(c, s, p)
    PROVE  /\ \A t \in Session \ {s}, q \in Screen : tmp'[<<t, q>>] = tmp[<<t, q>>]
           /\ \A q \in Screen \ {p} : tmp'[<<s, q>>] = tmp[<<s, q>>]
           /\ c \notin {"open", "put"} => (tmp'[<<s, p>>] \in Named => HasName(<<s, p>>))
           /\ c \in {"mv", "rm"} /\ mount = "rw" => tmp'[<<s, p>>] \notin Named
<1>1. CASE c \in {"mv", "rm"} /\ (Moved(s, p) \/ Removed(s, p))
  BY <1>1 DEF Moved, Removed, HasName, Named, tablet, TypeOK
<1>2. CASE c \in {"open", "put"} /\ (Created(s, p) \/ Filled(s, p, "whole") \/ Dropped(s, p))
  BY <1>2 DEF Created, Filled, Dropped, tablet, TypeOK
<1>3. CASE c \notin {"mv", "rm", "open", "put"} /\ UNCHANGED tmp
  BY <1>3 DEF HasName
<1> QED BY <1>1, <1>2, <1>3 DEF Executed, tablet

(* Only the death of the process is recorded as one.                        *)
LEMMA NextKilled == KilledClosed /\ TypeOK /\ [Next]_vars => KilledClosed'
<1> SUFFICES ASSUME KilledClosed, TypeOK, [Next]_vars PROVE KilledClosed'
  OBVIOUS
<1>r. ASSUME NEW s \in Session, NEW base \in BOOLEAN, Raise(s, base), pc[s] # "closed"
      PROVE  KilledClosed'
  <2>1. fate[s] # "killed"
    BY <1>r DEF KilledClosed
  <2>2. fate'[s] # "killed"
    BY <1>r, <2>1 DEF Raise, TypeOK
  <2> QED BY <1>r, <2>2 DEF Raise, TypeOK, KilledClosed
<1>1. CASE UNCHANGED vars
  BY <1>1 DEF vars, KilledClosed
<1>2. ASSUME NEW s \in Session, Step(s)
      PROVE  KilledClosed'
  <2>1. pc[s] # "closed"
    BY <1>2 DEF Step, Enqueue, TakeLock, Begin, Connect, Enter, Nest, Unnest, NextScreen,
           SkipScreen, CheckSpace, OpenTemp, Upload, Rename, CleanUp, VerifyWrite, LeaveBlock,
           Revert, CheckMount, Close, CallOnDeadLink, AtCall, InCall, InWrite
  <2>2. CASE UNCHANGED fate
    BY <1>2, <2>1, <2>2, StepKeepsOthers DEF KilledClosed, OthersKept
  <2>3. CASE Close(s)
    BY <2>3 DEF Close, Goto, TypeOK, KilledClosed
  <2>4. UNCHANGED fate \/ Close(s) \/ Raise(s, FALSE)
    BY <1>2 DEF Step, Enqueue, TakeLock, Begin, Connect, Enter, Nest, Unnest, NextScreen,
           SkipScreen, CheckSpace, OpenTemp, Upload, Rename, CleanUp, VerifyWrite, LeaveBlock,
           Revert, CheckMount, CallOnDeadLink
  <2> QED BY <1>r, <2>1, <2>2, <2>3, <2>4
<1>3. ASSUME NEW s \in Session, LoseCall(s) \/ Interrupt(s)
      PROVE  KilledClosed'
  BY <1>r, <1>3 DEF LoseCall, Interrupt, AtCall, InCall, InWrite
<1>4. ASSUME NEW s \in Session, Kill(s)
      PROVE  KilledClosed'
  BY <1>4 DEF Kill, TypeOK, KilledClosed
<1>5. CASE FinishLate
  BY <1>5 DEF FinishLate, KilledClosed
<1>6. ASSUME NEW s \in Session, HangUp(s)
      PROVE  KilledClosed'
  BY <1>6 DEF HangUp, KilledClosed
<1> QED BY <1>1, <1>2, <1>3, <1>4, <1>5, <1>6 DEF Next, Done

(* The steps of a request, whose link may be dead.                          *)
LEMMA StepTemp ==
    ASSUME TempInv, LockInv', Web = Session, NEW s \in Session, Step(s)
    PROVE  TempHeld'
<1> USE DEF Goto
<1>0. TypeOK /\ TypeOK' /\ OthersKept(s) /\ at[s] \in Screen
  BY StepKeepsOthers DEF TempInv, LockInv, TypeOK
<1>1. \/ Broken(s)
      \/ pc[s] \notin {"upload", "rename", "cleanup"} /\ \A p \in Screen : ~HasName(<<s, p>>)
      \/ pc[s] \in {"upload", "rename", "cleanup"}
            /\ \A p \in Screen \ {at[s]} : ~HasName(<<s, p>>)
  BY DEF TempInv, TempHeld
<1>2. pc[s] \in InBlock => mount = "rw"
  BY DEF TempInv, LockInv, NotUnderAnothersWrite
<1>n. ASSUME UNCHANGED tmp, Broken(s) => Broken(s)', pc[s] \notin {"upload", "rename", "cleanup"}
      PROVE  TempHeld'
  BY <1>0, <1>1, <1>n, TempKept DEF HasName
<1>k. fate[s] # "killed"
  <2>1. pc[s] # "closed"
    BY DEF Step, Enqueue, TakeLock, Begin, Connect, Enter, Nest, Unnest, NextScreen,
           SkipScreen, CheckSpace, OpenTemp, Upload, Rename, CleanUp, VerifyWrite, LeaveBlock,
           Revert, CheckMount, Close, CallOnDeadLink, AtCall, InCall, InWrite
  <2> QED BY <2>1 DEF TempInv, KilledClosed
<1>s. UNCHANGED <<up, hits>> => (Broken(s) => Broken(s)')
  BY <1>k DEF Broken
<1>3. CASE \/ Enqueue(s) \/ TakeLock(s) \/ Begin(s) \/ Connect(s) \/ Nest(s) \/ Unnest(s)
           \/ NextScreen(s) \/ SkipScreen(s) \/ LeaveBlock(s)
  BY <1>3, <1>n, <1>s DEF Enqueue, TakeLock, Begin, Connect, Nest, Unnest, NextScreen,
                          SkipScreen, LeaveBlock, tablet
<1>4. CASE Enter(s)
  <2>1. UNCHANGED tmp
    BY <1>4 DEF Enter, Executed, tablet
  <2> QED BY <1>4, <2>1, <1>n, <1>s DEF Enter
<1>5. CASE CheckSpace(s) \/ VerifyWrite(s) \/ CheckMount(s)
  BY <1>5, <1>n, <1>s DEF CheckSpace, VerifyWrite, CheckMount, tablet
<1>6. CASE OpenTemp(s)
  <2>1. CASE Raise(s, FALSE) /\ UNCHANGED tablet
    BY <1>6, <2>1, <1>n, <1>s DEF OpenTemp, tablet
  <2>2. CASE tmp' = [tmp EXCEPT ![<<s, at[s]>>] = "part"] /\ Goto(s, "upload") /\ UNCHANGED fate
    <3>1. /\ \A t \in Session \ {s}, p \in Screen : tmp'[<<t, p>>] = tmp[<<t, p>>]
          /\ \A p \in Screen \ {at[s]} : tmp'[<<s, p>>] = tmp[<<s, p>>]
          /\ pc'[s] = "upload" /\ at'[s] = at[s] /\ pc[s] = "open" /\ UNCHANGED <<up, hits, fate>>
      BY <1>0, <1>6, <2>2 DEF OpenTemp, TypeOK
    <3> QED BY <1>0, <1>1, <1>s, <3>1, TempKept DEF HasName
  <2> QED BY <1>6, <2>1, <2>2 DEF OpenTemp
<1>7. CASE Upload(s)
  <2>1. /\ \A t \in Session \ {s}, p \in Screen : tmp'[<<t, p>>] = tmp[<<t, p>>]
        /\ \A p \in Screen \ {at[s]} : tmp'[<<s, p>>] = tmp[<<s, p>>]
    BY <1>0, <1>7, ExecutedTemp DEF Upload
  <2>2. pc'[s] = "rename" /\ at'[s] = at[s] /\ pc[s] = "upload" /\ UNCHANGED <<up, hits, fate>>
    BY <1>0, <1>7 DEF Upload, TypeOK
  <2> QED BY <1>0, <1>1, <1>s, <2>1, <2>2, TempKept DEF HasName
<1>8. CASE Rename(s) \/ CleanUp(s)
  <2>1. pc[s] \in {"rename", "cleanup"} /\ mount = "rw" /\ UNCHANGED <<up, hits>>
    BY <1>2, <1>8 DEF Rename, CleanUp, InBlock, InWrite
  <2>2. /\ \A t \in Session \ {s}, p \in Screen : tmp'[<<t, p>>] = tmp[<<t, p>>]
        /\ \A p \in Screen \ {at[s]} : tmp'[<<s, p>>] = tmp[<<s, p>>]
        /\ tmp'[<<s, at[s]>>] \notin Named
    BY <1>0, <1>8, <2>1, ExecutedTemp DEF Rename, CleanUp
  <2>3. Broken(s) => Broken(s)'
    BY <1>8, <2>1, <1>s DEF Rename, CleanUp
  <2> QED BY <1>0, <1>1, <2>1, <2>2, <2>3, TempKept DEF HasName
<1>9. CASE Revert(s) \/ Close(s)
  <2>1. UNCHANGED tmp
    <3>1. CASE Revert(s)
      BY <3>1 DEF Revert, Ineffective, Executed, tablet
    <3>2. CASE Close(s)
      <4>1. Command(s) \in {"ro", "read"}
        BY <3>2 DEF Close, Command
      <4> QED BY <3>2, <4>1 DEF Close, Ineffective, Executed, tablet
    <3> QED BY <1>9, <3>1, <3>2
  <2>2. UNCHANGED up /\ hits'[s] >= hits[s]
    <3>1. UNCHANGED up /\ (UNCHANGED hits \/ Ineffective(s))
      BY <1>9 DEF Revert, Close
    <3> QED BY <1>0, <3>1 DEF Ineffective, TypeOK
  <2>3. Broken(s) => Broken(s)'
    BY <1>0, <1>k, <2>2 DEF Broken, TypeOK
  <2> QED BY <1>9, <2>1, <2>3, <1>n DEF Revert, Close
<1>10. CASE CallOnDeadLink(s)
  BY <1>0, <1>10, TempKept DEF CallOnDeadLink, Broken, tablet
<1> QED BY <1>3, <1>4, <1>5, <1>6, <1>7, <1>8, <1>9, <1>10 DEF Step

(* One lost call of an upload leads to the rm; a second one spoils.         *)
LEMMA FaultTemp ==
    ASSUME TempInv, LockInv', Web = Session, "late" \notin Fault, NEW s \in Session,
           LoseCall(s) \/ Kill(s)
    PROVE  TempHeld'
<1>0. TypeOK /\ TypeOK' /\ at[s] \in Screen /\ hits[s] \in Nat
  BY BoundAssumption DEF TempInv, LockInv, TypeOK
<1>1. \/ UNCHANGED tablet
      \/ Executed(Command(s), s, at[s])
      \/ Command(s) = "put" /\ Filled(s, at[s], "part")
  BY DEF LoseCall, Kill, Struck, tablet
<1>2. /\ \A t \in Session \ {s}, p \in Screen : tmp'[<<t, p>>] = tmp[<<t, p>>]
      /\ \A p \in Screen \ {at[s]} : tmp'[<<s, p>>] = tmp[<<s, p>>]
      /\ Command(s) \notin {"open", "put"} =>
            (tmp'[<<s, at[s]>>] \in Named => HasName(<<s, at[s]>>))
  <2>1. CASE Filled(s, at[s], "part") /\ Command(s) = "put"
    BY <1>0, <2>1 DEF Filled, TypeOK
  <2>2. CASE UNCHANGED tablet
    BY <2>2 DEF tablet, HasName
  <2>3. CASE Executed(Command(s), s, at[s])
    BY <1>0, <2>3, ExecutedTemp
  <2> QED BY <1>1, <2>1, <2>2, <2>3
<1>c. \A p \in Screen \ {at[s]} : tmp'[<<s, p>>] \in Named <=> HasName(<<s, p>>)
  BY <1>2 DEF HasName
<1>3. CASE LoseCall(s)
  <2>1. /\ hits'[s] = hits[s] + 1 /\ up[s] /\ at'[s] = at[s] /\ Raise(s, FALSE)
    BY <1>0, <1>3 DEF LoseCall, TypeOK
  <2>2. OthersKept(s)
    BY <1>0, <1>3, StepKeepsOthers
  <2>3. fate[s] # "killed"
    BY <1>3 DEF LoseCall, AtCall, InCall, InWrite, TempInv, KilledClosed
  <2>4. hits[s] > 0 \/ Broken(s) => Broken(s)'
    BY <1>0, <2>1, <2>3 DEF Broken
  <2>5. CASE hits[s] = 0 /\ ~Broken(s) /\ pc[s] \in {"open", "upload", "rename"}
    <3>1. pc'[s] = "cleanup"
      BY <1>0, <2>1, <2>5 DEF Raise, Handler, TypeOK
    <3>2. \A p \in Screen : HasName(<<s, p>>) => p = at[s]
      BY <2>5 DEF TempInv, TempHeld
    <3> QED BY <1>0, <1>2, <1>c, <2>1, <2>2, <2>5, <3>1, <3>2, TempKept
  <2>6. CASE hits[s] = 0 /\ ~Broken(s) /\ pc[s] \notin {"open", "upload", "rename"}
    <3>1. \A p \in Screen : ~HasName(<<s, p>>)
      BY <2>6 DEF TempInv, TempHeld
    <3>2. Command(s) \notin {"open", "put"}
      BY <2>6 DEF Command
    <3> QED BY <1>0, <1>2, <1>c, <2>2, <3>1, <3>2, TempKept
  <2> QED BY <1>0, <1>2, <2>2, <2>4, <2>5, <2>6, TempKept
<1>4. CASE Kill(s)
  <2>1. /\ \A t \in Session :
              \/ fate'[t] = "killed"
              \/ /\ pc'[t] = pc[t] /\ fate'[t] = fate[t] /\ hits'[t] = hits[t]
                 /\ up'[t] = up[t] /\ at'[t] = at[t]
        /\ fate'[s] = "killed"
    BY <1>0, <1>4 DEF Kill, TypeOK
  <2> QED BY <1>2, <2>1 DEF TempInv, TempHeld, HasName, Broken
<1> QED BY <1>3, <1>4

(* The except in write_bytes: for any number of requests, one failing call  *)
(* each leaves no temporary file on the partition the tablet boots from, as *)
(* long as no command outlives its call.                                    *)
THEOREM NoTempLeft ==
    ASSUME Web = Session, "late" \notin Fault
    PROVE  Spec => []TempRemoved
<1>1. Init => TempHeld /\ KilledClosed
  BY DEF Init, TempHeld, HasName, Named, KilledClosed
<1>2. TempInv /\ LockInv' /\ [Next]_vars => TempHeld' /\ KilledClosed'
  <2> SUFFICES ASSUME TempInv, LockInv', [Next]_vars PROVE TempHeld' /\ KilledClosed'
    OBVIOUS
  <2>0. KilledClosed'
    BY NextKilled DEF TempInv, LockInv
  <2>1. CASE UNCHANGED vars
    BY <2>0, <2>1 DEF vars, TempInv, TempHeld, HasName, Broken
  <2>2. CASE \E s \in Session : Step(s) \/ LoseCall(s) \/ Interrupt(s) \/ Kill(s)
    <3>1. \A s \in Session : ~Interrupt(s)
      BY DEF Interrupt
    <3> QED BY <2>0, <2>2, <3>1, StepTemp, FaultTemp
  <2>3. ~FinishLate
    BY DEF FinishLate, TempInv, LockInv
  <2>4. ASSUME NEW s \in Session, HangUp(s)
        PROVE  TempHeld'
    <3>1. \A f \in Session \X Screen : tmp'[f] \in Named => HasName(f)
      BY <2>4 DEF HangUp, Dropped, tablet, HasName, Named, TempInv, LockInv, TypeOK
    <3>2. \A t \in Session, p \in Screen : tmp'[<<t, p>>] \in Named => HasName(<<t, p>>)
      BY <3>1
    <3> QED BY <2>4, <3>2 DEF HangUp, TempInv, TempHeld, HasName, Broken
  <2> QED BY <2>0, <2>1, <2>2, <2>3, <2>4 DEF Next, Done
<1>3. TempInv => TempRemoved
  <2> SUFFICES ASSUME TempInv, EndedWell, NEW s \in Session, NEW p \in Screen
               PROVE  ~HasName(<<s, p>>)
    BY DEF TempRemoved
  <2>1. hits[s] <= 1 /\ hits[s] \in Nat
    BY BoundAssumption DEF EndedWell, TempInv, LockInv, TypeOK
  <2>2. ~Broken(s)
    BY <2>1 DEF EndedWell, Broken
  <2> QED BY <2>2 DEF EndedWell, TempInv, TempHeld
<1>4. TempInv <=> LockInv /\ KilledClosed /\ TempHeld
  BY DEF TempInv
<1> QED BY <1>1, <1>2, <1>3, <1>4, LockAlways, PTL DEF Spec
=============================================================================
