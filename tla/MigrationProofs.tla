--------------------------- MODULE MigrationProofs ---------------------------
(* Theorems about Migration, for any number of processes, failures, kills   *)
(* and backup files.                                                        *)
EXTENDS Migration, TLAPS

Local == pc \in [Proc -> Label] /\ created \in [Proc -> SUBSET {"key", "toml"}]

(* Whoever is between making the key and filling it, or has it on its list, *)
(* made the key that is there: O_EXCL, and a list that is written late.     *)
Claim(p) ==
    /\ pc[p] \in {"restrict", "fill"} => key = Made("empty", p)
    /\ pc[p] # "idle" /\ "key" \in created[p] => key = Made("old", p)
    /\ pc[p] \in {"create", "restrict", "fill"} => "key" \notin created[p]

KeyInv == Local /\ \A p \in Proc : Claim(p)

(* What a step may do to the key. *)
KeyStep == key.data \in {"old", "own"} /\ key' # key =>
              /\ key.data = "old" /\ key' = Nothing
              /\ pc[key.by] = "cleanup" /\ "key" \in created[key.by]

(* Two processes cannot both claim the key. *)
LEMMA OneClaim ==
    ASSUME KeyInv, NEW p \in Proc, NEW q \in Proc \ {p},
           \/ key = Nothing
           \/ pc[p] \in {"restrict", "fill"}
           \/ pc[p] # "idle" /\ "key" \in created[p]
    PROVE  pc[q] \notin {"restrict", "fill"} /\ (pc[q] = "idle" \/ "key" \notin created[q])
<1>1. Claim(p) /\ Claim(q)
  BY DEF KeyInv
<1>2. /\ Made("empty", p) # Made("empty", q) /\ Made("old", p) # Made("old", q)
      /\ Made("empty", p) # Made("old", q) /\ Made("old", p) # Made("empty", q)
      /\ Nothing # Made("empty", q) /\ Nothing # Made("old", q)
  BY DEF Made, Nothing
<1> QED BY <1>1, <1>2 DEF Claim

(* A step of one process, which leaves the claims of the others alone: it   *)
(* does not touch the key, or nobody else claims it.                        *)
LEMMA StepKeeps ==
    ASSUME KeyInv, NEW p \in Proc, NEW l \in Label, NEW c \in SUBSET {"key", "toml"},
           pc' = [pc EXCEPT ![p] = l], created' = [created EXCEPT ![p] = c],
           \/ UNCHANGED key
           \/ key = Nothing
           \/ pc[p] \in {"restrict", "fill"}
           \/ pc[p] # "idle" /\ "key" \in created[p],
           l \in {"restrict", "fill"} => key' = Made("empty", p),
           l # "idle" /\ "key" \in c => key' = Made("old", p),
           l \in {"create", "restrict", "fill"} => "key" \notin c
    PROVE  KeyInv'
<1>1. Local'
  BY DEF KeyInv, Local
<1>2. Claim(p)'
  BY DEF KeyInv, Local, Claim
<1>3. ASSUME NEW q \in Proc \ {p} PROVE Claim(q)'
  <2>1. pc'[q] = pc[q] /\ created'[q] = created[q] /\ Claim(q)
    BY DEF KeyInv, Local
  <2>2. CASE UNCHANGED key
    BY <2>1, <2>2 DEF Claim
  <2>3. CASE ~UNCHANGED key
    <3>1. pc[q] \notin {"restrict", "fill"} /\ (pc[q] = "idle" \/ "key" \notin created[q])
      BY <2>3, OneClaim
    <3> QED BY <2>1, <3>1 DEF Claim
  <2> QED BY <2>2, <2>3
<1> QED BY <1>1, <1>2, <1>3 DEF KeyInv

(* An exception goes to the cleanup or ends the command. *)
LEMMA RaiseKeeps ==
    ASSUME KeyInv, NEW p \in Proc, Raise(p), pc[p] # "idle", NEW c \in SUBSET {"key", "toml"},
           created' = [created EXCEPT ![p] = c], "key" \in c => "key" \in created[p],
           \/ UNCHANGED key
           \/ pc[p] \in {"restrict", "fill"}
    PROVE  KeyInv'
<1>1. PICK l \in {"cleanup", "idle"} : pc' = [pc EXCEPT ![p] = l]
  BY DEF Raise, Goto
<1>2. l \in Label
  BY DEF Label
<1>3. "key" \in c => key' = Made("old", p)
  BY DEF KeyInv, Claim
<1> QED BY <1>1, <1>2, <1>3, StepKeeps

(* Every step keeps the claims, and changes a complete key only by removing *)
(* a copy in the cleanup of the process that made it.                       *)
LEMMA ProcKeeps ==
    ASSUME KeyInv, NEW p \in Proc, Step(p) \/ UseBackups(p) \/ EnsureKey(p) \/ Kill(p)
    PROVE  KeyInv' /\ KeyStep
<1> USE DEF Goto
<1>c. /\ Claim(p) /\ pc[p] \in Label /\ created[p] \in SUBSET {"key", "toml"}
      /\ pc = [pc EXCEPT ![p] = pc[p]] /\ created = [created EXCEPT ![p] = created[p]]
  BY DEF KeyInv, Local
<1>l. Label = {"idle", "check", "create", "restrict", "fill", "pub", "toml", "save",
               "cleanup", "backups", "place", "use", "ask"}
  BY DEF Label
<1>k. UNCHANGED key => KeyStep
  BY DEF KeyStep
<1>o. key = Nothing /\ pc[p] # "idle" => "key" \notin created[p]
  BY <1>c DEF Claim, Nothing, Made
<1>e. \A d : Made("empty", d).data = "empty" /\ Nothing.data = "none"
  BY DEF Made, Nothing
<1>1. CASE Start(p)
  BY <1>1, <1>k, <1>l, StepKeeps DEF Start, disk
<1>2. CASE CheckConfig(p)
  BY <1>2, <1>c, <1>k, <1>l, <1>o, StepKeeps DEF CheckConfig, disk, Claim
<1>3. CASE CreateKey(p)
  <2>1. CASE key = Nothing /\ key' = Made("empty", p) /\ Goto(p, "restrict")
    BY <1>3, <2>1, <1>c, <1>e, <1>l, <1>o, StepKeeps DEF CreateKey, KeyStep
  <2>2. CASE Raise(p) /\ UNCHANGED key
    BY <1>3, <2>2, <1>c, <1>k, RaiseKeeps DEF CreateKey
  <2> QED BY <1>3, <2>1, <2>2 DEF CreateKey
<1>4. CASE RestrictKey(p)
  <2>1. CASE Goto(p, "fill") /\ UNCHANGED key
    BY <1>4, <2>1, <1>c, <1>k, <1>l, StepKeeps DEF RestrictKey, Claim
  <2>2. CASE Raise(p) /\ key' = Nothing
    BY <1>4, <2>2, <1>c, <1>e, RaiseKeeps DEF RestrictKey, Claim, KeyStep
  <2> QED BY <1>4, <2>1, <2>2 DEF RestrictKey, Fail
<1>5. CASE FillKey(p)
  <2>1. CASE /\ key' = Made(making[p], p) /\ Goto(p, "pub")
             /\ created' = [created EXCEPT ![p] = IF making[p] = "old" THEN {"key"} ELSE {}]
    <3>1. KeyStep
      BY <1>5, <1>c, <1>e DEF FillKey, Claim, KeyStep
    <3> DEFINE c == IF making[p] = "old" THEN {"key"} ELSE {}
    <3>2. c \in SUBSET {"key", "toml"} /\ ("key" \in c => making[p] = "old")
      OBVIOUS
    <3> QED BY <1>5, <2>1, <3>1, <3>2, <1>l, StepKeeps DEF FillKey
  <2>2. CASE Raise(p) /\ UNCHANGED <<key, created>>
    BY <1>5, <2>2, <1>c, <1>k, RaiseKeeps DEF FillKey
  <2> QED BY <1>5, <2>1, <2>2 DEF FillKey, Fail
<1>6. CASE WritePub(p)
  <2>1. CASE Raise(p)
    BY <1>6, <2>1, <1>c, <1>k, RaiseKeeps DEF WritePub, disk
  <2>2. CASE ~Raise(p)
    BY <1>6, <2>2, <1>c, <1>k, <1>l, StepKeeps DEF WritePub, Fail, disk, Claim
  <2> QED BY <2>1, <2>2
<1>7. CASE OpenToml(p)
  <2> DEFINE c == IF making[p] = "old" THEN created[p] \cup {"toml"} ELSE created[p]
  <2>0. c \in SUBSET {"key", "toml"} /\ ("key" \in c => "key" \in created[p])
    BY <1>c
  <2>1. CASE Goto(p, "save") /\ created' = [created EXCEPT ![p] = c]
    BY <1>7, <2>0, <2>1, <1>c, <1>k, <1>l, StepKeeps DEF OpenToml, Claim
  <2>2. CASE Raise(p) /\ UNCHANGED created
    BY <1>7, <2>2, <1>c, <1>k, RaiseKeeps DEF OpenToml
  <2>3. CASE Raise(p) /\ created' = [created EXCEPT ![p] = created[p] \cup {"toml"}]
    BY <1>7, <2>3, <1>c, <1>k, RaiseKeeps DEF OpenToml
  <2> QED BY <1>7, <2>1, <2>2, <2>3 DEF OpenToml, Fail
<1>8. CASE SaveToml(p)
  <2>1. CASE Raise(p)
    BY <1>8, <2>1, <1>c, <1>k, RaiseKeeps DEF SaveToml
  <2>2. CASE ~Raise(p)
    BY <1>8, <2>2, <1>c, <1>k, <1>l, StepKeeps DEF SaveToml, Fail, Claim
  <2> QED BY <2>1, <2>2
<1>9. CASE CleanUp(p)
  <2> DEFINE c == created[p] \ {"key"}
  <2>0. c \in SUBSET {"key", "toml"} /\ "key" \notin c /\ created' = [created EXCEPT ![p] = c]
    BY <1>9, <1>c DEF CleanUp
  <2>1. CASE "key" \in created[p]
    <3>1. key' = Nothing /\ pc' = [pc EXCEPT ![p] = "cleanup"] /\ pc[p] = "cleanup"
      BY <1>9, <2>1, <1>c DEF CleanUp
    <3>2. key = Made("old", p)
      BY <2>1, <3>1, <1>c DEF Claim
    <3>3. KeyStep
      BY <2>1, <3>1, <3>2 DEF KeyStep, Made
    <3> QED BY <2>0, <2>1, <3>1, <3>3, <1>l, StepKeeps
  <2>2. CASE "key" \notin created[p]
    BY <1>9, <2>0, <2>2, <1>k, <1>l, StepKeeps DEF CleanUp
  <2> QED BY <2>1, <2>2
<1>10. CASE LookAtBackup(p)
  <2>1. CASE Raise(p)
    BY <1>10, <2>1, <1>c, <1>k, RaiseKeeps DEF LookAtBackup, disk
  <2>2. CASE ~Raise(p)
    BY <1>10, <2>2, <1>c, <1>k, <1>l, StepKeeps DEF LookAtBackup, Fail, disk, Claim
  <2> QED BY <2>1, <2>2
<1>11. CASE PlaceBackup(p)
  <2>1. CASE Raise(p)
    BY <1>11, <2>1, <1>c, <1>k, RaiseKeeps DEF PlaceBackup
  <2>2. CASE ~Raise(p)
    BY <1>11, <2>2, <1>c, <1>k, <1>l, StepKeeps DEF PlaceBackup, Fail, Claim
  <2> QED BY <2>1, <2>2
<1>12. CASE EndMigration(p) \/ EndCommand(p)
  BY <1>12, <1>c, <1>k, <1>l, StepKeeps DEF EndMigration, EndCommand, disk, Claim
<1>13. CASE UseBackups(p)
  BY <1>13, <1>c, <1>k, <1>l, StepKeeps DEF UseBackups, local, Claim
<1>14. CASE EnsureKey(p)
  <2>1. PICK l \in {"create", "idle", "ask", "toml"} :
             pc' = [pc EXCEPT ![p] = l] /\ (l = "create" => key = Nothing)
    BY <1>14 DEF EnsureKey
  <2>2. pc[p] # "idle" /\ UNCHANGED <<key, created>>
    BY <1>14 DEF EnsureKey, disk
  <2> QED BY <2>1, <2>2, <1>c, <1>k, <1>l, <1>o, StepKeeps DEF Claim
<1>15. CASE Kill(p)
  BY <1>15, <1>c, <1>k, <1>l, StepKeeps DEF Kill, disk, Claim
<1> QED BY <1>1, <1>2, <1>3, <1>4, <1>5, <1>6, <1>7, <1>8, <1>9, <1>10, <1>11, <1>12,
           <1>13, <1>14, <1>15 DEF Step

(* "A location already in use is never overwritten": for any number of      *)
(* commands at once, failures and kills, a generated key is never touched,  *)
(* and a copied one is removed only by the cleanup of its own maker.        *)
THEOREM KeyIsKept == Spec => KeyKept
<1>1. Init => KeyInv
  BY DEF Init, KeyInv, Local, Claim, Label
<1>2. KeyInv /\ [Next]_vars => KeyInv'
  <2> SUFFICES ASSUME KeyInv, [Next]_vars PROVE KeyInv'
    OBVIOUS
  <2>1. CASE UNCHANGED vars
    BY <2>1 DEF vars, disk, local, KeyInv, Local, Claim
  <2> QED BY <2>1, ProcKeeps DEF Next
<1>3. KeyInv /\ [Next]_vars => [KeyStep]_vars
  BY ProcKeeps DEF Next
<1>4. KeyKept <=> [][KeyStep]_vars
  BY DEF KeyKept, KeyStep
<1> QED BY <1>1, <1>2, <1>3, <1>4, PTL DEF Spec

-----------------------------------------------------------------------------
(* Pictures.  A process past a file has seen it in the new location, so one *)
(* that uses the backups finds every old one there, and adds none that      *)
(* another is about to put in place.                                        *)
Seen ==
    /\ new \in [File -> {"none", "old", "own"}] /\ pc \in [Proc -> Label]
    /\ todo \in [Proc -> SUBSET OldFile] /\ at \in [Proc -> File]
    /\ \A p \in Proc :
          /\ pc[p] # "idle" => \A f \in OldFile \ todo[p] : new[f] # "none"
          /\ pc[p] = "use" => todo[p] = {}
          /\ pc[p] = "place" => at[p] \in todo[p] /\ (at[p] \in Picture \ Bad => new[at[p]] # "own")

PictureStep == \A f \in Picture \ Bad : new[f] # "none" => new'[f] = new[f]

(* The steps that put nothing into the backup directory. *)
LEMMA SeenElsewhere ==
    ASSUME Seen, NEW p \in Proc, NEW l \in Label \ {"use", "place"},
           pc' = [pc EXCEPT ![p] = l], UNCHANGED <<new, at>>,
           NEW d \in SUBSET OldFile, todo' = [todo EXCEPT ![p] = d],
           l # "idle" => \A f \in OldFile \ d : new[f] # "none"
    PROVE  Seen' /\ PictureStep
BY DEF Seen, PictureStep

(* A process that sees a file keeps seeing it, and what is put beside it    *)
(* replaces no picture but a bad one.                                      *)
LEMMA ProcSees ==
    ASSUME Seen, NEW p \in Proc, Step(p) \/ UseBackups(p) \/ EnsureKey(p) \/ Kill(p)
    PROVE  Seen' /\ PictureStep
<1> USE DEF Goto
<1>d. /\ todo[p] \in SUBSET OldFile /\ todo = [todo EXCEPT ![p] = todo[p]]
      /\ pc[p] \in Label /\ pc = [pc EXCEPT ![p] = pc[p]] /\ at[p] \in File
      /\ pc[p] # "idle" => \A f \in OldFile \ todo[p] : new[f] # "none"
  BY DEF Seen
<1>l. Label = {"idle", "check", "create", "restrict", "fill", "pub", "toml", "save",
               "cleanup", "backups", "place", "use", "ask"}
  BY DEF Label
<1>1. CASE Start(p)
  <2>1. OldFile \in SUBSET OldFile /\ todo' = [todo EXCEPT ![p] = OldFile]
    BY <1>1 DEF Start
  <2>2. new' = new /\ Manifest \in File
    BY <1>1 DEF Start, disk, File
  <2>3. pc[p] = "idle" /\ pc' = [pc EXCEPT ![p] = "check"] /\ at' = [at EXCEPT ![p] = Manifest]
    BY <1>1 DEF Start
  <2> QED BY <2>1, <2>2, <2>3, <1>l DEF Seen, PictureStep
<1>r. ASSUME Raise(p), UNCHANGED <<new, todo, at>>, pc[p] # "idle"
      PROVE  Seen' /\ PictureStep
  <2>1. PICK l \in {"cleanup", "idle"} : pc' = [pc EXCEPT ![p] = l]
    BY <1>r DEF Raise
  <2> QED BY <1>r, <2>1, <1>d, <1>l, SeenElsewhere
<1>3. CASE CheckConfig(p) \/ CreateKey(p) \/ RestrictKey(p) \/ FillKey(p) \/ WritePub(p)
           \/ OpenToml(p) \/ SaveToml(p) \/ CleanUp(p) \/ EnsureKey(p) \/ Kill(p) \/ EndCommand(p)
  <2>1. UNCHANGED <<new, todo, at>> /\ pc[p] # "idle"
    BY <1>3 DEF CheckConfig, CreateKey, RestrictKey, FillKey, WritePub, OpenToml, SaveToml,
                CleanUp, EnsureKey, Kill, EndCommand, disk
  <2>2. \/ \E l \in Label \ {"use", "place"} : pc' = [pc EXCEPT ![p] = l]
        \/ Raise(p)
    BY <1>3, <1>d, <1>l
       DEF CheckConfig, CreateKey, RestrictKey, FillKey, WritePub, OpenToml, SaveToml,
           CleanUp, EnsureKey, Kill, EndCommand, Fail
  <2> QED BY <2>1, <2>2, <1>r, <1>d, SeenElsewhere
<1>4. CASE LookAtBackup(p)
  <2>1. PICK f \in todo[p] :
             \/ /\ new[f] # "none"
                /\ todo' = [todo EXCEPT ![p] = @ \ {f}]
                /\ UNCHANGED <<pc, at, bounds>>
             \/ /\ new[f] = "none"
                /\ at' = [at EXCEPT ![p] = f] /\ Goto(p, "place")
                /\ UNCHANGED <<todo, bounds>>
             \/ Fail("backup", p) /\ UNCHANGED <<todo, at>>
    BY <1>4 DEF LookAtBackup
  <2>2. pc[p] = "backups" /\ new' = new
    BY <1>4 DEF LookAtBackup, disk
  <2>3. CASE new[f] # "none" /\ todo' = [todo EXCEPT ![p] = @ \ {f}] /\ UNCHANGED <<pc, at>>
    <3>1. todo' = [todo EXCEPT ![p] = todo[p] \ {f}] /\ todo[p] \ {f} \in SUBSET OldFile
      BY <2>3, <1>d
    <3>2. \A g \in OldFile \ (todo[p] \ {f}) : new[g] # "none"
      BY <2>2, <2>3, <1>d
    <3> QED BY <2>2, <2>3, <3>1, <3>2, <1>d, <1>l, SeenElsewhere
  <2>4. CASE new[f] = "none" /\ at' = [at EXCEPT ![p] = f] /\ Goto(p, "place") /\ UNCHANGED todo
    <3>1. f \in File
      BY <1>d, NamesAssumption
    <3> QED BY <2>2, <2>4, <3>1, <1>l DEF Seen, PictureStep
  <2>5. CASE Fail("backup", p) /\ UNCHANGED <<todo, at>>
    BY <2>2, <2>5, <1>r DEF Fail
  <2> QED BY <2>1, <2>3, <2>4, <2>5
<1>5. CASE PlaceBackup(p)
  <2>1. CASE Fail("backup", p) /\ UNCHANGED <<new, todo>>
    BY <1>5, <2>1, <1>r DEF PlaceBackup, Fail
  <2>2. CASE new' = [new EXCEPT ![at[p]] = "old"] /\ todo' = [todo EXCEPT ![p] = @ \ {at[p]}]
             /\ Goto(p, "backups")
    <3>1. pc[p] = "place" /\ at' = at
      BY <1>5 DEF PlaceBackup
    <3>2. \A g \in File : new'[g] = (IF g = at[p] THEN "old" ELSE new[g])
      BY <2>2 DEF Seen
    <3>3. PictureStep
      BY <3>1, <3>2 DEF PictureStep, Seen, File
    <3>4. \A q \in Proc : pc'[q] = (IF q = p THEN "backups" ELSE pc[q])
                          /\ todo'[q] = (IF q = p THEN todo[p] \ {at[p]} ELSE todo[q])
      BY <2>2 DEF Seen
    <3>5. \A q \in Proc : pc'[q] = "place" =>
              at[q] \in todo'[q] /\ (at[q] \in Picture \ Bad => new'[at[q]] # "own")
      BY <3>2, <3>4 DEF Seen
    <3>6. \A q \in Proc : pc'[q] # "idle" => \A g \in OldFile \ todo'[q] : new'[g] # "none"
      BY <3>1, <3>2, <3>4, NamesAssumption DEF Seen
    <3>7. /\ new' \in [File -> {"none", "old", "own"}] /\ pc' \in [Proc -> Label]
          /\ todo' \in [Proc -> SUBSET OldFile]
      BY <2>2, <1>l DEF Seen
    <3> QED BY <3>1, <3>3, <3>4, <3>5, <3>6, <3>7 DEF Seen
  <2> QED BY <1>5, <2>1, <2>2 DEF PlaceBackup
<1>6. CASE EndMigration(p)
  <2>1. pc[p] = "backups" /\ todo[p] = {} /\ pc' = [pc EXCEPT ![p] = "use"]
        /\ UNCHANGED <<new, todo, at>>
    BY <1>6 DEF EndMigration, disk
  <2> QED BY <2>1, <1>l DEF Seen, PictureStep
<1>7. CASE UseBackups(p)
  <2>1. PICK f \in File : (f \in {Manifest} \cup Bad \/ new[f] = "none") /\ new' = [new EXCEPT ![f] = "own"]
    BY <1>7 DEF UseBackups
  <2>2. pc[p] = "use" /\ todo[p] = {} /\ UNCHANGED <<pc, todo, at>>
    BY <1>7 DEF UseBackups, local, Seen
  <2>3. f \in Picture \ Bad => new[f] = "none" /\ f \notin OldFile
    BY <2>1, <2>2, <1>d, NamesAssumption
  <2>4. \A g \in File : new'[g] = (IF g = f THEN "own" ELSE new[g])
    BY <2>1 DEF Seen
  <2>5. PictureStep
    BY <2>3, <2>4 DEF PictureStep, File
  <2>6. \A q \in Proc : pc[q] = "place" =>
            at[q] \in todo[q] /\ (at[q] \in Picture \ Bad => new'[at[q]] # "own")
    BY <2>3, <2>4 DEF Seen
  <2>7. \A q \in Proc : pc[q] # "idle" => \A g \in OldFile \ todo[q] : new'[g] # "none"
    BY <2>4, NamesAssumption DEF Seen
  <2>8. new' \in [File -> {"none", "old", "own"}]
    BY <2>1 DEF Seen
  <2> QED BY <2>2, <2>5, <2>6, <2>7, <2>8 DEF Seen
<1> QED BY <1>1, <1>3, <1>4, <1>5, <1>6, <1>7 DEF Step

(* "A file already present in new is never replaced": of pictures it is     *)
(* true, for any number of commands that migrate, fail, are killed and use  *)
(* the new location meanwhile.                                              *)
THEOREM PicturesAreKept == Spec => PictureKept
<1>1. Init => Seen
  BY DEF Init, Seen, Label, File
<1>2. Seen /\ [Next]_vars => Seen'
  <2> SUFFICES ASSUME Seen, [Next]_vars PROVE Seen'
    OBVIOUS
  <2>1. CASE UNCHANGED vars
    BY <2>1 DEF vars, disk, local, Seen
  <2> QED BY <2>1, ProcSees DEF Next
<1>3. Seen /\ [Next]_vars => [PictureStep]_vars
  BY ProcSees DEF Next
<1>4. PictureKept <=> [][PictureStep]_vars
  BY DEF PictureKept, PictureStep
<1> QED BY <1>1, <1>2, <1>3, <1>4, PTL DEF Spec
-----------------------------------------------------------------------------
(* Types, and files left half-copied. *)

(* Raise goes to a label, and leaves the types of everything else alone. *)
LEMMA RaiseTyped ==
    ASSUME TypeOK, NEW p \in Proc, Raise(p)
    PROVE  pc' \in [Proc -> Label]
BY DEF TypeOK, Raise, Goto, Label

(* A failure is counted within its bound. *)
LEMMA FailTyped ==
    ASSUME TypeOK, NEW p \in Proc, NEW kind, Fail(kind, p)
    PROVE  /\ faults' \in 0..MaxFaults /\ kills' \in 0..MaxKills /\ spoilt' \in BOOLEAN
           /\ pc' \in [Proc -> Label] /\ Raise(p)
BY RaiseTyped, BoundAssumption DEF TypeOK, Fail

(* A setup whose key is kept elsewhere makes none: it asks and saves. *)
Renewing == \A p \in Proc : making[p] = "kept" => pc[p] \in {"idle", "ask", "toml", "save"}

LEMMA ProcRenews ==
    ASSUME TypeOK, Renewing, NEW p \in Proc, Step(p) \/ UseBackups(p) \/ EnsureKey(p) \/ Kill(p)
    PROVE  Renewing'
<1> USE DEF Goto
<1>1. \A q \in Proc \ {p} : pc'[q] = pc[q] /\ making'[q] = making[q]
  BY DEF TypeOK, Step, Start, CheckConfig, CreateKey, RestrictKey, FillKey, WritePub, OpenToml,
         SaveToml, CleanUp, LookAtBackup, PlaceBackup, EndMigration, EndCommand, UseBackups,
         EnsureKey, Kill, Fail, Raise, local
<1>2. EnsureKey(p) => (making'[p] = "kept" => pc'[p] \in {"ask", "toml"})
  BY DEF TypeOK, EnsureKey
<1>3. CASE Start(p)
  <2>1. making'[p] = "old"
    BY <1>3 DEF TypeOK, Start
  <2> QED BY <1>1, <2>1 DEF Renewing
<1>4. CASE making'[p] = making[p]
  <2>1. ASSUME making[p] = "kept" PROVE pc'[p] \in {"idle", "ask", "toml", "save"}
    <3>1. pc[p] \in {"idle", "ask", "toml", "save"}
      BY <2>1 DEF Renewing
    <3>2. Start(p) \/ EnsureKey(p) \/ OpenToml(p) \/ SaveToml(p) \/ EndCommand(p) \/ Kill(p)
      BY <3>1 DEF Step, CheckConfig, CreateKey, RestrictKey, FillKey, WritePub, CleanUp,
                  LookAtBackup, PlaceBackup, EndMigration, UseBackups
    <3>3. CASE Start(p) \/ EndCommand(p) \/ Kill(p)
      BY <1>4, <2>1, <3>3 DEF TypeOK, Start, EndCommand, Kill
    <3>4. CASE OpenToml(p) \/ SaveToml(p)
      BY <2>1, <3>4 DEF TypeOK, OpenToml, SaveToml, Fail, Raise
    <3>5. CASE EnsureKey(p)
      BY <1>2, <1>4, <2>1, <3>5
    <3> QED BY <3>2, <3>3, <3>4, <3>5
  <2> QED BY <1>1, <1>4, <2>1 DEF Renewing
<1>5. CASE EnsureKey(p)
  BY <1>1, <1>2, <1>5 DEF Renewing
<1> QED BY <1>3, <1>4, <1>5
     DEF Step, CheckConfig, CreateKey, RestrictKey, FillKey, WritePub, OpenToml, SaveToml,
         CleanUp, LookAtBackup, PlaceBackup, EndMigration, EndCommand, UseBackups, Kill, local

(* Every step of a process keeps the types. *)
LEMMA ProcTyped ==
    ASSUME TypeOK, Renewing, NEW p \in Proc, Step(p) \/ UseBackups(p) \/ EnsureKey(p) \/ Kill(p)
    PROVE  TypeOK'
<1> USE DEF Goto
<1>l. Label = {"idle", "check", "create", "restrict", "fill", "pub", "toml", "save",
               "cleanup", "backups", "place", "use", "ask"}
  BY DEF Label
<1>m. /\ \A d \in {"empty", "old", "own"} :
             Made(d, p) \in [data : {"empty", "old", "own"}, by : Proc]
      /\ Made("kept", p) \in [data : {"kept"}, by : Proc]
      /\ making[p] \in {"old", "own", "kept"} /\ created[p] \in SUBSET {"key", "toml"}
      /\ todo[p] \in SUBSET File /\ OldFile \in SUBSET File /\ Manifest \in File
  BY NamesAssumption DEF TypeOK, Made, File
<1>w. Wanted(p) \in {"old", "own", "kept"}
  BY <1>m DEF Wanted
<1>1. CASE Start(p) \/ CheckConfig(p) \/ EndMigration(p) \/ EndCommand(p) \/ EnsureKey(p)
  <2>1. UNCHANGED <<old, disk, bounds>>
    BY <1>1 DEF Start, CheckConfig, EndMigration, EndCommand, EnsureKey
  <2>2. pc' \in [Proc -> Label]
    BY <1>1, <1>l DEF TypeOK, Start, CheckConfig, EndMigration, EndCommand, EnsureKey
  <2>3. created' \in [Proc -> SUBSET {"key", "toml"}] /\ making' \in [Proc -> {"old", "own", "kept"}]
    BY <1>1, <1>w DEF TypeOK, Start, CheckConfig, EndMigration, EndCommand, EnsureKey
  <2>4. todo' \in [Proc -> SUBSET File] /\ at' \in [Proc -> File]
    BY <1>1, <1>m DEF TypeOK, Start, CheckConfig, EndMigration, EndCommand, EnsureKey
  <2> QED BY <2>1, <2>2, <2>3, <2>4 DEF TypeOK, disk, bounds
<1>2. CASE CreateKey(p)
  <2>1. pc' \in [Proc -> Label]
    BY <1>2, <1>l, RaiseTyped DEF CreateKey, TypeOK
  <2> QED BY <1>2, <2>1, <1>m DEF TypeOK, CreateKey, bounds
<1>3. CASE RestrictKey(p)
  BY <1>3, <1>l, FailTyped DEF TypeOK, RestrictKey, bounds
<1>4. CASE FillKey(p)
  <2>1. created' \in [Proc -> SUBSET {"key", "toml"}]
    BY <1>4 DEF TypeOK, FillKey
  <2>2. making[p] \in {"old", "own"}
    BY <1>4, <1>m DEF FillKey, Renewing
  <2>3. Made(making[p], p) \in [data : {"empty", "old", "own"}, by : Proc]
    BY <1>m, <2>2
  <2>4. key' \in [data : {"empty", "old", "own"}, by : Proc] \cup {Nothing}
    BY <1>4, <2>3 DEF TypeOK, FillKey
  <2> QED BY <1>4, <2>1, <2>4, <1>l, FailTyped DEF TypeOK, FillKey, bounds
<1>5. CASE WritePub(p)
  BY <1>5, <1>l, FailTyped DEF TypeOK, WritePub, bounds, disk
<1>6. CASE OpenToml(p)
  <2>1. created' \in [Proc -> SUBSET {"key", "toml"}]
    BY <1>6 DEF TypeOK, OpenToml
  <2>2. Made("empty", p) \in [data : {"empty", "old", "own", "kept"}, by : Proc]
    BY DEF Made
  <2>3. toml' \in [data : {"empty", "old", "own", "kept"}, by : Proc] \cup {Nothing}
    BY <1>6, <2>2 DEF TypeOK, OpenToml
  <2> QED BY <1>6, <2>1, <2>3, <1>l, FailTyped DEF TypeOK, OpenToml, bounds
<1>7. CASE SaveToml(p)
  <2>1. Made(making[p], p) \in [data : {"empty", "old", "own", "kept"}, by : Proc]
    BY <1>m DEF Made
  <2>2. toml' \in [data : {"empty", "old", "own", "kept"}, by : Proc] \cup {Nothing}
    BY <1>7, <2>1 DEF TypeOK, SaveToml
  <2> QED BY <1>7, <2>2, <1>l, FailTyped DEF TypeOK, SaveToml, bounds
<1>8. CASE CleanUp(p)
  <2>1. created' \in [Proc -> SUBSET {"key", "toml"}]
    BY <1>8 DEF TypeOK, CleanUp
  <2> QED BY <1>8, <2>1, <1>l DEF TypeOK, CleanUp
<1>9. CASE LookAtBackup(p)
  <2>1. PICK f \in todo[p] :
             \/ /\ todo' = [todo EXCEPT ![p] = @ \ {f}]
                /\ UNCHANGED <<pc, at, bounds>>
             \/ /\ at' = [at EXCEPT ![p] = f] /\ Goto(p, "place")
                /\ UNCHANGED <<todo, bounds>>
             \/ Fail("backup", p) /\ UNCHANGED <<todo, at>>
    BY <1>9 DEF LookAtBackup
  <2>2. f \in File
    BY <1>m
  <2> QED BY <1>9, <2>1, <2>2, <1>l, <1>m, FailTyped DEF TypeOK, LookAtBackup, bounds, disk
<1>10. CASE PlaceBackup(p)
  BY <1>10, <1>l, <1>m, FailTyped DEF TypeOK, PlaceBackup, bounds
<1>11. CASE UseBackups(p)
  BY <1>11 DEF TypeOK, UseBackups, bounds, local
<1>12. CASE Kill(p)
  BY <1>12, <1>l, BoundAssumption DEF TypeOK, Kill, disk
<1> QED BY <1>1, <1>2, <1>3, <1>4, <1>5, <1>6, <1>7, <1>8, <1>9, <1>10, <1>11, <1>12 DEF Step

LEMMA InitTyped == Init => TypeOK
<1> SUFFICES ASSUME Init PROVE TypeOK
  OBVIOUS
<1>1. "idle" \in Label /\ Manifest \in File
  BY DEF Label, File
<1>2. old \in SUBSET {"key", "toml", "away"} /\ new \in [File -> {"none", "old", "own"}]
  BY DEF Init
<1>3. created \in [Proc -> SUBSET {"key", "toml"}] /\ todo \in [Proc -> SUBSET File]
  BY DEF Init
<1>4. faults \in 0..MaxFaults /\ kills \in 0..MaxKills
  BY BoundAssumption DEF Init
<1> QED BY <1>1, <1>2, <1>3, <1>4 DEF Init, TypeOK

(* Any number of commands at once, whatever fails and whoever is killed:    *)
(* the files hold what a process can have written, and the lists of files   *)
(* and the bounds are what they are meant to be.                            *)
THEOREM TypeCorrect == Spec => []TypeOK
<1>1. Init => TypeOK /\ Renewing
  BY InitTyped DEF Init, Renewing
<1>2. TypeOK /\ Renewing /\ [Next]_vars => (TypeOK /\ Renewing)'
  <2> SUFFICES ASSUME TypeOK, Renewing, [Next]_vars PROVE TypeOK' /\ Renewing'
    OBVIOUS
  <2>1. CASE UNCHANGED vars
    BY <2>1 DEF vars, disk, local, bounds, TypeOK, Renewing
  <2> QED BY <2>1, ProcTyped, ProcRenews DEF Next
<1> QED BY <1>1, <1>2, PTL DEF Spec

-----------------------------------------------------------------------------
(* Half a copy.  Process p copies the old key and has the configuration to  *)
(* bring; its cleanup is about to remove file f.                            *)
Copying(p) == making[p] = "old" /\ pc[p] \in {"pub", "toml", "save"}
Clearing(p, f) == pc[p] = "cleanup" /\ f \in created[p]

(* Where a process is tells what it makes and what it has listed: nothing   *)
(* until the key is filled, and the configuration once it has it open.      *)
Listed(p) ==
    /\ making[p] = "old" /\ pc[p] \in {"check", "create", "restrict", "fill"} => created[p] = {}
    /\ making[p] = "old" /\ pc[p] \in {"create", "restrict", "fill"} => "key" \in old
    /\ Copying(p) /\ "key" \in old => "key" \in created[p]
    /\ making[p] = "old" /\ pc[p] = "save" => "toml" \in created[p]
    /\ pc[p] \in {"cleanup", "check", "backups", "place"} => making[p] = "old"
    /\ pc[p] = "ask" => making[p] # "old"
    /\ "key" \in created[p] => "key" \in old

(* An empty key is being filled, and an empty configuration is being saved  *)
(* or about to be removed.                                                  *)
KeyTended == key.data = "empty" => pc[key.by] \in {"restrict", "fill"}
TomlTended == toml.data = "empty" => \E p \in Proc : pc[p] = "save" \/ Clearing(p, "toml")

(* The key is complete, and no failure can remove it any more. *)
Firm == /\ key.data \in {"old", "own"}
        /\ \A p \in Proc : "key" \in created[p] => pc[p] # "cleanup" /\ ~Copying(p)

(* A copied configuration stands beside a key that stays, unless the key it *)
(* names was never beside it.                                               *)
PairTended == toml.data = "old" /\ "key" \in old => Firm

(* A copied key will have its configuration or be removed, or it has one    *)
(* that no cleanup takes for its own.                                       *)
CopyTended ==
    key.data = "old" =>
        /\ "key" \in old
        /\ "toml" \in old /\ ~Copying(key.by) /\ ~Clearing(key.by, "key") =>
              /\ toml # Nothing
              /\ \A p \in Proc : Clearing(p, "toml") => toml.by # p

Tended == KeyTended /\ TomlTended /\ PairTended /\ CopyTended

(* No failure of the write that fills the key: it leaves an empty one. *)
KeysAreFilled == "key" \notin Faults

HalfInv == /\ TypeOK /\ Renewing /\ KeyInv
           /\ \A p \in Proc : Listed(p)
           /\ spoilt \/ Tended

(* What a step of p is, by what it does to the variables of p. *)
Moves(p, l, m, c) ==
    /\ l \in Label /\ m \in {"old", "own", "kept"} /\ c \in SUBSET {"key", "toml"}
    /\ pc' = [pc EXCEPT ![p] = l] /\ making' = [making EXCEPT ![p] = m]
    /\ created' = [created EXCEPT ![p] = c] /\ old' = old

LEMMA MovesAt ==
    ASSUME TypeOK, NEW p \in Proc, NEW l, NEW m, NEW c, Moves(p, l, m, c)
    PROVE  /\ pc'[p] = l /\ making'[p] = m /\ created'[p] = c
           /\ \A q \in Proc \ {p} :
                  pc'[q] = pc[q] /\ making'[q] = making[q] /\ created'[q] = created[q]
BY DEF TypeOK, Moves

(* The lists of the other processes are none of p's business. *)
LEMMA ListedKept ==
    ASSUME HalfInv, NEW p \in Proc, NEW l, NEW m, NEW c, Moves(p, l, m, c), Listed(p)'
    PROVE  \A q \in Proc : Listed(q)'
<1> SUFFICES ASSUME NEW q \in Proc \ {p} PROVE Listed(q)'
  OBVIOUS
<1>1. pc'[q] = pc[q] /\ making'[q] = making[q] /\ created'[q] = created[q] /\ Listed(q) /\ old' = old
  BY MovesAt DEF HalfInv, Moves
<1> QED BY <1>1 DEF Listed, Copying

(* A step that touches neither file, and neither ends nor begins a write to *)
(* one.                                                                     *)
LEMMA QuietKeeps ==
    ASSUME HalfInv, NEW p \in Proc, NEW l, NEW m, Moves(p, l, m, created[p]),
           UNCHANGED <<key, toml, spoilt>>,
           pc[p] \notin {"restrict", "fill", "save", "cleanup"},
           l \notin {"restrict", "fill", "save", "cleanup"},
           Copying(p) => (l = "toml" /\ m = "old") \/ "toml" \notin old,
           m = "old" /\ l \in {"pub", "toml"} => Copying(p) \/ "key" \notin created[p]
    PROVE  (spoilt \/ Tended)'
<1> SUFFICES ASSUME ~spoilt PROVE Tended'
  OBVIOUS
<1>0. /\ pc'[p] = l /\ making'[p] = m /\ created'[p] = created[p]
      /\ \A q \in Proc \ {p} :
            pc'[q] = pc[q] /\ making'[q] = making[q] /\ created'[q] = created[q]
  BY MovesAt DEF HalfInv
<1>1. Tended /\ (key.data \in {"empty", "old"} => key.by \in Proc) /\ old' = old
  BY DEF HalfInv, TypeOK, Nothing, Moves
<1>2. KeyTended'
  BY <1>0, <1>1 DEF Tended, KeyTended
<1>4. \A q \in Proc : /\ Clearing(q, "toml")' <=> Clearing(q, "toml")
                      /\ Clearing(q, "key")' <=> Clearing(q, "key")
                      /\ (pc[q] = "save")' <=> pc[q] = "save"
                      /\ "key" \in created'[q] <=> "key" \in created[q]
                      /\ pc'[q] = "cleanup" <=> pc[q] = "cleanup"
                      /\ Copying(q)' => Copying(q) \/ "key" \notin created[q]
                      /\ Copying(q) => Copying(q)' \/ "toml" \notin old
  <2> TAKE q \in Proc
  <2>1. CASE q = p
    BY <1>0, <2>1 DEF Clearing, Copying
  <2>2. CASE q # p
    BY <1>0, <2>2 DEF Clearing, Copying
  <2> QED BY <2>1, <2>2
<1>5. Firm => Firm'
  BY <1>4 DEF Firm
<1>6. TomlTended' /\ PairTended'
  BY <1>1, <1>4, <1>5 DEF Tended, TomlTended, PairTended
<1>7. CopyTended'
  BY <1>1, <1>4 DEF Tended, CopyTended
<1> QED BY <1>2, <1>6, <1>7 DEF Tended

(* The steps that touch neither file. *)
LEMMA QuietSteps ==
    ASSUME HalfInv, NEW p \in Proc,
           \/ CheckConfig(p) \/ LookAtBackup(p) \/ PlaceBackup(p) \/ EndMigration(p)
           \/ UseBackups(p) \/ EndCommand(p) \/ EnsureKey(p)
           \/ WritePub(p) /\ ~Raise(p)
    PROVE  (\A q \in Proc : Listed(q)') /\ (spoilt \/ Tended)'
<1> USE DEF Goto
<1>l. Label = {"idle", "check", "create", "restrict", "fill", "pub", "toml", "save",
               "cleanup", "backups", "place", "use", "ask"}
  BY DEF Label
<1>t. /\ TypeOK /\ pc[p] \in Label /\ making[p] \in {"old", "own", "kept"}
      /\ created[p] \in SUBSET {"key", "toml"} /\ Listed(p)
      /\ pc = [pc EXCEPT ![p] = pc[p]] /\ making = [making EXCEPT ![p] = making[p]]
      /\ created = [created EXCEPT ![p] = created[p]]
      /\ making[p] = "kept" => pc[p] \in {"idle", "ask", "toml", "save"}
  BY DEF HalfInv, TypeOK, Renewing
<1>q. ASSUME NEW l \in Label, NEW m \in {"old", "own", "kept"}, Moves(p, l, m, created[p]),
             UNCHANGED <<key, toml, spoilt>>,
             pc[p] \notin {"restrict", "fill", "save", "cleanup"},
             l \notin {"restrict", "fill", "save", "cleanup", "pub"},
             Copying(p) => (l = "toml" /\ m = "old") \/ "toml" \notin old,
             m = "old" /\ l = "toml" => Copying(p) \/ ("key" \notin old /\ created[p] = {}),
             l \in {"check", "backups", "place"} => m = "old", l = "ask" => m # "old",
             m = "old" /\ l \in {"check", "create"} => making[p] = "old" /\ pc[p] = "check",
             m = "old" /\ l = "create" => "key" \in old
      PROVE  (\A q \in Proc : Listed(q)') /\ (spoilt \/ Tended)'
  <2>0. old' = old
    BY <1>q DEF Moves
  <2>1. pc'[p] = l /\ making'[p] = m /\ created'[p] = created[p] /\ old' = old
    BY <1>q, <1>t, <2>0, MovesAt
  <2>2. Listed(p)'
    BY <1>q, <1>t, <2>1 DEF Listed, Copying
  <2>3. \A q \in Proc : Listed(q)'
    BY <1>q, <2>2, ListedKept
  <2> QED BY <1>q, <2>3, QuietKeeps
<1>1. CASE CheckConfig(p)
  <2>1. PICK l \in {"backups", "create", "toml"} :
             /\ pc' = [pc EXCEPT ![p] = l]
             /\ l = "create" => "key" \in old
             /\ l = "toml" => "key" \notin old
    BY <1>1 DEF CheckConfig
  <2>2. pc[p] = "check" /\ making[p] = "old" /\ created[p] = {}
        /\ UNCHANGED <<old, key, toml, making, created, spoilt>>
    BY <1>1, <1>t DEF CheckConfig, disk, bounds, Listed
  <2> QED BY <2>1, <2>2, <1>q, <1>t, <1>l DEF Moves, Copying
<1>2. CASE LookAtBackup(p) \/ PlaceBackup(p)
  <2>1. PICK l \in {"backups", "place", "idle"} : pc' = [pc EXCEPT ![p] = l]
    BY <1>2, <1>t DEF LookAtBackup, PlaceBackup, Fail, Raise, InConfig
  <2>2. pc[p] \in {"backups", "place"} /\ UNCHANGED <<old, key, toml, making, created, spoilt>>
    BY <1>2 DEF LookAtBackup, PlaceBackup, Fail, disk, bounds, HalfInv, TypeOK
  <2> QED BY <2>1, <2>2, <1>q, <1>t, <1>l DEF Moves, Copying, Listed
<1>3. CASE EndMigration(p)
  BY <1>3, <1>q, <1>t, <1>l DEF EndMigration, disk, bounds, Moves, Copying, Listed
<1>4. CASE UseBackups(p)
  BY <1>4, <1>q, <1>t, <1>l DEF UseBackups, local, bounds, Moves, Copying, Listed
<1>5. CASE EndCommand(p)
  BY <1>5, <1>q, <1>t, <1>l DEF EndCommand, disk, bounds, Moves, Copying, Listed
<1>6. CASE EnsureKey(p)
  <2>1. PICK l \in {"create", "idle", "ask", "toml"} : pc' = [pc EXCEPT ![p] = l]
    BY <1>6 DEF EnsureKey
  <2>2. pc[p] \in {"use", "ask"} /\ making' = [making EXCEPT ![p] = Wanted(p)]
        /\ UNCHANGED <<old, key, toml, created, spoilt>>
    BY <1>6 DEF EnsureKey, disk, bounds
  <2>3. Wanted(p) \in {"own", "kept"}
    BY <2>2, <1>t DEF Wanted, Listed
  <2>4. Moves(p, l, Wanted(p), created[p]) /\ ~Copying(p)
    BY <2>1, <2>2, <2>3, <1>t, <1>l DEF Moves, Copying
  <2> QED BY <2>1, <2>2, <2>3, <2>4, <1>q, <1>l
<1>7. CASE WritePub(p) /\ ~Raise(p)
  <2> DEFINE l == IF making[p] = "own" THEN "ask" ELSE IF "toml" \in old THEN "toml" ELSE "backups"
  <2>1. /\ pc[p] = "pub" /\ pc' = [pc EXCEPT ![p] = l] /\ making[p] \in {"old", "own"}
        /\ UNCHANGED <<old, key, toml, making, created, spoilt>>
    BY <1>7, <1>t DEF WritePub, Fail, disk, bounds
  <2>3. Moves(p, l, making[p], created[p])
    BY <2>1, <1>t, <1>l DEF Moves
  <2>4. l \in Label /\ l \notin {"restrict", "fill", "save", "cleanup", "pub", "check", "create", "place"}
    BY <1>l
  <2>5. (l = "toml" => making[p] = "old") /\ (l = "backups" => making[p] = "old" /\ "toml" \notin old)
        /\ (l = "ask" => making[p] = "own") /\ (Copying(p) <=> making[p] = "old")
    BY <2>1, <1>t DEF Copying
  <2>6. Copying(p) => (l = "toml" /\ making[p] = "old") \/ "toml" \notin old
    BY <2>5
  <2> HIDE DEF l
  <2> QED BY <2>1, <2>3, <2>4, <2>5, <2>6, <1>q, <1>t
<1> QED BY <1>1, <1>2, <1>3, <1>4, <1>5, <1>6, <1>7

(* A command begins: its list is empty, and nobody is idle in a cleanup. *)
LEMMA StartTends ==
    ASSUME HalfInv, NEW p \in Proc, Start(p)
    PROVE  (\A q \in Proc : Listed(q)') /\ (spoilt \/ Tended)'
<1>1. Moves(p, "check", "old", {}) /\ pc[p] = "idle" /\ UNCHANGED <<old, key, toml, spoilt>>
  BY DEF Start, Goto, Moves, Label, disk, bounds
<1>2. /\ pc'[p] = "check" /\ making'[p] = "old" /\ created'[p] = {}
      /\ \A q \in Proc \ {p} :
            pc'[q] = pc[q] /\ making'[q] = making[q] /\ created'[q] = created[q]
  BY <1>1, MovesAt DEF HalfInv
<1>3. \A q \in Proc : Listed(q)'
  BY <1>1, <1>2, ListedKept DEF Listed, Copying
<1>4. ASSUME ~spoilt PROVE Tended'
  <2>1. Tended /\ (key.data \in {"empty", "old"} => key.by \in Proc)
    BY <1>4 DEF HalfInv, TypeOK, Nothing
  <2>2. \A q \in Proc : /\ Clearing(q, "toml")' <=> Clearing(q, "toml")
                        /\ Clearing(q, "key")' <=> Clearing(q, "key")
                        /\ (pc[q] = "save")' <=> pc[q] = "save"
                        /\ Copying(q)' <=> Copying(q)
                        /\ "key" \in created'[q] => "key" \in created[q]
                        /\ pc'[q] = "cleanup" <=> pc[q] = "cleanup"
    BY <1>1, <1>2 DEF Clearing, Copying
  <2>3. KeyTended'
    BY <1>1, <1>2, <2>1 DEF Tended, KeyTended
  <2>4. TomlTended' /\ PairTended'
    BY <1>1, <2>1, <2>2 DEF Tended, TomlTended, PairTended, Firm
  <2>5. CopyTended'
    BY <1>1, <2>1, <2>2 DEF Tended, CopyTended
  <2> QED BY <2>3, <2>4, <2>5 DEF Tended
<1> QED BY <1>1, <1>3, <1>4

(* A process is killed: only between two writes does it leave no trace. *)
LEMMA KillTends ==
    ASSUME HalfInv, NEW p \in Proc, Kill(p)
    PROVE  (\A q \in Proc : Listed(q)') /\ (spoilt \/ Tended)'
<1>1. Moves(p, "idle", making[p], created[p]) /\ UNCHANGED <<old, key, toml>>
  BY DEF HalfInv, TypeOK, Kill, Goto, Moves, Label, disk
<1>2. pc'[p] = "idle" /\ created'[p] = created[p] /\ old' = old /\ Listed(p)
  BY <1>1, MovesAt DEF HalfInv
<1>3. \A q \in Proc : Listed(q)'
  BY <1>1, <1>2, ListedKept DEF Listed, Copying
<1>4. CASE pc[p] \in InConfig
  BY <1>3, <1>4 DEF Kill
<1>5. CASE pc[p] \notin InConfig
  <2>1. UNCHANGED spoilt
    BY <1>5 DEF Kill, HalfInv, TypeOK
  <2> QED BY <1>1, <1>3, <1>5, <2>1, QuietKeeps DEF InConfig, Copying
<1> QED BY <1>4, <1>5

(* The key: made where there is none, removed again by the process that     *)
(* cannot restrict it, or filled.  Whoever has one listed has the one that  *)
(* is there, so nobody else is in the way.                                  *)
LEMMA CreateTends ==
    ASSUME HalfInv, NEW p \in Proc, CreateKey(p)
    PROVE  (\A q \in Proc : Listed(q)') /\ (spoilt \/ Tended)'
<1>l. Label = {"idle", "check", "create", "restrict", "fill", "pub", "toml", "save",
               "cleanup", "backups", "place", "use", "ask"}
  BY DEF Label
<1>1. PICK l \in {"restrict", "cleanup", "idle"} :
           /\ Moves(p, l, making[p], created[p])
           /\ \/ l = "restrict" /\ key = Nothing /\ key' = Made("empty", p)
              \/ l # "restrict" /\ key' = key /\ (l = "cleanup" => making[p] = "old")
  BY <1>l DEF HalfInv, TypeOK, CreateKey, Raise, Goto, Moves
<1>2. pc[p] = "create" /\ UNCHANGED <<old, toml, spoilt>> /\ Listed(p)
  BY DEF CreateKey, bounds, HalfInv
<1>3. /\ pc'[p] = l /\ making'[p] = making[p] /\ created'[p] = created[p]
      /\ \A q \in Proc \ {p} :
            pc'[q] = pc[q] /\ making'[q] = making[q] /\ created'[q] = created[q]
  BY <1>1, MovesAt DEF HalfInv
<1>5. Listed(p)'
  BY <1>1, <1>2, <1>3 DEF Listed, Copying
<1>6. \A q \in Proc : Listed(q)'
  BY <1>1, <1>5, ListedKept
<1>7. ASSUME ~spoilt PROVE Tended'
  <2>1. Tended /\ (key.data \in {"empty", "old"} => key.by \in Proc)
    BY <1>7 DEF HalfInv, TypeOK, Nothing
  <2>2. \A q \in Proc : /\ Clearing(q, "toml")' <=> Clearing(q, "toml")
                        /\ Clearing(q, "key")' <=> Clearing(q, "key")
                        /\ (pc[q] = "save")' <=> pc[q] = "save"
                        /\ Copying(q)' <=> Copying(q)
    BY <1>1, <1>2, <1>3 DEF Clearing, Copying, Listed
  <2>4. Nothing.data = "none" /\ Made("empty", p).data = "empty" /\ Made("empty", p).by = p
    BY DEF Nothing, Made
  <2>5. KeyTended'
    BY <1>1, <1>2, <1>3, <2>1, <2>4 DEF Tended, KeyTended
  <2>6. TomlTended'
    BY <1>2, <2>1, <2>2 DEF Tended, TomlTended
  <2>7. PairTended'
    <3>1. Firm => Firm'
      BY <1>1, <1>2, <1>3, <2>2, <2>4 DEF Firm, Clearing
    <3> QED BY <1>2, <2>1, <3>1 DEF Tended, PairTended
  <2>8. CopyTended'
    BY <1>1, <1>2, <2>1, <2>2, <2>4 DEF Tended, CopyTended
  <2> QED BY <2>5, <2>6, <2>7, <2>8 DEF Tended
<1> QED BY <1>2, <1>6, <1>7

LEMMA RestrictTends ==
    ASSUME HalfInv, NEW p \in Proc, RestrictKey(p)
    PROVE  (\A q \in Proc : Listed(q)') /\ (spoilt \/ Tended)'
<1>l. Label = {"idle", "check", "create", "restrict", "fill", "pub", "toml", "save",
               "cleanup", "backups", "place", "use", "ask"}
  BY DEF Label
<1>1. PICK l \in {"fill", "cleanup", "idle"} :
           /\ Moves(p, l, making[p], created[p])
           /\ \/ l = "fill" /\ key' = key
              \/ l # "fill" /\ key' = Nothing /\ (l = "cleanup" => making[p] = "old")
  BY <1>l DEF HalfInv, TypeOK, RestrictKey, Fail, Raise, Goto, Moves, bounds
<1>2. pc[p] = "restrict" /\ UNCHANGED <<old, toml, spoilt>> /\ key = Made("empty", p) /\ Listed(p)
  BY DEF RestrictKey, Fail, bounds, HalfInv, TypeOK, KeyInv, Claim
<1>3. /\ pc'[p] = l /\ making'[p] = making[p] /\ created'[p] = created[p]
      /\ \A q \in Proc \ {p} :
            pc'[q] = pc[q] /\ making'[q] = making[q] /\ created'[q] = created[q]
  BY <1>1, MovesAt DEF HalfInv
<1>4. Listed(p)'
  BY <1>1, <1>2, <1>3 DEF Listed, Copying
<1>5. \A q \in Proc : Listed(q)'
  BY <1>1, <1>4, ListedKept
<1>6. ASSUME ~spoilt PROVE Tended'
  <2>1. Tended
    BY <1>6 DEF HalfInv
  <2>2. \A q \in Proc : /\ Clearing(q, "toml")' <=> Clearing(q, "toml")
                        /\ (pc[q] = "save")' <=> pc[q] = "save"
    BY <1>1, <1>2, <1>3 DEF Clearing, Listed
  <2>3. Nothing.data = "none" /\ key.data = "empty" /\ key.by = p
    BY <1>2 DEF Nothing, Made
  <2>4. KeyTended'
    BY <1>1, <1>3, <2>3 DEF KeyTended
  <2>5. TomlTended' /\ PairTended'
    BY <1>2, <2>1, <2>2, <2>3 DEF Tended, TomlTended, PairTended, Firm
  <2>6. CopyTended'
    BY <1>1, <2>3 DEF CopyTended
  <2> QED BY <2>4, <2>5, <2>6 DEF Tended
<1> QED BY <1>2, <1>5, <1>6

LEMMA FillTends ==
    ASSUME HalfInv, KeysAreFilled, NEW p \in Proc, FillKey(p)
    PROVE  (\A q \in Proc : Listed(q)') /\ (spoilt \/ Tended)'
<1> DEFINE c == IF making[p] = "old" THEN {"key"} ELSE {}
<1>1. /\ Moves(p, "pub", making[p], c) /\ key' = Made(making[p], p)
      /\ UNCHANGED <<old, toml, spoilt>>
  BY DEF HalfInv, TypeOK, FillKey, Fail, KeysAreFilled, Goto, Moves, bounds, Label
<1>2. pc[p] = "fill" /\ key = Made("empty", p) /\ making[p] \in {"old", "own"} /\ Listed(p)
  BY DEF FillKey, HalfInv, TypeOK, KeyInv, Claim, Renewing
<1>3. /\ pc'[p] = "pub" /\ making'[p] = making[p] /\ created'[p] = c
      /\ \A q \in Proc \ {p} :
            pc'[q] = pc[q] /\ making'[q] = making[q] /\ created'[q] = created[q]
  BY <1>1, MovesAt DEF HalfInv
<1>4. Listed(p)'
  BY <1>1, <1>2, <1>3 DEF Listed, Copying
<1>5. \A q \in Proc : Listed(q)'
  BY <1>1, <1>4, ListedKept
<1>6. ASSUME ~spoilt PROVE Tended'
  <2>1. Tended
    BY <1>6 DEF HalfInv
  <2>2. \A q \in Proc : /\ Clearing(q, "toml")' <=> Clearing(q, "toml")
                        /\ (pc[q] = "save")' <=> pc[q] = "save"
    BY <1>2, <1>3 DEF Clearing
  <2>3. key.data = "empty" /\ key'.data = making[p] /\ key'.by = p
    BY <1>1, <1>2 DEF Made
  <2>4. KeyTended'
    BY <1>2, <2>3 DEF KeyTended
  <2>5. TomlTended' /\ PairTended'
    BY <1>1, <2>1, <2>2, <2>3 DEF Tended, TomlTended, PairTended, Firm
  <2>6. CopyTended'
    BY <1>1, <1>2, <1>3, <2>3 DEF CopyTended, Copying, Listed
  <2> QED BY <2>4, <2>5, <2>6 DEF Tended
<1> QED BY <1>1, <1>5, <1>6

(* A failure with the configuration still to come: the cleanup of a copy    *)
(* follows; a setup leaves its key, and what it did to the configuration is *)
(* nothing or spoils it.                                                    *)
LEMMA RaiseTends ==
    ASSUME HalfInv, NEW p \in Proc, pc[p] \in {"pub", "toml", "save"},
           NEW kind, Fail(kind, p), UNCHANGED <<old, key, toml, making>>,
           \/ UNCHANGED created
           \/ making[p] = "old" /\ created' = [created EXCEPT ![p] = @ \cup {"toml"}]
    PROVE  (\A q \in Proc : Listed(q)') /\ (spoilt \/ Tended)'
<1>l. "idle" \in Label /\ "cleanup" \in Label
  BY DEF Label
<1>1. PICK c \in SUBSET {"key", "toml"} :
           /\ Moves(p, IF making[p] = "old" THEN "cleanup" ELSE "idle", making[p], c)
           /\ created[p] \subseteq c /\ c \subseteq created[p] \cup {"toml"}
           /\ making[p] # "old" => c = created[p]
  <2>1. pc' = [pc EXCEPT ![p] = IF making[p] = "old" THEN "cleanup" ELSE "idle"]
        /\ making' = [making EXCEPT ![p] = making[p]] /\ making[p] \in {"old", "own", "kept"}
        /\ created[p] \in SUBSET {"key", "toml"}
    BY DEF HalfInv, TypeOK, Fail, Raise, Goto, InConfig
  <2>2. CASE UNCHANGED created
    <3>1. created' = [created EXCEPT ![p] = created[p]]
      BY <2>2 DEF HalfInv, TypeOK
    <3> QED BY <2>1, <3>1, <1>l DEF Moves
  <2>3. CASE making[p] = "old" /\ created' = [created EXCEPT ![p] = created[p] \cup {"toml"}]
    <3> DEFINE d == created[p] \cup {"toml"}
    <3>1. d \in SUBSET {"key", "toml"} /\ created[p] \subseteq d
      BY <2>1
    <3> QED BY <2>1, <2>3, <3>1, <1>l DEF Moves
  <2> QED BY <2>2, <2>3
<1>2. spoilt' = (spoilt \/ (pc[p] = "save" /\ making[p] # "old")) /\ old' = old
  BY DEF Fail
<1>3. /\ pc'[p] = (IF making[p] = "old" THEN "cleanup" ELSE "idle")
      /\ making'[p] = making[p] /\ created'[p] = c
      /\ \A q \in Proc \ {p} :
            pc'[q] = pc[q] /\ making'[q] = making[q] /\ created'[q] = created[q]
  BY <1>1, MovesAt DEF HalfInv
<1>4. Listed(p) /\ ("key" \in created[p] => key = Made("old", p))
  BY DEF HalfInv, KeyInv, Claim
<1>5. Listed(p)'
  BY <1>1, <1>2, <1>3, <1>4 DEF Listed, Copying
<1>6. \A q \in Proc : Listed(q)'
  BY <1>1, <1>5, ListedKept
<1>7. ASSUME ~spoilt' PROVE Tended'
  <2>1. Tended /\ (key.data \in {"empty", "old"} => key.by \in Proc)
    BY <1>2, <1>7 DEF HalfInv, TypeOK, Nothing
  <2>2. KeyTended'
    BY <1>3, <2>1 DEF Tended, KeyTended
  <2>3. TomlTended'
    <3>1. SUFFICES ASSUME toml.data = "empty"
          PROVE  (\E q \in Proc : pc[q] = "save" \/ Clearing(q, "toml"))'
      BY DEF TomlTended
    <3>2. PICK q \in Proc : pc[q] = "save" \/ Clearing(q, "toml")
      BY <2>1, <3>1 DEF Tended, TomlTended
    <3>3. CASE q # p
      BY <1>3, <3>2, <3>3 DEF Clearing
    <3>4. CASE q = p
      <4>1. Clearing(p, "toml")'
        BY <1>1, <1>2, <1>3, <1>4, <1>7, <3>2, <3>4 DEF Clearing, Listed
      <4> QED BY <4>1
    <3> QED BY <3>3, <3>4
  <2>4. PairTended'
    <3>1. Firm => Firm'
      BY <1>1, <1>3 DEF Firm, Copying
    <3> QED BY <1>2, <2>1, <3>1 DEF Tended, PairTended
  <2>5. CopyTended'
    <3>1. SUFFICES ASSUME key.data = "old", "toml" \in old, ~Copying(key.by)', ~Clearing(key.by, "key")'
          PROVE  toml # Nothing /\ \A q \in Proc : Clearing(q, "toml")' => toml.by # q
      BY <1>2, <2>1 DEF Tended, CopyTended
    <3>2. making[p] = "old" => key.by = p /\ "key" \in created[p]
      BY <1>4, <2>1, <3>1 DEF Tended, CopyTended, Listed, Copying, Made
    <3>3. making[p] # "old"
      BY <1>1, <1>3, <3>1, <3>2 DEF Clearing
    <3>4. \A q \in Proc : /\ Clearing(q, "toml")' => Clearing(q, "toml")
                          /\ Copying(q)' <=> Copying(q)
                          /\ Clearing(q, "key") => Clearing(q, "key")'
      BY <1>3, <3>3 DEF Clearing, Copying
    <3> QED BY <2>1, <3>1, <3>4 DEF Tended, CopyTended
  <2> QED BY <2>2, <2>3, <2>4, <2>5 DEF Tended
<1> QED BY <1>2, <1>6, <1>7

(* The configuration is opened, and saved. *)
LEMMA OpenTends ==
    ASSUME HalfInv, NEW p \in Proc, pc[p] = "toml", pc' = [pc EXCEPT ![p] = "save"],
           toml' = Made("empty", p), UNCHANGED <<old, key, making, bounds>>,
           created' = [created EXCEPT ![p] = IF making[p] = "old" THEN @ \cup {"toml"} ELSE @]
    PROVE  (\A q \in Proc : Listed(q)') /\ (spoilt \/ Tended)'
<1> DEFINE c == IF making[p] = "old" THEN created[p] \cup {"toml"} ELSE created[p]
<1>1. Moves(p, "save", making[p], c) /\ UNCHANGED <<old, key, spoilt>>
  BY DEF HalfInv, TypeOK, Moves, Label, bounds
<1>2. /\ pc'[p] = "save" /\ making'[p] = making[p] /\ created'[p] = c
      /\ \A q \in Proc \ {p} :
            pc'[q] = pc[q] /\ making'[q] = making[q] /\ created'[q] = created[q]
  BY <1>1, MovesAt DEF HalfInv
<1>3. Listed(p)
  BY DEF HalfInv
<1>4. Listed(p)'
  BY <1>1, <1>2, <1>3 DEF Listed, Copying
<1>5. \A q \in Proc : Listed(q)'
  BY <1>1, <1>4, ListedKept
<1>6. ASSUME ~spoilt PROVE Tended'
  <2>1. Tended /\ (key.data \in {"empty", "old"} => key.by \in Proc)
    BY <1>6 DEF HalfInv, TypeOK, Nothing
  <2>2. \A q \in Proc : Clearing(q, "toml")' => q # p
    BY <1>2 DEF Clearing
  <2>4. KeyTended'
    BY <1>1, <1>2, <2>1 DEF Tended, KeyTended
  <2>5. TomlTended' /\ PairTended'
    BY <1>2 DEF TomlTended, PairTended, Made
  <2>6. CopyTended'
    <3>1. toml' # Nothing /\ toml'.by = p
      BY DEF Made, Nothing
    <3> QED BY <1>1, <2>1, <2>2, <3>1 DEF Tended, CopyTended
  <2> QED BY <2>4, <2>5, <2>6 DEF Tended
<1> QED BY <1>1, <1>5, <1>6

LEMMA SaveTends ==
    ASSUME HalfInv, NEW p \in Proc, pc[p] = "save",
           pc' = [pc EXCEPT ![p] = IF making[p] = "old" THEN "backups" ELSE "idle"],
           toml' = Made(making[p], p), UNCHANGED <<old, key, making, created, bounds>>
    PROVE  (\A q \in Proc : Listed(q)') /\ (spoilt \/ Tended)'
<1> DEFINE l == IF making[p] = "old" THEN "backups" ELSE "idle"
<1>1. Moves(p, l, making[p], created[p]) /\ UNCHANGED <<old, key, spoilt>>
  BY DEF HalfInv, TypeOK, Moves, Label, bounds
<1>2. /\ pc'[p] = l /\ making'[p] = making[p] /\ created'[p] = created[p]
      /\ \A q \in Proc \ {p} :
            pc'[q] = pc[q] /\ making'[q] = making[q] /\ created'[q] = created[q]
  BY <1>1, MovesAt DEF HalfInv
<1>3. /\ Listed(p) /\ making[p] \in {"old", "own", "kept"}
      /\ "key" \in created[p] => key = Made("old", p)
  BY DEF HalfInv, TypeOK, KeyInv, Claim
<1>4. Listed(p)'
  BY <1>1, <1>2, <1>3 DEF Listed, Copying
<1>5. \A q \in Proc : Listed(q)'
  BY <1>1, <1>4, ListedKept
<1>6. ASSUME ~spoilt PROVE Tended'
  <2>1. Tended /\ (key.data \in {"empty", "old"} => key.by \in Proc)
    BY <1>6 DEF HalfInv, TypeOK, Nothing
  <2>2. \A q \in Proc : Clearing(q, "toml")' => q # p
    BY <1>2 DEF Clearing
  <2>4. KeyTended'
    BY <1>1, <1>2, <2>1 DEF Tended, KeyTended
  <2>5. TomlTended'
    BY <1>3 DEF TomlTended, Made
  <2>6. PairTended'
    <3>1. SUFFICES ASSUME making[p] = "old", "key" \in old PROVE Firm'
      BY <1>1 DEF PairTended, Made
    <3>2. "key" \in created[p] /\ key'.data = "old"
      BY <1>1, <1>3, <3>1 DEF Listed, Copying, Made
    <3>3. ASSUME NEW q \in Proc, "key" \in created'[q]
          PROVE  pc'[q] # "cleanup" /\ ~Copying(q)'
      <4>1. CASE q = p
        BY <1>2, <3>1, <4>1 DEF Copying
      <4>2. CASE q # p
        <5>1. pc[q] = "idle"
          BY <1>2, <3>2, <3>3, <4>2, OneClaim DEF HalfInv
        <5> QED BY <1>2, <4>2, <5>1 DEF Copying
      <4> QED BY <4>1, <4>2
    <3> QED BY <3>2, <3>3 DEF Firm
  <2>7. CopyTended'
    <3>1. toml' # Nothing /\ toml'.by = p
      BY <1>3 DEF Made, Nothing
    <3> QED BY <1>1, <2>1, <2>2, <3>1 DEF Tended, CopyTended
  <2> QED BY <2>4, <2>5, <2>6, <2>7 DEF Tended
<1> QED BY <1>1, <1>5, <1>6

(* The cleanup removes the key, which is its own; then the configuration    *)
(* unless a process has it open, and unless that is one's own the removal   *)
(* counts as spoiling.                                                      *)
LEMMA CleanUpTends ==
    ASSUME HalfInv, NEW p \in Proc, CleanUp(p)
    PROVE  (\A q \in Proc : Listed(q)') /\ (spoilt \/ Tended)'
<1> DEFINE c == created[p] \ {"key"}
<1>1. PICK l \in {"cleanup", "idle"} :
           /\ Moves(p, l, making[p], c)
           /\ \/ l = "cleanup" /\ "key" \in created[p] /\ key' = Nothing /\ UNCHANGED <<toml, spoilt>>
              \/ l = "idle" /\ "key" \notin created[p] /\ key' = key
  BY DEF HalfInv, TypeOK, CleanUp, Goto, Moves, Label
<1>2. pc[p] = "cleanup" /\ old' = old /\ Listed(p) /\ (spoilt => spoilt')
      /\ ("key" \in created[p] => key = Made("old", p))
  BY DEF CleanUp, HalfInv, TypeOK, KeyInv, Claim
<1>3. /\ pc'[p] = l /\ making'[p] = making[p] /\ created'[p] = c
      /\ \A q \in Proc \ {p} :
            pc'[q] = pc[q] /\ making'[q] = making[q] /\ created'[q] = created[q]
  BY <1>1, MovesAt DEF HalfInv
<1>4. Nothing.by # p /\ Nothing.data = "none"
  BY NamesAssumption DEF Nothing
<1>5. Listed(p)'
  BY <1>1, <1>2, <1>3 DEF Listed, Copying
<1>6. \A q \in Proc : Listed(q)'
  BY <1>1, <1>5, ListedKept
<1>7. ASSUME ~spoilt' PROVE Tended'
  <2>1. Tended
    BY <1>2, <1>7 DEF HalfInv
  <2>2. \A q \in Proc \ {p} : /\ Clearing(q, "toml")' <=> Clearing(q, "toml")
                              /\ Clearing(q, "key")' <=> Clearing(q, "key")
                              /\ Copying(q)' <=> Copying(q)
    BY <1>3 DEF Clearing, Copying
  <2>3. ~Copying(p)' /\ ~Clearing(p, "key")' /\ (Clearing(p, "toml")' => Clearing(p, "toml"))
    BY <1>1, <1>2, <1>3 DEF Clearing, Copying
  <2>4. key.data \in {"empty", "old"} => key.by \in Proc
    BY DEF HalfInv, TypeOK, Nothing
  <2>5. KeyTended'
    BY <1>1, <1>2, <1>3, <1>4, <2>1, <2>4 DEF Tended, KeyTended
  <2>7. CASE l = "cleanup"
    <3>1. TomlTended'
      <4>1. Clearing(p, "toml") => Clearing(p, "toml")'
        BY <1>3, <2>7 DEF Clearing
      <4> QED BY <1>1, <1>2, <1>3, <2>1, <2>2, <2>7, <4>1 DEF Tended, TomlTended
    <3>2. PairTended'
      <4>1. ~Firm
        BY <1>1, <1>2, <2>7 DEF Firm
      <4> QED BY <1>1, <1>2, <2>1, <2>7, <4>1 DEF Tended, PairTended
    <3>3. CopyTended'
      BY <1>1, <1>4, <2>7 DEF CopyTended
    <3> QED BY <2>5, <3>1, <3>2, <3>3 DEF Tended
  <2>8. CASE l = "idle"
    <3>1. key' = key /\ "key" \notin created[p]
      BY <1>1, <2>8
    <3>2. Firm => Firm'
      BY <1>2, <1>3, <2>2, <2>3, <2>8, <3>1 DEF Firm
    <3>3. key.data = "old" => (Copying(key.by)' <=> Copying(key.by))
                              /\ (Clearing(key.by, "key")' <=> Clearing(key.by, "key"))
      BY <1>2, <2>2, <2>3, <2>4, <3>1 DEF Copying, Clearing
    <3>4. CASE "toml" \in created[p] /\ \A q \in Proc : pc[q] # "save"
      <4>1. toml' = Nothing /\ toml.by \in {p, NoProc}
        BY <1>7, <3>1, <3>4 DEF CleanUp, HalfInv, TypeOK
      <4>2. TomlTended' /\ PairTended'
        BY <1>4, <4>1 DEF TomlTended, PairTended
      <4>3. CopyTended'
        <5>1. SUFFICES ASSUME key.data = "old", "toml" \in old, ~Copying(key.by),
                              ~Clearing(key.by, "key")
              PROVE  FALSE
          BY <1>2, <2>1, <3>1, <3>3 DEF Tended, CopyTended
        <5>2. toml # Nothing /\ toml.by # p
          BY <1>2, <2>1, <3>4, <5>1 DEF Tended, CopyTended, Clearing
        <5> QED BY <4>1, <5>2, NamesAssumption DEF HalfInv, TypeOK
      <4> QED BY <2>5, <4>2, <4>3 DEF Tended
    <3>5. CASE ~("toml" \in created[p] /\ \A q \in Proc : pc[q] # "save")
      <4>1. toml' = toml
        BY <3>1, <3>5 DEF CleanUp
      <4>2. TomlTended'
        <5>1. SUFFICES ASSUME toml.data = "empty"
              PROVE  (\E q \in Proc : pc[q] = "save" \/ Clearing(q, "toml"))'
          BY <4>1 DEF TomlTended
        <5>2. PICK q \in Proc : pc[q] = "save" \/ Clearing(q, "toml")
          BY <2>1, <5>1 DEF Tended, TomlTended
        <5>3. \E r \in Proc \ {p} : pc[r] = "save" \/ Clearing(r, "toml")
          BY <1>2, <3>5, <5>2 DEF Clearing
        <5> QED BY <1>3, <2>2, <5>3
      <4>3. PairTended'
        BY <1>2, <2>1, <3>2, <4>1 DEF Tended, PairTended
      <4>4. CopyTended'
        BY <1>2, <2>1, <2>2, <2>3, <3>1, <3>3, <4>1 DEF Tended, CopyTended
      <4> QED BY <2>5, <4>2, <4>3, <4>4 DEF Tended
    <3> QED BY <3>4, <3>5
  <2> QED BY <2>7, <2>8
<1> QED BY <1>6, <1>7

LEMMA ProcTends ==
    ASSUME HalfInv, KeysAreFilled, NEW p \in Proc,
           Step(p) \/ UseBackups(p) \/ EnsureKey(p) \/ Kill(p)
    PROVE  HalfInv'
<1>1. (\A q \in Proc : Listed(q)') /\ (spoilt \/ Tended)'
  <2>1. CASE WritePub(p)
    <3>1. CASE Fail("copy", p)
      BY <2>1, <3>1, RaiseTends DEF WritePub, disk
    <3>2. CASE ~Fail("copy", p) /\ ~Raise(p)
      BY <2>1, <3>2, QuietSteps
    <3>3. CASE ~Fail("copy", p) /\ Raise(p)
      <4>1. pc[p] = "pub" /\ pc'[p] \in {"ask", "toml", "backups"}
        BY <2>1, <3>3 DEF WritePub, Goto, HalfInv, TypeOK
      <4>2. pc'[p] \in {"cleanup", "idle"}
        BY <3>3 DEF Raise, Goto, HalfInv, TypeOK
      <4> QED BY <4>1, <4>2
    <3> QED BY <3>1, <3>2, <3>3
  <2>2. CASE OpenToml(p)
    <3>1. CASE Fail("config", p)
      <4>1. pc'[p] # "save" /\ UNCHANGED <<old, key, making>> /\ pc[p] = "toml"
        BY <2>2, <3>1 DEF OpenToml, Fail, Raise, Goto, HalfInv, TypeOK
      <4>2. \/ UNCHANGED <<toml, created>>
            \/ /\ making[p] = "old" /\ UNCHANGED toml
               /\ created' = [created EXCEPT ![p] = @ \cup {"toml"}]
        BY <2>2, <4>1 DEF OpenToml, Goto, HalfInv, TypeOK
      <4> QED BY <3>1, <4>1, <4>2, RaiseTends
    <3>2. CASE ~Fail("config", p)
      BY <2>2, <3>2, OpenTends DEF OpenToml, Goto
    <3> QED BY <3>1, <3>2
  <2>3. CASE SaveToml(p)
    <3>1. CASE Fail("config", p) /\ UNCHANGED toml
      BY <2>3, <3>1, RaiseTends DEF SaveToml
    <3>2. CASE ~(Fail("config", p) /\ UNCHANGED toml)
      BY <2>3, <3>2, SaveTends DEF SaveToml, Goto
    <3> QED BY <3>1, <3>2
  <2> QED BY <2>1, <2>2, <2>3, QuietSteps, StartTends, KillTends, CreateTends, RestrictTends,
             FillTends, CleanUpTends DEF Step
<1>2. TypeOK' /\ Renewing' /\ KeyInv'
  BY ProcTyped, ProcRenews, ProcKeeps DEF HalfInv
<1> QED BY <1>1, <1>2 DEF HalfInv

(* "Leave nothing half-copied behind, or the next run would find the new    *)
(* location in use and never finish": for any number of commands, kills and *)
(* failures but of the bytes of the key, and whether the key of the old     *)
(* configuration was beside it, elsewhere, or both.                         *)
THEOREM NoHalfStays ==
    ASSUME KeysAreFilled
    PROVE  Spec => []NothingHalfCopied
<1>1. Init => HalfInv
  <2>1. Init => TypeOK /\ Renewing /\ KeyInv
    BY InitTyped DEF Init, Renewing, KeyInv, Local, Claim, Label
  <2>2. Init => (\A p \in Proc : Listed(p)) /\ Tended
    BY DEF Init, Listed, Copying, Clearing, Tended, KeyTended, TomlTended, PairTended, CopyTended,
           Nothing
  <2> QED BY <2>1, <2>2 DEF HalfInv
<1>2. HalfInv /\ [Next]_vars => HalfInv'
  <2> SUFFICES ASSUME HalfInv, [Next]_vars PROVE HalfInv'
    OBVIOUS
  <2>1. CASE UNCHANGED vars
    BY <2>1 DEF vars, disk, local, bounds, HalfInv, TypeOK, Renewing, KeyInv, Local, Claim, Listed,
                Clearing, Copying, Tended, KeyTended, TomlTended, PairTended, CopyTended, Firm
  <2> QED BY <2>1, ProcTends DEF Next
<1>3. HalfInv => NothingHalfCopied
  <2> SUFFICES ASSUME HalfInv, \A p \in Proc : pc[p] = "idle", ~spoilt PROVE ~HalfCopied
    BY DEF NothingHalfCopied
  <2>1. Tended /\ (key.data \in {"empty", "old"} => key.by \in Proc)
    BY DEF HalfInv, TypeOK, Nothing
  <2>2. Nothing.data = "none"
    BY DEF Nothing
  <2> QED BY <2>1, <2>2 DEF HalfCopied, Tended, KeyTended, TomlTended, PairTended, CopyTended,
             Copying, Clearing, Firm
<1> QED BY <1>1, <1>2, <1>3, PTL DEF Spec

=============================================================================
