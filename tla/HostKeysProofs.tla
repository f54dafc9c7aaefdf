--------------------------- MODULE HostKeysProofs ---------------------------
(***************************************************************************)
(* Theorems of HostKeys, for any keys, web connections and number of       *)
(* resets.  The inductive invariant adds to the properties what ties the   *)
(* store to the command in progress: what setup keeps pinned, what a       *)
(* connection has loaded, and the window in which a re-trust has forgotten *)
(* the key.                                                                *)
(***************************************************************************)
EXTENDS HostKeys, TLAPS

(* From the moment a re-trust forgets the key until it meets the host, or  *)
(* puts the key back, nothing may be recorded.                             *)
Window == cli.cmd = "retrust" /\ cli.pc \in {"install", "meet", "putback"}

(* Only `setup --trust-new-key` comes to forgetting a key. *)
OnlyRetrustForgets == cli.pc = "forget" => cli.cmd = "retrust"

(* A plain setup keeps the key that was recorded when it began, and web    *)
(* connections have loaded no other.                                       *)
SetupPinned ==
    cli.cmd = "setup" /\ cli.pc # "idle" /\ cli.known # NoKey =>
        /\ store = cli.known
        /\ \A v \in Visitor : visit[v] \in {"idle", cli.known}
        /\ cli.pc \in {"meet", "check"} => cli.key = cli.known
        /\ cli.pc = "append" => cli.met = cli.known

(* Between load and meeting, only a web connection that met the host       *)
(* first changes the store.                                                *)
LoadedKnown == cli.pc \in {"meet", "check"} => store \in {cli.key, answering}

(* What was known is forgotten only inside the window. *)
Pinned == cli.pc # "idle" /\ cli.known # NoKey /\ ~Window => store # NoKey

(* A command that begins on a good setup knows the key the tablet offers.  *)
GoodSetup ==
    ready => /\ authorized
             /\ cli.pc # "idle" => cli.known = answering /\ cli.pc # "record"
             /\ store = answering \/ (Window /\ store = NoKey)

(* Everything but GoodSetup survives Ctrl+C anywhere. *)
Kept == TypeOK /\ OnlyRetrustForgets /\ SetupPinned /\ LoadedKnown /\ Pinned

IInv == Kept /\ GoodSetup

-----------------------------------------------------------------------------
(* Every step keeps the variables in their types. *)
LEMMA TypeStep ==
    TypeOK /\ [Next]_vars => TypeOK'
<1> SUFFICES ASSUME TypeOK, [Next]_vars PROVE TypeOK'
  OBVIOUS
<1> USE KeyAssumption, BoundAssumption DEF Goto, End, NoCommand, TypeOK, Command, Label, Recorded
<1>1. ASSUME NEW c \in Command, Begin(c)
      PROVE  TypeOK'
  BY <1>1 DEF Begin
<1>2. CASE CompareOffer
  BY <1>2 DEF CompareOffer
<1>3. CASE ReadOffer
  <2>1. CASE End
    BY <1>3, <2>1 DEF ReadOffer
  <2>2. CASE cli' = [cli EXCEPT !.key = answering, !.pc = "record"]
    BY <1>3, <2>2 DEF ReadOffer
  <2>3. QED
    BY <1>3, <2>1, <2>2 DEF ReadOffer
<1>4. CASE RecordOffer
  BY <1>4 DEF RecordOffer
<1>5. CASE Prompt
  BY <1>5 DEF Prompt
<1>6. CASE Forget
  BY <1>6 DEF Forget
<1>7. CASE Load
  BY <1>7 DEF Load, Loaded
<1>8. CASE Meet
  <2>1. CASE Refuses(cli.key) /\ Failed = "idle"
    BY <1>8, <2>1 DEF Meet, Refuses, Fail
  <2>2. CASE Refuses(cli.key) /\ Failed # "idle"
    BY <1>8, <2>2 DEF Meet, Fail, Failed
  <2>3. CASE ~Refuses(cli.key)
    <3>1. store' \in Recorded
      BY <1>8, <2>3 DEF Meet, Pin
    <3>2. cli' = [cli EXCEPT !.met = answering, !.pc = "append"]
      BY <1>8, <2>3 DEF Meet
    <3>3. UNCHANGED <<answering, authorized, visit, ready, rekeys>>
      BY <1>8 DEF Meet
    <3>4. QED
      BY <3>1, <3>2, <3>3
  <2>4. QED
    BY <2>1, <2>2, <2>3
<1>9. CASE Append
  BY <1>9 DEF Append
<1>10. CASE InstallFails
  <2>1. authorized' \in BOOLEAN /\ (authorized => authorized')
    BY <1>10, Zenon DEF InstallFails
  <2>2. CASE Failed = "idle"
    BY <1>10, <2>1, <2>2 DEF InstallFails, Fail, Failed
  <2>3. CASE Failed # "idle"
    BY <1>10, <2>1, <2>3 DEF InstallFails, Fail, Failed
  <2>4. QED
    BY <2>2, <2>3
<1>11. CASE PutBack
  BY <1>11 DEF PutBack
<1>12. CASE Check
  BY <1>12 DEF Check, Refuses, Pin
<1>13. CASE GiveUp
  BY <1>13 DEF GiveUp
<1>14. ASSUME NEW v \in Visitor, VisitLoad(v)
      PROVE  TypeOK'
  BY <1>14 DEF VisitLoad, Loaded
<1>15. ASSUME NEW v \in Visitor, VisitMeet(v)
      PROVE  TypeOK'
  BY <1>15 DEF VisitMeet, Refuses, Pin
<1>16. CASE Rekey
  <2>1. answering' \in Key /\ rekeys' \in 0..MaxRekeys
    BY <1>16 DEF Rekey
  <2>2. authorized' \in BOOLEAN /\ ready' \in BOOLEAN
    BY <1>16, Zenon DEF Rekey
  <2>3. QED
    BY <1>16, <2>1, <2>2 DEF Rekey
<1>17. CASE UNCHANGED vars
  BY <1>17 DEF vars
<1>18. QED
  BY <1>1, <1>2, <1>3, <1>4, <1>5, <1>6, <1>7, <1>8, <1>9, <1>10, <1>11, <1>12,
     <1>13, <1>14, <1>15, <1>16, <1>17 DEF Next

(* Nothing but --trust-new-key leads to forgetting. *)
LEMMA RetrustStep ==
    TypeOK /\ OnlyRetrustForgets /\ [Next]_vars => OnlyRetrustForgets'
<1> SUFFICES ASSUME TypeOK, OnlyRetrustForgets, [Next]_vars PROVE OnlyRetrustForgets'
  OBVIOUS
<1> USE KeyAssumption DEF OnlyRetrustForgets, Goto, End, NoCommand, TypeOK, Command, Label, Recorded
<1>1. ASSUME NEW c \in Command, Begin(c)
      PROVE  OnlyRetrustForgets'
  BY <1>1 DEF Begin
<1>2. CASE CompareOffer
  BY <1>2 DEF CompareOffer
<1>3. CASE ReadOffer
  <2>1. CASE End
    BY <1>3, <2>1 DEF ReadOffer
  <2>2. CASE cli' = [cli EXCEPT !.key = answering, !.pc = "record"]
    BY <1>3, <2>2 DEF ReadOffer
  <2>3. QED
    BY <1>3, <2>1, <2>2 DEF ReadOffer
<1>4. CASE RecordOffer
  BY <1>4 DEF RecordOffer
<1>5. CASE Prompt
  BY <1>5 DEF Prompt
<1>6. CASE Forget
  BY <1>6 DEF Forget
<1>7. CASE Load
  BY <1>7 DEF Load, Loaded
<1>8. CASE Meet
  <2>1. CASE Refuses(cli.key) /\ Failed = "idle"
    BY <1>8, <2>1 DEF Meet, Refuses, Fail
  <2>2. CASE Refuses(cli.key) /\ Failed # "idle"
    BY <1>8, <2>2 DEF Meet, Fail, Failed
  <2>3. CASE ~Refuses(cli.key)
    BY <1>8, <2>3 DEF Meet, Refuses, Pin
  <2>4. QED
    BY <2>1, <2>2, <2>3
<1>9. CASE Append
  BY <1>9 DEF Append
<1>10. CASE InstallFails
  <2>1. authorized' \in BOOLEAN /\ (authorized => authorized')
    BY <1>10, Zenon DEF InstallFails
  <2>2. CASE Failed = "idle"
    BY <1>10, <2>1, <2>2 DEF InstallFails, Fail, Failed
  <2>3. CASE Failed # "idle"
    BY <1>10, <2>1, <2>3 DEF InstallFails, Fail, Failed
  <2>4. QED
    BY <2>2, <2>3
<1>11. CASE PutBack
  BY <1>11 DEF PutBack
<1>12. CASE Check
  BY <1>12 DEF Check, Refuses, Pin
<1>13. CASE GiveUp
  BY <1>13 DEF GiveUp
<1>14. ASSUME NEW v \in Visitor, VisitLoad(v)
      PROVE  OnlyRetrustForgets'
  BY <1>14 DEF VisitLoad, Loaded
<1>15. ASSUME NEW v \in Visitor, VisitMeet(v)
      PROVE  OnlyRetrustForgets'
  BY <1>15 DEF VisitMeet, Refuses, Pin
<1>16. CASE Rekey
  BY <1>16 DEF Rekey
<1>17. CASE UNCHANGED vars
  BY <1>17 DEF vars
<1>18. QED
  BY <1>1, <1>2, <1>3, <1>4, <1>5, <1>6, <1>7, <1>8, <1>9, <1>10, <1>11, <1>12,
     <1>13, <1>14, <1>15, <1>16, <1>17 DEF Next

(* What a plain setup knows stays recorded, loaded and met until it ends. *)
LEMMA SetupPinnedStep ==
    TypeOK /\ OnlyRetrustForgets /\ SetupPinned /\ [Next]_vars => SetupPinned'
<1> SUFFICES ASSUME TypeOK, OnlyRetrustForgets, SetupPinned, [Next]_vars PROVE SetupPinned'
  OBVIOUS
<1> USE KeyAssumption DEF OnlyRetrustForgets, SetupPinned,
              Goto, End, NoCommand, TypeOK, Command, Label, Recorded
<1>1. ASSUME NEW c \in Command, Begin(c)
      PROVE  SetupPinned'
  BY <1>1 DEF Begin
<1>2. CASE CompareOffer
  BY <1>2 DEF CompareOffer
<1>3. CASE ReadOffer
  <2>1. CASE End
    BY <1>3, <2>1 DEF ReadOffer
  <2>2. CASE cli' = [cli EXCEPT !.key = answering, !.pc = "record"]
    BY <1>3, <2>2 DEF ReadOffer
  <2>3. QED
    BY <1>3, <2>1, <2>2 DEF ReadOffer
<1>4. CASE RecordOffer
  BY <1>4 DEF RecordOffer
<1>5. CASE Prompt
  BY <1>5 DEF Prompt
<1>6. CASE Forget
  BY <1>6 DEF Forget
<1>7. CASE Load
  BY <1>7 DEF Load, Loaded
<1>8. CASE Meet
  <2>1. CASE Refuses(cli.key) /\ Failed = "idle"
    BY <1>8, <2>1 DEF Meet, Refuses, Fail
  <2>2. CASE Refuses(cli.key) /\ Failed # "idle"
    BY <1>8, <2>2 DEF Meet, Fail, Failed
  <2>3. CASE ~Refuses(cli.key)
    BY <1>8, <2>3 DEF Meet, Refuses, Pin
  <2>4. QED
    BY <2>1, <2>2, <2>3
<1>9. CASE Append
  BY <1>9 DEF Append
<1>10. CASE InstallFails
  <2>1. authorized' \in BOOLEAN /\ (authorized => authorized')
    BY <1>10, Zenon DEF InstallFails
  <2>2. CASE Failed = "idle"
    BY <1>10, <2>1, <2>2 DEF InstallFails, Fail, Failed
  <2>3. CASE Failed # "idle"
    BY <1>10, <2>1, <2>3 DEF InstallFails, Fail, Failed
  <2>4. QED
    BY <2>2, <2>3
<1>11. CASE PutBack
  BY <1>11 DEF PutBack
<1>12. CASE Check
  BY <1>12 DEF Check, Refuses, Pin
<1>13. CASE GiveUp
  BY <1>13 DEF GiveUp
<1>14. ASSUME NEW v \in Visitor, VisitLoad(v)
      PROVE  SetupPinned'
  BY <1>14 DEF VisitLoad, Loaded
<1>15. ASSUME NEW v \in Visitor, VisitMeet(v)
      PROVE  SetupPinned'
  BY <1>15 DEF VisitMeet, Refuses, Pin
<1>16. CASE Rekey
  BY <1>16 DEF Rekey
<1>17. CASE UNCHANGED vars
  BY <1>17 DEF vars
<1>18. QED
  BY <1>1, <1>2, <1>3, <1>4, <1>5, <1>6, <1>7, <1>8, <1>9, <1>10, <1>11, <1>12,
     <1>13, <1>14, <1>15, <1>16, <1>17 DEF Next

(* Only a web connection comes between loading and meeting. *)
LEMMA LoadedKnownStep ==
    TypeOK /\ LoadedKnown /\ [Next]_vars => LoadedKnown'
<1> SUFFICES ASSUME TypeOK, LoadedKnown, [Next]_vars PROVE LoadedKnown'
  OBVIOUS
<1> USE KeyAssumption DEF LoadedKnown, Goto, End, NoCommand, TypeOK, Command, Label, Recorded
<1>1. ASSUME NEW c \in Command, Begin(c)
      PROVE  LoadedKnown'
  BY <1>1 DEF Begin
<1>2. CASE CompareOffer
  BY <1>2 DEF CompareOffer
<1>3. CASE ReadOffer
  <2>1. CASE End
    BY <1>3, <2>1 DEF ReadOffer
  <2>2. CASE cli' = [cli EXCEPT !.key = answering, !.pc = "record"]
    BY <1>3, <2>2 DEF ReadOffer
  <2>3. QED
    BY <1>3, <2>1, <2>2 DEF ReadOffer
<1>4. CASE RecordOffer
  BY <1>4 DEF RecordOffer
<1>5. CASE Prompt
  BY <1>5 DEF Prompt
<1>6. CASE Forget
  BY <1>6 DEF Forget
<1>7. CASE Load
  BY <1>7 DEF Load, Loaded
<1>8. CASE Meet
  <2>1. CASE Refuses(cli.key) /\ Failed = "idle"
    BY <1>8, <2>1 DEF Meet, Refuses, Fail
  <2>2. CASE Refuses(cli.key) /\ Failed # "idle"
    BY <1>8, <2>2 DEF Meet, Fail, Failed
  <2>3. CASE ~Refuses(cli.key)
    BY <1>8, <2>3 DEF Meet, Refuses, Pin
  <2>4. QED
    BY <2>1, <2>2, <2>3
<1>9. CASE Append
  BY <1>9 DEF Append
<1>10. CASE InstallFails
  <2>1. authorized' \in BOOLEAN /\ (authorized => authorized')
    BY <1>10, Zenon DEF InstallFails
  <2>2. CASE Failed = "idle"
    BY <1>10, <2>1, <2>2 DEF InstallFails, Fail, Failed
  <2>3. CASE Failed # "idle"
    BY <1>10, <2>1, <2>3 DEF InstallFails, Fail, Failed
  <2>4. QED
    BY <2>2, <2>3
<1>11. CASE PutBack
  BY <1>11 DEF PutBack
<1>12. CASE Check
  BY <1>12 DEF Check, Refuses, Pin
<1>13. CASE GiveUp
  BY <1>13 DEF GiveUp
<1>14. ASSUME NEW v \in Visitor, VisitLoad(v)
      PROVE  LoadedKnown'
  BY <1>14 DEF VisitLoad, Loaded
<1>15. ASSUME NEW v \in Visitor, VisitMeet(v)
      PROVE  LoadedKnown'
  BY <1>15 DEF VisitMeet, Refuses, Pin
<1>16. CASE Rekey
  BY <1>16 DEF Rekey
<1>17. CASE UNCHANGED vars
  BY <1>17 DEF vars
<1>18. QED
  BY <1>1, <1>2, <1>3, <1>4, <1>5, <1>6, <1>7, <1>8, <1>9, <1>10, <1>11, <1>12,
     <1>13, <1>14, <1>15, <1>16, <1>17 DEF Next

(* No step leaves the store empty of what a command knew, but a forget. *)
LEMMA PinnedStep ==
    TypeOK /\ LoadedKnown /\ OnlyRetrustForgets /\ Pinned /\ [Next]_vars => Pinned'
<1> SUFFICES ASSUME TypeOK, LoadedKnown, OnlyRetrustForgets, Pinned, [Next]_vars PROVE Pinned'
  OBVIOUS
<1> USE KeyAssumption DEF OnlyRetrustForgets, Pinned, Window, LoadedKnown,
              Goto, End, NoCommand, TypeOK, Command, Label, Recorded
<1>1. ASSUME NEW c \in Command, Begin(c)
      PROVE  Pinned'
  BY <1>1 DEF Begin
<1>2. CASE CompareOffer
  BY <1>2 DEF CompareOffer
<1>3. CASE ReadOffer
  <2>1. CASE End
    BY <1>3, <2>1 DEF ReadOffer
  <2>2. CASE cli' = [cli EXCEPT !.key = answering, !.pc = "record"]
    BY <1>3, <2>2 DEF ReadOffer
  <2>3. QED
    BY <1>3, <2>1, <2>2 DEF ReadOffer
<1>4. CASE RecordOffer
  BY <1>4 DEF RecordOffer
<1>5. CASE Prompt
  BY <1>5 DEF Prompt
<1>6. CASE Forget
  BY <1>6 DEF Forget
<1>7. CASE Load
  BY <1>7 DEF Load, Loaded
<1>8. CASE Meet
  <2>1. CASE Refuses(cli.key) /\ Failed = "idle"
    BY <1>8, <2>1 DEF Meet, Refuses, Fail
  <2>2. CASE Refuses(cli.key) /\ Failed # "idle"
    BY <1>8, <2>2 DEF Meet, Fail, Failed
  <2>3. CASE ~Refuses(cli.key)
    BY <1>8, <2>3 DEF Meet, Refuses, Pin
  <2>4. QED
    BY <2>1, <2>2, <2>3
<1>9. CASE Append
  BY <1>9 DEF Append
<1>10. CASE InstallFails
  <2>1. authorized' \in BOOLEAN /\ (authorized => authorized')
    BY <1>10, Zenon DEF InstallFails
  <2>2. CASE Failed = "idle"
    BY <1>10, <2>1, <2>2 DEF InstallFails, Fail, Failed
  <2>3. CASE Failed # "idle"
    BY <1>10, <2>1, <2>3 DEF InstallFails, Fail, Failed
  <2>4. QED
    BY <2>2, <2>3
<1>11. CASE PutBack
  BY <1>11 DEF PutBack
<1>12. CASE Check
  BY <1>12 DEF Check, Refuses, Pin
<1>13. CASE GiveUp
  BY <1>13 DEF GiveUp
<1>14. ASSUME NEW v \in Visitor, VisitLoad(v)
      PROVE  Pinned'
  BY <1>14 DEF VisitLoad, Loaded
<1>15. ASSUME NEW v \in Visitor, VisitMeet(v)
      PROVE  Pinned'
  BY <1>15 DEF VisitMeet, Refuses, Pin
<1>16. CASE Rekey
  BY <1>16 DEF Rekey
<1>17. CASE UNCHANGED vars
  BY <1>17 DEF vars
<1>18. QED
  BY <1>1, <1>2, <1>3, <1>4, <1>5, <1>6, <1>7, <1>8, <1>9, <1>10, <1>11, <1>12,
     <1>13, <1>14, <1>15, <1>16, <1>17 DEF Next

(* A good setup stays good, or is a failed re-trust away from it. *)
LEMMA GoodSetupStep ==
    /\ "retrust" \notin Interrupts
    /\ TypeOK /\ LoadedKnown /\ OnlyRetrustForgets /\ GoodSetup
    /\ [Next]_vars
    => GoodSetup'
<1> SUFFICES ASSUME "retrust" \notin Interrupts, TypeOK, LoadedKnown, OnlyRetrustForgets,
                    GoodSetup, [Next]_vars
             PROVE  GoodSetup'
  OBVIOUS
<1> USE KeyAssumption DEF OnlyRetrustForgets, GoodSetup, Window, LoadedKnown,
              Goto, End, NoCommand, TypeOK, Command, Label, Recorded
<1>1. ASSUME NEW c \in Command, Begin(c)
      PROVE  GoodSetup'
  BY <1>1 DEF Begin
<1>2. CASE CompareOffer
  BY <1>2 DEF CompareOffer
<1>3. CASE ReadOffer
  <2>1. CASE End
    BY <1>3, <2>1 DEF ReadOffer
  <2>2. CASE cli' = [cli EXCEPT !.key = answering, !.pc = "record"]
    BY <1>3, <2>2 DEF ReadOffer
  <2>3. QED
    BY <1>3, <2>1, <2>2 DEF ReadOffer
<1>4. CASE RecordOffer
  BY <1>4 DEF RecordOffer
<1>5. CASE Prompt
  BY <1>5 DEF Prompt
<1>6. CASE Forget
  BY <1>6 DEF Forget
<1>7. CASE Load
  BY <1>7 DEF Load, Loaded
<1>8. CASE Meet
  <2>1. CASE Refuses(cli.key) /\ Failed = "idle"
    BY <1>8, <2>1 DEF Meet, Refuses, Fail
  <2>2. CASE Refuses(cli.key) /\ Failed # "idle"
    BY <1>8, <2>2 DEF Meet, Fail, Failed
  <2>3. CASE ~Refuses(cli.key)
    BY <1>8, <2>3 DEF Meet, Refuses, Pin
  <2>4. QED
    BY <2>1, <2>2, <2>3
<1>9. CASE Append
  BY <1>9 DEF Append
<1>10. CASE InstallFails
  <2>1. authorized' \in BOOLEAN /\ (authorized => authorized')
    BY <1>10, Zenon DEF InstallFails
  <2>2. CASE Failed = "idle"
    BY <1>10, <2>1, <2>2 DEF InstallFails, Fail, Failed
  <2>3. CASE Failed # "idle"
    BY <1>10, <2>1, <2>3 DEF InstallFails, Fail, Failed
  <2>4. QED
    BY <2>2, <2>3
<1>11. CASE PutBack
  BY <1>11 DEF PutBack
<1>12. CASE Check
  BY <1>12 DEF Check, Refuses, Pin
<1>13. CASE GiveUp
  BY <1>13 DEF GiveUp
<1>14. ASSUME NEW v \in Visitor, VisitLoad(v)
      PROVE  GoodSetup'
  BY <1>14 DEF VisitLoad, Loaded
<1>15. ASSUME NEW v \in Visitor, VisitMeet(v)
      PROVE  GoodSetup'
  BY <1>15 DEF VisitMeet, Refuses, Pin
<1>16. CASE Rekey
  BY <1>16 DEF Rekey
<1>17. CASE UNCHANGED vars
  BY <1>17 DEF vars
<1>18. QED
  BY <1>1, <1>2, <1>3, <1>4, <1>5, <1>6, <1>7, <1>8, <1>9, <1>10, <1>11, <1>12,
     <1>13, <1>14, <1>15, <1>16, <1>17 DEF Next

-----------------------------------------------------------------------------
(* A tablet not yet set up. *)
LEMMA InitInvariant == Init => IInv
<1> SUFFICES ASSUME Init PROVE IInv
  OBVIOUS
<1> USE KeyAssumption, BoundAssumption DEF Init, NoCommand
<1>1. TypeOK
  <2>1. cli \in [cmd : Command, pc : Label, known : Recorded, key : Recorded, met : Recorded]
    BY DEF Command, Label, Recorded
  <2>2. visit \in [Visitor -> Recorded \cup {"idle"}]
    OBVIOUS
  <2>3. rekeys \in 0..MaxRekeys /\ answering \in Key /\ store \in Recorded
    BY DEF Recorded
  <2>4. ready \in BOOLEAN /\ authorized \in BOOLEAN /\ cli.pc = "idle"
    BY Zenon
  <2>5. QED
    BY <2>1, <2>2, <2>3, <2>4, Zenon DEF TypeOK
<1>2. OnlyRetrustForgets /\ SetupPinned /\ LoadedKnown /\ Pinned /\ GoodSetup
  BY DEF OnlyRetrustForgets, SetupPinned, LoadedKnown, Pinned, GoodSetup
<1>3. QED
  BY <1>1, <1>2 DEF IInv, Kept

-----------------------------------------------------------------------------
(* Each conjunct by its own lemma. *)
LEMMA KeptStep == Kept /\ [Next]_vars => Kept'
  BY TypeStep, RetrustStep, SetupPinnedStep, LoadedKnownStep, PinnedStep DEF Kept

(* So it holds in every reachable state. *)
LEMMA KeptInvariant == Spec => []Kept
<1>1. Init => Kept
  BY InitInvariant DEF IInv, Kept
<1>2. QED
  BY <1>1, KeptStep, PTL DEF Spec

(* The variables keep their types in every behaviour; hostkey.record is    *)
(* given a key, never the absence of one.                                  *)
THEOREM TypeCorrect == Spec => []TypeOK
<1>1. Kept => TypeOK
  BY DEF Kept
<1>2. QED
  BY <1>1, KeptInvariant, PTL

(* A plain setup sends the root password only to the host whose key was on *)
(* record when it began, whatever resets and web connections come between, *)
(* and even if it is interrupted.                                          *)
THEOREM PasswordSafe == Spec => []PasswordToPinned
<1>1. Kept => PasswordToPinned
  BY DEF Kept, SetupPinned, PasswordToPinned
<1>2. QED
  BY <1>1, KeptInvariant, PTL

(* If no re-trust is interrupted, a setup that succeeded stays good until  *)
(* the tablet changes.                                                     *)
THEOREM SetupLasts == "retrust" \notin Interrupts /\ Spec => []StaysReady
<1> SUFFICES ASSUME "retrust" \notin Interrupts PROVE Spec => []StaysReady
  OBVIOUS
<1>1. IInv /\ [Next]_vars => IInv'
  BY KeptStep, GoodSetupStep DEF IInv, Kept
<1>2. IInv => StaysReady
  BY DEF IInv, Kept, GoodSetup, StaysReady, Window
<1>3. QED
  BY <1>1, <1>2, InitInvariant, PTL DEF Spec

(* If no re-trust is interrupted, no command that knew a key ends with     *)
(* none recorded.                                                          *)
THEOREM FailurePins == "retrust" \notin Interrupts /\ Spec => NeverUnpinned
<1> SUFFICES ASSUME "retrust" \notin Interrupts PROVE Spec => NeverUnpinned
  OBVIOUS
<1>1. Kept /\ [Next]_vars =>
          [cli.pc # "idle" /\ cli'.pc = "idle" /\ cli.known # NoKey => store' # NoKey]_vars
  <2> SUFFICES ASSUME Kept, Next, cli.pc # "idle", cli'.pc = "idle", cli.known # NoKey
               PROVE  store' # NoKey
    BY DEF vars
  <2> USE KeyAssumption DEF Kept, TypeOK, Recorded, Command, Label, Goto, End, NoCommand
  <2>1. CASE CompareOffer \/ ReadOffer \/ Prompt
    BY <2>1 DEF CompareOffer, ReadOffer, Prompt, Pinned, Window
  <2>2. CASE RecordOffer
    BY <2>2 DEF RecordOffer
  <2>3. CASE Meet
    BY <2>3 DEF Meet, Refuses, Fail, Failed, LoadedKnown, Pinned, Window
  <2>4. CASE InstallFails
    BY <2>4 DEF InstallFails, Fail, Failed, Pinned, Window
  <2>5. CASE PutBack
    BY <2>5 DEF PutBack
  <2>6. CASE Check
    BY <2>6 DEF Check, Refuses, Pin, Pinned, Window
  <2>7. CASE GiveUp
    BY <2>7 DEF GiveUp, Pinned, Window
  <2>8. CASE Forget \/ Load \/ Append
    BY <2>8 DEF Forget, Load, Append
  <2>9. CASE \E c \in Command : Begin(c)
    BY <2>9 DEF Begin
  <2>10. CASE Rekey \/ \E v \in Visitor : VisitLoad(v) \/ VisitMeet(v)
    BY <2>10 DEF Rekey, VisitLoad, VisitMeet
  <2>11. QED
    BY <2>1, <2>2, <2>3, <2>4, <2>5, <2>6, <2>7, <2>8, <2>9, <2>10 DEF Next
<1>2. QED
  BY <1>1, KeptInvariant, PTL DEF Spec, NeverUnpinned
=============================================================================
