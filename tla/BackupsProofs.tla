--------------------------- MODULE BackupsProofs ---------------------------
(* Theorems about Backups, for any computers, screens and images. *)
EXTENDS Backups, FiniteSetTheorems, TLAPS

Stage == {"capture", "intent", "final"}

SessionType == [kind : Kind, image : Image, at : Screen, pc : Label,
                mem : Manifest, arrived : BOOLEAN, todo : SUBSET Screen,
                data : Image \cup {None}, stage : Stage]

(* A session that has ended, or has not begun. *)
LEMMA NoSessionTyped == NoSession \in SessionType /\ Empty \in Manifest
<1>1. (CHOOSE p \in Screen : TRUE) \in Screen
  BY ScreenAssumption
<1>2. Empty \in Manifest
  BY DEF Empty, Manifest
<1> QED BY <1>1, <1>2 DEF NoSession, SessionType, Kind, Image, Label, Stage

(* Going on, going to the next screen and ending keep the sessions typed. *)
LEMMA MoveTyped ==
    ASSUME ses \in [Session -> SessionType], NEW s \in Session
    PROVE  /\ End(s) => ses' \in [Session -> SessionType]
           /\ NextOrEnd(s) => ses' \in [Session -> SessionType]
           /\ \A l \in Label : Goto(s, l) => ses' \in [Session -> SessionType]
<1>1. ses[s] \in SessionType
  OBVIOUS
<1>2. \A l \in Label : Goto(s, l) => ses' \in [Session -> SessionType]
  BY <1>1 DEF Goto, SessionType
<1>3. End(s) => ses' \in [Session -> SessionType]
  BY NoSessionTyped DEF End
<1>4. NextOrEnd(s) => ses' \in [Session -> SessionType]
  BY <1>1, <1>3 DEF NextOrEnd, SessionType, Label
<1> QED BY <1>2, <1>3, <1>4

(* Writing a picture to a computer. *)
LEMMA PngTyped ==
    ASSUME hostPng \in [Host -> [Screen -> File]], NEW h \in Host, NEW p \in Screen,
           NEW x \in File, hostPng' = [hostPng EXCEPT ![h][p] = x]
    PROVE  hostPng' \in [Host -> [Screen -> File]]
OBVIOUS

(* What the typing of a later write rests on: custom images are only        *)
(* applied, and whoever is about to write has an image in hand.             *)
Asked == \A s \in Session :
    /\ ses[s].kind = "apply" <=> ses[s].image \in Custom
    /\ ses[s].pc = "write" \/ (ses[s].pc \in {"savehost", "savedev"} /\ ses[s].stage = "intent")
           => ses[s].data # None

(* One step per action; the manifest in memory is the only one that is saved. *)
LEMMA StepTyped ==
    ASSUME TypeOK, Asked, NEW s \in Session, Step(s)
    PROVE  TypeOK'
<1> DEFINE h == HostOf[s]
<1>0. /\ ses \in [Session -> SessionType] /\ ses[s] \in SessionType /\ h \in Host
      /\ Image \subseteq File /\ {None, Torn} \subseteq File
  BY HostAssumption DEF TypeOK, SessionType, Stage, File
<1>1. /\ ses[s].mem \in Manifest /\ ses[s].at \in Screen /\ ses[s].data \in Image \cup {None}
      /\ ses[s].todo \subseteq Screen /\ ses[s].image \in Image /\ ses[s].kind \in Kind
  BY <1>0 DEF SessionType
<1>2. /\ End(s) => ses' \in [Session -> SessionType]
      /\ NextOrEnd(s) => ses' \in [Session -> SessionType]
      /\ \A l \in Label : Goto(s, l) => ses' \in [Session -> SessionType]
  BY <1>0, MoveTyped
<1>3. ASSUME UNCHANGED <<tablet, device, computer>>, ses' \in [Session -> SessionType]
      PROVE  TypeOK'
  BY <1>3 DEF tablet, device, computer, TypeOK, SessionType, Stage
<1>4. ASSUME UNCHANGED <<tablet, device, hostMan>>, ses' \in [Session -> SessionType],
             hostPng' \in [Host -> [Screen -> File]]
      PROVE  TypeOK'
  BY <1>4 DEF tablet, device, TypeOK, SessionType, Stage
<1>l. {"load", "pick", "hash", "read", "hostpng", "devpng", "savehost", "savedev", "stock",
       "write", "sync", "look", "idle"} \subseteq Label
  BY DEF Label
<1>5. CASE Start(s)
  <2>1. ses' \in [Session -> SessionType]
    BY <1>0, <1>5, <1>l, KindAssumption DEF Start, SessionType
  <2> QED BY <1>3, <1>5, <2>1 DEF Start
<1>6. CASE LoadManifest(s)
  <2>1. \A m \in Manifest : Entry(s, m) \in Label
    BY <1>l DEF Entry
  <2>2. Scope(s) \in SUBSET Screen
    BY DEF Scope
  <2> DEFINE m == IF devMan # None THEN devMan
                  ELSE IF hostMan[h] # None THEN hostMan[h] ELSE Empty
  <2>3. m \in Manifest
    BY <1>0, NoSessionTyped DEF TypeOK
  <2> HIDE DEF m
  <2>4. \/ ses' = [ses EXCEPT ![s].mem = m, ![s].arrived = (m = Empty), ![s].pc = "sync",
                             ![s].todo = {p \in Screen : m.stock[p] # None}]
        \/ ses' = [ses EXCEPT ![s].mem = m, ![s].arrived = (m = Empty), ![s].pc = Entry(s, m),
                             ![s].todo = Scope(s)]
    BY <1>0, <1>6 DEF LoadManifest, SessionType, m
  <2>5. ses' \in [Session -> SessionType]
    BY <1>0, <1>l, <2>1, <2>2, <2>3, <2>4 DEF SessionType
  <2> QED BY <1>3, <1>6, <2>5 DEF LoadManifest
<1>7. CASE SyncPicture(s)
  <2>1. PICK p \in ses[s].todo :
            \/ ses' = [ses EXCEPT ![s].todo = @ \ {p}] /\ UNCHANGED hostPng
            \/ /\ ses' = [ses EXCEPT ![s].todo = @ \ {p}]
               /\ hostPng' = [hostPng EXCEPT ![h][p] = devPng[p]]
            \/ End(s) /\ UNCHANGED hostPng
    BY <1>7 DEF SyncPicture
  <2>2. ses' \in [Session -> SessionType]
    BY <1>0, <1>1, <1>2, <2>1 DEF SessionType
  <2>3. hostPng' \in [Host -> [Screen -> File]]
    <3>1. CASE hostPng' = [hostPng EXCEPT ![h][p] = devPng[p]]
      BY <1>0, <1>1, <3>1, PngTyped DEF TypeOK
    <3>2. CASE UNCHANGED hostPng
      BY <3>2 DEF TypeOK
    <3> QED BY <2>1, <3>1, <3>2
  <2> QED BY <1>4, <1>7, <2>2, <2>3 DEF SyncPicture
<1>8. CASE SyncManifest(s) \/ SaveHost(s)
  <2>1. Entry(s, ses[s].mem) \in Label /\ Scope(s) \in SUBSET Screen
    BY <1>l DEF Entry, Scope
  <2>2. ses' \in [Session -> SessionType]
    BY <1>0, <1>2, <1>l, <1>8, <2>1 DEF SyncManifest, SaveHost, SessionType
  <2>3. hostMan' \in [Host -> Manifest \cup {None}]
    BY <1>0, <1>1, <1>8 DEF SyncManifest, SaveHost, TypeOK
  <2> QED BY <1>8, <2>2, <2>3 DEF SyncManifest, SaveHost, tablet, device, TypeOK, SessionType, Stage
<1>9. CASE Look(s) \/ SkipRestore(s) \/ Stop(s)
  BY <1>2, <1>3, <1>9 DEF Look, SkipRestore, Stop
<1>10. CASE PickCapture(s)
  <2>1. \/ \E p \in Screen : ses' = [ses EXCEPT ![s].at = p, ![s].pc = "hash"]
        \/ \E p \in Screen : ses' = [ses EXCEPT ![s].todo = @ \ {p}]
        \/ ses' = [ses EXCEPT ![s].pc = "savehost", ![s].stage = "final"]
    BY <1>1, <1>10 DEF PickCapture
  <2>2. ses' \in [Session -> SessionType]
    <3>1. CASE \E p \in Screen : ses' = [ses EXCEPT ![s].at = p, ![s].pc = "hash"]
      <4>1. PICK p \in Screen : ses' = [ses EXCEPT ![s].at = p, ![s].pc = "hash"]
        BY <3>1
      <4> QED BY <1>0, <1>l, <4>1 DEF SessionType
    <3>2. CASE \E p \in Screen : ses' = [ses EXCEPT ![s].todo = @ \ {p}]
      BY <1>0, <1>1, <3>2 DEF SessionType
    <3>3. CASE ses' = [ses EXCEPT ![s].pc = "savehost", ![s].stage = "final"]
      BY <1>0, <1>l, <3>3 DEF SessionType, Stage
    <3> QED BY <2>1, <3>1, <3>2, <3>3
  <2> QED BY <1>3, <1>10, <2>2 DEF PickCapture
<1>11. CASE HashScreen(s)
  <2>1. ses' \in [Session -> SessionType]
    <3>1. screen[ses[s].at] \in Image
      BY <1>1 DEF TypeOK
    <3> QED BY <1>0, <1>2, <1>l, <1>11, <3>1 DEF HashScreen, SessionType
  <2> QED BY <1>3, <1>11, <2>1 DEF HashScreen
<1>12. CASE ReadScreen(s)
  BY <1>2, <1>3, <1>l, <1>12 DEF ReadScreen
<1>13. CASE CaptureToHost(s)
  <2>1. hostPng' \in [Host -> [Screen -> File]]
    BY <1>0, <1>1, <1>13 DEF CaptureToHost, TypeOK
  <2> QED BY <1>2, <1>4, <1>l, <1>13, <2>1 DEF CaptureToHost
<1>14. CASE CaptureToDevice(s)
  <2>1. devPng' \in [Screen -> File]
    BY <1>0, <1>1, <1>14 DEF CaptureToDevice, TypeOK
  <2>2. [ses[s].mem EXCEPT !.stock[ses[s].at] = ses[s].data] \in Manifest
    BY <1>1 DEF Manifest
  <2>3. ses' = [ses EXCEPT ![s] = [ses[s] EXCEPT
                    !.mem = [ses[s].mem EXCEPT !.stock[ses[s].at] = ses[s].data],
                    !.pc = "savehost", !.stage = "capture"]]
    BY <1>0, <1>14 DEF CaptureToDevice, SessionType
  <2>4. ses' \in [Session -> SessionType]
    BY <1>0, <1>l, <2>2, <2>3 DEF SessionType, Stage
  <2> QED BY <1>14, <2>1, <2>4 DEF CaptureToDevice, tablet, computer, TypeOK, SessionType, Stage
<1>15. CASE SaveDevice(s)
  <2>1. ses' \in [Session -> SessionType]
    BY <1>2, <1>l, <1>15 DEF SaveDevice
  <2>2. devMan' \in Manifest
    BY <1>1, <1>15 DEF SaveDevice
  <2> QED BY <1>15, <2>1, <2>2 DEF SaveDevice, tablet, computer, TypeOK, SessionType, Stage
<1>16. CASE NoteApplied(s)
  <2>1. CASE End(s)
    BY <1>2, <1>3, <1>16, <2>1 DEF NoteApplied
  <2>2. CASE ses' = [ses EXCEPT ![s].mem.applied = @ \cup {ses[s].image},
                                ![s].data = ses[s].image,
                                ![s].stage = "intent", ![s].pc = "savehost"]
    <3>1. ses[s].image \in Custom
      BY <1>16 DEF NoteApplied, Asked
    <3>2. [ses[s].mem EXCEPT !.applied = @ \cup {ses[s].image}] \in Manifest
      BY <1>1, <3>1 DEF Manifest
    <3>3. ses' = [ses EXCEPT ![s] = [ses[s] EXCEPT
                      !.mem = [ses[s].mem EXCEPT !.applied = @ \cup {ses[s].image}],
                      !.data = ses[s].image, !.stage = "intent", !.pc = "savehost"]]
      BY <1>0, <2>2 DEF SessionType
    <3>4. ses' \in [Session -> SessionType]
      BY <1>0, <1>1, <1>l, <3>2, <3>3 DEF SessionType, Stage
    <3> QED BY <1>3, <1>16, <3>4 DEF NoteApplied
  <2> QED BY <1>16, <2>1, <2>2 DEF NoteApplied
<1>17. CASE PickRestore(s)
  <2>1. \/ \E p \in Screen : ses' = [ses EXCEPT ![s].at = p, ![s].pc = "stock"]
        \/ \E p \in Screen : ses' = [ses EXCEPT ![s].todo = @ \ {p}]
        \/ End(s)
    BY <1>1, <1>17 DEF PickRestore
  <2>2. ses' \in [Session -> SessionType]
    <3>1. CASE \E p \in Screen : ses' = [ses EXCEPT ![s].at = p, ![s].pc = "stock"]
      <4>1. PICK p \in Screen : ses' = [ses EXCEPT ![s].at = p, ![s].pc = "stock"]
        BY <3>1
      <4> QED BY <1>0, <1>l, <4>1 DEF SessionType
    <3>2. CASE \E p \in Screen : ses' = [ses EXCEPT ![s].todo = @ \ {p}]
      BY <1>0, <1>1, <3>2 DEF SessionType
    <3> QED BY <1>2, <2>1, <3>1, <3>2
  <2> QED BY <1>3, <1>17, <2>2 DEF PickRestore
<1>18. CASE FetchStock(s)
  <2>1. ses[s].mem.stock[ses[s].at] \in Image \cup {None}
    BY <1>1 DEF Manifest
  <2>2. ses' \in [Session -> SessionType]
    BY <1>0, <1>2, <1>l, <1>18, <2>1 DEF FetchStock, Verified, SessionType
  <2> QED BY <1>3, <1>18, <2>2 DEF FetchStock
<1>19. CASE WriteScreen(s)
  <2>1. ses' \in [Session -> SessionType]
    BY <1>2, <1>19 DEF WriteScreen
  <2>2. ses[s].data \in Image
    BY <1>1, <1>19 DEF WriteScreen, Asked
  <2>3. screen' \in [Screen -> Image] /\ touched' \in [Screen -> BOOLEAN]
    BY <1>1, <1>19, <2>2 DEF WriteScreen, TypeOK
  <2> QED BY <1>19, <2>1, <2>3 DEF WriteScreen, device, computer, TypeOK, SessionType, Stage
<1>20. CASE StopWriting(s)
  <2>0. PICK p \in Screen : hostPng' = [hostPng EXCEPT ![h][p] = Torn]
    BY <1>1, <1>20 DEF StopWriting
  <2>1. hostPng' \in [Host -> [Screen -> File]]
    BY <1>0, <2>0, PngTyped DEF TypeOK
  <2> QED BY <1>2, <1>4, <1>20, <2>1 DEF StopWriting
<1> QED BY <1>5, <1>6, <1>7, <1>8, <1>9, <1>10, <1>11, <1>12, <1>13, <1>14, <1>15, <1>16,
           <1>17, <1>18, <1>19, <1>20 DEF Step

(* Asked is kept by every step: only NoteApplied and FetchStock bring a     *)
(* session before a write, and each puts an image in its hand.              *)
LEMMA StepAsked ==
    ASSUME TypeOK, Asked, NEW s \in Session, Step(s)
    PROVE  Asked'
<1>0. ses \in [Session -> SessionType] /\ ses[s] \in SessionType
  BY DEF TypeOK, SessionType, Stage
<1>n. NoSession.kind = "status" /\ NoSession.image = Stock /\ NoSession.pc = "idle"
  BY DEF NoSession
<1>m. None \notin Custom /\ Stock \notin Custom /\ None \notin Image
  BY ImageAssumption DEF Image
<1> DEFINE Ready(r) == /\ r.kind = "apply" <=> r.image \in Custom
                       /\ r.pc = "write" \/ (r.pc \in {"savehost", "savedev"}
                                             /\ r.stage = "intent") => r.data # None
           Onward(r) == r.kind = ses[s].kind /\ r.image = ses[s].image /\ r.pc \notin {"write"}
                        /\ (r.pc \in {"savehost", "savedev"} => r.stage # "intent")
<1>a. Ready(ses[s]) /\ ses[s].image # None
  BY <1>0, <1>m DEF Asked, SessionType
<1>b. Ready(NoSession)
  BY <1>m, <1>n
<1>c. \A r : Onward(r) => Ready(r)
  BY <1>a
<1>d. End(s) => Ready(ses'[s])
  BY <1>0, <1>b DEF End
<1>e. NextOrEnd(s) => Ready(ses'[s])
  <2>1. CASE IsBatch(s)
    BY <1>0, <1>a, <2>1 DEF NextOrEnd, SessionType
  <2>2. CASE ~IsBatch(s)
    BY <1>d, <2>2 DEF NextOrEnd
  <2> QED BY <2>1, <2>2
<1>f. \A m : Entry(s, m) \in {"pick", "stock", "hash", "look"}
  BY DEF Entry
<1>1. SUFFICES Ready(ses'[s])
  <2>1. \A t \in Session \ {s} : ses'[t] = ses[t]
    BY <1>0 DEF Step, Start, LoadManifest, SyncPicture, SyncManifest, Look, PickCapture,
       HashScreen, ReadScreen, CaptureToHost, CaptureToDevice, SaveHost, SaveDevice,
       NoteApplied, PickRestore, FetchStock, WriteScreen, SkipRestore, Stop, StopWriting,
       Goto, End, NextOrEnd
  <2> QED BY <2>1 DEF Asked
<1>2. CASE Start(s)
  BY <1>0, <1>2 DEF Start, SessionType
<1>3. CASE LoadManifest(s)
  <2> DEFINE m == IF devMan # None THEN devMan
                  ELSE IF hostMan[HostOf[s]] # None THEN hostMan[HostOf[s]] ELSE Empty
  <2> HIDE DEF m
  <2>1. \/ ses' = [ses EXCEPT ![s].mem = m, ![s].arrived = (m = Empty), ![s].pc = "sync",
                             ![s].todo = {p \in Screen : m.stock[p] # None}]
        \/ ses' = [ses EXCEPT ![s].mem = m, ![s].arrived = (m = Empty), ![s].pc = Entry(s, m),
                             ![s].todo = Scope(s)]
    BY <1>0, <1>3 DEF LoadManifest, SessionType, m
  <2>2. Entry(s, m) \in {"pick", "stock", "hash", "look"}
    BY <1>f
  <2>3. Onward(ses'[s])
    BY <1>0, <2>1, <2>2 DEF SessionType
  <2> QED BY <1>c, <2>3
<1>4. CASE SyncPicture(s) \/ StopWriting(s) \/ Look(s) \/ Stop(s)
  <2>1. CASE \E p \in Screen : ses' = [ses EXCEPT ![s].todo = @ \ {p}]
    BY <1>0, <1>a, <2>1 DEF SessionType
  <2> QED BY <1>0, <1>4, <1>d, <2>1 DEF SyncPicture, StopWriting, Look, Stop, SessionType
<1>5. CASE SyncManifest(s)
  <2>1. Onward(ses'[s])
    BY <1>0, <1>5, <1>f DEF SyncManifest, SessionType
  <2> QED BY <1>c, <2>1
<1>6. CASE PickCapture(s) \/ PickRestore(s)
  <2>1. CASE \E p \in Screen : \E l \in {"hash", "stock"} :
                  ses' = [ses EXCEPT ![s].at = p, ![s].pc = l]
    BY <1>0, <1>a, <2>1 DEF SessionType
  <2>2. CASE \E p \in Screen : ses' = [ses EXCEPT ![s].todo = @ \ {p}]
    BY <1>0, <1>a, <2>2 DEF SessionType
  <2>3. CASE ses' = [ses EXCEPT ![s].pc = "savehost", ![s].stage = "final"]
    BY <1>0, <1>a, <2>3 DEF SessionType
  <2> QED BY <1>0, <1>6, <1>d, <2>1, <2>2, <2>3 DEF PickCapture, PickRestore, SessionType
<1>7. CASE HashScreen(s) \/ ReadScreen(s) \/ CaptureToHost(s) \/ CaptureToDevice(s)
  <2>1. \/ NextOrEnd(s)
        \/ Onward(ses'[s])
    BY <1>0, <1>7 DEF HashScreen, ReadScreen, CaptureToHost, CaptureToDevice, Goto, SessionType
  <2> QED BY <1>c, <1>e, <2>1
<1>8. CASE SaveHost(s) \/ SaveDevice(s)
  BY <1>0, <1>8, <1>a, <1>d, <1>e DEF SaveHost, SaveDevice, Goto, SessionType
<1>9. CASE NoteApplied(s)
  BY <1>0, <1>9, <1>a, <1>d DEF NoteApplied, SessionType
<1>10. CASE FetchStock(s)
  BY <1>0, <1>10, <1>a, <1>e DEF FetchStock, Verified, SessionType
<1>11. CASE WriteScreen(s) \/ SkipRestore(s)
  BY <1>11, <1>e DEF WriteScreen, SkipRestore
<1> QED BY <1>2, <1>3, <1>4, <1>5, <1>6, <1>7, <1>8, <1>9, <1>10, <1>11 DEF Step

-----------------------------------------------------------------------------
Typed == TypeOK /\ Asked

LEMMA InitTyped == Init => Typed
<1> SUFFICES ASSUME Init PROVE Typed
  OBVIOUS
<1>1. /\ screen \in [Screen -> Image] /\ touched \in [Screen -> BOOLEAN]
      /\ devPng \in [Screen -> File] /\ hostPng \in [Host -> [Screen -> File]]
  BY DEF Init, File, Image
<1>2. ses \in [Session -> SessionType]
  BY NoSessionTyped DEF Init
<1>3. Asked
  BY ImageAssumption DEF Init, Asked, NoSession
<1> QED BY <1>1, <1>2, <1>3 DEF Init, Typed, TypeOK, SessionType, Stage

LEMMA TypedAlways == Spec => []Typed
<1>1. Typed /\ [Next]_vars => Typed'
  <2> SUFFICES ASSUME Typed, [Next]_vars PROVE Typed'
    OBVIOUS
  <2>1. CASE \E s \in Session : Step(s)
    BY <2>1, StepTyped, StepAsked DEF Typed
  <2>2. CASE FactoryReset
    <3>1. ses' \in [Session -> SessionType] /\ devPng' \in [Screen -> File]
      BY <2>2, NoSessionTyped DEF FactoryReset, File
    <3>2. Asked'
      BY <2>2, ImageAssumption DEF FactoryReset, Asked, NoSession
    <3> QED BY <2>2, <3>1, <3>2 DEF Typed, FactoryReset, TypeOK, tablet, computer, SessionType, Stage
  <2>3. CASE Damage
    <3>1. devPng' \in [Screen -> File] /\ hostPng' \in [Host -> [Screen -> File]]
      <4>1. PICK p \in Screen, c \in Host \cup {None} :
                \/ devPng' = [devPng EXCEPT ![p] = Torn] /\ UNCHANGED hostPng
                \/ c \in Host /\ hostPng' = [hostPng EXCEPT ![c][p] = Torn] /\ UNCHANGED devPng
        BY <2>3 DEF Damage, Copies
      <4> QED BY <4>1, PngTyped DEF Typed, TypeOK, File
    <3> QED BY <2>3, <3>1 DEF Typed, Damage, TypeOK, Asked, tablet, SessionType, Stage
  <2>4. CASE UNCHANGED vars
    BY <2>4 DEF vars, Typed, TypeOK, Asked
  <2> QED BY <2>1, <2>2, <2>3, <2>4 DEF Next
<1> QED BY <1>1, InitTyped, PTL DEF Spec

(* Type correctness: every manifest, picture and step a session reaches.   *)
THEOREM TypeCorrect == Spec => []TypeOK
<1>1. Typed => TypeOK
  BY DEF Typed
<1> QED BY <1>1, TypedAlways, PTL
=============================================================================
