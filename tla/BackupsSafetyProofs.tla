------------------------ MODULE BackupsSafetyProofs ------------------------
(***************************************************************************)
(* What the backups promise, for any screens, images, crashes and refusals.*)
(* When one operation runs at a time (Alone): no laundering, no stock art  *)
(* lost, intent recorded before the write, entries and pictures written    *)
(* once, and the promise of Vault; a tablet that may be factory reset has  *)
(* one computer, and then nothing else damages copies.  When sessions of   *)
(* several computers overlap on one screen whose mtime can be read         *)
(* (FirstMeeting): no laundering, no stock art lost, pictures written once,*)
(* and the promise of Vault again, factory resets included.                *)
(***************************************************************************)
EXTENDS BackupsProofs

Alone == ~Overlap /\ (Resets => (\A a, b \in Host : a = b) /\ ~Damages)

Open(r) == r.pc \notin {"idle", "load"}
Synced(r) == r.pc \notin {"idle", "load", "sync"}

Honest(m) == \A p \in Screen : m.stock[p] \in {None, Stock}
Recorded(m, p) == m # None /\ m.stock[p] # None
Known(m, i) == m # None /\ i \in m.applied

(* A copy that a factory reset would leave. *)
HasCopy(p) == (devPng[p] = Stock /\ ~Resets) \/ \E h \in Host : hostPng[h][p] = Stock

-----------------------------------------------------------------------------
(* What is stored, whatever the sessions are doing: honest manifests; each *)
(* custom image on a screen known to the manifest that will be loaded, and *)
(* a copy of what it replaced; and, where the tablet may be reset, nothing *)
(* recorded whose picture the computer lacks.                              *)
StoredHonest == /\ devMan # None => Honest(devMan)
                /\ \A h \in Host : hostMan[h] # None => Honest(hostMan[h])
CustomKnown == \A p \in Screen : screen[p] \in Custom =>
    /\ devMan # None \/ Resets
    /\ devMan # None => screen[p] \in devMan.applied
    /\ Resets => \E h \in Host : Known(hostMan[h], screen[p])
CustomCopied == \A p \in Screen : screen[p] # Stock => HasCopy(p)
RecordedPictured == Resets => \A p \in Screen, h \in Host :
    Recorded(devMan, p) \/ Recorded(hostMan[h], p) => hostPng[h][p] = Stock

Stored == StoredHonest /\ CustomKnown /\ CustomCopied /\ RecordedPictured

(* What a session r of computer h has in memory: an honest manifest that   *)
(* knows every custom image and has every entry that is stored.            *)
Aware(r) == Open(r) => \A p \in Screen : screen[p] \in Custom => screen[p] \in r.mem.applied
Pictured(r, h) == Resets => \A p \in Screen : r.mem.stock[p] = Stock => hostPng[h][p] = Stock
UpToDate(r, h) == \A p \in Screen :
    /\ Open(r) /\ Recorded(devMan, p) => r.mem.stock[p] = Stock
    /\ Resets /\ Synced(r) /\ Recorded(hostMan[h], p) => r.mem.stock[p] = Stock

(* And where it is: what it read is stock art; before a custom image goes  *)
(* on a screen there is a copy of what it replaces, and its hash is noted. *)
Progress(r, h) ==
    /\ r.pc = "sync" => r.todo \subseteq {p \in Screen : r.mem.stock[p] # None}
    /\ r.pc = "hash" => r.mem.stock[r.at] = None
    /\ r.pc \in {"read", "hostpng", "devpng"} =>
           r.data = Stock /\ screen[r.at] = Stock /\ r.mem.stock[r.at] = None
    /\ r.pc = "devpng" => hostPng[h][r.at] = Stock
    /\ r.pc \in {"savehost", "savedev"} /\ r.stage = "intent" =>
           /\ r.kind = "apply" /\ r.data = r.image /\ r.image \in r.mem.applied
           /\ HasCopy(r.at)
           /\ r.pc = "savedev" => Known(hostMan[h], r.image)
    /\ r.pc = "write" =>
           /\ HasCopy(r.at)
           /\ \/ r.data = Stock
              \/ /\ r.kind = "apply" /\ r.data = r.image
                 /\ Known(devMan, r.image) /\ Known(hostMan[h], r.image)

Sound(r, h) == Honest(r.mem) /\ Aware(r) /\ Pictured(r, h) /\ UpToDate(r, h) /\ Progress(r, h)

(* One operation at a time. *)
Turns == /\ \A s \in Session : ses[s].pc = "idle" => ses[s] = NoSession
         /\ \A s, t \in Session : s # t => ses[s].pc = "idle" \/ ses[t].pc = "idle"

SafeInv == Typed /\ Turns /\ Stored /\ \A s \in Session : Sound(ses[s], HostOf[s])

-----------------------------------------------------------------------------
LEMMA Names == /\ None # Stock /\ Torn # Stock /\ Torn # None
               /\ Stock \notin Custom /\ None \notin Custom /\ None \notin Host
BY ImageAssumption DEF Image

LEMMA NoSessionIdle == NoSession.pc = "idle"
BY DEF NoSession

LEMMA NoSessionSound == ASSUME NEW h \in Host PROVE Sound(NoSession, h)
BY Names DEF Sound, NoSession, Honest, Empty, Aware, Open, Pictured, UpToDate, Synced, Progress

LEMMA NoSessionSoundNext == ASSUME NEW h \in Host PROVE Sound(NoSession, h)'
BY Names DEF Sound, NoSession, Honest, Empty, Aware, Open, Pictured, UpToDate, Synced, Progress

(* The frame of a step of s: the others have no session, and it is enough  *)
(* that its own next record r is sound.                                    *)
LEMMA Frame ==
    ASSUME SafeInv, Typed', NEW s \in Session, NEW r \in SessionType,
           ses[s].pc # "idle" \/ \A t \in Session : ses[t].pc = "idle",
           ses' = [ses EXCEPT ![s] = r], r.pc = "idle" => r = NoSession,
           Stored', Sound(r, HostOf[s])'
    PROVE  SafeInv'
<1>1. \A t \in Session \ {s} : ses[t] = NoSession /\ ses'[t] = NoSession
  BY DEF SafeInv, Turns, Typed, TypeOK
<1>2. ses'[s] = r
  BY DEF SafeInv, Typed, TypeOK
<1>3. NoSession.pc = "idle"
  BY DEF NoSession
<1>4. Turns'
  BY <1>1, <1>2, <1>3 DEF Turns
<1>5. \A t \in Session : HostOf[t] \in Host
  BY HostAssumption
<1>6. ASSUME NEW t \in Session
      PROVE  Sound(ses[t], HostOf[t])'
  <2>1. CASE t = s
    BY <1>2, <2>1
  <2>2. CASE t # s
    BY <1>1, <1>5, <2>2, NoSessionSoundNext
  <2> QED BY <2>1, <2>2
<1> QED BY <1>4, <1>6 DEF SafeInv

-----------------------------------------------------------------------------
(* Steps that touch no store, or only add a good copy of stock art. *)
Grows == /\ UNCHANGED <<screen, devMan, hostMan>>
         /\ \A p \in Screen : devPng[p] = Stock => devPng'[p] = Stock
         /\ \A g \in Host, p \in Screen : hostPng[g][p] = Stock => hostPng'[g][p] = Stock

LEMMA GrowsStored == ASSUME Stored, Grows PROVE Stored'
<1>1. \A p \in Screen : HasCopy(p) => HasCopy(p)'
  BY DEF HasCopy, Grows
<1>2. StoredHonest' /\ CustomKnown'
  BY DEF Grows, Stored, StoredHonest, CustomKnown, Known
<1>3. CustomCopied'
  BY <1>1 DEF Grows, Stored, CustomCopied
<1>4. RecordedPictured'
  BY DEF Grows, Stored, RecordedPictured, Recorded
<1> QED BY <1>2, <1>3, <1>4 DEF Stored

LEMMA GrowsSound ==
    ASSUME NEW r \in SessionType, NEW h \in Host, Sound(r, h), Grows
    PROVE  Sound(r, h)'
<1>0. r.at \in Screen
  BY DEF SessionType
<1>1. \A p \in Screen : HasCopy(p) => HasCopy(p)'
  BY DEF HasCopy, Grows
<1>2. Aware(r)' /\ Pictured(r, h)' /\ UpToDate(r, h)'
  BY DEF Grows, Sound, Aware, Pictured, UpToDate, Recorded
<1>3. HasCopy(r.at) => HasCopy(r.at)'
  BY <1>0, <1>1
<1>4. Progress(r, h)'
  BY <1>0, <1>3 DEF Grows, Sound, Progress, Known
<1> QED BY <1>2, <1>4 DEF Sound

LEMMA SameGrows == ASSUME UNCHANGED <<tablet, device, computer>> PROVE Grows
BY DEF tablet, device, computer, Grows

(* A store that is loaded and in line goes on to a label that asks nothing.*)
LEMMA Onward ==
    ASSUME NEW r \in SessionType, NEW q \in SessionType, NEW h \in Host,
           Sound(r, h), Synced(r), q.mem = r.mem,
           \/ q.pc \in {"pick", "stock", "look"}
           \/ q.pc \in {"savehost", "savedev"} /\ q.stage # "intent"
           \/ q.pc = "hash" /\ q.mem.stock[q.at] = None
    PROVE  Sound(q, h)
<1>1. Open(r)
  BY DEF Open, Synced
<1>2. Aware(q) /\ Pictured(q, h) /\ UpToDate(q, h)
  BY <1>1 DEF Sound, Aware, Pictured, UpToDate
<1>3. Progress(q, h)
  BY DEF Progress
<1> QED BY <1>2, <1>3 DEF Sound

(* What the next record of s is. *)
LEMMA Ends ==
    ASSUME Typed, NEW s \in Session, ses'[s] \in SessionType
    PROVE  /\ End(s) => ses'[s] = NoSession
           /\ NextOrEnd(s) =>
                 \/ ses'[s] = NoSession
                 \/ ses'[s].pc = "pick" /\ ses'[s].mem = ses[s].mem /\ IsBatch(s)
BY DEF End, NextOrEnd, Typed, TypeOK

(* The steps that change only the session, from a store that is in line. *)
LEMMA QuietSound ==
    ASSUME SafeInv, NEW s \in Session, NEW r \in SessionType, ses'[s] = r,
           ses' \in [Session -> SessionType],
           \/ Look(s) \/ PickCapture(s) \/ HashScreen(s) \/ ReadScreen(s)
           \/ NoteApplied(s) \/ PickRestore(s) \/ FetchStock(s) \/ SkipRestore(s) \/ Stop(s)
    PROVE  Sound(r, HostOf[s]) /\ (r.pc = "idle" => r = NoSession)
<1> DEFINE h == HostOf[s]
           m == ses[s]
<1>0. /\ h \in Host /\ m \in SessionType /\ Sound(m, h) /\ Typed
      /\ ses \in [Session -> SessionType]
      /\ \A p \in Screen : screen[p] \in Custom \cup {Stock}
  BY HostAssumption DEF SafeInv, Typed, TypeOK, SessionType, Stage, Image
<1>1. /\ m.at \in Screen /\ m.mem.stock[m.at] \in {None, Stock}
      /\ \A p \in Screen : m.mem.stock[p] \in {None, Stock}
  BY <1>0 DEF SessionType, Sound, Honest
<1>e. r = NoSession => Sound(r, h) /\ (r.pc = "idle" => r = NoSession)
  BY <1>0, NoSessionSound
<1>n. ASSUME Synced(m), NextOrEnd(s)
      PROVE  Sound(r, h) /\ (r.pc = "idle" => r = NoSession)
  <2>1. r = NoSession \/ (r.pc = "pick" /\ r.mem = m.mem)
    BY <1>0, <1>n, Ends
  <2> QED BY <1>0, <1>n, <1>e, <2>1, Onward
<1>2. CASE Look(s) \/ Stop(s)
  BY <1>0, <1>2, <1>e, Ends DEF Look, Stop
<1>3. CASE PickCapture(s)
  <2>1. Synced(m)
    BY <1>3 DEF PickCapture, Synced
  <2>2. r.mem = m.mem /\ (\/ r.pc = "hash" /\ m.mem.stock[r.at] = None
                          \/ r.pc = "pick"
                          \/ r.pc = "savehost" /\ r.stage = "final")
    <3>1. CASE \E p \in m.todo : m.mem.stock[p] = None
                    /\ ses' = [ses EXCEPT ![s].at = p, ![s].pc = "hash"]
      BY <1>0, <3>1 DEF SessionType
    <3>2. CASE \E p \in m.todo : ses' = [ses EXCEPT ![s].todo = @ \ {p}]
      BY <1>0, <1>3, <3>2 DEF SessionType, PickCapture
    <3>3. CASE ses' = [ses EXCEPT ![s].pc = "savehost", ![s].stage = "final"]
      BY <1>0, <3>3 DEF SessionType
    <3> QED BY <1>3, <3>1, <3>2, <3>3 DEF PickCapture
  <2> QED BY <1>0, <2>1, <2>2, Onward
<1>4. CASE HashScreen(s)
  <2>1. Synced(m) /\ Open(m) /\ m.pc = "hash"
    BY <1>4 DEF HashScreen, Synced, Open
  <2>2. CASE Refuses(s)
    BY <1>4, <1>n, <2>1, <2>2 DEF HashScreen
  <2>3. CASE ~Refuses(s)
    <3>1. /\ r.mem = m.mem /\ r.at = m.at /\ r.pc = "read" /\ r.data = screen[m.at]
      BY <1>0, <1>4, <2>3 DEF HashScreen, SessionType
    <3>2. screen[m.at] = Stock
      BY <1>0, <1>1, <2>1, <2>3 DEF Refuses, is_ours, Sound, Aware
    <3>3. m.mem.stock[m.at] = None
      BY <1>0, <2>1 DEF Sound, Progress
    <3>4. Aware(r) /\ Pictured(r, h) /\ UpToDate(r, h) /\ Honest(r.mem)
      BY <1>0, <2>1, <3>1 DEF Sound, Aware, Pictured, UpToDate
    <3> QED BY <3>1, <3>2, <3>3, <3>4 DEF Sound, Progress
  <2> QED BY <2>2, <2>3
<1>5. CASE ReadScreen(s)
  <2>1. Synced(m) /\ Open(m) /\ m.pc = "read"
    BY <1>5 DEF ReadScreen, Synced, Open
  <2>2. CASE NextOrEnd(s)
    BY <1>n, <2>1, <2>2
  <2>3. CASE Goto(s, "hostpng")
    <3>1. r.mem = m.mem /\ r.at = m.at /\ r.pc = "hostpng" /\ r.data = m.data
      BY <1>0, <2>3 DEF Goto, SessionType
    <3>2. Aware(r) /\ Pictured(r, h) /\ UpToDate(r, h) /\ Honest(r.mem)
      BY <1>0, <2>1, <3>1 DEF Sound, Aware, Pictured, UpToDate
    <3> QED BY <1>0, <2>1, <3>1, <3>2 DEF Sound, Progress
  <2> QED BY <1>5, <2>2, <2>3 DEF ReadScreen
<1>6. ASSUME m.pc = "stock", NEW data \in StockBytes(s), Verified(s, data)
      PROVE  data = Stock /\ HasCopy(m.at)
  <2>1. data = Stock /\ m.mem.stock[m.at] = Stock
    BY <1>1, <1>6 DEF Verified
  <2> QED BY <1>0, <1>1, <1>6, <2>1 DEF StockBytes, HasCopy, Sound, Pictured
<1>7. CASE NoteApplied(s)
  <2>1. Open(m) /\ Synced(m) /\ m.kind = "apply" /\ m.pc = "stock"
    BY <1>7 DEF NoteApplied, Open, Synced
  <2>2. CASE End(s)
    BY <1>0, <1>e, <2>2, Ends
  <2>3. CASE \E data \in StockBytes(s) : Verified(s, data) /\
                ses' = [ses EXCEPT ![s].mem.applied = @ \cup {ses[s].image},
                                   ![s].data = ses[s].image,
                                   ![s].stage = "intent", ![s].pc = "savehost"]
    <3>1. /\ r.mem = [m.mem EXCEPT !.applied = @ \cup {m.image}] /\ r.data = m.image
          /\ r.pc = "savehost" /\ r.at = m.at /\ r.image = m.image /\ r.kind = m.kind
      <4>1. r = [m EXCEPT !.mem = [m.mem EXCEPT !.applied = @ \cup {m.image}],
                          !.data = m.image, !.stage = "intent", !.pc = "savehost"]
        BY <1>0, <2>3 DEF SessionType
      <4> QED BY <1>0, <4>1 DEF SessionType
    <3>2. r.mem.stock = m.mem.stock /\ r.mem.applied = m.mem.applied \cup {m.image}
      BY <1>0, <3>1 DEF SessionType, Manifest
    <3>3. HasCopy(r.at)
      BY <1>6, <2>1, <2>3, <3>1
    <3>4. Aware(r) /\ Pictured(r, h) /\ UpToDate(r, h) /\ Honest(r.mem)
      BY <1>0, <2>1, <3>2 DEF Sound, Aware, Pictured, UpToDate, Honest
    <3> QED BY <2>1, <3>1, <3>2, <3>3, <3>4 DEF Sound, Progress
  <2> QED BY <1>7, <2>2, <2>3 DEF NoteApplied
<1>8. CASE PickRestore(s)
  <2>1. Synced(m)
    BY <1>8 DEF PickRestore, Synced
  <2>2. r = NoSession \/ (r.mem = m.mem /\ r.pc \in {"pick", "stock"})
    <3>1. CASE \E p \in m.todo : ses' = [ses EXCEPT ![s].at = p, ![s].pc = "stock"]
      BY <1>0, <3>1 DEF SessionType
    <3>2. CASE \E p \in m.todo : ses' = [ses EXCEPT ![s].todo = @ \ {p}]
      <4>1. PICK p \in m.todo : ses' = [ses EXCEPT ![s].todo = @ \ {p}]
        BY <3>2
      <4>2. m.pc = "pick"
        BY <1>8 DEF PickRestore
      <4> QED BY <1>0, <4>1, <4>2 DEF SessionType
    <3> QED BY <1>0, <1>8, <3>1, <3>2, Ends DEF PickRestore
  <2> QED BY <1>0, <1>e, <2>1, <2>2, Onward
<1>9. CASE FetchStock(s)
  <2>1. Synced(m) /\ Open(m) /\ m.pc = "stock"
    BY <1>9 DEF FetchStock, Synced, Open
  <2>2. CASE NextOrEnd(s)
    BY <1>n, <2>1, <2>2
  <2>3. CASE \E data \in StockBytes(s) : Verified(s, data) /\
                ses' = [ses EXCEPT ![s].data = data, ![s].pc = "write"]
    <3>1. /\ r.mem = m.mem /\ r.at = m.at /\ r.pc = "write" /\ r.data = Stock
          /\ HasCopy(r.at)
      BY <1>0, <1>6, <2>1, <2>3 DEF SessionType
    <3>2. Aware(r) /\ Pictured(r, h) /\ UpToDate(r, h) /\ Honest(r.mem)
      BY <1>0, <2>1, <3>1 DEF Sound, Aware, Pictured, UpToDate
    <3> QED BY <3>1, <3>2 DEF Sound, Progress
  <2> QED BY <1>9, <2>2, <2>3 DEF FetchStock
<1>10. CASE SkipRestore(s)
  BY <1>10, <1>n DEF SkipRestore, Synced
<1> QED BY <1>2, <1>3, <1>4, <1>5, <1>7, <1>8, <1>9, <1>10

-----------------------------------------------------------------------------
(* What every lemma on a single step assumes of it. *)
Steps(s, r) == /\ Alone /\ SafeInv /\ s \in Session /\ r \in SessionType
               /\ ses' \in [Session -> SessionType] /\ ses' = [ses EXCEPT ![s] = r]

LEMMA Facts ==
    ASSUME NEW s, NEW r, Steps(s, r)
    PROVE  /\ s \in Session /\ HostOf[s] \in Host /\ ses[s] \in SessionType /\ Sound(ses[s], HostOf[s])
           /\ r \in SessionType /\ ses'[s] = r /\ ses \in [Session -> SessionType]
           /\ ses[s].at \in Screen /\ Typed /\ Stored /\ ses[s].mem \in Manifest
           /\ \A p \in Screen : ses[s].mem.stock[p] \in {None, Stock}
           /\ \A p \in Screen : screen[p] \in Custom \cup {Stock}
           /\ screen \in [Screen -> Image] /\ devPng \in [Screen -> File]
           /\ hostPng \in [Host -> [Screen -> File]]
           /\ hostMan \in [Host -> Manifest \cup {None}]
           /\ NoSession \in SessionType
BY HostAssumption, NoSessionTyped
   DEF Steps, SafeInv, Typed, TypeOK, SessionType, Stage, Image, Sound, Honest

(* A session is opened, and its manifest loaded: the tablet's, or, when the *)
(* tablet has none, the computer's.                                         *)
LEMMA LoadSound ==
    ASSUME NEW s, NEW r, Steps(s, r), Start(s) \/ LoadManifest(s)
    PROVE  Sound(r, HostOf[s]) /\ (r.pc = "idle" => r = NoSession)
<1> DEFINE h == HostOf[s]
           m == ses[s]
<1>0. /\ s \in Session /\ h \in Host /\ m \in SessionType /\ Sound(m, h) /\ r \in SessionType
      /\ ses'[s] = r /\ ses \in [Session -> SessionType] /\ Stored
  BY Facts
<1>1. CASE Start(s)
  <2>1. m = NoSession
    BY <1>1 DEF Start, Steps, SafeInv, Turns
  <2>2. r.mem = m.mem /\ r.pc = "load"
    <3>1. PICK k \in Kinds, i \in Image, p \in Screen :
              /\ k = "apply" <=> i \in Custom
              /\ ses' = [ses EXCEPT ![s].kind = k, ![s].image = i, ![s].at = p, ![s].pc = "load"]
      BY <1>1 DEF Start
    <3> QED BY <1>0, <3>1 DEF SessionType
  <2>3. \A p \in Screen : r.mem.stock[p] = None
    BY <2>1, <2>2 DEF NoSession, Empty
  <2> QED BY <2>2, <2>3, Names
          DEF Sound, Honest, Aware, Open, Synced, Pictured, UpToDate, Progress
<1>2. CASE LoadManifest(s)
  <2> DEFINE new == IF devMan # None THEN devMan
                    ELSE IF hostMan[h] # None THEN hostMan[h] ELSE Empty
  <2>0. new \in Manifest
    BY <1>0, Facts, NoSessionTyped DEF Typed, TypeOK
  <2>1. \/ /\ devMan # None /\ r.pc = "sync"
           /\ r.todo = {p \in Screen : new.stock[p] # None}
        \/ devMan = None /\ r.pc = Entry(s, new)
    BY <1>0, <1>2 DEF LoadManifest, SessionType
  <2>2. r.mem = new /\ r.at = m.at
    BY <1>0, <1>2 DEF LoadManifest, SessionType
  <2>3. Entry(s, new) \in {"pick", "stock", "look"}
        \/ (Entry(s, new) = "hash" /\ new.stock[m.at] = None)
    BY DEF Entry
  <2>4. Honest(new)
    BY <1>0 DEF Stored, StoredHonest, Honest, Empty
  <2>5. ASSUME NEW p \in Screen, screen[p] \in Custom
        PROVE  screen[p] \in new.applied
    <3>1. CASE devMan # None
      BY <1>0, <2>5, <3>1 DEF Stored, CustomKnown
    <3>2. CASE devMan = None
      <4>1. Resets /\ \E g \in Host : Known(hostMan[g], screen[p])
        BY <1>0, <2>5, <3>2 DEF Stored, CustomKnown
      <4>2. Known(hostMan[h], screen[p])
        BY <1>0, <4>1 DEF Steps, Alone
      <4> QED BY <3>2, <4>2 DEF Known
    <3> QED BY <3>1, <3>2
  <2>6. ASSUME Resets, NEW p \in Screen, new.stock[p] = Stock
        PROVE  hostPng[h][p] = Stock
    BY <1>0, <2>6, Names DEF Stored, RecordedPictured, Recorded, Empty
  <2>7. ASSUME NEW p \in Screen
        PROVE  /\ Recorded(devMan, p) => new.stock[p] = Stock
               /\ devMan = None /\ Recorded(hostMan[h], p) => new.stock[p] = Stock
    BY <2>4 DEF Recorded, Honest
  <2> HIDE DEF new
  <2>8. Aware(r) /\ Pictured(r, h) /\ UpToDate(r, h)
    BY <2>1, <2>2, <2>5, <2>6, <2>7 DEF Aware, Pictured, UpToDate, Synced
  <2>9. Progress(r, h) /\ r.pc # "idle"
    BY <2>1, <2>2, <2>3 DEF Progress
  <2> QED BY <2>2, <2>4, <2>8, <2>9 DEF Sound
<1> QED BY <1>1, <1>2

(* The computer's pictures are brought in line with the tablet's manifest. *)
LEMMA SyncPictureSound ==
    ASSUME NEW s, NEW r, Steps(s, r), SyncPicture(s)
    PROVE  Stored' /\ Sound(r, HostOf[s])' /\ (r.pc = "idle" => r = NoSession)
<1> DEFINE h == HostOf[s]
           m == ses[s]
<1>0. /\ s \in Session /\ h \in Host /\ m \in SessionType /\ Sound(m, h) /\ r \in SessionType
      /\ ses'[s] = r /\ ses \in [Session -> SessionType] /\ Typed /\ Stored
      /\ hostPng \in [Host -> [Screen -> File]]
  BY Facts
<1>1. PICK p \in m.todo :
          \/ r = NoSession /\ UNCHANGED hostPng
          \/ /\ r = [m EXCEPT !.todo = @ \ {p}]
             /\ \/ UNCHANGED hostPng
                \/ devPng[p] = m.mem.stock[p] /\ hostPng' = [hostPng EXCEPT ![h][p] = devPng[p]]
  BY <1>0 DEF SyncPicture, End
<1>2. m.pc = "sync" /\ UNCHANGED <<screen, devMan, hostMan, devPng>>
  BY DEF SyncPicture, tablet, device
<1>3. p \in Screen /\ m.mem.stock[p] = Stock
  BY <1>0, <1>1, <1>2 DEF SessionType, Sound, Progress, Honest
<1>4. Grows
  BY <1>0, <1>1, <1>2, <1>3 DEF Grows
<1>5. CASE r = NoSession
  BY <1>0, <1>4, <1>5, GrowsStored, NoSessionSoundNext
<1>6. CASE r = [m EXCEPT !.todo = @ \ {p}]
  <2>1. r.mem = m.mem /\ r.pc = m.pc /\ r.todo \subseteq m.todo
    BY <1>0, <1>6 DEF SessionType
  <2>2. Sound(r, h)
    BY <1>0, <1>2, <2>1 DEF Sound, Aware, Open, Synced, Pictured, UpToDate, Progress
  <2> QED BY <1>0, <1>2, <1>4, <2>1, <2>2, GrowsStored, GrowsSound
<1> QED BY <1>1, <1>5, <1>6

(* Stock art is copied to the computer, and then to the tablet. *)
LEMMA CaptureToHostSound ==
    ASSUME NEW s, NEW r, Steps(s, r), CaptureToHost(s)
    PROVE  Stored' /\ Sound(r, HostOf[s])' /\ (r.pc = "idle" => r = NoSession)
<1> DEFINE h == HostOf[s]
           m == ses[s]
<1>0. /\ s \in Session /\ h \in Host /\ m \in SessionType /\ Sound(m, h) /\ r \in SessionType
      /\ ses'[s] = r /\ ses \in [Session -> SessionType] /\ Typed /\ Stored
      /\ hostPng \in [Host -> [Screen -> File]] /\ m.at \in Screen
  BY Facts
<1>1. r.mem = m.mem /\ r.at = m.at /\ r.data = m.data /\ r.pc = "devpng"
  BY <1>0 DEF CaptureToHost, Goto, SessionType
<1>2. m.pc = "hostpng" /\ m.data = Stock /\ screen[m.at] = Stock /\ m.mem.stock[m.at] = None
  BY <1>0 DEF CaptureToHost, Sound, Progress
<1>3. Grows /\ hostPng'[h][m.at] = Stock
  BY <1>0, <1>2 DEF CaptureToHost, Grows, tablet, device
<1>4. PICK q \in SessionType : q = m
  BY <1>0
<1>5. Sound(q, h)'
  BY <1>0, <1>3, <1>4, GrowsSound
<1>6. Aware(r)' /\ Pictured(r, h)' /\ UpToDate(r, h)' /\ Honest(r.mem)
  BY <1>1, <1>2, <1>4, <1>5 DEF Sound, Aware, Open, Synced, Pictured, UpToDate
<1>7. Progress(r, h)'
  BY <1>0, <1>1, <1>2, <1>3 DEF Progress, Grows
<1>8. Sound(r, h)'
  BY <1>6, <1>7 DEF Sound
<1> QED BY <1>0, <1>1, <1>3, <1>8, GrowsStored

LEMMA CaptureToDeviceSound ==
    ASSUME NEW s, NEW r, Steps(s, r), CaptureToDevice(s)
    PROVE  Stored' /\ Sound(r, HostOf[s])' /\ (r.pc = "idle" => r = NoSession)
<1> DEFINE h == HostOf[s]
           m == ses[s]
<1>0. /\ s \in Session /\ h \in Host /\ m \in SessionType /\ Sound(m, h) /\ r \in SessionType
      /\ ses'[s] = r /\ ses \in [Session -> SessionType] /\ Typed /\ Stored
      /\ devPng \in [Screen -> File] /\ m.at \in Screen /\ m.mem \in Manifest
  BY Facts
<1>1. /\ r.mem = [m.mem EXCEPT !.stock[m.at] = m.data]
      /\ r.pc = "savehost" /\ r.stage = "capture"
  <2>1. r = [m EXCEPT !.mem = [m.mem EXCEPT !.stock[m.at] = m.data],
                      !.pc = "savehost", !.stage = "capture"]
    BY <1>0 DEF CaptureToDevice, SessionType
  <2> QED BY <1>0, <2>1 DEF SessionType
<1>2. /\ m.pc = "devpng" /\ m.data = Stock /\ m.mem.stock[m.at] = None
      /\ hostPng[h][m.at] = Stock
  BY <1>0 DEF CaptureToDevice, Sound, Progress
<1>3. Grows
  BY <1>0, <1>2 DEF CaptureToDevice, Grows, tablet, computer
<1>4. /\ r.mem.applied = m.mem.applied
      /\ \A p \in Screen : r.mem.stock[p] = IF p = m.at THEN Stock ELSE m.mem.stock[p]
  BY <1>0, <1>1, <1>2 DEF Manifest
<1>5. Honest(r.mem) /\ Aware(r) /\ Pictured(r, h)
  BY <1>0, <1>1, <1>2, <1>4 DEF Sound, Honest, Aware, Open, Pictured
<1>6. UpToDate(r, h)
  BY <1>0, <1>1, <1>2, <1>4 DEF Sound, Open, Synced, UpToDate
<1>7. Sound(r, h)
  BY <1>1, <1>5, <1>6 DEF Sound, Progress
<1> QED BY <1>0, <1>1, <1>3, <1>7, GrowsStored, GrowsSound

(* The manifest is saved to the computer. *)
LEMMA HostManifestSound ==
    ASSUME NEW s, NEW r, Steps(s, r), SyncManifest(s) \/ SaveHost(s)
    PROVE  Stored' /\ Sound(r, HostOf[s])' /\ (r.pc = "idle" => r = NoSession)
<1> DEFINE h == HostOf[s]
           m == ses[s]
<1>0. /\ s \in Session /\ h \in Host /\ m \in SessionType /\ Sound(m, h) /\ r \in SessionType
      /\ ses'[s] = r /\ ses \in [Session -> SessionType] /\ Typed /\ Stored
      /\ m.mem \in Manifest /\ hostMan \in [Host -> Manifest \cup {None}] /\ m.at \in Screen
      /\ \A p \in Screen : m.mem.stock[p] \in {None, Stock}
  BY Facts
<1>1. /\ hostMan' = [hostMan EXCEPT ![h] = m.mem]
      /\ UNCHANGED <<screen, devPng, devMan, hostPng>>
  BY DEF SyncManifest, SaveHost, tablet, device
<1>2. m.pc \in {"sync", "savehost"} /\ Open(m) /\ m.mem # None
  BY <1>0, ManifestAssumption DEF SyncManifest, SaveHost, Open
<1>3. /\ r.mem = m.mem /\ r.at = m.at /\ r.kind = m.kind /\ r.image = m.image
      /\ r.data = m.data /\ r.stage = m.stage
  BY <1>0 DEF SyncManifest, SaveHost, Goto, SessionType
<1>4. \/ r.pc \in {"pick", "stock", "look"}
      \/ r.pc = "hash" /\ r.mem.stock[r.at] = None
      \/ r.pc = "savedev" /\ m.pc = "savehost"
  <2>1. CASE SyncManifest(s)
    <3>1. r.pc = Entry(s, m.mem)
      BY <1>0, <2>1 DEF SyncManifest, SessionType
    <3> QED BY <1>3, <3>1 DEF Entry
  <2>2. CASE SaveHost(s)
    BY <1>0, <2>2 DEF SaveHost, Goto, SessionType
  <2> QED BY <2>1, <2>2
<1>5. /\ hostMan'[h] = m.mem
      /\ \A g \in Host : hostMan'[g] = m.mem \/ hostMan'[g] = hostMan[g]
  BY <1>0, <1>1
<1>6. StoredHonest'
  BY <1>0, <1>1, <1>5 DEF Stored, StoredHonest, Sound
<1>7. CustomKnown'
  <2>1. \A p \in Screen : screen[p] \in Custom => Known(hostMan'[h], screen[p])
    BY <1>0, <1>2, <1>5 DEF Sound, Aware, Known
  <2> QED BY <1>0, <1>1, <2>1 DEF Stored, CustomKnown
<1>8. CustomCopied'
  BY <1>0, <1>1 DEF Stored, CustomCopied, HasCopy
<1>9. RecordedPictured'
  <2> SUFFICES ASSUME Resets, NEW p \in Screen, NEW g \in Host,
                      Recorded(devMan, p) \/ Recorded(hostMan'[g], p)
               PROVE  hostPng[g][p] = Stock
    BY <1>1 DEF RecordedPictured, Recorded
  <2>1. g = h
    BY <1>0 DEF Steps, Alone
  <2>2. CASE Recorded(devMan, p)
    BY <1>0, <2>2 DEF Stored, RecordedPictured
  <2>3. CASE Recorded(hostMan'[g], p)
    BY <1>0, <1>5, <2>1, <2>3 DEF Recorded, Sound, Pictured
  <2> QED BY <2>2, <2>3
<1>10. Aware(r)' /\ Pictured(r, h)' /\ Honest(r.mem)
  BY <1>0, <1>1, <1>2, <1>3 DEF Sound, Aware, Pictured
<1>11. UpToDate(r, h)'
  BY <1>0, <1>1, <1>2, <1>3, <1>5 DEF Sound, UpToDate, Recorded
<1>12. Progress(r, h)'
  BY <1>0, <1>1, <1>2, <1>3, <1>4, <1>5 DEF Sound, Progress, Known, HasCopy
<1> QED BY <1>4, <1>6, <1>7, <1>8, <1>9, <1>10, <1>11, <1>12 DEF Stored, Sound

(* The manifest is saved to the tablet. *)
LEMMA SaveDeviceSound ==
    ASSUME NEW s, NEW r, Steps(s, r), SaveDevice(s)
    PROVE  Stored' /\ Sound(r, HostOf[s])' /\ (r.pc = "idle" => r = NoSession)
<1> DEFINE h == HostOf[s]
           m == ses[s]
<1>0. /\ s \in Session /\ h \in Host /\ m \in SessionType /\ Sound(m, h) /\ r \in SessionType
      /\ ses'[s] = r /\ ses \in [Session -> SessionType] /\ Typed /\ Stored
      /\ m.mem \in Manifest /\ m.at \in Screen
      /\ \A p \in Screen : m.mem.stock[p] \in {None, Stock}
  BY Facts
<1>1. devMan' = m.mem /\ UNCHANGED <<screen, devPng, hostPng, hostMan>>
  BY DEF SaveDevice, tablet, computer
<1>2. m.pc = "savedev" /\ Open(m) /\ Synced(m) /\ m.mem # None
  BY <1>0, ManifestAssumption DEF SaveDevice, Open, Synced
<1>3. \/ r = NoSession
      \/ /\ r.mem = m.mem /\ r.at = m.at /\ r.kind = m.kind /\ r.image = m.image
         /\ \/ r.pc \in {"pick", "stock"}
            \/ r.pc = "write" /\ m.stage = "intent" /\ r.data = m.data
  <2>1. CASE Goto(s, "stock") \/ (m.stage = "intent" /\ Goto(s, "write"))
    BY <1>0, <2>1 DEF Goto, SessionType
  <2>2. CASE NextOrEnd(s) /\ IsBatch(s)
    BY <1>0, <2>2 DEF NextOrEnd, SessionType
  <2>3. CASE End(s)
    BY <1>0, <2>3, Ends
  <2> QED BY <2>1, <2>2, <2>3 DEF SaveDevice, NextOrEnd
<1>4. StoredHonest' /\ CustomCopied'
  BY <1>0, <1>1 DEF Stored, StoredHonest, Sound, CustomCopied, HasCopy
<1>5. CustomKnown'
  BY <1>0, <1>1, <1>2 DEF Stored, CustomKnown, Known, Sound, Aware
<1>6. RecordedPictured'
  <2> SUFFICES ASSUME Resets, NEW p \in Screen, NEW g \in Host,
                      Recorded(m.mem, p) \/ Recorded(hostMan[g], p)
               PROVE  hostPng[g][p] = Stock
    BY <1>1 DEF RecordedPictured, Recorded
  <2>1. g = h
    BY <1>0 DEF Steps, Alone
  <2> QED BY <1>0, <2>1 DEF Stored, RecordedPictured, Recorded, Sound, Pictured
<1>7. CASE r = NoSession
  BY <1>0, <1>4, <1>5, <1>6, <1>7, NoSessionSoundNext DEF Stored
<1>8. CASE r.mem = m.mem /\ r.pc \in {"pick", "stock", "write"}
  <2>1. Aware(r)' /\ Pictured(r, h)' /\ Honest(r.mem)
    BY <1>0, <1>1, <1>2, <1>8 DEF Sound, Aware, Pictured
  <2>2. UpToDate(r, h)'
    BY <1>0, <1>1, <1>2, <1>8 DEF Sound, UpToDate, Recorded
  <2>3. Progress(r, h)'
    <3>1. CASE r.pc # "write"
      BY <1>8, <3>1 DEF Progress
    <3>2. CASE r.pc = "write"
      <4>1. /\ r.at = m.at /\ r.kind = m.kind /\ r.image = m.image
            /\ m.stage = "intent" /\ r.data = m.data
        BY <1>3, <3>2 DEF NoSession
      <4>2. /\ m.kind = "apply" /\ m.data = m.image /\ m.image \in m.mem.applied
            /\ HasCopy(m.at) /\ Known(hostMan[h], m.image)
        BY <1>0, <1>2, <4>1 DEF Sound, Progress
      <4>3. HasCopy(r.at)'
        BY <1>1, <4>1, <4>2 DEF HasCopy
      <4> QED BY <1>1, <1>2, <3>2, <4>1, <4>2, <4>3 DEF Progress, Known
    <3> QED BY <3>1, <3>2
  <2> QED BY <1>4, <1>5, <1>6, <1>8, <2>1, <2>2, <2>3 DEF Stored, Sound
<1> QED BY <1>3, <1>7, <1>8

(* The write: what it replaces has a copy, and what it puts there is stock *)
(* art or an image both manifests know.                                    *)
LEMMA WriteScreenSound ==
    ASSUME NEW s, NEW r, Steps(s, r), WriteScreen(s)
    PROVE  Stored' /\ Sound(r, HostOf[s])' /\ (r.pc = "idle" => r = NoSession)
<1> DEFINE h == HostOf[s]
           m == ses[s]
<1>0. /\ s \in Session /\ h \in Host /\ m \in SessionType /\ Sound(m, h) /\ r \in SessionType
      /\ ses'[s] = r /\ ses \in [Session -> SessionType] /\ Typed /\ Stored
      /\ m.at \in Screen /\ screen \in [Screen -> Image]
      /\ r.pc = "idle" \/ r.pc # "idle"
  BY Facts
<1>1. /\ screen' = [screen EXCEPT ![m.at] = m.data]
      /\ UNCHANGED <<devPng, devMan, hostPng, hostMan>>
  BY DEF WriteScreen, device, computer
<1>2. /\ m.pc = "write" /\ Open(m) /\ Synced(m) /\ HasCopy(m.at)
      /\ \/ m.data = Stock
         \/ m.kind = "apply" /\ Known(devMan, m.data) /\ Known(hostMan[h], m.data)
  BY <1>0 DEF WriteScreen, Open, Synced, Sound, Progress
<1>3. \/ r = NoSession
      \/ r.pc = "pick" /\ r.mem = m.mem /\ m.kind # "apply"
  BY <1>0, Ends DEF WriteScreen, IsBatch
<1>4. \A p \in Screen : HasCopy(p) <=> HasCopy(p)'
  BY <1>1 DEF HasCopy
<1>5. \A p \in Screen : screen'[p] = IF p = m.at THEN m.data ELSE screen[p]
  BY <1>0, <1>1
<1>6. StoredHonest' /\ RecordedPictured'
  BY <1>0, <1>1 DEF Stored, StoredHonest, RecordedPictured, Recorded
<1>7. CustomKnown'
  <2> SUFFICES ASSUME NEW p \in Screen, screen'[p] \in Custom
               PROVE  /\ devMan # None \/ Resets
                      /\ devMan # None => screen'[p] \in devMan.applied
                      /\ Resets => \E g \in Host : Known(hostMan[g], screen'[p])
    BY <1>1 DEF CustomKnown, Known
  <2>1. CASE screen'[p] = screen[p]
    BY <1>0, <2>1 DEF Stored, CustomKnown
  <2>2. CASE p = m.at /\ m.data # Stock
    BY <1>0, <1>2, <1>5, <2>2 DEF Known
  <2> QED BY <1>5, <2>1, <2>2, Names
<1>8. CustomCopied'
  BY <1>0, <1>2, <1>4, <1>5 DEF Stored, CustomCopied
<1>9. CASE r = NoSession
  BY <1>0, <1>6, <1>7, <1>8, <1>9, NoSessionSoundNext DEF Stored
<1>10. CASE r.pc = "pick" /\ r.mem = m.mem /\ m.kind # "apply"
  <2>1. \A p \in Screen : screen'[p] \in Custom => screen'[p] = screen[p]
    BY <1>2, <1>5, <1>10, Names
  <2>2. Aware(r)' /\ Pictured(r, h)' /\ UpToDate(r, h)' /\ Honest(r.mem)
    BY <1>0, <1>1, <1>2, <1>10, <2>1
       DEF Sound, Aware, Pictured, UpToDate, Recorded, Open, Synced
  <2>3. Progress(r, h)'
    BY <1>10 DEF Progress
  <2> QED BY <1>6, <1>7, <1>8, <1>10, <2>2, <2>3 DEF Stored, Sound
<1> QED BY <1>3, <1>9, <1>10

(* A session that ends while it writes a picture to the computer spoils no *)
(* copy that is needed: the art is on its screen, or the copy was not good.*)
LEMMA StopWritingSound ==
    ASSUME NEW s, NEW r, Steps(s, r), StopWriting(s)
    PROVE  Stored' /\ Sound(r, HostOf[s])' /\ (r.pc = "idle" => r = NoSession)
<1> DEFINE h == HostOf[s]
           m == ses[s]
<1>0. /\ s \in Session /\ h \in Host /\ m \in SessionType /\ Sound(m, h) /\ r \in SessionType
      /\ ses'[s] = r /\ ses \in [Session -> SessionType] /\ Typed /\ Stored
      /\ m.at \in Screen /\ hostPng \in [Host -> [Screen -> File]]
  BY Facts
<1>1. UNCHANGED <<screen, devPng, devMan, hostMan>> /\ r = NoSession
  BY <1>0, Ends DEF StopWriting, tablet, device
<1>2. PICK p \in Screen :
          /\ hostPng' = [hostPng EXCEPT ![h][p] = Torn]
          /\ \/ m.pc = "hostpng" /\ p = m.at
             \/ m.pc = "sync" /\ p \in m.todo /\ hostPng[h][p] # devPng[p]
                /\ devPng[p] = m.mem.stock[p]
  BY <1>0 DEF StopWriting, SessionType
<1>3. \A g \in Host, q \in Screen : <<g, q>> # <<h, p>> => hostPng'[g][q] = hostPng[g][q]
  BY <1>0, <1>2
<1>4. hostPng[h][p] # Stock
      \/ (m.pc = "hostpng" /\ screen[p] = Stock /\ m.mem.stock[p] = None)
  <2>1. CASE m.pc = "sync"
    BY <1>0, <1>2, <2>1, Facts DEF Sound, Progress
  <2>2. CASE m.pc = "hostpng"
    BY <1>0, <1>2, <2>2 DEF Sound, Progress
  <2> QED BY <1>2, <2>1, <2>2
<1>5. StoredHonest' /\ CustomKnown'
  BY <1>0, <1>1 DEF Stored, StoredHonest, CustomKnown, Known
<1>6. CustomCopied'
  <2> SUFFICES ASSUME NEW q \in Screen, screen[q] # Stock
               PROVE  HasCopy(q)'
    BY <1>1 DEF CustomCopied
  <2>1. HasCopy(q)
    BY <1>0 DEF Stored, CustomCopied
  <2>2. \A g \in Host : hostPng[g][q] = Stock => hostPng'[g][q] = Stock
    BY <1>3, <1>4
  <2> QED BY <1>1, <2>1, <2>2 DEF HasCopy
<1>7. RecordedPictured'
  <2> SUFFICES ASSUME Resets, NEW q \in Screen, NEW g \in Host,
                      Recorded(devMan, q) \/ Recorded(hostMan[g], q)
               PROVE  hostPng'[g][q] = Stock
    BY <1>1 DEF RecordedPictured, Recorded
  <2>1. hostPng[g][q] = Stock /\ g = h
    BY <1>0 DEF Stored, RecordedPictured, Steps, Alone
  <2>2. CASE q = p
    <3>1. m.pc = "hostpng" /\ m.mem.stock[p] = None
      BY <1>4, <2>1, <2>2
    <3> QED BY <1>0, <2>1, <2>2, <3>1, Names DEF Sound, UpToDate, Open, Synced
  <2>3. CASE q # p
    BY <1>3, <2>1, <2>3
  <2> QED BY <2>2, <2>3
<1> QED BY <1>0, <1>1, <1>5, <1>6, <1>7, NoSessionSoundNext DEF Stored

-----------------------------------------------------------------------------
(* A step of s moves no other session. *)
LEMMA OneMoves ==
    ASSUME Typed, NEW s \in Session, Step(s)
    PROVE  \A t \in Session \ {s} : ses'[t] = ses[t]
BY DEF Step, Start, LoadManifest, SyncPicture, SyncManifest, Look, PickCapture,
   HashScreen, ReadScreen, CaptureToHost, CaptureToDevice, SaveHost, SaveDevice,
   NoteApplied, PickRestore, FetchStock, WriteScreen, SkipRestore, Stop, StopWriting,
   Goto, End, NextOrEnd, Typed, TypeOK

LEMMA StepSafe ==
    ASSUME Alone, SafeInv, Typed', NEW s \in Session, Step(s)
    PROVE  SafeInv'
<1>1. /\ ses \in [Session -> SessionType] /\ ses' \in [Session -> SessionType]
      /\ s \in Session /\ ses[s] \in SessionType
  BY DEF SafeInv, Typed, TypeOK, SessionType, Stage
<1>2. ses' = [ses EXCEPT ![s] = ses'[s]]
  <2>1. \A t \in Session \ {s} : ses'[t] = ses[t]
    BY OneMoves DEF SafeInv
  <2> QED BY <1>1, <2>1
<1>3. PICK r \in SessionType : r = ses'[s]
  BY <1>1
<1>4. Steps(s, r)
  BY <1>1, <1>2, <1>3 DEF Steps
<1>5. HostOf[s] \in Host /\ Stored
  BY <1>4, Facts
<1>6. Stored' /\ Sound(r, HostOf[s])' /\ (r.pc = "idle" => r = NoSession)
  <2>1. CASE Start(s) \/ LoadManifest(s)
    <3>1. Sound(r, HostOf[s]) /\ (r.pc = "idle" => r = NoSession)
      BY <1>4, <2>1, LoadSound
    <3>2. Grows
      BY <2>1, SameGrows DEF Start, LoadManifest
    <3> QED BY <1>5, <3>1, <3>2, GrowsStored, GrowsSound
  <2>2. CASE \/ Look(s) \/ PickCapture(s) \/ HashScreen(s) \/ ReadScreen(s)
             \/ NoteApplied(s) \/ PickRestore(s) \/ FetchStock(s) \/ SkipRestore(s) \/ Stop(s)
    <3>1. Sound(r, HostOf[s]) /\ (r.pc = "idle" => r = NoSession)
      BY <1>1, <1>3, <2>2, QuietSound
    <3>2. Grows
      BY <2>2, SameGrows DEF Look, PickCapture, HashScreen, ReadScreen, NoteApplied,
         PickRestore, FetchStock, SkipRestore, Stop
    <3> QED BY <1>5, <3>1, <3>2, GrowsStored, GrowsSound
  <2>3. CASE SyncPicture(s)
    BY <1>4, <2>3, SyncPictureSound
  <2>4. CASE SyncManifest(s) \/ SaveHost(s)
    BY <1>4, <2>4, HostManifestSound
  <2>5. CASE CaptureToHost(s)
    BY <1>4, <2>5, CaptureToHostSound
  <2>6. CASE CaptureToDevice(s)
    BY <1>4, <2>6, CaptureToDeviceSound
  <2>7. CASE SaveDevice(s)
    BY <1>4, <2>7, SaveDeviceSound
  <2>8. CASE WriteScreen(s)
    BY <1>4, <2>8, WriteScreenSound
  <2>9. CASE StopWriting(s)
    BY <1>4, <2>9, StopWritingSound
  <2> QED BY <2>1, <2>2, <2>3, <2>4, <2>5, <2>6, <2>7, <2>8, <2>9 DEF Step
<1>7. ses[s].pc # "idle" \/ \A t \in Session : ses[t].pc = "idle"
  BY DEF Step, Start, LoadManifest, SyncPicture, SyncManifest, Look, PickCapture,
     HashScreen, ReadScreen, CaptureToHost, CaptureToDevice, SaveHost, SaveDevice,
     NoteApplied, PickRestore, FetchStock, WriteScreen, SkipRestore, Stop, StopWriting, Alone
<1> QED BY <1>2, <1>3, <1>6, <1>7, Frame

LEMMA ResetSafe ==
    ASSUME SafeInv, Typed', FactoryReset
    PROVE  SafeInv'
<1>1. /\ devMan' = None /\ Resets /\ UNCHANGED <<screen, hostPng, hostMan>>
      /\ \A s \in Session : ses'[s] = NoSession
  BY DEF FactoryReset, tablet, computer
<1>2. StoredHonest' /\ CustomKnown' /\ RecordedPictured'
  BY <1>1 DEF SafeInv, Stored, StoredHonest, CustomKnown, Known, RecordedPictured, Recorded
<1>3. CustomCopied'
  BY <1>1 DEF SafeInv, Stored, CustomCopied, HasCopy
<1>4. Turns'
  BY <1>1, NoSessionIdle DEF Turns
<1>5. ASSUME NEW s \in Session PROVE Sound(ses[s], HostOf[s])'
  BY <1>1, HostAssumption, NoSessionSoundNext
<1> QED BY <1>2, <1>3, <1>4, <1>5 DEF SafeInv, Stored

(* Of two good copies of one screen's art, one survives the damage. *)
LEMMA OtherCopy ==
    ASSUME NEW S, NEW c \in S, Cardinality(S) > 1
    PROVE  \E d \in S : d # c
<1> SUFFICES ASSUME \A d \in S : d = c PROVE FALSE
  OBVIOUS
<1>1. S = {c}
  OBVIOUS
<1> QED BY <1>1, FS_Singleton

LEMMA DamageSafe ==
    ASSUME Alone, SafeInv, Typed', Damage
    PROVE  SafeInv'
<1>1. /\ ~Resets /\ UNCHANGED <<screen, devMan, hostMan, ses>>
      /\ \A s \in Session : ses[s] = NoSession /\ ses'[s] = NoSession
  BY DEF Alone, Damage, SafeInv, Turns, tablet
<1>2. PICK p \in Screen : \E c \in Copies(p) :
          /\ screen[p] = Stock \/ Cardinality(Copies(p)) > 1
          /\ IF c = None
             THEN devPng' = [devPng EXCEPT ![p] = Torn] /\ UNCHANGED hostPng
             ELSE hostPng' = [hostPng EXCEPT ![c][p] = Torn] /\ UNCHANGED devPng
  BY DEF Damage
<1>3. PICK c \in Copies(p) :
          /\ screen[p] = Stock \/ Cardinality(Copies(p)) > 1
          /\ IF c = None
             THEN devPng' = [devPng EXCEPT ![p] = Torn] /\ UNCHANGED hostPng
             ELSE hostPng' = [hostPng EXCEPT ![c][p] = Torn] /\ UNCHANGED devPng
  BY <1>2
<1>4. devPng \in [Screen -> File] /\ hostPng \in [Host -> [Screen -> File]]
  BY DEF SafeInv, Typed, TypeOK
<1>5. StoredHonest' /\ CustomKnown' /\ RecordedPictured'
  BY <1>1 DEF SafeInv, Stored, StoredHonest, CustomKnown, RecordedPictured
<1>6. CustomCopied'
  <2> SUFFICES ASSUME NEW q \in Screen, screen[q] # Stock PROVE HasCopy(q)'
    BY <1>1 DEF CustomCopied
  <2>1. HasCopy(q)
    BY DEF SafeInv, Stored, CustomCopied
  <2>2. CASE q # p
    BY <1>1, <1>3, <1>4, <2>1, <2>2 DEF HasCopy
  <2>3. CASE q = p
    <3>1. PICK d \in Copies(p) : d # c
      BY <1>3, <2>3, OtherCopy
    <3> QED BY <1>1, <1>3, <1>4, <2>3, <3>1, Names DEF Copies, HasCopy
  <2> QED BY <2>2, <2>3
<1>7. Turns'
  BY <1>1, NoSessionIdle DEF Turns
<1>8. ASSUME NEW s \in Session PROVE Sound(ses[s], HostOf[s])'
  BY <1>1, HostAssumption, NoSessionSoundNext
<1> QED BY <1>5, <1>6, <1>7, <1>8 DEF SafeInv, Stored

LEMMA InitSafe == Init => SafeInv
<1> SUFFICES ASSUME Init PROVE Turns /\ Stored /\ \A s \in Session : Sound(ses[s], HostOf[s])
  BY InitTyped DEF SafeInv
<1>1. \A p \in Screen : screen[p] = Stock
  BY DEF Init
<1>2. Stored
  BY <1>1, Names DEF Init, Stored, StoredHonest, CustomKnown, CustomCopied, RecordedPictured,
     Recorded
<1>3. \A s \in Session : ses[s] = NoSession
  BY DEF Init
<1>4. Turns
  BY <1>3, NoSessionIdle DEF Turns
<1>5. \A s \in Session : Sound(ses[s], HostOf[s])
  BY <1>3, HostAssumption, NoSessionSound
<1> QED BY <1>2, <1>4, <1>5

LEMMA SafeAlways == ASSUME Alone PROVE Spec => []SafeInv
<1>1. SafeInv /\ Typed' /\ [Next]_vars => SafeInv'
  <2> SUFFICES ASSUME SafeInv, Typed', [Next]_vars PROVE SafeInv'
    OBVIOUS
  <2>1. CASE UNCHANGED vars
    <3>1. Turns' /\ Stored'
      BY <2>1 DEF vars, SafeInv, Turns, Stored, StoredHonest, CustomKnown, CustomCopied,
                  HasCopy, RecordedPictured, Recorded, Known
    <3>2. ASSUME NEW s \in Session PROVE Sound(ses[s], HostOf[s])'
      BY <2>1 DEF vars, SafeInv, Sound, Aware, Open, Pictured, UpToDate, Synced, Progress,
                  HasCopy, Recorded, Known
    <3> QED BY <3>1, <3>2 DEF SafeInv
  <2> QED BY <2>1, StepSafe, ResetSafe, DamageSafe DEF Next
<1> QED BY <1>1, InitSafe, TypedAlways, PTL DEF Spec

-----------------------------------------------------------------------------
(* backup.py, rule 2: no manifest ever records an image the tool wrote as  *)
(* a screen's stock art, whatever is refused, interrupted or damaged.      *)
THEOREM NothingLaundered == ASSUME Alone PROVE Spec => []NoLaundering
<1>1. SafeInv => NoLaundering
  BY Names DEF SafeInv, Stored, StoredHonest, Honest, NoLaundering
<1> QED BY <1>1, SafeAlways, PTL

(* What the module exists for: the stock art of a screen that holds        *)
(* something else has a good copy, through crashes and factory resets.     *)
THEOREM StockArtSurvives == ASSUME Alone PROVE Spec => []StockSurvives
<1>1. SafeInv => StockSurvives
  BY DEF SafeInv, Stored, CustomCopied, HasCopy, StockSurvives, Copies
<1> QED BY <1>1, SafeAlways, PTL

(* apply.py, "persist intent before the write": the manifest that is       *)
(* loaded next knows every custom image on a screen.                       *)
THEOREM IntentIsRecorded == ASSUME Alone PROVE Spec => []IntentRecorded
<1>1. SafeInv => IntentRecorded
  BY DEF SafeInv, Stored, CustomKnown, Known, IntentRecorded
<1> QED BY <1>1, SafeAlways, PTL

(* backup.py, rule 1, of entries: a save replaces no entry of the tablet's *)
(* manifest, as the manifest in memory has them all.                       *)
THEOREM EntriesAreFinal == ASSUME Alone PROVE Spec => WriteOnce
<1> DEFINE Kept == \A p \in Screen :
              devMan # None /\ devMan' # None /\ devMan.stock[p] # None
                  => devMan'.stock[p] = devMan.stock[p]
<1>1. SafeInv /\ [Next]_vars => Kept
  <2> SUFFICES ASSUME SafeInv, [Next]_vars PROVE Kept
    OBVIOUS
  <2>1. CASE UNCHANGED devMan
    BY <2>1
  <2>2. CASE FactoryReset
    BY <2>2 DEF FactoryReset
  <2>3. ASSUME NEW s \in Session, SaveDevice(s)
        PROVE  Kept
    BY <2>3 DEF SaveDevice, SafeInv, Sound, UpToDate, Open, Recorded, Stored, StoredHonest, Honest
  <2>4. CASE Damage
    BY <2>1, <2>4 DEF Damage
  <2>5. ASSUME NEW s \in Session, Step(s), ~SaveDevice(s)
        PROVE  UNCHANGED devMan
    BY <2>5 DEF Step, Start, LoadManifest, SyncPicture, SyncManifest, Look, PickCapture,
       HashScreen, ReadScreen, CaptureToHost, CaptureToDevice, SaveHost,
       NoteApplied, PickRestore, FetchStock, WriteScreen, SkipRestore, Stop, StopWriting, device
  <2> QED BY <2>1, <2>2, <2>3, <2>4, <2>5 DEF Next, vars
<1> QED BY <1>1, SafeAlways, PTL DEF Spec, WriteOnce

(* What a step does to the pictures: it adds stock art, of a screen that    *)
(* holds it or of one that has a copy elsewhere, or spoils or erases some.  *)
LEMMA PicturesNext ==
    ASSUME SafeInv, NEW s \in Session, Step(s)
    PROVE  \/ UNCHANGED <<devPng, hostPng>>
           \/ /\ UNCHANGED screen
              /\ \E p \in Screen :
                    /\ screen[p] = Stock \/ devPng[p] = Stock
                    /\ \/ devPng' = [devPng EXCEPT ![p] = Stock] /\ UNCHANGED hostPng
                       \/ /\ hostPng' = [hostPng EXCEPT ![HostOf[s]][p] = Stock]
                          /\ UNCHANGED devPng
           \/ /\ UNCHANGED <<screen, devPng>>
              /\ \E p \in Screen :
                    /\ screen[p] = Stock \/ hostPng[HostOf[s]][p] # Stock
                    /\ hostPng' = [hostPng EXCEPT ![HostOf[s]][p] = Torn]
<1> DEFINE h == HostOf[s]
           m == ses[s]
<1>0. /\ m \in SessionType /\ m.at \in Screen /\ Sound(m, h) /\ m.todo \subseteq Screen
      /\ \A p \in Screen : m.mem.stock[p] \in {None, Stock}
  BY DEF SafeInv, Typed, TypeOK, SessionType, Stage, Sound, Honest
<1>1. CASE SyncPicture(s)
  <2>1. \A p \in m.todo : p \in Screen /\ m.mem.stock[p] = Stock
    BY <1>0, <1>1 DEF SyncPicture, Sound, Progress
  <2> QED BY <1>1, <2>1 DEF SyncPicture, tablet, device
<1>2. CASE CaptureToHost(s)
  BY <1>0, <1>2 DEF CaptureToHost, tablet, device, Sound, Progress
<1>3. CASE CaptureToDevice(s)
  BY <1>0, <1>3 DEF CaptureToDevice, tablet, computer, Sound, Progress
<1>4. CASE StopWriting(s)
  <2>1. PICK p \in Screen :
            /\ hostPng' = [hostPng EXCEPT ![h][p] = Torn]
            /\ \/ m.pc = "hostpng" /\ p = m.at
               \/ m.pc = "sync" /\ p \in m.todo /\ devPng[p] = m.mem.stock[p]
                  /\ hostPng[h][p] # devPng[p]
    BY <1>0, <1>4 DEF StopWriting
  <2>2. screen[p] = Stock \/ hostPng[h][p] # Stock
    BY <1>0, <2>1 DEF Sound, Progress
  <2> QED BY <1>4, <2>1, <2>2 DEF StopWriting, tablet, device
<1>5. CASE ~(SyncPicture(s) \/ CaptureToHost(s) \/ CaptureToDevice(s) \/ StopWriting(s))
  BY <1>5 DEF Step, Start, LoadManifest, SyncManifest, Look, PickCapture,
     HashScreen, ReadScreen, SaveHost, SaveDevice, NoteApplied, PickRestore, FetchStock,
     WriteScreen, SkipRestore, Stop, device, computer
<1> QED BY <1>1, <1>2, <1>3, <1>4, <1>5

(* Damage and a factory reset leave a good copy of what is off its screen. *)
LEMMA LossesNext ==
    ASSUME SafeInv, Alone, Damage \/ FactoryReset
    PROVE  /\ UNCHANGED screen
           /\ \A p \in Screen :
                /\ devPng'[p] \in {devPng[p], None, Torn}
                /\ \A h \in Host : hostPng'[h][p] \in {hostPng[h][p], Torn}
<1>1. devPng \in [Screen -> File] /\ hostPng \in [Host -> [Screen -> File]]
  BY DEF SafeInv, Typed, TypeOK
<1>2. CASE Damage
  <2>1. PICK p \in Screen, c \in Host \cup {None} :
            \/ devPng' = [devPng EXCEPT ![p] = Torn] /\ UNCHANGED hostPng
            \/ c \in Host /\ hostPng' = [hostPng EXCEPT ![c][p] = Torn] /\ UNCHANGED devPng
    BY <1>2 DEF Damage, Copies
  <2> QED BY <1>1, <1>2, <2>1 DEF Damage, tablet
<1>3. CASE FactoryReset
  BY <1>3 DEF FactoryReset, tablet, computer
<1> QED BY <1>2, <1>3

(* backup.py, rule 1, of pictures: no backup of stock art is ever replaced *)
(* by a custom image, on the tablet or on a computer.                      *)
THEOREM BackupsAreKept == ASSUME Alone PROVE Spec => BackupKept
<1> DEFINE Kept == \A p \in Screen :
              /\ devPng[p] = Stock => devPng'[p] \notin Custom
              /\ \A h \in Host : hostPng[h][p] = Stock => hostPng'[h][p] \notin Custom
<1>1. SafeInv /\ [Next]_vars => Kept
  <2> SUFFICES ASSUME SafeInv, [Next]_vars PROVE Kept
    OBVIOUS
  <2>1. devPng \in [Screen -> File] /\ hostPng \in [Host -> [Screen -> File]]
    BY DEF SafeInv, Typed, TypeOK
  <2>2. Torn \notin Custom /\ None \notin Custom /\ Stock \notin Custom
    BY ImageAssumption DEF Image
  <2>3. CASE UNCHANGED <<devPng, hostPng>>
    BY <2>2, <2>3
  <2>4. ASSUME NEW s \in Session, Step(s) PROVE Kept
    <3>1. ASSUME NEW p \in Screen, NEW x \in {Stock, Torn},
                 \/ devPng' = [devPng EXCEPT ![p] = x] /\ UNCHANGED hostPng
                 \/ hostPng' = [hostPng EXCEPT ![HostOf[s]][p] = x] /\ UNCHANGED devPng
          PROVE  Kept
      BY <2>1, <2>2, <3>1
    <3> QED BY <2>3, <2>4, <3>1, PicturesNext
  <2>5. CASE Damage \/ FactoryReset
    BY <2>2, <2>5, LossesNext
  <2> QED BY <2>3, <2>4, <2>5 DEF Next, vars
<1> QED BY <1>1, SafeAlways, PTL DEF Spec, BackupKept

-----------------------------------------------------------------------------
(* A picture is kept of what goes off its screen, or the promise allows it. *)
LEMMA LoseAllowed ==
    ASSUME UNCHANGED screen,
           \A p \in Screen : (Copies(p) # {})' => Copies(p) # {},
           \A p \in Screen : screen[p] # Stock /\ Copies(p) # {} => (Copies(p) # {})'
    PROVE  Promise!Lose
<1> DEFINE P == {p \in Screen : screen[p] = Stock /\ ~(Copies(p) # {})'}
<1>1. P \in SUBSET {p \in Screen : screen[p] = Stock}
  OBVIOUS
<1>2. [p \in Screen |-> (Copies(p) # {})']
        = [p \in Screen |-> IF p \in P THEN FALSE
                            ELSE [q \in Screen |-> Copies(q) # {}][p]]
  OBVIOUS
<1> QED BY <1>1, <1>2 DEF Promise!Lose

LEMMA HasCopies ==
    \A p \in Screen : Copies(p) # {} <=> devPng[p] = Stock \/ \E h \in Host : hostPng[h][p] = Stock
BY DEF Copies

LEMMA HasCopiesNext ==
    \A p \in Screen : (Copies(p) # {})' <=>
                        devPng'[p] = Stock \/ \E h \in Host : hostPng'[h][p] = Stock
BY DEF Copies

LEMMA InitPromised == Init => Promise!Init
<1> SUFFICES ASSUME Init PROVE Promise!Init
  OBVIOUS
<1>1. \A p \in Screen : ~(Copies(p) # {})
  BY HasCopies, Names DEF Init
<1> QED BY <1>1 DEF Init, Promise!Init

LEMMA StillPromised == UNCHANGED vars => [Promise!Next]_(Promise!vars)
<1> SUFFICES ASSUME UNCHANGED vars PROVE UNCHANGED Promise!vars
  OBVIOUS
<1>1. \A p \in Screen : (Copies(p) # {})' <=> Copies(p) # {}
  BY HasCopies, HasCopiesNext DEF vars
<1>2. [p \in Screen |-> (Copies(p) # {})'] = [p \in Screen |-> Copies(p) # {}]
  BY <1>1
<1> QED BY <1>2 DEF vars, Promise!vars

(* A step of a session is a capture, a write, a loss or nothing to Vault.  *)
Pictures(h) ==
    \/ UNCHANGED <<devPng, hostPng>>
    \/ /\ UNCHANGED screen
       /\ \E p \in Screen :
             /\ screen[p] = Stock \/ Copies(p) # {}
             /\ \/ devPng' = [devPng EXCEPT ![p] = Stock] /\ UNCHANGED hostPng
                \/ hostPng' = [hostPng EXCEPT ![h][p] = Stock] /\ UNCHANGED devPng
    \/ /\ UNCHANGED <<screen, devPng>>
       /\ \E p \in Screen :
             /\ screen[p] = Stock \/ hostPng[h][p] # Stock \/ (Copies(p) # {})'
             /\ hostPng' = [hostPng EXCEPT ![h][p] = Torn]

LEMMA StepPromised ==
    ASSUME Typed, NEW s \in Session, Step(s), Pictures(HostOf[s]),
           WriteScreen(s) => Copies(ses[s].at) # {}
    PROVE  [Promise!Next]_(Promise!vars)
<1> DEFINE h == HostOf[s]
           m == ses[s]
<1>0. /\ devPng \in [Screen -> File] /\ hostPng \in [Host -> [Screen -> File]]
      /\ h \in Host /\ screen \in [Screen -> Image] /\ Torn # Stock
      /\ m \in SessionType /\ m.at \in Screen
  BY HostAssumption, Names DEF Typed, TypeOK, SessionType, Stage
<1>1. CASE WriteScreen(s)
  <2>1. /\ screen' = [screen EXCEPT ![m.at] = m.data] /\ UNCHANGED <<devPng, hostPng>>
        /\ m.data \in Custom \cup {Stock}
    <3>1. m.data \in Image
      BY <1>0, <1>1 DEF WriteScreen, Typed, Asked, SessionType
    <3> QED BY <1>0, <1>1, <3>1 DEF WriteScreen, device, computer, Image
  <2>2. Copies(m.at) # {}
    BY <1>1
  <2>3. \A p \in Screen : (Copies(p) # {})' <=> Copies(p) # {}
    BY <2>1, HasCopies, HasCopiesNext
  <2>4. [p \in Screen |-> (Copies(p) # {})'] = [p \in Screen |-> Copies(p) # {}]
    BY <2>3
  <2>5. Promise!Write(m.at, m.data)
    BY <1>0, <2>1, <2>2, <2>4 DEF Promise!Write
  <2> QED BY <1>0, <2>1, <2>5 DEF Promise!Next
<1>2. CASE UNCHANGED <<screen, devPng, hostPng>>
  <2>1. \A p \in Screen : (Copies(p) # {})' <=> Copies(p) # {}
    BY <1>2, HasCopies, HasCopiesNext
  <2>2. [p \in Screen |-> (Copies(p) # {})'] = [p \in Screen |-> Copies(p) # {}]
    BY <2>1
  <2> QED BY <1>2, <2>2 DEF Promise!vars
<1>3. ASSUME UNCHANGED screen, NEW p \in Screen, screen[p] = Stock \/ Copies(p) # {},
             \/ devPng' = [devPng EXCEPT ![p] = Stock] /\ UNCHANGED hostPng
             \/ hostPng' = [hostPng EXCEPT ![h][p] = Stock] /\ UNCHANGED devPng
      PROVE  [Promise!Next]_(Promise!vars)
  <2>1. \A q \in Screen : (Copies(q) # {})' <=> (q = p \/ Copies(q) # {})
    BY <1>0, <1>3, HasCopies, HasCopiesNext
  <2>2. [q \in Screen |-> (Copies(q) # {})']
          = [[q \in Screen |-> Copies(q) # {}] EXCEPT ![p] = TRUE]
    BY <2>1
  <2>3. Promise!Capture(p)
    BY <1>3, <2>2 DEF Promise!Capture
  <2> QED BY <2>3 DEF Promise!Next
<1>4. ASSUME UNCHANGED <<screen, devPng>>, NEW p \in Screen,
             screen[p] = Stock \/ hostPng[h][p] # Stock \/ (Copies(p) # {})',
             hostPng' = [hostPng EXCEPT ![h][p] = Torn]
      PROVE  [Promise!Next]_(Promise!vars)
  <2>1. \A g \in Host, q \in Screen : hostPng'[g][q] =
            IF g = h /\ q = p THEN Torn ELSE hostPng[g][q]
    BY <1>0, <1>4
  <2>2. \A q \in Screen : (Copies(q) # {})' => Copies(q) # {}
    BY <1>0, <1>4, <2>1, HasCopies, HasCopiesNext
  <2>3. \A q \in Screen : screen[q] # Stock /\ Copies(q) # {} => (Copies(q) # {})'
    BY <1>0, <1>4, <2>1, HasCopies, HasCopiesNext
  <2>4. Promise!Lose
    BY <1>4, <2>2, <2>3, LoseAllowed
  <2> QED BY <2>4 DEF Promise!Next
<1>5. ~WriteScreen(s) => UNCHANGED screen
  BY DEF Step, Start, LoadManifest, SyncPicture, SyncManifest, Look, PickCapture,
     HashScreen, ReadScreen, CaptureToHost, CaptureToDevice, SaveHost, SaveDevice, NoteApplied,
     PickRestore, FetchStock, SkipRestore, Stop, StopWriting, tablet
<1> QED BY <1>1, <1>2, <1>3, <1>4, <1>5 DEF Pictures

(* The refinement: with one operation at a time, all that manifests,       *)
(* computers, crashes, refusals and resets come to is what Vault allows.   *)
THEOREM PromiseIsKept == ASSUME Alone PROVE Spec => KeepsPromise
<1>1. Init => Promise!Init
  BY InitPromised
<1>2. SafeInv /\ SafeInv' /\ [Next]_vars => [Promise!Next]_(Promise!vars)
  <2> SUFFICES ASSUME SafeInv, SafeInv', [Next]_vars PROVE [Promise!Next]_(Promise!vars)
    OBVIOUS
  <2>1. ASSUME NEW s \in Session, Step(s)
        PROVE  [Promise!Next]_(Promise!vars)
    <3>1. Pictures(HostOf[s])
      BY <2>1, PicturesNext, HasCopies DEF Pictures
    <3>2. WriteScreen(s) => Copies(ses[s].at) # {}
      <4>1. ses[s].at \in Screen /\ Sound(ses[s], HostOf[s])
        BY DEF SafeInv, Typed, TypeOK
      <4>2. WriteScreen(s) => HasCopy(ses[s].at)
        BY <4>1 DEF WriteScreen, Sound, Progress
      <4> QED BY <4>1, <4>2, HasCopies DEF HasCopy
    <3> QED BY <2>1, <3>1, <3>2, StepPromised DEF SafeInv
  <2>2. CASE Damage \/ FactoryReset
    <3>1. /\ UNCHANGED screen
          /\ \A p \in Screen :
               /\ devPng'[p] \in {devPng[p], None, Torn}
               /\ \A h \in Host : hostPng'[h][p] \in {hostPng[h][p], Torn}
      BY <2>2, LossesNext
    <3>2. \A p \in Screen : (Copies(p) # {})' => Copies(p) # {}
      BY <3>1, Names, HasCopies, HasCopiesNext
    <3>3. \A p \in Screen : screen[p] # Stock => (Copies(p) # {})'
      BY <3>1, HasCopiesNext DEF SafeInv, Stored, CustomCopied, HasCopy
    <3>4. Promise!Lose
      BY <3>1, <3>2, <3>3, LoseAllowed
    <3> QED BY <3>4 DEF Promise!Next
  <2> QED BY <2>1, <2>2, StillPromised DEF Next
<1> QED BY <1>1, <1>2, SafeAlways, PTL DEF Spec, KeepsPromise, Promise!Spec

-----------------------------------------------------------------------------
(* What is off its screen can be put back by the next operation.  Every    *)
(* manifest that may be loaded has the entry, and a picture where          *)
(* stock_bytes looks: on the computer when the tablet may be reset, and    *)
(* otherwise at least a file on the tablet, spoiled only by damage.        *)
HasEntry(m, p) == m # None /\ m.stock[p] = Stock

DeviceGood == \A p \in Screen : devPng[p] \in {None, Stock} \/ (Damages /\ devPng[p] = Torn)
EntriesFiled == ~Resets => \A p \in Screen :
    HasEntry(devMan, p) \/ (\E h \in Host : HasEntry(hostMan[h], p)) => devPng[p] # None
CustomEntered == \A p \in Screen : screen[p] \in Custom =>
    /\ devMan # None => HasEntry(devMan, p)
    /\ Resets => \A h \in Host : HasEntry(hostMan[h], p)

Entered(r, h) ==
    /\ ~Resets => \A p \in Screen : r.mem.stock[p] = Stock => devPng[p] # None
    /\ Open(r) => \A p \in Screen : screen[p] \in Custom => r.mem.stock[p] = Stock
    /\ r.pc \in {"savehost", "savedev"} /\ r.stage = "intent" => r.mem.stock[r.at] = Stock
    /\ r.pc = "savedev" /\ r.stage = "intent" => HasEntry(hostMan[h], r.at)
    /\ r.pc = "write" /\ r.data \in Custom =>
           HasEntry(devMan, r.at) /\ HasEntry(hostMan[h], r.at)

Restored == /\ DeviceGood /\ EntriesFiled /\ CustomEntered
            /\ \A s \in Session : Entered(ses[s], HostOf[s])

LEMMA NoSessionEntered ==
    ASSUME NEW h \in Host PROVE Entered(NoSession, h) /\ Entered(NoSession, h)'
BY Names DEF Entered, NoSession, Empty, Open

(* Only the session that steps is to be looked at. *)
LEMMA EnteredFrame ==
    ASSUME Alone, SafeInv, NEW s \in Session, Step(s), NEW r \in SessionType,
           ses' = [ses EXCEPT ![s] = r], DeviceGood', EntriesFiled', CustomEntered',
           Entered(r, HostOf[s])'
    PROVE  Restored'
<1>1. ses[s].pc # "idle" \/ \A t \in Session : ses[t].pc = "idle"
  BY DEF Step, Start, LoadManifest, SyncPicture, SyncManifest, Look, PickCapture,
     HashScreen, ReadScreen, CaptureToHost, CaptureToDevice, SaveHost, SaveDevice,
     NoteApplied, PickRestore, FetchStock, WriteScreen, SkipRestore, Stop, StopWriting, Alone
<1>2. \A t \in Session \ {s} : ses'[t] = NoSession
  BY <1>1 DEF SafeInv, Turns, Typed, TypeOK
<1>3. ses'[s] = r
  BY DEF SafeInv, Typed, TypeOK
<1>4. ASSUME NEW t \in Session PROVE Entered(ses[t], HostOf[t])'
  <2>1. CASE t = s
    BY <1>3, <2>1
  <2>2. CASE t # s
    BY <1>2, <2>2, HostAssumption, NoSessionEntered
  <2> QED BY <2>1, <2>2
<1> QED BY <1>4 DEF Restored

(* Steps that leave manifests and screens alone, and lose no picture of    *)
(* the tablet.                                                             *)
LEMMA EnteredStill ==
    ASSUME Restored, NEW r, NEW h \in Host, Entered(r, h),
           UNCHANGED <<screen, devMan, hostMan>>,
           \A p \in Screen : devPng'[p] \in {devPng[p], Stock}
    PROVE  DeviceGood' /\ EntriesFiled' /\ CustomEntered' /\ Entered(r, h)'
<1>1. DeviceGood' /\ EntriesFiled' /\ CustomEntered'
  BY Names DEF Restored, DeviceGood, EntriesFiled, CustomEntered, HasEntry
<1>2. Entered(r, h)'
  BY Names DEF Entered, HasEntry
<1> QED BY <1>1, <1>2

(* Steps that keep the store's manifest in memory, or end the session. *)
LEMMA EnteredOnward ==
    ASSUME NEW r \in SessionType, NEW q \in SessionType, NEW h \in Host,
           Entered(r, h), Open(r), q.mem.stock = r.mem.stock,
           q.pc \in {"savehost", "savedev"} => q.stage # "intent",
           q.pc = "write" => q.data \notin Custom
    PROVE  Entered(q, h)
BY DEF Entered

LEMMA QuietEntered ==
    ASSUME NEW s, NEW r, Steps(s, r), Restored,
           \/ Look(s) \/ PickCapture(s) \/ HashScreen(s) \/ ReadScreen(s) \/ CaptureToHost(s)
           \/ PickRestore(s) \/ FetchStock(s) \/ SkipRestore(s) \/ Stop(s) \/ NoteApplied(s)
           \/ SyncPicture(s) \/ StopWriting(s)
    PROVE  Entered(r, HostOf[s])
<1> DEFINE h == HostOf[s]
           m == ses[s]
<1>0. /\ s \in Session /\ h \in Host /\ m \in SessionType /\ r \in SessionType /\ ses'[s] = r
      /\ ses \in [Session -> SessionType] /\ m.at \in Screen /\ Typed
      /\ \A p \in Screen : m.mem.stock[p] \in {None, Stock}
  BY Facts
<1>1. Entered(m, h)
  BY <1>0 DEF Restored
<1>2. r = NoSession => Entered(r, h)
  BY Names DEF Entered, NoSession, Empty, Open
<1>3. ASSUME NextOrEnd(s), Open(m) PROVE Entered(r, h)
  <2>1. r = NoSession \/ (r.pc = "pick" /\ r.mem = m.mem)
    BY <1>0, <1>3, Ends
  <2> QED BY <1>0, <1>1, <1>2, <1>3, <2>1, EnteredOnward
<1>4. CASE End(s)
  BY <1>0, <1>2, <1>4, Ends
<1>5. ASSUME m.pc = "stock", NEW data \in StockBytes(s), Verified(s, data)
      PROVE  data = Stock /\ m.mem.stock[m.at] = Stock
  BY <1>0, <1>5 DEF Verified
<1>6. CASE NoteApplied(s) /\ ~End(s)
  <2>1. PICK data \in StockBytes(s) : Verified(s, data) /\
                ses' = [ses EXCEPT ![s].mem.applied = @ \cup {ses[s].image},
                                   ![s].data = ses[s].image,
                                   ![s].stage = "intent", ![s].pc = "savehost"]
    BY <1>6 DEF NoteApplied
  <2>2. r = [m EXCEPT !.mem = [m.mem EXCEPT !.applied = @ \cup {m.image}],
                      !.data = m.image, !.stage = "intent", !.pc = "savehost"]
    BY <1>0, <2>1 DEF SessionType
  <2>3. r.mem.stock = m.mem.stock /\ r.at = m.at /\ r.pc = "savehost"
    BY <1>0, <2>2 DEF SessionType, Manifest
  <2>4. m.mem.stock[m.at] = Stock /\ Open(m)
    BY <1>5, <1>6, <2>1 DEF NoteApplied, Open
  <2> QED BY <1>1, <2>3, <2>4 DEF Entered
<1>7. CASE FetchStock(s) /\ ~NextOrEnd(s)
  <2>1. PICK data \in StockBytes(s) : Verified(s, data) /\
                ses' = [ses EXCEPT ![s].data = data, ![s].pc = "write"]
    BY <1>7 DEF FetchStock
  <2>2. data = Stock
    BY <1>5, <1>7, <2>1 DEF FetchStock
  <2>3. r.mem = m.mem /\ r.pc = "write" /\ r.data = Stock
    BY <1>0, <2>1, <2>2 DEF SessionType
  <2> QED BY <1>0, <1>1, <1>7, <2>3, Names, EnteredOnward DEF FetchStock, Open
<1>8. CASE PickCapture(s) \/ PickRestore(s) \/ SyncPicture(s)
  <2>1. Open(m) /\ m.pc \notin {"write", "savehost", "savedev"}
    BY <1>8 DEF PickCapture, PickRestore, SyncPicture, Open
  <2>2. \/ r = NoSession
        \/ /\ r.mem = m.mem /\ r.pc # "write"
           /\ r.pc \in {"savehost", "savedev"} => r.stage # "intent"
    <3>1. CASE \E p \in m.todo : \E l \in {"hash", "stock"} :
                    ses' = [ses EXCEPT ![s].at = p, ![s].pc = l]
      BY <1>0, <3>1 DEF SessionType
    <3>2. CASE \E p \in m.todo : ses' = [ses EXCEPT ![s].todo = @ \ {p}]
      BY <1>0, <2>1, <3>2 DEF SessionType
    <3>3. CASE ses' = [ses EXCEPT ![s].pc = "savehost", ![s].stage = "final"]
      BY <1>0, <3>3 DEF SessionType
    <3> QED BY <1>0, <1>8, <3>1, <3>2, <3>3, Ends DEF PickCapture, PickRestore, SyncPicture
  <2> QED BY <1>0, <1>1, <1>2, <2>1, <2>2, EnteredOnward
<1>9. CASE (HashScreen(s) \/ ReadScreen(s) \/ CaptureToHost(s)) /\ ~NextOrEnd(s)
  <2>1. Open(m)
    BY <1>9 DEF HashScreen, ReadScreen, CaptureToHost, Open
  <2>2. r.mem = m.mem /\ r.pc \in {"read", "hostpng", "devpng"}
    BY <1>0, <1>9 DEF HashScreen, ReadScreen, CaptureToHost, Goto, SessionType
  <2> QED BY <1>0, <1>1, <2>1, <2>2, EnteredOnward
<1> QED BY <1>3, <1>4, <1>6, <1>7, <1>8, <1>9
        DEF Look, Stop, StopWriting, SkipRestore, HashScreen, ReadScreen, FetchStock, NoteApplied,
            CaptureToHost, Open

LEMMA LoadEntered ==
    ASSUME NEW s, NEW r, Steps(s, r), Restored, Start(s) \/ LoadManifest(s)
    PROVE  Entered(r, HostOf[s])
<1> DEFINE h == HostOf[s]
           m == ses[s]
<1>0. /\ s \in Session /\ h \in Host /\ m \in SessionType /\ r \in SessionType /\ ses'[s] = r
      /\ ses \in [Session -> SessionType] /\ Stored
  BY Facts
<1>1. CASE Start(s)
  <2>1. m = NoSession
    BY <1>1 DEF Start, Steps, SafeInv, Turns
  <2>2. PICK k \in Kinds, i \in Image, p \in Screen :
            /\ k = "apply" <=> i \in Custom
            /\ ses' = [ses EXCEPT ![s].kind = k, ![s].image = i, ![s].at = p, ![s].pc = "load"]
    BY <1>1 DEF Start
  <2>3. r.mem = m.mem /\ r.pc = "load"
    BY <1>0, <2>2 DEF SessionType
  <2>4. \A q \in Screen : r.mem.stock[q] = None
    BY <2>1, <2>3 DEF NoSession, Empty
  <2> QED BY <2>3, <2>4, Names DEF Entered, Open
<1>2. CASE LoadManifest(s)
  <2> DEFINE new == IF devMan # None THEN devMan
                    ELSE IF hostMan[h] # None THEN hostMan[h] ELSE Empty
  <2>1. r.mem = new /\ (r.pc = "sync" \/ r.pc = Entry(s, new))
    BY <1>0, <1>2 DEF LoadManifest, SessionType
  <2>2. r.pc \in {"sync", "pick", "stock", "hash", "look"}
    BY <2>1 DEF Entry
  <2>3. ASSUME NEW p \in Screen, ~Resets, new.stock[p] = Stock
        PROVE  devPng[p] # None
    BY <1>0, <2>3, Names DEF Restored, EntriesFiled, HasEntry, Empty
  <2>4. ASSUME NEW p \in Screen, screen[p] \in Custom
        PROVE  new.stock[p] = Stock
    BY <1>0, <2>4 DEF Restored, CustomEntered, HasEntry, Stored, CustomKnown
  <2> HIDE DEF new
  <2> QED BY <2>1, <2>2, <2>3, <2>4 DEF Entered
<1> QED BY <1>1, <1>2

LEMMA CaptureEntered ==
    ASSUME NEW s, NEW r, Steps(s, r), Restored, CaptureToDevice(s)
    PROVE  DeviceGood' /\ EntriesFiled' /\ CustomEntered' /\ Entered(r, HostOf[s])'
<1> DEFINE h == HostOf[s]
           m == ses[s]
<1>0. /\ s \in Session /\ h \in Host /\ m \in SessionType /\ r \in SessionType /\ ses'[s] = r
      /\ ses \in [Session -> SessionType] /\ Sound(m, h) /\ devPng \in [Screen -> File]
      /\ m.at \in Screen /\ m.mem \in Manifest
  BY Facts
<1>1. m.pc = "devpng" /\ m.data = Stock /\ UNCHANGED <<screen, devMan, hostMan>>
  BY <1>0 DEF CaptureToDevice, Sound, Progress, tablet, computer
<1>2. \A p \in Screen : devPng'[p] = IF p = m.at THEN Stock ELSE devPng[p]
  BY <1>0, <1>1 DEF CaptureToDevice
<1>3. r.pc = "savehost" /\ r.stage = "capture"
      /\ \A p \in Screen : r.mem.stock[p] = IF p = m.at THEN Stock ELSE m.mem.stock[p]
  <2>1. r = [m EXCEPT !.mem = [m.mem EXCEPT !.stock[m.at] = m.data],
                      !.pc = "savehost", !.stage = "capture"]
    BY <1>0 DEF CaptureToDevice, SessionType
  <2> QED BY <1>0, <1>1, <2>1 DEF SessionType, Manifest
<1>4. DeviceGood' /\ EntriesFiled' /\ CustomEntered'
  BY <1>1, <1>2, Names DEF Restored, DeviceGood, EntriesFiled, CustomEntered, HasEntry
<1>5. Entered(m, h) /\ Open(m)
  BY <1>0, <1>1 DEF Restored, Open
<1>6. Entered(r, h)'
  BY <1>1, <1>2, <1>3, <1>5, Names DEF Entered, Open
<1> QED BY <1>4, <1>6

(* The manifests that are saved have what the one in memory has. *)
LEMMA SavedEntered ==
    ASSUME NEW s, NEW r, Steps(s, r), Restored,
           SyncManifest(s) \/ SaveHost(s) \/ SaveDevice(s)
    PROVE  DeviceGood' /\ EntriesFiled' /\ CustomEntered' /\ Entered(r, HostOf[s])'
<1> DEFINE h == HostOf[s]
           m == ses[s]
<1>0. /\ s \in Session /\ h \in Host /\ m \in SessionType /\ r \in SessionType /\ ses'[s] = r
      /\ ses \in [Session -> SessionType] /\ Sound(m, h) /\ m.at \in Screen /\ Typed
      /\ m.mem \in Manifest /\ hostMan \in [Host -> Manifest \cup {None}]
      /\ m.mem # None
  BY Facts, ManifestAssumption
<1>1. /\ Entered(m, h) /\ Open(m) /\ UNCHANGED <<screen, devPng, hostPng>>
      /\ m.pc \in {"sync", "savehost", "savedev"}
  BY <1>0 DEF Restored, Open, SyncManifest, SaveHost, SaveDevice, tablet, device, computer
<1>2. \/ devMan' = m.mem /\ UNCHANGED hostMan
      \/ hostMan' = [hostMan EXCEPT ![h] = m.mem] /\ UNCHANGED devMan
  BY DEF SyncManifest, SaveHost, SaveDevice, device, computer
<1>3. \A p \in Screen : HasEntry(m.mem, p) <=> m.mem.stock[p] = Stock
  BY <1>0 DEF HasEntry
<1>4. EntriesFiled'
  <2> SUFFICES ASSUME ~Resets, NEW p \in Screen,
                      HasEntry(devMan', p) \/ \E g \in Host : HasEntry(hostMan'[g], p)
               PROVE  devPng[p] # None
    BY <1>1 DEF EntriesFiled, HasEntry
  <2>1. \/ HasEntry(m.mem, p) \/ HasEntry(devMan, p)
        \/ \E g \in Host : HasEntry(hostMan[g], p)
    BY <1>0, <1>2
  <2> QED BY <1>1, <1>3, <2>1 DEF Restored, EntriesFiled, Entered
<1>5. CustomEntered'
  <2> SUFFICES ASSUME NEW p \in Screen, screen[p] \in Custom
               PROVE  /\ devMan' # None => HasEntry(devMan', p)
                      /\ Resets => \A g \in Host : HasEntry(hostMan'[g], p)
    BY <1>1 DEF CustomEntered, HasEntry
  <2>1. HasEntry(m.mem, p)
    BY <1>0, <1>1 DEF Entered, HasEntry
  <2> QED BY <1>0, <1>2, <2>1 DEF Restored, CustomEntered
<1>6. DeviceGood'
  BY <1>1 DEF Restored, DeviceGood
<1>7. CASE SyncManifest(s)
  <2>1. r.mem = m.mem /\ r.pc = Entry(s, m.mem)
    BY <1>0, <1>7 DEF SyncManifest, SessionType
  <2>2. r.pc \in {"pick", "stock", "hash", "look"}
    BY <2>1 DEF Entry
  <2> QED BY <1>1, <1>4, <1>5, <1>6, <2>1, <2>2 DEF Entered
<1>8. CASE SaveHost(s)
  <2>1. r.mem = m.mem /\ r.at = m.at /\ r.pc = "savedev" /\ r.stage = m.stage /\ m.pc = "savehost"
    BY <1>0, <1>8 DEF SaveHost, Goto, SessionType
  <2>2. hostMan'[h] = m.mem
    BY <1>0, <1>8 DEF SaveHost
  <2> QED BY <1>0, <1>1, <1>4, <1>5, <1>6, <2>1, <2>2 DEF Entered, HasEntry
<1>9. CASE SaveDevice(s)
  <2>1. m.pc = "savedev" /\ devMan' = m.mem /\ UNCHANGED hostMan
    BY <1>9 DEF SaveDevice, computer
  <2>2. \/ r = NoSession
        \/ /\ r.mem = m.mem /\ r.at = m.at
           /\ r.pc \in {"pick", "stock"} \/ (r.pc = "write" /\ m.stage = "intent")
    <3>1. CASE Goto(s, "stock") \/ (m.stage = "intent" /\ Goto(s, "write"))
      BY <1>0, <3>1 DEF Goto, SessionType
    <3>2. CASE NextOrEnd(s) /\ IsBatch(s)
      BY <1>0, <3>2 DEF NextOrEnd, SessionType
    <3>3. CASE End(s)
      BY <1>0, <3>3, Ends
    <3> QED BY <1>9, <3>1, <3>2, <3>3 DEF SaveDevice, NextOrEnd
  <2>3. CASE r = NoSession
    BY <1>0, <1>4, <1>5, <1>6, <2>3, NoSessionEntered
  <2>4. CASE r # NoSession
    <3>1. Entered(r, h)'
      BY <1>0, <1>1, <2>1, <2>2, <2>4 DEF Entered, HasEntry
    <3> QED BY <1>4, <1>5, <1>6, <3>1
  <2> QED BY <2>3, <2>4
<1> QED BY <1>7, <1>8, <1>9

(* The write: both manifests have the entry of the screen it changes. *)
LEMMA WriteEntered ==
    ASSUME NEW s, NEW r, Steps(s, r), Restored, WriteScreen(s)
    PROVE  DeviceGood' /\ EntriesFiled' /\ CustomEntered' /\ Entered(r, HostOf[s])'
<1> DEFINE h == HostOf[s]
           m == ses[s]
<1>0. /\ s \in Session /\ h \in Host /\ m \in SessionType /\ r \in SessionType /\ ses'[s] = r
      /\ ses \in [Session -> SessionType] /\ Sound(m, h) /\ m.at \in Screen /\ Typed
      /\ screen \in [Screen -> Image]
  BY Facts
<1>1. /\ Entered(m, h) /\ Open(m) /\ UNCHANGED <<devPng, hostPng, devMan, hostMan>>
      /\ m.pc = "write"
  BY <1>0 DEF Restored, Open, WriteScreen, device, computer
<1>2. \A p \in Screen : screen'[p] = IF p = m.at THEN m.data ELSE screen[p]
  BY <1>0 DEF WriteScreen
<1>3. CustomEntered'
  <2> SUFFICES ASSUME NEW p \in Screen, screen'[p] \in Custom
               PROVE  /\ devMan # None => HasEntry(devMan, p)
                      /\ Resets => \A g \in Host : HasEntry(hostMan[g], p)
    BY <1>1 DEF CustomEntered, HasEntry
  <2>1. CASE p = m.at
    BY <1>0, <1>1, <1>2, <2>1 DEF Entered, Steps, Alone
  <2>2. CASE p # m.at
    BY <1>2, <2>2 DEF Restored, CustomEntered
  <2> QED BY <2>1, <2>2
<1>4. DeviceGood' /\ EntriesFiled'
  BY <1>1 DEF Restored, DeviceGood, EntriesFiled, HasEntry
<1>5. \/ r = NoSession
      \/ r.pc = "pick" /\ r.mem = m.mem /\ m.kind # "apply"
  BY <1>0, Ends DEF WriteScreen, IsBatch
<1>6. Entered(r, h)'
  <2>1. CASE r = NoSession
    BY <1>0, <2>1, NoSessionEntered
  <2>2. CASE r.pc = "pick" /\ r.mem = m.mem /\ m.kind # "apply"
    <3>1. m.data = Stock
      BY <1>0, <1>1, <2>2 DEF Sound, Progress
    <3>2. \A p \in Screen : screen'[p] \in Custom => screen'[p] = screen[p]
      BY <1>2, <3>1, Names
    <3> QED BY <1>1, <2>2, <3>2 DEF Entered
  <2> QED BY <1>5, <2>1, <2>2
<1> QED BY <1>3, <1>4, <1>6

LEMMA StepRestored ==
    ASSUME Alone, SafeInv, Typed', Restored, NEW s \in Session, Step(s)
    PROVE  Restored'
<1>1. /\ ses \in [Session -> SessionType] /\ ses' \in [Session -> SessionType]
      /\ s \in Session /\ ses[s] \in SessionType
  BY DEF SafeInv, Typed, TypeOK, SessionType, Stage
<1>2. ses' = [ses EXCEPT ![s] = ses'[s]]
  <2>1. \A t \in Session \ {s} : ses'[t] = ses[t]
    BY OneMoves DEF SafeInv
  <2> QED BY <1>1, <2>1
<1>3. PICK r \in SessionType : r = ses'[s]
  BY <1>1
<1>4. Steps(s, r)
  BY <1>1, <1>2, <1>3 DEF Steps
<1>5. HostOf[s] \in Host
  BY HostAssumption
<1>6. ASSUME Entered(r, HostOf[s]), UNCHANGED <<screen, devPng, devMan, hostMan>>
      PROVE  DeviceGood' /\ EntriesFiled' /\ CustomEntered' /\ Entered(r, HostOf[s])'
  BY <1>5, <1>6, EnteredStill
<1>7. DeviceGood' /\ EntriesFiled' /\ CustomEntered' /\ Entered(r, HostOf[s])'
  <2>1. CASE Start(s) \/ LoadManifest(s)
    BY <1>4, <1>6, <2>1, LoadEntered DEF Start, LoadManifest, tablet, device, computer
  <2>2. CASE \/ Look(s) \/ PickCapture(s) \/ HashScreen(s) \/ ReadScreen(s) \/ CaptureToHost(s)
             \/ PickRestore(s) \/ FetchStock(s) \/ SkipRestore(s) \/ Stop(s) \/ NoteApplied(s)
             \/ SyncPicture(s) \/ StopWriting(s)
    <3>1. Entered(r, HostOf[s])
      BY <1>4, <2>2, QuietEntered
    <3> QED BY <1>6, <2>2, <3>1
            DEF Look, PickCapture, HashScreen, ReadScreen, CaptureToHost, PickRestore, FetchStock,
                SkipRestore, Stop, NoteApplied, SyncPicture, StopWriting, tablet, device, computer
  <2>3. CASE CaptureToDevice(s)
    BY <1>4, <2>3, CaptureEntered
  <2>4. CASE SyncManifest(s) \/ SaveHost(s) \/ SaveDevice(s)
    BY <1>4, <2>4, SavedEntered
  <2>5. CASE WriteScreen(s)
    BY <1>4, <2>5, WriteEntered
  <2> QED BY <2>1, <2>2, <2>3, <2>4, <2>5 DEF Step
<1> QED BY <1>2, <1>3, <1>7, EnteredFrame

(* A reset leaves the computer's manifest, and damage a file that is spoilt.*)
LEMMA LossRestored ==
    ASSUME Alone, SafeInv, Restored, Damage \/ FactoryReset
    PROVE  Restored'
<1>1. \A s \in Session : ses'[s] = NoSession
  BY DEF Damage, FactoryReset, SafeInv, Turns
<1>2. \A s \in Session : Entered(ses[s], HostOf[s])'
  BY <1>1, HostAssumption, NoSessionEntered
<1>3. CASE FactoryReset
  <2>1. /\ Resets /\ devMan' = None /\ UNCHANGED <<screen, hostMan>>
        /\ \A p \in Screen : devPng'[p] = None
    BY <1>3 DEF FactoryReset, tablet, computer
  <2>2. DeviceGood' /\ EntriesFiled' /\ CustomEntered'
    BY <2>1 DEF Restored, DeviceGood, EntriesFiled, CustomEntered, HasEntry
  <2> QED BY <1>2, <2>2 DEF Restored
<1>4. CASE Damage
  <2>1. /\ Damages /\ UNCHANGED <<screen, devMan, hostMan>>
        /\ \A p \in Screen : devPng'[p] \in {devPng[p], Torn}
    <3>1. PICK p \in Screen, c \in Host \cup {None} :
              \/ devPng' = [devPng EXCEPT ![p] = Torn] /\ UNCHANGED hostPng
              \/ UNCHANGED devPng
      BY <1>4 DEF Damage, Copies
    <3>2. devPng \in [Screen -> File]
      BY DEF SafeInv, Typed, TypeOK
    <3> QED BY <1>4, <3>1, <3>2 DEF Damage, tablet
  <2>2. DeviceGood' /\ EntriesFiled' /\ CustomEntered'
    BY <2>1, Names DEF Restored, DeviceGood, EntriesFiled, CustomEntered, HasEntry
  <2> QED BY <1>2, <2>2 DEF Restored
<1> QED BY <1>3, <1>4

LEMMA RestoredAlways == ASSUME Alone PROVE Spec => [](SafeInv /\ Restored)
<1>1. Init => Restored
  <2> SUFFICES ASSUME Init PROVE Restored
    OBVIOUS
  <2>1. \A s \in Session : Entered(ses[s], HostOf[s])
    <3>1. \A s \in Session : ses[s] = NoSession
      BY DEF Init
    <3> QED BY <3>1, HostAssumption, NoSessionEntered
  <2>2. DeviceGood /\ EntriesFiled /\ CustomEntered
    BY Names DEF Init, DeviceGood, EntriesFiled, CustomEntered, HasEntry
  <2> QED BY <2>1, <2>2 DEF Restored
<1>2. SafeInv /\ SafeInv' /\ Restored /\ [Next]_vars => Restored'
  <2> SUFFICES ASSUME SafeInv, SafeInv', Restored, [Next]_vars PROVE Restored'
    OBVIOUS
  <2>1. CASE \E s \in Session : Step(s)
    BY <2>1, StepRestored DEF SafeInv
  <2>2. CASE Damage \/ FactoryReset
    BY <2>2, LossRestored
  <2>3. CASE UNCHANGED vars
    BY <2>3 DEF vars, Restored, DeviceGood, EntriesFiled, CustomEntered, Entered, Open, HasEntry
  <2> QED BY <2>1, <2>2, <2>3 DEF Next
<1> QED BY <1>1, <1>2, SafeAlways, PTL DEF Spec

(* restore can always do what it is for: between operations, some computer *)
(* loads a manifest that names the stock art of a custom screen, and finds *)
(* it, or a copy of the tablet's that was spoilt from outside.             *)
THEOREM CustomIsRestorable == ASSUME Alone PROVE Spec => []Restorable
<1>1. SafeInv /\ Restored => Restorable
  <2> SUFFICES ASSUME SafeInv, Restored, NEW p \in Screen, screen[p] \in Custom
               PROVE  \E h \in Host : LET m == IF devMan # None THEN devMan ELSE hostMan[h] IN
                          /\ m # None
                          /\ m.stock[p] = Stock
                          /\ devPng[p] # None \/ hostPng[h][p] = Stock
                          /\ devPng[p] \in {None, Stock} \/ (Damages /\ devPng[p] = Torn)
    BY DEF Restorable
  <2>1. devPng[p] \in {None, Stock} \/ (Damages /\ devPng[p] = Torn)
    BY DEF Restored, DeviceGood
  <2>2. HasCopy(p) /\ (devMan # None \/ Resets)
    BY Names DEF SafeInv, Stored, CustomCopied, CustomKnown
  <2>3. PICK h \in Host : ~Resets \/ hostPng[h][p] = Stock
    BY <2>2, HostAssumption DEF HasCopy
  <2>4. CASE devMan # None
    <3>1. HasEntry(devMan, p)
      BY <2>4 DEF Restored, CustomEntered
    <3>2. devPng[p] # None \/ hostPng[h][p] = Stock
      BY <2>3, <3>1 DEF Restored, EntriesFiled
    <3> QED BY <2>1, <2>4, <3>1, <3>2 DEF HasEntry
  <2>5. CASE devMan = None
    <3>1. Resets /\ HasEntry(hostMan[h], p)
      BY <2>2, <2>5 DEF Restored, CustomEntered
    <3> QED BY <2>1, <2>3, <2>5, <3>1 DEF HasEntry
  <2> QED BY <2>4, <2>5
<1> QED BY <1>1, RestoredAlways, PTL

-----------------------------------------------------------------------------
(* Overlapping sessions, where there is one screen and the mtime check is   *)
(* made: what a computer knows of it is nothing or everything.  Nothing is  *)
(* assumed of how the sessions interleave, of which computers they are on,  *)
(* or of resets; Apart is for the copies, which are safe as long as nothing *)
(* spoils them from outside and, where the tablet may be reset, each        *)
(* computer has one session.                                                *)
FirstMeeting == (\A p, q \in Screen : p = q) /\ ReadsMtime /\ ~AssumeStock
Apart == ~Damages /\ (Resets => \A s, t \in Session : HostOf[s] = HostOf[t] => s = t)

Full(m) == \A p \in Screen : m.stock[p] = Stock
Told(m) == m = Empty \/ Full(m)
Written == \A p \in Screen : touched[p]

(* What is stored: art that was never written over is stock; a manifest has *)
(* the entry or nothing, and is saved with nothing only once the screen has *)
(* been written; and no picture is of a custom image.                       *)
StoredTold ==
    /\ \A p \in Screen : touched[p] \/ screen[p] = Stock
    /\ \A m \in {devMan} \cup {hostMan[h] : h \in Host} :
           m # None => Told(m) /\ (m = Empty => Written)
    /\ \A p \in Screen : devPng[p] \notin Custom /\ \A h \in Host : hostPng[h][p] \notin Custom

(* A session that knows nothing arrived so and looks at the mtime; it takes *)
(* only stock art, and saves that it knows nothing only if it was refused.  *)
SavesNext(r) == r.pc \in {"sync", "savehost", "savedev"}
                \/ (r.pc = "pick" /\ r.kind = "backup" /\ r.todo = {})
Newcomer(r) ==
    /\ Told(r.mem)
    /\ Open(r) /\ r.mem = Empty => r.arrived
    /\ SavesNext(r) /\ r.mem = Empty => Written
    /\ r.pc = "sync" => r.todo \subseteq {p \in Screen : r.mem.stock[p] # None}
    /\ r.pc \in {"hash", "read", "hostpng", "devpng"} => r.mem = Empty
    /\ r.pc \in {"read", "hostpng", "devpng"} => r.data = Stock
    /\ r.pc = "write" \/ (r.pc \in {"savehost", "savedev"} /\ r.stage # "final") => Full(r.mem)

MetInv == Typed /\ StoredTold /\ \A s \in Session : Newcomer(ses[s])

-----------------------------------------------------------------------------
LEMMA FullIsNotEmpty == ~Full(Empty) /\ Told(Empty) /\ Empty # None
BY ScreenAssumption, ManifestAssumption, NoSessionTyped, Names DEF Full, Told, Empty

LEMMA NoSessionNewcomer == Newcomer(NoSession) /\ Newcomer(NoSession)'
BY FullIsNotEmpty DEF Newcomer, NoSession, Open, SavesNext

(* One screen is done with. *)
LEMMA NextNewcomer ==
    ASSUME Typed, NEW s \in Session, NEW r, r = ses'[s], NextOrEnd(s), Newcomer(ses[s]),
           Open(ses[s]), ses[s].mem = Empty /\ ses[s].kind = "backup" => Written
    PROVE  Newcomer(r)
<1> DEFINE m == ses[s]
<1>0. m \in SessionType /\ ses \in [Session -> SessionType]
  BY DEF Typed, TypeOK, SessionType, Stage
<1>1. CASE r = NoSession
  BY <1>1, NoSessionNewcomer
<1>2. CASE r = [m EXCEPT !.pc = "pick", !.todo = @ \ {m.at}, !.data = None]
  <2>1. r.mem = m.mem /\ r.arrived = m.arrived /\ r.pc = "pick" /\ r.kind = m.kind
    BY <1>0, <1>2 DEF SessionType
  <2> QED BY <2>1 DEF Newcomer, Open, SavesNext
<1> QED BY <1>0, <1>1, <1>2 DEF NextOrEnd, End

(* The steps that change only the session. *)
LEMMA QuietNewcomer ==
    ASSUME FirstMeeting, MetInv, NEW s \in Session, NEW r \in SessionType, r = ses'[s],
           \/ Start(s) \/ Look(s) \/ PickCapture(s) \/ HashScreen(s) \/ ReadScreen(s)
           \/ NoteApplied(s) \/ PickRestore(s) \/ FetchStock(s) \/ SkipRestore(s) \/ Stop(s)
    PROVE  Newcomer(r)
<1> DEFINE m == ses[s]
<1>0. /\ m \in SessionType /\ ses \in [Session -> SessionType] /\ Typed /\ Newcomer(m)
      /\ m.at \in Screen /\ StoredTold /\ m.mem \in Manifest
  BY DEF MetInv, Typed, TypeOK, SessionType, Stage
<1>e. ASSUME End(s) PROVE Newcomer(r)
  BY <1>0, <1>e, NoSessionNewcomer DEF End
<1>1. CASE Start(s)
  <2>1. PICK k \in Kinds, i \in Image, p \in Screen :
            ses' = [ses EXCEPT ![s].kind = k, ![s].image = i, ![s].at = p, ![s].pc = "load"]
    BY <1>1 DEF Start
  <2>2. r.pc = "load" /\ r.mem = m.mem
    BY <1>0, <2>1 DEF SessionType
  <2> QED BY <1>0, <2>2 DEF Newcomer, Open, SavesNext
<1>2. CASE Look(s) \/ Stop(s)
  BY <1>2, <1>e DEF Look, Stop
<1>3. CASE PickCapture(s)
  <2>0. m.pc = "pick" /\ m.kind = "backup" /\ Open(m)
    BY <1>3 DEF PickCapture, Open
  <2>1. ASSUME NEW p \in m.todo, m.mem.stock[p] = None,
               ses' = [ses EXCEPT ![s].at = p, ![s].pc = "hash"]
        PROVE  Newcomer(r)
    <3>1. r.pc = "hash" /\ r.mem = m.mem /\ r.arrived = m.arrived
      BY <1>0, <2>1 DEF SessionType
    <3>2. m.mem = Empty
      BY <1>0, <2>1, Names DEF Newcomer, Told, Full, SessionType
    <3> QED BY <1>0, <2>0, <3>1, <3>2 DEF Newcomer, Open, SavesNext
  <2>2. ASSUME NEW p \in m.todo, m.mem.stock[p] # None,
               ses' = [ses EXCEPT ![s].todo = @ \ {p}]
        PROVE  Newcomer(r)
    <3>1. r.pc = "pick" /\ r.mem = m.mem
      BY <1>0, <2>0, <2>2 DEF SessionType
    <3>2. m.mem # Empty
      BY <1>0, <2>2 DEF Empty, SessionType
    <3> QED BY <1>0, <3>1, <3>2 DEF Newcomer, Open, SavesNext
  <2>3. ASSUME m.todo = {}, ses' = [ses EXCEPT ![s].pc = "savehost", ![s].stage = "final"]
        PROVE  Newcomer(r)
    <3>1. r.pc = "savehost" /\ r.stage = "final" /\ r.mem = m.mem /\ r.arrived = m.arrived
      BY <1>0, <2>3 DEF SessionType
    <3> QED BY <1>0, <2>0, <2>3, <3>1 DEF Newcomer, Open, SavesNext
  <2> QED BY <1>3, <2>1, <2>2, <2>3 DEF PickCapture
<1>4. CASE HashScreen(s)
  <2>0. m.pc = "hash" /\ m.mem = Empty /\ m.arrived /\ Open(m)
    BY <1>0, <1>4 DEF HashScreen, Newcomer, Open
  <2>1. Refuses(s) <=> touched[m.at]
    BY <2>0 DEF Refuses, is_ours, Empty, FirstMeeting
  <2>2. CASE Refuses(s)
    <3>1. Written
      BY <1>0, <2>1, <2>2 DEF Written, FirstMeeting
    <3> QED BY <1>0, <1>4, <2>0, <2>2, <3>1, NextNewcomer DEF HashScreen
  <2>3. CASE ~Refuses(s)
    <3>1. screen[m.at] = Stock
      BY <1>0, <2>1, <2>3 DEF StoredTold
    <3>2. r.pc = "read" /\ r.data = Stock /\ r.mem = Empty /\ r.arrived
      BY <1>0, <1>4, <2>0, <2>3, <3>1 DEF HashScreen, SessionType
    <3> QED BY <3>2, FullIsNotEmpty DEF Newcomer, SavesNext
  <2> QED BY <2>2, <2>3
<1>5. CASE ReadScreen(s)
  <2>0. m.pc = "read" /\ m.mem = Empty /\ m.data = Stock /\ m.arrived /\ Open(m)
    BY <1>0, <1>5 DEF ReadScreen, Newcomer, Open
  <2>1. CASE screen[m.at] = m.data
    <3>1. r.pc = "hostpng" /\ r.data = Stock /\ r.mem = Empty /\ r.arrived
      BY <1>0, <1>5, <2>0, <2>1 DEF ReadScreen, Goto, SessionType
    <3> QED BY <3>1, FullIsNotEmpty DEF Newcomer, SavesNext
  <2>2. CASE screen[m.at] # m.data
    <3>1. Written
      BY <1>0, <2>0, <2>2 DEF Written, FirstMeeting, StoredTold
    <3> QED BY <1>0, <1>5, <2>0, <2>2, <3>1, NextNewcomer DEF ReadScreen
  <2> QED BY <2>1, <2>2
<1>6. ASSUME NEW data \in StockBytes(s), Verified(s, data)
      PROVE  Full(m.mem) /\ data = Stock
  <2>1. m.mem.stock[m.at] # None
    BY <1>0, <1>6 DEF Verified
  <2>2. m.mem # Empty
    BY <1>0, <2>1 DEF Empty
  <2> QED BY <1>0, <1>6, <2>2 DEF Verified, Newcomer, Told, Full
<1>7. CASE NoteApplied(s)
  <2>1. ASSUME NEW data \in StockBytes(s), Verified(s, data),
               ses' = [ses EXCEPT ![s].mem.applied = @ \cup {ses[s].image},
                                  ![s].data = ses[s].image,
                                  ![s].stage = "intent", ![s].pc = "savehost"]
        PROVE  Newcomer(r)
    <3>1. /\ r.mem = [m.mem EXCEPT !.applied = @ \cup {m.image}]
          /\ r.pc = "savehost" /\ r.stage = "intent"
      <4>1. r = [m EXCEPT !.mem = [m.mem EXCEPT !.applied = @ \cup {m.image}],
                          !.data = m.image, !.stage = "intent", !.pc = "savehost"]
        BY <1>0, <2>1 DEF SessionType
      <4> QED BY <1>0, <4>1 DEF SessionType
    <3>2. Full(r.mem)
      BY <1>0, <1>6, <2>1, <3>1 DEF Full, Manifest
    <3> QED BY <3>1, <3>2, FullIsNotEmpty DEF Newcomer, Told
  <2> QED BY <1>7, <1>e, <2>1 DEF NoteApplied
<1>8. CASE PickRestore(s)
  <2>0. m.pc = "pick" /\ m.kind = "restoreall" /\ Open(m)
    BY <1>8 DEF PickRestore, Open
  <2>1. ASSUME NEW p \in m.todo, ses' = [ses EXCEPT ![s].at = p, ![s].pc = "stock"]
        PROVE  Newcomer(r)
    <3>1. r.pc = "stock" /\ r.mem = m.mem /\ r.arrived = m.arrived
      BY <1>0, <2>1 DEF SessionType
    <3> QED BY <1>0, <2>0, <3>1 DEF Newcomer, SavesNext
  <2>2. ASSUME NEW p \in m.todo, ses' = [ses EXCEPT ![s].todo = @ \ {p}]
        PROVE  Newcomer(r)
    <3>1. r.pc = "pick" /\ r.kind = "restoreall" /\ r.mem = m.mem /\ r.arrived = m.arrived
      BY <1>0, <2>0, <2>2 DEF SessionType
    <3> QED BY <1>0, <2>0, <3>1 DEF Newcomer, SavesNext
  <2> QED BY <1>8, <1>e, <2>1, <2>2 DEF PickRestore
<1>9. CASE FetchStock(s)
  <2>0. m.pc = "stock" /\ m.kind # "backup" /\ Open(m)
    BY <1>9 DEF FetchStock, Open
  <2>1. ASSUME NEW data \in StockBytes(s), Verified(s, data),
               ses' = [ses EXCEPT ![s].data = data, ![s].pc = "write"]
        PROVE  Newcomer(r)
    <3>1. r.pc = "write" /\ r.mem = m.mem
      BY <1>0, <2>1 DEF SessionType
    <3>2. Full(m.mem)
      BY <1>6, <2>1
    <3> QED BY <3>1, <3>2, FullIsNotEmpty DEF Newcomer, Told
  <2> QED BY <1>0, <1>9, <2>0, <2>1, NextNewcomer DEF FetchStock
<1>10. CASE SkipRestore(s)
  <2>1. NextOrEnd(s) /\ Open(m) /\ m.kind # "backup"
    BY <1>10 DEF SkipRestore, Open
  <2> QED BY <1>0, <2>1, NextNewcomer
<1> QED BY <1>1, <1>2, <1>3, <1>4, <1>5, <1>7, <1>8, <1>9, <1>10

(* What _load finds for computer h. *)
Found(h) == IF devMan # None THEN devMan
            ELSE IF hostMan[h] # None THEN hostMan[h] ELSE Empty

LEMMA Loads ==
    ASSUME Typed, NEW s \in Session, LoadManifest(s)
    PROVE  LET r == ses'[s]
               new == Found(HostOf[s])
           IN  /\ r.mem = new /\ r.arrived = (new = Empty)
               /\ \/ devMan # None /\ r.pc = "sync" /\ r.todo = {p \in Screen : new.stock[p] # None}
                  \/ /\ devMan = None /\ r.pc = Entry(s, new)
                     /\ r.kind = ses[s].kind /\ r.todo = Scope(s)
BY DEF LoadManifest, Found, Typed, TypeOK

(* The manifest is loaded. *)
LEMMA LoadNewcomer ==
    ASSUME MetInv, NEW s \in Session, NEW r \in SessionType, r = ses'[s], LoadManifest(s)
    PROVE  Newcomer(r)
<1> DEFINE m == ses[s]
           h == HostOf[s]
           new == Found(h)
<1>0. /\ Typed /\ m \in SessionType /\ ses \in [Session -> SessionType] /\ h \in Host /\ StoredTold
  BY HostAssumption DEF MetInv, Typed, TypeOK, SessionType, Stage
<1>1. /\ r.mem = new /\ r.arrived = (new = Empty)
      /\ \/ devMan # None /\ r.pc = "sync" /\ r.todo = {p \in Screen : new.stock[p] # None}
         \/ devMan = None /\ r.pc = Entry(s, new) /\ r.kind = m.kind /\ r.todo = Scope(s)
  BY <1>0, Loads
<1>2. Told(new) /\ (devMan # None /\ new = Empty => Written)
  BY <1>0, FullIsNotEmpty DEF StoredTold, Found
<1>3. /\ Entry(s, new) \in {"pick", "stock", "look", "hash"}
      /\ Entry(s, new) = "pick" => Scope(s) # {}
      /\ Entry(s, new) = "hash" => new.stock[m.at] = None
  BY ScreenAssumption DEF Entry, Scope
<1>4. new.stock[m.at] = None => new = Empty
  BY <1>0, <1>2, Names DEF Told, Full, SessionType
<1> HIDE DEF new
<1> QED BY <1>1, <1>2, <1>3, <1>4 DEF Newcomer, SavesNext

(* A picture of stock art reaches the computer, or is cut short on the way. *)
LEMMA PictureNewcomer ==
    ASSUME MetInv, NEW s \in Session, NEW r \in SessionType, r = ses'[s],
           SyncPicture(s) \/ CaptureToHost(s) \/ StopWriting(s)
    PROVE  /\ Newcomer(r) /\ UNCHANGED <<screen, touched, devMan, hostMan, devPng>>
           /\ \/ UNCHANGED hostPng
              \/ \E p \in Screen :
                    hostPng' = [hostPng EXCEPT ![HostOf[s]][p] = Stock]
              \/ \E p \in Screen :
                    /\ hostPng' = [hostPng EXCEPT ![HostOf[s]][p] = Torn]
                    /\ ses[s].pc = "hostpng" \/ hostPng[HostOf[s]][p] # Stock
                    /\ r = NoSession
<1> DEFINE m == ses[s]
           h == HostOf[s]
<1>0. /\ m \in SessionType /\ ses \in [Session -> SessionType] /\ Newcomer(m) /\ m.at \in Screen
  BY DEF MetInv, Typed, TypeOK, SessionType, Stage
<1>1. ASSUME NEW p \in m.todo, m.pc = "sync"
      PROVE  p \in Screen /\ m.mem.stock[p] = Stock
  <2>1. p \in Screen /\ m.mem.stock[p] # None
    BY <1>0, <1>1 DEF Newcomer
  <2> QED BY <1>0, <2>1 DEF Newcomer, Told, Full, Empty
<1>2. CASE SyncPicture(s)
  <2>0. m.pc = "sync" /\ UNCHANGED <<screen, touched, devMan, hostMan, devPng>>
    BY <1>2 DEF SyncPicture, tablet, device
  <2>1. PICK p \in m.todo :
            \/ End(s) /\ UNCHANGED hostPng
            \/ /\ ses' = [ses EXCEPT ![s].todo = @ \ {p}]
               /\ UNCHANGED hostPng \/ (devPng[p] = m.mem.stock[p]
                                        /\ hostPng' = [hostPng EXCEPT ![h][p] = devPng[p]])
    BY <1>2 DEF SyncPicture
  <2>2. p \in Screen /\ m.mem.stock[p] = Stock
    BY <1>1, <2>0
  <2>3. CASE ses' = [ses EXCEPT ![s].todo = @ \ {p}]
    <3>1. r.mem = m.mem /\ r.arrived = m.arrived /\ r.pc = "sync" /\ r.todo \subseteq m.todo
      BY <1>0, <2>0, <2>3 DEF SessionType
    <3> QED BY <1>0, <2>0, <2>1, <2>2, <3>1, NoSessionNewcomer
            DEF Newcomer, SavesNext, Open, End
  <2>4. CASE End(s)
    BY <1>0, <2>0, <2>1, <2>2, <2>4, NoSessionNewcomer DEF End
  <2> QED BY <2>1, <2>3, <2>4
<1>3. CASE CaptureToHost(s)
  <2>0. m.pc = "hostpng" /\ m.mem = Empty /\ m.data = Stock /\ m.arrived
    BY <1>0, <1>3 DEF CaptureToHost, Newcomer, Open
  <2>1. r.pc = "devpng" /\ r.mem = Empty /\ r.data = Stock /\ r.arrived
    BY <1>0, <1>3, <2>0 DEF CaptureToHost, Goto, SessionType
  <2> QED BY <1>0, <1>3, <2>0, <2>1, FullIsNotEmpty
          DEF CaptureToHost, Newcomer, SavesNext, tablet, device
<1>4. CASE StopWriting(s)
  <2>0. r = NoSession /\ UNCHANGED <<screen, touched, devMan, hostMan, devPng>>
    BY <1>0, <1>4 DEF StopWriting, End, tablet, device
  <2>1. PICK p \in Screen :
            /\ hostPng' = [hostPng EXCEPT ![h][p] = Torn]
            /\ m.pc = "hostpng" \/ hostPng[h][p] # Stock
    <3>1. CASE m.pc = "hostpng" /\ hostPng' = [hostPng EXCEPT ![h][m.at] = Torn]
      BY <1>0, <3>1
    <3>2. CASE m.pc = "sync" /\ \E p \in m.todo :
                  /\ devPng[p] = m.mem.stock[p] /\ hostPng[h][p] # devPng[p]
                  /\ hostPng' = [hostPng EXCEPT ![h][p] = Torn]
      BY <1>1, <3>2
    <3> QED BY <1>4, <3>1, <3>2 DEF StopWriting
  <2> QED BY <2>0, <2>1, NoSessionNewcomer
<1> QED BY <1>2, <1>3, <1>4

(* The tablet's picture, and the record of it in memory. *)
LEMMA DeviceNewcomer ==
    ASSUME FirstMeeting, MetInv, NEW s \in Session, NEW r \in SessionType, r = ses'[s],
           CaptureToDevice(s)
    PROVE  /\ Newcomer(r) /\ Full(r.mem) /\ r.pc = "savehost" /\ r.stage = "capture"
           /\ UNCHANGED <<screen, touched, devMan, hostMan, hostPng>>
           /\ devPng' = [devPng EXCEPT ![ses[s].at] = Stock]
<1> DEFINE m == ses[s]
<1>0. /\ m \in SessionType /\ ses \in [Session -> SessionType] /\ Newcomer(m) /\ m.at \in Screen
      /\ m.mem \in Manifest
  BY DEF MetInv, Typed, TypeOK, SessionType, Stage
<1>1. m.pc = "devpng" /\ m.data = Stock
  BY <1>0 DEF CaptureToDevice, Newcomer
<1>2. /\ r.mem = [m.mem EXCEPT !.stock[m.at] = Stock]
      /\ r.pc = "savehost" /\ r.stage = "capture"
  <2>1. r = [m EXCEPT !.mem = [m.mem EXCEPT !.stock[m.at] = Stock],
                      !.pc = "savehost", !.stage = "capture"]
    BY <1>0, <1>1 DEF CaptureToDevice, SessionType
  <2> QED BY <1>0, <2>1 DEF SessionType
<1>3. r.mem.stock[m.at] = Stock
  BY <1>0, <1>2 DEF Manifest
<1>4. Full(r.mem)
  BY <1>0, <1>3 DEF Full, FirstMeeting
<1>5. Newcomer(r)
  BY <1>2, <1>4, FullIsNotEmpty DEF Newcomer, Told
<1> QED BY <1>1, <1>2, <1>4, <1>5 DEF CaptureToDevice, tablet, computer

(* A manifest is saved as it is in memory. *)
LEMMA SaveNewcomer ==
    ASSUME FirstMeeting, MetInv, NEW s \in Session, NEW r \in SessionType, r = ses'[s],
           SyncManifest(s) \/ SaveHost(s) \/ SaveDevice(s)
    PROVE  /\ Newcomer(r) /\ UNCHANGED <<screen, touched, devPng, hostPng>>
           /\ r = NoSession \/ r.mem = ses[s].mem
           /\ r.pc \notin {"savehost", "read", "hostpng", "devpng"}
           /\ Told(ses[s].mem) /\ (ses[s].mem = Empty => Written)
           /\ \/ SaveDevice(s) /\ devMan' = ses[s].mem /\ UNCHANGED hostMan
              \/ /\ ~SaveDevice(s) /\ hostMan' = [hostMan EXCEPT ![HostOf[s]] = ses[s].mem]
                 /\ UNCHANGED devMan
<1> DEFINE m == ses[s]
<1>0. /\ m \in SessionType /\ ses \in [Session -> SessionType] /\ Newcomer(m) /\ m.at \in Screen
      /\ Typed
  BY DEF MetInv, Typed, TypeOK, SessionType, Stage
<1>1. m.pc \in {"sync", "savehost", "savedev"} /\ Open(m)
  BY DEF SyncManifest, SaveHost, SaveDevice, Open
<1>2. Told(m.mem) /\ (m.mem = Empty => Written)
  BY <1>0, <1>1 DEF Newcomer, SavesNext
<1>3. CASE SyncManifest(s)
  <2>1. m.pc = "sync"
    BY <1>3 DEF SyncManifest
  <2>2. r.mem = m.mem /\ r.arrived = m.arrived /\ r.pc = Entry(s, m.mem)
    BY <1>0, <1>3 DEF SyncManifest, SessionType
  <2>3. /\ Entry(s, m.mem) \in {"pick", "stock", "look", "hash"}
        /\ Entry(s, m.mem) = "hash" => m.mem.stock[m.at] = None
    BY DEF Entry
  <2>4. m.mem.stock[m.at] = None => m.mem = Empty
    BY <1>0, <1>2, Names DEF Told, Full
  <2>5. Newcomer(r)
    BY <1>0, <1>1, <1>2, <2>1, <2>2, <2>3, <2>4 DEF Newcomer, SavesNext
  <2>6. ~SaveDevice(s)
    BY <2>1 DEF SaveDevice
  <2> QED BY <1>2, <1>3, <2>2, <2>3, <2>5, <2>6 DEF SyncManifest, tablet, device
<1>4. CASE SaveHost(s)
  <2>1. m.pc = "savehost" /\ ~SaveDevice(s)
    BY <1>4 DEF SaveHost, SaveDevice
  <2>2. /\ r.mem = m.mem /\ r.arrived = m.arrived /\ r.pc = "savedev" /\ r.stage = m.stage
        /\ r.todo = m.todo /\ r.kind = m.kind
    BY <1>0, <1>4 DEF SaveHost, Goto, SessionType
  <2>3. Newcomer(r)
    BY <1>0, <1>1, <1>2, <2>1, <2>2 DEF Newcomer, SavesNext, Open
  <2> QED BY <1>2, <1>4, <2>1, <2>2, <2>3 DEF SaveHost, tablet, device
<1>5. CASE SaveDevice(s)
  <2>1. m.pc = "savedev" /\ devMan' = m.mem
        /\ UNCHANGED <<screen, touched, devPng, hostPng, hostMan>>
    BY <1>5 DEF SaveDevice, tablet, computer
  <2>2. CASE NextOrEnd(s)
    <3>1. Newcomer(r)
      BY <1>0, <1>1, <1>2, <2>2, NextNewcomer
    <3>2. r = NoSession \/ (r.pc = "pick" /\ r.mem = m.mem)
      BY <1>0, <2>2, Ends
    <3> QED BY <1>2, <1>5, <2>1, <3>1, <3>2, NoSessionIdle
  <2>3. CASE End(s)
    BY <1>0, <1>2, <1>5, <2>1, <2>3, NoSessionIdle, NoSessionNewcomer DEF End
  <2>4. ASSUME NEW l \in {"stock", "write"}, m.stage # "final", Goto(s, l)
        PROVE  Newcomer(r) /\ r.pc = l /\ r.mem = m.mem
    <3>1. r.mem = m.mem /\ r.arrived = m.arrived /\ r.pc = l
      BY <1>0, <2>4 DEF Goto, SessionType
    <3>2. Full(m.mem)
      BY <1>0, <2>1, <2>4 DEF Newcomer
    <3> QED BY <1>0, <1>1, <3>1, <3>2, FullIsNotEmpty DEF Newcomer, SavesNext, Open
  <2> QED BY <1>2, <1>5, <2>1, <2>2, <2>3, <2>4 DEF SaveDevice
<1> QED BY <1>3, <1>4, <1>5

(* The screen is written, by a session that has the entry. *)
LEMMA WriteNewcomer ==
    ASSUME FirstMeeting, MetInv, NEW s \in Session, NEW r \in SessionType, r = ses'[s],
           WriteScreen(s)
    PROVE  /\ Newcomer(r) /\ Full(ses[s].mem)
           /\ UNCHANGED <<devPng, devMan, hostPng, hostMan>> /\ Written'
           /\ screen' = [screen EXCEPT ![ses[s].at] = ses[s].data]
           /\ r = NoSession \/ (r.pc = "pick" /\ r.mem = ses[s].mem)
<1> DEFINE m == ses[s]
<1>0. /\ m \in SessionType /\ ses \in [Session -> SessionType] /\ Newcomer(m) /\ m.at \in Screen
      /\ Typed
  BY DEF MetInv, Typed, TypeOK, SessionType, Stage
<1>1. m.pc = "write" /\ NextOrEnd(s)
  BY DEF WriteScreen
<1>2. Full(m.mem) /\ m.mem # Empty /\ Open(m)
  BY <1>0, <1>1, FullIsNotEmpty DEF Newcomer, Open
<1>3. Written'
  <2>1. touched' = [touched EXCEPT ![m.at] = TRUE] /\ touched \in [Screen -> BOOLEAN]
    BY <1>0 DEF WriteScreen, Typed, TypeOK
  <2> QED BY <1>0, <2>1 DEF Written, FirstMeeting
<1>4. Newcomer(r)
  BY <1>0, <1>1, <1>2, NextNewcomer
<1>5. r = NoSession \/ (r.pc = "pick" /\ r.mem = m.mem)
  BY <1>0, <1>1, Ends
<1> QED BY <1>2, <1>3, <1>4, <1>5 DEF WriteScreen, device, computer

-----------------------------------------------------------------------------
Quiet(s) == Start(s) \/ Look(s) \/ PickCapture(s) \/ HashScreen(s) \/ ReadScreen(s)
            \/ NoteApplied(s) \/ PickRestore(s) \/ FetchStock(s) \/ SkipRestore(s) \/ Stop(s)

LEMMA QuietStores ==
    ASSUME NEW s \in Session, Quiet(s) \/ LoadManifest(s)
    PROVE  UNCHANGED <<screen, touched, devPng, devMan, hostPng, hostMan>>
BY DEF Quiet, Start, Look, PickCapture, HashScreen, ReadScreen, NoteApplied, PickRestore,
   FetchStock, SkipRestore, Stop, LoadManifest, tablet, device, computer

LEMMA StepMet ==
    ASSUME FirstMeeting, MetInv, Typed', NEW s \in Session, Step(s)
    PROVE  MetInv' /\ (Written => Written')
<1>0. /\ ses[s] \in SessionType /\ ses' \in [Session -> SessionType] /\ StoredTold
      /\ devPng \in [Screen -> File] /\ hostPng \in [Host -> [Screen -> File]]
      /\ hostMan \in [Host -> Manifest \cup {None}] /\ HostOf[s] \in Host
      /\ screen \in [Screen -> Image] /\ touched \in [Screen -> BOOLEAN]
      /\ ses[s].at \in Screen /\ Typed
  BY HostAssumption DEF MetInv, Typed, TypeOK, SessionType, Stage
<1>1. PICK r \in SessionType : r = ses'[s]
  BY <1>0
<1>2. Newcomer(r) /\ StoredTold' /\ (Written => Written')
  <2>1. CASE Quiet(s) \/ LoadManifest(s)
    <3>1. Newcomer(r)
      BY <1>1, <2>1, QuietNewcomer, LoadNewcomer DEF Quiet
    <3>2. UNCHANGED <<screen, touched, devPng, devMan, hostPng, hostMan>>
      BY <2>1, QuietStores
    <3> QED BY <1>0, <3>1, <3>2 DEF StoredTold, Written, Told, Full
  <2>2. CASE SyncPicture(s) \/ CaptureToHost(s) \/ StopWriting(s)
    <3>1. Newcomer(r) /\ UNCHANGED <<screen, touched, devMan, hostMan, devPng>>
      BY <1>1, <2>2, PictureNewcomer
    <3>2. \/ UNCHANGED hostPng
          \/ \E p \in Screen, x \in {Stock, Torn} :
                hostPng' = [hostPng EXCEPT ![HostOf[s]][p] = x]
      BY <1>1, <2>2, PictureNewcomer
    <3>3. \A p \in Screen, h \in Host : hostPng'[h][p] \notin Custom
      <4>1. Stock \notin Custom /\ Torn \notin Custom
        BY ImageAssumption DEF Image
      <4>2. \A p \in Screen, h \in Host : hostPng'[h][p] \in {hostPng[h][p], Stock, Torn}
        <5>1. ASSUME NEW q \in Screen, NEW x \in {Stock, Torn},
                     hostPng' = [hostPng EXCEPT ![HostOf[s]][q] = x],
                     NEW p \in Screen, NEW h \in Host
              PROVE  hostPng'[h][p] \in {hostPng[h][p], Stock, Torn}
          BY <1>0, <5>1
        <5> QED BY <3>2, <5>1
      <4> QED BY <1>0, <4>1, <4>2 DEF StoredTold
    <3> QED BY <1>0, <3>1, <3>3 DEF StoredTold, Written, Told, Full
  <2>3. CASE CaptureToDevice(s)
    <3>1. /\ Newcomer(r) /\ UNCHANGED <<screen, touched, devMan, hostMan, hostPng>>
          /\ devPng' = [devPng EXCEPT ![ses[s].at] = Stock]
      BY <1>1, <2>3, DeviceNewcomer
    <3>2. \A p \in Screen : devPng'[p] \notin Custom
      BY <1>0, <3>1, Names DEF StoredTold
    <3> QED BY <1>0, <3>1, <3>2 DEF StoredTold, Written, Told, Full
  <2>4. CASE SyncManifest(s) \/ SaveHost(s) \/ SaveDevice(s)
    <3>1. /\ Newcomer(r) /\ UNCHANGED <<screen, touched, devPng, hostPng>>
          /\ Told(ses[s].mem) /\ (ses[s].mem = Empty => Written)
          /\ \/ devMan' = ses[s].mem /\ UNCHANGED hostMan
             \/ /\ hostMan' = [hostMan EXCEPT ![HostOf[s]] = ses[s].mem]
                /\ UNCHANGED devMan
      BY <1>1, <2>4, SaveNewcomer
    <3>2. \A m \in {devMan'} \cup {hostMan'[h] : h \in Host} :
              m # None => Told(m) /\ (m = Empty => Written)
      BY <1>0, <3>1 DEF StoredTold
    <3> QED BY <1>0, <3>1, <3>2 DEF StoredTold, Written, Told, Full
  <2>5. CASE WriteScreen(s)
    <3>1. /\ Newcomer(r) /\ UNCHANGED <<devPng, devMan, hostPng, hostMan>> /\ Written'
      BY <1>1, <2>5, WriteNewcomer
    <3> QED BY <1>0, <3>1 DEF StoredTold, Written, Told, Full
  <2> QED BY <2>1, <2>2, <2>3, <2>4, <2>5 DEF Step, Quiet
<1>3. ASSUME NEW t \in Session PROVE Newcomer(ses[t])'
  <2>1. Newcomer(ses'[t])
    BY <1>0, <1>1, <1>2, OneMoves DEF MetInv
  <2> QED BY <1>2, <2>1 DEF Newcomer, SavesNext, Written, Told, Full, Open
<1> QED BY <1>2, <1>3 DEF MetInv

LEMMA MetNext ==
    ASSUME FirstMeeting, MetInv, Typed', [Next]_vars
    PROVE  MetInv'
<1>1. CASE FactoryReset
  <2>1. /\ UNCHANGED <<screen, touched, hostPng, hostMan>> /\ devMan' = None
        /\ \A p \in Screen : devPng'[p] = None
        /\ \A s \in Session : ses'[s] = NoSession
    BY <1>1 DEF FactoryReset, tablet, computer
  <2>2. StoredTold'
    BY <2>1, Names DEF MetInv, StoredTold, Told, Full, Written
  <2>3. ASSUME NEW s \in Session PROVE Newcomer(ses[s])'
    BY <2>1, NoSessionNewcomer
  <2> QED BY <2>2, <2>3 DEF MetInv
<1>2. CASE Damage
  <2>1. /\ UNCHANGED <<screen, touched, devMan, hostMan, ses>>
        /\ \E p \in Screen, c \in Host \cup {None} :
              \/ devPng' = [devPng EXCEPT ![p] = Torn] /\ UNCHANGED hostPng
              \/ c \in Host /\ hostPng' = [hostPng EXCEPT ![c][p] = Torn] /\ UNCHANGED devPng
    BY <1>2 DEF Damage, Copies, tablet
  <2>2. \A p \in Screen :
            devPng'[p] \notin Custom /\ \A h \in Host : hostPng'[h][p] \notin Custom
    <3>1. Torn \notin Custom
      BY ImageAssumption DEF Image
    <3>2. \A p \in Screen : /\ devPng'[p] \in {devPng[p], Torn}
                            /\ \A h \in Host : hostPng'[h][p] \in {hostPng[h][p], Torn}
      BY <2>1 DEF MetInv, Typed, TypeOK
    <3> QED BY <3>1, <3>2 DEF MetInv, StoredTold
  <2>3. StoredTold'
    BY <2>1, <2>2 DEF MetInv, StoredTold, Told, Full, Written
  <2>4. ASSUME NEW s \in Session PROVE Newcomer(ses[s])'
    BY <2>1 DEF MetInv, Newcomer, SavesNext, Written, Told, Full, Open
  <2> QED BY <2>3, <2>4 DEF MetInv
<1>3. CASE UNCHANGED vars
  <2>1. StoredTold'
    BY <1>3 DEF vars, MetInv, StoredTold, Told, Full, Written
  <2>2. ASSUME NEW s \in Session PROVE Newcomer(ses[s])'
    BY <1>3 DEF vars, MetInv, Newcomer, SavesNext, Written, Told, Full, Open
  <2> QED BY <2>1, <2>2 DEF MetInv
<1> QED BY <1>1, <1>2, <1>3, StepMet DEF Next

LEMMA MetAlways == ASSUME FirstMeeting PROVE Spec => []MetInv
<1>1. Init => MetInv
  <2> SUFFICES ASSUME Init PROVE StoredTold /\ \A s \in Session : Newcomer(ses[s])
    BY InitTyped DEF MetInv
  <2> QED BY Names, NoSessionNewcomer DEF Init, StoredTold
<1> QED BY <1>1, MetNext, TypedAlways, PTL DEF Spec

(* backup.py, "a store that arrived empty": with one screen and readable    *)
(* mtimes, no session of any computer, overlapping as it may, takes a       *)
(* custom image for stock art.                                              *)
THEOREM NothingLaunderedAtFirstMeeting == ASSUME FirstMeeting PROVE Spec => []NoLaundering
<1>1. MetInv => NoLaundering
  BY ScreenAssumption, Names DEF MetInv, StoredTold, Told, Full, Empty, NoLaundering
<1> QED BY <1>1, MetAlways, PTL

(* backup.py, rule 1, of pictures, under the same conditions.               *)
THEOREM BackupsAreKeptAtFirstMeeting == ASSUME FirstMeeting PROVE Spec => BackupKept
<1> DEFINE K == \A p \in Screen :
              /\ devPng[p] = Stock => devPng'[p] \notin Custom
              /\ \A h \in Host : hostPng[h][p] = Stock => hostPng'[h][p] \notin Custom
<1>1. MetInv' => K
  BY DEF MetInv, StoredTold
<1> QED BY <1>1, MetAlways, PTL DEF Spec, BackupKept

-----------------------------------------------------------------------------
(* Where the copy is that nothing takes away: on the tablet, if it is never *)
(* reset; otherwise on a computer whose next session either knows of it or  *)
(* finds the screen written, and so does not begin to capture over it.      *)
Kept(h) ==
    /\ \A p \in Screen : hostPng[h][p] = Stock
    /\ Written \/ (hostMan[h] # None /\ Full(hostMan[h]))
    /\ \A s \in Session : HostOf[s] = h /\ Open(ses[s]) /\ ses[s].mem = Empty
           => Written /\ ses[s].pc \notin {"read", "hostpng"}
Guarded == IF Resets THEN \E h \in Host : Kept(h) ELSE \A p \in Screen : devPng[p] = Stock

(* There is such a copy once the screen is written or the entry recorded;   *)
(* where there are resets, a session that has the entry only in memory is   *)
(* about to save it beside the picture it took.                             *)
Pending(s) == Resets /\ \A p \in Screen : hostPng[HostOf[s]][p] = Stock
Vouched(s) ==
    /\ Full(ses[s].mem) =>
           Guarded \/ (ses[s].pc = "savehost" /\ ses[s].stage = "capture" /\ Pending(s))
    /\ Resets /\ ses[s].pc = "devpng" => Pending(s)
KeptInv ==
    /\ Written \/ (devMan # None /\ Full(devMan))
           \/ (\E h \in Host : hostMan[h] # None /\ Full(hostMan[h])) => Guarded
    /\ \A s \in Session : Vouched(s)

(* A step of s changes no other computer, and spoils no picture of its own  *)
(* but one it is capturing.                                                 *)
LEMMA StepPictures ==
    ASSUME FirstMeeting, MetInv, Typed', NEW s \in Session, Step(s)
    PROVE  /\ \A h \in Host \ {HostOf[s]} : hostPng'[h] = hostPng[h] /\ hostMan'[h] = hostMan[h]
           /\ \A p \in Screen : devPng[p] = Stock => devPng'[p] = Stock
           /\ \A p \in Screen : hostPng[HostOf[s]][p] = Stock /\ ses[s].pc # "hostpng"
                  => hostPng'[HostOf[s]][p] = Stock
           /\ \/ hostMan'[HostOf[s]] = hostMan[HostOf[s]]
              \/ hostMan'[HostOf[s]] = ses[s].mem /\ Told(ses[s].mem)
                 /\ (ses[s].mem = Empty => Written)
<1> DEFINE g == HostOf[s]
<1>0. /\ devPng \in [Screen -> File] /\ hostPng \in [Host -> [Screen -> File]]
      /\ hostMan \in [Host -> Manifest \cup {None}] /\ g \in Host /\ ses[s].at \in Screen
  BY HostAssumption DEF MetInv, Typed, TypeOK, SessionType, Stage
<1>1. PICK r \in SessionType : r = ses'[s]
  BY DEF Typed, TypeOK, SessionType, Stage
<1>2. CASE Quiet(s) \/ LoadManifest(s)
  BY <1>2, QuietStores
<1>3. CASE SyncPicture(s) \/ CaptureToHost(s) \/ StopWriting(s)
  <2>1. UNCHANGED <<screen, touched, devMan, hostMan, devPng>>
    BY <1>1, <1>3, PictureNewcomer
  <2>2. \/ UNCHANGED hostPng
        \/ \E p \in Screen : hostPng' = [hostPng EXCEPT ![g][p] = Stock]
        \/ \E p \in Screen : /\ hostPng' = [hostPng EXCEPT ![g][p] = Torn]
                             /\ ses[s].pc = "hostpng" \/ hostPng[g][p] # Stock
    BY <1>1, <1>3, PictureNewcomer
  <2>3. CASE UNCHANGED hostPng
    BY <2>1, <2>3
  <2>4. ASSUME NEW p \in Screen, NEW x \in {Stock, Torn},
               hostPng' = [hostPng EXCEPT ![g][p] = x],
               x = Stock \/ ses[s].pc = "hostpng" \/ hostPng[g][p] # Stock
        PROVE  /\ \A h \in Host \ {g} : hostPng'[h] = hostPng[h]
               /\ \A q \in Screen : hostPng[g][q] = Stock /\ ses[s].pc # "hostpng"
                      => hostPng'[g][q] = Stock
    BY <1>0, <2>4
  <2> QED BY <2>1, <2>2, <2>3, <2>4
<1>4. CASE CaptureToDevice(s)
  <2>1. /\ UNCHANGED <<screen, touched, devMan, hostMan, hostPng>>
        /\ devPng' = [devPng EXCEPT ![ses[s].at] = Stock]
    BY <1>1, <1>4, DeviceNewcomer
  <2> QED BY <1>0, <2>1
<1>5. CASE SyncManifest(s) \/ SaveHost(s) \/ SaveDevice(s)
  <2>1. /\ UNCHANGED <<screen, touched, devPng, hostPng>>
        /\ Told(ses[s].mem) /\ (ses[s].mem = Empty => Written)
        /\ \/ UNCHANGED hostMan
           \/ hostMan' = [hostMan EXCEPT ![g] = ses[s].mem]
    BY <1>1, <1>5, SaveNewcomer
  <2> QED BY <1>0, <2>1
<1>6. CASE WriteScreen(s)
  <2>1. UNCHANGED <<devPng, devMan, hostPng, hostMan>>
    BY <1>1, <1>6, WriteNewcomer
  <2> QED BY <2>1
<1> QED BY <1>2, <1>3, <1>4, <1>5, <1>6 DEF Step, Quiet

(* Most steps leave the manifest in memory alone; what is read of a screen  *)
(* is read by the two steps of a capture.                                   *)
LEMMA MemKept ==
    ASSUME Typed, NEW s \in Session, NEW r \in SessionType, r = ses'[s], r # NoSession,
           Step(s), ~Start(s), ~LoadManifest(s)
    PROVE  /\ ~NoteApplied(s) /\ ~CaptureToDevice(s) => r.mem = ses[s].mem
           /\ r.pc = "read" => HashScreen(s)
           /\ r.pc = "hostpng" => ReadScreen(s)
           /\ r.pc = "devpng" => CaptureToHost(s)
<1> DEFINE m == ses[s]
           Goal == /\ ~NoteApplied(s) /\ ~CaptureToDevice(s) => r.mem = m.mem
                   /\ r.pc = "read" => HashScreen(s)
                   /\ r.pc = "hostpng" => ReadScreen(s)
                   /\ r.pc = "devpng" => CaptureToHost(s)
<1>0. m \in SessionType /\ ses \in [Session -> SessionType] /\ ~End(s)
  BY DEF Typed, TypeOK, SessionType, Stage, End
<1>n. NextOrEnd(s) => r.mem = m.mem /\ r.pc = "pick"
  BY <1>0, Ends
<1>g. ASSUME NEW l \in Label, Goto(s, l) PROVE r.mem = m.mem /\ r.pc = l
  BY <1>0, <1>g DEF Goto, SessionType
<1>1. CASE SyncPicture(s)
  <2>1. PICK p \in m.todo : ses' = [ses EXCEPT ![s].todo = @ \ {p}]
    BY <1>0, <1>1 DEF SyncPicture
  <2>2. m.pc = "sync"
    BY <1>1 DEF SyncPicture
  <2> QED BY <1>0, <2>1, <2>2 DEF SessionType
<1>2. CASE SyncManifest(s)
  BY <1>0, <1>2 DEF SyncManifest, Entry, SessionType
<1>3. CASE PickCapture(s)
  <2>1. ASSUME NEW p, NEW l \in {"hash", "pick"},
               \/ l = "hash" /\ ses' = [ses EXCEPT ![s].at = p, ![s].pc = "hash"]
               \/ l = "pick" /\ m.pc = "pick" /\ ses' = [ses EXCEPT ![s].todo = @ \ {p}]
        PROVE  r.mem = m.mem /\ r.pc = l
    BY <1>0, <2>1 DEF SessionType
  <2>2. ASSUME ses' = [ses EXCEPT ![s].pc = "savehost", ![s].stage = "final"]
        PROVE  r.mem = m.mem /\ r.pc = "savehost"
    BY <1>0, <2>2 DEF SessionType
  <2> QED BY <1>3, <2>1, <2>2 DEF PickCapture
<1>4. CASE HashScreen(s)
  <2>1. CASE Refuses(s)
    BY <1>4, <1>n, <2>1 DEF HashScreen
  <2>2. CASE ~Refuses(s)
    BY <1>0, <1>4, <2>2 DEF HashScreen, SessionType
  <2> QED BY <2>1, <2>2
<1>5. CASE ReadScreen(s)
  BY <1>5, <1>n, <1>g DEF ReadScreen, Label
<1>6. CASE CaptureToHost(s) \/ SaveHost(s)
  BY <1>6, <1>g DEF CaptureToHost, SaveHost, Label
<1>7. CASE SaveDevice(s)
  BY <1>0, <1>7, <1>n, <1>g DEF SaveDevice, Label
<1>8. CASE NoteApplied(s)
  <2>1. r.pc = "savehost"
    BY <1>0, <1>8 DEF NoteApplied, SessionType
  <2> QED BY <1>8, <2>1
<1>9. CASE CaptureToDevice(s)
  <2>1. r.pc = "savehost"
    BY <1>0, <1>9 DEF CaptureToDevice, SessionType
  <2> QED BY <1>9, <2>1
<1>10. CASE PickRestore(s)
  <2>1. ASSUME NEW p, NEW l \in {"stock", "pick"},
               \/ l = "stock" /\ ses' = [ses EXCEPT ![s].at = p, ![s].pc = "stock"]
               \/ l = "pick" /\ m.pc = "pick" /\ ses' = [ses EXCEPT ![s].todo = @ \ {p}]
        PROVE  r.mem = m.mem /\ r.pc = l
    BY <1>0, <2>1 DEF SessionType
  <2> QED BY <1>0, <1>10, <2>1 DEF PickRestore
<1>11. CASE FetchStock(s)
  <2>1. ASSUME NEW data, ses' = [ses EXCEPT ![s].data = data, ![s].pc = "write"]
        PROVE  r.mem = m.mem /\ r.pc = "write"
    BY <1>0, <2>1 DEF SessionType
  <2> QED BY <1>11, <1>n, <2>1 DEF FetchStock
<1>12. CASE WriteScreen(s) \/ SkipRestore(s)
  BY <1>12, <1>n DEF WriteScreen, SkipRestore
<1>13. CASE Look(s) \/ Stop(s) \/ StopWriting(s)
  BY <1>0, <1>13 DEF Look, Stop, StopWriting
<1> QED BY <1>1, <1>2, <1>3, <1>4, <1>5, <1>6, <1>7, <1>8, <1>9, <1>10, <1>11, <1>12, <1>13
        DEF Step

(* A session of a computer that keeps its copy does not begin to capture.   *)
LEMMA NoCaptureBegun ==
    ASSUME FirstMeeting, MetInv, MetInv', NEW s \in Session, Step(s), Kept(HostOf[s]),
           Open(ses'[s]), ses'[s].mem = Empty
    PROVE  Written /\ ses'[s].pc \notin {"read", "hostpng"}
<1> DEFINE m == ses[s]
           h == HostOf[s]
<1>0. /\ m \in SessionType /\ ses \in [Session -> SessionType] /\ Typed /\ Newcomer(m)
      /\ m.at \in Screen /\ StoredTold /\ m.mem \in Manifest /\ h \in Host
  BY HostAssumption DEF MetInv, Typed, TypeOK, SessionType, Stage
<1>1. PICK r \in SessionType : r = ses'[s]
  BY DEF MetInv, Typed, TypeOK, SessionType, Stage
<1>2. r # NoSession
  BY <1>1, NoSessionIdle DEF Open
<1>3. CASE LoadManifest(s)
  <2>1. r.mem = Found(h) /\ (r.pc = "sync" \/ r.pc = Entry(s, r.mem))
    BY <1>0, <1>1, <1>3, Loads
  <2>2. r.pc \notin {"read", "hostpng"}
    BY <2>1 DEF Entry
  <2>3. Written
    BY <1>0, <1>1, <2>1, FullIsNotEmpty DEF StoredTold, Kept, Found
  <2> QED BY <1>1, <2>2, <2>3
<1>4. CASE Start(s)
  <2>1. PICK k \in Kinds, i \in Image, p \in Screen :
            ses' = [ses EXCEPT ![s].kind = k, ![s].image = i, ![s].at = p, ![s].pc = "load"]
    BY <1>4 DEF Start
  <2> QED BY <1>0, <1>1, <2>1 DEF SessionType, Open
<1>5. CASE ~LoadManifest(s) /\ ~Start(s)
  <2>1. Open(m) /\ m.pc # "idle" /\ m.pc # "load"
    <3>1. ~Stop(s) /\ ~StopWriting(s)
      BY <1>0, <1>1, <1>2 DEF Stop, StopWriting, End
    <3> QED BY <1>5, <3>1 DEF Step, SyncPicture, SyncManifest, Look, PickCapture, HashScreen,
            ReadScreen, CaptureToHost, CaptureToDevice, SaveHost, SaveDevice, NoteApplied,
            PickRestore, FetchStock, WriteScreen, SkipRestore, Open
  <2>2. m.mem = Empty
    <3>1. CASE CaptureToDevice(s)
      BY <1>0, <1>1, <3>1, FullIsNotEmpty, DeviceNewcomer
    <3>2. CASE NoteApplied(s)
      <4>1. PICK data \in StockBytes(s) : Verified(s, data) /\
                ses' = [ses EXCEPT ![s].mem.applied = @ \cup {ses[s].image},
                                   ![s].data = ses[s].image,
                                   ![s].stage = "intent", ![s].pc = "savehost"]
        BY <1>0, <1>1, <1>2, <3>2 DEF NoteApplied, End
      <4>2. r.mem = [m.mem EXCEPT !.applied = @ \cup {m.image}]
        <5>1. r = [m EXCEPT !.mem = [m.mem EXCEPT !.applied = @ \cup {m.image}],
                            !.data = m.image, !.stage = "intent", !.pc = "savehost"]
          BY <1>0, <1>1, <4>1 DEF SessionType
        <5> QED BY <1>0, <5>1 DEF SessionType
      <4>3. r.mem.stock[m.at] # None
        BY <1>0, <4>1, <4>2 DEF Verified, Manifest
      <4> QED BY <1>0, <1>1, <4>3 DEF Empty
    <3>3. CASE ~CaptureToDevice(s) /\ ~NoteApplied(s)
      BY <1>0, <1>1, <1>2, <1>5, <3>3, MemKept
    <3> QED BY <3>1, <3>2, <3>3
  <2>3. Written /\ m.pc \notin {"read", "hostpng"}
    BY <2>1, <2>2 DEF Kept
  <2>4. r.pc \notin {"read", "hostpng"}
    <3>1. CASE HashScreen(s)
      <4>1. Refuses(s)
        BY <1>0, <2>1, <2>2, <2>3, <3>1
           DEF HashScreen, Refuses, is_ours, Empty, FirstMeeting, Written, Newcomer
      <4> QED BY <1>0, <1>1, <1>2, <3>1, <4>1, Ends DEF HashScreen
    <3>2. CASE ReadScreen(s)
      BY <2>3, <3>2 DEF ReadScreen
    <3> QED BY <1>0, <1>1, <1>2, <1>5, <3>1, <3>2, MemKept
  <2> QED BY <1>1, <2>3, <2>4
<1> QED BY <1>3, <1>4, <1>5

(* Nothing takes that copy away. *)
LEMMA GuardedNext ==
    ASSUME FirstMeeting, MetInv, MetInv', NEW s \in Session, Step(s), Guarded
    PROVE  Guarded'
<1>0. Written => Written'
  BY StepMet DEF MetInv
<1>1. CASE ~Resets
  BY <1>1, StepPictures DEF Guarded, MetInv
<1>2. CASE Resets
  <2>1. PICK h \in Host : Kept(h)
    BY <1>2 DEF Guarded
  <2>2. \A p \in Screen : hostPng'[h][p] = Stock
    <3>1. CASE h # HostOf[s]
      BY <2>1, <3>1, StepPictures DEF Kept, MetInv
    <3>2. CASE h = HostOf[s]
      <4>1. ses[s].pc # "hostpng"
        BY <2>1, <3>2 DEF Kept, MetInv, Newcomer, Open
      <4> QED BY <2>1, <3>2, <4>1, StepPictures DEF Kept, MetInv
    <3> QED BY <3>1, <3>2
  <2>3. Written' \/ (hostMan'[h] # None /\ Full(hostMan'[h]))
    <3>1. CASE h # HostOf[s]
      BY <1>0, <2>1, <3>1, StepPictures DEF Kept, MetInv
    <3>2. CASE h = HostOf[s]
      <4>1. ses[s].mem # None
        BY ManifestAssumption DEF MetInv, Typed, TypeOK
      <4> QED BY <1>0, <2>1, <3>2, <4>1, StepPictures DEF Kept, Told, MetInv
    <3> QED BY <3>1, <3>2
  <2>4. ASSUME NEW t \in Session, HostOf[t] = h, Open(ses'[t]), ses'[t].mem = Empty
        PROVE  Written' /\ ses'[t].pc \notin {"read", "hostpng"}
    <3>1. CASE t = s
      BY <1>0, <2>1, <2>4, <3>1, NoCaptureBegun
    <3>2. CASE t # s
      <4>1. ses'[t] = ses[t]
        BY <3>2, OneMoves DEF MetInv
      <4> QED BY <1>0, <2>1, <2>4, <4>1 DEF Kept
    <3> QED BY <3>1, <3>2
  <2>5. Kept(h)'
    BY <2>2, <2>3, <2>4 DEF Kept, Full, Open
  <2> QED BY <1>2, <2>5 DEF Guarded
<1> QED BY <1>1, <1>2

(* The entry reaches the computer beside its picture, which is kept from    *)
(* there on: no other session of this computer is open.                     *)
LEMMA PendingKept ==
    ASSUME FirstMeeting, Apart, MetInv, MetInv', NEW s \in Session, SaveHost(s),
           Full(ses[s].mem), Pending(s)
    PROVE  Guarded'
<1> DEFINE h == HostOf[s]
<1>0. /\ h \in Host /\ ses \in [Session -> SessionType] /\ ses[s] \in SessionType
      /\ hostMan \in [Host -> Manifest \cup {None}] /\ ses[s].mem # None
  BY HostAssumption, ManifestAssumption DEF MetInv, Typed, TypeOK, SessionType, Stage
<1>1. hostMan'[h] = ses[s].mem /\ UNCHANGED <<hostPng, touched>> /\ ses'[s].mem = ses[s].mem
  BY <1>0 DEF SaveHost, Goto, SessionType, tablet, device
<1>2. Kept(h)'
  <2>1. \A t \in Session : HostOf[t] = h => ses'[t].mem # Empty
    BY <1>1, FullIsNotEmpty DEF Apart, Pending
  <2> QED BY <1>0, <1>1, <2>1 DEF Kept, Full, Pending
<1> QED BY <1>0, <1>2 DEF Guarded, Pending

LEMMA StepKept ==
    ASSUME FirstMeeting, Apart, MetInv, MetInv', KeptInv, NEW s \in Session, Step(s)
    PROVE  KeptInv'
<1> DEFINE m == ses[s]
           h == HostOf[s]
<1>0. /\ m \in SessionType /\ ses \in [Session -> SessionType] /\ Typed /\ Newcomer(m)
      /\ m.at \in Screen /\ m.mem \in Manifest /\ h \in Host /\ Vouched(s) /\ Typed'
      /\ hostMan \in [Host -> Manifest \cup {None}] /\ hostPng \in [Host -> [Screen -> File]]
  BY HostAssumption DEF KeptInv, MetInv, Typed, TypeOK, SessionType, Stage
<1>1. PICK r \in SessionType : r = ses'[s]
  BY DEF MetInv, Typed, TypeOK, SessionType, Stage
<1>g. Guarded => Guarded'
  BY GuardedNext
<1>w. WriteScreen(s) => Guarded
  BY <1>0, <1>1, WriteNewcomer DEF Vouched, WriteScreen
<1>v. SyncManifest(s) \/ SaveHost(s) \/ SaveDevice(s) => (Full(m.mem) => Guarded')
  <2>1. CASE SyncManifest(s) \/ SaveDevice(s)
    BY <1>0, <1>g, <2>1 DEF SyncManifest, SaveDevice, Vouched
  <2>2. CASE SaveHost(s)
    BY <1>0, <1>g, <2>2, PendingKept DEF Vouched
  <2> QED BY <2>1, <2>2
<1>2. Written' => Guarded'
  <2>1. ~WriteScreen(s) => UNCHANGED touched
    BY DEF Step, Start, LoadManifest, SyncPicture, SyncManifest, Look, PickCapture, HashScreen,
       ReadScreen, CaptureToHost, CaptureToDevice, SaveHost, SaveDevice, NoteApplied,
       PickRestore, FetchStock, SkipRestore, Stop, StopWriting, tablet
  <2> QED BY <1>g, <1>w, <2>1 DEF KeptInv, Written
<1>3. devMan' # None /\ Full(devMan)' => Guarded'
  <2>1. SaveDevice(s) \/ UNCHANGED devMan
    BY DEF Step, Start, LoadManifest, SyncPicture, SyncManifest, Look, PickCapture, HashScreen,
       ReadScreen, CaptureToHost, CaptureToDevice, SaveHost, NoteApplied,
       PickRestore, FetchStock, WriteScreen, SkipRestore, Stop, StopWriting, device
  <2>2. SaveDevice(s) => devMan' = m.mem
    BY DEF SaveDevice
  <2> QED BY <1>g, <1>v, <2>1, <2>2 DEF KeptInv, Full
<1>4. ASSUME NEW g \in Host, hostMan'[g] # None, Full(hostMan'[g])
      PROVE  Guarded'
  <2>1. \/ UNCHANGED hostMan
        \/ /\ SyncManifest(s) \/ SaveHost(s)
           /\ hostMan' = [hostMan EXCEPT ![h] = m.mem]
    BY DEF Step, Start, LoadManifest, SyncPicture, SyncManifest, Look, PickCapture, HashScreen,
       ReadScreen, CaptureToHost, CaptureToDevice, SaveHost, SaveDevice, NoteApplied,
       PickRestore, FetchStock, WriteScreen, SkipRestore, Stop, StopWriting, computer
  <2> QED BY <1>0, <1>4, <1>g, <1>v, <2>1 DEF KeptInv
<1>5. ASSUME NEW t \in Session, t # s
      PROVE  Vouched(t)'
  <2>1. ses'[t] = ses[t] /\ Vouched(t) /\ HostOf[t] \in Host
    BY <1>0, <1>5, OneMoves, HostAssumption DEF KeptInv
  <2>2. Pending(t) => Pending(t)'
    BY <1>0, <1>5, <2>1, StepPictures DEF Pending, Apart
  <2> QED BY <1>g, <2>1, <2>2 DEF Vouched, Full
<1>6. Full(r.mem) => Guarded' \/ (r.pc = "savehost" /\ r.stage = "capture" /\ Pending(s)')
  <2> SUFFICES ASSUME Full(r.mem)
               PROVE  Guarded' \/ (r.pc = "savehost" /\ r.stage = "capture" /\ Pending(s)')
    OBVIOUS
  <2>0. r # NoSession
    BY FullIsNotEmpty DEF NoSession
  <2>1. CASE LoadManifest(s)
    <3>1. Full(Found(h))
      BY <1>0, <1>1, <2>1, Loads
    <3> QED BY <1>0, <1>g, <3>1, FullIsNotEmpty DEF Found, KeptInv
  <2>2. CASE CaptureToDevice(s)
    <3>1. /\ r.pc = "savehost" /\ r.stage = "capture" /\ UNCHANGED hostPng
          /\ devPng' = [devPng EXCEPT ![m.at] = Stock] /\ m.pc = "devpng"
      BY <1>1, <2>2, DeviceNewcomer DEF CaptureToDevice
    <3>2. CASE Resets
      BY <1>0, <3>1, <3>2 DEF Vouched, Pending
    <3>3. CASE ~Resets
      <4>1. devPng \in [Screen -> File]
        BY <1>0 DEF Typed, TypeOK
      <4> QED BY <1>0, <3>1, <3>3, <4>1 DEF Guarded, FirstMeeting
    <3> QED BY <3>2, <3>3
  <2>3. CASE NoteApplied(s)
    <3>1. PICK data \in StockBytes(s) : Verified(s, data)
      BY <1>0, <1>1, <2>0, <2>3 DEF NoteApplied, End
    <3>2. Full(m.mem) /\ m.pc = "stock"
      <4>1. m.mem # Empty
        BY <1>0, <3>1 DEF Verified, Empty
      <4> QED BY <1>0, <2>3, <4>1 DEF NoteApplied, Newcomer, Told
    <3> QED BY <1>0, <1>g, <3>2 DEF Vouched
  <2>4. CASE Start(s)
    <3>1. r.mem = m.mem /\ m.pc = "idle"
      BY <1>0, <1>1, <2>4 DEF Start, SessionType
    <3> QED BY <1>0, <1>g, <3>1 DEF Vouched
  <2>5. CASE ~LoadManifest(s) /\ ~CaptureToDevice(s) /\ ~NoteApplied(s) /\ ~Start(s)
    <3>1. r.mem = m.mem
      BY <1>0, <1>1, <2>0, <2>5, MemKept
    <3>2. CASE m.pc # "savehost"
      BY <1>0, <1>g, <3>1, <3>2 DEF Vouched
    <3>3. CASE m.pc = "savehost"
      <4>1. SaveHost(s) \/ End(s)
        BY <3>3 DEF Step, Start, LoadManifest, SyncPicture, SyncManifest, Look, PickCapture,
           HashScreen, ReadScreen, CaptureToHost, CaptureToDevice, SaveDevice, NoteApplied,
           PickRestore, FetchStock, WriteScreen, SkipRestore, Stop, StopWriting
      <4> QED BY <1>0, <1>1, <1>v, <2>0, <3>1, <4>1 DEF End
    <3> QED BY <3>2, <3>3
  <2> QED BY <2>1, <2>2, <2>3, <2>4, <2>5
<1>7. Resets /\ r.pc = "devpng" => Pending(s)'
  <2> SUFFICES ASSUME Resets, r.pc = "devpng" PROVE Pending(s)'
    OBVIOUS
  <2>1. CaptureToHost(s)
    <3>1. ~Start(s) /\ ~LoadManifest(s)
      <4>1. Start(s) => r.pc = "load"
        BY <1>0, <1>1 DEF Start, SessionType
      <4>2. LoadManifest(s) => r.pc # "devpng"
        BY <1>0, <1>1, Loads DEF Entry
      <4> QED BY <4>1, <4>2
    <3>2. r # NoSession
      BY NoSessionIdle
    <3> QED BY <1>0, <1>1, <3>1, <3>2, MemKept
  <2>2. hostPng' = [hostPng EXCEPT ![h][m.at] = Stock]
    BY <1>0, <2>1 DEF CaptureToHost, Newcomer
  <2>3. hostPng'[h][m.at] = Stock
    BY <1>0, <2>2
  <2> QED BY <1>0, <2>3 DEF Pending, FirstMeeting
<1>8. Vouched(s)'
  BY <1>1, <1>6, <1>7 DEF Vouched, Full
<1> QED BY <1>2, <1>3, <1>4, <1>5, <1>8 DEF KeptInv, Full

LEMMA ResetKept ==
    ASSUME MetInv, KeptInv, FactoryReset
    PROVE  KeptInv' /\ (Guarded => Guarded')
<1>1. /\ UNCHANGED <<screen, touched, hostPng, hostMan>> /\ devMan' = None /\ Resets
      /\ \A s \in Session : ses'[s] = NoSession
  BY DEF FactoryReset, tablet, computer
<1>2. \A h \in Host : Kept(h) => Kept(h)'
  BY <1>1, NoSessionIdle DEF Kept, Written, Full, Open
<1>3. Guarded => Guarded'
  BY <1>1, <1>2 DEF Guarded
<1>4. \A s \in Session : Vouched(s)'
  <2>1. NoSession.mem = Empty /\ NoSession.pc = "idle"
    BY DEF NoSession
  <2> QED BY <1>1, <2>1, FullIsNotEmpty DEF Vouched, Full
<1> QED BY <1>1, <1>3, <1>4 DEF KeptInv, Written, Full

LEMMA KeptAlways == ASSUME FirstMeeting, Apart PROVE Spec => [](MetInv /\ KeptInv)
<1>1. Init => KeptInv
  <2> SUFFICES ASSUME Init PROVE KeptInv
    OBVIOUS
  <2>1. ~Written
    BY ScreenAssumption DEF Init, Written
  <2>2. \A s \in Session : Vouched(s)
    BY FullIsNotEmpty DEF Init, Vouched, NoSession
  <2> QED BY <2>1, <2>2 DEF Init, KeptInv
<1>2. MetInv /\ MetInv' /\ KeptInv /\ [Next]_vars => KeptInv'
  <2> SUFFICES ASSUME MetInv, MetInv', KeptInv, [Next]_vars PROVE KeptInv'
    OBVIOUS
  <2>1. CASE UNCHANGED vars
    <3>1. UNCHANGED <<touched, devPng, devMan, hostPng, hostMan, ses>>
      BY <2>1 DEF vars
    <3>2. Guarded => Guarded'
      BY <3>1 DEF Guarded, Kept, Written, Full, Open
    <3>3. \A s \in Session : Vouched(s)'
      BY <3>1, <3>2 DEF KeptInv, Vouched, Full, Pending
    <3> QED BY <3>1, <3>2, <3>3 DEF KeptInv, Written, Full
  <2>2. ~Damage
    BY DEF Damage, Apart
  <2> QED BY <2>1, <2>2, StepKept, ResetKept DEF Next
<1> QED BY <1>1, <1>2, MetAlways, PTL DEF Spec

LEMMA OffScreenCopied ==
    ASSUME FirstMeeting, MetInv, KeptInv, NEW p \in Screen, screen[p] # Stock \/ Guarded
    PROVE  Copies(p) # {}
<1>1. screen[p] # Stock => Written
  BY DEF MetInv, StoredTold, Written, FirstMeeting
<1>2. Guarded
  BY <1>1 DEF KeptInv
<1> QED BY <1>2, HasCopies DEF Guarded, Kept

(* What the module exists for, with overlapping sessions: the stock art of  *)
(* a screen that holds something else has a good copy, through crashes and  *)
(* factory resets, whatever each computer knew when it came.                *)
THEOREM StockArtSurvivesFirstMeeting == ASSUME FirstMeeting, Apart PROVE Spec => []StockSurvives
<1>1. MetInv /\ KeptInv => StockSurvives
  BY OffScreenCopied DEF StockSurvives
<1> QED BY <1>1, KeptAlways, PTL

(* The refinement with overlapping sessions: a picture that is cut short on *)
(* a computer while the screen holds something else is not the last one.    *)
THEOREM PromiseIsKeptAtFirstMeeting == ASSUME FirstMeeting, Apart PROVE Spec => KeepsPromise
<1> DEFINE Inv == MetInv /\ KeptInv
<1>1. Inv /\ Inv' /\ [Next]_vars => [Promise!Next]_(Promise!vars)
  <2> SUFFICES ASSUME MetInv, KeptInv, MetInv', KeptInv', [Next]_vars
               PROVE  [Promise!Next]_(Promise!vars)
    OBVIOUS
  <2>1. ASSUME NEW p \in Screen, screen'[p] # Stock PROVE (Copies(p) # {})'
    <3>1. Written'
      BY <2>1 DEF MetInv, StoredTold, Written, FirstMeeting
    <3>2. Guarded'
      BY <3>1 DEF KeptInv
    <3> QED BY <3>2, HasCopiesNext DEF Guarded, Kept
  <2>2. ASSUME NEW s \in Session, Step(s)
        PROVE  [Promise!Next]_(Promise!vars)
    <3>0. ses[s] \in SessionType /\ ses[s].at \in Screen /\ Newcomer(ses[s]) /\ Vouched(s)
      BY DEF MetInv, KeptInv, Typed, TypeOK, SessionType, Stage
    <3>1. PICK r \in SessionType : r = ses'[s]
      BY DEF MetInv, Typed, TypeOK, SessionType, Stage
    <3>2. Pictures(HostOf[s])
      <4>1. CASE SyncPicture(s) \/ CaptureToHost(s) \/ StopWriting(s)
        <5>1. UNCHANGED <<screen, devPng>>
          BY <3>1, <4>1, PictureNewcomer DEF MetInv
        <5>2. \/ UNCHANGED hostPng
              \/ \E p \in Screen : hostPng' = [hostPng EXCEPT ![HostOf[s]][p] = Stock]
              \/ \E p \in Screen : hostPng' = [hostPng EXCEPT ![HostOf[s]][p] = Torn]
          BY <3>1, <4>1, PictureNewcomer
        <5>3. \A p \in Screen : screen[p] = Stock \/ Copies(p) # {}
          BY OffScreenCopied
        <5>4. \A p \in Screen : screen[p] = Stock \/ (Copies(p) # {})'
          BY <2>1, <5>1
        <5> QED BY <5>1, <5>2, <5>3, <5>4 DEF Pictures
      <4>2. CASE CaptureToDevice(s)
        <5>1. /\ UNCHANGED <<screen, hostPng>>
              /\ devPng' = [devPng EXCEPT ![ses[s].at] = Stock]
          BY <3>1, <4>2, DeviceNewcomer
        <5>2. screen[ses[s].at] = Stock \/ Copies(ses[s].at) # {}
          BY <3>0, OffScreenCopied
        <5> QED BY <3>0, <5>1, <5>2 DEF Pictures
      <4>3. CASE ~(SyncPicture(s) \/ CaptureToHost(s) \/ CaptureToDevice(s) \/ StopWriting(s))
        <5>1. UNCHANGED <<devPng, hostPng>>
          BY <2>2, <4>3 DEF Step, Start, LoadManifest, SyncManifest, Look, PickCapture,
             HashScreen, ReadScreen, SaveHost, SaveDevice, NoteApplied, PickRestore, FetchStock,
             WriteScreen, SkipRestore, Stop, device, computer
        <5> QED BY <5>1 DEF Pictures
      <4> QED BY <4>1, <4>2, <4>3
    <3>3. WriteScreen(s) => Copies(ses[s].at) # {}
      <4>1. WriteScreen(s) => Guarded
        BY <3>0, <3>1, WriteNewcomer DEF WriteScreen, Vouched
      <4> QED BY <3>0, <4>1, OffScreenCopied
    <3> QED BY <2>2, <3>2, <3>3, StepPromised DEF MetInv
  <2>3. CASE FactoryReset
    <3>1. /\ UNCHANGED <<screen, hostPng>> /\ \A p \in Screen : devPng'[p] = None
      BY <2>3 DEF FactoryReset, tablet, computer
    <3>2. \A p \in Screen : (Copies(p) # {})' => Copies(p) # {}
      BY <3>1, Names, HasCopies, HasCopiesNext
    <3>3. Promise!Lose
      BY <2>1, <3>1, <3>2, LoseAllowed
    <3> QED BY <3>3 DEF Promise!Next
  <2>4. ~Damage
    BY DEF Damage, Apart
  <2> QED BY <2>2, <2>3, <2>4, StillPromised DEF Next
<1> QED BY <1>1, InitPromised, KeptAlways, PTL DEF Spec, KeepsPromise, Promise!Spec
=============================================================================
