------------------------------ MODULE Backups ------------------------------
(***************************************************************************)
(* Stock artwork and its backups, for one firmware build: BackupStore of   *)
(* backup.py and the Applier of apply.py, one step per access to the       *)
(* tablet or to the computer's backup directory.                           *)
(*                                                                         *)
(* A session is one connection with the BackupStore opened over it: it     *)
(* loads a manifest into memory, works on that copy and saves it.  Several *)
(* computers may own the same tablet; sessions of one computer share its   *)
(* backup directory.  A session may stop at any step.  A factory reset     *)
(* erases /home, with the tablet's backups, and leaves the screens.        *)
(***************************************************************************)
EXTENDS Naturals, FiniteSets

CONSTANTS
    Host,       \* computers
    Session,    \* connections that may be open at a time
    HostOf,     \* the computer each session runs on
    Screen,     \* screens of the catalog
    Custom,     \* images the user applies, as prepare() encodes them
    Stock,      \* a screen's own stock image
    None, Torn, \* no such file; a file cut short
    Kinds,      \* operations the user performs, of Kind
    AssumeStock,\* whether backup is run with --assume-stock
    ReadsMtime, \* whether the build names a time and mtimes can be read
    Overlap,    \* whether two sessions may be open at once
    Resets,     \* whether the tablet may be factory reset
    Damages     \* whether copies may be damaged from outside

Kind == {"apply", "restore", "restoreall", "backup", "status"}
Label == {"idle", "load", "sync", "look", "pick", "hash", "read", "hostpng", "devpng",
          "savehost", "savedev", "stock", "write"}
Image == Custom \cup {Stock}
File == Image \cup {None, Torn}

ASSUME HostAssumption == Host # {} /\ HostOf \in [Session -> Host]
ASSUME ImageAssumption == /\ None \notin Host
                          /\ Stock \notin Custom /\ None \notin Image
                          /\ Torn \notin Image /\ None # Torn
ASSUME ScreenAssumption == Screen # {}
ASSUME KindAssumption == Kinds \subseteq Kind
ASSUME FlagAssumption == {AssumeStock, ReadsMtime, Overlap, Resets, Damages} \subseteq BOOLEAN

(* stock: recorded hash of each screen's stock image, None when the screen *)
(* has no backup; applied: hashes of all images recorded as applied.       *)
Manifest == [stock : [Screen -> Image \cup {None}], applied : SUBSET Custom]
Empty == [stock |-> [p \in Screen |-> None], applied |-> {}]

ASSUME ManifestAssumption == None \notin Manifest

VARIABLES
    screen, touched,    \* image on each screen path; written since the firmware was
    devPng, devMan,     \* backups/<build>/ on the tablet: pictures and manifest
    hostPng, hostMan,   \* the same on each computer
    ses                 \* the sessions: a record each, NoSession when there is none

tablet == <<screen, touched>>
device == <<devPng, devMan>>
computer == <<hostPng, hostMan>>
vars == <<screen, touched, devPng, devMan, hostPng, hostMan, ses>>

(* kind, image, at: what was asked, and the screen it is about; pc: the next *)
(* step; mem, arrived: the store's manifest and arrived_empty; todo: screens *)
(* yet to visit; data: the picture in hand; stage: what save is called for.  *)
NoSession == [kind |-> "status", image |-> Stock, at |-> CHOOSE p \in Screen : TRUE,
              pc |-> "idle", mem |-> Empty, arrived |-> FALSE, todo |-> {},
              data |-> None, stage |-> "final"]

Goto(s, l) == ses' = [ses EXCEPT ![s].pc = l]
End(s) == ses' = [ses EXCEPT ![s] = NoSession]

IsBatch(s) == ses[s].kind \in {"backup", "restoreall"}

(* A screen of a batch is done with, or the operation is. *)
NextOrEnd(s) == IF IsBatch(s)
                THEN ses' = [ses EXCEPT ![s].pc = "pick", ![s].todo = @ \ {ses[s].at},
                                        ![s].data = None]
                ELSE End(s)

(* Does the manifest know the image as one the tool wrote? *)
is_ours(m, image) == image \in m.applied

-----------------------------------------------------------------------------
Init ==
    /\ screen = [p \in Screen |-> Stock] /\ touched = [p \in Screen |-> FALSE]
    /\ devPng = [p \in Screen |-> None] /\ devMan = None
    /\ hostPng = [h \in Host |-> [p \in Screen |-> None]]
    /\ hostMan = [h \in Host |-> None]
    /\ ses = [s \in Session |-> NoSession]

(* The user starts an operation; without Overlap, one at a time. *)
Start(s) ==
    /\ ses[s].pc = "idle" /\ (Overlap \/ \A t \in Session : ses[t].pc = "idle")
    /\ \E k \in Kinds, i \in Image, p \in Screen :
          /\ k = "apply" <=> i \in Custom
          /\ ses' = [ses EXCEPT ![s].kind = k, ![s].image = i, ![s].at = p, ![s].pc = "load"]
    /\ UNCHANGED <<tablet, device, computer>>

(* Where the operation starts once the store is open with manifest m. *)
Entry(s, m) ==
    CASE IsBatch(s) -> "pick"
      [] ses[s].kind = "restore" -> "stock"
      [] ses[s].kind = "apply" -> IF m.stock[ses[s].at] = None THEN "hash" ELSE "stock"
      [] OTHER -> "look"

Scope(s) == IF IsBatch(s) THEN Screen ELSE {}

(* Mutant: the computer's manifest is never looked at. *)
LoadDeviceOnly(s) ==
    LET m == IF devMan # None THEN devMan ELSE Empty
        opened == [ses EXCEPT ![s].mem = m, ![s].arrived = (m = Empty)]
    IN  /\ ses[s].pc = "load"
        /\ ses' = IF devMan # None
                  THEN [opened EXCEPT ![s].pc = "sync", ![s].todo = {}]
                  ELSE [opened EXCEPT ![s].pc = Entry(s, m), ![s].todo = Scope(s)]
        /\ UNCHANGED <<tablet, device, computer>>

(* Mutant: the computer's own manifest is preferred to the tablet's. *)
LoadHostFirst(s) ==
    LET host == hostMan[HostOf[s]]
        m == IF host # None THEN host ELSE IF devMan # None THEN devMan ELSE Empty
    IN  /\ ses[s].pc = "load"
        /\ ses' = [ses EXCEPT ![s].mem = m, ![s].arrived = (m = Empty),
                              ![s].pc = Entry(s, m), ![s].todo = Scope(s)]
        /\ UNCHANGED <<tablet, device, computer>>

(* _load: the tablet's manifest if there is one, else the computer's.      *)
(* arrived_empty: neither knows anything.                                  *)
LoadManifest(s) ==
    LET m == IF devMan # None THEN devMan
             ELSE IF hostMan[HostOf[s]] # None THEN hostMan[HostOf[s]] ELSE Empty
        known == {p \in Screen : m.stock[p] # None}
        opened == [ses EXCEPT ![s].mem = m, ![s].arrived = (m = Empty)]
    IN  /\ ses[s].pc = "load"
        /\ ses' = IF devMan # None
                  THEN [opened EXCEPT ![s].pc = "sync", ![s].todo = known]
                  ELSE [opened EXCEPT ![s].pc = Entry(s, m), ![s].todo = Scope(s)]
        /\ UNCHANGED <<tablet, device, computer>>

(* Mutant: the tablet's copy is taken without a look at either. *)
SyncTrusting(s) ==
    LET h == HostOf[s]
    IN  /\ ses[s].pc = "sync"
        /\ \E p \in ses[s].todo :
            /\ hostPng' = [hostPng EXCEPT ![h][p] = devPng[p]]
            /\ ses' = [ses EXCEPT ![s].todo = @ \ {p}]
        /\ UNCHANGED <<tablet, device, hostMan>>

(* _load, for each picture of the tablet's manifest: bring the computer's  *)
(* copy in line with it, overwriting a copy that does not match.           *)
SyncPicture(s) ==
    LET h == HostOf[s]
        want == ses[s].mem.stock
    IN  /\ ses[s].pc = "sync"
        /\ \E p \in ses[s].todo :
            \/ /\ hostPng[h][p] = want[p] \/ devPng[p] = None
               /\ ses' = [ses EXCEPT ![s].todo = @ \ {p}]
               /\ UNCHANGED hostPng
            \/ /\ hostPng[h][p] # want[p] /\ devPng[p] = want[p]
               /\ hostPng' = [hostPng EXCEPT ![h][p] = devPng[p]]
               /\ ses' = [ses EXCEPT ![s].todo = @ \ {p}]
            \/ /\ hostPng[h][p] # want[p] /\ devPng[p] \notin {None, want[p]}
               /\ End(s)    \* corrupt device backup
               /\ UNCHANGED hostPng
        /\ UNCHANGED <<tablet, device, hostMan>>

SyncManifest(s) ==
    /\ ses[s].pc = "sync" /\ ses[s].todo = {}
    /\ hostMan' = [hostMan EXCEPT ![HostOf[s]] = ses[s].mem]
    /\ ses' = [ses EXCEPT ![s].pc = Entry(s, ses[s].mem), ![s].todo = Scope(s)]
    /\ UNCHANGED <<tablet, device, hostPng>>

(* status: drift reads and reports. *)
Look(s) ==
    /\ ses[s].pc = "look"
    /\ End(s)
    /\ UNCHANGED <<tablet, device, computer>>

-----------------------------------------------------------------------------
(* capture_all: the next screen without a backup; then a final save. *)
PickCapture(s) ==
    /\ ses[s].pc = "pick" /\ ses[s].kind = "backup"
    /\ \/ \E p \in ses[s].todo :
            ses' = IF ses[s].mem.stock[p] = None
                   THEN [ses EXCEPT ![s].at = p, ![s].pc = "hash"]
                   ELSE [ses EXCEPT ![s].todo = @ \ {p}]
       \/ /\ ses[s].todo = {}
          /\ ses' = [ses EXCEPT ![s].pc = "savehost", ![s].stage = "final"]
    /\ UNCHANGED <<tablet, device, computer>>

(* Mutant: no look at when the screen was written. *)
RefusesOurs(s) == is_ours(ses[s].mem, screen[ses[s].at])

(* capture's refusals: the tool's own image, or, for a store that arrived  *)
(* empty, an image written after the firmware.                             *)
Refuses(s) ==
    \/ is_ours(ses[s].mem, screen[ses[s].at])
    \/ /\ ses[s].arrived /\ ~(ses[s].kind = "backup" /\ AssumeStock)
       /\ ReadsMtime /\ touched[ses[s].at]

HashScreen(s) ==
    /\ ses[s].pc = "hash"
    /\ IF Refuses(s) THEN NextOrEnd(s)
                     ELSE ses' = [ses EXCEPT ![s].data = screen[ses[s].at], ![s].pc = "read"]
    /\ UNCHANGED <<tablet, device, computer>>

(* Mutant: whatever was read is hashed, and taken. *)
ReadUnchecked(s) ==
    /\ ses[s].pc = "read"
    /\ ses' = [ses EXCEPT ![s].data = screen[ses[s].at], ![s].pc = "hostpng"]
    /\ UNCHANGED <<tablet, device, computer>>

(* The screen is read after it was hashed, and must not have changed. *)
ReadScreen(s) ==
    /\ ses[s].pc = "read"
    /\ IF screen[ses[s].at] = ses[s].data THEN Goto(s, "hostpng") ELSE NextOrEnd(s)
    /\ UNCHANGED <<tablet, device, computer>>

CaptureToHost(s) ==
    /\ ses[s].pc = "hostpng"
    /\ hostPng' = [hostPng EXCEPT ![HostOf[s]][ses[s].at] = ses[s].data]
    /\ Goto(s, "devpng")
    /\ UNCHANGED <<tablet, device, hostMan>>

(* The tablet's copy, and then the record in memory. *)
CaptureToDevice(s) ==
    /\ ses[s].pc = "devpng"
    /\ devPng' = [devPng EXCEPT ![ses[s].at] = ses[s].data]
    /\ ses' = [ses EXCEPT ![s].mem.stock[ses[s].at] = ses[s].data,
                          ![s].pc = "savehost", ![s].stage = "capture"]
    /\ UNCHANGED <<tablet, devMan, computer>>

-----------------------------------------------------------------------------
(* save: the computer's manifest, then the tablet's. *)
SaveHost(s) ==
    /\ ses[s].pc = "savehost"
    /\ hostMan' = [hostMan EXCEPT ![HostOf[s]] = ses[s].mem]
    /\ Goto(s, "savedev")
    /\ UNCHANGED <<tablet, device, hostPng>>

SaveDevice(s) ==
    /\ ses[s].pc = "savedev"
    /\ devMan' = ses[s].mem
    /\ \/ ses[s].stage = "capture" /\ ses[s].kind = "backup" /\ NextOrEnd(s)
       \/ ses[s].stage = "capture" /\ ses[s].kind = "apply" /\ Goto(s, "stock")
       \/ ses[s].stage = "intent" /\ Goto(s, "write")
       \/ ses[s].stage = "final" /\ End(s)
    /\ UNCHANGED <<tablet, devPng, computer>>

(* stock_bytes: the tablet's copy, or the computer's when the tablet's is  *)
(* not there or not readable; whichever it is must have the recorded hash. *)
StockBytes(s) == {devPng[ses[s].at], hostPng[HostOf[s]][ses[s].at]}

(* Mutant: whatever is read is taken for the stock art. *)
Unverified(s, data) == data # None /\ ses[s].mem.stock[ses[s].at] # None

Verified(s, data) == data # None /\ data = ses[s].mem.stock[ses[s].at]

(* Mutant: the intent is left for the next save. *)
NoteUnsaved(s) ==
    /\ ses[s].pc = "stock" /\ ses[s].kind = "apply"
    /\ \E data \in StockBytes(s) :
        IF Verified(s, data) THEN ses' = [ses EXCEPT ![s].data = ses[s].image, ![s].pc = "write"]
                             ELSE End(s)
    /\ UNCHANGED <<tablet, device, computer>>

(* apply verifies that stock can be had back, then notes its intent. *)
NoteApplied(s) ==
    /\ ses[s].pc = "stock" /\ ses[s].kind = "apply"
    /\ \E data \in StockBytes(s) :
        IF Verified(s, data)
        THEN ses' = [ses EXCEPT ![s].mem.applied = @ \cup {ses[s].image},
                                ![s].data = ses[s].image,
                                ![s].stage = "intent", ![s].pc = "savehost"]
        ELSE End(s)
    /\ UNCHANGED <<tablet, device, computer>>

(* restore_all: the next screen, unless it has no backup or is stock. *)
PickRestore(s) ==
    /\ ses[s].pc = "pick" /\ ses[s].kind = "restoreall"
    /\ \/ \E p \in ses[s].todo :
            ses' = IF ses[s].mem.stock[p] \notin {None, screen[p]}
                   THEN [ses EXCEPT ![s].at = p, ![s].pc = "stock"]
                   ELSE [ses EXCEPT ![s].todo = @ \ {p}]
       \/ ses[s].todo = {} /\ End(s)
    /\ UNCHANGED <<tablet, device, computer>>

FetchStock(s) ==
    /\ ses[s].pc = "stock" /\ ses[s].kind \in {"restore", "restoreall"}
    /\ \E data \in StockBytes(s) :
        IF Verified(s, data) THEN ses' = [ses EXCEPT ![s].data = data, ![s].pc = "write"]
                             ELSE NextOrEnd(s)
    /\ UNCHANGED <<tablet, device, computer>>

(* The write inside the remount guard: WritableRootfs shows it atomic. *)
WriteScreen(s) ==
    /\ ses[s].pc = "write"
    /\ screen' = [screen EXCEPT ![ses[s].at] = ses[s].data]
    /\ touched' = [touched EXCEPT ![ses[s].at] = TRUE]
    /\ NextOrEnd(s)
    /\ UNCHANGED <<device, computer>>

(* A screen of restore_all that fails is reported, and the rest go on. *)
SkipRestore(s) ==
    /\ ses[s].pc = "write" /\ ses[s].kind = "restoreall"
    /\ NextOrEnd(s)
    /\ UNCHANGED <<tablet, device, computer>>

-----------------------------------------------------------------------------
(* A call fails, the process dies or the cable comes out: the session ends.*)
Stop(s) ==
    /\ ses[s].pc # "idle"
    /\ End(s)
    /\ UNCHANGED <<tablet, device, computer>>

(* It may end while a picture is being written to the computer, the one    *)
(* write that is not a rename.                                             *)
StopWriting(s) ==
    /\ \/ /\ ses[s].pc = "hostpng"
          /\ hostPng' = [hostPng EXCEPT ![HostOf[s]][ses[s].at] = Torn]
       \/ /\ ses[s].pc = "sync"
          /\ \E p \in ses[s].todo :
                /\ devPng[p] = ses[s].mem.stock[p] /\ hostPng[HostOf[s]][p] # devPng[p]
                /\ hostPng' = [hostPng EXCEPT ![HostOf[s]][p] = Torn]
    /\ End(s)
    /\ UNCHANGED <<tablet, device, hostMan>>

(* /home is erased and every connection lost; the screens stay. *)
FactoryReset ==
    /\ Resets
    /\ devPng' = [p \in Screen |-> None] /\ devMan' = None
    /\ ses' = [s \in Session |-> NoSession]
    /\ UNCHANGED <<tablet, computer>>

(* Where the good copies of a screen's stock art are; None is the tablet. *)
Copies(p) == (IF devPng[p] = Stock THEN {None} ELSE {})
             \cup {h \in Host : hostPng[h][p] = Stock}

(* Between operations something else spoils a copy of stock art that is    *)
(* still on its screen or has another good copy.                           *)
Damage ==
    /\ Damages /\ \A s \in Session : ses[s].pc = "idle"
    /\ \E p \in Screen : \E c \in Copies(p) :
        /\ screen[p] = Stock \/ Cardinality(Copies(p)) > 1
        /\ IF c = None
           THEN devPng' = [devPng EXCEPT ![p] = Torn] /\ UNCHANGED hostPng
           ELSE hostPng' = [hostPng EXCEPT ![c][p] = Torn] /\ UNCHANGED devPng
    /\ UNCHANGED <<tablet, devMan, hostMan, ses>>

Step(s) ==
    \/ Start(s) \/ LoadManifest(s) \/ SyncPicture(s) \/ SyncManifest(s) \/ Look(s)
    \/ PickCapture(s) \/ HashScreen(s) \/ ReadScreen(s) \/ CaptureToHost(s)
    \/ CaptureToDevice(s) \/ SaveHost(s) \/ SaveDevice(s) \/ NoteApplied(s)
    \/ PickRestore(s) \/ FetchStock(s) \/ WriteScreen(s) \/ SkipRestore(s) \/ Stop(s) \/ StopWriting(s)

Next == FactoryReset \/ Damage \/ \E s \in Session : Step(s)

Spec == Init /\ [][Next]_vars

-----------------------------------------------------------------------------
TypeOK ==
    /\ screen \in [Screen -> Image] /\ touched \in [Screen -> BOOLEAN]
    /\ devPng \in [Screen -> File] /\ devMan \in Manifest \cup {None}
    /\ hostPng \in [Host -> [Screen -> File]] /\ hostMan \in [Host -> Manifest \cup {None}]
    /\ ses \in [Session -> [kind : Kind, image : Image, at : Screen, pc : Label,
                            mem : Manifest, arrived : BOOLEAN, todo : SUBSET Screen,
                            data : Image \cup {None}, stage : {"capture", "intent", "final"}]]

(* Rule 2 of backup.py: no manifest, on any computer or the tablet, ever   *)
(* records an image that the tool itself wrote as a screen's stock art.    *)
NoLaundering ==
    \A m \in ({devMan} \cup {hostMan[h] : h \in Host}) \ {None}, p \in Screen :
        m.stock[p] \notin Custom

(* What the module exists for: a screen that does not hold its stock art   *)
(* has a good copy of it somewhere, through crashes and factory resets.    *)
StockSurvives == \A p \in Screen : screen[p] # Stock => Copies(p) # {}

(* "Persist intent before the write, so a disconnect cannot lose its hash":*)
(* the manifest the next session will load knows each custom image that is *)
(* on a screen.                                                            *)
IntentRecorded ==
    \A p \in Screen : screen[p] \in Custom =>
        IF devMan # None THEN screen[p] \in devMan.applied
        ELSE \E h \in Host : hostMan[h] # None /\ screen[p] \in hostMan[h].applied

(* Rule 1, of the tablet's manifest: an entry is neither replaced nor      *)
(* dropped by a later save; only a factory reset takes it away.            *)
WriteOnce ==
    [][\A p \in Screen : devMan # None /\ devMan' # None /\ devMan.stock[p] # None
                            => devMan'.stock[p] = devMan.stock[p]]_vars

(* Rule 1, of the pictures: a backup of stock art is never overwritten     *)
(* with a custom image, on the tablet or on a computer.                    *)
BackupKept ==
    [][\A p \in Screen :
        /\ devPng[p] = Stock => devPng'[p] \notin Custom
        /\ \A h \in Host : hostPng[h][p] = Stock => hostPng'[h][p] \notin Custom]_vars

(* Between operations, a custom screen can be put back by the next one:    *)
(* some computer would load a manifest that names the stock art, and       *)
(* stock_bytes would find it, unless something else spoiled the tablet's   *)
(* copy, which is refused rather than passed over.                         *)
Restorable ==
    (\A s \in Session : ses[s].pc = "idle") =>
        \A p \in Screen : screen[p] \in Custom =>
            \E h \in Host : LET m == IF devMan # None THEN devMan ELSE hostMan[h] IN
                /\ m # None
                /\ m.stock[p] = Stock
                /\ devPng[p] # None \/ hostPng[h][p] = Stock
                /\ devPng[p] \in {None, Stock} \/ (Damages /\ devPng[p] = Torn)

(* The Vault promise: see Vault.tla. *)
Promise == INSTANCE Vault WITH saved <- [p \in Screen |-> Copies(p) # {}]
KeepsPromise == Promise!Spec
=============================================================================
