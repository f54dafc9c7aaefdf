----------------------------- MODULE Migration -----------------------------
(***************************************************************************)
(* Files of one computer: the private key, the configuration beside it and *)
(* the backup directory, and the two things that write the first two.      *)
(* Every command of the tool begins with migrate.run, which copies what an *)
(* older version left elsewhere; `setup` then generates a key when there   *)
(* is none and saves the configuration.                                    *)
(*                                                                         *)
(* Each process runs one command after the other, one step per access to a *)
(* file that another process may see.  A step may fail, a process may be   *)
(* killed, and any number of processes overlap: there is no lock.          *)
(*                                                                         *)
(* A configuration says where its key is kept: beside it, or elsewhere; an *)
(* older one that has no key beside it names one elsewhere, which is there *)
(* and which nothing here touches.  The public half is left out: it can be *)
(* had from the key, and only the failure to copy it matters.              *)
(***************************************************************************)
EXTENDS Naturals

CONSTANTS
    Proc,           \* processes of the user
    NoProc,         \* the maker of a file nobody made
    Picture,        \* backup pictures a build can have
    OldFile,        \* backup files in the old location, Manifest among them or not
    Manifest,       \* manifest.json of the build
    Bad,            \* pictures whose old copy is not what the tablet has on record
    Faults,         \* kinds of failure that happen, of FaultKind
    MaxFaults, MaxKills     \* bounds: failures, and processes killed

(* restrict: the ACL cannot be set; key: the key's bytes cannot be written;  *)
(* copy: nor the public half, or the copy does not read back as it should;  *)
(* config: the configuration cannot be read or saved; backup: a backup file *)
(* cannot be read, or its copy cannot be written or renamed.                *)
FaultKind == {"restrict", "key", "copy", "config", "backup"}
File == Picture \cup {Manifest}

ASSUME NamesAssumption == NoProc \notin Proc /\ Manifest \notin Picture /\ OldFile \subseteq File
                          /\ Bad \subseteq Picture
ASSUME BoundAssumption == Faults \subseteq FaultKind /\ MaxFaults \in Nat /\ MaxKills \in Nat

VARIABLES
    old,        \* what the old location holds: a key, a configuration, one that
                \* names a key kept away from it; never changes
    key,        \* private key in the new location: what it holds and who made it
    toml,       \* config.toml there, likewise
    new,        \* backup files in the new location
    pc,         \* where each process is
    making,     \* what it makes: a copy of what is old; its own key and configuration;
                \* or a configuration anew whose key is kept elsewhere
    created,    \* migrate_config's list of the files it made
    todo, at,   \* migrate_backups: files yet to visit, and the one being copied
    faults, kills,
    spoilt      \* a process was killed while it wrote key or configuration, a setup
                \* failed with the configuration half saved, or a cleanup removed the
                \* configuration another process had made meanwhile

disk == <<key, toml, new>>
local == <<pc, making, created, todo, at>>
bounds == <<faults, kills, spoilt>>
vars == <<old, disk, local, bounds>>

Label == {"idle", "check", "create", "restrict", "fill", "pub", "toml", "save",
          "cleanup", "backups", "place", "use", "ask"}
(* While the files of the configuration are being written. *)
InConfig == {"restrict", "fill", "pub", "toml", "save", "cleanup"}
Nothing == [data |-> "none", by |-> NoProc]
Made(d, p) == [data |-> d, by |-> p]

Goto(p, l) == pc' = [pc EXCEPT ![p] = l]

Init ==
    /\ old \in {{}, {"key"}, {"key", "toml"}, {"toml", "away"}, {"key", "toml", "away"}}
    /\ key = Nothing /\ toml = Nothing
    /\ new \in [File -> {"none", "own"}]
    /\ pc = [p \in Proc |-> "idle"] /\ making = [p \in Proc |-> "old"]
    /\ created = [p \in Proc |-> {}] /\ todo = [p \in Proc |-> {}]
    /\ at = [p \in Proc |-> Manifest]
    /\ faults = 0 /\ kills = 0 /\ spoilt = FALSE

-----------------------------------------------------------------------------
(* An exception leaves migrate_config by its cleanup; anywhere else it ends *)
(* the command.                                                            *)
Raise(p) == Goto(p, IF pc[p] \in {"create"} \cup InConfig /\ making[p] = "old"
                    THEN "cleanup" ELSE "idle")

Fail(kind, p) ==
    /\ kind \in Faults /\ faults < MaxFaults
    /\ faults' = faults + 1 /\ spoilt' = (spoilt \/ (pc[p] = "save" /\ making[p] # "old"))
    /\ Raise(p)
    /\ UNCHANGED kills

Start(p) ==
    /\ pc[p] = "idle"
    /\ Goto(p, "check")
    /\ making' = [making EXCEPT ![p] = "old"] /\ created' = [created EXCEPT ![p] = {}]
    /\ todo' = [todo EXCEPT ![p] = OldFile] /\ at' = [at EXCEPT ![p] = Manifest]
    /\ UNCHANGED <<old, disk, bounds>>

(* Mutant: a location in use ends the whole migration. *)
CheckConfigAndReturn(p) ==
    /\ pc[p] = "check"
    /\ Goto(p, IF old = {} \/ key # Nothing \/ toml # Nothing THEN "use"
               ELSE IF "key" \in old THEN "create" ELSE "toml")
    /\ UNCHANGED <<old, disk, making, created, todo, at, bounds>>

(* migrate_config does nothing without an old install, or into a location  *)
(* in use.                                                                 *)
CheckConfig(p) ==
    /\ pc[p] = "check"
    /\ Goto(p, IF old = {} \/ key # Nothing \/ toml # Nothing THEN "backups"
               ELSE IF "key" \in old THEN "create" ELSE "toml")
    /\ UNCHANGED <<old, disk, making, created, todo, at, bounds>>

(* Mutant: the key is put on the list before it is made, as config.toml is. *)
CreateKeyClaimed(p) ==
    /\ pc[p] = "create"
    /\ IF key = Nothing
       THEN key' = Made("empty", p) /\ Goto(p, "restrict")
       ELSE Raise(p) /\ UNCHANGED key
    /\ created' = [created EXCEPT ![p] = IF making[p] = "old" THEN {"key"} ELSE {}]
    /\ UNCHANGED <<old, toml, new, making, todo, at, bounds>>

(* write_private, O_CREAT|O_EXCL: of two processes one makes the key.      *)
CreateKey(p) ==
    /\ pc[p] = "create"
    /\ IF key = Nothing
       THEN key' = Made("empty", p) /\ Goto(p, "restrict")
       ELSE Raise(p) /\ UNCHANGED key
    /\ UNCHANGED <<old, toml, new, making, created, todo, at, bounds>>

(* Mutant: the file stays when it cannot be restricted. *)
RestrictKeyOnly(p) ==
    /\ pc[p] = "restrict"
    /\ \/ Goto(p, "fill") /\ UNCHANGED bounds
       \/ Fail("restrict", p)
    /\ UNCHANGED <<old, disk, making, created, todo, at>>

(* restrict_private; on a failure the empty file is removed again. *)
RestrictKey(p) ==
    /\ pc[p] = "restrict"
    /\ \/ Goto(p, "fill") /\ UNCHANGED <<key, bounds>>
       \/ Fail("restrict", p) /\ key' = Nothing
    /\ UNCHANGED <<old, toml, new, making, created, todo, at>>

(* The bytes; only then is the copy on migrate_config's list. *)
FillKey(p) ==
    /\ pc[p] = "fill"
    /\ \/ /\ key' = Made(making[p], p) /\ Goto(p, "pub")
          /\ created' = [created EXCEPT ![p] = IF making[p] = "old" THEN {"key"} ELSE {}]
          /\ UNCHANGED bounds
       \/ Fail("key", p) /\ UNCHANGED <<key, created>>
    /\ UNCHANGED <<old, toml, new, making, todo, at>>

(* The read back, the public half.  setup goes on to ask for the password. *)
WritePub(p) ==
    /\ pc[p] = "pub"
    /\ \/ /\ Goto(p, IF making[p] = "own" THEN "ask"
                     ELSE IF "toml" \in old THEN "toml" ELSE "backups")
          /\ UNCHANGED bounds
       \/ Fail("copy", p)
    /\ UNCHANGED <<old, disk, making, created, todo, at>>

(* Mutant: the configuration is put on the list once it is saved. *)
OpenTomlUnclaimed(p) ==
    /\ pc[p] = "toml"
    /\ \/ toml' = Made("empty", p) /\ Goto(p, "save") /\ UNCHANGED bounds
       \/ Fail("config", p) /\ UNCHANGED toml
    /\ UNCHANGED <<old, key, new, making, created, todo, at>>

(* The old configuration is read, the new one put on the list, and opening *)
(* it for writing empties it.  Either may fail.                            *)
OpenToml(p) ==
    /\ pc[p] = "toml"
    /\ \/ /\ toml' = Made("empty", p) /\ Goto(p, "save")
          /\ created' = [created EXCEPT ![p] = IF making[p] = "old" THEN @ \cup {"toml"} ELSE @]
          /\ UNCHANGED bounds
       \/ Fail("config", p) /\ UNCHANGED <<toml, created>>
       \/ /\ Fail("config", p) /\ making[p] = "old"
          /\ created' = [created EXCEPT ![p] = @ \cup {"toml"}]
          /\ UNCHANGED toml
    /\ UNCHANGED <<old, key, new, making, todo, at>>

SaveToml(p) ==
    /\ pc[p] = "save"
    /\ \/ /\ toml' = Made(making[p], p)
          /\ Goto(p, IF making[p] = "old" THEN "backups" ELSE "idle")
          /\ UNCHANGED bounds
       \/ Fail("config", p) /\ UNCHANGED toml
    /\ UNCHANGED <<old, key, new, making, created, todo, at>>

(* except BaseException: the files on the list are removed one by one, and *)
(* the command ends.  Windows refuses to remove a file that is open.       *)
CleanUp(p) ==
    /\ pc[p] = "cleanup"
    /\ IF "key" \in created[p]
       THEN key' = Nothing /\ UNCHANGED <<toml, spoilt, pc>>
       ELSE /\ IF "toml" \in created[p] /\ \A q \in Proc : pc[q] # "save"
               THEN toml' = Nothing /\ spoilt' = (spoilt \/ toml.by \notin {p, NoProc})
               ELSE UNCHANGED <<toml, spoilt>>
            /\ Goto(p, "idle") /\ UNCHANGED key
    /\ created' = [created EXCEPT ![p] = @ \ {"key"}]
    /\ UNCHANGED <<old, new, making, todo, at, faults, kills>>

-----------------------------------------------------------------------------
(* Mutant: every file is copied, the ones already there too. *)
LookAtAnyBackup(p) ==
    /\ pc[p] = "backups" /\ \E f \in todo[p] : at' = [at EXCEPT ![p] = f] /\ Goto(p, "place")
    /\ UNCHANGED <<old, disk, making, created, todo, bounds>>

(* migrate_backups visits the files in their order, which does not matter; *)
(* one that is present is passed over, the others are copied to a name of  *)
(* the process's own.                                                      *)
LookAtBackup(p) ==
    /\ pc[p] = "backups"
    /\ \E f \in todo[p] :
          \/ /\ new[f] # "none"
             /\ todo' = [todo EXCEPT ![p] = @ \ {f}]
             /\ UNCHANGED <<pc, at, bounds>>
          \/ /\ new[f] = "none"
             /\ at' = [at EXCEPT ![p] = f] /\ Goto(p, "place")
             /\ UNCHANGED <<todo, bounds>>
          \/ Fail("backup", p) /\ UNCHANGED <<todo, at>>
    /\ UNCHANGED <<old, disk, making, created>>

(* temporary.replace(target). *)
PlaceBackup(p) ==
    /\ pc[p] = "place"
    /\ \/ /\ new' = [new EXCEPT ![at[p]] = "old"]
          /\ todo' = [todo EXCEPT ![p] = @ \ {at[p]}] /\ Goto(p, "backups")
          /\ UNCHANGED bounds
       \/ Fail("backup", p) /\ UNCHANGED <<new, todo>>
    /\ UNCHANGED <<old, key, toml, making, created, at>>

EndMigration(p) ==
    /\ pc[p] = "backups" /\ todo[p] = {}
    /\ Goto(p, "use")
    /\ UNCHANGED <<old, disk, making, created, todo, at, bounds>>

-----------------------------------------------------------------------------
(* The command itself.  One that opens a BackupStore rewrites the manifest, *)
(* and writes a picture where there is none or one that fails its hash.     *)
UseBackups(p) ==
    /\ pc[p] = "use"
    /\ \E f \in File : /\ f \in {Manifest} \cup Bad \/ new[f] = "none"
                       /\ new' = [new EXCEPT ![f] = "own"]
    /\ UNCHANGED <<old, key, toml, local, bounds>>

EndCommand(p) ==
    /\ pc[p] \in {"use", "ask"}
    /\ Goto(p, "idle")
    /\ UNCHANGED <<old, disk, making, created, todo, at, bounds>>

(* The configuration in use names a key kept elsewhere. *)
Elsewhere == toml.data = "kept" \/ (toml.data = "old" /\ "away" \in old)

(* What setup is to make; it reads the configuration only when it begins.  *)
Wanted(p) == IF pc[p] = "ask" THEN making[p] ELSE IF Elsewhere THEN "kept" ELSE "own"

(* Mutant: ensure_key is called without the path the configuration gives. *)
EnsureKeyHere(p) ==
    /\ pc[p] \in {"use", "ask"}
    /\ making' = [making EXCEPT ![p] = Wanted(p)]
    /\ Goto(p, IF key = Nothing THEN "create"
               ELSE IF key.data = "empty" THEN "idle"
               ELSE IF pc[p] = "use" THEN "ask" ELSE "toml")
    /\ UNCHANGED <<old, disk, created, todo, at, bounds>>

(* ensure_key and public_key_line: a file that is there is taken for the   *)
(* key, and an empty one ends the command; a key kept elsewhere is there.  *)
(* setup calls them at once, and again when it installs the key after the  *)
(* password.                                                               *)
EnsureKey(p) ==
    /\ pc[p] \in {"use", "ask"}
    /\ making' = [making EXCEPT ![p] = Wanted(p)]
    /\ Goto(p, IF Wanted(p) = "own" /\ key = Nothing THEN "create"
               ELSE IF Wanted(p) = "own" /\ key.data = "empty" THEN "idle"
               ELSE IF pc[p] = "use" THEN "ask" ELSE "toml")
    /\ UNCHANGED <<old, disk, created, todo, at, bounds>>

Kill(p) ==
    /\ pc[p] # "idle" /\ kills < MaxKills
    /\ kills' = kills + 1 /\ spoilt' = (spoilt \/ pc[p] \in InConfig)
    /\ Goto(p, "idle")
    /\ UNCHANGED <<old, disk, making, created, todo, at, faults>>

Step(p) ==
    \/ Start(p) \/ CheckConfig(p) \/ CreateKey(p) \/ RestrictKey(p) \/ FillKey(p)
    \/ WritePub(p) \/ OpenToml(p) \/ SaveToml(p) \/ CleanUp(p)
    \/ LookAtBackup(p) \/ PlaceBackup(p) \/ EndMigration(p) \/ EndCommand(p)

Next == \E p \in Proc : Step(p) \/ UseBackups(p) \/ EnsureKey(p) \/ Kill(p)

Spec == Init /\ [][Next]_vars

(* Commands end, and the user goes on giving commands. *)
Fairness == \A p \in Proc : WF_vars(Step(p))
FairSpec == Spec /\ Fairness

-----------------------------------------------------------------------------
(* The variables have their types; a file that is not there has no maker,  *)
(* and no key is made for a configuration that names one kept elsewhere.   *)
TypeOK ==
    /\ old \in SUBSET {"key", "toml", "away"}
    /\ key \in [data : {"empty", "old", "own"}, by : Proc] \cup {Nothing}
    /\ toml \in [data : {"empty", "old", "own", "kept"}, by : Proc] \cup {Nothing}
    /\ new \in [File -> {"none", "old", "own"}]
    /\ pc \in [Proc -> Label] /\ making \in [Proc -> {"old", "own", "kept"}]
    /\ created \in [Proc -> SUBSET {"key", "toml"}]
    /\ todo \in [Proc -> SUBSET File] /\ at \in [Proc -> File]
    /\ faults \in 0..MaxFaults /\ kills \in 0..MaxKills /\ spoilt \in BOOLEAN

(* "A location already in use is never overwritten", and a failed copy     *)
(* removes what it made: however many commands overlap, fail and are       *)
(* killed, a key that setup generated is never touched again, and a copied *)
(* one is removed only by the cleanup of the process that copied it.       *)
KeyKept ==
    [][key.data \in {"old", "own"} /\ key' # key =>
          /\ key.data = "old" /\ key' = Nothing
          /\ pc[key.by] = "cleanup" /\ "key" \in created[key.by]]_vars

(* A new location that no migration completes any more: an empty key or    *)
(* configuration, or one of the two copied while the other is still to be. *)
HalfCopied ==
    \/ key.data = "empty" \/ toml.data = "empty"
    \/ key.data = "old" /\ "toml" \in old /\ toml = Nothing
    \/ toml.data = "old" /\ "key" \in old /\ key = Nothing

(* "Leave nothing half-copied behind, or the next run would find the new   *)
(* location in use and never finish": unless a process was killed while it *)
(* wrote, a setup failed while it saved, or a cleanup met another process's *)
(* configuration, no failure leaves a half once every command has ended.   *)
NothingHalfCopied == (\A p \in Proc : pc[p] = "idle") /\ ~spoilt => ~HalfCopied

(* So commands that go on being given bring over what there is of key and  *)
(* configuration, or the user has set up anew in the meantime; and from    *)
(* then on the configuration is empty only while a setup saves it.         *)
Arrived ==
    /\ key.data # "empty"
    /\ toml.data = "empty" => \E p \in Proc : pc[p] = "save"
    /\ \/ key.data = "own" \/ toml.data \in {"own", "kept"}
       \/ ("key" \in old => key.data = "old") /\ ("toml" \in old => toml # Nothing)
ConfigArrives == <>[](spoilt \/ old = {} \/ Arrived)

(* "A file already present in new is never replaced": a picture, once it   *)
(* is in the new location, stays as it is, unless a store has to mend it.  *)
PictureKept == [][\A f \in Picture \ Bad : new[f] # "none" => new'[f] = new[f]]_vars

(* "An orphaned backup directory is a lost stock copy": every old backup   *)
(* arrives, though commands fail or are killed at any step.                *)
BackupsArrive == \A f \in OldFile : <>[](new[f] # "none")
=============================================================================
