--------------------------- MODULE WritableRootfs ---------------------------
(***************************************************************************)
(* The remount guard of device.py: what one connection to the tablet does  *)
(* between opening and closing it when it writes screens, interleaved with *)
(* the other connections of the same computer and cut short by faults.     *)
(*                                                                         *)
(* A session is one Device object: a request of the web server, which      *)
(* holds _device_lock for its whole life, or a command of the CLI, which   *)
(* holds nothing.  A request waits for the lock in a thread of the         *)
(* server's pool, and does its work in another.  A remote command is one   *)
(* step: the tablet executes it and the session sees its result.  A fault  *)
(* may fall on any step, with the command lost, executed, or left running  *)
(* at the tablet ("late").  The upload is the one call that has a resource *)
(* at the tablet, the handle of its file: a session that gives up on putfo *)
(* does not close it, only the end of its connection does.                 *)
(***************************************************************************)
EXTENDS Naturals, FiniteSets

CONSTANTS
    Session, Web,   \* connections; those opened by requests of the web server
    Batch,          \* the sessions that run restore_all; others write one screen
    Screen, Symlink,\* screen paths; those that are symlinks
    Stock, Earlier, \* the firmware's image; one applied before these sessions
    Torn,           \* what an incompletely uploaded file holds
    NoOne,          \* holder of a free lock
    Size,           \* size of each image, in units of the bounds below
    ImageCap, Floor, Space,  \* MAX_IMAGE_BYTES, MIN_FREE_BYTES, free space at first
    Fault,          \* kinds of fault that happen, of FaultKind
    Threads,        \* threads of the web server's pool
    MaxHits,        \* bound: faults that hit one session
    MaxDepth        \* bound: nesting of writable_rootfs blocks

(* link: the cable comes out; timeout: a call outlives its timeout; late: a *)
(* command goes on running after that; interrupt: Ctrl+C; kill: the process *)
(* dies; stuck: remount,ro reports success and changes nothing; refused:    *)
(* remount,rw fails, as on firmware with a verified rootfs.                 *)
FaultKind == {"link", "timeout", "late", "interrupt", "kill", "stuck", "refused"}

ASSUME SessionAssumption == Web \subseteq Session /\ Batch \subseteq Session
ASSUME ScreenAssumption == Symlink \subseteq Screen
ASSUME NamesAssumption == /\ NoOne \notin Session
                          /\ Torn \notin Session \cup {Stock, Earlier}
ASSUME SizeAssumption == /\ Size \in [Session \cup {Stock, Earlier, Torn} -> Nat]
                         /\ ImageCap \in Nat /\ Floor \in Nat /\ Space \in Nat
ASSUME BoundAssumption == /\ Fault \subseteq FaultKind
                          /\ MaxHits \in Nat /\ MaxDepth \in Nat \ {0} /\ Threads \in Nat

VARIABLES
    mount,  \* how / is mounted on the tablet
    free,   \* free space on /
    tmp,    \* state of the temporary file each session uploads for each screen
    file,   \* state of the tablet's handle for that upload
    screen, \* image each screen path holds
    late,   \* commands still running at the tablet after their caller gave up
    lock,   \* holder of the web server's _device_lock
    pc,     \* where each session is
    depth,  \* _rw_depth of each session
    todo,   \* screens the session has yet to write
    at,     \* screen the session writes now
    up,     \* whether the session's SSH link is alive
    hits,   \* faults that hit the session
    fate    \* how the session ended

tablet == <<mount, free, tmp, file, screen>>
vars == <<mount, free, tmp, file, screen, late, lock, pc, depth, todo, at, up, hits, fate>>

Image(s) == IF s \in Batch THEN Stock ELSE s    \* restore_all writes stock back

(* Inside write_bytes, by the call in progress. *)
InWrite == {"space", "open", "upload", "rename", "cleanup", "verify"}
(* Inside the writable_rootfs block. *)
InBlock == {"block"} \cup InWrite
(* At a call that needs the tablet's answer. *)
InCall == {"connect", "enter", "revert", "check", "close"} \cup InWrite
(* Not at work yet: a request may wait for the lock, or have just got it.  *)
Waiting == {"idle", "queued", "granted"}
Label == Waiting \cup {"closed"} \cup InBlock \cup InCall
AtCall(s) == pc[s] \in InCall /\ (pc[s] = "close" => depth[s] > 0)
Fate == {"running", "ok", "failed", "unentered", "killed"}

(* A temporary file is empty when only its open has been done, and unlinked *)
(* when it was removed while its handle was open, which keeps its space.    *)
TempState == {"none", "empty", "part", "whole", "unlinked"}
(* A handle is dropped when it is closed after its session gave up on it.   *)
FileState == {"shut", "open", "dropped"}
Named == {"empty", "part", "whole"}
HasName(f) == tmp[f] \in Named

(* remount,ro is refused while a file on / is open, the session's own too.  *)
Busy == \E f \in Session \X Screen : file[f] = "open"

-----------------------------------------------------------------------------
(* What the tablet does on a command of session s about screen p. *)

(* The open of putfo alone: the file is there and has a handle. *)
Created(s, p) ==
    IF mount = "rw" /\ tmp[<<s, p>>] = "none"
    THEN /\ tmp' = [tmp EXCEPT ![<<s, p>>] = "empty"]
         /\ file' = [file EXCEPT ![<<s, p>>] = "open"]
         /\ UNCHANGED <<mount, free, screen>>
    ELSE UNCHANGED tablet

(* The close of the upload while its session waits for it. *)
Filled(s, p, held) ==
    /\ tmp' = [tmp EXCEPT ![<<s, p>>] = held]
    /\ file' = [file EXCEPT ![<<s, p>>] = "shut"]
    /\ UNCHANGED <<mount, free, screen>>

(* The close of a handle its session gave up on: it frees an unlinked file. *)
Dropped(s, p) ==
    IF file[<<s, p>>] = "open"
    THEN /\ file' = [file EXCEPT ![<<s, p>>] = "dropped"]
         /\ IF tmp[<<s, p>>] = "unlinked"
            THEN free' = free + Size[Image(s)] /\ tmp' = [tmp EXCEPT ![<<s, p>>] = "none"]
            ELSE UNCHANGED <<free, tmp>>
         /\ UNCHANGED <<mount, screen>>
    ELSE UNCHANGED tablet

(* mv -f of the temporary file over the screen: atomic, and it frees the   *)
(* old image's space.                                                      *)
Moved(s, p) ==
    IF mount = "rw" /\ HasName(<<s, p>>)
    THEN /\ screen' = [screen EXCEPT ![p] = IF tmp[<<s, p>>] = "whole" THEN Image(s) ELSE Torn]
         /\ free' = free + Size[screen[p]]
         /\ tmp' = [tmp EXCEPT ![<<s, p>>] = "none"]
         /\ UNCHANGED <<mount, file>>
    ELSE UNCHANGED tablet

(* rm -f: the space comes back with the last handle. *)
Removed(s, p) ==
    LET f == <<s, p>>
        filled == tmp[f] \in {"part", "whole"} IN
    IF mount = "rw" /\ HasName(f)
    THEN /\ tmp' = [tmp EXCEPT ![f] = IF filled /\ file[f] = "open" THEN "unlinked" ELSE "none"]
         /\ free' = IF filled /\ file[f] # "open" THEN free + Size[Image(s)] ELSE free
         /\ UNCHANGED <<mount, file, screen>>
    ELSE UNCHANGED tablet

Executed(c, s, p) ==
    \/ c = "rw" /\ mount' = "rw" /\ UNCHANGED <<free, tmp, file, screen>>
    \/ c = "ro" /\ ~Busy /\ mount' = "ro" /\ UNCHANGED <<free, tmp, file, screen>>
    \/ c = "ro" /\ Busy /\ UNCHANGED tablet
    \/ c = "open" /\ Created(s, p)
    \/ c = "put" /\ pc[s] = "upload" /\ at[s] = p /\ Filled(s, p, "whole")
    \/ c = "put" /\ ~(pc[s] = "upload" /\ at[s] = p) /\ Dropped(s, p)
    \/ c = "mv" /\ Moved(s, p)
    \/ c = "rm" /\ Removed(s, p)
    \/ c = "read" /\ UNCHANGED tablet

(* Mutant: close() leaves the remount to writable_rootfs alone. *)
CommandNoRetry(s) ==
    CASE pc[s] = "enter" -> "rw"
      [] pc[s] = "open" -> "open"
      [] pc[s] = "upload" -> "put"
      [] pc[s] = "rename" -> "mv"
      [] pc[s] = "cleanup" -> "rm"
      [] pc[s] = "revert" -> "ro"
      [] OTHER -> "read"

(* The command a session waits for. *)
Command(s) ==
    CASE pc[s] = "enter" -> "rw"
      [] pc[s] = "open" -> "open"
      [] pc[s] = "upload" -> "put"
      [] pc[s] = "rename" -> "mv"
      [] pc[s] = "cleanup" -> "rm"
      [] pc[s] = "revert" \/ (pc[s] = "close" /\ depth[s] > 0) -> "ro"
      [] OTHER -> "read"

-----------------------------------------------------------------------------
(* Mutant: write_bytes lets an exception pass without removing its file. *)
HandlerNoCleanup(s, base) ==
    CASE pc[s] \in InBlock /\ s \in Batch /\ ~base -> "block"
      [] pc[s] \in InBlock /\ (s \notin Batch \/ base) -> "revert"
      [] pc[s] \in {"enter", "revert", "check"} -> "close"
      [] OTHER -> "closed"

(* Mutant: a failed putfo is followed by the rename all the same. *)
HandlerSwallows(s, base) ==
    CASE pc[s] = "upload" -> "rename"
      [] pc[s] \in InBlock \ {"upload"} -> "revert"
      [] pc[s] \in {"enter", "revert", "check"} -> "close"
      [] OTHER -> "closed"

(* Mutant: a rename that fails, or whose answer is lost, is tried again. *)
HandlerRetries(s, base) ==
    CASE pc[s] = "rename" /\ ~base -> "open"
      [] pc[s] \in InBlock -> IF s \in Batch /\ ~base THEN "block" ELSE "revert"
      [] pc[s] \in {"enter", "revert", "check"} -> "close"
      [] OTHER -> "closed"

(* Where an exception raised at the session's current call is caught.      *)
(* `except Exception` in write_bytes removes the temporary file, the one   *)
(* in restore_all goes on with the next screen; neither catches a          *)
(* KeyboardInterrupt (base).                                               *)
Handler(s, base) ==
    CASE pc[s] \in {"open", "upload", "rename"} /\ ~base -> "cleanup"
      [] pc[s] \in {"space", "cleanup", "verify"} /\ s \in Batch /\ ~base -> "block"
      [] pc[s] \in {"block", "space", "cleanup", "verify"} /\ (s \notin Batch \/ base) -> "revert"
      [] pc[s] \in {"open", "upload", "rename"} /\ base -> "revert"
      [] pc[s] \in {"enter", "revert", "check"} -> "close"
      [] OTHER -> "closed"

Released(s) == lock' = IF lock = s THEN NoOne ELSE lock

Raise(s, base) ==
    LET h == Handler(s, base) IN
    /\ pc' = [pc EXCEPT ![s] = h]
    /\ depth' = [depth EXCEPT ![s] = CASE h = "revert" -> 1    \* inner blocks only count down
                                       [] h = "closed" -> 0
                                       [] OTHER -> @]
    /\ todo' = [todo EXCEPT ![s] = IF h = "block" THEN @ \ {at[s]} ELSE @]
    /\ fate' = [fate EXCEPT ![s] = CASE pc[s] = "enter" -> "unentered"
                                     [] h \in {"cleanup", "block"} \/ pc[s] = "close" -> @
                                     [] OTHER -> IF @ = "running" THEN "failed" ELSE @]
    /\ IF h = "closed" THEN Released(s) ELSE UNCHANGED lock

-----------------------------------------------------------------------------
Init ==
    /\ mount = "ro" /\ free = Space
    /\ tmp = [f \in Session \X Screen |-> "none"]
    /\ file = [f \in Session \X Screen |-> "shut"]
    /\ screen \in [Screen -> {Stock, Earlier}]
    /\ late = {} /\ lock = NoOne
    /\ pc = [s \in Session |-> "idle"] /\ depth = [s \in Session |-> 0]
    /\ todo \in [Session -> SUBSET Screen]
    /\ \A s \in Session : IF s \in Batch THEN todo[s] = Screen
                                         ELSE \E p \in Screen : todo[s] = {p}
    /\ at \in {a \in [Session -> Screen] : \A s \in Session : a[s] \in todo[s]}
    /\ up = [s \in Session |-> TRUE] /\ hits = [s \in Session |-> 0]
    /\ fate = [s \in Session |-> "running"]

Goto(s, l) == pc' = [pc EXCEPT ![s] = l]

(* Mutant: the dependency keeps its thread while the operation waits for one. *)
InPoolHeld == {t \in Web : pc[t] \notin {"idle", "closed"}}

(* Requests in a thread of the pool: one that waits for the lock is in it. *)
InPool == {t \in Web : pc[t] \notin {"idle", "granted", "closed"}}
FreeThread == Cardinality(InPool) < Threads

(* _serial_device is entered in a thread of the pool. *)
Enqueue(s) ==
    /\ pc[s] = "idle" /\ s \in Web /\ FreeThread
    /\ Goto(s, "queued")
    /\ UNCHANGED <<tablet, late, lock, depth, todo, at, up, hits, fate>>

(* Mutant: requests do not wait for each other. *)
TakeLockAnyway(s) ==
    /\ pc[s] = "queued" /\ s \in Web
    /\ lock' = s /\ Goto(s, "granted")
    /\ UNCHANGED <<tablet, late, depth, todo, at, up, hits, fate>>

(* Once it has the lock it gives the thread back. *)
TakeLock(s) ==
    /\ pc[s] = "queued" /\ s \in Web /\ lock = NoOne
    /\ lock' = s /\ Goto(s, "granted")
    /\ UNCHANGED <<tablet, late, depth, todo, at, up, hits, fate>>

(* The operation of a request needs a thread again; a command just runs.   *)
Begin(s) ==
    /\ IF s \in Web THEN pc[s] = "granted" /\ FreeThread ELSE pc[s] = "idle"
    /\ Goto(s, "connect")
    /\ UNCHANGED <<tablet, late, lock, depth, todo, at, up, hits, fate>>

(* connect(), and the reads of the operation before its block. *)
Connect(s) ==
    /\ pc[s] = "connect" /\ up[s]
    /\ Goto(s, "enter")
    /\ UNCHANGED <<tablet, late, lock, depth, todo, at, up, hits, fate>>

(* Outermost writable_rootfs: the depth counts only once rw has succeeded. *)
Enter(s) ==
    /\ pc[s] = "enter" /\ up[s]
    /\ \/ /\ Executed("rw", s, at[s])
          /\ Goto(s, "block") /\ depth' = [depth EXCEPT ![s] = 1]
          /\ UNCHANGED <<lock, todo, fate>>
       \/ "refused" \in Fault /\ Raise(s, FALSE) /\ UNCHANGED tablet
    /\ UNCHANGED <<late, at, up, hits>>

(* A nested writable_rootfs only counts, in and out. *)
Nest(s) ==
    /\ pc[s] = "block" /\ todo[s] # {} /\ depth[s] < MaxDepth
    /\ depth' = [depth EXCEPT ![s] = @ + 1]
    /\ UNCHANGED <<tablet, late, lock, pc, todo, at, up, hits, fate>>

Unnest(s) ==
    /\ pc[s] = "block" /\ todo[s] = {} /\ depth[s] > 1
    /\ depth' = [depth EXCEPT ![s] = @ - 1]
    /\ UNCHANGED <<tablet, late, lock, pc, todo, at, up, hits, fate>>

(* The next screen; restore_all passes over those that read as stock.      *)
NextScreen(s) ==
    /\ pc[s] = "block"
    /\ \E p \in todo[s] : /\ s \in Batch => up[s] /\ screen[p] # Stock
                          /\ at' = [at EXCEPT ![s] = p]
    /\ Goto(s, "space")
    /\ UNCHANGED <<tablet, late, lock, depth, todo, up, hits, fate>>

(* restore_all: already stock, no record, no readable backup, dead link.   *)
SkipScreen(s) ==
    /\ pc[s] = "block" /\ s \in Batch
    /\ \E p \in todo[s] : todo' = [todo EXCEPT ![s] = @ \ {p}]
    /\ UNCHANGED <<tablet, late, lock, pc, depth, at, up, hits, fate>>

(* Mutant: the floor is compared with the space before the upload. *)
RefusedNow(s) ==
    \/ depth[s] <= 0
    \/ Size[Image(s)] > ImageCap
    \/ at[s] \in Symlink
    \/ free < Floor

(* write_bytes' refusals: no block, the image cap, a symlink, the floor.   *)
Refused(s) ==
    \/ depth[s] <= 0
    \/ Size[Image(s)] > ImageCap
    \/ at[s] \in Symlink
    \/ free < Size[Image(s)] + Floor

CheckSpace(s) ==
    /\ pc[s] = "space" /\ up[s]
    /\ IF Refused(s) THEN Raise(s, FALSE)
                     ELSE Goto(s, "open") /\ UNCHANGED <<lock, depth, todo, fate>>
    /\ UNCHANGED <<tablet, late, at, up, hits>>

(* putfo opens the temporary file, charged at its full size, and fills it; *)
(* one that does not fit is not opened.                                    *)
OpenTemp(s) ==
    /\ pc[s] = "open" /\ up[s]
    /\ IF mount = "rw" /\ free >= Size[Image(s)]
       THEN /\ tmp' = [tmp EXCEPT ![<<s, at[s]>>] = "part"]
            /\ file' = [file EXCEPT ![<<s, at[s]>>] = "open"]
            /\ free' = free - Size[Image(s)]
            /\ Goto(s, "upload")
            /\ UNCHANGED <<mount, screen, lock, depth, todo, fate>>
       ELSE Raise(s, FALSE) /\ UNCHANGED tablet
    /\ UNCHANGED <<late, at, up, hits>>

Upload(s) ==
    /\ pc[s] = "upload" /\ up[s]
    /\ Executed("put", s, at[s])
    /\ Goto(s, "rename")
    /\ UNCHANGED <<late, lock, depth, todo, at, up, hits, fate>>

Rename(s) ==
    /\ pc[s] = "rename" /\ up[s]
    /\ Executed("mv", s, at[s])
    /\ IF mount = "rw" THEN Goto(s, "verify") /\ UNCHANGED <<lock, depth, todo, fate>>
                       ELSE Raise(s, FALSE)
    /\ UNCHANGED <<late, at, up, hits>>

(* rm -f of the temporary file, then the exception goes on its way. *)
CleanUp(s) ==
    /\ pc[s] = "cleanup" /\ up[s]
    /\ Executed("rm", s, at[s])
    /\ Raise(s, FALSE)
    /\ UNCHANGED <<late, at, up, hits>>

(* sync, then compare the screen's hash with the data's. *)
VerifyWrite(s) ==
    /\ pc[s] = "verify" /\ up[s]
    /\ IF screen[at[s]] = Image(s)
       THEN /\ Goto(s, "block") /\ todo' = [todo EXCEPT ![s] = @ \ {at[s]}]
            /\ UNCHANGED <<lock, depth, fate>>
       ELSE Raise(s, FALSE)
    /\ UNCHANGED <<tablet, late, at, up, hits>>

LeaveBlock(s) ==
    /\ pc[s] = "block" /\ todo[s] = {} /\ depth[s] = 1
    /\ Goto(s, "revert")
    /\ UNCHANGED <<tablet, late, lock, depth, todo, at, up, hits, fate>>

(* A remount,ro that reports success and changes nothing. *)
Ineffective(s) ==
    /\ "stuck" \in Fault /\ hits[s] < MaxHits
    /\ hits' = [hits EXCEPT ![s] = @ + 1]
    /\ UNCHANGED tablet

(* The finally: sync; remount,ro fails while a file is open.               *)
Revert(s) ==
    /\ pc[s] = "revert" /\ up[s]
    /\ \/ Executed("ro", s, at[s]) /\ UNCHANGED hits
       \/ Ineffective(s)
    /\ IF Busy THEN Raise(s, FALSE)
               ELSE Goto(s, "check") /\ UNCHANGED <<lock, depth, todo, fate>>
    /\ UNCHANGED <<late, at, up>>

(* Mutant: remount's exit status is believed. *)
CheckMountTrusting(s) ==
    /\ pc[s] = "check" /\ up[s]
    /\ depth' = [depth EXCEPT ![s] = 0] /\ Goto(s, "close")
    /\ UNCHANGED <<tablet, late, lock, todo, at, up, hits, fate>>

(* /proc/mounts must say ro; only then does the depth return to 0. *)
CheckMount(s) ==
    /\ pc[s] = "check" /\ up[s]
    /\ IF mount = "ro" THEN /\ depth' = [depth EXCEPT ![s] = 0] /\ Goto(s, "close")
                            /\ UNCHANGED <<lock, todo, fate>>
                       ELSE Raise(s, FALSE)
    /\ UNCHANGED <<tablet, late, at, up, hits>>

(* Mutant: close() counts the depth down without looking at it. *)
CloseCountsDown(s) ==
    /\ pc[s] = "close" /\ (depth[s] > 0 => up[s])
    /\ \/ Executed(Command(s), s, at[s]) /\ UNCHANGED hits
       \/ depth[s] > 0 /\ Ineffective(s)
    /\ Goto(s, "closed") /\ depth' = [depth EXCEPT ![s] = @ - 1]
    /\ fate' = [fate EXCEPT ![s] = IF @ = "running" THEN "ok" ELSE @]
    /\ Released(s)
    /\ UNCHANGED <<late, todo, at, up>>

(* close(): one more attempt to revert if the depth says it is needed. *)
Close(s) ==
    /\ pc[s] = "close" /\ (depth[s] > 0 => up[s])
    /\ \/ Executed(Command(s), s, at[s]) /\ UNCHANGED hits
       \/ depth[s] > 0 /\ Ineffective(s)
    /\ Goto(s, "closed") /\ depth' = [depth EXCEPT ![s] = 0]
    /\ fate' = [fate EXCEPT ![s] = IF @ = "running" THEN "ok" ELSE @]
    /\ Released(s)
    /\ UNCHANGED <<late, todo, at, up>>

(* A call on a dead link raises at once, and nothing reaches the tablet. *)
CallOnDeadLink(s) ==
    /\ ~up[s] /\ AtCall(s)
    /\ Raise(s, FALSE)
    /\ UNCHANGED <<tablet, late, at, up, hits>>

-----------------------------------------------------------------------------
(* Faults.  The command in progress is lost, is executed with its answer   *)
(* lost, or keeps running and takes effect later.  A lost upload leaves its *)
(* handle open, unless its file was closed, as far as it was filled, and   *)
(* what was lost is a later call of putfo or the chmod.                    *)
Struck(s) ==
    \/ UNCHANGED <<tablet, late>>
    \/ Executed(Command(s), s, at[s]) /\ UNCHANGED late
    \/ Command(s) = "put" /\ Filled(s, at[s], "part") /\ UNCHANGED late
    \/ /\ "late" \in Fault /\ Command(s) # "read"
       /\ late' = late \cup {<<Command(s), s, at[s]>>}
       /\ UNCHANGED tablet

(* The cable comes out, or a channel times out: run raises DeviceError. *)
LoseCall(s) ==
    /\ up[s] /\ AtCall(s) /\ hits[s] < MaxHits
    /\ \/ "link" \in Fault /\ up' = [up EXCEPT ![s] = FALSE]
       \/ "timeout" \in Fault /\ UNCHANGED up
    /\ hits' = [hits EXCEPT ![s] = @ + 1]
    /\ Struck(s) /\ Raise(s, FALSE)
    /\ UNCHANGED at

(* Ctrl+C in a CLI command; a web request runs in a worker thread. *)
Interrupt(s) ==
    /\ "interrupt" \in Fault /\ s \notin Web /\ hits[s] < MaxHits
    /\ AtCall(s) \/ pc[s] = "block"
    /\ hits' = [hits EXCEPT ![s] = @ + 1]
    /\ IF up[s] THEN Struck(s) ELSE UNCHANGED <<tablet, late>>
    /\ Raise(s, TRUE)
    /\ UNCHANGED <<at, up>>

(* The process dies, the web server with all its requests: no finally runs. *)
Kill(s) ==
    LET dead == {t \in IF s \in Web THEN Web ELSE {s} : pc[t] \notin {"idle", "closed"}} IN
    /\ "kill" \in Fault /\ s \in dead /\ hits[s] < MaxHits
    /\ hits' = [hits EXCEPT ![s] = @ + 1]
    /\ IF up[s] THEN Struck(s) ELSE UNCHANGED <<tablet, late>>
    /\ pc' = [t \in Session |-> IF t \in dead THEN "closed" ELSE pc[t]]
    /\ depth' = [t \in Session |-> IF t \in dead THEN 0 ELSE depth[t]]
    /\ fate' = [t \in Session |-> IF t \in dead THEN "killed" ELSE fate[t]]
    /\ lock' = IF lock \in dead THEN NoOne ELSE lock
    /\ UNCHANGED <<todo, at, up>>

(* A command left running takes effect. *)
FinishLate ==
    \E c \in late : /\ Executed(c[1], c[2], c[3])
                    /\ late' = late \ {c}
                    /\ UNCHANGED <<lock, pc, depth, todo, at, up, hits, fate>>

(* The end of the connection, by the _sftp.close() of close(), the death of *)
(* the process or of the link: the tablet closes what it had open.         *)
HangUp(s) ==
    /\ pc[s] = "closed" \/ ~up[s]
    /\ \E p \in Screen : file[<<s, p>>] = "open" /\ Dropped(s, p)
    /\ UNCHANGED <<late, lock, pc, depth, todo, at, up, hits, fate>>

Step(s) ==
    \/ Enqueue(s) \/ TakeLock(s) \/ Begin(s) \/ Connect(s) \/ Enter(s) \/ Nest(s) \/ Unnest(s)
    \/ NextScreen(s) \/ SkipScreen(s) \/ CheckSpace(s) \/ OpenTemp(s) \/ Upload(s)
    \/ Rename(s) \/ CleanUp(s) \/ VerifyWrite(s) \/ LeaveBlock(s)
    \/ Revert(s) \/ CheckMount(s) \/ Close(s) \/ CallOnDeadLink(s)

Done == /\ \A s \in Session : pc[s] = "closed"
        /\ late = {} /\ ~Busy
        /\ UNCHANGED vars

Next == \/ \E s \in Session : Step(s) \/ LoseCall(s) \/ Interrupt(s) \/ Kill(s) \/ HangUp(s)
        \/ FinishLate
        \/ Done

Spec == Init /\ [][Next]_vars

(* Every thread runs, every call returns or times out, and the tablet      *)
(* finishes the commands it started.                                       *)
Fairness == (\A s \in Session : WF_vars(Step(s))) /\ WF_vars(FinishLate)
FairSpec == Spec /\ Fairness

-----------------------------------------------------------------------------
(* The variables have their types, and only requests hold the lock. *)
TypeOK ==
    /\ mount \in {"ro", "rw"} /\ free \in Nat
    /\ tmp \in [Session \X Screen -> TempState] /\ file \in [Session \X Screen -> FileState]
    /\ screen \in [Screen -> Session \cup {Stock, Earlier, Torn}]
    /\ late \subseteq {"rw", "ro", "open", "put", "mv", "rm"} \X Session \X Screen
    /\ lock \in Web \cup {NoOne}
    /\ pc \in [Session -> Label] /\ depth \in [Session -> 0..MaxDepth]
    /\ todo \in [Session -> SUBSET Screen] /\ at \in [Session -> Screen]
    /\ up \in [Session -> BOOLEAN] /\ hits \in [Session -> 0..MaxHits]
    /\ fate \in [Session -> Fate]

(* write_bytes, "an interrupted transfer cannot leave a half-written       *)
(* screen in place": whatever is cut short, no screen path ever holds an   *)
(* incomplete file.                                                        *)
ScreensWhole == \A p \in Screen : screen[p] # Torn

(* MIN_FREE_BYTES: uploads, temporary files that were left behind and old  *)
(* images together never take / below the floor.                           *)
FloorKept == free >= Floor

(* writable_rootfs raises when the revert fails: / is writable only while  *)
(* some session is at work or after one that did not report success.       *)
NeverSilentlyWritable ==
    mount = "rw" => \E s \in Session : /\ pc[s] \notin Waiting
                                       /\ ~(pc[s] = "closed" /\ fate[s] = "ok")

(* web.py: a request must not remount read-only during another's write.    *)
NotUnderAnothersWrite == \A s \in Web : pc[s] \in InBlock => mount = "rw"

(* Every session has ended, with its link up all along and at most one     *)
(* call lost, and nothing is left running.                                 *)
EndedWell == /\ late = {}
             /\ \A s \in Session : /\ pc[s] \in {"idle", "closed"}
                                   /\ up[s] /\ hits[s] <= 1 /\ fate[s] # "killed"

(* No session gave up on an upload while the tablet had its file open. *)
NoneAbandoned == \A f \in Session \X Screen : file[f] = "shut"

(* The finally and close() between them: no single lost call or Ctrl+C     *)
(* after the block was entered leaves / writable, whatever the sessions'   *)
(* interleaving, unless it left an upload's file open: that makes both     *)
(* attempts fail, since close() hangs up only after the second.            *)
CloseReverts ==
    EndedWell /\ NoneAbandoned /\ (\A s \in Session : fate[s] # "unentered") => mount = "ro"

(* The same of every session, those that abandoned an upload and those     *)
(* whose remount raised included: what close() says it is for.             *)
CloseRevertsAlways == EndedWell => mount = "ro"

(* The except in write_bytes: one failing call leaves no temporary file on *)
(* the partition the tablet boots from, but for one without a name, which  *)
(* goes with the connection.                                               *)
TempRemoved == EndedWell => \A f \in Session \X Screen : ~HasName(f)

(* How far session s is with screen p. *)
WriteState(s, p) ==
    IF <<"mv", s, p>> \in late THEN "left"
    ELSE IF at[s] = p /\ pc[s] = "rename" THEN "offered"
    ELSE IF at[s] = p /\ (pc[s] = "verify" \/ (s \notin Batch /\ p \notin todo[s])) THEN "landed"
    ELSE IF /\ p \in todo[s] /\ pc[s] \notin {"revert", "check", "close", "closed"}
            /\ ~(at[s] = p /\ pc[s] = "cleanup") THEN "asked"
    ELSE "over"

(* write_bytes uploads beside the screen, renames over it and verifies: to *)
(* the tablet that is one write, done once or not at all, and what reports *)
(* success has been done (AtomicWrites).                                   *)
Promise == INSTANCE AtomicWrites
           WITH Writer <- Session, Found <- {Stock, Earlier},
                Content <- [s \in Session |-> Image(s)],
                write <- [f \in Session \X Screen |-> WriteState(f[1], f[2])],
                told <- {s \in Session \ Batch : fate[s] = "ok"}
WritesAreAtomic == Promise!Spec

(* Requests queue on the lock in threads of the pool, the one that holds it *)
(* finds a thread to work in, and calls have timeouts: each request ends,   *)
(* whatever faults hit it and those before it.                             *)
EverySessionEnds == \A s \in Session : <>(pc[s] = "closed")
=============================================================================
