------------------------------ MODULE HostKeys ------------------------------
(***************************************************************************)
(* The tablet's SSH host key: known_hosts as `rephemeral setup`,           *)
(* `trust-key` and every ordinary connection use it (hostkey.py, cli.py,   *)
(* Device.connect), while a factory reset or developer mode may give the   *)
(* tablet another key.                                                     *)
(*                                                                         *)
(* One user command runs at a time, cli; Visitor are the connections of    *)
(* the web server, which come whenever they like.  A connection is two     *)
(* steps: load_host_keys reads the file, then paramiko meets the host,     *)
(* refusing a key that differs and recording one for a host it has none    *)
(* for.                                                                    *)
(***************************************************************************)
EXTENDS Naturals

CONSTANTS
    Key,        \* host keys the tablet may offer
    NoKey,      \* nothing recorded
    Visitor,    \* connections of the web server
    Interrupts, \* commands that Ctrl+C, or a crash, may end anywhere
    MaxRekeys   \* bound: how often the tablet's key is regenerated

ASSUME KeyAssumption == NoKey \notin Key /\ Key # {}
ASSUME BoundAssumption == MaxRekeys \in Nat

VARIABLES
    answering,  \* host key offered at the tablet's address
    authorized, \* whether the tablet's authorized_keys holds the tool's key
    store,      \* key recorded for the tablet in known_hosts
    cli,        \* the command in progress
    visit,      \* web connections: "idle", or the key each has loaded
    ready,      \* a setup has succeeded with the tablet as it is now
    rekeys

vars == <<answering, authorized, store, cli, visit, ready, rekeys>>

Recorded == Key \cup {NoKey}
Command == {"setup", "retrust", "trustkey"}    \* retrust is setup --trust-new-key
Label == {"idle", "offer", "prompt", "record", "forget", "install", "meet", "append",
          "putback", "connect", "check"}

(* known: what was recorded when the command began; key: the key offered   *)
(* to trust-key, or loaded by a connection; met: the host met by install.  *)
NoCommand == [cmd |-> "setup", pc |-> "idle", known |-> NoKey, key |-> NoKey, met |-> NoKey]

Init == /\ answering \in Key /\ authorized = FALSE /\ store = NoKey
        /\ cli = NoCommand /\ visit = [v \in Visitor |-> "idle"]
        /\ ready = FALSE /\ rekeys = 0

Goto(l) == cli' = [cli EXCEPT !.pc = l]
End == cli' = NoCommand

(* The store is read before anything is asked or compared.  Nobody types a *)
(* command within the moment a web connection takes from load to meeting.  *)
Begin(c) ==
    /\ cli.pc = "idle" /\ \A v \in Visitor : visit[v] = "idle"
    /\ cli' = [NoCommand EXCEPT !.cmd = c, !.known = store,
                  !.pc = IF c = "trustkey" \/ (c = "setup" /\ store # NoKey)
                         THEN "offer" ELSE "prompt"]
    /\ UNCHANGED <<answering, authorized, store, visit, ready, rekeys>>

(* setup compares the offered key before the prompt; unreachable is not a  *)
(* refusal.                                                                *)
CompareOffer ==
    /\ cli.cmd = "setup" /\ cli.pc = "offer"
    /\ \/ answering = cli.known /\ Goto("prompt")
       \/ answering # cli.known /\ End
       \/ Goto("prompt")    \* nobody answered
    /\ UNCHANGED <<answering, authorized, store, visit, ready, rekeys>>

(* trust-key reads the offered key; nothing changes when there is none, or *)
(* when it is the one recorded.                                            *)
ReadOffer ==
    /\ cli.cmd = "trustkey" /\ cli.pc = "offer"
    /\ \/ answering # cli.known /\ cli' = [cli EXCEPT !.key = answering, !.pc = "record"]
       \/ End
    /\ UNCHANGED <<answering, authorized, store, visit, ready, rekeys>>

RecordOffer ==
    /\ cli.pc = "record"
    /\ store' = cli.key
    /\ End
    /\ UNCHANGED <<answering, authorized, visit, ready, rekeys>>

(* Only with a password in hand does setup forget the key, or connect. *)
Prompt ==
    /\ cli.pc = "prompt"
    /\ \/ End
       \/ Goto(IF cli.cmd = "retrust" /\ cli.known # NoKey THEN "forget" ELSE "install")
    /\ UNCHANGED <<answering, authorized, store, visit, ready, rekeys>>

Forget ==
    /\ cli.pc = "forget"
    /\ store' = NoKey
    /\ Goto("install")
    /\ UNCHANGED <<answering, authorized, visit, ready, rekeys>>

(* Mutant: a failed re-trust ends like any other setup. *)
FailedForgotten == "idle"

(* Mutant: a failed re-trust puts back what was known, known or not. *)
FailedUnchecked == IF cli.cmd = "retrust" THEN "putback" ELSE "idle"

(* What follows a failure of install_key: a re-trust puts the key back. *)
Failed == IF cli.cmd = "retrust" /\ cli.known # NoKey THEN "putback" ELSE "idle"

Fail == IF Failed = "idle" THEN End ELSE Goto(Failed)

-----------------------------------------------------------------------------
(* Mutant: no known-hosts file is loaded. *)
LoadedNothing == NoKey

(* What load_host_keys finds. *)
Loaded == store

(* Meeting the host with key k loaded: paramiko refuses a key that differs *)
(* before authenticating, and records one when it had none.  known_hosts   *)
(* is rewritten in place, there and by record and forget; here each is one *)
(* step, so nobody loads a file that is half written.                      *)
Refuses(k) == k \notin {NoKey, answering}
Pin(k) == store' = IF k = NoKey THEN answering ELSE store

(* install_key's connection, with the password; "check" is the connection  *)
(* with which a successful setup ends.                                     *)
Load ==
    /\ cli.pc \in {"install", "connect"}
    /\ cli' = [cli EXCEPT !.key = Loaded, !.pc = IF @ = "install" THEN "meet" ELSE "check"]
    /\ UNCHANGED <<answering, authorized, store, visit, ready, rekeys>>

Meet ==
    /\ cli.pc = "meet"
    /\ IF Refuses(cli.key)
       THEN Fail /\ UNCHANGED store
       ELSE Pin(cli.key) /\ cli' = [cli EXCEPT !.met = answering, !.pc = "append"]
    /\ UNCHANGED <<answering, authorized, visit, ready, rekeys>>

(* The key is appended to authorized_keys on the host just met. *)
Append ==
    /\ cli.pc = "append" /\ cli.met = answering
    /\ authorized' = TRUE
    /\ Goto("connect")
    /\ UNCHANGED <<answering, store, visit, ready, rekeys>>

(* install_key raises: unreachable, a wrong password, a lost answer. *)
InstallFails ==
    /\ cli.pc \in {"install", "meet", "append"}
    /\ Fail
    /\ authorized' \in {authorized, authorized \/ (cli.pc = "append" /\ cli.met = answering)}
    /\ UNCHANGED <<answering, store, visit, ready, rekeys>>

PutBack ==
    /\ cli.pc = "putback"
    /\ store' = cli.known
    /\ End
    /\ UNCHANGED <<answering, authorized, visit, ready, rekeys>>

(* setup reports success only after connecting with the key it installed. *)
Check ==
    /\ cli.pc = "check"
    /\ IF Refuses(cli.key) THEN UNCHANGED <<store, ready>>
                           ELSE Pin(cli.key) /\ ready' = (authorized \/ ready)
    /\ End
    /\ UNCHANGED <<answering, authorized, visit, rekeys>>

(* The last connection, or the command itself, does not get through. *)
GiveUp ==
    /\ \/ cli.pc \in {"connect", "check"}
       \/ cli.cmd \in Interrupts /\ cli.pc # "idle"
    /\ End
    /\ UNCHANGED <<answering, authorized, store, visit, ready, rekeys>>

-----------------------------------------------------------------------------
VisitLoad(v) ==
    /\ visit[v] = "idle"
    /\ visit' = [visit EXCEPT ![v] = Loaded]
    /\ UNCHANGED <<answering, authorized, store, cli, ready, rekeys>>

VisitMeet(v) ==
    /\ visit[v] # "idle"
    /\ IF Refuses(visit[v]) THEN UNCHANGED store ELSE Pin(visit[v])
    /\ visit' = [visit EXCEPT ![v] = "idle"]
    /\ UNCHANGED <<answering, authorized, cli, ready, rekeys>>

(* Developer mode or a factory reset: another key, and /home with          *)
(* authorized_keys may be gone.  It takes longer than a connection waits,  *)
(* or than a command takes to record what it has in hand.                  *)
Rekey ==
    /\ rekeys < MaxRekeys /\ rekeys' = rekeys + 1
    /\ cli.pc \notin {"meet", "check", "record", "putback"} /\ \A v \in Visitor : visit[v] = "idle"
    /\ \E k \in Key \ {answering} : answering' = k
    /\ authorized' \in {authorized, FALSE} /\ ready' = FALSE
    /\ UNCHANGED <<store, cli, visit>>

Next == \/ \E c \in Command : Begin(c)
        \/ CompareOffer \/ ReadOffer \/ RecordOffer \/ Prompt \/ Forget
        \/ Load \/ Meet \/ Append \/ InstallFails \/ PutBack \/ Check \/ GiveUp
        \/ \E v \in Visitor : VisitLoad(v) \/ VisitMeet(v)
        \/ Rekey

Spec == Init /\ [][Next]_vars

-----------------------------------------------------------------------------
(* The variables have their types; only a key is ever given to record().   *)
TypeOK ==
    /\ answering \in Key /\ authorized \in BOOLEAN /\ store \in Recorded
    /\ cli \in [cmd : Command, pc : Label, known : Recorded, key : Recorded, met : Recorded]
    /\ (cli.pc = "record" => cli.key \in Key) /\ (cli.pc = "putback" => cli.known \in Key)
    /\ visit \in [Visitor -> Recorded \cup {"idle"}]
    /\ ready \in BOOLEAN /\ rekeys \in 0..MaxRekeys

(* hostkey.record: a re-trust that fails leaves the tablet pinned, rather  *)
(* than un-pinned because setup stopped somewhere in the middle.           *)
NeverUnpinned ==
    [][cli.pc # "idle" /\ cli'.pc = "idle" /\ cli.known # NoKey => store' # NoKey]_vars

(* A plain setup authenticates with the password only to the host whose    *)
(* key was recorded when it began, if one was, though the prompt may wait  *)
(* through resets and other connections.                                   *)
PasswordToPinned ==
    cli.cmd = "setup" /\ cli.pc = "append" /\ cli.known # NoKey => cli.met = cli.known

(* A setup that succeeded stays good: until the tablet changes, later      *)
(* commands, failed ones included, leave it pinned to the tablet's key.    *)
StaysReady == ready /\ cli.pc = "idle" => authorized /\ store = answering
=============================================================================
