# rePhemeral in TLA+

rePhemeral replaces the system screens of a reMarkable tablet over SSH. These
modules model what could lose something: the root file system it makes writable
on a running tablet, the backups of the stock artwork, which exist nowhere else
once a screen is overwritten, the host key that decides where a root password
is sent, and the copy of all this from an older installation. The page that
shows it is modelled too. TLC checks the modules on small instances, TLAPS
proves the theorems of the `...Proofs` modules for every value of the constants.

Paths below are relative to `src/src/rephemeral/`; `PROJECT.json` maps every
definition to the lines it translates.

## The system

| Part | State | Operations | What makes it correct |
|---|---|---|---|
| `device.py` `Device` | the SSH link, `_rw_depth`; on the tablet: how `/` is mounted, free space, temporary files, screens | `connect`, `close`, `run`, `writable_rootfs`, `write_bytes` | screens stay whole; `/` never left writable unreported; free space stays above the floor; no temporary file left |
| `web.py` | `_device_lock`, held by one request at a time; the threads of the server's pool | one request per operation | requests do not disturb each other; each ends |
| `backup.py` `BackupStore` | a manifest in memory; manifests and pictures on the tablet (`/home`) and on the computer | load and sync, `capture`, `capture_all`, `save`, `note_applied`, `stock_bytes`, `drift` | a backup is stock art, is never overwritten, is never lost while the screen holds something else |
| `apply.py` `Applier` | none of its own | `apply`, `restore`, `restore_all` | backup before write; intent on record before write |
| `hostkey.py`, `Device.connect`, `config.install_key` | `known_hosts`; the tablet's `authorized_keys` | `setup`, `setup --trust-new-key`, `trust-key`, first contact | the password goes to the recorded host; nothing un-pins the tablet |
| `migrate.py`, `config.py` | key, configuration and backups in the old and the new location | copy on first use, private files, key generation | a location in use is never overwritten; nothing half-copied stays; what is old arrives |
| `static/index.html`, the endpoints of `web.py` | `CONNECTED`, `STATE`, `THUMBS`, `BUSY`, the watch timer, requests on their way | `watch`, `load`, thumbnails, apply, restore, backup, Refresh | shows what is on this tablet; always notices the cable |
| `cli.py` | the command in progress | the commands | composes the above |
| `images.py`, `screens.py`, `inspector.py`, `paths.py`, `winacl.py` | none that lasts | pure functions, a table, reports, calls into an API | not modelled, see the end |

They meet in four places. Commands and web requests share the **tablet**, and
nothing serialises them: `_device_lock` covers the requests of one server only.
Stores on several computers share the **manifest on the tablet**, each working
on a copy it read when it opened. Every connection shares **known_hosts**, which
paramiko reads when a connection begins and may write when it meets the host.
Every command begins with the migration, so processes of one user share the
**configuration and backup directories**. What is hard follows from that: calls
that time out after they took effect; sessions that stop between two writes; a
factory reset that erases `/home` and keeps the screens; a `finally` that runs
on a dead link; exceptions that are not `Exception`; files that are looked at
and then written; answers that arrive when the page has moved on. The list, line
by line, is `hazards` in `PROJECT.json`.

## Modules

| Module | Models | Depends on |
|---|---|---|
| `WritableRootfs` | `Device` when it writes screens, the CLI, the web server's lock and pool | `AtomicWrites` by `INSTANCE` |
| `AtomicWrites` | what `write_bytes` promises: the abstract specification of a write | |
| `WritableRootfsProofs` | its types, whole screens, the refinement of `AtomicWrites`, what the lock gives requests | `WritableRootfs` |
| `RootfsRevertProofs` | what its faults cannot leave behind | `WritableRootfsProofs` |
| `Vault` | what `apply.py` promises: the abstract specification of a stock-art backup | |
| `VaultProofs` | that keeping the promise loses nothing | `Vault` |
| `Backups` | `BackupStore` and `Applier` on a tablet and several computers | `Vault` by `INSTANCE` |
| `BackupsProofs` | its types | `Backups` |
| `BackupsSafetyProofs` | its safety properties and the refinement of `Vault` | `BackupsProofs` |
| `HostKeys`, `HostKeysProofs` | `setup`, `trust-key`, `Device.connect` and `known_hosts`; theorems | |
| `Migration`, `MigrationProofs` | `migrate.py` and the files of `config.py`; theorems | |
| `WebPage`, `WebPageProofs` | the page and the endpoints it asks; theorems | |
| `MC...` | the instances the `.cfg` files need | |

`Backups` and `WritableRootfs` are two views of one write. `WritableRootfs` opens
the write up into upload, rename, verification and the remounts around it, and
is shown to be no more than `AtomicWrites` (`WritesAreAtomic`): one step from one
complete image to another, once or not at all. `Backups` relies on that: there a
write is one step, `WriteScreen`, or, cut short before its rename, no step at all
(`Stop`). A rename left running at the tablet, which `AtomicWrites` has as
`"left"`, is the one thing `Backups` does not follow.
`WebPage` relies on `WritableRootfs` for the lock: it takes for granted that
requests are served one at a time and in the end.

### WritableRootfs

A session is one `Device`. A web session waits for `lock` in a thread of the
server's pool (`Enqueue`, `TakeLock`), gives that thread back when it has the
lock, as a dependency of FastAPI does, and needs one again for its operation
(`Begin`); it gives the lock back when it closes. A CLI session does not look at
either. `pc` names the call in progress, one step per remote command, and
`depth` is `_rw_depth`. An ordinary session writes one screen; a `Batch` session
is `restore_all`, which goes on to the next screen when one fails. Faults fall
on any step, `MaxHits` per session: a link that dies, a call that times out
(lost, executed, or `late`, executed when its caller is gone), Ctrl+C in a
command (it passes the `except Exception` handlers and not the `finally`), death
of a process, a `remount,ro` that says it worked and changed nothing (`stuck`);
a `remount,rw` may also be refused. `Handler` says where an exception raised at
each call is caught; `Raise` takes the session there. The tablet is a Linux
machine as far as `Executed` needs it: a read-only `/` takes no file, `mv` is
atomic, `remount,ro` is refused while any file is open (`Busy`), and a file that
is removed while it is open (`"unlinked"`) keeps its space until it is closed.
Sizes are in units in which the floor and an image are 1.

`file` is the tablet's handle for an upload. `putfo` opens it (`OpenTemp`) and
closes it (`Upload`). paramiko's close waits for the acknowledgements of what
was sent before it sends `CMD_CLOSE`, so when that wait times out, or Ctrl+C or a
dead link ends it, the handle stays open: the session has no other way to close
it than to end its SFTP session (`HangUp`), which `Device.close` does only after
its second `remount,ro`. An open or a close may itself be `late`; a late open
leaves an `"empty"` file. A write that does not fit is charged to the open.

Only the bytes of images and the number of preparatory reads are abstracted.
A nested `writable_rootfs` block is in the model because the code provides for
it, although no operation nests blocks today.

`AtomicWrites` forgets calls, remounts and temporary files: for each session and
screen it keeps how far the write is (`"asked"`, `"offered"`, `"left"`, `"landed"`,
`"over"`), and which sessions of one screen reported success. `WriteState` reads
that off the program counter, the screens still to do and the commands left
running; `"offered"` is the moment of the `mv`, `"landed"` what follows it.

### Backups and Vault

One firmware build, so one manifest directory. `ses[s]` is a connection with its
store: what was asked, the next step, `mem`, the manifest in memory, and
`arrived`, which is `arrived_empty`. A picture is the image it holds, `None` or
`Torn`, and a hash is the image it identifies. Every write of a manifest or a
picture is a step and a session may stop before each; the pictures on the
computer are not written through a rename, so a stop can also leave them
`Torn`. `FactoryReset` erases the tablet's backups and leaves the screens.
`Damage` spoils a copy between operations, never the last one a screen depends
on. `touched` stands for the comparison of a screen's mtime with the build's
time (`_refuse_if_written_after_firmware`), which `ReadsMtime` turns off for
builds without one and `AssumeStock` for users who say so.

`Vault` says it without manifests: a capture copies only what is known to be
stock, a write needs a copy, a copy is lost only while the art is on its
screen. `KeepsPromise` is the refinement, with `saved[p]` mapped to "some good
picture of p exists".

### HostKeys

One user command at a time, its progress in `cli`, with what was recorded when it
began in `known`. Connections are two steps, `load_host_keys` and the key
exchange, between which others come; paramiko refuses a key that differs from
the one loaded, before it authenticates, and records one when it had none.
Web connections (`visit`) come and go all the time. `Rekey` is a factory reset
or developer mode: the tablet offers another key, and `authorized_keys` may be
gone. A reset takes minutes, so it does not fall between the two steps of a
connection, nor between the moment a command decides to record a key and the
moment it does. `store` is the one entry of `known_hosts` for this tablet.

### Migration

A process is one command of one user at a time: it migrates, configuration
first (`CheckConfig` to `CleanUp`), then every old backup (`LookAtBackup`,
`PlaceBackup`), and then does its own work, which may open a store
(`UseBackups`) or be `setup`, which makes a key and, after the password, saves a
configuration (`EnsureKey` and the same write actions with `making = "own"`).
A configuration names a key beside it or one kept elsewhere (`"away"`), and the
old location may hold either, the second with or without a key beside it, or a
key alone. What is there is what has to arrive: a configuration without a key is
complete when the old one was. A `setup` that finds such a configuration makes no
key and saves the configuration anew (`making = "kept"`).
A file remembers who made it (`by`): it is what `O_EXCL` and `created`, the list
of files to remove after a failure, are about, and the program does not see it.
Each step that touches a file may fail, `MaxFaults` times in all, and
`Raise` takes it to the `except BaseException` or out of the command; a kill
reaches no handler. `Faults` names the kinds: `"restrict"`, `"key"` (the key's
bytes cannot be written), `"copy"`, `"config"`, `"backup"`. `spoilt` is history:
a kill fell while key or configuration was being written, a `setup` failed with
the configuration half saved, or a cleanup removed one that another process had
made. `Bad` are pictures whose old copy does not have
its recorded hash, which a store mends.

### WebPage

The page is one thread of callbacks: an action runs to the next `await`.
`watch[w]` is one call of `watch()`; two overlap when the tab comes back while
the timer is set. `loading` is `loadPromise`, which later calls join; `stage`
and `op` are `BUSY` and what it waits for. Answers form a queue: the server
holds the lock for one request and each opens an SSH connection before it looks
at anything, so an answer is in the page long before the next one is made. A
request that waits for the lock is answered in any order, and the ping takes no
lock. `THUMBS` belongs to a generation, so `ForgetAll` has the page ignore the
thumbnails that are on their way (`Ignored`). The history variables `unseen` and `foreign` collect the
screens that changed without the page being told, by another tab or a command,
by a swap of tablets while the page took itself for connected, or by an
operation that wrote and then failed: of those the page cannot speak the truth,
and the properties do not ask it. Which tile is selected, forms, messages and
layout are left out.

## Runs

Each run answers one question; all deadlock checks are on. Every property of a
passing run has a mutant in `PROJECT.json`, a version of one operator with a
plausible bug, which makes the run fail.

| Run | Instance | Shows |
|---|---|---|
| `rootfs_requests` | three requests (one `restore_all`) and three threads, two screens, one a symlink, one image too large, nested blocks; every fault a request can meet but late commands; fairness | types, `FloorKept`, `NeverSilentlyWritable`, `NotUnderAnothersWrite`; one fault each leaves nothing writable, unless it left an upload's file open (`CloseReverts`), and no temporary file with a name (`TempRemoved`); every request ends (`EverySessionEnds`) |
| `rootfs_cli_and_ui` | a request, a batch command and a single-screen command with no lock between them; timeouts, late commands, Ctrl+C | whoever comes last reverts: `CloseReverts`; `ScreensWhole`; each write whole, once or not at all (`WritesAreAtomic`) |
| `rootfs_lost_enter` | one command, one timeout | violation of `CloseRevertsAlways`: `remount,rw` took effect, its answer was lost, and `close()` does not revert |
| `backups_one_computer` | one computer, two screens, resets, a stop anywhere, mtime of no help | `NoLaundering`, `StockSurvives`, `IntentRecorded`, `Restorable`, `KeepsPromise` |
| `backups_two_computers` | two computers taking turns, two screens, damaged copies, no reset | stale and spoilt copies do no harm: types, `NoLaundering`, `IntentRecorded`, `Restorable`, `WriteOnce`, `BackupKept`, `KeepsPromise` |
| `backups_first_meeting` | two computers whose sessions overlap, resets, one screen, two custom images | the mtime check stops a computer that knows nothing, hashing around the read keeps another session's image out: `NoLaundering`, `StockSurvives`, `BackupKept`, `KeepsPromise` |
| `backups_overlap` | overlapping sessions, two screens | violation of `BackupKept`: a lost update of the manifest, then a custom image captured over stock |
| `backups_wiped_tablet` | two computers, a reset | violation of `Restorable`: an empty manifest hides the backup |
| `hostkeys_setup` | three keys, two web connections, two re-keys, Ctrl+C except in a re-trust | types, `PasswordToPinned`, `StaysReady`, `NeverUnpinned` |
| `hostkeys_interrupted` | the same, Ctrl+C in a re-trust | violation of `NeverUnpinned` |
| `migration` | two processes, one picture and its manifest; five kinds of older install; two failures and one kill; fairness | types, `NothingHalfCopied`, `KeyKept`, `PictureKept`; what is old arrives (`ConfigArrives`, `BackupsArrive`) |
| `web_page` | one page, one screen, two overlapping probes, two operations, two surprises; fairness | types, `ThumbsTrue`, `StateTrue`; the cable is noticed (`Noticed`) |

### Bounds

Two requests compete for the lock and a third waits behind both, so hand-over
after every kind of end happens; two screens make a batch with a failure and
something after it. `MaxHits = 1` is one fault per session, so up to three in a
run, each free to be the one that is answered by the next; `CloseReverts` and
`TempRemoved` are stated for one lost call per session because two can defeat
both the `finally` and `close()`, as best effort may. One call can do it too,
an upload that is given up on with its file open: `CloseReverts` leaves those
out by name (`NoneAbandoned`), and `CloseRevertsAlways`, which leaves out
nothing, is the property that fails. `Space` is chosen so that
the floor is reached by images and left-over temporary files. `Threads = 3` is
one for each request: with two, `EverySessionEnds` fails (see below). In
`Backups` one custom image is enough for a foreign or own image, two for two
computers that apply different ones; sessions and resets are unbounded there,
the state space is finite by itself. In `HostKeys` three keys and two re-keys
give a tablet that changes twice without returning, and returns. In `Migration`
commands are unbounded, so every failure and kill is followed by whatever number
of commands it takes; two processes give each race of a look and a write both
its sides, and the second failure can meet the cleanup of the first; files do not
interact in `migrate_backups`, so one picture shows what more would repeat, and
the manifest, which stores rewrite, stands in for a spoilt picture. In `WebPage` screens
do not interact but for `forgetAllThumbs`, which one screen shows as well; two
operations and two surprises put one of each before and after the other; the
number of probes, loads and hidden tabs is unbounded.

### Fairness

`EverySessionEnds` assumes weak fairness of each session's own steps and of late
commands: a session's thread is scheduled, each call returns or raises by its
channel timeout, and a command the tablet has started finishes. Nothing is
assumed of faults, of the user or of the order of requests. `TakeLock` and
`Begin` are enabled for a waiting request only while the lock, or a thread, is
free; weak fairness is enough since every session begins once.

`ConfigArrives` and `BackupsArrive` assume that a command that has begun goes
on, and that commands go on being given (`Start` is a step too): a migration
happens at the beginning of a command, and where no command is given nothing
arrives. Failures and kills are bounded, never fair, and what a command does
after its migration is not fair either.

`Noticed` assumes that the server answers each request (`EverySessionEnds`),
that the page handles each answer, and that a timer that is set fires. The user
and the cable owe nothing: the property speaks of a cable and a tab that have
stopped changing.

### Findings

Four runs are expected to fail; each states what a comment or docstring
promises, quoted in `PROJECT.json`.

1. `rootfs_lost_enter`: `_rw_depth` is set after the remount answered, so a lost
   answer leaves `/` writable and `close()` silent (`device.py:475`). That is
   TLC's shortest trace; `CloseReverts` without `NoneAbandoned` shows the other:
   an upload times out with its file open, the `finally` finds `/` busy
   (`device.py:485`), and so does `close()`, which retries (`device.py:231-234`)
   before it closes the SFTP session that holds the file (`device.py:235-237`).
   One lost call, the link alive, and `/` stays writable until a reboot.
2. `backups_overlap`: manifests are saved whole from memory, without a lock
   between the CLI and the server (`backup.py:248`).
3. `backups_wiped_tablet`: `capture_all` saves a manifest that captured nothing,
   which then outranks the other computer's (`backup.py:382`).
4. `hostkeys_interrupted`: Ctrl+C is not an `Exception`, so an interrupted
   re-trust leaves the tablet un-pinned (`cli.py:189`).

Seen while modelling, and not a run:

- A `remount,ro` that outlives its timeout can complete under the next
  request's write: add `"late"` to the faults of `rootfs_requests`.
- With late commands, or Ctrl+C during an upload, a temporary file can stay.
- A waiting request holds a thread of the server's pool, and the request that
  holds the lock needs one: with as many waiting as there are threads nobody
  goes on. `Threads = 2` in `rootfs_requests` shows it; the pool has forty.
- A command and a request that upload at the same time can take `/` below the
  floor, each having looked before the other wrote.
- A computer that knows one screen skips the mtime check for all, because
  `arrived_empty` is one answer for the store: with two screens, two computers
  and a reset it captures the other computer's image.
- Overlapping sessions on one screen do not keep `IntentRecorded`, `Restorable`
  and `WriteOnce`. With two of one computer, and a reset, `StockSurvives` fails
  too: one is cut off while it copies over the picture the other relied on
  (`HostOf <- OneHost` in `backups_first_meeting`).
- A damaged copy on the tablet makes `stock_bytes` refuse although the
  computer's copy is good; `Restorable` makes an exception of it.
- A web connection that loaded an empty store during a re-trust can record the
  new key after the old one was put back.
- `write_private` that fails while it writes the bytes leaves an empty key. It
  is on no list yet (`migrate.py:59`), so it stays, counts as a location in
  use, and is taken for a key: add `"key"` to the faults of `migration` and
  `NothingHalfCopied` fails. A kill between the key and the configuration
  leaves a location in use that is never completed; both properties exclude it.
- The cleanup of one process may remove the `config.toml` that another has made
  meanwhile (`spoilt` too). `KeyKept` is about the key alone: a copy that overlaps
  a `setup` may overwrite the configuration `setup` saved, and a `setup` that
  overlaps a failing copy may save one for a key that the cleanup then removes.
- `Config.save` empties the file before it writes (`config.py:51`): a `setup` that
  fails there loses the configuration it found, the migrated one included, and
  `load()` accepts the empty file. No text promises otherwise; `spoilt` excepts it,
  and without that `ConfigArrives` and `NothingHalfCopied` fail with one failure.
- `migrate_backups` looks whether a file is there and replaces it later: a
  manifest, or a picture a store has just mended, can be replaced by the old
  one in between, against "A file already present in `new` is never replaced".
  `PictureKept` holds because other pictures never differ.
- The page keeps the thumbnail and the tag of a screen whose operation wrote and
  then failed; does not notice a tablet swapped for another between two probes,
  or while the tab is hidden; and shows what another tab or a command changed
  only after Refresh. `forgetThumb` does not start a generation, so
  `ThumbsTrue` rests on the order of the answers.
- "Every check is read-only" (`inspector.py:10`): the report opens a store,
  which brings the computer's manifest and pictures in line with the tablet's.

## Proofs

Everything below is for any number of sessions, screens, keys, processes and
faults, under the named assumptions in the modules (names are distinct, sizes
are natural numbers, there is a screen and a computer).

`WritableRootfsProofs`:

- `TypeCorrect`: `Spec => []TypeOK`, one lemma per kind of step.
- `NoTornScreen`: `Spec => []ScreensWhole`. The property is not inductive: a
  rename of a cut-short file would break it. The invariant `WholeInv` adds that
  a session about to rename has a complete file or none, that the same holds of
  a rename left running, and that a session is at a screen it still has to do.
- `OneWriteEach`: `Spec => WritesAreAtomic`, the refinement of `AtomicWrites`, with
  every fault and no lock. Besides `WholeInv` it needs (`OneWrite`) that a
  rename finds its own complete file, so that it cannot miss; that an `rm`, like
  an `mv`, is left running only by a session that is through with the screen, so
  that nothing lands twice; and that a session of one screen that is about to end
  without an exception has verified it. A step then ends some writes and lands at
  most one (`StepAllowed`): an exception ends or leaves the one in progress, the
  death of the server those of all its requests.
- `RequestsKeepTheirRemount`: `Spec => []NotUnderAnothersWrite` when all sessions
  are requests and no command completes late. The invariant ties the lock to
  the one session between its first and last call.

`RootfsRevertProofs`:

- `WritableIsReported`: `Spec => []NeverSilentlyWritable`, with every fault. While
  `/` is writable some session is at work or has not reported success (`Owned`):
  a remount command counts as someone's from the step that sends it.
- `RevertedAtTheEnd`: `Spec => []CloseReverts`, with every fault and no lock.
  Whoever finds `/` busy leaves it to a session with a file open; so while `/`
  is writable there is one that is still due to revert it, or one that met more
  than the promise covers, or an upload whose session gave up on it (`Abandoned`),
  which stays such (`AbandonedKept`) because nobody comes back to a screen whose
  file was opened (`FileOver`): that is `RevertInv`.
- `FloorStands`: `Spec => []FloorKept` when all sessions are requests, whose lock
  keeps what `CheckSpace` saw true until the upload (`HasRoom`).
- `NoTempLeft`: `Spec => []TempRemoved` when all sessions are requests and no
  command completes late: a temporary file that has a name is in the hands of a
  session that will rename or remove it, or whose link or life is gone
  (`TempHeld`).

`VaultProofs`:

- `StockArtIsKept`: `Vault!Spec => []NothingLost`, the stock art of every screen is
  on it or saved.

`BackupsProofs` and `BackupsSafetyProofs`:

- `TypeCorrect`: `Spec => []TypeOK`, with overlapping sessions too; `Asked` adds
  that a session about to write has an image in hand.
- Under `Alone` (one operation at a time; and a tablet that may be reset has one
  computer and meets no damage besides), every property the passing runs of
  `Backups` check: `NothingLaundered`, `StockArtSurvives`, `IntentIsRecorded`,
  `CustomIsRestorable`, `EntriesAreFinal` (`WriteOnce`), `BackupsAreKept`
  (`BackupKept`), and `PromiseIsKept`, the refinement of `Vault`.
- `Alone` is needed for these: `backups_overlap` is what two sessions do without
  it, and `backups_wiped_tablet` what a second computer does after a reset.
- `SafeInv` says of what is stored (`Stored`) that manifests are honest, that
  each custom image on a screen is known to the manifest that will be loaded,
  that what it replaced has a copy a reset would leave, and, where there are
  resets, that nothing is recorded whose picture the computer lacks. And it says
  of the one session (`Sound`) that its copy of the manifest has all that is
  stored, and how far it is: what it has read is stock art; by the time it
  writes, the copy and the record are in place (`Progress`). `Restored` adds the
  entries and files `restore` will look for.
- In the refinement a step of a session captures, writes, loses or does nothing
  (`PicturesNext`); `LoseAllowed` covers torn pictures, damage and resets.
- Under `FirstMeeting` (one screen, mtimes readable, no `--assume-stock`), with
  any number of computers and of sessions, overlapping as they may, and with
  resets: `NothingLaunderedAtFirstMeeting` and `BackupsAreKeptAtFirstMeeting`.
  A manifest then holds the entry or nothing (`Told`); a session that holds
  nothing arrived so, which makes it look at the mtime, and a screen that was
  never written holds its stock art; so it takes stock art or is refused
  (`Newcomer`). And it saves that it knows nothing only after a refusal, which
  means the screen has been written (`SavesNext`): a store that is told nothing
  cannot mislead the next session either.
- With `Apart` added (nothing spoils copies from outside; and where there are
  resets, a computer has one session): `StockArtSurvivesFirstMeeting` and the
  refinement, `PromiseIsKeptAtFirstMeeting`. Once the screen is written or the
  entry recorded there is a copy nothing takes away (`Guarded`): the tablet's if
  it is never reset, otherwise that of a computer whose own later sessions will
  not copy over it (`Kept`), since they know the entry or find the screen
  written. The one gap is a session with the entry in memory and the picture on
  its computer, about to save the one beside the other (`Pending`).
- One screen is needed because `arrived_empty` is one answer for the store.
  `Apart` is needed too: see the behaviours above. TLC checked `MetInv` and
  `KeptInv` on the instance of `backups_first_meeting` before they were proved.

`HostKeysProofs`:

- `TypeCorrect`, and `PasswordSafe`: `Spec => []PasswordToPinned`, with no
  assumption on interrupts.
- `SetupLasts`: `Spec => []StaysReady`, and `FailurePins`: `Spec => NeverUnpinned`,
  when no re-trust is interrupted. `hostkeys_interrupted` shows that the
  assumption is needed.
- The invariant has two ideas. While a plain setup runs, the store holds what it
  held when setup began and web connections have loaded nothing else
  (`SetupPinned`): whoever meets the host with that key loaded cannot change it.
  And the store may be empty of a known key only in the `Window` from a
  re-trust's `forget` to its meeting the host or its put-back (`Pinned`,
  `GoodSetup`); `LoadedKnown` carries both over the gap between load and
  meeting.

`MigrationProofs`:

- `KeyIsKept`: `Spec => KeyKept`. Whoever is between making the key and filling
  it, or has it on its list, made the key that is there (`Claim`): `O_EXCL` lets
  one process make it, and the list is written only after the bytes.
- `PicturesAreKept`: `Spec => PictureKept`. A process about to place a picture has
  seen it missing, and whatever came since is the same picture (`Seen`).

- `TypeCorrect`: `Spec => []TypeOK`. That no key is made where one is kept
  elsewhere needs that a process at work on such a configuration goes on to save
  it and never to make a key (`Renewing`).
- `NoHalfStays`: `Spec => []NothingHalfCopied` with any number of processes, kills
  and failures of any step but the filling of the key (`KeysAreFilled`). While
  nothing is spoilt, whatever is half there is tended (`Tended`): an empty key is
  being filled (`KeyTended`); an empty configuration is being saved or about to
  be removed (`TomlTended`); a copied configuration stands beside its key, which
  no failure can remove any more (`PairTended`, `Firm`); a copied
  key without its configuration belongs to a process that is still copying or
  about to remove it (`CopyTended`). `Listed` ties the list of files to remove to
  where its process is.

`WebPageProofs`:

- `TypeCorrect`: `Spec => []TypeOK`. That a status is asked for only while somebody
  awaits it needs the order of the answers (`InOrder`): at most one answer of a
  status and one of an operation is on its way, and each is awaited.
- `ThumbsAreTrue` and `StateIsTrue`: `Spec => []ThumbsTrue`, `Spec => []StateTrue`.
  What is shown and every answer on its way is true of the tablet, unless an
  operation has made it false whose own answer is on its way behind it (`Done`)
  and makes the page forget it (`ThumbsSound`, `StateSound`); a page that is not
  connected has nothing to forget (`Blank`). The queue is why forgetting one
  thumbnail is enough: a picture taken before the operation cannot be overtaken
  by the operation's answer.

Model-checked only: liveness (`EverySessionEnds`, `ConfigArrives`,
`BackupsArrive`, `Noticed`), which is out of the prover's reach. Every other
property of a passing run has a theorem.

## Assumptions

SHA-256 does not collide and identifies the image. A manifest is replaced
atomically, by `mv` on the tablet and by a rename on the computer. The tablet
stays on one firmware build. `sync` and `mv` do what POSIX says. A backup copy
that has just been written reads back as written. Between `load_host_keys` and
the key exchange the tablet is not re-keyed. A user does not start a command in
the instant between the two steps of a web connection. `O_EXCL` works on the
user's file system. Answers reach the page in the order the server makes them.
A handle that paramiko has given up on is closed only with its connection.
`known_hosts` is rewritten in place, by `record`, by `forget` and by paramiko; each
rewrite is one step here, so no connection loads the file half written. A
configuration that names a key elsewhere names one that exists, as `setup` leaves
it.

## Not modelled

Pixels and PNG encoding (`images.py`), the screen table (`screens.py`, the
constant `Screen`), printing and argument parsing, the wording of the `doctor`
report (`inspector.py`), the choice of directories (`paths.py`), and Windows
ACLs, which are calls into the Windows security API: the properties cannot tell
their results apart. `migrate_backups` compares each copy with what it read and
gives up when they differ (`migrate.py:133`); with files that read back as
written that does not happen. `remove_key` and the checks of exposed directories
in `config.py` change nothing the modules look at. On the page, the selected
tile, forms and messages. Several firmware builds and several tablets are
independent copies of the same state, but for the page, which has them in
`Plug`.

## Plan

Done: the root file system refining `AtomicWrites` with eight theorems, the
backups refining `Vault` with twelve, host keys with four, the migration with
four, the page with three. What is left, in this order:

1. Composition of a store and the remount guard in one module, with
   `AtomicWrites` between them, for the failure of a write after its intent was
   saved and for a rename left running.
2. `WebPage`: the selected tile and its form, with two screens.
