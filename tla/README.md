# winpodx: specifications and proofs

winpodx runs Windows applications in a container (dockur/windows under Podman or Docker) and shows them as Linux
windows over FreeRDP RemoteApp. This directory holds TLA+ models of the parts of it that keep state which more than
one process, or a process and its successor after a crash, work on: modules, TLC configurations, and TLAPS proofs.

Contents: [1 The system](#1-the-system) ·
[2 What is modelled](#2-what-is-modelled) ·
[3 The modules](#3-the-modules) ·
[4 The runs](#4-the-runs) ·
[5 The proofs](#5-the-proofs) ·
[6 What the models found](#6-what-the-models-found) ·
[7 Limits](#7-limits) ·
[8 What is left](#8-what-is-left)

Paths below are relative to `src/src/winpodx/` unless they begin with `src/`.


## 1 The system

There is no server. Every `winpodx` command, the GUI and the tray are host processes of their own, and they meet only
in files, in the container runtime and in the Windows guest. Apart from `flock` on a `.cproc` file nothing orders
them. The only long-lived host processes are the tray (with its monitor threads) and the reverse-open listener.

### Components

| component | state it keeps | operations | what makes it correct |
|---|---|---|---|
| **password rotation** `core/rotation` | the Windows account's password; `winpodx.toml`; `compose.yaml`; the marker `.rotation_pending` | `_auto_rotate_password` in every launch, `rotate_password`, its rollback, `_recover_pending_rotation`; `guest sync-password` | the three copies agree when nothing is pending; an interrupted rotation can always be resolved and is |
| **reverse-open listener** `reverse_open/listener.py`, `seen_uuids.py`, guest shim | request files in `incoming/`; the ring of seen UUIDs in memory and on disk | shim write, poll pass, handling of a request, janitor, stop, crash | a click opens one app once; no request is lost, none blocks the others |
| **listener lifecycle** `reverse_open/lifecycle.py`, `cli/host_open.py` | the pid file; the daemon's signals; the manifest it has loaded | `start_listener`, `stop_listener`, `reload_apps_db`, `_daemon_main` | one daemon, which can be found, stopped and told of new apps |
| **app sessions** `core/rdp.py`, `core/process.py`, `core/daemon.py` | `<app>.cproc` and its lock; FreeRDP clients; the tray's `seen` and `gone_since` | `launch_app`, `list_active_sessions`, `kill_session`, the window reaper | a running client is in its file; a session without windows ends, one with windows does not |
| **pod lifecycle and recovery** `core/pod`, idle monitor in `core/daemon.py` | the container: absent, stopped, paused, running; RDP reachable or not | start, stop, pause, unpause, recreate, two-stage RDP recovery, idle pause | no pause or recreation under a session or a launch; a launch gets a running pod or an error |
| **app discovery** `core/discovery`, `core/app.py`, `desktop/entry.py` | `discovered/<slug>`, `apps/<slug>`, `discovered_suppressed.txt`, the launchers | a sweep: scan, persist, prune, register; hide, delete, restore, edit, reset | profiles and menu come to agree with the guest; what the user decided on an app outlives the sweeps |
| **provisioner** `core/provisioner.py` | none of its own | `ensure_ready`, `finish_provisioning`, runtime fixes | each step runs at least once; a failed one runs again |
| **pending steps** `utils/pending.py` | `.pending_setup` | add, remove, clear, resume | a step that is owed is not forgotten |
| **guest agent channel** `core/agent.py`, `core/transport`, `core/agent_resync.py` | the bearer token on both sides; the heal generation and cool-down | dispatch, `/exec`, `heal_token_once` | a rejected token is healed once, for all who wait |
| **guest sync** `core/guest_sync.py` | the version stamp in the guest | read, write, `sync_guest` | a guest that carries the host's version has the host's files |
| **storage migration** `core/storage_migration.py` | two directories; the path in `winpodx.toml` | plan, copy, verify, switch, remove | at every moment one complete disk is configured |
| **disk growth** `core/disk.py` | disk size in the configuration and in the guest | grow, auto-grow | never shrinks; saves no stale configuration |
| **configuration** `core/config.py` | `winpodx.toml` | load, atomic save | a reader sees the old or the new file |

The remaining components (container back ends, reverse-open data, desktop files, display arithmetic, CLI, GUI, checks,
wizard, guest scripts) keep no shared state of their own, or only read; `PROJECT.json` lists each with the reason.

### How they meet

* An app launch is `ensure_ready` followed by `launch_app`. `ensure_ready` loads the configuration, resolves or starts
  a rotation, wakes or starts the pod, and starts the listener if there is none; `launch_app` writes the `.cproc` file.
* The tray runs the idle monitor, which reads the `.cproc` files and pauses the pod, and the window reaper, which reads
  the same files and ends clients. It also starts the listener.
* The GUI runs launches on threads; a lock inside the GUI orders its own, and no one else's.
* The tray's sweep, the window's refresh and `app refresh` rewrite the same profiles and launchers, which the user's
  commands change too.
* Every command first resumes what `.pending_setup` lists; `setup`, `migrate`, `install.sh` and the window write it.
* `winpodx.toml` and `compose.yaml` both name the place of the Windows disk, and every command that regenerates the one
  from the other starts from the `Config` it loaded when it began.
* Everything that changes the guest goes over the agent's HTTP channel or a FreeRDP command. A reply can be lost, and
  the sender then does not know whether the command ran.
* The guest's shim reaches the host only through files it renames into the shared `incoming/` directory.

### What is hard

Overlap of processes that nobody ordered; files read, decided on, and then removed by name; a crash between two of
several writes; a reply that is lost; a daemon that forks and is signalled while it sets itself up; a ring and a cap at
their limits; state remembered under a name after its bearer has changed. `PROJECT.json` lists every such place with its
line under "hazards", and the properties that are aimed at it.


## 2 What is modelled

| module | of | status |
|---|---|---|
| `Rotation`, refining `Credential` | password rotation | every step of the rotation, its rollback and its recovery |
| `Listener`, refining `Inbox` | reverse-open listener, its ring, the shim's writes | every step; request validation is one Boolean of the file |
| `Lifecycle`, refining `Slot` | the listener's daemon and the commands around it | every step |
| `Sessions` | one app's `.cproc` file, its clients, the tray's reaper | launch, list, kill, reap; not the launching process's own reaper |
| `Pod` | the container under launches, the idle monitor, the tray's recovery and the user | every step of `ensure_ready` that reads or changes the pod |
| `Storage`, refining `Vault` | where the Windows disk is: configuration, compose file, container, data | migration, setup, recreate, wipe, disk growth |
| `Upgrade` | the list of pending steps and the version stamp in the guest | every command that writes either |
| `Channel` | the agent's token, its heal, the FreeRDP call it goes by | threads of several processes |
| `Catalog` | discovered apps, the user's decisions on them, the launchers | sweeps, and every command of the user on an app |

Each has a module `MC…` with configurations and a module `…Proofs`. `TrayProofs` serves `Pod` and `Catalog`, the two the
tray works on beside everybody else; it extends both, which is why names of `Catalog` that `Pod` has too begin with
`Catalog` (`CatalogSpec`, `CatalogTypeOK`) or are spelt differently (`quiet`, `InstallApp`).


## 3 The modules

The convention of all: a process has a program counter (`pc`, or `job[a].at`) whose labels are the points where
another process, a signal or a crash can come in between; one action is what the code does from one such point to the
next: one file operation, one command sent to the guest, one system call. A failure is an extra disjunct of the action
it hits and costs one of `MaxFaults`. A definition headed "Mutant" is a plausible error in the action below it and is
not part of the specification; it shows that a property notices the error.

### Rotation

State: `guest` is the password Windows accepts; `conf` and `comp` are what winpodx.toml and compose.yaml hold; `marker`
is the pending file; `mem[p]` is the `Config` object of process `p`; `old[p]` and `new[p]` are local variables of
`rotate_password` or `_recover_pending_rotation`. Passwords are numbers, in the order `generate_password` returns them.

| action | code |
|---|---|
| `Begin`, `CheckMarker`, `Gate`, `Launch` | `ensure_ready` and `_auto_rotate_password`; `handle_rotate_password`; `_sync_password` |
| `BeginRotation`, `MarkPending`, `ChangeGuest`, `Unmark`, `VerifyCandidate`, `SaveConfig`, `ReplaceCompose`, `ClearMarker` | `rotate_password` in order, with every early return |
| `UndoGuest` … `UndoClear` | `_restore_password_rotation` |
| `VerifyNew` … `RecoverClear` | `_recover_pending_rotation` |
| `SyncPassword` | `guest sync-password`, which sets the account from winpodx.toml |
| `Crash`, `PasswordAges` | a process that dies; `password_max_age` passing |

A command sent to the guest is `Applied`, `Refused`, or `Unknown` (reply lost). A logon check succeeds only with the
account's password, and may fail with it.

`Credential` is the abstract specification: the host has a *window* of candidate passwords that always contains the one
in force, opens on one new password at a time and closes only on the one in force. `Rotation` implements it with
`window <- IF Pending THEN {marker.old, marker.new} ELSE {conf.pw}`.

### Listener

State: `incoming` maps each file name to nothing or a file (`tmp`, `good`, `refused`, and an age in janitor periods that
saturates at stale); `disk` and `seen` are the ring in the file and in memory; `todo` the files of the current pass;
`swept` says that a janitor sweep ran within the period; `opened` counts spawns. `OddNames` are names that the file
pattern admits and `uuid.UUID` refuses.

`WriteTmp` and `Publish` are the shim. `Start` is `SeenUUIDs._load`, which begins with an empty memory when the ring
cannot be read or parsed, while the disk keeps it. `Scan`, `Handle`, `Record`, `Remove`, `EndPass`, `Janitor` are
`process_pending`, `_handle_request` up to the spawn, `SeenUUIDs.add`, `_safe_unlink`, the end of the loop and
`_maybe_run_janitor`. `Record` has the two ways the code leaves the pass there: a name that is no UUID, and a ring that
cannot be written after memory has changed.

`Inbox` is the abstract specification: requests wait, grow late, are served and put on record. One on record is not
served, one is served again only at the expense of a failure, and one leaves because it was served, is late, or with a
failure. A failure may also cost a part of the record, or bring back what an earlier one has cost. `Listener` implements
it for the requests with a UUID, with `waiting <- {n : Good(n)}`, `late` those of them that are stale, `served <- opened`
and `failures <- faults`. On `record` is what the ring on disk has and, while the daemon runs, memory has too. Passes, the
cap, `.tmp` files and restarts are stutters.

### Lifecycle

State: `pidFile`; `state[d]` says how far daemon `d` has come (born, loaded, filed, wired, running, dead, or *clone*: an
exception before it was a daemon made it return into the command's own code); `term` and `hup` are pending signals;
`ready` is the pipe to the parent; `apps[d]` and `manifest` are version numbers of apps.json, and `apps[d] = 0` is the
empty database that `AppsDatabase.load` gives when it cannot read one.

`Check`, `Unstale`, `Fork`, `Wait`, `Confirm` are `start_listener`; `Check`, `Terminate`, `Grace`, `Kill`, `Clean`
`stop_listener`; `Check`, `HangUp` `reload_apps_db`. `Load` to `SendReady` is `_daemon_main` up to its loop, `Reload`
and `Exit` its signal handlers. A signal to a daemon whose handlers are not set ends it.

`Slot` is the abstract specification: a daemon is forked only when none is left, serves only with its PID filed, and the
PID is taken out only when nobody serves. `Lifecycle` implements it with `alive`, `serving` and `ended` read off `state`
(a clone lives and does not serve) and `filed <- pidFile`, as long as commands do not overlap. `Listener` rests on it: it
has one daemon after the other.

### Sessions

State: `marker` is the pid in the app's `.cproc` file (or `Empty`, or `None`); `holder` has the `flock` of the file that
bears the name; `client` and `window` are FreeRDP processes and their windows; `seen`, `armed`, `due` are the tray's
`seen`, `gone_since` and the passing of its debounce. The others are history: `returned` has the live sessions that
`launch_app` has returned; `disturbed` says whether two processes have worked on the file at a time or a file was opened
beside a live session; `missed` is the client that the tray's last scan has found without a window, and `overdue` says
that every scan for a whole debounce has found this very one so.

`Start`, `Look`, `Open`, `Popen`, `Write`, `Settle` are `launch_app` with `_find_existing_session` and
`_spawn_detached`; `Waited` and `Leave` its `_reaper_thread`. `AskKill`, `Kill`, `Grace` are `kill_session` as the user
and as the tray calls it; `List`, `Scan`, `Forget` are a pass of `run_session_window_reaper` with
`list_active_sessions`; `Drop` is the removal of the file that any of these reads can lead to.
`Open` merges `open` and `flock`, `AskKill` the read and the first test of the process; nothing a property speaks of
lies between them.

### Pod

State: `ctr` and `win` are the container (stopped, running, paused) and Windows in it (off, booting, up, stuck);
`installing` is the marker of a running installation; `sess` the clients with a listed session; `pc` where a client is
in `ensure_ready`; `mon` and `timer` are `run_idle_monitor`; `known` and `recovering` the tray's `state_cache` and
`recovery_inflight`. `young`, `calm`, `tried` and `interrupted` are history.

`Ask`, `Wake`, `Resume`, `Awoken`, `Start`, `Up`, `Wait`, `TimeOut`, `Rotate`, `Recheck`, `Cycle`, `Revive`, `Restart`,
`Fail`, `Launch` are `ensure_ready` with `ensure_pod_awake`, `_ensure_pod_running`, `try_recover_rdp` and
`recover_rdp_if_needed`; `TrayLaunch` is a launch that skips it. A probe that answers is believed; one that does not may
have missed a pod that is well, so that every probe has its negative outcome whatever the state (`Ask`, `Wake`, `Start`,
`Recheck`, `Seen`).
`Poll`, `Elapse`, `Act` are the idle monitor, and `GrowStop`, `GrowStart`, `GrowFails` its `maybe_autogrow`, which a poll
without sessions runs before it looks at the timer and which stops the pod and makes it again on a larger disk;
`Tick`, `TickFails`, `Worker` are the tray's `refresh_status` and its recovery thread. `User` is any command of the user
or of another tool on the container; `Boot`, `Stall`, `Age` are Windows.

### Storage

State: `path` is `storage_path` in winpodx.toml (`"volume"` when empty), `compose` what compose.yaml mounts, `box` what the
container was made with, `run` whether it runs, `disk` what each of the two stores holds: nothing, a torn copy, Windows
without the user's last work (`old`) or with it (`cur`). `mine[p]` is the path in the `Config` a process loaded as it
began; the tray loads once. `owned` says that there is work the user has not given up. `slips` is history, of things
that processes do to one another and not of failures: `disturbed`, somebody worked on a store that was being copied or had
been, or two migrations met; `apart`, a stale `Config` was written back, a volume was not seen, or work was done in a
store that the container and the two files do not all name.

`Plan` to `Remove` are `plan_migration` and `execute_migration`; `Down` has the failed `compose down` whose output says
"no such" or "not found", which passes for a pod at rest, so that the copy may run beside a pod that is up. A failed
`Regenerate` leaves the new path saved beside the old compose file. `Recreate`, `Halt`, `Wipe`, `Regen`, `Up` are `pod
recreate` with and without `--wipe-storage`; `Setup`, `Remake`, `Clear`, `Raise`, `Keep` the storage question of setup and
what follows; `Grow`, `GrowStop`, `GrowSave` `grow_disk` from a command, a window or the tray. `Work` is the user in
Windows, `Crash` the end of a process anywhere.

`Vault` is the abstract specification: the work is copied, the mount moves only to a store that has the work, and only a
store that is not mounted is emptied. `Storage` implements it with `holders <- {s : disk[s] = "cur"}` and
`mounted <- IF run THEN box ELSE compose`, through every failure and every crash; it is void once `slips` is not empty.

### Upgrade

State: `host` is the installed version, which the container sees at once through its mount of `/oem`; `files` the version
of the scripts copied into the guest, `stamp` what `guest_version.json` claims; `pending` is `.pending_setup`; `view[p]` the
list as a process has read it and not yet written it back; `job`, `at`, `due` are a process's command, where it is, and
what it is to take off or put on the list; `ver[p]` is the version of the code that a process runs. `assumed` is history:
a version was recorded over older scripts that nobody synced.

`Resume` is `_maybe_resume_pending`, which runs before every command of the command line; `Command` lets one begin only
behind it. `Wait` to `Listed` are `resume` with `finish_provisioning` and `maybe_autosync`; `Migrate`, `Install` (with
`Sweep`, the end of install.sh), `Setup`, `SyncGuest`, `Start` are the commands that run the same parts; `Replace` is a
new version put in place by install.sh or a package manager. `Check`, `Deliver`, `Stamp`, `Restart` are
`guest_sync_needed` and `sync_guest`, which reads the stamp again and may lose the answer to a delivery that arrived.
`Read` and `WriteBack` are the two halves of `add_step` and `remove_step`: a list that cannot be read passes for none, a
write that fails is passed over, and one that dies half-way leaves the file empty (`Truncates`).

### Channel

State: `host` is `agent_token.txt`, `baked` its copy in the guest, `live` what the running agent took when it started;
`tok[c]` is the token in a caller's client. `lock`, `cool`, `behind` are the lock of `heal_token_once`, its cool-down and
its generation (as each caller sees it: has a heal succeeded since it read the counter). `script` and `result` are the two
files `run_in_windows` shares with the guest session; `ran` and `late` are the token in a script that a session has loaded,
with and without a host that still waits. `respawn` is what agent-respawn.ps1 has still to do. `fresh` is history: a
process has verified the agent, which has not changed since.

`Call`, `Capture`, `Send`, `Refuse` are a dispatch up to its 401; `Heal` and `EndHeal` `heal_token_once`; `Resync` the same
push by `pod resync-token`, which takes no lock; `Push`, `Load`, `Run`, `GiveUp`, `Collect`, `ReadResult` `run_in_windows`
and the guest's side of it, with one step for each of the two files it removes; `Verify` the loop that waits for the agent;
`Kill` and `Respawn` agent-respawn.ps1, which ends the agent and starts another, or none if its launcher is missing;
`Boot`, `Die`, `LateRun` the rest of the guest; `Drift` a new token.

### Catalog

State: `guest` has the version of each installed program; `disc` and `user` are the profile directories, `gone` the
tombstones, `menu` the launchers. A profile has its flag and the version of its hash, 0 while its icon is missing. A sweep
`s` is at `at[s]` with `found`, `todo`, `seen`, `cur`, `prior`, `wrote`, `list`: the local variables of
`persist_discovered` and of the registration after it. `cmd` is the user's command under way. `wish` is history: what the
user last decided on an app, unless a sweep was crossed or cut off in it since.

`Begin`, `Scan` (with `Load`), `Clear`, `Fill`, `Backfill`, `Patch`, `Prune` are a sweep up to the end of
`persist_discovered`: of `run_icon_refresh_monitor` for `Tray`, of the window or a command for `Refreshers`. A changed
profile is rewritten in two steps, `Clear` and `Fill`, since the directory is removed before the new file is written; one
that has not changed may be patched in two, `Backfill` and `Patch`, since `_backfill_mime_types` reads the whole file and
writes it back. `List` is the reading of the apps after it, which the monitor skips if nothing was left in place (`wrote`);
the launchers then follow as in the monitor (`InstallEntries`), the window (`SyncEntries`), a command (`Register`), or not
at all (`BringUp`, the window's bring-up). `Hide`, `WriteFlag`, `Sync` are `set_app_hidden`; `Delete`, `Unlist`,
`Bury` the window's deletion; `Restore`, `EditApp`, `Reset` the window's other commands; `GiveLaunchers`, `Repair`,
`InstallApp`, `RemoveApp` the other writers of the menu. `Scan` and the reading of the tombstones are one step: the scan's
answer does not depend on them, so nothing that comes between the two can be told from something that came before.


## 4 The runs

All run in `tlc -workers 2` with deadlock checking on. `pass` runs check all their properties; a `violation` run
has one property that a comment or docstring of the code states and that the code does not keep.

| run | configuration | states | result |
|---|---|---|---|
| `rotation` | `MCRotation.cfg`: one process at a time, 3 further passwords, 4 faults | 8,863 | holds |
| `rotation_overlap` | `RotationOverlap.cfg`: two overlapping launches, no fault | – | `RestLogsIn` violated |
| `listener` | `MCListener.cfg`: 2 UUIDs and a name that is none, cap 1, ring of 3, 2 faults of 5 kinds, 3 writes | 327,493 | holds |
| `lifecycle` | `MCLifecycle.cfg`: one command at a time, 3 daemons, 2 refreshes, 2 faults | 33,910 | holds |
| `sessions` | `MCSessions.cfg`: two processes and the tray in every order, 2 clients, 1 fault | 929,694 | holds |
| `pod` | `MCPod.cfg`: two clients, the idle monitor, the tray, the user; pause and stop | 220,080 | holds |
| `storage` | `MCStorage.cfg`: two commands and the tray, crashes anywhere | 2,271,648 | holds |
| `storage_grow` | `StorageGrow.cfg`: one command and the tray | – | `GrowOnlyGrows` violated |
| `upgrade` | `MCUpgrade.cfg`: one upgrade, a command and the window | 432,702 | holds |
| `channel` | `MCChannel.cfg`: two threads of the GUI and a command, 2 tokens | 587,630 | holds |
| `catalog` | `MCCatalog.cfg`: two apps, two sweepers, 2 commands or changes, 1 fault | 654,285 | holds |
| `catalog_choice` | `CatalogChoice.cfg`: the tray's sweeps, one command, no fault | – | `ChoiceKept` violated |

### What the passing runs show

*rotation.* `SettledAgrees`: no marker means guest, configuration and compose agree. `LaunchLogsIn`: the `Config` that
`ensure_ready` returns logs in. `RefinesCredential`: the whole protocol, as a refinement. `PendingResolves`: a marker does
not stay.

*listener.* `ReopenedByFaultOnly`: a request opens at most once more than there were failures, of which an unreadable ring
is one. `RefinesInbox`: it opens nothing that is on record, and removes a good request only if it was opened, is stale, or
its spawn failed. `RequestsLeave`: every request leaves the directory, whatever lies before it in the order of names,
unless that is a name that is no UUID.

*lifecycle.* `RefinesSlot` (one daemon after another, the one that serves in the pid file), `StopStops`, `RefreshSpares`
(a reload signal ends no daemon), `Refreshed` (a new manifest reaches the daemon, or leaves it no apps if it cannot be
read), `StartReturns` (the parent's blocking read ends). All of it for commands that do not overlap.

*sessions.* `Tracked`: a live session that `launch_app` returned is in its file, unless `disturbed`. `Debounced`: the tray
ends a session only after it has missed the window of this very one for a whole debounce, though the file may have changed
hands since the first scan, since the listing or since the kill was decided. `Reaped`: a session
seen with a window and left without one does not stay. `Forgotten`: a file that names no live client does not stay.

*pod.* `HandedOver`: a launch that is let through has found RDP answering, unless RDP went down under it. `IdleOnly`: the
idle monitor pauses or stops only after a timeout without sessions, and what it or the growth of a disk hits are only
sessions younger than its last look (the code has no lock against those). `Served`: every `ensure_ready` ends.
`Attended`: the tray leaves no outage without an attempt at recovery.

*storage.* `Kept`: whatever crashes and fails, the user's last work is in one of the stores, unless the user gave it up,
worked beside a migration, or started two. `Found`: in the middle of any command, and after any failure or crash in it,
winpodx.toml and compose.yaml each name a store with the work, though not always the same one, and a pod that runs has it.
`RefinesVault`: the mount moves only to a store with the work, and only what is not mounted is emptied. The last two hold
through every failed save, compose file, stop and start, and end with a slip, that is where processes or the user got into
each other's way.

*upgrade.* `StampTrue`: the stamp is never above the scripts it vouches for, unless a version was recorded where there was
no stamp or none could be read. `Settled`: once nothing fails any more the list empties, though commands write it over each
other, and the guest gets the host's scripts, though steps were lost from the list.

*channel.* `OnePush`: threads refused together push once between them. `Healed`: whatever two processes do to each other's
files, in the end the agent takes the host's token.

*catalog.* `HideKept`: an app the user has hidden stays hidden over every rewrite of its profile, unless another sweep
or a command crossed the rewrite or it was cut off. `Mirrored`: profiles and menu come to agree with the guest and the tombstones.

### Bounds

* Passwords: a rotation needs an old and a new one, a second rotation a third; one more lets a forgotten one show.
  Four faults allow a failure of the command, of its rollback, of the recovery, and a crash in between.
* Listener: with a cap of one, a single leftover `.tmp` file already hides the second name. Three writes over two names
  contain a repeated delivery. The name that is no UUID sorts last, so that it ends passes and skips the janitor while the
  others come and go. The ring has room for every name in play, as the real one (1000 entries) has within a janitor period.
* Lifecycle: three daemons allow a stop and two replacements; two refreshes let one overtake the other.
* Sessions: two clients are what it takes for one to take the other's place; two processes and the tray are the actors
  any of the known races needs. One fault is a failed spawn, write or scan, or a killed command.
* Pod: two clients, since one launch can meet another's restart; nothing is counted, so the run is unbounded in time.
* Storage: two commands beside the tray, any number of each, with a failure or a crash anywhere. The constraint `Claimed` of
  `MCStorage` stops behind a disturbed migration, where nothing is claimed.
* Upgrade: two versions make one upgrade. `Claimed` of `MCUpgrade` stops where a version was recorded over older scripts, where
  the claims end. Its other parts keep the run small: two commands past their wait are in the same part of their work, so
  that they meet in the list, in the sync or in the fixes, and not in one and another; setup runs on a new guest only and
  with the window at rest, migrate on an upgraded host only; only the first version's guest is ever without a stamp.
* Channel: two tokens make one drift; two threads share a lock and a third caller is another process. `Claimed` of
  `MCChannel` lets that one run `resync-token` only, and has scripts with one token at a time go on unattended.
* Catalog: one app the user acts on and Windows changes, and one that the denylist hides and the guest reports with a hash
  (so that the gate skips it until a partial scan has pruned it). Two commands are a deletion and its restoration, an edit
  and its reset, or a decision and a change in Windows. `OneBackfills` lets the monitor's sweep alone find associations
  missing: the other sweep and the command are what crosses it.
* `MaxFaults` stands for "finitely many failures": liveness is claimed only once failures cease. `calm`, in `Catalog` `quiet`, says the same
  where failures are not counted: from some point on nothing fails any more.

### Fairness

* Rotation: weak for the steps of a command (a process that is not killed goes on) and strong for `Begin(p, "ready")`:
  the user launches an app again and again. Nothing else resumes a rotation.
* Listener: weak for `Start` (every launch starts a daemon if there is none), strong for the steps of a pass (stopping
  the daemon over and over does not starve them), weak for time.
* Lifecycle: weak for each command and each daemon.
* Sessions: weak for each command, the tray's poll, and time. Users, windows, clients and failures are under no
  fairness: nobody has to close a window or end a client.
* Pod: weak for each client's steps, the tray's tick and its recovery thread. Windows need not boot.
* Upgrade: weak for Windows booting and for each process's command, with `Resume` and `Start` (every command resumes).
* Channel: weak for the callers together and for what passes in the guest and with time.
* Catalog: strong for the tray's sweep and for the window's or a command's (only the latter removes launchers, so it
  has to be run now and again), weak for the user's command under way.


## 5 The proofs

`tlapm` checks them for every value of the constants that the `ASSUME` of the module admits: any number of processes,
passwords, names, daemons, clients and failures.

| module | theorems |
|---|---|
| `RotationProofs` | `TypeCorrect`, `Settled`, `Covered`, `LogsIn`, `Kept`, `Announced`, `Refinement` |
| `ListenerProofs` | `TypeCorrect`, `Reopened`, `LosesNothing`, `RecordRespected`, `Refinement` |
| `LifecycleProofs` | `TypeCorrect`, `AlwaysFound`, `Stopped`, `Spared`, `Refinement` |
| `SessionsProofs` | `TypeCorrect`, `OnlyTheMissedEnd`, `NothingLost` |
| `TrayProofs` | `TypeCorrect`, `LaunchesHandedOver`, `IdleActsLate`; `CatalogTypeCorrect`, `HiddenStays` |
| `StorageProofs` | `TypeCorrect`, `WorkKept`, `RemovesSpare`, `WorkFound`, `Refinement` |
| `UpgradeProofs` | `TypeCorrect`, `StampVouches` |
| `ChannelProofs` | `TypeCorrect`, `PushesOnce` |

**Rotation.** None of the invariants is inductive alone: whether the marker may be cleared depends on how far the
process that clears it has come. The inductive invariant says, for every label, what the active process knows about
guest, configuration, compose and marker there: before `change` nothing but the marker differs; at `save` the guest has
`new[p]`; at `undoSave` the guest has `old[p]` again; in recovery the guest has `mem[p]`. It also says that at most one
process is away from `idle`. `TypeCorrect` holds for overlapping commands too; the other theorems assume `~Overlap`,
and `rotation_overlap` shows that the assumption is needed. The refinement maps each step to a step of `Credential` or to a
stutter. `Covered` (the marker names every password in use), `Kept` (no marker is replaced by another) and `Announced` (the
account changes only behind a marker naming the new password) are what the refinement rests on.

**Listener.** The invariant accounts for every opening: a request was opened at most once more than there were failures,
and no more often than there were failures if one of the rings does not know it and it is not in hand between the spawn
and the record. An empty start is a failure, so that what memory lacks is paid for. Rings hold no duplicates, so that one
with fewer entries than names has room left. `Reopened` and `Refinement` assume that the ring has room for every name
(`Roomy`) and speak of the names that are UUIDs: one that `uuid.UUID` refuses is opened again on every poll that reaches
it. `TypeCorrect` and `LosesNothing` assume nothing. `RecordRespected` is about a ring of any size that evicts: as long as
it can be read and written, memory and disk hold one ring, so that nothing on record is opened. What parts them is a write
that fails, after which memory may evict what the disk still has, and a start that cannot read.

`Refinement` shows that each step is one of `Inbox` or a stutter. `Accounted` gives the guard of `Serve` (no more servings
than failures so far), and `Known`, of `LosesNothing`, that whatever a ring knows was served, so that a repeated delivery
leaves as a served request and a record that comes back names only such.

**Lifecycle.** With one command at a time at most one daemon is alive; one that is not yet running belongs to the
command that waits for it; one that serves is in the pid file; and a command past its look at the file sees a running
daemon or none. `TypeCorrect` holds for overlapping commands too; the others assume `~Overlap`: two overlapping starts
do fork two daemons, and nothing is claimed of them. `Refinement` follows from the same invariant: a command forks only when nobody lives, so the slot is
empty; and whoever removes the pid file, a daemon that exits or a command that cleans up, finds that nobody serves any more.

**Sessions.** Commands may overlap here. `OnlyTheMissedEnd` needs no assumption: its invariant `Aimed` ties the tray's own
variables to what its scans have found. An `armed` pid whose debounce has passed is one that every scan since has missed,
whatever the file has held meanwhile, and the pid the tray takes into `kill` and `grace` is that one. `NothingLost` keeps
`disturbed` as history and shows that while it is false the process at work is alone with the file: where it stands (a lock
held, a pid read and about to be unlinked), the file still says what it read.

**Pod.** Everyone overlaps. `HandedOver` is close to inductive: each place past the probes is reached only while RDP
answers, and every step that takes it down marks the clients that are under way (`interrupted`). `IdleOnly` is an action
property whose invariant `Clock` ties the monitor's timer to `calm` and, while it acts or grows the disk, the sessions to
`young`.

**Catalog.** `CatalogTypeOK` is not inductive: `Typed` adds that a sweep which is not writing has nothing left to write,
and that a command's record has the fields its step reads. For `HideKept` an app the user has hidden
is `Held`: by a profile of the user's own that says so, or, without one, by the discovered profile, which says so or is off
the disk between the removal and the writing (`Marked`), while a sweep that has the app in hand is the only one and has
read that it is hidden (`InOneHand`). A second sweep that takes up the same app breaks `InOneHand`, and the history
variable `wish` forgets the decision just there. `Asked` says that a hide under way still goes to the profile it chose.
Any number of sweeps overlap with each other and with the command under way.

**Storage.** `IInv` is `TypeOK` and, as long as no migration was disturbed, `Safe`: the work is somewhere; past its first
copied byte a migration has no other beside it (`Alone`); and `Step` says what each of its labels relies on: the volume
keeps the work until the switch, and from the verified copy on the bind mount has it. None of this says that the pod is at
rest. `RemovesSpare` follows: what a migration removes at its end is never the only copy.

`InStep` is for as long as nothing has slipped: each of the two files names a store with the work and a pod that runs has
it (`Reached`), and `Knows` says what every process's own copy of the path is worth. Whoever means the bind mount knows
that winpodx.toml names it, or is a setup that brings it in; a migration that has saved the path goes by it; one past the
compose file has switched both. The two files may differ, after a `Regenerate` that failed or a crash before it: the
work is then in both stores, until somebody works in one of them, which is a slip. `WorkFound` is this invariant.

`Refinement` maps the steps to `Vault`. That the target of a move has the work is `Reached`, that the store emptied is not
the mounted one is `Knows`' clause about `remove`. A step with a slip voids the promise, which `Vault` allows at any time.

**Upgrade.** `Vouched` says that the stamp is at most `files`, and that whoever is about to stamp runs no newer version than
was delivered; `Ahead`, that nothing is ahead of the host; `Placed` and `Reading`, where a command can be and where it has
a reading of the list. Any number of processes overlap.

**Channel.** `Lone`: `resync-token` is a process of its own that does nothing but push. `Older`: no client is ahead of the
host, and a caller on its way to the lock although its process has verified the agent, and no heal has succeeded since it
read the generation, holds an older token. So a thread that gets the lock after another has pushed does not push.

Only model-checked: `PendingResolves`, `RequestsLeave`, `Refreshed`, `StartReturns`, `Reaped`, `Forgotten`, `Served`,
`Attended`, `Settled`, `Healed`, `Mirrored`, since they rest on fairness, and the prover has no rules for `ENABLED`. Every
other property of a passing run is a theorem.


## 6 What the models found

Three are `violation` runs; `PROJECT.json` quotes the line each contradicts.

1. Two overlapping launches: the second takes the live rotation of the first for an interrupted one and "recovers" it.
   The recorded password can end up not being the account's, with no marker left (`rotation_overlap`).
2. Disk growth saves the whole `Config` its caller loaded, in the tray's case at its start, and takes back a storage path
   changed since (`storage_grow`).
3. An app the user shows against the denylist is hidden again by the second sweep that rewrites it: the first drops
   `hidden = false` from the file, the second sees no decision (`catalog_choice`).

The modules show more. No run can hold these against the code, since the code does them and the properties leave them
out; each is in the model, and the property named says what is left.

* `Lifecycle`: two overlapping starts fork two listeners, one of which no command can stop. An exception in the daemon
  before its loop returns the grandchild into the command, which it then carries on a second time (state *clone*). A
  manifest that cannot be read leaves a running daemon without any app until the next refresh.
* `Listener`: a request written while the listener was down is opened on the next start however old it is, since the pass
  comes before the sweep. A file name that is no UUID is opened on every poll, ends the pass, and skips the janitor: what
  sorts after it starves, though `reverse_open/listener.py:393-397` means to keep one bad file from blocking the rest.
  A ring that cannot be read is taken for an empty one, and what it has is opened again.
* `Sessions`: the tray keeps what it has seen by app name. A session that takes the place of another under that name
  counts as seen before its first window, and is ended if the window takes longer than the debounce, against
  `core/daemon.py:378-381` ("a launching session is never killed early"). A listing between open and write of a first
  launch unlinks the file being written, and the session is on no list.
* `Pod`: a launch between `ensure_ready` and the write of its file can have its pod paused, or stopped for the growth of its
  disk, which asks for no timeout: `core/daemon.py:254-255` and `core/disk.py:521-523` say that this never interrupts a live
  session. `IdleOnly` bounds it to those that came after the monitor's look.
* `Storage`: the path is saved before the compose file is regenerated, so that a failure between them leaves two files with
  two stores, against the docstring `core/storage_migration.py:347-349` ("only persisted after a successful copy + compose
  regenerate"); `Found` shows that both stores then have the work, until it is gone on with in one of them. A `compose down` that fails with
  "no such" passes for a pod at rest. Work done in a pod that is up during the migration is lost with the old store. The
  check for the old volume uses `docker volume exists`, which docker does not have.
* `Upgrade`: `migrate` run by `install.sh` with the guest down queues the scan and succeeds, and `install.sh` then removes
  the list (lines 1978-1979): the command's "the next winpodx launch resumes it automatically"
  (`src/src/winpodx/cli/migrate.py:290-296`) does not come about, on the normal path and without any second process. Two
  writers of the list lose or revive each other's steps. `migrate` is taken off the list though the results of a failed sync
  are ignored, and an unreadable stamp is taken for none, whereupon the host's version is recorded over an old guest.
  The version test is an inequality: an old window and a newer command line would re-sync the guest alternately for ever,
  so `Settled` asks for a restarted window.
* `Channel`: every heal uses one script name, so that two processes take each other's script; two whose cool-downs line up
  could do so for ever, so `Healed` is claimed once sessions no longer meet. With its launcher gone, agent-respawn.ps1 ends
  the agent and starts none, and the guest has none until the next logon.
* `Catalog`: a command or a second sweep that crosses a rewrite of a profile can lose the user's hide or be undone by it.
  A launch gives hidden apps their launcher back, though hiding removed it; an edit of a hidden app writes a
  profile without the flag and un-hides it; the deletion of an app with a profile of the user's own leaves no tombstone, so
  that the next sweep brings the app back.


## 7 Limits

* PIDs are not reused. `core/process.py` looks at `/proc/<pid>` for that; `reverse_open/lifecycle.py` does not.
* A guest command whose client gave up does not run later, except in `Channel`, where that is modelled.
* `Rotation` and `Lifecycle` claim their safety for commands that do not overlap. The code has no lock, so this is an
  assumption about use.
* `Sessions` has one app: files of different apps never meet. It has the tray's reaper only; a launching process runs a
  second one by the same rules.
* `Pod` believes a probe that answers; one that does not may have missed the state. A session is listed
  from its launch on: the file itself is in `Sessions`. How full the disk is, and how often the monitor asks, is left open.
* `Storage` knows one volume; the code removes `winpodx-data` where compose makes `winpodx_winpodx-data`.
* `Upgrade` has `guest_autosync` on, leaves out the check for a sync inside `migrate`'s own wait (`Check` follows), and one version of a script bundle stands for all of its files.
* `Channel` leaves out the copy of the token on the mount and two processes that make a first token at once.
* `Catalog` claims `Mirrored` for sweeps that no longer overlap: two that always do can disturb each other for ever.
  Launchers of a sweep are registered in one step, as are the removals; of icons and MIME lists there is only whether one is
  missing, and `[rdp]` tables are left out.
* An entry that falls out of the ring is forgotten, by design of the code; the claims are for a ring with room.
* Contents (manifest, request, FreeRDP command line) are a version number, a Boolean, or left out.

### Not modelled

* Container back ends, command line, setup wizard: each call is a step of the modules; what remains is quoting and output.
* Tray and GUI: their threads are processes of the modules; widgets and the start-up sequence on screen are not.
* Passthrough of devices: a request to QEMU's monitor per command, and a state file per device.
* Checks, information, statistics, updates: read-only, or one command in the guest.
* Display arithmetic, desktop files, icons, MIME tables, reverse-open data: conversions without interleaving.
* Guest scripts and packaging: PowerShell, batch and shell around Windows and package managers.


## 8 What is left

* Passthrough: the state files of `core/usbredir.py` against the devices QEMU has, over restarts of the container.
* What survives overlap in `Rotation` (what a marker covers while two processes recover), and how long a ring that evicts
  remembers.
* Abstract specifications of the app sessions, the list of pending steps and the token's heal.
* Settings saved by the window from a configuration it loaded long before, over `Rotation` and `Storage` at once.
