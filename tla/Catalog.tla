------------------------------ MODULE Catalog ------------------------------
(***************************************************************************)
(* The list of Windows apps the host knows (core/discovery, core/app) and   *)
(* the launchers in its menu (desktop/entry.py).  Sweeps ask the guest what *)
(* is installed and rewrite the profiles: the tray's monitor, the window's  *)
(* refresh and the commands', which also bring the menu up to date.         *)
(* Meanwhile the user hides, deletes, edits and restores apps.              *)
(***************************************************************************)
EXTENDS Naturals, FiniteSets

CONSTANTS
  Apps,        \* slugs
  Noise,       \* those the denylist hides
  Essential,   \* those a sweep adds though the guest did not report them
  Hashed,      \* those the guest reports with a hash of the executable and an icon
  Tray,        \* the monitor of run_icon_refresh_monitor
  Edited,      \* bound: those the user's commands and changes in Windows are about
  Refreshers,  \* app refresh, the window's worker, the provisioner
  MaxVersion,  \* bound: versions of an app's executable
  MaxEdits,    \* bound: commands of the user
  MaxFaults    \* bound: failures, crashes, partial scans

NoApp == "no app"

ASSUME CatalogAssumption ==
  /\ NoApp \notin Apps /\ Noise \subseteq Apps /\ Essential \subseteq Apps
  /\ Noise \cap Essential = {}
  /\ Hashed \subseteq Apps /\ Edited \subseteq Apps /\ Tray \notin Refreshers
  /\ MaxVersion \in Nat \ {0} /\ MaxEdits \in Nat /\ MaxFaults \in Nat

Sweepers == {Tray} \cup Refreshers
Flags    == {"unset", "no", "yes"}        \* the key "hidden" of an app.toml

\* The version of a profile is that of its hash, and 0 if its icon is missing.
Profiles == [hidden : Flags, ver : 0 .. MaxVersion]
None     == [kind |-> "no directory"]
Bare     == [kind |-> "directory without app.toml"]

VARIABLES
  guest,      \* version of each app in Windows, 0 if not installed
  disc,       \* discovered/<slug>: a profile, None or Bare
  user,       \* apps/<slug>, which wins: its flag, or "none"
  gone,       \* discovered_suppressed.txt
  menu,       \* apps with a launcher
  at,         \* where a sweep is
  found,      \* what its scan returned
  todo,       \* what it has yet to write
  seen,       \* what it has not skipped
  cur,        \* the app it is writing
  prior,      \* the flag it has read of that app
  wrote,      \* the monitor's has a profile to show for it
  list,       \* the apps it read before it registers launchers
  cmd,        \* the user's command: step, app, flag, profile read
  edits, faults,
  quiet,      \* from now on the user and Windows change nothing, nothing fails,
              \* and sweeps do not overlap
  wish        \* history: the user's last word on an app, unless a sweep was crossed
              \* or cut off in it since

sweep       == <<at, found, todo, seen, cur, prior, wrote, list>>
files       == <<disc, user, gone, menu>>
catalogVars == <<guest, files, sweep, cmd, edits, faults, quiet, wish>>

IsProfile(a) == disc[a] \in Profiles
Listed == {a \in Apps : IsProfile(a) \/ user[a] # "none"}
Hidden(a) == IF user[a] # "none" THEN user[a] = "yes" ELSE IsProfile(a) /\ disc[a].hidden = "yes"
Shown == {a \in Listed : ~Hidden(a)}

\* A hide carries the profile it has read; a deletion and a reset do not.
Idle   == [step |-> "idle"]
Orders ==
  [step : {"flag", "sync"}, app : Apps, flag : Flags, old : Profiles \cup {None}]
    \cup [step : {"sync", "unlist", "bury"}, app : Apps, flag : Flags]
Nothing == [a \in Apps |-> 0]
Real(s) == {a \in Apps : found[s][a] # 0}

CatalogTypeOK ==
  /\ guest \in [Apps -> 0 .. MaxVersion]
  /\ disc \in [Apps -> Profiles \cup {None, Bare}] /\ user \in [Apps -> Flags \cup {"none"}]
  /\ gone \subseteq Apps /\ menu \subseteq Apps
  /\ at \in [Sweepers -> {"idle", "scan", "write", "fill", "patch", "list", "register"}]
  /\ found \in [Sweepers -> [Apps -> 0 .. MaxVersion]]
  /\ todo \in [Sweepers -> SUBSET Apps] /\ seen \in [Sweepers -> SUBSET Apps]
  /\ cur \in [Sweepers -> Apps \cup {NoApp}] /\ prior \in [Sweepers -> Flags]
  /\ wrote \in BOOLEAN /\ list \in [Sweepers -> SUBSET Apps]
  /\ cmd \in Orders \cup {Idle}
  /\ edits \in 0 .. MaxEdits /\ faults \in 0 .. MaxFaults /\ quiet \in BOOLEAN
  /\ wish \in [Apps -> {"none", "hide", "show"}]
  /\ \A s \in Sweepers : todo[s] \subseteq seen[s] /\ (cur[s] # NoApp <=> at[s] \in {"fill", "patch"})

\* What a first refresh leaves.
CatalogInit ==
  /\ guest = [a \in Apps |-> 1]
  /\ disc = [a \in Apps |-> [hidden |-> IF a \in Noise THEN "yes" ELSE "unset", ver |-> 1]]
  /\ user = [a \in Apps |-> "none"] /\ gone = {} /\ menu = Apps
  /\ at = [s \in Sweepers |-> "idle"] /\ found = [s \in Sweepers |-> Nothing]
  /\ todo = [s \in Sweepers |-> {}] /\ seen = [s \in Sweepers |-> {}]
  /\ cur = [s \in Sweepers |-> NoApp] /\ prior = [s \in Sweepers |-> "unset"]
  /\ wrote = FALSE /\ list = [s \in Sweepers |-> {}]
  /\ cmd = Idle /\ edits = 0 /\ faults = 0 /\ quiet = FALSE
  /\ wish = [a \in Apps |-> "none"]

-----------------------------------------------------------------------------
Go(s, from, to) == at[s] = from /\ at' = [at EXCEPT ![s] = to]
Forget(a) == wish' = [wish EXCEPT ![a] = "none"]
Fault == ~quiet /\ faults < MaxFaults /\ faults' = faults + 1

\* persist_discovered returns the profiles it leaves in place, and only the monitor looks.
Shows(s) == wrote' = (wrote \/ s = Tray)

\* A process that ends a sweep forgets it.
Leave(s, from) ==
  /\ Go(s, from, "idle")
  /\ found' = [found EXCEPT ![s] = Nothing] /\ todo' = [todo EXCEPT ![s] = {}]
  /\ seen' = [seen EXCEPT ![s] = {}] /\ cur' = [cur EXCEPT ![s] = NoApp]
  /\ prior' = [prior EXCEPT ![s] = "unset"] /\ wrote' = (wrote /\ s # Tray)
  /\ list' = [list EXCEPT ![s] = {}]

-----------------------------------------------------------------------------
(* A sweep: discover_apps, persist_discovered, registration.               *)

\* The monitor's six hours have passed, or somebody refreshes.
Begin(s) ==
  /\ Go(s, "idle", "scan") /\ (quiet => \A t \in Sweepers : at[t] = "idle")
  /\ UNCHANGED <<guest, files, found, todo, seen, cur, prior, wrote, list, cmd, edits, faults,
                 quiet, wish>>

\* Mutant: a deleted app is left out of what the sweep has seen, and still written.
LoadLate(s, apps) ==
  /\ Go(s, "scan", "write")
  /\ found' = [found EXCEPT ![s] = [a \in Apps |-> IF a \in apps THEN guest[a] ELSE 0]]
  /\ seen' = [seen EXCEPT ![s] = (apps \cup Essential) \ gone]
  /\ todo' = [todo EXCEPT ![s] = apps \cup Essential]

\* Mutant: the list of deleted apps is not read.
LoadAll(s, apps) ==
  /\ Go(s, "scan", "write")
  /\ found' = [found EXCEPT ![s] = [a \in Apps |-> IF a \in apps THEN guest[a] ELSE 0]]
  /\ seen' = [seen EXCEPT ![s] = apps \cup Essential] /\ todo' = [todo EXCEPT ![s] = seen'[s]]

\* To what the guest reports come the essentials of _merge_essentials; deleted apps
\* are left out, by a list that is read once.
Load(s, apps) ==
  /\ Go(s, "scan", "write")
  /\ found' = [found EXCEPT ![s] = [a \in Apps |-> IF a \in apps THEN guest[a] ELSE 0]]
  /\ seen' = [seen EXCEPT ![s] = (apps \cup Essential) \ gone]
  /\ todo' = [todo EXCEPT ![s] = seen'[s]]

\* discover_apps, with its second try.  Windows that is still starting, or a
\* clipped answer, gives some of the apps; a failure ends the sweep.
Scan(s) == LET installed == {a \in Apps : guest[a] # 0} IN
  /\ \/ Load(s, installed) /\ UNCHANGED <<cur, prior, wrote, list, faults>>
     \/ \E some \in (SUBSET installed) \ {installed} :
          Fault /\ Load(s, some) /\ UNCHANGED <<cur, prior, wrote, list>>
     \/ Leave(s, "scan") /\ Fault
  /\ UNCHANGED <<guest, files, cmd, edits, quiet, wish>>

\* The gate of the hash: an app that has not changed is left as it is, if it has its icon.
Unchanged(s, a) ==
  /\ a \in Hashed /\ found[s][a] # 0
  /\ IsProfile(a) /\ disc[a].ver = found[s][a]

\* A sweep reads the old profile of an app.  A command on the way to that file, or
\* another sweep in it, is crossed.
Take(s, a) ==
  /\ cur' = [cur EXCEPT ![s] = a]
  /\ prior' = [prior EXCEPT ![s] = IF IsProfile(a) THEN disc[a].hidden ELSE "unset"]
  /\ IF \E t \in Sweepers \ {s} : cur[t] = a THEN Forget(a) ELSE UNCHANGED wish
  /\ UNCHANGED <<guest, user, gone, menu, found, todo, seen, wrote, list, cmd, edits, faults,
                 quiet>>

\* Of those that have changed the directory is emptied.
Clear(s) == \E a \in todo[s] :
  /\ Go(s, "write", "fill") /\ ~Unchanged(s, a)
  /\ Take(s, a) /\ disc' = [disc EXCEPT ![a] = Bare]

\* One that has not may lack the associations the guest reports, as the user had them
\* switched off or its profile is older than they are: _backfill_mime_types reads it
\* all, ...
Backfill(s) == \E a \in todo[s] :
  Go(s, "write", "patch") /\ Unchanged(s, a) /\ Take(s, a) /\ UNCHANGED disc

\* A sweep has done with the app in hand.
Done(s) ==
  /\ todo' = [todo EXCEPT ![s] = @ \ {cur[s]}]
  /\ cur' = [cur EXCEPT ![s] = NoApp] /\ prior' = [prior EXCEPT ![s] = "unset"]
  /\ UNCHANGED <<guest, user, gone, menu, found, seen, list, cmd, edits, quiet>>

\* What an app.toml is worth that is written into the directory of a as it is now.
InPlace(a, hidden, ver) ==
  [hidden |-> hidden, ver |-> IF IsProfile(a) /\ disc[a].ver # 0 THEN ver ELSE 0]

\* ... and writes it all, if its directory is still there.
Patch(s) == LET a == cur[s] IN
  /\ Go(s, "patch", "write") /\ Done(s) /\ Shows(s)
  /\ disc' = IF disc[a] = None THEN disc
             ELSE [disc EXCEPT ![a] = InPlace(a, prior[s], found[s][a])]
  /\ UNCHANGED <<faults, wish>>

\* Mutant: the denylist decides again.
Judged(s, a) == IF a \in Noise THEN "yes" ELSE "unset"

\* The user's flag, or else the denylist's.  A flag that is false is left out.
Flag(s, a) ==
  CASE prior[s] = "yes" -> "yes"
    [] prior[s] = "no"  -> "unset"
    [] OTHER -> IF a \in Noise THEN "yes" ELSE "unset"

\* The new profile, unless it cannot be written; or no more than its icon cannot.
Fill(s) == LET a == cur[s] IN
  /\ Go(s, "fill", "write") /\ Done(s)
  /\ \/ /\ \E ver \in {found[s][a], 0} :
             /\ disc' = [disc EXCEPT ![a] = [hidden |-> Flag(s, a), ver |-> ver]]
             /\ IF ver = found[s][a] THEN UNCHANGED faults ELSE Fault
        /\ Shows(s) /\ UNCHANGED wish
     \/ Fault /\ Forget(a) /\ UNCHANGED <<disc, wrote>>

\* What this scan did not have goes, if it had anything.  The user's word on an
\* app goes with it, be it that the app was only missed by the scan.
Prune(s) == LET drop == IF Real(s) = {} THEN {} ELSE Apps \ seen[s] IN
  /\ Go(s, "write", "list") /\ \A a \in todo[s] : Unchanged(s, a)
  /\ todo' = [todo EXCEPT ![s] = {}] /\ IF todo[s] = {} THEN UNCHANGED wrote ELSE Shows(s)
  /\ disc' = [a \in Apps |-> IF a \in drop THEN None ELSE disc[a]]
  /\ wish' = [a \in Apps |-> IF a \in drop /\ user[a] = "none" THEN "none" ELSE wish[a]]
  /\ UNCHANGED <<guest, user, gone, menu, found, seen, cur, prior, list, cmd, edits, faults,
                 quiet>>

\* The launchers a sweep is to see to.  The monitor leaves hidden apps out, and
\* does nothing if it wrote none.
List(s) ==
  /\ Go(s, "list", "register")
  /\ list' = [list EXCEPT ![s] = IF s # Tray THEN Listed ELSE IF wrote THEN Shown ELSE {}]
  /\ seen' = [seen EXCEPT ![s] = {}] /\ wrote' = (wrote /\ s # Tray)
  /\ found' = IF s = Tray THEN [found EXCEPT ![s] = Nothing] ELSE found
  /\ UNCHANGED <<guest, files, todo, cur, prior, cmd, edits, faults, quiet, wish>>

\* The end of a sweep, of which only the launchers are left.
Ends(s) ==
  Leave(s, "register") /\ UNCHANGED <<guest, disc, user, gone, cmd, edits, faults, quiet, wish>>

\* The monitor adds launchers.
InstallEntries(s) == s = Tray /\ Ends(s) /\ menu' = menu \cup list[s]

\* The window adds those of its scan, and removes the ones without a profile.
SyncEntries(s) == s # Tray /\ Ends(s) /\ menu' = (menu \cup Real(s)) \cap list[s]

\* A command does the same, only if the scan had anything.
Register(s) ==
  /\ s # Tray /\ Ends(s)
  /\ menu' = IF Real(s) = {} THEN menu ELSE (menu \cup Real(s)) \cap list[s]

\* The window's bring-up leaves the launchers alone.
BringUp(s) ==
  /\ s # Tray /\ ~quiet /\ Leave(s, "list")
  /\ UNCHANGED <<guest, files, cmd, edits, faults, quiet, wish>>

\* A sweep's process dies.
Die(s) ==
  /\ at[s] # "idle" /\ Leave(s, at[s]) /\ Fault
  /\ wish' = [a \in Apps |-> IF a = cur[s] THEN "none" ELSE wish[a]]
  /\ UNCHANGED <<guest, files, cmd, edits, quiet>>

-----------------------------------------------------------------------------
(* The user's commands, in the window or a terminal.                       *)

Edit == ~quiet /\ edits < MaxEdits /\ edits' = edits + 1
Order(command) == cmd = Idle /\ cmd' = command /\ Edit

\* set_app_hidden reads the profile that counts, ...
Hide(a, flag) ==
  /\ a \in Listed
  /\ Order([step |-> "flag", app |-> a, flag |-> flag,
          old |-> IF user[a] # "none" THEN None ELSE disc[a]])
  /\ UNCHANGED <<guest, files, sweep, faults, quiet, wish>>

\* ... writes it back with the flag, unless its directory has gone, ...
WriteFlag == LET a == cmd.app IN
  /\ cmd.step = "flag"
  /\ \/ /\ cmd.old # None /\ disc[a] = None
        /\ cmd' = Idle /\ UNCHANGED <<disc, user, wish>>
     \/ /\ cmd.old = None \/ disc[a] # None
        /\ cmd' = [cmd EXCEPT !.step = "sync"]
        /\ IF cmd.old = None THEN user' = [user EXCEPT ![a] = cmd.flag] /\ UNCHANGED disc
           ELSE disc' = [disc EXCEPT ![a] = InPlace(a, cmd.flag, cmd.old.ver)] /\ UNCHANGED user
        /\ IF \E s \in Sweepers : cur[s] = a THEN Forget(a)
           ELSE wish' = [wish EXCEPT ![a] = IF cmd.flag = "yes" THEN "hide" ELSE "show"]
  /\ UNCHANGED <<guest, gone, menu, sweep, edits, faults, quiet>>

\* ... and takes the launcher away or puts it there.  A reset does so by the
\* flag of the profile it uncovered.
Sync == LET a == cmd.app IN
  /\ cmd.step = "sync" /\ cmd' = Idle
  /\ menu' = CASE a \notin Listed -> menu
              [] cmd.flag = "yes" \/ (cmd.flag = "unset" /\ Hidden(a)) -> menu \ {a}
              [] OTHER -> menu \cup {a}
  /\ UNCHANGED <<guest, disc, user, gone, sweep, edits, faults, quiet, wish>>

\* delete_app_profile removes both directories.
Delete(a) ==
  /\ a \in Listed
  /\ Order([step |-> "unlist", app |-> a, flag |-> IF user[a] = "none" THEN "yes" ELSE "no"])
  /\ user' = [user EXCEPT ![a] = "none"] /\ disc' = [disc EXCEPT ![a] = None]
  /\ Forget(a)
  /\ UNCHANGED <<guest, gone, menu, sweep, faults, quiet>>

\* A discovered app is also put on the list of deleted ones.
Unlist ==
  /\ cmd.step = "unlist"
  /\ cmd' = IF cmd.flag = "yes" THEN [cmd EXCEPT !.step = "bury"] ELSE Idle
  /\ menu' = menu \ {cmd.app}
  /\ UNCHANGED <<guest, disc, user, gone, sweep, edits, faults, quiet, wish>>

Bury ==
  /\ cmd.step = "bury" /\ cmd' = Idle /\ gone' = gone \cup {cmd.app}
  /\ UNCHANGED <<guest, disc, user, menu, sweep, edits, faults, quiet, wish>>

\* A restored app is taken off that list, and a refresh begins if none is under way.
Restore(a) ==
  /\ a \in gone /\ cmd = Idle /\ gone' = gone \ {a} /\ Edit
  /\ \E s \in Refreshers : at' = IF at[s] = "idle" THEN [at EXCEPT ![s] = "scan"] ELSE at
  /\ UNCHANGED <<guest, disc, user, menu, found, todo, seen, cur, prior, wrote, list, cmd, faults,
                 quiet, wish>>

\* The dialog writes a profile of the user's own, without a flag.
EditApp(a) ==
  /\ a \in Listed /\ cmd = Idle /\ Edit
  /\ user' = [user EXCEPT ![a] = "unset"] /\ Forget(a)
  /\ UNCHANGED <<guest, disc, gone, menu, sweep, cmd, faults, quiet>>

\* reset_app_profile removes it where a discovered one is below.
Reset(a) ==
  /\ user[a] # "none" /\ IsProfile(a)
  /\ Order([step |-> "sync", app |-> a, flag |-> "unset"])
  /\ user' = [user EXCEPT ![a] = "none"] /\ Forget(a)
  /\ UNCHANGED <<guest, disc, gone, menu, sweep, faults, quiet>>

\* The user's process dies.
Quit == cmd # Idle /\ cmd' = Idle /\ Fault /\ UNCHANGED <<guest, files, sweep, edits, quiet, wish>>

-----------------------------------------------------------------------------
(* Other writers of the menu, and Windows.                                 *)

\* Every launch, and setup, gives each app its launcher; doctor those not hidden.
Launchers(which) ==
  /\ menu' = menu \cup which
  /\ UNCHANGED <<guest, disc, user, gone, sweep, cmd, edits, faults, quiet, wish>>

GiveLaunchers == Launchers(Listed)
Repair == Launchers(Shown)

\* app install and app remove.
InstallApp(a) == a \in Listed /\ Launchers({a})
RemoveApp(a)  ==
  /\ Edit /\ menu' = menu \ {a}
  /\ UNCHANGED <<guest, disc, user, gone, sweep, cmd, faults, quiet, wish>>

\* Apps are installed, updated and removed in Windows, which always has some.
Change(a) ==
  /\ Edit /\ \E v \in 0 .. MaxVersion : guest' = [guest EXCEPT ![a] = v]
  /\ \E b \in Apps : guest'[b] # 0
  /\ UNCHANGED <<files, sweep, cmd, faults, quiet, wish>>

-----------------------------------------------------------------------------
Sweep(s) ==
  \/ Begin(s) \/ Scan(s) \/ Clear(s) \/ Fill(s) \/ Backfill(s) \/ Patch(s) \/ Prune(s)
  \/ List(s) \/ InstallEntries(s) \/ SyncEntries(s) \/ Register(s) \/ BringUp(s)
Command == WriteFlag \/ Sync \/ Unlist \/ Bury

QuietDown ==
  /\ ~quiet /\ cmd = Idle /\ quiet' = TRUE /\ edits' = 0 /\ faults' = 0
  /\ wish' = [a \in Apps |-> "none"]
  /\ UNCHANGED <<guest, files, sweep, cmd>>

CatalogNext ==
  \/ QuietDown
  \/ \E s \in Sweepers : Sweep(s) \/ Die(s)
  \/ Command \/ Quit \/ GiveLaunchers \/ Repair
  \/ \E a \in Edited :
       \/ Hide(a, "yes") \/ Hide(a, "no") \/ Delete(a) \/ Restore(a) \/ EditApp(a) \/ Reset(a)
       \/ InstallApp(a) \/ RemoveApp(a) \/ Change(a)

\* The monitor sweeps every six hours, and the user refreshes now and again:
\* nothing else removes launchers.  Nobody has to issue any other command.
CatalogSpec == CatalogInit /\ [][CatalogNext]_catalogVars
FairCatalog ==
  /\ CatalogSpec /\ SF_catalogVars(Sweep(Tray)) /\ SF_catalogVars(\E s \in Refreshers : Sweep(s))
  /\ WF_catalogVars(Command)

-----------------------------------------------------------------------------
\* "The flag is persisted to app.toml so the choice survives the next discovery
\* sweep": an app the user has hidden is hidden for as long as it has a profile,
\* however many sweeps rewrite it, unless a sweep was crossed or cut off in it.
HideKept == \A a \in Apps : wish[a] = "hide" /\ a \in Listed => Hidden(a)

\* The host comes to agree with the guest, whatever overlapped, failed or died:
\* no launcher without an app, no profile of an app that was deleted or is not
\* installed, and every other app is there, in the menu unless it is hidden.
Agrees(a) ==
  /\ a \in menu => a \in Listed
  /\ a \in gone \/ (guest[a] = 0 /\ a \notin Essential) => disc[a] = None
  /\ guest[a] # 0 /\ a \notin gone => IsProfile(a) /\ (a \in menu \/ Hidden(a))
Mirrored == []<>(quiet => \A a \in Apps : Agrees(a))

\* "We must preserve their choice across rediscovery": the same for an app that
\* the user has made visible against the denylist.
ChoiceKept == \A a \in Apps :
  wish[a] # "none" /\ a \in Listed => (Hidden(a) <=> wish[a] = "hide")
=============================================================================
