------------------------------ MODULE Rotation ------------------------------
(***************************************************************************)
(* Password rotation: core/rotation/__init__.py and its two callers,       *)
(* provisioner.ensure_ready and `winpodx rotate-password`, together with   *)
(* the rescue command `winpodx guest sync-password`.                       *)
(*                                                                         *)
(* One password lives in three places: the Windows account in the guest,   *)
(* winpodx.toml and compose.yaml.  A rotation changes them one after the   *)
(* other behind a marker file that holds the old and the new password; a   *)
(* later launch that finds the marker asks the guest which of the two it   *)
(* accepts and converges on that one.                                      *)
(*                                                                         *)
(* Every host process is a sequential program over its own copy of the     *)
(* configuration; every step below is one file operation or one command    *)
(* sent to the guest, and may fail or be cut short.                        *)
(***************************************************************************)
EXTENDS Naturals

CONSTANTS
  Procs,         \* host processes that run winpodx commands
  Overlap,       \* TRUE: commands may run at the same time (there is no lock)
  Commands,      \* which of "ready", "rotate" and "sync" are run
  MaxPasswords,  \* bound: passwords ever generated
  MaxFaults      \* bound: crashes, failed writes, lost replies

ASSUME ConstantsAssumption ==
  /\ Overlap \in BOOLEAN
  /\ Commands \subseteq {"ready", "rotate", "sync"}
  /\ MaxPasswords \in Nat
  /\ MaxFaults \in Nat

VARIABLES
  guest,     \* the password the Windows account accepts
  conf,      \* winpodx.toml: password, and whether password_max_age has passed
  comp,      \* the password in compose.yaml
  marker,    \* the .rotation_pending file
  fresh,     \* the next password generate_password returns
  pc,        \* where each process is
  cmd,       \* the command each process runs
  mem,       \* its Config object
  old,       \* old_password, old_updated of its rotation
  new,       \* the password it rotates to, or the candidate it verifies
  faults     \* failures so far

files  == <<conf, comp, marker>>
locals == <<cmd, mem, old, new>>
vars   == <<guest, conf, comp, marker, fresh, pc, cmd, mem, old, new, faults>>

Password == 0 .. MaxPasswords + 1
Config   == [pw : Password, due : BOOLEAN]
Marker   == [old : Password, new : Password]
NoMarker == [none |-> TRUE]

Labels == {"idle", "check", "verifyNew", "verifyOld", "recSave", "recCompose",
           "recClear", "gate", "begin", "mark", "change", "unmark", "verify",
           "save", "replace", "clear", "undoGuest", "undoSave", "undoCompose",
           "undoClear", "sync", "done"}

TypeOK ==
  /\ guest \in Password
  /\ conf \in Config
  /\ comp \in Password
  /\ marker \in Marker \cup {NoMarker}
  /\ fresh \in Password
  /\ pc \in [Procs -> Labels]
  /\ cmd \in [Procs -> {"ready", "rotate", "sync"}]
  /\ mem \in [Procs -> Config]
  /\ old \in [Procs -> Config]
  /\ new \in [Procs -> Password]
  /\ faults \in Nat

\* A finished set-up: the three copies agree and nothing is pending.
Init ==
  /\ guest = 0
  /\ conf = [pw |-> 0, due |-> FALSE]
  /\ comp = 0
  /\ marker = NoMarker
  /\ fresh = 1
  /\ pc = [p \in Procs |-> "idle"]
  /\ cmd = [p \in Procs |-> "ready"]
  /\ mem = [p \in Procs |-> [pw |-> 0, due |-> FALSE]]
  /\ old = [p \in Procs |-> [pw |-> 0, due |-> FALSE]]
  /\ new = [p \in Procs |-> 0]
  /\ faults = 0

-----------------------------------------------------------------------------
Pending == marker # NoMarker

Goto(p, l) == pc' = [pc EXCEPT ![p] = l]
At(p, l)   == pc[p] = l
Step(p, from, to) == At(p, from) /\ Goto(p, to)

NoFault == UNCHANGED faults
Fault   == faults < MaxFaults /\ faults' = faults + 1

\* rotate_password returned False: ensure_ready goes on with the launch, the
\* CLI command reports the failure and exits.
GiveUp(p, from) ==
  Step(p, from, IF cmd[p] = "ready" THEN "done" ELSE "idle")

\* RotationError, or KeyboardInterrupt: the command ends, the marker stays.
Abort(p, from) == Step(p, from, "idle")

-----------------------------------------------------------------------------
(* Commands sent to the guest.                                             *)

\* The guest ran `net user` and the reply arrived.
Applied(w) == guest' = w /\ NoFault

\* The guest refused, or the agent's token did: the account is unchanged.
Refused == UNCHANGED guest /\ Fault

\* The reply is lost or late (TransportError, rc 124, WindowsExecError, Ctrl-C
\* or a crash while waiting): the command ran or it never will.
Unknown(w) == guest' \in {guest, w} /\ Fault

\* LogonUser accepts only the account's password.  A wrong one is rejected by
\* the agent path and fails on the FreeRDP path; the right one may also be
\* rejected or go unanswered.
Accepted(w)    == w = guest /\ NoFault
NotAccepted(w) == IF w = guest THEN Fault ELSE NoFault

-----------------------------------------------------------------------------
(* Entry points.                                                           *)

MayBegin(p) ==
  /\ At(p, "idle")
  /\ Overlap \/ \A q \in Procs : pc[q] = "idle"

\* Config.load, then one of: ensure_ready, handle_rotate_password (it requires
\* a running pod), _sync_password.
Begin(p, c) ==
  /\ MayBegin(p)
  /\ cmd' = [cmd EXCEPT ![p] = c]
  /\ mem' = [mem EXCEPT ![p] = conf]
  /\ Goto(p, CASE c = "ready" -> "check" [] c = "rotate" -> "begin" [] OTHER -> "sync")
  /\ UNCHANGED <<guest, files, fresh, old, new, faults>>

\* _sync_password: `net user` with the password of the configuration.  The
\* script does not look at its exit code, so a refusal is reported as success.
SyncPassword(p) ==
  /\ Step(p, "sync", "idle")
  /\ Applied(mem[p].pw) \/ Refused \/ Unknown(mem[p].pw)
  /\ UNCHANGED <<files, fresh, locals>>

\* _auto_rotate_password looks for the marker; an unreadable one is an error.
CheckMarker(p) ==
  /\ \/ ~Pending /\ Step(p, "check", "gate") /\ NoFault /\ UNCHANGED <<old, new>>
     \/ /\ Pending
        /\ Step(p, "check", "verifyNew")
        /\ old' = [old EXCEPT ![p] = [pw |-> marker.old, due |-> FALSE]]
        /\ new' = [new EXCEPT ![p] = marker.new]
        /\ NoFault
     \/ Pending /\ Abort(p, "check") /\ Fault /\ UNCHANGED <<old, new>>
  /\ UNCHANGED <<guest, files, fresh, cmd, mem>>

-----------------------------------------------------------------------------
(* _recover_pending_rotation                                               *)

\* Mutant: a candidate the guest does not accept ends the recovery.
VerifyNewOnly(p) ==
  /\ \/ /\ Accepted(new[p])
        /\ Step(p, "verifyNew", "recSave")
        /\ mem' = [mem EXCEPT ![p] = [pw |-> new[p], due |-> FALSE]]
     \/ NotAccepted(new[p]) /\ Abort(p, "verifyNew") /\ UNCHANGED mem
  /\ UNCHANGED <<guest, files, fresh, cmd, old, new>>

\* The candidate is tried first; an unanswered check counts as a rejection.
VerifyNew(p) ==
  /\ \/ /\ Accepted(new[p])
        /\ Step(p, "verifyNew", "recSave")
        /\ mem' = [mem EXCEPT ![p] = [pw |-> new[p], due |-> FALSE]]
     \/ /\ NotAccepted(new[p])
        /\ Step(p, "verifyNew", "verifyOld")
        /\ UNCHANGED mem
  /\ UNCHANGED <<guest, files, fresh, cmd, old, new>>

\* Mutant: if it is not the candidate, it must be the old one.
AssumeOld(p) ==
  /\ Step(p, "verifyOld", "recSave")
  /\ mem' = [mem EXCEPT ![p] = [pw |-> old[p].pw, due |-> FALSE]]
  /\ UNCHANGED <<guest, files, fresh, cmd, old, new, faults>>

VerifyOld(p) ==
  /\ \/ /\ Accepted(old[p].pw)
        /\ Step(p, "verifyOld", "recSave")
        /\ mem' = [mem EXCEPT ![p] = [pw |-> old[p].pw, due |-> FALSE]]
     \/ /\ NotAccepted(old[p].pw)
        /\ Abort(p, "verifyOld")
        /\ UNCHANGED mem
  /\ UNCHANGED <<guest, files, fresh, cmd, old, new>>

RecoverSave(p) ==
  /\ \/ Step(p, "recSave", "recCompose") /\ conf' = mem[p] /\ NoFault
     \/ Abort(p, "recSave") /\ UNCHANGED conf /\ Fault
  /\ UNCHANGED <<guest, comp, marker, fresh, locals>>

RecoverCompose(p) ==
  /\ \/ Step(p, "recCompose", "recClear") /\ comp' = mem[p].pw /\ NoFault
     \/ Abort(p, "recCompose") /\ UNCHANGED comp /\ Fault
  /\ UNCHANGED <<guest, conf, marker, fresh, locals>>

RecoverClear(p) ==
  /\ \/ Step(p, "recClear", "gate") /\ marker' = NoMarker /\ NoFault
     \/ Abort(p, "recClear") /\ UNCHANGED marker /\ Fault
  /\ UNCHANGED <<guest, conf, comp, fresh, locals>>

\* The gates of _auto_rotate_password: the age of the password, the state of
\* the pod.
Gate(p) ==
  /\ \/ mem[p].due /\ Step(p, "gate", "begin")
     \/ Step(p, "gate", "done")
  /\ UNCHANGED <<guest, files, fresh, locals, faults>>

-----------------------------------------------------------------------------
(* rotate_password                                                         *)

\* A pending marker is refused; otherwise the candidate compose file is
\* written beside the real one, or the rotation is given up.
BeginRotation(p) ==
  /\ \/ /\ Pending
        /\ Abort(p, "begin")
        /\ UNCHANGED <<fresh, old, new>> /\ NoFault
     \/ /\ ~Pending
        /\ fresh <= MaxPasswords
        /\ Step(p, "begin", "mark")
        /\ old' = [old EXCEPT ![p] = mem[p]]
        /\ new' = [new EXCEPT ![p] = fresh]
        /\ fresh' = fresh + 1
        /\ NoFault
     \/ /\ ~Pending
        /\ GiveUp(p, "begin")
        /\ IF fresh <= MaxPasswords THEN Fault ELSE NoFault
        /\ UNCHANGED <<fresh, old, new>>
  /\ UNCHANGED <<guest, files, cmd, mem>>

\* Mutant: the marker holds the new password only.
MarkNewOnly(p) ==
  /\ Step(p, "mark", "change")
  /\ marker' = [new |-> new[p]]
  /\ UNCHANGED <<guest, conf, comp, fresh, locals, faults>>

\* _mark_rotation_pending: the marker is replaced atomically.
MarkPending(p) ==
  /\ \/ /\ Step(p, "mark", "change")
        /\ marker' = [old |-> old[p].pw, new |-> new[p]]
        /\ NoFault
     \/ GiveUp(p, "mark") /\ UNCHANGED marker /\ Fault
  /\ UNCHANGED <<guest, conf, comp, fresh, locals>>

\* Mutant: a lost reply is taken for a refusal.
ChangeOrFail(p) ==
  /\ \/ Step(p, "change", "verify") /\ Applied(new[p])
     \/ Step(p, "change", "unmark") /\ Unknown(new[p])
  /\ UNCHANGED <<files, fresh, locals>>

ChangeGuest(p) ==
  /\ \/ Step(p, "change", "verify") /\ Applied(new[p])
     \/ Step(p, "change", "unmark") /\ Refused
     \/ Abort(p, "change") /\ Unknown(new[p])
  /\ UNCHANGED <<files, fresh, locals>>

\* The result of clearing the marker is ignored here.
Unmark(p) ==
  /\ GiveUp(p, "unmark")
  /\ \/ marker' = NoMarker /\ NoFault
     \/ UNCHANGED marker /\ Fault
  /\ UNCHANGED <<guest, conf, comp, fresh, locals>>

VerifyCandidate(p) ==
  /\ \/ Step(p, "verify", "save") /\ Accepted(new[p])
     \/ (Step(p, "verify", "undoGuest") \/ Abort(p, "verify")) /\ NotAccepted(new[p])
  /\ UNCHANGED <<guest, files, fresh, locals>>

\* cfg.save: an OSError leaves the file alone, Ctrl-C may come after the write.
SaveConfig(p) ==
  /\ mem' = [mem EXCEPT ![p] = [pw |-> new[p], due |-> FALSE]]
  /\ \/ Step(p, "save", "replace") /\ conf' = mem'[p] /\ NoFault
     \/ Step(p, "save", "undoGuest") /\ conf' \in {conf, mem'[p]} /\ Fault
  /\ UNCHANGED <<guest, comp, marker, fresh, cmd, old, new>>

ReplaceCompose(p) ==
  /\ \/ Step(p, "replace", "clear") /\ comp' = new[p] /\ NoFault
     \/ Step(p, "replace", "undoGuest") /\ comp' \in {comp, new[p]} /\ Fault
  /\ UNCHANGED <<guest, conf, marker, fresh, locals>>

ClearMarker(p) ==
  /\ \/ GiveUp(p, "clear") /\ marker' = NoMarker /\ NoFault
     \/ Abort(p, "clear") /\ UNCHANGED marker /\ Fault
  /\ UNCHANGED <<guest, conf, comp, fresh, locals>>

-----------------------------------------------------------------------------
(* _restore_password_rotation                                              *)

\* Mutant: the rollback forgets the Config object.
UndoGuestOnly(p) ==
  /\ \/ Step(p, "undoGuest", "undoSave") /\ Applied(old[p].pw)
     \/ Abort(p, "undoGuest") /\ (Refused \/ Unknown(old[p].pw))
  /\ UNCHANGED <<files, fresh, locals>>

UndoGuest(p) ==
  /\ \/ /\ Step(p, "undoGuest", "undoSave")
        /\ Applied(old[p].pw)
        /\ mem' = [mem EXCEPT ![p] = old[p]]
     \/ Abort(p, "undoGuest") /\ (Refused \/ Unknown(old[p].pw)) /\ UNCHANGED mem
  /\ UNCHANGED <<files, fresh, cmd, old, new>>

\* A failed save does not stop the rewrite of compose.yaml, but the marker
\* then stays.
UndoSave(p) ==
  /\ At(p, "undoSave")
  /\ \/ Goto(p, "undoCompose") /\ conf' = mem[p] /\ UNCHANGED comp /\ NoFault
     \/ Goto(p, "idle") /\ UNCHANGED conf /\ comp' \in {comp, mem[p].pw} /\ Fault
  /\ UNCHANGED <<guest, marker, fresh, locals>>

UndoCompose(p) ==
  /\ \/ Step(p, "undoCompose", "undoClear") /\ comp' = mem[p].pw /\ NoFault
     \/ Abort(p, "undoCompose") /\ UNCHANGED comp /\ Fault
  /\ UNCHANGED <<guest, conf, marker, fresh, locals>>

UndoClear(p) ==
  /\ \/ GiveUp(p, "undoClear") /\ marker' = NoMarker /\ NoFault
     \/ Abort(p, "undoClear") /\ UNCHANGED marker /\ Fault
  /\ UNCHANGED <<guest, conf, comp, fresh, locals>>

-----------------------------------------------------------------------------
\* ensure_ready returned its Config: the caller logs in with it.
Launch(p) ==
  /\ Step(p, "done", "idle")
  /\ UNCHANGED <<guest, files, fresh, locals, faults>>

Crash(p) ==
  /\ pc[p] # "idle"
  /\ Goto(p, "idle")
  /\ Fault
  /\ UNCHANGED <<guest, files, fresh, locals>>

\* password_max_age days have passed since password_updated.
PasswordAges ==
  /\ ~conf.due
  /\ conf' = [conf EXCEPT !.due = TRUE]
  /\ UNCHANGED <<guest, comp, marker, fresh, pc, locals, faults>>

Recovery(p) ==
  \/ VerifyNew(p) \/ VerifyOld(p)
  \/ RecoverSave(p) \/ RecoverCompose(p) \/ RecoverClear(p)

Rotate(p) ==
  \/ BeginRotation(p) \/ MarkPending(p) \/ ChangeGuest(p) \/ Unmark(p)
  \/ VerifyCandidate(p) \/ SaveConfig(p) \/ ReplaceCompose(p) \/ ClearMarker(p)

Undo(p) == UndoGuest(p) \/ UndoSave(p) \/ UndoCompose(p) \/ UndoClear(p)

Run(p) ==
  \/ SyncPassword(p) \/ CheckMarker(p) \/ Gate(p) \/ Launch(p)
  \/ Recovery(p) \/ Rotate(p) \/ Undo(p)

Next ==
  \/ \E p \in Procs : Run(p) \/ Crash(p) \/ \E c \in Commands : Begin(p, c)
  \/ PasswordAges

Spec == Init /\ [][Next]_vars

\* A command runs on until it ends, and whatever else is run, the user launches
\* an app again and again.
Fairness == \A p \in Procs : WF_vars(Run(p)) /\ SF_vars(Begin(p, "ready"))

FairSpec == Spec /\ Fairness

-----------------------------------------------------------------------------
(* What the marker protocol promises.                                      *)

\* Nothing pending means nothing to recover: the account, winpodx.toml and
\* compose.yaml hold the same password ("rotate guest, config, and compose
\* credentials as one transaction").
SettledAgrees ==
  ~Pending => guest = conf.pw /\ comp = conf.pw

\* The least of it, however commands overlap: once they have all ended with no
\* rotation pending, the password on record logs in.
RestLogsIn ==
  (\A p \in Procs : pc[p] = "idle") /\ ~Pending => conf.pw = guest

\* While a rotation is pending, the password the account accepts is one of the
\* two in the marker, so that recovery can find it; so are both host copies.
MarkerCovers ==
  Pending => {guest, conf.pw, comp} \subseteq {marker.old, marker.new}

\* The Config that ensure_ready hands to the launch logs in.
LaunchLogsIn ==
  \A p \in Procs : At(p, "done") /\ cmd[p] = "ready" => mem[p].pw = guest

\* A marker is never replaced by another: the passwords of an unresolved
\* rotation are not forgotten.
MarkerKept ==
  [][Pending => marker' \in {marker, NoMarker}]_vars

\* The account changes only behind a marker that names its new password.
WriteAhead ==
  [][guest' # guest => Pending /\ guest' \in {marker.old, marker.new}]_vars

\* A pending rotation is resolved in the end: recovery does not get stuck.
PendingResolves == Pending ~> ~Pending
-----------------------------------------------------------------------------
(* Refinement: the marker, or else winpodx.toml, is the host's record.      *)

Window == IF Pending THEN {marker.old, marker.new} ELSE {conf.pw}

C == INSTANCE Credential WITH inForce <- guest, window <- Window

\* The marker protocol implements Credential: a new password is on record
\* before the account can have it, and the record only shrinks to the password
\* the account accepts, whatever fails in between.
RefinesCredential == C!Spec
=============================================================================
