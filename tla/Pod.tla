-------------------------------- MODULE Pod --------------------------------
(***************************************************************************)
(* The pod as everyone handles it at once: launches that make it ready      *)
(* (core/provisioner.py), the idle monitor that pauses or stops it, or      *)
(* recreates it on a larger disk (core/daemon.py, core/disk.py), the tray   *)
(* that watches over it (desktop/tray.py), and the user's start, stop,      *)
(* suspend and resume.  They share nothing but the container; each acts on  *)
(* what an earlier probe of it has answered.  A probe that answers can be   *)
(* trusted; one that does not may have missed a pod that is well.           *)
(***************************************************************************)
CONSTANTS
  Clients,      \* processes that launch apps, a session each
  IdleActions   \* pod.idle_action: "pause" or "stop", or both to try either

ASSUME PodAssumption == IdleActions \subseteq {"pause", "stop"}

VARIABLES
  ctr,          \* the container; "stopped" when there is none
  win,          \* Windows in it: without RDP it is "booting", and "stuck" after the
                \* container's first _UNRESPONSIVE_UPTIME_FLOOR_SECS
  installing,   \* the marker of a running installation
  sess,         \* clients whose session is listed
  pc,           \* where a client is in ensure_ready and launch_app
  mon,          \* where the idle monitor is
  timer,        \* its idle_since
  known,        \* the tray's state_cache: its last state was UNRESPONSIVE
  recovering,   \* the tray's recovery_inflight
  young,        \* history: sessions opened since the listing it acts on, or grows on
  calm,         \* history: no session was listed for idle_timeout
  tried,        \* history: the tray has tried to recover since it last saw the pod well
  interrupted   \* history: RDP went down since the client's ensure_ready saw it answer

machine == <<ctr, win>>
monitor == <<mon, timer, young, calm>>
watch   == <<known, recovering, tried>>
vars    == <<machine, installing, sess, pc, monitor, watch, interrupted>>

Past   == {"rotate", "rotateFast", "recheck", "cycle", "revive", "restart", "ready"}
Places == {"idle", "wake", "resume", "awoken", "start", "up", "wait"} \cup Past

TypeOK ==
  /\ ctr \in {"stopped", "running", "paused"}
  /\ win \in {"off", "booting", "up", "stuck"}
  /\ ctr = "stopped" <=> win = "off"
  /\ installing \in BOOLEAN
  /\ sess \subseteq Clients /\ pc \in [Clients -> Places]
  /\ mon \in {"poll", "grow", "regrow", "act"} /\ timer \in {"none", "running", "due"}
  /\ young \subseteq Clients /\ calm \in BOOLEAN
  /\ known \in BOOLEAN /\ recovering \in BOOLEAN /\ tried \in BOOLEAN
  /\ interrupted \in [Clients -> BOOLEAN]

Init ==
  /\ ctr = "stopped" /\ win = "off"
  /\ installing \in BOOLEAN
  /\ sess = {} /\ pc = [c \in Clients |-> "idle"]
  /\ mon = "poll" /\ timer = "none" /\ young = {} /\ calm = FALSE
  /\ known = FALSE /\ recovering = FALSE /\ tried = FALSE
  /\ interrupted = [c \in Clients |-> FALSE]

-----------------------------------------------------------------------------
(* The container, as the runtime and the probes show it.                   *)

Answers == ctr = "running" /\ win = "up"

PodState ==
  CASE ctr = "stopped"            -> "stopped"
    [] ctr = "paused"              -> "paused"
    [] win = "up"                  -> "running"
    [] win = "booting"             -> "starting"
    [] win = "stuck"               -> "unresponsive"

\* compose up: what runs is left alone, and so is what is paused.
ComposeUp ==
  \/ UNCHANGED machine
  \/ /\ ctr = "stopped"
     /\ ctr' = "running" /\ win' = "booting"

\* compose stop: a failure is logged, and nobody is told.
ComposeStopOnly ==
  \/ UNCHANGED machine
  \/ ctr \in {"running", "paused"} /\ ctr' = "stopped" /\ UNCHANGED win

ComposeStop ==
  \/ UNCHANGED machine
  \/ /\ ctr \in {"running", "paused"}
     /\ ctr' = "stopped" /\ win' = "off"

Pause   == ctr = "running" /\ ctr' = "paused"  /\ UNCHANGED win
Unpause == ctr = "paused"  /\ ctr' = "running" /\ UNCHANGED win

\* TermService restarted by the agent: it helps a guest whose listener is stuck.
CycleService == /\ ctr = "running" /\ win \in {"up", "stuck"}
                /\ win' = "up" /\ UNCHANGED ctr

Boot == /\ ctr = "running" /\ win \in {"booting", "stuck"} /\ win' = "up"
        /\ UNCHANGED <<ctr, installing, sess, pc, monitor, watch>>
Stall == /\ Answers /\ win' = "stuck"
         /\ UNCHANGED <<ctr, installing, sess, pc, monitor, watch>>
Age == /\ ctr = "running" /\ win = "booting" /\ win' = "stuck"
       /\ UNCHANGED <<ctr, installing, sess, pc, monitor, watch>>
Install == /\ installing' = ~installing
           /\ UNCHANGED <<machine, sess, pc, monitor, watch>>

-----------------------------------------------------------------------------
(* ensure_ready and launch_app.  What raises ends at "idle".               *)

Goto(c, from, to) == pc[c] = from /\ pc' = [pc EXCEPT ![c] = to]
Elsewhere == UNCHANGED <<installing, sess, monitor, watch>>

Ask(c) ==
  /\ c \notin sess
  /\ \/ Answers /\ Goto(c, "idle", "rotateFast")
     \/ Goto(c, "idle", "wake")
  /\ UNCHANGED machine /\ Elsewhere

\* A preflight check, a rotation or the client itself has failed.
Fail(c) ==
  /\ \E from \in {"wake", "rotate", "rotateFast", "ready"} : Goto(c, from, "idle")
  /\ UNCHANGED machine /\ Elsewhere

\* ensure_pod_awake.  A probe that fails says that nothing is paused.
Wake(c) ==
  /\ \/ ctr = "paused" /\ Goto(c, "wake", "resume")
     \/ Goto(c, "wake", "start")
  /\ UNCHANGED machine /\ Elsewhere

Resume(c) ==
  /\ \/ Unpause /\ Goto(c, "resume", "awoken")
     \/ UNCHANGED machine /\ Goto(c, "resume", "idle")
  /\ Elsewhere

Awoken(c) ==
  /\ \/ ctr = "paused" /\ Goto(c, "awoken", "idle")
     \/ Goto(c, "awoken", "start")
  /\ UNCHANGED machine /\ Elsewhere

\* _ensure_pod_running.  A query that fails starts nothing.
Start(c) ==
  /\ \/ Answers /\ Goto(c, "start", "rotate")
     \/ PodState = "stopped" /\ Goto(c, "start", "up")
     \/ Goto(c, "start", "wait")
  /\ UNCHANGED machine /\ Elsewhere

Up(c) == ComposeUp /\ Goto(c, "up", "wait") /\ Elsewhere

WaitTcp(c) ==
  /\ ctr = "running" /\ Goto(c, "wait", "rotate")
  /\ UNCHANGED machine /\ Elsewhere

Wait(c) == Answers /\ Goto(c, "wait", "rotate") /\ UNCHANGED machine /\ Elsewhere

TimeOutNever(c) == c \notin Clients /\ UNCHANGED vars

TimeOut(c) == Goto(c, "wait", "idle") /\ UNCHANGED machine /\ Elsewhere

\* _auto_rotate_password: see Rotation.
Rotate(c) ==
  /\ \/ Goto(c, "rotate", "recheck")
     \/ Goto(c, "rotateFast", "ready")
  /\ UNCHANGED machine /\ Elsewhere

\* check_rdp_port may miss an RDP server that is there.
Recheck(c) ==
  /\ \/ (Answers \/ installing) /\ Goto(c, "recheck", "ready")
     \/ ~installing /\ Goto(c, "recheck", "cycle")
  /\ UNCHANGED machine /\ Elsewhere

\* try_recover_rdp
Cycle(c) ==
  /\ \/ CycleService /\ Goto(c, "cycle", "ready")
     \/ UNCHANGED machine /\ Goto(c, "cycle", "revive")
  /\ Elsewhere

\* recover_rdp_if_needed gives up when VNC is silent, too; its caller goes on anyway.
Revive(c) ==
  /\ \/ Goto(c, "revive", "ready")
     \/ ctr = "running" /\ Goto(c, "revive", "restart")
  /\ UNCHANGED machine /\ Elsewhere

Restart(c) ==
  /\ \/ UNCHANGED machine
     \/ ctr' = "running" /\ win' = "booting"
  /\ Goto(c, "restart", "ready") /\ Elsewhere

Open(c) ==
  /\ sess' = sess \cup {c}
  /\ young' = IF mon = "poll" THEN young ELSE young \cup {c}
  /\ UNCHANGED <<machine, installing, mon, timer, calm, watch>>

Launch(c) == Goto(c, "ready", "idle") /\ Open(c)

\* The tray's menu launches without ensure_ready.
TrayLaunch(c) == pc[c] = "idle" /\ c \notin sess /\ UNCHANGED pc /\ Open(c)

Close(c) == /\ c \in sess /\ sess' = sess \ {c} /\ young' = young \ {c}
            /\ UNCHANGED <<machine, installing, pc, mon, timer, calm, watch>>

-----------------------------------------------------------------------------
(* The user.                                                               *)

User == /\ ComposeUp \/ ComposeStop \/ Pause \/ Unpause
        /\ UNCHANGED <<installing, sess, pc, monitor, watch>>

-----------------------------------------------------------------------------
(* The tray's threads.                                                     *)

\* What a poll without sessions does about the timer.
RunTimer ==
  /\ timer' = IF timer = "none" THEN "running" ELSE timer
  /\ mon' = IF timer = "due" THEN "act" ELSE "poll"
  /\ young' = IF timer = "due" THEN young ELSE {}

Others == UNCHANGED <<installing, sess, pc, watch>>

\* Mutant: a session does not reset the timer.
PollOn ==
  /\ mon = "poll"
  /\ \/ sess # {} /\ calm' = FALSE /\ UNCHANGED <<mon, timer, young>>
     \/ sess = {} /\ UNCHANGED calm /\ RunTimer
     \/ sess = {} /\ ctr = "running" /\ mon' = "grow" /\ UNCHANGED <<timer, calm, young>>
  /\ UNCHANGED machine /\ Others

\* One turn of run_idle_monitor.  maybe_autogrow, with disk_autogrow and from time to
\* time, asks a pod that runs how full its disk is, and grows one that is full enough.
Poll ==
  /\ mon = "poll"
  /\ \/ sess # {} /\ timer' = "none" /\ calm' = FALSE /\ UNCHANGED <<mon, young>>
     \/ sess = {} /\ UNCHANGED calm /\ RunTimer
     \/ sess = {} /\ ctr = "running" /\ mon' = "grow" /\ UNCHANGED <<timer, calm, young>>
  /\ UNCHANGED machine /\ Others

\* grow_disk stops the pod, however recently somebody came, ...
GrowStop ==
  /\ mon = "grow" /\ mon' = "regrow"
  /\ ComposeStop
  /\ UNCHANGED <<timer, calm, young>> /\ Others

\* ... and starts it from a new compose file, which recreates what runs from the old
\* one, and the timer anew, once the guest is back or 600 s are over.  A DiskError,
\* here or before the stop, leaves the turn to the timer.
GrowStart ==
  /\ mon = "regrow"
  /\ ctr' = "running" /\ win' = "booting"
  /\ mon' = "poll" /\ timer' = "none" /\ calm' = FALSE /\ young' = {}
  /\ Others

GrowFails == mon \in {"grow", "regrow"} /\ RunTimer /\ UNCHANGED <<machine, calm>> /\ Others

Elapse ==
  /\ timer = "running" /\ timer' = "due" /\ calm' = TRUE
  /\ UNCHANGED <<machine, installing, sess, pc, mon, young, watch>>

\* _apply_idle_action
Act ==
  /\ mon = "act" /\ mon' = "poll" /\ timer' = "none" /\ young' = {} /\ calm' = FALSE
  /\ \/ UNCHANGED machine
     \/ "pause" \in IdleActions /\ Pause
     \/ "stop" \in IdleActions /\ PodState = "running" /\ ComposeStop
  /\ UNCHANGED <<installing, sess, pc, watch>>

\* The state that a query may show.
Seen == {PodState} \cup IF Answers THEN {"unresponsive"} ELSE {}

Observe(state, took) ==
  IF state = "unresponsive"
  THEN IF installing THEN known' = FALSE /\ UNCHANGED <<recovering, tried>> ELSE took
  ELSE known' = FALSE /\ tried' = FALSE /\ UNCHANGED recovering

\* Mutant: the state is noted while a recovery runs that cannot be started again.
TickBusy ==
  /\ \E s \in Seen :
       Observe(s, /\ known' = TRUE
                  /\ recovering' = (recovering \/ ~known)
                  /\ tried' = (tried \/ ~(known \/ recovering)))
  /\ UNCHANGED <<machine, installing, sess, pc, monitor>>

\* refresh_status
Tick ==
  /\ \E s \in Seen :
       Observe(s, /\ ~recovering /\ known' = TRUE
                  /\ recovering' = ~known /\ tried' = (tried \/ ~known))
  /\ UNCHANGED <<machine, installing, sess, pc, monitor>>

\* A query that fails: the pod passes for stopped, or for one that boots.
TickFails ==
  /\ PodState = "unresponsive" /\ known' = FALSE /\ tried' = FALSE
  /\ UNCHANGED <<machine, installing, sess, pc, monitor, recovering>>

\* The recovery worker.
Worker ==
  /\ recovering /\ recovering' = FALSE
  /\ UNCHANGED machine \/ CycleService
  /\ known' = (known /\ ~installing)
  /\ UNCHANGED <<installing, sess, pc, monitor, tried>>

-----------------------------------------------------------------------------
Client(c) ==
  \/ Fail(c) \/ Wake(c) \/ Resume(c) \/ Awoken(c) \/ Start(c) \/ Up(c) \/ Wait(c)
  \/ TimeOut(c) \/ Rotate(c) \/ Recheck(c) \/ Cycle(c) \/ Revive(c) \/ Restart(c)
  \/ Launch(c)

Step ==
  \/ \E c \in Clients : Client(c) \/ Ask(c) \/ TrayLaunch(c) \/ Close(c)
  \/ Poll \/ GrowStop \/ GrowStart \/ GrowFails \/ Elapse \/ Act
  \/ Tick \/ TickFails \/ Worker
  \/ User \/ Boot \/ Stall \/ Age \/ Install

Track ==
  interrupted' = [c \in Clients |->
    pc[c] \in Past /\ pc'[c] \in Past /\ (interrupted[c] \/ (Answers /\ ~Answers'))]

Next == Step /\ Track

Spec == Init /\ [][Next]_vars

FairSpec ==
  /\ Spec /\ WF_vars(Tick /\ Track) /\ WF_vars(Worker /\ Track)
  /\ \A c \in Clients : WF_vars(Client(c) /\ Track)

-----------------------------------------------------------------------------
(* Properties.                                                             *)

\* A launch that ensure_ready lets through finds RDP answering, unless RDP went down
\* after ensure_ready had seen it answer, by its own restart of the container or by
\* another hand.  Each place past the probes is covered, whichever way a launch came.
HandedOver ==
  \A c \in Clients :
    ~interrupted[c] /\ pc[c] \in Past => Answers

\* The idle monitor pauses or stops the pod only after a timeout without sessions; and
\* every session that this, or the growth of a disk, takes the pod from has come since
\* the monitor's last look.  (daemon.py:254-255 and disk.py:521-523 say that a growth
\* "never interrupts a live RemoteApp session"; those that come after the look it does.)
IdleOnly ==
  [][/\ mon = "act" /\ mon' # "act" => calm
     /\ mon \in {"act", "grow", "regrow"} /\ mon' # mon => sess \subseteq young]_vars

\* Every call of ensure_ready comes to an end, whatever the others do meanwhile.
Served == \A c \in Clients : []<>(pc[c] = "idle")

\* The tray does not leave an outage without an attempt at recovery since it last saw the
\* pod well, though an earlier attempt may still run when the outage begins.
Attended == []<>(PodState # "unresponsive" \/ installing \/ tried)
=============================================================================
