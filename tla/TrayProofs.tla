----------------------------- MODULE TrayProofs -----------------------------
(***************************************************************************)
(* What runs beside the tray.  First, what holds of launches, the idle      *)
(* monitor and the tray around one pod, for any number of clients; then, of *)
(* the list of Windows apps under the tray's sweeps, anybody's refreshes    *)
(* and the user's commands, for any number of apps and sweepers.  The two   *)
(* models share no variable: Spec is the pod's, CatalogSpec the list's.     *)
(***************************************************************************)
EXTENDS Pod, Catalog, TLAPS

\* The idle monitor's clock and what it has looked at, with what the history knows.
Clock ==
  /\ timer = "due" => calm
  /\ mon = "act" => timer = "due"
  /\ mon # "poll" => sess \subseteq young

\* A step of a client moves nobody else.
LEMMA GotoMoves ==
  ASSUME TypeOK, NEW c \in Clients, NEW from, NEW to \in Places, Goto(c, from, to)
  PROVE  /\ pc[c] = from /\ pc'[c] = to /\ pc' \in [Clients -> Places]
         /\ \A d \in Clients \ {c} : pc'[d] = pc[d]
  BY DEF Goto, TypeOK

\* The runtime's operations keep the container and Windows in step.
LEMMA MachineTyped ==
  ASSUME TypeOK,
         \/ UNCHANGED machine \/ ComposeUp \/ ComposeStop \/ Pause \/ Unpause \/ CycleService
         \/ ctr' = "running" /\ win' = "booting"
  PROVE  /\ ctr' \in {"stopped", "running", "paused"}
         /\ win' \in {"off", "booting", "up", "stuck"}
         /\ ctr' = "stopped" <=> win' = "off"
  BY DEF TypeOK, machine, ComposeUp, ComposeStop, Pause, Unpause, CycleService

\* A launch gets past the probes with RDP answering, or was past them before.
LEMMA ClientMoves ==
  ASSUME TypeOK, NEW c \in Clients, Client(c) \/ Ask(c)
  PROVE  /\ pc' \in [Clients -> Places]
         /\ \A d \in Clients \ {c} : pc'[d] = pc[d]
         /\ pc'[c] \in Past => pc[c] \in Past \/ (Answers /\ UNCHANGED machine)
  <1> USE DEF Places, Past
  <1>1. CASE Ask(c)
    BY <1>1, GotoMoves, SMTT(30) DEF Ask
  <1>2. CASE Fail(c) \/ Wake(c) \/ Resume(c) \/ Awoken(c)
    BY <1>2, GotoMoves, SMTT(30) DEF Fail, Wake, Resume, Awoken
  <1>3. CASE Start(c) \/ Up(c) \/ Wait(c) \/ TimeOut(c)
    BY <1>3, GotoMoves, SMTT(30) DEF Start, Up, Wait, TimeOut
  <1>4. CASE Rotate(c) \/ Recheck(c)
    BY <1>4, GotoMoves, SMTT(30) DEF Rotate, Recheck
  <1>5. CASE Cycle(c) \/ Revive(c) \/ Restart(c) \/ Launch(c)
    BY <1>5, GotoMoves, SMTT(30) DEF Cycle, Revive, Restart, Launch
  <1> QED BY <1>1, <1>2, <1>3, <1>4, <1>5 DEF Client

\* A launch changes the machine through the runtime and, when it ends, the list of
\* sessions; the tray's state is none of its business.
LEMMA ClientTouches ==
  ASSUME TypeOK, NEW c \in Clients, Client(c) \/ Ask(c)
  PROVE  /\ \/ UNCHANGED machine \/ ComposeUp \/ Unpause \/ CycleService
            \/ ctr' = "running" /\ win' = "booting"
         /\ UNCHANGED <<installing, watch, mon, timer, calm>>
         /\ UNCHANGED <<sess, young>> \/ Open(c)
  <1> USE DEF Elsewhere, monitor, watch
  <1>1. CASE Ask(c)
    BY <1>1 DEF Ask
  <1>2. CASE Fail(c) \/ Wake(c) \/ Resume(c) \/ Awoken(c)
    BY <1>2 DEF Fail, Wake, Resume, Awoken
  <1>3. CASE Start(c) \/ Up(c) \/ Wait(c) \/ TimeOut(c)
    BY <1>3 DEF Start, Up, Wait, TimeOut
  <1>4. CASE Rotate(c) \/ Recheck(c)
    BY <1>4 DEF Rotate, Recheck
  <1>5. CASE Cycle(c) \/ Revive(c) \/ Restart(c) \/ Launch(c)
    BY <1>5 DEF Cycle, Revive, Restart, Launch, Open
  <1> QED BY <1>1, <1>2, <1>3, <1>4, <1>5 DEF Client

-----------------------------------------------------------------------------
LEMMA InitTyped == Init => TypeOK /\ Clock /\ HandedOver
  BY DEF Init, TypeOK, Places, Past, Clock, HandedOver

LEMMA TrackTyped ==
  ASSUME TypeOK, Track
  PROVE  interrupted' \in [Clients -> BOOLEAN]
  BY Zenon DEF Track, TypeOK

LEMMA StepTyped == TypeOK /\ [Next]_vars => TypeOK'
  <1> SUFFICES ASSUME TypeOK, [Next]_vars PROVE TypeOK'
    OBVIOUS
  <1>1. CASE UNCHANGED vars
    BY <1>1 DEF TypeOK, vars, machine, monitor, watch
  <1>2. CASE Next
    <2>0. interrupted' \in [Clients -> BOOLEAN]
      BY <1>2, TrackTyped DEF Next
    <2>1. ASSUME NEW c \in Clients, Client(c) \/ Ask(c) PROVE TypeOK'
      <3>1. pc' \in [Clients -> Places]
        BY <2>1, ClientMoves
      <3>2. /\ UNCHANGED <<installing, recovering, known, tried, mon, timer, calm>>
            /\ sess' \subseteq Clients /\ young' \subseteq Clients
        BY <2>1, ClientTouches DEF Open, watch, TypeOK
      <3>3. /\ ctr' \in {"stopped", "running", "paused"}
            /\ win' \in {"off", "booting", "up", "stuck"}
            /\ ctr' = "stopped" <=> win' = "off"
        BY <2>1, ClientTouches, MachineTyped
      <3> QED BY <2>0, <3>1, <3>2, <3>3 DEF TypeOK
    <2>2. ASSUME NEW c \in Clients, TrayLaunch(c) \/ Close(c) PROVE TypeOK'
      BY <2>0, <2>2 DEF TrayLaunch, Close, Open, TypeOK, machine, monitor, watch
    <2>3. CASE Poll \/ GrowFails \/ Elapse
      <3>1. UNCHANGED <<ctr, win, installing, sess, pc, known, recovering, tried>>
        BY <2>3 DEF Poll, GrowFails, Others, Elapse, machine, watch
      <3>2. CASE Poll
        <4>1. mon' \in {"poll", "act", "grow"} /\ timer' \in {"none", "running", "due"}
          BY <3>2 DEF Poll, RunTimer, TypeOK
        <4>2. young' \subseteq Clients /\ calm' \in BOOLEAN
          <5>1. young' \in {young, {}} /\ calm' \in {calm, FALSE}
            BY <3>2 DEF Poll, RunTimer
          <5> QED BY <5>1 DEF TypeOK
        <4> QED BY <2>0, <3>1, <4>1, <4>2 DEF TypeOK
      <3>3. CASE GrowFails
        BY <2>0, <3>1, <3>3 DEF GrowFails, RunTimer, TypeOK
      <3>4. CASE Elapse
        BY <2>0, <3>1, <3>4 DEF Elapse, TypeOK
      <3> QED BY <2>3, <3>2, <3>3, <3>4
    <2>4. CASE Act
      <3>1. /\ ctr' \in {"stopped", "running", "paused"}
            /\ win' \in {"off", "booting", "up", "stuck"}
            /\ ctr' = "stopped" <=> win' = "off"
        BY <2>4, MachineTyped DEF Act
      <3> QED BY <2>0, <2>4, <3>1 DEF Act, TypeOK, watch
    <2>5. CASE Tick \/ TickFails
      BY <2>0, <2>5 DEF Tick, TickFails, Observe, TypeOK, machine, monitor
    <2>6. CASE Worker
      <3>1. /\ ctr' \in {"stopped", "running", "paused"}
            /\ win' \in {"off", "booting", "up", "stuck"}
            /\ ctr' = "stopped" <=> win' = "off"
        BY <2>6, MachineTyped DEF Worker
      <3> QED BY <2>0, <2>6, <3>1 DEF Worker, TypeOK, monitor
    <2>7. CASE User
      <3>1. /\ ctr' \in {"stopped", "running", "paused"}
            /\ win' \in {"off", "booting", "up", "stuck"}
            /\ ctr' = "stopped" <=> win' = "off"
        BY <2>7, MachineTyped DEF User
      <3> QED BY <2>0, <2>7, <3>1 DEF User, TypeOK, monitor, watch
    <2>8. CASE Boot \/ Stall \/ Age \/ Install
      <3>1. /\ UNCHANGED <<sess, pc, mon, timer, young, calm, known, recovering, tried>>
            /\ installing' \in BOOLEAN
        BY <2>8 DEF Boot, Stall, Age, Install, TypeOK, monitor, watch
      <3>2. /\ ctr' \in {"stopped", "running", "paused"}
            /\ win' \in {"off", "booting", "up", "stuck"}
            /\ ctr' = "stopped" <=> win' = "off"
        BY <2>8 DEF Boot, Stall, Age, Install, Answers, TypeOK, machine
      <3> QED BY <2>0, <3>1, <3>2 DEF TypeOK
    <2>9. CASE GrowStop \/ GrowStart
      <3>1. /\ ctr' \in {"stopped", "running", "paused"}
            /\ win' \in {"off", "booting", "up", "stuck"}
            /\ ctr' = "stopped" <=> win' = "off"
        BY <2>9, MachineTyped DEF GrowStop, GrowStart
      <3> QED BY <2>0, <2>9, <3>1 DEF GrowStop, GrowStart, Others, TypeOK, watch
    <2> QED BY <1>2, <2>1, <2>2, <2>3, <2>4, <2>5, <2>6, <2>7, <2>8, <2>9 DEF Next, Step
  <1> QED BY <1>1, <1>2

\* The pod's model keeps its types: the container and Windows go up and down together,
\* whoever starts, pauses, stops or repairs them, for any number of clients.
THEOREM TypeCorrect == Spec => []TypeOK
  <1>1. Init => TypeOK
    BY InitTyped
  <1> QED BY <1>1, StepTyped, PTL DEF Spec

-----------------------------------------------------------------------------
\* One step keeps the promise to every launch: who is past the probes has seen RDP fall
\* if it fell, and who gets past them has just seen it answer.
LEMMA StepHanded == TypeOK /\ HandedOver /\ [Next]_vars => HandedOver'
  <1> SUFFICES ASSUME TypeOK, HandedOver, [Next]_vars,
                      NEW c \in Clients, ~interrupted'[c], pc'[c] \in Past
               PROVE  Answers'
    BY Zenon DEF HandedOver
  <1>1. CASE UNCHANGED vars
    BY <1>1 DEF HandedOver, Answers, vars, machine
  <1>2. CASE Next
    <2>1. CASE pc[c] \in Past
      BY <1>2, <2>1 DEF Next, Track, HandedOver
    <2>2. CASE pc'[c] = pc[c]
      BY <2>1, <2>2
    <2>3. CASE Client(c) \/ Ask(c)
      <3>1. pc[c] \in Past \/ (Answers /\ UNCHANGED machine)
        BY <2>3, ClientMoves
      <3> QED BY <2>1, <3>1 DEF machine, Answers
    <2>4. ASSUME NEW d \in Clients \ {c}, Client(d) \/ Ask(d) PROVE pc'[c] = pc[c]
      BY <2>4, ClientMoves
    <2>5. ASSUME NEW d \in Clients, TrayLaunch(d) \/ Close(d) PROVE pc'[c] = pc[c]
      BY <2>5 DEF TrayLaunch, Close
    <2>6. ASSUME \/ Poll \/ GrowStop \/ GrowStart \/ GrowFails \/ Elapse \/ Act
                 \/ Tick \/ TickFails \/ Worker \/ User \/ Boot \/ Stall \/ Age \/ Install
          PROVE  pc' = pc
      BY <2>6 DEF Poll, GrowStop, GrowStart, GrowFails, Others, Elapse, Act,
                  Tick, TickFails, Worker, User, Boot, Stall, Age, Install
    <2> QED BY <1>2, <2>2, <2>3, <2>4, <2>5, <2>6 DEF Next, Step
  <1> QED BY <1>1, <1>2

\* A launch that ensure_ready lets through finds RDP answering unless RDP went down after
\* it was seen to answer: for any number of launches at once, beside a monitor that pauses
\* or recreates the pod, a tray that repairs and a user who stops.
THEOREM LaunchesHandedOver == Spec => []HandedOver
  <1>1. Init => TypeOK /\ HandedOver
    BY InitTyped
  <1>2. TypeOK /\ HandedOver /\ [Next]_vars => (TypeOK /\ HandedOver)'
    BY StepTyped, StepHanded
  <1> QED BY <1>1, <1>2, PTL DEF Spec

-----------------------------------------------------------------------------
LEMMA StepClock == TypeOK /\ Clock /\ [Next]_vars => Clock'
  <1> SUFFICES ASSUME TypeOK, Clock, [Next]_vars PROVE Clock'
    OBVIOUS
  <1>1. CASE UNCHANGED <<sess, monitor>>
    BY <1>1 DEF Clock, monitor
  <1>2. ASSUME NEW c \in Clients, Open(c) PROVE Clock'
    BY <1>2 DEF Open, Clock
  <1>3. ASSUME NEW c \in Clients, Client(c) \/ Ask(c) PROVE Clock'
    <2>1. UNCHANGED <<mon, timer, calm>> /\ (UNCHANGED <<sess, young>> \/ Open(c))
      BY <1>3, ClientTouches
    <2> QED BY <1>1, <1>2, <2>1 DEF monitor
  <1>4. ASSUME NEW c \in Clients, TrayLaunch(c) \/ Close(c) PROVE Clock'
    BY <1>2, <1>4 DEF TrayLaunch, Close, Clock, monitor
  <1>5. CASE Poll \/ GrowStop \/ GrowStart \/ GrowFails \/ Elapse \/ Act
    BY <1>5 DEF Poll, GrowStop, GrowStart, GrowFails, RunTimer, Others, Elapse, Act, Clock, TypeOK
  <1>6. CASE Tick \/ TickFails \/ Worker \/ User \/ Boot \/ Stall \/ Age \/ Install
    BY <1>1, <1>6 DEF Tick, TickFails, Worker, User, Boot, Stall, Age, Install
  <1>7. CASE UNCHANGED vars
    BY <1>1, <1>7 DEF vars
  <1> QED BY <1>3, <1>4, <1>5, <1>6, <1>7 DEF Next, Step

\* The idle monitor pauses or stops only after a whole timeout in which nobody had a
\* session; the sessions that this or the growth of a disk hits have all come after its
\* last look at the list.
THEOREM IdleActsLate == Spec => IdleOnly
  <1>1. Init => TypeOK /\ Clock
    BY InitTyped
  <1>2. TypeOK /\ Clock /\ [Next]_vars => (TypeOK /\ Clock)'
    BY StepTyped, StepClock
  <1>3. TypeOK /\ Clock /\ [Next]_vars
          => [/\ mon = "act" /\ mon' # "act" => calm
              /\ mon \in {"act", "grow", "regrow"} /\ mon' # mon => sess \subseteq young]_vars
    BY DEF Clock
  <1> QED BY <1>1, <1>2, <1>3, PTL DEF Spec, IdleOnly

-----------------------------------------------------------------------------
(* The list of Windows apps.                                               *)

Stages == {"idle", "scan", "write", "fill", "patch", "list", "register"}

FilesOK ==
  /\ guest \in [Apps -> 0 .. MaxVersion]
  /\ disc \in [Apps -> Profiles \cup {None, Bare}] /\ user \in [Apps -> Flags \cup {"none"}]
  /\ gone \subseteq Apps /\ menu \subseteq Apps

OrdersOK ==
  /\ cmd \in Orders \cup {Idle}
  /\ edits \in 0 .. MaxEdits /\ faults \in 0 .. MaxFaults /\ quiet \in BOOLEAN
  /\ wish \in [Apps -> {"none", "hide", "show"}]

\* A sweep that is not writing has nothing left to write.
SweepsOK ==
  /\ at \in [Sweepers -> Stages]
  /\ found \in [Sweepers -> [Apps -> 0 .. MaxVersion]]
  /\ todo \in [Sweepers -> SUBSET Apps] /\ seen \in [Sweepers -> SUBSET Apps]
  /\ cur \in [Sweepers -> Apps \cup {NoApp}] /\ prior \in [Sweepers -> Flags]
  /\ wrote \in BOOLEAN /\ list \in [Sweepers -> SUBSET Apps]
  /\ \A s \in Sweepers :
       /\ todo[s] \subseteq seen[s] /\ (cur[s] # NoApp <=> at[s] \in {"fill", "patch"})
       /\ at[s] \notin {"write", "fill", "patch"} => todo[s] = {}

Typed == FilesOK /\ OrdersOK /\ SweepsOK

LEMMA TypedTypes == Typed => CatalogTypeOK
  BY DEF Typed, FilesOK, OrdersOK, SweepsOK, CatalogTypeOK, Stages

LEMMA GoMoves ==
  ASSUME SweepsOK, NEW s \in Sweepers, NEW from, NEW to \in Stages, Go(s, from, to)
  PROVE  /\ at[s] = from /\ at'[s] = to /\ at' \in [Sweepers -> Stages]
         /\ \A t \in Sweepers \ {s} : at'[t] = at[t]
  BY DEF Go, SweepsOK

LEMMA WroteTyped ==
  ASSUME SweepsOK, NEW s \in Sweepers,
         Shows(s) \/ wrote' = (wrote /\ s # Tray) \/ wrote' = wrote
  PROVE  wrote' \in BOOLEAN
  <1>1. wrote \in BOOLEAN
    BY DEF SweepsOK
  <1> QED BY <1>1, Zenon DEF Shows

\* What the steps of a sweep do to the sweeps.
LEMMA LeaveTyped ==
  ASSUME Typed, NEW s \in Sweepers, NEW from, Leave(s, from)
  PROVE  SweepsOK'
  <1>1. /\ at'[s] = "idle" /\ at' \in [Sweepers -> Stages]
        /\ \A t \in Sweepers \ {s} : at'[t] = at[t]
    BY GoMoves DEF Leave, Stages, Typed
  <1>2. Nothing \in [Apps -> 0 .. MaxVersion]
    BY CatalogAssumption DEF Nothing
  <1>3. wrote' \in BOOLEAN
    BY WroteTyped DEF Leave, Typed
  <1> QED BY <1>1, <1>2, <1>3 DEF Leave, Typed, SweepsOK, Flags

LEMMA LoadTyped ==
  ASSUME Typed, NEW s \in Sweepers, NEW apps \in SUBSET Apps, Load(s, apps),
         UNCHANGED <<cur, prior, wrote, list>>
  PROVE  SweepsOK'
  <1>1. /\ at[s] = "scan" /\ at'[s] = "write" /\ at' \in [Sweepers -> Stages]
        /\ \A t \in Sweepers \ {s} : at'[t] = at[t]
    BY GoMoves DEF Load, Stages, Typed
  <1>2. [a \in Apps |-> IF a \in apps THEN guest[a] ELSE 0] \in [Apps -> 0 .. MaxVersion]
    BY CatalogAssumption DEF Typed, FilesOK
  <1>3. (apps \cup Essential) \ gone \in SUBSET Apps
    BY CatalogAssumption
  <1>4. /\ found' \in [Sweepers -> [Apps -> 0 .. MaxVersion]]
        /\ seen' \in [Sweepers -> SUBSET Apps] /\ todo' \in [Sweepers -> SUBSET Apps]
        /\ todo'[s] = seen'[s]
        /\ \A t \in Sweepers \ {s} : todo'[t] = todo[t] /\ seen'[t] = seen[t]
    BY <1>2, <1>3 DEF Load, Typed, SweepsOK
  <1> QED BY <1>1, <1>4 DEF Typed, SweepsOK

\* A sweep takes an app in hand.
LEMMA TakeTyped ==
  ASSUME Typed, NEW s \in Sweepers, NEW a \in todo[s], Take(s, a),
         NEW to \in {"fill", "patch"}, Go(s, "write", to)
  PROVE  SweepsOK'
  <1>1. a \in Apps /\ a # NoApp
    BY CatalogAssumption DEF Typed, SweepsOK
  <1>2. IsProfile(a) => disc[a].hidden \in Flags
    BY DEF IsProfile, Profiles
  <1>3. prior' \in [Sweepers -> Flags]
    BY <1>2 DEF Take, Typed, SweepsOK, Flags
  <1>4. /\ at[s] = "write" /\ at'[s] = to /\ at' \in [Sweepers -> Stages]
        /\ \A t \in Sweepers \ {s} : at'[t] = at[t]
    BY GoMoves DEF Typed, Stages
  <1> QED BY <1>1, <1>3, <1>4 DEF Take, Typed, SweepsOK

\* A sweep has done with it.
LEMMA DoneTyped ==
  ASSUME Typed, NEW s \in Sweepers, Done(s), NEW from, Go(s, from, "write"),
         Shows(s) \/ wrote' = wrote
  PROVE  SweepsOK'
  <1>1. /\ at'[s] = "write" /\ at' \in [Sweepers -> Stages]
        /\ \A t \in Sweepers \ {s} : at'[t] = at[t]
    BY GoMoves DEF Typed, Stages
  <1>2. wrote' \in BOOLEAN
    BY WroteTyped DEF Typed
  <1> QED BY <1>1, <1>2 DEF Done, Typed, SweepsOK, Flags

LEMMA SweepTyped ==
  ASSUME Typed, NEW s \in Sweepers, Sweep(s) \/ Die(s)
  PROVE  SweepsOK'
  <1> USE GoMoves DEF Typed, Stages
  <1>1. CASE Begin(s)
    <2>1. /\ at[s] = "idle" /\ at'[s] = "scan" /\ at' \in [Sweepers -> Stages]
          /\ \A t \in Sweepers \ {s} : at'[t] = at[t]
          /\ UNCHANGED <<found, todo, seen, cur, prior, wrote, list>>
      BY <1>1 DEF Begin
    <2> QED BY <2>1 DEF SweepsOK
  <1>2. CASE Scan(s)
    <2>1. \A some \in SUBSET {a \in Apps : guest[a] # 0} : some \in SUBSET Apps
      OBVIOUS
    <2> QED BY <1>2, <2>1, LoadTyped, LeaveTyped DEF Scan
  <1>3. CASE Clear(s)
    BY <1>3, TakeTyped DEF Clear
  <1>9. CASE Backfill(s)
    BY <1>9, TakeTyped DEF Backfill
  <1>4. CASE Fill(s) \/ Patch(s)
    BY <1>4, DoneTyped DEF Fill, Patch
  <1>5. CASE Prune(s)
    <2>1. wrote' \in BOOLEAN
      BY <1>5, WroteTyped DEF Prune
    <2> QED BY <1>5, <2>1 DEF Prune, SweepsOK
  <1>6. CASE List(s)
    <2>1. Listed \subseteq Apps /\ Shown \subseteq Apps
      BY DEF Listed, Shown
    <2>2. list' \in [Sweepers -> SUBSET Apps]
      BY <1>6, <2>1 DEF List, SweepsOK
    <2>3. Nothing \in [Apps -> 0 .. MaxVersion]
      BY CatalogAssumption DEF Nothing
    <2>4. found' \in [Sweepers -> [Apps -> 0 .. MaxVersion]]
      BY <1>6, <2>3 DEF List, SweepsOK
    <2>5. wrote' \in BOOLEAN
      BY <1>6, WroteTyped DEF List
    <2> QED BY <1>6, <2>2, <2>4, <2>5 DEF List, SweepsOK
  <1>7. CASE InstallEntries(s) \/ SyncEntries(s) \/ Register(s) \/ BringUp(s)
    BY <1>7, LeaveTyped DEF InstallEntries, SyncEntries, Register, BringUp, Ends
  <1>8. CASE Die(s)
    BY <1>8, LeaveTyped DEF Die
  <1> QED BY <1>1, <1>2, <1>3, <1>4, <1>5, <1>6, <1>7, <1>8, <1>9 DEF Sweep

\* What a profile is after a write, be it one of a sweep or of a command.
LEMMA InPlaceTyped ==
  ASSUME NEW a \in Apps, NEW hidden \in Flags, NEW ver \in 0 .. MaxVersion
  PROVE  /\ InPlace(a, hidden, ver) \in Profiles
         /\ InPlace(a, hidden, ver).hidden = hidden
  BY CatalogAssumption DEF InPlace, Profiles

LEMMA WritesTyped ==
  ASSUME FilesOK, NEW s, NEW a \in Apps, NEW ver \in 0 .. MaxVersion
  PROVE  /\ [hidden |-> Flag(s, a), ver |-> ver] \in Profiles
         /\ \A profile \in Profiles :
              [disc EXCEPT ![a] = profile] \in [Apps -> Profiles \cup {None, Bare}]
  <1>1. Flag(s, a) \in Flags
    BY DEF Flag, Flags
  <1> QED BY <1>1 DEF FilesOK, Profiles

\* A sweep touches a profile, the menu and the user's words, by one app or by all.
LEMMA SweepWrites ==
  ASSUME Typed, NEW s \in Sweepers, Sweep(s) \/ Die(s)
  PROVE  FilesOK' /\ OrdersOK'
  <1> USE DEF Typed
  <1>0. None \in Profiles \cup {None, Bare} /\ Bare \in Profiles \cup {None, Bare}
    OBVIOUS
  <1>1. ASSUME NEW a \in Apps, Forget(a) PROVE wish' \in [Apps -> {"none", "hide", "show"}]
    BY <1>1 DEF Forget, OrdersOK
  <1>2. Fault => faults' \in 0 .. MaxFaults
    BY CatalogAssumption DEF Fault, OrdersOK
  <1>3. CASE Begin(s) \/ List(s)
    BY <1>3 DEF Begin, List, FilesOK, OrdersOK, files
  <1>4. CASE Scan(s)
    BY <1>2, <1>4 DEF Scan, FilesOK, OrdersOK, files
  <1>5. CASE Clear(s) \/ Backfill(s)
    <2>1. PICK a \in Apps : /\ disc' \in {[disc EXCEPT ![a] = Bare], disc}
                            /\ Take(s, a)
      BY <1>5 DEF Clear, Backfill, SweepsOK
    <2>2. wish' \in [Apps -> {"none", "hide", "show"}]
      BY <1>1, <2>1 DEF Take, OrdersOK
    <2>3. disc' \in [Apps -> Profiles \cup {None, Bare}]
      BY <1>0, <2>1 DEF FilesOK
    <2> QED BY <2>1, <2>2, <2>3 DEF Take, FilesOK, OrdersOK
  <1>6. CASE Fill(s) \/ Patch(s)
    <2> DEFINE a == cur[s]
    <2>1. a \in Apps /\ found[s][a] \in 0 .. MaxVersion
      BY <1>6 DEF Fill, Patch, Go, SweepsOK
    <2>2. disc' \in [Apps -> Profiles \cup {None, Bare}]
      <3>1. CASE Fill(s)
        <4>1. \A ver \in {found[s][a], 0} :
                [disc EXCEPT ![a] = [hidden |-> Flag(s, a), ver |-> ver]]
                  \in [Apps -> Profiles \cup {None, Bare}]
          BY <2>1, WritesTyped, CatalogAssumption
        <4> QED BY <3>1, <4>1 DEF Fill, FilesOK
      <3>2. CASE Patch(s)
        <4>1. prior[s] \in Flags
          BY DEF SweepsOK
        <4>2. InPlace(a, prior[s], found[s][a]) \in Profiles
          BY <2>1, <4>1, InPlaceTyped
        <4>3. [disc EXCEPT ![a] = InPlace(a, prior[s], found[s][a])]
                \in [Apps -> Profiles \cup {None, Bare}]
          BY <2>1, <4>2 DEF FilesOK
        <4> QED BY <3>2, <4>3 DEF Patch, FilesOK
      <3> QED BY <1>6, <3>1, <3>2
    <2>3. faults' \in 0 .. MaxFaults /\ wish' \in [Apps -> {"none", "hide", "show"}]
      BY <1>1, <1>2, <1>6, <2>1 DEF Fill, Patch, OrdersOK
    <2> QED BY <1>6, <2>2, <2>3 DEF Fill, Patch, Done, FilesOK, OrdersOK
  <1>7. CASE Prune(s)
    BY <1>0, <1>7 DEF Prune, FilesOK, OrdersOK
  <1>8. CASE InstallEntries(s) \/ SyncEntries(s) \/ Register(s) \/ BringUp(s)
    <2>1. menu' \subseteq Apps
      BY <1>8 DEF InstallEntries, SyncEntries, Register, BringUp, Real, FilesOK, SweepsOK, files
    <2> QED BY <1>8, <2>1 DEF InstallEntries, SyncEntries, Register, BringUp, Ends, FilesOK,
                              OrdersOK, files
  <1>9. CASE Die(s)
    BY <1>2, <1>9 DEF Die, FilesOK, OrdersOK, files
  <1> QED BY <1>3, <1>4, <1>5, <1>6, <1>7, <1>8, <1>9 DEF Sweep

\* None and Bare are no profiles: they say what they are and nothing else.
LEMMA ProfilesApart == None \notin Profiles /\ Bare \notin Profiles /\ None # Bare
  BY DEF None, Bare, Profiles

LEMMA OrderTyped ==
  ASSUME NEW o \in Orders
  PROVE  /\ o.app \in Apps /\ o.flag \in Flags /\ o.step \in {"flag", "sync", "unlist", "bury"}
         /\ o.step = "flag" => /\ o.old \in Profiles \cup {None}
                               /\ [o EXCEPT !.step = "sync"] \in Orders
         /\ o.step = "unlist" => [o EXCEPT !.step = "bury"] \in Orders
  BY DEF Orders

LEMMA SweepsStay == ASSUME SweepsOK, UNCHANGED sweep PROVE SweepsOK'
  BY DEF SweepsOK, sweep

\* The steps of the command in progress.
LEMMA CommandTyped ==
  ASSUME Typed, Command
  PROVE  Typed'
  <1> USE SweepsStay DEF Typed
  <1>0. cmd.step # "idle" => cmd \in Orders
    BY DEF OrdersOK, Idle
  <1>1. CASE WriteFlag
    <2>1. /\ cmd \in Orders /\ cmd.step = "flag" /\ cmd.app \in Apps /\ cmd.flag \in Flags
          /\ cmd.old \in Profiles \cup {None} /\ [cmd EXCEPT !.step = "sync"] \in Orders
      BY <1>0, <1>1, OrderTyped DEF WriteFlag
    <2>2. cmd' \in Orders \cup {Idle}
      BY <1>1, <2>1 DEF WriteFlag
    <2>3. cmd.old # None => InPlace(cmd.app, cmd.flag, cmd.old.ver) \in Profiles
      <3>1. cmd.old # None => cmd.old.ver \in 0 .. MaxVersion
        BY <2>1 DEF Profiles
      <3> QED BY <2>1, <3>1, InPlaceTyped
    <2>4. /\ disc' \in [Apps -> Profiles \cup {None, Bare}]
          /\ user' \in [Apps -> Flags \cup {"none"}]
      BY <1>1, <2>1, <2>3 DEF WriteFlag, FilesOK
    <2>5. wish' \in [Apps -> {"none", "hide", "show"}]
      BY <1>1, <2>1 DEF WriteFlag, Forget, OrdersOK
    <2> QED BY <1>1, <2>2, <2>4, <2>5 DEF WriteFlag, FilesOK, OrdersOK
  <1>2. CASE Sync
    <2>1. cmd.app \in Apps
      BY <1>0, <1>2, OrderTyped DEF Sync
    <2>2. menu' \subseteq Apps
      BY <1>2, <2>1 DEF Sync, FilesOK
    <2> QED BY <1>2, <2>2 DEF Sync, FilesOK, OrdersOK
  <1>3. CASE Unlist
    <2>1. cmd \in Orders /\ [cmd EXCEPT !.step = "bury"] \in Orders
      BY <1>0, <1>3, OrderTyped DEF Unlist
    <2> QED BY <1>3, <2>1 DEF Unlist, FilesOK, OrdersOK
  <1>4. CASE Bury
    <2>1. cmd.app \in Apps
      BY <1>0, <1>4, OrderTyped DEF Bury
    <2> QED BY <1>4, <2>1 DEF Bury, FilesOK, OrdersOK
  <1> QED BY <1>1, <1>2, <1>3, <1>4 DEF Command

\* What the user begins, and what others do to the menu and Windows.
LEMMA UserTyped ==
  ASSUME Typed, NEW a \in Apps,
         \/ Hide(a, "yes") \/ Hide(a, "no") \/ Delete(a) \/ Restore(a) \/ EditApp(a)
         \/ Reset(a) \/ InstallApp(a) \/ RemoveApp(a) \/ Change(a)
  PROVE  Typed'
  <1> USE SweepsStay DEF Typed
  <1>1. Edit => edits' \in 0 .. MaxEdits
    BY CatalogAssumption DEF Edit, OrdersOK
  <1>2. Forget(a) => wish' \in [Apps -> {"none", "hide", "show"}]
    BY DEF Forget, OrdersOK
  <1>3. ASSUME NEW flag \in {"yes", "no"}, Hide(a, flag) PROVE Typed'
    <2> DEFINE old == IF user[a] # "none" THEN None ELSE disc[a]
               order == [step |-> "flag", app |-> a, flag |-> flag, old |-> old]
    <2>1. old \in Profiles \cup {None}
      BY <1>3 DEF Hide, Listed, IsProfile, FilesOK
    <2>2. order \in Orders
      <3> HIDE DEF old
      <3> QED BY <2>1 DEF Orders, Flags
    <2>3. cmd' = order
      BY <1>3 DEF Hide, Order
    <2> HIDE DEF order
    <2> QED BY <1>1, <1>3, <2>2, <2>3 DEF Hide, Order, FilesOK, OrdersOK, files
  <1>4. CASE Delete(a)
    <2>1. cmd' \in Orders
      BY <1>4 DEF Delete, Order, Orders, Flags
    <2> QED BY <1>1, <1>2, <1>4, <2>1 DEF Delete, Order, FilesOK, OrdersOK
  <1>5. CASE Restore(a)
    <2>1. SweepsOK'
      <3>1. PICK s \in Refreshers : at' = IF at[s] = "idle" THEN [at EXCEPT ![s] = "scan"] ELSE at
        BY <1>5 DEF Restore
      <3>2. s \in Sweepers /\ UNCHANGED <<found, todo, seen, cur, prior, wrote, list>>
        BY <1>5 DEF Restore, Sweepers
      <3> QED BY <3>1, <3>2 DEF SweepsOK, Stages
    <2> QED BY <1>1, <1>5, <2>1 DEF Restore, FilesOK, OrdersOK
  <1>6. CASE EditApp(a)
    BY <1>1, <1>2, <1>6 DEF EditApp, FilesOK, OrdersOK, Flags
  <1>7. CASE Reset(a)
    <2>1. cmd' \in Orders
      BY <1>7 DEF Reset, Order, Orders, Flags
    <2> QED BY <1>1, <1>2, <1>7, <2>1 DEF Reset, Order, FilesOK, OrdersOK
  <1>8. CASE InstallApp(a) \/ RemoveApp(a)
    BY <1>1, <1>8 DEF InstallApp, RemoveApp, Launchers, FilesOK, OrdersOK
  <1>9. CASE Change(a)
    BY <1>1, <1>9 DEF Change, FilesOK, OrdersOK, files
  <1> QED BY <1>3, <1>4, <1>5, <1>6, <1>7, <1>8, <1>9

LEMMA OthersTyped ==
  ASSUME Typed, QuietDown \/ Quit \/ GiveLaunchers \/ Repair \/ UNCHANGED catalogVars
  PROVE  Typed'
  <1> USE SweepsStay DEF Typed
  <1>1. CASE QuietDown
    BY <1>1, CatalogAssumption DEF QuietDown, FilesOK, OrdersOK, files
  <1>2. CASE Quit
    BY <1>2, CatalogAssumption DEF Quit, Fault, FilesOK, OrdersOK, files
  <1>3. CASE GiveLaunchers \/ Repair
    BY <1>3 DEF GiveLaunchers, Repair, Launchers, Listed, Shown, FilesOK, OrdersOK
  <1>4. CASE UNCHANGED catalogVars
    BY <1>4 DEF catalogVars, FilesOK, OrdersOK, files
  <1> QED BY <1>1, <1>2, <1>3, <1>4

LEMMA CatalogInitTyped == CatalogInit => Typed
  <1> SUFFICES ASSUME CatalogInit PROVE Typed
    OBVIOUS
  <1>1. 0 \in 0 .. MaxVersion /\ 1 \in 0 .. MaxVersion /\ 0 \in 0 .. MaxEdits /\ 0 \in 0 .. MaxFaults
    BY CatalogAssumption
  <1>2. FilesOK
    BY <1>1 DEF CatalogInit, FilesOK, Profiles, Flags
  <1>3. OrdersOK
    BY <1>1 DEF CatalogInit, OrdersOK
  <1>4. SweepsOK
    BY <1>1 DEF CatalogInit, SweepsOK, Stages, Flags, Nothing
  <1> QED BY <1>2, <1>3, <1>4 DEF Typed

LEMMA CatalogStepTyped == Typed /\ [CatalogNext]_catalogVars => Typed'
  <1> SUFFICES ASSUME Typed, [CatalogNext]_catalogVars PROVE Typed'
    OBVIOUS
  <1>1. ASSUME NEW s \in Sweepers, Sweep(s) \/ Die(s) PROVE Typed'
    BY <1>1, SweepTyped, SweepWrites DEF Typed
  <1>2. Edited \subseteq Apps
    BY CatalogAssumption
  <1> QED BY <1>1, <1>2, CommandTyped, UserTyped, OthersTyped DEF CatalogNext

\* The list of apps keeps its types: a directory holds a profile, none or an empty
\* one, a sweep has one app in hand exactly while it rewrites it, and a command carries
\* what its next step needs; for any number of apps, sweepers, commands and failures.
THEOREM CatalogTypeCorrect == CatalogSpec => []CatalogTypeOK
  BY CatalogInitTyped, CatalogStepTyped, TypedTypes, PTL DEF CatalogSpec

-----------------------------------------------------------------------------
\* A hide that has read a profile is about an app without one of the user's own.
Asked == cmd.step = "flag" => (cmd.old = None <=> user[cmd.app] # "none")

\* Its profile says that a is hidden, or a sweep has emptied its directory; ...
Marked(a) == IF IsProfile(a) THEN disc[a].hidden = "yes"
             ELSE disc[a] = Bare /\ \E s \in Sweepers : cur[s] = a

\* ... and a sweep that has it in hand is alone in that, and has read so.
InOneHand(a) == \A s \in Sweepers :
  cur[s] = a => prior[s] = "yes" /\ \A t \in Sweepers \ {s} : cur[t] # a

Held(a) == user[a] = "yes" \/ (user[a] = "none" /\ Marked(a) /\ InOneHand(a))

CatalogInv == Typed /\ Asked /\ \A a \in Apps : wish[a] = "hide" => Held(a)

\* A step that leaves a's profiles and every sweep's hands alone.
LEMMA HeldStays ==
  ASSUME NEW a \in Apps, Held(a), disc'[a] = disc[a], user'[a] = user[a], UNCHANGED <<cur, prior>>
  PROVE  Held(a)'
  BY DEF Held, Marked, InOneHand, IsProfile

\* What it is to end a sweep: only one that holds an app gives it up.
LEMMA LeaveHeld ==
  ASSUME Typed, NEW s \in Sweepers, NEW from, Leave(s, from), NEW a \in Apps, cur[s] # a,
         Held(a), disc'[a] = disc[a], user'[a] = user[a]
  PROVE  Held(a)'
  <1>1. cur'[s] # a /\ \A t \in Sweepers \ {s} : cur'[t] = cur[t] /\ prior'[t] = prior[t]
    BY CatalogAssumption DEF Leave, Typed, SweepsOK
  <1> QED BY <1>1 DEF Held, Marked, InOneHand, IsProfile

\* Only while it rewrites one does a sweep hold an app.
LEMMA HandsFree ==
  ASSUME Typed, NEW s \in Sweepers, at[s] \notin {"fill", "patch"}, NEW a \in Apps
  PROVE  cur[s] # a
  BY CatalogAssumption DEF Typed, SweepsOK

\* A sweep that takes an app in hand has read that it is hidden, or forgets the wish.
LEMMA TakeHeld ==
  ASSUME CatalogInv, NEW s \in Sweepers, at[s] = "write", NEW b \in todo[s], Take(s, b),
         disc' = [disc EXCEPT ![b] = Bare] \/ disc' = disc, NEW a \in Apps, wish'[a] = "hide"
  PROVE  Held(a)'
  <1> USE DEF CatalogInv
  <1>1. b \in Apps /\ user' = user
    BY DEF Take, Typed, SweepsOK
  <1>2. /\ \A c \in Apps : cur[s] # c
        /\ \A t \in Sweepers \ {s} : cur'[t] = cur[t] /\ prior'[t] = prior[t]
        /\ cur'[s] = b
    BY HandsFree DEF Take, Typed, SweepsOK
  <1>3. wish[a] = "hide"
    BY <1>1 DEF Take, Forget, Typed, OrdersOK
  <1>4. CASE a # b
    <2>1. disc'[a] = disc[a]
      BY <1>1, <1>4 DEF Typed, FilesOK
    <2> QED BY <1>1, <1>2, <1>3, <1>4, <2>1 DEF Held, Marked, InOneHand, IsProfile
  <1>5. CASE a = b
    <2>1. \A t \in Sweepers \ {s} : cur[t] # a
      BY <1>1, <1>5 DEF Take, Forget, Typed, OrdersOK
    <2>2. user[a] = "none" => IsProfile(a) /\ disc[a].hidden = "yes"
      BY <1>2, <1>3, <2>1 DEF Held, Marked
    <2>3. disc'[a] \in {Bare, disc[a]} /\ (user[a] = "none" => prior'[s] = "yes")
      BY <1>1, <1>5, <2>2 DEF Take, Typed, FilesOK, SweepsOK
    <2>4. user[a] = "none" => Marked(a)'
      BY <1>2, <1>5, <2>2, <2>3, ProfilesApart DEF Marked, IsProfile
    <2>5. user[a] = "none" => InOneHand(a)'
      BY <1>2, <1>5, <2>1, <2>3 DEF InOneHand
    <2> QED BY <1>1, <1>3, <2>4, <2>5 DEF Held
  <1> QED BY <1>4, <1>5

\* A sweep that has done with an app it has written has kept the flag.
LEMMA DoneHeld ==
  ASSUME CatalogInv, NEW s \in Sweepers, Done(s), at[s] \in {"fill", "patch"}, UNCHANGED wish,
         NEW new \in Profiles,
         prior[s] = "yes" => new.hidden = "yes",
         (disc' = [disc EXCEPT ![cur[s]] = new])
           \/ (disc[cur[s]] = None /\ disc' = disc),
         NEW a \in Apps, wish[a] = "hide"
  PROVE  Held(a)'
  <1> USE DEF CatalogInv
  <1>1. /\ cur[s] \in Apps /\ user' = user
        /\ \A t \in Sweepers \ {s} : cur'[t] = cur[t] /\ prior'[t] = prior[t]
        /\ \A c \in Apps : cur'[s] # c
    BY CatalogAssumption DEF Done, Typed, SweepsOK
  <1>2. CASE a # cur[s]
    <2>1. disc'[a] = disc[a]
      BY <1>1, <1>2 DEF Typed, FilesOK
    <2> QED BY <1>1, <1>2, <2>1 DEF Held, Marked, InOneHand, IsProfile
  <1>3. CASE a = cur[s]
    <2>1. user[a] = "none" => prior[s] = "yes" /\ \A t \in Sweepers \ {s} : cur[t] # a
      BY <1>3 DEF Held, InOneHand
    <2>2. user[a] = "none" => disc[a] # None
      BY ProfilesApart DEF Held, Marked, IsProfile
    <2>3. user[a] = "none" => disc'[a] = new
      BY <1>1, <1>3, <2>2 DEF Typed, FilesOK
    <2>4. user[a] = "none" => Marked(a)' /\ InOneHand(a)'
      BY <1>1, <2>1, <2>3 DEF Marked, InOneHand, IsProfile
    <2> QED BY <1>1, <2>4 DEF Held
  <1> QED BY <1>2, <1>3

LEMMA SweepHolds ==
  ASSUME CatalogInv, NEW s \in Sweepers, Sweep(s) \/ Die(s),
         NEW a \in Apps, wish'[a] = "hide"
  PROVE  Held(a)'
  <1> USE DEF CatalogInv
  <1>1. CASE Begin(s) \/ List(s)
    BY <1>1, HeldStays DEF Begin, List, files
  <1>2. CASE Scan(s)
    <2>1. wish[a] = "hide" /\ UNCHANGED <<disc, user>> /\ cur[s] # a
      BY <1>2, HandsFree DEF Scan, Load, Leave, Go, files
    <2> QED BY <1>2, <2>1, HeldStays, LeaveHeld DEF Scan
  <1>3. CASE Clear(s) \/ Backfill(s)
    <2>1. at[s] = "write" /\ \E b \in todo[s] :
            Take(s, b) /\ (disc' = [disc EXCEPT ![b] = Bare] \/ disc' = disc)
      BY <1>3 DEF Clear, Backfill, Go
    <2> QED BY <2>1, TakeHeld
  <1>4. CASE Fill(s)
    <2> DEFINE b == cur[s]
    <2>1. b \in Apps /\ at[s] = "fill" /\ Done(s) /\ found[s][b] \in 0 .. MaxVersion
      BY <1>4 DEF Fill, Go, Typed, SweepsOK
    <2>2. CASE Forget(b) /\ UNCHANGED disc
      <3>1. a # b /\ wish[a] = "hide"
        BY <2>1, <2>2 DEF Forget, Typed, OrdersOK
      <3>2. /\ UNCHANGED <<disc, user>> /\ cur'[s] # a
            /\ \A t \in Sweepers \ {s} : cur'[t] = cur[t] /\ prior'[t] = prior[t]
        BY <2>1, <2>2, CatalogAssumption DEF Done, Typed, SweepsOK
      <3> QED BY <3>1, <3>2 DEF Held, Marked, InOneHand, IsProfile
    <2>3. ASSUME NEW ver \in {found[s][b], 0}, UNCHANGED wish,
                 disc' = [disc EXCEPT ![b] = [hidden |-> Flag(s, b), ver |-> ver]]
          PROVE  Held(a)'
      <3> DEFINE new == [hidden |-> Flag(s, b), ver |-> ver]
      <3>1. new \in Profiles
        BY <2>1, WritesTyped, CatalogAssumption DEF Typed
      <3>2. prior[s] = "yes" => new.hidden = "yes"
        BY DEF Flag
      <3>3. wish[a] = "hide" /\ disc' = [disc EXCEPT ![b] = new]
        BY <2>3
      <3> HIDE DEF new
      <3> QED BY <2>1, <2>3, <3>1, <3>2, <3>3, DoneHeld
    <2> QED BY <1>4, <2>2, <2>3 DEF Fill
  <1>8. CASE Patch(s)
    <2> DEFINE new == InPlace(cur[s], prior[s], found[s][cur[s]])
    <2>1. /\ cur[s] \in Apps /\ at[s] = "patch" /\ Done(s) /\ prior[s] \in Flags
          /\ found[s][cur[s]] \in 0 .. MaxVersion
      BY <1>8 DEF Patch, Go, Typed, SweepsOK
    <2>2. new \in Profiles /\ new.hidden = prior[s]
      BY <2>1, InPlaceTyped
    <2>3. /\ UNCHANGED wish
          /\ (disc' = [disc EXCEPT ![cur[s]] = new]) \/ (disc[cur[s]] = None /\ disc' = disc)
      BY <1>8 DEF Patch
    <2> HIDE DEF new
    <2> QED BY <2>1, <2>2, <2>3, DoneHeld
  <1>5. CASE Prune(s)
    <2> DEFINE drop == IF Real(s) = {} THEN {} ELSE Apps \ seen[s]
    <2>1. /\ UNCHANGED <<user, cur, prior>>
          /\ wish'[a] = IF a \in drop /\ user[a] = "none" THEN "none" ELSE wish[a]
          /\ disc'[a] = IF a \in drop THEN None ELSE disc[a]
      BY <1>5 DEF Prune
    <2>2. wish[a] = "hide" /\ (user[a] = "none" => disc'[a] = disc[a])
      BY <2>1
    <2> HIDE DEF drop
    <2> QED BY <2>1, <2>2 DEF Held, Marked, InOneHand, IsProfile
  <1>6. CASE InstallEntries(s) \/ SyncEntries(s) \/ Register(s) \/ BringUp(s)
    <2>1. PICK from \in {"register", "list"} : Leave(s, from)
      BY <1>6 DEF InstallEntries, SyncEntries, Register, BringUp, Ends
    <2>2. wish[a] = "hide" /\ UNCHANGED <<disc, user>>
      BY <1>6 DEF InstallEntries, SyncEntries, Register, BringUp, Ends, files
    <2>3. cur[s] # a
      BY <2>1, HandsFree DEF Leave, Go
    <2> QED BY <2>1, <2>2, <2>3, LeaveHeld
  <1>7. CASE Die(s)
    <2>1. wish[a] = "hide" /\ UNCHANGED <<disc, user>> /\ cur[s] # a
      BY <1>7 DEF Die, files
    <2> QED BY <1>7, <2>1, LeaveHeld DEF Die
  <1> QED BY <1>1, <1>2, <1>3, <1>4, <1>5, <1>6, <1>7, <1>8 DEF Sweep

LEMMA CommandHolds ==
  ASSUME CatalogInv, Command, NEW a \in Apps, wish'[a] = "hide"
  PROVE  Held(a)'
  <1> USE DEF CatalogInv
  <1>1. CASE WriteFlag
    <2> DEFINE b == cmd.app
    <2>0. /\ UNCHANGED <<cur, prior>> /\ cmd.step = "flag"
          /\ b \in Apps /\ cmd.old \in Profiles \cup {None} /\ cmd.flag \in Flags
      <3>1. cmd \in Orders /\ cmd.step = "flag"
        BY <1>1 DEF WriteFlag, Typed, OrdersOK, Idle
      <3> QED BY <1>1, <3>1, OrderTyped DEF WriteFlag, sweep
    <2>1. CASE cmd.old # None /\ disc[b] = None
      BY <1>1, <2>0, <2>1, HeldStays DEF WriteFlag
    <2>2. CASE cmd.old = None \/ disc[b] # None
      <3>1. /\ IF cmd.old = None THEN user' = [user EXCEPT ![b] = cmd.flag] /\ UNCHANGED disc
               ELSE /\ disc' = [disc EXCEPT ![b] = InPlace(b, cmd.flag, cmd.old.ver)]
                    /\ UNCHANGED user
            /\ IF \E s \in Sweepers : cur[s] = b THEN Forget(b)
               ELSE wish' = [wish EXCEPT ![b] = IF cmd.flag = "yes" THEN "hide" ELSE "show"]
        BY <1>1, <2>2 DEF WriteFlag
      <3>2. CASE a # b
        <4>1. wish[a] = "hide" /\ disc'[a] = disc[a] /\ user'[a] = user[a]
          BY <2>0, <3>1, <3>2 DEF Forget, Typed, FilesOK, OrdersOK
        <4> QED BY <2>0, <4>1, HeldStays
      <3>3. CASE a = b
        <4>1. cmd.flag = "yes" /\ \A s \in Sweepers : cur[s] # a
          BY <2>0, <3>1, <3>3 DEF Forget, Typed, OrdersOK
        <4>2. CASE cmd.old = None
          BY <2>0, <3>1, <3>3, <4>1, <4>2 DEF Held, Typed, FilesOK
        <4>3. CASE cmd.old # None
          <5> DEFINE new == InPlace(b, cmd.flag, cmd.old.ver)
          <5>1. new \in Profiles /\ new.hidden = "yes"
            <6>1. cmd.old.ver \in 0 .. MaxVersion
              BY <2>0, <4>3 DEF Profiles
            <6> QED BY <2>0, <4>1, <6>1, InPlaceTyped
          <5>2. user'[a] = "none"
            BY <2>0, <3>1, <3>3, <4>3 DEF Asked
          <5>3. disc'[a] = new
            BY <3>1, <3>3, <4>3, <2>0 DEF Typed, FilesOK
          <5> HIDE DEF new
          <5> QED BY <2>0, <4>1, <5>1, <5>2, <5>3 DEF Held, Marked, InOneHand, IsProfile
        <4> QED BY <4>2, <4>3
      <3> QED BY <3>2, <3>3
    <2> QED BY <2>1, <2>2
  <1>2. CASE Sync \/ Unlist \/ Bury
    BY <1>2, HeldStays DEF Sync, Unlist, Bury, sweep
  <1> QED BY <1>1, <1>2 DEF Command

LEMMA UserHolds ==
  ASSUME CatalogInv, NEW a \in Apps, wish'[a] = "hide", NEW b \in Apps,
         \/ Hide(b, "yes") \/ Hide(b, "no") \/ Delete(b) \/ Restore(b) \/ EditApp(b)
         \/ Reset(b) \/ InstallApp(b) \/ RemoveApp(b) \/ Change(b)
  PROVE  Held(a)'
  <1> USE HeldStays DEF CatalogInv
  <1>1. CASE Hide(b, "yes") \/ Hide(b, "no") \/ Change(b)
    BY <1>1 DEF Hide, Change, files, sweep
  <1>2. CASE Delete(b) \/ EditApp(b) \/ Reset(b)
    <2>1. /\ a # b /\ wish[a] = "hide"
      BY <1>2 DEF Delete, EditApp, Reset, Forget, Typed, OrdersOK
    <2>2. disc'[a] = disc[a] /\ user'[a] = user[a] /\ UNCHANGED <<cur, prior>>
      BY <1>2, <2>1 DEF Delete, EditApp, Reset, Typed, FilesOK, sweep
    <2> QED BY <2>1, <2>2
  <1>3. CASE Restore(b) \/ InstallApp(b) \/ RemoveApp(b)
    BY <1>3 DEF Restore, InstallApp, RemoveApp, Launchers, sweep
  <1> QED BY <1>1, <1>2, <1>3

LEMMA OthersHold ==
  ASSUME CatalogInv, NEW a \in Apps, wish'[a] = "hide",
         QuietDown \/ Quit \/ GiveLaunchers \/ Repair \/ UNCHANGED catalogVars
  PROVE  Held(a)'
  <1>1. ~QuietDown
    BY DEF QuietDown
  <1> QED BY <1>1, HeldStays
          DEF CatalogInv, Quit, GiveLaunchers, Repair, Launchers, catalogVars, files, sweep

\* What a command was told when it began stays true until it writes.
LEMMA StepAsked == CatalogInv /\ [CatalogNext]_catalogVars => Asked'
  <1> SUFFICES ASSUME CatalogInv, [CatalogNext]_catalogVars PROVE Asked'
    OBVIOUS
  <1> USE DEF CatalogInv
  <1>1. CASE UNCHANGED <<cmd, user>>
    BY <1>1 DEF Asked
  <1>2. CASE cmd' = Idle
    BY <1>2 DEF Asked, Idle
  <1>3. ASSUME NEW s \in Sweepers, Sweep(s) \/ Die(s) PROVE UNCHANGED <<cmd, user>>
    BY <1>3 DEF Sweep, Begin, Scan, Clear, Backfill, Take, Fill, Patch, Done, Prune, List,
                InstallEntries, SyncEntries, Register, BringUp, Ends, Die, files
  <1>4. CASE Command \/ Quit
    <2>1. cmd'.step # "flag" \/ cmd' = Idle
      <3>1. cmd.step = "flag" \/ cmd.step = "unlist" => cmd \in Orders
        BY DEF Typed, OrdersOK, Idle
      <3> QED BY <1>4, <3>1 DEF Command, WriteFlag, Sync, Unlist, Bury, Quit, Orders
    <2> QED BY <1>2, <2>1 DEF Asked
  <1>5. CASE GiveLaunchers \/ Repair \/ QuietDown \/ UNCHANGED catalogVars
    BY <1>1, <1>5 DEF GiveLaunchers, Repair, Launchers, QuietDown, catalogVars, files
  <1>6. ASSUME NEW a \in Apps, NEW flag \in {"yes", "no"}, Hide(a, flag) PROVE Asked'
    BY <1>6, ProfilesApart DEF Hide, Order, Listed, IsProfile, Asked, files
  <1>7. ASSUME NEW a \in Apps, Delete(a) \/ Reset(a) PROVE Asked'
    BY <1>7 DEF Delete, Reset, Order, Asked
  <1>8. ASSUME NEW a \in Apps, EditApp(a) PROVE Asked'
    BY <1>2, <1>8 DEF EditApp
  <1>9. ASSUME NEW a \in Apps, Restore(a) \/ InstallApp(a) \/ RemoveApp(a) \/ Change(a)
        PROVE  UNCHANGED <<cmd, user>>
    BY <1>9 DEF Restore, InstallApp, RemoveApp, Change, Launchers, files
  <1>10. Edited \subseteq Apps
    BY CatalogAssumption
  <1> QED BY <1>1, <1>3, <1>4, <1>5, <1>6, <1>7, <1>8, <1>9, <1>10 DEF CatalogNext

LEMMA CatalogInitHolds == CatalogInit => CatalogInv
  <1> SUFFICES ASSUME CatalogInit PROVE CatalogInv
    OBVIOUS
  <1>1. Asked /\ \A a \in Apps : wish[a] # "hide"
    BY DEF CatalogInit, Asked, Idle
  <1> QED BY <1>1, CatalogInitTyped DEF CatalogInv

LEMMA CatalogStepHolds == CatalogInv /\ [CatalogNext]_catalogVars => CatalogInv'
  <1> SUFFICES ASSUME CatalogInv, [CatalogNext]_catalogVars PROVE CatalogInv'
    OBVIOUS
  <1>1. Typed' /\ Asked'
    BY CatalogStepTyped, StepAsked DEF CatalogInv
  <1>2. Edited \subseteq Apps
    BY CatalogAssumption
  <1>3. ASSUME NEW a \in Apps, wish'[a] = "hide" PROVE Held(a)'
    BY <1>2, <1>3, SweepHolds, CommandHolds, UserHolds, OthersHold DEF CatalogNext
  <1> QED BY <1>1, <1>3 DEF CatalogInv

\* "The flag is persisted to app.toml so the choice survives the next discovery sweep":
\* an app that the user has hidden stays hidden, however many sweeps overlap, fail and
\* rewrite its profile, unless a sweep was crossed or cut off in that very app.
THEOREM HiddenStays == CatalogSpec => []HideKept
  <1>1. CatalogInv => HideKept
    <2> SUFFICES ASSUME CatalogInv, NEW a \in Apps, wish[a] = "hide", a \in Listed
                 PROVE  Hidden(a)
      BY DEF HideKept
    <2>1. Held(a)
      BY DEF CatalogInv
    <2> QED BY <2>1, ProfilesApart DEF Held, Marked, Hidden, Listed, IsProfile
  <1> QED BY <1>1, CatalogInitHolds, CatalogStepHolds, PTL DEF CatalogSpec
=============================================================================
