-------------------------- MODULE LifecycleProofs ---------------------------
(***************************************************************************)
(* Proofs about Lifecycle: types in general, and the promises of the pid   *)
(* file for commands that run one at a time.                               *)
(***************************************************************************)
EXTENDS Lifecycle, TLAPS

\* At most one command is under way.
Alone == \A p, q \in Procs : pc[p] # "idle" /\ pc[q] # "idle" => p = q

OneAlive == \A d, e \in Pid : Alive(d) /\ Alive(e) => d = e

\* A daemon that serves is in the pid file.
Filed == \A d \in Pid : Serving(d) => pidFile = d

\* A daemon that is not running yet is one that a command waits for.
Starting ==
  \A d \in Pid : Alive(d) /\ state[d] # "running" =>
    \E p \in Procs : pc[p] = "wait" /\ target[p] = d

ReadyRuns == \A d \in ready : state[d] \in {"running", "dead"}

Quiet   == \A d \in Pid : ~Alive(d)
Only(p) == \A d \in Pid : Alive(d) => d = target[p]

\* What a command knows of the daemons where it is, and which one it is.
Place(p) ==
  /\ pc[p] \in {"unstale", "fork", "unconfirm", "clean"} => Quiet
  /\ pc[p] \in {"wait", "term", "grace", "kill"} => Only(p)
  /\ pc[p] \in {"fork", "wait", "confirm", "unconfirm"} => cmd[p] = "start"
  /\ pc[p] = "hup" => cmd[p] = "refresh"

\* The inductive invariant.
IInv ==
  /\ TypeOK
  /\ Alone /\ OneAlive /\ Filed /\ Starting /\ ReadyRuns
  /\ \A p \in Procs : Place(p)

-----------------------------------------------------------------------------
(* Type correctness, whether commands overlap or not.                      *)

LEMMA SignalTyped ==
  ASSUME TypeOK, NEW d \in Pid, NEW sig, SignalTo(d, sig)
  PROVE  /\ state' \in [Pid -> {"none", "dead", "clone"} \cup Unwired \cup Wired]
         /\ term' \in SUBSET Pid /\ hup' \in SUBSET Pid
BY DEF TypeOK, SignalTo, Set, Unwired, Wired

LEMMA CommandTyped == ASSUME TypeOK, NEW p \in Procs, Run(p) PROVE TypeOK'
<1> USE DEF TypeOK, daemons, Labels
<1>1. CASE Check(p)
  BY <1>1 DEF Check
<1>2. CASE Unstale(p)
  BY <1>2 DEF Unstale, Step
<1>3. CASE Fork(p)
  <2>1. /\ state' \in [Pid -> {"none", "dead", "clone"} \cup Unwired \cup Wired]
        /\ target' \in [Procs -> Pid \cup {NoPid}]
        /\ pc' \in [Procs -> Labels]
        /\ faults' \in 0 .. MaxFaults
    BY <1>3, LifecycleAssumption DEF Fork, Spare, Set, Step, Fault, Unwired
  <2> QED
    BY <1>3, <2>1 DEF Fork
<1>4. CASE Wait(p)
  BY <1>4 DEF Wait, Step
<1>5. CASE Confirm(p)
  BY <1>5 DEF Confirm, Step
<1>6. CASE Terminate(p)
  <2>1. CASE Alive(target[p])
    <3>1. target[p] \in Pid /\ SignalTo(target[p], "TERM")
      BY <1>6, <2>1 DEF Terminate, Alive
    <3> QED
      BY <1>6, <2>1, <3>1, SignalTyped DEF Terminate, Step
  <2>2. CASE ~Alive(target[p])
    BY <1>6, <2>2 DEF Terminate, Step
  <2> QED
    BY <2>1, <2>2
<1>7. CASE Grace(p)
  BY <1>7 DEF Grace, Step
<1>8. CASE Kill(p)
  BY <1>8 DEF Kill, Step, Set
<1>9. CASE Clean(p)
  BY <1>9 DEF Clean, Step
<1>10. CASE HangUp(p)
  <2>1. CASE Alive(target[p])
    <3>1. target[p] \in Pid /\ SignalTo(target[p], "HUP")
      BY <1>10, <2>1 DEF HangUp, Alive
    <3> QED
      BY <1>10, <2>1, <3>1, SignalTyped DEF HangUp, Step
  <2>2. CASE ~Alive(target[p])
    BY <1>10, <2>2 DEF HangUp, Step
  <2> QED
    BY <2>1, <2>2
<1> QED
  BY <1>1, <1>2, <1>3, <1>4, <1>5, <1>6, <1>7, <1>8, <1>9, <1>10 DEF Run

LEMMA BeginTyped ==
  ASSUME TypeOK, NEW p \in Procs, NEW c \in Commands, Begin(p, c) PROVE TypeOK'
<1>1. manifest' \in 0 .. MaxManifest
  BY LifecycleAssumption DEF Begin, TypeOK
<1> QED
  BY <1>1, LifecycleAssumption DEF Begin, TypeOK, Labels, daemons

LEMMA DaemonTyped == ASSUME TypeOK, NEW d \in Pid, Live(d) \/ Die(d) PROVE TypeOK'
<1> USE DEF TypeOK, commands, Set, Unwired, Wired
<1>0. ASSUME LoadApps(d) PROVE apps' \in [Pid -> 0 .. MaxManifest] /\ faults' \in 0 .. MaxFaults
  BY <1>0, LifecycleAssumption DEF LoadApps, Fault
<1>1. CASE Load(d)
  <2>1. apps' \in [Pid -> 0 .. MaxManifest] /\ faults' \in 0 .. MaxFaults
    BY <1>0, <1>1, LifecycleAssumption DEF Load, Fault
  <2> QED
    BY <1>1, <2>1 DEF Load
<1>2. CASE WritePid(d)
  <2>1. faults' \in 0 .. MaxFaults
    BY <1>2, LifecycleAssumption DEF WritePid, Fault
  <2> QED
    BY <1>2, <2>1 DEF WritePid
<1>3. CASE CloneEnds(d)
  BY <1>3 DEF CloneEnds
<1>4. CASE Wire(d)
  BY <1>4 DEF Wire
<1>5. CASE SendReady(d)
  BY <1>5 DEF SendReady
<1>6. CASE Reload(d)
  BY <1>0, <1>6 DEF Reload
<1>7. CASE Exit(d)
  BY <1>7 DEF Exit
<1>8. CASE Die(d)
  <2>1. faults' \in 0 .. MaxFaults
    BY <1>8, LifecycleAssumption DEF Die, Fault
  <2> QED
    BY <1>8, <2>1 DEF Die
<1> QED
  BY <1>1, <1>2, <1>3, <1>4, <1>5, <1>6, <1>7, <1>8 DEF Live

LEMMA TypeStep == TypeOK /\ [Next]_vars => TypeOK'
<1>1. ASSUME TypeOK, UNCHANGED vars PROVE TypeOK'
  BY <1>1 DEF TypeOK, vars
<1> QED
  BY <1>1, CommandTyped, BeginTyped, DaemonTyped DEF Next

LEMMA InitTyped == Init => TypeOK
BY LifecycleAssumption DEF Init, TypeOK, Labels

\* The variables keep their types, whatever commands run and overlap.
THEOREM TypeCorrect == Spec => []TypeOK
BY InitTyped, TypeStep, PTL DEF Spec

-----------------------------------------------------------------------------
(* One command at a time: what the daemons and the commands keep.           *)

\* A command that waits for nobody sees only a running daemon, the one filed.
LEMMA Settled ==
  ASSUME IInv, NEW p \in Procs, pc[p] \notin {"idle", "wait"},
         NEW d \in Pid, Alive(d)
  PROVE  state[d] = "running" /\ pidFile = d
<1>1. state[d] = "running"
  BY DEF IInv, Alone, Starting
<1> QED
  BY <1>1 DEF IInv, Filed, Serving

LEMMA OneMoves ==
  ASSUME IInv, NEW p \in Procs, pc[p] # "idle",
         \A q \in Procs \ {p} : pc'[q] = pc[q], Place(p)'
  PROVE  Alone' /\ \A q \in Procs : Place(q)'
<1>1. \A q \in Procs \ {p} : pc'[q] = "idle"
  BY DEF IInv, Alone
<1>2. \A q \in Procs \ {p} : Place(q)'
  BY <1>1 DEF Place
<1> QED
  BY <1>1, <1>2 DEF Alone

\* A step of a command that forks nothing and waits for nobody.
LEMMA SettledStep ==
  ASSUME IInv, TypeOK', NEW p \in Procs, pc[p] \notin {"idle", "wait"},
         \A q \in Procs \ {p} : pc'[q] = pc[q],
         ready' = ready,
         \A d \in Pid : state'[d] = state[d] \/ state'[d] = "dead",
         \A d \in Pid : Alive(d) => pidFile' = pidFile \/ state'[d] = "dead",
         Place(p)'
  PROVE  IInv'
<1>1. \A d \in Pid : Alive(d)' =>
        Alive(d) /\ state'[d] = "running" /\ pidFile' = d
  <2>1. SUFFICES ASSUME NEW d \in Pid, Alive(d)'
                 PROVE  Alive(d) /\ state'[d] = "running" /\ pidFile' = d
    OBVIOUS
  <2>2. state'[d] # "dead"
    BY <2>1 DEF Alive, Unwired, Wired
  <2>3. state'[d] = state[d] /\ Alive(d)
    BY <2>1, <2>2 DEF Alive
  <2> QED
    BY <2>2, <2>3, Settled
<1>2. OneAlive'
  BY <1>1 DEF IInv, OneAlive
<1>3. Filed'
  BY <1>1 DEF Filed, Serving, Alive, Unwired, Wired
<1>4. Starting'
  BY <1>1 DEF Starting
<1>5. ReadyRuns'
  BY DEF IInv, ReadyRuns, TypeOK
<1> QED
  BY <1>2, <1>3, <1>4, <1>5, OneMoves DEF IInv

LEMMA ForkStep == ASSUME IInv, TypeOK', NEW p \in Procs, Fork(p) PROVE IInv'
<1>1. /\ pc[p] = "fork" /\ cmd[p] = "start" /\ Quiet /\ cmd' = cmd
      /\ pidFile' = pidFile /\ ready' = ready
      /\ \A q \in Procs \ {p} : pc'[q] = pc[q]
  BY DEF Fork, Step, At, IInv, Place, TypeOK
<1>2. ASSUME NEW d \in Spare, Step(p, "fork", "wait"),
             target' = [target EXCEPT ![p] = d], Set(d, "born")
      PROVE  IInv'
  <2>1. d \in Pid /\ state[d] = "none" /\ d \notin ready
    BY <1>2 DEF Spare, IInv, ReadyRuns
  <2>2. pc'[p] = "wait" /\ target'[p] = d
    BY <1>2 DEF Step, IInv, TypeOK
  <2>3. state'[d] = "born" /\ \A e \in Pid \ {d} : state'[e] = state[e]
    BY <1>2, <2>1 DEF Set, IInv, TypeOK
  <2>4. \A e \in Pid : Alive(e)' => e = d
    BY <1>1, <2>3 DEF Quiet, Alive
  <2>5. Place(p)'
    BY <1>1, <2>2, <2>4 DEF Place, Only
  <2>6. OneAlive'
    BY <2>4 DEF OneAlive
  <2>7. Filed'
    BY <2>3, <2>4 DEF Filed, Serving, Alive, Unwired, Wired
  <2>8. Starting'
    BY <2>2, <2>4 DEF Starting
  <2>9. ReadyRuns'
    BY <1>1, <2>1, <2>3 DEF ReadyRuns, IInv, TypeOK
  <2> QED
    BY <1>1, <2>5, <2>6, <2>7, <2>8, <2>9, OneMoves DEF IInv
<1>3. CASE Step(p, "fork", "idle") /\ UNCHANGED <<state, target>>
  <2>1. Place(p)'
    BY <1>3 DEF Place, Step, IInv, TypeOK
  <2> QED
    BY <1>1, <1>3, <2>1, SettledStep
<1> QED
  BY <1>2, <1>3 DEF Fork

LEMMA WaitStep == ASSUME IInv, TypeOK', NEW p \in Procs, Wait(p) PROVE IInv'
<1>1. /\ pc[p] = "wait" /\ Only(p) /\ cmd[p] = "start" /\ target[p] \in Pid \cup {NoPid}
      /\ UNCHANGED <<pidFile, state, ready, cmd, target>>
      /\ \A q \in Procs \ {p} : pc'[q] = pc[q]
      /\ pc'[p] \in {"confirm", "idle"}
  BY DEF Wait, Step, At, IInv, Place, TypeOK, daemons
<1>2. \A d \in Pid : Alive(d) => state[d] = "running"
  BY <1>1 DEF Wait, Step, At, Only, IInv, ReadyRuns, Alive, Unwired, Wired
<1>3. Place(p)'
  BY <1>1 DEF Place
<1>4. Starting'
  BY <1>1, <1>2 DEF Starting, Alive
<1>5. OneAlive' /\ Filed' /\ ReadyRuns'
  BY <1>1 DEF IInv, OneAlive, Filed, Serving, ReadyRuns, Alive
<1> QED
  BY <1>1, <1>3, <1>4, <1>5, OneMoves DEF IInv

LEMMA CheckStep == ASSUME IInv, TypeOK', NEW p \in Procs, Check(p) PROVE IInv'
<1>1. /\ pc[p] = "check" /\ cmd' = cmd /\ target'[p] = pidFile
      /\ UNCHANGED <<pidFile, state, ready>>
      /\ \A q \in Procs \ {p} : pc'[q] = pc[q]
      /\ pc'[p] = IF pidFile = NoPid THEN IF cmd[p] = "start" THEN "fork" ELSE "idle"
                  ELSE IF ~Alive(pidFile) THEN "unstale"
                  ELSE CASE cmd[p] = "start" -> "idle"
                         [] cmd[p] = "stop" -> "term"
                         [] OTHER -> "hup"
      /\ cmd[p] \in {"start", "stop", "refresh"}
  BY DEF Check, At, IInv, TypeOK, daemons
<1>2. \A d \in Pid : Alive(d) => pidFile = d
  BY <1>1, Settled
<1>3. pidFile = NoPid \/ ~Alive(pidFile) => Quiet
  BY <1>2 DEF Quiet, Alive, Pid, NoPid
<1>4. Place(p)'
  <2>1. (\A d \in Pid : Alive(d) => pidFile = d)' /\ (Quiet' <=> Quiet)
    BY <1>1, <1>2 DEF Quiet, Alive
  <2>2. Only(p)'
    BY <1>1, <2>1 DEF Only
  <2>3. pc'[p] \in {"unstale", "fork"} => Quiet'
    BY <1>1, <1>3, <2>1
  <2>4. pc'[p] \in {"fork", "unstale", "idle", "term", "hup"}
    BY <1>1
  <2>5. (pc'[p] = "fork" => cmd'[p] = "start") /\ (pc'[p] = "hup" => cmd'[p] = "refresh")
    BY <1>1
  <2> QED
    BY <2>2, <2>3, <2>4, <2>5 DEF Place
<1> QED
  BY <1>1, <1>4, SettledStep

LEMMA LookStep ==
  ASSUME IInv, TypeOK', NEW p \in Procs, Confirm(p) \/ Grace(p)
  PROVE  IInv'
<1>1. /\ pc[p] \in {"confirm", "grace"} /\ UNCHANGED <<cmd, target, pidFile, state, ready>>
      /\ \A q \in Procs \ {p} : pc'[q] = pc[q]
      /\ \/ pc'[p] = "idle"
         \/ pc[p] = "confirm" /\ pc'[p] = "unconfirm" /\ ~Alive(pidFile)
         \/ pc[p] = "grace" /\ pc'[p] = "kill"
         \/ pc[p] = "grace" /\ pc'[p] = "clean" /\ ~Alive(target[p])
  BY DEF Confirm, Grace, Step, At, IInv, TypeOK, daemons
<1>2. ~Alive(pidFile) => Quiet
  BY <1>1, Settled DEF Quiet
<1>3. pc[p] = "grace" => Only(p)
  BY DEF IInv, Place
<1>4. pc[p] = "confirm" => cmd[p] = "start"
  BY DEF IInv, Place
<1>5. Quiet' = Quiet /\ Only(p)' = Only(p)
  BY <1>1 DEF Quiet, Only, Alive
<1>6. Place(p)'
  BY <1>1, <1>2, <1>3, <1>4, <1>5 DEF Place, Only, Quiet
<1> QED
  BY <1>1, <1>6, SettledStep

\* The two removals of the pid file happen when no daemon is left.
LEMMA RemoveStep ==
  ASSUME IInv, TypeOK', NEW p \in Procs, Unstale(p) \/ Clean(p)
  PROVE  IInv'
<1>1. /\ pc[p] \in {"unstale", "unconfirm", "clean"} /\ UNCHANGED <<cmd, target, state, ready>>
      /\ \A q \in Procs \ {p} : pc'[q] = pc[q]
      /\ \/ pc'[p] = "idle"
         \/ pc'[p] = "fork" /\ cmd[p] = "start"
         \/ pc'[p] = "confirm" /\ pc[p] = "unconfirm"
  BY DEF Unstale, Clean, Step, At, IInv, TypeOK, daemons
<1>2. Quiet
  BY <1>1 DEF IInv, Place
<1>3. pc[p] = "unconfirm" => cmd[p] = "start"
  BY DEF IInv, Place
<1>4. Place(p)'
  BY <1>1, <1>2, <1>3 DEF Place, Quiet, Alive
<1>5. \A d \in Pid : ~Alive(d)
  BY <1>2 DEF Quiet
<1> QED
  BY <1>1, <1>4, <1>5, SettledStep

\* A signal sent now finds its handler.
LEMMA SignalHandled ==
  ASSUME IInv, NEW p \in Procs, pc[p] \notin {"idle", "wait"},
         NEW sig, Alive(target[p]), SignalTo(target[p], sig)
  PROVE  UNCHANGED state
<1>1. target[p] \in Pid
  BY DEF Alive
<1>2. state[target[p]] = "running"
  BY <1>1, Settled
<1> QED
  BY <1>2 DEF SignalTo, Unwired

LEMMA SignalStep ==
  ASSUME IInv, TypeOK', NEW p \in Procs, Terminate(p) \/ HangUp(p)
  PROVE  IInv' /\ UNCHANGED state
<1>1. /\ pc[p] \in {"term", "hup"} /\ UNCHANGED <<cmd, target, pidFile, ready>>
      /\ \A q \in Procs \ {p} : pc'[q] = pc[q]
      /\ \/ pc'[p] \in {"idle", "grace"}
         \/ pc'[p] = "clean" /\ ~Alive(target[p])
      /\ pc[p] = "hup" => pc'[p] = "idle"
  BY DEF Terminate, HangUp, Step, At, IInv, TypeOK
<1>2. UNCHANGED state
  BY <1>1, SignalHandled DEF Terminate, HangUp
<1>3. pc[p] = "term" => Only(p)
  BY DEF IInv, Place
<1>4. Place(p)'
  BY <1>1, <1>2, <1>3 DEF Place, Only, Quiet, Alive
<1> QED
  BY <1>1, <1>2, <1>4, SettledStep

LEMMA KillStep == ASSUME IInv, TypeOK', NEW p \in Procs, Kill(p) PROVE IInv'
<1>1. /\ pc[p] = "kill" /\ Only(p) /\ UNCHANGED <<cmd, target, pidFile, ready>>
      /\ \A q \in Procs \ {p} : pc'[q] = pc[q]
      /\ pc'[p] = "clean"
  BY DEF Kill, Step, At, IInv, TypeOK, Place
<1>2. \A d \in Pid : state'[d] = state[d] \/ state'[d] = "dead"
  BY DEF Kill, Set, IInv, TypeOK
<1>3. Quiet'
  <2>1. Alive(target[p]) => state'[target[p]] = "dead"
    BY DEF Kill, Set, Alive, IInv, TypeOK
  <2>2. ASSUME NEW d \in Pid, Alive(d)' PROVE FALSE
    <3>1. state'[d] = state[d] /\ Alive(d)
      BY <1>2, <2>2 DEF Alive, Unwired, Wired
    <3>2. d = target[p]
      BY <1>1, <3>1 DEF Only
    <3> QED
      BY <2>1, <2>2, <3>1, <3>2 DEF Alive, Unwired, Wired
  <2> QED
    BY <2>2 DEF Quiet
<1>4. Place(p)'
  BY <1>1, <1>3 DEF Place
<1> QED
  BY <1>1, <1>2, <1>4, SettledStep

LEMMA BeginStep ==
  ASSUME ~Overlap, IInv, TypeOK', NEW p \in Procs, NEW c \in Commands, Begin(p, c)
  PROVE  IInv'
<1>1. /\ \A q \in Procs : pc[q] = "idle"
      /\ \A q \in Procs \ {p} : pc'[q] = pc[q]
      /\ pc'[p] = "check"
      /\ UNCHANGED <<pidFile, state, ready, target>>
  BY DEF Begin, IInv, TypeOK, daemons
<1>2. Alone' /\ \A q \in Procs : Place(q)'
  BY <1>1 DEF Alone, Place
<1>3. Starting'
  BY <1>1 DEF Starting, IInv, Alive
<1>4. OneAlive' /\ Filed' /\ ReadyRuns'
  BY <1>1 DEF IInv, OneAlive, Filed, Serving, ReadyRuns, Alive
<1> QED
  BY <1>2, <1>3, <1>4 DEF IInv

LEMMA CommandStep == ASSUME IInv, TypeOK', NEW p \in Procs, Run(p) PROVE IInv'
BY CheckStep, RemoveStep, ForkStep, WaitStep, LookStep, SignalStep, KillStep DEF Run

\* A daemon's own step: no daemon comes to life, and one that serves is filed.
LEMMA DaemonStep ==
  ASSUME IInv, TypeOK', NEW d \in Pid, Live(d) \/ Die(d) PROVE IInv'
<1>1. /\ UNCHANGED <<pc, cmd, target>>
      /\ \A e \in Pid \ {d} : state'[e] = state[e]
      /\ Alive(d)
  BY DEF Live, Die, Load, WritePid, CloneEnds, Wire, SendReady, Reload, Exit,
     commands, Set, Alive, Unwired, Wired, IInv, TypeOK
<1>2. \A e \in Pid : Alive(e)' => Alive(e)
  BY <1>1 DEF Alive
<1>3. OneAlive'
  BY <1>2 DEF IInv, OneAlive
<1>4. Alone' /\ \A q \in Procs : Place(q)'
  BY <1>1, <1>2 DEF IInv, Alone, Place, Quiet, Only
<1>5. Filed'
  <2>1. \A e \in Pid \ {d} : ~Alive(e)
    BY <1>1 DEF IInv, OneAlive
  <2>2. \A e \in Pid : Serving(e)' => e = d
    BY <1>1, <2>1 DEF Serving, Alive, Unwired, Wired
  <2>3. Serving(d)' => pidFile' = d
    <3>1. CASE WritePid(d)
      BY <3>1 DEF WritePid, Set, Serving, IInv, TypeOK
    <3>2. CASE Load(d) \/ CloneEnds(d) \/ Exit(d) \/ Die(d)
      BY <3>2 DEF Load, CloneEnds, Exit, Die, Set, Serving, IInv, TypeOK
    <3>3. CASE Wire(d) \/ SendReady(d) \/ Reload(d)
      BY <3>3 DEF Wire, SendReady, Reload, Set, Serving, Wired, IInv, TypeOK, Filed
    <3> QED
      BY <3>1, <3>2, <3>3 DEF Live
  <2> QED
    BY <2>2, <2>3 DEF Filed
<1>6. Starting'
  <2>1. Alive(d)' /\ state'[d] # "running" => state[d] # "running"
    BY DEF Live, Die, Load, WritePid, CloneEnds, Wire, SendReady, Reload, Exit,
       Set, Alive, Unwired, Wired, IInv, TypeOK
  <2> QED
    BY <1>1, <1>2, <2>1 DEF IInv, Starting
<1>7. ReadyRuns'
  <2>1. CASE SendReady(d)
    BY <1>1, <2>1 DEF SendReady, Set, IInv, TypeOK, ReadyRuns
  <2>2. CASE ~SendReady(d)
    <3>1. ready' = ready /\ (state'[d] = state[d] \/ state'[d] = "dead"
                            \/ state[d] \in Unwired)
      BY <2>2 DEF Live, Die, Load, WritePid, CloneEnds, Wire, Reload, Exit,
         Set, Unwired, IInv, TypeOK
    <3> QED
      BY <1>1, <3>1 DEF IInv, TypeOK, ReadyRuns, Unwired
  <2> QED
    BY <2>1, <2>2
<1> QED
  BY <1>3, <1>4, <1>5, <1>6, <1>7 DEF IInv

LEMMA NextIInv == ASSUME ~Overlap PROVE IInv /\ [Next]_vars => IInv'
<1> SUFFICES ASSUME IInv, [Next]_vars PROVE IInv'
  OBVIOUS
<1>1. TypeOK'
  BY TypeStep DEF IInv
<1>2. CASE UNCHANGED vars
  BY <1>1, <1>2 DEF vars, IInv, Alone, OneAlive, Filed, Serving, Starting, ReadyRuns,
     Place, Quiet, Only, Alive
<1> QED
  BY <1>1, <1>2, CommandStep, BeginStep, DaemonStep DEF Next

LEMMA InitIInv == Init => IInv
<1> SUFFICES ASSUME Init PROVE IInv
  OBVIOUS
<1>1. \A d \in Pid : ~Alive(d) /\ ~Serving(d)
  BY DEF Init, Alive, Serving, Unwired, Wired
<1> QED
  BY <1>1, InitTyped DEF Init, IInv, Alone, OneAlive, Filed, Starting, ReadyRuns, Place

THEOREM Invariance == ASSUME ~Overlap PROVE Spec => []IInv
BY InitIInv, NextIInv, PTL DEF Spec

-----------------------------------------------------------------------------
(* The promises.                                                           *)

\* A daemon that is left serving can be found through the pid file.
THEOREM AlwaysFound == ASSUME ~Overlap PROVE Spec => []Findable
<1>1. IInv => Findable
  BY DEF IInv, Filed, Findable
<1> QED
  BY <1>1, Invariance, PTL

LEMMA StopLeavesNone ==
  ASSUME ~Overlap, IInv, [Next]_vars, NEW p \in Procs,
         cmd[p] = "stop", pc[p] # "idle", pc'[p] = "idle"
  PROVE  \A d \in Pid : ~Serving(d)'
<1>1. Run(p)
  <2>1. CASE UNCHANGED vars
    BY <2>1 DEF vars
  <2>2. ASSUME NEW q \in Procs, NEW c \in Commands, Begin(q, c) PROVE Run(p)
    BY <2>2 DEF Begin, IInv, TypeOK
  <2>3. ASSUME NEW q \in Procs, Run(q) PROVE Run(p)
    <3>1. pc[q] # "idle"
      BY <2>3 DEF Run, Check, Unstale, Fork, Wait, Confirm, Terminate, Grace, Kill,
         Clean, HangUp, Step, At
    <3> QED
      BY <2>3, <3>1 DEF IInv, Alone
  <2>4. ASSUME NEW d \in Pid, Live(d) \/ Die(d) PROVE Run(p)
    BY <2>4 DEF Live, Die, Load, WritePid, CloneEnds, Wire, SendReady, Reload, Exit,
       commands
  <2> QED
    BY <2>1, <2>2, <2>3, <2>4 DEF Next
<1>2. (Check(p) /\ pidFile = NoPid) \/ Unstale(p) \/ Clean(p)
  BY <1>1 DEF Run, Check, Fork, Wait, Confirm, Terminate, Grace, Kill, HangUp, Step,
     At, IInv, Place, TypeOK
<1>3. Quiet
  <2>1. CASE Check(p) /\ pidFile = NoPid
    BY <2>1, Settled DEF Check, At, Quiet, Pid, NoPid
  <2>2. CASE Unstale(p) \/ Clean(p)
    BY <2>2 DEF Unstale, Clean, Step, At, IInv, Place
  <2> QED
    BY <1>2, <2>1, <2>2
<1>4. state' = state
  BY <1>2 DEF Check, Unstale, Clean, daemons
<1> QED
  BY <1>3, <1>4 DEF Quiet, Serving, Alive, Unwired, Wired

\* A stop command that returns leaves no listener behind, whatever it found.
THEOREM Stopped == ASSUME ~Overlap PROVE Spec => StopStops
<1>1. IInv /\ [Next]_vars =>
        [\A p \in Procs : cmd[p] = "stop" /\ pc[p] # "idle" /\ pc'[p] = "idle" =>
           \A d \in Pid : ~Serving(d)']_vars
  BY StopLeavesNone
<1> QED
  BY <1>1, Invariance, PTL DEF Spec, StopStops

\* Without overlap, the reload signal always finds its handler.
THEOREM Spared == ASSUME ~Overlap PROVE Spec => RefreshSpares
<1>1. ASSUME IInv, [Next]_vars
      PROVE  [\A p \in Procs : HangUp(p) => \A d \in Pid : Alive(d) => Alive(d)']_vars
  <2>1. TypeOK'
    BY <1>1, TypeStep DEF IInv
  <2>2. ASSUME NEW p \in Procs, HangUp(p) PROVE UNCHANGED state
    BY <1>1, <2>1, <2>2, SignalStep
  <2> QED
    BY <2>2 DEF Alive
<1> QED
  BY <1>1, Invariance, PTL DEF Spec, RefreshSpares

-----------------------------------------------------------------------------
(* The commands and daemons implement Slot: each step is one of it or none. *)

LEMMA NobodyLives ==
  /\ Quiet <=> Living = {}
  /\ Quiet => Server = {}
BY DEF Quiet, Living, Server, Serving, Alive, Unwired, Wired

\* Who lives, lives alone.
LEMMA LivesAlone ==
  ASSUME IInv, NEW d \in Pid, Alive(d)
  PROVE  /\ Living = {d}
         /\ Server = IF Serving(d) THEN {d} ELSE {}
<1>1. Living = {d}
  BY DEF IInv, OneAlive, Living
<1>2. Server \subseteq Living
  BY DEF Server, Living, Serving, Alive, Unwired, Wired
<1> QED
  BY <1>1, <1>2 DEF Server

LEMMA SameSlot ==
  ASSUME UNCHANGED state
  PROVE  UNCHANGED <<Living, Server, Ended>>
BY DEF Living, Server, Ended, Alive, Serving

\* A daemon's end, by itself or by a kill.
LEMMA EndsSlot ==
  ASSUME IInv, NEW d \in Pid, Alive(d), Set(d, "dead"), pidFile' \in {pidFile, NoPid}
  PROVE  S!Next
<1>1. Living = {d} /\ \A e \in Pid : state'[e] = IF e = d THEN "dead" ELSE state[e]
  BY LivesAlone DEF Set, IInv, TypeOK
<1>2. Living' = {} /\ Server' = {}
  <2>1. \A e \in Pid : e # d => ~Alive(e)
    BY DEF IInv, OneAlive
  <2>2. \A e \in Pid : state'[e] \notin Unwired \cup Wired \cup {"clone"}
    BY <1>1, <2>1 DEF Alive, Unwired, Wired
  <2> QED
    BY <2>2 DEF Living, Server, Alive, Serving, Unwired, Wired
<1>3. Ended' = Ended \cup {d}
  BY <1>1 DEF Ended
<1>4. S!End(d)
  BY <1>1, <1>2, <1>3 DEF S!End
<1> QED
  BY <1>4 DEF S!Next

\* A daemon gets on, and lives on.
LEMMA GetsOn ==
  ASSUME IInv, NEW d \in Pid, Alive(d),
         NEW s \in {"clone"} \cup Unwired \cup Wired, Set(d, s),
         Serving(d)' => pidFile' = d,
         Serving(d) => Serving(d)' /\ UNCHANGED pidFile,
         ~Serving(d)' => UNCHANGED pidFile
  PROVE  [S!Next]_(S!slot)
<1>1. Living = {d} /\ Server = IF Serving(d) THEN {d} ELSE {}
  BY LivesAlone
<1>2. \A e \in Pid : state'[e] = IF e = d THEN s ELSE state[e]
  BY DEF Set, IInv, TypeOK
<1>3. \A e \in Pid : Alive(e)' <=> Alive(e)
  BY <1>2 DEF Alive
<1>4. Living' = Living
  BY <1>3 DEF Living
<1>5. Ended' = Ended
  BY <1>2 DEF Ended, Alive, Unwired, Wired
<1>6. \A e \in Pid \ {d} : ~Serving(e)'
  BY <1>2 DEF IInv, OneAlive, Serving, Alive, Unwired, Wired
<1>7. Server' = IF Serving(d)' THEN {d} ELSE {}
  BY <1>6 DEF Server
<1>8. CASE ~Serving(d) /\ Serving(d)'
  <2>1. S!Serve(d)
    BY <1>1, <1>4, <1>5, <1>7, <1>8 DEF S!Serve
  <2> QED
    BY <2>1 DEF S!Next
<1>9. CASE Serving(d) <=> Serving(d)'
  BY <1>1, <1>4, <1>5, <1>7, <1>9 DEF S!slot
<1> QED
  BY <1>8, <1>9

LEMMA DaemonImplements ==
  ASSUME IInv, NEW d \in Pid, Live(d) \/ Die(d)
  PROVE  [S!Next]_(S!slot)
<1> USE DEF Set
<1>1. Alive(d) /\ (Serving(d) => pidFile = d) /\ d \in DOMAIN state
  BY DEF IInv, TypeOK, Filed, Live, Die, Load, WritePid, CloneEnds, Wire, SendReady, Reload,
     Exit, Alive, Unwired, Wired
<1>2. CASE CloneEnds(d) \/ Exit(d) \/ Die(d)
  BY <1>1, <1>2, EndsSlot DEF CloneEnds, Exit, Die
<1>3. CASE Load(d)
  <2>1. PICK s \in {"loaded", "dead", "clone"} : Set(d, s)
    BY <1>3 DEF Load
  <2>2. UNCHANGED pidFile /\ state[d] = "born"
    BY <1>3 DEF Load
  <2>3. CASE s = "dead"
    BY <1>1, <2>1, <2>2, <2>3, EndsSlot
  <2>4. CASE s # "dead"
    <3>1. ~Serving(d) /\ ~Serving(d)' /\ s \in {"clone"} \cup Unwired \cup Wired
      BY <1>1, <2>1, <2>2, <2>4 DEF Serving, Unwired
    <3> QED
      BY <1>1, <2>1, <2>2, <3>1, GetsOn
  <2> QED
    BY <2>3, <2>4
<1>4. CASE WritePid(d)
  <2>1. PICK s \in {"filed", "clone"} : Set(d, s) /\ (s = "filed" => pidFile' = d)
                                       /\ (s = "clone" => UNCHANGED pidFile)
    BY <1>4 DEF WritePid
  <2>2. ~Serving(d) /\ (Serving(d)' <=> s = "filed") /\ s \in {"clone"} \cup Unwired \cup Wired
    BY <1>1, <1>4, <2>1 DEF WritePid, Serving, Unwired
  <2> QED
    BY <1>1, <2>1, <2>2, GetsOn
<1>5. CASE Wire(d) \/ SendReady(d)
  <2>1. PICK s \in Wired : Set(d, s)
    BY <1>5 DEF Wire, SendReady, Wired
  <2>2. Serving(d) /\ Serving(d)' /\ UNCHANGED pidFile
    BY <1>1, <1>5, <2>1 DEF Wire, SendReady, Serving, Wired
  <2> QED
    BY <1>1, <2>1, <2>2, GetsOn
<1>6. CASE Reload(d)
  BY <1>6, SameSlot DEF Reload, S!slot
<1> QED
  BY <1>2, <1>3, <1>4, <1>5, <1>6 DEF Live

LEMMA CommandImplements ==
  ASSUME IInv, TypeOK', NEW p \in Procs, Run(p)
  PROVE  [S!Next]_(S!slot)
<1>1. CASE Check(p) \/ Wait(p) \/ Confirm(p) \/ Grace(p)
  BY <1>1, SameSlot DEF Check, Wait, Confirm, Grace, daemons, S!slot
<1>2. CASE Unstale(p) \/ Clean(p)
  <2>1. Quiet /\ UNCHANGED state /\ pidFile' = NoPid
    BY <1>2 DEF Unstale, Clean, Step, At, IInv, Place, daemons
  <2>2. S!Clear
    BY <2>1, NobodyLives, SameSlot DEF S!Clear
  <2> QED
    BY <2>2 DEF S!Next
<1>3. CASE Fork(p)
  <2>1. CASE UNCHANGED state
    BY <1>3, <2>1, SameSlot DEF Fork, S!slot
  <2>2. ASSUME NEW d \in Pid, state[d] = "none", Set(d, "born")
        PROVE  [S!Next]_(S!slot)
    <3>1. Quiet /\ UNCHANGED pidFile
      BY <1>3 DEF Fork, Step, At, IInv, Place
    <3>2. \A e \in Pid : state'[e] = IF e = d THEN "born" ELSE state[e]
      BY <2>2 DEF Set, IInv, TypeOK
    <3>3. Living' = {d} /\ Server' = {}
      BY <3>1, <3>2 DEF Quiet, Living, Server, Alive, Serving, Unwired, Wired
    <3>4. Ended' = Ended /\ d \notin Ended
      BY <2>2, <3>2 DEF Ended
    <3>5. S!Fork(d)
      BY <3>1, <3>3, <3>4, NobodyLives DEF S!Fork
    <3> QED
      BY <3>5 DEF S!Next
  <2> QED
    BY <1>3, <2>1, <2>2 DEF Fork, Spare
<1>4. CASE Terminate(p) \/ HangUp(p)
  BY <1>4, SignalStep, SameSlot DEF Terminate, HangUp, S!slot
<1>5. CASE Kill(p)
  <2>1. CASE Alive(target[p])
    BY <1>5, <2>1, EndsSlot DEF Kill, Alive
  <2>2. CASE ~Alive(target[p])
    BY <1>5, <2>2, SameSlot DEF Kill, S!slot
  <2> QED
    BY <2>1, <2>2
<1> QED
  BY <1>1, <1>2, <1>3, <1>4, <1>5 DEF Run

\* Daemons come one after the other, each on file while it serves, whatever dies or is
\* killed in between, for any number of daemons and failures.
THEOREM Refinement == ASSUME ~Overlap PROVE Spec => RefinesSlot
<1>1. Init => S!Init
  BY DEF Init, S!Init, Living, Server, Ended, Alive, Serving, Unwired, Wired
<1>2. IInv /\ [Next]_vars => [S!Next]_(S!slot)
  <2> SUFFICES ASSUME IInv, [Next]_vars PROVE [S!Next]_(S!slot)
    OBVIOUS
  <2>1. TypeOK'
    BY TypeStep DEF IInv
  <2>2. ASSUME NEW p \in Procs, NEW c \in Commands, Begin(p, c) PROVE [S!Next]_(S!slot)
    BY <2>2, SameSlot DEF Begin, daemons, S!slot
  <2>3. CASE UNCHANGED vars
    BY <2>3, SameSlot DEF vars, S!slot
  <2> QED
    BY <2>1, <2>2, <2>3, CommandImplements, DaemonImplements DEF Next
<1> QED
  BY <1>1, <1>2, Invariance, PTL DEF Spec, RefinesSlot, S!Spec
=============================================================================
