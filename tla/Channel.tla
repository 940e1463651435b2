------------------------------ MODULE Channel ------------------------------
(***************************************************************************)
(* The channel into the guest: commands go to its agent, which takes one    *)
(* token, and when it refuses the host's the caller heals it over FreeRDP   *)
(* (core/transport, core/agent_resync.py, core/windows_exec.py).  Threads   *)
(* of a process share a lock, a generation and a cool-down; processes share *)
(* the files of the FreeRDP call.                                           *)
(***************************************************************************)
EXTENDS Naturals

CONSTANTS
  Callers,     \* threads that run commands in the guest
  Procs,       \* processes
  Home,        \* the process of a caller
  Nobody,
  MaxToken     \* bound: tokens the host ever makes

ASSUME ChannelAssumption ==
  Nobody \notin Callers /\ Home \in [Callers -> Procs] /\ MaxToken \in Nat \ {0}

Tokens == 1 .. MaxToken
None   == 0
Absent == "absent"

VARIABLES
  host,    \* agent_token.txt on the host
  baked,   \* C:\OEM\agent_token.txt
  live,    \* the token the agent loaded when it started, None when it is down
  respawn, \* what agent-respawn.ps1 is about to do: end the agent, start it anew
  at,      \* where a caller is
  job,     \* what it is: a command, or resync-token
  tok,     \* the token its client holds, None when it has none
  behind,  \* a heal has succeeded since it captured the generation
  ran,     \* the token in the script the guest has loaded for its FreeRDP session
  late,    \* tokens in scripts that go on although nobody waits for them
  script,  \* the token in resync-token.ps1, None without the file
  result,  \* resync-token-result.json
  lock,    \* who heals
  cool,    \* a heal failed within the cool-down
  fresh,   \* history: a process has verified the agent, which has not changed since
  calm     \* from now on nothing fails, and no two FreeRDP sessions meet

vars == <<host, baked, live, respawn, at, job, tok, behind, ran, late, script, result, lock,
          cool, fresh, calm>>
guestV == <<baked, live, respawn>>
files  == <<script, result>>
shared == <<lock, cool, behind>>

Jobs   == {"command", "resync"}
Healing == {"push", "session", "run", "collect", "read", "verify"}
Stages == {"idle", "dispatch", "send", "heal"} \cup Healing

TypeOK ==
  /\ host \in Tokens /\ baked \in Tokens /\ live \in Tokens \cup {None}
  /\ respawn \subseteq {"kill", "start"}
  /\ at \in [Callers -> Stages] /\ job \in [Callers -> Jobs] /\ tok \in [Callers -> Tokens \cup {None}]
  /\ behind \in [Callers -> BOOLEAN] /\ ran \in [Callers -> Tokens \cup {None}]
  /\ late \subseteq Tokens /\ script \in Tokens \cup {None}
  /\ result \in {Absent, "respawned", "written"}
  /\ lock \in [Procs -> Callers \cup {Nobody}] /\ cool \in [Procs -> BOOLEAN]
  /\ fresh \in [Procs -> BOOLEAN] /\ calm \in BOOLEAN
  /\ \A c \in Callers : (ran[c] # None) = (at[c] = "run")
  /\ \A c \in Callers : (lock[Home[c]] = c) = (at[c] \in Healing /\ job[c] = "command")

Init ==
  /\ host = 1 /\ baked = 1 /\ live = 1 /\ respawn = {}
  /\ at = [c \in Callers |-> "idle"] /\ job = [c \in Callers |-> "command"]
  /\ tok = [c \in Callers |-> None] /\ behind = [c \in Callers |-> FALSE]
  /\ ran = [c \in Callers |-> None] /\ late = {}
  /\ script = None /\ result = Absent
  /\ lock = [p \in Procs |-> Nobody] /\ cool = [p \in Procs |-> FALSE]
  /\ fresh = [p \in Procs |-> FALSE] /\ calm = FALSE

-----------------------------------------------------------------------------
Go(c, from, to) ==
  /\ at[c] = from /\ at' = [at EXCEPT ![c] = to]
  /\ tok' = IF to \in {"idle", "push"} THEN [tok EXCEPT ![c] = None] ELSE tok

Rough == ~calm

\* What a process has verified holds until the agent or the host's token changes.
Track(proved) ==
  fresh' = [p \in Procs |-> (fresh[p] \/ p \in proved) /\ live' = host']

Still == UNCHANGED <<host, guestV, late, calm>> /\ Track({})
Alone == UNCHANGED <<ran, files>>

EndHealHeld(c, ok) ==
  /\ Go(c, at[c], "idle") /\ job' = [job EXCEPT ![c] = "command"]
  /\ cool' = [cool EXCEPT ![Home[c]] = ~ok]
  /\ UNCHANGED <<lock, behind>>

\* A heal ends: the lock is free, the others know of a success, a failure cools down.
\* resync-token takes part in none of this.
EndHeal(c, ok) ==
  IF job[c] = "resync"
  THEN Go(c, at[c], "idle") /\ job' = [job EXCEPT ![c] = "command"] /\ UNCHANGED shared
  ELSE /\ Go(c, at[c], "idle") /\ UNCHANGED job
       /\ lock' = [lock EXCEPT ![Home[c]] = Nobody]
       /\ cool' = [cool EXCEPT ![Home[c]] = ~ok]
       /\ behind' = [d \in Callers |->
            behind[d] \/ (ok /\ Home[d] = Home[c] /\ at[d] \in {"send", "heal"})]

-----------------------------------------------------------------------------
(* A command: health, the choice of transport, the request.                *)

\* An agent that is down has the command go over FreeRDP, or fail: no token is used.
Call(c) ==
  /\ live # None /\ at[c] = "idle" /\ at' = [at EXCEPT ![c] = "dispatch"]
  /\ UNCHANGED job /\ tok' = [tok EXCEPT ![c] = host]
  /\ UNCHANGED shared /\ Still /\ Alone

\* The generation is captured after the client has read its token; a retry, whatever
\* its answer, heals no more, so it is the end here.
Capture(c) ==
  /\ Go(c, "dispatch", "send")
  /\ UNCHANGED <<job, shared>> /\ Still /\ Alone

\* Answered, or the agent is gone; only a refusal heals.
Send(c) ==
  /\ \/ tok[c] = live \/ live = None
     \/ Rough
  /\ Go(c, "send", "idle") /\ behind' = [behind EXCEPT ![c] = FALSE]
  /\ UNCHANGED <<job, lock, cool>> /\ Still /\ Alone

Refuse(c) ==
  /\ live \notin {None, tok[c]} /\ Go(c, "send", "heal")
  /\ UNCHANGED <<job, shared>> /\ Still /\ Alone

-----------------------------------------------------------------------------
(* heal_token_once                                                         *)

HealBlind(c) ==
  LET p == Home[c] IN
  /\ lock[p] = Nobody
  /\ \/ cool[p] /\ Go(c, "heal", "idle") /\ UNCHANGED lock
     \/ ~cool[p] /\ Go(c, "heal", "push") /\ lock' = [lock EXCEPT ![p] = c]
  /\ behind' = [behind EXCEPT ![c] = FALSE]
  /\ UNCHANGED <<job, cool>> /\ Still /\ Alone

Heal(c) ==
  LET p == Home[c] IN
  /\ lock[p] = Nobody
  /\ \/ (behind[c] \/ cool[p]) /\ Go(c, "heal", "idle") /\ UNCHANGED lock
     \/ ~behind[c] /\ ~cool[p] /\ Go(c, "heal", "push") /\ lock' = [lock EXCEPT ![p] = c]
  /\ behind' = [behind EXCEPT ![c] = FALSE]
  /\ UNCHANGED <<job, cool>> /\ Still /\ Alone

\* The command resync-token goes straight to the push.
Resync(c) ==
  /\ Rough /\ \A d \in Callers : Home[d] = Home[c] => d = c
  /\ Go(c, "idle", "push") /\ job' = [job EXCEPT ![c] = "resync"]
  /\ UNCHANGED shared /\ Still /\ Alone

-----------------------------------------------------------------------------
(* run_in_windows with the script that writes the token                    *)

\* No FreeRDP to call, or a caller that may use the agent only, is a failed heal too.
\* Two processes whose sessions meet can take each other's script away time and again;
\* in the end they do not meet.
Push(c) ==
  /\ at[c] = "push"
  /\ Rough \/ \A d \in Callers : at[d] \notin {"session", "run", "collect", "read"}
  /\ \/ /\ Go(c, "push", "session")
        /\ script' = host /\ result' = Absent /\ UNCHANGED <<job, shared>>
     \/ Rough /\ EndHeal(c, FALSE) /\ UNCHANGED files
  /\ UNCHANGED ran /\ Still

\* The guest opens whichever script has the name now.
Load(c) ==
  /\ IF script = None
     THEN Go(c, "session", "collect") /\ UNCHANGED ran
     ELSE Go(c, "session", "run") /\ ran' = [ran EXCEPT ![c] = script]
  /\ UNCHANGED <<job, shared, files>> /\ Still

RunWrites(c) ==
  /\ Go(c, "run", "collect") /\ baked' = ran[c] /\ ran' = [ran EXCEPT ![c] = None]
  /\ result' \in {"respawned", "written"}
  /\ UNCHANGED <<host, live, respawn, job, late, script, shared, calm>> /\ Track({})

\* Without the launcher the agent keeps its old token.
Run(c) ==
  /\ Go(c, "run", "collect") /\ baked' = ran[c] /\ ran' = [ran EXCEPT ![c] = None]
  /\ \/ respawn' = respawn \cup {"kill"} /\ result' = "respawned"
     \/ Rough /\ UNCHANGED respawn /\ result' = "written"
  /\ UNCHANGED <<host, live, job, late, script, shared, calm>> /\ Track({})

\* The host gives up on the session.  A script that the guest has loaded goes on.
GiveUp(c) ==
  /\ Rough /\ at[c] \in {"session", "run"} /\ EndHeal(c, FALSE)
  /\ late' = late \cup ({ran[c]} \ {None}) /\ ran' = [ran EXCEPT ![c] = None]
  /\ script' = None
  /\ UNCHANGED <<host, guestV, result, calm>> /\ Track({})

\* The session is over: the script goes, whoever's it is by now, then the result.
Collect(c) ==
  /\ Go(c, "collect", "read") /\ script' = None
  /\ UNCHANGED <<ran, result, job, shared>> /\ Still

ReadResult(c) ==
  /\ at[c] = "read" /\ result' = Absent
  /\ IF result = "respawned"
     THEN Go(c, "read", "verify") /\ UNCHANGED <<job, shared>>
     ELSE EndHeal(c, FALSE)
  /\ UNCHANGED <<ran, script>> /\ Still

\* A command with the host's token is answered, or 25 seconds have passed; the process of
\* resync-token ends with it.
Verify(c) ==
  /\ at[c] = "verify" /\ UNCHANGED <<host, guestV, late, calm>> /\ Alone
  /\ \/ live = host /\ EndHeal(c, TRUE)
        /\ Track(IF job[c] = "command" THEN {Home[c]} ELSE {})
     \/ (Rough \/ (live # host /\ respawn = {})) /\ EndHeal(c, FALSE) /\ Track({})

-----------------------------------------------------------------------------
(* Around them.                                                            *)

\* agent-respawn.ps1 ends whatever agent runs.
Kill ==
  /\ "kill" \in respawn /\ respawn' = {"start"} /\ live' = None
  /\ UNCHANGED <<host, baked, at, job, tok, shared, ran, late, files, calm>>
  /\ Track({})

\* Then it starts one, which ends at once where another has the port; with its launcher
\* gone it starts none, and the guest has no agent until the next logon.
Respawn ==
  /\ "start" \in respawn /\ respawn' = respawn \ {"start"}
  /\ \/ live' = IF live = None THEN baked ELSE live
     \/ Rough /\ UNCHANGED live
  /\ UNCHANGED <<host, baked, at, job, tok, shared, ran, late, files, calm>>
  /\ Track({})

\* A logon starts the agent.
Boot ==
  /\ live = None /\ live' = baked
  /\ UNCHANGED <<host, baked, respawn, at, job, tok, shared, ran, late, files, calm>>
  /\ Track({})

Die ==
  /\ Rough /\ live # None /\ live' = None
  /\ UNCHANGED <<host, baked, respawn, at, job, tok, shared, ran, late, files, calm>>
  /\ Track({})

\* A script of a session that was given up; its result has nowhere to go.
LateRun ==
  /\ \E t \in late : baked' = t /\ late' = late \ {t}
  /\ respawn' = respawn \cup {"kill"}
  /\ UNCHANGED <<host, live, at, job, tok, shared, ran, files, calm>>
  /\ Track({})

\* An uninstall that keeps the guest's disk, and a new token.
Drift ==
  /\ Rough /\ host < MaxToken /\ host' = host + 1
  /\ UNCHANGED <<guestV, at, job, tok, shared, ran, late, files, calm>>
  /\ Track({})

Expire(p) ==
  /\ cool[p] /\ cool' = [cool EXCEPT ![p] = FALSE]
  /\ UNCHANGED <<at, job, tok, lock, behind>> /\ Still /\ Alone

\* A process dies: its threads, lock and cool-down with it.
Crash(p) ==
  LET own == {c \in Callers : Home[c] = p} IN
  /\ Rough /\ \E c \in own : at[c] # "idle"
  /\ at' = [c \in Callers |-> IF c \in own THEN "idle" ELSE at[c]]
  /\ late' = late \cup ({ran[c] : c \in own} \ {None})
  /\ ran' = [c \in Callers |-> IF c \in own THEN None ELSE ran[c]]
  /\ tok' = [c \in Callers |-> IF c \in own THEN None ELSE tok[c]]
  /\ behind' = [c \in Callers |-> behind[c] /\ c \notin own]
  /\ job' = [c \in Callers |-> IF c \in own THEN "command" ELSE job[c]]
  /\ lock' = [lock EXCEPT ![p] = Nobody] /\ cool' = [cool EXCEPT ![p] = FALSE]
  /\ fresh' = [fresh EXCEPT ![p] = FALSE]
  /\ UNCHANGED <<host, guestV, files, calm>>

Settle ==
  /\ Rough /\ calm' = TRUE /\ \A c \in Callers : at[c] = "idle"
  /\ UNCHANGED <<host, guestV, at, job, tok, shared, ran, late, files>> /\ Track({})

-----------------------------------------------------------------------------
Command(c) ==
  \/ Call(c) \/ Capture(c) \/ Send(c) \/ Refuse(c) \/ Heal(c)
  \/ Push(c) \/ Load(c) \/ Run(c) \/ Collect(c) \/ ReadResult(c)
  \/ Verify(c)

Next ==
  \/ \E c \in Callers : Command(c) \/ Resync(c) \/ GiveUp(c)
  \/ \E p \in Procs : Expire(p) \/ Crash(p)
  \/ Kill \/ Respawn \/ Boot \/ Die \/ LateRun \/ Drift \/ Settle

Passes == Kill \/ Respawn \/ Boot \/ LateRun \/ \E p \in Procs : Expire(p)

\* Threads go on and call again, cool-downs pass, and the guest starts its agent.
Fairness == WF_vars(\E c \in Callers : Command(c)) /\ WF_vars(Passes)

Spec == Init /\ [][Next]_vars /\ Fairness

-----------------------------------------------------------------------------
(* Properties.                                                             *)

\* Threads that are refused together push once between them: none starts a push while
\* the agent still takes what its process has verified, unless its own client is older.
OnePush == [][\A c \in Callers :
  Heal(c) /\ at'[c] = "push" /\ fresh[Home[c]] => tok[c] # host]_vars

\* Whatever two processes do to each other's files, and whatever scripts were left
\* running, in the end the agent takes the host's token.
Healed == []<>(calm => live = host)
=============================================================================
