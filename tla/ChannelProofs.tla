--------------------------- MODULE ChannelProofs ---------------------------
(***************************************************************************)
(* What holds of the heals, for any number of threads, processes and        *)
(* tokens.                                                                  *)
(***************************************************************************)
EXTENDS Channel, TLAPS

\* resync-token is a process of its own, and does nothing but push.
Lone == \A c \in Callers : job[c] = "resync" =>
  at[c] \in Healing /\ \A d \in Callers : Home[d] = Home[c] => d = c

\* No client is ahead of the host, and a caller that is to heal although its process has
\* verified the agent since has an older token.
Older == \A c \in Callers :
  /\ tok[c] <= host
  /\ at[c] = "heal" /\ fresh[Home[c]] /\ ~behind[c] => tok[c] # host

IInv == TypeOK /\ Lone /\ Older

-----------------------------------------------------------------------------
\* A move of one caller, within its type and nobody else's.
Moved(c) ==
  /\ at' \in [Callers -> Stages] /\ tok' \in [Callers -> Tokens \cup {None}]
  /\ \A d \in Callers \ {c} : at'[d] = at[d] /\ tok'[d] = tok[d]

LEMMA GoMoves ==
  ASSUME TypeOK, NEW c \in Callers, NEW from, NEW to \in Stages, Go(c, from, to)
  PROVE  /\ Moved(c) /\ at[c] = from /\ at'[c] = to
         /\ tok'[c] \in {tok[c], None}
  <1>1. at[c] = from /\ at'[c] = to /\ at' \in [Callers -> Stages]
        /\ \A d \in Callers \ {c} : at'[d] = at[d]
    BY DEF Go, TypeOK
  <1>2. CASE to \in {"idle", "push"}
    <2>1. tok' = [tok EXCEPT ![c] = None]
      BY <1>2 DEF Go
    <2> QED BY <1>1, <2>1 DEF Moved, TypeOK
  <1>3. CASE to \notin {"idle", "push"}
    <2>1. tok' = tok
      BY <1>3 DEF Go
    <2> QED BY <1>1, <2>1 DEF Moved, TypeOK
  <1> QED BY <1>2, <1>3

LEMMA TrackTypes ==
  ASSUME TypeOK, NEW proved, Track(proved)
  PROVE  /\ fresh' \in [Procs -> BOOLEAN]
         /\ \A p \in Procs : fresh'[p] => (fresh[p] \/ p \in proved) /\ live' = host'
  BY Zenon DEF Track, TypeOK

LEMMA EndHealEnds ==
  ASSUME TypeOK, NEW c \in Callers, NEW ok \in BOOLEAN, EndHeal(c, ok), at[c] \in Healing
  PROVE  /\ Moved(c) /\ at'[c] = "idle" /\ tok'[c] \in {tok[c], None}
         /\ job' \in [Callers -> Jobs] /\ job'[c] = "command"
         /\ \A d \in Callers \ {c} : job'[d] = job[d]
         /\ lock' \in [Procs -> Callers \cup {Nobody}] /\ cool' \in [Procs -> BOOLEAN]
         /\ lock'[Home[c]] # c
         /\ \A d \in Callers \ {c} : (lock'[Home[d]] = d) = (lock[Home[d]] = d)
         /\ behind' \in [Callers -> BOOLEAN]
         /\ \A d \in Callers : behind[d] => behind'[d]
         /\ ok /\ job[c] = "command" =>
              \A d \in Callers : Home[d] = Home[c] /\ at[d] \in {"send", "heal"} => behind'[d]
  <1> USE ChannelAssumption
  <1>1. Go(c, at[c], "idle")
    BY DEF EndHeal
  <1>2. Moved(c) /\ at'[c] = "idle" /\ tok'[c] \in {tok[c], None}
    BY <1>1, GoMoves DEF Stages
  <1>3. CASE job[c] = "resync"
    <2>1. job' = [job EXCEPT ![c] = "command"] /\ lock' = lock /\ cool' = cool /\ behind' = behind
      BY <1>3 DEF EndHeal, shared
    <2> QED BY <1>2, <1>3, <2>1 DEF TypeOK, Jobs
  <1>4. CASE job[c] # "resync"
    <2>1. /\ job' = job /\ lock' = [lock EXCEPT ![Home[c]] = Nobody]
          /\ cool' = [cool EXCEPT ![Home[c]] = ~ok]
          /\ behind' = [d \in Callers |->
               behind[d] \/ (ok /\ Home[d] = Home[c] /\ at[d] \in {"send", "heal"})]
      BY <1>4 DEF EndHeal
    <2>2. cool' \in [Procs -> BOOLEAN]
      BY <2>1, Zenon DEF TypeOK
    <2>3. behind' \in [Callers -> BOOLEAN]
      BY <2>1, Zenon DEF TypeOK
    <2>4. /\ \A d \in Callers : behind[d] => behind'[d]
          /\ ok => \A d \in Callers :
               Home[d] = Home[c] /\ at[d] \in {"send", "heal"} => behind'[d]
      BY <2>1, Zenon
    <2>5. job[c] = "command" /\ lock[Home[c]] = c
      BY <1>4 DEF TypeOK, Jobs
    <2>6. /\ lock' \in [Procs -> Callers \cup {Nobody}] /\ lock'[Home[c]] # c
          /\ \A d \in Callers \ {c} : (lock'[Home[d]] = d) = (lock[Home[d]] = d)
      BY <2>1, <2>5 DEF TypeOK
    <2> QED BY <1>2, <2>1, <2>2, <2>3, <2>4, <2>5, <2>6 DEF TypeOK
  <1> QED BY <1>3, <1>4

\* The part of IInv that a step of c leaves to show when its moves are within their types.
Typed ==
  /\ host' \in Tokens /\ baked' \in Tokens /\ live' \in Tokens \cup {None}
  /\ respawn' \in SUBSET {"kill", "start"}
  /\ behind' \in [Callers -> BOOLEAN] /\ late' \in SUBSET Tokens
  /\ script' \in Tokens \cup {None} /\ result' \in {Absent, "respawned", "written"}
  /\ lock' \in [Procs -> Callers \cup {Nobody}] /\ cool' \in [Procs -> BOOLEAN]
  /\ fresh' \in [Procs -> BOOLEAN] /\ calm' \in BOOLEAN

\* A caller moves: what it holds, and what it takes for verified, stays in order.
LEMMA MoveKeeps ==
  ASSUME IInv, NEW c \in Callers, Moved(c), Typed, host' = host,
         tok'[c] \in {tok[c], None, host},
         job' \in [Callers -> Jobs], \A d \in Callers \ {c} : job'[d] = job[d],
         job'[c] = "resync" => at'[c] \in Healing /\ \A d \in Callers : Home[d] = Home[c] => d = c,
         ran' \in [Callers -> Tokens \cup {None}], \A d \in Callers \ {c} : ran'[d] = ran[d],
         (ran'[c] # None) = (at'[c] = "run"),
         (lock'[Home[c]] = c) = (at'[c] \in Healing /\ job'[c] = "command"),
         \A d \in Callers \ {c} : (lock'[Home[d]] = d) = (lock[Home[d]] = d),
         at'[c] = "heal" /\ fresh'[Home[c]] => tok'[c] # host,
         \A d \in Callers \ {c} :
           at[d] = "heal" /\ fresh'[Home[d]] => (behind[d] => behind'[d]) /\ (fresh[Home[d]] \/ behind'[d])
  PROVE  IInv'
  <1> USE ChannelAssumption
  <1>1. TypeOK'
    BY DEF IInv, TypeOK, Moved, Typed
  <1>2. Lone'
    BY DEF IInv, Lone, TypeOK, Moved
  <1>3. \A d \in Callers : tok'[d] <= host'
    BY DEF IInv, Older, Moved, TypeOK, Tokens, None
  <1>4. ASSUME NEW d \in Callers, at'[d] = "heal", fresh'[Home[d]], ~behind'[d]
        PROVE  tok'[d] # host'
    <2>1. CASE d = c
      BY <2>1, <1>4
    <2>2. CASE d # c
      <3>1. at[d] = "heal" /\ tok'[d] = tok[d]
        BY <2>2, <1>4 DEF Moved
      <3>2. fresh[Home[d]] /\ ~behind[d]
        BY <2>2, <1>4, <3>1
      <3> QED BY <3>1, <3>2 DEF IInv, Older
    <2> QED BY <2>1, <2>2
  <1> QED BY <1>1, <1>2, <1>3, <1>4 DEF IInv, Older

\* A step of the world leaves every caller where it is.
LEMMA WorldKeeps ==
  ASSUME IInv, Typed, UNCHANGED <<at, job, ran, lock, behind>>,
         tok' = tok, host' \in {host, host + 1},
         \A p \in Procs : fresh'[p] => fresh[p]
  PROVE  IInv'
  <1> USE ChannelAssumption
  <1>1. TypeOK'
    BY DEF IInv, TypeOK, Typed
  <1>2. Lone'
    BY DEF IInv, Lone
  <1>3. host \in Nat /\ host <= host' /\ \A d \in Callers : tok[d] \in Nat /\ tok[d] <= host
    BY DEF IInv, Older, TypeOK, Tokens, None
  <1>4. Older'
    BY <1>3 DEF IInv, Older
  <1> QED BY <1>1, <1>2, <1>4 DEF IInv

\* The part of Typed that Still and Alone take care of.
LEMMA StillTyped ==
  ASSUME IInv, Still
  PROVE  /\ UNCHANGED <<host, baked, live, respawn, late, calm>>
         /\ fresh' \in [Procs -> BOOLEAN] /\ \A p \in Procs : fresh'[p] => fresh[p] /\ live = host
  <1>1. UNCHANGED <<host, baked, live, respawn, late, calm>> /\ Track({})
    BY DEF Still, guestV
  <1>2. fresh' \in [Procs -> BOOLEAN] /\ \A p \in Procs : fresh'[p] => fresh[p] /\ live' = host'
    BY <1>1, TrackTypes DEF IInv
  <1> QED BY <1>1, <1>2

LEMMA EndKeeps ==
  ASSUME IInv, NEW c \in Callers, NEW ok \in BOOLEAN, EndHeal(c, ok), at[c] \in Healing,
         host' = host, baked' \in Tokens, live' \in Tokens \cup {None},
         respawn' \in SUBSET {"kill", "start"},
         late' \in SUBSET Tokens, script' \in Tokens \cup {None},
         result' \in {Absent, "respawned", "written"}, calm' \in BOOLEAN,
         ran' \in [Callers -> Tokens \cup {None}], \A d \in Callers \ {c} : ran'[d] = ran[d],
         ran'[c] = None, NEW proved \in SUBSET {Home[c]}, ok \/ proved = {}, Track(proved)
  PROVE  IInv'
  <1> USE ChannelAssumption
  <1>1. /\ Moved(c) /\ at'[c] = "idle" /\ tok'[c] \in {tok[c], None}
        /\ job' \in [Callers -> Jobs] /\ job'[c] = "command"
        /\ \A d \in Callers \ {c} : job'[d] = job[d]
        /\ lock' \in [Procs -> Callers \cup {Nobody}] /\ cool' \in [Procs -> BOOLEAN]
        /\ lock'[Home[c]] # c
        /\ \A d \in Callers \ {c} : (lock'[Home[d]] = d) = (lock[Home[d]] = d)
        /\ behind' \in [Callers -> BOOLEAN]
        /\ \A d \in Callers : behind[d] => behind'[d]
        /\ ok /\ job[c] = "command" =>
             \A d \in Callers : Home[d] = Home[c] /\ at[d] \in {"send", "heal"} => behind'[d]
    BY EndHealEnds DEF IInv
  <1>2. /\ fresh' \in [Procs -> BOOLEAN]
        /\ \A p \in Procs : fresh'[p] => fresh[p] \/ (ok /\ p = Home[c])
    BY TrackTypes DEF IInv
  <1>3. \A d \in Callers \ {c} :
           at[d] = "heal" /\ fresh'[Home[d]] => (behind[d] => behind'[d]) /\ (fresh[Home[d]] \/ behind'[d])
    <2> SUFFICES ASSUME NEW d \in Callers \ {c}, at[d] = "heal", ok, Home[d] = Home[c]
                 PROVE  behind'[d]
      BY <1>1, <1>2
    <2>1. job[c] = "command"
      BY DEF IInv, Lone, TypeOK, Jobs
    <2> QED BY <1>1, <2>1
  <1>4. Typed
    BY <1>1, <1>2 DEF Typed, IInv, TypeOK
  <1> QED BY <1>1, <1>3, <1>4, MoveKeeps DEF Healing

-----------------------------------------------------------------------------
LEMMA CallKeeps ==
  ASSUME IInv, NEW c \in Callers, Call(c)
  PROVE  IInv'
  <1> USE ChannelAssumption
  <1>1. /\ at[c] = "idle" /\ at' = [at EXCEPT ![c] = "dispatch"] /\ tok' = [tok EXCEPT ![c] = host]
        /\ UNCHANGED <<job, lock, cool, behind, ran, script, result>> /\ Still
    BY DEF Call, shared, Alone, files
  <1>2. Typed
    BY <1>1, StillTyped DEF Typed, IInv, TypeOK
  <1>3. Moved(c) /\ at'[c] = "dispatch" /\ tok'[c] = host
    BY <1>1 DEF Moved, IInv, TypeOK, Stages
  <1> QED BY <1>1, <1>2, <1>3, StillTyped, MoveKeeps DEF IInv, TypeOK, Lone, Healing

LEMMA PlainKeeps ==
  ASSUME IInv, NEW c \in Callers,
         Capture(c) \/ Send(c) \/ Refuse(c)
  PROVE  IInv'
  <1> USE ChannelAssumption
  <1>1. /\ UNCHANGED <<job, lock, cool, ran, script, result>> /\ Still
        /\ behind' \in [Callers -> BOOLEAN] /\ \A d \in Callers \ {c} : behind'[d] = behind[d]
    BY DEF Capture, Send, Refuse, shared, Alone, files, IInv, TypeOK
  <1>2. Typed
    BY <1>1, StillTyped DEF Typed, IInv, TypeOK
  <1>3. PICK from \in {"dispatch", "send"}, to \in {"send", "idle", "heal"} :
          Go(c, from, to) /\ (to = "heal" => live # tok[c])
    BY DEF Capture, Send, Refuse
  <1>4. Moved(c) /\ at[c] = from /\ at'[c] = to /\ tok'[c] \in {tok[c], None}
    BY <1>3, GoMoves DEF IInv, Stages
  <1>5. to = "heal" => tok' = tok
    BY <1>3 DEF Go
  <1>6. at'[c] = "heal" /\ fresh'[Home[c]] => tok'[c] # host
    BY <1>1, <1>3, <1>4, <1>5, StillTyped
  <1> QED BY <1>1, <1>2, <1>3, <1>4, <1>6, StillTyped, MoveKeeps DEF IInv, TypeOK, Lone, Healing

LEMMA HealKeeps ==
  ASSUME IInv, NEW c \in Callers, Heal(c)
  PROVE  IInv'
  <1> USE ChannelAssumption
  <1>1. /\ lock[Home[c]] = Nobody /\ UNCHANGED <<job, cool, ran, script, result>> /\ Still
        /\ behind' = [behind EXCEPT ![c] = FALSE]
    BY DEF Heal, Alone, files
  <1>2. behind' \in [Callers -> BOOLEAN] /\ \A d \in Callers \ {c} : behind'[d] = behind[d]
    BY <1>1 DEF IInv, TypeOK
  <1>3. CASE Go(c, "heal", "idle") /\ lock' = lock
    <2>1. Moved(c) /\ at[c] = "heal" /\ at'[c] = "idle" /\ tok'[c] \in {tok[c], None}
      BY <1>3, GoMoves DEF IInv, Stages
    <2>2. Typed
      BY <1>1, <1>2, <1>3, StillTyped DEF Typed, IInv, TypeOK
    <2> QED BY <1>1, <1>2, <1>3, <2>1, <2>2, StillTyped, MoveKeeps DEF IInv, TypeOK, Lone, Healing
  <1>4. CASE Go(c, "heal", "push") /\ lock' = [lock EXCEPT ![Home[c]] = c]
    <2>1. Moved(c) /\ at[c] = "heal" /\ at'[c] = "push" /\ tok'[c] \in {tok[c], None}
      BY <1>4, GoMoves DEF IInv, Stages, Healing
    <2>2. lock' \in [Procs -> Callers \cup {Nobody}] /\ lock'[Home[c]] = c
      BY <1>4 DEF IInv, TypeOK
    <2>3. \A d \in Callers \ {c} : (lock'[Home[d]] = d) = (lock[Home[d]] = d)
      BY <1>1, <1>4 DEF IInv, TypeOK
    <2>4. Typed
      BY <1>1, <1>2, <2>2, StillTyped DEF Typed, IInv, TypeOK
    <2>5. job[c] = "command"
      BY <2>1 DEF IInv, Lone, TypeOK, Jobs, Healing
    <2> QED BY <1>1, <1>2, <2>1, <2>2, <2>3, <2>4, <2>5, StillTyped, MoveKeeps DEF IInv, TypeOK, Lone, Healing
  <1> QED BY <1>3, <1>4 DEF Heal

LEMMA ResyncKeeps ==
  ASSUME IInv, NEW c \in Callers, Resync(c)
  PROVE  IInv'
  <1> USE ChannelAssumption
  <1>1. /\ \A d \in Callers : Home[d] = Home[c] => d = c
        /\ Go(c, "idle", "push") /\ job' = [job EXCEPT ![c] = "resync"]
        /\ UNCHANGED <<lock, cool, behind, ran, script, result>> /\ Still
    BY DEF Resync, shared, Alone, files
  <1>2. Moved(c) /\ at[c] = "idle" /\ at'[c] = "push" /\ tok'[c] \in {tok[c], None}
    BY <1>1, GoMoves DEF IInv, Stages, Healing
  <1>3. /\ job' \in [Callers -> Jobs] /\ job'[c] = "resync"
        /\ \A d \in Callers \ {c} : job'[d] = job[d]
    BY <1>1 DEF IInv, TypeOK, Jobs
  <1>4. Typed
    BY <1>1, StillTyped DEF Typed, IInv, TypeOK
  <1> QED BY <1>1, <1>2, <1>3, <1>4, StillTyped, MoveKeeps DEF IInv, TypeOK, Healing

\* What a caller that goes on with its heal leaves alone.
LEMMA OnKeeps ==
  ASSUME IInv, NEW c \in Callers, NEW from \in Healing, NEW to \in Healing, Go(c, from, to),
         UNCHANGED <<job, lock, cool, behind>>, host' = host, Typed,
         ran' \in [Callers -> Tokens \cup {None}], \A d \in Callers \ {c} : ran'[d] = ran[d],
         (ran'[c] # None) = (to = "run"),
         \A p \in Procs : fresh'[p] => fresh[p]
  PROVE  IInv'
  <1> USE ChannelAssumption
  <1>1. Moved(c) /\ at[c] = from /\ at'[c] = to /\ tok'[c] \in {tok[c], None}
    BY GoMoves DEF IInv, Stages
  <1>2. to # "heal"
    BY DEF Healing
  <1> QED BY <1>1, <1>2, MoveKeeps DEF IInv, TypeOK, Lone

LEMMA PushKeeps ==
  ASSUME IInv, NEW c \in Callers, Push(c)
  PROVE  IInv'
  <1> USE ChannelAssumption
  <1>1. at[c] = "push" /\ ran' = ran /\ Still
    BY DEF Push
  <1>2. CASE Go(c, "push", "session") /\ script' = host /\ result' = Absent /\ UNCHANGED <<job, shared>>
    <2>1. Typed
      BY <1>1, <1>2, StillTyped DEF Typed, IInv, TypeOK, shared
    <2> QED BY <1>1, <1>2, <2>1, StillTyped, OnKeeps DEF IInv, TypeOK, shared, Healing
  <1>3. CASE EndHeal(c, FALSE) /\ UNCHANGED files
    <2>1. Track({})
      BY <1>1 DEF Still
    <2>2. ran'[c] = None
      BY <1>1 DEF IInv, TypeOK
    <2> QED BY <1>1, <1>3, <2>1, <2>2, StillTyped, EndKeeps DEF IInv, TypeOK, files, Healing
  <1> QED BY <1>2, <1>3 DEF Push

LEMMA LoadKeeps ==
  ASSUME IInv, NEW c \in Callers, Load(c)
  PROVE  IInv'
  <1> USE ChannelAssumption
  <1>1. UNCHANGED <<job, lock, cool, behind, script, result>> /\ Still
    BY DEF Load, shared, files
  <1>2. Typed
    BY <1>1, StillTyped DEF Typed, IInv, TypeOK
  <1>3. CASE Go(c, "session", "collect") /\ ran' = ran
    <2>1. ran[c] = None
      BY <1>3 DEF Go, IInv, TypeOK
    <2> QED BY <1>1, <1>2, <1>3, <2>1, StillTyped, OnKeeps DEF IInv, TypeOK, Healing
  <1>4. CASE script # None /\ Go(c, "session", "run") /\ ran' = [ran EXCEPT ![c] = script]
    <2>1. /\ ran' \in [Callers -> Tokens \cup {None}] /\ ran'[c] # None
          /\ \A d \in Callers \ {c} : ran'[d] = ran[d]
      BY <1>4 DEF IInv, TypeOK
    <2> QED BY <1>1, <1>2, <1>4, <2>1, StillTyped, OnKeeps DEF Healing
  <1> QED BY <1>3, <1>4 DEF Load

LEMMA RunKeeps ==
  ASSUME IInv, NEW c \in Callers, Run(c)
  PROVE  IInv'
  <1> USE ChannelAssumption
  <1>1. /\ Go(c, "run", "collect") /\ baked' = ran[c] /\ ran' = [ran EXCEPT ![c] = None]
        /\ UNCHANGED <<host, live, job, late, script, lock, cool, behind, calm>> /\ Track({})
        /\ result' \in {"respawned", "written"} /\ respawn' \in {respawn \cup {"kill"}, respawn}
    BY DEF Run, shared
  <1>2. at[c] = "run" /\ baked' \in Tokens
    BY <1>1 DEF Go, IInv, TypeOK
  <1>3. /\ ran' \in [Callers -> Tokens \cup {None}] /\ ran'[c] = None
        /\ \A d \in Callers \ {c} : ran'[d] = ran[d]
    BY <1>1 DEF IInv, TypeOK
  <1>4. fresh' \in [Procs -> BOOLEAN] /\ \A p \in Procs : fresh'[p] => fresh[p]
    BY <1>1, TrackTypes DEF IInv
  <1>5. respawn' \in SUBSET {"kill", "start"}
    BY <1>1 DEF IInv, TypeOK
  <1>6. Typed
    BY <1>1, <1>2, <1>4, <1>5 DEF Typed, IInv, TypeOK
  <1> QED BY <1>1, <1>3, <1>4, <1>6, OnKeeps DEF Healing

LEMMA GiveUpKeeps ==
  ASSUME IInv, NEW c \in Callers, GiveUp(c)
  PROVE  IInv'
  <1> USE ChannelAssumption
  <1>1. /\ at[c] \in {"session", "run"} /\ EndHeal(c, FALSE)
        /\ late' = late \cup ({ran[c]} \ {None}) /\ ran' = [ran EXCEPT ![c] = None]
        /\ script' = None /\ UNCHANGED <<host, baked, live, respawn, result, calm>>
        /\ Track({})
    BY DEF GiveUp, guestV
  <1>2. /\ ran' \in [Callers -> Tokens \cup {None}] /\ ran'[c] = None
        /\ \A d \in Callers \ {c} : ran'[d] = ran[d]
    BY <1>1 DEF IInv, TypeOK
  <1>3. /\ baked' \in Tokens /\ live' \in Tokens \cup {None}
        /\ respawn' \in SUBSET {"kill", "start"}
        /\ late' \in SUBSET Tokens /\ script' \in Tokens \cup {None}
        /\ result' \in {Absent, "respawned", "written"} /\ calm' \in BOOLEAN
    BY <1>1 DEF IInv, TypeOK
  <1>4. at[c] \in Healing
    BY <1>1 DEF Healing
  <1> QED BY <1>1, <1>2, <1>3, <1>4, EndKeeps

LEMMA CollectKeeps ==
  ASSUME IInv, NEW c \in Callers, Collect(c)
  PROVE  IInv'
  <1> USE ChannelAssumption
  <1>1. /\ Go(c, "collect", "read") /\ script' = None
        /\ UNCHANGED <<ran, result, job, lock, cool, behind>> /\ Still
    BY DEF Collect, shared
  <1>2. ran[c] = None
    BY <1>1 DEF Go, IInv, TypeOK
  <1>3. Typed
    BY <1>1, StillTyped DEF Typed, IInv, TypeOK
  <1> QED BY <1>1, <1>2, <1>3, StillTyped, OnKeeps DEF IInv, TypeOK, Healing

LEMMA ReadResultKeeps ==
  ASSUME IInv, NEW c \in Callers, ReadResult(c)
  PROVE  IInv'
  <1> USE ChannelAssumption
  <1>1. at[c] = "read" /\ UNCHANGED <<script, ran>> /\ result' = Absent /\ Still
    BY DEF ReadResult
  <1>2. ran[c] = None
    BY <1>1 DEF IInv, TypeOK
  <1>3. CASE Go(c, "read", "verify") /\ UNCHANGED <<job, shared>>
    <2>1. Typed
      BY <1>1, <1>3, StillTyped DEF Typed, IInv, TypeOK, shared
    <2> QED BY <1>1, <1>2, <1>3, <2>1, StillTyped, OnKeeps DEF IInv, TypeOK, shared, Healing
  <1>4. CASE EndHeal(c, FALSE)
    <2>1. Track({})
      BY <1>1 DEF Still
    <2> QED BY <1>1, <1>2, <1>4, <2>1, StillTyped, EndKeeps DEF IInv, TypeOK, Healing
  <1> QED BY <1>3, <1>4 DEF ReadResult

LEMMA VerifyKeeps ==
  ASSUME IInv, NEW c \in Callers, Verify(c)
  PROVE  IInv'
  <1> USE ChannelAssumption
  <1>1. /\ at[c] = "verify"
        /\ UNCHANGED <<host, baked, live, respawn, late, calm, ran, script, result>>
    BY DEF Verify, Alone, files, guestV
  <1>2. at[c] \in Healing
    BY <1>1 DEF Healing
  <1>3. ran' \in [Callers -> Tokens \cup {None}] /\ ran' = ran /\ ran'[c] = None
    BY <1>1 DEF IInv, TypeOK
  <1>4. /\ baked' \in Tokens /\ live' \in Tokens \cup {None}
        /\ respawn' \in SUBSET {"kill", "start"}
        /\ late' \in SUBSET Tokens /\ script' \in Tokens \cup {None}
        /\ result' \in {Absent, "respawned", "written"} /\ calm' \in BOOLEAN
    BY <1>1 DEF IInv, TypeOK
  <1>5. CASE EndHeal(c, TRUE) /\ Track(IF job[c] = "command" THEN {Home[c]} ELSE {})
    BY <1>1, <1>2, <1>3, <1>4, <1>5, EndKeeps
  <1>6. CASE EndHeal(c, FALSE) /\ Track({})
    BY <1>1, <1>2, <1>3, <1>4, <1>6, EndKeeps
  <1> QED BY <1>5, <1>6 DEF Verify

LEMMA WorldStepKeeps ==
  ASSUME IInv, Kill \/ Respawn \/ Boot \/ Die \/ LateRun \/ Drift \/ Settle
  PROVE  IInv'
  <1>1. /\ UNCHANGED <<at, job, tok, ran, lock, cool, behind, script, result>> /\ Track({})
        /\ host' \in {host, host + 1}
    BY DEF Kill, Respawn, Boot, Die, LateRun, Drift, Settle, shared, files, guestV, IInv, TypeOK,
           Tokens
  <1>2. fresh' \in [Procs -> BOOLEAN] /\ \A p \in Procs : fresh'[p] => fresh[p]
    BY <1>1, TrackTypes DEF IInv
  <1> DEFINE Goal == /\ baked' \in Tokens
                     /\ live' \in Tokens \cup {None}
                     /\ late' \in SUBSET Tokens
                     /\ host' \in Tokens
  <1>0. /\ baked \in Tokens
        /\ live \in Tokens \cup {None}
        /\ late \in SUBSET Tokens
        /\ host \in Tokens
    BY DEF IInv, TypeOK
  <1>3. Goal
    <2>1. CASE Kill \/ Respawn \/ Boot \/ Die \/ Settle
      BY <1>0, <2>1 DEF Kill, Respawn, Boot, Die, Settle, guestV
    <2>2. CASE LateRun
      <3>1. PICK t \in late : baked' = t /\ late' = late \ {t}
        BY <2>2 DEF LateRun
      <3>2. UNCHANGED <<host, live>>
        BY <2>2 DEF LateRun
      <3> QED BY <1>0, <3>1, <3>2
    <2>3. CASE Drift
      <3>1. host < MaxToken /\ host' = host + 1 /\ UNCHANGED <<baked, live, late>>
        BY <2>3 DEF Drift, guestV
      <3>2. host' \in Tokens
        BY <1>0, <3>1, ChannelAssumption DEF Tokens
      <3> QED BY <1>0, <3>1, <3>2
    <2> QED BY <2>1, <2>2, <2>3
  <1>4. respawn' \in SUBSET {"kill", "start"} /\ calm' \in BOOLEAN
    BY DEF Kill, Respawn, Boot, Die, LateRun, Drift, Settle, guestV, IInv, TypeOK
  <1>5. Typed
    BY <1>1, <1>2, <1>3, <1>4 DEF Typed, IInv, TypeOK
  <1> QED BY <1>1, <1>2, <1>5, WorldKeeps

LEMMA ExpireKeeps ==
  ASSUME IInv, NEW p \in Procs, Expire(p)
  PROVE  IInv'
  <1>1. /\ cool' = [cool EXCEPT ![p] = FALSE]
        /\ UNCHANGED <<at, job, tok, lock, behind, ran, script, result>> /\ Still
    BY DEF Expire, Alone, files
  <1>2. Typed
    BY <1>1, StillTyped DEF Typed, IInv, TypeOK
  <1> QED BY <1>1, <1>2, StillTyped, WorldKeeps

LEMMA CrashKeeps ==
  ASSUME IInv, NEW p \in Procs, Crash(p)
  PROVE  IInv'
  <1> USE ChannelAssumption
  <1> DEFINE own == {c \in Callers : Home[c] = p}
  <1>1. /\ at' = [c \in Callers |-> IF c \in own THEN "idle" ELSE at[c]]
        /\ ran' = [c \in Callers |-> IF c \in own THEN None ELSE ran[c]]
        /\ tok' = [c \in Callers |-> IF c \in own THEN None ELSE tok[c]]
        /\ job' = [c \in Callers |-> IF c \in own THEN "command" ELSE job[c]]
        /\ lock' = [lock EXCEPT ![p] = Nobody]
        /\ fresh' = [fresh EXCEPT ![p] = FALSE]
        /\ late' = late \cup ({ran[c] : c \in own} \ {None})
        /\ cool' = [cool EXCEPT ![p] = FALSE]
        /\ UNCHANGED <<host, baked, live, respawn, script, result, calm>>
    BY DEF Crash, guestV, files
  <1>2. behind' = [c \in Callers |-> behind[c] /\ c \notin own]
    BY DEF Crash
  <1>3. behind' \in [Callers -> BOOLEAN]
    BY <1>2, Zenon DEF IInv, TypeOK
  <1>4. \A c \in Callers : c \notin own => behind'[c] = behind[c]
    <2> SUFFICES ASSUME NEW c \in Callers, c \notin own PROVE behind'[c] = behind[c]
      OBVIOUS
    <2>1. behind'[c] = (behind[c] /\ c \notin own)
      BY <1>2, Zenon
    <2>2. behind[c] \in BOOLEAN
      BY DEF IInv, TypeOK
    <2> QED BY <2>1, <2>2, Zenon
  <1>5. late' \subseteq Tokens
    BY <1>1 DEF IInv, TypeOK
  <1>6. /\ at' \in [Callers -> Stages] /\ ran' \in [Callers -> Tokens \cup {None}]
        /\ tok' \in [Callers -> Tokens \cup {None}] /\ job' \in [Callers -> Jobs]
        /\ lock' \in [Procs -> Callers \cup {Nobody}]
        /\ fresh' \in [Procs -> BOOLEAN] /\ cool' \in [Procs -> BOOLEAN]
    BY <1>1 DEF IInv, TypeOK, Stages, Jobs
  <1>7. /\ \A c \in Callers : (ran'[c] # None) = (at'[c] = "run")
        /\ \A c \in Callers : (lock'[Home[c]] = c) = (at'[c] \in Healing /\ job'[c] = "command")
    BY <1>1 DEF IInv, TypeOK, Healing
  <1>8. TypeOK'
    BY <1>1, <1>3, <1>5, <1>6, <1>7 DEF IInv, TypeOK
  <1>9. Lone'
    BY <1>1 DEF IInv, Lone, TypeOK
  <1>10. \A c \in Callers : tok'[c] <= host'
    BY <1>1 DEF IInv, Older, TypeOK, Tokens, None
  <1>11. ASSUME NEW c \in Callers, at'[c] = "heal", fresh'[Home[c]], ~behind'[c]
         PROVE  tok'[c] # host'
    <2>1. c \notin own
      BY <1>1, <1>11
    <2>2. at[c] = "heal" /\ tok'[c] = tok[c] /\ Home[c] # p
      BY <1>1, <1>11, <2>1
    <2>3. fresh[Home[c]] /\ ~behind[c]
      BY <1>1, <1>4, <1>11, <2>1, <2>2 DEF IInv, TypeOK
    <2> QED BY <1>1, <2>2, <2>3 DEF IInv, Older
  <1> QED BY <1>8, <1>9, <1>10, <1>11 DEF IInv, Older

-----------------------------------------------------------------------------
LEMMA InitHolds == Init => IInv
  <1> SUFFICES ASSUME Init PROVE IInv
    OBVIOUS
  <1> USE ChannelAssumption
  <1>1. TypeOK
    <2>1. /\ host \in Tokens /\ baked \in Tokens /\ live \in Tokens \cup {None}
          /\ late \subseteq Tokens /\ script \in Tokens \cup {None}
      BY DEF Init, Tokens, None
    <2>2. /\ respawn \in SUBSET {"kill", "start"} /\ calm \in BOOLEAN
          /\ result \in {Absent, "respawned", "written"}
      BY DEF Init
    <2>3. /\ at \in [Callers -> Stages] /\ job \in [Callers -> Jobs]
          /\ tok \in [Callers -> Tokens \cup {None}] /\ ran \in [Callers -> Tokens \cup {None}]
      BY DEF Init, Stages, Jobs
    <2>4. /\ behind \in [Callers -> BOOLEAN] /\ cool \in [Procs -> BOOLEAN]
          /\ fresh \in [Procs -> BOOLEAN] /\ lock \in [Procs -> Callers \cup {Nobody}]
      BY DEF Init
    <2>5. \A c \in Callers : (ran[c] # None) = (at[c] = "run")
      BY DEF Init
    <2>6. \A c \in Callers : (lock[Home[c]] = c) = (at[c] \in Healing /\ job[c] = "command")
      BY DEF Init, Healing
    <2> QED BY <2>1, <2>2, <2>3, <2>4, <2>5, <2>6 DEF TypeOK
  <1>2. Lone /\ Older
    BY DEF Init, Lone, Older, None
  <1> QED BY <1>1, <1>2 DEF IInv

LEMMA StepKeeps == IInv /\ [Next]_vars => IInv'
  <1> SUFFICES ASSUME IInv, [Next]_vars PROVE IInv'
    OBVIOUS
  <1>1. ASSUME NEW c \in Callers, Command(c)
        PROVE  IInv'
    BY <1>1, CallKeeps, PlainKeeps, HealKeeps, PushKeeps, LoadKeeps, RunKeeps, CollectKeeps, ReadResultKeeps,
       VerifyKeeps DEF Command
  <1>2. ASSUME NEW c \in Callers, Resync(c) \/ GiveUp(c)
        PROVE  IInv'
    BY <1>2, ResyncKeeps, GiveUpKeeps
  <1>3. ASSUME NEW p \in Procs, Expire(p) \/ Crash(p)
        PROVE  IInv'
    BY <1>3, ExpireKeeps, CrashKeeps
  <1>4. CASE Kill \/ Respawn \/ Boot \/ Die \/ LateRun \/ Drift \/ Settle
    BY <1>4, WorldStepKeeps
  <1>5. CASE UNCHANGED vars
    BY <1>5 DEF IInv, TypeOK, Lone, Older, vars
  <1> QED BY <1>1, <1>2, <1>3, <1>4, <1>5 DEF Next

\* The types, and the lock: a caller has its process's lock exactly while it heals
\* (heal_token_once).
THEOREM TypeCorrect == Spec => []TypeOK
  <1>1. IInv => TypeOK
    BY DEF IInv
  <1> QED BY InitHolds, StepKeeps, <1>1, PTL DEF Spec

\* Of the threads of a process that are refused together one pushes: the generation keeps
\* the rest from it, whatever the guest and the host's token do (agent_resync.py).
THEOREM PushesOnce == Spec => OnePush
  <1>1. ASSUME IInv, NEW c \in Callers, Heal(c), at'[c] = "push", fresh[Home[c]]
        PROVE  tok[c] # host
    <2>1. Go(c, "heal", "push") /\ ~behind[c]
      <3>1. ASSUME Go(c, "heal", "idle") PROVE FALSE
        BY <1>1, <3>1, GoMoves DEF IInv, Stages
      <3> QED BY <1>1, <3>1 DEF Heal
    <2>2. at[c] = "heal"
      BY <2>1 DEF Go
    <2> QED BY <1>1, <2>1, <2>2 DEF IInv, Older
  <1>2. IInv /\ [Next]_vars =>
          [\A c \in Callers : Heal(c) /\ at'[c] = "push" /\ fresh[Home[c]] => tok[c] # host]_vars
    BY <1>1
  <1> QED BY InitHolds, StepKeeps, <1>2, PTL DEF Spec, OnePush
=============================================================================
