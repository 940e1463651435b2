--------------------------- MODULE UpgradeProofs ---------------------------
(***************************************************************************)
(* What holds of the stamp and the commands, for any number of commands and *)
(* versions.                                                                *)
(***************************************************************************)
EXTENDS Upgrade, TLAPS

\* Where each command can be.
Placed(p) ==
  /\ (job[p] = "none") = (at[p] \in {"idle", "command"})
  /\ at[p] \in {"dropWait", "drop"} => job[p] = "resume"
  /\ at[p] \in {"gate", "sweep"} => job[p] \in {"migrate", "upgrade"}
  /\ at[p] = "add" => job[p] \in {"migrate", "upgrade", "setup"}
  /\ at[p] \in {"wait", "provision"} => job[p] # "sync"

\* Only a process about to write the list has a reading of it.
Reading(p) == view[p] # NoView => at[p] \in {"dropWait", "drop", "add"}

\* Nobody and nothing is ahead of the host.
Ahead == files <= host /\ \A p \in Procs : ver[p] <= host

\* Between the delivery and the stamp the guest has what is to be stamped.
Vouched == stamp <= files /\ \A p \in Procs : at[p] = "stamp" => ver[p] <= files

IInv ==
  /\ TypeOK /\ Ahead /\ \A p \in Procs : Placed(p) /\ Reading(p)
  /\ ~assumed => Vouched

-----------------------------------------------------------------------------
\* The control of one process moves, within its type and nobody else's.
Moved(p) ==
  /\ at' \in [Procs -> Stages] /\ job' \in [Procs -> Jobs]
  /\ due' \in [Procs -> SUBSET (Steps \cup {"apply"})]
  /\ \A q \in Procs \ {p} : at'[q] = at[q] /\ job'[q] = job[q] /\ due'[q] = due[q]

LEMMA GoMoves ==
  ASSUME TypeOK, NEW p \in Procs, NEW from, NEW to \in Stages, Go(p, from, to)
  PROVE  /\ at[p] = from /\ at'[p] = to /\ at' \in [Procs -> Stages]
         /\ \A q \in Procs \ {p} : at'[q] = at[q]
  BY DEF Go, TypeOK

LEMMA DueMoves ==
  ASSUME TypeOK, NEW p \in Procs, NEW steps \in SUBSET (Steps \cup {"apply"}), Due(p, steps)
  PROVE  /\ due'[p] = steps /\ due' \in [Procs -> SUBSET (Steps \cup {"apply"})]
         /\ \A q \in Procs \ {p} : due'[q] = due[q]
  BY DEF Due, TypeOK

LEMMA EndMoves ==
  ASSUME TypeOK, NEW p \in Procs, NEW from, End(p, from)
  PROVE  /\ Moved(p) /\ at[p] = from
         /\ at'[p] \in {"idle", "command"} /\ job'[p] = "none" /\ due'[p] = {}
  <1>1. PICK to \in {"idle", "command"} : Go(p, from, to)
    BY DEF End
  <1>2. at[p] = from /\ at'[p] = to /\ at' \in [Procs -> Stages]
        /\ \A q \in Procs \ {p} : at'[q] = at[q]
    BY <1>1, GoMoves DEF Stages
  <1>3. due'[p] = {} /\ due' \in [Procs -> SUBSET (Steps \cup {"apply"})]
        /\ \A q \in Procs \ {p} : due'[q] = due[q]
    BY DueMoves DEF End
  <1>4. job' \in [Procs -> Jobs] /\ job'[p] = "none" /\ \A q \in Procs \ {p} : job'[q] = job[q]
    BY DEF End, TypeOK, Jobs
  <1> QED BY <1>2, <1>3, <1>4 DEF Moved

LEMMA StayMoves ==
  ASSUME TypeOK, NEW p \in Procs, NEW from, NEW to \in Stages, Go(p, from, to),
         UNCHANGED <<job, due>>
  PROVE  Moved(p) /\ at[p] = from /\ at'[p] = to /\ job'[p] = job[p] /\ due'[p] = due[p]
  BY GoMoves DEF Moved, TypeOK

LEMMA SyncedMoves ==
  ASSUME TypeOK, NEW p \in Procs, NEW from, Synced(p, from)
  PROVE  /\ Moved(p) /\ at[p] = from
         /\ \/ at'[p] = "drop" /\ job[p] = "resume" /\ job'[p] = job[p] /\ due'[p] = due[p]
            \/ /\ at'[p] = "add" /\ job[p] \in {"migrate", "upgrade"}
               /\ job'[p] = job[p] /\ due'[p] = due[p]
            \/ at'[p] \in {"idle", "command"} /\ job'[p] = "none" /\ due'[p] = {}
  <1>1. CASE job[p] = "resume"
    BY <1>1, StayMoves DEF Synced, Stages
  <1>2. CASE job[p] \in {"migrate", "upgrade"}
    BY <1>2, StayMoves DEF Synced, Stages
  <1>3. CASE job[p] \notin {"resume", "migrate", "upgrade"}
    BY <1>3, EndMoves DEF Synced
  <1> QED BY <1>1, <1>2, <1>3

LEMMA BeginMoves ==
  ASSUME TypeOK, NEW p \in Procs, NEW j \in Jobs, NEW from \in {"idle", "command"},
         NEW to \in Stages, NEW steps \in SUBSET Steps, Begin(p, j, from, to, steps),
         UNCHANGED host
  PROVE  /\ Moved(p) /\ at[p] = from /\ at'[p] = to /\ job'[p] = j /\ due'[p] = steps
         /\ ver' \in [Procs -> Versions] /\ ver'[p] \in {ver[p], host'}
         /\ \A q \in Procs \ {p} : ver'[q] = ver[q]
         /\ UNCHANGED <<files, stamp, guest, pending, view, assumed, calm>>
  <1>1. due'[p] = steps /\ due' \in [Procs -> SUBSET (Steps \cup {"apply"})]
        /\ \A q \in Procs \ {p} : due'[q] = due[q]
    BY DueMoves DEF Begin
  <1>2. at[p] = from /\ at'[p] = to /\ at' \in [Procs -> Stages]
        /\ \A q \in Procs \ {p} : at'[q] = at[q]
    BY GoMoves DEF Begin
  <1>3. job' \in [Procs -> Jobs] /\ job'[p] = j /\ \A q \in Procs \ {p} : job'[q] = job[q]
    BY DEF Begin, TypeOK
  <1>4. ver' \in [Procs -> Versions] /\ ver'[p] \in {ver[p], host'}
         /\ \A q \in Procs \ {p} : ver'[q] = ver[q]
    BY DEF Begin, TypeOK
  <1> QED BY <1>1, <1>2, <1>3, <1>4 DEF Begin, Moved, list

Enters(p) ==
  Open(p) \/ SyncGuest(p) \/ Setup(p) \/ Migrate(p) \/ Install(p)
Acts(p) == Enters(p) \/ Work(p) \/ Leave(p) \/ Crash(p)

\* What a step of p makes of its own control: it is about to stamp only what it has
\* delivered.
Controlled(p) ==
  /\ Moved(p) /\ Placed(p)' /\ Reading(p)'
  /\ at'[p] = "stamp" => files' = host'

LEMMA CommandMoves ==
  ASSUME TypeOK, NEW p \in Procs, NEW j \in Jobs \ {"none"}, NEW to \in Stages,
         NEW steps \in SUBSET Steps, Command(p, j, to, steps)
  PROVE  /\ Moved(p) /\ at'[p] = to /\ job'[p] = j /\ due'[p] = steps
         /\ at[p] \in {"idle", "command"}
         /\ ver' \in [Procs -> Versions] /\ ver'[p] \in {ver[p], host'}
         /\ \A q \in Procs \ {p} : ver'[q] = ver[q]
         /\ UNCHANGED <<host, files, stamp, guest, pending, view, assumed, calm>>
  <1>1. UNCHANGED host
    BY DEF Command
  <1>2. CASE Begin(p, j, "idle", to, steps)
    BY <1>1, <1>2, BeginMoves
  <1>3. CASE Begin(p, j, "command", to, steps)
    BY <1>1, <1>3, BeginMoves
  <1> QED BY <1>2, <1>3 DEF Command

\* A command begins at a stage of its own and changes nothing but the version it runs.
LEMMA EntersMoves ==
  ASSUME TypeOK, NEW p \in Procs, Enters(p)
  PROVE  /\ Moved(p) /\ Placed(p)'
         /\ at'[p] \in {"wait", "check", "deliver"}
         /\ ver' \in [Procs -> Versions] /\ ver'[p] \in {ver[p], host'}
         /\ \A q \in Procs \ {p} : ver'[q] = ver[q]
         /\ UNCHANGED <<host, files, stamp, guest, pending, view, assumed, calm>>
         /\ at'[p] # "wait" => job'[p] = "sync"
         /\ at[p] \in {"idle", "command"}
  <1> USE DEF Jobs, Stages, Steps, Placed
  <1>1. CASE Resume(p)
    <2>1. UNCHANGED host
      BY <1>1 DEF Resume
    <2>2. pending \in SUBSET Steps /\ Begin(p, "resume", "idle", "wait", pending)
      BY <1>1 DEF Resume, TypeOK
    <2> QED BY <2>1, <2>2, BeginMoves
  <1>2. CASE Start(p)
    <2>1. Command(p, "sync", "check", {})
      BY <1>2 DEF Start
    <2> QED BY <2>1, CommandMoves DEF TypeOK
  <1>3. CASE SyncGuest(p)
    <2>1. Command(p, "sync", "deliver", {})
      BY <1>3 DEF SyncGuest
    <2> QED BY <2>1, CommandMoves DEF TypeOK
  <1>4. CASE Setup(p)
    BY <1>4, CommandMoves DEF Setup, TypeOK
  <1>5. CASE Migrate(p)
    <2>1. PICK steps \in {{}, {"discovery"}} : Command(p, "migrate", "wait", steps)
      BY <1>5 DEF Migrate
    <2>2. steps \in SUBSET Steps
      OBVIOUS
    <2>3. /\ Moved(p) /\ at'[p] = "wait" /\ job'[p] = "migrate" /\ at[p] \in {"idle", "command"}
          /\ ver' \in [Procs -> Versions] /\ ver'[p] \in {ver[p], host'}
          /\ \A q \in Procs \ {p} : ver'[q] = ver[q]
          /\ UNCHANGED <<host, files, stamp, guest, pending, view, assumed, calm>>
      BY <2>1, <2>2, CommandMoves
    <2>4. Placed(p)'
      BY <2>3 DEF Placed
    <2> QED BY <2>3, <2>4
  <1>6. CASE Install(p)
    BY <1>6, CommandMoves DEF Install, TypeOK
  <1> QED BY <1>1, <1>2, <1>3, <1>4, <1>5, <1>6 DEF Enters, Open

-----------------------------------------------------------------------------
LEMMA ProvisionMoves ==
  ASSUME TypeOK, NEW p \in Procs, Placed(p), Reading(p), Provision(p)
  PROVE  /\ Controlled(p)
         /\ UNCHANGED <<host, files, stamp, guest, pending, view, ver, assumed, calm>>
  <1> DEFINE next == CASE job[p] = "resume" -> "dropWait"
                       [] job[p] = "setup" -> "add"
                       [] OTHER -> IF guest = "down" THEN "add" ELSE "check"
  <1>1. PICK fixed, found \in BOOLEAN :
          due' = [due EXCEPT ![p] =
            CASE job[p] = "resume" -> (@ \ IF found THEN {} ELSE {"discovery"})
                                      \cup IF fixed THEN {} ELSE {"apply"}
              [] job[p] = "setup" -> IF found THEN {} ELSE {"discovery"}
              [] OTHER -> @]
    BY DEF Provision
  <1>2. Go(p, "provision", next) /\ UNCHANGED job
    BY DEF Provision
  <1>3. next \in {"dropWait", "add", "check"} /\ (next = "dropWait") = (job[p] = "resume")
        /\ (next = "add" => job[p] # "resume")
    OBVIOUS
  <1>4. at[p] = "provision" /\ at'[p] = next /\ at' \in [Procs -> Stages]
        /\ \A q \in Procs \ {p} : at'[q] = at[q]
    BY <1>2, <1>3, GoMoves DEF Stages
  <1>5. due' \in [Procs -> SUBSET (Steps \cup {"apply"})]
        /\ \A q \in Procs \ {p} : due'[q] = due[q]
    BY <1>1 DEF TypeOK, Steps
  <1>7. Moved(p)
    BY <1>2, <1>4, <1>5 DEF Moved, TypeOK
  <1> HIDE DEF next
  <1>9. Placed(p)'
    BY <1>2, <1>3, <1>4 DEF Placed, TypeOK, Jobs
  <1>10. at'[p] # "stamp"
    BY <1>3, <1>4
  <1>11. UNCHANGED <<host, files, stamp, guest, pending, view, ver, assumed, calm>>
    <2>1. UNCHANGED <<world, list, ver, assumed, calm>>
      BY Zenon DEF Provision
    <2> QED BY <2>1 DEF world, list
  <1>12. Reading(p)'
    BY <1>4, <1>11 DEF Reading
  <1> QED BY <1>7, <1>9, <1>10, <1>11, <1>12 DEF Controlled

\* Whatever p writes over what others have written since is a list.
LEMMA WriteMoves ==
  ASSUME TypeOK, NEW p \in Procs, Placed(p), Reading(p), WriteBack(p)
  PROVE  /\ Controlled(p) /\ view' = [view EXCEPT ![p] = NoView]
         /\ pending' \in SUBSET Steps
         /\ UNCHANGED <<host, files, stamp, guest, ver, assumed, calm>>
  <1>1. PICK s \in First(p) :
          /\ due' = [due EXCEPT ![p] = @ \ {s}]
          /\ pending' \in {view[p] \cup {s}, pending, view[p] \ {s}, {}}
    BY DEF WriteBack
  <1>2. s \in Steps
    BY <1>1 DEF First, Turn, Steps
  <1>3. view[p] \in SUBSET Steps /\ pending \in SUBSET Steps
    BY DEF WriteBack, TypeOK
  <1>4. UNCHANGED <<at, job>>
    BY DEF WriteBack
  <1>5. due' \in [Procs -> SUBSET (Steps \cup {"apply"})] /\ \A q \in Procs \ {p} : due'[q] = due[q]
    BY <1>1 DEF TypeOK
  <1>6. Moved(p) /\ Placed(p)'
    BY <1>4, <1>5 DEF Moved, Placed, TypeOK
  <1>7. at[p] # "stamp" /\ Reading(p)'
    BY <1>4 DEF Reading, WriteBack, TypeOK
  <1>8. pending' \in SUBSET Steps
    BY <1>1, <1>2, <1>3
  <1> QED BY <1>4, <1>6, <1>7, <1>8 DEF Controlled, WriteBack, world

Plain(p) == Wait(p) \/ Gate(p) \/ Check(p) \/ Deliver(p) \/ Stamp(p) \/ Restart(p)
            \/ Read(p) \/ Listed(p) \/ Sweep(p) \/ Leave(p) \/ Crash(p)

\* The other steps of a command leave the list as it is, and what was read of it.
LEMMA PlainMoves ==
  ASSUME TypeOK, NEW p \in Procs, Placed(p), Reading(p), Plain(p)
  PROVE  Controlled(p)
  <1> USE DEF Stages, Controlled, Placed, Reading
  <1>1. CASE Wait(p)
    <2>1. UNCHANGED view
      BY <1>1 DEF Wait, OnlyProc, list
    <2>2. CASE guest # "down"
      <3>1. PICK to \in {"gate", "provision"} :
              Go(p, "wait", to) /\ (to = "gate") = (job[p] \in {"migrate", "upgrade"})
        BY <1>1, <2>2 DEF Wait
      <3>2. UNCHANGED <<job, due>>
        BY <1>1, <2>2 DEF Wait
      <3> QED BY <2>1, <3>1, <3>2, StayMoves
    <2>3. CASE guest = "down" /\ job[p] = "resume"
      BY <1>1, <2>1, <2>3, EndMoves DEF Wait
    <2>4. CASE guest = "down" /\ job[p] = "setup"
      <3>1. Go(p, "wait", "add") /\ Due(p, {"wait_ready", "discovery"}) /\ UNCHANGED job
        BY <1>1, <2>4 DEF Wait
      <3> QED BY <2>1, <2>4, <3>1, GoMoves, DueMoves DEF Moved, TypeOK, Steps
    <2>5. CASE guest = "down" /\ job[p] \notin {"resume", "setup"}
      <3>1. Go(p, "wait", "add") /\ UNCHANGED <<job, due>>
        BY <1>1, <2>5 DEF Wait
      <3>2. at[p] = "wait" /\ job[p] \in {"migrate", "upgrade"}
        BY <2>5, <3>1, GoMoves DEF TypeOK, Jobs
      <3> QED BY <2>1, <3>1, <3>2, StayMoves
    <2> QED BY <2>2, <2>3, <2>4, <2>5
  <1>2. CASE Gate(p)
    BY <1>2, StayMoves DEF Gate, OnlyProc, list
  <1>3. CASE Check(p)
    <2>1. \/ Synced(p, "check")
          \/ Go(p, "check", "deliver") /\ UNCHANGED <<job, due>>
      BY <1>3 DEF Check
    <2>2. UNCHANGED view
      BY <1>3 DEF Check, list
    <2>3. CASE Synced(p, "check")
      BY <2>2, <2>3, SyncedMoves
    <2>4. CASE Go(p, "check", "deliver") /\ UNCHANGED <<job, due>>
      BY <2>2, <2>4, StayMoves
    <2> QED BY <2>1, <2>3, <2>4
  <1>4. CASE Deliver(p)
    <2>1. UNCHANGED <<view, host>>
      BY <1>4 DEF Deliver, list
    <2>2. CASE files' = host /\ Go(p, "deliver", "stamp") /\ UNCHANGED <<job, due>>
      BY <2>1, <2>2, StayMoves
    <2>3. CASE Synced(p, "deliver")
      BY <2>1, <2>3, SyncedMoves
    <2>4. CASE /\ job[p] = "resume" /\ UNCHANGED job /\ Go(p, "deliver", "drop")
               /\ Due(p, due[p] \ {"migrate"})
      BY <2>1, <2>4, GoMoves, DueMoves DEF Moved, TypeOK
    <2> QED BY <1>4, <2>2, <2>3, <2>4 DEF Deliver
  <1>5. CASE Stamp(p)
    BY <1>5, StayMoves DEF Stamp, list
  <1>6. CASE Restart(p)
    BY <1>6, SyncedMoves DEF Restart, list
  <1>7. CASE Read(p)
    BY <1>7 DEF Read, Moved, TypeOK
  <1>8. CASE Listed(p)
    <2>1. UNCHANGED view
      BY <1>8 DEF Listed, OnlyProc, list
    <2>2. CASE Go(p, "dropWait", IF "migrate" \in due[p] THEN "check" ELSE "drop")
               /\ UNCHANGED <<job, due>>
      <3>1. view[p] = NoView
        BY <1>8 DEF Listed
      <3>2. PICK to \in {"check", "drop"} : Go(p, "dropWait", to)
        BY <2>2
      <3> QED BY <2>1, <2>2, <3>1, <3>2, StayMoves
    <2>3. CASE End(p, "drop") \/ End(p, "add")
      BY <1>8, <2>1, <2>3, EndMoves DEF Listed
    <2>4. CASE job[p] = "upgrade" /\ Go(p, "add", "sweep") /\ UNCHANGED <<job, due>>
      BY <1>8, <2>1, <2>4, StayMoves DEF Listed
    <2> QED BY <1>8, <2>2, <2>3, <2>4 DEF Listed
  <1>9. CASE Sweep(p)
    BY <1>9, EndMoves DEF Sweep
  <1>10. CASE Leave(p)
    BY <1>10, StayMoves DEF Leave, OnlyProc, list
  <1>11. CASE Crash(p)
    <2>1. at' = [at EXCEPT ![p] = "idle"] /\ job' = [job EXCEPT ![p] = "none"] /\ Due(p, {})
          /\ view' = [view EXCEPT ![p] = NoView]
      BY <1>11 DEF Crash
    <2> QED BY <2>1, DueMoves DEF Moved, TypeOK, Jobs
  <1> QED BY <1>1, <1>2, <1>3, <1>4, <1>5, <1>6, <1>7, <1>8, <1>9, <1>10, <1>11 DEF Plain

-----------------------------------------------------------------------------
\* What the other steps do to the guest: the scripts become the host's, and a stamp above
\* them is written only where none could be read.
LEMMA GuestKept ==
  ASSUME TypeOK, Ahead, NEW p \in Procs, Plain(p)
  PROVE  /\ UNCHANGED <<host, ver, calm>> /\ files' \in {files, host}
         /\ stamp' \in 0 .. MaxVersion /\ guest' \in {"down", "rdp", "agent"}
         /\ assumed' \in BOOLEAN /\ (~assumed' => ~assumed)
         /\ Vouched /\ ~assumed' => stamp' <= files'
  <1> USE DEF Ahead, Vouched, world
  <1>0. host \in Nat /\ files \in Nat /\ stamp \in Nat /\ ver[p] \in 1 .. MaxVersion
        /\ ver[p] \in Nat /\ MaxVersion \in Nat
    BY UpgradeAssumption DEF TypeOK, Versions
  <1> USE <1>0
  <1>1. CASE Wait(p) \/ Gate(p) \/ Read(p) \/ Listed(p) \/ Leave(p)
    BY <1>1 DEF Wait, Gate, Read, Listed, Leave, OnlyProc, TypeOK
  <1>2. CASE Check(p)
    <2>1. UNCHANGED <<host, files, guest, ver, calm>>
      BY <1>2 DEF Check
    <2>2. CASE UNCHANGED <<stamp, assumed>>
      BY <2>1, <2>2 DEF TypeOK
    <2>3. CASE stamp' = ver[p] /\ assumed' = (assumed \/ files < ver[p])
      <3>1. assumed' \in BOOLEAN /\ (~assumed' => ~assumed /\ ~(files < ver[p]))
        BY <2>3, Zenon DEF TypeOK
      <3> QED BY <2>1, <2>3, <3>1 DEF TypeOK
    <2> QED BY <1>2, <2>2, <2>3 DEF Check
  <1>3. CASE Deliver(p)
    BY <1>3 DEF Deliver, TypeOK
  <1>4. CASE Stamp(p)
    BY <1>4 DEF Stamp, Go, TypeOK
  <1>5. CASE Restart(p)
    BY <1>5 DEF Restart, TypeOK
  <1>6. CASE Sweep(p)
    BY <1>6 DEF Sweep, TypeOK
  <1>7. CASE Crash(p)
    BY <1>7 DEF Crash, TypeOK
  <1> QED BY <1>1, <1>2, <1>3, <1>4, <1>5, <1>6, <1>7 DEF Plain

\* What they do to the list: read it, leave it, or write all of it.
LEMMA ListKept ==
  ASSUME TypeOK, NEW p \in Procs, Plain(p)
  PROVE  /\ pending' \in SUBSET Steps
         /\ \A q \in Procs \ {p} : view'[q] = view[q]
         /\ view' \in [Procs -> (SUBSET Steps) \cup {NoView}]
  <1> USE DEF list
  <1>1. CASE Wait(p) \/ Gate(p) \/ Check(p) \/ Deliver(p) \/ Stamp(p) \/ Restart(p)
             \/ Listed(p) \/ Leave(p)
    <2>1. UNCHANGED <<pending, view>>
      BY <1>1 DEF Wait, Gate, Check, Deliver, Stamp, Restart, Listed, Leave, OnlyProc
    <2> QED BY <2>1 DEF TypeOK
  <1>2. CASE Read(p)
    BY <1>2 DEF Read, TypeOK
  <1>3. CASE Sweep(p)
    BY <1>3 DEF Sweep, TypeOK
  <1>4. CASE Crash(p)
    BY <1>4 DEF Crash, TypeOK, Steps
  <1> QED BY <1>1, <1>2, <1>3, <1>4 DEF Plain

-----------------------------------------------------------------------------
LEMMA OthersKept ==
  ASSUME IInv, NEW p \in Procs, Moved(p), Placed(p)', Reading(p)',
         \A q \in Procs \ {p} : view'[q] = view[q]
  PROVE  \A q \in Procs : Placed(q)' /\ Reading(q)'
  BY DEF IInv, Moved, Placed, Reading

\* A guest that is left alone, or gets the host's scripts, stays vouched for.
LEMMA VouchedKept ==
  ASSUME IInv, NEW p \in Procs, Controlled(p), Ahead', UNCHANGED ver, host' = host,
         files' \in {files, host}, (~assumed' => ~assumed),
         Vouched /\ ~assumed' => stamp' <= files'
  PROVE  ~assumed' => Vouched'
  <1>1. files \in Nat /\ host \in Nat /\ files <= host /\ \A q \in Procs : ver[q] \in Nat
    BY UpgradeAssumption DEF IInv, TypeOK, Ahead, Versions
  <1>2. SUFFICES ASSUME ~assumed', NEW q \in Procs, at'[q] = "stamp"
                 PROVE  ver[q] <= files'
    BY DEF IInv, Vouched
  <1>3. CASE q = p
    BY <1>1, <1>2, <1>3 DEF Controlled, Ahead
  <1>4. CASE q # p
    BY <1>1, <1>2, <1>4 DEF Controlled, Moved, Vouched, IInv
  <1> QED BY <1>3, <1>4

LEMMA EntersKeeps ==
  ASSUME IInv, NEW p \in Procs, Enters(p)
  PROVE  IInv'
  <1> DEFINE same == UNCHANGED <<host, files, stamp, guest, pending, view, assumed, calm>>
  <1>1. /\ Moved(p) /\ Placed(p)' /\ same
        /\ at'[p] \in {"wait", "check", "deliver"}
        /\ ver' \in [Procs -> Versions] /\ ver'[p] \in {ver[p], host'}
        /\ \A q \in Procs \ {p} : ver'[q] = ver[q]
        /\ (at'[p] # "wait" => job'[p] = "sync")
    BY EntersMoves DEF IInv
  <1>2. at[p] \in {"idle", "command"}
    BY EntersMoves DEF IInv
  <1>3. view[p] = NoView
    BY <1>2 DEF IInv, Reading
  <1>4. \A q \in Procs : Placed(q)' /\ Reading(q)'
    BY <1>1, <1>3, OthersKept DEF Reading
  <1>5. TypeOK'
    BY <1>1, <1>4 DEF IInv, TypeOK, Moved, Placed
  <1>6. Ahead'
    BY <1>1, UpgradeAssumption DEF IInv, TypeOK, Ahead, Versions
  <1>7. ~assumed' => Vouched'
    <2>1. \A q \in Procs : at'[q] = "stamp" => at[q] = "stamp" /\ ver'[q] = ver[q]
      BY <1>1 DEF Moved
    <2> QED BY <1>1, <2>1 DEF IInv, Vouched
  <1> QED BY <1>4, <1>5, <1>6, <1>7 DEF IInv

LEMMA PlainKeeps ==
  ASSUME IInv, NEW p \in Procs, Plain(p)
  PROVE  IInv'
  <1>1. Controlled(p)
    BY PlainMoves DEF IInv
  <1>2. /\ UNCHANGED <<host, ver, calm>> /\ files' \in {files, host}
        /\ stamp' \in 0 .. MaxVersion /\ guest' \in {"down", "rdp", "agent"}
        /\ assumed' \in BOOLEAN /\ (~assumed' => ~assumed)
        /\ (Vouched /\ ~assumed' => stamp' <= files')
    BY GuestKept DEF IInv
  <1>3. /\ pending' \in SUBSET Steps
        /\ \A q \in Procs \ {p} : view'[q] = view[q]
        /\ view' \in [Procs -> (SUBSET Steps) \cup {NoView}]
    BY ListKept DEF IInv
  <1>4. \A q \in Procs : Placed(q)' /\ Reading(q)'
    BY <1>1, <1>3, OthersKept DEF Controlled
  <1>5. TypeOK'
    BY <1>1, <1>2, <1>3, <1>4 DEF IInv, TypeOK, Controlled, Moved, Placed
  <1>6. Ahead'
    BY <1>2, UpgradeAssumption DEF IInv, TypeOK, Ahead, Versions
  <1>7. ~assumed' => Vouched'
    BY <1>1, <1>2, <1>6, VouchedKept
  <1> QED BY <1>4, <1>5, <1>6, <1>7 DEF IInv

LEMMA ProvisionKeeps ==
  ASSUME IInv, NEW p \in Procs, Provision(p)
  PROVE  IInv'
  <1>1. /\ Controlled(p)
        /\ UNCHANGED <<host, files, stamp, guest, pending, view, ver, assumed, calm>>
    BY ProvisionMoves DEF IInv
  <1>2. \A q \in Procs : Placed(q)' /\ Reading(q)'
    BY <1>1, OthersKept DEF Controlled
  <1>3. TypeOK'
    BY <1>1, <1>2 DEF IInv, TypeOK, Controlled, Moved, Placed
  <1>4. Ahead'
    BY <1>1 DEF IInv, Ahead
  <1>5. ~assumed' => Vouched'
    BY <1>1, <1>4, VouchedKept DEF IInv, Vouched
  <1> QED BY <1>2, <1>3, <1>4, <1>5 DEF IInv

LEMMA WriteKeeps ==
  ASSUME IInv, NEW p \in Procs, WriteBack(p)
  PROVE  IInv'
  <1>1. /\ Controlled(p) /\ view' = [view EXCEPT ![p] = NoView]
        /\ pending' \in SUBSET Steps
        /\ UNCHANGED <<host, files, stamp, guest, ver, assumed, calm>>
    BY WriteMoves DEF IInv
  <1>2. \A q \in Procs : Placed(q)' /\ Reading(q)'
    BY <1>1, OthersKept DEF Controlled, IInv, TypeOK
  <1>3. TypeOK'
    BY <1>1, <1>2 DEF IInv, TypeOK, Controlled, Moved, Placed
  <1>4. Ahead'
    BY <1>1 DEF IInv, Ahead
  <1>5. ~assumed' => Vouched'
    BY <1>1, <1>4, VouchedKept DEF IInv, Vouched
  <1> QED BY <1>2, <1>3, <1>4, <1>5 DEF IInv

LEMMA RestKeeps ==
  ASSUME IInv, Replace \/ Reopen \/ Boot \/ Shut \/ Settle \/ UNCHANGED vars
  PROVE  IInv'
  <1>1. /\ UNCHANGED <<files, stamp, list, job, at, due, assumed>>
        /\ guest' \in {"down", "rdp", "agent"} /\ calm' \in BOOLEAN
    BY DEF Replace, Reopen, Boot, Shut, Settle, vars, world, list, IInv, TypeOK
  <1>2. /\ host' \in Versions /\ host <= host' /\ ver' \in [Procs -> Versions]
        /\ \A q \in Procs : ver'[q] \in {ver[q], host} /\ (at[q] = "stamp" => ver'[q] = ver[q])
    BY UpgradeAssumption
       DEF Replace, Reopen, Boot, Shut, Settle, vars, world, IInv, TypeOK, Versions
  <1>3. \A q \in Procs : Placed(q)' /\ Reading(q)'
    BY <1>1 DEF IInv, Placed, Reading, list
  <1>4. TypeOK'
    BY <1>1, <1>2, <1>3 DEF IInv, TypeOK, Placed, list
  <1>5. Ahead'
    BY <1>1, <1>2, UpgradeAssumption DEF IInv, TypeOK, Ahead, Versions
  <1>6. ~assumed' => Vouched'
    BY <1>1, <1>2 DEF IInv, Vouched
  <1> QED BY <1>3, <1>4, <1>5, <1>6 DEF IInv

LEMMA Inductive == Spec => []IInv
  <1>1. Init => IInv
    <2> SUFFICES ASSUME Init PROVE IInv
      OBVIOUS
    <2>1. 1 \in Versions /\ 0 \in 0 .. MaxVersion /\ 1 \in 0 .. MaxVersion
      BY UpgradeAssumption DEF Versions
    <2>2. TypeOK
      BY <2>1 DEF Init, TypeOK, Jobs, Stages, Steps
    <2>3. Ahead /\ Vouched
      BY DEF Init, Ahead, Vouched
    <2>4. \A p \in Procs : Placed(p) /\ Reading(p)
      BY DEF Init, Placed, Reading
    <2> QED BY <2>2, <2>3, <2>4 DEF IInv
  <1>2. IInv /\ [Next]_vars => IInv'
    <2> SUFFICES ASSUME IInv, [Next]_vars PROVE IInv'
      OBVIOUS
    <2>1. ASSUME NEW p \in Procs, Enters(p) PROVE IInv'
      BY <2>1, EntersKeeps
    <2>2. ASSUME NEW p \in Procs, Work(p) \/ Leave(p) \/ Crash(p) PROVE IInv'
      BY <2>2, PlainKeeps, ProvisionKeeps, WriteKeeps DEF Work, Plain
    <2> QED BY <2>1, <2>2, RestKeeps DEF Next, Enters
  <1> QED BY <1>1, <1>2, PTL DEF Spec

-----------------------------------------------------------------------------
\* Every value has its type, and a process with a command is within one.
THEOREM TypeCorrect == Spec => []TypeOK
  <1>1. IInv => TypeOK
    BY DEF IInv
  <1> QED BY <1>1, Inductive, PTL

\* The stamp vouches for the scripts in the guest (maybe_autosync, sync_guest), whatever
\* the commands, however many at once, and however they fail and die, unless a version was
\* recorded over older scripts where no stamp was there or could be read.
THEOREM StampVouches == Spec => []StampTrue
  <1>1. IInv => StampTrue
    BY DEF IInv, StampTrue, Vouched
  <1> QED BY <1>1, Inductive, PTL
=============================================================================
