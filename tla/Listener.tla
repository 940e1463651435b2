------------------------------ MODULE Listener ------------------------------
(***************************************************************************)
(* The reverse-open listener: reverse_open/listener.py with the ring of    *)
(* seen UUIDs (seen_uuids.py) and the guest's shim that feeds it.          *)
(*                                                                         *)
(* The shim writes one file per "Open with" click into a shared directory. *)
(* A daemon polls the directory: it opens the request in a Linux app,      *)
(* records the request's UUID in a ring kept on disk, and removes the      *)
(* file.  A janitor removes files that nobody handled for too long.  The   *)
(* daemon may die between any two of these steps and is started again.     *)
(***************************************************************************)
EXTENDS Naturals, FiniteSets, Sequences

CONSTANTS
  N,             \* file names; the order of names says nothing about time
  OddNames,      \* names the file pattern admits that are not UUIDs
  MaxInFlight,   \* files looked at in one pass
  SeenSize,      \* capacity of the ring
  JanitorAge,    \* age from which a file is stale, in janitor periods
  FaultKinds,    \* which of "spawn", "load", "persist", "unlink", "crash" happen
  MaxFaults,     \* bound: failures; openings are counted to one above what it allows
  MaxWrites      \* bound: files the shim writes

ASSUME ListenerAssumption ==
  /\ N \in Nat \ {0}
  /\ OddNames \subseteq 1 .. N
  /\ MaxInFlight \in Nat \ {0}
  /\ SeenSize \in Nat \ {0}
  /\ JanitorAge \in Nat
  /\ FaultKinds \subseteq {"spawn", "load", "persist", "unlink", "crash"}
  /\ MaxFaults \in Nat
  /\ MaxWrites \in Nat

VARIABLES
  incoming,  \* the shared directory
  disk,      \* the ring on disk
  pc,        \* where the daemon is, "down" when there is none
  todo,      \* the files of this pass it has still to look at
  current,   \* the request being opened
  seen,      \* the ring in memory
  swept,     \* a janitor sweep ran within the last period
  opened,    \* how often each request was opened
  writes,    \* files written so far
  faults     \* failures so far

daemon == <<todo, current, seen, swept>>
vars   == <<incoming, disk, pc, todo, current, seen, swept, opened, writes, faults>>

Names  == 1 .. N
UUIDs  == Names \ OddNames
Age    == 0 .. JanitorAge + 1     \* saturates: stale is stale
File   == [kind : {"tmp", "good", "refused"}, age : Age]
NoFile == [kind |-> "none"]

Elements(s) == {s[i] : i \in DOMAIN s}

TypeOK ==
  /\ incoming \in [Names -> File \cup {NoFile}]
  /\ disk \in Seq(Names) /\ Len(disk) <= SeenSize
  /\ seen \in Seq(Names) /\ Len(seen) <= SeenSize
  /\ pc \in {"down", "scan", "handle", "record", "unlink", "janitor"}
  /\ todo \in SUBSET Names
  /\ current \in Names
  /\ swept \in BOOLEAN
  /\ opened \in [Names -> 0 .. MaxFaults + 2]
  /\ writes \in Nat
  /\ faults \in 0 .. MaxFaults

Init ==
  /\ incoming = [n \in Names |-> NoFile]
  /\ disk = <<>> /\ seen = <<>>
  /\ pc = "down"
  /\ todo = {}
  /\ current = 1
  /\ swept = FALSE
  /\ opened = [n \in Names |-> 0]
  /\ writes = 0
  /\ faults = 0

-----------------------------------------------------------------------------
Exists(n)  == incoming[n] # NoFile
Request(n) == Exists(n) /\ incoming[n].kind # "tmp"
Good(n)    == Exists(n) /\ incoming[n].kind = "good"
Stale(n)   == Exists(n) /\ incoming[n].age > JanitorAge

NoFault  == UNCHANGED faults
Fault(k) == k \in FaultKinds /\ faults < MaxFaults /\ faults' = faults + 1

First(n, S) == n \in S /\ \A m \in S : n <= m

\* _safe_unlink: an OSError is logged and the file stays.
Unlink(n) ==
  \/ incoming' = [incoming EXCEPT ![n] = NoFile] /\ NoFault
  \/ UNCHANGED incoming /\ Fault("unlink")

\* SeenUUIDs.add on the deque and its mirror: the oldest entry falls out.
Add(s, n) ==
  IF n \in Elements(s) THEN s
  ELSE Append(IF Len(s) < SeenSize THEN s ELSE Tail(s), n)

-----------------------------------------------------------------------------
(* The guest's shim.                                                       *)

\* A name is a random UUID; a second write of a name is a repeated delivery.
WriteTmp(n) ==
  /\ writes < MaxWrites
  /\ ~Exists(n)
  /\ incoming' = [incoming EXCEPT ![n] = [kind |-> "tmp", age |-> 0]]
  /\ writes' = writes + 1
  /\ UNCHANGED <<disk, pc, daemon, opened, faults>>

\* The rename to <uuid>.json, or the removal after a failed rename.  A shim
\* that dies before leaves the .tmp file.
Publish(n) ==
  /\ Exists(n) /\ ~Request(n)
  /\ \/ \E k \in {"good", "refused"} : incoming' = [incoming EXCEPT ![n].kind = k]
     \/ incoming' = [incoming EXCEPT ![n] = NoFile]
  /\ UNCHANGED <<disk, pc, daemon, opened, writes, faults>>

-----------------------------------------------------------------------------
(* The daemon.                                                             *)

\* Mutant: the ring on disk is not read.
StartEmpty ==
  /\ pc = "down"
  /\ pc' = "scan"
  /\ seen' = <<>>
  /\ swept' = FALSE
  /\ UNCHANGED <<incoming, disk, todo, current, opened, writes, faults>>

\* SeenUUIDs._load: a ring that cannot be read is logged, and memory starts empty.
\* _last_janitor_at starts at 0, so that the first pass sweeps.
Start ==
  /\ pc = "down"
  /\ pc' = "scan"
  /\ \/ seen' = disk /\ NoFault
     \/ seen' = <<>> /\ Fault("load")
  /\ swept' = FALSE
  /\ UNCHANGED <<incoming, disk, todo, current, opened, writes>>

\* The stop flag is looked at between two passes.
Stop ==
  /\ pc = "scan"
  /\ pc' = "down"
  /\ UNCHANGED <<incoming, disk, daemon, opened, writes, faults>>

Crash ==
  /\ pc # "down"
  /\ pc' = "down"
  /\ Fault("crash")
  /\ UNCHANGED <<incoming, disk, daemon, opened, writes>>

\* All files count towards the cap, .tmp files too; the first MaxInFlight by
\* name are looked at, and those named like a request are handled.
Picked ==
  LET files == {n \in Names : Exists(n)}
      first == {n \in files : Cardinality({m \in files : m <= n}) <= MaxInFlight}
  IN {n \in first : Request(n)}

Scan ==
  /\ pc = "scan"
  /\ todo' = Picked
  /\ pc' = "handle"
  /\ UNCHANGED <<incoming, disk, current, seen, swept, opened, writes, faults>>

\* Whatever is wrong with a request, or a UUID seen before, removes the file.
Refuse(n) ==
  /\ ~Good(n) \/ n \in Elements(seen)
  /\ Unlink(n)
  /\ UNCHANGED <<pc, opened>>

Open(n) ==
  /\ Good(n) /\ n \notin Elements(seen)
  /\ pc' = "record"
  /\ opened' = [opened EXCEPT ![n] = IF @ < MaxFaults + 2 THEN @ + 1 ELSE @]
  /\ UNCHANGED <<incoming, faults>>

\* The UUID stays unrecorded, for the guest to try again.  The file stays if it
\* cannot be removed, or could not be read in the first place.
SpawnFails(n) ==
  /\ Good(n) /\ n \notin Elements(seen)
  /\ incoming' \in {incoming, [incoming EXCEPT ![n] = NoFile]}
  /\ Fault("spawn")
  /\ UNCHANGED <<pc, opened>>

\* Mutant: a replay renews the UUID's place in the ring.
HandleAndRenew ==
  /\ pc = "handle"
  /\ \E n \in todo :
       /\ First(n, todo)
       /\ todo' = todo \ {n} /\ current' = n
       /\ \/ Refuse(n) /\ seen' = IF n \in Elements(seen) THEN Append(seen, n) ELSE seen
          \/ (Open(n) \/ SpawnFails(n)) /\ UNCHANGED seen
  /\ UNCHANGED <<disk, swept, writes>>

\* _handle_request up to the spawn.
Handle ==
  /\ pc = "handle"
  /\ \E n \in todo :
       /\ First(n, todo)
       /\ todo' = todo \ {n} /\ current' = n
       /\ Refuse(n) \/ Open(n) \/ SpawnFails(n)
  /\ UNCHANGED <<disk, seen, swept, writes>>

\* Mutant: the ring is written without the copy in memory.
RecordOnDisk ==
  /\ pc = "record"
  /\ disk' = Add(disk, current)
  /\ pc' = "unlink"
  /\ UNCHANGED <<incoming, todo, current, seen, swept, opened, writes, faults>>

\* SeenUUIDs.add.  A name that is not a UUID raises ValueError; a ring that
\* cannot be written raises OSError after memory has changed.  Either leaves
\* process_pending, and the janitor call after it, for the next poll.
Record ==
  /\ pc = "record"
  /\ \/ /\ current \in OddNames
        /\ pc' = "scan"
        /\ UNCHANGED <<seen, disk, faults>>
     \/ /\ current \notin OddNames
        /\ seen' = Add(seen, current)
        /\ \/ disk' = seen' /\ pc' = "unlink" /\ NoFault
           \/ UNCHANGED disk /\ pc' = "scan" /\ Fault("persist")
  /\ UNCHANGED <<incoming, todo, current, swept, opened, writes>>

Remove ==
  /\ pc = "unlink"
  /\ Unlink(current)
  /\ pc' = "handle"
  /\ UNCHANGED <<disk, daemon, opened, writes>>

EndPass ==
  /\ pc = "handle" /\ todo = {}
  /\ pc' = "janitor"
  /\ UNCHANGED <<incoming, disk, daemon, opened, writes, faults>>

\* Mutant: the sweep does not look at the age.
SweepAll ==
  /\ pc = "janitor"
  /\ pc' = "scan"
  /\ swept' = TRUE
  /\ incoming' = IF swept THEN incoming ELSE [n \in Names |-> NoFile]
  /\ UNCHANGED <<disk, todo, current, seen, opened, writes, faults>>

\* Mutant: no file ever counts as stale.
SweepNothing ==
  /\ pc = "janitor"
  /\ pc' = "scan"
  /\ swept' = TRUE
  /\ UNCHANGED <<incoming, disk, todo, current, seen, opened, writes, faults>>

\* At most once a period; a stale file is removed whatever it is.
Janitor ==
  /\ pc = "janitor"
  /\ pc' = "scan"
  /\ swept' = TRUE
  /\ IF swept THEN UNCHANGED <<incoming, faults>>
     ELSE \E gone \in SUBSET {n \in Names : Stale(n)} :
            /\ incoming' = [n \in Names |-> IF n \in gone THEN NoFile ELSE incoming[n]]
            /\ \/ gone = {n \in Names : Stale(n)} /\ NoFault
               \/ Fault("unlink")
  /\ UNCHANGED <<disk, todo, current, seen, opened, writes>>

\* A janitor period passes.
Tick ==
  /\ incoming' = [n \in Names |->
       IF Exists(n) /\ ~Stale(n) THEN [incoming[n] EXCEPT !.age = @ + 1]
       ELSE incoming[n]]
  /\ swept' = FALSE
  /\ UNCHANGED <<disk, pc, todo, current, seen, opened, writes, faults>>

Poll == Scan \/ Handle \/ Record \/ Remove \/ EndPass \/ Janitor

Next ==
  \/ \E n \in Names : WriteTmp(n) \/ Publish(n)
  \/ Start \/ Stop \/ Crash \/ Poll \/ Tick

Spec == Init /\ [][Next]_vars

\* The app-launch path starts a daemon whenever there is none; a daemon gets
\* through its passes, even if it is stopped again and again; time passes.
FairSpec == Spec /\ WF_vars(Start) /\ SF_vars(Poll) /\ WF_vars(Tick)

-----------------------------------------------------------------------------
\* A request with a UUID is opened a second time only if a failure came between:
\* recording after the spawn and removing the file last costs one repetition per
\* failure, and so does a ring that cannot be read; a repeated delivery of the same
\* UUID costs none.  (A name that is no UUID is opened again by every pass.)
ReopenedByFaultOnly == \A n \in UUIDs : opened[n] <= 1 + faults

\* The listener loses no request: it removes a good one only after it was
\* opened, or because the janitor found it stale, or because the spawn failed.
NothingLost ==
  [][Poll => \A n \in Names :
       Good(n) /\ ~Exists(n)' => opened[n] > 0 \/ Stale(n) \/ faults' > faults]_vars

\* Nothing is opened that the ring on disk has.
NoneOnRecord == [][\A n \in Names : opened'[n] # opened[n] => n \notin Elements(disk)]_vars

\* A request is dealt with in the end, unless one whose name is no UUID sorts before
\* it: a bad one does not keep the listener from the others, a leftover .tmp file does
\* not fill the cap for ever.  What is not a UUID ends each pass it is met in, the
\* janitor's turn included, and holds up what sorts after it.
RequestsLeave ==
  \A n \in Names : (\A m \in OddNames : n < m) => (Request(n) ~> ~Request(n))
-----------------------------------------------------------------------------
(* Refinement: the good requests with a UUID wait.  On record is what the    *)
(* ring on disk has and, while the daemon runs, memory has too.              *)

Waiting == {n \in UUIDs : Good(n)}
Late    == {n \in Waiting : Stale(n)}
OnFile  == IF pc = "down" THEN Elements(disk) ELSE Elements(disk) \cap Elements(seen)

I == INSTANCE Inbox WITH
       Name     <- UUIDs,
       waiting  <- Waiting,
       late     <- Late,
       served   <- [n \in UUIDs |-> opened[n]],
       record   <- OnFile,
       failures <- faults

\* The listener implements Inbox: whatever is delivered twice, cut short, crashes,
\* starts again or cannot be read, a request is opened again only for a failure and
\* never while it is on record, and none is dropped unopened that is not late.
RefinesInbox == I!Spec
=============================================================================
