--------------------------- MODULE SessionsProofs ---------------------------
(* Theorems about Sessions, for any number of processes, clients and faults. *)
EXTENDS Sessions, TLAPS

\* Labels of the two kinds of actors, and what a pid means there.
Places ==
  /\ \A p \in Procs :
       /\ job[p].at \notin {"list", "scan", "kill", "forget"}
       /\ job[p].then \in {"idle", "open"}
       /\ job[p].at \in {"write", "settle", "watch"} =>
            job[p].pid \in Pids /\ client[job[p].pid] # "unborn"
       /\ At(p, "watch") /\ Live(job[p].pid) => job[p].pid \in returned
  /\ job[Tray].at \in {"list", "drop", "scan", "kill", "grace", "forget"}
  /\ job[Tray].then \in {"idle", "list", "forget"}
  /\ At(Tray, "drop") => job[Tray].then # "idle"
  /\ At(Tray, "kill") \/ At(Tray, "grace") => job[Tray].then = "forget"
  /\ \A a \in Actors : At(a, "grace") => job[a].pid \in Pids
  /\ At(Tray, "scan") \/ At(Tray, "kill") => job[Tray].pid \in Pids
  /\ \A s \in returned : client[s] = "live"

\* Sessions that have been returned, or will be if they live.
Kept(s) == s \in returned \/ \E p \in Procs : At(p, "settle") /\ job[p].pid = s /\ Live(s)
Nothing == \A s \in Pids : ~Kept(s)

\* A launch that may still lose what is kept.
Spawning(p) == \/ job[p].at \in {"open", "popen", "write"}
               \/ At(p, "settle") /\ ~Live(job[p].pid)

Calm ==
  /\ \A s \in Pids : Kept(s) => marker = s
  /\ \A a \in Actors, s \in Pids : Unlinking(a) /\ Kept(s) => At(a, "grace") /\ job[a].pid = s
  /\ \A p \in Procs : Spawning(p) => Nothing
  /\ \A p \in Procs : job[p].at \in {"popen", "write"} => holder = p

Sound == TypeOK /\ Places
Inv   == Sound /\ (disturbed \/ Calm)

-----------------------------------------------------------------------------
(* What the helpers do to a job.                                           *)

LEMMA GotoFacts ==
  ASSUME job \in [Actors -> Job], NEW a \in Actors, NEW l \in Labels, Goto(a, l)
  PROVE  /\ job' \in [Actors -> Job] /\ job'[a].at = l
         /\ \A b \in Actors : b # a => job'[b] = job[b]
         /\ l = "idle" => job'[a].then = "idle" /\ job'[a].pid = None
         /\ l # "idle" => job'[a].then = job[a].then /\ job'[a].pid = job[a].pid
PROOF BY DEF Goto, Job, Rest, Labels

LEMMA GotoWithFacts ==
  ASSUME job \in [Actors -> Job], NEW a \in Actors, NEW l \in Labels,
         NEW s \in Pids \cup {None}, GotoWith(a, l, s)
  PROVE  /\ job' \in [Actors -> Job] /\ job'[a].at = l
         /\ \A b \in Actors : b # a => job'[b] = job[b]
         /\ job'[a].then = job[a].then /\ job'[a].pid = s
PROOF BY DEF GotoWith, Job, Labels

LEMMA DetourFacts ==
  ASSUME job \in [Actors -> Job], NEW a \in Actors, NEW l \in Labels,
         NEW back \in Labels, Detour(a, l, back)
  PROVE  /\ job' \in [Actors -> Job] /\ job'[a].at = l
         /\ \A b \in Actors : b # a => job'[b] = job[b]
         /\ l = "idle" => job'[a].then = "idle" /\ job'[a].pid = None
         /\ l # "idle" => job'[a].then = back /\ job'[a].pid = job[a].pid
PROOF BY DEF Detour, Job, Rest, Labels

LEMMA AfreshFacts ==
  ASSUME job \in [Actors -> Job], NEW a \in Actors, NEW l \in Labels, NEW again \in BOOLEAN,
         Afresh(a, l, again)
  PROVE  /\ job' \in [Actors -> Job] /\ job'[a].at = l
         /\ \A c \in Actors : c # a => job'[c] = job[c]
         /\ job'[a].then = "idle" /\ job'[a].pid = None
PROOF BY DEF Afresh, Job, Rest, Labels

-----------------------------------------------------------------------------
(* Types and places.                                                       *)

LEMMA SoundInit == Init => Sound
PROOF
<1> SUFFICES ASSUME Init PROVE Sound
  OBVIOUS
<1>1. Rest \in Job /\ Rest.at = "idle" /\ Rest.then = "idle"
  BY DEF Rest, Job, Labels
<1>2. [Rest EXCEPT !.at = "list"] \in Job /\ [Rest EXCEPT !.at = "list"].at = "list"
        /\ [Rest EXCEPT !.at = "list"].then = "idle"
  BY DEF Rest, Job, Labels
<1>3. /\ job \in [Actors -> Job] /\ \A p \in Procs : job[p].at = "idle" /\ job[p].then = "idle"
      /\ job[Tray].at = "list" /\ job[Tray].then = "idle"
  BY <1>1, <1>2, SessionsAssumption DEF Init, Actors
<1>4. TypeOK
  <2>1. /\ seen \in BOOLEAN /\ due \in BOOLEAN /\ disturbed \in BOOLEAN
        /\ missed \in Pids \cup {None} /\ overdue \in BOOLEAN
    BY Zenon DEF Init
  <2>2. faults \in 0 .. MaxFaults
    BY SessionsAssumption DEF Init
  <2>3. /\ marker \in Pids \cup {None, Empty} /\ holder \in Procs \cup {None}
        /\ client \in [Pids -> {"unborn", "live", "dead"}]
        /\ window \in [Pids -> {"none", "mapped", "closed"}]
        /\ returned \subseteq Pids /\ armed \in Pids \cup {None}
    BY DEF Init
  <2> QED BY <1>3, <2>1, <2>2, <2>3 DEF TypeOK
<1>5. Places
  BY <1>3, SessionsAssumption DEF Init, Places, Actors, At
<1> QED BY <1>4, <1>5 DEF Sound

LEMMA SoundEnvironment ==
  ASSUME Sound,
         disturbed' \in BOOLEAN, missed' \in Pids \cup {None}, overdue' \in BOOLEAN,
         (\E s \in Pids : Window(s) \/ Die(s)) \/ ScanFails \/ Elapse
  PROVE  Sound'
PROOF
<1> USE SessionsAssumption DEF Sound, TypeOK, Places, Actors, At, Live
<1>1. ASSUME NEW s \in Pids, Window(s) PROVE Sound'
  BY <1>1 DEF Window, disk, tray
<1>2. ASSUME NEW s \in Pids, Die(s) PROVE Sound'
  BY <1>2 DEF Die, End, disk, tray
<1>3. CASE ScanFails
  <2>1. GotoWith(Tray, "list", None) /\ At(Tray, "scan")
    BY <1>3 DEF ScanFails
  <2>2. /\ job' \in [Actors -> Job] /\ job'[Tray].at = "list"
        /\ \A b \in Actors : b # Tray => job'[b] = job[b]
        /\ job'[Tray].then = job[Tray].then /\ job'[Tray].pid = None
    BY <2>1, GotoWithFacts DEF Labels
  <2> QED BY <1>3, <2>2 DEF ScanFails, Fault, disk, host, tray
<1>4. CASE Elapse
  BY <1>4 DEF Elapse, disk, host
<1> QED BY <1>1, <1>2, <1>3, <1>4

LEMMA SoundProcess ==
  ASSUME Sound, NEW p \in Procs,
         disturbed' \in BOOLEAN, missed' \in Pids \cup {None}, overdue' \in BOOLEAN,
         Start(p) \/ Run(p) \/ AskKill(p) \/ Leave(p) \/ Crash(p)
  PROVE  Sound'
PROOF
<1> USE SessionsAssumption DEF Sound, TypeOK, Places, Actors, At, Live
<1>1. CASE Start(p)
  <2>1. PICK want \in {"app", "file"} : Detour(p, Found(want, "open"), "open")
    BY <1>1 DEF Start
  <2>2. Found(want, "open") \in {"open", "idle", "drop"}
    BY DEF Found
  <2>3. /\ job' \in [Actors -> Job] /\ job'[p].at \in {"open", "idle", "drop"}
        /\ \A b \in Actors : b # p => job'[b] = job[b]
        /\ job'[p].then \in {"idle", "open"}
    BY <2>1, <2>2, DetourFacts DEF Labels
  <2> QED BY <1>1, <2>3 DEF Start, disk, host, tray, Overlaps
<1>2. CASE Look(p)
  <2>1. Found("app", "idle") \in {"idle", "drop"}
    BY DEF Found
  <2>2. /\ job' \in [Actors -> Job] /\ job'[p].at \in {"idle", "drop"}
        /\ \A b \in Actors : b # p => job'[b] = job[b]
        /\ job'[p].then \in {"idle", "open"}
    BY <1>2, <2>1, GotoFacts DEF Look, Labels
  <2> QED BY <1>2, <2>2 DEF Look, disk, host, tray
<1>3. CASE Open(p)
  <2>1. /\ job' \in [Actors -> Job] /\ job'[p].at \in {"popen", "look"}
        /\ \A b \in Actors : b # p => job'[b] = job[b]
        /\ job'[p].then \in {"idle", "open"}
    BY <1>3, GotoFacts, DetourFacts DEF Open, Labels
  <2> QED BY <1>3, <2>1 DEF Open, disk, host, tray
<1>4. CASE Popen(p)
  <2>1. ASSUME NEW s \in Pids, client[s] = "unborn", GotoWith(p, "write", s),
               client' = [client EXCEPT ![s] = "live"], UNCHANGED <<disk, faults>>
        PROVE  Sound'
    <3>1. /\ job' \in [Actors -> Job] /\ job'[p].at = "write" /\ job'[p].pid = s
          /\ \A b \in Actors : b # p => job'[b] = job[b]
          /\ job'[p].then = job[p].then
      BY <2>1, GotoWithFacts DEF Labels
    <3> QED BY <1>4, <2>1, <3>1 DEF Popen, disk, tray
  <2>2. ASSUME Unlink, Goto(p, "idle"), Fault, UNCHANGED client PROVE Sound'
    <3>1. /\ job' \in [Actors -> Job] /\ job'[p].at = "idle"
          /\ \A b \in Actors : b # p => job'[b] = job[b]
          /\ job'[p].then = "idle"
      BY <2>2, GotoFacts DEF Labels
    <3> QED BY <1>4, <2>2, <3>1 DEF Popen, Unlink, Fault, tray
  <2> QED BY <1>4, <2>1, <2>2 DEF Popen
<1>5. CASE Write(p)
  <2>1. /\ job' \in [Actors -> Job] /\ job'[p].at \in {"settle", "idle"}
        /\ \A b \in Actors : b # p => job'[b] = job[b]
        /\ job'[p].then \in {"idle", "open"}
        /\ job'[p].at = "settle" => job'[p].pid = job[p].pid
    BY <1>5, GotoFacts DEF Write, Labels
  <2> QED BY <1>5, <2>1 DEF Write, Unlink, Fault, disk, host, tray
<1>6. CASE Settle(p)
  <2>1. ASSUME Live(job[p].pid), NEW l \in {"watch", "idle"}, Goto(p, l), UNCHANGED disk,
               returned' = returned \cup {job[p].pid}
        PROVE  Sound'
    <3>1. /\ job' \in [Actors -> Job] /\ job'[p].at = l
          /\ \A b \in Actors : b # p => job'[b] = job[b]
          /\ job'[p].then \in {"idle", "open"}
          /\ l = "watch" => job'[p].pid = job[p].pid
      BY <2>1, GotoFacts DEF Labels
    <3> QED BY <1>6, <2>1, <3>1 DEF Settle, disk, tray
  <2>2. ASSUME ~Live(job[p].pid), Unlink, UNCHANGED returned,
               Afresh(p, "open", TRUE) \/ Goto(p, "idle")
        PROVE  Sound'
    <3>1. /\ job' \in [Actors -> Job] /\ job'[p].at \in {"open", "idle"}
          /\ \A b \in Actors : b # p => job'[b] = job[b]
          /\ job'[p].then = "idle"
      BY <2>2, GotoFacts, AfreshFacts DEF Labels
    <3> QED BY <1>6, <2>2, <3>1 DEF Settle, Unlink, tray
  <2> QED BY <1>6, <2>1, <2>2 DEF Settle
<1>7. CASE Waited(p)
  <2>1. /\ job' \in [Actors -> Job] /\ job'[p].at = "drop"
        /\ \A b \in Actors : b # p => job'[b] = job[b]
        /\ job'[p].then = "idle"
    BY <1>7, AfreshFacts DEF Waited, Labels
  <2> QED BY <1>7, <2>1 DEF Waited, disk, host, tray
<1>8. CASE Drop(p)
  <2>1. /\ job' \in [Actors -> Job] /\ job'[p].at \in {"idle", "open"}
        /\ \A b \in Actors : b # p => job'[b] = job[b]
        /\ job'[p].then \in {"idle", "open"}
    BY <1>8, GotoFacts DEF Drop, Labels
  <2> QED BY <1>8, <2>1 DEF Drop, Unlink, host, tray
<1>9. CASE Grace(p)
  <2>1. /\ job' \in [Actors -> Job] /\ job'[p].at = "drop"
        /\ \A b \in Actors : b # p => job'[b] = job[b]
        /\ job'[p].then = job[p].then
    BY <1>9, GotoWithFacts DEF Grace, Labels
  <2> QED BY <1>9, <2>1 DEF Grace, End, disk, tray
<1>10. CASE AskKill(p)
  <2>1. /\ job' \in [Actors -> Job] /\ job'[p].at \in {"grace", "drop"}
        /\ \A b \in Actors : b # p => job'[b] = job[b]
        /\ job'[p].then \in {"idle", "open"}
        /\ job'[p].at = "grace" => job'[p].pid \in Pids
    BY <1>10, GotoWithFacts, DetourFacts DEF AskKill, Labels
  <2> QED BY <1>10, <2>1 DEF AskKill, disk, host, tray
<1>11. CASE Leave(p) \/ Crash(p)
  <2>1. /\ job' \in [Actors -> Job] /\ job'[p].at = "idle"
        /\ \A b \in Actors : b # p => job'[b] = job[b]
        /\ job'[p].then = "idle"
    BY <1>11, GotoFacts DEF Leave, Crash, Labels
  <2> QED BY <1>11, <2>1 DEF Leave, Crash, Fault, disk, host, tray
<1> QED
  BY <1>1, <1>2, <1>3, <1>4, <1>5, <1>6, <1>7, <1>8, <1>9, <1>10, <1>11 DEF Run

LEMMA SoundTray ==
  ASSUME Sound, disturbed' \in BOOLEAN, missed' \in Pids \cup {None}, overdue' \in BOOLEAN, Pass
  PROVE  Sound'
PROOF
<1> USE SessionsAssumption DEF Sound, TypeOK, Places, Actors, At, Live
<1>1. CASE List
  <2>1. /\ job' \in [Actors -> Job] /\ job'[Tray].at \in {"scan", "list", "drop"}
        /\ \A b \in Actors : b # Tray => job'[b] = job[b]
        /\ job'[Tray].then \in {"idle", "list", "forget"}
        /\ job'[Tray].at = "drop" => job'[Tray].then = "list"
        /\ job'[Tray].at = "scan" => job'[Tray].pid \in Pids
    BY <1>1, GotoWithFacts, GotoFacts, DetourFacts DEF List, Labels
  <2>2. seen' \in BOOLEAN /\ due' \in BOOLEAN /\ armed' \in Pids \cup {None}
    BY <1>1, Zenon DEF List, Remember, tray
  <2>3. UNCHANGED <<marker, holder, client, window, returned, faults>>
    BY <1>1 DEF List, disk, host
  <2> QED BY <2>1, <2>2, <2>3
<1>2. CASE Drop(Tray)
  <2>1. /\ job' \in [Actors -> Job] /\ job'[Tray].at \in {"list", "forget"}
        /\ \A b \in Actors : b # Tray => job'[b] = job[b]
        /\ job'[Tray].then = job[Tray].then
    BY <1>2, GotoFacts DEF Drop, Labels
  <2> QED BY <1>2, <2>1 DEF Drop, Unlink, host, tray
<1>3. CASE Scan
  <2>1. /\ job' \in [Actors -> Job] /\ job'[Tray].at \in {"list", "kill"}
        /\ \A b \in Actors : b # Tray => job'[b] = job[b]
        /\ job'[Tray].then \in {"idle", "list", "forget"}
        /\ job'[Tray].at = "kill" => job'[Tray].pid = job[Tray].pid /\ job'[Tray].then = "forget"
    BY <1>3, GotoWithFacts, DetourFacts DEF Scan, Labels
  <2>2. seen' \in BOOLEAN /\ due' \in BOOLEAN /\ armed' \in Pids \cup {None}
    <3>1. job[Tray].pid \in Pids
      BY <1>3 DEF Scan
    <3>2. \/ seen' = TRUE /\ armed' = None /\ due' = FALSE
          \/ armed' = job[Tray].pid /\ due' = FALSE /\ seen' = seen
          \/ armed' = armed /\ due' = due /\ seen' = seen
      BY <1>3, Zenon DEF Scan, tray
    <3> QED BY <3>1, <3>2, Zenon
  <2>3. UNCHANGED <<marker, holder, client, window, returned, faults>>
    BY <1>3 DEF Scan, disk, host
  <2>4. At(Tray, "scan")
    BY <1>3 DEF Scan
  <2> QED BY <2>1, <2>2, <2>3, <2>4
<1>4. CASE Kill
  <2>1. /\ job' \in [Actors -> Job] /\ job'[Tray].at \in {"forget", "grace", "drop"}
        /\ \A b \in Actors : b # Tray => job'[b] = job[b]
        /\ job'[Tray].then = "forget"
        /\ job'[Tray].pid = job[Tray].pid
    BY <1>4, GotoFacts DEF Kill, Labels
  <2> QED BY <1>4, <2>1 DEF Kill, disk, host, tray
<1>5. CASE Grace(Tray)
  <2>1. /\ job' \in [Actors -> Job] /\ job'[Tray].at = "drop"
        /\ \A b \in Actors : b # Tray => job'[b] = job[b]
        /\ job'[Tray].then = job[Tray].then
    BY <1>5, GotoWithFacts DEF Grace, Labels
  <2> QED BY <1>5, <2>1 DEF Grace, End, disk, tray
<1>6. CASE Forget
  <2>1. /\ job' \in [Actors -> Job] /\ job'[Tray].at = "list"
        /\ \A b \in Actors : b # Tray => job'[b] = job[b]
        /\ job'[Tray].then = job[Tray].then
    BY <1>6, GotoWithFacts DEF Forget, Labels
  <2>2. seen' \in BOOLEAN /\ due' \in BOOLEAN /\ armed' \in Pids \cup {None}
    BY <1>6, Zenon DEF Forget, tray
  <2>3. UNCHANGED <<marker, holder, client, window, returned, faults>>
    BY <1>6 DEF Forget, disk, host
  <2> QED BY <2>1, <2>2, <2>3
<1> QED BY <1>1, <1>2, <1>3, <1>4, <1>5, <1>6 DEF Pass


\* What a pass of the tray does to the history.
LEMMA PastTyped ==
  ASSUME Sound, [Next]_vars
  PROVE  missed' \in Pids \cup {None} /\ overdue' \in BOOLEAN
PROOF
<1>1. missed \in Pids \cup {None} /\ overdue \in BOOLEAN
  BY DEF Sound, TypeOK
<1>2. CASE UNCHANGED past
  BY <1>1, <1>2 DEF past
<1>3. CASE List
  BY <1>1, <1>3 DEF List, Remember, past
<1>4. CASE Scan
  <2>1. job[Tray].pid \in Pids
    BY <1>4 DEF Scan, At, Sound, Places
  <2>2. missed' \in {None, job[Tray].pid} /\ overdue' = (overdue /\ missed' = missed)
    BY <1>4 DEF Scan, Note
  <2> QED BY <2>1, <2>2
<1>5. CASE Elapse
  BY <1>1, <1>5 DEF Elapse
<1> QED BY <1>2, <1>3, <1>4, <1>5 DEF Next, Command, Poll, Pass, Time, vars

LEMMA SoundNext == Sound /\ [Next]_vars => Sound'
PROOF
<1> SUFFICES ASSUME Sound, [Next]_vars PROVE Sound'
  OBVIOUS
<1> USE PastTyped
<1>1. ASSUME NEW p \in Procs, Start(p) PROVE Sound'
  <2>1. disturbed' \in BOOLEAN
    BY <1>1, Zenon DEF Start, Sound, TypeOK
  <2> QED BY <1>1, <2>1, SoundProcess
<1>2. ASSUME NEW p \in Procs, Command(p) PROVE Sound'
  <2>1. disturbed' \in BOOLEAN /\ Run(p)
    BY <1>2, Zenon DEF Command, Sound, TypeOK
  <2> QED BY <2>1, SoundProcess
<1>3. CASE Poll
  <2>1. disturbed' \in BOOLEAN /\ Pass
    BY <1>3, Zenon DEF Poll, Sound, TypeOK
  <2> QED BY <2>1, SoundTray
<1>4. CASE Time
  <2>1. disturbed' \in BOOLEAN /\ Elapse
    BY <1>4 DEF Time, Sound, TypeOK
  <2> QED BY <2>1, SoundEnvironment
<1>5. CASE Other /\ UNCHANGED disturbed
  <2>1. disturbed' \in BOOLEAN
    BY <1>5 DEF Sound, TypeOK
  <2> QED BY <1>5, <2>1, SoundProcess, SoundEnvironment DEF Other
<1>6. CASE UNCHANGED vars
  BY <1>6 DEF vars, disk, host, tray, past, Sound, TypeOK, Places, Actors, At, Live
<1> QED BY <1>1, <1>2, <1>3, <1>4, <1>5, <1>6 DEF Next

\* Types, for any number of processes and clients.
THEOREM TypeCorrect == Spec => []TypeOK
PROOF
<1>1. Sound => TypeOK
  BY DEF Sound
<1> QED BY <1>1, SoundInit, SoundNext, PTL DEF Spec

-----------------------------------------------------------------------------
(* The tray's clock runs for the one client that its scans have missed.     *)

Aimed ==
  /\ armed # None => seen /\ missed = armed
  /\ due => armed # None /\ overdue
  /\ At(Tray, "kill") \/ At(Tray, "grace") => job[Tray].pid = armed /\ due

\* A command or a client leaves the tray and its clock alone.
LEMMA AimedStays ==
  ASSUME Aimed, UNCHANGED <<seen, armed, due, missed, overdue>>,
         \/ job'[Tray] = job[Tray]
         \/ job'[Tray].at \notin {"kill", "grace"}
         \/ job'[Tray].pid = job[Tray].pid /\ job[Tray].at \in {"kill", "grace"}
  PROVE  Aimed'
PROOF BY DEF Aimed, At

LEMMA AimedNext == Sound /\ Aimed /\ [Next]_vars => Aimed'
PROOF
<1> SUFFICES ASSUME Sound, Aimed, [Next]_vars PROVE Aimed'
  OBVIOUS
<1>1. job \in [Actors -> Job] /\ Tray \in Actors /\ Tray \notin Procs /\ None \notin Pids
  BY SessionsAssumption DEF Sound, TypeOK, Actors
<1>2. ASSUME NEW p \in Procs, Start(p) \/ Run(p) \/ AskKill(p) \/ Leave(p) \/ Crash(p),
             UNCHANGED past
      PROVE  Aimed'
  <2>1. UNCHANGED tray
    BY <1>2 DEF Start, Run, AskKill, Leave, Crash, Look, Open, Popen, Write, Settle, Waited,
                Drop, Grace
  <2>2. job'[Tray] = job[Tray]
    BY <1>1, <1>2 DEF Start, Run, AskKill, Leave, Crash, Look, Open, Popen, Write, Settle,
                Waited, Drop, Grace, Goto, GotoWith, Detour, Afresh
  <2> QED BY <1>2, <2>1, <2>2, AimedStays DEF tray, past
<1>3. CASE List
  <2>1. job'[Tray].at \in {"scan", "list", "drop"}
    BY <1>1, <1>3, GotoFacts, GotoWithFacts, DetourFacts DEF List, Live, Labels
  <2>2. \/ UNCHANGED <<tray, past>>
        \/ armed' = None /\ due' = FALSE
    BY <1>3 DEF List, Remember
  <2> QED BY <2>1, <2>2, AimedStays DEF Aimed, At, tray, past
<1>4. CASE Drop(Tray) /\ UNCHANGED past
  <2>1. job'[Tray].at \in {"list", "forget"}
    BY <1>1, <1>4, GotoFacts DEF Drop, At, Labels, Sound, Places
  <2> QED BY <1>4, <2>1, AimedStays DEF Drop, tray, past
<1>5. CASE Scan
  <2>1. /\ job[Tray].pid \in Pids /\ job'[Tray].at \in {"list", "kill"}
        /\ job'[Tray].at = "kill" => /\ job'[Tray].pid = job[Tray].pid
                                     /\ ~Shown /\ armed = job[Tray].pid /\ due /\ UNCHANGED tray
    BY <1>1, <1>5, GotoWithFacts, DetourFacts DEF Scan, At, Labels, Sound, Places
  <2>2. \/ Shown /\ armed' = None /\ due' = FALSE
        \/ ~Shown /\ seen /\ UNCHANGED seen /\ armed' = job[Tray].pid /\ due' = FALSE
        \/ ~Shown /\ UNCHANGED tray /\ (seen => armed = job[Tray].pid)
    BY <1>5 DEF Scan
  <2>3. IF Shown THEN missed' = None
        ELSE missed' = job[Tray].pid /\ (missed = job[Tray].pid => overdue' = overdue)
    <3>1. missed' = (IF Shown THEN None ELSE job[Tray].pid) /\ overdue' = (overdue /\ missed' = missed)
      BY <1>5 DEF Scan, Note
    <3>2. overdue \in BOOLEAN
      BY DEF Sound, TypeOK
    <3> QED BY <3>1, <3>2
  <2>4. armed' # None => seen' /\ missed' = armed'
    BY <1>1, <2>1, <2>2, <2>3 DEF Aimed, tray
  <2>5. due' => armed' # None /\ overdue'
    BY <1>1, <2>1, <2>2, <2>3 DEF Aimed, tray
  <2>6. At(Tray, "kill")' \/ At(Tray, "grace")' => job'[Tray].pid = armed' /\ due'
    BY <2>1 DEF At, tray
  <2> QED BY <2>4, <2>5, <2>6 DEF Aimed
<1>6. CASE Kill /\ UNCHANGED past
  <2>1. At(Tray, "kill") /\ job[Tray].then = "forget"
    BY <1>6 DEF Kill, Sound, Places
  <2>2. job'[Tray].pid = job[Tray].pid
    BY <1>1, <1>6, <2>1, GotoFacts DEF Kill, Labels
  <2> QED BY <1>6, <2>1, <2>2, AimedStays DEF Kill, At, tray, past
<1>7. CASE Grace(Tray) /\ UNCHANGED past
  <2>1. job'[Tray].at = "drop"
    BY <1>1, <1>7, GotoWithFacts DEF Grace, Labels
  <2> QED BY <1>7, <2>1, AimedStays DEF Grace, tray, past
<1>8. CASE Forget
  <2>1. job'[Tray].at = "list"
    BY <1>1, <1>8, GotoWithFacts DEF Forget, Labels
  <2> QED BY <1>8, <2>1 DEF Forget, Aimed, At
<1>9. CASE ScanFails /\ UNCHANGED past
  <2>1. job'[Tray].at = "list"
    BY <1>1, <1>9, GotoWithFacts DEF ScanFails, Labels
  <2> QED BY <1>9, <2>1, AimedStays DEF ScanFails, tray, past
<1>10. CASE Elapse
  <2>1. armed' = armed /\ armed # None /\ overdue' /\ UNCHANGED <<job, seen, missed>>
    <3>1. armed # None /\ armed = missed
      BY <1>10 DEF Elapse, Aimed
    <3> QED BY <1>10, <3>1 DEF Elapse
  <2>2. due'
    BY <1>10 DEF Elapse
  <2> QED BY <2>1, <2>2 DEF Aimed, At
<1>11. ASSUME NEW s \in Pids, Window(s) \/ Die(s), UNCHANGED past PROVE Aimed'
  BY <1>11, AimedStays DEF Window, Die, tray, past
<1>12. CASE UNCHANGED vars
  BY <1>12, AimedStays DEF vars, tray, past
<1> QED
  BY <1>2, <1>3, <1>4, <1>5, <1>6, <1>7, <1>8, <1>9, <1>10, <1>11, <1>12
  DEF Next, Command, Poll, Pass, Time, Other

\* The tray ends a session only after every scan for a whole debounce has found this very
\* one without a window, whoever takes the app's file over meanwhile.
THEOREM OnlyTheMissedEnd == Spec => []Debounced
PROOF
<1>1. Init => Aimed
  <2> SUFFICES ASSUME Init PROVE Aimed
    OBVIOUS
  <2>1. [Rest EXCEPT !.at = "list"].at = "list"
    BY DEF Rest
  <2>2. job[Tray].at = "list"
    BY <2>1 DEF Init, Actors
  <2> QED BY <2>2 DEF Init, Aimed, At
<1>2. Sound /\ Aimed => Debounced
  BY SessionsAssumption DEF Aimed, Debounced, Sound, Places, At, Actors
<1> QED BY <1>1, <1>2, SoundInit, SoundNext, AimedNext, PTL DEF Spec


-----------------------------------------------------------------------------
(* What nobody disturbed is kept.                                          *)

\* Facts that every step needs.
Quiet(a) ==
  \A b \in Actors \ {a} :
    /\ job[b].at \notin {"popen", "write"}
    /\ job[a].at \in Launching => job[b].at \notin Launching /\ ~Unlinking(b)

LEMMA QuietOf ==
  ASSUME NEW a \in Actors, ~Overlaps(a)
  PROVE  Quiet(a)
PROOF BY DEF Overlaps, Quiet

LEMMA CalmProcess ==
  ASSUME Sound, Calm, NEW p \in Procs, Quiet(p), Run(p)
  PROVE  Calm'
PROOF
<1> USE SessionsAssumption DEF Actors, At, Live, Launching, Kept, Nothing, Spawning, Unlinking, Calm
<1>0. /\ job \in [Actors -> Job] /\ returned \subseteq Pids /\ p \in Actors
      /\ marker \in Pids \cup {None, Empty}
      /\ \A s \in returned : client[s] = "live"
  BY DEF Sound, TypeOK, Places
<1>1. CASE Look(p)
  <2>1. Found("app", "idle") \in {"idle", "drop"} /\ (Found("app", "idle") = "drop" => ~Live(marker))
    BY DEF Found
  <2>2. /\ job'[p].at \in {"idle", "drop"}
        /\ job'[p].at = "drop" => ~Live(marker)
        /\ \A b \in Actors : b # p => job'[b] = job[b]
    BY <1>0, <1>1, <2>1, GotoFacts DEF Look, Labels
  <2>3. UNCHANGED <<marker, holder, client, returned>> /\ At(p, "look")
    BY <1>1 DEF Look, disk, host
  <2> QED BY <1>0, <2>2, <2>3
<1>2. CASE Open(p)
  <2>1. /\ job'[p].at \in {"popen", "look"}
        /\ job'[p].at = "popen" => holder' = p
        /\ job'[p].at = "look" => UNCHANGED disk
        /\ \A b \in Actors : b # p => job'[b] = job[b]
    BY <1>0, <1>2, GotoFacts, DetourFacts DEF Open, Labels
  <2>2. UNCHANGED <<client, returned>> /\ At(p, "open")
    BY <1>2 DEF Open, host
  <2> QED BY <1>0, <2>1, <2>2 DEF disk, Quiet
<1>3. CASE Popen(p)
  <2>1. Nothing /\ holder = p /\ At(p, "popen")
    BY <1>3 DEF Popen
  <2>2. UNCHANGED <<window, returned>>
    BY <1>3 DEF Popen
  <2>3. ASSUME NEW s \in Pids, client[s] = "unborn", GotoWith(p, "write", s),
               client' = [client EXCEPT ![s] = "live"], UNCHANGED disk
        PROVE  Calm'
    <3>1. job'[p].at = "write" /\ \A b \in Actors : b # p => job'[b] = job[b]
      BY <1>0, <2>3, GotoWithFacts DEF Labels
    <3>2. client \in [Pids -> {"unborn", "live", "dead"}]
      BY DEF Sound, TypeOK
    <3>3. \A b \in Actors : b # p => ~Unlinking(b) /\ job[b].at \notin Launching
      BY <2>1 DEF Quiet
    <3>4. \A t \in Pids : ~Kept(t)'
      BY <1>0, <2>1, <2>2, <2>3, <3>1, <3>2, <3>3
    <3> QED BY <1>0, <2>1, <2>3, <3>1, <3>3, <3>4 DEF disk
  <2>4. ASSUME Unlink, Goto(p, "idle"), UNCHANGED client PROVE Calm'
    <3>1. job'[p].at = "idle" /\ \A b \in Actors : b # p => job'[b] = job[b]
      BY <1>0, <2>4, GotoFacts DEF Labels
    <3>2. \A b \in Actors : b # p => job[b].at \notin Launching
      BY <2>1 DEF Quiet
    <3> QED BY <1>0, <2>1, <2>2, <2>4, <3>1, <3>2
  <2> QED BY <1>3, <2>3, <2>4 DEF Popen
<1>4. CASE Write(p)
  <2>1. Nothing /\ holder = p /\ At(p, "write") /\ job[p].pid \in Pids
    BY <1>4 DEF Write, Sound, Places
  <2>2. UNCHANGED <<client, returned>>
    BY <1>4 DEF Write, host
  <2>3. \A b \in Actors : b # p => ~Unlinking(b) /\ job[b].at \notin Launching
    BY <2>1 DEF Quiet
  <2>4. ASSUME marker' = job[p].pid, Goto(p, "settle") PROVE Calm'
    <3>1. job'[p].at = "settle" /\ job'[p].pid = job[p].pid
          /\ \A b \in Actors : b # p => job'[b] = job[b]
      BY <1>0, <2>4, GotoFacts DEF Labels
    <3> QED BY <1>0, <2>1, <2>2, <2>3, <2>4, <3>1
  <2>5. ASSUME Unlink, Goto(p, "idle") PROVE Calm'
    <3>1. job'[p].at = "idle" /\ \A b \in Actors : b # p => job'[b] = job[b]
      BY <1>0, <2>5, GotoFacts DEF Labels
    <3> QED BY <1>0, <2>1, <2>2, <2>3, <2>5, <3>1
  <2> QED BY <1>4, <2>1, <2>4, <2>5 DEF Write
<1>5. CASE Settle(p)
  <2>1. At(p, "settle") /\ UNCHANGED client /\ job[p].pid \in Pids
    BY <1>5 DEF Settle, Sound, Places
  <2>2. \A b \in Actors : b # p => ~Unlinking(b) /\ job[b].at \notin Launching
    BY <2>1 DEF Quiet
  <2>3. ASSUME Live(job[p].pid), NEW l \in {"watch", "idle"}, Goto(p, l), UNCHANGED disk,
               returned' = returned \cup {job[p].pid}
        PROVE  Calm'
    <3>1. job'[p].at = l /\ (l = "watch" => job'[p].pid = job[p].pid)
          /\ \A b \in Actors : b # p => job'[b] = job[b]
      BY <1>0, <2>3, GotoFacts DEF Labels
    <3> QED BY <1>0, <2>1, <2>2, <2>3, <3>1 DEF disk
  <2>4. ASSUME ~Live(job[p].pid), Unlink, UNCHANGED returned,
               Afresh(p, "open", TRUE) \/ Goto(p, "idle")
        PROVE  Calm'
    <3>1. job'[p].at \in {"open", "idle"} /\ \A b \in Actors : b # p => job'[b] = job[b]
      BY <1>0, <2>4, GotoFacts, AfreshFacts DEF Labels
    <3>2. Nothing
      BY <2>1, <2>4
    <3> QED BY <1>0, <2>1, <2>2, <2>4, <3>1, <3>2
  <2> QED BY <1>5, <2>3, <2>4 DEF Settle
<1>6. CASE Waited(p)
  <2>1. At(p, "watch") /\ ~Live(job[p].pid) /\ UNCHANGED <<disk, client, returned>>
    BY <1>6 DEF Waited, host
  <2>2. job'[p].at = "drop" /\ \A b \in Actors : b # p => job'[b] = job[b]
    BY <1>0, <1>6, AfreshFacts DEF Waited, Labels
  <2> QED BY <1>0, <2>1, <2>2 DEF disk
<1>7. CASE Drop(p)
  <2>1. At(p, "drop") /\ UNCHANGED <<client, returned>> /\ Unlink /\ Nothing
    BY <1>0, <1>7 DEF Drop, host
  <2>2. job'[p].at \in {"open", "idle"} /\ \A b \in Actors : b # p => job'[b] = job[b]
    BY <1>0, <1>7, GotoFacts DEF Drop, Labels, Sound, Places
  <2> QED BY <1>0, <2>1, <2>2 DEF Quiet, Unlink
<1>8. CASE Grace(p)
  <2>1. At(p, "grace") /\ UNCHANGED disk /\ End(job[p].pid) /\ job[p].pid \in Pids
    BY <1>0, <1>8 DEF Grace, Sound, Places
  <2>2. job'[p].at = "drop" /\ \A b \in Actors : b # p => job'[b] = job[b]
    BY <1>0, <1>8, GotoWithFacts DEF Grace, Labels
  <2>3. client \in [Pids -> {"unborn", "live", "dead"}]
    BY DEF Sound, TypeOK
  <2>4. \A s \in Pids : Kept(s)' => Kept(s) /\ s # job[p].pid
    BY <1>0, <2>1, <2>2, <2>3 DEF End
  <2>5. Nothing'
    BY <1>0, <2>1, <2>4
  <2> QED BY <1>0, <2>1, <2>2, <2>5 DEF Quiet, disk
<1> QED
  BY <1>1, <1>2, <1>3, <1>4, <1>5, <1>6, <1>7, <1>8 DEF Run

LEMMA CalmOutside ==
  ASSUME Sound, Calm, NEW p \in Procs,
         \/ Start(p) /\ ~disturbed'
         \/ AskKill(p) \/ Leave(p) \/ Crash(p)
  PROVE  Calm'
PROOF
<1> USE SessionsAssumption DEF Actors, At, Live, Launching, Kept, Nothing, Spawning, Unlinking, Calm
<1>0. /\ job \in [Actors -> Job] /\ returned \subseteq Pids /\ p \in Actors
      /\ marker \in Pids \cup {None, Empty}
      /\ \A s \in returned : client[s] = "live"
  BY DEF Sound, TypeOK, Places
<1>1. CASE Start(p) /\ ~disturbed'
  <2>1. PICK want \in {"app", "file"} :
          /\ Detour(p, Found(want, "open"), "open")
          /\ ~(want = "file" /\ Live(marker))
    BY <1>1 DEF Start
  <2>2. /\ Found(want, "open") \in {"open", "idle", "drop"}
        /\ Found(want, "open") = "open" => marker = None
        /\ Found(want, "open") = "drop" => ~Live(marker)
    BY <2>1 DEF Found
  <2>3. /\ job'[p].at \in {"open", "idle", "drop"}
        /\ job'[p].at = "open" => marker = None
        /\ job'[p].at = "drop" => ~Live(marker)
        /\ \A b \in Actors : b # p => job'[b] = job[b]
    BY <1>0, <2>1, <2>2, DetourFacts DEF Labels
  <2>4. UNCHANGED <<marker, holder, client, returned>> /\ At(p, "idle")
    BY <1>1 DEF Start, disk, host
  <2> QED BY <1>0, <2>3, <2>4
<1>2. CASE AskKill(p)
  <2>1. /\ job'[p].at \in {"grace", "drop"}
        /\ job'[p].at = "grace" => job'[p].pid = marker
        /\ job'[p].at = "drop" => ~Live(marker)
        /\ \A b \in Actors : b # p => job'[b] = job[b]
    BY <1>0, <1>2, GotoWithFacts, DetourFacts DEF AskKill, Labels
  <2>2. UNCHANGED <<marker, holder, client, returned>> /\ At(p, "idle")
    BY <1>2 DEF AskKill, disk, host
  <2> QED BY <1>0, <2>1, <2>2
<1>3. CASE Leave(p) \/ Crash(p)
  <2>1. job'[p].at = "idle" /\ \A b \in Actors : b # p => job'[b] = job[b]
    BY <1>0, <1>3, GotoFacts DEF Leave, Crash, Labels
  <2>2. UNCHANGED <<marker, client, returned>> /\ holder' \in {holder, None}
        /\ (holder' # holder => holder = p)
    BY <1>3 DEF Leave, Crash, disk, host
  <2> QED BY <1>0, <2>1, <2>2
<1> QED BY <1>1, <1>2, <1>3

LEMMA CalmTray ==
  ASSUME Sound, Calm, Quiet(Tray), Pass
  PROVE  Calm'
PROOF
<1> USE SessionsAssumption DEF Actors, At, Live, Launching, Kept, Nothing, Spawning, Unlinking, Calm
<1>0. /\ job \in [Actors -> Job] /\ returned \subseteq Pids /\ Tray \in Actors
      /\ marker \in Pids \cup {None, Empty}
      /\ job[Tray].at \in {"list", "drop", "scan", "kill", "grace", "forget"}
      /\ \A s \in returned : client[s] = "live"
  BY DEF Sound, TypeOK, Places
<1>1. CASE List
  <2>1. /\ job'[Tray].at \in {"scan", "list", "drop"}
        /\ job'[Tray].at = "drop" => ~Live(marker)
        /\ \A b \in Actors : b # Tray => job'[b] = job[b]
    BY <1>0, <1>1, GotoWithFacts, GotoFacts, DetourFacts DEF List, Labels
  <2>2. UNCHANGED <<marker, holder, client, returned>>
    BY <1>1 DEF List, disk, host
  <2> QED BY <1>0, <2>1, <2>2
<1>2. CASE Drop(Tray)
  <2>1. UNCHANGED <<client, returned>> /\ Unlink /\ Nothing
    BY <1>0, <1>2 DEF Drop, host
  <2>2. job'[Tray].at \in {"list", "forget"} /\ \A b \in Actors : b # Tray => job'[b] = job[b]
    BY <1>0, <1>2, GotoFacts DEF Drop, Labels, Sound, Places
  <2> QED BY <1>0, <2>1, <2>2 DEF Quiet, Unlink
<1>3. CASE Scan \/ Forget
  <2>1. /\ job'[Tray].at \in {"list", "kill"}
        /\ \A b \in Actors : b # Tray => job'[b] = job[b]
    BY <1>0, <1>3, GotoWithFacts, DetourFacts DEF Scan, Forget, Labels
  <2>2. UNCHANGED <<marker, holder, client, returned>>
    BY <1>3 DEF Scan, Forget, disk, host
  <2> QED BY <1>0, <2>1, <2>2
<1>4. CASE Kill
  <2>0. job[Tray].then = "forget" /\ job[Tray].pid \in Pids
    BY <1>4 DEF Kill, Sound, Places
  <2>1. /\ job'[Tray].at \in {"forget", "grace", "drop"}
        /\ job'[Tray].at = "grace" => job'[Tray].pid = marker
        /\ job'[Tray].at = "drop" => ~Live(marker)
        /\ \A b \in Actors : b # Tray => job'[b] = job[b]
    BY <1>0, <1>4, <2>0, GotoFacts DEF Kill, Labels
  <2>2. UNCHANGED <<marker, holder, client, returned>>
    BY <1>4 DEF Kill, disk, host
  <2> QED BY <1>0, <2>1, <2>2
<1>5. CASE Grace(Tray)
  <2>1. At(Tray, "grace") /\ UNCHANGED disk /\ End(job[Tray].pid) /\ job[Tray].pid \in Pids
    BY <1>0, <1>5 DEF Grace, Sound, Places
  <2>2. job'[Tray].at = "drop" /\ \A b \in Actors : b # Tray => job'[b] = job[b]
    BY <1>0, <1>5, GotoWithFacts DEF Grace, Labels
  <2>3. client \in [Pids -> {"unborn", "live", "dead"}]
    BY DEF Sound, TypeOK
  <2>4. \A s \in Pids : Kept(s)' => Kept(s) /\ s # job[Tray].pid
    BY <1>0, <2>1, <2>2, <2>3 DEF End
  <2>5. Nothing'
    BY <1>0, <2>1, <2>4
  <2> QED BY <1>0, <2>1, <2>2, <2>5 DEF Quiet, disk
<1> QED BY <1>1, <1>2, <1>3, <1>4, <1>5 DEF Pass

LEMMA CalmEnvironment ==
  ASSUME Sound, Calm,
         (\E s \in Pids : Window(s) \/ Die(s)) \/ ScanFails \/ Elapse \/ UNCHANGED vars
  PROVE  Calm'
PROOF
<1> USE SessionsAssumption DEF Actors, At, Live, Launching, Kept, Nothing, Spawning, Unlinking, Calm
<1>0. /\ job \in [Actors -> Job] /\ returned \subseteq Pids /\ Tray \in Actors
      /\ client \in [Pids -> {"unborn", "live", "dead"}]
      /\ \A s \in returned : client[s] = "live"
      /\ \A p \in Procs : At(p, "watch") /\ Live(job[p].pid) => job[p].pid \in returned
  BY DEF Sound, TypeOK, Places
<1>1. ASSUME NEW s \in Pids, Window(s) PROVE Calm'
  BY <1>1 DEF Window, disk
<1>2. ASSUME NEW s \in Pids, Die(s) PROVE Calm'
  <2>1. UNCHANGED <<marker, holder, job>> /\ End(s) /\ Live(s)
    BY <1>2 DEF Die, disk
  <2>2. \A t \in Pids : Kept(t)' => Kept(t) /\ t # s
    BY <1>0, <2>1 DEF End
  <2>3. \A t \in Pids : t # s => (Live(t)' <=> Live(t))
    BY <1>0, <2>1 DEF End
  <2>4. ASSUME NEW p \in Procs, job[p].at \in {"settle", "watch"}, job[p].pid = s PROVE Nothing'
    <3>1. Kept(s)
      BY <1>0, <2>1, <2>4
    <3> QED BY <2>2, <3>1
  <2> QED BY <1>0, <2>1, <2>2, <2>3, <2>4 DEF Sound, Places
<1>3. CASE ScanFails
  <2>1. job'[Tray].at = "list" /\ \A b \in Actors : b # Tray => job'[b] = job[b]
    BY <1>0, <1>3, GotoWithFacts DEF ScanFails, Labels
  <2>2. UNCHANGED <<marker, holder, client, returned>>
    BY <1>3 DEF ScanFails, disk, host
  <2> QED BY <1>0, <2>1, <2>2
<1>4. CASE Elapse \/ UNCHANGED vars
  BY <1>4 DEF Elapse, vars, disk, host
<1> QED BY <1>1, <1>2, <1>3, <1>4

\* Invariance of the strengthening.
LEMMA InvNext == Inv /\ [Next]_vars => Inv'
PROOF
<1> SUFFICES ASSUME Inv, [Next]_vars, ~disturbed' PROVE Calm'
  BY SoundNext DEF Inv
<1>0. Sound /\ Tray \in Actors /\ Procs \subseteq Actors /\ (~disturbed => Calm)
  BY DEF Inv, Actors
<1>1. ASSUME NEW p \in Procs, Start(p) PROVE Calm'
  <2>1. ~disturbed
    BY <1>1 DEF Start
  <2> QED BY <1>0, <1>1, <2>1, CalmOutside
<1>2. ASSUME NEW p \in Procs, Command(p) PROVE Calm'
  <2>1. ~disturbed /\ ~Overlaps(p) /\ Run(p)
    BY <1>2 DEF Command
  <2> QED BY <1>0, <2>1, QuietOf, CalmProcess
<1>3. CASE Poll
  <2>1. ~disturbed /\ ~Overlaps(Tray) /\ Pass
    BY <1>3 DEF Poll
  <2> QED BY <1>0, <2>1, QuietOf, CalmTray
<1>4. CASE Time \/ (Other /\ UNCHANGED disturbed) \/ UNCHANGED vars
  <2>1. ~disturbed
    BY <1>4 DEF Time, vars
  <2> QED BY <1>0, <1>4, <2>1, CalmOutside, CalmEnvironment DEF Time, Other
<1> QED BY <1>1, <1>2, <1>3, <1>4 DEF Next

\* A session that launch_app returned stays in its file while it lives, unless a
\* file was opened beside it or two worked on the file at a time.
THEOREM NothingLost == Spec => []Tracked
PROOF
<1>1. Init => Inv
  <2> SUFFICES ASSUME Init PROVE Calm
    BY SoundInit DEF Inv
  <2>1. \A a \in Actors : job[a].at \in {"idle", "list"}
    <3>1. Rest.at = "idle" /\ [Rest EXCEPT !.at = "list"].at = "list"
      BY DEF Rest
    <3> QED BY <3>1 DEF Init, Actors
  <2> QED BY <2>1 DEF Init, Calm, Kept, Nothing, Spawning, Unlinking, At, Actors
<1>2. Inv => Tracked
  BY DEF Inv, Calm, Kept, Tracked, Sound, TypeOK
<1> QED BY <1>1, <1>2, InvNext, PTL DEF Spec

=============================================================================
