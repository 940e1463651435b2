--------------------------- MODULE StorageProofs ---------------------------
(***************************************************************************)
(* The user's work survives, for any number of commands beside the tray.    *)
(***************************************************************************)
EXTENDS Storage, TLAPS

Before == {"down", "copy", "copying"}
After  == {"save", "compose", "ensure", "remove"}
Past   == After \cup {"copying"}

\* Past the first copied byte nobody else is in a migration, or only about to begin one.
Alone == \A p, q \in Procs : p # q /\ pc[p] \in Past => pc[q] \notin Copying \ {"down"}

\* What each step of a migration relies on while there is work.
Step(p) ==
  /\ pc[p] \in Before => disk["volume"] = "cur" /\ disk["bind"] # "cur"
  /\ pc[p] \in After => disk["bind"] = "cur"
  /\ pc[p] \in Past => /\ disk["bind"] # "none"
                       /\ \A q \in Procs : pc[q] # "down"

Safe == (owned <=> ~Lost) /\ Alone /\ (owned => \A p \in Procs : Step(p))
IInv == TypeOK /\ ("disturbed" \notin slips => Safe)

LEMMA PlacesApart ==
  /\ Copying \subseteq Places /\ Copying = Before \cup After /\ Past = Copying \ {"down", "copy"}
  /\ After \subseteq Past /\ Before \cap After = {} /\ "idle" \notin Copying
  /\ "down" \in Before \ Past /\ "copy" \in Before \ Past /\ "copying" \in Before \cap Past
  BY DEF Places, Copying, Before, Past, After

LEMMA GotoMoves ==
  ASSUME TypeOK, NEW p \in Procs, NEW from, NEW to \in Places, Goto(p, from, to)
  PROVE  /\ pc[p] = from /\ pc'[p] = to /\ pc' \in [Procs -> Places]
         /\ \A q \in Procs \ {p} : pc'[q] = pc[q]
  BY DEF Goto, TypeOK

-----------------------------------------------------------------------------
LEMMA StorageTyped ==
  ASSUME TypeOK, Boot \/ ComposeStop \/ ComposeDown \/ UNCHANGED <<box, run>>
  PROVE  box' \in Stores \cup {"none"} /\ run' \in BOOLEAN /\ (run' => box' # "none")
  <1>1. CASE Boot
    BY <1>1 DEF TypeOK, Boot, Stores
  <1>2. CASE ComposeStop
    <2>1. run' = run \/ run' = FALSE
      BY <1>2, Zenon DEF ComposeStop
    <2>2. UNCHANGED box
      BY <1>2 DEF ComposeStop
    <2>3. CASE run' = run
      BY <2>2, <2>3 DEF TypeOK
    <2>4. CASE run' = FALSE
      BY <2>2, <2>4 DEF TypeOK
    <2> QED BY <2>1, <2>3, <2>4
  <1>3. CASE ComposeDown
    BY <1>3 DEF TypeOK, ComposeDown
  <1>4. CASE UNCHANGED <<box, run>>
    BY <1>4 DEF TypeOK
  <1> QED BY <1>1, <1>2, <1>3, <1>4

LEMMA BeginTyped ==
  ASSUME TypeOK, NEW p \in Procs, NEW to \in Places, Begin(p, to)
  PROVE  TypeOK'
  BY DEF Begin, TypeOK, Stores

LEMMA SlipTyped ==
  ASSUME TypeOK, NEW wrong \in SUBSET Slips, Slip(wrong)
  PROVE  slips' \subseteq Slips /\ slips \subseteq slips'
  BY DEF Slip, TypeOK

LEMMA WrongsTyped ==
  ASSUME NEW p
  PROVE  Meets(p) \subseteq Slips /\ Stale(p) \subseteq Slips /\ Unseen(p) \subseteq Slips
  BY DEF Meets, Stale, Unseen, Slips

-----------------------------------------------------------------------------
LEMMA MigrateTyped ==
  ASSUME TypeOK, NEW p \in Procs, Migrate(p)
  PROVE  TypeOK'
  <1> USE GotoMoves, StorageTyped, SlipTyped, WrongsTyped DEF Written, Data
  <1> USE DEF Places, Copying, Stores, Holds
  <1>1. CASE Plan(p)
    BY <1>1, BeginTyped DEF Plan
  <1>2. CASE Down(p)
    BY <1>2 DEF Down, TypeOK
  <1>3. CASE Copy(p)
    BY <1>3 DEF Copy, TypeOK
  <1>4. CASE Copied(p)
    BY <1>4 DEF Copied, TypeOK
  <1>5. CASE Save(p)
    BY <1>5 DEF Save, TypeOK
  <1>6. CASE Regenerate(p)
    BY <1>6 DEF Regenerate, TypeOK, Slips
  <1>7. CASE Ensure(p)
    BY <1>7 DEF Ensure, TypeOK
  <1>8. CASE Remove(p)
    BY <1>8 DEF Remove, TypeOK
  <1> QED BY <1>1, <1>2, <1>3, <1>4, <1>5, <1>6, <1>7, <1>8 DEF Migrate

LEMMA CommandTyped ==
  ASSUME TypeOK, NEW p \in Procs, Pod(p) \/ Install(p) \/ Growth(p) \/ Crash(p)
  PROVE  TypeOK'
  <1> USE GotoMoves, StorageTyped, SlipTyped, WrongsTyped DEF Written, Data
  <1> USE DEF Places, Stores, Holds
  <1>1. CASE Recreate(p)
    BY <1>1, BeginTyped DEF Recreate
  <1>2. CASE Halt(p)
    BY <1>2 DEF Halt, TypeOK
  <1>3. CASE Wipe(p)
    <2> DEFINE left == [s \in Stores |-> IF disk[s] = "cur" THEN "old" ELSE disk[s]]
    <2>1. left \in [Stores -> Holds]
      BY DEF TypeOK
    <2>2. disk' \in [Stores -> Holds]
      <3> HIDE DEF left
      <3> QED BY <1>3, <2>1 DEF Wipe, left
    <2>3. box' \in Stores \cup {"none"} /\ run' \in BOOLEAN /\ (run' => box' # "none")
      BY <1>3 DEF Wipe
    <2>4. pc' \in [Procs -> Places]
      BY <1>3 DEF Wipe
    <2> QED BY <1>3, <2>2, <2>3, <2>4 DEF Wipe, TypeOK
  <1>4. CASE Regen(p)
    BY <1>4 DEF Regen, TypeOK
  <1>5. CASE Up(p)
    BY <1>5 DEF Up, TypeOK
  <1>6. CASE Setup(p)
    BY <1>6 DEF Setup, TypeOK
  <1>7. CASE Remake(p)
    <2>1. Stale(p) \cup Unseen(p) \subseteq Slips
      OBVIOUS
    <2> QED BY <1>7, <2>1 DEF Remake, TypeOK
  <1>8. CASE Clear(p)
    BY <1>8 DEF Clear, TypeOK
  <1>9. CASE Raise(p)
    BY <1>9 DEF Raise, TypeOK, Slips
  <1>10. CASE Keep(p)
    BY <1>10 DEF Keep, TypeOK
  <1>11. CASE Grow(p)
    BY <1>11, BeginTyped DEF Grow, TypeOK, Procs
  <1>12. CASE GrowStop(p)
    BY <1>12 DEF GrowStop, TypeOK
  <1>13. CASE GrowSave(p)
    BY <1>13 DEF GrowSave, TypeOK
  <1>14. CASE Crash(p)
    BY <1>14 DEF Crash, TypeOK, Slip, Slips
  <1> QED BY <1>1, <1>2, <1>3, <1>4, <1>5, <1>6, <1>7, <1>8, <1>9, <1>10, <1>11, <1>12,
             <1>13, <1>14 DEF Pod, Install, Growth

LEMMA WorldTyped ==
  ASSUME TypeOK, TrayStart \/ UserUp \/ UserStop \/ Work
  PROVE  TypeOK'
  <1> USE StorageTyped DEF Written, Data
  <1>1. CASE TrayStart
    BY <1>1 DEF TrayStart, TypeOK, Procs
  <1>2. CASE UserUp \/ UserStop
    BY <1>2 DEF UserUp, UserStop, TypeOK, Slip, Slips
  <1>3. CASE Work
    BY <1>3 DEF Work, TypeOK, Holds, Slip, Slips
  <1> QED BY <1>1, <1>2, <1>3

LEMMA InitTyped == Init => TypeOK
  BY DEF Init, TypeOK, Holds, Places, Stores

LEMMA StepTyped == TypeOK /\ [Next]_vars => TypeOK'
  <1>1. TypeOK /\ UNCHANGED vars => TypeOK'
    BY DEF TypeOK, vars
  <1> QED BY <1>1, MigrateTyped, CommandTyped, WorldTyped DEF Next

\* Types: a container that runs was made, and every store, file and process is in one
\* of its states, for any number of commands.
THEOREM TypeCorrect == Spec => []TypeOK
  BY InitTyped, StepTyped, PTL DEF Spec

-----------------------------------------------------------------------------
\* Nothing that has gone wrong is forgotten.
LEMMA SlipsGrow == TypeOK /\ [Next]_vars => slips \subseteq slips'
  <1> SUFFICES ASSUME TypeOK, [Next]_vars PROVE slips \subseteq slips'
    OBVIOUS
  <1> USE DEF Slip
  <1>1. CASE UNCHANGED vars
    BY <1>1 DEF vars
  <1>2. ASSUME NEW p \in Procs, Migrate(p) PROVE slips \subseteq slips'
    BY <1>2 DEF Migrate, Plan, Begin, Down, Copy, Copied, Save, Regenerate, Ensure, Remove
  <1>3. ASSUME NEW p \in Procs, Pod(p) \/ Growth(p) PROVE slips \subseteq slips'
    BY <1>3 DEF Pod, Growth, Recreate, Begin, Halt, Wipe, Regen, Up, Grow, GrowStop, GrowSave
  <1>4. ASSUME NEW p \in Procs, Install(p) \/ Crash(p) PROVE slips \subseteq slips'
    BY <1>4 DEF Install, Setup, Remake, Clear, Raise, Keep, Crash
  <1>5. CASE TrayStart \/ UserUp \/ UserStop \/ Work
    BY <1>5 DEF TrayStart, UserUp, UserStop, Work
  <1> QED BY <1>1, <1>2, <1>3, <1>4, <1>5 DEF Next

\* A migration that steps on unnoticed has no other beside it.
LEMMA Unmet ==
  ASSUME NEW p \in Procs, "disturbed" \notin Meets(p)
  PROVE  \A q \in Procs \ {p} : pc[q] \notin Copying
  BY DEF Meets

\* A step that moves nobody into a migration, and leaves the data as they are.
LEMMA StillSafe ==
  ASSUME TypeOK, Safe, UNCHANGED <<disk, owned>>,
         \A q \in Procs : pc'[q] = pc[q] \/ pc'[q] \notin Copying
  PROVE  Safe'
  <1> USE PlacesApart
  <1>1. (owned <=> ~Lost)'
    BY DEF Safe, Lost
  <1>2. Alone'
    BY DEF Safe, Alone
  <1>3. ASSUME owned', NEW q \in Procs PROVE Step(q)'
    <2>1. Step(q)
      BY <1>3 DEF Safe
    <2>2. \A r \in Procs : pc'[r] # pc[r] => pc'[r] # "down"
      OBVIOUS
    <2> QED BY <1>3, <2>1, <2>2 DEF Step
  <1> QED BY <1>1, <1>2, <1>3 DEF Safe

\* There is no work any more, and nobody was moved into a migration.
LEMMA LostSafe ==
  ASSUME Safe, ~owned', Lost', \A q \in Procs : pc'[q] = pc[q] \/ pc'[q] \notin Copying
  PROVE  Safe'
  <1>1. Alone'
    BY PlacesApart DEF Safe, Alone
  <1> QED BY <1>1 DEF Safe

\* A step of p with no other migration beside it.
LEMMA AloneSafe ==
  ASSUME NEW p \in Procs, \A q \in Procs \ {p} : pc'[q] \notin Copying,
         (owned <=> ~Lost)', owned' => Step(p)', pc'[p] # "down"
  PROVE  Safe'
  <1> USE PlacesApart
  <1>1. Alone'
    BY DEF Alone
  <1>2. ASSUME NEW q \in Procs \ {p} PROVE Step(q)'
    BY <1>2 DEF Step
  <1> QED BY <1>1, <1>2 DEF Safe

\* p goes on behind its copy, which is not touched.
LEMMA OnwardSafe ==
  ASSUME TypeOK, Safe, NEW p \in Procs, UNCHANGED <<disk, owned>>,
         \A q \in Procs \ {p} : pc'[q] = pc[q], pc[p] \in After, pc'[p] \in After
  PROVE  Safe'
  <1> USE PlacesApart
  <1>1. (owned <=> ~Lost)'
    BY DEF Safe, Lost
  <1>2. Alone'
    BY DEF Safe, Alone
  <1>3. ASSUME owned', NEW q \in Procs PROVE Step(q)'
    <2>1. Step(q) /\ Step(p)
      BY <1>3 DEF Safe
    <2> QED BY <1>3, <2>1 DEF Step
  <1> QED BY <1>1, <1>2, <1>3 DEF Safe

-----------------------------------------------------------------------------
LEMMA WipeLoses ==
  ASSUME TypeOK, NEW p \in Procs, Wipe(p)
  PROVE  /\ \A s \in Stores : disk'[s] # "cur"
         /\ ~owned' /\ UNCHANGED <<path, compose, mine>>
         /\ pc[p] = "wipe" /\ pc'[p] = "regen" /\ \A q \in Procs \ {p} : pc'[q] = pc[q]
  <1> DEFINE left == [s \in Stores |-> IF disk[s] = "cur" THEN "old" ELSE disk[s]]
  <1>1. \A s \in Stores : left[s] # "cur"
    OBVIOUS
  <1>2. \A s \in Stores : disk'[s] # "cur"
    <2> HIDE DEF left
    <2> QED BY <1>1 DEF Wipe, left, Stores
  <1>3. pc[p] = "wipe" /\ pc'[p] = "regen" /\ \A q \in Procs \ {p} : pc'[q] = pc[q]
    BY GotoMoves DEF Wipe, Places
  <1> QED BY <1>2, <1>3 DEF Wipe, Written

\* Every other command leaves the data as they are, and moves nobody into a migration.
LEMMA CommandStill ==
  ASSUME TypeOK, NEW p \in Procs, Pod(p) \/ Install(p) \/ Growth(p) \/ Crash(p), ~Wipe(p)
  PROVE  /\ UNCHANGED <<disk, owned>> /\ pc'[p] \notin Copying
         /\ \A q \in Procs \ {p} : pc'[q] = pc[q]
  <1> USE GotoMoves DEF Data, Copying, Places
  <1>1. CASE Pod(p)
    BY <1>1 DEF Pod, Recreate, Begin, Halt, Regen, Up, TypeOK
  <1>2. CASE Install(p)
    BY <1>2 DEF Install, Setup, Remake, Clear, Raise, Keep, TypeOK
  <1>3. CASE Growth(p)
    BY <1>3 DEF Growth, Grow, Begin, GrowStop, GrowSave, TypeOK
  <1>4. CASE Crash(p)
    BY <1>4 DEF Crash, TypeOK
  <1> QED BY <1>1, <1>2, <1>3, <1>4

LEMMA CommandSafe ==
  ASSUME TypeOK, Safe, NEW p \in Procs, Pod(p) \/ Install(p) \/ Growth(p) \/ Crash(p)
  PROVE  Safe'
  <1>1. CASE Wipe(p)
    <2>1. ~owned' /\ Lost' /\ \A q \in Procs : pc'[q] = pc[q] \/ pc'[q] = "regen"
      BY <1>1, WipeLoses DEF Lost
    <2>2. "regen" \notin Copying
      BY DEF Copying
    <2> QED BY <2>1, <2>2, LostSafe
  <1>2. CASE ~Wipe(p)
    BY <1>2, CommandStill, StillSafe
  <1> QED BY <1>1, <1>2

-----------------------------------------------------------------------------
\* The two kinds of work: on what there is, and on an empty store beside it.
LEMMA WorkKinds ==
  ASSUME TypeOK, Work
  PROVE  /\ run /\ box \in Stores /\ UNCHANGED <<box, run, pc, mine, path, compose>>
         /\ \/ /\ owned' /\ disk'[box] = "cur"
               /\ \A s \in Stores \ {box} : disk'[s] # "cur" /\ (disk'[s] = "none" <=> disk[s] = "none")
            \/ /\ ~Lost /\ disk[box] = "none" /\ owned' = owned
               /\ disk'[box] = "old" /\ \A s \in Stores \ {box} : disk'[s] = disk[s]
  <1>1. run /\ box \in Stores /\ UNCHANGED <<box, run, pc, mine, path, compose>>
    BY DEF Work, Written, TypeOK
  <1>2. CASE owned' = TRUE /\ disk' = [s \in Stores |-> CASE s = box -> "cur"
                                            [] s # box /\ disk[s] = "cur" -> "old"
                                            [] OTHER -> disk[s]]
    BY <1>1, <1>2
  <1>3. CASE /\ ~Lost /\ disk[box] = "none"
             /\ disk' = [disk EXCEPT ![box] = "old"] /\ UNCHANGED owned
    BY <1>1, <1>3 DEF TypeOK
  <1> QED BY <1>1, <1>2, <1>3 DEF Work

LEMMA WorkSafe ==
  ASSUME TypeOK, Safe, "disturbed" \notin slips', Work
  PROVE  Safe'
  <1> USE PlacesApart
  <1>1. UNCHANGED pc /\ box \in Stores
    BY WorkKinds
  <1>2. \A q \in Procs : pc[q] \notin Delicate[box]
    BY DEF Work, Slip
  <1>3. /\ box = "volume" => \A q \in Procs : pc[q] \notin Past
        /\ box = "bind" => \A q \in Procs : pc[q] \notin Before
    BY <1>2 DEF Delicate, Past, After, Before
  <1>4. Alone'
    BY <1>1 DEF Safe, Alone
  <1>5. CASE /\ owned' /\ disk'[box] = "cur"
             /\ \A s \in Stores \ {box} : disk'[s] # "cur" /\ (disk'[s] = "none" <=> disk[s] = "none")
    <2>1. ASSUME NEW q \in Procs PROVE Step(q)'
      BY <1>1, <1>3, <1>5 DEF Step, Stores
    <2>2. ~Lost'
      BY <1>1, <1>5 DEF Lost
    <2> QED BY <1>4, <1>5, <2>1, <2>2 DEF Safe
  <1>6. CASE /\ ~Lost /\ disk[box] = "none" /\ owned' = owned
             /\ disk'[box] = "old" /\ \A s \in Stores \ {box} : disk'[s] = disk[s]
    <2>1. ~Lost'
      BY <1>6 DEF Lost
    <2>2. owned /\ \A q \in Procs : Step(q)
      BY <1>6 DEF Safe
    <2>3. ASSUME NEW q \in Procs PROVE Step(q)'
      <3>1. Step(q)
        BY <2>2
      <3>2. pc[q] \notin Before /\ pc[q] \notin Past
        BY <1>1, <1>3, <1>6, <3>1 DEF Step, Stores
      <3> QED BY <1>1, <3>2 DEF Step
    <2> QED BY <1>4, <1>6, <2>1, <2>2, <2>3 DEF Safe
  <1> QED BY <1>5, <1>6, WorkKinds

LEMMA WorldSafe ==
  ASSUME TypeOK, Safe, "disturbed" \notin slips', TrayStart \/ UserUp \/ UserStop \/ Work
  PROVE  Safe'
  <1>1. CASE TrayStart \/ UserUp \/ UserStop
    BY <1>1, StillSafe DEF TrayStart, UserUp, UserStop, Data
  <1> QED BY <1>1, WorkSafe

-----------------------------------------------------------------------------
LEMMA PlanSafe ==
  ASSUME TypeOK, Safe, NEW p \in Procs, Plan(p)
  PROVE  Safe'
  <1> USE PlacesApart
  <1>1. /\ pc'[p] = "down" /\ \A q \in Procs \ {p} : pc'[q] = pc[q]
        /\ UNCHANGED <<disk, owned>>
        /\ disk["volume"] # "none" /\ disk["bind"] = "none"
    BY DEF Plan, Begin, TypeOK
  <1>2. Alone' /\ (owned <=> ~Lost)'
    BY <1>1 DEF Safe, Alone, Lost
  <1>3. ASSUME owned' PROVE \A q \in Procs : Step(q)'
    <2>1. owned /\ disk["volume"] = "cur"
      BY <1>1, <1>3 DEF Safe, Lost, Stores
    <2>2. \A q \in Procs : Step(q) /\ pc[q] \notin Past
      BY <1>1, <2>1 DEF Safe, Step
    <2>3. \A q \in Procs : pc'[q] \notin Past
      BY <1>1, <2>2
    <2> QED BY <1>1, <2>1, <2>3 DEF Step
  <1> QED BY <1>2, <1>3 DEF Safe

\* A step of a migration: what it may rely on, and what it leaves for the next.
LEMMA MigrateSafe ==
  ASSUME TypeOK, Safe, "disturbed" \notin slips', NEW p \in Procs, Migrate(p)
  PROVE  Safe'
  <1> USE PlacesApart
  <1>1. CASE Plan(p)
    BY <1>1, PlanSafe
  <1>2. CASE Down(p)
    <2>1. /\ pc[p] = "down" /\ pc'[p] \in {"copy", "idle"} /\ UNCHANGED <<disk, owned>>
          /\ \A q \in Procs \ {p} : pc'[q] = pc[q]
          /\ "disturbed" \notin Meets(p)
      BY <1>2, GotoMoves DEF Down, Data, Slip, Places, Copying
    <2>2. \A q \in Procs \ {p} : pc'[q] \notin Copying
      BY <2>1, Unmet
    <2>3. (owned <=> ~Lost)' /\ (owned' => Step(p))
      BY <2>1 DEF Safe, Lost
    <2>4. owned' => Step(p)'
      <3>1. \A q \in Procs : pc'[q] # "down"
        BY <2>1, <2>2
      <3> QED BY <2>1, <2>3, <3>1 DEF Step
    <2> QED BY <2>1, <2>2, <2>3, <2>4, AloneSafe
  <1>3. CASE Copy(p)
    <2>1. /\ pc[p] = "copy" /\ pc'[p] = "copying" /\ owned' = owned
          /\ disk'["bind"] = "part" /\ disk'["volume"] = disk["volume"]
          /\ \A q \in Procs \ {p} : pc'[q] = pc[q]
          /\ "disturbed" \notin Meets(p)
      BY <1>3, GotoMoves DEF Copy, Slip, Places, Copying, TypeOK, Stores
    <2>2. \A q \in Procs \ {p} : pc'[q] \notin Copying
      BY <2>1, Unmet
    <2>3. owned => disk["volume"] = "cur" /\ disk["bind"] # "cur"
      BY <2>1 DEF Safe, Step
    <2>4. (owned <=> ~Lost)'
      BY <2>1, <2>3 DEF Safe, Lost, Stores
    <2>5. owned' => Step(p)'
      <3>1. \A q \in Procs : pc'[q] # "down"
        BY <2>1, <2>2
      <3> QED BY <2>1, <2>3, <3>1 DEF Step
    <2> QED BY <2>1, <2>2, <2>4, <2>5, AloneSafe
  <1>4. CASE Copied(p)
    <2>1. /\ pc[p] = "copying" /\ pc'[p] \in {"save", "idle"} /\ owned' = owned
          /\ \A q \in Procs \ {p} : pc'[q] = pc[q]
          /\ "disturbed" \notin Meets(p) /\ "disturbed" \notin slips
      BY <1>4, GotoMoves DEF Copied, Slip, Places, Copying
    <2>2. /\ disk'["volume"] = disk["volume"]
          /\ pc'[p] = "save" => disk'["bind"] = disk["volume"]
          /\ pc'[p] = "idle" => disk'["bind"] = "none"
      BY <1>4, <2>1 DEF Copied, TypeOK, Stores, Goto
    <2>3. \A q \in Procs \ {p} : pc'[q] \notin Copying
      BY <2>1, Unmet
    <2>4. owned => disk["volume"] = "cur" /\ disk["bind"] # "cur"
      BY <2>1 DEF Safe, Step
    <2>5. (owned <=> ~Lost)'
      BY <2>1, <2>2, <2>4 DEF Safe, Lost, Stores
    <2>6. owned' => Step(p)'
      <3>1. \A q \in Procs : pc'[q] # "down"
        BY <2>1, <2>3
      <3>2. "save" \in After
        BY DEF After
      <3> QED BY <2>1, <2>2, <2>4, <3>1, <3>2 DEF Step
    <2> QED BY <2>1, <2>3, <2>5, <2>6, AloneSafe
  <1>5. CASE Save(p) \/ Regenerate(p) \/ Ensure(p)
    <2>1. /\ pc[p] \in After /\ (pc'[p] \in After \/ pc'[p] = "idle")
          /\ UNCHANGED <<disk, owned>> /\ \A q \in Procs \ {p} : pc'[q] = pc[q]
      BY <1>5, GotoMoves DEF Save, Regenerate, Ensure, Data, Places, Copying, After
    <2> QED BY <2>1, OnwardSafe, StillSafe
  <1>6. CASE Remove(p)
    <2>1. /\ pc[p] = "remove" /\ pc'[p] = "idle" /\ owned' = owned
          /\ \A q \in Procs \ {p} : pc'[q] = pc[q]
          /\ disk'["bind"] = disk["bind"] /\ disk'["volume"] \in {disk["volume"], "none"}
      BY <1>6, GotoMoves DEF Remove, Places, Copying, TypeOK, Stores
    <2>2. pc[p] \in After
      BY <2>1 DEF After
    <2>3. CASE owned
      <3>1. Step(p) /\ Alone /\ ~Lost
        BY <2>3 DEF Safe
      <3>2. \A q \in Procs \ {p} : pc'[q] \notin Copying
        BY <2>1, <2>2, <3>1 DEF Alone, Step
      <3>3. ~Lost' /\ Step(p)'
        BY <2>1, <2>2, <3>1 DEF Lost, Step, Stores
      <3> QED BY <2>1, <2>3, <3>2, <3>3, AloneSafe
    <2>4. CASE ~owned
      <3>1. Lost'
        BY <2>1, <2>4 DEF Safe, Lost, Stores
      <3> QED BY <2>1, <2>4, <3>1, LostSafe
    <2> QED BY <2>3, <2>4
  <1> QED BY <1>1, <1>2, <1>3, <1>4, <1>5, <1>6 DEF Migrate

-----------------------------------------------------------------------------
LEMMA InitSafe == Init => IInv
  <1> SUFFICES ASSUME Init PROVE IInv
    OBVIOUS
  <1>1. owned <=> ~Lost
    BY DEF Init, Lost, Stores
  <1>2. \A p \in Procs : pc[p] = "idle"
    BY DEF Init
  <1>3. Safe
    BY <1>1, <1>2, PlacesApart DEF Safe, Alone, Step
  <1> QED BY <1>3, InitTyped DEF IInv

LEMMA StepSafe == IInv /\ [Next]_vars => IInv'
  <1> SUFFICES ASSUME IInv, [Next]_vars, "disturbed" \notin slips' PROVE Safe'
    BY StepTyped DEF IInv
  <1>1. TypeOK /\ Safe
    BY SlipsGrow DEF IInv
  <1>2. CASE UNCHANGED vars
    BY <1>1, <1>2, StillSafe DEF vars
  <1>3. ASSUME NEW p \in Procs, Migrate(p) \/ Pod(p) \/ Install(p) \/ Growth(p) \/ Crash(p)
        PROVE  Safe'
    BY <1>1, <1>3, MigrateSafe, CommandSafe
  <1>4. CASE TrayStart \/ UserUp \/ UserStop \/ Work
    BY <1>1, <1>4, WorldSafe
  <1> QED BY <1>2, <1>3, <1>4 DEF Next

\* The user's work survives every crash and failure in every command, unless it was given
\* up, somebody worked beside a migration or two of them met, for any number of commands.
THEOREM WorkKept == Spec => []Kept
  <1>1. IInv => Kept
    BY DEF IInv, Safe, Kept
  <1> QED BY <1>1, InitSafe, StepSafe, PTL DEF Spec

\* What a migration removes at its end is never the only copy of the user's work.
THEOREM RemovesSpare == Spec => [][\A p \in Procs :
    Remove(p) /\ owned /\ "disturbed" \notin slips /\ disk'["volume"] # disk["volume"]
      => disk["bind"] = "cur"]_vars
  <1>1. IInv => \A p \in Procs : Remove(p) /\ owned /\ "disturbed" \notin slips
                                 /\ disk'["volume"] # disk["volume"] => disk["bind"] = "cur"
    <2> SUFFICES ASSUME IInv, NEW p \in Procs, Remove(p), owned, "disturbed" \notin slips
                 PROVE  disk["bind"] = "cur"
      OBVIOUS
    <2>1. pc[p] \in After
      BY DEF Remove, Goto, After
    <2> QED BY <2>1 DEF IInv, Safe, Step
  <1> QED BY <1>1, InitSafe, StepSafe, PTL DEF Spec

-----------------------------------------------------------------------------
(* Found: what every file and command knows while nothing has slipped.       *)

Setting == {"idle", "remake", "clear", "raise", "keep"}

\* Whoever means the bind mount knows that winpodx.toml names it, or is a setup that
\* brings it in; a migration that has saved the path goes by it.
Knows(p) ==
  /\ mine[p] = "bind" => path = "bind" \/ (p # Tray /\ pc[p] \in Setting)
  /\ pc[p] \in {"compose", "ensure", "remove"} => mine[p] = "bind"
  /\ pc[p] \in {"ensure", "remove"} => compose = "bind"

Reached == ~Lost => disk[path] = "cur" /\ disk[compose] = "cur" /\ (run => disk[box] = "cur")

InStep == Reached /\ \A p \in Procs : Knows(p)
Agreed == IInv /\ (slips = {} => InStep)

LEMMA NoSlip ==
  ASSUME NEW wrong, Slip(wrong), slips' = {}
  PROVE  wrong = {}
  BY DEF Slip

LEMMA NotStale ==
  ASSUME NEW p, Stale(p) = {}
  PROVE  ~(mine[p] = "volume" /\ path = "bind") /\ (pc[p] = "keep" => compose = mine[p])
  BY DEF Stale

\* A stop leaves the container and never starts it.
LEMMA StopsOnly ==
  ASSUME TypeOK, ComposeStop
  PROVE  box' = box /\ (run' => run)
  <1>1. run' = run \/ run' = FALSE
    BY Zenon DEF ComposeStop
  <1>2. UNCHANGED box
    BY DEF ComposeStop
  <1>3. CASE run' = run
    BY <1>2, <1>3
  <1>4. CASE run' = FALSE
    BY <1>2, <1>4
  <1> QED BY <1>1, <1>3, <1>4

\* A pod that runs ran before as it does now, or was just brought up.
LEMMA Brings ==
  ASSUME TypeOK, Boot \/ ComposeStop \/ ComposeDown \/ UNCHANGED <<box, run>>
  PROVE  run' => box' = compose \/ (run /\ box' = box)
  <1>1. CASE Boot
    BY <1>1 DEF Boot
  <1>2. CASE ComposeStop
    BY <1>2, StopsOnly
  <1>3. CASE ComposeDown \/ UNCHANGED <<box, run>>
    BY <1>3 DEF ComposeDown
  <1> QED BY <1>1, <1>2, <1>3

\* The two files still name what they named, the data are as they were, and a pod that
\* runs was brought up from compose.yaml.
LEMMA ReachedStays ==
  ASSUME Reached, UNCHANGED <<disk, path, compose>>,
         run' => box' = compose \/ (run /\ box' = box)
  PROVE  Reached'
  BY DEF Reached, Lost

\* The work is in the bind mount, nobody takes it from there, and both files go on
\* naming it where they did.
LEMMA OneMoves ==
  ASSUME InStep, NEW p \in Procs, UNCHANGED <<disk, box, run>>,
         \A q \in Procs \ {p} : pc'[q] = pc[q] /\ mine'[q] = mine[q],
         path' = path \/ path' = "bind",
         compose' = compose \/ compose' = "bind" \/ path = "volume",
         ~Lost => disk[path'] = "cur" /\ disk[compose'] = "cur",
         Knows(p)'
  PROVE  InStep'
  <1>1. Reached'
    BY DEF InStep, Reached, Lost
  <1>2. ASSUME NEW q \in Procs \ {p} PROVE Knows(q)'
    <2>1. Knows(q)
      BY DEF InStep
    <2>2. pc[q] \in {"ensure", "remove"} => path = "bind" /\ compose = "bind"
      BY <2>1 DEF Knows, Setting
    <2>3. pc'[q] \in {"ensure", "remove"} => compose' = "bind"
      BY <1>2, <2>2
    <2> QED BY <1>2, <2>1, <2>3 DEF Knows
  <1> QED BY <1>1, <1>2 DEF InStep

\* The same, where the step is one of the container or the data.
LEMMA FilesStay ==
  ASSUME InStep, NEW p \in Procs, UNCHANGED <<path, compose>>, Reached',
         \A q \in Procs \ {p} : pc'[q] = pc[q] /\ mine'[q] = mine[q],
         Knows(p)'
  PROVE  InStep'
  <1>1. ASSUME NEW q \in Procs \ {p} PROVE Knows(q)'
    <2>1. Knows(q)
      BY DEF InStep
    <2> QED BY <1>1, <2>1 DEF Knows
  <1> QED BY <1>1 DEF InStep

\* p gets on in a command in which it goes by the Config it has.
LEMMA GetsOn ==
  ASSUME NEW p \in Procs, Knows(p), UNCHANGED <<path, compose>>, mine'[p] = mine[p],
         pc'[p] \in {"compose", "ensure", "remove"} => pc[p] \in {"ensure", "remove"},
         pc[p] \in Setting => pc'[p] \in Setting
  PROVE  Knows(p)'
  BY DEF Knows

-----------------------------------------------------------------------------
LEMMA BeginInStep ==
  ASSUME TypeOK, InStep, NEW p \in Procs, NEW to \in {"down", "halt", "haltWipe", "grow"},
         Begin(p, to)
  PROVE  InStep'
  <1>1. /\ mine'[p] = path /\ pc'[p] = to /\ UNCHANGED <<path, compose, box, run, disk>>
        /\ \A q \in Procs \ {p} : pc'[q] = pc[q] /\ mine'[q] = mine[q]
    BY DEF Begin, TypeOK, Stores
  <1>2. Knows(p)' /\ Reached'
    BY <1>1 DEF Knows, InStep, Reached, Lost
  <1> QED BY <1>1, <1>2, FilesStay

\* A step that touches the container only, and takes p on.
LEMMA BoxInStep ==
  ASSUME TypeOK, InStep, NEW p \in Procs, UNCHANGED <<path, compose, disk, mine>>,
         Boot \/ ComposeStop \/ ComposeDown \/ UNCHANGED <<box, run>>,
         \A q \in Procs \ {p} : pc'[q] = pc[q],
         pc'[p] \in {"compose", "ensure", "remove"} => pc[p] \in {"ensure", "remove"},
         pc[p] \in Setting => pc'[p] \in Setting
  PROVE  InStep'
  <1>1. Reached'
    BY Brings, ReachedStays DEF InStep
  <1>2. Knows(p)'
    BY GetsOn DEF InStep
  <1> QED BY <1>1, <1>2, FilesStay

LEMMA CopyInStep ==
  ASSUME TypeOK, Safe, InStep, NEW p \in Procs, Copy(p) \/ Copied(p)
  PROVE  InStep'
  <1>1. /\ pc[p] \in {"copy", "copying"} /\ pc'[p] \in {"copying", "save", "idle"}
        /\ UNCHANGED <<path, compose, box, run, mine, owned>> /\ disk'["volume"] = disk["volume"]
        /\ \A q \in Procs \ {p} : pc'[q] = pc[q]
    BY GotoMoves DEF Copy, Copied, Written, Places, Copying, TypeOK, Stores
  <1>2. Knows(p)'
    BY <1>1, GetsOn DEF InStep, Setting
  <1>3. Reached'
    <2>1. CASE ~owned
      <3>1. disk["volume"] # "cur" /\ disk["bind"] # "cur"
        BY <2>1 DEF Safe, Lost, Stores
      <3>2. disk'["bind"] # "cur"
        <4>1. CASE Copy(p)
          BY <4>1 DEF Copy, TypeOK, Stores
        <4>2. CASE Copied(p)
          <5>1. PICK h \in {disk["volume"], "part", "none"} : disk' = [disk EXCEPT !["bind"] = h]
            BY <4>2 DEF Copied
          <5> QED BY <3>1, <5>1 DEF TypeOK, Stores
        <4> QED BY <4>1, <4>2
      <3> QED BY <1>1, <3>1, <3>2 DEF Reached, Lost, Stores
    <2>2. CASE owned
      <3>1. disk["bind"] # "cur" /\ disk["volume"] = "cur" /\ ~Lost
        BY <1>1, <2>2 DEF Safe, Step, Before
      <3>2. path = "volume" /\ compose = "volume" /\ (run => box = "volume")
        BY <3>1 DEF InStep, Reached, TypeOK, Stores
      <3> QED BY <1>1, <3>1, <3>2 DEF Reached
    <2> QED BY <2>1, <2>2
  <1> QED BY <1>1, <1>2, <1>3, FilesStay

LEMMA MigrateInStep ==
  ASSUME TypeOK, Safe, InStep, slips' = {}, NEW p \in Procs, Migrate(p)
  PROVE  InStep'
  <1> USE DEF Written, Data
  <1>0. Knows(p)
    BY DEF InStep
  <1>1. CASE Plan(p)
    BY <1>1, BeginInStep DEF Plan
  <1>2. CASE Down(p)
    <2>1. /\ pc[p] = "down" /\ pc'[p] \in {"copy", "idle"}
          /\ \A q \in Procs \ {p} : pc'[q] = pc[q]
      BY <1>2, GotoMoves DEF Down, Places, Copying
    <2> QED BY <1>2, <2>1, BoxInStep DEF Down, Setting
  <1>3. CASE Copy(p) \/ Copied(p)
    BY <1>3, CopyInStep
  <1>4. CASE Save(p)
    <2>1. /\ pc[p] = "save" /\ UNCHANGED <<compose, box, run, disk>>
          /\ \A q \in Procs \ {p} : pc'[q] = pc[q] /\ mine'[q] = mine[q]
          /\ \/ pc'[p] = "compose" /\ path' = "bind" /\ mine'[p] = "bind"
             \/ pc'[p] = "idle" /\ path' = path /\ mine'[p] = mine[p]
      BY <1>4, GotoMoves DEF Save, Places, Copying, TypeOK, Stores
    <2>2. ~Lost => disk["bind"] = "cur" /\ disk[path] = "cur" /\ disk[compose] = "cur"
      BY <2>1 DEF Safe, Step, After, InStep, Reached
    <2>3. Knows(p)'
      BY <1>0, <2>1 DEF Knows, Setting
    <2> QED BY <2>1, <2>2, <2>3, OneMoves
  <1>5. CASE Regenerate(p)
    <2>1. /\ pc[p] = "compose" /\ UNCHANGED <<path, box, run, disk, mine>>
          /\ \A q \in Procs \ {p} : pc'[q] = pc[q]
          /\ \/ pc'[p] = "ensure" /\ compose' = mine[p]
             \/ pc'[p] = "idle" /\ compose' = compose
      BY <1>5, GotoMoves DEF Regenerate, Places, Copying
    <2>2. mine[p] = "bind" /\ path = "bind"
      BY <1>0, <2>1 DEF Knows, Setting
    <2>3. ~Lost => disk["bind"] = "cur" /\ disk[path] = "cur" /\ disk[compose] = "cur"
      BY <2>1 DEF Safe, Step, After, InStep, Reached
    <2>4. Knows(p)'
      BY <2>1, <2>2 DEF Knows, Setting
    <2> QED BY <2>1, <2>2, <2>3, <2>4, OneMoves
  <1>6. CASE Ensure(p)
    <2>1. /\ pc[p] = "ensure" /\ pc'[p] \in {"remove", "idle"}
          /\ \A q \in Procs \ {p} : pc'[q] = pc[q]
      BY <1>6, GotoMoves DEF Ensure, Places, Copying
    <2> QED BY <1>6, <2>1, BoxInStep DEF Ensure, Setting
  <1>7. CASE Remove(p)
    <2>1. /\ pc[p] = "remove" /\ pc'[p] = "idle" /\ UNCHANGED <<path, compose, box, run, mine>>
          /\ \A q \in Procs \ {p} : pc'[q] = pc[q]
          /\ disk'["bind"] = disk["bind"]
          /\ disk'["volume"] = disk["volume"] \/ (box # "volume" /\ disk'["volume"] = "none")
      BY <1>7, GotoMoves DEF Remove, Places, Copying, TypeOK, Stores
    <2>2. path = "bind" /\ compose = "bind"
      BY <1>0, <2>1 DEF Knows, Setting
    <2>3. Reached'
      BY <2>1, <2>2 DEF InStep, Reached, Lost, TypeOK, Stores
    <2>4. Knows(p)'
      BY <1>0, <2>1, GetsOn DEF Setting
    <2> QED BY <2>1, <2>3, <2>4, FilesStay
  <1> QED BY <1>1, <1>2, <1>3, <1>4, <1>5, <1>6, <1>7 DEF Migrate

-----------------------------------------------------------------------------
LEMMA PodInStep ==
  ASSUME TypeOK, InStep, slips' = {}, NEW p \in Procs, Pod(p)
  PROVE  InStep'
  <1> USE DEF Written, Data
  <1>0. Knows(p)
    BY DEF InStep
  <1>1. CASE Recreate(p)
    BY <1>1, BeginInStep DEF Recreate
  <1>2. CASE Halt(p)
    <2>1. /\ pc[p] \in {"halt", "haltWipe"} /\ pc'[p] \in {"regen", "wipe"}
          /\ \A q \in Procs \ {p} : pc'[q] = pc[q]
      BY <1>2, GotoMoves DEF Halt, Places
    <2> QED BY <1>2, <2>1, BoxInStep DEF Halt, Setting
  <1>3. CASE Wipe(p)
    <2>1. /\ Lost' /\ UNCHANGED <<path, compose, mine>> /\ pc[p] = "wipe" /\ pc'[p] = "regen"
          /\ \A q \in Procs \ {p} : pc'[q] = pc[q]
      BY <1>3, WipeLoses DEF Lost
    <2>2. Reached' /\ Knows(p)'
      BY <1>0, <2>1, GetsOn DEF Reached, Setting
    <2> QED BY <2>1, <2>2, FilesStay
  <1>4. CASE Regen(p)
    <2>1. /\ pc[p] = "regen" /\ pc'[p] \in {"up", "idle"} /\ UNCHANGED <<path, box, run, disk, mine>>
          /\ \A q \in Procs \ {p} : pc'[q] = pc[q]
          /\ \/ compose' = mine[p] /\ Stale(p) = {}
             \/ compose' = compose
      BY <1>4, GotoMoves, NoSlip DEF Regen, Places
    <2>2. compose' = path \/ compose' = compose
      <3>1. mine[p] \in Stores /\ path \in Stores /\ (mine[p] = "bind" => path = "bind")
        BY <1>0, <2>1 DEF TypeOK, Knows, Setting
      <3> QED BY <2>1, <3>1, NotStale DEF Stores
    <2>3. Knows(p)'
      BY <1>0, <2>1 DEF Knows, Setting
    <2>4. /\ path \in Stores
          /\ ~Lost => disk[path] = "cur" /\ disk[compose] = "cur"
      BY DEF InStep, Reached, TypeOK
    <2> QED BY <2>1, <2>2, <2>3, <2>4, OneMoves DEF Stores
  <1>5. CASE Up(p)
    <2>1. /\ pc[p] = "up" /\ pc'[p] = "idle" /\ \A q \in Procs \ {p} : pc'[q] = pc[q]
      BY <1>5, GotoMoves DEF Up, Places
    <2> QED BY <1>5, <2>1, BoxInStep DEF Up, Setting
  <1> QED BY <1>1, <1>2, <1>3, <1>4, <1>5 DEF Pod

LEMMA InstallInStep ==
  ASSUME TypeOK, InStep, slips' = {}, NEW p \in Procs, Install(p)
  PROVE  InStep'
  <1> USE DEF Written, Data
  <1>0. Knows(p) /\ Reached
    BY DEF InStep
  <1>1. CASE Setup(p)
    <2>1. /\ p # Tray /\ pc'[p] = "remake" /\ UNCHANGED <<path, compose, box, run, disk>>
          /\ \A q \in Procs \ {p} : pc'[q] = pc[q] /\ mine'[q] = mine[q]
      BY <1>1, StorageAssumption DEF Setup, TypeOK
    <2>2. Knows(p)' /\ Reached'
      BY <1>0, <2>1 DEF Knows, Setting, Reached, Lost
    <2> QED BY <2>1, <2>2, FilesStay
  <1>2. CASE Remake(p)
    <2>1. /\ pc[p] = "remake" /\ pc'[p] = "clear" /\ UNCHANGED <<path, box, run, disk, mine>>
          /\ \A q \in Procs \ {p} : pc'[q] = pc[q]
          /\ compose' = mine[p] /\ Stale(p) = {} /\ Unseen(p) = {}
      BY <1>2, GotoMoves, NoSlip DEF Remake, Places
    <2>2. /\ mine[p] \in Stores /\ path \in Stores
          /\ ~(mine[p] = "bind" /\ path = "volume" /\ disk["volume"] = "cur")
      BY <2>1 DEF TypeOK, Unseen
    <2>3. ~Lost => disk[path] = "cur" /\ disk[compose'] = "cur"
      BY <1>0, <2>1, <2>2, NotStale DEF Reached, Stores
    <2>4. compose' = "bind" \/ path = "volume"
      BY <2>1, <2>2, NotStale DEF Stores
    <2>5. Knows(p)'
      BY <1>0, <2>1 DEF Knows, Setting
    <2> QED BY <2>1, <2>3, <2>4, <2>5, OneMoves
  <1>3. CASE Clear(p) \/ Raise(p)
    <2>1. /\ pc[p] \in Setting /\ pc'[p] \in Setting /\ \A q \in Procs \ {p} : pc'[q] = pc[q]
      BY <1>3, GotoMoves DEF Clear, Raise, Places, Setting
    <2>2. pc'[p] \notin {"compose", "ensure", "remove"}
      BY <2>1 DEF Setting
    <2> QED BY <1>3, <2>1, <2>2, BoxInStep DEF Clear, Raise
  <1>4. CASE Keep(p)
    <2>1. /\ pc[p] = "keep" /\ pc'[p] = "idle" /\ UNCHANGED <<compose, box, run, disk, mine>>
          /\ \A q \in Procs \ {p} : pc'[q] = pc[q]
          /\ path' = mine[p] /\ Stale(p) = {}
      BY <1>4, GotoMoves, NoSlip DEF Keep, Places
    <2>2. /\ mine[p] \in Stores /\ path \in Stores /\ path' = compose
          /\ path' = path \/ path' = "bind"
      BY <2>1, NotStale DEF TypeOK, Stores
    <2>3. ~Lost => disk[path'] = "cur" /\ disk[compose] = "cur"
      BY <1>0, <2>2 DEF Reached
    <2>4. Knows(p)'
      BY <1>0, <2>1 DEF Knows, Setting
    <2> QED BY <2>1, <2>2, <2>3, <2>4, OneMoves
  <1> QED BY <1>1, <1>2, <1>3, <1>4 DEF Install

LEMMA GrowthInStep ==
  ASSUME TypeOK, InStep, slips' = {}, NEW p \in Procs, Growth(p)
  PROVE  InStep'
  <1> USE DEF Written, Data
  <1>0. Knows(p) /\ Reached
    BY DEF InStep
  <1>1. CASE Begin(p, "grow")
    BY <1>1, BeginInStep
  <1>2. CASE p = Tray /\ Grow(p) /\ ~Begin(p, "grow")
    <2>1. /\ pc'[p] = "grow" /\ UNCHANGED <<path, compose, box, run, disk, mine>>
          /\ \A q \in Procs \ {p} : pc'[q] = pc[q]
      BY <1>2, GotoMoves DEF Grow, Places
    <2>2. Knows(p)' /\ Reached'
      BY <1>0, <1>2, <2>1 DEF Knows, Reached, Lost
    <2> QED BY <2>1, <2>2, FilesStay
  <1>3. CASE GrowStop(p)
    <2>1. /\ pc[p] = "grow" /\ pc'[p] = "growSave" /\ \A q \in Procs \ {p} : pc'[q] = pc[q]
      BY <1>3, GotoMoves DEF GrowStop, Places
    <2> QED BY <1>3, <2>1, BoxInStep DEF GrowStop, Setting
  <1>4. CASE GrowSave(p)
    <2>1. /\ pc[p] = "growSave" /\ pc'[p] = "regen" /\ UNCHANGED <<compose, box, run, disk, mine>>
          /\ \A q \in Procs \ {p} : pc'[q] = pc[q]
          /\ path' = mine[p] /\ Stale(p) = {}
      BY <1>4, GotoMoves, NoSlip DEF GrowSave, Places
    <2>2. path' = path
      <3>1. mine[p] \in Stores /\ path \in Stores /\ (mine[p] = "bind" => path = "bind")
        BY <1>0, <2>1 DEF TypeOK, Knows, Setting
      <3> QED BY <2>1, <3>1, NotStale DEF Stores
    <2>3. ~Lost => disk[path'] = "cur" /\ disk[compose] = "cur"
      BY <1>0, <2>2 DEF Reached
    <2>4. Knows(p)'
      BY <1>0, <2>1, <2>2 DEF Knows, Setting
    <2> QED BY <2>1, <2>2, <2>3, <2>4, OneMoves
  <1> QED BY <1>1, <1>2, <1>3, <1>4 DEF Growth, Grow

LEMMA CrashInStep ==
  ASSUME TypeOK, InStep, NEW p \in Procs, Crash(p)
  PROVE  InStep'
  <1>1. Knows(p)
    BY DEF InStep
  <1>2. /\ pc'[p] = "idle" /\ UNCHANGED <<path, compose, box, run, disk, mine>>
        /\ \A q \in Procs \ {p} : pc'[q] = pc[q]
    BY DEF Crash, TypeOK
  <1>3. Reached' /\ Knows(p)'
    BY <1>1, <1>2 DEF InStep, Reached, Lost, Knows, Setting
  <1> QED BY <1>2, <1>3, FilesStay

LEMMA WorldInStep ==
  ASSUME TypeOK, InStep, slips' = {}, TrayStart \/ UserUp \/ UserStop \/ Work
  PROVE  InStep'
  <1> USE DEF Written, Data
  <1>0. Reached /\ Tray \in Procs
    BY DEF InStep, Procs
  <1>1. CASE TrayStart
    <2>1. /\ mine'[Tray] = path /\ pc[Tray] = "idle" /\ UNCHANGED <<path, compose, box, run, disk, pc>>
          /\ \A q \in Procs \ {Tray} : pc'[q] = pc[q] /\ mine'[q] = mine[q]
      BY <1>0, <1>1 DEF TrayStart, TypeOK
    <2>2. Knows(Tray)' /\ Reached'
      BY <1>0, <2>1 DEF Knows, Reached, Lost
    <2> QED BY <1>0, <2>1, <2>2, FilesStay
  <1>2. CASE UserUp \/ UserStop
    <2>1. UNCHANGED <<pc, mine, path, compose, disk>> /\ (Boot \/ ComposeStop)
      BY <1>2 DEF UserUp, UserStop
    <2>2. Reached'
      BY <1>0, <2>1, Brings, ReachedStays
    <2> QED BY <2>1, <2>2 DEF InStep, Knows
  <1>3. CASE Work
    <2>1. box = compose /\ compose = path
      BY <1>3, NoSlip DEF Work
    <2>2. UNCHANGED <<pc, mine, path, compose, box, run>>
      BY <1>3, WorkKinds
    <2>3. Reached'
      BY <1>0, <1>3, <2>1, <2>2, WorkKinds DEF Reached
    <2> QED BY <2>2, <2>3 DEF InStep, Knows
  <1> QED BY <1>1, <1>2, <1>3

LEMMA InitAgreed == Init => Agreed
  <1> SUFFICES ASSUME Init PROVE InStep
    BY InitSafe DEF Agreed
  <1>1. \A p \in Procs : Knows(p)
    BY DEF Init, Knows
  <1>2. Reached
    BY DEF Init, Reached, Lost, Stores
  <1> QED BY <1>1, <1>2 DEF InStep

LEMMA StepAgreed == Agreed /\ [Next]_vars => Agreed'
  <1> SUFFICES ASSUME Agreed, [Next]_vars PROVE Agreed'
    OBVIOUS
  <1>1. IInv' /\ TypeOK /\ slips \subseteq slips'
    BY StepSafe, SlipsGrow DEF Agreed, IInv
  <1> SUFFICES ASSUME slips' = {} PROVE InStep'
    BY <1>1 DEF Agreed
  <1>2. Safe /\ InStep
    BY <1>1 DEF Agreed, IInv
  <1>3. CASE UNCHANGED vars
    BY <1>2, <1>3 DEF vars, InStep, Reached, Lost, Knows
  <1>4. ASSUME NEW p \in Procs, Migrate(p) \/ Pod(p) \/ Install(p) \/ Growth(p) \/ Crash(p)
        PROVE  InStep'
    BY <1>1, <1>2, <1>4, MigrateInStep, PodInStep, InstallInStep, GrowthInStep, CrashInStep
  <1>5. CASE TrayStart \/ UserUp \/ UserStop \/ Work
    BY <1>1, <1>2, <1>5, WorldInStep
  <1> QED BY <1>3, <1>4, <1>5 DEF Next

\* In the middle of a command, and after any failure and crash in it, each of the two
\* files names a store with the work, and a pod that runs has it, for any number of
\* commands; as long as nothing has slipped.
THEOREM WorkFound == Spec => []Found
  <1>1. Agreed => Found
    BY DEF Agreed, InStep, Reached, Found
  <1> QED BY <1>1, InitAgreed, StepAgreed, PTL DEF Spec

-----------------------------------------------------------------------------
(* The commands implement Vault: each step is a step of it or a stutter.     *)

\* What is mounted has the work, if any store has it.
LEMMA MountedHolds ==
  /\ TypeOK /\ InStep => Mounted \in Stores /\ (Mounted \in Holders \/ Holders = {})
  /\ TypeOK' /\ InStep' => Mounted' \in Stores /\ (Mounted' \in Holders' \/ Holders' = {})
  BY DEF Mounted, Lost, InStep, Reached, Holders, TypeOK

\* The holders stay, wherever the mount goes.
LEMMA HoldersStay ==
  ASSUME TypeOK', InStep', UNCHANGED Holders
  PROVE  V!Kept
  <1>1. Mounted' \in Stores /\ (Mounted' \in Holders \/ Holders = {})
    BY MountedHolds
  <1>2. V!Move(Mounted')
    BY <1>1 DEF V!Move
  <1> QED BY <1>1, <1>2 DEF V!Kept

\* One store changes, and nothing else does.
LEMMA StoreGains ==
  ASSUME TypeOK, NEW s \in Stores, disk' = [disk EXCEPT ![s] = "cur"]
  PROVE  Holders' = Holders \cup {s}
  BY DEF TypeOK, Holders

LEMMA StoreLoses ==
  ASSUME TypeOK, NEW s \in Stores, NEW h, h # "cur", disk' = [disk EXCEPT ![s] = h]
  PROVE  Holders' = Holders \ {s}
  BY DEF TypeOK, Holders

LEMMA MigrateImplements ==
  ASSUME TypeOK, TypeOK', Safe, InStep, InStep', NEW p \in Procs, Migrate(p)
  PROVE  V!Kept
  <1> USE DEF Written, Data
  <1>1. "bind" \in Stores /\ "volume" \in Stores
    BY DEF Stores
  <1>2. CASE Plan(p) \/ Down(p) \/ Save(p) \/ Regenerate(p) \/ Ensure(p)
    <2>1. UNCHANGED disk
      BY <1>2 DEF Plan, Begin, Down, Save, Regenerate, Ensure
    <2> QED BY <2>1, HoldersStay DEF Holders
  <1>3. CASE Copy(p) \/ Copied(p)
    <2>1. /\ pc[p] \in Before /\ UNCHANGED <<compose, box, run>>
          /\ \E h : disk' = [disk EXCEPT !["bind"] = h]
      BY <1>3 DEF Copy, Copied, Goto, Before
    <2>2. disk["bind"] # "cur"
      BY <2>1, <1>1 DEF Safe, Step, Lost
    <2>3. PICK h : disk' = [disk EXCEPT !["bind"] = h]
      BY <2>1
    <2>4. CASE h = "cur"
      <3>1. Holders' = Holders \cup {"bind"} /\ UNCHANGED Mounted
        BY <1>1, <2>1, <2>3, <2>4, StoreGains DEF Mounted
      <3>2. Holders # {}
        <4>1. disk["volume"] = "cur"
          <5>1. PICK g \in {disk["volume"], "part", "none"} : disk' = [disk EXCEPT !["bind"] = g]
            BY <1>3 DEF Copy, Copied
          <5>2. disk'["bind"] = h /\ disk'["bind"] = g
            BY <1>1, <2>3, <5>1 DEF TypeOK
          <5> QED BY <2>4, <5>1, <5>2
        <4> QED BY <1>1, <4>1 DEF Holders
      <3>3. V!Copy("bind")
        BY <3>1, <3>2 DEF V!Copy
      <3> QED BY <1>1, <3>3 DEF V!Kept
    <2>5. CASE h # "cur"
      <3>1. Holders' = Holders \ {"bind"}
        BY <1>1, <2>3, <2>5, StoreLoses
      <3>2. Holders' = Holders
        BY <2>2, <3>1 DEF Holders
      <3> QED BY <3>2, HoldersStay
    <2> QED BY <2>4, <2>5
  <1>4. CASE Remove(p)
    <2>1. pc[p] = "remove" /\ UNCHANGED <<compose, box, run>>
      BY <1>4 DEF Remove, Goto
    <2>2. compose = "bind"
      BY <2>1 DEF InStep, Knows
    <2>3. CASE UNCHANGED disk
      BY <2>3, HoldersStay DEF Holders
    <2>4. CASE box # "volume" /\ disk' = [disk EXCEPT !["volume"] = "none"]
      <3>1. Holders' = Holders \ {"volume"}
        BY <1>1, <2>4, StoreLoses
      <3>2. Mounted # "volume" /\ UNCHANGED Mounted
        BY <2>1, <2>2, <2>4 DEF Mounted
      <3>3. V!Empty("volume")
        BY <3>1, <3>2 DEF V!Empty
      <3> QED BY <1>1, <3>3 DEF V!Kept
    <2> QED BY <1>4, <2>3, <2>4 DEF Remove
  <1> QED BY <1>2, <1>3, <1>4 DEF Migrate

LEMMA CommandImplements ==
  ASSUME TypeOK, TypeOK', InStep', NEW p \in Procs, Pod(p) \/ Install(p) \/ Growth(p) \/ Crash(p)
  PROVE  V!Kept
  <1>1. CASE Wipe(p)
    <2>1. Holders' = {} /\ Mounted' \in Stores
      BY <1>1, WipeLoses, MountedHolds DEF Holders
    <2>2. V!GiveUp
      BY <2>1 DEF V!GiveUp
    <2> QED BY <2>2 DEF V!Kept
  <1>2. CASE ~Wipe(p)
    BY <1>2, CommandStill, HoldersStay DEF Holders
  <1> QED BY <1>1, <1>2

LEMMA WorkImplements ==
  ASSUME TypeOK, InStep, Work
  PROVE  V!Kept
  <1>1. run /\ box \in Stores /\ Mounted = box /\ UNCHANGED Mounted
    BY WorkKinds DEF Mounted
  <1>2. ~Lost => disk[box] = "cur"
    BY <1>1 DEF InStep, Reached
  <1>3. disk'[box] = "cur" /\ \A s \in Stores \ {box} : disk'[s] # "cur"
    BY <1>2, WorkKinds
  <1>4. Holders' = {Mounted}
    BY <1>1, <1>3 DEF Holders
  <1>5. V!Work
    BY <1>1, <1>4, MountedHolds DEF V!Work
  <1> QED BY <1>5 DEF V!Kept

LEMMA StepImplements ==
  ASSUME Agreed, Agreed', [Next]_vars, slips' = {}
  PROVE  V!Kept
  <1>1. TypeOK /\ TypeOK' /\ Safe /\ InStep /\ InStep'
    BY SlipsGrow DEF Agreed, IInv
  <1>2. ASSUME NEW p \in Procs, Migrate(p) PROVE V!Kept
    BY <1>1, <1>2, MigrateImplements
  <1>3. ASSUME NEW p \in Procs, Pod(p) \/ Install(p) \/ Growth(p) \/ Crash(p) PROVE V!Kept
    BY <1>1, <1>3, CommandImplements
  <1>4. CASE TrayStart \/ UserUp \/ UserStop \/ UNCHANGED vars
    <2>1. UNCHANGED disk
      BY <1>4 DEF TrayStart, UserUp, UserStop, Data, vars
    <2> QED BY <1>1, <2>1, HoldersStay DEF Holders
  <1>5. CASE Work
    BY <1>1, <1>5, WorkImplements
  <1> QED BY <1>2, <1>3, <1>4, <1>5 DEF Next

\* As long as nothing has slipped, the commands move the user's disk as Vault does,
\* through every crash and failure, for any number of them: the mount moves only to a
\* store with the work, and only what is not mounted is emptied.
THEOREM Refinement == Spec => RefinesVault
  <1>1. ASSUME Init PROVE V!Init
    <2>1. Mounted = path /\ Mounted \in Stores /\ slips = {}
      BY <1>1 DEF Init, Mounted
    <2>2. Holders = IF owned THEN {path} ELSE {}
      BY <1>1 DEF Init, Holders
    <2> QED BY <2>1, <2>2 DEF V!Init
  <1>2. ASSUME Agreed, Agreed', [Next]_vars PROVE [V!Next]_(V!vault)
    <2>1. CASE slips' = {}
      <3>1. slips = {}
        BY <1>2, <2>1, SlipsGrow DEF Agreed, IInv
      <3> QED BY <1>2, <2>1, <3>1, StepImplements DEF V!Next
    <2>2. CASE slips' # {}
      BY <2>2 DEF V!Next
    <2> QED BY <2>1, <2>2
  <1> QED BY <1>1, <1>2, InitAgreed, StepAgreed, PTL DEF Spec, RefinesVault, V!Spec
=============================================================================
