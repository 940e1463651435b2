--------------------------- MODULE RotationProofs ---------------------------
(***************************************************************************)
(* Proofs about Rotation.  When commands do not overlap, the marker        *)
(* protocol keeps the three copies of the password together through every  *)
(* failure, and implements Credential.                                     *)
(***************************************************************************)
EXTENDS Rotation, TLAPS

\* At most one command runs.
Serial ==
  \A p, q \in Procs : pc[p] # "idle" /\ pc[q] # "idle" => p = q

\* The marker is the one process p wrote or read.
Owns(p) == marker = [old |-> old[p].pw, new |-> new[p]]

\* What a process knows at each step about the three copies of the password.
Knows(p) ==
  /\ pc[p] \in {"check", "begin", "sync"} => mem[p].pw = conf.pw
  /\ pc[p] \in {"verifyNew", "verifyOld"} => Owns(p)
  /\ pc[p] \in {"recSave", "recCompose", "recClear"} => Pending
  /\ pc[p] \in {"recSave", "recCompose", "recClear", "gate", "done"} =>
       mem[p].pw = guest
  /\ pc[p] \in {"recCompose", "recClear"} => conf.pw = guest
  /\ pc[p] = "recClear" => comp = guest
  /\ pc[p] \in {"gate", "mark"} => ~Pending
  /\ pc[p] = "mark" => old[p].pw = guest /\ mem[p].pw = guest
  /\ pc[p] \in {"change", "unmark", "verify", "save", "replace", "clear",
                "undoGuest", "undoSave", "undoCompose", "undoClear"} => Owns(p)
  /\ pc[p] \in {"change", "unmark", "undoSave", "undoCompose", "undoClear"} =>
       guest = old[p].pw /\ mem[p].pw = guest
  /\ pc[p] \in {"change", "unmark"} => conf.pw = guest /\ comp = guest
  /\ pc[p] \in {"verify", "save", "replace", "clear", "undoGuest"} =>
       guest = new[p]
  /\ pc[p] \in {"replace", "clear"} => mem[p].pw = guest /\ conf.pw = guest
  /\ pc[p] = "clear" => comp = guest
  /\ pc[p] \in {"undoCompose", "undoClear"} => conf.pw = guest
  /\ pc[p] = "undoClear" => comp = guest

\* The inductive invariant.
IInv ==
  /\ TypeOK
  /\ Serial
  /\ SettledAgrees
  /\ MarkerCovers
  /\ \A p \in Procs : Knows(p)

-----------------------------------------------------------------------------
LEMMA MarkerIsPending == \A a, b : [old |-> a, new |-> b] # NoMarker
<1> SUFFICES ASSUME NEW a, NEW b, [old |-> a, new |-> b] = NoMarker PROVE FALSE
  OBVIOUS
<1>1. "old" \in DOMAIN [old |-> a, new |-> b]
  OBVIOUS
<1>2. "old" \notin DOMAIN NoMarker
  BY DEF NoMarker
<1> QED
  BY <1>1, <1>2

LEMMA InitIInv == Init => IInv
BY ConstantsAssumption
DEF Init, IInv, TypeOK, Serial, SettledAgrees, MarkerCovers, Knows, Pending,
    Password, Config, Labels

\* Type correctness is preserved by every step of a command.
LEMMA TypeStep ==
  ASSUME TypeOK, NEW p \in Procs, Run(p)
  PROVE  TypeOK'
<1>1. /\ conf.pw \in Password /\ mem[p] \in Config /\ mem[p].pw \in Password
      /\ old[p] \in Config /\ old[p].pw \in Password /\ new[p] \in Password
  BY DEF TypeOK, Config
<1>2. Pending => marker \in Marker /\ marker.old \in Password /\ marker.new \in Password
  BY DEF TypeOK, Pending, Marker
<1>3. \A w \in Password : [pw |-> w, due |-> FALSE] \in Config
  BY DEF Config
<1>4. fresh <= MaxPasswords => fresh + 1 \in Password
  BY ConstantsAssumption DEF TypeOK, Password
<1>5. \A l \in Labels : Goto(p, l) => pc' \in [Procs -> Labels]
  BY DEF TypeOK, Goto
<1>6. NoFault \/ Fault => faults' \in Nat
  BY DEF TypeOK, NoFault, Fault
<1> USE <1>1, <1>6 DEF TypeOK, Step, Abort, GiveUp, At, files, locals, Accepted,
        NotAccepted, Applied, Refused, Unknown
<1>7. CASE SyncPassword(p)
  BY <1>5, <1>7 DEF SyncPassword, Labels
<1>8. CASE CheckMarker(p)
  BY <1>5, <1>2, <1>3, <1>8 DEF CheckMarker, Labels
<1>9. CASE Gate(p)
  BY <1>5, <1>9 DEF Gate, Labels
<1>10. CASE Launch(p)
  BY <1>5, <1>10 DEF Launch, Labels
<1>11. CASE VerifyNew(p)
  BY <1>5, <1>3, <1>11 DEF VerifyNew, Labels
<1>12. CASE VerifyOld(p)
  BY <1>5, <1>3, <1>12 DEF VerifyOld, Labels
<1>13. CASE RecoverSave(p)
  BY <1>5, <1>13 DEF RecoverSave, Labels
<1>14. CASE RecoverCompose(p)
  BY <1>5, <1>14 DEF RecoverCompose, Labels
<1>15. CASE RecoverClear(p)
  BY <1>5, <1>15 DEF RecoverClear, Labels
<1>16. CASE BeginRotation(p)
  BY <1>5, <1>4, <1>16 DEF BeginRotation, Labels
<1>17. CASE MarkPending(p)
  BY <1>5, <1>17 DEF MarkPending, Labels, Marker
<1>18. CASE ChangeGuest(p)
  BY <1>5, <1>18 DEF ChangeGuest, Labels
<1>19. CASE Unmark(p)
  BY <1>5, <1>19 DEF Unmark, Labels
<1>20. CASE VerifyCandidate(p)
  BY <1>5, <1>20 DEF VerifyCandidate, Labels
<1>21. CASE SaveConfig(p)
  BY <1>5, <1>3, <1>21 DEF SaveConfig, Labels
<1>22. CASE ReplaceCompose(p)
  BY <1>5, <1>22 DEF ReplaceCompose, Labels
<1>23. CASE ClearMarker(p)
  BY <1>5, <1>23 DEF ClearMarker, Labels
<1>24. CASE UndoGuest(p)
  BY <1>5, <1>24 DEF UndoGuest, Labels
<1>25. CASE UndoSave(p)
  BY <1>5, <1>25 DEF UndoSave, Labels
<1>26. CASE UndoCompose(p)
  BY <1>5, <1>26 DEF UndoCompose, Labels
<1>27. CASE UndoClear(p)
  BY <1>5, <1>27 DEF UndoClear, Labels
<1> QED
  BY <1>7, <1>8, <1>9, <1>10, <1>11, <1>12, <1>13, <1>14, <1>15, <1>16, <1>17,
     <1>18, <1>19, <1>20, <1>21, <1>22, <1>23, <1>24, <1>25, <1>26, <1>27
  DEF Run, Recovery, Rotate, Undo

LEMMA TypeNext == TypeOK /\ [Next]_vars => TypeOK'
<1> SUFFICES ASSUME TypeOK, [Next]_vars PROVE TypeOK'
  OBVIOUS
<1>1. ASSUME NEW p \in Procs, Run(p) PROVE TypeOK'
  BY <1>1, TypeStep
<1>2. ASSUME NEW p \in Procs, Crash(p) PROVE TypeOK'
  BY <1>2 DEF TypeOK, Crash, Goto, Fault, files, locals, Labels
<1>3. ASSUME NEW p \in Procs, NEW c \in Commands, Begin(p, c) PROVE TypeOK'
  BY <1>3, ConstantsAssumption DEF TypeOK, Begin, Goto, files, Labels
<1>4. CASE PasswordAges
  BY <1>4 DEF TypeOK, PasswordAges, locals, Config
<1>5. CASE UNCHANGED vars
  BY <1>5 DEF TypeOK, vars
<1> QED
  BY <1>1, <1>2, <1>3, <1>4, <1>5 DEF Next

\* Type correctness, whether commands overlap or not.
THEOREM TypeCorrect == Spec => []TypeOK
<1>1. Init => TypeOK
  BY InitIInv DEF IInv
<1> QED
  BY <1>1, TypeNext, PTL DEF Spec

\* A step of the one running command leaves the others idle, so that only what
\* the command itself knows is at stake.
LEMMA OneRuns ==
  ASSUME IInv, NEW p \in Procs, pc[p] # "idle", NEW l \in Labels, Goto(p, l),
         Knows(p)'
  PROVE  Serial' /\ \A q \in Procs : Knows(q)'
<1>1. \A q \in Procs : q # p => pc[q] = "idle"
  BY DEF IInv, Serial
<1>2. \A q \in Procs : q # p => pc'[q] = "idle"
  BY <1>1 DEF Goto, IInv, TypeOK
<1>3. Serial'
  BY <1>2 DEF Serial
<1>4. \A q \in Procs : q # p => Knows(q)'
  BY <1>2 DEF Knows
<1> QED
  BY <1>3, <1>4

LEMMA BeginStep ==
  ASSUME ~Overlap, IInv, NEW p \in Procs, NEW c \in Commands, Begin(p, c)
  PROVE  IInv'
<1> USE ConstantsAssumption DEF IInv, Begin, MayBegin, Goto, At, files
<1>1. TypeOK'
  BY DEF TypeOK, Labels
<1>2. SettledAgrees' /\ MarkerCovers'
  BY DEF SettledAgrees, MarkerCovers, Pending
<1>3. \A q \in Procs : q # p => pc'[q] = "idle"
  BY DEF TypeOK
<1>4. Serial'
  BY <1>3 DEF Serial
<1>5. Knows(p)'
  BY DEF Knows, TypeOK
<1>6. \A q \in Procs : q # p => Knows(q)'
  BY <1>3 DEF Knows
<1> QED
  BY <1>1, <1>2, <1>4, <1>5, <1>6

LEMMA CheckStep ==
  ASSUME IInv, NEW p \in Procs, SyncPassword(p) \/ CheckMarker(p) \/ Gate(p) \/ Launch(p)
  PROVE  IInv'
<1>1. TypeOK'
  BY TypeStep DEF IInv, Run
<1> USE ConstantsAssumption, MarkerIsPending
    DEF IInv, Step, Abort, Goto, At, files, locals, NoFault, Fault, Applied, Refused,
        Unknown, SyncPassword, CheckMarker, Gate, Launch
<1>2. SettledAgrees' /\ MarkerCovers'
  BY DEF SettledAgrees, MarkerCovers, Pending, Knows
<1>3. Knows(p)'
  BY DEF Knows, TypeOK, SettledAgrees, MarkerCovers, Pending, Owns, Marker
<1>4. pc[p] # "idle" /\ \E l \in Labels : Goto(p, l)
  BY DEF Labels
<1> QED
  BY <1>1, <1>2, <1>3, <1>4, OneRuns

LEMMA RecoveryStep ==
  ASSUME IInv, NEW p \in Procs, Recovery(p)
  PROVE  IInv'
<1>0. TypeOK'
  BY TypeStep DEF IInv, Run
<1> USE ConstantsAssumption, MarkerIsPending
    DEF IInv, Step, Abort, GiveUp, Goto, At, files, locals, NoFault, Fault,
        Accepted, NotAccepted, Applied, Refused, Unknown
<1>1. CASE VerifyNew(p)
  <2> USE <1>1 DEF VerifyNew
  <2>1. SettledAgrees' /\ MarkerCovers'
    BY DEF SettledAgrees, MarkerCovers, Pending, Knows, Owns, TypeOK
  <2>2. Knows(p)'
    BY DEF Knows, Owns, SettledAgrees, MarkerCovers, Pending, TypeOK
  <2>3. pc[p] # "idle" /\ \E l \in Labels : Goto(p, l)
    BY DEF Labels
  <2> QED
    BY <1>0, <2>1, <2>2, <2>3, OneRuns
<1>2. CASE VerifyOld(p)
  <2> USE <1>2 DEF VerifyOld
  <2>1. SettledAgrees' /\ MarkerCovers'
    BY DEF SettledAgrees, MarkerCovers, Pending, Knows, Owns, TypeOK
  <2>2. Knows(p)'
    BY DEF Knows, Owns, SettledAgrees, MarkerCovers, Pending, TypeOK
  <2>3. pc[p] # "idle" /\ \E l \in Labels : Goto(p, l)
    BY DEF Labels
  <2> QED
    BY <1>0, <2>1, <2>2, <2>3, OneRuns
<1>3. CASE RecoverSave(p)
  <2> USE <1>3 DEF RecoverSave
  <2>1. SettledAgrees' /\ MarkerCovers'
    BY DEF SettledAgrees, MarkerCovers, Pending, Knows, Owns, TypeOK
  <2>2. Knows(p)'
    BY DEF Knows, Owns, SettledAgrees, MarkerCovers, Pending, TypeOK
  <2>3. pc[p] # "idle" /\ \E l \in Labels : Goto(p, l)
    BY DEF Labels
  <2> QED
    BY <1>0, <2>1, <2>2, <2>3, OneRuns
<1>4. CASE RecoverCompose(p)
  <2> USE <1>4 DEF RecoverCompose
  <2>1. SettledAgrees' /\ MarkerCovers'
    BY DEF SettledAgrees, MarkerCovers, Pending, Knows, Owns, TypeOK
  <2>2. Knows(p)'
    BY DEF Knows, Owns, SettledAgrees, MarkerCovers, Pending, TypeOK
  <2>3. pc[p] # "idle" /\ \E l \in Labels : Goto(p, l)
    BY DEF Labels
  <2> QED
    BY <1>0, <2>1, <2>2, <2>3, OneRuns
<1>5. CASE RecoverClear(p)
  <2> USE <1>5 DEF RecoverClear
  <2>1. SettledAgrees' /\ MarkerCovers'
    BY DEF SettledAgrees, MarkerCovers, Pending, Knows, Owns, TypeOK
  <2>2. Knows(p)'
    BY DEF Knows, Owns, SettledAgrees, MarkerCovers, Pending, TypeOK
  <2>3. pc[p] # "idle" /\ \E l \in Labels : Goto(p, l)
    BY DEF Labels
  <2> QED
    BY <1>0, <2>1, <2>2, <2>3, OneRuns
<1> QED
  BY <1>1, <1>2, <1>3, <1>4, <1>5 DEF Recovery

LEMMA RotateStep ==
  ASSUME IInv, NEW p \in Procs, Rotate(p)
  PROVE  IInv'
<1>0. TypeOK'
  BY TypeStep DEF IInv, Run
<1> USE ConstantsAssumption, MarkerIsPending
    DEF IInv, Step, Abort, GiveUp, Goto, At, files, locals, NoFault, Fault,
        Accepted, NotAccepted, Applied, Refused, Unknown
<1>1. CASE BeginRotation(p)
  <2> USE <1>1 DEF BeginRotation
  <2>1. SettledAgrees' /\ MarkerCovers'
    BY DEF SettledAgrees, MarkerCovers, Pending, Knows, Owns, TypeOK
  <2>2. Knows(p)'
    BY DEF Knows, Owns, SettledAgrees, MarkerCovers, Pending, TypeOK
  <2>3. pc[p] # "idle" /\ \E l \in Labels : Goto(p, l)
    BY DEF Labels
  <2> QED
    BY <1>0, <2>1, <2>2, <2>3, OneRuns
<1>2. CASE MarkPending(p)
  <2> USE <1>2 DEF MarkPending
  <2>1. SettledAgrees' /\ MarkerCovers'
    BY DEF SettledAgrees, MarkerCovers, Pending, Knows, Owns, TypeOK
  <2>2. Knows(p)'
    BY DEF Knows, Owns, SettledAgrees, MarkerCovers, Pending, TypeOK
  <2>3. pc[p] # "idle" /\ \E l \in Labels : Goto(p, l)
    BY DEF Labels
  <2> QED
    BY <1>0, <2>1, <2>2, <2>3, OneRuns
<1>3. CASE ChangeGuest(p)
  <2> USE <1>3 DEF ChangeGuest
  <2>1. SettledAgrees' /\ MarkerCovers'
    BY DEF SettledAgrees, MarkerCovers, Pending, Knows, Owns, TypeOK
  <2>2. Knows(p)'
    BY DEF Knows, Owns, SettledAgrees, MarkerCovers, Pending, TypeOK
  <2>3. pc[p] # "idle" /\ \E l \in Labels : Goto(p, l)
    BY DEF Labels
  <2> QED
    BY <1>0, <2>1, <2>2, <2>3, OneRuns
<1>4. CASE Unmark(p)
  <2> USE <1>4 DEF Unmark
  <2>1. SettledAgrees' /\ MarkerCovers'
    BY DEF SettledAgrees, MarkerCovers, Pending, Knows, Owns, TypeOK
  <2>2. Knows(p)'
    BY DEF Knows, Owns, SettledAgrees, MarkerCovers, Pending, TypeOK
  <2>3. pc[p] # "idle" /\ \E l \in Labels : Goto(p, l)
    BY DEF Labels
  <2> QED
    BY <1>0, <2>1, <2>2, <2>3, OneRuns
<1>5. CASE VerifyCandidate(p)
  <2> USE <1>5 DEF VerifyCandidate
  <2>1. SettledAgrees' /\ MarkerCovers'
    BY DEF SettledAgrees, MarkerCovers, Pending, Knows, Owns, TypeOK
  <2>2. Knows(p)'
    BY DEF Knows, Owns, SettledAgrees, MarkerCovers, Pending, TypeOK
  <2>3. pc[p] # "idle" /\ \E l \in Labels : Goto(p, l)
    BY DEF Labels
  <2> QED
    BY <1>0, <2>1, <2>2, <2>3, OneRuns
<1>6. CASE SaveConfig(p)
  <2> USE <1>6 DEF SaveConfig
  <2>1. SettledAgrees' /\ MarkerCovers'
    BY DEF SettledAgrees, MarkerCovers, Pending, Knows, Owns, TypeOK
  <2>2. Knows(p)'
    BY DEF Knows, Owns, SettledAgrees, MarkerCovers, Pending, TypeOK
  <2>3. pc[p] # "idle" /\ \E l \in Labels : Goto(p, l)
    BY DEF Labels
  <2> QED
    BY <1>0, <2>1, <2>2, <2>3, OneRuns
<1>7. CASE ReplaceCompose(p)
  <2> USE <1>7 DEF ReplaceCompose
  <2>1. SettledAgrees' /\ MarkerCovers'
    BY DEF SettledAgrees, MarkerCovers, Pending, Knows, Owns, TypeOK
  <2>2. Knows(p)'
    BY DEF Knows, Owns, SettledAgrees, MarkerCovers, Pending, TypeOK
  <2>3. pc[p] # "idle" /\ \E l \in Labels : Goto(p, l)
    BY DEF Labels
  <2> QED
    BY <1>0, <2>1, <2>2, <2>3, OneRuns
<1>8. CASE ClearMarker(p)
  <2> USE <1>8 DEF ClearMarker
  <2>1. SettledAgrees' /\ MarkerCovers'
    BY DEF SettledAgrees, MarkerCovers, Pending, Knows, Owns, TypeOK
  <2>2. Knows(p)'
    BY DEF Knows, Owns, SettledAgrees, MarkerCovers, Pending, TypeOK
  <2>3. pc[p] # "idle" /\ \E l \in Labels : Goto(p, l)
    BY DEF Labels
  <2> QED
    BY <1>0, <2>1, <2>2, <2>3, OneRuns
<1> QED
  BY <1>1, <1>2, <1>3, <1>4, <1>5, <1>6, <1>7, <1>8 DEF Rotate

LEMMA UndoStep ==
  ASSUME IInv, NEW p \in Procs, Undo(p)
  PROVE  IInv'
<1>0. TypeOK'
  BY TypeStep DEF IInv, Run
<1> USE ConstantsAssumption, MarkerIsPending
    DEF IInv, Step, Abort, GiveUp, Goto, At, files, locals, NoFault, Fault,
        Accepted, NotAccepted, Applied, Refused, Unknown
<1>1. CASE UndoGuest(p)
  <2> USE <1>1 DEF UndoGuest
  <2>1. SettledAgrees' /\ MarkerCovers'
    BY DEF SettledAgrees, MarkerCovers, Pending, Knows, Owns, TypeOK
  <2>2. Knows(p)'
    BY DEF Knows, Owns, SettledAgrees, MarkerCovers, Pending, TypeOK
  <2>3. pc[p] # "idle" /\ \E l \in Labels : Goto(p, l)
    BY DEF Labels
  <2> QED
    BY <1>0, <2>1, <2>2, <2>3, OneRuns
<1>2. CASE UndoSave(p)
  <2> USE <1>2 DEF UndoSave
  <2>1. SettledAgrees' /\ MarkerCovers'
    BY DEF SettledAgrees, MarkerCovers, Pending, Knows, Owns, TypeOK
  <2>2. Knows(p)'
    BY DEF Knows, Owns, SettledAgrees, MarkerCovers, Pending, TypeOK
  <2>3. pc[p] # "idle" /\ \E l \in Labels : Goto(p, l)
    BY DEF Labels
  <2> QED
    BY <1>0, <2>1, <2>2, <2>3, OneRuns
<1>3. CASE UndoCompose(p)
  <2> USE <1>3 DEF UndoCompose
  <2>1. SettledAgrees' /\ MarkerCovers'
    BY DEF SettledAgrees, MarkerCovers, Pending, Knows, Owns, TypeOK
  <2>2. Knows(p)'
    BY DEF Knows, Owns, SettledAgrees, MarkerCovers, Pending, TypeOK
  <2>3. pc[p] # "idle" /\ \E l \in Labels : Goto(p, l)
    BY DEF Labels
  <2> QED
    BY <1>0, <2>1, <2>2, <2>3, OneRuns
<1>4. CASE UndoClear(p)
  <2> USE <1>4 DEF UndoClear
  <2>1. SettledAgrees' /\ MarkerCovers'
    BY DEF SettledAgrees, MarkerCovers, Pending, Knows, Owns, TypeOK
  <2>2. Knows(p)'
    BY DEF Knows, Owns, SettledAgrees, MarkerCovers, Pending, TypeOK
  <2>3. pc[p] # "idle" /\ \E l \in Labels : Goto(p, l)
    BY DEF Labels
  <2> QED
    BY <1>0, <2>1, <2>2, <2>3, OneRuns
<1> QED
  BY <1>1, <1>2, <1>3, <1>4 DEF Undo

LEMMA CrashStep ==
  ASSUME IInv, NEW p \in Procs, Crash(p)
  PROVE  IInv'
<1> USE ConstantsAssumption DEF IInv, Crash, Goto, Fault, files, locals
<1>1. TypeOK'
  BY DEF TypeOK, Labels
<1>2. SettledAgrees' /\ MarkerCovers'
  BY DEF SettledAgrees, MarkerCovers, Pending
<1>3. Knows(p)'
  BY DEF Knows, TypeOK
<1>4. Goto(p, "idle") /\ "idle" \in Labels
  BY DEF Labels
<1> QED
  BY <1>1, <1>2, <1>3, <1>4, OneRuns

LEMMA AgeStep ==
  ASSUME IInv, PasswordAges \/ UNCHANGED vars
  PROVE  IInv'
<1> USE DEF IInv, PasswordAges, vars, locals
<1>1. conf'.pw = conf.pw
  BY DEF TypeOK, Config
<1>2. TypeOK'
  BY DEF TypeOK, Config
<1>3. Serial' /\ SettledAgrees' /\ MarkerCovers'
  BY <1>1 DEF Serial, SettledAgrees, MarkerCovers, Pending
<1>4. \A p \in Procs : Knows(p)'
  BY <1>1 DEF Knows, Owns, Pending
<1> QED
  BY <1>2, <1>3, <1>4

LEMMA NextIInv ==
  ASSUME ~Overlap, IInv, [Next]_vars
  PROVE  IInv'
<1>1. ASSUME NEW p \in Procs, Run(p)
      PROVE  IInv'
  BY <1>1, CheckStep, RecoveryStep, RotateStep, UndoStep DEF Run
<1>2. ASSUME NEW p \in Procs, Crash(p)
      PROVE  IInv'
  BY <1>2, CrashStep
<1>3. ASSUME NEW p \in Procs, NEW c \in Commands, Begin(p, c)
      PROVE  IInv'
  BY <1>3, BeginStep
<1>4. CASE PasswordAges \/ UNCHANGED vars
  BY <1>4, AgeStep
<1> QED
  BY <1>1, <1>2, <1>3, <1>4 DEF Next

\* The inductive invariant holds of every behaviour in which commands do not
\* overlap.
THEOREM Invariance ==
  ASSUME ~Overlap
  PROVE  Spec => []IInv
BY InitIInv, NextIInv, PTL DEF Spec

\* With no rotation pending, the guest account, winpodx.toml and compose.yaml
\* hold one password, whichever step of rotate_password, of its rollback or of
\* recovery failed or was cut short before.
THEOREM Settled ==
  ASSUME ~Overlap
  PROVE  Spec => []SettledAgrees
<1>1. IInv => SettledAgrees
  BY DEF IInv
<1> QED
  BY <1>1, Invariance, PTL

\* While a rotation is pending, recovery finds the password in force in the
\* marker.
THEOREM Covered ==
  ASSUME ~Overlap
  PROVE  Spec => []MarkerCovers
<1>1. IInv => MarkerCovers
  BY DEF IInv
<1> QED
  BY <1>1, Invariance, PTL

\* The Config that ensure_ready returns logs in.
THEOREM LogsIn ==
  ASSUME ~Overlap
  PROVE  Spec => []LaunchLogsIn
<1>1. IInv => LaunchLogsIn
  BY DEF IInv, Knows, LaunchLogsIn, At
<1> QED
  BY <1>1, Invariance, PTL

-----------------------------------------------------------------------------
(* What one step may do to the account and to the marker.                  *)

Moves ==
  \/ UNCHANGED <<guest, marker>>
  \/ Pending /\ UNCHANGED marker /\ guest' \in {marker.old, marker.new}
  \/ Pending /\ UNCHANGED guest /\ marker' = NoMarker
  \/ /\ ~Pending /\ UNCHANGED guest
     /\ \E n \in Password : marker' = [old |-> guest, new |-> n]

LEMMA NextMoves ==
  ASSUME IInv, [Next]_vars
  PROVE  Moves
<1> USE DEF Moves, Step, Abort, GiveUp, Goto, At, files, locals
<1>1. ASSUME NEW p \in Procs, Recovery(p) \/ Undo(p)
      PROVE  Moves
  <2>1. CASE UndoGuest(p)
    BY <2>1, MarkerIsPending
    DEF UndoGuest, Applied, Refused, Unknown, IInv, Knows, Owns, Pending, MarkerCovers
  <2>2. CASE ~UndoGuest(p)
    BY <1>1, <2>2 DEF Recovery, Undo, VerifyNew, VerifyOld, RecoverSave, RecoverCompose,
       RecoverClear, UndoSave, UndoCompose, UndoClear, IInv, Pending
  <2> QED
    BY <2>1, <2>2
<1>2. ASSUME NEW p \in Procs, Rotate(p)
      PROVE  Moves
  <2>1. CASE MarkPending(p)
    BY <2>1 DEF MarkPending, IInv, Knows, TypeOK
  <2>2. CASE ChangeGuest(p)
    BY <2>2, MarkerIsPending
    DEF ChangeGuest, Applied, Refused, Unknown, IInv, Knows, Owns, Pending, MarkerCovers
  <2>3. CASE ~MarkPending(p) /\ ~ChangeGuest(p)
    BY <1>2, <2>3 DEF Rotate, BeginRotation, Unmark, VerifyCandidate, SaveConfig,
       ReplaceCompose, ClearMarker, Pending
  <2> QED
    BY <2>1, <2>2, <2>3
<1>3. ASSUME NEW p \in Procs, SyncPassword(p)
      PROVE  Moves
  BY <1>3 DEF SyncPassword, Applied, Refused, Unknown, IInv, Knows, SettledAgrees,
     MarkerCovers, Pending
<1>4. ASSUME NEW p \in Procs,
             CheckMarker(p) \/ Gate(p) \/ Launch(p) \/ Crash(p)
             \/ \E c \in Commands : Begin(p, c)
      PROVE  Moves
  BY <1>4 DEF CheckMarker, Gate, Launch, Crash, Begin
<1>5. CASE PasswordAges \/ UNCHANGED vars
  BY <1>5 DEF PasswordAges, vars
<1> QED
  BY <1>1, <1>2, <1>3, <1>4, <1>5 DEF Next, Run

\* The passwords of an unresolved rotation are never overwritten.
THEOREM Kept ==
  ASSUME ~Overlap
  PROVE  Spec => MarkerKept
<1>1. IInv /\ [Next]_vars => [Pending => marker' \in {marker, NoMarker}]_vars
  BY NextMoves DEF Moves
<1> QED
  BY <1>1, Invariance, PTL DEF Spec, MarkerKept

\* The account only ever takes a password that the marker already names.
THEOREM Announced ==
  ASSUME ~Overlap
  PROVE  Spec => WriteAhead
<1>1. IInv /\ [Next]_vars
        => [guest' # guest => Pending /\ guest' \in {marker.old, marker.new}]_vars
  BY NextMoves DEF Moves
<1> QED
  BY <1>1, Invariance, PTL DEF Spec, WriteAhead

\* The marker protocol implements Credential.
THEOREM Refinement ==
  ASSUME ~Overlap
  PROVE  Spec => RefinesCredential
<1>1. Init => C!Init
  BY ConstantsAssumption DEF Init, C!Init, Window, Pending, Password
<1>2. ASSUME IInv, IInv', [Next]_vars
      PROVE  [C!Next]_<<guest, Window>>
  <2>1. Moves
    BY <1>2, NextMoves
  <2>2. ~Pending => conf.pw = guest
    BY <1>2 DEF IInv, SettledAgrees
  <2>3. ~Pending' => conf'.pw = guest'
    BY <1>2 DEF IInv, SettledAgrees
  <2>4. CASE UNCHANGED <<guest, marker>>
    BY <2>2, <2>3, <2>4 DEF Window, Pending
  <2>5. CASE Pending /\ UNCHANGED marker /\ guest' \in {marker.old, marker.new}
    BY <2>5 DEF Window, Pending, C!Next, C!Switch
  <2>6. CASE Pending /\ UNCHANGED guest /\ marker' = NoMarker
    BY <2>3, <2>6 DEF Window, Pending, C!Next, C!Settle
  <2>7. ASSUME ~Pending, UNCHANGED guest, NEW n \in Password,
               marker' = [old |-> guest, new |-> n]
        PROVE  C!Propose(n)
    BY <2>2, <2>7, MarkerIsPending DEF Window, Pending, C!Propose
  <2> QED
    BY <2>1, <2>4, <2>5, <2>6, <2>7 DEF Moves, C!Next
<1> QED
  BY <1>1, <1>2, Invariance, PTL DEF Spec, RefinesCredential, C!Spec
=============================================================================
