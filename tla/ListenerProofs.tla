--------------------------- MODULE ListenerProofs ---------------------------
(***************************************************************************)
(* Proofs about Listener: types, and the promise of the ring of seen       *)
(* UUIDs.  While the ring has room for every name, a request with a UUID   *)
(* is opened again only after a failure.                                   *)
(***************************************************************************)
EXTENDS Listener, FiniteSetTheorems, TLAPS

NoDuplicates(s) == \A i, j \in DOMAIN s : s[i] = s[j] => i = j

\* Room for every name.
Roomy == N <= SeenSize

\* A request the daemon has in hand between the spawn and the record.
InHand(n) == pc = "record" /\ current = n

\* A request that one of the rings does not know was opened at most once per
\* failure; the one opening above that is known to both.
Accounted(n) ==
  /\ opened[n] <= 1 + faults
  /\ n \notin Elements(disk) /\ ~InHand(n) => opened[n] <= faults
  /\ pc # "down" /\ n \notin Elements(seen) /\ ~InHand(n) => opened[n] <= faults

\* The inductive invariant.
IInv ==
  /\ TypeOK
  /\ NoDuplicates(disk) /\ NoDuplicates(seen)
  /\ \A n \in UUIDs : Accounted(n)

-----------------------------------------------------------------------------
(* The ring.                                                               *)

\* A ring without duplicates that lacks a name is not full.
LEMMA RoomLeft ==
  ASSUME Roomy, NEW s \in Seq(Names), NoDuplicates(s), NEW n \in Names,
         n \notin Elements(s)
  PROVE  Len(s) < SeenSize
<1>1. s \in [1 .. Len(s) -> Names \ {n}]
  BY DEF Elements
<1>2. s \in Injection(1 .. Len(s), Names \ {n})
  BY <1>1 DEF NoDuplicates, Injection, IsInjective
<1>3. IsFiniteSet(Names) /\ Cardinality(Names) = N
  BY FS_Interval, ListenerAssumption DEF Names
<1>4. IsFiniteSet(Names \ {n}) /\ Cardinality(Names \ {n}) = N - 1
  BY <1>3, FS_RemoveElement
<1>5. Cardinality(1 .. Len(s)) <= N - 1
  BY <1>2, <1>4, FS_Injection
<1>6. Cardinality(1 .. Len(s)) = Len(s)
  <2>1. Len(s) \in Nat
    OBVIOUS
  <2>2. Cardinality(1 .. Len(s)) = IF 1 > Len(s) THEN 0 ELSE Len(s) - 1 + 1
    BY <2>1, FS_Interval
  <2> QED
    BY <2>1, <2>2
<1> QED
  BY <1>5, <1>6, ListenerAssumption DEF Roomy

\* What Add does to a ring that has room: it forgets nothing.
LEMMA AddRemembers ==
  ASSUME Roomy, NEW s \in Seq(Names), NoDuplicates(s), Len(s) <= SeenSize,
         NEW n \in Names
  PROVE  /\ Add(s, n) \in Seq(Names) /\ Len(Add(s, n)) <= SeenSize
         /\ NoDuplicates(Add(s, n))
         /\ Elements(Add(s, n)) = Elements(s) \cup {n}
<1>1. CASE n \in Elements(s)
  BY <1>1 DEF Add
<1>2. CASE n \notin Elements(s)
  <2>1. Len(s) < SeenSize
    BY <1>2, RoomLeft
  <2>2. Add(s, n) = Append(s, n)
    BY <1>2, <2>1 DEF Add
  <2>3. DOMAIN Append(s, n) = 1 .. Len(s) + 1
    OBVIOUS
  <2>4. \A i \in 1 .. Len(s) : Append(s, n)[i] = s[i]
    OBVIOUS
  <2>5. Append(s, n)[Len(s) + 1] = n
    OBVIOUS
  <2>6. NoDuplicates(Append(s, n))
    BY <1>2, <2>3, <2>4, <2>5 DEF NoDuplicates, Elements
  <2>7. Elements(Append(s, n)) = Elements(s) \cup {n}
    BY <2>3, <2>4, <2>5 DEF Elements
  <2> QED
    BY <2>1, <2>2, <2>6, <2>7, ListenerAssumption
<1> QED
  BY <1>1, <1>2

\* With or without room, the ring stays within its capacity.
LEMMA AddBounded ==
  ASSUME NEW s \in Seq(Names), Len(s) <= SeenSize, NEW n \in Names
  PROVE  Add(s, n) \in Seq(Names) /\ Len(Add(s, n)) <= SeenSize
<1>1. CASE n \in Elements(s) \/ Len(s) < SeenSize
  BY <1>1, ListenerAssumption DEF Add
<1>2. CASE n \notin Elements(s) /\ Len(s) = SeenSize
  <2>1. s # <<>>
    BY <1>2, ListenerAssumption
  <2>2. Tail(s) \in Seq(Names) /\ Len(Tail(s)) = Len(s) - 1
    BY <2>1
  <2>3. Add(s, n) = Append(Tail(s), n)
    BY <1>2, ListenerAssumption DEF Add
  <2> QED
    BY <1>2, <2>2, <2>3, ListenerAssumption
<1> QED
  BY <1>1, <1>2, ListenerAssumption

-----------------------------------------------------------------------------
(* Type correctness.                                                       *)

LEMMA FileAges ==
  ASSUME NEW f \in File, ~(f.age > JanitorAge)
  PROVE  [f EXCEPT !.age = @ + 1] \in File
BY ListenerAssumption DEF File, Age

LEMMA UnlinkTyped ==
  ASSUME TypeOK, NEW n \in Names, Unlink(n)
  PROVE  incoming' \in [Names -> File \cup {NoFile}] /\ faults' \in 0 .. MaxFaults
<1>1. NoFile \in File \cup {NoFile}
  OBVIOUS
<1>2. [incoming EXCEPT ![n] = NoFile] \in [Names -> File \cup {NoFile}]
  BY <1>1 DEF TypeOK
<1>3. faults' \in 0 .. MaxFaults
  BY ListenerAssumption DEF TypeOK, Unlink, NoFault, Fault
<1> QED
  BY <1>2, <1>3 DEF TypeOK, Unlink

LEMMA TypeStep == TypeOK /\ [Next]_vars => TypeOK'
<1> SUFFICES ASSUME TypeOK, [Next]_vars PROVE TypeOK'
  OBVIOUS
<1> USE DEF TypeOK, daemon
<1>0. ASSUME NoFault \/ \E k \in FaultKinds : Fault(k) PROVE faults' \in 0 .. MaxFaults
  BY <1>0, ListenerAssumption DEF NoFault, Fault
<1>1. ASSUME NEW n \in Names, WriteTmp(n) PROVE TypeOK'
  <2>1. [kind |-> "tmp", age |-> 0] \in File
    BY ListenerAssumption DEF File, Age
  <2> QED
    BY <1>1, <2>1 DEF WriteTmp
<1>2. ASSUME NEW n \in Names, Publish(n) PROVE TypeOK'
  <2>1. incoming[n] \in File
    BY <1>2 DEF Publish, Exists
  <2>2. \A k \in {"good", "refused"} : [incoming[n] EXCEPT !.kind = k] \in File
    BY <2>1 DEF File
  <2> QED
    BY <1>2, <2>2 DEF Publish
<1>3. CASE Start
  <2>1. /\ seen' = disk \/ seen' = <<>>
        /\ NoFault \/ Fault("load")
    BY <1>3 DEF Start
  <2>2. faults' \in 0 .. MaxFaults
    BY <1>0, <2>1 DEF Fault
  <2>3. seen' \in Seq(Names) /\ Len(seen') <= SeenSize
    <3>1. <<>> \in Seq(Names) /\ Len(<<>>) = 0 /\ 0 <= SeenSize
      BY ListenerAssumption
    <3>2. CASE seen' = disk
      BY <3>2
    <3>3. CASE seen' = <<>>
      BY <3>1, <3>3
    <3> QED
      BY <2>1, <3>2, <3>3
  <2> QED
    BY <1>3, <2>2, <2>3 DEF Start
<1>4. CASE Stop
  BY <1>4 DEF Stop
<1>5. CASE Crash
  <2>1. faults' \in 0 .. MaxFaults
    BY <1>0, <1>5 DEF Crash, Fault
  <2> QED
    BY <1>5, <2>1 DEF Crash
<1>6. CASE Scan
  BY <1>6 DEF Scan, Picked
<1>7. CASE Handle
  <2>1. PICK n \in todo :
          /\ todo' = todo \ {n} /\ current' = n
          /\ \/ Unlink(n) /\ UNCHANGED <<pc, opened>>
             \/ /\ pc' = "record"
                /\ opened' = [opened EXCEPT ![n] = IF @ < MaxFaults + 2 THEN @ + 1 ELSE @]
                /\ UNCHANGED <<incoming, faults>>
             \/ /\ incoming' \in {incoming, [incoming EXCEPT ![n] = NoFile]}
                /\ Fault("spawn")
                /\ UNCHANGED <<pc, opened>>
    BY <1>7 DEF Handle, Refuse, Open, SpawnFails
  <2>2. n \in Names
    OBVIOUS
  <2>3. UNCHANGED <<disk, seen, swept, writes>>
    BY <1>7 DEF Handle, Refuse, Open, SpawnFails
  <2>4. CASE Unlink(n) /\ UNCHANGED <<pc, opened>>
    BY <2>1, <2>2, <2>3, <2>4, UnlinkTyped
  <2>5. CASE /\ pc' = "record"
             /\ opened' = [opened EXCEPT ![n] = IF @ < MaxFaults + 2 THEN @ + 1 ELSE @]
             /\ UNCHANGED <<incoming, faults>>
    <3>1. opened' \in [Names -> 0 .. MaxFaults + 2]
      BY <2>2, <2>5, ListenerAssumption
    <3> QED
      BY <2>1, <2>2, <2>3, <2>5, <3>1
  <2>6. CASE /\ incoming' \in {incoming, [incoming EXCEPT ![n] = NoFile]}
             /\ Fault("spawn")
             /\ UNCHANGED <<pc, opened>>
    <3>1. faults' \in 0 .. MaxFaults
      BY <1>0, <2>6 DEF Fault
    <3> QED
      BY <2>1, <2>2, <2>3, <2>6, <3>1
  <2> QED
    BY <2>1, <2>4, <2>5, <2>6
<1>8. CASE Record
  <2>1. Add(seen, current) \in Seq(Names) /\ Len(Add(seen, current)) <= SeenSize
    BY AddBounded
  <2>2. faults' \in 0 .. MaxFaults
    BY <1>0, <1>8 DEF Record, NoFault, Fault
  <2> QED
    BY <1>8, <2>1, <2>2 DEF Record
<1>9. CASE Remove
  BY <1>9, UnlinkTyped DEF Remove
<1>10. CASE EndPass
  BY <1>10 DEF EndPass
<1>11. CASE Janitor
  <2>1. incoming' \in [Names -> File \cup {NoFile}]
    BY <1>11 DEF Janitor
  <2>2. faults' \in 0 .. MaxFaults
    BY <1>0, <1>11 DEF Janitor, NoFault, Fault
  <2> QED
    BY <1>11, <2>1, <2>2 DEF Janitor
<1>12. CASE Tick
  <2>1. \A n \in Names : Exists(n) /\ ~Stale(n) => [incoming[n] EXCEPT !.age = @ + 1] \in File
    BY FileAges DEF Exists, Stale
  <2> QED
    BY <1>12, <2>1 DEF Tick
<1>13. CASE UNCHANGED vars
  BY <1>13 DEF vars
<1> QED
  BY <1>1, <1>2, <1>3, <1>4, <1>5, <1>6, <1>7, <1>8, <1>9, <1>10, <1>11, <1>12,
     <1>13 DEF Next, Poll

LEMMA InitTyped == ASSUME Init PROVE TypeOK
<1>1. 1 \in Names
  BY ListenerAssumption DEF Names
<1>2. disk = <<>> /\ seen = <<>> /\ Len(<<>>) <= SeenSize
  BY ListenerAssumption DEF Init
<1>3. disk \in Seq(Names) /\ seen \in Seq(Names)
  BY <1>2
<1>4. 0 \in 0 .. MaxFaults /\ 0 \in 0 .. MaxFaults + 2 /\ 0 \in Nat
  BY ListenerAssumption
<1>5. opened \in [Names -> 0 .. MaxFaults + 2] /\ faults \in 0 .. MaxFaults
  BY <1>4 DEF Init
<1>6. incoming \in [Names -> File \cup {NoFile}]
  BY DEF Init
<1> QED
  BY <1>1, <1>2, <1>3, <1>4, <1>5, <1>6 DEF Init, TypeOK

\* The variables keep their types and the rings their capacity.
THEOREM TypeCorrect == Spec => []TypeOK
BY InitTyped, TypeStep, PTL DEF Spec

-----------------------------------------------------------------------------
(* The ring's promise.                                                     *)

\* A step that opens nothing, records nothing and has nothing in hand.
LEMMA Frame ==
  ASSUME IInv, TypeOK', UNCHANGED <<disk, seen, opened>>,
         faults' \in {faults, faults + 1},
         pc # "record", pc' # "record", pc' # "down" => pc # "down"
  PROVE  IInv'
<1>2. ASSUME NEW n \in UUIDs PROVE Accounted(n)'
  <2>1. opened[n] \in Nat /\ faults \in Nat /\ Accounted(n) /\ faults' >= faults
    BY <1>2 DEF IInv, TypeOK, UUIDs
  <2>2. opened'[n] = opened[n] /\ Elements(disk)' = Elements(disk)
        /\ Elements(seen)' = Elements(seen)
    BY DEF Elements
  <2>3. opened[n] <= 1 + faults'
    BY <2>1 DEF Accounted, TypeOK
  <2>4. n \notin Elements(disk) => opened[n] <= faults'
    BY <2>1 DEF Accounted, InHand, TypeOK
  <2>5. pc # "down" /\ n \notin Elements(seen) => opened[n] <= faults'
    BY <2>1 DEF Accounted, InHand, TypeOK
  <2> QED
    BY <2>2, <2>3, <2>4, <2>5 DEF Accounted
<1>3. NoDuplicates(disk)' /\ NoDuplicates(seen)'
  BY DEF IInv, NoDuplicates
<1> QED
  BY <1>2, <1>3 DEF IInv

\* Only the directory or the clock changes.
LEMMA Aside ==
  ASSUME IInv, TypeOK', UNCHANGED <<disk, seen, opened, faults, pc, current>>
  PROVE  IInv'
BY DEF IInv, NoDuplicates, Accounted, InHand, Elements

\* A ring that cannot be read is a failure: it pays for what memory then lacks.
LEMMA StartStep == ASSUME IInv, TypeOK', Start PROVE IInv'
<1>1. /\ pc = "down" /\ pc' = "scan"
      /\ UNCHANGED <<disk, opened, current>>
      /\ \/ seen' = disk /\ faults' = faults
         \/ seen' = <<>> /\ faults' = faults + 1
  BY DEF Start, NoFault, Fault
<1>2. ASSUME NEW n \in UUIDs PROVE Accounted(n)'
  <2>1. Accounted(n) /\ opened[n] \in Nat /\ faults \in Nat /\ ~InHand(n)
    BY <1>1, <1>2 DEF IInv, TypeOK, UUIDs, InHand
  <2>2. Elements(disk)' = Elements(disk)
    BY <1>1 DEF Elements
  <2>3. CASE seen' = disk /\ faults' = faults
    <3>1. Elements(seen)' = Elements(disk)
      BY <2>3 DEF Elements
    <3> QED
      BY <1>1, <2>1, <2>2, <2>3, <3>1 DEF Accounted
  <2>4. CASE seen' = <<>> /\ faults' = faults + 1
    <3>1. opened'[n] <= faults'
      BY <1>1, <2>1, <2>4 DEF Accounted
    <3>2. opened'[n] <= 1 + faults'
      BY <1>1, <2>1, <2>4, <3>1
    <3> QED
      BY <3>1, <3>2 DEF Accounted
  <2> QED
    BY <1>1, <2>3, <2>4
<1>3. NoDuplicates(disk)' /\ NoDuplicates(seen)'
  BY <1>1 DEF IInv, NoDuplicates
<1> QED
  BY <1>2, <1>3 DEF IInv

\* A crash is a failure: it pays for the request in hand.
LEMMA CrashStep == ASSUME IInv, TypeOK', Crash PROVE IInv'
<1>1. /\ UNCHANGED <<disk, seen, opened>> /\ faults' = faults + 1
      /\ pc' = "down"
  BY DEF Crash, Fault, daemon
<1>2. ASSUME NEW n \in UUIDs PROVE Accounted(n)'
  <2>1. opened[n] <= 1 + faults /\ opened[n] \in Nat /\ faults \in Nat
    BY <1>2 DEF IInv, Accounted, TypeOK, UUIDs
  <2>2. opened'[n] <= faults'
    BY <1>1, <2>1
  <2>3. faults' \in Nat /\ opened'[n] \in Nat
    BY <1>1, <2>1
  <2> QED
    BY <1>1, <2>2, <2>3 DEF Accounted
<1> QED
  BY <1>1, <1>2 DEF IInv, NoDuplicates

LEMMA HandleStep == ASSUME IInv, TypeOK', Handle PROVE IInv'
<1>1. PICK n \in todo :
        /\ current' = n
        /\ \/ Unlink(n) /\ UNCHANGED <<pc, opened>>
           \/ /\ n \notin Elements(seen)
              /\ pc' = "record"
              /\ opened' = [opened EXCEPT ![n] = IF @ < MaxFaults + 2 THEN @ + 1 ELSE @]
              /\ UNCHANGED <<incoming, faults>>
           \/ Fault("spawn") /\ UNCHANGED <<pc, opened>>
  BY DEF Handle, Refuse, Open, SpawnFails
<1>2. pc = "handle" /\ UNCHANGED <<disk, seen>>
  BY DEF Handle, Refuse, Open, SpawnFails
<1>3. n \in Names
  BY DEF IInv, TypeOK
<1>4. CASE Unlink(n) /\ UNCHANGED <<pc, opened>>
  BY <1>2, <1>4, Frame DEF Unlink, NoFault, Fault
<1>5. CASE Fault("spawn") /\ UNCHANGED <<pc, opened>>
  BY <1>2, <1>5, Frame DEF Fault
<1>6. CASE /\ n \notin Elements(seen)
           /\ pc' = "record"
           /\ opened' = [opened EXCEPT ![n] = IF @ < MaxFaults + 2 THEN @ + 1 ELSE @]
           /\ UNCHANGED <<incoming, faults>>
  <2>2. Elements(disk)' = Elements(disk) /\ Elements(seen)' = Elements(seen)
    BY <1>2 DEF Elements
  <2>3. ASSUME NEW m \in UUIDs PROVE Accounted(m)'
    <3>1. /\ Accounted(m) /\ opened[m] \in Nat /\ faults \in Nat
          /\ opened \in [Names -> 0 .. MaxFaults + 2]
      BY <2>3 DEF IInv, TypeOK, UUIDs
    <3>2. CASE m = n
      <4>1. opened[m] <= faults
        BY <1>2, <1>6, <3>1, <3>2 DEF Accounted, InHand
      <4>2. opened'[m] <= 1 + faults'
        BY <1>3, <1>6, <3>1, <3>2, <4>1
      <4>3. InHand(m)'
        BY <1>1, <1>6, <3>2 DEF InHand
      <4> QED
        BY <4>2, <4>3 DEF Accounted
    <3>3. CASE m # n
      <4>1. opened'[m] = opened[m] /\ faults' = faults
        BY <1>6, <3>1, <3>3
      <4>2. ~InHand(m)
        BY <1>2 DEF InHand
      <4> QED
        BY <1>2, <2>2, <3>1, <4>1, <4>2 DEF Accounted
    <3> QED
      BY <3>2, <3>3
  <2> QED
    BY <1>2, <2>3 DEF IInv, NoDuplicates
<1> QED
  BY <1>1, <1>4, <1>5, <1>6

\* Recording makes both rings know the request, or memory alone and a failure; a
\* name that is no UUID changes neither.
LEMMA RecordStep == ASSUME Roomy, IInv, TypeOK', Record PROVE IInv'
<1> DEFINE r == Add(seen, current)
<1>1. /\ r \in Seq(Names) /\ NoDuplicates(r)
      /\ Elements(r) = Elements(seen) \cup {current}
  BY AddRemembers DEF IInv, TypeOK
<1>2. pc = "record" /\ UNCHANGED <<opened, current>>
  BY DEF Record
<1>3. CASE current \in OddNames /\ pc' = "scan" /\ UNCHANGED <<seen, disk, faults>>
  <2>1. ASSUME NEW n \in UUIDs PROVE Accounted(n)'
    BY <1>2, <1>3, <2>1 DEF IInv, Accounted, InHand, Elements, UUIDs
  <2> QED
    BY <1>3, <2>1 DEF IInv, NoDuplicates
<1>4. CASE /\ seen' = r
           /\ \/ disk' = r /\ pc' = "unlink" /\ faults' = faults
              \/ disk' = disk /\ pc' = "scan" /\ faults' = faults + 1
  <2>1. Elements(seen)' = Elements(seen) \cup {current}
    BY <1>1, <1>4 DEF Elements
  <2>2. ASSUME NEW n \in UUIDs PROVE Accounted(n)'
    <3>1. Accounted(n) /\ opened[n] \in Nat /\ faults \in Nat /\ opened' = opened
      BY <1>2, <2>2 DEF IInv, TypeOK, UUIDs
    <3>2. n \notin Elements(seen)' => n # current /\ n \notin Elements(seen)
      BY <2>1
    <3>3. n \notin Elements(seen)' => opened[n] <= faults
      BY <1>2, <3>1, <3>2 DEF Accounted, InHand
    <3>4. CASE disk' = r /\ faults' = faults
      <4>1. Elements(disk)' = Elements(seen)'
        BY <1>4, <3>4 DEF Elements
      <4> QED
        BY <3>1, <3>3, <3>4, <4>1 DEF Accounted
    <3>5. CASE disk' = disk /\ faults' = faults + 1
      <4>1. opened'[n] <= faults'
        BY <3>1, <3>5 DEF Accounted
      <4>2. opened'[n] <= 1 + faults'
        BY <3>1, <3>5, <4>1
      <4> QED
        BY <4>1, <4>2 DEF Accounted
    <3> QED
      BY <1>4, <3>4, <3>5
  <2>3. NoDuplicates(disk)' /\ NoDuplicates(seen)'
    BY <1>1, <1>4 DEF IInv, NoDuplicates
  <2> QED
    BY <2>2, <2>3 DEF IInv
<1> QED
  BY <1>3, <1>4 DEF Record, NoFault, Fault

\* Stopping leaves what the disk knows.
LEMMA StopStep == ASSUME IInv, TypeOK', Stop PROVE IInv'
<1>1. /\ pc = "scan" /\ pc' = "down"
      /\ UNCHANGED <<disk, seen, opened, faults, current>>
  BY DEF Stop, daemon
<1> QED
  BY <1>1 DEF IInv, NoDuplicates, Accounted, InHand, Elements

LEMMA NextIInv == ASSUME Roomy PROVE IInv /\ [Next]_vars => IInv'
<1> SUFFICES ASSUME IInv, [Next]_vars PROVE IInv'
  OBVIOUS
<1>1. TypeOK'
  BY TypeStep DEF IInv
<1>2. ASSUME NEW n \in Names, WriteTmp(n) \/ Publish(n) PROVE IInv'
  BY <1>1, <1>2, Aside DEF WriteTmp, Publish, daemon
<1>3. CASE Start
  BY <1>1, <1>3, StartStep
<1>4. CASE Stop
  BY <1>1, <1>4, StopStep
<1>5. CASE Crash
  BY <1>1, <1>5, CrashStep
<1>6. CASE Scan
  BY <1>1, <1>6, Frame DEF Scan
<1>7. CASE Handle
  BY <1>1, <1>7, HandleStep
<1>8. CASE Record
  BY <1>1, <1>8, RecordStep
<1>9. CASE Remove
  BY <1>1, <1>9, Frame DEF Remove, daemon, Unlink, NoFault, Fault
<1>10. CASE EndPass
  BY <1>1, <1>10, Frame DEF EndPass, daemon
<1>11. CASE Janitor
  <2>1. faults' \in {faults, faults + 1}
    BY <1>11 DEF Janitor, NoFault, Fault
  <2> QED
    BY <1>1, <1>11, <2>1, Frame DEF Janitor
<1>12. CASE Tick
  BY <1>1, <1>12, Aside DEF Tick
<1>13. CASE UNCHANGED vars
  BY <1>1, <1>13, Aside DEF vars
<1> QED
  BY <1>2, <1>3, <1>4, <1>5, <1>6, <1>7, <1>8, <1>9, <1>10, <1>11, <1>12, <1>13
  DEF Next, Poll

THEOREM Invariance == ASSUME Roomy PROVE Spec => []IInv
<1>1. ASSUME Init PROVE IInv
  <2>1. disk = <<>> /\ seen = <<>> /\ pc = "down"
        /\ opened = [n \in Names |-> 0] /\ faults = 0
    BY <1>1 DEF Init
  <2>2. NoDuplicates(disk) /\ NoDuplicates(seen)
    BY <2>1 DEF NoDuplicates
  <2>4. \A n \in UUIDs : Accounted(n)
    BY <2>1 DEF Accounted, UUIDs
  <2>5. TypeOK
    BY <1>1, InitTyped
  <2> QED
    BY <2>2, <2>4, <2>5 DEF IInv
<1>2. IInv /\ [Next]_vars => IInv'
  BY NextIInv
<1> QED
  BY <1>1, <1>2, PTL DEF Spec

\* Repetitions of a request with a UUID are paid for by failures, whatever the number
\* of requests, deliveries, restarts and failures, while the ring has room for all.
THEOREM Reopened == ASSUME Roomy PROVE Spec => []ReopenedByFaultOnly
<1>1. IInv => ReopenedByFaultOnly
  BY DEF IInv, Accounted, ReopenedByFaultOnly
<1> QED
  BY <1>1, Invariance, PTL

-----------------------------------------------------------------------------
(* No request is lost, whatever the size of the ring.                      *)

\* What a ring knows is a UUID, and it was opened, as was what the daemon records or
\* removes.
Known ==
  /\ \A n \in Elements(disk) \cup Elements(seen) : n \in UUIDs /\ opened[n] > 0
  /\ pc \in {"record", "unlink"} => opened[current] > 0

LEMMA AddAtMost ==
  ASSUME NEW s \in Seq(Names), NEW n \in Names, NEW m \in Elements(Add(s, n))
  PROVE  m \in Elements(s) \cup {n}
<1>1. CASE n \in Elements(s)
  BY <1>1 DEF Add
<1>2. CASE n \notin Elements(s) /\ Len(s) < SeenSize
  BY <1>2 DEF Add, Elements
<1>3. CASE n \notin Elements(s) /\ ~(Len(s) < SeenSize)
  <2>1. Add(s, n) = Append(Tail(s), n)
    BY <1>3 DEF Add
  <2>2. s # <<>>
    BY <1>3, ListenerAssumption
  <2>3. /\ Tail(s) \in Seq(Names) /\ Len(Tail(s)) = Len(s) - 1
        /\ \A i \in 1 .. Len(s) - 1 : Tail(s)[i] = s[i + 1]
    BY <2>2
  <2> QED
    BY <2>1, <2>3 DEF Elements
<1> QED
  BY <1>1, <1>2, <1>3

LEMMA KnownNext == TypeOK /\ Known /\ [Next]_vars => Known'
<1> SUFFICES ASSUME TypeOK, Known, [Next]_vars PROVE Known'
  OBVIOUS
<1> USE DEF daemon
<1>1. ASSUME UNCHANGED <<disk, seen, opened, current>>,
             pc' \in {"record", "unlink"} => pc' = pc
      PROVE  Known'
  BY <1>1 DEF Known, Elements
<1>2. ASSUME NEW n \in Names, WriteTmp(n) \/ Publish(n) PROVE Known'
  BY <1>1, <1>2 DEF WriteTmp, Publish
<1>3. CASE Start
  <2>1. Elements(seen') \subseteq Elements(disk)
    BY <1>3 DEF Start, Elements
  <2> QED
    BY <1>3, <2>1 DEF Start, Known, Elements
<1>4. CASE Stop \/ Crash \/ Remove \/ EndPass
  BY <1>1, <1>4 DEF Stop, Crash, Remove, EndPass
<1>5. CASE Scan
  BY <1>5 DEF Scan, Known, Elements
<1>6. CASE Janitor \/ Tick
  BY <1>1, <1>6 DEF Janitor, Tick
<1>7. CASE Handle
  <2>1. PICK n \in todo :
          /\ current' = n
          /\ \/ UNCHANGED <<pc, opened>>
             \/ pc' = "record" /\ opened' = [opened EXCEPT ![n] = IF @ < MaxFaults + 2 THEN @ + 1 ELSE @]
    BY <1>7 DEF Handle, Refuse, Open, SpawnFails
  <2>2. pc = "handle" /\ UNCHANGED <<disk, seen>> /\ n \in Names
    BY <1>7 DEF Handle, Refuse, Open, SpawnFails, TypeOK
  <2>3. CASE UNCHANGED <<pc, opened>>
    BY <2>2, <2>3 DEF Known, Elements
  <2>4. CASE pc' = "record" /\ opened' = [opened EXCEPT ![n] = IF @ < MaxFaults + 2 THEN @ + 1 ELSE @]
    <3>0. opened \in [Names -> 0 .. MaxFaults + 2]
      BY DEF TypeOK
    <3>1. opened'[n] > 0
      BY <2>2, <2>4, <3>0, ListenerAssumption
    <3>2. \A m \in Elements(disk) \cup Elements(seen) : opened'[m] > 0
      BY <2>2, <2>4, <3>1 DEF Known, TypeOK, Elements
    <3> QED
      BY <2>1, <2>2, <3>1, <3>2 DEF Known, Elements
  <2> QED
    BY <2>1, <2>3, <2>4
<1>8. CASE Record
  <2>1. /\ pc = "record" /\ UNCHANGED <<opened, current>>
        /\ seen' = seen \/ (seen' = Add(seen, current) /\ current \in UUIDs)
        /\ disk' \in {disk, seen'}
    BY <1>8 DEF Record, UUIDs, TypeOK
  <2>2. \A m \in Elements(seen') : m \in UUIDs /\ opened[m] > 0
    BY <2>1, AddAtMost DEF Known, TypeOK
  <2>3. \A m \in Elements(disk') : m \in UUIDs /\ opened[m] > 0
    BY <2>1, <2>2 DEF Known
  <2> QED
    BY <2>1, <2>2, <2>3 DEF Known, Elements
<1>9. CASE UNCHANGED vars
  BY <1>1, <1>9 DEF vars
<1> QED
  BY <1>2, <1>3, <1>4, <1>5, <1>6, <1>7, <1>8, <1>9 DEF Next, Poll

LEMMA PollLosesNothing ==
  ASSUME TypeOK, Known, Poll, NEW n \in Names, Good(n), ~Exists(n)'
  PROVE  opened[n] > 0 \/ Stale(n) \/ faults' > faults
<1>1. incoming'[n] # incoming[n] /\ faults \in Nat
  BY DEF Good, Exists, TypeOK
<1>2. CASE Handle
  <2>1. PICK m \in todo :
          \/ (~Good(m) \/ m \in Elements(seen)) /\ Unlink(m)
          \/ UNCHANGED incoming
          \/ Fault("spawn")
    BY <1>2 DEF Handle, Refuse, Open, SpawnFails
  <2>2. CASE (~Good(m) \/ m \in Elements(seen)) /\ Unlink(m)
    <3>1. n = m
      BY <1>1, <2>2 DEF Unlink, TypeOK
    <3> QED
      BY <2>2, <3>1 DEF Known
  <2>3. CASE Fault("spawn")
    BY <1>1, <2>3 DEF Fault
  <2> QED
    BY <1>1, <2>1, <2>2, <2>3
<1>3. CASE Remove
  <2>1. n = current
    BY <1>1, <1>3 DEF Remove, Unlink, TypeOK
  <2> QED
    BY <1>3, <2>1 DEF Remove, Known
<1>4. CASE Janitor
  BY <1>1, <1>4 DEF Janitor
<1>5. CASE Scan \/ Record \/ EndPass
  BY <1>1, <1>5 DEF Scan, Record, EndPass
<1> QED
  BY <1>2, <1>3, <1>4, <1>5 DEF Poll

\* The listener never drops a good request that it has not opened, unless it is
\* stale or the spawn failed: for any ring, cap and number of failures.
THEOREM LosesNothing == Spec => NothingLost
<1>1. ASSUME Init PROVE TypeOK /\ Known
  <2>1. Elements(disk) = {} /\ Elements(seen) = {} /\ pc = "down"
    BY <1>1 DEF Init, Elements
  <2> QED
    BY <1>1, <2>1, InitTyped DEF Known
<1>2. TypeOK /\ Known /\ [Next]_vars =>
        [Poll => \A n \in Names :
           Good(n) /\ ~Exists(n)' => opened[n] > 0 \/ Stale(n) \/ faults' > faults]_vars
  BY PollLosesNothing
<1> QED
  BY <1>1, <1>2, TypeStep, KnownNext, PTL DEF Spec, NothingLost

-----------------------------------------------------------------------------
(* A ring that evicts, and names that are not UUIDs.                       *)

\* Memory and disk hold one ring, full or not.
OneRing == pc # "down" => seen = disk

LEMMA OneRingNext ==
  ASSUME {"load", "persist"} \cap FaultKinds = {}, OneRing, [Next]_vars
  PROVE  OneRing'
<1> USE DEF OneRing, daemon
<1>1. CASE Record
  BY <1>1 DEF Record, Fault
<1>2. CASE Start
  BY <1>2 DEF Start, Fault
<1>3. CASE Stop \/ Crash
  BY <1>3 DEF Stop, Crash
<1>4. CASE Scan \/ Remove \/ EndPass \/ Janitor
  BY <1>4 DEF Scan, Remove, EndPass, Janitor
<1>5. CASE Handle
  BY <1>5 DEF Handle
<1>6. CASE Tick \/ \E n \in Names : WriteTmp(n) \/ Publish(n)
  BY <1>6 DEF Tick, WriteTmp, Publish
<1>7. CASE UNCHANGED vars
  BY <1>7 DEF vars
<1> QED
  BY <1>1, <1>2, <1>3, <1>4, <1>5, <1>6, <1>7 DEF Next, Poll

\* Only Handle opens, and only what memory does not know.
LEMMA OpensUnknown ==
  ASSUME TypeOK, [Next]_vars, NEW n \in Names, opened'[n] # opened[n]
  PROVE  pc = "handle" /\ n \notin Elements(seen)
<1>1. CASE Handle
  <2>1. PICK m \in todo : Refuse(m) \/ Open(m) \/ SpawnFails(m)
    BY <1>1 DEF Handle
  <2>2. Open(m)
    BY <2>1 DEF Refuse, SpawnFails
  <2>3. m = n
    BY <2>2 DEF Open, TypeOK
  <2> QED
    BY <1>1, <2>2, <2>3 DEF Handle, Open
<1>2. CASE ~Handle
  <2>1. UNCHANGED opened
    BY <1>2 DEF Next, Poll, vars, WriteTmp, Publish, Start, Stop, Crash, Scan, Record,
       Remove, EndPass, Janitor, Tick
  <2> QED
    BY <2>1
<1> QED
  BY <1>1, <1>2

\* With a ring of any size, whatever it has evicted, and names that are no UUIDs,
\* a request that is on record is not opened again, if the ring can be read and
\* written.  (One that cannot is what Refinement counts as a failure.)
THEOREM RecordRespected ==
  ASSUME {"load", "persist"} \cap FaultKinds = {} PROVE Spec => NoneOnRecord
<1>1. Init => OneRing
  BY DEF Init, OneRing
<1>2. OneRing /\ [Next]_vars => OneRing'
  BY OneRingNext
<1>3. TypeOK /\ OneRing /\ [Next]_vars =>
        [\A n \in Names : opened'[n] # opened[n] => n \notin Elements(disk)]_vars
  <2> SUFFICES ASSUME TypeOK, OneRing, [Next]_vars, NEW n \in Names, opened'[n] # opened[n]
               PROVE  n \notin Elements(disk)
    OBVIOUS
  <2> QED
    BY OpensUnknown DEF OneRing
<1> QED
  BY <1>1, <1>2, <1>3, TypeCorrect, PTL DEF Spec, NoneOnRecord

-----------------------------------------------------------------------------
(* The listener implements Inbox: each step is a step of it or a stutter.   *)

Served == [n \in UUIDs |-> opened[n]]
mapped == <<Waiting, Late, Served, OnFile, faults>>

\* The ring is left alone, and the daemon neither starts nor ends.
LEMMA SameRecord ==
  ASSUME UNCHANGED <<disk, seen>>, pc' = "down" <=> pc = "down"
  PROVE  OnFile' = OnFile
BY DEF OnFile, Elements

\* All that is on record is a UUID that was opened.
LEMMA OnRecord ==
  ASSUME Known'
  PROVE  OnFile' \subseteq {n \in UUIDs : Served'[n] > 0}
BY DEF OnFile, Known, Served, Elements

LEMMA SameFiles ==
  ASSUME UNCHANGED incoming
  PROVE  UNCHANGED <<Waiting, Late>>
BY DEF Waiting, Late, Good, Stale, Exists

\* Files that leave the directory leave the inbox, and nothing else does.
LEMMA Emptied ==
  ASSUME NEW R,
         \A n \in Names : incoming'[n] = IF n \in R THEN NoFile ELSE incoming[n]
  PROVE  Waiting' = Waiting \ R /\ Late' = Late \ R
<1>1. \A n \in UUIDs : /\ Good(n)' <=> Good(n) /\ n \notin R
                       /\ Good(n)' => (Stale(n)' <=> Stale(n))
  BY DEF Good, Stale, Exists, UUIDs
<1> QED
  BY <1>1 DEF Waiting, Late

LEMMA UnlinkEmpties ==
  ASSUME TypeOK, NEW n \in Names, Unlink(n)
  PROVE  \/ Waiting' = Waiting \ {n} /\ Late' = Late \ {n} /\ UNCHANGED faults
         \/ UNCHANGED <<Waiting, Late>> /\ faults' = faults + 1
<1>1. CASE incoming' = [incoming EXCEPT ![n] = NoFile] /\ NoFault
  <2>1. \A m \in Names : incoming'[m] = IF m \in {n} THEN NoFile ELSE incoming[m]
    BY <1>1 DEF TypeOK
  <2> QED
    BY <1>1, <2>1, Emptied DEF NoFault
<1>2. CASE UNCHANGED incoming /\ Fault("unlink")
  BY <1>2, SameFiles DEF Fault
<1> QED
  BY <1>1, <1>2 DEF Unlink

\* A failure that takes nothing with it but what it likes of the record.
LEMMA FailsAlone ==
  ASSUME UNCHANGED <<Waiting, Late, opened>>, faults' = faults + 1, Known'
  PROVE  I!Next
<1>0. Served' = Served /\ OnFile' \subseteq {n \in UUIDs : Served[n] > 0}
  <2>1. Served' = Served
    BY DEF Served
  <2> QED
    BY <2>1, OnRecord
<1>1. I!Fail({})
  BY <1>0 DEF I!Fail, Served
<1>2. {} \in SUBSET UUIDs
  OBVIOUS
<1> QED
  BY <1>1, <1>2 DEF I!Next

\* An opened request that is unlinked, or not.
LEMMA OpenedLeaves ==
  ASSUME TypeOK, Known', NEW n \in Names, Unlink(n),
         n \in UUIDs /\ Good(n) => opened[n] > 0,
         UNCHANGED <<opened, OnFile>>
  PROVE  [I!Next]_mapped
<1>1. CASE UNCHANGED <<Waiting, Late>> /\ faults' = faults + 1
  BY <1>1, FailsAlone
<1>2. CASE Waiting' = Waiting \ {n} /\ Late' = Late \ {n} /\ UNCHANGED faults
  <2>1. CASE n \in Waiting
    <3>1. n \in UUIDs /\ Served[n] > 0
      BY <2>1 DEF Waiting, Served
    <3>2. I!Leave({n})
      BY <1>2, <2>1, <3>1 DEF I!Leave, Served
    <3> QED
      BY <3>1, <3>2 DEF I!Next
  <2>2. CASE n \notin Waiting
    BY <1>2, <2>2 DEF mapped, Late, Served
  <2> QED
    BY <2>1, <2>2
<1> QED
  BY <1>1, <1>2, UnlinkEmpties

LEMMA PublishArrives ==
  ASSUME TypeOK, NEW n \in Names, Publish(n)
  PROVE  [I!Next]_mapped
<1>0. pc' = pc /\ UNCHANGED <<disk, seen>>
  BY DEF Publish, daemon
<1>1. UNCHANGED <<Served, faults, OnFile>> /\ ~Good(n) /\ n \notin Waiting
  BY <1>0, SameRecord DEF Publish, Request, Good, Waiting, Served
<1>2. \A m \in Names : m # n => incoming'[m] = incoming[m]
  BY DEF Publish, TypeOK
<1>3. CASE Good(n)' /\ n \in UUIDs
  <2>1. Waiting' = Waiting \cup {n}
    BY <1>1, <1>2, <1>3 DEF Waiting, Good, Exists, UUIDs
  <2>2. Late' = IF Stale(n)' THEN Late \cup {n} ELSE Late
    BY <1>1, <1>2, <2>1 DEF Late, Waiting, Stale, Exists, UUIDs
  <2>3. I!Arrive(n)
    BY <1>1, <2>1, <2>2 DEF I!Arrive, Served
  <2> QED
    BY <1>3, <2>3 DEF I!Next
<1>4. CASE ~(Good(n)' /\ n \in UUIDs)
  <2>1. Waiting' = Waiting
    BY <1>1, <1>2, <1>4 DEF Waiting, Good, Exists, UUIDs
  <2>2. Late' = Late
    BY <1>1, <1>2, <2>1 DEF Late, Waiting, Stale, Exists, UUIDs
  <2> QED
    BY <1>1, <2>1, <2>2 DEF mapped
<1> QED
  BY <1>3, <1>4

LEMMA WriteTmpHidden ==
  ASSUME TypeOK, NEW n \in Names, WriteTmp(n)
  PROVE  UNCHANGED mapped
<1>1. \A m \in Names : m # n => incoming'[m] = incoming[m]
  BY DEF WriteTmp, TypeOK
<1>2. ~Good(n) /\ ~Good(n)'
  BY DEF WriteTmp, Good, TypeOK
<1>3. Waiting' = Waiting
  BY <1>1, <1>2 DEF Waiting, Good, Exists, UUIDs
<1>4. Late' = Late
  BY <1>1, <1>2, <1>3 DEF Late, Waiting, Stale, Exists, UUIDs
<1>5. OnFile' = OnFile
  BY SameRecord DEF WriteTmp, daemon
<1> QED
  BY <1>3, <1>4, <1>5 DEF mapped, WriteTmp, Served

\* The guard of a second opening: no failure, no repetition; and never one on record.
\* What is no UUID opens unseen.
LEMMA OpenServes ==
  ASSUME IInv, pc = "handle", NEW n \in Names, Open(n), UNCHANGED <<disk, seen>>
  PROVE  [I!Next]_mapped
<1>1. Good(n) /\ n \notin Elements(seen)
  BY DEF Open
<1>2. n \notin OnFile
  BY <1>1 DEF OnFile
<1>3. pc' = "record" /\ opened' = [opened EXCEPT ![n] = IF @ < MaxFaults + 2 THEN @ + 1 ELSE @]
      /\ opened \in [Names -> 0 .. MaxFaults + 2] /\ UUIDs \subseteq Names
  BY DEF Open, IInv, TypeOK, UUIDs
<1>4. UNCHANGED <<Waiting, Late, OnFile, faults>>
  BY <1>3, SameFiles, SameRecord DEF Open
<1>5. CASE n \in UUIDs
  <2>1. opened[n] <= faults /\ n \in Waiting
    BY <1>1, <1>5 DEF IInv, Accounted, InHand, Waiting
  <2>2. opened[n] < MaxFaults + 2
    BY <2>1, <1>3, ListenerAssumption DEF IInv, TypeOK
  <2>3. Served' = [Served EXCEPT ![n] = @ + 1]
    BY <1>3, <1>5, <2>2 DEF Served
  <2>4. I!Serve(n)
    BY <1>2, <1>4, <1>5, <2>1, <2>3 DEF I!Serve, Served
  <2> QED
    BY <1>5, <2>4 DEF I!Next
<1>6. CASE n \notin UUIDs
  <2>1. Served' = Served
    BY <1>3, <1>6 DEF Served
  <2> QED
    BY <1>4, <2>1 DEF mapped
<1> QED
  BY <1>5, <1>6

LEMMA SpawnFailureFails ==
  ASSUME TypeOK, Known', NEW n \in Names, SpawnFails(n), UNCHANGED OnFile
  PROVE  [I!Next]_mapped
<1>1. UNCHANGED <<opened, Served>> /\ faults' = faults + 1
  BY DEF SpawnFails, Fault, Served
<1>2. CASE UNCHANGED incoming
  BY <1>1, <1>2, SameFiles, FailsAlone
<1>3. CASE incoming' = [incoming EXCEPT ![n] = NoFile]
  <2>1. \A m \in Names : incoming'[m] = IF m \in {n} THEN NoFile ELSE incoming[m]
    BY <1>3 DEF TypeOK
  <2>2. Waiting' = Waiting \ {n} /\ Late' = Late \ {n}
    BY <2>1, Emptied
  <2>3. OnFile' \subseteq {m \in UUIDs : Served[m] > 0}
    BY <1>1, OnRecord
  <2>4. CASE n \in UUIDs
    <3>1. I!Fail({n})
      BY <1>1, <2>2, <2>3 DEF I!Fail, Served
    <3> QED
      BY <2>4, <3>1 DEF I!Next
  <2>5. CASE n \notin UUIDs
    <3>1. UNCHANGED <<Waiting, Late>>
      BY <2>2, <2>5 DEF Waiting, Late
    <3> QED
      BY <1>1, <3>1, FailsAlone
  <2> QED
    BY <2>4, <2>5
<1> QED
  BY <1>2, <1>3 DEF SpawnFails

LEMMA HandleServes ==
  ASSUME IInv, Known, Known', Handle
  PROVE  [I!Next]_mapped
<1>1. PICK n \in todo : Refuse(n) \/ Open(n) \/ SpawnFails(n)
  BY DEF Handle
<1>2. n \in Names /\ pc = "handle" /\ UNCHANGED <<disk, seen>> /\ TypeOK
  BY DEF IInv, TypeOK, Handle
<1>3. CASE Refuse(n)
  <2>1. Good(n) => opened[n] > 0
    BY <1>3 DEF Refuse, Known
  <2>2. UNCHANGED OnFile
    BY <1>2, <1>3, SameRecord DEF Refuse
  <2> QED
    BY <1>2, <1>3, <2>1, <2>2, OpenedLeaves DEF Refuse
<1>4. CASE SpawnFails(n)
  <2>1. UNCHANGED OnFile
    BY <1>2, <1>4, SameRecord DEF SpawnFails
  <2> QED
    BY <1>2, <1>4, <2>1, SpawnFailureFails
<1> QED
  BY <1>1, <1>2, <1>3, <1>4, OpenServes

\* What the ring takes up was opened, and nothing falls out.
LEMMA RecordRecords ==
  ASSUME Roomy, IInv, Known, Known', Record
  PROVE  [I!Next]_mapped
<1>1. UNCHANGED <<Waiting, Late, opened, Served>> /\ pc = "record" /\ pc' # "down"
  BY SameFiles DEF Record, Served
<1>2. CASE UNCHANGED disk /\ Fault("persist")
  BY <1>1, <1>2, FailsAlone DEF Fault
<1>3. CASE seen' = Add(seen, current) /\ disk' = seen' /\ NoFault
  <2>1. Elements(Add(seen, current)) = Elements(seen) \cup {current}
    BY AddRemembers DEF IInv, TypeOK
  <2>2. OnFile' = Elements(seen) \cup {current}
    BY <1>1, <1>3, <2>1 DEF OnFile, Elements
  <2>3. OnFile \subseteq Elements(seen)
    BY <1>1 DEF OnFile
  <2> DEFINE R == Elements(seen) \cup {current}
  <2>4. R \subseteq {n \in UUIDs : Served[n] > 0}
    BY <1>1, <2>2, OnRecord
  <2>5. OnFile' = OnFile \cup R
    BY <2>2, <2>3
  <2>6. I!Record(R)
    BY <1>1, <1>3, <2>4, <2>5 DEF I!Record, NoFault, Served
  <2> QED
    BY <2>4, <2>6 DEF I!Next
<1>4. CASE UNCHANGED <<seen, disk, faults>>
  BY <1>1, <1>4, SameRecord DEF mapped
<1> QED
  BY <1>2, <1>3, <1>4 DEF Record

\* A daemon that starts reads the ring, or fails to.
LEMMA StartReads ==
  ASSUME Known', Start
  PROVE  [I!Next]_mapped
<1>1. UNCHANGED <<Waiting, Late, opened, Served>>
  BY SameFiles DEF Start, Served
<1>2. CASE seen' = disk /\ NoFault
  <2>1. OnFile' = OnFile
    BY <1>2 DEF Start, OnFile, Elements
  <2> QED
    BY <1>1, <1>2, <2>1 DEF mapped, NoFault
<1>3. CASE Fault("load")
  BY <1>1, <1>3, FailsAlone DEF Fault
<1> QED
  BY <1>2, <1>3 DEF Start

\* A daemon that stops leaves on record all that the disk has.
LEMMA StopRecords ==
  ASSUME Known, Stop
  PROVE  [I!Next]_mapped
<1>1. UNCHANGED <<Waiting, Late, opened, Served, faults>>
  BY SameFiles DEF Stop, Served
<1>2. OnFile \subseteq Elements(disk) /\ OnFile' = Elements(disk)
  BY DEF Stop, OnFile, Elements
<1>3. Elements(disk) \subseteq {n \in UUIDs : Served[n] > 0}
  BY DEF Known, Served
<1>4. I!Record(Elements(disk))
  BY <1>1, <1>2, <1>3 DEF I!Record, Served
<1> QED
  BY <1>3, <1>4 DEF I!Next

LEMMA JanitorLets ==
  ASSUME TypeOK, Janitor
  PROVE  [I!Next]_mapped
<1>1. UNCHANGED <<opened, Served, OnFile>>
  BY SameRecord DEF Janitor, Served
<1>2. CASE UNCHANGED <<incoming, faults>>
  BY <1>1, <1>2, SameFiles DEF mapped
<1>3. ASSUME NEW gone \in SUBSET {n \in Names : Stale(n)},
             incoming' = [n \in Names |-> IF n \in gone THEN NoFile ELSE incoming[n]],
             NoFault \/ Fault("unlink")
      PROVE  [I!Next]_mapped
  <2> DEFINE R == {n \in gone : Good(n) /\ n \in UUIDs}
  <2>1. Waiting' = Waiting \ gone /\ Late' = Late \ gone
    BY <1>3, Emptied
  <2>2. Waiting' = Waiting \ R /\ Late' = Late \ R
    BY <2>1 DEF Waiting, Late
  <2>3. R \subseteq Late /\ R \in SUBSET UUIDs
    BY <1>3 DEF Late, Waiting
  <2>4. faults' \in {faults, faults + 1}
    BY <1>3 DEF NoFault, Fault
  <2>5. I!Leave(R)
    BY <1>1, <2>2, <2>3, <2>4 DEF I!Leave, Served
  <2> QED
    BY <2>3, <2>5 DEF I!Next
<1> QED
  BY <1>2, <1>3 DEF Janitor

LEMMA TickGrows ==
  ASSUME TypeOK, Tick
  PROVE  [I!Next]_mapped
<1>1. UNCHANGED <<Served, faults, OnFile>>
  BY SameRecord DEF Tick, Served
<1>2. ASSUME NEW n \in Names
      PROVE  /\ Good(n)' <=> Good(n)
             /\ Stale(n) => Stale(n)'
  <2>1. CASE Exists(n) /\ ~Stale(n)
    <3>1. incoming[n] \in File /\ incoming'[n] = [incoming[n] EXCEPT !.age = @ + 1]
      BY <2>1 DEF Tick, TypeOK, Exists
    <3>2. incoming'[n].kind = incoming[n].kind /\ incoming'[n] \in File
      BY <2>1, <3>1, FileAges DEF Stale, File
    <3>3. \A f \in File : f # NoFile
      BY DEF File, NoFile
    <3> QED
      BY <2>1, <3>2, <3>3 DEF Good, Exists
  <2>2. CASE ~(Exists(n) /\ ~Stale(n))
    BY <2>2 DEF Tick, Good, Stale, Exists
  <2> QED
    BY <2>1, <2>2
<1>3. Waiting' = Waiting
  BY <1>2 DEF Waiting, UUIDs
<1>4. Late \subseteq Late' /\ Late' \subseteq Waiting
  BY <1>2, <1>3 DEF Late, Waiting, UUIDs
<1>5. I!GrowLate
  BY <1>1, <1>3, <1>4 DEF I!GrowLate, Served
<1> QED
  BY <1>5 DEF I!Next

LEMMA StepMaps ==
  ASSUME Roomy, IInv, Known, Known', [Next]_vars
  PROVE  [I!Next]_mapped
<1> USE DEF daemon
<1>0. TypeOK
  BY DEF IInv
<1>1. ASSUME UNCHANGED <<incoming, opened, faults, disk, seen>>, pc' = "down" <=> pc = "down"
      PROVE  [I!Next]_mapped
  BY <1>1, SameFiles, SameRecord DEF mapped, Served
<1>2. ASSUME NEW n \in Names, WriteTmp(n) \/ Publish(n) PROVE [I!Next]_mapped
  BY <1>0, <1>2, WriteTmpHidden, PublishArrives
<1>3. CASE Start \/ Stop \/ Crash \/ Scan \/ EndPass
  <2>1. CASE Crash
    BY <2>1, SameFiles, FailsAlone DEF Crash, Fault
  <2>2. CASE Scan \/ EndPass
    BY <1>1, <2>2 DEF Scan, EndPass
  <2> QED
    BY <1>3, <2>1, <2>2, StartReads, StopRecords
<1>4. CASE Handle
  BY <1>4, HandleServes
<1>5. CASE Record
  BY <1>5, RecordRecords
<1>6. CASE Remove
  <2>1. Unlink(current) /\ current \in Names /\ opened[current] > 0
        /\ UNCHANGED <<opened, OnFile>>
    BY <1>0, <1>6, SameRecord DEF Remove, Known, TypeOK
  <2> QED
    BY <1>0, <2>1, OpenedLeaves
<1>7. CASE Janitor
  BY <1>0, <1>7, JanitorLets
<1>8. CASE Tick
  BY <1>0, <1>8, TickGrows
<1>9. CASE UNCHANGED vars
  BY <1>1, <1>9 DEF vars
<1> QED
  BY <1>2, <1>3, <1>4, <1>5, <1>6, <1>7, <1>8, <1>9 DEF Next, Poll

\* The listener implements Inbox, for any number of names, any cap, age and number of
\* failures, crashes and restarts, if the ring has room for every name: what a ring
\* that cannot be read makes the daemon open again is a failure's price, too.
THEOREM Refinement == ASSUME Roomy PROVE Spec => RefinesInbox
<1>1. ASSUME Init PROVE I!Init /\ Known
  <2>1. Waiting = {} /\ Late = {}
    BY <1>1 DEF Init, Waiting, Late, Good, Exists, UUIDs
  <2>2. Elements(disk) = {} /\ Elements(seen) = {} /\ pc = "down"
    BY <1>1 DEF Init, Elements
  <2> QED
    <3>1. /\ Served = [n \in UUIDs |-> 0]
          /\ faults = 0 /\ OnFile = {}
      BY <1>1, <2>2 DEF Init, Served, UUIDs, OnFile
    <3>2. Known
      BY <2>2 DEF Known
    <3> QED
      BY <2>1, <3>1, <3>2 DEF I!Init, Served
<1>2. IInv /\ Known /\ [Next]_vars => Known'
  BY KnownNext DEF IInv
<1>3. IInv /\ Known /\ Known' /\ [Next]_vars => [I!Next]_(I!inbox)
  BY StepMaps DEF mapped, I!inbox, Served
<1> QED
  BY <1>1, <1>2, <1>3, Invariance, PTL DEF Spec, RefinesInbox, I!Spec
=============================================================================
