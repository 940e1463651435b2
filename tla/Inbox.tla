------------------------------- MODULE Inbox -------------------------------
(***************************************************************************)
(* What the reverse-open listener promises, without files, passes, rings   *)
(* or restarts: requests wait until they are served; one is served again   *)
(* only at the expense of a failure, and never while it is on record,      *)
(* which only a failure can take back; and one leaves unserved only        *)
(* because it is late or because of a failure.                             *)
(***************************************************************************)
EXTENDS Naturals

CONSTANT Name   \* of requests

VARIABLES
  waiting,   \* the requests that wait
  late,      \* those of them that have waited too long
  served,    \* how often each request was served
  record,    \* the requests on record as served
  failures   \* failures so far

inbox == <<waiting, late, served, record, failures>>

Init ==
  /\ waiting = {} /\ late = {}
  /\ served = [r \in Name |-> 0]
  /\ record = {}
  /\ failures = 0

\* A request arrives, for the first time or again; it may have been long on its way.
Arrive(r) ==
  /\ waiting' = waiting \cup {r}
  /\ late' \in {late, late \cup {r}}
  /\ UNCHANGED <<served, record, failures>>

GrowLate ==
  /\ late \subseteq late' /\ late' \subseteq waiting
  /\ UNCHANGED <<waiting, served, record, failures>>

Serve(r) ==
  /\ r \in waiting \ record
  /\ served[r] <= failures
  /\ served' = [served EXCEPT ![r] = @ + 1]
  /\ UNCHANGED <<waiting, late, record, failures>>

\* The record grows, by requests that were served.
Record(R) ==
  /\ \A r \in R : served[r] > 0
  /\ record' = record \cup R
  /\ UNCHANGED <<waiting, late, served, failures>>

\* Requests leave: a served one, or late ones, some of which a failure may keep.
Leave(R) ==
  /\ waiting' = waiting \ R /\ late' = late \ R
  /\ \/ (\E r \in waiting : R = {r} /\ served[r] > 0) /\ UNCHANGED failures
     \/ R \subseteq late /\ failures' \in {failures, failures + 1}
  /\ UNCHANGED <<served, record>>

\* A failure takes at most one request with it, and may cost all or some of the record
\* or bring back what an earlier one has cost.
Fail(R) ==
  /\ failures' = failures + 1
  /\ \A r, s \in R : r = s
  /\ waiting' = waiting \ R /\ late' = late \ R
  /\ record' \subseteq {r \in Name : served[r] > 0}
  /\ UNCHANGED served

Next ==
  \/ \E r \in Name : Arrive(r) \/ Serve(r)
  \/ \E R \in SUBSET Name : Record(R) \/ Leave(R) \/ Fail(R)
  \/ GrowLate

Spec == Init /\ [][Next]_inbox
=============================================================================
