------------------------------ MODULE EventLog ------------------------------
(***************************************************************************)
(* What the audit log promises, with no files, system calls, restarts or   *)
(* kills: events are appended in the order in which they came, an event is *)
(* acknowledged exactly when it was recorded whole, and what is recorded   *)
(* changes in one other way only, by losing the oldest events.             *)
(***************************************************************************)
EXTENDS Integers

CONSTANTS
  MaxEvents,
  KeepsNewest   \* whether something always remains when events are lost

VARIABLES
  recorded,     \* the events, each whole or in part
  latest,       \* the number of the last event that came
  acknowledged  \* the events of which the caller was told that they are recorded

vars == <<recorded, latest, acknowledged>>

Init == recorded = {} /\ latest = 0 /\ acknowledged = {}

\* An event comes.  It may never be recorded.
Come ==
  /\ latest < MaxEvents
  /\ latest' = latest + 1
  /\ UNCHANGED <<recorded, acknowledged>>

\* The last event is recorded, once, after all that are there.
Record(whole) ==
  /\ \A e \in recorded : e.id < latest
  /\ recorded' = recorded \cup {[id |-> latest, whole |-> whole]}
  /\ acknowledged' = IF whole THEN acknowledged \cup {latest} ELSE acknowledged
  /\ UNCHANGED latest

\* The oldest events are lost.
Lose(oldest) ==
  /\ \A old \in oldest, e \in recorded \ oldest : old.id < e.id
  /\ KeepsNewest => oldest # recorded
  /\ recorded' = recorded \ oldest
  /\ UNCHANGED <<latest, acknowledged>>

Next ==
  \/ Come
  \/ \E whole \in BOOLEAN : Record(whole)
  \/ \E oldest \in SUBSET recorded : Lose(oldest)

Spec == Init /\ [][Next]_vars

=============================================================================
