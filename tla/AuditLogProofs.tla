--------------------------- MODULE AuditLogProofs ---------------------------
(***************************************************************************)
(* What a rotation, a failed system call or the end of the process leaves  *)
(* behind, for any sizes of events and files and any number of backups.    *)
(*                                                                         *)
(* The order of the files is not inductive as it stands.  A renamed file   *)
(* must not replace one that is still there, so the place a backup goes to *)
(* is known to be free (ShiftInv); the event being logged is newer than    *)
(* what the files hold (NumberedInv); and the audit file is rotated only   *)
(* when there is something in it, so that the oldest backup can go         *)
(* (RotationInv).  The same facts make every step one of an event log, or  *)
(* none (NextEvents).                                                      *)
(***************************************************************************)
EXTENDS AuditLog, TLAPS

\* An open file is there, and without rotation it stays open between start and end.
HandleInv ==
  /\ handle = "open" => disk[0] # None
  /\ MaxBytes = 0 => at \in {"down", "idle", "write"} /\ (at # "down" => handle = "open")

\* The events are numbered as they are logged.
NumberedInv ==
  /\ \A k \in Files : \A i \in DOMAIN Held(k) :
       /\ Held(k)[i].id <= event.id
       /\ at \notin {"down", "idle"} => Held(k)[i].id < event.id
  /\ at \notin {"down", "idle"} =>
       /\ event.id > 0
       /\ event.size \in Sizes
       /\ \A id \in acknowledged : id < event.id

\* The place the next backup goes to is free.
ShiftInv == at = "shift" => index + 1 \in Files /\ disk[index + 1] = None

\* A rotation takes place when the event does not fit, and then makes room for it.
RotationInv ==
  /\ \A k \in Files : disk[k] # None /\ Len(Held(k)) = 0 => disk[k].size = 0
  /\ (\A size \in Sizes : size <= MaxBytes) /\ at \in {"sync", "close", "remove"} =>
       Len(Held(0)) > 0
  /\ at = "open" => disk[0] = None
  /\ at = "chmod" => Len(Held(0)) = 0
  /\ at = "write" /\ MaxBytes > 0 =>
       Len(Held(0)) = 0 \/ disk[0].size + event.size <= MaxBytes

AuditInv ==
  /\ TypeOK /\ HandleInv /\ NumberedInv /\ ShiftInv /\ RotationInv
  /\ OldestGoFirst /\ NewestKept /\ SizeBounded

Event == [id : 1 .. MaxEvents, whole : BOOLEAN]

LEMMA HeldType ==
  ASSUME TypeOK
  PROVE  \A k \in Files : Held(k) \in Seq(Event)
<1>1. <<>> \in Seq(Event)
  OBVIOUS
<1>2. QED
  BY <1>1 DEF TypeOK, File, Event, Held

LEMMA EventNumber ==
  ASSUME TypeOK
  PROVE  \A k \in Files : \A i \in DOMAIN Held(k) : i \in Nat /\ Held(k)[i].id \in Nat
<1> SUFFICES ASSUME NEW k \in Files, NEW i \in DOMAIN Held(k)
             PROVE  i \in Nat /\ Held(k)[i].id \in Nat
  OBVIOUS
<1>1. Held(k) \in Seq(Event)
  BY HeldType
<1>2. i \in Nat /\ Held(k)[i] \in Event
  BY <1>1
<1>3. QED
  BY <1>2, AuditAssumption DEF Event

-----------------------------------------------------------------------------
(* What happens to the files, whichever call does it. *)

\* Nothing moves.
LEMMA SameEvents ==
  ASSUME AuditInv, \A k \in Files : Held(k)' = Held(k), UNCHANGED acknowledged
  PROVE  OldestGoFirst' /\ NewestKept'
<1>1. \A id : Retained(id)' <=> Retained(id)
  BY DEF Retained
<1>2. OldestGoFirst'
  BY <1>1 DEF AuditInv, OldestGoFirst
<1>3. NewestKept'
  BY <1>1 DEF AuditInv, NewestKept
<1>4. QED
  BY <1>2, <1>3

LEMMA SameRecords ==
  ASSUME \A k \in Files : Held(k)' = Held(k)
  PROVE  Recorded' = Recorded
BY DEF Recorded

\* The audit file is opened, and created if it is not there.
LEMMA FileOpened ==
  ASSUME AuditInv, disk' = Opened, UNCHANGED acknowledged
  PROVE  /\ disk' \in [Files -> File \cup {None}]
         /\ disk'[0] # None
         /\ disk[0] = None => Len(Held(0)') = 0
         /\ \A k \in Files : Held(k)' = Held(k)
         /\ \A k \in Files : disk[k] # None => disk'[k] = disk[k]
         /\ \A k \in Files : disk'[k] # None /\ disk[k] = None =>
              disk'[k].size = 0 /\ Len(Held(k)') = 0
         /\ OldestGoFirst' /\ NewestKept' /\ SizeBounded'
<1>1. 0 \in Files
  BY AuditAssumption DEF Files
<1>2. EmptyFile \in File /\ EmptyFile.size = 0 /\ EmptyFile.events = <<>>
  <2>1. <<>> \in Seq(Event)
    OBVIOUS
  <2>2. QED
    BY <2>1 DEF EmptyFile, File, Event
<1>3. EmptyFile # None
  BY <1>2, AuditAssumption
<1>4. disk \in [Files -> File \cup {None}]
  BY DEF AuditInv, TypeOK
<1>5. /\ disk'[0] = IF disk[0] = None THEN EmptyFile ELSE disk[0]
      /\ \A k \in Files \ {0} : disk'[k] = disk[k]
      /\ disk' \in [Files -> File \cup {None}]
  BY <1>1, <1>2, <1>4 DEF Opened
<1>6. disk'[0] # None
  BY <1>3, <1>5
<1>7. \A k \in Files : disk[k] # None => disk'[k] = disk[k]
  BY <1>5
<1>8. \A k \in Files : disk'[k] # None /\ disk[k] = None => disk'[k] = EmptyFile
  BY <1>5
<1>9. \A k \in Files : Held(k)' = Held(k)
  <2> SUFFICES ASSUME NEW k \in Files
               PROVE  Held(k)' = Held(k)
    OBVIOUS
  <2>1. CASE disk[k] # None
    BY <2>1, <1>7 DEF Held
  <2>2. CASE disk[k] = None
    BY <2>2, <1>2, <1>8 DEF Held
  <2>3. QED
    BY <2>1, <2>2
<1>10. \A k \in Files : disk[k] = None => Len(Held(k)) = 0
  <2>1. Len(<<>>) = 0
    OBVIOUS
  <2>2. QED
    BY <2>1 DEF Held
<1>11. SizeBounded'
  <2> SUFFICES ASSUME MaxBytes > 0, NEW k \in Files, disk'[k] # None
               PROVE  Len(Held(k)') <= 1 \/ disk'[k].size <= MaxBytes
    BY DEF SizeBounded
  <2>1. CASE disk[k] # None
    BY <2>1, <1>7, <1>9 DEF AuditInv, SizeBounded
  <2>2. CASE disk[k] = None
    BY <2>2, <1>9, <1>10
  <2>3. QED
    BY <2>1, <2>2
<1>12. QED
  BY <1>1, <1>2, <1>5, <1>6, <1>7, <1>8, <1>9, <1>10, <1>11, SameEvents

\* An event is appended to the audit file, or a part of it.
LEMMA EventWritten ==
  ASSUME AuditInv, at = "write", NEW bytes \in Nat \ {0}, bytes <= event.size,
         disk' = Written(bytes), event' = event,
         \/ bytes = event.size /\ acknowledged' = acknowledged \cup {event.id}
         \/ acknowledged' = acknowledged
  PROVE  /\ disk' \in [Files -> File \cup {None}]
         /\ disk'[0] # None
         /\ \A k \in Files : \A i \in DOMAIN Held(k)' : Held(k)'[i].id <= event.id
         /\ \A k \in Files : disk'[k] # None /\ Len(Held(k)') = 0 => disk'[k].size = 0
         /\ OldestGoFirst' /\ NewestKept' /\ SizeBounded'
         /\ Recorded' = Recorded \cup {[id |-> event.id, whole |-> bytes = event.size]}
<1> DEFINE new == [id |-> event.id, whole |-> bytes = event.size]
<1>1. 0 \in Files
  BY AuditAssumption DEF Files
<1>2. new \in Event
  <2>1. event.id \in 1 .. MaxEvents
    BY AuditAssumption DEF AuditInv, TypeOK, NumberedInv
  <2>2. QED
    BY <2>1 DEF Event
<1>3. new.id = event.id /\ (bytes = event.size => new = [id |-> event.id, whole |-> TRUE])
  OBVIOUS
<1>4. disk[0] # None /\ disk[0] \in File /\ Held(0) = disk[0].events
  BY <1>1 DEF AuditInv, TypeOK, Held
<1>5. disk' = [disk EXCEPT ![0] = [size |-> disk[0].size + bytes, events |-> Append(Held(0), new)]]
  BY <1>4 DEF Written
<1> HIDE DEF new
<1>6. PICK held \in Seq(Event) : held = Held(0)
  BY <1>1, HeldType DEF AuditInv
<1>7. /\ Append(held, new) \in Seq(Event)
      /\ DOMAIN Append(held, new) = DOMAIN held \cup {Len(held) + 1}
      /\ \A i \in DOMAIN held : i \in Nat /\ i < Len(held) + 1
      /\ \A i \in DOMAIN held : Append(held, new)[i] = held[i]
      /\ Append(held, new)[Len(held) + 1] = new
      /\ Len(Append(held, new)) = Len(held) + 1
      /\ Len(held) \in Nat
  BY <1>2
<1>8. disk[0].size \in Nat
  BY <1>4 DEF File
<1>9. PICK file \in File : /\ file = [size |-> disk[0].size + bytes, events |-> Append(held, new)]
                           /\ file.size = disk[0].size + bytes
                           /\ file.events = Append(held, new)
  <2>1. [size |-> disk[0].size + bytes, events |-> Append(held, new)] \in File
    BY <1>7, <1>8 DEF File, Event
  <2>2. QED
    BY <2>1
<1>10. /\ disk'[0] = file
       /\ \A k \in Files \ {0} : disk'[k] = disk[k]
       /\ disk' \in [Files -> File \cup {None}]
  BY <1>1, <1>5, <1>6, <1>9 DEF AuditInv, TypeOK
<1>11. disk'[0] # None
  BY <1>10, AuditAssumption
<1>12. /\ Held(0)' = Append(held, new)
       /\ \A k \in Files \ {0} : Held(k)' = Held(k)
  BY <1>9, <1>10, <1>11 DEF Held
<1>13. \A k \in Files : \A i \in DOMAIN Held(k) : Held(k)[i].id < event.id
  BY DEF AuditInv, NumberedInv
<1>14. event.id \in Nat /\ \A id \in acknowledged : id \in Nat /\ id < event.id
  BY DEF AuditInv, TypeOK, NumberedInv
<1>15. \A k \in Files : \A i \in DOMAIN Held(k) : i \in Nat /\ Held(k)[i].id \in Nat
  BY EventNumber DEF AuditInv
\* Every event is an old one, in its place, or the new one, at the end of the file.
<1>16. \A k \in Files : \A i \in DOMAIN Held(k)' :
         \/ i \in DOMAIN Held(k) /\ Held(k)'[i] = Held(k)[i]
         \/ k = 0 /\ i = Len(held) + 1 /\ Held(k)'[i] = new
  BY <1>6, <1>7, <1>12
<1>17. \A k \in Files : \A i \in DOMAIN Held(k) :
         i \in DOMAIN Held(k)' /\ Held(k)'[i] = Held(k)[i]
  BY <1>6, <1>7, <1>12
<1>18. \A k \in Files : \A i \in DOMAIN Held(k)' : Held(k)'[i].id <= event.id
  BY <1>3, <1>13, <1>14, <1>15, <1>16
<1>19. \A k, l \in Files : k <= l =>
         \A i \in DOMAIN Held(k)', j \in DOMAIN Held(l)' :
           k < l \/ j < i => Held(l)'[j].id < Held(k)'[i].id
  <2> SUFFICES ASSUME NEW k \in Files, NEW l \in Files, k <= l,
                      NEW i \in DOMAIN Held(k)', NEW j \in DOMAIN Held(l)', k < l \/ j < i
               PROVE  Held(l)'[j].id < Held(k)'[i].id
    OBVIOUS
  <2>1. j \in DOMAIN Held(l) /\ Held(l)'[j] = Held(l)[j]
    <3> SUFFICES ASSUME l = 0, j = Len(held) + 1
                 PROVE  FALSE
      BY <1>16
    <3>1. k = 0 /\ j < i
      BY DEF Files
    <3>2. i \in DOMAIN held \/ i = Len(held) + 1
      BY <3>1, <1>7, <1>12
    <3>3. QED
      BY <3>1, <3>2, <1>7
  <2>2. CASE i \in DOMAIN Held(k) /\ Held(k)'[i] = Held(k)[i]
    BY <2>1, <2>2 DEF AuditInv, OldestGoFirst
  <2>3. CASE Held(k)'[i] = new
    BY <2>1, <2>3, <1>3, <1>13
  <2>4. QED
    BY <2>2, <2>3, <1>16
<1>20. \A id : Retained(id) => Retained(id)'
  BY <1>17 DEF Retained
<1>21. \A id : Retained(id)' /\ id # event.id => Retained(id)
  <2> SUFFICES ASSUME NEW id, Retained(id)', id # event.id
               PROVE  Retained(id)
    OBVIOUS
  <2>1. PICK k \in Files : \E i \in DOMAIN Held(k)' : Held(k)'[i] = [id |-> id, whole |-> TRUE]
    BY DEF Retained
  <2>2. PICK i \in DOMAIN Held(k)' : Held(k)'[i] = [id |-> id, whole |-> TRUE]
    BY <2>1
  <2>3. Held(k)'[i].id = id
    BY <2>2
  <2>4. i \in DOMAIN Held(k) /\ Held(k)'[i] = Held(k)[i]
    BY <2>3, <1>3, <1>16
  <2>5. QED
    BY <2>2, <2>4 DEF Retained
<1>22. \A id : id = event.id /\ bytes = event.size => Retained(id)'
  <2> SUFFICES ASSUME NEW id, id = event.id, bytes = event.size
               PROVE  Retained(id)'
    OBVIOUS
  <2>1. /\ Len(held) + 1 \in DOMAIN Held(0)'
        /\ Held(0)'[Len(held) + 1] = [id |-> id, whole |-> TRUE]
    BY <1>3, <1>7, <1>12
  <2>2. QED
    BY <2>1, <1>1 DEF Retained
<1>23. \A i, j \in acknowledged' : i < j /\ Retained(i)' => Retained(j)'
  <2> SUFFICES ASSUME NEW i \in acknowledged', NEW j \in acknowledged', i < j, Retained(i)'
               PROVE  Retained(j)'
    OBVIOUS
  <2>1. CASE j \in acknowledged
    <3>1. i \in acknowledged /\ i # event.id
      BY <2>1, <1>14
    <3>2. QED
      BY <2>1, <3>1, <1>20, <1>21 DEF AuditInv, OldestGoFirst
  <2>2. CASE j \notin acknowledged
    BY <2>2, <1>22
  <2>3. QED
    BY <2>1, <2>2
<1>24. OldestGoFirst'
  BY <1>19, <1>23 DEF OldestGoFirst
<1>25. NewestKept'
  <2> SUFFICES ASSUME MaxBackups > 0, \A size \in Sizes : size <= MaxBytes,
                      NEW id \in acknowledged'
               PROVE  Retained(id)' \/ \E k \in Files : \E i \in DOMAIN Held(k)' : Held(k)'[i].id > id
    BY DEF NewestKept, KeepsNewest
  <2>1. CASE id \in acknowledged
    BY <2>1, <1>17, <1>20 DEF AuditInv, NewestKept, KeepsNewest
  <2>2. CASE id \notin acknowledged
    BY <2>2, <1>22
  <2>3. QED
    BY <2>1, <2>2
<1>26. SizeBounded'
  <2> SUFFICES ASSUME MaxBytes > 0, NEW k \in Files, disk'[k] # None
               PROVE  Len(Held(k)') <= 1 \/ disk'[k].size <= MaxBytes
    BY DEF SizeBounded
  <2>1. CASE k = 0
    <3>1. Len(held) = 0 \/ disk[0].size + event.size <= MaxBytes
      BY <1>6 DEF AuditInv, RotationInv
    <3>2. event.size \in Nat
      BY AuditAssumption DEF AuditInv, NumberedInv
    <3>3. CASE Len(held) = 0
      <4>1. Len(Append(held, new)) = 1
        BY <3>3, <1>7
      <4>2. Held(k)' = Append(held, new)
        BY <2>1, <1>12
      <4>3. QED
        BY <4>1, <4>2
    <3>4. CASE disk[0].size + event.size <= MaxBytes
      BY <2>1, <3>2, <3>4, <1>8, <1>9, <1>10, AuditAssumption
    <3>5. QED
      BY <3>1, <3>3, <3>4
  <2>2. CASE k # 0
    BY <2>2, <1>10, <1>12 DEF AuditInv, SizeBounded
  <2>3. QED
    BY <2>1, <2>2
<1>27. \A k \in Files : disk'[k] # None /\ Len(Held(k)') = 0 => disk'[k].size = 0
  BY <1>7, <1>10, <1>12 DEF AuditInv, RotationInv
<1>28. Recorded' = Recorded \cup {new}
  <2>1. new \in Recorded'
    BY <1>1, <1>7, <1>12 DEF Recorded
  <2>2. Recorded \subseteq Recorded'
    BY <1>17 DEF Recorded
  <2>3. Recorded' \subseteq Recorded \cup {new}
    BY <1>16 DEF Recorded
  <2>4. QED
    BY <2>1, <2>2, <2>3
<1>29. new = [id |-> event.id, whole |-> bytes = event.size]
  BY DEF new
<1>30. QED
  BY <1>10, <1>11, <1>18, <1>24, <1>25, <1>26, <1>27, <1>28, <1>29

-----------------------------------------------------------------------------
(* The steps. *)

LEMMA AuditInitially == Init => AuditInv
<1> SUFFICES ASSUME Init
             PROVE  AuditInv
  OBVIOUS
<1>1. \A k \in Files : disk[k] = None /\ Held(k) = <<>>
  BY DEF Init, Held
<1>2. DOMAIN <<>> = {}
  OBVIOUS
<1>3. TypeOK
  BY AuditAssumption DEF Init, TypeOK
<1>4. NumberedInv /\ OldestGoFirst
  BY <1>1, <1>2 DEF Init, NumberedInv, OldestGoFirst
<1>5. HandleInv /\ ShiftInv /\ RotationInv /\ NewestKept /\ SizeBounded
  BY <1>1 DEF Init, HandleInv, ShiftInv, RotationInv, NewestKept, SizeBounded
<1>6. QED
  BY <1>3, <1>4, <1>5 DEF AuditInv

LEMMA OldestRemoved ==
  ASSUME AuditInv, RemoveOldest
  PROVE  AuditInv' /\ Events!Next
<1>1. MaxBackups \in Files /\ 0 \in Files /\ MaxBackups \in Nat /\ DOMAIN <<>> = {}
  BY AuditAssumption DEF Files
<1>2. /\ disk' \in [Files -> File \cup {None}]
      /\ disk'[MaxBackups] = None
      /\ \A k \in Files \ {MaxBackups} : disk'[k] = disk[k]
  BY <1>1 DEF AuditInv, TypeOK, RemoveOldest
<1>3. /\ Held(MaxBackups)' = <<>>
      /\ \A k \in Files \ {MaxBackups} : Held(k)' = Held(k)
  BY <1>2 DEF Held
<1>4. acknowledged' = acknowledged /\ at = "remove" /\ at' \in {"open", "shift"}
  BY DEF RemoveOldest
<1>5. TypeOK'
  BY <1>1, <1>2 DEF AuditInv, TypeOK, RemoveOldest
<1>6. HandleInv'
  BY DEF AuditInv, TypeOK, HandleInv, RemoveOldest
<1>7. NumberedInv'
  BY <1>1, <1>3 DEF AuditInv, NumberedInv, RemoveOldest
<1>8. ShiftInv'
  BY <1>1, <1>2 DEF ShiftInv, RemoveOldest, Files
<1>9. RotationInv'
  <2>1. \A k \in Files : disk'[k] # None /\ Len(Held(k)') = 0 => disk'[k].size = 0
    BY <1>2, <1>3 DEF AuditInv, RotationInv
  <2>2. at' = "open" => disk'[0] = None
    BY <1>2 DEF RemoveOldest
  <2>3. QED
    BY <2>1, <2>2, <1>4 DEF RotationInv
<1>10. \A k, l \in Files : k <= l =>
         \A i \in DOMAIN Held(k)', j \in DOMAIN Held(l)' :
           k < l \/ j < i => Held(l)'[j].id < Held(k)'[i].id
  BY <1>1, <1>3 DEF AuditInv, OldestGoFirst
\* What is in the oldest backup is older than what is elsewhere.
<1>11. \A k \in Files \ {MaxBackups} : \A i \in DOMAIN Held(k), j \in DOMAIN Held(MaxBackups) :
         Held(MaxBackups)[j].id < Held(k)[i].id
  BY <1>1 DEF AuditInv, OldestGoFirst, Files
<1>12. \A k \in Files : \A i \in DOMAIN Held(k) : i \in Nat /\ Held(k)[i].id \in Nat
  BY EventNumber DEF AuditInv
<1>13. ASSUME NEW i \in acknowledged, NEW j \in acknowledged, i < j, Retained(i)'
       PROVE  Retained(j)'
  <2>1. PICK k \in Files : \E n \in DOMAIN Held(k)' : Held(k)'[n] = [id |-> i, whole |-> TRUE]
    BY <1>13 DEF Retained
  <2>2. PICK n \in DOMAIN Held(k) : k # MaxBackups /\ Held(k)[n] = [id |-> i, whole |-> TRUE]
    BY <2>1, <1>1, <1>3
  <2>3. Retained(j)
    BY <2>2, <1>13 DEF AuditInv, OldestGoFirst, Retained
  <2>4. PICK l \in Files : \E m \in DOMAIN Held(l) : Held(l)[m] = [id |-> j, whole |-> TRUE]
    BY <2>3 DEF Retained
  <2>5. PICK m \in DOMAIN Held(l) : Held(l)[m] = [id |-> j, whole |-> TRUE]
    BY <2>4
  <2>6. Held(k)[n].id = i /\ Held(l)[m].id = j
    BY <2>2, <2>5
  <2>7. l # MaxBackups
    BY <2>2, <2>6, <1>11, <1>12, <1>13
  <2>8. QED
    BY <2>4, <2>7, <1>3 DEF Retained
<1>14. OldestGoFirst'
  BY <1>4, <1>10, <1>13 DEF OldestGoFirst
<1>15. NewestKept'
  <2> SUFFICES ASSUME MaxBackups > 0, \A size \in Sizes : size <= MaxBytes,
                      NEW id \in acknowledged
               PROVE  Retained(id)' \/ \E k \in Files : \E i \in DOMAIN Held(k)' : Held(k)'[i].id > id
    BY <1>4 DEF NewestKept, KeepsNewest
  <2>0. id \in Nat
    BY DEF AuditInv, TypeOK
  <2>1. Held(0) \in Seq(Event) /\ Len(Held(0)) > 0 /\ 0 # MaxBackups
    BY <1>1, <1>4, HeldType DEF AuditInv, RotationInv
  <2>2. 1 \in DOMAIN Held(0) /\ 1 \in DOMAIN Held(0)' /\ Held(0)'[1] = Held(0)[1]
    BY <2>1, <1>1, <1>3
  \* The event, or a later one, is found.
  <2>k. PICK k \in Files : \E i \in DOMAIN Held(k) :
          Held(k)[i] = [id |-> id, whole |-> TRUE] \/ Held(k)[i].id > id
    BY DEF AuditInv, NewestKept, KeepsNewest, Retained
  <2>3. PICK i \in DOMAIN Held(k) :
          Held(k)[i] = [id |-> id, whole |-> TRUE] \/ Held(k)[i].id > id
    BY <2>k
  <2>4. Held(k)[i].id >= id
    <3>1. CASE Held(k)[i] = [id |-> id, whole |-> TRUE]
      BY <3>1, <2>0
    <3>2. CASE Held(k)[i].id > id
      BY <3>2, <2>0, <1>12
    <3>3. QED
      BY <2>3, <3>1, <3>2
  <2>5. CASE k # MaxBackups
    BY <2>3, <2>5, <1>3 DEF Retained
  <2>6. CASE k = MaxBackups
    <3>1. Held(k)[i].id < Held(0)[1].id
      BY <2>1, <2>2, <2>6, <1>1, <1>11
    <3>2. Held(0)'[1].id > id
      BY <3>1, <2>0, <2>2, <2>4, <1>1, <1>12
    <3>3. QED
      BY <3>2, <2>2, <1>1
  <2>7. QED
    BY <2>5, <2>6
<1>16. SizeBounded'
  BY <1>2, <1>3 DEF AuditInv, SizeBounded
\* As an event log: the events of the oldest backup are lost.
<1>17. Events!Next
  <2> DEFINE oldest == {Held(MaxBackups)[i] : i \in DOMAIN Held(MaxBackups)}
  <2>1. \A e \in oldest : \E i \in DOMAIN Held(MaxBackups) : e = Held(MaxBackups)[i]
    OBVIOUS
  <2>2. \A e \in Recorded : e \in oldest \/ \E k \in Files \ {MaxBackups} :
                                             \E i \in DOMAIN Held(k) : e = Held(k)[i]
    BY DEF Recorded
  <2>3. oldest \subseteq Recorded
    BY <1>1 DEF Recorded
  <2>4. \A e \in Recorded' : \E k \in Files \ {MaxBackups} : \E i \in DOMAIN Held(k) : e = Held(k)[i]
    BY <1>1, <1>3 DEF Recorded
  <2>5. \A k \in Files \ {MaxBackups} : \A i \in DOMAIN Held(k) :
          Held(k)[i] \in Recorded /\ Held(k)[i] \in Recorded'
    BY <1>3 DEF Recorded
  <2> HIDE DEF oldest
  <2>6. \A old \in oldest, e \in Recorded \ oldest : old.id < e.id
    BY <2>1, <2>2, <1>11
  <2>7. Recorded' = Recorded \ oldest
    <3>1. \A k \in Files \ {MaxBackups} : \A i \in DOMAIN Held(k) : Held(k)[i] \notin oldest
      BY <2>1, <1>1, <1>11, <1>12
    <3>2. QED
      BY <3>1, <2>2, <2>4, <2>5
  <2>8. KeepsNewest => oldest # Recorded
    <3> SUFFICES ASSUME KeepsNewest
                 PROVE  Recorded' # {}
      BY <2>7
    <3>1. Len(Held(0)) > 0 /\ 0 # MaxBackups /\ Held(0) \in Seq(Event)
      BY <1>1, <1>4, HeldType DEF AuditInv, RotationInv, KeepsNewest
    <3>2. 1 \in DOMAIN Held(0)
      BY <3>1
    <3>3. QED
      BY <3>1, <3>2, <2>5, <1>1
  <2>9. UNCHANGED <<event, acknowledged>>
    BY DEF RemoveOldest
  <2>10. Events!Lose(oldest)
    BY <2>6, <2>7, <2>8, <2>9 DEF Events!Lose
  <2>11. QED
    BY <2>3, <2>10 DEF Events!Next
<1>18. QED
  BY <1>5, <1>6, <1>7, <1>8, <1>9, <1>14, <1>15, <1>16, <1>17 DEF AuditInv

LEMMA BackupShifted ==
  ASSUME AuditInv, Shift
  PROVE  AuditInv' /\ Recorded' = Recorded
<1>1. /\ index \in Files /\ index + 1 \in Files
      /\ disk[index + 1] = None
      /\ index \in Nat
      /\ DOMAIN <<>> = {} /\ Len(<<>>) = 0
  BY AuditAssumption DEF AuditInv, ShiftInv, Shift, TypeOK, Files
<1>2. /\ at = "shift" /\ at' \in {"shift", "open"}
      /\ acknowledged' = acknowledged
  BY DEF Shift
<1>3. CASE disk[index] = None
  <2>1. disk' = disk /\ \A k \in Files : Held(k)' = Held(k)
    BY <1>3 DEF Shift, Held
  <2>2. TypeOK'
    BY <2>1, <1>1, AuditAssumption DEF AuditInv, TypeOK, Shift, Files
  <2>3. HandleInv'
    BY <2>1 DEF AuditInv, TypeOK, HandleInv, Shift
  <2>4. NumberedInv'
    BY <2>1 DEF AuditInv, NumberedInv, Shift
  <2>5. ShiftInv'
    BY <2>1, <1>1, <1>3, AuditAssumption DEF AuditInv, ShiftInv, Shift, Files, TypeOK
  <2>6. RotationInv'
    BY <2>1, <1>3 DEF AuditInv, RotationInv, Shift
  <2>7. SizeBounded'
    BY <2>1 DEF AuditInv, SizeBounded
  <2>8. Recorded' = Recorded
    BY <2>1, SameRecords
  <2>9. QED
    BY <2>1, <2>2, <2>3, <2>4, <2>5, <2>6, <2>7, <2>8, <1>2, SameEvents DEF AuditInv
<1>4. CASE disk[index] # None
  <2>0. PICK n \in Nat : n = index
    BY <1>1
  <2>1. /\ disk' = [disk EXCEPT ![n] = None, ![n + 1] = disk[n]]
        /\ disk \in [Files -> File \cup {None}]
        /\ n \in Files /\ n + 1 \in Files
        /\ disk[n] # None /\ disk[n + 1] = None
    BY <1>1, <1>4, <2>0 DEF Shift, AuditInv, TypeOK
  <2>2. /\ disk' \in [Files -> File \cup {None}]
        /\ disk'[n] = None
        /\ disk'[n + 1] = disk[n]
        /\ \A k \in Files \ {n, n + 1} : disk'[k] = disk[k]
    BY <2>1
  <2>3. /\ Held(n)' = <<>>
        /\ Held(n + 1) = <<>>
        /\ Held(n + 1)' = Held(n)
        /\ \A k \in Files \ {n, n + 1} : Held(k)' = Held(k)
    BY <2>1, <2>2 DEF Held
  \* Where a file comes from, and where it goes to.
  <2> DEFINE from(k) == IF k = n + 1 THEN n ELSE k
             to(k) == IF k = n THEN n + 1 ELSE k
  <2>4. \A k \in Files : disk'[k] # None => /\ from(k) \in Files
                                            /\ disk[from(k)] # None
                                            /\ disk'[k] = disk[from(k)]
    BY <2>1, <2>2
  <2>5. \A k \in Files : k # n => from(k) \in Files /\ Held(k)' = Held(from(k))
    BY <2>1, <2>3
  <2>6. \A k \in Files : \A i \in DOMAIN Held(k)' :
          from(k) \in Files /\ k # n /\ Held(k)' = Held(from(k))
    BY <2>3, <2>5, <1>1
  <2>a. \A k \in Files : k # n + 1 => to(k) \in Files /\ Held(to(k))' = Held(k)
    BY <2>1, <2>3
  <2>b. \A k \in Files : \A i \in DOMAIN Held(k) : to(k) \in Files /\ Held(to(k))' = Held(k)
    BY <2>3, <2>a, <1>1
  <2>7. \A k, l \in Files : k # n /\ l # n =>
          /\ k <= l => from(k) <= from(l)
          /\ k < l => from(k) < from(l)
    BY <1>1, AuditAssumption DEF Files
  <2>8. TypeOK'
    BY <2>0, <2>2, <1>1, AuditAssumption DEF AuditInv, TypeOK, Shift, Files
  <2>9. HandleInv'
    BY DEF AuditInv, TypeOK, HandleInv, Shift
  <2>10. ShiftInv'
    BY <2>0, <2>1, <2>2, <1>1, AuditAssumption DEF AuditInv, ShiftInv, Shift, Files, TypeOK
  <2> HIDE DEF from, to
  <2>11. NumberedInv'
    BY <2>6 DEF AuditInv, NumberedInv, Shift
  <2>12. RotationInv'
    <3>1. \A k \in Files : disk'[k] # None /\ Len(Held(k)') = 0 => disk'[k].size = 0
      <4> SUFFICES ASSUME NEW k \in Files, disk'[k] # None, Len(Held(k)') = 0
                   PROVE  disk'[k].size = 0
        OBVIOUS
      <4>1. /\ from(k) \in Files /\ disk[from(k)] # None /\ disk'[k] = disk[from(k)]
            /\ Held(k)' = Held(from(k))
        BY <2>2, <2>4, <2>5
      <4>2. QED
        BY <4>1 DEF AuditInv, RotationInv
    <3>2. at' = "open" => disk'[0] = None
      BY <2>0, <2>2 DEF Shift
    <3>3. QED
      BY <3>1, <3>2, <1>2 DEF RotationInv
  <2>13. \A k, l \in Files : k <= l =>
           \A i \in DOMAIN Held(k)', j \in DOMAIN Held(l)' :
             k < l \/ j < i => Held(l)'[j].id < Held(k)'[i].id
    BY <2>6, <2>7 DEF AuditInv, OldestGoFirst
  <2>14. \A id : Retained(id)' <=> Retained(id)
    <3> SUFFICES ASSUME NEW id
                 PROVE  Retained(id)' <=> Retained(id)
      OBVIOUS
    <3>1. Retained(id)' => Retained(id)
      BY <2>6 DEF Retained
    <3>2. Retained(id) => Retained(id)'
      BY <2>b DEF Retained
    <3>3. QED
      BY <3>1, <3>2
  <2>15. OldestGoFirst'
    BY <2>13, <2>14, <1>2 DEF AuditInv, OldestGoFirst
  <2>16. NewestKept'
    BY <2>b, <2>14, <1>2 DEF AuditInv, NewestKept
  <2>17. SizeBounded'
    <3> SUFFICES ASSUME MaxBytes > 0, NEW k \in Files, disk'[k] # None
                 PROVE  Len(Held(k)') <= 1 \/ disk'[k].size <= MaxBytes
      BY DEF SizeBounded
    <3>1. /\ from(k) \in Files /\ disk[from(k)] # None /\ disk'[k] = disk[from(k)]
          /\ Held(k)' = Held(from(k))
      BY <2>2, <2>4, <2>5
    <3>2. QED
      BY <3>1 DEF AuditInv, SizeBounded
  <2>18. Recorded' = Recorded
    <3>1. Recorded' \subseteq Recorded
      BY <2>6 DEF Recorded
    <3>2. Recorded \subseteq Recorded'
      BY <2>b DEF Recorded
    <3>3. QED
      BY <3>1, <3>2
  <2>19. QED
    BY <2>8, <2>9, <2>10, <2>11, <2>12, <2>15, <2>16, <2>17, <2>18 DEF AuditInv
<1>5. QED
  BY <1>3, <1>4

LEMMA AuditStep == AuditInv /\ [Next]_vars => AuditInv'
<1> SUFFICES ASSUME AuditInv, [Next]_vars
             PROVE  AuditInv'
  OBVIOUS
<1> USE AuditAssumption
<1>1. CASE Start
  <2>1. /\ disk' = Opened /\ at = "down" /\ handle' = "open" /\ at' = "idle"
        /\ UNCHANGED <<index, event, acknowledged, kills>>
    BY <1>1 DEF Start
  <2>2. OldestGoFirst' /\ NewestKept' /\ SizeBounded'
    BY <2>1, FileOpened
  <2>3. TypeOK' /\ HandleInv' /\ NumberedInv' /\ ShiftInv'
    BY <2>1, FileOpened DEF AuditInv, TypeOK, HandleInv, NumberedInv, ShiftInv
  <2>4. RotationInv'
    BY <2>1, FileOpened DEF AuditInv, RotationInv
  <2>5. QED
    BY <2>2, <2>3, <2>4 DEF AuditInv
<1>2. CASE StartFails
  <2>1. /\ disk' = Opened /\ at = "down"
        /\ UNCHANGED <<handle, at, index, event, acknowledged, kills>>
    BY <1>2 DEF StartFails
  <2>2. OldestGoFirst' /\ NewestKept' /\ SizeBounded'
    BY <2>1, FileOpened
  <2>3. TypeOK' /\ HandleInv' /\ NumberedInv' /\ ShiftInv'
    BY <2>1, FileOpened DEF AuditInv, TypeOK, HandleInv, NumberedInv, ShiftInv
  <2>4. RotationInv'
    BY <2>1, FileOpened DEF AuditInv, RotationInv
  <2>5. QED
    BY <2>2, <2>3, <2>4 DEF AuditInv
<1>3. CASE Open
  <2>1. /\ disk' = Opened /\ at = "open" /\ handle' = "open" /\ at' = "chmod"
        /\ UNCHANGED <<index, event, acknowledged, kills>>
    BY <1>3 DEF Open
  <2>2. OldestGoFirst' /\ NewestKept' /\ SizeBounded'
    BY <2>1, FileOpened
  <2>3. TypeOK' /\ HandleInv' /\ NumberedInv' /\ ShiftInv'
    BY <2>1, FileOpened DEF AuditInv, TypeOK, HandleInv, NumberedInv, ShiftInv
  <2>4. RotationInv'
    BY <2>1, FileOpened DEF AuditInv, RotationInv
  <2>5. QED
    BY <2>2, <2>3, <2>4 DEF AuditInv
<1>4. CASE Write
  <2>1. /\ at = "write" /\ disk' = Written(event.size) /\ at' = "idle"
        /\ acknowledged' = acknowledged \cup {event.id}
        /\ event' = event
        /\ UNCHANGED <<handle, index, event, kills>>
    BY <1>4 DEF Write
  <2>e. event.size \in Sizes
    BY <2>1 DEF AuditInv, NumberedInv
  <2>2. event.size \in Nat \ {0} /\ event.size <= event.size
    <3>1. event.size \in Nat \ {0}
      BY <2>e
    <3>2. QED
      BY <3>1
  <2>3. OldestGoFirst' /\ NewestKept' /\ SizeBounded'
    BY <2>1, <2>2, EventWritten
  <2>4. TypeOK'
    <3>1. event.id \in 1 .. event.id
      BY <2>1 DEF AuditInv, TypeOK, NumberedInv
    <3>2. acknowledged' \subseteq 1 .. event'.id
      BY <3>1, <2>1 DEF AuditInv, TypeOK
    <3>3. QED
      BY <3>2, <2>1, <2>2, EventWritten DEF AuditInv, TypeOK
  <2>5. HandleInv' /\ NumberedInv' /\ ShiftInv' /\ RotationInv'
    BY <2>1, <2>2, EventWritten
       DEF AuditInv, TypeOK, HandleInv, NumberedInv, ShiftInv, RotationInv
  <2>6. QED
    BY <2>3, <2>4, <2>5 DEF AuditInv
<1>5. CASE ShortWrite
  <2>1. /\ at = "write" /\ at' = "idle" /\ event' = event
        /\ UNCHANGED <<handle, index, event, acknowledged, kills>>
    BY <1>5 DEF ShortWrite
  <2>2. PICK bytes \in 1 .. event.size - 1 : disk' = Written(bytes)
    BY <1>5 DEF ShortWrite
  <2>e. event.size \in Sizes
    BY <2>1 DEF AuditInv, NumberedInv
  <2>3. bytes \in Nat \ {0} /\ bytes <= event.size
    <3>1. event.size \in Nat
      BY <2>e
    <3>2. QED
      BY <3>1
  <2>4. OldestGoFirst' /\ NewestKept' /\ SizeBounded'
    BY <2>1, <2>2, <2>3, EventWritten
  <2>5. TypeOK' /\ HandleInv' /\ NumberedInv' /\ ShiftInv' /\ RotationInv'
    BY <2>1, <2>2, <2>3, EventWritten
       DEF AuditInv, TypeOK, HandleInv, NumberedInv, ShiftInv, RotationInv
  <2>6. QED
    BY <2>4, <2>5 DEF AuditInv
<1>6. CASE RemoveOldest
  BY <1>6, OldestRemoved
<1>7. CASE Shift
  BY <1>7, BackupShifted
<1>8. CASE \E size \in Sizes : Log(size)
  <2>1. PICK size \in Sizes : Log(size)
    BY <1>8
  <2>2. /\ at = "idle" /\ event.id < MaxEvents
        /\ event' = [id |-> event.id + 1, size |-> size]
        /\ at' = IF MaxBytes = 0 THEN "write" ELSE "stat"
        /\ UNCHANGED <<disk, handle, index, acknowledged, kills>>
    BY <2>1 DEF Log
  <2>3. event'.id = event.id + 1 /\ event'.size = size /\ event.id \in Nat
    BY <2>2 DEF AuditInv, TypeOK
  <2>4. TypeOK'
    BY <2>2, <2>3 DEF AuditInv, TypeOK, HandleInv
  <2>5. HandleInv'
    BY <2>2 DEF AuditInv, HandleInv
  <2>6. NumberedInv'
    <3>1. \A k \in Files : \A i \in DOMAIN Held(k) : Held(k)[i].id \in Nat
      BY EventNumber DEF AuditInv
    <3>2. \A k \in Files : Held(k)' = Held(k)
      BY <2>2 DEF Held
    <3>3. \A k \in Files : \A i \in DOMAIN Held(k)' : Held(k)'[i].id < event'.id
      BY <3>1, <3>2, <2>3 DEF AuditInv, NumberedInv
    <3>4. \A k \in Files : \A i \in DOMAIN Held(k)' : Held(k)'[i].id <= event'.id
      BY <3>1, <3>2, <3>3, <2>3
    <3>5. \A id \in acknowledged' : id < event'.id
      BY <2>2, <2>3 DEF AuditInv, TypeOK
    <3>6. QED
      BY <3>3, <3>4, <3>5, <2>3 DEF NumberedInv
  <2>7. ShiftInv'
    BY <2>2 DEF ShiftInv
  <2>8. RotationInv'
    BY <2>2 DEF AuditInv, RotationInv, Held
  <2>9. OldestGoFirst' /\ NewestKept' /\ SizeBounded'
    <3>1. \A k \in Files : Held(k)' = Held(k)
      BY <2>2 DEF Held
    <3>2. QED
      BY <3>1, <2>2, SameEvents DEF AuditInv, SizeBounded
  <2>10. QED
    BY <2>4, <2>5, <2>6, <2>7, <2>8, <2>9 DEF AuditInv
<1>9. CASE Stat
  <2>1. /\ at = "stat" /\ handle = "open"
        /\ at' = IF disk[0].size + event.size <= MaxBytes THEN "write" ELSE "sync"
        /\ UNCHANGED <<disk, handle, index, event, acknowledged, kills>>
    BY <1>9 DEF Stat
  <2>2. disk[0] # None /\ event.size \in Sizes /\ event.size \in Nat
    BY <2>1 DEF AuditInv, HandleInv, NumberedInv
  <2>3. \A k \in Files : Held(k)' = Held(k)
    BY <2>1 DEF Held
  <2>4. 0 \in Files /\ Len(Held(0)) \in Nat
    <3>1. 0 \in Files
      BY DEF Files
    <3>2. Held(0) \in Seq(Event)
      BY <3>1, HeldType DEF AuditInv
    <3>3. QED
      BY <3>1, <3>2
  <2>5. RotationInv'
    <3>1. at' = "sync" /\ (\A size \in Sizes : size <= MaxBytes) => Len(Held(0)) > 0
      <4> SUFFICES ASSUME at' = "sync", \A size \in Sizes : size <= MaxBytes, Len(Held(0)) = 0
                   PROVE  FALSE
        BY <2>4
      <4>1. disk[0].size = 0
        BY <2>2, <2>4 DEF AuditInv, RotationInv
      <4>2. QED
        BY <4>1, <2>1, <2>2
    <3>2. QED
      BY <3>1, <2>1, <2>3, <2>4 DEF AuditInv, RotationInv
  <2>6. TypeOK' /\ HandleInv' /\ ShiftInv'
    BY <2>1, <2>2 DEF AuditInv, TypeOK, HandleInv, ShiftInv
  <2>7. NumberedInv'
    BY <2>1, <2>3 DEF AuditInv, NumberedInv
  <2>8. OldestGoFirst' /\ NewestKept' /\ SizeBounded'
    BY <2>1, <2>3, SameEvents DEF AuditInv, SizeBounded
  <2>9. QED
    BY <2>5, <2>6, <2>7, <2>8 DEF AuditInv
<1>10. CASE Shutdown \/ Kill \/ Sync \/ Close \/ Chmod \/ Fail \/ UNCHANGED vars
  <2> USE <1>10 DEF Shutdown, Kill, Sync, Close, Chmod, Fail, vars
  <2>1. UNCHANGED <<disk, event, acknowledged, index>>
    OBVIOUS
  <2>2. \A k \in Files : Held(k)' = Held(k)
    BY <2>1 DEF Held
  <2>3. 0 \in Files
    BY DEF Files
  <2>4. TypeOK'
    BY <2>1 DEF AuditInv, TypeOK, HandleInv
  <2>5. HandleInv'
    BY <2>1 DEF AuditInv, TypeOK, HandleInv
  <2>6. NumberedInv'
    BY <2>1, <2>2 DEF AuditInv, NumberedInv
  <2>7. ShiftInv'
    BY <2>1 DEF AuditInv, ShiftInv
  <2>8. RotationInv'
    BY <2>1, <2>2, <2>3 DEF AuditInv, RotationInv
  <2>9. OldestGoFirst' /\ NewestKept' /\ SizeBounded'
    BY <2>1, <2>2, SameEvents DEF AuditInv, SizeBounded
  <2>10. QED
    BY <2>4, <2>5, <2>6, <2>7, <2>8, <2>9 DEF AuditInv
<1>11. QED
  BY <1>1, <1>2, <1>3, <1>4, <1>5, <1>6, <1>7, <1>8, <1>9, <1>10 DEF Next

-----------------------------------------------------------------------------
(* The audit log as an event log. *)

\* Only a write and the removal of the oldest backup are steps of the event log: what
\* opens, renames or closes a file moves the events at most.
LEMMA InitEvents == Init => Events!Init
<1> SUFFICES ASSUME Init
             PROVE  Events!Init
  OBVIOUS
<1>1. \A k \in Files : Held(k) = <<>>
  BY DEF Init, Held
<1>2. DOMAIN <<>> = {}
  OBVIOUS
<1>3. Recorded = {}
  BY <1>1, <1>2 DEF Recorded
<1>4. QED
  BY <1>3 DEF Init, Events!Init

LEMMA NextEvents == AuditInv /\ [Next]_vars => [Events!Next]_Events!vars
<1> SUFFICES ASSUME AuditInv, [Next]_vars
             PROVE  Events!Next \/ UNCHANGED <<Recorded, event.id, acknowledged>>
  BY DEF Events!vars
<1>1. CASE Start \/ StartFails \/ Open
  <2>1. disk' = Opened /\ UNCHANGED <<event, acknowledged>>
    BY <1>1 DEF Start, StartFails, Open
  <2>2. Recorded' = Recorded
    BY <2>1, FileOpened, SameRecords
  <2>3. QED
    BY <2>1, <2>2
<1>2. CASE Write \/ ShortWrite
  <2>1. at = "write" /\ event' = event /\ event.size \in Nat \ {0}
    <3>1. event.size \in Sizes
      BY <1>2 DEF Write, ShortWrite, AuditInv, NumberedInv
    <3>2. QED
      BY <1>2, <3>1, AuditAssumption DEF Write, ShortWrite
  <2>2. PICK bytes \in Nat \ {0} :
          /\ bytes <= event.size
          /\ disk' = Written(bytes)
          /\ acknowledged' = IF bytes = event.size THEN acknowledged \cup {event.id}
                             ELSE acknowledged
    <3>1. CASE Write
      <4>1. event.size <= event.size
        BY <2>1
      <4>2. QED
        BY <3>1, <4>1, <2>1 DEF Write
    <3>2. CASE ShortWrite
      <4>1. PICK bytes \in 1 .. event.size - 1 : disk' = Written(bytes)
        BY <3>2 DEF ShortWrite
      <4>2. bytes \in Nat \ {0} /\ bytes <= event.size /\ bytes # event.size
        BY <4>1, <2>1
      <4>3. QED
        BY <3>2, <4>1, <4>2 DEF ShortWrite
    <3>3. QED
      BY <1>2, <3>1, <3>2
  <2>3. Recorded' = Recorded \cup {[id |-> event.id, whole |-> bytes = event.size]}
    BY <2>1, <2>2, EventWritten
  <2>4. \A e \in Recorded : e.id < event.id
    BY <2>1 DEF Recorded, AuditInv, NumberedInv
  <2> DEFINE whole == bytes = event.size
  <2>5. whole \in BOOLEAN /\ acknowledged' = IF whole THEN acknowledged \cup {event.id}
                                             ELSE acknowledged
    BY <2>2
  <2>6. Recorded' = Recorded \cup {[id |-> event.id, whole |-> whole]}
    BY <2>3
  <2> HIDE DEF whole
  <2>7. Events!Record(whole)
    BY <2>1, <2>4, <2>5, <2>6 DEF Events!Record
  <2>8. QED
    BY <2>5, <2>7 DEF Events!Next
<1>3. CASE RemoveOldest
  BY <1>3, OldestRemoved
<1>4. CASE Shift
  BY <1>4, BackupShifted DEF Shift
<1>5. CASE \E size \in Sizes : Log(size)
  <2>1. PICK size \in Sizes : Log(size)
    BY <1>5
  <2>2. \A k \in Files : Held(k)' = Held(k)
    BY <2>1 DEF Log, Held
  <2>3. Events!Come
    BY <2>1, <2>2, SameRecords DEF Log, Events!Come
  <2>4. QED
    BY <2>3 DEF Events!Next
<1>6. CASE Shutdown \/ Kill \/ Stat \/ Sync \/ Close \/ Chmod \/ Fail \/ UNCHANGED vars
  <2>1. UNCHANGED <<disk, event, acknowledged>>
    BY <1>6 DEF Shutdown, Kill, Stat, Sync, Close, Chmod, Fail, vars
  <2>2. \A k \in Files : Held(k)' = Held(k)
    BY <2>1 DEF Held
  <2>3. QED
    BY <2>1, <2>2, SameRecords
<1>7. QED
  BY <1>1, <1>2, <1>3, <1>4, <1>5, <1>6 DEF Next

LEMMA AuditInvariance == Spec => []AuditInv
BY AuditInitially, AuditStep, PTL DEF Spec

-----------------------------------------------------------------------------
\* Every variable of the audit log has its type, and the audit file is open exactly
\* when the system call at hand needs it to be (rotateIfNeededLocked,
\* rotateBackupsLocked), for any number of backups, events and kills.
THEOREM AuditTypeCorrect == Spec => []TypeOK
BY AuditInvariance, PTL DEF AuditInv

\* Wherever a rotation fails or the process ends, and however often, what the files
\* hold is in order and the events that are gone are the oldest ones
\* (rotateBackupsLocked).
THEOREM OldestEventsGoFirst == Spec => []OldestGoFirst
BY AuditInvariance, PTL DEF AuditInv

\* With a backup to keep and no event larger than a file, no acknowledged event is
\* lost before a later one has been written, however a rotation ends
\* (rotateIfNeededLocked, openAuditFile).
THEOREM NewestIsKept == Spec => []NewestKept
BY AuditInvariance, PTL DEF AuditInv

\* The audit log implements the event log: whatever calls fail and whenever the process
\* ends, events are appended in order, acknowledged exactly when they were written
\* whole, and lost from the oldest on, never all of them if there is a backup and no
\* event is larger than a file (Log, rotateBackupsLocked, openAuditFile).
THEOREM AuditLogIsEventLog == Spec => ImplementsEventLog
BY AuditInvariance, InitEvents, NextEvents, PTL DEF Spec, Events!Spec, ImplementsEventLog

\* No file outgrows its limit but by a single event that is larger, short writes
\* counted (rotateIfNeededLocked).
THEOREM SizeIsBounded == Spec => []SizeBounded
BY AuditInvariance, PTL DEF AuditInv

=============================================================================
