------------------------------ MODULE AuditLog ------------------------------
(***************************************************************************)
(* The audit log: FileLogger of internal/audit/logger.go.  Log holds one   *)
(* mutex, so events are written one at a time, but each is a sequence of   *)
(* system calls of which any can fail, and the process can end between any *)
(* two of them.  What the files hold then is what the next process starts  *)
(* from.  Here the steps of Log are those system calls.                    *)
(*                                                                         *)
(* File 0 is the audit file, file k its backup ".k".  The events are       *)
(* numbered in the order in which they are logged; of an encoded event     *)
(* only its size matters, which is added to that of the file, and whether  *)
(* all of it was written.  What was written survives the end of the        *)
(* process; that of the whole machine, which Log does not guard against,   *)
(* is left out.                                                            *)
(***************************************************************************)
EXTENDS Integers, Sequences

CONSTANTS
  None,
  MaxBytes,    \* config audit.max_bytes; 0 means no rotation
  MaxBackups,  \* config audit.max_backups
  Sizes,       \* sizes of encoded events
  MaxEvents,   \* bound of the model: events logged
  MaxKills     \* bound of the model: how often the process is killed

VARIABLES
  disk,      \* the files: None, or their size and the events in them
  handle,    \* FileLogger.file
  at,        \* the next system call
  index,     \* the backup to shift next, in rotateBackupsLocked
  event,     \* the event being logged
  acknowledged,  \* history: the events for which Log returned no error
  kills          \* how often the process was killed

vars == <<disk, handle, at, index, event, acknowledged, kills>>

Files == 0 .. MaxBackups
File == [size : Nat, events : Seq([id : 1 .. MaxEvents, whole : BOOLEAN])]

ASSUME AuditAssumption ==
  /\ {MaxBytes, MaxBackups, MaxEvents, MaxKills} \subseteq Nat
  /\ Sizes \subseteq Nat \ {0}
  /\ None \notin File

EmptyFile == [size |-> 0, events |-> <<>>]

\* O_CREATE and O_APPEND: what is there stays.
Opened == [disk EXCEPT ![0] = IF disk[0] = None THEN EmptyFile ELSE disk[0]]

Written(bytes) ==
  [disk EXCEPT ![0] =
     [size |-> disk[0].size + bytes,
      events |-> Append(disk[0].events, [id |-> event.id, whole |-> bytes = event.size])]]

Init ==
  /\ disk = [k \in Files |-> None]
  /\ handle = "closed"
  /\ at = "down"
  /\ index = 0
  /\ event = [id |-> 0, size |-> 0]
  /\ acknowledged = {}
  /\ kills = 0

-----------------------------------------------------------------------------
(* The process starts and ends. *)

\* Mutant: the file is truncated when it is opened.
StartTruncates ==
  /\ at = "down"
  /\ disk' = [disk EXCEPT ![0] = EmptyFile]
  /\ handle' = "open"
  /\ at' = "idle"
  /\ UNCHANGED <<index, event, acknowledged, kills>>

Start ==
  /\ at = "down"
  /\ disk' = Opened
  /\ handle' = "open"
  /\ at' = "idle"
  /\ UNCHANGED <<index, event, acknowledged, kills>>

\* The file was created, but not made private: the process does not start.
StartFails ==
  /\ at = "down"
  /\ disk' = Opened
  /\ UNCHANGED <<handle, at, index, event, acknowledged, kills>>

\* FileLogger.Close, between two events: the file is closed whether it can be flushed
\* or not.
Shutdown ==
  /\ at = "idle"
  /\ at' = "down"
  /\ handle' = "closed"
  /\ UNCHANGED <<disk, index, event, acknowledged, kills>>

\* The process is killed.
Kill ==
  /\ at # "down"
  /\ kills < MaxKills
  /\ kills' = kills + 1
  /\ at' = "down"
  /\ handle' = "closed"
  /\ UNCHANGED <<disk, index, event, acknowledged>>

-----------------------------------------------------------------------------
(* Log, one system call at a time. *)

Log(size) ==
  /\ at = "idle"
  /\ event.id < MaxEvents
  /\ event' = [id |-> event.id + 1, size |-> size]
  /\ at' = IF MaxBytes = 0 THEN "write" ELSE "stat"
  /\ UNCHANGED <<disk, handle, index, acknowledged, kills>>

\* Mutants: the new event is not counted; the audit file is removed although
\* there are backups; the shift starts at the backup just removed.
StatIgnoresEvent ==
  /\ at = "stat"
  /\ handle = "open"
  /\ at' = IF disk[0].size <= MaxBytes THEN "write" ELSE "sync"
  /\ UNCHANGED <<disk, handle, index, event, acknowledged, kills>>
RemoveAuditFile ==
  /\ at = "remove"
  /\ disk' = [disk EXCEPT ![0] = None]
  /\ index' = MaxBackups - 1
  /\ at' = "shift"
  /\ UNCHANGED <<handle, event, acknowledged, kills>>
RemoveOldestShiftIt ==
  /\ at = "remove"
  /\ disk' = [disk EXCEPT ![MaxBackups] = None]
  /\ index' = MaxBackups
  /\ at' = "shift"
  /\ UNCHANGED <<handle, event, acknowledged, kills>>

Stat ==
  /\ at = "stat"
  /\ handle = "open"
  /\ at' = IF disk[0].size + event.size <= MaxBytes THEN "write" ELSE "sync"
  /\ UNCHANGED <<disk, handle, index, event, acknowledged, kills>>

Sync ==
  /\ at = "sync"
  /\ at' = "close"
  /\ UNCHANGED <<disk, handle, index, event, acknowledged, kills>>

Close ==
  /\ at = "close"
  /\ handle' = "closed"
  /\ at' = "remove"
  /\ UNCHANGED <<disk, index, event, acknowledged, kills>>

\* The oldest backup goes; without backups, that is the audit file itself.
RemoveOldest ==
  /\ at = "remove"
  /\ disk' = [disk EXCEPT ![MaxBackups] = None]
  /\ IF MaxBackups = 0
       THEN at' = "open" /\ UNCHANGED index
       ELSE at' = "shift" /\ index' = MaxBackups - 1
  /\ UNCHANGED <<handle, event, acknowledged, kills>>

\* A backup, in the end the audit file, is renamed, if it exists.
Shift ==
  /\ at = "shift"
  /\ disk' = IF disk[index] = None THEN disk
             ELSE [disk EXCEPT ![index] = None, ![index + 1] = disk[index]]
  /\ IF index = 0
       THEN at' = "open" /\ UNCHANGED index
       ELSE index' = index - 1 /\ UNCHANGED at
  /\ UNCHANGED <<handle, event, acknowledged, kills>>

Open ==
  /\ at = "open"
  /\ disk' = Opened
  /\ handle' = "open"
  /\ at' = "chmod"
  /\ UNCHANGED <<index, event, acknowledged, kills>>

Chmod ==
  /\ at = "chmod"
  /\ at' = "write"
  /\ UNCHANGED <<disk, handle, index, event, acknowledged, kills>>

Write ==
  /\ at = "write"
  /\ disk' = Written(event.size)
  /\ acknowledged' = acknowledged \cup {event.id}
  /\ at' = "idle"
  /\ UNCHANGED <<handle, index, event, kills>>

\* Only a part is written, the disk is full for instance: Log returns an error.
ShortWrite ==
  /\ at = "write"
  /\ \E bytes \in 1 .. event.size - 1 : disk' = Written(bytes)
  /\ at' = "idle"
  /\ UNCHANGED <<handle, index, event, acknowledged, kills>>

\* Any other call fails, and Log returns its error.  A file whose Close fails is
\* closed all the same, and one that is closed fails at Stat from then on.
Fail ==
  /\ at \notin {"down", "idle"}
  /\ handle' = IF at = "close" THEN "closed" ELSE handle
  /\ at' = "idle"
  /\ UNCHANGED <<disk, index, event, acknowledged, kills>>

-----------------------------------------------------------------------------
Next ==
  \/ Start \/ StartFails \/ Shutdown \/ Kill
  \/ \E size \in Sizes : Log(size)
  \/ Stat \/ Sync \/ Close \/ RemoveOldest \/ Shift \/ Open \/ Chmod
  \/ Write \/ ShortWrite \/ Fail

Spec == Init /\ [][Next]_vars

-----------------------------------------------------------------------------
(* Properties. *)

\* Every variable has its type, and the file is open exactly when the step at hand
\* needs it to be: it is never renamed or removed while open, nor written while
\* closed.
TypeOK ==
  /\ disk \in [Files -> File \cup {None}]
  /\ handle \in {"open", "closed"}
  /\ at \in {"down", "idle", "stat", "sync", "close", "remove", "shift", "open", "chmod",
             "write"}
  /\ index \in {0} \cup 0 .. MaxBackups - 1
  /\ event \in [id : 0 .. MaxEvents, size : Sizes \cup {0}]
  /\ acknowledged \subseteq 1 .. event.id
  /\ kills \in 0 .. MaxKills
  /\ at \in {"down", "remove", "shift", "open"} => handle = "closed"
  /\ at \in {"sync", "close", "chmod", "write"} => handle = "open" /\ disk[0] # None

Held(k) == IF disk[k] = None THEN <<>> ELSE disk[k].events
Retained(id) == \E k \in Files : \E i \in DOMAIN Held(k) : Held(k)[i] = [id |-> id, whole |-> TRUE]

\* Only the oldest events ever go: wherever a rotation fails or the process ends, the
\* files read from the oldest backup to the audit file hold the events in order, and
\* every acknowledged event after one that is still there is there too
\* (rotateBackupsLocked).
OldestGoFirst ==
  /\ \A k, l \in Files : k <= l =>
       \A i \in DOMAIN Held(k), j \in DOMAIN Held(l) :
         k < l \/ j < i => Held(l)[j].id < Held(k)[i].id
  /\ \A i, j \in acknowledged : i < j /\ Retained(i) => Retained(j)

KeepsNewest == MaxBackups > 0 /\ \A size \in Sizes : size <= MaxBytes

\* With a backup to keep and no event larger than a file, an acknowledged event is
\* there, or a later one is: during and after a rotation, a failed one, and a restart
\* in the middle of one (rotateIfNeededLocked, openAuditFile).
NewestKept ==
  KeepsNewest =>
    \A id \in acknowledged :
      Retained(id) \/ \E k \in Files : \E i \in DOMAIN Held(k) : Held(k)[i].id > id

\* No file outgrows its limit, whole and partial lines counted, unless it is a single
\* event that is larger (rotateIfNeededLocked).
SizeBounded ==
  MaxBytes > 0 =>
    \A k \in Files : disk[k] # None => Len(Held(k)) <= 1 \/ disk[k].size <= MaxBytes

\* The files, the calls and the restarts as an event log.
Recorded == UNION {{Held(k)[i] : i \in DOMAIN Held(k)} : k \in Files}
Events == INSTANCE EventLog WITH recorded <- Recorded, latest <- event.id

\* To its callers the audit log is an event log: an event is acknowledged exactly when
\* all of it was written, after the events before it; a rotation that goes through, one
\* that fails in the middle, a kill and a restart change nothing but that at one point
\* the oldest events go, which with a backup to keep and no event larger than a file
\* are never all of them (Log, rotateBackupsLocked, openAuditFile).
ImplementsEventLog == Events!Spec

=============================================================================
