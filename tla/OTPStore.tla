------------------------------ MODULE OTPStore ------------------------------
(***************************************************************************)
(* The in-memory store of one-time MySQL credentials                       *)
(* (internal/otp/store.go).  Every exported operation of the Go type Store *)
(* runs under one mutex and reads the clock while it holds it, so each is  *)
(* one atomic action here.                                                 *)
(*                                                                         *)
(* A credential is named by its random MySQL username.  Two issued         *)
(* usernames never collide in the model (the code draws 12 random bytes).  *)
(* An entry of a rate-limit bucket is, in the code, a bare timestamp; here *)
(* it also carries the event it was recorded for, so that a bucket is a    *)
(* set and can be compared with the history of what really happened.       *)
(***************************************************************************)
EXTENDS Integers, FiniteSets

CONSTANTS
  Usernames,               \* MySQL usernames that can be drawn
  Users,                   \* human users (auth.User)
  Sessions,                \* browser sessions
  Owner,                   \* [Sessions -> Users], the user logged in to each
  Sources,                 \* client source addresses
  None,                    \* no credential, no username, no source
  TTL,                     \* lifetime of a credential
  CredentialFailureLimit,  \* failures that lock a credential
  SourceFailureLimit,      \* failures that throttle a source address
  SourceFailureWindow,     \* ... within this much time
  UserLimit,               \* credentials a user may be issued
  SessionLimit,            \* credentials a browser session may be issued
  IssuanceWindow,          \* ... within this much time
  MaxClock,                \* bound of the model: the clock stops here
  MaxFailures              \* bound of the model: failures recorded

VARIABLES
  now,           \* the clock
  credentials,   \* Store.credentials: the map, None where it has no entry
  material,      \* the password bytes of each credential
  sources,       \* Store.sources: recent failures per source address
  userIssues,    \* Store.userIssues: recent issues per user
  sessionIssues, \* Store.sessionIssues: recent issues per browser session
  reply,         \* what the last call returned
  issueLog,      \* history: every issue that succeeded
  failureLog,    \* history: every failure that was recorded
  consumed       \* history: the credentials Consume accepted

store == <<credentials, material, sources, userIssues, sessionIssues>>
history == <<issueLog, failureLog, consumed>>
vars == <<now, store, reply, history>>

Times == 0 .. MaxClock

StoredCredential ==
  [user : Users, expiresAt : 0 .. MaxClock + TTL, failures : Nat, locked : BOOLEAN]
IssueEvent == [username : Usernames, session : Sessions, at : Times]
FailureEvent == [id : Nat, source : Sources, at : Times]

Ops == {"none", "Issue", "PendingCredential", "Consume", "RecordFailure"}
Errors == {"ok", "issuance_limited", "entropy", "source_limited",
           "not_found", "expired", "locked"}
Reply == [op : Ops, err : Errors,
          username : Usernames \cup {None}, source : Sources \cup {None}]

ASSUME StoreAssumption ==
  /\ Owner \in [Sessions -> Users]
  /\ None \notin Usernames \cup Sources \cup StoredCredential
  /\ {TTL, CredentialFailureLimit, SourceFailureLimit, SourceFailureWindow,
      UserLimit, SessionLimit, IssuanceWindow} \subseteq Nat \ {0}
  /\ {MaxClock, MaxFailures} \subseteq Nat

-----------------------------------------------------------------------------
(* What the operations look up and prune. *)

\* Mutants: the window excludes an entry exactly one window old; a limit is
\* passed before it refuses; the lifetime is taken for the issuance window; the
\* lookup forgets the clock; the bytes are not cleared; the entry is not deleted.
RecentSourceFailuresStrict(source) ==
  {f \in sources[source] : f.at > now - SourceFailureWindow}
RecentIssuanceStrict(bucket) == {i \in bucket : i.at > now - IssuanceWindow}
IssuanceLimitedLate(bucket, limit) ==
  Cardinality({i \in bucket : i.at >= now - IssuanceWindow}) > limit
NewCredentialWrongTTL(user) ==
  [user |-> user, expiresAt |-> now + TTL + IssuanceWindow, failures |-> 0, locked |-> FALSE]
LookupNoExpiry(username) ==
  IF credentials[username] = None THEN "not_found"
  ELSE IF credentials[username].locked THEN "locked"
  ELSE "ok"
DiscardKeepsBytes(username) ==
  /\ credentials' = [credentials EXCEPT ![username] = None]
  /\ UNCHANGED material
DiscardKeepsEntry(username) ==
  /\ material' = [material EXCEPT ![username] = "cleared"]
  /\ UNCHANGED credentials
SourceLimitedLate(source) ==
  Cardinality({f \in sources[source] : f.at >= now - SourceFailureWindow})
    > SourceFailureLimit

\* The entries of a bucket that are not older than the window; an entry exactly
\* one window old still counts.
RecentSourceFailures(source) ==
  {f \in sources[source] : f.at >= now - SourceFailureWindow}
RecentIssuance(bucket) == {i \in bucket : i.at >= now - IssuanceWindow}

SourceLimited(source) ==
  Cardinality(RecentSourceFailures(source)) >= SourceFailureLimit
IssuanceLimited(bucket, limit) == Cardinality(RecentIssuance(bucket)) >= limit

Expired(username) == now >= credentials[username].expiresAt

\* The checks PendingCredential and Consume share, in the order they make them.
Lookup(username) ==
  IF credentials[username] = None THEN "not_found"
  ELSE IF Expired(username) THEN "expired"
  ELSE IF credentials[username].locked THEN "locked"
  ELSE "ok"

\* clearBytes, then delete from the map.
Discard(username) ==
  /\ credentials' = [credentials EXCEPT ![username] = None]
  /\ material' = [material EXCEPT ![username] = "cleared"]

NewCredential(user) ==
  [user |-> user, expiresAt |-> now + TTL, failures |-> 0, locked |-> FALSE]

\* A failure counts, and locks at the limit, a credential locked or expired too.
Failed(credential) ==
  LET failures == credential.failures + 1 IN
  [user |-> credential.user, expiresAt |-> credential.expiresAt,
   failures |-> failures,
   locked |-> IF failures >= CredentialFailureLimit THEN TRUE ELSE credential.locked]

Issued(username) == \E i \in issueLog : i.username = username

-----------------------------------------------------------------------------
Init ==
  /\ now = 0
  /\ credentials = [c \in Usernames |-> None]
  /\ material = [c \in Usernames |-> "none"]
  /\ sources = [a \in Sources |-> {}]
  /\ userIssues = [u \in Users |-> {}]
  /\ sessionIssues = [b \in Sessions |-> {}]
  /\ reply = [op |-> "none", err |-> "ok", username |-> None, source |-> None]
  /\ issueLog = {}
  /\ failureLog = {}
  /\ consumed = {}

\* Issue refused by a limit.  The two checks are joined by ||, and each prunes
\* the bucket it looks at: a user over the limit leaves the session's bucket alone.
IssueRefused(session) ==
  LET user == Owner[session]
      userLimited == IssuanceLimited(userIssues[user], UserLimit) IN
  /\ userLimited \/ IssuanceLimited(sessionIssues[session], SessionLimit)
  /\ userIssues' = [userIssues EXCEPT ![user] = RecentIssuance(@)]
  /\ sessionIssues' =
       IF userLimited THEN sessionIssues
       ELSE [sessionIssues EXCEPT ![session] = RecentIssuance(@)]
  /\ reply' = [op |-> "Issue", err |-> "issuance_limited",
               username |-> None, source |-> None]
  /\ UNCHANGED <<now, credentials, material, sources, history>>

\* Neither limit is reached.  The random source may fail after both buckets
\* were pruned; nothing is stored then.
IssueAllowed(session) ==
  LET user == Owner[session] IN
  /\ ~ IssuanceLimited(userIssues[user], UserLimit)
  /\ ~ IssuanceLimited(sessionIssues[session], SessionLimit)
  /\ \/ /\ userIssues' = [userIssues EXCEPT ![user] = RecentIssuance(@)]
        /\ sessionIssues' = [sessionIssues EXCEPT ![session] = RecentIssuance(@)]
        /\ reply' = [op |-> "Issue", err |-> "entropy",
                     username |-> None, source |-> None]
        /\ UNCHANGED <<credentials, material, issueLog>>
     \/ \E username \in Usernames :
          LET event == [username |-> username, session |-> session, at |-> now] IN
          /\ ~ Issued(username)
          /\ credentials' = [credentials EXCEPT ![username] = NewCredential(user)]
          /\ material' = [material EXCEPT ![username] = "held"]
          /\ userIssues' = [userIssues EXCEPT ![user] = RecentIssuance(@) \cup {event}]
          /\ sessionIssues' =
               [sessionIssues EXCEPT ![session] = RecentIssuance(@) \cup {event}]
          /\ reply' = [op |-> "Issue", err |-> "ok",
                       username |-> username, source |-> None]
          /\ issueLog' = issueLog \cup {event}
  /\ UNCHANGED <<now, sources, failureLog, consumed>>

Issue(session) == IssueRefused(session) \/ IssueAllowed(session)

\* The source address is throttled before the credential is looked at.
PendingCredential(username, source) ==
  LET err == IF SourceLimited(source) THEN "source_limited" ELSE Lookup(username) IN
  /\ sources' = [sources EXCEPT ![source] = RecentSourceFailures(source)]
  /\ IF err = "expired" THEN Discard(username) ELSE UNCHANGED <<credentials, material>>
  /\ reply' = [op |-> "PendingCredential", err |-> err,
               username |-> username, source |-> source]
  /\ UNCHANGED <<now, userIssues, sessionIssues, history>>

Consume(username) ==
  LET err == Lookup(username) IN
  /\ IF err \in {"ok", "expired"}
       THEN Discard(username)
       ELSE UNCHANGED <<credentials, material>>
  /\ consumed' = IF err = "ok" THEN consumed \cup {username} ELSE consumed
  /\ reply' = [op |-> "Consume", err |-> err, username |-> username, source |-> None]
  /\ UNCHANGED <<now, sources, userIssues, sessionIssues, issueLog, failureLog>>

\* Counts the failure against the source and, if the name is in the map (even
\* expired or locked already), against the credential.
RecordFailure(username, source) ==
  LET event == [id |-> Cardinality(failureLog), source |-> source, at |-> now]
      failed == Failed(credentials[username]) IN
  /\ Cardinality(failureLog) < MaxFailures
  /\ sources' = [sources EXCEPT ![source] = RecentSourceFailures(source) \cup {event}]
  /\ failureLog' = failureLog \cup {event}
  /\ IF credentials[username] = None
       THEN UNCHANGED <<credentials, material>>
       ELSE /\ credentials' = [credentials EXCEPT ![username] = failed]
            /\ material' = [material EXCEPT
                 ![username] = IF failed.failures >= CredentialFailureLimit
                                 THEN "cleared" ELSE @]
  /\ reply' = [op |-> "RecordFailure", err |-> "ok",
               username |-> username, source |-> source]
  /\ UNCHANGED <<now, userIssues, sessionIssues, issueLog, consumed>>

Tick ==
  /\ now < MaxClock
  /\ now' = now + 1
  /\ UNCHANGED <<store, reply, history>>

Next ==
  \/ \E session \in Sessions : Issue(session)
  \/ \E username \in Usernames :
       \/ Consume(username)
       \/ \E source \in Sources :
            \/ PendingCredential(username, source)
            \/ RecordFailure(username, source)
  \/ Tick

Spec == Init /\ [][Next]_vars

\* Time passes whether or not anybody calls the store.
TimedSpec == Spec /\ WF_vars(Tick)

-----------------------------------------------------------------------------
(* Properties. *)

\* Every variable has its type.  A bucket holds only events of its own key, and
\* everything in it really happened (Store.credentials, sources, userIssues,
\* sessionIssues).
TypeOK ==
  /\ now \in Times
  /\ credentials \in [Usernames -> StoredCredential \cup {None}]
  /\ material \in [Usernames -> {"none", "held", "cleared"}]
  /\ issueLog \subseteq IssueEvent
  /\ failureLog \subseteq FailureEvent
  /\ consumed \subseteq Usernames
  /\ reply \in Reply
  /\ sources \in [Sources -> SUBSET failureLog]
  /\ userIssues \in [Users -> SUBSET issueLog]
  /\ sessionIssues \in [Sessions -> SUBSET issueLog]

IssuedToUser(user) == {i \in issueLog : Owner[i.session] = user}
IssuedToSession(session) == {i \in issueLog : i.session = session}
FailuresFrom(source) == {f \in failureLog : f.source = source}
Within(events, t, window) == {e \in events : t <= e.at /\ e.at <= t + window}

\* However the calls of several sessions of a user interleave with the lazy
\* pruning of the buckets, no stretch of time as long as the window ever saw
\* more credentials issued to one user, or to one browser session, than its
\* limit (Issue, recentIssuanceLocked).
IssuanceRateBounded ==
  \A t \in Times :
    /\ \A user \in Users :
         Cardinality(Within(IssuedToUser(user), t, IssuanceWindow)) <= UserLimit
    /\ \A session \in Sessions :
         Cardinality(Within(IssuedToSession(session), t, IssuanceWindow)) <= SessionLimit

\* Pruning loses no event that still counts: inside the window a bucket holds
\* exactly what happened, whenever the bucket was last pruned, and although a
\* refused Issue prunes one bucket or two (recentSourceFailuresLocked,
\* recentIssuanceLocked).
BucketsComplete ==
  /\ \A source \in Sources :
       Within(FailuresFrom(source), now - SourceFailureWindow, SourceFailureWindow)
         = {f \in sources[source] : f.at >= now - SourceFailureWindow}
  /\ \A user \in Users :
       Within(IssuedToUser(user), now - IssuanceWindow, IssuanceWindow)
         = {i \in userIssues[user] : i.at >= now - IssuanceWindow}
  /\ \A session \in Sessions :
       Within(IssuedToSession(session), now - IssuanceWindow, IssuanceWindow)
         = {i \in sessionIssues[session] : i.at >= now - IssuanceWindow}

\* A password is held in memory only for a credential that is in the map and
\* not locked; every way out of that state - use, expiry noticed by either
\* lookup, lockout - clears the bytes (clearBytes).
MaterialOnlyWhileUsable ==
  \A c \in Usernames :
    material[c] = "held" <=> credentials[c] # None /\ ~ credentials[c].locked

\* Verifier material leaves the store only for a source with fewer failures in
\* the last window than the limit, and the throttle refuses only a source that
\* has reached it (PendingCredential, sourceLimitedLocked).
ThrottleExact ==
  [][reply'.op = "PendingCredential" =>
       (reply'.err = "source_limited" <=>
          Cardinality(Within(FailuresFrom(reply'.source),
                             now - SourceFailureWindow, SourceFailureWindow))
            >= SourceFailureLimit)]_reply

\* The lazy store as an eager one-time credential.
Phase(c) ==
  IF c \in consumed THEN "used"
  ELSE IF ~ Issued(c) THEN "unissued"
  ELSE IF credentials[c] = None \/ credentials[c].locked \/ Expired(c) THEN "dead"
  ELSE "live"
AbstractCredential(c) ==
  IF Phase(c) = "live"
    THEN [phase |-> "live", deadline |-> credentials[c].expiresAt,
          strikes |-> credentials[c].failures]
    ELSE [phase |-> Phase(c), deadline |-> 0, strikes |-> 0]

OTC == INSTANCE OneTimeCredential
         WITH Credentials <- Usernames, Lifetime <- TTL,
              FailureLimit <- CredentialFailureLimit,
              otc <- [c \in Usernames |-> AbstractCredential(c)]

\* Each stored credential is a one-time credential: used at most once, only
\* within its lifetime and before too many failures, and never revived, although
\* expiry is only noticed by lookups that may come late or never (Issue,
\* PendingCredential, Consume, RecordFailure).
ImplementsOneTimeCredential == OTC!Spec

\* docs/design-docs/adr/0001-...:42 has the store clear password material on expiry:
\* held material of an expired credential would be cleared eventually.
ExpiredMaterialCleared ==
  \A c \in Usernames :
    (credentials[c] # None /\ Expired(c) /\ material[c] = "held")
      ~> material[c] = "cleared"

=============================================================================
