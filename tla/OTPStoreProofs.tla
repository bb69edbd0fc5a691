--------------------------- MODULE OTPStoreProofs ---------------------------
(***************************************************************************)
(* Theorems about the credential store, for any sets of users, sessions,   *)
(* sources and usernames and any limits, windows and bounds.               *)
(***************************************************************************)
EXTENDS OTPStore, FiniteSetTheorems, TLAPS

(***************************************************************************)
(* Type correctness.  That the histories are finite is part of the         *)
(* induction: a failure is numbered by how many there were before it.      *)
(***************************************************************************)
TypeInv == TypeOK /\ IsFiniteSet(issueLog) /\ IsFiniteSet(failureLog)

\* Initially every variable has its type (NewStore).
LEMMA InitTypeInv == Init => TypeInv
BY StoreAssumption, FS_EmptySet
   DEF Init, TypeInv, TypeOK, Times, Reply, Ops, Errors

\* Discarding a credential keeps the map and the bytes in their types.
LEMMA DiscardType ==
  ASSUME TypeOK, NEW username \in Usernames, Discard(username)
  PROVE  /\ credentials' \in [Usernames -> StoredCredential \cup {None}]
         /\ material' \in [Usernames -> {"none", "held", "cleared"}]
BY DEF TypeOK, Discard

\* What recording a failure makes of a credential.
LEMMA FailedFields ==
  ASSUME NEW k \in StoredCredential
  PROVE  /\ Failed(k) \in StoredCredential
         /\ Failed(k).failures = k.failures + 1
         /\ Failed(k).expiresAt = k.expiresAt
         /\ k.failures + 1 >= CredentialFailureLimit => Failed(k).locked
         /\ ~ (k.failures + 1 >= CredentialFailureLimit) => Failed(k).locked = k.locked
<1>k. /\ k.user \in Users /\ k.expiresAt \in 0 .. MaxClock + TTL
      /\ k.failures + 1 \in Nat /\ k.locked \in BOOLEAN
  BY DEF StoredCredential
<1>1. CASE k.failures + 1 >= CredentialFailureLimit
  <2>1. Failed(k) = [user |-> k.user, expiresAt |-> k.expiresAt,
                     failures |-> k.failures + 1, locked |-> TRUE]
    BY <1>1 DEF Failed
  <2>2. Failed(k).failures = k.failures + 1 /\ Failed(k).expiresAt = k.expiresAt
    BY <2>1
  <2>3. Failed(k).locked
    BY <2>1
  <2>4. Failed(k) \in StoredCredential
    BY <1>k, <2>1 DEF StoredCredential
  <2> QED
    BY <1>1, <2>2, <2>3, <2>4
<1>2. CASE ~ (k.failures + 1 >= CredentialFailureLimit)
  <2>1. Failed(k) = [user |-> k.user, expiresAt |-> k.expiresAt,
                     failures |-> k.failures + 1, locked |-> k.locked]
    BY <1>2 DEF Failed
  <2> QED
    BY <1>k, <1>2, <2>1 DEF StoredCredential
<1> QED
  BY <1>1, <1>2

\* No step breaks a type, and no step makes a history infinite.
LEMMA NextTypeInv == TypeInv /\ [Next]_vars => TypeInv'
<1> SUFFICES ASSUME TypeInv, [Next]_vars PROVE TypeInv'
  OBVIOUS
<1> USE StoreAssumption
<1>t. TypeOK /\ IsFiniteSet(issueLog) /\ IsFiniteSet(failureLog)
  BY DEF TypeInv
<1>1. CASE \E session \in Sessions : Issue(session)
  <2> PICK session \in Sessions : Issue(session)
    BY <1>1
  <2>1. CASE IssueRefused(session)
    BY <1>t, <2>1 DEF IssueRefused, TypeInv, TypeOK, history, RecentIssuance,
                      Reply, Ops, Errors
  <2>2. CASE IssueAllowed(session)
    <3> DEFINE user == Owner[session]
    <3>1. CASE UNCHANGED <<credentials, material, issueLog>>
      BY <1>t, <2>2, <3>1 DEF IssueAllowed, TypeInv, TypeOK, RecentIssuance,
                              Reply, Ops, Errors
    <3>2. CASE ~ UNCHANGED <<credentials, material, issueLog>>
      <4> DEFINE event(c) == [username |-> c, session |-> session, at |-> now]
      <4>1. PICK c \in Usernames :
              /\ credentials' = [credentials EXCEPT ![c] = NewCredential(user)]
              /\ material' = [material EXCEPT ![c] = "held"]
              /\ userIssues' = [userIssues EXCEPT ![user] =
                                  RecentIssuance(@) \cup {event(c)}]
              /\ sessionIssues' = [sessionIssues EXCEPT ![session] =
                                     RecentIssuance(@) \cup {event(c)}]
              /\ reply' = [op |-> "Issue", err |-> "ok",
                           username |-> c, source |-> None]
              /\ issueLog' = issueLog \cup {event(c)}
        BY <2>2, <3>2 DEF IssueAllowed
      <4>2. event(c) \in IssueEvent
        BY <1>t DEF TypeOK, IssueEvent
      <4>3. NewCredential(user) \in StoredCredential
        BY <1>t DEF NewCredential, StoredCredential, TypeOK, Times
      <4>4. UNCHANGED <<now, sources, failureLog, consumed>>
        BY <2>2 DEF IssueAllowed
      <4>5. IsFiniteSet(issueLog')
        BY <1>t, <4>1, FS_AddElement
      <4> HIDE DEF event
      <4>6. /\ now' \in Times
            /\ credentials' \in [Usernames -> StoredCredential \cup {None}]
            /\ material' \in [Usernames -> {"none", "held", "cleared"}]
            /\ issueLog' \subseteq IssueEvent
        BY <1>t, <4>1, <4>2, <4>3, <4>4 DEF TypeOK
      <4>7. /\ userIssues' \in [Users -> SUBSET issueLog']
            /\ sessionIssues' \in [Sessions -> SUBSET issueLog']
        BY <1>t, <4>1 DEF TypeOK, RecentIssuance
      <4>8. reply' \in Reply
        BY <4>1 DEF Reply, Ops, Errors
      <4> QED
        BY <1>t, <4>4, <4>5, <4>6, <4>7, <4>8 DEF TypeInv, TypeOK
    <3> QED
      BY <3>1, <3>2
  <2> QED
    BY <2>1, <2>2 DEF Issue
<1>2. CASE \E username \in Usernames : Consume(username)
  <2> PICK username \in Usernames : Consume(username)
    BY <1>2
  <2>1. /\ credentials' \in [Usernames -> StoredCredential \cup {None}]
        /\ material' \in [Usernames -> {"none", "held", "cleared"}]
    BY <1>t, DiscardType DEF Consume, TypeOK
  <2>2. Lookup(username) \in Errors
    BY DEF Lookup, Errors
  <2>3. reply' \in Reply
    BY <2>2 DEF Consume, Reply, Ops
  <2>4. consumed' \subseteq Usernames
    BY <1>t DEF Consume, TypeOK
  <2> QED
    BY <1>t, <2>1, <2>3, <2>4 DEF Consume, TypeInv, TypeOK
<1>3. CASE \E username \in Usernames, source \in Sources :
             PendingCredential(username, source)
  <2> PICK username \in Usernames, source \in Sources :
             PendingCredential(username, source)
    BY <1>3
  <2>1. /\ credentials' \in [Usernames -> StoredCredential \cup {None}]
        /\ material' \in [Usernames -> {"none", "held", "cleared"}]
    BY <1>t, DiscardType DEF PendingCredential, TypeOK
  <2>2. Lookup(username) \in Errors
    BY DEF Lookup, Errors
  <2>3. reply' \in Reply
    BY <2>2 DEF PendingCredential, Reply, Ops, Errors
  <2>4. sources' \in [Sources -> SUBSET failureLog]
    BY <1>t DEF PendingCredential, TypeOK, RecentSourceFailures
  <2> QED
    BY <1>t, <2>1, <2>3, <2>4 DEF PendingCredential, TypeInv, TypeOK, history
<1>4. CASE \E username \in Usernames, source \in Sources :
             RecordFailure(username, source)
  <2> PICK username \in Usernames, source \in Sources :
             RecordFailure(username, source)
    BY <1>4
  <2> DEFINE event == [id |-> Cardinality(failureLog), source |-> source, at |-> now]
  <2>1. event \in FailureEvent
    BY <1>t, FS_CardinalityType DEF FailureEvent, TypeOK
  <2>2. /\ credentials' \in [Usernames -> StoredCredential \cup {None}]
        /\ material' \in [Usernames -> {"none", "held", "cleared"}]
    <3>1. ASSUME credentials[username] # None
          PROVE  Failed(credentials[username]) \in StoredCredential
      <4>1. credentials[username] \in StoredCredential
        BY <1>t, <3>1 DEF TypeOK
      <4> QED
        BY <4>1, FailedFields
    <3> QED
      BY <1>t, <3>1 DEF RecordFailure, TypeOK
  <2>3. /\ failureLog' = failureLog \cup {event}
        /\ sources' = [sources EXCEPT ![source] =
                         RecentSourceFailures(source) \cup {event}]
        /\ UNCHANGED <<now, userIssues, sessionIssues, issueLog, consumed>>
    BY DEF RecordFailure
  <2> HIDE DEF event
  <2>4. IsFiniteSet(failureLog') /\ failureLog' \subseteq FailureEvent
    BY <1>t, <2>1, <2>3, FS_AddElement DEF TypeOK
  <2>5. sources' \in [Sources -> SUBSET failureLog']
    BY <1>t, <2>3 DEF TypeOK, RecentSourceFailures
  <2>6. reply' \in Reply
    BY DEF RecordFailure, Reply, Ops, Errors
  <2> QED
    BY <1>t, <2>2, <2>3, <2>4, <2>5, <2>6 DEF TypeInv, TypeOK
<1>5. CASE Tick
  BY <1>t, <1>5 DEF Tick, store, history, TypeInv, TypeOK, Times
<1>6. CASE UNCHANGED vars
  BY <1>t, <1>6 DEF vars, store, history, TypeInv, TypeOK
<1> QED
  BY <1>1, <1>2, <1>3, <1>4, <1>5, <1>6 DEF Next

\* In every state the store can reach, every variable has its type and every
\* bucket entry stands for something that happened (Store and its maps).
THEOREM TypeCorrect == Spec => []TypeOK
<1>1. Spec => []TypeInv
  BY InitTypeInv, NextTypeInv, PTL DEF Spec
<1> QED
  BY <1>1, PTL DEF TypeInv

-----------------------------------------------------------------------------
(***************************************************************************)
(* Issuance is rate limited.  The invariant alone is not inductive: the    *)
(* code decides by its pruned buckets and the property speaks of the       *)
(* history, so the induction also carries that no entry of the history is  *)
(* later than the clock and that the buckets are complete.                 *)
(***************************************************************************)
Past ==
  /\ \A i \in issueLog : i.at <= now
  /\ \A f \in failureLog : f.at <= now

RateInv == TypeInv /\ Past /\ BucketsComplete /\ IssuanceRateBounded

\* The counting argument.  An event is added at the clock's time when fewer than
\* limit events lie in the window that ends now: no window holds more than limit.
LEMMA WindowBound ==
  ASSUME NEW E, NEW F, NEW event, NEW clock \in Int, NEW t \in Int,
         NEW window \in Nat, NEW limit \in Nat,
         IsFiniteSet(E), \A e \in E : e.at \in Int /\ e.at <= clock,
         F \subseteq E \cup {event}, event.at = clock,
         Cardinality(Within(E, clock - window, window)) < limit,
         Cardinality(Within(E, t, window)) <= limit
  PROVE  Cardinality(Within(F, t, window)) <= limit
<1> DEFINE recent == Within(E, clock - window, window)
<1>1. /\ IsFiniteSet(recent) /\ Cardinality(recent) \in Nat
      /\ IsFiniteSet(Within(E, t, window)) /\ Cardinality(Within(E, t, window)) \in Nat
  <2>1. recent \subseteq E /\ Within(E, t, window) \subseteq E
    BY DEF Within
  <2> QED
    BY <2>1, FS_Subset, FS_CardinalityType
<1>2. CASE t <= clock /\ clock <= t + window
  <2>1. Within(F, t, window) \subseteq recent \cup {event}
    BY <1>2 DEF Within
  <2>2. /\ IsFiniteSet(recent \cup {event})
        /\ Cardinality(recent \cup {event}) \in Nat
        /\ Cardinality(recent \cup {event}) <= Cardinality(recent) + 1
    <3> HIDE DEF recent
    <3>1. IsFiniteSet(recent \cup {event})
      BY <1>1, FS_AddElement
    <3>2. \/ Cardinality(recent \cup {event}) = Cardinality(recent)
          \/ Cardinality(recent \cup {event}) = Cardinality(recent) + 1
      BY <1>1, FS_AddElement
    <3> QED
      BY <1>1, <3>1, <3>2
  <2>3. /\ Cardinality(Within(F, t, window)) \in Nat
        /\ Cardinality(Within(F, t, window)) <= Cardinality(recent \cup {event})
    BY <2>1, <2>2, FS_Subset, FS_CardinalityType
  <2> QED
    BY <1>1, <2>2, <2>3
<1>3. CASE ~ (t <= clock /\ clock <= t + window)
  <2>1. Within(F, t, window) \subseteq Within(E, t, window)
    BY <1>3 DEF Within
  <2>2. /\ Cardinality(Within(F, t, window)) \in Nat
        /\ Cardinality(Within(F, t, window)) <= Cardinality(Within(E, t, window))
    BY <1>1, <2>1, FS_Subset, FS_CardinalityType
  <2> QED
    BY <1>1, <2>2
<1> QED
  BY <1>2, <1>3

\* At the start nothing has been issued and no bucket has an entry (NewStore).
LEMMA InitRateInv == Init => RateInv
<1> SUFFICES ASSUME Init PROVE RateInv
  OBVIOUS
<1>1. issueLog = {} /\ failureLog = {}
  BY DEF Init
<1>2. Past
  BY <1>1 DEF Past
<1>3. BucketsComplete
  BY DEF Init, BucketsComplete, Within, FailuresFrom, IssuedToUser, IssuedToSession
<1>4. IssuanceRateBounded
  <2>1. ASSUME NEW t \in Times, NEW E, E \subseteq issueLog
        PROVE  Within(E, t, IssuanceWindow) = {}
    BY <1>1, <2>1 DEF Within
  <2>2. UserLimit \in Nat /\ SessionLimit \in Nat
    BY StoreAssumption
  <2>3. Cardinality({}) <= UserLimit /\ Cardinality({}) <= SessionLimit
    BY <2>2, FS_EmptySet
  <2>4. ASSUME NEW t \in Times, NEW user \in Users
        PROVE  Within(IssuedToUser(user), t, IssuanceWindow) = {}
    BY <2>1 DEF IssuedToUser
  <2>5. ASSUME NEW t \in Times, NEW session \in Sessions
        PROVE  Within(IssuedToSession(session), t, IssuanceWindow) = {}
    BY <2>1 DEF IssuedToSession
  <2> QED
    BY <2>3, <2>4, <2>5 DEF IssuanceRateBounded
<1> QED
  BY <1>2, <1>3, <1>4, InitTypeInv DEF RateInv

\* A step that only prunes buckets of issues, if it touches them at all, keeps
\* everything said of issues.
LEMMA PruneKeepsIssues ==
  ASSUME RateInv, UNCHANGED <<now, issueLog>>,
         userIssues' \in [Users -> SUBSET issueLog],
         sessionIssues' \in [Sessions -> SUBSET issueLog],
         \A u \in Users : /\ userIssues'[u] \subseteq userIssues[u]
                          /\ RecentIssuance(userIssues[u]) \subseteq userIssues'[u],
         \A b \in Sessions : /\ sessionIssues'[b] \subseteq sessionIssues[b]
                             /\ RecentIssuance(sessionIssues[b]) \subseteq sessionIssues'[b]
  PROVE  /\ IssuanceRateBounded'
         /\ \A user \in Users :
              Within(IssuedToUser(user), now - IssuanceWindow, IssuanceWindow)'
                = {i \in userIssues'[user] : i.at >= now' - IssuanceWindow}
         /\ \A session \in Sessions :
              Within(IssuedToSession(session), now - IssuanceWindow, IssuanceWindow)'
                = {i \in sessionIssues'[session] : i.at >= now' - IssuanceWindow}
<1>1. IssuanceRateBounded'
  BY DEF RateInv, IssuanceRateBounded, Within, IssuedToUser, IssuedToSession
<1>2. ASSUME NEW user \in Users
      PROVE  Within(IssuedToUser(user), now - IssuanceWindow, IssuanceWindow)'
               = {i \in userIssues'[user] : i.at >= now' - IssuanceWindow}
  <2>1. Within(IssuedToUser(user), now - IssuanceWindow, IssuanceWindow)'
          = Within(IssuedToUser(user), now - IssuanceWindow, IssuanceWindow)
    BY DEF Within, IssuedToUser
  <2>2. {i \in userIssues'[user] : i.at >= now' - IssuanceWindow}
          = RecentIssuance(userIssues[user])
    BY DEF RecentIssuance
  <2> QED
    BY <2>1, <2>2 DEF RateInv, BucketsComplete, RecentIssuance
<1>3. ASSUME NEW session \in Sessions
      PROVE  Within(IssuedToSession(session), now - IssuanceWindow, IssuanceWindow)'
               = {i \in sessionIssues'[session] : i.at >= now' - IssuanceWindow}
  <2>1. Within(IssuedToSession(session), now - IssuanceWindow, IssuanceWindow)'
          = Within(IssuedToSession(session), now - IssuanceWindow, IssuanceWindow)
    BY DEF Within, IssuedToSession
  <2>2. {i \in sessionIssues'[session] : i.at >= now' - IssuanceWindow}
          = RecentIssuance(sessionIssues[session])
    BY DEF RecentIssuance
  <2> QED
    BY <2>1, <2>2 DEF RateInv, BucketsComplete, RecentIssuance
<1> QED
  BY <1>1, <1>2, <1>3

\* A successful Issue adds one event at the clock's time to a user, a session and
\* the log, and neither had reached its limit.
LEMMA IssueAddsOne ==
  ASSUME RateInv, NEW session \in Sessions, NEW username \in Usernames, NEW event,
         event = [username |-> username, session |-> session, at |-> now],
         ~ IssuanceLimited(userIssues[Owner[session]], UserLimit),
         ~ IssuanceLimited(sessionIssues[session], SessionLimit),
         now' = now, issueLog' = issueLog \cup {event},
         userIssues' = [userIssues EXCEPT
           ![Owner[session]] = RecentIssuance(@) \cup {event}],
         sessionIssues' = [sessionIssues EXCEPT
           ![session] = RecentIssuance(@) \cup {event}]
  PROVE  /\ IssuanceRateBounded'
         /\ \A u \in Users :
              Within(IssuedToUser(u), now - IssuanceWindow, IssuanceWindow)'
                = {i \in userIssues'[u] : i.at >= now' - IssuanceWindow}
         /\ \A b \in Sessions :
              Within(IssuedToSession(b), now - IssuanceWindow, IssuanceWindow)'
                = {i \in sessionIssues'[b] : i.at >= now' - IssuanceWindow}
<1>t. /\ TypeOK /\ IsFiniteSet(issueLog) /\ BucketsComplete /\ IssuanceRateBounded
      /\ \A i \in issueLog : i.at <= now
  BY DEF RateInv, TypeInv, Past
<1>c. /\ IssuanceWindow \in Nat /\ UserLimit \in Nat /\ SessionLimit \in Nat
      /\ Owner \in [Sessions -> Users] /\ Times \subseteq Int /\ now \in Int
  BY <1>t, StoreAssumption DEF TypeOK, Times
<1>e. event.at = now /\ event.session = session
  OBVIOUS
<1>i. \A i \in issueLog : i.at \in Int /\ i.at <= now
  BY <1>t, <1>c DEF TypeOK, IssueEvent
<1>1. ASSUME NEW u \in Users
      PROVE  IssuedToUser(u)' = IF u = Owner[session] THEN IssuedToUser(u) \cup {event}
                                ELSE IssuedToUser(u)
  BY <1>e DEF IssuedToUser
<1>2. ASSUME NEW b \in Sessions
      PROVE  IssuedToSession(b)' = IF b = session THEN IssuedToSession(b) \cup {event}
                                   ELSE IssuedToSession(b)
  BY <1>e DEF IssuedToSession
<1>3. ASSUME NEW t \in Times, NEW u \in Users
      PROVE  Cardinality(Within(IssuedToUser(u)', t, IssuanceWindow)) <= UserLimit
  <2>1. Cardinality(Within(IssuedToUser(u), t, IssuanceWindow)) <= UserLimit
    BY <1>t DEF IssuanceRateBounded
  <2>2. CASE u = Owner[session]
    <3>1. Within(IssuedToUser(u), now - IssuanceWindow, IssuanceWindow)
            = RecentIssuance(userIssues[u])
      BY <1>t DEF BucketsComplete, RecentIssuance
    <3>2. /\ IsFiniteSet(IssuedToUser(u))
          /\ Within(IssuedToUser(u), now - IssuanceWindow, IssuanceWindow)
               \subseteq IssuedToUser(u)
          /\ \A i \in IssuedToUser(u) : i.at \in Int /\ i.at <= now
      BY <1>t, <1>i, FS_Subset DEF IssuedToUser, Within
    <3>3. Cardinality(Within(IssuedToUser(u), now - IssuanceWindow, IssuanceWindow))
            \in Nat
      BY <3>2, FS_Subset, FS_CardinalityType
    <3>4. Cardinality(Within(IssuedToUser(u), now - IssuanceWindow, IssuanceWindow))
            < UserLimit
      BY <1>c, <2>2, <3>1, <3>3 DEF IssuanceLimited
    <3> QED
      BY <1>1, <1>c, <1>e, <2>1, <2>2, <3>2, <3>4, WindowBound
  <2> QED
    BY <1>1, <2>1, <2>2
<1>4. ASSUME NEW t \in Times, NEW b \in Sessions
      PROVE  Cardinality(Within(IssuedToSession(b)', t, IssuanceWindow)) <= SessionLimit
  <2>1. Cardinality(Within(IssuedToSession(b), t, IssuanceWindow)) <= SessionLimit
    BY <1>t DEF IssuanceRateBounded
  <2>2. CASE b = session
    <3>1. Within(IssuedToSession(b), now - IssuanceWindow, IssuanceWindow)
            = RecentIssuance(sessionIssues[b])
      BY <1>t DEF BucketsComplete, RecentIssuance
    <3>2. /\ IsFiniteSet(IssuedToSession(b))
          /\ Within(IssuedToSession(b), now - IssuanceWindow, IssuanceWindow)
               \subseteq IssuedToSession(b)
          /\ \A i \in IssuedToSession(b) : i.at \in Int /\ i.at <= now
      BY <1>t, <1>i, FS_Subset DEF IssuedToSession, Within
    <3>3. Cardinality(Within(IssuedToSession(b), now - IssuanceWindow, IssuanceWindow))
            \in Nat
      BY <3>2, FS_Subset, FS_CardinalityType
    <3>4. Cardinality(Within(IssuedToSession(b), now - IssuanceWindow, IssuanceWindow))
            < SessionLimit
      BY <1>c, <2>2, <3>1, <3>3 DEF IssuanceLimited
    <3> QED
      BY <1>2, <1>c, <1>e, <2>1, <2>2, <3>2, <3>4, WindowBound
  <2> QED
    BY <1>2, <2>1, <2>2
<1>5. ASSUME NEW u \in Users
      PROVE  Within(IssuedToUser(u), now - IssuanceWindow, IssuanceWindow)'
               = {i \in userIssues'[u] : i.at >= now' - IssuanceWindow}
  <2>1. Within(IssuedToUser(u), now - IssuanceWindow, IssuanceWindow)'
          = Within(IssuedToUser(u)', now - IssuanceWindow, IssuanceWindow)
    BY DEF Within
  <2>2. Within(IssuedToUser(u), now - IssuanceWindow, IssuanceWindow)
          = RecentIssuance(userIssues[u])
    BY <1>t DEF BucketsComplete, RecentIssuance
  <2>3. userIssues'[u] = IF u = Owner[session]
                           THEN RecentIssuance(userIssues[u]) \cup {event}
                           ELSE userIssues[u]
    BY <1>t DEF TypeOK
  <2> QED
    BY <1>1, <1>c, <1>e, <2>1, <2>2, <2>3 DEF Within, RecentIssuance
<1>6. ASSUME NEW b \in Sessions
      PROVE  Within(IssuedToSession(b), now - IssuanceWindow, IssuanceWindow)'
               = {i \in sessionIssues'[b] : i.at >= now' - IssuanceWindow}
  <2>1. Within(IssuedToSession(b), now - IssuanceWindow, IssuanceWindow)'
          = Within(IssuedToSession(b)', now - IssuanceWindow, IssuanceWindow)
    BY DEF Within
  <2>2. Within(IssuedToSession(b), now - IssuanceWindow, IssuanceWindow)
          = RecentIssuance(sessionIssues[b])
    BY <1>t DEF BucketsComplete, RecentIssuance
  <2>3. sessionIssues'[b] = IF b = session
                              THEN RecentIssuance(sessionIssues[b]) \cup {event}
                              ELSE sessionIssues[b]
    BY <1>t DEF TypeOK
  <2> QED
    BY <1>2, <1>c, <1>e, <2>1, <2>2, <2>3 DEF Within, RecentIssuance
<1>7. IssuanceRateBounded'
  <2>1. \A E, t : Within(E, t, IssuanceWindow)
                   = {e \in E : t <= e.at /\ e.at <= t + IssuanceWindow}
    BY DEF Within
  <2> QED
    BY <1>3, <1>4, <2>1 DEF IssuanceRateBounded
<1> QED
  BY <1>5, <1>6, <1>7

\* The two halves of BucketsComplete: calls of Issue disturb one, attempts to
\* authenticate the other.
SourceBuckets ==
  \A source \in Sources :
    Within(FailuresFrom(source), now - SourceFailureWindow, SourceFailureWindow)
      = {f \in sources[source] : f.at >= now - SourceFailureWindow}
IssueBuckets ==
  /\ \A user \in Users :
       Within(IssuedToUser(user), now - IssuanceWindow, IssuanceWindow)
         = {i \in userIssues[user] : i.at >= now - IssuanceWindow}
  /\ \A session \in Sessions :
       Within(IssuedToSession(session), now - IssuanceWindow, IssuanceWindow)
         = {i \in sessionIssues[session] : i.at >= now - IssuanceWindow}

LEMMA Halves == BucketsComplete <=> SourceBuckets /\ IssueBuckets
BY DEF BucketsComplete, SourceBuckets, IssueBuckets

\* A step that leaves the issues alone keeps what is said of them.
LEMMA IssuesUntouched ==
  ASSUME RateInv, UNCHANGED <<now, issueLog, userIssues, sessionIssues>>
  PROVE  IssuanceRateBounded' /\ IssueBuckets'
BY Halves DEF RateInv, IssueBuckets, IssuanceRateBounded, Within,
              IssuedToUser, IssuedToSession

\* A step that leaves the failures alone keeps what is said of them.
LEMMA FailuresUntouched ==
  ASSUME RateInv, UNCHANGED <<now, failureLog, sources>>
  PROVE  SourceBuckets'
BY Halves DEF RateInv, SourceBuckets, Within, FailuresFrom

\* No step lets a window hold too many issues or a bucket miss an entry.
LEMMA NextRateInv == RateInv /\ [Next]_vars => RateInv'
<1> SUFFICES ASSUME RateInv, [Next]_vars PROVE RateInv'
  OBVIOUS
<1>t. TypeInv /\ TypeInv' /\ TypeOK /\ TypeOK' /\ Past
  BY NextTypeInv DEF RateInv, TypeInv
<1>c. /\ now \in Int /\ IssuanceWindow \in Nat /\ SourceFailureWindow \in Nat
      /\ Owner \in [Sessions -> Users]
      /\ \A i \in issueLog : i.at \in Int
      /\ \A f \in failureLog : f.at \in Int
  BY <1>t, StoreAssumption DEF TypeOK, Times, IssueEvent, FailureEvent
<1>b. SourceBuckets /\ IssueBuckets
  BY Halves DEF RateInv
<1>p. SUFFICES Past' /\ SourceBuckets' /\ IssueBuckets' /\ IssuanceRateBounded'
  BY <1>t, Halves, PTL DEF RateInv, BucketsComplete, SourceBuckets, IssueBuckets
<1>1. CASE \E session \in Sessions : Issue(session)
  <2> PICK session \in Sessions : Issue(session)
    BY <1>1
  <2> DEFINE user == Owner[session]
  <2>0. /\ user \in Users /\ UNCHANGED <<now, failureLog, sources>>
        /\ userIssues \in [Users -> SUBSET issueLog]
        /\ sessionIssues \in [Sessions -> SUBSET issueLog]
    BY <1>c, <1>t DEF Issue, IssueRefused, IssueAllowed, history, TypeOK
  <2>1. SourceBuckets'
    BY <2>0, FailuresUntouched
  <2>2. CASE UNCHANGED issueLog
    <3>1. /\ userIssues' = [userIssues EXCEPT ![user] = RecentIssuance(@)]
          /\ \/ sessionIssues' = sessionIssues
             \/ sessionIssues' = [sessionIssues EXCEPT ![session] = RecentIssuance(@)]
      <4>1. CASE IssueRefused(session)
        BY <4>1 DEF IssueRefused
      <4>2. CASE IssueAllowed(session)
        <5>1. ASSUME NEW c \in Usernames, ~ Issued(c),
                     issueLog' = issueLog \cup
                       {[username |-> c, session |-> session, at |-> now]}
              PROVE  FALSE
          <6> DEFINE event == [username |-> c, session |-> session, at |-> now]
          <6>1. event \in issueLog /\ event.username = c
            BY <2>2, <5>1
          <6> QED
            BY <5>1, <6>1 DEF Issued
        <5> QED
          BY <4>2, <5>1 DEF IssueAllowed
      <4> QED
        BY <4>1, <4>2 DEF Issue
    <3>2. /\ userIssues' \in [Users -> SUBSET issueLog]
          /\ sessionIssues' \in [Sessions -> SUBSET issueLog]
          /\ \A u \in Users : /\ userIssues'[u] \subseteq userIssues[u]
                              /\ RecentIssuance(userIssues[u]) \subseteq userIssues'[u]
          /\ \A b \in Sessions :
               /\ sessionIssues'[b] \subseteq sessionIssues[b]
               /\ RecentIssuance(sessionIssues[b]) \subseteq sessionIssues'[b]
      BY <2>0, <3>1 DEF RecentIssuance
    <3>3. IssuanceRateBounded' /\ IssueBuckets'
      BY <2>0, <2>2, <3>2, PruneKeepsIssues DEF IssueBuckets
    <3> QED
      BY <1>t, <2>0, <2>1, <2>2, <3>3 DEF Past
  <2>3. CASE ~ UNCHANGED issueLog
    <3>1. IssueAllowed(session)
      BY <2>3 DEF Issue, IssueRefused, history
    <3>2. PICK username \in Usernames, event \in IssueEvent :
            /\ event = [username |-> username, session |-> session, at |-> now]
            /\ userIssues' = [userIssues EXCEPT ![user] = RecentIssuance(@) \cup {event}]
            /\ sessionIssues' =
                 [sessionIssues EXCEPT ![session] = RecentIssuance(@) \cup {event}]
            /\ issueLog' = issueLog \cup {event}
      BY <1>t, <2>3, <3>1 DEF IssueAllowed, IssueEvent, TypeOK
    <3>3. /\ ~ IssuanceLimited(userIssues[user], UserLimit)
          /\ ~ IssuanceLimited(sessionIssues[session], SessionLimit)
      BY <3>1 DEF IssueAllowed
    <3>4. IssuanceRateBounded' /\ IssueBuckets'
      BY <2>0, <3>2, <3>3, IssueAddsOne DEF IssueBuckets
    <3>5. Past'
      BY <1>c, <1>t, <2>0, <3>2 DEF Past
    <3> QED
      BY <2>1, <3>4, <3>5
  <2> QED
    BY <2>2, <2>3
<1>2. CASE \E username \in Usernames : Consume(username)
  <2>1. UNCHANGED <<now, sources, failureLog, issueLog, userIssues, sessionIssues>>
    BY <1>2 DEF Consume
  <2> QED
    BY <1>t, <2>1, IssuesUntouched, FailuresUntouched DEF Past
<1>3. CASE \E username \in Usernames, source \in Sources :
             PendingCredential(username, source)
  <2> PICK username \in Usernames, source \in Sources :
             PendingCredential(username, source)
    BY <1>3
  <2>1. /\ UNCHANGED <<now, failureLog, issueLog, userIssues, sessionIssues>>
        /\ sources' = [sources EXCEPT ![source] = RecentSourceFailures(source)]
    BY DEF PendingCredential, history
  <2>2. SourceBuckets'
    BY <1>b, <1>t, <2>1 DEF SourceBuckets, Within, FailuresFrom, RecentSourceFailures, TypeOK
  <2> QED
    BY <1>t, <2>1, <2>2, IssuesUntouched DEF Past
<1>4. CASE \E username \in Usernames, source \in Sources :
             RecordFailure(username, source)
  <2> PICK username \in Usernames, source \in Sources :
             RecordFailure(username, source)
    BY <1>4
  <2>1. PICK event \in [id : {Cardinality(failureLog)}, source : {source}, at : {now}] :
          /\ failureLog' = failureLog \cup {event}
          /\ sources' = [sources EXCEPT ![source] =
                           RecentSourceFailures(source) \cup {event}]
          /\ UNCHANGED <<now, issueLog, userIssues, sessionIssues>>
    BY DEF RecordFailure
  <2>2. event.source = source /\ event.at = now
    OBVIOUS
  <2>3. ASSUME NEW s \in Sources
        PROVE  Within(FailuresFrom(s), now - SourceFailureWindow, SourceFailureWindow)'
                 = {f \in sources'[s] : f.at >= now' - SourceFailureWindow}
    <3>1. FailuresFrom(s)' = IF s = source THEN FailuresFrom(s) \cup {event}
                             ELSE FailuresFrom(s)
      BY <2>1, <2>2 DEF FailuresFrom
    <3>2. sources'[s] = IF s = source THEN RecentSourceFailures(s) \cup {event}
                        ELSE sources[s]
      BY <1>t, <2>1 DEF TypeOK
    <3>3. Within(FailuresFrom(s), now - SourceFailureWindow, SourceFailureWindow)
            = {f \in sources[s] : f.at >= now - SourceFailureWindow}
      BY <1>b DEF SourceBuckets
    <3> QED
      BY <1>c, <2>1, <2>2, <3>1, <3>2, <3>3 DEF Within, RecentSourceFailures
  <2>4. SourceBuckets'
    BY <2>3 DEF SourceBuckets
  <2>5. Past'
    BY <1>c, <1>t, <2>1, <2>2 DEF Past
  <2> QED
    BY <2>1, <2>4, <2>5, IssuesUntouched
<1>5. CASE Tick
  <2>1. now' = now + 1 /\ UNCHANGED <<sources, userIssues, sessionIssues, issueLog, failureLog>>
    BY <1>5 DEF Tick, store, history
  <2>2. Past'
    BY <1>c, <1>t, <2>1 DEF Past
  <2>3. IssuanceRateBounded'
    BY <2>1 DEF RateInv, IssuanceRateBounded, Within, IssuedToUser, IssuedToSession
  <2>4. SourceBuckets'
    <3>1. ASSUME NEW s \in Sources
          PROVE  Within(FailuresFrom(s), now + 1 - SourceFailureWindow, SourceFailureWindow)
                   = {f \in sources[s] : f.at >= now + 1 - SourceFailureWindow}
      <4>1. Within(FailuresFrom(s), now - SourceFailureWindow, SourceFailureWindow)
              = {f \in sources[s] : f.at >= now - SourceFailureWindow}
        BY <1>b DEF SourceBuckets
      <4>2. sources[s] \subseteq failureLog
        BY <1>t DEF TypeOK
      <4> QED
        BY <1>c, <1>t, <4>1, <4>2 DEF Within, FailuresFrom, Past
    <3>2. ASSUME NEW s \in Sources
          PROVE  Within(FailuresFrom(s), now - SourceFailureWindow, SourceFailureWindow)'
                   = {f \in sources'[s] : f.at >= now' - SourceFailureWindow}
      <4>1. Within(FailuresFrom(s), now - SourceFailureWindow, SourceFailureWindow)'
              = Within(FailuresFrom(s), now + 1 - SourceFailureWindow, SourceFailureWindow)
        <5>1. FailuresFrom(s)' = FailuresFrom(s)
          BY <2>1 DEF FailuresFrom
        <5> QED
          BY <1>c, <2>1, <5>1 DEF Within
      <4> QED
        BY <1>c, <2>1, <3>1, <4>1
    <3> QED
      BY <3>2 DEF SourceBuckets
  <2>5. IssueBuckets'
    <3>1. ASSUME NEW u \in Users
          PROVE  Within(IssuedToUser(u), now + 1 - IssuanceWindow, IssuanceWindow)
                   = {i \in userIssues[u] : i.at >= now + 1 - IssuanceWindow}
      <4>1. Within(IssuedToUser(u), now - IssuanceWindow, IssuanceWindow)
              = {i \in userIssues[u] : i.at >= now - IssuanceWindow}
        BY <1>b DEF IssueBuckets
      <4>2. userIssues[u] \subseteq issueLog
        BY <1>t DEF TypeOK
      <4> QED
        BY <1>c, <1>t, <4>1, <4>2 DEF Within, IssuedToUser, Past
    <3>2. ASSUME NEW b \in Sessions
          PROVE  Within(IssuedToSession(b), now + 1 - IssuanceWindow, IssuanceWindow)
                   = {i \in sessionIssues[b] : i.at >= now + 1 - IssuanceWindow}
      <4>1. Within(IssuedToSession(b), now - IssuanceWindow, IssuanceWindow)
              = {i \in sessionIssues[b] : i.at >= now - IssuanceWindow}
        BY <1>b DEF IssueBuckets
      <4>2. sessionIssues[b] \subseteq issueLog
        BY <1>t DEF TypeOK
      <4> QED
        BY <1>c, <1>t, <4>1, <4>2 DEF Within, IssuedToSession, Past
    <3>3. ASSUME NEW u \in Users
          PROVE  Within(IssuedToUser(u), now - IssuanceWindow, IssuanceWindow)'
                   = {i \in userIssues'[u] : i.at >= now' - IssuanceWindow}
      <4>1. Within(IssuedToUser(u), now - IssuanceWindow, IssuanceWindow)'
              = Within(IssuedToUser(u), now + 1 - IssuanceWindow, IssuanceWindow)
        <5>1. IssuedToUser(u)' = IssuedToUser(u)
          BY <2>1 DEF IssuedToUser
        <5> QED
          BY <1>c, <2>1, <5>1 DEF Within
      <4> QED
        BY <1>c, <2>1, <3>1, <4>1
    <3>4. ASSUME NEW b \in Sessions
          PROVE  Within(IssuedToSession(b), now - IssuanceWindow, IssuanceWindow)'
                   = {i \in sessionIssues'[b] : i.at >= now' - IssuanceWindow}
      <4>1. Within(IssuedToSession(b), now - IssuanceWindow, IssuanceWindow)'
              = Within(IssuedToSession(b), now + 1 - IssuanceWindow, IssuanceWindow)
        <5>1. IssuedToSession(b)' = IssuedToSession(b)
          BY <2>1 DEF IssuedToSession
        <5> QED
          BY <1>c, <2>1, <5>1 DEF Within
      <4> QED
        BY <1>c, <2>1, <3>2, <4>1
    <3> QED
      BY <3>3, <3>4 DEF IssueBuckets
  <2> QED
    BY <2>2, <2>3, <2>4, <2>5
<1>6. CASE UNCHANGED vars
  BY <1>t, <1>6, IssuesUntouched, FailuresUntouched DEF vars, store, history, Past
<1> QED
  BY <1>1, <1>2, <1>3, <1>4, <1>5, <1>6 DEF Next

\* No stretch of time as long as the window sees a user, or a browser session,
\* issued more credentials than the limit, whatever the limits, the window and the
\* number of sessions (Issue).
THEOREM IssuanceIsRateBounded == Spec => []IssuanceRateBounded
<1>1. Spec => []RateInv
  BY InitRateInv, NextRateInv, PTL DEF Spec
<1> QED
  BY <1>1, PTL DEF RateInv

\* Lazy pruning never loses an entry that still counts towards a limit
\* (recentSourceFailuresLocked, recentIssuanceLocked).
THEOREM BucketsAreComplete == Spec => []BucketsComplete
<1>1. Spec => []RateInv
  BY InitRateInv, NextRateInv, PTL DEF Spec
<1> QED
  BY <1>1, PTL DEF RateInv

\* Verifier material leaves the store only below the limit, and the throttle refuses
\* only at it: the pruned bucket decides like the history (PendingCredential).
THEOREM ThrottleIsExact == Spec => ThrottleExact
<1>1. ASSUME RateInv, [Next]_vars, reply' # reply, reply'.op = "PendingCredential"
      PROVE  reply'.err = "source_limited" <=>
               Cardinality(Within(FailuresFrom(reply'.source),
                                  now - SourceFailureWindow, SourceFailureWindow))
                 >= SourceFailureLimit
  <2>1. PICK username \in Usernames, source \in Sources : PendingCredential(username, source)
    BY <1>1 DEF Next, Issue, IssueRefused, IssueAllowed, Consume, RecordFailure, Tick, vars
  <2>2. /\ reply'.source = source
        /\ reply'.err = IF SourceLimited(source) THEN "source_limited" ELSE Lookup(username)
    BY <2>1 DEF PendingCredential
  <2>3. Lookup(username) # "source_limited"
    BY DEF Lookup
  <2>4. Within(FailuresFrom(source), now - SourceFailureWindow, SourceFailureWindow)
          = RecentSourceFailures(source)
    BY <1>1 DEF RateInv, BucketsComplete, RecentSourceFailures
  <2> QED
    BY <2>2, <2>3, <2>4 DEF SourceLimited
<1>2. RateInv /\ [Next]_vars =>
        [reply'.op = "PendingCredential" =>
           (reply'.err = "source_limited" <=>
              Cardinality(Within(FailuresFrom(reply'.source),
                                 now - SourceFailureWindow, SourceFailureWindow))
                >= SourceFailureLimit)]_reply
  BY <1>1
<1> QED
  BY <1>2, InitRateInv, NextRateInv, PTL DEF Spec, ThrottleExact

-----------------------------------------------------------------------------
(* Every way out of the map clears the password, and so does the lock. *)

LEMMA NextMaterial ==
  TypeInv /\ MaterialOnlyWhileUsable /\ [Next]_vars => MaterialOnlyWhileUsable'
<1> SUFFICES ASSUME TypeInv, MaterialOnlyWhileUsable, [Next]_vars
             PROVE  MaterialOnlyWhileUsable'
  OBVIOUS
<1> USE DEF MaterialOnlyWhileUsable
<1>t. /\ credentials \in [Usernames -> StoredCredential \cup {None}]
      /\ material \in [Usernames -> {"none", "held", "cleared"}]
  BY DEF TypeInv, TypeOK
<1>1. CASE UNCHANGED <<credentials, material>>
  BY <1>1
<1>2. ASSUME NEW username \in Usernames, Discard(username)
      PROVE  MaterialOnlyWhileUsable'
  BY <1>t, <1>2 DEF Discard
<1>3. ASSUME NEW session \in Sessions, Issue(session)
      PROVE  MaterialOnlyWhileUsable'
  <2>1. CASE ~ UNCHANGED <<credentials, material>>
    <3>1. PICK c \in Usernames :
            /\ credentials' = [credentials EXCEPT ![c] = NewCredential(Owner[session])]
            /\ material' = [material EXCEPT ![c] = "held"]
      BY <1>3, <2>1 DEF Issue, IssueRefused, IssueAllowed
    <3>2. NewCredential(Owner[session]) # None /\ ~ NewCredential(Owner[session]).locked
      <4>1. NewCredential(Owner[session]) \in StoredCredential
        BY StoreAssumption DEF NewCredential, StoredCredential, TypeInv, TypeOK, Times
      <4> QED
        BY <4>1, StoreAssumption DEF NewCredential
    <3> QED
      BY <1>t, <3>1, <3>2
  <2> QED
    BY <1>1, <2>1
<1>4. ASSUME NEW username \in Usernames, NEW source \in Sources, RecordFailure(username, source),
             credentials[username] # None
      PROVE  MaterialOnlyWhileUsable'
  <2> DEFINE failed == Failed(credentials[username])
  <2>1. credentials[username] \in StoredCredential
    BY <1>t, <1>4
  <2>2. /\ credentials' = [credentials EXCEPT ![username] = failed]
        /\ material' = [material EXCEPT ![username] =
                          IF failed.failures >= CredentialFailureLimit THEN "cleared" ELSE @]
    BY <1>4 DEF RecordFailure
  <2>3. /\ failed # None
        /\ failed.failures >= CredentialFailureLimit => failed.locked
        /\ ~ (failed.failures >= CredentialFailureLimit) =>
             failed.locked = credentials[username].locked
    BY <2>1, FailedFields, StoreAssumption
  <2> HIDE DEF failed
  <2> QED
    BY <1>t, <1>4, <2>2, <2>3
<1> QED
  BY <1>1, <1>2, <1>3, <1>4
  DEF Next, Consume, PendingCredential, RecordFailure, Tick, store, vars

\* A password is held only for a credential in the map that is not locked, whatever
\* the sequence of calls (clearBytes).
THEOREM MaterialIsCleared == Spec => []MaterialOnlyWhileUsable
<1>1. Init => MaterialOnlyWhileUsable
  BY DEF Init, MaterialOnlyWhileUsable
<1> QED
  BY <1>1, InitTypeInv, NextTypeInv, NextMaterial, PTL DEF Spec

-----------------------------------------------------------------------------
(* The store notices expiry only when a credential is looked up, and still *)
(* implements the one-time credential, which expires on time.              *)

\* What the mapping needs: the map holds only credentials that were issued and not
\* consumed, and only an issued credential was consumed.
CredentialInv ==
  /\ TypeInv
  /\ \A c \in Usernames : credentials[c] # None => Issued(c) /\ c \notin consumed
  /\ \A c \in consumed : Issued(c)

LEMMA InitCredentialInv == Init => CredentialInv
BY InitTypeInv DEF CredentialInv, Init

\* An issued credential stays issued, and Issue makes exactly one more.
LEMMA IssuedGrows ==
  ASSUME NEW session, NEW username,
         issueLog' = issueLog \cup {[username |-> username, session |-> session, at |-> now]}
  PROVE  \A d : Issued(d)' <=> Issued(d) \/ d = username
<1> DEFINE event == [username |-> username, session |-> session, at |-> now]
<1>1. event.username = username
  OBVIOUS
<1> HIDE DEF event
<1> QED
  BY <1>1 DEF Issued, event

\* No step puts a consumed or never issued credential into the map.
LEMMA NextCredentialInv == CredentialInv /\ [Next]_vars => CredentialInv'
<1> SUFFICES ASSUME CredentialInv, [Next]_vars PROVE CredentialInv'
  OBVIOUS
<1>t. TypeInv /\ TypeInv' /\ TypeOK
  BY NextTypeInv DEF CredentialInv, TypeInv
<1>1. CASE \E session \in Sessions : Issue(session)
  <2> PICK session \in Sessions : Issue(session)
    BY <1>1
  <2>1. CASE UNCHANGED <<credentials, issueLog, consumed>>
    BY <1>t, <2>1 DEF CredentialInv, Issued
  <2>2. CASE ~ UNCHANGED <<credentials, issueLog, consumed>>
    <3>1. PICK c \in Usernames :
            /\ ~ Issued(c)
            /\ credentials' = [credentials EXCEPT ![c] = NewCredential(Owner[session])]
            /\ issueLog' = issueLog \cup
                 {[username |-> c, session |-> session, at |-> now]}
            /\ UNCHANGED consumed
      BY <2>2 DEF Issue, IssueRefused, IssueAllowed, history
    <3>2. \A d : Issued(d)' <=> Issued(d) \/ d = c
      BY <3>1, IssuedGrows
    <3> QED
      BY <1>t, <3>1, <3>2 DEF CredentialInv, TypeOK
  <2> QED
    BY <2>1, <2>2
<1>2. CASE \E username \in Usernames : Consume(username)
  <2> PICK username \in Usernames : Consume(username)
    BY <1>2
  <2>1. \A d : Issued(d)' <=> Issued(d)
    BY DEF Consume, Issued
  <2> QED
    BY <1>t, <2>1 DEF Consume, Lookup, Discard, CredentialInv, TypeOK
<1>3. CASE \E username \in Usernames, source \in Sources :
             PendingCredential(username, source)
  <2> PICK username \in Usernames, source \in Sources :
             PendingCredential(username, source)
    BY <1>3
  <2>1. \A d : Issued(d)' <=> Issued(d)
    BY DEF PendingCredential, history, Issued
  <2> QED
    BY <1>t, <2>1 DEF PendingCredential, Discard, history, CredentialInv, TypeOK
<1>4. CASE \E username \in Usernames, source \in Sources :
             RecordFailure(username, source)
  <2> PICK username \in Usernames, source \in Sources :
             RecordFailure(username, source)
    BY <1>4
  <2>1. \A d : Issued(d)' <=> Issued(d)
    BY DEF RecordFailure, Issued
  <2> QED
    BY <1>t, <2>1 DEF RecordFailure, CredentialInv, TypeOK
<1>5. CASE Tick
  <2>1. UNCHANGED <<credentials, issueLog, consumed>>
    BY <1>5 DEF Tick, store, history
  <2> QED
    BY <1>t, <2>1 DEF CredentialInv, Issued
<1>6. CASE UNCHANGED vars
  BY <1>t, <1>6 DEF vars, store, history, CredentialInv, Issued
<1> QED
  BY <1>1, <1>2, <1>3, <1>4, <1>5, <1>6 DEF Next

-----------------------------------------------------------------------------
\* The state of a credential no part of which changed maps to the same state.
LEMMA SameCredential ==
  ASSUME NEW d, now' = now, credentials'[d] = credentials[d],
         Issued(d)' <=> Issued(d), d \in consumed' <=> d \in consumed
  PROVE  AbstractCredential(d)' = AbstractCredential(d)
BY DEF AbstractCredential, Phase, Expired

\* Initially no credential was issued (NewStore).
LEMMA InitStoreRefines == Init => OTC!Init
<1> SUFFICES ASSUME Init PROVE OTC!Init
  OBVIOUS
<1>1. \A c \in Usernames : AbstractCredential(c) = OTC!Idle("unissued")
  BY DEF Init, AbstractCredential, Phase, Issued, OTC!Idle
<1> QED
  BY <1>1 DEF OTC!Init, Init

\* Every step of the store is a step of the one-time credential or changes
\* nothing it shows.
LEMMA NextStoreRefines == CredentialInv /\ [Next]_vars => [OTC!Next]_(OTC!vars)
<1> DEFINE otc == [c \in Usernames |-> AbstractCredential(c)]
<1> SUFFICES ASSUME CredentialInv, [Next]_vars
             PROVE  OTC!Next \/ (now' = now /\ otc' = otc)
  BY DEF OTC!vars
<1>t. TypeOK /\ TypeOK'
  BY NextTypeInv DEF CredentialInv, TypeInv
<1>c. /\ now \in Int /\ TTL \in Nat \ {0} /\ CredentialFailureLimit \in Nat \ {0}
      /\ \A c \in Usernames : credentials[c] # None =>
           /\ credentials[c].expiresAt \in Int /\ credentials[c].failures \in Nat
           /\ credentials[c].locked \in BOOLEAN
  BY <1>t, StoreAssumption DEF TypeOK, Times, StoredCredential
<1>s. ASSUME now' = now,
             \A d \in Usernames : AbstractCredential(d)' = AbstractCredential(d)
      PROVE  now' = now /\ otc' = otc
  BY <1>s
<1>1. CASE \E session \in Sessions : Issue(session)
  <2> PICK session \in Sessions : Issue(session)
    BY <1>1
  <2>1. CASE UNCHANGED <<credentials, issueLog>>
    <3>1. now' = now /\ consumed' = consumed /\ credentials' = credentials
      BY <2>1 DEF Issue, IssueRefused, IssueAllowed, history
    <3>2. \A d : Issued(d)' <=> Issued(d)
      BY <2>1 DEF Issued
    <3> QED
      BY <1>s, <3>1, <3>2, SameCredential
  <2>2. CASE ~ UNCHANGED <<credentials, issueLog>>
    <3>1. PICK c \in Usernames :
            /\ ~ Issued(c)
            /\ credentials' = [credentials EXCEPT ![c] = NewCredential(Owner[session])]
            /\ issueLog' = issueLog \cup
                 {[username |-> c, session |-> session, at |-> now]}
            /\ UNCHANGED <<now, consumed>>
      BY <2>2 DEF Issue, IssueRefused, IssueAllowed, history
    <3>2. \A d : Issued(d)' <=> Issued(d) \/ d = c
      BY <3>1, IssuedGrows
    <3>3. c \notin consumed
      BY <3>1 DEF CredentialInv
    <3>4. \A d \in Usernames \ {c} : AbstractCredential(d)' = AbstractCredential(d)
      <4>1. \A d \in Usernames \ {c} : credentials'[d] = credentials[d]
        BY <1>t, <3>1 DEF TypeOK
      <4> QED
        BY <3>1, <3>2, <4>1, SameCredential
    <3>5. credentials'[c] = NewCredential(Owner[session])
      BY <1>t, <3>1 DEF TypeOK
    <3>6. NewCredential(Owner[session]) # None
      <4>1. NewCredential(Owner[session]) \in StoredCredential
        BY <1>t, StoreAssumption DEF NewCredential, StoredCredential, TypeOK, Times
      <4> QED
        BY <4>1, StoreAssumption
    <3>7. AbstractCredential(c)' = OTC!Live(now + TTL, 0)
      BY <1>c, <3>1, <3>2, <3>3, <3>5, <3>6
         DEF AbstractCredential, Phase, Expired, NewCredential, OTC!Live
    <3>8. AbstractCredential(c).phase = "unissued"
      BY <3>1, <3>3 DEF AbstractCredential, Phase
    <3>9. otc' = [otc EXCEPT ![c] = OTC!Live(now + TTL, 0)]
      BY <3>4, <3>7
    <3> QED
      BY <3>1, <3>8, <3>9 DEF OTC!Next, OTC!Issue
  <2> QED
    BY <2>1, <2>2
<1>2. CASE \E username \in Usernames : Consume(username)
  <2> PICK c \in Usernames : Consume(c)
    BY <1>2
  <2>1. now' = now /\ \A d : Issued(d)' <=> Issued(d)
    BY DEF Consume, Issued
  <2>2. \A d \in Usernames \ {c} : AbstractCredential(d)' = AbstractCredential(d)
    <3>1. \A d \in Usernames \ {c} :
            credentials'[d] = credentials[d] /\ (d \in consumed' <=> d \in consumed)
      BY <1>t DEF Consume, Discard, TypeOK
    <3> QED
      BY <2>1, <3>1, SameCredential
  <2>3. CASE Lookup(c) = "ok"
    <3>1. c \in consumed'
      BY <2>3 DEF Consume
    <3>2. AbstractCredential(c)' = OTC!Idle("used")
      BY <3>1 DEF AbstractCredential, Phase, OTC!Idle
    <3>3. AbstractCredential(c).phase = "live"
      BY <2>3 DEF Lookup, AbstractCredential, Phase, CredentialInv
    <3>4. otc' = [otc EXCEPT ![c] = OTC!Idle("used")]
      BY <2>2, <3>2
    <3> QED
      BY <2>1, <3>3, <3>4 DEF OTC!Next, OTC!Use
  <2>4. CASE Lookup(c) # "ok"
    <3>1. consumed' = consumed
      BY <2>4 DEF Consume
    <3>2. \/ credentials'[c] = credentials[c]
          \/ /\ credentials[c] # None /\ Expired(c)
             /\ credentials'[c] = None
      BY <1>t, <2>4 DEF Consume, Lookup, Discard, TypeOK
    <3>3. AbstractCredential(c)' = AbstractCredential(c)
      BY <2>1, <3>1, <3>2, SameCredential DEF AbstractCredential, Phase, CredentialInv
    <3> QED
      BY <1>s, <2>1, <2>2, <3>3
  <2> QED
    BY <2>3, <2>4
<1>3. CASE \E username \in Usernames, source \in Sources :
             PendingCredential(username, source)
  <2> PICK c \in Usernames, source \in Sources : PendingCredential(c, source)
    BY <1>3
  <2>1. /\ now' = now /\ consumed' = consumed
        /\ \A d : Issued(d)' <=> Issued(d)
    BY DEF PendingCredential, history, Issued
  <2>2. \A d \in Usernames \ {c} : credentials'[d] = credentials[d]
    BY <1>t DEF PendingCredential, Discard, TypeOK
  <2>3. \/ credentials'[c] = credentials[c]
        \/ credentials[c] # None /\ Expired(c) /\ credentials'[c] = None
    BY <1>t DEF PendingCredential, Lookup, Discard, TypeOK
  <2>4. AbstractCredential(c)' = AbstractCredential(c)
    BY <2>1, <2>3, SameCredential DEF AbstractCredential, Phase, CredentialInv
  <2> QED
    BY <1>s, <2>1, <2>2, <2>4, SameCredential
<1>4. CASE \E username \in Usernames, source \in Sources :
             RecordFailure(username, source)
  <2> PICK c \in Usernames, source \in Sources : RecordFailure(c, source)
    BY <1>4
  <2>1. /\ now' = now /\ consumed' = consumed
        /\ \A d : Issued(d)' <=> Issued(d)
    BY DEF RecordFailure, Issued
  <2>2. \A d \in Usernames \ {c} : AbstractCredential(d)' = AbstractCredential(d)
    <3>1. \A d \in Usernames \ {c} : credentials'[d] = credentials[d]
      BY <1>t DEF RecordFailure, TypeOK
    <3> QED
      BY <2>1, <3>1, SameCredential
  <2>3. CASE credentials[c] = None
    <3>1. AbstractCredential(c)' = AbstractCredential(c)
      BY <2>1, <2>3, SameCredential DEF RecordFailure
    <3> QED
      BY <1>s, <2>1, <2>2, <3>1
  <2>4. CASE credentials[c] # None
    <3>1. credentials'[c] = Failed(credentials[c])
      BY <1>t, <2>4 DEF RecordFailure, TypeOK
    <3>2. Failed(credentials[c]) # None
      <4>1. Failed(credentials[c]) \in StoredCredential
        BY <1>t, <2>4, FailedFields DEF TypeOK
      <4> QED
        BY <4>1, StoreAssumption
    <3>3. /\ Issued(c) /\ c \notin consumed
      BY <2>4 DEF CredentialInv
    <3>4. CASE Phase(c) = "live"
      <4> DEFINE strikes == credentials[c].failures + 1
      <4>1. otc[c] = OTC!Live(credentials[c].expiresAt, credentials[c].failures)
        BY <3>4 DEF AbstractCredential, OTC!Live
      <4>2. ~ credentials[c].locked /\ ~ Expired(c)
        BY <3>3, <3>4 DEF Phase
      <4>3. AbstractCredential(c)' =
              IF strikes >= CredentialFailureLimit THEN OTC!Idle("dead")
              ELSE OTC!Live(credentials[c].expiresAt, strikes)
        <5>1. /\ credentials'[c].failures = strikes
              /\ credentials'[c].expiresAt = credentials[c].expiresAt
              /\ strikes >= CredentialFailureLimit => credentials'[c].locked
              /\ ~ (strikes >= CredentialFailureLimit) => ~ credentials'[c].locked
          BY <1>t, <2>4, <3>1, <4>2, FailedFields DEF TypeOK
        <5>2. Phase(c)' = IF strikes >= CredentialFailureLimit THEN "dead" ELSE "live"
          BY <2>1, <3>1, <3>2, <3>3, <4>2, <5>1 DEF Phase, Expired
        <5> QED
          BY <5>1, <5>2 DEF AbstractCredential, OTC!Idle, OTC!Live
      <4>4. /\ otc[c].phase = "live" /\ otc[c].strikes = credentials[c].failures
            /\ otc[c].deadline = credentials[c].expiresAt
        BY <4>1 DEF OTC!Live
      <4>5. otc' = [otc EXCEPT ![c] =
                      IF strikes >= CredentialFailureLimit THEN OTC!Idle("dead")
                      ELSE OTC!Live(credentials[c].expiresAt, strikes)]
        BY <2>2, <4>3
      <4> QED
        BY <2>1, <4>4, <4>5 DEF OTC!Next, OTC!Strike
    <3>5. CASE Phase(c) # "live"
      <4>1. Phase(c) = "dead"
        BY <3>3, <3>5 DEF Phase
      <4>2. Phase(c)' = "dead"
        <5>1. credentials[c].locked \/ Expired(c)
          BY <2>4, <3>3, <4>1 DEF Phase
        <5>2. /\ credentials'[c].expiresAt = credentials[c].expiresAt
              /\ credentials[c].locked => credentials'[c].locked
          BY <1>t, <2>4, <3>1, FailedFields DEF TypeOK
        <5> QED
          BY <2>1, <3>3, <5>1, <5>2 DEF Phase, Expired
      <4>3. AbstractCredential(c)' = AbstractCredential(c)
        BY <4>1, <4>2 DEF AbstractCredential
      <4> QED
        BY <1>s, <2>1, <2>2, <4>3
    <3> QED
      BY <3>4, <3>5
  <2> QED
    BY <2>3, <2>4
<1>5. CASE Tick
  <2>1. now' = now + 1 /\ UNCHANGED <<credentials, issueLog, consumed>>
    BY <1>5 DEF Tick, store, history
  <2>2. ASSUME NEW c \in Usernames
        PROVE  AbstractCredential(c)' =
                 IF otc[c].phase = "live" /\ otc[c].deadline <= now + 1
                   THEN OTC!Idle("dead") ELSE otc[c]
    <3>1. \/ /\ Phase(c) = "live"
             /\ otc[c] = OTC!Live(credentials[c].expiresAt, credentials[c].failures)
             /\ otc[c].phase = "live" /\ otc[c].deadline = credentials[c].expiresAt
          \/ Phase(c) # "live" /\ otc[c] = OTC!Idle(Phase(c)) /\ otc[c].phase # "live"
      BY DEF AbstractCredential, OTC!Live, OTC!Idle
    <3>2. Issued(c)' <=> Issued(c)
      BY <2>1 DEF Issued
    <3>3. Phase(c)' = IF Phase(c) = "live" /\ credentials[c].expiresAt <= now + 1
                        THEN "dead" ELSE Phase(c)
      BY <1>c, <2>1, <3>2 DEF Phase, Expired
    <3> QED
      BY <2>1, <3>1, <3>3 DEF AbstractCredential, OTC!Live, OTC!Idle
  <2> QED
    BY <2>1, <2>2 DEF OTC!Next, OTC!Tick
<1>6. CASE UNCHANGED vars
  <2>1. UNCHANGED <<now, credentials, issueLog, consumed>>
    BY <1>6 DEF vars, store, history
  <2>2. \A d : Issued(d)' <=> Issued(d)
    BY <2>1 DEF Issued
  <2> QED
    BY <1>s, <2>1, <2>2, SameCredential
<1> QED
  BY <1>1, <1>2, <1>3, <1>4, <1>5, <1>6 DEF Next

\* A stored credential is used at most once, only while it is neither expired nor
\* failed too often, and is never revived, for any number of credentials, sources
\* and sessions (Store).
THEOREM StoreRefines == Spec => ImplementsOneTimeCredential
<1>1. Spec => []CredentialInv
  BY InitCredentialInv, NextCredentialInv, PTL DEF Spec
<1> QED
  BY <1>1, InitStoreRefines, NextStoreRefines, PTL
     DEF Spec, ImplementsOneTimeCredential, OTC!Spec

=============================================================================
