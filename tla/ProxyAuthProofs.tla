-------------------------- MODULE ProxyAuthProofs ---------------------------
(***************************************************************************)
(* One password, one session: the handshakes of any number of connections  *)
(* over the credential store.                                              *)
(***************************************************************************)
EXTENDS ProxyAuth, OTPStoreProofs

-----------------------------------------------------------------------------
(* The store under the proxy: what is proved of it carries over. *)

\* A stored credential belongs to the user of the browser session it was issued to.
OwnerInv ==
  \A c \in Usernames : credentials[c] # None =>
    \E i \in issueLog : i.username = c /\ Owner[i.session] = credentials[c].user

StoreInv == RateInv /\ CredentialInv /\ OwnerInv

LEMMA NextOwnerInv == CredentialInv /\ OwnerInv /\ [Next]_vars => OwnerInv'
<1> SUFFICES ASSUME CredentialInv, OwnerInv, [Next]_vars PROVE OwnerInv'
  OBVIOUS
<1> USE DEF OwnerInv
<1>t. credentials \in [Usernames -> StoredCredential \cup {None}]
  BY DEF CredentialInv, TypeInv, TypeOK
<1>1. CASE UNCHANGED <<credentials, issueLog>>
  BY <1>1
<1>2. ASSUME NEW username \in Usernames, Discard(username), UNCHANGED issueLog
      PROVE  OwnerInv'
  BY <1>t, <1>2 DEF Discard
<1>3. ASSUME NEW session \in Sessions, Issue(session)
      PROVE  OwnerInv'
  <2>1. CASE ~ UNCHANGED <<credentials, issueLog>>
    <3>1. PICK c \in Usernames :
            /\ credentials' = [credentials EXCEPT ![c] = NewCredential(Owner[session])]
            /\ issueLog' = issueLog \cup
                 {[username |-> c, session |-> session, at |-> now]}
      BY <1>3, <2>1 DEF Issue, IssueRefused, IssueAllowed, history
    <3> DEFINE event == [username |-> c, session |-> session, at |-> now]
    <3>2. event \in issueLog' /\ event.username = c /\ event.session = session
      BY <3>1
    <3>3. NewCredential(Owner[session]).user = Owner[session]
      BY DEF NewCredential
    <3> HIDE DEF event
    <3> QED
      BY <1>t, <3>1, <3>2, <3>3
  <2> QED
    BY <1>1, <2>1
<1>4. ASSUME NEW username \in Usernames, NEW source \in Sources, RecordFailure(username, source),
             credentials[username] # None
      PROVE  OwnerInv'
  <2>1. credentials[username] \in StoredCredential
    BY <1>t, <1>4
  <2>2. Failed(credentials[username]).user = credentials[username].user
    BY DEF Failed
  <2>3. /\ credentials' = [credentials EXCEPT ![username] = Failed(credentials[username])]
        /\ UNCHANGED issueLog
    BY <1>4 DEF RecordFailure
  <2> QED
    BY <1>t, <1>4, <2>2, <2>3
<1> QED
  BY <1>1, <1>2, <1>3, <1>4
  DEF Next, Consume, PendingCredential, RecordFailure, Tick, store, history, vars

LEMMA InitStoreInv == Init => StoreInv
BY InitRateInv, InitCredentialInv DEF StoreInv, OwnerInv, Init

LEMMA NextStoreInv == StoreInv /\ [Next]_vars => StoreInv'
BY NextRateInv, NextCredentialInv, NextOwnerInv DEF StoreInv

-----------------------------------------------------------------------------
(* The invariant of a connection. *)

\* Who asked, from where: known from the greeting on.
Named(r) == r.phase # "idle" => r.username \in Usernames /\ r.source \in Sources

\* What each phase of a handshake has behind it.
ConnectionOK(r) ==
  /\ Named(r)
  /\ r.upstream = "open" <=> r.phase \in Activated \cup {"connected"}
  /\ r.phase \in Activated \cup {"connected"} => (RequireTLS => r.tls)
  /\ r.phase \in {"audited", "established"} => r.audit = "allow"
  /\ r.phase \in Activated \ {"activated"} =>
       /\ r.username \in consumed
       /\ \E i \in issueLog : i.username = r.username /\ Owner[i.session] = r.user
HandshakeInv == \A k \in Connections : ConnectionOK(conn[k])

\* The connection that consumed a credential and has not been accepted yet.
Admitted(k, c) ==
  conn[k].phase \in {"consumed", "invalidated", "audited"} /\ conn[k].username = c

\* A consumed credential has one connection to admit, or admitted one.
AdmissionInv ==
  \A c \in Usernames :
    /\ accepted[c] \in {0, 1}
    /\ accepted[c] = 1 => c \in consumed
    /\ \A k \in Connections : Admitted(k, c) => c \in consumed /\ accepted[c] = 0
    /\ \A k, l \in Connections : Admitted(k, c) /\ Admitted(l, c) => k = l

AuthInv == StoreInv /\ ProxyTypeOK /\ IsFiniteSet(guesses) /\ HandshakeInv /\ AdmissionInv

\* Every step of the proxy is one of the store or leaves the store alone.
LEMMA ProxyStep == HandshakeInv /\ [ProxyNext]_proxyVars => [Next]_vars
<1> SUFFICES ASSUME HandshakeInv, ProxyNext PROVE [Next]_vars
  BY DEF proxyVars
<1> USE DEF Next
<1>1. CASE BrowserIssues \/ TimePasses
  BY <1>1 DEF BrowserIssues, TimePasses
<1>2. ASSUME NEW k \in Connections, GetCredential(k) \/ OnAuthFailure(k) \/ ConsumeCredential(k)
      PROVE  Next
  <2>1. conn[k].username \in Usernames /\ conn[k].source \in Sources
    BY <1>2 DEF HandshakeInv, ConnectionOK, Named, GetCredential, OnAuthFailure, ConsumeCredential
  <2> QED
    BY <1>2, <2>1 DEF GetCredential, OnAuthFailure, ConsumeCredential
<1> QED
  BY <1>1, <1>2
  DEF ProxyNext, Greet, DatabaseRejected, PasswordMatches, PasswordDiffers, AcceptSession,
      ConnectFails, Connect, Activate, ReplayFails, InvalidateCache, AuditAccept, SendOK,
      ClientGone, Disconnect

\* Closing a connection keeps its type, and the upstream of none is left open that had
\* one through its forwarding handler.
LEMMA ClosedType ==
  ASSUME NEW r \in Connection
  PROVE  /\ Closed(r) \in Connection
         /\ Closed(r).phase = "ended" /\ ~ Closed(r).forwarding
         /\ Closed(r).username = r.username /\ Closed(r).source = r.source
         /\ Closed(r).upstream = IF r.forwarding THEN "closed" ELSE r.upstream
BY DEF Closed, Connection, Phases

\* The actions that only move one connection to another phase.
LEMMA NextProxyTypeOK == AuthInv /\ [ProxyNext]_proxyVars => ProxyTypeOK'
<1> SUFFICES ASSUME AuthInv, [ProxyNext]_proxyVars PROVE ProxyTypeOK'
  OBVIOUS
<1> USE StoreAssumption, ProxyAssumption DEF AuthInv, ProxyTypeOK, Connection, Phases, Activated
<1>1. CASE BrowserIssues \/ TimePasses \/ UNCHANGED proxyVars
  BY <1>1 DEF BrowserIssues, TimePasses, connVars, proxyVars
<1>2. ASSUME NEW k \in Connections, Greet(k) PROVE ProxyTypeOK'
  BY <1>2 DEF Greet, Handshake
<1>3. ASSUME NEW k \in Connections, DatabaseRejected(k) \/ ClientGone(k) PROVE ProxyTypeOK'
  BY <1>3, ClosedType DEF DatabaseRejected, ClientGone
<1>4. ASSUME NEW k \in Connections, GetCredential(k) PROVE ProxyTypeOK'
  BY <1>4 DEF GetCredential
<1>5. ASSUME NEW k \in Connections, PasswordMatches(k) PROVE ProxyTypeOK'
  BY <1>5 DEF PasswordMatches, HandshakeInv, ConnectionOK, Named
<1>6. ASSUME NEW k \in Connections, PasswordDiffers(k) PROVE ProxyTypeOK'
  <2>1. conn[k].source \in Sources /\ now \in Times /\ Cardinality(guesses) \in Nat
    BY <1>6, FS_CardinalityType
    DEF PasswordDiffers, HandshakeInv, ConnectionOK, Named, StoreInv, RateInv, TypeInv, TypeOK
  <2> QED
    BY <1>6, <2>1 DEF PasswordDiffers, FailureEvent
<1>7. ASSUME NEW k \in Connections, OnAuthFailure(k) PROVE ProxyTypeOK'
  BY <1>7, ClosedType DEF OnAuthFailure
<1>8. ASSUME NEW k \in Connections, ConnectFails(k) \/ Disconnect(k) PROVE ProxyTypeOK'
  BY <1>8, ClosedType DEF ConnectFails, Disconnect
<1>9. ASSUME NEW k \in Connections, Connect(k) \/ Activate(k) PROVE ProxyTypeOK'
  BY <1>9 DEF Connect, Activate
<1>10. ASSUME NEW k \in Connections, ReplayFails(k) PROVE ProxyTypeOK'
  BY <1>10, ClosedType DEF ReplayFails
<1>11. ASSUME NEW k \in Connections, ConsumeCredential(k) PROVE ProxyTypeOK'
  <2>1. CASE reply'.err = "ok"
    <3>1. credentials[conn[k].username].user \in Users
      <4>1. conn[k].username \in Usernames /\ credentials[conn[k].username] # None
        BY <1>11, <2>1 DEF ConsumeCredential, Consume, Lookup, HandshakeInv, ConnectionOK, Named
      <4>2. credentials[conn[k].username] \in StoredCredential
        BY <4>1 DEF StoreInv, RateInv, TypeInv, TypeOK
      <4> QED
        BY <4>2 DEF StoredCredential
    <3> DEFINE user == credentials[conn[k].username].user
    <3>2. /\ conn' = [conn EXCEPT ![k].phase = "consumed", ![k].user = user]
          /\ conn[k].phase = "activated"
          /\ UNCHANGED <<cache, accepted, guesses>>
      BY <1>11, <2>1 DEF ConsumeCredential
    <3>3. user \in Users
      BY <3>1
    <3> HIDE DEF user
    <3>4. conn' \in [Connections -> Connection]
      <4> DEFINE r == [conn[k] EXCEPT !.phase = "consumed", !.user = user]
      <4>1. conn[k] \in Connection
        OBVIOUS
      <4>2. r \in Connection
        BY <3>3, <4>1
      <4>3. conn' = [conn EXCEPT ![k] = r]
        BY <3>2
      <4> QED
        BY <4>2, <4>3
    <3>5. /\ conn'[k].phase = "consumed" /\ conn'[k].user = user
          /\ conn'[k].forwarding = conn[k].forwarding
          /\ \A l \in Connections \ {k} : conn'[l] = conn[l]
      BY <3>2
    <3> QED
      BY <3>2, <3>3, <3>4, <3>5
  <2>2. CASE reply'.err # "ok"
    BY <1>11, <2>2, ClosedType DEF ConsumeCredential
  <2> QED
    BY <2>1, <2>2
<1>12. ASSUME NEW k \in Connections, InvalidateCache(k) PROVE ProxyTypeOK'
  BY <1>12 DEF InvalidateCache
<1>13. ASSUME NEW k \in Connections, AuditAccept(k) PROVE ProxyTypeOK'
  BY <1>13, ClosedType DEF AuditAccept
<1>14. ASSUME NEW k \in Connections, SendOK(k) PROVE ProxyTypeOK'
  <2>1. conn[k].username \in Usernames /\ accepted[conn[k].username] + 1 \in Nat
    BY <1>14 DEF SendOK, HandshakeInv, ConnectionOK, Named
  <2> QED
    BY <1>14, <2>1 DEF SendOK
<1> QED
  BY <1>1, <1>2, <1>3, <1>4, <1>5, <1>6, <1>7, <1>8, <1>9, <1>10, <1>11, <1>12, <1>13, <1>14
  DEF ProxyNext, AcceptSession

LEMMA HistoryGrows == [Next]_vars => consumed \subseteq consumed' /\ issueLog \subseteq issueLog'
BY DEF Next, Issue, IssueRefused, IssueAllowed, Consume, PendingCredential, RecordFailure, Tick,
       history, vars

\* A step of one connection leaves the others as they were; what they have behind them
\* cannot be undone.
LEMMA OneConnectionMoves ==
  ASSUME HandshakeInv, [Next]_vars, NEW k \in Connections,
         \A l \in Connections \ {k} : conn'[l] = conn[l], ConnectionOK(conn[k])'
  PROVE  HandshakeInv'
<1>1. ASSUME NEW l \in Connections \ {k} PROVE ConnectionOK(conn[l])'
  BY <1>1, HistoryGrows DEF HandshakeInv, ConnectionOK, Named
<1> QED
  BY <1>1 DEF HandshakeInv

LEMMA NextHandshakeInv == AuthInv /\ [ProxyNext]_proxyVars => HandshakeInv'
<1> SUFFICES ASSUME AuthInv, [ProxyNext]_proxyVars PROVE HandshakeInv'
  OBVIOUS
<1>s. [Next]_vars /\ HandshakeInv
  BY ProxyStep DEF AuthInv
<1>t. conn \in [Connections -> Connection] /\ \A k \in Connections :
        /\ conn[k] \in Connection
        /\ conn[k].forwarding <=> conn[k].phase \in Activated
  BY DEF AuthInv, ProxyTypeOK
<1>1. CASE BrowserIssues \/ TimePasses \/ UNCHANGED proxyVars
  <2>1. conn' = conn
    BY <1>1 DEF BrowserIssues, TimePasses, connVars, proxyVars
  <2> QED
    BY <1>s, <2>1, HistoryGrows DEF HandshakeInv, ConnectionOK, Named
<1>2. ASSUME NEW k \in Connections, Greet(k) PROVE HandshakeInv'
  <2>1. ConnectionOK(conn[k])'
    BY <1>t, <1>2 DEF Greet, Handshake, ConnectionOK, Named, Activated
  <2> QED
    BY <1>s, <1>t, <1>2, <2>1, OneConnectionMoves DEF Greet
<1>c. ASSUME NEW k \in Connections, conn[k].phase \notin {"idle", "connected"},
             conn'[k] = Closed(conn[k])
      PROVE  ConnectionOK(conn[k])'
  BY <1>s, <1>t, <1>c, ClosedType DEF HandshakeInv, ConnectionOK, Named, Activated
<1>3. ASSUME NEW k \in Connections, DatabaseRejected(k) \/ ClientGone(k) PROVE HandshakeInv'
  <2>1. CASE conn' = [conn EXCEPT ![k] = Closed(@)]
    BY <1>s, <1>t, <1>3, <1>c, <2>1, OneConnectionMoves DEF DatabaseRejected, ClientGone
  <2>2. CASE /\ conn[k].phase \in {"greeted", "looked_up"}
             /\ conn' = [conn EXCEPT ![k].phase = "denied"]
    <3>1. ConnectionOK(conn[k])'
      BY <1>s, <1>t, <2>2 DEF HandshakeInv, ConnectionOK, Named, Activated
    <3> QED
      BY <1>s, <1>t, <2>2, <3>1, OneConnectionMoves
  <2> QED
    BY <1>3, <2>1, <2>2 DEF DatabaseRejected, ClientGone
<1>4. ASSUME NEW k \in Connections, GetCredential(k) \/ PasswordMatches(k) \/ PasswordDiffers(k)
      PROVE  HandshakeInv'
  <2>1. PICK phase \in {"looked_up", "denied", "verified"} : conn' = [conn EXCEPT ![k].phase = phase]
    BY <1>4 DEF GetCredential, PasswordMatches, PasswordDiffers
  <2>2. ConnectionOK(conn[k])'
    BY <1>s, <1>t, <1>4, <2>1 DEF GetCredential, PasswordMatches, PasswordDiffers, HandshakeInv,
       ConnectionOK, Named, Activated
  <2> QED
    BY <1>s, <1>t, <2>1, <2>2, OneConnectionMoves
<1>5. ASSUME NEW k \in Connections, OnAuthFailure(k) PROVE HandshakeInv'
  <2>1. PICK outcome \in {"none", "reject"} :
          conn' = [conn EXCEPT ![k] = [Closed(@) EXCEPT !.audit = outcome]]
    BY <1>5 DEF OnAuthFailure
  <2>2. Closed(conn[k]).upstream # "open" /\ Closed(conn[k]) \in Connection
    BY <1>s, <1>t, <1>5, ClosedType DEF OnAuthFailure, HandshakeInv, ConnectionOK, Activated
  <2>3. ConnectionOK(conn[k])'
    BY <1>s, <1>t, <1>5, <2>1, <2>2, ClosedType
    DEF OnAuthFailure, HandshakeInv, ConnectionOK, Named, Activated, Connection
  <2> QED
    BY <1>s, <1>t, <2>1, <2>3, OneConnectionMoves
<1>6. ASSUME NEW k \in Connections, ConnectFails(k) \/ Disconnect(k) PROVE HandshakeInv'
  <2>1. conn' = [conn EXCEPT ![k] = Closed(@)] /\ conn[k].phase \in {"verified", "established"}
    BY <1>6 DEF ConnectFails, Disconnect
  <2> QED
    BY <1>s, <1>t, <1>c, <2>1, OneConnectionMoves
<1>7. ASSUME NEW k \in Connections, Connect(k) \/ Activate(k) PROVE HandshakeInv'
  <2>1. ConnectionOK(conn[k])'
    BY <1>s, <1>t, <1>7
    DEF Connect, Activate, HandshakeInv, ConnectionOK, Named, Activated, Connection
  <2> QED
    BY <1>s, <1>t, <1>7, <2>1, OneConnectionMoves DEF Connect, Activate
<1>8. ASSUME NEW k \in Connections, ReplayFails(k) PROVE HandshakeInv'
  <2>1. ConnectionOK(conn[k])'
    BY <1>s, <1>t, <1>8, ClosedType
    DEF ReplayFails, HandshakeInv, ConnectionOK, Named, Activated, Connection
  <2> QED
    BY <1>s, <1>t, <1>8, <2>1, OneConnectionMoves DEF ReplayFails
<1>9. ASSUME NEW k \in Connections, ConsumeCredential(k) PROVE HandshakeInv'
  <2>1. CASE reply'.err = "ok"
    <3> DEFINE c == conn[k].username
    <3>1. c \in Usernames /\ credentials[c] # None /\ c \in consumed' /\ issueLog' = issueLog
      BY <1>s, <1>9, <2>1 DEF ConsumeCredential, Consume, Lookup, HandshakeInv, ConnectionOK, Named
    <3>2. \E i \in issueLog : i.username = c /\ Owner[i.session] = credentials[c].user
      BY <3>1 DEF AuthInv, StoreInv, OwnerInv
    <3>3. conn' = [conn EXCEPT ![k].phase = "consumed", ![k].user = credentials[c].user]
      BY <1>9, <2>1 DEF ConsumeCredential
    <3>4. conn'[k].phase = "consumed" /\ conn'[k].user = credentials[c].user
      BY <1>t, <3>3
    <3>5. ConnectionOK(conn[k])'
      BY <1>s, <1>t, <1>9, <3>1, <3>2, <3>3, <3>4
      DEF ConsumeCredential, HandshakeInv, ConnectionOK, Named, Activated, Connection
    <3> QED
      BY <1>s, <1>t, <3>3, <3>5, OneConnectionMoves
  <2>2. CASE reply'.err # "ok"
    BY <1>s, <1>t, <1>9, <1>c, <2>2, OneConnectionMoves DEF ConsumeCredential
  <2> QED
    BY <2>1, <2>2
<1>10. ASSUME NEW k \in Connections, InvalidateCache(k) PROVE HandshakeInv'
  <2>1. ConnectionOK(conn[k])'
    BY <1>s, <1>t, <1>10
    DEF InvalidateCache, HandshakeInv, ConnectionOK, Named, Activated, vars, history
  <2> QED
    BY <1>s, <1>t, <1>10, <2>1, OneConnectionMoves DEF InvalidateCache
<1>11. ASSUME NEW k \in Connections, AuditAccept(k) PROVE HandshakeInv'
  <2>1. CASE conn' = [conn EXCEPT ![k] = Closed(@)]
    BY <1>s, <1>t, <1>11, <1>c, <2>1, OneConnectionMoves DEF AuditAccept
  <2>2. CASE conn' = [conn EXCEPT ![k].phase = "audited", ![k].audit = "allow"]
    <3>1. ConnectionOK(conn[k])'
      BY <1>s, <1>t, <1>11, <2>2
      DEF AuditAccept, HandshakeInv, ConnectionOK, Named, Activated, Connection, vars, history
    <3> QED
      BY <1>s, <1>t, <2>2, <3>1, OneConnectionMoves
  <2> QED
    BY <1>11, <2>1, <2>2 DEF AuditAccept
<1>12. ASSUME NEW k \in Connections, SendOK(k) PROVE HandshakeInv'
  <2>1. ConnectionOK(conn[k])'
    BY <1>s, <1>t, <1>12 DEF SendOK, HandshakeInv, ConnectionOK, Named, Activated, vars, history
  <2> QED
    BY <1>s, <1>t, <1>12, <2>1, OneConnectionMoves DEF SendOK
<1> QED
  BY <1>1, <1>2, <1>3, <1>4, <1>5, <1>6, <1>7, <1>8, <1>9, <1>10, <1>11, <1>12
  DEF ProxyNext, AcceptSession

\* A step that admits nobody.
LEMMA AdmissionKept ==
  ASSUME AdmissionInv, [Next]_vars, UNCHANGED accepted,
         \A k \in Connections, c \in Usernames : Admitted(k, c)' => Admitted(k, c)
  PROVE  AdmissionInv'
BY HistoryGrows DEF AdmissionInv

LEMMA NextAdmissionInv == AuthInv /\ [ProxyNext]_proxyVars => AdmissionInv'
<1> SUFFICES ASSUME AuthInv, [ProxyNext]_proxyVars PROVE AdmissionInv'
  OBVIOUS
<1>s. [Next]_vars /\ HandshakeInv /\ AdmissionInv
  BY ProxyStep DEF AuthInv
<1>t. conn \in [Connections -> Connection] /\ accepted \in [Usernames -> Nat]
  BY DEF AuthInv, ProxyTypeOK
<1>1. ASSUME UNCHANGED <<conn, accepted>> PROVE AdmissionInv'
  BY <1>s, <1>1, AdmissionKept DEF Admitted
<1>2. ASSUME NEW k \in Connections, UNCHANGED accepted,
             \A l \in Connections \ {k} : conn'[l] = conn[l],
             conn'[k].phase \notin {"consumed", "invalidated", "audited"}
      PROVE  AdmissionInv'
  BY <1>s, <1>2, AdmissionKept DEF Admitted
<1>3. ASSUME NEW k \in Connections,
             \/ Greet(k) \/ DatabaseRejected(k) \/ ClientGone(k) \/ GetCredential(k)
             \/ PasswordMatches(k) \/ PasswordDiffers(k)
      PROVE  AdmissionInv'
  <2>1. Closed(conn[k]).phase = "ended"
    BY <1>t, ClosedType
  <2>2. CASE Greet(k)
    BY <1>t, <1>2, <2>2 DEF Greet, Handshake
  <2>3. CASE DatabaseRejected(k) \/ ClientGone(k)
    BY <1>t, <1>2, <2>1, <2>3 DEF DatabaseRejected, ClientGone, Connection
  <2>4. CASE GetCredential(k) \/ PasswordMatches(k) \/ PasswordDiffers(k)
    BY <1>t, <1>2, <2>4 DEF GetCredential, PasswordMatches, PasswordDiffers, Connection
  <2> QED
    BY <1>3, <2>2, <2>3, <2>4
<1>4. ASSUME NEW k \in Connections,
             ConnectFails(k) \/ Disconnect(k) \/ Connect(k) \/ Activate(k)
      PROVE  AdmissionInv'
  <2>1. Closed(conn[k]).phase = "ended"
    BY <1>t, ClosedType
  <2>2. CASE ConnectFails(k) \/ Disconnect(k)
    BY <1>t, <1>2, <2>1, <2>2 DEF ConnectFails, Disconnect
  <2>3. CASE Connect(k) \/ Activate(k)
    BY <1>t, <1>2, <2>3 DEF Connect, Activate, Connection
  <2> QED
    BY <1>4, <2>2, <2>3
<1>5. ASSUME NEW k \in Connections, OnAuthFailure(k) \/ ReplayFails(k)
      PROVE  AdmissionInv'
  <2>1. Closed(conn[k]).phase = "ended" /\ Closed(conn[k]) \in Connection
    BY <1>t, ClosedType
  <2>2. conn'[k].phase = "ended" /\ \A l \in Connections \ {k} : conn'[l] = conn[l]
    BY <1>t, <1>5, <2>1 DEF OnAuthFailure, ReplayFails, Connection
  <2> QED
    BY <1>2, <1>5, <2>2 DEF OnAuthFailure, ReplayFails
<1>6. ASSUME NEW k \in Connections, ConsumeCredential(k) PROVE AdmissionInv'
  <2> DEFINE c == conn[k].username
  <2>1. CASE reply'.err = "ok"
    <3>1. c \in Usernames /\ credentials[c] # None /\ consumed' = consumed \cup {c}
      BY <1>s, <1>6, <2>1 DEF ConsumeCredential, Consume, Lookup, HandshakeInv, ConnectionOK, Named
    <3>2. c \notin consumed
      BY <3>1 DEF AuthInv, StoreInv, CredentialInv
    <3>3. accepted[c] = 0 /\ \A l \in Connections : ~ Admitted(l, c)
      BY <1>s, <3>1, <3>2 DEF AdmissionInv
    <3>4. /\ conn'[k].phase = "consumed" /\ conn'[k].username = c
          /\ \A l \in Connections \ {k} : conn'[l] = conn[l]
          /\ UNCHANGED accepted
      BY <1>t, <1>6, <2>1 DEF ConsumeCredential, Connection
    <3> HIDE DEF c
    <3>5. \A l \in Connections, d \in Usernames :
            Admitted(l, d)' <=> IF l = k THEN d = c ELSE Admitted(l, d)
      BY <3>4 DEF Admitted
    <3> QED
      BY <1>s, <3>1, <3>3, <3>4, <3>5 DEF AdmissionInv
  <2>2. CASE reply'.err # "ok"
    BY <1>t, <1>2, <1>6, <2>2 DEF ConsumeCredential, Closed, Connection
  <2> QED
    BY <2>1, <2>2
<1>7. ASSUME NEW k \in Connections, InvalidateCache(k) \/ AuditAccept(k) PROVE AdmissionInv'
  <2>1. /\ UNCHANGED accepted
        /\ conn[k].phase \in {"consumed", "invalidated"}
        /\ conn'[k].username = conn[k].username
        /\ \A l \in Connections \ {k} : conn'[l] = conn[l]
    BY <1>t, <1>7, ClosedType DEF InvalidateCache, AuditAccept, Connection
  <2>2. \A l \in Connections, c \in Usernames : Admitted(l, c)' => Admitted(l, c)
    BY <2>1 DEF Admitted
  <2> QED
    BY <1>s, <2>1, <2>2, AdmissionKept
<1>8. ASSUME NEW k \in Connections, SendOK(k) PROVE AdmissionInv'
  <2> DEFINE c == conn[k].username
  <2>1. c \in Usernames /\ Admitted(k, c) /\ UNCHANGED consumed
    BY <1>s, <1>8 DEF SendOK, Admitted, HandshakeInv, ConnectionOK, Named, vars, history
  <2>2. accepted[c] = 0 /\ c \in consumed /\ \A l \in Connections : Admitted(l, c) => l = k
    BY <1>s, <2>1 DEF AdmissionInv
  <2>3. /\ conn'[k].phase = "established"
        /\ \A l \in Connections \ {k} : conn'[l] = conn[l]
        /\ accepted' = [accepted EXCEPT ![c] = 1]
    BY <1>t, <1>8, <2>1, <2>2 DEF SendOK, Connection
  <2> HIDE DEF c
  <2>4. \A l \in Connections, d \in Usernames :
          Admitted(l, d)' <=> l # k /\ Admitted(l, d)
    BY <2>3 DEF Admitted
  <2> QED
    BY <1>s, <1>t, <2>1, <2>2, <2>3, <2>4 DEF AdmissionInv
<1>9. CASE BrowserIssues \/ TimePasses \/ UNCHANGED proxyVars
  BY <1>1, <1>9 DEF BrowserIssues, TimePasses, connVars, proxyVars
<1> QED
  BY <1>3, <1>4, <1>5, <1>6, <1>7, <1>8, <1>9 DEF ProxyNext, AcceptSession

-----------------------------------------------------------------------------
(* The theorems. *)

LEMMA InitAuthInv == ProxyInit => AuthInv
<1> SUFFICES ASSUME ProxyInit PROVE AuthInv
  OBVIOUS
<1>1. StoreInv
  BY InitStoreInv DEF ProxyInit
<1>2. ProxyTypeOK
  BY DEF ProxyInit, ProxyTypeOK, NoConnection, Handshake, Connection, Phases, Activated
<1>3. IsFiniteSet(guesses)
  BY FS_EmptySet DEF ProxyInit
<1>4. HandshakeInv
  BY DEF ProxyInit, HandshakeInv, ConnectionOK, Named, NoConnection, Handshake, Activated
<1>5. AdmissionInv
  BY DEF ProxyInit, AdmissionInv, Admitted, NoConnection, Handshake
<1> QED
  BY <1>1, <1>2, <1>3, <1>4, <1>5 DEF AuthInv

LEMMA NextAuthInv == AuthInv /\ [ProxyNext]_proxyVars => AuthInv'
<1> SUFFICES ASSUME AuthInv, [ProxyNext]_proxyVars PROVE AuthInv'
  OBVIOUS
<1>1. StoreInv'
  BY ProxyStep, NextStoreInv DEF AuthInv
<1>2. IsFiniteSet(guesses')
  <2>1. \/ guesses' = guesses
        \/ \E g : guesses' = guesses \cup {g}
    BY DEF ProxyNext, BrowserIssues, TimePasses, Greet, DatabaseRejected, GetCredential, PasswordMatches,
       PasswordDiffers, OnAuthFailure, AcceptSession, ConnectFails, Connect, Activate, ReplayFails,
       ConsumeCredential, InvalidateCache, AuditAccept, SendOK, ClientGone, Disconnect, connVars,
       proxyVars
  <2> QED
    BY <2>1, FS_AddElement DEF AuthInv
<1> QED
  BY <1>1, <1>2, NextProxyTypeOK, NextHandshakeInv, NextAdmissionInv DEF AuthInv

LEMMA AuthInvariance == ProxySpec => []AuthInv
BY InitAuthInv, NextAuthInv, PTL DEF ProxySpec

\* Every variable of the proxy has its type, and a session holds a forwarding handler
\* exactly from Activate to Close (deferredForwardingHandler).
THEOREM ProxyTypeCorrect == ProxySpec => []ProxyTypeOK
<1>1. AuthInv => ProxyTypeOK
  BY DEF AuthInv
<1> QED
  BY <1>1, AuthInvariance, PTL

\* One credential admits one session, however many connections present it at once
\* (recordAuthSuccess, Consume).
THEOREM OneSession == ProxySpec => []SingleSession
<1>1. AuthInv => SingleSession
  BY DEF AuthInv, AdmissionInv, SingleSession
<1> QED
  BY <1>1, AuthInvariance, PTL

\* An accepted session was consumed, audited, encrypted if that is required, and is its
\* owner's (recordAuthSuccess).
THEOREM AcceptedAreProper == ProxySpec => []AcceptedProperly
<1>1. AuthInv => AcceptedProperly
  BY DEF AuthInv, HandshakeInv, ConnectionOK, ProxyTypeOK, Activated, AcceptedProperly
<1> QED
  BY <1>1, AuthInvariance, PTL

\* Whichever step of a handshake fails, its upstream connection is closed (Activate,
\* recordAuthSuccess, ServeConn).
THEOREM UpstreamsAreClosed == ProxySpec => []NoUpstreamLeak
<1>1. AuthInv => NoUpstreamLeak
  BY DEF AuthInv, HandshakeInv, ConnectionOK, Activated, NoUpstreamLeak
<1> QED
  BY <1>1, AuthInvariance, PTL

-----------------------------------------------------------------------------
(* How many passwords can be guessed although the throttle is checked      *)
(* before a guess and counts it after: of the guesses made in a window,    *)
(* each was recorded since, or its connection is still on the way to       *)
(* record it (Denied).  When a lookup lets one more connection guess,      *)
(* fewer failures than the limit were recorded in the window that ends     *)
(* then.  So the guesses of any window that is not over, and the           *)
(* connections that may still make one in it (Asking), are fewer than the  *)
(* limit and the connections together.                                     *)

GuessesIn(s, t) == Within({g \in guesses : g.source = s}, t, SourceFailureWindow)
RecordedSince(s, t) == {f \in failureLog : f.source = s /\ f.at >= t}
Asking(s) == {k \in Connections : conn[k].phase = "looked_up" /\ conn[k].source = s}
Denied(s) == {k \in Connections : conn[k].phase = "denied" /\ conn[k].source = s}
Budget == SourceFailureLimit - 1 + Cardinality(Connections)

BudgetAt(s, t) ==
  /\ Cardinality(GuessesIn(s, t)) <= Cardinality(RecordedSince(s, t)) + Cardinality(Denied(s))
  /\ t <= now /\ now <= t + SourceFailureWindow =>
       Cardinality(GuessesIn(s, t)) + Cardinality(Asking(s)) <= Budget
  /\ Cardinality(GuessesIn(s, t)) <= Budget

\* Failures are numbered, and no guess is later than the clock.
EventsInv ==
  /\ \A f \in failureLog : f.id < Cardinality(failureLog)
  /\ \A g \in guesses : g.at <= now

BudgetInv == EventsInv /\ \A s \in Sources, t \in Times : BudgetAt(s, t)

\* All that is counted is finite.
Counted(S) == IsFiniteSet(S) /\ Cardinality(S) \in Nat

LEMMA SubsetCounted ==
  ASSUME NEW S, Counted(S), NEW T, T \subseteq S
  PROVE  Counted(T) /\ Cardinality(T) <= Cardinality(S)
BY FS_Subset, FS_CardinalityType DEF Counted

LEMMA AllCounted ==
  ASSUME AuthInv, NEW s, NEW t
  PROVE  /\ Counted(Connections) /\ Counted(Asking(s)) /\ Counted(Denied(s))
         /\ Counted(guesses) /\ Counted(GuessesIn(s, t))
         /\ Counted(failureLog) /\ Counted(RecordedSince(s, t))
<1>1. Counted(Connections) /\ Counted(guesses) /\ Counted(failureLog)
  BY ProxyAssumption, FS_CardinalityType
  DEF Counted, AuthInv, StoreInv, CredentialInv, TypeInv
<1>2. /\ Asking(s) \subseteq Connections /\ Denied(s) \subseteq Connections
      /\ GuessesIn(s, t) \subseteq guesses /\ RecordedSince(s, t) \subseteq failureLog
  BY DEF Asking, Denied, GuessesIn, RecordedSince, Within
<1>3. Counted(Asking(s)) /\ Counted(Denied(s))
  BY <1>1, <1>2, SubsetCounted
<1>4. Counted(GuessesIn(s, t))
  BY <1>1, <1>2, SubsetCounted
<1>5. Counted(RecordedSince(s, t))
  BY <1>1, <1>2, SubsetCounted
<1> QED
  BY <1>1, <1>3, <1>4, <1>5

LEMMA Added ==
  ASSUME NEW S, Counted(S), NEW x
  PROVE  /\ Counted(S \cup {x}) /\ Cardinality(S \cup {x}) <= Cardinality(S) + 1
         /\ x \notin S => Cardinality(S \cup {x}) = Cardinality(S) + 1
<1>1. /\ IsFiniteSet(S \cup {x})
      /\ Cardinality(S \cup {x}) = Cardinality(S) \/ Cardinality(S \cup {x}) = Cardinality(S) + 1
      /\ x \notin S => Cardinality(S \cup {x}) = Cardinality(S) + 1
  BY FS_AddElement DEF Counted
<1> QED
  BY <1>1 DEF Counted

LEMMA Removed ==
  ASSUME NEW S, Counted(S), NEW x \in S
  PROVE  Counted(S \ {x}) /\ Cardinality(S \ {x}) = Cardinality(S) - 1
BY FS_RemoveElement, FS_CardinalityType DEF Counted

LEMMA Arithmetic ==
  /\ SourceFailureLimit \in Nat \ {0} /\ SourceFailureWindow \in Nat \ {0}
  /\ Cardinality(Connections) \in Nat /\ Budget \in Nat /\ Cardinality(Connections) <= Budget
  /\ Times \subseteq Nat
BY StoreAssumption, ProxyAssumption, FS_CardinalityType DEF Budget, Times

\* A guess later than the clock has not been made.
LEMMA NoGuessYet ==
  ASSUME EventsInv, AuthInv, NEW s, NEW t \in Int, t > now
  PROVE  GuessesIn(s, t) = {} /\ Cardinality(GuessesIn(s, t)) = 0
<1>1. guesses \subseteq FailureEvent /\ now \in Times
  BY DEF AuthInv, ProxyTypeOK, StoreInv, CredentialInv, TypeInv, TypeOK
<1>2. \A g \in guesses : g.at \in Int /\ g.at <= now /\ now \in Int
  BY <1>1, StoreAssumption DEF EventsInv, FailureEvent, Times
<1>3. GuessesIn(s, t) = {}
  BY <1>2 DEF GuessesIn, Within
<1> QED
  BY <1>3, FS_EmptySet

-----------------------------------------------------------------------------
(* The steps. *)

\* Most let nobody guess and count nothing.
LEMMA Quiet ==
  ASSUME AuthInv, AuthInv', BudgetInv, UNCHANGED <<now, guesses, failureLog>>,
         \A s \in Sources : Asking(s)' \subseteq Asking(s) /\ Denied(s) \subseteq Denied(s)'
  PROVE  BudgetInv'
<1>1. EventsInv'
  BY DEF BudgetInv, EventsInv
<1>2. ASSUME NEW s \in Sources, NEW t \in Times PROVE BudgetAt(s, t)'
  <2>1. GuessesIn(s, t)' = GuessesIn(s, t) /\ RecordedSince(s, t)' = RecordedSince(s, t)
    BY DEF GuessesIn, RecordedSince, Within
  <2>a. Denied(s)' \subseteq Connections /\ Counted(Connections)
    BY AllCounted DEF Denied
  <2>2. /\ Counted(Asking(s)) /\ Counted(Denied(s)') /\ Counted(GuessesIn(s, t))
        /\ Counted(RecordedSince(s, t))
    BY <2>a, AllCounted, SubsetCounted
  <2>3. Cardinality(Asking(s)') <= Cardinality(Asking(s)) /\ Counted(Asking(s)')
    BY <2>2, SubsetCounted
  <2>4. Cardinality(Denied(s)) <= Cardinality(Denied(s)') /\ Counted(Denied(s))
    BY <2>2, SubsetCounted
  <2>5. BudgetAt(s, t)
    BY DEF BudgetInv
  <2> QED
    BY <2>1, <2>2, <2>3, <2>4, <2>5, Arithmetic DEF BudgetAt, Budget, Counted
<1> QED
  BY <1>1, <1>2 DEF BudgetInv

\* The numbers at hand.
LEMMA Numbers ==
  ASSUME AuthInv
  PROVE  /\ conn \in [Connections -> Connection] /\ now \in Int
         /\ guesses \subseteq FailureEvent /\ failureLog \subseteq FailureEvent
         /\ \A g \in guesses : g.at \in Int
         /\ \A f \in failureLog : f.at \in Int /\ f.at <= now
<1>1. /\ conn \in [Connections -> Connection] /\ now \in Times
      /\ guesses \subseteq FailureEvent /\ failureLog \subseteq FailureEvent /\ Past
  BY DEF AuthInv, ProxyTypeOK, StoreInv, RateInv, CredentialInv, TypeInv, TypeOK
<1>2. \A e \in FailureEvent : e.at \in Int
  <2>1. Times \subseteq Int
    BY Arithmetic
  <2> QED
    BY <2>1 DEF FailureEvent
<1>3. now \in Int
  BY <1>1, Arithmetic
<1> QED
  BY <1>1, <1>2, <1>3 DEF Past

\* A lookup that lets a connection guess saw fewer failures than the limit.
LEMMA Allowed ==
  ASSUME AuthInv, NEW k \in Connections, conn[k].source \in Sources, ~ SourceLimited(conn[k].source),
         NEW t \in Int, t <= now, now <= t + SourceFailureWindow
  PROVE  Cardinality(RecordedSince(conn[k].source, t)) <= SourceFailureLimit - 1
<1> DEFINE s == conn[k].source
<1>1. BucketsComplete
  BY DEF AuthInv, StoreInv, RateInv
<1>2. Within(FailuresFrom(s), now - SourceFailureWindow, SourceFailureWindow) = RecentSourceFailures(s)
  BY <1>1 DEF BucketsComplete, RecentSourceFailures
<1>3. RecordedSince(s, t) \subseteq RecentSourceFailures(s)
  <2>1. \A f \in RecordedSince(s, t) :
          f \in Within(FailuresFrom(s), now - SourceFailureWindow, SourceFailureWindow)
    BY Numbers, Arithmetic DEF RecordedSince, Within, FailuresFrom
  <2> QED
    BY <1>2, <2>1
<1>4. RecentSourceFailures(s) \subseteq failureLog
  BY <1>2 DEF Within, FailuresFrom
<1>5. Counted(RecentSourceFailures(s))
        /\ Cardinality(RecordedSince(s, t)) <= Cardinality(RecentSourceFailures(s))
        /\ Counted(RecordedSince(s, t))
  <2>1. Counted(failureLog)
    BY AllCounted
  <2>2. Counted(RecentSourceFailures(s))
    BY <1>4, <2>1, SubsetCounted
  <2> QED
    BY <1>3, <2>2, SubsetCounted
<1> QED
  BY <1>5, Arithmetic DEF SourceLimited, Counted

\* One more connection may guess: no more than there are connections.
LEMMA LookedUp ==
  ASSUME AuthInv, AuthInv', BudgetInv, NEW k \in Connections, GetCredential(k)
  PROVE  BudgetInv'
<1>u. /\ UNCHANGED <<now, guesses, failureLog>> /\ conn \in [Connections -> Connection]
      /\ \A l \in Connections \ {k} : conn'[l] = conn[l]
      /\ conn[k].phase = "greeted" /\ conn'[k].source = conn[k].source
      /\ conn'[k].phase \in {"looked_up", "denied"}
      /\ conn'[k].phase = "looked_up" => ~ SourceLimited(conn[k].source)
  BY Numbers DEF GetCredential, PendingCredential, history
<1>s. conn[k].source \in Sources
  BY <1>u DEF AuthInv, HandshakeInv, ConnectionOK, Named
<1>1. CASE conn'[k].phase = "denied"
  <2>1. \A s \in Sources : Asking(s)' \subseteq Asking(s) /\ Denied(s) \subseteq Denied(s)'
    BY <1>u, <1>1 DEF Asking, Denied
  <2> QED
    BY <1>u, <2>1, Quiet
<1>2. CASE conn'[k].phase = "looked_up"
  <2>1. EventsInv'
    BY <1>u DEF BudgetInv, EventsInv
  <2>2. ASSUME NEW s \in Sources, NEW t \in Times PROVE BudgetAt(s, t)'
    <3>1. /\ GuessesIn(s, t)' = GuessesIn(s, t) /\ RecordedSince(s, t)' = RecordedSince(s, t)
          /\ Denied(s)' = Denied(s)
      BY <1>u, <1>2 DEF GuessesIn, RecordedSince, Within, Denied
    <3>2. BudgetAt(s, t)
      BY DEF BudgetInv
    <3>3. CASE s # conn[k].source
      <4>1. Asking(s)' = Asking(s)
        BY <1>u, <3>3 DEF Asking
      <4> QED
        BY <1>u, <3>1, <3>2, <4>1 DEF BudgetAt
    <3>4. CASE s = conn[k].source /\ t <= now /\ now <= t + SourceFailureWindow
      <4>1. Cardinality(RecordedSince(s, t)) <= SourceFailureLimit - 1
        BY <1>u, <1>2, <1>s, <3>4, Allowed, Arithmetic
      <4>2. Asking(s)' \subseteq Connections /\ Denied(s) \subseteq Connections
              /\ Asking(s)' \cap Denied(s) = {}
        <5>1. Asking(s)' \cap Denied(s)' = {}
          BY DEF Asking, Denied
        <5> QED
          BY <3>1, <5>1 DEF Asking, Denied
      <4>3. /\ Counted(Connections) /\ Counted(Denied(s)) /\ Counted(GuessesIn(s, t))
            /\ Counted(RecordedSince(s, t))
        BY AllCounted
      <4>4. Counted(Asking(s)')
        BY <4>2, <4>3, SubsetCounted
      <4>5. Counted(Asking(s)' \cup Denied(s))
              /\ Cardinality(Asking(s)' \cup Denied(s)) <= Cardinality(Connections)
        BY <4>2, <4>3, SubsetCounted
      <4>6. Cardinality(Asking(s)' \cup Denied(s)) = Cardinality(Asking(s)') + Cardinality(Denied(s))
        <5>1. Cardinality(Asking(s)' \cup Denied(s)) =
                Cardinality(Asking(s)') + Cardinality(Denied(s)) - Cardinality(Asking(s)' \cap Denied(s))
          BY <4>3, <4>4, FS_Union DEF Counted
        <5>2. Cardinality(Asking(s)' \cap Denied(s)) = 0
          BY <4>2, FS_EmptySet
        <5>3. Cardinality(Asking(s)') \in Int /\ Cardinality(Denied(s)) \in Int
          BY <4>3, <4>4 DEF Counted
        <5> QED
          BY <5>1, <5>2, <5>3
      <4> QED
        BY <1>u, <3>1, <3>2, <4>1, <4>3, <4>4, <4>5, <4>6, Arithmetic DEF BudgetAt, Budget, Counted
    <3>5. CASE ~ (t <= now /\ now <= t + SourceFailureWindow)
      BY <1>u, <3>1, <3>2, <3>5 DEF BudgetAt
    <3> QED
      BY <3>3, <3>4, <3>5
  <2> QED
    BY <2>1, <2>2 DEF BudgetInv
<1> QED
  BY <1>u, <1>1, <1>2

\* A wrong guess: the connection asks no more, and has a failure to record.
LEMMA Guessed ==
  ASSUME AuthInv, AuthInv', BudgetInv, NEW k \in Connections, PasswordDiffers(k)
  PROVE  BudgetInv'
<1> DEFINE guess == [id |-> Cardinality(guesses), source |-> conn[k].source, at |-> now]
<1>u. /\ UNCHANGED <<now, failureLog>> /\ conn \in [Connections -> Connection]
      /\ conn' = [conn EXCEPT ![k].phase = "denied"]
      /\ guesses' = guesses \cup {guess}
      /\ conn[k].phase = "looked_up"
  BY Numbers DEF PasswordDiffers, vars, history
<1>v. /\ \A l \in Connections \ {k} : conn'[l] = conn[l]
      /\ conn'[k].phase = "denied" /\ conn'[k].source = conn[k].source
  BY <1>u
<1>g. guess.source = conn[k].source /\ guess.at = now
  OBVIOUS
<1> HIDE DEF guess
<1>1. EventsInv'
  BY <1>u, <1>g, Numbers DEF BudgetInv, EventsInv
<1>2. ASSUME NEW s \in Sources, NEW t \in Times PROVE BudgetAt(s, t)'
  <2>1. RecordedSince(s, t)' = RecordedSince(s, t)
    BY <1>u DEF RecordedSince
  <2>2. BudgetAt(s, t)
    BY DEF BudgetInv
  <2>3. /\ Counted(Asking(s)) /\ Counted(Denied(s)) /\ Counted(GuessesIn(s, t))
        /\ Counted(RecordedSince(s, t))
    BY AllCounted
  <2>4. CASE s # conn[k].source
    <3>1. GuessesIn(s, t)' = GuessesIn(s, t)
      BY <1>u, <1>g, <2>4 DEF GuessesIn, Within
    <3>2. Asking(s)' = Asking(s) /\ Denied(s)' = Denied(s)
      BY <1>v, <2>4 DEF Asking, Denied
    <3> QED
      BY <1>u, <2>1, <2>2, <3>1, <3>2 DEF BudgetAt
  <2>5. CASE s = conn[k].source
    <3>1. /\ k \in Asking(s) /\ Asking(s)' = Asking(s) \ {k}
          /\ k \notin Denied(s) /\ Denied(s)' = Denied(s) \cup {k}
      BY <1>u, <1>v, <2>5 DEF Asking, Denied
    <3>2. /\ Cardinality(Asking(s)') = Cardinality(Asking(s)) - 1
          /\ Cardinality(Denied(s)') = Cardinality(Denied(s)) + 1
      BY <2>3, <3>1, Removed, Added
    <3>3. CASE t <= now /\ now <= t + SourceFailureWindow
      <4>1. GuessesIn(s, t)' = GuessesIn(s, t) \cup {guess}
        BY <1>u, <1>g, <2>5, <3>3 DEF GuessesIn, Within
      <4>2. /\ Cardinality(GuessesIn(s, t)') <= Cardinality(GuessesIn(s, t)) + 1
            /\ Counted(GuessesIn(s, t)')
        BY <2>3, <4>1, Added
      <4>3. /\ Cardinality(GuessesIn(s, t)) <= Cardinality(RecordedSince(s, t)) + Cardinality(Denied(s))
            /\ Cardinality(GuessesIn(s, t)) + Cardinality(Asking(s)) <= Budget
        BY <2>2, <3>3 DEF BudgetAt
      <4>4. Cardinality(Asking(s)') >= 0
        <5>1. Counted(Asking(s) \ {k})
          BY <2>3, <3>1, Removed
        <5> QED
          BY <3>1, <5>1 DEF Counted
      <4> QED
        BY <1>u, <2>1, <2>3, <3>2, <4>2, <4>3, <4>4, Arithmetic DEF BudgetAt, Counted
    <3>4. CASE ~ (t <= now /\ now <= t + SourceFailureWindow)
      <4>1. GuessesIn(s, t)' = GuessesIn(s, t)
        BY <1>u, <1>g, <3>4 DEF GuessesIn, Within
      <4> QED
        BY <1>u, <2>1, <2>2, <2>3, <3>2, <3>4, <4>1, Arithmetic DEF BudgetAt, Counted
    <3> QED
      BY <3>3, <3>4
  <2> QED
    BY <2>4, <2>5
<1> QED
  BY <1>1, <1>2 DEF BudgetInv

\* A failure is recorded, once for the connection that has it to record.
LEMMA Recorded ==
  ASSUME AuthInv, AuthInv', BudgetInv, NEW k \in Connections, OnAuthFailure(k)
  PROVE  BudgetInv'
<1> DEFINE failure == [id |-> Cardinality(failureLog), source |-> conn[k].source, at |-> now]
<1>u. /\ UNCHANGED <<now, guesses>> /\ conn \in [Connections -> Connection]
      /\ \A l \in Connections \ {k} : conn'[l] = conn[l]
      /\ conn'[k].phase = "ended" /\ conn[k].phase = "denied"
      /\ failureLog' = failureLog \cup {failure}
  BY Numbers DEF OnAuthFailure, RecordFailure, Closed
<1>g. failure.source = conn[k].source /\ failure.at = now /\ failure.id = Cardinality(failureLog)
  OBVIOUS
<1> HIDE DEF failure
<1>c. Counted(failureLog) /\ \A f \in failureLog : f.id \in Nat /\ f.id < Cardinality(failureLog)
  BY AllCounted, Numbers DEF BudgetInv, EventsInv, FailureEvent
<1>f. failure \notin failureLog
  BY <1>g, <1>c DEF Counted
<1>n. Cardinality(failureLog') = Cardinality(failureLog) + 1
  BY <1>u, <1>c, <1>f, Added
<1>1. EventsInv'
  <2>1. \A f \in failureLog' : f.id < Cardinality(failureLog')
    BY <1>u, <1>g, <1>c, <1>n DEF Counted
  <2> QED
    BY <1>u, <2>1 DEF BudgetInv, EventsInv
<1>2. ASSUME NEW s \in Sources, NEW t \in Times PROVE BudgetAt(s, t)'
  <2>1. GuessesIn(s, t)' = GuessesIn(s, t)
    BY <1>u DEF GuessesIn
  <2>2. Asking(s)' = Asking(s)
    BY <1>u DEF Asking
  <2>3. BudgetAt(s, t)
    BY DEF BudgetInv
  <2>4. /\ Counted(Denied(s)) /\ Counted(GuessesIn(s, t)) /\ Counted(RecordedSince(s, t))
    BY AllCounted
  <2>5. CASE s # conn[k].source
    <3>1. Denied(s)' = Denied(s) /\ RecordedSince(s, t)' = RecordedSince(s, t)
      BY <1>u, <1>g, <2>5 DEF Denied, RecordedSince
    <3> QED
      BY <1>u, <2>1, <2>2, <2>3, <3>1 DEF BudgetAt
  <2>6. CASE s = conn[k].source
    <3>1. k \in Denied(s) /\ Denied(s)' = Denied(s) \ {k}
      BY <1>u, <2>6 DEF Denied
    <3>2. /\ Cardinality(Denied(s)') = Cardinality(Denied(s)) - 1
          /\ Cardinality(Denied(s)') \in Nat
      BY <2>4, <3>1, Removed DEF Counted
    <3>3. CASE t <= now
      <4>1. failure \notin RecordedSince(s, t)
        BY <1>f DEF RecordedSince
      <4>2. RecordedSince(s, t)' = RecordedSince(s, t) \cup {failure}
        BY <1>u, <1>g, <2>6, <3>3 DEF RecordedSince
      <4>3. Cardinality(RecordedSince(s, t)') = Cardinality(RecordedSince(s, t)) + 1
        BY <2>4, <4>1, <4>2, Added
      <4> QED
        BY <1>u, <2>1, <2>2, <2>3, <2>4, <3>2, <4>3 DEF BudgetAt, Counted
    <3>4. CASE t > now
      <4>1. Cardinality(GuessesIn(s, t)) = 0
        BY <3>4, NoGuessYet, Arithmetic DEF BudgetInv
      <4>2. RecordedSince(s, t)' \subseteq failureLog' /\ Counted(failureLog')
        BY <1>u, <1>c, Added DEF RecordedSince
      <4>3. Cardinality(RecordedSince(s, t)') \in Nat
        BY <4>2, SubsetCounted DEF Counted
      <4> QED
        BY <1>u, <2>1, <2>2, <2>3, <3>2, <4>1, <4>3 DEF BudgetAt
    <3> QED
      BY <3>3, <3>4, Numbers, Arithmetic
  <2> QED
    BY <2>5, <2>6
<1> QED
  BY <1>1, <1>2 DEF BudgetInv

\* Time passes: of a window that opens, nothing has been guessed.
LEMMA Passed ==
  ASSUME AuthInv, AuthInv', BudgetInv, TimePasses
  PROVE  BudgetInv'
<1>u. UNCHANGED <<conn, guesses, failureLog>> /\ now' = now + 1 /\ now \in Int
  BY Numbers DEF TimePasses, Tick, connVars, history
<1>1. EventsInv'
  BY <1>u, Numbers DEF BudgetInv, EventsInv
<1>2. ASSUME NEW s \in Sources, NEW t \in Times PROVE BudgetAt(s, t)'
  <2>1. /\ GuessesIn(s, t)' = GuessesIn(s, t) /\ RecordedSince(s, t)' = RecordedSince(s, t)
        /\ Denied(s)' = Denied(s) /\ Asking(s)' = Asking(s)
    BY <1>u DEF GuessesIn, RecordedSince, Denied, Asking
  <2>2. BudgetAt(s, t) /\ t \in Int
    BY Arithmetic DEF BudgetInv
  <2>3. CASE t <= now
    BY <1>u, <2>1, <2>2, <2>3, Arithmetic DEF BudgetAt
  <2>4. CASE t > now
    <3>1. Cardinality(GuessesIn(s, t)) = 0
      BY <2>2, <2>4, NoGuessYet DEF BudgetInv
    <3>2. Cardinality(Asking(s)) <= Cardinality(Connections) /\ Cardinality(Asking(s)) \in Nat
      <4>1. Counted(Connections) /\ Asking(s) \subseteq Connections
        BY AllCounted DEF Asking
      <4> QED
        BY <4>1, SubsetCounted DEF Counted
    <3> QED
      BY <2>1, <2>2, <3>1, <3>2, Arithmetic DEF BudgetAt
  <2> QED
    BY <1>u, <2>2, <2>3, <2>4
<1> QED
  BY <1>1, <1>2 DEF BudgetInv

\* The other steps of a connection neither let it guess nor record anything.
LEMMA Others ==
  ASSUME AuthInv, NEW k \in Connections,
         \/ Greet(k) \/ DatabaseRejected(k) \/ PasswordMatches(k) \/ AcceptSession(k)
         \/ ClientGone(k) \/ Disconnect(k)
  PROVE  /\ UNCHANGED <<now, guesses, failureLog>>
         /\ \A l \in Connections \ {k} : conn'[l] = conn[l]
         /\ conn[k].phase # "denied" /\ conn'[k].phase # "looked_up"
<1>1. UNCHANGED <<now, guesses, failureLog>>
  BY DEF Greet, DatabaseRejected, PasswordMatches, ClientGone, Disconnect, AcceptSession, ConnectFails,
         Connect, Activate, ReplayFails, ConsumeCredential, Consume, InvalidateCache, AuditAccept,
         SendOK, vars, history
<1>t. conn \in [Connections -> Connection] /\ conn[k] \in Connection
  BY Numbers
<1>c. /\ Closed(conn[k]).phase = "ended"
      /\ [Closed(conn[k]) EXCEPT !.upstream = "closed"].phase = "ended"
  BY <1>t, ClosedType DEF Connection
<1> DEFINE Frame == /\ \A l \in Connections \ {k} : conn'[l] = conn[l]
                    /\ conn'[k].phase # "looked_up"
<1>f. conn[k].phase # "denied"
  BY DEF Greet, DatabaseRejected, PasswordMatches, ClientGone, Disconnect, AcceptSession, ConnectFails,
         Connect, Activate, ReplayFails, ConsumeCredential, InvalidateCache, AuditAccept, SendOK
<1>2. ASSUME conn' = [conn EXCEPT ![k] = Closed(@)] \/ Greet(k) \/ ReplayFails(k) PROVE Frame
  <2>1. CASE conn' = [conn EXCEPT ![k] = Closed(@)]
    BY <1>t, <1>c, <2>1
  <2>2. CASE Greet(k)
    BY <1>t, <2>2 DEF Greet, Handshake
  <2>3. CASE ReplayFails(k)
    <3>1. conn' = [conn EXCEPT ![k] = [Closed(conn[k]) EXCEPT !.upstream = "closed"]]
      BY <1>t, <2>3 DEF ReplayFails
    <3> QED
      BY <1>t, <1>c, <3>1
  <2> QED
    BY <1>2, <2>1, <2>2, <2>3
<1>3. ASSUME NEW p \in Phases \ {"looked_up"}, conn' = [conn EXCEPT ![k].phase = p] PROVE Frame
  BY <1>t, <1>3 DEF Connection
<1>4. ASSUME NEW p \in Phases \ {"looked_up"}, NEW u,
             \/ conn' = [conn EXCEPT ![k].phase = p, ![k].upstream = u]
             \/ conn' = [conn EXCEPT ![k].phase = p, ![k].forwarding = u]
             \/ conn' = [conn EXCEPT ![k].phase = p, ![k].user = u]
             \/ conn' = [conn EXCEPT ![k].phase = p, ![k].audit = u]
      PROVE  Frame
  <2>1. CASE conn' = [conn EXCEPT ![k].phase = p, ![k].upstream = u]
    BY <1>t, <2>1 DEF Connection
  <2>2. CASE conn' = [conn EXCEPT ![k].phase = p, ![k].forwarding = u]
    BY <1>t, <2>2 DEF Connection
  <2>3. CASE conn' = [conn EXCEPT ![k].phase = p, ![k].user = u]
    BY <1>t, <2>3 DEF Connection
  <2>4. CASE conn' = [conn EXCEPT ![k].phase = p, ![k].audit = u]
    BY <1>t, <2>4 DEF Connection
  <2> QED
    BY <1>4, <2>1, <2>2, <2>3, <2>4
<1>5. Frame
  <2> HIDE DEF Frame
  <2>p. /\ "denied" \in Phases \ {"looked_up"} /\ "verified" \in Phases \ {"looked_up"}
        /\ "connected" \in Phases \ {"looked_up"} /\ "activated" \in Phases \ {"looked_up"}
        /\ "consumed" \in Phases \ {"looked_up"} /\ "invalidated" \in Phases \ {"looked_up"}
        /\ "audited" \in Phases \ {"looked_up"} /\ "established" \in Phases \ {"looked_up"}
    BY DEF Phases
  <2>1. CASE Greet(k) \/ ReplayFails(k) \/ ConnectFails(k) \/ Disconnect(k)
    BY <1>2, <2>1 DEF ConnectFails, Disconnect
  <2>2. CASE DatabaseRejected(k) \/ PasswordMatches(k) \/ ClientGone(k)
    BY <1>2, <1>3, <2>p, <2>2 DEF DatabaseRejected, PasswordMatches, ClientGone
  <2>3. CASE InvalidateCache(k) \/ SendOK(k)
    BY <1>3, <2>p, <2>3 DEF InvalidateCache, SendOK
  <2>4. CASE Connect(k) \/ Activate(k)
    BY <1>4, <2>p, <2>4 DEF Connect, Activate
  <2>5. CASE AuditAccept(k)
    BY <1>2, <1>4, <2>p, <2>5 DEF AuditAccept
  <2>6. CASE ConsumeCredential(k)
    BY <1>2, <1>4, <2>p, <2>6 DEF ConsumeCredential
  <2> QED
    BY <2>1, <2>2, <2>3, <2>4, <2>5, <2>6 DEF AcceptSession
<1> QED
  BY <1>1, <1>f, <1>5

LEMMA NextBudgetInv == AuthInv /\ BudgetInv /\ [ProxyNext]_proxyVars => BudgetInv'
<1> SUFFICES ASSUME AuthInv, BudgetInv, [ProxyNext]_proxyVars PROVE BudgetInv'
  OBVIOUS
<1>i. AuthInv'
  BY NextAuthInv
<1>1. CASE BrowserIssues \/ UNCHANGED proxyVars
  <2>1. UNCHANGED <<now, guesses, failureLog, conn>>
    BY <1>1
    DEF BrowserIssues, Issue, IssueRefused, IssueAllowed, connVars, proxyVars, vars, history, store
  <2> QED
    BY <1>i, <2>1, Quiet DEF Asking, Denied
<1>2. ASSUME NEW k \in Connections,
             \/ Greet(k) \/ DatabaseRejected(k) \/ PasswordMatches(k) \/ AcceptSession(k)
             \/ ClientGone(k) \/ Disconnect(k)
      PROVE  BudgetInv'
  <2>1. \A s \in Sources : Asking(s)' \subseteq Asking(s) /\ Denied(s) \subseteq Denied(s)'
    BY <1>2, Others DEF Asking, Denied
  <2> QED
    BY <1>i, <1>2, <2>1, Others, Quiet
<1> QED
  BY <1>i, <1>1, <1>2, LookedUp, Guessed, Recorded, Passed DEF ProxyNext

LEMMA InitBudgetInv == ProxyInit => BudgetInv
<1> SUFFICES ASSUME ProxyInit PROVE BudgetInv
  OBVIOUS
<1>1. guesses = {} /\ failureLog = {} /\ \A k \in Connections : conn[k].phase = "idle"
  BY DEF ProxyInit, Init, NoConnection, Handshake
<1>2. ASSUME NEW s \in Sources, NEW t \in Times PROVE BudgetAt(s, t)
  <2>1. /\ GuessesIn(s, t) = {} /\ RecordedSince(s, t) = {}
        /\ Asking(s) = {} /\ Denied(s) = {}
    BY <1>1 DEF GuessesIn, RecordedSince, Within, Asking, Denied
  <2> QED
    BY <2>1, FS_EmptySet, Arithmetic DEF BudgetAt
<1> QED
  BY <1>1, <1>2 DEF BudgetInv, EventsInv

\* The throttle is checked before a guess and counts it after, so concurrent connections
\* can overshoot it, but only by their number: in no stretch of time as long as the window
\* are more wrong passwords compared for one source (PendingCredential, RecordFailure).
THEOREM GuessesAreBounded == ProxySpec => []GuessBudget
<1>1. AuthInv /\ BudgetInv => GuessBudget
  BY DEF BudgetInv, BudgetAt, Budget, GuessesIn, GuessBudget
<1> QED
  BY <1>1, AuthInvariance, InitBudgetInv, NextBudgetInv, PTL DEF ProxySpec
=============================================================================
