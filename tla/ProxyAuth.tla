----------------------------- MODULE ProxyAuth ------------------------------
(***************************************************************************)
(* MySQL connections authenticating against the credential store           *)
(* (internal/mysqlproxy: session_authentication_handler.go,                *)
(* authentication_handler.go, Activate and Close of                        *)
(* deferred_session_handler.go, ServeConn).  Each connection runs in its   *)
(* own goroutine; a step here is what a goroutine does between two points  *)
(* where another can get in: a call of the store, of the upstream server,  *)
(* of the audit log, or a message of the client.                           *)
(*                                                                         *)
(* The MySQL handshake itself is go-mysql's server package: it calls UseDB *)
(* for the database of the handshake response, then GetCredential, and     *)
(* checks the password: against its cache if that has the username (fast   *)
(* auth), otherwise in full, after which it caches the verifier.  It then  *)
(* calls OnAuthSuccess or OnAuthFailure.  When OnAuthSuccess returns no    *)
(* error it sends OK.                                                      *)
(***************************************************************************)
EXTENDS OTPStore

CONSTANTS
  Connections,   \* slots for concurrent client connections
  RequireTLS     \* config mysql.tls.enabled

ASSUME ProxyAssumption == RequireTLS \in BOOLEAN /\ IsFiniteSet(Connections)

VARIABLES
  conn,       \* the connection in each slot
  cache,      \* go-mysql's caching_sha2_password cache: usernames in it
  accepted,   \* history: sessions accepted with each username
  guesses     \* history: wrong passwords that were compared with the right one

connVars == <<conn, cache, accepted, guesses>>
proxyVars == <<vars, connVars>>

Phases ==
  {"idle", "greeted", "looked_up", "denied", "verified", "connected", "activated",
   "consumed", "invalidated", "audited", "established", "ended"}

Activated == {"activated", "consumed", "invalidated", "audited", "established"}

Connection ==
  [phase : Phases, username : Usernames \cup {None}, source : Sources \cup {None},
   tls : BOOLEAN, pendingDatabase : BOOLEAN,
   upstream : {"none", "open", "closed"}, forwarding : BOOLEAN,
   audit : {"none", "allow", "reject"}, user : Users \cup {None}]

Handshake(phase, username, source, tls, database) ==
  [phase |-> phase, username |-> username, source |-> source,
   tls |-> tls, pendingDatabase |-> database, upstream |-> "none",
   forwarding |-> FALSE, audit |-> "none", user |-> None]
NoConnection == Handshake("idle", None, None, FALSE, FALSE)

ProxyInit ==
  /\ Init
  /\ conn = [k \in Connections |-> NoConnection]
  /\ cache = {}
  /\ accepted = [c \in Usernames |-> 0]
  /\ guesses = {}

-----------------------------------------------------------------------------
\* A browser session is issued a credential, or time passes.
BrowserIssues == (\E session \in Sessions : Issue(session)) /\ UNCHANGED connVars
TimePasses == Tick /\ UNCHANGED connVars

\* Mutants: closing forgets the upstream; the audit result is ignored; only the
\* good outcome of Consume is handled; a session whose replay failed keeps its
\* forwarding handler.
ClosedKeepsUpstream(r) == [r EXCEPT !.phase = "ended", !.forwarding = FALSE]
ReplayFailsKeepsHandler(k) ==
  /\ conn[k].phase = "connected"
  /\ conn[k].pendingDatabase
  /\ conn' = [conn EXCEPT ![k].phase = "ended", ![k].forwarding = TRUE,
                          ![k].upstream = "closed"]
  /\ UNCHANGED <<vars, cache, accepted, guesses>>
AuditAcceptIgnored(k) ==
  /\ conn[k].phase = "invalidated"
  /\ \E outcome \in {"allow", "none"} :
       conn' = [conn EXCEPT ![k].phase = "audited", ![k].audit = outcome]
  /\ UNCHANGED <<vars, cache, accepted, guesses>>
ConsumeCredentialIfPossible(k) ==
  /\ conn[k].phase = "activated"
  /\ Lookup(conn[k].username) = "ok"
  /\ Consume(conn[k].username)
  /\ conn' = [conn EXCEPT ![k].phase = "consumed",
                          ![k].user = credentials[conn[k].username].user]
  /\ UNCHANGED <<cache, accepted, guesses>>

\* What ServeConn leaves of a connection: clientSession.Close closes the upstream
\* if a forwarding handler holds it, then the client's connection is closed.
Closed(r) ==
  [r EXCEPT !.phase = "ended", !.forwarding = FALSE,
            !.upstream = IF r.forwarding THEN "closed" ELSE @]

\* A client connects to a free slot and answers the handshake with a username and
\* perhaps a database.  UseDB rejects a database outside the allowlist, which
\* fails the handshake; before Activate it only remembers an allowed one.  Whether
\* a handshake that ends like that counts as a failed authentication is up to the
\* library.
Greet(k) ==
  /\ conn[k].phase \in {"idle", "ended"}
  /\ \E c \in Usernames, s \in Sources, tls, db \in BOOLEAN :
       conn' = [conn EXCEPT ![k] = Handshake("greeted", c, s, tls, db)]
  /\ UNCHANGED <<vars, cache, accepted, guesses>>

DatabaseRejected(k) ==
  /\ conn[k].phase = "greeted"
  /\ conn[k].pendingDatabase
  /\ \/ conn' = [conn EXCEPT ![k] = Closed(@)]
     \/ conn' = [conn EXCEPT ![k].phase = "denied"]
  /\ UNCHANGED <<vars, cache, accepted, guesses>>

\* Every reason not to hand out the credential looks the same to the client: no
\* such user, which the library counts as a failed authentication.
GetCredential(k) ==
  /\ conn[k].phase = "greeted"
  /\ PendingCredential(conn[k].username, conn[k].source)
  /\ conn' = [conn EXCEPT ![k].phase =
                IF reply'.err = "ok" THEN "looked_up" ELSE "denied"]
  /\ UNCHANGED <<cache, accepted, guesses>>

\* The library compares the client's password with its copy of the material, or
\* its hash with the cached one.
PasswordMatches(k) ==
  /\ conn[k].phase = "looked_up"
  /\ conn' = [conn EXCEPT ![k].phase = "verified"]
  /\ cache' = cache \cup {conn[k].username}
  /\ UNCHANGED <<vars, accepted, guesses>>

PasswordDiffers(k) ==
  /\ conn[k].phase = "looked_up"
  /\ Cardinality(guesses) < MaxFailures
  /\ conn' = [conn EXCEPT ![k].phase = "denied"]
  /\ guesses' = guesses \cup
       {[id |-> Cardinality(guesses), source |-> conn[k].source, at |-> now]}
  /\ UNCHANGED <<vars, cache, accepted>>

\* Records the failure, then audits the rejection without looking at the result.
OnAuthFailure(k) ==
  /\ conn[k].phase = "denied"
  /\ RecordFailure(conn[k].username, conn[k].source)
  /\ \E outcome \in {"none", "reject"} :
       conn' = [conn EXCEPT ![k] = [Closed(@) EXCEPT !.audit = outcome]]
  /\ UNCHANGED <<cache, accepted, guesses>>

\* OnAuthSuccess without the TLS it requires, or Connect failing, ends the handshake before there
\* is anything to close.
ConnectFails(k) ==
  /\ conn[k].phase = "verified"
  /\ conn' = [conn EXCEPT ![k] = Closed(@)]
  /\ UNCHANGED <<vars, cache, accepted, guesses>>

Connect(k) ==
  /\ conn[k].phase = "verified"
  /\ RequireTLS => conn[k].tls
  /\ conn' = [conn EXCEPT ![k].phase = "connected", ![k].upstream = "open"]
  /\ UNCHANGED <<vars, cache, accepted, guesses>>

\* Activate replays the database of the handshake on the upstream; if that fails
\* it closes the upstream itself, before the session knows of it.
Activate(k) ==
  /\ conn[k].phase = "connected"
  /\ conn' = [conn EXCEPT ![k].phase = "activated", ![k].forwarding = TRUE]
  /\ UNCHANGED <<vars, cache, accepted, guesses>>

ReplayFails(k) ==
  /\ conn[k].phase = "connected"
  /\ conn[k].pendingDatabase
  /\ conn' = [conn EXCEPT ![k] = [Closed(@) EXCEPT !.upstream = "closed"]]
  /\ UNCHANGED <<vars, cache, accepted, guesses>>

\* Of the connections that verified the same password, the store lets one through.
ConsumeCredential(k) ==
  /\ conn[k].phase = "activated"
  /\ Consume(conn[k].username)
  /\ conn' = IF reply'.err = "ok"
               THEN [conn EXCEPT ![k].phase = "consumed",
                                 ![k].user = credentials[conn[k].username].user]
               ELSE [conn EXCEPT ![k] = Closed(@)]
  /\ UNCHANGED <<cache, accepted, guesses>>

InvalidateCache(k) ==
  /\ conn[k].phase = "consumed"
  /\ conn' = [conn EXCEPT ![k].phase = "invalidated"]
  /\ cache' = cache \ {conn[k].username}
  /\ UNCHANGED <<vars, accepted, guesses>>

\* The session is accepted only if the audit log took the event.
AuditAccept(k) ==
  /\ conn[k].phase = "invalidated"
  /\ \/ conn' = [conn EXCEPT ![k].phase = "audited", ![k].audit = "allow"]
     \/ conn' = [conn EXCEPT ![k] = Closed(@)]
  /\ UNCHANGED <<vars, cache, accepted, guesses>>

\* The library sends OK; if the client is gone the handshake fails after all.
SendOK(k) ==
  /\ conn[k].phase = "audited"
  /\ conn' = [conn EXCEPT ![k].phase = "established"]
  /\ accepted' = [accepted EXCEPT ![conn[k].username] = @ + 1]
  /\ UNCHANGED <<vars, cache, guesses>>

ClientGone(k) ==
  /\ conn[k].phase \in {"greeted", "looked_up", "audited"}
  /\ \/ conn' = [conn EXCEPT ![k] = Closed(@)]
     \/ /\ conn[k].phase # "audited"
        /\ conn' = [conn EXCEPT ![k].phase = "denied"]
  /\ UNCHANGED <<vars, cache, accepted, guesses>>

\* The command loop of ServeConn returns: an error, a terminal error or COM_QUIT.
Disconnect(k) ==
  /\ conn[k].phase = "established"
  /\ conn' = [conn EXCEPT ![k] = Closed(@)]
  /\ UNCHANGED <<vars, cache, accepted, guesses>>

-----------------------------------------------------------------------------
\* What the proxy does by itself once a password matched.
AcceptSession(k) ==
  \/ ConnectFails(k) \/ Connect(k) \/ Activate(k) \/ ReplayFails(k)
  \/ ConsumeCredential(k) \/ InvalidateCache(k) \/ AuditAccept(k) \/ SendOK(k)

ProxyNext ==
  \/ BrowserIssues
  \/ TimePasses
  \/ \E k \in Connections :
       \/ Greet(k) \/ DatabaseRejected(k) \/ GetCredential(k)
       \/ PasswordMatches(k) \/ PasswordDiffers(k) \/ OnAuthFailure(k)
       \/ AcceptSession(k) \/ ClientGone(k) \/ Disconnect(k)

ProxySpec == ProxyInit /\ [][ProxyNext]_proxyVars

\* The goroutine of a connection runs on: the dial has a timeout, the store and the
\* audit log never block for long, and the upstream answers or drops the replay.
FairProxySpec ==
  ProxySpec /\ \A k \in Connections : WF_proxyVars(AcceptSession(k))

-----------------------------------------------------------------------------
(* Properties. *)

\* Every variable of the proxy has its type; the session holds a forwarding
\* handler exactly from Activate to Close, and a user once Consume named one.
ProxyTypeOK ==
  /\ conn \in [Connections -> Connection]
  /\ cache \subseteq Usernames
  /\ accepted \in [Usernames -> Nat]
  /\ guesses \subseteq FailureEvent
  /\ \A k \in Connections :
       /\ conn[k].forwarding <=> conn[k].phase \in Activated
       /\ conn[k].phase \in Activated \ {"activated"} => conn[k].user \in Users

\* However many connections verified a password at the same time, one credential
\* admits one session, ever (recordAuthSuccess, Store.Consume).
SingleSession == \A c \in Usernames : accepted[c] <= 1

\* An accepted session came over TLS if that is required, was audited as allowed, used up its
\* credential, runs as the user the credential was issued to and holds an open
\* upstream (recordAuthSuccess, SetAuditIdentity).
AcceptedProperly ==
  \A k \in Connections : conn[k].phase = "established" =>
    /\ RequireTLS => conn[k].tls
    /\ conn[k].audit = "allow"
    /\ conn[k].username \in consumed
    /\ \E i \in issueLog : /\ i.username = conn[k].username
                           /\ Owner[i.session] = conn[k].user
    /\ conn[k].forwarding /\ conn[k].upstream = "open"

\* Whichever step of the handshake fails, the upstream connection does not outlive
\* the client's (Activate, recordAuthSuccess, ServeConn).
NoUpstreamLeak ==
  \A k \in Connections : conn[k].phase = "ended" => conn[k].upstream # "open"

\* The throttle is checked before a guess and counts it after, so concurrent
\* connections can overshoot it, but only by their number: in no stretch of time as
\* long as the window are more wrong passwords compared for one source
\* (PendingCredential, RecordFailure).
GuessBudget ==
  \A source \in Sources, t \in Times :
    Cardinality(Within({g \in guesses : g.source = source}, t, SourceFailureWindow))
      <= SourceFailureLimit - 1 + Cardinality(Connections)

\* A matching password is answered: the session is accepted or the connection
\* closed, with no step of the proxy waiting for another connection
\* (recordAuthSuccess).
PasswordAnswered ==
  \A k \in Connections :
    conn[k].phase = "verified" ~> conn[k].phase \in {"established", "ended"}

\* initial-architecture.md:106 - a credential is consumed only after successful plugin
\* verification and session acceptance: a consumed credential has an accepted
\* session, or one whose acceptance is still under way (recordAuthSuccess).
ConsumedMeansAccepted ==
  \A c \in consumed :
    \/ accepted[c] > 0
    \/ \E k \in Connections :
         conn[k].username = c /\ conn[k].phase \in {"consumed", "invalidated", "audited"}

=============================================================================
