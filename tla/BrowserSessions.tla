-------------------------- MODULE BrowserSessions ---------------------------
(***************************************************************************)
(* The browser side: the session store (internal/authhttp/session.go), the *)
(* routes that use it (internal/authhttp/handler.go) and the local         *)
(* authentication provider, over the credential store.                     *)
(*                                                                         *)
(* Every operation of SessionStore holds its mutex and is one step, but a  *)
(* request makes up to three of them and an Issue: net/http serves         *)
(* requests concurrently, so those of one session interleave at will.  A   *)
(* session is named by its random ID, which its user and its CSRF token    *)
(* stand for: IDs and tokens are drawn at random and never collide here.   *)
(***************************************************************************)
EXTENDS OTPStore

CONSTANTS
  Requests,          \* requests that may be in progress at the same time
  IdleLifetime,      \* a session not used this long has ended
  AbsoluteLifetime   \* ... and so has one this old

VARIABLES
  browserSessions,   \* SessionStore.sessions: the map, None where it has no entry
  request,           \* [Requests -> where the handler is, what it was sent]
  opened             \* history: the sessions that were put in the map

browser == <<browserSessions, request, opened>>
browserVars == <<vars, browser>>

\* The user is Owner[s], the CSRF token is s.
BrowserSession == [lastSeen : Times, expiresAt : 0 .. MaxClock + AbsoluteLifetime]

ASSUME BrowserAssumption ==
  /\ {IdleLifetime, AbsoluteLifetime} \subseteq Nat \ {0}
  /\ None \notin Sessions \cup BrowserSession

Kinds == {"login", "page", "credentials", "logout"}
Answers == {"none", "page", "credential", "loggedOut"}
Request ==
  [kind : Kinds,
   at : {"idle", "login", "store", "csrf", "get", "issue", "delete"},
   session : Sessions \cup {None},  \* the session cookie; for a login, the new session
   token : Sessions \cup {None},    \* the csrf_token form field
   stamp : Times,                   \* when Create read the clock
   ended : BOOLEAN,                 \* history: had the session ended when it was sent?
   answer : Answers]
Received(kind, at, session, token, ended) ==
  [kind |-> kind, at |-> at, session |-> session, token |-> token, stamp |-> 0,
   ended |-> ended, answer |-> "none"]
NoRequest == Received("page", "idle", None, None, FALSE)

-----------------------------------------------------------------------------
(* The session store. *)

\* Mutant: only the idle lifetime is looked at.
SessionExpiredIdleOnly(s) == now - browserSessions[s].lastSeen >= IdleLifetime

SessionExpired(s) ==
  \/ now - browserSessions[s].lastSeen >= IdleLifetime
  \/ now >= browserSessions[s].expiresAt

\* What getLocked finds, and what it does to the map: an expired session is
\* deleted, a live one perhaps refreshed.
Live(s) == s # None /\ browserSessions[s] # None /\ ~ SessionExpired(s)
GetLocked(s, refreshIdle) ==
  browserSessions' =
    IF s = None \/ browserSessions[s] = None THEN browserSessions
    ELSE IF SessionExpired(s) THEN [browserSessions EXCEPT ![s] = None]
    ELSE IF refreshIdle THEN [browserSessions EXCEPT ![s].lastSeen = now]
    ELSE browserSessions

Drawn == opened \cup {request[r].session : r \in {q \in Requests : request[q].at = "store"}}

-----------------------------------------------------------------------------
(* The routes. *)

At(r, at) == request' = [request EXCEPT ![r].at = at]
\* The handler serves the request ...
Serve(r, answer) ==
  request' = [request EXCEPT ![r] = [request[r] EXCEPT !.at = "idle", !.answer = answer]]
\* ... or refuses: an error page, or the way back to the login page.
Refuse(r) == request' = [request EXCEPT ![r] = NoRequest]

\* A browser sends the cookie and the form field it was given at some time, of a
\* session that may be over, or of another one, or none; a page needs no form.
Receive(r) ==
  /\ request[r].at = "idle"
  /\ \E kind \in Kinds \ {"login"}, session, token \in opened \cup {None} :
       /\ kind = "page" \/ session = None => token = None
       /\ request' = [request EXCEPT ![r] =
            Received(kind, IF kind = "page" THEN "get" ELSE "csrf", session, token,
                     session # None /\ ~ Live(session))]
  /\ UNCHANGED <<vars, browserSessions, opened>>

ReceiveLogin(r) ==
  /\ request[r].at = "idle"
  /\ request' = [request EXCEPT ![r] = Received("login", "login", None, None, FALSE)]
  /\ UNCHANGED <<vars, browserSessions, opened>>

\* The login form's cookie and field differ or are empty, the provider does not
\* know the user or the password, or the random source fails.
RefuseLogin(r) ==
  /\ request[r].at = "login"
  /\ Refuse(r)
  /\ UNCHANGED <<vars, browserSessions, opened>>

\* Mutant: an error of the random source is ignored, so the ID is empty.
CreateSessionUnchecked(r) ==
  /\ request[r].at = "login"
  /\ \E s \in (Sessions \ Drawn) \cup {None} :
       request' = [request EXCEPT ![r] =
         [request[r] EXCEPT !.at = "store", !.session = s, !.stamp = now]]
  /\ UNCHANGED <<vars, browserSessions, opened>>

\* Create draws the ID and reads the clock before it takes the lock ...
CreateSession(r) ==
  /\ request[r].at = "login"
  /\ \E s \in Sessions \ Drawn :
       request' = [request EXCEPT ![r] =
         [request[r] EXCEPT !.at = "store", !.session = s, !.stamp = now]]
  /\ UNCHANGED <<vars, browserSessions, opened>>

\* ... and stores the session under it.
StoreSession(r) ==
  LET s == request[r].session IN
  /\ request[r].at = "store"
  /\ browserSessions' = [browserSessions EXCEPT ![s] =
       [lastSeen |-> request[r].stamp, expiresAt |-> request[r].stamp + AbsoluteLifetime]]
  /\ opened' = opened \cup {s}
  /\ request' = [request EXCEPT ![r] = NoRequest]
  /\ UNCHANGED vars

\* No cookie: back to the login page, before the token is looked at.
NoCookie(r) ==
  /\ request[r].at \in {"csrf", "get"}
  /\ request[r].session = None
  /\ Refuse(r)
  /\ UNCHANGED <<vars, browserSessions, opened>>

\* Mutants: the token may be that of any session; the lookup refreshes the session.
ValidateCSRFAnyToken(r) ==
  LET s == request[r].session IN
  /\ request[r].at = "csrf"
  /\ s # None
  /\ GetLocked(s, FALSE)
  /\ IF Live(s) /\ request[r].token # None THEN At(r, "get") ELSE Refuse(r)
  /\ UNCHANGED <<vars, opened>>
ValidateCSRFRefreshes(r) ==
  LET s == request[r].session IN
  /\ request[r].at = "csrf"
  /\ s # None
  /\ GetLocked(s, TRUE)
  /\ IF Live(s) /\ request[r].token = s THEN At(r, "get") ELSE Refuse(r)
  /\ UNCHANGED <<vars, opened>>

\* ValidateCSRF looks the session up without refreshing it, and compares.
ValidateCSRF(r) ==
  LET s == request[r].session IN
  /\ request[r].at = "csrf"
  /\ s # None
  /\ GetLocked(s, FALSE)
  /\ IF Live(s) /\ request[r].token = s THEN At(r, "get") ELSE Refuse(r)
  /\ UNCHANGED <<vars, opened>>

\* Get looks it up again, and refreshes it.
Get(r) ==
  LET s == request[r].session
      kind == request[r].kind IN
  /\ request[r].at = "get"
  /\ s # None
  /\ GetLocked(s, TRUE)
  /\ \/ ~ Live(s) /\ Refuse(r)
     \/ Live(s) /\ kind = "page" /\ Serve(r, "page")
     \/ Live(s) /\ kind = "credentials" /\ At(r, "issue")
     \/ Live(s) /\ kind = "logout" /\ At(r, "delete")
  /\ UNCHANGED <<vars, opened>>

\* The issuer is given the copy of the session that Get returned.
IssueCredential(r) ==
  /\ request[r].at = "issue"
  /\ Issue(request[r].session)
  /\ IF reply'.err = "ok" THEN Serve(r, "credential") ELSE Refuse(r)
  /\ UNCHANGED <<browserSessions, opened>>

Delete(r) ==
  /\ request[r].at = "delete"
  /\ browserSessions' = [browserSessions EXCEPT ![request[r].session] = None]
  /\ Serve(r, "loggedOut")
  /\ UNCHANGED <<vars, opened>>

-----------------------------------------------------------------------------
BrowserInit ==
  /\ Init
  /\ browserSessions = [s \in Sessions |-> None]
  /\ request = [r \in Requests |-> NoRequest]
  /\ opened = {}

BrowserNext ==
  \/ \E r \in Requests :
       \/ Receive(r) \/ ReceiveLogin(r) \/ RefuseLogin(r) \/ CreateSession(r)
       \/ StoreSession(r) \/ NoCookie(r) \/ ValidateCSRF(r) \/ Get(r)
       \/ IssueCredential(r) \/ Delete(r)
  \/ Tick /\ UNCHANGED browser

BrowserSpec == BrowserInit /\ [][BrowserNext]_browserVars

-----------------------------------------------------------------------------
(* Properties. *)

\* The session map and the requests in progress have their types, a handler is
\* only ever between two calls its route makes, and a session in the map was put
\* there by a login (SessionStore, Handler.ServeHTTP).
BrowserTypeOK ==
  /\ browserSessions \in [Sessions -> BrowserSession \cup {None}]
  /\ request \in [Requests -> Request]
  /\ opened \subseteq Sessions
  /\ \A s \in Sessions : browserSessions[s] # None => s \in opened
  /\ \A r \in Requests : request[r].at \in {"issue", "delete"} => request[r].session # None

\* A request sent after its session was logged out or had expired is served by no
\* route, whatever other requests of that session are in flight: neither page nor
\* credential nor a second logout.  And what changes state was asked for with the
\* token of that very session (currentSession, validateSessionCSRF, Get).
ServedProperly ==
  \A r \in Requests :
    LET q == request[r] IN
    /\ q.at \in {"issue", "delete"} \/ q.answer \in {"page", "credential", "loggedOut"}
         => ~ q.ended
    /\ q.at \in {"issue", "delete"} \/ q.answer \in {"credential", "loggedOut"}
         => q.token = q.session

\* A form posted without the session's token never prolongs the session: only a
\* lookup that is the session's own does (ValidateCSRF, Get).
OnlyUseProlongs ==
  [][\A s \in Sessions :
       browserSessions[s] # None /\ browserSessions'[s] # None
       /\ browserSessions'[s].lastSeen # browserSessions[s].lastSeen
         => \E r \in Requests :
              /\ request[r].at = "get" /\ request[r].session = s
              /\ request[r].kind = "page" \/ request[r].token = s]_browserSessions

\* The lazy store as eager sessions.
AbstractSession(s) ==
  IF Live(s)
    THEN [phase |-> "open", idleAt |-> browserSessions[s].lastSeen + IdleLifetime,
          endAt |-> browserSessions[s].expiresAt]
    ELSE [phase |-> IF s \in opened THEN "ended" ELSE "none", idleAt |-> 0, endAt |-> 0]

Eager == INSTANCE EagerSession
           WITH session <- [s \in Sessions |-> AbstractSession(s)]

\* Each browser session is an eager session: it ends at the earlier of its idle
\* and its absolute lifetime and at logout, and no request still in flight brings
\* it back (Create, getLocked, Delete).
ImplementsEagerSession == Eager!Spec

=============================================================================
