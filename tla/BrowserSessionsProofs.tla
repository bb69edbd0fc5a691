----------------------- MODULE BrowserSessionsProofs ------------------------
(***************************************************************************)
(* Which browser requests are served, for any number of concurrent         *)
(* requests, logins and logouts.                                           *)
(***************************************************************************)
EXTENDS BrowserSessions, OTPStoreProofs

-----------------------------------------------------------------------------
(* The invariant. *)

\* What a request in progress has behind it.
RequestOK(q) ==
  /\ q.at # "idle" => q.answer = "none"
  /\ q.at = "store" => q.session \in Sessions \ opened /\ q.stamp <= now
  /\ q.at \in {"csrf", "get"} => q.session \in opened \cup {None}
  /\ q.at \in {"csrf", "get"} /\ q.session # None /\ q.ended => ~ Live(q.session)
  /\ q.at = "csrf" => q.kind # "page"
  /\ q.at = "get" /\ q.kind # "page" => q.token = q.session
  /\ q.at \in {"issue", "delete"} => q.session \in opened

\* What it is served, or is about to be.
ServedOK(q) ==
  /\ q.at \in {"issue", "delete"} \/ q.answer \in {"page", "credential", "loggedOut"}
       => ~ q.ended
  /\ q.at \in {"issue", "delete"} \/ q.answer \in {"credential", "loggedOut"}
       => q.token = q.session

\* Two logins never draw the same ID.
DrawnOnce ==
  \A r, q \in Requests :
    request[r].at = "store" /\ request[q].at = "store" /\ request[r].session = request[q].session
      => r = q

BrowserInv ==
  /\ TypeInv /\ BrowserTypeOK /\ DrawnOnce
  /\ \A r \in Requests : RequestOK(request[r]) /\ ServedOK(request[r])

-----------------------------------------------------------------------------
(* What a step of a request does to the sessions. *)

LEMMA Numbers ==
  ASSUME BrowserInv
  PROVE  /\ now \in Int /\ now >= 0 /\ IdleLifetime \in Nat \ {0} /\ AbsoluteLifetime \in Nat \ {0}
         /\ \A s \in Sessions : browserSessions[s] # None =>
              /\ browserSessions[s] \in BrowserSession /\ s \in opened
              /\ browserSessions[s].lastSeen \in Int /\ browserSessions[s].expiresAt \in Int
<1>1. now \in Times /\ Times \subseteq Nat /\ {IdleLifetime, AbsoluteLifetime} \subseteq Nat \ {0}
  BY StoreAssumption, BrowserAssumption DEF BrowserInv, TypeInv, TypeOK, Times
<1>2. \A b \in BrowserSession : b.lastSeen \in Int /\ b.expiresAt \in Int
  <2>1. /\ Times \subseteq Int /\ MaxClock \in Int /\ AbsoluteLifetime \in Int
        /\ 0 .. MaxClock + AbsoluteLifetime \subseteq Int
    BY <1>1, StoreAssumption
  <2> QED
    BY <2>1 DEF BrowserSession
<1>3. \A s \in Sessions : browserSessions[s] # None =>
        browserSessions[s] \in BrowserSession /\ s \in opened
  BY DEF BrowserInv, BrowserTypeOK
<1> QED
  BY <1>1, <1>2, <1>3

\* A lookup ends a session or, for a request that asks for it, prolongs it; it never
\* makes one live.
LEMMA Lookedup ==
  ASSUME BrowserInv, NEW s \in Sessions, NEW refresh \in BOOLEAN,
         GetLocked(s, refresh)
  PROVE  /\ browserSessions' \in [Sessions -> BrowserSession \cup {None}]
         /\ \A x \in Sessions : x # s => browserSessions'[x] = browserSessions[x]
         /\ ~ Live(s) => browserSessions'[s] = None
         /\ Live(s) => /\ browserSessions'[s] # None
                       /\ browserSessions'[s].expiresAt = browserSessions[s].expiresAt
                       /\ browserSessions'[s].lastSeen =
                            IF refresh THEN now ELSE browserSessions[s].lastSeen
<1>1. browserSessions \in [Sessions -> BrowserSession \cup {None}] /\ now \in Times /\ s # None
  BY BrowserAssumption DEF BrowserInv, BrowserTypeOK, TypeInv, TypeOK
<1>2. CASE ~ Live(s)
  <2>1. \/ browserSessions' = browserSessions /\ browserSessions[s] = None
        \/ browserSessions' = [browserSessions EXCEPT ![s] = None]
    BY <1>1, <1>2 DEF GetLocked, Live
  <2> QED
    BY <1>1, <1>2, <2>1
<1>3. CASE Live(s)
  <2>0. browserSessions[s] # None /\ browserSessions[s] \in BrowserSession
    BY <1>1, <1>3 DEF Live
  <2>1. CASE ~ refresh
    BY <1>1, <1>3, <2>0, <2>1 DEF GetLocked, Live
  <2>2. CASE refresh
    <3> DEFINE b == [browserSessions[s] EXCEPT !.lastSeen = now]
    <3>1. browserSessions' = [browserSessions EXCEPT ![s] = b]
      BY <1>1, <1>3, <2>0, <2>2 DEF GetLocked, Live
    <3>2. /\ b \in BrowserSession /\ b.lastSeen = now
          /\ b.expiresAt = browserSessions[s].expiresAt
      BY <1>1, <2>0 DEF BrowserSession
    <3>3. b # None
      BY <3>2, BrowserAssumption
    <3> HIDE DEF b
    <3> QED
      BY <1>1, <1>3, <2>2, <3>1, <3>2, <3>3
  <2> QED
    BY <2>1, <2>2
<1> QED
  BY <1>2, <1>3

\* Every step of the browser side is one of the store or leaves the store alone.
LEMMA BrowserStep == BrowserInv /\ [BrowserNext]_browserVars => [Next]_vars
<1> SUFFICES ASSUME BrowserInv, BrowserNext PROVE [Next]_vars
  BY DEF browserVars
<1>1. ASSUME NEW r \in Requests, IssueCredential(r) PROVE Next
  <2>1. request[r].session \in Sessions
    BY <1>1 DEF IssueCredential, BrowserInv, RequestOK, BrowserTypeOK
  <2> QED
    BY <1>1, <2>1 DEF IssueCredential, Next
<1> QED
  BY <1>1 DEF BrowserNext, Next, Receive, ReceiveLogin, RefuseLogin, CreateSession, StoreSession,
              NoCookie, ValidateCSRF, Get, Delete

\* What is over stays over: no step revives a session.
NothingRevived ==
  /\ now <= now' /\ now' \in Times
  /\ opened \subseteq opened' /\ opened' \subseteq Sessions
  /\ \A s \in opened : ~ Live(s) => ~ Live(s)'
  /\ browserSessions' \in [Sessions -> BrowserSession \cup {None}]
  /\ \A s \in Sessions : browserSessions'[s] # None => s \in opened'

\* ... those that leave the sessions alone ...
LEMMA SessionsKept ==
  ASSUME BrowserInv, UNCHANGED <<now, browserSessions, opened>>
  PROVE  NothingRevived
<1>1. \A s \in opened : Live(s)' <=> Live(s)
  BY DEF Live, SessionExpired
<1> QED
  BY <1>1, Numbers DEF NothingRevived, BrowserInv, BrowserTypeOK, TypeInv, TypeOK

\* ... a lookup ...
LEMMA LookupRevivesNone ==
  ASSUME BrowserInv, UNCHANGED <<now, opened>>, NEW s \in Sessions, NEW refresh \in BOOLEAN,
         GetLocked(s, refresh)
  PROVE  NothingRevived
<1>1. /\ browserSessions' \in [Sessions -> BrowserSession \cup {None}]
      /\ \A x \in Sessions : x # s => browserSessions'[x] = browserSessions[x]
      /\ ~ Live(s) => browserSessions'[s] = None
      /\ browserSessions'[s] # None => Live(s)
  BY Lookedup
<1>2. opened \subseteq Sessions /\ now \in Times /\ now \in Int
  BY Numbers DEF BrowserInv, BrowserTypeOK, TypeInv, TypeOK
<1>3. \A x \in opened : ~ Live(x) => ~ Live(x)'
  BY <1>1, <1>2 DEF Live, SessionExpired
<1>4. \A x \in Sessions : browserSessions'[x] # None => x \in opened'
  BY <1>1, Numbers DEF Live
<1> QED
  BY <1>1, <1>2, <1>3, <1>4 DEF NothingRevived

\* ... and the clock.
LEMMA TickRevivesNone ==
  ASSUME BrowserInv, Tick, UNCHANGED browser
  PROVE  NothingRevived
<1>1. now' = now + 1 /\ now' \in Times /\ UNCHANGED <<browserSessions, opened>>
  BY Numbers, StoreAssumption DEF Tick, browser, Times
<1>2. \A x \in opened : ~ Live(x) => ~ Live(x)'
  <2>1. opened \subseteq Sessions
    BY DEF BrowserInv, BrowserTypeOK
  <2> QED
    BY <1>1, <2>1, Numbers DEF Live, SessionExpired
<1> QED
  BY <1>1, <1>2, Numbers DEF NothingRevived, BrowserInv, BrowserTypeOK

\* A session is stored under an ID that was never stored before.
LEMMA StoringRevivesNone ==
  ASSUME BrowserInv, NEW r \in Requests, StoreSession(r)
  PROVE  /\ NothingRevived /\ request[r].session \in Sessions \ opened
         /\ request[r].stamp \in Times /\ request[r].stamp <= now
         /\ browserSessions[request[r].session] = None
         /\ browserSessions' = [browserSessions EXCEPT ![request[r].session] =
              [lastSeen |-> request[r].stamp, expiresAt |-> request[r].stamp + AbsoluteLifetime]]
         /\ browserSessions'[request[r].session] # None
<1> DEFINE s == request[r].session
           b == [lastSeen |-> request[r].stamp, expiresAt |-> request[r].stamp + AbsoluteLifetime]
<1>1. /\ s \in Sessions \ opened /\ request[r].stamp \in Times /\ request[r].stamp <= now
      /\ opened \subseteq Sessions /\ now \in Times
      /\ browserSessions \in [Sessions -> BrowserSession \cup {None}]
  BY DEF StoreSession, BrowserInv, RequestOK, BrowserTypeOK, Request, TypeInv, TypeOK
<1>2. browserSessions[s] = None
  BY <1>1, Numbers
<1>3. request[r].stamp + AbsoluteLifetime \in 0 .. MaxClock + AbsoluteLifetime
  BY <1>1, Numbers, StoreAssumption DEF Times
<1>4. b \in BrowserSession /\ b # None
  <2>1. b \in BrowserSession
    BY <1>1, <1>3 DEF BrowserSession
  <2> QED
    BY <2>1, BrowserAssumption
<1>5. /\ browserSessions' = [browserSessions EXCEPT ![s] = b] /\ opened' = opened \cup {s}
      /\ now' = now
  BY DEF StoreSession, vars
<1> HIDE DEF b, s
<1>6. \A x \in opened : browserSessions'[x] = browserSessions[x]
  BY <1>1, <1>5
<1>7. \A x \in opened : ~ Live(x) => ~ Live(x)'
  BY <1>5, <1>6 DEF Live, SessionExpired
<1>8. \A x \in Sessions : browserSessions'[x] # None => x \in opened'
  BY <1>1, <1>5, Numbers
<1>9. NothingRevived
  BY <1>1, <1>4, <1>5, <1>7, <1>8, Numbers DEF NothingRevived
<1> QED
  BY <1>1, <1>2, <1>4, <1>5, <1>9 DEF s, b

-----------------------------------------------------------------------------
(* The steps. *)

\* A step of one request leaves the others as they were; what they have behind them
\* lasts.
LEMMA OneRequestMoves ==
  ASSUME BrowserInv, TypeInv', NothingRevived, NEW r \in Requests, NEW q \in Request,
         request' = [request EXCEPT ![r] = q],
         RequestOK(q)', ServedOK(q),
         q.at \in {"issue", "delete"} => q.session # None,
         \A k \in Requests \ {r} : request[k].at = "store" =>
           /\ request[k].session \notin opened'
           /\ q.at = "store" => request[k].session # q.session
  PROVE  BrowserInv'
<1>t. request \in [Requests -> Request] /\ now \in Int /\ now' \in Int /\ opened \subseteq Sessions
  BY Numbers, StoreAssumption DEF BrowserInv, BrowserTypeOK, NothingRevived, Times
<1>1. \A k \in Requests : k # r => request'[k] = request[k]
  BY <1>t
<1>2. request'[r] = q
  BY <1>t
<1>3. BrowserTypeOK'
  BY <1>t, <1>1, <1>2 DEF BrowserInv, BrowserTypeOK, NothingRevived
<1>4. DrawnOnce'
  BY <1>1, <1>2 DEF BrowserInv, DrawnOnce
<1>5. ASSUME NEW k \in Requests PROVE RequestOK(request[k])' /\ ServedOK(request[k])'
  <2>1. CASE k = r
    BY <1>2, <2>1 DEF RequestOK, ServedOK
  <2>2. CASE k # r
    <3>1. RequestOK(request[k]) /\ ServedOK(request[k]) /\ request'[k] = request[k]
      BY <1>1, <2>2 DEF BrowserInv
    <3>2. request[k] \in Request /\ \A t \in Times : t \in Int
      BY <1>t, StoreAssumption DEF Times
    <3>3. request[k].stamp \in Int
      BY <3>2 DEF Request
    <3>4. request[k].at = "store" =>
            request[k].session \in Sessions \ opened' /\ request[k].stamp <= now'
      BY <1>t, <2>2, <3>1, <3>3 DEF RequestOK, NothingRevived
    <3>5. RequestOK(request[k])'
      BY <3>1, <3>4 DEF RequestOK, NothingRevived
    <3> QED
      BY <3>1, <3>5 DEF ServedOK
  <2> QED
    BY <2>1, <2>2
<1> QED
  BY <1>3, <1>4, <1>5 DEF BrowserInv

\* What every step starts from.
LEMMA Requested ==
  ASSUME BrowserInv, NEW r \in Requests
  PROVE  /\ request[r] \in Request /\ RequestOK(request[r]) /\ ServedOK(request[r])
         /\ opened \subseteq Sessions /\ now \in Times
         /\ \A k \in Requests : request[k].at = "store" => request[k].session \notin opened
         /\ NoRequest \in Request /\ NoRequest.at = "idle" /\ NoRequest.answer = "none"
         /\ NoRequest.kind = "page" /\ ~ NoRequest.ended
<1>1. 0 \in Times
  BY StoreAssumption DEF Times
<1> QED
  BY <1>1 DEF BrowserInv, BrowserTypeOK, TypeInv, TypeOK, RequestOK, NoRequest, Received, Request, Kinds, Answers

\* A request is refused.
LEMMA NextRefuse ==
  ASSUME BrowserInv, TypeInv', NothingRevived, NEW r \in Requests, Refuse(r), UNCHANGED opened
  PROVE  BrowserInv'
<1>1. request' = [request EXCEPT ![r] = NoRequest]
  BY DEF Refuse
<1>2. RequestOK(NoRequest)' /\ ServedOK(NoRequest)
  BY DEF RequestOK, ServedOK, NoRequest, Received
<1> QED
  BY <1>1, <1>2, Requested, OneRequestMoves

LEMMA NextReceive ==
  ASSUME BrowserInv, TypeInv', NEW r \in Requests, Receive(r)
  PROVE  BrowserInv'
<1>0. NothingRevived /\ UNCHANGED <<now, browserSessions, opened>>
  BY SessionsKept DEF Receive, vars
<1>1. PICK kind \in Kinds \ {"login"}, session \in opened \cup {None}, token \in opened \cup {None} :
        request' = [request EXCEPT ![r] =
          Received(kind, IF kind = "page" THEN "get" ELSE "csrf", session, token,
                   session # None /\ ~ Live(session))]
  BY DEF Receive
<1>2. PICK over \in BOOLEAN : over <=> session # None /\ ~ Live(session)
  OBVIOUS
<1>3. PICK at \in {"get", "csrf"} : at = IF kind = "page" THEN "get" ELSE "csrf"
  OBVIOUS
<1> DEFINE q == [kind |-> kind, at |-> at, session |-> session, token |-> token, stamp |-> 0,
                 ended |-> over, answer |-> "none"]
<1>4. request' = [request EXCEPT ![r] = q]
  <2>1. (session # None /\ ~ Live(session)) = over
    BY <1>2 DEF Live
  <2>2. request' = [request EXCEPT ![r] = Received(kind, at, session, token, over)]
    BY <1>1, <1>3, <2>1
  <2>3. Received(kind, at, session, token, over) = q
    BY DEF Received
  <2> QED
    BY <2>2, <2>3
<1>5. q \in Request
  <2>1. session \in Sessions \cup {None} /\ token \in Sessions \cup {None} /\ 0 \in Times
    BY Requested, StoreAssumption DEF Times
  <2> QED
    BY <2>1 DEF Request, Kinds, Answers
<1>6. RequestOK(q)' /\ ServedOK(q)
  <2>1. over /\ session # None => ~ Live(session)'
    BY <1>0, <1>2 DEF NothingRevived
  <2> QED
    BY <1>0, <1>3, <2>1 DEF RequestOK, ServedOK
<1>7. q.at \notin {"issue", "delete", "store"}
  OBVIOUS
<1> HIDE DEF q
<1> QED
  BY <1>0, <1>4, <1>5, <1>6, <1>7, Requested, OneRequestMoves

LEMMA NextLogin ==
  ASSUME BrowserInv, TypeInv', NEW r \in Requests, ReceiveLogin(r) \/ CreateSession(r)
  PROVE  BrowserInv'
<1>0. NothingRevived /\ UNCHANGED <<now, browserSessions, opened>>
  BY SessionsKept DEF ReceiveLogin, CreateSession, vars
<1>1. CASE ReceiveLogin(r)
  <2> DEFINE q == [kind |-> "login", at |-> "login", session |-> None, token |-> None,
                   stamp |-> 0, ended |-> FALSE, answer |-> "none"]
  <2>1. request' = [request EXCEPT ![r] = q]
    BY <1>1 DEF ReceiveLogin, Received
  <2>2. q \in Request /\ q.at = "login"
    BY StoreAssumption DEF Request, Kinds, Answers, Times
  <2>3. RequestOK(q)' /\ ServedOK(q)
    BY DEF RequestOK, ServedOK
  <2> HIDE DEF q
  <2> QED
    BY <1>0, <2>1, <2>2, <2>3, Requested, OneRequestMoves
<1>2. CASE CreateSession(r)
  <2>1. PICK s \in Sessions \ Drawn :
          request' = [request EXCEPT ![r] =
            [request[r] EXCEPT !.at = "store", !.session = s, !.stamp = now]]
    BY <1>2 DEF CreateSession
  <2>2. PICK q : q = [request[r] EXCEPT !.at = "store", !.session = s, !.stamp = now]
    OBVIOUS
  <2>3. /\ q \in Request /\ q.at = "store" /\ q.session = s /\ q.stamp = now
        /\ q.answer = "none" /\ request' = [request EXCEPT ![r] = q]
    <3>1. request[r] \in Request /\ now \in Times /\ request[r].answer = "none"
      BY <1>2, Requested DEF CreateSession, RequestOK
    <3> QED
      BY <2>1, <2>2, <3>1 DEF Request
  <2>4. RequestOK(q)' /\ ServedOK(q)
    BY <1>0, <2>3, Numbers DEF RequestOK, ServedOK, Drawn
  <2>5. \A k \in Requests \ {r} : request[k].at = "store" =>
          request[k].session \notin opened /\ request[k].session # s
    BY Requested DEF Drawn
  <2> QED
    BY <1>0, <2>3, <2>4, <2>5, OneRequestMoves
<1> QED
  BY <1>1, <1>2

LEMMA NextStore ==
  ASSUME BrowserInv, TypeInv', NEW r \in Requests, StoreSession(r)
  PROVE  BrowserInv'
<1>1. NothingRevived
  BY StoringRevivesNone
<1>2. request' = [request EXCEPT ![r] = NoRequest] /\ opened' = opened \cup {request[r].session}
        /\ request[r].at = "store"
  BY DEF StoreSession
<1>3. RequestOK(NoRequest)' /\ ServedOK(NoRequest)
  BY DEF RequestOK, ServedOK, NoRequest, Received
<1>4. \A k \in Requests \ {r} : request[k].at = "store" => request[k].session \notin opened'
  BY <1>2, Requested DEF BrowserInv, DrawnOnce
<1> QED
  BY <1>1, <1>2, <1>3, <1>4, Requested, OneRequestMoves

\* A handler goes on to its next call, or answers.
LEMMA NextAt ==
  ASSUME BrowserInv, TypeInv', NothingRevived, UNCHANGED opened, NEW r \in Requests,
         NEW at \in {"get", "issue", "delete"}, At(r, at),
         request[r].at \in {"csrf", "get"}, request[r].session \in Sessions,
         at = "get" => request[r].token = request[r].session,
         at # "get" => /\ Live(request[r].session) /\ request[r].at = "get"
                       /\ request[r].kind # "page"
  PROVE  BrowserInv'
<1>1. PICK q : q = [request[r] EXCEPT !.at = at]
  OBVIOUS
<1>2. request[r] \in Request /\ request[r].answer = "none" /\ request[r].session \in opened
      /\ request[r].session # None
  BY Requested, BrowserAssumption DEF RequestOK
<1>3. /\ q \in Request /\ q.at = at /\ q.session = request[r].session /\ q.token = request[r].token
      /\ q.ended = request[r].ended /\ q.answer = "none" /\ q.kind = request[r].kind
  BY <1>1, <1>2 DEF Request
<1>4. request' = [request EXCEPT ![r] = q]
  BY <1>1 DEF At, BrowserInv, BrowserTypeOK
<1>5. q.ended => ~ Live(q.session) /\ ~ Live(q.session)'
  BY <1>2, <1>3, Requested DEF RequestOK, NothingRevived
<1>6. at # "get" => ~ q.ended /\ q.token = q.session
  BY <1>3, <1>5, Requested DEF RequestOK
<1>7. RequestOK(q)'
  BY <1>2, <1>3, <1>5 DEF RequestOK
<1>8. ServedOK(q)
  BY <1>3, <1>6 DEF ServedOK
<1>9. /\ q.at \in {"issue", "delete"} => q.session # None
      /\ \A k \in Requests \ {r} : request[k].at = "store" =>
           /\ request[k].session \notin opened'
           /\ q.at = "store" => request[k].session # q.session
  BY <1>2, <1>3, Requested
<1> QED
  BY <1>3, <1>4, <1>7, <1>8, <1>9, OneRequestMoves

LEMMA NextServe ==
  ASSUME BrowserInv, TypeInv', NothingRevived, UNCHANGED opened, NEW r \in Requests,
         NEW answer \in {"page", "credential", "loggedOut"}, Serve(r, answer),
         ~ request[r].ended,
         answer # "page" => request[r].token = request[r].session
  PROVE  BrowserInv'
<1>1. PICK q : q = [request[r] EXCEPT !.at = "idle", !.answer = answer]
  OBVIOUS
<1>3. /\ q \in Request /\ q.at = "idle" /\ q.session = request[r].session
      /\ q.token = request[r].token /\ q.ended = request[r].ended /\ q.answer = answer
  <2>1. request[r] \in Request
    BY Requested
  <2> QED
    BY <1>1, <2>1 DEF Request, Answers
<1>4. request' = [request EXCEPT ![r] = q]
  BY <1>1 DEF Serve
<1>7. RequestOK(q)' /\ ServedOK(q)
  BY <1>3 DEF RequestOK, ServedOK
<1> QED
  BY <1>3, <1>4, <1>7, Requested, OneRequestMoves

\* A step of nobody's request.
LEMMA SameRequests ==
  ASSUME BrowserInv, TypeInv', NothingRevived, UNCHANGED <<request, opened>>
  PROVE  BrowserInv'
<1>1. BrowserTypeOK' /\ DrawnOnce'
  BY DEF BrowserInv, BrowserTypeOK, DrawnOnce, NothingRevived
<1>2. ASSUME NEW k \in Requests PROVE RequestOK(request[k])' /\ ServedOK(request[k])'
  <2>1. RequestOK(request[k]) /\ ServedOK(request[k]) /\ request[k] \in Request
    BY Requested
  <2>2. request[k].stamp \in Int /\ now \in Int /\ now' \in Int /\ now <= now'
    BY <2>1, Numbers, StoreAssumption DEF Request, NothingRevived, Times
  <2>3. RequestOK(request[k])'
    BY <2>1, <2>2 DEF RequestOK, NothingRevived
  <2> QED
    BY <2>1, <2>3 DEF ServedOK
<1> QED
  BY <1>1, <1>2 DEF BrowserInv

LEMMA NextBrowserInv == BrowserInv /\ [BrowserNext]_browserVars => BrowserInv'
<1> SUFFICES ASSUME BrowserInv, [BrowserNext]_browserVars PROVE BrowserInv'
  OBVIOUS
<1>t. TypeInv'
  BY BrowserStep, NextTypeInv DEF BrowserInv
<1>1. ASSUME NEW r \in Requests, RefuseLogin(r) \/ NoCookie(r) PROVE BrowserInv'
  BY <1>t, <1>1, SessionsKept, NextRefuse DEF RefuseLogin, NoCookie, vars
<1>2. ASSUME NEW r \in Requests, ValidateCSRF(r) PROVE BrowserInv'
  <2>1. /\ request[r].at = "csrf" /\ request[r].session \in Sessions
        /\ UNCHANGED <<now, opened>>
    BY <1>2, Requested DEF ValidateCSRF, RequestOK, vars
  <2>2. NothingRevived
    BY <1>2, <2>1, LookupRevivesNone DEF ValidateCSRF
  <2>3. CASE Refuse(r)
    BY <1>t, <2>1, <2>2, <2>3, NextRefuse
  <2>4. CASE At(r, "get") /\ request[r].token = request[r].session
    BY <1>t, <2>1, <2>2, <2>4, NextAt
  <2> QED
    BY <1>2, <2>3, <2>4 DEF ValidateCSRF
<1>3. ASSUME NEW r \in Requests, Get(r) PROVE BrowserInv'
  <2>1. /\ request[r].at = "get" /\ request[r].session \in Sessions
        /\ UNCHANGED <<now, opened>>
    BY <1>3, Requested DEF Get, RequestOK, vars
  <2>2. NothingRevived
    BY <1>3, <2>1, LookupRevivesNone DEF Get
  <2>3. CASE Refuse(r)
    BY <1>t, <2>1, <2>2, <2>3, NextRefuse
  <2>4. CASE Live(request[r].session) /\ request[r].kind = "page" /\ Serve(r, "page")
    <3>1. ~ request[r].ended
      BY <2>1, <2>4, Requested, BrowserAssumption DEF RequestOK
    <3> QED
      BY <1>t, <2>1, <2>2, <2>4, <3>1, NextServe
  <2>5. ASSUME NEW at \in {"issue", "delete"}, Live(request[r].session), At(r, at),
               request[r].kind # "page"
        PROVE  BrowserInv'
    BY <1>t, <2>1, <2>2, <2>5, NextAt
  <2> QED
    BY <1>3, <2>3, <2>4, <2>5 DEF Get
<1>4. ASSUME NEW r \in Requests, IssueCredential(r) PROVE BrowserInv'
  <2>1. UNCHANGED <<now, browserSessions, opened>>
    BY <1>4 DEF IssueCredential, Issue, IssueRefused, IssueAllowed
  <2>2. ~ request[r].ended /\ request[r].token = request[r].session
    BY <1>4, Requested DEF IssueCredential, ServedOK
  <2> QED
    BY <1>t, <1>4, <2>1, <2>2, SessionsKept, NextServe, NextRefuse DEF IssueCredential
<1>5. ASSUME NEW r \in Requests, Delete(r) PROVE BrowserInv'
  <2>1. /\ request[r].session \in opened /\ request[r].session \in Sessions
        /\ ~ request[r].ended /\ request[r].token = request[r].session
    BY <1>5, Requested DEF Delete, RequestOK, ServedOK
  <2>2. /\ browserSessions' = [browserSessions EXCEPT ![request[r].session] = None]
        /\ UNCHANGED <<now, opened>> /\ Serve(r, "loggedOut")
    BY <1>5 DEF Delete, vars
  <2>3. browserSessions \in [Sessions -> BrowserSession \cup {None}]
    BY DEF BrowserInv, BrowserTypeOK
  <2>4. \A s \in Sessions : browserSessions'[s] \in {None, browserSessions[s]}
    BY <2>1, <2>2, <2>3
  <2>5. \A s \in opened : ~ Live(s) => ~ Live(s)'
    BY <2>2, <2>4, Requested DEF Live, SessionExpired
  <2>6. NothingRevived
    BY <2>1, <2>2, <2>3, <2>4, <2>5, Numbers, Requested DEF NothingRevived
  <2> QED
    BY <1>t, <2>1, <2>2, <2>6, NextServe
<1>6. CASE Tick /\ UNCHANGED browser
  <2>1. NothingRevived
    BY <1>6, TickRevivesNone
  <2> QED
    BY <1>6, <2>1, <1>t, SameRequests DEF browser
<1>7. CASE UNCHANGED browserVars
  <2>1. NothingRevived
    BY <1>7, SessionsKept DEF browserVars, browser, vars
  <2> QED
    BY <1>7, <2>1, <1>t, SameRequests DEF browserVars, browser
<1> QED
  BY <1>t, <1>1, <1>2, <1>3, <1>4, <1>5, <1>6, <1>7, NextReceive, NextLogin, NextStore DEF BrowserNext

LEMMA InitBrowserInv == BrowserInit => BrowserInv
<1> SUFFICES ASSUME BrowserInit PROVE BrowserInv
  OBVIOUS
<1>1. NoRequest \in Request
  BY StoreAssumption DEF NoRequest, Received, Request, Kinds, Answers, Times
<1>2. BrowserTypeOK
  BY <1>1 DEF BrowserInit, BrowserTypeOK, NoRequest, Received
<1> QED
  BY <1>2, InitTypeInv
  DEF BrowserInit, BrowserInv, DrawnOnce, RequestOK, ServedOK, NoRequest, Received

LEMMA BrowserInvariance == BrowserSpec => []BrowserInv
BY InitBrowserInv, NextBrowserInv, PTL DEF BrowserSpec

\* The session map and the requests in progress have their types, and a session in the
\* map was put there by a login (SessionStore, Handler.ServeHTTP).
THEOREM BrowserTypeCorrect == BrowserSpec => []BrowserTypeOK
<1>1. BrowserInv => BrowserTypeOK
  BY DEF BrowserInv
<1> QED
  BY <1>1, BrowserInvariance, PTL

\* A request sent after its session was over is served by no route, and what changes
\* state was asked for with the token of that very session, for any number of requests
\* in flight (currentSession, validateSessionCSRF, Get).
THEOREM RequestsServedProperly == BrowserSpec => []ServedProperly
<1>1. BrowserInv => ServedProperly
  BY DEF BrowserInv, ServedOK, ServedProperly
<1> QED
  BY <1>1, BrowserInvariance, PTL

-----------------------------------------------------------------------------
(* Each step as a step of the sessions, which notice their end at once. *)

\* What a step does to the session map, if it does anything.
LEMMA SessionSteps ==
  ASSUME BrowserInv, [BrowserNext]_browserVars
  PROVE  \/ UNCHANGED <<now, browserSessions, opened>>
         \/ Tick /\ UNCHANGED <<browserSessions, opened>>
         \/ /\ UNCHANGED now
            /\ \E r \in Requests : StoreSession(r)
         \/ /\ UNCHANGED <<now, opened>>
            /\ \E r \in Requests :
                 /\ request[r].session \in opened
                 /\ \/ ValidateCSRF(r) /\ GetLocked(request[r].session, FALSE)
                    \/ Get(r) /\ GetLocked(request[r].session, TRUE)
                    \/ /\ Delete(r)
                       /\ browserSessions' = [browserSessions EXCEPT ![request[r].session] = None]
<1>1. ASSUME NEW r \in Requests,
             \/ Receive(r) \/ ReceiveLogin(r) \/ RefuseLogin(r) \/ CreateSession(r) \/ NoCookie(r)
             \/ IssueCredential(r)
      PROVE  UNCHANGED <<now, browserSessions, opened>>
  BY <1>1 DEF Receive, ReceiveLogin, RefuseLogin, CreateSession, NoCookie, IssueCredential, Issue,
              IssueRefused, IssueAllowed, vars
<1>2. ASSUME NEW r \in Requests, ValidateCSRF(r) \/ Get(r) \/ Delete(r)
      PROVE  UNCHANGED <<now, opened>> /\ request[r].session \in opened
  BY <1>2, Requested DEF ValidateCSRF, Get, Delete, RequestOK, vars
<1>3. ASSUME NEW r \in Requests, StoreSession(r) PROVE UNCHANGED now
  BY <1>3 DEF StoreSession, vars
<1> QED
  BY <1>1, <1>2, <1>3 DEF BrowserNext, browserVars, browser, vars, ValidateCSRF, Get, Delete

\* A form posted without the session's token never prolongs the session: only a lookup
\* that is the session's own does (ValidateCSRF, Get).
THEOREM UseAloneProlongs == BrowserSpec => OnlyUseProlongs
<1> DEFINE Prolonged(s) ==
      /\ browserSessions[s] # None /\ browserSessions'[s] # None
      /\ browserSessions'[s].lastSeen # browserSessions[s].lastSeen
<1> DEFINE Own(s) == \E r \in Requests :
                      /\ request[r].at = "get" /\ request[r].session = s
                      /\ request[r].kind = "page" \/ request[r].token = s
<1>1. ASSUME BrowserInv, [BrowserNext]_browserVars, NEW s \in Sessions, Prolonged(s)
      PROVE  Own(s)
  <2>t. browserSessions \in [Sessions -> BrowserSession \cup {None}] /\ opened \subseteq Sessions
    BY <1>1 DEF BrowserInv, BrowserTypeOK
  <2>1. ASSUME NEW r \in Requests, request[r].session \in opened, Get(r),
               GetLocked(request[r].session, TRUE)
        PROVE  Own(s)
    <3>1. s = request[r].session
      BY <1>1, <2>t, <2>1, Lookedup
    <3>2. request[r].at = "get" /\ (request[r].kind = "page" \/ request[r].token = s)
      BY <1>1, <2>1, <3>1, Requested DEF Get, RequestOK
    <3> QED
      BY <3>1, <3>2
  <2>2. ASSUME NEW r \in Requests, request[r].session \in opened,
               GetLocked(request[r].session, FALSE)
        PROVE  FALSE
    BY <1>1, <2>t, <2>2, Lookedup
  <2>3. ASSUME NEW r \in Requests, StoreSession(r)
        PROVE  FALSE
    BY <1>1, <2>t, <2>3, StoringRevivesNone
  <2>4. ASSUME NEW x \in opened, browserSessions' = [browserSessions EXCEPT ![x] = None]
        PROVE  FALSE
    BY <1>1, <2>t, <2>4
  <2> QED
    BY <1>1, <2>1, <2>2, <2>3, <2>4, SessionSteps
<1>2. BrowserInv /\ [BrowserNext]_browserVars =>
        [\A s \in Sessions :
           browserSessions[s] # None /\ browserSessions'[s] # None
           /\ browserSessions'[s].lastSeen # browserSessions[s].lastSeen
             => \E r \in Requests :
                  /\ request[r].at = "get" /\ request[r].session = s
                  /\ request[r].kind = "page" \/ request[r].token = s]_browserSessions
  BY <1>1
<1> QED
  BY <1>2, BrowserInvariance, PTL DEF BrowserSpec, OnlyUseProlongs

LEMMA InitEager == BrowserInit => Eager!Init
<1> SUFFICES ASSUME BrowserInit PROVE Eager!Init
  OBVIOUS
<1>1. \A s \in Sessions : AbstractSession(s) = Eager!Without("none")
  BY DEF BrowserInit, AbstractSession, Live, Eager!Without
<1> QED
  BY <1>1 DEF Eager!Init, BrowserInit, Init

\* A session that is stored, seen as an eager one.
LEMMA AsEager ==
  ASSUME BrowserInv, NEW s \in Sessions
  PROVE  /\ browserSessions[s] # None =>
              AbstractSession(s) =
                Eager!SeenAt(now, browserSessions[s].lastSeen, browserSessions[s].expiresAt)
         /\ browserSessions[s] = None =>
              AbstractSession(s) = Eager!Without(IF s \in opened THEN "ended" ELSE "none")
         /\ AbstractSession(s).phase = "open" <=> Live(s)
         /\ Live(s) => AbstractSession(s) =
              [phase |-> "open", idleAt |-> browserSessions[s].lastSeen + IdleLifetime,
               endAt |-> browserSessions[s].expiresAt]
         /\ ~ Live(s) => AbstractSession(s) = Eager!Without(IF s \in opened THEN "ended" ELSE "none")
<1>1. s # None
  BY BrowserAssumption
<1>2. CASE browserSessions[s] = None
  BY <1>1, <1>2 DEF AbstractSession, Live, Eager!Without
<1>3. CASE browserSessions[s] # None
  <2>1. Live(s) <=> /\ now < browserSessions[s].lastSeen + IdleLifetime
                    /\ now < browserSessions[s].expiresAt
    BY <1>1, <1>3, Numbers DEF Live, SessionExpired
  <2>2. s \in opened
    BY <1>3, Numbers
  <2> QED
    BY <1>3, <2>1, <2>2 DEF AbstractSession, Eager!SeenAt, Eager!Without
<1> QED
  BY <1>2, <1>3

\* Every step of the browser side is a step of the eager sessions or changes nothing they
\* show.
LEMMA NextRefines == BrowserInv /\ [BrowserNext]_browserVars => [Eager!Next]_(Eager!vars)
<1> DEFINE eager == [s \in Sessions |-> AbstractSession(s)]
<1> SUFFICES ASSUME BrowserInv, [BrowserNext]_browserVars
             PROVE  Eager!Next \/ (now' = now /\ eager' = eager)
  BY DEF Eager!vars
<1>i. BrowserInv'
  BY NextBrowserInv
<1>t. /\ browserSessions \in [Sessions -> BrowserSession \cup {None}] /\ opened \subseteq Sessions
      /\ now \in Int /\ now >= 0 /\ IdleLifetime \in Int
  BY Numbers DEF BrowserInv, BrowserTypeOK
<1>s. ASSUME now' = now,
             \A s \in Sessions : AbstractSession(s)' = AbstractSession(s)
      PROVE  now' = now /\ eager' = eager
  BY <1>s
\* One session changes, the others look the same.
<1>o. ASSUME now' = now, NEW s \in Sessions, NEW v, AbstractSession(s)' = v,
             \A x \in Sessions \ {s} : AbstractSession(x)' = AbstractSession(x)
      PROVE  eager' = [eager EXCEPT ![s] = v]
  BY <1>o
<1>f. ASSUME now' = now, NEW s \in Sessions,
             \A x \in Sessions \ {s} : browserSessions'[x] = browserSessions[x],
             \A x \in Sessions \ {s} : x \in opened' <=> x \in opened
      PROVE  \A x \in Sessions \ {s} : AbstractSession(x)' = AbstractSession(x)
  <2>1. ASSUME NEW x \in Sessions \ {s} PROVE AbstractSession(x)' = AbstractSession(x)
    BY <1>f, <2>1 DEF AbstractSession, Live, SessionExpired
  <2> QED
    BY <2>1
<1>1. CASE UNCHANGED <<now, browserSessions, opened>>
  BY <1>1, <1>s DEF AbstractSession, Live, SessionExpired
<1>2. CASE Tick /\ UNCHANGED <<browserSessions, opened>>
  <2>0. now' = now + 1
    BY <1>2 DEF Tick
  <2>1. ASSUME NEW s \in Sessions
        PROVE  AbstractSession(s)' =
                 IF AbstractSession(s).phase = "open"
                   THEN Eager!SeenAt(now + 1, AbstractSession(s).idleAt - IdleLifetime,
                                     AbstractSession(s).endAt)
                   ELSE AbstractSession(s)
    <3>1. CASE Live(s)
      <4>1. browserSessions[s] # None
        BY <3>1 DEF Live
      <4>2. /\ AbstractSession(s).phase = "open"
            /\ AbstractSession(s).idleAt = browserSessions[s].lastSeen + IdleLifetime
            /\ AbstractSession(s).endAt = browserSessions[s].expiresAt
        BY <3>1 DEF AbstractSession
      <4>3. AbstractSession(s).idleAt - IdleLifetime = browserSessions[s].lastSeen
        BY <1>t, <4>1, <4>2, Numbers
      <4>4. s # None /\ s \in opened
        BY <4>1, Numbers, BrowserAssumption
      <4>5. AbstractSession(s)' =
              Eager!SeenAt(now + 1, browserSessions[s].lastSeen, browserSessions[s].expiresAt)
        BY <1>2, <1>t, <2>0, <4>1, <4>4, Numbers
        DEF AbstractSession, Live, SessionExpired, Eager!SeenAt, Eager!Without
      <4> QED
        BY <4>2, <4>3, <4>5
    <3>2. CASE ~ Live(s)
      <4>1. AbstractSession(s).phase # "open"
        BY <3>2, AsEager
      <4>2. ~ Live(s)'
        BY <1>2, <1>t, <2>0, <3>2, Numbers DEF Live, SessionExpired
      <4>3. AbstractSession(s)' = AbstractSession(s)
        BY <1>2, <3>2, <4>2 DEF AbstractSession
      <4> QED
        BY <4>1, <4>3
    <3> QED
      BY <3>1, <3>2
  <2>2. Eager!Tick
    BY <2>0, <2>1 DEF Eager!Tick
  <2> QED
    BY <2>2 DEF Eager!Next
<1>3. ASSUME now' = now, NEW r \in Requests, StoreSession(r)
      PROVE  Eager!Next
  <2>0. PICK s, start : s = request[r].session /\ start = request[r].stamp
    OBVIOUS
  <2>1. /\ s \in Sessions \ opened /\ browserSessions[s] = None
        /\ start \in 0 .. now
        /\ browserSessions' = [browserSessions EXCEPT ![s] =
             [lastSeen |-> start, expiresAt |-> start + AbsoluteLifetime]]
        /\ browserSessions'[s] # None
    BY <1>t, <1>3, <2>0, StoringRevivesNone, StoreAssumption DEF Times
  <2>2. opened' = opened \cup {s}
    BY <1>3, <2>0 DEF StoreSession
  <2>3. \A x \in Sessions \ {s} : AbstractSession(x)' = AbstractSession(x)
    BY <1>3, <1>f, <1>t, <2>1, <2>2
  <2>4. browserSessions'[s] = [lastSeen |-> start, expiresAt |-> start + AbsoluteLifetime]
    BY <1>t, <2>1
  <2>5. AbstractSession(s)' = Eager!SeenAt(now, start, start + AbsoluteLifetime)
    <3>1. s # None /\ s \in opened' /\ start \in Int /\ AbsoluteLifetime \in Int
      BY <2>1, <2>2, Numbers, BrowserAssumption
    <3>2. browserSessions'[s].lastSeen = start
            /\ browserSessions'[s].expiresAt = start + AbsoluteLifetime
      BY <2>4
    <3>3. Live(s)' <=> now < start + IdleLifetime /\ now < start + AbsoluteLifetime
      BY <1>3, <1>t, <2>1, <3>1, <3>2 DEF Live, SessionExpired
    <3>4. CASE Live(s)'
      BY <3>2, <3>3, <3>4 DEF AbstractSession, Eager!SeenAt
    <3>5. CASE ~ Live(s)'
      BY <3>1, <3>3, <3>5 DEF AbstractSession, Eager!SeenAt, Eager!Without
    <3> QED
      BY <3>4, <3>5
  <2>6. AbstractSession(s).phase = "none"
    BY <2>1, AsEager DEF Eager!Without
  <2>7. eager' = [eager EXCEPT ![s] = Eager!SeenAt(now, start, start + AbsoluteLifetime)]
    BY <1>3, <1>o, <2>1, <2>3, <2>5
  <2>8. eager[s].phase = "none"
    BY <2>1, <2>6
  <2> HIDE DEF eager
  <2>9. Eager!Open(s)
    BY <1>3, <2>1, <2>7, <2>8 DEF Eager!Open, eager
  <2> QED
    BY <2>1, <2>9 DEF Eager!Next
<1>4. ASSUME UNCHANGED <<now, opened>>, NEW s \in opened, NEW refresh \in BOOLEAN,
             GetLocked(s, refresh)
      PROVE  Eager!Next \/ (now' = now /\ eager' = eager)
  <2>0. s \in Sessions /\ s # None
    BY <1>t, BrowserAssumption
  <2>1. /\ \A x \in Sessions : x # s => browserSessions'[x] = browserSessions[x]
        /\ ~ Live(s) => browserSessions'[s] = None
        /\ Live(s) => /\ browserSessions'[s] # None
                      /\ browserSessions'[s].expiresAt = browserSessions[s].expiresAt
                      /\ browserSessions'[s].lastSeen =
                           IF refresh THEN now ELSE browserSessions[s].lastSeen
    BY <1>4, <2>0, Lookedup
  <2>2. \A x \in Sessions \ {s} : AbstractSession(x)' = AbstractSession(x)
    BY <1>4, <1>f, <2>0, <2>1
  <2>3. CASE ~ Live(s)
    <3>1. ~ Live(s)'
      BY <2>1, <2>3 DEF Live
    <3>2. AbstractSession(s)' = AbstractSession(s)
      BY <1>4, <2>3, <3>1 DEF AbstractSession
    <3> QED
      BY <1>4, <1>s, <2>2, <3>2
  <2>4. CASE Live(s) /\ ~ refresh
    <3>1. Live(s)'
      BY <1>4, <2>0, <2>1, <2>4 DEF Live, SessionExpired
    <3>2. AbstractSession(s)' = AbstractSession(s)
      BY <1>4, <2>1, <2>4, <3>1 DEF AbstractSession
    <3> QED
      BY <1>4, <1>s, <2>2, <3>2
  <2>5. CASE Live(s) /\ refresh
    <3>1. now < browserSessions[s].expiresAt
      BY <2>0, <2>5, Numbers DEF Live, SessionExpired
    <3>2. Live(s)'
      BY <1>4, <1>t, <2>0, <2>1, <2>5, <3>1, Numbers DEF Live, SessionExpired
    <3>3. AbstractSession(s).endAt = browserSessions[s].expiresAt
            /\ AbstractSession(s).phase = "open"
      BY <2>5 DEF AbstractSession
    <3>4. AbstractSession(s)' = Eager!SeenAt(now, now, AbstractSession(s).endAt)
      <4>1. AbstractSession(s)' = [phase |-> "open", idleAt |-> now + IdleLifetime,
                                   endAt |-> browserSessions[s].expiresAt]
        BY <1>4, <2>1, <2>5, <3>2 DEF AbstractSession
      <4>2. now < now + IdleLifetime
        BY <1>t, Numbers
      <4> QED
        BY <3>1, <3>3, <4>1, <4>2 DEF Eager!SeenAt
    <3>5. Eager!Use(s)
      BY <1>4, <1>o, <2>0, <2>2, <3>3, <3>4 DEF Eager!Use
    <3> QED
      BY <2>0, <3>5 DEF Eager!Next
  <2> QED
    BY <2>3, <2>4, <2>5
<1>5. ASSUME UNCHANGED <<now, opened>>, NEW s \in opened,
             browserSessions' = [browserSessions EXCEPT ![s] = None]
      PROVE  Eager!Next \/ (now' = now /\ eager' = eager)
  <2>0. s \in Sessions
    BY <1>t
  <2>1. browserSessions'[s] = None /\ \A x \in Sessions \ {s} : browserSessions'[x] = browserSessions[x]
    BY <1>5, <1>t, <2>0
  <2>2. \A x \in Sessions \ {s} : AbstractSession(x)' = AbstractSession(x)
    BY <1>5, <1>f, <2>0, <2>1
  <2>3. AbstractSession(s)' = Eager!Without("ended")
    BY <1>5, <2>1 DEF AbstractSession, Live, Eager!Without
  <2>4. CASE Live(s)
    <3>1. AbstractSession(s).phase = "open"
      BY <2>4 DEF AbstractSession
    <3>2. Eager!End(s)
      BY <1>5, <1>o, <2>0, <2>2, <2>3, <3>1 DEF Eager!End
    <3> QED
      BY <2>0, <3>2 DEF Eager!Next
  <2>5. CASE ~ Live(s)
    <3>1. AbstractSession(s) = Eager!Without("ended")
      BY <1>5, <2>5 DEF AbstractSession, Eager!Without
    <3> QED
      BY <1>5, <1>s, <2>2, <2>3, <3>1
  <2> QED
    BY <2>4, <2>5
<1> QED
  BY <1>1, <1>2, <1>3, <1>4, <1>5, SessionSteps

\* Each browser session is an eager session: it ends at the earlier of its idle and its
\* absolute lifetime and at logout, and no request still in flight brings it back, for any
\* number of requests and logins (Create, getLocked, Delete).
THEOREM SessionsAreEager == BrowserSpec => ImplementsEagerSession
BY InitEager, NextRefines, BrowserInvariance, PTL
   DEF BrowserSpec, ImplementsEagerSession, Eager!Spec

=============================================================================
