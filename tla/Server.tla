------------------------------- MODULE Server -------------------------------
(***************************************************************************)
(* The life of the process: the accept loop of the MySQL proxy and its     *)
(* shutdown (ServeContext in internal/mysqlproxy/server.go), and the two   *)
(* listeners under one context (startMasqman, serveMasqman and             *)
(* serveHTTPContext in cmd/masqman/main.go).                               *)
(*                                                                         *)
(* The goroutines are the accept loop, the watcher that closes everything  *)
(* on cancellation, one per accepted connection, the HTTP server, and      *)
(* main.  Of what a connection's goroutine does in ServeConn it matters    *)
(* here only whether it waits for its client, which closing the client's   *)
(* connection ends, or for the upstream server, which it does not.         *)
(***************************************************************************)
EXTENDS Integers, Sequences, FiniteSets

CONSTANTS
  Connections,       \* clients; one that is gone may dial again
  MaxMySQLSessions,  \* config rate_limits.max_mysql_sessions
  None

VARIABLES
  conns,      \* where each connection is
  open,       \* the connections that are open on our side
  slots,      \* tokens in sessionSlots
  active,     \* the active map
  listener,   \* the MySQL listener
  loop,       \* the accept loop: where it is and the connection in its hands
  watcher,    \* the goroutine that waits for cancellation
  signalled,  \* the process context: SIGINT or SIGTERM was received
  cancelled,  \* the context both servers run under
  deadline,   \* the drain deadline has passed since the cancellation
  http,       \* the HTTP server
  errs,       \* the channel the two servers report to
  main,       \* serveMasqman: which result it waits for
  auditLog    \* the audit sink; broken if its Close failed

mysqlVars == <<conns, open, slots, active, listener, loop, watcher>>
mainVars == <<signalled, cancelled, deadline, http, errs, main, auditLog>>
vars == <<mysqlVars, mainVars>>

ASSUME ServerAssumption ==
  /\ IsFiniteSet(Connections)
  /\ MaxMySQLSessions \in Nat \ {0}
  /\ None \notin Connections

Stages == {"gone", "queued", "accepted", "idle", "upstream", "ended", "unregistered", "released"}
Results == {"none", "nil", "error"}
Loop(at, conn, err) == [at |-> at, conn |-> conn, err |-> err]

\* The connections whose goroutine is inside ServeConn, and those it has not finished.
Serving == {c \in Connections : conns[c] \in {"idle", "upstream"}}
Running ==
  {c \in Connections :
     conns[c] \in {"idle", "upstream", "ended", "unregistered", "released"}}

Init ==
  /\ conns = [c \in Connections |-> "gone"]
  /\ open = {}
  /\ slots = 0
  /\ active = {}
  /\ listener = "open"
  /\ loop = Loop("accept", None, "none")
  /\ watcher = "waiting"
  /\ signalled = FALSE
  /\ cancelled = FALSE
  /\ deadline = FALSE
  /\ http = "serving"
  /\ errs = <<>>
  /\ main = [at |-> "first", err |-> "none"]
  /\ auditLog = "open"

-----------------------------------------------------------------------------
(* The accept loop. *)

Dial(c) ==
  /\ conns[c] = "gone"
  /\ listener = "open"
  /\ conns' = [conns EXCEPT ![c] = "queued"]
  /\ open' = open \cup {c}
  /\ UNCHANGED <<slots, active, listener, loop, watcher, mainVars>>

Accept(c) ==
  /\ loop.at = "accept"
  /\ listener = "open"
  /\ conns[c] = "queued"
  /\ conns' = [conns EXCEPT ![c] = "accepted"]
  /\ loop' = Loop("accepted", c, "none")
  /\ UNCHANGED <<open, slots, active, listener, watcher, mainVars>>

\* Accept fails: because the listener was closed, or for another reason, such as too
\* many open files.  Either way the loop is left and the sessions are waited for.
AcceptFails(err) ==
  /\ loop.at = "accept"
  /\ err = "nil" <=> listener = "closed"
  /\ loop' = Loop("wait", None, err)
  /\ UNCHANGED <<conns, open, slots, active, listener, watcher, mainVars>>

\* The loop closes the connection in its hands and accepts the next.
Refuse ==
  /\ conns' = [conns EXCEPT ![loop.conn] = "gone"]
  /\ open' = open \ {loop.conn}
  /\ loop' = Loop("accept", None, "none")

\* Mutants: a slot is taken without looking at the limit; a connection accepted during
\* cancellation keeps its slot, or is served; only the listener is closed on
\* cancellation; main does not wait for the second server.
TakeSlotUnbounded ==
  /\ loop.at = "accepted"
  /\ slots' = slots + 1
  /\ loop' = [loop EXCEPT !.at = "slotted"]
  /\ UNCHANGED <<conns, open, active, listener, watcher, mainVars>>
RegisterLeaksSlot ==
  /\ loop.at = "slotted"
  /\ IF cancelled
       THEN Refuse /\ UNCHANGED <<slots, active>>
       ELSE /\ active' = active \cup {loop.conn}
            /\ conns' = [conns EXCEPT ![loop.conn] = "idle"]
            /\ loop' = Loop("accept", None, "none")
            /\ UNCHANGED <<open, slots>>
  /\ UNCHANGED <<listener, watcher, mainVars>>
RegisterUnchecked ==
  /\ loop.at = "slotted"
  /\ active' = active \cup {loop.conn}
  /\ conns' = [conns EXCEPT ![loop.conn] = "idle"]
  /\ loop' = Loop("accept", None, "none")
  /\ UNCHANGED <<open, slots, listener, watcher, mainVars>>
WatcherClosesListener ==
  /\ watcher = "waiting"
  /\ cancelled
  /\ listener' = "closed"
  /\ watcher' = "closed"
  /\ UNCHANGED <<conns, open, slots, active, loop, mainVars>>
FirstResultOnly ==
  /\ main.at = "first"
  /\ errs # <<>>
  /\ main' = [at |-> "cleanup", err |-> Head(errs)]
  /\ errs' = Tail(errs)
  /\ cancelled' = TRUE
  /\ UNCHANGED <<mysqlVars, signalled, deadline, http, auditLog>>

TakeSlot ==
  /\ loop.at = "accepted"
  /\ IF slots < MaxMySQLSessions
       THEN /\ slots' = slots + 1
            /\ loop' = [loop EXCEPT !.at = "slotted"]
            /\ UNCHANGED <<conns, open>>
       ELSE Refuse /\ UNCHANGED slots
  /\ UNCHANGED <<active, listener, watcher, mainVars>>

\* Under the lock of the active map the context is looked at once more.
Register ==
  /\ loop.at = "slotted"
  /\ IF cancelled
       THEN Refuse /\ slots' = slots - 1 /\ UNCHANGED active
       ELSE /\ active' = active \cup {loop.conn}
            /\ conns' = [conns EXCEPT ![loop.conn] = "idle"]
            /\ loop' = Loop("accept", None, "none")
            /\ UNCHANGED <<open, slots>>
  /\ UNCHANGED <<listener, watcher, mainVars>>

\* The deferred wg.Wait, then close(done), which ends the watcher.
ServeContextReturns ==
  /\ loop.at = "wait"
  /\ Running = {}
  /\ loop' = [loop EXCEPT !.at = "returned"]
  /\ watcher' = IF watcher = "waiting" THEN "done" ELSE watcher
  /\ errs' = Append(errs, loop.err)
  /\ UNCHANGED <<conns, open, slots, active, listener,
                 signalled, cancelled, deadline, http, main, auditLog>>

\* Under the lock of the active map, the listener and all registered connections.
Watch ==
  /\ watcher = "waiting"
  /\ cancelled
  /\ listener' = "closed"
  /\ open' = open \ active
  /\ watcher' = "closed"
  /\ UNCHANGED <<conns, slots, active, loop, mainVars>>

-----------------------------------------------------------------------------
(* The goroutine of a connection. *)

CallUpstream(c) ==
  /\ conns[c] = "idle"
  /\ c \in open
  /\ conns' = [conns EXCEPT ![c] = "upstream"]
  /\ UNCHANGED <<open, slots, active, listener, loop, watcher, mainVars>>

UpstreamAnswers(c) ==
  /\ conns[c] = "upstream"
  /\ conns' = [conns EXCEPT ![c] = "idle"]
  /\ UNCHANGED <<open, slots, active, listener, loop, watcher, mainVars>>

\* ServeConn returns when its client leaves, or finds the connection closed.
ServeConnReturns(c) ==
  /\ conns[c] = "idle"
  /\ conns' = [conns EXCEPT ![c] = "ended"]
  /\ open' = open \ {c}
  /\ UNCHANGED <<slots, active, listener, loop, watcher, mainVars>>

\* The deferred function of the goroutine, step by step.
Cleanup(c) ==
  /\ \/ /\ conns[c] = "ended"
        /\ active' = active \ {c}
        /\ conns' = [conns EXCEPT ![c] = "unregistered"]
        /\ UNCHANGED slots
     \/ /\ conns[c] = "unregistered"
        /\ slots' = slots - 1
        /\ conns' = [conns EXCEPT ![c] = "released"]
        /\ UNCHANGED active
     \/ /\ conns[c] = "released"
        /\ conns' = [conns EXCEPT ![c] = "gone"]
        /\ UNCHANGED <<slots, active>>
  /\ UNCHANGED <<open, listener, loop, watcher, mainVars>>

-----------------------------------------------------------------------------
(* main and the HTTP server. *)

Signal ==
  /\ ~ signalled
  /\ main.at # "returned"
  /\ signalled' = TRUE
  /\ cancelled' = TRUE
  /\ UNCHANGED <<mysqlVars, deadline, http, errs, main, auditLog>>

DeadlinePasses ==
  /\ cancelled
  /\ ~ deadline
  /\ deadline' = TRUE
  /\ UNCHANGED <<mysqlVars, signalled, cancelled, http, errs, main, auditLog>>

HttpFails ==
  /\ http = "serving"
  /\ http' = "stopped"
  /\ errs' = Append(errs, "error")
  /\ UNCHANGED <<mysqlVars, signalled, cancelled, deadline, main, auditLog>>

\* Shutdown lets requests finish until the deadline.
HttpShutdown ==
  /\ http = "serving"
  /\ cancelled
  /\ http' = "draining"
  /\ UNCHANGED <<mysqlVars, signalled, cancelled, deadline, errs, main, auditLog>>

HttpStops(err) ==
  /\ http = "draining"
  /\ err = "error" => deadline
  /\ http' = "stopped"
  /\ errs' = Append(errs, err)
  /\ UNCHANGED <<mysqlVars, signalled, cancelled, deadline, main, auditLog>>

\* Whichever server stops first, the other is cancelled.
FirstResult ==
  /\ main.at = "first"
  /\ errs # <<>>
  /\ main' = [at |-> "second", err |-> Head(errs)]
  /\ errs' = Tail(errs)
  /\ cancelled' = TRUE
  /\ UNCHANGED <<mysqlVars, signalled, deadline, http, auditLog>>

\* Mutant: the second result is reported, whatever the first was.
SecondResultReported ==
  /\ main.at = "second"
  /\ errs # <<>>
  /\ main' = [at |-> "cleanup", err |-> IF signalled THEN "nil" ELSE Head(errs)]
  /\ errs' = Tail(errs)
  /\ UNCHANGED <<mysqlVars, signalled, cancelled, deadline, http, auditLog>>

\* A signal makes any outcome a clean one.
SecondResult ==
  /\ main.at = "second"
  /\ errs # <<>>
  /\ main' = [at |-> "cleanup",
              err |-> IF signalled THEN "nil"
                      ELSE IF main.err = "error" THEN main.err ELSE Head(errs)]
  /\ errs' = Tail(errs)
  /\ UNCHANGED <<mysqlVars, signalled, cancelled, deadline, http, auditLog>>

\* serveMasqman has returned, and the context is looked at once more: a signal that
\* came by now makes any outcome a clean one, a later one does not.
Outcome ==
  /\ main.at = "cleanup"
  /\ main' = [at |-> "closing", err |-> IF signalled THEN "nil" ELSE main.err]
  /\ UNCHANGED <<mysqlVars, signalled, cancelled, deadline, http, errs, auditLog>>

\* startMasqman's deferred calls: the listener, then the audit log, whose Close may
\* fail; that is an error too, if there is none yet.
CloseListener ==
  /\ main.at = "closing"
  /\ listener' = "closed"
  /\ main' = [at |-> "closing_audit", err |-> main.err]
  /\ UNCHANGED <<conns, open, slots, active, loop, watcher,
                 signalled, cancelled, deadline, http, errs, auditLog>>

CloseAudit ==
  /\ main.at = "closing_audit"
  /\ auditLog' \in {"closed", "broken"}
  /\ main' = [at |-> "returned", err |-> IF auditLog' = "broken" THEN "error" ELSE main.err]
  /\ UNCHANGED <<mysqlVars, signalled, cancelled, deadline, http, errs>>

MainReturns == Outcome \/ CloseListener \/ CloseAudit

-----------------------------------------------------------------------------
LoopStep ==
  \/ \E c \in Connections : Accept(c)
  \/ AcceptFails("nil") \/ TakeSlot \/ Register \/ ServeContextReturns
ResultStep == FirstResult \/ SecondResult
HttpStep == HttpShutdown \/ HttpStops("nil") \/ HttpStops("error")
SessionStep(c) == (ServeConnReturns(c) /\ c \notin open) \/ Cleanup(c)

\* Everything that happens until serveMasqman has returned.
ServeStep ==
  \/ LoopStep \/ Watch \/ ResultStep \/ HttpStep
  \/ AcceptFails("error") \/ Signal \/ DeadlinePasses \/ HttpFails
  \/ \E c \in Connections :
       \/ Dial(c) \/ CallUpstream(c) \/ UpstreamAnswers(c) \/ ServeConnReturns(c)
       \/ Cleanup(c)

Next == ServeStep \/ MainReturns

Spec == Init /\ [][Next]_vars

\* Every goroutine runs on.  No client has to leave and no accept has to fail; that
\* the upstream answers is an assumption about the server, which the code does not
\* bound by a timeout.
FairSpec ==
  /\ Spec
  /\ WF_vars(LoopStep) /\ WF_vars(Watch) /\ WF_vars(ResultStep \/ MainReturns) /\ WF_vars(HttpStep)
  /\ WF_vars(DeadlinePasses)
  /\ \A c \in Connections : WF_vars(SessionStep(c)) /\ WF_vars(UpstreamAnswers(c))

-----------------------------------------------------------------------------
(* Properties. *)

\* Every variable has its type, and sessionSlots never holds more than its capacity.
TypeOK ==
  /\ conns \in [Connections -> Stages]
  /\ open \subseteq Connections
  /\ slots \in 0 .. MaxMySQLSessions
  /\ active \subseteq Connections
  /\ listener \in {"open", "closed"}
  /\ loop.at \in {"accept", "accepted", "slotted", "wait", "returned"}
  /\ loop.conn \in Connections \cup {None}
  /\ loop.err \in Results
  /\ watcher \in {"waiting", "closed", "done"}
  /\ signalled \in BOOLEAN /\ cancelled \in BOOLEAN /\ deadline \in BOOLEAN
  /\ http \in {"serving", "draining", "stopped"}
  /\ errs \in Seq(Results) /\ Len(errs) <= 2
  /\ main.at \in {"first", "second", "cleanup", "closing", "closing_audit", "returned"}
  /\ main.err \in Results
  /\ auditLog \in {"open", "closed", "broken"}

\* The connections a slot was taken for.
Holding ==
  {c \in Connections :
     \/ conns[c] \in {"idle", "upstream", "ended", "unregistered"}
     \/ loop.at = "slotted" /\ loop.conn = c}

\* Each slot belongs to a session or to the connection the loop is about to serve:
\* none leaks on the way through refusal, cancellation and cleanup, and none is
\* returned twice (ServeContext).
SlotsExact ==
  /\ slots = Cardinality(Holding)
  /\ active = {c \in Connections : conns[c] \in {"idle", "upstream", "ended"}}

\* However accepting races with the cancellation, no connection is served open once
\* the watcher has closed them (ServeContext: ctx.Err is read under activeMu).
CancelReachesAll == watcher = "closed" => Serving \cap open = {}

\* The audit log outlives every session, and the accept loop has stopped by then
\* (serveMasqman waits for both servers, ServeContext for its sessions).
AuditOutlivesSessions ==
  auditLog # "open" => Running = {} /\ loop.at = "returned"

\* m1-implementation.md:278 - if either listener exits unexpectedly, the other is
\* cancelled.
ListenerExitCancels == loop.err = "error" ~> cancelled

\* mysql-masking-proxy.md:170 - on shutdown in-flight sessions drain until the
\* deadline, then those that remain are closed.
DrainedUntilDeadline ==
  [][\A c \in Connections :
       conns[c] = "upstream" /\ c \in open /\ c \notin open' => deadline]_vars

=============================================================================
