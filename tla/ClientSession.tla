--------------------------- MODULE ClientSession ----------------------------
(***************************************************************************)
(* The command phase of one accepted MySQL session (internal/mysqlproxy):  *)
(* the loop of ServeConn around a stack of three handlers.  The policy     *)
(* handler classifies a statement, audits it and answers some itself; the  *)
(* deferred handler holds the session's life cycle; the forwarding handler *)
(* executes on the upstream connection, checks the response and masks it.  *)
(* All of them run in the goroutine of the connection, but the client's    *)
(* connection can be closed under it at any time, by the client or by a    *)
(* shutdown, and each call - upstream, audit log, client - can fail.       *)
(*                                                                         *)
(* A statement is what the classifier says of it; a value is one of three: *)
(* NULL, some raw text, or text equal to the mask of its type.             *)
(***************************************************************************)
EXTENDS Integers, Sequences, FiniteSetsExt

CONSTANTS
  None,
  Statements,      \* the statements clients send, see Statement below
  Responses,       \* what the upstream can answer, see Response below
  MaxResultRows,
  MaxResultBytes

VARIABLES
  phase,     \* where the goroutine of the connection is
  client,    \* the client's network connection
  command,   \* the command being handled
  deferred,  \* deferredForwardingHandler
  handler,   \* forwardingHandler
  upstream,  \* the upstream connection
  outcome,   \* what the handlers return for the command
  event,     \* the audit event of the command, None if none was written
  response   \* history: what the upstream answered to the command

vars == <<phase, client, command, deferred, handler, upstream, outcome, event, response>>

DecisionKinds == {"allow_read", "allow_operational_read", "allow_setup", "reject"}
ExpressionKinds == {"unknown", "column", "literal", "safe_builtin", "count_star"}

\* A statement: whether it exceeds the query limit, its decision with one expression
\* kind per item of the SELECT list (none for *), and whether it is the probe of
\* @@max_allowed_packet, which the proxy answers itself.
Statement ==
  [tooLarge : BOOLEAN, kind : DecisionKinds, contexts : Seq(ExpressionKinds),
   maxPacket : BOOLEAN]

\* The origin of a field: allowed by a masking rule, not allowed, or none.
Field == [origin : {"allowed", "denied", "none"}, value : {"null", "raw", "mask"}]
Response ==
  [kind : {"result", "mysql_error", "conn_error"}, fields : Seq(Field), rows : Nat,
   more : BOOLEAN, streaming : BOOLEAN]

\* What the audit log is given: of the error, the class the client's outcome falls in.
AuditEvent ==
  [statement : Statements, decision : DecisionKinds, maskedFields : Nat,
   errorClass : {"", "query_too_large", "policy_reject", "proxy_error", "mysql_error"}]

ASSUME SessionAssumption ==
  /\ Statements \subseteq Statement
  /\ Responses \subseteq Response
  /\ None \notin Statements \cup Response \cup AuditEvent
  /\ {MaxResultRows, MaxResultBytes} \subseteq Nat \ {0}

Errors == {"none", "unsupported", "policy", "too_large", "mysql_error", "conn_error",
           "audit_failure"}
Phases == {"command", "executing", "auditing", "replying", "replied", "ended"}
NoCommand == [type |-> "none", statement |-> None]
NoDecision == [kind |-> "reject", contexts |-> <<>>]
Failure(err) == [err |-> err, result |-> None]

-----------------------------------------------------------------------------
(* Masking. *)

OriginFree(field) == field.origin = "none"

\* An origin-free field keeps its value if the statement's own SELECT list says it
\* is harmless there, which takes one fact per field.
Passthrough(decision, fields, i) ==
  /\ Len(decision.contexts) = Len(fields)
  /\ OriginFree(fields[i])
  /\ \/ decision.contexts[i] \in {"safe_builtin", "count_star"}
     \/ decision.kind = "allow_operational_read" /\ decision.contexts[i] = "literal"

\* NULL stays NULL, an allowed field keeps its value.
Mask(field) ==
  [field EXCEPT !.value = IF @ = "null" \/ field.origin = "allowed" THEN @ ELSE "mask"]

MaskResult(decision, r) ==
  [r EXCEPT !.fields =
     [i \in DOMAIN @ |-> IF Passthrough(decision, @, i) THEN @[i] ELSE Mask(@[i])]]

\* Mutant: the count is not reset before the next statement.
MaskedFieldsAccumulated(decision, r) ==
  handler.maskedFields + r.rows * Cardinality({i \in DOMAIN r.fields :
    MaskResult(decision, r).fields[i] # r.fields[i]})

\* How many values masking changed.
MaskedFields(decision, r) ==
  r.rows * Cardinality({i \in DOMAIN r.fields :
                          MaskResult(decision, r).fields[i] # r.fields[i]})

\* A mask can be longer than the text it replaces.
ValueBytes(value) == IF value = "mask" THEN 2 ELSE 1

EncodedBytes(r) ==
  r.rows * MapThenSumSet(LAMBDA i : ValueBytes(r.fields[i].value), DOMAIN r.fields)

Fits(r) == r.rows <= MaxResultRows /\ EncodedBytes(r) <= MaxResultBytes

\* Responses the session does not survive: more than one resultset, rows for a setup
\* statement, a resultset still streaming, one over a limit, and one that masking
\* has made too large.
RefusedUnmasked(decision, r) ==
  \/ r.more
  \/ decision.kind = "allow_setup" /\ r.fields # <<>>
  \/ r.streaming
  \/ ~ Fits(r)

Refused(decision, r) ==
  RefusedUnmasked(decision, r) \/ ~ Fits(MaskResult(decision, r))

-----------------------------------------------------------------------------
\* The session as recordAuthSuccess leaves it.
Init ==
  /\ phase = "command"
  /\ client = "open"
  /\ command = NoCommand
  /\ deferred = [forwarding |-> TRUE, closed |-> FALSE, terminal |-> "none"]
  /\ handler = [closed |-> FALSE, terminal |-> "none", decision |-> NoDecision,
                maskedFields |-> 0]
  /\ upstream = "open"
  /\ outcome = Failure("none")
  /\ event = None
  /\ response = None

\* deferredForwardingHandler.deactivate: the first terminal error stays.
Deactivated(err) ==
  [forwarding |-> FALSE, closed |-> TRUE,
   terminal |-> IF deferred.terminal = "none" THEN err ELSE deferred.terminal]

\* closeTerminal of the forwarding handler and what the deferred handler makes of it
\* when the call returns.
CloseTerminal(err, maskedFields) ==
  /\ handler' = [handler EXCEPT !.closed = TRUE, !.terminal = err,
                                !.maskedFields = maskedFields]
  /\ deferred' = Deactivated(err)
  /\ upstream' = "closed"

\* Mutants: a failed audit only costs the event; a terminal error does not end the
\* session; only the first statement's decision reaches the forwarding handler; the
\* session's end leaves the upstream connection open.
AuditFailsOpen ==
  /\ phase = "auditing"
  /\ phase' = "replying"
  /\ event' = None
  /\ UNCHANGED <<client, command, deferred, handler, upstream, outcome, response>>
ContinueAfterTerminal ==
  /\ phase = "replied"
  /\ phase' = "command"
  /\ UNCHANGED <<client, command, deferred, handler, upstream, outcome, event, response>>
SetQueryDecisionOnce(s) ==
  IF handler.decision = NoDecision
    THEN [handler EXCEPT !.decision = [kind |-> s.kind, contexts |-> s.contexts]]
    ELSE handler
SessionCloseKeepsUpstream ==
  /\ deferred' = IF deferred.forwarding THEN Deactivated("none") ELSE deferred
  /\ handler' = IF deferred.forwarding THEN [handler EXCEPT !.closed = TRUE] ELSE handler
  /\ UNCHANGED upstream

\* clientSession.Close.
SessionClose ==
  /\ deferred' = IF deferred.forwarding THEN Deactivated("none") ELSE deferred
  /\ handler' = IF deferred.forwarding THEN [handler EXCEPT !.closed = TRUE] ELSE handler
  /\ upstream' = IF deferred.forwarding THEN "closed" ELSE upstream

\* ServeConn returns: the session and the client's connection are closed.
ServeConnReturns ==
  /\ SessionClose
  /\ client' = "closed"
  /\ phase' = "ended"
  /\ UNCHANGED <<command, outcome, event, response>>

\* The next command is read.  Nothing of the last one is left.
Receive(type, statement) ==
  /\ phase = "command"
  /\ client = "open"
  /\ command' = [type |-> type, statement |-> statement]
  /\ event' = None
  /\ response' = None
  /\ UNCHANGED client

SetQueryDecision(s) ==
  [handler EXCEPT !.decision = [kind |-> s.kind, contexts |-> s.contexts]]

MaxAllowedPacketResult ==
  [kind |-> "result", rows |-> 1, more |-> FALSE, streaming |-> FALSE,
   fields |-> <<[origin |-> "none", value |-> "raw"]>>]

\* A statement the policy handler answers itself: too large, rejected, or the probe
\* of @@max_allowed_packet.
AnswerLocally(s) ==
  /\ Receive("query", s)
  /\ s.tooLarge \/ s.kind = "reject" \/ s.maxPacket
  /\ outcome' =
       IF s.tooLarge THEN Failure("too_large")
       ELSE IF s.kind = "reject" THEN Failure("policy")
       ELSE [err |-> "none", result |-> MaxAllowedPacketResult]
  /\ phase' = "auditing"
  /\ UNCHANGED <<deferred, handler, upstream>>

Forward(s) ==
  /\ Receive("query", s)
  /\ ~ s.tooLarge
  /\ s.kind # "reject"
  /\ ~ s.maxPacket
  /\ IF deferred.forwarding
       THEN /\ handler' = SetQueryDecision(s)
            /\ phase' = "executing"
            /\ UNCHANGED outcome
       ELSE /\ outcome' = Failure("unsupported")
            /\ phase' = "auditing"
            /\ UNCHANGED handler
  /\ UNCHANGED <<deferred, upstream>>

\* isTerminalUpstreamError: anything but an error the upstream server answered.
Terminal(err) == err = "conn_error"

\* The upstream answers.  A MySQL error is passed on; any other error, and a response
\* the session does not survive, closes it.
ExecuteFails(r) ==
  /\ phase = "executing"
  /\ r.kind # "result"
  /\ outcome' = Failure(r.kind)
  /\ IF Terminal(r.kind)
       THEN CloseTerminal(r.kind, 0)
       ELSE /\ handler' = [handler EXCEPT !.maskedFields = 0]
            /\ UNCHANGED <<deferred, upstream>>
  /\ response' = r
  /\ phase' = "auditing"
  /\ UNCHANGED <<client, command, event>>

ExecuteRefused(r) ==
  /\ phase = "executing"
  /\ r.kind = "result"
  /\ Refused(handler.decision, r)
  /\ outcome' = Failure("unsupported")
  /\ CloseTerminal("unsupported",
       IF RefusedUnmasked(handler.decision, r) THEN 0
       ELSE MaskedFields(handler.decision, r))
  /\ response' = r
  /\ phase' = "auditing"
  /\ UNCHANGED <<client, command, event>>

ExecuteMasks(r) ==
  /\ phase = "executing"
  /\ r.kind = "result"
  /\ ~ Refused(handler.decision, r)
  /\ outcome' = [err |-> "none", result |-> MaskResult(handler.decision, r)]
  /\ handler' = [handler EXCEPT !.maskedFields = MaskedFields(handler.decision, r)]
  /\ response' = r
  /\ phase' = "auditing"
  /\ UNCHANGED <<client, command, deferred, upstream, event>>

Execute(r) == ExecuteFails(r) \/ ExecuteRefused(r) \/ ExecuteMasks(r)

\* Whatever the outcome, the statement is audited before the client gets it.
ErrorClass(err) ==
  CASE err = "none" -> ""
    [] err = "too_large" -> "query_too_large"
    [] err = "policy" -> "policy_reject"
    [] err = "conn_error" -> "proxy_error"
    [] OTHER -> "mysql_error"

MaskedFieldCount == IF deferred.forwarding THEN handler.maskedFields ELSE 0

AuditQuery ==
  /\ phase = "auditing"
  /\ event' =
       [statement |-> command.statement,
        decision |-> IF command.statement.tooLarge THEN "reject" ELSE command.statement.kind,
        maskedFields |-> MaskedFieldCount,
        errorClass |-> ErrorClass(outcome.err)]
  /\ phase' = "replying"
  /\ UNCHANGED <<client, command, deferred, handler, upstream, outcome, response>>

\* closeAfterAuditFailure: the outcome is withheld and the session is over.
AuditFails ==
  /\ phase = "auditing"
  /\ deferred' = Deactivated("audit_failure")
  /\ handler' = IF deferred.forwarding THEN [handler EXCEPT !.closed = TRUE] ELSE handler
  /\ upstream' = IF deferred.forwarding THEN "closed" ELSE upstream
  /\ outcome' = Failure("unsupported")
  /\ phase' = "replying"
  /\ UNCHANGED <<client, command, event, response>>

\* COM_INIT_DB: a schema outside the allowlist is rejected, another is selected on the
\* upstream.  It is not audited.
InitDB(err) ==
  /\ Receive("init_db", None)
  /\ outcome' = Failure(IF deferred.forwarding \/ err = "policy" THEN err ELSE "unsupported")
  /\ IF deferred.forwarding /\ Terminal(err)
       THEN CloseTerminal(err, handler.maskedFields)
       ELSE UNCHANGED <<deferred, handler, upstream>>
  /\ phase' = "replying"

\* COM_PING is answered by the library; prepared statements, field lists and all other
\* commands are refused.
OtherCommand(type) ==
  /\ Receive(type, None)
  /\ outcome' = Failure(IF type = "ping" THEN "none" ELSE "unsupported")
  /\ phase' = "replying"
  /\ UNCHANGED <<deferred, handler, upstream>>

\* The reply is written.
Reply ==
  /\ phase = "replying"
  /\ client = "open"
  /\ phase' = "replied"
  /\ UNCHANGED <<client, command, deferred, handler, upstream, outcome, event, response>>

ReplyFails == phase = "replying" /\ ServeConnReturns

\* Back in the loop of ServeConn, which looks for a terminal error.
EndIfTerminal ==
  /\ phase = "replied"
  /\ deferred.terminal # "none"
  /\ ServeConnReturns

NextCommand ==
  /\ phase = "replied"
  /\ deferred.terminal = "none"
  /\ phase' = "command"
  /\ UNCHANGED <<client, command, deferred, handler, upstream, outcome, event, response>>

\* COM_QUIT, or the connection is found closed.
Quit == phase = "command" /\ client = "open" /\ ServeConnReturns
ReadFails == phase = "command" /\ client = "closed" /\ ServeConnReturns

\* The client goes away, or ServeContext closes its connection, whatever the goroutine
\* is doing.
ClientCloses ==
  /\ client = "open"
  /\ client' = "closed"
  /\ UNCHANGED <<phase, command, deferred, handler, upstream, outcome, event, response>>

-----------------------------------------------------------------------------
\* What the goroutine does without waiting for the client or for the upstream.
Proceed ==
  AuditQuery \/ AuditFails \/ Reply \/ ReplyFails \/ EndIfTerminal \/ NextCommand \/ ReadFails

Next ==
  \/ \E s \in Statements : AnswerLocally(s) \/ Forward(s)
  \/ \E r \in Responses : Execute(r)
  \/ \E err \in {"none", "policy", "mysql_error", "conn_error"} : InitDB(err)
  \/ \E type \in {"ping", "other"} : OtherCommand(type)
  \/ Quit
  \/ Proceed
  \/ ClientCloses

Spec == Init /\ [][Next]_vars

\* The goroutine runs on; nothing makes a client send or the upstream answer.
FairSpec == Spec /\ WF_vars(Proceed)

-----------------------------------------------------------------------------
(* Properties. *)

\* Every variable has its type.
TypeOK ==
  /\ phase \in Phases
  /\ client \in {"open", "closed"}
  /\ command \in [type : {"none", "query", "init_db", "ping", "other"},
                  statement : Statements \cup {None}]
  /\ deferred \in [forwarding : BOOLEAN, closed : BOOLEAN, terminal : Errors]
  /\ handler \in [closed : BOOLEAN, terminal : Errors, maskedFields : Nat,
                  decision : [kind : DecisionKinds, contexts : Seq(ExpressionKinds)]]
  /\ upstream \in {"open", "closed"}
  /\ outcome \in [err : Errors, result : Response \cup {None}]
  /\ event \in AuditEvent \cup {None}
  /\ response \in Responses \cup {None}
  /\ phase \in {"executing", "auditing"} => command.type = "query"
  /\ command.type = "query" <=> command.statement # None

\* The three handlers never disagree on whether the session is alive, whichever of
\* the upstream, the checks, the audit log or the client ended it, and no command is
\* read after it died (deactivate, closeTerminal, Close, ServeConn).
LayersAgree ==
  /\ deferred.forwarding <=> ~ deferred.closed
  /\ deferred.closed <=> handler.closed
  /\ handler.closed <=> upstream = "closed"
  /\ phase \in {"command", "executing"} => upstream = "open" /\ deferred.terminal = "none"
  /\ phase = "ended" => upstream = "closed" /\ client = "closed"

\* A client sees the result of a statement only if the audit log has the statement
\* with the decision that let it through; a statement that could not be audited is
\* the session's last (policyHandler.HandleQuery, closeAfterAuditFailure).
NothingUnaudited ==
  phase = "replied" /\ command.type = "query" =>
    /\ outcome.result # None =>
         event # None /\ event.statement = command.statement
           /\ event.decision # "reject" /\ event.errorClass = ""
    /\ event = None => outcome.result = None /\ deferred.terminal # "none"

\* Raw text reaches the client only from a field with an allowed origin, or from an
\* origin-free one that the SELECT list of this very statement calls harmless, the
\* facts of an earlier statement notwithstanding (setQueryDecision,
\* expressionAllowsPassthrough, maskRow).
MaskedAsDecided ==
  phase = "replied" /\ outcome.result # None /\ response # None =>
    LET shown == outcome.result.fields
        contexts == command.statement.contexts IN
    \A i \in DOMAIN shown : shown[i].value = "raw" =>
      \/ shown[i].origin = "allowed"
      \/ /\ shown[i].origin = "none"
         /\ Len(contexts) = Len(shown)
         /\ \/ contexts[i] \in {"safe_builtin", "count_star"}
            \/ contexts[i] = "literal" /\ command.statement.kind = "allow_operational_read"

\* What reaches the client of a response is one complete resultset within the limits,
\* counted as it is sent, and none for a setup statement (HandleQuery of the
\* forwarding handler, resultRowsOverLimit, resultBytesOverLimit).
WithinLimits ==
  phase = "replied" /\ outcome.result # None /\ response # None =>
    /\ ~ outcome.result.more /\ ~ outcome.result.streaming
    /\ outcome.result.rows <= MaxResultRows
    /\ EncodedBytes(outcome.result) <= MaxResultBytes
    /\ command.statement.kind = "allow_setup" => outcome.result.fields = <<>>

\* The audited count is the number of values in which the client's result differs
\* from the upstream's, for this statement alone (maskedFieldCount).
MaskedCountExact ==
  phase = "replied" /\ outcome.result # None /\ response # None =>
    event.maskedFields =
      response.rows * Cardinality({i \in DOMAIN response.fields :
                                     outcome.result.fields[i].value # response.fields[i].value})

DecisionOf(statement) == [kind |-> statement.kind, contexts |-> statement.contexts]

\* The three handlers and the connections as one session.
Forwarded == {s \in Statements : ~ s.tooLarge /\ s.kind # "reject"}
Accepted(s) == {r \in Responses : r.kind = "result" /\ ~ Refused(DecisionOf(s), r)}
Session == INSTANCE AuditedSession WITH
  Allowed <- Forwarded,
  Known <- {<<s, MaxAllowedPacketResult>> : s \in {s \in Forwarded : s.maxPacket}},
  Shown <-
    UNION {{<<s, r, MaskResult(DecisionOf(s), r)>> : r \in Accepted(s)} : s \in Forwarded},
  stage <- CASE phase = "command" -> "idle"
             [] phase = "executing" -> "asked"
             [] phase = "auditing" -> "settled"
             [] phase = "replying" -> "recorded"
             [] phase = "replied" -> "answered"
             [] phase = "ended" -> "over",
  statement <- command.statement,
  answer <- IF phase = "executing" THEN None ELSE outcome.result,
  recorded <- IF event = None THEN None
              ELSE [statement |-> event.statement,
                    decision |-> IF event.decision = "reject" THEN "rejected" ELSE "allowed",
                    outcome |-> IF event.errorClass = "" THEN "result" ELSE "error"],
  alive <- upstream = "open"

\* Whatever fails in between, a session is one that executes a statement at most once and
\* only if it is allowed, records it once and truthfully before the client sees the
\* result, which is what masking makes of this statement's response, and executes nothing
\* once the upstream connection, a check, the audit log or the client ended it
\* (policyHandler.HandleQuery, forwardingHandler.HandleQuery, closeAfterAuditFailure).
ImplementsAuditedSession == Session!Spec

\* A session that was closed for whatever reason ends, its connections closed, with
\* no further help from the client or the upstream (TerminalError, ServeConn).
ClosedSessionEnds ==
  deferred.closed ~> phase = "ended" /\ upstream = "closed" /\ client = "closed"

\* m1-implementation.md:247 - a query event counts the result values changed by
\* masking: an event for a statement without a result counts none.
NoStaleMaskCount == event # None /\ response = None => event.maskedFields = 0

=============================================================================
