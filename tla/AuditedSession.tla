--------------------------- MODULE AuditedSession ---------------------------
(***************************************************************************)
(* What an accepted session promises its client and its auditor, with one  *)
(* flag for the life of three handlers and of the upstream connection, and *)
(* with no limits, errors and connections: a statement is executed at most *)
(* once, and only if it is allowed; what the client may see of the         *)
(* response is recorded before it sees it; and a session that could not    *)
(* keep a promise does nothing more.                                       *)
(***************************************************************************)
CONSTANTS
  None,
  Statements,
  Allowed,     \* the statements that may be executed
  Known,       \* <<statement, result>>: what the session knows without executing
  Responses,
  Shown        \* <<statement, response, result>>: what may be seen of a response

VARIABLES
  stage,       \* how far the session is with the command
  statement,   \* the statement of the client, None if the command has none
  answer,      \* the result it is answered with, None for an error
  recorded,    \* what the audit log has of it
  alive        \* whether the session can still execute anything

vars == <<stage, statement, answer, recorded, alive>>

Init ==
  /\ stage = "idle"
  /\ statement = None
  /\ answer = None
  /\ recorded = None
  /\ alive = TRUE

Ask(s) ==
  /\ stage = "idle" /\ alive
  /\ s \in Allowed
  /\ stage' = "asked"
  /\ statement' = s
  /\ answer' = None
  /\ recorded' = None
  /\ UNCHANGED alive

\* The response is shown as it may be, or it is an error, which the session may not
\* survive.
Execute(r, result) ==
  /\ stage = "asked" /\ alive
  /\ result = None \/ <<statement, r, result>> \in Shown
  /\ stage' = "settled"
  /\ answer' = result
  /\ alive' \in IF result = None THEN BOOLEAN ELSE {TRUE}
  /\ UNCHANGED <<statement, recorded>>

\* A statement that is not executed.
Settle(s, result) ==
  /\ stage = "idle" /\ alive
  /\ result = None \/ <<s, result>> \in Known
  /\ stage' = "settled"
  /\ statement' = s
  /\ answer' = result
  /\ recorded' = None
  /\ UNCHANGED alive

Record ==
  /\ stage = "settled"
  /\ stage' = "recorded"
  /\ recorded' = [statement |-> statement,
                  decision |-> IF statement \in Allowed THEN "allowed" ELSE "rejected",
                  outcome |-> IF answer = None THEN "error" ELSE "result"]
  /\ UNCHANGED <<statement, answer, alive>>

\* What cannot be recorded is not shown.
FailToRecord ==
  /\ stage = "settled"
  /\ stage' = "recorded"
  /\ answer' = None
  /\ alive' = FALSE
  /\ UNCHANGED <<statement, recorded>>

\* A command without a statement.
Command ==
  /\ stage = "idle" /\ alive
  /\ stage' = "recorded"
  /\ statement' = None
  /\ answer' = None
  /\ recorded' = None
  /\ alive' \in BOOLEAN

Answer ==
  /\ stage = "recorded"
  /\ stage' = "answered"
  /\ UNCHANGED <<statement, answer, recorded, alive>>

Continue ==
  /\ stage = "answered" /\ alive
  /\ stage' = "idle"
  /\ UNCHANGED <<statement, answer, recorded, alive>>

\* No session ends with a statement that is not recorded.
End ==
  /\ stage \in {"idle", "recorded", "answered"}
  /\ stage' = "over"
  /\ alive' = FALSE
  /\ UNCHANGED <<statement, answer, recorded>>

Next ==
  \/ \E s \in Statements : Ask(s)
  \/ \E r \in Responses : Execute(r, None)
  \/ \E seen \in Shown : Execute(seen[2], seen[3])
  \/ \E s \in Statements : Settle(s, None)
  \/ \E known \in Known : Settle(known[1], known[2])
  \/ Record \/ FailToRecord \/ Command \/ Answer \/ Continue \/ End

Spec == Init /\ [][Next]_vars

=============================================================================
