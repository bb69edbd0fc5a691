------------------------ MODULE ClientSessionProofs -------------------------
(***************************************************************************)
(* What a client is shown, for any statements and any answers of the       *)
(* upstream server.                                                        *)
(***************************************************************************)
EXTENDS ClientSession, FiniteSetTheorems, TLAPS

-----------------------------------------------------------------------------
(* Masking. *)

Decision == [kind : DecisionKinds, contexts : Seq(ExpressionKinds)]

\* A field is shown as it is, or masked.
LEMMA MaskedField ==
  ASSUME NEW f \in Field
  PROVE  /\ Mask(f) \in Field /\ Mask(f).origin = f.origin
         /\ Mask(f).value = "raw" => f.origin = "allowed"
         /\ Mask(f) # f <=> Mask(f).value # f.value
BY DEF Field, Mask

\* Masking leaves everything of a response but its values.
LEMMA MaskedResponse ==
  ASSUME NEW d \in Decision, NEW r \in Response
  PROVE  /\ MaskResult(d, r) \in Response
         /\ Len(MaskResult(d, r).fields) = Len(r.fields)
         /\ DOMAIN MaskResult(d, r).fields = DOMAIN r.fields
         /\ \A i \in DOMAIN r.fields :
              /\ r.fields[i] \in Field
              /\ MaskResult(d, r).fields[i] =
                   IF Passthrough(d, r.fields, i) THEN r.fields[i] ELSE Mask(r.fields[i])
<1> DEFINE shown == [i \in DOMAIN r.fields |->
                       IF Passthrough(d, r.fields, i) THEN r.fields[i] ELSE Mask(r.fields[i])]
<1>1. r.fields \in Seq(Field)
  BY DEF Response
<1>2. \A i \in DOMAIN r.fields : r.fields[i] \in Field /\ shown[i] \in Field
  BY <1>1, MaskedField
<1>3. shown \in Seq(Field) /\ Len(shown) = Len(r.fields)
  <2>1. Len(r.fields) \in Nat /\ DOMAIN r.fields = 1 .. Len(r.fields)
    BY <1>1
  <2>2. shown \in [1 .. Len(r.fields) -> Field]
    BY <1>2, <2>1
  <2> HIDE DEF shown
  <2> QED
    BY <2>1, <2>2
<1>4. MaskResult(d, r) = [r EXCEPT !.fields = shown]
  BY DEF MaskResult
<1> HIDE DEF shown
<1>5. MaskResult(d, r) \in Response /\ MaskResult(d, r).fields = shown
  BY <1>3, <1>4 DEF Response
<1> QED
  BY <1>2, <1>3, <1>5 DEF shown

\* What masking changed is counted: a number.
LEMMA MaskedCount ==
  ASSUME NEW d \in Decision, NEW r \in Response
  PROVE  /\ MaskedFields(d, r) \in Nat
         /\ MaskedFields(d, r) = r.rows * Cardinality({i \in DOMAIN r.fields :
              MaskResult(d, r).fields[i].value # r.fields[i].value})
<1> DEFINE changed == {i \in DOMAIN r.fields : MaskResult(d, r).fields[i] # r.fields[i]}
<1>1. changed = {i \in DOMAIN r.fields :
                   MaskResult(d, r).fields[i].value # r.fields[i].value}
  BY MaskedResponse, MaskedField
<1>2. r.fields \in Seq(Field) /\ r.rows \in Nat
  BY DEF Response
<1>3. DOMAIN r.fields = 1 .. Len(r.fields) /\ Len(r.fields) \in Nat
  BY <1>2
<1>4. changed \subseteq 1 .. Len(r.fields) /\ IsFiniteSet(1 .. Len(r.fields))
  BY <1>3, FS_Interval
<1>5. Cardinality(changed) \in Nat
  BY <1>4, FS_Subset, FS_CardinalityType
<1>6. MaskedFields(d, r) = r.rows * Cardinality(changed)
  BY DEF MaskedFields
<1> HIDE DEF changed
<1>7. MaskedFields(d, r) \in Nat
  BY <1>2, <1>5, <1>6
<1> QED
  BY <1>1, <1>6, <1>7

-----------------------------------------------------------------------------
(* The invariant of a session. *)

\* A session that is closed knows why, until it has ended.
LifeInv ==
  /\ LayersAgree
  /\ phase # "ended" => (deferred.closed <=> deferred.terminal # "none")

\* The statement being executed is the one the decision is about.
DecidedInv ==
  phase = "executing" =>
    /\ ~ command.statement.tooLarge /\ command.statement.kind # "reject"
    /\ handler.decision = DecisionOf(command.statement)
    /\ response = None

\* Without an error there is a result.
OnlyResultsSucceed ==
  phase = "auditing" => (outcome.err = "none" <=> outcome.result # None)

\* A result is a response to the statement that was not refused, masked as decided ...
Masked ==
  /\ ~ Refused(DecisionOf(command.statement), response)
  /\ outcome.result = MaskResult(DecisionOf(command.statement), response)

\* ... before it is audited ...
AuditingInv ==
  phase = "auditing" /\ outcome.result # None =>
    /\ ~ command.statement.tooLarge /\ command.statement.kind # "reject"
    /\ response # None =>
         /\ Masked /\ deferred.forwarding
         /\ handler.maskedFields = MaskedFields(DecisionOf(command.statement), response)

\* ... and after.
AuditedInv ==
  phase \in {"replying", "replied"} /\ command.type = "query" =>
    /\ outcome.result # None =>
         /\ event # None /\ event.statement = command.statement
         /\ event.decision # "reject" /\ event.errorClass = ""
         /\ response # None =>
              /\ Masked
              /\ event.maskedFields = MaskedFields(DecisionOf(command.statement), response)
    /\ event = None => outcome.result = None /\ deferred.terminal # "none"

\* Nothing but a query has a result.
QueryInv ==
  phase \in {"replying", "replied"} /\ command.type # "query" => outcome.result = None

SessionInv == TypeOK /\ LifeInv /\ DecidedInv /\ OnlyResultsSucceed /\ AuditingInv
                /\ AuditedInv /\ QueryInv

-----------------------------------------------------------------------------
LEMMA InitSessionInv == Init => SessionInv
<1> SUFFICES ASSUME Init PROVE SessionInv
  OBVIOUS
<1>1. NoDecision \in Decision
  BY DEF NoDecision, Decision, DecisionKinds
<1>2. TypeOK
  BY <1>1 DEF Init, TypeOK, Phases, Errors, NoCommand, Failure, Decision
<1> QED
  BY <1>2
  DEF Init, SessionInv, LifeInv, LayersAgree, DecidedInv, OnlyResultsSucceed, AuditingInv,
      AuditedInv, QueryInv

\* A statement's decision has its type, as does the answer to the probe.
LEMMA StatementTypes ==
  /\ \A s \in Statements : /\ s.tooLarge \in BOOLEAN /\ s.kind \in DecisionKinds
                           /\ s.maxPacket \in BOOLEAN /\ DecisionOf(s) \in Decision /\ s # None
  /\ \A r \in Responses : r \in Response /\ r # None
  /\ MaxAllowedPacketResult \in Response
<1>1. \A s \in Statements : /\ s.tooLarge \in BOOLEAN /\ s.kind \in DecisionKinds
                           /\ s.maxPacket \in BOOLEAN /\ DecisionOf(s) \in Decision /\ s # None
  BY SessionAssumption DEF Statement, DecisionOf, Decision
<1>2. \A r \in Responses : r \in Response /\ r # None
  BY SessionAssumption
<1>3. <<[origin |-> "none", value |-> "raw"]>> \in Seq(Field)
  BY DEF Field
<1> QED
  BY <1>1, <1>2, <1>3 DEF MaxAllowedPacketResult, Response

\* A session that is closed for a reason has it.
LEMMA ClosedForReason ==
  ASSUME TypeOK, NEW err \in Errors \ {"none"}, NEW n \in Nat, deferred.terminal = "none",
         CloseTerminal(err, n)
  PROVE  /\ deferred' \in [forwarding : BOOLEAN, closed : BOOLEAN, terminal : Errors]
         /\ handler' \in [closed : BOOLEAN, terminal : Errors, maskedFields : Nat,
                          decision : Decision]
         /\ deferred'.forwarding = FALSE /\ deferred'.closed = TRUE /\ deferred'.terminal = err
         /\ handler'.closed = TRUE /\ upstream' = "closed"
<1>1. deferred' = [forwarding |-> FALSE, closed |-> TRUE, terminal |-> err]
  BY DEF CloseTerminal, Deactivated
<1>2. handler \in [closed : BOOLEAN, terminal : Errors, maskedFields : Nat, decision : Decision]
  BY DEF TypeOK, Decision
<1>3. handler' = [closed |-> TRUE, terminal |-> err, maskedFields |-> n,
                  decision |-> handler.decision]
  BY <1>2 DEF CloseTerminal
<1>4. handler.decision \in Decision
  BY <1>2
<1>5. /\ deferred' \in [forwarding : BOOLEAN, closed : BOOLEAN, terminal : Errors]
      /\ deferred'.forwarding = FALSE /\ deferred'.closed = TRUE /\ deferred'.terminal = err
  BY <1>1
<1>6. /\ handler' \in [closed : BOOLEAN, terminal : Errors, maskedFields : Nat,
                       decision : Decision]
      /\ handler'.closed = TRUE
  BY <1>3, <1>4
<1> QED
  BY <1>5, <1>6 DEF CloseTerminal

\* A command arrives.
LEMMA NextReceive ==
  ASSUME SessionInv,
         \/ \E s \in Statements : AnswerLocally(s) \/ Forward(s)
         \/ \E err \in {"none", "policy", "mysql_error", "conn_error"} : InitDB(err)
         \/ \E type \in {"ping", "other"} : OtherCommand(type)
  PROVE  SessionInv'
<1> USE DEF SessionInv, Receive
<1>1. ASSUME NEW s \in Statements, AnswerLocally(s) PROVE SessionInv'
  <2>1. TypeOK'
    BY <1>1, StatementTypes DEF AnswerLocally, TypeOK, Phases, Errors, Failure
  <2>2. LifeInv' /\ DecidedInv' /\ AuditedInv' /\ QueryInv'
    BY <1>1 DEF AnswerLocally, LifeInv, LayersAgree, DecidedInv, AuditedInv, QueryInv
  <2>3. OnlyResultsSucceed' /\ AuditingInv'
    BY <1>1, StatementTypes, SessionAssumption
    DEF AnswerLocally, OnlyResultsSucceed, AuditingInv, Failure
  <2> QED
    BY <2>1, <2>2, <2>3
<1>2. ASSUME NEW s \in Statements, Forward(s) PROVE SessionInv'
  <2>0. deferred.forwarding
    BY <1>2 DEF Forward, LifeInv, LayersAgree, TypeOK
  <2>1. TypeOK'
    BY <1>2, <2>0, StatementTypes
    DEF Forward, SetQueryDecision, TypeOK, Phases, Errors, DecisionOf, Decision
  <2>2. LifeInv' /\ OnlyResultsSucceed' /\ AuditingInv' /\ AuditedInv' /\ QueryInv'
    BY <1>2, <2>0
    DEF Forward, SetQueryDecision, LifeInv, LayersAgree, OnlyResultsSucceed,
        AuditingInv, AuditedInv, QueryInv, TypeOK
  <2>3. DecidedInv'
    BY <1>2, <2>0 DEF Forward, SetQueryDecision, DecidedInv, DecisionOf, TypeOK
  <2> QED
    BY <2>1, <2>2, <2>3
<1>3. ASSUME NEW err \in {"none", "policy", "mysql_error", "conn_error"}, InitDB(err)
      PROVE  SessionInv'
  <2>0. deferred.forwarding /\ deferred.terminal = "none" /\ ~ deferred.closed
    BY <1>3 DEF InitDB, LifeInv, LayersAgree, TypeOK
  <2>c. outcome' = [err |-> err, result |-> None] /\ err \in Errors
    BY <1>3, <2>0 DEF InitDB, Failure, Errors
  <2>a. ASSUME UNCHANGED <<deferred, handler, upstream>> PROVE TypeOK' /\ LifeInv'
    <3>1. TypeOK'
      BY <1>3, <2>a, <2>c DEF InitDB, TypeOK, Phases
    <3>2. LifeInv'
      BY <1>3, <2>a DEF InitDB, LifeInv, LayersAgree
    <3> QED
      BY <3>1, <3>2
  <2>b. ASSUME CloseTerminal(err, handler.maskedFields), err = "conn_error"
        PROVE  TypeOK' /\ LifeInv'
    <3>1. err \in Errors \ {"none"} /\ handler.maskedFields \in Nat
      BY <2>b DEF Errors, TypeOK
    <3>a. /\ deferred' \in [forwarding : BOOLEAN, closed : BOOLEAN, terminal : Errors]
          /\ handler' \in [closed : BOOLEAN, terminal : Errors, maskedFields : Nat,
                           decision : Decision]
          /\ upstream' = "closed"
      BY <2>0, <2>b, <3>1, ClosedForReason
    <3>2. TypeOK'
      BY <1>3, <2>c, <3>a DEF InitDB, TypeOK, Phases, Decision
    <3>3. LifeInv'
      BY <1>3, <2>0, <2>b, <3>1, ClosedForReason DEF InitDB, LifeInv, LayersAgree, Errors
    <3> QED
      BY <3>2, <3>3
  <2>1. TypeOK' /\ LifeInv'
    BY <1>3, <2>a, <2>b DEF InitDB, Terminal
  <2>3. DecidedInv' /\ OnlyResultsSucceed' /\ AuditingInv' /\ AuditedInv' /\ QueryInv'
    BY <1>3
    DEF InitDB, DecidedInv, OnlyResultsSucceed, AuditingInv, AuditedInv, QueryInv, Failure
  <2> QED
    BY <2>1, <2>3
<1>4. ASSUME NEW type \in {"ping", "other"}, OtherCommand(type) PROVE SessionInv'
  <2>1. TypeOK'
    BY <1>4 DEF OtherCommand, TypeOK, Phases, Errors, Failure
  <2>2. LifeInv'
    BY <1>4 DEF OtherCommand, LifeInv, LayersAgree
  <2>3. DecidedInv' /\ OnlyResultsSucceed' /\ AuditingInv' /\ AuditedInv' /\ QueryInv'
    BY <1>4
    DEF OtherCommand, DecidedInv, OnlyResultsSucceed, AuditingInv, AuditedInv, QueryInv, Failure
  <2> QED
    BY <2>1, <2>2, <2>3
<1> QED
  BY <1>1, <1>2, <1>3, <1>4

\* The upstream answers.
LEMMA NextExecute ==
  ASSUME SessionInv, NEW r \in Responses, Execute(r)
  PROVE  SessionInv'
<1> USE DEF SessionInv
<1>0. /\ phase = "executing" /\ deferred.forwarding /\ deferred.terminal = "none"
      /\ ~ deferred.closed /\ command.statement \in Statements
      /\ r \in Response /\ r # None /\ handler.decision \in Decision
  BY StatementTypes
  DEF Execute, ExecuteFails, ExecuteRefused, ExecuteMasks, LifeInv, LayersAgree,
      TypeOK, Decision
<1>c. MaskedFields(handler.decision, r) \in Nat /\ MaskResult(handler.decision, r) \in Response
  BY <1>0, MaskedCount, MaskedResponse
<1>1. CASE ExecuteFails(r)
  <2>0. r.kind \in {"mysql_error", "conn_error"} /\ r.kind \in Errors \ {"none"}
    BY <1>0, <1>1 DEF ExecuteFails, Response, Errors
  <2>c. outcome' = [err |-> r.kind, result |-> None]
    BY <1>1 DEF ExecuteFails, Failure
  <2>1. ASSUME CloseTerminal(r.kind, 0)
        PROVE  TypeOK' /\ LifeInv'
    <3>a. /\ deferred' \in [forwarding : BOOLEAN, closed : BOOLEAN, terminal : Errors]
          /\ handler' \in [closed : BOOLEAN, terminal : Errors, maskedFields : Nat,
                           decision : Decision]
          /\ upstream' = "closed"
      BY <1>0, <2>0, <2>1, ClosedForReason
    <3>1. TypeOK'
      BY <1>1, <2>0, <2>c, <3>a DEF ExecuteFails, TypeOK, Phases, Decision
    <3>2. LifeInv'
      BY <1>1, <1>0, <2>0, <2>1, ClosedForReason DEF ExecuteFails, LifeInv, LayersAgree
    <3> QED
      BY <3>1, <3>2
  <2>2. ASSUME handler' = [handler EXCEPT !.maskedFields = 0] /\ UNCHANGED <<deferred, upstream>>
        PROVE  TypeOK' /\ LifeInv'
    <3>1. TypeOK'
      BY <1>1, <1>0, <2>0, <2>2, <2>c DEF ExecuteFails, TypeOK, Phases
    <3>2. LifeInv'
      BY <1>1, <1>0, <2>0, <2>2 DEF ExecuteFails, LifeInv, LayersAgree, TypeOK
    <3> QED
      BY <3>1, <3>2
  <2>3. DecidedInv' /\ OnlyResultsSucceed' /\ AuditingInv' /\ AuditedInv' /\ QueryInv'
    BY <1>1, <2>0, <2>c
    DEF ExecuteFails, DecidedInv, OnlyResultsSucceed, AuditingInv, AuditedInv, QueryInv
  <2> QED
    BY <1>1, <2>1, <2>2, <2>3 DEF ExecuteFails
<1>2. CASE ExecuteRefused(r)
  <2>1. TypeOK'
    BY <1>0, <1>c, <1>2
    DEF ExecuteRefused, CloseTerminal, Deactivated, TypeOK, Phases, Errors, Failure
  <2>2. LifeInv'
    BY <1>0, <1>2
    DEF ExecuteRefused, CloseTerminal, Deactivated, LifeInv, LayersAgree, TypeOK
  <2>3. DecidedInv' /\ OnlyResultsSucceed' /\ AuditingInv' /\ AuditedInv' /\ QueryInv'
    BY <1>2
    DEF ExecuteRefused, DecidedInv, OnlyResultsSucceed, AuditingInv, AuditedInv, QueryInv, Failure
  <2> QED
    BY <2>1, <2>2, <2>3
<1>3. CASE ExecuteMasks(r)
  <2>1. TypeOK'
    BY <1>0, <1>c, <1>3 DEF ExecuteMasks, TypeOK, Phases, Errors
  <2>2. LifeInv'
    BY <1>0, <1>3 DEF ExecuteMasks, LifeInv, LayersAgree, TypeOK
  <2>3. DecidedInv' /\ AuditedInv' /\ QueryInv'
    BY <1>3 DEF ExecuteMasks, DecidedInv, AuditedInv, QueryInv
  <2>4. handler'.maskedFields = MaskedFields(handler.decision, r)
    BY <1>3 DEF ExecuteMasks, TypeOK
  <2>5. OnlyResultsSucceed' /\ AuditingInv'
    BY <1>0, <1>c, <1>3, <2>4, SessionAssumption
    DEF ExecuteMasks, OnlyResultsSucceed, AuditingInv, DecidedInv, Masked
  <2> QED
    BY <2>1, <2>2, <2>3, <2>5
<1> QED
  BY <1>1, <1>2, <1>3 DEF Execute

LEMMA DeferredType ==
  ASSUME NEW err \in Errors
  PROVE  [forwarding |-> FALSE, closed |-> TRUE, terminal |-> err]
           \in [forwarding : BOOLEAN, closed : BOOLEAN, terminal : Errors]
OBVIOUS

\* The session is closed: its parts together.
LEMMA NextEnds ==
  ASSUME SessionInv, ServeConnReturns
  PROVE  SessionInv'
<1> USE DEF SessionInv, ServeConnReturns, SessionClose
<1>0. /\ deferred \in [forwarding : BOOLEAN, closed : BOOLEAN, terminal : Errors]
      /\ handler \in [closed : BOOLEAN, terminal : Errors, maskedFields : Nat, decision : Decision]
      /\ deferred.forwarding <=> ~ deferred.closed
      /\ deferred.closed <=> handler.closed
      /\ handler.closed <=> upstream = "closed"
  BY DEF TypeOK, LifeInv, LayersAgree, Decision
<1>1. ASSUME ~ deferred.forwarding, UNCHANGED <<deferred, handler, upstream>>
      PROVE  TypeOK' /\ LifeInv'
  <2>1. TypeOK'
    BY <1>1 DEF TypeOK, Phases
  <2>2. LifeInv'
    BY <1>0, <1>1 DEF LifeInv, LayersAgree
  <2> QED
    BY <2>1, <2>2
<1>2. ASSUME deferred.forwarding, deferred' = Deactivated("none"),
             handler' = [handler EXCEPT !.closed = TRUE], upstream' = "closed"
      PROVE  TypeOK' /\ LifeInv'
  <2>1. deferred' = [forwarding |-> FALSE, closed |-> TRUE,
                     terminal |-> IF deferred.terminal = "none" THEN "none" ELSE deferred.terminal]
    BY <1>2 DEF Deactivated
  <2>2. deferred' = [forwarding |-> FALSE, closed |-> TRUE, terminal |-> deferred.terminal]
    BY <2>1
  <2>3. handler' = [closed |-> TRUE, terminal |-> handler.terminal,
                    maskedFields |-> handler.maskedFields, decision |-> handler.decision]
    BY <1>0, <1>2
  <2>4. /\ deferred' \in [forwarding : BOOLEAN, closed : BOOLEAN, terminal : Errors]
        /\ deferred'.forwarding = FALSE /\ deferred'.closed = TRUE
    <3>1. PICK err \in Errors : err = deferred.terminal
      BY <1>0
    <3>2. deferred' = [forwarding |-> FALSE, closed |-> TRUE, terminal |-> err]
      BY <2>2, <3>1
    <3>3. deferred'.forwarding = FALSE /\ deferred'.closed = TRUE
      BY <3>2
    <3>4. deferred' \in [forwarding : BOOLEAN, closed : BOOLEAN, terminal : Errors]
      BY <3>1, <3>2, DeferredType
    <3> QED
      BY <3>3, <3>4
  <2>5. /\ handler' \in [closed : BOOLEAN, terminal : Errors, maskedFields : Nat,
                         decision : Decision]
        /\ handler'.closed = TRUE
    BY <1>0, <2>3
  <2>6. TypeOK'
    BY <1>2, <2>4, <2>5 DEF TypeOK, Phases, Decision
  <2>7. LifeInv'
    BY <1>2, <2>4, <2>5 DEF LifeInv, LayersAgree
  <2> QED
    BY <2>6, <2>7
<1>3. DecidedInv' /\ OnlyResultsSucceed' /\ AuditingInv' /\ AuditedInv' /\ QueryInv'
  BY DEF DecidedInv, OnlyResultsSucceed, AuditingInv, AuditedInv, QueryInv
<1> QED
  BY <1>1, <1>2, <1>3

\* What is written of a statement.
LEMMA EventWritten ==
  ASSUME SessionInv, AuditQuery
  PROVE  /\ event' \in AuditEvent /\ event' # None
         /\ event'.statement = command.statement
         /\ event'.decision = IF command.statement.tooLarge THEN "reject"
                              ELSE command.statement.kind
         /\ event'.maskedFields = MaskedFieldCount
         /\ event'.errorClass = ErrorClass(outcome.err)
<1> DEFINE written == [statement |-> command.statement,
      decision |-> IF command.statement.tooLarge THEN "reject" ELSE command.statement.kind,
      maskedFields |-> MaskedFieldCount,
      errorClass |-> ErrorClass(outcome.err)]
<1>1. /\ command.statement \in Statements /\ command.statement.kind \in DecisionKinds
      /\ handler \in [closed : BOOLEAN, terminal : Errors, maskedFields : Nat, decision : Decision]
  BY StatementTypes DEF SessionInv, AuditQuery, TypeOK, Decision
<1>2. MaskedFieldCount \in Nat
  BY <1>1 DEF MaskedFieldCount
<1>3. ErrorClass(outcome.err) \in
        {"", "query_too_large", "policy_reject", "proxy_error", "mysql_error"}
  BY DEF ErrorClass
<1>4. written \in AuditEvent
  BY <1>1, <1>2, <1>3, StatementTypes DEF AuditEvent, DecisionKinds
<1>5. event' = written /\ event' \in AuditEvent /\ event' # None
  BY <1>4, SessionAssumption DEF AuditQuery
<1> QED
  BY <1>5

\* The statement is audited, or cannot be.
LEMMA NextAudit ==
  ASSUME SessionInv, AuditQuery \/ AuditFails
  PROVE  SessionInv'
<1> USE DEF SessionInv
<1>0. /\ phase = "auditing" /\ command.type = "query"
      /\ command.statement \in Statements /\ command.statement.kind \in DecisionKinds
      /\ handler \in [closed : BOOLEAN, terminal : Errors, maskedFields : Nat, decision : Decision]
      /\ deferred \in [forwarding : BOOLEAN, closed : BOOLEAN, terminal : Errors]
  BY StatementTypes DEF AuditQuery, AuditFails, TypeOK, Decision
<1>1. CASE AuditQuery
  <2>4. event' \in AuditEvent /\ event' # None
    BY <1>1, EventWritten
  <2>5. /\ event'.statement = command.statement
        /\ ~ command.statement.tooLarge => event'.decision = command.statement.kind
        /\ event'.maskedFields = MaskedFieldCount
        /\ outcome.err = "none" => event'.errorClass = ""
    BY <1>1, EventWritten DEF ErrorClass
  <2>6. TypeOK'
    BY <1>1, <2>4 DEF AuditQuery, TypeOK, Phases
  <2>7. LifeInv' /\ DecidedInv' /\ OnlyResultsSucceed' /\ AuditingInv' /\ QueryInv'
    BY <1>0, <1>1
    DEF AuditQuery, LifeInv, LayersAgree, DecidedInv, OnlyResultsSucceed, AuditingInv, QueryInv
  <2>8. AuditedInv'
    BY <1>0, <1>1, <2>4, <2>5
    DEF AuditQuery, AuditedInv, OnlyResultsSucceed, AuditingInv, Masked, MaskedFieldCount
  <2> QED
    BY <2>6, <2>7, <2>8
<1>2. CASE AuditFails
  <2>0. outcome' = [err |-> "unsupported", result |-> None]
    BY <1>2 DEF AuditFails, Failure
  <2>1. deferred' = [forwarding |-> FALSE, closed |-> TRUE,
                     terminal |-> IF deferred.terminal = "none" THEN "audit_failure"
                                  ELSE deferred.terminal]
    BY <1>2 DEF AuditFails, Deactivated
  <2>2. /\ deferred' \in [forwarding : BOOLEAN, closed : BOOLEAN, terminal : Errors]
        /\ deferred'.forwarding = FALSE /\ deferred'.closed = TRUE /\ deferred'.terminal # "none"
    BY <1>0, <2>1 DEF Errors
  <2>3. /\ handler' \in [closed : BOOLEAN, terminal : Errors, maskedFields : Nat,
                         decision : Decision]
        /\ handler'.closed = TRUE /\ upstream' = "closed"
    <3>1. CASE deferred.forwarding
      <4>1. handler' = [closed |-> TRUE, terminal |-> handler.terminal,
                        maskedFields |-> handler.maskedFields, decision |-> handler.decision]
        BY <1>0, <1>2, <3>1 DEF AuditFails
      <4> QED
        BY <1>0, <1>2, <3>1, <4>1 DEF AuditFails
    <3>2. CASE ~ deferred.forwarding
      BY <1>0, <1>2, <3>2 DEF AuditFails, LifeInv, LayersAgree
    <3> QED
      BY <3>1, <3>2
  <2>4. TypeOK'
    BY <1>2, <2>0, <2>2, <2>3 DEF AuditFails, TypeOK, Phases, Errors, Decision
  <2>5. LifeInv'
    BY <1>2, <2>2, <2>3 DEF AuditFails, LifeInv, LayersAgree
  <2>6. phase' = "replying" /\ outcome'.result = None /\ UNCHANGED event
    BY <1>2, <2>0 DEF AuditFails
  <2>7. DecidedInv' /\ OnlyResultsSucceed' /\ AuditingInv' /\ QueryInv'
    BY <2>6 DEF DecidedInv, OnlyResultsSucceed, AuditingInv, QueryInv
  <2>8. AuditedInv'
    BY <2>2, <2>6 DEF AuditedInv
  <2> QED
    BY <2>4, <2>5, <2>7, <2>8
<1> QED
  BY <1>1, <1>2

LEMMA NextSessionInv == SessionInv /\ [Next]_vars => SessionInv'
<1> SUFFICES ASSUME SessionInv, [Next]_vars PROVE SessionInv'
  OBVIOUS
<1>1. CASE Quit \/ ReplyFails \/ EndIfTerminal \/ ReadFails
  BY <1>1, NextEnds DEF Quit, ReplyFails, EndIfTerminal, ReadFails
<1>2. CASE Reply
  BY <1>2
  DEF Reply, SessionInv, TypeOK, Phases, LifeInv, LayersAgree, DecidedInv, OnlyResultsSucceed,
      AuditingInv, AuditedInv, QueryInv, Masked
<1>3. CASE NextCommand
  BY <1>3 DEF NextCommand, SessionInv, TypeOK, Phases, LifeInv, LayersAgree, DecidedInv,
              OnlyResultsSucceed, AuditingInv, AuditedInv, QueryInv
<1>4. CASE ClientCloses
  BY <1>4 DEF ClientCloses, SessionInv, TypeOK, LifeInv, LayersAgree, DecidedInv,
              OnlyResultsSucceed, AuditingInv, AuditedInv, QueryInv, Masked
<1>5. CASE UNCHANGED vars
  <2>1. TypeOK'
    BY <1>5 DEF vars, SessionInv, TypeOK
  <2>2. LifeInv' /\ DecidedInv' /\ OnlyResultsSucceed'
    BY <1>5 DEF vars, SessionInv, LifeInv, LayersAgree, DecidedInv, OnlyResultsSucceed
  <2>3. AuditingInv' /\ AuditedInv' /\ QueryInv'
    BY <1>5 DEF vars, SessionInv, AuditingInv, AuditedInv, QueryInv, Masked
  <2> QED
    BY <2>1, <2>2, <2>3 DEF SessionInv
<1> QED
  BY <1>1, <1>2, <1>3, <1>4, <1>5, NextReceive, NextExecute, NextAudit DEF Next, Proceed

LEMMA SessionInvariance == Spec => []SessionInv
BY InitSessionInv, NextSessionInv, PTL DEF Spec

-----------------------------------------------------------------------------
\* Every variable of a session has its type (ServeConn and the three handlers).
THEOREM SessionTypeCorrect == Spec => []TypeOK
<1>1. SessionInv => TypeOK
  BY DEF SessionInv
<1> QED
  BY <1>1, SessionInvariance, PTL

\* The three handlers never disagree on whether the session is alive, whatever ended
\* it, and no command is read after it died (deactivate, closeTerminal, Close,
\* ServeConn).
THEOREM HandlersAgree == Spec => []LayersAgree
<1>1. SessionInv => LayersAgree
  BY DEF SessionInv, LifeInv
<1> QED
  BY <1>1, SessionInvariance, PTL

\* No client sees the result of a statement that the audit log does not have
\* (policyHandler.HandleQuery, closeAfterAuditFailure).
THEOREM EverythingAudited == Spec => []NothingUnaudited
<1>1. SessionInv => NothingUnaudited
  BY DEF SessionInv, AuditedInv, NothingUnaudited
<1> QED
  BY <1>1, SessionInvariance, PTL

\* Raw text reaches the client only as the rules and the facts of this very statement
\* allow (setQueryDecision, expressionAllowsPassthrough, maskRow).
THEOREM ShownAsDecided == Spec => []MaskedAsDecided
<1>1. ASSUME SessionInv, phase = "replied", outcome.result # None, response # None
      PROVE  /\ response \in Response /\ DecisionOf(command.statement) \in Decision
             /\ outcome.result = MaskResult(DecisionOf(command.statement), response)
  BY <1>1, StatementTypes DEF SessionInv, AuditedInv, QueryInv, Masked, TypeOK
<1>2. ASSUME SessionInv, phase = "replied", outcome.result # None, response # None,
             NEW i \in DOMAIN outcome.result.fields, outcome.result.fields[i].value = "raw"
      PROVE  LET shown == outcome.result.fields
                 contexts == command.statement.contexts IN
             \/ shown[i].origin = "allowed"
             \/ /\ shown[i].origin = "none"
                /\ Len(contexts) = Len(shown)
                /\ \/ contexts[i] \in {"safe_builtin", "count_star"}
                   \/ /\ contexts[i] = "literal"
                      /\ command.statement.kind = "allow_operational_read"
  <2> DEFINE d == DecisionOf(command.statement)
  <2>1. /\ i \in DOMAIN response.fields /\ response.fields[i] \in Field
        /\ Len(outcome.result.fields) = Len(response.fields)
        /\ outcome.result.fields[i] =
             IF Passthrough(d, response.fields, i) THEN response.fields[i]
             ELSE Mask(response.fields[i])
    BY <1>1, <1>2, MaskedResponse
  <2>2. d.kind = command.statement.kind /\ d.contexts = command.statement.contexts
    BY DEF DecisionOf
  <2> HIDE DEF d
  <2> QED
    BY <1>2, <2>1, <2>2, MaskedField DEF Passthrough, OriginFree
<1>3. SessionInv => MaskedAsDecided
  BY <1>2 DEF MaskedAsDecided
<1> QED
  BY <1>3, SessionInvariance, PTL

\* Of a response the client sees one complete resultset within the limits, masked or
\* not (resultRowsOverLimit, resultBytesOverLimit).
THEOREM ResultsFit == Spec => []WithinLimits
<1>1. ASSUME SessionInv, phase = "replied", outcome.result # None, response # None
      PROVE  /\ ~ outcome.result.more /\ ~ outcome.result.streaming
             /\ outcome.result.rows <= MaxResultRows
             /\ EncodedBytes(outcome.result) <= MaxResultBytes
             /\ command.statement.kind = "allow_setup" => outcome.result.fields = <<>>
  <2>1. /\ response \in Response /\ DecisionOf(command.statement) \in Decision
        /\ outcome.result = MaskResult(DecisionOf(command.statement), response)
        /\ ~ Refused(DecisionOf(command.statement), response)
    BY <1>1, StatementTypes DEF SessionInv, AuditedInv, QueryInv, Masked, TypeOK
  <2>2. PICK d \in Decision : d = DecisionOf(command.statement)
    BY <2>1
  <2>3. /\ ~ response.more /\ ~ response.streaming
        /\ d.kind = "allow_setup" => response.fields = <<>>
        /\ Fits(MaskResult(d, response))
    BY <2>1, <2>2 DEF Refused, RefusedUnmasked
  <2>4. /\ MaskResult(d, response).more = response.more
        /\ MaskResult(d, response).streaming = response.streaming
    BY <2>1 DEF MaskResult, Response
  <2>5. d.kind = "allow_setup" => MaskResult(d, response).fields = <<>>
    <3>1. /\ MaskResult(d, response).fields \in Seq(Field)
          /\ Len(MaskResult(d, response).fields) = Len(response.fields)
      BY <2>1, MaskedResponse DEF Response
    <3>2. QED
      BY <2>3, <3>1
  <2>6. d.kind = command.statement.kind
    BY <2>2 DEF DecisionOf
  <2>7. QED
    BY <2>1, <2>2, <2>3, <2>4, <2>5, <2>6 DEF Fits
<1>2. SessionInv => WithinLimits
  BY <1>1 DEF WithinLimits
<1> QED
  BY <1>2, SessionInvariance, PTL

\* The audited count is the number of values in which the client's result differs from
\* the upstream's (maskedFieldCount).
THEOREM CountsAreExact == Spec => []MaskedCountExact
<1>1. ASSUME SessionInv, phase = "replied", outcome.result # None, response # None
      PROVE  event.maskedFields =
               response.rows * Cardinality({i \in DOMAIN response.fields :
                 outcome.result.fields[i].value # response.fields[i].value})
  <2>1. /\ response \in Response /\ DecisionOf(command.statement) \in Decision
        /\ outcome.result = MaskResult(DecisionOf(command.statement), response)
        /\ event.maskedFields = MaskedFields(DecisionOf(command.statement), response)
    BY <1>1, StatementTypes DEF SessionInv, AuditedInv, QueryInv, Masked, TypeOK
  <2> QED
    BY <2>1, MaskedCount
<1>2. SessionInv => MaskedCountExact
  BY <1>1 DEF MaskedCountExact
<1> QED
  BY <1>2, SessionInvariance, PTL
-----------------------------------------------------------------------------
(* The handlers as one session: every step of theirs is a step of AuditedSession, or none  *)
(* at all.                                                                                 *)

\* What may be seen of a response is seen for a statement that is forwarded, and only of a
\* response the session survives.
LEMMA ShownOf ==
  ASSUME NEW s \in Forwarded, NEW r \in Accepted(s)
  PROVE  <<s, r, MaskResult(DecisionOf(s), r)>> \in
           UNION {{<<t, q, MaskResult(DecisionOf(t), q)>> : q \in Accepted(t)} : t \in Forwarded}
OBVIOUS

\* A session begins as one.
LEMMA InitSession == Init => Session!Init
BY SessionAssumption DEF Init, Session!Init, NoCommand, Failure

\* A command arrives.
LEMMA ReceivedByOne ==
  ASSUME SessionInv,
         \/ \E s \in Statements : AnswerLocally(s) \/ Forward(s)
         \/ \E err \in {"none", "policy", "mysql_error", "conn_error"} : InitDB(err)
         \/ \E type \in {"ping", "other"} : OtherCommand(type)
  PROVE  Session!Next
<1> USE DEF SessionInv, Receive
<1>1. ASSUME NEW s \in Statements, AnswerLocally(s) PROVE Session!Next
  <2>1. /\ phase = "command" /\ phase' = "auditing" /\ upstream = "open" /\ upstream' = upstream
        /\ command' = [type |-> "query", statement |-> s] /\ event' = None
    BY <1>1 DEF AnswerLocally, LifeInv, LayersAgree
  <2>2. CASE outcome'.result = None
    BY <2>1, <2>2 DEF Session!Next, Session!Settle
  <2>3. CASE outcome'.result # None
    <3>1. /\ s \in Forwarded /\ s.maxPacket /\ outcome'.result = MaxAllowedPacketResult
      BY <1>1, <2>3 DEF AnswerLocally, Failure, Forwarded
    <3>2. Session!Settle(s, MaxAllowedPacketResult)
      BY <2>1, <3>1 DEF Session!Settle
    <3>3. <<s, MaxAllowedPacketResult>> \in
            {<<t, MaxAllowedPacketResult>> : t \in {t \in Forwarded : t.maxPacket}}
      BY <3>1
    <3> QED
      BY <3>2, <3>3 DEF Session!Next
  <2> QED
    BY <2>2, <2>3
<1>2. ASSUME NEW s \in Statements, Forward(s) PROVE Session!Next
  <2>1. /\ phase = "command" /\ phase' = "executing" /\ upstream = "open" /\ upstream' = upstream
        /\ command' = [type |-> "query", statement |-> s] /\ event' = None
    BY <1>2 DEF Forward, LifeInv, LayersAgree, TypeOK
  <2>2. s \in Forwarded
    BY <1>2 DEF Forward, Forwarded
  <2>3. Session!Ask(s)
    BY <2>1, <2>2 DEF Session!Ask
  <2> QED
    BY <2>3 DEF Session!Next
<1>3. ASSUME /\ phase = "command" /\ phase' = "replying" /\ upstream = "open"
             /\ command'.statement = None /\ event' = None /\ outcome'.result = None
      PROVE  Session!Next
  BY <1>3 DEF Session!Next, Session!Command
<1>4. ASSUME NEW err \in {"none", "policy", "mysql_error", "conn_error"}, InitDB(err)
      PROVE  Session!Next
  BY <1>3, <1>4 DEF InitDB, Failure, LifeInv, LayersAgree
<1>5. ASSUME NEW type \in {"ping", "other"}, OtherCommand(type) PROVE Session!Next
  BY <1>3, <1>5 DEF OtherCommand, Failure, LifeInv, LayersAgree
<1> QED
  BY <1>1, <1>2, <1>4, <1>5

\* The upstream answers: the response is seen as it may be, or is an error.
LEMMA ExecutedByOne ==
  ASSUME SessionInv, NEW r \in Responses, Execute(r)
  PROVE  Session!Next
<1> USE DEF SessionInv
<1>1. /\ phase = "executing" /\ phase' = "auditing" /\ upstream = "open"
      /\ UNCHANGED <<command, event>>
      /\ command.statement \in Forwarded
      /\ handler.decision = DecisionOf(command.statement)
  BY DEF Execute, ExecuteFails, ExecuteRefused, ExecuteMasks, LifeInv, LayersAgree, DecidedInv,
         TypeOK, Forwarded
<1>2. CASE outcome'.result = None
  <2>1. Session!Execute(r, None)
    BY <1>1, <1>2 DEF Session!Execute
  <2> QED
    BY <2>1 DEF Session!Next
<1>3. CASE outcome'.result # None
  <2>1. ExecuteMasks(r)
    BY <1>3 DEF Execute, ExecuteFails, ExecuteRefused, Failure
  <2> DEFINE s == command.statement
             seen == <<s, r, MaskResult(DecisionOf(s), r)>>
  <2>2. r \in Accepted(s) /\ outcome'.result = MaskResult(DecisionOf(s), r)
        /\ UNCHANGED upstream
    BY <1>1, <2>1 DEF ExecuteMasks, Accepted
  <2>3. seen \in UNION {{<<t, q, MaskResult(DecisionOf(t), q)>> : q \in Accepted(t)} :
                          t \in Forwarded}
    BY <1>1, <2>2, ShownOf
  <2>4. Session!Execute(r, MaskResult(DecisionOf(s), r))
    BY <1>1, <1>3, <2>2, <2>3 DEF Session!Execute
  <2>5. seen[2] = r /\ seen[3] = MaskResult(DecisionOf(s), r)
    OBVIOUS
  <2> HIDE DEF s, seen
  <2> QED
    BY <2>3, <2>4, <2>5 DEF Session!Next
<1> QED
  BY <1>2, <1>3

\* The statement is audited, truthfully, or cannot be.
LEMMA AuditedByOne ==
  ASSUME SessionInv, AuditQuery \/ AuditFails
  PROVE  Session!Next
<1> USE DEF SessionInv
<1>1. CASE AuditQuery
  <2>1. command.statement \in Statements
    BY <1>1 DEF AuditQuery, TypeOK
  <2>2. /\ event' # None /\ event'.statement = command.statement
        /\ event'.decision # "reject" <=> command.statement \in Forwarded
        /\ event'.errorClass = "" <=> outcome.result # None
    <3>1. /\ event' # None /\ event'.statement = command.statement
          /\ event'.decision = IF command.statement.tooLarge THEN "reject"
                               ELSE command.statement.kind
          /\ event'.errorClass = ErrorClass(outcome.err)
      BY <1>1, EventWritten
    <3>2. event'.decision # "reject" <=> command.statement \in Forwarded
      BY <2>1, <3>1 DEF Forwarded
    <3>3. event'.errorClass = "" <=> outcome.err = "none"
      BY <3>1 DEF ErrorClass
    <3>4. outcome.err = "none" <=> outcome.result # None
      BY <1>1 DEF AuditQuery, OnlyResultsSucceed
    <3> QED
      BY <3>1, <3>2, <3>3, <3>4
  <2>3. Session!Record
    <3>1. /\ phase = "auditing" /\ phase' = "replying"
          /\ UNCHANGED <<command, outcome, upstream>>
      BY <1>1 DEF AuditQuery
    <3>2. [statement |-> event'.statement,
           decision |-> IF event'.decision = "reject" THEN "rejected" ELSE "allowed",
           outcome |-> IF event'.errorClass = "" THEN "result" ELSE "error"] =
            [statement |-> command.statement,
             decision |-> IF command.statement \in Forwarded THEN "allowed" ELSE "rejected",
             outcome |-> IF outcome.result = None THEN "error" ELSE "result"]
      BY <2>2
    <3> QED
      BY <2>2, <3>1, <3>2 DEF Session!Record
  <2> QED
    BY <2>3 DEF Session!Next
<1>2. CASE AuditFails
  <2>1. upstream' = "closed"
    BY <1>2 DEF AuditFails, LifeInv, LayersAgree
  <2>2. Session!FailToRecord
    BY <1>2, <2>1 DEF AuditFails, Failure, Session!FailToRecord
  <2> QED
    BY <2>2 DEF Session!Next
<1> QED
  BY <1>1, <1>2

\* The reply is written and the next command awaited, or the session ends.
LEMMA ContinuedByOne ==
  ASSUME SessionInv, Reply \/ NextCommand \/ Quit \/ ReplyFails \/ EndIfTerminal \/ ReadFails
  PROVE  Session!Next
<1> USE DEF SessionInv
<1>1. CASE Reply
  BY <1>1 DEF Reply, Session!Next, Session!Answer
<1>2. CASE NextCommand
  BY <1>2 DEF NextCommand, LifeInv, LayersAgree, TypeOK, Session!Next, Session!Continue
<1>3. CASE Quit \/ ReplyFails \/ EndIfTerminal \/ ReadFails
  <2>1. /\ phase \in {"command", "replying", "replied"} /\ phase' = "ended"
        /\ UNCHANGED <<command, outcome, event>>
    BY <1>3 DEF Quit, ReplyFails, EndIfTerminal, ReadFails, ServeConnReturns
  <2>2. upstream' = "closed"
    BY <1>3 DEF Quit, ReplyFails, EndIfTerminal, ReadFails, ServeConnReturns, SessionClose,
                LifeInv, LayersAgree
  <2> QED
    BY <2>1, <2>2 DEF Session!Next, Session!End
<1> QED
  BY <1>1, <1>2, <1>3

LEMMA NextSession == SessionInv /\ [Next]_vars => [Session!Next]_(Session!vars)
<1> SUFFICES ASSUME SessionInv, [Next]_vars PROVE [Session!Next]_(Session!vars)
  OBVIOUS
<1>1. CASE ClientCloses \/ UNCHANGED vars
  BY <1>1 DEF ClientCloses, vars, Session!vars
<1> QED
  BY <1>1, ReceivedByOne, ExecutedByOne, AuditedByOne, ContinuedByOne DEF Next, Proceed

\* A session is one that executes a statement at most once and only if it is allowed,
\* records it once and truthfully before the client sees what masking makes of the
\* response, and executes nothing after anything ended it (policyHandler.HandleQuery,
\* forwardingHandler.HandleQuery, closeAfterAuditFailure).
THEOREM SessionIsAudited == Spec => ImplementsAuditedSession
BY SessionInvariance, InitSession, NextSession, PTL DEF Spec, ImplementsAuditedSession, Session!Spec

=============================================================================
