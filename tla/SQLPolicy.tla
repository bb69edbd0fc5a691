----------------------------- MODULE SQLPolicy ------------------------------
(***************************************************************************)
(* The classifier (internal/sqlpolicy/classifier.go): what the proxy does  *)
(* with a statement, decided from its text and from the tree the parser    *)
(* makes of it.  The parser is a library: a statement here carries its     *)
(* text, the number of statements in it and the tree.  The tree is the set *)
(* of its branches, each the sequence of nodes from the root to a node.    *)
(***************************************************************************)
EXTENDS SQLText

\* A node as far as the classifier looks at it.  `plain` says: of a SELECT, that it
\* has neither INTO nor a lock; of a function, that it has no arguments and no
\* schema; of an aggregate, that it is not DISTINCT; of a variable, that it is a
\* system variable without an explicit scope.
Node ==
  [type : {"Select", "TableName", "ColumnName", "FuncCall", "Aggregate", "Window",
           "Variable", "Value", "Wildcard", "Other"},
   name : STRING,    \* the function or variable; of a table or column, its schema
   plain : BOOLEAN,
   at : Nat]         \* where it starts in the text

SystemSchemas == {"information_schema", "performance_schema", "mysql", "sys"}
SafeBuiltins == {"now", "database"}
OperationalVariables ==
  {"version", "version_comment", "max_allowed_packet", "character_set_client",
   "character_set_connection", "character_set_results", "collation_connection"}

Decision(kind, reason, contexts) == [kind |-> kind, reason |-> reason, contexts |-> contexts]
Reject(reason) == Decision("reject", reason, <<>>)

-----------------------------------------------------------------------------
(* Statements decided by their text. *)

Probes ==
  {<<"select", " ", "1">>}
    \cup {<<"select", " ", f, "(", ")">> : f \in SafeBuiltins}
    \cup {<<"select", " ", "@@", v>> : v \in OperationalVariables}

\* Mutant: a statement that starts like a probe is one.
IsOperationalReadPrefix(lower) == \E probe \in Probes : IsPrefix(probe, lower)

IsOperationalRead(lower) ==
  TrimSuffix(TrimSuffix(lower, <<";">>), <<" ", "limit", " ", "1">>) \in Probes

IsSimpleCharsetValue(value) ==
  value # <<>> /\ \A i \in DOMAIN value : value[i] \in Letters \cup Digits

\* Mutant: only the start of a SET statement is looked at.
IsAllowedSetupPrefix(lower) == IsPrefix(<<"set", " ", "names", " ">>, lower)

IsAllowedSetup(lower) ==
  LET names == <<"set", " ", "names", " ">>
      results == <<"set", " ", "character_set_results">>
      rest == TrimSpace(TrimPrefix(lower, results)) IN
  /\ ~ Contains(lower, ",")
  /\ \/ /\ IsPrefix(names, lower)
        /\ IsSimpleCharsetValue(TrimSpace(TrimPrefix(lower, names)))
     \/ /\ IsPrefix(results, lower)
        /\ IsSimpleCharsetValue(TrimSpace(TrimPrefix(rest, <<"=">>)))

-----------------------------------------------------------------------------
(* SELECT statements. *)

\* The parser turns COUNT of any constant into COUNT(1), so the text decides.
IsAllowedCountAggregate(text, n) ==
  /\ n.name = "count"
  /\ n.plain
  /\ CompactSQLCallAt(text, n.at) = <<"count", "(", "*", ")">>

\* What one item of the SELECT list is known to be.
ExpressionContext(text, e) ==
  CASE e.type = "ColumnName" -> "column"
    [] e.type = "Value" -> "literal"
    [] e.type = "FuncCall" /\ e.plain /\ e.name \in SafeBuiltins -> "safe_builtin"
    [] e.type = "Variable" /\ e.plain /\ e.name \in OperationalVariables -> "safe_builtin"
    [] e.type = "Aggregate" /\ IsAllowedCountAggregate(text, e) -> "count_star"
    [] OTHER -> "unknown"

\* A wildcard stands for any number of fields: nothing is known of any then.
ExpressionContexts(s) ==
  IF \E i \in DOMAIN s.fields : s.fields[i].type = "Wildcard" THEN <<>>
  ELSE [i \in DOMAIN s.fields |-> ExpressionContext(s.text, s.fields[i])]

UnsafeRead(n) ==
  \/ n.type = "Select" /\ ~ n.plain
  \/ n.type \in {"TableName", "ColumnName"} /\ n.name \in SystemSchemas

DisallowedFunction(text, n) ==
  \/ n.type \in {"FuncCall", "Window"}
  \/ n.type = "Aggregate" /\ ~ IsAllowedCountAggregate(text, n)

\* The visitor does not look below a function of any kind.
Skips(n) == n.type \in {"FuncCall", "Aggregate", "Window"}

\* Mutant: the visitor looks at the outermost SELECT only.
EnteredTop(s) == {branch[Len(branch)] : branch \in {b \in s.branches : Len(b) <= 2}}

\* The nodes selectSafetyVisitor enters.
Entered(s) ==
  {branch[Len(branch)] :
     branch \in {b \in s.branches : \A i \in 1 .. Len(b) - 1 : ~ Skips(b[i])}}

ClassifySelect(s, lower) ==
  IF IsOperationalRead(lower)
    THEN Decision("allow_operational_read", "allowed_operational_read", ExpressionContexts(s))
  ELSE IF s.type # "Select" THEN Reject("unsupported_statement")
  ELSE IF \E n \in Entered(s) : UnsafeRead(n) THEN Reject("unsafe_read")
  ELSE IF \E n \in Entered(s) : DisallowedFunction(s.text, n)
    THEN Reject("routine_not_allowed")
  ELSE Decision("allow_read", "read_only", ExpressionContexts(s))

ClassifySet(config, lower) ==
  IF config.allowDefaultSetup /\ IsAllowedSetup(lower)
    THEN Decision("allow_setup", "allowed_setup", <<>>)
    ELSE Reject("unsupported_statement")

ClassifyUse(config, schema) ==
  IF schema \in config.allowedSchemas
    THEN Decision("allow_setup", "allowed_schema", <<>>)
    ELSE Reject("schema_not_allowed")

HasExecutableComment(normalized) ==
  \E i \in DOMAIN normalized : IsVersionedComment(normalized, i)

\* StaticClassifier.Classify.
Classify(config, s) ==
  LET normalized == Normalize(s.text)
      lower == IF HasTrailingStatementTerminator(s.text)
                 THEN TrimStatementTerminator(Lower(normalized)) ELSE Lower(normalized) IN
  IF normalized = <<>> THEN Reject("empty_statement")
  ELSE IF HasExecutableComment(normalized) THEN Reject("executable_comment")
  ELSE IF s.parsed = 0 THEN Reject("parse_error")
  ELSE IF s.parsed > 1 THEN Reject("multiple_statements")
  ELSE CASE s.type = "Set" -> ClassifySet(config, lower)
         [] s.type = "Use" -> ClassifyUse(config, s.schema)
         [] s.type \in {"Select", "Values"} -> ClassifySelect(s, lower)
         [] OTHER -> Reject("unsupported_statement")

=============================================================================
