---------------------------- MODULE QueryPolicy -----------------------------
(***************************************************************************)
(* The way of one statement through the policies: it is classified, the    *)
(* upstream executes it, its result is masked with what the classifier     *)
(* knows of the SELECT list and what the configuration allows, and a       *)
(* redacted form of it goes to the audit log (policyHandler.HandleQuery,   *)
(* forwardingHandler.maskRow).  ClientSession has the same steps with all  *)
(* that can fail in between; here the policies themselves are at stake.    *)
(*                                                                         *)
(* With each statement comes what is true of it, which only the properties *)
(* look at: the code has to find it out from the text, the tree and the    *)
(* fields the upstream reports.                                            *)
(***************************************************************************)
EXTENDS SQLPolicy, SQLLexer, Masking

CONSTANT Inputs   \* pairs of a configuration and a statement

VARIABLES
  config,      \* sqlpolicy.Config and masking.Config
  statement,   \* the statement the client sent
  stage,       \* how far it has come
  decision,    \* what the classifier decided
  shown,       \* the row the client is shown
  logged       \* what the audit log is told of the statement

vars == <<config, statement, stage, decision, shown, logged>>

Name == Seq(STRING)
Rule == [schema : Name, table : Name, allColumns : BOOLEAN, columns : SUBSET Name]
Config ==
  [allowedSchemas : SUBSET STRING, allowDefaultSetup : BOOLEAN,
   tableRules : SUBSET Rule, allowTables : SUBSET Rule, allowColumns : SUBSET Rule,
   globalColumns : SUBSET Name, allowColumnNames : SUBSET Name]

Column == [schema : Name, table : Name, column : Name]
Field ==
  [schema : Name, table : Name, column : Name, type : STRING, binary : BOOLEAN,
   value : {"null", "raw"}]

\* Beside its text and its tree a statement has its result, and what is true of it: the
\* columns each field is computed from, where COUNT(*) stands in the text, whether it
\* is terminated, whether it has an executable comment, what it sets in the session.
Statement ==
  [type : STRING, schema : STRING, parsed : Nat, text : Seq(STRING), fields : Seq(Node),
   branches : SUBSET Seq(Node), result : Seq(Field), reads : Seq(SUBSET Column),
   countStars : SUBSET Nat, terminated : BOOLEAN, executable : BOOLEAN,
   sets : SUBSET STRING]

Nodes(s) == {branch[Len(branch)] : branch \in s.branches}

\* The parser gives a whole tree, with the items of the SELECT list in it, and gives
\* COUNT(*) nothing but a constant to count.
ParserContract(s) ==
  /\ <<>> \notin s.branches
  /\ \A b \in s.branches : \A k \in 1 .. Len(b) : SubSeq(b, 1, k) \in s.branches
  /\ \A i \in DOMAIN s.fields : s.fields[i] \in Nodes(s)
  /\ \A b \in s.branches : \A i, j \in DOMAIN b :
       i < j /\ b[i].type = "Aggregate" /\ b[i].at \in s.countStars => b[j].type = "Value"

\* The tree is that of the statement the server executes.  It is not where the two read
\* differently, nor with an executable comment, which each reads in its own way.
TreeIsTrue(s) == ReadAlike(s.text) /\ ~ s.executable

\* Which comments are executable is up to the server.  If the parser reads as the server
\* does, a text it can parse has its comments closed, an aggregate starts outside of
\* strings and comments, and COUNT(*) is a call of count without DISTINCT.
TextContract(s) ==
  /\ s.executable <=> HasExecutable(s.text)
  /\ TreeIsTrue(s) /\ s.parsed > 0 => Closed(s.text)
  /\ TreeIsTrue(s) /\ Closed(s.text) => (s.terminated <=> Terminated(s.text))
  /\ TreeIsTrue(s) => \A n \in Nodes(s) : n.type = "Aggregate" =>
       /\ n.at \in DOMAIN s.text /\ Modes(s.text)[n.at] = "code" /\ ~ Blank(s.text, n.at)
       /\ n.at \in s.countStars <=> IsCountStar(s.text, n.at)
       /\ n.at \in s.countStars => n.name = "count" /\ n.plain

\* What a tree has, its text has words for: a table is named behind one of a few words,
\* a second item of a SELECT list behind a comma, a variable before an equals sign.  A SET
\* without that sign is about the character set, and has neither of two words if it is
\* not.  An equals sign behind nothing but these words sets the character set, or a
\* variable the server does not know.
WordsOf(s) == {Lower(s.text)[i] : i \in {i \in DOMAIN s.text : Code(s.text, i)}}
Assigns(s, i) ==
  /\ Code(s.text, i) /\ s.text[i] = "="
  /\ \E j \in 1 .. i - 1 :
       Word(s.text, j) /\ Lower(s.text)[j] \notin {"set", "character_set_results"}
TableWords == {"from", "table", "of", "next", "nextval", "lastval", "setval"}
GrammarContract(s) ==
  TreeIsTrue(s) =>
  /\ s.type \in {"Select", "Values"} =>
       /\ (\E n \in Nodes(s) : n.type = "TableName") => WordsOf(s) \cap TableWords # {}
       /\ Len(s.fields) # 1 => WordsOf(s) \cap {",", "table", "values"} # {}
  /\ s.type = "Use" => s.sets \subseteq {s.schema}
  /\ s.type = "Set" =>
       \/ s.sets \subseteq {"charset"}
       \/ \E i \in DOMAIN s.text : Assigns(s, i)
       \/ \A i \in DOMAIN s.text :
            Word(s.text, i) => Lower(s.text)[i] \notin {"names", "character_set_results"}

OriginOf(field) == [schema |-> field.schema, table |-> field.table, column |-> field.column]
HasOrigin(field) == NoName \notin {field.schema, field.table, field.column}

\* The items of a SELECT list that read no column.
ReadsNothing(s, e) ==
  \/ e.type = "Value"
  \/ e.type = "FuncCall" /\ e.plain /\ e.name \in SafeBuiltins
  \/ e.type = "Variable" /\ e.plain /\ e.name \in OperationalVariables
  \/ e.type = "Aggregate" /\ e.at \in s.countStars

\* The upstream gives a field an origin if it is that column and nothing else, and
\* the SELECT list of a true tree without wildcard one field per item.
UpstreamContract(s) ==
  /\ Len(s.reads) = Len(s.result)
  /\ \A i \in DOMAIN s.result :
       HasOrigin(s.result[i]) => s.reads[i] = {OriginOf(s.result[i])}
  /\ TreeIsTrue(s) /\ Len(s.fields) = Len(s.result)
       /\ (\A i \in DOMAIN s.fields : s.fields[i].type # "Wildcard") =>
       \A i \in DOMAIN s.fields : ReadsNothing(s, s.fields[i]) => s.reads[i] = {}

ASSUME InputAssumption ==
  \A input \in Inputs :
    /\ input.config \in Config
    /\ input.statement \in Statement
    /\ ParserContract(input.statement)
    /\ TextContract(input.statement)
    /\ input.statement.parsed = 1 => GrammarContract(input.statement)
    /\ UpstreamContract(input.statement)

NoDecision == Reject("none")

\* Mutant: one fact of the SELECT list is enough, wherever the field is.
PassthroughAnywhere(d, fields, i) ==
  /\ {fields[i].schema, fields[i].table, fields[i].column} = {NoName}
  /\ \E k \in DOMAIN d.contexts : d.contexts[k] \in {"safe_builtin", "count_star", "literal"}

\* An origin-free field keeps its value if the SELECT list says it is harmless there.
Passthrough(d, fields, i) ==
  /\ Len(d.contexts) = Len(fields)
  /\ {fields[i].schema, fields[i].table, fields[i].column} = {NoName}
  /\ \/ d.contexts[i] \in {"safe_builtin", "count_star"}
     \/ d.kind = "allow_operational_read" /\ d.contexts[i] = "literal"

MaskRow(policy, d, fields) ==
  [i \in DOMAIN fields |->
     IF Passthrough(d, fields, i) THEN fields[i].value
     ELSE Mask(policy, fields[i], fields[i].value)]

Init ==
  /\ \E input \in Inputs : config = input.config /\ statement = input.statement
  /\ stage = "received"
  /\ decision = NoDecision
  /\ shown = <<>>
  /\ logged = <<>>

Decide ==
  /\ stage = "received"
  /\ decision' = Classify(config, statement)
  /\ stage' = "decided"
  /\ UNCHANGED <<config, statement, shown, logged>>

\* A rejected statement is not executed.
Execute ==
  /\ stage = "decided"
  /\ decision.kind # "reject"
  /\ shown' = MaskRow(NewPolicy(config), decision, statement.result)
  /\ stage' = "answered"
  /\ UNCHANGED <<config, statement, decision, logged>>

Audit ==
  /\ \/ stage = "answered"
     \/ stage = "decided" /\ decision.kind = "reject"
  /\ logged' = NormalizeStatement(statement.text)
  /\ stage' = "audited"
  /\ UNCHANGED <<config, statement, decision, shown>>

Next == Decide \/ Execute \/ Audit

Spec == Init /\ [][Next]_vars

-----------------------------------------------------------------------------
(* Properties. *)

\* A statement allowed as a read has no comment the server would execute, unless one
\* hides behind a comment of two dashes that the scanners do not see; and nothing unsafe
\* anywhere in the statement the server executes, although the visitor skips what is
\* below a function and goes by the text for COUNT(*): no function, no aggregate but
\* COUNT(*), no lock, no INTO, no system schema (selectSafetyVisitor,
\* isAllowedCountAggregate).
ReadIsHarmless ==
  decision.kind = "allow_read" =>
    /\ statement.parsed = 1
    /\ DashesSpaced(statement.text) => ~ statement.executable
    /\ TreeIsTrue(statement) =>
         \A n \in Nodes(statement) :
           /\ ~ UnsafeRead(n)
           /\ n.type \notin {"FuncCall", "Window"}
           /\ n.type = "Aggregate" => n.at \in statement.countStars

\* What is let through by its text alone is harmless: a startup probe reads no table
\* and has one item; setup changes the session's character set and nothing else, or its
\* schema to an allowed one (isOperationalRead, scanSQL, classifySet, classifyUseName).
ProbeAndSetupAreHarmless ==
  decision.kind \in {"allow_operational_read", "allow_setup"} =>
    /\ statement.parsed = 1
    /\ DashesSpaced(statement.text) => ~ statement.executable
    /\ TreeIsTrue(statement) /\ decision.kind = "allow_operational_read" =>
         /\ Len(statement.fields) = 1
         /\ \A n \in Nodes(statement) : n.type # "TableName"
    /\ TreeIsTrue(statement) /\ decision.kind = "allow_setup" =>
         \E one \in {"charset"} \cup config.allowedSchemas : statement.sets \subseteq {one}

\* What the scanners make of a text, against what it is: a call they take for COUNT(*) is
\* one, in every text without executable comments.  That they see every COUNT(*), and
\* whether the statement is terminated, takes comments that are closed and begin as
\* isDashDashComment knows them, and white space isSpaceByte knows.  After an executable
\* comment they may lose their way, but the normalized text still has it, so that the
\* statement is rejected, again if the comments begin as they know them
\* (hasTrailingStatementTerminator, compactSQLCallAt, scanSQL).
ScannersAgree ==
  LET text == statement.text
      plain == DashesSpaced(text) /\ BlanksKnown(text) IN
  /\ statement.executable /\ DashesSpaced(text) => HasExecutableComment(Normalize(text))
  /\ TreeIsTrue(statement) =>
       /\ plain /\ Closed(text) =>
            HasTrailingStatementTerminator(text) = statement.terminated
       /\ \A n \in Nodes(statement) :
            n.type = "Aggregate" =>
              /\ IsAllowedCountAggregate(text, n) => n.at \in statement.countStars
              /\ plain /\ n.at \in statement.countStars => IsAllowedCountAggregate(text, n)

SameName(a, b) == Lower(a) = Lower(b)

\* The configuration, read as it is written.
Permitted(column) ==
  \/ \E r \in Rules(config) :
       /\ SameName(r.schema, column.schema) /\ SameName(r.table, column.table)
       /\ r.allColumns \/ \E c \in r.columns : SameName(c, column.column)
  \/ \E c \in config.globalColumns \cup config.allowColumnNames : SameName(c, column.column)

\* The rules are looked up by schema.table, which names one table only if no schema's
\* name has a dot in it.
Undotted ==
  /\ \A r \in Rules(config) : \A k \in DOMAIN r.schema : r.schema[k] # "."
  /\ \A i \in DOMAIN statement.result : \A k \in DOMAIN statement.result[i].schema :
       statement.result[i].schema[k] # "."

\* A value is shown as it is only if every column it was computed from may be shown,
\* whatever expression, alias or wildcard the SELECT list has; and a column that may
\* be shown is (expressionAllowsPassthrough, StaticPolicy.Mask).  Of a field without
\* origin only the SELECT list tells, so that it has to be the one the server executes.
ShownIfPermitted ==
  \A i \in DOMAIN shown :
    LET field == statement.result[i] IN
    /\ shown[i] = "raw" /\ (HasOrigin(field) \/ TreeIsTrue(statement)) =>
         \A column \in statement.reads[i] : Permitted(column)
    /\ field.value = "raw" /\ HasOrigin(field) =>
         (shown[i] = "raw" <=> Permitted(field))
    /\ shown[i] = "null" <=> field.value = "null"

\* product-specs/mysql-masking-proxy.md:237 - string literals, numeric literals and
\* comments must not be written to audit logs (NormalizeStatement).
LiteralsRedacted ==
  \A i \in DOMAIN logged :
    /\ logged[i] \notin Digits
    /\ \/ logged[i] \in {"?", " "}
       \/ \E j \in DOMAIN statement.text :
            logged[i] = statement.text[j] /\ ~ InLiteral(statement.text, j)

\* Nothing reaches the audit log but what stands outside of strings, numbers and
\* comments, however quotes, escapes and comments nest, if comments of two dashes begin
\* as isDashDashComment knows them, no quoted identifier and no executable comment
\* contains a quote or a comment, and the last comment is closed (NormalizeStatement).
NothingSecretLogged == Regular(statement.text) => LiteralsRedacted

=============================================================================
