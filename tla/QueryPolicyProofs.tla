------------------------- MODULE QueryPolicyProofs --------------------------
(***************************************************************************)
(* What the policies promise of any statement, any tree and any rules.     *)
(***************************************************************************)
EXTENDS QueryPolicy, SQLTextProofs

\* What each step leaves behind for the next: the decision is that of Classify, the row
\* shown and the text logged are those of the statement.
PolicyInv ==
  /\ \E input \in Inputs : config = input.config /\ statement = input.statement
  /\ decision = IF stage = "received" THEN NoDecision ELSE Classify(config, statement)
  /\ stage = "received" => shown = <<>> /\ logged = <<>>
  /\ shown # <<>> => decision.kind # "reject" /\ shown = MaskRow(NewPolicy(config), decision, statement.result)
  /\ logged # <<>> => logged = NormalizeStatement(statement.text)

LEMMA PolicyInvHolds == Spec => []PolicyInv
<1>1. Init => PolicyInv
  BY DEF Init, PolicyInv
<1>2. PolicyInv /\ [Next]_vars => PolicyInv'
  <2> SUFFICES ASSUME PolicyInv, [Next]_vars PROVE PolicyInv'
    OBVIOUS
  <2>1. CASE Decide
    BY <2>1 DEF PolicyInv, Decide
  <2>2. CASE Execute
    BY <2>2 DEF PolicyInv, Execute
  <2>3. CASE Audit
    BY <2>3 DEF PolicyInv, Audit
  <2>4. CASE UNCHANGED vars
    BY <2>4 DEF PolicyInv, vars
  <2> QED
    BY <2>1, <2>2, <2>3, <2>4 DEF Next
<1> QED
  BY <1>1, <1>2, PTL DEF Spec

-----------------------------------------------------------------------------
(* The scanners and the parser. *)

\* Where the parser reads as the server does, a call that is taken for COUNT(*) is one,
\* whatever comments, quotes and blanks there are.  The scanners also find every COUNT(*)
\* and the semicolon at the end, if comments are closed, those of two dashes begin with
\* white space that isSpaceByte knows, and no other white space stands between the words;
\* and so with the executable comments (hasTrailingStatementTerminator, compactSQLCallAt,
\* scanSQL).
THEOREM ScannersAlwaysAgree == Spec => []ScannersAgree
<1>1. ASSUME PolicyInv PROVE ScannersAgree
  <2> DEFINE text == statement.text
             plain == DashesSpaced(text) /\ BlanksKnown(text)
  <2>1. statement \in Statement /\ TextContract(statement)
    BY <1>1, InputAssumption DEF PolicyInv
  <2>2. text \in Seq(STRING) /\ statement.terminated \in BOOLEAN
    BY <2>1 DEF Statement
  <2>3. ASSUME statement.executable, DashesSpaced(text)
        PROVE  HasExecutableComment(Normalize(text))
    <3>1. HasExecutable(text)
      BY <2>1, <2>3 DEF TextContract
    <3> QED
      BY <2>2, <2>3, <3>1, ExecutableIsKept DEF HasExecutableComment
  <2>4. ASSUME TreeIsTrue(statement) PROVE ~ HasExecutable(text)
    BY <2>1, <2>4 DEF TextContract, TreeIsTrue
  <2>5. ASSUME TreeIsTrue(statement), plain, Closed(text)
        PROVE  HasTrailingStatementTerminator(text) = statement.terminated
    <3>1. AsScanned(text)
      BY <2>4, <2>5 DEF AsScanned
    <3>2. HasTrailingStatementTerminator(text) <=> Terminated(text)
      BY <2>2, <2>5, <3>1, TerminatorIsFound
    <3>3. statement.terminated <=> Terminated(text)
      BY <2>1, <2>5 DEF TextContract
    <3>4. HasTrailingStatementTerminator(text) \in BOOLEAN
      BY DEF HasTrailingStatementTerminator
    <3> QED
      BY <2>2, <3>2, <3>3, <3>4
  <2>6. ASSUME TreeIsTrue(statement), NEW n \in Nodes(statement), n.type = "Aggregate"
        PROVE  /\ IsAllowedCountAggregate(text, n) => n.at \in statement.countStars
               /\ plain /\ n.at \in statement.countStars => IsAllowedCountAggregate(text, n)
    <3>1. /\ n.at \in DOMAIN text /\ Modes(text)[n.at] = "code" /\ ~ Blank(text, n.at)
          /\ n.at \in statement.countStars <=> IsCountStar(text, n.at)
          /\ n.at \in statement.countStars => n.name = "count" /\ n.plain
      BY <2>1, <2>6 DEF TextContract
    <3>2. n.at \in 1 .. Len(text)
      BY <2>2, <3>1
    <3>3. plain => AsScanned(text)
      BY <2>4, <2>6 DEF AsScanned
    <3>4. /\ CompactSQLCallAt(text, n.at) = CountStarText => IsCountStar(text, n.at)
          /\ plain /\ IsCountStar(text, n.at) => CompactSQLCallAt(text, n.at) = CountStarText
      BY <2>2, <2>4, <2>6, <3>1, <3>2, <3>3, CountStarIsRecognized
    <3> QED
      BY <3>1, <3>4 DEF IsAllowedCountAggregate, CountStarText
  <2> QED
    BY <2>3, <2>5, <2>6 DEF ScannersAgree
<1> QED
  BY <1>1, PolicyInvHolds, PTL

-----------------------------------------------------------------------------
(* Reads: the visitor skips what is below a function, but nothing harmful  *)
(* can be there.                                                           *)

\* The text the decision is made from.
DecisiveText(s) ==
  IF HasTrailingStatementTerminator(s.text)
    THEN TrimStatementTerminator(Lower(Normalize(s.text))) ELSE Lower(Normalize(s.text))

\* A statement that is not rejected was parsed as one, without executable comment.
LEMMA AllowedOnce ==
  ASSUME NEW c, NEW s, s.parsed \in Nat, Classify(c, s).kind # "reject"
  PROVE  /\ ~ HasExecutableComment(Normalize(s.text))
         /\ s.parsed = 1
         /\ \/ s.type = "Set" /\ Classify(c, s) = ClassifySet(c, DecisiveText(s))
            \/ s.type = "Use" /\ Classify(c, s) = ClassifyUse(c, s.schema)
            \/ /\ s.type \in {"Select", "Values"}
               /\ Classify(c, s) = ClassifySelect(s, DecisiveText(s))
<1> DEFINE normalized == Normalize(s.text)
           lower == DecisiveText(s)
<1>1. \A reason : Reject(reason).kind = "reject"
  BY DEF Reject, Decision
<1>2. Classify(c, s) =
        IF normalized = <<>> THEN Reject("empty_statement")
        ELSE IF HasExecutableComment(normalized) THEN Reject("executable_comment")
        ELSE IF s.parsed = 0 THEN Reject("parse_error")
        ELSE IF s.parsed > 1 THEN Reject("multiple_statements")
        ELSE CASE s.type = "Set" -> ClassifySet(c, lower)
               [] s.type = "Use" -> ClassifyUse(c, s.schema)
               [] s.type \in {"Select", "Values"} -> ClassifySelect(s, lower)
               [] OTHER -> Reject("unsupported_statement")
  BY DEF Classify, DecisiveText
<1> HIDE DEF lower, normalized
<1>3. ~ HasExecutableComment(normalized) /\ s.parsed = 1
  BY <1>1, <1>2
<1>4. \/ s.type = "Set" /\ Classify(c, s) = ClassifySet(c, lower)
      \/ s.type = "Use" /\ Classify(c, s) = ClassifyUse(c, s.schema)
      \/ s.type \in {"Select", "Values"} /\ Classify(c, s) = ClassifySelect(s, lower)
  BY <1>1, <1>2
<1> QED
  BY <1>3, <1>4 DEF normalized, lower

LEMMA AllowedContexts ==
  ASSUME NEW c, NEW s, s.parsed \in Nat, Classify(c, s).kind # "reject"
  PROVE  Classify(c, s).contexts \in {<<>>, ExpressionContexts(s)}
BY AllowedOnce DEF ClassifySet, ClassifyUse, ClassifySelect, Reject, Decision

LEMMA AllowedRead ==
  ASSUME NEW c, NEW s, s.parsed \in Nat, Classify(c, s).kind = "allow_read"
  PROVE  \A n \in Entered(s) : ~ UnsafeRead(n) /\ ~ DisallowedFunction(s.text, n)
<1> DEFINE lower == DecisiveText(s)
<1>1. Classify(c, s) \in {ClassifySet(c, lower), ClassifyUse(c, s.schema),
                          ClassifySelect(s, lower)}
  BY AllowedOnce
<1>2. ClassifySelect(s, lower).kind = "allow_read"
  BY <1>1 DEF ClassifySet, ClassifyUse, Reject, Decision
<1> QED
  BY <1>2 DEF ClassifySelect, Reject, Decision

\* A node is entered, or it is below a function that is entered.
LEMMA EnteredOrBelow ==
  ASSUME NEW s, s \in Statement, ParserContract(s), NEW b \in s.branches
  PROVE  \/ b[Len(b)] \in Entered(s)
         \/ \E k \in 1 .. Len(b) - 1 : b[k] \in Entered(s) /\ Skips(b[k])
<1> DEFINE Skipping == {k \in 1 .. Len(b) - 1 : Skips(b[k])}
<1>1. b \in Seq(Node) /\ Len(b) \in Nat
  BY DEF Statement
<1>2. CASE Skipping = {}
  BY <1>2 DEF Entered
<1>3. CASE Skipping # {}
  <2>0. Skipping \subseteq Nat
    BY <1>1
  <2>1. PICK k \in Skipping : \A j \in Skipping : k <= j
    <3> HIDE DEF Skipping
    <3> QED
      BY <1>3, <2>0, LeastNumber
  <2> DEFINE top == SubSeq(b, 1, k)
  <2>2. top \in s.branches
    BY <1>1 DEF ParserContract
  <2>3. Len(top) = k /\ \A j \in 1 .. k : top[j] = b[j]
    BY <1>1
  <2>4. \A j \in 1 .. Len(top) - 1 : ~ Skips(top[j])
    BY <1>1, <2>1, <2>3
  <2>5. top[Len(top)] \in Entered(s)
    <3> HIDE DEF top
    <3> QED
      BY <2>2, <2>4 DEF Entered
  <2> QED
    BY <2>1, <2>3, <2>5
<1> QED
  BY <1>2, <1>3

\* A statement that is allowed as a read has no executable comment, if comments of two
\* dashes begin as the scanners know them; and where the parser reads as the server does,
\* nothing harmful anywhere in its tree, whatever the tree (selectSafetyVisitor.Enter).
THEOREM ReadsAreHarmless == Spec => []ReadIsHarmless
<1>1. ASSUME PolicyInv, ScannersAgree PROVE ReadIsHarmless
  <2> SUFFICES ASSUME decision.kind = "allow_read"
               PROVE  /\ statement.parsed = 1
                      /\ DashesSpaced(statement.text) => ~ statement.executable
                      /\ TreeIsTrue(statement) =>
                           \A n \in Nodes(statement) :
                             /\ ~ UnsafeRead(n)
                             /\ n.type \notin {"FuncCall", "Window"}
                             /\ n.type = "Aggregate" => n.at \in statement.countStars
    BY DEF ReadIsHarmless
  <2>1. statement \in Statement /\ ParserContract(statement)
    BY <1>1, InputAssumption DEF PolicyInv
  <2>2. decision = Classify(config, statement)
    BY <1>1 DEF PolicyInv, NoDecision, Reject, Decision
  <2>3. statement.parsed \in Nat
    BY <2>1 DEF Statement
  <2>4. statement.parsed = 1 /\ (DashesSpaced(statement.text) => ~ statement.executable)
    BY <1>1, <2>2, <2>3, AllowedOnce DEF ScannersAgree
  <2>5. \A n \in Entered(statement) :
          ~ UnsafeRead(n) /\ ~ DisallowedFunction(statement.text, n)
    BY <2>2, <2>3, AllowedRead
  <2>6. \A n \in Entered(statement) : n \in Nodes(statement)
    BY DEF Entered, Nodes
  <2> SUFFICES ASSUME TreeIsTrue(statement)
               PROVE  \A n \in Nodes(statement) :
                        /\ ~ UnsafeRead(n)
                        /\ n.type \notin {"FuncCall", "Window"}
                        /\ n.type = "Aggregate" => n.at \in statement.countStars
    BY <2>4
  <2>7. \A n \in Entered(statement) :
          /\ n.type \notin {"FuncCall", "Window"}
          /\ n.type = "Aggregate" => n.at \in statement.countStars
    BY <1>1, <2>5, <2>6 DEF DisallowedFunction, ScannersAgree
  <2>8. ASSUME NEW b \in statement.branches, NEW k \in 1 .. Len(b) - 1,
               b[k] \in Entered(statement), Skips(b[k])
        PROVE  b[Len(b)].type = "Value"
    <3>1. b[k].type = "Aggregate" /\ b[k].at \in statement.countStars
      BY <2>7, <2>8 DEF Skips
    <3>2. b \in Seq(Node) /\ k \in DOMAIN b /\ Len(b) \in DOMAIN b /\ k < Len(b)
      BY <2>1, <2>8 DEF Statement
    <3> QED
      BY <2>1, <2>8, <3>1, <3>2 DEF ParserContract
  <2>9. ASSUME NEW b \in statement.branches
        PROVE  b[Len(b)] \in Entered(statement) \/ b[Len(b)].type = "Value"
    BY <2>1, <2>8, EnteredOrBelow
  <2> QED
    BY <2>5, <2>7, <2>9 DEF Nodes, UnsafeRead
<1> QED
  BY <1>1, PolicyInvHolds, ScannersAlwaysAgree, PTL

-----------------------------------------------------------------------------
(* Values: the rule tables say what the rules say.                         *)

LEMMA LowerKeepsBytes ==
  ASSUME NEW s \in Name
  PROVE  /\ Lower(s) \in Name
         /\ Len(Lower(s)) = Len(s)
         /\ \A i \in 1 .. Len(s) : Lower(s)[i] = "." <=> s[i] = "."
<1>1. "." \notin Letters
  BY TextAssumption DEF Bytes
<1>2. \A i \in 1 .. Len(s) : s[i] \in Letters => LowerCase[s[i]] \in Letters
  BY TextAssumption
<1>3. s \in Seq(STRING) /\ Len(s) \in Nat /\ DOMAIN s = 1 .. Len(s)
  BY DEF Name
<1>4. \A i \in 1 .. Len(s) : s[i] \in STRING
  BY <1>3
<1>5. Letters \subseteq STRING
  BY TextAssumption
<1> DEFINE low == [i \in 1 .. Len(s) |-> IF s[i] \in Letters THEN LowerCase[s[i]] ELSE s[i]]
<1>6. Lower(s) = low
  BY <1>3 DEF Lower
<1>7. \A i \in 1 .. Len(s) : low[i] \in STRING /\ (low[i] = "." <=> s[i] = ".")
  BY <1>1, <1>2, <1>4, <1>5
<1>8. low \in Seq(STRING) /\ Len(low) = Len(s)
  <2>1. low \in [1 .. Len(s) -> STRING]
    BY <1>7
  <2> HIDE DEF low
  <2> QED
    BY <1>3, <2>1
<1> QED
  BY <1>6, <1>7, <1>8 DEF Name

\* With no dot in the schemas, equal keys are equal names.
LEMMA KeyNamesTable ==
  ASSUME NEW a \in Name, NEW b \in Name, NEW c \in Name, NEW d \in Name,
         \A k \in DOMAIN a : a[k] # ".", \A k \in DOMAIN c : c[k] # "."
  PROVE  OriginKey(a, b) = OriginKey(c, d) <=> SameName(a, c) /\ SameName(b, d)
<1> DEFINE A == Lower(a)  B == Lower(b)  C == Lower(c)  D == Lower(d)
<1>1. /\ A \in Seq(STRING) /\ B \in Seq(STRING) /\ C \in Seq(STRING) /\ D \in Seq(STRING)
      /\ \A k \in 1 .. Len(A) : A[k] # "."
      /\ \A k \in 1 .. Len(C) : C[k] # "."
  BY LowerKeepsBytes DEF Name
<1> HIDE DEF A, B, C, D
<1>2. ASSUME A \o <<".">> \o B = C \o <<".">> \o D PROVE A = C /\ B = D
  <2> DEFINE left == A \o <<".">> \o B
             right == C \o <<".">> \o D
  <2>1. /\ Len(left) = Len(A) + 1 + Len(B)
        /\ \A k \in 1 .. Len(A) : left[k] = A[k]
        /\ left[Len(A) + 1] = "."
        /\ \A k \in 1 .. Len(B) : left[Len(A) + 1 + k] = B[k]
    BY <1>1
  <2>2. /\ Len(right) = Len(C) + 1 + Len(D)
        /\ \A k \in 1 .. Len(C) : right[k] = C[k]
        /\ right[Len(C) + 1] = "."
        /\ \A k \in 1 .. Len(D) : right[Len(C) + 1 + k] = D[k]
    BY <1>1
  <2>3. left = right
    BY <1>2
  <2>4. Len(A) \in Nat /\ Len(B) \in Nat /\ Len(C) \in Nat /\ Len(D) \in Nat
    BY <1>1
  <2> HIDE DEF left, right
  <2>5. ~ (Len(A) < Len(C)) /\ ~ (Len(C) < Len(A))
    <3>1. CASE Len(A) < Len(C)
      <4>1. Len(A) + 1 \in 1 .. Len(C)
        BY <2>4, <3>1
      <4> QED
        BY <1>1, <2>1, <2>2, <2>3, <4>1
    <3>2. CASE Len(C) < Len(A)
      <4>1. Len(C) + 1 \in 1 .. Len(A)
        BY <2>4, <3>2
      <4> QED
        BY <1>1, <2>1, <2>2, <2>3, <4>1
    <3> QED
      BY <3>1, <3>2
  <2>6. Len(A) = Len(C) /\ Len(B) = Len(D)
    BY <2>1, <2>2, <2>3, <2>4, <2>5
  <2>7. \A k \in 1 .. Len(A) : A[k] = C[k]
    BY <2>1, <2>2, <2>3, <2>6
  <2>8. \A k \in 1 .. Len(B) : B[k] = D[k]
    BY <2>1, <2>2, <2>3, <2>6
  <2>9. ASSUME NEW x \in Seq(STRING), NEW y \in Seq(STRING), Len(x) = Len(y),
               \A k \in 1 .. Len(x) : x[k] = y[k]
        PROVE  x = y
    BY <2>9
  <2>10. A = C
    BY <1>1, <2>6, <2>7, <2>9
  <2>11. B = D
    BY <1>1, <2>6, <2>8, <2>9
  <2> QED
    BY <2>10, <2>11
<1> QED
  BY <1>2 DEF OriginKey, SameName, A, B, C, D

\* Masking keeps NULL and what is allowed, and nothing else stays as it was.
LEMMA MaskKeeps ==
  ASSUME NEW policy, NEW f, NEW value \in {"null", "raw"}
  PROVE  /\ Mask(policy, f, value) = "raw" <=> value = "raw" /\ Allowed(policy, f)
         /\ Mask(policy, f, value) = "null" <=> value = "null"
<1>1. MaskingTypeFamily(f.type, f.binary) \in DOMAIN MaskOf
  BY DEF MaskingTypeFamily, MaskOf
<1>2. /\ MaskOf["numeric"] = "0" /\ MaskOf["date"] = "0000-00-00"
      /\ MaskOf["time"] = "00:00:00" /\ MaskOf["timestamp"] = "0000-00-00 00:00:00"
      /\ MaskOf["binary"] = "" /\ MaskOf["text"] = "***MASKED***"
      /\ DOMAIN MaskOf = {"numeric", "date", "time", "timestamp", "binary", "text"}
  BY DEF MaskOf
<1>3. \A family \in DOMAIN MaskOf : MaskOf[family] \notin {"raw", "null"}
  BY <1>2
<1> QED
  BY <1>1, <1>3 DEF Mask

\* The rule tables allow a field with an origin exactly if the rules do.
LEMMA TablesSayWhatRulesSay ==
  ASSUME NEW f \in Field, config \in Config, HasOrigin(f),
         \A k \in DOMAIN f.schema : f.schema[k] # ".",
         \A r \in Rules(config) : \A k \in DOMAIN r.schema : r.schema[k] # "."
  PROVE  Allowed(NewPolicy(config), f) <=> Permitted(f)
<1> DEFINE policy == NewPolicy(config)
           key == OriginKey(f.schema, f.table)
<1>1. \A r \in Rules(config) : r \in Rule
  BY DEF Rules, Config, Rule
<1>2. f.schema \in Name /\ f.table \in Name /\ f.column \in Name
  BY DEF Field
<1>3. \A r \in Rules(config) :
        OriginKey(r.schema, r.table) = key
          <=> SameName(r.schema, f.schema) /\ SameName(r.table, f.table)
  BY <1>1, <1>2, KeyNamesTable DEF Rule
<1>4. key \in policy.tableAll
        <=> \E r \in Rules(config) : OriginKey(r.schema, r.table) = key /\ r.allColumns
  BY DEF NewPolicy
<1>5. <<key, Lower(f.column)>> \in policy.tableColumns
        <=> \E r \in Rules(config) : /\ OriginKey(r.schema, r.table) = key
                                     /\ \E c \in r.columns : Lower(c) = Lower(f.column)
  BY DEF NewPolicy
<1>6. Lower(f.column) \in policy.globalColumns
        <=> \E c \in config.globalColumns \cup config.allowColumnNames :
              Lower(c) = Lower(f.column)
  BY DEF NewPolicy
<1>7. Allowed(policy, f) <=> \/ key \in policy.tableAll
                             \/ <<key, Lower(f.column)>> \in policy.tableColumns
                             \/ Lower(f.column) \in policy.globalColumns
  BY DEF Allowed, HasOrigin
<1> HIDE DEF policy, key
<1> QED
  BY <1>3, <1>4, <1>5, <1>6, <1>7 DEF Permitted, SameName, policy

\* An item of the SELECT list lets an origin-free field through only if it reads nothing.
LEMMA PassedReadsNothing ==
  ASSUME NEW d, NEW s \in Statement, ParserContract(s), UpstreamContract(s),
         d.contexts \in {<<>>, ExpressionContexts(s)},
         TreeIsTrue(s),
         \A n \in Nodes(s) : n.type = "Aggregate" =>
           (IsAllowedCountAggregate(s.text, n) => n.at \in s.countStars),
         NEW i \in DOMAIN s.result, Passthrough(d, s.result, i)
  PROVE  s.reads[i] = {}
<1>1. Len(d.contexts) = Len(s.result) /\ i \in 1 .. Len(s.result)
  BY DEF Passthrough, Statement
<1>2. d.contexts = ExpressionContexts(s) /\ d.contexts # <<>>
  BY <1>1 DEF Statement
<1>3. \A k \in DOMAIN s.fields : s.fields[k].type # "Wildcard"
  BY <1>2 DEF ExpressionContexts
<1>4. d.contexts = [k \in DOMAIN s.fields |-> ExpressionContext(s.text, s.fields[k])]
  BY <1>2, <1>3 DEF ExpressionContexts
<1>5. Len(s.fields) = Len(s.result) /\ i \in DOMAIN s.fields
  BY <1>1, <1>4 DEF Statement
<1>6. ExpressionContext(s.text, s.fields[i]) \in {"safe_builtin", "count_star", "literal"}
  BY <1>4, <1>5 DEF Passthrough
<1>7. s.fields[i] \in Nodes(s)
  BY <1>5 DEF ParserContract
<1>8. ReadsNothing(s, s.fields[i])
  BY <1>6, <1>7 DEF ExpressionContext, ReadsNothing
<1> QED
  BY <1>3, <1>5, <1>8 DEF UpstreamContract

\* Whatever rules and results, if no schema's name has a dot in it: a field that the
\* upstream gives an origin is shown as it is only if it is permitted, and one without
\* origin only if all columns it was computed from are, where the tree is that of the
\* statement the server executes; and a permitted column is shown (maskRow, NewPolicy,
\* StaticPolicy.Mask).
THEOREM ValuesAreShownIfPermitted == Spec => [](Undotted => ShownIfPermitted)
<1>1. ASSUME PolicyInv, ScannersAgree, Undotted PROVE ShownIfPermitted
  <2> SUFFICES ASSUME shown # <<>>, NEW i \in DOMAIN shown
               PROVE  LET field == statement.result[i] IN
                      /\ shown[i] = "raw" /\ (HasOrigin(field) \/ TreeIsTrue(statement)) =>
                           \A column \in statement.reads[i] : Permitted(column)
                      /\ field.value = "raw" /\ HasOrigin(field) =>
                           (shown[i] = "raw" <=> Permitted(field))
                      /\ shown[i] = "null" <=> field.value = "null"
    BY DEF ShownIfPermitted
  <2> DEFINE field == statement.result[i]
             policy == NewPolicy(config)
  <2>1. /\ statement \in Statement /\ config \in Config
        /\ ParserContract(statement) /\ UpstreamContract(statement)
    BY <1>1, InputAssumption DEF PolicyInv
  <2>2. decision = Classify(config, statement) /\ decision.kind # "reject"
    BY <1>1 DEF PolicyInv, NoDecision, Reject, Decision
  <2>3. shown = MaskRow(policy, decision, statement.result)
    BY <1>1 DEF PolicyInv
  <2>4. /\ i \in DOMAIN statement.result
        /\ shown[i] = IF Passthrough(decision, statement.result, i) THEN field.value
                      ELSE Mask(policy, field, field.value)
    BY <2>3 DEF MaskRow
  <2>5. field \in Field /\ field.value \in {"null", "raw"}
    <3>1. statement.result \in Seq(Field)
      BY <2>1 DEF Statement
    <3>2. field \in Field
      BY <2>4, <3>1
    <3> QED
      BY <3>2 DEF Field
  <2>6. statement.parsed \in Nat
    BY <2>1 DEF Statement
  <2>7. TreeIsTrue(statement) => \A n \in Nodes(statement) : n.type = "Aggregate" =>
          (IsAllowedCountAggregate(statement.text, n) => n.at \in statement.countStars)
    BY <1>1 DEF ScannersAgree
  <2>8. TreeIsTrue(statement) /\ Passthrough(decision, statement.result, i) =>
          statement.reads[i] = {}
    BY <2>1, <2>2, <2>4, <2>6, <2>7, AllowedContexts, PassedReadsNothing
  <2>9. HasOrigin(field) => ~ Passthrough(decision, statement.result, i)
    BY DEF HasOrigin, Passthrough
  <2>10. HasOrigin(field) => (Allowed(policy, field) <=> Permitted(field))
    BY <1>1, <2>1, <2>4, <2>5, TablesSayWhatRulesSay DEF Undotted
  <2>11. Allowed(policy, field) => HasOrigin(field)
    BY DEF Allowed, HasOrigin
  <2>12. HasOrigin(field) => statement.reads[i] = {OriginOf(field)}
    BY <2>1, <2>4 DEF UpstreamContract
  <2>13. Permitted(OriginOf(field)) <=> Permitted(field)
    BY DEF Permitted, OriginOf
  <2> HIDE DEF field, policy
  <2>14. shown[i] = "null" <=> field.value = "null"
    BY <2>4, <2>5, MaskKeeps
  <2>15. field.value = "raw" /\ HasOrigin(field) => (shown[i] = "raw" <=> Permitted(field))
    BY <2>4, <2>5, <2>9, <2>10, MaskKeeps
  <2>16. shown[i] = "raw" /\ (HasOrigin(field) \/ TreeIsTrue(statement)) =>
           \A column \in statement.reads[i] : Permitted(column)
    <3>1. CASE Passthrough(decision, statement.result, i)
      BY <2>8, <2>9, <3>1
    <3>2. CASE ~ Passthrough(decision, statement.result, i)
      <4>1. shown[i] = "raw" => Allowed(policy, field)
        BY <2>4, <2>5, <3>2, MaskKeeps
      <4> QED
        BY <2>10, <2>11, <2>12, <2>13, <4>1
    <3> QED
      BY <3>1, <3>2
  <2> QED
    BY <2>14, <2>15, <2>16 DEF field
<1> QED
  BY <1>1, PolicyInvHolds, ScannersAlwaysAgree, PTL

-----------------------------------------------------------------------------
(* Probes and setup: the text alone decides, and it has every word that    *)
(* the tree has been made of.                                              *)

LEMMA LowerKeeps ==
  ASSUME NEW t \in Seq(STRING)
  PROVE  /\ Lower(t) \in Seq(STRING)
         /\ \A a : Occurs(t, a) => Occurs(Lower(t), LowerOf(a))
         /\ \A a, b : Follows(t, a, b) => Follows(Lower(t), LowerOf(a), LowerOf(b))
         /\ \A a : Occurs(Lower(t), a) => \E e : Occurs(t, e) /\ a = LowerOf(e)
<1>1. Lower(t) \in Seq(STRING)
  BY LowerKeepsBytes DEF Name
<1>2. DOMAIN Lower(t) = DOMAIN t /\ \A i \in DOMAIN t : Lower(t)[i] = LowerOf(t[i])
  BY DEF Lower, LowerOf
<1>3. \A a : Occurs(t, a) => Occurs(Lower(t), LowerOf(a))
  BY <1>2 DEF Occurs
<1>4. \A a, b : Follows(t, a, b) => Follows(Lower(t), LowerOf(a), LowerOf(b))
  BY <1>2 DEF Follows
<1>5. \A a : Occurs(Lower(t), a) => \E e : Occurs(t, e) /\ a = LowerOf(e)
  BY <1>2 DEF Occurs
<1> QED
  BY <1>1, <1>3, <1>4, <1>5

\* Bytes have no case, and no letter becomes one.
LEMMA LowerOfByte ==
  /\ \A e \in Bytes : LowerOf(e) = e
  /\ \A e : LowerOf(e) \in Bytes => e = LowerOf(e)
BY TextAssumption DEF LowerOf

LEMMA NormalizeGivesText ==
  ASSUME NEW t \in Seq(STRING)
  PROVE  Normalize(t) \in Seq(STRING)
<1>1. " " \in STRING
  BY TextAssumption DEF Bytes, AllSpaces, Spaces, VerticalTab
<1> QED
  BY <1>1, ScanSQLWrites, SqueezeAddsBlanks DEF Normalize

\* The text decided on is the normalized one, but for a semicolon and white space.
LEMMA DecisiveKeeps ==
  ASSUME NEW s, s.text \in Seq(STRING)
  PROVE  LET t == Lower(Normalize(s.text))
             low == DecisiveText(s) IN
         /\ low \in Seq(STRING)
         /\ \A a : Occurs(t, a) /\ a \notin AllSpaces \cup {";"} => Occurs(low, a)
         /\ \A a, b : Follows(t, a, b) /\ a \notin AllSpaces /\ b \notin AllSpaces \cup {";"} =>
              Follows(low, a, b)
         /\ \A a : Occurs(low, a) => Occurs(t, a)
<1> DEFINE t == Lower(Normalize(s.text))
           low == DecisiveText(s)
           one == TrimSpace(t)
           two == TrimSuffix(one, <<";">>)
           three == TrimSpace(two)
<1>1. t \in Seq(STRING)
  BY NormalizeGivesText, LowerKeeps
<1>2. low = t \/ low = three
  BY DEF DecisiveText, TrimStatementTerminator
<1>3. <<";">> \in Seq({";"}) /\ \A a : Occurs(<<";">>, a) => a = ";"
  BY OccursAlone, SequencesOf
<1> HIDE DEF low, t
<1>4. /\ one \in Seq(STRING)
      /\ \A a : Occurs(t, a) /\ a \notin AllSpaces => Occurs(one, a)
      /\ \A a, b : Follows(t, a, b) /\ a \notin AllSpaces /\ b \notin AllSpaces => Follows(one, a, b)
      /\ \A a : Occurs(one, a) => Occurs(t, a)
  BY <1>1, SpaceKeeps
<1> HIDE DEF one
<1>5. /\ two \in Seq(STRING)
      /\ \A a : Occurs(one, a) /\ a # ";" => Occurs(two, a)
      /\ \A a, b : Follows(one, a, b) /\ b # ";" => Follows(two, a, b)
      /\ \A a : Occurs(two, a) => Occurs(one, a)
  <2> DEFINE suffix == <<";">>
  <2>1. suffix \in Seq({";"}) /\ \A a : Occurs(suffix, a) => a = ";"
    BY <1>3
  <2>2. two = TrimSuffix(one, suffix)
    OBVIOUS
  <2> HIDE DEF suffix, two
  <2>3. /\ two \in Seq(STRING)
        /\ \A a : Occurs(one, a) /\ ~ Occurs(suffix, a) => Occurs(two, a)
        /\ \A a, b : Follows(one, a, b) /\ ~ Occurs(suffix, b) => Follows(two, a, b)
        /\ \A a : Occurs(two, a) => Occurs(one, a)
    BY <1>4, <2>1, <2>2, SuffixKeeps
  <2> QED
    BY <2>1, <2>3
<1> HIDE DEF two
<1>6. /\ three \in Seq(STRING)
      /\ \A a : Occurs(two, a) /\ a \notin AllSpaces => Occurs(three, a)
      /\ \A a, b : Follows(two, a, b) /\ a \notin AllSpaces /\ b \notin AllSpaces => Follows(three, a, b)
      /\ \A a : Occurs(three, a) => Occurs(two, a)
  BY <1>5, SpaceKeeps
<1> HIDE DEF three
<1>7. /\ \A a : Occurs(t, a) /\ a \notin AllSpaces \cup {";"} => Occurs(low, a)
      /\ \A a : Occurs(low, a) => Occurs(t, a)
  BY <1>2, <1>4, <1>5, <1>6
<1>8. \A a, b : Follows(t, a, b) /\ a \notin AllSpaces /\ b \notin AllSpaces \cup {";"} =>
        Follows(low, a, b)
  BY <1>2, <1>4, <1>5, <1>6
<1> QED
  BY <1>1, <1>2, <1>6, <1>7, <1>8 DEF low, t

\* A word outside of quotes is in the text decided on.
LEMMA WordIsDecidedOn ==
  ASSUME NEW s, s.text \in Seq(STRING), ~ HasExecutable(s.text), DashesSpaced(s.text),
         NEW w \in WordsOf(s),
         w \notin Quotes \cup {BackQuote} \cup AllSpaces \cup {";"}
  PROVE  Occurs(DecisiveText(s), w)
<1> DEFINE text == s.text
<1>0. DOMAIN text = 1 .. Len(text)
  BY SequenceIn
<1>1. PICK i \in 1 .. Len(text) : Code(text, i) /\ w = Lower(text)[i]
  BY <1>0 DEF WordsOf
<1>2. w = LowerOf(text[i])
  BY <1>0, <1>1 DEF Lower, LowerOf
<1>3. text[i] \notin Quotes \cup {BackQuote} \cup AllSpaces
  BY <1>2, LowerOfByte DEF Bytes
<1>4. Occurs(ScanSQL(text), text[i]) /\ ScanSQL(text) \in Seq(STRING)
  BY <1>1, <1>3, WordIsWritten, ScanSQLWrites
<1>5. Occurs(Normalize(text), text[i])
  BY <1>3, <1>4, SqueezeKeepsOne DEF Normalize
<1>6. Occurs(Lower(Normalize(text)), w)
  BY <1>2, <1>5, NormalizeGivesText, LowerKeeps
<1> QED
  BY <1>6, DecisiveKeeps

\* So is an equals sign, behind what is in front of it.
LEMMA AssignmentIsDecidedOn ==
  ASSUME NEW s, s.text \in Seq(STRING), ~ HasExecutable(s.text), DashesSpaced(s.text),
         NEW i \in DOMAIN s.text, Assigns(s, i)
  PROVE  \E a : /\ a \notin AllSpaces \cup {"set", "character_set_results"}
                /\ Follows(DecisiveText(s), a, "=")
<1> DEFINE text == s.text
<1>1. /\ i \in 1 .. Len(text) /\ Code(text, i) /\ text[i] = "="
      /\ text[i] \notin Quotes \cup {BackQuote}
  BY DEF Assigns, Quotes, BackQuote
<1>2. PICK j \in 1 .. i - 1 :
        Word(text, j) /\ Lower(text)[j] \notin {"set", "character_set_results"}
  BY DEF Assigns
<1>3. j \in DOMAIN text /\ Lower(text)[j] = LowerOf(text[j])
  <2>1. j \in DOMAIN text
    BY <1>1
  <2> QED
    BY <2>1 DEF Lower, LowerOf
<1>4. PICK a \in {text[j], "?"} : Follows(ScanSQL(text), a, "=")
  BY <1>1, <1>2, WordsKeepOrder
<1>5. a \notin AllSpaces /\ LowerOf(a) \notin {"set", "character_set_results"}
  <2>1. LowerOf("?") = "?" /\ "?" \notin AllSpaces
    BY LowerOfByte DEF Bytes, AllSpaces, Spaces, VerticalTab
  <2>2. text[j] \notin AllSpaces
    BY <1>2, SpacesAreAlike DEF Word
  <2> QED
    BY <1>2, <1>3, <2>1, <2>2
<1>6. "=" \notin AllSpaces /\ LowerOf("=") = "="
  BY LowerOfByte DEF Bytes, AllSpaces, Spaces, VerticalTab
<1>7. Follows(Normalize(text), a, "=")
  BY <1>4, <1>5, <1>6, ScanSQLWrites, SqueezeKeepsOrder DEF Normalize
<1>8. Follows(Lower(Normalize(text)), LowerOf(a), "=")
  BY <1>6, <1>7, NormalizeGivesText, LowerKeeps
<1>9. LowerOf(a) \notin AllSpaces
  BY <1>5, LowerOfByte DEF Bytes
<1>10. "=" \notin AllSpaces \cup {";"}
  BY DEF AllSpaces, Spaces, VerticalTab
<1>11. Follows(DecisiveText(s), LowerOf(a), "=")
  BY <1>8, <1>9, <1>10, DecisiveKeeps
<1> QED
  BY <1>5, <1>9, <1>11

\* Two dashes that the scanners do not take for a comment are decided on.
LEMMA DashIsDecidedOn ==
  ASSUME NEW s, s.text \in Seq(STRING), ~ HasExecutable(s.text), ~ DashesSpaced(s.text)
  PROVE  Occurs(DecisiveText(s), "-")
<1>1. Occurs(Normalize(s.text), "-")
  BY OddDashIsKept
<1>2. LowerOf("-") = "-"
  BY LowerOfByte DEF Bytes
<1>3. Occurs(Lower(Normalize(s.text)), "-")
  BY <1>1, <1>2, NormalizeGivesText, LowerKeeps
<1>4. "-" \notin AllSpaces \cup {";"}
  BY DEF AllSpaces, Spaces, VerticalTab
<1> QED
  BY <1>3, <1>4, DecisiveKeeps

\* What is decided on stands in the text, quoted or not.
LEMMA DecidedOnWords ==
  ASSUME NEW s, s.text \in Seq(STRING), ~ HasExecutable(s.text), DashesSpaced(s.text),
         Closed(s.text),
         NEW a, a \notin AllSpaces \cup {"?"}, Occurs(DecisiveText(s), a)
  PROVE  \E j \in DOMAIN s.text : Word(s.text, j) /\ Lower(s.text)[j] = a
<1> DEFINE text == s.text
<1>1. Occurs(Lower(Normalize(text)), a)
  BY DecisiveKeeps
<1>2. PICK e : Occurs(Normalize(text), e) /\ a = LowerOf(e)
  BY <1>1, NormalizeGivesText, LowerKeeps
<1>3. e \in Words(text)
  <2>1. Normalize(text) \in Seq(Words(text))
    BY NothingElseIsWritten
  <2> QED
    BY <1>2, <2>1 DEF Occurs
<1>4. e \notin AllSpaces \cup {"?"}
  BY <1>2, LowerOfByte DEF Bytes
<1>5. PICK j \in DOMAIN text : Word(text, j) /\ e = text[j]
  BY <1>3, <1>4 DEF Words
<1>6. Lower(text)[j] = LowerOf(text[j])
  BY DEF Lower, LowerOf
<1> QED
  BY <1>2, <1>5, <1>6

\* What is left of a probe when a semicolon and a limit are taken away.
LEMMA ProbeHasNothingElse ==
  ASSUME NEW low \in Seq(STRING), IsOperationalRead(low), NEW w, Occurs(low, w),
         w \notin {";", " ", "limit", "1"}
  PROVE  w \in {"select", "(", ")", "@@"} \cup SafeBuiltins \cup OperationalVariables
<1> DEFINE limit == <<" ", "limit", " ", "1">>
           one == TrimSuffix(low, <<";">>)
           two == TrimSuffix(one, limit)
<1>1. one \in Seq(STRING) /\ Occurs(one, w)
  <2> DEFINE suffix == <<";">>
  <2>1. suffix \in Seq({";"}) /\ ~ Occurs(suffix, w)
    BY OccursAlone, SequencesOf
  <2>2. one = TrimSuffix(low, suffix)
    OBVIOUS
  <2> HIDE DEF suffix, one
  <2> QED
    BY <2>1, <2>2, SuffixKeeps
<1>2. Occurs(two, w)
  <2>1. limit \in Seq({" ", "limit", " ", "1"})
    BY FourWords
  <2>2. Occurs(limit, w) => w \in {" ", "limit", " ", "1"}
    BY FourWords
  <2>3. ~ Occurs(limit, w)
    BY <2>2
  <2>4. two = TrimSuffix(one, limit)
    OBVIOUS
  <2> HIDE DEF limit, one, two
  <2> QED
    BY <1>1, <2>1, <2>3, <2>4, SuffixKeeps
<1>3. two \in Probes
  BY DEF IsOperationalRead
<1> HIDE DEF two
<1>4. CASE two = <<"select", " ", "1">>
  <2>1. w \in {"select", " ", "1"}
    BY <1>2, <1>4, ThreeWords
  <2> QED
    BY <2>1
<1>5. CASE \E f \in SafeBuiltins : two = <<"select", " ", f, "(", ")">>
  <2>1. PICK f \in SafeBuiltins : two = <<"select", " ", f, "(", ")">>
    BY <1>5
  <2>2. w \in {"select", " ", f, "(", ")"}
    <3>1. Occurs(<<"select", " ", f, "(", ")">>, w)
      BY <1>2, <2>1
    <3> QED
      BY <3>1, AmongFive
  <2> QED
    BY <2>2
<1>6. CASE \E v \in OperationalVariables : two = <<"select", " ", "@@", v>>
  <2>1. PICK v \in OperationalVariables : two = <<"select", " ", "@@", v>>
    BY <1>6
  <2>2. w \in {"select", " ", "@@", v}
    <3>1. Occurs(<<"select", " ", "@@", v>>, w)
      BY <1>2, <2>1
    <3> QED
      BY <3>1, AmongFour
  <2> QED
    BY <2>2
<1> QED
  BY <1>3, <1>4, <1>5, <1>6 DEF Probes

\* An equals sign in setup has only these words in front of it.
LEMMA SetupAssignsCharset ==
  ASSUME NEW low \in Seq(STRING), IsAllowedSetup(low), NEW a, a \notin AllSpaces,
         Follows(low, a, "=")
  PROVE  a \in {"set", "character_set_results"}
<1> DEFINE names == <<"set", " ", "names", " ">>
           results == <<"set", " ", "character_set_results">>
           equals == <<"=">>
           tail == TrimPrefix(low, results)
           rest == TrimSpace(tail)
           value == TrimSpace(TrimPrefix(rest, equals))
           charset == TrimPrefix(low, names)
<1>0. "=" \notin AllSpaces /\ "=" \notin Letters \cup Digits
  BY TextAssumption DEF Bytes, AllSpaces, Spaces, VerticalTab
<1>1. \A t : IsSimpleCharsetValue(t) => ~ Occurs(t, "=")
  BY <1>0 DEF IsSimpleCharsetValue, Occurs
<1>2. \/ IsSimpleCharsetValue(TrimSpace(charset))
      \/ IsSimpleCharsetValue(value)
  BY DEF IsAllowedSetup
<1>3. /\ names \in Seq({"set", " ", "names", " "})
      /\ ~ Occurs(names, "=")
  <2>1. Occurs(names, "=") => "=" \in {"set", " ", "names", " "}
    BY FourWords
  <2>2. names \in Seq({"set", " ", "names", " "})
    BY FourWords
  <2> QED
    BY <2>1, <2>2
<1>4. /\ results \in Seq({"set", " ", "character_set_results"})
      /\ ~ Occurs(results, "=")
      /\ Occurs(results, a) => a \in {"set", " ", "character_set_results"}
  <2>1. Occurs(results, "=") => "=" \in {"set", " ", "character_set_results"}
    BY ThreeWords
  <2>2. results \in Seq({"set", " ", "character_set_results"})
    BY ThreeWords
  <2>3. Occurs(results, a) => a \in {"set", " ", "character_set_results"}
    BY ThreeWords
  <2> QED
    BY <2>1, <2>2, <2>3
<1>5. Occurs(low, "=")
  BY DEF Follows, Occurs
<1>6. equals \in Seq({"="}) /\ Len(equals) = 1
  OBVIOUS
<1> HIDE DEF names, results, equals
<1>7. CASE IsSimpleCharsetValue(TrimSpace(charset))
  <2>1. charset \in Seq(STRING) /\ Occurs(charset, "=")
    BY <1>3, <1>5, PrefixKeeps
  <2> HIDE DEF charset
  <2>2. Occurs(TrimSpace(charset), "=")
    BY <1>0, <2>1, SpaceKeeps
  <2> QED
    BY <1>1, <1>7, <2>2
<1>8. CASE IsSimpleCharsetValue(value)
  <2>1. tail \in Seq(STRING) /\ (Occurs(results, a) \/ Follows(tail, a, "="))
    BY <1>4, PrefixKeeps
  <2>2. CASE Occurs(results, a)
    BY <1>4, <2>2 DEF AllSpaces, Spaces, VerticalTab
  <2>3. CASE Follows(tail, a, "=")
    <3> HIDE DEF tail
    <3>1. rest \in Seq(STRING) /\ Follows(rest, a, "=")
      BY <1>0, <2>1, <2>3, SpaceKeeps
    <3> HIDE DEF rest
    <3>2. /\ TrimPrefix(rest, equals) \in Seq(STRING)
          /\ Occurs(TrimPrefix(rest, equals), "=")
      BY <1>6, <3>1, PrefixKeeps
    <3>3. Occurs(value, "=")
      BY <1>0, <3>2, SpaceKeeps
    <3> HIDE DEF value
    <3> QED
      BY <1>1, <1>8, <3>3
  <2> QED
    BY <2>1, <2>2, <2>3
<1> QED
  BY <1>2, <1>7, <1>8

LEMMA SetupHasNoDash ==
  ASSUME NEW low \in Seq(STRING), IsAllowedSetup(low)
  PROVE  ~ Occurs(low, "-")
<1> DEFINE names == <<"set", " ", "names", " ">>
           results == <<"set", " ", "character_set_results">>
           equals == <<"=">>
           tail == TrimPrefix(low, results)
           rest == TrimSpace(tail)
           value == TrimSpace(TrimPrefix(rest, equals))
           charset == TrimPrefix(low, names)
<1>0. "-" \notin AllSpaces /\ "-" \notin Letters \cup Digits
  BY TextAssumption DEF Bytes, AllSpaces, Spaces, VerticalTab
<1>1. \A t : IsSimpleCharsetValue(t) => ~ Occurs(t, "-")
  BY <1>0 DEF IsSimpleCharsetValue, Occurs
<1>2. \/ IsSimpleCharsetValue(TrimSpace(charset))
      \/ IsSimpleCharsetValue(value)
  BY DEF IsAllowedSetup
<1>3. names \in Seq({"set", " ", "names", " "}) /\ ~ Occurs(names, "-")
  <2>1. Occurs(names, "-") => "-" \in {"set", " ", "names", " "}
    BY FourWords
  <2>2. names \in Seq({"set", " ", "names", " "})
    BY FourWords
  <2> QED
    BY <2>1, <2>2
<1>4. results \in Seq({"set", " ", "character_set_results"}) /\ ~ Occurs(results, "-")
  <2>1. Occurs(results, "-") => "-" \in {"set", " ", "character_set_results"}
    BY ThreeWords
  <2>2. results \in Seq({"set", " ", "character_set_results"})
    BY ThreeWords
  <2> QED
    BY <2>1, <2>2
<1>5. equals \in Seq({"="}) /\ ~ Occurs(equals, "-")
  <2>1. Occurs(equals, "-") => "-" = "="
    BY OccursAlone
  <2> QED
    BY <2>1
<1> SUFFICES ASSUME Occurs(low, "-") PROVE FALSE
  OBVIOUS
<1> HIDE DEF names, results, equals
<1>6. CASE IsSimpleCharsetValue(TrimSpace(charset))
  <2>1. charset \in Seq(STRING) /\ Occurs(charset, "-")
    BY <1>3, PrefixKeeps
  <2> HIDE DEF charset
  <2>2. Occurs(TrimSpace(charset), "-")
    BY <1>0, <2>1, SpaceKeeps
  <2> QED
    BY <1>1, <1>6, <2>2
<1>7. CASE IsSimpleCharsetValue(value)
  <2>1. tail \in Seq(STRING) /\ Occurs(tail, "-")
    BY <1>4, PrefixKeeps
  <2> HIDE DEF tail
  <2>2. rest \in Seq(STRING) /\ Occurs(rest, "-")
    BY <1>0, <2>1, SpaceKeeps
  <2> HIDE DEF rest
  <2>3. /\ TrimPrefix(rest, equals) \in Seq(STRING)
        /\ Occurs(TrimPrefix(rest, equals), "-")
    BY <1>5, <2>2, PrefixKeeps
  <2>4. Occurs(value, "-")
    BY <1>0, <2>3, SpaceKeeps
  <2> HIDE DEF value
  <2> QED
    BY <1>1, <1>7, <2>4
<1> QED
  BY <1>2, <1>6, <1>7

LEMMA SetupNamesCharset ==
  ASSUME NEW low \in Seq(STRING), IsAllowedSetup(low)
  PROVE  Occurs(low, "names") \/ Occurs(low, "character_set_results")
<1> DEFINE names == <<"set", " ", "names", " ">>
           results == <<"set", " ", "character_set_results">>
<1>1. IsPrefix(names, low) \/ IsPrefix(results, low)
  BY DEF IsAllowedSetup
<1>2. /\ names \in Seq({"set", " ", "names", " "}) /\ Len(names) = 4
      /\ names[3] = "names"
  BY FourWords
<1>3. /\ results \in Seq({"set", " ", "character_set_results"}) /\ Len(results) = 3
      /\ results[3] = "character_set_results"
  BY ThreeWords
<1> HIDE DEF names, results
<1>4. IsPrefix(names, low) => Occurs(low, "names")
  <2>1. 3 \in 1 .. Len(names)
    <3>1. Len(names) = 4
      BY <1>2
    <3>2. 3 \in 1 .. 4
      OBVIOUS
    <3> QED
      BY <3>1, <3>2, Zenon
  <2> QED
    BY <1>2, <2>1, PrefixOccurs
<1>5. IsPrefix(results, low) => Occurs(low, "character_set_results")
  <2>1. 3 \in 1 .. Len(results)
    <3>1. Len(results) = 3
      BY <1>3
    <3>2. 3 \in 1 .. 3
      OBVIOUS
    <3> QED
      BY <3>1, <3>2, Zenon
  <2> QED
    BY <1>3, <2>1, PrefixOccurs
<1> QED
  BY <1>1, <1>4, <1>5

\* What is let through by its text alone is harmless where the parser reads as the server
\* does, whatever the text has of comments, quotes and aliases; and it has no executable
\* comment, if comments of two dashes begin as the scanners know them (isOperationalRead,
\* isAllowedSetup, classifyUseName, scanSQL).
THEOREM ProbesAndSetupAreHarmless == Spec => []ProbeAndSetupAreHarmless
<1>1. ASSUME PolicyInv, ScannersAgree PROVE ProbeAndSetupAreHarmless
  <2> SUFFICES ASSUME decision.kind \in {"allow_operational_read", "allow_setup"}
               PROVE  /\ statement.parsed = 1
                      /\ DashesSpaced(statement.text) => ~ statement.executable
                      /\ TreeIsTrue(statement) /\ decision.kind = "allow_operational_read" =>
                           /\ Len(statement.fields) = 1
                           /\ \A n \in Nodes(statement) : n.type # "TableName"
                      /\ TreeIsTrue(statement) /\ decision.kind = "allow_setup" =>
                           \E one \in {"charset"} \cup config.allowedSchemas :
                             statement.sets \subseteq {one}
    BY DEF ProbeAndSetupAreHarmless
  <2> DEFINE s == statement
             text == statement.text
             low == DecisiveText(statement)
  <2>1. statement \in Statement /\ TextContract(statement)
    BY <1>1, InputAssumption DEF PolicyInv
  <2>2. s.parsed \in Nat /\ text \in Seq(STRING)
    BY <2>1 DEF Statement
  <2>3. decision = Classify(config, statement) /\ decision.kind # "reject"
    BY <1>1 DEF PolicyInv, NoDecision, Reject, Decision
  <2>4. /\ ~ HasExecutableComment(Normalize(text))
        /\ s.parsed = 1
        /\ \/ s.type = "Set" /\ decision = ClassifySet(config, low)
           \/ s.type = "Use" /\ decision = ClassifyUse(config, s.schema)
           \/ s.type \in {"Select", "Values"} /\ decision = ClassifySelect(s, low)
    BY <2>2, <2>3, AllowedOnce
  <2>5. DashesSpaced(text) => ~ s.executable
    BY <1>1, <2>4 DEF ScannersAgree
  <2>6. TreeIsTrue(s) => ~ HasExecutable(text) /\ Closed(text)
    BY <2>1, <2>4 DEF TextContract, TreeIsTrue
  <2>7. GrammarContract(s)
    BY <1>1, <2>4, InputAssumption DEF PolicyInv
  <2>8. low \in Seq(STRING)
    BY <2>2, DecisiveKeeps
  <2> HIDE DEF low
  <2>9. ASSUME TreeIsTrue(s), decision.kind = "allow_operational_read"
        PROVE  Len(s.fields) = 1 /\ \A n \in Nodes(s) : n.type # "TableName"
    <3>1. s.type \in {"Select", "Values"} /\ IsOperationalRead(low)
      BY <2>4, <2>9 DEF ClassifySet, ClassifyUse, ClassifySelect, Reject, Decision
    <3>0. DashesSpaced(text)
      <4>1. "-" \notin {"select", "(", ")", "@@"} \cup SafeBuiltins \cup OperationalVariables
        BY DEF SafeBuiltins, OperationalVariables
      <4>2. ~ Occurs(low, "-")
        BY <2>8, <3>1, <4>1, ProbeHasNothingElse
      <4> QED
        BY <2>2, <2>6, <2>9, <4>2, DashIsDecidedOn DEF low
    <3>2. ASSUME NEW w \in TableWords \cup {",", "values"} PROVE w \notin WordsOf(s)
      <4> SUFFICES ASSUME w \in WordsOf(s) PROVE FALSE
        OBVIOUS
      <4>1. w \notin Quotes \cup {BackQuote} \cup AllSpaces \cup {";"}
        BY DEF TableWords, Quotes, BackQuote, AllSpaces, Spaces, VerticalTab
      <4>2. Occurs(low, w)
        BY <2>2, <2>6, <2>9, <3>0, <4>1, WordIsDecidedOn DEF low
      <4>3. w \notin {";", " ", "limit", "1"}
        BY DEF TableWords
      <4>4. w \in {"select", "(", ")", "@@"} \cup SafeBuiltins \cup OperationalVariables
        BY <2>8, <3>1, <4>2, <4>3, ProbeHasNothingElse
      <4> QED
        BY <4>4 DEF TableWords, SafeBuiltins, OperationalVariables
    <3>3. WordsOf(s) \cap TableWords = {} /\ WordsOf(s) \cap {",", "table", "values"} = {}
      BY <3>2 DEF TableWords
    <3> QED
      BY <2>7, <2>9, <3>1, <3>3 DEF GrammarContract
  <2>10. ASSUME TreeIsTrue(s), decision.kind = "allow_setup"
         PROVE  \E one \in {"charset"} \cup config.allowedSchemas : s.sets \subseteq {one}
    <3>1. CASE s.type = "Use" /\ decision = ClassifyUse(config, s.schema)
      <4>1. s.schema \in config.allowedSchemas
        BY <2>10, <3>1 DEF ClassifyUse, Reject, Decision
      <4>2. s.sets \subseteq {s.schema}
        BY <2>7, <2>10, <3>1 DEF GrammarContract
      <4> QED
        BY <4>1, <4>2
    <3>2. CASE s.type = "Set" /\ decision = ClassifySet(config, low)
      <4>1. IsAllowedSetup(low)
        BY <2>10, <3>2 DEF ClassifySet, Reject, Decision
      <4>0. DashesSpaced(text)
        BY <2>2, <2>6, <2>8, <2>10, <4>1, SetupHasNoDash, DashIsDecidedOn DEF low
      <4>2. ASSUME NEW i \in DOMAIN text, Assigns(s, i) PROVE FALSE
        <5>1. PICK a : /\ a \notin AllSpaces \cup {"set", "character_set_results"}
                       /\ Follows(low, a, "=")
          BY <2>2, <2>6, <2>10, <4>0, <4>2, AssignmentIsDecidedOn DEF low
        <5> QED
          BY <2>8, <4>1, <5>1, SetupAssignsCharset
      <4>3. ~ \A i \in DOMAIN text :
                Word(text, i) => Lower(text)[i] \notin {"names", "character_set_results"}
        <5>1. PICK a \in {"names", "character_set_results"} : Occurs(low, a)
          BY <2>8, <4>1, SetupNamesCharset
        <5>2. a \notin AllSpaces \cup {"?"}
          BY DEF AllSpaces, Spaces, VerticalTab
        <5>3. \E j \in DOMAIN text : Word(text, j) /\ Lower(text)[j] = a
          BY <2>2, <2>6, <2>10, <4>0, <5>1, <5>2, DecidedOnWords DEF low
        <5> QED
          BY <5>3
      <4>4. s.sets \subseteq {"charset"}
        BY <2>7, <2>10, <3>2, <4>2, <4>3 DEF GrammarContract
      <4> QED
        BY <4>4
    <3>3. CASE s.type \in {"Select", "Values"} /\ decision = ClassifySelect(s, low)
      BY <2>10, <3>3 DEF ClassifySelect, Reject, Decision
    <3> QED
      BY <2>4, <3>1, <3>2, <3>3
  <2> QED
    BY <2>4, <2>5, <2>9, <2>10
<1> QED
  BY <1>1, PolicyInvHolds, ScannersAlwaysAgree, PTL

-----------------------------------------------------------------------------
(* The log: what is left of a text after the redaction. *)

\* Nothing but what stands outside of strings, numbers and comments is logged, of any
\* text whose comments of two dashes begin with white space that isSpaceByte knows, whose
\* quoted identifiers and executable comments have no quote and no comment in them, and
\* whose last comment is closed (NormalizeStatement).
THEOREM LiteralsStayOut == Spec => []NothingSecretLogged
<1>1. ASSUME PolicyInv PROVE NothingSecretLogged
  <2> SUFFICES ASSUME Regular(statement.text), NEW i \in DOMAIN logged
               PROVE  /\ logged[i] \notin Digits
                      /\ \/ logged[i] \in {"?", " "}
                         \/ \E j \in DOMAIN statement.text :
                              /\ logged[i] = statement.text[j]
                              /\ ~ InLiteral(statement.text, j)
    BY DEF NothingSecretLogged, LiteralsRedacted
  <2>1. statement.text \in Seq(STRING)
    BY <1>1, InputAssumption DEF PolicyInv, Statement
  <2>2. logged = NormalizeStatement(statement.text)
    BY <1>1 DEF PolicyInv
  <2>3. Redaction(statement.text) \in Seq(Harmless(statement.text))
    BY <2>1, RedactionOutside
  <2>4. " " \in Harmless(statement.text)
    BY TextAssumption DEF Harmless, Bytes, AllSpaces, Spaces, VerticalTab
  <2>5. logged \in Seq(Harmless(statement.text))
    BY <2>2, <2>3, <2>4, SqueezeAddsBlanks DEF NormalizeStatement
  <2>6. logged[i] \in Harmless(statement.text)
    BY <2>5
  <2> QED
    BY <2>6 DEF Harmless
<1> QED
  BY <1>1, PolicyInvHolds, PTL

=============================================================================
