--------------------------- MODULE MCQueryPolicy ----------------------------
(***************************************************************************)
(* Statements for QueryPolicy: every combination of a SELECT list item, a  *)
(* tail, what stands between the words and what follows the statement; and *)
(* every combination of masking rules with a few statements.               *)
(***************************************************************************)
EXTENDS QueryPolicy

MCLetters ==
  {"select", "SELECT", "count", "COUNT", "distinct", "max", "now", "database", "version",
   "global", "over", "a", "A", "b", "secret", "from", "for", "update", "into", "x", "where",
   "order", "by", "limit", "union", "set", "names", "utf8", "character_set_results", "use",
   "app", "App", "mysql", "users", "Users", "insert", "sleep", "null",
   "transaction", "read", "only", "T", "t"}
MCDigits == {"1"}
MCLowerCase ==
  [l \in MCLetters |->
     CASE l = "SELECT" -> "select" [] l = "COUNT" -> "count" [] l = "A" -> "a"
       [] l = "App" -> "app" [] l = "Users" -> "users" [] l = "T" -> "t" [] OTHER -> l]

-----------------------------------------------------------------------------
(* The pieces a statement is made of; `at` counts pieces until it is laid out. *)

N(type, name, plain, at) == [type |-> type, name |-> name, plain |-> plain, at |-> at]
Leaf(type) == N(type, "", TRUE, 0)
ColumnNode == Leaf("ColumnName")
Users == Leaf("TableName")
SystemTable == N("TableName", "mysql", TRUE, 0)
Subquery(plain) == N("Select", "", plain, 0)

A == [schema |-> <<"app">>, table |-> <<"users">>, column |-> <<"a">>]
B == [schema |-> <<"app">>, table |-> <<"Users">>, column |-> <<"b">>]
Origin(c, type, value) ==
  [schema |-> c.schema, table |-> c.table, column |-> c.column, type |-> type,
   binary |-> FALSE, value |-> value]
Computed ==
  [schema |-> NoName, table |-> NoName, column |-> NoName, type |-> "longlong",
   binary |-> TRUE, value |-> "raw"]

\* The branches of a tree with this root and those of the trees below it.
Below(node, branches) == {<<node>>} \cup {<<node>> \o b : b \in branches}

\* An item: its pieces, its node, the branches below the SELECT, which piece is
\* exactly COUNT(*), the fields of its result and the columns each is computed from.
Item(pieces, node, below, star, result, reads) ==
  [pieces |-> pieces, node |-> node, branches |-> Below(node, below),
   star |-> star, result |-> result, reads |-> reads]
Plain(pieces, node) == Item(pieces, node, {}, 0, <<Computed>>, <<{}>>)
OfA(pieces, node, below) == Item(pieces, node, below, 0, <<Computed>>, <<{A}>>)

ColumnA == Item(<<<<"A">>>>, ColumnNode, {}, 0, <<Origin(A, "var_string", "raw")>>, <<{A}>>)
Star ==
  Item(<<<<"*">>>>, Leaf("Wildcard"), {}, 0,
       <<Origin(A, "var_string", "raw"), Origin(B, "datetime", "raw"), Origin(B, "blob", "null")>>,
       <<{A}, {B}, {B}>>)
Quoted(name) ==
  Item(<<<<BackQuote>> \o name \o <<BackQuote>>>>, ColumnNode, {}, 0,
       <<Origin(A, "var_string", "raw")>>, <<{A}>>)
\* A column of a derived table: the upstream reports no schema for it.
Derived ==
  Item(<<<<"b">>>>, ColumnNode, {}, 0,
       <<[Origin(A, "var_string", "raw") EXCEPT !.schema = NoName]>>, <<{A}>>)

Items ==
  {Plain(<<<<"1">>>>, Leaf("Value")),
   Plain(<<<<"'", "secret", "\\", "'", ";", "1", "'">>>>, Leaf("Value")),
   Plain(<<<<"\"", "secret", "\"", "\"", "/", "*", "\"">>>>, Leaf("Value")),
   ColumnA, Star, Derived, Quoted(<<"a">>), Quoted(<<"1">>),
   Quoted(<<"a", "'", "b">>), Quoted(<<"a", "#", "b">>),
   OfA(<<<<"a">>, <<"+">>, <<"1">>>>, Leaf("Other"), {<<ColumnNode>>, <<Leaf("Value")>>}),
   OfA(<<<<"a", "-", "-", "1">>>>, Leaf("Other"), {<<ColumnNode>>, <<Leaf("Value")>>}),
   Item(<<<<"COUNT", "(">>, <<"*", ")">>>>, N("Aggregate", "count", TRUE, 1),
        {<<Leaf("Value")>>}, 1, <<Computed>>, <<{}>>),
   OfA(<<<<"count", "(">>, <<"a", ")">>>>, N("Aggregate", "count", TRUE, 1), {<<ColumnNode>>}),
   Plain(<<<<"count", "(">>, <<"'", "*", "'", ")">>>>, N("Aggregate", "count", TRUE, 1)),
   OfA(<<<<"count", "(">>, <<"distinct">>, <<"a", ")">>>>,
       N("Aggregate", "count", FALSE, 1), {<<ColumnNode>>}),
   OfA(<<<<"max", "(">>, <<"a", ")">>>>, N("Aggregate", "max", TRUE, 1), {<<ColumnNode>>}),
   Plain(<<<<"count", "(">>, <<"*", ")">>, <<"over">>, <<"(", ")">>>>, Leaf("Window")),
   Plain(<<<<"now", "(", ")">>>>, N("FuncCall", "now", TRUE, 0)),
   Plain(<<<<"now", "(">>, <<"1", ")">>>>, N("FuncCall", "now", FALSE, 0)),
   Plain(<<<<"@@", "version">>>>, N("Variable", "version", TRUE, 0)),
   Plain(<<<<"@@", "global", ".", "version">>>>, N("Variable", "version", FALSE, 0)),
   OfA(<<<<"(", "select">>, <<"a">>, <<"from">>, <<"mysql", ".", "users", ")">>>>,
       Leaf("Other"), Below(Subquery(TRUE), {<<SystemTable>>, <<ColumnNode>>})),
   OfA(<<<<"(", "select">>, <<"a">>, <<"from">>, <<"users">>, <<"for">>, <<"update", ")">>>>,
       Leaf("Other"), Below(Subquery(FALSE), {<<Users>>})),
   OfA(<<<<"max", "(", "(", "select">>, <<"a">>, <<"from">>, <<"mysql", ".", "users", ")", ")">>>>,
       N("Aggregate", "max", TRUE, 1), Below(Subquery(TRUE), {<<SystemTable>>}))}

\* A tail: its pieces, the branches it adds, whether the SELECT stays plain.
TailOf(pieces, branches, plain, type) ==
  [pieces |-> pieces, branches |-> branches, plain |-> plain, type |-> type]
FromUsers == TailOf(<<<<"from">>, <<"users">>>>, {<<Users>>}, TRUE, "Select")
NoTail == TailOf(<<>>, {}, TRUE, "Select")
Tails ==
  {NoTail, FromUsers,
   TailOf(<<<<"limit">>, <<"1">>>>, {}, TRUE, "Select"),
   TailOf(<<<<BackQuote, "limit", " ", "1", BackQuote>>>>, {}, TRUE, "Select"),
   TailOf(<<<<"from">>, <<"mysql", ".", "users">>>>, {<<SystemTable>>}, TRUE, "Select"),
   TailOf(<<<<"from">>, <<"users">>, <<"for">>, <<"update">>>>, {<<Users>>}, FALSE, "Select"),
   TailOf(<<<<"into">>, <<"x">>>>, {}, FALSE, "Select"),
   TailOf(<<<<"from">>, <<"users">>, <<"where">>, <<"sleep", "(">>, <<"1", ")">>>>,
          {<<Users>>, <<N("FuncCall", "sleep", FALSE, 0)>>}, TRUE, "Select"),
   TailOf(<<<<"union">>, <<"select">>, <<"1">>>>, {}, TRUE, "SetOpr")}

\* A tail only the parser reads: to the server it is a comment.
ParserOnly ==
  TailOf(<<<<"/", "*", "T", "!">>, <<"from">>, <<"users">>, <<"*", "/">>>>, {<<Users>>}, TRUE, "Select")

Words == <<<<" ">>, FALSE>>
Fillers ==
  {Words, <<<<" ", "/", "*", ";", "'", "secret", "*", "/">>, FALSE>>,
   <<<<"#", "'", ")", "\n", " ">>, FALSE>>,
   <<<<" ", "-", "-", " ", "secret", ";", "\n">>, FALSE>>,
   <<<<"/", "*", "!", "1", "secret", "*", "/">>, TRUE>>}
\* White space that the scanners do not take for it.
OddFillers ==
  {<<<<" ", "-", "-", VerticalTab, "secret", "\n">>, FALSE>>, <<<<VerticalTab>>, FALSE>>}

\* What follows: its text, whether it terminates the statement, how many statements
\* there are then.
Untouched == <<<<>>, FALSE, 1>>
Endings ==
  {Untouched, <<<<" ", ";", " ">>, TRUE, 1>>, <<<<";", "#", "secret">>, TRUE, 1>>,
   <<<<";", "-", "-">>, TRUE, 1>>, <<<<" ", "-", "-", " ", ";">>, FALSE, 1>>,
   <<<<" ", "/", "*", ";", "*", "/">>, FALSE, 1>>,
   <<<<";", "select", " ", "1">>, FALSE, 2>>}

-----------------------------------------------------------------------------
(* Laying out. *)

\* Where the k-th piece starts.
Start(pieces, filler, k) ==
  1 + Len(FlattenSeq([j \in 1 .. k - 1 |-> pieces[j] \o filler]))
Join(pieces, filler) ==
  FlattenSeq([j \in DOMAIN pieces |-> IF j = Len(pieces) THEN pieces[j] ELSE pieces[j] \o filler])

\* The branches of an item whose first piece is piece k + 1 of the statement.
Placed(n, pieces, filler, k) ==
  IF n.at = 0 THEN n ELSE [n EXCEPT !.at = Start(pieces, filler, @ + k)]

Select(items, tail, filler, ending) ==
  LET list == FlattenSeq([j \in DOMAIN items |->
                IF j = 1 THEN items[j].pieces ELSE <<<<",">>>> \o items[j].pieces])
      pieces == <<<<"SELECT">>>> \o list \o tail.pieces
      before(j) == 1 + (j - 1) + Len(FlattenSeq([i \in 1 .. j - 1 |-> items[i].pieces]))
      root == Subquery(tail.plain)
      place(n, j) == Placed(n, pieces, filler[1], before(j)) IN
  [type |-> tail.type, schema |-> "", parsed |-> ending[3],
   text |-> Join(pieces, filler[1]) \o ending[1],
   fields |-> [j \in DOMAIN items |-> place(items[j].node, j)],
   branches |->
     {<<root>>} \cup {<<root>> \o b : b \in tail.branches}
       \cup UNION {{<<root>> \o [i \in DOMAIN b |-> place(b[i], j)] : b \in items[j].branches} :
                   j \in DOMAIN items},
   terminated |-> ending[2],
   executable |-> filler[2],
   countStars |-> {Start(pieces, filler[1], before(j) + items[j].star) :
                     j \in {i \in DOMAIN items : items[i].star # 0}},
   sets |-> {},
   result |-> FlattenSeq([j \in DOMAIN items |-> items[j].result]),
   reads |-> FlattenSeq([j \in DOMAIN items |-> items[j].reads])]

\* Statements that are no SELECT, and how they change the session.
Other(type, schema, pieces, sets, filler, ending) ==
  [type |-> type, schema |-> schema, parsed |-> ending[3],
   text |-> Join(pieces, filler[1]) \o ending[1], fields |-> <<>>, branches |-> {},
   terminated |-> ending[2], executable |-> filler[2], countStars |-> {}, sets |-> sets, result |-> <<>>,
   reads |-> <<>>]
Others(filler, ending) ==
  {Other("Set", "", <<<<"set">>, <<"names">>, <<"utf8">>>>, {"charset"}, filler, ending),
   Other("Set", "", <<<<"set">>, <<"names">>, <<"'", "secret", "'">>>>, {"charset"}, filler, ending),
   Other("Set", "", <<<<"set">>, <<"names">>, <<"utf8">>, <<",">>, <<"x">>, <<"=">>, <<"1">>>>,
         {"charset", "x"}, filler, ending),
   Other("Set", "", <<<<"set">>, <<"character_set_results">>, <<"=">>, <<"null">>>>,
         {"charset"}, filler, ending),
   Other("Set", "", <<<<"set">>, <<"global">>, <<"x">>, <<"=">>, <<"1">>>>, {"x"}, filler, ending),
   Other("Set", "", <<<<"set">>, <<BackQuote, "names", " ", BackQuote, "=">>, <<"1">>>>,
         {}, filler, ending),
   Other("Set", "", <<<<"set">>, <<"transaction">>, <<"read">>, <<"only">>>>,
         {"transaction"}, filler, ending),
   Other("Use", "app", <<<<"use">>, <<"app">>>>, {"app"}, filler, ending),
   Other("Use", "mysql", <<<<"use">>, <<"mysql">>>>, {"mysql"}, filler, ending),
   Other("Insert", "", <<<<"insert">>, <<"into">>, <<"x">>>>, {}, filler, ending)}

\* No statement but a comment, and text that does not parse.
Broken ==
  {[Other("None", "", <<pieces>>, {}, Words, Untouched) EXCEPT !.parsed = 0] :
     pieces \in {<<" ", "#", "secret">>, <<"select", " ", "'", "secret">>,
                <<"select", "/", "*", "secret", "secret">>, <<"select", "/", "*">>,
                <<"select", "-", "-", Control, "secret">>,
                <<"'", "secret", "\\">>, <<"/", "*", "/", "secret", "*", "/">>}}

NoRules ==
  [allowedSchemas |-> {"app"}, allowDefaultSetup |-> TRUE, tableRules |-> {}, allowTables |-> {},
   allowColumns |-> {}, globalColumns |-> {}, allowColumnNames |-> {}]
TableRule(schema, all, columns) ==
  [schema |-> schema, table |-> <<"users">>, allColumns |-> all, columns |-> columns]
Configs ==
  {NoRules, [NoRules EXCEPT !.allowDefaultSetup = FALSE]} \cup
  [allowedSchemas : {{"app"}}, allowDefaultSetup : {TRUE},
   tableRules : {{}, {TableRule(<<"App">>, TRUE, {})}, {TableRule(<<"mysql">>, TRUE, {<<"a">>})}},
   allowTables : {{}, {TableRule(<<"App">>, FALSE, {<<"b">>})}},
   allowColumns : {{}, {TableRule(<<"App">>, FALSE, {<<"A">>}), TableRule(<<"app">>, FALSE, {<<"b">>})}},
   globalColumns : {{}, {<<"A">>}},
   allowColumnNames : {{}, {<<"b">>}}]

AllowAll == [NoRules EXCEPT !.globalColumns = {<<"a">>, <<"b">>}]

MCInputs ==
  [config : {NoRules},
   statement :
     {Select(<<item>>, ParserOnly, Words, ending) : item \in Items, ending \in Endings}
       \cup {Select(<<item>>, tail, filler, ending) :
               item \in Items, tail \in {NoTail, FromUsers}, filler \in OddFillers,
               ending \in Endings}]
  \cup
  [config : {NoRules},
   statement :
     {Select(<<item>>, tail, filler, ending) :
        item \in Items, tail \in Tails, filler \in Fillers, ending \in Endings}]
  \cup
  [config : {NoRules, AllowAll},
   statement : {Select(items, FromUsers, Words, Untouched) : items \in Items \X Items}]
  \cup
  [config : {NoRules, [NoRules EXCEPT !.allowDefaultSetup = FALSE]},
   statement : Broken \cup UNION {Others(f, e) : f \in Fillers \cup OddFillers, e \in Endings}]
  \cup
  [config : Configs,
   statement : {Select(<<item>>, FromUsers, Words, Untouched) : item \in {ColumnA, Star}}]

=============================================================================
