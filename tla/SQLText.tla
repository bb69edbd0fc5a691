------------------------------ MODULE SQLText -------------------------------
(***************************************************************************)
(* The hand-written scanners of SQL text: those the classifier uses beside *)
(* the parser (internal/sqlpolicy/classifier.go) and the one that redacts  *)
(* a statement for the audit log (internal/audit/logger.go).               *)
(*                                                                         *)
(* A text is a sequence of elements: one byte where the scanners look at   *)
(* it, a whole run of letters or of digits where they only copy it.        *)
(***************************************************************************)
EXTENDS Naturals, SequencesExt

CONSTANTS
  Letters,    \* runs of letters and underscores, as they may be written
  Digits,     \* runs of digits
  LowerCase   \* [Letters -> Letters]

Quotes == {"'", "\""}
BackQuote == "backquote"
VerticalTab == "vertical tab"
Control == "control"           \* any control character that is not white space
EndOfText == "end of text"     \* no element: what is behind the last one

\* White space is not the same everywhere: isSpaceByte does not know the vertical tab,
\* unicode.IsSpace does.
Spaces == {" ", "\n"}
AllSpaces == Spaces \cup {VerticalTab}

\* The bytes a scanner looks at, and what it puts in the place of others.
Bytes ==
  Quotes \cup AllSpaces
    \cup {BackQuote, Control, "\\", "#", "-", "/", "*", "!", "(", ")", ",", ";", ".", "=", "?",
          "@@"}

ASSUME TextAssumption ==
  /\ Letters \cup Digits \cup Bytes \subseteq STRING
  /\ (Letters \cup Digits) \cap Bytes = {}
  /\ EndOfText \notin Letters \cup Digits
  /\ Letters \cap Digits = {}
  /\ LowerCase \in [Letters -> Letters]

At(s, i) == IF i \in DOMAIN s THEN s[i] ELSE EndOfText
Lower(s) == [i \in DOMAIN s |-> IF s[i] \in Letters THEN LowerCase[s[i]] ELSE s[i]]

\* The first position from i on where the elements starting there satisfy Test, or
\* the end of the text.
First(s, i, Test(_)) ==
  LET found == {j \in i .. Len(s) : Test(j)} IN
  IF found = {} THEN Len(s) + 1 ELSE CHOOSE j \in found : \A k \in found : j <= k

\* What a scanner that goes on from i to next[i] has written when it is done, from each
\* position on.
Scan(s, next, written) ==
  LET from[i \in 1 .. Len(s) + 1] ==
        IF i > Len(s) THEN <<>> ELSE written[i] \o from[next[i]]
  IN from

-----------------------------------------------------------------------------
(* Where a lexeme ends.  scanSQL and hasTrailingStatementTerminator take a *)
(* doubled quote for the end of one lexeme and the start of another, and   *)
(* leave the last byte of a comment that is not closed; the skip functions *)
(* (whole = TRUE) do neither.                                              *)

\* Mutant: two dashes are a comment whatever follows.
IsDashDashCommentEager(s, i) == s[i] = "-" /\ At(s, i + 1) = "-"

IsDashDashComment(s, i) ==
  s[i] = "-" /\ At(s, i + 1) = "-" /\ At(s, i + 2) \in Spaces
IsBlockCommentEnd(s, i) == s[i] = "*" /\ At(s, i + 1) = "/"
IsVersionedComment(s, i) == s[i] = "/" /\ At(s, i + 1) = "*" /\ At(s, i + 2) = "!"

\* Where the string or the quoted identifier that starts at i ends.
QuotedEnd(s, i, whole) ==
  LET escapes(j) == s[j] = "\\" /\ s[i] # BackQuote /\ j < Len(s)
      doubled(j) == whole /\ s[j] = s[i] /\ At(s, j + 1) = s[i]
      hop == [j \in DOMAIN s |-> IF escapes(j) \/ doubled(j) THEN j + 2 ELSE j + 1]
      end == [j \in DOMAIN s |-> IF s[j] = s[i] /\ ~ doubled(j) THEN <<j + 1>> ELSE <<>>]
  IN Head(Scan(s, hop, end)[i + 1] \o <<Len(s) + 1>>)

LineEnd(s, i) == First(s, i, LAMBDA j : s[j] = "\n")

BlockEnd(s, i, whole) ==
  LET close == First(s, i + 2, LAMBDA j : IsBlockCommentEnd(s, j)) IN
  IF close <= Len(s) THEN close + 2
  ELSE IF whole \/ i + 2 > Len(s) THEN Len(s) + 1
  ELSE Len(s)

Lexeme(s, i) ==
  IF s[i] \in Quotes THEN "string"
  ELSE IF s[i] = BackQuote THEN "identifier"
  ELSE IF s[i] = "#" \/ IsDashDashComment(s, i) THEN "line"
  ELSE IF s[i] = "/" /\ At(s, i + 1) = "*" /\ ~ IsVersionedComment(s, i) THEN "block"
  ELSE "byte"

IsBlank(s, i) == s[i] \in Spaces \/ Lexeme(s, i) \in {"line", "block"}

LexemeEnd(s, i, whole) ==
  CASE Lexeme(s, i) \in {"string", "identifier"} -> QuotedEnd(s, i, whole)
    [] Lexeme(s, i) = "line" -> LineEnd(s, i)
    [] Lexeme(s, i) = "block" -> BlockEnd(s, i, whole)
    [] OTHER -> i + 1

LexemeEnds(s, whole) == [i \in DOMAIN s |-> LexemeEnd(s, i, whole)]

-----------------------------------------------------------------------------
(* The classifier's view of a statement. *)

\* strings.Fields and strings.Join: a run of white space between two other elements
\* becomes one blank, any other goes.
Squeeze(s) ==
  LET kept(i) == /\ At(s, i + 1) \notin AllSpaces \cup {EndOfText}
                 /\ \E j \in 1 .. i - 1 : s[j] \notin AllSpaces
  IN Scan(s, [i \in DOMAIN s |-> i + 1],
          [i \in DOMAIN s |->
             IF s[i] \notin AllSpaces THEN <<s[i]>> ELSE IF kept(i) THEN <<" ">> ELSE <<>>])[1]

\* Strings become ?, comments blanks, and quoted identifiers lose their quotes.
Image(s, i) ==
  CASE Lexeme(s, i) = "string" -> <<"?">>
    [] Lexeme(s, i) = "identifier" ->
         SubSeq(s, i + 1, First(s, i + 1, LAMBDA j : s[j] = BackQuote) - 1)
    [] Lexeme(s, i) \in {"line", "block"} -> <<" ">>
    [] OTHER -> <<s[i]>>

ScanSQL(s) == Scan(s, LexemeEnds(s, FALSE), [i \in DOMAIN s |-> Image(s, i)])[1]

Normalize(s) == Squeeze(ScanSQL(s))

\* The first bytes of lexemes that are neither white space nor comments.
Solid(s) == [i \in DOMAIN s |-> IF IsBlank(s, i) THEN <<>> ELSE <<s[i]>>]

\* The last byte that is not white space or in a comment is a semicolon.
HasTrailingStatementTerminator(s) ==
  LET bytes == Scan(s, LexemeEnds(s, FALSE), Solid(s))[1] IN
  bytes # <<>> /\ Last(bytes) = ";"

TrimSpace(s) ==
  IF s # <<>> /\ s[1] \in AllSpaces THEN Tail(s)
  ELSE IF s # <<>> /\ Last(s) \in AllSpaces THEN Front(s)
  ELSE s
TrimSuffix(s, suffix) ==
  IF IsSuffix(suffix, s) THEN SubSeq(s, 1, Len(s) - Len(suffix)) ELSE s
TrimPrefix(s, prefix) ==
  IF IsPrefix(prefix, s) THEN SubSeq(s, Len(prefix) + 1, Len(s)) ELSE s
TrimStatementTerminator(s) == TrimSpace(TrimSuffix(TrimSpace(s), <<";">>))

\* The end of the call that starts at i: behind the first parenthesis at which as many
\* have been closed as opened.  There is none if the first one closes.
CallEnd(s, i) ==
  LET parens == Scan(s, LexemeEnds(s, TRUE),
                     [j \in DOMAIN s |-> IF s[j] \in {"(", ")"} THEN <<j>> ELSE <<>>])[i]
      closed(k) == Cardinality({m \in 1 .. k : s[parens[m]] = ")"})
      balanced == {k \in DOMAIN parens : k <= 2 * closed(k)}
  IN IF balanced = {} \/ 1 \in balanced THEN 0
     ELSE parens[CHOOSE k \in balanced : \A m \in balanced : k <= m] + 1

\* The text without white space and comments; strings are not recognized here.
CompactSQLSyntax(s) ==
  Lower(Scan(s, [i \in DOMAIN s |-> IF IsBlank(s, i) THEN LexemeEnd(s, i, TRUE) ELSE i + 1],
             Solid(s))[1])

CompactSQLCallAt(s, i) ==
  LET end == CallEnd(s, i) IN
  IF end = 0 THEN <<>> ELSE CompactSQLSyntax(SubSeq(s, i, end - 1))

-----------------------------------------------------------------------------
(* The audit log's view of a statement. *)

\* Mutant: the one-character comment is overlooked.
IsCommentNoHash(s, i) ==
  \/ IsDashDashComment(s, i)
  \/ s[i] = "/" /\ At(s, i + 1) = "*"

IsComment(s, i) ==
  \/ s[i] = "#"
  \/ IsDashDashComment(s, i)
  \/ s[i] = "/" /\ At(s, i + 1) = "*"

\* Where the lexeme that starts at i ends: a comment, a string, a number, or one byte.
\* A block comment that is not closed leaves its last byte.
RedactedEnd(s, i) ==
  IF IsComment(s, i) THEN IF s[i] = "/" THEN BlockEnd(s, i, FALSE) ELSE LineEnd(s, i)
  ELSE IF s[i] \in Quotes THEN QuotedEnd(s, i, FALSE)
  ELSE IF s[i] \in Digits THEN First(s, i, LAMBDA j : s[j] \notin Letters \cup Digits \cup {"."})
  ELSE i + 1

\* Comments become blanks; strings and numbers become ?, but none directly after a ?,
\* which is what `placeholder` says.
Redaction(s) ==
  LET from[i \in 1 .. Len(s) + 1] ==
        [placeholder \in BOOLEAN |->
           IF i > Len(s) THEN <<>>
           ELSE IF IsComment(s, i) THEN <<" ">> \o from[RedactedEnd(s, i)][FALSE]
           ELSE IF s[i] \in Quotes \cup Digits
             THEN (IF placeholder THEN <<>> ELSE <<"?">>) \o from[RedactedEnd(s, i)][TRUE]
           ELSE <<s[i]>> \o from[i + 1][s[i] = "?"]]
  IN from[1][FALSE]

NormalizeStatement(s) == Squeeze(Redaction(s))

=============================================================================
