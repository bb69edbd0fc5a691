------------------------------ MODULE SQLLexer ------------------------------
(***************************************************************************)
(* How the server reads a text, one element at a time: in which mode it    *)
(* is before each of them.  This is the reference the scanners of SQLText  *)
(* are measured by, so it shares none of their predicates: what a comment  *)
(* is and what white space is, it says itself.  A string or an identifier  *)
(* whose quote is doubled ends and begins anew, which comes to the same.   *)
(***************************************************************************)
EXTENDS SQLText

WhiteSpace == {" ", "\n", VerticalTab}

\* Two dashes make a comment before white space, before any control character, and at
\* the end of the text.
IsLineComment(s, i) ==
  \/ s[i] = "#"
  \/ /\ s[i] = "-" /\ At(s, i + 1) = "-"
     /\ At(s, i + 2) \in WhiteSpace \cup {Control, EndOfText}
BeginsComment(s, i) ==
  \/ IsLineComment(s, i)
  \/ s[i] = "/" /\ At(s, i + 1) = "*"

Escaped(quote) == IF quote = "'" THEN "escaped in '" ELSE "escaped in \""

AfterLineElement(s, i) == IF At(s, i + 1) = "\n" THEN "code" ELSE "line"

AfterCode(s, i) ==
  CASE s[i] \in Quotes -> s[i]
    [] s[i] = BackQuote -> "identifier"
    [] s[i] = "/" /\ At(s, i + 1) = "*" -> "opening"
    [] IsLineComment(s, i) -> AfterLineElement(s, i)
    [] OTHER -> "code"

ModeAfter(s, i, mode) ==
  CASE mode = "code" -> AfterCode(s, i)
    [] mode = "line" -> AfterLineElement(s, i)
    [] mode = "identifier" -> IF s[i] = BackQuote THEN "code" ELSE mode
    [] mode = "opening" -> IF At(s, i + 1) = "!" THEN "executable" ELSE "block"
    [] mode \in {"block", "executable"} -> IF s[i] = "*" /\ At(s, i + 1) = "/" THEN "closing" ELSE mode
    [] mode = "closing" -> "code"
    [] mode \in Quotes ->
         IF s[i] = mode THEN "code" ELSE IF s[i] = "\\" THEN Escaped(mode) ELSE mode
    [] mode = Escaped("'") -> "'"
    [] mode = Escaped("\"") -> "\""

Modes(s) ==
  LET mode[i \in 1 .. Len(s) + 1] ==
        IF i = 1 THEN "code" ELSE ModeAfter(s, i - 1, mode[i - 1])
  IN mode

\* Element i belongs to a string, a number or a comment.
InLiteral(s, i) ==
  \/ Modes(s)[i] \notin {"code", "identifier"}
  \/ /\ Modes(s)[i] = "code"
     /\ s[i] \in Quotes \cup Digits \/ BeginsComment(s, i)

\* Element i is nothing to the server: white space, or part of a comment.
Blank(s, i) ==
  \/ Modes(s)[i] \in {"line", "opening", "block", "executable", "closing"}
  \/ Modes(s)[i] = "code" /\ (s[i] \in WhiteSpace \/ BeginsComment(s, i))

\* Element i is something to the server outside of quotes; what words and signs the text
\* consists of, quoted or not.
Code(s, i) == Modes(s)[i] = "code" /\ ~ Blank(s, i)
Word(s, i) ==
  /\ Code(s, i) \/ Modes(s)[i] = "identifier"
  /\ s[i] \notin WhiteSpace \cup {BackQuote}

\* The last thing in the text is a semicolon.
Terminated(s) ==
  \E i \in DOMAIN s :
    Modes(s)[i] = "code" /\ s[i] = ";" /\ \A j \in i + 1 .. Len(s) : Blank(s, j)

\* A call that is COUNT(*) starts at i.
IsCountStar(s, i) ==
  \E a, b, c \in i + 1 .. Len(s) :
    /\ a < b /\ b < c
    /\ Lower(s)[i] = "count" /\ s[a] = "(" /\ s[b] = "*" /\ s[c] = ")"
    /\ \A k \in {i, a, b, c} : Modes(s)[k] = "code" /\ ~ BeginsComment(s, k)
    /\ \A k \in i .. c : k \in {i, a, b, c} \/ Blank(s, k)

HasExecutable(s) == \E i \in DOMAIN s : Modes(s)[i] = "executable"

\* The last comment is closed.
Closed(s) == Modes(s)[Len(s) + 1] \notin {"block", "executable"}

-----------------------------------------------------------------------------
(* Where the scanners, the parser and the server do not read alike. *)

\* A comment that begins with two dashes has white space behind them that isSpaceByte
\* knows; and no other white space stands between the words.
DashesSpaced(s) ==
  \A i \in DOMAIN s :
    Modes(s)[i] = "code" /\ s[i] = "-" /\ IsLineComment(s, i) => At(s, i + 2) \in {" ", "\n"}
BlanksKnown(s) == \A i \in DOMAIN s : Modes(s)[i] = "code" => s[i] # VerticalTab

\* The parser takes what is in /*T! ... */ for code, and two dashes before a control
\* character for two signs.
ReadAlike(s) ==
  \A i \in DOMAIN s :
    Modes(s)[i] = "code" =>
      /\ ~ (s[i] = "/" /\ At(s, i + 1) = "*" /\ At(s, i + 2) = "T" /\ At(s, i + 3) = "!")
      /\ ~ (s[i] = "-" /\ At(s, i + 1) = "-" /\ At(s, i + 2) = Control)

\* The redaction knows neither quoted identifiers nor executable comments, nor all the
\* comments that begin with two dashes.
Regular(s) ==
  /\ DashesSpaced(s)
  /\ \A i \in DOMAIN s :
       Modes(s)[i] \in {"identifier", "executable"} => s[i] \notin Quotes /\ ~ BeginsComment(s, i)
  /\ Closed(s)

=============================================================================
