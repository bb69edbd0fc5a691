-------------------------- MODULE MCClientSession ---------------------------
(* Values for the constants of ClientSession. *)
EXTENDS ClientSession

Select(contexts) ==
  [tooLarge |-> FALSE, kind |-> "allow_read", contexts |-> contexts, maxPacket |-> FALSE]
Probe(context) ==
  [Select(<<context>>) EXCEPT !.kind = "allow_operational_read"]

\* SELECT *; COUNT(*); a+b; a, a+b; SELECT 1 and NOW() and @@max_allowed_packet; SET
\* NAMES; an INSERT; a statement over the limit.
MCStatements ==
  {Select(<<>>), Select(<<"count_star">>), Select(<<"unknown">>), Select(<<"literal">>),
   Select(<<"column", "unknown">>), Probe("literal"), Probe("safe_builtin"),
   [Probe("safe_builtin") EXCEPT !.maxPacket = TRUE],
   [Select(<<>>) EXCEPT !.kind = "allow_setup"],
   [Select(<<>>) EXCEPT !.kind = "reject"],
   [Select(<<>>) EXCEPT !.tooLarge = TRUE]}

Rows(n, fields) ==
  [kind |-> "result", fields |-> fields, rows |-> n, more |-> FALSE, streaming |-> FALSE]
Value(origin, value) == [origin |-> origin, value |-> value]

\* No rows, an OK packet that is still streaming, each kind of field, a row too many,
\* bytes too many before and after masking, a second resultset, and errors.
MCResponses ==
  {Rows(0, <<>>), [Rows(0, <<>>) EXCEPT !.streaming = TRUE]}
  \cup {Rows(1, <<Value(origin, value)>>) :
          origin \in {"allowed", "denied", "none"}, value \in {"null", "raw", "mask"}}
  \cup {Rows(1, <<Value("denied", "raw"), Value("none", "raw")>>),
        Rows(2, <<Value("allowed", "raw")>>), Rows(2, <<Value("denied", "raw")>>),
        Rows(3, <<Value("allowed", "raw")>>), Rows(2, <<Value("allowed", "mask")>>),
        [Rows(1, <<Value("allowed", "raw")>>) EXCEPT !.more = TRUE],
        [Rows(0, <<>>) EXCEPT !.kind = "mysql_error"],
        [Rows(0, <<>>) EXCEPT !.kind = "conn_error"]}

=============================================================================
