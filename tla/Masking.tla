------------------------------ MODULE Masking -------------------------------
(***************************************************************************)
(* The masking policy (internal/masking/policy.go): rule tables built from *)
(* the configuration, looked up with the physical origin the upstream      *)
(* reports for each field of a result.  A name is a text, as in SQLText,   *)
(* so that the keys of the tables are made as the code makes them.         *)
(***************************************************************************)
EXTENDS SQLText

NoName == <<>>

NumericTypes == {"tiny", "short", "long", "float", "double", "longlong", "int24", "year",
                 "decimal", "newdecimal"}
DateTypes == {"date", "newdate"}
TimeTypes == {"time", "time2"}
TimestampTypes == {"timestamp", "timestamp2", "datetime", "datetime2"}
BytesTypes == {"bit", "vector", "tiny_blob", "medium_blob", "long_blob", "blob",
               "var_string", "string"}

\* The coarse type of a field: bytes are binary only with the binary flag.
MaskingTypeFamily(type, binary) ==
  CASE type \in NumericTypes -> "numeric"
    [] type \in DateTypes -> "date"
    [] type \in TimeTypes -> "time"
    [] type \in TimestampTypes -> "timestamp"
    [] type \in BytesTypes /\ binary -> "binary"
    [] OTHER -> "text"

MaskOf ==
  [numeric |-> "0", date |-> "0000-00-00", time |-> "00:00:00",
   timestamp |-> "0000-00-00 00:00:00", binary |-> "", text |-> "***MASKED***"]

OriginKey(schema, table) == Lower(schema) \o <<".">> \o Lower(table)

\* A rule of allow_tables allows all columns whatever it says itself.
Rules(config) ==
  config.tableRules
    \cup {[rule EXCEPT !.allColumns = TRUE] : rule \in config.allowTables}
    \cup config.allowColumns

NewPolicy(config) ==
  [tableAll |-> {OriginKey(r.schema, r.table) : r \in {q \in Rules(config) : q.allColumns}},
   tableColumns |->
     UNION {{<<OriginKey(r.schema, r.table), Lower(c)>> : c \in r.columns} : r \in Rules(config)},
   globalColumns |-> {Lower(c) : c \in config.globalColumns \cup config.allowColumnNames}]

\* A field with any part of its origin missing is never allowed.
Allowed(policy, f) ==
  LET key == OriginKey(f.schema, f.table) IN
  /\ NoName \notin {f.schema, f.table, f.column}
  /\ \/ key \in policy.tableAll
     \/ <<key, Lower(f.column)>> \in policy.tableColumns
     \/ Lower(f.column) \in policy.globalColumns

Mask(policy, f, value) ==
  IF value = "null" \/ Allowed(policy, f) THEN value
  ELSE MaskOf[MaskingTypeFamily(f.type, f.binary)]

=============================================================================
