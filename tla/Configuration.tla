--------------------------- MODULE Configuration ----------------------------
(***************************************************************************)
(* Loading the configuration (internal/config/config.go) and what the      *)
(* components are built from: the store's settings, the local users        *)
(* (internal/auth/auth.go) and the upstream password, which is looked up   *)
(* again for every session.                                                *)
(*                                                                         *)
(* A file says whether it decodes, whether it has keys nobody knows, and   *)
(* what the others are set to.  Durations are in seconds.  The secrets are *)
(* what the environment and the password file hold at the moment.          *)
(***************************************************************************)
EXTENDS Integers, SequencesExt

NoTLS == [enabled |-> FALSE, cert_file |-> "", key_file |-> ""]

\* Every setting that is a number or a duration, with its default.
DefaultNumbers ==
  [ttl |-> 600, username_entropy_bits |-> 96, password_entropy_bits |-> 192,
   browser_idle_timeout |-> 1800, browser_absolute_limit |-> 43200,
   mysql_idle_timeout |-> 1800, mysql_max_duration |-> 28800, shutdown_drain_deadline |-> 30,
   credential_failures |-> 5, source_failures |-> 20, failure_window |-> 600,
   credential_issuance_user_limit |-> 10, credential_issuance_session_limit |-> 5,
   credential_issuance_window |-> 600, max_mysql_sessions |-> 100,
   max_query_bytes |-> 65536, max_result_rows |-> 10000, max_result_bytes |-> 67108864]

Default ==
  [environment |-> "development", http_addr |-> "127.0.0.1:8080", mysql_addr |-> "127.0.0.1:3307",
   http_tls |-> NoTLS, mysql_tls |-> NoTLS, tls_skip_verify |-> FALSE, password |-> "",
   upstream_password_env |-> "", upstream_password_file |-> "", local_users |-> <<>>]

\* Over the function f, the values g gives.
Over(f, g) == [k \in DOMAIN f |-> IF k \in DOMAIN g THEN g[k] ELSE f[k]]

\* The file is decoded into the defaults: a key it does not have keeps its default.
Decode(file) ==
  [settings |-> Over(Default, file.settings), numbers |-> Over(DefaultNumbers, file.numbers)]

\* Mutant: zero is a value.
ApplyDefaultsNegative(c) ==
  [c EXCEPT !.numbers = [n \in DOMAIN @ |-> IF @[n] < 0 THEN DefaultNumbers[n] ELSE @[n]]]

\* A key set to nothing gets its default after all; a flag is left as it is.
ApplyDefaults(c) ==
  [settings |->
     [k \in DOMAIN c.settings |->
        IF k \in {"environment", "http_addr", "mysql_addr"} /\ c.settings[k] = ""
          THEN Default[k] ELSE c.settings[k]],
   numbers |->
     [n \in DOMAIN c.numbers |->
        IF c.numbers[n] <= 0 THEN DefaultNumbers[n] ELSE c.numbers[n]]]

-----------------------------------------------------------------------------
NoPassword == "no password"

\* Mutant: a reference that does not resolve falls through to the next source.
UpstreamPasswordFallThrough(s, secrets) ==
  IF s.upstream_password_env # "" /\ secrets.env # "" THEN secrets.env
  ELSE IF s.upstream_password_file # "" /\ secrets.file # "" THEN secrets.file
  ELSE s.password

\* A reference takes precedence over the inline password, the environment over the
\* file.  A variable that is unset is like an empty one, a file that cannot be read
\* like one with nothing but line ends.
UpstreamPassword(s, secrets) ==
  IF s.upstream_password_env # ""
    THEN IF secrets.env = "" THEN NoPassword ELSE secrets.env
  ELSE IF s.upstream_password_file # ""
    THEN IF secrets.file = "" THEN NoPassword ELSE secrets.file
  ELSE s.password

\* Mutant: names are compared as they are written.
LocalUsersValidUntrimmed(users) ==
  /\ \A i \in DOMAIN users : users[i].username # "" /\ users[i].password # ""
  /\ \A i, j \in DOMAIN users : i # j => users[i] # users[j]

\* A user name may be written with blanks around it; without them it is unique.
LocalUsersValid(users) ==
  /\ \A i \in DOMAIN users : users[i].username # "" /\ users[i].password # ""
  /\ \A i, j \in DOMAIN users : i # j => users[i].username # users[j].username

ProductionValid(s, secrets) ==
  /\ s.http_tls.enabled /\ s.mysql_tls.enabled
  /\ ~ s.tls_skip_verify
  /\ s.upstream_password_env # "" \/ s.upstream_password_file # ""
  /\ s.password = ""
  /\ UpstreamPassword(s, secrets) # NoPassword

TLSValid(tls) == tls.enabled => "" \notin {tls.cert_file, tls.key_file}

Validate(c, secrets) ==
  LET s == c.settings IN
  /\ s.environment \in {"development", "production"}
  /\ "" \notin {s.http_addr, s.mysql_addr}
  /\ TLSValid(s.http_tls) /\ TLSValid(s.mysql_tls)
  /\ s.environment = "production" => ProductionValid(s, secrets)
  /\ c.numbers.username_entropy_bits >= 96
  /\ c.numbers.password_entropy_bits >= 192
  /\ LocalUsersValid(s.local_users)
  /\ \A n \in {"max_query_bytes", "max_result_rows", "max_result_bytes", "max_mysql_sessions"} :
       c.numbers[n] > 0

Effective(file) == ApplyDefaults(Decode(file))

\* Load succeeds.
Loads(file, secrets) ==
  file.decodes /\ ~ file.unknown /\ Validate(Effective(file), secrets)

-----------------------------------------------------------------------------
(* What is built from it. *)

\* Mutant: bits that are no whole byte are cut off.
EntropyBytesCut(bits) == bits \div 8
EntropyBytes(bits) == (bits + 7) \div 8

OTPStoreConfig(c) ==
  [TTL |-> c.numbers.ttl,
   CredentialFailureLimit |-> c.numbers.credential_failures,
   SourceFailureLimit |-> c.numbers.source_failures,
   SourceFailureWindow |-> c.numbers.failure_window,
   UserLimit |-> c.numbers.credential_issuance_user_limit,
   SessionLimit |-> c.numbers.credential_issuance_session_limit,
   IssuanceWindow |-> c.numbers.credential_issuance_window,
   UsernameBytes |-> EntropyBytes(c.numbers.username_entropy_bits),
   PasswordBytes |-> EntropyBytes(c.numbers.password_entropy_bits)]

\* LocalProvider: the last of several users of one name, as it is written, counts.
Written(user) == [username |-> user.username, blanks |-> user.blanks]
Authenticate(users, name, password) ==
  LET named == {i \in DOMAIN users : Written(users[i]) = name} IN
  /\ named # {}
  /\ \E i \in named : (\A j \in named : j <= i) /\ users[i].password = password

=============================================================================
