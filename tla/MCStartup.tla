----------------------------- MODULE MCStartup ------------------------------
(***************************************************************************)
(* Configuration files for Startup: two that are complete, for development *)
(* and for production, and everything one or two keys can change of them.  *)
(***************************************************************************)
EXTENDS Startup

Given == [enabled |-> TRUE, cert_file |-> "cert.pem", key_file |-> "key.pem"]
User(username, blanks, password) ==
  [username |-> username, blanks |-> blanks, password |-> password]

Development == <<>>
Production ==
  [environment |-> "production", http_tls |-> Given, mysql_tls |-> Given,
   upstream_password_env |-> "MASQMAN_PASSWORD"]

File(settings, numbers) ==
  [decodes |-> TRUE, unknown |-> FALSE, settings |-> settings, numbers |-> numbers]

\* The settings f with one key set to v.
With(f, k, v) == [j \in DOMAIN f \cup {k} |-> IF j = k THEN v ELSE f[j]]

TLSes == {NoTLS, Given, [Given EXCEPT !.cert_file = ""], [Given EXCEPT !.key_file = ""]}
UserLists ==
  {<<User("alice", FALSE, "p")>>, <<User("alice", FALSE, "p"), User("bob", TRUE, "q")>>,
   <<User("alice", FALSE, "p"), User("alice", FALSE, "q")>>,
   <<User("alice", FALSE, "p"), User("alice", TRUE, "q")>>,
   <<User("", TRUE, "p")>>, <<User("alice", FALSE, "")>>}

Changes ==
  {<<"environment", e>> : e \in {"", "staging", "development", "production"}}
    \cup {<<"http_addr", "">>, <<"mysql_addr", "">>, <<"tls_skip_verify", TRUE>>,
          <<"password", "inline">>, <<"upstream_password_env", "">>,
          <<"upstream_password_env", "MASQMAN_PASSWORD">>,
          <<"upstream_password_file", "password.txt">>}
    \cup ({"http_tls", "mysql_tls"} \X TLSes)
    \cup ({"local_users"} \X UserLists)

Numbers(k, v) == [n \in {k} |-> v]
NumberChanges ==
  {Numbers(k, v) : k \in DOMAIN DefaultNumbers, v \in {-1, 0, 1}}
    \cup {Numbers("username_entropy_bits", v) : v \in {95, 97}}
    \cup {Numbers("password_entropy_bits", v) : v \in {191, 193}}

MCFiles ==
  {File(s, <<>>) : s \in {Development, Production}}
    \cup {[File(Production, <<>>) EXCEPT !.unknown = TRUE],
          [File(Production, <<>>) EXCEPT !.decodes = FALSE]}
    \cup {File(With(s, c[1], c[2]), <<>>) : s \in {Development, Production}, c \in Changes}
    \cup {File(With(With(Production, c[1], c[2]), d[1], d[2]), <<>>) : c, d \in Changes}
    \cup {File(Development, n) : n \in NumberChanges}

\* Of the configuration, nothing a process does while it serves or ends, and no property
\* of it, depends on anything but the references to the password, in production; all of
\* it is looked at before.
ServingView ==
  <<vars, stage, secrets, opened, exitCode,
    CASE stage \in {"closing", "exited"} -> <<>>
      [] stage # "serving" -> <<file, config>>
      [] config.settings.environment = "development" -> <<>>
      [] OTHER -> <<config.settings.password,
                    config.settings.upstream_password_env,
                    config.settings.upstream_password_file>>>>

=============================================================================
