------------------------------ MODULE Startup -------------------------------
(***************************************************************************)
(* The process from its command line to its exit code                      *)
(* (cmd/masqman/main.go: runWithStarter, startMasqman): it loads its       *)
(* configuration, opens the audit log and the two listeners one after      *)
(* another, each of which may fail, serves (module Server) and closes what *)
(* it opened.  A signal may come at any time, also before it serves.       *)
(***************************************************************************)
EXTENDS Server, Configuration

CONSTANTS
  Files,          \* configuration files the process may be started with
  Environments,   \* what the variable of the password may be set to
  PasswordFiles   \* what the password file may hold

ASSUME FilesAssumption ==
  \A f \in Files :
    /\ \A n \in DOMAIN f.numbers : f.numbers[n] \in Int
    /\ "local_users" \in DOMAIN f.settings =>
         LET users == f.settings.local_users IN
         \A i \in DOMAIN users : i \in Nat /\ users[i].blanks \in BOOLEAN

VARIABLES
  stage,    \* how far main has come; closing while its deferred calls run
  file,     \* the configuration file
  secrets,  \* what the environment and the password file hold now
  config,   \* the configuration in effect
  opened,   \* what main has opened and not closed
  exitCode

startupVars == <<stage, file, secrets, config, opened, exitCode>>
allVars == <<vars, startupVars>>

\* The configuration was loaded and is in effect.
Loaded == stage \in {"audit", "mysql_server", "http_listener", "mysql_listener", "serving"}

StartupInit ==
  /\ Init
  /\ stage = "flags"
  /\ file \in Files
  /\ secrets \in [env : Environments, file : PasswordFiles]
  /\ config = [settings |-> Default, numbers |-> DefaultNumbers]
  /\ opened = {}
  /\ exitCode = "none"

-----------------------------------------------------------------------------
Exit(code) == stage' = "exited" /\ exitCode' = code
\* An error: startMasqman returns, and what it opened so far is closed by deferred calls.
Fail == stage' = "closing" /\ UNCHANGED <<opened, exitCode>>

\* It came to serve, and may not have stopped listening yet.
Served == stage = "serving" \/ (stage = "closing" /\ main.at # "first")

\* -version, or a command line without a configuration file.
ParseFlags ==
  /\ stage = "flags"
  /\ \/ stage' = "load" /\ UNCHANGED exitCode
     \/ Exit("0")
     \/ Exit("2")
  /\ UNCHANGED <<vars, file, secrets, config, opened>>

LoadConfig ==
  /\ stage = "load"
  /\ IF Loads(file, secrets)
       THEN stage' = "audit" /\ config' = Effective(file) /\ UNCHANGED exitCode
       ELSE Exit("2") /\ UNCHANGED config
  /\ UNCHANGED <<vars, file, secrets, opened>>

OpenAudit ==
  /\ stage = "audit"
  /\ \/ stage' = "mysql_server" /\ opened' = opened \cup {"audit"} /\ UNCHANGED exitCode
     \/ Fail
  /\ UNCHANGED <<vars, file, secrets, config>>

\* The certificate is loaded, or an RSA key drawn, and either may fail; the HTTP
\* handler that is built next has all it needs.
NewServer ==
  /\ stage = "mysql_server"
  /\ \/ stage' = "http_listener" /\ UNCHANGED <<opened, exitCode>>
     \/ Fail
  /\ UNCHANGED <<vars, file, secrets, config>>

ListenHTTP ==
  /\ stage = "http_listener"
  /\ \/ stage' = "mysql_listener" /\ opened' = opened \cup {"http"} /\ UNCHANGED exitCode
     \/ Fail
  /\ UNCHANGED <<vars, file, secrets, config>>

ListenMySQL ==
  /\ stage = "mysql_listener"
  /\ \/ stage' = "serving" /\ opened' = opened \cup {"mysql"} /\ UNCHANGED exitCode
     \/ Fail
  /\ UNCHANGED <<vars, file, secrets, config>>

Serve == Served /\ ServeStep /\ UNCHANGED startupVars

StopServing ==
  /\ stage = "serving"
  /\ Outcome
  /\ stage' = "closing"
  /\ UNCHANGED <<file, secrets, config, opened, exitCode>>

\* Deferred calls run one by one, the last first.  What Close of the audit log returns
\* matters only if there is no error yet.
DeferredClose ==
  /\ stage = "closing"
  /\ \/ /\ "mysql" \in opened
        /\ opened' = opened \ {"mysql"}
        /\ CloseListener
     \/ /\ "http" \in opened /\ "mysql" \notin opened
        /\ opened' = opened \ {"http"}
        /\ UNCHANGED vars
     \/ /\ opened = {"audit"}
        /\ opened' = {}
        /\ IF Served THEN CloseAudit ELSE UNCHANGED vars
  /\ UNCHANGED <<stage, file, secrets, config, exitCode>>

\* startMasqman has returned.
Leave ==
  /\ stage = "closing"
  /\ opened = {}
  /\ Exit(IF Served /\ main.err = "nil" THEN "0" ELSE "1")
  /\ UNCHANGED <<vars, file, secrets, config, opened>>

Finish == StopServing \/ DeferredClose \/ Leave

SignalEarly ==
  /\ ~ Served /\ stage # "exited"
  /\ Signal
  /\ UNCHANGED startupVars

\* Somebody writes the password file while the process runs; its environment is
\* its own.
PasswordFileChanges ==
  /\ stage # "exited"
  /\ \E contents \in PasswordFiles \ {secrets.file} :
       secrets' = [secrets EXCEPT !.file = contents]
  /\ UNCHANGED <<vars, stage, file, config, opened, exitCode>>

StartStep == ParseFlags \/ LoadConfig \/ OpenAudit \/ NewServer \/ ListenHTTP \/ ListenMySQL

StartupNext == StartStep \/ Serve \/ Finish \/ SignalEarly \/ PasswordFileChanges

StartupSpec == StartupInit /\ [][StartupNext]_allVars

WhileServing(step) == stage = "serving" /\ step /\ UNCHANGED startupVars

\* main goes on, and so does every goroutine, as in Server.
FairStartupSpec ==
  /\ StartupSpec
  /\ WF_allVars(StartStep) /\ WF_allVars(Finish)
  /\ WF_allVars(WhileServing(LoopStep)) /\ WF_allVars(WhileServing(Watch))
  /\ WF_allVars(WhileServing(ResultStep)) /\ WF_allVars(WhileServing(HttpStep))
  /\ WF_allVars(WhileServing(DeadlinePasses))
  /\ \A c \in Connections :
       WF_allVars(WhileServing(SessionStep(c))) /\ WF_allVars(WhileServing(UpstreamAnswers(c)))

-----------------------------------------------------------------------------
(* Properties. *)

\* Whatever the file says, the store and the servers get what they are built on: no
\* limit, window or lifetime is zero or less, and the random names and passwords
\* have the bits that were asked for (applyDefaults, Validate, entropyBytes).
BuiltOnPositiveLimits ==
  Loaded =>
    LET store == OTPStoreConfig(config) IN
    /\ \A n \in DOMAIN config.numbers : config.numbers[n] > 0
    /\ \A k \in DOMAIN store : store[k] > 0
    /\ 8 * store.UsernameBytes >= config.numbers.username_entropy_bits
    /\ 8 * store.PasswordBytes >= config.numbers.password_entropy_bits
    /\ config.numbers.username_entropy_bits >= 96
    /\ config.numbers.password_entropy_bits >= 192

\* In production a file in effect holds no password but refers to one, and a session is
\* opened upstream with what the reference that takes precedence holds by then.  If that
\* is nothing the session fails, and no other source is tried (ProductionValid,
\* UpstreamPassword, called at Load and again by every Connect).
UpstreamSecretByReference ==
  Loaded /\ config.settings.environment = "production" =>
    LET s == config.settings
        used == UpstreamPassword(s, secrets) IN
    /\ s.password = ""
    /\ \/ s.upstream_password_env # "" /\ used \in {secrets.env, NoPassword}
       \/ s.upstream_password_env = "" /\ s.upstream_password_file # ""
            /\ used \in {secrets.file, NoPassword}
    /\ used # ""

\* The name with the blanks around it that it does not have.
WrittenOtherwise(user) == [username |-> user.username, blanks |-> ~ user.blanks]

\* Of the local users a configuration names, if any, each logs in with the password it
\* has in the file, and under that name with no other user's, unless they are equal,
\* and not without one; and the name is only known as it is written (Validate,
\* NewLocalProvider, Authenticate).
EveryUserCanLogIn ==
  Loaded =>
    LET users == config.settings.local_users IN
    \A i, j \in DOMAIN users :
      /\ Authenticate(users, Written(users[i]), users[j].password)
           <=> users[i].password = users[j].password
      /\ ~ Authenticate(users, Written(users[i]), "")
      /\ ~ Authenticate(users, WrittenOtherwise(users[i]), users[j].password)

\* Whichever step of the start fails, and however serving ends, nothing main opened
\* stays open, no session and no server outlives it, and a process that served ends with
\* 0 only if it was asked to end and the audit log could be closed: whichever server
\* stops unasked, and whatever the other one then says, it is an error (serveMasqman,
\* startMasqman and its deferred calls).
ExitsInOrder ==
  stage = "exited" =>
    /\ opened = {}
    /\ Running = {}
    /\ exitCode = "0" /\ main.at # "first" => signalled /\ auditLog = "closed"
    /\ main.at # "first" => listener = "closed" /\ http = "stopped" /\ auditLog # "open"

\* A signal ends the process at any time, cleanly if it serves by then and the audit
\* log can be closed, whether or not its clients leave.  The upstream is assumed to
\* answer: a statement it never answers holds the process up (startMasqman,
\* serveMasqman, ServeContext).
SignalEndsProcess ==
  /\ signalled ~> stage = "exited"
  /\ (signalled /\ stage = "serving")
       ~> (stage = "exited" /\ (exitCode = "0" \/ auditLog = "broken"))

=============================================================================
