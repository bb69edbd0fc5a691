# Verification of masqman

masqman is a masking proxy for MySQL. A user logs in on a web page, is issued a
one-time MySQL username and password, and connects with them to the proxy, which
forwards read statements to the upstream server, masks what comes back and audits
every statement. This directory holds TLA+ models of the parts of it in which
something can go wrong that a test would hardly reach, the TLC runs that check
them, and TLAPS proofs of most of what the runs check. `PROJECT.json` maps each
definition to the lines it was translated from and lists the hazards the
properties are about.

## Inventory

| Part | State it keeps | Operations | What is hard | What makes it correct |
| --- | --- | --- | --- | --- |
| One-time credential store, `internal/otp` | credentials; failures per source; issues per user and per browser session; all in memory under one mutex | `Issue`, `PendingCredential`, `Consume`, `RecordFailure` | lazy expiry and lazy pruning; the check (lookup) and the act (consume, count a failure) are separate calls of concurrent connections | a credential is used at most once, in time and before too many failures; rate limits hold for every window; passwords leave memory |
| Session authentication, `internal/mysqlproxy/session_authentication_handler.go`, `authentication_handler.go` | per connection: the session handler, the upstream connection; go-mysql's password cache, shared | `GetCredential`, `OnAuthSuccess`, `OnAuthFailure` | connections race for one credential; five steps after the password matched can each fail | one session per credential; no session without consume, TLS and audit; no upstream left open; guesses bounded |
| Session handlers, `policy_handler.go`, `deferred_session_handler.go`, `forwarding_handler.go` | closed flags and terminal errors in three layers, the decision and masked-value count of the last statement | `HandleQuery`, `UseDB`, the commands that are refused | state left from the last statement; failures of upstream, limits, masking, audit and client in any order | layers agree, nothing unaudited or unmasked is shown, counts are of this statement |
| Accept loop, `server.go` | session slots, active connections | `ServeContext` | accepting races with cancellation; cleanup runs in other goroutines | slots are exact; cancellation reaches every connection |
| Process, `cmd/masqman/main.go` | two servers under one context, the audit log | `startMasqman`, `serveMasqman`, `serveHTTPContext` | any step of the start failing; one server failing; signals; a drain deadline | ends after a signal, with the right exit code; the audit log is closed last; nothing stays open |
| Audit log, `internal/audit` | audit file and numbered backups | `Log`, `Close`, rotation, `NormalizeStatement` | a failing system call, or the end of the process, in the middle of a rotation; short writes | only the oldest events go, the newest stays, files keep their size; no literal is logged |
| Browser sessions and pages, `internal/authhttp`, `internal/auth` | sessions with an idle and an absolute limit, CSRF tokens | login, logout, page, issue | a request is three steps, with a logout, an expiry or a login between any two; two limits compared differently | nothing for a session that has ended; only use prolongs one |
| SQL classifier, `internal/sqlpolicy` | none | `Classify` | a parser and four scanners of the text must agree | what is let through is harmless |
| Masking policy, `internal/masking` | rule tables | `Mask` | rules by table, column and name, joined by the origin of a field | a value is shown only if every column it comes from may be |
| Configuration, `internal/config`, `internal/auth` | none | `Load`, `Validate`, `UpstreamPassword` | defaults, production requirements, secrets resolved twice | limits positive, secrets by reference, each user has one password and one name |

The parts interact by calls. A connection's goroutine calls go-mysql, which calls
the authentication handler during the handshake and the session handlers for each
command; these call the credential store (shared, with a mutex), the audit log
(shared, with a mutex) and one upstream connection of their own. The HTTP handlers
share the credential store. The watcher goroutine of `ServeContext` closes client
connections under their goroutines. Nothing but the audit files survives the
process.

## Modules

| Module | Models | State and actions |
| --- | --- | --- |
| `OneTimeCredential` | abstract: what the store promises of a credential, with eager expiry | `Issue`, `Use`, `Strike`, `Tick` |
| `OTPStore` | `internal/otp/store.go` | the maps of `Store` and the clock; one action per exported method, since each holds the mutex throughout. A credential is its username. A bucket entry carries its event besides the timestamp, so that a bucket is a set |
| `ProxyAuth` | the handshake of concurrent connections, extending `OTPStore` | `conn`: per slot, where its goroutine is and what it holds; one action per call another goroutine can get in between. The go-mysql handshake is external |
| `ClientSession` | the command loop of one accepted session | `deferred`, `handler`, `upstream` are the fields of the Go structs; `AnswerLocally`/`Forward`, `Execute`, `AuditQuery`/`AuditFails`, `Reply` are the parts of `HandleQuery` between calls that can fail |
| `AuditedSession` | abstract: what a session promises its client and its auditor, the three handlers and the connection as one | `Ask`, `Execute`, `Settle`, `Record`, `FailToRecord`, `Command`, `Answer`, `Continue`, `End` |
| `Server` | `ServeContext`, `serveMasqman`, `serveHTTPContext` | one action per step of the accept loop, watcher, connection goroutine, HTTP server and main |
| `Configuration` | `Load`, `Validate`, the settings of the store, the local users, the upstream password | operators; a file is what its keys are set to |
| `Startup` | `runWithStarter`, `startMasqman`, extending `Server` and `Configuration` | `ParseFlags`, `LoadConfig`, `OpenAudit`, `NewServer`, `ListenHTTP`, `ListenMySQL`, each of which can fail, `Serve` (any step of `Server`) and `Finish`, in which the deferred calls run one by one (`StopServing`, `DeferredClose`, `Leave`); a signal may come, and the password file change, at any time |
| `AuditLog` | `internal/audit/logger.go` | `disk`, `handle` and the system call `Log` is at; one action per system call, each of which can fail, and `Kill` |
| `EventLog` | abstract: what the audit log promises, without files, failures and restarts | `Come`, `Record`, `Lose` |
| `EagerSession` | abstract: what the browser session store promises of a session | `Open`, `Use`, `End`, `Tick` |
| `BrowserSessions` | `internal/authhttp`, extending `OTPStore` | `browserSessions` is the map; `request`: per request in progress, where its handler is; one action per call of `SessionStore`, each of which holds the mutex, and of the store |
| `SQLText` | the scanners of the classifier and of `NormalizeStatement` | operators on texts, which are sequences of bytes and of runs of letters or digits. All scanners share `Scan`: go on from a position to the next and write something |
| `SQLLexer` | external: how the server reads a text, one element at a time; what the scanners are measured by. It takes nothing from them but the names of the bytes: what a comment and what white space is, it says itself | `Modes`: string, comment, identifier or code before each element; `ReadAlike`, `DashesSpaced`, `BlanksKnown`, `Regular`: texts in which scanners, parser and server see the same |
| `SQLPolicy` | `Classify` | operators on the text and the branches of the parser's tree |
| `Masking` | `NewStaticPolicy`, `Mask`, type families | operators on rule tables and origins |
| `QueryPolicy` | one statement through `SQLPolicy`, the upstream, `Masking` and `NormalizeStatement` | `Decide`, `Execute`, `Audit` |
| `MC...` | values of constants for TLC | |
| `...Proofs` | theorems | see below |

`ProxyAuth` and `BrowserSessions` compose with the store by extension: their steps
call the store's actions. `Startup` composes with `Server` in the same way.
`ClientSession` starts where `ProxyAuth` says "established"; `Server` sees of a
session only whether it waits for its client or for the upstream. What the
classifier and the masking policy decide is nondeterministic in `ClientSession`,
where the order of the steps is at stake, and computed in `QueryPolicy`, where the
decisions are. The audit log is, in `ProxyAuth`, `ClientSession` and `Server`, a
call that succeeds or fails.

Abstractions. In `ClientSession` a statement is the classifier's decision about it;
a value is NULL, raw text or text equal to its mask; a field's origin is allowed,
denied or absent; rows of one response are alike. Conversion failures (rows that do
not parse) take the same way out as a response over a limit. Passwords are right or
wrong. Random usernames, session IDs and tokens do not collide. In `QueryPolicy` a
statement comes with what is true of it (whether it is terminated, which calls are
exactly `COUNT(*)`, which columns each field is computed from, what it changes in
the session); the code has to find that out, and only the properties look at it.
What the runs lay out by construction must be what `SQLLexer` reads in the text
(`TextContract`), so that the two references are checked against each other; where
parser and server read differently, the contract asks nothing of the tree.
Of an audited event the size matters, and whether all of it was written; the size
of a file is what the operating system reports.

Some definitions stand for code outside `src/`: the go-mysql server, the SQL parser,
the HTTP server, the network and the operating system. They are marked external in
the map.

## Runs

| Run | Shows | Bounds, and why they are enough |
| --- | --- | --- |
| `auth_race` | one session per credential, accepted properly; no upstream leak; guesses bounded; passwords held exactly while usable; the throttle exact; the store implements `OneTimeCredential`; a matching password is answered | two slots that can be reused, one credential, TLS required, every failure: two are what it takes for a race; two ticks with a window and a lifetime of one, so that a credential expires and buckets go stale between calls; three failures with limits of one and two, so that either limit can be the one that refuses |
| `auth_consumed` | violated, see findings | as `auth_race` |
| `store_expiry` | violated, see findings | one credential, which nobody presents |
| `browser` | nothing is served to a session that ended; only use prolongs a session; the session map implements `EagerSession`; issuance is bounded for every window and pruning loses nothing | two requests, two sessions of one user, two credentials; an idle lifetime of two and an absolute one of three within three ticks: either limit can be the first, also for a session that was used; the user's limit is two and the session's one, so that either can be the one that refuses |
| `session` | the handlers implement `AuditedSession`; what is shown is masked as decided, complete, within the limits and counted exactly; a closed session ends | eleven statements, one for each way the handlers treat one, nineteen responses, one for each check, limits of two rows and three bytes; the number of commands is not bounded |
| `session_count` | violated, see findings | as `session` |
| `server` | from the command line to the exit code: the configuration in effect is sound, slots exact, cancellation complete, the audit log closed last, nothing left open, and a signal ends the process | some 290 files: two that are complete, every change of one key and, for production, of two; three clients, two slots, one of whom can be refused; clients may dial again without bound |
| `server_exit`, `server_drain` | violated, see findings | two clients |
| `audit_rotation` | the files implement `EventLog`: events in order, acknowledged when whole, lost from the oldest on and never all; files keep their size | seven events of one or two bytes, files of three, two backups, three kills: backups fill up and fall off, and rotations are interrupted again and again |
| `policy` | what is let through is harmless, scanners agree with the server, what is shown is permitted, what is logged is redacted, each within the conditions it names (see "Texts that are not read alike") | every item with every tail, filler and ending (comments, quotes and terminators between all words); every pair of items, for the facts of one field applied to another, a column that is computed from two among them; all combinations of a few masking rules; comments and strings that are never closed; two dashes before a vertical tab, before a control character, before a digit and at the end; a vertical tab between words; a comment only the parser reads as code |
| `audit_literals` | violated, see findings | as `policy` |

`auth_race`, `browser` and `server` take a minute or two with two workers and reach
0.9, 1.4 and 0.35 million states; the others take seconds.

Symmetry is used for `Connections`, `Requests`, `Sessions` and `Usernames` where no
liveness is checked. Two views leave something out of the state:

- `ViewWithoutReply`: what the last call of the store returned is read in the step
  that made the call and by no other action or invariant; the action properties
  that read it are evaluated on every step.
- `ServingView`: while the process serves, no action and no property depends on its
  configuration but for the production references to the upstream password.
  (`MaxMySQLSessions` is a constant of the model, whereas its default in the
  configuration is 100: slots matter to `Server` only by being fewer than clients.)

Deadlock checking is off only where the system really stops: a session ends
(`ClientSession`), the process ends (`Server`, `Startup`), a statement is dealt with
(`QueryPolicy`). In the store, `ProxyAuth` and `BrowserSessions` the bounds `MaxClock`
and `MaxFailures` stop the clock and the counting of failures; in `AuditLog`,
`MaxEvents` and `MaxKills`. The theorems hold for every value of these bounds.

Each property of a passing run has a mutant in `PROJECT.json`: a changed definition,
kept next to the original, under which the run finds the property violated.

### Fairness

- `TimedSpec` (`store_expiry`): time passes. Nothing is assumed of callers.
- `FairProxySpec` (`auth_race`): weak fairness of what the goroutine does after
  the password matched. The dial has a timeout, the store and the audit log hold
  their mutexes briefly, and a replay of `USE` is assumed to return: it has no
  timeout in the code. Clients are not assumed to do anything.
- `FairSpec` of `ClientSession`: weak fairness of the steps that need neither the
  client nor the upstream.
- `FairStartupSpec` (`server`) and `FairSpec` of `Server` (`server_exit`): main and
  every goroutine run on and the deadline passes. That the upstream answers is
  assumed, not enforced by the code; clients need not leave.

## Findings

Where the code does not do what a document says of it, a run shows it:

- `store_expiry`: password material of an expired credential stays in memory until
  somebody presents the username (adr/0001, line 42, wants it cleared on expiry).
- `auth_consumed`: the credential is consumed before the audit and before OK, so
  that a failure there uses it up without a session (initial-architecture.md:106).
- `session_count`: a rejected statement is audited with the masked-value count of
  the one before it (m1-implementation.md:247).
- `server_exit`: when `Accept` fails, the HTTP server is not cancelled until the
  last MySQL session has ended (m1-implementation.md:278).
- `server_drain`: on shutdown sessions are closed at once, without the drain
  deadline (mysql-masking-proxy.md:170).
- `audit_literals`: literals and comments reach the audit log
  (mysql-masking-proxy.md:237 says they must not). A comment of two dashes does if
  what follows them is a vertical tab or another control character: it is a comment to
  MySQL and not to `isDashDashComment`. And a quote inside a quoted identifier makes
  `NormalizeStatement` take literals and comments for identifiers. `LiteralsStayOut`
  proves that, measured by `SQLLexer`, these are two of four ways, the others being
  quotes and comments inside executable comments, and a block comment that is not
  closed, both in statements that are as a rule rejected, but audited like any other.

Observations without a run of their own:

- Unknown commands and prepared statements are refused but not audited, against
  initial-architecture.md:226. (`OtherCommand`.)
- When a statement returns a second resultset the upstream connection is closed
  before the event is written, against mysql-masking-proxy.md:152, which has it the
  other way round. (`ExecuteRefused`.)
- go-mysql's cache entry is invalidated only after a successful `Consume`, and written
  by every handshake whose password matched. While a connection is being accepted, or
  after its upstream connection failed, another handshake can hit the cache
  (initial-architecture.md:125 has no cache hits), and a handshake that loses the race
  for a credential can leave an entry behind for good. The model follows the entries
  (`cache`), but no action depends on them: a hit and a miss end alike, since what is
  cached for a username is made of the only password it ever has. Hence no property is
  about the cache; `SingleSession` holds because every way in passes through `Consume`.
- `select 1;--` is terminated to the server and the parser, but not to
  `hasTrailingStatementTerminator`, which knows no comment of two dashes at the end of
  the text; so is `select 1; --` with a vertical tab behind it. The semicolon and the
  dashes stay in the text decided on, so that a probe or a setup statement written like
  that is not recognized as one, and nothing else follows. (`ScannersAgree`.)
- A logout between the check of a request and its `Issue` does not stop the issue:
  the request is served, since its session was open when it was looked up.
  `ServedProperly` is stated accordingly. (`IssueCredential`.)
- The issue of a credential is not audited, though mysql-masking-proxy.md:96-97 lists
  it. A second login leaves the first session open. Browser sessions that nobody
  comes back for are never removed from the map.
- After a short write the next event continues the partial line, so an acknowledged
  event may not parse. (`ShortWrite`.)
- An event larger than `max_bytes` rotates an empty file; repeated, with writes
  that fail, that pushes acknowledged events out. `KeepsNewest` excludes such events.
- After a rotation that failed, every `Log` fails until a restart, and the final
  `Close` fails too, so that a process that was asked to end exits with 1.
  (`Fail`; `auditLog = "broken"` in `ExitsInOrder`.)
- `SET NAMES 'utf8'` is rejected, since the scanner turns every string into a
  placeholder. After an executable comment the scanners lose their way, but the
  statement is rejected, unless the comment is one `isDashDashComment` does not see
  the beginning of. `NO_BACKSLASH_ESCAPES` is not considered.
- Of a block comment that is not closed the scanners of the classifier and of the
  audit log leave the last byte. To the classifier that makes no difference: such a
  text does not parse. (`BlockEnd`.)
- `mysql_idle_timeout` and `mysql_max_duration` are configured and used by nothing.
- Production does not require TLS towards the upstream.

### Texts that are not read alike

The proxy decides by the tree of the TiDB parser and by scans of the text of its own;
the server executes what the server reads. Where these differ, what is true of the tree
need not be true of what is executed, so the properties of `QueryPolicy` name the texts
they are about. `SQLLexer` is the server's reading.

| Text | Scanners | Parser | Server | Condition that leaves it out |
| --- | --- | --- | --- | --- |
| two dashes before a vertical tab, or at the end | two signs | comment | comment | `DashesSpaced` |
| two dashes before another control character | two signs | two signs | comment | `DashesSpaced`, `ReadAlike` |
| a vertical tab between words | a byte, in `hasTrailingStatementTerminator` and `compactSQLSyntax`; a blank, in `normalize` | blank | blank | `BlanksKnown` |
| `/*T! ... */` | comment | code, for some features | comment | `ReadAlike` |
| `/*! ... */` | kept, and rejected | code | code, by version | `~ executable` |

`TreeIsTrue` is `ReadAlike` and no executable comment. Under it a statement allowed as a
read is harmless, a probe or setup does no more than it should, and a field without an
origin is shown only if it reads nothing that is masked. Outside of it none of this is
claimed: the code assumes that the parser reads as the server does, and looks for
`/*!` only (`Classify`), so that what the parser alone takes for code, such as
`/*T! ... */`, is judged although the server skips it. What needs no tree is claimed of
every text: a field with an origin is shown only if that column is permitted.

## Proofs

Every theorem holds for every value of the constants that satisfies the named
assumption of its module: any number of users, credentials, sources, connections,
requests, files, backups, any limits, windows and lifetimes. Nothing is assumed
about liveness of anybody.

| Assumption | Says | Why the code justifies it |
| --- | --- | --- |
| `StoreAssumption` | limits, windows, lifetime positive; `Owner` maps sessions to users; `None` is none of the values it stands beside | `NewStore` replaces limits that are not positive |
| `ProxyAssumption` | finitely many connections at a time | slots of the server |
| `BrowserAssumption` | both lifetimes positive | defaults of `NewSessionStore` |
| `SessionAssumption` | statements and responses have their types, limits positive | `Validate`; `BuiltOnPositiveLimits` |
| `ServerAssumption` | finitely many clients at a time, at least one slot | `Validate`; `BuiltOnPositiveLimits` |
| `FilesAssumption` | numbers are integers, the user list is indexed by naturals, and a name has blanks around it or not | the decoder |
| `AuditAssumption` | events are not empty, bounds are natural numbers | an encoded event ends in a newline |
| `TextAssumption` | letters, digits and the bytes scanners look at are different strings, and the end of the text is none of them; lower case of letters is letters | ASCII |
| `InputAssumption` | configurations and statements have their types. `ParserContract`: the tree is whole and has nothing but a constant below `COUNT(*)`. `TextContract`: of a text they read alike and that has no executable comment (`TreeIsTrue`), the parser's tree is that of what `SQLLexer` reads, and unclosed comments do not parse. `GrammarContract`: what such a tree has, its text has words for: a table comes with one of seven keywords, a second item of a SELECT list with a comma; a `SET` without an equals sign is about the character set, and has neither `names` nor `character_set_results` in it if it is not. `UpstreamContract`: the server reports an origin for a field only if that column is all it is computed from, and one field per item | external code: the SQL parser and the MySQL protocol. Satisfied by every input of the `policy` run, where TLC evaluates it |

| Module | Theorem | States |
| --- | --- | --- |
| `OTPStoreProofs` | `TypeCorrect` | `TypeOK` of the store |
| | `IssuanceIsRateBounded`, `BucketsAreComplete` | `IssuanceRateBounded`, `BucketsComplete` |
| | `ThrottleIsExact` | `ThrottleExact` |
| | `MaterialIsCleared` | `MaterialOnlyWhileUsable` |
| | `StoreRefines` | `OTPStore` implements `OneTimeCredential` |
| `ProxyAuthProofs` | `ProxyTypeCorrect`, `OneSession`, `AcceptedAreProper`, `UpstreamsAreClosed` | `ProxyTypeOK`, `SingleSession`, `AcceptedProperly`, `NoUpstreamLeak` |
| | `GuessesAreBounded` | `GuessBudget` |
| `BrowserSessionsProofs` | `BrowserTypeCorrect`, `RequestsServedProperly`, `UseAloneProlongs` | `BrowserTypeOK`, `ServedProperly`, `OnlyUseProlongs` |
| | `SessionsAreEager` | `BrowserSessions` implements `EagerSession` |
| `ClientSessionProofs` | `SessionTypeCorrect`, `HandlersAgree`, `EverythingAudited`, `ShownAsDecided`, `CountsAreExact`, `ResultsFit` | `TypeOK`, `LayersAgree`, `NothingUnaudited`, `MaskedAsDecided`, `MaskedCountExact`, `WithinLimits` |
| | `SessionIsAudited` | `ClientSession` implements `AuditedSession` |
| `ServerProofs` | `TypeCorrect`, `SlotsAreExact`, `CancellationReachesAll`, `AuditIsClosedLast`, `ExitsAreInOrder` | `TypeOK`, `SlotsExact`, `CancelReachesAll`, `AuditOutlivesSessions`, `ExitsInOrder` of `StartupSpec` |
| | `LimitsArePositive`, `SecretsAreByReference`, `UsersCanLogIn` | `BuiltOnPositiveLimits`, `UpstreamSecretByReference`, `EveryUserCanLogIn` |
| `AuditLogProofs` | `AuditTypeCorrect`, `OldestEventsGoFirst`, `NewestIsKept`, `SizeIsBounded` | `TypeOK`, `OldestGoFirst`, `NewestKept`, `SizeBounded` |
| | `AuditLogIsEventLog` | `AuditLog` implements `EventLog` |
| `SQLTextProofs` | lemmas about every text, first of all `TerminatorIsFound`, `CountStarIsRecognized`, `ExecutableIsKept`, `WordIsWritten`, `WordsKeepOrder`, `NothingElseIsWritten`, `RedactionOutside` | what the scanners find and what they let through |
| `QueryPolicyProofs` | `ScannersAlwaysAgree` | `ScannersAgree`, under `TreeIsTrue`; the terminator and every `COUNT(*)` also under `DashesSpaced` and `BlanksKnown` |
| | `ReadsAreHarmless` | `ReadIsHarmless`, of the tree under `TreeIsTrue` |
| | `ProbesAndSetupAreHarmless` | `ProbeAndSetupAreHarmless`, under `TreeIsTrue` |
| | `ValuesAreShownIfPermitted` | `ShownIfPermitted`, if no schema has a dot in its name; of fields without an origin under `TreeIsTrue` |
| | `LiteralsStayOut` | `NothingSecretLogged`: the redaction, for the texts that are `Regular` |

The arguments, module by module:

**The store.** `TypeInv` adds that the histories are finite, needed to count them.
`IssuanceRateBounded` is not inductive: that an issue keeps the bound depends on the
bucket holding every issue of the window, which is `BucketsComplete`, and that
depends on no event lying in the future (`Past`). `RateInv` is the conjunction. The
step that matters is `Issue`: the bucket it counts is all of the window that ends
now, the count is below the limit, and one event is added; an older window cannot
contain it (`WindowBound`, `IssueAddsOne`). `PruneKeepsIssues` shows that a prune
removes nothing that can count later. `ThrottleExact` follows from the same
invariant, for failures.

`StoreRefines` uses `CredentialInv`: a used credential, like one never issued, has
no entry in the map. Each action is then a step of the abstract credential or a
stutter: a lookup that finds an expired credential is a stutter, because the
abstract one died at the tick before; a failure of a credential that is locked or
expired is one too; a tick maps to the abstract tick.

**The handshake.** Each step of `ProxyAuth` is a step of the store or leaves it
alone, so that `StoreInv` carries over. `HandshakeInv` says what each phase of a
connection has behind it. `SingleSession` needs `AdmissionInv`: a consumed
credential has been admitted once, or exactly one connection is on the way to admit
it; `Consume` is the only way in, and it succeeds once.

**Guesses.** Of the guesses made in a window, each was recorded since, or its
connection is on the way to record it. When a lookup lets a connection guess,
fewer failures than the limit were recorded in the window that ends then. So the
guesses of any window that is not over, and the connections that may still make one
in it, are fewer than the limit and the connections together (`BudgetInv`).

**Browser sessions.** `BrowserInv` says what a request in progress has behind it
(`RequestOK`): an ID drawn for a login is in no other request and not yet in the
map, and a session that had ended when the request was sent is not found alive
later. That a step revives no session (`LookupRevivesNone`, `StoringRevivesNone`,
`TickRevivesNone`) carries both `ServedProperly` and the refinement, in which the
eager session ends at a tick and the lookup that notices is a stutter.

**Sessions.** `SessionInv` follows a statement: while it is executed the decision at
hand is its own (`DecidedInv`); a result that waits for its audit is the response
masked as decided, which was not refused and fits the limits after masking too, with
its count (`AuditingInv`); what is sent was audited as such
(`AuditedInv`). `MaskedCount` shows that the code's count is the number of values
that differ.

`SessionIsAudited` puts one session in the place of the three handlers. It may
execute a statement only if it is alive and the statement is allowed, and it may
answer only what it has recorded; `LayersAgree` makes its one flag of the three of
the code, `DecidedInv` shows that the response is seen masked as this statement's
decision says, `OnlyResultsSucceed` that the record says of the outcome what the
client is given. A statement the policy handler answers itself is `Settle`; a
connection the client closes is a stutter, which only the steps after it notice.

**Server and process.** `IInv` ties the slots to the connections that hold one and
the results in the channel to the servers that stopped; `ResultInv` and `ExitInv`
tie the exit code to the first result and the signal, and what is still open to the
deferred call that is next, so that when none is left the listener, both servers, the
sessions and the audit log are done. A signal that comes during the deferred calls no
longer matters, which is why `ExitsInOrder` says of 0 only what it takes; that a signal
while it serves leads to 0 is `SignalEndsProcess`. `ConfigInv` says that the
configuration in effect is that of a file and was valid with the secrets of the time
it was loaded; the three theorems about configurations follow from it by going
through `ApplyDefaults` and `Validate`, although the secrets may have changed since.

**Audit log.** A renamed file must not replace one that is still there (`ShiftInv`);
the event being logged is newer than what the files hold (`NumberedInv`); a file is
rotated only when there is something in it, and then there is room (`RotationInv`).
When the oldest backup goes, the audit file holds something newer than all of it,
so that the newest event stays.

To the event log the files are one set of events (`Recorded`). A new event comes
with `Log`; a line written, whole or short, is `Record`; the removal of the oldest
backup is `Lose`, which takes the oldest events by `OldestGoFirst` and not all of
them by `RotationInv` (`OldestRemoved`). A rename moves events and keeps the set
(`BackupShifted`, by `ShiftInv`), and every other system call, a failure, a restart
and a kill stutter.

**Texts.** The scanners are recursive and texts of any length, so the lemmas about
them are inductions over positions. They are written out with what the provers can
do: a set of numbers that is not empty has a least member (`LeastNumber`), so there
is no first position, or last one, where a claim fails. `RecursiveFunction` shows
once that a function whose value at a position depends only on later positions
exists and has the values its equation says; `ScanStep` makes of it the one step of
a scanner that everything else cites. `ScanFirst` and `ScanReaches` are the two
forms of loop invariant: which position a scanner is at when it writes first, and
that it gets to a position without leaving a set.

The claim is that a scanner that is in code is in code again behind each lexeme
(`LexemeIsSkipped`): a string may end at a doubled quote, because the server's
reading then begins another one; a line comment ends before its newline; a block
comment ends where the server's does, unless it is not closed. That both see the same
comments begin is the condition `DashesSpaced` (`CommentsBegin`, `DashesAreSpaced`).
So, if they also know the same white space (`BlanksKnown`), the bytes the
terminator scanner looks at are the server's (`TerminatorIsFound`), and the bytes of
an executable comment are copied (`ExecutableIsKept`). `COUNT(*)` needs two
scanners: `CallEnd` finds the parenthesis that closes the call (`CountingEnds`), and
whatever it finds is a closing parenthesis (`CallsClose`), so that the call reads the
same on its own as in the statement (`PartModes`); compact, it is `COUNT(*)` exactly
if nothing but white space and comments stands between four elements
(`CompactTextCounts`, `CountingIsCompact`).

A call the scanner takes for `COUNT(*)` is one without these conditions: a comment the
scanner does not see leaves its dashes in the compact text, which is then no `COUNT(*)`.
In the same way the normalized text keeps them (`OddDashIsKept`), and no probe and no
setup has a dash in the text it is decided on (`DashIsDecidedOn`, `SetupHasNoDash`).

The redaction knows no quoted identifiers, so it may be in one when it believes to
be in code. As long as identifiers hold neither quotes nor comments it leaves each
lexeme in code or in an identifier (`RedactionStaysOutside`, again under
`DashesSpaced`), and what it writes is a placeholder, a blank or an element outside
of literals (`RedactionOutside`).

What the normalization keeps of a text without executable comments: every word and
sign outside of quotes is written (`WordIsWritten`), two of them in the order of the
text, also if the first is in a quoted identifier (`WordsKeepOrder`), and, if the
last comment is closed, nothing but words, `?` and white space is
(`NothingElseIsWritten`). Joining the fields (`SqueezeKeepsOne`,
`SqueezeKeepsOrder`), lower case and the trimming before a comparison
(`DecisiveKeeps`) change none of this.

**Policies.** The visitor enters no node below a function, window or aggregate. But
functions and windows reject the statement where they are entered, and an aggregate
that does not is `COUNT(*)` by `ScannersAgree`, below which there is only a constant:
of each branch, either its end was entered, or something above it that is skipped
(`EnteredOrBelow`). `ShownIfPermitted` needs that the tables made of the rules say
what the rules say (`TablesSayWhatRulesSay`), which they do unless a dot in a name
makes two keys one (`KeyNamesTable`); and that an item of the SELECT list whose field
is passed through reads nothing (`PassedReadsNothing`).

Probes and setup are let through by their text, and `GrammarContract` says what must
stand in a text for a statement to do more. If a statement allowed as a probe named a
table or had two items, the keyword or the comma would be in the text decided on
(`WordIsDecidedOn`), and survive that a semicolon and ` limit 1` are taken from it;
but no probe has such a word (`ProbeHasNothingElse`). A `SET` that assigns anything
but the character set has something else in front of an equals sign, and it still
comes first after normalization (`AssignmentIsDecidedOn`), whereas `SET NAMES` is
compared to a text without that sign and `SET character_set_results` to one with
nothing else in front of it (`SetupAssignsCharset`). And the words that make a text
setup stand in the statement (`SetupNamesCharset`, `DecidedOnWords`), so it is not
a `SET` about something else, such as a transaction.

Only model-checked: all liveness (`PasswordAnswered`, `ClosedSessionEnds`,
`SignalEndsProcess`), since TLAPS does not reason about fairness and ENABLED. That
the contracts hold of the parser and the server is assumed, and TLC checks it of
the inputs of the `policy` run.

## Not modelled

- The encoding of rows, packets and column definitions in `forwarding_handler.go`,
  and the conversion of values: sequential functions whose failures, but not whose
  bytes, matter to the session. Hence the session handlers are modelled only partly.
- The SQL parser, go-mysql, TLS and RSA set-up.
- The pages, the attributes of cookies, the MySQL command shown to the user, the
  wording of flags and messages.
- Keys of the masking tables that collide because a name contains a dot: the names
  of the runs have none.
- The end of the whole machine, which loses audit events that were written and not
  synced.
- Growth of the maps of the two stores, which are never swept: it cannot be seen in
  a bounded model.
- The idle timeout and the maximum duration of MySQL sessions, which no code
  enforces.

## Plan

1. `ClientSession` over the decisions of `SQLPolicy` and `Masking` instead of
   nondeterministic ones, for a few statements.
2. The conversion of values in `forwarding_handler.go` as operators: which type takes
   which way, and that each mask passes the conversion of its own type.
