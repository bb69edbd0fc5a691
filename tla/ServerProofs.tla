---------------------------- MODULE ServerProofs ----------------------------
(***************************************************************************)
(* The accept loop and the shutdown are right for any number of clients    *)
(* and any number of slots, whatever the process was started with.         *)
(***************************************************************************)
EXTENDS Startup, FiniteSetTheorems, TLAPS

-----------------------------------------------------------------------------
(* The inductive invariant. *)

\* An accepted connection is the one in the loop's hands, and the loop returns only
\* when no session runs.
LoopInv ==
  /\ loop = Loop(loop.at, loop.conn, loop.err)
  /\ loop.at \in {"accepted", "slotted"} => loop.conn \in Connections
  /\ \A c \in Connections :
       conns[c] = "accepted" <=> (loop.at \in {"accepted", "slotted"} /\ loop.conn = c)
  /\ loop.at = "returned" => Running = {}

\* Each of the two servers reports once, and main takes what was reported.
Reported == (IF http = "stopped" THEN 1 ELSE 0) + (IF loop.at = "returned" THEN 1 ELSE 0)
Taken == CASE main.at = "first" -> 0 [] main.at = "second" -> 1 [] OTHER -> 2
MainInv ==
  /\ main = [at |-> main.at, err |-> main.err]
  /\ Len(errs) + Taken = Reported
  /\ auditLog # "open" => main.at = "returned"

WatchInv == watcher = "closed" => cancelled

IInv == TypeOK /\ SlotsExact /\ LoopInv /\ MainInv /\ WatchInv /\ CancelReachesAll

LEMMA InitIInv == Init => IInv
<1> SUFFICES ASSUME Init PROVE IInv
  OBVIOUS
<1> USE ServerAssumption
<1>1. TypeOK
  <2>1. errs \in Seq(Results) /\ Len(errs) <= 2
    BY DEF Init
  <2>2. signalled \in BOOLEAN /\ cancelled \in BOOLEAN /\ deadline \in BOOLEAN
    BY DEF Init
  <2> QED
    BY <2>1, <2>2 DEF Init, TypeOK, Stages, Results, Loop
<1>2. SlotsExact
  <2>1. Holding = {}
    BY DEF Init, Loop, Holding
  <2> QED
    BY <2>1, FS_EmptySet DEF Init, SlotsExact
<1>3. LoopInv
  BY DEF Init, LoopInv, Loop, Running
<1>4. MainInv
  BY DEF Init, MainInv, Loop, Taken, Reported
<1>5. WatchInv /\ CancelReachesAll
  BY DEF Init, WatchInv, CancelReachesAll
<1> QED
  BY <1>1, <1>2, <1>3, <1>4, <1>5 DEF IInv

-----------------------------------------------------------------------------
(* Every step preserves it. *)

\* A connection that holds a slot is counted.
LEMMA HoldingCounts ==
  ASSUME SlotsExact, NEW c \in Holding
  PROVE  slots > 0
<1>1. IsFiniteSet(Holding)
  BY ServerAssumption, FS_Subset DEF Holding
<1>2. Cardinality(Holding) \in Nat /\ Cardinality(Holding) # 0
  BY <1>1, FS_CardinalityType, FS_EmptySet
<1> QED
  BY <1>2 DEF SlotsExact

\* The channel has room for what the two servers report.
LEMMA ErrsBounded ==
  ASSUME TypeOK, MainInv, http # "stopped" \/ loop.at # "returned"
  PROVE  Len(errs) <= 1
<1>1. Len(errs) \in Nat
  BY DEF TypeOK
<1> QED
  BY <1>1 DEF MainInv, Reported, Taken

LEMMA TypeStep == IInv /\ Next => TypeOK'
<1> SUFFICES ASSUME IInv, Next PROVE TypeOK'
  OBVIOUS
<1> USE ServerAssumption DEF IInv, TypeOK, Stages, Results, Loop, mysqlVars, mainVars
<1>1. CASE \E c \in Connections : Dial(c) \/ Accept(c)
  BY <1>1 DEF Dial, Accept
<1>2. CASE AcceptFails("nil") \/ AcceptFails("error") \/ Watch
  BY <1>2 DEF AcceptFails, Watch
<1>3. CASE TakeSlot
  BY <1>3 DEF TakeSlot, Refuse, LoopInv
<1>4. CASE Register
  <2>1. slots > 0
    <3>1. loop.conn \in Holding
      BY <1>4 DEF Register, Holding, LoopInv
    <3> QED
      BY <3>1, HoldingCounts
  <2> QED
    BY <1>4, <2>1 DEF Register, Refuse, LoopInv
<1>5. CASE ServeContextReturns
  <2>1. Len(errs) <= 1
    BY <1>5, ErrsBounded DEF ServeContextReturns
  <2> QED
    BY <1>5, <2>1 DEF ServeContextReturns, LoopInv
<1>6. CASE \E c \in Connections : CallUpstream(c) \/ UpstreamAnswers(c) \/ ServeConnReturns(c)
  BY <1>6 DEF CallUpstream, UpstreamAnswers, ServeConnReturns
<1>7. ASSUME NEW c \in Connections, Cleanup(c) PROVE TypeOK'
  <2>1. conns[c] = "unregistered" => slots > 0
    BY HoldingCounts DEF Holding
  <2> QED
    BY <1>7, <2>1 DEF Cleanup
<1>8. CASE Signal \/ DeadlinePasses \/ HttpShutdown
  <2>1. CASE Signal
    BY <2>1 DEF Signal
  <2>2. CASE DeadlinePasses
    BY <2>2 DEF DeadlinePasses
  <2>3. CASE HttpShutdown
    BY <2>3 DEF HttpShutdown
  <2> QED
    BY <1>8, <2>1, <2>2, <2>3
<1>9. CASE HttpFails \/ HttpStops("nil") \/ HttpStops("error")
  <2>1. Len(errs) <= 1
    BY <1>9, ErrsBounded DEF HttpFails, HttpStops
  <2> QED
    BY <1>9, <2>1 DEF HttpFails, HttpStops
<1>10. CASE FirstResult
  BY <1>10 DEF FirstResult
<1>11. CASE SecondResult
  BY <1>11 DEF SecondResult
<1>12. CASE MainReturns
  <2>1. CASE Outcome
    BY <2>1 DEF Outcome
  <2>2. CASE CloseListener
    BY <2>2 DEF CloseListener, MainInv
  <2>3. CASE CloseAudit
    BY <2>3 DEF CloseAudit
  <2> QED
    BY <1>12, <2>1, <2>2, <2>3 DEF MainReturns
<1> QED
  BY <1>1, <1>2, <1>3, <1>4, <1>5, <1>6, <1>7, <1>8, <1>9, <1>10, <1>11, <1>12
  DEF Next, ServeStep, LoopStep, ResultStep, HttpStep

LEMMA LoopInvStep == IInv /\ Next => LoopInv'
<1> SUFFICES ASSUME IInv, Next PROVE LoopInv'
  OBVIOUS
<1> USE ServerAssumption DEF IInv, TypeOK, Stages, LoopInv, Running, Loop, mysqlVars, mainVars
<1>1. CASE \E c \in Connections : Dial(c) \/ Accept(c)
  BY <1>1 DEF Dial, Accept
<1>2. CASE AcceptFails("nil") \/ AcceptFails("error") \/ Watch
  BY <1>2 DEF AcceptFails, Watch
<1>3. CASE TakeSlot
  BY <1>3 DEF TakeSlot, Refuse
<1>4. CASE Register
  BY <1>4 DEF Register, Refuse
<1>5. CASE ServeContextReturns
  BY <1>5 DEF ServeContextReturns
<1>6. CASE \E c \in Connections :
             CallUpstream(c) \/ UpstreamAnswers(c) \/ ServeConnReturns(c) \/ Cleanup(c)
  BY <1>6 DEF CallUpstream, UpstreamAnswers, ServeConnReturns, Cleanup
<1>7. CASE UNCHANGED <<conns, loop>>
  BY <1>7
<1> QED
  BY <1>1, <1>2, <1>3, <1>4, <1>5, <1>6, <1>7
  DEF Next, ServeStep, LoopStep, ResultStep, HttpStep, Signal, DeadlinePasses, HttpShutdown,
      HttpFails, HttpStops, FirstResult, SecondResult, MainReturns, Outcome, CloseListener,
      CloseAudit

LEMMA MainInvStep == IInv /\ Next => MainInv'
<1> SUFFICES ASSUME IInv, Next PROVE MainInv'
  OBVIOUS
<1> USE DEF IInv, MainInv, Reported, Taken, TypeOK, Loop, mysqlVars, mainVars
<1>1. CASE ServeContextReturns
  BY <1>1 DEF ServeContextReturns, LoopInv
<1>2. CASE HttpFails \/ HttpStops("nil") \/ HttpStops("error")
  BY <1>2 DEF HttpFails, HttpStops
<1>3. CASE HttpShutdown
  BY <1>3 DEF HttpShutdown
<1>4. CASE FirstResult
  BY <1>4 DEF FirstResult
<1>5. CASE SecondResult
  BY <1>5 DEF SecondResult
<1>6. CASE MainReturns
  BY <1>6 DEF MainReturns, Outcome, CloseListener, CloseAudit
<1>7. CASE /\ UNCHANGED <<http, errs, main, auditLog>>
           /\ loop'.at = "returned" <=> loop.at = "returned"
  BY <1>7
<1>8. CASE TakeSlot \/ Register
  BY <1>7, <1>8 DEF TakeSlot, Register, Refuse, LoopInv
<1> QED
  BY <1>1, <1>2, <1>3, <1>4, <1>5, <1>6, <1>7, <1>8
  DEF Next, ServeStep, LoopStep, ResultStep, HttpStep, Signal, DeadlinePasses, Dial, Accept,
      AcceptFails, Watch, CallUpstream, UpstreamAnswers, ServeConnReturns, Cleanup

LEMMA WatchInvStep == IInv /\ Next => WatchInv'
BY DEF IInv, WatchInv, Next, ServeStep, LoopStep, ResultStep, HttpStep, Dial, Accept,
       AcceptFails, TakeSlot, Register, ServeContextReturns, Watch, CallUpstream,
       UpstreamAnswers, ServeConnReturns, Cleanup, Signal, DeadlinePasses, HttpShutdown,
       HttpFails, HttpStops, FirstResult, SecondResult, MainReturns, Outcome, CloseListener,
       CloseAudit, mysqlVars, mainVars

LEMMA CancelStep == IInv /\ Next => CancelReachesAll'
<1> SUFFICES ASSUME IInv, Next PROVE CancelReachesAll'
  OBVIOUS
<1> USE ServerAssumption
    DEF IInv, TypeOK, CancelReachesAll, Serving, Stages, Loop, mysqlVars, mainVars
<1>1. CASE \E c \in Connections : Dial(c) \/ Accept(c)
  BY <1>1 DEF Dial, Accept
<1>2. CASE TakeSlot
  BY <1>2 DEF TakeSlot, Refuse, LoopInv
<1>3. CASE Register
  \* Registering looks at the context once more; by then the watcher may have run.
  BY <1>3 DEF Register, Refuse, LoopInv, WatchInv
<1>4. CASE Watch
  BY <1>4 DEF Watch, SlotsExact
<1>5. CASE ServeContextReturns
  BY <1>5 DEF ServeContextReturns
<1>6. CASE \E c \in Connections :
             CallUpstream(c) \/ UpstreamAnswers(c) \/ ServeConnReturns(c) \/ Cleanup(c)
  BY <1>6 DEF CallUpstream, UpstreamAnswers, ServeConnReturns, Cleanup
<1>7. CASE UNCHANGED <<conns, open, watcher>>
  BY <1>7
<1> QED
  BY <1>1, <1>2, <1>3, <1>4, <1>5, <1>6, <1>7
  DEF Next, ServeStep, LoopStep, ResultStep, HttpStep, Signal, DeadlinePasses, HttpShutdown,
      HttpFails, HttpStops, FirstResult, SecondResult, MainReturns, Outcome, CloseListener,
      CloseAudit, AcceptFails

\* A slot taken for a connection that had none, and one returned.
LEMMA SlotTaken ==
  ASSUME SlotsExact, NEW c, c \notin Holding, Holding' = Holding \cup {c}, slots' = slots + 1
  PROVE  slots' = Cardinality(Holding')
<1>1. IsFiniteSet(Holding)
  BY ServerAssumption, FS_Subset DEF Holding
<1> QED
  BY <1>1, FS_AddElement DEF SlotsExact

LEMMA SlotReturned ==
  ASSUME SlotsExact, NEW c \in Holding, Holding' = Holding \ {c}, slots' = slots - 1
  PROVE  slots' = Cardinality(Holding')
<1>1. IsFiniteSet(Holding)
  BY ServerAssumption, FS_Subset DEF Holding
<1> QED
  BY <1>1, FS_RemoveElement DEF SlotsExact

LEMMA SlotsStep == IInv /\ Next => SlotsExact'
<1> SUFFICES ASSUME IInv, Next PROVE SlotsExact'
  OBVIOUS
<1> USE DEF IInv
<1> DEFINE Registered == {c \in Connections : conns[c] \in {"idle", "upstream", "ended"}}
<1>1. CASE TakeSlot
  <2>1. active' = Registered'
    BY <1>1 DEF TakeSlot, Refuse, LoopInv, SlotsExact, TypeOK, Stages
  <2>2. CASE slots < MaxMySQLSessions
    <3>1. loop.conn \notin Holding /\ Holding' = Holding \cup {loop.conn}
      BY <1>1, <2>2 DEF TakeSlot, Holding, LoopInv, TypeOK, Loop
    <3>2. slots' = slots + 1
      BY <1>1, <2>2 DEF TakeSlot
    <3> QED
      BY <2>1, <3>1, <3>2, SlotTaken DEF SlotsExact
  <2>3. CASE ~ (slots < MaxMySQLSessions)
    <3>1. Holding' = Holding /\ slots' = slots
      BY <1>1, <2>3 DEF TakeSlot, Refuse, Holding, LoopInv, TypeOK, Loop
    <3> QED
      BY <2>1, <3>1 DEF SlotsExact
  <2> QED
    BY <2>2, <2>3
<1>2. CASE Register
  <2>1. active' = Registered'
    BY <1>2 DEF Register, Refuse, LoopInv, SlotsExact, TypeOK, Stages
  <2>2. CASE cancelled
    <3>1. loop.conn \in Holding /\ Holding' = Holding \ {loop.conn} /\ slots' = slots - 1
      BY <1>2, <2>2 DEF Register, Refuse, Holding, LoopInv, TypeOK, Loop
    <3> QED
      BY <2>1, <3>1, SlotReturned DEF SlotsExact
  <2>3. CASE ~ cancelled
    <3>1. Holding' = Holding /\ slots' = slots
      BY <1>2, <2>3 DEF Register, Holding, LoopInv, TypeOK, Loop
    <3> QED
      BY <2>1, <3>1 DEF SlotsExact
  <2> QED
    BY <2>2, <2>3
<1>3. ASSUME NEW c \in Connections, Cleanup(c) PROVE SlotsExact'
  <2>1. active' = Registered'
    BY <1>3 DEF Cleanup, SlotsExact, TypeOK, Stages
  <2>2. CASE conns[c] = "unregistered"
    <3>1. c \in Holding /\ Holding' = Holding \ {c} /\ slots' = slots - 1
      BY <1>3, <2>2 DEF Cleanup, Holding, LoopInv, TypeOK
    <3> QED
      BY <2>1, <3>1, SlotReturned DEF SlotsExact
  <2>3. CASE conns[c] # "unregistered"
    <3>1. Holding' = Holding /\ slots' = slots
      BY <1>3, <2>3 DEF Cleanup, Holding, LoopInv, TypeOK
    <3> QED
      BY <2>1, <3>1 DEF SlotsExact
  <2> QED
    BY <2>2, <2>3
<1>4. CASE \E c \in Connections :
             Dial(c) \/ Accept(c) \/ CallUpstream(c) \/ UpstreamAnswers(c) \/ ServeConnReturns(c)
  <2>1. Holding' = Holding /\ slots' = slots
    BY <1>4 DEF Dial, Accept, CallUpstream, UpstreamAnswers, ServeConnReturns, Holding, LoopInv,
                TypeOK, Loop
  <2>2. active' = Registered'
    BY <1>4 DEF Dial, Accept, CallUpstream, UpstreamAnswers, ServeConnReturns, SlotsExact, TypeOK
  <2> QED
    BY <2>1, <2>2 DEF SlotsExact
<1>5. CASE /\ UNCHANGED <<conns, slots, active>>
           /\ \/ loop.at # "slotted" /\ loop'.at # "slotted"
              \/ UNCHANGED loop
  <2>1. Holding' = Holding /\ Registered' = Registered
    BY <1>5 DEF Holding
  <2> QED
    BY <1>5, <2>1 DEF SlotsExact
<1>6. CASE AcceptFails("nil") \/ AcceptFails("error") \/ ServeContextReturns
  BY <1>5, <1>6 DEF AcceptFails, ServeContextReturns, LoopInv, Loop
<1> QED
  BY <1>1, <1>2, <1>3, <1>4, <1>5, <1>6
  DEF Next, ServeStep, LoopStep, ResultStep, HttpStep, Watch, Signal, DeadlinePasses,
      HttpShutdown, HttpFails, HttpStops, FirstResult, SecondResult, MainReturns,
      Outcome, CloseListener, CloseAudit,
      mysqlVars, mainVars

LEMMA IInvStep == IInv /\ [Next]_vars => IInv'
<1>1. IInv /\ Next => IInv'
  BY TypeStep, LoopInvStep, MainInvStep, WatchInvStep, CancelStep, SlotsStep DEF IInv
<1>2. IInv /\ UNCHANGED vars => IInv'
  BY DEF vars, mysqlVars, mainVars, IInv, TypeOK, SlotsExact, Holding, LoopInv, Running, MainInv,
         Reported, Taken, WatchInv, CancelReachesAll, Serving
<1> QED
  BY <1>1, <1>2

-----------------------------------------------------------------------------
(* The theorems, for the process as it starts. *)

\* While the process starts the servers' variables stay as they are, but for a signal.
LEMMA StartupStep == StartupNext => [Next]_vars
BY DEF StartupNext, StartStep, ParseFlags, LoadConfig, OpenAudit, NewServer, ListenHTTP,
       ListenMySQL, Serve, Finish, StopServing, DeferredClose, Leave, SignalEarly,
       PasswordFileChanges, Next, ServeStep, MainReturns

LEMMA Invariance == StartupSpec => []IInv
<1>1. StartupInit => IInv
  BY InitIInv DEF StartupInit
<1>2. IInv /\ [StartupNext]_allVars => IInv'
  BY StartupStep, IInvStep DEF allVars
<1> QED
  BY <1>1, <1>2, PTL DEF StartupSpec

\* Every variable of a running process has its type; sessionSlots never holds more than
\* it can, for any number of clients (ServeContext).
THEOREM TypeCorrect == StartupSpec => []TypeOK
<1>1. IInv => TypeOK
  BY DEF IInv
<1> QED
  BY <1>1, Invariance, PTL

\* Each slot belongs to one session or to the connection about to be served
\* (ServeContext).
THEOREM SlotsAreExact == StartupSpec => []SlotsExact
<1>1. IInv => SlotsExact
  BY DEF IInv
<1> QED
  BY <1>1, Invariance, PTL

\* No connection is served open once the watcher has closed them (ServeContext).
THEOREM CancellationReachesAll == StartupSpec => []CancelReachesAll
<1>1. IInv => CancelReachesAll
  BY DEF IInv
<1> QED
  BY <1>1, Invariance, PTL

\* The audit log is closed after the last session and after the accept loop: main has
\* both results by then, and each server reports once (serveMasqman, startMasqman).
THEOREM AuditIsClosedLast == StartupSpec => []AuditOutlivesSessions
<1>1. IInv => AuditOutlivesSessions
  <2> SUFFICES ASSUME IInv, auditLog # "open"
               PROVE  Running = {} /\ loop.at = "returned"
    BY DEF AuditOutlivesSessions
  <2>1. Taken = 2 /\ Len(errs) \in Nat
    BY DEF IInv, MainInv, Taken, TypeOK
  <2>2. loop.at = "returned"
    BY <2>1 DEF IInv, MainInv, Reported
  <2> QED
    BY <2>2 DEF IInv, LoopInv
<1> QED
  BY <1>1, Invariance, PTL

-----------------------------------------------------------------------------
(* The exit code. *)

\* Without a signal the first result is an error, since nothing was cancelled before it.
ResultInv ==
  /\ signalled \/ main.at # "first" => cancelled
  /\ listener = "closed" \/ http = "draining" => cancelled
  /\ ~ cancelled => /\ loop.at \in {"wait", "returned"} => loop.err = "error"
                    /\ \A i \in DOMAIN errs : errs[i] = "error"
  /\ ~ signalled => IF main.at = "first" THEN ~ cancelled ELSE main.err = "error"
  /\ main.at \in {"closing_audit", "returned"} => listener = "closed"
  /\ main.at = "returned" =>
       /\ auditLog # "open"
       /\ main.err = "nil" => auditLog = "closed"

LEMMA ResultInvStep == IInv /\ ResultInv /\ Next => ResultInv'
<1> SUFFICES ASSUME IInv, ResultInv, Next PROVE ResultInv'
  OBVIOUS
<1> USE DEF IInv, ResultInv, TypeOK, Results, Loop, mysqlVars, mainVars
<1>1. CASE \E c \in Connections : Accept(c)
  BY <1>1 DEF Accept
<1>2. CASE AcceptFails("nil") \/ AcceptFails("error")
  BY <1>2 DEF AcceptFails
<1>3. CASE TakeSlot \/ Register
  BY <1>3 DEF TakeSlot, Register, Refuse, LoopInv
<1>4. CASE ServeContextReturns
  BY <1>4 DEF ServeContextReturns, LoopInv
<1>5. CASE Watch \/ Signal \/ DeadlinePasses \/ HttpShutdown
  BY <1>5 DEF Watch, Signal, DeadlinePasses, HttpShutdown
<1>6. CASE HttpFails \/ HttpStops("nil") \/ HttpStops("error")
  BY <1>6 DEF HttpFails, HttpStops
<1>7. CASE FirstResult
  BY <1>7 DEF FirstResult
<1>8. CASE SecondResult
  BY <1>8 DEF SecondResult
<1>9. CASE MainReturns
  <2>1. CASE Outcome
    BY <2>1 DEF Outcome
  <2>2. CASE CloseListener
    <3>1. cancelled' = cancelled /\ signalled' = signalled /\ main'.err = main.err
      BY <2>2 DEF CloseListener, MainInv
    <3>2. main.at = "closing" /\ main'.at = "closing_audit" /\ listener' = "closed"
      BY <2>2 DEF CloseListener, MainInv
    <3>3. cancelled
      BY <3>2
    <3> QED
      BY <2>2, <3>1, <3>2, <3>3 DEF CloseListener
  <2>3. CASE CloseAudit
    BY <2>3 DEF CloseAudit
  <2> QED
    BY <1>9, <2>1, <2>2, <2>3 DEF MainReturns
<1>10. CASE UNCHANGED <<listener, loop, mainVars>>
  BY <1>10
<1> QED
  BY <1>1, <1>2, <1>3, <1>4, <1>5, <1>6, <1>7, <1>8, <1>9, <1>10
  DEF Next, ServeStep, LoopStep, ResultStep, HttpStep, Dial, CallUpstream, UpstreamAnswers,
      ServeConnReturns, Cleanup

\* The audit log is opened first and closed last, the listener of the proxy the other
\* way round; nobody is served before, and the exit code is what main returned.
ExitInv ==
  /\ stage \in {"flags", "load", "audit", "exited"} => opened = {}
  /\ stage \in {"mysql_server", "http_listener", "mysql_listener"} => "audit" \in opened
  /\ stage = "serving" =>
       /\ main.at \in {"first", "second", "cleanup"}
       /\ {"audit", "mysql"} \subseteq opened
  /\ main.at = "first" /\ stage # "serving" => Running = {}
  /\ main.at # "first" => stage \in {"serving", "closing", "exited"}
  /\ main.at # "first" /\ stage = "closing" =>
       \/ main.at = "closing" /\ {"audit", "mysql"} \subseteq opened
       \/ main.at = "closing_audit" /\ "audit" \in opened /\ "mysql" \notin opened
       \/ main.at = "returned" /\ opened = {}
  /\ main.at # "first" /\ stage = "exited" =>
       /\ main.at = "returned"
       /\ exitCode = IF main.err = "nil" THEN "0" ELSE "1"

\* Serving goes on until main has both results, and after that nobody is served.
LEMMA ServeKeepsMain ==
  ASSUME ServeStep
  PROVE  \/ UNCHANGED main
         \/ main.at = "first" /\ main'.at = "second"
         \/ main.at = "second" /\ main'.at = "cleanup"
BY DEF ServeStep, LoopStep, ResultStep, HttpStep, Dial, Accept, AcceptFails, TakeSlot, Register,
       ServeContextReturns, Watch, CallUpstream, UpstreamAnswers, ServeConnReturns, Cleanup,
       Signal, DeadlinePasses, HttpShutdown, HttpFails, HttpStops, FirstResult, SecondResult,
       mainVars, mysqlVars

LEMMA ExitInvStep == ExitInv /\ [StartupNext]_allVars => ExitInv'
<1> SUFFICES ASSUME ExitInv, [StartupNext]_allVars PROVE ExitInv'
  OBVIOUS
<1> USE DEF ExitInv, Exit, Fail, startupVars
<1>1. CASE StartStep
  <2>1. UNCHANGED vars => UNCHANGED <<main, Running>>
    BY DEF vars, mainVars, mysqlVars, Running
  <2> QED
    BY <1>1, <2>1 DEF StartStep, ParseFlags, LoadConfig, OpenAudit, NewServer, ListenHTTP,
                      ListenMySQL
<1>2. CASE Serve
  BY <1>2, ServeKeepsMain DEF Serve, Served
<1>3. CASE StopServing
  BY <1>3 DEF StopServing, Outcome
<1>4. CASE DeferredClose
  <2>1. UNCHANGED vars => UNCHANGED <<main, Running>>
    BY DEF vars, mainVars, mysqlVars, Running
  <2>2. CASE main.at = "first"
    <3>1. ~ Served /\ ~ CloseListener
      BY <1>4, <2>2 DEF DeferredClose, CloseListener, Served
    <3>2. UNCHANGED vars /\ stage = "closing" /\ stage' = "closing"
      BY <1>4, <3>1 DEF DeferredClose
    <3> QED
      BY <1>4, <2>1, <2>2, <3>2
  <2>3. CASE main.at # "first"
    <3>1. stage = "closing" /\ stage' = "closing" /\ Served
      BY <1>4, <2>3 DEF DeferredClose, Served
    <3>2. CASE "mysql" \in opened
      <4>1. opened' = opened \ {"mysql"} /\ main.at = "closing" /\ main'.at = "closing_audit"
        BY <1>4, <2>3, <3>1, <3>2 DEF DeferredClose, CloseListener
      <4> QED
        BY <2>3, <3>1, <4>1
    <3>3. CASE "mysql" \notin opened /\ "http" \in opened
      <4>1. opened' = opened \ {"http"} /\ UNCHANGED main
        BY <1>4, <2>1, <3>3 DEF DeferredClose
      <4> QED
        BY <2>3, <3>1, <3>3, <4>1
    <3>4. CASE "mysql" \notin opened /\ "http" \notin opened
      <4>1. opened' = {} /\ main'.at = "returned"
        BY <1>4, <3>1, <3>4 DEF DeferredClose, CloseAudit
      <4> QED
        BY <2>3, <3>1, <4>1
    <3> QED
      BY <3>2, <3>3, <3>4
  <2> QED
    BY <2>2, <2>3
<1>5. CASE Leave
  <2>1. UNCHANGED <<main, Running>>
    BY <1>5 DEF Leave, vars, mainVars, mysqlVars, Running
  <2> QED
    BY <1>5, <2>1 DEF Leave, Served
<1>6. CASE SignalEarly \/ PasswordFileChanges \/ UNCHANGED allVars
  <2>1. UNCHANGED <<main, Running>>
    BY <1>6 DEF SignalEarly, Signal, PasswordFileChanges, allVars, vars, mainVars, mysqlVars,
                Running
  <2> QED
    BY <1>6, <2>1 DEF SignalEarly, PasswordFileChanges, allVars
<1> QED
  BY <1>1, <1>2, <1>3, <1>4, <1>5, <1>6 DEF StartupNext, Finish

\* Nothing main opened stays open and nobody is served any more when the process ends,
\* and once it served it ends with 0 only if it was asked to end and its audit log could
\* be closed (serveMasqman, startMasqman, runWithStarter).
THEOREM ExitsAreInOrder == StartupSpec => []ExitsInOrder
<1>1. StartupInit => ResultInv /\ ExitInv
  BY DEF StartupInit, Init, Loop, ResultInv, ExitInv, Running
<1>2. IInv /\ ResultInv /\ [StartupNext]_allVars => ResultInv'
  <2>1. UNCHANGED vars /\ ResultInv => ResultInv'
    BY DEF vars, mysqlVars, mainVars, ResultInv
  <2> QED
    BY <2>1, StartupStep, ResultInvStep DEF allVars
<1>3. IInv /\ ResultInv /\ ExitInv => ExitsInOrder
  <2> SUFFICES ASSUME IInv, ResultInv, ExitInv, stage = "exited" PROVE ExitsInOrder
    BY DEF ExitsInOrder
  <2>1. CASE main.at = "first"
    BY <2>1 DEF ExitInv, ExitsInOrder
  <2>2. CASE main.at # "first"
    <3>1. main.at = "returned" /\ opened = {} /\ exitCode = IF main.err = "nil" THEN "0" ELSE "1"
      BY <2>2 DEF ExitInv
    <3>2. Taken = 2 /\ Len(errs) \in Nat
      BY <3>1 DEF IInv, Taken, TypeOK
    <3>3. http = "stopped" /\ loop.at = "returned"
      BY <3>2 DEF IInv, MainInv, Reported
    <3>4. Running = {}
      BY <3>3 DEF IInv, LoopInv
    <3> QED
      BY <3>1, <3>3, <3>4 DEF ResultInv, ExitsInOrder
  <2> QED
    BY <2>1, <2>2
<1> QED
  BY <1>1, <1>2, <1>3, ExitInvStep, Invariance, PTL DEF StartupSpec

-----------------------------------------------------------------------------
(* The configuration in effect. *)

\* Once loaded it is that of a file, and it was valid with the secrets of that time.
ConfigInv ==
  /\ file \in Files
  /\ Loaded => config = Effective(file) /\ \E then : Validate(config, then)

LEMMA ConfigInvariance == StartupSpec => []ConfigInv
<1>1. StartupInit => ConfigInv
  BY DEF StartupInit, ConfigInv, Loaded
<1>2. ConfigInv /\ [StartupNext]_allVars => ConfigInv'
  <2> SUFFICES ASSUME ConfigInv, [StartupNext]_allVars PROVE ConfigInv'
    OBVIOUS
  <2>1. CASE LoadConfig
    BY <2>1 DEF LoadConfig, Loads, ConfigInv, Loaded, Exit
  <2>2. CASE UNCHANGED <<file, config>> /\ (Loaded' => Loaded)
    BY <2>2 DEF ConfigInv
  <2>3. CASE ParseFlags \/ OpenAudit \/ NewServer \/ ListenHTTP \/ ListenMySQL
    BY <2>2, <2>3 DEF ParseFlags, OpenAudit, NewServer, ListenHTTP, ListenMySQL, Fail, Exit, Loaded
  <2>4. CASE Serve \/ Finish \/ SignalEarly \/ PasswordFileChanges \/ UNCHANGED allVars
    BY <2>2, <2>4 DEF Serve, Finish, StopServing, DeferredClose, Leave, SignalEarly, PasswordFileChanges, allVars, startupVars, Exit,
                      Loaded
  <2> QED
    BY <2>1, <2>3, <2>4 DEF StartupNext, StartStep
<1> QED
  BY <1>1, <1>2, PTL DEF StartupSpec

\* Every default is positive, and a number of the file that is not gets the default.
LEMMA NumbersPositive ==
  ASSUME NEW f \in Files, NEW n \in DOMAIN DefaultNumbers
  PROVE  /\ DOMAIN Effective(f).numbers = DOMAIN DefaultNumbers
         /\ Effective(f).numbers[n] \in Nat \ {0}
<1>1. DefaultNumbers[n] \in Nat \ {0}
  BY DEF DefaultNumbers
<1> DEFINE given == Decode(f).numbers
<1>2. given = Over(DefaultNumbers, f.numbers)
  BY DEF Decode
<1>3. DOMAIN given = DOMAIN DefaultNumbers /\ given[n] \in Int
  BY <1>1, <1>2, FilesAssumption DEF Over
<1>4. Effective(f).numbers =
        [m \in DOMAIN given |-> IF given[m] <= 0 THEN DefaultNumbers[m] ELSE given[m]]
  BY DEF Effective, ApplyDefaults
<1> QED
  BY <1>1, <1>3, <1>4

\* No limit, window or lifetime a component gets is zero or less, and the random names
\* and passwords have the bits that were asked for (applyDefaults, entropyBytes).
THEOREM LimitsArePositive == StartupSpec => []BuiltOnPositiveLimits
<1>1. ConfigInv => BuiltOnPositiveLimits
  <2> SUFFICES ASSUME ConfigInv, Loaded
               PROVE  LET store == OTPStoreConfig(config) IN
                      /\ \A n \in DOMAIN config.numbers : config.numbers[n] > 0
                      /\ \A k \in DOMAIN store : store[k] > 0
                      /\ 8 * store.UsernameBytes >= config.numbers.username_entropy_bits
                      /\ 8 * store.PasswordBytes >= config.numbers.password_entropy_bits
                      /\ config.numbers.username_entropy_bits >= 96
                      /\ config.numbers.password_entropy_bits >= 192
    BY DEF BuiltOnPositiveLimits
  <2> DEFINE given == config.numbers
  <2>1. /\ DOMAIN given = DOMAIN DefaultNumbers
        /\ \A n \in DOMAIN DefaultNumbers : given[n] \in Nat \ {0}
    BY NumbersPositive DEF ConfigInv, DefaultNumbers
  <2>2. given.username_entropy_bits >= 96 /\ given.password_entropy_bits >= 192
    BY DEF ConfigInv, Validate
  <2>3. \A bits \in Nat \ {0} : EntropyBytes(bits) > 0 /\ 8 * EntropyBytes(bits) >= bits
    BY DEF EntropyBytes
  <2>4. \A k \in DOMAIN OTPStoreConfig(config) : OTPStoreConfig(config)[k] > 0
    BY <2>1, <2>3 DEF OTPStoreConfig, DefaultNumbers
  <2>5. /\ OTPStoreConfig(config).UsernameBytes = EntropyBytes(given.username_entropy_bits)
        /\ OTPStoreConfig(config).PasswordBytes = EntropyBytes(given.password_entropy_bits)
    BY DEF OTPStoreConfig
  <2>6. {given.username_entropy_bits, given.password_entropy_bits} \subseteq Nat \ {0}
    BY <2>1 DEF DefaultNumbers
  <2> QED
    BY <2>1, <2>2, <2>3, <2>4, <2>5, <2>6
<1> QED
  BY <1>1, ConfigInvariance, PTL

\* In production the configuration in effect has no password in it and names a reference,
\* and every session opens upstream with what that reference holds by then, or not at
\* all, whatever became of it since Load (ProductionValid, UpstreamPassword).
THEOREM SecretsAreByReference == StartupSpec => []UpstreamSecretByReference
<1>1. ConfigInv => UpstreamSecretByReference
  BY DEF ConfigInv, UpstreamSecretByReference, Validate, ProductionValid, UpstreamPassword, NoPassword
<1> QED
  BY <1>1, ConfigInvariance, PTL

\* Each user the configuration names, if any, logs in under the name as it is written with
\* that user's password and no other (Validate, NewLocalProvider, Authenticate).
THEOREM UsersCanLogIn == StartupSpec => []EveryUserCanLogIn
<1>1. ConfigInv => EveryUserCanLogIn
  <2> SUFFICES ASSUME ConfigInv, Loaded,
                      NEW i \in DOMAIN config.settings.local_users,
                      NEW j \in DOMAIN config.settings.local_users
               PROVE  LET users == config.settings.local_users IN
                      /\ Authenticate(users, Written(users[i]), users[j].password)
                           <=> users[i].password = users[j].password
                      /\ ~ Authenticate(users, Written(users[i]), "")
                      /\ ~ Authenticate(users, WrittenOtherwise(users[i]), users[j].password)
    BY Zenon DEF EveryUserCanLogIn
  <2> DEFINE users == config.settings.local_users
             named == {k \in DOMAIN users : Written(users[k]) = Written(users[i])}
             otherwise == {k \in DOMAIN users : Written(users[k]) = WrittenOtherwise(users[i])}
  <2>1. LocalUsersValid(users)
    BY DEF ConfigInv, Validate
  <2>2. i \in Nat /\ users[i].blanks \in BOOLEAN
    <3> DEFINE given == Decode(file).settings
    <3>1. "local_users" \in DOMAIN Default /\ DOMAIN Default["local_users"] = {}
      BY DEF Default
    <3>2. given = Over(Default, file.settings)
      BY DEF Decode
    <3>3. /\ "local_users" \in DOMAIN given
          /\ \A k \in DOMAIN given["local_users"] :
               k \in Nat /\ given["local_users"][k].blanks \in BOOLEAN
      BY <3>1, <3>2, FilesAssumption DEF ConfigInv, Over
    <3> HIDE DEF given
    <3>4. config.settings["local_users"] = given["local_users"]
      <4>1. Effective(file).settings["local_users"] = given["local_users"]
        BY <3>3 DEF Effective, ApplyDefaults, given
      <4> QED
        BY <4>1 DEF ConfigInv
    <3> QED
      BY <3>3, <3>4
  <2>3. named = {i}
    BY <2>1 DEF LocalUsersValid, Written
  <2>4. \A password : Authenticate(users, Written(users[i]), password) <=>
                       users[i].password = password
    <3> HIDE DEF users
    <3> QED
      BY <2>2, <2>3 DEF Authenticate
  <2>5. users[i].password # ""
    BY <2>1 DEF LocalUsersValid
  <2>6. otherwise = {}
    <3>1. ASSUME NEW k \in DOMAIN users, Written(users[k]) = WrittenOtherwise(users[i]) PROVE FALSE
      <4>1. /\ users[k].username = users[i].username
            /\ users[k].blanks = (~ users[i].blanks)
        BY <3>1 DEF Written, WrittenOtherwise
      <4>2. k = i
        BY <2>1, <4>1 DEF LocalUsersValid
      <4> QED
        BY <2>2, <4>1, <4>2
    <3> QED
      BY <3>1
  <2>7. \A password : ~ Authenticate(users, WrittenOtherwise(users[i]), password)
    <3> HIDE DEF users
    <3> QED
      BY <2>6 DEF Authenticate
  <2> QED
    BY <2>4, <2>5, <2>7, Zenon
<1> QED
  BY <1>1, ConfigInvariance, PTL
=============================================================================
