---------------------------- MODULE EagerSession ----------------------------
(***************************************************************************)
(* What the browser session store promises about each session, with none   *)
(* of its bookkeeping: a session ends when it is not used for the idle     *)
(* lifetime, when its absolute lifetime is over or when somebody ends it,  *)
(* and it is never open again.  Here the tick of the clock ends it,        *)
(* whereas the code discovers the end at the next lookup.                  *)
(***************************************************************************)
EXTENDS Integers

CONSTANTS Sessions, IdleLifetime, AbsoluteLifetime

VARIABLES
  now,      \* the clock
  session   \* [Sessions -> phase, when it ends if not used, when it ends anyway]

vars == <<now, session>>

Without(phase) == [phase |-> phase, idleAt |-> 0, endAt |-> 0]

\* A session last used at `used`, as it is seen at time t.
SeenAt(t, used, endAt) ==
  IF t < used + IdleLifetime /\ t < endAt
    THEN [phase |-> "open", idleAt |-> used + IdleLifetime, endAt |-> endAt]
    ELSE Without("ended")

Init ==
  /\ now = 0
  /\ session = [s \in Sessions |-> Without("none")]

\* A session counts from the moment its user was authenticated, which may be a
\* while ago.
Open(s) ==
  /\ session[s].phase = "none"
  /\ \E start \in 0 .. now :
       session' = [session EXCEPT ![s] = SeenAt(now, start, start + AbsoluteLifetime)]
  /\ UNCHANGED now

Use(s) ==
  /\ session[s].phase = "open"
  /\ session' = [session EXCEPT ![s] = SeenAt(now, now, session[s].endAt)]
  /\ UNCHANGED now

End(s) ==
  /\ session[s].phase = "open"
  /\ session' = [session EXCEPT ![s] = Without("ended")]
  /\ UNCHANGED now

Tick ==
  /\ now' = now + 1
  /\ session' = [s \in Sessions |->
       IF session[s].phase = "open"
         THEN SeenAt(now + 1, session[s].idleAt - IdleLifetime, session[s].endAt)
         ELSE session[s]]

Next == Tick \/ \E s \in Sessions : Open(s) \/ Use(s) \/ End(s)

Spec == Init /\ [][Next]_vars

=============================================================================
