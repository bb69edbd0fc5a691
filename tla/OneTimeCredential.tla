------------------------- MODULE OneTimeCredential --------------------------
(***************************************************************************)
(* What the credential store promises about each credential, with none of  *)
(* its bookkeeping: a credential is live from its issue until it is used,  *)
(* its lifetime ends or it was failed too often, and from then on it is    *)
(* never live again.  In particular it is used at most once.  Here         *)
(* expiry is eager - the tick of the clock that ends a lifetime kills the  *)
(* credential - whereas the code discovers it when the credential is next  *)
(* looked at.                                                              *)
(***************************************************************************)
EXTENDS Integers

CONSTANTS Credentials, Lifetime, FailureLimit

VARIABLES
  now,   \* the clock
  otc    \* [Credentials -> phase, deadline and failures so far]

vars == <<now, otc>>

Idle(phase) == [phase |-> phase, deadline |-> 0, strikes |-> 0]
Live(deadline, strikes) ==
  [phase |-> "live", deadline |-> deadline, strikes |-> strikes]

Init ==
  /\ now = 0
  /\ otc = [c \in Credentials |-> Idle("unissued")]

Issue(c) ==
  /\ otc[c].phase = "unissued"
  /\ otc' = [otc EXCEPT ![c] = Live(now + Lifetime, 0)]
  /\ UNCHANGED now

Use(c) ==
  /\ otc[c].phase = "live"
  /\ otc' = [otc EXCEPT ![c] = Idle("used")]
  /\ UNCHANGED now

Strike(c) ==
  LET strikes == otc[c].strikes + 1 IN
  /\ otc[c].phase = "live"
  /\ otc' = [otc EXCEPT ![c] =
               IF strikes >= FailureLimit THEN Idle("dead") ELSE Live(@.deadline, strikes)]
  /\ UNCHANGED now

Tick ==
  /\ now' = now + 1
  /\ otc' = [c \in Credentials |->
               IF otc[c].phase = "live" /\ otc[c].deadline <= now + 1
                 THEN Idle("dead") ELSE otc[c]]

Next ==
  \/ \E c \in Credentials : Issue(c) \/ Use(c) \/ Strike(c)
  \/ Tick

Spec == Init /\ [][Next]_vars

=============================================================================
