------------------------- MODULE MCBrowserSessions --------------------------
(* Values for the constants of BrowserSessions. *)
EXTENDS BrowserSessions, TLC

CONSTANTS u1

\* One user, who logs in again and again.
MCOwner == [s \in Sessions |-> u1]

Symmetry ==
  Permutations(Requests) \cup Permutations(Usernames) \cup Permutations(Sessions)

\* What the last call returned is used in the step that made it, and nowhere else.
ViewWithoutReply == <<now, store, history, browser>>

=============================================================================
