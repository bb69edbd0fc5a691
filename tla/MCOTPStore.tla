----------------------------- MODULE MCOTPStore -----------------------------
(* Values for the constants of OTPStore. *)
EXTENDS OTPStore, TLC

CONSTANTS u1, b1

\* One user, logged in from one browser.
MCOwnerOne == b1 :> u1

=============================================================================
