----------------------------- MODULE MCAccounts -----------------------------
(***************************************************************************)
(* Sign-in and access for TLC.  The states are the sum of the components'. *)
(***************************************************************************)
EXTENDS SignIn

\* Where a component has several initial states, they are only told apart in
\* its own part.
MCInit ==
    /\ Init
    /\ part # "otp" => ~isTestPhone
    /\ part # "tokens" => now = 1
    /\ part # "staff" => account["u1"].state = "stored" /\ account["u1"].phone.line = "l1"

MCSpec == MCInit /\ [][Next]_vars
=============================================================================
