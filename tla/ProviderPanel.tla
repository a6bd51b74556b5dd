---------------------------- MODULE ProviderPanel ----------------------------
(***************************************************************************)
(* Provider profiles (ProviderService): a seller's panel makes an empty    *)
(* one the first time it is opened, registering fills it in, the duty      *)
(* toggle writes it and an admin verifies or rejects it.  A step is one    *)
(* database statement.  The application is one value; blank is a profile   *)
(* nobody filled in.  The panel's figures are in OrderTracking.            *)
(***************************************************************************)
EXTENDS Naturals

CONSTANTS
    Sellers,
    Applications,   \* what a registration may say
    Blank,
    Requests,       \* slots for requests
    Nobody

\* What the constants must satisfy.
PanelAssumption == Blank \notin Applications /\ Nobody \notin Sellers

VARIABLES
    profile,    \* the ProviderProfile rows, unique by user
    req,        \* requests in flight
    applied,    \* history: the applications a seller was told are submitted
    asked       \* history: the duty flag the seller last set

vars == <<profile, req, applied, asked>>

ProviderStatus == {"PENDING", "VERIFIED", "REJECTED"}

RegisterProviderDto == Applications

IdleRequest == [pc |-> "idle", user |-> Nobody, application |-> Blank, duty |-> {}, decision |-> "PENDING"]

Init ==
    /\ profile = [s \in Sellers |-> {}]
    /\ req = [a \in Requests |-> IdleRequest]
    /\ applied = [s \in Sellers |-> {}]
    /\ asked = [s \in Sellers |-> FALSE]

At(a, pc) == req[a].pc = pc
Goto(a, r) == req' = [req EXCEPT ![a] = r]
HasProfile(s) == profile[s] # {}

\* register(): a placeholder is filled in, a decided profile is a conflict.
Register(a, s, dto) ==
    /\ At(a, "idle")
    /\ \A row \in profile[s] : row.status = "PENDING"
    /\ Goto(a, [IdleRequest EXCEPT !.pc = IF HasProfile(s) THEN "fill" ELSE "create", !.user = s, !.application = dto])
    /\ UNCHANGED <<profile, applied, asked>>

Update(s, row) == profile' = [profile EXCEPT ![s] = {row}]

\* updateProfile() with the registration, whatever the status is by now.
FillProfile(a) ==
    /\ At(a, "fill")
    /\ LET r == req[a]
       IN  /\ profile' = [profile EXCEPT ![r.user] = {[row EXCEPT !.application = r.application] : row \in @}]
           /\ applied' = [applied EXCEPT ![r.user] = @ \cup {r.application}]
    /\ Goto(a, IdleRequest)
    /\ UNCHANGED asked

\* ensureProfile() of a dashboard, schedule, earnings or duty request.
EnsureProfile(a, s, duty) ==
    /\ At(a, "idle")
    /\ HasProfile(s) => duty # {}
    /\ Goto(a, [IdleRequest EXCEPT !.pc = IF HasProfile(s) THEN "duty" ELSE "create", !.user = s, !.duty = duty])
    /\ UNCHANGED <<profile, applied, asked>>

CreateProfile_Replaces(a) ==  \* as if the row were written whether or not there is one
    /\ At(a, "create")
    /\ LET r == req[a]
       IN  /\ Update(r.user, [application |-> r.application, status |-> "PENDING", isAvailable |-> asked[r.user]])
           /\ applied' = [applied EXCEPT ![r.user] = @ \cup ({r.application} \ {Blank})]
           /\ Goto(a, IF r.duty = {} THEN IdleRequest ELSE [r EXCEPT !.pc = "duty"])
    /\ UNCHANGED asked

\* The insert, with the registration or blank.  The user is unique: a second
\* one is refused.
CreateProfile(a) ==
    /\ At(a, "create")
    /\ LET r == req[a]
       IN  IF HasProfile(r.user)
           THEN Goto(a, [r EXCEPT !.pc = "refused"]) /\ UNCHANGED <<profile, applied>>
           ELSE /\ Update(r.user, [application |-> r.application, status |-> "PENDING", isAvailable |-> FALSE])
                /\ applied' = [applied EXCEPT ![r.user] = @ \cup ({r.application} \ {Blank})]
                /\ Goto(a, IF r.duty = {} THEN IdleRequest ELSE [r EXCEPT !.pc = "duty"])
    /\ UNCHANGED asked

\* setAvailability() writes the flag.
SetAvailability(a) ==
    /\ At(a, "duty")
    /\ \E on \in req[a].duty :
          /\ profile' = [profile EXCEPT ![req[a].user] = {[row EXCEPT !.isAvailable = on] : row \in @}]
          /\ asked' = [asked EXCEPT ![req[a].user] = on]
    /\ Goto(a, IdleRequest)
    /\ UNCHANGED applied

\* verify() has found the profile, filled in or not.
Verify(a, s, decision) ==
    /\ At(a, "idle")
    /\ HasProfile(s)
    /\ Goto(a, [IdleRequest EXCEPT !.pc = "decide", !.user = s, !.decision = decision])
    /\ UNCHANGED <<profile, applied, asked>>

Decide(a) ==
    /\ At(a, "decide")
    /\ profile' = [profile EXCEPT ![req[a].user] = {[row EXCEPT !.status = req[a].decision] : row \in @}]
    /\ Goto(a, IdleRequest)
    /\ UNCHANGED <<applied, asked>>

\* A refusal is answered, or a request dies.
Abort(a) ==
    /\ ~At(a, "idle")
    /\ Goto(a, IdleRequest)
    /\ UNCHANGED <<profile, applied, asked>>

\* The routes under provider.
PanelStep(a, s) ==
    \/ \E dto \in RegisterProviderDto : Register(a, s, dto)
    \/ \E duty \in {{}, {TRUE}, {FALSE}} : EnsureProfile(a, s, duty)
    \/ \E decision \in ProviderStatus \ {"PENDING"} : Verify(a, s, decision)

Next ==
    \E a \in Requests :
        \/ \E s \in Sellers : PanelStep(a, s)
        \/ FillProfile(a) \/ CreateProfile(a) \/ SetAvailability(a) \/ Decide(a) \/ Abort(a)

Spec == Init /\ [][Next]_vars

(***************************************************************************)
(* Properties                                                              *)
(***************************************************************************)

\* The rows have the columns of the schema.
TypeOK ==
    \A s \in Sellers : profile[s] \subseteq [application : Applications \cup {Blank}, status : ProviderStatus, isAvailable : BOOLEAN]

\* "Registering fills it in rather than colliding with it": once a seller was
\* told an application is submitted, the profile holds one of theirs, however
\* the panel's own creation crossed it.
ApplicationIsKept == \A s \in Sellers : applied[s] # {} => \A row \in profile[s] : row.application \in applied[s]

\* "The seller believed they were online while the server had never heard of
\* them": the profile's flag is the one the seller last set, through
\* registrations and verdicts.
DutyIsAsSet == \A s \in Sellers : \A row \in profile[s] : row.isAvailable = asked[s]

\* "The row this creates stays PENDING until an admin verifies a real
\* application."
VerifiedIsReal == \A s \in Sellers : \A row \in profile[s] : row.status = "VERIFIED" => row.application # Blank

\* "The caller's profile, created empty if they have none": opening the panel
\* is not refused.
PanelOpens == \A a \in Requests : At(a, "refused") => req[a].application # Blank
=============================================================================
