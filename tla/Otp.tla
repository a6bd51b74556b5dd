-------------------------------- MODULE Otp --------------------------------
(***************************************************************************)
(* One-time passcodes of one phone (OtpService, SmsService and             *)
(* AuthService.loginWithPhone): three keys in Redis, an SMS gateway that   *)
(* may refuse or answer too late, and a user who requests a code and types *)
(* it in, from one device or several.                                      *)
(*                                                                         *)
(* A step is one Redis command, one gateway call or one database           *)
(* statement.  Keys expire at any time.                                    *)
(***************************************************************************)
EXTENDS Integers, FiniteSets

CONSTANTS
    Devices,     \* slots for requests about this phone
    Outcomes,    \* what the gateway may do: "sent", "refused" or "late"
    MaxCodes     \* bound on the codes generated

\* What the constants must satisfy.
OtpAssumption == Outcomes \subseteq {"sent", "refused", "late"} /\ MaxCodes \in Nat \ {0}

VARIABLES
    isTestPhone,   \* whether the phone is listed in OTP_TEST_PHONES
    code,          \* auth:otp, 0 when unset
    cooldown,      \* auth:otp:cooldown
    attempts,      \* auth:otp:attempts
    user,          \* whether the phone has an account
    req,           \* the requests in flight
    last,          \* the last code generated
    held,          \* history: the code of an SMS that arrived, while it should work
    arrived,       \* history: the last code that arrived
    missed         \* history: the wrong guesses compared with the stored code

vars == <<isTestPhone, code, cooldown, attempts, user, req, last, held, arrived, missed>>

MAX_ATTEMPTS == 5
NoCode == 0
TestCode == MaxCodes + 1

IdleReq == [pc |-> "idle", code |-> NoCode]

Init ==
    /\ isTestPhone \in BOOLEAN
    /\ code = NoCode
    /\ cooldown = FALSE
    /\ attempts = 0
    /\ user = FALSE
    /\ req = [d \in Devices |-> IdleReq]
    /\ last = 0
    /\ held = NoCode
    /\ arrived = NoCode
    /\ missed = 0

At(d, pc) == req[d].pc = pc
Goto(d, pc) == req' = [req EXCEPT ![d].pc = pc]
Done(d) == req' = [req EXCEPT ![d] = IdleReq]

(***************************************************************************)
(* issue()                                                                 *)
(***************************************************************************)

\* The cooldown is read; with none a code is generated.
Issue(d) ==
    /\ At(d, "idle")
    /\ ~cooldown
    /\ last < MaxCodes
    /\ last' = last + 1
    /\ req' = [req EXCEPT ![d] = [pc |-> "setCode", code |-> IF isTestPhone THEN TestCode ELSE last']]
    /\ UNCHANGED <<isTestPhone, code, cooldown, attempts, user, held, missed, arrived>>

\* Storing it supersedes the code the user holds.
SetCode(d) ==
    /\ At(d, "setCode")
    /\ code' = req[d].code
    /\ held' = NoCode
    /\ missed' = 0
    /\ Goto(d, "setCooldown")
    /\ UNCHANGED <<isTestPhone, cooldown, attempts, user, last, arrived>>

SetCooldown(d) ==
    /\ At(d, "setCooldown")
    /\ cooldown' = TRUE
    /\ Goto(d, "delAttempts")
    /\ UNCHANGED <<isTestPhone, code, attempts, user, last, held, missed, arrived>>

\* A test phone never reaches the gateway.
DelAttempts(d) ==
    /\ At(d, "delAttempts")
    /\ attempts' = 0
    /\ IF isTestPhone THEN Done(d) ELSE Goto(d, "send")
    /\ UNCHANGED <<isTestPhone, code, cooldown, user, last, held, missed, arrived>>

Send_Finally(d, outcome) ==  \* as if the keys were deleted whatever the gateway said
    /\ At(d, "send")
    /\ held' = IF outcome # "refused" /\ code = req[d].code THEN code ELSE held
    /\ arrived' = IF outcome = "refused" THEN arrived ELSE req[d].code
    /\ Goto(d, "undo")
    /\ UNCHANGED <<isTestPhone, code, cooldown, attempts, user, last, missed>>

\* SmsService.send: delivered; refused or not reached; or delivered although
\* the call timed out.
Send(d, outcome) ==
    /\ At(d, "send")
    /\ held' = IF outcome # "refused" /\ code = req[d].code THEN code ELSE held
    /\ arrived' = IF outcome = "refused" THEN arrived ELSE req[d].code
    /\ IF outcome = "sent" THEN Done(d) ELSE Goto(d, "undo")
    /\ UNCHANGED <<isTestPhone, code, cooldown, attempts, user, last, missed>>

\* The send failed: both keys are deleted, whoever wrote them.
Undo(d) ==
    /\ At(d, "undo")
    /\ code' = NoCode
    /\ missed' = 0
    /\ cooldown' = FALSE
    /\ Done(d)
    /\ UNCHANGED <<isTestPhone, attempts, user, last, held, arrived>>

(***************************************************************************)
(* verify() and loginWithPhone()                                           *)
(***************************************************************************)

\* The stored code is read and compared with what was typed.
Verify(d, guess) ==
    /\ At(d, "idle")
    /\ code # NoCode
    /\ req' = [req EXCEPT ![d] = [pc |-> IF guess = code THEN "consume" ELSE "count", code |-> guess]]
    /\ missed' = IF guess = code THEN missed ELSE missed + 1
    /\ UNCHANGED <<isTestPhone, code, cooldown, attempts, user, last, held, arrived>>

\* A wrong guess counts.
CountAttempt(d) ==
    /\ At(d, "count")
    /\ attempts' = attempts + 1
    /\ IF attempts' >= MAX_ATTEMPTS THEN Goto(d, "exhaust") ELSE Done(d)
    /\ UNCHANGED <<isTestPhone, code, cooldown, user, last, held, missed, arrived>>

DeleteCode ==
    /\ code' = NoCode
    /\ attempts' = 0
    /\ held' = NoCode
    /\ missed' = 0

\* Too many of them delete the code.
Exhaust(d) ==
    /\ At(d, "exhaust")
    /\ DeleteCode
    /\ Done(d)
    /\ UNCHANGED <<isTestPhone, cooldown, user, last, arrived>>

\* The right one deletes the code and goes on to the account.
Consume(d) ==
    /\ At(d, "consume")
    /\ DeleteCode
    /\ Goto(d, "findUser")
    /\ UNCHANGED <<isTestPhone, cooldown, user, last, arrived>>

\* findByPhone() ?? createByPhone(), which the unique phone refuses when
\* another request created the account meanwhile.
FindByPhone(d) ==
    /\ At(d, "findUser")
    /\ IF user THEN Done(d) ELSE Goto(d, "createUser")
    /\ UNCHANGED <<isTestPhone, code, cooldown, attempts, user, last, held, missed, arrived>>

CreateByPhone(d) ==
    /\ At(d, "createUser")
    /\ user' = TRUE
    /\ Done(d)
    /\ UNCHANGED <<isTestPhone, code, cooldown, attempts, last, held, missed, arrived>>

(***************************************************************************)
(* The system                                                              *)
(***************************************************************************)

ExpireCode ==
    /\ code # NoCode
    /\ code' = NoCode
    /\ held' = NoCode
    /\ missed' = 0
    /\ UNCHANGED <<isTestPhone, cooldown, attempts, user, req, last, arrived>>

ExpireCooldown ==
    /\ cooldown
    /\ cooldown' = FALSE
    /\ UNCHANGED <<isTestPhone, code, attempts, user, req, last, held, missed, arrived>>

\* POST auth/otp/request and auth/otp/verify.
OtpStep(d) ==
    \/ Issue(d) \/ SetCode(d) \/ SetCooldown(d) \/ DelAttempts(d)
    \/ \E outcome \in Outcomes : Send(d, outcome)
    \/ Undo(d)
    \/ \E guess \in 1 .. TestCode : Verify(d, guess)
    \/ CountAttempt(d) \/ Exhaust(d) \/ Consume(d) \/ FindByPhone(d) \/ CreateByPhone(d)

Next == (\E d \in Devices : OtpStep(d)) \/ ExpireCode \/ ExpireCooldown

Spec == Init /\ [][Next]_vars

(***************************************************************************)
(* Properties                                                              *)
(***************************************************************************)

Quiet == \A d \in Devices : At(d, "idle")

\* The keys and the requests have the values the code writes.
TypeOK ==
    /\ isTestPhone \in BOOLEAN
    /\ code \in 0 .. TestCode
    /\ cooldown \in BOOLEAN
    /\ attempts \in 0 .. MAX_ATTEMPTS - 1 + Cardinality(Devices)
    /\ user \in BOOLEAN
    /\ req \in [Devices -> [pc : {"idle", "setCode", "setCooldown", "delAttempts", "send", "undo", "count",
                                  "exhaust", "consume", "findUser", "createUser"}, code : 0 .. TestCode]]
    /\ last \in 0 .. MaxCodes
    /\ {held, arrived} \subseteq 0 .. TestCode
    /\ missed \in Nat

\* The undo is for "a code they never received": a code that did arrive, and
\* was neither superseded, used up nor expired, is the one that signs in.
DeliveredCodeWorks == Quiet /\ held # NoCode => code = held

\* "Network failure or timeout - the gateway was never reached": a send that is
\* about to be undone did not arrive.
SmsNotReached == \A d \in Devices : At(d, "undo") => arrived # req[d].code

\* "The cooldown does not lock the user out of retrying a code they never
\* received": while it runs and nothing is under way, the last code arrived.
LockedOnlyIfSent == Quiet /\ cooldown /\ ~isTestPhone => arrived = last

\* "A per-code attempt cap": a code is only used up by that many guesses at it,
\* not by guesses at the code before it.
CapIsPerCode ==
    [][\A d \in Devices : At(d, "exhaust") /\ req'[d].pc = "idle" /\ code # NoCode => missed >= MAX_ATTEMPTS]_vars

\* One device asking for codes and typing them: a code that arrived, neither
\* superseded, used up nor expired, is the one stored, and a send that failed
\* leaves no cooldown behind.
CodesWork == TypeOK /\ DeliveredCodeWorks /\ LockedOnlyIfSent
=============================================================================
