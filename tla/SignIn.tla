------------------------------- MODULE SignIn -------------------------------
(***************************************************************************)
(* Sign-in and access: one-time codes, refresh sessions, access tokens and *)
(* staff accounts.  The four share no row and no key, so a behaviour is    *)
(* one of one of them (part).  Sessions is there twice: client apps that   *)
(* wait for each answer, and ones with several requests in flight.         *)
(***************************************************************************)
EXTENDS Naturals

CONSTANTS
    OtpSlots, Outcomes, MaxCodes,
    Clients, MaxSessions, RacingClients, Parallel, MaxRaceSessions, Faults,
    Tokens, TicksPerSecond, AccessTtl, MaxNow,
    Accounts, Lines, Codes, Emails, Choices, Tabs, Phones, Calls, None

VARIABLES
    part,
    isTestPhone, code, cooldown, attempts, user, otpReq, last, otpHeld, arrived, missed,
    sessions, held, sessionReq, upset, reused,
    raceSessions, raceHeld, raceReq, raceUpset, raceReused,
    now, redisUp, exp, denylist, checking, leaving, loggedOut, admitted,
    account, given, tab, login, call

O == INSTANCE Otp WITH Devices <- OtpSlots, req <- otpReq, held <- otpHeld

S == INSTANCE Sessions WITH Devices <- Clients, Parallel <- 1, req <- sessionReq

R == INSTANCE Sessions WITH
        Devices <- RacingClients, MaxSessions <- MaxRaceSessions,
        sessions <- raceSessions, held <- raceHeld, req <- raceReq, upset <- raceUpset, reused <- raceReused

T == INSTANCE AccessTokens

A == INSTANCE StaffAccess

ASSUME SignInAssumption ==
    /\ O!OtpAssumption
    /\ S!SessionsAssumption
    /\ R!SessionsAssumption
    /\ T!AccessTokensAssumption
    /\ A!StaffAssumption

otpVars == <<isTestPhone, code, cooldown, attempts, user, otpReq, last, otpHeld, arrived, missed>>
sessionVars == <<sessions, held, sessionReq, upset, reused>>
raceVars == <<raceSessions, raceHeld, raceReq, raceUpset, raceReused>>
tokenVars == <<now, redisUp, exp, denylist, checking, leaving, loggedOut, admitted>>
staffVars == <<account, given, tab, login, call>>
vars == <<part, otpVars, sessionVars, raceVars, tokenVars, staffVars>>

Init ==
    /\ part \in {"otp", "sessions", "races", "tokens", "staff"}
    /\ O!Init /\ S!Init /\ R!Init /\ T!Init /\ A!Init

Next ==
    \/ part = "otp" /\ O!Next /\ UNCHANGED <<part, sessionVars, raceVars, tokenVars, staffVars>>
    \/ part = "sessions" /\ S!Next /\ UNCHANGED <<part, otpVars, raceVars, tokenVars, staffVars>>
    \/ part = "races" /\ R!Next /\ UNCHANGED <<part, otpVars, sessionVars, tokenVars, staffVars>>
    \/ part = "tokens" /\ T!Next /\ UNCHANGED <<part, otpVars, sessionVars, raceVars, staffVars>>
    \/ part = "staff" /\ A!Next /\ UNCHANGED <<part, otpVars, sessionVars, raceVars, tokenVars>>

Spec == Init /\ [][Next]_vars

\* One device asking for codes and typing them (OtpService): the code of an SMS
\* that arrived, neither superseded, used up nor expired, is the one stored, and
\* a send that failed leaves no cooldown behind.
CodesWork == O!CodesWork

\* Refresh tokens (AuthService.refresh, SessionsRepository): devices that wait
\* for their answers lose the whole family of a token used twice, through lost
\* answers and dying requests, and one that missed no answer is not signed out
\* by its own refreshes or another's family; two requests of one device at once
\* never leave a family two sessions that are good to refresh.
SessionsHold == S!SessionsHold /\ R!SessionsHold

\* Once a logout was answered, no request of its token is let in while the
\* token lives, whenever in a second each happened, and its entry in the
\* denylist outlives the token by less than a second (TokenDenylistService).
LogoutHolds == T!LogoutHolds

\* The verticals a request acts in were given to that admin, however their
\* modules change meanwhile, and an admin's modules are those of one request of
\* one super admin, or none while it is under way (AdminModulesGuard,
\* AdminUsersRepository.update).
StaffKeepScope == A!StaffKeepScope
=============================================================================
