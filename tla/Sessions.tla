------------------------------ MODULE Sessions ------------------------------
(***************************************************************************)
(* Refresh sessions (AuthService and RefreshSessionRepository).  A login   *)
(* starts a family; each refresh claims the session it presents and        *)
(* creates the next one of the family; presenting a session that is        *)
(* already revoked, or losing the claim, revokes the family.               *)
(*                                                                         *)
(* A step is one statement of the database or one answer.  A device holds  *)
(* one refresh token and may send several requests with it at once; an     *)
(* answer may be lost, and a request may die between two statements.       *)
(* Accounts are never deleted, so the account of a session is always       *)
(* found.  Tokens are random: the session stands for its token.            *)
(***************************************************************************)
EXTENDS Integers, Sequences

CONSTANTS
    Devices,       \* the client apps; all are signed in to the same account
    Parallel,      \* requests a device may have in flight
    MaxSessions,   \* bound on the sessions created
    Faults         \* what may go wrong: a subset of {"lost", "dies"}

\* What the constants must satisfy.
SessionsAssumption ==
    /\ Parallel \in Nat \ {0}
    /\ MaxSessions \in Nat \ {0}
    /\ Faults \subseteq {"lost", "dies"}

VARIABLES
    sessions,   \* the RefreshSession rows, in the order they were created
    held,       \* the token each device holds, 0 when signed out
    req,        \* the requests in flight
    upset,      \* history: the devices that missed an answer since their login
    reused      \* history: the families revoked because a token was used twice

vars == <<sessions, held, req, upset, reused>>

Slots == Devices \X (1 .. Parallel)

NoSession == 0
IdleReq == [pc |-> "idle", session |-> NoSession]

Init ==
    /\ sessions = <<>>
    /\ held = [d \in Devices |-> NoSession]
    /\ req = [a \in Slots |-> IdleReq]
    /\ upset = {}
    /\ reused = {}

At(a, pc) == req[a].pc = pc
Goto(a, pc, s) == req' = [req EXCEPT ![a] = [pc |-> pc, session |-> s]]
Done(a) == req' = [req EXCEPT ![a] = IdleReq]

Family(s) == sessions[s].family

(***************************************************************************)
(* Statements of the repository                                            *)
(***************************************************************************)

NewSession(family) == [family |-> family, revoked |-> FALSE, expired |-> FALSE]

Create(family) ==
    /\ Len(sessions) < MaxSessions
    /\ sessions' = Append(sessions, NewSession(family))

\* updateMany() of the unrevoked rows among them.
RevokeAll(ids) ==
    sessions' = [s \in DOMAIN sessions |->
                    IF s \in ids THEN [sessions[s] EXCEPT !.revoked = TRUE] ELSE sessions[s]]

(***************************************************************************)
(* issueTokenPair() after the passcode was verified                        *)
(***************************************************************************)

IssueTokenPair(a) ==
    /\ At(a, "idle")
    /\ held[a[1]] = NoSession
    /\ Create(Len(sessions) + 1)
    /\ Goto(a, "loggedIn", Len(sessions) + 1)
    /\ UNCHANGED <<held, upset, reused>>

(***************************************************************************)
(* rotateRefreshToken()                                                    *)
(***************************************************************************)

\* findByTokenHash(): revoked, expired, or good to claim.
RotateRefreshToken(a) ==
    /\ At(a, "idle")
    /\ held[a[1]] # NoSession
    /\ LET s == held[a[1]]
       IN  \/ sessions[s].revoked /\ Goto(a, "reuse", s)
           \/ ~sessions[s].revoked /\ ~sessions[s].expired /\ Goto(a, "claim", s)
    /\ UNCHANGED <<sessions, held, upset, reused>>

\* claim() succeeds while the row is unrevoked.
Claim(a) ==
    /\ At(a, "claim")
    /\ IF sessions[req[a].session].revoked
       THEN UNCHANGED sessions /\ Goto(a, "reuse", req[a].session)
       ELSE RevokeAll({req[a].session}) /\ Goto(a, "create", req[a].session)
    /\ UNCHANGED <<held, upset, reused>>

CreateNext(a) ==
    /\ At(a, "create")
    /\ Create(Family(req[a].session))
    /\ Goto(a, "rotated", Len(sessions) + 1)
    /\ UNCHANGED <<held, upset, reused>>

FamilyMembers(s) == {t \in DOMAIN sessions : Family(t) = Family(s)}

RevokeFamily_OnlyThis(a) ==  \* as if only the session presented were revoked
    /\ At(a, "reuse")
    /\ RevokeAll({req[a].session})
    /\ reused' = reused \cup {Family(req[a].session)}
    /\ Done(a)
    /\ UNCHANGED <<held, upset>>

RevokeFamily(a) ==
    /\ At(a, "reuse")
    /\ RevokeAll(FamilyMembers(req[a].session))
    /\ reused' = reused \cup {Family(req[a].session)}
    /\ Done(a)
    /\ UNCHANGED <<held, upset>>

(***************************************************************************)
(* logout()                                                                *)
(***************************************************************************)

\* findByTokenHash(): the row is found and is the caller's own.
Logout(a) ==
    /\ At(a, "idle")
    /\ held[a[1]] # NoSession
    /\ Goto(a, "revoke", held[a[1]])
    /\ UNCHANGED <<sessions, held, upset, reused>>

Revoke(a) ==
    /\ At(a, "revoke")
    /\ RevokeAll({req[a].session})
    /\ Goto(a, "loggedOut", NoSession)
    /\ UNCHANGED <<held, upset, reused>>

(***************************************************************************)
(* Answers, faults and time                                                *)
(***************************************************************************)

\* The device stores what it was given.
Answer(a) ==
    /\ req[a].pc \in {"loggedIn", "rotated", "loggedOut"}
    /\ held' = [held EXCEPT ![a[1]] = req[a].session]
    /\ upset' = IF At(a, "rotated") THEN upset ELSE upset \ {a[1]}
    /\ Done(a)
    /\ UNCHANGED <<sessions, reused>>

\* The answer never reaches the device, which keeps the token it had.
LoseAnswer(a) ==
    /\ "lost" \in Faults
    /\ req[a].pc \in {"loggedIn", "rotated", "loggedOut"}
    /\ upset' = upset \cup {a[1]}
    /\ Done(a)
    /\ UNCHANGED <<sessions, held, reused>>

\* The process ends between two statements.
Abort(a) ==
    /\ "dies" \in Faults
    /\ req[a].pc \in {"claim", "create", "reuse", "revoke"}
    /\ upset' = upset \cup {a[1]}
    /\ Done(a)
    /\ UNCHANGED <<sessions, held, reused>>

\* A device with a refused token signs in again.
Forget(d) ==
    /\ held[d] # NoSession
    /\ sessions[held[d]].revoked \/ sessions[held[d]].expired
    /\ \A i \in 1 .. Parallel : At(<<d, i>>, "idle")
    /\ held' = [held EXCEPT ![d] = NoSession]
    /\ UNCHANGED <<sessions, req, upset, reused>>

Expire(s) ==
    /\ ~sessions[s].expired
    /\ sessions' = [sessions EXCEPT ![s].expired = TRUE]
    /\ UNCHANGED <<held, req, upset, reused>>

\* POST auth/otp/verify, auth/refresh and auth/logout.
SessionStep(a) ==
    \/ IssueTokenPair(a)
    \/ RotateRefreshToken(a) \/ Claim(a) \/ CreateNext(a) \/ RevokeFamily(a)
    \/ Logout(a) \/ Revoke(a)
    \/ Answer(a) \/ LoseAnswer(a) \/ Abort(a)

Next ==
    \/ \E a \in Slots : SessionStep(a)
    \/ \E d \in Devices : Forget(d)
    \/ \E s \in DOMAIN sessions : Expire(s)

Spec == Init /\ [][Next]_vars

(***************************************************************************)
(* Properties                                                              *)
(***************************************************************************)

Ids == 1 .. Len(sessions)

\* The rows, the devices and the requests have the values the code writes.
TypeOK ==
    /\ sessions \in Seq([family : Nat \ {0}, revoked : BOOLEAN, expired : BOOLEAN])
    /\ Len(sessions) <= MaxSessions
    /\ held \in [Devices -> {NoSession} \cup Ids]
    /\ req \in [Slots -> [pc : {"idle", "claim", "create", "reuse", "revoke", "loggedIn", "rotated", "loggedOut"},
                          session : {NoSession} \cup Ids]]
    /\ upset \subseteq Devices
    /\ reused \subseteq {sessions[s].family : s \in Ids}

\* "Two concurrent refreshes with the same token can never both succeed"
\* (claim): however requests cross, are lost or die, a family never has two
\* sessions that are good to refresh.
OneLiveSession ==
    \A s, t \in Ids : s # t /\ Family(s) = Family(t) => sessions[s].revoked \/ sessions[t].revoked

\* "The whole session family is revoked, forcing re-login on every device in
\* that chain" (AuthService): once a family was revoked because a token was used
\* twice, none of its sessions is good.
ReuseEndsFamily == \A s \in Ids : Family(s) \in reused => sessions[s].revoked

\* A device that waits for each answer and missed none is never signed out by
\* the refreshes of its own, or by what happens to the other devices.
ClientStaysSignedIn ==
    \A d \in Devices :
        /\ \A i \in 1 .. Parallel : At(<<d, i>>, "idle")
        /\ held[d] # NoSession
        /\ d \notin upset
        => ~sessions[held[d]].revoked

\* However requests cross, a family never has two sessions that are good to
\* refresh; devices that wait for each answer also lose the whole family of a
\* token used twice, and are not signed out by what they never did.
SessionsHold ==
    /\ TypeOK
    /\ OneLiveSession
    /\ Parallel = 1 => ReuseEndsFamily /\ ClientStaysSignedIn
=============================================================================
