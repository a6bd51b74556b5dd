---------------------------- MODULE AccessTokens ----------------------------
(***************************************************************************)
(* Access tokens: signed with a lifetime (signAccessToken), checked on     *)
(* every request (JwtAuthGuard), and put on a denylist that expires with   *)
(* the token when the user logs out (TokenDenylistService).                *)
(*                                                                         *)
(* Time passes in ticks of 1/TicksPerSecond second.  The signature's       *)
(* library (external) writes and compares whole seconds, rounded down;     *)
(* Redis (external) counts the seconds of an entry from the tick it was    *)
(* set.                                                                    *)
(***************************************************************************)
EXTENDS Integers

CONSTANTS
    Tokens,           \* the tokens issued, by their jti
    TicksPerSecond,   \* resolution of the clock
    AccessTtl,        \* accessTtlSeconds
    MaxNow            \* bound on the clock

\* What the constants must satisfy.
AccessTokensAssumption ==
    /\ TicksPerSecond \in Nat \ {0}
    /\ AccessTtl \in Nat \ {0}
    /\ MaxNow \in Nat

VARIABLES
    now,        \* the clock, in ticks
    redisUp,    \* whether Redis answers
    exp,        \* exp of each token, in seconds; 0 while it is not issued
    denylist,   \* the tick at which each entry goes; 0 without an entry
    checking,   \* requests between verifyAsync() and isRevoked()
    leaving,    \* logouts between the guard and denylist.revoke()
    loggedOut,  \* history: the tokens whose logout was answered
    admitted    \* history: the tokens the last step let in

vars == <<now, redisUp, exp, denylist, checking, leaving, loggedOut, admitted>>

Init ==
    /\ now \in 1 .. TicksPerSecond
    /\ redisUp = TRUE
    /\ exp = [t \in Tokens |-> 0]
    /\ denylist = [t \in Tokens |-> 0]
    /\ checking = {}
    /\ leaving = {}
    /\ loggedOut = {}
    /\ admitted = {}

Seconds(ticks) == ticks \div TicksPerSecond

\* jwtService.signAsync with expiresIn: iat is rounded down.
SignAccessToken(t) ==
    /\ exp[t] = 0
    /\ exp' = [exp EXCEPT ![t] = Seconds(now) + AccessTtl]
    /\ admitted' = {}
    /\ UNCHANGED <<now, redisUp, denylist, checking, leaving, loggedOut>>

\* jwtService.verifyAsync: refused from the second exp on.
VerifyAsync(t) == exp[t] # 0 /\ Seconds(now) < exp[t]

\* The guard verifies the signature and the lifetime; another request of the
\* same token may be between the two checks.
CanActivate(t) ==
    /\ VerifyAsync(t)
    /\ checking' = checking \cup {t}
    /\ admitted' = {}
    /\ UNCHANGED <<now, redisUp, exp, denylist, leaving, loggedOut>>

\* Then the denylist is read; with Redis down the request fails.
IsRevoked(t) ==
    /\ t \in checking
    /\ checking' = checking \ {t}
    /\ admitted' = IF redisUp /\ ~(now < denylist[t]) THEN {t} ELSE {}
    /\ UNCHANGED <<now, redisUp, exp, denylist, leaving, loggedOut>>

\* A request that was let in is a logout: the session is revoked first.
Logout(t) ==
    /\ t \in admitted
    /\ leaving' = leaving \cup {t}
    /\ admitted' = {}
    /\ UNCHANGED <<now, redisUp, exp, denylist, checking, loggedOut>>

RevokeTtl_RoundedUp(t) ==  \* as if the clock were rounded up
    exp[t] - Seconds(now + TicksPerSecond - 1)

RevokeTtl(t) == exp[t] - Seconds(now)

\* denylist.revoke(): set with the token's remaining whole seconds.  With Redis
\* down it throws and the logout is not answered.
Revoke(t) ==
    /\ t \in leaving
    /\ leaving' = leaving \ {t}
    /\ LET ttl == RevokeTtl(t)
       IN  /\ denylist' = IF redisUp /\ ttl > 0
                          THEN [denylist EXCEPT ![t] = now + ttl * TicksPerSecond] ELSE denylist
           /\ loggedOut' = IF redisUp \/ ttl <= 0 THEN loggedOut \cup {t} ELSE loggedOut
    /\ admitted' = {}
    /\ UNCHANGED <<now, redisUp, exp, checking>>

Tick ==
    /\ now < MaxNow
    /\ now' = now + 1
    /\ admitted' = {}
    /\ UNCHANGED <<redisUp, exp, denylist, checking, leaving, loggedOut>>

RedisFails ==
    /\ redisUp' = ~redisUp
    /\ admitted' = {}
    /\ UNCHANGED <<now, exp, denylist, checking, leaving, loggedOut>>

Next ==
    \/ \E t \in Tokens : SignAccessToken(t) \/ CanActivate(t) \/ IsRevoked(t) \/ Logout(t) \/ Revoke(t)
    \/ Tick \/ RedisFails

Spec == Init /\ [][Next]_vars

(***************************************************************************)
(* Properties                                                              *)
(***************************************************************************)

\* The clock, the tokens and the denylist have the values the code writes.
TypeOK ==
    /\ now \in 1 .. MaxNow + TicksPerSecond
    /\ redisUp \in BOOLEAN
    /\ exp \in [Tokens -> 0 .. Seconds(MaxNow + TicksPerSecond) + AccessTtl]
    /\ denylist \in [Tokens -> Nat]
    /\ {checking, leaving, loggedOut, admitted} \subseteq SUBSET Tokens

\* "Lets logout take effect immediately instead of waiting out the token TTL",
\* and "if Redis is down, isRevoked throws and the request fails": once a logout
\* was answered, no request of its token is let in for as long as the token lives,
\* whenever in a second it was issued, left and checked.
LoggedOutStaysOut == \A t \in admitted \cap loggedOut : ~VerifyAsync(t)

\* "Entries expire together with the token, so the set stays tiny": an entry
\* outlives its token by less than a second.
EntriesGoWithToken ==
    \A t \in Tokens : denylist[t] < (exp[t] + 1) * TicksPerSecond

\* Once a logout was answered, no request of its token is let in while the
\* token lives, and its entry goes with the token.
LogoutHolds == TypeOK /\ LoggedOutStaysOut /\ EntriesGoWithToken
=============================================================================
