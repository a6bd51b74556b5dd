---------------------------- MODULE Notifications ----------------------------
(***************************************************************************)
(* Notifications and push (NotificationsService, its repositories and      *)
(* PushService): a notification is stored and then pushed, as best it can, *)
(* to the handsets its user has registered.  Handsets change hands.        *)
(*                                                                         *)
(* A step is one database statement or one multicast.  A notification is   *)
(* its user and isRead; its id is its place in the table.                  *)
(***************************************************************************)
EXTENDS Naturals, Sequences, FiniteSets

CONSTANTS
    Users,
    Tokens,      \* FCM tokens, one per handset
    Requests,    \* slots for notifications being raised
    Nobody,
    MaxNotices   \* bound on the notifications raised

\* What the constants must satisfy.
NotificationsAssumption == Nobody \notin Users /\ MaxNotices \in Nat

VARIABLES
    enabled,   \* whether the Firebase credentials loaded
    notices,   \* the Notification rows
    devices,   \* the DeviceToken rows: pairs <<userId, token>>
    live,      \* tokens FCM still knows
    req,       \* notifications being raised
    holder,    \* history: who uses each handset
    due,       \* history: pairs <<token, id>> of a handset used by the notification's user
    pushed,    \* history: pairs <<token, id>> delivered
    strays,    \* history: those delivered to a handset somebody else uses by then
    asked      \* history: how many notifications there were when a user marked all read

vars == <<enabled, notices, devices, live, req, holder, due, pushed, strays, asked>>

Ids == 1 .. Len(notices)
IdleRequest == [pc |-> "idle", user |-> Nobody, id |-> 0, tokens |-> {}]

Init ==
    /\ enabled \in BOOLEAN
    /\ notices = <<>>
    /\ devices = {}
    /\ live = Tokens
    /\ req = [a \in Requests |-> IdleRequest]
    /\ holder = [t \in Tokens |-> Nobody]
    /\ due = {}
    /\ pushed = {}
    /\ strays = {}
    /\ asked = [u \in Users |-> 0]

At(a, pc) == req[a].pc = pc
Done(a) == req' = [req EXCEPT ![a] = IdleRequest]

(***************************************************************************)
(* The handsets                                                            *)
(***************************************************************************)

\* The token is claimed by whoever signed in last.
Register(u, t) ==
    /\ t \in live
    /\ devices' = {d \in devices : d[2] # t} \cup {<<u, t>>}
    /\ holder' = [holder EXCEPT ![t] = u]
    /\ due' = due \cup {<<t, i>> : i \in {j \in Ids : notices[j].user = u}}
    /\ UNCHANGED <<enabled, notices, live, req, pushed, strays, asked>>

\* Sign-out: this handset of this user.
Unregister(u, t) ==
    /\ holder[t] = u
    /\ devices' = devices \ {<<u, t>>}
    /\ holder' = [holder EXCEPT ![t] = Nobody]
    /\ UNCHANGED <<enabled, notices, live, req, due, pushed, strays, asked>>

\* The app is removed: FCM forgets the token for good.
Uninstall(t) ==
    /\ t \in live
    /\ live' = live \ {t}
    /\ UNCHANGED <<enabled, notices, devices, req, holder, due, pushed, strays, asked>>

(***************************************************************************)
(* create() and deliver()                                                  *)
(***************************************************************************)

\* The row is written first.  Without credentials that is all.
Create(a, u) ==
    /\ At(a, "idle")
    /\ Len(notices) < MaxNotices
    /\ notices' = Append(notices, [user |-> u, isRead |-> FALSE])
    /\ due' = due \cup {<<t, Len(notices')>> : t \in {s \in Tokens : holder[s] = u}}
    /\ req' = IF enabled
              THEN [req EXCEPT ![a] = [pc |-> "find", user |-> u, id |-> Len(notices'), tokens |-> {}]]
              ELSE req
    /\ UNCHANGED <<enabled, devices, live, holder, pushed, strays, asked>>

FindTokens_All(a) ==  \* as if the query were not by user
    /\ At(a, "find")
    /\ LET tokens == {t \in Tokens : \E u \in Users : <<u, t>> \in devices}
       IN  IF tokens = {} THEN Done(a) ELSE req' = [req EXCEPT ![a].pc = "send", ![a].tokens = tokens]
    /\ UNCHANGED <<enabled, notices, devices, live, holder, due, pushed, strays, asked>>

\* The user's tokens are read; without any there is nothing to send.
FindTokens(a) ==
    /\ At(a, "find")
    /\ LET tokens == {t \in Tokens : <<req[a].user, t>> \in devices}
       IN  IF tokens = {} THEN Done(a) ELSE req' = [req EXCEPT ![a].pc = "send", ![a].tokens = tokens]
    /\ UNCHANGED <<enabled, notices, devices, live, holder, due, pushed, strays, asked>>

Delivered(a, ok) ==
    /\ pushed' = pushed \cup {<<t, req[a].id>> : t \in ok}
    /\ strays' = strays \cup {<<t, req[a].id>> : t \in {s \in ok : holder[s] \notin {Nobody, req[a].user}}}

\* DEAD_TOKEN_CODES: FCM no longer knows the token.
DeadTokens(tokens, ok) == tokens \ live

\* sendToTokens(): each token is delivered to, fails for now or is dead.
SendToTokens(a, ok) ==
    /\ At(a, "send")
    /\ ok \subseteq req[a].tokens \cap live
    /\ Delivered(a, ok)
    /\ LET dead == DeadTokens(req[a].tokens, ok)
       IN  IF dead = {} THEN Done(a) ELSE req' = [req EXCEPT ![a].pc = "prune", ![a].tokens = dead]
    /\ UNCHANGED <<enabled, notices, devices, live, holder, due, asked>>

\* The whole multicast fails, or the read before it: no token is provably dead.
PushFailed(a) ==
    /\ req[a].pc \in {"find", "send", "prune"}
    /\ Done(a)
    /\ UNCHANGED <<enabled, notices, devices, live, holder, due, pushed, strays, asked>>

\* The dead tokens are deleted, whoever has them.
RemoveMany(a) ==
    /\ At(a, "prune")
    /\ devices' = {d \in devices : d[2] \notin req[a].tokens}
    /\ Done(a)
    /\ UNCHANGED <<enabled, notices, live, holder, due, pushed, strays, asked>>

MarkAllRead(u) ==
    /\ notices' = [i \in Ids |-> [notices[i] EXCEPT !.isRead = @ \/ notices[i].user = u]]
    /\ asked' = [asked EXCEPT ![u] = Len(notices)]
    /\ UNCHANGED <<enabled, devices, live, req, holder, due, pushed, strays>>

\* The user's routes, called by the app in their pocket.
UserStep(u) == MarkAllRead(u) \/ \E t \in Tokens : Register(u, t) \/ Unregister(u, t)

Next ==
    \/ \E u \in Users : UserStep(u)
    \/ \E a \in Requests :
          \/ \E u \in Users : Create(a, u)
          \/ \E ok \in SUBSET Tokens : SendToTokens(a, ok)
          \/ FindTokens(a) \/ PushFailed(a) \/ RemoveMany(a)
    \/ \E t \in Tokens : Uninstall(t)

Spec == Init /\ [][Next]_vars

(***************************************************************************)
(* Properties                                                              *)
(***************************************************************************)

\* The rows and the requests are what the code writes, and a token is in the
\* table once.
TypeOK ==
    /\ enabled \in BOOLEAN
    /\ \A i \in Ids : notices[i] \in [user : Users, isRead : BOOLEAN]
    /\ devices \subseteq Users \X Tokens
    /\ \A c, d \in devices : c[2] = d[2] => c = d
    /\ \A a \in Requests : req[a].pc \in {"idle", "find", "send", "prune"} /\ req[a].tokens \subseteq Tokens

\* "Moves a re-sold or shared handset to its new owner - otherwise the previous
\* user would keep receiving that device's notifications": whatever reaches a
\* handset is for somebody who used it while that notification was waiting.
PushWasTheirs == pushed \subseteq due

\* "Anything else must not cost the user their token" and "signing out on one
\* device must not silence the user's other devices": a handset in use that FCM
\* still knows stays registered to its user.
HandsetStaysReachable == \A t \in live : holder[t] # Nobody => <<holder[t], t>> \in devices

\* A notification is read because its own user marked it after it was stored.
ReadByItsUser == \A i \in Ids : notices[i].isRead => i <= asked[notices[i].user]

\* "Releases a token on sign-out, so the next user of the phone gets no stale
\* pushes."
NoStalePush == strays = {}
=============================================================================
