--------------------------- MODULE SessionsProofs ---------------------------
(***************************************************************************)
(* Sessions' invariants for any number of devices, of requests in flight   *)
(* and of sessions, with answers lost and requests dying anywhere.         *)
(*                                                                         *)
(* RaceInv is inductive however requests cross: while a request is between *)
(* its claim and its insert, its family has no good session and no other   *)
(* request between the two.  SoloInv adds what a device that waits for     *)
(* each answer can rely on: no other device knows a session of its family. *)
(***************************************************************************)
EXTENDS Sessions, SequenceTheorems, TLAPS

Row == [family : Nat \ {0}, revoked : BOOLEAN, expired : BOOLEAN]
Req == [pc : {"idle", "claim", "create", "reuse", "revoke", "loggedIn", "rotated", "loggedOut"},
        session : {NoSession} \cup Ids]

\* The steps of a request that carry a session.
Carrying == {"claim", "create", "reuse", "revoke", "loggedIn", "rotated"}

\* A family is named by its first session, so a new one is never an old one.
FamiliesAreOld == \A s \in Ids : sessions[s].family \in 1 .. s

Carried == \A a \in Slots : req[a].pc \in Carrying => req[a].session \in Ids

\* Between the claim and the insert nothing of the family is good, and nobody
\* else is there.
AloneInFamily ==
    \A a \in Slots : At(a, "create") =>
        /\ \A s \in Ids : Family(s) = Family(req[a].session) => sessions[s].revoked
        /\ \A b \in Slots : b # a /\ At(b, "create") => Family(req[b].session) # Family(req[a].session)

RaceInv ==
    /\ TypeOK
    /\ FamiliesAreOld
    /\ Carried
    /\ AloneInFamily
    /\ OneLiveSession

(***************************************************************************)
(* Statements of the repository                                            *)
(***************************************************************************)

\* Rows that are as they were, or revoked, or expired.
Aged ==
    /\ sessions' \in Seq(Row) /\ Len(sessions') = Len(sessions)
    /\ \A s \in Ids : /\ sessions'[s].family = sessions[s].family
                      /\ sessions[s].revoked => sessions'[s].revoked

LEMMA RowFacts ==
  ASSUME RaceInv
  PROVE  /\ sessions \in Seq(Row) /\ Len(sessions) \in Nat /\ DOMAIN sessions = Ids
         /\ \A s \in Ids : sessions[s] \in Row
<1>1. sessions \in Seq(Row)
  BY DEF RaceInv, TypeOK, Row
<1> QED BY <1>1, LenProperties, ElementOfSeq DEF Ids

\* A new row comes after the others, which stay as they are.
LEMMA CreateFacts ==
  ASSUME SessionsAssumption, RaceInv, NEW family \in Nat \ {0}, Create(family)
  PROVE  /\ sessions' \in Seq(Row)
         /\ Len(sessions') = Len(sessions) + 1 /\ Len(sessions') <= MaxSessions
         /\ Ids' = Ids \cup {Len(sessions) + 1} /\ Len(sessions) + 1 \notin Ids
         /\ \A s \in Ids : sessions'[s] = sessions[s]
         /\ sessions'[Len(sessions) + 1] = NewSession(family)
<1>1. /\ sessions \in Seq(Row) /\ Len(sessions) \in Nat
      /\ Len(sessions) < MaxSessions /\ sessions' = Append(sessions, NewSession(family))
  BY RowFacts DEF Create
<1>2. NewSession(family) \in Row
  BY DEF NewSession, Row
<1>3. /\ sessions' \in Seq(Row) /\ Len(sessions') = Len(sessions) + 1
      /\ \A s \in 1 .. Len(sessions) : sessions'[s] = sessions[s]
      /\ sessions'[Len(sessions) + 1] = NewSession(family)
  BY <1>1, <1>2, AppendProperties
<1>4. Len(sessions') <= MaxSessions
  <2>1. Len(sessions) < MaxSessions /\ MaxSessions \in Nat
    BY <1>1 DEF SessionsAssumption
  <2> QED BY <1>1, <1>3, <2>1
<1>5. Ids' = 1 .. Len(sessions) + 1
  BY <1>3 DEF Ids
<1> QED BY <1>1, <1>3, <1>4, <1>5 DEF Ids

\* Revoking keeps every row's family, and revokes the rows asked for.
LEMMA RevokeFacts ==
  ASSUME RaceInv, NEW ids, RevokeAll(ids)
  PROVE  /\ Aged /\ Ids' = Ids
         /\ \A s \in Ids : sessions'[s].revoked = (sessions[s].revoked \/ s \in ids)
<1> DEFINE row(s) == IF s \in ids THEN [sessions[s] EXCEPT !.revoked = TRUE] ELSE sessions[s]
<1>1. /\ sessions \in Seq(Row) /\ Len(sessions) \in Nat /\ DOMAIN sessions = Ids
      /\ \A s \in Ids : sessions[s] \in Row
  BY RowFacts
<1>2. \A s \in Ids : /\ row(s) \in Row /\ row(s).family = sessions[s].family
                     /\ row(s).revoked = (sessions[s].revoked \/ s \in ids)
  BY <1>1 DEF Row
<1>3. sessions' = [s \in Ids |-> row(s)]
  BY <1>1 DEF RevokeAll
<1> HIDE DEF row
<1>4. sessions' \in [1 .. Len(sessions) -> Row] /\ \A s \in Ids : sessions'[s] = row(s)
  BY <1>2, <1>3 DEF Ids
<1>5. sessions' \in Seq(Row)
  BY <1>1, <1>4, SeqDef
<1>6. Len(sessions') = Len(sessions)
  <2>1. Len(sessions') \in Nat /\ DOMAIN sessions' = 1 .. Len(sessions')
    BY <1>5, LenProperties
  <2>2. 1 .. Len(sessions') = 1 .. Len(sessions)
    BY <1>4, <2>1
  <2> QED BY <1>1, <2>1, <2>2
<1> QED BY <1>2, <1>4, <1>5, <1>6 DEF Aged, Ids

LEMMA ExpireFacts ==
  ASSUME RaceInv, NEW s \in DOMAIN sessions, Expire(s)
  PROVE  Aged /\ Ids' = Ids /\ \A t \in Ids : sessions'[t].revoked = sessions[t].revoked
<1> DEFINE x == [sessions[s] EXCEPT !.expired = TRUE]
<1>1. /\ sessions \in Seq(Row) /\ Len(sessions) \in Nat /\ DOMAIN sessions = 1 .. Len(sessions)
      /\ sessions[s] \in Row
  BY RowFacts DEF Ids
<1>2. x \in Row /\ x.family = sessions[s].family /\ x.revoked = sessions[s].revoked
  BY <1>1 DEF Row
<1>3. sessions' = [sessions EXCEPT ![s] = x]
  BY DEF Expire
<1> HIDE DEF x
<1>4. /\ sessions' \in Seq(Row) /\ Len(sessions') = Len(sessions)
      /\ \A t \in 1 .. Len(sessions) : sessions'[t] = IF t = s THEN x ELSE sessions[t]
  BY <1>1, <1>2, <1>3, ExceptSeq
<1> QED BY <1>2, <1>4 DEF Aged, Ids

(***************************************************************************)
(* However requests cross                                                  *)
(***************************************************************************)

\* What holds of the requests after a step that adds no row and starts no insert.
NoInsert ==
    /\ req' \in [Slots -> Req]
    /\ \A a \in Slots :
          \/ req'[a] = req[a]
          \/ req'[a].pc # "create" /\ (req'[a].pc \in Carrying => req'[a].session \in Ids)

LEMMA TypesOf ==
  ASSUME RaceInv
  PROVE  /\ held \in [Devices -> {NoSession} \cup Ids] /\ req \in [Slots -> Req]
         /\ upset \subseteq Devices /\ reused \subseteq {sessions[s].family : s \in Ids}
BY DEF RaceInv, TypeOK, Req

\* Rows that only age and requests that insert nothing keep the invariant.
LEMMA AgedKeeps ==
  ASSUME RaceInv, Aged, NoInsert, held' \in [Devices -> {NoSession} \cup Ids], upset' \subseteq Devices,
         reused' \subseteq {sessions[s].family : s \in Ids}
  PROVE  RaceInv'
<1>1. Ids' = Ids
  BY DEF Aged, Ids
<1>2. /\ sessions' \in Seq(Row) /\ Len(sessions') = Len(sessions)
      /\ \A s \in Ids : sessions'[s].family = sessions[s].family /\ (sessions[s].revoked => sessions'[s].revoked)
  BY DEF Aged
<1>3. {sessions'[s].family : s \in Ids} = {sessions[s].family : s \in Ids}
  BY <1>2
<1>4. TypeOK'
  <2>1. Len(sessions') <= MaxSessions
    BY <1>2 DEF RaceInv, TypeOK
  <2>2. reused' \subseteq {sessions'[s].family : s \in Ids'}
    BY <1>1, <1>3
  <2>3. req' \in [Slots -> Req']
    BY <1>1 DEF NoInsert, Req
  <2> QED BY <1>1, <1>2, <2>1, <2>2, <2>3 DEF TypeOK, Row, Req
<1>5. FamiliesAreOld'
  BY <1>1, <1>2 DEF RaceInv, FamiliesAreOld
<1>6. Carried'
  BY <1>1 DEF RaceInv, Carried, NoInsert
<1>7. OneLiveSession'
  BY <1>1, <1>2 DEF RaceInv, OneLiveSession, Family
<1>8. \A a \in Slots : At(a, "create")' => /\ req'[a] = req[a] /\ At(a, "create")
                                           /\ req[a].session \in Ids
  BY DEF NoInsert, At, RaceInv, Carried, Carrying
<1>9. AloneInFamily'
  <2> SUFFICES ASSUME NEW a \in Slots, At(a, "create")'
               PROVE  /\ \A s \in Ids : sessions'[s].family = sessions'[req'[a].session].family => sessions'[s].revoked
                      /\ \A b \in Slots : b # a /\ At(b, "create")' =>
                            sessions'[req'[b].session].family # sessions'[req'[a].session].family
    BY <1>1 DEF AloneInFamily, Family
  <2>1. \A s \in Ids : sessions[s].family = sessions[req[a].session].family => sessions[s].revoked
    BY <1>8 DEF RaceInv, AloneInFamily, Family
  <2>2. \A b \in Slots : b # a /\ At(b, "create") => sessions[req[b].session].family # sessions[req[a].session].family
    BY <1>8 DEF RaceInv, AloneInFamily, Family
  <2> QED BY <1>2, <1>8, <2>1, <2>2
<1> QED BY <1>4, <1>5, <1>6, <1>7, <1>9 DEF RaceInv

\* A request that goes on without an insert.
LEMMA GotoFacts ==
  ASSUME RaceInv, NEW a \in Slots, NEW x \in Req, req' = [req EXCEPT ![a] = x],
         x.pc # "create", x.pc \in Carrying => x.session \in Ids
  PROVE  NoInsert
BY TypesOf DEF NoInsert

LEMMA StillAged ==
  ASSUME RaceInv, UNCHANGED sessions PROVE Aged /\ Ids' = Ids
BY RowFacts DEF Aged, Ids

LEMMA SlotFacts ==
  ASSUME NEW a \in Slots PROVE a[1] \in Devices /\ a[2] \in 1 .. Parallel /\ a = <<a[1], a[2]>>
BY DEF Slots

LEMMA IdleFacts == IdleReq \in Req /\ IdleReq.pc = "idle" /\ IdleReq.session = NoSession
BY DEF IdleReq, Req

\* findByTokenHash() of a refresh, a logout, and what ends a request without
\* touching a row.
LEMMA QuietStep ==
  ASSUME RaceInv, NEW a \in Slots,
         RotateRefreshToken(a) \/ Logout(a) \/ Answer(a) \/ LoseAnswer(a) \/ Abort(a)
  PROVE  RaceInv'
<1>1. /\ held \in [Devices -> {NoSession} \cup Ids] /\ req \in [Slots -> Req]
      /\ upset \subseteq Devices /\ reused \subseteq {sessions[s].family : s \in Ids} /\ a[1] \in Devices
  BY TypesOf, SlotFacts
<1>2. UNCHANGED <<sessions, reused>>
  BY DEF RotateRefreshToken, Logout, Answer, LoseAnswer, Abort
<1>3. NoInsert
  <2>1. CASE RotateRefreshToken(a) \/ Logout(a)
    <3>1. PICK pc \in {"reuse", "claim", "revoke"} :
             req' = [req EXCEPT ![a] = [pc |-> pc, session |-> held[a[1]]]] /\ held[a[1]] # NoSession
      BY <2>1 DEF RotateRefreshToken, Logout, Goto
    <3> DEFINE x == [pc |-> pc, session |-> held[a[1]]]
    <3>2. x \in Req /\ x.pc # "create" /\ x.session \in Ids
      BY <1>1, <3>1 DEF Req
    <3> HIDE DEF x
    <3>3. req' = [req EXCEPT ![a] = x]
      BY <3>1 DEF x
    <3> QED BY <3>2, <3>3, GotoFacts
  <2>2. CASE Answer(a) \/ LoseAnswer(a) \/ Abort(a)
    <3>1. req' = [req EXCEPT ![a] = IdleReq]
      BY <2>2 DEF Answer, LoseAnswer, Abort, Done
    <3> QED BY <3>1, IdleFacts, GotoFacts DEF Carrying
  <2> QED BY <2>1, <2>2
<1>4. held' \in [Devices -> {NoSession} \cup Ids] /\ upset' \subseteq Devices
  <2>1. CASE Answer(a)
    <3>1. req[a].session \in {NoSession} \cup Ids
      BY <1>1 DEF Req
    <3>2. held' = [held EXCEPT ![a[1]] = req[a].session] /\ (upset' = upset \/ upset' = upset \ {a[1]})
      BY <2>1 DEF Answer
    <3> QED BY <1>1, <3>1, <3>2
  <2>2. CASE ~Answer(a)
    BY <1>1, <2>2 DEF RotateRefreshToken, Logout, LoseAnswer, Abort
  <2> QED BY <2>1, <2>2
<1> QED BY <1>1, <1>2, <1>3, <1>4, StillAged, AgedKeeps

\* The updateMany() of a lost claim, of a token used twice, and of a logout.
LEMMA RevokeStep ==
  ASSUME RaceInv, NEW a \in Slots, NEW ids, RevokeAll(ids), UNCHANGED <<held, upset>>, NEW x \in Req,
         req' = [req EXCEPT ![a] = x], x.pc # "create", x.pc \in Carrying => x.session \in Ids,
         reused' \subseteq {sessions[s].family : s \in Ids}
  PROVE  RaceInv'
<1>1. Aged
  BY RevokeFacts
<1>2. NoInsert
  BY GotoFacts
<1> QED BY <1>1, <1>2, AgedKeeps, TypesOf

LEMMA RevokeFamilyStep ==
  ASSUME RaceInv, NEW a \in Slots, RevokeFamily(a) PROVE RaceInv'
<1>1. /\ At(a, "reuse") /\ RevokeAll(FamilyMembers(req[a].session)) /\ req' = [req EXCEPT ![a] = IdleReq]
      /\ reused' = reused \cup {Family(req[a].session)} /\ UNCHANGED <<held, upset>>
  BY DEF RevokeFamily, Done
<1>2. req[a].session \in Ids
  BY <1>1 DEF RaceInv, Carried, Carrying, At
<1>3. reused' \subseteq {sessions[s].family : s \in Ids}
  BY <1>1, <1>2, TypesOf DEF Family
<1> QED BY <1>1, <1>3, IdleFacts, RevokeStep DEF Carrying

LEMMA LogoutStep ==
  ASSUME RaceInv, NEW a \in Slots, Revoke(a) PROVE RaceInv'
<1> DEFINE x == [pc |-> "loggedOut", session |-> NoSession]
<1>1. RevokeAll({req[a].session}) /\ req' = [req EXCEPT ![a] = x] /\ UNCHANGED <<held, upset, reused>>
  BY DEF Revoke, Goto
<1>2. x \in Req /\ x.pc \notin Carrying /\ x.pc # "create"
  BY DEF Req, Carrying
<1> HIDE DEF x
<1> QED BY <1>1, <1>2, RevokeStep, TypesOf

\* The claim: the only good session of the family is gone, and the winner is
\* alone until it inserts the next.
LEMMA ClaimStep ==
  ASSUME RaceInv, NEW a \in Slots, Claim(a) PROVE RaceInv'
<1> DEFINE s == req[a].session
           x == [pc |-> "create", session |-> s]
           y == [pc |-> "reuse", session |-> s]
<1>1. At(a, "claim") /\ s \in Ids /\ UNCHANGED <<held, upset, reused>> /\ req \in [Slots -> Req]
  BY TypesOf DEF Claim, RaceInv, Carried, Carrying, At
<1>2. CASE sessions[s].revoked
  <2>1. UNCHANGED sessions /\ req' = [req EXCEPT ![a] = y]
    BY <1>2 DEF Claim, Goto
  <2>2. y \in Req /\ y.pc # "create" /\ y.session \in Ids
    BY <1>1 DEF Req
  <2> HIDE DEF y
  <2>3. NoInsert
    BY <2>1, <2>2, GotoFacts
  <2> QED BY <1>1, <2>1, <2>3, StillAged, AgedKeeps, TypesOf
<1>3. CASE ~sessions[s].revoked
  <2>1. RevokeAll({s}) /\ req' = [req EXCEPT ![a] = x]
    BY <1>3 DEF Claim, Goto
  <2>2. x \in Req /\ x.pc = "create" /\ x.session = s
    BY <1>1 DEF Req
  <2> HIDE DEF x, s
  <2>3. /\ Aged /\ Ids' = Ids
        /\ \A t \in Ids : sessions'[t].revoked = (sessions[t].revoked \/ t \in {s})
    BY <2>1, RevokeFacts
  <2>4. \A b \in Slots : req'[b] = IF b = a THEN x ELSE req[b]
    BY <1>1, <2>1
  <2>5. req' \in [Slots -> Req]
    BY <1>1, <2>1, <2>2
  <2>6. \A t \in Ids : t # s /\ sessions[t].family = sessions[s].family => sessions[t].revoked
    BY <1>1, <1>3 DEF RaceInv, OneLiveSession, Family
  <2>7. \A b \in Slots : At(b, "create") =>
           /\ req[b].session \in Ids /\ sessions[req[b].session].family # sessions[s].family
           /\ \A t \in Ids : sessions[t].family = sessions[req[b].session].family => sessions[t].revoked
           /\ \A c \in Slots : c # b /\ At(c, "create") =>
                 sessions[req[c].session].family # sessions[req[b].session].family
    BY <1>1, <1>3 DEF RaceInv, AloneInFamily, Family, Carried, Carrying, At
  <2>8. AloneInFamily'
    <3> SUFFICES ASSUME NEW b \in Slots, At(b, "create")'
                 PROVE  /\ \A t \in Ids : sessions'[t].family = sessions'[req'[b].session].family => sessions'[t].revoked
                        /\ \A c \in Slots : c # b /\ At(c, "create")' =>
                              sessions'[req'[c].session].family # sessions'[req'[b].session].family
      BY <2>3 DEF AloneInFamily, Family
    <3>1. \A t \in Ids : sessions'[t].family = sessions[t].family
      BY <2>3 DEF Aged
    <3>2. CASE b = a
      <4>1. req'[b].session = s
        BY <2>2, <2>4, <3>2
      <4>2. \A c \in Slots : c # a /\ At(c, "create")' => At(c, "create") /\ req'[c] = req[c]
        BY <2>4 DEF At
      <4>3. \A t \in Ids : sessions'[t].family = sessions'[s].family => sessions'[t].revoked
        BY <1>1, <2>3, <2>6, <3>1
      <4>4. ASSUME NEW c \in Slots, c # a, At(c, "create")'
            PROVE  sessions'[req'[c].session].family # sessions'[s].family
        BY <1>1, <2>7, <3>1, <4>2, <4>4
      <4> QED BY <3>2, <4>1, <4>3, <4>4
    <3>3. CASE b # a
      <4>1. At(b, "create") /\ req'[b] = req[b]
        BY <2>4, <3>3 DEF At
      <4>2. \A c \in Slots : c # a /\ At(c, "create")' => At(c, "create") /\ req'[c] = req[c]
        BY <2>4 DEF At
      <4>3. req'[a].session = s
        BY <2>2, <2>4
      <4> DEFINE r == req[b].session
      <4>4. /\ r \in Ids /\ sessions[r].family # sessions[s].family
            /\ \A t \in Ids : sessions[t].family = sessions[r].family => sessions[t].revoked
        BY <2>7, <4>1
      <4>5. \A t \in Ids : sessions'[t].family = sessions'[r].family => sessions'[t].revoked
        BY <2>3, <3>1, <4>4
      <4>6. ASSUME NEW c \in Slots, c # b, At(c, "create")'
            PROVE  sessions'[req'[c].session].family # sessions'[r].family
        <5>1. CASE c = a
          BY <1>1, <3>1, <4>3, <4>4, <5>1
        <5>2. CASE c # a
          <6>1. At(c, "create") /\ req'[c] = req[c]
            BY <4>2, <4>6, <5>2
          <6>2. req[c].session \in Ids /\ sessions[req[c].session].family # sessions[r].family
            BY <2>7, <4>1, <4>6, <6>1
          <6> QED BY <3>1, <4>4, <6>1, <6>2
        <5> QED BY <5>1, <5>2
      <4>7. req'[b].session = r
        BY <4>1
      <4> HIDE DEF r
      <4> QED BY <4>5, <4>6, <4>7
    <3> QED BY <3>2, <3>3
  <2>9. OneLiveSession'
    BY <2>3 DEF RaceInv, OneLiveSession, Family, Aged
  <2>10. Carried' /\ FamiliesAreOld'
    BY <1>1, <2>2, <2>3, <2>4 DEF RaceInv, Carried, FamiliesAreOld, Aged
  <2>11. TypeOK'
    <3>1. {sessions'[t].family : t \in Ids'} = {sessions[t].family : t \in Ids}
      BY <2>3 DEF Aged
    <3>2. Len(sessions') <= MaxSessions
      BY <2>3 DEF Aged, RaceInv, TypeOK
    <3>3. req' \in [Slots -> Req']
      BY <2>3, <2>5 DEF Req
    <3> QED BY <1>1, <2>3, <3>1, <3>2, <3>3, TypesOf DEF TypeOK, Aged, Row, Req
  <2> QED BY <2>8, <2>9, <2>10, <2>11 DEF RaceInv
<1> QED BY <1>2, <1>3

\* A new row of a family where everything is revoked and nobody else inserts.
LEMMA InsertStep ==
  ASSUME SessionsAssumption, RaceInv, NEW a \in Slots, NEW family \in Nat \ {0}, Create(family),
         NEW pc \in {"loggedIn", "rotated"}, Goto(a, pc, Len(sessions) + 1), UNCHANGED <<held, upset, reused>>,
         family \in 1 .. Len(sessions) + 1,
         \A s \in Ids : Family(s) = family => sessions[s].revoked,
         \A b \in Slots : b # a /\ At(b, "create") => Family(req[b].session) # family
  PROVE  RaceInv'
<1> DEFINE n == Len(sessions) + 1
           x == [pc |-> pc, session |-> n]
<1>1. /\ sessions' \in Seq(Row) /\ Len(sessions') = n /\ Len(sessions') <= MaxSessions
      /\ Ids' = Ids \cup {n} /\ n \notin Ids
      /\ \A s \in Ids : sessions'[s] = sessions[s]
      /\ sessions'[n] = NewSession(family)
  BY CreateFacts
<1>2. sessions'[n].family = family /\ ~sessions'[n].revoked
  BY <1>1 DEF NewSession
<1>3. req \in [Slots -> Req] /\ req' = [req EXCEPT ![a] = x] /\ x.pc = pc /\ x.session = n
  BY TypesOf DEF Goto
<1> HIDE DEF n, x
<1>4. \A b \in Slots : req'[b] = IF b = a THEN x ELSE req[b]
  BY <1>3
<1>5. \A b \in Slots : At(b, "create")' => b # a /\ At(b, "create") /\ req'[b] = req[b] /\ req[b].session \in Ids
  BY <1>3, <1>4 DEF At, RaceInv, Carried, Carrying
<1>6. TypeOK'
  <2>1. req' \in [Slots -> Req']
    <3>1. x \in Req'
      BY <1>1, <1>3 DEF Req, x
    <3>2. \A b \in Slots : req[b] \in Req'
      BY <1>1, <1>3 DEF Req
    <3> QED BY <1>3, <3>1, <3>2
  <2>2. reused' \subseteq {sessions'[s].family : s \in Ids'}
    BY <1>1, TypesOf
  <2> QED BY <1>1, <2>1, <2>2, TypesOf DEF TypeOK, Row, Req
<1>7. FamiliesAreOld'
  <2>1. family \in 1 .. n
    BY DEF n
  <2> QED BY <1>1, <1>2, <2>1 DEF RaceInv, FamiliesAreOld
<1>8. Carried'
  BY <1>1, <1>3, <1>4 DEF RaceInv, Carried
<1>9. OneLiveSession'
  <2>1. \A s, t \in Ids : s # t /\ sessions[s].family = sessions[t].family => sessions[s].revoked \/ sessions[t].revoked
    BY DEF RaceInv, OneLiveSession, Family
  <2>2. \A s \in Ids : sessions[s].family = family => sessions[s].revoked
    BY DEF Family
  <2> QED BY <1>1, <1>2, <2>1, <2>2 DEF OneLiveSession, Family
<1>10. AloneInFamily'
  <2> SUFFICES ASSUME NEW b \in Slots, At(b, "create")'
               PROVE  /\ \A s \in Ids' : sessions'[s].family = sessions'[req'[b].session].family => sessions'[s].revoked
                      /\ \A c \in Slots : c # b /\ At(c, "create")' =>
                            sessions'[req'[c].session].family # sessions'[req'[b].session].family
    BY DEF AloneInFamily, Family
  <2> DEFINE r == req[b].session
  <2>1. /\ b # a /\ At(b, "create") /\ req'[b] = req[b] /\ r \in Ids
    BY <1>5
  <2>2. /\ \A s \in Ids : sessions[s].family = sessions[r].family => sessions[s].revoked
        /\ \A c \in Slots : c # b /\ At(c, "create") => sessions[req[c].session].family # sessions[r].family
        /\ sessions[r].family # family
    BY <2>1 DEF RaceInv, AloneInFamily, Family
  <2>3. req'[b].session = r
    BY <2>1
  <2> HIDE DEF r
  <2>4. \A s \in Ids' : sessions'[s].family = sessions'[r].family => sessions'[s].revoked
    BY <1>1, <1>2, <2>1, <2>2
  <2>5. ASSUME NEW c \in Slots, c # b, At(c, "create")'
        PROVE  sessions'[req'[c].session].family # sessions'[r].family
    BY <1>1, <1>5, <2>1, <2>2, <2>5
  <2> QED BY <2>3, <2>4, <2>5
<1> QED BY <1>6, <1>7, <1>8, <1>9, <1>10 DEF RaceInv

LEMMA CreateNextStep ==
  ASSUME SessionsAssumption, RaceInv, NEW a \in Slots, CreateNext(a) PROVE RaceInv'
<1> DEFINE family == Family(req[a].session)
<1>1. At(a, "create") /\ Create(family) /\ Goto(a, "rotated", Len(sessions) + 1) /\ UNCHANGED <<held, upset, reused>>
  BY DEF CreateNext
<1>2. req[a].session \in Ids
  BY <1>1 DEF RaceInv, Carried, Carrying, At
<1>3. family \in Nat \ {0} /\ family \in 1 .. Len(sessions) + 1
  BY <1>2, RowFacts DEF Family, RaceInv, FamiliesAreOld, Ids
<1>4. /\ \A s \in Ids : Family(s) = family => sessions[s].revoked
      /\ \A b \in Slots : b # a /\ At(b, "create") => Family(req[b].session) # family
  BY <1>1 DEF RaceInv, AloneInFamily
<1> HIDE DEF family
<1> QED BY <1>1, <1>3, <1>4, InsertStep

\* A login's family is one nobody has.
LEMMA NewFamily ==
  ASSUME RaceInv
  PROVE  /\ Len(sessions) + 1 \in Nat \ {0}
         /\ \A s \in Ids : Family(s) # Len(sessions) + 1
         /\ Len(sessions) + 1 \notin reused
<1>1. Len(sessions) \in Nat /\ \A s \in Ids : sessions[s].family \in 1 .. s
  BY RowFacts DEF RaceInv, FamiliesAreOld
<1>2. \A s \in Ids : sessions[s].family <= Len(sessions)
  BY <1>1 DEF Ids
<1>3. \A s \in Ids : Family(s) # Len(sessions) + 1
  BY <1>1, <1>2 DEF Family, Ids
<1> QED BY <1>1, <1>3, TypesOf DEF Family

LEMMA IssueTokenPairStep ==
  ASSUME SessionsAssumption, RaceInv, NEW a \in Slots, IssueTokenPair(a) PROVE RaceInv'
<1> DEFINE family == Len(sessions) + 1
<1>1. Create(family) /\ Goto(a, "loggedIn", Len(sessions) + 1) /\ UNCHANGED <<held, upset, reused>>
  BY DEF IssueTokenPair
<1>2. family \in Nat \ {0} /\ family \in 1 .. Len(sessions) + 1 /\ \A s \in Ids : Family(s) # family
  BY NewFamily
<1>3. \A b \in Slots : At(b, "create") => req[b].session \in Ids
  BY DEF RaceInv, Carried, Carrying, At
<1> HIDE DEF family
<1> QED BY <1>1, <1>2, <1>3, InsertStep

LEMMA RaceStep == ASSUME SessionsAssumption, RaceInv, [Next]_vars PROVE RaceInv'
<1>1. ASSUME NEW a \in Slots, SessionStep(a) PROVE RaceInv'
  BY <1>1, IssueTokenPairStep, QuietStep, ClaimStep, CreateNextStep, RevokeFamilyStep, LogoutStep DEF SessionStep
<1>2. ASSUME NEW d \in Devices, Forget(d) PROVE RaceInv'
  <2>1. UNCHANGED <<sessions, req, upset, reused>> /\ held' \in [Devices -> {NoSession} \cup Ids] /\ NoInsert
    BY <1>2, TypesOf DEF Forget, NoInsert
  <2> QED BY <2>1, StillAged, AgedKeeps, TypesOf
<1>3. ASSUME NEW s \in DOMAIN sessions, Expire(s) PROVE RaceInv'
  <2>1. UNCHANGED <<held, req, upset, reused>> /\ NoInsert /\ Aged
    BY <1>3, TypesOf, ExpireFacts DEF Expire, NoInsert
  <2> QED BY <2>1, AgedKeeps, TypesOf
<1>4. CASE UNCHANGED vars
  <2>1. UNCHANGED <<sessions, held, req, upset, reused>> /\ NoInsert
    BY <1>4, TypesOf DEF vars, NoInsert
  <2> QED BY <2>1, StillAged, AgedKeeps, TypesOf
<1> QED BY <1>1, <1>2, <1>3, <1>4 DEF Next

LEMMA InitRace == ASSUME SessionsAssumption, Init PROVE RaceInv
<1>1. sessions = <<>> /\ Len(sessions) = 0 /\ sessions \in Seq(Row) /\ Ids = {}
  BY EmptySeq DEF Init, Ids
<1>2. \A a \in Slots : req[a] = IdleReq
  BY DEF Init
<1>3. req \in [Slots -> Req]
  BY IdleFacts DEF Init
<1>4. \A a \in Slots : req[a].pc = "idle"
  BY <1>2, IdleFacts
<1>5. TypeOK
  BY <1>1, <1>3 DEF Init, TypeOK, SessionsAssumption, Row, Req
<1> QED BY <1>1, <1>4, <1>5 DEF RaceInv, FamiliesAreOld, Carried, Carrying, AloneInFamily, At, OneLiveSession

THEOREM Races == ASSUME SessionsAssumption PROVE Spec => []RaceInv
<1>1. Init => RaceInv
  BY InitRace
<1>2. RaceInv /\ [Next]_vars => RaceInv'
  BY RaceStep
<1> QED BY <1>1, <1>2, PTL DEF Spec

(***************************************************************************)
(* Devices that wait for each answer                                       *)
(***************************************************************************)

\* The tokens a device and its request in flight have.
Knows(a) == {held[a[1]], req[a].session} \ {NoSession}

Apart ==
    \A a, b \in Slots : a # b => \A s \in Knows(a), t \in Knows(b) : Family(s) # Family(t)

\* What a device that waits for each answer can rely on.
SlotInv(a) ==
    /\ req[a].pc \in {"claim", "loggedIn", "rotated"} => ~sessions[req[a].session].revoked
    /\ req[a].pc = "create" => Family(req[a].session) \notin reused
    /\ req[a].pc = "reuse" => a[1] \in upset
    /\ req[a].pc = "loggedOut" => req[a].session = NoSession
    /\ req[a].pc = "idle" /\ held[a[1]] # NoSession /\ a[1] \notin upset => ~sessions[held[a[1]]].revoked

SoloInv ==
    /\ Apart
    /\ \A a \in Slots : SlotInv(a)
    /\ ReuseEndsFamily

\* A step of one device: what it revokes, and the families it ends, are ones
\* it knows a session of; what it learns is of these, or new.
Frame(a) ==
    /\ \A b \in Slots \ {a} : /\ req'[b] = req[b] /\ held'[b[1]] = held[b[1]]
                              /\ b[1] \in upset' <=> b[1] \in upset
    /\ Ids \subseteq Ids' /\ \A s \in Ids : sessions'[s].family = sessions[s].family
    /\ \A s \in Ids : sessions'[s].revoked /\ ~sessions[s].revoked =>
                         \E t \in Knows(a) : Family(t) = Family(s)
    /\ \A f \in reused' : f \in reused \/ \E t \in Knows(a) : Family(t) = f
    /\ \A s \in Knows(a)' : \/ sessions'[s].family = Len(sessions) + 1
                            \/ \E t \in Knows(a) : Family(t) = sessions'[s].family

LEMMA KnowsFacts ==
  ASSUME RaceInv, NEW a \in Slots
  PROVE  Knows(a) \subseteq Ids /\ \A s \in Knows(a) : Family(s) # Len(sessions) + 1
<1>1. held[a[1]] \in {NoSession} \cup Ids /\ req[a].session \in {NoSession} \cup Ids
  BY TypesOf, SlotFacts DEF Req
<1>2. Knows(a) \subseteq Ids
  BY <1>1 DEF Knows
<1> QED BY <1>2, NewFamily

\* The other devices' families are not touched.
LEMMA OthersKept ==
  ASSUME RaceInv, SoloInv, NEW a \in Slots, Frame(a), NEW b \in Slots, b # a
  PROVE  SlotInv(b)' /\ Knows(b)' = Knows(b) /\ \A s \in Knows(b) : sessions'[s].family = Family(s)
<1>1. /\ req'[b] = req[b] /\ held'[b[1]] = held[b[1]] /\ (b[1] \in upset' <=> b[1] \in upset)
  BY DEF Frame
<1>2. Knows(b)' = Knows(b)
  BY <1>1 DEF Knows
<1>3. Knows(b) \subseteq Ids /\ \A s \in Knows(b), t \in Knows(a) : Family(t) # Family(s)
  BY KnowsFacts DEF SoloInv, Apart
<1>4. \A s \in Knows(b) : /\ sessions'[s].family = Family(s)
                          /\ sessions'[s].revoked => sessions[s].revoked
                          /\ Family(s) \in reused' => Family(s) \in reused
  BY <1>3 DEF Frame, Family
<1>5. req[b].pc \in Carrying => req[b].session \in Knows(b)
  <2>1. req[b].pc \in Carrying => req[b].session \in Ids
    BY DEF RaceInv, Carried
  <2> QED BY <2>1, RowFacts DEF Knows, NoSession, Ids
<1>6. held[b[1]] # NoSession => held[b[1]] \in Knows(b)
  BY DEF Knows
<1>7. SlotInv(b)
  BY DEF SoloInv
<1>8. SlotInv(b)'
  BY <1>1, <1>4, <1>5, <1>6, <1>7 DEF SlotInv, Carrying, Family
<1> QED BY <1>2, <1>4, <1>8

LEMMA FrameKeeps ==
  ASSUME RaceInv, SoloInv, NEW a \in Slots, Frame(a), SlotInv(a)', ReuseEndsFamily'
  PROVE  SoloInv'
<1>1. \A b \in Slots : b # a => /\ SlotInv(b)' /\ Knows(b)' = Knows(b)
                                /\ \A s \in Knows(b) : sessions'[s].family = Family(s)
  BY OthersKept
<1>2. \A b \in Slots : \A s \in Knows(b) : Family(s) # Len(sessions) + 1
  BY KnowsFacts
<1>3. \A b \in Slots : b # a => \A s \in Knows(a)', t \in Knows(b)' : Family(s)' # Family(t)'
  <2> SUFFICES ASSUME NEW b \in Slots, b # a, NEW s \in Knows(a)', NEW t \in Knows(b)'
               PROVE  sessions'[s].family # sessions'[t].family
    BY DEF Family
  <2>1. t \in Knows(b) /\ sessions'[t].family = Family(t) /\ Family(t) # Len(sessions) + 1
    BY <1>1, <1>2
  <2>2. \A r \in Knows(a) : Family(r) # Family(t)
    BY <2>1 DEF SoloInv, Apart
  <2> QED BY <2>1, <2>2 DEF Frame
<1>4. \A b, c \in Slots : b # a /\ c # a /\ b # c =>
         \A s \in Knows(b)', t \in Knows(c)' : Family(s)' # Family(t)'
  <2> SUFFICES ASSUME NEW b \in Slots, NEW c \in Slots, b # a, c # a, b # c, NEW s \in Knows(b)', NEW t \in Knows(c)'
               PROVE  sessions'[s].family # sessions'[t].family
    BY DEF Family
  <2>1. s \in Knows(b) /\ t \in Knows(c) /\ sessions'[s].family = Family(s) /\ sessions'[t].family = Family(t)
    BY <1>1
  <2> QED BY <2>1 DEF SoloInv, Apart
<1>5. Apart'
  BY <1>3, <1>4 DEF Apart
<1>6. \A b \in Slots : SlotInv(b)'
  BY <1>1
<1> QED BY <1>5, <1>6 DEF SoloInv

LEMMA SoloSlots ==
  ASSUME Parallel = 1, NEW a \in Slots
  PROVE  a[1] \in Devices /\ a = <<a[1], 1>> /\ \A b \in Slots : b # a => b[1] # a[1]
BY DEF Slots

\* What a step of one device leaves of the others.
Mine(a) == \A b \in Slots \ {a} : /\ req'[b] = req[b] /\ held'[b[1]] = held[b[1]]
                                  /\ b[1] \in upset' <=> b[1] \in upset

LEMMA MineFacts ==
  ASSUME Parallel = 1, RaceInv, NEW a \in Slots, NEW x, req' = [req EXCEPT ![a] = x],
         held' = held \/ \E s : held' = [held EXCEPT ![a[1]] = s],
         upset' = upset \/ upset' = upset \cup {a[1]} \/ upset' = upset \ {a[1]}
  PROVE  Mine(a) /\ req'[a] = x
<1>1. held \in [Devices -> {NoSession} \cup Ids] /\ req \in [Slots -> Req]
  BY TypesOf
<1>2. \A b \in Slots : b # a => b[1] # a[1] /\ b[1] \in Devices
  BY SoloSlots
<1> QED BY <1>1, <1>2 DEF Mine

\* A step of one device that leaves the rows.
LEMMA QuietFrame ==
  ASSUME RaceInv, NEW a \in Slots, Mine(a), UNCHANGED <<sessions, reused>>, Knows(a)' \subseteq Knows(a)
  PROVE  Frame(a)
<1>1. \A s \in Knows(a) : s \in Ids
  BY KnowsFacts
<1> QED BY <1>1, StillAged DEF Frame, Mine, Family

LEMMA SoloQuiet ==
  ASSUME Parallel = 1, RaceInv, SoloInv, NEW a \in Slots,
         RotateRefreshToken(a) \/ Logout(a) \/ Answer(a) \/ LoseAnswer(a) \/ Abort(a)
  PROVE  SoloInv'
<1>1. UNCHANGED <<sessions, reused>> /\ SlotInv(a) /\ a[1] \in Devices
  BY SoloSlots DEF RotateRefreshToken, Logout, Answer, LoseAnswer, Abort, SoloInv
<1>2. ReuseEndsFamily'
  BY <1>1 DEF SoloInv, ReuseEndsFamily, Family, Ids
<1>3. held \in [Devices -> {NoSession} \cup Ids] /\ req \in [Slots -> Req]
  BY TypesOf
<1>4. CASE RotateRefreshToken(a) \/ Logout(a)
  <2> DEFINE s == held[a[1]]
  <2>1. /\ UNCHANGED <<held, upset>> /\ At(a, "idle") /\ s # NoSession
        /\ \/ sessions[s].revoked /\ Goto(a, "reuse", s)
           \/ ~sessions[s].revoked /\ Goto(a, "claim", s)
           \/ Goto(a, "revoke", s)
    BY <1>4 DEF RotateRefreshToken, Logout
  <2>2. PICK pc \in {"reuse", "claim", "revoke"} :
           /\ Goto(a, pc, s) /\ (pc = "reuse" => sessions[s].revoked) /\ (pc = "claim" => ~sessions[s].revoked)
    BY <2>1
  <2>3. Mine(a) /\ req'[a] = [pc |-> pc, session |-> s]
    BY <2>1, <2>2, MineFacts DEF Goto
  <2>4. req'[a].pc = pc /\ req'[a].session = s
    BY <2>3
  <2>5. Knows(a)' \subseteq Knows(a)
    BY <2>1, <2>4 DEF Knows
  <2>6. SlotInv(a)'
    BY <1>1, <2>1, <2>2, <2>4 DEF SlotInv, At
  <2> QED BY <1>1, <1>2, <2>3, <2>5, <2>6, QuietFrame, FrameKeeps
<1>5. CASE Answer(a)
  <2> DEFINE s == req[a].session
  <2>1. /\ req[a].pc \in {"loggedIn", "rotated", "loggedOut"} /\ held' = [held EXCEPT ![a[1]] = s] /\ Done(a)
        /\ upset' = upset \/ upset' = upset \ {a[1]}
    BY <1>5 DEF Answer
  <2>2. Mine(a) /\ req'[a] = IdleReq
    BY <2>1, MineFacts DEF Done
  <2>3. held'[a[1]] = s /\ req'[a].pc = "idle" /\ req'[a].session = NoSession
    BY <1>1, <1>3, <2>1, <2>2, IdleFacts
  <2>4. Knows(a)' \subseteq Knows(a)
    BY <2>3 DEF Knows
  <2>5. s # NoSession => ~sessions[s].revoked
    BY <1>1, <2>1 DEF SlotInv
  <2>6. SlotInv(a)'
    BY <1>1, <2>3, <2>5 DEF SlotInv
  <2> QED BY <1>1, <1>2, <2>2, <2>4, <2>6, QuietFrame, FrameKeeps
<1>6. CASE LoseAnswer(a) \/ Abort(a)
  <2>1. UNCHANGED held /\ Done(a) /\ upset' = upset \cup {a[1]}
    BY <1>6 DEF LoseAnswer, Abort
  <2>2. Mine(a) /\ req'[a] = IdleReq
    BY <2>1, MineFacts DEF Done
  <2>3. req'[a].pc = "idle" /\ req'[a].session = NoSession
    BY <2>2, IdleFacts
  <2>4. Knows(a)' \subseteq Knows(a)
    BY <2>1, <2>3 DEF Knows
  <2>5. SlotInv(a)'
    BY <2>1, <2>3 DEF SlotInv
  <2> QED BY <1>1, <1>2, <2>2, <2>4, <2>5, QuietFrame, FrameKeeps
<1> QED BY <1>4, <1>5, <1>6

\* What a device revokes is a session it knows, or the family of one.
LEMMA RevokeFrame ==
  ASSUME RaceInv, NEW a \in Slots, Mine(a), NEW ids, RevokeAll(ids),
         \A s \in ids \cap Ids : \E t \in Knows(a) : Family(t) = Family(s),
         \A f \in reused' : f \in reused \/ \E t \in Knows(a) : Family(t) = f, Knows(a)' \subseteq Knows(a)
  PROVE  Frame(a)
<1>1. /\ Aged /\ Ids' = Ids
      /\ \A s \in Ids : sessions'[s].revoked = (sessions[s].revoked \/ s \in ids)
  BY RevokeFacts
<1>2. \A s \in Ids : sessions'[s].family = sessions[s].family
  BY <1>1 DEF Aged
<1>3. \A s \in Knows(a) : s \in Ids
  BY KnowsFacts
<1>4. \A s \in Knows(a)' : \E t \in Knows(a) : Family(t) = sessions'[s].family
  BY <1>2, <1>3 DEF Family
<1>5. \A s \in Ids : sessions'[s].revoked /\ ~sessions[s].revoked => s \in ids \cap Ids
  BY <1>1
<1> QED BY <1>1, <1>2, <1>4, <1>5 DEF Frame, Mine

LEMMA SoloRevokes ==
  ASSUME Parallel = 1, RaceInv, SoloInv, NEW a \in Slots, req[a].session \in Ids, NEW ids, RevokeAll(ids),
         \A t \in ids \cap Ids : Family(t) = Family(req[a].session),
         NEW x, req' = [req EXCEPT ![a] = x], x.session = NoSession, UNCHANGED <<held, upset>>,
         \/ reused' = reused /\ x.pc = "loggedOut"
         \/ /\ reused' = reused \cup {Family(req[a].session)} /\ x.pc = "idle" /\ a[1] \in upset
            /\ FamilyMembers(req[a].session) \subseteq ids
  PROVE  SoloInv'
<1> DEFINE s == req[a].session
<1>1. s \in Ids /\ s \in Knows(a)
  BY RowFacts DEF Knows, Ids, NoSession
<1>2. Mine(a) /\ req'[a] = x
  BY MineFacts
<1>3. Knows(a)' \subseteq Knows(a)
  BY <1>2 DEF Knows
<1>4. Frame(a)
  BY <1>1, <1>2, <1>3, RevokeFrame
<1>5. SlotInv(a)'
  BY <1>2 DEF SlotInv
<1>6. ReuseEndsFamily'
  <2>1. /\ Aged /\ Ids' = Ids
        /\ \A t \in Ids : sessions'[t].revoked = (sessions[t].revoked \/ t \in ids)
    BY RevokeFacts
  <2>2. \A t \in Ids : sessions'[t].family = sessions[t].family
    BY <2>1 DEF Aged
  <2>3. \A t \in Ids : Family(t) \in reused => sessions[t].revoked
    BY DEF SoloInv, ReuseEndsFamily
  <2>4. FamilyMembers(s) = {t \in Ids : Family(t) = Family(s)}
    BY RowFacts DEF FamilyMembers
  <2> QED BY <2>1, <2>2, <2>3, <2>4 DEF ReuseEndsFamily, Family
<1> QED BY <1>4, <1>5, <1>6, FrameKeeps

LEMMA SoloRevoke ==
  ASSUME Parallel = 1, RaceInv, SoloInv, NEW a \in Slots, RevokeFamily(a) \/ Revoke(a)
  PROVE  SoloInv'
<1>1. req[a].session \in Ids /\ SlotInv(a)
  BY DEF RevokeFamily, Revoke, RaceInv, Carried, Carrying, At, SoloInv
<1>2. CASE RevokeFamily(a)
  <2>1. /\ At(a, "reuse") /\ RevokeAll(FamilyMembers(req[a].session)) /\ req' = [req EXCEPT ![a] = IdleReq]
        /\ reused' = reused \cup {Family(req[a].session)} /\ UNCHANGED <<held, upset>>
    BY <1>2 DEF RevokeFamily, Done
  <2>2. a[1] \in upset
    BY <1>1, <2>1 DEF SlotInv, At
  <2>3. \A t \in FamilyMembers(req[a].session) \cap Ids : Family(t) = Family(req[a].session)
    BY DEF FamilyMembers
  <2> QED BY <1>1, <2>1, <2>2, <2>3, IdleFacts, SoloRevokes
<1>3. CASE Revoke(a)
  <2> DEFINE x == [pc |-> "loggedOut", session |-> NoSession]
  <2>1. RevokeAll({req[a].session}) /\ req' = [req EXCEPT ![a] = x] /\ UNCHANGED <<held, upset, reused>>
    BY <1>3 DEF Revoke, Goto
  <2>2. x.pc = "loggedOut" /\ x.session = NoSession
    OBVIOUS
  <2> HIDE DEF x
  <2> QED BY <1>1, <2>1, <2>2, SoloRevokes
<1> QED BY <1>2, <1>3

\* A claim is lost only to another request with the same token, of which a
\* device that waits has none.
LEMMA SoloClaim ==
  ASSUME Parallel = 1, RaceInv, SoloInv, NEW a \in Slots, Claim(a) PROVE SoloInv'
<1> DEFINE s == req[a].session
           x == [pc |-> "create", session |-> s]
<1>1. At(a, "claim") /\ s \in Ids /\ s \in Knows(a) /\ SlotInv(a)
  BY RowFacts DEF Claim, RaceInv, Carried, Carrying, At, Knows, Ids, NoSession, SoloInv
<1>2. ~sessions[s].revoked
  BY <1>1 DEF SlotInv, At
<1>3. RevokeAll({s}) /\ req' = [req EXCEPT ![a] = x] /\ UNCHANGED <<held, upset, reused>>
  BY <1>2 DEF Claim, Goto
<1>4. Mine(a) /\ req'[a] = x
  BY <1>3, MineFacts
<1>5. req'[a].pc = "create" /\ req'[a].session = s
  BY <1>4
<1>6. Family(s) \notin reused
  BY <1>1, <1>2 DEF SoloInv, ReuseEndsFamily
<1> HIDE DEF x
<1>7. /\ Aged /\ Ids' = Ids
      /\ \A t \in Ids : sessions'[t].revoked = (sessions[t].revoked \/ t \in {s})
  BY <1>3, RevokeFacts
<1>8. \A t \in Ids : sessions'[t].family = sessions[t].family
  BY <1>7 DEF Aged
<1>9. Knows(a)' \subseteq Knows(a)
  BY <1>3, <1>5 DEF Knows
<1>10. Frame(a)
  BY <1>1, <1>3, <1>4, <1>9, RevokeFrame
<1>11. SlotInv(a)'
  BY <1>1, <1>3, <1>5, <1>6, <1>8 DEF SlotInv, Family
<1>12. ReuseEndsFamily'
  BY <1>3, <1>7, <1>8 DEF SoloInv, ReuseEndsFamily, Family
<1> QED BY <1>10, <1>11, <1>12, FrameKeeps

\* The new session is of the family of the one claimed, or the first of a new
\* one, and that family was not ended.
LEMMA SoloInsert ==
  ASSUME Parallel = 1, SessionsAssumption, RaceInv, SoloInv, NEW a \in Slots, NEW family \in Nat \ {0},
         Create(family), NEW pc \in {"loggedIn", "rotated"}, Goto(a, pc, Len(sessions) + 1),
         UNCHANGED <<held, upset, reused>>, family \notin reused,
         family = Len(sessions) + 1 \/ \E t \in Knows(a) : Family(t) = family
  PROVE  SoloInv'
<1> DEFINE n == Len(sessions) + 1
           x == [pc |-> pc, session |-> n]
<1>1. /\ Ids' = Ids \cup {n} /\ n \notin Ids
      /\ \A s \in Ids : sessions'[s] = sessions[s]
      /\ sessions'[n] = NewSession(family)
  BY CreateFacts
<1>2. sessions'[n].family = family /\ ~sessions'[n].revoked
  BY <1>1 DEF NewSession
<1>3. Mine(a) /\ req'[a] = x
  BY MineFacts DEF Goto
<1>4. req'[a].pc = pc /\ req'[a].session = n
  BY <1>3
<1> HIDE DEF x, n
<1>5. \A s \in Knows(a)' : s = n \/ s \in Knows(a)
  BY <1>4 DEF Knows
<1>6. \A s \in Knows(a)' : \/ sessions'[s].family = n
                          \/ \E t \in Knows(a) : Family(t) = sessions'[s].family
  <2>1. ASSUME NEW s \in Knows(a) PROVE sessions'[s].family = Family(s)
    BY <1>1, KnowsFacts DEF Family
  <2>2. sessions'[n].family = n \/ \E t \in Knows(a) : Family(t) = sessions'[n].family
    BY <1>2 DEF n
  <2> QED BY <1>5, <2>1, <2>2
<1>7. Frame(a)
  BY <1>1, <1>3, <1>6 DEF Frame, Mine, n
<1>8. SlotInv(a)'
  BY <1>2, <1>4 DEF SlotInv
<1>9. ReuseEndsFamily'
  BY <1>1, <1>2 DEF SoloInv, ReuseEndsFamily, Family
<1> QED BY <1>7, <1>8, <1>9, FrameKeeps

LEMMA SoloCreateNext ==
  ASSUME Parallel = 1, SessionsAssumption, RaceInv, SoloInv, NEW a \in Slots, CreateNext(a) PROVE SoloInv'
<1> DEFINE s == req[a].session
<1>1. /\ At(a, "create") /\ Create(Family(s)) /\ Goto(a, "rotated", Len(sessions) + 1)
      /\ UNCHANGED <<held, upset, reused>>
  BY DEF CreateNext
<1>2. s \in Ids /\ s \in Knows(a) /\ SlotInv(a)
  BY <1>1, RowFacts DEF RaceInv, Carried, Carrying, At, Knows, Ids, NoSession, SoloInv
<1>3. Family(s) \in Nat \ {0} /\ Family(s) \notin reused
  BY <1>1, <1>2, RowFacts DEF SlotInv, At, Family, Row
<1> HIDE DEF s
<1> QED BY <1>1, <1>2, <1>3, SoloInsert

LEMMA SoloIssue ==
  ASSUME Parallel = 1, SessionsAssumption, RaceInv, SoloInv, NEW a \in Slots, IssueTokenPair(a) PROVE SoloInv'
<1>1. Create(Len(sessions) + 1) /\ Goto(a, "loggedIn", Len(sessions) + 1) /\ UNCHANGED <<held, upset, reused>>
  BY DEF IssueTokenPair
<1> QED BY <1>1, NewFamily, SoloInsert

LEMMA SoloStep ==
  ASSUME Parallel = 1, SessionsAssumption, RaceInv, SoloInv, [Next]_vars PROVE SoloInv'
<1>1. ASSUME NEW a \in Slots, SessionStep(a) PROVE SoloInv'
  BY <1>1, SoloIssue, SoloQuiet, SoloClaim, SoloCreateNext, SoloRevoke DEF SessionStep
<1>2. ASSUME NEW d \in Devices, Forget(d) PROVE SoloInv'
  <2> DEFINE a == <<d, 1>>
  <2>1. a \in Slots /\ a[1] = d /\ held \in [Devices -> {NoSession} \cup Ids]
    BY TypesOf DEF Slots
  <2>2. UNCHANGED <<sessions, req, upset, reused>> /\ held' = [held EXCEPT ![d] = NoSession] /\ At(a, "idle")
    BY <1>2 DEF Forget
  <2> HIDE DEF a
  <2>3. Mine(a)
    BY <2>1, <2>2, SoloSlots DEF Mine
  <2>4. held'[a[1]] = NoSession
    BY <2>1, <2>2
  <2>5. Knows(a)' \subseteq Knows(a) /\ SlotInv(a)'
    BY <2>2, <2>4 DEF Knows, SlotInv, At
  <2>6. ReuseEndsFamily'
    BY <2>2 DEF SoloInv, ReuseEndsFamily, Family, Ids
  <2> QED BY <2>1, <2>2, <2>3, <2>5, <2>6, QuietFrame, FrameKeeps
<1>3. ASSUME Aged, \A t \in Ids : sessions'[t].revoked = sessions[t].revoked, Ids' = Ids,
             UNCHANGED <<held, req, upset, reused>>
      PROVE  SoloInv'
  <2>1. \A t \in Ids : sessions'[t].family = sessions[t].family
    BY <1>3 DEF Aged
  <2>2. ReuseEndsFamily'
    BY <1>3, <2>1 DEF SoloInv, ReuseEndsFamily, Family
  <2>3. \A a \in Slots : /\ req[a].pc \in Carrying => req[a].session \in Ids
                         /\ a[1] \in Devices /\ held[a[1]] \in {NoSession} \cup Ids
    BY TypesOf, SlotFacts DEF RaceInv, Carried
  <2>4. \A a \in Slots : SlotInv(a)'
    BY <1>3, <2>1, <2>3 DEF SoloInv, SlotInv, Carrying, Family
  <2>5. \A a \in Slots : Knows(a)' = Knows(a) /\ Knows(a) \subseteq Ids
    BY <1>3, KnowsFacts DEF Knows
  <2>6. Apart'
    BY <2>1, <2>5 DEF SoloInv, Apart, Family
  <2> QED BY <2>2, <2>4, <2>6 DEF SoloInv
<1>4. ASSUME NEW s \in DOMAIN sessions, Expire(s) PROVE SoloInv'
  BY <1>3, <1>4, ExpireFacts DEF Expire
<1>5. CASE UNCHANGED vars
  <2>1. UNCHANGED <<sessions, held, req, upset, reused>>
    BY <1>5 DEF vars
  <2> QED BY <1>3, <2>1, StillAged
<1> QED BY <1>1, <1>2, <1>4, <1>5 DEF Next

LEMMA InitSolo == ASSUME Init PROVE SoloInv
<1>1. \A a \in Slots : req[a] = IdleReq /\ a[1] \in Devices
  BY SlotFacts DEF Init
<1>2. \A a \in Slots : req[a].pc = "idle" /\ req[a].session = NoSession /\ held[a[1]] = NoSession
  BY <1>1, IdleFacts DEF Init
<1>3. \A a \in Slots : Knows(a) = {}
  BY <1>2 DEF Knows
<1>4. \A a \in Slots : SlotInv(a)
  BY <1>2 DEF SlotInv
<1> QED BY <1>3, <1>4 DEF Init, SoloInv, Apart, ReuseEndsFamily

THEOREM Solo == ASSUME SessionsAssumption, Parallel = 1 PROVE Spec => []SoloInv
<1>1. Init => SoloInv
  BY InitSolo
<1>2. RaceInv /\ SoloInv /\ [Next]_vars => SoloInv'
  BY SoloStep
<1> QED BY <1>1, <1>2, Races, PTL DEF Spec

(***************************************************************************)
(* What sign-in promises                                                   *)
(***************************************************************************)

LEMMA SoloSignedIn == ASSUME RaceInv, SoloInv, Parallel = 1 PROVE ClientStaysSignedIn
<1> SUFFICES ASSUME NEW d \in Devices, \A i \in 1 .. Parallel : At(<<d, i>>, "idle"), held[d] # NoSession,
                    d \notin upset
             PROVE  ~sessions[held[d]].revoked
  BY DEF ClientStaysSignedIn
<1>1. <<d, 1>> \in Slots /\ At(<<d, 1>>, "idle") /\ <<d, 1>>[1] = d
  BY DEF Slots
<1> QED BY <1>1 DEF SoloInv, SlotInv, At

\* "Two concurrent refreshes with the same token can never both succeed"
\* (claim in refresh-session.repository.ts): with any number of requests at
\* once, dying anywhere, a family never has two sessions that are good.
THEOREM OneLive == ASSUME SessionsAssumption PROVE Spec => []OneLiveSession
<1>1. RaceInv => OneLiveSession
  BY DEF RaceInv
<1> QED BY <1>1, Races, PTL

\* All that sign-in promises (AuthService): besides, devices that wait for
\* their answers lose the whole family of a token used twice, and one that
\* missed no answer keeps a token that is good.
THEOREM Hold == ASSUME SessionsAssumption PROVE Spec => []SessionsHold
<1>1. CASE Parallel = 1
  <2>1. RaceInv /\ SoloInv => SessionsHold
    BY <1>1, SoloSignedIn DEF RaceInv, SoloInv, SessionsHold
  <2> QED BY <1>1, <2>1, Races, Solo, PTL
<1>2. CASE Parallel # 1
  <2>1. RaceInv => SessionsHold
    BY <1>2 DEF RaceInv, SessionsHold
  <2> QED BY <2>1, Races, PTL
<1> QED BY <1>1, <1>2
=============================================================================
