------------------------------ MODULE AppProofs ------------------------------
(***************************************************************************)
(* The safety properties of chat, notifications, addresses, places,        *)
(* service areas, promo codes and the provider panel, for any number of    *)
(* accounts, rows and requests.  Each component has an inductive invariant *)
(* of its own (ChatInv, NoticeInv, AddressInv, PlaceInv, AreaInv,          *)
(* PromoInv, PanelInv): types, then what a request read that still holds   *)
(* when it writes.  Service areas and promo codes are edited by one        *)
(* request at a time (OneEditOfAreas, OneAdmin).                           *)
(***************************************************************************)
EXTENDS App, Integers, FiniteSets, FiniteSetTheorems, SequenceTheorems, TLAPS

(***************************************************************************)
(* Chat                                                                    *)
(***************************************************************************)

ChatRow == [thread : People \X People, sender : People, read : BOOLEAN]
Shown == [id : Nat, isOutgoing : BOOLEAN]
ChatReq == [pc : {"idle", "ensure", "refused", "create", "emit", "open", "list", "mark", "answer"},
            user : People \cup {C!Nobody}, contact : People \cup {C!Nobody},
            thread : (People \X People) \cup {C!NoThread}, ids : SUBSET Nat]

Sorted(t) == t \in People \X People /\ t[1] < t[2]

\* What a request is about: the thread of its two accounts, in the table unless
\* its row is still to be made; the messages it listed, marked or is to emit; and
\* once it has listed them, what it is about to mark is listed or came beside it.
ChatKnows(r, rows) ==
    /\ r.pc # "idle" => /\ r.user \in People /\ r.contact \in People /\ r.user # r.contact
                        /\ r.thread = C!sortedPair(r.user, r.contact)
    /\ r.pc \notin {"idle", "ensure", "refused"} => r.thread \in rows
    /\ r.pc \in {"emit", "list", "mark", "answer"} => \A i \in r.ids : i \in C!Ids /\ messages[i].thread = r.thread
    /\ r.pc = "emit" => \A i \in r.ids : messages[i].sender = r.user
    /\ r.pc = "mark" => \A i \in C!Ids : messages[i].thread = r.thread /\ messages[i].sender # r.user
                                         => i \in r.ids \cup beside

\* An opening request will show message i to its recipient.
Shows(r, i) ==
    r.user = C!Recipient(i) /\ r.pc \in {"list", "answer"} /\ i \in r.ids

\* A message marked read was shown to its recipient, is about to be, came
\* beside the request that marked it, or that request was never answered.
Covered(i) ==
    \/ ~messages[i].read
    \/ i \in beside
    \/ i \in lost
    \/ i \in C!OnScreen(C!Recipient(i))
    \/ \E a \in ChatSlots : Shows(chatReq[a], i)

ChatTables ==
    /\ \A t \in threads : Sorted(t)
    /\ messages \in Seq(ChatRow)
    /\ \A i \in C!Ids : messages[i].thread \in threads /\ C!isParticipant(messages[i].thread, messages[i].sender)
    /\ beside \subseteq C!Ids /\ lost \subseteq C!Ids

ScreenTable ==
    /\ screen \in [People -> SUBSET Shown]
    /\ \A u \in People : \A shown \in screen[u] : shown.id \in C!Ids
    /\ C!ScreenIsTheReaders

ChatInv ==
    /\ ChatTables
    /\ ScreenTable
    /\ chatReq \in [ChatSlots -> ChatReq]
    /\ \A a \in ChatSlots : ChatKnows(chatReq[a], threads)
    /\ \A i \in C!Ids : Covered(i)

LEMMA ChatIdle == C!IdleRequest \in ChatReq /\ C!IdleRequest.pc = "idle"
BY DEF C!IdleRequest, ChatReq

LEMMA ChatRead ==
  ASSUME ChatInv, NEW i \in C!Ids
  PROVE  messages[i] \in ChatRow /\ i \in Nat /\ Sorted(messages[i].thread)
BY DEF ChatInv, ChatTables, C!Ids

\* The sorted pair of two accounts.
LEMMA SortedPair ==
  ASSUME C!ChatAssumption, NEW u \in People, NEW w \in People, u # w
  PROVE  /\ Sorted(C!sortedPair(u, w))
         /\ C!isParticipant(C!sortedPair(u, w), u)
         /\ \A q : C!isParticipant(C!sortedPair(u, w), q) <=> q = u \/ q = w
         /\ C!counterpartOf(C!sortedPair(u, w), u) = w
         /\ C!counterpartOf(C!sortedPair(u, w), w) = u
BY DEF C!ChatAssumption, C!sortedPair, C!isParticipant, C!counterpartOf, Sorted

\* Two accounts' thread tells who they are.
LEMMA SamePair ==
  ASSUME C!ChatAssumption, NEW u \in People, NEW w \in People, u # w,
         NEW v \in People, NEW x \in People, v # x, C!sortedPair(u, w) = C!sortedPair(v, x)
  PROVE  (v = u /\ x = w) \/ (v = w /\ x = u)
BY DEF C!ChatAssumption, C!sortedPair

\* A message's recipient is the other account of its thread.
LEMMA RecipientOf ==
  ASSUME C!ChatAssumption, ChatInv, NEW i \in C!Ids
  PROVE  /\ C!Recipient(i) \in People /\ C!Recipient(i) # messages[i].sender
         /\ C!isParticipant(messages[i].thread, C!Recipient(i))
         /\ \A q : C!isParticipant(messages[i].thread, q) <=> q = C!Recipient(i) \/ q = messages[i].sender
<1>1. Sorted(messages[i].thread) /\ C!isParticipant(messages[i].thread, messages[i].sender)
  BY ChatRead DEF ChatInv, ChatTables
<1> DEFINE t == messages[i].thread
           s == messages[i].sender
<1>2. t \in People \X People /\ t[1] \in Nat /\ t[2] \in Nat /\ t[1] < t[2] /\ s \in {t[1], t[2]}
  BY <1>1 DEF Sorted, C!ChatAssumption, C!isParticipant
<1>3. C!Recipient(i) = IF t[1] = s THEN t[2] ELSE t[1]
  BY DEF C!Recipient, C!counterpartOf
<1> HIDE DEF t, s
<1>4. /\ C!Recipient(i) \in People /\ C!Recipient(i) # s
      /\ C!Recipient(i) \in {t[1], t[2]}
      /\ \A q : q \in {t[1], t[2]} <=> q = C!Recipient(i) \/ q = s
  BY <1>2, <1>3
<1> QED BY <1>4 DEF t, s, C!isParticipant

\* A step that writes no message and shows none.
LEMMA ChatMoves ==
  ASSUME ChatInv, NEW a \in ChatSlots, NEW r \in ChatReq, ChatKnows(r, threads'),
         chatReq' = [chatReq EXCEPT ![a] = r],
         lost \subseteq lost', lost' \subseteq C!Ids,
         \A i \in C!Ids : Shows(chatReq[a], i) => Shows(r, i) \/ i \in lost',
         UNCHANGED <<messages, screen, beside>>, threads \subseteq threads', \A t \in threads' : Sorted(t)
  PROVE  ChatInv'
<1>1. C!Ids' = C!Ids /\ \A i \in C!Ids : C!Recipient(i)' = C!Recipient(i)
  BY DEF C!Ids, C!Recipient
<1>2. chatReq' \in [ChatSlots -> ChatReq] /\ chatReq'[a] = r /\ \A b \in ChatSlots \ {a} : chatReq'[b] = chatReq[b]
  BY DEF ChatInv
<1>3. \A b \in ChatSlots : ChatKnows(chatReq'[b], threads')
  BY <1>2 DEF ChatInv, ChatKnows
<1>4. \A b \in ChatSlots : ChatKnows(chatReq[b], threads)'
  BY <1>1, <1>3 DEF ChatKnows
<1>5. ASSUME NEW i \in C!Ids PROVE Covered(i)'
  <2>1. \A b \in ChatSlots : Shows(chatReq[b], i) => Shows(chatReq[b], i)' \/ i \in lost'
    BY <1>1, <1>2 DEF Shows
  <2> QED BY <1>1, <2>1 DEF ChatInv, Covered, C!OnScreen
<1>6. ChatTables'
  BY <1>1 DEF ChatInv, ChatTables
<1>7. ScreenTable'
  BY <1>1 DEF ChatInv, ScreenTable, C!ScreenIsTheReaders
<1> QED BY <1>1, <1>2, <1>4, <1>5, <1>6, <1>7 DEF ChatInv

LEMMA SendMessageStep ==
  ASSUME C!ChatAssumption, ChatInv, NEW a \in ChatSlots, NEW u \in People, NEW contact \in People,
         C!SendMessage(a, u, contact)
  PROVE  ChatInv'
<1> DEFINE t == C!sortedPair(u, contact)
           pc == IF t \in threads THEN "create" ELSE "ensure"
           r == [pc |-> pc, user |-> u, contact |-> contact, thread |-> t, ids |-> {}]
<1>1. /\ u # contact /\ chatReq[a].pc = "idle"
      /\ chatReq' = [chatReq EXCEPT ![a] = r]
      /\ UNCHANGED <<threads, messages, screen, beside, lost>>
  BY DEF C!SendMessage, C!At
<1>2. Sorted(t)
  BY <1>1, SortedPair
<1> HIDE DEF t
<1>3. r \in ChatReq /\ r.pc \in {"create", "ensure"} /\ (r.pc = "create" => t \in threads) /\ r.user = u /\ r.contact = contact
      /\ r.thread = t
  BY <1>2 DEF ChatReq, Sorted
<1> HIDE DEF r, pc
<1>4. ChatKnows(r, threads)
  BY <1>1, <1>3 DEF ChatKnows, t
<1>5. \A i \in C!Ids : ~Shows(chatReq[a], i)
  BY <1>1 DEF Shows
<1>6. lost \subseteq C!Ids /\ \A q \in threads : Sorted(q)
  BY DEF ChatInv, ChatTables
<1> QED BY <1>1, <1>3, <1>4, <1>5, <1>6, ChatMoves

LEMMA GetThreadStep ==
  ASSUME C!ChatAssumption, ChatInv, NEW a \in ChatSlots, NEW u \in People, NEW contact \in People,
         C!GetThread(a, u, contact)
  PROVE  ChatInv'
<1> DEFINE t == C!sortedPair(u, contact)
           r == [pc |-> "open", user |-> u, contact |-> contact, thread |-> t, ids |-> {}]
<1>1. /\ u # contact /\ chatReq[a].pc = "idle" /\ t \in threads
      /\ chatReq' = [chatReq EXCEPT ![a] = r]
      /\ UNCHANGED <<threads, messages, screen, beside, lost>>
  BY DEF C!GetThread, C!At
<1>2. Sorted(t)
  BY <1>1, SortedPair
<1> HIDE DEF t
<1>3. r \in ChatReq /\ r.pc = "open" /\ r.user = u /\ r.contact = contact /\ r.thread = t
  BY <1>2 DEF ChatReq, Sorted
<1> HIDE DEF r
<1>4. ChatKnows(r, threads)
  BY <1>1, <1>3 DEF ChatKnows, t
<1>5. \A i \in C!Ids : ~Shows(chatReq[a], i)
  BY <1>1 DEF Shows
<1>6. lost \subseteq C!Ids /\ \A q \in threads : Sorted(q)
  BY DEF ChatInv, ChatTables
<1> QED BY <1>1, <1>3, <1>4, <1>5, <1>6, ChatMoves

LEMMA EnsureThreadStep ==
  ASSUME C!ChatAssumption, ChatInv, NEW a \in ChatSlots, C!EnsureThread(a) PROVE ChatInv'
<1> DEFINE q == chatReq[a]
           pc == IF q.thread \in threads THEN "refused" ELSE "create"
           r == [q EXCEPT !.pc = pc]
<1>1. /\ q.pc = "ensure" /\ q \in ChatReq /\ ChatKnows(q, threads)
      /\ threads' = threads \cup {q.thread} /\ chatReq' = [chatReq EXCEPT ![a].pc = pc]
      /\ UNCHANGED <<messages, screen, beside, lost>>
  BY DEF C!EnsureThread, C!At, C!Goto, ChatInv
<1>2. chatReq' = [chatReq EXCEPT ![a] = r]
  BY <1>1, Zenon DEF ChatInv
<1>3. pc \in {"refused", "create"}
  OBVIOUS
<1> HIDE DEF pc
<1>4. r \in ChatReq /\ r.pc = pc /\ r.user = q.user /\ r.contact = q.contact /\ r.thread = q.thread
  BY <1>1, <1>3 DEF ChatReq
<1>5. q.user \in People /\ q.contact \in People /\ q.user # q.contact /\ q.thread = C!sortedPair(q.user, q.contact)
  BY <1>1 DEF ChatKnows
<1> HIDE DEF q, r
<1>6. ChatKnows(r, threads')
  BY <1>1, <1>3, <1>4, <1>5 DEF ChatKnows
<1>7. \A i \in C!Ids : ~Shows(q, i)
  BY <1>1 DEF Shows
<1>8. lost \subseteq C!Ids /\ \A t \in threads' : Sorted(t)
  BY <1>1, <1>5, SortedPair DEF ChatInv, ChatTables
<1> QED BY <1>1, <1>2, <1>4, <1>6, <1>7, <1>8, ChatMoves DEF q

LEMMA FailStep ==
  ASSUME C!ChatAssumption, ChatInv, NEW a \in ChatSlots, C!Fail(a) PROVE ChatInv'
<1> DEFINE q == chatReq[a]
<1>1. /\ chatReq' = [chatReq EXCEPT ![a] = C!IdleRequest]
      /\ q.pc # "idle" /\ ChatKnows(q, threads)
      /\ lost' = lost \cup {i \in q.ids : q.pc \in {"list", "answer"} /\ messages[i].sender # q.user}
      /\ UNCHANGED <<threads, messages, screen, beside>>
  BY DEF C!Fail, C!Done, C!At, ChatInv
<1>2. ChatKnows(C!IdleRequest, threads)
  BY ChatIdle DEF ChatKnows
<1>3. ASSUME NEW i \in C!Ids, Shows(q, i) PROVE i \in lost'
  <2>1. q.user = C!Recipient(i) /\ q.pc \in {"list", "answer"} /\ i \in q.ids
    BY <1>3 DEF Shows
  <2>2. messages[i].sender # q.user
    BY <2>1, RecipientOf
  <2> QED BY <1>1, <2>1, <2>2
<1>4. lost \subseteq C!Ids /\ \A t \in threads : Sorted(t)
  BY DEF ChatInv, ChatTables
<1>5. lost' \subseteq C!Ids
  BY <1>1, <1>4 DEF ChatKnows
<1> QED BY <1>1, <1>2, <1>3, <1>4, <1>5, ChatIdle, ChatMoves

LEMMA ListMessagesStep ==
  ASSUME C!ChatAssumption, ChatInv, NEW a \in ChatSlots, C!ListMessages(a) PROVE ChatInv'
<1> DEFINE q == chatReq[a]
           pc == IF q.pc = "open" THEN "mark" ELSE "answer"
           ids == {i \in C!Ids : messages[i].thread = q.thread}
           r == [[q EXCEPT !.pc = pc] EXCEPT !.ids = ids]
<1>1. /\ q.pc \in {"open", "list"} /\ q \in ChatReq /\ ChatKnows(q, threads)
      /\ UNCHANGED <<threads, messages, screen, beside, lost>>
  BY DEF C!ListMessages, ChatInv
<1>2. chatReq' = [chatReq EXCEPT ![a] = r]
  BY <1>1, Zenon DEF ChatInv, C!ListMessages
<1>3. pc \in {"mark", "answer"} /\ ids \in SUBSET Nat
  BY DEF C!Ids
<1>4. (\A i : i \in ids <=> i \in C!Ids /\ messages[i].thread = q.thread) /\ (q.pc = "list" => pc = "answer")
  OBVIOUS
<1> HIDE DEF pc, ids
<1>5. r \in ChatReq /\ r.pc = pc /\ r.ids = ids /\ r.user = q.user /\ r.contact = q.contact /\ r.thread = q.thread
  BY <1>1, <1>3 DEF ChatReq
<1> HIDE DEF r, q
<1>6. ChatKnows(r, threads)
  BY <1>1, <1>3, <1>4, <1>5 DEF ChatKnows
<1>7. \A i \in C!Ids : Shows(q, i) => Shows(r, i)
  <2> SUFFICES ASSUME NEW i \in C!Ids, Shows(q, i) PROVE Shows(r, i)
    OBVIOUS
  <2>1. q.pc = "list" /\ i \in q.ids /\ q.user = C!Recipient(i) /\ messages[i].thread = q.thread
    BY <1>1 DEF Shows, ChatKnows
  <2>2. i \in r.ids /\ r.user = C!Recipient(i) /\ r.pc \in {"list", "answer"}
    BY <1>3, <1>4, <1>5, <2>1
  <2> QED BY <2>2 DEF Shows
<1>8. lost \subseteq C!Ids /\ \A t \in threads : Sorted(t)
  BY DEF ChatInv, ChatTables
<1> QED BY <1>1, <1>2, <1>5, <1>6, <1>7, <1>8, ChatMoves DEF q

LEMMA CreateMessageStep ==
  ASSUME C!ChatAssumption, ChatInv, NEW a \in ChatSlots, C!CreateMessage(a) PROVE ChatInv'
<1> DEFINE q == chatReq[a]
           n == Len(messages')
           row == [thread |-> q.thread, sender |-> q.user, read |-> FALSE]
           r == [[q EXCEPT !.pc = "emit"] EXCEPT !.ids = {n}]
<1>1. /\ q.pc = "create" /\ q \in ChatReq /\ ChatKnows(q, threads)
      /\ messages' = Append(messages, row)
      /\ beside' = beside \cup {i \in {n} : \E b \in ChatSlots : C!At(b, "mark") /\ chatReq[b].user = q.contact
                                               /\ chatReq[b].contact = q.user}
      /\ UNCHANGED <<threads, screen, lost>>
  BY DEF C!CreateMessage, C!At, ChatInv
<1>2. chatReq' = [chatReq EXCEPT ![a] = r]
  BY <1>1, Zenon DEF ChatInv, C!CreateMessage
<1>3. /\ q.user \in People /\ q.contact \in People /\ q.user # q.contact
      /\ q.thread = C!sortedPair(q.user, q.contact) /\ q.thread \in threads
  BY <1>1 DEF ChatKnows
<1>4. Sorted(q.thread) /\ C!isParticipant(q.thread, q.user)
  BY <1>3, SortedPair
<1>5. row \in ChatRow /\ row.thread = q.thread /\ row.sender = q.user /\ ~row.read
  BY <1>3, <1>4 DEF ChatRow, Sorted
<1>6. /\ messages' \in Seq(ChatRow) /\ n \in Nat /\ n \in C!Ids' /\ n \notin C!Ids
      /\ C!Ids' = C!Ids \cup {n} /\ messages'[n] = row
      /\ \A i \in C!Ids : messages'[i] = messages[i]
  <2> HIDE DEF row
  <2> QED BY <1>1, <1>5 DEF ChatInv, ChatTables, C!Ids
<1> HIDE DEF n, row
<1>7. r \in ChatReq /\ r.pc = "emit" /\ r.ids = {n} /\ r.user = q.user /\ r.contact = q.contact /\ r.thread = q.thread
  BY <1>1, <1>6 DEF ChatReq
<1> HIDE DEF r
<1>8. chatReq' \in [ChatSlots -> ChatReq] /\ chatReq'[a] = r /\ \A b \in ChatSlots \ {a} : chatReq'[b] = chatReq[b]
  BY <1>2, <1>7 DEF ChatInv
<1>9. ASSUME NEW b \in ChatSlots PROVE ChatKnows(chatReq[b], threads)'
  <2>1. CASE b = a
    <3>1. chatReq'[b] = r
      BY <1>8, <2>1
    <3>2. /\ r.user \in People /\ r.contact \in People /\ r.user # r.contact
          /\ r.thread = C!sortedPair(r.user, r.contact) /\ r.thread \in threads'
      BY <1>1, <1>3, <1>7
    <3>3. \A i \in r.ids : i \in C!Ids' /\ messages'[i].thread = r.thread /\ messages'[i].sender = r.user
      BY <1>5, <1>6, <1>7
    <3> HIDE DEF q
    <3> QED BY <1>7, <3>1, <3>2, <3>3 DEF ChatKnows
  <2>2. CASE b # a
    <3> DEFINE p == chatReq[b]
    <3>1. chatReq'[b] = p /\ ChatKnows(p, threads)
      BY <1>8, <2>2 DEF ChatInv
    <3>2. p.pc = "mark" /\ q.thread = p.thread /\ q.user # p.user => n \in beside'
      <4> SUFFICES ASSUME p.pc = "mark", q.thread = p.thread, q.user # p.user PROVE n \in beside'
        OBVIOUS
      <4>1. p.user \in People /\ p.contact \in People /\ p.user # p.contact /\ p.thread = C!sortedPair(p.user, p.contact)
        BY <3>1 DEF ChatKnows
      <4> HIDE DEF p, q
      <4>2. p.user = q.contact /\ p.contact = q.user
        <5>1. C!sortedPair(q.user, q.contact) = C!sortedPair(p.user, p.contact)
          BY <1>3, <4>1
        <5>2. (p.user = q.user /\ p.contact = q.contact) \/ (p.user = q.contact /\ p.contact = q.user)
          BY <1>3, <4>1, <5>1, SamePair
        <5> QED BY <5>2
      <4> QED BY <1>1, <3>1, <4>2 DEF p, C!At
    <3>3. \A i \in C!Ids' : messages'[i].thread = p.thread /\ messages'[i].sender # p.user /\ p.pc = "mark"
                            => i \in p.ids \cup beside'
      BY <1>1, <1>5, <1>6, <3>1, <3>2 DEF ChatKnows
    <3> HIDE DEF p
    <3> QED BY <1>1, <1>6, <3>1, <3>3 DEF ChatKnows
  <2> QED BY <2>1, <2>2
<1>10. \A i \in C!Ids : C!Recipient(i)' = C!Recipient(i)
  BY <1>6 DEF C!Recipient
<1>11. ASSUME NEW i \in C!Ids' PROVE Covered(i)'
  <2>1. CASE i = n
    BY <1>5, <1>6, <2>1 DEF Covered
  <2>2. CASE i \in C!Ids
    <3>1. Covered(i)
      BY <2>2 DEF ChatInv
    <3>2. \A b \in ChatSlots : Shows(chatReq[b], i) => Shows(chatReq[b], i)'
      BY <1>1, <1>6, <1>8, <1>10, <2>2 DEF Shows
    <3>3. C!OnScreen(C!Recipient(i))' = C!OnScreen(C!Recipient(i))
      BY <1>1, <1>10, <2>2 DEF C!OnScreen
    <3> QED BY <1>1, <1>6, <2>2, <3>1, <3>2, <3>3 DEF Covered
  <2> QED BY <1>6, <2>1, <2>2
<1>12. ChatTables'
  BY <1>1, <1>3, <1>4, <1>5, <1>6 DEF ChatInv, ChatTables
<1>13. ScreenTable'
  BY <1>1, <1>6 DEF ChatInv, ScreenTable, C!ScreenIsTheReaders
<1> QED BY <1>8, <1>9, <1>11, <1>12, <1>13 DEF ChatInv

LEMMA MessageJson ==
  ASSUME NEW i \in Nat, NEW sender, NEW viewer
  PROVE  /\ C!toMessageJson(i, sender, viewer) \in Shown
         /\ C!toMessageJson(i, sender, viewer).id = i
         /\ C!toMessageJson(i, sender, viewer).isOutgoing <=> sender = viewer
<1>1. (sender = viewer) \in BOOLEAN
  OBVIOUS
<1>2. C!toMessageJson(i, sender, viewer) = [id |-> i, isOutgoing |-> sender = viewer]
  BY DEF C!toMessageJson
<1>3. C!toMessageJson(i, sender, viewer) \in Shown /\ C!toMessageJson(i, sender, viewer).id = i
  BY <1>1, <1>2 DEF Shown
<1>4. [id |-> i, isOutgoing |-> sender = viewer].isOutgoing = (sender = viewer)
  BY Zenon
<1> QED BY <1>2, <1>3, <1>4, Zenon

\* A request that ends by showing messages to accounts of their thread.
LEMMA ChatShows ==
  ASSUME ChatInv, NEW a \in ChatSlots, C!Done(a), UNCHANGED <<threads, messages, beside, lost>>,
         screen' \in [People -> SUBSET Shown],
         \A u \in People : screen[u] \subseteq screen'[u],
         \A u \in People : \A shown \in screen'[u] \ screen[u] :
            /\ shown.id \in C!Ids /\ C!isParticipant(messages[shown.id].thread, u)
            /\ shown.isOutgoing <=> messages[shown.id].sender = u,
         \A i \in C!Ids : Shows(chatReq[a], i) => \E shown \in screen'[C!Recipient(i)] : shown.id = i,
         \A i \in C!Ids : C!Recipient(i) \in People
  PROVE  ChatInv'
<1>1. C!Ids' = C!Ids /\ \A i \in C!Ids : C!Recipient(i)' = C!Recipient(i)
  BY DEF C!Ids, C!Recipient
<1>2. /\ chatReq' \in [ChatSlots -> ChatReq] /\ chatReq'[a].pc = "idle"
      /\ \A b \in ChatSlots \ {a} : chatReq'[b] = chatReq[b]
  BY ChatIdle DEF ChatInv, C!Done
<1>3. \A b \in ChatSlots : ChatKnows(chatReq'[b], threads)
  BY <1>2 DEF ChatInv, ChatKnows
<1>4. \A b \in ChatSlots : ChatKnows(chatReq[b], threads)'
  BY <1>1, <1>3 DEF ChatKnows
<1>5. ASSUME NEW i \in C!Ids PROVE Covered(i)'
  <2>1. Covered(i)
    BY DEF ChatInv
  <2>2. \A b \in ChatSlots \ {a} : Shows(chatReq[b], i) => Shows(chatReq[b], i)'
    BY <1>1, <1>2 DEF Shows
  <2>3. i \in C!OnScreen(C!Recipient(i)) => i \in C!OnScreen(C!Recipient(i))'
    BY <1>1 DEF C!OnScreen
  <2>4. Shows(chatReq[a], i) => i \in C!OnScreen(C!Recipient(i))'
    BY <1>1 DEF C!OnScreen
  <2> QED BY <2>1, <2>2, <2>3, <2>4 DEF Covered
<1>6. ChatTables'
  BY <1>1 DEF ChatInv, ChatTables
<1>7. \A u \in People : \A shown \in screen'[u] :
            /\ shown.id \in C!Ids /\ C!isParticipant(messages[shown.id].thread, u)
            /\ shown.isOutgoing <=> messages[shown.id].sender = u
  BY DEF ChatInv, ScreenTable, C!ScreenIsTheReaders
<1>8. ScreenTable'
  BY <1>1, <1>7 DEF ScreenTable, C!ScreenIsTheReaders
<1> QED BY <1>1, <1>2, <1>4, <1>5, <1>6, <1>8 DEF ChatInv

LEMMA EmitMessageStep ==
  ASSUME C!ChatAssumption, ChatInv, NEW a \in ChatSlots, NEW connected \in BOOLEAN, C!EmitMessage(a, connected)
  PROVE  ChatInv'
<1> DEFINE r == chatReq[a]
           mine == {C!toMessageJson(i, r.user, r.user) : i \in r.ids}
           theirs == {C!toMessageJson(i, r.user, r.contact) : i \in r.ids}
           one == [screen EXCEPT ![r.user] = screen[r.user] \cup mine]
<1>1. /\ r.pc = "emit" /\ r \in ChatReq /\ ChatKnows(r, threads) /\ C!Done(a)
      /\ UNCHANGED <<threads, messages, beside, lost>>
  BY DEF C!EmitMessage, C!At, ChatInv
<1>2. screen' = [one EXCEPT ![r.contact] = IF connected THEN one[r.contact] \cup theirs ELSE one[r.contact]]
  <2>1. screen' = [screen EXCEPT ![r.user] = @ \cup mine, ![r.contact] = IF connected THEN @ \cup theirs ELSE @]
    BY DEF C!EmitMessage
  <2> HIDE DEF mine, theirs, r
  <2>2. screen' = [one EXCEPT ![r.contact] = IF connected THEN screen[r.contact] \cup theirs ELSE screen[r.contact]]
    BY <2>1, Zenon
  <2>3. r.user \in People /\ r.contact \in People /\ r.user # r.contact /\ screen \in [People -> SUBSET Shown]
    BY <1>1 DEF ChatKnows, ChatInv, ScreenTable
  <2>4. one[r.contact] = screen[r.contact]
    BY <2>3
  <2> QED BY <2>2, <2>4
<1>3. /\ r.user \in People /\ r.contact \in People /\ r.user # r.contact
      /\ r.thread = C!sortedPair(r.user, r.contact)
      /\ \A i \in r.ids : i \in C!Ids /\ i \in Nat /\ messages[i].thread = r.thread /\ messages[i].sender = r.user
  BY <1>1 DEF ChatKnows, ChatReq
<1>4. C!isParticipant(r.thread, r.user) /\ C!isParticipant(r.thread, r.contact)
  BY <1>3, SortedPair
<1>5. \A shown \in mine :
         /\ shown \in Shown /\ shown.id \in C!Ids /\ C!isParticipant(messages[shown.id].thread, r.user)
         /\ shown.isOutgoing <=> messages[shown.id].sender = r.user
  BY <1>3, <1>4, MessageJson
<1>6. \A shown \in theirs :
         /\ shown \in Shown /\ shown.id \in C!Ids /\ C!isParticipant(messages[shown.id].thread, r.contact)
         /\ shown.isOutgoing <=> messages[shown.id].sender = r.contact
  BY <1>3, <1>4, MessageJson
<1> HIDE DEF r, mine, theirs
<1>7. screen \in [People -> SUBSET Shown]
  BY DEF ChatInv, ScreenTable
<1>8. /\ one \in [People -> SUBSET Shown] /\ one[r.user] = screen[r.user] \cup mine
      /\ \A u \in People \ {r.user} : one[u] = screen[u]
  BY <1>3, <1>5, <1>7
<1> HIDE DEF one
<1>9. /\ screen' \in [People -> SUBSET Shown]
      /\ \A u \in People : \/ screen'[u] = screen[u]
                           \/ u = r.user /\ screen'[u] = screen[u] \cup mine
                           \/ u = r.contact /\ screen'[u] = screen[u] \cup theirs
  BY <1>2, <1>3, <1>6, <1>8
<1>10. \A i \in C!Ids : ~Shows(chatReq[a], i)
  BY <1>1 DEF Shows, r
<1>11. \A i \in C!Ids : C!Recipient(i) \in People
  BY RecipientOf
<1>12. \A u \in People : screen[u] \subseteq screen'[u]
  BY <1>9
<1>13. \A u \in People : \A shown \in screen'[u] \ screen[u] :
            /\ shown.id \in C!Ids /\ C!isParticipant(messages[shown.id].thread, u)
            /\ shown.isOutgoing <=> messages[shown.id].sender = u
  BY <1>5, <1>6, <1>9
<1> QED BY <1>1, <1>9, <1>10, <1>11, <1>12, <1>13, ChatShows

LEMMA AnswerStep ==
  ASSUME C!ChatAssumption, ChatInv, NEW a \in ChatSlots, C!Answer(a) PROVE ChatInv'
<1> DEFINE r == chatReq[a]
           listed == C!toThreadJson(r.ids, r.user)
<1>1. /\ r.pc = "answer" /\ r \in ChatReq /\ ChatKnows(r, threads) /\ C!Done(a)
      /\ UNCHANGED <<threads, messages, beside, lost>>
      /\ screen' = [screen EXCEPT ![r.user] = screen[r.user] \cup listed]
  BY DEF C!Answer, C!At, ChatInv
<1>2. /\ r.user \in People /\ r.contact \in People /\ r.user # r.contact
      /\ r.thread = C!sortedPair(r.user, r.contact)
      /\ \A i \in r.ids : i \in C!Ids /\ i \in Nat /\ messages[i].thread = r.thread
  BY <1>1 DEF ChatKnows, ChatReq
<1>3. C!isParticipant(r.thread, r.user)
  BY <1>2, SortedPair
<1>4. \A shown \in listed :
         /\ shown \in Shown /\ shown.id \in C!Ids /\ C!isParticipant(messages[shown.id].thread, r.user)
         /\ shown.isOutgoing <=> messages[shown.id].sender = r.user
  BY <1>2, <1>3, MessageJson DEF C!toThreadJson
<1>5. \A i \in r.ids : \E shown \in listed : shown.id = i
  BY <1>2, MessageJson DEF C!toThreadJson
<1> HIDE DEF listed
<1>6. screen \in [People -> SUBSET Shown]
  BY DEF ChatInv, ScreenTable
<1>7. /\ screen' \in [People -> SUBSET Shown] /\ screen'[r.user] = screen[r.user] \cup listed
      /\ \A u \in People \ {r.user} : screen'[u] = screen[u]
  <2> HIDE DEF r
  <2> QED BY <1>1, <1>2, <1>4, <1>6
<1>8. ASSUME NEW i \in C!Ids, Shows(chatReq[a], i) PROVE \E shown \in screen'[C!Recipient(i)] : shown.id = i
  <2>1. r.user = C!Recipient(i) /\ i \in r.ids
    BY <1>1, <1>8 DEF Shows
  <2> QED BY <1>5, <1>7, <2>1
<1>9. \A i \in C!Ids : C!Recipient(i) \in People
  BY RecipientOf
<1> HIDE DEF r
<1>10. \A u \in People : screen[u] \subseteq screen'[u]
  BY <1>7
<1>11. \A u \in People : \A shown \in screen'[u] \ screen[u] :
            /\ shown.id \in C!Ids /\ C!isParticipant(messages[shown.id].thread, u)
            /\ shown.isOutgoing <=> messages[shown.id].sender = u
  BY <1>4, <1>7
<1> QED BY <1>1, <1>7, <1>8, <1>9, <1>10, <1>11, ChatShows

LEMMA MarkReadStep ==
  ASSUME C!ChatAssumption, ChatInv, NEW a \in ChatSlots, C!MarkRead(a) PROVE ChatInv'
<1> DEFINE q == chatReq[a]
           unread == C!unreadCounts(q.thread, q.user)
           marked(i) == [messages[i] EXCEPT !.read = @ \/ i \in unread]
           pc == IF q.pc = "open" THEN "list" ELSE "answer"
           ids == IF q.pc = "open" THEN unread ELSE q.ids
           r == [[q EXCEPT !.pc = pc] EXCEPT !.ids = ids]
<1>1. /\ q.pc \in {"open", "mark"} /\ q \in ChatReq /\ ChatKnows(q, threads)
      /\ messages' = [i \in C!Ids |-> marked(i)]
      /\ UNCHANGED <<threads, screen, beside, lost>>
  BY DEF C!MarkRead, ChatInv
<1>2. chatReq' = [chatReq EXCEPT ![a] = r]
  BY <1>1, Zenon DEF ChatInv, C!MarkRead, C!Marked
<1>3. (q.pc = "open" => pc = "list") /\ (q.pc = "mark" => pc = "answer") /\ pc \in {"list", "answer"}
  BY <1>1
<1>4. (q.pc = "open" => ids = unread) /\ (q.pc = "mark" => ids = q.ids) /\ ids \in SUBSET Nat
  BY <1>1 DEF ChatReq, C!unreadCounts, C!Ids
<1>5. ASSUME NEW i \in C!Ids
      PROVE  /\ marked(i) \in ChatRow /\ marked(i).thread = messages[i].thread /\ marked(i).sender = messages[i].sender
             /\ marked(i).read => messages[i].read \/ i \in unread
  <2>1. messages[i] \in ChatRow
    BY ChatRead
  <2>2. (messages[i].read \/ i \in unread) \in BOOLEAN
    OBVIOUS
  <2>3. marked(i) = [messages[i] EXCEPT !.read = messages[i].read \/ i \in unread]
    OBVIOUS
  <2> HIDE DEF unread, marked
  <2>4. marked(i) \in ChatRow /\ marked(i).thread = messages[i].thread /\ marked(i).sender = messages[i].sender
    BY <2>1, <2>2, <2>3 DEF ChatRow
  <2>5. marked(i).read = (messages[i].read \/ i \in unread)
    BY <2>1, <2>3, Zenon DEF ChatRow
  <2> QED BY <2>4, <2>5
<1>6. \A i \in unread : i \in C!Ids /\ messages[i].thread = q.thread /\ messages[i].sender # q.user
  BY DEF C!unreadCounts
<1> HIDE DEF unread, marked, pc, ids
<1>r. r \in ChatReq /\ r.pc = pc /\ r.ids = ids /\ r.user = q.user /\ r.contact = q.contact /\ r.thread = q.thread
  BY <1>1, <1>3, <1>4 DEF ChatReq
<1> HIDE DEF r, q
<1>7. Len(messages) \in Nat /\ C!Ids = 1 .. Len(messages)
  BY DEF ChatInv, ChatTables, C!Ids
<1>8. messages' \in Seq(ChatRow) /\ Len(messages') = Len(messages)
  BY <1>1, <1>5, <1>7
<1>9. /\ C!Ids' = C!Ids
      /\ \A i \in C!Ids : messages'[i] = marked(i) /\ messages'[i].thread = messages[i].thread
                          /\ messages'[i].sender = messages[i].sender
  BY <1>1, <1>5, <1>8 DEF C!Ids
<1>10. \A i \in C!Ids : C!Recipient(i)' = C!Recipient(i)
  BY <1>9 DEF C!Recipient
<1>11. chatReq' \in [ChatSlots -> ChatReq] /\ chatReq'[a] = r /\ \A b \in ChatSlots \ {a} : chatReq'[b] = chatReq[b]
  BY <1>2, <1>r DEF ChatInv
<1>12. ChatKnows(r, threads)
  BY <1>1, <1>3, <1>4, <1>6, <1>r DEF ChatKnows
<1>13. \A b \in ChatSlots : ChatKnows(chatReq'[b], threads)
  BY <1>11, <1>12 DEF ChatInv
<1>14. \A b \in ChatSlots : ChatKnows(chatReq[b], threads)'
  BY <1>1, <1>9, <1>13 DEF ChatKnows
<1>15. ASSUME NEW i \in C!Ids PROVE Covered(i)'
  <2>1. Covered(i)
    BY DEF ChatInv
  <2>2. Shows(q, i) => Shows(r, i)
    BY <1>1 DEF Shows
  <2>3. \A b \in ChatSlots : Shows(chatReq[b], i) => Shows(chatReq'[b], i)
    BY <1>11, <2>2 DEF q
  <2>4. i \in unread => i \in beside \/ Shows(r, i)
    <3> SUFFICES ASSUME i \in unread PROVE i \in beside \/ Shows(r, i)
      OBVIOUS
    <3>1. messages[i].thread = q.thread /\ messages[i].sender # q.user
      BY <1>6
    <3>2. C!isParticipant(q.thread, q.user)
      BY <1>1, SortedPair DEF ChatKnows
    <3>3. q.user = C!Recipient(i)
      BY <3>1, <3>2, RecipientOf
    <3>4. q.pc = "mark" => i \in q.ids \/ i \in beside
      BY <1>1, <3>1 DEF ChatKnows
    <3> QED BY <1>1, <1>3, <1>4, <1>r, <3>3, <3>4 DEF Shows
  <2>5. ~messages'[i].read \/ i \in beside \/ i \in lost \/ i \in C!OnScreen(C!Recipient(i)) \/ \E b \in ChatSlots : Shows(chatReq'[b], i)
    BY <1>5, <1>9, <1>11, <2>1, <2>3, <2>4 DEF Covered
  <2>6. \A b \in ChatSlots : Shows(chatReq'[b], i) => Shows(chatReq[b], i)'
    BY <1>9, <1>10 DEF Shows
  <2>7. C!OnScreen(C!Recipient(i))' = C!OnScreen(C!Recipient(i))
    BY <1>1, <1>10 DEF C!OnScreen
  <2> QED BY <1>1, <2>5, <2>6, <2>7 DEF Covered
<1>16. ChatTables'
  BY <1>1, <1>8, <1>9 DEF ChatInv, ChatTables
<1>17. ScreenTable'
  BY <1>1, <1>9 DEF ChatInv, ScreenTable, C!ScreenIsTheReaders
<1> QED BY <1>9, <1>11, <1>14, <1>15, <1>16, <1>17 DEF ChatInv

LEMMA ChatInductive ==
  ASSUME C!ChatAssumption, ChatInv, [C!Next]_(C!vars) PROVE ChatInv'
<1>1. CASE UNCHANGED C!vars
  <2>1. C!Ids' = C!Ids /\ \A i \in C!Ids : C!Recipient(i)' = C!Recipient(i)
    BY <1>1 DEF C!vars, C!Ids, C!Recipient
  <2>2. ChatTables' /\ ScreenTable'
    BY <1>1, <2>1 DEF C!vars, ChatInv, ChatTables, ScreenTable, C!ScreenIsTheReaders
  <2>3. \A b \in ChatSlots : ChatKnows(chatReq[b], threads)'
    BY <1>1, <2>1 DEF C!vars, ChatInv, ChatKnows
  <2>4. \A i \in C!Ids : Covered(i)'
    BY <1>1, <2>1 DEF C!vars, ChatInv, Covered, Shows, C!OnScreen
  <2> QED BY <1>1, <2>1, <2>2, <2>3, <2>4 DEF C!vars, ChatInv
<1>2. ASSUME NEW a \in ChatSlots, C!ChatStep(a) PROVE ChatInv'
  BY <1>2, SendMessageStep, GetThreadStep DEF C!ChatStep
<1> QED BY <1>1, <1>2, EnsureThreadStep, CreateMessageStep, FailStep, EmitMessageStep, ListMessagesStep, MarkReadStep, AnswerStep
    DEF C!Next

\* What the invariant says of threads, of the badge and of unseen messages.
LEMMA ChatSays ==
  ASSUME C!ChatAssumption, ChatInv
  PROVE  C!TypeOK /\ C!OneThreadPerPair /\ C!ScreenIsTheReaders /\ C!BadgeIsTheInbox /\ C!UnseenIsUnread
<1>1. \A i \in C!Ids : messages[i].thread \in threads /\ C!isParticipant(messages[i].thread, messages[i].sender)
  BY DEF ChatInv, ChatTables
<1>2. C!TypeOK
  <2>1. threads \subseteq People \X People
    BY DEF ChatInv, ChatTables, Sorted
  <2>2. ASSUME NEW u \in People, NEW shown \in screen[u] PROVE shown \in [id : C!Ids, isOutgoing : BOOLEAN]
    <3>1. shown \in Shown /\ shown.id \in C!Ids
      BY DEF ChatInv, ScreenTable
    <3> QED BY <3>1 DEF Shown
  <2> QED BY <1>1, <2>1, <2>2 DEF C!TypeOK, ChatInv, ChatTables
<1>3. C!OneThreadPerPair
  <2> SUFFICES ASSUME NEW s \in threads, NEW t \in threads, {s[1], s[2]} = {t[1], t[2]} PROVE s = t
    BY DEF C!OneThreadPerPair
  <2>1. /\ s \in People \X People /\ t \in People \X People /\ s[1] < s[2] /\ t[1] < t[2]
        /\ s[1] \in Nat /\ s[2] \in Nat /\ t[1] \in Nat /\ t[2] \in Nat
    BY DEF ChatInv, ChatTables, Sorted, C!ChatAssumption
  <2>2. s[1] \in {t[1], t[2]} /\ s[2] \in {t[1], t[2]}
    OBVIOUS
  <2>3. s[1] = t[1] /\ s[2] = t[2]
    BY <2>1, <2>2
  <2> QED BY <2>1, <2>3
<1>4. C!BadgeIsTheInbox
  BY <1>1 DEF C!BadgeIsTheInbox, C!unreadTotal, C!unreadCounts, C!listThreads
<1>5. C!UnseenIsUnread
  <2> SUFFICES ASSUME NEW i \in C!Ids
               PROVE  \/ i \in C!OnScreen(C!Recipient(i)) \/ i \in C!unreadTotal(C!Recipient(i)) \/ i \in beside
                      \/ i \in lost \/ C!AboutToShow(C!Recipient(i), i)
    BY DEF C!UnseenIsUnread
  <2>1. Covered(i) /\ C!Recipient(i) # messages[i].sender /\ C!isParticipant(messages[i].thread, C!Recipient(i))
    BY RecipientOf DEF ChatInv
  <2>2. ~messages[i].read => i \in C!unreadTotal(C!Recipient(i))
    BY <2>1 DEF C!unreadTotal
  <2>3. (\E a \in ChatSlots : Shows(chatReq[a], i)) => C!AboutToShow(C!Recipient(i), i)
    BY DEF Shows, C!AboutToShow
  <2> QED BY <2>1, <2>2, <2>3 DEF Covered
<1> QED BY <1>2, <1>3, <1>4, <1>5 DEF ChatInv, ScreenTable

\* Two accounts share one thread, each is shown its own conversations the right
\* way round, the badge is the inbox, and the two ways in which a message leaves
\* it unseen are the only ones, for any number of accounts, messages and
\* requests (ChatRepository, ChatGateway).
LEMMA ChatHolds == ASSUME C!ChatAssumption PROVE C!Spec => []ChatReachesItsReader
<1>1. C!Init => ChatInv
  <2> SUFFICES ASSUME C!Init PROVE ChatInv
    OBVIOUS
  <2>1. C!Ids = {} /\ messages \in Seq(ChatRow)
    BY DEF C!Init, C!Ids
  <2>2. ChatTables /\ ScreenTable
    BY <2>1 DEF C!Init, ChatTables, ScreenTable, C!ScreenIsTheReaders
  <2> QED BY <2>1, <2>2, ChatIdle DEF C!Init, ChatInv, ChatKnows
<1>2. ChatInv /\ [C!Next]_(C!vars) => ChatInv'
  BY ChatInductive
<1>3. ChatInv => ChatReachesItsReader
  BY ChatSays DEF ChatReachesItsReader
<1> QED BY <1>1, <1>2, <1>3, PTL DEF C!Spec

(***************************************************************************)
(* Notifications                                                           *)
(***************************************************************************)

NoticeRow == [user : Owners, isRead : BOOLEAN]
NoticeReq == [pc : {"idle", "find", "send", "prune"}, user : Owners \cup {None}, id : Nat, tokens : SUBSET Handsets]

\* What a request read still holds: its row is its user's, the tokens it sends
\* to were that user's since the row was written, and dead tokens stay dead.
NoticeKnows(r) ==
    /\ r.pc \in {"find", "send"} => r.id \in N!Ids /\ notices[r.id].user = r.user
    /\ r.pc = "send" => \A t \in r.tokens : <<t, r.id>> \in due
    /\ r.pc = "prune" => r.tokens \cap live = {}

\* The table of handsets: a registered one is in its user's pocket, and one in
\* use that FCM still knows is registered.
HandsetTable ==
    /\ devices \subseteq Owners \X Handsets
    /\ live \subseteq Handsets
    /\ holder \in [Handsets -> Owners \cup {None}]
    /\ \A u \in Owners, t \in Handsets : <<u, t>> \in devices => holder[t] = u
    /\ N!HandsetStaysReachable

\* Whatever a registered handset's user has waiting is due on it.
WaitingIsDue ==
    \A u \in Owners, t \in Handsets, i \in N!Ids : <<u, t>> \in devices /\ notices[i].user = u => <<t, i>> \in due

NoticeInv ==
    /\ enabled \in BOOLEAN
    /\ notices \in Seq(NoticeRow)
    /\ noticeReq \in [NoticeSlots -> NoticeReq]
    /\ asked \in [Owners -> Nat]
    /\ HandsetTable
    /\ WaitingIsDue
    /\ \A a \in NoticeSlots : NoticeKnows(noticeReq[a])
    /\ N!PushWasTheirs
    /\ N!ReadByItsUser

LEMMA NoticeIdle == N!IdleRequest \in NoticeReq /\ N!IdleRequest.pc = "idle"
BY DEF N!IdleRequest, NoticeReq

LEMMA NoticeOf ==
  ASSUME NoticeInv, NEW i \in N!Ids PROVE notices[i] \in NoticeRow /\ i \in Nat
BY DEF NoticeInv, N!Ids

\* A step that leaves the notices alone.
LEMMA NoticeMoves ==
  ASSUME NoticeInv, noticeReq' \in [NoticeSlots -> NoticeReq], \A b \in NoticeSlots : NoticeKnows(noticeReq'[b]),
         UNCHANGED <<enabled, notices, asked>>,
         HandsetTable', WaitingIsDue', due \subseteq due', live' \subseteq live, pushed' \subseteq due'
  PROVE  NoticeInv'
<1>1. N!Ids' = N!Ids
  BY DEF N!Ids
<1>2. \A b \in NoticeSlots : NoticeKnows(noticeReq[b])'
  BY <1>1 DEF NoticeKnows
<1>3. N!ReadByItsUser' /\ N!PushWasTheirs'
  BY <1>1 DEF NoticeInv, N!ReadByItsUser, N!PushWasTheirs
<1> QED BY <1>2, <1>3 DEF NoticeInv

\* With the handsets as they were, the table and what is due still agree.
LEMMA HandsetsStay ==
  ASSUME NoticeInv, UNCHANGED <<notices, devices, live, holder>>, due \subseteq due'
  PROVE  HandsetTable' /\ WaitingIsDue'
<1>1. N!Ids' = N!Ids
  BY DEF N!Ids
<1> QED BY <1>1 DEF NoticeInv, HandsetTable, WaitingIsDue, N!HandsetStaysReachable

LEMMA RegisterStep ==
  ASSUME N!NotificationsAssumption, NoticeInv, NEW u \in Owners, NEW t \in Handsets, N!Register(u, t)
  PROVE  NoticeInv'
<1>1. /\ devices' = {d \in devices : d[2] # t} \cup {<<u, t>>}
      /\ holder' = [holder EXCEPT ![t] = u]
      /\ due' = due \cup {<<t, i>> : i \in {j \in N!Ids : notices[j].user = u}}
      /\ UNCHANGED <<enabled, notices, live, noticeReq, pushed, asked>>
  BY DEF N!Register
<1>2. N!Ids' = N!Ids
  BY <1>1 DEF N!Ids
<1>3. /\ devices' \subseteq Owners \X Handsets
      /\ \A v \in Owners, s \in Handsets : <<v, s>> \in devices' <=> (v = u /\ s = t) \/ (s # t /\ <<v, s>> \in devices)
  BY <1>1 DEF NoticeInv, HandsetTable
<1>4. /\ holder' \in [Handsets -> Owners \cup {None}] /\ holder'[t] = u
      /\ \A s \in Handsets \ {t} : holder'[s] = holder[s]
  BY <1>1 DEF NoticeInv, HandsetTable
<1>5. \A s \in live' : holder'[s] # None => <<holder'[s], s>> \in devices'
  BY <1>1, <1>3, <1>4 DEF NoticeInv, HandsetTable, N!HandsetStaysReachable
<1>6. HandsetTable'
  BY <1>1, <1>3, <1>4, <1>5 DEF NoticeInv, HandsetTable, N!HandsetStaysReachable
<1>7. WaitingIsDue'
  BY <1>1, <1>2, <1>3 DEF NoticeInv, WaitingIsDue
<1>8. noticeReq' \in [NoticeSlots -> NoticeReq] /\ \A b \in NoticeSlots : NoticeKnows(noticeReq'[b])
  BY <1>1 DEF NoticeInv
<1>9. pushed' \subseteq due' /\ due \subseteq due'
  BY <1>1 DEF NoticeInv, N!PushWasTheirs
<1> QED BY <1>1, <1>6, <1>7, <1>8, <1>9, NoticeMoves

LEMMA UnregisterStep ==
  ASSUME N!NotificationsAssumption, NoticeInv, NEW u \in Owners, NEW t \in Handsets, N!Unregister(u, t)
  PROVE  NoticeInv'
<1>1. /\ devices' = devices \ {<<u, t>>} /\ holder[t] = u
      /\ holder' = [holder EXCEPT ![t] = None]
      /\ UNCHANGED <<enabled, notices, live, noticeReq, due, pushed, asked>>
  BY DEF N!Unregister
<1>2. N!Ids' = N!Ids
  BY <1>1 DEF N!Ids
<1>3. /\ devices' \subseteq Owners \X Handsets
      /\ \A v \in Owners, s \in Handsets : <<v, s>> \in devices' <=> <<v, s>> \in devices /\ ~(v = u /\ s = t)
  BY <1>1 DEF NoticeInv, HandsetTable
<1>4. /\ holder' \in [Handsets -> Owners \cup {None}] /\ holder'[t] = None
      /\ \A s \in Handsets \ {t} : holder'[s] = holder[s]
  BY <1>1 DEF NoticeInv, HandsetTable
<1>5. \A s \in live' : holder'[s] # None => <<holder'[s], s>> \in devices'
  BY <1>1, <1>3, <1>4 DEF NoticeInv, HandsetTable, N!HandsetStaysReachable
<1>6. HandsetTable'
  BY <1>1, <1>3, <1>4, <1>5 DEF NoticeInv, HandsetTable, N!HandsetStaysReachable
<1>7. WaitingIsDue'
  BY <1>1, <1>2, <1>3 DEF NoticeInv, WaitingIsDue
<1>8. noticeReq' \in [NoticeSlots -> NoticeReq] /\ \A b \in NoticeSlots : NoticeKnows(noticeReq'[b])
  BY <1>1 DEF NoticeInv
<1>9. pushed' \subseteq due' /\ due \subseteq due'
  BY <1>1 DEF NoticeInv, N!PushWasTheirs
<1> QED BY <1>1, <1>6, <1>7, <1>8, <1>9, NoticeMoves

LEMMA UninstallStep ==
  ASSUME NoticeInv, NEW t \in Handsets, N!Uninstall(t) PROVE NoticeInv'
<1>1. live' = live \ {t} /\ UNCHANGED <<enabled, notices, devices, noticeReq, holder, due, pushed, asked>>
  BY DEF N!Uninstall
<1>2. N!Ids' = N!Ids
  BY <1>1 DEF N!Ids
<1>3. HandsetTable' /\ WaitingIsDue'
  BY <1>1, <1>2 DEF NoticeInv, HandsetTable, WaitingIsDue, N!HandsetStaysReachable
<1>4. noticeReq' \in [NoticeSlots -> NoticeReq] /\ \A b \in NoticeSlots : NoticeKnows(noticeReq'[b])
  BY <1>1 DEF NoticeInv
<1>5. pushed' \subseteq due' /\ due \subseteq due'
  BY <1>1 DEF NoticeInv, N!PushWasTheirs
<1> QED BY <1>1, <1>3, <1>4, <1>5, NoticeMoves

LEMMA CreateNoticeStep ==
  ASSUME NoticeInv, NEW a \in NoticeSlots, NEW u \in Owners, N!Create(a, u) PROVE NoticeInv'
<1> DEFINE row == [user |-> u, isRead |-> FALSE]
           n == Len(notices')
           r == [pc |-> "find", user |-> u, id |-> n, tokens |-> {}]
<1>1. /\ notices' = Append(notices, row)
      /\ due' = due \cup {<<t, n>> : t \in {s \in Handsets : holder[s] = u}}
      /\ noticeReq' = [noticeReq EXCEPT ![a] = r] \/ UNCHANGED noticeReq
      /\ UNCHANGED <<enabled, devices, live, holder, pushed, asked>>
  BY DEF N!Create
<1>2. row \in NoticeRow /\ row.user = u /\ ~row.isRead
  BY DEF NoticeRow
<1>3. /\ notices' \in Seq(NoticeRow) /\ n = Len(notices) + 1 /\ n \in Nat /\ n \in N!Ids'
      /\ N!Ids' = N!Ids \cup {n} /\ notices'[n] = row
      /\ \A i \in N!Ids : notices'[i] = notices[i] /\ i \in N!Ids'
  <2> HIDE DEF row
  <2> QED BY <1>1, <1>2 DEF NoticeInv, N!Ids
<1>4. r \in NoticeReq /\ r.pc = "find" /\ r.id = n /\ r.user = u
  BY <1>3 DEF NoticeReq
<1> HIDE DEF row, n, r
<1>5. /\ noticeReq' \in [NoticeSlots -> NoticeReq]
      /\ \A b \in NoticeSlots : noticeReq'[b] = noticeReq[b] \/ noticeReq'[b] = r
  BY <1>1, <1>4 DEF NoticeInv
<1>6. ASSUME NEW b \in NoticeSlots PROVE NoticeKnows(noticeReq[b])'
  <2>1. CASE noticeReq'[b] = noticeReq[b]
    <3>1. NoticeKnows(noticeReq[b])
      BY DEF NoticeInv
    <3> QED BY <1>1, <1>3, <2>1, <3>1 DEF NoticeKnows
  <2>2. CASE noticeReq'[b] = r
    BY <1>2, <1>3, <1>4, <2>2 DEF NoticeKnows
  <2> QED BY <1>5, <2>1, <2>2
<1>7. HandsetTable'
  BY <1>1 DEF NoticeInv, HandsetTable, N!HandsetStaysReachable
<1>8. ASSUME NEW v \in Owners, NEW t \in Handsets, NEW i \in N!Ids', <<v, t>> \in devices', notices'[i].user = v
      PROVE  <<t, i>> \in due'
  <2>1. CASE i \in N!Ids
    BY <1>1, <1>3, <1>8, <2>1 DEF NoticeInv, WaitingIsDue
  <2>2. CASE i = n
    <3>1. v = u /\ holder[t] = u
      BY <1>1, <1>2, <1>3, <1>8, <2>2 DEF NoticeInv, HandsetTable
    <3> QED BY <1>1, <2>2, <3>1
  <2> QED BY <1>3, <2>1, <2>2
<1>9. N!PushWasTheirs'
  BY <1>1 DEF NoticeInv, N!PushWasTheirs
<1>10. N!ReadByItsUser'
  BY <1>1, <1>2, <1>3 DEF NoticeInv, N!ReadByItsUser
<1>11. WaitingIsDue'
  BY <1>8 DEF WaitingIsDue
<1> QED BY <1>1, <1>3, <1>5, <1>6, <1>7, <1>9, <1>10, <1>11 DEF NoticeInv

\* A request that reads or is over.
LEMMA NoticeReads ==
  ASSUME NoticeInv, NEW a \in NoticeSlots, NEW r \in NoticeReq, NoticeKnows(r),
         noticeReq' = [noticeReq EXCEPT ![a] = r],
         UNCHANGED <<enabled, notices, devices, live, holder, due, asked>>, pushed' \subseteq due
  PROVE  NoticeInv'
<1>1. HandsetTable' /\ WaitingIsDue'
  BY HandsetsStay
<1>2. noticeReq' \in [NoticeSlots -> NoticeReq] /\ \A b \in NoticeSlots : NoticeKnows(noticeReq'[b])
  BY DEF NoticeInv
<1> QED BY <1>1, <1>2, NoticeMoves

LEMMA NoticeDone ==
  ASSUME NoticeInv, NEW a \in NoticeSlots, N!Done(a),
         UNCHANGED <<enabled, notices, devices, live, holder, due, asked>>, pushed' \subseteq due
  PROVE  NoticeInv'
<1>1. NoticeKnows(N!IdleRequest) /\ noticeReq' = [noticeReq EXCEPT ![a] = N!IdleRequest]
  BY NoticeIdle DEF NoticeKnows, N!Done
<1> QED BY <1>1, NoticeIdle, NoticeReads

LEMMA FindTokensStep ==
  ASSUME NoticeInv, NEW a \in NoticeSlots, N!FindTokens(a) PROVE NoticeInv'
<1> DEFINE q == noticeReq[a]
           tokens == {t \in Handsets : <<q.user, t>> \in devices}
<1>1. q.pc = "find" /\ q \in NoticeReq /\ NoticeKnows(q) /\ q.id \in N!Ids /\ notices[q.id].user = q.user
  BY DEF NoticeInv, NoticeKnows, N!FindTokens, N!At
<1>2. q.user \in Owners
  BY <1>1, NoticeOf DEF NoticeRow
<1>3. UNCHANGED <<enabled, notices, devices, live, holder, due, pushed, asked>>
  BY DEF N!FindTokens
<1>4. pushed' \subseteq due
  BY <1>3 DEF NoticeInv, N!PushWasTheirs
<1>5. N!Done(a) \/ noticeReq' = [noticeReq EXCEPT ![a].pc = "send", ![a].tokens = tokens]
  BY DEF N!FindTokens
<1>6. CASE N!Done(a)
  BY <1>3, <1>4, <1>6, NoticeDone
<1>7. CASE noticeReq' = [noticeReq EXCEPT ![a].pc = "send", ![a].tokens = tokens]
  <2> DEFINE r == [[q EXCEPT !.pc = "send"] EXCEPT !.tokens = tokens]
  <2>1. r \in NoticeReq /\ r.pc = "send" /\ r.tokens = tokens /\ r.id = q.id /\ r.user = q.user
    BY <1>1 DEF NoticeReq
  <2>4. noticeReq' = [noticeReq EXCEPT ![a] = r]
    BY <1>7, Zenon DEF NoticeInv
  <2>2. \A t \in tokens : <<t, q.id>> \in due
    BY <1>1, <1>2 DEF NoticeInv, WaitingIsDue
  <2> HIDE DEF tokens, q, r
  <2>3. NoticeKnows(r)
    BY <1>1, <2>1, <2>2 DEF NoticeKnows
  <2> QED BY <1>3, <1>4, <2>1, <2>3, <2>4, NoticeReads
<1> QED BY <1>5, <1>6, <1>7

LEMMA SendToTokensStep ==
  ASSUME NoticeInv, NEW a \in NoticeSlots, NEW ok \in SUBSET Handsets, N!SendToTokens(a, ok) PROVE NoticeInv'
<1> DEFINE q == noticeReq[a]
           dead == N!DeadTokens(q.tokens, ok)
<1>1. q.pc = "send" /\ q \in NoticeReq /\ NoticeKnows(q) /\ q.id \in N!Ids
  BY DEF NoticeInv, NoticeKnows, N!SendToTokens, N!At
<1>2. \A t \in q.tokens : <<t, q.id>> \in due
  BY <1>1 DEF NoticeKnows
<1>3. UNCHANGED <<enabled, notices, devices, live, holder, due, asked>> /\ pushed' = pushed \cup {<<t, q.id>> : t \in ok}
      /\ ok \subseteq q.tokens
  BY DEF N!SendToTokens, N!Delivered
<1>4. pushed' \subseteq due
  BY <1>2, <1>3 DEF NoticeInv, N!PushWasTheirs
<1>5. N!Done(a) \/ noticeReq' = [noticeReq EXCEPT ![a].pc = "prune", ![a].tokens = dead]
  BY DEF N!SendToTokens
<1>6. dead \in SUBSET Handsets /\ dead \cap live = {}
  BY <1>1 DEF N!DeadTokens, NoticeReq
<1>7. CASE N!Done(a)
  BY <1>3, <1>4, <1>7, NoticeDone
<1>8. CASE noticeReq' = [noticeReq EXCEPT ![a].pc = "prune", ![a].tokens = dead]
  <2> HIDE DEF dead
  <2> DEFINE r == [[q EXCEPT !.pc = "prune"] EXCEPT !.tokens = dead]
  <2>1. r \in NoticeReq /\ r.pc = "prune" /\ r.tokens = dead /\ r.id = q.id /\ r.user = q.user
    BY <1>1, <1>6 DEF NoticeReq
  <2>3. noticeReq' = [noticeReq EXCEPT ![a] = r]
    BY <1>8, Zenon DEF NoticeInv
  <2> HIDE DEF q, r
  <2>2. NoticeKnows(r)
    BY <1>6, <2>1 DEF NoticeKnows
  <2> QED BY <1>3, <1>4, <2>1, <2>2, <2>3, NoticeReads
<1> QED BY <1>5, <1>7, <1>8

LEMMA RemoveManyStep ==
  ASSUME NoticeInv, NEW a \in NoticeSlots, N!RemoveMany(a) PROVE NoticeInv'
<1> DEFINE q == noticeReq[a]
<1>1. /\ devices' = {d \in devices : d[2] \notin q.tokens} /\ noticeReq' = [noticeReq EXCEPT ![a] = N!IdleRequest]
      /\ UNCHANGED <<enabled, notices, live, holder, due, pushed, asked>> /\ q.pc = "prune"
  BY DEF N!RemoveMany, N!At, N!Done
<1>2. q.tokens \cap live = {}
  BY <1>1 DEF NoticeInv, NoticeKnows
<1> HIDE DEF q
<1>3. /\ devices' \subseteq devices
      /\ \A u \in Owners, t \in Handsets : <<u, t>> \in devices /\ t \in live => <<u, t>> \in devices'
  BY <1>1, <1>2
<1>4. N!Ids' = N!Ids
  BY <1>1 DEF N!Ids
<1>5. \A t \in live' : holder'[t] # None => <<holder'[t], t>> \in devices'
  BY <1>1, <1>3 DEF NoticeInv, HandsetTable, N!HandsetStaysReachable
<1>6. HandsetTable' /\ WaitingIsDue'
  BY <1>1, <1>3, <1>4, <1>5 DEF NoticeInv, HandsetTable, WaitingIsDue, N!HandsetStaysReachable
<1>7. NoticeKnows(N!IdleRequest) /\ pushed' \subseteq due' /\ due \subseteq due' /\ live' \subseteq live
  BY <1>1, NoticeIdle DEF NoticeKnows, NoticeInv, N!PushWasTheirs
<1>8. noticeReq' \in [NoticeSlots -> NoticeReq] /\ \A b \in NoticeSlots : NoticeKnows(noticeReq'[b])
  BY <1>1, <1>7, NoticeIdle DEF NoticeInv
<1> QED BY <1>1, <1>6, <1>7, <1>8, NoticeMoves

LEMMA MarkAllReadStep ==
  ASSUME NoticeInv, NEW u \in Owners, N!MarkAllRead(u) PROVE NoticeInv'
<1> DEFINE marked(i) == [notices[i] EXCEPT !.isRead = @ \/ notices[i].user = u]
<1>1. /\ notices' = [i \in N!Ids |-> marked(i)]
      /\ asked' = [asked EXCEPT ![u] = Len(notices)]
      /\ UNCHANGED <<enabled, devices, live, noticeReq, holder, due, pushed>>
  BY DEF N!MarkAllRead
<1>2. ASSUME NEW i \in N!Ids
      PROVE  /\ marked(i) \in NoticeRow /\ marked(i).user = notices[i].user
             /\ marked(i).isRead => notices[i].isRead \/ notices[i].user = u
  <2>1. notices[i] \in NoticeRow
    BY NoticeOf
  <2>2. (notices[i].isRead \/ notices[i].user = u) \in BOOLEAN
    OBVIOUS
  <2>3. marked(i) = [notices[i] EXCEPT !.isRead = notices[i].isRead \/ notices[i].user = u]
    OBVIOUS
  <2>4. marked(i) \in NoticeRow /\ marked(i).user = notices[i].user
    BY <2>1, <2>2, <2>3 DEF NoticeRow
  <2>5. marked(i).isRead = (notices[i].isRead \/ notices[i].user = u)
    BY <2>1, <2>3, Zenon DEF NoticeRow
  <2> QED BY <2>4, <2>5
<1> HIDE DEF marked
<1>3. Len(notices) \in Nat /\ N!Ids = 1 .. Len(notices)
  BY DEF NoticeInv, N!Ids
<1>4. notices' \in Seq(NoticeRow) /\ Len(notices') = Len(notices)
  BY <1>1, <1>2, <1>3
<1>5. N!Ids' = N!Ids /\ \A i \in N!Ids : notices'[i] = marked(i) /\ notices'[i].user = notices[i].user
  BY <1>1, <1>2, <1>4 DEF N!Ids
<1>6. /\ asked' \in [Owners -> Nat] /\ asked'[u] = Len(notices)
      /\ \A v \in Owners \ {u} : asked'[v] = asked[v]
  BY <1>1, <1>3 DEF NoticeInv
<1>7. ASSUME NEW i \in N!Ids, notices'[i].isRead PROVE i <= asked'[notices'[i].user]
  <2>1. notices[i].user \in Owners /\ i <= Len(notices)
    BY <1>3, NoticeOf DEF NoticeRow
  <2>2. CASE notices[i].user = u
    BY <1>5, <1>6, <2>1, <2>2
  <2>3. CASE notices[i].user # u
    <3>1. notices[i].isRead
      BY <1>2, <1>5, <1>7, <2>3
    <3> QED BY <1>5, <1>6, <2>1, <2>3, <3>1 DEF NoticeInv, N!ReadByItsUser
  <2> QED BY <2>2, <2>3
<1>8. N!ReadByItsUser' /\ N!PushWasTheirs'
  BY <1>1, <1>5, <1>7 DEF NoticeInv, N!ReadByItsUser, N!PushWasTheirs
<1>9. HandsetTable' /\ WaitingIsDue'
  BY <1>1, <1>5 DEF NoticeInv, HandsetTable, WaitingIsDue, N!HandsetStaysReachable
<1>10. \A b \in NoticeSlots : NoticeKnows(noticeReq[b])'
  BY <1>1, <1>5 DEF NoticeInv, NoticeKnows
<1> QED BY <1>1, <1>4, <1>6, <1>8, <1>9, <1>10 DEF NoticeInv

LEMMA NoticeInductive ==
  ASSUME N!NotificationsAssumption, NoticeInv, [N!Next]_(N!vars) PROVE NoticeInv'
<1>1. ASSUME NEW a \in NoticeSlots, N!PushFailed(a) PROVE NoticeInv'
  BY <1>1, NoticeDone DEF N!PushFailed, NoticeInv, N!PushWasTheirs
<1>2. CASE UNCHANGED N!vars
  <2>1. N!Ids' = N!Ids
    BY <1>2 DEF N!vars, N!Ids
  <2> QED BY <1>2, <2>1 DEF N!vars, NoticeInv, HandsetTable, WaitingIsDue, NoticeKnows, N!HandsetStaysReachable,
             N!PushWasTheirs, N!ReadByItsUser
<1>3. ASSUME NEW u \in Owners, N!UserStep(u) PROVE NoticeInv'
  BY <1>3, MarkAllReadStep, RegisterStep, UnregisterStep DEF N!UserStep
<1> QED BY <1>1, <1>2, <1>3, UninstallStep, CreateNoticeStep, FindTokensStep, SendToTokensStep, RemoveManyStep DEF N!Next

\* A push only reaches a handset its user used while the notification waited, a
\* handset in use stays registered, and a notification is read by its own user,
\* for any number of users, handsets, notifications and requests raising them.
LEMMA NoticesHold == ASSUME N!NotificationsAssumption PROVE N!Spec => []PushFindsItsUser
<1>1. N!NotificationsAssumption /\ N!Init => NoticeInv
  <2> SUFFICES ASSUME N!NotificationsAssumption, N!Init PROVE NoticeInv
    OBVIOUS
  <2>1. N!Ids = {} /\ notices \in Seq(NoticeRow)
    BY DEF N!Init, N!Ids
  <2> QED BY <2>1, NoticeIdle DEF N!Init, NoticeInv, HandsetTable, WaitingIsDue, NoticeKnows, N!HandsetStaysReachable,
             N!PushWasTheirs, N!ReadByItsUser
<1>2. NoticeInv /\ [N!Next]_(N!vars) => NoticeInv'
  BY NoticeInductive
<1>3. NoticeInv => N!TypeOK
  <2> SUFFICES ASSUME NoticeInv PROVE N!TypeOK
    OBVIOUS
  <2>1. \A i \in N!Ids : notices[i] \in NoticeRow
    BY NoticeOf
  <2>2. \A c, d \in devices : c[2] = d[2] => c = d
    BY DEF NoticeInv, HandsetTable
  <2>3. \A a \in NoticeSlots : noticeReq[a].pc \in {"idle", "find", "send", "prune"} /\ noticeReq[a].tokens \subseteq Handsets
    BY DEF NoticeInv, NoticeReq
  <2> QED BY <2>1, <2>2, <2>3 DEF NoticeInv, HandsetTable, N!TypeOK, NoticeRow
<1>4. NoticeInv => PushFindsItsUser
  BY <1>3 DEF NoticeInv, HandsetTable, PushFindsItsUser
<1> QED BY <1>1, <1>2, <1>4, PTL DEF N!Spec

(***************************************************************************)
(* Addresses                                                               *)
(***************************************************************************)

AddressRow == [user : Customers, isDefault : BOOLEAN, deleted : BOOLEAN]
AddressReq == [pc : {"idle", "update", "remove"}, user : Customers \cup {None}, id : 0 .. MaxAddresses,
               dto : L!UpdateAddressDto]

\* The table: an id has one row at most, and a user one default row at most,
\* removed ones included.
AddressTable(table) ==
    /\ table \in [L!Ids -> SUBSET AddressRow]
    /\ \A i \in L!Ids : \A row, other \in table[i] : row = other
    /\ \A i, j \in L!Ids : \A row \in table[i], other \in table[j] :
          row.user = other.user /\ row.isDefault /\ other.isDefault => i = j

OwnerOf(table, i, u) == \E row \in table[i] : row.user = u

AddressInv ==
    /\ AddressTable(address)
    /\ addressReq \in [AddressSlots -> AddressReq]
    /\ \A a \in AddressSlots : addressReq[a].pc # "idle" =>
          addressReq[a].id \in L!Ids /\ addressReq[a].user \in Customers
          /\ OwnerOf(address, addressReq[a].id, addressReq[a].user)

LEMMA AddressIdle == ASSUME L!AddressesAssumption PROVE L!IdleRequest \in AddressReq /\ L!IdleRequest.pc = "idle"
BY DEF L!AddressesAssumption, L!IdleRequest, AddressReq, L!UpdateAddressDto, L!Optional

LEMMA AddressIds == ASSUME L!AddressesAssumption PROVE \A i \in L!Ids : i \in Nat /\ i \in 0 .. MaxAddresses
BY DEF L!AddressesAssumption, L!Ids

\* clearDefault: the user's other rows are no default, no row changes hands and
\* none becomes the default.
LEMMA ClearedDefaults ==
  ASSUME AddressTable(address), NEW u \in Customers, NEW i \in L!Ids
  PROVE  /\ AddressTable(L!clearDefault(u, i))
         /\ \A j \in L!Ids : \A row \in L!clearDefault(u, i)[j] :
               /\ \E old \in address[j] : old.user = row.user
               /\ row.isDefault /\ row.user = u => j = i
         /\ \A j \in L!Ids : \A v : OwnerOf(address, j, v) => OwnerOf(L!clearDefault(u, i), j, v)
<1> DEFINE c == L!clearDefault(u, i)
           clear(j, row) == IF row.user = u /\ j # i THEN [row EXCEPT !.isDefault = FALSE] ELSE row
<1>1. c = [j \in L!Ids |-> {clear(j, row) : row \in address[j]}]
  BY DEF L!clearDefault
<1>2. ASSUME NEW j \in L!Ids, NEW row \in address[j]
      PROVE  /\ clear(j, row) \in AddressRow /\ clear(j, row).user = row.user
             /\ clear(j, row).isDefault => row.isDefault /\ (row.user = u => j = i)
  <2>1. row \in AddressRow
    BY DEF AddressTable
  <2>2. CASE row.user = u /\ j # i
    <3>1. clear(j, row) = [row EXCEPT !.isDefault = FALSE]
      BY <2>2
    <3> QED BY <2>1, <3>1 DEF AddressRow
  <2>3. CASE ~(row.user = u /\ j # i)
    <3>1. clear(j, row) = row
      BY <2>3
    <3> QED BY <2>1, <2>3, <3>1
  <2> QED BY <2>2, <2>3
<1> HIDE DEF clear, c
<1>3. \A j \in L!Ids : \A row \in c[j] : \E old \in address[j] : row = clear(j, old)
  BY <1>1
<1>4. \A j \in L!Ids : \A old \in address[j] : clear(j, old) \in c[j]
  BY <1>1
<1>5. c \in [L!Ids -> SUBSET AddressRow]
  BY <1>1, <1>2
<1>6. \A j \in L!Ids : \A row, other \in c[j] : row = other
  BY <1>3 DEF AddressTable
<1>7. \A j, k \in L!Ids : \A row \in c[j], other \in c[k] :
         row.user = other.user /\ row.isDefault /\ other.isDefault => j = k
  BY <1>2, <1>3 DEF AddressTable
<1>8. \A j \in L!Ids : \A row \in c[j] :
         (\E old \in address[j] : old.user = row.user) /\ (row.isDefault /\ row.user = u => j = i)
  BY <1>2, <1>3
<1>9. \A j \in L!Ids : \A v : OwnerOf(address, j, v) => OwnerOf(c, j, v)
  BY <1>2, <1>4 DEF OwnerOf
<1>10. AddressTable(c)
  BY <1>5, <1>6, <1>7 DEF AddressTable
<1> QED BY <1>8, <1>9, <1>10 DEF c

\* The table after the row of one id is written, the other defaults of its user
\* cleared if the new row is the default.
LEMMA AddressWritten ==
  ASSUME NEW c, AddressTable(c), NEW i \in L!Ids, NEW rows \in SUBSET AddressRow,
         \A row, other \in rows : row = other,
         \A row \in rows : row.isDefault =>
            \A j \in L!Ids \ {i} : \A other \in c[j] : other.user = row.user => ~other.isDefault
  PROVE  AddressTable([c EXCEPT ![i] = rows])
<1> DEFINE d == [c EXCEPT ![i] = rows]
<1>1. d \in [L!Ids -> SUBSET AddressRow] /\ d[i] = rows /\ \A j \in L!Ids \ {i} : d[j] = c[j]
  BY DEF AddressTable
<1> HIDE DEF d
<1>2. \A j \in L!Ids : \A row, other \in d[j] : row = other
  BY <1>1 DEF AddressTable
<1>3. ASSUME NEW j \in L!Ids, NEW k \in L!Ids, NEW row \in d[j], NEW other \in d[k],
             row.user = other.user, row.isDefault, other.isDefault
      PROVE  j = k
  <2>1. CASE j # i /\ k # i
    BY <1>1, <1>3, <2>1 DEF AddressTable
  <2>2. CASE j = i \/ k = i
    BY <1>1, <1>3, <2>2
  <2> QED BY <2>1, <2>2
<1>4. AddressTable(d)
  BY <1>1, <1>2, <1>3 DEF AddressTable
<1> QED BY <1>4 DEF d

\* A step that writes the table, where no row changes hands, and leaves the
\* request a idle, or every request as it was.
LEMMA AddressWrites ==
  ASSUME L!AddressesAssumption, AddressInv, AddressTable(address'), NEW a \in AddressSlots,
         addressReq' = [addressReq EXCEPT ![a] = L!IdleRequest] \/ UNCHANGED addressReq,
         \A i \in L!Ids, v \in Customers : OwnerOf(address, i, v) => OwnerOf(address', i, v)
  PROVE  AddressInv'
<1>1. /\ addressReq' \in [AddressSlots -> AddressReq]
      /\ \A b \in AddressSlots : addressReq'[b] = addressReq[b] \/ addressReq'[b].pc = "idle"
  BY AddressIdle DEF AddressInv
<1>2. ASSUME NEW b \in AddressSlots, addressReq'[b].pc # "idle"
      PROVE  /\ addressReq'[b].id \in L!Ids /\ addressReq'[b].user \in Customers
             /\ OwnerOf(address', addressReq'[b].id, addressReq'[b].user)
  <2>1. addressReq'[b] = addressReq[b]
    BY <1>1, <1>2
  <2> QED BY <1>2, <2>1 DEF AddressInv
<1> QED BY <1>1, <1>2 DEF AddressInv

LEMMA CreateAddressStep ==
  ASSUME L!AddressesAssumption, AddressInv, NEW u \in Customers, NEW dto \in L!CreateAddressDto, L!Create(u, dto),
         NEW a \in AddressSlots
  PROVE  AddressInv'
<1>1. PICK i \in L!Ids :
         /\ address[i] = {}
         /\ address' = [IF TRUE \in dto.isDefault THEN L!clearDefault(u, i) ELSE address EXCEPT
                          ![i] = {[user |-> u, isDefault |-> TRUE \in dto.isDefault, deleted |-> FALSE]}]
  BY DEF L!Create
<1> DEFINE c == IF TRUE \in dto.isDefault THEN L!clearDefault(u, i) ELSE address
           new == [user |-> u, isDefault |-> TRUE \in dto.isDefault, deleted |-> FALSE]
<1>2. address' = [c EXCEPT ![i] = {new}] /\ UNCHANGED addressReq
  BY <1>1 DEF L!Create
<1>3. new \in AddressRow /\ new.user = u /\ (new.isDefault => TRUE \in dto.isDefault)
  <2>1. (TRUE \in dto.isDefault) \in BOOLEAN
    OBVIOUS
  <2> QED BY <2>1, Zenon DEF AddressRow
<1>4. AddressTable(address)
  BY DEF AddressInv
<1>5. /\ AddressTable(c)
      /\ TRUE \in dto.isDefault => \A j \in L!Ids : \A row \in c[j] : row.isDefault /\ row.user = u => j = i
      /\ \A j \in L!Ids : \A v : OwnerOf(address, j, v) => OwnerOf(c, j, v)
  <2>1. CASE TRUE \in dto.isDefault
    <3>1. c = L!clearDefault(u, i)
      BY <2>1
    <3> HIDE DEF c
    <3> QED BY <1>4, <3>1, ClearedDefaults
  <2>2. CASE TRUE \notin dto.isDefault
    BY <1>4, <2>2
  <2> QED BY <2>1, <2>2
<1> HIDE DEF c, new
<1>6. AddressTable([c EXCEPT ![i] = {new}])
  BY <1>3, <1>5, AddressWritten
<1>7. ASSUME NEW j \in L!Ids, NEW v \in Customers, OwnerOf(address, j, v) PROVE OwnerOf(address', j, v)
  <2>1. j # i
    BY <1>1, <1>7 DEF OwnerOf
  <2>2. address'[j] = c[j]
    BY <1>2, <1>5, <2>1 DEF AddressTable
  <2> QED BY <1>5, <1>7, <2>2 DEF OwnerOf
<1>8. AddressTable(address')
  BY <1>2, <1>6
<1> QED BY <1>2, <1>7, <1>8, AddressWrites

LEMMA RequireOwnedStep ==
  ASSUME L!AddressesAssumption, AddressInv, NEW u \in Customers, NEW a \in AddressSlots, NEW i \in L!Ids,
         NEW pc \in {"update", "remove"}, NEW dto \in L!UpdateAddressDto, L!RequireOwned(a, u, i, pc, dto)
  PROVE  AddressInv'
<1> DEFINE r == [pc |-> pc, user |-> u, id |-> i, dto |-> dto]
<1>1. addressReq' = [addressReq EXCEPT ![a] = r] /\ UNCHANGED address /\ OwnerOf(address, i, u)
  BY DEF L!RequireOwned, L!withNotDeleted, L!RowsOf, OwnerOf
<1>2. r \in AddressReq /\ r.id = i /\ r.user = u
  BY AddressIds DEF AddressReq
<1> HIDE DEF r
<1>3. /\ addressReq' \in [AddressSlots -> AddressReq]
      /\ \A b \in AddressSlots : addressReq'[b] = addressReq[b] \/ addressReq'[b] = r
  BY <1>1, <1>2 DEF AddressInv
<1> QED BY <1>1, <1>2, <1>3 DEF AddressInv, OwnerOf

LEMMA UpdateAddressStep ==
  ASSUME L!AddressesAssumption, AddressInv, NEW a \in AddressSlots, L!Update(a)
  PROVE  AddressInv'
<1> DEFINE r == addressReq[a]
           given(row) == IF r.dto.isDefault = {} THEN row ELSE [row EXCEPT !.isDefault = TRUE \in r.dto.isDefault]
           c == IF TRUE \in r.dto.isDefault THEN L!clearDefault(r.user, r.id) ELSE address
           rows == {given(row) : row \in c[r.id]}
<1>1. /\ AddressTable(address) /\ addressReq' = [addressReq EXCEPT ![a] = L!IdleRequest]
      /\ r.id \in L!Ids /\ r.user \in Customers /\ OwnerOf(address, r.id, r.user) /\ r.pc = "update"
  BY DEF L!Update, AddressInv
<1>2. /\ AddressTable(c)
      /\ \A j \in L!Ids : \A row \in c[j] :
            /\ \E old \in address[j] : old.user = row.user
            /\ TRUE \in r.dto.isDefault => (row.isDefault /\ row.user = r.user => j = r.id)
      /\ \A j \in L!Ids : \A v : OwnerOf(address, j, v) => OwnerOf(c, j, v)
  <2>1. CASE TRUE \in r.dto.isDefault
    <3>1. c = L!clearDefault(r.user, r.id)
      BY <2>1
    <3>2. AddressTable(address) /\ r.id \in L!Ids /\ r.user \in Customers
      BY <1>1
    <3> HIDE DEF c, r
    <3>3. AddressTable(c) /\ \A j \in L!Ids : \A v : OwnerOf(address, j, v) => OwnerOf(c, j, v)
      BY <3>1, <3>2, ClearedDefaults
    <3>4. ASSUME NEW j \in L!Ids, NEW row \in c[j]
          PROVE  (\E old \in address[j] : old.user = row.user) /\ (row.isDefault /\ row.user = r.user => j = r.id)
      BY <3>1, <3>2, <3>4, ClearedDefaults
    <3> QED BY <3>3, <3>4
  <2>2. CASE TRUE \notin r.dto.isDefault
    BY <1>1, <2>2
  <2> QED BY <2>1, <2>2
<1>3. address' = [c EXCEPT ![r.id] = rows]
  BY <1>1, <1>2 DEF L!Update, AddressTable
<1>4. ASSUME NEW row \in c[r.id]
      PROVE  /\ given(row) \in AddressRow /\ given(row).user = row.user /\ row.user = r.user
             /\ given(row).isDefault => row.isDefault \/ TRUE \in r.dto.isDefault
  <2>1. row \in AddressRow /\ row.user = r.user
    <3> HIDE DEF r, c
    <3>1. row \in AddressRow
      BY <1>1, <1>2 DEF AddressTable
    <3>2. PICK old \in address[r.id] : old.user = row.user
      BY <1>1, <1>2
    <3>3. PICK own \in address[r.id] : own.user = r.user
      BY <1>1 DEF OwnerOf
    <3>4. own = old
      BY <1>1 DEF AddressTable
    <3> QED BY <3>1, <3>2, <3>3, <3>4
  <2>2. CASE r.dto.isDefault = {}
    BY <2>1, <2>2
  <2>3. CASE r.dto.isDefault # {}
    <3>1. (TRUE \in r.dto.isDefault) \in BOOLEAN
      OBVIOUS
    <3>2. given(row) = [row EXCEPT !.isDefault = TRUE \in r.dto.isDefault]
      BY <2>3
    <3>3. given(row) \in AddressRow /\ given(row).user = row.user
      BY <2>1, <3>1, <3>2 DEF AddressRow
    <3>4. given(row).isDefault = (TRUE \in r.dto.isDefault)
      BY <2>1, <3>2, Zenon DEF AddressRow
    <3> QED BY <2>1, <3>3, <3>4
  <2> QED BY <2>2, <2>3
<1> HIDE DEF c, given
<1> HIDE DEF r
<1>5. rows \in SUBSET AddressRow /\ \A row, other \in rows : row = other
  <2>1. rows \in SUBSET AddressRow
    BY <1>4
  <2>2. \A row, other \in c[r.id] : row = other
    BY <1>1, <1>2 DEF AddressTable
  <2> QED BY <2>1, <2>2
<1>6. ASSUME NEW row \in rows, row.isDefault, NEW j \in L!Ids \ {r.id}, NEW other \in c[j], other.user = row.user
      PROVE  ~other.isDefault
  <2>1. PICK old \in c[r.id] : row = given(old)
    OBVIOUS
  <2>2. row.user = old.user /\ row.user = r.user /\ (old.isDefault \/ TRUE \in r.dto.isDefault)
    BY <1>4, <1>6, <2>1
  <2>3. CASE TRUE \in r.dto.isDefault
    BY <1>2, <1>6, <2>2, <2>3
  <2>4. CASE old.isDefault
    <3>1. j \in L!Ids /\ r.id \in L!Ids /\ j # r.id /\ other.user = old.user
      BY <1>1, <1>6, <2>2
    <3> QED BY <1>2, <2>4, <3>1 DEF AddressTable
  <2> QED BY <2>2, <2>3, <2>4
<1>7. ASSUME NEW j \in L!Ids, NEW v \in Customers, OwnerOf(address, j, v) PROVE OwnerOf([c EXCEPT ![r.id] = rows], j, v)
  <2>1. PICK row \in c[j] : row.user = v
    BY <1>2, <1>7 DEF OwnerOf
  <2>2. [c EXCEPT ![r.id] = rows][j] = IF j = r.id THEN rows ELSE c[j]
    BY <1>2 DEF AddressTable
  <2>3. CASE j = r.id
    <3>1. given(row) \in rows /\ given(row).user = v
      BY <1>4, <2>1, <2>3
    <3> QED BY <2>2, <2>3, <3>1 DEF OwnerOf
  <2>4. CASE j # r.id
    BY <2>1, <2>2, <2>4 DEF OwnerOf
  <2> QED BY <2>3, <2>4
<1> HIDE DEF rows
<1>8. AddressTable([c EXCEPT ![r.id] = rows])
  BY <1>1, <1>2, <1>5, <1>6, AddressWritten
<1>9. AddressTable(address')
  BY <1>3, <1>8
<1>10. \A j \in L!Ids, v \in Customers : OwnerOf(address, j, v) => OwnerOf(address', j, v)
  BY <1>3, <1>7
<1> QED BY <1>1, <1>9, <1>10, AddressWrites

LEMMA RemoveAddressStep ==
  ASSUME L!AddressesAssumption, AddressInv, NEW a \in AddressSlots, L!Remove(a)
  PROVE  AddressInv'
<1> DEFINE i == addressReq[a].id
           removed(row) == [row EXCEPT !.deleted = TRUE]
           rows == {removed(row) : row \in address[i]}
<1>1. /\ AddressTable(address) /\ addressReq' = [addressReq EXCEPT ![a] = L!IdleRequest] /\ i \in L!Ids
  BY DEF L!Remove, AddressInv
<1>2. address' = [address EXCEPT ![i] = rows]
  BY <1>1 DEF L!Remove, AddressTable
<1>3. ASSUME NEW row \in address[i]
      PROVE  removed(row) \in AddressRow /\ removed(row).user = row.user /\ removed(row).isDefault = row.isDefault
  <2>1. row \in AddressRow
    BY <1>1 DEF AddressTable
  <2>2. removed(row) \in AddressRow /\ removed(row).user = row.user
    BY <2>1 DEF AddressRow
  <2>3. removed(row).isDefault = row.isDefault
    BY <2>1, Zenon DEF AddressRow
  <2> QED BY <2>2, <2>3
<1> HIDE DEF i, removed
<1>4. rows \in SUBSET AddressRow /\ \A row, other \in rows : row = other
  BY <1>1, <1>3 DEF AddressTable
<1>5. \A row \in rows : row.isDefault =>
         \A j \in L!Ids \ {i} : \A other \in address[j] : other.user = row.user => ~other.isDefault
  BY <1>1, <1>3 DEF AddressTable
<1>6. \A j \in L!Ids, v \in Customers : OwnerOf(address, j, v) => OwnerOf(address', j, v)
  BY <1>1, <1>2, <1>3 DEF AddressTable, OwnerOf
<1> HIDE DEF rows
<1>7. AddressTable(address')
  BY <1>1, <1>2, <1>4, <1>5, AddressWritten
<1> QED BY <1>1, <1>6, <1>7, AddressWrites

LEMMA AddressInductive ==
  ASSUME L!AddressesAssumption, AddressInv, [L!Next]_(L!vars) PROVE AddressInv'
<1>1. ASSUME NEW a \in AddressSlots, L!Abort(a) PROVE AddressInv'
  BY <1>1, AddressWrites DEF L!Abort, AddressInv
<1>2. ASSUME NEW a \in AddressSlots, NEW u \in Customers, NEW i \in L!Ids,
             L!RequireOwned(a, u, i, "remove", L!IdleRequest.dto)
      PROVE  AddressInv'
  <2>1. L!IdleRequest.dto \in L!UpdateAddressDto
    BY DEF L!IdleRequest, L!UpdateAddressDto, L!Optional
  <2> QED BY <1>2, <2>1, RequireOwnedStep
<1>3. CASE UNCHANGED L!vars
  BY <1>3 DEF L!vars, AddressInv
<1> QED BY <1>1, <1>2, <1>3, CreateAddressStep, RequireOwnedStep, UpdateAddressStep, RemoveAddressStep
    DEF L!Next, L!LocationsStep

\* With one default row per user, the address a booking starts from is it.
LEMMA DefaultFound ==
  ASSUME L!AddressesAssumption, AddressInv PROVE L!OneDefault /\ L!PrefillIsShown
<1>1. L!OneDefault
  BY DEF AddressInv, AddressTable, L!OneDefault, L!RowsOf, L!Shown, L!Default
<1>2. ASSUME NEW u \in Customers, NEW i \in L!findDefaultForUser(u) PROVE L!Shown(i)
  BY DEF L!findDefaultForUser, L!withNotDeleted, L!Shown
<1>3. ASSUME NEW u \in Customers, NEW i \in L!RowsOf(u), L!Shown(i), L!Default(i)
      PROVE  L!findDefaultForUser(u) = {i}
  <2> DEFINE mine == L!withNotDeleted(L!RowsOf(u))
             defaults == {j \in mine : \E row \in address[j] : row.isDefault}
             best == IF defaults = {} THEN mine ELSE defaults
  <2>1. i \in defaults
    BY <1>3 DEF L!withNotDeleted, L!Shown, L!Default
  <2>2. \A j \in defaults : j = i
    BY <1>1, <1>3 DEF L!OneDefault, L!withNotDeleted, L!Shown, L!Default
  <2>3. best = {i}
    BY <2>1, <2>2
  <2>4. i \in Nat
    BY AddressIds DEF L!RowsOf
  <2>5. L!findDefaultForUser(u) = {k \in best : \A j \in best : k <= j}
    BY DEF L!findDefaultForUser
  <2> HIDE DEF best
  <2> QED BY <2>3, <2>4, <2>5
<1> QED BY <1>1, <1>2, <1>3 DEF L!PrefillIsShown

\* A user has one default address, and a booking starts from it, for any number
\* of users, addresses and requests (LocationsRepository).
LEMMA AddressesHold == ASSUME L!AddressesAssumption PROVE L!Spec => []DefaultIsOneAndTheirs
<1>1. L!Init => AddressInv
  BY AddressIdle DEF L!Init, AddressInv, AddressTable
<1>2. AddressInv /\ [L!Next]_(L!vars) => AddressInv'
  BY AddressInductive
<1>3. AddressInv => L!TypeOK
  BY DEF AddressInv, AddressTable, L!TypeOK, AddressRow, AddressReq
<1>4. AddressInv => DefaultIsOneAndTheirs
  BY <1>3, DefaultFound DEF DefaultIsOneAndTheirs
<1> QED BY <1>1, <1>2, <1>4, PTL DEF L!Spec

(***************************************************************************)
(* Places                                                                  *)
(***************************************************************************)

\* Null or a value.
IsOptional(x) == x = {} \/ \E y : x = {y}

LEMMA OptionalCounts == ASSUME NEW x, IsOptional(x) PROVE Cardinality(x) <= 1 /\ (x # {} => Cardinality(x) = 1)
<1>1. CASE x = {}
  BY <1>1, FS_EmptySet
<1>2. CASE \E y : x = {y}
  <2>1. PICK y : x = {y}
    BY <1>2
  <2>2. Cardinality({y}) = 1
    BY FS_Singleton
  <2> QED BY <2>1, <2>2
<1> QED BY <1>1, <1>2 DEF IsOptional

LEMMA MinOfFive == ASSUME NEW I \in SUBSET (1 .. 5), I # {} PROVE G!Min(I) \in I /\ \A j \in I : G!Min(I) <= j
<1>1. \E m \in I : \A j \in I : m <= j
  <2>1. CASE 1 \in I
    BY <2>1
  <2>2. CASE 1 \notin I /\ 2 \in I
    BY <2>2
  <2>3. CASE 1 \notin I /\ 2 \notin I /\ 3 \in I
    BY <2>3
  <2>4. CASE 1 \notin I /\ 2 \notin I /\ 3 \notin I /\ 4 \in I
    BY <2>4
  <2>5. CASE 1 \notin I /\ 2 \notin I /\ 3 \notin I /\ 4 \notin I
    <3>1. \A j \in I : j = 5
      BY <2>5
    <3>2. PICK m \in I : TRUE
      OBVIOUS
    <3> QED BY <3>1, <3>2
  <2> QED BY <2>1, <2>2, <2>3, <2>4, <2>5
<1> QED BY <1>1 DEF G!Min

LEMMA PlaceTypes ==
  /\ Len(G!PLACE_TYPES) = 5
  /\ \A i \in 1 .. 5 : G!PLACE_TYPES[i] \in DOMAIN G!CHAIN /\ G!PLACE_TYPES[i] \in G!Range(G!PLACE_TYPES)
  /\ \A i, j \in 1 .. 5 : G!PLACE_TYPES[i] = G!PLACE_TYPES[j] => i = j
  /\ "country" = G!PLACE_TYPES[5]
<1>1. Len(G!PLACE_TYPES) = 5 /\ DOMAIN G!PLACE_TYPES = 1 .. 5
  BY DEF G!PLACE_TYPES
<1>2. \A i \in 1 .. 5 : G!PLACE_TYPES[i] \in DOMAIN G!CHAIN
  BY DEF G!PLACE_TYPES, G!CHAIN
<1>3. \A i, j \in 1 .. 5 : G!PLACE_TYPES[i] = G!PLACE_TYPES[j] => i = j
  BY DEF G!PLACE_TYPES
<1>4. \A i \in 1 .. 5 : G!PLACE_TYPES[i] \in G!Range(G!PLACE_TYPES)
  BY <1>1 DEF G!Range
<1>5. "country" = G!PLACE_TYPES[5]
  BY DEF G!PLACE_TYPES
<1> QED BY <1>1, <1>2, <1>3, <1>4, <1>5

LEMMA PickedOne == ASSUME NEW components, NEW chain PROVE IsOptional(G!pick(components, chain))
BY DEF G!pick, G!SelectInSeq, IsOptional

\* The finest level named, and the type if none is.
LEMMA FinestLevel ==
  ASSUME NEW named
  PROVE  \E m \in 1 .. 5 :
            /\ G!finestLevel(named) = G!PLACE_TYPES[m]
            /\ \A i \in 1 .. (m - 1) : named[G!PLACE_TYPES[i]] = {}
            /\ (\E i \in 1 .. 5 : named[G!PLACE_TYPES[i]] # {}) => named[G!PLACE_TYPES[m]] # {}
<1> DEFINE I == {i \in 1 .. Len(G!PLACE_TYPES) : named[G!PLACE_TYPES[i]] # {}}
<1>1. G!finestLevel(named) = IF (IF I # {} THEN G!Min(I) ELSE 0) = 0 THEN "country"
                             ELSE G!PLACE_TYPES[IF I # {} THEN G!Min(I) ELSE 0]
  BY DEF G!finestLevel, G!SelectInSeq
<1>2. I = {i \in 1 .. 5 : named[G!PLACE_TYPES[i]] # {}}
  BY PlaceTypes
<1> HIDE DEF I
<1>3. CASE I = {}
  <2>1. G!finestLevel(named) = G!PLACE_TYPES[5]
    BY <1>1, <1>3, PlaceTypes
  <2> QED BY <1>2, <1>3, <2>1
<1>4. CASE I # {}
  <2>1. G!Min(I) \in I /\ \A j \in I : G!Min(I) <= j
    BY <1>2, <1>4, MinOfFive
  <2>2. G!Min(I) \in 1 .. 5 /\ G!Min(I) # 0
    BY <1>2, <2>1
  <2>3. G!finestLevel(named) = G!PLACE_TYPES[G!Min(I)]
    BY <1>1, <1>4, <2>2
  <2> DEFINE m == G!Min(I)
  <2> HIDE DEF m
  <2>4. m \in 1 .. 5 /\ m \in I /\ \A j \in I : m <= j
    BY <2>1, <2>2 DEF m
  <2>5. ASSUME NEW i \in 1 .. (m - 1) PROVE named[G!PLACE_TYPES[i]] = {}
    <3>1. i \in 1 .. 5 /\ ~(m <= i)
      BY <2>4
    <3> QED BY <1>2, <2>4, <3>1
  <2>6. named[G!PLACE_TYPES[m]] # {}
    BY <1>2, <2>4
  <2>7. G!finestLevel(named) = G!PLACE_TYPES[m]
    BY <2>3 DEF m
  <2> QED BY <2>4, <2>5, <2>6, <2>7
<1> QED BY <1>3, <1>4

LEMMA OwnLevel ==
  ASSUME NEW types PROVE G!resolveType(types) = {} \/ \E m \in 1 .. 5 : G!resolveType(types) = {G!PLACE_TYPES[m]}
<1> DEFINE I == {i \in 1 .. Len(G!PLACE_TYPES) : G!Range(G!CHAIN[G!PLACE_TYPES[i]]) \cap types # {}}
           n == IF I # {} THEN G!Min(I) ELSE 0
<1>1. G!resolveType(types) = IF n = 0 THEN {} ELSE {G!PLACE_TYPES[n]}
  BY DEF G!resolveType, G!SelectInSeq
<1>2. I \subseteq 1 .. 5
  BY PlaceTypes
<1>3. n \in 0 .. 5
  <2> HIDE DEF I
  <2>1. I # {} => G!Min(I) \in I
    BY <1>2, MinOfFive
  <2>2. CASE I = {}
    BY <2>2
  <2>3. CASE I # {}
    <3>1. n = G!Min(I) /\ G!Min(I) \in 1 .. 5
      BY <1>2, <2>1, <2>3
    <3> QED BY <3>1
  <2> QED BY <2>2, <2>3
<1> HIDE DEF n
<1> QED BY <1>1, <1>3

\* A label is one text.
LEMMA LabelIsOne ==
  ASSUME NEW candidates, NEW n \in 1 .. 5, Len(candidates) = n, \A i \in 1 .. n : IsOptional(candidates[i])
  PROVE  Cardinality(G!Label(candidates)) = 1
<1> DEFINE I == {i \in 1 .. Len(candidates) : candidates[i] # {}}
           k == IF I # {} THEN G!Min(I) ELSE 0
<1>1. G!Label(candidates) = IF k = 0 THEN {"address"} ELSE candidates[k]
  BY DEF G!Label, G!SelectInSeq
<1>2. I \subseteq 1 .. 5 /\ \A i \in I : i \in 1 .. n /\ candidates[i] # {}
  OBVIOUS
<1>3. k = 0 \/ k \in I
  <2> HIDE DEF I
  <2>1. I # {} => G!Min(I) \in I
    BY <1>2, MinOfFive
  <2> QED BY <2>1
<1> HIDE DEF k, I
<1>4. CASE k = 0
  BY <1>1, <1>4, FS_Singleton
<1>5. CASE k # 0
  <2>1. IsOptional(candidates[k]) /\ candidates[k] # {} /\ G!Label(candidates) = candidates[k]
    BY <1>1, <1>2, <1>3, <1>5
  <2> QED BY <2>1, OptionalCounts
<1> QED BY <1>4, <1>5

\* A place as the API describes it.
WellFormed(place) ==
    /\ place.type \in G!Range(G!PLACE_TYPES)
    /\ \A level \in DOMAIN G!CHAIN : Cardinality(place.levels[level]) <= 1
    /\ Cardinality(place.name) = 1

\* Its type is the finest level it names.
Finest(place) ==
    \E m \in 1 .. 5 :
        /\ place.type = G!PLACE_TYPES[m]
        /\ \A i \in 1 .. (m - 1) : place.levels[G!PLACE_TYPES[i]] = {}
        /\ (\E i \in 1 .. 5 : place.levels[G!PLACE_TYPES[i]] # {}) => place.levels[G!PLACE_TYPES[m]] # {}

LEMMA LevelsAreOptional ==
  ASSUME NEW components, NEW level \in DOMAIN G!CHAIN
  PROVE  IsOptional(G!levels(components)[level])
BY PickedOne DEF G!levels

LEMMA LevelsNamed == "locality" \in DOMAIN G!CHAIN /\ "city" \in DOMAIN G!CHAIN
BY DEF G!CHAIN

LEMMA DetailsMade ==
  ASSUME NEW id, NEW components, NEW place, place = G!fromPlaceDetails(id, components)
  PROVE  WellFormed(place) /\ Finest(place) /\ place.of = id
<1> DEFINE named == G!levels(components)
           label == <<{"displayName"}, named.locality, named.city>>
<1>1. /\ place.of = id /\ place.type = G!finestLevel(named) /\ place.levels = named
      /\ place.name = G!Label(label)
  BY DEF G!fromPlaceDetails
<1>2. \A level \in DOMAIN G!CHAIN : IsOptional(named[level])
  BY LevelsAreOptional
<1> HIDE DEF named
<1>3. IsOptional({"displayName"}) /\ IsOptional(named.locality) /\ IsOptional(named.city)
  <2>1. IsOptional({"displayName"})
    BY DEF IsOptional
  <2> QED BY <1>2, <2>1, LevelsNamed
<1>4. Len(label) = 3 /\ \A i \in 1 .. 3 : IsOptional(label[i])
  BY <1>3
<1> HIDE DEF label
<1>5. Cardinality(G!Label(label)) = 1
  BY <1>4, LabelIsOne
<1>6. \A level \in DOMAIN G!CHAIN : Cardinality(named[level]) <= 1
  BY <1>2, OptionalCounts
<1>7. PICK m \in 1 .. 5 :
         /\ G!finestLevel(named) = G!PLACE_TYPES[m]
         /\ \A i \in 1 .. (m - 1) : named[G!PLACE_TYPES[i]] = {}
         /\ (\E i \in 1 .. 5 : named[G!PLACE_TYPES[i]] # {}) => named[G!PLACE_TYPES[m]] # {}
  BY FinestLevel
<1>8. Finest(place)
  BY <1>1, <1>7 DEF Finest
<1>9. WellFormed(place)
  BY <1>1, <1>5, <1>6, <1>7, PlaceTypes DEF WellFormed
<1> QED BY <1>1, <1>8, <1>9

LEMMA GeocodeMade ==
  ASSUME NEW point, NEW types, NEW components, NEW place, place = G!fromGeocode(point, types, components)
  PROVE  WellFormed(place) /\ place.of = point
<1> DEFINE named == G!levels(components)
           own == G!resolveType(types)
           type == IF own = {} THEN G!finestLevel(named) ELSE CHOOSE t \in own : TRUE
           label == <<named.locality, named.city>>
<1>1. /\ place.of = point /\ place.type = type /\ place.levels = named /\ place.name = G!Label(label)
  BY DEF G!fromGeocode
<1>2. \A level \in DOMAIN G!CHAIN : IsOptional(named[level])
  BY LevelsAreOptional
<1> HIDE DEF named
<1>3. IsOptional(named.locality) /\ IsOptional(named.city)
  BY <1>2, LevelsNamed
<1>4. Len(label) = 2 /\ \A i \in 1 .. 2 : IsOptional(label[i])
  BY <1>3
<1> HIDE DEF label
<1>5. Cardinality(G!Label(label)) = 1
  BY <1>4, LabelIsOne
<1>6. \A level \in DOMAIN G!CHAIN : Cardinality(named[level]) <= 1
  BY <1>2, OptionalCounts
<1>7. \E m \in 1 .. 5 : type = G!PLACE_TYPES[m]
  <2>1. CASE own = {}
    <3>1. type = G!finestLevel(named)
      BY <2>1
    <3> QED BY <3>1, FinestLevel
  <2>2. CASE own # {}
    <3>1. PICK m \in 1 .. 5 : own = {G!PLACE_TYPES[m]}
      BY <2>2, OwnLevel
    <3>2. type = G!PLACE_TYPES[m]
      BY <2>2, <3>1
    <3> QED BY <3>2
  <2> QED BY <2>1, <2>2
<1> HIDE DEF type
<1>8. WellFormed(place)
  BY <1>1, <1>5, <1>6, <1>7, PlaceTypes DEF WellFormed
<1> QED BY <1>1, <1>8

\* Whether a place answers a lookup of a kind.
IsOf(kind, what, place) ==
    IF kind = "id" THEN place.of = what
    ELSE place.of \in Points /\ G!toFixed(place.of) = G!toFixed(what)

\* An entry of the cache is of its key.
EntryKnows(k) ==
    \A place \in cache[k] :
        /\ WellFormed(place)
        /\ k[1] = "id" => Finest(place) /\ place.of = k[2]
        /\ k[1] = "rev" => place.of \in Points /\ G!toFixed(place.of) = k[2]

LookFields == {"pc", "kind", "what", "found", "asked"}

LookKnows(r) ==
    /\ DOMAIN r = LookFields
    /\ r.kind \in {"id", "rev"} /\ r.asked \in BOOLEAN
    /\ r.pc # "idle" => (r.kind = "id" => r.what \in PlaceIds) /\ (r.kind = "rev" => r.what \in Points)
    /\ \A place \in r.found : WellFormed(place) /\ (r.kind = "id" => Finest(place)) /\ IsOf(r.kind, r.what, place)
    /\ r.pc = "store" => r.found # {}
    /\ r.pc = "done" /\ r.found = {} => r.asked

PlaceInv ==
    /\ DOMAIN cache = G!Keys /\ DOMAIN look = Lookups
    /\ \A k \in G!Keys : EntryKnows(k)
    /\ \A l \in Lookups : LookKnows(look[l])

LEMMA LookIdle == LookKnows(G!NoLookup) /\ G!NoLookup.pc = "idle" /\ G!NoLookup.found = {} /\ ~G!NoLookup.asked
BY DEF G!NoLookup, LookKnows, LookFields

\* The key of a lookup, and what an entry under it is of.
LEMMA KeyOf ==
  ASSUME NEW r, LookKnows(r), r.pc # "idle"
  PROVE  /\ G!Key(r) \in G!Keys
         /\ r.kind = "id" => G!Key(r)[1] = "id" /\ G!Key(r)[2] = r.what
         /\ r.kind = "rev" => G!Key(r)[1] = "rev" /\ G!Key(r)[2] = G!toFixed(r.what)
BY DEF LookKnows, G!Key, G!Keys

\* A step that leaves the cache alone.
LEMMA LookMoves ==
  ASSUME PlaceInv, NEW l \in Lookups, NEW r, LookKnows(r), look' = [look EXCEPT ![l] = r], UNCHANGED cache
  PROVE  PlaceInv'
<1>1. DOMAIN look' = Lookups /\ \A m \in Lookups : look'[m] = r \/ look'[m] = look[m]
  BY DEF PlaceInv
<1>2. \A m \in Lookups : LookKnows(look[m])'
  BY <1>1 DEF PlaceInv, LookKnows, IsOf
<1> QED BY <1>1, <1>2 DEF PlaceInv, EntryKnows

LEMMA StartStep ==
  ASSUME PlaceInv, NEW l \in Lookups, NEW kind \in {"id", "rev"}, NEW what,
         kind = "id" => what \in PlaceIds, kind = "rev" => what \in Points, G!Start(l, kind, what)
  PROVE  PlaceInv'
<1> DEFINE r == [G!NoLookup EXCEPT !.pc = "cache", !.kind = kind, !.what = what]
<1>1. look' = [look EXCEPT ![l] = r] /\ UNCHANGED cache
  BY DEF G!Start
<1>2. r.pc = "cache" /\ r.kind = kind /\ r.what = what /\ r.found = {}
  BY DEF G!NoLookup
<1>3. DOMAIN r = LookFields /\ r.asked = FALSE
  BY DEF G!NoLookup, LookFields
<1> HIDE DEF r
<1>4. LookKnows(r)
  BY <1>2, <1>3 DEF LookKnows
<1> QED BY <1>1, <1>4, LookMoves

LEMMA CacheGetStep ==
  ASSUME PlaceInv, NEW l \in Lookups, NEW broken \in BOOLEAN, G!CacheGet(l, broken) PROVE PlaceInv'
<1> DEFINE q == look[l]
           hit == IF broken THEN {} ELSE cache[G!Key(q)]
           pc == IF hit # {} THEN "done" ELSE "ask"
           r == [[q EXCEPT !.pc = pc] EXCEPT !.found = hit]
<1>1. q.pc = "cache" /\ LookKnows(q) /\ UNCHANGED cache
  BY DEF G!CacheGet, PlaceInv
<1>2. look' = [look EXCEPT ![l] = r]
  BY Zenon DEF G!CacheGet
<1>3. \A place \in hit : WellFormed(place) /\ (q.kind = "id" => Finest(place)) /\ IsOf(q.kind, q.what, place)
  <2>1. q.kind \in {"id", "rev"} /\ G!Key(q) \in G!Keys
    BY <1>1, KeyOf DEF LookKnows
  <2>2. EntryKnows(G!Key(q))
    BY <2>1 DEF PlaceInv
  <2> QED BY <1>1, <2>1, <2>2, KeyOf DEF EntryKnows, IsOf
<1>4. pc \in {"done", "ask"} /\ (pc = "done" => hit # {})
  OBVIOUS
<1> HIDE DEF hit, pc
<1>5. DOMAIN r = LookFields /\ r.pc = pc /\ r.found = hit /\ r.kind = q.kind /\ r.what = q.what /\ r.asked = q.asked
  BY <1>1 DEF LookKnows, LookFields
<1> HIDE DEF r, q
<1>6. LookKnows(r)
  BY <1>1, <1>3, <1>4, <1>5 DEF LookKnows
<1> QED BY <1>1, <1>2, <1>6, LookMoves

LEMMA AnsweredStep ==
  ASSUME PlaceInv, NEW l \in Lookups, NEW place, G!Answered(l, place), WellFormed(place),
         look[l].kind = "id" => Finest(place), place.of = look[l].what
  PROVE  PlaceInv'
<1> DEFINE q == look[l]
           r == [[[q EXCEPT !.pc = "store"] EXCEPT !.found = {place}] EXCEPT !.asked = TRUE]
<1>1. q.pc = "ask" /\ LookKnows(q) /\ UNCHANGED cache
  BY DEF G!Answered, PlaceInv
<1>2. look' = [look EXCEPT ![l] = r]
  BY Zenon DEF G!Answered
<1>3. /\ DOMAIN r = LookFields /\ r.pc = "store" /\ r.found = {place} /\ r.kind = q.kind /\ r.what = q.what
      /\ r.asked = TRUE
  BY <1>1 DEF LookKnows, LookFields
<1>4. IsOf(q.kind, q.what, place)
  BY <1>1 DEF LookKnows, IsOf
<1> HIDE DEF r
<1>5. LookKnows(r)
  BY <1>1, <1>3, <1>4 DEF LookKnows
<1> QED BY <1>1, <1>2, <1>5, LookMoves

LEMMA NoAnswerStep ==
  ASSUME PlaceInv, NEW l \in Lookups, G!NoAnswer(l) PROVE PlaceInv'
<1> DEFINE q == look[l]
           r == [[q EXCEPT !.pc = "done"] EXCEPT !.asked = TRUE]
<1>1. q.pc = "ask" /\ LookKnows(q) /\ UNCHANGED cache
  BY DEF G!NoAnswer, PlaceInv
<1>2. look' = [look EXCEPT ![l] = r]
  BY Zenon DEF G!NoAnswer
<1>3. DOMAIN r = LookFields /\ r.pc = "done" /\ r.found = q.found /\ r.kind = q.kind /\ r.what = q.what /\ r.asked = TRUE
  BY <1>1 DEF LookKnows, LookFields
<1> HIDE DEF r, q
<1>4. LookKnows(r)
  BY <1>1, <1>3 DEF LookKnows
<1> QED BY <1>1, <1>2, <1>4, LookMoves

LEMMA CacheSetStep ==
  ASSUME PlaceInv, NEW l \in Lookups, NEW broken \in BOOLEAN, G!CacheSet(l, broken) PROVE PlaceInv'
<1> DEFINE q == look[l]
           r == [q EXCEPT !.pc = "done"]
<1>1. /\ q.pc = "store" /\ LookKnows(q)
      /\ cache' = cache \/ cache' = [cache EXCEPT ![G!Key(q)] = q.found]
      /\ look' = [look EXCEPT ![l].pc = "done"]
  BY DEF G!CacheSet, PlaceInv
<1>2. look' = [look EXCEPT ![l] = r]
  BY <1>1, Zenon
<1>3. DOMAIN r = LookFields /\ r.pc = "done" /\ r.found = q.found /\ r.kind = q.kind /\ r.what = q.what /\ r.asked = q.asked
  BY <1>1 DEF LookKnows, LookFields
<1>4. q.kind \in {"id", "rev"} /\ q.found # {}
  BY <1>1 DEF LookKnows
<1> HIDE DEF r, q
<1>5. LookKnows(r)
  BY <1>1, <1>3, <1>4 DEF LookKnows
<1>6. \A m \in Lookups : LookKnows(look[m])'
  <2>1. \A m \in Lookups : look'[m] = r \/ look'[m] = look[m]
    BY <1>2 DEF PlaceInv
  <2> QED BY <1>5, <2>1 DEF PlaceInv, LookKnows, IsOf
<1>7. DOMAIN cache' = G!Keys /\ \A k \in G!Keys : cache'[k] = cache[k] \/ (k = G!Key(q) /\ cache'[k] = q.found)
  BY <1>1 DEF PlaceInv
<1>8. \A place \in q.found :
         /\ WellFormed(place)
         /\ G!Key(q)[1] = "id" => Finest(place) /\ place.of = G!Key(q)[2]
         /\ G!Key(q)[1] = "rev" => place.of \in Points /\ G!toFixed(place.of) = G!Key(q)[2]
  BY <1>1, <1>4, KeyOf DEF LookKnows, IsOf
<1>9. \A k \in G!Keys : EntryKnows(k)'
  BY <1>7, <1>8 DEF PlaceInv, EntryKnows
<1>10. DOMAIN look' = Lookups
  BY <1>2 DEF PlaceInv
<1> QED BY <1>6, <1>7, <1>9, <1>10 DEF PlaceInv

LEMMA PlaceInductive == ASSUME PlaceInv, [G!Next]_(G!vars) PROVE PlaceInv'
<1>1. ASSUME NEW l \in Lookups, NEW id \in PlaceIds, G!Details(l, id) PROVE PlaceInv'
  BY <1>1, StartStep DEF G!Details
<1>2. ASSUME NEW l \in Lookups, NEW point \in Points, G!ReverseLookup(l, point) PROVE PlaceInv'
  BY <1>2, StartStep DEF G!ReverseLookup
<1>3. ASSUME NEW l \in Lookups, NEW components \in Answers, G!PlaceDetails(l, components) PROVE PlaceInv'
  BY <1>3, DetailsMade, AnsweredStep DEF G!PlaceDetails
<1>4. ASSUME NEW l \in Lookups, NEW types \in Kinds, NEW components \in Answers, G!ReverseGeocode(l, types, components)
      PROVE  PlaceInv'
  <2> DEFINE place == G!fromGeocode(look[l].what, types, components)
  <2>1. WellFormed(place) /\ place.of = look[l].what
    BY GeocodeMade
  <2>2. look[l].kind = "rev" /\ G!Answered(l, place)
    BY <1>4 DEF G!ReverseGeocode
  <2> HIDE DEF place
  <2> QED BY <2>1, <2>2, AnsweredStep
<1>5. ASSUME NEW l \in Lookups, G!Reply(l) PROVE PlaceInv'
  BY <1>5, LookIdle, LookMoves DEF G!Reply
<1>6. ASSUME NEW k \in G!Keys, G!Expire(k) PROVE PlaceInv'
  <2>1. DOMAIN cache' = G!Keys /\ \A j \in G!Keys : cache'[j] = cache[j] \/ cache'[j] = {}
    BY <1>6 DEF G!Expire, PlaceInv
  <2>2. \A j \in G!Keys : EntryKnows(j)'
    BY <2>1 DEF PlaceInv, EntryKnows
  <2> QED BY <1>6, <2>1, <2>2 DEF G!Expire, PlaceInv, LookKnows, IsOf
<1>7. CASE UNCHANGED G!vars
  BY <1>7 DEF G!vars, PlaceInv, EntryKnows, LookKnows, IsOf
<1> QED BY <1>1, <1>2, <1>3, <1>4, <1>5, <1>6, <1>7, CacheGetStep, CacheSetStep, NoAnswerStep DEF G!Next

\* The type of a place names one place in the order of levels.
LEMMA FinestIsFinest ==
  ASSUME NEW place, Finest(place)
  PROVE  LET at == CHOOSE i \in 1..5 : G!PLACE_TYPES[i] = place.type
         IN  /\ \A i \in 1..(at - 1) : place.levels[G!PLACE_TYPES[i]] = {}
             /\ (\E i \in 1..5 : place.levels[G!PLACE_TYPES[i]] # {}) => place.levels[place.type] # {}
<1>1. PICK m \in 1 .. 5 :
         /\ place.type = G!PLACE_TYPES[m]
         /\ \A i \in 1 .. (m - 1) : place.levels[G!PLACE_TYPES[i]] = {}
         /\ (\E i \in 1 .. 5 : place.levels[G!PLACE_TYPES[i]] # {}) => place.levels[G!PLACE_TYPES[m]] # {}
  BY DEF Finest
<1> DEFINE at == CHOOSE i \in 1..5 : G!PLACE_TYPES[i] = place.type
<1>2. at = m
  BY <1>1, PlaceTypes
<1> HIDE DEF at
<1>3. /\ \A i \in 1..(at - 1) : place.levels[G!PLACE_TYPES[i]] = {}
      /\ (\E i \in 1..5 : place.levels[G!PLACE_TYPES[i]] # {}) => place.levels[place.type] # {}
  BY <1>1, <1>2
<1> QED BY <1>3 DEF at

LEMMA PlaceSays ==
  ASSUME G!PlacesAssumption, PlaceInv
  PROVE  G!TypeOK /\ G!AnswerIsOfThePlace /\ G!OnlyGoogleRefuses /\ G!TypeIsFinest
<1>1. G!TypeOK
  <2>1. ASSUME NEW x PROVE G!Cardinality(x) = Cardinality(x)
    BY DEF G!Cardinality, Cardinality
  <2> QED BY <2>1 DEF PlaceInv, EntryKnows, WellFormed, G!TypeOK
<1>2. ASSUME NEW l \in Lookups, look[l].pc = "done", NEW place \in look[l].found
      PROVE  IF look[l].kind = "id" THEN place.of = look[l].what ELSE place.of - look[l].what \in -9..9
  <2>1. LookKnows(look[l])
    BY DEF PlaceInv
  <2>2. CASE look[l].kind = "id"
    BY <2>1, <2>2 DEF LookKnows, IsOf
  <2>3. CASE look[l].kind # "id"
    <3>1. /\ place.of \in Nat /\ look[l].what \in Nat
          /\ (place.of + 5) \div 10 = (look[l].what + 5) \div 10
      BY <1>2, <2>1, <2>3 DEF LookKnows, IsOf, G!PlacesAssumption, G!toFixed
    <3>2. \A x, y \in Nat : (x + 5) \div 10 = (y + 5) \div 10 => x - y \in -9..9
      OBVIOUS
    <3> QED BY <2>3, <3>1, <3>2
  <2> QED BY <2>2, <2>3
<1>3. G!OnlyGoogleRefuses
  BY DEF PlaceInv, LookKnows, G!OnlyGoogleRefuses
<1>4. ASSUME NEW k \in G!Keys, k[1] = "id", NEW place \in cache[k] PROVE Finest(place)
  BY <1>4 DEF PlaceInv, EntryKnows
<1>5. G!TypeIsFinest
  BY <1>4, FinestIsFinest DEF G!TypeIsFinest
<1> QED BY <1>1, <1>2, <1>3, <1>5 DEF G!AnswerIsOfThePlace

\* A place returned is the one asked for, or one within the rounding of the
\* coordinates, whoever filled the cache, and a request fails only after Google
\* gave no answer, for any set of ids, points and answers.
LEMMA PlacesHold == ASSUME G!PlacesAssumption PROVE G!Spec => []PlaceIsTheOneAsked
<1>1. G!Init => PlaceInv
  BY LookIdle DEF G!Init, PlaceInv, EntryKnows
<1>2. PlaceInv /\ [G!Next]_(G!vars) => PlaceInv'
  BY PlaceInductive
<1>3. PlaceInv => PlaceIsTheOneAsked
  BY PlaceSays DEF PlaceIsTheOneAsked
<1> QED BY <1>1, <1>2, <1>3, PTL DEF G!Spec

(***************************************************************************)
(* Service areas                                                           *)
(***************************************************************************)

\* One request at a time edits areas.
OneEditOfAreas == \A a, b \in AreaSlots : a = b

AreaRow == [place : S!Place, setting : Settings, centre : S!Centre]
AreaReq == [pc : {"idle", "geocode", "save"}, id : Areas \cup {None}, dto : S!UpdateLocationDto,
            place : SUBSET S!Place, centre : S!Centre]

\* The place the row of r will have once r is saved, of a row stored now.
WillBeOf(r, p) ==
    IF area[r.id] = {} THEN r.place = {p} /\ r.dto.setting # {}
    ELSE \A row \in area[r.id] : p = S!PlaceOf(r.dto, row.place)

\* What a request is about to save: fields of a form, and the centre of the
\* place that is stored with it.
AreaKnows(r) ==
    r.pc # "idle" =>
        /\ r.id \in Areas
        /\ r.pc = "geocode" => \E p \in S!Place : r.place = {p} /\ WillBeOf(r, p)
        /\ r.pc # "geocode" => \E p \in S!Place : WillBeOf(r, p) /\ r.centre \in {p, None}

AreaInv ==
    /\ area \in [Areas -> SUBSET AreaRow]
    /\ \A l \in Areas : \A row, other \in area[l] : row = other
    /\ S!CentreIsOfThePlace
    /\ areaReq \in [AreaSlots -> AreaReq]
    /\ \A a \in AreaSlots : AreaKnows(areaReq[a])

LEMMA FieldOfArea ==
  ASSUME NEW set, NEW field \in S!Optional(set), NEW default
  PROVE  \/ field = {} /\ S!Given(field, default) = default
         \/ field # {} /\ S!Given(field, default) \in set /\ field = {S!Given(field, default)}
                       /\ \A other : S!Given(field, other) = S!Given(field, default)
BY DEF S!Optional, S!Given

LEMMA AreaIdle == S!IdleRequest \in AreaReq /\ S!IdleRequest.pc = "idle"
BY DEF S!IdleRequest, AreaReq, S!Nothing, S!UpdateLocationDto, S!Optional, S!Centre

LEMMA PlaceOfArea ==
  ASSUME NEW dto \in S!UpdateLocationDto, NEW base \in S!Place
  PROVE  S!PlaceOf(dto, base) \in S!Place
BY FieldOfArea DEF S!UpdateLocationDto, S!PlaceOf, S!Place

\* A full form says what the place is.
LEMMA FullForm ==
  ASSUME NEW dto \in S!CreateLocationDto
  PROVE  /\ dto \in S!UpdateLocationDto /\ dto.setting # {}
         /\ [name |-> S!Given(dto.name, ""), pincode |-> S!Given(dto.pincode, "")] \in S!Place
<1>1. /\ dto.name \in S!Optional(Names) \ {{}} /\ dto.pincode \in S!Optional(Pincodes) \ {{}}
      /\ dto.setting \in S!Optional(Settings) \ {{}} /\ dto \in S!UpdateLocationDto
  BY DEF S!CreateLocationDto, S!UpdateLocationDto
<1>2. S!Given(dto.name, "") \in Names /\ S!Given(dto.pincode, "") \in Pincodes
  BY <1>1, FieldOfArea
<1> QED BY <1>1, <1>2 DEF S!Place

\* A step of the only request that writes no row.
LEMMA AreaMoves ==
  ASSUME AreaInv, OneEditOfAreas, NEW a \in AreaSlots, NEW r \in AreaReq, AreaKnows(r), areaReq' = [areaReq EXCEPT ![a] = r],
         UNCHANGED area
  PROVE  AreaInv'
<1>1. areaReq'[a] = r /\ areaReq' \in [AreaSlots -> AreaReq] /\ AreaSlots = {a}
  BY DEF AreaInv, OneEditOfAreas
<1> QED BY <1>1 DEF AreaInv, AreaKnows, WillBeOf, S!CentreIsOfThePlace

LEMMA CreateLocationStep ==
  ASSUME AreaInv, OneEditOfAreas, NEW a \in AreaSlots, NEW l \in Areas, NEW dto \in S!CreateLocationDto,
         S!CreateLocation(a, l, dto)
  PROVE  AreaInv'
<1> DEFINE p == [name |-> S!Given(dto.name, ""), pincode |-> S!Given(dto.pincode, "")]
           r == [S!IdleRequest EXCEPT !.pc = "geocode", !.id = l, !.dto = dto, !.place = {p}]
<1>1. areaReq' = [areaReq EXCEPT ![a] = r] /\ UNCHANGED area /\ area[l] = {}
  BY DEF S!CreateLocation
<1>2. p \in S!Place /\ dto \in S!UpdateLocationDto /\ dto.setting # {}
  BY FullForm
<1>3. r \in AreaReq /\ r.pc = "geocode" /\ r.id = l /\ r.dto = dto /\ r.place = {p}
  BY <1>2, AreaIdle DEF AreaReq
<1> HIDE DEF p, r
<1>4. AreaKnows(r)
  BY <1>1, <1>2, <1>3 DEF AreaKnows, WillBeOf
<1> QED BY <1>1, <1>3, <1>4, AreaMoves

LEMMA UpdateLocationStep ==
  ASSUME AreaInv, OneEditOfAreas, NEW a \in AreaSlots, NEW l \in Areas, NEW dto \in S!UpdateLocationDto,
         S!UpdateLocation(a, l, dto)
  PROVE  AreaInv'
<1>1. PICK current \in area[l] :
         areaReq' = [areaReq EXCEPT ![a] =
                    IF S!Moved(dto, current) \/ current.centre = None
                    THEN [S!IdleRequest EXCEPT !.pc = "geocode", !.id = l, !.dto = dto, !.place = {S!PlaceOf(dto, current.place)}]
                    ELSE [S!IdleRequest EXCEPT !.pc = "save", !.id = l, !.dto = dto, !.centre = current.centre]]
  BY DEF S!UpdateLocation
<1> DEFINE p == S!PlaceOf(dto, current.place)
           asks == [S!IdleRequest EXCEPT !.pc = "geocode", !.id = l, !.dto = dto, !.place = {p}]
           saves == [S!IdleRequest EXCEPT !.pc = "save", !.id = l, !.dto = dto, !.centre = current.centre]
<1>2. p \in S!Place /\ current \in AreaRow /\ area[l] = {current} /\ current.centre \in {current.place, None}
  BY PlaceOfArea DEF AreaInv, AreaRow, S!CentreIsOfThePlace
<1>3. asks \in AreaReq /\ asks.pc = "geocode" /\ asks.id = l /\ asks.dto = dto /\ asks.place = {p}
  BY <1>2, AreaIdle DEF AreaReq
<1>4. saves \in AreaReq /\ saves.pc = "save" /\ saves.id = l /\ saves.dto = dto /\ saves.centre = current.centre
  BY <1>2, AreaIdle DEF AreaReq, AreaRow
<1>5. UNCHANGED area /\ (areaReq' = [areaReq EXCEPT ![a] = asks] \/ (p = current.place /\ areaReq' = [areaReq EXCEPT ![a] = saves]))
  BY <1>1 DEF S!UpdateLocation, S!Moved
<1>6. \A row \in area[l] : p = S!PlaceOf(dto, row.place)
  BY <1>2
<1> HIDE DEF p, asks, saves
<1>7. AreaKnows(asks)
  BY <1>2, <1>3, <1>6 DEF AreaKnows, WillBeOf
<1>8. p = current.place => AreaKnows(saves)
  BY <1>2, <1>4, <1>6 DEF AreaKnows, WillBeOf
<1> QED BY <1>3, <1>4, <1>5, <1>7, <1>8, AreaMoves

LEMMA GeocodeStep ==
  ASSUME AreaInv, OneEditOfAreas, NEW a \in AreaSlots, NEW found \in BOOLEAN, S!Geocode(a, found)
  PROVE  AreaInv'
<1> DEFINE q == areaReq[a]
           c == IF found THEN CHOOSE p \in q.place : TRUE ELSE None
           r == [q EXCEPT !.pc = "save", !.centre = c]
<1>1. UNCHANGED area /\ q.pc = "geocode" /\ AreaKnows(q) /\ q \in AreaReq
  BY DEF AreaInv, S!Geocode
<1>2. areaReq' = [areaReq EXCEPT ![a] = r]
  <2>1. areaReq' = [areaReq EXCEPT ![a].pc = "save", ![a].centre = c]
    BY DEF S!Geocode
  <2> HIDE DEF c
  <2>2. areaReq' = [areaReq EXCEPT ![a] = [[q EXCEPT !.pc = "save"] EXCEPT !.centre = c]]
    BY <2>1, Zenon DEF AreaInv
  <2> QED BY <1>1, <2>2 DEF AreaReq
<1>3. PICK p \in S!Place : q.place = {p} /\ WillBeOf(q, p)
  BY <1>1 DEF AreaKnows
<1>4. r \in AreaReq /\ r.id = q.id /\ r.dto = q.dto /\ r.pc = "save" /\ r.centre \in {p, None} /\ r.place = q.place
  BY <1>1, <1>3 DEF AreaReq, S!Centre
<1> HIDE DEF r
<1>5. WillBeOf(r, p)
  BY <1>3, <1>4 DEF WillBeOf
<1>6. AreaKnows(r)
  BY <1>1, <1>4, <1>5 DEF AreaKnows
<1> QED BY <1>1, <1>2, <1>4, <1>6, AreaMoves

\* A save stores a place and a centre of it, or null.
LEMMA SaveAreaStep ==
  ASSUME S!AreasAssumption, AreaInv, OneEditOfAreas, NEW a \in AreaSlots, S!Save(a)
  PROVE  AreaInv'
<1> DEFINE r == areaReq[a]
           edited(row) == [place |-> S!PlaceOf(r.dto, row.place), setting |-> S!Given(r.dto.setting, row.setting),
                           centre |-> r.centre]
           made == [place |-> CHOOSE p \in r.place : TRUE, setting |-> S!Given(r.dto.setting, ""), centre |-> r.centre]
           rows == IF area[r.id] = {} THEN {made} ELSE {edited(row) : row \in area[r.id]}
<1>1. r \in AreaReq /\ r.id \in Areas /\ r.pc = "save" /\ AreaKnows(r)
  BY DEF AreaInv, AreaKnows, S!Save
<1>2. area' = [area EXCEPT ![r.id] = rows] /\ areaReq' = [areaReq EXCEPT ![a] = S!IdleRequest]
  BY <1>1 DEF S!Save, AreaInv
<1>3. PICK p \in S!Place : WillBeOf(r, p) /\ r.centre \in {p, None}
  BY <1>1 DEF AreaKnows
<1>4. r.dto.setting \in S!Optional(Settings) /\ r.centre \in S!Centre
  BY <1>1 DEF AreaReq, S!UpdateLocationDto
<1>5. PICK x \in AreaRow : rows = {x} /\ x.place = p /\ x.centre = r.centre
  <2>1. CASE area[r.id] = {}
    <3>1. r.place = {p} /\ r.dto.setting # {}
      BY <1>3, <2>1 DEF WillBeOf
    <3>2. S!Given(r.dto.setting, "") \in Settings /\ (CHOOSE z \in r.place : TRUE) = p
      BY <1>4, <3>1, FieldOfArea
    <3>3. made \in AreaRow /\ made.place = p /\ made.centre = r.centre
      BY <1>4, <3>2 DEF AreaRow
    <3> QED BY <2>1, <3>3
  <2>2. CASE area[r.id] # {}
    <3>1. PICK row \in area[r.id] : area[r.id] = {row}
      BY <1>1, <2>2 DEF AreaInv
    <3>2. row \in AreaRow /\ p = S!PlaceOf(r.dto, row.place)
      BY <1>1, <1>3, <2>2 DEF WillBeOf, AreaInv
    <3>3. S!Given(r.dto.setting, row.setting) \in Settings
      BY <1>4, <3>2, FieldOfArea DEF AreaRow
    <3>4. edited(row) \in AreaRow /\ edited(row).place = p /\ edited(row).centre = r.centre
      BY <1>4, <3>2, <3>3 DEF AreaRow
    <3> QED BY <2>2, <3>1, <3>4
  <2> QED BY <2>1, <2>2
<1> HIDE DEF r, rows
<1>6. area' \in [Areas -> SUBSET AreaRow] /\ area'[r.id] = {x} /\ \A l \in Areas \ {r.id} : area'[l] = area[l]
  BY <1>1, <1>2, <1>5 DEF AreaInv
<1>7. S!CentreIsOfThePlace'
  BY <1>3, <1>5, <1>6 DEF AreaInv, S!CentreIsOfThePlace
<1>8. \A l \in Areas : \A row, other \in area'[l] : row = other
  BY <1>6 DEF AreaInv
<1>9. areaReq' \in [AreaSlots -> AreaReq] /\ areaReq'[a].pc = "idle" /\ AreaSlots = {a}
  BY <1>2, AreaIdle DEF AreaInv, OneEditOfAreas
<1> QED BY <1>6, <1>7, <1>8, <1>9 DEF AreaInv, AreaKnows

LEMMA AreaInductive ==
  ASSUME S!AreasAssumption, OneEditOfAreas, AreaInv, [S!Next]_(S!vars) PROVE AreaInv'
<1>1. ASSUME NEW a \in AreaSlots, S!Abort(a) PROVE AreaInv'
  <2>1. AreaKnows(S!IdleRequest)
    BY AreaIdle DEF AreaKnows
  <2> QED BY <1>1, <2>1, AreaIdle, AreaMoves DEF S!Abort
<1>2. CASE UNCHANGED S!vars
  BY <1>2 DEF S!vars, AreaInv, AreaKnows, WillBeOf, S!CentreIsOfThePlace
<1> QED BY <1>1, <1>2, CreateLocationStep, UpdateLocationStep, GeocodeStep, SaveAreaStep DEF S!Next, S!AreaStep

\* "Centre of the area, geocoded when the admin saves it.  Null when that
\* failed" (AdminCatalogService.createLocation, updateLocation): with one edit
\* at a time, through geocoding that fails and requests that die, the centre
\* stored is of the place stored, or null.
LEMMA AreasHold == ASSUME S!AreasAssumption, OneEditOfAreas PROVE S!Spec => []CentreIsOfThePlace
<1>1. S!Init => AreaInv
  BY AreaIdle DEF S!Init, AreaInv, AreaKnows, S!CentreIsOfThePlace
<1>2. AreaInv /\ [S!Next]_(S!vars) => AreaInv'
  BY AreaInductive
<1>3. AreaInv => CentreIsOfThePlace
  BY DEF AreaInv, CentreIsOfThePlace, S!TypeOK, AreaRow
<1> QED BY <1>1, <1>2, <1>3, PTL DEF S!Spec

(***************************************************************************)
(* Promo codes                                                             *)
(***************************************************************************)

\* One request at a time edits promo codes.
OneAdmin == \A a, b \in Admins : a = b

\* What an edit that switches a code on was checked for still holds: nobody
\* else changes the date.
PromoInv ==
    /\ DOMAIN promo = Promos
    /\ \A p \in Promos : \A row, other \in promo[p] : row = other
    /\ \A a \in Admins : promoReq[a].pc = "update" =>
          /\ promoReq[a].id \in Promos
          /\ promoReq[a].validTill \in P!Optional(P!Days)
          /\ \A date \in promoReq[a].validTill : date >= promoReq[a].day
          /\ promoReq[a].active = {TRUE} /\ promoReq[a].validTill = {} =>
                \A row \in promo[promoReq[a].id] : row.validTill >= promoReq[a].day
    /\ DOMAIN promoReq = Admins

LEMMA GivenDate ==
  ASSUME NEW dates \in P!Optional(P!Days), NEW default
  PROVE  IF dates = {} THEN P!Given(dates, default) = default ELSE P!Given(dates, default) \in dates
BY DEF P!Optional, P!Given

LEMMA GotoPromo ==
  ASSUME PromoInv, OneAdmin, NEW a \in Admins, NEW pc, NEW id, NEW dto, P!Goto(a, pc, id, dto)
  PROVE  /\ Admins = {a} /\ DOMAIN promoReq' = Admins /\ promoReq'[a].pc = pc /\ promoReq'[a].id = id
         /\ promoReq'[a].validTill = dto.validTill /\ promoReq'[a].active = dto.active /\ promoReq'[a].day = today
BY DEF PromoInv, OneAdmin, P!Goto

LEMMA PromoIdle ==
  ASSUME PromoInv, OneAdmin, NEW a \in Admins, promoReq' = [promoReq EXCEPT ![a] = P!IdleRequest], DOMAIN promo' = Promos,
         \A p \in Promos : \A row, other \in promo'[p] : row = other
  PROVE  PromoInv'
BY DEF PromoInv, OneAdmin, P!IdleRequest

LEMMA PromoInductive ==
  ASSUME OneAdmin, PromoInv, [P!Next]_(P!vars) PROVE PromoInv'
<1>1. ASSUME NEW a \in Admins, NEW dto \in P!CreatePromoCodeDto, P!CreatePromoCode(a, dto) PROVE PromoInv'
  <2>1. P!Goto(a, "insert", None, dto) /\ promo' = promo
    BY <1>1 DEF P!CreatePromoCode
  <2>2. Admins = {a} /\ DOMAIN promoReq' = Admins /\ promoReq'[a].pc = "insert"
    BY <2>1, GotoPromo
  <2> QED BY <2>1, <2>2 DEF PromoInv
<1>2. ASSUME NEW a \in Admins, NEW p \in Promos, NEW dto \in P!UpdatePromoCodeDto, P!UpdatePromoCode(a, p, dto)
      PROVE  PromoInv'
  <2>1. P!Goto(a, "update", p, dto) /\ promo' = promo
    BY <1>2 DEF P!UpdatePromoCode
  <2>2. /\ Admins = {a} /\ DOMAIN promoReq' = Admins /\ promoReq'[a].id = p
        /\ promoReq'[a].validTill = dto.validTill /\ promoReq'[a].active = dto.active /\ promoReq'[a].day = today
    BY <2>1, GotoPromo
  <2>3. dto.validTill \in P!Optional(P!Days) /\ \A date \in dto.validTill : date >= today
    BY <1>2 DEF P!UpdatePromoCodeDto, P!UpdatePromoCode, P!CheckValidTill
  <2>4. dto.active = {TRUE} /\ dto.validTill = {} => \A row \in promo[p] : row.validTill >= today
    BY <1>2 DEF P!UpdatePromoCode, P!CanSwitchOn, PromoInv
  <2> QED BY <2>1, <2>2, <2>3, <2>4 DEF PromoInv
<1>3. ASSUME NEW a \in Admins, P!InsertPromoCode(a) PROVE PromoInv'
  <2>1. promoReq' = [promoReq EXCEPT ![a] = P!IdleRequest] /\ DOMAIN promo' = Promos
    BY <1>3 DEF P!InsertPromoCode, PromoInv
  <2>2. \A p \in Promos : \A row, other \in promo'[p] : row = other
    <3>1. promo' = promo \/ \E p \in Promos : \E row : promo' = [promo EXCEPT ![p] = {row}]
      BY <1>3 DEF P!InsertPromoCode
    <3> QED BY <3>1 DEF PromoInv
  <2> QED BY <2>1, <2>2, PromoIdle
<1>4. ASSUME NEW a \in Admins, P!SavePromoCode(a) PROVE PromoInv'
  <2>1. promoReq' = [promoReq EXCEPT ![a] = P!IdleRequest] /\ DOMAIN promo' = Promos
    BY <1>4 DEF P!SavePromoCode, PromoInv
  <2>2. \A p \in Promos : \A row, other \in promo'[p] : row = other
    BY <1>4 DEF P!SavePromoCode, PromoInv
  <2> QED BY <2>1, <2>2, PromoIdle
<1>5. ASSUME NEW p \in Promos, P!DeletePromoCode(p) PROVE PromoInv'
  BY <1>5 DEF P!DeletePromoCode, PromoInv
<1>6. CASE P!Midnight
  BY <1>6 DEF P!Midnight, PromoInv
<1>7. CASE UNCHANGED P!vars
  BY <1>7 DEF P!vars, PromoInv
<1> QED BY <1>1, <1>2, <1>3, <1>4, <1>5, <1>6, <1>7 DEF P!Next, P!PromoStep

\* The write of an edit: the date it keeps or gives is not over on the day it
\* was checked.
LEMMA SwitchesOn ==
  ASSUME PromoInv, NEW a \in Admins, P!SavePromoCode(a), promoReq[a].active = {TRUE},
         promo'[promoReq[a].id] # promo[promoReq[a].id], NEW new \in promo'[promoReq[a].id]
  PROVE  new.validTill >= promoReq[a].day
<1> DEFINE r == promoReq[a]
           saved(row) == [code |-> P!Given(r.code, row.code), validTill |-> P!Given(r.validTill, row.validTill),
                          active |-> P!Given(r.active, row.active)]
<1>1. /\ r.id \in Promos /\ r.validTill \in P!Optional(P!Days) /\ \A date \in r.validTill : date >= r.day
      /\ r.validTill = {} => \A row \in promo[r.id] : row.validTill >= r.day
  BY DEF PromoInv, P!SavePromoCode
<1>2. promo' = [promo EXCEPT ![r.id] = {saved(row) : row \in @}]
  BY DEF P!SavePromoCode
<1>3. PICK row \in promo[r.id] : new = saved(row)
  BY <1>1, <1>2 DEF PromoInv
<1>4. new.validTill = P!Given(r.validTill, row.validTill)
  BY <1>3
<1> HIDE DEF r, saved
<1>5. IF r.validTill = {} THEN new.validTill = row.validTill ELSE new.validTill \in r.validTill
  BY <1>1, <1>4, GivenDate
<1>6. new.validTill >= r.day
  BY <1>1, <1>5
<1> QED BY <1>6 DEF r

\* Only the write of an edit ends one.
LEMMA EndsByWriting ==
  ASSUME OneAdmin, PromoInv, [P!Next]_(P!vars), NEW a \in Admins, promoReq[a].pc = "update", promoReq'[a].pc = "idle"
  PROVE  P!SavePromoCode(a) \/ promo' = promo \/ \E p \in Promos : P!DeletePromoCode(p)
<1>1. ASSUME NEW b \in Admins, P!PromoStep(b) PROVE P!SavePromoCode(a)
  <2>1. b = a
    BY DEF OneAdmin
  <2> QED BY <1>1, <2>1 DEF P!PromoStep, P!CreatePromoCode, P!UpdatePromoCode, P!InsertPromoCode
<1>2. CASE P!Midnight \/ UNCHANGED P!vars
  BY <1>2 DEF P!Midnight, P!vars
<1> QED BY <1>1, <1>2 DEF P!Next

LEMMA SwitchesOnlyValid ==
  ASSUME OneAdmin, PromoInv, [P!Next]_(P!vars), NEW a \in Admins, promoReq[a].pc = "update", promoReq'[a].pc = "idle",
         promoReq[a].active = {TRUE}, NEW new \in promo'[promoReq[a].id], promo'[promoReq[a].id] # promo[promoReq[a].id]
  PROVE  new.validTill >= promoReq[a].day
<1>1. promoReq[a].id \in Promos
  BY DEF PromoInv
<1>2. ~\E p \in Promos : P!DeletePromoCode(p)
  BY <1>1 DEF P!DeletePromoCode
<1> QED BY <1>2, EndsByWriting, SwitchesOn

\* "Switching an expired code back on returns 409"
\* (AdminCatalogService.updatePromoCode): with one admin at a time, through
\* days that pass and codes deleted meanwhile, an edit never switches on a code
\* that had expired on the day it was checked.
LEMMA PromosHold == ASSUME OneAdmin PROVE P!Spec => SwitchedOnIsValid
<1> DEFINE Valid == \A a \in Admins : promoReq[a].pc = "update" /\ promoReq'[a].pc = "idle" /\ promoReq[a].active = {TRUE} =>
                       \A row \in promo'[promoReq[a].id] : promo'[promoReq[a].id] # promo[promoReq[a].id]
                                                          => row.validTill >= promoReq[a].day
<1>1. P!Init => PromoInv
  <2> SUFFICES ASSUME P!Init PROVE PromoInv
    OBVIOUS
  <2>1. \A a \in Admins : promoReq[a].pc = "idle"
    BY DEF P!Init, P!IdleRequest
  <2> QED BY <2>1 DEF P!Init, PromoInv
<1>2. PromoInv /\ [P!Next]_(P!vars) => [Valid]_(P!vars)
  BY SwitchesOnlyValid
<1>3. PromoInv /\ [P!Next]_(P!vars) => PromoInv'
  BY PromoInductive
<1> QED BY <1>1, <1>2, <1>3, PTL DEF P!Spec, SwitchedOnIsValid, P!SwitchedOnIsValid, Valid

(***************************************************************************)
(* The provider panel                                                      *)
(***************************************************************************)

ProfileRow == [application : Applications \cup {None}, status : V!ProviderStatus, isAvailable : BOOLEAN]
PanelReq == [pc : {"idle", "fill", "create", "refused", "duty", "decide"}, user : Sellers \cup {None},
             application : Applications \cup {None}, duty : SUBSET BOOLEAN, decision : V!ProviderStatus]

\* What a request read of a profile still holds: profiles are never removed.
PanelKnows(r) ==
    /\ r.pc # "idle" => r.user \in Sellers
    /\ r.pc \in {"fill", "duty", "decide"} => V!HasProfile(r.user)
    /\ r.pc = "fill" => r.application \in Applications

\* A seller without a profile was told nothing and set nothing.
NothingWithoutProfile(s) == V!HasProfile(s) \/ (applied[s] = {} /\ ~duty[s])

PanelInv ==
    /\ profile \in [Sellers -> SUBSET ProfileRow]
    /\ panelReq \in [PanelSlots -> PanelReq]
    /\ applied \in [Sellers -> SUBSET Applications]
    /\ duty \in [Sellers -> BOOLEAN]
    /\ \A a \in PanelSlots : PanelKnows(panelReq[a])
    /\ \A s \in Sellers : NothingWithoutProfile(s)
    /\ V!ApplicationIsKept
    /\ V!DutyIsAsSet

LEMMA PanelIdle == V!IdleRequest \in PanelReq /\ V!IdleRequest.pc = "idle" /\ PanelKnows(V!IdleRequest)
BY DEF V!IdleRequest, PanelReq, PanelKnows, V!ProviderStatus

LEMMA PanelRow ==
  ASSUME PanelInv, NEW a \in PanelSlots
  PROVE  panelReq[a] \in PanelReq /\ PanelKnows(panelReq[a])
BY DEF PanelInv

\* A step that only moves its request.
LEMMA PanelMoves ==
  ASSUME PanelInv, NEW a \in PanelSlots, NEW r \in PanelReq, PanelKnows(r), V!Goto(a, r),
         UNCHANGED <<profile, applied, duty>>
  PROVE  PanelInv'
BY DEF PanelInv, PanelKnows, V!Goto, V!HasProfile, NothingWithoutProfile, V!ApplicationIsKept, V!DutyIsAsSet

\* A step that writes the profile of s, and what its seller was told or set.
LEMMA PanelWrites ==
  ASSUME PanelInv, NEW a \in PanelSlots, NEW s \in Sellers,
         NEW r \in PanelReq, r.pc # "idle" => r.pc = "duty" /\ r.user = s, V!Goto(a, r),
         NEW rows \in SUBSET ProfileRow, rows # {},
         profile' = [profile EXCEPT ![s] = rows],
         applied' \in [Sellers -> SUBSET Applications], duty' \in [Sellers -> BOOLEAN],
         \A q \in Sellers \ {s} : applied'[q] = applied[q] /\ duty'[q] = duty[q],
         \A row \in rows : (applied'[s] # {} => row.application \in applied'[s]) /\ row.isAvailable = duty'[s]
  PROVE  PanelInv'
<1>1. /\ profile' \in [Sellers -> SUBSET ProfileRow] /\ profile'[s] = rows
      /\ \A q \in Sellers \ {s} : profile'[q] = profile[q]
  BY DEF PanelInv
<1>2. \A q \in Sellers : V!HasProfile(q) => V!HasProfile(q)'
  BY <1>1 DEF V!HasProfile
<1>3. /\ panelReq' \in [PanelSlots -> PanelReq] /\ panelReq'[a] = r
      /\ \A b \in PanelSlots \ {a} : panelReq'[b] = panelReq[b]
  BY DEF PanelInv, V!Goto
<1>4. \A b \in PanelSlots \ {a} : PanelKnows(panelReq[b])'
  <2> SUFFICES ASSUME NEW b \in PanelSlots \ {a} PROVE PanelKnows(panelReq[b])'
    OBVIOUS
  <2>1. panelReq'[b] = panelReq[b] /\ PanelKnows(panelReq[b])
    BY <1>3 DEF PanelInv
  <2> QED BY <1>2, <2>1 DEF PanelKnows
<1>5. PanelKnows(panelReq[a])'
  BY <1>1, <1>3 DEF PanelKnows, V!HasProfile
<1>6. \A q \in Sellers : NothingWithoutProfile(q)'
  BY <1>1 DEF PanelInv, NothingWithoutProfile, V!HasProfile
<1>7. V!ApplicationIsKept'
  BY <1>1 DEF PanelInv, V!ApplicationIsKept
<1>8. V!DutyIsAsSet'
  BY <1>1 DEF PanelInv, V!DutyIsAsSet
<1> QED BY <1>1, <1>3, <1>4, <1>5, <1>6, <1>7, <1>8 DEF PanelInv

LEMMA PanelReads ==
  ASSUME V!PanelAssumption, PanelInv, NEW a \in PanelSlots, NEW s \in Sellers, V!PanelStep(a, s)
  PROVE  PanelInv'
<1>1. ASSUME NEW dto \in Applications, V!Register(a, s, dto) PROVE PanelInv'
  <2> DEFINE r == [V!IdleRequest EXCEPT !.pc = IF V!HasProfile(s) THEN "fill" ELSE "create", !.user = s, !.application = dto]
  <2>1. r \in PanelReq /\ PanelKnows(r)
    BY DEF PanelReq, PanelKnows, V!IdleRequest, V!ProviderStatus
  <2>2. V!Goto(a, r) /\ UNCHANGED <<profile, applied, duty>>
    BY <1>1 DEF V!Register
  <2> QED BY <2>1, <2>2, PanelMoves
<1>2. ASSUME NEW on \in {{}, {TRUE}, {FALSE}}, V!EnsureProfile(a, s, on) PROVE PanelInv'
  <2> DEFINE r == [V!IdleRequest EXCEPT !.pc = IF V!HasProfile(s) THEN "duty" ELSE "create", !.user = s, !.duty = on]
  <2>1. r \in PanelReq /\ PanelKnows(r)
    BY DEF PanelReq, PanelKnows, V!IdleRequest, V!ProviderStatus
  <2>2. V!Goto(a, r) /\ UNCHANGED <<profile, applied, duty>>
    BY <1>2 DEF V!EnsureProfile
  <2> QED BY <2>1, <2>2, PanelMoves
<1>3. ASSUME NEW decision \in V!ProviderStatus \ {"PENDING"}, V!Verify(a, s, decision) PROVE PanelInv'
  <2> DEFINE r == [V!IdleRequest EXCEPT !.pc = "decide", !.user = s, !.decision = decision]
  <2>1. r \in PanelReq /\ PanelKnows(r)
    BY <1>3 DEF PanelReq, PanelKnows, V!IdleRequest, V!Verify
  <2>2. V!Goto(a, r) /\ UNCHANGED <<profile, applied, duty>>
    BY <1>3 DEF V!Verify
  <2> QED BY <2>1, <2>2, PanelMoves
<1> QED BY <1>1, <1>2, <1>3 DEF V!PanelStep, V!RegisterProviderDto

\* Rows keep what a write does not name.
LEMMA RowsOfPanel ==
  ASSUME PanelInv, NEW s \in Sellers
  PROVE  /\ profile[s] \subseteq ProfileRow /\ applied[s] \subseteq Applications /\ duty[s] \in BOOLEAN
         /\ \A row \in profile[s] : row.isAvailable = duty[s] /\ (applied[s] # {} => row.application \in applied[s])
BY DEF PanelInv, V!ApplicationIsKept, V!DutyIsAsSet

LEMMA FillProfileStep ==
  ASSUME PanelInv, NEW a \in PanelSlots, V!FillProfile(a) PROVE PanelInv'
<1> DEFINE r == panelReq[a]
           s == r.user
           filled(row) == [row EXCEPT !.application = r.application]
           rows == {filled(row) : row \in profile[s]}
<1>1. s \in Sellers /\ r.application \in Applications /\ profile[s] # {} /\ r \in PanelReq
  BY PanelRow DEF V!FillProfile, V!At, PanelKnows, V!HasProfile
<1>2. /\ profile' = [profile EXCEPT ![s] = rows]
      /\ applied' = [applied EXCEPT ![s] = @ \cup {r.application}] /\ duty' = duty /\ V!Goto(a, V!IdleRequest)
  BY <1>1 DEF V!FillProfile, PanelInv
<1>3. ASSUME NEW row \in profile[s]
      PROVE  filled(row) \in ProfileRow /\ filled(row).application = r.application /\ filled(row).isAvailable = duty[s]
  BY <1>1, RowsOfPanel DEF ProfileRow
<1> HIDE DEF r, s, filled
<1>4. rows \in SUBSET ProfileRow /\ rows # {}
  BY <1>1, <1>3
<1>5. \A row \in rows : row.application = r.application /\ row.isAvailable = duty[s]
  BY <1>3
<1> HIDE DEF rows
<1>6. /\ applied' \in [Sellers -> SUBSET Applications] /\ r.application \in applied'[s]
      /\ \A q \in Sellers \ {s} : applied'[q] = applied[q]
  BY <1>1, <1>2 DEF PanelInv
<1>7. duty' \in [Sellers -> BOOLEAN]
  BY <1>2 DEF PanelInv
<1>8. \A q \in Sellers \ {s} : applied'[q] = applied[q] /\ duty'[q] = duty[q]
  BY <1>2, <1>6
<1>9. \A row \in rows : (applied'[s] # {} => row.application \in applied'[s]) /\ row.isAvailable = duty'[s]
  BY <1>2, <1>5, <1>6
<1>10. profile' = [profile EXCEPT ![s] = rows] /\ V!Goto(a, V!IdleRequest)
  BY <1>2
<1>11. applied' \in [Sellers -> SUBSET Applications]
  BY <1>6
<1> QED BY <1>1, <1>4, <1>7, <1>8, <1>9, <1>10, <1>11, PanelIdle, PanelWrites

LEMMA CreateProfileStep ==
  ASSUME V!PanelAssumption, PanelInv, NEW a \in PanelSlots, V!CreateProfile(a) PROVE PanelInv'
<1> DEFINE r == panelReq[a]
           row == [application |-> r.application, status |-> "PENDING", isAvailable |-> FALSE]
           next == IF r.duty = {} THEN V!IdleRequest ELSE [r EXCEPT !.pc = "duty"]
           refusal == [r EXCEPT !.pc = "refused"]
<1>1. r.user \in Sellers /\ r.application \in Applications \cup {None} /\ r \in PanelReq
  BY PanelRow DEF V!CreateProfile, V!At, PanelKnows, PanelReq
<1>2. CASE V!HasProfile(r.user)
  <2>1. refusal \in PanelReq /\ PanelKnows(refusal)
    BY <1>1 DEF PanelReq, PanelKnows
  <2>2. V!Goto(a, refusal) /\ UNCHANGED <<profile, applied, duty>>
    BY <1>2 DEF V!CreateProfile
  <2> QED BY <2>1, <2>2, PanelMoves
<1>3. CASE ~V!HasProfile(r.user)
  <2>1. /\ profile' = [profile EXCEPT ![r.user] = {row}]
        /\ applied' = [applied EXCEPT ![r.user] = @ \cup ({r.application} \ {None})]
        /\ duty' = duty /\ V!Goto(a, next)
    BY <1>3 DEF V!CreateProfile, V!Update
  <2>2. row \in ProfileRow /\ row.application = r.application /\ row.isAvailable = FALSE
    BY <1>1 DEF ProfileRow, V!ProviderStatus
  <2>3. next \in PanelReq
    BY <1>1, PanelIdle DEF PanelReq
  <2>4. next.pc # "idle" => next.pc = "duty" /\ next.user = r.user
    BY <1>1, PanelIdle DEF PanelReq
  <2>5. applied[r.user] = {} /\ ~duty[r.user] /\ duty[r.user] \in BOOLEAN
    BY <1>1, <1>3 DEF PanelInv, NothingWithoutProfile
  <2> HIDE DEF r, row, next
  <2>7. /\ applied' \in [Sellers -> SUBSET Applications] /\ applied'[r.user] = {r.application} \ {None}
        /\ \A q \in Sellers \ {r.user} : applied'[q] = applied[q]
    BY <1>1, <2>1, <2>5 DEF PanelInv
  <2>8. duty' \in [Sellers -> BOOLEAN] /\ duty'[r.user] = FALSE
    BY <1>1, <2>1, <2>5 DEF PanelInv
  <2>9. {row} \in SUBSET ProfileRow /\ {row} # {}
    BY <2>2
  <2>10. \A x \in {row} : (applied'[r.user] # {} => x.application \in applied'[r.user]) /\ x.isAvailable = duty'[r.user]
    BY <2>2, <2>7, <2>8
  <2>11. \A q \in Sellers \ {r.user} : applied'[q] = applied[q] /\ duty'[q] = duty[q]
    BY <2>1, <2>7
  <2>12. profile' = [profile EXCEPT ![r.user] = {row}] /\ V!Goto(a, next)
    BY <2>1
  <2>13. applied' \in [Sellers -> SUBSET Applications] /\ duty' \in [Sellers -> BOOLEAN]
    BY <2>7, <2>8
  <2> QED BY <1>1, <2>3, <2>4, <2>9, <2>10, <2>11, <2>12, <2>13, PanelWrites
<1> QED BY <1>2, <1>3

LEMMA SetAvailabilityStep ==
  ASSUME PanelInv, NEW a \in PanelSlots, V!SetAvailability(a) PROVE PanelInv'
<1> DEFINE s == panelReq[a].user
<1>1. s \in Sellers /\ profile[s] # {} /\ panelReq[a] \in PanelReq
  BY PanelRow DEF V!SetAvailability, V!At, PanelKnows, V!HasProfile
<1>2. PICK on \in panelReq[a].duty :
         /\ profile' = [profile EXCEPT ![s] = {[row EXCEPT !.isAvailable = on] : row \in @}]
         /\ duty' = [duty EXCEPT ![s] = on]
  BY DEF V!SetAvailability
<1> DEFINE set(row) == [row EXCEPT !.isAvailable = on]
           rows == {set(row) : row \in profile[s]}
<1>3. on \in BOOLEAN
  BY <1>1 DEF PanelReq
<1>4. profile' = [profile EXCEPT ![s] = rows]
  BY <1>2
<1>5. ASSUME NEW row \in profile[s]
      PROVE  /\ set(row) \in ProfileRow /\ set(row).isAvailable = on
             /\ applied[s] # {} => set(row).application \in applied[s]
  BY <1>1, <1>3, RowsOfPanel DEF ProfileRow
<1>6. applied' = applied /\ V!Goto(a, V!IdleRequest)
  BY DEF V!SetAvailability
<1> HIDE DEF s, set
<1>7. rows \in SUBSET ProfileRow /\ rows # {}
  BY <1>1, <1>5
<1>8. \A row \in rows : row.isAvailable = on /\ (applied[s] # {} => row.application \in applied[s])
  BY <1>5
<1> HIDE DEF rows
<1>9. duty' \in [Sellers -> BOOLEAN] /\ duty'[s] = on /\ \A q \in Sellers \ {s} : duty'[q] = duty[q]
  BY <1>1, <1>2, <1>3 DEF PanelInv
<1>10. applied' \in [Sellers -> SUBSET Applications]
  BY <1>6 DEF PanelInv
<1>11. \A row \in rows : (applied'[s] # {} => row.application \in applied'[s]) /\ row.isAvailable = duty'[s]
  BY <1>6, <1>8, <1>9
<1>12. \A q \in Sellers \ {s} : applied'[q] = applied[q] /\ duty'[q] = duty[q]
  BY <1>6, <1>9
<1> QED BY <1>1, <1>4, <1>6, <1>7, <1>9, <1>10, <1>11, <1>12, PanelIdle, PanelWrites

LEMMA DecidePanelStep ==
  ASSUME PanelInv, NEW a \in PanelSlots, V!Decide(a) PROVE PanelInv'
<1> DEFINE s == panelReq[a].user
           decided(row) == [row EXCEPT !.status = panelReq[a].decision]
           rows == {decided(row) : row \in profile[s]}
<1>1. s \in Sellers /\ panelReq[a].decision \in V!ProviderStatus /\ profile[s] # {}
  BY PanelRow DEF V!Decide, V!At, PanelKnows, V!HasProfile, PanelReq
<1>2. profile' = [profile EXCEPT ![s] = rows] /\ applied' = applied /\ duty' = duty /\ V!Goto(a, V!IdleRequest)
  BY DEF V!Decide
<1>3. ASSUME NEW row \in profile[s]
      PROVE  /\ decided(row) \in ProfileRow /\ decided(row).isAvailable = duty[s]
             /\ applied[s] # {} => decided(row).application \in applied[s]
  BY <1>1, RowsOfPanel DEF ProfileRow
<1> HIDE DEF s, decided
<1>4. rows \in SUBSET ProfileRow /\ rows # {}
  BY <1>1, <1>3
<1>5. \A row \in rows : (applied[s] # {} => row.application \in applied[s]) /\ row.isAvailable = duty[s]
  BY <1>3
<1> HIDE DEF rows
<1>6. applied' \in [Sellers -> SUBSET Applications] /\ duty' \in [Sellers -> BOOLEAN]
  BY <1>2 DEF PanelInv
<1>7. \A row \in rows : (applied'[s] # {} => row.application \in applied'[s]) /\ row.isAvailable = duty'[s]
  BY <1>2, <1>5
<1>8. \A q \in Sellers \ {s} : applied'[q] = applied[q] /\ duty'[q] = duty[q]
  BY <1>2
<1> QED BY <1>1, <1>2, <1>4, <1>6, <1>7, <1>8, PanelIdle, PanelWrites

LEMMA PanelInductive ==
  ASSUME V!PanelAssumption, PanelInv, [V!Next]_(V!vars) PROVE PanelInv'
<1>1. ASSUME NEW a \in PanelSlots, V!Abort(a) PROVE PanelInv'
  BY <1>1, PanelIdle, PanelMoves DEF V!Abort
<1>2. CASE UNCHANGED V!vars
  BY <1>2 DEF V!vars, PanelInv, PanelKnows, V!HasProfile, NothingWithoutProfile, V!ApplicationIsKept, V!DutyIsAsSet
<1> QED BY <1>1, <1>2, PanelReads, FillProfileStep, CreateProfileStep, SetAvailabilityStep, DecidePanelStep DEF V!Next

LEMMA InitPanel == V!Init => PanelInv
BY PanelIdle DEF V!Init, PanelInv, NothingWithoutProfile, V!ApplicationIsKept, V!DutyIsAsSet

\* However the panel's own creation, registrations, duty toggles and verdicts
\* cross (ProviderService.register, ensureProfile, setAvailability, verify): a
\* seller who was told an application is submitted has one of theirs on the
\* profile, and its duty flag is the one they last set.
LEMMA PanelHolds == ASSUME V!PanelAssumption PROVE V!Spec => []PanelKeepsItsWord
<1>1. PanelInv => PanelKeepsItsWord
  BY DEF PanelInv, PanelKeepsItsWord, V!TypeOK, ProfileRow
<1> QED BY <1>1, InitPanel, PanelInductive, PTL DEF V!Spec

(***************************************************************************)
(* The components together                                                 *)
(***************************************************************************)

\* A behaviour of the whole is, for each component, one of its own.
LEMMA Parts == Spec => C!Spec /\ N!Spec /\ L!Spec /\ G!Spec /\ S!Spec /\ P!Spec /\ V!Spec
<1>1. Init => C!Init /\ N!Init /\ L!Init /\ G!Init /\ S!Init /\ P!Init /\ V!Init
  BY DEF Init
<1>2. ASSUME [Next]_vars
      PROVE  /\ [C!Next]_(C!vars) /\ [N!Next]_(N!vars) /\ [L!Next]_(L!vars) /\ [G!Next]_(G!vars)
             /\ [S!Next]_(S!vars) /\ [P!Next]_(P!vars) /\ [V!Next]_(V!vars)
  <2> USE DEF vars, chatVars, noticeVars, addressVars, placeVars, officeVars, areaVars, promoVars, panelVars
  <2>1. [C!Next]_(C!vars)
    BY <1>2 DEF Next, C!vars
  <2>2. [N!Next]_(N!vars)
    BY <1>2 DEF Next, N!vars
  <2>3. [L!Next]_(L!vars)
    BY <1>2 DEF Next, L!vars
  <2>4. [G!Next]_(G!vars)
    BY <1>2 DEF Next, G!vars
  <2>5. [S!Next]_(S!vars)
    BY <1>2 DEF Next, OfficeStep, S!vars
  <2>6. [P!Next]_(P!vars)
    BY <1>2 DEF Next, OfficeStep, P!vars
  <2>7. [V!Next]_(V!vars)
    BY <1>2 DEF Next, OfficeStep, V!vars
  <2> QED BY <2>1, <2>2, <2>3, <2>4, <2>5, <2>6, <2>7
<1> QED BY <1>1, <1>2, PTL DEF Spec, C!Spec, N!Spec, L!Spec, G!Spec, S!Spec, P!Spec, V!Spec

\* ChatService, ChatRepository and ChatGateway: two accounts share one thread,
\* each is shown its own conversations and which words are its own, the badge is
\* the sum of the inbox, and a message that is neither shown nor in an answer
\* under way stays in it, but for two cases: it was written after an opening
\* listed the thread and before that opening marked it, or an opening that
\* marked it, or listed it as read, was never answered.
THEOREM ChatReaches == Spec => []ChatReachesItsReader
BY ChatHolds, Parts, AppAssumption, PTL

\* PushService and its repositories: a push only reaches a handset that its
\* user used while it was waiting, a handset in use stays registered, and only
\* a notification's own user reads it.
THEOREM PushFinds == Spec => []PushFindsItsUser
BY NoticesHold, Parts, AppAssumption, PTL

\* LocationsRepository: however edits and removals cross, a user has one default
\* address, and a booking starts from an address its customer still has.
THEOREM OneDefaultEach == Spec => []DefaultIsOneAndTheirs
BY AddressesHold, Parts, AppAssumption, PTL

\* PlacesService and CacheService: a place returned is the one asked for or
\* within the rounding of the coordinates, whoever filled the cache, and a
\* lookup fails only after Google gave no answer.
THEOREM PlaceAsked == Spec => []PlaceIsTheOneAsked
BY PlacesHold, Parts, AppAssumption, PTL

\* AdminCatalogService.updateLocation with one edit at a time: the centre stored
\* is of the place stored, or null.
THEOREM CentreOfPlace == ASSUME OneEditOfAreas PROVE Spec => []CentreIsOfThePlace
BY AreasHold, Parts, AppAssumption, PTL

\* AdminCatalogService.updatePromoCode with one admin at a time: an edit never
\* switches on a code that had expired on the day it was checked.
THEOREM SwitchedOn == ASSUME OneAdmin PROVE Spec => SwitchedOnIsValid
BY PromosHold, Parts

\* ProviderService and ProviderRepository: a seller told that an application is
\* submitted has one of theirs on the profile, and the duty flag is as they set
\* it, however registrations, toggles and verdicts cross.
THEOREM PanelKeeps == Spec => []PanelKeepsItsWord
BY PanelHolds, Parts, AppAssumption, PTL
=============================================================================
