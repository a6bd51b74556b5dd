-------------------------------- MODULE Chat --------------------------------
(***************************************************************************)
(* Conversations between accounts (ChatService, ChatRepository and         *)
(* ChatGateway): one thread per pair, messages that are unread until the   *)
(* other side opens the thread, and sockets that get each message as it is *)
(* sent.  A step is one database statement or one emit.                    *)
(*                                                                         *)
(* A message is its sender, its thread and whether readAt is set; its id   *)
(* is its place in the table.  Texts, names and times are left out.        *)
(***************************************************************************)
EXTENDS Naturals, Sequences, FiniteSets

CONSTANTS
    Users,        \* accounts, by ids that can be compared
    Requests,     \* slots for requests
    MaxMessages   \* bound on the messages sent

\* What the constants must satisfy.
ChatAssumption == Users \subseteq Nat \ {0} /\ MaxMessages \in Nat

VARIABLES
    threads,    \* the ChatThread rows: pairs <<userAId, userBId>>
    messages,   \* the ChatMessage rows
    screen,     \* what each account was shown: ids of messages, as outgoing or not
    req,        \* requests in flight
    beside,     \* history: messages written after an opening had listed its thread, before it marked it
    lost        \* history: read messages of openings that were never answered

vars == <<threads, messages, screen, req, beside, lost>>

NoThread == <<>>
Nobody == 0
Ids == 1 .. Len(messages)
IdleRequest == [pc |-> "idle", user |-> Nobody, contact |-> Nobody, thread |-> NoThread, ids |-> {}]

Init ==
    /\ threads = {}
    /\ messages = <<>>
    /\ screen = [u \in Users |-> {}]
    /\ req = [a \in Requests |-> IdleRequest]
    /\ beside = {}
    /\ lost = {}

At(a, pc) == req[a].pc = pc
Goto(a, pc) == req' = [req EXCEPT ![a].pc = pc]
Done(a) == req' = [req EXCEPT ![a] = IdleRequest]

sortedPair(one, other) == IF one < other THEN <<one, other>> ELSE <<other, one>>

isParticipant(t, u) == u \in {t[1], t[2]}

counterpartOf(t, viewer) == IF t[1] = viewer THEN t[2] ELSE t[1]

\* Mine or theirs is a fact about the reader.
toMessageJson(id, sender, viewer) == [id |-> id, isOutgoing |-> sender = viewer]

\* The other side's messages without readAt, in one thread.
unreadCounts(t, u) == {i \in Ids : messages[i].thread = t /\ messages[i].sender # u /\ ~messages[i].read}

listThreads(u) == {t \in threads : isParticipant(t, u)}

unreadTotal(u) == {i \in Ids : messages[i].sender # u /\ ~messages[i].read /\ isParticipant(messages[i].thread, u)}

toThreadJson(ids, viewer) == {toMessageJson(i, messages[i].sender, viewer) : i \in ids}

(***************************************************************************)
(* sendMessage()                                                           *)
(***************************************************************************)

\* The recipient exists and is somebody else; ensureThread() looks for the row.
SendMessage(a, u, contact) ==
    /\ At(a, "idle")
    /\ u # contact
    /\ LET t == sortedPair(u, contact)
       IN  req' = [req EXCEPT ![a] = [pc |-> IF t \in threads THEN "create" ELSE "ensure",
                                      user |-> u, contact |-> contact, thread |-> t, ids |-> {}]]
    /\ UNCHANGED <<threads, messages, screen, beside, lost>>

\* The upsert found none and inserts.  The MySQL connector has no upsert
\* statement, so the unique key refuses the second of two first words (409).
EnsureThread(a) ==
    /\ At(a, "ensure")
    /\ threads' = threads \cup {req[a].thread}
    /\ Goto(a, IF req[a].thread \in threads THEN "refused" ELSE "create")
    /\ UNCHANGED <<messages, screen, beside, lost>>

\* createMessage(): the message and its thread's lastMessageAt, together.
CreateMessage(a) ==
    /\ At(a, "create")
    /\ Len(messages) < MaxMessages
    /\ LET r == req[a]
       IN  /\ messages' = Append(messages, [thread |-> r.thread, sender |-> r.user, read |-> FALSE])
           /\ beside' = beside \cup {i \in {Len(messages')} :
                           \E b \in Requests : At(b, "mark") /\ req[b].user = r.contact /\ req[b].contact = r.user}
           /\ req' = [req EXCEPT ![a].pc = "emit", ![a].ids = {Len(messages')}]
    /\ UNCHANGED <<threads, screen, lost>>

\* The recipient's copy goes to the recipient's room, which holds the sockets
\* that connected with the recipient's token, or none; the sender's own is the
\* response.
EmitMessage(a, connected) ==
    /\ At(a, "emit")
    /\ LET r == req[a]
           mine == {toMessageJson(i, r.user, r.user) : i \in r.ids}
           theirs == {toMessageJson(i, r.user, r.contact) : i \in r.ids}
       IN  screen' = [screen EXCEPT ![r.user] = @ \cup mine,
                                    ![r.contact] = IF connected THEN @ \cup theirs ELSE @]
    /\ Done(a)
    /\ UNCHANGED <<threads, messages, beside, lost>>

(***************************************************************************)
(* getThread()                                                             *)
(***************************************************************************)

\* Without a row the answer is an empty conversation.
GetThread(a, u, contact) ==
    /\ At(a, "idle")
    /\ u # contact
    /\ sortedPair(u, contact) \in threads
    /\ req' = [req EXCEPT ![a] = [pc |-> "open", user |-> u, contact |-> contact, thread |-> sortedPair(u, contact), ids |-> {}]]
    /\ UNCHANGED <<threads, messages, screen, beside, lost>>

\* listMessages() and markRead() run beside each other: either comes first.
ListMessages(a) ==
    /\ req[a].pc \in {"open", "list"}
    /\ req' = [req EXCEPT ![a].pc = IF @ = "open" THEN "mark" ELSE "answer",
                          ![a].ids = {i \in Ids : messages[i].thread = req[a].thread}]
    /\ UNCHANGED <<threads, messages, screen, beside, lost>>

\* The opening goes on, with the messages it marked or, when they are listed
\* already, with those.
Marked(a) ==
    LET r == req[a]
    IN  req' = [req EXCEPT ![a].pc = IF @ = "open" THEN "list" ELSE "answer",
                           ![a].ids = IF r.pc = "open" THEN unreadCounts(r.thread, r.user) ELSE @]

MarkRead_AnyThread(a) ==  \* as if opening one conversation read them all
    /\ req[a].pc \in {"open", "mark"}
    /\ messages' = [i \in Ids |-> [messages[i] EXCEPT !.read = @ \/ messages[i].sender # req[a].user]]
    /\ Marked(a)
    /\ UNCHANGED <<threads, screen, beside, lost>>

MarkRead(a) ==
    /\ req[a].pc \in {"open", "mark"}
    /\ messages' = [i \in Ids |-> [messages[i] EXCEPT !.read = @ \/ i \in unreadCounts(req[a].thread, req[a].user)]]
    /\ Marked(a)
    /\ UNCHANGED <<threads, screen, beside, lost>>

\* The other side is told its messages were read, the caller gets the thread.
Answer(a) ==
    /\ At(a, "answer")
    /\ screen' = [screen EXCEPT ![req[a].user] = @ \cup toThreadJson(req[a].ids, req[a].user)]
    /\ Done(a)
    /\ UNCHANGED <<threads, messages, beside, lost>>

\* A request ends without its answer: a first word was refused (409), the
\* process died, the phone went away or a statement was rejected.  Promise.all
\* does not stop the other statement, so an opening whose listing is rejected
\* marks nevertheless: it fails at "list", whichever came first.
Fail(a) ==
    /\ ~At(a, "idle")
    /\ lost' = lost \cup {i \in req[a].ids : req[a].pc \in {"list", "answer"} /\ messages[i].sender # req[a].user}
    /\ Done(a)
    /\ UNCHANGED <<threads, messages, screen, beside>>

\* POST and GET chat/threads/:contactId.
ChatStep(a) == \E u, contact \in Users : SendMessage(a, u, contact) \/ GetThread(a, u, contact)

Next ==
    \E a \in Requests :
          \/ ChatStep(a) \/ EnsureThread(a) \/ CreateMessage(a) \/ Fail(a)
          \/ \E connected \in BOOLEAN : EmitMessage(a, connected)
          \/ ListMessages(a) \/ MarkRead(a) \/ Answer(a)

Spec == Init /\ [][Next]_vars

(***************************************************************************)
(* Properties                                                              *)
(***************************************************************************)

Recipient(i) == counterpartOf(messages[i].thread, messages[i].sender)

\* The answer of an opening in flight will have the message: it is listed, or
\* was marked by an opening whose listing is still to come.
AboutToShow(u, i) == \E a \in Requests : req[a].user = u /\ req[a].pc \in {"list", "answer"} /\ i \in req[a].ids

OnScreen(u) == {shown.id : shown \in screen[u]}

\* Every message is in a thread that exists, written by one of its two
\* accounts, and a thread is of two accounts.
TypeOK ==
    /\ threads \subseteq Users \X Users
    /\ \A i \in Ids : messages[i].thread \in threads /\ isParticipant(messages[i].thread, messages[i].sender)
    /\ \A u \in Users : screen[u] \subseteq [id : Ids, isOutgoing : BOOLEAN]
    /\ beside \subseteq Ids /\ lost \subseteq Ids

\* "The unique constraint makes a duplicate conversation impossible rather than
\* merely unlikely": whoever writes first, and both at once, two accounts share
\* one thread.
OneThreadPerPair == \A s, t \in threads : {s[1], s[2]} = {t[1], t[2]} => s = t

\* "Getting that backwards is what made both parties see an entire conversation
\* as their own": what an account is shown, by socket or by opening the thread,
\* is of its own conversations, and only what it wrote is outgoing.
ScreenIsTheReaders ==
    \A u \in Users : \A shown \in screen[u] :
        /\ isParticipant(messages[shown.id].thread, u)
        /\ shown.isOutgoing <=> messages[shown.id].sender = u

\* The badge of all conversations is the sum of the inbox rows.
BadgeIsTheInbox == \A u \in Users : unreadTotal(u) = UNION {unreadCounts(t, u) : t \in listThreads(u)}

\* A message its recipient was not shown is in the badge, through lost sockets,
\* dead senders, openings that fail and openings that cross.  It leaves the
\* badge unseen in two ways only: written between an opening's two statements,
\* or marked by an opening whose answer never came.
UnseenIsUnread ==
    \A i \in Ids : LET u == Recipient(i)
                   IN  i \in OnScreen(u) \/ i \in unreadTotal(u) \/ i \in beside \/ i \in lost \/ AboutToShow(u, i)

\* "When the other side opened the thread and saw it": no message is marked
\* read that its recipient was not shown, or is about to be.
ReadWasSeen ==
    \A i \in Ids : messages[i].read => i \in OnScreen(Recipient(i)) \/ AboutToShow(Recipient(i), i)

\* "Racing callers both get the same row": nobody's first word is refused.
FirstWordGoesThrough == \A a \in Requests : ~At(a, "refused")
=============================================================================
