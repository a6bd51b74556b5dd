--------------------------- MODULE ServiceCatalog ---------------------------
(***************************************************************************)
(* One service of ELK's catalogue and the requests about it: the admins    *)
(* who create, edit and delete it (AdminCatalogService) and the super      *)
(* admins who approve or reject it and its price changes                   *)
(* (AdminApprovalsService), all at once.                                   *)
(*                                                                         *)
(* Every row here is keyed by the service and no operation touches two, so *)
(* one service is modelled.  Its price is a function on the price fields;  *)
(* name, tile and description are left out, nothing depends on them.  A    *)
(* step is one database statement or the commit of one transaction.        *)
(*                                                                         *)
(* The client's extension (prisma.extension.ts) sends every delete to the  *)
(* base client, so a delete commits by itself, also one that the code      *)
(* writes inside a transaction.                                            *)
(***************************************************************************)
EXTENDS Integers, FiniteSets

CONSTANTS
    Admins,        \* slots for PATCH requests of admins
    Deleters,      \* slots for DELETE requests of admins
    SuperAdmins,   \* slots for decisions of super admins
    Fields,        \* PRICE_FIELDS
    Amounts,       \* the values a price field may have
    Switches,      \* what a PATCH may say of a switch, of {"keep", "on", "off"}
    MaxChanges     \* bound on the requests ever filed

ASSUME CatalogAssumption ==
    /\ Switches \subseteq {"keep", "on", "off"}
    /\ MaxChanges \in Nat

VARIABLES
    service,   \* the HomeService row
    open,      \* the request waiting, a set of at most one ("openFor" is unique)
    decided,   \* the requests decided
    lastId,    \* the requests filed so far
    upd,       \* PATCH requests in flight
    dec,       \* decisions in flight
    del,       \* calls of deleteService() in flight: where each is
    cut        \* history: some deletion died between its two deletes

vars == <<service, open, decided, lastId, upd, dec, del, cut>>

Removers == Deleters \cup SuperAdmins

(***************************************************************************)
(* The state                                                               *)
(***************************************************************************)

Price == [Fields -> Amounts]
Asked == UNION {[F -> Amounts] : F \in SUBSET Fields}   \* a PATCH names some fields
Kinds == {"NEW_SERVICE", "PRICE_CHANGE"}
Verdicts == {"APPROVED", "REJECTED"}
NoField == [f \in {} |-> 0]

Merge_OnlyAsked(asked, base) == asked  \* as if the other fields were not filled in

\* The fields asked for over the others of [base].
Merge(asked, base) == [f \in Fields |-> IF f \in DOMAIN asked THEN asked[f] ELSE base[f]]

\* A switch after a PATCH: as asked, or as it was read.
Switched(ask, was) == ask = "on" \/ (ask = "keep" /\ was)

\* A slot without a PATCH.  approved, active and online are what it read,
\* askActive and askOnline what it says; live and waiting are what it gets
\* back of its save and of its look at the waiting request.
NoPatch == [pc |-> "idle", asked |-> NoField, askActive |-> "keep", askOnline |-> "keep",
            approved |-> FALSE, active |-> FALSE, online |-> FALSE,
            saved |-> FALSE, live |-> {}, looked |-> FALSE, waiting |-> {}]

NoDecision == [pc |-> "idle", id |-> 0, kind |-> "NEW_SERVICE", verdict |-> "APPROVED",
               live |-> {}, requested |-> {}]

\* No service yet, or one from before there were approvals.
Init ==
    /\ \E price \in Price, state \in {"absent", "stored"} :
          service = [state |-> state, approved |-> state = "stored", active |-> state = "stored",
                     online |-> state = "stored", price |-> price]
    /\ open = {}
    /\ decided = {}
    /\ lastId = 0
    /\ upd = [a \in Admins |-> NoPatch]
    /\ dec = [s \in SuperAdmins |-> NoDecision]
    /\ del = [r \in Removers |-> "idle"]
    /\ cut = FALSE

(***************************************************************************)
(* AdminCatalogService                                                     *)
(***************************************************************************)

Filed(kind, price) == {[id |-> lastId + 1, kind |-> kind, requested |-> price]}

\* createService(): hidden, with the request to approve it, in one transaction.
CreateService(price, askActive, askOnline) ==
    /\ service.state = "absent"
    /\ lastId < MaxChanges
    /\ service' = [state |-> "stored", approved |-> FALSE, active |-> askActive # "off",
                   online |-> askActive # "off" /\ askOnline # "off", price |-> price]
    /\ open' = Filed("NEW_SERVICE", price)
    /\ lastId' = lastId + 1
    /\ UNCHANGED <<decided, upd, dec, del, cut>>

\* updateService() has read the service.
UpdateService(a, asked, askActive, askOnline) ==
    /\ upd[a].pc = "idle"
    /\ service.state = "stored"
    /\ upd' = [upd EXCEPT ![a] = [NoPatch EXCEPT
                 !.pc = "saving", !.asked = asked, !.askActive = askActive, !.askOnline = askOnline,
                 !.approved = service.approved, !.active = service.active, !.online = service.online]]
    /\ UNCHANGED <<service, open, decided, lastId, dec, del, cut>>

Saved_OnlyWhatIsAsked(u) ==  \* as if a switch were written only when asked for
    [service EXCEPT !.active = Switched(u.askActive, @),
                    !.online = Switched(u.askOnline, @),
                    !.price = IF u.approved THEN @ ELSE Merge(u.asked, @)]

\* The row after the save: both switches are written, and the price too when
\* the service was read as not approved.
Saved(u) ==
    LET active == Switched(u.askActive, u.active)
    IN  [service EXCEPT !.active = active,
                        !.online = active /\ Switched(u.askOnline, u.online),
                        !.price = IF u.approved THEN @ ELSE Merge(u.asked, @)]

\* The save, which throws for a service deleted meanwhile.
Save(a) ==
    /\ upd[a].pc = "saving"
    /\ ~upd[a].saved
    /\ IF service.state = "stored"
       THEN /\ service' = Saved(upd[a])
            /\ upd' = [upd EXCEPT ![a].saved = TRUE, ![a].live = {Saved(upd[a]).price}]
       ELSE upd' = [upd EXCEPT ![a] = NoPatch] /\ UNCHANGED service
    /\ UNCHANGED <<open, decided, lastId, dec, del, cut>>

\* openChange(), which runs beside the save.
LookForWaiting(a) ==
    /\ upd[a].pc = "saving"
    /\ ~upd[a].looked
    /\ upd' = [upd EXCEPT ![a].looked = TRUE, ![a].waiting = {c.requested : c \in open}]
    /\ UNCHANGED <<service, open, decided, lastId, dec, del, cut>>

\* What the PATCH wants the price to be, on top of the request it saw waiting.
Wanted(u) ==
    CHOOSE w \in {Merge(u.asked, p) : p \in IF u.waiting # {} THEN u.waiting ELSE u.live} : TRUE

WithdrawOrFile(u) ==
    \/ /\ Wanted(u) \in u.live
       /\ open' = {}
       /\ UNCHANGED lastId
    \/ /\ Wanted(u) \notin u.live
       /\ open # {}
       /\ open' = {[c EXCEPT !.requested = Wanted(u)] : c \in open}
       /\ UNCHANGED lastId
    \/ /\ Wanted(u) \notin u.live
       /\ service.state = "stored"
       /\ open = {}
       /\ lastId < MaxChanges
       /\ open' = Filed("PRICE_CHANGE", Wanted(u))
       /\ lastId' = lastId + 1
    \* The insert breaks the foreign key.
    \/ /\ Wanted(u) \notin u.live
       /\ service.state # "stored"
       /\ open = {}
       /\ UNCHANGED <<open, lastId>>

Finish_AnyService(a) ==  \* as if a new service's price went through a request too
    /\ upd[a].pc = "saving"
    /\ upd[a].saved
    /\ upd[a].looked
    /\ IF DOMAIN upd[a].asked # {} THEN WithdrawOrFile(upd[a]) ELSE UNCHANGED <<open, lastId>>
    /\ upd' = [upd EXCEPT ![a] = NoPatch]
    /\ UNCHANGED <<service, decided, dec, del, cut>>

\* The rest of updateService(): a price asked of an approved service becomes
\* a request, or withdraws the one waiting when it is the live price.
Finish(a) ==
    /\ upd[a].pc = "saving"
    /\ upd[a].saved
    /\ upd[a].looked
    /\ IF upd[a].approved /\ DOMAIN upd[a].asked # {}
       THEN WithdrawOrFile(upd[a])
       ELSE UNCHANGED <<open, lastId>>
    /\ upd' = [upd EXCEPT ![a] = NoPatch]
    /\ UNCHANGED <<service, decided, dec, del, cut>>

\* The PATCH dies between two of its statements.
Abort(a) ==
    /\ upd[a].pc = "saving"
    /\ upd' = [upd EXCEPT ![a] = NoPatch]
    /\ UNCHANGED <<service, open, decided, lastId, dec, del, cut>>

\* deleteService() of an admin has read the service.
DeleteService(r) ==
    /\ del[r] = "idle"
    /\ service.state = "stored"
    /\ del' = [del EXCEPT ![r] = "withdraw"]
    /\ UNCHANGED <<service, open, decided, lastId, upd, dec, cut>>

\* AdminRepository.deleteService: what waits is deleted, then the service, each
\* at once although both are written in one transaction.
WithdrawWaiting(r) ==
    /\ del[r] = "withdraw"
    /\ open' = {}
    /\ del' = [del EXCEPT ![r] = "delete"]
    /\ UNCHANGED <<service, decided, lastId, upd, dec, cut>>

\* The delete throws for a service that is gone.  A request that still waits
\* stays, its service now null.
DeleteRow(r) ==
    /\ del[r] = "delete"
    /\ service' = IF service.state = "stored" THEN [service EXCEPT !.state = "deleted"] ELSE service
    /\ del' = [del EXCEPT ![r] = "idle"]
    /\ UNCHANGED <<open, decided, lastId, upd, dec, cut>>

\* The deletion dies between its statements.
AbortDelete(r) ==
    /\ del[r] # "idle"
    /\ del' = [del EXCEPT ![r] = "idle"]
    /\ cut' = (cut \/ del[r] = "delete")
    /\ UNCHANGED <<service, open, decided, lastId, upd, dec>>

(***************************************************************************)
(* AdminApprovalsService.decide, one transaction                           *)
(***************************************************************************)

\* A new service asks for itself, a price change for its price.
requestedTerms(kind, asked, live) == IF kind = "NEW_SERVICE" THEN live ELSE asked

\* Its first read is a snapshot of the request and of the service.
Decide(s, verdict) ==
    /\ dec[s].pc = "idle"
    /\ del[s] = "idle"
    /\ service.state = "stored"
    /\ \E c \in open :
          dec' = [dec EXCEPT ![s] = [pc |-> "claim", id |-> c.id, kind |-> c.kind, verdict |-> verdict,
                                     live |-> {service.price},
                                     requested |-> {requestedTerms(c.kind, c.requested, service.price)}]]
    /\ UNCHANGED <<service, open, decided, lastId, upd, del, cut>>

Claimable_Unchecked(d) == service.state = "stored"  \* as if the claim did not ask for PENDING

\* claim() finds the request still waiting.
Claimable(d) == \E c \in open : c.id = d.id

\* What an approval makes of the service.
Applied(d) ==
    IF d.kind = "NEW_SERVICE" THEN [service EXCEPT !.approved = TRUE]
    ELSE [service EXCEPT !.price = CHOOSE p \in d.requested : TRUE]

Record(s) ==
    /\ decided' = decided \cup
         {[id |-> dec[s].id, kind |-> dec[s].kind, status |-> dec[s].verdict, by |-> s,
           before |-> IF dec[s].kind = "NEW_SERVICE" THEN {} ELSE dec[s].live,
           requested |-> dec[s].requested]}
    /\ open' = {c \in open : c.id # dec[s].id}

\* An approval: the claim and the update of the service, to the commit.  A
\* claim or an update that finds nothing rolls the transaction back.
Approve(s) ==
    /\ dec[s].pc = "claim"
    /\ dec[s].verdict = "APPROVED"
    /\ IF Claimable(dec[s]) /\ service.state = "stored"
       THEN Record(s) /\ service' = Applied(dec[s])
       ELSE UNCHANGED <<decided, open, service>>
    /\ dec' = [dec EXCEPT ![s] = NoDecision]
    /\ UNCHANGED <<lastId, upd, del, cut>>

\* A rejected price change is only recorded.
RejectPrice(s) ==
    /\ dec[s].pc = "claim"
    /\ dec[s].verdict = "REJECTED"
    /\ dec[s].kind = "PRICE_CHANGE"
    /\ IF Claimable(dec[s]) THEN Record(s) ELSE UNCHANGED <<decided, open>>
    /\ dec' = [dec EXCEPT ![s] = NoDecision]
    /\ UNCHANGED <<service, lastId, upd, del, cut>>

\* Rejecting a new service: the delete of the request waits, on a connection
\* of its own, for the row that the claim holds, until the transaction times
\* out and is rolled back.  Then deleteService() goes on outside it.
RejectNew(s) ==
    /\ dec[s].pc = "claim"
    /\ dec[s].verdict = "REJECTED"
    /\ dec[s].kind = "NEW_SERVICE"
    /\ del' = IF Claimable(dec[s]) THEN [del EXCEPT ![s] = "withdraw"] ELSE del
    /\ dec' = [dec EXCEPT ![s] = NoDecision]
    /\ UNCHANGED <<service, open, decided, lastId, upd, cut>>

(***************************************************************************)
(* The approvals screens                                                   *)
(***************************************************************************)

\* The row of a request that waits.
Pending(c) == [kind |-> c.kind, status |-> "PENDING", before |-> {}, requested |-> {c.requested}]

changeJson_Live(r) ==  \* as if a decided request were compared with today's price
    IF service.state = "stored"
    THEN [current |-> IF r.kind = "NEW_SERVICE" THEN {} ELSE {service.price},
          requested |-> {requestedTerms(r.kind, p, service.price) : p \in r.requested}]
    ELSE [current |-> r.before, requested |-> r.requested]

\* The two sides a super admin compares: what is live while the request waits,
\* the snapshot once it is decided or its service is gone.
changeJson(r) ==
    IF r.status = "PENDING" /\ service.state = "stored"
    THEN [current |-> IF r.kind = "NEW_SERVICE" THEN {} ELSE {service.price},
          requested |-> {requestedTerms(r.kind, p, service.price) : p \in r.requested}]
    ELSE [current |-> r.before, requested |-> r.requested]

\* The fields that differ between the two.
changed(json) == {f \in Fields : \E a \in json.current, b \in json.requested : a[f] # b[f]}

(***************************************************************************)
(* The system                                                              *)
(***************************************************************************)

Next ==
    \/ \E price \in Price, active, online \in Switches : CreateService(price, active, online)
    \/ \E a \in Admins :
          \/ \E asked \in Asked, active, online \in Switches : UpdateService(a, asked, active, online)
          \/ Save(a)
          \/ LookForWaiting(a)
          \/ Finish(a)
          \/ Abort(a)
    \/ \E r \in Deleters : DeleteService(r)
    \/ \E r \in Removers : WithdrawWaiting(r) \/ DeleteRow(r) \/ AbortDelete(r)
    \/ \E s \in SuperAdmins :
          \/ \E verdict \in Verdicts : Decide(s, verdict)
          \/ Approve(s) \/ RejectPrice(s) \/ RejectNew(s)

Spec == Init /\ [][Next]_vars

(***************************************************************************)
(* Properties                                                              *)
(***************************************************************************)

ServiceRow == [state : {"absent", "stored", "deleted"}, approved : BOOLEAN, active : BOOLEAN,
               online : BOOLEAN, price : Price]
OpenChange == [id : Nat, kind : Kinds, requested : Price]
DecidedChange == [id : Nat, kind : Kinds, status : Verdicts, by : SuperAdmins,
                  before : SUBSET Price, requested : SUBSET Price]
Patch == [pc : {"idle", "saving"}, asked : Asked, askActive : {"keep", "on", "off"},
          askOnline : {"keep", "on", "off"}, approved : BOOLEAN, active : BOOLEAN, online : BOOLEAN,
          saved : BOOLEAN, live : SUBSET Price, looked : BOOLEAN, waiting : SUBSET Price]
Decision == [pc : {"idle", "claim"}, id : Nat, kind : Kinds, verdict : Verdicts,
             live : SUBSET Price, requested : SUBSET Price]

\* Every row and every request in flight has the shape of the schema.
TypeOK ==
    /\ service \in ServiceRow
    /\ open \subseteq OpenChange
    /\ decided \subseteq DecidedChange
    /\ lastId \in Nat
    /\ upd \in [Admins -> Patch]
    /\ dec \in [SuperAdmins -> Decision]
    /\ del \in [Removers -> {"idle", "withdraw", "delete"}]
    /\ cut \in BOOLEAN

\* A service that is not approved has its request waiting, whatever edits,
\* withdrawals, decisions and deletions cross: without one nobody can approve
\* it any more, since only createService() files it.  A deletion between its
\* two deletes is the one exception, and its death there the one that stays.
HiddenHasRequest ==
    service.state = "stored" =>
        /\ \A c \in open : c.kind = "NEW_SERVICE" <=> ~service.approved
        /\ service.approved \/ open # {} \/ (\E r \in Removers : del[r] = "delete") \/ cut

\* "A new service stays hidden from the app until the super admin approves it":
\* unless it is just being deleted, there is something to approve.
HiddenIsAsked ==
    service.state = "stored" /\ ~service.approved => open # {} \/ \E r \in Removers : del[r] = "delete"

\* "Of two decisions at once only one lands": a request has one outcome, and
\* one that has it no longer waits.
OneDecision ==
    /\ \A d, e \in decided : d.id = e.id => d = e
    /\ \A d \in decided, c \in open : d.id # c.id

\* "In one transaction: claims the request (only one decision can land), records
\* the live and requested terms as they are at this moment, then applies it":
\* when a rejection deletes a service, the rejection is on record.
RejectionIsRecorded ==
    \A s \in SuperAdmins \ Deleters : del[s] = "delete" =>
        \E d \in decided : d.kind = "NEW_SERVICE" /\ d.status = "REJECTED"

\* "An inactive service is also offline", although each PATCH writes the
\* switches from what it read.
OfflineFollowsInactive == service.online => service.active

\* "Deletes a service and withdraws its waiting request": no request waits for a
\* service that is gone.
OpenIsAboutStored == open # {} => service.state = "stored"

\* "The app keeps the live values until it is approved": the price of an
\* approved service only becomes what a super admin approved.
LivePriceIsApproved ==
    [][service.state = "stored" /\ service.approved /\ service'.price # service.price =>
         \E d \in decided' \ decided : d.status = "APPROVED" /\ d.requested = {service'.price}]_vars

\* "Once decided, both sides are the snapshot taken at that moment": what the
\* history shows of a decision never changes again, whatever later edits,
\* decisions and the deletion of the service do.
HistoryStaysAsDecided ==
    [][\A d \in decided : d \in decided' /\ changeJson(d)' = changeJson(d)]_vars

\* "Asking for what is live again withdraws it": a price change waiting for the
\* super admin would change something.
WaitingAsksForAChange ==
    service.state = "stored" =>
        \A c \in open : c.kind = "PRICE_CHANGE" => changed(changeJson(Pending(c))) # {}

(***************************************************************************)
(* The inductive invariant                                                 *)
(***************************************************************************)

\* At most one request waits, and ids are handed out in order.
RequestsInv ==
    /\ \A c, d \in open : c = d
    /\ \A c \in open : c.id <= lastId
    /\ \A d \in decided : d.id <= lastId

\* A PATCH that read the service as approved is right about it for good, and
\* knows the live price once it has saved.
PatchInv ==
    \A a \in Admins : upd[a].pc = "saving" =>
        /\ service.state # "absent"
        /\ upd[a].approved => service.approved
        /\ upd[a].saved => upd[a].live # {}

\* A decision in flight is about the kind of request it read, of a service that
\* is or was there.
DecisionInv ==
    \A s \in SuperAdmins : dec[s].pc = "claim" =>
        /\ service.state # "absent"
        /\ dec[s].requested # {}
        /\ dec[s].id <= lastId
        /\ \A c \in open : c.id = dec[s].id => c.kind = dec[s].kind

IInv ==
    /\ TypeOK
    /\ RequestsInv
    /\ PatchInv
    /\ DecisionInv
    /\ service.state = "absent" => decided = {}
    /\ HiddenHasRequest
    /\ OneDecision
    /\ OfflineFollowsInactive
=============================================================================
