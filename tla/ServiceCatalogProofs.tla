------------------------ MODULE ServiceCatalogProofs ------------------------
(***************************************************************************)
(* ServiceCatalog's invariants for any number of edits and decisions at    *)
(* once, any prices and any number of requests.  IInv is inductive: what a *)
(* PATCH read of "approved" stays true, a decision in flight knows the     *)
(* kind of the request it will claim, and ids are never reused.            *)
(***************************************************************************)
EXTENDS ServiceCatalog, TLAPS

\* The price a PATCH asks for, filled in from another, is a whole price.
LEMMA MergeType ==
  ASSUME NEW asked \in Asked, NEW base \in Price PROVE Merge(asked, base) \in Price
<1>1. PICK F \in SUBSET Fields : asked \in [F -> Amounts]
  BY DEF Asked
<1> QED BY <1>1 DEF Merge, Price

\* What a PATCH wants is a whole price, once it has saved.
LEMMA WantedType ==
  ASSUME NEW u \in Patch, u.live # {} PROVE Wanted(u) \in Price
<1> DEFINE base == IF u.waiting # {} THEN u.waiting ELSE u.live
<1>1. base # {} /\ base \subseteq Price
  BY DEF Patch
<1>2. PICK p \in base : p \in Price
  BY <1>1
<1>3. {Merge(u.asked, q) : q \in base} # {}
  BY <1>2
<1>4. \A w \in {Merge(u.asked, q) : q \in base} : w \in Price
  BY <1>1, MergeType DEF Patch
<1> QED BY <1>3, <1>4 DEF Wanted

\* A slot without a PATCH, or without a decision, is well typed.
LEMMA IdleTypes == NoPatch \in Patch /\ NoDecision \in Decision
<1>1. NoField \in Asked
  <2>1. NoField \in [{} -> Amounts]
    BY DEF NoField
  <2> QED BY <2>1 DEF Asked
<1> QED BY <1>1 DEF NoPatch, NoDecision, Patch, Decision, Kinds, Verdicts

\* The row updateService() saves is a service's, offline when inactive, and
\* neither approved nor withdrawn from the catalogue by the save.
LEMMA SavedType ==
  ASSUME service \in ServiceRow, NEW u \in Patch
  PROVE  /\ Saved(u) \in ServiceRow
         /\ Saved(u).state = service.state
         /\ Saved(u).approved = service.approved
         /\ Saved(u).online => Saved(u).active
<1> DEFINE active == Switched(u.askActive, u.active)
           online == active /\ Switched(u.askOnline, u.online)
           price  == IF u.approved THEN service.price ELSE Merge(u.asked, service.price)
<1>1. active \in BOOLEAN /\ online \in BOOLEAN /\ (online => active)
  BY DEF Switched
<1>2. price \in Price
  BY MergeType DEF Patch, ServiceRow
<1>3. Saved(u) = [service EXCEPT !.active = active, !.online = online, !.price = price]
  BY DEF Saved, ServiceRow
<1> HIDE DEF active, online, price
<1> QED BY <1>1, <1>2, <1>3 DEF ServiceRow

\* An approval shows a new service or sets a price, and leaves the rest.
LEMMA AppliedFacts ==
  ASSUME service \in ServiceRow, NEW d \in Decision, d.requested # {}
  PROVE  /\ Applied(d) \in ServiceRow
         /\ Applied(d).state = service.state
         /\ Applied(d).approved = (service.approved \/ d.kind = "NEW_SERVICE")
         /\ Applied(d).online = service.online
         /\ Applied(d).active = service.active
<1>1. (CHOOSE p \in d.requested : TRUE) \in Price
  BY DEF Decision
<1> QED BY <1>1 DEF Applied, Decision, ServiceRow, Kinds

\* createService() files the request with the hidden service.
LEMMA CreateStep ==
  ASSUME IInv, NEW price \in Price, NEW active \in Switches, NEW online \in Switches,
         CreateService(price, active, online)
  PROVE  IInv'
<1>1. service'.state = "stored" /\ service'.approved = FALSE /\ (service'.online => service'.active)
  BY DEF CreateService
<1>2. decided = {} /\ decided' = {}
  BY DEF IInv, CreateService
<1>3. lastId \in Nat /\ lastId' = lastId + 1
  BY DEF IInv, TypeOK, CreateService
<1>4. open' = {[id |-> lastId + 1, kind |-> "NEW_SERVICE", requested |-> price]}
  BY DEF CreateService, Filed
<1>5. TypeOK'
  BY <1>2, <1>3, <1>4 DEF IInv, TypeOK, CreateService, ServiceRow, OpenChange, Kinds
<1>6. /\ RequestsInv' /\ HiddenHasRequest' /\ OneDecision' /\ OfflineFollowsInactive' /\ service'.state # "absent"
  BY <1>1, <1>2, <1>3, <1>4 DEF RequestsInv, HiddenHasRequest, OneDecision,
     OfflineFollowsInactive
<1>7. PatchInv'
  BY DEF IInv, PatchInv, CreateService
<1>8. DecisionInv'
  BY <1>3, <1>4 DEF IInv, TypeOK, Decision, DecisionInv, CreateService
<1> QED BY <1>2, <1>5, <1>6, <1>7, <1>8 DEF IInv

\* updateService() begins: it only reads.
LEMMA UpdateStep ==
  ASSUME IInv, NEW a \in Admins, NEW asked \in Asked, NEW active \in Switches,
         NEW online \in Switches, UpdateService(a, asked, active, online)
  PROVE  IInv'
<1> DEFINE u == [NoPatch EXCEPT
                   !.pc = "saving", !.asked = asked, !.askActive = active, !.askOnline = online,
                   !.approved = service.approved, !.active = service.active, !.online = service.online]
<1>1. u \in Patch
  BY IdleTypes, CatalogAssumption DEF IInv, TypeOK, ServiceRow, Patch
<1>2. u.approved = service.approved /\ u.saved = FALSE
  BY DEF NoPatch
<1>3. upd' = [upd EXCEPT ![a] = u] /\ service.state = "stored"
  BY DEF UpdateService
<1> HIDE DEF u
<1>4. TypeOK' /\ PatchInv'
  BY <1>1, <1>2, <1>3 DEF IInv, TypeOK, PatchInv, UpdateService
<1> QED BY <1>4 DEF UpdateService, IInv, RequestsInv, DecisionInv, HiddenHasRequest, OneDecision,
     OfflineFollowsInactive

\* A PATCH that ends disturbs nothing that the other requests rely on.
LEMMA EndPatch ==
  ASSUME TypeOK, PatchInv, NEW a \in Admins, upd' = [upd EXCEPT ![a] = NoPatch], UNCHANGED service
  PROVE  upd' \in [Admins -> Patch] /\ PatchInv'
<1>1. NoPatch.pc = "idle"
  BY DEF NoPatch
<1> QED BY <1>1, IdleTypes DEF TypeOK, PatchInv

\* The save writes the price of a service it read as not approved, and the
\* switches, and leaves the approval alone.
LEMMA SaveStep ==
  ASSUME IInv, NEW a \in Admins, Save(a) PROVE IInv'
<1>0. service \in ServiceRow /\ upd \in [Admins -> Patch] /\ upd[a] \in Patch
  BY DEF IInv, TypeOK
<1>1. CASE service.state # "stored"
  <2>1. upd' = [upd EXCEPT ![a] = NoPatch] /\ UNCHANGED <<service, open, decided, lastId, dec, del, cut>>
    BY <1>1 DEF Save
  <2>2. upd' \in [Admins -> Patch] /\ PatchInv'
    BY <2>1, EndPatch DEF IInv
  <2> QED BY <2>1, <2>2 DEF IInv, TypeOK, RequestsInv, DecisionInv, HiddenHasRequest, OneDecision,
       OfflineFollowsInactive
<1>2. CASE service.state = "stored"
  <2>1. /\ service' = Saved(upd[a])
        /\ upd' = [upd EXCEPT ![a].saved = TRUE, ![a].live = {service'.price}]
        /\ UNCHANGED <<open, decided, lastId, dec, del, cut>>
    BY <1>2 DEF Save
  <2>2. /\ service' \in ServiceRow /\ service'.state = service.state
        /\ service'.approved = service.approved /\ (service'.online => service'.active)
    BY <1>0, <2>1, SavedType
  <2>3. [upd[a] EXCEPT !.saved = TRUE, !.live = {service'.price}] \in Patch
    BY <1>0, <2>2 DEF Patch, ServiceRow
  <2>4. upd' \in [Admins -> Patch]
    BY <1>0, <2>1, <2>3
  <2>5. PatchInv'
    BY <1>0, <2>1, <2>2 DEF IInv, PatchInv, Patch
  <2> QED BY <2>1, <2>2, <2>4, <2>5 DEF IInv, TypeOK, RequestsInv, DecisionInv, HiddenHasRequest,
       OneDecision, OfflineFollowsInactive
<1> QED BY <1>1, <1>2

\* The look at the waiting request only reads.
LEMMA LookStep ==
  ASSUME IInv, NEW a \in Admins, LookForWaiting(a) PROVE IInv'
<1>0. upd \in [Admins -> Patch] /\ upd[a] \in Patch /\ open \subseteq OpenChange
  BY DEF IInv, TypeOK
<1> DEFINE found == {c.requested : c \in open}
           u == [upd[a] EXCEPT !.looked = TRUE, !.waiting = found]
<1>1. found \subseteq Price
  BY <1>0 DEF OpenChange
<1>2. upd' = [upd EXCEPT ![a] = u] /\ UNCHANGED service
  BY <1>0 DEF LookForWaiting
<1> HIDE DEF found
<1>3. /\ u \in Patch /\ u.pc = upd[a].pc
      /\ u.approved = upd[a].approved /\ u.saved = upd[a].saved /\ u.live = upd[a].live
  BY <1>0, <1>1 DEF Patch
<1> HIDE DEF u
<1>4. upd' \in [Admins -> Patch]
  BY <1>0, <1>3, <1>2
<1>5. PatchInv'
  BY <1>0, <1>3, <1>2 DEF IInv, PatchInv
<1> QED BY <1>4, <1>5 DEF LookForWaiting, IInv, TypeOK, RequestsInv, DecisionInv, HiddenHasRequest,
     OneDecision, OfflineFollowsInactive

\* The end of updateService(): it withdraws, rewrites or files a request only
\* for a service that was approved, so a new service keeps the one it has.
LEMMA FinishStep ==
  ASSUME IInv, NEW a \in Admins, Finish(a) PROVE IInv'
<1>0. /\ service \in ServiceRow /\ open \subseteq OpenChange /\ lastId \in Nat
      /\ upd[a] \in Patch /\ decided \subseteq DecidedChange /\ dec \in [SuperAdmins -> Decision]
  BY DEF IInv, TypeOK
<1>1. upd' = [upd EXCEPT ![a] = NoPatch] /\ UNCHANGED <<service, decided, dec, del, cut>>
  BY DEF Finish
<1>2. upd' \in [Admins -> Patch] /\ PatchInv'
  BY <1>1, EndPatch DEF IInv
<1>3. ASSUME UNCHANGED <<open, lastId>> PROVE IInv'
  BY <1>1, <1>2, <1>3 DEF IInv, TypeOK, RequestsInv, DecisionInv, HiddenHasRequest,
     OneDecision, OfflineFollowsInactive
<1>4. CASE upd[a].approved /\ DOMAIN upd[a].asked # {}
  <2>1. service.approved /\ upd[a].live # {}
    BY <1>4 DEF Finish, IInv, PatchInv
  <2>2. Wanted(upd[a]) \in Price
    BY <1>0, <2>1, WantedType
  <2> DEFINE w == Wanted(upd[a])
  <2>3. ASSUME open' = {}, UNCHANGED lastId PROVE IInv'
    BY <1>0, <1>1, <1>2, <2>1, <2>3 DEF IInv, TypeOK, RequestsInv, DecisionInv, HiddenHasRequest,
       OneDecision, OfflineFollowsInactive
  <2>4. ASSUME open' = {[c EXCEPT !.requested = w] : c \in open}, UNCHANGED lastId
        PROVE  IInv'
    <3> HIDE DEF w
    <3>1. open' \subseteq OpenChange
      BY <1>0, <2>2, <2>4 DEF OpenChange, w
    <3>2. \A c \in open' : \E d \in open : c.id = d.id /\ c.kind = d.kind /\ c = [d EXCEPT !.requested = w]
      BY <1>0, <2>4 DEF OpenChange
    <3>4. RequestsInv'
      BY <1>1, <2>4, <3>2 DEF IInv, RequestsInv
    <3>5. DecisionInv'
      BY <1>1, <2>4, <3>2 DEF IInv, DecisionInv
    <3>6. HiddenHasRequest'
      BY <1>1, <2>1, <2>4, <3>2 DEF IInv, HiddenHasRequest
    <3>7. OneDecision'
      BY <1>1, <3>2 DEF IInv, OneDecision
    <3> QED BY <1>1, <1>2, <2>4, <3>1, <3>4, <3>5, <3>6, <3>7
        DEF IInv, TypeOK, OfflineFollowsInactive
  <2>5. ASSUME open = {}, open' = Filed("PRICE_CHANGE", w), service.state = "stored", lastId' = lastId + 1
        PROVE  IInv'
    <3> HIDE DEF w
    <3>1. open' = {[id |-> lastId + 1, kind |-> "PRICE_CHANGE", requested |-> w]}
      BY <2>5 DEF Filed
    <3>2. TypeOK'
      BY <1>0, <1>1, <1>2, <2>2, <2>5, <3>1 DEF IInv, TypeOK, OpenChange, Kinds, w
    <3>3. RequestsInv' /\ OneDecision'
      BY <1>0, <1>1, <2>5, <3>1 DEF IInv, RequestsInv, OneDecision, DecidedChange
    <3>4. DecisionInv'
      BY <1>0, <1>1, <2>5, <3>1 DEF IInv, DecisionInv, Decision
    <3>5. HiddenHasRequest'
      BY <1>1, <2>1, <2>5, <3>1 DEF HiddenHasRequest
    <3> QED BY <1>1, <1>2, <3>2, <3>3, <3>4, <3>5
        DEF IInv, OfflineFollowsInactive
  <2> QED BY <1>3, <1>4, <2>3, <2>4, <2>5 DEF Finish, WithdrawOrFile
<1> QED BY <1>3, <1>4 DEF Finish

\* A PATCH that dies leaves the rows as they are.
LEMMA AbortStep ==
  ASSUME IInv, NEW a \in Admins, Abort(a) PROVE IInv'
<1>1. upd' \in [Admins -> Patch] /\ PatchInv'
  BY EndPatch DEF IInv, Abort
<1> QED BY <1>1 DEF Abort, IInv, TypeOK, RequestsInv, DecisionInv, HiddenHasRequest,
     OneDecision, OfflineFollowsInactive

\* deleteService(): it reads, withdraws what waits, deletes the row, or dies.
LEMMA DeleteStep ==
  ASSUME IInv, NEW r \in Removers,
         DeleteService(r) \/ WithdrawWaiting(r) \/ DeleteRow(r) \/ AbortDelete(r)
  PROVE  IInv'
<1>1. CASE DeleteService(r)
  BY <1>1 DEF DeleteService, IInv, TypeOK, RequestsInv, PatchInv, DecisionInv,
     HiddenHasRequest, OneDecision, OfflineFollowsInactive
<1>2. CASE WithdrawWaiting(r)
  BY <1>2 DEF WithdrawWaiting, IInv, TypeOK, RequestsInv, PatchInv, DecisionInv,
     HiddenHasRequest, OneDecision, OfflineFollowsInactive
<1>3. CASE DeleteRow(r)
  <2>1. /\ service' \in ServiceRow /\ service'.state # "stored" /\ service'.approved = service.approved
        /\ (service'.state = "absent" <=> service.state = "absent")
        /\ service'.online = service.online /\ service'.active = service.active
    BY <1>3 DEF IInv, TypeOK, ServiceRow, DeleteRow
  <2> QED BY <1>3, <2>1 DEF DeleteRow, IInv, TypeOK, RequestsInv, PatchInv, DecisionInv, HiddenHasRequest,
       OneDecision, OfflineFollowsInactive
<1>4. CASE AbortDelete(r)
  <2>1. del \in [Removers -> {"idle", "withdraw", "delete"}] /\ UNCHANGED <<service, open, decided, lastId, upd, dec>>
    BY <1>4 DEF AbortDelete, IInv, TypeOK
  <2>2. cut' \in BOOLEAN /\ (cut' <=> cut \/ del[r] = "delete")
    BY <1>4 DEF AbortDelete
  <2>3. del' = [del EXCEPT ![r] = "idle"]
    BY <1>4 DEF AbortDelete
  <2>4. HiddenHasRequest'
    <3>1. ASSUME NEW q \in Removers, del[q] = "delete" PROVE del'[q] = "delete" \/ cut'
      BY <2>1, <2>2, <2>3, <3>1
    <3> QED BY <2>1, <2>2, <3>1 DEF IInv, HiddenHasRequest
  <2> QED BY <2>1, <2>2, <2>3, <2>4 DEF IInv, TypeOK, RequestsInv, PatchInv, DecisionInv, OneDecision,
       OfflineFollowsInactive
<1> QED BY <1>1, <1>2, <1>3, <1>4

\* decide() begins: it only reads.
LEMMA DecideStep ==
  ASSUME IInv, NEW s \in SuperAdmins, NEW verdict \in Verdicts, Decide(s, verdict) PROVE IInv'
<1>0. service \in ServiceRow /\ open \subseteq OpenChange /\ dec \in [SuperAdmins -> Decision]
  BY DEF IInv, TypeOK
<1>1. PICK c \in open :
        dec' = [dec EXCEPT ![s] = [pc |-> "claim", id |-> c.id, kind |-> c.kind, verdict |-> verdict,
                                   live |-> {service.price},
                                   requested |-> {requestedTerms(c.kind, c.requested, service.price)}]]
  BY DEF Decide
<1> DEFINE d == [pc |-> "claim", id |-> c.id, kind |-> c.kind, verdict |-> verdict,
                 live |-> {service.price},
                 requested |-> {requestedTerms(c.kind, c.requested, service.price)}]
<1>2. d \in Decision
  <2>1. requestedTerms(c.kind, c.requested, service.price) \in Price
    BY <1>0 DEF requestedTerms, OpenChange, ServiceRow
  <2> QED BY <1>0, <2>1 DEF Decision, OpenChange, ServiceRow
<1>3. d.requested # {} /\ d.id = c.id /\ d.kind = c.kind
  OBVIOUS
<1>4. dec' = [dec EXCEPT ![s] = d]
  BY <1>1
<1> HIDE DEF d
<1>5. dec' \in [SuperAdmins -> Decision]
  BY <1>0, <1>2, <1>4
<1>6. DecisionInv'
  BY <1>0, <1>3, <1>4 DEF IInv, RequestsInv, DecisionInv, Decide
<1> QED BY <1>5, <1>6 DEF Decide, IInv, TypeOK, RequestsInv, PatchInv, HiddenHasRequest,
     OneDecision, OfflineFollowsInactive

\* A decision that ends disturbs nothing that the other requests rely on.
LEMMA EndDecision ==
  ASSUME IInv, NEW s \in SuperAdmins, dec' = [dec EXCEPT ![s] = NoDecision],
         UNCHANGED <<service, open, lastId>>
  PROVE  dec' \in [SuperAdmins -> Decision] /\ DecisionInv'
<1>1. NoDecision.pc = "idle"
  BY DEF NoDecision
<1> QED BY <1>1, IdleTypes DEF IInv, TypeOK, DecisionInv

\* A decision that finds its request still waiting: it is of the kind read, it
\* is the only one, and nothing has decided it.
LEMMA RecordStep ==
  ASSUME IInv, NEW s \in SuperAdmins, dec[s].pc = "claim", Claimable(dec[s]), Record(s),
         dec' = [dec EXCEPT ![s] = NoDecision], UNCHANGED <<lastId, upd, del, cut>>,
         service' = service
           \/ (service.state = "stored" /\ service' = Applied(dec[s])),
         dec[s].kind = "NEW_SERVICE" => service' = Applied(dec[s])
  PROVE  IInv'
<1>0. /\ service \in ServiceRow /\ open \subseteq OpenChange /\ dec \in [SuperAdmins -> Decision]
      /\ decided \subseteq DecidedChange /\ dec[s] \in Decision
  BY DEF IInv, TypeOK
<1>1. dec' \in [SuperAdmins -> Decision] /\ NoDecision.pc = "idle"
  BY <1>0, IdleTypes DEF NoDecision
<1>2. PICK c \in open : c.id = dec[s].id
  BY DEF Claimable
<1> DEFINE d == [id |-> dec[s].id, kind |-> dec[s].kind, status |-> dec[s].verdict, by |-> s,
                 before |-> IF dec[s].kind = "NEW_SERVICE" THEN {} ELSE dec[s].live,
                 requested |-> dec[s].requested]
<1>3. decided' = decided \cup {d} /\ open' = {}
  BY <1>2 DEF Record, IInv, RequestsInv
<1>4. d \in DecidedChange /\ d.id = c.id
  BY <1>0, <1>2 DEF DecidedChange, Decision
<1> HIDE DEF d
<1>5. /\ c.kind = dec[s].kind /\ c.id <= lastId /\ dec[s].requested # {}
      /\ service.state # "absent" /\ \A e \in decided : e.id # c.id
  BY <1>0, <1>2 DEF IInv, RequestsInv, DecisionInv, OneDecision
<1>6. service.state = "stored" /\ c.kind # "NEW_SERVICE" => service.approved
  BY <1>2 DEF IInv, HiddenHasRequest
<1>7. /\ service' \in ServiceRow /\ service'.state = service.state
      /\ service'.approved = (service.approved \/ dec[s].kind = "NEW_SERVICE")
      /\ service'.online = service.online /\ service'.active = service.active
  <2>1. CASE service' = Applied(dec[s])
    BY <1>0, <1>5, <2>1, AppliedFacts
  <2>2. CASE service' = service /\ dec[s].kind # "NEW_SERVICE"
    BY <1>0, <2>2 DEF ServiceRow
  <2> QED BY <2>1, <2>2
<1>8. TypeOK'
  BY <1>1, <1>3, <1>4, <1>7 DEF IInv, TypeOK
<1>9. RequestsInv' /\ OneDecision'
  BY <1>3, <1>4, <1>5 DEF IInv, RequestsInv, OneDecision
<1>10. PatchInv'
  BY <1>7 DEF IInv, PatchInv
<1>11. DecisionInv'
  BY <1>0, <1>1, <1>3, <1>7 DEF IInv, DecisionInv
<1>12. HiddenHasRequest'
  BY <1>0, <1>3, <1>5, <1>6, <1>7 DEF HiddenHasRequest
<1>13. OfflineFollowsInactive' /\ service'.state # "absent"
  BY <1>5, <1>7 DEF IInv, OfflineFollowsInactive
<1> QED BY <1>8, <1>9, <1>10, <1>11, <1>12, <1>13 DEF IInv

\* A decision that finds nothing, or that goes on to deleteService(), changes no row.
LEMMA RollbackStep ==
  ASSUME IInv, NEW s \in SuperAdmins, dec' = [dec EXCEPT ![s] = NoDecision],
         del' \in [Removers -> {"idle", "withdraw", "delete"}], UNCHANGED del \/ open # {},
         UNCHANGED <<service, open, decided, lastId, upd, cut>>
  PROVE  IInv'
<1>1. dec' \in [SuperAdmins -> Decision] /\ DecisionInv'
  BY EndDecision
<1> QED BY <1>1 DEF IInv, TypeOK, RequestsInv, PatchInv, HiddenHasRequest, OneDecision, OfflineFollowsInactive

\* The end of decide(): it records, or changes nothing itself.
LEMMA DecidedStep ==
  ASSUME IInv, NEW s \in SuperAdmins, Approve(s) \/ RejectPrice(s) \/ RejectNew(s)
  PROVE  IInv'
<1>0. del \in [Removers -> {"idle", "withdraw", "delete"}] /\ s \in Removers
  BY DEF IInv, TypeOK, Removers
<1>1. CASE Approve(s)
  <2>1. CASE Claimable(dec[s]) /\ service.state = "stored"
    BY <1>1, <2>1, RecordStep DEF Approve
  <2>2. CASE ~(Claimable(dec[s]) /\ service.state = "stored")
    BY <1>0, <1>1, <2>2, RollbackStep DEF Approve
  <2> QED BY <2>1, <2>2
<1>2. CASE RejectPrice(s)
  <2>1. CASE Claimable(dec[s])
    BY <1>2, <2>1, RecordStep DEF RejectPrice
  <2>2. CASE ~Claimable(dec[s])
    BY <1>0, <1>2, <2>2, RollbackStep DEF RejectPrice
  <2> QED BY <2>1, <2>2
<1>3. CASE RejectNew(s)
  <2>1. del' \in [Removers -> {"idle", "withdraw", "delete"}]
    BY <1>0, <1>3 DEF RejectNew
  <2>2. UNCHANGED del \/ open # {}
    BY <1>3 DEF RejectNew, Claimable
  <2> QED BY <1>3, <2>1, <2>2, RollbackStep DEF RejectNew
<1> QED BY <1>1, <1>2, <1>3

\* Every step of an edit, a deletion or a decision keeps the invariant.
LEMMA InvStep == IInv /\ [Next]_vars => IInv'
<1> SUFFICES ASSUME IInv, [Next]_vars PROVE IInv'
  OBVIOUS
<1>1. CASE UNCHANGED vars
  BY <1>1 DEF vars, IInv, TypeOK, RequestsInv, PatchInv, DecisionInv, HiddenHasRequest,
     OneDecision, OfflineFollowsInactive
<1>2. CASE Next
  BY <1>2, CreateStep, UpdateStep, SaveStep, LookStep, FinishStep, AbortStep, DeleteStep,
     DecideStep, DecidedStep DEF Next, Removers
<1> QED BY <1>1, <1>2

\* No service yet, or an approved one, with nothing waiting and nobody at work.
LEMMA InitInv == Init => IInv
<1> SUFFICES ASSUME Init PROVE IInv
  OBVIOUS
<1>1. NoPatch.pc = "idle" /\ NoDecision.pc = "idle"
  BY DEF NoPatch, NoDecision
<1>2. TypeOK
  <2>1. service \in ServiceRow
    BY DEF Init, ServiceRow
  <2>2. del \in [Removers -> {"idle", "withdraw", "delete"}] /\ cut \in BOOLEAN
    BY DEF Init
  <2>3. upd \in [Admins -> Patch] /\ dec \in [SuperAdmins -> Decision]
    BY IdleTypes DEF Init
  <2> QED BY <2>1, <2>2, <2>3 DEF Init, TypeOK
<1>3. open = {} /\ decided = {}
  BY DEF Init
<1>4. PatchInv /\ DecisionInv
  BY <1>1 DEF Init, PatchInv, DecisionInv
<1>5. PICK price \in Price, state \in {"absent", "stored"} :
        service = [state |-> state, approved |-> state = "stored", active |-> state = "stored",
                   online |-> state = "stored", price |-> price]
  BY DEF Init
<1>6. (service.state = "stored" => service.approved = TRUE) /\ (service.online => service.active)
  BY <1>5
<1>7. HiddenHasRequest /\ OfflineFollowsInactive
  BY <1>3, <1>6 DEF HiddenHasRequest, OfflineFollowsInactive
<1> QED BY <1>2, <1>3, <1>4, <1>7 DEF IInv, RequestsInv, OneDecision

\* The invariant holds throughout, however edits, deletions and decisions of
\* the catalogue cross.
THEOREM CatalogInvariance == Spec => []IInv
  BY InitInv, InvStep, PTL DEF Spec

\* Rows and requests in flight keep their shape.
THEOREM CatalogTypes == Spec => []TypeOK
<1>1. IInv => TypeOK
  BY DEF IInv
<1> QED BY <1>1, CatalogInvariance, PTL

\* No edit, withdrawal or decision takes away the request of a service that
\* createService() left hidden, or leaves one to an approved service: without
\* its request a stored service is approved, or a deletion is between its two
\* committed deletes, or one died there.  After such a death the service is
\* hidden without a request (AdminRepository.deleteService).
THEOREM HiddenIsDecidable == Spec => []HiddenHasRequest
<1>1. IInv => HiddenHasRequest
  BY DEF IInv
<1> QED BY <1>1, CatalogInvariance, PTL

\* Of decisions made at once, claim() lets one land per request.
THEOREM DecidedOnce == Spec => []OneDecision
<1>1. IInv => OneDecision
  BY DEF IInv
<1> QED BY <1>1, CatalogInvariance, PTL

\* An inactive service is never online, whatever the switches were when read.
THEOREM InactiveIsOffline == Spec => []OfflineFollowsInactive
<1>1. IInv => OfflineFollowsInactive
  BY DEF IInv
<1> QED BY <1>1, CatalogInvariance, PTL

\* What changeJson() shows of a request once claim() has recorded the decision
\* on it is that record, for good.
THEOREM HistoryIsFixed == Spec => HistoryStaysAsDecided
<1> DEFINE Kept == \A d \in decided : d \in decided' /\ changeJson(d)' = changeJson(d)
<1>1. ASSUME IInv, [Next]_vars PROVE Kept
  <2>1. decided \subseteq decided'
    BY <1>1 DEF Next, CreateService, UpdateService, Save, LookForWaiting, Finish, Abort, DeleteService,
       WithdrawWaiting, DeleteRow, AbortDelete, Decide, Approve, RejectPrice, RejectNew, Record, vars
  <2>2. ASSUME NEW d \in decided PROVE d.status # "PENDING"
    BY <1>1, <2>2 DEF IInv, TypeOK, DecidedChange, Verdicts
  <2>3. ASSUME NEW d \in decided PROVE changeJson(d)' = changeJson(d)
    BY <2>2, <2>3 DEF changeJson
  <2> QED BY <2>1, <2>3
<1>2. IInv /\ [Next]_vars => [Kept]_vars
  BY <1>1
<1> HIDE DEF Kept
<1>3. Spec => [][Kept]_vars
  BY <1>2, CatalogInvariance, PTL DEF Spec
<1> QED BY <1>3 DEF HistoryStaysAsDecided, Kept
=============================================================================
