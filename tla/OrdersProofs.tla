---------------------------- MODULE OrdersProofs ----------------------------
(***************************************************************************)
(* The invariants of AdOrders, OrderTracking and Reviews for any number of *)
(* orders, buyers, requests and prices.  OrdersInv is inductive: what a    *)
(* request in flight was allowed to do it may still do if the status is    *)
(* the one it read, and whoever is about to tell of a move made it.        *)
(***************************************************************************)
EXTENDS OrderTracking, Reviews, FiniteSetTheorems, WellFoundedInduction, TLAPS

(***************************************************************************)
(* The orders: the inductive invariant                                     *)
(***************************************************************************)

\* Whether the row [row] has been in the status s.
Reached(row, s) ==
    CASE s = "NEW"         -> row.state = "placed"
      [] s = "IN_PROGRESS" -> row.accepted
      [] s = "COMPLETED"   -> row.completed
      [] s = "CANCELLED"   -> row.cancelled

\* The request d still has to tell of the move of o to s.
Tells(d, o, s) == req[d].pc \in {"tell", "tellSeller"} /\ req[d].order = {o} /\ req[d].next = s

\* What a request [r] read, and what is left of it.
RequestKnows(r) ==
    /\ r.pc \in {"find", "create"} => r.buyer \in Buyers /\ r.price \in priced
    /\ r.pc \in {"tellSeller", "move", "tell"} => \E o \in Orders : r.order = {o} /\ Placed(o)
    /\ r.pc = "move" => r.next \in Allowed(r.who, r.from)
    /\ r.pc \in {"find", "create", "tellSeller"} => r.next = "NEW"

RequestsInv == \A d \in Devices : RequestKnows(req[d])

AbsentInv == \A o \in Orders : Placed(o) \/ order[o] = NoOrder

\* A move is told once, by the request that made it, and only after it.
ToldInv ==
    \A o \in Orders, s \in AdOrderStatus :
        /\ told[o][s] \in {0, 1}
        /\ told[o][s] = 1 => Reached(order[o], s) /\ \A d \in Devices : ~Tells(d, o, s)
        /\ \A d \in Devices : Tells(d, o, s) => Reached(order[o], s)
        /\ \A d, e \in Devices : Tells(d, o, s) /\ Tells(e, o, s) => d = e

OrdersInv ==
    /\ OrdersTypeOK
    /\ StampsTellOneStory
    /\ AmountIsOfItsTime
    /\ RequestsInv
    /\ AbsentInv
    /\ ToldInv
    /\ ad.price \in priced

(***************************************************************************)
(* The tables and the rows                                                 *)
(***************************************************************************)

\* No table leads back, or out of an end, and only the seller's leads on.
LEMMA AllowedFacts ==
  ASSUME NEW who \in Parties, NEW from \in AdOrderStatus, NEW next \in AdOrderStatus,
         next \in Allowed(who, from)
  PROVE  \/ from = "NEW" /\ next \in {"IN_PROGRESS", "CANCELLED"}
         \/ from = "IN_PROGRESS" /\ next \in {"COMPLETED", "CANCELLED"}
BY DEF Allowed, SELLER_TRANSITIONS, BUYER_TRANSITIONS, AdOrderStatus, Parties

\* The stamps of one row.
Story(row) ==
    /\ row.status = "NEW" <=> ~(row.accepted \/ row.cancelled)
    /\ row.status = "IN_PROGRESS" <=> row.accepted /\ ~row.completed /\ ~row.cancelled
    /\ row.status = "COMPLETED" <=> row.completed
    /\ row.status = "CANCELLED" <=> row.cancelled
    /\ row.completed => row.accepted

LEMMA StoryIsStamps == StampsTellOneStory <=> \A o \in Orders : Story(order[o])
BY DEF StampsTellOneStory, Story

\* A move from the status it was allowed from keeps the story, changes nothing
\* but status and stamps, and reaches one status more.
LEMMA MovedFacts ==
  ASSUME NEW row \in AdOrder, Story(row), NEW who \in Parties, NEW next \in AdOrderStatus,
         next \in Allowed(who, row.status)
  PROVE  /\ Moved(row, next) \in AdOrder
         /\ Story(Moved(row, next))
         /\ Moved(row, next).state = row.state
         /\ Moved(row, next).buyer = row.buyer
         /\ Moved(row, next).isEnquiry = row.isEnquiry
         /\ Moved(row, next).quantity = row.quantity
         /\ Moved(row, next).amount = row.amount
         /\ next # "NEW"
         /\ ~Reached(row, next)
         /\ \A s \in AdOrderStatus : Reached(Moved(row, next), s) <=> Reached(row, s) \/ s = next
<1>1. \/ row.status = "NEW" /\ next \in {"IN_PROGRESS", "CANCELLED"}
      \/ row.status = "IN_PROGRESS" /\ next \in {"COMPLETED", "CANCELLED"}
  BY AllowedFacts DEF AdOrder
<1> DEFINE m == Moved(row, next)
<1>2. /\ m \in AdOrder /\ m.status = next
      /\ m.accepted = (row.accepted \/ next = "IN_PROGRESS")
      /\ m.completed = (row.completed \/ next = "COMPLETED")
      /\ m.cancelled = (row.cancelled \/ next = "CANCELLED")
      /\ m.state = row.state /\ m.buyer = row.buyer /\ m.isEnquiry = row.isEnquiry
      /\ m.quantity = row.quantity /\ m.amount = row.amount
  BY DEF Moved, AdOrder
<1> HIDE DEF m
<1>3. Story(m) /\ next # "NEW" /\ ~Reached(row, next)
  BY <1>1, <1>2 DEF Story, Reached, AdOrder
<1>4. \A s \in AdOrderStatus : Reached(m, s) <=> Reached(row, s) \/ s = next
  BY <1>1, <1>2 DEF Reached, AdOrderStatus, AdOrder
<1> QED BY <1>2, <1>3, <1>4 DEF m

\* A new order is a whole row that tells one story; an enquiry costs nothing,
\* an order the price its request read times its quantity.
LEMMA NewOrderFacts ==
  ASSUME AdOrdersAssumption, NEW r \in OrderReq
  PROVE  /\ NewOrder(r) \in AdOrder
         /\ Story(NewOrder(r))
         /\ NewOrder(r).state = "placed"
         /\ IF NewOrder(r).isEnquiry THEN NewOrder(r).amount = 0
            ELSE NewOrder(r).amount = r.price * NewOrder(r).quantity
         /\ \A s \in AdOrderStatus : Reached(NewOrder(r), s) <=> s = "NEW"
<1>0. r.price \in Prices \cup {0} /\ r.quantity \in Quantities \cup {1}
  BY DEF OrderReq
<1>1. r.price \in Nat /\ r.quantity \in Nat
  <2>1. \A p \in Prices \cup {0} : p \in Nat
    BY DEF AdOrdersAssumption
  <2>2. \A q \in Quantities \cup {1} : q \in Nat
    BY DEF AdOrdersAssumption
  <2> QED BY <1>0, <2>1, <2>2
<1>2. r.price * r.quantity \in Nat
  BY <1>1
<1> DEFINE amount == IF r.isEnquiry THEN 0 ELSE r.price * r.quantity
<1>3. amount \in Nat
  BY <1>2
<1>4. NewOrder(r) = [NoOrder EXCEPT !.state = "placed", !.buyer = r.buyer, !.isEnquiry = r.isEnquiry,
                                    !.quantity = r.quantity, !.amount = amount]
  BY DEF NewOrder
<1>5. amount = IF r.isEnquiry THEN 0 ELSE r.price * r.quantity
  OBVIOUS
<1> HIDE DEF amount
<1> QED BY <1>3, <1>4, <1>5 DEF NoOrder, AdOrder, OrderReq, Story, Reached, AdOrderStatus

LEMMA NoOrderFacts ==
  /\ NoOrder \in AdOrder /\ Story(NoOrder) /\ NoOrder.state = "absent"
  /\ \A s \in AdOrderStatus : ~Reached(NoOrder, s)
BY DEF NoOrder, AdOrder, Story, Reached, AdOrderStatus

(***************************************************************************)
(* The orders: every step keeps OrdersInv                                  *)
(***************************************************************************)

LEMMA IdleFacts == IdleReq.pc = "idle" /\ (AdOrdersAssumption => IdleReq \in OrderReq)
BY DEF IdleReq, OrderReq, AdOrdersAssumption, Parties, AdOrderStatus

\* A step that leaves the orders and what was told alone keeps OrdersInv, when
\* its request tells no more than it did.
LEMMA OnlyRequest ==
  ASSUME OrdersInv, NEW d \in Devices, NEW r \in OrderReq, Goto(d, r), RequestKnows(r),
         r.pc \notin {"tell", "tellSeller"}, UNCHANGED <<ad, order, told, priced>>
  PROVE  OrdersInv'
<1>1. OrdersTypeOK'
  BY DEF OrdersInv, OrdersTypeOK, Goto
<1>2. StampsTellOneStory' /\ AmountIsOfItsTime' /\ AbsentInv'
  BY DEF OrdersInv, StampsTellOneStory, AmountIsOfItsTime, AbsentInv, Placed
<1>3. req' = [req EXCEPT ![d] = r] /\ req \in [Devices -> OrderReq]
  BY DEF Goto, OrdersInv, OrdersTypeOK
<1>4. RequestsInv'
  BY <1>3 DEF OrdersInv, RequestsInv, RequestKnows, Placed
<1>5. \A e \in Devices, o \in Orders, s \in AdOrderStatus : Tells(e, o, s)' => Tells(e, o, s)
  BY <1>3 DEF Tells
<1>6. ToldInv'
  BY <1>5 DEF OrdersInv, ToldInv
<1> QED BY <1>1, <1>2, <1>4, <1>6 DEF OrdersInv

LEMMA PlaceStep ==
  ASSUME AdOrdersAssumption, OrdersInv, NEW d \in Devices, NEW b \in Buyers, NEW dto \in CreateAdOrderDto,
         Place(d, b, dto)
  PROVE  OrdersInv'
<1> DEFINE r == [IdleReq EXCEPT !.pc = IF dto.isEnquiry THEN "find" ELSE "create", !.buyer = b,
                               !.isEnquiry = dto.isEnquiry, !.quantity = dto.quantity, !.price = ad.price]
<1>1. r \in OrderReq /\ RequestKnows(r) /\ r.pc \notin {"tell", "tellSeller"}
  BY IdleFacts DEF OrdersInv, OrdersTypeOK, IdleReq, OrderReq, RequestKnows, CreateAdOrderDto
<1>2. Goto(d, r) /\ UNCHANGED <<ad, order, told, priced>>
  BY DEF Place
<1> HIDE DEF r
<1> QED BY <1>1, <1>2, OnlyRequest

LEMMA FindStep ==
  ASSUME AdOrdersAssumption, OrdersInv, NEW d \in Devices, FindOpenEnquiry(d)
  PROVE  OrdersInv'
<1> DEFINE r == [req[d] EXCEPT !.pc = "create"]
<1>1. req[d] \in OrderReq /\ RequestKnows(req[d]) /\ req[d].pc = "find"
  BY DEF OrdersInv, OrdersTypeOK, RequestsInv, FindOpenEnquiry, At
<1>2. r \in OrderReq /\ RequestKnows(r) /\ r.pc \notin {"tell", "tellSeller"}
  BY <1>1 DEF OrderReq, RequestKnows
<1>3. UNCHANGED <<ad, order, told, priced>> /\ (Goto(d, IdleReq) \/ Goto(d, r))
  BY DEF FindOpenEnquiry
<1>4. RequestKnows(IdleReq)
  BY IdleFacts DEF RequestKnows
<1> HIDE DEF r
<1> QED BY <1>2, <1>3, <1>4, IdleFacts, OnlyRequest

LEMMA SetStatusStep ==
  ASSUME AdOrdersAssumption, OrdersInv, NEW d \in Devices, NEW who \in Parties, NEW o \in Orders,
         NEW next \in AdOrderStatus, SetStatus(d, who, o, next)
  PROVE  OrdersInv'
<1> DEFINE r == [IdleReq EXCEPT !.pc = "move", !.order = {o}, !.who = who,
                               !.from = order[o].status, !.next = next]
<1>1. order[o].status \in AdOrderStatus /\ Placed(o) /\ next \in Allowed(who, order[o].status)
  BY DEF OrdersInv, OrdersTypeOK, AdOrder, SetStatus
<1>2. r \in OrderReq
  BY <1>1, IdleFacts DEF IdleReq, OrderReq
<1>3. /\ r.pc = "move" /\ r.order = {o} /\ r.who = who
      /\ r.from = order[o].status /\ r.next = next
  BY DEF IdleReq
<1>4. Goto(d, r) /\ UNCHANGED <<ad, order, told, priced>>
  BY DEF SetStatus
<1> HIDE DEF r
<1>5. RequestKnows(r)
  BY <1>1, <1>3 DEF RequestKnows
<1> QED BY <1>2, <1>3, <1>4, <1>5, OnlyRequest

\* Where every request but d's stays as it was and no order loses its place,
\* the other requests still know what they knew.
LEMMA OthersKnow ==
  ASSUME OrdersInv, NEW d \in Devices, NEW r \in OrderReq, Goto(d, r), priced \subseteq priced',
         \A o \in Orders : Placed(o) => order'[o].state = "placed", RequestKnows(req[d])'
  PROVE  RequestsInv'
<1>1. req' = [req EXCEPT ![d] = r] /\ req \in [Devices -> OrderReq]
  BY DEF Goto, OrdersInv, OrdersTypeOK
<1> QED BY <1>1 DEF OrdersInv, RequestsInv, RequestKnows, Placed

\* The insert: an order nobody was told about, and a request that will tell.
LEMMA CreateStep ==
  ASSUME AdOrdersAssumption, OrdersInv, NEW d \in Devices, NEW o \in Orders, CreateOrder(d, o)
  PROVE  OrdersInv'
<1> DEFINE row == NewOrder(req[d])
           r == [req[d] EXCEPT !.pc = "tellSeller", !.order = {o}]
<1>1. /\ req[d] \in OrderReq /\ req[d].price \in priced /\ ~Placed(o) /\ order[o] = NoOrder
  BY DEF OrdersInv, OrdersTypeOK, RequestsInv, RequestKnows, AbsentInv, CreateOrder, At
<1>2. /\ row \in AdOrder /\ Story(row) /\ row.state = "placed"
      /\ IF row.isEnquiry THEN row.amount = 0 ELSE row.amount = req[d].price * row.quantity
      /\ \A s \in AdOrderStatus : Reached(row, s) <=> s = "NEW"
  BY <1>1, NewOrderFacts
<1>3. /\ order' = [order EXCEPT ![o] = row] /\ req' = [req EXCEPT ![d] = r]
      /\ UNCHANGED <<ad, told, priced>>
  BY DEF CreateOrder, Goto
<1> HIDE DEF row
<1>4. /\ r \in OrderReq /\ r.pc = "tellSeller" /\ r.order = {o} /\ r.next = "NEW"
  BY <1>1 DEF OrderReq, OrdersInv, RequestsInv, RequestKnows, CreateOrder, At
<1> HIDE DEF r
<1>5. OrdersTypeOK'
  BY <1>2, <1>3, <1>4 DEF OrdersInv, OrdersTypeOK
<1>6. \A p \in Orders : order'[p] = IF p = o THEN row ELSE order[p]
  BY <1>3 DEF OrdersInv, OrdersTypeOK
<1>7. StampsTellOneStory' /\ AbsentInv'
  BY <1>2, <1>6 DEF OrdersInv, StampsTellOneStory, Story, AbsentInv, Placed
<1>8. AmountIsOfItsTime'
  BY <1>1, <1>2, <1>3, <1>6 DEF OrdersInv, AmountIsOfItsTime, Placed
<1>9. RequestsInv'
  <2>0. req'[d] = r
    BY <1>3 DEF OrdersInv, OrdersTypeOK
  <2>1. RequestKnows(req[d])'
    BY <2>0, <1>2, <1>4, <1>6 DEF RequestKnows, Placed
  <2>2. \A p \in Orders : Placed(p) => order'[p].state = "placed"
    BY <1>2, <1>6 DEF Placed
  <2> QED BY <1>3, <1>4, <2>1, <2>2, OthersKnow DEF Goto
<1>10. ToldInv'
  <2>1. \A s \in AdOrderStatus : ~Reached(order[o], s)
    BY <1>1, NoOrderFacts
  <2>2. \A s \in AdOrderStatus : told[o][s] = 0 /\ \A e \in Devices : ~Tells(e, o, s)
    BY <2>1 DEF OrdersInv, ToldInv
  <2>3. \A e \in Devices, p \in Orders, s \in AdOrderStatus :
           Tells(e, p, s)' <=> (IF e = d THEN p = o /\ s = "NEW" ELSE Tells(e, p, s))
    BY <1>3, <1>4 DEF Tells, OrdersInv, OrdersTypeOK
  <2>4. \A p \in Orders, s \in AdOrderStatus : Reached(order[p], s) => Reached(order'[p], s)
    BY <1>6, <2>1
  <2>5. Reached(order'[o], "NEW")
    BY <1>2, <1>6 DEF AdOrderStatus
  <2>6. told' = told
    BY <1>3
  <2>7. \A s \in AdOrderStatus : told[o][s] # 1
    BY <2>2
  <2>8. OrdersInv
    OBVIOUS
  <2> QED BY <2>2, <2>3, <2>4, <2>5, <2>6, <2>7 DEF OrdersInv, ToldInv
<1> QED BY <1>3, <1>5, <1>7, <1>8, <1>9, <1>10 DEF OrdersInv

\* Telling counts the move of one order to one status, which its request was
\* the only one to have made, and ends the request.
LEMMA TellStep ==
  ASSUME AdOrdersAssumption, OrdersInv, NEW d \in Devices, NEW s \in AdOrderStatus,
         req[d].pc \in {"tell", "tellSeller"}, req[d].next = s, Goto(d, IdleReq),
         told' = [o \in Orders |-> [told[o] EXCEPT ![s] = IF o \in req[d].order THEN @ + 1 ELSE @]],
         UNCHANGED <<ad, order, priced>>
  PROVE  OrdersInv'
<1>1. PICK o \in Orders : req[d].order = {o} /\ Placed(o)
  BY DEF OrdersInv, RequestsInv, RequestKnows
<1>2. Tells(d, o, s)
  BY <1>1 DEF Tells
<1>3. told[o][s] = 0 /\ Reached(order[o], s)
  BY <1>2 DEF OrdersInv, ToldInv
<1>4. req' = [req EXCEPT ![d] = IdleReq] /\ req' \in [Devices -> OrderReq]
  BY IdleFacts DEF Goto, OrdersInv, OrdersTypeOK
<1>5. \A p \in Orders, t \in AdOrderStatus : told'[p][t] = IF p = o /\ t = s THEN 1 ELSE told[p][t]
  BY <1>1, <1>3 DEF OrdersInv, OrdersTypeOK
<1>6. told' \in [Orders -> [AdOrderStatus -> Nat]]
  <2>1. \A p \in Orders : [told[p] EXCEPT ![s] = IF p \in req[d].order THEN @ + 1 ELSE @] \in [AdOrderStatus -> Nat]
    BY DEF OrdersInv, OrdersTypeOK
  <2> QED BY <2>1
<1>7. OrdersTypeOK'
  BY <1>4, <1>6 DEF OrdersInv, OrdersTypeOK
<1>8. StampsTellOneStory' /\ AmountIsOfItsTime' /\ AbsentInv' /\ ad'.price \in priced'
  BY DEF OrdersInv, StampsTellOneStory, AmountIsOfItsTime, AbsentInv, Placed
<1>9. RequestsInv'
  BY <1>4, IdleFacts DEF OrdersInv, OrdersTypeOK, RequestsInv, RequestKnows, Placed
<1>10. \A e \in Devices, p \in Orders, t \in AdOrderStatus : Tells(e, p, t)' <=> e # d /\ Tells(e, p, t)
  BY <1>4, IdleFacts DEF Tells, OrdersInv, OrdersTypeOK
<1>11. \A e \in Devices : Tells(e, o, s) => e = d
  BY <1>2 DEF OrdersInv, ToldInv
<1>12. ToldInv'
  BY <1>3, <1>5, <1>10, <1>11 DEF OrdersInv, ToldInv
<1> QED BY <1>7, <1>8, <1>9, <1>12 DEF OrdersInv

\* updateStatus(): a move from the status that was read is new, and its
\* request the only one to tell of it; any other changes nothing.
LEMMA MoveStep ==
  ASSUME AdOrdersAssumption, OrdersInv, NEW d \in Devices, UpdateStatus(d)
  PROVE  OrdersInv'
<1>1. PICK o \in Orders : req[d].order = {o} /\ Placed(o)
  BY DEF OrdersInv, RequestsInv, RequestKnows, UpdateStatus, At
<1>2. req[d] \in OrderReq /\ req[d].next \in Allowed(req[d].who, req[d].from) /\ req[d].pc = "move"
  BY DEF OrdersInv, OrdersTypeOK, RequestsInv, RequestKnows, UpdateStatus, At
<1> DEFINE row == order[o]
           next == req[d].next
           moved == Moved(row, next)
           r == [req[d] EXCEPT !.pc = "tell"]
<1>3. CASE row.status # req[d].from
  <2>1. Goto(d, IdleReq) /\ UNCHANGED <<ad, order, told, priced>>
    BY <1>1, <1>3 DEF UpdateStatus
  <2>2. RequestKnows(IdleReq)
    BY IdleFacts DEF RequestKnows
  <2> QED BY <2>1, <2>2, IdleFacts, OnlyRequest
<1>4. CASE row.status = req[d].from
  <2>1. /\ order' = [order EXCEPT ![o] = moved] /\ req' = [req EXCEPT ![d] = r]
        /\ UNCHANGED <<ad, told, priced>>
    BY <1>1, <1>4 DEF UpdateStatus, Goto
  <2>2. row \in AdOrder /\ Story(row)
    BY StoryIsStamps DEF OrdersInv, OrdersTypeOK
  <2>3. next \in AdOrderStatus /\ req[d].who \in Parties /\ next \in Allowed(req[d].who, row.status)
    BY <1>2, <1>4 DEF OrderReq
  <2>4. /\ moved \in AdOrder /\ Story(moved) /\ moved.state = row.state /\ moved.isEnquiry = row.isEnquiry
        /\ moved.quantity = row.quantity /\ moved.amount = row.amount
        /\ ~Reached(row, next)
        /\ \A s \in AdOrderStatus : Reached(moved, s) <=> Reached(row, s) \/ s = next
    BY <2>2, <2>3, MovedFacts
  <2>5. r \in OrderReq /\ r.pc = "tell" /\ r.order = {o} /\ r.next = next
    BY <1>1, <1>2 DEF OrderReq
  <2> HIDE DEF r, moved
  <2>6. req'[d] = r
    BY <2>1 DEF OrdersInv, OrdersTypeOK
  <2>7. \A p \in Orders : order'[p] = IF p = o THEN moved ELSE order[p]
    BY <2>1 DEF OrdersInv, OrdersTypeOK
  <2>8. OrdersTypeOK'
    BY <2>1, <2>4, <2>5 DEF OrdersInv, OrdersTypeOK
  <2>9. StampsTellOneStory'
    BY <2>4, <2>7, StoryIsStamps DEF OrdersInv, StampsTellOneStory, Story
  <2>10. AbsentInv'
    BY <1>1, <2>4, <2>7 DEF OrdersInv, AbsentInv, Placed
  <2>11. AmountIsOfItsTime'
    BY <1>1, <2>1, <2>4, <2>7 DEF OrdersInv, AmountIsOfItsTime, Placed
  <2>12. RequestsInv'
    <3>1. RequestKnows(req[d])'
      BY <1>1, <2>4, <2>5, <2>6, <2>7 DEF RequestKnows, Placed
    <3>2. \A p \in Orders : Placed(p) => order'[p].state = "placed"
      BY <1>1, <2>4, <2>7 DEF Placed
    <3> QED BY <2>1, <2>5, <3>1, <3>2, OthersKnow DEF Goto
  <2>13. ToldInv'
    <3>1. told[o][next] = 0 /\ \A e \in Devices : ~Tells(e, o, next)
      BY <2>3, <2>4 DEF OrdersInv, ToldInv
    <3>2. \A e \in Devices, p \in Orders, s \in AdOrderStatus :
             Tells(e, p, s)' <=> (IF e = d THEN p = o /\ s = next ELSE Tells(e, p, s))
      BY <2>1, <2>5 DEF Tells, OrdersInv, OrdersTypeOK
    <3>3. \A p \in Orders, s \in AdOrderStatus : Reached(row, s) => Reached(moved, s)
      BY <2>4
    <3>4. \A p \in Orders, s \in AdOrderStatus : Reached(order[p], s) => Reached(order'[p], s)
      BY <2>7, <3>3
    <3>5. Reached(order'[o], next)
      BY <2>3, <2>4, <2>7
    <3>6. told' = told
      BY <2>1
    <3> HIDE DEF next
    <3> QED BY <3>1, <3>2, <3>4, <3>5, <3>6 DEF OrdersInv, ToldInv
  <2> QED BY <2>1, <2>8, <2>9, <2>10, <2>11, <2>12, <2>13 DEF OrdersInv
<1> QED BY <1>3, <1>4

\* The listing's own edits: a new price is one more that the listing has had.
LEMMA EditStep ==
  ASSUME OrdersInv, NEW price \in Prices, NEW live \in BOOLEAN, SellerEdits(price, live)
  PROVE  OrdersInv'
<1>1. ad' = [ad EXCEPT !.price = price, !.live = live] /\ priced' = priced \cup {price}
      /\ UNCHANGED <<order, req, told>>
  BY DEF SellerEdits
<1>2. OrdersTypeOK' /\ ad'.price \in priced'
  BY <1>1 DEF OrdersInv, OrdersTypeOK
<1>3. StampsTellOneStory' /\ AmountIsOfItsTime' /\ AbsentInv'
  BY <1>1 DEF OrdersInv, StampsTellOneStory, AmountIsOfItsTime, AbsentInv, Placed
<1>4. RequestsInv'
  BY <1>1 DEF OrdersInv, RequestsInv, RequestKnows, Placed
<1>5. ToldInv'
  BY <1>1 DEF OrdersInv, ToldInv, Tells
<1> QED BY <1>2, <1>3, <1>4, <1>5 DEF OrdersInv

LEMMA OrdersInitially == AdOrdersAssumption /\ OrdersInit => OrdersInv
<1> SUFFICES ASSUME AdOrdersAssumption, OrdersInit PROVE OrdersInv
  OBVIOUS
<1>1. OrdersTypeOK /\ ad.price \in priced
  BY IdleFacts, NoOrderFacts DEF OrdersInit, OrdersTypeOK
<1>2. StampsTellOneStory
  BY NoOrderFacts, StoryIsStamps DEF OrdersInit
<1>3. AmountIsOfItsTime /\ AbsentInv
  BY NoOrderFacts DEF OrdersInit, AmountIsOfItsTime, AbsentInv, Placed
<1>4. RequestsInv
  BY IdleFacts DEF OrdersInit, RequestsInv, RequestKnows
<1>5. ToldInv
  BY IdleFacts DEF OrdersInit, ToldInv, Tells
<1> QED BY <1>1, <1>2, <1>3, <1>4, <1>5 DEF OrdersInv

LEMMA OrdersInductive ==
  ASSUME AdOrdersAssumption, OrdersInv, [OrdersNext]_ordersVars
  PROVE  OrdersInv'
<1>1. ASSUME NEW d \in Devices, OrderStep(d) PROVE OrdersInv'
  <2>1. ASSUME TellSeller(d) PROVE OrdersInv'
    <3>1. req[d].pc = "tellSeller" /\ req[d].next = "NEW"
      BY <2>1 DEF OrdersInv, RequestsInv, RequestKnows, TellSeller, At
    <3> QED BY <2>1, <3>1, TellStep DEF TellSeller, AdOrderStatus
  <2>2. ASSUME TellOtherParty(d) PROVE OrdersInv'
    <3>1. req[d].pc = "tell" /\ req[d].next \in AdOrderStatus
      BY <2>2 DEF OrdersInv, OrdersTypeOK, OrderReq, TellOtherParty, At
    <3> QED BY <2>2, <3>1, TellStep DEF TellOtherParty
  <2>3. ASSUME AbortOrder(d) PROVE OrdersInv'
    <3>1. RequestKnows(IdleReq)
      BY IdleFacts DEF RequestKnows
    <3> QED BY <2>3, <3>1, IdleFacts, OnlyRequest DEF AbortOrder
  <2> QED BY <1>1, <2>1, <2>2, <2>3, PlaceStep, FindStep, CreateStep, SetStatusStep, MoveStep DEF OrderStep
<1>2. CASE UNCHANGED ordersVars
  <2>1. UNCHANGED <<ad, order, req, told, priced>>
    BY <1>2 DEF ordersVars
  <2>2. OrdersTypeOK' /\ StampsTellOneStory' /\ AmountIsOfItsTime' /\ AbsentInv' /\ ad'.price \in priced'
    BY <2>1 DEF OrdersInv, OrdersTypeOK, StampsTellOneStory, AmountIsOfItsTime, AbsentInv, Placed
  <2>3. RequestsInv' /\ ToldInv'
    BY <2>1 DEF OrdersInv, RequestsInv, RequestKnows, ToldInv, Tells, Placed
  <2> QED BY <2>2, <2>3 DEF OrdersInv
<1> QED BY <1>1, <1>2, EditStep DEF OrdersNext

(***************************************************************************)
(* The orders: theorems                                                    *)
(***************************************************************************)

THEOREM OrdersInvariance ==
  ASSUME AdOrdersAssumption PROVE OrdersSpec => []OrdersInv
BY OrdersInitially, OrdersInductive, PTL DEF OrdersSpec

\* The timeline of the tracking screen only depends on the row's status and
\* stamps, so one story makes the steps done the first ones, each with a time.
LEMMA StoryIsDated ==
  ASSUME OrdersTypeOK, StampsTellOneStory PROVE DoneStepsAreDated
<1> SUFFICES ASSUME NEW o \in Orders, Placed(o), NEW i \in 1 .. 4,
                    toAdOrderTrackingJson(order[o])[i].status = "done"
             PROVE  /\ toAdOrderTrackingJson(order[o])[i].time = "time"
                    /\ \A j \in 1 .. i : toAdOrderTrackingJson(order[o])[j].status = "done"
  BY DEF DoneStepsAreDated
<1> DEFINE row == order[o]
           states == AD_ORDER_STEP_STATES[row.status]
           steps == toAdOrderTrackingJson(row)
<1>1. row.status \in AdOrderStatus /\ Story(row)
  BY StoryIsStamps DEF OrdersTypeOK, AdOrder
<1>2. \A j \in 1 .. 4 : steps[j].status = states[j]
                        /\ steps[j].time = adStepTime(Stamps(row)[j], states[j])
  BY DEF toAdOrderTrackingJson
<1>3. states[i] = "done"
  BY <1>2
<1>4. Stamps(row)[i] /\ \A j \in 1 .. i : states[j] = "done"
  <2>1. i = 1 \/ i = 2 \/ i = 3 \/ i = 4
    OBVIOUS
  <2>2. CASE row.status = "NEW" \/ row.status = "CANCELLED"
    <3>1. i = 1
      BY <1>3, <2>1, <2>2 DEF AD_ORDER_STEP_STATES
    <3> QED BY <1>3, <3>1 DEF Stamps
  <2>3. CASE row.status = "IN_PROGRESS"
    <3>1. states = <<"done", "done", "active", "pending">>
      BY <2>3 DEF AD_ORDER_STEP_STATES
    <3>2. i = 1 \/ i = 2
      BY <1>3, <2>1, <3>1
    <3>3. \A j \in 1 .. i : states[j] = "done"
      BY <3>1, <3>2
    <3>4. Stamps(row)[1] /\ Stamps(row)[2]
      BY <1>1, <2>3 DEF Stamps, Story
    <3> QED BY <3>2, <3>3, <3>4
  <2>4. CASE row.status = "COMPLETED"
    <3>1. states = <<"done", "done", "done", "done">>
      BY <2>4 DEF AD_ORDER_STEP_STATES
    <3>2. \A j \in 1 .. i : states[j] = "done"
      BY <2>1, <3>1
    <3>3. Stamps(row)[1] /\ Stamps(row)[2] /\ Stamps(row)[3] /\ Stamps(row)[4]
      BY <1>1, <2>4 DEF Stamps, Story
    <3> QED BY <2>1, <3>2, <3>3
  <2> QED BY <1>1, <2>2, <2>3, <2>4 DEF AdOrderStatus
<1>5. steps[i].time = "time"
  BY <1>2, <1>3, <1>4 DEF adStepTime
<1>6. \A j \in 1 .. i : steps[j].status = "done"
  BY <1>2, <1>4
<1> QED BY <1>5, <1>6

\* However buyer, seller and admin cross, the stamps, the tracking screen and
\* the amount of an order agree (AdOrdersRepository.updateStatus,
\* AdOrdersService.place, orders.mapper).
THEOREM OneStory ==
  ASSUME AdOrdersAssumption PROVE OrdersSpec => []OrderTellsOneStory
<1>1. OrdersInv => OrderTellsOneStory
  BY StoryIsDated DEF OrdersInv, OrderTellsOneStory
<1> QED BY <1>1, OrdersInvariance, PTL

\* Each move of an order is told to the other party at most once, the moves
\* about to be told included, however many taps race (AdOrdersService).
THEOREM ToldOnce ==
  ASSUME AdOrdersAssumption PROVE OrdersSpec => []MovesAreToldOnce
<1>1. ASSUME OrdersInv PROVE MovesAreToldOnce
  <2> SUFFICES ASSUME NEW o \in Orders, NEW s \in AdOrderStatus
               PROVE  told[o][s] + Cardinality({d \in Devices : Tells(d, o, s)}) <= 1
    BY DEF MovesAreToldOnce, Tells
  <2> DEFINE D == {d \in Devices : Tells(d, o, s)}
  <2>1. told[o][s] = 0 \/ (told[o][s] = 1 /\ D = {})
    BY <1>1 DEF OrdersInv, ToldInv
  <2>2. \A d, e \in D : d = e
    BY <1>1 DEF OrdersInv, ToldInv
  <2>3. D = {} \/ \E d \in D : D = {d}
    BY <2>2
  <2> HIDE DEF D
  <2>4. D = {} => Cardinality(D) = 0
    BY FS_EmptySet
  <2>5. Cardinality(D) = 0 \/ Cardinality(D) = 1
    BY <2>3, <2>4, FS_Singleton
  <2>6. told[o][s] + Cardinality(D) <= 1
    BY <2>1, <2>4, <2>5
  <2> QED BY <2>6 DEF D
<1> QED BY <1>1, OrdersInvariance, PTL

\* What a step of the orders may do to one row: it places it, moves one that is
\* not at an end, or leaves it; nothing rewrites who ordered or what is owed.
Advances(row, next) ==
    \/ next = row
    \/ row.state # "placed"
    \/ /\ row.status \notin {"COMPLETED", "CANCELLED"}
       /\ next.state = "placed" /\ next.buyer = row.buyer /\ next.isEnquiry = row.isEnquiry
       /\ next.quantity = row.quantity /\ next.amount = row.amount

LEMMA OrdersAdvance ==
  ASSUME AdOrdersAssumption, OrdersInv, [OrdersNext]_ordersVars
  PROVE  \A o \in Orders : Advances(order[o], order'[o])
<1>0. order \in [Orders -> AdOrder]
  BY DEF OrdersInv, OrdersTypeOK
<1>1. ASSUME NEW d \in Devices, OrderStep(d) PROVE \A o \in Orders : Advances(order[o], order'[o])
  <2>1. ASSUME NEW o \in Orders, CreateOrder(d, o) PROVE \A p \in Orders : Advances(order[p], order'[p])
    BY <1>0, <2>1 DEF CreateOrder, Placed, Advances
  <2>2. ASSUME UpdateStatus(d) PROVE \A p \in Orders : Advances(order[p], order'[p])
    <3>1. PICK o \in Orders : req[d].order = {o} /\ Placed(o)
      BY <2>2 DEF OrdersInv, RequestsInv, RequestKnows, UpdateStatus, At
    <3>2. req[d] \in OrderReq /\ req[d].next \in Allowed(req[d].who, req[d].from)
      BY <2>2 DEF OrdersInv, OrdersTypeOK, RequestsInv, RequestKnows, UpdateStatus, At
    <3>3. CASE order[o].status # req[d].from
      BY <2>2, <3>1, <3>3 DEF UpdateStatus, Advances
    <3>4. CASE order[o].status = req[d].from
      <4> DEFINE moved == Moved(order[o], req[d].next)
      <4>1. order' = [order EXCEPT ![o] = moved]
        BY <2>2, <3>1, <3>4 DEF UpdateStatus
      <4>2. /\ order[o] \in AdOrder /\ Story(order[o]) /\ req[d].who \in Parties
            /\ req[d].next \in AdOrderStatus /\ req[d].next \in Allowed(req[d].who, order[o].status)
        BY <1>0, <3>2, <3>4, StoryIsStamps DEF OrdersInv, OrderReq
      <4>3. Advances(order[o], moved)
        BY <3>1, <4>2, MovedFacts, AllowedFacts DEF Advances, AdOrder, Placed
      <4> HIDE DEF moved
      <4> QED BY <1>0, <4>1, <4>3 DEF Advances
    <3> QED BY <3>3, <3>4
  <2> QED BY <1>1, <2>1, <2>2 DEF OrderStep, Place, FindOpenEnquiry, SetStatus, TellSeller, TellOtherParty,
       AbortOrder, Advances
<1>2. CASE UNCHANGED ordersVars
  BY <1>2 DEF ordersVars, Advances
<1> QED BY <1>1, <1>2 DEF OrdersNext, SellerEdits, Advances

\* A finished order never changes again: what the seller was paid for stays
\* paid, whoever taps afterwards (AdOrdersRepository.updateStatus).
THEOREM EndsAreFinal ==
  ASSUME AdOrdersAssumption
  PROVE  OrdersSpec => [][\A o \in Orders : Placed(o) /\ order[o].status \in {"COMPLETED", "CANCELLED"} =>
                             order'[o] = order[o]]_ordersVars
<1>1. ASSUME OrdersInv, [OrdersNext]_ordersVars
      PROVE  \A o \in Orders : Placed(o) /\ order[o].status \in {"COMPLETED", "CANCELLED"} => order'[o] = order[o]
  BY <1>1, OrdersAdvance DEF Advances, Placed
<1> QED BY <1>1, OrdersInvariance, PTL DEF OrdersSpec

(***************************************************************************)
(* The seller's earnings                                                   *)
(***************************************************************************)

\* The sum of the community modules, one element at a time: g has the sum of
\* the amounts of every set of orders of S.
Taken(s) == CHOOSE x \in s : TRUE
Summed(rows, g, s) == IF s = {} THEN 0 ELSE rows[Taken(s)].amount + g[s \ {Taken(s)}]
Sums(rows, S, g) == g = [s \in SUBSET S |-> Summed(rows, g, s)]
Total(rows, S) == (CHOOSE g : Sums(rows, S, g))[S]

LEMMA EarningsAreTotal == sellerActivity.totalEarnings = Total(order, Having({"COMPLETED"}))
BY Zenon DEF sellerActivity, MapThenSumSet, MapThenFoldSet, AmountOf, Total, Sums, Summed, Taken

\* Any set of naturals has a least one.
LEMMA LeastOf ==
  ASSUME NEW S, S \subseteq Nat, S # {}
  PROVE  \E x \in S : \A y \in S : x <= y
<1>1. PICK x \in S : \A y \in S : ~(<<y, x>> \in OpToRel(<, Nat))
  BY WFMin, NatLessThanWellFounded, Zenon
<1>2. \A y \in S : ~(y < x)
  BY <1>1, Zenon DEF OpToRel
<1> QED BY <1>2

\* Taking an element out of a part of a finite set.
LEMMA OneOut ==
  ASSUME NEW S, IsFiniteSet(S), NEW s \in SUBSET S
  PROVE  /\ Cardinality(s) \in Nat
         /\ Cardinality(s) = 0 <=> s = {}
         /\ \A x \in s : s \ {x} \in SUBSET S /\ Cardinality(s \ {x}) = Cardinality(s) - 1
         /\ s # {} => Taken(s) \in s
<1>1. IsFiniteSet(s)
  BY FS_Subset
<1>2. \A x \in s : Cardinality(s \ {x}) = Cardinality(s) - 1
  BY <1>1, FS_RemoveElement
<1> QED BY <1>1, <1>2, FS_CardinalityType, FS_EmptySet DEF Taken

\* What holds of a part of a finite set once it holds of all smaller ones
\* holds of every part: by the least size of one of which it does not.
LEMMA SumsExist ==
  ASSUME NEW S, IsFiniteSet(S), NEW rows
  PROVE  \E g : Sums(rows, S, g)
<1> DEFINE Upto(g, n) == /\ DOMAIN g = SUBSET S /\ g = [s \in SUBSET S |-> g[s]]
                         /\ \A s \in SUBSET S : Cardinality(s) <= n => g[s] = Summed(rows, g, s)
           Bad == {n \in Nat : ~\E g : Upto(g, n)}
<1>1. Bad = {}
  <2> SUFFICES ASSUME Bad # {} PROVE FALSE
    OBVIOUS
  <2>1. PICK n \in Bad : \A m \in Bad : n <= m
    <3>1. Bad \subseteq Nat
      OBVIOUS
    <3> HIDE DEF Bad
    <3> QED BY <3>1, LeastOf
  <2>2. n \in Nat /\ ~\E g : Upto(g, n)
    BY <2>1
  <2>3. CASE n = 0
    <3> DEFINE g == [s \in SUBSET S |-> 0]
    <3>1. \A s \in SUBSET S : Cardinality(s) <= 0 => s = {}
      BY OneOut
    <3>2. Upto(g, 0)
      BY <3>1 DEF Summed
    <3> HIDE DEF Upto, g
    <3> QED BY <2>2, <2>3, <3>2
  <2>4. CASE n # 0
    <3>1. n - 1 \in Nat /\ n - 1 \notin Bad
      <4>1. n - 1 \in Nat /\ ~(n <= n - 1)
        BY <2>2, <2>4
      <4> HIDE DEF Bad
      <4> QED BY <2>1, <4>1
    <3>2. PICK g : Upto(g, n - 1)
      <4> HIDE DEF Upto
      <4> QED BY <3>1
    <3> DEFINE h == [s \in SUBSET S |-> Summed(rows, g, s)]
    <3>3. ASSUME NEW s \in SUBSET S, Cardinality(s) <= n PROVE h[s] = Summed(rows, h, s)
      <4>1. CASE s = {}
        BY <4>1 DEF Summed
      <4>2. CASE s # {}
        <5> DEFINE less == s \ {Taken(s)}
        <5>1. less \in SUBSET S /\ Cardinality(less) <= n - 1
          BY <2>2, <3>3, <4>2, OneOut
        <5>2. g[less] = Summed(rows, g, less)
          BY <3>2, <5>1
        <5>3. h[less] = g[less]
          BY <5>1, <5>2
        <5>4. h[s] = rows[Taken(s)].amount + g[less]
          BY <4>2 DEF Summed
        <5>5. Summed(rows, h, s) = rows[Taken(s)].amount + h[less]
          <6> HIDE DEF h
          <6> QED BY <4>2 DEF Summed
        <5> HIDE DEF h, less
        <5> QED BY <5>3, <5>4, <5>5
      <4> QED BY <4>1, <4>2
    <3>4. Upto(h, n)
      BY <3>3
    <3> HIDE DEF Upto, h
    <3> QED BY <2>2, <3>4
  <2> QED BY <2>3, <2>4
<1>2. Cardinality(S) \in Nat
  BY FS_CardinalityType
<1>3. PICK g : Upto(g, Cardinality(S))
  <2> HIDE DEF Upto
  <2> QED BY <1>1, <1>2
<1>4. \A s \in SUBSET S : Cardinality(s) <= Cardinality(S)
  BY FS_Subset
<1>5. \A s \in SUBSET S : g[s] = Summed(rows, g, s)
  BY <1>3, <1>4
<1>6. g = [s \in SUBSET S |-> Summed(rows, g, s)]
  BY <1>3, <1>5
<1> QED BY <1>6 DEF Sums

LEMMA SumsOf ==
  ASSUME NEW S, NEW rows, NEW g, Sums(rows, S, g), NEW s \in SUBSET S
  PROVE  g[s] = Summed(rows, g, s)
BY Zenon DEF Sums

LEMMA SumsAreNat ==
  ASSUME NEW S, IsFiniteSet(S), NEW rows, \A o \in S : rows[o].amount \in Nat, NEW g, Sums(rows, S, g)
  PROVE  \A s \in SUBSET S : g[s] \in Nat
<1> DEFINE Bad == {n \in Nat : \E s \in SUBSET S : Cardinality(s) = n /\ g[s] \notin Nat}
<1>1. SUFFICES ASSUME Bad # {} PROVE FALSE
  BY OneOut
<1>2. PICK n \in Bad : \A m \in Bad : n <= m
  <2>1. Bad \subseteq Nat
    OBVIOUS
  <2> HIDE DEF Bad
  <2> QED BY <1>1, <2>1, LeastOf
<1>3. PICK s \in SUBSET S : Cardinality(s) = n /\ g[s] \notin Nat
  BY <1>2
<1>4. g[s] = Summed(rows, g, s)
  BY SumsOf
<1>5. s # {}
  BY <1>3, <1>4 DEF Summed
<1> DEFINE less == s \ {Taken(s)}
<1>6. Taken(s) \in S /\ less \in SUBSET S /\ Cardinality(less) = n - 1 /\ n - 1 \in Nat
  BY <1>3, <1>5, OneOut
<1>7. n - 1 \notin Bad
  <2>1. ~(n <= n - 1)
    BY <1>6
  <2> HIDE DEF Bad
  <2> QED BY <1>2, <2>1
<1>8. g[less] \in Nat
  BY <1>6, <1>7
<1> HIDE DEF less
<1>9. g[s] = rows[Taken(s)].amount + g[less]
  BY <1>4, <1>5 DEF Summed, less
<1> QED BY <1>3, <1>6, <1>8, <1>9

\* The order in which the amounts are added does not matter.
LEMMA AnyFirst ==
  ASSUME NEW S, IsFiniteSet(S), NEW rows, \A o \in S : rows[o].amount \in Nat, NEW g, Sums(rows, S, g)
  PROVE  \A s \in SUBSET S : \A x \in s : g[s] = rows[x].amount + g[s \ {x}]
<1> DEFINE Good(s) == \A x \in s : g[s] = rows[x].amount + g[s \ {x}]
           Bad == {n \in Nat : \E s \in SUBSET S : Cardinality(s) = n /\ ~Good(s)}
<1>1. SUFFICES ASSUME Bad # {} PROVE FALSE
  <2>1. ASSUME Bad = {} PROVE \A s \in SUBSET S : Good(s)
    <3> HIDE DEF Good
    <3> QED BY <2>1, OneOut
  <2> QED BY <2>1
<1>2. PICK n \in Bad : \A m \in Bad : n <= m
  <2>1. Bad \subseteq Nat
    OBVIOUS
  <2> HIDE DEF Bad
  <2> QED BY <1>1, <2>1, LeastOf
<1>3. PICK s \in SUBSET S : Cardinality(s) = n /\ ~Good(s)
  BY <1>2
<1>4. PICK x \in s : g[s] # rows[x].amount + g[s \ {x}]
  BY <1>3
<1> DEFINE y == Taken(s)
<1>5. s # {} /\ y \in s /\ g[s] = rows[y].amount + g[s \ {y}]
  BY <1>4, OneOut, SumsOf DEF Summed
<1>6. \A z \in s : s \ {z} \in SUBSET S /\ Cardinality(s \ {z}) = n - 1 /\ n - 1 \in Nat
  BY <1>3, <1>5, OneOut
<1>7. n - 1 \notin Bad
  <2>1. n \in Nat
    BY <1>2
  <2>2. n - 1 \in Nat
    BY <1>5, <1>6, Zenon
  <2>3. ~(n <= n - 1)
    BY <2>1
  <2> HIDE DEF Bad
  <2> QED BY <1>2, <2>2, <2>3
<1> HIDE DEF y
<1>8. \A z \in s : Good(s \ {z})
  BY <1>6, <1>7
<1>9. x # y
  BY <1>4, <1>5
<1>10. g[s \ {y}] = rows[x].amount + g[(s \ {y}) \ {x}]
  BY <1>5, <1>8, <1>9
<1>11. g[s \ {x}] = rows[y].amount + g[(s \ {x}) \ {y}]
  BY <1>4, <1>5, <1>8, <1>9
<1>12. (s \ {y}) \ {x} = (s \ {x}) \ {y} /\ (s \ {y}) \ {x} \in SUBSET S
  OBVIOUS
<1>13. rows[x].amount \in Nat /\ rows[y].amount \in Nat /\ g[(s \ {x}) \ {y}] \in Nat
  <2>1. x \in S /\ y \in S
    BY <1>4, <1>5
  <2>2. \A t \in SUBSET S : g[t] \in Nat
    BY SumsAreNat, Zenon
  <2>3. (s \ {x}) \ {y} \in SUBSET S
    BY <1>12
  <2>4. g[(s \ {x}) \ {y}] \in Nat
    BY <2>2, <2>3, Zenon
  <2> QED BY <2>1, <2>4
<1> DEFINE px == rows[x].amount
           py == rows[y].amount
           rest == g[(s \ {x}) \ {y}]
<1>14. g[s] = py + (px + rest) /\ g[s \ {x}] = py + rest
  BY <1>5, <1>10, <1>11, <1>12, Zenon
<1>15. px \in Nat /\ py \in Nat /\ rest \in Nat /\ g[s] # px + g[s \ {x}]
  BY <1>4, <1>13, Zenon
<1> HIDE DEF px, py, rest
<1> QED BY <1>14, <1>15

\* Sums agree where the amounts do.
LEMMA SumsAgree ==
  ASSUME NEW S, NEW T, S \subseteq T, IsFiniteSet(T), NEW rows, NEW other,
         \A o \in S : rows[o].amount = other[o].amount,
         NEW g, Sums(rows, S, g), NEW h, Sums(other, T, h)
  PROVE  \A s \in SUBSET S : g[s] = h[s]
<1> DEFINE Bad == {n \in Nat : \E s \in SUBSET S : Cardinality(s) = n /\ g[s] # h[s]}
<1>0. IsFiniteSet(S)
  BY FS_Subset
<1>1. SUFFICES ASSUME Bad # {} PROVE FALSE
  BY <1>0, OneOut
<1>2. PICK n \in Bad : \A m \in Bad : n <= m
  <2>1. Bad \subseteq Nat
    OBVIOUS
  <2> HIDE DEF Bad
  <2> QED BY <1>1, <2>1, LeastOf
<1>3. PICK s \in SUBSET S : Cardinality(s) = n /\ g[s] # h[s]
  BY <1>2
<1>4. g[s] = Summed(rows, g, s) /\ h[s] = Summed(other, h, s)
  BY SumsOf
<1>5. s # {}
  BY <1>3, <1>4 DEF Summed
<1> DEFINE less == s \ {Taken(s)}
<1>6. Taken(s) \in S /\ less \in SUBSET S /\ Cardinality(less) = n - 1 /\ n - 1 \in Nat
  BY <1>0, <1>3, <1>5, OneOut
<1>7. n - 1 \notin Bad
  <2>1. ~(n <= n - 1)
    BY <1>6
  <2> HIDE DEF Bad
  <2> QED BY <1>2, <2>1
<1>8. g[less] = h[less]
  BY <1>6, <1>7
<1> HIDE DEF less
<1>9. g[s] = rows[Taken(s)].amount + g[less] /\ h[s] = other[Taken(s)].amount + h[less]
  BY <1>4, <1>5 DEF Summed, less
<1> QED BY <1>3, <1>6, <1>8, <1>9

\* One more order, at most, does not make the total less.
LEMMA TotalGrows ==
  ASSUME NEW S, NEW T, IsFiniteSet(T), S \subseteq T, NEW x, T \subseteq S \cup {x},
         NEW rows, NEW other, \A o \in S : rows[o].amount = other[o].amount, \A o \in T : other[o].amount \in Nat
  PROVE  /\ Total(rows, S) \in Nat /\ Total(other, T) \in Nat
         /\ Total(rows, S) <= Total(other, T)
<1> DEFINE g == CHOOSE f : Sums(rows, S, f)
           h == CHOOSE f : Sums(other, T, f)
<1>1. IsFiniteSet(S)
  BY FS_Subset
<1>2. Sums(rows, S, g) /\ Sums(other, T, h)
  <2>1. (\E f : Sums(rows, S, f)) /\ (\E f : Sums(other, T, f))
    BY <1>1, SumsExist
  <2> QED BY <2>1, Zenon
<1>3. Total(rows, S) = g[S] /\ Total(other, T) = h[T]
  BY DEF Total
<1> HIDE DEF g, h
<1>4. g[S] = h[S]
  <2>1. \A s \in SUBSET S : g[s] = h[s]
    BY <1>2, SumsAgree, SMTT(30)
  <2> QED BY <2>1
<1>5. h[S] \in Nat /\ h[T] \in Nat
  BY <1>2, SumsAreNat
<1>6. CASE S = T
  BY <1>3, <1>4, <1>5, <1>6
<1>7. CASE S # T
  <2>1. x \in T /\ S = T \ {x}
    BY <1>7
  <2>2. h[T] = other[x].amount + h[S]
    BY <1>2, <2>1, AnyFirst
  <2> QED BY <1>3, <1>4, <1>5, <2>1, <2>2
<1> QED BY <1>6, <1>7

\* A step moves one order at most.
LEMMA OneOrderMoves ==
  ASSUME OrdersInv, [OrdersNext]_ordersVars
  PROVE  \E x : \A o \in Orders : o # x => order'[o] = order[o]
<1>0. order \in [Orders -> AdOrder]
  BY DEF OrdersInv, OrdersTypeOK
<1>1. CASE order' = order
  BY <1>1
<1>2. ASSUME NEW d \in Devices, NEW x \in Orders, CreateOrder(d, x)
      PROVE  \A o \in Orders : o # x => order'[o] = order[o]
  BY <1>0, <1>2 DEF CreateOrder
<1>3. ASSUME NEW d \in Devices, UpdateStatus(d)
      PROVE  \E x : \A o \in Orders : o # x => order'[o] = order[o]
  <2>1. PICK x \in Orders : req[d].order = {x}
    BY <1>3 DEF OrdersInv, RequestsInv, RequestKnows, UpdateStatus, At
  <2>2. order' = order \/ order' = [order EXCEPT ![x] = Moved(order[x], req[d].next)]
    BY <1>3, <2>1 DEF UpdateStatus
  <2>3. \A o \in Orders : o # x => order'[o] = order[o]
    BY <1>0, <2>2
  <2> QED BY <2>3
<1>4. \/ order' = order
      \/ \E d \in Devices, x \in Orders : CreateOrder(d, x)
      \/ \E d \in Devices : UpdateStatus(d)
  BY DEF OrdersNext, OrderStep, ordersVars, Place, FindOpenEnquiry, SetStatus, TellSeller, TellOtherParty,
     AbortOrder, SellerEdits
<1> QED BY <1>1, <1>2, <1>3, <1>4

LEMMA EarningsStep ==
  ASSUME AdOrdersAssumption, OrdersInv, OrdersInv', [OrdersNext]_ordersVars
  PROVE  /\ sellerActivity'.totalEarnings >= sellerActivity.totalEarnings
         /\ sellerActivity'.completedJobs >= sellerActivity.completedJobs
<1> DEFINE S == Having({"COMPLETED"})
<1>1. S = {o \in Orders : Placed(o) /\ order[o].status = "COMPLETED"}
  BY DEF Having
<1>2. S' = {o \in Orders : Placed(o)' /\ order'[o].status = "COMPLETED"}
  BY DEF Having
<1>3. \A o \in S : o \in Orders /\ order'[o] = order[o]
  BY <1>1, OrdersAdvance DEF Advances, Placed
<1>4. S \subseteq S'
  BY <1>1, <1>2, <1>3 DEF Placed
<1>5. PICK x : \A o \in Orders : o # x => order'[o] = order[o]
  BY OneOrderMoves
<1>6. S' \subseteq S \cup {x}
  BY <1>1, <1>2, <1>5 DEF Placed
<1>7. S' \subseteq Orders /\ IsFiniteSet(S')
  BY <1>2, FS_Subset DEF AdOrdersAssumption
<1>8. \A o \in S' : order'[o].amount \in Nat
  BY <1>7 DEF OrdersInv, OrdersTypeOK, AdOrder
<1> HIDE DEF S
<1>9. sellerActivity.totalEarnings = Total(order, S) /\ sellerActivity.completedJobs = Cardinality(S)
  BY EarningsAreTotal DEF S, sellerActivity
<1>10. sellerActivity'.totalEarnings = Total(order', S') /\ sellerActivity'.completedJobs = Cardinality(S')
  <2>1. sellerActivity'.totalEarnings = Total(order', S')
    BY Zenon DEF S, sellerActivity, MapThenSumSet, MapThenFoldSet, AmountOf, Total, Sums, Summed, Taken
  <2> QED BY <2>1 DEF S, sellerActivity
<1>11. \A o \in S : order[o].amount = order'[o].amount
  BY <1>3
<1>12. Total(order, S) \in Nat /\ Total(order', S') \in Nat /\ Total(order, S) <= Total(order', S')
  BY <1>4, <1>6, <1>7, <1>8, <1>11, TotalGrows
<1>13. Cardinality(S) \in Nat /\ Cardinality(S') \in Nat /\ Cardinality(S) <= Cardinality(S')
  BY <1>4, <1>7, FS_Subset, FS_CardinalityType
<1> QED BY <1>9, <1>10, <1>12, <1>13

\* Whatever is repriced, cancelled or tapped twice: what the seller's panel
\* says was earned, and the jobs done, never shrink (sellerActivity).
THEOREM EarningsGrow == ASSUME AdOrdersAssumption PROVE OrdersSpec => EarningsOnlyGrow
<1>1. ASSUME AdOrdersAssumption, OrdersInv, [OrdersNext]_ordersVars
      PROVE  OrdersInv'
  BY <1>1, OrdersInductive
<1>2. ASSUME OrdersInv, OrdersInv', [OrdersNext]_ordersVars
      PROVE  /\ sellerActivity'.totalEarnings >= sellerActivity.totalEarnings
             /\ sellerActivity'.completedJobs >= sellerActivity.completedJobs
  BY <1>2, EarningsStep
<1> QED BY <1>1, <1>2, OrdersInvariance, PTL DEF OrdersSpec, EarningsOnlyGrow

(***************************************************************************)
(* The reviews: counting                                                   *)
(***************************************************************************)

\* The sizes of two sets that share no element add up.
LEMMA DisjointSizes ==
  ASSUME NEW S, NEW T, IsFiniteSet(S), IsFiniteSet(T), S \cap T = {}
  PROVE  IsFiniteSet(S \cup T) /\ Cardinality(S \cup T) = Cardinality(S) + Cardinality(T)
BY FS_Union, FS_EmptySet, FS_CardinalityType

\* Every review gives one of five ratings.
LEMMA FiveRatings ==
  ASSUME IsFiniteSet(Orders), review \in [Orders -> 0 .. 5]
  PROVE  /\ IsFiniteSet(Rated) /\ Cardinality(Rated) \in Nat
         /\ \A k \in 1 .. 5 : Giving(k) \in Nat
         /\ Cardinality(Rated) = Giving(1) + Giving(2) + Giving(3) + Giving(4) + Giving(5)
<1> DEFINE G(k) == {o \in Orders : review[o] = k}
<1>1. \A k \in 1 .. 5 : IsFiniteSet(G(k)) /\ Giving(k) = Cardinality(G(k)) /\ Giving(k) \in Nat
  BY FS_Subset, FS_CardinalityType DEF Giving
<1> DEFINE U2 == G(1) \cup G(2)
           U3 == U2 \cup G(3)
           U4 == U3 \cup G(4)
<1>2. /\ Rated = U4 \cup G(5)
      /\ G(1) \cap G(2) = {} /\ U2 \cap G(3) = {} /\ U3 \cap G(4) = {} /\ U4 \cap G(5) = {}
  BY DEF Rated
<1> HIDE DEF G
<1>3. IsFiniteSet(U2) /\ Cardinality(U2) = Giving(1) + Giving(2)
  BY <1>1, <1>2, DisjointSizes
<1> HIDE DEF U2
<1>4. IsFiniteSet(U3) /\ Cardinality(U3) = Cardinality(U2) + Giving(3)
  <2>1. IsFiniteSet(G(3)) /\ Giving(3) = Cardinality(G(3))
    BY <1>1
  <2>2. IsFiniteSet(U2) /\ U2 \cap G(3) = {} /\ U3 = U2 \cup G(3)
    BY <1>2, <1>3
  <2> QED BY <2>1, <2>2, DisjointSizes
<1> HIDE DEF U3
<1>5. IsFiniteSet(U4) /\ Cardinality(U4) = Cardinality(U3) + Giving(4)
  <2>1. IsFiniteSet(G(4)) /\ Giving(4) = Cardinality(G(4))
    BY <1>1
  <2>2. IsFiniteSet(U3) /\ U3 \cap G(4) = {} /\ U4 = U3 \cup G(4)
    BY <1>2, <1>4
  <2> QED BY <2>1, <2>2, DisjointSizes
<1> HIDE DEF U4
<1>6. IsFiniteSet(Rated) /\ Cardinality(Rated) = Cardinality(U4) + Giving(5)
  <2>1. IsFiniteSet(G(5)) /\ Giving(5) = Cardinality(G(5))
    BY <1>1
  <2>2. IsFiniteSet(U4) /\ U4 \cap G(5) = {} /\ Rated = U4 \cup G(5)
    BY <1>2, <1>5
  <2> QED BY <2>1, <2>2, DisjointSizes
<1> QED BY <1>1, <1>3, <1>4, <1>5, <1>6, FS_CardinalityType

\* Rounding a quotient of at most fifty and a half.
LEMMA AtMostFifty ==
  ASSUME NEW n \in Nat, NEW c \in Nat, c > 0, n <= 101 * c
  PROVE  n \div (2 * c) \in 0 .. 50
OBVIOUS

\* The average shown is between no stars and five.
LEMMA AverageType ==
  ASSUME IsFiniteSet(Orders), review \in [Orders -> 0 .. 5]
  PROVE  Average \in 0 .. 50
<1> DEFINE count == Cardinality(Rated)
           sum == Giving(1) + 2 * Giving(2) + 3 * Giving(3) + 4 * Giving(4) + 5 * Giving(5)
<1>1. count \in Nat /\ sum \in Nat /\ sum <= 5 * count
  BY FiveRatings
<1>2. Average = IF count = 0 THEN 0 ELSE (20 * sum + count) \div (2 * count)
  BY DEF Average
<1> HIDE DEF count, sum
<1>3. CASE count = 0
  BY <1>2, <1>3
<1>4. CASE count # 0
  <2>1. 20 * sum + count \in Nat /\ 20 * sum + count <= 101 * count /\ count > 0
    BY <1>1, <1>4
  <2> QED BY <1>1, <1>2, <1>4, <2>1, AtMostFifty
<1> QED BY <1>3, <1>4

(***************************************************************************)
(* The reviews: the inductive invariant                                    *)
(***************************************************************************)

ReviewReq == [pc : {"idle", "find", "create", "aggregate", "rate", "reward"},
              order : SUBSET Orders, rating : Ratings \cup {0}, average : 0 .. 50, count : Nat]

\* A request [r] rates one order, which is finished, with a real rating; the
\* count it read does not run ahead.
ReviewKnows(r) ==
    /\ r.pc # "idle" => /\ r.rating \in Ratings
                        /\ \E o \in Orders : r.order = {o} /\ Placed(o) /\ order[o].status = "COMPLETED"
    /\ r.count <= Cardinality(Rated)

ReviewsInv ==
    /\ OrdersInv
    /\ TypeOK
    /\ ReviewsAreOfCompleted
    /\ RewardedOnce
    /\ CountNeverAhead
    /\ \A r \in Reviewers : ReviewKnows(rev[r])

\* The requests that stored a review of the buyer b and have not paid for it,
\* and the reviews b wrote.
Owing(b) == {r \in Reviewers : rev[r].pc \in {"aggregate", "rate", "reward"}
                                 /\ \E o \in rev[r].order : order[o].buyer = b}
Written(b) == {o \in Rated : order[o].buyer = b}

\* Every set counted is finite.
LEMMA Sizes ==
  ASSUME AdOrdersAssumption, ReviewsAssumption
  PROVE  /\ IsFiniteSet(Rated) /\ Cardinality(Rated) \in Nat
         /\ \A b \in Buyers : /\ IsFiniteSet(Owing(b)) /\ Cardinality(Owing(b)) \in Nat
                              /\ IsFiniteSet(Written(b)) /\ Cardinality(Written(b)) \in Nat
<1>1. IsFiniteSet(Orders) /\ IsFiniteSet(Reviewers)
  BY DEF AdOrdersAssumption, ReviewsAssumption
<1>2. Rated \in SUBSET Orders /\ \A b \in Buyers : Written(b) \in SUBSET Orders /\ Owing(b) \in SUBSET Reviewers
  BY DEF Rated, Written, Owing
<1>3. IsFiniteSet(Rated) /\ \A b \in Buyers : IsFiniteSet(Owing(b)) /\ IsFiniteSet(Written(b))
  BY <1>1, <1>2, FS_Subset
<1> QED BY <1>3, FS_CardinalityType

LEMMA RewardedOnceIs ==
  RewardedOnce <=> \A b \in Buyers : points[b] + 15 * Cardinality(Owing(b)) <= 15 * Cardinality(Written(b))
BY DEF RewardedOnce, Owing, Written, REVIEW_REWARD_POINTS

Storing == {"aggregate", "rate", "reward"}

\* A step that stores no review and pays for none keeps ReviewsInv, when what
\* its request now relies on holds and it owes no more than it did.
LEMMA ReviewKeeps ==
  ASSUME AdOrdersAssumption, ReviewsAssumption, ReviewsInv, NEW r \in Reviewers, NEW x \in ReviewReq,
         RevGoto(r, x), ReviewKnows(x),
         x.pc \in Storing => rev[r].pc \in Storing /\ x.order = rev[r].order,
         UNCHANGED <<ordersVars, review, points>>, unpaid' \subseteq Orders,
         rating' \in [average : 0 .. 50, count : Nat], rating'.count <= Cardinality(Rated)
  PROVE  ReviewsInv'
<1>1. UNCHANGED <<ad, order, req, told, priced>>
  BY DEF ordersVars
<1>2. rev \in [Reviewers -> ReviewReq] /\ rev' = [rev EXCEPT ![r] = x]
  BY DEF ReviewsInv, TypeOK, ReviewReq, RevGoto
<1>3. rev' \in [Reviewers -> ReviewReq] /\ \A q \in Reviewers : rev'[q] = IF q = r THEN x ELSE rev[q]
  BY <1>2
<1>4. OrdersInv'
  BY OrdersInductive DEF ReviewsInv
<1>5. TypeOK'
  BY <1>3, <1>4 DEF ReviewsInv, TypeOK, OrdersInv, ReviewReq
<1>6. Rated' = Rated
  BY DEF Rated
<1>7. ReviewsAreOfCompleted' /\ CountNeverAhead'
  BY <1>1, <1>6 DEF ReviewsInv, ReviewsAreOfCompleted, CountNeverAhead, Placed
<1>8. \A q \in Reviewers : ReviewKnows(rev'[q])
  BY <1>3 DEF ReviewsInv
<1>9. \A q \in Reviewers : ReviewKnows(rev[q])'
  BY <1>1, <1>6, <1>8 DEF ReviewKnows, Placed
<1>10. RewardedOnce'
  <2> SUFFICES ASSUME NEW b \in Buyers
               PROVE  points'[b] + 15 * Cardinality(Owing(b)') <= 15 * Cardinality(Written(b)')
    BY DEF RewardedOnce, Owing, Written, REVIEW_REWARD_POINTS
  <2>1. Written(b)' = Written(b)
    BY <1>1, <1>6 DEF Written
  <2>2. Owing(b)' \in SUBSET Owing(b)
    BY <1>1, <1>3 DEF Owing, Storing
  <2>3. Cardinality(Owing(b)') <= Cardinality(Owing(b)) /\ Cardinality(Owing(b)') \in Nat
    BY <2>2, Sizes, FS_Subset, FS_CardinalityType
  <2>4. points[b] \in Nat /\ points'[b] = points[b]
    BY DEF ReviewsInv, TypeOK
  <2>5. points[b] + 15 * Cardinality(Owing(b)) <= 15 * Cardinality(Written(b))
    BY RewardedOnceIs DEF ReviewsInv
  <2> QED BY <2>1, <2>3, <2>4, <2>5, Sizes
<1> QED BY <1>4, <1>5, <1>7, <1>9, <1>10 DEF ReviewsInv

LEMMA IdleReviewFacts ==
  ASSUME AdOrdersAssumption, ReviewsAssumption
  PROVE  IdleRev \in ReviewReq /\ IdleRev.pc = "idle" /\ IdleRev.count = 0 /\ ReviewKnows(IdleRev)
<1>1. IdleRev \in ReviewReq /\ IdleRev.pc = "idle" /\ IdleRev.count = 0
  BY DEF IdleRev, ReviewReq
<1> QED BY <1>1, Sizes DEF ReviewKnows

\* A request that ends without having stored or paid.
LEMMA ReviewEnds ==
  ASSUME AdOrdersAssumption, ReviewsAssumption, ReviewsInv, NEW r \in Reviewers, RevGoto(r, IdleRev),
         UNCHANGED <<ordersVars, review, points, rating>>, unpaid' \subseteq Orders
  PROVE  ReviewsInv'
<1>1. rating \in [average : 0 .. 50, count : Nat] /\ rating.count <= Cardinality(Rated)
  BY DEF ReviewsInv, TypeOK, CountNeverAhead
<1>2. IdleRev.pc \notin Storing
  BY IdleReviewFacts DEF Storing
<1> QED BY <1>1, <1>2, IdleReviewFacts, ReviewKeeps

\* What every step of a request in flight finds.
LEMMA InFlight ==
  ASSUME ReviewsInv, NEW r \in Reviewers, ~RevAt(r, "idle")
  PROVE  /\ rev[r] \in ReviewReq /\ rev[r].rating \in Ratings /\ ReviewKnows(rev[r])
         /\ \E o \in Orders : rev[r].order = {o} /\ Placed(o) /\ order[o].status = "COMPLETED"
BY DEF ReviewsInv, TypeOK, ReviewReq, ReviewKnows, RevAt

LEMMA SubmitStep ==
  ASSUME AdOrdersAssumption, ReviewsAssumption, ReviewsInv, NEW r \in Reviewers, NEW o \in Orders,
         NEW dto \in SubmitReviewDto, SubmitReview(r, o, dto), UNCHANGED ordersVars
  PROVE  ReviewsInv'
<1> DEFINE x == [IdleRev EXCEPT !.pc = "find", !.order = {o}, !.rating = dto.rating]
<1>1. dto.rating \in Ratings /\ Placed(o) /\ order[o].status = "COMPLETED"
  BY DEF SubmitReviewDto, SubmitReview
<1>2. /\ x \in ReviewReq /\ x.pc = "find" /\ x.order = {o} /\ x.rating = dto.rating /\ x.count = 0
  <2>1. x.pc = "find" /\ x.order = {o} /\ x.rating = dto.rating /\ x.count = 0
    BY DEF IdleRev
  <2>2. x \in ReviewReq
    BY <1>1, IdleReviewFacts DEF ReviewReq
  <2> QED BY <2>1, <2>2
<1>3. RevGoto(r, x) /\ UNCHANGED <<review, rating, points, unpaid>>
  BY DEF SubmitReview
<1> HIDE DEF x
<1>4. ReviewKnows(x)
  BY <1>1, <1>2, Sizes DEF ReviewKnows
<1>5. rating \in [average : 0 .. 50, count : Nat] /\ rating.count <= Cardinality(Rated) /\ unpaid \subseteq Orders
  BY DEF ReviewsInv, TypeOK, CountNeverAhead
<1> QED BY <1>2, <1>3, <1>4, <1>5, ReviewKeeps DEF Storing

LEMMA LookStep ==
  ASSUME AdOrdersAssumption, ReviewsAssumption, ReviewsInv, NEW r \in Reviewers,
         FindByAdOrderId(r), UNCHANGED ordersVars
  PROVE  ReviewsInv'
<1> DEFINE x == [rev[r] EXCEPT !.pc = "create"]
<1>1. rev[r] \in ReviewReq /\ ReviewKnows(rev[r]) /\ rev[r].pc = "find"
  BY InFlight DEF FindByAdOrderId, RevAt
<1>2. x \in ReviewReq /\ x.pc = "create" /\ ReviewKnows(x)
  BY <1>1 DEF ReviewReq, ReviewKnows
<1>3. RevGoto(r, IdleRev) \/ RevGoto(r, x)
  BY DEF FindByAdOrderId
<1>4. UNCHANGED <<review, rating, points, unpaid>> /\ unpaid \subseteq Orders
  BY DEF FindByAdOrderId, ReviewsInv, TypeOK
<1> HIDE DEF x
<1>5. rating \in [average : 0 .. 50, count : Nat] /\ rating.count <= Cardinality(Rated)
  BY DEF ReviewsInv, TypeOK, CountNeverAhead
<1> QED BY <1>2, <1>3, <1>4, <1>5, ReviewEnds, ReviewKeeps DEF Storing

\* The insert: one review more, and one request that owes its points.
LEMMA StoreStep ==
  ASSUME AdOrdersAssumption, ReviewsAssumption, ReviewsInv, NEW r \in Reviewers,
         CreateReview(r), UNCHANGED ordersVars
  PROVE  ReviewsInv'
<1>1. /\ rev[r] \in ReviewReq /\ rev[r].rating \in Ratings /\ ReviewKnows(rev[r])
      /\ rev[r].pc = "create"
  BY InFlight DEF CreateReview, RevAt
<1>2. PICK o \in Orders : rev[r].order = {o} /\ Placed(o) /\ order[o].status = "COMPLETED"
  BY InFlight DEF CreateReview, RevAt
<1>3. CASE review[o] # 0
  <2>1. RevGoto(r, IdleRev) /\ UNCHANGED <<review, rating, points, unpaid>> /\ unpaid \subseteq Orders
    BY <1>2, <1>3 DEF CreateReview, ReviewsInv, TypeOK
  <2> QED BY <2>1, ReviewEnds
<1>4. CASE review[o] = 0
  <2> DEFINE x == [rev[r] EXCEPT !.pc = "aggregate"]
             k == rev[r].rating
  <2>1. /\ review' = [review EXCEPT ![o] = k] /\ rev' = [rev EXCEPT ![r] = x]
        /\ UNCHANGED <<rating, points, unpaid>> /\ UNCHANGED <<ad, order, req, told, priced>>
    BY <1>2, <1>4 DEF CreateReview, RevGoto, ordersVars
  <2>2. x \in ReviewReq /\ x.pc = "aggregate" /\ x.order = {o} /\ x.rating = k /\ x.count = rev[r].count
    BY <1>1, <1>2 DEF ReviewReq
  <2>3. k \in Ratings /\ k # 0
    BY <1>1 DEF ReviewsAssumption
  <2> HIDE DEF x, k
  <2>4. rev \in [Reviewers -> ReviewReq] /\ review \in [Orders -> Ratings \cup {0}]
    BY DEF ReviewsInv, TypeOK, ReviewReq
  <2>5. /\ rev' \in [Reviewers -> ReviewReq] /\ \A q \in Reviewers : rev'[q] = IF q = r THEN x ELSE rev[q]
        /\ review' \in [Orders -> Ratings \cup {0}]
    BY <2>1, <2>2, <2>3, <2>4
  <2>6. Rated' = Rated \cup {o} /\ o \notin Rated
    BY <1>4, <2>1, <2>3, <2>4 DEF Rated
  <2>7. Cardinality(Rated') = Cardinality(Rated) + 1
    BY <2>6, Sizes, FS_AddElement
  <2>8. OrdersInv'
    BY OrdersInductive DEF ReviewsInv
  <2>9. TypeOK'
    BY <2>1, <2>5, <2>8 DEF ReviewsInv, TypeOK, OrdersInv, ReviewReq
  <2>10. ReviewsAreOfCompleted'
    BY <1>2, <2>1, <2>6 DEF ReviewsInv, ReviewsAreOfCompleted, Placed
  <2>11. CountNeverAhead'
    BY <2>1, <2>7, Sizes DEF ReviewsInv, TypeOK, CountNeverAhead
  <2>12. \A q \in Reviewers : ReviewKnows(rev[q])'
    <3>1. \A q \in Reviewers : /\ rev'[q].pc # "idle" => /\ rev'[q].rating \in Ratings
                                  /\ \E p \in Orders : rev'[q].order = {p} /\ Placed(p) /\ order[p].status = "COMPLETED"
                               /\ rev'[q].count \in Nat /\ rev'[q].count <= Cardinality(Rated)
      BY <1>1, <1>2, <2>2, <2>3, <2>4, <2>5 DEF ReviewsInv, ReviewKnows, ReviewReq
    <3> QED BY <2>1, <2>7, <3>1, Sizes DEF ReviewKnows, Placed
  <2>13. RewardedOnce'
    <3> SUFFICES ASSUME NEW b \in Buyers
                 PROVE  points'[b] + 15 * Cardinality(Owing(b)') <= 15 * Cardinality(Written(b)')
      BY DEF RewardedOnce, Owing, Written, REVIEW_REWARD_POINTS
    <3>1. points[b] + 15 * Cardinality(Owing(b)) <= 15 * Cardinality(Written(b)) /\ points[b] \in Nat
      BY RewardedOnceIs DEF ReviewsInv, TypeOK
    <3>2. CASE order[o].buyer = b
      <4>1. Written(b)' = Written(b) \cup {o} /\ o \notin Written(b)
        BY <2>1, <2>6, <3>2 DEF Written
      <4>2. Owing(b)' = Owing(b) \cup {r} /\ r \notin Owing(b)
        BY <1>1, <1>2, <2>1, <2>2, <2>5, <3>2 DEF Owing
      <4>3. /\ Cardinality(Written(b)') = Cardinality(Written(b)) + 1
            /\ Cardinality(Owing(b)') = Cardinality(Owing(b)) + 1
        BY <4>1, <4>2, Sizes, FS_AddElement
      <4> QED BY <2>1, <3>1, <4>3, Sizes
    <3>3. CASE order[o].buyer # b
      <4>1. Written(b)' = Written(b) /\ Owing(b)' = Owing(b)
        BY <1>1, <1>2, <2>1, <2>2, <2>5, <2>6, <3>3 DEF Written, Owing
      <4> QED BY <2>1, <3>1, <4>1
    <3> QED BY <3>2, <3>3
  <2> QED BY <2>8, <2>9, <2>10, <2>11, <2>12, <2>13 DEF ReviewsInv
<1> QED BY <1>3, <1>4

\* The aggregate is read whole.
LEMMA AggregateStep ==
  ASSUME AdOrdersAssumption, ReviewsAssumption, ReviewsInv, NEW r \in Reviewers,
         AggregateForAd(r), UNCHANGED ordersVars
  PROVE  ReviewsInv'
<1> DEFINE x == [rev[r] EXCEPT !.pc = "rate", !.average = Average, !.count = Cardinality(Rated)]
<1>1. rev[r] \in ReviewReq /\ ReviewKnows(rev[r]) /\ rev[r].pc = "aggregate"
  BY InFlight DEF AggregateForAd, RevAt
<1>2. review \in [Orders -> 0 .. 5] /\ IsFiniteSet(Orders)
  <2>1. review \in [Orders -> Ratings \cup {0}] /\ Ratings \cup {0} \subseteq 0 .. 5
    BY DEF ReviewsInv, TypeOK, ReviewsAssumption
  <2> QED BY <2>1 DEF AdOrdersAssumption
<1>3. Average \in 0 .. 50 /\ Cardinality(Rated) \in Nat
  BY <1>2, AverageType, Sizes
<1>4. RevGoto(r, x) /\ UNCHANGED <<review, rating, points, unpaid>>
  BY DEF AggregateForAd
<1>5. /\ x \in ReviewReq /\ x.pc = "rate" /\ x.order = rev[r].order /\ x.rating = rev[r].rating
      /\ x.count = Cardinality(Rated)
  BY <1>1, <1>3 DEF ReviewReq
<1> HIDE DEF x
<1>6. ReviewKnows(x)
  BY <1>1, <1>3, <1>5 DEF ReviewKnows
<1>7. rating \in [average : 0 .. 50, count : Nat] /\ rating.count <= Cardinality(Rated) /\ unpaid \subseteq Orders
  BY DEF ReviewsInv, TypeOK, CountNeverAhead
<1> QED BY <1>1, <1>4, <1>5, <1>6, <1>7, ReviewKeeps DEF Storing

LEMMA RateStep ==
  ASSUME AdOrdersAssumption, ReviewsAssumption, ReviewsInv, NEW r \in Reviewers,
         UpdateAdRating(r), UNCHANGED ordersVars
  PROVE  ReviewsInv'
<1> DEFINE x == [rev[r] EXCEPT !.pc = "reward"]
<1>1. rev[r] \in ReviewReq /\ ReviewKnows(rev[r]) /\ rev[r].pc = "rate"
  BY InFlight DEF UpdateAdRating, RevAt
<1>2. RevGoto(r, x) /\ UNCHANGED <<review, points, unpaid>> /\ unpaid \subseteq Orders
  BY DEF UpdateAdRating, ReviewsInv, TypeOK
<1>3. rating' \in [average : 0 .. 50, count : Nat] /\ rating'.count <= Cardinality(Rated)
  BY <1>1 DEF UpdateAdRating, ReviewReq, ReviewKnows
<1>4. x \in ReviewReq /\ x.pc = "reward" /\ x.order = rev[r].order /\ ReviewKnows(x)
  BY <1>1 DEF ReviewReq, ReviewKnows
<1> HIDE DEF x
<1> QED BY <1>1, <1>2, <1>3, <1>4, ReviewKeeps DEF Storing

LEMMA ReviewAbortStep ==
  ASSUME AdOrdersAssumption, ReviewsAssumption, ReviewsInv, NEW r \in Reviewers,
         AbortReview(r), UNCHANGED ordersVars
  PROVE  ReviewsInv'
<1>1. unpaid' \subseteq Orders
  BY InFlight DEF AbortReview, ReviewsInv, TypeOK, ReviewReq
<1> QED BY <1>1, ReviewEnds DEF AbortReview

\* The points: the buyer gets what one of the requests owed.
LEMMA RewardStep ==
  ASSUME AdOrdersAssumption, ReviewsAssumption, ReviewsInv, NEW r \in Reviewers,
         IncrementRewardPoints(r), UNCHANGED ordersVars
  PROVE  ReviewsInv'
<1>1. PICK o \in Orders : rev[r].order = {o} /\ Placed(o) /\ order[o].status = "COMPLETED"
  BY InFlight DEF IncrementRewardPoints, RevAt
<1>2. /\ points' = [points EXCEPT ![order[o].buyer] = @ + 15] /\ rev' = [rev EXCEPT ![r] = IdleRev]
      /\ UNCHANGED <<review, rating, unpaid>> /\ UNCHANGED <<ad, order, req, told, priced>>
      /\ rev[r].pc = "reward"
  BY <1>1 DEF IncrementRewardPoints, RevGoto, RevAt, ordersVars, REVIEW_REWARD_POINTS
<1>3. rev \in [Reviewers -> ReviewReq] /\ points \in [Buyers -> Nat]
  BY DEF ReviewsInv, TypeOK, ReviewReq
<1>4. rev' \in [Reviewers -> ReviewReq] /\ \A q \in Reviewers : rev'[q] = IF q = r THEN IdleRev ELSE rev[q]
  BY <1>2, <1>3, IdleReviewFacts
<1>5. /\ points' \in [Buyers -> Nat]
      /\ \A b \in Buyers : points'[b] = IF b = order[o].buyer THEN points[b] + 15 ELSE points[b]
  <2> DEFINE buyer == order[o].buyer
  <2>1. points' = [points EXCEPT ![buyer] = points[buyer] + 15]
    BY <1>2
  <2> HIDE DEF buyer
  <2>2. \A b \in Buyers : points'[b] = IF b = buyer THEN points[b] + 15 ELSE points[b]
    BY <1>3, <2>1
  <2>3. points' \in [Buyers -> Nat]
    <3>1. CASE buyer \in Buyers
      BY <1>3, <2>1, <3>1
    <3>2. CASE buyer \notin Buyers
      BY <1>3, <2>1, <3>2
    <3> QED BY <3>1, <3>2
  <2> QED BY <2>2, <2>3 DEF buyer
<1>6. OrdersInv'
  BY OrdersInductive DEF ReviewsInv
<1>7. TypeOK'
  BY <1>2, <1>4, <1>5, <1>6 DEF ReviewsInv, TypeOK, OrdersInv, ReviewReq
<1>8. Rated' = Rated
  BY <1>2 DEF Rated
<1>9. ReviewsAreOfCompleted' /\ CountNeverAhead'
  BY <1>2, <1>8 DEF ReviewsInv, ReviewsAreOfCompleted, CountNeverAhead, Placed
<1>10. \A q \in Reviewers : ReviewKnows(rev[q])'
  <2>1. \A q \in Reviewers : ReviewKnows(rev'[q])
    BY <1>4, IdleReviewFacts DEF ReviewsInv
  <2> QED BY <1>2, <1>8, <2>1 DEF ReviewKnows, Placed
<1>11. RewardedOnce'
  <2> SUFFICES ASSUME NEW b \in Buyers
               PROVE  points'[b] + 15 * Cardinality(Owing(b)') <= 15 * Cardinality(Written(b)')
    BY DEF RewardedOnce, Owing, Written, REVIEW_REWARD_POINTS
  <2>1. points[b] + 15 * Cardinality(Owing(b)) <= 15 * Cardinality(Written(b)) /\ points[b] \in Nat
    BY <1>3, RewardedOnceIs DEF ReviewsInv
  <2>2. Written(b)' = Written(b)
    BY <1>2, <1>8 DEF Written
  <2>3. CASE order[o].buyer = b
    <3>1. Owing(b)' = Owing(b) \ {r} /\ r \in Owing(b)
      BY <1>1, <1>2, <1>4, <2>3, IdleReviewFacts DEF Owing
    <3>2. Cardinality(Owing(b)') = Cardinality(Owing(b)) - 1
      BY <3>1, Sizes, FS_RemoveElement
    <3> QED BY <1>5, <2>1, <2>2, <2>3, <3>2, Sizes
  <2>4. CASE order[o].buyer # b
    <3>1. Owing(b)' = Owing(b)
      BY <1>1, <1>2, <1>4, <2>4, IdleReviewFacts DEF Owing
    <3> QED BY <1>5, <2>1, <2>2, <2>4, <3>1
  <2> QED BY <2>3, <2>4
<1> QED BY <1>6, <1>7, <1>9, <1>10, <1>11 DEF ReviewsInv

\* The orders go on moving: who rated or is rating a finished order finds it
\* as it was.
LEMMA OrdersStep ==
  ASSUME AdOrdersAssumption, ReviewsAssumption, ReviewsInv, [OrdersNext]_ordersVars, UNCHANGED reviewVars
  PROVE  ReviewsInv'
<1>1. UNCHANGED <<review, rating, points, rev, unpaid>>
  BY DEF reviewVars
<1>2. OrdersInv'
  BY OrdersInductive DEF ReviewsInv
<1>3. \A o \in Orders : Placed(o) /\ order[o].status = "COMPLETED" => order'[o] = order[o]
  BY OrdersAdvance DEF ReviewsInv, Advances, Placed
<1>4. Rated' = Rated /\ Rated \subseteq Orders
  BY <1>1 DEF Rated
<1>5. TypeOK'
  BY <1>1, <1>2 DEF ReviewsInv, TypeOK, OrdersInv
<1>6. ReviewsAreOfCompleted' /\ CountNeverAhead'
  BY <1>1, <1>3, <1>4 DEF ReviewsInv, ReviewsAreOfCompleted, CountNeverAhead, Placed
<1>7. \A q \in Reviewers : ReviewKnows(rev[q])'
  BY <1>1, <1>3, <1>4 DEF ReviewsInv, ReviewKnows, Placed
<1>8. RewardedOnce'
  <2> SUFFICES ASSUME NEW b \in Buyers
               PROVE  points'[b] + 15 * Cardinality(Owing(b)') <= 15 * Cardinality(Written(b)')
    BY DEF RewardedOnce, Owing, Written, REVIEW_REWARD_POINTS
  <2>1. Written(b)' = Written(b)
    BY <1>3, <1>4 DEF Written, ReviewsInv, ReviewsAreOfCompleted
  <2>2. Owing(b)' = Owing(b)
    BY <1>1, <1>3 DEF Owing, ReviewsInv, ReviewKnows
  <2> QED BY <1>1, <2>1, <2>2, RewardedOnceIs DEF ReviewsInv
<1> QED BY <1>2, <1>5, <1>6, <1>7, <1>8 DEF ReviewsInv

(***************************************************************************)
(* The reviews: theorems                                                   *)
(***************************************************************************)

LEMMA ReviewsInitially == AdOrdersAssumption /\ ReviewsAssumption /\ Init => ReviewsInv
<1> SUFFICES ASSUME AdOrdersAssumption, ReviewsAssumption, Init PROVE ReviewsInv
  OBVIOUS
<1>1. OrdersInv
  BY OrdersInitially DEF Init
<1>2. IdleRev \in ReviewReq /\ IdleRev.pc = "idle" /\ ReviewKnows(IdleRev)
  BY IdleReviewFacts
<1>3. TypeOK
  BY <1>1, <1>2 DEF Init, TypeOK, OrdersInv, ReviewReq
<1>4. Rated = {}
  BY DEF Init, Rated
<1>5. ReviewsAreOfCompleted /\ CountNeverAhead
  BY <1>4, FS_EmptySet DEF Init, ReviewsAreOfCompleted, CountNeverAhead
<1>6. RewardedOnce
  <2>1. \A b \in Buyers : Owing(b) = {} /\ Written(b) = {} /\ points[b] = 0
    BY <1>2, <1>4 DEF Init, Owing, Written
  <2> QED BY <2>1, FS_EmptySet, RewardedOnceIs
<1> QED BY <1>1, <1>2, <1>3, <1>5, <1>6 DEF ReviewsInv, Init

LEMMA ReviewsInductive ==
  ASSUME AdOrdersAssumption, ReviewsAssumption, ReviewsInv, [Next]_vars PROVE ReviewsInv'
<1>1. ASSUME NEW r \in Reviewers, ReviewStep(r), UNCHANGED ordersVars PROVE ReviewsInv'
  BY <1>1, SubmitStep, LookStep, StoreStep, AggregateStep, RateStep, RewardStep, ReviewAbortStep DEF ReviewStep
<1>2. CASE UNCHANGED vars
  BY <1>2, OrdersStep DEF vars
<1> QED BY <1>1, <1>2, OrdersStep DEF Next

\* However two requests race, an order moves on or a request dies: a review
\* belongs to an order that is completed, its points are earned at most once,
\* and the count shown never runs ahead of the reviews (ReviewsService).
THEOREM Earned ==
  ASSUME AdOrdersAssumption, ReviewsAssumption PROVE Spec => []ReviewsAreEarned
<1>1. ReviewsInv => ReviewsAreEarned
  BY DEF ReviewsInv, ReviewsAreEarned
<1> QED BY <1>1, ReviewsInitially, ReviewsInductive, PTL DEF Spec
=============================================================================
