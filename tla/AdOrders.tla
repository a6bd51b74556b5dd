------------------------------ MODULE AdOrders ------------------------------
(***************************************************************************)
(* Orders and enquiries on one marketplace listing (AdOrdersService and    *)
(* its repository): buyers place them, the seller, an ELK Rental admin and *)
(* the buyer move them on, and the other side is told.                     *)
(*                                                                         *)
(* A step is one database statement or one notification.  The address, the *)
(* dates and the fees the buyer's screen quoted are carried along and left *)
(* out.  The listing is what Marketplace makes of it: live or not, and     *)
(* repriced at any time.                                                   *)
(***************************************************************************)
EXTENDS Integers, FiniteSets

CONSTANTS
    Orders,       \* ids of orders
    Buyers,
    Devices,      \* slots for requests
    Prices,       \* prices the listing may have
    Quantities,   \* units one order may ask for
    Nobody,       \* the buyer of an order that does not exist
    MayDie        \* the requests that can die between two steps: a subset of {"order", "review"}

\* What the constants must satisfy.
AdOrdersAssumption ==
    /\ IsFiniteSet(Orders)
    /\ MayDie \subseteq {"order", "review"}
    /\ Prices \subseteq Nat \ {0}
    /\ Quantities \subseteq 1 .. 99
    /\ Nobody \notin Buyers

VARIABLES
    ad,      \* the listing: whether buyers see it, its price, whether it is a rental
    order,   \* the AdOrder rows
    req,     \* the requests in flight
    told,    \* how often a notification of each status was tried, per order
    priced   \* history: the prices the listing has had

ordersVars == <<ad, order, req, told, priced>>

AdOrderStatus == {"NEW", "IN_PROGRESS", "COMPLETED", "CANCELLED"}
Parties == {"seller", "buyer", "admin"}

\* A seller works an order forward; a buyer may only walk away.
SELLER_TRANSITIONS ==
    [NEW |-> {"IN_PROGRESS", "CANCELLED"}, IN_PROGRESS |-> {"COMPLETED", "CANCELLED"},
     COMPLETED |-> {}, CANCELLED |-> {}]

BUYER_TRANSITIONS == [NEW |-> {"CANCELLED"}, IN_PROGRESS |-> {}, COMPLETED |-> {}, CANCELLED |-> {}]

\* What a buyer sends; the quantity defaults to one.
CreateAdOrderDto == [isEnquiry : BOOLEAN, quantity : Quantities \cup {1}]

NoOrder == [state |-> "absent", buyer |-> Nobody, isEnquiry |-> FALSE, quantity |-> 1, amount |-> 0,
            status |-> "NEW", accepted |-> FALSE, completed |-> FALSE, cancelled |-> FALSE]

\* A slot without a request: the buyer and what place() read, or the order,
\* who moves it, the status read and the one to write.
IdleReq == [pc |-> "idle", buyer |-> Nobody, isEnquiry |-> FALSE, quantity |-> 1, price |-> 0,
            order |-> {}, who |-> "buyer", from |-> "NEW", next |-> "NEW"]

OrdersInit ==
    /\ ad \in [live : {TRUE}, price : Prices, rental : BOOLEAN]
    /\ order = [o \in Orders |-> NoOrder]
    /\ req = [d \in Devices |-> IdleReq]
    /\ told = [o \in Orders |-> [s \in AdOrderStatus |-> 0]]
    /\ priced = {ad.price}

At(d, pc) == req[d].pc = pc
Goto(d, r) == req' = [req EXCEPT ![d] = r]
Placed(o) == order[o].state = "placed"

(***************************************************************************)
(* place()                                                                 *)
(***************************************************************************)

\* The listing is live.  Its seller, who may not order it, is not one of the
\* buyers.
Place(d, b, dto) ==
    /\ At(d, "idle")
    /\ ad.live
    /\ Goto(d, [IdleReq EXCEPT !.pc = IF dto.isEnquiry THEN "find" ELSE "create", !.buyer = b,
                               !.isEnquiry = dto.isEnquiry, !.quantity = dto.quantity, !.price = ad.price])
    /\ UNCHANGED <<ad, order, told, priced>>

OpenEnquiries(b) ==
    {o \in Orders : Placed(o) /\ order[o].buyer = b /\ order[o].isEnquiry /\ order[o].status # "CANCELLED"}

\* findOpenEnquiry(): a buyer who has one is answered with it.
FindOpenEnquiry(d) ==
    /\ At(d, "find")
    /\ Goto(d, IF OpenEnquiries(req[d].buyer) # {} THEN IdleReq ELSE [req[d] EXCEPT !.pc = "create"])
    /\ UNCHANGED <<ad, order, told, priced>>

\* The row: an enquiry costs nothing, an order the price read times quantity.
NewOrder(r) ==
    [NoOrder EXCEPT !.state = "placed", !.buyer = r.buyer, !.isEnquiry = r.isEnquiry,
                    !.quantity = r.quantity, !.amount = IF r.isEnquiry THEN 0 ELSE r.price * r.quantity]

\* The insert; nothing but the random code is unique.
CreateOrder(d, o) ==
    /\ At(d, "create")
    /\ ~Placed(o)
    /\ order' = [order EXCEPT ![o] = NewOrder(req[d])]
    /\ Goto(d, [req[d] EXCEPT !.pc = "tellSeller", !.order = {o}])
    /\ UNCHANGED <<ad, told, priced>>

\* The seller is told of a new order or enquiry.
TellSeller(d) ==
    /\ At(d, "tellSeller")
    /\ told' = [o \in Orders |-> [told[o] EXCEPT !["NEW"] = IF o \in req[d].order THEN @ + 1 ELSE @]]
    /\ Goto(d, IdleReq)
    /\ UNCHANGED <<ad, order, priced>>

(***************************************************************************)
(* setStatus()                                                             *)
(***************************************************************************)

Allowed(who, status) == IF who = "buyer" THEN BUYER_TRANSITIONS[status] ELSE SELLER_TRANSITIONS[status]

\* The order was read by its buyer, its seller or an admin of rentals, and
\* the move is one that party may make from there.
SetStatus(d, who, o, next) ==
    /\ At(d, "idle")
    /\ Placed(o)
    /\ who = "admin" => ad.rental
    /\ next \in Allowed(who, order[o].status)
    /\ Goto(d, [IdleReq EXCEPT !.pc = "move", !.order = {o}, !.who = who,
                               !.from = order[o].status, !.next = next])
    /\ UNCHANGED <<ad, order, told, priced>>

\* The row after the move, with its stamp.
Moved(row, next) ==
    [row EXCEPT !.status = next,
                !.accepted = @ \/ next = "IN_PROGRESS",
                !.completed = @ \/ next = "COMPLETED",
                !.cancelled = @ \/ next = "CANCELLED"]

UpdateStatus_BuyersOnly(d) ==  \* as if only the buyer's moves were conditional
    /\ At(d, "move")
    /\ \E o \in req[d].order :
          /\ order' = IF req[d].who = "buyer" /\ order[o].status # req[d].from THEN order
                      ELSE [order EXCEPT ![o] = Moved(@, req[d].next)]
          /\ Goto(d, IF order[o].status = req[d].from THEN [req[d] EXCEPT !.pc = "tell"] ELSE IdleReq)
    /\ UNCHANGED <<ad, told, priced>>

UpdateStatus_NotCounted(d) ==  \* as if the count of rows updated were not looked at
    /\ At(d, "move")
    /\ \E o \in req[d].order :
          order' = IF order[o].status = req[d].from THEN [order EXCEPT ![o] = Moved(@, req[d].next)] ELSE order
    /\ Goto(d, [req[d] EXCEPT !.pc = "tell"])
    /\ UNCHANGED <<ad, told, priced>>

\* updateStatus(): only if the order still is what was read.
UpdateStatus(d) ==
    /\ At(d, "move")
    /\ \E o \in req[d].order :
          IF order[o].status = req[d].from
          THEN /\ order' = [order EXCEPT ![o] = Moved(@, req[d].next)]
               /\ Goto(d, [req[d] EXCEPT !.pc = "tell"])
          ELSE Goto(d, IdleReq) /\ UNCHANGED order
    /\ UNCHANGED <<ad, told, priced>>

\* The other party is told; the request is answered whether or not that works.
TellOtherParty(d) ==
    /\ At(d, "tell")
    /\ told' = [o \in Orders |-> [told[o] EXCEPT ![req[d].next] = IF o \in req[d].order THEN @ + 1 ELSE @]]
    /\ Goto(d, IdleReq)
    /\ UNCHANGED <<ad, order, priced>>

\* A request dies between two of its steps.
AbortOrder(d) ==
    /\ "order" \in MayDie
    /\ ~At(d, "idle")
    /\ Goto(d, IdleReq)
    /\ UNCHANGED <<ad, order, told, priced>>

\* The listing's seller reprices it, pauses it or shows it again.
SellerEdits(price, live) ==
    /\ ad' = [ad EXCEPT !.price = price, !.live = live]
    /\ priced' = priced \cup {price}
    /\ UNCHANGED <<order, req, told>>

(***************************************************************************)
(* The system                                                              *)
(***************************************************************************)

\* The routes on orders.
OrderStep(d) ==
    \/ \E b \in Buyers, dto \in CreateAdOrderDto : Place(d, b, dto)
    \/ FindOpenEnquiry(d)
    \/ \E o \in Orders : CreateOrder(d, o)
    \/ \E who \in Parties, o \in Orders, next \in AdOrderStatus : SetStatus(d, who, o, next)
    \/ UpdateStatus(d)
    \/ TellSeller(d)
    \/ TellOtherParty(d)
    \/ AbortOrder(d)

OrdersNext ==
    \/ \E d \in Devices : OrderStep(d)
    \/ \E price \in Prices, live \in BOOLEAN : SellerEdits(price, live)

OrdersSpec == OrdersInit /\ [][OrdersNext]_ordersVars

(***************************************************************************)
(* Properties                                                              *)
(***************************************************************************)

AdOrder == [state : {"absent", "placed"}, buyer : Buyers \cup {Nobody}, isEnquiry : BOOLEAN,
            quantity : Quantities \cup {1}, amount : Nat, status : AdOrderStatus,
            accepted : BOOLEAN, completed : BOOLEAN, cancelled : BOOLEAN]
OrderReq == [pc : {"idle", "find", "create", "tellSeller", "move", "tell"}, buyer : Buyers \cup {Nobody},
             isEnquiry : BOOLEAN, quantity : Quantities \cup {1}, price : Prices \cup {0},
             order : SUBSET Orders, who : Parties, from : AdOrderStatus, next : AdOrderStatus]

\* Every row and every request has the shape of the schema.
OrdersTypeOK ==
    /\ ad \in [live : BOOLEAN, price : Prices, rental : BOOLEAN]
    /\ order \in [Orders -> AdOrder]
    /\ req \in [Devices -> OrderReq]
    /\ told \in [Orders -> [AdOrderStatus -> Nat]]
    /\ priced \subseteq Prices

\* However buyer, seller and admin cross, the stamps tell one story: an order
\* is never both completed and cancelled, and is completed only once started.
StampsTellOneStory ==
    \A o \in Orders :
        LET row == order[o]
        IN  /\ row.status = "NEW" <=> ~(row.accepted \/ row.cancelled)
            /\ row.status = "IN_PROGRESS" <=> row.accepted /\ ~row.completed /\ ~row.cancelled
            /\ row.status = "COMPLETED" <=> row.completed
            /\ row.status = "CANCELLED" <=> row.cancelled
            /\ row.completed => row.accepted

\* "Two taps racing each other can't both cancel": each move of an order is
\* made, and told to the other party, at most once.
MovesAreToldOnce ==
    \A o \in Orders, s \in AdOrderStatus :
        told[o][s] + Cardinality({d \in Devices : req[d].pc \in {"tell", "tellSeller"} /\ req[d].order = {o} /\ req[d].next = s}) <= 1

\* The amount is a price the listing had when the buyer ordered, times the
\* quantity, and "asking to view a room" costs nothing; repricing the listing
\* "must not rewrite who was owed what for work already ordered".
AmountIsOfItsTime ==
    \A o \in Orders : Placed(o) =>
        IF order[o].isEnquiry THEN order[o].amount = 0
        ELSE \E p \in priced : order[o].amount = p * order[o].quantity

\* "A buyer has one conversation with a seller about a listing - not one per
\* tap."
OneOpenEnquiry == \A b \in Buyers : Cardinality(OpenEnquiries(b)) <= 1
=============================================================================
