------------------------------ MODULE MCOrders ------------------------------
(***************************************************************************)
(* Orders and their reviews for TLC, in two parts: "trading", an order     *)
(* that buyer, seller and admin move from two devices with requests that   *)
(* may die, with its tracking screen and the seller's figures; "rating",   *)
(* two orders (no enquiries) of one price, each for one unit and from one  *)
(* device, that two requests, which may die, rate at once.                 *)
(***************************************************************************)
EXTENDS OrderTracking, Reviews

ASSUME OrdersAssumption == AdOrdersAssumption /\ ReviewsAssumption

VARIABLE part

MCInit ==
    /\ part \in {"trading", "rating"}
    /\ Init
    /\ part = "rating" => ad.price = 3 /\ ad.live /\ ~ad.rental

\* The bounds of each part.
TradingBound == order["o2"] = NoOrder
RatingBound ==
    /\ ad.price = 3 /\ ad.live
    /\ req["d2"] = IdleReq
    /\ req["d1"].quantity = 1 /\ ~req["d1"].isEnquiry

MCNext ==
    \/ part = "trading" /\ OrdersNext /\ TradingBound' /\ UNCHANGED <<part, reviewVars>>
    \/ part = "rating" /\ Next /\ RatingBound' /\ UNCHANGED part

MCSpec == MCInit /\ [][MCNext]_<<part, vars>> /\ Fairness
=============================================================================
