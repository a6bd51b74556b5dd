---------------------------- MODULE OrderTracking ----------------------------
(***************************************************************************)
(* What the screens make of AdOrders while its orders move: the timeline   *)
(* of the tracking screen (orders.mapper) and the seller panel's figures   *)
(* (sellerActivity).  POST orders/:id/cancel is AdOrders' SetStatus.  All  *)
(* orders are of one seller; fees and tax, which are added to every        *)
(* amount, are left out.                                                   *)
(***************************************************************************)
EXTENDS AdOrders, Sequences, FiniteSetsExt

\* Order Placed, Seller Accepted, Work In Progress, Completed.
AD_ORDER_STEP_STATES ==
    [NEW         |-> <<"done", "active", "pending", "pending">>,
     IN_PROGRESS |-> <<"done", "done", "active", "pending">>,
     COMPLETED   |-> <<"done", "done", "done", "done">>,
     CANCELLED   |-> <<"done", "pending", "pending", "pending">>]

\* The instant of each step; an order that exists has createdAt.
Stamps(row) == <<TRUE, row.accepted, row.accepted, row.completed>>

adStepTime(stamped, status) ==
    CASE status = "pending" -> "none"
      [] status = "active"  -> "soon"
      [] OTHER              -> IF stamped THEN "time" ELSE "none"

toAdOrderTrackingJson(row) ==
    [i \in 1 .. 4 |-> [status |-> AD_ORDER_STEP_STATES[row.status][i],
                       time |-> adStepTime(Stamps(row)[i], AD_ORDER_STEP_STATES[row.status][i])]]

Having(statuses) == {o \in Orders : Placed(o) /\ order[o].status \in statuses}
AmountOf(o) == order[o].amount

sellerActivity_Ordered ==  \* as if the work were paid when it is ordered
    [activeOrders |-> Cardinality(Having({"NEW", "IN_PROGRESS"})),
     completedJobs |-> Cardinality(Having({"COMPLETED"})),
     totalEarnings |-> MapThenSumSet(AmountOf, Having({"NEW", "IN_PROGRESS", "COMPLETED"}))]

\* The panel's figures, read off the orders.
sellerActivity ==
    [activeOrders |-> Cardinality(Having({"NEW", "IN_PROGRESS"})),
     completedJobs |-> Cardinality(Having({"COMPLETED"})),
     totalEarnings |-> MapThenSumSet(AmountOf, Having({"COMPLETED"}))]

(***************************************************************************)
(* Properties                                                              *)
(***************************************************************************)

\* "A step with no stamp has not been reached": however the parties' moves
\* cross, a step shown as done has its time, and the steps done come first.
DoneStepsAreDated ==
    \A o \in Orders : Placed(o) =>
        LET steps == toAdOrderTrackingJson(order[o])
        IN  \A i \in 1 .. 4 : steps[i].status = "done" =>
                steps[i].time = "time" /\ \A j \in 1 .. i : steps[j].status = "done"

\* However buyer, seller and admin cross, the stamps of an order tell one story;
\* the tracking screen shows as done the first steps, each with its time; and
\* the amount is a price the listing had times the quantity, or nothing for an
\* enquiry, whatever is repriced (AdOrdersRepository.updateStatus,
\* AdOrdersService.place, orders.mapper).
OrderTellsOneStory ==
    /\ OrdersTypeOK
    /\ StampsTellOneStory
    /\ DoneStepsAreDated
    /\ AmountIsOfItsTime

\* "What the seller was actually paid": earnings and completed jobs never
\* shrink, whatever is repriced, cancelled or tapped twice afterwards.
EarningsOnlyGrow ==
    [][/\ sellerActivity'.totalEarnings >= sellerActivity.totalEarnings
       /\ sellerActivity'.completedJobs >= sellerActivity.completedJobs]_ordersVars

\* A cancelled order's timeline is "frozen where it stopped": the steps that
\* have a stamp stay done.
FrozenWhereItStopped ==
    \A o \in Orders : Placed(o) /\ order[o].status = "CANCELLED" =>
        (order[o].accepted => toAdOrderTrackingJson(order[o])[2].status = "done")
=============================================================================
