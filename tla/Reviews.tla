------------------------------ MODULE Reviews ------------------------------
(***************************************************************************)
(* Buyers rate the orders of AdOrders that were completed (ReviewsService  *)
(* and its repository): the review is stored, the listing's rating is      *)
(* computed again from all of them, and the buyer earns points.  The       *)
(* orders go on moving meanwhile.                                          *)
(*                                                                         *)
(* A step is one database statement.  Averages are in tenths.              *)
(***************************************************************************)
EXTENDS AdOrders

CONSTANTS
    Reviewers,   \* slots for the requests that rate an order
    Ratings      \* what a buyer may answer, 1 .. 5

\* What the constants must satisfy.
ReviewsAssumption == Ratings \subseteq 1 .. 5 /\ IsFiniteSet(Reviewers)

VARIABLES
    review,   \* the rating each order was given, 0 without one
    rating,   \* ratingAverage and ratingCount of the listing
    points,   \* the buyers' reward points
    rev,      \* the requests in flight
    unpaid    \* history: the orders whose review was stored by a request that died

reviewVars == <<review, rating, points, rev, unpaid>>
vars == <<ordersVars, reviewVars>>

REVIEW_REWARD_POINTS == 15

\* What a buyer sends; the tags and the comment are carried along.
SubmitReviewDto == [rating : Ratings]

\* The order and the rating given; the aggregate it read.
IdleRev == [pc |-> "idle", order |-> {}, rating |-> 0, average |-> 0, count |-> 0]

Init ==
    /\ OrdersInit
    /\ review = [o \in Orders |-> 0]
    /\ rating = [average |-> 0, count |-> 0]
    /\ points = [b \in Buyers |-> 0]
    /\ rev = [r \in Reviewers |-> IdleRev]
    /\ unpaid = {}

RevAt(r, pc) == rev[r].pc = pc
RevGoto(r, x) == rev' = [rev EXCEPT ![r] = x]

\* submitReview(): the buyer's order was read, and it is completed.
SubmitReview(r, o, dto) ==
    /\ RevAt(r, "idle")
    /\ Placed(o)
    /\ order[o].status = "COMPLETED"
    /\ RevGoto(r, [IdleRev EXCEPT !.pc = "find", !.order = {o}, !.rating = dto.rating])
    /\ UNCHANGED <<review, rating, points, unpaid>>

\* assertReviewable(): an order that has its review is refused.
FindByAdOrderId(r) ==
    /\ RevAt(r, "find")
    /\ \E o \in rev[r].order : RevGoto(r, IF review[o] # 0 THEN IdleRev ELSE [rev[r] EXCEPT !.pc = "create"])
    /\ UNCHANGED <<review, rating, points, unpaid>>

CreateReview_NoUnique(r) ==  \* as if an order could be rated twice
    /\ RevAt(r, "create")
    /\ \E o \in rev[r].order : review' = [review EXCEPT ![o] = rev[r].rating]
    /\ RevGoto(r, [rev[r] EXCEPT !.pc = "aggregate"])
    /\ UNCHANGED <<rating, points, unpaid>>

\* The insert; the unique order refuses a second one.
CreateReview(r) ==
    /\ RevAt(r, "create")
    /\ \E o \in rev[r].order :
          IF review[o] # 0
          THEN RevGoto(r, IdleRev) /\ UNCHANGED review
          ELSE /\ review' = [review EXCEPT ![o] = rev[r].rating]
               /\ RevGoto(r, [rev[r] EXCEPT !.pc = "aggregate"])
    /\ UNCHANGED <<rating, points, unpaid>>

Rated == {o \in Orders : review[o] # 0}

\* How many reviews gave the rating k.
Giving(k) == Cardinality({o \in Orders : review[o] = k})

\* Math.round of the average in tenths, over all the reviews there are.
Average ==
    LET count == Cardinality(Rated)
        sum == Giving(1) + 2 * Giving(2) + 3 * Giving(3) + 4 * Giving(4) + 5 * Giving(5)
    IN  IF count = 0 THEN 0 ELSE (20 * sum + count) \div (2 * count)

AggregateForAd(r) ==
    /\ RevAt(r, "aggregate")
    /\ RevGoto(r, [rev[r] EXCEPT !.pc = "rate", !.average = Average, !.count = Cardinality(Rated)])
    /\ UNCHANGED <<review, rating, points, unpaid>>

UpdateAdRating_Ends(r) ==  \* as if the request were answered before the points are added
    /\ RevAt(r, "rate")
    /\ rating' = [average |-> rev[r].average, count |-> rev[r].count]
    /\ RevGoto(r, IdleRev)
    /\ UNCHANGED <<review, points, unpaid>>

UpdateAdRating(r) ==
    /\ RevAt(r, "rate")
    /\ rating' = [average |-> rev[r].average, count |-> rev[r].count]
    /\ RevGoto(r, [rev[r] EXCEPT !.pc = "reward"])
    /\ UNCHANGED <<review, points, unpaid>>

IncrementRewardPoints(r) ==
    /\ RevAt(r, "reward")
    /\ \E o \in rev[r].order : points' = [points EXCEPT ![order[o].buyer] = @ + REVIEW_REWARD_POINTS]
    /\ RevGoto(r, IdleRev)
    /\ UNCHANGED <<review, rating, unpaid>>

\* A request dies between two of its steps.
AbortReview(r) ==
    /\ "review" \in MayDie
    /\ ~RevAt(r, "idle")
    /\ RevGoto(r, IdleRev)
    /\ unpaid' = IF rev[r].pc \in {"aggregate", "rate", "reward"} THEN unpaid \cup rev[r].order ELSE unpaid
    /\ UNCHANGED <<review, rating, points>>

\* POST /bookings/:id/reviews.
ReviewStep(r) ==
    \/ \E o \in Orders, dto \in SubmitReviewDto : SubmitReview(r, o, dto)
    \/ FindByAdOrderId(r)
    \/ CreateReview(r)
    \/ AggregateForAd(r)
    \/ UpdateAdRating(r)
    \/ IncrementRewardPoints(r)
    \/ AbortReview(r)

Next ==
    \/ OrdersNext /\ UNCHANGED reviewVars
    \/ \E r \in Reviewers : ReviewStep(r) /\ UNCHANGED ordersVars

Spec == Init /\ [][Next]_vars

\* Every step of a request is a database statement that answers, so a request
\* that does not die goes on.
Fairness == \A r \in Reviewers : WF_vars((CreateReview(r) \/ FindByAdOrderId(r) \/ AggregateForAd(r)
                    \/ UpdateAdRating(r) \/ IncrementRewardPoints(r)) /\ UNCHANGED ordersVars)
FairSpec == Spec /\ Fairness

(***************************************************************************)
(* Properties                                                              *)
(***************************************************************************)

\* The rows and requests of a review have the shape of the schema.
TypeOK ==
    /\ OrdersTypeOK
    /\ review \in [Orders -> Ratings \cup {0}]
    /\ rating \in [average : 0 .. 50, count : Nat]
    /\ points \in [Buyers -> Nat]
    /\ unpaid \subseteq Orders
    /\ rev \in [Reviewers -> [pc : {"idle", "find", "create", "aggregate", "rate", "reward"},
                              order : SUBSET Orders, rating : Ratings \cup {0}, average : 0 .. 50, count : Nat]]

\* "The person who paid is the one who gets to rate it": a review belongs to
\* an order that is completed and stays so.
ReviewsAreOfCompleted == \A o \in Rated : Placed(o) /\ order[o].status = "COMPLETED"

\* "One review per order - unique, so an order cannot be rated twice": points
\* are earned once per review, those of requests under way included.
RewardedOnce ==
    \A b \in Buyers :
        points[b] + REVIEW_REWARD_POINTS * Cardinality({r \in Reviewers :
                rev[r].pc \in {"aggregate", "rate", "reward"} /\ \E o \in rev[r].order : order[o].buyer = b})
            <= REVIEW_REWARD_POINTS * Cardinality({o \in Rated : order[o].buyer = b})

\* The count shown never runs ahead of the reviews there are, whichever of two
\* requests writes the rating last.
CountNeverAhead == rating.count <= Cardinality(Rated)

\* A review belongs to an order that is completed and stays so, points are
\* earned once per review, those of requests under way included, and the count
\* shown never runs ahead of the reviews there are (ReviewsService).
ReviewsAreEarned == TypeOK /\ ReviewsAreOfCompleted /\ RewardedOnce /\ CountNeverAhead

\* Every review that is stored is paid for in the end, apart from those whose
\* request died before the points: no retry comes back to them.
ReviewsAreRewarded ==
    \A b \in Buyers :
        <>[](points[b] = REVIEW_REWARD_POINTS * Cardinality({o \in Rated \ unpaid : order[o].buyer = b}))

\* "Recomputed whole on each new review rather than nudged, so it cannot
\* drift": with no request under way the listing shows the rating of the
\* reviews it has.
RatingCannotDrift ==
    (\A r \in Reviewers : RevAt(r, "idle")) => rating = [average |-> Average, count |-> Cardinality(Rated)]
=============================================================================
