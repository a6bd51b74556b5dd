---------------------------- MODULE BookingRules ----------------------------
(***************************************************************************)
(* The pure rules of ELK's cleaning and repair bookings                    *)
(* (src/modules/home-services/home-services.rules.ts and the tables of     *)
(* src/modules/admin/admin-bookings.service.ts): what a booking costs,     *)
(* what a promo code takes off, what a late cancel keeps, which service    *)
(* area takes an address, and where a booking may move from each status.   *)
(*                                                                         *)
(* Every amount is in paise.  The code computes in rupees with two         *)
(* decimals, so a rupee rounding of the code is a rounding to a multiple   *)
(* of 100 here.                                                            *)
(***************************************************************************)
EXTENDS Integers, Sequences

(***************************************************************************)
(* Prices                                                                  *)
(***************************************************************************)

\* JavaScript's Math.round(n / d) for d > 0: the nearest integer, halves up.
RoundDiv(n, d) == (2 * n + d) \div (2 * d)

\* quote(): price is [hourlyRate, extraProRate, materialsFee].
Quote(price, hours, professionals, withMaterials) ==
    LET base == price.hourlyRate * hours
                  + price.extraProRate * hours * (professionals - 1)
        materials == IF withMaterials THEN price.materialsFee ELSE 0
    IN  [base |-> base, materials |-> materials, subtotal |-> base + materials]

Capped_ZeroIsACap(raw, maxDiscount) ==  \* as if zero were a cap like any other
    IF maxDiscount < raw THEN maxDiscount ELSE raw

\* A cap of zero means no cap.
Capped(raw, maxDiscount) ==
    IF maxDiscount > 0 /\ maxDiscount < raw THEN maxDiscount ELSE raw

Rejected == [ok |-> FALSE, discount |-> 0]

\* The percentage is rounded to whole rupees before the cap is applied.
PromoDiscount(promo, subtotal) ==
    Capped(100 * RoundDiv(subtotal * promo.percent, 100 * 100), promo.maxDiscount)

\* applyPromo(): promo is a set holding the row found, or the empty set for
\* an unknown code; the days are numbers.
ApplyPromo(promo, subtotal, today) ==
    IF \E p \in promo : p.validTill >= today /\ p.active /\ subtotal >= p.minOrder
    THEN LET p == CHOOSE p \in promo : TRUE
         IN  [ok |-> TRUE, discount |-> PromoDiscount(p, subtotal)]
    ELSE Rejected

\* What book() charges for an order [price, hours, professionals,
\* withMaterials, code, promo]: materials can only be asked for where they
\* have a fee, no code typed takes nothing off, and a code that does not
\* apply refuses the booking.
Charge(order, today) ==
    LET q == Quote(order.price, order.hours, order.professionals,
                   order.withMaterials /\ order.price.materialsFee > 0)
        applied == IF order.code THEN ApplyPromo(order.promo, q.subtotal, today)
                   ELSE [ok |-> TRUE, discount |-> 0]
    IN  [ok |-> applied.ok, subtotal |-> q.subtotal, discount |-> applied.discount,
         total |-> q.subtotal - applied.discount]

FREE_CANCELLATION_HOURS == 2

CANCELLATION_FEE_PERCENT_Most == 60  \* as if most of the price were kept

CANCELLATION_FEE_PERCENT == 10

CancellationFee_BeforeTwoHours(total, age) ==  \* as if exactly two hours were late
    IF age < FREE_CANCELLATION_HOURS * 60
    THEN 0
    ELSE RoundDiv(total * CANCELLATION_FEE_PERCENT, 100)

\* cancellationFee() for a booking made [age] minutes ago: the code rounds to
\* whole paise, and the first two hours, inclusive, are free.
CancellationFee(total, age) ==
    IF age <= FREE_CANCELLATION_HOURS * 60
    THEN 0
    ELSE RoundDiv(total * CANCELLATION_FEE_PERCENT, 100)

(***************************************************************************)
(* Service areas                                                           *)
(***************************************************************************)

\* matchArea(): areas is the sequence of active areas in the order the query
\* returns them.  Each is [mapped, km, radiusKm, inText]: whether it has
\* coordinates, its distance to the address, its radius, and whether its
\* pincode is one of the six-digit words of the address text.  The result is
\* an index of areas, 0 for none.
Covering(areas, located) ==
    {i \in DOMAIN areas : located /\ areas[i].mapped /\ areas[i].km <= areas[i].radiusKm}

\* The head of the stable sort by distance.
Nearest(areas, S) ==
    CHOOSE i \in S : \A j \in S : \/ areas[i].km < areas[j].km
                                  \/ areas[i].km = areas[j].km /\ i <= j

NamedInText(areas) == {i \in DOMAIN areas : areas[i].inText}

MatchArea_TextFirst(areas, located) ==  \* as if the text were looked at first
    LET covering == Covering(areas, located)
        named == NamedInText(areas)
    IN  IF named # {} THEN CHOOSE i \in named : \A j \in named : i <= j
        ELSE IF covering # {} THEN Nearest(areas, covering)
        ELSE 0

MatchArea(areas, located) ==
    LET covering == Covering(areas, located)
        named == NamedInText(areas)
    IN  IF covering # {} THEN Nearest(areas, covering)
        ELSE IF named # {} THEN CHOOSE i \in named : \A j \in named : i <= j
        ELSE 0

(***************************************************************************)
(* The booking's life                                                      *)
(***************************************************************************)

\* ServiceBookingStatus, with NONE for a booking that is not stored yet.
BookingStatus == {"NONE", "AWAITING_PAYMENT", "PENDING", "CONFIRMED",
                  "IN_PROGRESS", "COMPLETED", "CANCELLED"}

\* Where the admin may move a booking from each status.
TRANSITIONS ==
    [s \in BookingStatus |->
        CASE s = "PENDING"     -> {"CANCELLED"}
          [] s = "CONFIRMED"   -> {"IN_PROGRESS", "CANCELLED"}
          [] s = "IN_PROGRESS" -> {"COMPLETED"}
          [] OTHER             -> {}]

CUSTOMER_CANCELLABLE == {"PENDING", "CONFIRMED"}

\* The statuses assign() accepts.
ASSIGNABLE == {"PENDING", "CONFIRMED"}
=============================================================================
