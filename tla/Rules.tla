------------------------------- MODULE Rules -------------------------------
(***************************************************************************)
(* The program's pure rules on any inputs: one step prices an order,       *)
(* places an address, charges a cancel, or checks the details of a         *)
(* listing.                                                                *)
(***************************************************************************)
EXTENDS BookingRules, AdAttributes

CONSTANTS
    HourlyRates, ExtraProRates, MaterialsFees,   \* prices in paise
    Hours, Teams,                                \* hours and professionals of a booking
    Percents, Caps, MinOrders, Days, Today,      \* promo codes
    Radii, MaxAreas,                             \* areas
    CancelTotals, CancelAges,                    \* cancels, ages in minutes
    OldCategories, KeySets, Values               \* details

\* What the DTOs and the schema allow: rates from nothing, a code from 1 to 90
\* percent off, a booking that costs something.
ASSUME RulesAssumption ==
    /\ HourlyRates \subseteq Nat /\ ExtraProRates \subseteq Nat /\ MaterialsFees \subseteq Nat
    /\ Hours \subseteq Nat /\ Teams \subseteq Nat \ {0}
    /\ Percents \subseteq 1 .. 90 /\ Caps \subseteq Nat /\ MinOrders \subseteq Nat
    /\ Days \subseteq Int /\ Today \in Int
    /\ Radii \subseteq Nat /\ MaxAreas \in Nat
    /\ CancelTotals \subseteq Nat \ {0} /\ CancelAges \subseteq Nat

VARIABLES input, outcome

Prices == [hourlyRate : HourlyRates, extraProRate : ExtraProRates, materialsFee : MaterialsFees]
Promos == [percent : Percents, maxDiscount : Caps, minOrder : MinOrders, validTill : Days, active : BOOLEAN]

\* A typed code finds one promo or none.
Orders ==
    {order \in [price : Prices, hours : Hours, professionals : Teams, withMaterials : BOOLEAN,
                code : BOOLEAN, promo : {{}} \cup {{p} : p \in Promos}] :
        ~order.code => order.promo = {}}

Areas == [mapped : BOOLEAN, km : Radii, radiusKm : Radii, inText : BOOLEAN]

Categories == AD_CATEGORIES \cup OldCategories

RulesInit ==
    /\ input = [kind |-> "none"]
    /\ outcome = 0

PriceOrder ==
    /\ input.kind = "none"
    /\ \E o \in Orders :
          /\ input' = [kind |-> "order", order |-> o]
          /\ outcome' = Charge(o, Today)

PlaceAddress ==
    /\ input.kind = "none"
    /\ \E n \in 0 .. MaxAreas : \E areas \in [1 .. n -> Areas], located \in BOOLEAN :
          /\ input' = [kind |-> "address", areas |-> areas, located |-> located]
          /\ outcome' = MatchArea(areas, located)

ChargeCancel ==
    /\ input.kind = "none"
    /\ \E total \in CancelTotals, age \in CancelAges :
          /\ input' = [kind |-> "cancel", total |-> total, age |-> age]
          /\ outcome' = total - CancellationFee(total, age)

SubmitDetails ==
    /\ input.kind = "none"
    /\ \E category \in Categories, keys \in KeySets : \E raw \in [keys -> Values] :
          /\ input' = [kind |-> "details", category |-> category, raw |-> raw]
          /\ outcome' = ValidateAdAttributes(category, raw)

RulesNext == PriceOrder \/ PlaceAddress \/ ChargeCancel \/ SubmitDetails

RulesSpec == RulesInit /\ [][RulesNext]_<<input, outcome>>

Done(kind) == input.kind = kind

\* A discount above the subtotal would make the booking free with a negative
\* total; rounding to whole rupees can do it only below this.
SMALLEST_SAFE_SUBTOTAL == 500

\* applyPromo() against what the docs promise: a code takes off its percentage
\* to the nearest rupee, or exactly its cap when that is less, with a cap of
\* zero meaning none, and never the whole price of an order of five rupees.
DiscountAsPromised ==
    Done("order") /\ outcome.ok /\ input.order.code =>
        \E p \in input.order.promo :
            LET exact == outcome.subtotal * p.percent   \* in hundredths of a paisa
                atCap == p.maxDiscount > 0 /\ outcome.discount = p.maxDiscount
            IN  /\ p.active /\ p.validTill >= Today /\ outcome.subtotal >= p.minOrder
                /\ p.maxDiscount > 0 => outcome.discount <= p.maxDiscount
                /\ 100 * outcome.discount <= exact + 5000
                /\ atCap \/ 100 * outcome.discount >= exact - 5000
                /\ outcome.subtotal >= SMALLEST_SAFE_SUBTOTAL => outcome.total >= 0

\* matchArea() against "the area whose centre is nearest wins" among those
\* whose radius covers the pin, then an area named by its pincode, and none
\* only when no area could take the address.
AreaIsNearest ==
    Done("address") =>
        LET reaches(i) == input.located /\ input.areas[i].mapped
                            /\ input.areas[i].km <= input.areas[i].radiusKm
            serves(i) == reaches(i) \/ input.areas[i].inText
        IN  /\ outcome = 0 <=> \A i \in DOMAIN input.areas : ~serves(i)
            /\ outcome # 0 =>
                 /\ serves(outcome)
                 /\ \A i \in DOMAIN input.areas : reaches(i) =>
                       reaches(outcome) /\ input.areas[outcome].km <= input.areas[i].km

\* What a cancel gives back is more than half of what was paid, which is why
\* Razorpay refuses a second refund of it; all of it up to two hours exactly.
RefundIsMost ==
    Done("cancel") =>
        /\ 2 * outcome > input.total
        /\ outcome <= input.total
        /\ input.age <= 120 => outcome = input.total

\* "Unknown keys are rejected instead of stored", and every problem is listed
\* at once: a key has a problem whether or not another has one.
EveryProblemListed ==
    Done("details") =>
        LET raw == input.raw
        IN  /\ outcome.errors = UNION {ValidateAdAttributes(input.category, Restrict(raw, {k})).errors : k \in DOMAIN raw}
            /\ DOMAIN raw \ KeysOf(input.category) \subseteq outcome.errors

\* "An explicit null is how a seller clears a field they had filled in": it
\* stores what leaving the field out stores, and what is stored can be sent
\* back by an edit form as it is.
ClearedIsAbsent ==
    Done("details") =>
        LET raw == input.raw
            cleared == {k \in DOMAIN raw \cap KeysOf(input.category) : raw[k].type = "null"}
        IN  /\ outcome = ValidateAdAttributes(input.category, Restrict(raw, DOMAIN raw \ cleared))
            /\ ValidateAdAttributes(input.category, outcome.stored) = [errors |-> {}, stored |-> outcome.stored]

\* "Details describing a rental make no sense on a cleaning ad": what one
\* category stored is refused by every other one, apart from the label that
\* cleaning and repairing share.
DetailsAreOfOneCategory ==
    Done("details") =>
        \A other \in Categories \ {input.category} :
            DOMAIN outcome.stored \ {"durationLabel"} # {} =>
                ValidateAdAttributes(other, outcome.stored).errors # {}

\* What a category stores is what its form promises: every problem is listed at
\* once, a cleared field is an absent one, and details are of one category
\* (validateAdAttributes).
DetailsAsPromised == EveryProblemListed /\ ClearedIsAbsent /\ DetailsAreOfOneCategory
=============================================================================
