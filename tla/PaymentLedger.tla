---------------------------- MODULE PaymentLedger ----------------------------
(***************************************************************************)
(* What the bookings and their payments promise, whoever runs when: money  *)
(* is collected once, a booking with a price is worked on only when it is  *)
(* on the books, and money goes back once, for the one amount claimed      *)
(* after a cancellation.  There are no requests, retries, webhooks or jobs *)
(* here; ServiceBooking, which has them, implements this (Ledger there).   *)
(***************************************************************************)
EXTENDS Integers

VARIABLES
    ordered,    \* a booking exists
    price,      \* what it costs
    released,   \* the company works on it, or has
    cancelled,  \* somebody cancelled it
    held,       \* Razorpay holds the customer's money for us
    books,      \* what our payment row says: unpaid, paid, refunding, refunded
    claim,      \* the amount to give back
    back,       \* the amount on its way back
    through     \* it has arrived

ledger == <<ordered, price, released, cancelled, held, books, claim, back, through>>

Init ==
    /\ ~ordered /\ price = 0 /\ ~released /\ ~cancelled
    /\ ~held /\ books = "unpaid"
    /\ claim = 0 /\ back = 0 /\ ~through

\* A free booking goes to the company at once.
Order ==
    /\ ~ordered
    /\ ordered'
    /\ price' \in Int
    /\ released' <=> price' <= 0
    /\ UNCHANGED <<cancelled, held, books, claim, back, through>>

Collect ==
    /\ ordered
    /\ ~held
    /\ held'
    /\ UNCHANGED <<ordered, price, released, cancelled, books, claim, back, through>>

\* The money is put on the books and with it the booking is released.
Settle ==
    /\ held
    /\ books = "unpaid"
    /\ books' = "paid"
    /\ released => released'
    /\ UNCHANGED <<ordered, price, cancelled, held, claim, back, through>>

\* The company works on a booking that is paid or free.
Work ==
    /\ ordered
    /\ price > 0 => books # "unpaid"
    /\ released'
    /\ UNCHANGED <<ordered, price, cancelled, held, books, claim, back, through>>

Cancel ==
    /\ ordered
    /\ cancelled'
    /\ ~released'
    /\ UNCHANGED <<ordered, price, held, books, claim, back, through>>

\* Once: nothing leads back to "paid".
Claim ==
    /\ cancelled
    /\ books = "paid"
    /\ books' = "refunding"
    /\ claim' \in Int
    /\ 0 < claim' /\ claim' <= price
    /\ UNCHANGED <<ordered, price, released, cancelled, held, back, through>>

\* It may arrive at once.
SendBack ==
    /\ books = "refunding"
    /\ back = 0
    /\ back' = claim
    /\ UNCHANGED <<ordered, price, released, cancelled, held, books, claim>>

\* What is on its way arrives, or comes back to us.
Arrive ==
    /\ back # 0
    /\ ~through
    /\ through'
    /\ UNCHANGED <<ordered, price, released, cancelled, held, books, claim, back>>

Bounce ==
    /\ back # 0
    /\ ~through
    /\ back' = 0
    /\ UNCHANGED <<ordered, price, released, cancelled, held, books, claim, through>>

Close ==
    /\ books = "refunding"
    /\ through
    /\ books' = "refunded"
    /\ UNCHANGED <<ordered, price, released, cancelled, held, claim, back, through>>

Next ==
    \/ Order \/ Collect \/ Settle \/ Work \/ Cancel
    \/ Claim \/ SendBack \/ Arrive \/ Bounce \/ Close

Spec == Init /\ [][Next]_ledger
=============================================================================
