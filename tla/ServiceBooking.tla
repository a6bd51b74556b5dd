--------------------------- MODULE ServiceBooking ---------------------------
(***************************************************************************)
(* One cleaning or repair booking and its Razorpay payment, from the       *)
(* customer's POST /service-bookings to the money going back: the booking  *)
(* row, the payment row, Razorpay, its webhooks, the refund job, and the   *)
(* HTTP requests that work on them side by side.                           *)
(*                                                                         *)
(* Each row, each job and each Razorpay order is keyed by the booking and  *)
(* no operation here touches two bookings, so one booking is modelled.     *)
(*                                                                         *)
(* A request is a record with the step it has reached (pc) and what it     *)
(* read before its last await.  One step is one database statement, one    *)
(* transaction, one queue call or one call to Razorpay; everything else    *)
(* may happen between two steps.  A request that only reads, or that is    *)
(* refused on its first read, changes nothing and is not a step.           *)
(***************************************************************************)
EXTENDS BookingRules

CONSTANTS
    Requests,          \* slots for requests of the customer and the company
    Hooks,             \* slots for webhook deliveries of payment events
    Professionals,     \* the company's approved professionals
    NoProfessional,    \* professionalId is null
    Totals,            \* the totals, in paise, a booking may come to
    RazorpayEnabled,   \* RazorpayClient.enabled
    MaxRequestFaults,  \* bound on requests that die half way
    MaxJobErrors,      \* bound on attempts of the refund job that throw
    MaxJobCrashes      \* bound on deaths of the worker that runs it

ASSUME ConstantsAssumption ==
    /\ NoProfessional \notin Professionals
    /\ Requests \cap Hooks = {}
    /\ Totals \subseteq Int
    /\ RazorpayEnabled \in BOOLEAN
    /\ MaxRequestFaults \in Nat
    /\ MaxJobErrors \in Nat
    /\ MaxJobCrashes \in Nat

Slots == Requests \cup Hooks

VARIABLES
    booking,   \* the ServiceBooking row
    payment,   \* the ServicePayment row
    rzp,       \* what Razorpay holds for the booking's order
    events,    \* webhooks Razorpay has still to deliver
    req,       \* the requests in flight, one per slot
    job,       \* the refund-<bookingId> job of the razorpay queue
    late,      \* the free cancellation window is over
    faults     \* failures so far, [request, error, crash]

vars == <<booking, payment, rzp, events, req, job, late, faults>>

(***************************************************************************)
(* The state                                                               *)
(***************************************************************************)

\* ServicePaymentStatus, with NONE for a payment that is not stored yet.
PaymentStatus == {"NONE", "CREATED", "CAPTURED", "REFUND_PENDING", "REFUNDED"}

\* Razorpay has confirmed the money to us.
Settled == {"CAPTURED", "REFUND_PENDING", "REFUNDED"}
Refunding == {"REFUND_PENDING", "REFUNDED"}

\* The customer's payment against the order, as Razorpay holds it.
PayStatus == {"none", "authorized", "captured", "failed"}
RefundStatus == {"pending", "processed", "failed"}

PaymentEvents == {"payment.authorized", "payment.captured"}
RefundEvents == {"refund.processed", "refund.failed"}

\* A webhook; id is the refund's, 0 for a payment event.
Event(type, id) == [type |-> type, id |-> id]

Steps == {"idle", "createOrder", "createPayment", "closeBooking",
          "fetch", "capture", "refetch", "record",
          "cancelBooking", "assign", "setStatus", "startRefund", "schedule"}

\* A slot without a request.  amount is a fee or a refund, ev the webhook the
\* request answers, seen the status it read, next the one it is to write.
Idle == [pc |-> "idle", seen |-> "NONE", next |-> "NONE",
         pro |-> NoProfessional, amount |-> 0, ev |-> "none"]

JOB_ATTEMPTS_OneLess == 2

JOB_ATTEMPTS == 3      \* defaultJobOptions.attempts
MAX_STALLED == 1       \* BullMQ's default maxStalledCount

\* The states of a job; refund, setId and mark are the steps of an active one.
JobStates == {"none", "waiting", "refund", "setId", "mark", "completed", "failed"}
ActiveJob == {"refund", "setId", "mark"}

NoJob == [state |-> "none", attempts |-> 0, stalls |-> 0,
          amount |-> 0, id |-> 0, result |-> "pending"]

Init ==
    /\ booking = [status |-> "NONE", total |-> 0, fee |-> 0,
                  professional |-> NoProfessional, cancelledAt |-> FALSE]
    /\ payment = [status |-> "NONE", paymentId |-> FALSE, refundAmount |-> 0, refundId |-> 0]
    /\ rzp = [offered |-> FALSE, pay |-> "none", back |-> 0, refunds |-> <<>>]
    /\ events = {}
    /\ req = [r \in Slots |-> Idle]
    /\ job = NoJob
    /\ late = FALSE
    /\ faults = [request |-> 0, error |-> 0, crash |-> 0]

(***************************************************************************)
(* Helpers                                                                 *)
(***************************************************************************)

At(r, pc) == req[r].pc = pc
Goto(r, state) == req' = [req EXCEPT ![r] = state]

Fail_Acknowledged(r) ==  \* as if the webhook answered 200 to a failure
    /\ Goto(r, Idle)
    /\ IF req[r].ev = "none" THEN UNCHANGED events
       ELSE events' = events \ {Event(req[r].ev, 0)}

\* The request throws: its caller hears of it and Razorpay keeps the event.
Fail(r) == Goto(r, Idle) /\ UNCHANGED events

\* Razorpay stops delivering an event it saw answered; an answer it missed
\* makes it deliver the event again.
Acknowledge(e) == events' \in {events, events \ {e}}

\* A settle() request returns: to the app, or to Razorpay.
Return(r) ==
    /\ Goto(r, Idle)
    /\ IF req[r].ev = "none" THEN UNCHANGED events ELSE Acknowledge(Event(req[r].ev, 0))

\* cancelBooking(): the row after an updateMany on the statuses in [from].
CancelledFrom(from, fee) ==
    IF booking.status \in from
    THEN [booking EXCEPT !.status = "CANCELLED", !.fee = fee, !.cancelledAt = TRUE]
    ELSE booking

(***************************************************************************)
(* HomeServicesService.book                                                *)
(***************************************************************************)

\* The booking has passed every check and been priced; a free one is done.
Book(r, total) ==
    /\ At(r, "idle")
    /\ booking.status = "NONE"
    /\ total > 0 => RazorpayEnabled
    /\ booking' = [booking EXCEPT !.total = total,
                                  !.status = IF total > 0 THEN "AWAITING_PAYMENT" ELSE "PENDING"]
    /\ Goto(r, IF total > 0 THEN [Idle EXCEPT !.pc = "createOrder"] ELSE Idle)
    /\ UNCHANGED <<payment, rzp, events, job, late, faults>>

\* The order is made, or the call throws; an order nobody is told of is inert.
CreateOrder(r) ==
    /\ At(r, "createOrder")
    /\ \E next \in {"createPayment", "closeBooking"} : Goto(r, [Idle EXCEPT !.pc = next])
    /\ UNCHANGED <<booking, payment, rzp, events, job, late, faults>>

\* The payment row is stored and the response gets to the app, or is lost on
\* the way; or the insert throws, before or after it took effect.
CreatePayment(r) ==
    /\ At(r, "createPayment")
    /\ \/ /\ payment' = [payment EXCEPT !.status = "CREATED"]
          /\ \E told \in BOOLEAN : rzp' = [rzp EXCEPT !.offered = told]
          /\ Goto(r, Idle)
       \/ /\ payment' \in {payment, [payment EXCEPT !.status = "CREATED"]}
          /\ Goto(r, [Idle EXCEPT !.pc = "closeBooking"])
          /\ UNCHANGED rzp
    /\ UNCHANGED <<booking, events, job, late, faults>>

\* The catch around checkout().
CloseBooking(r) ==
    /\ At(r, "closeBooking")
    /\ booking' = CancelledFrom({"AWAITING_PAYMENT"}, 0)
    /\ Goto(r, Idle)
    /\ UNCHANGED <<payment, rzp, events, job, late, faults>>

(***************************************************************************)
(* Razorpay and the customer's checkout (external)                         *)
(***************************************************************************)

\* The customer pays the order the app was given.
Pay ==
    /\ rzp.offered
    /\ rzp.pay = "none"
    /\ rzp' = [rzp EXCEPT !.pay = "authorized"]
    /\ events' = events \cup {Event("payment.authorized", 0)}
    /\ UNCHANGED <<booking, payment, req, job, late, faults>>

\* The account captures by itself.
AutoCapture ==
    /\ rzp.pay = "authorized"
    /\ rzp' = [rzp EXCEPT !.pay = "captured"]
    /\ events' = events \cup {Event("payment.captured", 0)}
    /\ UNCHANGED <<booking, payment, req, job, late, faults>>

\* An authorization nobody captured goes back to the customer.
Lapse ==
    /\ rzp.pay = "authorized"
    /\ rzp' = [rzp EXCEPT !.pay = "failed"]
    /\ UNCHANGED <<booking, payment, events, req, job, late, faults>>

\* A refund that was pending reaches the customer's account, or fails.
RefundSettles(i) ==
    /\ i \in DOMAIN rzp.refunds
    /\ rzp.refunds[i].status = "pending"
    /\ \/ /\ rzp' = [rzp EXCEPT !.refunds[i].status = "processed"]
          /\ events' = events \cup {Event("refund.processed", i)}
       \/ /\ rzp' = [rzp EXCEPT !.refunds[i].status = "failed",
                                !.back = @ - rzp.refunds[i].amount]
          /\ events' = events \cup {Event("refund.failed", i)}
    /\ UNCHANGED <<booking, payment, req, job, late, faults>>

\* FREE_CANCELLATION_HOURS go by.
WindowCloses ==
    /\ booking.status # "NONE"
    /\ ~late
    /\ late' = TRUE
    /\ UNCHANGED <<booking, payment, rzp, events, req, job, faults>>

(***************************************************************************)
(* RazorpayService.verify, handleWebhook and settle                        *)
(***************************************************************************)

\* The app reports its checkout.  Its order and signature are right, since
\* both come from Razorpay; an answer for a settled payment changes nothing.
Verify(r) ==
    /\ At(r, "idle")
    /\ rzp.offered
    /\ rzp.pay # "none"
    /\ payment.status = "CREATED"
    /\ Goto(r, [Idle EXCEPT !.pc = "fetch"])
    /\ UNCHANGED <<booking, payment, rzp, events, job, late, faults>>

\* A payment event: settle, or nothing to do for a row that is not CREATED.
WebhookPayment(h, type) ==
    /\ At(h, "idle")
    /\ Event(type, 0) \in events
    /\ IF payment.status = "CREATED"
       THEN Goto(h, [Idle EXCEPT !.pc = "fetch", !.ev = type]) /\ UNCHANGED events
       ELSE Acknowledge(Event(type, 0)) /\ UNCHANGED req
    /\ UNCHANGED <<booking, payment, rzp, job, late, faults>>

\* What fetchPayment reports: a payment sent back in full reads as refunded.
FetchedStatus ==
    IF rzp.pay = "captured" /\ rzp.back = booking.total THEN "refunded" ELSE rzp.pay

Fetch(r) ==
    /\ At(r, "fetch")
    /\ CASE FetchedStatus = "authorized" ->
              Goto(r, [req[r] EXCEPT !.pc = "capture"]) /\ UNCHANGED events
         [] FetchedStatus = "captured" ->
              Goto(r, [req[r] EXCEPT !.pc = "record"]) /\ UNCHANGED events
         [] OTHER -> Fail(r)
    /\ UNCHANGED <<booking, payment, rzp, job, late, faults>>

\* captureOnce(): Razorpay captures and answers, captures and the answer is
\* lost, or refuses.
Capture(r) ==
    /\ At(r, "capture")
    /\ \/ /\ rzp.pay = "authorized"
          /\ rzp' = [rzp EXCEPT !.pay = "captured"]
          /\ events' = events \cup {Event("payment.captured", 0)}
          /\ \E next \in {"record", "refetch"} : Goto(r, [req[r] EXCEPT !.pc = next])
       \/ /\ Goto(r, [req[r] EXCEPT !.pc = "refetch"])
          /\ UNCHANGED <<rzp, events>>
    /\ UNCHANGED <<booking, payment, job, late, faults>>

Refetch_AnyStatus(r) ==  \* as if the loser's re-read were not checked
    /\ At(r, "refetch")
    /\ Goto(r, [req[r] EXCEPT !.pc = "record"])
    /\ UNCHANGED <<booking, payment, rzp, events, job, late, faults>>

Refetch(r) ==
    /\ At(r, "refetch")
    /\ IF FetchedStatus = "captured"
       THEN Goto(r, [req[r] EXCEPT !.pc = "record"]) /\ UNCHANGED events
       ELSE Fail(r)
    /\ UNCHANGED <<booking, payment, rzp, job, late, faults>>

Record_PaymentOnly(r) ==  \* as if the booking were left out of the transaction
    /\ At(r, "record")
    /\ payment' = IF payment.status = "CREATED"
                  THEN [payment EXCEPT !.status = "CAPTURED", !.paymentId = TRUE] ELSE payment
    /\ Return(r)
    /\ UNCHANGED <<booking, rzp, job, late, faults>>

Record_BookingOnly(r) ==  \* as if the payment were left out of the transaction
    /\ At(r, "record")
    /\ booking' = [booking EXCEPT !.status = IF @ = "AWAITING_PAYMENT" THEN "PENDING" ELSE @]
    /\ Return(r)
    /\ UNCHANGED <<payment, rzp, job, late, faults>>

\* RazorpayRepository.capture, one transaction.
Record(r) ==
    /\ At(r, "record")
    /\ IF payment.status = "CREATED"
       THEN /\ payment' = [payment EXCEPT !.status = "CAPTURED", !.paymentId = TRUE]
            /\ booking' = [booking EXCEPT !.status = IF @ = "AWAITING_PAYMENT" THEN "PENDING" ELSE @]
       ELSE UNCHANGED <<payment, booking>>
    /\ Return(r)
    /\ UNCHANGED <<rzp, job, late, faults>>

\* markRefunded() on the refund's id.
WebhookRefund(e) ==
    /\ e \in events
    /\ e.type \in RefundEvents
    /\ payment' = IF /\ e.type = "refund.processed"
                     /\ payment.refundId = e.id
                     /\ payment.status = "REFUND_PENDING"
                  THEN [payment EXCEPT !.status = "REFUNDED"]
                  ELSE payment
    /\ Acknowledge(e)
    /\ UNCHANGED <<booking, rzp, req, job, late, faults>>

(***************************************************************************)
(* HomeServicesService.cancel, AdminBookingsService.assign and setStatus   *)
(***************************************************************************)

Age == IF late THEN FREE_CANCELLATION_HOURS * 60 + 1 ELSE 0

\* The customer's cancel has read the booking and worked out the fee.
Cancel(r) ==
    /\ At(r, "idle")
    /\ booking.status \in CUSTOMER_CANCELLABLE
    /\ Goto(r, [Idle EXCEPT !.pc = "cancelBooking",
                            !.amount = CancellationFee(booking.total, Age)])
    /\ UNCHANGED <<booking, payment, rzp, events, job, late, faults>>

CancelBooking_NotChecked(r) ==  \* as if a cancel that matched no row refunded too
    /\ At(r, "cancelBooking")
    /\ booking' = CancelledFrom(CUSTOMER_CANCELLABLE, req[r].amount)
    /\ Goto(r, [Idle EXCEPT !.pc = "startRefund", !.amount = booking.total - req[r].amount])
    /\ UNCHANGED <<payment, rzp, events, job, late, faults>>

CancelBooking(r) ==
    /\ At(r, "cancelBooking")
    /\ booking' = CancelledFrom(CUSTOMER_CANCELLABLE, req[r].amount)
    /\ Goto(r, IF booking.status \in CUSTOMER_CANCELLABLE
               THEN [Idle EXCEPT !.pc = "startRefund", !.amount = booking.total - req[r].amount]
               ELSE Idle)
    /\ UNCHANGED <<payment, rzp, events, job, late, faults>>

\* assign() has read the booking and the professional.
Assign(r, pro) ==
    /\ At(r, "idle")
    /\ booking.status \in ASSIGNABLE
    /\ Goto(r, [Idle EXCEPT !.pc = "assign", !.pro = pro])
    /\ UNCHANGED <<booking, payment, rzp, events, job, late, faults>>

\* updateBooking() writes whatever the row has become meanwhile.
AssignWrite(r) ==
    /\ At(r, "assign")
    /\ booking' = [booking EXCEPT !.status = "CONFIRMED", !.professional = req[r].pro]
    /\ Goto(r, Idle)
    /\ UNCHANGED <<payment, rzp, events, job, late, faults>>

\* setStatus() has read the booking and allows the move.
SetStatus(r, next) ==
    /\ At(r, "idle")
    /\ next \in TRANSITIONS[booking.status]
    /\ next = "IN_PROGRESS" => booking.professional # NoProfessional
    /\ Goto(r, [Idle EXCEPT !.pc = "setStatus", !.seen = booking.status, !.next = next])
    /\ UNCHANGED <<booking, payment, rzp, events, job, late, faults>>

\* A cancel is conditional on the status read, any other move is not; the
\* company's cancel always refunds in full.
SetStatusWrite(r) ==
    /\ At(r, "setStatus")
    /\ IF req[r].next = "CANCELLED"
       THEN /\ booking' = CancelledFrom({req[r].seen}, 0)
            /\ Goto(r, IF booking.status = req[r].seen
                       THEN [Idle EXCEPT !.pc = "startRefund", !.amount = booking.total]
                       ELSE Idle)
       ELSE /\ booking' = [booking EXCEPT !.status = req[r].next]
            /\ Goto(r, Idle)
    /\ UNCHANGED <<payment, rzp, events, job, late, faults>>

(***************************************************************************)
(* RazorpayService.refund and RefundScheduler.schedule                     *)
(***************************************************************************)

StartRefund(r) ==
    /\ At(r, "startRefund")
    /\ IF req[r].amount > 0 /\ payment.status = "CAPTURED"
       THEN /\ payment' = [payment EXCEPT !.status = "REFUND_PENDING",
                                          !.refundAmount = req[r].amount]
            /\ Goto(r, [Idle EXCEPT !.pc = "schedule"])
       ELSE Goto(r, Idle) /\ UNCHANGED payment
    /\ UNCHANGED <<booking, rzp, events, job, late, faults>>

\* A job with this id already in the queue makes the add a no-op.
Schedule(r) ==
    /\ At(r, "schedule")
    /\ job' = IF job.state = "none" THEN [job EXCEPT !.state = "waiting"] ELSE job
    /\ Goto(r, Idle)
    /\ UNCHANGED <<booking, payment, rzp, events, late, faults>>

\* The process dies, or a call the code does not catch throws.
Abort(r) ==
    /\ ~At(r, "idle")
    /\ faults.request < MaxRequestFaults
    /\ faults' = [faults EXCEPT !.request = @ + 1]
    /\ Fail(r)
    /\ UNCHANGED <<booking, payment, rzp, job, late>>

(***************************************************************************)
(* RefundProcessor.process                                                 *)
(***************************************************************************)

\* The attempt throws: there is another one, or the job has used them up.
AttemptFailed ==
    job' = [NoJob EXCEPT !.state = IF job.attempts + 1 < JOB_ATTEMPTS THEN "waiting" ELSE "failed",
                         !.attempts = job.attempts + 1, !.stalls = job.stalls]

\* The refund asked for already, or none to ask for: the job is done.
RefundDue ==
    /\ payment.status = "REFUND_PENDING"
    /\ payment.refundId = 0
    /\ payment.paymentId
    /\ payment.refundAmount # 0

JobStart ==
    /\ job.state = "waiting"
    /\ job' = IF RefundDue
              THEN [job EXCEPT !.state = "refund", !.amount = payment.refundAmount]
              ELSE [job EXCEPT !.state = "completed"]
    /\ UNCHANGED <<booking, payment, rzp, events, req, late, faults>>

\* Razorpay refuses more than is left of the captured amount.
Refundable == job.amount <= booking.total - rzp.back

\* Razorpay takes the refund (external): it may be through at once.
Issue(status) ==
    /\ rzp' = [rzp EXCEPT
                 !.refunds = Append(@, [amount |-> job.amount, status |-> status]),
                 !.back = IF status = "failed" THEN @ ELSE @ + job.amount]
    /\ events' = IF status = "pending" THEN events
                 ELSE events \cup {Event(IF status = "failed" THEN "refund.failed"
                                         ELSE "refund.processed", Len(rzp.refunds) + 1)}

\* The refund is made and its answer read.
JobRefund(status) ==
    /\ job.state = "refund"
    /\ Refundable
    /\ Issue(status)
    /\ job' = [job EXCEPT !.state = "setId", !.id = Len(rzp.refunds) + 1, !.result = status]
    /\ UNCHANGED <<booking, payment, req, late, faults>>

\* The refund is made and the answer lost.
JobRefundUnheard(status) ==
    /\ job.state = "refund"
    /\ Refundable
    /\ Issue(status)
    /\ AttemptFailed
    /\ faults.error < MaxJobErrors
    /\ faults' = [faults EXCEPT !.error = @ + 1]
    /\ UNCHANGED <<booking, payment, req, late>>

JobRefused ==
    /\ job.state = "refund"
    /\ ~Refundable
    /\ AttemptFailed
    /\ UNCHANGED <<booking, payment, rzp, events, req, late, faults>>

JobSetId_NotProcessed ==  \* as if every refund counted as processed
    /\ job.state = "setId"
    /\ payment' = [payment EXCEPT !.refundId = job.id]
    /\ job' = [job EXCEPT !.state = "mark"]
    /\ UNCHANGED <<booking, rzp, events, req, late, faults>>

JobSetId ==
    /\ job.state = "setId"
    /\ payment' = [payment EXCEPT !.refundId = job.id]
    /\ job' = [job EXCEPT !.state = IF job.result = "processed" THEN "mark" ELSE "completed"]
    /\ UNCHANGED <<booking, rzp, events, req, late, faults>>

JobMark_RazorpaysStatus ==  \* as if Razorpay's word were stored, not the enum's
    /\ job.state = "mark"
    /\ payment' = [payment EXCEPT !.status = job.result]
    /\ job' = [job EXCEPT !.state = "completed"]
    /\ UNCHANGED <<booking, rzp, events, req, late, faults>>

\* markRefunded() on the booking.
JobMark ==
    /\ job.state = "mark"
    /\ payment' = IF payment.status = "REFUND_PENDING"
                  THEN [payment EXCEPT !.status = "REFUNDED"] ELSE payment
    /\ job' = [job EXCEPT !.state = "completed"]
    /\ UNCHANGED <<booking, rzp, events, req, late, faults>>

\* Razorpay or the database does not answer the attempt, at its first read
\* (the job still counts as waiting here) or at a later step.
JobError ==
    /\ job.state \in ActiveJob \cup {"waiting"}
    /\ AttemptFailed
    /\ faults.error < MaxJobErrors
    /\ faults' = [faults EXCEPT !.error = @ + 1]
    /\ UNCHANGED <<booking, payment, rzp, events, req, late>>

\* The worker dies; the queue finds the job stalled and runs it again, once.
JobStall ==
    /\ job.state \in ActiveJob
    /\ faults.crash < MaxJobCrashes
    /\ faults' = [faults EXCEPT !.crash = @ + 1]
    /\ job' = [NoJob EXCEPT !.state = IF job.stalls < MAX_STALLED THEN "waiting" ELSE "failed",
                            !.attempts = job.attempts, !.stalls = job.stalls + 1]
    /\ UNCHANGED <<booking, payment, rzp, events, req, late>>

(***************************************************************************)
(* The lists the booking is in                                             *)
(***************************************************************************)

\* UnifiedBookingsRepository.findAllByUser: My Bookings.
findAllByUser == {b \in {booking} : b.status \notin {"NONE", "AWAITING_PAYMENT"}}

\* AdminRepository.bookings: the company's list, all of it or one status.
bookings(status) ==
    {b \in {booking} : b.status # "NONE" /\ IF status = {} THEN b.status # "AWAITING_PAYMENT"
                                            ELSE b.status \in status}

(***************************************************************************)
(* The system                                                              *)
(***************************************************************************)

\* The steps of settle(), which the app's verify and the webhook share.
SettleStep(r) == Fetch(r) \/ Capture(r) \/ Refetch(r) \/ Record(r)

\* A request that has begun goes on.
RequestStep(r) ==
    \/ CreateOrder(r) \/ CreatePayment(r) \/ CloseBooking(r)
    \/ SettleStep(r)
    \/ CancelBooking(r) \/ AssignWrite(r) \/ SetStatusWrite(r)
    \/ StartRefund(r) \/ Schedule(r)

\* A new request arrives.
Arrival(r) ==
    \/ \E total \in Totals : Book(r, total)
    \/ Verify(r)
    \/ Cancel(r)
    \/ \E pro \in Professionals : Assign(r, pro)
    \/ \E next \in BookingStatus : SetStatus(r, next)

JobStep ==
    \/ JobStart
    \/ \E status \in RefundStatus : JobRefund(status)
    \/ JobRefused
    \/ JobSetId
    \/ JobMark

JobTrouble ==
    \/ \E status \in RefundStatus : JobRefundUnheard(status)
    \/ JobError
    \/ JobStall

Razorpay ==
    \/ Pay
    \/ AutoCapture
    \/ Lapse
    \/ \E i \in DOMAIN rzp.refunds : RefundSettles(i)

Deliver ==
    \/ \E h \in Hooks, type \in PaymentEvents : WebhookPayment(h, type)
    \/ \E e \in events : WebhookRefund(e)

Next ==
    \/ \E r \in Requests : Arrival(r)
    \/ \E r \in Slots : RequestStep(r) \/ Abort(r)
    \/ JobStep
    \/ JobTrouble
    \/ Razorpay
    \/ Deliver
    \/ WindowCloses

Spec == Init /\ [][Next]_vars

\* A request in flight runs on, the worker takes its jobs, and Razorpay keeps
\* delivering an event until it is answered.  Delivery needs strong fairness:
\* the slot is busy while another event is being handled.
Fairness ==
    /\ \A r \in Slots : WF_vars(RequestStep(r))
    /\ WF_vars(JobStep)
    /\ \A type \in PaymentEvents : SF_vars(\E h \in Hooks : WebhookPayment(h, type))
    /\ \A type \in RefundEvents, id \in 1 .. JOB_ATTEMPTS + MAX_STALLED :
          WF_vars(WebhookRefund(Event(type, id)))

LiveSpec == Spec /\ Fairness

(***************************************************************************)
(* Properties                                                              *)
(***************************************************************************)

Released == {"PENDING", "CONFIRMED", "IN_PROGRESS", "COMPLETED"}

BookingRow ==
    [status : BookingStatus, total : Int, fee : Int,
     professional : Professionals \cup {NoProfessional}, cancelledAt : BOOLEAN]

PaymentRow ==
    [status : PaymentStatus, paymentId : BOOLEAN, refundAmount : Int, refundId : Nat]

Refund == [amount : Int, status : RefundStatus]
RazorpayState == [offered : BOOLEAN, pay : PayStatus, back : Int, refunds : Seq(Refund)]
EventType == [type : PaymentEvents \cup RefundEvents, id : Nat]

RequestType ==
    [pc : Steps, seen : BookingStatus, next : BookingStatus,
     pro : Professionals \cup {NoProfessional}, amount : Int,
     ev : PaymentEvents \cup {"none"}]

JobType ==
    [state : JobStates, attempts : Nat, stalls : Nat,
     amount : Int, id : Nat, result : RefundStatus]

FaultCount == [request : Nat, error : Nat, crash : Nat]

\* Every row, request and job has the shape the schema and the code give it.
TypeOK ==
    /\ booking \in BookingRow
    /\ payment \in PaymentRow
    /\ rzp \in RazorpayState
    /\ events \subseteq EventType
    /\ req \in [Slots -> RequestType]
    /\ job \in JobType
    /\ late \in BOOLEAN
    /\ faults \in FaultCount

\* "Hidden from the admin until Razorpay confirms the payment": a booking
\* with something to pay is worked on only when Razorpay holds the captured
\* money, whatever order the verify call, the webhook and lost answers come in.
PaidBeforeServed ==
    booking.status \in Released /\ booking.total > 0 => rzp.pay = "captured"

\* capture() moves the payment and its booking "both or neither": a settled
\* payment never leaves its booking waiting for it, nor without a booking.
CaptureIsWhole ==
    payment.status \in Settled => booking.status \notin {"NONE", "AWAITING_PAYMENT"}

\* The refunds Razorpay has made or is making.
LiveRefunds == {i \in DOMAIN rzp.refunds : rzp.refunds[i].status # "failed"}

\* "A retry after the request went through must not refund twice": however
\* the job dies and is retried, Razorpay makes at most one refund that does
\* not fail, and it is for the amount claimed on the payment row.
RefundAtMostOnce ==
    \A i, j \in LiveRefunds : i = j /\ rzp.refunds[i].amount = payment.refundAmount

\* A payment marked REFUNDED carries the id of a refund Razorpay processed.
RefundedIsProcessed ==
    payment.status = "REFUNDED" =>
        /\ payment.refundId \in DOMAIN rzp.refunds
        /\ rzp.refunds[payment.refundId].status = "processed"

\* What a cancel may give back: all of it, or all but the late fee once the
\* window is over.
Owed == {booking.total, booking.total - CancellationFee(booking.total, Age)}

\* Money is claimed back only for a booking somebody cancelled, and what is
\* claimed is what a cancel of this booking may give back, and not nothing.
RefundFollowsCancel ==
    payment.status \in Refunding =>
        /\ booking.cancelledAt
        /\ payment.refundAmount \in Owed
        /\ payment.refundAmount > 0

Forward ==
    /\ payment'.status = "CREATED" => payment.status \in {"NONE", "CREATED"}
    /\ payment'.status = "CAPTURED" => payment.status \in {"CREATED", "CAPTURED"}
    /\ payment.status = "REFUNDED" => payment'.status = "REFUNDED"
    /\ payment.refundAmount # 0 => payment'.refundAmount = payment.refundAmount
    /\ payment.refundId # 0 => payment'.refundId = payment.refundId

\* The payment row only moves on (CREATED, CAPTURED, REFUND_PENDING,
\* REFUNDED), and the amount claimed and the refund id are written once.
PaymentOnlyForward == [][Forward]_vars

\* Money Razorpay has captured is recorded, and so the booking released, even
\* when the app never reports its checkout or a request dies on the way.
PaidIsReleased == rzp.pay = "captured" ~> payment.status \in Settled

\* "A Razorpay outage must not fail the cancel, and must not lose the refund
\* either": for a cancelled booking whose payment was captured, Razorpay is
\* eventually asked for the money back, unless the request that cancelled died
\* before it had queued the job.
RefundIsAsked ==
    booking.status = "CANCELLED" /\ payment.status \in Settled ~> rzp.refunds # <<>> \/ faults.request > 0

\* The lifecycle of the docs: CANCELLED has no way out.
CancelledIsFinal ==
    [][booking.status = "CANCELLED" => booking'.status = "CANCELLED"]_vars

\* REFUND_PENDING "settles to the customer's account later": once it has at
\* Razorpay, the payment row gets to know.
ProcessedIsRecorded ==
    \A i \in 1 .. JOB_ATTEMPTS + MAX_STALLED :
        (i \in DOMAIN rzp.refunds /\ rzp.refunds[i].status = "processed")
            ~> payment.status = "REFUNDED"

\* A booking with something to pay "stays hidden from the customer's and the
\* admin's lists until paid".
HiddenUntilPaid ==
    booking.total > 0 /\ findAllByUser \cup bookings({}) # {} => rzp.pay = "captured"

(***************************************************************************)
(* The promise of PaymentLedger                                            *)
(***************************************************************************)

Books ==
    CASE payment.status \in {"NONE", "CREATED"} -> "unpaid"
      [] payment.status = "CAPTURED" -> "paid"
      [] payment.status = "REFUND_PENDING" -> "refunding"
      [] OTHER -> "refunded"

Ledger == INSTANCE PaymentLedger WITH
    ordered <- booking.status # "NONE",
    price <- booking.total,
    released <- booking.status \in Released,
    cancelled <- booking.cancelledAt,
    held <- rzp.pay = "captured",
    books <- Books,
    claim <- payment.refundAmount,
    back <- rzp.back,
    through <- (\E i \in DOMAIN rzp.refunds : rzp.refunds[i].status = "processed")

\* Requests, webhooks, lost answers, dying requests and a retried job amount
\* to a ledger: each of their steps is one of its entries or none of them, so
\* money is collected once and goes back once, for the amount one
\* cancellation claimed, and nobody works on what is not on the books.
KeepsTheLedger == Ledger!Spec

(***************************************************************************)
(* The inductive invariant behind the safety properties                    *)
(***************************************************************************)

\* The booking has left checkout, with its payment settled if it has one.
Opened ==
    /\ booking.status \notin {"NONE", "AWAITING_PAYMENT"}
    /\ booking.total > 0 => payment.status \in Settled

\* Rows and Razorpay agree on how far the booking's payment has come.
PayInv ==
    /\ booking.status \in Released => Opened
    /\ payment.status \in Settled =>
          rzp.pay = "captured" /\ booking.status \notin {"NONE", "AWAITING_PAYMENT"}
    /\ payment.status # "NONE" => booking.status # "NONE"
    /\ booking.cancelledAt => booking.status # "NONE"

\* At most one request is booking, and the payment row is still to be made.
Booking == {"createOrder", "createPayment"}
BookInv ==
    \A r \in Slots : req[r].pc \in Booking =>
        /\ payment.status = "NONE"
        /\ booking.status # "NONE"
        /\ \A s \in Slots : req[s].pc \in Booking => s = r

\* What a request read before its last await and what it still relies on.
ReqOK(r) ==
    /\ req[r].pc = "record" => rzp.pay = "captured"
    /\ req[r].pc \in {"cancelBooking", "assign", "setStatus"} => Opened
    /\ req[r].pc = "setStatus" => req[r].next \in {"IN_PROGRESS", "COMPLETED", "CANCELLED"}
    /\ req[r].pc = "cancelBooking" => booking.total - req[r].amount \in Owed
    /\ req[r].pc = "startRefund" => booking.cancelledAt /\ req[r].amount \in Owed
    /\ req[r].pc = "schedule" => payment.status \in Refunding

ReqInv == \A r \in Slots : ReqOK(r)

Processed(i) == i \in DOMAIN rzp.refunds /\ rzp.refunds[i].status = "processed"

\* Before the claim there is nothing to refund; after it, everything the job
\* and Razorpay do is about the one amount claimed.
ClaimInv ==
    /\ RefundFollowsCancel
    /\ payment.status \notin Refunding =>
          /\ payment.refundAmount = 0
          /\ payment.refundId = 0
          /\ rzp.refunds = <<>>
          /\ job.state = "none"
    /\ \A i \in DOMAIN rzp.refunds : rzp.refunds[i].amount = payment.refundAmount
    /\ job.state \in ActiveJob => job.amount = payment.refundAmount

\* Razorpay's amount_refunded is that of its one live refund.
MoneyInv ==
    /\ \A i, j \in LiveRefunds : i = j
    /\ rzp.back = IF LiveRefunds = {} THEN 0 ELSE payment.refundAmount

\* Where the refund's id and its outcome are known.
OutcomeInv ==
    /\ job.state \in {"refund", "setId"} => payment.refundId = 0
    /\ job.state = "setId" =>
          job.id \in DOMAIN rzp.refunds /\ (job.result = "processed" => Processed(job.id))
    /\ job.state = "mark" => payment.refundId = job.id /\ Processed(job.id)
    /\ payment.status = "REFUNDED" => Processed(payment.refundId)
    /\ \A e \in events : e.type = "refund.processed" => Processed(e.id)

IInv == TypeOK /\ PayInv /\ BookInv /\ ReqInv /\ ClaimInv /\ MoneyInv /\ OutcomeInv
=============================================================================
