------------------------ MODULE ServiceBookingProofs ------------------------
(***************************************************************************)
(* ServiceBooking's safety properties, for any number of requests, any     *)
(* totals and any bounds on faults.  The invariant IInv is inductive:      *)
(* types, then what the rows, the requests in flight, the claim, the money *)
(* at Razorpay and the outcome of the refund say of each other.            *)
(*                                                                         *)
(* Advances collects what no step takes back; from it follows that a       *)
(* request may act on what it read some steps ago (ReqStep), from that     *)
(* the rows agree (PayStep, BookStep, ClaimStep), and from the fee being   *)
(* a tenth that money goes back once (OwedIsMost, IssueOnce, MoneyStep).   *)
(* The last part shows that ServiceBooking implements PaymentLedger.       *)
(***************************************************************************)
EXTENDS ServiceBooking, SequenceTheorems, TLAPS

\* A request slot that book(), verifyPayment() and the others have left is well typed.
LEMMA IdleType == Idle \in RequestType
  BY ConstantsAssumption DEF Idle, RequestType, Steps, BookingStatus, PaymentEvents

\* Moving one request on keeps the table of requests well typed.
LEMMA GotoType ==
  ASSUME NEW r \in Slots, NEW s \in RequestType, req \in [Slots -> RequestType], Goto(r, s)
  PROVE  req' \in [Slots -> RequestType]
  BY DEF Goto

\* A request that only moves to its next statement stays well typed.
LEMMA PcType ==
  ASSUME NEW s \in RequestType, NEW pc \in Steps
  PROVE  [s EXCEPT !.pc = pc] \in RequestType
  BY DEF RequestType

\* The row cancelBooking() leaves, matched or not, is a booking's row.
LEMMA CancelledFromType ==
  ASSUME booking \in BookingRow, NEW from, NEW fee \in Int
  PROVE  CancelledFrom(from, fee) \in BookingRow
<1>1. [booking EXCEPT !.status = "CANCELLED", !.fee = fee, !.cancelledAt = TRUE] \in BookingRow
  BY DEF BookingRow, BookingStatus
<1> QED BY <1>1 DEF CancelledFrom

\* cancellationFee() is a number of paise.
LEMMA FeeType ==
  ASSUME NEW total \in Int, NEW age \in Int PROVE CancellationFee(total, age) \in Int
  BY DEF CancellationFee, RoundDiv, CANCELLATION_FEE_PERCENT

\* The age of the booking, which cancel() compares with two hours, is a number.
LEMMA AgeType == Age \in Int
  BY DEF Age, FREE_CANCELLATION_HOURS

\* A failed attempt leaves the job well typed, waiting again or given up.
LEMMA AttemptFailedType ==
  ASSUME job \in JobType, AttemptFailed PROVE job' \in JobType
<1>1. /\ job.attempts + 1 \in Nat
      /\ job.stalls \in Nat
  BY DEF JobType
<1>2. NoJob \in JobType
  BY DEF NoJob, JobType, JobStates, RefundStatus
<1>3. \A s \in JobStates, n, m \in Nat :
        [NoJob EXCEPT !.state = s, !.attempts = n, !.stalls = m] \in JobType
  BY <1>2 DEF JobType
<1> QED BY <1>1, <1>3 DEF AttemptFailed, JobStates

\* A refund Razorpay issues leaves it, and its events, well typed.
LEMMA IssueType ==
  ASSUME rzp \in RazorpayState, events \subseteq EventType, job \in JobType,
         NEW status \in RefundStatus, Issue(status)
  PROVE  rzp' \in RazorpayState /\ events' \subseteq EventType
<1>1. [amount |-> job.amount, status |-> status] \in Refund
  BY DEF JobType, Refund
<1>2. Append(rzp.refunds, [amount |-> job.amount, status |-> status]) \in Seq(Refund)
  BY <1>1 DEF RazorpayState
<1>3. (IF status = "failed" THEN rzp.back ELSE rzp.back + job.amount) \in Int
  BY DEF RazorpayState, JobType
<1>4. rzp' \in RazorpayState
  BY <1>2, <1>3 DEF Issue, RazorpayState
<1>5. Len(rzp.refunds) + 1 \in Nat
  BY DEF RazorpayState
<1>6. events' \subseteq EventType
  BY <1>5 DEF Issue, EventType, Event, RefundEvents
<1> QED BY <1>4, <1>6

\* What issuing a refund changes at Razorpay, field by field.
LEMMA IssueFacts ==
  ASSUME rzp \in RazorpayState, NEW status, Issue(status)
  PROVE  /\ rzp'.pay = rzp.pay
         /\ rzp'.refunds = Append(rzp.refunds, [amount |-> job.amount, status |-> status])
         /\ rzp'.back = IF status = "failed" THEN rzp.back ELSE rzp.back + job.amount
  BY DEF Issue, RazorpayState

\* No step of a handler, of the job or of Razorpay leaves the types.
LEMMA TypeStep == TypeOK /\ [Next]_vars => TypeOK'
<1> SUFFICES ASSUME TypeOK, [Next]_vars PROVE TypeOK'
  OBVIOUS
<1> USE DEF TypeOK
<1>1. ASSUME NEW r \in Requests, NEW total \in Totals, Book(r, total) PROVE TypeOK'
  <2>1. booking' \in BookingRow
    BY <1>1, ConstantsAssumption DEF Book, BookingRow, BookingStatus
  <2>2. [Idle EXCEPT !.pc = "createOrder"] \in RequestType
    BY IdleType, PcType DEF Steps
  <2> QED BY <1>1, <2>1, <2>2, IdleType, GotoType DEF Book, Slots
<1>2. ASSUME NEW r \in Requests, Verify(r) PROVE TypeOK'
  <2>1. [Idle EXCEPT !.pc = "fetch"] \in RequestType
    BY IdleType, PcType DEF Steps
  <2> QED BY <1>2, <2>1, GotoType DEF Verify, Slots
<1>3. ASSUME NEW r \in Requests, Cancel(r) PROVE TypeOK'
  <2>1. CancellationFee(booking.total, Age) \in Int
    BY FeeType, AgeType DEF BookingRow
  <2>2. [Idle EXCEPT !.pc = "cancelBooking", !.amount = CancellationFee(booking.total, Age)] \in RequestType
    BY <2>1, IdleType DEF RequestType, Steps
  <2> QED BY <1>3, <2>2, GotoType DEF Cancel, Slots
<1>4. ASSUME NEW r \in Requests, NEW pro \in Professionals, Assign(r, pro) PROVE TypeOK'
  <2>1. [Idle EXCEPT !.pc = "assign", !.pro = pro] \in RequestType
    BY IdleType DEF RequestType, Steps
  <2> QED BY <1>4, <2>1, GotoType DEF Assign, Slots
<1>5. ASSUME NEW r \in Requests, NEW next \in BookingStatus, SetStatus(r, next) PROVE TypeOK'
  <2>1. [Idle EXCEPT !.pc = "setStatus", !.seen = booking.status, !.next = next] \in RequestType
    BY IdleType DEF RequestType, Steps, BookingRow
  <2> QED BY <1>5, <2>1, GotoType DEF SetStatus, Slots
<1>6. ASSUME NEW r \in Slots, CreateOrder(r) PROVE TypeOK'
  <2>1. \A next \in {"createPayment", "closeBooking"} : [Idle EXCEPT !.pc = next] \in RequestType
    BY IdleType, PcType DEF Steps
  <2> QED BY <1>6, <2>1, GotoType DEF CreateOrder
<1>7. ASSUME NEW r \in Slots, CreatePayment(r) PROVE TypeOK'
  <2>1. [Idle EXCEPT !.pc = "closeBooking"] \in RequestType
    BY IdleType, PcType DEF Steps
  <2>2. req' \in [Slots -> RequestType]
    BY <1>7, <2>1, IdleType, GotoType DEF CreatePayment
  <2>3. payment' \in PaymentRow
    BY <1>7 DEF CreatePayment, PaymentRow, PaymentStatus
  <2>4. rzp' \in RazorpayState
    BY <1>7 DEF CreatePayment, RazorpayState
  <2> QED BY <1>7, <2>2, <2>3, <2>4 DEF CreatePayment
<1>8. ASSUME NEW r \in Slots, CloseBooking(r) PROVE TypeOK'
  BY <1>8, IdleType, GotoType, CancelledFromType DEF CloseBooking
<1>9. ASSUME NEW r \in Slots, Fetch(r) PROVE TypeOK'
  <2>1. req[r] \in RequestType /\ "capture" \in Steps /\ "record" \in Steps
    BY DEF Steps
  <2>2. [req[r] EXCEPT !.pc = "capture"] \in RequestType /\ [req[r] EXCEPT !.pc = "record"] \in RequestType
    BY <2>1, PcType
  <2> QED BY <1>9, <2>2, IdleType, GotoType DEF Fetch, Fail
<1>10. ASSUME NEW r \in Slots, Capture(r) PROVE TypeOK'
  <2>1. req[r] \in RequestType /\ "refetch" \in Steps /\ "record" \in Steps
    BY DEF Steps
  <2>2. [req[r] EXCEPT !.pc = "refetch"] \in RequestType /\ [req[r] EXCEPT !.pc = "record"] \in RequestType
    BY <2>1, PcType
  <2>3. req' \in [Slots -> RequestType]
    BY <1>10, <2>2, GotoType DEF Capture
  <2>4. rzp' \in RazorpayState
    BY <1>10 DEF Capture, RazorpayState, PayStatus
  <2>5. events' \subseteq EventType
    BY <1>10 DEF Capture, EventType, Event, PaymentEvents
  <2> QED BY <1>10, <2>3, <2>4, <2>5 DEF Capture
<1>11. ASSUME NEW r \in Slots, Refetch(r) PROVE TypeOK'
  <2>1. req[r] \in RequestType /\ "record" \in Steps
    BY DEF Steps
  <2>2. [req[r] EXCEPT !.pc = "record"] \in RequestType
    BY <2>1, PcType
  <2> QED BY <1>11, <2>2, IdleType, GotoType DEF Refetch, Fail
<1>12. ASSUME NEW r \in Slots, Record(r) PROVE TypeOK'
  <2>1. payment' \in PaymentRow
    BY <1>12 DEF Record, PaymentRow, PaymentStatus
  <2>2. [booking EXCEPT !.status = "PENDING"] \in BookingRow /\ [booking EXCEPT !.status = booking.status] = booking
    BY DEF BookingRow, BookingStatus
  <2>3. booking' \in BookingRow
    BY <1>12, <2>2 DEF Record
  <2> QED BY <1>12, <2>1, <2>3, IdleType, GotoType DEF Record, Return, Acknowledge
<1>13. ASSUME NEW r \in Slots, CancelBooking(r) PROVE TypeOK'
  <2>1. req[r].amount \in Int /\ booking.total - req[r].amount \in Int
    BY DEF RequestType, BookingRow
  <2>2. \A n \in Int : [Idle EXCEPT !.pc = "startRefund", !.amount = n] \in RequestType
    BY IdleType DEF RequestType, Steps
  <2>3. [Idle EXCEPT !.pc = "startRefund", !.amount = booking.total - req[r].amount] \in RequestType
    BY <2>1, <2>2
  <2> QED BY <1>13, <2>1, <2>3, IdleType, GotoType, CancelledFromType DEF CancelBooking
<1>14. ASSUME NEW r \in Slots, AssignWrite(r) PROVE TypeOK'
  <2>1. booking' \in BookingRow
    BY <1>14 DEF AssignWrite, BookingRow, BookingStatus, RequestType
  <2> QED BY <1>14, <2>1, IdleType, GotoType DEF AssignWrite
<1>15. ASSUME NEW r \in Slots, SetStatusWrite(r) PROVE TypeOK'
  <2>1. [Idle EXCEPT !.pc = "startRefund", !.amount = booking.total] \in RequestType
    BY IdleType DEF RequestType, Steps, BookingRow
  <2>2. [booking EXCEPT !.status = req[r].next] \in BookingRow
    BY DEF BookingRow, RequestType
  <2> QED BY <1>15, <2>1, <2>2, IdleType, GotoType, CancelledFromType DEF SetStatusWrite
<1>16. ASSUME NEW r \in Slots, StartRefund(r) PROVE TypeOK'
  <2>1. [Idle EXCEPT !.pc = "schedule"] \in RequestType
    BY IdleType, PcType DEF Steps
  <2>2. payment' \in PaymentRow
    BY <1>16 DEF StartRefund, PaymentRow, PaymentStatus, RequestType
  <2> QED BY <1>16, <2>1, <2>2, IdleType, GotoType DEF StartRefund
<1>17. ASSUME NEW r \in Slots, Schedule(r) PROVE TypeOK'
  <2>1. job' \in JobType
    BY <1>17 DEF Schedule, JobType, JobStates
  <2> QED BY <1>17, <2>1, IdleType, GotoType DEF Schedule
<1>18. ASSUME NEW r \in Slots, Abort(r) PROVE TypeOK'
  <2>1. faults' \in FaultCount
    BY <1>18 DEF Abort, FaultCount
  <2> QED BY <1>18, <2>1, IdleType, GotoType DEF Abort, Fail
<1>19. ASSUME JobStart PROVE TypeOK'
  <2>1. job' \in JobType
    BY <1>19 DEF JobStart, JobType, JobStates, PaymentRow
  <2> QED BY <1>19, <2>1 DEF JobStart
<1>20. ASSUME NEW status \in RefundStatus, JobRefund(status) PROVE TypeOK'
  <2>1. Len(rzp.refunds) + 1 \in Nat
    BY DEF RazorpayState
  <2>2. job' \in JobType
    BY <1>20, <2>1 DEF JobRefund, JobType, JobStates
  <2> QED BY <1>20, <2>2, IssueType DEF JobRefund
<1>21. ASSUME NEW status \in RefundStatus, JobRefundUnheard(status) PROVE TypeOK'
  <2>1. faults' \in FaultCount
    BY <1>21 DEF JobRefundUnheard, FaultCount
  <2> QED BY <1>21, <2>1, IssueType, AttemptFailedType DEF JobRefundUnheard
<1>22. ASSUME JobRefused PROVE TypeOK'
  BY <1>22, AttemptFailedType DEF JobRefused
<1>23. ASSUME JobSetId PROVE TypeOK'
  <2>1. job' \in JobType
    BY <1>23 DEF JobSetId, JobType, JobStates
  <2>2. payment' \in PaymentRow
    BY <1>23 DEF JobSetId, JobType, PaymentRow
  <2> QED BY <1>23, <2>1, <2>2 DEF JobSetId
<1>24. ASSUME JobMark PROVE TypeOK'
  <2>1. job' \in JobType
    BY <1>24 DEF JobMark, JobType, JobStates
  <2>2. payment' \in PaymentRow
    BY <1>24 DEF JobMark, PaymentRow, PaymentStatus
  <2> QED BY <1>24, <2>1, <2>2 DEF JobMark
<1>25. ASSUME JobError PROVE TypeOK'
  <2>1. faults' \in FaultCount
    BY <1>25 DEF JobError, FaultCount
  <2> QED BY <1>25, <2>1, AttemptFailedType DEF JobError
<1>26. ASSUME JobStall PROVE TypeOK'
  <2>1. faults' \in FaultCount
    BY <1>26 DEF JobStall, FaultCount
  <2>2. job' \in JobType
    <3>1. NoJob \in JobType /\ job.attempts \in Nat /\ job.stalls + 1 \in Nat
      BY DEF NoJob, JobType, JobStates, RefundStatus
    <3>2. \A s \in JobStates, n, m \in Nat :
            [NoJob EXCEPT !.state = s, !.attempts = n, !.stalls = m] \in JobType
      BY <3>1 DEF JobType
    <3> QED BY <1>26, <3>1, <3>2 DEF JobStall, JobStates
  <2> QED BY <1>26, <2>1, <2>2 DEF JobStall
<1>27. ASSUME Pay PROVE TypeOK'
  <2>1. rzp' \in RazorpayState
    BY <1>27 DEF Pay, RazorpayState, PayStatus
  <2> QED BY <1>27, <2>1 DEF Pay, EventType, Event, PaymentEvents
<1>28. ASSUME AutoCapture PROVE TypeOK'
  <2>1. rzp' \in RazorpayState
    BY <1>28 DEF AutoCapture, RazorpayState, PayStatus
  <2> QED BY <1>28, <2>1 DEF AutoCapture, EventType, Event, PaymentEvents
<1>29. ASSUME Lapse PROVE TypeOK'
  <2>1. rzp' \in RazorpayState
    BY <1>29 DEF Lapse, RazorpayState, PayStatus
  <2> QED BY <1>29, <2>1 DEF Lapse
<1>30. ASSUME NEW i \in DOMAIN rzp.refunds, RefundSettles(i) PROVE TypeOK'
  <2>1. rzp' \in RazorpayState
    <3>1. rzp.refunds \in Seq(Refund) /\ rzp.back \in Int
      BY DEF RazorpayState
    <3>2. rzp.refunds[i] \in Refund
      BY <3>1, ElementOfSeq
    <3>3. \A s \in RefundStatus : [rzp.refunds EXCEPT ![i].status = s] \in Seq(Refund)
      <4> SUFFICES ASSUME NEW s \in RefundStatus
                   PROVE  [rzp.refunds EXCEPT ![i] = [@ EXCEPT !.status = s]] \in Seq(Refund)
        OBVIOUS
      <4>1. [rzp.refunds[i] EXCEPT !.status = s] \in Refund
        BY <3>2 DEF Refund
      <4> QED BY <3>1, <4>1, ExceptSeq
    <3>4. rzp.back - rzp.refunds[i].amount \in Int
      BY <3>1, <3>2 DEF Refund
    <3> QED BY <1>30, <3>3, <3>4 DEF RefundSettles, RazorpayState, RefundStatus
  <2>2. i \in Nat
    BY DEF RazorpayState
  <2>3. events' \subseteq EventType
    BY <1>30, <2>2 DEF RefundSettles, EventType, Event, RefundEvents
  <2> QED BY <1>30, <2>1, <2>3 DEF RefundSettles
<1>31. ASSUME NEW h \in Hooks, NEW type \in PaymentEvents, WebhookPayment(h, type) PROVE TypeOK'
  <2>1. [Idle EXCEPT !.pc = "fetch", !.ev = type] \in RequestType
    BY IdleType DEF RequestType, Steps
  <2> QED BY <1>31, <2>1, GotoType DEF WebhookPayment, Acknowledge, Slots
<1>32. ASSUME NEW e \in events, WebhookRefund(e) PROVE TypeOK'
  <2>1. payment' \in PaymentRow
    BY <1>32 DEF WebhookRefund, PaymentRow, PaymentStatus
  <2> QED BY <1>32, <2>1 DEF WebhookRefund, Acknowledge
<1>33. ASSUME WindowCloses PROVE TypeOK'
  BY <1>33 DEF WindowCloses
<1>34. ASSUME UNCHANGED vars PROVE TypeOK'
  BY <1>34 DEF vars
<1> HIDE DEF TypeOK
<1> QED
  BY <1>1, <1>2, <1>3, <1>4, <1>5, <1>6, <1>7, <1>8, <1>9, <1>10, <1>11, <1>12, <1>13, <1>14,
     <1>15, <1>16, <1>17, <1>18, <1>19, <1>20, <1>21, <1>22, <1>23, <1>24, <1>25, <1>26, <1>27,
     <1>28, <1>29, <1>30, <1>31, <1>32, <1>33, <1>34
  DEF Next, Arrival, RequestStep, SettleStep, JobStep, JobTrouble, Razorpay, Deliver

-----------------------------------------------------------------------------

Advance ==
    /\ booking.status # "NONE" => booking'.status # "NONE" /\ booking'.total = booking.total
    /\ booking.status \notin {"NONE", "AWAITING_PAYMENT"} =>
          booking'.status \notin {"NONE", "AWAITING_PAYMENT"}
    /\ booking.cancelledAt => booking'.cancelledAt
    /\ payment.status \in Settled => payment'.status \in Settled
    /\ payment.status \in Refunding => payment'.status \in Refunding
    /\ rzp.pay = "captured" => rzp'.pay = "captured"
    /\ late => late'

\* What no step ever takes back: a booking made, its total, the time passed,
\* a captured payment, a cancellation and a claimed refund.  Every statement a
\* request makes on what it read earlier rests on this.
LEMMA Advances ==
  ASSUME TypeOK, PayInv, BookInv, ReqInv, [Next]_vars PROVE Advance
<1> USE DEF Advance, Settled, Refunding
<1>0. booking \in BookingRow /\ payment \in PaymentRow /\ rzp \in RazorpayState /\ req \in [Slots -> RequestType]
  BY DEF TypeOK
<1>1. ASSUME NEW r \in Requests, NEW total \in Totals, Book(r, total) PROVE Advance
  BY <1>0, <1>1 DEF Book, BookingRow, PayInv
<1>2. ASSUME NEW r \in Slots, CreatePayment(r) PROVE Advance
  BY <1>0, <1>2 DEF CreatePayment, At, BookInv, Booking, PaymentRow, RazorpayState
<1>3. ASSUME NEW r \in Slots, CloseBooking(r) PROVE Advance
  BY <1>0, <1>3 DEF CloseBooking, CancelledFrom, BookingRow
<1>4. ASSUME NEW r \in Slots, Capture(r) PROVE Advance
  BY <1>0, <1>4 DEF Capture, RazorpayState
<1>5. ASSUME NEW r \in Slots, Record(r) PROVE Advance
  <2>1. CASE payment.status = "CREATED"
    BY <1>0, <1>5, <2>1 DEF Record, BookingRow, PaymentRow
  <2>2. CASE payment.status # "CREATED"
    BY <1>5, <2>2 DEF Record
  <2> QED BY <2>1, <2>2
<1>6. ASSUME NEW r \in Slots, CancelBooking(r) PROVE Advance
  BY <1>0, <1>6 DEF CancelBooking, CancelledFrom, CUSTOMER_CANCELLABLE, BookingRow
<1>7. ASSUME NEW r \in Slots, AssignWrite(r) PROVE Advance
  BY <1>0, <1>7 DEF AssignWrite, BookingRow
<1>8. ASSUME NEW r \in Slots, SetStatusWrite(r) PROVE Advance
  <2>1. req[r].next \in {"IN_PROGRESS", "COMPLETED", "CANCELLED"}
    BY <1>8 DEF SetStatusWrite, At, ReqInv, ReqOK
  <2> QED BY <1>0, <1>8, <2>1 DEF SetStatusWrite, CancelledFrom, BookingRow
<1>9. ASSUME NEW r \in Slots, StartRefund(r) PROVE Advance
  BY <1>0, <1>9 DEF StartRefund, PaymentRow
<1>10. ASSUME JobSetId PROVE Advance
  BY <1>0, <1>10 DEF JobSetId, PaymentRow
<1>11. ASSUME JobMark PROVE Advance
  BY <1>0, <1>11 DEF JobMark, PaymentRow
<1>12. ASSUME NEW e \in events, WebhookRefund(e) PROVE Advance
  BY <1>0, <1>12 DEF WebhookRefund, PaymentRow
<1>13. ASSUME NEW status \in RefundStatus, JobRefund(status) \/ JobRefundUnheard(status) PROVE Advance
  <2>1. Issue(status) /\ UNCHANGED <<booking, payment, late>>
    BY <1>13 DEF JobRefund, JobRefundUnheard
  <2>2. rzp'.pay = rzp.pay
    BY <1>0, <2>1, IssueFacts
  <2> QED BY <2>1, <2>2
<1>14. ASSUME NEW i \in DOMAIN rzp.refunds, RefundSettles(i) PROVE Advance
  BY <1>0, <1>14 DEF RefundSettles, RazorpayState
<1>15. ASSUME Pay \/ AutoCapture \/ Lapse PROVE Advance
  BY <1>0, <1>15 DEF Pay, AutoCapture, Lapse, RazorpayState
<1>16. ASSUME UNCHANGED <<booking, payment, rzp, late>> PROVE Advance
  BY <1>16
<1>17. ASSUME NEW r \in Slots,
              CreateOrder(r) \/ Fetch(r) \/ Refetch(r) \/ Schedule(r) \/ Abort(r)
       PROVE  UNCHANGED <<booking, payment, rzp, late>>
  BY <1>17 DEF CreateOrder, Fetch, Refetch, Schedule, Abort
<1>18. ASSUME NEW r \in Requests,
              \/ Verify(r) \/ Cancel(r)
              \/ \E pro \in Professionals : Assign(r, pro)
              \/ \E next \in BookingStatus : SetStatus(r, next)
       PROVE  UNCHANGED <<booking, payment, rzp, late>>
  BY <1>18 DEF Verify, Cancel, Assign, SetStatus
<1>19. ASSUME JobStart \/ JobRefused \/ JobError \/ JobStall
              \/ \E h \in Hooks, type \in PaymentEvents : WebhookPayment(h, type)
       PROVE  UNCHANGED <<booking, payment, rzp, late>>
  BY <1>19 DEF JobStart, JobRefused, JobError, JobStall, WebhookPayment
<1>20. ASSUME WindowCloses PROVE Advance
  BY <1>20 DEF WindowCloses
<1>21. ASSUME UNCHANGED vars PROVE UNCHANGED <<booking, payment, rzp, late>>
  BY <1>21 DEF vars
<1> HIDE DEF Advance, Settled, Refunding
<1> QED
  BY <1>1, <1>2, <1>3, <1>4, <1>5, <1>6, <1>7, <1>8, <1>9, <1>10, <1>11, <1>12, <1>13, <1>14,
     <1>15, <1>16, <1>17, <1>18, <1>19, <1>20, <1>21
  DEF Next, Arrival, RequestStep, SettleStep, JobStep, JobTrouble, Razorpay, Deliver

\* What the customer is owed on a cancellation at some time is still a refund
\* that cancel() may have read it as, after more time has passed.
LEMMA OwedStays ==
  ASSUME TypeOK, TypeOK', Advance, booking.status # "NONE", NEW n \in Int, n \in Owed
  PROVE  n \in Owed'
<1>1. booking.total \in Int /\ late \in BOOLEAN /\ late' \in BOOLEAN
  BY DEF TypeOK, BookingRow
<1>2. booking'.total = booking.total /\ (late => late')
  BY DEF Advance
<1> QED
  BY <1>1, <1>2 DEF Owed, Age, CancellationFee, FREE_CANCELLATION_HOURS, RoundDiv

\* A booking that has left checkout stays out of it.
LEMMA OpenedStays ==
  ASSUME Advance, Opened PROVE Opened'
  BY DEF Advance, Opened

\* What a waiting request relies on survives the steps of the others.
LEMMA ReqOthers ==
  ASSUME TypeOK, TypeOK', PayInv, Advance, NEW s \in Slots, ReqOK(s), req'[s] = req[s]
  PROVE  ReqOK(s)'
<1>1. req[s].amount \in Int /\ booking.total - req[s].amount \in Int
  BY DEF TypeOK, RequestType, BookingRow
<1>2. Opened => booking.status # "NONE"
  BY DEF Opened
<1>3. booking.cancelledAt => booking.status # "NONE"
  BY DEF PayInv
<1>4. ASSUME req[s].pc = "cancelBooking" PROVE booking'.total - req[s].amount \in Owed'
  <2>1. booking.status # "NONE" /\ booking.total - req[s].amount \in Owed
    BY <1>2, <1>4 DEF ReqOK
  <2>2. booking'.total = booking.total
    BY <2>1 DEF Advance
  <2> QED BY <1>1, <2>1, <2>2, OwedStays
<1>5. ASSUME req[s].pc = "startRefund" PROVE booking'.cancelledAt /\ req[s].amount \in Owed'
  BY <1>1, <1>3, <1>5, OwedStays DEF ReqOK, Advance
<1>6. ASSUME req[s].pc = "schedule" PROVE payment'.status \in Refunding
  BY <1>6 DEF ReqOK, Advance
<1>7. ASSUME req[s].pc = "record" PROVE rzp'.pay = "captured"
  BY <1>7 DEF ReqOK, Advance
<1> QED
  BY <1>4, <1>5, <1>6, <1>7, OpenedStays DEF ReqOK

\* A step that moves one request has only that request to answer for.
LEMMA ReqOne ==
  ASSUME TypeOK, TypeOK', PayInv, ReqInv, Advance, NEW r \in Slots, NEW q,
         Goto(r, q), ReqOK(r)'
  PROVE  ReqInv'
<1> SUFFICES ASSUME NEW s \in Slots PROVE ReqOK(s)'
  BY DEF ReqInv
<1>1. CASE s = r
  BY <1>1
<1>2. CASE s # r
  <2>1. req'[s] = req[s]
    BY <1>2 DEF Goto, TypeOK
  <2> QED BY <2>1, ReqOthers DEF ReqInv
<1> QED BY <1>1, <1>2

\* A step that moves no request disturbs none.
LEMMA ReqNone ==
  ASSUME TypeOK, TypeOK', PayInv, ReqInv, Advance, UNCHANGED req PROVE ReqInv'
  BY ReqOthers DEF ReqInv

\* Where a request is after it is moved on.
LEMMA GotoAt ==
  ASSUME TypeOK, NEW r \in Slots, NEW q, Goto(r, q) PROVE req'[r] = q
  BY DEF Goto, TypeOK

\* Moving to the next statement sets just that.
LEMMA PcOnly ==
  ASSUME NEW s \in RequestType, NEW pc
  PROVE  [s EXCEPT !.pc = pc].pc = pc
  BY DEF RequestType

\* A request that has ended relies on nothing.
LEMMA IdleOK ==
  ASSUME TypeOK, NEW r \in Slots, Goto(r, Idle) PROVE ReqOK(r)'
<1>1. req'[r].pc = "idle"
  BY GotoAt DEF Idle
<1> QED BY <1>1 DEF ReqOK

\* Every step keeps what each request read before its last await true enough
\* for the statement it makes next.
LEMMA ReqStep ==
  ASSUME TypeOK, TypeOK', PayInv, BookInv, ReqInv, Advance, [Next]_vars PROVE ReqInv'
<1> USE DEF Slots
<1>1. ASSUME NEW r \in Slots, NEW q \in RequestType, Goto(r, q),
             q.pc \in {"idle", "createOrder", "createPayment", "closeBooking",
                       "fetch", "capture", "refetch"}
      PROVE  ReqInv'
  <2>1. ReqOK(r)'
    BY <1>1, GotoAt DEF ReqOK
  <2> QED BY <1>1, <2>1, ReqOne
<1>2. ASSUME NEW r \in Slots, Goto(r, Idle) PROVE ReqInv'
  BY <1>2, IdleOK, ReqOne
<1>3. ASSUME NEW r \in Slots, NEW q \in RequestType, Goto(r, q), q.pc = "record", rzp'.pay = "captured"
      PROVE  ReqInv'
  <2>1. ReqOK(r)'
    BY <1>3, GotoAt DEF ReqOK
  <2> QED BY <1>3, <2>1, ReqOne
<1>4. \A pc : [Idle EXCEPT !.pc = pc].pc = pc
  BY DEF Idle
<1>5. \A pc \in Steps : [Idle EXCEPT !.pc = pc] \in RequestType
  BY IdleType, PcType
<1>6. \A r \in Slots, pc \in Steps : [req[r] EXCEPT !.pc = pc] \in RequestType
                                    /\ [req[r] EXCEPT !.pc = pc].pc = pc
  BY PcType, PcOnly DEF TypeOK
<1>7. "createOrder" \in Steps /\ "createPayment" \in Steps /\ "closeBooking" \in Steps
      /\ "fetch" \in Steps /\ "capture" \in Steps /\ "refetch" \in Steps /\ "record" \in Steps
  BY DEF Steps
<1>8. ASSUME NEW r \in Requests, NEW total \in Totals, Book(r, total) PROVE ReqInv'
  BY <1>1, <1>2, <1>4, <1>5, <1>7, <1>8 DEF Book
<1>9. ASSUME NEW r \in Requests, Verify(r) PROVE ReqInv'
  BY <1>1, <1>4, <1>5, <1>7, <1>9 DEF Verify
<1>10. ASSUME NEW r \in Requests, Cancel(r) PROVE ReqInv'
  <2> DEFINE fee == CancellationFee(booking.total, Age)
  <2>1. req'[r] = [Idle EXCEPT !.pc = "cancelBooking", !.amount = fee] /\ UNCHANGED <<booking, payment, late>>
    BY <1>10, GotoAt DEF Cancel
  <2>2. req'[r].pc = "cancelBooking" /\ req'[r].amount = fee
    BY <2>1 DEF Idle
  <2>3. Opened'
    BY <1>10, <2>1 DEF Cancel, CUSTOMER_CANCELLABLE, PayInv, Released, Opened
  <2>4. booking'.total - req'[r].amount \in Owed'
    BY <2>1, <2>2 DEF Owed, Age
  <2>5. ReqOK(r)'
    BY <2>2, <2>3, <2>4 DEF ReqOK
  <2> QED BY <1>10, <2>5, ReqOne DEF Cancel
<1>11. ASSUME NEW r \in Requests, NEW pro \in Professionals, Assign(r, pro) PROVE ReqInv'
  <2>1. req'[r] = [Idle EXCEPT !.pc = "assign", !.pro = pro] /\ UNCHANGED <<booking, payment>>
    BY <1>11, GotoAt DEF Assign
  <2>2. req'[r].pc = "assign"
    BY <2>1 DEF Idle
  <2>3. Opened'
    BY <1>11, <2>1 DEF Assign, ASSIGNABLE, PayInv, Released, Opened
  <2>4. ReqOK(r)'
    BY <2>2, <2>3 DEF ReqOK
  <2> QED BY <1>11, <2>4, ReqOne DEF Assign
<1>12. ASSUME NEW r \in Requests, NEW next \in BookingStatus, SetStatus(r, next) PROVE ReqInv'
  <2>1. /\ req'[r] = [Idle EXCEPT !.pc = "setStatus", !.seen = booking.status, !.next = next]
        /\ UNCHANGED <<booking, payment>>
    BY <1>12, GotoAt DEF SetStatus
  <2>2. req'[r].pc = "setStatus" /\ req'[r].next = next
    BY <2>1 DEF Idle
  <2>3. /\ next \in {"IN_PROGRESS", "COMPLETED", "CANCELLED"}
        /\ booking.status \in Released
    BY <1>12 DEF SetStatus, TRANSITIONS, TypeOK, BookingRow, Released
  <2>4. Opened'
    BY <2>1, <2>3 DEF PayInv, Opened
  <2>5. ReqOK(r)'
    BY <2>2, <2>3, <2>4 DEF ReqOK
  <2> QED BY <1>12, <2>5, ReqOne DEF SetStatus
<1>13. ASSUME NEW r \in Slots, CreateOrder(r) PROVE ReqInv'
  BY <1>1, <1>4, <1>5, <1>7, <1>13 DEF CreateOrder
<1>14. ASSUME NEW r \in Slots, CreatePayment(r) PROVE ReqInv'
  BY <1>1, <1>2, <1>4, <1>5, <1>7, <1>14 DEF CreatePayment
<1>15. ASSUME NEW r \in Slots, CloseBooking(r) \/ AssignWrite(r) \/ Schedule(r) \/ Abort(r) \/ Record(r) PROVE ReqInv'
  BY <1>2, <1>15 DEF CloseBooking, AssignWrite, Schedule, Abort, Fail, Record, Return
<1>16. ASSUME NEW r \in Slots, Fetch(r) PROVE ReqInv'
  <2>1. CASE FetchedStatus = "captured"
    <3>1. rzp'.pay = "captured"
      BY <1>16, <2>1 DEF Fetch, FetchedStatus
    <3> QED BY <1>3, <1>6, <1>7, <1>16, <2>1, <3>1 DEF Fetch
  <2>2. CASE FetchedStatus # "captured"
    BY <1>1, <1>2, <1>6, <1>7, <1>16, <2>2 DEF Fetch, Fail
  <2> QED BY <2>1, <2>2
<1>17. ASSUME NEW r \in Slots, Capture(r) PROVE ReqInv'
  <2>1. CASE Goto(r, [req[r] EXCEPT !.pc = "refetch"])
    BY <1>1, <1>6, <1>7, <2>1
  <2>2. CASE Goto(r, [req[r] EXCEPT !.pc = "record"]) /\ rzp' = [rzp EXCEPT !.pay = "captured"]
    <3>1. rzp'.pay = "captured"
      BY <2>2 DEF TypeOK, RazorpayState
    <3> QED BY <1>3, <1>6, <1>7, <2>2, <3>1
  <2> QED BY <1>17, <2>1, <2>2 DEF Capture
<1>18. ASSUME NEW r \in Slots, Refetch(r) PROVE ReqInv'
  <2>1. CASE FetchedStatus = "captured"
    <3>1. rzp'.pay = "captured"
      BY <1>18, <2>1 DEF Refetch, FetchedStatus
    <3> QED BY <1>3, <1>6, <1>7, <1>18, <2>1, <3>1 DEF Refetch
  <2>2. CASE FetchedStatus # "captured"
    BY <1>2, <1>18, <2>2 DEF Refetch, Fail
  <2> QED BY <2>1, <2>2
<1>19. ASSUME NEW r \in Slots, CancelBooking(r) PROVE ReqInv'
  <2>1. CASE booking.status \in CUSTOMER_CANCELLABLE
    <3>1. /\ Goto(r, [Idle EXCEPT !.pc = "startRefund", !.amount = booking.total - req[r].amount])
          /\ booking' = [booking EXCEPT !.status = "CANCELLED", !.fee = req[r].amount, !.cancelledAt = TRUE]
          /\ UNCHANGED late
      BY <1>19, <2>1 DEF CancelBooking, CancelledFrom
    <3>2. req'[r].pc = "startRefund" /\ req'[r].amount = booking.total - req[r].amount
      BY <3>1, GotoAt DEF Idle
    <3>3. booking'.cancelledAt /\ booking'.total = booking.total
      BY <3>1 DEF TypeOK, BookingRow
    <3>4. booking.total - req[r].amount \in Owed
      BY <1>19 DEF CancelBooking, At, ReqInv, ReqOK
    <3>5. Owed' = Owed
      BY <3>1, <3>3 DEF Owed, Age
    <3>6. ReqOK(r)'
      BY <3>2, <3>3, <3>4, <3>5 DEF ReqOK
    <3> QED BY <3>1, <3>6, ReqOne
  <2>2. CASE booking.status \notin CUSTOMER_CANCELLABLE
    BY <1>2, <1>19, <2>2 DEF CancelBooking
  <2> QED BY <2>1, <2>2
<1>20. ASSUME NEW r \in Slots, SetStatusWrite(r) PROVE ReqInv'
  <2>1. CASE req[r].next = "CANCELLED" /\ booking.status = req[r].seen
    <3>1. /\ Goto(r, [Idle EXCEPT !.pc = "startRefund", !.amount = booking.total])
          /\ booking' = [booking EXCEPT !.status = "CANCELLED", !.fee = 0, !.cancelledAt = TRUE]
      BY <1>20, <2>1 DEF SetStatusWrite, CancelledFrom
    <3>2. req'[r].pc = "startRefund" /\ req'[r].amount = booking.total
      BY <3>1, GotoAt DEF Idle
    <3>3. booking'.cancelledAt /\ booking'.total = booking.total
      BY <3>1 DEF TypeOK, BookingRow
    <3>4. ReqOK(r)'
      BY <3>2, <3>3 DEF ReqOK, Owed
    <3> QED BY <3>1, <3>4, ReqOne
  <2>2. CASE ~(req[r].next = "CANCELLED" /\ booking.status = req[r].seen)
    BY <1>2, <1>20, <2>2 DEF SetStatusWrite
  <2> QED BY <2>1, <2>2
<1>21. ASSUME NEW r \in Slots, StartRefund(r) PROVE ReqInv'
  <2>1. CASE req[r].amount > 0 /\ payment.status = "CAPTURED"
    <3>1. /\ Goto(r, [Idle EXCEPT !.pc = "schedule"])
          /\ payment' = [payment EXCEPT !.status = "REFUND_PENDING", !.refundAmount = req[r].amount]
      BY <1>21, <2>1 DEF StartRefund
    <3>2. req'[r].pc = "schedule"
      BY <3>1, GotoAt DEF Idle
    <3>3. payment'.status \in Refunding
      BY <3>1 DEF TypeOK, PaymentRow, Refunding
    <3>4. ReqOK(r)'
      BY <3>2, <3>3 DEF ReqOK
    <3> QED BY <3>1, <3>4, ReqOne
  <2>2. CASE ~(req[r].amount > 0 /\ payment.status = "CAPTURED")
    BY <1>2, <1>21, <2>2 DEF StartRefund
  <2> QED BY <2>1, <2>2
<1>22. ASSUME NEW h \in Hooks, NEW type \in PaymentEvents, WebhookPayment(h, type) PROVE ReqInv'
  <2>1. CASE payment.status = "CREATED"
    <3>1. [Idle EXCEPT !.pc = "fetch", !.ev = type].pc = "fetch"
      BY DEF Idle
    <3>2. [Idle EXCEPT !.pc = "fetch", !.ev = type] \in RequestType
      BY IdleType DEF RequestType, Steps
    <3> QED BY <1>1, <1>22, <2>1, <3>1, <3>2 DEF WebhookPayment
  <2>2. CASE payment.status # "CREATED"
    BY <1>22, <2>2, ReqNone DEF WebhookPayment
  <2> QED BY <2>1, <2>2
<1>23. ASSUME UNCHANGED req PROVE ReqInv'
  BY <1>23, ReqNone
<1>24. ASSUME JobStep \/ JobTrouble \/ Razorpay \/ WindowCloses \/ UNCHANGED vars PROVE UNCHANGED req
  BY <1>24 DEF JobStep, JobTrouble, Razorpay, WindowCloses, vars, JobStart, JobRefund, JobRefused,
     JobSetId, JobMark, JobRefundUnheard, JobError, JobStall, Pay, AutoCapture, Lapse, RefundSettles
<1>25. ASSUME NEW e \in events, WebhookRefund(e) PROVE UNCHANGED req
  BY <1>25 DEF WebhookRefund
<1> QED
  <2>1. ASSUME NEW r \in Requests, Arrival(r) PROVE ReqInv'
    BY <1>8, <1>9, <1>10, <1>11, <1>12, <2>1 DEF Arrival
  <2>2. ASSUME NEW r \in Slots, RequestStep(r) \/ Abort(r) PROVE ReqInv'
    BY <1>13, <1>14, <1>15, <1>16, <1>17, <1>18, <1>19, <1>20, <1>21, <2>2 DEF RequestStep, SettleStep
  <2>3. ASSUME Deliver PROVE ReqInv'
    BY <1>22, <1>23, <1>25, <2>3 DEF Deliver
  <2> HIDE DEF Slots
  <2> QED BY <1>23, <1>24, <2>1, <2>2, <2>3 DEF Next

\* Every step keeps the booking's row, its payment's and Razorpay in agreement.
LEMMA PayStep ==
  ASSUME TypeOK, PayInv, BookInv, ReqInv, Advance, [Next]_vars PROVE PayInv'
<1>0. booking \in BookingRow /\ payment \in PaymentRow /\ rzp \in RazorpayState /\ req \in [Slots -> RequestType]
  BY DEF TypeOK
<1> USE DEF PayInv, Opened, Settled, Released
<1>1. ASSUME NEW r \in Requests, NEW total \in Totals, Book(r, total) PROVE PayInv'
  BY <1>0, <1>1, ConstantsAssumption DEF Book, BookingRow
<1>2. ASSUME NEW r \in Slots, CreatePayment(r) PROVE PayInv'
  BY <1>0, <1>2 DEF CreatePayment, At, BookInv, Booking, PaymentRow
<1>3. ASSUME NEW r \in Slots, CloseBooking(r) PROVE PayInv'
  BY <1>0, <1>3 DEF CloseBooking, CancelledFrom, BookingRow
<1>4. ASSUME NEW r \in Slots, Record(r) PROVE PayInv'
  <2>1. CASE payment.status = "CREATED"
    <3>1. rzp.pay = "captured"
      BY <1>4 DEF Record, At, ReqInv, ReqOK
    <3> QED BY <1>0, <1>4, <2>1, <3>1 DEF Record, BookingRow, PaymentRow
  <2>2. CASE payment.status # "CREATED"
    BY <1>4, <2>2 DEF Record
  <2> QED BY <2>1, <2>2
<1>5. ASSUME NEW r \in Slots, CancelBooking(r) PROVE PayInv'
  BY <1>0, <1>5 DEF CancelBooking, CancelledFrom, BookingRow
<1>6. ASSUME NEW r \in Slots, AssignWrite(r) PROVE PayInv'
  BY <1>0, <1>6 DEF AssignWrite, At, ReqInv, ReqOK, BookingRow
<1>7. ASSUME NEW r \in Slots, SetStatusWrite(r) PROVE PayInv'
  <2>1. Opened /\ req[r].next \in {"IN_PROGRESS", "COMPLETED", "CANCELLED"}
    BY <1>7 DEF SetStatusWrite, At, ReqInv, ReqOK
  <2> QED BY <1>0, <1>7, <2>1 DEF SetStatusWrite, CancelledFrom, BookingRow
<1>8. ASSUME NEW r \in Slots, StartRefund(r) PROVE PayInv'
  BY <1>0, <1>8 DEF StartRefund, PaymentRow
<1>9. ASSUME UNCHANGED booking, payment'.status = payment.status \/ payment.status \in Refunding PROVE PayInv'
  BY <1>9 DEF Advance, Refunding
<1>10. ASSUME JobSetId \/ JobMark \/ \E e \in events : WebhookRefund(e)
       PROVE  UNCHANGED booking /\ (payment'.status = payment.status \/ payment.status \in Refunding)
  BY <1>0, <1>10 DEF JobSetId, JobMark, WebhookRefund, PaymentRow, Refunding
<1>11. ASSUME NEW r \in Slots,
              CreateOrder(r) \/ Fetch(r) \/ Capture(r) \/ Refetch(r) \/ Schedule(r) \/ Abort(r)
       PROVE  UNCHANGED <<booking, payment>>
  BY <1>11 DEF CreateOrder, Fetch, Capture, Refetch, Schedule, Abort
<1>12. ASSUME NEW r \in Requests,
              \/ Verify(r) \/ Cancel(r)
              \/ \E pro \in Professionals : Assign(r, pro)
              \/ \E next \in BookingStatus : SetStatus(r, next)
       PROVE  UNCHANGED <<booking, payment>>
  BY <1>12 DEF Verify, Cancel, Assign, SetStatus
<1>13. ASSUME JobStart \/ JobRefused \/ JobTrouble \/ Razorpay \/ WindowCloses \/ UNCHANGED vars
              \/ (\E status \in RefundStatus : JobRefund(status))
              \/ (\E h \in Hooks, type \in PaymentEvents : WebhookPayment(h, type))
       PROVE  UNCHANGED <<booking, payment>>
  BY <1>13 DEF JobStart, JobRefund, JobRefused, JobTrouble, JobRefundUnheard, JobError, JobStall,
     Razorpay, Pay, AutoCapture, Lapse, RefundSettles, WindowCloses, WebhookPayment, vars
<1> HIDE DEF PayInv, Opened, Settled, Released
<1> QED
  BY <1>1, <1>2, <1>3, <1>4, <1>5, <1>6, <1>7, <1>8, <1>9, <1>10, <1>11, <1>12, <1>13
  DEF Next, Arrival, RequestStep, SettleStep, JobStep, Deliver

\* Only one request ever makes the payment row of the booking.
LEMMA BookStep ==
  ASSUME TypeOK, PayInv, BookInv, Advance, [Next]_vars PROVE BookInv'
<1>0. booking \in BookingRow /\ payment \in PaymentRow /\ req \in [Slots -> RequestType]
  BY DEF TypeOK
<1>1. ASSUME \A s \in Slots : req'[s].pc \in Booking => req[s].pc \in Booking,
             payment.status = "NONE" => payment'.status = "NONE"
      PROVE  BookInv'
  BY <1>1 DEF BookInv, Advance
<1>2. ASSUME NEW r \in Slots, NEW q, Goto(r, q), q.pc \in Booking => req[r].pc \in Booking
      PROVE  \A s \in Slots : req'[s].pc \in Booking => req[s].pc \in Booking
  BY <1>0, <1>2 DEF Goto
<1>3. ASSUME NEW r \in Requests, NEW total \in Totals, Book(r, total) PROVE BookInv'
  <2>1. \A s \in Slots : req[s].pc \notin Booking
    BY <1>3 DEF Book, BookInv
  <2>2. payment'.status = "NONE" /\ booking'.status # "NONE"
    BY <1>0, <1>3 DEF Book, PayInv, BookingRow
  <2>3. \A s \in Slots : req'[s].pc \in Booking => s = r
    BY <1>0, <1>3, <2>1 DEF Book, Goto, Slots
  <2> QED BY <2>2, <2>3 DEF BookInv
<1>4. ASSUME NEW r \in Slots, CreateOrder(r) PROVE BookInv'
  <2>1. req[r].pc \in Booking /\ UNCHANGED payment
    BY <1>4 DEF CreateOrder, At, Booking
  <2> QED BY <1>1, <1>2, <1>4, <2>1 DEF CreateOrder
<1>5. ASSUME NEW r \in Slots, CreatePayment(r) PROVE BookInv'
  <2>1. req[r].pc \in Booking
    BY <1>5 DEF CreatePayment, At, Booking
  <2>2. req'[r].pc \notin Booking /\ \A s \in Slots \ {r} : req'[s] = req[s]
    BY <1>0, <1>5 DEF CreatePayment, Goto, Booking, Idle
  <2> QED BY <2>1, <2>2 DEF BookInv
<1>6. Idle.pc \notin Booking /\ \A pc : [Idle EXCEPT !.pc = pc].pc = pc
  BY DEF Idle, Booking
<1>7. ASSUME NEW r \in Slots, \/ Goto(r, Idle)
                               \/ \E q \in RequestType : Goto(r, q) /\ q.pc \notin Booking,
             UNCHANGED payment
      PROVE  BookInv'
  BY <1>1, <1>2, <1>6, <1>7
<1>8. \A r \in Slots, pc \in Steps : [req[r] EXCEPT !.pc = pc] \in RequestType
                                    /\ [req[r] EXCEPT !.pc = pc].pc = pc
  BY <1>0, PcType, PcOnly
<1>9. ASSUME NEW r \in Slots, Fetch(r) \/ Capture(r) \/ Refetch(r) PROVE BookInv'
  <2>1. \A pc \in {"capture", "refetch", "record"} : pc \in Steps /\ pc \notin Booking
    BY DEF Steps, Booking
  <2>2. UNCHANGED payment
    BY <1>9 DEF Fetch, Capture, Refetch
  <2>3. CASE Goto(r, Idle)
    BY <1>7, <2>2, <2>3
  <2>4. ASSUME NEW pc \in {"capture", "refetch", "record"}, Goto(r, [req[r] EXCEPT !.pc = pc])
        PROVE  BookInv'
    <3>1. [req[r] EXCEPT !.pc = pc].pc \notin Booking
      BY <1>8, <2>1
    <3>2. \A s \in Slots : req'[s].pc \in Booking => req[s].pc \in Booking
      BY <1>2, <2>4, <3>1
    <3> QED BY <1>1, <2>2, <3>2
  <2>5. \/ Goto(r, Idle)
        \/ \E pc \in {"capture", "refetch", "record"} : Goto(r, [req[r] EXCEPT !.pc = pc])
    BY <1>9 DEF Fetch, Capture, Refetch, Fail
  <2> QED BY <2>3, <2>4, <2>5
<1>10. ASSUME NEW r \in Slots, CloseBooking(r) \/ AssignWrite(r) \/ Schedule(r) \/ Abort(r) PROVE BookInv'
  BY <1>7, <1>10 DEF CloseBooking, AssignWrite, Schedule, Abort, Fail
<1>11. ASSUME NEW r \in Slots, Record(r) PROVE BookInv'
  <2>1. Goto(r, Idle) /\ (payment.status = "NONE" => payment'.status = "NONE")
    BY <1>11 DEF Record, Return
  <2> QED BY <1>1, <1>2, <1>6, <2>1
<1>12. \A pc \in {"cancelBooking", "assign", "setStatus", "startRefund", "schedule", "fetch"} : pc \notin Booking
  BY DEF Booking
<1>13. ASSUME NEW r \in Slots, CancelBooking(r) PROVE BookInv'
  <2>1. [Idle EXCEPT !.pc = "startRefund", !.amount = booking.total - req[r].amount].pc = "startRefund"
    BY DEF Idle
  <2> QED BY <1>1, <1>2, <1>6, <1>12, <1>13, <2>1 DEF CancelBooking
<1>14. ASSUME NEW r \in Slots, SetStatusWrite(r) PROVE BookInv'
  <2>1. [Idle EXCEPT !.pc = "startRefund", !.amount = booking.total].pc = "startRefund"
    BY DEF Idle
  <2> QED BY <1>1, <1>2, <1>6, <1>12, <1>14, <2>1 DEF SetStatusWrite
<1>15. ASSUME NEW r \in Slots, StartRefund(r) PROVE BookInv'
  <2>1. payment.status = "NONE" => payment'.status = "NONE"
    BY <1>15 DEF StartRefund
  <2> QED BY <1>1, <1>2, <1>6, <1>12, <1>15, <2>1 DEF StartRefund
<1>16. ASSUME NEW r \in Requests, Verify(r) PROVE BookInv'
  BY <1>1, <1>2, <1>6, <1>12, <1>16 DEF Verify, Slots
<1>17. ASSUME NEW r \in Requests, Cancel(r) PROVE BookInv'
  <2>1. [Idle EXCEPT !.pc = "cancelBooking", !.amount = CancellationFee(booking.total, Age)].pc = "cancelBooking"
    BY DEF Idle
  <2> QED BY <1>1, <1>2, <1>12, <1>17, <2>1 DEF Cancel, Slots
<1>18. ASSUME NEW r \in Requests, NEW pro \in Professionals, Assign(r, pro) PROVE BookInv'
  <2>1. [Idle EXCEPT !.pc = "assign", !.pro = pro].pc = "assign"
    BY DEF Idle
  <2> QED BY <1>1, <1>2, <1>12, <1>18, <2>1 DEF Assign, Slots
<1>19. ASSUME NEW r \in Requests, NEW next \in BookingStatus, SetStatus(r, next) PROVE BookInv'
  <2>1. [Idle EXCEPT !.pc = "setStatus", !.seen = booking.status, !.next = next].pc = "setStatus"
    BY DEF Idle
  <2> QED BY <1>1, <1>2, <1>12, <1>19, <2>1 DEF SetStatus, Slots
<1>20. ASSUME NEW h \in Hooks, NEW type \in PaymentEvents, WebhookPayment(h, type) PROVE BookInv'
  <2>1. [Idle EXCEPT !.pc = "fetch", !.ev = type].pc = "fetch"
    BY DEF Idle
  <2>2. UNCHANGED payment /\ h \in Slots
    BY <1>20 DEF WebhookPayment, Slots
  <2>3. CASE Goto(h, [Idle EXCEPT !.pc = "fetch", !.ev = type])
    BY <1>1, <1>2, <1>12, <2>1, <2>2, <2>3
  <2>4. CASE UNCHANGED req
    BY <1>1, <2>2, <2>4
  <2> QED BY <1>20, <2>3, <2>4 DEF WebhookPayment
<1>21. ASSUME JobStep \/ JobTrouble \/ Razorpay \/ WindowCloses \/ UNCHANGED vars
              \/ \E e \in events : WebhookRefund(e)
       PROVE  UNCHANGED req /\ (payment.status = "NONE" => payment'.status = "NONE")
  BY <1>0, <1>21 DEF JobStep, JobTrouble, Razorpay, WindowCloses, vars, JobStart, JobRefund, JobRefused,
     JobSetId, JobMark, JobRefundUnheard, JobError, JobStall, Pay, AutoCapture, Lapse, RefundSettles,
     WebhookRefund, PaymentRow
<1>22. ASSUME UNCHANGED req /\ (payment.status = "NONE" => payment'.status = "NONE") PROVE BookInv'
  BY <1>1, <1>22
<1> QED
  BY <1>3, <1>4, <1>5, <1>9, <1>10, <1>11, <1>13, <1>14, <1>15, <1>16, <1>17, <1>18, <1>19, <1>20,
     <1>21, <1>22
  DEF Next, Arrival, RequestStep, SettleStep, Deliver

\* Every step keeps the refund claimed once, after the cancellation, for what
\* was owed, and the job and Razorpay on that one amount.
LEMMA ClaimStep ==
  ASSUME TypeOK, TypeOK', PayInv, BookInv, ReqInv, ClaimInv, Advance, [Next]_vars PROVE ClaimInv'
<1>0. /\ payment \in PaymentRow /\ rzp \in RazorpayState /\ job \in JobType
      /\ req \in [Slots -> RequestType] /\ rzp.refunds \in Seq(Refund)
  BY DEF TypeOK, RazorpayState
<1>1. ASSUME payment'.refundAmount = payment.refundAmount,
             payment'.status \in Refunding => payment.status \in Refunding
      PROVE  RefundFollowsCancel'
  <2>1. SUFFICES ASSUME payment'.status \in Refunding
                 PROVE  booking'.cancelledAt /\ payment'.refundAmount \in Owed' /\ payment'.refundAmount > 0
    BY DEF RefundFollowsCancel
  <2>2. payment.status \in Refunding /\ payment.refundAmount \in Int
    BY <1>0, <1>1, <2>1 DEF PaymentRow
  <2>3. booking.status # "NONE"
    BY <2>2 DEF PayInv, Refunding, Settled
  <2> QED BY <1>1, <2>2, <2>3, OwedStays DEF ClaimInv, RefundFollowsCancel, Advance
<1>2. ASSUME UNCHANGED <<payment, job>>, rzp'.refunds = rzp.refunds PROVE ClaimInv'
  BY <1>1, <1>2 DEF ClaimInv
<1>3. ASSUME NEW r \in Slots, CreatePayment(r) \/ Record(r) PROVE ClaimInv'
  <2>1. /\ payment'.refundAmount = payment.refundAmount
        /\ payment'.refundId = payment.refundId
        /\ payment'.status \in Refunding <=> payment.status \in Refunding
    BY <1>0, <1>3 DEF CreatePayment, Record, At, BookInv, Booking, PaymentRow, Refunding
  <2>2. rzp'.refunds = rzp.refunds /\ UNCHANGED job
    BY <1>0, <1>3 DEF CreatePayment, Record, RazorpayState
  <2> QED BY <1>1, <2>1, <2>2 DEF ClaimInv
<1>4. ASSUME NEW r \in Slots, StartRefund(r) PROVE ClaimInv'
  <2>1. CASE req[r].amount > 0 /\ payment.status = "CAPTURED"
    <3>1. /\ payment' = [payment EXCEPT !.status = "REFUND_PENDING", !.refundAmount = req[r].amount]
          /\ UNCHANGED <<booking, rzp, job, late>>
      BY <1>4, <2>1 DEF StartRefund
    <3>2. payment'.status = "REFUND_PENDING" /\ payment'.refundAmount = req[r].amount
      BY <1>0, <3>1 DEF PaymentRow
    <3>3. booking.cancelledAt /\ req[r].amount \in Owed
      BY <1>4 DEF StartRefund, At, ReqInv, ReqOK
    <3>4. Owed' = Owed
      BY <3>1 DEF Owed, Age
    <3>5. RefundFollowsCancel'
      BY <2>1, <3>1, <3>2, <3>3, <3>4 DEF RefundFollowsCancel
    <3>6. rzp.refunds = <<>> /\ job.state = "none"
      BY <2>1 DEF ClaimInv, Refunding
    <3>7. \A i \in DOMAIN rzp'.refunds : FALSE
      BY <3>1, <3>6
    <3> QED BY <3>1, <3>2, <3>5, <3>6, <3>7 DEF ClaimInv, Refunding, ActiveJob
  <2>2. CASE ~(req[r].amount > 0 /\ payment.status = "CAPTURED")
    BY <1>2, <1>4, <2>2 DEF StartRefund
  <2> QED BY <2>1, <2>2
<1>5. ASSUME NEW r \in Slots, Schedule(r) PROVE ClaimInv'
  <2>1. payment.status \in Refunding
    BY <1>5 DEF Schedule, At, ReqInv, ReqOK
  <2>2. job'.state \in ActiveJob => job' = job
    BY <1>0, <1>5 DEF Schedule, JobType, ActiveJob
  <2>3. UNCHANGED <<payment, rzp>>
    BY <1>5 DEF Schedule
  <2> QED BY <1>1, <2>1, <2>2, <2>3 DEF ClaimInv
<1>6. ASSUME job.state # "none" PROVE payment.status \in Refunding
  BY <1>6 DEF ClaimInv
<1>7. ASSUME JobStart PROVE ClaimInv'
  <2>1. job.state # "none" /\ UNCHANGED <<payment, rzp>>
    BY <1>7 DEF JobStart
  <2>2. job'.state \in ActiveJob => job'.amount = payment.refundAmount
    BY <1>0, <1>7 DEF JobStart, JobType, ActiveJob
  <2> QED BY <1>1, <1>6, <2>1, <2>2 DEF ClaimInv
<1>8. ASSUME NEW status \in RefundStatus, Issue(status), job.state = "refund", UNCHANGED payment,
             job'.state \in ActiveJob => job'.amount = job.amount
      PROVE  ClaimInv'
  <2>1. payment.status \in Refunding /\ job.amount = payment.refundAmount
    BY <1>6, <1>8 DEF ClaimInv, ActiveJob
  <2>2. rzp'.refunds = Append(rzp.refunds, [amount |-> job.amount, status |-> status])
    BY <1>0, <1>8, IssueFacts
  <2>3. \A i \in DOMAIN rzp'.refunds : rzp'.refunds[i].amount = payment.refundAmount
    BY <1>0, <2>1, <2>2 DEF ClaimInv
  <2> QED BY <1>1, <1>8, <2>1, <2>3 DEF ClaimInv
<1>9. ASSUME NEW status \in RefundStatus, JobRefund(status) PROVE ClaimInv'
  <2>1. job'.amount = job.amount
    BY <1>0, <1>9 DEF JobRefund, JobType
  <2> QED BY <1>8, <1>9, <2>1 DEF JobRefund
<1>10. ASSUME AttemptFailed PROVE job'.state \notin ActiveJob
  BY <1>10 DEF AttemptFailed, NoJob, ActiveJob
<1>11. ASSUME NEW status \in RefundStatus, JobRefundUnheard(status) PROVE ClaimInv'
  BY <1>8, <1>10, <1>11 DEF JobRefundUnheard
<1>12. ASSUME JobRefused \/ JobError \/ JobStall PROVE ClaimInv'
  <2>1. job.state # "none" /\ UNCHANGED <<payment, rzp>>
    BY <1>12 DEF JobRefused, JobError, JobStall, ActiveJob
  <2>2. job'.state \notin ActiveJob
    BY <1>10, <1>12 DEF JobRefused, JobError, JobStall, NoJob, ActiveJob
  <2> QED BY <1>1, <1>6, <2>1, <2>2 DEF ClaimInv
<1>13. ASSUME JobSetId \/ JobMark PROVE ClaimInv'
  <2>1. payment.status \in Refunding /\ UNCHANGED rzp
    BY <1>6, <1>13 DEF JobSetId, JobMark
  <2>2. payment'.status \in Refunding /\ payment'.refundAmount = payment.refundAmount
    BY <1>0, <1>13, <2>1 DEF JobSetId, JobMark, PaymentRow, Refunding
  <2>3. job'.amount = job.amount /\ job.amount = payment.refundAmount
    BY <1>0, <1>13 DEF JobSetId, JobMark, JobType, ClaimInv, ActiveJob
  <2> QED BY <1>1, <2>1, <2>2, <2>3 DEF ClaimInv
<1>14. ASSUME NEW i \in DOMAIN rzp.refunds, RefundSettles(i) PROVE ClaimInv'
  <2>1. UNCHANGED <<payment, job>>
    BY <1>14 DEF RefundSettles
  <2>2. PICK s \in RefundStatus : rzp'.refunds = [rzp.refunds EXCEPT ![i].status = s]
    BY <1>0, <1>14 DEF RefundSettles, RazorpayState, RefundStatus
  <2>3. \A j \in DOMAIN rzp.refunds : rzp.refunds[j] \in Refund
    BY <1>0, ElementOfSeq
  <2>4. \A j \in DOMAIN rzp'.refunds : j \in DOMAIN rzp.refunds /\ rzp'.refunds[j].amount = rzp.refunds[j].amount
    BY <1>0, <2>2, <2>3 DEF Refund
  <2>5. payment.status \in Refunding
    BY <1>0 DEF ClaimInv
  <2> QED BY <1>1, <2>1, <2>4, <2>5 DEF ClaimInv
<1>15. ASSUME NEW e \in events, WebhookRefund(e) PROVE ClaimInv'
  <2>1. /\ payment'.refundAmount = payment.refundAmount
        /\ payment'.refundId = payment.refundId
        /\ payment'.status \in Refunding <=> payment.status \in Refunding
        /\ UNCHANGED <<rzp, job>>
    BY <1>0, <1>15 DEF WebhookRefund, PaymentRow, Refunding
  <2> QED BY <1>1, <2>1 DEF ClaimInv
<1>16. ASSUME Pay \/ AutoCapture \/ Lapse PROVE ClaimInv'
  <2>1. UNCHANGED <<payment, job>> /\ rzp'.refunds = rzp.refunds
    BY <1>0, <1>16 DEF Pay, AutoCapture, Lapse, RazorpayState
  <2> QED BY <1>2, <2>1
<1>17. ASSUME NEW r \in Slots, Capture(r) PROVE ClaimInv'
  <2>1. UNCHANGED <<payment, job>> /\ rzp'.refunds = rzp.refunds
    BY <1>0, <1>17 DEF Capture, RazorpayState
  <2> QED BY <1>2, <2>1
<1>18. ASSUME UNCHANGED <<payment, rzp, job>> PROVE ClaimInv'
  BY <1>2, <1>18
<1>19. ASSUME NEW r \in Slots,
              \/ CreateOrder(r) \/ CloseBooking(r) \/ Fetch(r) \/ Refetch(r)
              \/ CancelBooking(r) \/ AssignWrite(r) \/ SetStatusWrite(r) \/ Abort(r)
       PROVE  UNCHANGED <<payment, rzp, job>>
  BY <1>19 DEF CreateOrder, CloseBooking, Fetch, Refetch, CancelBooking, AssignWrite, SetStatusWrite, Abort
<1>20. ASSUME NEW r \in Requests, Arrival(r) PROVE UNCHANGED <<payment, rzp, job>>
  BY <1>20 DEF Arrival, Book, Verify, Cancel, Assign, SetStatus
<1>21. ASSUME WindowCloses \/ UNCHANGED vars
              \/ \E h \in Hooks, type \in PaymentEvents : WebhookPayment(h, type)
       PROVE  UNCHANGED <<payment, rzp, job>>
  BY <1>21 DEF WindowCloses, WebhookPayment, vars
<1> QED
  BY <1>3, <1>4, <1>5, <1>7, <1>9, <1>11, <1>12, <1>13, <1>14, <1>15, <1>16, <1>17, <1>18, <1>19,
     <1>20, <1>21
  DEF Next, RequestStep, SettleStep, JobStep, JobTrouble, Razorpay, Deliver

\* A refund is more than half of the total: the fee is a tenth, rounded.
LEMMA OwedIsMost ==
  ASSUME TypeOK, NEW n \in Int, n \in Owed, n > 0 PROVE 2 * n > booking.total
<1>1. booking.total \in Int
  BY DEF TypeOK, BookingRow
<1>2. 10 * RoundDiv(booking.total * CANCELLATION_FEE_PERCENT, 100) <= booking.total + 5
  BY <1>1 DEF RoundDiv, CANCELLATION_FEE_PERCENT
<1>3. RoundDiv(booking.total * CANCELLATION_FEE_PERCENT, 100) \in Int
  BY <1>1 DEF RoundDiv, CANCELLATION_FEE_PERCENT
<1> QED BY <1>1, <1>2, <1>3 DEF Owed, CancellationFee

\* Razorpay refunds no more than was paid, so a second refund, with one
\* already live, is one it refuses: a retried refund call cannot pay twice.
LEMMA IssueOnce ==
  ASSUME TypeOK, ClaimInv, MoneyInv, job.state = "refund", Refundable,
         NEW status \in RefundStatus, Issue(status)
  PROVE  /\ LiveRefunds = {}
         /\ \A i, j \in LiveRefunds' : i = j
         /\ rzp'.back = IF LiveRefunds' = {} THEN 0 ELSE payment.refundAmount
         /\ \A i \in DOMAIN rzp.refunds : i \in DOMAIN rzp'.refunds /\ rzp'.refunds[i] = rzp.refunds[i]
         /\ Len(rzp.refunds) + 1 \in DOMAIN rzp'.refunds
         /\ rzp'.refunds[Len(rzp.refunds) + 1].status = status
<1>0. /\ rzp.refunds \in Seq(Refund) /\ rzp.back \in Int /\ rzp \in RazorpayState
      /\ payment.refundAmount \in Int /\ booking.total \in Int
  BY DEF TypeOK, RazorpayState, PaymentRow, BookingRow
<1>1. /\ job.amount = payment.refundAmount
      /\ payment.refundAmount \in Owed /\ payment.refundAmount > 0
  BY DEF ClaimInv, RefundFollowsCancel, ActiveJob
<1>2. 2 * payment.refundAmount > booking.total
  BY <1>0, <1>1, OwedIsMost
<1>3. LiveRefunds = {} /\ rzp.back = 0
  BY <1>0, <1>1, <1>2 DEF MoneyInv, Refundable
<1>4. /\ rzp'.refunds = Append(rzp.refunds, [amount |-> job.amount, status |-> status])
      /\ rzp'.back = IF status = "failed" THEN rzp.back ELSE rzp.back + job.amount
  BY <1>0, IssueFacts
<1>5. /\ DOMAIN rzp'.refunds = DOMAIN rzp.refunds \cup {Len(rzp.refunds) + 1}
      /\ \A i \in DOMAIN rzp.refunds : rzp'.refunds[i] = rzp.refunds[i]
      /\ rzp'.refunds[Len(rzp.refunds) + 1] = [amount |-> job.amount, status |-> status]
  BY <1>0, <1>4
<1>6. LiveRefunds' = IF status = "failed" THEN {} ELSE {Len(rzp.refunds) + 1}
  BY <1>3, <1>5 DEF LiveRefunds
<1>7. \A i \in DOMAIN rzp.refunds : i \in DOMAIN rzp'.refunds /\ rzp'.refunds[i] = rzp.refunds[i]
  BY <1>5
<1>8. /\ Len(rzp.refunds) + 1 \in DOMAIN rzp'.refunds
      /\ rzp'.refunds[Len(rzp.refunds) + 1].status = status
  BY <1>5
<1>9. \A i, j \in LiveRefunds' : i = j
  BY <1>6
<1>10. rzp'.back = IF LiveRefunds' = {} THEN 0 ELSE payment.refundAmount
  <2>1. CASE status = "failed"
    BY <1>3, <1>4, <1>6, <2>1
  <2>2. CASE status # "failed"
    <3>1. LiveRefunds' # {}
      BY <1>6, <2>2
    <3>2. rzp'.back = payment.refundAmount
      BY <1>0, <1>1, <1>3, <1>4, <2>2
    <3> QED BY <3>1, <3>2
  <2> QED BY <2>1, <2>2
<1> QED BY <1>3, <1>7, <1>8, <1>9, <1>10

\* What the end of a refund changes at Razorpay, field by field.
LEMMA SettlesFacts ==
  ASSUME TypeOK, NEW i \in DOMAIN rzp.refunds, RefundSettles(i)
  PROVE  /\ DOMAIN rzp'.refunds = DOMAIN rzp.refunds
         /\ \A j \in DOMAIN rzp.refunds : j # i => rzp'.refunds[j] = rzp.refunds[j]
         /\ \/ /\ rzp'.refunds[i].status = "processed"
               /\ rzp'.back = rzp.back
               /\ events' = events \cup {Event("refund.processed", i)}
            \/ /\ rzp'.refunds[i].status = "failed"
               /\ rzp'.back = rzp.back - rzp.refunds[i].amount
               /\ events' = events \cup {Event("refund.failed", i)}
<1>0. rzp \in RazorpayState /\ rzp.refunds \in Seq(Refund)
  BY DEF TypeOK, RazorpayState
<1>1. rzp.refunds[i] \in Refund
  BY <1>0, ElementOfSeq
<1>2. CASE /\ rzp' = [rzp EXCEPT !.refunds[i].status = "processed"]
           /\ events' = events \cup {Event("refund.processed", i)}
  BY <1>0, <1>1, <1>2 DEF RazorpayState, Refund
<1>3. CASE /\ rzp' = [rzp EXCEPT !.refunds[i].status = "failed", !.back = @ - rzp.refunds[i].amount]
           /\ events' = events \cup {Event("refund.failed", i)}
  BY <1>0, <1>1, <1>3 DEF RazorpayState, Refund
<1> QED BY <1>2, <1>3 DEF RefundSettles

\* Every step keeps at most one live refund, and Razorpay's sum equal to it.
LEMMA MoneyStep ==
  ASSUME TypeOK, ClaimInv, BookInv, MoneyInv, [Next]_vars PROVE MoneyInv'
<1>0. /\ payment \in PaymentRow /\ rzp \in RazorpayState /\ rzp.back \in Int
      /\ payment.refundAmount \in Int
  BY DEF TypeOK, RazorpayState, PaymentRow
<1>1. ASSUME rzp'.refunds = rzp.refunds, rzp'.back = rzp.back,
             payment'.refundAmount = payment.refundAmount \/ rzp.refunds = <<>>
      PROVE  MoneyInv'
  BY <1>1 DEF MoneyInv, LiveRefunds
<1>2. ASSUME NEW status \in RefundStatus, JobRefund(status) \/ JobRefundUnheard(status) PROVE MoneyInv'
  <2>1. job.state = "refund" /\ Refundable /\ Issue(status) /\ UNCHANGED payment
    BY <1>2 DEF JobRefund, JobRefundUnheard
  <2> QED BY <2>1, IssueOnce DEF MoneyInv
<1>3. ASSUME NEW i \in DOMAIN rzp.refunds, RefundSettles(i) PROVE MoneyInv'
  <2>1. i \in LiveRefunds
    BY <1>3 DEF RefundSettles, LiveRefunds
  <2>2. rzp.back = payment.refundAmount /\ rzp.refunds[i].amount = payment.refundAmount
        /\ LiveRefunds = {i} /\ UNCHANGED payment
    BY <1>3, <2>1 DEF MoneyInv, ClaimInv, RefundSettles
  <2>3. \/ LiveRefunds' = {i} /\ rzp'.back = rzp.back
        \/ LiveRefunds' = {} /\ rzp'.back = rzp.back - rzp.refunds[i].amount
    BY <1>3, <2>2, SettlesFacts DEF LiveRefunds
  <2> QED BY <1>0, <2>2, <2>3 DEF MoneyInv
<1>4. ASSUME NEW r \in Slots, CreatePayment(r) \/ Capture(r) \/ Record(r) \/ StartRefund(r) PROVE MoneyInv'
  <2>1. rzp'.refunds = rzp.refunds /\ rzp'.back = rzp.back
    BY <1>0, <1>4 DEF CreatePayment, Capture, Record, StartRefund, RazorpayState
  <2>2. payment'.refundAmount = payment.refundAmount \/ rzp.refunds = <<>>
    BY <1>0, <1>4 DEF CreatePayment, Capture, Record, StartRefund, PaymentRow, ClaimInv, Refunding
  <2> QED BY <1>1, <2>1, <2>2
<1>5. ASSUME Pay \/ AutoCapture \/ Lapse PROVE MoneyInv'
  <2>1. rzp'.refunds = rzp.refunds /\ rzp'.back = rzp.back /\ UNCHANGED payment
    BY <1>0, <1>5 DEF Pay, AutoCapture, Lapse, RazorpayState
  <2> QED BY <1>1, <2>1
<1>6. ASSUME JobSetId \/ JobMark \/ \E e \in events : WebhookRefund(e) PROVE MoneyInv'
  <2>1. UNCHANGED rzp /\ payment'.refundAmount = payment.refundAmount
    BY <1>0, <1>6 DEF JobSetId, JobMark, WebhookRefund, PaymentRow
  <2> QED BY <1>1, <2>1
<1>7. ASSUME UNCHANGED <<payment, rzp>> PROVE MoneyInv'
  BY <1>1, <1>7
<1>8. ASSUME NEW r \in Slots,
              \/ CreateOrder(r) \/ CloseBooking(r) \/ Fetch(r) \/ Refetch(r) \/ Schedule(r)
              \/ CancelBooking(r) \/ AssignWrite(r) \/ SetStatusWrite(r) \/ Abort(r)
       PROVE  UNCHANGED <<payment, rzp>>
  BY <1>8 DEF CreateOrder, CloseBooking, Fetch, Refetch, Schedule, CancelBooking, AssignWrite,
     SetStatusWrite, Abort
<1>9. ASSUME NEW r \in Requests, Arrival(r) PROVE UNCHANGED <<payment, rzp>>
  BY <1>9 DEF Arrival, Book, Verify, Cancel, Assign, SetStatus
<1>10. ASSUME \/ JobStart \/ JobRefused \/ JobError \/ JobStall \/ WindowCloses \/ UNCHANGED vars
              \/ \E h \in Hooks, type \in PaymentEvents : WebhookPayment(h, type)
       PROVE  UNCHANGED <<payment, rzp>>
  BY <1>10 DEF JobStart, JobRefused, JobError, JobStall, WindowCloses, WebhookPayment, vars
<1> QED
  BY <1>2, <1>3, <1>4, <1>5, <1>6, <1>7, <1>8, <1>9, <1>10
  DEF Next, RequestStep, SettleStep, JobStep, JobTrouble, Razorpay, Deliver

\* Every step keeps REFUNDED, and what would set it, about a refund that
\* Razorpay has processed.
LEMMA OutcomeStep ==
  ASSUME TypeOK, TypeOK', ClaimInv, ClaimInv', MoneyInv, OutcomeInv, [Next]_vars PROVE OutcomeInv'
<1>0. /\ payment \in PaymentRow /\ rzp \in RazorpayState /\ job \in JobType
      /\ rzp.refunds \in Seq(Refund) /\ events \subseteq EventType
  BY DEF TypeOK, RazorpayState
<1>1. \A i \in DOMAIN rzp.refunds : i # 0
  BY <1>0
\* Everything but the events, whose part is the last conjunct.
<1>2. ASSUME UNCHANGED job, payment'.refundId = payment.refundId,
             payment'.status = "REFUNDED" => payment.status = "REFUNDED",
             \A i \in DOMAIN rzp.refunds : Processed(i) => Processed(i)',
             \A i \in DOMAIN rzp.refunds : i \in DOMAIN rzp'.refunds,
             \A e \in events' : e.type = "refund.processed" => e \in events \/ Processed(e.id)'
      PROVE  OutcomeInv'
  <2>1. \A i : Processed(i) => Processed(i)'
    BY <1>2 DEF Processed
  <2> QED BY <1>2, <2>1 DEF OutcomeInv
<1>3. ASSUME rzp'.refunds = rzp.refunds PROVE \A i : Processed(i)' <=> Processed(i)
  BY <1>3 DEF Processed
<1>4. ASSUME UNCHANGED job, payment'.refundId = payment.refundId,
             payment'.status = "REFUNDED" => payment.status = "REFUNDED",
             rzp'.refunds = rzp.refunds,
             \A e \in events' : e.type = "refund.processed" => e \in events
      PROVE  OutcomeInv'
  BY <1>2, <1>3, <1>4
<1>5. \A type \in PaymentEvents, id \in Nat : Event(type, id).type # "refund.processed"
  BY DEF PaymentEvents, Event
<1>6. \A e : Acknowledge(e) => events' \subseteq events
  BY DEF Acknowledge
<1>7. ASSUME NEW r \in Slots, RequestStep(r) \/ Abort(r) PROVE OutcomeInv'
  <2>1. CASE CreatePayment(r) \/ StartRefund(r)
    <3>1. UNCHANGED <<job, events>> /\ rzp'.refunds = rzp.refunds /\ payment'.refundId = payment.refundId
      BY <1>0, <2>1 DEF CreatePayment, StartRefund, PaymentRow, RazorpayState
    <3>2. payment'.status = "REFUNDED" => payment.status = "REFUNDED"
      BY <1>0, <2>1 DEF CreatePayment, StartRefund, PaymentRow
    <3> QED BY <1>4, <3>1, <3>2
  <2>2. CASE Record(r)
    <3>1. UNCHANGED <<job, rzp>> /\ payment'.refundId = payment.refundId
      BY <1>0, <2>2 DEF Record, PaymentRow
    <3>2. payment'.status = "REFUNDED" => payment.status = "REFUNDED"
      BY <1>0, <2>2 DEF Record, PaymentRow
    <3>3. events' \subseteq events
      BY <1>6, <2>2 DEF Record, Return
    <3> QED BY <1>4, <3>1, <3>2, <3>3
  <2>3. CASE Capture(r)
    <3>1. UNCHANGED <<job, payment>> /\ rzp'.refunds = rzp.refunds
      BY <1>0, <2>3 DEF Capture, RazorpayState
    <3>2. events' \subseteq events \cup {Event("payment.captured", 0)}
      BY <2>3 DEF Capture
    <3>3. \A e \in events' : e.type = "refund.processed" => e \in events
      BY <3>2 DEF Event
    <3> QED BY <1>4, <3>1, <3>3
  <2>4. CASE \/ CreateOrder(r) \/ CloseBooking(r) \/ Fetch(r) \/ Refetch(r)
             \/ CancelBooking(r) \/ AssignWrite(r) \/ SetStatusWrite(r) \/ Abort(r)
    <3>1. UNCHANGED <<job, payment, rzp, events>>
      BY <2>4 DEF CreateOrder, CloseBooking, Fetch, Refetch, CancelBooking, AssignWrite, SetStatusWrite,
         Abort, Fail
    <3> QED BY <1>4, <3>1
  <2>5. CASE Schedule(r)
    <3>1. UNCHANGED <<payment, rzp, events>>
      BY <2>5 DEF Schedule
    <3>2. job'.state \notin ActiveJob \/ job' = job
      BY <1>0, <2>5 DEF Schedule, JobType, ActiveJob
    <3> QED BY <1>3, <3>1, <3>2 DEF OutcomeInv, ActiveJob
  <2> QED BY <1>7, <2>1, <2>2, <2>3, <2>4, <2>5 DEF RequestStep, SettleStep
<1>8. ASSUME JobStart PROVE OutcomeInv'
  <2>1. UNCHANGED <<payment, rzp, events>>
    BY <1>8 DEF JobStart
  <2>2. job'.state \in {"refund", "completed"} /\ (job'.state = "refund" => payment.refundId = 0)
    BY <1>0, <1>8 DEF JobStart, JobType, RefundDue
  <2> QED BY <1>3, <2>1, <2>2 DEF OutcomeInv
<1>9. ASSUME NEW status \in RefundStatus, Issue(status), job.state = "refund", Refundable, UNCHANGED payment,
             NEW n, n = Len(rzp.refunds) + 1
      PROVE  /\ \A i : Processed(i) => Processed(i)'
             /\ \A e \in events' : e.type = "refund.processed" => Processed(e.id)'
             /\ n \in DOMAIN rzp'.refunds
             /\ status = "processed" => Processed(n)'
             /\ payment.refundId = 0
  <2>1. /\ \A i \in DOMAIN rzp.refunds : i \in DOMAIN rzp'.refunds /\ rzp'.refunds[i] = rzp.refunds[i]
        /\ n \in DOMAIN rzp'.refunds
        /\ rzp'.refunds[n].status = status
    BY <1>9, IssueOnce
  <2>2. \A i : Processed(i) => Processed(i)'
    BY <2>1 DEF Processed
  <2>3. status = "processed" => Processed(n)'
    BY <2>1 DEF Processed
  <2>4. ASSUME NEW e \in events', e.type = "refund.processed" PROVE Processed(e.id)'
    <3>1. CASE e \in events
      BY <2>2, <2>4, <3>1 DEF OutcomeInv
    <3>2. CASE e \notin events
      <4>1. /\ status # "pending"
            /\ e = Event(IF status = "failed" THEN "refund.failed" ELSE "refund.processed", n)
        BY <1>9, <3>2 DEF Issue
      <4>2. status = "processed" /\ e.id = n
        BY <2>4, <4>1 DEF Event, RefundStatus
      <4> QED BY <2>3, <4>2
    <3> QED BY <3>1, <3>2
  <2>5. payment.refundId = 0
    BY <1>9 DEF OutcomeInv
  <2> QED BY <2>1, <2>2, <2>3, <2>4, <2>5
<1>10. ASSUME NEW status \in RefundStatus, JobRefund(status) PROVE OutcomeInv'
  <2>1. job.state = "refund" /\ Refundable /\ Issue(status) /\ UNCHANGED payment
    BY <1>10 DEF JobRefund
  <2>2. PICK n : n = Len(rzp.refunds) + 1
    OBVIOUS
  <2>3. job'.state = "setId" /\ job'.id = n /\ job'.result = status
    BY <1>0, <1>10, <2>2 DEF JobRefund, JobType
  <2> QED BY <1>9, <2>1, <2>2, <2>3 DEF OutcomeInv
<1>11. ASSUME AttemptFailed PROVE job'.state \in {"waiting", "failed"}
  BY <1>11 DEF AttemptFailed, NoJob
<1>12. ASSUME NEW status \in RefundStatus, JobRefundUnheard(status) PROVE OutcomeInv'
  <2>1. job.state = "refund" /\ Refundable /\ Issue(status) /\ UNCHANGED payment /\ AttemptFailed
    BY <1>12 DEF JobRefundUnheard
  <2> QED BY <1>9, <1>11, <2>1 DEF OutcomeInv
<1>13. ASSUME JobRefused \/ JobError \/ JobStall PROVE OutcomeInv'
  <2>1. UNCHANGED <<payment, rzp, events>>
    BY <1>13 DEF JobRefused, JobError, JobStall
  <2>2. job'.state \in {"waiting", "failed"}
    BY <1>11, <1>13 DEF JobRefused, JobError, JobStall, NoJob
  <2> QED BY <1>3, <2>1, <2>2 DEF OutcomeInv
<1>14. ASSUME JobSetId PROVE OutcomeInv'
  <2>1. /\ UNCHANGED <<rzp, events>>
        /\ payment'.refundId = job.id /\ payment'.status = payment.status
        /\ job'.id = job.id
        /\ job'.state \in {"mark", "completed"}
        /\ job'.state = "mark" => job.result = "processed"
    BY <1>0, <1>14 DEF JobSetId, PaymentRow, JobType
  <2>2. payment.refundId = 0 /\ (job.result = "processed" => Processed(job.id))
    BY <1>14 DEF JobSetId, OutcomeInv
  \* REFUNDED needs the id of a processed refund, and there is none yet.
  <2>3. payment.status # "REFUNDED"
    BY <1>1, <2>2 DEF OutcomeInv, Processed
  <2> QED BY <1>3, <2>1, <2>2, <2>3 DEF OutcomeInv
<1>15. ASSUME JobMark PROVE OutcomeInv'
  <2>1. /\ UNCHANGED <<rzp, events>>
        /\ payment'.refundId = payment.refundId
        /\ job'.state = "completed"
    BY <1>0, <1>15 DEF JobMark, PaymentRow, JobType
  <2>2. Processed(payment.refundId)
    BY <1>15 DEF JobMark, OutcomeInv
  <2> QED BY <1>3, <2>1, <2>2 DEF OutcomeInv
<1>16. ASSUME NEW e \in events, WebhookRefund(e) PROVE OutcomeInv'
  <2>1. UNCHANGED <<rzp, job>> /\ payment'.refundId = payment.refundId /\ events' \subseteq events
    BY <1>0, <1>6, <1>16 DEF WebhookRefund, PaymentRow
  <2>2. CASE payment' = payment
    BY <1>4, <2>1, <2>2
  <2>3. CASE payment' # payment
    <3>1. e.type = "refund.processed" /\ payment.refundId = e.id
      BY <1>16, <2>3 DEF WebhookRefund
    <3>2. Processed(payment.refundId)
      BY <3>1 DEF OutcomeInv
    <3> QED BY <1>3, <2>1, <3>2 DEF OutcomeInv
  <2> QED BY <2>2, <2>3
<1>17. ASSUME NEW i \in DOMAIN rzp.refunds, RefundSettles(i) PROVE OutcomeInv'
  <2>1. UNCHANGED <<payment, job>> /\ rzp.refunds[i].status = "pending"
    BY <1>17 DEF RefundSettles
  <2>2. /\ DOMAIN rzp'.refunds = DOMAIN rzp.refunds
        /\ \A j \in DOMAIN rzp.refunds : j # i => rzp'.refunds[j] = rzp.refunds[j]
    BY <1>17, SettlesFacts
  <2>3. \A j \in DOMAIN rzp.refunds : Processed(j) => Processed(j)'
    BY <2>1, <2>2 DEF Processed
  <2>4. CASE rzp'.refunds[i].status = "processed" /\ events' = events \cup {Event("refund.processed", i)}
    <3>1. Processed(i)'
      BY <2>2, <2>4 DEF Processed
    <3>2. \A e \in events' : e.type = "refund.processed" => e \in events \/ Processed(e.id)'
      BY <2>4, <3>1 DEF Event
    <3> QED BY <1>2, <2>1, <2>2, <2>3, <3>2
  <2>5. CASE events' = events \cup {Event("refund.failed", i)}
    <3>1. \A e \in events' : e.type = "refund.processed" => e \in events
      BY <2>5 DEF Event
    <3> QED BY <1>2, <2>1, <2>2, <2>3, <3>1
  <2> QED BY <1>17, <2>4, <2>5, SettlesFacts
<1>18. ASSUME Pay \/ AutoCapture \/ Lapse PROVE OutcomeInv'
  <2>1. UNCHANGED <<payment, job>> /\ rzp'.refunds = rzp.refunds
    BY <1>0, <1>18 DEF Pay, AutoCapture, Lapse, RazorpayState
  <2>2. events' \subseteq events \cup {Event("payment.authorized", 0), Event("payment.captured", 0)}
    BY <1>18 DEF Pay, AutoCapture, Lapse
  <2>3. \A e \in events' : e.type = "refund.processed" => e \in events
    BY <2>2 DEF Event
  <2> QED BY <1>4, <2>1, <2>3
<1>19. ASSUME NEW h \in Hooks, NEW type \in PaymentEvents, WebhookPayment(h, type) PROVE OutcomeInv'
  <2>1. UNCHANGED <<payment, job, rzp>> /\ events' \subseteq events
    BY <1>6, <1>19 DEF WebhookPayment
  <2> QED BY <1>4, <2>1
<1>20. ASSUME WindowCloses \/ UNCHANGED vars \/ \E r \in Requests : Arrival(r) PROVE OutcomeInv'
  <2>1. UNCHANGED <<payment, job, rzp, events>>
    BY <1>20 DEF WindowCloses, vars, Arrival, Book, Verify, Cancel, Assign, SetStatus
  <2> QED BY <1>4, <2>1
<1> QED
  BY <1>7, <1>8, <1>10, <1>12, <1>13, <1>14, <1>15, <1>16, <1>17, <1>18, <1>19, <1>20
  DEF Next, JobStep, JobTrouble, Razorpay, Deliver

\* A step of the system keeps the whole invariant.
LEMMA InvStep == IInv /\ [Next]_vars => IInv'
<1> SUFFICES ASSUME IInv, [Next]_vars PROVE IInv'
  OBVIOUS
<1> USE DEF IInv
<1>1. TypeOK'
  BY TypeStep
<1>2. Advance
  BY <1>1, Advances
<1>3. PayInv'
  BY <1>1, <1>2, PayStep
<1>4. BookInv'
  BY <1>1, <1>2, BookStep
<1>5. ReqInv'
  BY <1>1, <1>2, ReqStep
<1>6. ClaimInv'
  BY <1>1, <1>2, ClaimStep
<1>7. MoneyInv'
  BY MoneyStep
<1>8. OutcomeInv'
  BY <1>1, <1>6, OutcomeStep
<1> QED BY <1>1, <1>3, <1>4, <1>5, <1>6, <1>7, <1>8

\* A booking that is not made yet satisfies it.
LEMMA InitInv == Init => IInv
<1> SUFFICES ASSUME Init PROVE IInv
  OBVIOUS
<1>1. \A r \in Slots : req[r].pc = "idle"
  BY DEF Init, Idle
<1>2. TypeOK
  <2>1. booking \in BookingRow
    BY ConstantsAssumption DEF Init, BookingRow, BookingStatus
  <2>2. payment \in PaymentRow
    BY DEF Init, PaymentRow, PaymentStatus
  <2>3. <<>> \in Seq(Refund)
    OBVIOUS
  <2>4. rzp \in RazorpayState
    BY <2>3 DEF Init, RazorpayState, PayStatus
  <2>5. req \in [Slots -> RequestType]
    BY IdleType DEF Init
  <2>6. job \in JobType
    BY DEF Init, NoJob, JobType, JobStates, RefundStatus
  <2>7. faults \in FaultCount
    BY DEF Init, FaultCount
  <2> QED BY <2>1, <2>2, <2>4, <2>5, <2>6, <2>7 DEF Init, TypeOK
<1>3. PayInv
  BY DEF Init, PayInv, Released, Settled
<1>4. BookInv /\ ReqInv
  BY <1>1 DEF BookInv, Booking, ReqInv, ReqOK
<1>5. rzp.refunds = <<>> /\ LiveRefunds = {} /\ rzp.back = 0
  BY DEF Init, LiveRefunds
<1>6. ClaimInv
  BY <1>5 DEF Init, NoJob, ClaimInv, RefundFollowsCancel, Refunding, ActiveJob
<1>7. MoneyInv
  BY <1>5 DEF MoneyInv
<1>8. OutcomeInv
  BY DEF Init, NoJob, OutcomeInv
<1> QED BY <1>2, <1>3, <1>4, <1>6, <1>7, <1>8 DEF IInv

\* Every reachable state satisfies the inductive invariant, whatever the
\* requests, webhooks, totals and bounds on failures.
THEOREM Invariance == Spec => []IInv
<1> QED BY InitInv, InvStep, PTL DEF Spec

\* Rows, requests and the refund job keep the shape the schema and the code
\* give them.
THEOREM TypeCorrect == Spec => []TypeOK
<1>1. IInv => TypeOK
  BY DEF IInv
<1> QED BY <1>1, Invariance, PTL

\* No booking with something to pay is worked on before Razorpay has captured
\* the money: book() hides it, and only capture() releases it.
THEOREM ServedIsPaid == Spec => []PaidBeforeServed
<1>1. IInv => PaidBeforeServed
  BY DEF IInv, PayInv, Opened, PaidBeforeServed
<1> QED BY <1>1, Invariance, PTL

\* RazorpayRepository.capture moves the payment and its booking together.
THEOREM CapturedTogether == Spec => []CaptureIsWhole
<1>1. IInv => CaptureIsWhole
  BY DEF IInv, PayInv, CaptureIsWhole
<1> QED BY <1>1, Invariance, PTL

\* However often the refund job is retried, for any total: Razorpay makes one
\* refund, of the amount claimed.  The code sends no idempotency key; what
\* protects it is the stored refund id and that a refund is more than half of
\* what was paid, so that Razorpay refuses a second one.
THEOREM RefundedOnce == Spec => []RefundAtMostOnce
<1>1. IInv => RefundAtMostOnce
  <2> SUFFICES ASSUME IInv PROVE RefundAtMostOnce
    OBVIOUS
  <2>1. LiveRefunds \subseteq DOMAIN rzp.refunds
    BY DEF LiveRefunds
  <2> QED BY <2>1 DEF IInv, ClaimInv, MoneyInv, RefundAtMostOnce
<1> QED BY <1>1, Invariance, PTL

\* markRefunded(), from the job or from the webhook, is right about Razorpay.
THEOREM RefundedIsTrue == Spec => []RefundedIsProcessed
<1>1. IInv => RefundedIsProcessed
  BY DEF IInv, OutcomeInv, Processed, RefundedIsProcessed
<1> QED BY <1>1, Invariance, PTL

\* startRefund() claims money back only after a cancel, and as much as that
\* cancel owes the customer.
THEOREM ClaimFollowsCancel == Spec => []RefundFollowsCancel
<1>1. IInv => RefundFollowsCancel
  BY DEF IInv, ClaimInv
<1> QED BY <1>1, Invariance, PTL

\* No step takes a payment row back or rewrites its claim or refund id.
LEMMA ForwardStep == IInv /\ [Next]_vars => [Forward]_vars
<1> SUFFICES ASSUME IInv, Next PROVE Forward
  BY DEF Forward
<1>0. payment \in PaymentRow
  BY DEF IInv, TypeOK
<1>1. CASE payment' = payment
  BY <1>1 DEF Forward
<1>2. ASSUME NEW r \in Slots, CreatePayment(r) PROVE Forward
  <2>1. payment.status = "NONE"
    BY <1>2 DEF IInv, BookInv, Booking, CreatePayment, At
  <2> QED BY <1>0, <1>2, <2>1 DEF CreatePayment, Forward, PaymentRow
<1>3. ASSUME NEW r \in Slots, Record(r) PROVE Forward
  BY <1>0, <1>3 DEF Record, Forward, PaymentRow
<1>4. ASSUME NEW r \in Slots, StartRefund(r) PROVE Forward
  <2>1. payment.status = "CAPTURED" => payment.refundAmount = 0
    BY DEF IInv, ClaimInv, Refunding
  <2> QED BY <1>0, <1>4, <2>1 DEF StartRefund, Forward, PaymentRow
<1>5. ASSUME JobSetId PROVE Forward
  <2>1. payment.refundId = 0
    BY <1>5 DEF IInv, OutcomeInv, JobSetId
  <2> QED BY <1>0, <1>5, <2>1 DEF JobSetId, Forward, PaymentRow
<1>6. ASSUME JobMark \/ \E e \in events : WebhookRefund(e) PROVE Forward
  BY <1>0, <1>6 DEF JobMark, WebhookRefund, Forward, PaymentRow
<1>7. ASSUME NEW r \in Slots,
             \/ CreateOrder(r) \/ CloseBooking(r) \/ Fetch(r) \/ Capture(r) \/ Refetch(r)
             \/ CancelBooking(r) \/ AssignWrite(r) \/ SetStatusWrite(r) \/ Schedule(r) \/ Abort(r)
      PROVE  payment' = payment
  BY <1>7 DEF CreateOrder, CloseBooking, Fetch, Capture, Refetch, CancelBooking, AssignWrite,
     SetStatusWrite, Schedule, Abort
<1>8. ASSUME NEW r \in Requests, Arrival(r) PROVE payment' = payment
  BY <1>8 DEF Arrival, Book, Verify, Cancel, Assign, SetStatus
<1>9. ASSUME \/ JobStart \/ JobRefused \/ JobTrouble \/ Razorpay \/ WindowCloses
             \/ \E status \in RefundStatus : JobRefund(status)
             \/ \E h \in Hooks, type \in PaymentEvents : WebhookPayment(h, type)
      PROVE  payment' = payment
  BY <1>9 DEF JobStart, JobRefund, JobRefused, JobTrouble, JobRefundUnheard, JobError, JobStall, Razorpay,
     Pay, AutoCapture, Lapse, RefundSettles, WindowCloses, WebhookPayment
<1> QED
  BY <1>1, <1>2, <1>3, <1>4, <1>5, <1>6, <1>7, <1>8, <1>9
  DEF Next, RequestStep, SettleStep, JobStep, Deliver

\* The payment row moves only forward through its statuses.
THEOREM PaymentMovesOn == Spec => PaymentOnlyForward
<1> QED BY Invariance, ForwardStep, PTL DEF Spec, PaymentOnlyForward

(***************************************************************************)
(* ServiceBooking implements PaymentLedger: every step of a request, a     *)
(* webhook, the refund job or Razorpay is one entry of the ledger, or none *)
(* of them.  IInv says that what a step writes is an entry the ledger      *)
(* allows; OfferInv adds that nobody pays for a booking that does not      *)
(* exist.                                                                  *)
(***************************************************************************)

\* A payment is made against an order the app was told of, and book() stores
\* the payment row before it tells.
OfferInv ==
    /\ rzp.offered => payment.status # "NONE"
    /\ rzp.pay # "none" => rzp.offered

\* No step takes the offer, or the payment row it rests on, away.
LEMMA OfferStep ==
  ASSUME TypeOK, BookInv, OfferInv, [Next]_vars PROVE OfferInv'
<1> USE DEF OfferInv
<1>0. payment \in PaymentRow /\ rzp \in RazorpayState
  BY DEF TypeOK
<1>1. ASSUME NEW r \in Slots, CreatePayment(r) PROVE OfferInv'
  <2>1. payment.status = "NONE"
    BY <1>1 DEF CreatePayment, At, BookInv, Booking
  <2> QED BY <1>0, <1>1, <2>1 DEF CreatePayment, PaymentRow, RazorpayState
<1>2. ASSUME NEW r \in Slots, Record(r) \/ StartRefund(r) PROVE OfferInv'
  BY <1>0, <1>2 DEF Record, StartRefund, PaymentRow
<1>3. ASSUME JobSetId \/ JobMark \/ \E e \in events : WebhookRefund(e) PROVE OfferInv'
  BY <1>0, <1>3 DEF JobSetId, JobMark, WebhookRefund, PaymentRow
<1>4. ASSUME NEW r \in Slots, Capture(r) PROVE OfferInv'
  BY <1>0, <1>4 DEF Capture, RazorpayState
<1>5. ASSUME Pay \/ AutoCapture \/ Lapse PROVE OfferInv'
  BY <1>0, <1>5 DEF Pay, AutoCapture, Lapse, RazorpayState
<1>6. ASSUME NEW i \in DOMAIN rzp.refunds, RefundSettles(i) PROVE OfferInv'
  BY <1>0, <1>6 DEF RefundSettles, RazorpayState
<1>7. ASSUME NEW status \in RefundStatus, JobRefund(status) \/ JobRefundUnheard(status) PROVE OfferInv'
  BY <1>0, <1>7 DEF JobRefund, JobRefundUnheard, Issue, RazorpayState
<1>8. ASSUME UNCHANGED <<payment, rzp>> PROVE OfferInv'
  BY <1>8
<1>9. ASSUME NEW r \in Slots,
              \/ CreateOrder(r) \/ CloseBooking(r) \/ Fetch(r) \/ Refetch(r) \/ Schedule(r)
              \/ CancelBooking(r) \/ AssignWrite(r) \/ SetStatusWrite(r) \/ Abort(r)
       PROVE  UNCHANGED <<payment, rzp>>
  BY <1>9 DEF CreateOrder, CloseBooking, Fetch, Refetch, Schedule, CancelBooking, AssignWrite,
     SetStatusWrite, Abort
<1>10. ASSUME NEW r \in Requests, Arrival(r) PROVE UNCHANGED <<payment, rzp>>
  BY <1>10 DEF Arrival, Book, Verify, Cancel, Assign, SetStatus
<1>11. ASSUME \/ JobStart \/ JobRefused \/ JobError \/ JobStall \/ WindowCloses \/ UNCHANGED vars
              \/ \E h \in Hooks, type \in PaymentEvents : WebhookPayment(h, type)
       PROVE  UNCHANGED <<payment, rzp>>
  BY <1>11 DEF JobStart, JobRefused, JobError, JobStall, WindowCloses, WebhookPayment, vars
<1> HIDE DEF OfferInv
<1> QED
  BY <1>1, <1>2, <1>3, <1>4, <1>5, <1>6, <1>7, <1>8, <1>9, <1>10, <1>11
  DEF Next, RequestStep, SettleStep, JobStep, JobTrouble, Razorpay, Deliver

\* Before there is a booking there is neither order nor payment.
LEMMA OfferInit == Init => OfferInv
  BY DEF Init, OfferInv

\* No cancel gives back more than the booking cost.
LEMMA OwedIsPart ==
  ASSUME TypeOK, NEW n \in Int, n \in Owed, n > 0 PROVE n <= booking.total
<1>1. booking.total \in Int
  BY DEF TypeOK, BookingRow
<1>2. booking.total >= 0 => RoundDiv(booking.total * CANCELLATION_FEE_PERCENT, 100) >= 0
  BY <1>1 DEF RoundDiv, CANCELLATION_FEE_PERCENT
<1>3. 2 * n > booking.total
  BY OwedIsMost
<1>4. booking.total < 0 => booking.total - RoundDiv(booking.total * CANCELLATION_FEE_PERCENT, 100) <= 0
  BY <1>1 DEF RoundDiv, CANCELLATION_FEE_PERCENT
<1>5. RoundDiv(booking.total * CANCELLATION_FEE_PERCENT, 100) \in Int
  BY <1>1 DEF RoundDiv, CANCELLATION_FEE_PERCENT
<1> QED BY <1>1, <1>2, <1>4, <1>5 DEF Owed, CancellationFee

-----------------------------------------------------------------------------

\* Razorpay has paid a refund out.
Through == \E i \in DOMAIN rzp.refunds : rzp.refunds[i].status = "processed"

\* What the ledger sees of the rows and of Razorpay.
Seen == <<booking.status, booking.total, booking.cancelledAt, Books,
          payment.refundAmount, rzp.pay, rzp.back, Through>>

\* A step that changes nothing the ledger sees is no entry.
LEMMA NoEntry ==
  ASSUME UNCHANGED Seen PROVE UNCHANGED Ledger!ledger
  BY DEF Seen, Through, Ledger!ledger

\* Rows and Razorpay left alone are the same to the ledger.
LEMMA SameRows ==
  ASSUME UNCHANGED <<booking, payment, rzp>> PROVE UNCHANGED Ledger!ledger
<1>1. UNCHANGED Seen
  BY DEF Seen, Through, Books
<1> QED BY <1>1, NoEntry

\* book() is the ledger's Order.
LEMMA BookEntry ==
  ASSUME TypeOK, NEW r \in Requests, NEW total \in Totals, Book(r, total)
  PROVE  Ledger!Order
<1>1. booking \in BookingRow /\ total \in Int
  BY ConstantsAssumption DEF TypeOK
<1>2. /\ booking.status = "NONE"
      /\ booking'.status = IF total > 0 THEN "AWAITING_PAYMENT" ELSE "PENDING"
      /\ booking'.total = total
      /\ booking'.cancelledAt = booking.cancelledAt
      /\ UNCHANGED <<payment, rzp>>
  BY <1>1 DEF Book, BookingRow
<1>3. booking'.status \in Released <=> booking'.total <= 0
  BY <1>1, <1>2 DEF Released
<1>4. Books' = Books
  BY <1>2 DEF Books
<1> QED BY <1>1, <1>2, <1>3, <1>4 DEF Ledger!Order

\* A cancellation, by the customer, the company or a failed checkout, is the
\* ledger's Cancel, or matched no row.
LEMMA CancelEntry ==
  ASSUME TypeOK, NEW from, from \subseteq BookingStatus \ {"NONE"}, NEW fee \in Int,
         booking' = CancelledFrom(from, fee), UNCHANGED <<payment, rzp>>
  PROVE  Ledger!Cancel \/ UNCHANGED Ledger!ledger
<1>0. booking \in BookingRow
  BY DEF TypeOK
<1>1. CASE booking.status \in from
  <2>1. /\ booking.status # "NONE" /\ booking'.status = "CANCELLED" /\ booking'.cancelledAt
        /\ booking'.total = booking.total
    BY <1>0, <1>1 DEF CancelledFrom, BookingRow
  <2>2. Books' = Books
    BY DEF Books
  <2>3. booking'.status \notin Released
    BY <2>1 DEF Released
  <2> QED BY <2>1, <2>2, <2>3 DEF Ledger!Cancel
<1>2. CASE booking.status \notin from
  BY <1>2, SameRows DEF CancelledFrom
<1> QED BY <1>1, <1>2

\* assign() and setStatus() write a working status over whatever the row has
\* become; the request read it after checkout, so that is the ledger's Work.
LEMMA WorkEntry ==
  ASSUME TypeOK, Opened, NEW status \in Released,
         booking'.status = status, booking'.total = booking.total,
         booking'.cancelledAt = booking.cancelledAt, UNCHANGED <<payment, rzp>>
  PROVE  Ledger!Work
<1>1. booking.status # "NONE" /\ (booking.total > 0 => Books # "unpaid")
  BY DEF Opened, Books, Settled
<1>2. Books' = Books
  BY DEF Books
<1>3. booking'.status # "NONE" /\ booking'.status \in Released
  BY DEF Released
<1> QED BY <1>1, <1>2, <1>3 DEF Ledger!Work

\* The transaction of capture() is the ledger's Settle.
LEMMA RecordEntry ==
  ASSUME TypeOK, PayInv, ReqInv, NEW r \in Slots, Record(r)
  PROVE  Ledger!Settle \/ UNCHANGED Ledger!ledger
<1>0. booking \in BookingRow /\ payment \in PaymentRow
  BY DEF TypeOK
<1>1. CASE payment.status = "CREATED"
  <2>1. rzp.pay = "captured" /\ booking.status # "NONE" /\ UNCHANGED rzp
    BY <1>1 DEF Record, At, ReqInv, ReqOK, PayInv
  <2>2. /\ payment'.status = "CAPTURED" /\ payment'.refundAmount = payment.refundAmount
        /\ booking'.status = IF booking.status = "AWAITING_PAYMENT" THEN "PENDING" ELSE booking.status
        /\ booking'.total = booking.total /\ booking'.cancelledAt = booking.cancelledAt
    BY <1>0, <1>1 DEF Record, BookingRow, PaymentRow
  <2>3. Books = "unpaid" /\ Books' = "paid"
    BY <1>1, <2>2 DEF Books
  <2>4. booking'.status # "NONE" /\ (booking.status \in Released => booking'.status \in Released)
    BY <2>1, <2>2 DEF Released
  <2> QED BY <2>1, <2>2, <2>3, <2>4 DEF Ledger!Settle
<1>2. CASE payment.status # "CREATED"
  BY <1>2, SameRows DEF Record
<1> QED BY <1>1, <1>2

\* A capture, asked for by settle() or made by the account, is the ledger's
\* Collect; Razorpay's other moves of a payment are no entry.
LEMMA CollectEntry ==
  ASSUME TypeOK, PayInv, OfferInv,
         AutoCapture \/ Pay \/ Lapse \/ \E r \in Slots : Capture(r)
  PROVE  Ledger!Collect \/ UNCHANGED Ledger!ledger
<1>0. rzp \in RazorpayState
  BY DEF TypeOK
<1>1. UNCHANGED <<booking, payment>> /\ rzp'.refunds = rzp.refunds /\ rzp'.back = rzp.back
  BY <1>0 DEF AutoCapture, Pay, Lapse, Capture, RazorpayState
<1>2. Books' = Books /\ Through' = Through
  BY <1>1 DEF Books, Through
<1>3. \/ rzp.pay = "authorized" /\ rzp'.pay = "captured"
      \/ rzp'.pay # "captured" /\ rzp.pay # "captured"
      \/ rzp' = rzp
  BY <1>0 DEF AutoCapture, Pay, Lapse, Capture, RazorpayState
<1>4. CASE rzp.pay = "authorized" /\ rzp'.pay = "captured"
  <2>1. booking.status # "NONE"
    BY <1>4 DEF OfferInv, PayInv
  <2> QED BY <1>1, <1>2, <1>4, <2>1 DEF Through, Ledger!Collect
<1>5. CASE rzp'.pay # "captured" /\ rzp.pay # "captured"
  BY <1>1, <1>2, <1>5 DEF Through, Ledger!ledger
<1>6. CASE rzp' = rzp
  BY <1>1, <1>6, SameRows
<1> QED BY <1>3, <1>4, <1>5, <1>6

\* startRefund() that matched is the ledger's Claim: for a cancelled booking,
\* and for what that cancellation owes.
LEMMA ClaimEntry ==
  ASSUME TypeOK, ReqInv, NEW r \in Slots, StartRefund(r)
  PROVE  Ledger!Claim \/ UNCHANGED Ledger!ledger
<1>0. payment \in PaymentRow /\ req[r].amount \in Int
  BY DEF TypeOK, RequestType
<1>1. CASE req[r].amount > 0 /\ payment.status = "CAPTURED"
  <2>1. booking.cancelledAt /\ req[r].amount \in Owed
    BY DEF StartRefund, At, ReqInv, ReqOK
  <2>2. req[r].amount <= booking.total
    BY <1>0, <1>1, <2>1, OwedIsPart
  <2>3. /\ payment'.status = "REFUND_PENDING" /\ payment'.refundAmount = req[r].amount
        /\ UNCHANGED <<booking, rzp>>
    BY <1>0, <1>1 DEF StartRefund, PaymentRow
  <2>4. Books = "paid" /\ Books' = "refunding"
    BY <1>1, <2>3 DEF Books
  <2> QED BY <1>0, <1>1, <2>1, <2>2, <2>3, <2>4 DEF Ledger!Claim
<1>2. CASE ~(req[r].amount > 0 /\ payment.status = "CAPTURED")
  BY <1>2, SameRows DEF StartRefund
<1> QED BY <1>1, <1>2

\* A refund Razorpay takes is the ledger's SendBack, and one that fails at
\* once no entry: also when its answer is lost, and whichever attempt it is.
LEMMA SendBackEntry ==
  ASSUME IInv, NEW status \in RefundStatus, JobRefund(status) \/ JobRefundUnheard(status)
  PROVE  Ledger!SendBack \/ UNCHANGED Ledger!ledger
<1>0. /\ TypeOK /\ ClaimInv /\ MoneyInv /\ OutcomeInv
      /\ rzp \in RazorpayState /\ payment \in PaymentRow /\ rzp.refunds \in Seq(Refund)
      /\ rzp.back \in Int
  BY DEF IInv, TypeOK, RazorpayState
<1>1. job.state = "refund" /\ Refundable /\ Issue(status) /\ UNCHANGED <<booking, payment>>
  BY DEF JobRefund, JobRefundUnheard
<1>2. LiveRefunds = {} /\ rzp.back = 0
  BY <1>0, <1>1, IssueOnce DEF MoneyInv
<1>3. payment.status = "REFUND_PENDING"
  <2>1. payment.status \in Refunding /\ payment.refundId = 0
    BY <1>0, <1>1 DEF ClaimInv, OutcomeInv
  <2>2. 0 \notin DOMAIN rzp.refunds
    BY <1>0
  <2> QED BY <1>0, <2>1, <2>2 DEF Refunding, OutcomeInv, Processed
<1>4. /\ rzp'.pay = rzp.pay /\ Books = "refunding" /\ Books' = Books
      /\ rzp'.back = IF status = "failed" THEN rzp.back ELSE rzp.back + job.amount
  BY <1>0, <1>1, <1>3, IssueFacts DEF Books
<1>5. job.amount = payment.refundAmount /\ payment.refundAmount \in Int
  BY <1>0, <1>1 DEF ClaimInv, ActiveJob, PaymentRow
<1>6. CASE status # "failed"
  BY <1>1, <1>2, <1>4, <1>5, <1>6 DEF Ledger!SendBack
<1>7. CASE status = "failed"
  <2>1. LiveRefunds' = {}
    <3>1. rzp'.back = 0
      BY <1>2, <1>4, <1>7
    <3>2. payment.refundAmount # 0
      BY <1>0, <1>3 DEF ClaimInv, RefundFollowsCancel, Refunding, PaymentRow
    <3> QED BY <1>0, <1>1, <3>1, <3>2, IssueOnce
  <2>2. ~Through /\ ~Through'
    BY <1>2, <2>1 DEF LiveRefunds, Through
  <2> QED BY <1>1, <1>4, <1>7, <2>2 DEF Through, Ledger!ledger
<1> QED BY <1>6, <1>7

\* A pending refund that ends is the ledger's Arrive or Bounce.
LEMMA SettlesEntry ==
  ASSUME IInv, NEW i \in DOMAIN rzp.refunds, RefundSettles(i)
  PROVE  Ledger!Arrive \/ Ledger!Bounce
<1>0. /\ TypeOK /\ ClaimInv /\ MoneyInv
      /\ rzp \in RazorpayState /\ payment.refundAmount \in Int /\ rzp.back \in Int
  BY DEF IInv, TypeOK, RazorpayState, PaymentRow
<1>1. /\ rzp.refunds[i].status = "pending" /\ i \in LiveRefunds
      /\ UNCHANGED <<booking, payment>> /\ rzp'.pay = rzp.pay
  BY <1>0 DEF RefundSettles, LiveRefunds, RazorpayState
<1>2. /\ LiveRefunds = {i} /\ rzp.back = payment.refundAmount
      /\ rzp.refunds[i].amount = payment.refundAmount
  BY <1>0, <1>1 DEF MoneyInv, ClaimInv
<1>3. ~Through
  BY <1>1, <1>2 DEF Through, LiveRefunds
<1>4. rzp.back # 0
  <2>1. payment.status \in Refunding
    BY <1>0 DEF ClaimInv
  <2> QED BY <1>0, <1>2, <2>1 DEF ClaimInv, RefundFollowsCancel
<1>5. Books' = Books
  BY <1>1 DEF Books
<1>6. CASE rzp'.refunds[i].status = "processed" /\ rzp'.back = rzp.back
  <2>1. i \in DOMAIN rzp'.refunds
    BY <1>0, SettlesFacts
  <2>2. Through'
    BY <1>6, <2>1 DEF Through
  <2> QED BY <1>1, <1>3, <1>4, <1>5, <1>6, <2>2 DEF Through, Ledger!Arrive
<1>7. CASE rzp'.refunds[i].status = "failed" /\ rzp'.back = rzp.back - rzp.refunds[i].amount
  <2>1. rzp'.back = 0
    BY <1>0, <1>2, <1>7
  <2>2. /\ DOMAIN rzp'.refunds = DOMAIN rzp.refunds
        /\ \A j \in DOMAIN rzp.refunds : j # i => rzp'.refunds[j] = rzp.refunds[j]
    BY <1>0, SettlesFacts
  <2>3. ~Through'
    BY <1>3, <1>7, <2>2 DEF Through
  <2> QED BY <1>1, <1>3, <1>4, <1>5, <2>1, <2>3 DEF Through, Ledger!Bounce
<1> QED BY <1>0, <1>6, <1>7, SettlesFacts

\* markRefunded(), by the job or by the webhook, is the ledger's Close.
LEMMA CloseEntry ==
  ASSUME IInv, JobMark \/ \E e \in events : WebhookRefund(e)
  PROVE  Ledger!Close \/ UNCHANGED Ledger!ledger
<1>0. OutcomeInv /\ payment \in PaymentRow
  BY DEF IInv, TypeOK
<1>1. /\ UNCHANGED <<booking, rzp>>
      /\ \/ payment' = payment
         \/ /\ payment.status = "REFUND_PENDING"
            /\ payment' = [payment EXCEPT !.status = "REFUNDED"]
            /\ Through
  BY <1>0 DEF JobMark, WebhookRefund, OutcomeInv, Processed, Through
<1>2. CASE payment' = payment
  BY <1>1, <1>2, SameRows
<1>3. CASE payment.status = "REFUND_PENDING" /\ payment' = [payment EXCEPT !.status = "REFUNDED"] /\ Through
  <2>1. payment'.status = "REFUNDED" /\ payment'.refundAmount = payment.refundAmount
    BY <1>0, <1>3 DEF PaymentRow
  <2>2. Books = "refunding" /\ Books' = "refunded"
    BY <1>3, <2>1 DEF Books
  <2> QED BY <1>1, <1>3, <2>1, <2>2 DEF Through, Ledger!Close
<1> QED BY <1>1, <1>2, <1>3

\* Storing the payment row or the refund's id changes no entry.
LEMMA RowEntry ==
  ASSUME IInv, JobSetId \/ \E r \in Slots : CreatePayment(r)
  PROVE  UNCHANGED Ledger!ledger
<1>0. payment \in PaymentRow /\ rzp \in RazorpayState
  BY DEF IInv, TypeOK
<1>1. ASSUME NEW r \in Slots, CreatePayment(r) PROVE payment.status = "NONE"
  BY <1>1 DEF CreatePayment, At, IInv, BookInv, Booking
<1>2. /\ UNCHANGED booking /\ payment'.refundAmount = payment.refundAmount
      /\ \/ payment'.status = payment.status
         \/ payment.status = "NONE" /\ payment'.status = "CREATED"
      /\ rzp'.pay = rzp.pay /\ rzp'.back = rzp.back /\ rzp'.refunds = rzp.refunds
  BY <1>0, <1>1 DEF JobSetId, CreatePayment, PaymentRow, RazorpayState
<1>3. UNCHANGED Seen
  BY <1>2 DEF Seen, Through, Books
<1> QED BY <1>3, NoEntry

-----------------------------------------------------------------------------

\* Every step of the system is one entry of the ledger or none.
LEMMA LedgerStep ==
  IInv /\ OfferInv /\ [Next]_vars => [Ledger!Next]_(Ledger!ledger)
<1> SUFFICES ASSUME IInv, OfferInv, [Next]_vars PROVE Ledger!Next \/ UNCHANGED Ledger!ledger
  OBVIOUS
<1>0. /\ TypeOK /\ PayInv /\ ReqInv /\ booking \in BookingRow
      /\ req \in [Slots -> RequestType]
  BY DEF IInv, TypeOK
<1>1. ASSUME NEW r \in Requests, NEW total \in Totals, Book(r, total) PROVE Ledger!Next
  BY <1>0, <1>1, BookEntry DEF Ledger!Next
<1>2. ASSUME NEW r \in Slots, CloseBooking(r) PROVE Ledger!Next \/ UNCHANGED Ledger!ledger
  BY <1>0, <1>2, CancelEntry DEF CloseBooking, BookingStatus, Ledger!Next
<1>3. ASSUME NEW r \in Slots, CancelBooking(r) PROVE Ledger!Next \/ UNCHANGED Ledger!ledger
  <2>1. req[r].amount \in Int
    BY <1>0 DEF RequestType
  <2>2. CUSTOMER_CANCELLABLE \subseteq BookingStatus \ {"NONE"}
    BY DEF CUSTOMER_CANCELLABLE, BookingStatus
  <2> QED BY <1>0, <1>3, <2>1, <2>2, CancelEntry DEF CancelBooking, Ledger!Next
<1>4. ASSUME NEW r \in Slots, AssignWrite(r) PROVE Ledger!Next
  <2>1. Opened
    BY <1>0, <1>4 DEF AssignWrite, At, ReqInv, ReqOK
  <2>2. /\ booking'.status = "CONFIRMED" /\ booking'.total = booking.total
        /\ booking'.cancelledAt = booking.cancelledAt /\ UNCHANGED <<payment, rzp>>
    BY <1>0, <1>4 DEF AssignWrite, BookingRow
  <2>3. "CONFIRMED" \in Released
    BY DEF Released
  <2> QED BY <1>0, <2>1, <2>2, <2>3, WorkEntry DEF Ledger!Next
<1>5. ASSUME NEW r \in Slots, SetStatusWrite(r) PROVE Ledger!Next \/ UNCHANGED Ledger!ledger
  <2>1. Opened /\ req[r].next \in {"IN_PROGRESS", "COMPLETED", "CANCELLED"}
    BY <1>0, <1>5 DEF SetStatusWrite, At, ReqInv, ReqOK
  <2>2. CASE req[r].next = "CANCELLED"
    <3>1. booking' = CancelledFrom({req[r].seen}, 0) /\ UNCHANGED <<payment, rzp>>
      BY <1>5, <2>2 DEF SetStatusWrite
    <3>2. CASE req[r].seen # "NONE"
      <4>1. {req[r].seen} \subseteq BookingStatus \ {"NONE"}
        BY <1>0, <3>2 DEF RequestType
      <4> QED BY <1>0, <3>1, <4>1, CancelEntry DEF Ledger!Next
    <3>3. CASE req[r].seen = "NONE"
      BY <2>1, <3>1, <3>3, SameRows DEF Opened, CancelledFrom
    <3> QED BY <3>2, <3>3
  <2>3. CASE req[r].next # "CANCELLED"
    <3>1. /\ booking'.status = req[r].next /\ booking'.total = booking.total
          /\ booking'.cancelledAt = booking.cancelledAt /\ UNCHANGED <<payment, rzp>>
      BY <1>0, <1>5, <2>3 DEF SetStatusWrite, BookingRow
    <3>2. req[r].next \in Released
      BY <2>1, <2>3 DEF Released
    <3> QED BY <1>0, <2>1, <3>1, <3>2, WorkEntry DEF Ledger!Next
  <2> QED BY <2>2, <2>3
<1>6. ASSUME NEW r \in Slots, Record(r) \/ StartRefund(r) \/ CreatePayment(r) \/ Capture(r)
      PROVE  Ledger!Next \/ UNCHANGED Ledger!ledger
  BY <1>0, <1>6, RecordEntry, ClaimEntry, RowEntry, CollectEntry DEF Ledger!Next
<1>7. ASSUME AutoCapture \/ Pay \/ Lapse \/ \E i \in DOMAIN rzp.refunds : RefundSettles(i)
      PROVE  Ledger!Next \/ UNCHANGED Ledger!ledger
  BY <1>0, <1>7, CollectEntry, SettlesEntry DEF Ledger!Next
<1>8. ASSUME NEW status \in RefundStatus, JobRefund(status) \/ JobRefundUnheard(status)
      PROVE  Ledger!Next \/ UNCHANGED Ledger!ledger
  BY <1>8, SendBackEntry DEF Ledger!Next
<1>9. ASSUME JobSetId \/ JobMark \/ \E e \in events : WebhookRefund(e)
      PROVE  Ledger!Next \/ UNCHANGED Ledger!ledger
  BY <1>9, RowEntry, CloseEntry DEF Ledger!Next
<1>10. ASSUME NEW r \in Slots,
              CreateOrder(r) \/ Fetch(r) \/ Refetch(r) \/ Schedule(r) \/ Abort(r)
       PROVE  UNCHANGED Ledger!ledger
  BY <1>10, SameRows DEF CreateOrder, Fetch, Refetch, Schedule, Abort
<1>11. ASSUME NEW r \in Requests,
              \/ Verify(r) \/ Cancel(r)
              \/ \E pro \in Professionals : Assign(r, pro)
              \/ \E next \in BookingStatus : SetStatus(r, next)
       PROVE  UNCHANGED Ledger!ledger
  BY <1>11, SameRows DEF Verify, Cancel, Assign, SetStatus
<1>12. ASSUME \/ JobStart \/ JobRefused \/ JobError \/ JobStall \/ WindowCloses \/ UNCHANGED vars
              \/ \E h \in Hooks, type \in PaymentEvents : WebhookPayment(h, type)
       PROVE  UNCHANGED Ledger!ledger
  BY <1>12, SameRows DEF JobStart, JobRefused, JobError, JobStall, WindowCloses, WebhookPayment, vars
<1> QED
  BY <1>1, <1>2, <1>3, <1>4, <1>5, <1>6, <1>7, <1>8, <1>9, <1>10, <1>11, <1>12
  DEF Next, Arrival, RequestStep, SettleStep, JobStep, JobTrouble, Razorpay, Deliver

\* A booking that is not made yet is an empty ledger.
LEMMA LedgerInit == Init => Ledger!Init
  BY DEF Init, Books, Released, Ledger!Init

\* Bookings, their payments and their refunds implement the ledger, for any
\* number of requests, webhook deliveries, faults and retries, and any totals.
THEOREM ImplementsLedger == Spec => KeepsTheLedger
<1>1. Init => IInv /\ OfferInv
  BY InitInv, OfferInit
<1>2. IInv /\ OfferInv /\ [Next]_vars => (IInv /\ OfferInv)'
  BY InvStep, OfferStep DEF IInv
<1> QED BY <1>1, <1>2, LedgerInit, LedgerStep, PTL DEF Spec, KeepsTheLedger, Ledger!Spec
=============================================================================
