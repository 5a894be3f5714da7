-------------------------- MODULE BookingPayments ---------------------------
(***************************************************************************)
(* Taking money for bookings: services/payment_service.go over the tables  *)
(* bookings and payments, Stripe and PayPal.                               *)
(*                                                                         *)
(* Every HTTP request runs in a goroutine of its own and issues a sequence *)
(* of SQL statements, each its own transaction, and of calls to a payment  *)
(* provider.  A Handler is such a request; call[h].pc names the statement  *)
(* it issues next.  Statements of different requests interleave freely.    *)
(*                                                                         *)
(* A charge (Stripe payment intent or PayPal order) is created fresh for   *)
(* every payment row, and carries the booking it is for; so a payment row  *)
(* is identified here by its charge and payBooking stands both for the     *)
(* booking_id column and for the metadata at the provider.                 *)
(***************************************************************************)
EXTENDS Naturals, FiniteSets

CONSTANTS
  Booking,        \* bookings, all of them created before any payment
  Intent,         \* Stripe payment intents
  Order,          \* PayPal orders
  Handler,        \* request goroutines
  NoRef,          \* a request that has no charge yet
  NoBooking,      \* a charge, or request, that has no booking yet
  Amount,         \* what every payment is for, in pence
  RefundAmounts,  \* amounts an administrator asks for; 0: "all of it"
  Truncated,      \* amounts whose float64, times 100, falls short of the pence
  ManualStatuses, \* statuses set through the booking endpoints
  FaultKinds,     \* which faults happen: a subset of AllFaults
  MaxFaults       \* how many of them

\* A statement fails; a provider's reply is lost; a request is cut off; PayPal
\* holds a capture for review and completes it later.
AllFaults == {"db", "reply", "crash", "hold"}

ASSUME RefsAssumption ==
  /\ Intent \cap Order = {}
  /\ NoRef \notin Intent \cup Order
  /\ NoBooking \notin Booking
  /\ IsFiniteSet(Intent) /\ IsFiniteSet(Order)
ASSUME AmountsAssumption ==
  /\ Amount \in Nat \ {0}
  /\ RefundAmounts \subseteq Nat
  /\ Truncated \subseteq Nat \ {0, 1}
ASSUME FaultsAssumption ==
  /\ FaultKinds \subseteq AllFaults
  /\ MaxFaults \in Nat

VARIABLES
  booking,        \* booking[b]: the status column, or "deleted"
  payStatus,      \* payStatus[r]: the status column, or "absent" / "deleted"
  payNumber,      \* payNumber[r]: the sequence part of payment_number
  payRefunded,    \* payRefunded[r]: the refunded_amount column
  payBooking,     \* payBooking[r]: the booking the charge was created for
  charge,         \* charge[r]: the state of the charge at the provider
  chargeRefunded, \* chargeRefunded[r]: what the provider returned in all
  issued,         \* charges whose id a client has been given
  events,         \* Stripe events that Stripe has not seen acknowledged
  call,           \* call[h]: the request that h runs
  faults          \* how many faults have happened

providerVars == <<charge, chargeRefunded>>
rowVars      == <<payStatus, payNumber, payRefunded>>
vars == <<booking, rowVars, payBooking, providerVars, issued, events, call, faults>>

Ref == Intent \cup Order

BookingStatus == {"draft", "pending", "pending_payment", "confirmed",
                  "completed", "cancelled", "refunded", "failed"}
PaymentStatus == {"pending", "succeeded", "failed", "cancelled", "refunded"}

ASSUME ManualAssumption == ManualStatuses \subseteq BookingStatus

\* Stripe's event types the webhook reacts to.
Event == [type : {"succeeded", "payment_failed"}, ref : Intent]

\* The statement or provider call a request issues next.
PC == {"idle",
       "newIntent", "newOrder", "readNumber", "insertPayment", "setPending",
       "capture", "recordCapture", "confirmBooking", "recordFailure", "failBooking",
       "cancelPayments",
       "recordSucceeded", "settleSucceeded", "recordFailed", "settleFailed",
       "refund", "recordRefund", "refundBooking"}

Call == [pc : PC, ref : Ref \cup {NoRef}, bk : Booking \cup {NoBooking}, n : Nat]

Idle == [pc |-> "idle", ref |-> NoRef, bk |-> NoBooking, n |-> 0]

TypeOK ==
  /\ booking        \in [Booking -> BookingStatus \cup {"deleted"}]
  /\ payStatus      \in [Ref -> PaymentStatus \cup {"absent", "deleted"}]
  /\ payNumber      \in [Ref -> Nat]
  /\ payRefunded    \in [Ref -> Nat]
  /\ payBooking     \in [Ref -> Booking \cup {NoBooking}]
  /\ charge         \in [Ref -> {"none", "open", "approved", "taken"}]
  /\ chargeRefunded \in [Ref -> Nat]
  /\ issued         \subseteq Ref
  /\ events         \subseteq Event
  /\ call           \in [Handler -> Call]
  /\ faults         \in 0..MaxFaults

HasBooking(b) == booking[b] # "deleted"
HasPayment(r) == payStatus[r] \in PaymentStatus

PaymentRows == {r \in Ref : HasPayment(r)}

Init ==
  /\ booking        = [b \in Booking |-> "pending"]
  /\ payStatus      = [r \in Ref |-> "absent"]
  /\ payNumber      = [r \in Ref |-> 0]
  /\ payRefunded    = [r \in Ref |-> 0]
  /\ payBooking     = [r \in Ref |-> NoBooking]
  /\ charge         = [r \in Ref |-> "none"]
  /\ chargeRefunded = [r \in Ref |-> 0]
  /\ issued         = {}
  /\ events         = {}
  /\ call           = [h \in Handler |-> Idle]
  /\ faults         = 0

-----------------------------------------------------------------------------
(* Statements and requests. *)

At(h, p) == call[h].pc = p
Goto(h, p) == call' = [call EXCEPT ![h].pc = p]
Return(h) == call' = [call EXCEPT ![h] = Idle]

Fault(kind) ==
  /\ kind \in FaultKinds
  /\ faults < MaxFaults
  /\ faults' = faults + 1

\* UPDATE bookings SET status = s WHERE id = b: no row, no error.
BookingWith(b, s) ==
  [booking EXCEPT ![b] = IF @ = "deleted" THEN @ ELSE s]

\* bookingRepo.UpdateStatus(...) with its error ignored.
TrySetBooking(b, s) ==
  \/ booking' = BookingWith(b, s) /\ UNCHANGED faults
  \/ Fault("db") /\ UNCHANGED booking

\* UPDATE payments SET status = s WHERE id = r, with its error ignored.
TrySetPayment(r, s) ==
  \/ /\ payStatus' = [payStatus EXCEPT ![r] = IF HasPayment(r) THEN s ELSE @]
     /\ UNCHANGED faults
  \/ Fault("db") /\ UNCHANGED payStatus

\* The request ends here: its process died, or its client hung up and the
\* cancelled request context fails every statement still to come.
Abandon(h) ==
  /\ ~At(h, "idle")
  /\ Fault("crash")
  /\ Return(h)
  /\ UNCHANGED <<booking, rowVars, payBooking, providerVars, issued, events>>

-----------------------------------------------------------------------------
(* Opening a payment: CreatePaymentIntent and CreatePayPalOrder. *)

BeginPayment(h, b, p) ==
  /\ At(h, "idle")
  /\ HasBooking(b)
  /\ call' = [call EXCEPT ![h] = [pc |-> p, ref |-> NoRef, bk |-> b, n |-> 0]]
  /\ UNCHANGED <<booking, rowVars, payBooking, providerVars, issued, events, faults>>

BeginIntent(h, b) == BeginPayment(h, b, "newIntent")
BeginOrder(h, b)  == BeginPayment(h, b, "newOrder")

\* The provider creates a charge that no one has seen before.
NewCharge(h, r) ==
  /\ charge[r] = "none"
  /\ charge' = [charge EXCEPT ![r] = "open"]
  /\ payBooking' = [payBooking EXCEPT ![r] = call[h].bk]
  /\ \/ /\ call' = [call EXCEPT ![h].pc = "readNumber", ![h].ref = r]
        /\ UNCHANGED faults
     \/ Fault("reply") /\ Return(h)
  /\ UNCHANGED <<booking, rowVars, chargeRefunded, issued, events>>

CreateStripeIntent(h) == At(h, "newIntent") /\ \E r \in Intent : NewCharge(h, r)
CreateProviderOrder(h) == At(h, "newOrder") /\ \E r \in Order : NewCharge(h, r)

\* "stripe error", "paypal auth error", "paypal create order error".
ProviderRefuses(h) ==
  /\ At(h, "newIntent") \/ At(h, "newOrder")
  /\ Return(h)
  /\ UNCHANGED <<booking, rowVars, payBooking, providerVars, issued, events, faults>>

\* COUNT(*) + 1; a failed query leaves the count at zero.
GetNextPaymentNumber(h) ==
  /\ At(h, "readNumber")
  /\ \/ /\ call' = [call EXCEPT ![h].pc = "insertPayment",
                                ![h].n = Cardinality(PaymentRows) + 1]
        /\ UNCHANGED faults
     \/ /\ Fault("db")
        /\ call' = [call EXCEPT ![h].pc = "insertPayment", ![h].n = 1]
  /\ UNCHANGED <<booking, rowVars, payBooking, providerVars, issued, events>>

\* payment_number is UNIQUE and booking_id REFERENCES bookings.
InsertAccepted(h) ==
  /\ HasBooking(call[h].bk)
  /\ \A r \in PaymentRows : payNumber[r] # call[h].n

InsertPayment(h) ==
  /\ At(h, "insertPayment")
  /\ InsertAccepted(h)
  /\ payStatus' = [payStatus EXCEPT ![call[h].ref] = "pending"]
  /\ payNumber' = [payNumber EXCEPT ![call[h].ref] = call[h].n]
  /\ Goto(h, "setPending")
  /\ UNCHANGED <<booking, payRefunded, payBooking, providerVars, issued, events, faults>>

\* Mutant: the error of the INSERT is ignored like those of the UPDATEs.
InsertRejectedIgnored(h) ==
  /\ At(h, "insertPayment")
  /\ \/ ~InsertAccepted(h) /\ UNCHANGED faults
     \/ Fault("db")
  /\ Goto(h, "setPending")
  /\ UNCHANGED <<booking, rowVars, payBooking, providerVars, issued, events>>

\* The INSERT fails: the charge stays open at the provider, unrecorded.
InsertRejected(h) ==
  /\ At(h, "insertPayment")
  /\ \/ ~InsertAccepted(h) /\ UNCHANGED faults
     \/ Fault("db")
  /\ Return(h)
  /\ UNCHANGED <<booking, rowVars, payBooking, providerVars, issued, events>>

\* Mutant: a status that the CHECK constraint of bookings does not know.
SetPendingPaymentMisspelt(h) ==
  /\ At(h, "setPending")
  /\ TrySetBooking(call[h].bk, "awaiting_payment")
  /\ issued' = issued \cup {call[h].ref}
  /\ Return(h)
  /\ UNCHANGED <<rowVars, payBooking, providerVars, events>>

\* Mark the booking and give the client the id (or secret) it pays with.
SetPendingPayment(h) ==
  /\ At(h, "setPending")
  /\ TrySetBooking(call[h].bk, "pending_payment")
  /\ issued' = issued \cup {call[h].ref}
  /\ Return(h)
  /\ UNCHANGED <<rowVars, payBooking, providerVars, events>>

-----------------------------------------------------------------------------
(* The customer, at the provider's own pages. *)

\* Stripe confirms the payment: the money is taken, an event is on its way.
Pay(r) ==
  /\ r \in Intent \cap issued
  /\ charge[r] = "open"
  /\ charge' = [charge EXCEPT ![r] = "taken"]
  /\ events' = events \cup {[type |-> "succeeded", ref |-> r]}
  /\ UNCHANGED <<booking, rowVars, payBooking, chargeRefunded, issued, call, faults>>

\* The card is declined; the customer may try again with the same intent.
Decline(r) ==
  /\ r \in Intent \cap issued
  /\ charge[r] = "open"
  /\ events' = events \cup {[type |-> "payment_failed", ref |-> r]}
  /\ UNCHANGED <<booking, rowVars, payBooking, providerVars, issued, call, faults>>

Approve(r) ==
  /\ r \in Order \cap issued
  /\ charge[r] = "open"
  /\ charge' = [charge EXCEPT ![r] = "approved"]
  /\ UNCHANGED <<booking, rowVars, payBooking, chargeRefunded, issued, events, call, faults>>

-----------------------------------------------------------------------------
(* CapturePayPalOrder. *)

BeginCapture(h, r) ==
  /\ At(h, "idle")
  /\ r \in Order \cap issued
  /\ HasPayment(r)
  /\ call' = [call EXCEPT ![h] = [pc |-> "capture", ref |-> r,
                                  bk |-> payBooking[r], n |-> 0]]
  /\ UNCHANGED <<booking, rowVars, payBooking, providerVars, issued, events, faults>>

\* PayPal takes the money of an approved order, once.  The reply can be lost:
\* the handler then takes the error path although the money was taken.  A
\* capture that is not COMPLETED yet ends the request with nothing recorded.
CaptureOrder(h) ==
  /\ At(h, "capture")
  /\ charge[call[h].ref] = "approved"
  /\ charge' = [charge EXCEPT ![call[h].ref] = "taken"]
  /\ \/ Goto(h, "recordCapture") /\ UNCHANGED faults
     \/ Fault("reply") /\ Goto(h, "recordFailure")
     \/ Fault("hold") /\ Return(h)
  /\ UNCHANGED <<booking, rowVars, payBooking, chargeRefunded, issued, events>>

\* Mutant: no return after the error, so the capture is recorded all the same.
CaptureRejectedFallsThrough(h) ==
  /\ At(h, "capture")
  /\ Goto(h, "recordCapture") \/ Return(h)
  /\ UNCHANGED <<booking, rowVars, payBooking, providerVars, issued, events, faults>>

\* Mutant: the booking fails but the payment row is not told.
CaptureRejectedUnrecorded(h) ==
  /\ At(h, "capture")
  /\ Goto(h, "failBooking") \/ Return(h)
  /\ UNCHANGED <<booking, rowVars, payBooking, providerVars, issued, events, faults>>

\* An error: not approved, already captured, declined, no access token.
\* Without a token the request ends at once; otherwise the failure is recorded.
CaptureRejected(h) ==
  /\ At(h, "capture")
  /\ Goto(h, "recordFailure") \/ Return(h)
  /\ UNCHANGED <<booking, rowVars, payBooking, providerVars, issued, events, faults>>

\* Mutant: the handler returns before it confirms the booking.
RecordCaptureUnconfirmed(h) ==
  /\ At(h, "recordCapture")
  /\ TrySetPayment(call[h].ref, "succeeded")
  /\ Return(h)
  /\ UNCHANGED <<booking, payNumber, payRefunded, payBooking, providerVars, issued, events>>

RecordCapture(h) ==
  /\ At(h, "recordCapture")
  /\ TrySetPayment(call[h].ref, "succeeded")
  /\ Goto(h, "confirmBooking")
  /\ UNCHANGED <<booking, payNumber, payRefunded, payBooking, providerVars, issued, events>>

ConfirmBooking(h) ==
  /\ At(h, "confirmBooking")
  /\ TrySetBooking(call[h].bk, "confirmed")
  /\ Return(h)
  /\ UNCHANGED <<rowVars, payBooking, providerVars, issued, events>>

RecordCaptureFailure(h) ==
  /\ At(h, "recordFailure")
  /\ TrySetPayment(call[h].ref, "failed")
  /\ Goto(h, "failBooking")
  /\ UNCHANGED <<booking, payNumber, payRefunded, payBooking, providerVars, issued, events>>

FailBooking(h) ==
  /\ At(h, "failBooking")
  /\ TrySetBooking(call[h].bk, "failed")
  /\ Return(h)
  /\ UNCHANGED <<rowVars, payBooking, providerVars, issued, events>>

-----------------------------------------------------------------------------
(* CancelPayPalOrder. *)

CancelBooking(h, b) ==
  /\ At(h, "idle")
  /\ booking' = BookingWith(b, "cancelled")
  /\ call' = [call EXCEPT ![h] = [pc |-> "cancelPayments", ref |-> NoRef, bk |-> b, n |-> 0]]
  /\ UNCHANGED <<rowVars, payBooking, providerVars, issued, events, faults>>

\* Mutant: the UPDATE without its AND status = 'pending'.
PaymentsOf(b) == {r \in Ref : payBooking[r] = b /\ HasPayment(r)}

PendingPayments(b) == {r \in Ref : payBooking[r] = b /\ payStatus[r] = "pending"}

CancelPendingPayments(h) ==
  /\ At(h, "cancelPayments")
  /\ \/ /\ payStatus' = [r \in Ref |-> IF r \in PendingPayments(call[h].bk)
                                         THEN "cancelled" ELSE payStatus[r]]
        /\ UNCHANGED faults
     \/ Fault("db") /\ UNCHANGED payStatus
  /\ Return(h)
  /\ UNCHANGED <<booking, payNumber, payRefunded, payBooking, providerVars, issued, events>>

-----------------------------------------------------------------------------
(* The Stripe webhook. *)

\* Mutant: the reply is sent before the event is processed.
DeliverAcknowledgedFirst(h, e) ==
  /\ At(h, "idle")
  /\ e \in events
  /\ events' = events \ {e}
  /\ IF HasPayment(e.ref)
       THEN call' = [call EXCEPT ![h] =
                 [pc |-> IF e.type = "succeeded" THEN "recordSucceeded" ELSE "recordFailed",
                  ref |-> e.ref, bk |-> payBooking[e.ref], n |-> 0]]
       ELSE UNCHANGED call
  /\ UNCHANGED <<booking, rowVars, payBooking, providerVars, issued, faults>>

\* Mutant: every event is taken for a success.
DeliverAsSuccess(h, e) ==
  /\ At(h, "idle")
  /\ e \in events
  /\ IF HasPayment(e.ref)
       THEN /\ call' = [call EXCEPT ![h] = [pc |-> "recordSucceeded", ref |-> e.ref,
                                            bk |-> payBooking[e.ref], n |-> 0]]
            /\ UNCHANGED events
       ELSE events' = events \ {e} /\ UNCHANGED call
  /\ UNCHANGED <<booking, rowVars, payBooking, providerVars, issued, faults>>

\* Stripe delivers an event it has not seen acknowledged, in any order and
\* more than once.  Without a payment row, or without an answer from the
\* database, the handler returns, and the reply is 200 all the same.
DeliverEvent(h, e) ==
  /\ At(h, "idle")
  /\ e \in events
  /\ \/ /\ HasPayment(e.ref)
        /\ call' = [call EXCEPT ![h] =
             [pc |-> IF e.type = "succeeded" THEN "recordSucceeded" ELSE "recordFailed",
              ref |-> e.ref, bk |-> payBooking[e.ref], n |-> 0]]
        /\ UNCHANGED <<events, faults>>
     \/ /\ (~HasPayment(e.ref) /\ UNCHANGED faults) \/ Fault("db")
        /\ events' = events \ {e}
        /\ UNCHANGED call
  /\ UNCHANGED <<booking, rowVars, payBooking, providerVars, issued>>

RecordSucceeded(h) ==
  /\ At(h, "recordSucceeded")
  /\ TrySetPayment(call[h].ref, "succeeded")
  /\ Goto(h, "settleSucceeded")
  /\ UNCHANGED <<booking, payNumber, payRefunded, payBooking, providerVars, issued, events>>

RecordFailed(h) ==
  /\ At(h, "recordFailed")
  /\ TrySetPayment(call[h].ref, "failed")
  /\ Goto(h, "settleFailed")
  /\ UNCHANGED <<booking, payNumber, payRefunded, payBooking, providerVars, issued, events>>

\* The reply is 200 whatever happened; Stripe may miss it and deliver again.
Acknowledge(type, r) ==
  \/ events' = events \ {[type |-> type, ref |-> r]}
  \/ UNCHANGED events

SettleSucceeded(h) ==
  /\ At(h, "settleSucceeded")
  /\ TrySetBooking(call[h].bk, "confirmed")
  /\ Acknowledge("succeeded", call[h].ref)
  /\ Return(h)
  /\ UNCHANGED <<rowVars, payBooking, providerVars, issued>>

SettleFailed(h) ==
  /\ At(h, "settleFailed")
  /\ TrySetBooking(call[h].bk, "failed")
  /\ Acknowledge("payment_failed", call[h].ref)
  /\ Return(h)
  /\ UNCHANGED <<rowVars, payBooking, providerVars, issued>>

-----------------------------------------------------------------------------
(* ProcessRefund: only a payment with a Stripe intent can be refunded. *)

BeginRefund(h, r, a) ==
  /\ At(h, "idle")
  /\ r \in Intent
  /\ HasPayment(r)
  /\ call' = [call EXCEPT ![h] = [pc |-> "refund", ref |-> r, bk |-> payBooking[r],
                                  n |-> IF a = 0 THEN Amount ELSE a]]
  /\ UNCHANGED <<booking, rowVars, payBooking, providerVars, issued, events, faults>>

\* int64(amount * 100), which truncates: 19.99 is sent as 1998.
Pence(a) == IF a \in Truncated THEN a - 1 ELSE a

\* Stripe returns at most what it took, which was converted in the same way.
Refundable(r, n) == charge[r] = "taken" /\ chargeRefunded[r] + n <= Pence(Amount)

RefundCharge(h) ==
  /\ At(h, "refund")
  /\ Refundable(call[h].ref, Pence(call[h].n))
  /\ chargeRefunded' = [chargeRefunded EXCEPT ![call[h].ref] = @ + Pence(call[h].n)]
  /\ \/ Goto(h, "recordRefund") /\ UNCHANGED faults
     \/ Fault("reply") /\ Return(h)
  /\ UNCHANGED <<booking, rowVars, payBooking, charge, issued, events>>

\* Mutant: no return after Stripe's error.
RefundRejectedFallsThrough(h) ==
  /\ At(h, "refund")
  /\ Goto(h, "recordRefund")
  /\ UNCHANGED <<booking, rowVars, payBooking, providerVars, issued, events, faults>>

\* Stripe refuses: not paid, already returned, or a reason of its own.
RefundRejected(h) ==
  /\ At(h, "refund")
  /\ Return(h)
  /\ UNCHANGED <<booking, rowVars, payBooking, providerVars, issued, events, faults>>

\* Mutant: the amount of the payment instead of the amount of the refund.
RecordRefundOfAll(h) ==
  /\ At(h, "recordRefund")
  /\ LET r == call[h].ref IN
       \/ /\ payStatus' = [payStatus EXCEPT ![r] = IF HasPayment(r) THEN "refunded" ELSE @]
          /\ payRefunded' = [payRefunded EXCEPT ![r] = IF HasPayment(r) THEN Amount ELSE @]
          /\ UNCHANGED faults
       \/ Fault("db") /\ UNCHANGED <<payStatus, payRefunded>>
  /\ Goto(h, "refundBooking")
  /\ UNCHANGED <<booking, payNumber, payBooking, providerVars, issued, events>>

\* SET status = 'refunded', refunded_amount = n: the amount asked for and not the
\* pence sent, and an earlier partial refund's amount is overwritten.
RecordRefund(h) ==
  /\ At(h, "recordRefund")
  /\ LET r == call[h].ref IN
       \/ /\ payStatus' = [payStatus EXCEPT ![r] = IF HasPayment(r) THEN "refunded" ELSE @]
          /\ payRefunded' = [payRefunded EXCEPT ![r] = IF HasPayment(r) THEN call[h].n ELSE @]
          /\ UNCHANGED faults
       \/ Fault("db") /\ UNCHANGED <<payStatus, payRefunded>>
  /\ Goto(h, "refundBooking")
  /\ UNCHANGED <<booking, payNumber, payBooking, providerVars, issued, events>>

RefundBooking(h) ==
  /\ At(h, "refundBooking")
  /\ TrySetBooking(call[h].bk, "refunded")
  /\ Return(h)
  /\ UNCHANGED <<rowVars, payBooking, providerVars, issued, events>>

-----------------------------------------------------------------------------
(* The booking endpoints: one statement, or one transaction. *)

UpdateBookingStatus(b, s) ==
  /\ HasBooking(b)
  /\ booking' = BookingWith(b, s)
  /\ UNCHANGED <<rowVars, payBooking, providerVars, issued, events, call, faults>>

DeleteBooking(b) ==
  /\ HasBooking(b)
  /\ booking' = [booking EXCEPT ![b] = "deleted"]
  /\ payStatus' = [r \in Ref |-> IF payBooking[r] = b /\ HasPayment(r)
                                   THEN "deleted" ELSE payStatus[r]]
  /\ UNCHANGED <<payNumber, payRefunded, payBooking, providerVars, issued,
                 events, call, faults>>

-----------------------------------------------------------------------------
\* The next statement of a request that is under way.
Step(h) ==
  \/ CreateStripeIntent(h) \/ CreateProviderOrder(h) \/ ProviderRefuses(h)
  \/ GetNextPaymentNumber(h) \/ InsertPayment(h) \/ InsertRejected(h) \/ SetPendingPayment(h)
  \/ CaptureOrder(h) \/ CaptureRejected(h) \/ RecordCapture(h) \/ ConfirmBooking(h)
  \/ RecordCaptureFailure(h) \/ FailBooking(h)
  \/ CancelPendingPayments(h)
  \/ RecordSucceeded(h) \/ SettleSucceeded(h) \/ RecordFailed(h) \/ SettleFailed(h)
  \/ RefundCharge(h) \/ RefundRejected(h) \/ RecordRefund(h) \/ RefundBooking(h)

\* A request arrives.
Arrive(h) ==
  \/ \E b \in Booking : BeginIntent(h, b) \/ BeginOrder(h, b) \/ CancelBooking(h, b)
  \/ \E r \in Ref : BeginCapture(h, r) \/ \E a \in RefundAmounts : BeginRefund(h, r, a)
  \/ \E e \in events : DeliverEvent(h, e)

Customer == \E r \in Ref : Pay(r) \/ Decline(r) \/ Approve(r)

Office ==
  \E b \in Booking : DeleteBooking(b) \/ \E s \in ManualStatuses : UpdateBookingStatus(b, s)

Next ==
  \/ \E h \in Handler : Arrive(h) \/ Step(h) \/ Abandon(h)
  \/ Customer
  \/ Office

Spec == Init /\ [][Next]_vars

\* A goroutine that has started is scheduled until it returns, and Stripe keeps
\* delivering an event that was not acknowledged.  Strong fairness only because
\* Handler is a bound of the model: the server has a goroutine for every request.
Fairness ==
  /\ \A h \in Handler : WF_vars(Step(h))
  /\ \A e \in Event : SF_vars(\E h \in Handler : DeliverEvent(h, e))

FairSpec == Spec /\ Fairness
-----------------------------------------------------------------------------
(* Properties. *)

\* No row claims a success the provider does not know of.
SucceededIsPaid == \A r \in Ref : payStatus[r] = "succeeded" => charge[r] = "taken"

\* Money that was taken is on record, unless the office deleted the booking
\* and its payments with it.  Guards the order in which CreatePaymentIntent
\* inserts the row and answers: a customer cannot pay ahead of the record.
PaidIsOnRecord ==
  \A r \in Ref : charge[r] = "taken" =>
    \/ HasPayment(r)
    \/ payStatus[r] = "deleted" /\ ~HasBooking(payBooking[r])

\* Money that was taken, and a row that does not say so yet.
Outstanding(r) == charge[r] = "taken" /\ payStatus[r] \in {"pending", "cancelled"}

\* Money is not forgotten. As long as the row of a card payment does not show that
\* it was taken, Stripe still has the event to deliver, whatever crashes, replies
\* are lost and requests overlap, unless a statement failed; without any fault a
\* captured order has its handler, about to write the row. Guards the AND status =
\* 'pending' of the cancellation and the webhook's answering last.
TakenIsRecorded ==
  /\ faults = 0 \/ "db" \notin FaultKinds =>
       \A r \in Intent : Outstanding(r) => [type |-> "succeeded", ref |-> r] \in events
  /\ faults = 0 =>
       \A r \in Order : Outstanding(r) =>
         \E h \in Handler : At(h, "recordCapture") /\ call[h].ref = r

\* A row never says more was refunded than Stripe returned, but for the penny that
\* the conversion of the recorded amount loses, and "refunded" means that money
\* went back (ProcessRefund).
RefundNeverOverstated ==
  \A r \in PaymentRows : /\ Pence(payRefunded[r]) <= chargeRefunded[r]
                         /\ payStatus[r] = "refunded" => chargeRefunded[r] > 0

\* What must be true of b's payments when the payment service writes s.
Earned(b, s) ==
  \E r \in Ref : /\ payBooking[r] = b
                 /\ s = "pending_payment" => HasPayment(r)
                 /\ s = "confirmed" => charge[r] = "taken"
                 /\ s = "refunded" => chargeRefunded[r] > 0

\* A booking becomes pending_payment, confirmed or refunded through the payment
\* service only on the strength of a payment of its own.
BookingStatusEarned ==
  [][\A b \in Booking :
       \/ booking'[b] = booking[b]
       \/ booking'[b] \in {"cancelled", "failed", "deleted"}
       \/ \E s \in ManualStatuses : UpdateBookingStatus(b, s)
       \/ Earned(b, booking'[b])]_vars

\* The inductive invariant behind the invariants above.

\* A charge the provider has not created yet occurs nowhere; a row exists only
\* for a created charge and a booking, and a client knows only recorded charges; PayPal alone asks for an approval.
ChargesConsistent ==
  \A r \in Ref :
    /\ charge[r] = "none" <=> payBooking[r] = NoBooking
    /\ charge[r] = "none" => payStatus[r] = "absent"
    /\ HasPayment(r) => HasBooking(payBooking[r])
    /\ payStatus[r] = "deleted" => ~HasBooking(payBooking[r])
    /\ r \in issued => payStatus[r] # "absent"
    /\ charge[r] \in {"approved", "taken"} => r \in issued
    /\ charge[r] = "approved" => r \in Order

\* Outcomes on record are backed by the provider.
OutcomesBacked ==
  \A r \in Ref :
    /\ payStatus[r] = "succeeded" => charge[r] = "taken"
    /\ payStatus[r] = "refunded" => payRefunded[r] > 0
    /\ Pence(payRefunded[r]) <= chargeRefunded[r]
    /\ chargeRefunded[r] > 0 => r \in Intent /\ charge[r] = "taken"

EventsBacked ==
  \A e \in events : /\ e.ref \in issued
                    /\ e.type = "succeeded" => charge[e.ref] = "taken"

Opening == {"readNumber", "insertPayment", "setPending"}

\* What a request under way remembers is still true of the shared state.
CallConsistent(h) ==
  LET c == call[h] IN
    /\ c.pc # "idle" => c.bk \in Booking
    /\ c.pc \notin {"idle", "newIntent", "newOrder", "cancelPayments"} =>
         /\ c.ref \in Ref
         /\ charge[c.ref] # "none"
         /\ payBooking[c.ref] = c.bk
         /\ payStatus[c.ref] = "absent" <=> c.pc \in {"readNumber", "insertPayment"}
    /\ c.pc \in {"recordCapture", "confirmBooking", "recordSucceeded", "settleSucceeded"} =>
         charge[c.ref] = "taken"
    /\ c.pc \in {"refund", "recordRefund", "refundBooking"} => c.ref \in Intent /\ c.n > 0
    /\ c.pc \in {"recordRefund", "refundBooking"} => Pence(c.n) <= chargeRefunded[c.ref]

\* A charge is opened by one request.
OpeningsDisjoint ==
  \A g, h \in Handler :
    g # h /\ call[g].pc \in Opening /\ call[h].pc \in Opening => call[g].ref # call[h].ref

IInv ==
  /\ ChargesConsistent
  /\ OutcomesBacked
  /\ EventsBacked
  /\ \A h \in Handler : CallConsistent(h)
  /\ OpeningsDisjoint

\* TakenIsRecorded, and what it needs of the webhooks under way.
MoneyInv ==
  /\ TakenIsRecorded
  /\ faults = 0 \/ "db" \notin FaultKinds =>
       \A h \in Handler :
         At(h, "settleSucceeded") => payStatus[call[h].ref] \notin {"pending", "cancelled"}

PaymentSays(b, s) == \E r \in Ref : payBooking[r] = b /\ payStatus[r] = s

\* The statuses of a booking that a payment row must tell the same story about.
StatusWithRow == {"confirmed", "failed", "refunded", "pending_payment"}

Agrees(b) ==
  /\ booking[b] = "confirmed" => PaymentSays(b, "succeeded")
  /\ booking[b] = "failed" => PaymentSays(b, "failed")
  /\ booking[b] = "refunded" => PaymentSays(b, "refunded")
  /\ booking[b] = "pending_payment" => PaymentSays(b, "pending")

RequestFor(h, b) == ~At(h, "idle") /\ call[h].bk = b

\* One request for a booking at a time, every statement executed, and no status
\* of StatusWithRow set by hand; replies may be lost and captures held: whenever
\* no request for a booking is under way, the status the payment service left on
\* it is backed by a payment row of the booking that tells the same story.
TablesAgreeAtRest ==
  \A b \in Booking : (\A h \in Handler : ~RequestFor(h, b)) => Agrees(b)

\* Whether requests for one booking overlap, and whether statements are executed.
RequestsApart ==
  \A g, h \in Handler, b \in Booking : RequestFor(g, b) /\ RequestFor(h, b) => g = h
StatementsExecuted ==
  FaultKinds \cap {"db", "crash"} = {} /\ ManualStatuses \cap StatusWithRow = {}

\* What a request under way has still to make good: it has written a payment row
\* and will write the booking, or the other way around.
RowSays(h, s) == payStatus[call[h].ref] \in {s, "deleted"}

HalfDone(h) ==
  /\ At(h, "setPending") => RowSays(h, "pending")
  /\ At(h, "confirmBooking") \/ At(h, "settleSucceeded") => RowSays(h, "succeeded")
  /\ At(h, "failBooking") \/ At(h, "settleFailed") => RowSays(h, "failed")
  /\ At(h, "refundBooking") => RowSays(h, "refunded")
  /\ At(h, "cancelPayments") => booking[call[h].bk] \notin StatusWithRow

Settling == {"confirmBooking", "settleSucceeded", "failBooking", "settleFailed", "refundBooking"}

\* TablesAgreeAtRest, and what it needs of the requests under way.
TablesInv ==
  /\ \A b \in Booking :
       Agrees(b) \/ \E h \in Handler : RequestFor(h, b) /\ call[h].pc \in Settling
  /\ \A h \in Handler : HalfDone(h)

\* What is recorded of money taken for r, at some time: a later request may
\* overwrite it (a second capture, a delayed payment_failed event, a refund).
Settles(r) ==
  <>(charge[r] = "taken") =>
    /\ <>(payStatus[r] \in {"succeeded", "deleted"})
    /\ <>(\E b \in Booking : payBooking[r] = b /\ booking[b] \in {"confirmed", "deleted"})

\* A card payment that went through reaches the payment row and the booking,
\* because Stripe delivers its event again until the webhook has answered.
StripeMoneySettles == \A r \in Intent : Settles(r)

\* A captured PayPal order reaches the payment row and the booking.
PayPalMoneySettles == \A r \in Order : Settles(r)

\* The number computed as the next one is free.
NextNumberIsFree ==
  \A r \in PaymentRows : payNumber[r] # Cardinality(PaymentRows) + 1

-----------------------------------------------------------------------------
(* The records of the payment service behave as PaymentLifecycle says. *)

\* How far the charge has got, as PaymentLifecycle tells it apart.
chargeSeen ==
  [r \in Ref |-> CASE charge[r] = "approved" -> "open"
                   [] charge[r] = "taken" /\ chargeRefunded[r] > 0 -> "returned"
                   [] OTHER -> charge[r]]

Lifecycle == INSTANCE PaymentLifecycle WITH status <- payStatus, charge <- chargeSeen

\* A row succeeds only on money taken, is refunded only on money returned, is
\* cancelled only while pending, and is never written again once deleted.
ImplementsLifecycle == Lifecycle!LifecycleSpec

=============================================================================
