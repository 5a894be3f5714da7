------------------------- MODULE PaymentViews_proofs -------------------------
(* What the invoice, the drawer of a booking and the audit of a payment show is *)
(* backed by the provider, for every number of bookings, charges, requests and  *)
(* faults. BookingsBacked is inductive beside the invariant of BookingPayments:  *)
(* money once taken stays taken for its booking (MoneyStays), and the payment   *)
(* service writes a status that reads as paid only on money (StatusWritten).    *)
EXTENDS PaymentViews, BookingPayments_proofs

\* A charge that is taken stays so, for the same booking; so does money returned.
LEMMA MoneyStays ==
  ASSUME TypeOK, IInv, [Next]_vars, NEW r \in Ref
  PROVE  /\ charge[r] = "taken" => charge'[r] = "taken" /\ payBooking'[r] = payBooking[r]
         /\ chargeRefunded[r] > 0 => chargeRefunded'[r] > 0 /\ payBooking'[r] = payBooking[r]
  <1> DEFINE Goal == /\ charge[r] = "taken" => charge'[r] = "taken" /\ payBooking'[r] = payBooking[r]
                     /\ chargeRefunded[r] > 0 => /\ chargeRefunded'[r] > 0
                                                 /\ payBooking'[r] = payBooking[r]
  <1> SUFFICES Goal
    OBVIOUS
  <1>1. chargeRefunded[r] > 0 => charge[r] = "taken"
    BY DEF IInv, OutcomesBacked
  <1>2. CASE UNCHANGED <<payBooking, charge, chargeRefunded>>
    BY <1>2
  <1>3. ASSUME NEW h \in Handler, Step(h) PROVE Goal
    <2>1. ASSUME NEW q \in Ref, NewCharge(h, q) PROVE Goal
      <3>1. CASE q = r
        BY <2>1, <3>1, <1>1 DEF NewCharge
      <3>2. CASE q # r
        BY <2>1, <3>2 DEF NewCharge, TypeOK
      <3> QED
        BY <3>1, <3>2
    <2>2. CASE CreateStripeIntent(h) \/ CreateProviderOrder(h)
      BY <2>1, <2>2 DEF CreateStripeIntent, CreateProviderOrder, Ref
    <2>3. CASE CaptureOrder(h)
      BY <2>3 DEF CaptureOrder, TypeOK
    <2>4. CASE RefundCharge(h)
      <3>1. call[h].n \in Nat /\ call[h].ref \in Ref
        BY <2>4, CallType, CallFacts DEF RefundCharge, At
      <3>2. Pence(call[h].n) \in Nat
        BY <3>1, PenceFacts
      <3>3. chargeRefunded'[r] \in {chargeRefunded[r], chargeRefunded[r] + Pence(call[h].n)}
        BY <2>4, <3>1, <3>2 DEF RefundCharge, TypeOK
      <3>4. chargeRefunded[r] \in Nat
        BY DEF TypeOK
      <3> QED
        BY <2>4, <3>2, <3>3, <3>4 DEF RefundCharge
    <2>5. CASE UNCHANGED <<payBooking, charge, chargeRefunded>>
      BY <1>2, <2>5
    <2> QED
      BY <1>3, <2>2, <2>3, <2>4, <2>5
      DEF Step, ProviderRefuses, GetNextPaymentNumber, InsertPayment, InsertRejected,
          SetPendingPayment, CaptureRejected, RecordCapture, ConfirmBooking,
          RecordCaptureFailure, FailBooking, CancelPendingPayments, RecordSucceeded,
          SettleSucceeded, RecordFailed, SettleFailed, RefundRejected, RecordRefund,
          RefundBooking, providerVars
  <1>4. ASSUME NEW h \in Handler, Arrive(h) \/ Abandon(h) PROVE Goal
    BY <1>2, <1>4 DEF Arrive, BeginIntent, BeginOrder, BeginPayment, CancelBooking, BeginCapture,
                      BeginRefund, DeliverEvent, Abandon, providerVars
  <1>5. ASSUME NEW q \in Ref, Pay(q) \/ Decline(q) \/ Approve(q) PROVE Goal
    BY <1>1, <1>5 DEF Pay, Decline, Approve, providerVars, TypeOK
  <1>6. CASE Office
    BY <1>2, <1>6 DEF Office, DeleteBooking, UpdateBookingStatus, providerVars
  <1>7. CASE UNCHANGED vars
    BY <1>2, <1>7 DEF vars, providerVars
  <1> QED
    BY <1>3, <1>4, <1>5, <1>6, <1>7 DEF Next, Customer

\* A status that reads as paid or refunded, after a step: it was there before, or
\* is the office's, or is earned by a payment of the booking.
StatusWrites(b) ==
  \/ booking'[b] = booking[b]
  \/ booking'[b] \in ManualStatuses
  \/ booking'[b] \notin {"confirmed", "refunded", "completed"}
  \/ booking'[b] \in {"confirmed", "refunded"} /\ Earned(b, booking'[b])

\* Requests write one of four statuses, and never "completed".
LEMMA WrittenByRequest ==
  ASSUME TypeOK, IInv, NEW b \in Booking, NEW h \in Handler, NEW s,
         Writes(h, s), TrySetBooking(call[h].bk, s)
  PROVE  StatusWrites(b)
  <1>1. CASE booking'[b] = booking[b]
    BY <1>1 DEF StatusWrites
  <1>2. CASE booking'[b] # booking[b]
    <2>1. call[h].bk \in Booking
      BY CallFacts DEF At, Writes
    <2>2. booking'[b] = s
      BY <1>2, <2>1, OneBookingWritten
    <2>3. s \in {"pending_payment", "confirmed", "refunded", "failed"}
      BY DEF Writes
    <2>4. s = "failed" \/ Earned(b, s)
      BY <1>2, <2>2, EarnedByWrite
    <2> QED
      BY <2>2, <2>3, <2>4 DEF StatusWrites
  <1> QED
    BY <1>1, <1>2

LEMMA StatusWritten ==
  ASSUME TypeOK, IInv, [Next]_vars, NEW b \in Booking
  PROVE  StatusWrites(b)
  <1>1. CASE UNCHANGED booking
    BY <1>1 DEF StatusWrites
  <1>2. ASSUME NEW h \in Handler, Step(h) PROVE StatusWrites(b)
    <2>1. CASE SetPendingPayment(h)
      BY <2>1, WrittenByRequest DEF SetPendingPayment, Writes
    <2>2. CASE ConfirmBooking(h) \/ SettleSucceeded(h)
      BY <2>2, WrittenByRequest DEF ConfirmBooking, SettleSucceeded, Writes
    <2>3. CASE FailBooking(h) \/ SettleFailed(h)
      BY <2>3, WrittenByRequest DEF FailBooking, SettleFailed, Writes
    <2>4. CASE RefundBooking(h)
      BY <2>4, WrittenByRequest DEF RefundBooking, Writes
    <2>5. CASE UNCHANGED booking
      BY <1>1, <2>5
    <2> QED
      BY <1>2, <2>1, <2>2, <2>3, <2>4, <2>5
      DEF Step, CreateStripeIntent, CreateProviderOrder, NewCharge, ProviderRefuses,
          GetNextPaymentNumber, InsertPayment, InsertRejected, CaptureOrder,
          CaptureRejected, RecordCapture, RecordCaptureFailure, CancelPendingPayments,
          RecordSucceeded, RecordFailed, RefundCharge, RefundRejected, RecordRefund
  <1>3. ASSUME NEW h \in Handler, Arrive(h) PROVE StatusWrites(b)
    <2>1. ASSUME NEW c \in Booking, CancelBooking(h, c) PROVE StatusWrites(b)
      BY <2>1 DEF CancelBooking, BookingWith, TypeOK, StatusWrites
    <2> QED
      BY <1>1, <1>3, <2>1 DEF Arrive, BeginIntent, BeginOrder, BeginPayment, BeginCapture,
                              BeginRefund, DeliverEvent
  <1>4. CASE Office
    <2>1. ASSUME NEW c \in Booking, DeleteBooking(c) PROVE StatusWrites(b)
      BY <2>1 DEF DeleteBooking, TypeOK, StatusWrites
    <2>2. ASSUME NEW c \in Booking, NEW s \in ManualStatuses, UpdateBookingStatus(c, s)
          PROVE  StatusWrites(b)
      BY <2>2 DEF UpdateBookingStatus, BookingWith, TypeOK, StatusWrites
    <2> QED
      BY <1>4, <2>1, <2>2 DEF Office
  <1>5. CASE Customer
    BY <1>1, <1>5 DEF Customer, Pay, Decline, Approve
  <1>6. ASSUME NEW h \in Handler, Abandon(h) PROVE StatusWrites(b)
    BY <1>1, <1>6 DEF Abandon
  <1> QED
    BY <1>1, <1>2, <1>3, <1>4, <1>5, <1>6 DEF Next, vars

\* Money of a booking stays money of the booking.
LEMMA BackingStays ==
  ASSUME TypeOK, IInv, [Next]_vars, NEW b \in Booking
  PROVE  MoneyTaken(b) => MoneyTaken(b)'
  <1>1. SUFFICES ASSUME NEW r \in Ref, payBooking[r] = b, charge[r] = "taken"
                 PROVE  MoneyTaken(b)'
    BY DEF MoneyTaken
  <1> QED
    BY <1>1, MoneyStays DEF MoneyTaken

LEMMA ReturnedStays ==
  ASSUME TypeOK, IInv, [Next]_vars, NEW b \in Booking
  PROVE  MoneyReturned(b) => MoneyReturned(b)'
  <1>1. SUFFICES ASSUME NEW r \in Ref, payBooking[r] = b, chargeRefunded[r] > 0
                 PROVE  MoneyReturned(b)'
    BY DEF MoneyReturned
  <1> QED
    BY <1>1, MoneyStays DEF MoneyReturned

LEMMA BackedStep ==
  ASSUME TypeOK, IInv, BookingsBacked, [Next]_vars
  PROVE  BookingsBacked'
  <1> SUFFICES ASSUME NEW b \in Booking PROVE StatusBacked(b)'
    BY DEF BookingsBacked
  <1>1. StatusBacked(b) /\ StatusWrites(b)
    BY StatusWritten DEF BookingsBacked
  <1>2. (MoneyTaken(b) => MoneyTaken(b)') /\ (MoneyReturned(b) => MoneyReturned(b)')
    BY BackingStays, ReturnedStays
  <1>3. Earned(b, "confirmed") => MoneyTaken(b)
    BY DEF Earned, MoneyTaken
  <1>4. Earned(b, "refunded") => MoneyReturned(b)
    BY DEF Earned, MoneyReturned
  <1>5. CASE booking'[b] = "confirmed"
    BY <1>1, <1>2, <1>3, <1>5 DEF StatusBacked, StatusWrites
  <1>6. CASE booking'[b] = "refunded"
    BY <1>1, <1>2, <1>4, <1>6 DEF StatusBacked, StatusWrites
  <1>7. CASE booking'[b] \notin {"confirmed", "refunded"}
    BY <1>1, <1>7 DEF StatusBacked, StatusWrites
  <1> QED
    BY <1>5, <1>6, <1>7

\* A status that reads as paid or refunded is backed by money or by the office.
THEOREM BookingsBackedAlways == Spec => []BookingsBacked
  <1>1. Init => BookingsBacked
    BY DEF Init, BookingsBacked, StatusBacked
  <1>2. TypeOK /\ IInv /\ BookingsBacked /\ [Next]_vars => BookingsBacked'
    BY BackedStep
  <1> QED
    BY <1>1, <1>2, Invariance, PTL DEF Spec

\* What one payment contributes to the pages.
LEMMA RowsAreBacked ==
  ASSUME TypeOK, IInv, NEW r \in PaymentRows
  PROVE  /\ LifecycleStage(r) = "Succeeded" /\ payStatus[r] # "cancelled" => charge[r] = "taken"
         /\ LifecycleStage(r) = "Refunded" => chargeRefunded[r] > 0
         /\ Pence(AuditEntries(r).refunded) <= chargeRefunded[r]
         /\ AuditEntries(r).provider = InvoiceProvider(r)
  <1>1. r \in Ref /\ payStatus[r] \in PaymentStatus /\ payRefunded[r] \in Nat /\ chargeRefunded[r] \in Nat
    BY DEF PaymentRows, HasPayment, TypeOK
  <1>2. /\ payStatus[r] = "succeeded" => charge[r] = "taken"
        /\ payStatus[r] = "refunded" => payRefunded[r] > 0
        /\ Pence(payRefunded[r]) <= chargeRefunded[r]
    BY <1>1 DEF IInv, OutcomesBacked
  <1>3. r # NoRef /\ (r \in Intent <=> r \notin Order)
    BY <1>1, RefsAssumption DEF Ref
  <1>4. LifecycleStage(r) = "Succeeded" /\ payStatus[r] # "cancelled" => payStatus[r] = "succeeded"
    BY <1>1 DEF LifecycleStage, PaymentStatus
  <1>5. LifecycleStage(r) = "Refunded" => payStatus[r] = "refunded"
    BY <1>1 DEF LifecycleStage, PaymentStatus
  <1>6. AuditEntries(r).refunded = payRefunded[r]
    BY DEF AuditEntries
  <1>7. AuditEntries(r).provider = InvoiceProvider(r)
    BY <1>3 DEF AuditEntries, InvoiceProvider
  <1>8. LifecycleStage(r) = "Refunded" => chargeRefunded[r] > 0
    BY <1>1, <1>2, <1>5, PenceFacts
  <1> QED
    BY <1>2, <1>4, <1>6, <1>7, <1>8

\* What the invoice and the drawer of a booking say with the payment r.
LEMMA SumIsBacked ==
  ASSUME TypeOK, IInv, BookingsBacked, NEW b \in Booking, NEW r \in Attached(b)
  PROVE  /\ InvoiceSum(b, r).label = "Total Paid" => MoneyTaken(b) \/ booking[b] \in ManualStatuses
         /\ InvoiceSum(b, r).label = "Total Refunded" => MoneyReturned(b) \/ booking[b] \in ManualStatuses
         /\ r # NoRef => /\ Pence(Amount - InvoiceSum(b, r).net) <= chargeRefunded[r]
                         /\ LinkedPayment(r).provider = InvoiceProvider(r)
  <1>1. r = NoRef \/ (r \in Ref /\ r # NoRef /\ payBooking[r] = b)
    BY RefsAssumption DEF Attached, PaymentRows, Ref
  <1>2. InvoiceSum(b, r).label = TotalLabel(b, r)
    BY DEF InvoiceSum
  <1>3. StatusBacked(b)
    BY DEF BookingsBacked
  <1>4. IsPaid(b, r) => MoneyTaken(b) \/ booking[b] \in ManualStatuses
    <2>1. CASE ShownStatus(r) = "succeeded"
      <3>1. r \in Ref /\ payBooking[r] = b /\ payStatus[r] = "succeeded"
        BY <1>1, <2>1 DEF ShownStatus
      <3>2. charge[r] = "taken"
        BY <3>1 DEF IInv, OutcomesBacked
      <3> QED
        BY <3>1, <3>2 DEF MoneyTaken
    <2>2. CASE booking[b] \in {"confirmed", "completed"}
      BY <1>3, <2>2 DEF StatusBacked
    <2> QED
      BY <2>1, <2>2 DEF IsPaid
  <1>5. TotalLabel(b, r) = "Total Paid" => IsPaid(b, r)
    BY DEF TotalLabel
  <1>6. TotalLabel(b, r) = "Total Refunded" => booking[b] = "refunded"
    BY DEF TotalLabel
  <1>7. booking[b] = "refunded" => MoneyReturned(b) \/ booking[b] \in ManualStatuses
    BY <1>3 DEF StatusBacked
  <1>8. ASSUME r # NoRef
        PROVE  Pence(Amount - InvoiceSum(b, r).net) <= chargeRefunded[r]
    <2>1. r \in Ref /\ payRefunded[r] \in Nat /\ chargeRefunded[r] \in Nat
      BY <1>1, <1>8 DEF TypeOK
    <2>2. Pence(payRefunded[r]) <= chargeRefunded[r]
      BY <2>1 DEF IInv, OutcomesBacked
    <2>3. InvoiceSum(b, r).net = Amount - payRefunded[r]
      BY <1>8 DEF InvoiceSum, PaymentRowsShown
    <2>4. Amount - InvoiceSum(b, r).net = payRefunded[r]
      BY <2>1, <2>3, AmountsAssumption
    <2> QED
      BY <2>2, <2>4
  <1>9. r # NoRef => LinkedPayment(r).provider = InvoiceProvider(r)
    <2>1. r # NoRef => (r \in Intent <=> r \notin Order)
      BY <1>1, RefsAssumption DEF Ref
    <2> QED
      BY <2>1 DEF LinkedPayment, ProviderBadge, InvoiceProvider
  <1> QED
    BY <1>2, <1>4, <1>5, <1>6, <1>7, <1>8, <1>9

\* At every statement of every request, whichever payment of the booking the page
\* was given, the invoice, the drawer and the audit claim no more than the
\* providers, or the office, account for, but for the penny of the conversion.
THEOREM ViewsAreBackedAlways == Spec => []ViewsAreBacked
  <1>1. TypeOK /\ IInv /\ BookingsBacked => ViewsAreBacked
    BY SumIsBacked, RowsAreBacked DEF ViewsAreBacked
  <1> QED
    BY <1>1, Invariance, BookingsBackedAlways, PTL

=============================================================================
