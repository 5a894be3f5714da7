----------------------------- MODULE PaymentViews -----------------------------
(* What the pages say of a payment, read from the tables while BookingPayments  *)
(* writes them: the invoice (lib/utils/invoice.ts), the drawer of a booking      *)
(* (app/(admin)/admin/bookings/page.tsx) and the audit of a payment              *)
(* (app/(admin)/admin/payments/page.tsx). A view is of a booking b and of the   *)
(* payment r that the answer carries with it, or NoRef.                          *)
EXTENDS BookingPayments, Integers

\* booking.payment is the first row of a query that orders nothing: any of them.
Attached(b) ==
  LET rows == { r \in PaymentRows : payBooking[r] = b }
  IN IF rows = {} THEN {NoRef} ELSE rows

\* paymentProvider of the invoice, by the ids of PayPal and then of Stripe.
InvoiceProvider(r) ==
  CASE r = NoRef -> "N/A" [] r \in Order -> "PayPal" [] r \in Intent -> "Stripe"

\* getProviderBadge of the bookings page, the other way round.
ProviderBadge(r) ==
  CASE r = NoRef -> "Unpaid" [] r \in Intent -> "Stripe" [] r \in Order -> "PayPal"

ShownStatus(r) == IF r = NoRef THEN "no_payment" ELSE payStatus[r]

\* Mutant: a payment row is taken for a payment.
IsPaidByRow(b, r) == r # NoRef \/ booking[b] \in {"confirmed", "completed"}

\* isPaid
IsPaid(b, r) == ShownStatus(r) = "succeeded" \/ booking[b] \in {"confirmed", "completed"}

\* The badge beside the title of the invoice.
InvoiceBadge(b, r) ==
  CASE IsPaid(b, r) -> "Paid"
    [] ~IsPaid(b, r) /\ booking[b] = "refunded" -> "Refunded"
    [] ~IsPaid(b, r) /\ booking[b] = "failed" -> "Failed"
    [] ~IsPaid(b, r) /\ booking[b] = "cancelled" -> "Cancelled"
    [] OTHER -> "Payment Pending"

\* totalLabel
TotalLabel(b, r) ==
  CASE IsPaid(b, r) -> "Total Paid"
    [] ~IsPaid(b, r) /\ booking[b] = "refunded" -> "Total Refunded"
    [] OTHER -> "Total Due"

\* The rows of the payment on the invoice: "Amount Paid" stands there for every
\* payment, also for one that has failed.
PaymentRowsShown(r) ==
  IF r = NoRef THEN [status |-> "no_payment", amountPaid |-> 0, refunded |-> 0]
  ELSE [status |-> payStatus[r], amountPaid |-> Amount, refunded |-> payRefunded[r]]

\* The sum at the foot of the invoice, and its last line once money went back.
InvoiceSum(b, r) ==
  [label |-> TotalLabel(b, r), badge |-> InvoiceBadge(b, r), net |-> Amount - PaymentRowsShown(r).refunded]

\* "Linked Payment Records" in the drawer of a booking.
LinkedPayment(r) ==
  IF r = NoRef THEN [status |-> "none", provider |-> "none", refunded |-> 0]
  ELSE [status |-> payStatus[r], provider |-> ProviderBadge(r), refunded |-> payRefunded[r]]

\* "Processor identifiers" and "Refund record" of the audit.
AuditEntries(r) ==
  [provider |-> CASE r \in Intent -> "Stripe" [] r \in Order -> "PayPal", refunded |-> payRefunded[r]]

\* "Lifecycle Progress" of the audit: whatever is not refunded, failed or pending has
\* succeeded, a cancelled payment too.
LifecycleStage(r) ==
  CASE payStatus[r] = "refunded" -> "Refunded"
    [] payStatus[r] = "failed" -> "Failed"
    [] payStatus[r] = "pending" -> "Pending"
    [] OTHER -> "Succeeded"

-----------------------------------------------------------------------------
MoneyTaken(b) == \E r \in Ref : payBooking[r] = b /\ charge[r] = "taken"
MoneyReturned(b) == \E r \in Ref : payBooking[r] = b /\ chargeRefunded[r] > 0

\* An invoice says that a booking is paid, or refunded, only if a provider took money
\* for that booking, or gave some back, or the office set its status by hand; it
\* subtracts no more than was given back, but for the penny that the conversion of
\* the amount loses, and agrees with the drawer and the audit on the provider.
\* The audit says that a payment succeeded or was refunded only if it was, a
\* cancelled one apart. This holds at every statement of every request, whichever
\* payment of the booking the page was given (generateInvoicePDF,
\* BookingRepository.GetByID, UpdateStatus of both tables).
ViewsAreBacked ==
  /\ \A b \in Booking : \A r \in Attached(b) :
       LET sum == InvoiceSum(b, r)
       IN /\ sum.label = "Total Paid" => MoneyTaken(b) \/ booking[b] \in ManualStatuses
          /\ sum.label = "Total Refunded" => MoneyReturned(b) \/ booking[b] \in ManualStatuses
          /\ r # NoRef => /\ Pence(Amount - sum.net) <= chargeRefunded[r]
                          /\ LinkedPayment(r).provider = InvoiceProvider(r)
  /\ \A r \in PaymentRows :
       /\ LifecycleStage(r) = "Succeeded" /\ payStatus[r] # "cancelled" => charge[r] = "taken"
       /\ LifecycleStage(r) = "Refunded" => chargeRefunded[r] > 0
       /\ Pence(AuditEntries(r).refunded) <= chargeRefunded[r]
       /\ AuditEntries(r).provider = InvoiceProvider(r)

\* What makes it inductive: a status that reads as paid or refunded is backed by
\* money of the booking, or by the office; the payment service completes nothing.
StatusBacked(b) ==
  /\ booking[b] = "confirmed" => MoneyTaken(b) \/ "confirmed" \in ManualStatuses
  /\ booking[b] = "refunded" => MoneyReturned(b) \/ "refunded" \in ManualStatuses
  /\ booking[b] = "completed" => "completed" \in ManualStatuses

BookingsBacked == \A b \in Booking : StatusBacked(b)
=============================================================================
