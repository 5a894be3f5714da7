--------------------- MODULE BookingPayments_refinement ----------------------
(***************************************************************************)
(* The payment service implements PaymentLifecycle: every statement of     *)
(* every request, every fault and every step of customer and office is a   *)
(* step of the abstract specification or leaves its two variables alone.   *)
(* The proof needs the inductive invariant: for instance a capture maps to *)
(* TakeMoney only because an approved order is always on record.           *)
(***************************************************************************)
EXTENDS BookingPayments_proofs

-----------------------------------------------------------------------------
(* The mapping. *)

AbstractStep == [Lifecycle!LifecycleNext]_(Lifecycle!lifecycleVars)

\* What a charge looks like from above.
LEMMA SeenValue ==
  ASSUME TypeOK, NEW r \in Ref
  PROVE  /\ chargeSeen[r] = "none" <=> charge[r] = "none"
         /\ chargeSeen[r] = "open" <=> charge[r] \in {"open", "approved"}
         /\ chargeSeen[r] = "taken" <=> charge[r] = "taken" /\ chargeRefunded[r] = 0
         /\ chargeSeen[r] = "returned" <=> charge[r] = "taken" /\ chargeRefunded[r] > 0
  <1>1. charge[r] \in {"none", "open", "approved", "taken"} /\ chargeRefunded[r] \in Nat
    BY DEF TypeOK
  <1> QED
    BY <1>1 DEF chargeSeen

\* A charge that does not change looks the same.
LEMMA SeenSame ==
  ASSUME UNCHANGED providerVars
  PROVE  UNCHANGED chargeSeen
  BY DEF providerVars, chargeSeen

\* A step that changes one charge changes the look of that charge only.
LEMMA SeenSet ==
  ASSUME NEW r \in Ref, NEW v, chargeSeen'[r] = v,
         \A q \in Ref \ {r} : charge'[q] = charge[q] /\ chargeRefunded'[q] = chargeRefunded[q]
  PROVE  chargeSeen' = [chargeSeen EXCEPT ![r] = v]
  <1>1. \A q \in Ref \ {r} : chargeSeen'[q] = chargeSeen[q]
    BY DEF chargeSeen
  <1>2. /\ chargeSeen = [q \in Ref |-> chargeSeen[q]]
        /\ chargeSeen' = [q \in Ref |-> chargeSeen'[q]]
    BY DEF chargeSeen
  <1> QED
    BY <1>1, <1>2

\* A step that touches neither rows nor charges is a stutter.
LEMMA Stutter ==
  ASSUME UNCHANGED payStatus, UNCHANGED providerVars
  PROVE  AbstractStep
  BY SeenSame DEF AbstractStep, Lifecycle!lifecycleVars

\* A step of the abstract specification that concerns one charge.
LEMMA ChargeStep ==
  ASSUME NEW r \in Ref,
         \/ Lifecycle!OpenCharge(r) \/ Lifecycle!TakeMoney(r) \/ Lifecycle!ReturnMoney(r)
         \/ Lifecycle!Record(r) \/ Lifecycle!RecordSuccess(r) \/ Lifecycle!RecordFailure(r)
         \/ Lifecycle!RecordReturn(r)
  PROVE  AbstractStep
  BY DEF AbstractStep, Lifecycle!LifecycleNext, Lifecycle!ChargeRef, Ref

\* Writing an outcome to a row, or failing to.
LEMMA OutcomeStep ==
  ASSUME TypeOK, NEW r \in Ref, NEW s \in {"succeeded", "failed"},
         s = "succeeded" => charge[r] = "taken",
         TrySetPayment(r, s), UNCHANGED providerVars
  PROVE  AbstractStep
  <1>1. CASE UNCHANGED payStatus
    BY <1>1, Stutter
  <1>2. CASE payStatus' # payStatus
    <2>1. HasPayment(r) /\ payStatus' = [payStatus EXCEPT ![r] = s]
      BY <1>2 DEF TrySetPayment, TypeOK
    <2>2. Lifecycle!Exists(r)
      BY <2>1 DEF HasPayment, PaymentStatus, Lifecycle!Exists, Lifecycle!RowStatus
    <2>3. s = "succeeded" => Lifecycle!Taken(r)
      BY SeenValue DEF Lifecycle!Taken, TypeOK
    <2>4. Lifecycle!RecordSuccess(r) \/ Lifecycle!RecordFailure(r)
      BY <2>1, <2>2, <2>3, SeenSame DEF Lifecycle!RecordSuccess, Lifecycle!RecordFailure
    <2> QED
      BY <2>4, ChargeStep
  <1> QED
    BY <1>1, <1>2

-----------------------------------------------------------------------------
(* The statements of a request. *)

LEMMA NewChargeMaps ==
  ASSUME TypeOK, NEW h \in Handler, NEW r \in Ref, NewCharge(h, r)
  PROVE  AbstractStep
  <1>1. chargeSeen' = [chargeSeen EXCEPT ![r] = "open"]
    BY DEF NewCharge, chargeSeen, TypeOK
  <1>2. Lifecycle!OpenCharge(r)
    BY <1>1, SeenValue DEF NewCharge, Lifecycle!OpenCharge, rowVars
  <1> QED
    BY <1>2, ChargeStep

LEMMA InsertMaps ==
  ASSUME TypeOK, IInv, NEW h \in Handler, InsertPayment(h)
  PROVE  AbstractStep
  <1> DEFINE r == call[h].ref
  <1>1. r \in Ref /\ charge[r] # "none" /\ payStatus[r] = "absent"
    BY CallFacts DEF InsertPayment, At, IInv, CallConsistent
  <1>2. charge[r] = "open"
    BY <1>1 DEF TypeOK, IInv, ChargesConsistent
  <1>3. chargeSeen[r] = "open"
    BY <1>1, <1>2, SeenValue
  <1>4. Lifecycle!Record(r)
    BY <1>1, <1>3, SeenSame DEF InsertPayment, Lifecycle!Record
  <1> QED
    BY <1>1, <1>4, ChargeStep

\* Money is taken of a charge whose row exists.
LEMMA TakingMaps ==
  ASSUME TypeOK, IInv, NEW r \in Ref, r \in issued, charge[r] \in {"open", "approved"},
         charge' = [charge EXCEPT ![r] = "taken"], UNCHANGED <<payStatus, chargeRefunded>>
  PROVE  AbstractStep
  <1>1. chargeRefunded[r] = 0
    BY DEF TypeOK, IInv, OutcomesBacked
  <1>2. chargeSeen' = [chargeSeen EXCEPT ![r] = "taken"]
    <2>1. charge'[r] = "taken" /\ chargeRefunded'[r] = 0
      BY <1>1 DEF TypeOK
    <2>2. chargeSeen'[r] = "taken"
      BY <2>1 DEF chargeSeen
    <2> QED
      BY <2>2, SeenSet DEF TypeOK
  <1>3. chargeSeen[r] = "open" /\ payStatus[r] # "absent"
    BY SeenValue DEF IInv, ChargesConsistent
  <1>4. Lifecycle!TakeMoney(r)
    BY <1>2, <1>3 DEF Lifecycle!TakeMoney
  <1> QED
    BY <1>4, ChargeStep

LEMMA RefundMaps ==
  ASSUME TypeOK, IInv, NEW h \in Handler, RefundCharge(h)
  PROVE  AbstractStep
  <1> DEFINE r == call[h].ref
             n == Pence(call[h].n)
  <1>1. r \in Intent /\ r \in Ref /\ n \in Nat /\ n > 0 /\ charge[r] = "taken"
    BY CallType, PenceFacts DEF RefundCharge, Refundable, At, IInv, CallConsistent, Ref
  <1>2. chargeRefunded[r] \in Nat
    BY <1>1 DEF TypeOK
  <1>3. chargeRefunded' = [chargeRefunded EXCEPT ![r] = @ + n] /\ UNCHANGED <<charge, payStatus>>
    BY DEF RefundCharge, rowVars
  <1>4. chargeSeen' = [chargeSeen EXCEPT ![r] = "returned"]
    <2>1. charge'[r] = "taken" /\ chargeRefunded'[r] > 0
      BY <1>1, <1>2, <1>3 DEF TypeOK
    <2>2. chargeSeen'[r] = "returned"
      BY <1>1, <2>1 DEF chargeSeen
    <2>3. \A q \in Ref \ {r} : charge'[q] = charge[q] /\ chargeRefunded'[q] = chargeRefunded[q]
      BY <1>3 DEF TypeOK
    <2> QED
      BY <1>1, <2>2, <2>3, SeenSet
  <1>5. CASE chargeRefunded[r] = 0
    <2>1. Lifecycle!ReturnMoney(r)
      BY <1>1, <1>3, <1>4, <1>5, SeenValue DEF Lifecycle!ReturnMoney
    <2> QED
      BY <1>1, <2>1, ChargeStep
  <1>6. CASE chargeRefunded[r] > 0
    <2>1. chargeSeen[r] = "returned"
      BY <1>1, <1>6, SeenValue
    <2>2. UNCHANGED chargeSeen
      BY <1>4, <2>1 DEF chargeSeen
    <2> QED
      BY <1>3, <2>2 DEF AbstractStep, Lifecycle!lifecycleVars
  <1> QED
    BY <1>2, <1>5, <1>6

LEMMA RecordRefundMaps ==
  ASSUME TypeOK, IInv, NEW h \in Handler, RecordRefund(h)
  PROVE  AbstractStep
  <1> DEFINE r == call[h].ref
             n == Pence(call[h].n)
  <1>1. r \in Ref /\ n \in Nat /\ n > 0 /\ n <= chargeRefunded[r]
    BY CallType, PenceFacts DEF RecordRefund, At, IInv, CallConsistent, Ref
  <1>2. charge[r] = "taken" /\ chargeRefunded[r] > 0
    BY <1>1 DEF TypeOK, IInv, OutcomesBacked
  <1>3. CASE UNCHANGED payStatus
    BY <1>3, Stutter DEF RecordRefund
  <1>4. CASE payStatus' # payStatus
    <2>1. HasPayment(r) /\ payStatus' = [payStatus EXCEPT ![r] = "refunded"]
      BY <1>4 DEF RecordRefund, TypeOK
    <2>2. Lifecycle!Exists(r)
      BY <2>1 DEF HasPayment, PaymentStatus, Lifecycle!Exists, Lifecycle!RowStatus
    <2>3. Lifecycle!RecordReturn(r)
      BY <1>1, <1>2, <2>1, <2>2, SeenValue, SeenSame DEF RecordRefund, Lifecycle!RecordReturn
    <2> QED
      BY <1>1, <2>3, ChargeStep
  <1> QED
    BY <1>3, <1>4

LEMMA CancelMaps ==
  ASSUME TypeOK, NEW h \in Handler, CancelPendingPayments(h)
  PROVE  AbstractStep
  <1> DEFINE S == PendingPayments(call[h].bk)
  <1>1. CASE UNCHANGED payStatus
    BY <1>1, Stutter DEF CancelPendingPayments
  <1>2. CASE payStatus' = [r \in Ref |-> IF r \in S THEN "cancelled" ELSE payStatus[r]]
    <2>1. S \in SUBSET Lifecycle!ChargeRef /\ \A r \in S : payStatus[r] = "pending"
      BY DEF PendingPayments, Lifecycle!ChargeRef, Ref
    <2>2. Lifecycle!Cancel(S)
      BY <1>2, <2>1, SeenSame DEF CancelPendingPayments, Lifecycle!Cancel, Lifecycle!ChargeRef, Ref
    <2> QED
      BY <2>1, <2>2 DEF AbstractStep, Lifecycle!LifecycleNext
  <1> QED
    BY <1>1, <1>2 DEF CancelPendingPayments

LEMMA DeleteMaps ==
  ASSUME TypeOK, NEW b \in Booking, DeleteBooking(b)
  PROVE  AbstractStep
  <1> DEFINE S == {r \in Ref : payBooking[r] = b /\ HasPayment(r)}
  <1>1. S \in SUBSET Lifecycle!ChargeRef /\ \A r \in S : Lifecycle!Exists(r)
    BY DEF HasPayment, PaymentStatus, Lifecycle!ChargeRef, Lifecycle!Exists, Lifecycle!RowStatus, Ref
  <1>2. payStatus' = [r \in Ref |-> IF r \in S THEN "deleted" ELSE payStatus[r]]
    BY DEF DeleteBooking
  <1>3. Lifecycle!Erase(S)
    BY <1>1, <1>2, SeenSame DEF DeleteBooking, Lifecycle!Erase, Lifecycle!ChargeRef, Ref
  <1> QED
    BY <1>1, <1>3 DEF AbstractStep, Lifecycle!LifecycleNext

-----------------------------------------------------------------------------
(* All of them together. *)

LEMMA RequestMaps ==
  ASSUME TypeOK, IInv, NEW h \in Handler, Step(h)
  PROVE  AbstractStep
  <1>1. CASE \E r \in Ref : NewCharge(h, r)
    BY <1>1, NewChargeMaps
  <1>2. CASE InsertPayment(h)
    BY <1>2, InsertMaps
  <1>3. CASE CaptureOrder(h)
    <2>1. call[h].ref \in Ref /\ call[h].ref \in issued
      BY <1>3, CallFacts DEF CaptureOrder, At, IInv, ChargesConsistent
    <2> QED
      BY <1>3, <2>1, TakingMaps DEF CaptureOrder, rowVars
  <1>4. CASE RecordCapture(h) \/ RecordSucceeded(h)
    <2>1. call[h].ref \in Ref /\ charge[call[h].ref] = "taken"
      BY <1>4, CallFacts DEF RecordCapture, RecordSucceeded, At, IInv, CallConsistent
    <2> QED
      BY <1>4, <2>1, OutcomeStep DEF RecordCapture, RecordSucceeded
  <1>5. CASE RecordCaptureFailure(h) \/ RecordFailed(h)
    <2>1. call[h].ref \in Ref
      BY <1>5, CallFacts DEF RecordCaptureFailure, RecordFailed, At
    <2> QED
      BY <1>5, <2>1, OutcomeStep DEF RecordCaptureFailure, RecordFailed
  <1>6. CASE RefundCharge(h)
    BY <1>6, RefundMaps
  <1>7. CASE RecordRefund(h)
    BY <1>7, RecordRefundMaps
  <1>8. CASE CancelPendingPayments(h)
    BY <1>8, CancelMaps
  <1>9. CASE UNCHANGED payStatus /\ UNCHANGED providerVars
    BY <1>9, Stutter
  <1>10. (\E r \in Intent : NewCharge(h, r)) \/ (\E r \in Order : NewCharge(h, r))
           => \E r \in Ref : NewCharge(h, r)
    BY DEF Ref
  <1> QED
    BY <1>1, <1>2, <1>3, <1>4, <1>5, <1>6, <1>7, <1>8, <1>9, <1>10
    DEF Step, CreateStripeIntent, CreateProviderOrder, ProviderRefuses, GetNextPaymentNumber,
        InsertRejected, SetPendingPayment, CaptureRejected, ConfirmBooking, FailBooking,
        SettleSucceeded, SettleFailed, RefundRejected, RefundBooking, rowVars

LEMMA CustomerMaps ==
  ASSUME TypeOK, IInv, NEW r \in Ref, Pay(r) \/ Decline(r) \/ Approve(r)
  PROVE  AbstractStep
  <1>1. CASE Pay(r)
    BY <1>1, TakingMaps DEF Pay, rowVars
  <1>2. CASE Decline(r)
    BY <1>2, Stutter DEF Decline, rowVars
  <1>3. CASE Approve(r)
    <2>1. chargeSeen' = chargeSeen
      BY <1>3 DEF Approve, chargeSeen, TypeOK
    <2> QED
      BY <1>3, <2>1 DEF Approve, AbstractStep, Lifecycle!lifecycleVars, rowVars
  <1> QED
    BY <1>1, <1>2, <1>3

LEMMA NextMaps ==
  ASSUME TypeOK, IInv, [Next]_vars
  PROVE  AbstractStep
  <1>1. CASE \E h \in Handler : Step(h)
    BY <1>1, RequestMaps
  <1>2. CASE Customer
    BY <1>2, CustomerMaps DEF Customer
  <1>3. CASE \E b \in Booking : DeleteBooking(b)
    BY <1>3, DeleteMaps
  <1>4. ASSUME NEW h \in Handler, Arrive(h) PROVE UNCHANGED payStatus /\ UNCHANGED providerVars
    BY <1>4 DEF Arrive, BeginIntent, BeginOrder, BeginPayment, CancelBooking, BeginCapture,
                BeginRefund, DeliverEvent, rowVars
  <1>5. ASSUME NEW h \in Handler, Abandon(h) PROVE UNCHANGED payStatus /\ UNCHANGED providerVars
    BY <1>5 DEF Abandon, rowVars
  <1>6. ASSUME NEW b \in Booking, NEW s \in ManualStatuses, UpdateBookingStatus(b, s)
        PROVE  UNCHANGED payStatus /\ UNCHANGED providerVars
    BY <1>6 DEF UpdateBookingStatus, rowVars
  <1>7. CASE UNCHANGED vars
    BY <1>7, Stutter DEF vars, rowVars
  <1> QED
    BY <1>1, <1>2, <1>3, <1>4, <1>5, <1>6, <1>7, Stutter DEF Next, Office

LEMMA InitMaps == Init => Lifecycle!LifecycleInit
  BY DEF Init, Lifecycle!LifecycleInit, Lifecycle!ChargeRef, Ref, chargeSeen

\* Every behaviour of the payment service, faults included, is one that
\* PaymentLifecycle allows.
THEOREM RefinesLifecycle == Spec => ImplementsLifecycle
  <1>1. TypeOK /\ IInv /\ [Next]_vars => [Lifecycle!LifecycleNext]_(Lifecycle!lifecycleVars)
    BY NextMaps DEF AbstractStep
  <1> QED
    BY <1>1, InitMaps, Invariance, PTL DEF Spec, ImplementsLifecycle, Lifecycle!LifecycleSpec

=============================================================================
