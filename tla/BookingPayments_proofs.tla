----------------------- MODULE BookingPayments_proofs -----------------------
(***************************************************************************)
(* Theorems about BookingPayments, for every number of bookings, charges,  *)
(* requests and faults.  The inductive invariant is TypeOK /\ IInv.  Its   *)
(* preservation is proved action by action; what the actions have in       *)
(* common is in four lemmas: RowsKept (statements that leave the payments  *)
(* table alone), RowWritten (UPDATEs of one payment row), OthersKeep (what *)
(* a step must not do to the requests of others) and Combine.              *)
(***************************************************************************)
EXTENDS BookingPayments, FiniteSetTheorems, TLAPS

-----------------------------------------------------------------------------
(* Types. *)

\* COUNT(*) over the payments table is a natural number.
LEMMA CountIsNat == Cardinality(PaymentRows) \in Nat
  <1>1. IsFiniteSet(Ref)
    BY RefsAssumption, FS_Union DEF Ref
  <1>2. IsFiniteSet(PaymentRows)
    BY <1>1, FS_Subset DEF PaymentRows
  <1>3. QED
    BY <1>2, FS_CardinalityType

\* Writes that ignore their error, and faults, keep the types.
LEMMA BookingWriteType ==
  ASSUME TypeOK, NEW b, NEW s \in BookingStatus, TrySetBooking(b, s)
  PROVE  /\ booking' \in [Booking -> BookingStatus \cup {"deleted"}]
         /\ \A c \in Booking : booking'[c] = "deleted" <=> booking[c] = "deleted"
         /\ faults' \in 0..MaxFaults
  BY FaultsAssumption DEF TypeOK, TrySetBooking, BookingWith, Fault, BookingStatus

LEMMA FaultType ==
  ASSUME TypeOK, NEW k, Fault(k)
  PROVE  faults' \in 0..MaxFaults
  BY FaultsAssumption DEF TypeOK, Fault

\* What the conversion to pence makes of an amount.
LEMMA PenceFacts ==
  ASSUME NEW a \in Nat
  PROVE  Pence(a) \in Nat /\ Pence(a) <= a /\ (a > 0 => Pence(a) > 0)
  <1>1. a \in Truncated => a \notin {0, 1}
    BY AmountsAssumption DEF AmountsAssumption
  <1> QED
    BY <1>1 DEF Pence

\* The shape of a request, and what a change of it leaves alone.
LEMMA CallType ==
  ASSUME TypeOK, NEW h \in Handler
  PROVE  /\ call[h] \in Call
         /\ call[h].pc \in PC
         /\ call[h].ref \in Ref \cup {NoRef}
         /\ call[h].bk \in Booking \cup {NoBooking}
         /\ call[h].n \in Nat
  <1>1. call[h] \in Call
    BY DEF TypeOK
  <1> QED
    BY <1>1 DEF Call

OthersSame(h) == \A g \in Handler \ {h} : call'[g] = call[g]

LEMMA CallSet ==
  ASSUME TypeOK, NEW h \in Handler, NEW p \in PC, NEW r \in Ref \cup {NoRef},
         NEW b \in Booking \cup {NoBooking}, NEW n \in Nat,
         call' = [call EXCEPT ![h] = [pc |-> p, ref |-> r, bk |-> b, n |-> n]]
  PROVE  /\ call' \in [Handler -> Call]
         /\ OthersSame(h)
         /\ call'[h] = [pc |-> p, ref |-> r, bk |-> b, n |-> n]
  BY DEF TypeOK, Call, OthersSame

LEMMA GotoSet ==
  ASSUME TypeOK, NEW h \in Handler, NEW p \in PC, Goto(h, p)
  PROVE  /\ call' \in [Handler -> Call]
         /\ OthersSame(h)
         /\ call'[h] = [pc |-> p, ref |-> call[h].ref, bk |-> call[h].bk, n |-> call[h].n]
  <1>1. call[h] = [pc |-> call[h].pc, ref |-> call[h].ref, bk |-> call[h].bk, n |-> call[h].n]
    BY CallType DEF Call
  <1>2. [call[h] EXCEPT !.pc = p]
          = [pc |-> p, ref |-> call[h].ref, bk |-> call[h].bk, n |-> call[h].n]
    BY <1>1
  <1>3. call' = [call EXCEPT ![h] =
                  [pc |-> p, ref |-> call[h].ref, bk |-> call[h].bk, n |-> call[h].n]]
    BY <1>2 DEF Goto
  <1> QED
    BY <1>3, CallSet, CallType

LEMMA ReturnSet ==
  ASSUME TypeOK, NEW h \in Handler, Return(h)
  PROVE  /\ call' \in [Handler -> Call]
         /\ OthersSame(h)
         /\ call'[h] = Idle
  <1>1. "idle" \in PC /\ NoRef \in Ref \cup {NoRef} /\ NoBooking \in Booking \cup {NoBooking}
    BY DEF PC
  <1> QED
    BY <1>1, CallSet DEF Return, Idle

-----------------------------------------------------------------------------
(* What the actions have in common. *)

\* The part of the invariant that does not mention requests.
RowInv == ChargesConsistent /\ OutcomesBacked /\ EventsBacked

\* What a step of h may do to the state that other requests remember.
Preserves(h) ==
  \A r \in Ref :
    /\ charge[r] # "none" => charge'[r] # "none" /\ payBooking'[r] = payBooking[r]
    /\ charge[r] = "taken" => charge'[r] = "taken"
    /\ chargeRefunded[r] <= chargeRefunded'[r]
    /\ \/ payStatus[r] = "absent" <=> payStatus'[r] = "absent"
       \/ At(h, "insertPayment") /\ r = call[h].ref

OpeningKept(h) ==
  call'[h].pc \in Opening =>
    \/ call[h].pc \in Opening /\ call'[h].ref = call[h].ref
    \/ charge[call'[h].ref] = "none"

\* A step of h leaves what another request g remembers true.
LEMMA OthersKeep ==
  ASSUME TypeOK, TypeOK', IInv, NEW g \in Handler, NEW h \in Handler,
         g # h \/ ~At(h, "insertPayment"), call'[g] = call[g], Preserves(h)
  PROVE  CallConsistent(g)'
  <1> DEFINE c == call[g]
  <1>1. CallConsistent(g)
    BY DEF IInv
  <1>2. CASE c.pc \in {"idle", "newIntent", "newOrder", "cancelPayments"}
    BY <1>1, <1>2 DEF CallConsistent
  <1>3. CASE c.pc \notin {"idle", "newIntent", "newOrder", "cancelPayments"}
    <2>1. /\ c.ref \in Ref
          /\ charge[c.ref] # "none"
          /\ payBooking[c.ref] = c.bk
          /\ payStatus[c.ref] = "absent" <=> c.pc \in {"readNumber", "insertPayment"}
      BY <1>1, <1>3 DEF CallConsistent
    <2>2. payStatus[c.ref] = "absent" <=> payStatus'[c.ref] = "absent"
      <3>1. CASE At(h, "insertPayment") /\ c.ref = call[h].ref
        <4>1. payStatus[c.ref] = "absent"
          BY <3>1 DEF IInv, CallConsistent, At
        <4>2. c.pc \in Opening /\ call[h].pc \in Opening
          BY <4>1, <2>1, <3>1 DEF Opening, At
        <4> QED
          BY <4>2, <3>1 DEF IInv, OpeningsDisjoint
      <3> QED
        BY <3>1, <2>1 DEF Preserves
    <2>3. /\ charge'[c.ref] # "none"
          /\ payBooking'[c.ref] = payBooking[c.ref]
          /\ charge[c.ref] = "taken" => charge'[c.ref] = "taken"
          /\ chargeRefunded[c.ref] <= chargeRefunded'[c.ref]
      BY <2>1 DEF Preserves
    <2>4. /\ c.n \in Nat
          /\ chargeRefunded[c.ref] \in Nat
          /\ chargeRefunded'[c.ref] \in Nat
          /\ Pence(c.n) \in Nat
      BY <2>1, CallType, PenceFacts DEF TypeOK
    <2> QED
      BY <1>1, <1>3, <2>1, <2>2, <2>3, <2>4 DEF CallConsistent
  <1> QED
    BY <1>2, <1>3

\* The pieces of the invariant put together after a step of h.
LEMMA Combine ==
  ASSUME TypeOK, TypeOK', IInv, NEW h \in Handler,
         RowInv', OthersSame(h), Preserves(h), CallConsistent(h)', OpeningKept(h)
  PROVE  IInv'
  <1>1. ASSUME NEW g \in Handler PROVE CallConsistent(g)'
    <2>1. CASE g = h
      BY <2>1
    <2>2. CASE g # h
      BY <2>2, OthersKeep DEF OthersSame
    <2> QED
      BY <2>1, <2>2
  <1>2. ASSUME NEW g \in Handler, g # h, call'[g].pc \in Opening, call'[h].pc \in Opening
        PROVE  call'[g].ref # call'[h].ref
    <2>1. call[g].pc \in Opening /\ call'[g].ref = call[g].ref
      BY <1>2 DEF OthersSame
    <2>2. charge[call[g].ref] # "none"
      BY <2>1 DEF IInv, CallConsistent, Opening
    <2> QED
      BY <1>2, <2>1, <2>2 DEF OpeningKept, IInv, OpeningsDisjoint
  <1>3. OpeningsDisjoint'
    BY <1>2 DEF OpeningsDisjoint, OthersSame, IInv
  <1> QED
    BY <1>1, <1>3 DEF IInv, RowInv

\* A created charge is for a booking.
LEMMA ChargeHasBooking ==
  ASSUME TypeOK, IInv, NEW r \in Ref, charge[r] # "none"
  PROVE  payBooking[r] \in Booking
  BY RefsAssumption DEF TypeOK, IInv, ChargesConsistent

\* Statements that leave the payments table and the provider alone, and delete
\* no booking.
RowsAlone ==
  /\ UNCHANGED <<rowVars, payBooking, providerVars, issued>>
  /\ events' \subseteq events
  /\ \A b \in Booking : booking'[b] = "deleted" <=> booking[b] = "deleted"

LEMMA RowsKept ==
  ASSUME TypeOK, IInv, NEW h \in Handler, RowsAlone
  PROVE  RowInv' /\ Preserves(h)
  <1>1. \A r \in Ref : charge[r] # "none" => (HasBooking(payBooking[r]) <=> HasBooking(payBooking[r])')
    BY ChargeHasBooking DEF RowsAlone, HasBooking
  <1>2. ChargesConsistent'
    BY <1>1 DEF IInv, ChargesConsistent, RowsAlone, rowVars, providerVars, HasPayment, PaymentStatus
  <1>3. OutcomesBacked'
    BY DEF IInv, OutcomesBacked, HasPayment, RowsAlone, rowVars, providerVars
  <1>4. EventsBacked'
    BY DEF IInv, EventsBacked, RowsAlone, providerVars
  <1>5. Preserves(h)
    BY DEF Preserves, RowsAlone, rowVars, providerVars, TypeOK
  <1> QED
    BY <1>2, <1>3, <1>4, <1>5 DEF RowInv

\* An UPDATE of the status of one payment row, succeeded only on money taken.
LEMMA RowWritten ==
  ASSUME TypeOK, IInv, NEW h \in Handler, NEW r \in Ref, NEW s \in {"succeeded", "failed"},
         s = "succeeded" => charge[r] = "taken",
         TrySetPayment(r, s),
         UNCHANGED <<booking, payNumber, payRefunded, payBooking, providerVars, issued, events>>
  PROVE  /\ RowInv' /\ Preserves(h)
         /\ payStatus' \in [Ref -> PaymentStatus \cup {"absent", "deleted"}]
         /\ faults' \in 0..MaxFaults
  <1> USE DEF providerVars
  <1>1. /\ payStatus' \in [Ref -> PaymentStatus \cup {"absent", "deleted"}]
        /\ faults' \in 0..MaxFaults
    BY FaultsAssumption DEF TypeOK, TrySetPayment, Fault, PaymentStatus
  <1>2. \A q \in Ref : /\ HasPayment(q)' <=> HasPayment(q)
                       /\ payStatus'[q] = payStatus[q] \/ (HasPayment(q) /\ q = r /\ payStatus'[q] = s)
    BY DEF TypeOK, TrySetPayment, HasPayment, PaymentStatus
  <1>3. ChargesConsistent'
    BY <1>2 DEF IInv, ChargesConsistent, HasBooking, HasPayment, PaymentStatus
  <1>4. OutcomesBacked'
    BY <1>2 DEF IInv, OutcomesBacked
  <1>5. EventsBacked'
    BY DEF IInv, EventsBacked
  <1>6. Preserves(h)
    BY <1>2 DEF Preserves, TypeOK, HasPayment, PaymentStatus
  <1> QED
    BY <1>1, <1>3, <1>4, <1>5, <1>6 DEF RowInv

-----------------------------------------------------------------------------
(* The actions. *)

StepInv == TypeOK' /\ IInv'

\* A request that keeps the tables as they are and moves on or returns.
LEMMA PlainStep ==
  ASSUME TypeOK, IInv, NEW h \in Handler, RowsAlone, TypeOK',
         OthersSame(h), CallConsistent(h)', OpeningKept(h)
  PROVE  StepInv
  BY RowsKept, Combine DEF StepInv

\* A request that is idle again is consistent.
LEMMA IdleConsistent ==
  ASSUME NEW h \in Handler, call'[h] = Idle
  PROVE  CallConsistent(h)' /\ OpeningKept(h)
  BY DEF CallConsistent, Idle, OpeningKept, Opening

\* A request that returns, having at most written a booking status or consumed
\* an event: every exit of every handler but those that issue a charge.
LEMMA ReturnStep ==
  ASSUME TypeOK, IInv, NEW h \in Handler, Return(h), RowsAlone,
         booking' \in [Booking -> BookingStatus \cup {"deleted"}], faults' \in 0..MaxFaults
  PROVE  StepInv
  <1>1. TypeOK'
    BY ReturnSet DEF TypeOK, RowsAlone, rowVars, providerVars
  <1> QED
    BY <1>1, ReturnSet, IdleConsistent, PlainStep

LEMMA BeginStep ==
  ASSUME TypeOK, IInv, NEW h \in Handler, NEW b \in Booking,
         NEW p \in {"newIntent", "newOrder", "cancelPayments"},
         call' = [call EXCEPT ![h] = [pc |-> p, ref |-> NoRef, bk |-> b, n |-> 0]],
         RowsAlone, booking' \in [Booking -> BookingStatus \cup {"deleted"}],
         UNCHANGED <<events, faults>>
  PROVE  StepInv
  <1>1. NoRef \in Ref \cup {NoRef} /\ b \in Booking \cup {NoBooking} /\ 0 \in Nat
    OBVIOUS
  <1>2. p \in PC
    BY DEF PC
  <1>3. /\ call' \in [Handler -> Call]
        /\ OthersSame(h)
        /\ call'[h] = [pc |-> p, ref |-> NoRef, bk |-> b, n |-> 0]
    BY <1>1, <1>2, CallSet
  <1>4. TypeOK'
    BY <1>3 DEF TypeOK, RowsAlone, rowVars, providerVars
  <1>5. CallConsistent(h)' /\ OpeningKept(h)
    BY <1>3 DEF CallConsistent, OpeningKept, Opening
  <1> QED
    BY <1>3, <1>4, <1>5, PlainStep

\* Requests that arrive.
LEMMA ArriveStep ==
  ASSUME TypeOK, IInv, NEW h \in Handler, Arrive(h)
  PROVE  StepInv
  <1> USE DEF rowVars, providerVars
  <1>1. ASSUME NEW b \in Booking, BeginIntent(h, b) \/ BeginOrder(h, b)
        PROVE  StepInv
    <2>1. PICK p \in {"newIntent", "newOrder"} : BeginPayment(h, b, p)
      BY <1>1 DEF BeginIntent, BeginOrder
    <2> QED
      BY <2>1, BeginStep DEF BeginPayment, RowsAlone, TypeOK
  <1>2. ASSUME NEW b \in Booking, CancelBooking(h, b)
        PROVE  StepInv
    BY <1>2, BeginStep DEF CancelBooking, BookingWith, RowsAlone, TypeOK, BookingStatus
  <1>3. ASSUME NEW r \in Ref, NEW p \in {"capture", "recordSucceeded", "recordFailed", "refund"},
               NEW n \in Nat,
               HasPayment(r), p = "recordSucceeded" => charge[r] = "taken",
               p = "refund" => r \in Intent /\ n > 0,
               call' = [call EXCEPT ![h] = [pc |-> p, ref |-> r, bk |-> payBooking[r], n |-> n]],
               RowsAlone, UNCHANGED <<booking, faults>>
        PROVE  StepInv
    <2>1. charge[r] # "none"
      BY <1>3 DEF IInv, ChargesConsistent, HasPayment, PaymentStatus
    <2>2. payBooking[r] \in Booking
      BY <2>1, ChargeHasBooking
    <2>3. p \in PC
      BY DEF PC
    <2>4. /\ call' \in [Handler -> Call]
          /\ OthersSame(h)
          /\ call'[h] = [pc |-> p, ref |-> r, bk |-> payBooking[r], n |-> n]
      BY <1>3, <2>2, <2>3, CallSet
    <2>5. TypeOK'
      BY <1>3, <2>4 DEF TypeOK, RowsAlone
    <2>6. CallConsistent(h)'
      BY <1>3, <2>1, <2>2, <2>4 DEF CallConsistent, RowsAlone, HasPayment, PaymentStatus
    <2>7. OpeningKept(h)
      BY <2>4 DEF OpeningKept, Opening
    <2> QED
      BY <1>3, <2>4, <2>5, <2>6, <2>7, PlainStep
  <1>4. ASSUME NEW r \in Ref, BeginCapture(h, r)
        PROVE  StepInv
    BY <1>3, <1>4 DEF BeginCapture, RowsAlone
  <1>5. ASSUME NEW r \in Ref, NEW a \in RefundAmounts, BeginRefund(h, r, a)
        PROVE  StepInv
    <2> DEFINE n == IF a = 0 THEN Amount ELSE a
    <2>1. n \in Nat /\ n > 0
      BY AmountsAssumption
    <2>2. /\ call' = [call EXCEPT ![h] = [pc |-> "refund", ref |-> r,
                                         bk |-> payBooking[r], n |-> n]]
          /\ r \in Intent /\ HasPayment(r)
          /\ RowsAlone /\ UNCHANGED <<booking, faults>>
      BY <1>5 DEF BeginRefund, RowsAlone
    <2> QED
      BY <1>3, <2>1, <2>2
  <1>6. ASSUME NEW e \in events, DeliverEvent(h, e)
        PROVE  StepInv
    <2>1. e \in Event /\ e.ref \in Ref
      BY DEF TypeOK, Event, Ref
    <2>2. CASE HasPayment(e.ref) /\ UNCHANGED events
      <3>1. e.type = "succeeded" => charge[e.ref] = "taken"
        BY DEF IInv, EventsBacked
      <3> QED
        BY <1>3, <1>6, <2>1, <2>2, <3>1 DEF DeliverEvent, RowsAlone
    <2>3. CASE UNCHANGED call
      <3>1. TypeOK' /\ RowsAlone /\ UNCHANGED call
        BY <1>6, <2>3, FaultType DEF DeliverEvent, RowsAlone, TypeOK
      <3>2. CallConsistent(h)
        BY DEF IInv
      <3>3. CallConsistent(h)'
        BY <3>1, <3>2 DEF CallConsistent, RowsAlone
      <3> QED
        BY <3>1, <3>3, PlainStep DEF OthersSame, OpeningKept
    <2> QED
      BY <1>6, <2>2, <2>3 DEF DeliverEvent
  <1> QED
    BY <1>1, <1>2, <1>4, <1>5, <1>6 DEF Arrive

\* A request past its first provider call stands for a recorded charge, or for
\* one it is about to record.
LEMMA CallFacts ==
  ASSUME TypeOK, IInv, NEW h \in Handler,
         call[h].pc \notin {"idle", "newIntent", "newOrder", "cancelPayments"}
  PROVE  /\ call[h].ref \in Ref
         /\ charge[call[h].ref] # "none"
         /\ call[h].bk \in Booking
         /\ payBooking[call[h].ref] = call[h].bk
  BY DEF IInv, CallConsistent

\* Every handler's exit that only writes a booking's status.
LEMMA SettleStep ==
  ASSUME TypeOK, IInv, NEW h \in Handler, NEW s \in BookingStatus,
         TrySetBooking(call[h].bk, s), Return(h),
         UNCHANGED <<rowVars, payBooking, providerVars, issued>>, events' \subseteq events
  PROVE  StepInv
  <1>1. RowsAlone
    BY BookingWriteType DEF RowsAlone
  <1> QED
    BY <1>1, BookingWriteType, ReturnStep

\* Opening a payment.
LEMMA OpenStep ==
  ASSUME TypeOK, IInv, NEW h \in Handler,
         \/ CreateStripeIntent(h) \/ CreateProviderOrder(h) \/ ProviderRefuses(h)
         \/ GetNextPaymentNumber(h) \/ InsertPayment(h) \/ InsertRejected(h)
         \/ SetPendingPayment(h)
  PROVE  StepInv
  <1> USE DEF rowVars, providerVars
  <1>1. CASE CreateStripeIntent(h) \/ CreateProviderOrder(h)
    <2>1. PICK r \in Ref : NewCharge(h, r)
      BY <1>1 DEF CreateStripeIntent, CreateProviderOrder, Ref
    <2>2. call[h].bk \in Booking
      BY <1>1 DEF CreateStripeIntent, CreateProviderOrder, At, IInv, CallConsistent
    <2>3. faults' \in 0..MaxFaults
      BY <2>1, FaultType DEF NewCharge, TypeOK
    <2>4. \/ call'[h] = Idle
          \/ call'[h] = [pc |-> "readNumber", ref |-> r, bk |-> call[h].bk, n |-> call[h].n]
      <3>1. CASE Return(h)
        BY <3>1, ReturnSet
      <3>2. CASE call' = [call EXCEPT ![h].pc = "readNumber", ![h].ref = r]
        <4>1. call[h] \in Call
          BY CallType
        <4> QED
          BY <3>2, <4>1 DEF TypeOK, Call
      <3> QED
        BY <2>1, <3>1, <3>2 DEF NewCharge
    <2>5. OthersSame(h)
      BY <2>1 DEF NewCharge, Return, OthersSame, TypeOK
    <2>6. call'[h] \in Call
      BY <2>4, CallType DEF Call, PC, Idle
    <2>7. call' \in [Handler -> Call]
      <3>1. call' = [call EXCEPT ![h] = call'[h]]
        BY <2>1 DEF NewCharge, Return, TypeOK
      <3> QED
        BY <2>6, <3>1 DEF TypeOK
    <2>8. TypeOK'
      BY <2>1, <2>2, <2>3, <2>7 DEF NewCharge, TypeOK
    <2>9. /\ charge[r] = "none" /\ payStatus[r] = "absent" /\ r \notin issued
          /\ payBooking[r] = NoBooking
      BY <2>1 DEF NewCharge, IInv, ChargesConsistent
    <2>10. \A q \in Ref : /\ q # r => charge'[q] = charge[q] /\ payBooking'[q] = payBooking[q]
                          /\ q = r => charge'[q] = "open" /\ payBooking'[q] = call[h].bk
      BY <2>1 DEF NewCharge, TypeOK
    <2>11. ChargesConsistent'
      BY <2>1, <2>2, <2>9, <2>10, RefsAssumption
      DEF NewCharge, IInv, ChargesConsistent, HasPayment, HasBooking, PaymentStatus
    <2>12. OutcomesBacked'
      BY <2>1, <2>9, <2>10 DEF NewCharge, IInv, OutcomesBacked
    <2>13. EventsBacked'
      <3>1. \A e \in events : e.ref \in Ref /\ e.ref # r
        BY <2>9 DEF IInv, EventsBacked, TypeOK, Event, Ref
      <3> QED
        BY <2>1, <2>10, <3>1 DEF NewCharge, IInv, EventsBacked
    <2>15. Preserves(h)
      BY <2>1, <2>9, <2>10 DEF NewCharge, Preserves, TypeOK
    <2>16. CallConsistent(h)' /\ OpeningKept(h)
      <3>1. CASE call'[h] = Idle
        BY <3>1, IdleConsistent
      <3>2. CASE call'[h] = [pc |-> "readNumber", ref |-> r, bk |-> call[h].bk, n |-> call[h].n]
        <4>1. payStatus'[r] = "absent"
          BY <2>1, <2>9 DEF NewCharge
        <4> QED
          BY <3>2, <4>1, <2>2, <2>9, <2>10 DEF CallConsistent, OpeningKept, Opening
      <3> QED
        BY <2>4, <3>1, <3>2
    <2> QED
      BY <2>5, <2>8, <2>11, <2>12, <2>13, <2>15, <2>16, Combine DEF RowInv, StepInv
  <1>2. CASE ProviderRefuses(h)
    BY <1>2, ReturnStep DEF ProviderRefuses, RowsAlone, TypeOK
  <1>3. CASE GetNextPaymentNumber(h)
    <2>1. PICK n \in Nat : call' = [call EXCEPT ![h].pc = "insertPayment", ![h].n = n]
      BY <1>3, CountIsNat DEF GetNextPaymentNumber
    <2>2. call[h] \in Call
      BY CallType
    <2>3. /\ call'[h] = [pc |-> "insertPayment", ref |-> call[h].ref, bk |-> call[h].bk, n |-> n]
          /\ OthersSame(h)
          /\ call' = [call EXCEPT ![h] = call'[h]]
      BY <2>1, <2>2 DEF TypeOK, Call, OthersSame
    <2>4. call' \in [Handler -> Call]
      <3>1. call'[h] \in Call
        BY <2>3, CallType DEF Call, PC
      <3> QED
        BY <2>3, <3>1 DEF TypeOK
    <2>5. TypeOK'
      BY <1>3, <2>4, FaultType DEF GetNextPaymentNumber, TypeOK
    <2>6. CallConsistent(h)
      BY DEF IInv
    <2>7. CallConsistent(h)' /\ OpeningKept(h)
      BY <1>3, <2>3, <2>6 DEF GetNextPaymentNumber, At, CallConsistent, OpeningKept, Opening
    <2> QED
      BY <1>3, <2>3, <2>5, <2>7, PlainStep DEF GetNextPaymentNumber, RowsAlone
  <1>4. CASE InsertPayment(h)
    <2> DEFINE r == call[h].ref
    <2>1. CallConsistent(h) /\ r \in Ref /\ charge[r] # "none" /\ payBooking[r] = call[h].bk
      BY <1>4, CallFacts DEF IInv, InsertPayment, At
    <2>2. /\ call' \in [Handler -> Call]
          /\ OthersSame(h)
          /\ call'[h] = [pc |-> "setPending", ref |-> r, bk |-> call[h].bk, n |-> call[h].n]
      BY <1>4, GotoSet DEF InsertPayment, PC
    <2>3. TypeOK'
      BY <1>4, <2>1, <2>2, CallType DEF InsertPayment, TypeOK, PaymentStatus
    <2>4. payStatus[r] = "absent"
      BY <1>4, <2>1 DEF InsertPayment, At, CallConsistent
    <2>5. \A q \in Ref : /\ q # r => payStatus'[q] = payStatus[q] /\ payNumber'[q] = payNumber[q]
                         /\ q = r => payStatus'[q] = "pending" /\ payNumber'[q] = call[h].n
      BY <1>4, <2>1 DEF InsertPayment, TypeOK
    <2>6. ChargesConsistent'
      BY <1>4, <2>1, <2>5 DEF InsertPayment, InsertAccepted, IInv, ChargesConsistent,
                              HasPayment, HasBooking, PaymentStatus
    <2>7. OutcomesBacked'
      BY <1>4, <2>5 DEF InsertPayment, IInv, OutcomesBacked
    <2>8. EventsBacked'
      BY <1>4 DEF InsertPayment, IInv, EventsBacked
    <2>10. Preserves(h)
      BY <1>4, <2>5 DEF InsertPayment, Preserves, TypeOK
    <2>11. CallConsistent(h)' /\ OpeningKept(h)
      BY <1>4, <2>1, <2>2, <2>5 DEF InsertPayment, At, CallConsistent, OpeningKept, Opening
    <2> QED
      BY <2>2, <2>3, <2>6, <2>7, <2>8, <2>10, <2>11, Combine DEF RowInv, StepInv
  <1>5. CASE InsertRejected(h)
    BY <1>5, ReturnStep, FaultType DEF InsertRejected, RowsAlone, TypeOK
  <1>6. CASE SetPendingPayment(h)
    <2> DEFINE r == call[h].ref
    <2>1. r \in Ref /\ payStatus[r] # "absent"
      BY <1>6, CallFacts DEF SetPendingPayment, At, IInv, CallConsistent
    <2>2. /\ booking' \in [Booking -> BookingStatus \cup {"deleted"}]
          /\ \A b \in Booking : booking'[b] = "deleted" <=> booking[b] = "deleted"
          /\ faults' \in 0..MaxFaults
      BY <1>6, BookingWriteType DEF SetPendingPayment, BookingStatus
    <2>3. TypeOK'
      BY <1>6, <2>1, <2>2, ReturnSet DEF SetPendingPayment, TypeOK
    <2>4. \A q \in Ref : charge[q] # "none" =>
            (HasBooking(payBooking[q]) <=> HasBooking(payBooking[q])')
      BY <1>6, <2>2, ChargeHasBooking DEF SetPendingPayment, HasBooking
    <2>5. ChargesConsistent'
      BY <1>6, <2>1, <2>4 DEF SetPendingPayment, IInv, ChargesConsistent, HasPayment, PaymentStatus
    <2>6. OutcomesBacked' /\ EventsBacked'
      BY <1>6 DEF SetPendingPayment, IInv, OutcomesBacked, EventsBacked, HasPayment
    <2>7. Preserves(h)
      BY <1>6 DEF SetPendingPayment, Preserves, TypeOK
    <2>8. OthersSame(h) /\ CallConsistent(h)' /\ OpeningKept(h)
      BY <1>6, ReturnSet, IdleConsistent DEF SetPendingPayment
    <2> QED
      BY <2>3, <2>5, <2>6, <2>7, <2>8, Combine DEF RowInv, StepInv
  <1> QED
    BY <1>1, <1>2, <1>3, <1>4, <1>5, <1>6

\* A request that writes one payment row and goes on to the booking.
LEMMA RecordStep ==
  ASSUME TypeOK, IInv, NEW h \in Handler, NEW s \in {"succeeded", "failed"}, NEW p \in PC,
         call[h].pc \notin {"idle", "newIntent", "newOrder", "cancelPayments",
                            "readNumber", "insertPayment"},
         p \in {"confirmBooking", "settleSucceeded", "failBooking", "settleFailed"},
         p \in {"confirmBooking", "settleSucceeded"} \/ s = "succeeded" =>
           charge[call[h].ref] = "taken",
         TrySetPayment(call[h].ref, s), Goto(h, p),
         UNCHANGED <<booking, payNumber, payRefunded, payBooking, providerVars, issued, events>>
  PROVE  StepInv
  <1> DEFINE r == call[h].ref
  <1>1. /\ r \in Ref /\ charge[r] # "none" /\ call[h].bk \in Booking /\ payBooking[r] = call[h].bk
        /\ payStatus[r] # "absent"
    BY CallFacts DEF IInv, CallConsistent
  <1>2. /\ RowInv' /\ Preserves(h)
        /\ payStatus' \in [Ref -> PaymentStatus \cup {"absent", "deleted"}]
        /\ faults' \in 0..MaxFaults
    BY <1>1, RowWritten
  <1>3. /\ call' \in [Handler -> Call]
        /\ OthersSame(h)
        /\ call'[h] = [pc |-> p, ref |-> r, bk |-> call[h].bk, n |-> call[h].n]
    BY GotoSet
  <1>4. TypeOK'
    BY <1>2, <1>3 DEF TypeOK, providerVars
  <1>5. payStatus'[r] # "absent"
    BY <1>1, <1>2, ~At(h, "insertPayment") DEF Preserves, At
  <1>6. CallConsistent(h)' /\ OpeningKept(h)
    BY <1>1, <1>3, <1>5 DEF CallConsistent, OpeningKept, Opening, providerVars
  <1> QED
    BY <1>2, <1>3, <1>4, <1>6, Combine DEF StepInv

\* Capturing a PayPal order.
LEMMA CaptureStep ==
  ASSUME TypeOK, IInv, NEW h \in Handler,
         \/ CaptureOrder(h) \/ CaptureRejected(h) \/ RecordCapture(h) \/ ConfirmBooking(h)
         \/ RecordCaptureFailure(h) \/ FailBooking(h)
  PROVE  StepInv
  <1> USE DEF rowVars, providerVars
  <1>1. ASSUME NEW p \in {"recordCapture", "recordFailure"}, At(h, "capture"), Goto(h, p)
        PROVE  /\ call' \in [Handler -> Call]
               /\ OthersSame(h)
               /\ call'[h] = [pc |-> p, ref |-> call[h].ref, bk |-> call[h].bk, n |-> call[h].n]
    BY <1>1, GotoSet DEF PC
  <1>2. CASE CaptureOrder(h)
    <2> DEFINE r == call[h].ref
    <2>1. /\ r \in Ref /\ payBooking[r] = call[h].bk /\ call[h].bk \in Booking
          /\ payStatus[r] # "absent"
      BY <1>2, CallFacts DEF CaptureOrder, At, IInv, CallConsistent
    <2>2. Return(h) \/ Goto(h, "recordCapture") \/ Goto(h, "recordFailure")
      BY <1>2 DEF CaptureOrder
    <2>3. /\ call' \in [Handler -> Call]
          /\ OthersSame(h)
          /\ \/ call'[h] = Idle
             \/ \E p \in {"recordCapture", "recordFailure"} :
                  call'[h] = [pc |-> p, ref |-> r, bk |-> call[h].bk, n |-> call[h].n]
      BY <1>1, <1>2, <2>2, ReturnSet DEF CaptureOrder
    <2>4. TypeOK'
      BY <1>2, <2>3, FaultType DEF CaptureOrder, TypeOK
    <2>5. \A q \in Ref : /\ q # r => charge'[q] = charge[q]
                         /\ q = r => charge'[q] = "taken" /\ charge[q] = "approved"
      BY <1>2, <2>1 DEF CaptureOrder, TypeOK
    <2>6. ChargesConsistent'
      BY <1>2, <2>1, <2>5 DEF CaptureOrder, IInv, ChargesConsistent, HasPayment, HasBooking
    <2>7. OutcomesBacked'
      BY <1>2, <2>5 DEF CaptureOrder, IInv, OutcomesBacked
    <2>8. EventsBacked'
      <3>1. \A e \in events : e.ref \in Ref
        BY DEF TypeOK, Event, Ref
      <3> QED
        BY <1>2, <2>5, <3>1 DEF CaptureOrder, IInv, EventsBacked, HasPayment
    <2>9. Preserves(h)
      BY <1>2, <2>5 DEF CaptureOrder, Preserves, TypeOK
    <2>10. CallConsistent(h)' /\ OpeningKept(h)
      <3>1. CASE call'[h] = Idle
        BY <3>1, IdleConsistent
      <3>2. CASE call'[h] # Idle
        BY <1>2, <2>1, <2>3, <2>5, <3>2 DEF CaptureOrder, CallConsistent, OpeningKept, Opening
      <3> QED
        BY <3>1, <3>2
    <2> QED
      BY <2>3, <2>4, <2>6, <2>7, <2>8, <2>9, <2>10, Combine DEF RowInv, StepInv
  <1>3. CASE CaptureRejected(h)
    <2>1. RowsAlone
      BY <1>3 DEF CaptureRejected, RowsAlone
    <2>2. CASE Return(h)
      BY <1>3, <2>1, <2>2, ReturnStep DEF CaptureRejected, TypeOK
    <2>3. CASE Goto(h, "recordFailure")
      <3>1. /\ call' \in [Handler -> Call]
            /\ OthersSame(h)
            /\ call'[h] = [pc |-> "recordFailure", ref |-> call[h].ref,
                           bk |-> call[h].bk, n |-> call[h].n]
        BY <1>1, <1>3, <2>3 DEF CaptureRejected
      <3>2. TypeOK'
        BY <1>3, <3>1 DEF CaptureRejected, TypeOK
      <3>3. CallConsistent(h)
        BY DEF IInv
      <3>4. CallConsistent(h)' /\ OpeningKept(h)
        BY <1>3, <3>1, <3>3 DEF CaptureRejected, At, CallConsistent, OpeningKept, Opening
      <3> QED
        BY <2>1, <3>1, <3>2, <3>4, PlainStep
    <2> QED
      BY <1>3, <2>2, <2>3 DEF CaptureRejected
  <1>4. CASE RecordCapture(h)
    <2>1. charge[call[h].ref] = "taken"
      BY <1>4 DEF RecordCapture, At, IInv, CallConsistent
    <2> QED
      BY <1>4, <2>1, RecordStep DEF RecordCapture, At, PC
  <1>5. CASE RecordCaptureFailure(h)
    BY <1>5, RecordStep DEF RecordCaptureFailure, At, PC
  <1>6. CASE ConfirmBooking(h)
    BY <1>6, SettleStep DEF ConfirmBooking, BookingStatus
  <1>7. CASE FailBooking(h)
    BY <1>7, SettleStep DEF FailBooking, BookingStatus
  <1> QED
    BY <1>2, <1>3, <1>4, <1>5, <1>6, <1>7

\* The webhook.
LEMMA WebhookStep ==
  ASSUME TypeOK, IInv, NEW h \in Handler,
         RecordSucceeded(h) \/ SettleSucceeded(h) \/ RecordFailed(h) \/ SettleFailed(h)
  PROVE  StepInv
  <1> USE DEF rowVars
  <1>1. CASE RecordSucceeded(h)
    <2>1. charge[call[h].ref] = "taken"
      BY <1>1 DEF RecordSucceeded, At, IInv, CallConsistent
    <2> QED
      BY <1>1, <2>1, RecordStep DEF RecordSucceeded, At, PC
  <1>2. CASE RecordFailed(h)
    BY <1>2, RecordStep DEF RecordFailed, At, PC
  <1>3. CASE SettleSucceeded(h)
    BY <1>3, SettleStep DEF SettleSucceeded, Acknowledge, BookingStatus
  <1>4. CASE SettleFailed(h)
    BY <1>4, SettleStep DEF SettleFailed, Acknowledge, BookingStatus
  <1> QED
    BY <1>1, <1>2, <1>3, <1>4

\* Cancelling the pending payments of a booking.
LEMMA CancelStep ==
  ASSUME TypeOK, IInv, NEW h \in Handler, CancelPendingPayments(h)
  PROVE  StepInv
  <1> USE DEF CancelPendingPayments, providerVars
  <1>1. /\ call' \in [Handler -> Call] /\ OthersSame(h)
        /\ CallConsistent(h)' /\ OpeningKept(h)
    BY ReturnSet, IdleConsistent
  <1>2. \A q \in Ref : /\ HasPayment(q)' <=> HasPayment(q)
                       /\ \/ payStatus'[q] = payStatus[q]
                          \/ payStatus'[q] = "cancelled" /\ payStatus[q] = "pending"
    BY DEF TypeOK, PendingPayments, HasPayment, PaymentStatus
  <1>3. TypeOK'
    BY <1>1, FaultType DEF TypeOK, PaymentStatus
  <1>4. ChargesConsistent'
    BY <1>2 DEF IInv, ChargesConsistent, HasBooking, HasPayment, PaymentStatus
  <1>5. OutcomesBacked' /\ EventsBacked'
    BY <1>2 DEF IInv, OutcomesBacked, EventsBacked
  <1>6. Preserves(h)
    BY <1>2 DEF Preserves, TypeOK, HasPayment, PaymentStatus
  <1> QED
    BY <1>1, <1>3, <1>4, <1>5, <1>6, Combine DEF RowInv, StepInv

\* Refunds.
LEMMA RefundStep ==
  ASSUME TypeOK, IInv, NEW h \in Handler,
         RefundCharge(h) \/ RefundRejected(h) \/ RecordRefund(h) \/ RefundBooking(h)
  PROVE  StepInv
  <1> USE DEF rowVars, providerVars
  <1>1. CASE RefundCharge(h)
    <2> DEFINE r == call[h].ref
    <2>1. /\ r \in Ref /\ r \in Intent /\ call[h].n > 0 /\ call[h].n \in Nat
          /\ payBooking[r] = call[h].bk /\ call[h].bk \in Booking
          /\ payStatus[r] # "absent" /\ charge[r] = "taken"
          /\ Pence(call[h].n) \in Nat
      BY <1>1, CallFacts, CallType, PenceFacts DEF RefundCharge, Refundable, At, IInv, CallConsistent
    <2>2. \A q \in Ref : /\ q # r => chargeRefunded'[q] = chargeRefunded[q]
                         /\ q = r => chargeRefunded'[q] = chargeRefunded[q] + Pence(call[h].n)
      BY <1>1, <2>1 DEF RefundCharge, TypeOK
    <2>3. chargeRefunded' \in [Ref -> Nat]
      BY <1>1, <2>1 DEF RefundCharge, TypeOK
    <2>4. /\ call' \in [Handler -> Call]
          /\ OthersSame(h)
          /\ \/ call'[h] = Idle
             \/ call'[h] = [pc |-> "recordRefund", ref |-> r, bk |-> call[h].bk, n |-> call[h].n]
      BY <1>1, GotoSet, ReturnSet DEF RefundCharge, PC
    <2>5. TypeOK'
      BY <1>1, <2>3, <2>4, FaultType DEF RefundCharge, TypeOK
    <2>6. ChargesConsistent' /\ EventsBacked'
      BY <1>1 DEF RefundCharge, IInv, ChargesConsistent, EventsBacked, HasPayment, HasBooking
    <2>7. \A q \in Ref : chargeRefunded[q] \in Nat /\ chargeRefunded[q] <= chargeRefunded'[q]
      BY <2>1, <2>2 DEF TypeOK
    <2>8. OutcomesBacked'
      <3>1. \A q \in Ref : /\ Pence(payRefunded[q]) \in Nat /\ chargeRefunded'[q] \in Nat
                           /\ chargeRefunded[q] > 0 \/ chargeRefunded'[q] = chargeRefunded[q] \/ q = r
        BY <2>2, <2>3, PenceFacts DEF TypeOK
      <3> QED
        BY <1>1, <2>1, <2>7, <3>1 DEF RefundCharge, IInv, OutcomesBacked
    <2>9. Preserves(h)
      BY <1>1, <2>7 DEF RefundCharge, Preserves
    <2>10. CallConsistent(h)' /\ OpeningKept(h)
      <3>1. CASE call'[h] = Idle
        BY <3>1, IdleConsistent
      <3>2. CASE call'[h] = [pc |-> "recordRefund", ref |-> r, bk |-> call[h].bk, n |-> call[h].n]
        <4>1. Pence(call[h].n) <= chargeRefunded'[r]
          BY <2>1, <2>2, <2>7
        <4> QED
          BY <1>1, <2>1, <3>2, <4>1 DEF RefundCharge, CallConsistent, OpeningKept, Opening
      <3> QED
        BY <2>4, <3>1, <3>2
    <2> QED
      BY <2>4, <2>5, <2>6, <2>8, <2>9, <2>10, Combine DEF RowInv, StepInv
  <1>2. CASE RefundRejected(h)
    BY <1>2, ReturnStep DEF RefundRejected, RowsAlone, TypeOK
  <1>3. CASE RecordRefund(h)
    <2> DEFINE r == call[h].ref
    <2>1. /\ r \in Ref /\ r \in Intent /\ call[h].n > 0 /\ call[h].n \in Nat
          /\ payBooking[r] = call[h].bk /\ call[h].bk \in Booking
          /\ payStatus[r] # "absent" /\ charge[r] # "none" /\ Pence(call[h].n) <= chargeRefunded[r]
      BY <1>3, CallFacts, CallType DEF RecordRefund, At, IInv, CallConsistent
    <2>2. \A q \in Ref :
            /\ HasPayment(q)' <=> HasPayment(q)
            /\ \/ payStatus'[q] = payStatus[q] /\ payRefunded'[q] = payRefunded[q]
               \/ q = r /\ HasPayment(q) /\ payStatus'[q] = "refunded" /\ payRefunded'[q] = call[h].n
      BY <1>3 DEF RecordRefund, TypeOK, HasPayment, PaymentStatus
    <2>3. /\ call' \in [Handler -> Call]
          /\ OthersSame(h)
          /\ call'[h] = [pc |-> "refundBooking", ref |-> r, bk |-> call[h].bk, n |-> call[h].n]
      BY <1>3, GotoSet DEF RecordRefund, PC
    <2>4. TypeOK'
      BY <1>3, <2>1, <2>3, FaultType DEF RecordRefund, TypeOK, PaymentStatus
    <2>5. ChargesConsistent' /\ EventsBacked'
      BY <1>3, <2>2 DEF RecordRefund, IInv, ChargesConsistent, EventsBacked, HasBooking,
                        HasPayment, PaymentStatus
    <2>7. OutcomesBacked'
      BY <1>3, <2>1, <2>2 DEF RecordRefund, IInv, OutcomesBacked
    <2>8. Preserves(h)
      BY <1>3, <2>2 DEF RecordRefund, Preserves, TypeOK, HasPayment, PaymentStatus
    <2>9. payStatus'[r] # "absent"
      BY <2>1, <2>2
    <2>10. CallConsistent(h)' /\ OpeningKept(h)
      BY <1>3, <2>1, <2>3, <2>9 DEF RecordRefund, CallConsistent, OpeningKept, Opening
    <2> QED
      BY <2>3, <2>4, <2>5, <2>7, <2>8, <2>10, Combine DEF RowInv, StepInv
  <1>4. CASE RefundBooking(h)
    BY <1>4, SettleStep DEF RefundBooking, BookingStatus
  <1> QED
    BY <1>1, <1>2, <1>3, <1>4

\* The steps that no request takes: customers and the office.  They leave every
\* request where it is.
LEMMA OutsideStep ==
  ASSUME TypeOK, TypeOK', IInv, RowInv', UNCHANGED call, \A h \in Handler : Preserves(h),
         \A r \in Ref : payStatus[r] = "absent" <=> payStatus'[r] = "absent"
  PROVE  IInv'
  <1>1. ASSUME NEW g \in Handler PROVE CallConsistent(g)'
    <2> DEFINE c == call[g]
    <2>1. CallConsistent(g) /\ Preserves(g)
      BY DEF IInv
    <2>2. c.ref \in Ref => chargeRefunded[c.ref] \in Nat /\ chargeRefunded'[c.ref] \in Nat
      BY DEF TypeOK
    <2>3. c.n \in Nat /\ Pence(c.n) \in Nat
      BY CallType, PenceFacts
    <2> QED
      BY <2>1, <2>2, <2>3 DEF CallConsistent, Preserves
  <1>2. OpeningsDisjoint'
    BY DEF IInv, OpeningsDisjoint
  <1> QED
    BY <1>1, <1>2 DEF IInv, RowInv

LEMMA CustomerStep ==
  ASSUME TypeOK, IInv, NEW r \in Ref, Pay(r) \/ Decline(r) \/ Approve(r)
  PROVE  StepInv
  <1> USE DEF rowVars, providerVars, Pay, Decline, Approve
  <1>1. TypeOK'
    BY DEF TypeOK, Event, Ref
  <1>2. r \in issued /\ charge[r] = "open" /\ payStatus[r] # "absent"
    BY DEF IInv, ChargesConsistent
  <1>3. \A q \in Ref : \/ charge'[q] = charge[q]
                       \/ /\ q = r /\ charge[q] = "open" /\ charge'[q] \in {"approved", "taken"}
                          /\ charge'[q] = "approved" => q \in Order
    BY DEF TypeOK
  <1>4. ChargesConsistent'
    BY <1>2, <1>3 DEF IInv, ChargesConsistent, HasPayment, HasBooking
  <1>5. OutcomesBacked'
    BY <1>3 DEF IInv, OutcomesBacked, HasPayment
  <1>6. EventsBacked'
    <2>1. \A e \in events : e.ref \in Ref
      BY DEF TypeOK, Event, Ref
    <2>2. \A e \in events : e.type = "succeeded" => charge'[e.ref] = "taken"
      BY <1>3, <2>1 DEF IInv, EventsBacked
    <2>3. CASE Pay(r)
      <3>1. charge'[r] = "taken"
        BY <2>3 DEF TypeOK
      <3> QED
        BY <2>2, <2>3, <3>1, <1>2 DEF IInv, EventsBacked
    <2>4. CASE Decline(r) \/ Approve(r)
      BY <2>2, <2>4, <1>2 DEF IInv, EventsBacked
    <2> QED
      BY <2>3, <2>4
  <1>7. \A h \in Handler : Preserves(h)
    BY <1>3 DEF Preserves, TypeOK
  <1> QED
    BY <1>1, <1>4, <1>5, <1>6, <1>7, OutsideStep DEF RowInv, StepInv

LEMMA OfficeStep ==
  ASSUME TypeOK, IInv, NEW b \in Booking,
         DeleteBooking(b) \/ \E s \in ManualStatuses : UpdateBookingStatus(b, s)
  PROVE  StepInv
  <1> USE DEF rowVars, providerVars
  <1>1. ASSUME NEW s \in ManualStatuses, UpdateBookingStatus(b, s)
        PROVE  StepInv
    <2>1. TypeOK' /\ RowsAlone
      BY <1>1, ManualAssumption DEF UpdateBookingStatus, BookingWith, RowsAlone, TypeOK, BookingStatus
    <2>2. \A h \in Handler : RowInv' /\ Preserves(h)
      BY <2>1, RowsKept
    <2>3. RowInv'
      <3>1. \A r \in Ref : charge[r] # "none" => (HasBooking(payBooking[r]) <=> HasBooking(payBooking[r])')
        BY <2>1, ChargeHasBooking DEF RowsAlone, HasBooking
      <3>2. ChargesConsistent'
        BY <3>1, <1>1 DEF UpdateBookingStatus, IInv, ChargesConsistent, HasPayment, PaymentStatus
      <3> QED
        BY <3>2, <1>1 DEF UpdateBookingStatus, IInv, RowInv, OutcomesBacked, EventsBacked, HasPayment
    <2> QED
      BY <1>1, <2>1, <2>2, <2>3, OutsideStep DEF UpdateBookingStatus, StepInv
  <1>2. CASE DeleteBooking(b)
    <2>1. TypeOK'
      BY <1>2 DEF DeleteBooking, TypeOK
    <2>2. \A q \in Ref :
            \/ payStatus'[q] = payStatus[q] /\ ~(payBooking[q] = b /\ HasPayment(q))
            \/ payStatus'[q] = "deleted" /\ payBooking[q] = b /\ HasPayment(q)
      BY <1>2 DEF DeleteBooking
    <2>3. \A c \in Booking : /\ c = b => ~HasBooking(c)'
                             /\ c # b => (HasBooking(c)' <=> HasBooking(c))
      BY <1>2 DEF DeleteBooking, HasBooking, TypeOK
    <2>4. ChargesConsistent'
      <3> SUFFICES ASSUME NEW q \in Ref
                   PROVE  /\ charge'[q] = "none" <=> payBooking'[q] = NoBooking
                          /\ charge'[q] = "none" => payStatus'[q] = "absent"
                          /\ HasPayment(q)' => HasBooking(payBooking[q])'
                          /\ payStatus'[q] = "deleted" => ~HasBooking(payBooking[q])'
                          /\ q \in issued' => payStatus'[q] # "absent"
                          /\ charge'[q] \in {"approved", "taken"} => q \in issued'
                          /\ charge'[q] = "approved" => q \in Order
        BY DEF ChargesConsistent, HasBooking
      <3>1. payStatus[q] # "absent" => payBooking[q] \in Booking
        BY ChargeHasBooking DEF IInv, ChargesConsistent
      <3>2. HasPayment(q) => payStatus[q] # "absent"
        BY DEF HasPayment, PaymentStatus
      <3>3. HasPayment(q)' => HasPayment(q) /\ payBooking[q] # b
        BY <2>2 DEF HasPayment, PaymentStatus
      <3>4. HasPayment(q)' => HasBooking(payBooking[q])'
        BY <2>3, <3>1, <3>2, <3>3, <1>2 DEF DeleteBooking, IInv, ChargesConsistent, HasBooking
      <3>5. payStatus'[q] = "deleted" => ~HasBooking(payBooking[q])'
        BY <2>2, <2>3, <3>1, <1>2 DEF DeleteBooking, IInv, ChargesConsistent, HasBooking
      <3> QED
        BY <1>2, <2>2, <3>2, <3>4, <3>5 DEF DeleteBooking, IInv, ChargesConsistent
    <2>5. OutcomesBacked' /\ EventsBacked'
      BY <1>2, <2>2 DEF DeleteBooking, IInv, OutcomesBacked, EventsBacked
    <2>7. \A r \in Ref : payStatus[r] = "absent" <=> payStatus'[r] = "absent"
      BY <2>2 DEF HasPayment, PaymentStatus
    <2>8. \A h \in Handler : Preserves(h)
      BY <1>2, <2>7 DEF DeleteBooking, Preserves, TypeOK
    <2> QED
      BY <1>2, <2>1, <2>4, <2>5, <2>7, <2>8, OutsideStep DEF DeleteBooking, RowInv, StepInv
  <1> QED
    BY <1>1, <1>2

-----------------------------------------------------------------------------
(* Theorems. *)

LEMMA InitInv == Init => TypeOK /\ IInv
  <1> SUFFICES ASSUME Init PROVE TypeOK /\ IInv
    OBVIOUS
  <1> USE DEF Init
  <1>1. TypeOK
    BY FaultsAssumption DEF TypeOK, BookingStatus, Call, Idle, PC
  <1>2. \A h \in Handler : CallConsistent(h) /\ call[h].pc \notin Opening
    BY DEF CallConsistent, Idle, Opening
  <1>3. PaymentRows = {}
    BY DEF PaymentRows, HasPayment, PaymentStatus
  <1>4. ChargesConsistent /\ OutcomesBacked /\ EventsBacked
    BY PenceFacts DEF ChargesConsistent, OutcomesBacked, EventsBacked, HasPayment, PaymentStatus
  <1> QED
    BY <1>1, <1>2, <1>3, <1>4 DEF IInv, OpeningsDisjoint

LEMMA NextInv == TypeOK /\ IInv /\ [Next]_vars => TypeOK' /\ IInv'
  <1> SUFFICES ASSUME TypeOK, IInv, [Next]_vars PROVE StepInv
    BY DEF StepInv
  <1>1. CASE UNCHANGED vars
    <2>1. TypeOK'
      BY <1>1 DEF TypeOK, vars, rowVars, providerVars
    <2>2. \A h \in Handler : CallConsistent(h)'
      BY <1>1 DEF IInv, CallConsistent, vars, rowVars, providerVars
    <2>3. ChargesConsistent' /\ OutcomesBacked' /\ EventsBacked'
      BY <1>1 DEF IInv, ChargesConsistent, OutcomesBacked, EventsBacked, HasPayment, HasBooking,
                  vars, rowVars, providerVars
    <2>4. OpeningsDisjoint'
      BY <1>1 DEF IInv, OpeningsDisjoint, HasPayment,
                  vars, rowVars, providerVars
    <2> QED
      BY <2>1, <2>2, <2>3, <2>4 DEF IInv, StepInv
  <1>2. ASSUME NEW h \in Handler, Arrive(h) PROVE StepInv
    BY <1>2, ArriveStep
  <1>3. ASSUME NEW h \in Handler, Step(h) PROVE StepInv
    BY <1>3, OpenStep, CaptureStep, CancelStep, WebhookStep, RefundStep DEF Step
  <1>4. ASSUME NEW h \in Handler, Abandon(h) PROVE StepInv
    BY <1>4, ReturnStep, FaultType DEF Abandon, RowsAlone, TypeOK, rowVars, providerVars
  <1>5. CASE Customer
    BY <1>5, CustomerStep DEF Customer
  <1>6. CASE Office
    BY <1>6, OfficeStep DEF Office
  <1> QED
    BY <1>1, <1>2, <1>3, <1>4, <1>5, <1>6 DEF Next

\* The inductive invariant: what the tables, the providers and the requests
\* under way know of each other is consistent in every reachable state.
THEOREM Invariance == Spec => [](TypeOK /\ IInv)
  BY InitInv, NextInv, PTL DEF Spec

\* Every variable of BookingPayments keeps its type, whatever interleaves.
THEOREM TypeCorrect == Spec => []TypeOK
  BY Invariance, PTL

\* No payment row claims a success the provider does not know of.
THEOREM SucceededIsPaidHolds == Spec => []SucceededIsPaid
  <1>1. TypeOK /\ IInv => SucceededIsPaid
    BY DEF IInv, OutcomesBacked, SucceededIsPaid
  <1> QED
    BY <1>1, Invariance, PTL

\* Money a provider took is on record, or was deleted together with its booking.
THEOREM PaidIsOnRecordHolds == Spec => []PaidIsOnRecord
  <1>1. TypeOK /\ IInv => PaidIsOnRecord
    BY DEF TypeOK, IInv, ChargesConsistent, PaidIsOnRecord, HasPayment
  <1> QED
    BY <1>1, Invariance, PTL

\* No row says more was refunded than Stripe returned, but for the penny lost in the
\* conversion of the amount.
THEOREM RefundNeverOverstatedHolds == Spec => []RefundNeverOverstated
  <1>1. TypeOK /\ IInv => RefundNeverOverstated
    <2> SUFFICES ASSUME TypeOK, IInv, NEW r \in Ref
                 PROVE  /\ Pence(payRefunded[r]) <= chargeRefunded[r]
                        /\ payStatus[r] = "refunded" => chargeRefunded[r] > 0
      BY DEF RefundNeverOverstated, PaymentRows
    <2>1. payRefunded[r] \in Nat /\ chargeRefunded[r] \in Nat
      BY DEF TypeOK
    <2> QED
      BY <2>1, PenceFacts DEF IInv, OutcomesBacked
  <1> QED
    BY <1>1, Invariance, PTL

-----------------------------------------------------------------------------
(* The status of a booking. *)

\* A write of a booking's status by a request changes that booking or none.
LEMMA OneBookingWritten ==
  ASSUME TypeOK, NEW a \in Booking, NEW b \in Booking, NEW s, TrySetBooking(a, s),
         booking'[b] # booking[b]
  PROVE  b = a /\ booking'[b] = s /\ HasBooking(b)
  BY DEF TypeOK, TrySetBooking, BookingWith, HasBooking

\* The statements of a request that write a status, and what they write.
Writes(h, s) ==
  \/ At(h, "setPending") /\ s = "pending_payment"
  \/ (At(h, "confirmBooking") \/ At(h, "settleSucceeded")) /\ s = "confirmed"
  \/ At(h, "refundBooking") /\ s = "refunded"
  \/ (At(h, "failBooking") \/ At(h, "settleFailed")) /\ s = "failed"

\* A status a request writes is earned by the payment the request is about.
LEMMA EarnedByWrite ==
  ASSUME TypeOK, IInv, NEW b \in Booking, NEW h \in Handler, NEW s,
         Writes(h, s), TrySetBooking(call[h].bk, s)
  PROVE  \/ booking'[b] = booking[b]
         \/ booking'[b] = "failed"
         \/ Earned(b, booking'[b])
  <1> DEFINE r == call[h].ref
  <1>1. /\ r \in Ref /\ charge[r] # "none" /\ call[h].bk \in Booking /\ payBooking[r] = call[h].bk
    BY CallFacts DEF At, Writes
  <1>2. SUFFICES ASSUME booking'[b] # booking[b], s # "failed"
                 PROVE  Earned(b, booking'[b])
    BY <1>1, OneBookingWritten
  <1>3. b = call[h].bk /\ booking'[b] = s /\ HasBooking(b)
    BY <1>1, <1>2, OneBookingWritten
  <1>4. s = "pending_payment" => HasPayment(r)
    BY <1>1, <1>3 DEF Writes, At, IInv, CallConsistent, ChargesConsistent, HasPayment, TypeOK
  <1>5. s = "confirmed" => charge[r] = "taken"
    BY DEF Writes, At, IInv, CallConsistent
  <1>6. s = "refunded" => chargeRefunded[r] > 0
    <2>1. call[h].n \in Nat /\ chargeRefunded[r] \in Nat
      BY <1>1, CallType DEF TypeOK
    <2> QED
      BY <2>1, PenceFacts DEF Writes, At, IInv, CallConsistent
  <1> QED
    BY <1>1, <1>3, <1>4, <1>5, <1>6 DEF Earned

\* The status the payment service writes is earned by a payment of the booking.
LEMMA EarnedStep ==
  ASSUME TypeOK, IInv, [Next]_vars, NEW b \in Booking
  PROVE  \/ booking'[b] = booking[b]
         \/ booking'[b] \in {"cancelled", "failed", "deleted"}
         \/ \E s \in ManualStatuses : UpdateBookingStatus(b, s)
         \/ Earned(b, booking'[b])
  <1> DEFINE Goal == \/ booking'[b] = booking[b]
                     \/ booking'[b] \in {"cancelled", "failed", "deleted"}
                     \/ \E s \in ManualStatuses : UpdateBookingStatus(b, s)
                     \/ Earned(b, booking'[b])
  <1> SUFFICES Goal
    OBVIOUS
  <1>1. CASE UNCHANGED booking
    BY <1>1
  <1>2. ASSUME NEW h \in Handler, Step(h) PROVE Goal
    <2>1. CASE SetPendingPayment(h)
      BY <2>1, EarnedByWrite DEF SetPendingPayment, Writes
    <2>2. CASE ConfirmBooking(h) \/ SettleSucceeded(h)
      BY <2>2, EarnedByWrite DEF ConfirmBooking, SettleSucceeded, Writes
    <2>3. CASE FailBooking(h) \/ SettleFailed(h)
      BY <2>3, EarnedByWrite DEF FailBooking, SettleFailed, Writes
    <2>4. CASE RefundBooking(h)
      BY <2>4, EarnedByWrite DEF RefundBooking, Writes
    <2>5. CASE UNCHANGED booking
      BY <1>1, <2>5
    <2> QED
      BY <1>2, <2>1, <2>2, <2>3, <2>4, <2>5
      DEF Step, CreateStripeIntent, CreateProviderOrder, NewCharge, ProviderRefuses,
          GetNextPaymentNumber, InsertPayment, InsertRejected, CaptureOrder,
          CaptureRejected, RecordCapture, RecordCaptureFailure, CancelPendingPayments,
          RecordSucceeded, RecordFailed, RefundCharge, RefundRejected, RecordRefund
  <1>3. ASSUME NEW h \in Handler, Arrive(h) PROVE Goal
    <2>1. ASSUME NEW c \in Booking, CancelBooking(h, c) PROVE Goal
      BY <2>1 DEF CancelBooking, BookingWith, TypeOK
    <2> QED
      BY <1>1, <1>3, <2>1 DEF Arrive, BeginIntent, BeginOrder, BeginPayment, BeginCapture,
                              BeginRefund, DeliverEvent
  <1>4. ASSUME NEW c \in Booking,
               DeleteBooking(c) \/ \E s \in ManualStatuses : UpdateBookingStatus(c, s)
        PROVE  Goal
    <2>1. CASE c = b
      BY <1>4, <2>1 DEF DeleteBooking, TypeOK
    <2>2. CASE c # b
      BY <1>4, <2>2 DEF DeleteBooking, UpdateBookingStatus, BookingWith, TypeOK
    <2> QED
      BY <2>1, <2>2
  <1>5. CASE Customer
    BY <1>1, <1>5 DEF Customer, Pay, Decline, Approve
  <1>6. ASSUME NEW h \in Handler, Abandon(h) PROVE Goal
    BY <1>1, <1>6 DEF Abandon
  <1> QED
    BY <1>1, <1>2, <1>3, <1>4, <1>5, <1>6 DEF Next, Office, vars

\* A booking becomes pending_payment, confirmed or refunded through the payment
\* service only on the strength of a payment of its own.
THEOREM BookingStatusEarnedHolds == Spec => BookingStatusEarned
  <1>1. TypeOK /\ IInv /\ [Next]_vars =>
          [\A b \in Booking :
             \/ booking'[b] = booking[b]
             \/ booking'[b] \in {"cancelled", "failed", "deleted"}
             \/ \E s \in ManualStatuses : UpdateBookingStatus(b, s)
             \/ Earned(b, booking'[b])]_vars
    BY EarnedStep
  <1> QED
    BY <1>1, Invariance, PTL DEF Spec, BookingStatusEarned

-----------------------------------------------------------------------------
(* Money is not forgotten. The inductive invariant is MoneyInv, with IInv. A   *)
(* step of h is quiet when it leaves no more money outstanding, takes back no  *)
(* event of money that is, and neither writes a capture nor starts to settle.  *)

\* As long as this holds, no statement of the webhook has failed.
WebhookIntact == faults = 0 \/ "db" \notin FaultKinds

MoneyEvent(r) == [type |-> "succeeded", ref |-> r]

FaultsGrow == faults' = faults \/ faults' = faults + 1

LEMMA FaultsBefore ==
  ASSUME TypeOK, FaultsGrow
  PROVE  (faults' = 0 => faults = 0) /\ (WebhookIntact' => WebhookIntact)
  BY DEF TypeOK, FaultsGrow, WebhookIntact

\* Without a fault so far, and without one of the database, this step is not one.
LEMMA NotFaulty ==
  ASSUME TypeOK, NEW k, Fault(k)
  PROVE  faults' # 0 /\ FaultsGrow /\ (k = "db" => ~WebhookIntact')
  BY DEF TypeOK, FaultsGrow, WebhookIntact, Fault

CallQuiet(h) ==
  /\ OthersSame(h)
  /\ call[h].pc # "recordCapture" \/ faults' # 0
  /\ call'[h].pc # "settleSucceeded"

LEMMA MoneyQuiet ==
  ASSUME TypeOK, IInv, IInv', MoneyInv, NEW h \in Handler, FaultsGrow, CallQuiet(h),
         \A r \in Ref : Outstanding(r)' => Outstanding(r),
         WebhookIntact' => \A r \in Intent :
           Outstanding(r)' /\ MoneyEvent(r) \in events => MoneyEvent(r) \in events'
  PROVE  MoneyInv'
  <1>1. WebhookIntact' => \A r \in Intent : Outstanding(r)' => MoneyEvent(r) \in events'
    BY FaultsBefore DEF MoneyInv, TakenIsRecorded, WebhookIntact, MoneyEvent, Ref
  <1>2. ASSUME faults' = 0, NEW r \in Order, Outstanding(r)'
        PROVE  \E g \in Handler : At(g, "recordCapture")' /\ call'[g].ref = r
    <2>1. PICK g \in Handler : At(g, "recordCapture") /\ call[g].ref = r
      BY <1>2, FaultsBefore DEF MoneyInv, TakenIsRecorded, Ref
    <2>2. g # h
      BY <1>2, <2>1 DEF CallQuiet, At
    <2> QED
      BY <2>1, <2>2 DEF CallQuiet, OthersSame, At
  <1>3. ASSUME WebhookIntact', NEW g \in Handler, At(g, "settleSucceeded")'
        PROVE  payStatus'[call'[g].ref] \notin {"pending", "cancelled"}
    <2>1. call'[g] = call[g] /\ At(g, "settleSucceeded")
      BY <1>3 DEF CallQuiet, OthersSame, At
    <2>2. call[g].ref \in Ref /\ charge'[call[g].ref] = "taken"
      BY <1>3, <2>1 DEF At, IInv, CallConsistent
    <2>3. ~Outstanding(call[g].ref)
      BY <1>3, <2>1, FaultsBefore DEF MoneyInv, WebhookIntact, Outstanding
    <2> QED
      BY <2>1, <2>2, <2>3 DEF Outstanding
  <1> QED
    BY <1>1, <1>2, <1>3 DEF MoneyInv, TakenIsRecorded, WebhookIntact, MoneyEvent

\* A step after which h stands at p, or has returned.
LEMMA MovesTo ==
  ASSUME TypeOK, NEW h \in Handler, NEW p, Goto(h, p) \/ Return(h)
  PROVE  OthersSame(h) /\ call'[h].pc \in {p, "idle"}
  BY DEF TypeOK, Goto, Return, Call, Idle, OthersSame

\* A write of the rows that leaves only rows outstanding that were so before.
RowsDone == \A r \in Ref : payStatus'[r] \in {"pending", "cancelled"} =>
                             payStatus[r] \in {"pending", "cancelled"}

LEMMA MoneyOpen ==
  ASSUME TypeOK, IInv, IInv', MoneyInv, NEW h \in Handler,
         CreateStripeIntent(h) \/ CreateProviderOrder(h) \/ ProviderRefuses(h)
         \/ GetNextPaymentNumber(h) \/ InsertPayment(h) \/ InsertRejected(h) \/ SetPendingPayment(h)
  PROVE  MoneyInv'
  <1> USE DEF rowVars, providerVars
  <1>1. ASSUME NEW r \in Ref, NewCharge(h, r), At(h, "newIntent") \/ At(h, "newOrder")
        PROVE  MoneyInv'
    <2>1. FaultsGrow
      BY <1>1, NotFaulty DEF NewCharge, FaultsGrow
    <2>2. CallQuiet(h)
      BY <1>1 DEF NewCharge, CallQuiet, At, Return, Idle, TypeOK, Call, OthersSame
    <2>3. \A q \in Ref : Outstanding(q)' => Outstanding(q)
      BY <1>1 DEF NewCharge, Outstanding, TypeOK
    <2> QED
      BY <1>1, <2>1, <2>2, <2>3, MoneyQuiet DEF NewCharge
  <1>2. CASE ProviderRefuses(h) \/ GetNextPaymentNumber(h) \/ InsertRejected(h) \/ SetPendingPayment(h)
    <2>1. FaultsGrow
      BY <1>2, NotFaulty DEF ProviderRefuses, GetNextPaymentNumber, InsertRejected, SetPendingPayment,
                             TrySetBooking, FaultsGrow
    <2>2. CallQuiet(h)
      BY <1>2 DEF ProviderRefuses, GetNextPaymentNumber, InsertRejected, SetPendingPayment,
                  CallQuiet, At, Return, Idle, TypeOK, Call, OthersSame
    <2>3. payStatus' = payStatus /\ charge' = charge /\ events' = events
      BY <1>2 DEF ProviderRefuses, GetNextPaymentNumber, InsertRejected, SetPendingPayment
    <2> QED
      BY <2>1, <2>2, <2>3, MoneyQuiet DEF Outstanding
  <1>3. CASE InsertPayment(h)
    <2>1. call[h].ref \in Ref /\ payStatus[call[h].ref] = "absent"
      BY <1>3, CallFacts DEF InsertPayment, At, IInv, CallConsistent
    <2>2. charge[call[h].ref] # "taken"
      BY <2>1 DEF IInv, ChargesConsistent
    <2>3. \A q \in Ref : Outstanding(q)' => Outstanding(q)
      BY <1>3, <2>1, <2>2 DEF InsertPayment, Outstanding, TypeOK
    <2>4. CallQuiet(h) /\ FaultsGrow
      BY <1>3, MovesTo DEF InsertPayment, CallQuiet, At, FaultsGrow
    <2> QED
      BY <1>3, <2>3, <2>4, MoneyQuiet DEF InsertPayment
  <1> QED
    BY <1>1, <1>2, <1>3 DEF CreateStripeIntent, CreateProviderOrder, Ref

LEMMA MoneyCapture ==
  ASSUME TypeOK, IInv, IInv', MoneyInv, NEW h \in Handler,
         CaptureOrder(h) \/ CaptureRejected(h) \/ RecordCapture(h) \/ ConfirmBooking(h)
         \/ RecordCaptureFailure(h) \/ FailBooking(h)
  PROVE  MoneyInv'
  <1> USE DEF rowVars, providerVars
  <1> DEFINE r == call[h].ref
  <1>1. CASE CaptureOrder(h)
    <2>1. r \in Order /\ r \notin Intent /\ r \in Ref
      BY <1>1, CallFacts, RefsAssumption DEF CaptureOrder, At, IInv, CallConsistent, ChargesConsistent, Ref
    <2>2. /\ FaultsGrow /\ OthersSame(h)
          /\ (call'[h].pc = "recordCapture" /\ call'[h].ref = r) \/ faults' # 0
          /\ call'[h].pc # "settleSucceeded"
      BY <1>1, NotFaulty DEF CaptureOrder, Goto, Return, Idle, TypeOK, Call, OthersSame, FaultsGrow
    <2>3. \A q \in Ref : q # r /\ Outstanding(q)' => Outstanding(q)
      BY <1>1 DEF CaptureOrder, Outstanding, TypeOK
    <2>4. WebhookIntact' => \A q \in Intent : Outstanding(q)' => MoneyEvent(q) \in events'
      BY <1>1, <2>1, <2>2, <2>3, FaultsBefore
      DEF CaptureOrder, MoneyInv, TakenIsRecorded, WebhookIntact, MoneyEvent, Ref
    <2>5. ASSUME faults' = 0, NEW q \in Order, Outstanding(q)'
          PROVE  \E g \in Handler : At(g, "recordCapture")' /\ call'[g].ref = q
      <3>1. CASE q = r
        BY <2>2, <2>5, <3>1 DEF At
      <3>2. CASE q # r
        <4>1. PICK g \in Handler : At(g, "recordCapture") /\ call[g].ref = q
          BY <2>2, <2>3, <2>5, <3>2, FaultsBefore DEF MoneyInv, TakenIsRecorded, Ref
        <4>2. g # h
          BY <3>2, <4>1
        <4> QED
          BY <2>2, <4>1, <4>2 DEF OthersSame, At
      <3> QED
        BY <3>1, <3>2
    <2>6. ASSUME WebhookIntact', NEW g \in Handler, At(g, "settleSucceeded")'
          PROVE  payStatus'[call'[g].ref] \notin {"pending", "cancelled"}
      <3>1. call'[g] = call[g] /\ At(g, "settleSucceeded")
        BY <2>2, <2>6 DEF OthersSame, At
      <3> QED
        BY <1>1, <2>2, <2>6, <3>1, FaultsBefore DEF CaptureOrder, MoneyInv, WebhookIntact
    <2> QED
      BY <2>4, <2>5, <2>6 DEF MoneyInv, TakenIsRecorded, WebhookIntact, MoneyEvent
  <1>2. CASE CaptureRejected(h) \/ ConfirmBooking(h) \/ FailBooking(h)
    <2>1. FaultsGrow
      BY <1>2, NotFaulty DEF CaptureRejected, ConfirmBooking, FailBooking, TrySetBooking, FaultsGrow
    <2>2. CallQuiet(h)
      BY <1>2, MovesTo DEF CaptureRejected, ConfirmBooking, FailBooking, CallQuiet, At
    <2>3. payStatus' = payStatus /\ charge' = charge /\ events' = events
      BY <1>2 DEF CaptureRejected, ConfirmBooking, FailBooking
    <2> QED
      BY <2>1, <2>2, <2>3, MoneyQuiet DEF Outstanding
  <1>3. CASE RecordCaptureFailure(h)
    <2>1. FaultsGrow /\ RowsDone
      BY <1>3, NotFaulty DEF RecordCaptureFailure, TrySetPayment, FaultsGrow, RowsDone, TypeOK
    <2>2. CallQuiet(h)
      BY <1>3, MovesTo DEF RecordCaptureFailure, CallQuiet, At
    <2>3. \A q \in Ref : Outstanding(q)' => Outstanding(q)
      BY <1>3, <2>1 DEF RecordCaptureFailure, RowsDone, Outstanding
    <2> QED
      BY <1>3, <2>1, <2>2, <2>3, MoneyQuiet DEF RecordCaptureFailure
  <1>4. CASE RecordCapture(h)
    <2>1. /\ FaultsGrow /\ RowsDone /\ OthersSame(h) /\ call'[h].pc # "settleSucceeded"
          /\ faults' = 0 => payStatus'[r] \notin {"pending", "cancelled"}
      <3>1. r \in Ref
        BY <1>4, CallFacts DEF RecordCapture, At, IInv, CallConsistent
      <3>2. TrySetPayment(r, "succeeded") => FaultsGrow /\ RowsDone
        BY NotFaulty DEF TrySetPayment, FaultsGrow, RowsDone, TypeOK
      <3>3. TrySetPayment(r, "succeeded") /\ faults' = 0 => payStatus'[r] \notin {"pending", "cancelled"}
        BY <3>1, NotFaulty DEF TrySetPayment, TypeOK, HasPayment, PaymentStatus
      <3> QED
        BY <1>4, <3>2, <3>3, MovesTo DEF RecordCapture
    <2>2. \A q \in Ref : Outstanding(q)' => Outstanding(q)
      BY <1>4, <2>1 DEF RecordCapture, RowsDone, Outstanding
    <2>3. WebhookIntact' => \A q \in Intent : Outstanding(q)' => MoneyEvent(q) \in events'
      BY <1>4, <2>1, <2>2, FaultsBefore
      DEF RecordCapture, MoneyInv, TakenIsRecorded, WebhookIntact, MoneyEvent, Ref
    <2>4. ASSUME faults' = 0, NEW q \in Order, Outstanding(q)'
          PROVE  \E g \in Handler : At(g, "recordCapture")' /\ call'[g].ref = q
      <3>1. PICK g \in Handler : At(g, "recordCapture") /\ call[g].ref = q
        BY <2>1, <2>2, <2>4, FaultsBefore DEF MoneyInv, TakenIsRecorded, Ref
      <3>2. g # h
        BY <2>1, <2>4, <3>1 DEF Outstanding
      <3> QED
        BY <2>1, <3>1, <3>2 DEF OthersSame, At
    <2>5. ASSUME WebhookIntact', NEW g \in Handler, At(g, "settleSucceeded")'
          PROVE  payStatus'[call'[g].ref] \notin {"pending", "cancelled"}
      <3>1. call'[g] = call[g] /\ At(g, "settleSucceeded") /\ call[g].ref \in Ref
        BY <2>1, <2>5 DEF OthersSame, At, IInv, CallConsistent
      <3> QED
        BY <2>1, <2>5, <3>1, FaultsBefore DEF RowsDone, MoneyInv, WebhookIntact
    <2> QED
      BY <2>3, <2>4, <2>5 DEF MoneyInv, TakenIsRecorded, WebhookIntact, MoneyEvent
  <1> QED
    BY <1>1, <1>2, <1>3, <1>4

LEMMA MoneyWebhook ==
  ASSUME TypeOK, IInv, IInv', MoneyInv, NEW h \in Handler,
         RecordSucceeded(h) \/ SettleSucceeded(h) \/ RecordFailed(h) \/ SettleFailed(h)
  PROVE  MoneyInv'
  <1> USE DEF rowVars, providerVars
  <1> DEFINE r == call[h].ref
  <1>1. CASE RecordSucceeded(h)
    <2>1. r \in Ref /\ payStatus[r] # "absent"
      BY <1>1, CallFacts DEF RecordSucceeded, At, IInv, CallConsistent
    <2>2. TrySetPayment(r, "succeeded") =>
            /\ FaultsGrow /\ RowsDone
            /\ WebhookIntact' => payStatus'[r] \notin {"pending", "cancelled"}
      <3>1. TrySetPayment(r, "succeeded") => FaultsGrow /\ RowsDone
        BY NotFaulty DEF TrySetPayment, FaultsGrow, RowsDone, TypeOK
      <3>2. TrySetPayment(r, "succeeded") /\ WebhookIntact' => payStatus'[r] \notin {"pending", "cancelled"}
        BY <2>1, NotFaulty DEF TrySetPayment, TypeOK, HasPayment, PaymentStatus
      <3> QED
        BY <3>1, <3>2
    <2>3. OthersSame(h) /\ call'[h].ref = r /\ call[h].pc = "recordSucceeded"
      BY <1>1 DEF RecordSucceeded, Goto, OthersSame, At, TypeOK, Call
    <2>4. \A q \in Ref : Outstanding(q)' => Outstanding(q)
      BY <1>1, <2>2 DEF RecordSucceeded, RowsDone, Outstanding
    <2>5. WebhookIntact' => \A q \in Intent : Outstanding(q)' => MoneyEvent(q) \in events'
      BY <1>1, <2>2, <2>4, FaultsBefore
      DEF RecordSucceeded, MoneyInv, TakenIsRecorded, WebhookIntact, MoneyEvent, Ref
    <2>6. ASSUME faults' = 0, NEW q \in Order, Outstanding(q)'
          PROVE  \E g \in Handler : At(g, "recordCapture")' /\ call'[g].ref = q
      <3>1. PICK g \in Handler : At(g, "recordCapture") /\ call[g].ref = q
        BY <1>1, <2>2, <2>4, <2>6, FaultsBefore DEF RecordSucceeded, MoneyInv, TakenIsRecorded, Ref
      <3>2. g # h
        BY <2>3, <3>1 DEF At
      <3> QED
        BY <2>3, <3>1, <3>2 DEF OthersSame, At
    <2>7. ASSUME WebhookIntact', NEW g \in Handler, At(g, "settleSucceeded")'
          PROVE  payStatus'[call'[g].ref] \notin {"pending", "cancelled"}
      <3>1. CASE g = h
        BY <1>1, <2>2, <2>3, <2>7, <3>1 DEF RecordSucceeded
      <3>2. CASE g # h
        <4>1. call'[g] = call[g] /\ At(g, "settleSucceeded") /\ call[g].ref \in Ref
          BY <2>3, <2>7, <3>2 DEF OthersSame, At, IInv, CallConsistent
        <4> QED
          BY <1>1, <2>2, <2>7, <4>1, FaultsBefore DEF RecordSucceeded, RowsDone, MoneyInv, WebhookIntact
      <3> QED
        BY <3>1, <3>2
    <2> QED
      BY <2>5, <2>6, <2>7 DEF MoneyInv, TakenIsRecorded, WebhookIntact, MoneyEvent
  <1>2. CASE SettleSucceeded(h)
    <2>1. FaultsGrow
      BY <1>2, NotFaulty DEF SettleSucceeded, TrySetBooking, FaultsGrow
    <2>2. CallQuiet(h)
      BY <1>2, MovesTo DEF SettleSucceeded, CallQuiet, At
    <2>3. \A q \in Ref : Outstanding(q)' => Outstanding(q)
      BY <1>2 DEF SettleSucceeded, Outstanding
    <2>4. WebhookIntact' => ~Outstanding(r)
      BY <1>2, <2>1, FaultsBefore DEF SettleSucceeded, MoneyInv, WebhookIntact, Outstanding
    <2>5. \A q : q # r /\ MoneyEvent(q) \in events => MoneyEvent(q) \in events'
      BY <1>2 DEF SettleSucceeded, Acknowledge, MoneyEvent
    <2> QED
      BY <2>1, <2>2, <2>3, <2>4, <2>5, MoneyQuiet DEF Ref
  <1>3. CASE RecordFailed(h)
    <2>1. FaultsGrow /\ RowsDone
      BY <1>3, NotFaulty DEF RecordFailed, TrySetPayment, FaultsGrow, RowsDone, TypeOK
    <2>2. CallQuiet(h)
      BY <1>3, MovesTo DEF RecordFailed, CallQuiet, At
    <2>3. \A q \in Ref : Outstanding(q)' => Outstanding(q)
      BY <1>3, <2>1 DEF RecordFailed, RowsDone, Outstanding
    <2> QED
      BY <1>3, <2>1, <2>2, <2>3, MoneyQuiet DEF RecordFailed
  <1>4. CASE SettleFailed(h)
    <2>1. FaultsGrow
      BY <1>4, NotFaulty DEF SettleFailed, TrySetBooking, FaultsGrow
    <2>2. CallQuiet(h)
      BY <1>4, MovesTo DEF SettleFailed, CallQuiet, At
    <2>3. \A q \in Ref : Outstanding(q)' => Outstanding(q)
      BY <1>4 DEF SettleFailed, Outstanding
    <2>4. \A q : MoneyEvent(q) \in events => MoneyEvent(q) \in events'
      BY <1>4 DEF SettleFailed, Acknowledge, MoneyEvent
    <2> QED
      BY <2>1, <2>2, <2>3, <2>4, MoneyQuiet
  <1> QED
    BY <1>1, <1>2, <1>3, <1>4

LEMMA MoneyRefund ==
  ASSUME TypeOK, IInv, IInv', MoneyInv, NEW h \in Handler,
         RefundCharge(h) \/ RefundRejected(h) \/ RecordRefund(h) \/ RefundBooking(h)
         \/ CancelPendingPayments(h)
  PROVE  MoneyInv'
  <1> USE DEF rowVars, providerVars
  <1>1. CASE RefundCharge(h) \/ RefundRejected(h) \/ RefundBooking(h)
    <2>1. FaultsGrow
      BY <1>1, NotFaulty DEF RefundCharge, RefundRejected, RefundBooking, TrySetBooking, FaultsGrow
    <2>2. CallQuiet(h)
      BY <1>1, MovesTo DEF RefundCharge, RefundRejected, RefundBooking, CallQuiet, At
    <2>3. payStatus' = payStatus /\ charge' = charge /\ events' = events
      BY <1>1 DEF RefundCharge, RefundRejected, RefundBooking
    <2> QED
      BY <2>1, <2>2, <2>3, MoneyQuiet DEF Outstanding
  <1>2. CASE RecordRefund(h) \/ CancelPendingPayments(h)
    <2>1. FaultsGrow
      BY <1>2, NotFaulty DEF RecordRefund, CancelPendingPayments, FaultsGrow
    <2>2. RowsDone
      BY <1>2 DEF RecordRefund, CancelPendingPayments, PendingPayments, RowsDone, TypeOK
    <2>3. CallQuiet(h)
      BY <1>2, MovesTo DEF RecordRefund, CancelPendingPayments, CallQuiet, At
    <2>4. charge' = charge /\ events' = events
      BY <1>2 DEF RecordRefund, CancelPendingPayments
    <2> QED
      BY <2>1, <2>2, <2>3, <2>4, MoneyQuiet DEF RowsDone, Outstanding
  <1> QED
    BY <1>1, <1>2

\* A request arrives: only a webhook that answers at once takes back an event.
LEMMA MoneyArrive ==
  ASSUME TypeOK, IInv, IInv', MoneyInv, NEW h \in Handler, Arrive(h)
  PROVE  MoneyInv'
  <1> USE DEF rowVars, providerVars
  <1>1. ASSUME CallQuiet(h), UNCHANGED <<payStatus, charge, events, faults>>
        PROVE  MoneyInv'
    BY <1>1, MoneyQuiet DEF Outstanding, FaultsGrow
  <1>2. ASSUME NEW b \in Booking, BeginIntent(h, b) \/ BeginOrder(h, b) \/ CancelBooking(h, b)
        PROVE  MoneyInv'
    <2>1. CallQuiet(h)
      BY <1>2 DEF BeginIntent, BeginOrder, BeginPayment, CancelBooking, CallQuiet, At, OthersSame, TypeOK
    <2> QED
      BY <1>1, <1>2, <2>1 DEF BeginIntent, BeginOrder, BeginPayment, CancelBooking
  <1>3. ASSUME NEW r \in Ref, BeginCapture(h, r) \/ \E a \in RefundAmounts : BeginRefund(h, r, a)
        PROVE  MoneyInv'
    <2>1. CallQuiet(h)
      BY <1>3 DEF BeginCapture, BeginRefund, CallQuiet, At, OthersSame, TypeOK
    <2> QED
      BY <1>1, <1>3, <2>1 DEF BeginCapture, BeginRefund
  <1>4. ASSUME NEW e \in events, DeliverEvent(h, e) PROVE MoneyInv'
    <2>1. FaultsGrow
      BY <1>4, NotFaulty DEF DeliverEvent, FaultsGrow
    <2>2. CallQuiet(h)
      BY <1>4 DEF DeliverEvent, CallQuiet, At, OthersSame, TypeOK
    <2>3. \A q \in Ref : Outstanding(q)' => Outstanding(q)
      BY <1>4 DEF DeliverEvent, Outstanding
    <2>4. ASSUME WebhookIntact', NEW q \in Intent, Outstanding(q)', MoneyEvent(q) \in events
          PROVE  MoneyEvent(q) \in events'
      <3>1. HasPayment(q)
        BY <2>3, <2>4 DEF Outstanding, HasPayment, PaymentStatus, Ref
      <3>2. events' = events \/ (events' = events \ {e} /\ ~HasPayment(e.ref))
        BY <1>4, <2>4, NotFaulty DEF DeliverEvent
      <3>3. e = MoneyEvent(q) => e.ref = q
        BY DEF MoneyEvent
      <3> QED
        BY <2>4, <3>1, <3>2, <3>3
    <2> QED
      BY <2>1, <2>2, <2>3, <2>4, MoneyQuiet
  <1> QED
    BY <1>2, <1>3, <1>4 DEF Arrive

\* Steps that leave every request where it is.
LEMMA MoneyOutside ==
  ASSUME TypeOK, IInv, IInv', MoneyInv, UNCHANGED <<call, faults>>,
         \A r \in Ref : /\ r \in Order => (Outstanding(r)' => Outstanding(r))
                        /\ payStatus'[r] \in {"pending", "cancelled"} => payStatus[r] \in {"pending", "cancelled"},
         \A r \in Intent : Outstanding(r)' => MoneyEvent(r) \in events' \/ Outstanding(r),
         events \subseteq events'
  PROVE  MoneyInv'
  <1>1. WebhookIntact' <=> WebhookIntact
    BY DEF WebhookIntact
  <1>2. WebhookIntact' => \A q \in Intent : Outstanding(q)' => MoneyEvent(q) \in events'
    BY <1>1 DEF MoneyInv, TakenIsRecorded, WebhookIntact, MoneyEvent
  <1>3. ASSUME faults' = 0, NEW q \in Order, Outstanding(q)'
        PROVE  \E g \in Handler : At(g, "recordCapture")' /\ call'[g].ref = q
    BY <1>3 DEF MoneyInv, TakenIsRecorded, At, Ref
  <1>4. ASSUME WebhookIntact', NEW g \in Handler, At(g, "settleSucceeded")'
        PROVE  payStatus'[call'[g].ref] \notin {"pending", "cancelled"}
    <2>1. call'[g] = call[g] /\ At(g, "settleSucceeded") /\ call[g].ref \in Ref
      BY <1>4 DEF At, IInv, CallConsistent
    <2> QED
      BY <1>1, <1>4, <2>1 DEF MoneyInv, WebhookIntact
  <1> QED
    BY <1>2, <1>3, <1>4 DEF MoneyInv, TakenIsRecorded, WebhookIntact, MoneyEvent

LEMMA MoneyElsewhere ==
  ASSUME TypeOK, IInv, IInv', MoneyInv, Customer \/ Office
  PROVE  MoneyInv'
  <1> USE DEF rowVars, providerVars
  <1>1. ASSUME NEW r \in Ref, Pay(r) \/ Decline(r) \/ Approve(r) PROVE MoneyInv'
    <2>1. \A q \in Ref : Outstanding(q)' => Outstanding(q) \/ (Pay(r) /\ q = r)
      BY <1>1 DEF Pay, Decline, Approve, Outstanding, TypeOK
    <2>2. Pay(r) => r \in Intent /\ r \notin Order /\ MoneyEvent(r) \in events'
      BY RefsAssumption DEF Pay, MoneyEvent
    <2>3. events \subseteq events' /\ UNCHANGED <<call, faults, payStatus>>
      BY <1>1 DEF Pay, Decline, Approve
    <2> QED
      BY <2>1, <2>2, <2>3, MoneyOutside DEF Ref
  <1>2. ASSUME NEW b \in Booking, DeleteBooking(b) \/ \E s \in ManualStatuses : UpdateBookingStatus(b, s)
        PROVE  MoneyInv'
    <2>1. RowsDone
      BY <1>2 DEF DeleteBooking, UpdateBookingStatus, RowsDone
    <2>2. UNCHANGED <<charge, events, call, faults>>
      BY <1>2 DEF DeleteBooking, UpdateBookingStatus
    <2>3. \A q \in Ref : Outstanding(q)' => Outstanding(q)
      BY <2>1, <2>2 DEF RowsDone, Outstanding
    <2> QED
      BY <2>1, <2>2, <2>3, MoneyOutside DEF RowsDone, Ref
  <1> QED
    BY <1>1, <1>2 DEF Customer, Office

LEMMA MoneyNext ==
  ASSUME TypeOK, IInv, IInv', MoneyInv, [Next]_vars
  PROVE  MoneyInv'
  <1>1. CASE UNCHANGED vars
    BY <1>1, MoneyOutside DEF vars, rowVars, providerVars, Outstanding, Ref
  <1>2. ASSUME NEW h \in Handler, Step(h) PROVE MoneyInv'
    BY <1>2, MoneyOpen, MoneyCapture, MoneyWebhook, MoneyRefund DEF Step
  <1>3. ASSUME NEW h \in Handler, Abandon(h) PROVE MoneyInv'
    <2>1. faults' # 0 /\ FaultsGrow
      BY <1>3, NotFaulty DEF Abandon
    <2>2. CallQuiet(h)
      BY <1>3, <2>1, MovesTo DEF Abandon, CallQuiet
    <2>3. payStatus' = payStatus /\ charge' = charge /\ events' = events
      BY <1>3 DEF Abandon, rowVars, providerVars
    <2> QED
      BY <2>1, <2>2, <2>3, MoneyQuiet DEF Outstanding
  <1> QED
    BY <1>1, <1>2, <1>3, MoneyArrive, MoneyElsewhere DEF Next

\* As long as the row of a card payment does not show the money taken, Stripe still
\* has the event to deliver; a captured order has its handler.
THEOREM TakenIsRecordedHolds == Spec => []TakenIsRecorded
  <1>1. Init => MoneyInv
    BY DEF Init, MoneyInv, TakenIsRecorded, Outstanding, At, Idle, Ref
  <1>2. TypeOK /\ IInv /\ IInv' /\ MoneyInv /\ [Next]_vars => MoneyInv'
    BY MoneyNext
  <1>3. MoneyInv => TakenIsRecorded
    BY DEF MoneyInv
  <1> QED
    BY <1>1, <1>2, <1>3, Invariance, PTL DEF Spec

-----------------------------------------------------------------------------
(* Bookings and payment rows tell the same story, between requests.  The     *)
(* inductive invariant is TablesInv; a step concerns one booking, and leaves *)
(* the rows of the other bookings as they are (Elsewhere).                   *)

Elsewhere(b) ==
  /\ \A c \in Booking \ {b} : booking'[c] = booking[c]
  /\ \A r \in Ref : payBooking[r] \in Booking \ {b} =>
       payStatus'[r] = payStatus[r] /\ payBooking'[r] = payBooking[r]

\* A request that is under way has a booking, and the row it works on is of it.
LEMMA RequestHas ==
  ASSUME IInv, NEW h \in Handler, ~At(h, "idle")
  PROVE  /\ call[h].bk \in Booking /\ RequestFor(h, call[h].bk)
         /\ ~(At(h, "newIntent") \/ At(h, "newOrder") \/ At(h, "cancelPayments")) =>
              /\ call[h].ref \in Ref /\ payBooking[call[h].ref] = call[h].bk
              /\ payStatus[call[h].ref] = "absent" <=> (At(h, "readNumber") \/ At(h, "insertPayment"))
  BY DEF IInv, CallConsistent, At, RequestFor

\* Only the request for b, if there is one, can have something to make good on b.
LEMMA AgreesNow ==
  ASSUME TablesInv, RequestsApart, NEW h \in Handler, NEW b \in Booking,
         RequestFor(h, b), call[h].pc \notin Settling
  PROVE  Agrees(b)
  BY DEF TablesInv, RequestsApart

LEMMA AgreesOnArrival ==
  ASSUME TablesInv, RequestsApart', NEW h \in Handler, NEW b \in Booking,
         OthersSame(h), At(h, "idle"), RequestFor(h, b)'
  PROVE  Agrees(b)
  <1> SUFFICES ASSUME NEW g \in Handler, RequestFor(g, b) PROVE FALSE
    BY DEF TablesInv
  <1>1. g # h
    BY DEF RequestFor
  <1>2. RequestFor(g, b)'
    BY <1>1 DEF RequestFor, At, OthersSame
  <1>3. QED
    BY <1>1, <1>2 DEF RequestsApart

\* The other bookings, and the requests for them, are as they were.
LEMMA AgreesElsewhere ==
  ASSUME NEW b, NEW c \in Booking \ {b}, Elsewhere(b), Agrees(c)
  PROVE  Agrees(c)'
  <1>1. \A s : PaymentSays(c, s) => PaymentSays(c, s)'
    BY DEF PaymentSays, Elsewhere
  <1>2. booking'[c] = booking[c]
    BY DEF Elsewhere
  <1>3. QED
    BY <1>1, <1>2 DEF Agrees

LEMMA OthersHalfDone ==
  ASSUME TypeOK, IInv, TablesInv, NEW g \in Handler, NEW b \in Booking,
         call'[g] = call[g], Elsewhere(b), ~RequestFor(g, b)
  PROVE  HalfDone(g)'
  <1>1. HalfDone(g)
    BY DEF TablesInv
  <1>2. CASE At(g, "idle") \/ At(g, "newIntent") \/ At(g, "newOrder")
    BY <1>2 DEF HalfDone, At
  <1>3. CASE At(g, "cancelPayments")
    <2>1. call[g].bk \in Booking \ {b}
      BY <1>3, RequestHas DEF At, RequestFor
    <2>2. booking'[call[g].bk] = booking[call[g].bk]
      BY <2>1 DEF Elsewhere
    <2>3. QED
      BY <1>1, <1>3, <2>2 DEF HalfDone, At
  <1>4. CASE ~(At(g, "idle") \/ At(g, "newIntent") \/ At(g, "newOrder") \/ At(g, "cancelPayments"))
    <2>1. call[g].ref \in Ref /\ payBooking[call[g].ref] \in Booking \ {b}
      BY <1>4, RequestHas DEF RequestFor
    <2>2. payStatus'[call[g].ref] = payStatus[call[g].ref]
      BY <2>1 DEF Elsewhere
    <2>3. QED
      BY <1>1, <1>4, <2>2 DEF HalfDone, RowSays, At
  <1>5. QED
    BY <1>2, <1>3, <1>4

\* A step of the request h for b.
LEMMA TablesStep ==
  ASSUME TypeOK, IInv, TablesInv, RequestsApart, RequestsApart',
         NEW h \in Handler, NEW b \in Booking, OthersSame(h), Elsewhere(b),
         At(h, "idle") \/ RequestFor(h, b), At(h, "idle")' \/ RequestFor(h, b)',
         ~(At(h, "idle") /\ At(h, "idle")'),
         HalfDone(h)', Agrees(b)' \/ (RequestFor(h, b)' /\ call'[h].pc \in Settling)
  PROVE  TablesInv'
  <1>1. \A g \in Handler \ {h} : ~RequestFor(g, b)
    <2> SUFFICES ASSUME NEW g \in Handler \ {h}, RequestFor(g, b) PROVE FALSE
      OBVIOUS
    <2>1. RequestFor(g, b)'
      BY DEF RequestFor, At, OthersSame
    <2>2. QED
      BY <2>1 DEF RequestsApart
  <1>2. \A g \in Handler : HalfDone(g)'
    BY <1>1, OthersHalfDone DEF OthersSame
  <1>3. ASSUME NEW c \in Booking
        PROVE  (Agrees(c) \/ \E g \in Handler : RequestFor(g, c) /\ call[g].pc \in Settling)'
    <2>1. CASE c = b
      BY <2>1
    <2>2. CASE c # b /\ Agrees(c)
      BY <2>2, AgreesElsewhere
    <2>3. CASE c # b /\ \E g \in Handler : RequestFor(g, c) /\ call[g].pc \in Settling
      <3>1. PICK g \in Handler : RequestFor(g, c) /\ call[g].pc \in Settling
        BY <2>3
      <3>2. g # h
        BY <2>3, <3>1 DEF RequestFor
      <3>3. QED
        BY <3>1, <3>2 DEF RequestFor, At, OthersSame
    <2>4. QED
      BY <2>1, <2>2, <2>3 DEF TablesInv
  <1>4. QED
    BY <1>2, <1>3 DEF TablesInv

-----------------------------------------------------------------------------
(* The statements, by what they write. *)

HasToMakeGood == Settling \cup {"setPending", "cancelPayments"}

LEMMA NothingToMakeGood ==
  ASSUME NEW h \in Handler, call[h].pc \notin HasToMakeGood
  PROVE  HalfDone(h)
  BY DEF HalfDone, HasToMakeGood, Settling, At

\* No row of a booking is written, and nothing is promised.
NothingWritten ==
  /\ booking' = booking
  /\ \A r \in Ref : payStatus'[r] = payStatus[r]
                    /\ (payBooking[r] \in Booking => payBooking'[r] = payBooking[r])

LEMMA QuietStep ==
  ASSUME TypeOK, IInv, TablesInv, RequestsApart, RequestsApart', NEW h \in Handler, NEW b \in Booking,
         OthersSame(h), NothingWritten,
         At(h, "idle") \/ RequestFor(h, b), At(h, "idle")' \/ RequestFor(h, b)',
         ~(At(h, "idle") /\ At(h, "idle")'),
         call[h].pc \notin Settling, call'[h].pc \notin HasToMakeGood
  PROVE  TablesInv'
  <1>1. Agrees(b)
    BY AgreesNow, AgreesOnArrival
  <1>2. \A s : PaymentSays(b, s) => PaymentSays(b, s)'
    BY DEF PaymentSays, NothingWritten
  <1>3. Agrees(b)'
    BY <1>1, <1>2 DEF Agrees, NothingWritten
  <1>4. Elsewhere(b)
    BY DEF Elsewhere, NothingWritten
  <1>5. HalfDone(h)'
    BY DEF HalfDone, HasToMakeGood, Settling, At
  <1>6. QED
    BY <1>3, <1>4, <1>5, TablesStep

\* A request writes its payment row and has then to write the booking.
LEMMA RowStep ==
  ASSUME TypeOK, IInv, TablesInv, RequestsApart, RequestsApart',
         NEW h \in Handler, NEW p, NEW s, NEW b, b = call[h].bk, NEW r, r = call[h].ref,
         ~At(h, "idle"), ~At(h, "newIntent"), ~At(h, "newOrder"), ~At(h, "cancelPayments"),
         ~At(h, "readNumber"), ~At(h, "insertPayment"),
         OthersSame(h), call'[h].pc = p, call'[h].ref = r, call'[h].bk = b,
         booking' = booking, payBooking' = payBooking,
         payStatus' = [payStatus EXCEPT ![r] = IF HasPayment(r) THEN s ELSE @],
         \/ p \in {"confirmBooking", "settleSucceeded"} /\ s = "succeeded"
         \/ p \in {"failBooking", "settleFailed"} /\ s = "failed"
         \/ p = "refundBooking" /\ s = "refunded"
  PROVE  TablesInv'
  <1>1. b \in Booking /\ RequestFor(h, b) /\ r \in Ref /\ payBooking[r] = b /\ payStatus[r] # "absent"
    BY RequestHas DEF At
  <1>2. RequestFor(h, b)' /\ ~At(h, "idle")' /\ call'[h].pc \in Settling
    BY DEF RequestFor, At, Settling
  <1>3. payStatus'[r] \in {s, "deleted"}
    BY <1>1 DEF TypeOK, HasPayment
  <1>4. HalfDone(h)'
    BY <1>3 DEF HalfDone, RowSays, At
  <1>5. Elsewhere(b)
    BY <1>1 DEF Elsewhere, TypeOK
  <1>6. QED
    BY <1>1, <1>2, <1>4, <1>5, TablesStep

\* A request writes the status of its booking and returns.
LEMMA BookingStep ==
  ASSUME TypeOK, IInv, TablesInv, RequestsApart, RequestsApart',
         NEW h \in Handler, NEW s, NEW t, NEW b, b = call[h].bk, NEW r, r = call[h].ref,
         ~At(h, "idle"), ~At(h, "newIntent"), ~At(h, "newOrder"), ~At(h, "cancelPayments"),
         OthersSame(h), call'[h].pc = "idle",
         booking' = BookingWith(b, s), payBooking' = payBooking, payStatus' = payStatus,
         RowSays(h, t),
         \/ s = "pending_payment" /\ t = "pending"
         \/ s = "confirmed" /\ t = "succeeded"
         \/ s = t /\ s \in {"failed", "refunded"}
  PROVE  TablesInv'
  <1>1. b \in Booking /\ RequestFor(h, b) /\ r \in Ref /\ payBooking[r] = b
    BY RequestHas
  <1>2. booking'[b] = IF booking[b] = "deleted" THEN "deleted" ELSE s
    BY <1>1 DEF TypeOK, BookingWith
  <1>3. HasBooking(b) => payStatus[r] = t
    BY <1>1 DEF RowSays, IInv, ChargesConsistent
  <1>4. HasBooking(b) => PaymentSays(b, t)'
    BY <1>1, <1>3 DEF PaymentSays
  <1>5. Agrees(b)'
    BY <1>2, <1>4 DEF Agrees, HasBooking
  <1>6. Elsewhere(b)
    BY <1>1 DEF Elsewhere, TypeOK, BookingWith
  <1>7. HalfDone(h)' /\ At(h, "idle")'
    BY DEF HalfDone, At
  <1>8. QED
    BY <1>1, <1>5, <1>6, <1>7, TablesStep

-----------------------------------------------------------------------------
(* Every action. *)

LEMMA NoFaults ==
  ASSUME StatementsExecuted
  PROVE  ~Fault("db") /\ ~Fault("crash")
  BY DEF StatementsExecuted, Fault

LEMMA WritesSucceed ==
  ASSUME StatementsExecuted, NEW b, NEW s
  PROVE  /\ TrySetBooking(b, s) => booking' = BookingWith(b, s)
         /\ TrySetPayment(b, s) =>
              payStatus' = [payStatus EXCEPT ![b] = IF HasPayment(b) THEN s ELSE @]
  BY NoFaults DEF TrySetBooking, TrySetPayment

LEMMA TablesArrive ==
  ASSUME TypeOK, IInv, TablesInv, RequestsApart, RequestsApart', StatementsExecuted,
         NEW h \in Handler, Arrive(h)
  PROVE  TablesInv'
  <1> NoRef \in Ref \cup {NoRef}
    OBVIOUS
  <1>1. ASSUME NEW b \in Booking, BeginIntent(h, b) \/ BeginOrder(h, b) PROVE TablesInv'
    <2>1. ASSUME NEW p \in {"newIntent", "newOrder"}, BeginPayment(h, b, p) PROVE TablesInv'
      <3>1. /\ OthersSame(h)
            /\ call'[h] = [pc |-> p, ref |-> NoRef, bk |-> b, n |-> 0]
        BY <2>1, CallSet DEF BeginPayment, PC
      <3>2. /\ At(h, "idle") /\ RequestFor(h, b)' /\ ~At(h, "idle")'
            /\ call[h].pc \notin Settling /\ call'[h].pc \notin HasToMakeGood
        BY <2>1, <3>1 DEF BeginPayment, At, RequestFor, Settling, HasToMakeGood
      <3>3. NothingWritten
        BY <2>1 DEF BeginPayment, rowVars, NothingWritten
      <3>4. QED
        BY <3>1, <3>2, <3>3, QuietStep
    <2>2. QED
      BY <1>1, <2>1 DEF BeginIntent, BeginOrder
  <1>2. ASSUME NEW b \in Booking, CancelBooking(h, b) PROVE TablesInv'
    <2>1. /\ OthersSame(h)
          /\ call'[h] = [pc |-> "cancelPayments", ref |-> NoRef, bk |-> b, n |-> 0]
      BY <1>2, CallSet DEF CancelBooking, PC
    <2>2. At(h, "idle") /\ RequestFor(h, b)' /\ ~At(h, "idle")'
      BY <1>2, <2>1 DEF CancelBooking, At, RequestFor
    <2>3. booking'[b] \notin StatusWithRow
      BY <1>2 DEF CancelBooking, BookingWith, TypeOK, StatusWithRow
    <2>4. Agrees(b)'
      BY <2>3 DEF Agrees, StatusWithRow
    <2>5. HalfDone(h)'
      BY <2>1, <2>3 DEF HalfDone, At
    <2>6. Elsewhere(b)
      BY <1>2 DEF CancelBooking, BookingWith, TypeOK, Elsewhere, rowVars
    <2>7. QED
      BY <2>1, <2>2, <2>4, <2>5, <2>6, TablesStep
  <1>3. ASSUME NEW r \in Ref, HasPayment(r), At(h, "idle"),
               NEW p \in {"capture", "refund", "recordSucceeded", "recordFailed"}, NEW n \in Nat,
               call' = [call EXCEPT ![h] = [pc |-> p, ref |-> r, bk |-> payBooking[r], n |-> n]],
               booking' = booking, payStatus' = payStatus, payBooking' = payBooking
        PROVE  TablesInv'
    <2>1. payBooking[r] \in Booking
      BY <1>3, ChargeHasBooking DEF IInv, ChargesConsistent, HasPayment, PaymentStatus
    <2>2. PICK b \in Booking : b = payBooking[r]
      BY <2>1
    <2>3. /\ OthersSame(h)
          /\ call'[h] = [pc |-> p, ref |-> r, bk |-> b, n |-> n]
      BY <1>3, <2>2, CallSet DEF PC
    <2>4. /\ RequestFor(h, b)' /\ ~At(h, "idle")'
          /\ call[h].pc \notin Settling /\ call'[h].pc \notin HasToMakeGood
      BY <1>3, <2>3 DEF At, RequestFor, Settling, HasToMakeGood
    <2>5. NothingWritten
      BY <1>3 DEF NothingWritten
    <2>6. QED
      BY <1>3, <2>3, <2>4, <2>5, QuietStep
  <1>4. ASSUME NEW r \in Ref, BeginCapture(h, r) PROVE TablesInv'
    BY <1>3, <1>4 DEF BeginCapture, rowVars
  <1>5. ASSUME NEW r \in Ref, NEW a \in RefundAmounts, BeginRefund(h, r, a) PROVE TablesInv'
    <2>1. (IF a = 0 THEN Amount ELSE a) \in Nat
      BY AmountsAssumption DEF AmountsAssumption
    <2>2. QED
      BY <1>3, <1>5, <2>1 DEF BeginRefund, rowVars
  <1>6. ASSUME NEW e \in events, DeliverEvent(h, e) PROVE TablesInv'
    <2>1. e.ref \in Ref
      BY DEF TypeOK, Event, Ref
    <2>2. booking' = booking /\ payStatus' = payStatus /\ payBooking' = payBooking
      BY <1>6 DEF DeliverEvent, rowVars
    <2>3. CASE UNCHANGED call
      BY <2>2, <2>3 DEF TablesInv, Agrees, PaymentSays, RequestFor, HalfDone, RowSays, At
    <2>4. CASE HasPayment(e.ref) /\ ~UNCHANGED call
      <3>1. PICK p \in {"recordSucceeded", "recordFailed"} :
              call' = [call EXCEPT ![h] = [pc |-> p, ref |-> e.ref, bk |-> payBooking[e.ref], n |-> 0]]
        BY <1>6, <2>4 DEF DeliverEvent
      <3>2. At(h, "idle") /\ 0 \in Nat
        BY <1>6 DEF DeliverEvent
      <3>3. QED
        BY <1>3, <2>1, <2>2, <2>4, <3>1, <3>2
    <2>5. QED
      BY <1>6, <2>3, <2>4 DEF DeliverEvent
  <1>7. QED
    BY <1>1, <1>2, <1>4, <1>5, <1>6 DEF Arrive

\* A request ends, or goes on, without having written a row.
GoesOn(h) ==
  /\ OthersSame(h)
  /\ call'[h] = Idle \/ (call'[h].bk = call[h].bk /\ call'[h].pc \notin HasToMakeGood)

LEMMA TablesGoOn ==
  ASSUME TypeOK, IInv, TablesInv, RequestsApart, RequestsApart', NEW h \in Handler,
         ~At(h, "idle"), call[h].pc \notin Settling, NothingWritten, GoesOn(h)
  PROVE  TablesInv'
  <1>1. PICK b \in Booking : b = call[h].bk
    BY RequestHas
  <1>2. RequestFor(h, b)
    BY <1>1 DEF RequestFor
  <1>3. (At(h, "idle") \/ RequestFor(h, b))' /\ call'[h].pc \notin HasToMakeGood
    BY <1>1 DEF GoesOn, Idle, At, RequestFor, HasToMakeGood, Settling
  <1>4. QED
    BY <1>2, <1>3, QuietStep DEF GoesOn

LEMMA GoesOnThere ==
  ASSUME TypeOK, NEW h \in Handler, Return(h) \/ \E p \in PC \ HasToMakeGood : Goto(h, p)
  PROVE  GoesOn(h)
  <1>1. CASE Return(h)
    BY <1>1, ReturnSet DEF GoesOn
  <1>2. ASSUME NEW p \in PC \ HasToMakeGood, Goto(h, p) PROVE GoesOn(h)
    <2>1. /\ OthersSame(h)
          /\ call'[h] = [pc |-> p, ref |-> call[h].ref, bk |-> call[h].bk, n |-> call[h].n]
      BY <1>2, GotoSet
    <2>2. call'[h].pc = p /\ call'[h].bk = call[h].bk
      BY <2>1
    <2>3. QED
      BY <1>2, <2>1, <2>2 DEF GoesOn
  <1>3. QED
    BY <1>1, <1>2

LEMMA TablesOpen ==
  ASSUME TypeOK, IInv, TablesInv, RequestsApart, RequestsApart', StatementsExecuted, NEW h \in Handler,
         \/ CreateStripeIntent(h) \/ CreateProviderOrder(h) \/ ProviderRefuses(h)
         \/ GetNextPaymentNumber(h) \/ InsertPayment(h) \/ InsertRejected(h)
         \/ SetPendingPayment(h)
  PROVE  TablesInv'
  <1> USE DEF rowVars
  <1>1. CASE CreateStripeIntent(h) \/ CreateProviderOrder(h)
    <2>1. PICK r \in Ref : NewCharge(h, r)
      BY <1>1 DEF CreateStripeIntent, CreateProviderOrder, Ref
    <2>2. payBooking[r] = NoBooking
      BY <2>1 DEF NewCharge, IInv, ChargesConsistent
    <2>3. NothingWritten
      BY <2>1, <2>2, RefsAssumption DEF NewCharge, NothingWritten, TypeOK, RefsAssumption
    <2>4. GoesOn(h)
      <3>1. CASE Return(h)
        BY <3>1, GoesOnThere
      <3>2. CASE call' = [call EXCEPT ![h].pc = "readNumber", ![h].ref = r]
        <4>1. call[h] \in Call
          BY CallType
        <4>2. call'[h].pc = "readNumber" /\ call'[h].bk = call[h].bk
          BY <3>2, <4>1 DEF TypeOK, Call
        <4>3. OthersSame(h)
          BY <3>2 DEF TypeOK, OthersSame
        <4>4. QED
          BY <4>2, <4>3 DEF GoesOn, HasToMakeGood, Settling
      <3>3. QED
        BY <2>1, <3>1, <3>2 DEF NewCharge
    <2>5. ~At(h, "idle") /\ call[h].pc \notin Settling
      BY <1>1 DEF CreateStripeIntent, CreateProviderOrder, At, Settling
    <2>6. QED
      BY <2>3, <2>4, <2>5, TablesGoOn
  <1>2. CASE ProviderRefuses(h) \/ InsertRejected(h)
    <2>1. ~At(h, "idle") /\ call[h].pc \notin Settling
      BY <1>2 DEF ProviderRefuses, InsertRejected, At, Settling
    <2>2. NothingWritten
      BY <1>2 DEF ProviderRefuses, InsertRejected, NothingWritten
    <2>3. GoesOn(h)
      BY <1>2, GoesOnThere DEF ProviderRefuses, InsertRejected
    <2>4. QED
      BY <2>1, <2>2, <2>3, TablesGoOn
  <1>3. CASE GetNextPaymentNumber(h)
    <2>1. ~At(h, "idle") /\ call[h].pc \notin Settling
      BY <1>3 DEF GetNextPaymentNumber, At, Settling
    <2>2. NothingWritten
      BY <1>3 DEF GetNextPaymentNumber, NothingWritten
    <2>3. GoesOn(h)
      <3>1. PICK m : call' = [call EXCEPT ![h].pc = "insertPayment", ![h].n = m]
        BY <1>3 DEF GetNextPaymentNumber
      <3>2. call[h] \in Call
        BY CallType
      <3>3. call'[h].pc = "insertPayment" /\ call'[h].bk = call[h].bk
        BY <3>1, <3>2 DEF TypeOK, Call
      <3>4. OthersSame(h)
        BY <3>1 DEF TypeOK, OthersSame
      <3>5. QED
        BY <3>3, <3>4 DEF GoesOn, HasToMakeGood, Settling
    <2>4. QED
      BY <2>1, <2>2, <2>3, TablesGoOn
  <1>4. CASE InsertPayment(h)
    <2>1. PICK b \in Booking, r \in Ref : b = call[h].bk /\ r = call[h].ref
      BY <1>4, RequestHas DEF InsertPayment, At
    <2>2. RequestFor(h, b) /\ payBooking[r] = b /\ payStatus[r] = "absent"
      BY <1>4, <2>1, RequestHas DEF InsertPayment, At
    <2>3. OthersSame(h) /\ call'[h].pc = "setPending" /\ call'[h].ref = r /\ call'[h].bk = b
      <3>1. /\ OthersSame(h)
            /\ call'[h] = [pc |-> "setPending", ref |-> call[h].ref, bk |-> call[h].bk, n |-> call[h].n]
        BY <1>4, GotoSet DEF InsertPayment, PC
      <3>2. QED
        BY <2>1, <3>1
    <2>4. Agrees(b)
      BY <1>4, <2>2, AgreesNow DEF InsertPayment, At, Settling
    <2>5. payStatus' = [payStatus EXCEPT ![r] = "pending"] /\ booking' = booking /\ payBooking' = payBooking
      BY <1>4, <2>1 DEF InsertPayment
    <2>6. \A s : s # "absent" /\ PaymentSays(b, s) => PaymentSays(b, s)'
      BY <2>2, <2>5 DEF PaymentSays, TypeOK
    <2>7. Agrees(b)'
      BY <2>4, <2>5, <2>6 DEF Agrees
    <2>8. HalfDone(h)'
      BY <2>3, <2>5 DEF HalfDone, RowSays, At, TypeOK
    <2>9. Elsewhere(b)
      BY <2>2, <2>5 DEF Elsewhere, TypeOK
    <2>10. RequestFor(h, b)' /\ ~At(h, "idle")'
      BY <2>3 DEF RequestFor, At
    <2>11. QED
      BY <2>2, <2>3, <2>7, <2>8, <2>9, <2>10, TablesStep
  <1>5. CASE SetPendingPayment(h)
    <2>1. RowSays(h, "pending")
      BY <1>5 DEF SetPendingPayment, TablesInv, HalfDone
    <2>2. OthersSame(h) /\ call'[h].pc = "idle"
      BY <1>5, ReturnSet DEF SetPendingPayment, Idle
    <2>3. booking' = BookingWith(call[h].bk, "pending_payment")
      BY <1>5, WritesSucceed DEF SetPendingPayment
    <2>4. QED
      BY <1>5, <2>1, <2>2, <2>3, BookingStep DEF SetPendingPayment, At
  <1>6. QED
    BY <1>1, <1>2, <1>3, <1>4, <1>5

LEMMA TablesCapture ==
  ASSUME TypeOK, IInv, TablesInv, RequestsApart, RequestsApart', StatementsExecuted, NEW h \in Handler,
         \/ CaptureOrder(h) \/ CaptureRejected(h) \/ RecordCapture(h) \/ ConfirmBooking(h)
         \/ RecordCaptureFailure(h) \/ FailBooking(h)
  PROVE  TablesInv'
  <1> USE DEF rowVars
  <1>1. CASE CaptureOrder(h) \/ CaptureRejected(h)
    <2>1. ~At(h, "idle") /\ call[h].pc \notin Settling
      BY <1>1 DEF CaptureOrder, CaptureRejected, At, Settling
    <2>2. NothingWritten
      BY <1>1 DEF CaptureOrder, CaptureRejected, NothingWritten
    <2>3. {"recordCapture", "recordFailure"} \subseteq PC \ HasToMakeGood
      BY DEF PC, HasToMakeGood, Settling
    <2>4. GoesOn(h)
      BY <1>1, <2>3, GoesOnThere DEF CaptureOrder, CaptureRejected
    <2>5. QED
      BY <2>1, <2>2, <2>4, TablesGoOn
  <1>2. CASE RecordCapture(h)
    <2>1. /\ OthersSame(h)
          /\ call'[h] = [pc |-> "confirmBooking", ref |-> call[h].ref, bk |-> call[h].bk, n |-> call[h].n]
      BY <1>2, GotoSet DEF RecordCapture, PC
    <2>2. payStatus' = [payStatus EXCEPT ![call[h].ref] = IF HasPayment(call[h].ref) THEN "succeeded" ELSE @]
      BY <1>2, WritesSucceed DEF RecordCapture
    <2>3. call'[h].pc = "confirmBooking" /\ call'[h].ref = call[h].ref /\ call'[h].bk = call[h].bk
      BY <2>1
    <2>4. QED
      BY <1>2, <2>1, <2>2, <2>3, RowStep DEF RecordCapture, At
  <1>3. CASE RecordCaptureFailure(h)
    <2>1. /\ OthersSame(h)
          /\ call'[h] = [pc |-> "failBooking", ref |-> call[h].ref, bk |-> call[h].bk, n |-> call[h].n]
      BY <1>3, GotoSet DEF RecordCaptureFailure, PC
    <2>2. payStatus' = [payStatus EXCEPT ![call[h].ref] = IF HasPayment(call[h].ref) THEN "failed" ELSE @]
      BY <1>3, WritesSucceed DEF RecordCaptureFailure
    <2>3. call'[h].pc = "failBooking" /\ call'[h].ref = call[h].ref /\ call'[h].bk = call[h].bk
      BY <2>1
    <2>4. QED
      BY <1>3, <2>1, <2>2, <2>3, RowStep DEF RecordCaptureFailure, At
  <1>4. CASE ConfirmBooking(h)
    <2>1. RowSays(h, "succeeded")
      BY <1>4 DEF ConfirmBooking, TablesInv, HalfDone
    <2>2. OthersSame(h) /\ call'[h].pc = "idle"
      BY <1>4, ReturnSet DEF ConfirmBooking, Idle
    <2>3. booking' = BookingWith(call[h].bk, "confirmed")
      BY <1>4, WritesSucceed DEF ConfirmBooking
    <2>4. QED
      BY <1>4, <2>1, <2>2, <2>3, BookingStep DEF ConfirmBooking, At
  <1>5. CASE FailBooking(h)
    <2>1. RowSays(h, "failed")
      BY <1>5 DEF FailBooking, TablesInv, HalfDone
    <2>2. OthersSame(h) /\ call'[h].pc = "idle"
      BY <1>5, ReturnSet DEF FailBooking, Idle
    <2>3. booking' = BookingWith(call[h].bk, "failed")
      BY <1>5, WritesSucceed DEF FailBooking
    <2>4. QED
      BY <1>5, <2>1, <2>2, <2>3, BookingStep DEF FailBooking, At
  <1>6. QED
    BY <1>1, <1>2, <1>3, <1>4, <1>5

LEMMA TablesWebhook ==
  ASSUME TypeOK, IInv, TablesInv, RequestsApart, RequestsApart', StatementsExecuted, NEW h \in Handler,
         \/ RecordSucceeded(h) \/ SettleSucceeded(h) \/ RecordFailed(h) \/ SettleFailed(h)
  PROVE  TablesInv'
  <1> USE DEF rowVars
  <1>1. CASE RecordSucceeded(h)
    <2>1. /\ OthersSame(h)
          /\ call'[h] = [pc |-> "settleSucceeded", ref |-> call[h].ref, bk |-> call[h].bk, n |-> call[h].n]
      BY <1>1, GotoSet DEF RecordSucceeded, PC
    <2>2. payStatus' = [payStatus EXCEPT ![call[h].ref] = IF HasPayment(call[h].ref) THEN "succeeded" ELSE @]
      BY <1>1, WritesSucceed DEF RecordSucceeded
    <2>3. call'[h].pc = "settleSucceeded" /\ call'[h].ref = call[h].ref /\ call'[h].bk = call[h].bk
      BY <2>1
    <2>4. QED
      BY <1>1, <2>1, <2>2, <2>3, RowStep DEF RecordSucceeded, At
  <1>2. CASE RecordFailed(h)
    <2>1. /\ OthersSame(h)
          /\ call'[h] = [pc |-> "settleFailed", ref |-> call[h].ref, bk |-> call[h].bk, n |-> call[h].n]
      BY <1>2, GotoSet DEF RecordFailed, PC
    <2>2. payStatus' = [payStatus EXCEPT ![call[h].ref] = IF HasPayment(call[h].ref) THEN "failed" ELSE @]
      BY <1>2, WritesSucceed DEF RecordFailed
    <2>3. call'[h].pc = "settleFailed" /\ call'[h].ref = call[h].ref /\ call'[h].bk = call[h].bk
      BY <2>1
    <2>4. QED
      BY <1>2, <2>1, <2>2, <2>3, RowStep DEF RecordFailed, At
  <1>3. CASE SettleSucceeded(h)
    <2>1. RowSays(h, "succeeded")
      BY <1>3 DEF SettleSucceeded, TablesInv, HalfDone
    <2>2. OthersSame(h) /\ call'[h].pc = "idle"
      BY <1>3, ReturnSet DEF SettleSucceeded, Idle
    <2>3. booking' = BookingWith(call[h].bk, "confirmed")
      BY <1>3, WritesSucceed DEF SettleSucceeded
    <2>4. QED
      BY <1>3, <2>1, <2>2, <2>3, BookingStep DEF SettleSucceeded, At
  <1>4. CASE SettleFailed(h)
    <2>1. RowSays(h, "failed")
      BY <1>4 DEF SettleFailed, TablesInv, HalfDone
    <2>2. OthersSame(h) /\ call'[h].pc = "idle"
      BY <1>4, ReturnSet DEF SettleFailed, Idle
    <2>3. booking' = BookingWith(call[h].bk, "failed")
      BY <1>4, WritesSucceed DEF SettleFailed
    <2>4. QED
      BY <1>4, <2>1, <2>2, <2>3, BookingStep DEF SettleFailed, At
  <1>5. QED
    BY <1>1, <1>2, <1>3, <1>4

LEMMA TablesRefund ==
  ASSUME TypeOK, IInv, TablesInv, RequestsApart, RequestsApart', StatementsExecuted, NEW h \in Handler,
         \/ RefundCharge(h) \/ RefundRejected(h) \/ RecordRefund(h) \/ RefundBooking(h)
  PROVE  TablesInv'
  <1> USE DEF rowVars
  <1>1. CASE RefundCharge(h) \/ RefundRejected(h)
    <2>1. ~At(h, "idle") /\ call[h].pc \notin Settling
      BY <1>1 DEF RefundCharge, RefundRejected, At, Settling
    <2>2. NothingWritten
      BY <1>1 DEF RefundCharge, RefundRejected, NothingWritten
    <2>3. "recordRefund" \in PC \ HasToMakeGood
      BY DEF PC, HasToMakeGood, Settling
    <2>4. GoesOn(h)
      BY <1>1, <2>3, GoesOnThere DEF RefundCharge, RefundRejected
    <2>5. QED
      BY <2>1, <2>2, <2>4, TablesGoOn
  <1>2. CASE RecordRefund(h)
    <2>1. /\ OthersSame(h)
          /\ call'[h] = [pc |-> "refundBooking", ref |-> call[h].ref, bk |-> call[h].bk, n |-> call[h].n]
      BY <1>2, GotoSet DEF RecordRefund, PC
    <2>2. payStatus' = [payStatus EXCEPT ![call[h].ref] = IF HasPayment(call[h].ref) THEN "refunded" ELSE @]
      BY <1>2, NoFaults DEF RecordRefund
    <2>3. call'[h].pc = "refundBooking" /\ call'[h].ref = call[h].ref /\ call'[h].bk = call[h].bk
      BY <2>1
    <2>4. QED
      BY <1>2, <2>1, <2>2, <2>3, RowStep DEF RecordRefund, At
  <1>3. CASE RefundBooking(h)
    <2>1. RowSays(h, "refunded")
      BY <1>3 DEF RefundBooking, TablesInv, HalfDone
    <2>2. OthersSame(h) /\ call'[h].pc = "idle"
      BY <1>3, ReturnSet DEF RefundBooking, Idle
    <2>3. booking' = BookingWith(call[h].bk, "refunded")
      BY <1>3, WritesSucceed DEF RefundBooking
    <2>4. QED
      BY <1>3, <2>1, <2>2, <2>3, BookingStep DEF RefundBooking, At
  <1>4. QED
    BY <1>1, <1>2, <1>3

LEMMA TablesCancel ==
  ASSUME TypeOK, IInv, TablesInv, RequestsApart, RequestsApart', StatementsExecuted, NEW h \in Handler,
         CancelPendingPayments(h)
  PROVE  TablesInv'
  <1>1. PICK b \in Booking : b = call[h].bk /\ RequestFor(h, b)
    BY RequestHas DEF CancelPendingPayments, At
  <1>2. booking[b] \notin StatusWithRow
    BY <1>1 DEF TablesInv, HalfDone, CancelPendingPayments
  <1>3. /\ booking' = booking /\ payBooking' = payBooking
        /\ \A r \in Ref : payBooking[r] # b => payStatus'[r] = payStatus[r]
    BY <1>1, NoFaults DEF CancelPendingPayments, PendingPayments
  <1>4. Agrees(b)'
    BY <1>2, <1>3 DEF Agrees, StatusWithRow
  <1>5. Elsewhere(b)
    BY <1>3 DEF Elsewhere
  <1>6. OthersSame(h) /\ call'[h].pc = "idle"
    BY ReturnSet DEF CancelPendingPayments, Idle
  <1>7. HalfDone(h)' /\ At(h, "idle")' /\ ~At(h, "idle")
    BY <1>6 DEF HalfDone, At, CancelPendingPayments
  <1>8. QED
    BY <1>1, <1>4, <1>5, <1>6, <1>7, TablesStep

\* The office writes one booking, whatever is under way for it.
LEMMA TablesOffice ==
  ASSUME TypeOK, IInv, TablesInv, StatementsExecuted, NEW b \in Booking,
         DeleteBooking(b) \/ \E s \in ManualStatuses : UpdateBookingStatus(b, s)
  PROVE  TablesInv'
  <1>1. /\ call' = call /\ payBooking' = payBooking
        /\ \A r \in Ref : payStatus'[r] \in {payStatus[r], "deleted"}
        /\ \A r \in Ref : payBooking[r] # b => payStatus'[r] = payStatus[r]
    BY DEF DeleteBooking, UpdateBookingStatus, rowVars
  <1>2. booking'[b] \notin StatusWithRow /\ \A c \in Booking \ {b} : booking'[c] = booking[c]
    BY DEF DeleteBooking, UpdateBookingStatus, BookingWith, HasBooking, TypeOK,
           StatementsExecuted, StatusWithRow
  <1>3. Agrees(b)'
    BY <1>2 DEF Agrees, StatusWithRow
  <1>4. Elsewhere(b)
    BY <1>1, <1>2 DEF Elsewhere
  <1>5. ASSUME NEW c \in Booking
        PROVE  (Agrees(c) \/ \E g \in Handler : RequestFor(g, c) /\ call[g].pc \in Settling)'
    <2>1. CASE c = b
      BY <1>3, <2>1
    <2>2. CASE c # b /\ Agrees(c)
      BY <1>4, <2>2, AgreesElsewhere
    <2>3. CASE \E g \in Handler : RequestFor(g, c) /\ call[g].pc \in Settling
      BY <1>1, <2>3 DEF RequestFor, At
    <2>4. QED
      BY <2>1, <2>2, <2>3 DEF TablesInv
  <1>6. ASSUME NEW g \in Handler PROVE HalfDone(g)'
    <2>1. CASE ~RequestFor(g, b)
      BY <1>1, <1>4, <2>1, OthersHalfDone
    <2>2. CASE RequestFor(g, b)
      <3>1. HalfDone(g) /\ call'[g] = call[g] /\ call[g].bk = b
        BY <1>1, <2>2 DEF TablesInv, RequestFor
      <3>2. CASE At(g, "cancelPayments")
        BY <1>2, <3>1, <3>2 DEF HalfDone, At
      <3>3. CASE At(g, "newIntent") \/ At(g, "newOrder")
        BY <3>1, <3>3 DEF HalfDone, At
      <3>4. CASE ~(At(g, "cancelPayments") \/ At(g, "newIntent") \/ At(g, "newOrder"))
        <4>1. call[g].ref \in Ref
          BY <2>2, <3>4, RequestHas DEF RequestFor
        <4>2. payStatus'[call[g].ref] \in {payStatus[call[g].ref], "deleted"}
          BY <1>1, <4>1
        <4>3. QED
          BY <3>1, <3>4, <4>2 DEF HalfDone, RowSays, At
      <3>5. QED
        BY <3>2, <3>3, <3>4
    <2>3. QED
      BY <2>1, <2>2
  <1>7. QED
    BY <1>5, <1>6 DEF TablesInv

LEMMA TablesUntouched ==
  ASSUME TablesInv, UNCHANGED << booking, payStatus, payBooking, call >>
  PROVE  TablesInv'
  BY DEF TablesInv, Agrees, PaymentSays, RequestFor, HalfDone, RowSays, At

LEMMA TablesNext ==
  ASSUME TypeOK, IInv, TablesInv, RequestsApart, RequestsApart', StatementsExecuted, [Next]_vars
  PROVE  TablesInv'
  <1>1. ASSUME NEW h \in Handler, Step(h) PROVE TablesInv'
    BY <1>1, TablesOpen, TablesCapture, TablesWebhook, TablesRefund, TablesCancel DEF Step
  <1>2. ASSUME NEW h \in Handler, Abandon(h) PROVE TablesInv'
    BY <1>2, NoFaults DEF Abandon
  <1>3. CASE Customer
    BY <1>3, TablesUntouched DEF Customer, Pay, Decline, Approve, rowVars
  <1>4. CASE Office
    BY <1>4, TablesOffice DEF Office
  <1>5. CASE UNCHANGED vars
    BY <1>5, TablesUntouched DEF vars, rowVars
  <1>6. QED
    BY <1>1, <1>2, <1>3, <1>4, <1>5, TablesArrive DEF Next

\* The status the payment service leaves on a booking and the status of one of
\* the booking's payment rows tell the same story whenever no request for it is
\* under way, however requests for other bookings interleave, money is refused or
\* held and replies are lost: provided that the requests for one booking do not
\* overlap, that every statement is executed, and that the statuses in question
\* are not also set by hand (the two UPDATEs of CapturePayPalOrder, of the webhook
\* and of ProcessRefund are not in a transaction).
THEOREM TablesAgreeApart ==
  StatementsExecuted /\ Spec /\ []RequestsApart => []TablesAgreeAtRest
  <1>1. Init => TablesInv
    <2> SUFFICES ASSUME Init PROVE TablesInv
      OBVIOUS
    <2>1. \A b \in Booking : Agrees(b)
      BY DEF Init, Agrees
    <2>2. \A h \in Handler : HalfDone(h)
      BY DEF Init, HalfDone, At, Idle
    <2>3. QED
      BY <2>1, <2>2 DEF TablesInv
  <1>2. /\ StatementsExecuted /\ TablesInv
        /\ TypeOK /\ IInv /\ RequestsApart /\ RequestsApart' /\ [Next]_vars
        => (StatementsExecuted /\ TablesInv)'
    BY TablesNext DEF StatementsExecuted
  <1>3. TablesInv => TablesAgreeAtRest
    BY DEF TablesInv, TablesAgreeAtRest
  <1>4. QED
    BY <1>1, <1>2, <1>3, Invariance, PTL DEF Spec
=============================================================================
