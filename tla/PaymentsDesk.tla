----------------------------- MODULE PaymentsDesk -----------------------------
(* The administrator's payments page (app/(admin)/admin/payments/page.tsx): a  *)
(* ledger fetched for one status, sums over it, a drawer that audits one       *)
(* payment and a dialog that refunds one. The drawer and the dialog keep the   *)
(* copy of the payment they were opened with. The money is counted in equal    *)
(* charges of PayAmount, and one page holds every payment.                     *)
EXTENDS Integers, FiniteSets, FiniteSetsExt

CONSTANTS
  Payments,          \* the number of payments; a greater number is newer
  StripePayments,    \* those with a Stripe payment intent
  PayAmount,         \* what each of them charged
  LedgerLimit,       \* payments in a list asked for with limit=1000 or with none (20)
  LedgerFetches,     \* bound: fetches of the ledger under way at a time
  MaxLedgerClicks    \* bound: clicks of the administrator

ASSUME PaymentsDeskAssumption ==
  /\ Payments \in Nat
  /\ StripePayments \subseteq 1..Payments
  /\ PayAmount \in Nat \ {0}
  /\ LedgerLimit \in Nat
  /\ MaxLedgerClicks \in Nat

VARIABLES
  pay,         \* server: payments.status and refunded_amount
  returned,    \* Stripe: how often and how much it gave back for each payment
  statusFilter,
  ledger,      \* payments: the copies in the table
  metrics,     \* the sums over the table, or NoMetrics
  ledgerLoading,
  ledgerFetch, \* fetchPayments under way
  audit,       \* selectedPayment, or NoPayment
  modal,       \* refundPayment and refundAmount, or NoModal
  refund,      \* handleProcessRefund under way
  ledgerClicks,
  hurried,     \* history: the drawer or the dialog was opened while a request was under way
  troubled     \* history: a request failed or its answer was lost

ledgerVars == << pay, returned, statusFilter, ledger, metrics, ledgerLoading, ledgerFetch, audit,
                 modal, refund, ledgerClicks, hurried, troubled >>
bookVars == << pay, returned >>
tableSide == << statusFilter, ledger, metrics, ledgerLoading, ledgerFetch >>

PaymentId == 1..Payments
Copy == [id: PaymentId, status: {"succeeded", "refunded"}]
NoPayment == [id |-> 0, status |-> "none"]
NoModal == [id |-> 0, amount |-> 0]
NoMetrics == [revenue |-> 0, refunded |-> 0, loaded |-> FALSE]
NoRequest == [at |-> "idle"]

Copies(ids) == { [id |-> p, status |-> pay[p].status] : p \in ids }

\* ORDER BY created_at DESC LIMIT 20
NewestPayments == { p \in PaymentId : p > Payments - LedgerLimit }

Revenue(ids) == PayAmount * Cardinality({ p \in ids : pay[p].status = "succeeded" })

\* refunded_amount || amount
Refunded(ids) ==
  MapThenSumSet(LAMBDA p : IF pay[p].refunded > 0 THEN pay[p].refunded ELSE PayAmount,
                             { p \in ids : pay[p].status = "refunded" })

\* The rows of the table, and the copies whose refund a row or the drawer offers.
LedgerTable == IF ledgerLoading THEN {} ELSE ledger
RefundOffered(c) == c.status = "succeeded"

-----------------------------------------------------------------------------
LedgerInit ==
  /\ pay = [p \in PaymentId |-> [status |-> "succeeded", refunded |-> 0]]
  /\ returned = [p \in PaymentId |-> [times |-> 0, sum |-> 0]]
  /\ statusFilter = "all"
  /\ ledger = {}
  /\ metrics = NoMetrics
  /\ ledgerLoading = TRUE
  /\ ledgerFetch = [i \in LedgerFetches |-> NoRequest]
  /\ audit = NoPayment
  /\ modal = NoModal
  /\ refund = NoRequest
  /\ ledgerClicks = 0
  /\ hurried = FALSE
  /\ troubled = FALSE

LedgerBusy == (\E i \in LedgerFetches : ledgerFetch[i] # NoRequest) \/ refund # NoRequest

SendLedgerFetch(s) ==
  /\ \E i \in LedgerFetches :
        /\ ledgerFetch[i] = NoRequest
        /\ ledgerFetch' = [ledgerFetch EXCEPT ![i] = [at |-> "list", status |-> s]]
  /\ ledgerLoading' = TRUE

\* The first answer fills the table, and the sums are asked for.
ListAnswered(i) ==
  /\ ledgerFetch[i].at = "list"
  /\ LET s == ledgerFetch[i].status
     IN ledger' = Copies({ p \in PaymentId : s \in {"all", pay[p].status} })
  /\ ledgerFetch' = [ledgerFetch EXCEPT ![i].at = "sums"]
  /\ UNCHANGED << metrics, ledgerLoading, troubled >>

SumsAnswered(i) ==
  /\ ledgerFetch[i].at = "sums"
  /\ metrics' = [revenue |-> Revenue(NewestPayments), refunded |-> Refunded(NewestPayments),
                 loaded |-> TRUE]
  /\ ledgerFetch' = [ledgerFetch EXCEPT ![i] = NoRequest]
  /\ ledgerLoading' = FALSE
  /\ UNCHANGED << ledger, troubled >>

LedgerFetchFails(i) ==
  /\ ledgerFetch[i] # NoRequest
  /\ ledgerFetch' = [ledgerFetch EXCEPT ![i] = NoRequest]
  /\ ledgerLoading' = FALSE
  /\ troubled' = TRUE
  /\ UNCHANGED << ledger, metrics >>

LedgerAnswer ==
  /\ \E i \in LedgerFetches : ListAnswered(i) \/ SumsAnswered(i) \/ LedgerFetchFails(i)
  /\ UNCHANGED << bookVars, statusFilter, audit, modal, refund, ledgerClicks, hurried >>

-----------------------------------------------------------------------------
ClickLedger == ledgerClicks < MaxLedgerClicks /\ ledgerClicks' = ledgerClicks + 1

OpenLedger ==
  /\ ledgerLoading /\ ~LedgerBusy
  /\ SendLedgerFetch(statusFilter)
  /\ UNCHANGED << bookVars, statusFilter, ledger, metrics, audit, modal, refund, ledgerClicks,
                  hurried, troubled >>

\* A status, or the refresh button. The drawer and the dialog cover them.
SelectLedger(s) ==
  /\ audit = NoPayment /\ modal = NoModal
  /\ ClickLedger
  /\ statusFilter' = s
  /\ SendLedgerFetch(s)
  /\ UNCHANGED << bookVars, ledger, metrics, audit, modal, refund, hurried, troubled >>

OpenAudit(c) ==
  /\ audit = NoPayment /\ modal = NoModal
  /\ c \in LedgerTable
  /\ audit' = c
  /\ hurried' = (hurried \/ LedgerBusy)
  /\ UNCHANGED modal

CloseAudit ==
  /\ audit # NoPayment /\ modal = NoModal
  /\ audit' = NoPayment
  /\ UNCHANGED << modal, hurried >>

\* handleOpenRefund: offered for a copy that says "succeeded", in the table or
\* in the drawer. The whole amount is proposed.
OpenRefund(c) ==
  /\ modal = NoModal
  /\ \/ audit = c
     \/ audit = NoPayment /\ c \in LedgerTable
  /\ RefundOffered(c)
  /\ modal' = [id |-> c.id, amount |-> PayAmount]
  /\ hurried' = (hurried \/ LedgerBusy)
  /\ UNCHANGED audit

\* max stops a greater amount; zero stands for zero and for a negative amount.
TypeAmount(a) ==
  /\ modal # NoModal
  /\ a # modal.amount
  /\ modal' = [modal EXCEPT !.amount = a]
  /\ UNCHANGED << audit, hurried >>

CancelRefund ==
  /\ modal # NoModal
  /\ modal' = NoModal
  /\ UNCHANGED << audit, hurried >>

LedgerClick ==
  /\ ClickLedger
  /\ \/ \E c \in ledger : OpenAudit(c)
     \/ \E c \in ledger \cup {audit} : OpenRefund(c)
     \/ \E a \in 0..PayAmount : TypeAmount(a)
     \/ CloseAudit \/ CancelRefund
  /\ UNCHANGED << bookVars, tableSide, refund, troubled >>

\* handleProcessRefund: disabled while a refund is under way. It remembers
\* whether the drawer shows the payment.
ConfirmRefund ==
  /\ modal # NoModal
  /\ refund = NoRequest
  /\ ClickLedger
  /\ refund' = [at |-> "post", id |-> modal.id, amount |-> modal.amount, audited |-> audit.id = modal.id]
  /\ UNCHANGED << bookVars, tableSide, audit, modal, hurried, troubled >>

\* ProcessRefund of the server: nothing for a payment without an intent, and the
\* whole amount for none; Stripe gives no more back than it charged.
ProcessRefund ==
  /\ refund.at = "post"
  /\ LET p == refund.id
         a == IF refund.amount = 0 THEN PayAmount ELSE refund.amount
     IN IF p \in StripePayments /\ returned[p].sum + a <= PayAmount
        THEN /\ returned' = [returned EXCEPT ![p] = [times |-> @.times + 1, sum |-> @.sum + a]]
             /\ pay' = [pay EXCEPT ![p] = [status |-> "refunded", refunded |-> a]]
             /\ refund' = [refund EXCEPT !.at = "done"]
        ELSE refund' = [refund EXCEPT !.at = "refused"] /\ UNCHANGED bookVars
  /\ UNCHANGED << tableSide, audit, modal, ledgerClicks, hurried, troubled >>

\* Mutant: the dialog stays open.
ReturnToDialog ==
  /\ refund.at = "done"
  /\ SendLedgerFetch(statusFilter)
  /\ refund' = IF refund.audited THEN [refund EXCEPT !.at = "refresh"] ELSE NoRequest
  /\ UNCHANGED << bookVars, statusFilter, ledger, metrics, audit, modal, ledgerClicks, hurried, troubled >>

\* Whatever dialog is open is closed, and the ledger is fetched again.
RefundReturns ==
  /\ refund.at = "done"
  /\ modal' = NoModal
  /\ SendLedgerFetch(statusFilter)
  /\ refund' = IF refund.audited THEN [refund EXCEPT !.at = "refresh"] ELSE NoRequest
  /\ UNCHANGED << bookVars, statusFilter, ledger, metrics, audit, ledgerClicks, hurried, troubled >>

\* Whatever the drawer shows is replaced by the fresh copy, if it is among the newest.
RefreshAudit ==
  /\ refund.at = "refresh"
  /\ audit' = IF refund.id \in NewestPayments THEN [id |-> refund.id, status |-> pay[refund.id].status]
                                              ELSE audit
  /\ refund' = NoRequest
  /\ UNCHANGED << bookVars, tableSide, modal, ledgerClicks, hurried, troubled >>

\* An alert; the dialog stays open.
RefundFails ==
  /\ refund # NoRequest
  /\ refund' = NoRequest
  /\ troubled' = (troubled \/ refund.at # "refused")
  /\ UNCHANGED << bookVars, tableSide, audit, modal, ledgerClicks, hurried >>

LedgerNext ==
  \/ OpenLedger \/ LedgerAnswer \/ LedgerClick
  \/ \E s \in {"all", "succeeded", "refunded"} : SelectLedger(s)
  \/ ConfirmRefund \/ ProcessRefund \/ RefundReturns \/ RefreshAudit \/ RefundFails

LedgerSpec == LedgerInit /\ [][LedgerNext]_ledgerVars

-----------------------------------------------------------------------------
LedgerTypeOK ==
  /\ pay \in [PaymentId -> [status: {"succeeded", "refunded"}, refunded: 0..PayAmount]]
  /\ returned \in [PaymentId -> [times: Nat, sum: 0..PayAmount]]
  /\ statusFilter \in {"all", "succeeded", "refunded"}
  /\ ledger \subseteq Copy
  /\ metrics.loaded \in BOOLEAN
  /\ ledgerLoading \in BOOLEAN
  /\ ledgerFetch \in [LedgerFetches -> {NoRequest} \cup
       [at: {"list", "sums"}, status: {"all", "succeeded", "refunded"}]]
  /\ audit \in Copy \cup {NoPayment}
  /\ modal \in [id: PaymentId, amount: 0..PayAmount] \cup {NoModal}
  /\ refund \in {NoRequest} \cup [at: {"post", "done", "refused", "refresh"}, id: PaymentId,
                                  amount: 0..PayAmount, audited: BOOLEAN]
  /\ ledgerClicks \in Nat
  /\ hurried \in BOOLEAN /\ troubled \in BOOLEAN

\* A payment is refunded twice only if a request failed or its answer was lost, if the
\* drawer or the dialog was opened while a request was under way, or if
\* the payment is too old to be in the list that refreshes the drawer
\* (handleProcessRefund, handleOpenRefund).
RefundedOnce ==
  ~troubled /\ ~hurried => \A p \in PaymentId \cap NewestPayments : returned[p].times <= 1

-----------------------------------------------------------------------------
(* What makes RefundedOnce inductive. *)

\* A payment that says "succeeded" was given nothing back.
SucceededIsUnreturned ==
  \A p \in PaymentId : pay[p].status = "succeeded" => returned[p].times = 0

Calm == ~troubled /\ ~hurried

\* A row that says "succeeded" is right, or a list that will replace it is on its way, or
\* will be asked for.
LedgerFollows ==
  \/ \A c \in ledger : c.status = "succeeded" => pay[c.id].status = "succeeded"
  \/ refund.at = "done"
  \/ \E i \in LedgerFetches : ledgerFetch[i].at = "list"

\* So is the drawer, or the refund that made it wrong will refresh it.
AuditFollows ==
  /\ audit.id \in NewestPayments /\ audit.status = "succeeded" =>
       \/ pay[audit.id].status = "succeeded"
       \/ refund.at \in {"done", "refresh"} /\ refund.id = audit.id
  /\ refund.at \in {"post", "done"} /\ audit # NoPayment =>
       (refund.audited <=> audit.id = refund.id)

\* The dialog is of a payment that can be refunded, or will be closed; and so is the
\* refund that was sent from it.
DialogFollows ==
  /\ modal.id \in NewestPayments => pay[modal.id].status = "succeeded" \/ refund.at = "done"
  /\ refund.at = "post" /\ refund.id \in NewestPayments => pay[refund.id].status = "succeeded"

LedgerInv ==
  /\ LedgerTypeOK /\ SucceededIsUnreturned /\ RefundedOnce
  /\ Calm => LedgerFollows /\ AuditFollows /\ DialogFollows
=============================================================================
