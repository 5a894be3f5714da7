-------------------------- MODULE PaymentLifecycle --------------------------
(***************************************************************************)
(* What the payment records of the booking site promise, with no request,  *)
(* statement or delivery in sight: the status column of every payment row  *)
(* and the state of the charge it stands for at the payment provider.      *)
(*                                                                         *)
(* The specification says which changes a row may make and what must be    *)
(* true at the provider when it makes them.  It is deliberately as loose   *)
(* as the code: a row may go from refunded back to succeeded, because no   *)
(* statement of the backend looks at the current status before writing it, *)
(* with the one exception of the cancellation.                             *)
(***************************************************************************)
EXTENDS Naturals

CONSTANTS
  Intent,   \* charges made through Stripe
  Order     \* charges made through PayPal

VARIABLES
  status,   \* status[r]: the row of charge r, or "absent" / "deleted"
  charge    \* charge[r]: "none", "open", "taken" or "returned"

lifecycleVars == <<status, charge>>

ChargeRef == Intent \cup Order

RowStatus == {"pending", "succeeded", "failed", "cancelled", "refunded"}

Exists(r) == status[r] \in RowStatus

\* Money was taken for r: whether or not some of it was returned later.
Taken(r) == charge[r] \in {"taken", "returned"}

LifecycleInit ==
  /\ status = [r \in ChargeRef |-> "absent"]
  /\ charge = [r \in ChargeRef |-> "none"]

-----------------------------------------------------------------------------
(* The provider. *)

OpenCharge(r) ==
  /\ charge[r] = "none"
  /\ charge' = [charge EXCEPT ![r] = "open"]
  /\ UNCHANGED status

\* A customer can pay only what the backend has put on record.
TakeMoney(r) ==
  /\ charge[r] = "open"
  /\ status[r] # "absent"
  /\ charge' = [charge EXCEPT ![r] = "taken"]
  /\ UNCHANGED status

\* Only a Stripe charge is ever returned.
ReturnMoney(r) ==
  /\ r \in Intent
  /\ charge[r] = "taken"
  /\ charge' = [charge EXCEPT ![r] = "returned"]
  /\ UNCHANGED status

-----------------------------------------------------------------------------
(* The record. *)

Record(r) ==
  /\ status[r] = "absent"
  /\ charge[r] = "open"
  /\ status' = [status EXCEPT ![r] = "pending"]
  /\ UNCHANGED charge

RecordSuccess(r) ==
  /\ Exists(r)
  /\ Taken(r)
  /\ status' = [status EXCEPT ![r] = "succeeded"]
  /\ UNCHANGED charge

RecordFailure(r) ==
  /\ Exists(r)
  /\ status' = [status EXCEPT ![r] = "failed"]
  /\ UNCHANGED charge

RecordReturn(r) ==
  /\ Exists(r)
  /\ charge[r] = "returned"
  /\ status' = [status EXCEPT ![r] = "refunded"]
  /\ UNCHANGED charge

\* A cancellation never touches a row that has an outcome.
Cancel(S) ==
  /\ \A r \in S : status[r] = "pending"
  /\ status' = [r \in ChargeRef |-> IF r \in S THEN "cancelled" ELSE status[r]]
  /\ UNCHANGED charge

\* The rows of a booking go together with it, and never come back.
Erase(S) ==
  /\ \A r \in S : Exists(r)
  /\ status' = [r \in ChargeRef |-> IF r \in S THEN "deleted" ELSE status[r]]
  /\ UNCHANGED charge

LifecycleNext ==
  \/ \E r \in ChargeRef :
       \/ OpenCharge(r) \/ TakeMoney(r) \/ ReturnMoney(r)
       \/ Record(r) \/ RecordSuccess(r) \/ RecordFailure(r) \/ RecordReturn(r)
  \/ \E S \in SUBSET ChargeRef : Cancel(S) \/ Erase(S)

LifecycleSpec == LifecycleInit /\ [][LifecycleNext]_lifecycleVars

=============================================================================
