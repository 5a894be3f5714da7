-------------------------- MODULE MCBookingPayments --------------------------
(* Constants of BookingPayments for TLC. *)
EXTENDS PaymentViews, TLC

CONSTANTS h1, h2

\* Requests are interchangeable.
HandlerSymmetry == Permutations(Handler)
=============================================================================
