---------------------------- MODULE MCPaymentRetry ----------------------------
(***************************************************************************)
(* Two retries of one installment that is due 2, one of them for half of   *)
(* it, and a manual payment of half of it.                                 *)
(***************************************************************************)
EXTENDS PaymentRetry

Amounts == [t1 |-> 2, t2 |-> 1, m1 |-> 1]
==============================================================================
