----------------------------- MODULE MCPayments -----------------------------
(* Small instances of Payments: one payment, one or two webhook requests   *)
(* at a time.                                                              *)
EXTENDS Payments

CONSTANTS w1, w2
=============================================================================
