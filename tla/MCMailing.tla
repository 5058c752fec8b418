----------------------------- MODULE MCMailing -----------------------------
(***************************************************************************)
(* Mailing for TLC: the owner and a customer, two tickets and two          *)
(* broadcasts.                                                             *)
(***************************************************************************)
EXTENDS Mailing

CONSTANTS a, c
=============================================================================
