-------------------------- MODULE MCSubscriptions --------------------------
(* Small instances of Subscriptions: one subscription, two updates and the *)
(* sweep at a time.                                                        *)
EXTENDS Subscriptions

CONSTANTS v1, v2, i1
=============================================================================
