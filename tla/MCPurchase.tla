----------------------------- MODULE MCPurchase -----------------------------
(* Small instances of Purchase: two customers, two purchases at a time.    *)
EXTENDS Purchase

CONSTANTS u1, u2, p1, n1, n2, h1, h2
=============================================================================
