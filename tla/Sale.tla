-------------------------------- MODULE Sale --------------------------------
(***************************************************************************)
(* A sale as the customer and the shop see it: "paid, provisioned or       *)
(* given back" (pay_with_wallet in apps/bot/handlers/user/purchase.py).    *)
(* A customer selects plans; an order appears in one step, with its money  *)
(* settled, and is never touched again; a client appears on the panel, and *)
(* never for an order that is given back or was not paid.                  *)
(*                                                                         *)
(* A paid order that got nothing and is "processing" is settled too: its   *)
(* client may be on the panel or not, and an administrator has to look.    *)
(***************************************************************************)
EXTENDS Naturals

CONSTANT Users

VARIABLES
    orders,     \* the committed orders
    panel,      \* ids of the orders whose client exists
    chosen      \* how many plans each customer has selected and not yet bought

saleVars == <<orders, panel, chosen>>

Served(o) ==
    /\ o.status = "provisioned" /\ o.subscribed
    /\ o.debited /\ ~o.refunded /\ o.id \in panel
GivenBack(o) ==
    /\ o.status = "refunded" /\ ~o.subscribed
    /\ o.debited /\ o.refunded /\ o.id \notin panel
Unclear(o) == o.status = "processing" /\ ~o.subscribed /\ o.debited /\ ~o.refunded
NotPaid(o) ==
    /\ o.status = "failed" /\ ~o.subscribed
    /\ ~o.debited /\ ~o.refunded /\ o.id \notin panel
Settled(o) == Served(o) \/ GivenBack(o) \/ Unclear(o) \/ NotPaid(o)

SaleInit ==
    /\ orders = {}
    /\ panel = {}
    /\ chosen = [u \in Users |-> 0]

Select ==
    /\ \E u \in Users : chosen' = [chosen EXCEPT ![u] = @ + 1]
    /\ UNCHANGED <<orders, panel>>

\* One order more, for a plan that was selected.
Sell ==
    /\ \E o \in orders' :
          /\ \A q \in orders : q.id # o.id
          /\ Settled(o)
          /\ orders' = orders \cup {o}
          /\ chosen[o.user] > 0
          /\ chosen' = [chosen EXCEPT ![o.user] = @ - 1]
    /\ UNCHANGED panel

Deliver ==
    /\ \E i \in panel' :
          /\ \A o \in orders : o.id = i => Unclear(o)
          /\ panel' = panel \cup {i}
    /\ UNCHANGED <<orders, chosen>>

SaleSpec == SaleInit /\ [][Select \/ Sell \/ Deliver]_saleVars
=============================================================================
