------------------------------ MODULE Purchase ------------------------------
(***************************************************************************)
(* Buying a config with the wallet (apps/bot/handlers/user/purchase.py)    *)
(* down to the X-UI panel (services/provisioning/manager.py,               *)
(* services/xui/client.py) and the discount code (repositories/discount).  *)
(*                                                                         *)
(* aiogram handles every update as a task of its own.  The dialogue's      *)
(* state and data live in a MemoryStorage, whose calls never suspend: what *)
(* a handler does there between two network or database calls is one step. *)
(* A click on "pay with wallet" is a longer handler: one database          *)
(* transaction around a call of the panel, which is not transactional.     *)
(*                                                                         *)
(* Whether a wallet can pay is left open here (Wallet models the balance); *)
(* the orders record what was debited and refunded for them.               *)
(***************************************************************************)
EXTENDS Naturals, FiniteSets, Functions

CONSTANTS
    Users, Plans, Names,
    DefaultName,     \* the config name of a dialogue that never asked for one
    MaxUses,         \* discount_codes.max_uses
    MaxClients,      \* xui_servers.max_clients
    Attempts,        \* max_retries of SanaeiXUIClient._send
    Handlers,        \* pay-with-wallet updates being handled at one time
    None,            \* no plan, no name, no user, nobody
    MaxDialogs,      \* bound: plan selections of all users
    MaxOrders,       \* bound: orders placed
    MaxCrashes       \* bound: restarts of the bot

ASSUME PurchaseAssumption ==
    /\ DefaultName \in Names
    /\ None \notin Users \cup Plans \cup Names \cup Handlers
    /\ MaxUses \in Nat \ {0}
    /\ MaxClients \in Nat
    /\ Attempts \in Nat \ {0}
    /\ IsFiniteSet(Handlers)
    /\ MaxDialogs \in Nat /\ MaxOrders \in Nat /\ MaxCrashes \in Nat

VARIABLES
    fsm,        \* each user's dialogue: [state, plan, name, code]
    asked,      \* the text of each user that is being looked up
    buttons,    \* the buttons each user has been shown
    dialogs,    \* history: how many plans each user has selected
    hdl,        \* each pay-with-wallet handler
    code,       \* committed [used, active] of the discount code
    codeLock,   \* the handler whose UPDATE of the code is not committed
    orders,     \* committed orders, with their money and xui_clients row
    activity,   \* is_active of that row, and whether it was ever switched off
    placed,     \* how many orders were ever inserted: order ids
    panel,      \* the orders whose client exists on the panel
    crashes     \* bound counter

vars == <<fsm, asked, buttons, dialogs, hdl, code, codeLock, orders, activity, placed,
          panel, crashes>>

\* code: there is a discount_id.  The percentage and the price are left out.
States == {"none", "name", "discount", "processing"}
NoDialog == [state |-> "none", plan |-> None, name |-> None, code |-> FALSE]
Dialog == [state : States, plan : Plans \cup {None}, name : Names \cup {None},
           code : BOOLEAN]

\* What a user has typed whose handler waits for the database.  One message
\* of a user at a time; which name it is shows in NameChecked.
Texts == {"nothing", "name", "code"}

Order == [id : 1..MaxOrders, user : Users, plan : Plans, name : Names, code : BOOLEAN,
          status : {"processing", "provisioned", "refunded", "failed"},
          debited : BOOLEAN, refunded : BOOLEAN, subscribed : BOOLEAN]

\* A handler: its user, the dialogue's data as it took it, the discount code
\* as it loaded it, the panel attempts it has left, what it has staged.
IdleHandler == [pc |-> "idle", user |-> None, data |-> NoDialog, used |-> 0, left |-> 0,
                useCode |-> FALSE, order |-> {}, broken |-> FALSE]
PcValues == {"idle", "typing", "load", "code", "order", "capacity", "panel", "save", "commit"}

\* The orders a handler has staged or the database has committed.
Staged == UNION {hdl[h].order : h \in Handlers}
Subscribed(os) == {o \in os : o.subscribed}

\* xui_clients.is_active of an order: TRUE since it was sold, FALSE, or TRUE
\* again.  The row, and with it the username, stays in every case.
Activities == {"kept", "off", "back"}
Active(os) == {o \in Subscribed(os) : activity[o.id] # "off"}

-----------------------------------------------------------------------------
Init ==
    /\ fsm = [u \in Users |-> NoDialog]
    /\ asked = [u \in Users |-> "nothing"]
    /\ buttons = [u \in Users |-> {}]
    /\ dialogs = [u \in Users |-> 0]
    /\ hdl = [h \in Handlers |-> IdleHandler]
    /\ code = [used |-> 0, active |-> TRUE]
    /\ codeLock = None
    /\ orders = {}
    /\ activity = [i \in 1..MaxOrders |-> "kept"]
    /\ placed = 0
    /\ panel = {}
    /\ crashes = 0

-----------------------------------------------------------------------------
(* The dialogue.                                                           *)

Selections == FoldFunction(+, 0, dialogs)

SelectPlan(u, p) ==
    /\ Selections < MaxDialogs
    /\ fsm' = [fsm EXCEPT ![u].plan = p, ![u].state = "name"]
    /\ dialogs' = [dialogs EXCEPT ![u] = @ + 1]
    /\ UNCHANGED <<asked, buttons, hdl, code, codeLock, orders, activity, placed, panel,
                   crashes>>

EnterName(u) ==
    /\ fsm[u].state = "name"
    /\ asked[u] = "nothing"
    /\ asked' = [asked EXCEPT ![u] = "name"]
    /\ UNCHANGED <<fsm, buttons, dialogs, hdl, code, codeLock, orders, activity, placed, panel,
                   crashes>>

NamesOf(os) == {o.name : o \in Subscribed(os)}

\* The name must not be a username of a committed xui_clients row.
NameChecked(u, n) ==
    /\ asked[u] = "name"
    /\ asked' = [asked EXCEPT ![u] = "nothing"]
    /\ IF n \in NamesOf(orders) THEN UNCHANGED <<fsm, buttons>>
       ELSE /\ fsm' = [fsm EXCEPT ![u].name = n, ![u].state = "discount"]
            /\ buttons' = [buttons EXCEPT ![u] = @ \cup {"skip"}]
    /\ UNCHANGED <<dialogs, hdl, code, codeLock, orders, activity, placed, panel, crashes>>

\* The payment methods are shown for a dialogue that has a plan.
ShowMethods(u) ==
    buttons' = IF fsm[u].plan = None THEN buttons ELSE [buttons EXCEPT ![u] = @ \cup {"pay"}]

\* A callback: the button works in every state.  It resets the percentage
\* and leaves the discount_id of a code entered before.
SkipDiscount(u) ==
    /\ "skip" \in buttons[u]
    /\ ShowMethods(u)
    /\ UNCHANGED <<fsm, asked, dialogs, hdl, code, codeLock, orders, activity, placed, panel,
                   crashes>>

EnterCode(u) ==
    /\ fsm[u].state = "discount"
    /\ fsm[u].plan # None
    /\ asked[u] = "nothing"
    /\ asked' = [asked EXCEPT ![u] = "code"]
    /\ UNCHANGED <<fsm, buttons, dialogs, hdl, code, codeLock, orders, activity, placed, panel,
                   crashes>>

\* validate_code.  No code is limited to a plan: the dialogue that creates
\* one does not ask for it.
CodeValid == code.active /\ code.used < MaxUses

CodeChecked(u) ==
    /\ asked[u] = "code"
    /\ asked' = [asked EXCEPT ![u] = "nothing"]
    /\ IF CodeValid
       THEN /\ fsm' = [fsm EXCEPT ![u].code = TRUE]
            /\ ShowMethods(u)
       ELSE UNCHANGED <<fsm, buttons>>
    /\ UNCHANGED <<dialogs, hdl, code, codeLock, orders, activity, placed, panel, crashes>>

\* "Cancel", or the other way of paying: pay_with_gateway clears the
\* dialogue when it has stored the payment (Payments).
Cancel(u) ==
    /\ "pay" \in buttons[u]
    /\ fsm' = [fsm EXCEPT ![u] = NoDialog]
    /\ UNCHANGED <<asked, buttons, dialogs, hdl, code, codeLock, orders, activity, placed, panel,
                   crashes>>

-----------------------------------------------------------------------------
(* Paying with the wallet.                                                 *)

MayPay(u) == fsm[u].state # "processing"

\* Every handler that has not placed its order may still do so.
RoomForOrder == placed + Cardinality({h \in Handlers : hdl[h].pc # "idle" /\ hdl[h].order = {}})
                    < MaxOrders

\* An update gets a task of its own; the tasks are interchangeable.
NextTask == CHOOSE h \in Handlers : hdl[h].pc = "idle"

\* Double-click prevention, then send_chat_action.
Click(u, h) ==
    /\ "pay" \in buttons[u]
    /\ hdl[h].pc = "idle"
    /\ h = NextTask
    /\ MayPay(u)
    /\ RoomForOrder
    /\ fsm' = [fsm EXCEPT ![u].state = "processing"]
    /\ hdl' = [hdl EXCEPT ![h] = [IdleHandler EXCEPT !.pc = "typing", !.user = u]]
    /\ UNCHANGED <<asked, buttons, dialogs, code, codeLock, orders, activity, placed, panel,
                   crashes>>

\* send_chat_action raises, outside the try block.
TypingFails(h) ==
    /\ hdl[h].pc = "typing"
    /\ hdl' = [hdl EXCEPT ![h] = IdleHandler]
    /\ UNCHANGED <<fsm, asked, buttons, dialogs, code, codeLock, orders, activity, placed, panel,
                   crashes>>

\* Seeded fault: the dialogue's state is reset, its data kept.
Taken_State(u) == [fsm[u] EXCEPT !.state = "none"]

Taken(u) == NoDialog

\* Take the dialogue's data and clear it.  With no plan_id in it, the
\* KeyError ends the handler.
TakeData(h) ==
    /\ hdl[h].pc = "typing"
    /\ LET u == hdl[h].user
       IN  /\ fsm' = [fsm EXCEPT ![u] = Taken(u)]
           /\ hdl' = [hdl EXCEPT ![h] = IF fsm[u].plan = None THEN IdleHandler
                                        ELSE [@ EXCEPT !.pc = "load", !.data = [fsm[u] EXCEPT !.state = "none"]]]
    /\ UNCHANGED <<asked, buttons, dialogs, code, codeLock, orders, activity, placed, panel,
                   crashes>>

\* Load the user, the plan and the discount code.  A plan that is no longer
\* active, or a balance below the price, ends the handler.
Load(h) ==
    /\ hdl[h].pc = "load"
    /\ \/ hdl' = [hdl EXCEPT ![h] = IdleHandler]
       \/ /\ hdl[h].data.code
          /\ hdl' = [hdl EXCEPT ![h].used = code.used, ![h].pc = "code"]
       \/ /\ ~hdl[h].data.code
          /\ hdl' = [hdl EXCEPT ![h].pc = "order"]
    /\ UNCHANGED <<fsm, asked, buttons, dialogs, code, codeLock, orders, activity, placed, panel,
                   crashes>>

\* use_code: used_count of the loaded object plus one, flushed at once: the
\* UPDATE waits for another one that is not committed.  Nothing is checked.
UseCode(h) ==
    /\ hdl[h].pc = "code"
    /\ codeLock = None
    /\ codeLock' = h
    /\ hdl' = [hdl EXCEPT ![h].useCode = TRUE, ![h].pc = "order"]
    /\ UNCHANGED <<fsm, asked, buttons, dialogs, code, orders, activity, placed, panel, crashes>>

NewOrder(h, status, debited) ==
    [id |-> placed + 1, user |-> hdl[h].user, plan |-> hdl[h].data.plan,
     name |-> IF hdl[h].data.name = None THEN DefaultName ELSE hdl[h].data.name,
     code |-> hdl[h].data.code, status |-> status,
     debited |-> debited, refunded |-> FALSE, subscribed |-> FALSE]

\* The wallet's row is locked from the debit to the end of the transaction.
WalletFree(h) ==
    \A g \in Handlers \ {h} : hdl[g].user = hdl[h].user => hdl[g].order = {}

\* pay_with_wallet clears the dialogue, whichever it is by then, when the
\* purchase raised: at a failed step, or at the last message to the user.
Forget(h) == fsm' = [fsm EXCEPT ![hdl[h].user] = NoDialog]
Report(h) == Forget(h) \/ UNCHANGED fsm

\* Insert the order and debit the wallet, or fail the order for the balance.
PlaceOrder(h) ==
    /\ hdl[h].pc = "order"
    /\ WalletFree(h)
    /\ placed' = placed + 1
    /\ \/ /\ hdl' = [hdl EXCEPT ![h].pc = "capacity",
                               ![h].order = {NewOrder(h, "processing", TRUE)}]
          /\ UNCHANGED fsm
       \/ /\ hdl' = [hdl EXCEPT ![h].pc = "commit",
                               ![h].order = {NewOrder(h, "failed", FALSE)}]
          /\ Report(h)
    /\ UNCHANGED <<asked, buttons, dialogs, code, codeLock, orders, activity, panel, crashes>>

-----------------------------------------------------------------------------
(* provision_subscription.                                                 *)

\* Seeded faults: the refund is not posted; the refund fails too.
Refund_NoMoney(o) == [o EXCEPT !.status = "refunded"]
Refund_Fails(o) == [o EXCEPT !.status = "failed_needs_manual_refund"]

Refund(o) == [o EXCEPT !.status = "refunded", !.refunded = TRUE]
Serve(o) == [o EXCEPT !.status = "provisioned", !.subscribed = TRUE]

\* Seeded fault: no capacity check.
HasRoom_Always == TRUE

\* Active clients of the server, as committed, against max_clients.
HasRoom == Cardinality(Active(orders)) < MaxClients

\* ProvisioningError: the server is full, or the plan, the inbound or the
\* server is inactive.  The debit is refunded in the same transaction.
Refuse(h) ==
    /\ hdl[h].pc = "capacity"
    /\ hdl' = [hdl EXCEPT ![h].pc = "commit", ![h].order = {Refund(o) : o \in @}]
    /\ Report(h)
    /\ UNCHANGED <<asked, buttons, dialogs, code, codeLock, orders, activity, placed, panel,
                   crashes>>

CheckCapacity(h) ==
    /\ hdl[h].pc = "capacity"
    /\ HasRoom
    /\ hdl' = [hdl EXCEPT ![h].pc = "panel", ![h].left = Attempts]
    /\ UNCHANGED <<fsm, asked, buttons, dialogs, code, codeLock, orders, activity, placed, panel,
                   crashes>>

Client(h) == {o.id : o \in hdl[h].order}

\* The panel adds the client and says so; the same client added twice is
\* refused.
PanelAdds(h) ==
    /\ hdl[h].pc = "panel"
    /\ Client(h) \cap panel = {}
    /\ panel' = panel \cup Client(h)
    /\ hdl' = [hdl EXCEPT ![h].pc = "save", ![h].left = 0]
    /\ UNCHANGED <<fsm, asked, buttons, dialogs, code, codeLock, orders, activity, placed, crashes>>

\* Seeded faults: an unclear purchase is taken for a success; it is tried
\* again for ever; its debit is refunded.
GaveUp_Assume(h) == [hdl[h] EXCEPT !.pc = "save", !.left = 0]
GaveUp_Again(h) == [hdl[h] EXCEPT !.left = Attempts]
GaveUp_Refund(h) == [hdl[h] EXCEPT !.pc = "commit", !.left = 0, !.order = {Refund(o) : o \in @}]

\* XUIRequestError is not a ProvisioningError: pay_with_wallet catches it,
\* nothing is refunded, and the session commits.
GaveUp(h) == [hdl[h] EXCEPT !.pc = "commit", !.left = 0]

\* Timeout, lost connection or status 5xx: the client may have been added.
\* The request is sent again while attempts are left.
PanelSilent(h) ==
    /\ hdl[h].pc = "panel"
    /\ panel' \in {panel, panel \cup Client(h)}
    /\ IF hdl[h].left > 1
       THEN hdl' = [hdl EXCEPT ![h].left = @ - 1] /\ UNCHANGED fsm
       ELSE hdl' = [hdl EXCEPT ![h] = GaveUp(h)] /\ Forget(h)
    /\ UNCHANGED <<asked, buttons, dialogs, code, codeLock, orders, activity, placed, crashes>>

\* success false, a status 4xx, a failed login or an unreadable answer:
\* XUIRequestError at once.
PanelRefuses(h) ==
    /\ hdl[h].pc = "panel"
    /\ hdl' = [hdl EXCEPT ![h] = GaveUp(h)]
    /\ Forget(h)
    /\ UNCHANGED <<asked, buttons, dialogs, code, codeLock, orders, activity, placed, panel,
                   crashes>>

\* Flush the subscription and its xui_clients row.  The unique index on
\* username waits for a row that is not committed, and then refuses a name
\* that is: the flush fails and leaves the session to be rolled back.
Save(h) ==
    /\ hdl[h].pc = "save"
    /\ LET mine == {o.name : o \in hdl[h].order}
       IN  /\ mine \cap NamesOf(Staged) = {}
           /\ IF mine \subseteq NamesOf(orders)
              THEN /\ hdl' = [hdl EXCEPT ![h].pc = "commit", ![h].broken = TRUE]
                   /\ Forget(h)
              ELSE /\ hdl' = [hdl EXCEPT ![h].pc = "commit", ![h].order = {Serve(o) : o \in @}]
                   /\ Report(h)
    /\ UNCHANGED <<asked, buttons, dialogs, code, codeLock, orders, activity, placed, panel,
                   crashes>>

-----------------------------------------------------------------------------
(* A config that was sold.                                                 *)

\* The customer switches it off, it expires, or it is deleted or revoked.
SwitchOff(o) ==
    /\ o \in Active(orders)
    /\ activity' = [activity EXCEPT ![o.id] = "off"]
    /\ UNCHANGED <<fsm, asked, buttons, dialogs, hdl, code, codeLock, orders, placed, panel,
                   crashes>>

\* Only the customer's toggle switches one on.  It does not look at the
\* capacity of the server.
SwitchOn(o) ==
    /\ o \in Subscribed(orders)
    /\ activity[o.id] = "off"
    /\ activity' = [activity EXCEPT ![o.id] = "back"]
    /\ UNCHANGED <<fsm, asked, buttons, dialogs, hdl, code, codeLock, orders, placed, panel,
                   crashes>>

-----------------------------------------------------------------------------
(* The end of the transaction.                                             *)

Release(h) == codeLock' = IF codeLock = h THEN None ELSE codeLock

\* used_count as flushed by use_code: from the value this handler loaded.
Counted(h) ==
    [used |-> hdl[h].used + 1, active |-> code.active /\ hdl[h].used + 1 < MaxUses]

\* The middleware commits, whether the handler returned, or failed and was
\* caught (pay_with_wallet, GlobalErrorMiddleware).
Commit(h) ==
    /\ hdl[h].pc = "commit"
    /\ ~hdl[h].broken
    /\ orders' = orders \cup hdl[h].order
    /\ code' = IF hdl[h].useCode THEN Counted(h) ELSE code
    /\ hdl' = [hdl EXCEPT ![h] = IdleHandler]
    /\ Release(h)
    /\ UNCHANGED <<fsm, asked, buttons, dialogs, activity, placed, panel, crashes>>

\* Seeded fault: the use of the code was committed on its own.
CommitFails_Used(h) ==
    /\ hdl[h].pc = "commit"
    /\ hdl[h].broken
    /\ code' = IF hdl[h].useCode THEN Counted(h) ELSE code
    /\ hdl' = [hdl EXCEPT ![h] = IdleHandler]
    /\ Release(h)
    /\ UNCHANGED <<fsm, asked, buttons, dialogs, orders, activity, placed, panel, crashes>>

CommitFails(h) ==
    /\ hdl[h].pc = "commit"
    /\ hdl[h].broken
    /\ hdl' = [hdl EXCEPT ![h] = IdleHandler]
    /\ Release(h)
    /\ UNCHANGED <<fsm, asked, buttons, dialogs, code, orders, activity, placed, panel, crashes>>

\* The bot restarts: every transaction is rolled back, every dialogue lost;
\* the buttons stay in the users' chats.
Crash ==
    /\ crashes < MaxCrashes
    /\ crashes' = crashes + 1
    /\ fsm' = [u \in Users |-> NoDialog]
    /\ asked' = [u \in Users |-> "nothing"]
    /\ hdl' = [h \in Handlers |-> IdleHandler]
    /\ codeLock' = None
    /\ UNCHANGED <<buttons, dialogs, code, orders, activity, placed, panel>>

-----------------------------------------------------------------------------
Dialogue(u) ==
    \/ \E p \in Plans : SelectPlan(u, p)
    \/ EnterName(u)
    \/ \E n \in Names : NameChecked(u, n)
    \/ SkipDiscount(u)
    \/ EnterCode(u)
    \/ CodeChecked(u)
    \/ Cancel(u)
    \/ \E h \in Handlers : Click(u, h)

Step(h) ==
    \/ TypingFails(h)
    \/ TakeData(h)
    \/ Load(h)
    \/ UseCode(h)
    \/ PlaceOrder(h)
    \/ Refuse(h)
    \/ CheckCapacity(h)
    \/ PanelAdds(h)
    \/ PanelSilent(h)
    \/ PanelRefuses(h)
    \/ Save(h)
    \/ Commit(h)
    \/ CommitFails(h)

Next ==
    \/ \E u \in Users : Dialogue(u)
    \/ \E h \in Handlers : Step(h)
    \/ \E o \in orders : SwitchOff(o) \/ SwitchOn(o)
    \/ Crash

\* A handler that can go on does: asyncio runs ready tasks, the clients of
\* the panel and of Telegram have timeouts.
Fairness == \A h \in Handlers : WF_vars(Step(h))

Spec == Init /\ [][Next]_vars /\ Fairness

-----------------------------------------------------------------------------
(* What the code keeps.                                                    *)

Handler == [pc : PcValues, user : Users \cup {None}, data : Dialog, used : Nat,
            left : 0..Attempts, useCode : BOOLEAN, order : SUBSET Order, broken : BOOLEAN]

\* The values of the variables: a handler stages at most one order, and no
\* order ends as "failed_needs_manual_refund".
TypeOK ==
    /\ fsm \in [Users -> Dialog]
    /\ asked \in [Users -> Texts]
    /\ buttons \in [Users -> SUBSET {"skip", "pay"}]
    /\ dialogs \in [Users -> Nat]
    /\ hdl \in [Handlers -> Handler]
    /\ \A h \in Handlers : Cardinality(hdl[h].order) <= 1
    /\ code \in [used : Nat, active : BOOLEAN]
    /\ codeLock \in Handlers \cup {None}
    /\ orders \subseteq Order
    /\ activity \in [1..MaxOrders -> Activities]
    /\ placed \in 0..MaxOrders
    /\ panel \subseteq 1..MaxOrders
    /\ crashes \in 0..MaxCrashes

\* However often the buttons of a dialogue are clicked, and whatever else the
\* user sends meanwhile, a plan that was selected is bought at most once
\* (purchase.py:295-298 and 338-339).
OneOrderPerDialog ==
    \A u \in Users : Cardinality({o \in orders \cup Staged : o.user = u}) <= dialogs[u]

\* A committed subscription has its client on the panel and its price is
\* paid: timeouts, retries and a restart between the panel's answer and the
\* commit never leave a customer with a config that does not exist
\* (provisioning/manager.py:148-191).
ServedIsOnPanel ==
    \A o \in Subscribed(orders) :
        o.id \in panel /\ o.debited /\ ~o.refunded /\ o.status = "provisioned"

\* Nobody keeps both the money and the config: a refunded order has no
\* client on the panel, not even one whose creation timed out
\* (purchase.py:546-560).
RefundedHasNoClient ==
    \A o \in orders : o.refunded => o.id \notin panel /\ ~o.subscribed

\* The capacity check runs before the panel is called and locks nothing, but
\* a customer's wallet is locked by then: the clients that are active since they
\* were sold exceed max_clients by at most one purchase of every other customer,
\* and never by purchases of one customer alone.  What else exceeds it was
\* switched off and on again (provisioning/manager.py:103-114,
\* purchase.py:517-527, my_configs.py:593-622).
Kept(os) == {o \in Subscribed(os) : activity[o.id] = "kept"}
OvershootIsBounded ==
    LET kept == Kept(orders)
    IN  kept # {} => Cardinality(kept) < MaxClients + Cardinality({o.user : o \in kept})

\* A purchase that is rolled back gives its discount code back: every
\* counted use belongs to a committed order (repositories/discount.py:37-42).
UsesHaveOrders ==
    code.used <= Cardinality({o \in orders : o.code})

\* A click is handled to its end: no purchase waits for ever for the panel,
\* for a row or for another purchase that waits for it.
EveryClickEnds ==
    \A h \in Handlers : []<>(hdl[h].pc = "idle")

(* What the customer and the shop see of all this.                         *)

\* The plans a user has selected and no committed order is for.
Unbought == [u \in Users |-> dialogs[u] - Cardinality({o \in orders : o.user = u})]

Shop == INSTANCE Sale WITH chosen <- Unbought

\* A purchase with its transaction, its panel calls, retries and restarts is,
\* seen from outside, one sale: an order appears once, with its money settled
\* and within the plans that were selected, and no client is added any more
\* for an order that was given back or not paid; money that neither bought nor
\* came back is found under the status "processing" (purchase.py:506-563,
\* provisioning/manager.py:148-191).
ImplementsSale == Shop!SaleSpec

(* What the code says and does not keep.                                   *)

\* models/xui.py:33, "Maximum number of active clients allowed to be
\* provisioned on this server".  It is not kept even of the clients that were
\* never switched off.
SoldWithinMaxClients == Cardinality(Kept(orders)) <= MaxClients
=============================================================================
