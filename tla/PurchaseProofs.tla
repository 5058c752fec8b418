--------------------------- MODULE PurchaseProofs ---------------------------
(***************************************************************************)
(* What Purchase guarantees for any number of customers and of handlers at *)
(* a time, any capacity of the server, any number of attempts, and any     *)
(* number of restarts.                                                     *)
(***************************************************************************)
EXTENDS Purchase, FiniteSetTheorems, TLAPS

-----------------------------------------------------------------------------
(* The inductive invariant.                                                *)

\* What the properties ask of one order, committed or about to be.
GoodOrder(o) ==
    /\ o.subscribed => o.id \in panel /\ o.debited /\ ~o.refunded /\ o.status = "provisioned"
    /\ o.refunded => o.id \notin panel /\ ~o.subscribed /\ o.debited /\ o.status = "refunded"
    /\ ~o.debited => o.id \notin panel /\ ~o.refunded /\ o.status = "failed"
    /\ o.debited /\ ~o.refunded /\ ~o.subscribed => o.status = "processing"

\* Paid for, and neither served nor given back.
OpenOrder(o) == o.status = "processing" /\ o.debited /\ ~o.refunded /\ ~o.subscribed

\* What a handler holds at each of its steps: no order before it has placed
\* one, exactly one after; the client is certainly not on the panel before
\* the panel is called, and certainly there when the subscription is saved.
HandlerOK(h) ==
    /\ hdl[h].pc # "idle" => hdl[h].user \in Users
    /\ hdl[h].pc \notin {"idle", "typing"} => hdl[h].data.plan \in Plans
    /\ hdl[h].pc \in {"idle", "typing", "load", "code", "order"} => hdl[h].order = {}
    /\ hdl[h].pc \in {"capacity", "panel", "save"} =>
           \E o \in Order : hdl[h].order = {o} /\ OpenOrder(o)
    /\ hdl[h].pc = "commit" => \E o \in Order : hdl[h].order = {o} /\ GoodOrder(o)
    /\ hdl[h].pc = "capacity" => Client(h) \cap panel = {}
    /\ hdl[h].pc = "save" => Client(h) \subseteq panel
    /\ hdl[h].pc = "code" => hdl[h].data.code
    /\ hdl[h].useCode => /\ hdl[h].pc \notin {"idle", "typing", "load", "code"}
                         /\ hdl[h].data.code
    /\ \A o \in hdl[h].order : /\ o.user = hdl[h].user
                               /\ o.id <= placed
                               /\ hdl[h].useCode => o.code

\* No id is given twice.
IdsApart ==
    /\ \A o \in orders : o.id <= placed
    /\ \A i \in panel : i <= placed
    /\ \A g, h \in Handlers : \A o \in hdl[g].order, q \in hdl[h].order : o.id = q.id => g = h
    /\ \A h \in Handlers : \A o \in hdl[h].order, q \in orders : o.id # q.id

\* A customer's wallet is in one transaction at a time.
OneWallet ==
    \A g, h \in Handlers :
        /\ hdl[g].order # {} /\ hdl[h].order # {}
        /\ hdl[g].user = hdl[h].user
        => g = h

\* Handlers that may still place an order.
Coming == {h \in Handlers : hdl[h].pc # "idle" /\ hdl[h].order = {}}
RoomLeft == placed + Cardinality(Coming) <= MaxOrders

\* A selected plan is in the dialogue, in one handler or in one order.
OrdersOf(u) == {o \in orders : o.user = u}
Buying(u) == {h \in Handlers : hdl[h].user = u /\ hdl[h].pc \notin {"idle", "typing"}}
Chosen(u) == IF fsm[u].plan = None THEN 0 ELSE 1
PlansCounted ==
    \A u \in Users :
        Cardinality(OrdersOf(u)) + Cardinality(Buying(u)) + Chosen(u) <= dialogs[u]

\* No handler has read a count that the committed orders do not explain.
CodeOrders == {o \in orders : o.code}
UsesCounted ==
    /\ code.used <= Cardinality(CodeOrders)
    /\ \A h \in Handlers : hdl[h].used <= Cardinality(CodeOrders)

\* The handlers that have passed the capacity check and may still add to
\* what was sold; their customers are all different.
Past == {h \in Handlers : \/ hdl[h].pc \in {"panel", "save"}
                          \/ hdl[h].pc = "commit" /\ \E o \in hdl[h].order : o.subscribed}
UsersOf(H) == {hdl[h].user : h \in H}
Customers(os) == {o.user : o \in os}
Overshoot ==
    Kept(orders) # {} \/ Past # {} =>
        Cardinality(Kept(orders)) + Cardinality(Past) <
            MaxClients + Cardinality(Customers(Kept(orders)) \cup UsersOf(Past))

IInv ==
    /\ TypeOK
    /\ IsFiniteSet(orders)
    /\ \A h \in Handlers : HandlerOK(h)
    /\ \A o \in orders : GoodOrder(o)
    /\ IdsApart
    /\ OneWallet
    /\ RoomLeft
    /\ PlansCounted
    /\ UsesCounted
    /\ Overshoot

-----------------------------------------------------------------------------
(* What a handler's step does, in the terms of the invariant: h goes on as *)
(* x.  The invariant is proved against these forms.                        *)

Moved(h, x) == hdl' = [hdl EXCEPT ![h] = x]

Cleared(h) == [fsm EXCEPT ![hdl[h].user] = NoDialog]
Quiet == UNCHANGED <<asked, buttons, dialogs, activity, crashes>>

Ends(h, x) ==
    /\ hdl[h].pc \in {"typing", "load"}
    /\ x = IdleHandler
    /\ fsm' \in {fsm, Cleared(h)}
    /\ UNCHANGED <<code, orders, placed, panel>>

Takes(h, x) ==
    /\ hdl[h].pc = "typing"
    /\ fsm[hdl[h].user].plan # None
    /\ x.pc = "load" /\ x.user = hdl[h].user /\ x.used = hdl[h].used
    /\ x.data.plan \in Plans /\ x.order = {} /\ ~x.useCode
    /\ fsm' = Cleared(h)
    /\ UNCHANGED <<code, orders, placed, panel>>

Advances(h, x) ==
    /\ hdl[h].pc \in {"load", "code"}
    /\ x.pc \in {"code", "order"} /\ x.user = hdl[h].user /\ x.data = hdl[h].data
    /\ x.used \in {hdl[h].used, code.used} /\ x.order = {}
    /\ x.pc = "code" => x.data.code /\ ~x.useCode
    /\ x.useCode => x.data.code
    /\ UNCHANGED <<fsm, code, orders, placed, panel>>

Places(h, x) ==
    /\ hdl[h].pc = "order" /\ WalletFree(h)
    /\ x.pc \in {"capacity", "commit"} /\ x.user = hdl[h].user /\ x.data = hdl[h].data
    /\ x.used = hdl[h].used /\ (x.useCode => x.data.code)
    /\ \E o \in Order : /\ x.order = {o} /\ o.id = placed + 1 /\ o.user = hdl[h].user
                        /\ x.useCode => o.code
                        /\ x.pc = "capacity" => OpenOrder(o)
                        /\ x.pc = "commit" => ~o.debited /\ ~o.refunded /\ ~o.subscribed /\ o.status = "failed"
    /\ placed' = placed + 1
    /\ fsm' \in {fsm, Cleared(h)}
    /\ UNCHANGED <<code, orders, panel>>

\* The steps of provision_subscription: from the order o to the order q.
Refuses(h, x, o, q) ==
    hdl[h].pc = "capacity" /\ x.pc = "commit" /\ q = Refund(o) /\ panel' = panel
Checks(h, x, o, q) ==
    hdl[h].pc = "capacity" /\ HasRoom /\ x.pc = "panel" /\ q = o /\ panel' = panel
Calls(h, x, o, q) ==
    /\ hdl[h].pc = "panel" /\ q = o
    /\ \/ x.pc = "save" /\ panel' = panel \cup {o.id}
       \/ x.pc \in {"panel", "commit"} /\ panel' \in {panel, panel \cup {o.id}}
Saves(h, x, o, q) ==
    hdl[h].pc = "save" /\ x.pc = "commit" /\ q \in {o, Serve(o)} /\ panel' = panel

Provisions(h, x) ==
    /\ x.user = hdl[h].user /\ x.data = hdl[h].data /\ x.used = hdl[h].used
    /\ x.useCode => hdl[h].useCode
    /\ \E o, q \in Order :
          /\ hdl[h].order = {o} /\ OpenOrder(o) /\ x.order = {q}
          /\ \/ Refuses(h, x, o, q)
             \/ Checks(h, x, o, q)
             \/ Calls(h, x, o, q)
             \/ Saves(h, x, o, q)
    /\ fsm' \in {fsm, Cleared(h)}
    /\ UNCHANGED <<code, orders, placed>>

Commits(h, x) ==
    /\ hdl[h].pc = "commit"
    /\ x = IdleHandler
    /\ \/ /\ orders' = orders \cup hdl[h].order
          /\ code' = IF hdl[h].useCode THEN Counted(h) ELSE code
       \/ UNCHANGED <<orders, code>>
    /\ UNCHANGED <<fsm, placed, panel>>

Form(h, x) == Ends(h, x) \/ Takes(h, x) \/ Advances(h, x) \/ Places(h, x)
              \/ Provisions(h, x) \/ Commits(h, x)

LEMMA IdleTyped ==
    /\ NoDialog \in Dialog /\ NoDialog.plan = None
    /\ IdleHandler \in Handler
    /\ IdleHandler.pc = "idle" /\ IdleHandler.user = None /\ IdleHandler.order = {}
    /\ ~IdleHandler.useCode /\ IdleHandler.used = 0
<1>1. NoDialog \in Dialog
  BY DEF NoDialog, Dialog, States
<1>2. Attempts \in Nat /\ 0 \in 0..Attempts
  BY PurchaseAssumption
<1> QED BY <1>1, <1>2 DEF IdleHandler, Handler, PcValues, NoDialog

LEMMA MovedAt ==
    ASSUME hdl \in [Handlers -> Handler], NEW h \in Handlers, NEW x \in Handler, Moved(h, x)
    PROVE  /\ hdl' \in [Handlers -> Handler]
           /\ hdl'[h] = x
           /\ \A g \in Handlers : g # h => hdl'[g] = hdl[g]
BY DEF Moved

\* Before the order is placed.
LEMMA EarlyForms ==
    ASSUME IInv, NEW h \in Handlers,
           TypingFails(h) \/ TakeData(h) \/ Load(h) \/ UseCode(h)
    PROVE  \E x \in Handler : Moved(h, x) /\ (Ends(h, x) \/ Takes(h, x) \/ Advances(h, x))
<1>0. hdl[h] \in Handler /\ HandlerOK(h) /\ code.used \in Nat
  BY DEF IInv, TypeOK
<1>1. CASE TypingFails(h)
  BY <1>1, IdleTyped DEF TypingFails, Moved, Ends
<1>2. CASE TakeData(h)
  <2> DEFINE d == fsm[hdl[h].user]
  <2>1. hdl[h].pc = "typing" /\ hdl[h].user \in Users
    BY <1>0, <1>2 DEF TakeData, HandlerOK
  <2>2. d \in Dialog
    BY <2>1 DEF IInv, TypeOK
  <2>3. CASE d.plan = None
    BY <1>2, <2>1, <2>3, IdleTyped DEF TakeData, Taken, Moved, Ends, Cleared
  <2>4. CASE d.plan # None
    <3> DEFINE e == [d EXCEPT !.state = "none"]
               x == [hdl[h] EXCEPT !.pc = "load", !.data = e]
    <3>1. e \in Dialog /\ e.plan \in Plans
      BY <2>2, <2>4 DEF Dialog, States
    <3>2. Moved(h, x) /\ fsm' = Cleared(h) /\ UNCHANGED <<code, orders, placed, panel>>
      BY <1>2, <2>4 DEF TakeData, Moved, Taken, Cleared
    <3> HIDE DEF e
    <3>3. x \in Handler /\ x.pc = "load" /\ x.user = hdl[h].user /\ x.used = hdl[h].used
          /\ x.order = hdl[h].order /\ x.useCode = hdl[h].useCode /\ x.data = e
      BY <1>0, <3>1 DEF Handler, PcValues
    <3>4. hdl[h].order = {} /\ ~hdl[h].useCode
      BY <1>0, <2>1 DEF HandlerOK
    <3> HIDE DEF x
    <3> QED BY <2>1, <2>4, <3>1, <3>2, <3>3, <3>4 DEF Takes
  <2> QED BY <2>3, <2>4
<1>3. CASE Load(h)
  <2>1. hdl[h].pc = "load" /\ hdl[h].order = {} /\ ~hdl[h].useCode
    BY <1>0, <1>3 DEF Load, HandlerOK
  <2>2. UNCHANGED <<fsm, code, orders, placed, panel>>
    BY <1>3 DEF Load
  <2>3. CASE hdl' = [hdl EXCEPT ![h] = IdleHandler]
    BY <2>1, <2>2, <2>3, IdleTyped DEF Moved, Ends
  <2>4. CASE hdl[h].data.code /\ hdl' = [hdl EXCEPT ![h].used = code.used, ![h].pc = "code"]
    <3> DEFINE x == [hdl[h] EXCEPT !.used = code.used, !.pc = "code"]
    <3>1. x \in Handler /\ x.pc = "code" /\ x.user = hdl[h].user /\ x.used = code.used
          /\ x.order = hdl[h].order /\ x.useCode = hdl[h].useCode /\ x.data = hdl[h].data
      BY <1>0 DEF Handler, PcValues
    <3>2. Moved(h, x)
      BY <2>4 DEF Moved
    <3> HIDE DEF x
    <3> QED BY <2>1, <2>2, <2>4, <3>1, <3>2 DEF Advances
  <2>5. CASE hdl' = [hdl EXCEPT ![h].pc = "order"]
    <3> DEFINE x == [hdl[h] EXCEPT !.pc = "order"]
    <3>1. x \in Handler /\ x.pc = "order" /\ x.user = hdl[h].user /\ x.used = hdl[h].used
          /\ x.order = hdl[h].order /\ x.useCode = hdl[h].useCode /\ x.data = hdl[h].data
      BY <1>0 DEF Handler, PcValues
    <3>2. Moved(h, x)
      BY <2>5 DEF Moved
    <3> HIDE DEF x
    <3> QED BY <2>1, <2>2, <3>1, <3>2 DEF Advances
  <2> QED BY <1>3, <2>3, <2>4, <2>5 DEF Load
<1>4. CASE UseCode(h)
  <2> DEFINE x == [hdl[h] EXCEPT !.useCode = TRUE, !.pc = "order"]
  <2>1. x \in Handler /\ x.pc = "order" /\ x.user = hdl[h].user /\ x.used = hdl[h].used
        /\ x.order = hdl[h].order /\ x.data = hdl[h].data
    BY <1>0 DEF Handler, PcValues
  <2>2. Moved(h, x) /\ hdl[h].pc = "code" /\ UNCHANGED <<fsm, code, orders, placed, panel>>
    BY <1>4 DEF Moved, UseCode
  <2>3. hdl[h].order = {} /\ hdl[h].data.code
    BY <1>0, <2>2 DEF HandlerOK
  <2> HIDE DEF x
  <2> QED BY <2>1, <2>2, <2>3 DEF Advances
<1> QED BY <1>1, <1>2, <1>3, <1>4

\* A handler that may place an order has an id left for it.
LEMMA RoomForOne ==
    ASSUME IInv, NEW h \in Handlers, hdl[h].pc = "order"
    PROVE  placed + 1 \in 1..MaxOrders
<1>1. h \in Coming
  BY DEF IInv, HandlerOK, Coming
<1>2. IsFiniteSet(Coming)
  <2>1. Coming \in SUBSET Handlers
    BY DEF Coming
  <2> QED BY <2>1, PurchaseAssumption, FS_Subset
<1>3. Cardinality(Coming) \in Nat /\ Cardinality(Coming) # 0
  BY <1>1, <1>2, FS_CardinalityType, FS_EmptySet
<1> QED BY <1>3, PurchaseAssumption DEF IInv, RoomLeft, TypeOK

LEMMA PlaceForm ==
    ASSUME IInv, NEW h \in Handlers, PlaceOrder(h)
    PROVE  \E x \in Handler : Moved(h, x) /\ Places(h, x)
<1>0. /\ hdl[h] \in Handler /\ HandlerOK(h) /\ hdl[h].pc = "order"
      /\ placed + 1 \in 1..MaxOrders
  BY RoomForOne DEF IInv, TypeOK, PlaceOrder
<1>1. hdl[h].user \in Users /\ hdl[h].data.plan \in Plans /\ (hdl[h].useCode => hdl[h].data.code)
  BY <1>0 DEF HandlerOK
<1>2. hdl[h].data \in Dialog
  BY <1>0 DEF Handler
<1>3. ASSUME NEW s \in {"processing", "failed"}, NEW d \in BOOLEAN,
             NEW p \in {"capacity", "commit"},
             hdl' = [hdl EXCEPT ![h].pc = p, ![h].order = {NewOrder(h, s, d)}],
             p = "capacity" => s = "processing" /\ d,
             p = "commit" => s = "failed" /\ ~d
      PROVE  \E x \in Handler : Moved(h, x) /\ Places(h, x)
  <2> DEFINE o == NewOrder(h, s, d)
             x == [hdl[h] EXCEPT !.pc = p, !.order = {o}]
             n == IF hdl[h].data.name = None THEN DefaultName ELSE hdl[h].data.name
  <2>1. n \in Names /\ hdl[h].data.code \in BOOLEAN
    BY <1>2, PurchaseAssumption DEF Dialog
  <2>2. o \in Order
    <3> HIDE DEF n
    <3>1. o = [id |-> placed + 1, user |-> hdl[h].user, plan |-> hdl[h].data.plan, name |-> n,
               code |-> hdl[h].data.code, status |-> s, debited |-> d, refunded |-> FALSE,
               subscribed |-> FALSE]
      BY DEF NewOrder, n
    <3> QED BY <1>0, <1>1, <2>1, <3>1 DEF Order
  <2>3. o.id = placed + 1 /\ o.user = hdl[h].user /\ o.code = hdl[h].data.code
        /\ o.status = s /\ o.debited = d /\ ~o.refunded /\ ~o.subscribed
    BY DEF NewOrder
  <2>4. Moved(h, x)
    BY <1>3 DEF Moved
  <2> HIDE DEF o
  <2>5. /\ x \in Handler /\ x.pc = p /\ x.user = hdl[h].user /\ x.data = hdl[h].data
        /\ x.used = hdl[h].used /\ x.useCode = hdl[h].useCode /\ x.order = {o}
    BY <1>0, <2>2 DEF Handler, PcValues
  <2> HIDE DEF x
  <2>6. /\ p = "capacity" => OpenOrder(o)
        /\ p = "commit" => ~o.debited /\ ~o.refunded /\ ~o.subscribed /\ o.status = "failed"
    BY <1>3, <2>3 DEF OpenOrder
  <2>7. x.useCode => x.data.code /\ o.code
    BY <1>1, <2>3, <2>5
  <2>8. /\ placed' = placed + 1 /\ WalletFree(h) /\ fsm' \in {fsm, Cleared(h)}
        /\ UNCHANGED <<code, orders, panel>>
    BY DEF PlaceOrder, Report, Forget, Cleared
  <2> QED BY <1>0, <2>2, <2>3, <2>4, <2>5, <2>6, <2>7, <2>8 DEF Places
<1>4. CASE hdl' = [hdl EXCEPT ![h].pc = "capacity", ![h].order = {NewOrder(h, "processing", TRUE)}]
  BY <1>3, <1>4
<1>5. CASE hdl' = [hdl EXCEPT ![h].pc = "commit", ![h].order = {NewOrder(h, "failed", FALSE)}]
  BY <1>3, <1>5
<1> QED BY <1>4, <1>5 DEF PlaceOrder

\* From the debit to the end of provision_subscription.
LEMMA ProvisionForm ==
    ASSUME IInv, NEW h \in Handlers,
           \/ Refuse(h) \/ CheckCapacity(h) \/ PanelAdds(h)
           \/ PanelSilent(h) \/ PanelRefuses(h) \/ Save(h)
    PROVE  \E x \in Handler : Moved(h, x) /\ Provisions(h, x)
<1>0. hdl[h] \in Handler /\ HandlerOK(h) /\ hdl[h].pc \in {"capacity", "panel", "save"}
  BY DEF IInv, TypeOK, Refuse, CheckCapacity, PanelAdds, PanelSilent, PanelRefuses, Save
<1>1. PICK o \in Order : hdl[h].order = {o} /\ OpenOrder(o)
  BY <1>0 DEF HandlerOK
<1>2. /\ {Refund(p) : p \in hdl[h].order} = {Refund(o)}
      /\ {Serve(p) : p \in hdl[h].order} = {Serve(o)}
      /\ Client(h) = {o.id}
  BY <1>1 DEF Client
<1>3. Refund(o) \in Order /\ Serve(o) \in Order
  BY DEF Refund, Serve, Order
<1>left. Attempts \in Nat /\ 0 \in 0..Attempts /\ Attempts \in 0..Attempts
  BY PurchaseAssumption
<1>4. fsm' \in {fsm, Cleared(h)} /\ UNCHANGED <<code, orders, placed>>
  BY DEF Refuse, CheckCapacity, PanelAdds, PanelSilent, PanelRefuses, Save, Report, Forget, Cleared
<1>5. ASSUME NEW x \in Handler, NEW q \in Order, Moved(h, x),
             x.user = hdl[h].user, x.data = hdl[h].data, x.used = hdl[h].used,
             x.useCode => hdl[h].useCode, x.order = {q},
             Refuses(h, x, o, q) \/ Checks(h, x, o, q) \/ Calls(h, x, o, q) \/ Saves(h, x, o, q)
      PROVE  \E y \in Handler : Moved(h, y) /\ Provisions(h, y)
  BY <1>1, <1>4, <1>5 DEF Provisions
<1>6. CASE Refuse(h)
  <2> DEFINE x == [hdl[h] EXCEPT !.pc = "commit", !.order = {Refund(o)}]
  <2>1. /\ x \in Handler /\ x.pc = "commit" /\ x.user = hdl[h].user /\ x.data = hdl[h].data
        /\ x.used = hdl[h].used /\ x.useCode = hdl[h].useCode /\ x.order = {Refund(o)}
    BY <1>0, <1>3 DEF Handler, PcValues
  <2>2. Moved(h, x)
    BY <1>2, <1>6 DEF Moved, Refuse
  <2> HIDE DEF x
  <2>3. Refuses(h, x, o, Refund(o))
    BY <1>6, <2>1 DEF Refuse, Refuses
  <2> QED BY <1>3, <1>5, <2>1, <2>2, <2>3
<1>7. CASE CheckCapacity(h)
  <2> DEFINE x == [hdl[h] EXCEPT !.pc = "panel", !.left = Attempts]
  <2>1. /\ x \in Handler /\ x.pc = "panel" /\ x.user = hdl[h].user /\ x.data = hdl[h].data
        /\ x.used = hdl[h].used /\ x.useCode = hdl[h].useCode /\ x.order = {o}
    BY <1>0, <1>1, <1>left DEF Handler, PcValues
  <2>2. Moved(h, x)
    BY <1>7 DEF Moved, CheckCapacity
  <2> HIDE DEF x
  <2>3. Checks(h, x, o, o)
    BY <1>7, <2>1 DEF CheckCapacity, Checks
  <2> QED BY <1>5, <2>1, <2>2, <2>3
<1>8. ASSUME NEW p \in {"panel", "save", "commit"}, NEW l \in 0..Attempts,
             hdl' = [hdl EXCEPT ![h] = [hdl[h] EXCEPT !.pc = p, !.left = l]],
             hdl[h].pc = "panel", panel' \in {panel, panel \cup {o.id}},
             p = "save" => panel' = panel \cup {o.id}
      PROVE  \E y \in Handler : Moved(h, y) /\ Provisions(h, y)
  <2> DEFINE x == [hdl[h] EXCEPT !.pc = p, !.left = l]
  <2>1. /\ x \in Handler /\ x.pc = p /\ x.user = hdl[h].user /\ x.data = hdl[h].data
        /\ x.used = hdl[h].used /\ x.useCode = hdl[h].useCode /\ x.order = {o}
    BY <1>0, <1>1 DEF Handler, PcValues
  <2>2. Moved(h, x)
    BY <1>8 DEF Moved
  <2> HIDE DEF x
  <2>3. Calls(h, x, o, o)
    BY <1>8, <2>1 DEF Calls
  <2> QED BY <1>5, <2>1, <2>2, <2>3
<1>9. CASE PanelAdds(h)
  <2>1. hdl' = [hdl EXCEPT ![h] = [hdl[h] EXCEPT !.pc = "save", !.left = 0]]
    BY <1>9 DEF PanelAdds
  <2>2. hdl[h].pc = "panel" /\ panel' = panel \cup {o.id}
    BY <1>2, <1>9 DEF PanelAdds
  <2> QED BY <1>8, <1>left, <2>1, <2>2
<1>10. ASSUME hdl' = [hdl EXCEPT ![h] = GaveUp(h)], hdl[h].pc = "panel",
              panel' \in {panel, panel \cup {o.id}}
       PROVE  \E y \in Handler : Moved(h, y) /\ Provisions(h, y)
  <2>1. hdl' = [hdl EXCEPT ![h] = [hdl[h] EXCEPT !.pc = "commit", !.left = 0]]
    BY <1>10 DEF GaveUp
  <2> QED BY <1>8, <1>10, <1>left, <2>1
<1>11. CASE PanelSilent(h)
  <2>1. hdl[h].pc = "panel" /\ panel' \in {panel, panel \cup {o.id}}
    BY <1>2, <1>11 DEF PanelSilent
  <2>2. CASE hdl[h].left > 1
    <3>1. hdl[h].left - 1 \in 0..Attempts
      BY <1>0, <2>2, PurchaseAssumption DEF Handler
    <3>2. hdl' = [hdl EXCEPT ![h] = [hdl[h] EXCEPT !.pc = "panel", !.left = hdl[h].left - 1]]
      <4>1. hdl' = [hdl EXCEPT ![h] = [hdl[h] EXCEPT !.left = hdl[h].left - 1]]
        BY <1>11, <2>2 DEF PanelSilent
      <4>2. [hdl[h] EXCEPT !.left = hdl[h].left - 1]
                = [hdl[h] EXCEPT !.pc = "panel", !.left = hdl[h].left - 1]
        BY <1>0, <2>1 DEF Handler
      <4> QED BY <4>1, <4>2
    <3> QED BY <1>8, <2>1, <3>1, <3>2
  <2>3. CASE ~(hdl[h].left > 1)
    BY <1>10, <1>11, <2>1, <2>3 DEF PanelSilent
  <2> QED BY <2>2, <2>3
<1>12. CASE PanelRefuses(h)
  BY <1>10, <1>12 DEF PanelRefuses
<1>13. CASE Save(h)
  <2>1. hdl[h].pc = "save" /\ panel' = panel
    BY <1>13 DEF Save
  <2>2. CASE hdl' = [hdl EXCEPT ![h].pc = "commit", ![h].broken = TRUE]
    <3> DEFINE x == [hdl[h] EXCEPT !.pc = "commit", !.broken = TRUE]
    <3>1. /\ x \in Handler /\ x.pc = "commit" /\ x.user = hdl[h].user /\ x.data = hdl[h].data
          /\ x.used = hdl[h].used /\ x.useCode = hdl[h].useCode /\ x.order = {o}
      BY <1>0, <1>1 DEF Handler, PcValues
    <3>2. Moved(h, x)
      BY <2>2 DEF Moved
    <3> HIDE DEF x
    <3> QED BY <1>5, <2>1, <3>1, <3>2 DEF Saves
  <2>3. CASE hdl' = [hdl EXCEPT ![h].pc = "commit", ![h].order = {Serve(p) : p \in @}]
    <3> DEFINE x == [hdl[h] EXCEPT !.pc = "commit", !.order = {Serve(o)}]
    <3>1. /\ x \in Handler /\ x.pc = "commit" /\ x.user = hdl[h].user /\ x.data = hdl[h].data
          /\ x.used = hdl[h].used /\ x.useCode = hdl[h].useCode /\ x.order = {Serve(o)}
      BY <1>0, <1>3 DEF Handler, PcValues
    <3>2. Moved(h, x)
      BY <1>2, <2>3 DEF Moved
    <3> HIDE DEF x
    <3> QED BY <1>3, <1>5, <2>1, <3>1, <3>2 DEF Saves
  <2> QED BY <1>13, <2>2, <2>3 DEF Save
<1> QED BY <1>6, <1>7, <1>9, <1>11, <1>12, <1>13

\* Every step of a handler has one of the forms.
LEMMA StepForm ==
    ASSUME IInv, NEW h \in Handlers, Step(h)
    PROVE  \E x \in Handler : Moved(h, x) /\ Form(h, x)
<1>1. CASE Commit(h) \/ CommitFails(h)
  <2>1. Moved(h, IdleHandler) /\ Commits(h, IdleHandler)
    BY <1>1 DEF Commit, CommitFails, Moved, Commits
  <2> QED BY <2>1, IdleTyped DEF Form
<1>2. CASE TypingFails(h) \/ TakeData(h) \/ Load(h) \/ UseCode(h)
  BY <1>2, EarlyForms DEF Form
<1>3. CASE PlaceOrder(h)
  BY <1>3, PlaceForm DEF Form
<1>4. CASE \/ Refuse(h) \/ CheckCapacity(h) \/ PanelAdds(h)
           \/ PanelSilent(h) \/ PanelRefuses(h) \/ Save(h)
  BY <1>4, ProvisionForm DEF Form
<1> QED BY <1>1, <1>2, <1>3, <1>4 DEF Step

-----------------------------------------------------------------------------
(* Orders and the panel.                                                   *)

LEMMA OrderEdits ==
    ASSUME NEW o \in Order
    PROVE  /\ Refund(o).id = o.id /\ Refund(o).user = o.user /\ (o.code => Refund(o).code)
           /\ Serve(o).id = o.id /\ Serve(o).user = o.user /\ (o.code => Serve(o).code)
           /\ Refund(o).status = "refunded" /\ Refund(o).refunded
           /\ Refund(o).subscribed = o.subscribed /\ Refund(o).debited = o.debited
           /\ Serve(o).status = "provisioned" /\ Serve(o).subscribed
           /\ Serve(o).debited = o.debited /\ Serve(o).refunded = o.refunded
BY DEF Refund, Serve, Order

\* A step adds to the panel at most the client of its own order.
LEMMA PanelGrows ==
    ASSUME IInv, NEW h \in Handlers, NEW x \in Handler, Form(h, x)
    PROVE  /\ panel \subseteq panel'
           /\ \A i \in panel' : i \in panel \/ (\E o \in hdl[h].order : o.id = i)
           /\ placed \in Nat /\ placed' \in {placed, placed + 1} /\ placed <= placed'
<1>1. placed \in Nat
  BY PurchaseAssumption DEF IInv, TypeOK
<1>2. CASE Provisions(h, x)
  <2>1. PICK o, q \in Order :
           /\ hdl[h].order = {o}
           /\ Refuses(h, x, o, q) \/ Checks(h, x, o, q) \/ Calls(h, x, o, q) \/ Saves(h, x, o, q)
    BY <1>2 DEF Provisions
  <2>2. panel' \in {panel, panel \cup {o.id}}
    BY <2>1 DEF Refuses, Checks, Calls, Saves
  <2>3. placed' = placed
    BY <1>2 DEF Provisions
  <2> QED BY <1>1, <2>1, <2>2, <2>3
<1>3. CASE Places(h, x)
  BY <1>1, <1>3 DEF Places
<1>4. CASE Ends(h, x) \/ Takes(h, x) \/ Advances(h, x) \/ Commits(h, x)
  BY <1>1, <1>4 DEF Ends, Takes, Advances, Commits
<1> QED BY <1>2, <1>3, <1>4 DEF Form

\* An order that this step does not touch is what it was.
LEMMA OthersKeep ==
    ASSUME IInv, NEW h \in Handlers, NEW x \in Handler, Form(h, x),
           NEW p \in Order, p.id <= placed, \A o \in hdl[h].order : o.id # p.id
    PROVE  /\ p.id \in panel' <=> p.id \in panel
           /\ p.id <= placed'
           /\ GoodOrder(p) => GoodOrder(p)'
<1>1. p.id \in panel' <=> p.id \in panel
  BY PanelGrows
<1>2. p.id \in Nat
  BY PurchaseAssumption DEF Order
<1> QED BY <1>1, <1>2, PanelGrows DEF GoodOrder

\* The handlers other than the one that moves.
LEMMA OtherHandlers ==
    ASSUME IInv, NEW h \in Handlers, NEW x \in Handler, Moved(h, x), Form(h, x),
           NEW g \in Handlers, g # h
    PROVE  HandlerOK(g)'
<1>1. hdl'[g] = hdl[g] /\ HandlerOK(g) /\ hdl[g] \in Handler
  BY MovedAt DEF IInv, TypeOK
<1>2. ASSUME NEW p \in hdl[g].order
      PROVE  p \in Order /\ p.id <= placed /\ \A o \in hdl[h].order : o.id # p.id
  BY <1>1, <1>2 DEF HandlerOK, Handler, IInv, IdsApart
<1>3. ASSUME NEW p \in hdl[g].order
      PROVE  /\ p.id \in panel' <=> p.id \in panel
             /\ p.id <= placed'
             /\ GoodOrder(p) => GoodOrder(p)'
  BY <1>2, <1>3, OthersKeep
<1>4. Client(g)' = Client(g)
  BY <1>1 DEF Client
<1>5. hdl[g].pc = "commit" => \E o \in Order : hdl[g].order = {o} /\ GoodOrder(o)'
  BY <1>1, <1>3 DEF HandlerOK
<1>6. /\ hdl[g].pc = "capacity" => Client(g) \cap panel' = {}
      /\ hdl[g].pc = "save" => Client(g) \subseteq panel'
  BY <1>1, <1>3 DEF HandlerOK, Client
<1> HIDE DEF Client
<1> QED BY <1>1, <1>3, <1>4, <1>5, <1>6 DEF HandlerOK

LEMMA MovedHandler ==
    ASSUME IInv, NEW h \in Handlers, NEW x \in Handler, Moved(h, x), Form(h, x)
    PROVE  HandlerOK(h)'
<1>0. hdl'[h] = x /\ HandlerOK(h) /\ hdl[h] \in Handler
  BY MovedAt DEF IInv, TypeOK
<1>1. CASE x = IdleHandler
  BY <1>0, <1>1, IdleTyped DEF HandlerOK
<1>2. CASE Takes(h, x)
  BY <1>0, <1>2 DEF Takes, HandlerOK
<1>3. CASE Advances(h, x)
  BY <1>0, <1>3 DEF Advances, HandlerOK
<1>4. CASE Places(h, x)
  <2>1. PICK o \in Order : /\ x.order = {o} /\ o.id = placed + 1 /\ o.user = hdl[h].user
                           /\ x.useCode => o.code
                           /\ x.pc = "capacity" => OpenOrder(o)
                           /\ x.pc = "commit" => ~o.debited /\ ~o.refunded /\ ~o.subscribed /\ o.status = "failed"
    BY <1>4 DEF Places
  <2>3. Client(h)' = {o.id} /\ panel' = panel
    BY <1>0, <1>4, <2>1 DEF Client, Places
  <2>4. placed + 1 \notin panel
    BY PanelGrows DEF IInv, IdsApart
  <2>2. x.pc = "commit" => GoodOrder(o)'
    BY <2>1, <2>3, <2>4 DEF GoodOrder
  <2>5. x.pc = "capacity" => Client(h)' \cap panel' = {}
    BY <2>1, <2>3, <2>4
  <2>6. \A p \in x.order : p.user = x.user /\ p.id <= placed' /\ (x.useCode => p.code)
    BY <1>4, <2>1, PanelGrows DEF Places
  <2> HIDE DEF Client
  <2> QED BY <1>0, <1>4, <2>1, <2>2, <2>5, <2>6 DEF Places, HandlerOK
<1>5. CASE Provisions(h, x)
  <2>1. PICK o, q \in Order :
           /\ hdl[h].order = {o} /\ OpenOrder(o) /\ x.order = {q}
           /\ Refuses(h, x, o, q) \/ Checks(h, x, o, q) \/ Calls(h, x, o, q) \/ Saves(h, x, o, q)
    BY <1>5 DEF Provisions
  <2>2. /\ q.id = o.id /\ q.user = o.user /\ (o.code => q.code)
        /\ hdl[h].pc \in {"capacity", "panel", "save"}
        /\ x.pc \in {"panel", "save", "commit"}
    BY <2>1, OrderEdits DEF Refuses, Checks, Calls, Saves
  <2>3. Client(h) = {o.id} /\ Client(h)' = {q.id}
    BY <1>0, <2>1 DEF Client
  <2>4. x.pc = "commit" => GoodOrder(q)'
    <3>1. CASE Refuses(h, x, o, q)
      <4>1. o.id \notin panel'
        BY <1>0, <2>3, <3>1 DEF Refuses, HandlerOK
      <4> QED BY <2>1, <2>2, <3>1, <4>1, OrderEdits DEF Refuses, GoodOrder, OpenOrder
    <3>2. CASE q = o
      BY <2>1, <3>2 DEF GoodOrder, OpenOrder
    <3>3. CASE Saves(h, x, o, q) /\ q = Serve(o)
      <4>1. o.id \in panel'
        BY <1>0, <2>3, <3>3 DEF Saves, HandlerOK
      <4> QED BY <2>1, <2>2, <3>3, <4>1, OrderEdits DEF GoodOrder, OpenOrder
    <3> QED BY <2>1, <3>1, <3>2, <3>3 DEF Checks, Calls, Saves
  <2>5. x.pc \in {"panel", "save"} => OpenOrder(q)
    BY <2>1 DEF Refuses, Checks, Calls, Saves
  <2>6. x.pc = "save" => Client(h)' \subseteq panel'
    BY <2>1, <2>2, <2>3 DEF Refuses, Checks, Calls, Saves
  <2>7. /\ x.user = hdl[h].user /\ x.data = hdl[h].data /\ (x.useCode => hdl[h].useCode)
        /\ placed' = placed
    BY <1>5 DEF Provisions
  <2>8. \A p \in x.order : p.user = x.user /\ p.id <= placed' /\ (x.useCode => p.code)
    BY <1>0, <2>1, <2>2, <2>7 DEF HandlerOK
  <2> HIDE DEF Client
  <2> QED BY <1>0, <2>1, <2>2, <2>4, <2>5, <2>6, <2>7, <2>8 DEF HandlerOK
<1> QED BY <1>1, <1>2, <1>3, <1>4, <1>5 DEF Form, Ends, Commits

\* What a step makes of the set of orders.
LEMMA OrdersAfter ==
    ASSUME IInv, NEW h \in Handlers, NEW x \in Handler, Form(h, x)
    PROVE  \/ orders' = orders
           \/ Commits(h, x) /\ x = IdleHandler /\ orders' = orders \cup hdl[h].order
BY DEF Form, Ends, Takes, Advances, Places, Provisions, Commits

\* What is committed was good, and stays so.
LEMMA GoodStep ==
    ASSUME IInv, NEW h \in Handlers, NEW x \in Handler, Form(h, x)
    PROVE  \A o \in orders' : GoodOrder(o)'
<1>1. ASSUME NEW p \in orders PROVE GoodOrder(p)'
  <2>1. p \in Order /\ p.id <= placed /\ GoodOrder(p) /\ \A o \in hdl[h].order : o.id # p.id
    BY <1>1 DEF IInv, TypeOK, IdsApart
  <2> QED BY <2>1, OthersKeep
<1>2. ASSUME Commits(h, x), NEW p \in hdl[h].order PROVE GoodOrder(p)'
  <2>1. GoodOrder(p)
    BY <1>2 DEF Commits, IInv, HandlerOK
  <2>2. panel' = panel
    BY <1>2 DEF Commits
  <2> QED BY <2>1, <2>2 DEF GoodOrder
<1> QED BY <1>1, <1>2, OrdersAfter

\* The ids a handler holds are its old ones, or the next one.
LEMMA IdsHeld ==
    ASSUME IInv, NEW h \in Handlers, NEW x \in Handler, Form(h, x), NEW q \in x.order
    PROVE  \/ (\E o \in hdl[h].order : o.id = q.id) /\ orders' = orders
           \/ q.id = placed + 1 /\ placed' = placed + 1 /\ orders' = orders
<1>1. CASE Provisions(h, x)
  <2>1. PICK o, p \in Order :
           /\ hdl[h].order = {o} /\ x.order = {p}
           /\ Refuses(h, x, o, p) \/ Checks(h, x, o, p) \/ Calls(h, x, o, p) \/ Saves(h, x, o, p)
    BY <1>1 DEF Provisions
  <2>2. p.id = o.id
    BY <2>1, OrderEdits DEF Refuses, Checks, Calls, Saves
  <2> QED BY <1>1, <2>1, <2>2 DEF Provisions
<1>2. CASE Places(h, x)
  BY <1>2 DEF Places
<1>3. CASE Ends(h, x) \/ Takes(h, x) \/ Advances(h, x) \/ Commits(h, x)
  BY <1>3, IdleTyped DEF Ends, Takes, Advances, Commits
<1> QED BY <1>1, <1>2, <1>3 DEF Form

LEMMA IdsStep ==
    ASSUME IInv, NEW h \in Handlers, NEW x \in Handler, Moved(h, x), Form(h, x)
    PROVE  IdsApart'
<1>0. /\ IdsApart /\ hdl' \in [Handlers -> Handler] /\ hdl'[h] = x
      /\ \A g \in Handlers : g # h => hdl'[g] = hdl[g]
  BY MovedAt DEF IInv, TypeOK
<1>1. /\ placed \in Nat /\ placed <= placed' /\ placed' \in {placed, placed + 1}
      /\ \A i \in panel' : i \in panel \/ (\E o \in hdl[h].order : o.id = i)
  BY PanelGrows
<1>2. \A g \in Handlers : \A o \in hdl[g].order : o.id <= placed /\ o \in Order
  BY DEF IInv, TypeOK, HandlerOK, Handler
<1>3. \A o \in orders : o.id <= placed /\ o \in Order
  BY DEF IInv, TypeOK, IdsApart
<1>4. \A o \in Order : o.id \in Nat
  BY PurchaseAssumption DEF Order
<1>5. \A o \in orders' : o.id <= placed'
  BY <1>1, <1>2, <1>3, <1>4, OrdersAfter
<1>6. \A i \in panel' : i <= placed'
  <2>1. \A i \in panel : i \in Nat /\ i <= placed
    BY PurchaseAssumption DEF IInv, TypeOK, IdsApart
  <2> QED BY <1>1, <1>2, <1>4, <2>1
<1>7. ASSUME NEW g \in Handlers, NEW k \in Handlers, NEW o \in hdl'[g].order, NEW q \in hdl'[k].order,
             o.id = q.id
      PROVE  g = k
  <2>1. CASE g = h /\ k # h
    <3>1. o \in x.order /\ q \in hdl[k].order
      BY <1>0, <1>7, <2>1
    <3> QED BY <1>0, <1>1, <1>2, <1>4, <1>7, <2>1, <3>1, IdsHeld DEF IdsApart
  <2>2. CASE g # h /\ k = h
    <3>1. q \in x.order /\ o \in hdl[g].order
      BY <1>0, <1>7, <2>2
    <3> QED BY <1>0, <1>1, <1>2, <1>4, <1>7, <2>2, <3>1, IdsHeld DEF IdsApart
  <2>3. CASE g # h /\ k # h
    BY <1>0, <1>7, <2>3 DEF IdsApart
  <2> QED BY <2>1, <2>2, <2>3
<1>8. ASSUME NEW g \in Handlers, NEW o \in hdl'[g].order, NEW q \in orders' PROVE o.id # q.id
  <2>1. CASE g = h
    <3>1. o \in x.order
      BY <1>0, <1>8, <2>1
    <3>2. orders' = orders
      BY <3>1, IdsHeld
    <3> QED BY <1>0, <1>1, <1>3, <1>4, <1>8, <3>1, <3>2, IdsHeld DEF IdsApart
  <2>2. CASE g # h
    <3>1. o \in hdl[g].order
      BY <1>0, <1>8, <2>2
    <3> QED BY <1>0, <1>8, <2>2, <3>1, OrdersAfter DEF IdsApart
  <2> QED BY <2>1, <2>2
<1> QED BY <1>5, <1>6, <1>7, <1>8 DEF IdsApart

\* A wallet enters a second transaction only when it has left the first.
LEMMA WalletStep ==
    ASSUME IInv, NEW h \in Handlers, NEW x \in Handler, Moved(h, x), Form(h, x)
    PROVE  OneWallet'
<1>0. /\ OneWallet /\ HandlerOK(h) /\ hdl'[h] = x
      /\ \A g \in Handlers : g # h => hdl'[g] = hdl[g]
  BY MovedAt DEF IInv, TypeOK
<1>1. ASSUME NEW g \in Handlers, g # h, hdl[g].order # {}, x.order # {}, hdl[g].user = x.user
      PROVE  FALSE
  <2>1. x.user = hdl[h].user /\ (hdl[h].order # {} \/ WalletFree(h))
    BY <1>1, IdleTyped DEF Form, Ends, Takes, Advances, Places, Provisions, Commits
  <2> QED BY <1>0, <1>1, <2>1 DEF OneWallet, WalletFree
<1> QED BY <1>0, <1>1 DEF OneWallet

LEMMA RoomStep ==
    ASSUME IInv, NEW h \in Handlers, NEW x \in Handler, Moved(h, x), Form(h, x)
    PROVE  RoomLeft'
<1>0. /\ HandlerOK(h) /\ hdl'[h] = x /\ placed \in Nat /\ MaxOrders \in Nat
      /\ \A g \in Handlers : g # h => hdl'[g] = hdl[g]
  BY MovedAt, PurchaseAssumption DEF IInv, TypeOK
<1>1. IsFiniteSet(Coming) /\ Cardinality(Coming) \in Nat
  <2>1. Coming \in SUBSET Handlers
    BY DEF Coming
  <2> QED BY <2>1, PurchaseAssumption, FS_Subset, FS_CardinalityType
<1>2. ASSUME placed' = placed, Coming' \subseteq Coming PROVE RoomLeft'
  <2>1. Coming' \in SUBSET Coming
    BY <1>2
  <2>2. Cardinality(Coming') \in Nat /\ Cardinality(Coming') <= Cardinality(Coming)
    BY <1>1, <2>1, FS_Subset, FS_CardinalityType
  <2> QED BY <1>0, <1>1, <1>2, <2>2 DEF IInv, RoomLeft
<1>3. CASE Places(h, x)
  <2>1. h \in Coming /\ Coming' = Coming \ {h}
    BY <1>0, <1>3 DEF Places, Coming, HandlerOK
  <2>2. Cardinality(Coming') = Cardinality(Coming) - 1
    BY <1>1, <2>1, FS_RemoveElement
  <2>3. placed' = placed + 1
    BY <1>3 DEF Places
  <2> QED BY <1>0, <1>1, <2>2, <2>3 DEF IInv, RoomLeft
<1>4. CASE Ends(h, x) \/ Takes(h, x) \/ Advances(h, x) \/ Provisions(h, x) \/ Commits(h, x)
  <2>1. placed' = placed
    BY <1>4 DEF Ends, Takes, Advances, Provisions, Commits
  <2>2. x.pc # "idle" /\ x.order = {} => h \in Coming
    BY <1>0, <1>4, IdleTyped DEF Ends, Takes, Advances, Provisions, Commits, Coming, HandlerOK
  <2>3. Coming' \subseteq Coming
    BY <1>0, <2>2 DEF Coming
  <2> QED BY <1>2, <2>1, <2>3
<1> QED BY <1>3, <1>4 DEF Form

-----------------------------------------------------------------------------
(* Counting.                                                               *)

\* The values of a function on a finite set.
LEMMA ImageCard ==
    ASSUME NEW S, IsFiniteSet(S), NEW T, NEW f \in [S -> T], \A t \in T : \E s \in S : f[s] = t
    PROVE  /\ IsFiniteSet(T)
           /\ Cardinality(T) <= Cardinality(S)
           /\ (\A s, t \in S : f[s] = f[t] => s = t) => Cardinality(T) = Cardinality(S)
<1>1. f \in Surjection(S, T)
  BY DEF Surjection
<1>2. (\A s, t \in S : f[s] = f[t] => s = t) => f \in Injection(S, T)
  BY DEF Injection, IsInjective
<1> QED BY <1>1, <1>2, FS_Surjection

\* A part of a finite set is no larger, and both sizes are numbers.
LEMMA SubsetCard ==
    ASSUME NEW S, IsFiniteSet(S), NEW T, T \subseteq S
    PROVE  /\ IsFiniteSet(T)
           /\ Cardinality(S) \in Nat /\ Cardinality(T) \in Nat
           /\ Cardinality(T) <= Cardinality(S)
<1>1. T \in SUBSET S
  OBVIOUS
<1> QED BY <1>1, FS_Subset, FS_CardinalityType

LEMMA FiniteParts ==
    ASSUME IInv
    PROVE  /\ \A u : IsFiniteSet(OrdersOf(u)) /\ IsFiniteSet(Buying(u))
           /\ \A u : Cardinality(OrdersOf(u)) \in Nat /\ Cardinality(Buying(u)) \in Nat
           /\ IsFiniteSet(CodeOrders) /\ Cardinality(CodeOrders) \in Nat
           /\ IsFiniteSet(Kept(orders)) /\ Cardinality(Kept(orders)) \in Nat
           /\ IsFiniteSet(Active(orders)) /\ Cardinality(Active(orders)) \in Nat
           /\ Cardinality(Kept(orders)) <= Cardinality(Active(orders))
           /\ IsFiniteSet(Past) /\ Cardinality(Past) \in Nat
<1>1. IsFiniteSet(orders) /\ IsFiniteSet(Handlers)
  BY PurchaseAssumption DEF IInv
<1>2. \A u : OrdersOf(u) \subseteq orders /\ Buying(u) \subseteq Handlers
  BY DEF OrdersOf, Buying
<1>3. CodeOrders \subseteq orders /\ Active(orders) \subseteq orders /\ Past \subseteq Handlers
  BY DEF CodeOrders, Subscribed, Active, Past
<1>4. Kept(orders) \subseteq Active(orders)
  BY DEF Kept, Active
<1>5. IsFiniteSet(Active(orders))
  BY <1>1, <1>3, SubsetCard
<1> QED BY <1>1, <1>2, <1>3, <1>4, <1>5, SubsetCard

\* A commit adds one order, and it is new.
LEMMA CommitAdds ==
    ASSUME IInv, NEW h \in Handlers, hdl[h].pc = "commit"
    PROVE  \E o \in Order : /\ hdl[h].order = {o} /\ o \notin orders /\ GoodOrder(o)
                            /\ o.user = hdl[h].user /\ (hdl[h].useCode => o.code)
<1>1. PICK o \in Order : hdl[h].order = {o} /\ GoodOrder(o)
  BY DEF IInv, HandlerOK
<1>2. o \notin orders
  BY <1>1 DEF IInv, IdsApart
<1> QED BY <1>1, <1>2 DEF IInv, HandlerOK

LEMMA FiniteStep ==
    ASSUME IInv, NEW h \in Handlers, NEW x \in Handler, Form(h, x)
    PROVE  IsFiniteSet(orders')
<1>1. CASE orders' = orders
  BY <1>1 DEF IInv
<1>2. CASE Commits(h, x) /\ orders' = orders \cup hdl[h].order
  <2>1. PICK o : hdl[h].order = {o}
    BY <1>2, CommitAdds DEF Commits
  <2> QED BY <1>2, <2>1, FS_AddElement DEF IInv
<1> QED BY <1>1, <1>2, OrdersAfter

\* A plan moves from the dialogue to a handler to an order; none is copied.
LEMMA PlansStep ==
    ASSUME IInv, NEW h \in Handlers, NEW x \in Handler, Moved(h, x), Form(h, x),
           dialogs' = dialogs
    PROVE  PlansCounted'
<1> SUFFICES ASSUME NEW u \in Users
             PROVE  Cardinality(OrdersOf(u)') + Cardinality(Buying(u)') + Chosen(u)' <= dialogs[u]
  BY DEF PlansCounted
<1>0. /\ HandlerOK(h) /\ hdl'[h] = x /\ fsm \in [Users -> Dialog] /\ dialogs[u] \in Nat
      /\ \A g \in Handlers : g # h => hdl'[g] = hdl[g]
      /\ Cardinality(OrdersOf(u)) + Cardinality(Buying(u)) + Chosen(u) <= dialogs[u]
      /\ Cardinality(OrdersOf(u)) \in Nat /\ Cardinality(Buying(u)) \in Nat
      /\ IsFiniteSet(OrdersOf(u)) /\ IsFiniteSet(Buying(u))
  BY MovedAt, FiniteParts DEF IInv, TypeOK, PlansCounted
<1>1. Chosen(u) \in 0..1 /\ Chosen(u)' \in 0..1
  BY DEF Chosen
<1>2. fsm' \in {fsm, Cleared(h)} => Chosen(u)' <= Chosen(u)
  <2>1. Cleared(h)[u] \in {fsm[u], NoDialog}
    BY <1>0 DEF Cleared
  <2> QED BY <2>1, IdleTyped DEF Chosen
<1>3. ASSUME orders' = orders, Buying(u)' \subseteq Buying(u), Chosen(u)' <= Chosen(u)
      PROVE  Cardinality(OrdersOf(u)') + Cardinality(Buying(u)') + Chosen(u)' <= dialogs[u]
  <2>1. OrdersOf(u)' = OrdersOf(u)
    BY <1>3 DEF OrdersOf
  <2>2. Cardinality(Buying(u)') \in Nat /\ Cardinality(Buying(u)') <= Cardinality(Buying(u))
    BY <1>0, <1>3, SubsetCard
  <2> QED BY <1>0, <1>1, <1>3, <2>1, <2>2
<1>4. CASE Ends(h, x) \/ Advances(h, x) \/ Places(h, x) \/ Provisions(h, x)
  <2>1. orders' = orders /\ fsm' \in {fsm, Cleared(h)}
    BY <1>4 DEF Ends, Advances, Places, Provisions
  <2>2. Buying(u)' \subseteq Buying(u)
    <3>1. x.pc = "idle" \/ (x.user = hdl[h].user /\ hdl[h].pc \notin {"idle", "typing"})
      BY <1>4, IdleTyped DEF Ends, Advances, Places, Provisions, Refuses, Checks, Calls, Saves
    <3> QED BY <1>0, <3>1 DEF Buying
  <2> QED BY <1>2, <1>3, <2>1, <2>2
<1>5. CASE Takes(h, x)
  <2>1. orders' = orders /\ fsm' = Cleared(h) /\ x.user = hdl[h].user
        /\ hdl[h].pc = "typing" /\ x.pc = "load" /\ hdl[h].user \in Users
    BY <1>0, <1>5 DEF Takes, HandlerOK
  <2>2. CASE u # hdl[h].user
    <3>1. Buying(u)' \subseteq Buying(u)
      BY <1>0, <2>1, <2>2 DEF Buying
    <3> QED BY <1>2, <1>3, <2>1, <3>1
  <2>3. CASE u = hdl[h].user
    <3>1. Chosen(u) = 1 /\ Chosen(u)' = 0
      <4>1. fsm[u].plan # None /\ fsm'[u] = NoDialog
        BY <1>0, <1>5, <2>1, <2>3 DEF Takes, Cleared
      <4> QED BY <4>1, IdleTyped DEF Chosen
    <3>2. Buying(u)' = Buying(u) \cup {h} /\ h \notin Buying(u)
      BY <1>0, <2>1, <2>3 DEF Buying
    <3>3. Cardinality(Buying(u)') = Cardinality(Buying(u)) + 1
      BY <1>0, <3>2, FS_AddElement
    <3>4. OrdersOf(u)' = OrdersOf(u)
      BY <2>1 DEF OrdersOf
    <3> QED BY <1>0, <3>1, <3>3, <3>4
  <2> QED BY <2>2, <2>3
<1>6. CASE Commits(h, x)
  <2>1. hdl[h].pc = "commit" /\ x = IdleHandler /\ fsm' = fsm
    BY <1>6 DEF Commits
  <2>2. Buying(u)' = Buying(u) \ {h}
    BY <1>0, <2>1, IdleTyped DEF Buying
  <2>3. CASE orders' = orders \/ u # hdl[h].user
    <3>1. OrdersOf(u)' = OrdersOf(u)
      <4>1. PICK o : hdl[h].order = {o} /\ o.user = hdl[h].user
        BY <2>1, CommitAdds
      <4> QED BY <1>6, <2>3, <4>1 DEF Commits, OrdersOf
    <3>2. Cardinality(Buying(u)') \in Nat /\ Cardinality(Buying(u)') <= Cardinality(Buying(u))
      BY <1>0, <2>2, SubsetCard
    <3>3. Chosen(u)' <= Chosen(u)
      BY <1>2, <2>1
    <3> QED BY <1>0, <1>1, <3>1, <3>2, <3>3
  <2>4. CASE orders' = orders \cup hdl[h].order /\ u = hdl[h].user
    <3>1. PICK o : hdl[h].order = {o} /\ o \notin orders /\ o.user = u
      BY <2>1, <2>4, CommitAdds
    <3>2. OrdersOf(u)' = OrdersOf(u) \cup {o} /\ o \notin OrdersOf(u)
      BY <2>4, <3>1 DEF OrdersOf
    <3>3. Cardinality(OrdersOf(u)') = Cardinality(OrdersOf(u)) + 1
      BY <1>0, <3>2, FS_AddElement
    <3>4. h \in Buying(u)
      BY <2>1, <2>4 DEF Buying
    <3>5. Cardinality(Buying(u)') = Cardinality(Buying(u)) - 1
      BY <1>0, <2>2, <3>4, FS_RemoveElement
    <3>6. Chosen(u)' <= Chosen(u)
      BY <1>2, <2>1
    <3> QED BY <1>0, <1>1, <3>3, <3>5, <3>6
  <2> QED BY <1>6, <2>3, <2>4 DEF Commits
<1> QED BY <1>4, <1>5, <1>6 DEF Form

\* A counted use is an order with the code.
LEMMA UsesStep ==
    ASSUME IInv, NEW h \in Handlers, NEW x \in Handler, Moved(h, x), Form(h, x)
    PROVE  UsesCounted'
<1>0. /\ UsesCounted /\ hdl'[h] = x /\ hdl[h] \in Handler /\ code.used \in Nat
      /\ \A g \in Handlers : hdl[g].used \in Nat
      /\ \A g \in Handlers : g # h => hdl'[g] = hdl[g]
      /\ IsFiniteSet(CodeOrders) /\ Cardinality(CodeOrders) \in Nat
  BY MovedAt, FiniteParts DEF IInv, TypeOK, Handler
<1>1. CASE ~Commits(h, x)
  <2>1. orders' = orders /\ code' = code /\ x.used \in {0, hdl[h].used, code.used}
    BY <1>1, IdleTyped DEF Form, Ends, Takes, Advances, Places, Provisions
  <2>2. CodeOrders' = CodeOrders
    BY <2>1 DEF CodeOrders
  <2> QED BY <1>0, <2>1, <2>2 DEF UsesCounted
<1>2. CASE Commits(h, x)
  <2>1. hdl[h].pc = "commit" /\ x.used = 0
    BY <1>2, IdleTyped DEF Commits
  <2>2. CASE orders' = orders /\ code' = code
    <3>1. CodeOrders' = CodeOrders
      BY <2>2 DEF CodeOrders
    <3> QED BY <1>0, <2>1, <2>2, <3>1 DEF UsesCounted
  <2>3. CASE /\ orders' = orders \cup hdl[h].order
             /\ code' = IF hdl[h].useCode THEN Counted(h) ELSE code
    <3>1. PICK o : hdl[h].order = {o} /\ o \notin orders /\ (hdl[h].useCode => o.code)
      BY <2>1, CommitAdds
    <3>2. CASE o.code
      <4>1. CodeOrders' = CodeOrders \cup {o} /\ o \notin CodeOrders
        BY <2>3, <3>1, <3>2 DEF CodeOrders
      <4>2. Cardinality(CodeOrders') = Cardinality(CodeOrders) + 1
        BY <1>0, <4>1, FS_AddElement
      <4>3. code'.used <= Cardinality(CodeOrders) + 1
        BY <1>0, <2>3 DEF UsesCounted, Counted
      <4> QED BY <1>0, <2>1, <4>2, <4>3 DEF UsesCounted
    <3>3. CASE ~o.code
      <4>1. CodeOrders' = CodeOrders
        BY <2>3, <3>1, <3>3 DEF CodeOrders
      <4>2. code' = code
        BY <2>3, <3>1, <3>3
      <4> QED BY <1>0, <2>1, <4>1, <4>2 DEF UsesCounted
    <3> QED BY <3>2, <3>3
  <2> QED BY <1>2, <2>2, <2>3 DEF Commits
<1> QED BY <1>1, <1>2

\* Handlers are of at most as many customers; of exactly as many when their
\* customers differ.
LEMMA UsersCard ==
    ASSUME NEW H, H \subseteq Handlers
    PROVE  /\ IsFiniteSet(UsersOf(H))
           /\ Cardinality(UsersOf(H)) \in Nat /\ Cardinality(H) \in Nat
           /\ Cardinality(UsersOf(H)) <= Cardinality(H)
           /\ (\A g, h \in H : hdl[g].user = hdl[h].user => g = h) =>
                  Cardinality(UsersOf(H)) = Cardinality(H)
<1>1. IsFiniteSet(H) /\ Cardinality(H) \in Nat
  BY PurchaseAssumption, SubsetCard
<1> DEFINE f == [h \in H |-> hdl[h].user]
<1>2. f \in [H -> UsersOf(H)] /\ \A u \in UsersOf(H) : \E h \in H : f[h] = u
  BY DEF UsersOf
<1>3. \A h \in H : f[h] = hdl[h].user
  OBVIOUS
<1> HIDE DEF f
<1>4. /\ IsFiniteSet(UsersOf(H))
      /\ Cardinality(UsersOf(H)) <= Cardinality(H)
      /\ (\A g, h \in H : f[g] = f[h] => g = h) => Cardinality(UsersOf(H)) = Cardinality(H)
  BY <1>1, <1>2, ImageCard
<1> QED BY <1>1, <1>3, <1>4, FS_CardinalityType

LEMMA CustomersCard ==
    ASSUME NEW os, IsFiniteSet(os)
    PROVE  /\ IsFiniteSet(Customers(os)) /\ Cardinality(Customers(os)) \in Nat
           /\ Cardinality(Customers(os)) <= Cardinality(os)
<1> DEFINE f == [o \in os |-> o.user]
<1>1. f \in [os -> Customers(os)] /\ \A u \in Customers(os) : \E o \in os : f[o] = u
  BY DEF Customers
<1> HIDE DEF f
<1>2. IsFiniteSet(Customers(os)) /\ Cardinality(Customers(os)) <= Cardinality(os)
  BY <1>1, ImageCard
<1> QED BY <1>2, FS_CardinalityType

\* Two finite sets have at most as many elements as both have.
LEMMA UnionCard ==
    ASSUME NEW S, IsFiniteSet(S), NEW T, IsFiniteSet(T)
    PROVE  /\ IsFiniteSet(S \cup T) /\ Cardinality(S \cup T) \in Nat
           /\ Cardinality(S \cup T) <= Cardinality(S) + Cardinality(T)
<1>1. /\ IsFiniteSet(S \cup T)
      /\ Cardinality(S \cup T) = Cardinality(S) + Cardinality(T) - Cardinality(S \cap T)
  BY FS_Union
<1>2. /\ Cardinality(S) \in Nat /\ Cardinality(T) \in Nat
      /\ Cardinality(S \cap T) \in Nat /\ Cardinality(S \cup T) \in Nat
  BY <1>1, FS_Intersection, FS_CardinalityType
<1> QED BY <1>1, <1>2

\* A set that loses elements loses as many as there are.
LEMMA LossCard ==
    ASSUME NEW S, IsFiniteSet(S), NEW T, T \subseteq S
    PROVE  /\ IsFiniteSet(T) /\ Cardinality(T) \in Nat
           /\ IsFiniteSet(S \ T) /\ Cardinality(S \ T) \in Nat
           /\ Cardinality(S) = Cardinality(T) + Cardinality(S \ T)
<1>1. S \cap T = T /\ S \ T \subseteq S
  OBVIOUS
<1>2. Cardinality(S \ T) = Cardinality(S) - Cardinality(T)
  BY <1>1, FS_Difference
<1> QED BY <1>1, <1>2, SubsetCard

\* Every purchase past the check that ends without a client, and every client
\* that is switched off, takes at most one customer out of the margin.
LEMMA FewerHolders ==
    ASSUME IInv, Kept(orders)' \subseteq Kept(orders), Past' \subseteq Past,
           \A g \in Past' : hdl'[g].user = hdl[g].user
    PROVE  Overshoot'
<1> DEFINE kept == Kept(orders)
           kept2 == Kept(orders)'
           past2 == Past'
           offs == kept \ kept2
           gone == Past \ past2
           all == Customers(kept) \cup UsersOf(Past)
           left == Customers(kept2) \cup UsersOf(past2)
           lost == Customers(offs) \cup UsersOf(gone)
<1>1. IsFiniteSet(kept) /\ Cardinality(kept) \in Nat /\ IsFiniteSet(Past) /\ Cardinality(Past) \in Nat
  BY FiniteParts
<1>2. /\ IsFiniteSet(kept2) /\ Cardinality(kept2) \in Nat
      /\ IsFiniteSet(offs) /\ Cardinality(offs) \in Nat
      /\ Cardinality(kept) = Cardinality(kept2) + Cardinality(offs)
  BY <1>1, LossCard
<1>3. /\ Cardinality(past2) \in Nat /\ Cardinality(gone) \in Nat
      /\ Cardinality(Past) = Cardinality(past2) + Cardinality(gone)
  BY <1>1, LossCard
<1>4. gone \subseteq Handlers /\ past2 \subseteq Handlers
  BY DEF Past
<1>5. /\ IsFiniteSet(UsersOf(gone)) /\ Cardinality(UsersOf(gone)) \in Nat
      /\ Cardinality(UsersOf(gone)) <= Cardinality(gone)
      /\ IsFiniteSet(UsersOf(past2))
  BY <1>4, UsersCard
<1>6. /\ IsFiniteSet(Customers(offs)) /\ Cardinality(Customers(offs)) \in Nat
      /\ Cardinality(Customers(offs)) <= Cardinality(offs)
      /\ IsFiniteSet(Customers(kept2))
  BY <1>2, CustomersCard
<1>7. (Customers(Kept(orders)) \cup UsersOf(Past))' = left
  BY DEF Customers, UsersOf
<1>8. all \subseteq left \cup lost
  BY DEF Customers, UsersOf
<1>9. kept2 # {} \/ past2 # {} => kept # {} \/ Past # {}
  OBVIOUS
<1>10. kept # {} \/ Past # {} =>
           Cardinality(kept) + Cardinality(Past) < MaxClients + Cardinality(all)
  BY DEF IInv, Overshoot
<1> HIDE DEF kept, kept2, past2, offs, gone
<1>11. /\ IsFiniteSet(left) /\ Cardinality(left) \in Nat
       /\ IsFiniteSet(lost) /\ Cardinality(lost) \in Nat
       /\ Cardinality(lost) <= Cardinality(offs) + Cardinality(gone)
  <2>1. IsFiniteSet(left) /\ Cardinality(left) \in Nat
    BY <1>5, <1>6, UnionCard
  <2>2. /\ IsFiniteSet(lost) /\ Cardinality(lost) \in Nat
        /\ Cardinality(lost) <= Cardinality(Customers(offs)) + Cardinality(UsersOf(gone))
    BY <1>5, <1>6, UnionCard
  <2> HIDE DEF left, lost
  <2> QED BY <1>2, <1>3, <1>5, <1>6, <2>1, <2>2
<1> HIDE DEF all, left, lost
<1>12. /\ Cardinality(all) \in Nat
       /\ Cardinality(all) <= Cardinality(left) + Cardinality(lost)
  <2>1. /\ IsFiniteSet(left \cup lost) /\ Cardinality(left \cup lost) \in Nat
        /\ Cardinality(left \cup lost) <= Cardinality(left) + Cardinality(lost)
    BY <1>11, UnionCard
  <2>2. Cardinality(all) \in Nat /\ Cardinality(all) <= Cardinality(left \cup lost)
    BY <1>8, <2>1, SubsetCard
  <2> QED BY <1>11, <2>1, <2>2
<1>13. kept2 # {} \/ past2 # {} =>
           Cardinality(kept2) + Cardinality(past2) < MaxClients + Cardinality(left)
  BY <1>1, <1>2, <1>3, <1>9, <1>10, <1>11, <1>12, PurchaseAssumption
<1> QED BY <1>7, <1>13 DEF Overshoot, kept2, past2

\* The handlers past the check hold orders of different customers.
LEMMA PastHolds ==
    ASSUME IInv, NEW g \in Handlers, g \in Past \/ hdl[g].pc = "capacity"
    PROVE  hdl[g].order # {}
BY DEF IInv, HandlerOK, Past

\* With room left, everybody past the check is a customer of the margin.
LEMMA CheckOvershoots ==
    ASSUME IInv, NEW h \in Handlers, NEW x \in Handler, Moved(h, x),
           hdl[h].pc = "capacity", x.pc = "panel", x.user = hdl[h].user, HasRoom, orders' = orders,
           activity' = activity
    PROVE  Overshoot'
<1> DEFINE kept == Kept(orders)
           now == Past \cup {h}
<1>0. hdl'[h] = x /\ \A g \in Handlers : g # h => hdl'[g] = hdl[g]
  BY MovedAt DEF IInv, TypeOK
<1>1. Past' = now /\ now \subseteq Handlers
  BY <1>0 DEF Past
<1>2. UsersOf(Past)' = UsersOf(now)
  BY <1>0, <1>1 DEF UsersOf
<1>3. \A g, k \in now : hdl[g].user = hdl[k].user => g = k
  BY <1>1, PastHolds DEF IInv, OneWallet
<1>4. /\ IsFiniteSet(UsersOf(now)) /\ Cardinality(now) \in Nat
      /\ Cardinality(UsersOf(now)) = Cardinality(now)
  BY <1>1, <1>3, UsersCard
<1>5. IsFiniteSet(kept) /\ Cardinality(kept) \in Nat /\ IsFiniteSet(Customers(kept))
  BY FiniteParts, CustomersCard
<1>6. /\ Cardinality(Customers(kept) \cup UsersOf(now)) \in Nat
      /\ Cardinality(UsersOf(now)) <= Cardinality(Customers(kept) \cup UsersOf(now))
  BY <1>4, <1>5, FS_Union, SubsetCard
<1>7. Cardinality(kept) < MaxClients
  <2> HIDE DEF kept
  <2> QED BY FiniteParts, PurchaseAssumption DEF HasRoom, kept
<1>8. Cardinality(kept) + Cardinality(now) <
          MaxClients + Cardinality(Customers(kept) \cup UsersOf(now))
  <2> HIDE DEF kept, now
  <2> QED BY <1>4, <1>5, <1>6, <1>7, PurchaseAssumption
<1>9. Kept(orders)' = kept
  BY DEF Kept, Subscribed
<1> HIDE DEF kept, now
<1> QED BY <1>1, <1>2, <1>8, <1>9 DEF Overshoot, Customers

\* A commit turns a handler past the check into a client that is kept.
LEMMA CommitOvershoots ==
    ASSUME IInv, NEW h \in Handlers, NEW x \in Handler, Moved(h, x), Commits(h, x),
           activity' = activity
    PROVE  Overshoot'
<1>0. /\ hdl'[h] = IdleHandler /\ \A g \in Handlers : g # h => hdl'[g] = hdl[g]
      /\ hdl[h].pc = "commit"
  BY MovedAt DEF IInv, TypeOK, Commits
<1>1. Past' = Past \ {h}
  BY <1>0, IdleTyped DEF Past
<1>2. \A g \in Past' : hdl'[g] = hdl[g] /\ g \in Handlers
  BY <1>0, <1>1 DEF Past
<1>3. CASE Kept(orders)' = Kept(orders)
  BY <1>1, <1>2, <1>3, FewerHolders
<1>4. PICK o \in Order : hdl[h].order = {o} /\ o \notin orders /\ o.user = hdl[h].user
  BY <1>0, CommitAdds
<1>5. CASE \/ orders' = orders
           \/ /\ orders' = orders \cup {o}
              /\ ~(o.subscribed /\ activity[o.id] = "kept")
  <2>1. Kept(orders)' = Kept(orders)
    BY <1>5 DEF Kept, Subscribed
  <2> QED BY <1>3, <2>1
<1>6. CASE orders' = orders \cup {o} /\ o.subscribed /\ activity[o.id] = "kept"
  <2> DEFINE kept == Kept(orders)
  <2>1. Kept(orders)' = kept \cup {o} /\ o \notin kept
    BY <1>4, <1>6 DEF Kept, Subscribed
  <2>2. h \in Past
    BY <1>0, <1>4, <1>6 DEF Past
  <2>3. (Customers(Kept(orders)) \cup UsersOf(Past))' = Customers(kept) \cup UsersOf(Past)
    <3>1. Customers(Kept(orders))' = Customers(kept) \cup {o.user}
      <4> HIDE DEF kept
      <4> QED BY <2>1 DEF Customers
    <3>2. UsersOf(Past)' = UsersOf(Past \ {h})
      BY <1>1, <1>2 DEF UsersOf
    <3>3. UsersOf(Past) = UsersOf(Past \ {h}) \cup {o.user}
      BY <1>4, <2>2 DEF UsersOf
    <3> QED BY <3>1, <3>2, <3>3
  <2>4. /\ IsFiniteSet(kept) /\ Cardinality(kept) \in Nat
        /\ IsFiniteSet(Past) /\ Cardinality(Past) \in Nat
    BY FiniteParts
  <2>5. Cardinality(kept \cup {o}) = Cardinality(kept) + 1
    BY <2>1, <2>4, FS_AddElement
  <2>6. Cardinality(Past') = Cardinality(Past) - 1
    BY <1>1, <2>2, <2>4, FS_RemoveElement
  <2>7. Cardinality(kept) + Cardinality(Past) <
            MaxClients + Cardinality(Customers(kept) \cup UsersOf(Past))
    BY <2>2 DEF IInv, Overshoot
  <2> DEFINE all == Customers(kept) \cup UsersOf(Past)
  <2>8. Cardinality(kept \cup {o}) + Cardinality(Past') < MaxClients + Cardinality(all)
    <3> HIDE DEF kept, all
    <3> QED BY <2>4, <2>5, <2>6, <2>7 DEF all
  <2>9. Overshoot' = (\/ Kept(orders)' # {} \/ Past' # {} =>
                         Cardinality(Kept(orders)') + Cardinality(Past') <
                             MaxClients + Cardinality((Customers(Kept(orders)) \cup UsersOf(Past))'))
    BY DEF Overshoot
  <2> HIDE DEF kept, all
  <2> QED BY <2>1, <2>3, <2>8, <2>9 DEF all
<1> QED BY <1>4, <1>5, <1>6 DEF Commits

LEMMA OvershootStep ==
    ASSUME IInv, NEW h \in Handlers, NEW x \in Handler, Moved(h, x), Form(h, x),
           activity' = activity
    PROVE  Overshoot'
<1>0. /\ hdl'[h] = x /\ \A g \in Handlers : g # h => hdl'[g] = hdl[g]
      /\ HandlerOK(h)
  BY MovedAt DEF IInv, TypeOK
<1>1. ASSUME orders' = orders, h \in Past' => h \in Past /\ x.user = hdl[h].user
      PROVE  Overshoot'
  <2>1. Past' \subseteq Past
    BY <1>0, <1>1 DEF Past
  <2>2. \A g \in Past' : hdl'[g].user = hdl[g].user
    BY <1>0, <1>1 DEF Past
  <2>3. Kept(orders)' = Kept(orders)
    BY <1>1 DEF Kept, Subscribed
  <2> QED BY <2>1, <2>2, <2>3, FewerHolders
<1>2. CASE Ends(h, x) \/ Takes(h, x) \/ Advances(h, x) \/ Places(h, x)
  <2>1. orders' = orders
    BY <1>2 DEF Ends, Takes, Advances, Places
  <2>2. h \notin Past'
    BY <1>0, <1>2, IdleTyped DEF Ends, Takes, Advances, Places, Past
  <2> QED BY <1>1, <2>1, <2>2
<1>3. CASE Provisions(h, x)
  <2>1. PICK o, q \in Order :
           /\ hdl[h].order = {o} /\ OpenOrder(o) /\ x.order = {q}
           /\ Refuses(h, x, o, q) \/ Checks(h, x, o, q) \/ Calls(h, x, o, q) \/ Saves(h, x, o, q)
    BY <1>3 DEF Provisions
  <2>2. orders' = orders /\ x.user = hdl[h].user
    BY <1>3 DEF Provisions
  <2>3. CASE Checks(h, x, o, q)
    BY <2>2, <2>3, CheckOvershoots DEF Checks
  <2>4. CASE Refuses(h, x, o, q)
    <3>1. ~q.subscribed /\ x.pc = "commit"
      <4>1. q = Refund(o) /\ ~o.subscribed /\ x.pc = "commit"
        BY <2>1, <2>4 DEF Refuses, OpenOrder
      <4>2. q.subscribed = o.subscribed
        BY <4>1, OrderEdits
      <4> QED BY <4>1, <4>2
    <3>2. h \notin Past'
      BY <1>0, <2>1, <3>1 DEF Past
    <3> QED BY <1>1, <2>2, <3>2
  <2>5. CASE Calls(h, x, o, q) \/ Saves(h, x, o, q)
    <3>1. h \in Past
      BY <2>5 DEF Calls, Saves, Past
    <3> QED BY <1>1, <2>2, <3>1
  <2> QED BY <2>1, <2>3, <2>4, <2>5
<1>4. CASE Commits(h, x)
  BY <1>4, CommitOvershoots
<1> QED BY <1>2, <1>3, <1>4 DEF Form

-----------------------------------------------------------------------------
(* Every step keeps the invariant.                                         *)

LEMMA AtMostOne ==
    ASSUME NEW S, S = {} \/ \E o : S = {o}
    PROVE  Cardinality(S) <= 1
<1>1. CASE S = {}
  <2>1. Cardinality(S) = 0
    BY <1>1, FS_EmptySet
  <2> QED BY <2>1
<1>2. ASSUME NEW o, S = {o} PROVE Cardinality(S) <= 1
  <2>1. Cardinality(S) = 1
    BY <1>2, FS_Singleton
  <2> QED BY <2>1
<1> QED BY <1>1, <1>2

\* The variables that the forms leave out.
LEMMA StepRest ==
    ASSUME TypeOK, NEW h \in Handlers, Step(h)
    PROVE  Quiet /\ codeLock' \in Handlers \cup {None}
<1>1. CASE Commit(h) \/ CommitFails(h)
  BY <1>1 DEF Commit, CommitFails, Release, Quiet, TypeOK
<1>2. CASE \/ TypingFails(h) \/ TakeData(h) \/ Load(h) \/ UseCode(h) \/ PlaceOrder(h)
           \/ Refuse(h) \/ CheckCapacity(h) \/ PanelAdds(h) \/ PanelSilent(h)
           \/ PanelRefuses(h) \/ Save(h)
  BY <1>2 DEF TypingFails, TakeData, Load, UseCode, PlaceOrder, Refuse, CheckCapacity,
              PanelAdds, PanelSilent, PanelRefuses, Save, Quiet, TypeOK
<1> QED BY <1>1, <1>2 DEF Step

LEMMA FormTyped ==
    ASSUME IInv, NEW h \in Handlers, NEW x \in Handler, Moved(h, x), Form(h, x)
    PROVE  /\ hdl' \in [Handlers -> Handler]
           /\ \A g \in Handlers : Cardinality(hdl'[g].order) <= 1
           /\ fsm' \in [Users -> Dialog]
           /\ code' \in [used : Nat, active : BOOLEAN]
           /\ orders' \subseteq Order
           /\ placed' \in 0..MaxOrders
           /\ panel' \subseteq 1..MaxOrders
<1>0. TypeOK /\ hdl[h] \in Handler
  BY DEF IInv, TypeOK
<1>1. hdl' \in [Handlers -> Handler] /\ \A g \in Handlers : HandlerOK(g)'
  BY <1>0, MovedAt, OtherHandlers, MovedHandler DEF TypeOK
<1>2. \A g \in Handlers : Cardinality(hdl'[g].order) <= 1
  <2> SUFFICES ASSUME NEW g \in Handlers PROVE Cardinality(hdl'[g].order) <= 1
    OBVIOUS
  <2>1. hdl'[g].order = {} \/ \E o \in Order : hdl'[g].order = {o}
    BY <1>1 DEF HandlerOK, Handler, PcValues
  <2> QED BY <2>1, AtMostOne
<1>3. fsm' \in [Users -> Dialog]
  <2>1. fsm' \in {fsm, Cleared(h)}
    BY DEF Form, Ends, Takes, Advances, Places, Provisions, Commits
  <2> QED BY <1>0, <2>1, IdleTyped DEF TypeOK, Cleared
<1>4. code' \in [used : Nat, active : BOOLEAN]
  <2>1. code' \in {code, Counted(h)}
    BY DEF Form, Ends, Takes, Advances, Places, Provisions, Commits
  <2>2. Counted(h) \in [used : Nat, active : BOOLEAN]
    BY <1>0 DEF Counted, Handler, TypeOK
  <2> QED BY <1>0, <2>1, <2>2 DEF TypeOK
<1>5. orders' \subseteq Order
  <2>1. orders \subseteq Order
    BY <1>0 DEF TypeOK
  <2>2. hdl[h].order \subseteq Order
    BY <1>0 DEF Handler
  <2> QED BY <2>1, <2>2, OrdersAfter
<1>6. placed' \in 0..MaxOrders
  <2>1. CASE Places(h, x)
    BY <2>1, RoomForOne, PurchaseAssumption DEF Places
  <2>2. CASE ~Places(h, x)
    BY <1>0, <2>2 DEF Form, Ends, Takes, Advances, Provisions, Commits, TypeOK
  <2> QED BY <2>1, <2>2
<1>7. panel' \subseteq 1..MaxOrders
  <2>1. \A o \in hdl[h].order : o.id \in 1..MaxOrders
    BY <1>0 DEF Handler, Order
  <2>2. panel \subseteq 1..MaxOrders
    BY <1>0 DEF TypeOK
  <2>3. \A i \in panel' : i \in panel \/ (\E o \in hdl[h].order : o.id = i)
    BY PanelGrows
  <2> QED BY <2>1, <2>2, <2>3
<1> QED BY <1>1, <1>2, <1>3, <1>4, <1>5, <1>6, <1>7

LEMMA HandlerStep ==
    ASSUME IInv, NEW h \in Handlers, Step(h)
    PROVE  IInv'
<1>1. PICK x \in Handler : Moved(h, x) /\ Form(h, x)
  BY StepForm
<1>2. Quiet /\ codeLock' \in Handlers \cup {None}
  BY StepRest DEF IInv
<1>3. TypeOK'
  BY <1>1, <1>2, FormTyped DEF IInv, TypeOK, Quiet
<1>4. IsFiniteSet(orders') /\ (\A o \in orders' : GoodOrder(o)')
  BY <1>1, FiniteStep, GoodStep
<1>5. \A g \in Handlers : HandlerOK(g)'
  BY <1>1, OtherHandlers, MovedHandler
<1>6. IdsApart' /\ OneWallet' /\ RoomLeft' /\ UsesCounted' /\ Overshoot'
  BY <1>1, <1>2, IdsStep, WalletStep, RoomStep, UsesStep, OvershootStep DEF Quiet
<1>7. PlansCounted'
  BY <1>1, <1>2, PlansStep DEF Quiet
<1> QED BY <1>3, <1>4, <1>5, <1>6, <1>7 DEF IInv

\* What concerns neither the handlers nor the orders.
LEMMA DialogueKeeps ==
    ASSUME IInv, UNCHANGED <<hdl, code, codeLock, orders, placed, panel>>,
           Kept(orders)' \subseteq Kept(orders), TypeOK', PlansCounted'
    PROVE  IInv'
<1> USE DEF IInv
<1>1. IsFiniteSet(orders') /\ (\A o \in orders' : GoodOrder(o)')
  BY DEF GoodOrder
<1>2. \A g \in Handlers : HandlerOK(g)'
  <2>1. \A g \in Handlers : Client(g)' = Client(g)
    BY DEF Client
  <2>2. \A o : GoodOrder(o)' <=> GoodOrder(o)
    BY DEF GoodOrder
  <2> HIDE DEF Client, GoodOrder
  <2> QED BY <2>1, <2>2 DEF HandlerOK
<1>3. IdsApart' /\ OneWallet'
  BY DEF IdsApart, OneWallet
<1>4. Coming' = Coming /\ CodeOrders' = CodeOrders /\ Past' = Past
  BY DEF Coming, CodeOrders, Past
<1>5. RoomLeft' /\ UsesCounted'
  BY <1>4 DEF RoomLeft, UsesCounted
<1>6. Overshoot'
  <2>1. \A g \in Past' : hdl'[g].user = hdl[g].user
    OBVIOUS
  <2> QED BY <1>4, <2>1, FewerHolders
<1> QED BY <1>1, <1>2, <1>3, <1>5, <1>6

\* Selecting a plan is the only step of the dialogue that adds one.
LEMMA DialoguePlans ==
    ASSUME IInv, UNCHANGED <<hdl, orders>>,
           \A u \in Users : /\ dialogs'[u] \in Nat
                            /\ \/ fsm'[u].plan \in {fsm[u].plan, None} /\ dialogs'[u] = dialogs[u]
                               \/ dialogs'[u] = dialogs[u] + 1
    PROVE  PlansCounted'
<1> SUFFICES ASSUME NEW u \in Users
             PROVE  Cardinality(OrdersOf(u)') + Cardinality(Buying(u)') + Chosen(u)' <= dialogs'[u]
  BY DEF PlansCounted
<1>1. OrdersOf(u)' = OrdersOf(u) /\ Buying(u)' = Buying(u)
  BY DEF OrdersOf, Buying
<1>2. Cardinality(OrdersOf(u)) \in Nat /\ Cardinality(Buying(u)) \in Nat /\ dialogs[u] \in Nat
  BY FiniteParts DEF IInv, TypeOK
<1>3. Cardinality(OrdersOf(u)) + Cardinality(Buying(u)) + Chosen(u) <= dialogs[u]
  BY DEF IInv, PlansCounted
<1>4. Chosen(u) \in 0..1 /\ Chosen(u)' \in 0..1
  BY DEF Chosen
<1>5. fsm'[u].plan \in {fsm[u].plan, None} => Chosen(u)' <= Chosen(u)
  BY DEF Chosen
<1> QED BY <1>1, <1>2, <1>3, <1>4, <1>5

\* The dialogue, without the click that starts a purchase.
LEMMA DialogueStep ==
    ASSUME IInv, NEW u \in Users,
           \/ \E p \in Plans : SelectPlan(u, p)
           \/ EnterName(u) \/ (\E n \in Names : NameChecked(u, n))
           \/ SkipDiscount(u) \/ EnterCode(u) \/ CodeChecked(u) \/ Cancel(u)
    PROVE  IInv'
<1>0. TypeOK /\ fsm[u] \in Dialog /\ fsm \in [Users -> Dialog] /\ dialogs \in [Users -> Nat]
  BY DEF IInv, TypeOK
<1>asked. asked \in [Users -> Texts]
  BY DEF IInv, TypeOK
<1>1. ASSUME UNCHANGED <<hdl, code, codeLock, orders, activity, placed, panel, crashes, dialogs>>,
             asked' \in [Users -> Texts], buttons' \in [Users -> SUBSET {"skip", "pay"}],
             NEW d \in Dialog, d.plan \in {fsm[u].plan, None},
             fsm' = fsm \/ fsm' = [fsm EXCEPT ![u] = d]
      PROVE  IInv'
  <2>1. fsm' \in [Users -> Dialog] /\ \A v \in Users : fsm'[v].plan \in {fsm[v].plan, None}
    BY <1>0, <1>1
  <2>2. TypeOK'
    BY <1>0, <1>1, <2>1 DEF TypeOK
  <2>3. PlansCounted'
    BY <1>0, <1>1, <2>1, DialoguePlans
  <2>4. Kept(orders)' = Kept(orders)
    BY <1>1 DEF Kept, Subscribed
  <2> QED BY <1>1, <2>2, <2>3, <2>4, DialogueKeeps
<1>2. ASSUME NEW p \in Plans, SelectPlan(u, p) PROVE IInv'
  <2>1. UNCHANGED <<asked, buttons, hdl, code, codeLock, orders, activity, placed, panel, crashes>>
    BY <1>2 DEF SelectPlan
  <2>2. dialogs' = [dialogs EXCEPT ![u] = dialogs[u] + 1]
    BY <1>2 DEF SelectPlan
  <2> DEFINE d == [fsm[u] EXCEPT !.plan = p, !.state = "name"]
  <2>3. d \in Dialog /\ fsm' = [fsm EXCEPT ![u] = d]
    BY <1>0, <1>2 DEF SelectPlan, Dialog, States
  <2> HIDE DEF d
  <2>4. dialogs' \in [Users -> Nat] /\ fsm' \in [Users -> Dialog]
    BY <1>0, <2>2, <2>3
  <2>5. TypeOK'
    BY <1>0, <2>1, <2>4 DEF TypeOK
  <2>6. \A v \in Users : /\ dialogs'[v] \in Nat
                         /\ \/ fsm'[v].plan \in {fsm[v].plan, None} /\ dialogs'[v] = dialogs[v]
                            \/ dialogs'[v] = dialogs[v] + 1
    BY <1>0, <2>2, <2>3, <2>4
  <2>7. PlansCounted'
    BY <2>1, <2>6, DialoguePlans
  <2>8. Kept(orders)' = Kept(orders)
    BY <2>1 DEF Kept, Subscribed
  <2> QED BY <2>1, <2>5, <2>7, <2>8, DialogueKeeps
<1>3. CASE EnterName(u) \/ EnterCode(u)
  <2>1. asked' \in [Users -> Texts]
    BY <1>0, <1>3 DEF EnterName, EnterCode, TypeOK, Texts
  <2>2. buttons' \in [Users -> SUBSET {"skip", "pay"}]
    BY <1>0, <1>3 DEF EnterName, EnterCode, TypeOK
  <2>3. /\ UNCHANGED <<hdl, code, codeLock, orders, activity, placed, panel, crashes, dialogs>>
        /\ fsm' = fsm
    BY <1>3 DEF EnterName, EnterCode
  <2> QED BY <1>0, <1>1, <2>1, <2>2, <2>3
<1>4. ASSUME NEW n \in Names, NameChecked(u, n) PROVE IInv'
  <2> DEFINE d == [fsm[u] EXCEPT !.name = n, !.state = "discount"]
  <2>1. d \in Dialog /\ d.plan = fsm[u].plan
    BY <1>0 DEF Dialog, States
  <2>2. fsm' = fsm \/ fsm' = [fsm EXCEPT ![u] = d]
    BY <1>4 DEF NameChecked
  <2> HIDE DEF d
  <2>3. asked' \in [Users -> Texts]
    BY <1>asked, <1>4 DEF NameChecked, Texts
  <2>4. buttons' \in [Users -> SUBSET {"skip", "pay"}]
    <3>1. buttons \in [Users -> SUBSET {"skip", "pay"}]
      BY <1>0 DEF TypeOK
    <3>2. buttons' = buttons \/ buttons' = [buttons EXCEPT ![u] = buttons[u] \cup {"skip"}]
      BY <1>4 DEF NameChecked
    <3> QED BY <3>1, <3>2
  <2>5. UNCHANGED <<hdl, code, codeLock, orders, activity, placed, panel, crashes, dialogs>>
    BY <1>4 DEF NameChecked
  <2> QED BY <1>1, <2>1, <2>2, <2>3, <2>4, <2>5
<1>5. ASSUME ShowMethods(u) PROVE buttons' \in [Users -> SUBSET {"skip", "pay"}]
  BY <1>0, <1>5 DEF ShowMethods, TypeOK
<1>6. CASE SkipDiscount(u)
  <2>1. /\ UNCHANGED <<hdl, code, codeLock, orders, activity, placed, panel, crashes, dialogs>>
        /\ fsm' = fsm /\ asked' \in [Users -> Texts]
    BY <1>0, <1>6 DEF SkipDiscount, TypeOK
  <2> QED BY <1>0, <1>1, <1>5, <1>6, <2>1 DEF SkipDiscount
<1>7. CASE CodeChecked(u)
  <2> DEFINE d == [fsm[u] EXCEPT !.code = TRUE]
  <2>1. d \in Dialog /\ d.plan = fsm[u].plan
    BY <1>0 DEF Dialog
  <2>2. fsm' = fsm \/ fsm' = [fsm EXCEPT ![u] = d]
    BY <1>7 DEF CodeChecked
  <2> HIDE DEF d
  <2>3. asked' \in [Users -> Texts]
    BY <1>0, <1>7 DEF CodeChecked, TypeOK, Texts
  <2>4. buttons' \in [Users -> SUBSET {"skip", "pay"}]
    BY <1>0, <1>5, <1>7 DEF CodeChecked, TypeOK
  <2>5. UNCHANGED <<hdl, code, codeLock, orders, activity, placed, panel, crashes, dialogs>>
    BY <1>7 DEF CodeChecked
  <2> QED BY <1>1, <2>1, <2>2, <2>3, <2>4, <2>5
<1>8. CASE Cancel(u)
  <2>1. /\ UNCHANGED <<hdl, code, codeLock, orders, activity, placed, panel, crashes, dialogs>>
        /\ asked' \in [Users -> Texts] /\ buttons' \in [Users -> SUBSET {"skip", "pay"}]
        /\ fsm' = [fsm EXCEPT ![u] = NoDialog]
    BY <1>0, <1>8 DEF Cancel, TypeOK
  <2> QED BY <1>1, <2>1, IdleTyped
<1> QED BY <1>2, <1>3, <1>4, <1>6, <1>7, <1>8

\* A click only occupies a handler.
LEMMA ClickStep ==
    ASSUME IInv, NEW u \in Users, NEW h \in Handlers, Click(u, h)
    PROVE  IInv'
<1> DEFINE x == [IdleHandler EXCEPT !.pc = "typing", !.user = u]
<1>0. /\ TypeOK /\ hdl \in [Handlers -> Handler] /\ fsm \in [Users -> Dialog]
      /\ HandlerOK(h) /\ hdl[h].pc = "idle" /\ hdl[h].order = {}
  BY DEF IInv, TypeOK, HandlerOK, Click
<1>1. /\ x \in Handler /\ x.pc = "typing" /\ x.user = u /\ x.order = {} /\ ~x.useCode
      /\ x.used = 0
  BY IdleTyped DEF IdleHandler, Handler, PcValues
<1>2. Moved(h, x) /\ UNCHANGED <<asked, buttons, dialogs, code, codeLock, orders, activity, placed, panel, crashes>>
  BY DEF Click, Moved
<1> HIDE DEF x
<1>3. /\ hdl' \in [Handlers -> Handler] /\ hdl'[h] = x
      /\ \A g \in Handlers : g # h => hdl'[g] = hdl[g]
  BY <1>0, <1>1, <1>2, MovedAt
<1>4. fsm' \in [Users -> Dialog] /\ \A v \in Users : fsm'[v].plan = fsm[v].plan
  <2>1. fsm' = [fsm EXCEPT ![u].state = "processing"]
    BY DEF Click
  <2> QED BY <1>0, <2>1 DEF Dialog, States
<1>5. \A g \in Handlers : hdl'[g].order = hdl[g].order
  BY <1>0, <1>1, <1>3
<1>6. \A g \in Handlers : Cardinality(hdl'[g].order) <= 1
  BY <1>0, <1>5 DEF TypeOK
<1>7. TypeOK'
  BY <1>0, <1>2, <1>3, <1>4, <1>6 DEF TypeOK
<1>8. \A g \in Handlers : HandlerOK(g)'
  <2>1. \A g \in Handlers : Client(g)' = Client(g)
    BY <1>5 DEF Client
  <2>2. \A o : GoodOrder(o)' <=> GoodOrder(o)
    BY <1>2 DEF GoodOrder
  <2>3. HandlerOK(h)'
    BY <1>1, <1>3 DEF HandlerOK
  <2>4. ASSUME NEW g \in Handlers, g # h PROVE HandlerOK(g)'
    <3>1. HandlerOK(g)
      BY DEF IInv
    <3> HIDE DEF Client, GoodOrder
    <3> QED BY <1>2, <1>3, <2>1, <2>2, <2>4, <3>1 DEF HandlerOK
  <2> QED BY <2>3, <2>4
<1>9. IsFiniteSet(orders') /\ (\A o \in orders' : GoodOrder(o)') /\ IdsApart' /\ OneWallet'
  <2>1. IsFiniteSet(orders') /\ (\A o \in orders' : GoodOrder(o)')
    BY <1>2 DEF IInv, GoodOrder
  <2>2. IdsApart'
    BY <1>2, <1>5 DEF IInv, IdsApart
  <2>3. OneWallet'
    BY <1>0, <1>3, <1>5 DEF IInv, OneWallet
  <2> QED BY <2>1, <2>2, <2>3
<1>10. RoomLeft'
  <2>1. Coming' = Coming \cup {h} /\ h \notin Coming
    BY <1>0, <1>1, <1>3 DEF Coming
  <2>2. IsFiniteSet(Coming) /\ Cardinality(Coming) \in Nat
    <3>1. Coming \subseteq Handlers
      BY DEF Coming
    <3> QED BY <3>1, PurchaseAssumption, SubsetCard
  <2>3. Cardinality(Coming') = Cardinality(Coming) + 1
    BY <2>1, <2>2, FS_AddElement
  <2>4. placed + Cardinality(Coming) < MaxOrders /\ placed \in Nat
    BY <1>0, PurchaseAssumption DEF Click, RoomForOrder, Coming, TypeOK
  <2> QED BY <1>2, <2>2, <2>3, <2>4, PurchaseAssumption DEF RoomLeft
<1>11. PlansCounted'
  <2> SUFFICES ASSUME NEW v \in Users
               PROVE  Cardinality(OrdersOf(v)') + Cardinality(Buying(v)') + Chosen(v)' <= dialogs'[v]
    BY DEF PlansCounted
  <2>1. OrdersOf(v)' = OrdersOf(v) /\ Chosen(v)' = Chosen(v) /\ dialogs' = dialogs
    BY <1>2, <1>4 DEF OrdersOf, Chosen
  <2>2. Buying(v)' = Buying(v)
    BY <1>0, <1>1, <1>3 DEF Buying
  <2> QED BY <2>1, <2>2 DEF IInv, PlansCounted
<1>12. UsesCounted'
  <2>1. CodeOrders' = CodeOrders /\ Cardinality(CodeOrders) \in Nat
    BY <1>2, FiniteParts DEF CodeOrders
  <2> QED BY <1>1, <1>2, <1>3, <2>1 DEF IInv, UsesCounted
<1>13. Overshoot'
  <2>1. Past' \subseteq Past /\ \A g \in Past' : hdl'[g].user = hdl[g].user
    BY <1>1, <1>3 DEF Past
  <2>2. Kept(orders)' = Kept(orders)
    BY <1>2 DEF Kept, Subscribed
  <2> QED BY <2>1, <2>2, FewerHolders
<1> QED BY <1>7, <1>8, <1>9, <1>10, <1>11, <1>12, <1>13 DEF IInv

\* A restart forgets every dialogue and every handler.
LEMMA CrashStep ==
    ASSUME IInv, Crash
    PROVE  IInv'
<1>1. /\ hdl' = [h \in Handlers |-> IdleHandler] /\ fsm' = [v \in Users |-> NoDialog]
      /\ UNCHANGED <<buttons, dialogs, code, orders, activity, placed, panel>>
  BY DEF Crash
<1>2. /\ hdl' \in [Handlers -> Handler] /\ fsm' \in [Users -> Dialog]
      /\ \A g \in Handlers : hdl'[g] = IdleHandler
  BY <1>1, IdleTyped
<1>3. TypeOK'
  <2>1. \A g \in Handlers : Cardinality(hdl'[g].order) <= 1
    BY <1>2, IdleTyped, AtMostOne
  <2>2. asked' \in [Users -> Texts] /\ codeLock' \in Handlers \cup {None} /\ crashes' \in 0..MaxCrashes
    BY PurchaseAssumption DEF Crash, Texts, IInv, TypeOK
  <2> QED BY <1>1, <1>2, <2>1, <2>2 DEF IInv, TypeOK
<1>4. \A g \in Handlers : HandlerOK(g)'
  BY <1>2, IdleTyped DEF HandlerOK
<1>5. IsFiniteSet(orders') /\ (\A o \in orders' : GoodOrder(o)')
  BY <1>1 DEF IInv, GoodOrder
<1>6. IdsApart' /\ OneWallet'
  BY <1>1, <1>2, IdleTyped DEF IInv, IdsApart, OneWallet
<1>7. RoomLeft'
  <2>1. Coming' = {}
    BY <1>2, IdleTyped DEF Coming
  <2>2. placed \in 0..MaxOrders
    BY DEF IInv, TypeOK
  <2> QED BY <1>1, <2>1, <2>2, FS_EmptySet, PurchaseAssumption DEF RoomLeft
<1>8. PlansCounted'
  <2> SUFFICES ASSUME NEW v \in Users
               PROVE  Cardinality(OrdersOf(v)') + Cardinality(Buying(v)') + Chosen(v)' <= dialogs'[v]
    BY DEF PlansCounted
  <2>1. OrdersOf(v)' = OrdersOf(v) /\ Chosen(v)' = 0 /\ Chosen(v) \in 0..1 /\ dialogs' = dialogs
    BY <1>1, IdleTyped DEF OrdersOf, Chosen
  <2>2. Cardinality(Buying(v)') = 0
    <3>1. Buying(v)' = {}
      BY <1>2, IdleTyped DEF Buying
    <3> QED BY <3>1, FS_EmptySet
  <2>3. /\ Cardinality(OrdersOf(v)) \in Nat /\ Cardinality(Buying(v)) \in Nat /\ dialogs[v] \in Nat
        /\ Cardinality(OrdersOf(v)) + Cardinality(Buying(v)) + Chosen(v) <= dialogs[v]
    BY FiniteParts DEF IInv, TypeOK, PlansCounted
  <2> QED BY <2>1, <2>2, <2>3
<1>9. UsesCounted'
  <2>1. CodeOrders' = CodeOrders /\ Cardinality(CodeOrders) \in Nat
    BY <1>1, FiniteParts DEF CodeOrders
  <2> QED BY <1>1, <1>2, <2>1, IdleTyped DEF IInv, UsesCounted
<1>10. Overshoot'
  <2>1. Past' = {}
    BY <1>2, IdleTyped DEF Past
  <2>2. Kept(orders)' = Kept(orders)
    BY <1>1 DEF Kept, Subscribed
  <2> QED BY <2>1, <2>2, FewerHolders
<1> QED BY <1>3, <1>4, <1>5, <1>6, <1>7, <1>8, <1>9, <1>10 DEF IInv

\* Switching a client off or on concerns nothing but the capacity.
LEMMA SwitchStep ==
    ASSUME IInv, NEW o \in orders, SwitchOff(o) \/ SwitchOn(o)
    PROVE  IInv'
<1>1. PICK a \in {"off", "back"} : activity' = [activity EXCEPT ![o.id] = a]
  BY DEF SwitchOff, SwitchOn
<1>2. /\ UNCHANGED <<fsm, asked, buttons, dialogs, hdl, code, codeLock, orders, placed, panel, crashes>>
      /\ o.id \in 1..MaxOrders
  BY DEF SwitchOff, SwitchOn, IInv, TypeOK, Order
<1>3. activity \in [1..MaxOrders -> Activities]
  BY DEF IInv, TypeOK
<1>4. activity' \in [1..MaxOrders -> Activities]
  BY <1>1, <1>3 DEF Activities
<1>5. TypeOK'
  BY <1>2, <1>4 DEF IInv, TypeOK
<1>6. Kept(orders)' \subseteq Kept(orders)
  <2> SUFFICES ASSUME NEW p \in orders', activity'[p.id] = "kept" PROVE activity[p.id] = "kept"
    BY <1>2 DEF Kept, Subscribed
  <2>1. p.id \in 1..MaxOrders
    BY <1>2 DEF IInv, TypeOK, Order
  <2> QED BY <1>1, <1>3, <2>1
<1>7. PlansCounted'
  BY <1>2, DialoguePlans DEF IInv, TypeOK
<1> QED BY <1>2, <1>5, <1>6, <1>7, DialogueKeeps

LEMMA PurchaseInit == Init => IInv
<1> SUFFICES ASSUME Init PROVE IInv
  OBVIOUS
<1>1. /\ hdl = [h \in Handlers |-> IdleHandler] /\ orders = {} /\ panel = {} /\ placed = 0
      /\ fsm = [u \in Users |-> NoDialog] /\ dialogs = [u \in Users |-> 0]
      /\ code = [used |-> 0, active |-> TRUE]
  BY DEF Init
<1>2. \A h \in Handlers : hdl[h] = IdleHandler
  BY <1>1
<1>3. TypeOK
  <2>1. \A h \in Handlers : Cardinality(hdl[h].order) <= 1
    BY <1>2, IdleTyped, AtMostOne
  <2>2. hdl \in [Handlers -> Handler] /\ fsm \in [Users -> Dialog]
    BY <1>1, IdleTyped
  <2>3. activity \in [1..MaxOrders -> Activities]
    BY DEF Init, Activities
  <2> QED BY <2>1, <2>2, <2>3, PurchaseAssumption DEF Init, TypeOK, Texts
<1>4. \A h \in Handlers : HandlerOK(h)
  BY <1>2, IdleTyped DEF HandlerOK
<1>5. IsFiniteSet(orders) /\ (\A o \in orders : GoodOrder(o)) /\ IdsApart /\ OneWallet
  BY <1>1, <1>2, IdleTyped, FS_EmptySet DEF IdsApart, OneWallet
<1>6. Coming = {} /\ Past = {} /\ CodeOrders = {} /\ Kept(orders) = {}
  BY <1>1, <1>2, IdleTyped DEF Coming, Past, CodeOrders, Kept, Subscribed
<1>7. RoomLeft /\ UsesCounted /\ Overshoot
  <2>1. Cardinality(Coming) = 0 /\ Cardinality(CodeOrders) = 0
    BY <1>6, FS_EmptySet
  <2>2. RoomLeft
    BY <1>1, <2>1, PurchaseAssumption DEF RoomLeft
  <2>3. UsesCounted
    BY <1>1, <1>2, <2>1, IdleTyped DEF UsesCounted
  <2>4. Overshoot
    BY <1>6 DEF Overshoot
  <2> QED BY <2>2, <2>3, <2>4
<1>8. PlansCounted
  <2> SUFFICES ASSUME NEW u \in Users
               PROVE  Cardinality(OrdersOf(u)) + Cardinality(Buying(u)) + Chosen(u) <= dialogs[u]
    BY DEF PlansCounted
  <2>1. OrdersOf(u) = {} /\ Buying(u) = {} /\ Chosen(u) = 0 /\ dialogs[u] = 0
    BY <1>1, <1>2, IdleTyped DEF OrdersOf, Buying, Chosen
  <2>2. Cardinality(OrdersOf(u)) = 0 /\ Cardinality(Buying(u)) = 0
    BY <2>1, FS_EmptySet
  <2> QED BY <2>1, <2>2
<1> QED BY <1>3, <1>4, <1>5, <1>7, <1>8 DEF IInv

LEMMA PurchaseStep == IInv /\ [Next]_vars => IInv'
<1> SUFFICES ASSUME IInv, [Next]_vars PROVE IInv'
  OBVIOUS
<1>1. ASSUME NEW u \in Users, Dialogue(u) PROVE IInv'
  BY <1>1, DialogueStep, ClickStep DEF Dialogue
<1>2. ASSUME NEW h \in Handlers, Step(h) PROVE IInv'
  BY <1>2, HandlerStep
<1>3. CASE UNCHANGED vars
  <2>1. UNCHANGED <<fsm, asked, buttons, dialogs, hdl, code, codeLock, orders, activity, placed, panel, crashes>>
    BY <1>3 DEF vars
  <2>2. TypeOK'
    BY <2>1 DEF IInv, TypeOK
  <2>3. PlansCounted'
    BY <2>1, DialoguePlans DEF IInv, TypeOK
  <2>4. Kept(orders)' = Kept(orders)
    BY <2>1 DEF Kept, Subscribed
  <2> QED BY <2>1, <2>2, <2>3, <2>4, DialogueKeeps
<1> QED BY <1>1, <1>2, <1>3, CrashStep, SwitchStep DEF Next

LEMMA PurchaseInvariant == Spec => []IInv
BY PurchaseInit, PurchaseStep, PTL DEF Spec

-----------------------------------------------------------------------------
(* The theorems.                                                           *)

\* Every reachable state is well typed, with at most one staged order in a
\* handler, and no order has a status that no reader knows.
THEOREM PurchaseTypeOK == Spec => []TypeOK
BY PurchaseInvariant, PTL DEF IInv

\* A committed subscription has its client on the panel and its price is
\* paid, through timeouts, retries, taken names and restarts.
THEOREM PurchaseServedIsOnPanel == Spec => []ServedIsOnPanel
<1>1. IInv => ServedIsOnPanel
  BY DEF IInv, GoodOrder, ServedIsOnPanel, Subscribed
<1> QED BY <1>1, PurchaseInvariant, PTL

\* A refunded order has no client on the panel, not even a late one.
THEOREM PurchaseRefundedHasNoClient == Spec => []RefundedHasNoClient
<1>1. IInv => RefundedHasNoClient
  BY DEF IInv, GoodOrder, RefundedHasNoClient
<1> QED BY <1>1, PurchaseInvariant, PTL

\* Every counted use of the discount code belongs to a committed order.
THEOREM PurchaseUsesHaveOrders == Spec => []UsesHaveOrders
<1>1. IInv => UsesHaveOrders
  BY DEF IInv, UsesCounted, CodeOrders, UsesHaveOrders
<1> QED BY <1>1, PurchaseInvariant, PTL

\* The clients that are active since they were sold exceed max_clients by at
\* most one purchase of every other customer, however many handlers run past
\* the check together and whoever is switched off and on meanwhile.
THEOREM PurchaseOvershootIsBounded == Spec => []OvershootIsBounded
<1>1. IInv => OvershootIsBounded
  <2> SUFFICES ASSUME IInv, Kept(orders) # {}
               PROVE  Cardinality(Kept(orders)) <
                          MaxClients + Cardinality(Customers(Kept(orders)))
    BY DEF OvershootIsBounded, Customers
  <2> DEFINE c == Customers(Kept(orders))
             u == UsersOf(Past)
  <2>1. /\ Cardinality(Kept(orders)) \in Nat /\ Cardinality(Past) \in Nat
        /\ IsFiniteSet(c)
    BY FiniteParts, CustomersCard
  <2>2. IsFiniteSet(u) /\ Cardinality(u) \in Nat /\ Cardinality(u) <= Cardinality(Past)
    <3>1. Past \subseteq Handlers
      BY DEF Past
    <3> QED BY <3>1, UsersCard
  <2>3. Cardinality(Kept(orders)) + Cardinality(Past) < MaxClients + Cardinality(c \cup u)
    BY DEF IInv, Overshoot
  <2> HIDE DEF c, u
  <2>4. /\ Cardinality(c \cup u) = Cardinality(c) + Cardinality(u) - Cardinality(c \cap u)
        /\ Cardinality(c) \in Nat /\ Cardinality(c \cap u) \in Nat
    BY <2>1, <2>2, FS_Union, FS_Intersection, FS_CardinalityType
  <2>5. Cardinality(Kept(orders)) < MaxClients + Cardinality(c)
    BY <2>1, <2>2, <2>3, <2>4, PurchaseAssumption
  <2> QED BY <2>5 DEF c
<1> QED BY <1>1, PurchaseInvariant, PTL

\* A selected plan is bought at most once, however often its buttons are
\* clicked.
THEOREM PurchaseOneOrderPerDialog == Spec => []OneOrderPerDialog
<1>1. IInv => OneOrderPerDialog
  <2> SUFFICES ASSUME IInv, NEW u \in Users
               PROVE  Cardinality({o \in orders \cup Staged : o.user = u}) <= dialogs[u]
    BY DEF OneOrderPerDialog
  <2> DEFINE staged == {o \in Staged : o.user = u}
             S == {h \in Handlers : hdl[h].order # {} /\ hdl[h].user = u}
             f == [h \in S |-> CHOOSE o : o \in hdl[h].order]
  <2>1. \A h \in Handlers : hdl[h].order = {} \/ \E o \in Order : hdl[h].order = {o} /\ o.user = hdl[h].user
    BY DEF IInv, HandlerOK, TypeOK, Handler, PcValues
  <2>2. \A h \in S : f[h] \in hdl[h].order /\ hdl[h].order = {f[h]} /\ f[h].user = u
    BY <2>1
  <2>3. f \in [S -> staged]
    BY <2>2 DEF Staged
  <2>4. \A o \in staged : \E h \in S : f[h] = o
    <3> SUFFICES ASSUME NEW o \in staged PROVE \E h \in S : f[h] = o
      OBVIOUS
    <3>1. PICK h \in Handlers : o \in hdl[h].order
      BY DEF Staged
    <3>2. h \in S
      BY <2>1, <3>1
    <3> QED BY <2>2, <3>1, <3>2
  <2>5. S \subseteq Buying(u)
    BY DEF Buying, IInv, HandlerOK
  <2> HIDE DEF f, S
  <2>6. /\ IsFiniteSet(Buying(u)) /\ Cardinality(Buying(u)) \in Nat
        /\ IsFiniteSet(OrdersOf(u)) /\ Cardinality(OrdersOf(u)) \in Nat
    BY FiniteParts
  <2>7. IsFiniteSet(S) /\ Cardinality(S) \in Nat /\ Cardinality(S) <= Cardinality(Buying(u))
    BY <2>5, <2>6, SubsetCard
  <2> HIDE DEF staged
  <2>8. IsFiniteSet(staged) /\ Cardinality(staged) <= Cardinality(S)
    BY <2>3, <2>4, <2>7, ImageCard
  <2>9. Cardinality(staged) \in Nat
    BY <2>8, FS_CardinalityType
  <2>10. {o \in orders \cup Staged : o.user = u} = OrdersOf(u) \cup staged
    BY DEF OrdersOf, staged
  <2>11. /\ Cardinality(OrdersOf(u) \cup staged) =
                Cardinality(OrdersOf(u)) + Cardinality(staged) - Cardinality(OrdersOf(u) \cap staged)
         /\ Cardinality(OrdersOf(u) \cap staged) \in Nat
    BY <2>6, <2>8, FS_Union, FS_Intersection, FS_CardinalityType
  <2>12. Cardinality(OrdersOf(u)) + Cardinality(Buying(u)) + Chosen(u) <= dialogs[u]
         /\ Chosen(u) \in 0..1 /\ dialogs[u] \in Nat
    BY DEF IInv, PlansCounted, Chosen, TypeOK
  <2> HIDE DEF Chosen, OrdersOf, Buying
  <2>13. Cardinality(OrdersOf(u) \cup staged) <= dialogs[u]
    BY <2>6, <2>7, <2>8, <2>9, <2>11, <2>12
  <2> QED BY <2>10, <2>13
<1> QED BY <1>1, PurchaseInvariant, PTL

-----------------------------------------------------------------------------
(* Refinement: seen from outside, a purchase is a sale.                    *)

LEMMA UnboughtIs ==
    ASSUME IInv
    PROVE  \A u \in Users : /\ Cardinality(OrdersOf(u)) \in Nat /\ dialogs[u] \in Nat
                            /\ Unbought[u] = dialogs[u] - Cardinality(OrdersOf(u))
<1> SUFFICES ASSUME NEW u \in Users
             PROVE  /\ Cardinality(OrdersOf(u)) \in Nat /\ dialogs[u] \in Nat
                    /\ Unbought[u] = dialogs[u] - Cardinality(OrdersOf(u))
  OBVIOUS
<1>1. OrdersOf(u) \in SUBSET orders
  BY DEF OrdersOf
<1>2. Cardinality(OrdersOf(u)) \in Nat
  BY <1>1, FS_Subset, FS_CardinalityType DEF IInv
<1> QED BY <1>2 DEF Unbought, OrdersOf, IInv, TypeOK

LEMMA SelectStep ==
    ASSUME IInv, NEW u \in Users, Dialogue(u), ~UNCHANGED <<orders, panel, Unbought>>
    PROVE  Shop!Select
<1>1. orders' = orders /\ panel' = panel
  BY DEF Dialogue, SelectPlan, EnterName, NameChecked, SkipDiscount, EnterCode, CodeChecked,
         Cancel, Click
<1>2. CASE dialogs' = dialogs
  BY <1>1, <1>2 DEF Unbought
<1>3. CASE dialogs' = [dialogs EXCEPT ![u] = @ + 1]
  <2>1. Unbought' = [v \in Users |-> dialogs'[v] - Cardinality(OrdersOf(v))]
    BY <1>1 DEF Unbought, OrdersOf
  <2>2. \A v \in Users : dialogs'[v] = IF v = u THEN dialogs[u] + 1 ELSE dialogs[v]
    BY <1>3 DEF IInv, TypeOK
  <2>3. Unbought = [v \in Users |-> Unbought[v]]
    BY DEF Unbought
  <2>4. \A v \in Users : Unbought'[v] = IF v = u THEN Unbought[u] + 1 ELSE Unbought[v]
    BY <2>1, <2>2, UnboughtIs
  <2>5. Unbought' = [v \in Users |-> Unbought'[v]]
    BY <2>1
  <2>6. Unbought' = [Unbought EXCEPT ![u] = @ + 1]
    BY <2>3, <2>4, <2>5
  <2> QED BY <1>1, <2>6 DEF Shop!Select
<1> QED BY <1>2, <1>3
    DEF Dialogue, SelectPlan, EnterName, NameChecked, SkipDiscount, EnterCode, CodeChecked,
        Cancel, Click

\* A committed order is new, settled, and for a plan that its customer has
\* selected and not yet bought.
LEMMA SellStep ==
    ASSUME IInv, NEW h \in Handlers, NEW x \in Handler, Commits(h, x), dialogs' = dialogs,
           ~UNCHANGED <<orders, panel, Unbought>>
    PROVE  Shop!Sell
<1>1. HandlerOK(h) /\ hdl[h].pc = "commit" /\ hdl[h] \in Handler
  BY DEF IInv, TypeOK, Commits
<1>2. PICK o \in Order : hdl[h].order = {o} /\ GoodOrder(o)
  BY <1>1 DEF HandlerOK
<1>3. orders' = orders \cup {o} /\ panel' = panel
  <2>1. orders' # orders
    BY DEF Commits, Unbought
  <2> QED BY <1>2, <2>1 DEF Commits
<1>4. \A q \in orders : q.id # o.id
  BY <1>2 DEF IInv, IdsApart
<1>5. Shop!Settled(o)
  BY <1>2 DEF GoodOrder, Order, Shop!Settled, Shop!Served, Shop!GivenBack, Shop!Unclear, Shop!NotPaid
<1>6. PICK u \in Users : u = o.user /\ u = hdl[h].user
  BY <1>1, <1>2 DEF HandlerOK, Order
<1>7. Unbought[u] > 0
  <2>1. IsFiniteSet(Buying(u)) /\ h \in Buying(u)
    <3>1. Buying(u) \in SUBSET Handlers
      BY DEF Buying
    <3> QED BY <1>1, <1>6, <3>1, PurchaseAssumption, FS_Subset DEF Buying
  <2>2. Cardinality(Buying(u)) \in Nat /\ Cardinality(Buying(u)) # 0
    BY <2>1, FS_CardinalityType, FS_EmptySet
  <2>3. /\ Cardinality(OrdersOf(u)) + Cardinality(Buying(u)) + Chosen(u) <= dialogs[u]
        /\ Chosen(u) \in Nat
    BY DEF IInv, PlansCounted, Chosen
  <2>4. /\ Cardinality(OrdersOf(u)) \in Nat /\ dialogs[u] \in Nat
        /\ Unbought[u] = dialogs[u] - Cardinality(OrdersOf(u))
    BY UnboughtIs
  <2>5. PICK n \in Nat, b \in Nat, c \in Nat, d \in Nat :
          /\ n = Cardinality(OrdersOf(u)) /\ b = Cardinality(Buying(u))
          /\ c = Chosen(u) /\ d = dialogs[u]
    BY <2>2, <2>3, <2>4
  <2>6. b # 0 /\ n + b + c <= d
    BY <2>2, <2>3, <2>5
  <2>7. d - n > 0
    BY <2>6
  <2> QED BY <2>4, <2>5, <2>7
<1>8. Unbought' = [Unbought EXCEPT ![u] = @ - 1]
  <2>1. Unbought' = [v \in Users |-> dialogs[v] - Cardinality(OrdersOf(v)')]
    BY DEF Unbought, OrdersOf
  <2>2. \A v \in Users : v # u => OrdersOf(v)' = OrdersOf(v)
    BY <1>3, <1>6 DEF OrdersOf
  <2>3. OrdersOf(u)' = OrdersOf(u) \cup {o} /\ o \notin OrdersOf(u)
    BY <1>3, <1>4, <1>6 DEF OrdersOf
  <2>4. IsFiniteSet(OrdersOf(u))
    <3>1. OrdersOf(u) \in SUBSET orders
      BY DEF OrdersOf
    <3> QED BY <3>1, FS_Subset DEF IInv
  <2>5. Cardinality(OrdersOf(u)') = Cardinality(OrdersOf(u)) + 1
    BY <2>3, <2>4, FS_AddElement
  <2>6. \A v \in Users : Unbought'[v] = IF v = u THEN Unbought[u] - 1 ELSE Unbought[v]
    BY <2>1, <2>2, <2>5, UnboughtIs
  <2>7. Unbought = [v \in Users |-> Unbought[v]] /\ Unbought' = [v \in Users |-> Unbought'[v]]
    BY <2>1 DEF Unbought
  <2> QED BY <2>6, <2>7
<1> QED BY <1>3, <1>4, <1>5, <1>6, <1>7, <1>8 DEF Shop!Sell

\* The panel is called for an order that is not committed.
LEMMA DeliverStep ==
    ASSUME IInv, NEW h \in Handlers, NEW x \in Handler, Provisions(h, x), dialogs' = dialogs,
           ~UNCHANGED <<orders, panel, Unbought>>
    PROVE  Shop!Deliver
<1>1. PICK o, q \in Order :
         /\ hdl[h].order = {o}
         /\ Refuses(h, x, o, q) \/ Checks(h, x, o, q) \/ Calls(h, x, o, q) \/ Saves(h, x, o, q)
  BY DEF Provisions
<1>2. orders' = orders /\ Unbought' = Unbought
  BY DEF Provisions, Unbought
<1>3. panel' = panel \cup {o.id}
  BY <1>1, <1>2 DEF Refuses, Checks, Calls, Saves
<1>4. \A p \in orders : p.id # o.id
  BY <1>1 DEF IInv, IdsApart
<1> QED BY <1>2, <1>3, <1>4 DEF Shop!Deliver

\* Every behaviour of the purchases, for any number of customers, handlers,
\* panel attempts and restarts, is a behaviour of sales: orders appear once,
\* settled, each for a plan that was selected, and stay as they are.
THEOREM PurchaseImplementsSale == Spec => ImplementsSale
<1>1. Init => Shop!SaleInit
  <2> SUFFICES ASSUME Init PROVE Shop!SaleInit
    OBVIOUS
  <2>1. orders = {} /\ panel = {} /\ dialogs = [u \in Users |-> 0]
    BY DEF Init
  <2>2. \A u \in Users : dialogs[u] - Cardinality({o \in orders : o.user = u}) = 0
    <3>1. Cardinality({}) = 0
      BY FS_EmptySet
    <3>2. \A u \in Users : {o \in orders : o.user = u} = {}
      BY <2>1
    <3> QED BY <2>1, <3>1, <3>2
  <2>3. Unbought = [u \in Users |-> 0]
    BY <2>2 DEF Unbought
  <2> QED BY <2>1, <2>3 DEF Shop!SaleInit
<1>2. IInv /\ [Next]_vars => [Shop!Select \/ Shop!Sell \/ Shop!Deliver]_<<orders, panel, Unbought>>
  <2> SUFFICES ASSUME IInv, [Next]_vars, ~UNCHANGED <<orders, panel, Unbought>>
               PROVE  Shop!Select \/ Shop!Sell \/ Shop!Deliver
    OBVIOUS
  <2>1. ASSUME NEW u \in Users, Dialogue(u) PROVE Shop!Select
    BY <2>1, SelectStep
  <2>2. ASSUME NEW h \in Handlers, Step(h) PROVE Shop!Sell \/ Shop!Deliver
    <3>1. dialogs' = dialogs
      BY <2>2 DEF Step, TypingFails, TakeData, Load, UseCode, PlaceOrder, Refuse, CheckCapacity,
                  PanelAdds, PanelSilent, PanelRefuses, Save, Commit, CommitFails
    <3>2. PICK x \in Handler : Form(h, x)
      BY <2>2, StepForm
    <3>3. CASE Ends(h, x) \/ Takes(h, x) \/ Advances(h, x) \/ Places(h, x)
      <4>1. orders' = orders /\ panel' = panel
        BY <3>3 DEF Ends, Takes, Advances, Places
      <4> QED BY <3>1, <4>1 DEF Unbought
    <3>4. CASE Provisions(h, x)
      BY <3>1, <3>4, DeliverStep
    <3>5. CASE Commits(h, x)
      BY <3>1, <3>5, SellStep
    <3> QED BY <3>2, <3>3, <3>4, <3>5 DEF Form
  <2>3. CASE Crash
    BY <2>3 DEF Crash, Unbought
  <2>4. CASE UNCHANGED vars
    BY <2>4 DEF vars, Unbought
  <2>5. ASSUME NEW o \in orders, SwitchOff(o) \/ SwitchOn(o) PROVE FALSE
    BY <2>5 DEF SwitchOff, SwitchOn, Unbought
  <2> QED BY <2>1, <2>2, <2>3, <2>4, <2>5 DEF Next
<1>3. Spec => Shop!SaleInit /\ [][Shop!Select \/ Shop!Sell \/ Shop!Deliver]_<<orders, panel, Unbought>>
  BY <1>1, <1>2, PurchaseInvariant, PTL DEF Spec
<1> QED BY <1>3 DEF ImplementsSale, Shop!SaleSpec, Shop!saleVars
=============================================================================
