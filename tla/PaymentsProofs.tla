--------------------------- MODULE PaymentsProofs ---------------------------
(***************************************************************************)
(* What Payments guarantees for every number of webhook requests at a      *)
(* time, every bound, both orders of commit and response, and both kinds   *)
(* of payment.                                                             *)
(***************************************************************************)
EXTENDS Payments, FiniteSetTheorems, SequenceTheorems, TLAPS

-----------------------------------------------------------------------------
(* Orders. *)

\* The committed orders whose subscription the database knows.
SubscribedAt(os) == {i \in DOMAIN os : os[i].subscribed}

\* A request commits no order or one.
LEMMA CommittedOrders ==
    ASSUME NEW os \in Seq(Order), NEW o \in Order
    PROVE  /\ os \o << >> = os
           /\ os \o <<o>> \in Seq(Order)
           /\ Len(os) \in Nat
           /\ Len(os \o <<o>>) = Len(os) + 1
           /\ DOMAIN os = 1..Len(os)
           /\ DOMAIN (os \o <<o>>) = 1..(Len(os) + 1)
           /\ \A i \in 1..Len(os) : (os \o <<o>>)[i] = os[i]
           /\ (os \o <<o>>)[Len(os) + 1] = o
<1>1. os \o << >> = os
  BY ConcatEmptySeq
<1>2. os \o <<o>> = Append(os, o)
  BY AppendIsConcat
<1>3. Append(os, o) \in Seq(Order) /\ Len(os) \in Nat
  BY LenProperties
<1> QED BY <1>1, <1>2, <1>3

\* The subscribed positions are finitely many, and one more order adds at
\* most its own.
LEMMA SubscribedGrows ==
    ASSUME NEW os \in Seq(Order), NEW o \in Order
    PROVE  /\ Cardinality(SubscribedAt(os)) \in Nat
           /\ Cardinality(SubscribedAt(os \o <<o>>)) =
                  Cardinality(SubscribedAt(os)) + (IF o.subscribed THEN 1 ELSE 0)
<1> DEFINE n == Len(os) + 1
           old == SubscribedAt(os)
           new == SubscribedAt(os \o <<o>>)
<1>1. /\ Len(os) \in Nat
      /\ DOMAIN os = 1..Len(os)
      /\ DOMAIN (os \o <<o>>) = 1..n
      /\ \A i \in 1..Len(os) : (os \o <<o>>)[i] = os[i]
      /\ (os \o <<o>>)[n] = o
  BY CommittedOrders
<1>2. new = IF o.subscribed THEN old \cup {n} ELSE old
  <2>1. \A i : i \in 1..n <=> i \in 1..Len(os) \/ i = n
    BY <1>1
  <2>2. \A i : i \in new <=> (i \in 1..n /\ (os \o <<o>>)[i].subscribed)
    BY <1>1 DEF SubscribedAt
  <2>3. \A i : i \in old <=> (i \in 1..Len(os) /\ os[i].subscribed)
    BY <1>1 DEF SubscribedAt
  <2> HIDE DEF new, old, n
  <2> QED BY <1>1, <2>1, <2>2, <2>3
<1>3. n \notin old
  BY <1>1 DEF SubscribedAt
<1>4. IsFiniteSet(old) /\ Cardinality(old) \in Nat
  <2>1. IsFiniteSet(1..Len(os))
    BY <1>1, FS_Interval
  <2>2. old \in SUBSET (1..Len(os))
    BY <1>1 DEF SubscribedAt
  <2> QED BY <2>1, <2>2, FS_Subset, FS_CardinalityType
<1> HIDE DEF new, old, n
<1>5. Cardinality(old \cup {n}) = Cardinality(old) + 1
  BY <1>3, <1>4, FS_AddElement
<1>6. Cardinality(new) = Cardinality(old) + (IF o.subscribed THEN 1 ELSE 0)
  BY <1>2, <1>4, <1>5
<1> QED BY <1>4, <1>6 DEF old, new

LEMMA SubscribedFinite ==
    ASSUME NEW os \in Seq(Order)
    PROVE  Cardinality(SubscribedAt(os)) \in Nat
<1>1. IsFiniteSet(DOMAIN os)
  <2>1. Len(os) \in Nat /\ DOMAIN os = 1..Len(os)
    BY LenProperties
  <2> QED BY <2>1, FS_Interval
<1>2. SubscribedAt(os) \in SUBSET DOMAIN os
  BY DEF SubscribedAt
<1> QED BY <1>1, <1>2, FS_Subset, FS_CardinalityType

-----------------------------------------------------------------------------
(* Type correctness: a request that provisions has an order to write to.   *)

ProvisionHasOrder == \A w \in Webhooks : hook[w].pc = "provision" => hook[w].order # << >>

TypeInv == TypeOK /\ ProvisionHasOrder

LEMMA IdleTyped == Idle \in Hook /\ Idle.order = << >> /\ Idle.pc = "idle" /\ ~Idle.deposit
BY DEF Idle, Hook, Statuses, Pending, Payment

LEMMA OrdersTyped ==
    ASSUME NEW o \in Order, NEW d \in BOOLEAN
    PROVE  NewOrder(d) \in Order /\ Refunded(o) \in Order /\ Provisioned(o) \in Order
BY DEF Order, OrderStatuses, NewOrder, Refunded, Provisioned

\* The orders after a commit are orders.
LEMMA CommitTyped ==
    ASSUME TypeOK, NEW w \in Webhooks
    PROVE  orders \o hook[w].order \in Seq(Order)
<1>1. hook[w].order = << >> \/ \E o \in Order : hook[w].order = <<o>>
  BY DEF TypeOK, Hook
<1>2. orders \in Seq(Order)
  BY DEF TypeOK
<1>3. CASE hook[w].order = << >>
  BY <1>2, <1>3, ConcatEmptySeq
<1>4. ASSUME NEW o \in Order, hook[w].order = <<o>> PROVE orders \o hook[w].order \in Seq(Order)
  BY <1>2, <1>4, CommittedOrders
<1> QED BY <1>1, <1>3, <1>4

LEMMA EndTyped ==
    ASSUME TypeInv, NEW w \in Webhooks, End(w)
    PROVE  /\ hook' \in [Webhooks -> Hook]
           /\ rowLock' \in Webhooks \cup {NoWebhook}
           /\ ProvisionHasOrder'
BY IdleTyped DEF TypeInv, TypeOK, End, ProvisionHasOrder

\* A request comes from NOWPayments, with an IPN it has sent, or it does not.
LEMMA ReceivedFrom ==
    ASSUME NEW w, NEW m, Retry(w, m) \/ Duplicate(w, m) \/ Unverified(w, m)
    PROVE  \E own \in BOOLEAN : Receive(w, m, own) /\ (own => m \in unanswered \cup answered)
<1>1. \/ Receive(w, m, TRUE) /\ m \in unanswered \cup answered
      \/ Receive(w, m, FALSE)
  BY DEF Retry, Duplicate, Unverified
<1>2. TRUE \in BOOLEAN /\ FALSE \in BOOLEAN
  OBVIOUS
<1> QED BY <1>1, <1>2, Zenon

LEMMA TypeStep == TypeInv /\ [Next]_vars => TypeInv'
<1> SUFFICES ASSUME TypeInv, [Next]_vars PROVE TypeInv'
  OBVIOUS
<1> USE DEF TypeInv, envVars, rowVars, netVars
<1>1. CASE StorePayment
  BY <1>1 DEF StorePayment, TypeOK, ProvisionHasOrder
<1>2. CASE LosePayment
  BY <1>2 DEF LosePayment, TypeOK, ProvisionHasOrder
<1>3. CASE RemoteMove
  <2>1. \A s \in Statuses : Successors[s] \subseteq Statuses
    BY DEF Successors, Statuses, Pending, Final
  <2> QED BY <1>3, <2>1 DEF RemoteMove, TypeOK, ProvisionHasOrder
<1>4. CASE TakeName
  BY <1>4 DEF TakeName, TypeOK, ProvisionHasOrder
<1>5. ASSUME NEW w \in Webhooks, NEW m \in Statuses, Retry(w, m) \/ Duplicate(w, m) \/ Unverified(w, m)
      PROVE  TypeInv'
  <2>1. PICK own \in BOOLEAN : Receive(w, m, own)
    BY <1>5, ReceivedFrom
  <2>0. extra' \in Nat
    <3>1. extra' = extra \/ extra' = extra + 1
      BY <1>5, Zenon DEF Retry, Duplicate, Unverified
    <3> QED BY <3>1 DEF TypeOK
  <2>2. CASE stored # "stored"
    BY <2>0, <2>1, <2>2 DEF Receive, TypeOK, ProvisionHasOrder
  <2>3. CASE stored = "stored"
    <3> DEFINE h == [Idle EXCEPT !.msg = m, !.own = own, !.snap = payment,
                                 !.pc = IF MustCredit(m, payment) THEN "credit" ELSE "reply"]
    <3>1. h \in Hook /\ h.pc # "provision"
      <4>1. CASE own = TRUE
        BY <4>1, IdleTyped DEF TypeOK, Idle, Hook
      <4>2. CASE own = FALSE
        BY <4>2, IdleTyped DEF TypeOK, Idle, Hook
      <4> QED BY <4>1, <4>2
    <3>2. hook' = [hook EXCEPT ![w] = h]
      BY <2>1, <2>3 DEF Receive
    <3> HIDE DEF h
    <3> QED BY <2>0, <2>1, <3>1, <3>2 DEF Receive, TypeOK, ProvisionHasOrder
  <2> QED BY <2>2, <2>3
<1>6. ASSUME NEW w \in Webhooks, Credit(w) PROVE TypeInv'
  BY <1>6 DEF Credit, TypeOK, Hook, ProvisionHasOrder
<1>7. ASSUME NEW w \in Webhooks, PlaceOrder(w) PROVE TypeInv'
  <2>1. NewOrder(TRUE) \in Order /\ NewOrder(FALSE) \in Order
    BY DEF Order, OrderStatuses, NewOrder
  <2>2. PICK p \in {"reply", "provision"}, q \in {<< >>} \cup {<<o>> : o \in Order} :
            /\ hook' = [hook EXCEPT ![w].pc = p, ![w].order = q]
            /\ p = "provision" => q # << >>
    <3>1. hook[w].order \in {<< >>} \cup {<<o>> : o \in Order} /\ hook[w] \in Hook
      BY DEF TypeOK, Hook
    <3>2. CASE hook' = [hook EXCEPT ![w].pc = "reply"]
      <4>1. hook' = [hook EXCEPT ![w].pc = "reply", ![w].order = hook[w].order]
        BY <3>1, <3>2 DEF TypeOK, Hook
      <4> QED BY <3>1, <4>1
    <3>3. CASE hook' = [hook EXCEPT ![w].pc = "reply", ![w].order = <<NewOrder(FALSE)>>]
      <4> DEFINE q == <<NewOrder(FALSE)>>
      <4>1. q \in {<< >>} \cup {<<o>> : o \in Order} /\ q # << >>
        BY <2>1
      <4>2. hook' = [hook EXCEPT ![w].pc = "reply", ![w].order = q]
        BY <3>3
      <4> HIDE DEF q
      <4> QED BY <4>1, <4>2
    <3>4. CASE hook' = [hook EXCEPT ![w].pc = "provision", ![w].order = <<NewOrder(TRUE)>>]
      <4> DEFINE q == <<NewOrder(TRUE)>>
      <4>1. q \in {<< >>} \cup {<<o>> : o \in Order} /\ q # << >>
        BY <2>1
      <4>2. hook' = [hook EXCEPT ![w].pc = "provision", ![w].order = q]
        BY <3>4
      <4> HIDE DEF q
      <4> QED BY <4>1, <4>2
    <3> QED BY <1>7, <3>2, <3>3, <3>4 DEF PlaceOrder
  <2> QED BY <1>7, <2>2 DEF PlaceOrder, TypeOK, Hook, ProvisionHasOrder
<1>8. ASSUME NEW w \in Webhooks, hook[w].pc = "provision" PROVE hook[w].order[1] \in Order
  BY <1>8 DEF TypeOK, Hook, ProvisionHasOrder
<1>9. ASSUME NEW w \in Webhooks, ProvisionRefused(w) PROVE TypeInv'
  <2>1. Refunded(hook[w].order[1]) \in Order
    BY <1>8, <1>9, OrdersTyped DEF ProvisionRefused
  <2> QED BY <1>9, <2>1 DEF ProvisionRefused, TypeOK, Hook, ProvisionHasOrder
<1>10. ASSUME NEW w \in Webhooks, ProvisionFails(w) PROVE TypeInv'
  BY <1>10 DEF ProvisionFails, TypeOK, Hook, ProvisionHasOrder
<1>11. ASSUME NEW w \in Webhooks, Provision(w) PROVE TypeInv'
  <2>1. Provisioned(hook[w].order[1]) \in Order
    BY <1>8, <1>11, OrdersTyped DEF Provision
  <2> DEFINE h == [hook[w] EXCEPT !.pc = "reply", !.broken = nameTaken,
                                  !.order = <<Provisioned(hook[w].order[1])>>]
  <2>2. hook[w] \in Hook /\ nameTaken \in BOOLEAN
    BY DEF TypeOK
  <2>3. h \in Hook /\ h.pc = "reply"
    <3>1. CASE nameTaken = TRUE
      BY <2>1, <2>2, <3>1 DEF Hook
    <3>2. CASE nameTaken = FALSE
      BY <2>1, <2>2, <3>2 DEF Hook
    <3> QED BY <2>2, <3>1, <3>2
  <2>4. hook' = [hook EXCEPT ![w] = h]
    BY <1>11 DEF Provision
  <2> HIDE DEF h
  <2>5. hook' \in [Webhooks -> Hook] /\ ProvisionHasOrder'
    BY <2>3, <2>4 DEF TypeOK, ProvisionHasOrder
  <2>6. panel' \in Nat /\ UNCHANGED <<envVars, stored, rowVars, rowLock, job, netVars, crashes>>
    BY <1>11 DEF Provision, TypeOK
  <2> QED BY <2>5, <2>6 DEF TypeOK
<1>12. ASSUME NEW w \in Webhooks PROVE IpnOf(hook[w]) \subseteq Statuses /\ hook[w].msg \in Statuses
  BY DEF TypeOK, Hook, IpnOf
<1>13. ASSUME NEW w \in Webhooks, Reply(w) PROVE TypeInv'
  BY <1>12, <1>13 DEF Reply, Answer, TypeOK, Hook, ProvisionHasOrder
<1>14. ASSUME NEW w \in Webhooks, Commit(w) PROVE TypeInv'
  <2>1. Updated(hook[w]) \in Payment
    BY <1>12 DEF Updated, TypeOK, Payment, Hook
  <2>2. orders' \in Seq(Order)
    BY <1>14, CommitTyped DEF Commit
  <2>3. deposits' \in Nat /\ unverified' \in Nat /\ payment' \in Payment
    BY <1>14, <2>1 DEF Commit, TypeOK
  <2>4. unanswered' \subseteq Statuses /\ answered' \subseteq Statuses
    BY <1>12, <1>14 DEF Commit, Answer, TypeOK
  <2> QED BY <1>14, <2>2, <2>3, <2>4, EndTyped DEF Commit, TypeOK
<1>15. ASSUME NEW w \in Webhooks, CommitFails(w) PROVE TypeInv'
  BY <1>15, EndTyped DEF CommitFails, TypeOK
<1>16. ASSUME NEW w \in Webhooks, Crash(w) PROVE TypeInv'
  BY <1>16, EndTyped DEF Crash, TypeOK
<1>17. CASE JobLoad
  BY <1>17 DEF JobLoad, TypeOK, Job, Payment, ProvisionHasOrder
<1>18. CASE JobAsk
  BY <1>18 DEF JobAsk, TypeOK, Job, ProvisionHasOrder
<1>19. CASE JobSave
  BY <1>19 DEF JobSave, JobIdle, TypeOK, Job, Payment, Statuses, Pending, ProvisionHasOrder
<1>20. CASE UNCHANGED vars
  BY <1>20 DEF vars, TypeOK, ProvisionHasOrder
<1> QED
  BY <1>1, <1>2, <1>3, <1>4, <1>5, <1>6, <1>7, <1>9, <1>10, <1>11, <1>13, <1>14, <1>15, <1>16,
     <1>17, <1>18, <1>19, <1>20 DEF Next, HookStep

LEMMA TypeInit == Init => TypeInv
<1> SUFFICES ASSUME Init PROVE TypeInv
  OBVIOUS
<1>1. << >> \in Seq(Order)
  BY EmptySeq
<1> QED BY <1>1, IdleTyped DEF Init, TypeInv, TypeOK, ProvisionHasOrder, Payment, Statuses,
           Pending, Job, JobIdle

\* Every reachable state is well typed: no status, order or request is ever
\* outside what the tables and the handler's steps allow.
THEOREM PaymentsTypeOK == Spec => []TypeOK
<1>1. Spec => []TypeInv
  BY TypeInit, TypeStep, PTL DEF Spec
<1> QED BY <1>1, PTL DEF TypeInv

-----------------------------------------------------------------------------
(* The inductive invariant.  The properties speak of what is committed;    *)
(* what keeps them is what a running request may hold: an IPN that was     *)
(* really sent if NOWPayments is the sender, the row's lock once it has    *)
(* staged a deposit, and an order only together with that deposit.         *)

\* What an order says of itself is what happened to its money.
OrderOK(o) ==
    /\ o.refunded <=> o.status = "refunded"
    /\ o.subscribed <=> o.status = "provisioned"
    /\ o.status # "processing" => o.debited

RequestOK(w) ==
    /\ hook[w].pc # "idle" => IpnOf(hook[w]) \subseteq unanswered \cup answered
    /\ hook[w].pc = "credit" => hook[w].msg \in Final
    /\ hook[w].deposit => /\ rowLock = w
                          /\ hook[w].msg \in Final
                          /\ hook[w].pc \notin {"idle", "credit"}
    /\ hook[w].pc = "order" => hook[w].deposit /\ hook[w].order = << >>
    /\ hook[w].pc = "provision" => hook[w].deposit /\ hook[w].order = <<NewOrder(TRUE)>>
    /\ hook[w].order # << >> => hook[w].deposit /\ OrderOK(hook[w].order[1])

\* NOWPayments sends no status that the payment has not reached.
SentIsReached == (unanswered \cup answered) \cap Final # {} => remote \in Final

\* A subscription in the database or about to be committed has a client.
StagedServed(w) == hook[w].order # << >> /\ hook[w].order[1].subscribed

PanelCovers ==
    Cardinality(SubscribedAt(orders)) + (IF \E w \in Webhooks : StagedServed(w) THEN 1 ELSE 0)
        <= panel

IInv ==
    /\ TypeInv
    /\ \A w \in Webhooks : RequestOK(w)
    /\ SentIsReached
    /\ CreditedWhenConfirmed
    /\ PaidMeansDeposited
    /\ OrdersArePaidFor
    /\ PanelCovers

\* What the refund, the provisioning and a new order leave of an order.
LEMMA OrdersOK ==
    ASSUME NEW d \in BOOLEAN
    PROVE  /\ OrderOK(NewOrder(d)) /\ ~NewOrder(d).subscribed
           /\ OrderOK(Refunded(NewOrder(TRUE))) /\ ~Refunded(NewOrder(TRUE)).subscribed
           /\ OrderOK(Provisioned(NewOrder(TRUE))) /\ Provisioned(NewOrder(TRUE)).subscribed
BY DEF OrderOK, NewOrder, Refunded, Provisioned

\* Only the holder of the row's lock has staged anything.
LEMMA OneStaged ==
    ASSUME \A w \in Webhooks : RequestOK(w), NEW v \in Webhooks, NEW w \in Webhooks,
           hook[v].deposit \/ hook[v].order # << >>, hook[w].deposit \/ hook[w].order # << >>
    PROVE  v = w
BY DEF RequestOK

\* An ended request holds nothing, and no other loses its lock.
LEMMA EndOK ==
    ASSUME TypeOK, NEW w \in Webhooks, End(w), \A v \in Webhooks : RequestOK(v),
           unanswered \cup answered \subseteq unanswered' \cup answered'
    PROVE  \A v \in Webhooks : RequestOK(v)'
<1> SUFFICES ASSUME NEW v \in Webhooks PROVE RequestOK(v)'
  OBVIOUS
<1>1. CASE v = w
  <2>1. hook'[v] = Idle
    BY <1>1 DEF End, TypeOK
  <2> QED BY <2>1, IdleTyped DEF RequestOK
<1>2. CASE v # w
  <2>1. hook'[v] = hook[v] /\ (rowLock = v => rowLock' = v)
    BY <1>2 DEF End, TypeOK
  <2> QED BY <2>1 DEF RequestOK
<1> QED BY <1>1, <1>2

LEMMA RequestStep ==
    ASSUME IInv, [Next]_vars
    PROVE  \A w \in Webhooks : RequestOK(w)'
<1> SUFFICES ASSUME NEW v \in Webhooks PROVE RequestOK(v)'
  OBVIOUS
<1> USE DEF envVars, rowVars, netVars
<1>0. TypeOK /\ RequestOK(v)
  BY DEF IInv, TypeInv
<1>1. ASSUME UNCHANGED <<hook, rowLock>>, unanswered \cup answered \subseteq unanswered' \cup answered'
      PROVE  RequestOK(v)'
  BY <1>0, <1>1 DEF RequestOK
<1>2. CASE \/ StorePayment \/ LosePayment \/ RemoteMove \/ TakeName
           \/ JobLoad \/ JobAsk \/ JobSave \/ UNCHANGED vars
  BY <1>1, <1>2 DEF StorePayment, LosePayment, RemoteMove, TakeName, JobLoad, JobAsk, JobSave, vars
<1>3. ASSUME NEW w \in Webhooks, NEW m \in Statuses, Retry(w, m) \/ Duplicate(w, m) \/ Unverified(w, m)
      PROVE  RequestOK(v)'
  <2>1. PICK own \in BOOLEAN : Receive(w, m, own) /\ (own => m \in unanswered \cup answered)
    BY <1>3, ReceivedFrom
  <2>2. CASE stored # "stored" \/ v # w
    BY <1>0, <2>1, <2>2 DEF Receive, RequestOK, TypeOK
  <2>3. CASE stored = "stored" /\ v = w
    <3>1. /\ hook'[v].msg = m /\ hook'[v].own = own
          /\ hook'[v].pc = IF MustCredit(m, payment) THEN "credit" ELSE "reply"
          /\ hook'[v].deposit = FALSE
          /\ hook'[v].order = << >>
      BY <1>0, <2>1, <2>3 DEF Receive, TypeOK, Idle
    <3>2. UNCHANGED <<unanswered, answered>>
      BY <2>1 DEF Receive
    <3>3. IpnOf(hook'[v]) \subseteq unanswered' \cup answered'
      BY <2>1, <3>1, <3>2 DEF IpnOf
    <3> QED BY <3>1, <3>3 DEF RequestOK, MustCredit
  <2> QED BY <2>2, <2>3
<1>4. ASSUME NEW w \in Webhooks, Credit(w) PROVE RequestOK(v)'
  <2>1. hook[v].deposit => rowLock = v
    BY <1>0 DEF RequestOK
  <2>2. CASE v = w
    <3>1. /\ hook'[v].pc \in {"order", "reply"} /\ hook'[v].deposit
          /\ hook'[v].msg = hook[v].msg /\ IpnOf(hook'[v]) = IpnOf(hook[v])
          /\ hook'[v].order = hook[v].order
      BY <1>0, <1>4, <2>2 DEF Credit, TypeOK, Hook, IpnOf
    <3>2. hook[v].order = << >> /\ hook[v].msg \in Final
      BY <1>0, <1>4, <2>1, <2>2, WebhooksAssumption DEF Credit, RequestOK
    <3> QED BY <1>0, <1>4, <2>2, <3>1, <3>2 DEF Credit, RequestOK
  <2>3. CASE v # w
    BY <1>0, <1>4, <2>1, <2>3, WebhooksAssumption DEF Credit, TypeOK, RequestOK
  <2> QED BY <2>2, <2>3
<1>5. ASSUME NEW w \in Webhooks, PlaceOrder(w) PROVE RequestOK(v)'
  <2>1. CASE v = w
    <3>1. /\ hook'[v].msg = hook[v].msg /\ IpnOf(hook'[v]) = IpnOf(hook[v])
          /\ hook'[v].deposit = hook[v].deposit
          /\ \/ hook'[v].pc = "reply" /\ hook'[v].order \in {<< >>, <<NewOrder(FALSE)>>}
             \/ hook'[v].pc = "provision" /\ hook'[v].order = <<NewOrder(TRUE)>>
      <4>1. hook[v] \in Hook /\ hook[v].order = << >> /\ hook[v].deposit
        BY <1>0, <1>5, <2>1 DEF PlaceOrder, RequestOK, TypeOK
      <4>2. \/ hook'[v] = [hook[v] EXCEPT !.pc = "reply"]
            \/ hook'[v] = [hook[v] EXCEPT !.pc = "reply", !.order = <<NewOrder(FALSE)>>]
            \/ hook'[v] = [hook[v] EXCEPT !.pc = "provision", !.order = <<NewOrder(TRUE)>>]
        BY <1>0, <1>5, <2>1 DEF PlaceOrder, TypeOK
      <4> QED BY <4>1, <4>2 DEF Hook, IpnOf
    <3>2. \A d \in BOOLEAN : <<NewOrder(d)>>[1] = NewOrder(d) /\ OrderOK(NewOrder(d))
      BY OrdersOK
    <3> QED BY <1>0, <1>5, <2>1, <3>1, <3>2 DEF PlaceOrder, RequestOK
  <2>2. CASE v # w
    BY <1>0, <1>5, <2>2 DEF PlaceOrder, TypeOK, RequestOK
  <2> QED BY <2>1, <2>2
<1>6. ASSUME NEW w \in Webhooks, NEW o, OrderOK(o), UNCHANGED <<rowLock, unanswered, answered>>,
             hook[w].pc = "provision",
             \/ hook' = [hook EXCEPT ![w].pc = "reply", ![w].order = <<o>>]
             \/ hook' = [hook EXCEPT ![w].pc = "reply"]
             \/ hook' = [hook EXCEPT ![w].pc = "reply", ![w].broken = nameTaken, ![w].order = <<o>>]
      PROVE  RequestOK(v)'
  <2>1. CASE v = w
    <3> DEFINE same == /\ hook'[v].msg = hook[v].msg /\ IpnOf(hook'[v]) = IpnOf(hook[v])
                       /\ hook'[v].deposit = hook[v].deposit
                       /\ hook'[v].pc = "reply" /\ hook'[v].order \in {hook[v].order, <<o>>}
    <3>1. same
      <4>1. hook[v] \in Hook
        BY <1>0 DEF TypeOK
      <4>2. CASE hook'[v] = [hook[v] EXCEPT !.pc = "reply", !.order = <<o>>]
        BY <4>1, <4>2 DEF Hook, IpnOf
      <4>3. CASE hook'[v] = [hook[v] EXCEPT !.pc = "reply"]
        BY <4>1, <4>3 DEF Hook, IpnOf
      <4>4. CASE hook'[v] = [hook[v] EXCEPT !.pc = "reply", !.broken = TRUE, !.order = <<o>>]
        BY <4>1, <4>4 DEF Hook, IpnOf
      <4>5. CASE hook'[v] = [hook[v] EXCEPT !.pc = "reply", !.broken = FALSE, !.order = <<o>>]
        BY <4>1, <4>5 DEF Hook, IpnOf
      <4>6. nameTaken = TRUE \/ nameTaken = FALSE
        BY <1>0 DEF TypeOK
      <4>7. \/ hook'[v] = [hook[v] EXCEPT !.pc = "reply", !.order = <<o>>]
            \/ hook'[v] = [hook[v] EXCEPT !.pc = "reply"]
            \/ hook'[v] = [hook[v] EXCEPT !.pc = "reply", !.broken = nameTaken, !.order = <<o>>]
        BY <1>0, <1>6, <2>1 DEF TypeOK
      <4> HIDE DEF same
      <4> QED BY <4>2, <4>3, <4>4, <4>5, <4>6, <4>7, Zenon
    <3>2. <<o>> # << >> /\ <<o>>[1] = o
      OBVIOUS
    <3> QED BY <1>0, <1>6, <2>1, <3>1, <3>2 DEF RequestOK
  <2>2. CASE v # w
    BY <1>0, <1>6, <2>2 DEF TypeOK, RequestOK
  <2> QED BY <2>1, <2>2
<1>7. ASSUME NEW w \in Webhooks, ProvisionRefused(w) \/ ProvisionFails(w) \/ Provision(w)
      PROVE  RequestOK(v)'
  <2>1. hook[w].pc = "provision" /\ hook[w].order[1] = NewOrder(TRUE)
    <3>1. RequestOK(w) /\ <<NewOrder(TRUE)>>[1] = NewOrder(TRUE)
      BY DEF IInv
    <3>2. hook[w].pc = "provision"
      BY <1>7 DEF ProvisionRefused, ProvisionFails, Provision
    <3> QED BY <3>1, <3>2 DEF RequestOK
  <2>2. UNCHANGED <<rowLock, unanswered, answered>>
    BY <1>7 DEF ProvisionRefused, ProvisionFails, Provision
  <2>3. CASE ProvisionRefused(w)
    BY <1>6, <2>1, <2>2, <2>3, OrdersOK DEF ProvisionRefused
  <2>4. CASE ProvisionFails(w)
    BY <1>6, <2>1, <2>2, <2>4, OrdersOK DEF ProvisionFails
  <2>5. CASE Provision(w)
    BY <1>6, <2>1, <2>2, <2>5, OrdersOK DEF Provision
  <2> QED BY <1>7, <2>3, <2>4, <2>5
<1>8. ASSUME NEW w \in Webhooks, Reply(w) PROVE RequestOK(v)'
  <2>1. unanswered \cup answered \subseteq unanswered' \cup answered'
    BY <1>8 DEF Reply, Answer
  <2>2. CASE v = w
    <3>1. /\ hook'[v].msg = hook[v].msg /\ IpnOf(hook'[v]) = IpnOf(hook[v])
          /\ hook'[v].deposit = hook[v].deposit
          /\ hook'[v].order = hook[v].order /\ hook'[v].pc = "commit"
      BY <1>0, <1>8, <2>2 DEF Reply, TypeOK, Hook, IpnOf
    <3> QED BY <1>0, <1>8, <2>1, <2>2, <3>1 DEF Reply, RequestOK
  <2>3. CASE v # w
    BY <1>0, <1>8, <2>1, <2>3 DEF Reply, TypeOK, RequestOK
  <2> QED BY <2>2, <2>3
<1>9. ASSUME NEW w \in Webhooks, Commit(w) \/ CommitFails(w) \/ Crash(w) PROVE RequestOK(v)'
  <2>1. End(w) /\ unanswered \cup answered \subseteq unanswered' \cup answered'
    BY <1>9 DEF Commit, CommitFails, Crash, Answer
  <2> QED BY <1>0, <2>1, EndOK DEF IInv
<1> QED BY <1>2, <1>3, <1>4, <1>5, <1>7, <1>8, <1>9 DEF Next, HookStep

\* What the steps of a request leave alone: only a commit writes the row, the
\* deposits and the orders.
LEMMA OnlyCommitWrites ==
    ASSUME [Next]_vars
    PROVE  \/ UNCHANGED <<deposits, unverified, orders>> /\ payment'.paid = payment.paid
           \/ \E w \in Webhooks : Commit(w)
<1> USE DEF envVars, rowVars, netVars
<1>1. CASE \/ StorePayment \/ LosePayment \/ RemoteMove \/ TakeName
           \/ JobLoad \/ JobAsk \/ UNCHANGED vars
  BY <1>1 DEF StorePayment, LosePayment, RemoteMove, TakeName, JobLoad, JobAsk, vars
<1>2. CASE JobSave
  BY <1>2 DEF JobSave
<1>3. ASSUME NEW w \in Webhooks, NEW m \in Statuses, Retry(w, m) \/ Duplicate(w, m) \/ Unverified(w, m)
      PROVE  UNCHANGED <<deposits, unverified, orders, payment>>
  BY <1>3 DEF Retry, Duplicate, Unverified, Receive
<1>4. ASSUME NEW w \in Webhooks, HookStep(w) \/ Crash(w), ~Commit(w)
      PROVE  UNCHANGED <<deposits, unverified, orders, payment>>
  BY <1>4 DEF HookStep, Crash, Credit, PlaceOrder, ProvisionRefused, ProvisionFails, Provision,
              Reply, CommitFails
<1> QED BY <1>1, <1>2, <1>3, <1>4 DEF Next

\* An IPN of NOWPayments that a request works on was sent, and a final one is
\* the truth.
LEMMA FinalIsTrue ==
    ASSUME IInv, NEW w \in Webhooks, hook[w].pc # "idle", hook[w].own, hook[w].msg \in Final
    PROVE  remote \in Final
<1>1. hook[w].msg \in IpnOf(hook[w])
  BY DEF IpnOf
<1> QED BY <1>1 DEF IInv, RequestOK, SentIsReached

LEMMA ReachedStep ==
    ASSUME IInv, [Next]_vars
    PROVE  SentIsReached' /\ (remote \in Final => remote' \in Final)
<1> USE DEF envVars, rowVars, netVars
<1>1. CASE RemoteMove
  <2>1. \A next : next \in Successors[remote] => (remote \in Final => next \in Final)
    BY DEF Successors, Final, IInv, TypeInv, TypeOK, Statuses, Pending
  <2> QED BY <1>1, <2>1 DEF RemoteMove, SentIsReached, IInv
<1>2. CASE \/ StorePayment \/ LosePayment \/ TakeName
           \/ JobLoad \/ JobAsk \/ JobSave \/ UNCHANGED vars
  BY <1>2 DEF StorePayment, LosePayment, TakeName, JobLoad, JobAsk, JobSave, vars,
              SentIsReached, IInv
<1>3. ASSUME NEW w \in Webhooks, NEW m \in Statuses, Retry(w, m) \/ Duplicate(w, m) \/ Unverified(w, m)
      PROVE  UNCHANGED <<remote, unanswered, answered>>
  BY <1>3 DEF Retry, Duplicate, Unverified, Receive
<1>4. ASSUME NEW w \in Webhooks, HookStep(w) \/ Crash(w)
      PROVE  remote' = remote /\ unanswered' \cup answered' = unanswered \cup answered
  <2>1. CASE Commit(w) \/ Reply(w)
    <3>1. IpnOf(hook[w]) \subseteq unanswered \cup answered
      BY <2>1 DEF Commit, Reply, IInv, RequestOK
    <3> QED BY <2>1, <3>1 DEF Commit, Reply, Answer
  <2>2. CASE ~(Commit(w) \/ Reply(w))
    BY <1>4, <2>2 DEF HookStep, Crash, Credit, PlaceOrder, ProvisionRefused, ProvisionFails,
                      Provision, CommitFails
  <2> QED BY <2>1, <2>2
<1> QED BY <1>1, <1>2, <1>3, <1>4 DEF Next, SentIsReached, IInv

\* The deposit of a commit is of a confirmed payment or counted as unverified,
\* and sets the column.
LEMMA DepositStep ==
    ASSUME IInv, [Next]_vars
    PROVE  CreditedWhenConfirmed' /\ PaidMeansDeposited'
<1>1. CASE UNCHANGED <<deposits, unverified, orders>> /\ payment'.paid = payment.paid
  BY <1>1, ReachedStep DEF IInv, CreditedWhenConfirmed, PaidMeansDeposited
<1>2. ASSUME NEW w \in Webhooks, Commit(w)
      PROVE  CreditedWhenConfirmed' /\ PaidMeansDeposited'
  <2>1. deposits \in Nat
    BY DEF IInv, TypeInv, TypeOK
  <2>0. unverified \in Nat
    BY DEF IInv, TypeInv, TypeOK
  <2>2. payment'.paid = (payment.paid \/ hook[w].deposit)
    BY <1>2 DEF Commit, Updated
  <2>3. CASE hook[w].deposit
    <3>1. deposits' = deposits + 1 /\ remote' = remote
      BY <1>2, <2>3 DEF Commit
    <3>2. hook[w].pc = "commit" /\ hook[w].msg \in Final
      BY <1>2, <2>3 DEF Commit, IInv, RequestOK
    <3>3. CreditedWhenConfirmed'
      <4>1. CASE hook[w].own
        <5>1. remote \in Final
          BY <3>2, <4>1, FinalIsTrue
        <5> QED BY <3>1, <5>1 DEF CreditedWhenConfirmed
      <4>2. CASE ~hook[w].own
        <5>1. unverified' = unverified + 1
          BY <1>2, <2>3, <4>2 DEF Commit
        <5>2. deposits' > unverified' => deposits > unverified
          BY <2>0, <2>1, <3>1, <5>1
        <5> QED BY <3>1, <5>2 DEF CreditedWhenConfirmed, IInv
      <4> QED BY <4>1, <4>2
    <3>4. payment'.paid
      BY <2>2, <2>3, Zenon
    <3>5. deposits' > 0
      BY <2>1, <3>1
    <3> QED BY <3>3, <3>4, <3>5 DEF PaidMeansDeposited
  <2>4. CASE ~hook[w].deposit
    BY <1>2, <2>2, <2>4 DEF Commit, IInv, CreditedWhenConfirmed, PaidMeansDeposited
  <2> QED BY <2>3, <2>4
<1> QED BY <1>1, <1>2, OnlyCommitWrites

\* What a commit appends is an order of the request's own deposit.
LEMMA CommitOrders ==
    ASSUME IInv, NEW w \in Webhooks, Commit(w)
    PROVE  \/ hook[w].order = << >> /\ orders' = orders
           \/ \E o \in Order : /\ hook[w].order = <<o>> /\ hook[w].order[1] = o
                               /\ orders' = orders \o <<o>>
                               /\ OrderOK(o)
                               /\ deposits' = deposits + 1
<1>1. orders \in Seq(Order) /\ hook[w].order \in {<< >>} \cup {<<o>> : o \in Order}
  BY DEF IInv, TypeInv, TypeOK, Hook
<1>2. CASE hook[w].order = << >>
  BY <1>1, <1>2, ConcatEmptySeq DEF Commit
<1>3. ASSUME NEW o \in Order, hook[w].order = <<o>>
      PROVE  /\ hook[w].order[1] = o
             /\ orders' = orders \o <<o>>
             /\ OrderOK(o)
             /\ deposits' = deposits + 1
  <2>1. <<o>> # << >> /\ <<o>>[1] = o
    OBVIOUS
  <2>2. hook[w].deposit /\ OrderOK(hook[w].order[1])
    BY <1>3, <2>1 DEF IInv, RequestOK
  <2> QED BY <1>3, <2>1, <2>2 DEF Commit
<1> QED BY <1>1, <1>2, <1>3

LEMMA OrdersStep ==
    ASSUME IInv, [Next]_vars
    PROVE  OrdersArePaidFor'
<1>0. OrdersArePaidFor /\ orders \in Seq(Order) /\ deposits \in Nat
  BY DEF IInv, TypeInv, TypeOK
<1>1. CASE UNCHANGED <<deposits, orders>>
  BY <1>0, <1>1 DEF OrdersArePaidFor
<1>2. ASSUME NEW w \in Webhooks, Commit(w) PROVE OrdersArePaidFor'
  <2>1. CASE orders' = orders
    <3>1. deposits' \in {deposits, deposits + 1}
      BY <1>2 DEF Commit
    <3>2. Len(orders) <= deposits' 
      BY <1>0, <3>1, LenProperties DEF OrdersArePaidFor
    <3> QED BY <1>0, <2>1, <3>2 DEF OrdersArePaidFor
  <2>2. ASSUME NEW o \in Order, orders' = orders \o <<o>>, OrderOK(o), deposits' = deposits + 1
        PROVE  OrdersArePaidFor'
    <3>1. /\ Len(orders') = Len(orders) + 1 /\ Len(orders) \in Nat
          /\ DOMAIN orders = 1..Len(orders)
          /\ DOMAIN orders' = 1..(Len(orders) + 1)
          /\ \A i \in 1..Len(orders) : orders'[i] = orders[i]
          /\ orders'[Len(orders) + 1] = o
      BY <1>0, <2>2, CommittedOrders
    <3>2. Len(orders') <= deposits'
      BY <1>0, <2>2, <3>1 DEF OrdersArePaidFor
    <3>3. \A i \in DOMAIN orders' : OrderOK(orders'[i])
      <4>1. \A i \in DOMAIN orders : OrderOK(orders[i])
        BY <1>0 DEF OrdersArePaidFor, OrderOK
      <4> QED BY <2>2, <3>1, <4>1
    <3> QED BY <3>2, <3>3 DEF OrdersArePaidFor, OrderOK
  <2> QED BY <1>2, <2>1, <2>2, CommitOrders
<1> QED BY <1>1, <1>2, OnlyCommitWrites

\* A step that stages no subscription and removes no client keeps the panel
\* ahead of the database.
LEMMA NoNewService ==
    ASSUME IInv, orders' = orders, panel' \in Nat, panel <= panel',
           \A w \in Webhooks : StagedServed(w)' => StagedServed(w)
    PROVE  PanelCovers'
<1>1. Cardinality(SubscribedAt(orders)) \in Nat
  BY SubscribedFinite DEF IInv, TypeInv, TypeOK
<1>2. panel \in Nat /\ PanelCovers
  BY DEF IInv, TypeInv, TypeOK
<1>3. CASE \E w \in Webhooks : StagedServed(w)
  BY <1>1, <1>2, <1>3 DEF PanelCovers
<1>4. CASE ~\E w \in Webhooks : StagedServed(w)
  BY <1>1, <1>2, <1>4 DEF PanelCovers
<1> QED BY <1>3, <1>4

\* The panel adds the client before the subscription is even staged.
LEMMA ProvisionCovered ==
    ASSUME IInv, NEW w \in Webhooks, Provision(w)
    PROVE  PanelCovers'
<1>1. RequestOK(w) /\ hook[w].pc = "provision"
  BY DEF IInv, Provision
<1>2. hook[w].deposit /\ hook[w].order = <<NewOrder(TRUE)>>
  BY <1>1 DEF RequestOK
<1>3. ~StagedServed(w)
  <2>1. <<NewOrder(TRUE)>>[1] = NewOrder(TRUE) /\ ~NewOrder(TRUE).subscribed
    BY OrdersOK
  <2> QED BY <1>2, <2>1 DEF StagedServed
<1>4. ASSUME NEW v \in Webhooks PROVE ~StagedServed(v)
  BY <1>2, <1>3, OneStaged DEF IInv, StagedServed
<1>5. Cardinality(SubscribedAt(orders)) \in Nat
  BY SubscribedFinite DEF IInv, TypeInv, TypeOK
<1>6. panel \in Nat /\ Cardinality(SubscribedAt(orders)) <= panel
  BY <1>4, <1>5 DEF IInv, TypeInv, TypeOK, PanelCovers
<1>7. panel' = panel + 1 /\ orders' = orders
  BY DEF Provision, rowVars
<1> QED BY <1>5, <1>6, <1>7 DEF PanelCovers

\* What is committed was staged, and nothing else is.
LEMMA CommitCovered ==
    ASSUME IInv, NEW w \in Webhooks, Commit(w)
    PROVE  PanelCovers'
<1>1. /\ hook' = [hook EXCEPT ![w] = Idle] /\ panel' = panel
      /\ panel \in Nat /\ hook \in [Webhooks -> Hook] /\ orders \in Seq(Order)
  BY DEF Commit, End, IInv, TypeInv, TypeOK
<1>2. \A v \in Webhooks : StagedServed(v)' => v # w /\ StagedServed(v)
  BY <1>1, IdleTyped DEF StagedServed
<1>3. CASE orders' = orders
  BY <1>1, <1>2, <1>3, NoNewService
<1>4. ASSUME NEW o \in Order, hook[w].order = <<o>>, hook[w].order[1] = o, orders' = orders \o <<o>>
      PROVE  PanelCovers'
  <2>1. hook[w].order # << >>
    <3>1. <<o>> # << >>
      OBVIOUS
    <3> QED BY <1>4, <3>1
  <2>2. \A v \in Webhooks : ~StagedServed(v)'
    BY <1>2, <2>1, OneStaged DEF IInv, StagedServed
  <2>3. /\ Cardinality(SubscribedAt(orders)) \in Nat
        /\ Cardinality(SubscribedAt(orders')) =
              Cardinality(SubscribedAt(orders)) + (IF o.subscribed THEN 1 ELSE 0)
    BY <1>1, <1>4, SubscribedGrows
  <2>4. Cardinality(SubscribedAt(orders')) <= panel
    <3>1. CASE o.subscribed
      <4>1. StagedServed(w)
        BY <1>4, <2>1, <3>1 DEF StagedServed
      <4> QED BY <1>1, <2>3, <3>1, <4>1 DEF IInv, PanelCovers
    <3>2. CASE ~o.subscribed
      BY <1>1, <2>3, <3>2 DEF IInv, PanelCovers
    <3> QED BY <3>1, <3>2
  <2> QED BY <1>1, <2>2, <2>3, <2>4 DEF PanelCovers
<1> QED BY <1>3, <1>4, CommitOrders

LEMMA PanelStep ==
    ASSUME IInv, [Next]_vars
    PROVE  PanelCovers'
<1> USE DEF envVars, rowVars, netVars
<1>0. hook \in [Webhooks -> Hook] /\ panel \in Nat
  BY DEF IInv, TypeInv, TypeOK
<1>1. ASSUME UNCHANGED <<orders, panel, hook>> PROVE PanelCovers'
  BY <1>0, <1>1, NoNewService DEF StagedServed
<1>2. CASE \/ StorePayment \/ LosePayment \/ RemoteMove \/ TakeName
           \/ JobLoad \/ JobAsk \/ JobSave \/ UNCHANGED vars
  BY <1>1, <1>2 DEF StorePayment, LosePayment, RemoteMove, TakeName, JobLoad, JobAsk, JobSave, vars
<1>3. ASSUME NEW w \in Webhooks, NEW h, hook' = [hook EXCEPT ![w] = h],
             h.order = << >> \/ h.order = hook[w].order \/ ~h.order[1].subscribed,
             orders' = orders, panel' \in {panel, panel + 1}
      PROVE  PanelCovers'
  <2>1. \A v \in Webhooks : hook'[v] = IF v = w THEN h ELSE hook[v]
    BY <1>0, <1>3
  <2>2. \A v \in Webhooks : StagedServed(v)' => StagedServed(v)
    BY <1>3, <2>1 DEF StagedServed
  <2> QED BY <1>0, <1>3, <2>2, NoNewService
<1>4. ASSUME NEW w \in Webhooks, NEW m \in Statuses, Retry(w, m) \/ Duplicate(w, m) \/ Unverified(w, m)
      PROVE  PanelCovers'
  <2>1. PICK own \in BOOLEAN : Receive(w, m, own)
    BY <1>4, ReceivedFrom
  <2>2. CASE stored # "stored"
    BY <1>1, <2>1, <2>2 DEF Receive
  <2>3. CASE stored = "stored"
    <3> DEFINE h == [Idle EXCEPT !.msg = m, !.own = own, !.snap = payment,
                                 !.pc = IF MustCredit(m, payment) THEN "credit" ELSE "reply"]
    <3>1. h.order = << >>
      BY DEF Idle
    <3>2. hook' = [hook EXCEPT ![w] = h] /\ orders' = orders /\ panel' = panel
      BY <2>1, <2>3 DEF Receive
    <3> HIDE DEF h
    <3> QED BY <1>3, <3>1, <3>2
  <2> QED BY <2>2, <2>3
<1>5. ASSUME NEW w \in Webhooks, Credit(w) \/ Reply(w) \/ ProvisionFails(w) PROVE PanelCovers'
  <2>1. orders' = orders /\ panel' \in {panel, panel + 1}
    BY <1>5 DEF Credit, Reply, ProvisionFails
  <2>2. \A v \in Webhooks : hook'[v].order = hook[v].order
    BY <1>0, <1>5 DEF Credit, Reply, ProvisionFails, Hook
  <2> QED BY <1>0, <2>1, <2>2, NoNewService DEF StagedServed
<1>6. ASSUME NEW w \in Webhooks, PlaceOrder(w) PROVE PanelCovers'
  <2>1. orders' = orders /\ panel' = panel
    BY <1>6 DEF PlaceOrder
  <2>2. \A d \in BOOLEAN : ~<<NewOrder(d)>>[1].subscribed
    BY OrdersOK
  <2>3. hook[w] \in Hook
    BY <1>0
  <2>4. PICK h : hook' = [hook EXCEPT ![w] = h] /\
                 h.order \in {hook[w].order, <<NewOrder(FALSE)>>, <<NewOrder(TRUE)>>}
    <3>1. \/ hook' = [hook EXCEPT ![w] = [hook[w] EXCEPT !.pc = "reply"]]
          \/ hook' = [hook EXCEPT ![w] = [hook[w] EXCEPT !.pc = "reply",
                                                         !.order = <<NewOrder(FALSE)>>]]
          \/ hook' = [hook EXCEPT ![w] = [hook[w] EXCEPT !.pc = "provision",
                                                         !.order = <<NewOrder(TRUE)>>]]
      BY <1>6 DEF PlaceOrder
    <3> QED BY <2>3, <3>1 DEF Hook
  <2> QED BY <1>3, <2>1, <2>2, <2>4
<1>7. ASSUME NEW w \in Webhooks, ProvisionRefused(w) PROVE PanelCovers'
  <2>1. orders' = orders /\ panel' = panel
    BY <1>7 DEF ProvisionRefused
  <2>2. hook[w].order[1] = NewOrder(TRUE)
    <3>1. RequestOK(w) /\ <<NewOrder(TRUE)>>[1] = NewOrder(TRUE)
      BY DEF IInv
    <3> QED BY <1>7, <3>1 DEF ProvisionRefused, RequestOK
  <2> DEFINE h == [hook[w] EXCEPT !.pc = "reply", !.order = <<Refunded(hook[w].order[1])>>]
  <2>3. hook' = [hook EXCEPT ![w] = h]
    BY <1>7 DEF ProvisionRefused
  <2>4. ~h.order[1].subscribed
    BY <1>0, <2>2, OrdersOK DEF Hook
  <2> HIDE DEF h
  <2> QED BY <1>3, <2>1, <2>3, <2>4
<1>8. ASSUME NEW w \in Webhooks, CommitFails(w) \/ Crash(w) PROVE PanelCovers'
  BY <1>3, <1>8, IdleTyped DEF CommitFails, Crash, End
<1>9. ASSUME NEW w \in Webhooks, HookStep(w) PROVE PanelCovers'
  BY <1>5, <1>6, <1>7, <1>8, <1>9, ProvisionCovered, CommitCovered DEF HookStep
<1> QED BY <1>2, <1>4, <1>8, <1>9 DEF Next

LEMMA IInvInit == Init => IInv
<1> SUFFICES ASSUME Init PROVE IInv
  OBVIOUS
<1>1. TypeInv
  BY TypeInit
<1>2. \A w \in Webhooks : RequestOK(w) /\ ~StagedServed(w)
  BY IdleTyped DEF Init, RequestOK, StagedServed
<1>3. SubscribedAt(orders) = {} /\ orders = << >>
  BY DEF Init, SubscribedAt
<1>4. PanelCovers
  <2>1. Cardinality(SubscribedAt(orders)) = 0 /\ panel = 0
    BY <1>3, FS_EmptySet DEF Init
  <2>2. ~\E w \in Webhooks : StagedServed(w)
    BY <1>2
  <2> QED BY <2>1, <2>2 DEF PanelCovers
<1>5. OrdersArePaidFor
  <2>1. Len(<< >>) = 0 /\ DOMAIN << >> = {}
    BY EmptySeq
  <2> QED BY <2>1 DEF Init, OrdersArePaidFor
<1> QED BY <1>1, <1>2, <1>4, <1>5
        DEF Init, IInv, SentIsReached, CreditedWhenConfirmed, PaidMeansDeposited

LEMMA IInvStep == IInv /\ [Next]_vars => IInv'
<1> SUFFICES ASSUME IInv, [Next]_vars PROVE IInv'
  OBVIOUS
<1>1. TypeInv'
  BY TypeStep DEF IInv
<1>2. (\A w \in Webhooks : RequestOK(w))'
  BY RequestStep
<1> QED BY <1>1, <1>2, ReachedStep, DepositStep, OrdersStep, PanelStep DEF IInv

LEMMA PaymentsInvariant == Spec => []IInv
BY IInvInit, IInvStep, PTL DEF Spec

\* actually_paid and the ledger agree, with any number of concurrent
\* requests, crashes, failed commits and late writes of the polling job.
THEOREM PaymentsPaidMeansDeposited == Spec => []PaidMeansDeposited
BY PaymentsInvariant, PTL DEF IInv

\* Whatever is credited before NOWPayments has confirmed the payment, a
\* request that NOWPayments did not send asked for it: a final IPN is only
\* ever sent of a payment that is final, and stays so, and no interleaving with
\* requests of others makes an IPN credit early.
THEOREM PaymentsCreditedWhenConfirmed == Spec => []CreditedWhenConfirmed
BY PaymentsInvariant, PTL DEF IInv

\* Every order of a payment has its deposit, and its status says what
\* happened to its money.
THEOREM PaymentsOrdersArePaidFor == Spec => []OrdersArePaidFor
BY PaymentsInvariant, PTL DEF IInv

\* The panel has a client for every subscription of this payment.
THEOREM PaymentsSubscribedIsOnPanel == Spec => []SubscribedIsOnPanel
<1>1. IInv => SubscribedIsOnPanel
  <2> SUFFICES ASSUME IInv PROVE SubscribedIsOnPanel
    OBVIOUS
  <2>1. Cardinality(SubscribedAt(orders)) \in Nat /\ panel \in Nat
    BY SubscribedFinite DEF IInv, TypeInv, TypeOK
  <2> QED BY <2>1 DEF IInv, PanelCovers, SubscribedIsOnPanel, SubscribedAt
<1> QED BY <1>1, PaymentsInvariant, PTL

-----------------------------------------------------------------------------
(* How often a payment can be deposited.  The guard on actually_paid reads *)
(* the row before the lock, so every request that is past it credits: once *)
(* the column is set no further request gets past it.                      *)

Crediting == {w \in Webhooks : hook[w].pc = "credit" \/ hook[w].deposit}

DepositsLeft ==
    deposits > 0 => deposits + Cardinality(Crediting) <= Cardinality(Webhooks)

\* Fewer requests to credit are fewer deposits to come.
LEMMA FewerCrediting ==
    ASSUME IsFiniteSet(Webhooks), TypeOK, deposits' = deposits, DepositsLeft,
           deposits > 0 => Crediting' \subseteq Crediting
    PROVE  DepositsLeft'
<1>1. Crediting \in SUBSET Webhooks /\ deposits \in Nat
  BY DEF Crediting, TypeOK
<1>2. IsFiniteSet(Crediting)
  BY <1>1, FS_Subset
<1>3. Cardinality(Crediting) \in Nat /\ Cardinality(Webhooks) \in Nat
  BY <1>2, FS_CardinalityType
<1>4. CASE deposits > 0
  <2>1. Crediting' \in SUBSET Crediting
    BY <1>4
  <2>2. IsFiniteSet(Crediting') /\ Cardinality(Crediting') <= Cardinality(Crediting)
    BY <1>2, <2>1, FS_Subset
  <2>3. Cardinality(Crediting') \in Nat
    BY <2>2, FS_CardinalityType
  <2> QED BY <1>1, <1>3, <1>4, <2>2, <2>3 DEF DepositsLeft
<1>5. CASE ~(deposits > 0)
  BY <1>5 DEF DepositsLeft
<1> QED BY <1>4, <1>5

\* A commit with a deposit uses up its own request.
LEMMA CommitCredits ==
    ASSUME IsFiniteSet(Webhooks), TypeOK, DepositsLeft, NEW w \in Webhooks, Commit(w)
    PROVE  DepositsLeft'
<1>1. /\ hook' = [hook EXCEPT ![w] = Idle] /\ hook \in [Webhooks -> Hook]
      /\ deposits \in Nat
  BY DEF Commit, End, TypeOK
<1>2. Crediting' = Crediting \ {w}
  BY <1>1, IdleTyped DEF Crediting
<1>3. Crediting \in SUBSET Webhooks
  BY DEF Crediting
<1>4. /\ IsFiniteSet(Crediting)
      /\ Cardinality(Crediting) <= Cardinality(Webhooks)
  BY <1>3, FS_Subset
<1>5. Cardinality(Crediting) \in Nat /\ Cardinality(Webhooks) \in Nat
  BY <1>4, FS_CardinalityType
<1>6. CASE hook[w].deposit
  <2>1. w \in Crediting
    BY <1>6 DEF Crediting
  <2>2. Cardinality(Crediting') = Cardinality(Crediting) - 1
    BY <1>2, <1>4, <2>1, FS_RemoveElement
  <2>3. deposits' = deposits + 1
    BY <1>6 DEF Commit
  <2> QED BY <1>1, <1>4, <1>5, <2>2, <2>3 DEF DepositsLeft
<1>7. CASE ~hook[w].deposit
  BY <1>2, <1>7, FewerCrediting DEF Commit
<1> QED BY <1>6, <1>7

LEMMA DepositsLeftStep ==
    ASSUME IsFiniteSet(Webhooks), IInv, DepositsLeft, [Next]_vars
    PROVE  DepositsLeft'
<1> USE DEF envVars, rowVars, netVars
<1>0. TypeOK /\ hook \in [Webhooks -> Hook]
  BY DEF IInv, TypeInv, TypeOK
<1>1. ASSUME UNCHANGED <<deposits, hook>> PROVE DepositsLeft'
  BY <1>0, <1>1, FewerCrediting DEF Crediting
<1>2. CASE \/ StorePayment \/ LosePayment \/ RemoteMove \/ TakeName
           \/ JobLoad \/ JobAsk \/ JobSave \/ UNCHANGED vars
  BY <1>1, <1>2 DEF StorePayment, LosePayment, RemoteMove, TakeName, JobLoad, JobAsk, JobSave, vars
<1>3. ASSUME NEW w \in Webhooks, NEW m \in Statuses, Retry(w, m) \/ Duplicate(w, m) \/ Unverified(w, m)
      PROVE  DepositsLeft'
  <2>1. PICK own \in BOOLEAN : Receive(w, m, own)
    BY <1>3, ReceivedFrom
  <2>2. CASE stored # "stored"
    BY <1>1, <2>1, <2>2 DEF Receive
  <2>3. ASSUME stored = "stored", deposits > 0
        PROVE  Crediting' \subseteq Crediting
    <3>1. payment.paid
      BY <2>3 DEF IInv, PaidMeansDeposited
    <3>2. hook'[w].pc = "reply" /\ ~hook'[w].deposit
      BY <1>0, <2>1, <2>3, <3>1 DEF Receive, MustCredit, Idle
    <3>3. \A v \in Webhooks : v # w => hook'[v] = hook[v]
      BY <1>0, <2>1, <2>3 DEF Receive
    <3> QED BY <3>2, <3>3 DEF Crediting
  <2>4. CASE stored = "stored"
    BY <1>0, <2>1, <2>3, <2>4, FewerCrediting DEF Receive
  <2> QED BY <2>2, <2>4
<1>4. ASSUME NEW w \in Webhooks, HookStep(w) \/ Crash(w), ~Commit(w)
      PROVE  DepositsLeft'
  <2>1. deposits' = deposits
    BY <1>4 DEF HookStep, Crash, Credit, PlaceOrder, ProvisionRefused, ProvisionFails, Provision,
                Reply, CommitFails
  <2>2. CASE CommitFails(w) \/ Crash(w)
    <3>1. hook' = [hook EXCEPT ![w] = Idle]
      BY <2>2 DEF CommitFails, Crash, End
    <3>2. Crediting' \subseteq Crediting
      BY <1>0, <3>1, IdleTyped DEF Crediting
    <3> QED BY <1>0, <2>1, <3>2, FewerCrediting
  <2>3. CASE Credit(w)
    <3>1. hook[w].pc = "credit" /\ \A v \in Webhooks : v # w => hook'[v] = hook[v]
      BY <1>0, <2>3 DEF Credit
    <3>2. Crediting' \subseteq Crediting
      BY <3>1 DEF Crediting
    <3> QED BY <1>0, <2>1, <3>2, FewerCrediting
  <2>4. CASE PlaceOrder(w) \/ ProvisionRefused(w) \/ ProvisionFails(w) \/ Provision(w) \/ Reply(w)
    <3>1. \A v \in Webhooks : v # w => hook'[v] = hook[v]
      BY <1>0, <2>4 DEF PlaceOrder, ProvisionRefused, ProvisionFails, Provision, Reply
    <3>2. hook'[w].deposit = hook[w].deposit /\ hook'[w].pc # "credit"
      <4>1. hook[w] \in Hook
        BY <1>0
      <4>2. CASE PlaceOrder(w)
        <5>1. \/ hook'[w] = [hook[w] EXCEPT !.pc = "reply"]
              \/ hook'[w] = [hook[w] EXCEPT !.pc = "reply", !.order = <<NewOrder(FALSE)>>]
              \/ hook'[w] = [hook[w] EXCEPT !.pc = "provision", !.order = <<NewOrder(TRUE)>>]
          BY <1>0, <4>2 DEF PlaceOrder
        <5> QED BY <4>1, <5>1 DEF Hook
      <4>3. CASE ProvisionRefused(w)
        BY <1>0, <4>1, <4>3 DEF ProvisionRefused, Hook
      <4>4. CASE ProvisionFails(w)
        BY <1>0, <4>1, <4>4 DEF ProvisionFails, Hook
      <4>5. CASE Provision(w)
        BY <1>0, <4>1, <4>5 DEF Provision, Hook
      <4>6. CASE Reply(w)
        BY <1>0, <4>1, <4>6 DEF Reply, Hook
      <4> QED BY <2>4, <4>2, <4>3, <4>4, <4>5, <4>6
    <3>3. Crediting' \subseteq Crediting
      BY <3>1, <3>2 DEF Crediting
    <3> QED BY <1>0, <2>1, <3>3, FewerCrediting
  <2> QED BY <1>4, <2>2, <2>3, <2>4 DEF HookStep
<1>5. ASSUME NEW w \in Webhooks, Commit(w) PROVE DepositsLeft'
  BY <1>0, <1>5, CommitCredits
<1> QED BY <1>2, <1>3, <1>4, <1>5 DEF Next

LEMMA DepositsLeftAlways ==
    ASSUME IsFiniteSet(Webhooks)
    PROVE  Spec => [](IInv /\ DepositsLeft)
<1>1. Init => DepositsLeft
  BY DEF Init, DepositsLeft
<1>2. IInv /\ DepositsLeft /\ [Next]_vars => DepositsLeft'
  BY DepositsLeftStep
<1> QED BY <1>1, <1>2, IInvInit, IInvStep, PTL DEF Spec

\* A payment is deposited at most once for every request that can be served
\* at the same time: the guards lose only against requests that overlap.
THEOREM PaymentsDepositsBounded ==
    ASSUME IsFiniteSet(Webhooks)
    PROVE  Spec => [](deposits <= Cardinality(Webhooks))
<1>1. IInv /\ DepositsLeft => deposits <= Cardinality(Webhooks)
  <2> SUFFICES ASSUME IInv, DepositsLeft PROVE deposits <= Cardinality(Webhooks)
    OBVIOUS
  <2>1. Crediting \in SUBSET Webhooks /\ deposits \in Nat
    BY DEF Crediting, IInv, TypeInv, TypeOK
  <2>2. IsFiniteSet(Crediting)
    BY <2>1, FS_Subset
  <2>3. Cardinality(Crediting) \in Nat /\ Cardinality(Webhooks) \in Nat
    BY <2>2, FS_CardinalityType
  <2> QED BY <2>1, <2>3 DEF DepositsLeft
<1> QED BY <1>1, DepositsLeftAlways, PTL

\* With one request at a time, however often an IPN is repeated and however
\* often the request dies, the payment is credited once.
THEOREM PaymentsCreditedOnce ==
    ASSUME IsFiniteSet(Webhooks), Cardinality(Webhooks) <= 1
    PROVE  Spec => []CreditedOnce
<1>1. IInv /\ deposits <= Cardinality(Webhooks) => CreditedOnce
  <2> SUFFICES ASSUME IInv, deposits <= Cardinality(Webhooks) PROVE CreditedOnce
    OBVIOUS
  <2>1. deposits \in Nat /\ Cardinality(Webhooks) \in Nat
    BY FS_CardinalityType DEF IInv, TypeInv, TypeOK
  <2> QED BY <2>1 DEF CreditedOnce
<1> QED BY <1>1, PaymentsInvariant, PaymentsDepositsBounded, PTL
=============================================================================
