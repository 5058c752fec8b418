------------------------ MODULE SubscriptionsProofs ------------------------
(***************************************************************************)
(* What Subscriptions promises of a refund, of the uuid, of the volume and *)
(* of the server of a subscription, proved for any number of subscriptions *)
(* and of updates, whatever the bounds are.                                *)
(*                                                                         *)
(* A session is a row that was loaded some time ago.  The proofs say of    *)
(* every session under way what its rows still know (Remembers), of the    *)
(* updates whose panel call has been performed what the panel shows of it  *)
(* (RefundsApart, ResetsApart, VolumeCovered), and that a paid renewal     *)
(* holds the user's row from its debit to its end (PaidHoldsLock).         *)
(***************************************************************************)
EXTENDS Subscriptions, Extremes, FiniteSetTheorems, TLAPS

(* The sessions that are under way, those of the sweep included.           *)
TaskShape(t) == task[t].pc # "idle" => task[t].sub \in Subs /\ task[t].op \in Ops

SweepShape(s) == sweep[s] = Idle \/ (sweep[s].sub = s /\ sweep[s].op = "sweep")

SyncShape == sync = NoSync \/ sync.server \in Servers

Shape == (\A t \in Tasks : TaskShape(t)) /\ (\A s \in Subs : SweepShape(s)) /\ SyncShape

PaidHoldsLock ==
    \A t \in Tasks : task[t].op \in Renewals /\ task[t].pc \in {"panel", "save"} => lock = t

-----------------------------------------------------------------------------
(* Refunds that have deleted the client and are not committed yet.         *)
Deleted(t, s) ==
    task[t].pc = "save" /\ task[t].op = "refund" /\ task[t].asks /\ task[t].sub = s

RefundsApart ==
    \A s \in Subs, t \in Tasks : Deleted(t, s) =>
        /\ ~panel[s].here /\ refunds[s].asked = 0
        /\ \A u \in Tasks : Deleted(u, s) => u = t

-----------------------------------------------------------------------------
(* A subscription whose client is there and of which no update was lost.   *)
Clean(s) == panel[s].here /\ ~doubt[s]

(* What a session loaded, and what it will write.                          *)
Remembers(q) ==
    /\ q.new.id = IF q.op = "reset" THEN q.old.id + 1 ELSE q.old.id
    /\ q.new.vol = IF q.op = "volume" THEN q.old.vol + 1 ELSE q.old.vol
    /\ q.pc # "idle" => /\ Clean(q.sub) => q.old.id <= db[q.sub].id
                        /\ q.old.vol <= Base + renewals[q.sub]

SessionsRemember ==
    (\A t \in Tasks : Remembers(task[t])) /\ (\A s \in Subs : Remembers(sweep[s]))

ResetOf(t, s) == task[t].op = "reset" /\ task[t].pc = "save" /\ task[t].sub = s

ResetsApart ==
    \A s \in Subs, t \in Tasks : Clean(s) /\ ResetOf(t, s) =>
        /\ db[s].id = task[t].old.id /\ panel[s].id = task[t].new.id
        /\ \A u \in Tasks : ResetOf(u, s) => u = t

(* Volume renewals that the panel may already grant.                       *)
Granted(s) ==
    \E t \in Tasks : task[t].op = "volume" /\ task[t].pc = "save" /\ task[t].sub = s

VolumeCovered ==
    \A s \in Subs :
        /\ db[s].vol <= Base + renewals[s]
        /\ ~doubt[s] => panel[s].limit <= Base + renewals[s] + (IF Granted(s) THEN 1 ELSE 0)

HomeStays == server[Home] # "absent" /\ \E i \in Inbounds : inbound[Home][i] # "absent"

Types == TypeOK /\ Shape /\ PaidHoldsLock
RefundsInv == RefundsApart /\ OneRefundPerDeletion /\ RefundedHasNoClient
Memory == SessionsRemember /\ ResetsApart /\ IdAgrees /\ VolumeCovered

IInv == Types /\ RefundsInv /\ Memory /\ HomeStays /\ OffServerHasNoInbound

-----------------------------------------------------------------------------
(* The newest order that is still to be refunded: there is one.            *)
LEMMA NewestType == Newest \in 0..N
<1> DEFINE open == {s \in Subs : order[s] = "provisioned"}
<1>1. CASE open = {}
    BY <1>1, SubscriptionsAssumption DEF Newest
<1>2. CASE open # {}
    <2>1. \E s \in open : \A r \in open : r <= s
        BY <1>2, RangeHasGreatest, SubscriptionsAssumption DEF Subs
    <2>2. Newest \in open
        BY <1>2, <2>1 DEF Newest
    <2> QED BY <2>2, SubscriptionsAssumption DEF Subs
<1> QED BY <1>1, <1>2

-----------------------------------------------------------------------------
(* What a commit makes of a row, column by column.                         *)
LEMMA MergeType ==
    ASSUME NEW r \in Row, NEW q \in Session
    PROVE  /\ Merge(r, q) \in Row
           /\ Merge(r, q).id = IF q.new.id # q.old.id THEN q.new.id ELSE r.id
           /\ Merge(r, q).vol = IF q.new.vol # q.old.vol THEN q.new.vol ELSE r.vol
BY DEF Merge, Row, Session

LEMMA IdleType == NewRow \in Row /\ Idle \in Session
<1>1. Base \in Nat /\ N \in Nat /\ 0 \in 0..N
    BY SubscriptionsAssumption
<1>2. NewRow \in Row
    BY <1>1 DEF NewRow, Row, Statuses
<1>3. Idle \in Session
    BY <1>1, <1>2 DEF Idle, Session, Pcs, Ops
<1> QED BY <1>2, <1>3

LEMMA IdleFields == Idle.pc = "idle" /\ Idle.op = "none"
BY DEF Idle

(* What a session computes is a row again.                                 *)
LEMMA RowsType ==
    ASSUME NEW r \in Row, NEW used \in Nat, now \in Nat
    PROVE  /\ Seen(r, used) \in Row /\ Seen(r, used).id = r.id /\ Seen(r, used).vol = r.vol
           /\ Expired(r) \in Row /\ Expired(r).id = r.id /\ Expired(r).vol = r.vol
           /\ Refunded(r) \in Row /\ Refunded(r).id = r.id /\ Refunded(r).vol = r.vol
           /\ Cancelled(r) \in Row /\ Cancelled(r).id = r.id /\ Cancelled(r).vol = r.vol
           /\ Renewed(r, "volume") \in Row /\ Renewed(r, "volume").id = r.id
           /\ Renewed(r, "volume").vol = r.vol + 1
           /\ Renewed(r, "time") \in Row /\ Renewed(r, "time").id = r.id
           /\ Renewed(r, "time").vol = r.vol
<1>1. Seen(r, used) \in Row /\ Seen(r, used).id = r.id /\ Seen(r, used).vol = r.vol
    <2>1. CASE r.status = "pending" /\ used > 0
        <3> DEFINE e == now + 1
        <3>1. Seen(r, used) = [r EXCEPT !.used = used, !.status = "active", !.ends = e]
            BY <2>1 DEF Seen
        <3>2. e \in Nat /\ "active" \in Statuses
            BY DEF Statuses
        <3> HIDE DEF e
        <3> QED BY <3>1, <3>2 DEF Row
    <2>2. CASE ~(r.status = "pending" /\ used > 0)
        <3>1. Seen(r, used) = [r EXCEPT !.used = used]
            BY <2>2 DEF Seen
        <3> QED BY <3>1 DEF Row, Statuses
    <2> QED BY <2>1, <2>2
<1>2. Expired(r) \in Row /\ Expired(r).id = r.id /\ Expired(r).vol = r.vol
    BY DEF Expired, Row, Statuses
<1>3. Refunded(r) \in Row /\ Refunded(r).id = r.id /\ Refunded(r).vol = r.vol
    BY DEF Refunded, Row, Statuses
<1>4. Cancelled(r) \in Row /\ Cancelled(r).id = r.id /\ Cancelled(r).vol = r.vol
    BY DEF Cancelled, Row, Statuses
<1>5. /\ Renewed(r, "volume") \in Row /\ Renewed(r, "volume").id = r.id
      /\ Renewed(r, "volume").vol = r.vol + 1
    BY DEF Renewed, Row, Statuses
<1>6. /\ Renewed(r, "time") \in Row /\ Renewed(r, "time").id = r.id
      /\ Renewed(r, "time").vol = r.vol
    BY DEF Renewed, Row, Statuses
<1> QED BY <1>1, <1>2, <1>3, <1>4, <1>5, <1>6

-----------------------------------------------------------------------------
(* What a call makes of the client it addresses.                           *)
Calls == {"toggle", "reset", "sweep", "refund", "delete", "revoke"} \cup Renewals
Deletions == {"refund", "delete", "revoke"}

LEMMA EffectType ==
    ASSUME NEW q \in Session, NEW p \in Client, q.op \in Calls
    PROVE  /\ Effect(q, p) \in Client
           /\ q.op \in Deletions => ~Effect(q, p).here /\ Effect(q, p).limit = 0
           /\ q.op \notin Deletions => Effect(q, p).here = p.here
           /\ q.op \notin Deletions =>
                Effect(q, p).id = (IF q.op = "reset" THEN q.new.id ELSE p.id)
           /\ q.op \in {"toggle", "reset", "sweep"} => Effect(q, p).limit = q.old.vol
           /\ q.op \in Renewals => Effect(q, p).limit = q.new.vol
<1>0. /\ q.old \in Row /\ q.new \in Row
      /\ q.old.vol \in Nat /\ q.new.vol \in Nat /\ q.new.id \in Nat
      /\ q.new.on \in BOOLEAN /\ q.old.on \in BOOLEAN
      /\ p.id \in Nat /\ p.here \in BOOLEAN
    BY DEF Session, Row, Client
<1>1. CASE q.op = "toggle"
    <2>1. Effect(q, p) = [p EXCEPT !.on = q.new.on, !.limit = q.old.vol]
        BY <1>1, Zenon DEF Effect, Renewals
    <2>2. /\ Effect(q, p) \in Client
          /\ Effect(q, p).here = p.here /\ Effect(q, p).id = p.id
          /\ Effect(q, p).limit = q.old.vol
        BY <1>0, <2>1 DEF Client
    <2> QED BY <1>1, <2>2 DEF Deletions, Renewals
<1>2. CASE q.op = "reset"
    <2>1. Effect(q, p) = [p EXCEPT !.on = q.old.on, !.limit = q.old.vol, !.id = q.new.id]
        BY <1>2, Zenon DEF Effect, Renewals
    <2>2. /\ Effect(q, p) \in Client
          /\ Effect(q, p).here = p.here /\ Effect(q, p).id = q.new.id
          /\ Effect(q, p).limit = q.old.vol
        BY <1>0, <2>1 DEF Client
    <2> QED BY <1>2, <2>2 DEF Deletions, Renewals
<1>3. CASE q.op \in Renewals
    <2>1. Effect(q, p) = [p EXCEPT !.on = TRUE, !.limit = q.new.vol]
        BY <1>3 DEF Effect, Renewals
    <2>2. /\ Effect(q, p) \in Client
          /\ Effect(q, p).here = p.here /\ Effect(q, p).id = p.id
          /\ Effect(q, p).limit = q.new.vol
        BY <1>0, <2>1 DEF Client
    <2> QED BY <1>3, <2>2 DEF Deletions, Renewals
<1>4. CASE q.op = "sweep"
    <2>1. Effect(q, p) = [p EXCEPT !.on = FALSE, !.limit = q.old.vol, !.id = p.id]
        BY <1>4 DEF Effect, Renewals, SweptId
    <2>2. /\ Effect(q, p) \in Client
          /\ Effect(q, p).here = p.here /\ Effect(q, p).id = p.id
          /\ Effect(q, p).limit = q.old.vol
        BY <1>0, <2>1 DEF Client
    <2> QED BY <1>4, <2>2 DEF Deletions, Renewals
<1>5. CASE q.op \in Deletions
    <2>1. Effect(q, p) = Gone
        BY <1>5 DEF Effect, Renewals, Deletions
    <2>2. Gone \in Client /\ ~Gone.here /\ Gone.limit = 0
        BY DEF Gone, Client
    <2> QED BY <1>5, <2>1, <2>2 DEF Deletions, Renewals
<1> QED BY <1>1, <1>2, <1>3, <1>4, <1>5 DEF Calls, Deletions

LEMMA CallForm ==
    ASSUME TypeOK, NEW q \in Session, q.op \in Calls, q.sub \in Subs, Call(q)
    PROVE  /\ panel' \in [Subs -> Client]
           /\ panel[q.sub].here /\ panel[q.sub].id = q.old.id
           /\ panel'[q.sub] = Effect(q, panel[q.sub])
           /\ \A s \in Subs : s # q.sub => panel'[s] = panel[s]
           /\ \A s \in Subs : panel'[s].here => panel[s].here
<1> DEFINE e == Effect(q, panel[q.sub])
<1>1. panel \in [Subs -> Client] /\ panel[q.sub] \in Client
    BY DEF TypeOK
<1>2. e \in Client
    BY <1>1, EffectType
<1>3. /\ panel[q.sub].here /\ panel[q.sub].id = q.old.id
      /\ panel' = [panel EXCEPT ![q.sub] = e]
    BY DEF Call, Known
<1> HIDE DEF e
<1>4. /\ panel' \in [Subs -> Client] /\ panel'[q.sub] = e
      /\ \A s \in Subs : s # q.sub => panel'[s] = panel[s]
    BY <1>1, <1>2, <1>3
<1>5. ASSUME NEW s \in Subs, panel'[s].here PROVE panel[s].here
    BY <1>3, <1>4, <1>5
<1> QED BY <1>3, <1>4, <1>5 DEF e

-----------------------------------------------------------------------------
(* What a step makes of the session it belongs to.                         *)

\* A session that begins has loaded the committed row of s.
Opens(q, s) ==
    /\ q.pc \in {"debit", "panel", "save"} /\ q.op \in Ops /\ q.sub = s
    /\ q.old = db[s]
    /\ q.new.id = IF q.op = "reset" THEN q.old.id + 1 ELSE q.old.id
    /\ q.new.vol = IF q.op = "volume" THEN q.old.vol + 1 ELSE q.old.vol
    /\ q.op \in Renewals => q.pc = "debit"
    /\ q.pc = "save" => q.op \in {"refund", "delete"} /\ ~q.asks

\* A session that is now about to write, with what it was to write of the
\* uuid and the volume (a count of the traffic writes what it loaded).
Done(p, q) ==
    /\ q.pc = "save" /\ q.op = p.op /\ q.sub = p.sub /\ q.asks = p.asks /\ q.old = p.old
    /\ \/ q.new.id = p.new.id /\ q.new.vol = p.new.vol
       \/ p.op = "usage" /\ q.new.id = p.old.id /\ q.new.vol = p.old.vol

LEMMA ReadyForm ==
    ASSUME NEW p \in Session, NEW r \in Row, r.id = p.old.id, r.vol = p.old.vol
    PROVE  /\ Ready(p) \in Session /\ Done(p, Ready(p))
           /\ [Ready(p) EXCEPT !.new = r] \in Session
           /\ p.op = "usage" => Done(p, [Ready(p) EXCEPT !.new = r])
<1> DEFINE n == IF p.op = "refund" THEN Newest ELSE 0
<1>1. n \in 0..N
    BY NewestType, SubscriptionsAssumption
<1>2. Ready(p) = [p EXCEPT !.pc = "save", !.order = n]
    BY DEF Ready
<1>3. "save" \in Pcs
    BY DEF Pcs
<1> HIDE DEF n
<1>4. Ready(p) \in Session /\ Done(p, Ready(p))
    BY <1>1, <1>2, <1>3 DEF Session, Done
<1>5. /\ [Ready(p) EXCEPT !.new = r] \in Session
      /\ p.op = "usage" => Done(p, [Ready(p) EXCEPT !.new = r])
    BY <1>4 DEF Session, Done
<1> QED BY <1>4, <1>5

\* The parts of the state that no update and no sweep touches while it waits.
RestTyped ==
    /\ ServersTypeOK
    /\ traffic \in [Subs -> Nat] /\ now \in 0..MaxTime
    /\ unpaid \in [Subs -> Nat]
    /\ clicks \in 0..MaxClicks /\ crashes \in 0..MaxCrashes /\ offered \subseteq Subs

LEMMA BeginForm ==
    ASSUME TypeOK, NEW t \in Tasks, NEW s \in Subs, NEW op \in Ops, NEW new \in Row,
           NEW pc \in {"debit", "panel", "save"}, Begin(t, op, s, new, pc), offered' \subseteq Subs,
           new.id = IF op = "reset" THEN db[s].id + 1 ELSE db[s].id,
           new.vol = IF op = "volume" THEN db[s].vol + 1 ELSE db[s].vol,
           op \in Renewals => pc = "debit",
           pc = "save" => op \in {"refund", "delete"}
    PROVE  /\ \E q \in Session : Opens(q, s) /\ task' = [task EXCEPT ![t] = q]
           /\ task[t] = Idle
           /\ UNCHANGED <<db, order, panel, sweep, lock, renewals, refunds, doubt, serverVars>>
           /\ RestTyped'
<1> DEFINE n == IF op = "refund" /\ pc = "save" THEN Newest ELSE 0
           a == pc = "panel"
           q == [pc |-> pc, op |-> op, sub |-> s, old |-> db[s], new |-> new,
                 asks |-> a, order |-> n]
<1>1. n \in 0..N /\ s \in 0..N
    BY NewestType, SubscriptionsAssumption DEF Subs
<1>2. a \in BOOLEAN /\ (pc = "save" => ~a)
    OBVIOUS
<1>3. db[s] \in Row
    BY DEF TypeOK
<1>4. task[t] = Idle /\ task' = [task EXCEPT ![t] = q]
    BY DEF Begin
<1> HIDE DEF n, a
<1>5. q \in Session
    BY <1>1, <1>2, <1>3 DEF Session, Pcs
<1>6. Opens(q, s)
    BY <1>2 DEF Opens
<1>7. UNCHANGED <<db, order, panel, sweep, lock, renewals, refunds, doubt, serverVars>>
    BY DEF Begin
<1>8. RestTyped'
    <2>1. clicks' = clicks + 1 /\ clicks < MaxClicks
        BY DEF Begin
    <2>2. clicks' \in 0..MaxClicks
        BY <2>1, SubscriptionsAssumption DEF TypeOK
    <2> QED BY <2>2 DEF Begin, RestTyped, TypeOK, ServersTypeOK, serverVars
<1> HIDE DEF q
<1> QED BY <1>4, <1>5, <1>6, <1>7, <1>8

LEMMA UpdateForm ==
    ASSUME TypeOK, NEW t \in Tasks, NEW s \in Subs, UpdateBegins(t, s)
    PROVE  /\ \E q \in Session : Opens(q, s) /\ task' = [task EXCEPT ![t] = q]
           /\ task[t] = Idle
           /\ UNCHANGED <<db, order, panel, sweep, lock, renewals, refunds, doubt, serverVars>>
           /\ RestTyped'
<1> DEFINE r == db[s]
           Goal == /\ \E q \in Session : Opens(q, s) /\ task' = [task EXCEPT ![t] = q]
                   /\ task[t] = Idle
                   /\ UNCHANGED <<db, order, panel, sweep, lock, renewals, refunds, doubt,
                                  serverVars>>
                   /\ RestTyped'
           call == IF HomeUp THEN "panel" ELSE "save"
<1>0. /\ r \in Row /\ r.id \in Nat /\ r.id + 1 \in Nat /\ r.on \in BOOLEAN
      /\ offered \subseteq Subs /\ now \in Nat /\ 0 \in Nat
    BY SubscriptionsAssumption DEF TypeOK, Row
<1>r. /\ Refunded(r) \in Row /\ Refunded(r).id = r.id /\ Refunded(r).vol = r.vol
      /\ Cancelled(r) \in Row /\ Cancelled(r).id = r.id /\ Cancelled(r).vol = r.vol
      /\ Renewed(r, "volume") \in Row /\ Renewed(r, "volume").id = r.id
      /\ Renewed(r, "volume").vol = r.vol + 1
      /\ Renewed(r, "time") \in Row /\ Renewed(r, "time").id = r.id
      /\ Renewed(r, "time").vol = r.vol
    BY <1>0, RowsType
<1>c. call \in {"debit", "panel", "save"}
    OBVIOUS
<1> HIDE DEF r, call
<1>1. ASSUME ViewConfig(t, s) \/ RefreshUsage(t, s) PROVE Goal
    <2>1. Begin(t, "usage", s, r, "panel") /\ offered' \subseteq Subs
        BY <1>0, <1>1 DEF ViewConfig, RefreshUsage, r
    <2> QED BY <1>0, <2>1, BeginForm DEF Ops, Renewals, r
<1>2. ASSUME ResetUuid(t, s) PROVE Goal
    <2> DEFINE i == r.id + 1
               new == [r EXCEPT !.id = i]
    <2>1. Begin(t, "reset", s, new, "panel") /\ offered' = offered
        BY <1>2 DEF ResetUuid, r
    <2>2. i \in Nat
        BY <1>0
    <2> HIDE DEF i
    <2>3. new \in Row /\ new.id = i /\ new.vol = r.vol
        BY <1>0, <2>2 DEF Row
    <2> HIDE DEF new
    <2> QED BY <1>0, <2>1, <2>3, BeginForm DEF Ops, Renewals, r, i
<1>3. ASSUME ToggleEnable(t, s) PROVE Goal
    <2> DEFINE b == ~r.on
               new == [r EXCEPT !.on = b]
    <2>1. Begin(t, "toggle", s, new, "panel") /\ offered' = offered
        BY <1>3 DEF ToggleEnable, r
    <2>2. b \in BOOLEAN
        OBVIOUS
    <2> HIDE DEF b
    <2>3. new \in Row /\ new.id = r.id /\ new.vol = r.vol
        BY <1>0, <2>2 DEF Row
    <2> HIDE DEF new
    <2> QED BY <1>0, <2>1, <2>3, BeginForm DEF Ops, Renewals, r
<1>4. ASSUME CancelAndRefund(t, s) PROVE Goal
    <2>1. Begin(t, "refund", s, Refunded(r), call) /\ offered' = offered
        BY <1>4 DEF CancelAndRefund, r, call
    <2> QED BY <1>0, <1>r, <1>c, <2>1, BeginForm DEF Ops, Renewals, r
<1>5. ASSUME DeleteConfig(t, s) PROVE Goal
    <2>1. Begin(t, "delete", s, Cancelled(r), call) /\ offered' = offered
        BY <1>5 DEF DeleteConfig, r, call
    <2> QED BY <1>0, <1>r, <1>c, <2>1, BeginForm DEF Ops, Renewals, r
<1>6. ASSUME RevokeConfig(t, s) PROVE Goal
    <2>1. Begin(t, "revoke", s, Cancelled(r), "panel") /\ offered' = offered
        BY <1>6 DEF RevokeConfig, r
    <2> QED BY <1>0, <1>r, <2>1, BeginForm DEF Ops, Renewals, r
<1>7. ASSUME NEW kind \in Renewals, Renew(t, s, kind) PROVE Goal
    <2>1. Begin(t, kind, s, Renewed(r, kind), "debit") /\ offered' = offered
        BY <1>7 DEF Renew, r
    <2>2. kind \in Ops /\ (kind = "volume" \/ kind = "time")
        BY DEF Ops, Renewals
    <2> QED BY <1>0, <1>r, <2>1, <2>2, BeginForm DEF r
<1> HIDE DEF Goal
<1>8. Goal
    BY <1>1, <1>2, <1>3, <1>4, <1>5, <1>6, <1>7 DEF UpdateBegins
<1> QED BY <1>8 DEF Goal

\* A panel call that ends: the update has given up or is about to write.  It
\* was performed, or it was not, or nothing was asked of the client.
Settles(t, q) ==
    /\ task[t].pc = "panel" /\ task' = [task EXCEPT ![t] = q]
    /\ q = Idle \/ Done(task[t], q)
    /\ \/ /\ UNCHANGED <<panel, doubt>>
          /\ task[t].op \in {"usage", "delete"} \cup Renewals \/ q = Idle
       \/ /\ Call(task[t]) /\ task[t].op \in Calls
          /\ doubt' \in [Subs -> BOOLEAN] /\ \A s \in Subs : doubt[s] => doubt'[s]
          /\ task[t].op \in {"delete"} \cup Renewals => q # Idle
          /\ task[t].op = "reset" /\ q = Idle => doubt'[task[t].sub]

LEMMA CallEndForm ==
    ASSUME TypeOK, Shape, NEW t \in Tasks, CallEnds(t)
    PROVE  /\ \E q \in Session : Settles(t, q)
           /\ UNCHANGED <<db, order, sweep, lock, renewals, refunds, serverVars>>
           /\ RestTyped'
<1> DEFINE p == task[t]
<1>0. /\ p \in Session /\ p.new \in Row /\ p.old \in Row /\ Idle \in Session
      /\ \A s \in Subs : traffic[s] \in Nat
      /\ now \in Nat /\ doubt \in [Subs -> BOOLEAN] /\ Idle.pc = "idle"
    BY IdleType, IdleFields, SubscriptionsAssumption DEF TypeOK, Session
<1>1. p.pc = "panel"
    BY DEF CallEnds, Answered, Refused, AnswerLost
<1>2. p.sub \in Subs /\ p.op \in Ops
    BY <1>1 DEF Shape, TaskShape
<1>3. Ready(p) \in Session /\ Done(p, Ready(p)) /\ Ready(p) # Idle
    BY <1>0, ReadyForm DEF Done
<1>4. p.op # "usage" => p.op \in Calls
    BY <1>2 DEF Ops, Calls
<1>5. UNCHANGED <<db, order, sweep, lock, renewals, refunds, serverVars>> /\ RestTyped'
    BY DEF CallEnds, Answered, Refused, AnswerLost, RestTyped, TypeOK, ServersTypeOK, serverVars
<1>6. CASE Answered(t) /\ p.op = "usage"
    <2>0. PICK used \in {0} \cup {traffic[p.sub]} :
              task' = [task EXCEPT ![t] = [Ready(p) EXCEPT !.new = Seen(p.old, used)]]
        BY <1>6 DEF Answered
    <2> DEFINE r == Seen(p.old, used)
               q == [Ready(p) EXCEPT !.new = r]
    <2>1. task' = [task EXCEPT ![t] = q] /\ panel' = panel /\ doubt' = doubt
        BY <1>6, <2>0 DEF Answered
    <2>2. r \in Row /\ r.id = p.old.id /\ r.vol = p.old.vol
        BY <1>0, <1>2, RowsType
    <2>3. q \in Session /\ Done(p, q)
        BY <1>0, <1>6, <2>2, ReadyForm
    <2> QED BY <1>1, <1>5, <1>6, <2>1, <2>3 DEF Settles
<1>7. CASE Answered(t) /\ p.op # "usage"
    <2>1. Call(p) /\ task' = [task EXCEPT ![t] = Ready(p)] /\ doubt' = doubt
        BY <1>7 DEF Answered
    <2> QED BY <1>0, <1>1, <1>3, <1>4, <1>5, <1>7, <2>1 DEF Settles
<1>8. CASE Refused(t)
    <2> DEFINE q == IF GoesOn(p) THEN Ready(p) ELSE Idle
    <2>1. task' = [task EXCEPT ![t] = q] /\ panel' = panel /\ doubt' = doubt
        BY <1>8 DEF Refused
    <2>2. /\ q \in Session /\ (q = Idle \/ Done(p, q))
          /\ p.op \in {"usage", "delete"} \cup Renewals \/ q = Idle
        BY <1>0, <1>3 DEF GoesOn
    <2> HIDE DEF q
    <2> QED BY <1>1, <1>5, <2>1, <2>2 DEF Settles
<1>9. CASE AnswerLost(t)
    <2> DEFINE q == IF GoesOn(p) THEN Ready(p) ELSE Idle
               b == doubt[p.sub] \/ p.op = "reset"
    <2>1. /\ Call(p) /\ task' = [task EXCEPT ![t] = q] /\ p.op # "usage"
          /\ doubt' = [doubt EXCEPT ![p.sub] = b]
        BY <1>9 DEF AnswerLost
    <2>2. /\ q \in Session /\ (q = Idle \/ Done(p, q))
          /\ p.op \in {"delete"} \cup Renewals => q # Idle
        BY <1>0, <1>3 DEF GoesOn
    <2>3. b \in BOOLEAN /\ (doubt[p.sub] => b) /\ (p.op = "reset" => b)
        BY <1>0, <1>2
    <2> HIDE DEF q, b
    <2>4. doubt' \in [Subs -> BOOLEAN]
        BY <1>0, <1>2, <2>1, <2>3
    <2>5. \A s \in Subs : doubt[s] => doubt'[s]
        BY <1>0, <1>2, <2>1, <2>3
    <2>6. p.op = "reset" => doubt'[p.sub]
        BY <1>0, <1>2, <2>1, <2>3
    <2> QED BY <1>1, <1>4, <1>5, <2>1, <2>2, <2>4, <2>5, <2>6 DEF Settles
<1> QED BY <1>6, <1>7, <1>8, <1>9 DEF CallEnds

\* What the commit of an update changes.
Writes(t) ==
    LET p == task[t] IN
    /\ p.pc = "save" /\ p.sub \in Subs
    /\ db' = [db EXCEPT ![p.sub] = Merge(db[p.sub], p)]
    /\ \A s \in Subs : refunds'[s].asked = refunds[s].asked + (IF Deleted(t, s) THEN 1 ELSE 0)
    /\ \A s \in Subs : renewals'[s] =
          renewals[s] + (IF lock = t /\ p.op = "volume" /\ p.sub = s THEN 1 ELSE 0)
    /\ lock' = IF lock = t THEN NoTask ELSE lock
    /\ task' = [task EXCEPT ![t] = Idle]

LEMMA SaveForm ==
    ASSUME TypeOK, Shape, NEW t \in Tasks, Save(t)
    PROVE  /\ Writes(t)
           /\ db' \in [Subs -> Row] /\ order' \in [Subs -> {"provisioned", "refunded"}]
           /\ refunds' \in [Subs -> [asked : Nat, skipped : Nat]]
           /\ renewals' \in [Subs -> Nat]
           /\ UNCHANGED <<panel, sweep, doubt, serverVars>>
           /\ RestTyped'
<1> DEFINE p == task[t]
           m == Merge(db[p.sub], p)
           c == Counted(refunds[p.sub], p)
<1>0. p \in Session /\ p.order \in 0..N /\ p.asks \in BOOLEAN /\ p.sub \in 0..N
    BY DEF TypeOK, Session
<1>1. p.pc = "save" /\ p.sub \in Subs
    <2>1. p.pc = "save"
        BY DEF Save
    <2> QED BY <2>1 DEF Shape, TaskShape
<1>2. m \in Row /\ db' = [db EXCEPT ![p.sub] = m]
    BY <1>0, <1>1, MergeType DEF Save, TypeOK
<1>3. db' \in [Subs -> Row]
    <2> HIDE DEF m
    <2> QED BY <1>1, <1>2 DEF TypeOK
<1>4. order' \in [Subs -> {"provisioned", "refunded"}]
    <2>1. CASE p.order = 0
        BY <2>1 DEF Save, TypeOK
    <2>2. CASE p.order # 0
        <3>1. p.order \in Subs
            BY <1>0, <2>2, SubscriptionsAssumption DEF Subs
        <3>2. order' = [order EXCEPT ![p.order] = "refunded"]
            BY <2>2 DEF Save
        <3> QED BY <3>1, <3>2 DEF TypeOK
    <2> QED BY <2>1, <2>2
<1>5. /\ refunds' \in [Subs -> [asked : Nat, skipped : Nat]]
      /\ \A s \in Subs : refunds'[s].asked = refunds[s].asked + (IF Deleted(t, s) THEN 1 ELSE 0)
    <2>0. /\ refunds \in [Subs -> [asked : Nat, skipped : Nat]]
          /\ \A s \in Subs : refunds[s].asked \in Nat
          /\ refunds[p.sub].asked \in Nat /\ refunds[p.sub].skipped \in Nat
        BY <1>1 DEF TypeOK
    <2>1. CASE p.op # "refund"
        <3>1. refunds' = refunds
            BY <2>1 DEF Save
        <3>2. \A s \in Subs : ~Deleted(t, s)
            BY <2>1 DEF Deleted
        <3> QED BY <2>0, <3>1, <3>2
    <2>2. CASE p.op = "refund" /\ p.asks
        <3> DEFINE a == refunds[p.sub].asked + 1
                   e == [refunds[p.sub] EXCEPT !.asked = a]
        <3>1. refunds' = [refunds EXCEPT ![p.sub] = e]
            BY <2>2 DEF Save, Counted
        <3>2. a \in Nat
            BY <2>0
        <3> HIDE DEF a
        <3>3. e \in [asked : Nat, skipped : Nat] /\ e.asked = a
            BY <1>1, <2>0, <3>2
        <3> HIDE DEF e
        <3>4. \A s \in Subs : Deleted(t, s) <=> s = p.sub
            BY <1>1, <2>2 DEF Deleted
        <3>5. refunds' \in [Subs -> [asked : Nat, skipped : Nat]]
            BY <1>1, <2>0, <3>1, <3>3
        <3>6. ASSUME NEW s \in Subs
              PROVE  refunds'[s].asked = refunds[s].asked + (IF Deleted(t, s) THEN 1 ELSE 0)
            BY <1>1, <2>0, <3>1, <3>3, <3>4 DEF a
        <3> QED BY <3>5, <3>6
    <2>3. CASE p.op = "refund" /\ ~p.asks
        <3> DEFINE a == refunds[p.sub].skipped + 1
                   e == [refunds[p.sub] EXCEPT !.skipped = a]
        <3>1. refunds' = [refunds EXCEPT ![p.sub] = e]
            BY <2>3 DEF Save, Counted
        <3>2. a \in Nat
            BY <2>0
        <3> HIDE DEF a
        <3>3. e \in [asked : Nat, skipped : Nat] /\ e.asked = refunds[p.sub].asked
            BY <1>1, <2>0, <3>2
        <3> HIDE DEF e
        <3>4. \A s \in Subs : ~Deleted(t, s)
            BY <2>3 DEF Deleted
        <3>5. refunds' \in [Subs -> [asked : Nat, skipped : Nat]]
            BY <1>1, <2>0, <3>1, <3>3
        <3>6. ASSUME NEW s \in Subs
              PROVE  refunds'[s].asked = refunds[s].asked + (IF Deleted(t, s) THEN 1 ELSE 0)
            BY <1>1, <2>0, <3>1, <3>3, <3>4
        <3> QED BY <3>5, <3>6
    <2> QED BY <2>1, <2>2, <2>3
<1>6. /\ renewals' \in [Subs -> Nat]
      /\ \A s \in Subs : renewals'[s] =
            renewals[s] + (IF lock = t /\ p.op = "volume" /\ p.sub = s THEN 1 ELSE 0)
    <2>0. renewals \in [Subs -> Nat] /\ renewals[p.sub] + 1 \in Nat
        BY <1>1 DEF TypeOK
    <2>1. CASE lock = t /\ p.op = "volume"
        <3>1. renewals' = [renewals EXCEPT ![p.sub] = renewals[p.sub] + 1]
            BY <2>1 DEF Save
        <3> QED BY <1>1, <2>0, <2>1, <3>1
    <2>2. CASE ~(lock = t /\ p.op = "volume")
        <3>1. renewals' = renewals
            BY <2>2 DEF Save
        <3> QED BY <2>0, <2>2, <3>1
    <2> QED BY <2>1, <2>2
<1>7. /\ lock' = IF lock = t THEN NoTask ELSE lock
      /\ task' = [task EXCEPT ![t] = Idle]
      /\ UNCHANGED <<panel, sweep, doubt, serverVars>>
    BY DEF Save
<1>8. RestTyped'
    BY DEF Save, RestTyped, TypeOK, ServersTypeOK, serverVars
<1> QED BY <1>1, <1>2, <1>3, <1>4, <1>5, <1>6, <1>7, <1>8 DEF Writes

\* A step of the sweep before its commit, or its end by a restart.
Sweeps ==
    /\ sweep' \in [Subs -> Session]
    /\ \A s \in Subs :
          \/ sweep'[s] = sweep[s]
          \/ sweep'[s] = Idle
          \/ LET q == sweep'[s]
             IN  /\ q.sub = s /\ q.op = "sweep"
                 /\ q.new.id = q.old.id /\ q.new.vol = q.old.vol
                 /\ q.old = db[s] \/ (q.old = sweep[s].old /\ sweep[s].pc # "idle"
                                                            /\ sweep[s].sub = s)
    /\ \/ panel' = panel
       \/ \E s \in Subs : sweep[s].sub = s /\ sweep[s].op = "sweep" /\ sweep[s].pc # "idle"
                          /\ Call(sweep[s])
    /\ UNCHANGED <<db, order, task, lock, renewals, refunds, doubt, serverVars>>
    /\ RestTyped'

LEMMA SweepForm ==
    ASSUME TypeOK, Shape, SessionsRemember,
           SweepStart \/ WorkerCrash
           \/ \E s \in Subs : \/ SweepCounts(s) \/ SweepEmpty(s)
                              \/ SweepSkips(s) \/ SweepBlocks(s)
    PROVE  Sweeps
<1>0. /\ Idle \in Session /\ Idle.pc = "idle" /\ now \in Nat
      /\ sweep \in [Subs -> Session] /\ db \in [Subs -> Row]
      /\ \A s \in Subs : traffic[s] \in Nat /\ sweep[s].old \in Row /\ sweep[s].new \in Row
    BY IdleType, IdleFields, SubscriptionsAssumption DEF TypeOK, Session
<1>1. UNCHANGED <<db, order, task, lock, renewals, refunds, doubt, serverVars>>
    BY DEF SweepStart, WorkerCrash, SweepCounts, SweepEmpty, SweepSkips, SweepBlocks
<1>2. RestTyped'
    <2>1. CASE WorkerCrash
        <3>1. crashes' \in 0..MaxCrashes
            BY <2>1, SubscriptionsAssumption DEF WorkerCrash, TypeOK
        <3> QED BY <2>1, <3>1 DEF WorkerCrash, RestTyped, TypeOK, ServersTypeOK, serverVars
    <2>2. CASE ~WorkerCrash
        BY <2>2 DEF SweepStart, SweepCounts, SweepEmpty, SweepSkips, SweepBlocks, RestTyped, TypeOK,
                    ServersTypeOK, serverVars
    <2> QED BY <2>1, <2>2
<1>3. CASE SweepStart
    <2> DEFINE q(s) == [Idle EXCEPT !.pc = "traffic", !.op = "sweep", !.sub = s,
                                    !.old = db[s], !.new = db[s]]
    <2>1. ASSUME NEW s \in Subs
          PROVE  /\ q(s) \in Session /\ q(s).sub = s /\ q(s).op = "sweep"
                 /\ q(s).old = db[s] /\ q(s).new = db[s]
        <3>1. db[s] \in Row /\ s \in 0..N /\ "traffic" \in Pcs
            BY <1>0, SubscriptionsAssumption DEF Subs, Pcs
        <3> QED BY <1>0, <3>1 DEF Session
    <2>2. sweep' = [s \in Subs |-> IF Live(db[s]) THEN q(s) ELSE Idle] /\ panel' = panel
        BY <1>3 DEF SweepStart
    <2> HIDE DEF q
    <2>3. sweep' \in [Subs -> Session]
        BY <1>0, <2>1, <2>2
    <2> QED BY <1>1, <1>2, <2>1, <2>2, <2>3 DEF Sweeps
<1>4. CASE WorkerCrash
    BY <1>0, <1>1, <1>2, <1>4 DEF Sweeps, WorkerCrash
<1>5. ASSUME NEW s \in Subs,
             SweepCounts(s) \/ SweepEmpty(s) \/ SweepSkips(s) \/ SweepBlocks(s)
      PROVE  Sweeps
    <2> DEFINE p == sweep[s]
               r == Seen(p.old, traffic[s])
               none == Seen(p.old, 0)
    <2>1. /\ p \in Session /\ p.pc \in {"traffic", "block"} /\ p.sub = s /\ p.op = "sweep"
          /\ p.new.id = p.old.id /\ p.new.vol = p.old.vol /\ p.old \in Row /\ p.new \in Row
        <3>1. p.pc \in {"traffic", "block"}
            BY <1>5 DEF SweepCounts, SweepEmpty, SweepSkips, SweepBlocks
        <3>2. p.sub = s /\ p.op = "sweep"
            BY <1>0, <3>1 DEF Shape, SweepShape
        <3>3. Remembers(p)
            BY DEF SessionsRemember
        <3> QED BY <1>0, <3>1, <3>2, <3>3 DEF Remembers
    <2>2. /\ r \in Row /\ r.id = p.old.id /\ r.vol = p.old.vol
          /\ none \in Row /\ none.id = p.old.id /\ none.vol = p.old.vol
          /\ Expired(p.old) \in Row /\ Expired(p.old).id = p.old.id
          /\ Expired(p.old).vol = p.old.vol
          /\ Expired(p.new) \in Row /\ Expired(p.new).id = p.old.id
          /\ Expired(p.new).vol = p.old.vol
        BY <1>0, <2>1, RowsType
    <2> HIDE DEF r, none
    <2>3. \E q \in Session :
             /\ sweep' = [sweep EXCEPT ![s] = q] /\ q.sub = s /\ q.op = "sweep"
             /\ q.old = p.old /\ q.new.id = p.old.id /\ q.new.vol = p.old.vol
        <3>1. CASE SweepCounts(s)
            <4>1. sweep' = [sweep EXCEPT ![s] = Counts(p)]
                BY <3>1 DEF SweepCounts
            <4> DEFINE pc == IF Over(r) THEN "block" ELSE "save"
                       new == IF ~panel[s].here THEN Expired(p.old) ELSE r
                       to == IF ~panel[s].here THEN "save" ELSE pc
                       q == [p EXCEPT !.pc = to, !.new = new]
            <4>2. Counts(p) = q
                BY <2>1 DEF Counts, CountOf, r
            <4>3. to \in Pcs /\ new \in Row /\ new.id = p.old.id /\ new.vol = p.old.vol
                BY <2>2 DEF Pcs
            <4> HIDE DEF to, new
            <4>4. /\ q \in Session /\ q.sub = s /\ q.op = "sweep" /\ q.old = p.old /\ q.new = new
                BY <2>1, <4>3 DEF Session
            <4> HIDE DEF q
            <4> QED BY <4>1, <4>2, <4>3, <4>4
        <3>2. CASE SweepSkips(s)
            <4> DEFINE q == [p EXCEPT !.pc = "save"]
            <4>1. sweep' = [sweep EXCEPT ![s] = q]
                BY <3>2 DEF SweepSkips
            <4>2. /\ q \in Session /\ q.sub = s /\ q.op = "sweep" /\ q.old = p.old /\ q.new = p.new
                BY <2>1 DEF Session, Pcs
            <4> HIDE DEF q
            <4> QED BY <2>1, <4>1, <4>2
        <3>3. CASE SweepEmpty(s)
            <4> DEFINE to == IF Over(none) THEN "block" ELSE "save"
                       q == [p EXCEPT !.pc = to, !.new = none]
            <4>1. sweep' = [sweep EXCEPT ![s] = q]
                BY <3>3 DEF SweepEmpty, CountOf, none
            <4>2. to \in Pcs
                BY DEF Pcs
            <4> HIDE DEF to
            <4>3. /\ q \in Session /\ q.sub = s /\ q.op = "sweep" /\ q.old = p.old /\ q.new = none
                BY <2>1, <2>2, <4>2 DEF Session
            <4> HIDE DEF q
            <4> QED BY <2>2, <4>1, <4>3
        <3>4. CASE SweepBlocks(s)
            <4> DEFINE new == Expired(p.new)
                       q == [p EXCEPT !.pc = "save", !.new = new]
            <4>1. sweep' = [sweep EXCEPT ![s] = q]
                BY <3>4 DEF SweepBlocks
            <4>2. new \in Row /\ new.id = p.old.id /\ new.vol = p.old.vol
                BY <2>2
            <4> HIDE DEF new
            <4>3. /\ q \in Session /\ q.sub = s /\ q.op = "sweep" /\ q.old = p.old /\ q.new = new
                BY <2>1, <4>2 DEF Session, Pcs
            <4> HIDE DEF q
            <4> QED BY <4>1, <4>2, <4>3
        <3> QED BY <1>5, <3>1, <3>2, <3>3, <3>4
    <2>4. panel' = panel \/ Call(p)
        BY <1>5 DEF SweepCounts, SweepEmpty, SweepSkips, SweepBlocks
    <2>5. PICK q \in Session :
             /\ sweep' = [sweep EXCEPT ![s] = q] /\ q.sub = s /\ q.op = "sweep"
             /\ q.old = p.old /\ q.new.id = p.old.id /\ q.new.vol = p.old.vol
        BY <2>3
    <2>6. sweep' \in [Subs -> Session]
        BY <1>0, <2>5
    <2>7. p.pc # "idle"
        BY <2>1
    <2> QED BY <1>0, <1>1, <1>2, <2>1, <2>4, <2>5, <2>6, <2>7 DEF Sweeps
<1> QED BY <1>3, <1>4, <1>5

\* A renewal that was debited, and one that was not.
Debits(t, q) ==
    /\ task[t].pc = "debit" /\ lock = NoTask
    /\ task' = [task EXCEPT ![t] = q]
    /\ \/ /\ q.pc = "panel" /\ q.op = task[t].op /\ q.sub = task[t].sub
          /\ q.old = task[t].old /\ q.new = task[t].new /\ lock' = t
       \/ q = Idle /\ lock' = lock

LEMMA DebitForm ==
    ASSUME TypeOK, Shape, NEW t \in Tasks, Debit(t) \/ DebitRefused(t)
    PROVE  /\ \E q \in Session : Debits(t, q)
           /\ UNCHANGED <<db, order, panel, sweep, renewals, refunds, doubt, serverVars>>
           /\ RestTyped'
<1> DEFINE p == task[t]
           q == [p EXCEPT !.pc = "panel"]
<1>0. p \in Session /\ Idle \in Session /\ unpaid \in [Subs -> Nat]
    BY IdleType DEF TypeOK
<1>1. p.pc = "debit" /\ p.sub \in Subs
    <2>1. p.pc = "debit"
        BY DEF Debit, DebitRefused
    <2> QED BY <2>1 DEF Shape, TaskShape
<1>2. q \in Session /\ q.pc = "panel" /\ q.op = p.op /\ q.sub = p.sub /\ q.old = p.old /\ q.new = p.new
    BY <1>0 DEF Session, Pcs
<1>3. \E x \in Session : Debits(t, x)
    <2>1. CASE Debit(t)
        <3>1. task' = [task EXCEPT ![t] = q] /\ lock = NoTask /\ lock' = t
            BY <2>1 DEF Debit
        <3> HIDE DEF q
        <3> QED BY <1>1, <1>2, <3>1 DEF Debits
    <2>2. CASE DebitRefused(t)
        BY <1>0, <2>2 DEF DebitRefused, AfterRefusal, Debits
    <2> QED BY <2>1, <2>2
<1>4. UNCHANGED <<db, order, panel, sweep, renewals, refunds, doubt, serverVars>>
    BY DEF Debit, DebitRefused
<1>5. RestTyped'
    <2>1. unpaid' \in [Subs -> Nat]
        <3>1. CASE Debit(t)
            BY <1>0, <3>1 DEF Debit
        <3>2. CASE DebitRefused(t)
            <4>1. unpaid' = [unpaid EXCEPT ![p.sub] = unpaid[p.sub] + 1] /\ unpaid[p.sub] + 1 \in Nat
                BY <1>0, <1>1, <3>2 DEF DebitRefused
            <4> QED BY <1>0, <1>1, <4>1
        <3> QED BY <3>1, <3>2
    <2> QED BY <2>1 DEF Debit, DebitRefused, RestTyped, TypeOK, ServersTypeOK, serverVars
<1> QED BY <1>3, <1>4, <1>5

LEMMA CrashForm ==
    ASSUME TypeOK, BotCrash
    PROVE  /\ task' = [t \in Tasks |-> Idle] /\ lock' = NoTask
           /\ doubt' \in [Subs -> BOOLEAN]
           /\ \A s \in Subs : /\ doubt[s] => doubt'[s]
                              /\ \A t \in Tasks : Half(task[t], s) => doubt'[s]
           /\ UNCHANGED <<db, order, panel, sweep, renewals, refunds, serverVars>>
           /\ RestTyped'
<1>1. doubt' = [s \in Subs |-> doubt[s] \/ \E t \in Tasks : Half(task[t], s)]
    BY DEF BotCrash
<1>2. doubt' \in [Subs -> BOOLEAN]
    BY <1>1
<1>3. ASSUME NEW s \in Subs
      PROVE  /\ doubt[s] => doubt'[s]
             /\ \A t \in Tasks : Half(task[t], s) => doubt'[s]
    <2>1. doubt'[s] <=> (doubt[s] \/ \E t \in Tasks : Half(task[t], s))
        BY <1>1
    <2> QED BY <2>1
<1>4. crashes' \in 0..MaxCrashes
    BY SubscriptionsAssumption DEF BotCrash, TypeOK
<1>5. RestTyped'
    BY <1>4 DEF BotCrash, RestTyped, TypeOK, ServersTypeOK, serverVars
<1> QED BY <1>2, <1>3, <1>5 DEF BotCrash

LEMMA CommitForm ==
    ASSUME TypeOK, Shape, SessionsRemember, SweepCommits
    PROVE  /\ db' \in [Subs -> Row] /\ sweep' = [s \in Subs |-> Idle]
           /\ \A s \in Subs : db'[s].id = db[s].id /\ db'[s].vol = db[s].vol
           /\ UNCHANGED <<order, panel, task, lock, renewals, refunds, doubt, serverVars>>
           /\ RestTyped'
<1>1. db' = [s \in Subs |-> IF sweep[s] = Idle THEN db[s] ELSE Merge(db[s], sweep[s])]
    BY DEF SweepCommits
<1>2. ASSUME NEW s \in Subs
      PROVE  /\ Merge(db[s], sweep[s]) \in Row /\ db[s] \in Row
             /\ sweep[s] # Idle => /\ Merge(db[s], sweep[s]).id = db[s].id
                                   /\ Merge(db[s], sweep[s]).vol = db[s].vol
    <2>1. db[s] \in Row /\ sweep[s] \in Session /\ Remembers(sweep[s]) /\ SweepShape(s)
        BY DEF TypeOK, SessionsRemember, Shape
    <2>2. sweep[s] # Idle => sweep[s].op = "sweep"
        BY <2>1 DEF SweepShape
    <2> QED BY <2>1, <2>2, MergeType DEF Remembers
<1>3. db' \in [Subs -> Row]
    BY <1>1, <1>2
<1>4. \A s \in Subs : db'[s].id = db[s].id /\ db'[s].vol = db[s].vol
    BY <1>1, <1>2
<1>5. RestTyped'
    BY DEF SweepCommits, RestTyped, TypeOK, ServersTypeOK, serverVars
<1> QED BY <1>3, <1>4, <1>5 DEF SweepCommits

-----------------------------------------------------------------------------
(* The servers: what an operation makes of the server row and the inbounds *)
(* of v.                                                                   *)
HasInbound(v) == \E i \in Inbounds : inbound[v][i] # "absent"

\* The operation has set the state of v to st and its inbounds to rows.
Sets(v, st, rows) ==
    /\ server' = [server EXCEPT ![v] = st]
    /\ inbound' = [inbound EXCEPT ![v] = rows]
    /\ resynced' \subseteq Servers
    /\ \A w \in Servers : w # v /\ w \in resynced => w \in resynced'
    \* A server that has an inbound stays, with an inbound.
    /\ server[v] # "absent" /\ HasInbound(v) =>
          st # "absent" /\ \E i \in Inbounds : rows[i] # "absent"
    \* An inbound that is on at a server that is off is on since a synchronisation.
    /\ st \in {"disabled", "deleted"} /\ (\E i \in Inbounds : rows[i] = "on") =>
          \/ v \in resynced'
          \/ /\ server[v] = st /\ \E i \in Inbounds : inbound[v][i] = "on"
             /\ v \in resynced => v \in resynced'

LEMMA AllOffType ==
    ASSUME NEW rows \in [Inbounds -> InboundStates]
    PROVE  /\ AllOff(rows) \in [Inbounds -> InboundStates]
           /\ \A i \in Inbounds : AllOff(rows)[i] # "on"
           /\ \A i \in Inbounds : rows[i] # "absent" => AllOff(rows)[i] # "absent"
BY DEF AllOff, InboundStates

ServersChange ==
    \/ UNCHANGED <<server, inbound, resynced>>
    \/ \E v \in Servers, st \in ServerStates, rows \in [Inbounds -> InboundStates] : Sets(v, st, rows)

LEMMA ServersForm ==
    ASSUME ServersTypeOK, SyncShape, ServerStep
    PROVE  /\ ServersChange
           /\ serverOps' \in 0..MaxServerOps /\ SyncShape'
           /\ sync' \in [server : Servers \cup {NoServer}, loaded : [Inbounds -> InboundStates]]
<1> DEFINE Op == /\ serverOps' \in 0..MaxServerOps /\ SyncShape'
                 /\ sync' \in [server : Servers \cup {NoServer},
                               loaded : [Inbounds -> InboundStates]]
<1>0. /\ server \in [Servers -> ServerStates]
      /\ inbound \in [Servers -> [Inbounds -> InboundStates]]
      /\ sync \in [server : Servers \cup {NoServer}, loaded : [Inbounds -> InboundStates]]
      /\ resynced \subseteq Servers
      /\ serverOps \in 0..MaxServerOps /\ MaxServerOps \in Nat
      /\ \A v \in Servers : inbound[v] \in [Inbounds -> InboundStates] /\ server[v] \in ServerStates
    BY ServersAssumption DEF ServersTypeOK
<1>a. /\ ServerOp => serverOps' \in 0..MaxServerOps
      /\ sync' = sync \/ sync' = NoSync => SyncShape'
    BY <1>0 DEF ServerOp, SyncShape
<1>b. AllAbsent \in [Inbounds -> InboundStates] /\ NoSync \in
          [server : Servers \cup {NoServer}, loaded : [Inbounds -> InboundStates]]
    BY DEF AllAbsent, NoSync, InboundStates
<1>1. ASSUME NEW v \in Servers, NEW R \in SUBSET Inbounds, AddServer(v, R)
      PROVE  ServersChange /\ Op
    <2> DEFINE rows == [i \in Inbounds |-> IF i \in R THEN "on" ELSE "absent"]
    <2>1. rows \in [Inbounds -> InboundStates] /\ "healthy" \in ServerStates
        BY DEF InboundStates, ServerStates
    <2>2. /\ ServerOp /\ server[v] = "absent" /\ sync' = sync /\ resynced' = resynced
          /\ server' = [server EXCEPT ![v] = "healthy"]
          /\ inbound' = [inbound EXCEPT ![v] = rows]
        BY <1>1 DEF AddServer
    <2> HIDE DEF rows
    <2>3. Sets(v, "healthy", rows)
        BY <1>0, <2>2 DEF Sets
    <2> QED BY <1>0, <1>a, <2>1, <2>2, <2>3 DEF ServersChange
<1>2. ASSUME NEW v \in Servers, ToggleServer(v)
      PROVE  ServersChange /\ Op
    <2> DEFINE st == IF IsActive(v) THEN "disabled" ELSE "healthy"
               rows == ToggledInbounds(v)
    <2>1. /\ ServerOp /\ server[v] # "absent" /\ sync' = sync /\ resynced' = resynced \ {v}
          /\ server' = [server EXCEPT ![v] = st]
          /\ inbound' = [inbound EXCEPT ![v] = rows]
        BY <1>2 DEF ToggleServer
    <2>2. /\ rows \in [Inbounds -> InboundStates] /\ st \in ServerStates /\ st # "absent"
          /\ st = "disabled" => \A i \in Inbounds : rows[i] # "on"
          /\ st # "deleted"
          /\ \A i \in Inbounds : inbound[v][i] # "absent" => rows[i] # "absent"
        BY <1>0, AllOffType DEF ToggledInbounds, ServerStates
    <2> HIDE DEF rows, st
    <2>3. Sets(v, st, rows)
        BY <1>0, <2>1, <2>2 DEF Sets, HasInbound
    <2> QED BY <1>0, <1>a, <2>1, <2>2, <2>3 DEF ServersChange
<1>3. ASSUME NEW v \in Servers, DeleteServer(v, ActiveClients(v))
      PROVE  ServersChange /\ Op
    <2>1. ServerOp /\ sync' = sync
        BY <1>3 DEF DeleteServer
    <2>2. CASE Archive(v) /\ resynced' = resynced \ {v}
        <3> DEFINE rows == AllOff(inbound[v])
        <3>1. /\ server' = [server EXCEPT ![v] = "deleted"]
              /\ inbound' = [inbound EXCEPT ![v] = rows] /\ resynced' = resynced \ {v}
            BY <2>2 DEF Archive
        <3>2. /\ rows \in [Inbounds -> InboundStates] /\ "deleted" \in ServerStates
              /\ \A i \in Inbounds : rows[i] # "on"
              /\ \A i \in Inbounds : inbound[v][i] # "absent" => rows[i] # "absent"
            BY <1>0, AllOffType DEF ServerStates
        <3> HIDE DEF rows
        <3>3. Sets(v, "deleted", rows)
            BY <1>0, <3>1, <3>2 DEF Sets, HasInbound
        <3> QED BY <1>0, <1>a, <2>1, <3>2, <3>3 DEF ServersChange
    <2>3. CASE HardDelete(v) /\ resynced' = resynced
        <3>1. CASE inbound[v] = AllAbsent
            <4> DEFINE rows == inbound[v]
            <4>1. server' = [server EXCEPT ![v] = "absent"] /\ inbound' = inbound
                BY <2>3, <3>1 DEF HardDelete
            <4>2. /\ inbound' = [inbound EXCEPT ![v] = rows] /\ "absent" \in ServerStates
                  /\ rows \in [Inbounds -> InboundStates]
                BY <1>0, <4>1 DEF ServerStates
            <4>3. ~HasInbound(v)
                BY <3>1 DEF HasInbound, AllAbsent
            <4> HIDE DEF rows
            <4>4. Sets(v, "absent", rows)
                BY <1>0, <2>3, <4>1, <4>2, <4>3 DEF Sets
            <4> QED BY <1>0, <1>a, <2>1, <4>2, <4>4 DEF ServersChange
        <3>2. CASE inbound[v] # AllAbsent
            <4>1. UNCHANGED <<server, inbound, resynced>>
                BY <2>3, <3>2 DEF HardDelete
            <4> QED BY <1>0, <1>a, <2>1, <4>1 DEF ServersChange
        <3> QED BY <3>1, <3>2
    <2> QED BY <1>3, <2>2, <2>3 DEF DeleteServer
<1>4. ASSUME NEW v \in Servers, SyncStart(v)
      PROVE  ServersChange /\ Op
    BY <1>0, <1>4, <1>a DEF SyncStart, ServersChange, SyncShape
<1>5. ASSUME NEW R \in SUBSET Inbounds, SyncEnd(R)
      PROVE  ServersChange /\ Op
    <2> DEFINE v == sync.server
               rows == Written(inbound[v], R)
    <2>1. Op
        BY <1>0, <1>5, <1>a, <1>b DEF SyncEnd
    <2>2. v \in Servers
        BY <1>5 DEF SyncEnd, SyncShape
    <2>3. CASE server[v] = "absent"
        BY <1>5, <2>1, <2>3 DEF SyncEnd, ServersChange
    <2>4. CASE server[v] # "absent"
        <3>1. /\ server' = [server EXCEPT ![v] = server[v]]
              /\ inbound' = [inbound EXCEPT ![v] = rows]
              /\ resynced' = IF Off(v) /\ TurnsOn(R) THEN resynced \cup {v} ELSE resynced
            BY <1>0, <1>5, <2>2, <2>4 DEF SyncEnd
        <3>2. /\ rows \in [Inbounds -> InboundStates]
              /\ \A i \in Inbounds : inbound[v][i] # "absent" => rows[i] # "absent"
              /\ \A i \in Inbounds : rows[i] = "on" => TurnsOn(R) \/ inbound[v][i] = "on"
            <4> DEFINE old == sync.loaded
                       new == Listed(old, R)
            <4>1. old \in [Inbounds -> InboundStates] /\ inbound[v] \in [Inbounds -> InboundStates]
                BY <1>0, <2>2
            <4>2. /\ new \in [Inbounds -> InboundStates]
                  /\ \A i \in Inbounds : old[i] # "absent" => new[i] # "absent"
                  /\ \A i \in Inbounds : new[i] = "on" => i \in R
                BY <4>1 DEF Listed, InboundStates
            <4>3. rows = [i \in Inbounds |-> IF new[i] = old[i] THEN inbound[v][i] ELSE new[i]]
                BY DEF Written
            <4>4. \A i \in Inbounds : new[i] = "on" /\ new[i] # old[i] => TurnsOn(R)
                BY <4>2 DEF TurnsOn
            <4> HIDE DEF old, new, rows, v
            <4>5. rows \in [Inbounds -> InboundStates]
                BY <4>1, <4>2, <4>3
            <4>6. ASSUME NEW i \in Inbounds, inbound[v][i] # "absent" PROVE rows[i] # "absent"
                <5>1. rows[i] = IF new[i] = old[i] THEN inbound[v][i] ELSE new[i]
                    BY <4>3
                <5>2. old[i] # "absent" => new[i] # "absent"
                    BY <4>2
                <5> QED BY <4>6, <5>1, <5>2
            <4>7. ASSUME NEW i \in Inbounds, rows[i] = "on"
                  PROVE  TurnsOn(R) \/ inbound[v][i] = "on"
                BY <4>3, <4>4, <4>7
            <4> QED BY <4>5, <4>6, <4>7
        <3>3. server[v] \in {"disabled", "deleted"} => Off(v)
            BY DEF Off
        <3> HIDE DEF rows, v
        <3>4. Sets(v, server[v], rows)
            BY <1>0, <2>2, <3>1, <3>2, <3>3 DEF Sets, HasInbound
        <3> QED BY <1>0, <2>1, <2>2, <3>2, <3>4 DEF ServersChange
    <2> QED BY <2>3, <2>4
<1>6. ASSUME SyncFails PROVE ServersChange /\ Op
    BY <1>0, <1>6, <1>a, <1>b DEF SyncFails, ServersChange
<1> QED BY <1>1, <1>2, <1>3, <1>4, <1>5, <1>6 DEF ServerStep

LEMMA ServersNext ==
    ASSUME ServersTypeOK, SyncShape, HomeStays, OffServerHasNoInbound, ServerStep
    PROVE  ServersTypeOK' /\ SyncShape' /\ HomeStays' /\ OffServerHasNoInbound'
<1>0. /\ server \in [Servers -> ServerStates]
      /\ inbound \in [Servers -> [Inbounds -> InboundStates]] /\ resynced \subseteq Servers
    BY DEF ServersTypeOK
<1>1. /\ ServersChange /\ serverOps' \in 0..MaxServerOps
      /\ sync' \in [server : Servers \cup {NoServer}, loaded : [Inbounds -> InboundStates]]
      /\ SyncShape'
    BY ServersForm
<1>2. CASE UNCHANGED <<server, inbound, resynced>>
    BY <1>1, <1>2 DEF ServersTypeOK, HomeStays, OffServerHasNoInbound, Off
<1>3. ASSUME NEW v \in Servers, NEW st \in ServerStates, NEW rows \in [Inbounds -> InboundStates],
             Sets(v, st, rows)
      PROVE  ServersTypeOK' /\ SyncShape' /\ HomeStays' /\ OffServerHasNoInbound'
    <2>1. /\ server' \in [Servers -> ServerStates] /\ server'[v] = st
          /\ inbound' \in [Servers -> [Inbounds -> InboundStates]] /\ inbound'[v] = rows
          /\ \A w \in Servers : w # v => server'[w] = server[w] /\ inbound'[w] = inbound[w]
        BY <1>0, <1>3 DEF Sets
    <2>2. ServersTypeOK'
        BY <1>1, <1>3, <2>1 DEF ServersTypeOK, Sets
    <2>3. HomeStays'
        <3>1. CASE v = Home
            <4>1. server[v] # "absent" /\ HasInbound(v)
                BY <3>1 DEF HomeStays, HasInbound
            <4>2. st # "absent" /\ \E i \in Inbounds : rows[i] # "absent"
                BY <1>3, <4>1 DEF Sets
            <4> QED BY <2>1, <3>1, <4>2 DEF HomeStays
        <3>2. CASE v # Home
            BY <2>1, <3>2, SubscriptionsAssumption DEF HomeStays
        <3> QED BY <3>1, <3>2
    <2>4. ASSUME NEW w \in Servers, Off(w)', NEW i \in Inbounds, inbound'[w][i] = "on"
          PROVE  w \in resynced'
        <3>1. CASE w = v
            BY <1>3, <2>1, <2>4, <3>1 DEF Sets, Off, OffServerHasNoInbound
        <3>2. CASE w # v
            BY <1>3, <2>1, <2>4, <3>2 DEF Sets, Off, OffServerHasNoInbound
        <3> QED BY <3>1, <3>2
    <2>5. OffServerHasNoInbound'
        BY <2>4 DEF OffServerHasNoInbound
    <2> QED BY <1>1, <2>2, <2>3, <2>5
<1> QED BY <1>1, <1>2, <1>3 DEF ServersChange

-----------------------------------------------------------------------------
(* The steps, for the proofs that follow: those of the customers' traffic, *)
(* of the time and of the servers leave the rows and the sessions alone.   *)
Still == UNCHANGED <<db, order, panel, task, sweep, lock, renewals, refunds, doubt>>

LEMMA StillForm ==
    ASSUME TypeOK, SyncShape, (\E s \in Subs : Use(s)) \/ Tick \/ ServerStep \/ UNCHANGED vars
    PROVE  Still /\ RestTyped'
<1>1. CASE \E s \in Subs : Use(s)
    <2>1. PICK s \in Subs : Use(s)
        BY <1>1
    <2>2. traffic' \in [Subs -> Nat]
        <3>1. traffic' = [traffic EXCEPT ![s] = traffic[s] + 1] /\ traffic[s] + 1 \in Nat
            BY <2>1 DEF Use, TypeOK
        <3> QED BY <3>1 DEF TypeOK
    <2> QED BY <2>1, <2>2 DEF Use, Still, RestTyped, TypeOK, ServersTypeOK, serverVars
<1>2. CASE Tick
    <2>1. now' \in 0..MaxTime
        BY <1>2, SubscriptionsAssumption DEF Tick, TypeOK
    <2> QED BY <1>2, <2>1 DEF Tick, Still, RestTyped, TypeOK, ServersTypeOK, serverVars
<1>3. CASE ServerStep
    <2>1. ServersTypeOK'
        <3>1. /\ ServersChange /\ serverOps' \in 0..MaxServerOps
              /\ sync' \in [server : Servers \cup {NoServer}, loaded : [Inbounds -> InboundStates]]
            BY <1>3, ServersForm DEF TypeOK
        <3>2. CASE UNCHANGED <<server, inbound, resynced>>
            BY <3>1, <3>2 DEF ServersTypeOK, TypeOK
        <3>3. ASSUME NEW v \in Servers, NEW st \in ServerStates,
                     NEW rows \in [Inbounds -> InboundStates], Sets(v, st, rows)
              PROVE  ServersTypeOK'
            BY <3>1, <3>3 DEF ServersTypeOK, TypeOK, Sets
        <3> QED BY <3>1, <3>2, <3>3 DEF ServersChange
    <2>2. UNCHANGED subVars
        BY <1>3 DEF ServerStep
    <2> QED BY <2>1, <2>2 DEF subVars, Still, RestTyped, TypeOK
<1>4. CASE UNCHANGED vars
    BY <1>4 DEF vars, subVars, serverVars, Still, RestTyped, TypeOK, ServersTypeOK
<1> QED BY <1>1, <1>2, <1>3, <1>4

LEMMA Steps ==
    ASSUME [Next]_vars
    PROVE  \/ (\E s \in Subs : Use(s)) \/ Tick \/ ServerStep \/ UNCHANGED vars
           \/ \E t \in Tasks, s \in Subs : UpdateBegins(t, s)
           \/ \E t \in Tasks : Debit(t) \/ DebitRefused(t)
           \/ \E t \in Tasks : CallEnds(t)
           \/ \E t \in Tasks : Save(t)
           \/ BotCrash
           \/ SweepStart \/ WorkerCrash
              \/ \E s \in Subs : SweepCounts(s) \/ SweepEmpty(s) \/ SweepSkips(s) \/ SweepBlocks(s)
           \/ SweepCommits
BY DEF Next

LEMMA TypesNext ==
    ASSUME Types, SessionsRemember, [Next]_vars
    PROVE  Types'
<1> DEFINE Writable == /\ db \in [Subs -> Row]
                       /\ order \in [Subs -> {"provisioned", "refunded"}]
                       /\ panel \in [Subs -> Client]
                       /\ task \in [Tasks -> Session]
                       /\ sweep \in [Subs -> Session]
                       /\ lock \in Tasks \cup {NoTask}
                       /\ renewals \in [Subs -> Nat]
                       /\ refunds \in [Subs -> [asked : Nat, skipped : Nat]]
                       /\ doubt \in [Subs -> BOOLEAN]
<1>0. TypeOK /\ Shape /\ PaidHoldsLock /\ Writable /\ Idle \in Session
    BY IdleType DEF Types, TypeOK
<1>i. Idle.pc = "idle" /\ Idle.op = "none" /\ NoTask \notin Tasks
    BY IdleFields, SubscriptionsAssumption
<1>a. ASSUME RestTyped', Writable' PROVE TypeOK'
    BY <1>a DEF RestTyped, TypeOK
<1>s. ASSUME UNCHANGED serverVars PROVE SyncShape'
    BY <1>0, <1>s DEF serverVars, Shape, SyncShape
<1>1. CASE (\E s \in Subs : Use(s)) \/ Tick \/ ServerStep \/ UNCHANGED vars
    <2>1. Still /\ RestTyped'
        BY <1>0, <1>1, StillForm DEF Shape
    <2>2. TypeOK'
        BY <1>0, <1>a, <2>1 DEF Still
    <2>3. SyncShape'
        <3>1. CASE ServerStep
            BY <1>0, <3>1, ServersForm DEF Shape, TypeOK
        <3>2. CASE ~ServerStep
            <4>1. UNCHANGED serverVars
                BY <1>1, <3>2 DEF Use, Tick, vars, serverVars
            <4> QED BY <1>s, <4>1
        <3> QED BY <3>1, <3>2
    <2> QED BY <1>0, <2>1, <2>2, <2>3
            DEF Types, Still, Shape, TaskShape, SweepShape, PaidHoldsLock
<1>2. ASSUME NEW t \in Tasks, NEW s \in Subs, UpdateBegins(t, s) PROVE Types'
    <2>1. PICK q \in Session : Opens(q, s) /\ task' = [task EXCEPT ![t] = q]
        BY <1>0, <1>2, UpdateForm
    <2>2. /\ UNCHANGED <<db, order, panel, sweep, lock, renewals, refunds, doubt, serverVars>>
          /\ RestTyped'
        BY <1>0, <1>2, UpdateForm
    <2>3. TypeOK'
        BY <1>0, <1>a, <2>1, <2>2
    <2>4. Shape'
        BY <1>0, <1>s, <2>1, <2>2 DEF Shape, TaskShape, SweepShape, Opens
    <2>5. PaidHoldsLock'
        BY <1>0, <2>1, <2>2 DEF PaidHoldsLock, Opens
    <2> QED BY <2>3, <2>4, <2>5 DEF Types
<1>3. ASSUME NEW t \in Tasks, Debit(t) \/ DebitRefused(t) PROVE Types'
    <2>1. PICK q \in Session : Debits(t, q)
        BY <1>0, <1>3, DebitForm
    <2>2. /\ UNCHANGED <<db, order, panel, sweep, renewals, refunds, doubt, serverVars>>
          /\ RestTyped'
        BY <1>0, <1>3, DebitForm
    <2>3. TypeOK'
        BY <1>0, <1>a, <2>1, <2>2 DEF Debits
    <2>4. Shape'
        BY <1>0, <1>i, <1>s, <2>1, <2>2 DEF Shape, TaskShape, SweepShape, Debits
    <2>5. PaidHoldsLock'
        BY <1>0, <1>i, <2>1 DEF PaidHoldsLock, Debits
    <2> QED BY <2>3, <2>4, <2>5 DEF Types
<1>4. ASSUME NEW t \in Tasks, CallEnds(t) PROVE Types'
    <2>1. PICK q \in Session : Settles(t, q)
        BY <1>0, <1>4, CallEndForm
    <2>2. /\ UNCHANGED <<db, order, sweep, lock, renewals, refunds, serverVars>> /\ RestTyped'
        BY <1>0, <1>4, CallEndForm
    <2>3. /\ task[t] \in Session /\ task[t].sub \in Subs /\ task[t].op \in Ops
          /\ task[t].pc = "panel"
        BY <1>0, <2>1 DEF Settles, Shape, TaskShape
    <2>4. panel' \in [Subs -> Client] /\ doubt' \in [Subs -> BOOLEAN]
        BY <1>0, <2>1, <2>3, CallForm DEF Settles
    <2>5. TypeOK'
        BY <1>0, <1>a, <2>1, <2>2, <2>4 DEF Settles
    <2>6. Shape'
        BY <1>0, <1>i, <1>s, <2>1, <2>2, <2>3 DEF Shape, TaskShape, SweepShape, Settles, Done
    <2>7. PaidHoldsLock'
        BY <1>0, <1>i, <2>1, <2>2 DEF PaidHoldsLock, Settles, Done
    <2> QED BY <2>5, <2>6, <2>7 DEF Types
<1>5. ASSUME NEW t \in Tasks, Save(t) PROVE Types'
    <2>1. /\ Writes(t)
          /\ db' \in [Subs -> Row] /\ order' \in [Subs -> {"provisioned", "refunded"}]
          /\ refunds' \in [Subs -> [asked : Nat, skipped : Nat]]
          /\ renewals' \in [Subs -> Nat]
          /\ UNCHANGED <<panel, sweep, doubt, serverVars>> /\ RestTyped'
        BY <1>0, <1>5, SaveForm
    <2>2. /\ lock' = IF lock = t THEN NoTask ELSE lock
          /\ task' = [task EXCEPT ![t] = Idle]
        BY <2>1 DEF Writes
    <2>3. TypeOK'
        BY <1>0, <1>a, <2>1, <2>2
    <2>4. Shape'
        BY <1>0, <1>i, <1>s, <2>1, <2>2 DEF Shape, TaskShape, SweepShape
    <2>5. PaidHoldsLock'
        BY <1>0, <1>i, <2>2 DEF PaidHoldsLock, Renewals
    <2> QED BY <2>3, <2>4, <2>5 DEF Types
<1>6. CASE BotCrash
    <2>1. /\ task' = [t \in Tasks |-> Idle] /\ lock' = NoTask
          /\ doubt' \in [Subs -> BOOLEAN]
          /\ UNCHANGED <<db, order, panel, sweep, renewals, refunds, serverVars>>
          /\ RestTyped'
        BY <1>0, <1>6, CrashForm
    <2>2. TypeOK'
        BY <1>0, <1>a, <2>1
    <2>3. Shape' /\ PaidHoldsLock'
        BY <1>0, <1>i, <1>s, <2>1 DEF Shape, TaskShape, SweepShape, PaidHoldsLock
    <2> QED BY <2>2, <2>3 DEF Types
<1>7. CASE SweepStart \/ WorkerCrash
           \/ \E s \in Subs : SweepCounts(s) \/ SweepEmpty(s) \/ SweepSkips(s) \/ SweepBlocks(s)
    <2>1. Sweeps
        BY <1>0, <1>7, SweepForm
    <2>2. panel' \in [Subs -> Client]
        <3>1. CASE panel' = panel
            BY <1>0, <3>1
        <3>2. ASSUME NEW s \in Subs, sweep[s].sub = s, sweep[s].op = "sweep", Call(sweep[s])
              PROVE  panel' \in [Subs -> Client]
            <4>1. sweep[s] \in Session /\ sweep[s].op \in Calls /\ sweep[s].sub \in Subs
                BY <1>0, <3>2 DEF Calls
            <4> QED BY <1>0, <3>2, <4>1, CallForm
        <3> QED BY <2>1, <3>1, <3>2 DEF Sweeps
    <2>3. TypeOK'
        BY <1>0, <1>a, <2>1, <2>2 DEF Sweeps
    <2>4. Shape' /\ PaidHoldsLock'
        BY <1>0, <1>s, <2>1 DEF Sweeps, Shape, TaskShape, SweepShape, PaidHoldsLock
    <2> QED BY <2>3, <2>4 DEF Types
<1>8. CASE SweepCommits
    <2>1. /\ db' \in [Subs -> Row] /\ sweep' = [s \in Subs |-> Idle]
          /\ UNCHANGED <<order, panel, task, lock, renewals, refunds, doubt, serverVars>>
          /\ RestTyped'
        BY <1>0, <1>8, CommitForm
    <2>2. TypeOK'
        BY <1>0, <1>a, <2>1
    <2>3. Shape' /\ PaidHoldsLock'
        BY <1>0, <1>s, <2>1 DEF Shape, TaskShape, SweepShape, PaidHoldsLock
    <2> QED BY <2>2, <2>3 DEF Types
<1> HIDE DEF Writable
<1> QED BY Steps, <1>1, <1>2, <1>3, <1>4, <1>5, <1>6, <1>7, <1>8

-----------------------------------------------------------------------------
(* Refunds.                                                                *)

\* A step that leaves the counts of the refunds and brings no client back
\* keeps the invariant if no update has become one that deleted a client.
LEMMA RefundsKept ==
    ASSUME RefundsInv, refunds' = refunds,
           \A s \in Subs : panel'[s].here => panel[s].here,
           \A s \in Subs, t \in Tasks : Deleted(t, s)' => Deleted(t, s)
    PROVE  RefundsInv'
BY DEF RefundsInv, RefundsApart, OneRefundPerDeletion, RefundedHasNoClient

LEMMA RefundsNext ==
    ASSUME Types, SessionsRemember, RefundsInv, [Next]_vars
    PROVE  RefundsInv'
<1>0. /\ TypeOK /\ Shape /\ task \in [Tasks -> Session] /\ sweep \in [Subs -> Session]
      /\ refunds \in [Subs -> [asked : Nat, skipped : Nat]]
      /\ \A s \in Subs : refunds[s].asked \in Nat
      /\ Idle.pc = "idle"
    BY IdleFields DEF Types, TypeOK
<1>1. CASE (\E s \in Subs : Use(s)) \/ Tick \/ ServerStep \/ UNCHANGED vars
    <2>1. Still
        BY <1>0, <1>1, StillForm DEF Shape
    <2> QED BY <2>1, RefundsKept DEF Still, Deleted
<1>2. ASSUME NEW t \in Tasks, NEW s \in Subs, UpdateBegins(t, s) PROVE RefundsInv'
    <2>1. PICK q \in Session : Opens(q, s) /\ task' = [task EXCEPT ![t] = q]
        BY <1>0, <1>2, UpdateForm
    <2>2. UNCHANGED <<panel, refunds>>
        BY <1>0, <1>2, UpdateForm
    <2>3. ASSUME NEW r \in Subs, NEW u \in Tasks, Deleted(u, r)' PROVE Deleted(u, r)
        BY <1>0, <2>1, <2>3 DEF Deleted, Opens
    <2> QED BY <2>2, <2>3, RefundsKept
<1>3. ASSUME NEW t \in Tasks, Debit(t) \/ DebitRefused(t) PROVE RefundsInv'
    <2>1. PICK q \in Session : Debits(t, q)
        BY <1>0, <1>3, DebitForm
    <2>2. UNCHANGED <<panel, refunds>>
        BY <1>0, <1>3, DebitForm
    <2>3. ASSUME NEW r \in Subs, NEW u \in Tasks, Deleted(u, r)' PROVE Deleted(u, r)
        BY <1>0, <2>1, <2>3 DEF Deleted, Debits
    <2> QED BY <2>2, <2>3, RefundsKept
<1>4. ASSUME NEW t \in Tasks, CallEnds(t) PROVE RefundsInv'
    <2>1. PICK q \in Session : Settles(t, q)
        BY <1>0, <1>4, CallEndForm
    <2>2. UNCHANGED refunds
        BY <1>0, <1>4, CallEndForm
    <2>3. /\ task[t] \in Session /\ task[t].sub \in Subs /\ task[t].pc = "panel"
          /\ task' = [task EXCEPT ![t] = q]
        BY <1>0, <2>1 DEF Settles, Shape, TaskShape
    <2>4. \A s \in Subs : panel'[s].here => panel[s].here
        BY <1>0, <2>1, <2>3, CallForm DEF Settles
    <2>5. CASE ~(task[t].op = "refund" /\ q.pc = "save")
        <3>1. ASSUME NEW r \in Subs, NEW u \in Tasks, Deleted(u, r)' PROVE Deleted(u, r)
            BY <1>0, <2>1, <2>3, <2>5, <3>1 DEF Deleted, Settles, Done
        <3> QED BY <2>2, <2>4, <3>1, RefundsKept
    <2>6. CASE task[t].op = "refund" /\ q.pc = "save"
        <3>0. PICK r \in Subs : r = task[t].sub
            BY <2>3
        <3>1. Call(task[t]) /\ task[t].op \in Calls /\ q.sub = r
            BY <1>0, <2>1, <2>6, <3>0 DEF Settles, Renewals, Done
        <3>2. /\ panel[r].here /\ panel'[r] = Effect(task[t], panel[r])
              /\ \A s \in Subs : s # r => panel'[s] = panel[s]
            BY <1>0, <2>3, <3>0, <3>1, CallForm
        <3>3. ~panel'[r].here
            BY <1>0, <2>3, <2>6, <3>0, <3>1, <3>2, EffectType DEF Deletions, TypeOK
        \* The client was there: no refund of r had deleted it.
        <3>4. refunds[r].asked = 0 /\ \A u \in Tasks : ~Deleted(u, r)
            BY <1>0, <3>2 DEF RefundsInv, RefundsApart, RefundedHasNoClient
        <3>5. \A s \in Subs, u \in Tasks : u # t \/ s # r => (Deleted(u, s)' => Deleted(u, s))
            BY <1>0, <2>3, <3>0, <3>1 DEF Deleted
        <3>6. \A u \in Tasks : Deleted(u, r)' => u = t
            BY <3>4, <3>5
        <3>7. \A s \in Subs : s # r => ~Deleted(t, s)'
            BY <1>0, <2>3, <3>0, <3>1 DEF Deleted
        <3>8. RefundsApart'
            <4>1. ASSUME NEW s \in Subs, NEW u \in Tasks, Deleted(u, s)'
                  PROVE  /\ ~panel'[s].here /\ refunds'[s].asked = 0
                         /\ \A w \in Tasks : Deleted(w, s)' => w = u
                <5>1. CASE s = r
                    BY <2>2, <3>3, <3>4, <3>6, <4>1, <5>1
                <5>2. CASE s # r
                    BY <2>2, <2>4, <3>5, <4>1, <5>2 DEF RefundsInv, RefundsApart
                <5> QED BY <5>1, <5>2
            <4> QED BY <4>1 DEF RefundsApart
        <3> QED BY <2>2, <2>4, <3>8 DEF RefundsInv, OneRefundPerDeletion, RefundedHasNoClient
    <2> QED BY <2>5, <2>6
<1>5. ASSUME NEW t \in Tasks, Save(t) PROVE RefundsInv'
    <2>1. Writes(t) /\ panel' = panel
        BY <1>0, <1>5, SaveForm
    <2>2. /\ task' = [task EXCEPT ![t] = Idle]
          /\ \A s \in Subs :
                refunds'[s].asked = refunds[s].asked + (IF Deleted(t, s) THEN 1 ELSE 0)
        BY <2>1 DEF Writes
    <2>3. \A s \in Subs, u \in Tasks : Deleted(u, s)' => Deleted(u, s) /\ u # t
        BY <1>0, <2>2 DEF Deleted
    <2>4. RefundsApart'
        <3>1. ASSUME NEW s \in Subs, NEW u \in Tasks, Deleted(u, s)'
              PROVE  /\ ~panel'[s].here /\ refunds'[s].asked = 0
                     /\ \A w \in Tasks : Deleted(w, s)' => w = u
            <4>1. ~Deleted(t, s) /\ Deleted(u, s)
                BY <2>3, <3>1 DEF RefundsInv, RefundsApart
            <4>2. ~panel[s].here /\ refunds[s].asked = 0 /\ \A w \in Tasks : Deleted(w, s) => w = u
                BY <4>1 DEF RefundsInv, RefundsApart
            <4> QED BY <2>1, <2>2, <2>3, <4>1, <4>2
        <3> QED BY <3>1 DEF RefundsApart
    <2>5. ASSUME NEW s \in Subs
          PROVE  refunds'[s].asked <= 1 /\ (refunds'[s].asked > 0 => ~panel'[s].here)
        <3>1. CASE Deleted(t, s)
            <4>1. ~panel[s].here /\ refunds[s].asked = 0
                BY <3>1 DEF RefundsInv, RefundsApart
            <4> QED BY <2>1, <2>2, <3>1, <4>1
        <3>2. CASE ~Deleted(t, s)
            <4>1. refunds'[s].asked = refunds[s].asked
                BY <1>0, <2>2, <3>2
            <4> QED BY <2>1, <4>1 DEF RefundsInv, OneRefundPerDeletion, RefundedHasNoClient
        <3> QED BY <3>1, <3>2
    <2> QED BY <2>4, <2>5 DEF RefundsInv, OneRefundPerDeletion, RefundedHasNoClient
<1>6. CASE BotCrash
    <2>1. task' = [t \in Tasks |-> Idle] /\ UNCHANGED <<panel, refunds>>
        BY <1>0, <1>6, CrashForm
    <2>2. \A s \in Subs, t \in Tasks : ~Deleted(t, s)'
        BY <1>0, <2>1 DEF Deleted
    <2> QED BY <2>1, <2>2, RefundsKept
<1>7. CASE SweepStart \/ WorkerCrash
           \/ \E s \in Subs : SweepCounts(s) \/ SweepEmpty(s) \/ SweepSkips(s) \/ SweepBlocks(s)
    <2>1. Sweeps
        BY <1>0, <1>7, SweepForm
    <2>2. \A s \in Subs : panel'[s].here => panel[s].here
        <3>1. ASSUME NEW r \in Subs, sweep[r].sub = r, sweep[r].op = "sweep", Call(sweep[r])
              PROVE  \A s \in Subs : panel'[s].here => panel[s].here
            <4>1. sweep[r] \in Session /\ sweep[r].op \in Calls /\ sweep[r].sub \in Subs
                BY <1>0, <3>1 DEF Calls
            <4> QED BY <1>0, <3>1, <4>1, CallForm
        <3> QED BY <2>1, <3>1 DEF Sweeps
    <2> QED BY <2>1, <2>2, RefundsKept DEF Sweeps, Deleted
<1>8. CASE SweepCommits
    <2>1. UNCHANGED <<panel, task, refunds>>
        BY <1>0, <1>8, CommitForm
    <2> QED BY <2>1, RefundsKept DEF Deleted
<1> QED BY Steps, <1>1, <1>2, <1>3, <1>4, <1>5, <1>6, <1>7, <1>8

-----------------------------------------------------------------------------
(* What a session remembers of the row it loaded.                          *)

\* A step goes on if no client comes back, no doubt is lifted, and the uuid
\* of a clean row and the paid renewals only grow.
Onward ==
    \A s \in Subs : /\ panel'[s].here => panel[s].here
                    /\ doubt[s] => doubt'[s]
                    /\ Clean(s)' => db[s].id <= db'[s].id
                    /\ renewals[s] <= renewals'[s]

LEMMA RemembersKept ==
    ASSUME TypeOK, TypeOK', Onward, NEW q \in Session, NEW p \in Session,
           Remembers(p), p.pc # "idle" /\ p.sub \in Subs,
           q.sub = p.sub, q.old = p.old,
           q.new.id = IF q.op = "reset" THEN q.old.id + 1 ELSE q.old.id,
           q.new.vol = IF q.op = "volume" THEN q.old.vol + 1 ELSE q.old.vol
    PROVE  Remembers(q)'
<1>1. PICK n \in Nat, v \in Nat, r \in Subs : n = p.old.id /\ v = p.old.vol /\ r = p.sub
    BY DEF Session, Row
<1>2. /\ db[r].id \in Nat /\ db'[r].id \in Nat /\ renewals[r] \in Nat /\ renewals'[r] \in Nat
      /\ Base \in Nat
    BY SubscriptionsAssumption DEF TypeOK, Row
<1>3. (Clean(r) => n <= db[r].id) /\ v <= Base + renewals[r]
    BY <1>1 DEF Remembers
<1>4. Clean(r)' => n <= db'[r].id
    BY <1>2, <1>3 DEF Onward, Clean
<1>5. v <= Base + renewals'[r]
    BY <1>2, <1>3 DEF Onward
<1> QED BY <1>1, <1>4, <1>5 DEF Remembers, Clean

LEMMA RemembersIdle == Remembers(Idle)'
BY DEF Remembers, Idle

LEMMA OpensRemembers ==
    ASSUME TypeOK, SessionsRemember, VolumeCovered, NEW s \in Subs, NEW q \in Session,
           Opens(q, s), db' = db, renewals' = renewals, doubt' = doubt, panel' = panel
    PROVE  Remembers(q)'
<1>1. q.old = db[s] /\ q.sub = s /\ db[s].id \in Nat /\ db[s].vol <= Base + renewals[s]
    BY DEF Opens, TypeOK, Row, VolumeCovered
<1> QED BY <1>1 DEF Opens, Remembers, Clean

LEMMA OnwardNext ==
    ASSUME Types, Types', Memory, [Next]_vars
    PROVE  Onward
<1>0. /\ TypeOK /\ Shape /\ SessionsRemember
      /\ task \in [Tasks -> Session] /\ sweep \in [Subs -> Session]
      /\ \A s \in Subs : db[s].id \in Nat /\ db'[s].id \in Nat /\ renewals[s] \in Nat
    BY DEF Types, TypeOK, Memory, Row
<1>1. CASE (\E s \in Subs : Use(s)) \/ Tick \/ ServerStep \/ UNCHANGED vars
    <2>1. Still
        BY <1>0, <1>1, StillForm DEF Shape
    <2> QED BY <1>0, <2>1 DEF Onward, Still
<1>2. ASSUME NEW t \in Tasks, NEW s \in Subs, UpdateBegins(t, s) PROVE Onward
    <2>1. UNCHANGED <<db, panel, renewals, doubt>>
        BY <1>0, <1>2, UpdateForm
    <2> QED BY <1>0, <2>1 DEF Onward
<1>3. ASSUME NEW t \in Tasks, Debit(t) \/ DebitRefused(t) PROVE Onward
    <2>1. UNCHANGED <<db, panel, renewals, doubt>>
        BY <1>0, <1>3, DebitForm
    <2> QED BY <1>0, <2>1 DEF Onward
<1>4. ASSUME NEW t \in Tasks, CallEnds(t) PROVE Onward
    <2>1. PICK q \in Session : Settles(t, q)
        BY <1>0, <1>4, CallEndForm
    <2>2. UNCHANGED <<db, renewals>>
        BY <1>0, <1>4, CallEndForm
    <2>3. task[t] \in Session /\ task[t].sub \in Subs
        BY <1>0, <2>1 DEF Settles, Shape, TaskShape
    <2>4. \A s \in Subs : (panel'[s].here => panel[s].here) /\ (doubt[s] => doubt'[s])
        BY <1>0, <2>1, <2>3, CallForm DEF Settles
    <2> QED BY <1>0, <2>2, <2>4 DEF Onward
<1>5. ASSUME NEW t \in Tasks, Save(t) PROVE Onward
    <2>1. Writes(t) /\ UNCHANGED <<panel, doubt>>
        BY <1>0, <1>5, SaveForm
    <2>2. \A s \in Subs : renewals[s] <= renewals'[s]
        BY <1>0, <2>1 DEF Writes
    <2>3. ASSUME NEW s \in Subs, Clean(s)' PROVE db[s].id <= db'[s].id
        <3>1. CASE task[t].sub # s
            <4>1. db'[s] = db[s]
                BY <1>0, <2>1, <3>1 DEF Writes, TypeOK
            <4> QED BY <1>0, <4>1
        <3>2. CASE task[t].sub = s
            <4>1. /\ task[t] \in Session /\ db[s] \in Row /\ task[t].pc = "save"
                  /\ db'[s] = Merge(db[s], task[t])
                BY <1>0, <2>1, <3>2 DEF Writes, TypeOK
            <4>2. db'[s].id = IF task[t].new.id # task[t].old.id THEN task[t].new.id ELSE db[s].id
                BY <4>1, MergeType
            <4>3. CASE task[t].op # "reset"
                BY <1>0, <4>2, <4>3 DEF SessionsRemember, Remembers
            <4>4. CASE task[t].op = "reset"
                <5>1. Clean(s) /\ ResetOf(t, s)
                    BY <2>1, <2>3, <3>2, <4>1, <4>4 DEF Clean, ResetOf
                <5>2. db[s].id = task[t].old.id /\ task[t].new.id = task[t].old.id + 1
                    BY <1>0, <4>4, <5>1 DEF Memory, ResetsApart, SessionsRemember, Remembers
                <5> QED BY <1>0, <4>2, <5>2
            <4> QED BY <4>3, <4>4
        <3> QED BY <3>1, <3>2
    <2> QED BY <2>1, <2>2, <2>3 DEF Onward
<1>6. CASE BotCrash
    <2>1. UNCHANGED <<db, panel, renewals>> /\ \A s \in Subs : doubt[s] => doubt'[s]
        BY <1>0, <1>6, CrashForm
    <2> QED BY <1>0, <2>1 DEF Onward
<1>7. CASE SweepStart \/ WorkerCrash
           \/ \E s \in Subs : SweepCounts(s) \/ SweepEmpty(s) \/ SweepSkips(s) \/ SweepBlocks(s)
    <2>1. Sweeps
        BY <1>0, <1>7, SweepForm
    <2>2. \A s \in Subs : panel'[s].here => panel[s].here
        <3>1. ASSUME NEW r \in Subs, sweep[r].sub = r, sweep[r].op = "sweep", Call(sweep[r])
              PROVE  \A s \in Subs : panel'[s].here => panel[s].here
            <4>1. sweep[r] \in Session /\ sweep[r].op \in Calls /\ sweep[r].sub \in Subs
                BY <1>0, <3>1 DEF Calls
            <4> QED BY <1>0, <3>1, <4>1, CallForm
        <3> QED BY <2>1, <3>1 DEF Sweeps
    <2> QED BY <1>0, <2>1, <2>2 DEF Onward, Sweeps
<1>8. CASE SweepCommits
    <2>1. /\ UNCHANGED <<panel, renewals, doubt>> /\ \A s \in Subs : db'[s].id = db[s].id
        BY <1>0, <1>8, CommitForm
    <2> QED BY <1>0, <2>1 DEF Onward
<1> QED BY Steps, <1>1, <1>2, <1>3, <1>4, <1>5, <1>6, <1>7, <1>8

LEMMA SessionsNext ==
    ASSUME Types, Types', Memory, [Next]_vars
    PROVE  SessionsRemember'
<1>0. /\ TypeOK /\ TypeOK' /\ Shape /\ Shape' /\ SessionsRemember /\ VolumeCovered
      /\ task \in [Tasks -> Session] /\ sweep \in [Subs -> Session]
      /\ task' \in [Tasks -> Session] /\ sweep' \in [Subs -> Session]
      /\ Onward /\ Idle.pc = "idle"
    BY OnwardNext, IdleFields DEF Types, TypeOK, Memory
<1>a. ASSUME NEW q \in Session, q.pc # "idle" => q.sub \in Subs, Remembers(q) PROVE Remembers(q)'
    <2>1. CASE q.pc = "idle"
        BY <1>a, <2>1 DEF Remembers
    <2>2. CASE q.pc # "idle"
        BY <1>0, <1>a, <2>2, RemembersKept DEF Remembers
    <2> QED BY <2>1, <2>2
\* Sessions of which the step makes nothing new.
<1>t. ASSUME NEW t \in Tasks, task'[t] = task[t] PROVE Remembers(task[t])'
    <2>1. PICK q \in Session : q = task[t]
        BY <1>0
    <2>2. (q.pc # "idle" => q.sub \in Subs) /\ Remembers(q)
        BY <1>0, <2>1 DEF Shape, TaskShape, SessionsRemember
    <2>3. Remembers(q)' /\ q = task'[t]
        BY <1>a, <1>t, <2>1, <2>2
    <2> QED BY <2>3 DEF Remembers
<1>s. ASSUME NEW s \in Subs, sweep'[s] = sweep[s] PROVE Remembers(sweep[s])'
    <2>1. PICK q \in Session : q = sweep[s]
        BY <1>0
    <2>2. (q.pc # "idle" => q.sub \in Subs) /\ Remembers(q)
        BY <1>0, <2>1 DEF Shape, SweepShape, SessionsRemember
    <2>3. Remembers(q)' /\ q = sweep'[s]
        BY <1>a, <1>s, <2>1, <2>2
    <2> QED BY <2>3 DEF Remembers
<1>i. ASSUME NEW t \in Tasks, task'[t] = Idle PROVE Remembers(task[t])'
    BY <1>i, RemembersIdle DEF Remembers
<1>j. ASSUME NEW s \in Subs, sweep'[s] = Idle PROVE Remembers(sweep[s])'
    BY <1>j, RemembersIdle DEF Remembers
<1>1. ASSUME UNCHANGED sweep,
             NEW t \in Tasks, NEW q \in Session, task' = [task EXCEPT ![t] = q], Remembers(q)'
      PROVE  SessionsRemember'
    <2>1. ASSUME NEW u \in Tasks PROVE Remembers(task[u])'
        <3>1. CASE u = t
            <4>1. task'[u] = q
                BY <1>0, <1>1, <3>1
            <4> QED BY <1>1, <4>1 DEF Remembers
        <3>2. CASE u # t
            BY <1>0, <1>1, <1>t, <3>2
        <3> QED BY <3>1, <3>2
    <2> QED BY <1>1, <1>s, <2>1 DEF SessionsRemember
<1>2. CASE (\E s \in Subs : Use(s)) \/ Tick \/ ServerStep \/ UNCHANGED vars
    <2>1. Still
        BY <1>0, <1>2, StillForm DEF Shape
    <2> QED BY <1>s, <1>t, <2>1 DEF Still, SessionsRemember
<1>3. ASSUME NEW t \in Tasks, NEW s \in Subs, UpdateBegins(t, s) PROVE SessionsRemember'
    <2>1. PICK q \in Session : Opens(q, s) /\ task' = [task EXCEPT ![t] = q]
        BY <1>0, <1>3, UpdateForm
    <2>2. UNCHANGED <<db, panel, sweep, renewals, doubt>>
        BY <1>0, <1>3, UpdateForm
    <2> QED BY <1>0, <1>1, <2>1, <2>2, OpensRemembers
<1>4. ASSUME NEW t \in Tasks, Debit(t) \/ DebitRefused(t) PROVE SessionsRemember'
    <2>1. PICK q \in Session : Debits(t, q)
        BY <1>0, <1>4, DebitForm
    <2>2. UNCHANGED sweep /\ task' = [task EXCEPT ![t] = q]
        BY <1>0, <1>4, <2>1, DebitForm DEF Debits
    <2>3. CASE q = Idle
        BY <1>1, <2>2, <2>3, RemembersIdle
    <2>4. CASE q # Idle
        <3>1. PICK p \in Session : p = task[t]
            BY <1>0
        <3>2. /\ p.pc # "idle" /\ p.sub \in Subs /\ Remembers(p)
              /\ q.sub = p.sub /\ q.old = p.old /\ q.op = p.op /\ q.new = p.new
            BY <1>0, <2>1, <2>4, <3>1 DEF Debits, Shape, TaskShape, SessionsRemember
        <3>3. Remembers(q)'
            BY <1>0, <3>2, RemembersKept DEF Remembers
        <3> QED BY <1>1, <2>2, <3>3
    <2> QED BY <2>3, <2>4
<1>5. ASSUME NEW t \in Tasks, CallEnds(t) PROVE SessionsRemember'
    <2>1. PICK q \in Session : Settles(t, q)
        BY <1>0, <1>5, CallEndForm
    <2>2. UNCHANGED sweep /\ task' = [task EXCEPT ![t] = q]
        BY <1>0, <1>5, <2>1, CallEndForm DEF Settles
    <2>3. CASE q = Idle
        BY <1>1, <2>2, <2>3, RemembersIdle
    <2>4. CASE q # Idle
        <3>1. PICK p \in Session : p = task[t]
            BY <1>0
        <3>2. p.pc # "idle" /\ p.sub \in Subs /\ Remembers(p) /\ Done(p, q)
            BY <1>0, <2>1, <2>4, <3>1 DEF Settles, Shape, TaskShape, SessionsRemember
        <3>3. /\ q.new.id = IF q.op = "reset" THEN q.old.id + 1 ELSE q.old.id
              /\ q.new.vol = IF q.op = "volume" THEN q.old.vol + 1 ELSE q.old.vol
              /\ q.sub = p.sub /\ q.old = p.old
            BY <3>2 DEF Done, Remembers
        <3>4. Remembers(q)'
            BY <1>0, <3>2, <3>3, RemembersKept
        <3> QED BY <1>1, <2>2, <3>4
    <2> QED BY <2>3, <2>4
<1>6. ASSUME NEW t \in Tasks, Save(t) PROVE SessionsRemember'
    <2>1. task' = [task EXCEPT ![t] = Idle] /\ UNCHANGED sweep
        BY <1>0, <1>6, SaveForm DEF Writes
    <2> QED BY <1>1, <2>1, RemembersIdle, IdleType
<1>7. CASE BotCrash
    <2>1. task' = [t \in Tasks |-> Idle] /\ UNCHANGED sweep
        BY <1>0, <1>7, CrashForm
    <2> QED BY <1>s, <1>i, <2>1 DEF SessionsRemember
<1>8. CASE SweepStart \/ WorkerCrash
           \/ \E s \in Subs : SweepCounts(s) \/ SweepEmpty(s) \/ SweepSkips(s) \/ SweepBlocks(s)
    <2>1. Sweeps
        BY <1>0, <1>8, SweepForm
    <2>2. ASSUME NEW s \in Subs PROVE Remembers(sweep[s])'
        <3> PICK q \in Session : q = sweep'[s]
            BY <1>0
        <3> SUFFICES Remembers(q)'
            BY DEF Remembers
        <3>1. CASE q = sweep[s]
            BY <1>s, <3>1 DEF Remembers
        <3>2. CASE q = Idle
            BY <3>2, RemembersIdle
        <3>3. ASSUME q.sub = s, q.op = "sweep", q.new.id = q.old.id, q.new.vol = q.old.vol,
                     q.old = db[s]
              PROVE  Remembers(q)'
            <4>1. /\ db[s].id \in Nat /\ db'[s].id = db[s].id
                  /\ db[s].vol <= Base + renewals[s] /\ renewals'[s] = renewals[s]
                BY <1>0, <2>1 DEF TypeOK, Row, VolumeCovered, Sweeps
            <4> QED BY <3>3, <4>1 DEF Remembers
        <3>4. ASSUME q.sub = s, q.op = "sweep", q.new.id = q.old.id, q.new.vol = q.old.vol,
                     q.old = sweep[s].old, sweep[s].pc # "idle", sweep[s].sub = s
              PROVE  Remembers(q)'
            <4>1. PICK p \in Session : p = sweep[s]
                BY <1>0
            <4>2. Remembers(p) /\ p.pc # "idle" /\ p.sub \in Subs /\ q.sub = p.sub /\ q.old = p.old
                BY <1>0, <3>4, <4>1 DEF SessionsRemember
            <4> QED BY <1>0, <3>4, <4>2, RemembersKept
        <3> QED BY <2>1, <3>1, <3>2, <3>3, <3>4 DEF Sweeps
    <2>3. UNCHANGED task
        BY <2>1 DEF Sweeps
    <2> QED BY <1>t, <2>2, <2>3 DEF SessionsRemember
<1>9. CASE SweepCommits
    <2>1. UNCHANGED task /\ sweep' = [s \in Subs |-> Idle]
        BY <1>0, <1>9, CommitForm
    <2> QED BY <1>t, <1>j, <2>1 DEF SessionsRemember
<1> QED BY Steps, <1>2, <1>3, <1>4, <1>5, <1>6, <1>7, <1>8, <1>9

-----------------------------------------------------------------------------
(* The uuid.                                                               *)

\* A call changes the uuid only of a client whose link is being reset.
LEMMA CallIds ==
    ASSUME TypeOK, NEW q \in Session, q.op \in Calls, q.sub \in Subs, Call(q)
    PROVE  \A s \in Subs : panel'[s].here =>
              panel'[s].id = IF q.op = "reset" /\ q.sub = s THEN q.new.id ELSE panel[s].id
<1>1. /\ panel'[q.sub] = Effect(q, panel[q.sub]) /\ panel[q.sub] \in Client
      /\ \A s \in Subs : s # q.sub => panel'[s] = panel[s]
    BY CallForm DEF TypeOK
<1>2. panel'[q.sub].here =>
          panel'[q.sub].id = IF q.op = "reset" THEN q.new.id ELSE panel[q.sub].id
    BY <1>1, EffectType
<1> QED BY <1>1, <1>2

\* What a step that resets no link has to keep.
IdsStay ==
    /\ \A s \in Subs : Clean(s)' => panel'[s].id = panel[s].id /\ db'[s].id = db[s].id
    /\ \A s \in Subs, t \in Tasks :
          /\ ResetOf(t, s)' => ResetOf(t, s) /\ task'[t] = task[t]
          /\ ResetOf(t, s) => ResetOf(t, s)' \/ ~Clean(s)'

LEMMA IdsKept ==
    ASSUME ResetsApart, IdAgrees, Onward, IdsStay
    PROVE  ResetsApart' /\ IdAgrees'
<1>1. \A s \in Subs : Clean(s)' => Clean(s)
    BY DEF Clean, Onward
<1>2. ResetsApart'
    BY <1>1 DEF ResetsApart, IdsStay
<1>3. ASSUME NEW s \in Subs, Clean(s)', ~Resetting(s)' PROVE panel'[s].id = db'[s].id
    <2>1. ~Resetting(s)
        <3>1. \A t \in Tasks : ~ResetOf(t, s)'
            BY <1>3 DEF Resetting, ResetOf
        <3>2. \A t \in Tasks : ~ResetOf(t, s)
            BY <1>3, <3>1 DEF IdsStay
        <3> QED BY <3>2 DEF Resetting, ResetOf
    <2>2. panel[s].id = db[s].id
        BY <1>1, <1>3, <2>1 DEF IdAgrees, Clean
    <2> QED BY <1>3, <2>2 DEF IdsStay
<1> QED BY <1>2, <1>3 DEF IdAgrees, Clean

LEMMA IdsNext ==
    ASSUME Types, Types', Memory, [Next]_vars
    PROVE  ResetsApart' /\ IdAgrees'
<1>0. /\ TypeOK /\ TypeOK' /\ Shape /\ SessionsRemember /\ ResetsApart /\ IdAgrees
      /\ task \in [Tasks -> Session] /\ sweep \in [Subs -> Session]
      /\ Onward /\ Idle.pc = "idle"
    BY OnwardNext, IdleFields DEF Types, TypeOK, Memory
<1>1. CASE (\E s \in Subs : Use(s)) \/ Tick \/ ServerStep \/ UNCHANGED vars
    <2>1. Still
        BY <1>0, <1>1, StillForm DEF Shape
    <2> QED BY <1>0, <2>1, IdsKept DEF Still, IdsStay, ResetOf
<1>2. ASSUME NEW t \in Tasks, NEW s \in Subs, UpdateBegins(t, s) PROVE ResetsApart' /\ IdAgrees'
    <2>1. PICK q \in Session : Opens(q, s) /\ task' = [task EXCEPT ![t] = q]
        BY <1>0, <1>2, UpdateForm
    <2>2. UNCHANGED <<db, panel>> /\ task[t] = Idle
        BY <1>0, <1>2, UpdateForm
    <2>3. IdsStay
        BY <1>0, <2>1, <2>2 DEF IdsStay, ResetOf, Opens
    <2> QED BY <1>0, <2>3, IdsKept
<1>3. ASSUME NEW t \in Tasks, Debit(t) \/ DebitRefused(t) PROVE ResetsApart' /\ IdAgrees'
    <2>1. PICK q \in Session : Debits(t, q)
        BY <1>0, <1>3, DebitForm
    <2>2. UNCHANGED <<db, panel>>
        BY <1>0, <1>3, DebitForm
    <2>3. IdsStay
        BY <1>0, <2>1, <2>2 DEF IdsStay, ResetOf, Debits
    <2> QED BY <1>0, <2>3, IdsKept
<1>4. ASSUME NEW t \in Tasks, CallEnds(t) PROVE ResetsApart' /\ IdAgrees'
    <2>1. PICK q \in Session : Settles(t, q)
        BY <1>0, <1>4, CallEndForm
    <2>2. UNCHANGED db
        BY <1>0, <1>4, CallEndForm
    <2>3. /\ task[t] \in Session /\ task[t].sub \in Subs /\ task[t].pc = "panel"
          /\ task' = [task EXCEPT ![t] = q]
        BY <1>0, <2>1 DEF Settles, Shape, TaskShape
    <2> DEFINE NotAsked == /\ UNCHANGED <<panel, doubt>>
                           /\ task[t].op \in {"usage", "delete"} \cup Renewals \/ q = Idle
    <2>4. CASE task[t].op # "reset" \/ NotAsked
        <3>1. \A s \in Subs : panel'[s].here => panel'[s].id = panel[s].id
            <4>1. CASE panel' = panel
                BY <4>1
            <4>2. CASE panel' # panel
                <5>1. Call(task[t]) /\ task[t].op \in Calls /\ task[t].op # "reset"
                    BY <2>1, <2>4, <4>2 DEF Settles
                <5> QED BY <1>0, <2>3, <5>1, CallIds
            <4> QED BY <4>1, <4>2
        <3>2. ~(q.op = "reset" /\ q.pc = "save")
            BY <1>0, <2>1, <2>4 DEF Settles, Done, Renewals
        <3>3. IdsStay
            BY <1>0, <2>2, <2>3, <3>1, <3>2 DEF IdsStay, ResetOf, Clean
        <3> QED BY <1>0, <3>3, IdsKept
    <2>5. CASE ~(task[t].op # "reset" \/ NotAsked)
        <3>0. PICK r \in Subs, p \in Session : p = task[t] /\ r = p.sub
            BY <2>3
        <3>c. /\ task[t].op = "reset" /\ Call(task[t]) /\ task[t].op \in Calls
              /\ q = Idle => doubt'[r]
            BY <2>1, <2>5, <3>0 DEF Settles
        <3>1. /\ panel[r].here /\ panel[r].id = p.old.id
              /\ \A s \in Subs : s # r => panel'[s] = panel[s]
              /\ panel'[r].here => panel'[r].id = p.new.id
            BY <1>0, <2>3, <3>0, <3>c, CallForm, CallIds
        <3>2. \A s \in Subs : Clean(s)' => Clean(s)
            BY <1>0 DEF Clean, Onward
        \* The panel knew the loaded uuid: no other reset of r has come that far.
        <3>3. Clean(r) => p.old.id = db[r].id /\ \A u \in Tasks : ~ResetOf(u, r)
            <4>1. ASSUME Clean(r), NEW u \in Tasks, ResetOf(u, r) PROVE FALSE
                <5>1. /\ db[r].id = task[u].old.id /\ panel[r].id = task[u].new.id
                      /\ task[u].new.id = task[u].old.id + 1 /\ task[u].old.id \in Nat
                    BY <1>0, <4>1 DEF ResetsApart, SessionsRemember, Remembers, ResetOf, Session, Row
                <5>2. p.old.id <= db[r].id /\ p.old.id \in Nat
                    BY <1>0, <2>3, <3>0, <4>1 DEF SessionsRemember, Remembers, Session, Row
                <5> QED BY <3>1, <5>1, <5>2
            <4>2. ASSUME Clean(r) PROVE p.old.id = db[r].id
                <5>1. ~Resetting(r)
                    BY <4>1, <4>2 DEF Resetting, ResetOf
                <5> QED BY <1>0, <3>1, <4>2, <5>1 DEF IdAgrees, Clean
            <4> QED BY <4>1, <4>2
        <3>4. \A u \in Tasks : u # t => task'[u] = task[u]
            BY <1>0, <2>3
        <3>5. task'[t] = q
            BY <1>0, <2>3
        <3>6. CASE q = Idle
            <4>1. doubt'[r]
                BY <3>6, <3>c
            <4>2. IdsStay
                BY <1>0, <2>2, <2>3, <3>1, <3>2, <3>4, <3>5, <3>6, <4>1 DEF IdsStay, ResetOf, Clean
            <4> QED BY <1>0, <4>2, IdsKept
        <3>7. CASE q # Idle
            <4>1. q.pc = "save" /\ q.op = "reset" /\ q.sub = r /\ q.old = p.old /\ q.new.id = p.new.id
                BY <2>1, <3>0, <3>7, <3>c DEF Settles, Done
            <4>2. ResetsApart'
                <5>1. ASSUME NEW s \in Subs, NEW u \in Tasks, Clean(s)', ResetOf(u, s)'
                      PROVE  /\ db'[s].id = task'[u].old.id /\ panel'[s].id = task'[u].new.id
                             /\ \A w \in Tasks : ResetOf(w, s)' => w = u
                    <6>1. CASE s = r
                        <7>1. \A w \in Tasks : ResetOf(w, s)' => w = t
                            BY <3>2, <3>3, <3>4, <5>1, <6>1 DEF ResetOf
                        <7> QED BY <2>2, <3>1, <3>2, <3>3, <3>5, <4>1, <5>1, <6>1, <7>1 DEF Clean
                    <6>2. CASE s # r
                        <7>1. \A w \in Tasks : ResetOf(w, s)' => w # t /\ ResetOf(w, s)
                            BY <3>4, <3>5, <4>1, <6>2 DEF ResetOf
                        <7> QED BY <1>0, <2>2, <3>1, <3>2, <3>4, <5>1, <6>2, <7>1 DEF ResetsApart
                    <6> QED BY <6>1, <6>2
                <5> QED BY <5>1 DEF ResetsApart
            <4>3. ASSUME NEW s \in Subs, Clean(s)', ~Resetting(s)' PROVE panel'[s].id = db'[s].id
                <5>1. s # r
                    BY <3>5, <4>1, <4>3 DEF Resetting
                <5>2. ~Resetting(s)
                    BY <2>3, <3>4, <4>3 DEF Resetting
                <5> QED BY <1>0, <2>2, <3>1, <3>2, <4>3, <5>1, <5>2 DEF IdAgrees, Clean
            <4> QED BY <4>2, <4>3 DEF IdAgrees, Clean
        <3> QED BY <3>6, <3>7
    <2> QED BY <2>4, <2>5
<1>5. ASSUME NEW t \in Tasks, Save(t) PROVE ResetsApart' /\ IdAgrees'
    <2>1. Writes(t) /\ UNCHANGED <<panel, doubt>>
        BY <1>0, <1>5, SaveForm
    <2>2. PICK r \in Subs, p \in Session : p = task[t] /\ r = p.sub
        BY <1>0, <2>1 DEF Writes
    <2>3. /\ \A s \in Subs : s # r => db'[s] = db[s]
          /\ db'[r].id = IF p.new.id # p.old.id THEN p.new.id ELSE db[r].id
          /\ p.pc = "save"
          /\ \A u \in Tasks : task'[u] = IF u = t THEN Idle ELSE task[u]
        <3>1. db \in [Subs -> Row] /\ db[r] \in Row
            BY <1>0 DEF TypeOK
        <3>2. db' = [db EXCEPT ![r] = Merge(db[r], p)] /\ p.pc = "save" /\ task' = [task EXCEPT ![t] = Idle]
            BY <2>1, <2>2 DEF Writes
        <3>3. Merge(db[r], p).id = IF p.new.id # p.old.id THEN p.new.id ELSE db[r].id
            BY <3>1, MergeType
        <3> QED BY <1>0, <3>1, <3>2, <3>3
    <2>4. /\ p.new.id = (IF p.op = "reset" THEN p.old.id + 1 ELSE p.old.id)
          /\ p.old.id \in Nat
        BY <1>0, <2>2 DEF SessionsRemember, Remembers, Session, Row
    <2>5. CASE p.op # "reset"
        <3>1. IdsStay
            BY <1>0, <2>1, <2>2, <2>3, <2>4, <2>5 DEF IdsStay, ResetOf
        <3> QED BY <1>0, <3>1, IdsKept
    <2>6. CASE p.op = "reset"
        <3>1. ResetOf(t, r) /\ db'[r].id = p.new.id
            BY <2>2, <2>3, <2>4, <2>6 DEF ResetOf
        <3>2. Clean(r) => panel[r].id = p.new.id /\ \A u \in Tasks : ResetOf(u, r) => u = t
            BY <1>0, <2>2, <3>1 DEF ResetsApart
        <3>3. \A s \in Subs, u \in Tasks : ResetOf(u, s)' => u # t /\ ResetOf(u, s) /\ task'[u] = task[u]
            BY <1>0, <2>3 DEF ResetOf
        <3>4. \A s \in Subs : Clean(s)' => Clean(s)
            BY <1>0 DEF Clean, Onward
        <3>5. ResetsApart'
            <4>1. ASSUME NEW s \in Subs, NEW u \in Tasks, Clean(s)', ResetOf(u, s)'
                  PROVE  /\ db'[s].id = task'[u].old.id /\ panel'[s].id = task'[u].new.id
                         /\ \A w \in Tasks : ResetOf(w, s)' => w = u
                <5>1. s # r
                    BY <3>2, <3>3, <3>4, <4>1
                <5> QED BY <1>0, <2>1, <2>3, <3>3, <3>4, <4>1, <5>1 DEF ResetsApart
            <4> QED BY <4>1 DEF ResetsApart
        <3>6. ASSUME NEW s \in Subs, Clean(s)', ~Resetting(s)' PROVE panel'[s].id = db'[s].id
            <4>1. CASE s = r
                BY <2>1, <3>1, <3>2, <3>4, <3>6, <4>1
            <4>2. CASE s # r
                <5>1. ~Resetting(s)
                    BY <2>2, <2>3, <3>6, <4>2 DEF Resetting
                <5> QED BY <1>0, <2>1, <2>3, <3>4, <3>6, <4>2, <5>1 DEF IdAgrees, Clean
            <4> QED BY <4>1, <4>2
        <3> QED BY <3>5, <3>6 DEF IdAgrees, Clean
    <2> QED BY <2>5, <2>6
<1>6. CASE BotCrash
    <2>1. /\ task' = [t \in Tasks |-> Idle] /\ UNCHANGED <<db, panel>>
          /\ \A s \in Subs, t \in Tasks : Half(task[t], s) => doubt'[s]
        BY <1>0, <1>6, CrashForm
    <2>2. \A s \in Subs, t \in Tasks : ResetOf(t, s) => ~Clean(s)'
        BY <2>1 DEF ResetOf, Half, Clean
    <2>3. IdsStay
        BY <1>0, <2>1, <2>2 DEF IdsStay, ResetOf
    <2> QED BY <1>0, <2>3, IdsKept
<1>7. CASE SweepStart \/ WorkerCrash
           \/ \E s \in Subs : SweepCounts(s) \/ SweepEmpty(s) \/ SweepSkips(s) \/ SweepBlocks(s)
    <2>1. Sweeps
        BY <1>0, <1>7, SweepForm
    <2>2. \A s \in Subs : panel'[s].here => panel'[s].id = panel[s].id
        <3>1. ASSUME NEW r \in Subs, sweep[r].sub = r, sweep[r].op = "sweep", Call(sweep[r])
              PROVE  \A s \in Subs : panel'[s].here => panel'[s].id = panel[s].id
            <4>1. sweep[r] \in Session /\ sweep[r].op \in Calls /\ sweep[r].sub \in Subs
                BY <1>0, <3>1 DEF Calls
            <4> QED BY <1>0, <3>1, <4>1, CallIds
        <3> QED BY <2>1, <3>1 DEF Sweeps
    <2>3. IdsStay
        BY <1>0, <2>1, <2>2 DEF IdsStay, ResetOf, Clean, Sweeps
    <2> QED BY <1>0, <2>3, IdsKept
<1>8. CASE SweepCommits
    <2>1. UNCHANGED <<panel, task, doubt>> /\ \A s \in Subs : db'[s].id = db[s].id
        BY <1>0, <1>8, CommitForm
    <2>2. IdsStay
        BY <1>0, <2>1 DEF IdsStay, ResetOf
    <2> QED BY <1>0, <2>2, IdsKept
<1> QED BY Steps, <1>1, <1>2, <1>3, <1>4, <1>5, <1>6, <1>7, <1>8

-----------------------------------------------------------------------------
(* The volume.                                                             *)
\* What a step that pays for no volume has to keep.
VolumeStays ==
    \A s \in Subs :
        /\ db'[s].vol = db[s].vol
        /\ ~doubt'[s] /\ panel'[s].limit # panel[s].limit =>
              \/ panel'[s].limit <= Base + renewals[s]
              \/ panel'[s].limit <= Base + renewals[s] + 1 /\ Granted(s)'
        /\ Granted(s) => Granted(s)' \/ doubt'[s]

LEMMA VolumeKept ==
    ASSUME TypeOK, TypeOK', VolumeCovered, Onward, VolumeStays
    PROVE  VolumeCovered'
<1>1. ASSUME NEW s \in Subs
      PROVE  /\ db'[s].vol <= Base + renewals'[s]
             /\ ~doubt'[s] => panel'[s].limit <= Base + renewals'[s] + (IF Granted(s)' THEN 1 ELSE 0)
    <2>1. /\ Base \in Nat /\ renewals[s] \in Nat /\ renewals'[s] \in Nat
          /\ renewals[s] <= renewals'[s] /\ (doubt[s] => doubt'[s])
          /\ panel[s].limit \in Nat /\ panel'[s].limit \in Nat /\ db[s].vol \in Nat
        BY SubscriptionsAssumption DEF TypeOK, Onward, Client, Row
    <2>2. /\ db[s].vol <= Base + renewals[s]
          /\ ~doubt[s] => panel[s].limit <= Base + renewals[s] + (IF Granted(s) THEN 1 ELSE 0)
        BY DEF VolumeCovered
    <2>3. db'[s].vol = db[s].vol /\ (Granted(s) => Granted(s)' \/ doubt'[s])
        BY DEF VolumeStays
    <2>4. ~doubt'[s] /\ panel'[s].limit # panel[s].limit =>
              \/ panel'[s].limit <= Base + renewals[s]
              \/ panel'[s].limit <= Base + renewals[s] + 1 /\ Granted(s)'
        BY DEF VolumeStays
    <2>5. db'[s].vol <= Base + renewals'[s]
        BY <2>1, <2>2, <2>3
    <2>6. ASSUME ~doubt'[s]
          PROVE  panel'[s].limit <= Base + renewals'[s] + (IF Granted(s)' THEN 1 ELSE 0)
        <3>1. CASE Granted(s)'
            BY <2>1, <2>2, <2>4, <2>6, <3>1
        <3>2. CASE ~Granted(s)'
            BY <2>1, <2>2, <2>3, <2>4, <2>6, <3>2
        <3> QED BY <3>1, <3>2
    <2> QED BY <2>5, <2>6
<1> QED BY <1>1 DEF VolumeCovered

\* The limit a call sets is of the row that was loaded, or of the renewal.
LEMMA CallLimits ==
    ASSUME TypeOK, NEW q \in Session, q.op \in Calls, q.sub \in Subs, Call(q), Remembers(q),
           q.pc # "idle"
    PROVE  \A s \in Subs : panel'[s].limit # panel[s].limit =>
              \/ panel'[s].limit <= Base + renewals[s]
              \/ q.op = "volume" /\ q.sub = s /\ panel'[s].limit <= Base + renewals[s] + 1
<1>1. /\ panel'[q.sub] = Effect(q, panel[q.sub]) /\ panel[q.sub] \in Client
      /\ \A s \in Subs : s # q.sub => panel'[s] = panel[s]
    BY CallForm DEF TypeOK
<1>2. /\ Base \in Nat /\ renewals[q.sub] \in Nat /\ q.old.vol \in Nat
      /\ q.old.vol <= Base + renewals[q.sub]
      /\ q.new.vol = IF q.op = "volume" THEN q.old.vol + 1 ELSE q.old.vol
    BY SubscriptionsAssumption DEF TypeOK, Session, Row, Remembers
<1>3. /\ q.op \in Deletions => panel'[q.sub].limit = 0
      /\ q.op \in {"toggle", "reset", "sweep"} => panel'[q.sub].limit = q.old.vol
      /\ q.op \in Renewals => panel'[q.sub].limit = q.new.vol
    BY <1>1, EffectType
<1>4. q.op \in Deletions \/ q.op \in {"toggle", "reset", "sweep"} \/ q.op \in Renewals
    BY DEF Calls, Deletions
<1>5. \/ panel'[q.sub].limit <= Base + renewals[q.sub]
      \/ q.op = "volume" /\ panel'[q.sub].limit <= Base + renewals[q.sub] + 1
    BY <1>2, <1>3, <1>4
<1> QED BY <1>1, <1>5

LEMMA VolumeNext ==
    ASSUME Types, Types', Memory, [Next]_vars
    PROVE  VolumeCovered'
<1>0. /\ TypeOK /\ TypeOK' /\ Shape /\ PaidHoldsLock /\ SessionsRemember /\ VolumeCovered
      /\ task \in [Tasks -> Session] /\ sweep \in [Subs -> Session]
      /\ Onward /\ Idle.pc = "idle" /\ NoTask \notin Tasks
    BY OnwardNext, IdleFields, SubscriptionsAssumption DEF Types, TypeOK, Memory
<1>1. CASE (\E s \in Subs : Use(s)) \/ Tick \/ ServerStep \/ UNCHANGED vars
    <2>1. Still
        BY <1>0, <1>1, StillForm DEF Shape
    <2>2. VolumeStays
        BY <2>1 DEF Still, VolumeStays, Granted
    <2> QED BY <1>0, <2>2, VolumeKept
<1>2. ASSUME NEW t \in Tasks, NEW s \in Subs, UpdateBegins(t, s) PROVE VolumeCovered'
    <2>1. PICK q \in Session : Opens(q, s) /\ task' = [task EXCEPT ![t] = q]
        BY <1>0, <1>2, UpdateForm
    <2>2. UNCHANGED <<db, panel>> /\ task[t] = Idle
        BY <1>0, <1>2, UpdateForm
    <2>3. \A r \in Subs : Granted(r) => Granted(r)'
        BY <1>0, <2>1, <2>2 DEF Granted
    <2>4. VolumeStays
        BY <2>2, <2>3 DEF VolumeStays
    <2> QED BY <1>0, <2>4, VolumeKept
<1>3. ASSUME NEW t \in Tasks, Debit(t) \/ DebitRefused(t) PROVE VolumeCovered'
    <2>1. PICK q \in Session : Debits(t, q)
        BY <1>0, <1>3, DebitForm
    <2>2. UNCHANGED <<db, panel>>
        BY <1>0, <1>3, DebitForm
    <2>3. \A r \in Subs : Granted(r) => Granted(r)'
        BY <1>0, <2>1 DEF Granted, Debits
    <2>4. VolumeStays
        BY <2>2, <2>3 DEF VolumeStays
    <2> QED BY <1>0, <2>4, VolumeKept
<1>4. ASSUME NEW t \in Tasks, CallEnds(t) PROVE VolumeCovered'
    <2>1. PICK q \in Session : Settles(t, q)
        BY <1>0, <1>4, CallEndForm
    <2>2. UNCHANGED db
        BY <1>0, <1>4, CallEndForm
    <2>3. /\ task[t] \in Session /\ task[t].sub \in Subs /\ task[t].pc = "panel"
          /\ task' = [task EXCEPT ![t] = q] /\ Remembers(task[t])
        BY <1>0, <2>1 DEF Settles, Shape, TaskShape, SessionsRemember
    <2>4. \A r \in Subs : Granted(r) => Granted(r)'
        BY <1>0, <2>3 DEF Granted
    <2>5. ASSUME NEW s \in Subs, panel'[s].limit # panel[s].limit
          PROVE  \/ panel'[s].limit <= Base + renewals[s]
                 \/ panel'[s].limit <= Base + renewals[s] + 1 /\ Granted(s)'
        <3>1. /\ Call(task[t]) /\ task[t].op \in Calls
              /\ task[t].op \in Renewals => Done(task[t], q)
            BY <2>1, <2>5 DEF Settles
        <3>2. \/ panel'[s].limit <= Base + renewals[s]
              \/ /\ task[t].op = "volume" /\ task[t].sub = s
                 /\ panel'[s].limit <= Base + renewals[s] + 1
            BY <1>0, <2>3, <2>5, <3>1, CallLimits
        <3>3. CASE task[t].op = "volume" /\ task[t].sub = s
            <4>1. q.op = "volume" /\ q.sub = s /\ q.pc = "save" /\ task'[t] = q
                BY <1>0, <2>3, <3>1, <3>3 DEF Done, Renewals
            <4>2. Granted(s)'
                BY <4>1 DEF Granted
            <4> QED BY <3>2, <4>2
        <3> QED BY <3>2, <3>3
    <2>6. VolumeStays
        BY <2>2, <2>4, <2>5 DEF VolumeStays
    <2> QED BY <1>0, <2>6, VolumeKept
<1>5. ASSUME NEW t \in Tasks, Save(t) PROVE VolumeCovered'
    <2>1. Writes(t) /\ UNCHANGED <<panel, doubt>>
        BY <1>0, <1>5, SaveForm
    <2>2. PICK r \in Subs, p \in Session : p = task[t] /\ r = p.sub
        BY <1>0, <2>1 DEF Writes
    <2>3. /\ \A s \in Subs : s # r => db'[s] = db[s]
          /\ db'[r].vol = IF p.new.vol # p.old.vol THEN p.new.vol ELSE db[r].vol
          /\ p.pc = "save"
          /\ \A u \in Tasks : task'[u] = IF u = t THEN Idle ELSE task[u]
        <3>1. db \in [Subs -> Row] /\ db[r] \in Row
            BY <1>0 DEF TypeOK
        <3>2. db' = [db EXCEPT ![r] = Merge(db[r], p)] /\ p.pc = "save" /\ task' = [task EXCEPT ![t] = Idle]
            BY <2>1, <2>2 DEF Writes
        <3>3. Merge(db[r], p).vol = IF p.new.vol # p.old.vol THEN p.new.vol ELSE db[r].vol
            BY <3>1, MergeType
        <3> QED BY <1>0, <3>1, <3>2, <3>3
    <2>4. /\ p.new.vol = (IF p.op = "volume" THEN p.old.vol + 1 ELSE p.old.vol)
          /\ p.old.vol \in Nat /\ p.old.vol <= Base + renewals[r]
        BY <1>0, <2>2, <2>3 DEF SessionsRemember, Remembers, Session, Row
    <2>5. CASE p.op # "volume"
        <3>1. \A s \in Subs : Granted(s) => Granted(s)'
            BY <1>0, <2>2, <2>3, <2>5 DEF Granted
        <3>2. VolumeStays
            BY <2>1, <2>2, <2>3, <2>4, <2>5, <3>1 DEF VolumeStays
        <3> QED BY <1>0, <3>2, VolumeKept
    <2>6. CASE p.op = "volume"
        \* It holds the row of the user: no other renewal has come that far.
        <3>1. lock = t /\ \A s \in Subs : Granted(s) => s = r
            BY <1>0, <2>2, <2>3, <2>6 DEF PaidHoldsLock, Renewals, Granted
        <3>2. \A s \in Subs : renewals'[s] = renewals[s] + (IF s = r THEN 1 ELSE 0)
            BY <2>1, <2>2, <2>6, <3>1 DEF Writes
        <3>3. ASSUME NEW s \in Subs
              PROVE  /\ db'[s].vol <= Base + renewals'[s]
                     /\ ~doubt'[s] =>
                          panel'[s].limit <= Base + renewals'[s] + (IF Granted(s)' THEN 1 ELSE 0)
            <4>1. /\ Base \in Nat /\ renewals[s] \in Nat /\ panel[s].limit \in Nat
                  /\ db[s].vol \in Nat
                BY <1>0, SubscriptionsAssumption DEF TypeOK, Client, Row
            <4>2. /\ db[s].vol <= Base + renewals[s]
                  /\ ~doubt[s] => panel[s].limit <= Base + renewals[s] + (IF Granted(s) THEN 1 ELSE 0)
                BY <1>0 DEF VolumeCovered
            <4>3. CASE s = r
                <5>1. renewals'[s] = renewals[s] + 1 /\ db'[s].vol = p.old.vol + 1
                    BY <2>3, <2>4, <2>6, <3>2, <4>3
                <5>2. db'[s].vol <= Base + renewals'[s]
                    BY <2>4, <4>1, <4>3, <5>1
                <5>3. ~doubt[s] => panel[s].limit <= Base + renewals'[s]
                    BY <4>1, <4>2, <5>1
                <5> QED BY <2>1, <4>1, <5>1, <5>2, <5>3
            <4>4. CASE s # r
                <5>1. renewals'[s] = renewals[s] /\ db'[s] = db[s] /\ ~Granted(s)
                    BY <2>3, <3>1, <3>2, <4>1, <4>4
                <5> QED BY <2>1, <4>1, <4>2, <5>1
            <4> QED BY <4>3, <4>4
        <3> QED BY <3>3 DEF VolumeCovered
    <2> QED BY <2>5, <2>6
<1>6. CASE BotCrash
    <2>1. /\ UNCHANGED <<db, panel>>
          /\ \A s \in Subs, t \in Tasks : Half(task[t], s) => doubt'[s]
        BY <1>0, <1>6, CrashForm
    <2>2. \A s \in Subs : Granted(s) => doubt'[s]
        BY <2>1 DEF Granted, Half
    <2>3. VolumeStays
        BY <2>1, <2>2 DEF VolumeStays
    <2> QED BY <1>0, <2>3, VolumeKept
<1>7. CASE SweepStart \/ WorkerCrash
           \/ \E s \in Subs : SweepCounts(s) \/ SweepEmpty(s) \/ SweepSkips(s) \/ SweepBlocks(s)
    <2>1. Sweeps
        BY <1>0, <1>7, SweepForm
    <2>2. ASSUME NEW s \in Subs, panel'[s].limit # panel[s].limit
          PROVE  panel'[s].limit <= Base + renewals[s]
        <3>1. PICK r \in Subs : /\ sweep[r].sub = r /\ sweep[r].op = "sweep"
                                /\ sweep[r].pc # "idle" /\ Call(sweep[r])
            BY <2>1, <2>2 DEF Sweeps
        <3>2. /\ sweep[r] \in Session /\ sweep[r].op \in Calls /\ sweep[r].sub \in Subs
              /\ Remembers(sweep[r])
            BY <1>0, <3>1 DEF Calls, SessionsRemember
        <3> QED BY <1>0, <2>2, <3>1, <3>2, CallLimits
    <2>3. VolumeStays
        BY <2>1, <2>2 DEF VolumeStays, Sweeps, Granted
    <2> QED BY <1>0, <2>3, VolumeKept
<1>8. CASE SweepCommits
    <2>1. UNCHANGED <<panel, task, doubt>> /\ \A s \in Subs : db'[s].vol = db[s].vol
        BY <1>0, <1>8, CommitForm
    <2>2. VolumeStays
        BY <2>1 DEF VolumeStays, Granted
    <2> QED BY <1>0, <2>2, VolumeKept
<1> QED BY Steps, <1>1, <1>2, <1>3, <1>4, <1>5, <1>6, <1>7, <1>8

-----------------------------------------------------------------------------
(* The inductive invariant.                                                *)
LEMMA InitInv == Init => IInv
<1> SUFFICES ASSUME Init PROVE IInv
    OBVIOUS
<1>0. /\ Base \in Nat /\ N \in Nat /\ MaxTime \in Nat /\ MaxClicks \in Nat
      /\ MaxCrashes \in Nat /\ MaxServerOps \in Nat /\ Home \in Servers /\ Inbounds # {}
    BY SubscriptionsAssumption, ServersAssumption
<1>1. /\ NewRow \in Row /\ Idle \in Session /\ NewRow.vol = Base /\ NewRow.id = 0
      /\ NewClient \in Client /\ NewClient.limit = Base /\ NewClient.id = 0
      /\ Idle.pc = "idle" /\ Idle.op = "none"
      /\ Idle.old = NewRow /\ Idle.new = NewRow
    BY <1>0, IdleType DEF NewRow, NewClient, Client, Idle
<1>2. /\ server = [v \in Servers |-> IF v \in {Home} THEN "healthy" ELSE "absent"]
      /\ inbound = [v \in Servers |-> [i \in Inbounds |-> IF v \in {Home} THEN "on" ELSE "absent"]]
      /\ sync = NoSync /\ resynced = {} /\ serverOps = 0
    BY DEF Init, ServersInit
<1>3. /\ db = [s \in Subs |-> NewRow] /\ panel = [s \in Subs |-> NewClient]
      /\ task = [t \in Tasks |-> Idle] /\ sweep = [s \in Subs |-> Idle]
      /\ renewals = [s \in Subs |-> 0] /\ doubt = [s \in Subs |-> FALSE]
      /\ refunds = [s \in Subs |-> [asked |-> 0, skipped |-> 0]]
    BY DEF Init
<1>4. ServersTypeOK
    <2>1. NoSync \in [server : Servers \cup {NoServer}, loaded : [Inbounds -> InboundStates]]
        BY DEF NoSync, AllAbsent, InboundStates
    <2>2. server \in [Servers -> ServerStates]
        BY <1>2 DEF ServerStates
    <2>3. inbound \in [Servers -> [Inbounds -> InboundStates]]
        BY <1>2 DEF InboundStates
    <2> QED BY <1>0, <1>2, <2>1, <2>2, <2>3 DEF ServersTypeOK
<1>5. TypeOK
    BY <1>0, <1>1, <1>3, <1>4 DEF Init, TypeOK
<1>6. Shape /\ PaidHoldsLock
    BY <1>1, <1>2, <1>3 DEF Shape, TaskShape, SweepShape, SyncShape, PaidHoldsLock
<1>7. RefundsInv
    BY <1>1, <1>3 DEF RefundsInv, RefundsApart, OneRefundPerDeletion, RefundedHasNoClient, Deleted
<1>8. Memory
    <2>1. SessionsRemember
        BY <1>1, <1>3 DEF SessionsRemember, Remembers
    <2>2. ResetsApart /\ IdAgrees
        BY <1>1, <1>3 DEF ResetsApart, IdAgrees, ResetOf
    <2>3. \A s \in Subs : ~Granted(s)
        BY <1>1, <1>3 DEF Granted
    <2>4. VolumeCovered
        BY <1>0, <1>1, <1>3, <2>3 DEF VolumeCovered
    <2> QED BY <2>1, <2>2, <2>4 DEF Memory
<1>9. HomeStays /\ OffServerHasNoInbound
    BY <1>0, <1>2 DEF HomeStays, OffServerHasNoInbound, Off
<1> QED BY <1>5, <1>6, <1>7, <1>8, <1>9 DEF IInv, Types

LEMMA NextInv == IInv /\ [Next]_vars => IInv'
<1> SUFFICES ASSUME IInv, [Next]_vars PROVE IInv'
    OBVIOUS
<1>1. Types' /\ RefundsInv'
    BY TypesNext, RefundsNext DEF IInv, Memory
<1>2. Memory'
    BY <1>1, SessionsNext, IdsNext, VolumeNext DEF IInv, Memory
<1>3. HomeStays' /\ OffServerHasNoInbound'
    <2>1. CASE ServerStep
        BY <2>1, ServersNext DEF IInv, Types, TypeOK, Shape
    <2>2. CASE ~ServerStep
        <3>1. UNCHANGED serverVars
            <4>1. ASSUME NEW t \in Tasks, NEW s \in Subs, UpdateBegins(t, s)
                  PROVE  UNCHANGED serverVars
                BY <4>1 DEF UpdateBegins, ViewConfig, RefreshUsage, ResetUuid, ToggleEnable,
                            CancelAndRefund, DeleteConfig, RevokeConfig, Renew, Begin
            <4>2. ASSUME NEW t \in Tasks,
                         Debit(t) \/ DebitRefused(t) \/ CallEnds(t) \/ Save(t)
                  PROVE  UNCHANGED serverVars
                BY <4>2 DEF Debit, DebitRefused, CallEnds, Answered, Refused, AnswerLost, Save
            <4>3. ASSUME NEW s \in Subs,
                         \/ Use(s) \/ SweepCounts(s) \/ SweepEmpty(s)
                         \/ SweepSkips(s) \/ SweepBlocks(s)
                  PROVE  UNCHANGED serverVars
                BY <4>3 DEF Use, SweepCounts, SweepEmpty, SweepSkips, SweepBlocks
            <4>4. CASE Tick \/ BotCrash \/ SweepStart \/ WorkerCrash \/ SweepCommits
                BY <4>4 DEF Tick, BotCrash, SweepStart, WorkerCrash, SweepCommits
            <4>5. CASE UNCHANGED vars
                BY <4>5 DEF vars
            <4> QED BY <2>2, <4>1, <4>2, <4>3, <4>4, <4>5, Steps
        <3> QED BY <3>1 DEF IInv, HomeStays, OffServerHasNoInbound, Off, serverVars
    <2> QED BY <2>1, <2>2
<1> QED BY <1>1, <1>2, <1>3 DEF IInv

LEMMA SubscriptionsInvariant == Spec => []IInv
BY InitInv, NextInv, PTL DEF Spec

-----------------------------------------------------------------------------
(* Every variable stays in its type: of any sessions that interleave, none *)
(* marks an order that does not exist or writes a row that is not one.     *)
THEOREM SubscriptionsTypeOK == Spec => []TypeOK
<1>1. IInv => TypeOK
    BY DEF IInv, Types
<1> QED BY <1>1, SubscriptionsInvariant, PTL

(* At most one of the refunds that delete the client first is paid, for    *)
(* any number of clicks on "cancel and refund" and of lost answers: each   *)
(* of them has to find the client on the panel, and the first one that     *)
(* does takes it away.                                                     *)
THEOREM SubscriptionsOneRefundPerDeletion == Spec => []OneRefundPerDeletion
<1>1. IInv => OneRefundPerDeletion
    BY DEF IInv, RefundsInv
<1> QED BY <1>1, SubscriptionsInvariant, PTL

(* A subscription refunded after its deletion never has a client again: no *)
(* renewal, switch, reset or sweep that was under way with the old row     *)
(* creates one, since each of them updates a client that has to be there.  *)
THEOREM SubscriptionsRefundedHasNoClient == Spec => []RefundedHasNoClient
<1>1. IInv => RefundedHasNoClient
    BY DEF IInv, RefundsInv
<1> QED BY <1>1, SubscriptionsInvariant, PTL

(* The stored uuid is the panel's, but for the exceptions IdAgrees names,  *)
(* for any number of resets: a reset is addressed to the uuid it loaded,   *)
(* so the panel refuses one that loaded before another was committed.      *)
THEOREM SubscriptionsIdAgrees == Spec => []IdAgrees
<1>1. IInv => IdAgrees
    BY DEF IInv, Memory
<1> QED BY <1>1, SubscriptionsInvariant, PTL

(* No volume is granted that was not sold: every session, however old its  *)
(* row, loaded a volume that was paid for, and two paid renewals of one    *)
(* customer exclude each other by the lock on the user's row.              *)
THEOREM SubscriptionsNoFreeVolume == Spec => []NoFreeVolume
<1>1. IInv => NoFreeVolume
    <2> SUFFICES ASSUME IInv, NEW s \in Subs
                 PROVE  /\ db[s].vol <= Base + renewals[s]
                        /\ ~doubt[s] => panel[s].limit <= Base + renewals[s] + Debited(s)
        BY DEF NoFreeVolume
    <2>1. /\ TypeOK /\ PaidHoldsLock
          /\ db[s].vol <= Base + renewals[s]
          /\ ~doubt[s] => panel[s].limit <= Base + renewals[s] + (IF Granted(s) THEN 1 ELSE 0)
        BY DEF IInv, Types, Memory, VolumeCovered
    <2>2. panel[s].limit \in Nat /\ renewals[s] \in Nat /\ Base \in Nat
        BY <2>1, SubscriptionsAssumption DEF TypeOK, Client
    <2>3. Granted(s) => Debited(s) = 1
        BY <2>1 DEF Granted, Debited, PaidHoldsLock, Renewals
    <2>4. Debited(s) = 0 \/ Debited(s) = 1
        BY DEF Debited
    <2> QED BY <2>1, <2>2, <2>3, <2>4
<1> QED BY <1>1, SubscriptionsInvariant, PTL

(* The server row of the subscriptions is never deleted, whatever the      *)
(* administrators do and whether or not a client is active on it: an       *)
(* inbound that was once recorded is never removed, and the database does  *)
(* not let a server go that has one.                                       *)
THEOREM SubscriptionsLiveKeepsServer == Spec => []LiveKeepsServer
<1>1. IInv => LiveKeepsServer
    BY DEF IInv, HomeStays, LiveKeepsServer
<1> QED BY <1>1, SubscriptionsInvariant, PTL

(* A server that is off has an active inbound only since a synchronisation *)
(* that turned one on, for any servers, inbounds and interleaving of one   *)
(* synchronisation with the other operations.                              *)
THEOREM SubscriptionsOffServerHasNoInbound == Spec => []OffServerHasNoInbound
<1>1. IInv => OffServerHasNoInbound
    BY DEF IInv
<1> QED BY <1>1, SubscriptionsInvariant, PTL
=============================================================================
