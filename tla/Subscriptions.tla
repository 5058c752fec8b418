--------------------------- MODULE Subscriptions ---------------------------
(***************************************************************************)
(* The life of provisioned subscriptions: what their customer does to them *)
(* (apps/bot/handlers/user/my_configs.py, renewal.py), what administrators *)
(* do (handlers/admin/subs.py, servers.py) and the worker's sweep          *)
(* (apps/worker/jobs/subscriptions.py), all writing the same rows and all  *)
(* calling the same panel, which has no transactions.                      *)
(*                                                                         *)
(* Every one of them is a session: it loads the rows, calls the panel for  *)
(* as long as that takes, and writes at the end the columns that differ    *)
(* from what it loaded.  The panel may refuse a call, or perform it and    *)
(* lose the answer.  All subscriptions here belong to one customer, one    *)
(* plan and one server, Home.                                              *)
(*                                                                         *)
(* UserAccessMiddleware stamps users.last_seen_at, so the first flush of a *)
(* customer's session takes the row lock of the user until the commit.     *)
(* Every handler but the renewal flushes after its panel call.             *)
(***************************************************************************)
EXTENDS Servers

CONSTANTS
    N,               \* subscriptions: 1..N, in the order they were bought
    Tasks,           \* updates the bot handles at one time; the numbers are only names
    Home,            \* the server of the subscriptions
    NoTask,
    Base,            \* volume_bytes of the plan, in units of one renewal
    MaxTime,         \* bound: units of the plan's duration that pass
    MaxClicks,       \* bound: updates of all users
    MaxCrashes,      \* bound: restarts of the bot and of the worker
    MaxEvents        \* bound: updates, operations on servers and restarts together

\* The subscriptions have an inbound: xui_clients.inbound_id is NOT NULL.
ASSUME SubscriptionsAssumption ==
    /\ N \in Nat \ {0}
    /\ Home \in Servers /\ Inbounds # {}
    /\ Tasks \subseteq Nat /\ NoTask \notin Tasks
    /\ Base \in Nat \ {0}
    /\ MaxTime \in Nat /\ MaxClicks \in Nat /\ MaxCrashes \in Nat
    /\ MaxEvents \in Nat

VARIABLES
    db,         \* committed rows of subscriptions and xui_clients
    order,      \* status of the order each subscription was bought with
    panel,      \* the client of each subscription on the panel
    traffic,    \* the panel's traffic count of each client
    now,
    task,       \* the bot's updates
    sweep,      \* the worker's session, one part per subscription
    lock,       \* the update that holds the user's row
    offered,    \* subscriptions whose customer has been shown "delete"
    renewals,   \* history: volume renewals of each subscription that were paid
    unpaid,     \* orders of renewals that were never debited
    refunds,    \* history: refunds that asked the panel first, and that did not
    doubt,      \* history: an update of this client was made and then lost
    clicks, crashes

subVars == <<db, order, panel, traffic, now, task, sweep, lock, offered, renewals,
             unpaid, refunds, doubt, clicks, crashes>>
vars == <<subVars, serverVars>>

Subs == 1..N
Statuses == {"pending", "active", "expired", "cancelled", "refunded"}

\* vol, used and ends (0: none) are volume_bytes, used_bytes and ends_at;
\* on and id are is_active and client_uuid of the xui_clients row.
Row == [status : Statuses, vol : Nat, used : Nat, ends : Nat, on : BOOLEAN, id : Nat]
NewRow == [status |-> "pending", vol |-> Base, used |-> 0, ends |-> 0, on |-> TRUE, id |-> 0]

Client == [here : BOOLEAN, on : BOOLEAN, limit : Nat, id : Nat]
NewClient == [here |-> TRUE, on |-> TRUE, limit |-> Base, id |-> 0]
Gone == [here |-> FALSE, on |-> FALSE, limit |-> 0, id |-> 0]

Renewals == {"volume", "time"}
Ops == {"usage", "toggle", "reset", "refund", "delete", "revoke"} \cup Renewals
Pcs == {"idle", "debit", "panel", "traffic", "block", "save"}

\* A session: the row it loaded, the row it will write, for a refund whether
\* it asks the panel and the order it found.
Session == [pc : Pcs, op : Ops \cup {"none", "sweep"}, sub : 0..N, old : Row, new : Row,
            asks : BOOLEAN, order : 0..N]
Idle == [pc |-> "idle", op |-> "none", sub |-> 0, old |-> NewRow, new |-> NewRow,
         asks |-> FALSE, order |-> 0]

Live(r) == r.status \in {"pending", "active"}
HomeUp == IsActive(Home)

EventLeft == clicks + serverOps + crashes < MaxEvents

-----------------------------------------------------------------------------
Init ==
    /\ ServersInit({Home})
    /\ db = [s \in Subs |-> NewRow]
    /\ order = [s \in Subs |-> "provisioned"]
    /\ panel = [s \in Subs |-> NewClient]
    /\ traffic = [s \in Subs |-> 0]
    /\ now = 0
    /\ task = [t \in Tasks |-> Idle]
    /\ sweep = [s \in Subs |-> Idle]
    /\ lock = NoTask
    /\ offered = {}
    /\ renewals = [s \in Subs |-> 0]
    /\ unpaid = [s \in Subs |-> 0]
    /\ refunds = [s \in Subs |-> [asked |-> 0, skipped |-> 0]]
    /\ doubt = [s \in Subs |-> FALSE]
    /\ clicks = 0
    /\ crashes = 0

-----------------------------------------------------------------------------
(* The panel.  A client is addressed by its id; another id is refused.     *)

Known(q) == panel[q.sub].here /\ panel[q.sub].id = q.old.id

\* SweptId if the payload carried the new uuid.
SweptId_New(p, q) == q.old.id + 1

\* The id that the sweep's update sends: XUIClient takes the old id and the
\* new uuid, and to_xui_payload sends the id.
SweptId(p, q) == p.id

\* What each update or deletion makes of the client p.
Effect(q, p) ==
    CASE q.op = "toggle" -> [p EXCEPT !.on = q.new.on, !.limit = q.old.vol]
      [] q.op = "reset" -> [p EXCEPT !.on = q.old.on, !.limit = q.old.vol, !.id = q.new.id]
      [] q.op \in Renewals -> [p EXCEPT !.on = TRUE, !.limit = q.new.vol]
      [] q.op = "sweep" -> [p EXCEPT !.on = FALSE, !.limit = q.old.vol, !.id = SweptId(p, q)]
      [] q.op \in {"refund", "delete", "revoke"} -> Gone

Call(q) ==
    /\ Known(q)
    /\ panel' = [panel EXCEPT ![q.sub] = Effect(q, @)]

\* A customer uses the config as far as the panel lets it.
Use(s) ==
    /\ panel[s].here /\ panel[s].on
    /\ traffic[s] < panel[s].limit
    /\ traffic' = [traffic EXCEPT ![s] = @ + 1]
    /\ UNCHANGED <<db, order, panel, now, task, sweep, lock, offered, renewals,
                   unpaid, refunds, doubt, clicks, crashes, serverVars>>

\* Nothing depends on the time before a subscription has an end.
Tick ==
    /\ now < MaxTime
    /\ \E s \in Subs : db[s].ends > now
    /\ now' = now + 1
    /\ UNCHANGED <<db, order, panel, traffic, task, sweep, lock, offered, renewals,
                   unpaid, refunds, doubt, clicks, crashes, serverVars>>
-----------------------------------------------------------------------------
(* A session's rows.                                                       *)

\* What a count of the traffic changes: get_realtime_usage and sync_one.
Seen(r, used) ==
    IF r.status = "pending" /\ used > 0
    THEN [r EXCEPT !.used = used, !.status = "active", !.ends = now + 1]
    ELSE [r EXCEPT !.used = used]

\* Over that forgets the volume.
Over_Time(r) == r.ends # 0 /\ now >= r.ends

\* Times are in whole units: an end has passed when now has reached it.
Over(r) == r.used >= r.vol \/ (r.ends # 0 /\ now >= r.ends)

Refunded(r) == [r EXCEPT !.status = "refunded", !.on = FALSE]
Cancelled(r) == [r EXCEPT !.status = "cancelled", !.on = FALSE]

\* A renewal by time adds nothing to a subscription that has not begun.
Renewed(r, kind) ==
    IF kind = "volume" THEN [r EXCEPT !.vol = @ + 1]
    ELSE IF r.ends = 0 THEN r ELSE [r EXCEPT !.ends = @ + 1]

\* SQLAlchemy writes the columns that differ from what it loaded.
Merge(row, q) == [c \in DOMAIN row |-> IF q.new[c] # q.old[c] THEN q.new[c] ELSE row[c]]

\* The order a refund marks: the customer's newest that is provisioned.
Newest ==
    LET open == {s \in Subs : order[s] = "provisioned"}
    IN  IF open = {} THEN 0 ELSE CHOOSE s \in open : \A r \in open : r <= s

Ready(q) == [q EXCEPT !.pc = "save", !.order = IF q.op = "refund" THEN Newest ELSE 0]

\* GoesOn if a refund did not look at the outcome.
GoesOn_Refund(q) == q.op \in {"delete", "refund"} \cup Renewals

\* A panel call that failed: a deletion and a paid renewal go on, the rest
\* is given up.  The handler of revoke fails on a name it does not define.
GoesOn(q) == q.op \in {"delete"} \cup Renewals

-----------------------------------------------------------------------------
(* The updates of customers and administrators.                            *)

\* An update begins: it has loaded the rows of s, as they are committed now.
Begin(t, op, s, new, pc) ==
    /\ task[t] = Idle
    /\ \A u \in Tasks : u < t => task[u] # Idle
    /\ clicks < MaxClicks /\ EventLeft
    /\ clicks' = clicks + 1
    /\ task' = [task EXCEPT ![t] =
                  [pc |-> pc, op |-> op, sub |-> s, old |-> db[s], new |-> new,
                   asks |-> pc = "panel", order |-> IF op = "refund" /\ pc = "save" THEN Newest ELSE 0]]
    /\ UNCHANGED <<db, order, panel, traffic, now, sweep, lock, renewals, unpaid, refunds,
                   doubt, crashes, serverVars>>

\* The details are shown after the panel was asked for the traffic, whether
\* it answered or not; their buttons follow what the session has loaded.
ViewConfig(t, s) ==
    /\ Begin(t, "usage", s, db[s], "panel")
    /\ offered' = IF db[s].status = "expired" \/ ~HomeUp THEN offered \cup {s} ELSE offered

RefreshUsage(t, s) ==
    /\ Begin(t, "usage", s, db[s], "panel")
    /\ UNCHANGED offered

ResetUuid(t, s) ==
    /\ Live(db[s]) /\ HomeUp
    /\ Begin(t, "reset", s, [db[s] EXCEPT !.id = @ + 1], "panel")
    /\ UNCHANGED offered

ToggleEnable(t, s) ==
    /\ Live(db[s]) /\ HomeUp
    /\ Begin(t, "toggle", s, [db[s] EXCEPT !.on = ~@], "panel")
    /\ UNCHANGED offered

\* A server that is off is not asked: the refund goes straight to its end.
CancelAndRefund(t, s) ==
    /\ db[s].status = "pending" /\ db[s].used = 0
    /\ Begin(t, "refund", s, Refunded(db[s]), IF HomeUp THEN "panel" ELSE "save")
    /\ UNCHANGED offered

\* The button shows for an expired config or one whose server is off; the
\* handler checks no status.
DeleteConfig(t, s) ==
    /\ s \in offered
    /\ Begin(t, "delete", s, Cancelled(db[s]), IF HomeUp THEN "panel" ELSE "save")
    /\ UNCHANGED offered

RevokeConfig(t, s) ==
    /\ Begin(t, "revoke", s, Cancelled(db[s]), "panel")
    /\ UNCHANGED offered

\* The kind, the amount and the price are in the button.
Renew(t, s, kind) ==
    /\ Live(db[s])
    /\ Begin(t, kind, s, Renewed(db[s], kind), "debit")
    /\ UNCHANGED offered

UpdateBegins(t, s) ==
    \/ ViewConfig(t, s) \/ RefreshUsage(t, s)
    \/ ResetUuid(t, s) \/ ToggleEnable(t, s)
    \/ CancelAndRefund(t, s) \/ DeleteConfig(t, s) \/ RevokeConfig(t, s)
    \/ \E kind \in Renewals : Renew(t, s, kind)

\* A renewal writes its order, which takes the user's row, and debits the
\* wallet.  A debit that is refused ends the handler with an exception that
\* is swallowed: the session commits the order.
Debit(t) ==
    /\ task[t].pc = "debit"
    /\ lock = NoTask
    /\ task' = [task EXCEPT ![t].pc = "panel"]
    /\ lock' = t
    /\ UNCHANGED <<db, order, panel, traffic, now, sweep, offered, renewals, unpaid, refunds,
                   doubt, clicks, crashes, serverVars>>

\* AfterRefusal if the handler went on without the money.
AfterRefusal_GoesOn(q) == [q EXCEPT !.pc = "panel"]

AfterRefusal(q) == Idle

DebitRefused(t) ==
    /\ task[t].pc = "debit"
    /\ lock = NoTask
    /\ task' = [task EXCEPT ![t] = AfterRefusal(@)]
    /\ unpaid' = [unpaid EXCEPT ![task[t].sub] = @ + 1]
    /\ UNCHANGED <<db, order, panel, traffic, now, sweep, lock, offered, renewals, refunds,
                   doubt, clicks, crashes, serverVars>>

\* get_client_traffic asks by e-mail, not by id.  It makes a count of zero of
\* an empty answer, whatever the panel means by it: a client without traffic,
\* or one it does not know.
Answered(t) ==
    LET q == task[t] IN
    /\ q.pc = "panel"
    /\ IF q.op = "usage"
       THEN /\ \E used \in {0} \cup (IF panel[q.sub].here THEN {traffic[q.sub]} ELSE {}) :
                 task' = [task EXCEPT ![t] = [Ready(q) EXCEPT !.new = Seen(q.old, used)]]
            /\ UNCHANGED panel
       ELSE /\ Call(q)
            /\ task' = [task EXCEPT ![t] = Ready(q)]
    /\ UNCHANGED <<db, order, traffic, now, sweep, lock, offered, renewals, unpaid, refunds,
                   doubt, clicks, crashes, serverVars>>

\* The panel refused the call or was not reached.
Refused(t) ==
    LET q == task[t] IN
    /\ q.pc = "panel"
    /\ task' = [task EXCEPT ![t] = IF GoesOn(q) THEN Ready(q) ELSE Idle]
    /\ UNCHANGED <<db, order, panel, traffic, now, sweep, lock, offered, renewals, unpaid,
                   refunds, doubt, clicks, crashes, serverVars>>

\* The call was performed and its answer lost; a repeated call may have been
\* refused because the first one was performed.
AnswerLost(t) ==
    LET q == task[t] IN
    /\ q.pc = "panel"
    /\ q.op # "usage"
    /\ Call(q)
    /\ task' = [task EXCEPT ![t] = IF GoesOn(q) THEN Ready(q) ELSE Idle]
    /\ doubt' = [doubt EXCEPT ![q.sub] = @ \/ q.op = "reset"]
    /\ UNCHANGED <<db, order, traffic, now, sweep, lock, offered, renewals, unpaid, refunds,
                   clicks, crashes, serverVars>>

\* The flush takes the user's row; the one of an administrator only waits
\* for the subscription's.
MayWrite(t) ==
    lock \notin {NoTask, t} => task[t].op = "revoke" /\ task[lock].sub # task[t].sub

Counted(r, q) == IF q.asks THEN [r EXCEPT !.asked = @ + 1] ELSE [r EXCEPT !.skipped = @ + 1]

Save(t) ==
    LET q == task[t] IN
    /\ q.pc = "save"
    /\ MayWrite(t)
    /\ db' = [db EXCEPT ![q.sub] = Merge(@, q)]
    /\ order' = IF q.order = 0 THEN order ELSE [order EXCEPT ![q.order] = "refunded"]
    /\ refunds' = IF q.op = "refund" THEN [refunds EXCEPT ![q.sub] = Counted(@, q)] ELSE refunds
    /\ renewals' = IF lock = t /\ q.op = "volume" THEN [renewals EXCEPT ![q.sub] = @ + 1]
                   ELSE renewals
    /\ lock' = IF lock = t THEN NoTask ELSE lock
    /\ task' = [task EXCEPT ![t] = Idle]
    /\ UNCHANGED <<panel, traffic, now, sweep, offered, unpaid, doubt, clicks, crashes,
                   serverVars>>

\* The panel keeps what the restart takes from the database.
Half(q, s) == q.sub = s /\ q.pc = "save" /\ q.op \in {"reset", "volume"}

BotCrash ==
    /\ crashes < MaxCrashes /\ EventLeft
    /\ \E t \in Tasks : task[t] # Idle
    /\ crashes' = crashes + 1
    /\ task' = [t \in Tasks |-> Idle]
    /\ lock' = NoTask
    /\ doubt' = [s \in Subs |-> doubt[s] \/ \E t \in Tasks : Half(task[t], s)]
    /\ UNCHANGED <<db, order, panel, traffic, now, sweep, offered, renewals, unpaid, refunds,
                   clicks, serverVars>>

-----------------------------------------------------------------------------
(* The worker's sweep, every ten minutes and never twice at a time.        *)

SweepIdle == \A s \in Subs : sweep[s] = Idle

\* Subscriptions whose server is not active are not visited.
SweepStart ==
    /\ SweepIdle
    /\ HomeUp
    /\ \E s \in Subs : Live(db[s])
    /\ sweep' = [s \in Subs |->
                   IF Live(db[s])
                   THEN [Idle EXCEPT !.pc = "traffic", !.op = "sweep", !.sub = s,
                                     !.old = db[s], !.new = db[s]]
                   ELSE Idle]
    /\ UNCHANGED <<db, order, panel, traffic, now, task, lock, offered, renewals, unpaid,
                   refunds, doubt, clicks, crashes, serverVars>>

\* Expired with a status that no query of the program asks for.
Expired_Disabled(r) == [r EXCEPT !.status = "disabled", !.on = FALSE]

Expired(r) == [r EXCEPT !.status = "expired", !.on = FALSE]

\* What the sweep makes of a count.
CountOf(q, used) ==
    LET r == Seen(q.old, used) IN
    [q EXCEPT !.pc = IF Over(r) THEN "block" ELSE "save", !.new = r]

\* Counts if a client that is not found were an error like the others.
Counts_Skips(q) ==
    IF ~panel[q.sub].here THEN [q EXCEPT !.pc = "save"] ELSE CountOf(q, traffic[q.sub])

\* The panel says that it has no such client, or what it counted.
Counts(q) ==
    IF ~panel[q.sub].here THEN [q EXCEPT !.pc = "save", !.new = Expired(q.old)]
    ELSE CountOf(q, traffic[q.sub])

SweepCounts(s) ==
    /\ sweep[s].pc = "traffic"
    /\ sweep' = [sweep EXCEPT ![s] = Counts(@)]
    /\ UNCHANGED <<db, order, panel, traffic, now, task, lock, offered, renewals, unpaid,
                   refunds, doubt, clicks, crashes, serverVars>>

\* The panel's answer is empty: a count of zero, for a client that is gone too.
SweepEmpty(s) ==
    /\ sweep[s].pc = "traffic"
    /\ sweep' = [sweep EXCEPT ![s] = CountOf(@, 0)]
    /\ UNCHANGED <<db, order, panel, traffic, now, task, lock, offered, renewals, unpaid,
                   refunds, doubt, clicks, crashes, serverVars>>

\* Any other error: the subscription is left for the next sweep.
SweepSkips(s) ==
    /\ sweep[s].pc = "traffic"
    /\ sweep' = [sweep EXCEPT ![s].pc = "save"]
    /\ UNCHANGED <<db, order, panel, traffic, now, task, lock, offered, renewals, unpaid,
                   refunds, doubt, clicks, crashes, serverVars>>

\* _reset_client_uuid and _disable_client_in_xui make the same update of the
\* client and neither looks at its outcome: one step, in which at least one
\* of the two got through, or none.
SweepBlocks(s) ==
    LET q == sweep[s] IN
    /\ q.pc = "block"
    /\ Call(q) \/ UNCHANGED panel
    /\ sweep' = [sweep EXCEPT ![s] = [q EXCEPT !.pc = "save", !.new = Expired(@)]]
    /\ UNCHANGED <<db, order, traffic, now, task, lock, offered, renewals, unpaid, refunds,
                   doubt, clicks, crashes, serverVars>>

\* One commit for all.  It waits for the rows a renewal has written.
SweepCommits ==
    /\ ~SweepIdle
    /\ \A s \in Subs : sweep[s].pc \in {"idle", "save"}
    /\ lock # NoTask => sweep[task[lock].sub] = Idle
    /\ db' = [s \in Subs |-> IF sweep[s] = Idle THEN db[s] ELSE Merge(db[s], sweep[s])]
    /\ sweep' = [s \in Subs |-> Idle]
    /\ UNCHANGED <<order, panel, traffic, now, task, lock, offered, renewals, unpaid, refunds,
                   doubt, clicks, crashes, serverVars>>

WorkerCrash ==
    /\ crashes < MaxCrashes /\ EventLeft
    /\ ~SweepIdle
    /\ crashes' = crashes + 1
    /\ sweep' = [s \in Subs |-> Idle]
    /\ UNCHANGED <<db, order, panel, traffic, now, task, lock, offered, renewals, unpaid,
                   refunds, doubt, clicks, serverVars>>

-----------------------------------------------------------------------------
(* Administrators on the servers.                                          *)

ActiveClients(v) == IF v = Home THEN Cardinality({s \in Subs : db[s].on}) ELSE 0

ServerStep ==
    /\ \/ \E v \in Servers, R \in SUBSET Inbounds : AddServer(v, R)
       \/ \E v \in Servers : ToggleServer(v)
       \/ \E v \in Servers : DeleteServer(v, ActiveClients(v))
       \/ \E v \in Servers : SyncStart(v)
       \/ \E R \in SUBSET Inbounds : SyncEnd(R)
       \/ SyncFails
    /\ serverOps' > serverOps => EventLeft
    /\ UNCHANGED subVars

CallEnds(t) == Answered(t) \/ Refused(t) \/ AnswerLost(t)

Next ==
    \/ \E s \in Subs : Use(s)
    \/ Tick
    \/ \E t \in Tasks, s \in Subs : UpdateBegins(t, s)
    \/ \E t \in Tasks : Debit(t) \/ DebitRefused(t) \/ CallEnds(t) \/ Save(t)
    \/ BotCrash
    \/ SweepStart
    \/ \E s \in Subs : SweepCounts(s) \/ SweepEmpty(s) \/ SweepSkips(s) \/ SweepBlocks(s)
    \/ SweepCommits
    \/ WorkerCrash
    \/ ServerStep

\* What the panel answers about a client it has, and about one it has not.
TrafficTold(s) == panel[s].here /\ SweepCounts(s)
GoneTold(s) == ~panel[s].here /\ SweepCounts(s)

\* Calls have timeouts, the scheduler starts the sweep again and again, and
\* a panel that is asked for ever answers now and then, with the traffic of a
\* client it has.  Nothing is assumed of how it answers for one it has not.
Fairness ==
    /\ WF_vars(SweepStart) /\ WF_vars(SweepCommits)
    /\ \A s \in Subs : /\ SF_vars(TrafficTold(s))
                      /\ SF_vars(SweepCounts(s) \/ SweepEmpty(s))
                      /\ WF_vars(SweepBlocks(s))
    /\ \A t \in Tasks : WF_vars(CallEnds(t)) /\ WF_vars(Save(t))

Spec == Init /\ [][Next]_vars /\ Fairness

-----------------------------------------------------------------------------
TypeOK ==
    /\ ServersTypeOK
    /\ db \in [Subs -> Row]
    /\ order \in [Subs -> {"provisioned", "refunded"}]
    /\ panel \in [Subs -> Client]
    /\ traffic \in [Subs -> Nat]
    /\ now \in 0..MaxTime
    /\ task \in [Tasks -> Session]
    /\ sweep \in [Subs -> Session]
    /\ lock \in Tasks \cup {NoTask}
    /\ offered \subseteq Subs
    /\ renewals \in [Subs -> Nat]
    /\ unpaid \in [Subs -> Nat]
    /\ refunds \in [Subs -> [asked : Nat, skipped : Nat]]
    /\ doubt \in [Subs -> BOOLEAN]
    /\ clicks \in 0..MaxClicks
    /\ crashes \in 0..MaxCrashes

(* However many clicks on "cancel and refund" pass the check of the status *)
(* together, and whatever answers of the panel are lost, at most one of    *)
(* the refunds that delete the client first is paid: the second deletion   *)
(* is refused.  (A server that is off is not asked: see the README.)       *)
OneRefundPerDeletion == \A s \in Subs : refunds[s].asked <= 1

(* A subscription that was refunded after its client was deleted never has *)
(* a client on the panel again, whatever renewals, switches and sweeps     *)
(* were under way with the old row.                                        *)
RefundedHasNoClient == \A s \in Subs : refunds[s].asked > 0 => ~panel[s].here

(* The uuid that the database stores, and the links shown to the customer  *)
(* carry, is the one the panel serves, through resets of the link racing   *)
(* each other, renewals and sweeps; but for a reset whose answer or commit *)
(* was lost, and one between its panel call and its commit.                *)
Resetting(s) == \E t \in Tasks : task[t].op = "reset" /\ task[t].pc = "save" /\ task[t].sub = s

IdAgrees ==
    \A s \in Subs : panel[s].here /\ ~doubt[s] /\ ~Resetting(s) => panel[s].id = db[s].id

(* Neither the row nor the panel ever grants more volume than the plan's   *)
(* and what debited renewals have added, stale rows and refused debits     *)
(* included; but for a renewal that a restart took back.                   *)
Debited(s) == IF \E t \in Tasks : lock = t /\ task[t].op = "volume" /\ task[t].sub = s THEN 1 ELSE 0

NoFreeVolume ==
    \A s \in Subs :
        /\ db[s].vol <= Base + renewals[s]
        /\ ~doubt[s] => panel[s].limit <= Base + renewals[s] + Debited(s)

(* A subscription that its customer can still use in the bot has the row   *)
(* of its server, even when it was switched off and so did not count as an *)
(* active client of the server an administrator deleted.                   *)
LiveKeepsServer == \A s \in Subs : Live(db[s]) => server[Home] # "absent"

UsedUp(s) ==
    \/ panel[s].here /\ traffic[s] >= db[s].vol
    \/ db[s].ends # 0 /\ now >= db[s].ends

(* A subscription that is used up, in volume or time, stops being live or  *)
(* is renewed, unless its server goes off, although customers' sessions    *)
(* with older rows write over the sweep's.  In time also when its client   *)
(* has gone from the panel and every answer about it is empty.             *)
UsedUpExpires ==
    \A s \in Subs : (Live(db[s]) /\ UsedUp(s) /\ HomeUp) ~> (~Live(db[s]) \/ ~UsedUp(s) \/ ~HomeUp)

(* A live subscription whose client has gone from the panel, by a deletion *)
(* whose answer or commit was lost, is noticed, if the panel now and then  *)
(* says that it has no such client: an empty answer is a count of zero,    *)
(* and a panel that gives only those keeps the subscription live.          *)
GoneIsNoticed ==
    \A s \in Subs :
        SF_vars(GoneTold(s))
        => ((Live(db[s]) /\ ~panel[s].here /\ HomeUp) ~> (~Live(db[s]) \/ ~HomeUp))

(* What delete_server tells the administrator of a server it archives: its *)
(* active customers' subscriptions expire in time.  The sweep leaves out   *)
(* every server that is not active.                                        *)
ArchivedExpire ==
    \A s \in Subs : (Live(db[s]) /\ UsedUp(s) /\ server[Home] = "deleted")
                    ~> (~Live(db[s]) \/ ~UsedUp(s))
=============================================================================
