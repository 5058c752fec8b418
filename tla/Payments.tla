------------------------------ MODULE Payments ------------------------------
(***************************************************************************)
(* One row of the payments table, from the invoice to the credit:          *)
(*   - the bot handler that opens an invoice and stores the row            *)
(*     (topup.py, purchase.py);                                            *)
(*   - the NOWPayments webhook (apps/api/routes/webhooks/nowpayments.py),  *)
(*     which credits the wallet and, for a direct purchase, orders,        *)
(*     debits and provisions (services/payment.py);                        *)
(*   - the worker's polling job (apps/worker/jobs/payments.py);            *)
(*   - NOWPayments itself (external): it moves the payment along, sends an *)
(*     IPN for every status and repeats it until it is answered with 200.  *)
(*     The webhook only logs a signature that is missing or wrong: it      *)
(*     handles a request of anybody else alike.                            *)
(*                                                                         *)
(* A webhook request is one database transaction.  What it stages (the     *)
(* deposit, an order with its debit and refund, the row's new columns) is  *)
(* private until its commit; what it does on the X-UI panel is not.        *)
(***************************************************************************)
EXTENDS Naturals, Sequences, FiniteSets

CONSTANTS
    Webhooks,        \* requests that the API can be serving at one time
    NoWebhook,       \* nobody holds the payment's row lock
    MaxCrashes,      \* bound: requests that die before they commit
    MaxExtra,        \* bound: IPNs repeated early or although answered, and
                     \* requests that NOWPayments did not send
    MaxPanel         \* bound: clients added on the panel for this payment

ASSUME WebhooksAssumption == NoWebhook \notin Webhooks
ASSUME BoundsAssumption ==
    MaxCrashes \in Nat /\ MaxExtra \in Nat /\ MaxPanel \in Nat

VARIABLES
    kind,        \* payments.kind
    replyFirst,  \* FastAPI runs get_db_session's commit after the response
    nameTaken,   \* config_name is a username of xui_clients by now
    stored,      \* the row: "invoiced" (not committed), "stored" or "lost"
    payment,     \* the committed columns [status, paid, known]
    deposits,    \* committed wallet deposits that refer to this payment
    unverified,  \* those of them that NOWPayments did not ask for
    orders,      \* committed orders of this payment, with their money
    panel,       \* clients that this payment created on the X-UI panel
    rowLock,     \* the request whose UPDATE of the row is not committed
    hook,        \* each webhook request
    job,         \* the polling job
    remote,      \* status at NOWPayments
    unanswered,  \* IPNs that NOWPayments goes on sending
    answered,    \* IPNs that were answered with 200
    crashes, extra   \* bound counters

rowVars == <<payment, deposits, unverified, orders>>
envVars == <<kind, replyFirst, nameTaken>>
netVars == <<remote, unanswered, answered, extra>>
vars == <<envVars, stored, rowVars, panel, rowLock, hook, job, netVars, crashes>>

Pending == {"waiting", "confirming"}
Final == {"confirmed", "finished"}
Statuses == Pending \cup Final \cup {"expired"}

\* [status, paid, known]: payment_status, actually_paid is not NULL,
\* provider_payment_id is not NULL.
Payment == [status : Statuses, paid : BOOLEAN, known : BOOLEAN]

\* An order and what the ledger holds for it.
OrderStatuses == {"processing", "provisioned", "refunded"}
Order == [status : OrderStatuses, debited : BOOLEAN, refunded : BOOLEAN,
          subscribed : BOOLEAN]

\* A request: where it is, the status it brought, whether NOWPayments sent it,
\* the row as it loaded it, what it has staged, and whether a failed flush left
\* the session unusable.
Idle == [pc |-> "idle", msg |-> "waiting", own |-> TRUE,
         snap |-> [status |-> "waiting", paid |-> FALSE, known |-> FALSE],
         deposit |-> FALSE, order |-> << >>, broken |-> FALSE]
Hook == [pc : {"idle", "credit", "order", "provision", "reply", "commit"},
         msg : Statuses, own : BOOLEAN, snap : Payment, deposit : BOOLEAN,
         order : {<< >>} \cup {<<o>> : o \in Order}, broken : BOOLEAN]

JobIdle == [pc |-> "idle", status |-> "waiting", answer |-> "waiting"]
Job == [pc : {"idle", "asking", "saving"}, status : Statuses, answer : Statuses]

-----------------------------------------------------------------------------
Init ==
    /\ kind \in {"wallet_topup", "direct_purchase"}
    /\ replyFirst \in BOOLEAN
    /\ nameTaken = FALSE
    /\ stored = "invoiced"
    /\ payment = [status |-> "waiting", paid |-> FALSE, known |-> FALSE]
    /\ deposits = 0
    /\ unverified = 0
    /\ orders = << >>
    /\ panel = 0
    /\ rowLock = NoWebhook
    /\ hook = [w \in Webhooks |-> Idle]
    /\ job = JobIdle
    /\ remote = "waiting"
    /\ unanswered = {}
    /\ answered = {}
    /\ crashes = 0
    /\ extra = 0

-----------------------------------------------------------------------------
(* The bot handler: the invoice exists and its link has been sent; the     *)
(* payment is committed only when the handler has returned.                *)

StorePayment ==
    /\ stored = "invoiced"
    /\ stored' = "stored"
    /\ UNCHANGED <<envVars, rowVars, panel, rowLock, hook, job, netVars, crashes>>

LosePayment ==
    /\ stored = "invoiced"
    /\ crashes < MaxCrashes
    /\ stored' = "lost"
    /\ crashes' = crashes + 1
    /\ UNCHANGED <<envVars, rowVars, panel, rowLock, hook, job, netVars>>

-----------------------------------------------------------------------------
(* NOWPayments (external).                                                 *)

Successors ==
    [waiting |-> {"confirming", "expired"}, confirming |-> {"confirmed"},
     confirmed |-> {"finished"}, finished |-> {}, expired |-> {}]

RemoteMove ==
    /\ \E next \in Successors[remote] :
          /\ remote' = next
          /\ unanswered' = unanswered \cup {next}
    /\ UNCHANGED <<envVars, stored, rowVars, panel, rowLock, hook, job, answered,
                   extra, crashes>>

\* Between the invoice and the webhook somebody else takes the name.
TakeName ==
    /\ ~nameTaken
    /\ deposits = 0
    /\ nameTaken' = TRUE
    /\ UNCHANGED <<kind, replyFirst, stored, rowVars, panel, rowLock, hook, job,
                   netVars, crashes>>

-----------------------------------------------------------------------------
(* The webhook.                                                            *)

\* Seeded faults: no idempotency guard; any IPN credits.
MustCredit_Again(m, row) == m \in Final
MustCredit_AnyStatus(m, row) == ~row.paid

\* The two idempotency guards: actually_paid as this request loaded it.
MustCredit(m, row) == m \in Final /\ ~row.paid

\* Find the row (by provider_payment_id or order_id), set the status in
\* memory, and decide.  Without a row: 404, and the IPN comes again.
Receive(w, m, own) ==
    /\ hook[w].pc = "idle"
    /\ hook' = IF stored # "stored" THEN hook
               ELSE [hook EXCEPT ![w] =
                       [Idle EXCEPT !.msg = m, !.own = own, !.snap = payment,
                           !.pc = IF MustCredit(m, payment) THEN "credit" ELSE "reply"]]
    /\ UNCHANGED <<envVars, stored, rowVars, panel, rowLock, job, remote,
                   unanswered, answered, crashes>>

\* NOWPayments sends an IPN that was not answered, or repeats one.
Retry(w, m) ==
    /\ m \in unanswered
    /\ Receive(w, m, TRUE)
    /\ UNCHANGED extra

Duplicate(w, m) ==
    /\ m \in answered \cup unanswered
    /\ extra < MaxExtra
    /\ extra' = extra + 1
    /\ Receive(w, m, TRUE)

\* A request that NOWPayments did not send, with any status: its signature is
\* checked, the failure is logged, and it is handled like the others.
Unverified(w, m) ==
    /\ extra < MaxExtra
    /\ extra' = extra + 1
    /\ Receive(w, m, FALSE)

\* process_successful_payment: actually_paid is set, the savepoint flushes
\* the row (and so locks it), the wallet is credited.
Credit(w) ==
    /\ hook[w].pc = "credit"
    /\ rowLock = NoWebhook
    /\ rowLock' = w
    /\ hook' = [hook EXCEPT ![w].deposit = TRUE,
                            ![w].pc = IF kind = "direct_purchase" THEN "order" ELSE "reply"]
    /\ UNCHANGED <<envVars, stored, rowVars, panel, job, netVars, crashes>>

NewOrder(debited) ==
    [status |-> "processing", debited |-> debited, refunded |-> FALSE, subscribed |-> FALSE]

\* _handle_direct_purchase up to the debit: it is debited; or the plan is gone
\* and no order is made; or the plan costs more by now than was paid, and the
\* InsufficientBalanceError is swallowed, which leaves the order behind.
PlaceOrder(w) ==
    /\ hook[w].pc = "order"
    /\ \/ hook' = [hook EXCEPT ![w].pc = "reply"]
       \/ hook' = [hook EXCEPT ![w].pc = "reply", ![w].order = <<NewOrder(FALSE)>>]
       \/ hook' = [hook EXCEPT ![w].pc = "provision", ![w].order = <<NewOrder(TRUE)>>]
    /\ UNCHANGED <<envVars, stored, rowVars, panel, rowLock, job, netVars, crashes>>

\* Seeded faults: a status no reader of orders knows; the order is marked
\* refunded and the refund is not posted.
Refunded_Unknown(o) == [o EXCEPT !.status = "failed", !.refunded = TRUE]
Refunded_NoMoney(o) == [o EXCEPT !.status = "refunded"]

Refunded(o) == [o EXCEPT !.status = "refunded", !.refunded = TRUE]
Provisioned(o) == [o EXCEPT !.status = "provisioned", !.subscribed = TRUE]

\* ProvisioningError: the plan, inbound or server is inactive, or the server
\* is full.  The debit is refunded.
ProvisionRefused(w) ==
    /\ hook[w].pc = "provision"
    /\ hook' = [hook EXCEPT ![w].pc = "reply", ![w].order = <<Refunded(@[1])>>]
    /\ UNCHANGED <<envVars, stored, rowVars, panel, rowLock, job, netVars, crashes>>

\* XUIRequestError is no ProvisioningError: process_successful_payment logs
\* it and goes on.  The panel may have added the client all the same.
ProvisionFails(w) ==
    /\ hook[w].pc = "provision"
    /\ panel' \in {panel, panel + 1}
    /\ panel' <= MaxPanel
    /\ hook' = [hook EXCEPT ![w].pc = "reply"]
    /\ UNCHANGED <<envVars, stored, rowVars, rowLock, job, netVars, crashes>>

\* Seeded fault: an error of the panel is ignored.
Provision_Blindly(w) ==
    /\ hook[w].pc = "provision"
    /\ panel' \in {panel, panel + 1}
    /\ panel' <= MaxPanel
    /\ hook' = [hook EXCEPT ![w].pc = "reply",
                            ![w].broken = nameTaken,
                            ![w].order = <<Provisioned(@[1])>>]
    /\ UNCHANGED <<envVars, stored, rowVars, rowLock, job, netVars, crashes>>

\* The panel adds the client, the subscription and its xui_clients row are
\* flushed.  A name that is taken breaks the flush (unique username): the
\* exception is swallowed, the session can only be rolled back.
Provision(w) ==
    /\ hook[w].pc = "provision"
    /\ panel < MaxPanel
    /\ panel' = panel + 1
    /\ hook' = [hook EXCEPT ![w].pc = "reply",
                            ![w].broken = nameTaken,
                            ![w].order = <<Provisioned(@[1])>>]
    /\ UNCHANGED <<envVars, stored, rowVars, rowLock, job, netVars, crashes>>

\* The IPN that a 200 of this request answers.
IpnOf(h) == IF h.own THEN {h.msg} ELSE {}

Answer(h) ==
    /\ unanswered' = unanswered \ IpnOf(h)
    /\ answered' = answered \cup IpnOf(h)

\* The handler returns; with a newer FastAPI the response leaves now.
Reply(w) ==
    /\ hook[w].pc = "reply"
    /\ hook' = [hook EXCEPT ![w].pc = "commit"]
    /\ IF replyFirst THEN Answer(hook[w]) ELSE UNCHANGED <<unanswered, answered>>
    /\ UNCHANGED <<envVars, stored, rowVars, panel, rowLock, job, remote, extra, crashes>>

End(w) ==
    /\ hook' = [hook EXCEPT ![w] = Idle]
    /\ rowLock' = IF rowLock = w THEN NoWebhook ELSE rowLock

\* Seeded fault: actually_paid is never written.
Updated_Unpaid(h) ==
    [status |-> IF h.msg # h.snap.status THEN h.msg ELSE payment.status,
     paid |-> payment.paid, known |-> TRUE]

\* The row after this request's UPDATE: only columns that differ from what
\* it loaded are written.
Updated(h) ==
    [status |-> IF h.msg # h.snap.status THEN h.msg ELSE payment.status,
     paid |-> payment.paid \/ h.deposit,
     known |-> TRUE]

\* session.commit(); the response follows, and may be lost.
Commit(w) ==
    /\ hook[w].pc = "commit"
    /\ ~hook[w].broken
    /\ rowLock \in {NoWebhook, w}
    /\ payment' = Updated(hook[w])
    /\ deposits' = IF hook[w].deposit THEN deposits + 1 ELSE deposits
    /\ unverified' = IF hook[w].deposit /\ ~hook[w].own THEN unverified + 1 ELSE unverified
    /\ orders' = orders \o hook[w].order
    /\ \/ Answer(hook[w])
       \/ UNCHANGED <<unanswered, answered>>
    /\ End(w)
    /\ UNCHANGED <<envVars, stored, panel, job, remote, extra, crashes>>

\* PendingRollbackError in the commit: everything the request did in the
\* database is undone, the deposit included.
CommitFails(w) ==
    /\ hook[w].pc = "commit"
    /\ hook[w].broken
    /\ End(w)
    /\ UNCHANGED <<envVars, stored, rowVars, panel, job, netVars, crashes>>

\* Seeded fault: a request that fails is answered with 200 all the same.
Crash_Answered(w) ==
    /\ hook[w].pc # "idle"
    /\ crashes < MaxCrashes
    /\ crashes' = crashes + 1
    /\ Answer(hook[w])
    /\ End(w)
    /\ UNCHANGED <<envVars, stored, rowVars, panel, job, remote, extra>>

\* The process or its connection is lost before the commit.
Crash(w) ==
    /\ hook[w].pc # "idle"
    /\ crashes < MaxCrashes
    /\ crashes' = crashes + 1
    /\ End(w)
    /\ UNCHANGED <<envVars, stored, rowVars, panel, job, netVars>>

-----------------------------------------------------------------------------
(* The worker's sync_pending_payments, one run at a time.                  *)

\* Only rows with a pending status and a provider_payment_id are asked for.
JobLoad ==
    /\ job.pc = "idle"
    /\ stored = "stored"
    /\ payment.status \in Pending
    /\ payment.known
    /\ job' = [job EXCEPT !.pc = "asking", !.status = payment.status]
    /\ UNCHANGED <<envVars, stored, rowVars, panel, rowLock, hook, netVars, crashes>>

\* get_payment_status, or NowPaymentsRequestError.  With a final status the
\* call of process_successful_payment lacks its bot argument: TypeError,
\* caught, nothing of it runs.
JobAsk ==
    /\ job.pc = "asking"
    /\ \E answer \in {remote, job.status} :
          job' = [job EXCEPT !.pc = "saving", !.answer = answer]
    /\ UNCHANGED <<envVars, stored, rowVars, panel, rowLock, hook, netVars, crashes>>

JobSave ==
    /\ job.pc = "saving"
    /\ rowLock = NoWebhook
    /\ payment' = IF job.answer = job.status THEN payment
                  ELSE [payment EXCEPT !.status = job.answer]
    /\ job' = JobIdle
    /\ UNCHANGED <<envVars, stored, deposits, unverified, orders, panel, rowLock, hook, netVars, crashes>>

-----------------------------------------------------------------------------
HookStep(w) ==
    \/ Credit(w)
    \/ PlaceOrder(w)
    \/ ProvisionRefused(w)
    \/ ProvisionFails(w)
    \/ Provision(w)
    \/ Reply(w)
    \/ Commit(w)
    \/ CommitFails(w)

Next ==
    \/ StorePayment
    \/ LosePayment
    \/ RemoteMove
    \/ TakeName
    \/ \E w \in Webhooks :
          \/ \E m \in Statuses : Retry(w, m) \/ Duplicate(w, m) \/ Unverified(w, m)
          \/ HookStep(w)
          \/ Crash(w)
    \/ JobLoad
    \/ JobAsk
    \/ JobSave

\* A request that is running goes on (asyncio runs every ready task, the
\* HTTP clients have timeouts); NOWPayments goes on sending an IPN that is
\* not answered; a bot handler returns.
Fairness ==
    /\ WF_vars(StorePayment)
    /\ \A w \in Webhooks : WF_vars(HookStep(w))
    /\ \A m \in Statuses : SF_vars(\E w \in Webhooks : Retry(w, m))

Spec == Init /\ [][Next]_vars /\ Fairness

-----------------------------------------------------------------------------
TypeOK ==
    /\ kind \in {"wallet_topup", "direct_purchase"}
    /\ replyFirst \in BOOLEAN
    /\ nameTaken \in BOOLEAN
    /\ stored \in {"invoiced", "stored", "lost"}
    /\ payment \in Payment
    /\ deposits \in Nat
    /\ unverified \in Nat
    /\ orders \in Seq(Order)
    /\ panel \in Nat
    /\ rowLock \in Webhooks \cup {NoWebhook}
    /\ hook \in [Webhooks -> Hook]
    /\ job \in Job
    /\ remote \in Statuses
    /\ unanswered \subseteq Statuses
    /\ answered \subseteq Statuses
    /\ crashes \in Nat
    /\ extra \in Nat

\* However often NOWPayments repeats an IPN, and whatever crashes or
\* reordering there is, a payment is deposited at most once
\* (the actually_paid guards).
CreditedOnce == deposits <= 1

\* actually_paid and the ledger tell the same story after any crash,
\* failed commit or late write of the polling job.
PaidMeansDeposited == payment.paid <=> deposits > 0

\* A deposit of a payment that NOWPayments has not confirmed is always one that
\* a request without a valid signature asked for: the IPNs of NOWPayments, in
\* any order, early, late or repeated, next to such requests or after them,
\* credit nothing too early.  That the webhook takes those requests at all is
\* nowpayments.py:32-45 ("processing anyway").
CreditedWhenConfirmed == deposits > unverified => remote \in Final

\* There is no order without the deposit of the same payment; what an order
\* says of itself is what happened to its money: nothing is delivered or
\* given back that was not debited, nor both, whatever failed on the way.
OrdersArePaidFor ==
    /\ Len(orders) <= deposits
    /\ \A i \in DOMAIN orders :
          /\ orders[i].refunded <=> orders[i].status = "refunded"
          /\ orders[i].subscribed <=> orders[i].status = "provisioned"
          /\ orders[i].status # "processing" => orders[i].debited

\* A subscription that the database knows has its client on the panel: the
\* panel is called first, and no crash takes it back.
SubscribedIsOnPanel ==
    Cardinality({i \in DOMAIN orders : orders[i].subscribed}) <= panel

\* A payment that NOWPayments confirmed ends in the wallet, through lost
\* responses, crashes and reordered or repeated IPNs, as long as the config
\* name stays free and the response is sent after the commit.
ConfirmedIsCredited ==
    (~replyFirst /\ []~nameTaken) =>
        ((stored = "stored" /\ remote \in Final) ~> (deposits > 0))

\* What services/payment.py says when provisioning fails: "wallet was
\* already credited, user can buy manually".  So an order that gave the user
\* nothing must not keep the money.
FailedOrderKeepsNoMoney ==
    \A i \in DOMAIN orders :
        orders[i].debited => orders[i].subscribed \/ orders[i].refunded

\* Whoever stores a final status for the first time credits the payment with
\* it: the webhook and, by its own call of process_successful_payment, the
\* polling job.
FinalIsCredited ==
    [][payment.status \notin Final /\ payment'.status \in Final => payment'.paid]_vars
=============================================================================
