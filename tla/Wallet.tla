------------------------------- MODULE Wallet -------------------------------
(***************************************************************************)
(* services/wallet/manager.py over PostgreSQL, for one wallet row.         *)
(*                                                                         *)
(* A session is one AsyncSession: a webhook request or a Telegram update,  *)
(* each its own database transaction (READ COMMITTED) and its own          *)
(* identity map.  Webhook sessions reach the wallet row for the first      *)
(* time through SELECT ... FOR UPDATE.  Bot sessions have loaded it        *)
(* before, with the user (UserAccessMiddleware): the locking SELECT then   *)
(* waits for the row and returns the object the identity map already       *)
(* holds, with the values it had when it was first loaded.                 *)
(*                                                                         *)
(* Rows posted by a session are private until its commit; the row lock     *)
(* lasts from the first granted SELECT ... FOR UPDATE to the end of the    *)
(* transaction, or to the rollback of the savepoint that took it.          *)
(***************************************************************************)
EXTENDS Integers, Sequences, FiniteSets

CONSTANTS
    Sessions,         \* webhook requests and Telegram updates in flight
    Preloading,       \* the sessions that load user.wallet before using it
    Amounts,          \* what a caller may ask for: a set of positive numbers
    InitialBalance,   \* the balance in the first state
    CreditLimit,      \* wallets.credit_limit
    MaxRows,          \* bound: rows the ledger may reach
    MaxOps,           \* bound: process_transaction calls of one session
    NoSession,        \* the row lock is free
    NotLoaded         \* the wallet is not in the identity map

ASSUME SessionsAssumption ==
    /\ Preloading \subseteq Sessions
    /\ NoSession \notin Sessions
ASSUME MoneyAssumption ==
    /\ Amounts \subseteq Nat \ {0}
    /\ CreditLimit \in Nat
    /\ InitialBalance \in Int
    /\ InitialBalance >= -CreditLimit
    /\ NotLoaded \notin Int
ASSUME BoundsAssumption == MaxRows \in Nat /\ MaxOps \in Nat

VARIABLES
    balance,   \* committed wallets.balance
    ledger,    \* committed wallet_transactions, in commit order
    holder,    \* the session that holds the row lock, or NoSession
    open,      \* the sessions inside a handler
    call,      \* the process_transaction call a session waits in, or NoCall
    cached,    \* wallet.balance in the session's identity map
    seen,      \* history: how many rows that value reflects
    staged     \* the rows the session has flushed and not committed

vars == <<balance, ledger, holder, open, call, cached, seen, staged>>

Directions == {"credit", "debit"}
Calls == [direction : Directions, amount : Amounts]
NoCall == [direction |-> "none", amount |-> 0]

\* wallet_transactions; by and seen are history, read by properties only.
Rows == [by : Sessions, direction : Directions, amount : Amounts,
         before : Int, after : Int, seen : Nat]

\* The balance the first i rows of a ledger leave behind.
After(led, i) == IF i = 0 THEN InitialBalance ELSE led[i].after

\* The ledger as session s would leave it if it committed now.
View(s) == ledger \o staged[s]

-----------------------------------------------------------------------------
Init ==
    /\ balance = InitialBalance
    /\ ledger = << >>
    /\ holder = NoSession
    /\ open = {}
    /\ call = [s \in Sessions |-> NoCall]
    /\ cached = [s \in Sessions |-> NotLoaded]
    /\ seen = [s \in Sessions |-> 0]
    /\ staged = [s \in Sessions |-> << >>]

\* The middleware or the dependency opens a session; a preloading session
\* reads the committed wallet, without a lock, before its handler runs.
Open(s) ==
    /\ s \notin open
    /\ Len(ledger) < MaxRows
    /\ open' = open \cup {s}
    /\ IF s \in Preloading
       THEN /\ cached' = [cached EXCEPT ![s] = balance]
            /\ seen' = [seen EXCEPT ![s] = Len(ledger)]
       ELSE UNCHANGED <<cached, seen>>
    /\ UNCHANGED <<balance, ledger, holder, call, staged>>

\* The one session that does not preload is the payment webhook, and the
\* first thing it posts is the deposit (process_successful_payment).
MayCall(s, c) ==
    s \in Preloading \/ staged[s] # << >> \/ c.direction = "credit"

\* The handler calls process_transaction.  An amount that is not positive or
\* an unknown direction raises before anything is read: no step.
Call(s) ==
    /\ s \in open
    /\ call[s] = NoCall
    /\ Len(staged[s]) < MaxOps
    /\ Len(View(s)) < MaxRows
    /\ \E c \in Calls :
          /\ MayCall(s, c)
          /\ call' = [call EXCEPT ![s] = c]
    /\ UNCHANGED <<balance, ledger, holder, open, cached, seen, staged>>

\* Seeded fault: get_by_user_id, without FOR UPDATE.
LockFree_NoLock(s) == TRUE

\* SELECT ... FOR UPDATE returns once nobody else holds the row.
LockFree(s) == holder \in {NoSession, s}

\* Seeded fault: the balance is read through another session.
BalanceBefore_Row(s) == balance

\* wallet.balance as the handler sees it then: the identity map wins over
\* the row the SELECT returned (no populate_existing).
BalanceBefore(s) == IF cached[s] = NotLoaded THEN balance ELSE cached[s]
SeenBefore(s) == IF cached[s] = NotLoaded THEN Len(ledger) ELSE seen[s]

BalanceAfter(s) ==
    IF call[s].direction = "credit"
    THEN BalanceBefore(s) + call[s].amount
    ELSE BalanceBefore(s) - call[s].amount

\* Seeded faults: the limit is compared with the wrong balance; no limit.
Affordable_Before(s) ==
    call[s].direction = "debit" => BalanceBefore(s) >= -CreditLimit
Affordable_Always(s) == TRUE

\* For debits the balance may not go below -credit_limit.
Affordable(s) ==
    call[s].direction = "debit" => BalanceAfter(s) >= -CreditLimit

\* Seeded fault: debits recorded with a signed amount.
NewRow_Signed(s) ==
    [by |-> s, direction |-> call[s].direction, amount |-> BalanceAfter(s) - BalanceBefore(s),
     before |-> BalanceBefore(s), after |-> BalanceAfter(s),
     seen |-> SeenBefore(s)]

NewRow(s) ==
    [by |-> s, direction |-> call[s].direction, amount |-> call[s].amount,
     before |-> BalanceBefore(s), after |-> BalanceAfter(s),
     seen |-> SeenBefore(s)]

\* The rest of process_transaction, inside one savepoint: lock, read,
\* check, UPDATE, INSERT.
Apply(s) ==
    /\ call[s] # NoCall
    /\ LockFree(s)
    /\ Affordable(s)
    /\ holder' = s
    /\ cached' = [cached EXCEPT ![s] = BalanceAfter(s)]
    /\ seen' = [seen EXCEPT ![s] = Len(View(s)) + 1]
    /\ staged' = [staged EXCEPT ![s] = Append(@, NewRow(s))]
    /\ call' = [call EXCEPT ![s] = NoCall]
    /\ UNCHANGED <<balance, ledger, open>>

\* InsufficientBalanceError rolls the savepoint back, and with it the lock
\* if this savepoint took it; the wallet it loaded stays in the identity
\* map.  The session goes on: callers catch the error or the bot's error
\* middleware does.
Refuse(s) ==
    /\ call[s] # NoCall
    /\ LockFree(s)
    /\ ~Affordable(s)
    /\ holder' = IF staged[s] = << >> THEN NoSession ELSE s
    /\ cached' = [cached EXCEPT ![s] = BalanceBefore(s)]
    /\ seen' = [seen EXCEPT ![s] = SeenBefore(s)]
    /\ call' = [call EXCEPT ![s] = NoCall]
    /\ UNCHANGED <<balance, ledger, open, staged>>

Close(s) ==
    /\ open' = open \ {s}
    /\ call' = [call EXCEPT ![s] = NoCall]
    /\ cached' = [cached EXCEPT ![s] = NotLoaded]
    /\ seen' = [seen EXCEPT ![s] = 0]
    /\ staged' = [staged EXCEPT ![s] = << >>]
    /\ holder' = IF holder = s THEN NoSession ELSE holder

\* session.commit() when the handler returns.
Commit(s) ==
    /\ s \in open
    /\ call[s] = NoCall
    /\ ledger' = View(s)
    /\ balance' = IF staged[s] = << >> THEN balance ELSE cached[s]
    /\ Close(s)

\* Seeded fault: ledger rows are written outside the session's transaction.
Rollback_KeepsRows(s) ==
    /\ s \in open
    /\ ledger' = View(s)
    /\ UNCHANGED balance
    /\ Close(s)

\* session.rollback() after an exception, or the connection or the process
\* is lost; a waiting session gives up its place.
Rollback(s) ==
    /\ s \in open
    /\ UNCHANGED <<balance, ledger>>
    /\ Close(s)

Next ==
    \E s \in Sessions :
        \/ Open(s)
        \/ Call(s)
        \/ Apply(s)
        \/ Refuse(s)
        \/ Commit(s)
        \/ Rollback(s)

Spec == Init /\ [][Next]_vars

-----------------------------------------------------------------------------
TypeOK ==
    /\ balance \in Int
    /\ ledger \in Seq(Rows)
    /\ holder \in Sessions \cup {NoSession}
    /\ open \subseteq Sessions
    /\ call \in [Sessions -> Calls \cup {NoCall}]
    /\ cached \in [Sessions -> Int \cup {NotLoaded}]
    /\ seen \in [Sessions -> Nat]
    /\ staged \in [Sessions -> Seq(Rows)]

\* Row i of led starts from a balance the ledger did have: the one its
\* session read, at most as old as the session.
FromSnapshot(led, i) ==
    /\ led[i].seen < i
    /\ led[i].before = After(led, led[i].seen)

\* Even when a stale read loses an update, every row in the ledger says
\* truthfully which balance it started from: the one a prefix of the ledger
\* left, never a mixture and never an uncommitted one
\* (process_transaction's balance_before).
SnapshotReads == \A i \in 1..Len(ledger) : FromSnapshot(ledger, i)

\* Row i starts from what row i-1 left.
Chained(led, i) == led[i].before = After(led, i - 1)

\* A row of a session that had not loaded the wallet beforehand starts from
\* what the row before it left, whatever the other sessions do: the row
\* lock is enough for webhooks (get_by_user_id_for_update).
FreshRowsChain ==
    \A i \in 1..Len(ledger) : ledger[i].by \notin Preloading => Chained(ledger, i)

\* "Lock the wallet row to prevent concurrent balance races": no row is
\* written over an update it did not see.
LedgerChain == \A i \in 1..Len(ledger) : Chained(ledger, i)

\* wallets.balance and the ledger never disagree on the last balance, even
\* across rollbacks and stale reads.
BalanceIsLastRow == balance = After(ledger, Len(ledger))

\* No interleaving takes a wallet below its credit limit, stale reads
\* included: neither the balance nor any balance a row records.
CreditFloor ==
    /\ balance >= -CreditLimit
    /\ \A i \in 1..Len(ledger) : ledger[i].after >= -CreditLimit

\* At most one session has written to the wallet and not ended: the one
\* that holds the row lock.
OneWriter == \A s \in Sessions : staged[s] # << >> => holder = s

-----------------------------------------------------------------------------
\* The atomic ledger this refines when no session loads the wallet early.
Ledger == INSTANCE WalletLedger WITH rows <- ledger
LedgerSpec == Ledger!LedgerSpec

\* Two sessions post in any interleaving: each step of the detailed system
\* is a step of the atomic ledger or leaves it alone.
ImplementsLedger == LedgerSpec
=============================================================================
