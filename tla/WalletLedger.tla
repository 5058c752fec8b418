---------------------------- MODULE WalletLedger ----------------------------
(***************************************************************************)
(* What WalletManager.process_transaction promises to its callers: "        *)
(* atomically update a wallet balance and append a ledger transaction".    *)
(* One wallet, seen from outside: a database transaction that ends well    *)
(* posts a batch of rows in one step, every row starts from the balance    *)
(* the row before it left, no debit takes the balance below the credit     *)
(* limit, and nothing that was posted is ever rewritten.                   *)
(***************************************************************************)
EXTENDS Integers, Sequences

CONSTANTS
    Amounts,          \* the amounts a caller may post
    InitialBalance,   \* the balance before the first row
    CreditLimit       \* wallets.credit_limit

VARIABLES
    balance,          \* the committed wallets.balance
    rows              \* the committed wallet_transactions, oldest first

ledgerVars == <<balance, rows>>

\* The balance a prefix of the ledger leaves behind.
Left(led, i) == IF i = 0 THEN InitialBalance ELSE led[i].after

\* Row i of led is one atomic transaction on what row i-1 left.
Atomic(led, i) ==
    /\ led[i].amount \in Amounts
    /\ led[i].before = Left(led, i - 1)
    /\ \/ /\ led[i].direction = "credit"
          /\ led[i].after = led[i].before + led[i].amount
       \/ /\ led[i].direction = "debit"
          /\ led[i].after = led[i].before - led[i].amount
          /\ led[i].after >= -CreditLimit

LedgerInit ==
    /\ balance = InitialBalance
    /\ rows = << >>

\* Post a batch: the old rows stay, each new row is atomic, the balance is
\* the one the last row left.
Post ==
    /\ Len(rows') > Len(rows)
    /\ \A i \in 1..Len(rows) : rows'[i] = rows[i]
    /\ \A i \in (Len(rows) + 1)..Len(rows') : Atomic(rows', i)
    /\ balance' = Left(rows', Len(rows'))

LedgerSpec == LedgerInit /\ [][Post]_ledgerVars
=============================================================================
