---------------------------- MODULE WalletProofs ----------------------------
(***************************************************************************)
(* What Wallet guarantees for every set of sessions, every set of amounts, *)
(* every initial balance and credit limit, and every bound.                *)
(***************************************************************************)
EXTENDS Wallet, SequenceTheorems, TLAPS

-----------------------------------------------------------------------------
(* Sequences. *)

\* Posting one more row after a view of the ledger is a longer view.
LEMMA ViewAppend ==
    ASSUME NEW S, NEW a \in Seq(S), NEW b \in Seq(S), NEW r \in S
    PROVE  a \o Append(b, r) = Append(a \o b, r)
<1>1. a \o b \in Seq(S) /\ Append(b, r) \in Seq(S)
  BY ConcatProperties
<1>2. a \o Append(b, r) \in Seq(S) /\ Append(a \o b, r) \in Seq(S)
  BY <1>1, ConcatProperties
<1>3. Len(a \o Append(b, r)) = Len(Append(a \o b, r))
  BY <1>1, ConcatProperties
<1>4. ASSUME NEW i \in 1..Len(a \o Append(b, r))
      PROVE  (a \o Append(b, r))[i] = Append(a \o b, r)[i]
  <2>1. Len(a) \in Nat /\ Len(b) \in Nat /\ Len(Append(b, r)) = Len(b) + 1
    BY LenProperties
  <2>2. i \in 1..(Len(a) + (Len(b) + 1))
    BY <1>1, <2>1, ConcatProperties
  <2>3. (a \o Append(b, r))[i] = IF i <= Len(a) THEN a[i] ELSE Append(b, r)[i - Len(a)]
    BY <1>1, <2>1, <2>2, ConcatProperties
  <2>4. Len(a \o b) = Len(a) + Len(b)
    BY ConcatProperties
  <2>5. CASE i <= Len(a) + Len(b)
    <3>1. Append(a \o b, r)[i] = (a \o b)[i]
      BY <1>1, <2>1, <2>2, <2>4, <2>5
    <3>2. (a \o b)[i] = IF i <= Len(a) THEN a[i] ELSE b[i - Len(a)]
      BY <2>1, <2>2, <2>5, ConcatProperties
    <3>3. i > Len(a) => Append(b, r)[i - Len(a)] = b[i - Len(a)]
      BY <2>1, <2>2, <2>5
    <3> QED BY <2>1, <2>2, <2>3, <3>1, <3>2, <3>3
  <2>6. CASE i = Len(a) + Len(b) + 1
    BY <1>1, <2>1, <2>3, <2>4, <2>6
  <2> QED BY <2>1, <2>2, <2>5, <2>6
<1> QED BY <1>2, <1>3, <1>4, SeqEqual

\* Appending a row leaves the earlier ones where they were.
LEMMA AppendKeeps ==
    ASSUME NEW S, NEW q \in Seq(S), NEW r \in S
    PROVE  /\ Append(q, r) \in Seq(S)
           /\ Len(Append(q, r)) = Len(q) + 1
           /\ \A i \in 1..Len(q) : Append(q, r)[i] = q[i]
           /\ Append(q, r)[Len(q) + 1] = r
OBVIOUS

-----------------------------------------------------------------------------
(* Type correctness.  It is not inductive alone: a commit writes the       *)
(* identity map's balance, so that value must be a number by then.         *)

TypeInv ==
    /\ TypeOK
    /\ \A s \in Sessions : staged[s] # << >> => cached[s] \in Int

\* A granted call is one of Calls, and its row is well typed.
LEMMA RowTyped ==
    ASSUME TypeOK, NEW s \in Sessions, call[s] # NoCall
    PROVE  /\ BalanceBefore(s) \in Int
           /\ SeenBefore(s) \in Nat
           /\ BalanceAfter(s) \in Int
           /\ NewRow(s) \in Rows
<1>1. call[s].direction \in Directions /\ call[s].amount \in Amounts
  BY DEF TypeOK, Calls
<1>2. call[s].amount \in Nat
  BY <1>1, MoneyAssumption
<1>3. BalanceBefore(s) \in Int
  BY DEF TypeOK, BalanceBefore
<1>4. SeenBefore(s) \in Nat
  BY LenProperties DEF TypeOK, SeenBefore
<1>5. BalanceAfter(s) \in Int
  BY <1>2, <1>3 DEF BalanceAfter
<1> QED BY <1>1, <1>3, <1>4, <1>5 DEF NewRow, Rows

LEMMA ViewTyped ==
    ASSUME TypeOK, NEW s \in Sessions
    PROVE  View(s) \in Seq(Rows) /\ Len(View(s)) = Len(ledger) + Len(staged[s])
           /\ Len(View(s)) \in Nat
<1>1. ledger \in Seq(Rows) /\ staged[s] \in Seq(Rows)
  BY DEF TypeOK
<1> QED BY <1>1, ConcatProperties, LenProperties DEF View

LEMMA TypeStep == TypeInv /\ [Next]_vars => TypeInv'
<1> SUFFICES ASSUME TypeInv, [Next]_vars PROVE TypeInv'
  OBVIOUS
<1>0. TypeOK
  BY DEF TypeInv
<1>1. ASSUME NEW s \in Sessions, Open(s) PROVE TypeInv'
  <2>1. Len(ledger) \in Nat
    BY <1>0, LenProperties DEF TypeOK
  <2>2. cached' \in [Sessions -> Int \cup {NotLoaded}] /\ seen' \in [Sessions -> Nat]
    BY <1>0, <1>1, <2>1 DEF Open, TypeOK
  <2>3. \A t \in Sessions : staged'[t] # << >> => cached'[t] \in Int
    BY <1>0, <1>1 DEF Open, TypeOK, TypeInv
  <2> QED BY <1>0, <1>1, <2>2, <2>3 DEF Open, TypeOK, TypeInv
<1>2. ASSUME NEW s \in Sessions, Call(s) PROVE TypeInv'
  BY <1>0, <1>2 DEF Call, TypeOK, TypeInv
<1>3. ASSUME NEW s \in Sessions, Apply(s) PROVE TypeInv'
  <2>1. BalanceAfter(s) \in Int /\ NewRow(s) \in Rows
    BY <1>0, <1>3, RowTyped DEF Apply
  <2>2. Append(staged[s], NewRow(s)) \in Seq(Rows)
    BY <1>0, <2>1, AppendKeeps DEF TypeOK
  <2>3. Len(View(s)) + 1 \in Nat
    BY <1>0, ViewTyped
  <2>4. staged' \in [Sessions -> Seq(Rows)]
    BY <1>0, <1>3, <2>2 DEF Apply, TypeOK
  <2>5. cached' \in [Sessions -> Int \cup {NotLoaded}] /\ seen' \in [Sessions -> Nat]
    BY <1>0, <1>3, <2>1, <2>3 DEF Apply, TypeOK
  <2>6. call' \in [Sessions -> Calls \cup {NoCall}]
    BY <1>0, <1>3 DEF Apply, TypeOK
  <2>7. \A t \in Sessions : staged'[t] # << >> => cached'[t] \in Int
    BY <1>0, <1>3, <2>1 DEF Apply, TypeOK, TypeInv
  <2> QED BY <1>0, <1>3, <2>4, <2>5, <2>6, <2>7 DEF Apply, TypeOK, TypeInv
<1>4. ASSUME NEW s \in Sessions, Refuse(s) PROVE TypeInv'
  <2>1. BalanceBefore(s) \in Int /\ SeenBefore(s) \in Nat
    BY <1>0, <1>4, RowTyped DEF Refuse
  <2> QED BY <1>0, <1>4, <2>1 DEF Refuse, TypeOK, TypeInv
<1>5. ASSUME NEW s \in Sessions, Close(s), balance' \in Int, ledger' \in Seq(Rows)
      PROVE TypeInv'
  <2>1. staged' \in [Sessions -> Seq(Rows)]
    BY <1>0, <1>5, EmptySeq DEF Close, TypeOK
  <2>2. \A t \in Sessions : staged'[t] # << >> => cached'[t] \in Int
    BY <1>0, <1>5 DEF Close, TypeOK, TypeInv
  <2> QED BY <1>0, <1>5, <2>1, <2>2 DEF Close, TypeOK, TypeInv
<1>6. ASSUME NEW s \in Sessions, Commit(s) PROVE TypeInv'
  <2>1. balance' \in Int
    BY <1>0, <1>6 DEF Commit, TypeOK, TypeInv
  <2>2. ledger' \in Seq(Rows)
    BY <1>0, <1>6, ViewTyped DEF Commit
  <2> QED BY <1>5, <1>6, <2>1, <2>2 DEF Commit
<1>7. ASSUME NEW s \in Sessions, Rollback(s) PROVE TypeInv'
  <2>1. balance' \in Int /\ ledger' \in Seq(Rows)
    BY <1>0, <1>7 DEF Rollback, TypeOK
  <2> QED BY <1>5, <1>7, <2>1 DEF Rollback
<1>8. CASE UNCHANGED vars
  BY <1>0, <1>8 DEF vars, TypeOK, TypeInv
<1> QED BY <1>1, <1>2, <1>3, <1>4, <1>6, <1>7, <1>8 DEF Next

LEMMA TypeInit == Init => TypeInv
<1> SUFFICES ASSUME Init PROVE TypeInv
  OBVIOUS
<1>1. << >> \in Seq(Rows)
  BY EmptySeq
<1> QED BY <1>1, MoneyAssumption DEF Init, TypeInv, TypeOK

\* Every reachable state is well typed: in particular the committed balance
\* is a number, never the absence of one, whatever commits.
THEOREM WalletTypeOK == Spec => []TypeOK
<1>1. Spec => []TypeInv
  BY TypeInit, TypeStep, PTL DEF Spec
<1>2. TypeInv => TypeOK
  BY DEF TypeInv
<1> QED BY <1>1, <1>2, PTL

-----------------------------------------------------------------------------
(* The inductive invariant.  The safety properties speak of the committed  *)
(* ledger; what keeps them is that the ledger would still be good if any    *)
(* open session committed now, that every identity map holds a balance     *)
(* the ledger did have, and that only the lock holder has anything staged. *)

RowOK(led, i) ==
    /\ FromSnapshot(led, i)
    /\ led[i].by \notin Preloading => Chained(led, i)
    /\ led[i].after = IF led[i].direction = "credit"
                      THEN led[i].before + led[i].amount
                      ELSE led[i].before - led[i].amount
    /\ led[i].after >= -CreditLimit

GoodLedger(led) == \A i \in 1..Len(led) : RowOK(led, i)

ClosedClean == \A s \in Sessions \ open : staged[s] = << >>

CallsInOpen == \A s \in Sessions : call[s] # NoCall => s \in open

\* What s has in its identity map is what a prefix of its view left: all of
\* the view once s has written.
CacheHonest ==
    \A s \in Sessions : cached[s] \in Int =>
        /\ seen[s] <= Len(View(s))
        /\ cached[s] = After(View(s), seen[s])
        /\ staged[s] # << >> => seen[s] = Len(View(s))

\* A session that does not preload has not touched the wallet until it
\* posts its deposit.
FreshClean ==
    \A s \in Sessions \ Preloading : staged[s] = << >> =>
        /\ cached[s] = NotLoaded
        /\ call[s] # NoCall => call[s].direction = "credit"

IInv ==
    /\ TypeInv
    /\ OneWriter
    /\ BalanceIsLastRow
    /\ GoodLedger(ledger)
    /\ \A s \in Sessions : GoodLedger(View(s))
    /\ ClosedClean
    /\ CallsInOpen
    /\ CacheHonest
    /\ FreshClean

-----------------------------------------------------------------------------
(* Lemmas on ledgers. *)

\* A longer ledger leaves the same balances after its old rows.
LEMMA AfterPrefix ==
    ASSUME NEW p, NEW q, NEW k \in Nat, k <= Len(p), Len(p) \in Nat,
           \A i \in 1..Len(p) : q[i] = p[i]
    PROVE  After(q, k) = After(p, k)
BY DEF After

\* A good ledger leaves a number not below the credit limit.
LEMMA AfterFloor ==
    ASSUME NEW led \in Seq(Rows), GoodLedger(led), NEW k \in Nat, k <= Len(led)
    PROVE  After(led, k) \in Int /\ After(led, k) >= -CreditLimit
<1>1. Len(led) \in Nat
  BY LenProperties
<1>2. CASE k = 0
  BY <1>2, MoneyAssumption DEF After
<1>3. CASE k # 0
  <2>1. k \in 1..Len(led)
    BY <1>1, <1>3
  <2>2. led[k] \in Rows
    BY <2>1, ElementOfSeq
  <2> QED BY <1>3, <2>1, <2>2 DEF After, GoodLedger, RowOK, Rows
<1> QED BY <1>2, <1>3

\* A good ledger and a good next row make a good ledger.
LEMMA GoodAppend ==
    ASSUME NEW led \in Seq(Rows), GoodLedger(led), NEW r \in Rows,
           r.seen <= Len(led),
           r.before = After(led, r.seen),
           r.by \notin Preloading => r.seen = Len(led),
           r.after = IF r.direction = "credit" THEN r.before + r.amount
                                               ELSE r.before - r.amount,
           r.after >= -CreditLimit
    PROVE  GoodLedger(Append(led, r))
<1> DEFINE q == Append(led, r)
<1>1. Len(led) \in Nat
  BY LenProperties
<1>2. /\ Len(q) = Len(led) + 1
      /\ \A i \in 1..Len(led) : q[i] = led[i]
      /\ q[Len(led) + 1] = r
  BY AppendKeeps
<1>3. \A k \in Nat : k <= Len(led) => After(q, k) = After(led, k)
  BY <1>1, <1>2, AfterPrefix
<1>4. r.seen \in Nat
  BY DEF Rows
<1> HIDE DEF q
<1>5. ASSUME NEW i \in 1..Len(led) PROVE RowOK(q, i)
  <2>1. q[i] = led[i] /\ RowOK(led, i) /\ led[i] \in Rows
    BY <1>2, ElementOfSeq DEF GoodLedger
  <2>2. led[i].seen \in Nat
    BY <2>1 DEF Rows
  <2>3. After(q, led[i].seen) = After(led, led[i].seen)
    BY <1>1, <1>3, <2>1, <2>2 DEF RowOK, FromSnapshot
  <2>4. After(q, i - 1) = After(led, i - 1)
    BY <1>1, <1>3
  <2> QED BY <2>1, <2>3, <2>4 DEF RowOK, FromSnapshot, Chained
<1>6. RowOK(q, Len(led) + 1)
  <2>1. After(q, r.seen) = After(led, r.seen)
    BY <1>3, <1>4
  <2>2. r.seen < Len(led) + 1
    BY <1>1, <1>4
  <2>3. (Len(led) + 1) - 1 = Len(led)
    BY <1>1
  <2> QED BY <1>2, <2>1, <2>2, <2>3 DEF RowOK, FromSnapshot, Chained
<1>7. \A i \in 1..Len(q) : i \in 1..Len(led) \/ i = Len(led) + 1
  BY <1>1, <1>2
<1>8. GoodLedger(q)
  BY <1>5, <1>6, <1>7 DEF GoodLedger
<1> QED BY <1>8 DEF q

\* A session with nothing staged sees the committed ledger.
LEMMA EmptyView ==
    ASSUME TypeOK, NEW s \in Sessions, staged[s] = << >>
    PROVE  View(s) = ledger
BY ConcatEmptySeq DEF TypeOK, View

\* What a session sees starts with the committed ledger.
LEMMA ViewPrefix ==
    ASSUME TypeOK, NEW s \in Sessions
    PROVE  /\ Len(ledger) \in Nat
           /\ Len(ledger) <= Len(View(s))
           /\ \A i \in 1..Len(ledger) : View(s)[i] = ledger[i]
<1>1. /\ ledger \in Seq(Rows) /\ staged[s] \in Seq(Rows)
      /\ Len(ledger) \in Nat /\ Len(staged[s]) \in Nat
  BY LenProperties DEF TypeOK
<1>2. /\ Len(View(s)) = Len(ledger) + Len(staged[s])
      /\ \A i \in 1..(Len(ledger) + Len(staged[s])) :
            View(s)[i] = IF i <= Len(ledger) THEN ledger[i] ELSE staged[s][i - Len(ledger)]
  BY <1>1, ConcatProperties DEF View
<1> QED BY <1>1, <1>2

\* The balance a granted call starts from is one that the ledger left, and
\* for a session that did not preload it is the last one.
LEMMA ReadHonest ==
    ASSUME IInv, NEW s \in Sessions
    PROVE  /\ SeenBefore(s) \in Nat
           /\ SeenBefore(s) <= Len(View(s))
           /\ BalanceBefore(s) = After(View(s), SeenBefore(s))
           /\ s \notin Preloading => SeenBefore(s) = Len(View(s))
<1>1. TypeOK
  BY DEF IInv, TypeInv
<1>2. Len(ledger) \in Nat
  BY <1>1, ViewPrefix
<1>3. CASE cached[s] = NotLoaded
  <2>1. staged[s] = << >>
    BY <1>3, MoneyAssumption DEF IInv, TypeInv
  <2>2. View(s) = ledger
    BY <1>1, <2>1, EmptyView
  <2> QED BY <1>2, <1>3, <2>2 DEF IInv, BalanceIsLastRow, BalanceBefore, SeenBefore
<1>4. CASE cached[s] # NotLoaded
  <2>1. cached[s] \in Int /\ seen[s] \in Nat
    BY <1>1, <1>4 DEF TypeOK
  <2>2. s \notin Preloading => staged[s] # << >>
    BY <1>4 DEF IInv, FreshClean
  <2> QED BY <1>4, <2>1, <2>2 DEF IInv, CacheHonest, BalanceBefore, SeenBefore
<1> QED BY <1>3, <1>4

\* A granted, affordable call makes a good row.
LEMMA ApplyGood ==
    ASSUME IInv, NEW s \in Sessions, call[s] # NoCall, Affordable(s)
    PROVE  GoodLedger(Append(View(s), NewRow(s)))
<1> DEFINE r == NewRow(s)
<1>1. TypeOK
  BY DEF IInv, TypeInv
<1>2. View(s) \in Seq(Rows) /\ GoodLedger(View(s))
  BY <1>1, ViewTyped DEF IInv
<1>3. /\ r \in Rows /\ BalanceBefore(s) \in Int /\ BalanceAfter(s) \in Int
      /\ call[s].direction \in Directions /\ call[s].amount \in Nat
  BY <1>1, RowTyped, MoneyAssumption DEF TypeOK, Calls
<1>4. /\ r.seen = SeenBefore(s) /\ r.before = BalanceBefore(s) /\ r.by = s
      /\ r.after = BalanceAfter(s) /\ r.direction = call[s].direction
      /\ r.amount = call[s].amount
  BY DEF NewRow
<1>5. BalanceBefore(s) >= -CreditLimit
  BY <1>2, ReadHonest, AfterFloor
<1>6. r.after >= -CreditLimit
  BY <1>3, <1>4, <1>5, MoneyAssumption DEF Affordable, BalanceAfter, Directions
<1>7. r.after = IF r.direction = "credit" THEN r.before + r.amount ELSE r.before - r.amount
  BY <1>4 DEF BalanceAfter
<1> HIDE DEF r
<1>8. GoodLedger(Append(View(s), r))
  BY <1>2, <1>3, <1>4, <1>6, <1>7, ReadHonest, GoodAppend
<1> QED BY <1>8 DEF r

-----------------------------------------------------------------------------
(* Every action preserves the invariant. *)

LEMMA IInvOpen ==
    ASSUME IInv, TypeInv', NEW s \in Sessions, Open(s)
    PROVE  IInv'
<1>1. TypeOK /\ Len(ledger) \in Nat
  BY ViewPrefix DEF IInv, TypeInv
<1>2. UNCHANGED <<balance, ledger, holder, call, staged>>
  BY DEF Open
<1>3. \A t \in Sessions : View(t)' = View(t)
  BY <1>2 DEF View
<1>4. staged[s] = << >> /\ View(s) = ledger
  BY <1>1, EmptyView DEF Open, IInv, ClosedClean
<1>5. CacheHonest'
  <2>1. ASSUME NEW t \in Sessions, cached'[t] \in Int
        PROVE  /\ seen'[t] <= Len(View(t))
               /\ cached'[t] = After(View(t), seen'[t])
               /\ staged[t] # << >> => seen'[t] = Len(View(t))
    <3>1. CASE t = s /\ s \in Preloading
      BY <1>1, <1>4, <3>1 DEF Open, TypeOK, IInv, BalanceIsLastRow
    <3>2. CASE ~(t = s /\ s \in Preloading)
      <4>1. cached'[t] = cached[t] /\ seen'[t] = seen[t]
        BY <1>1, <3>2 DEF Open, TypeOK
      <4> QED BY <2>1, <4>1 DEF IInv, CacheHonest
    <3> QED BY <3>1, <3>2
  <2> QED BY <1>2, <1>3, <2>1 DEF CacheHonest, After
<1>6. FreshClean'
  BY <1>1, <1>2 DEF Open, IInv, FreshClean, TypeOK
<1>7. ClosedClean'
  BY <1>2 DEF Open, IInv, ClosedClean
<1>10. CallsInOpen'
  BY <1>2 DEF Open, IInv, CallsInOpen
<1>8. \A t \in Sessions : GoodLedger(View(t))'
  BY <1>3 DEF IInv, GoodLedger, RowOK, FromSnapshot, Chained, After
<1>9. GoodLedger(ledger)' /\ BalanceIsLastRow' /\ OneWriter'
  BY <1>2 DEF IInv, GoodLedger, RowOK, FromSnapshot, Chained, After, BalanceIsLastRow, OneWriter
<1> QED BY <1>5, <1>6, <1>7, <1>8, <1>9, <1>10 DEF IInv

LEMMA IInvCall ==
    ASSUME IInv, TypeInv', NEW s \in Sessions, Call(s)
    PROVE  IInv'
<1>1. TypeOK
  BY DEF IInv, TypeInv
<1>2. UNCHANGED <<balance, ledger, holder, open, cached, seen, staged>>
  BY DEF Call
<1>3. FreshClean'
  BY <1>1, <1>2 DEF Call, MayCall, IInv, FreshClean, TypeOK
<1>6. CallsInOpen'
  BY <1>1, <1>2 DEF Call, IInv, CallsInOpen, TypeOK
<1>4. CacheHonest' /\ ClosedClean' /\ BalanceIsLastRow' /\ OneWriter'
  BY <1>2 DEF IInv, CacheHonest, ClosedClean, BalanceIsLastRow, OneWriter, View, After
<1>5. GoodLedger(ledger)' /\ \A t \in Sessions : GoodLedger(View(t))'
  BY <1>2 DEF IInv, GoodLedger, RowOK, FromSnapshot, Chained, After, View
<1> QED BY <1>3, <1>4, <1>5, <1>6 DEF IInv

LEMMA IInvApply ==
    ASSUME IInv, TypeInv', NEW s \in Sessions, Apply(s)
    PROVE  IInv'
<1>1. TypeOK /\ View(s) \in Seq(Rows) /\ Len(View(s)) \in Nat
  BY ViewTyped DEF IInv, TypeInv
<1>2. UNCHANGED <<balance, ledger, open>>
  BY DEF Apply
<1>3. NewRow(s) \in Rows
  BY <1>1, RowTyped DEF Apply
<1>4. staged' = [staged EXCEPT ![s] = Append(@, NewRow(s))]
  BY DEF Apply
<1>5. staged'[s] = Append(staged[s], NewRow(s)) /\ staged'[s] # << >>
  <2>1. staged'[s] = Append(staged[s], NewRow(s))
    BY <1>1, <1>4 DEF TypeOK
  <2>2. staged[s] \in Seq(Rows)
    BY <1>1 DEF TypeOK
  <2> QED BY <1>3, <2>1, <2>2
<1>6. View(s)' = Append(View(s), NewRow(s))
  BY <1>1, <1>2, <1>3, <1>5, ViewAppend DEF View, TypeOK
<1>7. \A t \in Sessions \ {s} : staged'[t] = staged[t] /\ View(t)' = View(t)
  BY <1>1, <1>2, <1>4 DEF View, TypeOK
<1>8. \A t \in Sessions \ {s} : staged[t] = << >>
  BY SessionsAssumption DEF Apply, LockFree, IInv, OneWriter
<1>9. OneWriter'
  BY <1>7, <1>8 DEF OneWriter, Apply
<1>10. GoodLedger(View(s)')
  BY <1>6, ApplyGood DEF Apply
<1>11. \A t \in Sessions : GoodLedger(View(t)')
  BY <1>7, <1>10 DEF IInv
<1>12. CacheHonest'
  <2>1. /\ Len(View(s)') = Len(View(s)) + 1
        /\ View(s)'[Len(View(s)) + 1] = NewRow(s)
    BY <1>1, <1>3, <1>6, AppendKeeps
  <2>2. /\ cached'[s] = BalanceAfter(s) /\ seen'[s] = Len(View(s)) + 1
        /\ NewRow(s).after = BalanceAfter(s)
    BY <1>1 DEF Apply, TypeOK, NewRow
  <2>3. cached'[s] = After(View(s)', seen'[s])
    BY <1>1, <2>1, <2>2 DEF After
  <2>4. \A t \in Sessions \ {s} : cached'[t] = cached[t] /\ seen'[t] = seen[t]
    BY <1>1 DEF Apply, TypeOK
  <2>5. \A t \in Sessions : cached'[t] \in Int =>
          /\ seen'[t] <= Len(View(t)')
          /\ cached'[t] = After(View(t)', seen'[t])
          /\ staged'[t] # << >> => seen'[t] = Len(View(t)')
    BY <1>1, <1>7, <2>1, <2>2, <2>3, <2>4 DEF IInv, CacheHonest
  <2> QED BY <2>5 DEF CacheHonest, After
<1>13. FreshClean'
  BY <1>1, <1>5, <1>7 DEF Apply, IInv, FreshClean, TypeOK
<1>14. ClosedClean'
  <2>1. s \in open
    BY DEF Apply, IInv, CallsInOpen
  <2> QED BY <1>2, <1>7, <2>1 DEF IInv, ClosedClean
<1>17. CallsInOpen'
  BY <1>1 DEF Apply, IInv, CallsInOpen, TypeOK
<1>15. GoodLedger(ledger)' /\ BalanceIsLastRow'
  BY <1>2 DEF IInv, GoodLedger, RowOK, FromSnapshot, Chained, After, BalanceIsLastRow
<1>16. \A t \in Sessions : GoodLedger(View(t))'
  BY <1>11 DEF GoodLedger, RowOK, FromSnapshot, Chained, After
<1> QED BY <1>9, <1>12, <1>13, <1>14, <1>15, <1>16, <1>17 DEF IInv

LEMMA IInvRefuse ==
    ASSUME IInv, TypeInv', NEW s \in Sessions, Refuse(s)
    PROVE  IInv'
<1>1. TypeOK
  BY DEF IInv, TypeInv
<1>2. UNCHANGED <<balance, ledger, open, staged>>
  BY DEF Refuse
<1>3. \A t \in Sessions : View(t)' = View(t)
  BY <1>2 DEF View
<1>4. OneWriter'
  <2>1. \A t \in Sessions \ {s} : staged[t] = << >>
    BY SessionsAssumption DEF Refuse, LockFree, IInv, OneWriter
  <2> QED BY <1>2, <2>1 DEF Refuse, OneWriter
<1>5. CacheHonest'
  <2>1. /\ cached'[s] = BalanceBefore(s) /\ seen'[s] = SeenBefore(s)
        /\ \A t \in Sessions \ {s} : cached'[t] = cached[t] /\ seen'[t] = seen[t]
    BY <1>1 DEF Refuse, TypeOK
  <2>2. staged[s] # << >> => SeenBefore(s) = Len(View(s))
    BY MoneyAssumption DEF IInv, TypeInv, CacheHonest, SeenBefore
  <2>3. \A t \in Sessions : cached'[t] \in Int =>
          /\ seen'[t] <= Len(View(t))
          /\ cached'[t] = After(View(t), seen'[t])
          /\ staged[t] # << >> => seen'[t] = Len(View(t))
    BY <2>1, <2>2, ReadHonest DEF IInv, CacheHonest
  <2> QED BY <1>2, <1>3, <2>3 DEF CacheHonest, After
<1>6. FreshClean'
  <2>1. s \notin Preloading => staged[s] # << >>
    BY DEF Refuse, Affordable, IInv, FreshClean
  <2> QED BY <1>1, <1>2, <2>1 DEF Refuse, IInv, FreshClean, TypeOK
<1>7. CallsInOpen'
  BY <1>1, <1>2 DEF Refuse, IInv, CallsInOpen, TypeOK
<1>8. ClosedClean' /\ BalanceIsLastRow'
  BY <1>2 DEF IInv, ClosedClean, BalanceIsLastRow, After
<1>9. GoodLedger(ledger)'
  BY <1>2 DEF IInv, GoodLedger, RowOK, FromSnapshot, Chained, After
<1>10. \A t \in Sessions : GoodLedger(View(t))'
  BY <1>3 DEF IInv, GoodLedger, RowOK, FromSnapshot, Chained, After
<1> QED BY <1>4, <1>5, <1>6, <1>7, <1>8, <1>9, <1>10 DEF IInv

\* Commit and rollback end a session the same way; they differ in whether
\* its view becomes the ledger.
LEMMA IInvClose ==
    ASSUME IInv, TypeInv', NEW s \in Sessions, Close(s),
           \/ ledger' = View(s) /\ balance' = After(View(s), Len(View(s)))
           \/ UNCHANGED <<balance, ledger>>
    PROVE  IInv'
<1>1. TypeOK /\ Len(ledger) \in Nat
  BY ViewPrefix DEF IInv, TypeInv
<1>2. \A t \in Sessions :
         /\ staged'[t] = IF t = s THEN << >> ELSE staged[t]
         /\ cached'[t] = IF t = s THEN NotLoaded ELSE cached[t]
         /\ seen'[t] = IF t = s THEN 0 ELSE seen[t]
         /\ call'[t] = IF t = s THEN NoCall ELSE call[t]
  BY <1>1 DEF Close, TypeOK
<1>3. GoodLedger(ledger') /\ balance' = After(ledger', Len(ledger'))
  BY DEF IInv, BalanceIsLastRow
<1>4. /\ Len(ledger) <= Len(ledger')
      /\ \A i \in 1..Len(ledger) : ledger'[i] = ledger[i]
  BY <1>1, ViewPrefix
<1>5. ledger' \in Seq(Rows) /\ TypeOK'
  BY DEF TypeInv, TypeOK
<1>6. \A t \in Sessions : staged'[t] = << >> => View(t)' = ledger'
  BY <1>5, ConcatEmptySeq DEF View, TypeOK
<1>7. ASSUME NEW t \in Sessions, t # s, staged[t] # << >>
      PROVE  ledger' = ledger /\ View(t)' = View(t)
  <2>1. staged[s] = << >>
    BY <1>7 DEF IInv, OneWriter
  <2>2. ledger' = ledger
    BY <1>1, <2>1, EmptyView
  <2> QED BY <1>2, <1>7, <2>2 DEF View
<1>8. ASSUME NEW t \in Sessions PROVE GoodLedger(View(t)')
  <2>1. CASE staged'[t] = << >>
    BY <1>3, <1>6, <2>1
  <2>2. CASE staged'[t] # << >>
    BY <1>2, <1>7, <2>2 DEF IInv
  <2> QED BY <2>1, <2>2
<1>9. ASSUME NEW t \in Sessions, cached'[t] \in Int
      PROVE  /\ seen'[t] <= Len(View(t)')
             /\ cached'[t] = After(View(t)', seen'[t])
             /\ staged'[t] # << >> => seen'[t] = Len(View(t)')
  <2>1. t # s
    BY <1>2, <1>9, MoneyAssumption
  <2>2. cached'[t] = cached[t] /\ seen'[t] = seen[t] /\ staged'[t] = staged[t]
    BY <1>2, <2>1
  <2>3. CASE staged[t] # << >>
    BY <1>7, <1>9, <2>1, <2>2, <2>3 DEF IInv, CacheHonest
  <2>4. CASE staged[t] = << >>
    <3>1. View(t) = ledger /\ View(t)' = ledger'
      BY <1>1, <1>6, <2>2, <2>4, EmptyView
    <3>2. /\ seen[t] \in Nat /\ seen[t] <= Len(ledger)
          /\ cached[t] = After(ledger, seen[t])
      BY <1>1, <1>9, <2>2, <3>1 DEF IInv, CacheHonest, TypeOK
    <3>3. After(ledger', seen[t]) = After(ledger, seen[t])
      BY <1>1, <1>4, <3>2, AfterPrefix
    <3>4. Len(ledger') \in Nat
      BY <1>5, LenProperties
    <3> QED BY <1>1, <1>4, <2>2, <2>4, <3>1, <3>2, <3>3, <3>4
  <2> QED BY <2>3, <2>4
<1>10. CacheHonest'
  BY <1>9 DEF CacheHonest, After
<1>11. OneWriter'
  BY <1>2 DEF Close, IInv, OneWriter
<1>12. ClosedClean' /\ CallsInOpen' /\ FreshClean'
  BY <1>2 DEF Close, IInv, ClosedClean, CallsInOpen, FreshClean
<1>13. BalanceIsLastRow' /\ GoodLedger(ledger)'
  BY <1>3 DEF BalanceIsLastRow, GoodLedger, RowOK, FromSnapshot, Chained, After
<1>14. \A t \in Sessions : GoodLedger(View(t))'
  BY <1>8 DEF GoodLedger, RowOK, FromSnapshot, Chained, After
<1> QED BY <1>10, <1>11, <1>12, <1>13, <1>14 DEF IInv

\* What a committing session writes to wallets.balance is what its last row
\* left; one that posted nothing writes nothing.
LEMMA CommitWritesLast ==
    ASSUME IInv, NEW s \in Sessions, Commit(s)
    PROVE  ledger' = View(s) /\ balance' = After(View(s), Len(View(s)))
<1>1. TypeOK
  BY DEF IInv, TypeInv
<1>2. CASE staged[s] = << >>
  BY <1>1, <1>2, EmptyView DEF Commit, IInv, BalanceIsLastRow
<1>3. CASE staged[s] # << >>
  BY <1>3 DEF Commit, IInv, TypeInv, CacheHonest
<1> QED BY <1>2, <1>3 DEF Commit

LEMMA IInvStep == IInv /\ [Next]_vars => IInv'
<1> SUFFICES ASSUME IInv, [Next]_vars PROVE IInv'
  OBVIOUS
<1>1. TypeInv'
  BY TypeStep DEF IInv
<1>2. ASSUME NEW s \in Sessions, Commit(s) PROVE IInv'
  BY <1>1, <1>2, CommitWritesLast, IInvClose DEF Commit
<1>3. ASSUME NEW s \in Sessions, Rollback(s) PROVE IInv'
  BY <1>1, <1>3, IInvClose DEF Rollback
<1>4. CASE UNCHANGED vars
  BY <1>1, <1>4 DEF vars, IInv, OneWriter, BalanceIsLastRow, ClosedClean, CallsInOpen,
       CacheHonest, FreshClean, GoodLedger, RowOK, FromSnapshot, Chained, After, View
<1> QED BY <1>1, <1>2, <1>3, <1>4, IInvOpen, IInvCall, IInvApply, IInvRefuse DEF Next

LEMMA IInvInit == Init => IInv
<1> SUFFICES ASSUME Init PROVE IInv
  OBVIOUS
<1>1. TypeInv
  BY TypeInit
<1>2. Len(ledger) = 0 /\ \A s \in Sessions : View(s) = << >> /\ Len(View(s)) = 0
  <2>1. TypeOK
    BY <1>1 DEF TypeInv
  <2> QED BY <2>1, EmptyView DEF Init
<1>3. GoodLedger(ledger) /\ \A s \in Sessions : GoodLedger(View(s))
  BY <1>2 DEF GoodLedger
<1>4. CacheHonest
  BY MoneyAssumption DEF Init, CacheHonest
<1> QED BY <1>1, <1>2, <1>3, <1>4 DEF Init, IInv, OneWriter, BalanceIsLastRow, ClosedClean,
             CallsInOpen, FreshClean, After

THEOREM WalletInvariant == Spec => []IInv
BY IInvInit, IInvStep, PTL DEF Spec

-----------------------------------------------------------------------------
(* The safety properties. *)

\* Every row starts from a balance the ledger did have, however many bot
\* sessions read the wallet early.
THEOREM WalletSnapshotReads == Spec => []SnapshotReads
<1>1. IInv => SnapshotReads
  BY DEF IInv, GoodLedger, RowOK, SnapshotReads
<1> QED BY <1>1, WalletInvariant, PTL

\* The row lock alone protects every session that did not preload.
THEOREM WalletFreshRowsChain == Spec => []FreshRowsChain
<1>1. IInv => FreshRowsChain
  BY DEF IInv, GoodLedger, RowOK, FreshRowsChain
<1> QED BY <1>1, WalletInvariant, PTL

\* The balance column and the last ledger row agree.
THEOREM WalletBalanceIsLastRow == Spec => []BalanceIsLastRow
<1>1. IInv => BalanceIsLastRow
  BY DEF IInv
<1> QED BY <1>1, WalletInvariant, PTL

\* The credit limit holds in every interleaving.
THEOREM WalletCreditFloor == Spec => []CreditFloor
<1>1. IInv => CreditFloor
  <2> SUFFICES ASSUME IInv PROVE CreditFloor
    OBVIOUS
  <2>1. ledger \in Seq(Rows) /\ Len(ledger) \in Nat
    BY LenProperties DEF IInv, TypeInv, TypeOK
  <2>2. balance >= -CreditLimit
    BY <2>1, AfterFloor DEF IInv, BalanceIsLastRow
  <2> QED BY <2>2 DEF IInv, GoodLedger, RowOK, CreditFloor
<1> QED BY <1>1, WalletInvariant, PTL

\* Only the holder of the row lock has written and not ended.
THEOREM WalletOneWriter == Spec => []OneWriter
<1>1. IInv => OneWriter
  BY DEF IInv
<1> QED BY <1>1, WalletInvariant, PTL

\* When no session loads the wallet before it locks it, no update is lost.
THEOREM WalletLedgerChain == Preloading = {} => (Spec => []LedgerChain)
<1> SUFFICES ASSUME Preloading = {} PROVE Spec => []LedgerChain
  OBVIOUS
<1>1. IInv => LedgerChain
  BY DEF IInv, GoodLedger, RowOK, LedgerChain
<1> QED BY <1>1, WalletInvariant, PTL

-----------------------------------------------------------------------------
(* Refinement: without early loads, the interleaved sessions implement the *)
(* atomic ledger.                                                          *)

LEMMA PostStep ==
    ASSUME Preloading = {}, IInv, IInv', NEW s \in Sessions, Commit(s), staged[s] # << >>
    PROVE  Ledger!Post
<1>1. TypeOK /\ TypeOK'
  BY DEF IInv, TypeInv
<1>2. ledger' = View(s) /\ balance' = After(ledger', Len(ledger'))
  BY CommitWritesLast
<1>3. staged[s] \in Seq(Rows) /\ Len(staged[s]) \in Nat \ {0}
  BY <1>1, EmptySeq DEF TypeOK
<1>4. Len(ledger') > Len(ledger) /\ \A i \in 1..Len(ledger) : ledger'[i] = ledger[i]
  BY <1>1, <1>2, <1>3, ViewTyped, ViewPrefix
<1>5. ASSUME NEW i \in (Len(ledger) + 1)..Len(ledger') PROVE Ledger!Atomic(ledger', i)
  <2>1. Len(ledger) \in Nat /\ Len(ledger') \in Nat /\ ledger' \in Seq(Rows)
    BY <1>1, LenProperties DEF TypeOK
  <2>2. i \in 1..Len(ledger')
    BY <2>1
  <2>3. ledger'[i] \in Rows
    BY <2>1, <2>2, ElementOfSeq
  <2>4. RowOK(ledger', i)
    BY <1>2, <2>2 DEF IInv, GoodLedger
  <2>5. ledger'[i].before = Ledger!Left(ledger', i - 1)
    BY <2>4 DEF RowOK, Chained, After, Ledger!Left
  <2> QED BY <2>3, <2>4, <2>5 DEF RowOK, Rows, Directions, Ledger!Atomic
<1>6. balance' = Ledger!Left(ledger', Len(ledger'))
  BY <1>2 DEF After, Ledger!Left
<1> QED BY <1>4, <1>5, <1>6 DEF Ledger!Post

\* Every behaviour of the wallet without early loads is a behaviour of the
\* atomic ledger.
THEOREM WalletImplementsLedger == Preloading = {} => (Spec => ImplementsLedger)
<1> SUFFICES ASSUME Preloading = {} PROVE Spec => ImplementsLedger
  OBVIOUS
<1>1. Init => Ledger!LedgerInit
  BY DEF Init, Ledger!LedgerInit
<1>2. IInv /\ IInv' /\ [Next]_vars => [Ledger!Post]_<<balance, ledger>>
  <2> SUFFICES ASSUME IInv, IInv', [Next]_vars, ~UNCHANGED <<balance, ledger>>
               PROVE  Ledger!Post
    OBVIOUS
  <2>1. PICK s \in Sessions : Commit(s)
    BY DEF Next, vars, Open, Call, Apply, Refuse, Rollback
  <2>2. TypeOK
    BY DEF IInv, TypeInv
  <2>3. staged[s] # << >>
    BY <2>1, <2>2, EmptyView DEF Commit
  <2> QED BY <2>1, <2>3, PostStep
<1>3. Spec => []IInv
  BY WalletInvariant
<1>4. Spec => Ledger!LedgerInit /\ [][Ledger!Post]_<<balance, ledger>>
  BY <1>1, <1>2, <1>3, PTL DEF Spec
<1> QED BY <1>4 DEF ImplementsLedger, LedgerSpec, Ledger!LedgerSpec, Ledger!ledgerVars
=============================================================================
