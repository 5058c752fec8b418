--------------------------- MODULE SupportProofs ---------------------------
(***************************************************************************)
(* What the sessions of the bot keep of users and tickets, for any number  *)
(* of people, sessions and tickets.  Support has no specification of its   *)
(* own: the lemmas here are about SupportStep and about what the worker's  *)
(* runs of Mailing do to the same rows, and MailingProofs joins them.      *)
(*                                                                         *)
(* A session acts on what it read before it waited for Telegram.  The      *)
(* invariant says what of that is still true: rows do not go away, a       *)
(* reply that will be saved as an answer was delivered, and the ticket a   *)
(* message was read into is open, will be reopened, or an administrator    *)
(* has acted on it meanwhile.                                              *)
(***************************************************************************)
EXTENDS Support, Extremes, TLAPS

\* What a session holds at each of its steps.
SessionOK(q) ==
    /\ q.pc # "idle" => q.who \in People
    /\ q.pc \notin {"idle", "insert", "answer"} => Registered(q.who)
    /\ \A p \in q.seen \cup q.marks : Registered(p)
    /\ q.ticket <= made
    /\ q.pc \in {"confirm", "alert", "send", "save"} => q.ticket # 0
    /\ q.pc \in {"send", "save"} => ticket[q.ticket] # NoRow
    /\ q.new = "answered" => q.ticket \in replied

\* The message that q is writing will not be overlooked.
Unmissed(q) ==
    /\ q.pc \in {"write", "confirm", "alert"}
    /\ q.acted = FALSE
    /\ q.ticket \in Tickets /\ ticket[q.ticket] # NoRow
    => q.old = "answered" \/ ticket[q.ticket].status = "open"

\* A session holds rows from its first flush to its commit.
Holding == {"answer", "confirm", "alert"}
LocksHeld ==
    \A r \in People \cup Tickets, k \in Tasks : lock[r] = k => task[k].pc \in Holding

TicketsKnown ==
    \A t \in Tickets : ticket[t] # NoRow => t <= made /\ Registered(ticket[t].who)

AskedKnown == \A a \in People : asked[a] # 0 => ticket[asked[a]] # NoRow

\* The mark of a ban is taken back only by the end of the ban.
BannedIsBlocked ==
    \A p \in People : Registered(p) /\ row[p].status = "banned" => row[p].blocked = TRUE

AllSessionsOK == \A k \in Tasks : SessionOK(task[k]) /\ Unmissed(task[k])

SupportInv ==
    /\ SupportTypeOK
    /\ AllSessionsOK
    /\ LocksHeld
    /\ TicketsKnown
    /\ AskedKnown
    /\ BannedIsBlocked
    /\ StartNeverFails
    /\ AnsweredWasDelivered
    /\ WaitingIsOpen

-----------------------------------------------------------------------------
LEMMA NewUserType ==
    ASSUME NEW p \in People
    PROVE  NewUser(p) \in User /\ NewUser(p) # NoRow /\ NewUser(p).status = "active"
<1> DEFINE role == IF p = Owner THEN "owner" ELSE "user"
<1>1. role \in {"user", "admin", "owner"}
    OBVIOUS
<1>2. NewUser(p) = [status |-> "active", blocked |-> FALSE, role |-> role]
    BY DEF NewUser
<1> HIDE DEF role
<1>3. NewUser(p) \in User
    BY <1>1, <1>2 DEF User
<1>4. NewUser(p) # NoRow
    BY <1>3, NoRowAssumption
<1> QED BY <1>2, <1>3, <1>4

LEMMA IdleType ==
    /\ Idle \in Session
    /\ Idle.pc = "idle" /\ Idle.who = NoOne /\ Idle.ticket = 0 /\ Idle.old = "open"
    /\ Idle.new = "none" /\ Idle.todo = {} /\ Idle.seen = {} /\ Idle.marks = {}
    /\ Idle.acted = FALSE
<1>1. 0 \in 0..MaxTickets
    BY SupportAssumption
<1> QED BY <1>1 DEF Idle, Session, Pcs, TicketStatuses

\* A mark changes is_bot_blocked and nothing else.
LEMMA MarkedRows ==
    ASSUME SupportTypeOK, NEW S, \A p \in S : Registered(p)
    PROVE  /\ Marked(S) \in [People -> User \cup {NoRow}]
           /\ \A p \in People : /\ Marked(S)[p] = NoRow <=> row[p] = NoRow
                                /\ p \notin S => Marked(S)[p] = row[p]
                                /\ Registered(p) => Marked(S)[p].status = row[p].status
                                /\ p \in S => Marked(S)[p].blocked = TRUE
<1>1. ASSUME NEW p \in People, p \in S
      PROVE  /\ Marked(S)[p] \in User
             /\ Marked(S)[p].status = row[p].status /\ Marked(S)[p].blocked = TRUE
    <2>1. row[p] \in User
        BY <1>1 DEF Registered, SupportTypeOK
    <2>2. Marked(S)[p] = [row[p] EXCEPT !.blocked = TRUE]
        BY <1>1 DEF Marked
    <2> QED BY <2>1, <2>2 DEF User
<1>2. ASSUME NEW p \in People, p \notin S PROVE Marked(S)[p] = row[p]
    BY <1>2 DEF Marked
<1>3. Marked(S) = [p \in People |-> Marked(S)[p]]
    BY DEF Marked
<1>4. \A p \in People : row[p] \in User \cup {NoRow}
    BY DEF SupportTypeOK
<1> QED BY <1>1, <1>2, <1>3, <1>4, NoRowAssumption DEF Registered

\* The newest of a customer's tickets that are not closed: there is one.
LEMMA ContinuedType ==
    ASSUME SupportTypeOK, NEW p \in People
    PROVE  /\ Continued(p) \in 0..MaxTickets
           /\ Continued(p) # 0 => /\ Continued(p) \in Tickets /\ ticket[Continued(p)] # NoRow
                                  /\ ticket[Continued(p)].status \in {"open", "answered"}
<1> DEFINE own == {t \in Tickets : ticket[t] # NoRow /\ ticket[t].who = p
                                   /\ ticket[t].status \in {"open", "answered"}}
<1>1. CASE own = {}
    BY <1>1, SupportAssumption DEF Continued
<1>2. CASE own # {}
    <2>1. \E t \in own : \A s \in own : s <= t
        BY <1>2, RangeHasGreatest, SupportAssumption DEF Tickets
    <2>2. Continued(p) \in own
        BY <1>2, <2>1 DEF Continued
    <2> QED BY <2>2, SupportAssumption DEF Tickets
<1> QED BY <1>1, <1>2

-----------------------------------------------------------------------------
(* A step of one session that commits nothing.                             *)

LocksGo(k, q) ==
    /\ \A r \in People \cup Tickets, j \in Tasks : j # k /\ lock'[r] = j => lock[r] = j
    /\ \A r \in People \cup Tickets : lock'[r] = k => q.pc \in Holding

LEMMA LockForms ==
    ASSUME NEW L, lock \in [People \cup Tickets -> L], LocksHeld, NEW k \in Tasks, NEW q
    PROVE  /\ lock' = lock /\ (q.pc \in Holding \/ task[k].pc \notin Holding) => LocksGo(k, q)
           /\ \A R : lock' = Locked(k, R) /\ q.pc \in Holding => LocksGo(k, q)
           /\ lock' = Released(k) => LocksGo(k, q)
<1>1. NoOne \notin Tasks
    BY SupportAssumption
<1> QED BY <1>1 DEF LocksGo, LocksHeld, Locked, Released

LEMMA LocksFollow ==
    ASSUME SupportTypeOK, LocksHeld, NEW k \in Tasks, NEW q, task' = [task EXCEPT ![k] = q],
           LocksGo(k, q)
    PROVE  LocksHeld'
BY DEF LocksGo, LocksHeld, SupportTypeOK

LEMMA MoveKeeps ==
    ASSUME SupportInv, NEW k \in Tasks, NEW q \in Session, task' = [task EXCEPT ![k] = q],
           SessionOK(q)', Unmissed(q)', LocksGo(k, q),
           UNCHANGED <<row, ticket, asked, waiting, startFailed>>,
           made' \in 0..MaxTickets, made <= made', replied \subseteq replied',
           replied' \subseteq Tickets, events' \in 0..MaxEvents, crashes' \in 0..MaxCrashes
    PROVE  SupportInv'
<1> USE DEF SupportInv
<1>1. SupportTypeOK'
    BY DEF SupportTypeOK
<1>2. AllSessionsOK'
    <2> SUFFICES ASSUME NEW j \in Tasks PROVE SessionOK(task[j])' /\ Unmissed(task[j])'
        BY DEF AllSessionsOK
    <2>1. CASE j = k
        <3>1. task'[j] = q
            BY <2>1 DEF SupportTypeOK
        <3> QED BY <3>1 DEF SessionOK, Unmissed, Registered
    <2>2. CASE j # k
        <3>1. task'[j] = task[j] /\ task[j] \in Session
            BY <2>2 DEF SupportTypeOK
        <3>2. PICK x \in Session : x = task[j]
            BY <3>1
        <3>3. SessionOK(x) /\ Unmissed(x)
            BY <3>2 DEF AllSessionsOK
        <3>4. x.ticket \in Nat /\ made \in Nat /\ made' \in Nat
            BY SupportAssumption DEF Session, SupportTypeOK
        <3>5. SessionOK(x)'
            BY <3>3, <3>4 DEF SessionOK, Registered
        <3>6. Unmissed(x)'
            BY <3>3 DEF Unmissed
        <3> QED BY <3>1, <3>2, <3>5, <3>6 DEF SessionOK, Unmissed, Registered
    <2> QED BY <2>1, <2>2
<1>3. LocksHeld'
    BY LocksFollow
<1>4. TicketsKnown'
    <2>1. made \in Nat /\ made' \in Nat /\ \A t \in Tickets : t \in Nat
        BY SupportAssumption DEF SupportTypeOK, Tickets
    <2> QED BY <2>1 DEF TicketsKnown, Registered
<1>5. AskedKnown' /\ BannedIsBlocked' /\ StartNeverFails' /\ WaitingIsOpen'
    BY DEF AskedKnown, BannedIsBlocked, StartNeverFails, WaitingIsOpen, Registered
<1>6. AnsweredWasDelivered'
    BY DEF AnsweredWasDelivered
<1> QED BY <1>1, <1>2, <1>3, <1>4, <1>5, <1>6

-----------------------------------------------------------------------------
(* The steps of the sessions, one by one.                                  *)

\* What the steps below start from.
LEMMA SessionFacts ==
    ASSUME SupportInv, NEW k \in Tasks
    PROVE  /\ task[k] \in Session /\ SessionOK(task[k]) /\ Unmissed(task[k])
           /\ made \in 0..MaxTickets /\ made \in Nat /\ MaxTickets \in Nat
           /\ events \in 0..MaxEvents /\ crashes \in 0..MaxCrashes
           /\ replied \subseteq Tickets
           /\ \A p \in People : row[p] \in User \cup {NoRow}
           /\ \A t \in Tickets : ticket[t] \in Ticket \cup {NoRow}
BY SupportAssumption DEF SupportInv, SupportTypeOK, AllSessionsOK

LEMMA EventType == ASSUME SupportInv, Event PROVE events' \in 0..MaxEvents
BY SupportAssumption DEF SupportInv, SupportTypeOK, Event

LEMMA StartArrivesKeeps ==
    ASSUME SupportInv, NEW L, lock \in [People \cup Tickets -> L],
           NEW k \in Tasks, NEW p \in People, StartArrives(k, p)
    PROVE  SupportInv'
<1>1. PICK q \in Session : q = [Idle EXCEPT !.pc = "insert", !.who = p]
    BY IdleType DEF Session, Pcs
<1>2. /\ q.pc = "insert" /\ q.who = p /\ q.ticket = 0 /\ q.seen = {} /\ q.marks = {}
      /\ q.new = "none"
    BY <1>1, IdleType DEF Session
<1>3. SessionOK(q)' /\ Unmissed(q)'
    <2>1. made' = made /\ 0 <= made
        BY SessionFacts DEF StartArrives
    <2> QED BY <1>2, <2>1 DEF SessionOK, Unmissed
<1>4. LocksGo(k, q)
    BY LockForms, IdleType DEF StartArrives, Takes, Holding, SupportInv
<1>5. task' = [task EXCEPT ![k] = q]
    BY <1>1 DEF StartArrives
<1>6. /\ UNCHANGED <<row, ticket, made, lock, asked, startFailed, replied, waiting, crashes>>
      /\ events' \in 0..MaxEvents
    BY EventType DEF StartArrives
<1>7. /\ made' \in 0..MaxTickets /\ made <= made' /\ replied \subseteq replied'
      /\ replied' \subseteq Tickets /\ crashes' \in 0..MaxCrashes
    BY <1>6, SessionFacts
<1> QED BY <1>3, <1>4, <1>5, <1>6, <1>7, MoveKeeps

LEMMA StartInsertsKeeps ==
    ASSUME SupportInv, NEW L, lock \in [People \cup Tickets -> L], NEW k \in Tasks, StartInserts(k)
    PROVE  SupportInv'
<1>1. /\ task[k].pc = "insert" /\ task[k] \in Session /\ SessionOK(task[k])
      /\ task[k].who \in People
    BY SessionFacts DEF StartInserts, SessionOK
<1>2. lock[task[k].who] # k
    BY <1>1 DEF SupportInv, LocksHeld, Holding
<1>3. CASE Registered(task[k].who)
    <2>1. PICK q \in Session : q = [task[k] EXCEPT !.pc = "reread"]
        BY <1>1 DEF Session, Pcs
    <2>2. /\ q.pc = "reread" /\ q.who = task[k].who /\ q.ticket = task[k].ticket
          /\ q.seen = task[k].seen /\ q.marks = task[k].marks /\ q.new = task[k].new
        BY <1>1, <2>1 DEF Session
    <2>3. SessionOK(q)' /\ Unmissed(q)'
        BY <1>1, <1>3, <2>2 DEF StartInserts, SessionOK, Unmissed, Registered
    <2>4. LocksGo(k, q)
        BY <1>1, <1>3, LockForms DEF StartInserts, Holding, SupportInv
    <2> QED BY <1>3, <2>1, <2>3, <2>4, MoveKeeps, SessionFacts DEF StartInserts, Goes
<1>4. CASE ~Registered(task[k].who)
    <2>1. lock[task[k].who] = NoOne
        BY <1>2 DEF StartInserts, MayInsert, Free
    <2>2. PICK q \in Session : q = [task[k] EXCEPT !.pc = "answer"]
        BY <1>1 DEF Session, Pcs
    <2>3. /\ q.pc = "answer" /\ q.who = task[k].who /\ q.ticket = task[k].ticket
          /\ q.seen = task[k].seen /\ q.marks = task[k].marks /\ q.new = task[k].new
        BY <1>1, <2>2 DEF Session
    <2>4. SessionOK(q)' /\ Unmissed(q)'
        BY <1>1, <2>3 DEF StartInserts, SessionOK, Unmissed, Registered
    <2>5. LocksGo(k, q)
        BY <1>4, <2>1, <2>3, LockForms DEF StartInserts, Holding, SupportInv
    <2> QED BY <1>4, <2>1, <2>2, <2>4, <2>5, MoveKeeps, SessionFacts DEF StartInserts, Goes
<1> QED BY <1>3, <1>4

LEMMA StartRereadsKeeps ==
    ASSUME SupportInv, NEW L, lock \in [People \cup Tickets -> L], NEW k \in Tasks, StartRereads(k)
    PROVE  SupportInv'
<1>1. /\ task[k].pc = "reread" /\ task[k] \in Session /\ SessionOK(task[k])
      /\ task[k].who \in People /\ Registered(task[k].who)
    BY SessionFacts DEF StartRereads, SessionOK
<1>2. PICK q \in Session : q = [task[k] EXCEPT !.pc = "answer"]
    BY <1>1 DEF Session, Pcs
<1>3. /\ q.pc = "answer" /\ q.who = task[k].who /\ q.ticket = task[k].ticket
      /\ q.seen = task[k].seen /\ q.marks = task[k].marks /\ q.new = task[k].new
    BY <1>1, <1>2 DEF Session
<1>4. SessionOK(q)' /\ Unmissed(q)'
    BY <1>1, <1>3 DEF StartRereads, Found, SessionOK, Unmissed, Registered
<1>5. LocksGo(k, q)
    BY <1>1, <1>3, LockForms DEF StartRereads, Found, Registered, Holding, SupportInv
<1> QED BY <1>1, <1>2, <1>4, <1>5, MoveKeeps, SessionFacts DEF StartRereads, Found, Registered, Goes

LEMMA MessageArrivesKeeps ==
    ASSUME SupportInv, NEW L, lock \in [People \cup Tickets -> L],
           NEW k \in Tasks, NEW p \in People, MessageArrives(k, p)
    PROVE  SupportInv'
<1> DEFINE t == Continued(p)
           old == IF t = 0 THEN "open" ELSE ticket[t].status
<1>1. /\ t \in 0..MaxTickets
      /\ t # 0 => t \in Tickets /\ ticket[t] # NoRow /\ ticket[t].status \in {"open", "answered"}
    BY ContinuedType DEF SupportInv
<1>2. old \in TicketStatuses /\ (t # 0 => old = "answered" \/ ticket[t].status = "open")
    BY <1>1 DEF TicketStatuses
<1>3. t <= made
    BY <1>1, SessionFacts DEF SupportInv, TicketsKnown
<1>4. task' = [task EXCEPT ![k] = [Idle EXCEPT !.pc = "write", !.who = p, !.ticket = t, !.old = old]]
    BY DEF MessageArrives
<1> HIDE DEF old
<1>5. PICK q \in Session : q = [Idle EXCEPT !.pc = "write", !.who = p, !.ticket = t, !.old = old]
    BY <1>1, <1>2, IdleType DEF Session, Pcs
<1>6. /\ q.pc = "write" /\ q.who = p /\ q.ticket = t /\ q.old = old /\ q.seen = {}
      /\ q.marks = {} /\ q.new = "none"
    BY <1>5, IdleType DEF Session
<1>7. 0 \notin Tickets
    BY SessionFacts DEF Tickets
<1> HIDE DEF t
<1>8. SessionOK(q)' /\ Unmissed(q)'
    BY <1>1, <1>2, <1>3, <1>6, <1>7
    DEF MessageArrives, SessionOK, Unmissed, Active, Registered
<1>9. LocksGo(k, q)
    BY LockForms, IdleType DEF MessageArrives, Takes, Holding, SupportInv
<1>10. task' = [task EXCEPT ![k] = q]
    BY <1>4, <1>5
<1>11. /\ UNCHANGED <<row, ticket, made, lock, asked, startFailed, replied, waiting, crashes>>
       /\ events' \in 0..MaxEvents
    BY EventType DEF MessageArrives
<1>12. /\ made' \in 0..MaxTickets /\ made <= made' /\ replied \subseteq replied'
       /\ replied' \subseteq Tickets /\ crashes' \in 0..MaxCrashes
    BY <1>11, SessionFacts
<1> QED BY <1>8, <1>9, <1>10, <1>11, <1>12, MoveKeeps

LEMMA MessageWritesKeeps ==
    ASSUME SupportInv, NEW L, lock \in [People \cup Tickets -> L], NEW k \in Tasks, MessageWrites(k)
    PROVE  SupportInv'
<1>1. /\ task[k].pc = "write" /\ task[k] \in Session /\ SessionOK(task[k]) /\ Unmissed(task[k])
      /\ task[k].who \in People /\ Registered(task[k].who) /\ task[k].ticket <= made
    BY SessionFacts DEF MessageWrites, SessionOK
<1> DEFINE t == IF task[k].ticket = 0 THEN made + 1 ELSE task[k].ticket
<1>2. /\ t \in 0..MaxTickets /\ t # 0 /\ made' \in 0..MaxTickets /\ made <= made' /\ t <= made'
      /\ t # task[k].ticket => t = made + 1
    <2>1. task[k].ticket \in 0..MaxTickets
        BY <1>1 DEF Session
    <2>2. CASE task[k].ticket = 0
        BY <2>1, <2>2, SessionFacts DEF MessageWrites
    <2>3. CASE task[k].ticket # 0
        BY <1>1, <2>1, <2>3, SessionFacts DEF MessageWrites
    <2> QED BY <2>2, <2>3
<1>3. task' = [task EXCEPT ![k] = [task[k] EXCEPT !.pc = "confirm", !.ticket = t]]
    <2>1. CASE task[k].ticket = 0
        BY <1>1, <2>1 DEF MessageWrites, SupportInv, SupportTypeOK, Session
    <2>2. CASE task[k].ticket # 0
        BY <1>1, <2>2 DEF MessageWrites, Goes, SupportInv, SupportTypeOK, Session
    <2> QED BY <2>1, <2>2
<1> HIDE DEF t
<1>4. PICK q \in Session : q = [task[k] EXCEPT !.pc = "confirm", !.ticket = t]
    BY <1>1, <1>2 DEF Session, Pcs
<1>5. /\ q.pc = "confirm" /\ q.who = task[k].who /\ q.ticket = t /\ q.old = task[k].old
      /\ q.seen = task[k].seen /\ q.marks = task[k].marks /\ q.new = task[k].new
      /\ q.acted = task[k].acted
    BY <1>1, <1>4 DEF Session
<1>6. UNCHANGED <<row, ticket, asked, startFailed, replied, waiting, events, crashes>>
    BY DEF MessageWrites
<1>7. t \in Tickets /\ ticket[t] # NoRow => t = task[k].ticket
    <2>1. ~(made + 1 <= made)
        BY SessionFacts
    <2> QED BY <1>2, <2>1 DEF SupportInv, TicketsKnown
<1>8. SessionOK(q)'
    <2>1. q.new = "answered" => q.ticket \in replied
        <3> SUFFICES ASSUME q.new = "answered" PROVE t \in replied
            BY <1>5
        <3>1. task[k].ticket \in replied
            BY <1>1, <1>5 DEF SessionOK
        <3>2. task[k].ticket # 0
            BY <3>1, SessionFacts DEF Tickets
        <3> QED BY <3>1, <3>2 DEF t
    <2> QED BY <1>1, <1>2, <1>5, <1>6, <2>1 DEF SessionOK, Registered
<1>9. Unmissed(q)'
    BY <1>1, <1>5, <1>6, <1>7 DEF Unmissed
<1>10. LocksGo(k, q)
    BY <1>5, LockForms DEF MessageWrites, Holding, SupportInv
<1>11. replied \subseteq replied' /\ replied' \subseteq Tickets
    BY <1>6, SessionFacts
<1>12. events' \in 0..MaxEvents /\ crashes' \in 0..MaxCrashes
    BY <1>6, SessionFacts
<1>13. task' = [task EXCEPT ![k] = q]
    BY <1>3, <1>4
<1> QED BY <1>2, <1>6, <1>8, <1>9, <1>10, <1>11, <1>12, <1>13, MoveKeeps

\* A step that changes nothing but the fields of a session.
LEMMA SessionMoves ==
    ASSUME SupportInv, NEW L, lock \in [People \cup Tickets -> L], NEW k \in Tasks,
           NEW q \in Session, task' = [task EXCEPT ![k] = q],
           SessionOK(q), Unmissed(q), q.pc \in Holding \/ task[k].pc \notin Holding,
           UNCHANGED <<row, ticket, made, lock, asked, startFailed, replied, waiting, crashes>>,
           events' \in 0..MaxEvents
    PROVE  SupportInv'
<1>1. SessionOK(q)' /\ Unmissed(q)'
    BY DEF SessionOK, Unmissed, Registered
<1>2. LocksGo(k, q)
    BY LockForms DEF SupportInv
<1>3. made' \in 0..MaxTickets /\ made <= made'
    BY SessionFacts
<1>4. replied \subseteq replied' /\ replied' \subseteq Tickets /\ crashes' \in 0..MaxCrashes
    BY SessionFacts
<1> QED BY <1>1, <1>2, <1>3, <1>4, MoveKeeps

LEMMA MessageConfirmsKeeps ==
    ASSUME SupportInv, NEW L, lock \in [People \cup Tickets -> L], NEW k \in Tasks, MessageConfirms(k)
    PROVE  SupportInv'
<1>1. /\ task[k].pc = "confirm" /\ task[k] \in Session /\ SessionOK(task[k]) /\ Unmissed(task[k])
    BY SessionFacts DEF MessageConfirms
<1>2. PICK S \in {{}, {p \in People : IsAdmin(p) /\ Active(p)}} :
          task' = [task EXCEPT ![k].pc = "alert", ![k].todo = S,
                               ![k].seen = {p \in S : ~row[p].blocked}]
    BY DEF MessageConfirms
<1> DEFINE seen == {p \in S : ~row[p].blocked}
<1>3. S \subseteq People /\ seen \subseteq People /\ \A p \in seen : Registered(p)
    BY DEF IsAdmin
<1>4. task' = [task EXCEPT ![k] = [task[k] EXCEPT !.pc = "alert", !.todo = S, !.seen = seen]]
    BY <1>1, <1>2 DEF SupportInv, SupportTypeOK
<1> HIDE DEF seen
<1>5. PICK q \in Session : q = [task[k] EXCEPT !.pc = "alert", !.todo = S, !.seen = seen]
    BY <1>1, <1>3 DEF Session, Pcs
<1>6. /\ q.pc = "alert" /\ q.who = task[k].who /\ q.ticket = task[k].ticket /\ q.old = task[k].old
      /\ q.seen = seen /\ q.marks = task[k].marks /\ q.new = task[k].new
      /\ q.acted = task[k].acted
    BY <1>1, <1>5 DEF Session
<1>7. SessionOK(q) /\ Unmissed(q)
    BY <1>1, <1>3, <1>6 DEF SessionOK, Unmissed
<1>8. task' = [task EXCEPT ![k] = q] /\ q.pc \in Holding
    BY <1>4, <1>5, <1>6 DEF Holding
<1>9. /\ UNCHANGED <<row, ticket, made, lock, asked, startFailed, replied, waiting, crashes>>
      /\ events' \in 0..MaxEvents
    BY SessionFacts DEF MessageConfirms
<1> QED BY <1>7, <1>8, <1>9, SessionMoves

LEMMA MessageAlertsKeeps ==
    ASSUME SupportInv, NEW L, lock \in [People \cup Tickets -> L], NEW k \in Tasks, MessageAlerts(k)
    PROVE  SupportInv'
<1>1. /\ task[k].pc = "alert" /\ task[k] \in Session /\ SessionOK(task[k]) /\ Unmissed(task[k])
    BY SessionFacts DEF MessageAlerts
<1>2. PICK T \in SUBSET task[k].todo, M \in SUBSET (task[k].marks \cup task[k].seen) :
          task' = [task EXCEPT ![k] = [task[k] EXCEPT !.todo = T, !.marks = M]]
    <2>1. /\ task[k].todo \subseteq People /\ task[k].marks \subseteq People
          /\ task \in [Tasks -> Session]
        BY <1>1 DEF Session, SupportInv, SupportTypeOK
    <2>2. PICK a \in task[k].todo :
              \/ task' = [task EXCEPT ![k].todo = task[k].todo \ {a}]
              \/ task' = [task EXCEPT ![k].todo = task[k].todo \ {a},
                                      ![k].marks = task[k].marks \cup ({a} \cap task[k].seen)]
              \/ task' = [task EXCEPT ![k].todo = {}]
        BY DEF MessageAlerts
    <2>3. \A T : [task EXCEPT ![k].todo = T]
                 = [task EXCEPT ![k] = [task[k] EXCEPT !.todo = T, !.marks = task[k].marks]]
        BY <1>1, <2>1 DEF Session
    <2>4. \A T, M : [task EXCEPT ![k].todo = T, ![k].marks = M]
                 = [task EXCEPT ![k] = [task[k] EXCEPT !.todo = T, !.marks = M]]
        BY <1>1, <2>1 DEF Session
    <2>5. CASE task' = [task EXCEPT ![k].todo = task[k].todo \ {a}]
        BY <2>3, <2>5
    <2>6. CASE task' = [task EXCEPT ![k].todo = task[k].todo \ {a},
                                    ![k].marks = task[k].marks \cup ({a} \cap task[k].seen)]
        <3> DEFINE T == task[k].todo \ {a}
                   M == task[k].marks \cup ({a} \cap task[k].seen)
        <3>1. T \in SUBSET task[k].todo /\ M \in SUBSET (task[k].marks \cup task[k].seen)
            OBVIOUS
        <3>2. task' = [task EXCEPT ![k].todo = T, ![k].marks = M]
            BY <2>6
        <3> HIDE DEF T, M
        <3>3. task' = [task EXCEPT ![k] = [task[k] EXCEPT !.todo = T, !.marks = M]]
            BY <2>4, <3>2
        <3> QED BY <3>1, <3>3
    <2>7. CASE task' = [task EXCEPT ![k].todo = {}]
        BY <2>3, <2>7
    <2> QED BY <2>2, <2>5, <2>6, <2>7
<1>3. T \subseteq People /\ M \subseteq People
    BY <1>1 DEF Session
<1>4. PICK q \in Session : q = [task[k] EXCEPT !.todo = T, !.marks = M]
    BY <1>1, <1>3 DEF Session
<1>5. /\ q.pc = "alert" /\ q.who = task[k].who /\ q.ticket = task[k].ticket /\ q.old = task[k].old
      /\ q.seen = task[k].seen /\ q.marks = M /\ q.new = task[k].new
      /\ q.acted = task[k].acted
    BY <1>1, <1>4 DEF Session
<1>6. SessionOK(q) /\ Unmissed(q)
    BY <1>1, <1>5 DEF SessionOK, Unmissed
<1>7. task' = [task EXCEPT ![k] = q] /\ q.pc \in Holding
    BY <1>2, <1>4, <1>5 DEF Holding
<1>8. /\ UNCHANGED <<row, ticket, made, lock, asked, startFailed, replied, waiting, crashes>>
      /\ events' \in 0..MaxEvents
    BY SessionFacts DEF MessageAlerts
<1> QED BY <1>6, <1>7, <1>8, SessionMoves

LEMMA ReplyArrivesKeeps ==
    ASSUME SupportInv, NEW L, lock \in [People \cup Tickets -> L],
           NEW k \in Tasks, NEW a \in People, ReplyArrives(k, a)
    PROVE  SupportInv'
<1> DEFINE t == asked[a]
           seen == {p \in {ticket[t].who} : ~row[p].blocked}
<1>1. t # 0 /\ IsAdmin(a)
    BY DEF ReplyArrives
<1>2. t \in Tickets /\ t \in 0..MaxTickets
    BY <1>1, SessionFacts DEF SupportInv, SupportTypeOK, Tickets
<1>3. ticket[t] # NoRow /\ t <= made /\ Registered(ticket[t].who)
    BY <1>1, <1>2 DEF SupportInv, AskedKnown, TicketsKnown
<1>4. ticket[t] \in Ticket
    BY <1>2, <1>3, SessionFacts
<1>5. ticket[t].status \in TicketStatuses /\ ticket[t].who \in People
    BY <1>4 DEF Ticket
<1>6. seen \subseteq People /\ \A p \in seen : Registered(p)
    BY <1>3, <1>5
<1>7. task' = [task EXCEPT ![k] = [Idle EXCEPT !.pc = "send", !.who = a, !.ticket = t,
                                               !.old = ticket[t].status, !.seen = seen]]
    BY DEF ReplyArrives
<1> HIDE DEF seen, t
<1>8. PICK q \in Session : q = [Idle EXCEPT !.pc = "send", !.who = a, !.ticket = t,
                                            !.old = ticket[t].status, !.seen = seen]
    BY <1>2, <1>5, <1>6, IdleType DEF Session, Pcs
<1>9. /\ q.pc = "send" /\ q.who = a /\ q.ticket = t /\ q.seen = seen /\ q.marks = {}
      /\ q.new = "none"
    BY <1>8, IdleType DEF Session
<1>10. SessionOK(q) /\ Unmissed(q)
    BY <1>1, <1>3, <1>6, <1>9 DEF SessionOK, Unmissed, IsAdmin
<1>11. task' = [task EXCEPT ![k] = q] /\ task[k].pc \notin Holding
    BY <1>7, <1>8, IdleType DEF ReplyArrives, Takes, Holding
<1>12. /\ UNCHANGED <<row, ticket, made, lock, asked, startFailed, replied, waiting, crashes>>
       /\ events' \in 0..MaxEvents
    BY EventType DEF ReplyArrives
<1> QED BY <1>10, <1>11, <1>12, SessionMoves

LEMMA ReplySendsKeeps ==
    ASSUME SupportInv, NEW L, lock \in [People \cup Tickets -> L], NEW k \in Tasks, ReplySends(k)
    PROVE  SupportInv'
<1>1. /\ task[k].pc = "send" /\ task[k] \in Session /\ SessionOK(task[k])
    BY SessionFacts DEF ReplySends
<1>2. PICK n \in TicketStatuses \cup {"none"}, M \in SUBSET (task[k].marks \cup task[k].seen) :
          /\ task' = [task EXCEPT ![k] = [task[k] EXCEPT !.pc = "save", !.new = n, !.marks = M]]
          /\ replied' = replied \/ replied' = replied \cup {task[k].ticket}
          /\ n = "answered" => task[k].ticket \in replied'
    <2>1. task \in [Tasks -> Session] /\ task[k].marks \subseteq People /\ task[k].seen \subseteq People
        BY <1>1 DEF SupportInv, SupportTypeOK, Session
    <2>2. CASE /\ task' = [task EXCEPT ![k].pc = "save", ![k].new = "answered"]
               /\ replied' = replied \cup {task[k].ticket}
        <3>1. task' = [task EXCEPT ![k] = [task[k] EXCEPT !.pc = "save", !.new = "answered",
                                                          !.marks = task[k].marks]]
            BY <1>1, <2>1, <2>2 DEF Session
        <3>2. "answered" \in TicketStatuses \cup {"none"}
            BY DEF TicketStatuses
        <3> QED BY <2>2, <3>1, <3>2
    <2>3. CASE /\ task' = [task EXCEPT ![k].pc = "save", ![k].new = "closed",
                                       ![k].marks = task[k].seen]
               /\ replied' = replied
        <3>1. task' = [task EXCEPT ![k] = [task[k] EXCEPT !.pc = "save", !.new = "closed",
                                                          !.marks = task[k].seen]]
            BY <1>1, <2>1, <2>3 DEF Session
        <3>2. "closed" \in TicketStatuses \cup {"none"}
            BY DEF TicketStatuses
        <3> QED BY <2>3, <3>1, <3>2
    <2>4. CASE Goes(k, "save") /\ replied' = replied
        <3>1. task' = [task EXCEPT ![k] = [task[k] EXCEPT !.pc = "save", !.new = task[k].new,
                                                          !.marks = task[k].marks]]
            BY <1>1, <2>1, <2>4 DEF Session, Goes
        <3>2. task[k].new \in TicketStatuses \cup {"none"}
            BY <1>1 DEF Session
        <3> QED BY <1>1, <2>4, <3>1, <3>2 DEF SessionOK
    <2> QED BY <2>2, <2>3, <2>4 DEF ReplySends
<1>3. M \subseteq People
    BY <1>1 DEF Session
<1>4. PICK q \in Session : q = [task[k] EXCEPT !.pc = "save", !.new = n, !.marks = M]
    BY <1>1, <1>3 DEF Session, Pcs
<1>5. /\ q.pc = "save" /\ q.who = task[k].who /\ q.ticket = task[k].ticket
      /\ q.seen = task[k].seen /\ q.marks = M /\ q.new = n
    BY <1>1, <1>4 DEF Session
<1>6. UNCHANGED <<row, ticket, made, lock, asked, startFailed, waiting, events, crashes>>
    BY DEF ReplySends
<1>7. SessionOK(q)' /\ Unmissed(q)'
    BY <1>1, <1>2, <1>5, <1>6 DEF SessionOK, Unmissed, Registered
<1>8. LocksGo(k, q)
    BY <1>1, <1>6, LockForms DEF Holding, SupportInv
<1>9. made' \in 0..MaxTickets /\ made <= made'
    BY <1>6, SessionFacts
<1>10. events' \in 0..MaxEvents /\ crashes' \in 0..MaxCrashes
    BY <1>6, SessionFacts
<1>11. replied \subseteq replied' /\ replied' \subseteq Tickets
    <2>1. task[k].ticket \in Tickets
        BY <1>1, SessionFacts DEF SessionOK, Session, Tickets
    <2> QED BY <1>2, <2>1, SessionFacts
<1>12. task' = [task EXCEPT ![k] = q]
    BY <1>2, <1>4
<1> QED BY <1>6, <1>7, <1>8, <1>9, <1>10, <1>11, <1>12, MoveKeeps

-----------------------------------------------------------------------------
(* Steps that write users, or end sessions.                                *)

RowsGo ==
    /\ row' \in [People -> User \cup {NoRow}]
    /\ \A p \in People : Registered(p) => row'[p] # NoRow
    /\ BannedIsBlocked'

LEMMA EndsKeep ==
    ASSUME SupportInv, RowsGo, task' \in [Tasks -> Session],
           \A j \in Tasks : task'[j] = task[j] \/ task'[j] = Idle,
           LocksHeld', asked' = asked \/ asked' = [p \in People |-> 0],
           UNCHANGED <<ticket, made, replied, waiting, startFailed>>,
           events' \in 0..MaxEvents, crashes' \in 0..MaxCrashes
    PROVE  SupportInv'
<1>0. /\ SupportTypeOK /\ StartNeverFails /\ AnsweredWasDelivered /\ WaitingIsOpen
      /\ TicketsKnown /\ AskedKnown /\ 0 \in 0..MaxTickets
    BY SupportAssumption DEF SupportInv
<1>1. SupportTypeOK'
    BY <1>0 DEF SupportTypeOK, RowsGo
<1>2. AllSessionsOK'
    <2> SUFFICES ASSUME NEW j \in Tasks PROVE SessionOK(task[j])' /\ Unmissed(task[j])'
        BY DEF AllSessionsOK
    <2>1. PICK x \in Session : x = task'[j]
        OBVIOUS
    <2>2. made \in Nat
        BY SessionFacts
    <2>3. SessionOK(x) /\ Unmissed(x)
        <3>1. CASE x = Idle
            BY <2>2, <3>1, IdleType DEF SessionOK, Unmissed
        <3>2. CASE x = task[j]
            BY <3>2, SessionFacts
        <3> QED BY <2>1, <3>1, <3>2
    <2>4. x.seen \subseteq People /\ x.marks \subseteq People
        BY DEF Session
    <2>5. SessionOK(x)' /\ Unmissed(x)'
        BY <2>3, <2>4 DEF SessionOK, Unmissed, Registered, RowsGo
    <2> QED BY <2>1, <2>5 DEF SessionOK, Unmissed, Registered
<1>3. TicketsKnown'
    <2>1. \A t \in Tickets : ticket[t] # NoRow => ticket[t].who \in People
        BY SessionFacts, <1>0 DEF SupportTypeOK, Ticket
    <2> QED BY <1>0, <2>1 DEF TicketsKnown, Registered, RowsGo
<1>4. AskedKnown'
    BY <1>0 DEF AskedKnown
<1>5. StartNeverFails' /\ AnsweredWasDelivered' /\ WaitingIsOpen'
    BY <1>0 DEF StartNeverFails, AnsweredWasDelivered, WaitingIsOpen
<1> QED BY <1>1, <1>2, <1>3, <1>4, <1>5 DEF SupportInv, RowsGo

LEMMA SameRows == ASSUME SupportInv, row' = row PROVE RowsGo
BY DEF SupportInv, SupportTypeOK, RowsGo, BannedIsBlocked, Registered

\* Rows that are only marked as blocked.
LEMMA MarkedGo ==
    ASSUME SupportInv, NEW S, \A p \in S : Registered(p), row' = Marked(S)
    PROVE  RowsGo
<1>1. /\ Marked(S) \in [People -> User \cup {NoRow}]
      /\ \A p \in People : /\ Marked(S)[p] = NoRow <=> row[p] = NoRow
                           /\ p \notin S => Marked(S)[p] = row[p]
                           /\ Registered(p) => Marked(S)[p].status = row[p].status
                           /\ p \in S => Marked(S)[p].blocked = TRUE
    BY MarkedRows DEF SupportInv
<1>2. BannedIsBlocked'
    <2> SUFFICES ASSUME NEW p \in People, row'[p] # NoRow, row'[p].status = "banned"
                 PROVE  row'[p].blocked = TRUE
        BY DEF BannedIsBlocked, Registered
    <2>1. Registered(p) /\ row[p].status = "banned"
        BY <1>1 DEF Registered
    <2>2. row[p].blocked = TRUE
        BY <2>1 DEF SupportInv, BannedIsBlocked
    <2> QED BY <1>1, <2>2
<1> QED BY <1>1, <1>2 DEF RowsGo, Registered

\* A session has ended and released its rows.
LEMMA ReleasedLocks ==
    ASSUME SupportInv, NEW L, lock \in [People \cup Tickets -> L], NEW k \in Tasks,
           lock' = Released(k),
           \A j \in Tasks : j # k => (task'[j].pc \in Holding \/ task'[j].pc = task[j].pc)
    PROVE  LocksHeld'
<1>1. NoOne \notin Tasks
    BY SupportAssumption
<1> QED BY <1>1 DEF SupportInv, LocksHeld, Released

LEMMA StartCommitsKeeps ==
    ASSUME SupportInv, NEW L, lock \in [People \cup Tickets -> L], NEW k \in Tasks, StartCommits(k)
    PROVE  SupportInv' /\ RowsGo
<1>1. task[k].pc = "answer" /\ task[k].who \in People
    BY SessionFacts DEF StartCommits, SessionOK
<1>2. PICK p \in People : p = task[k].who
    BY <1>1
<1>3. row' = row \/ row' = [row EXCEPT ![p] = NewUser(p)]
    BY <1>2 DEF StartCommits
<1>4. RowsGo
    <2>1. CASE row' = row
        BY <2>1, SameRows
    <2>2. CASE row' = [row EXCEPT ![p] = NewUser(p)]
        BY <2>2, NewUserType
        DEF SupportInv, SupportTypeOK, RowsGo, BannedIsBlocked, Registered
    <2> QED BY <1>3, <2>1, <2>2
<1>5. /\ task' \in [Tasks -> Session]
      /\ \A j \in Tasks : task'[j] = IF j = k THEN Idle ELSE task[j]
    BY IdleType DEF StartCommits, SupportInv, SupportTypeOK
<1>6. LocksHeld'
    BY <1>5, ReleasedLocks DEF StartCommits
<1>7. events' \in 0..MaxEvents /\ crashes' \in 0..MaxCrashes
    BY SessionFacts DEF StartCommits
<1>8. UNCHANGED <<ticket, made, asked, replied, waiting, startFailed>>
    BY DEF StartCommits
<1> QED BY <1>4, <1>5, <1>6, <1>7, <1>8, EndsKeep

LEMMA ToggleBanKeeps ==
    ASSUME SupportInv, NEW p \in People, ToggleBan(p)
    PROVE  SupportInv' /\ RowsGo
<1>1. row[p] \in User /\ row[p] # NoRow
    BY SessionFacts DEF ToggleBan, Registered, SupportInv, SupportTypeOK
<1>2. PICK u \in User : /\ row' = [row EXCEPT ![p] = u]
                        /\ u.status = "banned" => u.blocked = TRUE
    <2>1. /\ Banned(row[p]) \in User /\ Banned(row[p]).blocked = TRUE
          /\ Unbanned(row[p]) \in User /\ Unbanned(row[p]).status = "active"
        BY <1>1 DEF Banned, Unbanned, User
    <2>2. CASE row[p].status = "banned"
        <3>1. row' = [row EXCEPT ![p] = Unbanned(row[p])]
            BY <2>2 DEF ToggleBan, SupportInv, SupportTypeOK
        <3> QED BY <2>1, <3>1
    <2>3. CASE row[p].status # "banned"
        <3>1. row' = [row EXCEPT ![p] = Banned(row[p])]
            BY <2>3 DEF ToggleBan, SupportInv, SupportTypeOK
        <3> QED BY <2>1, <3>1
    <2> QED BY <2>2, <2>3
<1>3. u # NoRow
    BY NoRowAssumption
<1>4. RowsGo
    BY <1>2, <1>3 DEF SupportInv, SupportTypeOK, RowsGo, BannedIsBlocked, Registered
<1>5. UNCHANGED <<ticket, made, task, lock, asked, startFailed, replied, waiting, crashes>>
    BY DEF ToggleBan
<1>6. task' \in [Tasks -> Session] /\ LocksHeld'
    BY <1>5 DEF SupportInv, SupportTypeOK, LocksHeld
<1>7. events' \in 0..MaxEvents /\ crashes' \in 0..MaxCrashes
    BY <1>5, EventType, SupportAssumption DEF ToggleBan, SupportInv, SupportTypeOK
<1> QED BY <1>4, <1>5, <1>6, <1>7, EndsKeep

LEMMA ToggleAdminKeeps ==
    ASSUME SupportInv, NEW p \in People, ToggleAdmin(p)
    PROVE  SupportInv' /\ RowsGo
<1>1. row[p] \in User /\ row[p] # NoRow
    BY DEF ToggleAdmin, Registered, SupportInv, SupportTypeOK
<1> DEFINE role == IF row[p].role = "user" THEN "admin" ELSE "user"
<1>2. role \in {"user", "admin", "owner"} /\ row' = [row EXCEPT ![p] = [row[p] EXCEPT !.role = role]]
    BY DEF ToggleAdmin, SupportInv, SupportTypeOK
<1> HIDE DEF role
<1>3. PICK u \in User : /\ row' = [row EXCEPT ![p] = u]
                        /\ u.status = row[p].status /\ u.blocked = row[p].blocked
    <2>1. [row[p] EXCEPT !.role = role] \in User
        BY <1>1, <1>2 DEF User
    <2>2. /\ [row[p] EXCEPT !.role = role].status = row[p].status
          /\ [row[p] EXCEPT !.role = role].blocked = row[p].blocked
        BY <1>1 DEF User
    <2> QED BY <1>2, <2>1, <2>2
<1>4. u # NoRow
    BY NoRowAssumption
<1>5. row[p].status = "banned" => row[p].blocked = TRUE
    BY <1>1 DEF SupportInv, BannedIsBlocked, Registered
<1>6. RowsGo
    BY <1>3, <1>4, <1>5 DEF SupportInv, SupportTypeOK, RowsGo, BannedIsBlocked, Registered
<1>7. UNCHANGED <<ticket, made, task, lock, asked, startFailed, replied, waiting, crashes>>
    BY DEF ToggleAdmin
<1>8. task' \in [Tasks -> Session] /\ LocksHeld'
    BY <1>7 DEF SupportInv, SupportTypeOK, LocksHeld
<1>9. events' \in 0..MaxEvents /\ crashes' \in 0..MaxCrashes
    BY <1>7, EventType DEF ToggleAdmin, SupportInv, SupportTypeOK
<1> QED BY <1>6, <1>7, <1>8, <1>9, EndsKeep

LEMMA BotCrashKeeps ==
    ASSUME SupportInv, NEW L, lock \in [People \cup Tickets -> L], BotCrash
    PROVE  SupportInv'
<1>1. task' \in [Tasks -> Session] /\ \A j \in Tasks : task'[j] = Idle
    BY IdleType DEF BotCrash
<1>2. LocksHeld'
    <2>1. NoOne \notin Tasks
        BY SupportAssumption
    <2> QED BY <2>1 DEF BotCrash, LocksHeld
<1>3. RowsGo
    BY SameRows DEF BotCrash
<1>4. events' \in 0..MaxEvents /\ crashes' \in 0..MaxCrashes
    BY SessionFacts, EventType, SupportAssumption DEF BotCrash, SupportInv, SupportTypeOK
<1>5. /\ asked' = [p \in People |-> 0]
      /\ UNCHANGED <<ticket, made, replied, waiting, startFailed>>
    BY DEF BotCrash
<1> QED BY <1>1, <1>2, <1>3, <1>4, <1>5, EndsKeep

-----------------------------------------------------------------------------
(* Steps that write the ticket t: its row is u afterwards.                 *)

\* The session of j has ended, goes on, or has been told that an
\* administrator has acted on its ticket.
Told(q) == [q EXCEPT !.acted = TRUE]
GoesOn(j) ==
    \/ task'[j] = Idle
    \/ task'[j] = task[j]
    \/ task'[j] = Told(task[j])

LEMMA DeskKeeps ==
    ASSUME SupportInv, RowsGo, LocksHeld', NEW t \in Tickets, NEW u \in Ticket,
           ticket' = [ticket EXCEPT ![t] = u],
           t <= made, Registered(u.who), u.status = "answered" => t \in replied,
           task' \in [Tasks -> Session], \A j \in Tasks : GoesOn(j),
           \/ u = ticket[t] \/ u.status = "open"
           \/ \A j \in Tasks : task'[j].ticket = t => task'[j].acted = TRUE,
           waiting' \subseteq waiting \cup {t}, t \in waiting' => u.status = "open",
           asked' \in [People -> 0..MaxTickets],
           \A a \in People : asked'[a] = asked[a] \/ asked'[a] = 0,
           UNCHANGED <<made, replied, startFailed>>,
           events' \in 0..MaxEvents, crashes' \in 0..MaxCrashes
    PROVE  SupportInv'
<1>0. /\ SupportTypeOK /\ StartNeverFails /\ AnsweredWasDelivered /\ WaitingIsOpen
      /\ TicketsKnown /\ AskedKnown
    BY DEF SupportInv
<1>1. u # NoRow /\ u.who \in People
    BY NoRowAssumption DEF Ticket
<1>2. \A s \in Tickets : ticket'[s] = IF s = t THEN u ELSE ticket[s]
    BY <1>0 DEF SupportTypeOK
<1>3. SupportTypeOK'
    <2>1. ticket' \in [Tickets -> Ticket \cup {NoRow}]
        BY <1>0 DEF SupportTypeOK
    <2>2. waiting' \subseteq Tickets
        BY <1>0 DEF SupportTypeOK
    <2> QED BY <1>0, <2>1, <2>2 DEF SupportTypeOK, RowsGo
<1>4. AllSessionsOK'
    <2> SUFFICES ASSUME NEW j \in Tasks PROVE SessionOK(task[j])' /\ Unmissed(task[j])'
        BY DEF AllSessionsOK
    <2>1. PICK x \in Session : x = task'[j]
        OBVIOUS
    <2>2. made \in Nat
        BY SessionFacts
    <2>3. SessionOK(x) /\ Unmissed(x)
        <3>1. CASE x = Idle
            BY <2>2, <3>1, IdleType DEF SessionOK, Unmissed
        <3>2. CASE x = task[j]
            BY <3>2, SessionFacts
        <3>3. CASE x = Told(task[j])
            <4>1. /\ x.pc = task[j].pc /\ x.who = task[j].who /\ x.ticket = task[j].ticket
                  /\ x.seen = task[j].seen /\ x.marks = task[j].marks /\ x.new = task[j].new
                BY <3>3, SessionFacts DEF Session, Told
            <4>2. x.acted = TRUE
                BY <3>3, SessionFacts DEF Session, Told
            <4>3. SessionOK(task[j])
                BY SessionFacts
            <4> QED BY <4>1, <4>2, <4>3 DEF SessionOK, Unmissed
        <3> QED BY <2>1, <3>1, <3>2, <3>3 DEF GoesOn
    <2>4. x.seen \subseteq People /\ x.marks \subseteq People /\ x.ticket \in 0..MaxTickets
        BY DEF Session
    <2>5. SessionOK(x)'
        <3>1. x.pc \in {"send", "save"} => ticket'[x.ticket] # NoRow
            <4> SUFFICES ASSUME x.pc \in {"send", "save"} PROVE ticket'[x.ticket] # NoRow
                OBVIOUS
            <4>1. x.ticket \in Tickets
                BY <2>3, <2>4, SupportAssumption DEF SessionOK, Tickets
            <4> QED BY <1>1, <1>2, <2>3, <4>1 DEF SessionOK
        <3> QED BY <2>3, <2>4, <3>1 DEF SessionOK, Registered, RowsGo
    <2>6. Unmissed(x)'
        <3> SUFFICES ASSUME x.pc \in {"write", "confirm", "alert"}, x.acted = FALSE,
                            x.ticket \in Tickets, ticket'[x.ticket] # NoRow,
                            x.old # "answered"
                     PROVE  ticket'[x.ticket].status = "open"
            BY DEF Unmissed
        <3>1. CASE x.ticket = t
            <4>1. CASE u = ticket[t]
                BY <1>1, <1>2, <2>3, <3>1, <4>1 DEF Unmissed
            <4>2. CASE u.status = "open"
                BY <1>2, <3>1, <4>2
            <4>3. CASE \A i \in Tasks : task'[i].ticket = t => task'[i].acted = TRUE
                BY <2>1, <3>1, <4>3
            <4> QED BY <4>1, <4>2, <4>3
        <3>2. CASE x.ticket # t
            BY <1>2, <2>3, <3>2 DEF Unmissed
        <3> QED BY <3>1, <3>2
    <2> QED BY <2>1, <2>5, <2>6 DEF SessionOK, Unmissed, Registered
<1>5. TicketsKnown'
    <2>1. \A s \in Tickets : ticket[s] # NoRow => ticket[s].who \in People
        BY <1>0 DEF SupportTypeOK, Ticket
    <2> QED BY <1>0, <1>1, <1>2, <2>1 DEF TicketsKnown, Registered, RowsGo
<1>6. AskedKnown'
    <2> SUFFICES ASSUME NEW a \in People, asked'[a] # 0 PROVE ticket'[asked'[a]] # NoRow
        BY DEF AskedKnown
    <2>1. asked'[a] = asked[a] /\ asked'[a] \in Tickets
        BY SupportAssumption DEF Tickets
    <2> QED BY <1>0, <1>1, <1>2, <2>1 DEF AskedKnown
<1>7. AnsweredWasDelivered'
    BY <1>0, <1>2 DEF AnsweredWasDelivered
<1>8. WaitingIsOpen'
    BY <1>0, <1>1, <1>2 DEF WaitingIsOpen
<1>9. StartNeverFails'
    BY <1>0 DEF StartNeverFails
<1> QED BY <1>3, <1>4, <1>5, <1>6, <1>7, <1>8, <1>9 DEF SupportInv, RowsGo

LEMMA MessageCommitsKeeps ==
    ASSUME SupportInv, NEW L, lock \in [People \cup Tickets -> L], NEW k \in Tasks, MessageCommits(k)
    PROVE  SupportInv' /\ RowsGo
<1> DEFINE q == task[k]
<1>1. q.pc = "alert" /\ q \in Session /\ SessionOK(q) /\ Unmissed(q)
    BY SessionFacts DEF MessageCommits
<1>2. /\ q.who \in People /\ Registered(q.who) /\ q.ticket <= made /\ q.ticket # 0
      /\ \A p \in q.marks : Registered(p)
    BY <1>1 DEF SessionOK
<1>3. PICK t \in Tickets : t = q.ticket
    BY <1>1, <1>2, SupportAssumption DEF Session, Tickets
<1> DEFINE new == [who |-> q.who, status |-> "open"]
<1>4. new \in Ticket /\ new.status = "open" /\ new.who = q.who
    BY <1>2 DEF Ticket, TicketStatuses
<1>5. \/ ticket' = [ticket EXCEPT ![t] = new]
      \/ ticket[t] # NoRow /\ ~Reopens(q) /\ ticket' = ticket
    BY <1>3 DEF MessageCommits
<1>6. waiting' = waiting \/ (q.acted = FALSE /\ waiting' = waiting \cup {t})
    <2>1. q.acted = TRUE \/ q.acted = FALSE
        BY <1>1 DEF Session
    <2>2. waiting' = IF q.acted THEN waiting ELSE waiting \cup {q.ticket}
        BY DEF MessageCommits
    <2> HIDE DEF q
    <2>3. CASE q.acted = TRUE
        BY <2>2, <2>3, Zenon
    <2>4. CASE q.acted = FALSE
        BY <1>3, <2>2, <2>4, Zenon
    <2> QED BY <2>1, <2>3, <2>4
<1>7. PICK u \in Ticket :
          /\ ticket' = [ticket EXCEPT ![t] = u]
          /\ \/ u.status = "open" /\ Registered(u.who)
             \/ u = ticket[t] /\ ticket[t] # NoRow /\ ~Reopens(q)
    <2>1. CASE ticket' = [ticket EXCEPT ![t] = new]
        BY <1>2, <1>4, <2>1
    <2>2. CASE ticket[t] # NoRow /\ ~Reopens(q) /\ ticket' = ticket
        <3>1. ticket[t] \in Ticket
            BY <2>2, SessionFacts
        <3>2. ticket' = [ticket EXCEPT ![t] = ticket[t]]
            BY <2>2 DEF SupportInv, SupportTypeOK
        <3> QED BY <2>2, <3>1, <3>2
    <2> QED BY <1>5, <2>1, <2>2
<1>8. Registered(u.who) /\ (u.status = "answered" => t \in replied)
    BY <1>7 DEF SupportInv, TicketsKnown, AnsweredWasDelivered
<1>9. t \in waiting' => u.status = "open"
    <2> SUFFICES ASSUME t \in waiting', u = ticket[t], ticket[t] # NoRow, ~Reopens(q)
                 PROVE  u.status = "open"
        BY <1>7
    <2>1. CASE t \in waiting
        BY <2>1 DEF SupportInv, WaitingIsOpen
    <2>2. CASE q.acted = FALSE
        BY <1>1, <1>3, <2>2 DEF Unmissed, Reopens
    <2> QED BY <1>6, <2>1, <2>2
<1>10. task' \in [Tasks -> Session] /\ \A j \in Tasks : task'[j] = IF j = k THEN Idle ELSE task[j]
    BY IdleType DEF MessageCommits, SupportInv, SupportTypeOK
<1>11. LocksHeld'
    BY <1>10, ReleasedLocks DEF MessageCommits
<1>12. RowsGo
    BY <1>2, MarkedGo DEF MessageCommits
<1>13. UNCHANGED <<made, asked, replied, startFailed, events, crashes>>
    BY DEF MessageCommits
<1>14. /\ events' \in 0..MaxEvents /\ crashes' \in 0..MaxCrashes
       /\ asked' \in [People -> 0..MaxTickets]
    BY <1>13 DEF SupportInv, SupportTypeOK
<1>15. waiting' \subseteq waiting \cup {t} /\ t <= made
    BY <1>2, <1>3, <1>6
<1>16. u = ticket[t] \/ u.status = "open"
    BY <1>7
<1>17. \A j \in Tasks : GoesOn(j)
    BY <1>10 DEF GoesOn
<1> QED BY <1>7, <1>8, <1>9, <1>10, <1>11, <1>12, <1>13, <1>14, <1>15, <1>16, <1>17, DeskKeeps

\* What an administrator's action tells the sessions.
LEMMA ActsForm ==
    ASSUME NEW t, NEW S \in [Tasks -> Session], Acts(t, S)
    PROVE  /\ task' \in [Tasks -> Session]
           /\ \A j \in Tasks : /\ task'[j] = S[j] \/ task'[j] = Told(S[j])
                               /\ task'[j].ticket = t => task'[j].acted = TRUE
                               /\ task'[j].pc = S[j].pc
                               /\ S[j].ticket # t => task'[j] = S[j]
           /\ waiting' = waiting \ {t}
<1>1. \A q \in Session : /\ Told(q) \in Session
                         /\ Told(q).acted = TRUE
                         /\ Told(q).pc = q.pc
    BY DEF Session, Told
<1>2. \A j \in Tasks : task'[j] = IF S[j].ticket = t THEN Told(S[j]) ELSE S[j]
    BY Zenon DEF Acts, Told
<1>3. task' = [j \in Tasks |-> task'[j]] /\ waiting' = waiting \ {t}
    BY DEF Acts
<1>4. ASSUME NEW j \in Tasks, S[j].ticket = t
      PROVE  /\ task'[j] = Told(S[j]) /\ task'[j] \in Session
             /\ task'[j].acted = TRUE /\ task'[j].pc = S[j].pc
    BY <1>1, <1>2, <1>4
<1>5. ASSUME NEW j \in Tasks, S[j].ticket # t PROVE task'[j] = S[j]
    BY <1>2, <1>5
<1> QED BY <1>3, <1>4, <1>5

LEMMA CloseKeeps ==
    ASSUME SupportInv, NEW t \in Tickets, Close(t)
    PROVE  SupportInv'
<1>1. /\ ticket[t] # NoRow /\ ticket[t] \in Ticket /\ t <= made /\ Registered(ticket[t].who)
      /\ task \in [Tasks -> Session]
    BY SessionFacts DEF Close, SupportInv, SupportTypeOK, TicketsKnown
<1>2. PICK u \in Ticket : /\ ticket' = [ticket EXCEPT ![t] = u]
                          /\ u.status = "closed" /\ u.who = ticket[t].who
    <2>1. /\ [ticket[t] EXCEPT !.status = "closed"] \in Ticket
          /\ [ticket[t] EXCEPT !.status = "closed"].status = "closed"
          /\ [ticket[t] EXCEPT !.status = "closed"].who = ticket[t].who
        BY <1>1 DEF Ticket, TicketStatuses
    <2>2. ticket' = [ticket EXCEPT ![t] = [ticket[t] EXCEPT !.status = "closed"]]
        BY DEF Close
    <2> QED BY <2>1, <2>2
<1>3. /\ task' \in [Tasks -> Session] /\ waiting' = waiting \ {t}
      /\ \A j \in Tasks : /\ GoesOn(j)
                          /\ task'[j].ticket = t => task'[j].acted = TRUE
                          /\ task'[j].pc = task[j].pc
    <2>1. Acts(t, task)
        BY DEF Close
    <2>2. /\ task' \in [Tasks -> Session] /\ waiting' = waiting \ {t}
          /\ \A j \in Tasks : /\ task'[j] = task[j] \/ task'[j] = Told(task[j])
                              /\ task'[j].ticket = t => task'[j].acted = TRUE
                              /\ task'[j].pc = task[j].pc
        BY <1>1, <2>1, ActsForm
    <2> QED BY <2>2 DEF GoesOn
<1>4. UNCHANGED <<row, made, lock, asked, startFailed, replied, crashes>>
    BY DEF Close
<1>5. LocksHeld'
    BY <1>3, <1>4 DEF SupportInv, LocksHeld
<1>6. RowsGo
    BY <1>4, SameRows
<1>7. /\ events' \in 0..MaxEvents /\ crashes' \in 0..MaxCrashes
      /\ asked' \in [People -> 0..MaxTickets]
    BY <1>4, EventType DEF Close, SupportInv, SupportTypeOK
<1>8. Registered(u.who) /\ u.status # "answered"
    BY <1>1, <1>2
<1> QED BY <1>1, <1>2, <1>3, <1>4, <1>5, <1>6, <1>7, <1>8, DeskKeeps

LEMMA ReplyAsksKeeps ==
    ASSUME SupportInv, NEW a \in People, NEW t \in Tickets, ReplyAsks(a, t)
    PROVE  SupportInv'
<1>1. UNCHANGED <<row, ticket, made, task, lock, startFailed, replied, waiting, events, crashes>>
    BY DEF ReplyAsks
<1>2. ticket[t] # NoRow /\ asked' = [asked EXCEPT ![a] = t] /\ t \in 0..MaxTickets
    BY SupportAssumption DEF ReplyAsks, Tickets
<1>3. SupportTypeOK'
    BY <1>1, <1>2 DEF SupportInv, SupportTypeOK
<1>4. AskedKnown'
    BY <1>1, <1>2 DEF SupportInv, SupportTypeOK, AskedKnown
<1>5. AllSessionsOK' /\ LocksHeld' /\ TicketsKnown'
    BY <1>1 DEF SupportInv, AllSessionsOK, SessionOK, Unmissed, Registered, LocksHeld, TicketsKnown
<1>6. BannedIsBlocked' /\ StartNeverFails' /\ AnsweredWasDelivered' /\ WaitingIsOpen'
    BY <1>1 DEF SupportInv, BannedIsBlocked, Registered, StartNeverFails, AnsweredWasDelivered,
                WaitingIsOpen
<1> QED BY <1>3, <1>4, <1>5, <1>6 DEF SupportInv

LEMMA ReplySavesKeeps ==
    ASSUME SupportInv, NEW L, lock \in [People \cup Tickets -> L], NEW k \in Tasks, ReplySaves(k)
    PROVE  SupportInv' /\ RowsGo
<1> DEFINE q == task[k]
<1>1. q.pc = "save" /\ q \in Session /\ SessionOK(q)
    BY SessionFacts DEF ReplySaves
<1>2. /\ q.ticket <= made /\ q.ticket # 0 /\ ticket[q.ticket] # NoRow
      /\ \A p \in q.marks : Registered(p)
      /\ q.new = "answered" => q.ticket \in replied
      /\ q.new \in TicketStatuses \cup {"none"} /\ q.old # "none"
    BY <1>1 DEF SessionOK, Session, TicketStatuses
<1>3. PICK t \in Tickets : t = q.ticket
    BY <1>1, <1>2, SupportAssumption DEF Session, Tickets
<1>4. ticket[t] \in Ticket /\ ticket[t] # NoRow /\ Registered(ticket[t].who) /\ t <= made
    BY <1>2, <1>3, SessionFacts DEF SupportInv, TicketsKnown
<1>5. RowsGo
    BY <1>2, MarkedGo DEF ReplySaves
<1>6. /\ UNCHANGED <<made, startFailed, replied>>
      /\ events' \in 0..MaxEvents /\ crashes' \in 0..MaxCrashes
    BY SessionFacts DEF ReplySaves
<1> DEFINE S == [task EXCEPT ![k] = Idle]
<1>7. S \in [Tasks -> Session] /\ \A j \in Tasks : S[j] = IF j = k THEN Idle ELSE task[j]
    BY IdleType DEF SupportInv, SupportTypeOK
<1>8. CASE q.new = "none"
    <2>1. task' = S /\ ticket' = ticket /\ UNCHANGED <<waiting, asked>> /\ lock' = Released(k)
        BY <1>8 DEF ReplySaves, Reply
    <2> HIDE DEF S
    <2>2. LocksHeld'
        BY <1>7, <2>1, ReleasedLocks
    <2>3. UNCHANGED <<ticket, made, replied, waiting, startFailed>>
        BY <1>6, <2>1
    <2> QED BY <1>5, <1>6, <1>7, <2>1, <2>2, <2>3, EndsKeep
<1>9. CASE q.new # "none"
    <2>1. Acts(t, S) /\ asked' = [asked EXCEPT ![q.who] = 0] /\ lock' = Released(k)
        BY <1>3, <1>9 DEF ReplySaves, Reply
    <2>2. PICK u \in Ticket :
              /\ ticket' = [ticket EXCEPT ![t] = u] /\ u.who = ticket[t].who
              /\ u.status = "answered" => t \in replied
        <3>1. CASE q.new = q.old
            <4>1. ticket' = ticket
                BY <3>1 DEF ReplySaves, Reply
            <4>2. ticket' = [ticket EXCEPT ![t] = ticket[t]]
                BY <4>1 DEF SupportInv, SupportTypeOK
            <4> QED BY <1>4, <4>2 DEF SupportInv, AnsweredWasDelivered
        <3>2. CASE q.new # q.old
            <4>1. ticket' = [ticket EXCEPT ![t] = [ticket[t] EXCEPT !.status = q.new]]
                BY <1>3, <1>9, <3>2 DEF ReplySaves, Reply
            <4>2. /\ [ticket[t] EXCEPT !.status = q.new] \in Ticket
                  /\ [ticket[t] EXCEPT !.status = q.new].status = q.new
                  /\ [ticket[t] EXCEPT !.status = q.new].who = ticket[t].who
                BY <1>2, <1>4, <1>9 DEF Ticket
            <4> QED BY <1>2, <1>3, <4>1, <4>2
        <3> QED BY <3>1, <3>2
    <2>3. /\ task' \in [Tasks -> Session] /\ waiting' = waiting \ {t}
          /\ \A j \in Tasks : /\ task'[j] = S[j] \/ task'[j] = Told(S[j])
                              /\ task'[j].ticket = t => task'[j].acted = TRUE
                              /\ task'[j].pc = S[j].pc
                              /\ S[j].ticket # t => task'[j] = S[j]
        <3> HIDE DEF S
        <3> QED BY <1>7, <2>1, ActsForm
    <2> HIDE DEF S
    <2>4. ASSUME NEW j \in Tasks PROVE GoesOn(j) /\ (j # k => task'[j].pc = task[j].pc)
        <3>1. CASE j = k
            <4>1. S[j].ticket # t
                BY <1>7, <3>1, IdleType, SupportAssumption DEF Tickets
            <4> QED BY <1>7, <2>3, <3>1, <4>1 DEF GoesOn
        <3>2. CASE j # k
            BY <1>7, <2>3, <3>2 DEF GoesOn
        <3> QED BY <3>1, <3>2
    <2>5. LocksHeld'
        BY <2>1, <2>4, ReleasedLocks
    <2>6. /\ asked' \in [People -> 0..MaxTickets]
          /\ \A a \in People : asked'[a] = asked[a] \/ asked'[a] = 0
        <3>1. 0 \in 0..MaxTickets /\ asked \in [People -> 0..MaxTickets]
            BY SupportAssumption DEF SupportInv, SupportTypeOK
        <3> HIDE DEF q
        <3> QED BY <2>1, <3>1
    <2>7. /\ Registered(u.who) /\ waiting' \subseteq waiting \cup {t}
          /\ t \in waiting' => u.status = "open"
          /\ \A j \in Tasks : task'[j].ticket = t => task'[j].acted = TRUE
        BY <1>4, <2>2, <2>3
    <2> QED BY <1>4, <1>5, <1>6, <2>2, <2>3, <2>4, <2>5, <2>6, <2>7, DeskKeeps
<1> QED BY <1>8, <1>9

-----------------------------------------------------------------------------
LEMMA SupportStepKeeps ==
    ASSUME SupportInv, NEW L, lock \in [People \cup Tickets -> L], SupportStep
    PROVE  SupportInv' /\ RowsGo
<1>1. ASSUME NEW k \in Tasks, NEW p \in People,
             StartArrives(k, p) \/ MessageArrives(k, p) \/ ReplyArrives(k, p)
      PROVE  SupportInv' /\ row' = row
    BY <1>1, StartArrivesKeeps, MessageArrivesKeeps, ReplyArrivesKeeps
    DEF StartArrives, MessageArrives, ReplyArrives
<1>2. ASSUME NEW k \in Tasks, TaskStep(k)
      PROVE  SupportInv' /\ RowsGo
    <2>1. CASE StartInserts(k) \/ StartRereads(k) \/ MessageWrites(k)
        <3>1. row' = row
            BY <2>1 DEF StartInserts, StartRereads, MessageWrites
        <3> QED BY <2>1, <3>1, SameRows, StartInsertsKeeps, StartRereadsKeeps, MessageWritesKeeps
    <2>2. CASE MessageConfirms(k) \/ MessageAlerts(k) \/ ReplySends(k)
        <3>1. row' = row
            BY <2>2 DEF MessageConfirms, MessageAlerts, ReplySends
        <3> QED BY <2>2, <3>1, SameRows, MessageConfirmsKeeps, MessageAlertsKeeps, ReplySendsKeeps
    <2>3. CASE StartCommits(k) \/ MessageCommits(k) \/ ReplySaves(k)
        BY <2>3, StartCommitsKeeps, MessageCommitsKeeps, ReplySavesKeeps
    <2> QED BY <1>2, <2>1, <2>2, <2>3 DEF TaskStep
<1>3. ASSUME NEW p \in People, ToggleBan(p) \/ ToggleAdmin(p)
      PROVE  SupportInv' /\ RowsGo
    BY <1>3, ToggleBanKeeps, ToggleAdminKeeps
<1>4. ASSUME NEW a \in People, NEW t \in Tickets, ReplyAsks(a, t)
      PROVE  SupportInv' /\ row' = row
    BY <1>4, ReplyAsksKeeps DEF ReplyAsks
<1>5. ASSUME NEW t \in Tickets, Close(t)
      PROVE  SupportInv' /\ row' = row
    BY <1>5, CloseKeeps DEF Close
<1>6. CASE BotCrash
    <2>1. row' = row
        BY <1>6 DEF BotCrash
    <2> QED BY <1>6, <2>1, BotCrashKeeps, SameRows
<1> QED BY <1>1, <1>2, <1>3, <1>4, <1>5, <1>6, SameRows DEF SupportStep

\* The bot's steps put only its own sessions into the locks.
LEMMA SupportStepLocks ==
    ASSUME NEW L, lock \in [People \cup Tickets -> L], Tasks \cup {NoOne} \subseteq L, SupportStep
    PROVE  lock' \in [People \cup Tickets -> L]
<1>1. \A k \in Tasks : /\ Released(k) \in [People \cup Tickets -> L]
                       /\ \A R : Locked(k, R) \in [People \cup Tickets -> L]
    BY DEF Released, Locked
<1>2. ASSUME NEW k \in Tasks, NEW p \in People, StartArrives(k, p) \/ MessageArrives(k, p) \/ ReplyArrives(k, p)
      PROVE  lock' = lock
    BY <1>2 DEF StartArrives, MessageArrives, ReplyArrives
<1>3. ASSUME NEW k \in Tasks, TaskStep(k) PROVE lock' \in [People \cup Tickets -> L]
    <2>1. CASE StartInserts(k)
        BY <1>1, <2>1 DEF StartInserts
    <2>2. CASE StartCommits(k) \/ MessageCommits(k) \/ ReplySaves(k)
        BY <1>1, <2>2 DEF StartCommits, MessageCommits, ReplySaves
    <2>3. CASE MessageWrites(k)
        BY <1>1, <2>3 DEF MessageWrites
    <2>4. CASE StartRereads(k) \/ MessageConfirms(k) \/ MessageAlerts(k) \/ ReplySends(k)
        BY <2>4 DEF StartRereads, MessageConfirms, MessageAlerts, ReplySends
    <2> QED BY <1>3, <2>1, <2>2, <2>3, <2>4 DEF TaskStep
<1>4. ASSUME NEW p \in People, ToggleBan(p) \/ ToggleAdmin(p) PROVE lock' = lock
    BY <1>4 DEF ToggleBan, ToggleAdmin
<1>5. ASSUME NEW a \in People, NEW t \in Tickets, ReplyAsks(a, t) \/ Close(t) PROVE lock' = lock
    BY <1>5 DEF ReplyAsks, Close
<1>6. CASE BotCrash
    BY <1>6 DEF BotCrash
<1>7. CASE \E t \in Tickets : Close(t)
    BY <1>5, <1>7, SupportAssumption
<1> QED BY <1>2, <1>3, <1>4, <1>5, <1>6, <1>7 DEF SupportStep

LEMMA SupportInitKeeps ==
    ASSUME SupportInit({Owner})
    PROVE  SupportInv
<1>1. PICK known \in SUBSET (People \ {Owner}) :
          row = [p \in People |-> IF p \in {Owner}
                                  THEN [NewUser(p) EXCEPT !.role = IF p = Owner THEN @ ELSE "admin"]
                                  ELSE IF p \in known THEN NewUser(p) ELSE NoRow]
    BY DEF SupportInit
<1>2. ASSUME NEW p \in People
      PROVE  /\ row[p] \in User \cup {NoRow}
             /\ row[p] # NoRow => row[p].status = "active"
    <2>1. CASE p = Owner
        <3>1. row[p] = [NewUser(p) EXCEPT !.role = NewUser(p).role]
            BY <1>1, <2>1
        <3>2. row[p] = NewUser(p)
            BY <3>1, NewUserType DEF User
        <3> QED BY <3>2, NewUserType
    <2>2. CASE p # Owner
        <3>1. row[p] = NewUser(p) \/ row[p] = NoRow
            BY <1>1, <2>2
        <3> QED BY <3>1, NewUserType
    <2> QED BY <2>1, <2>2
<1>3. row \in [People -> User \cup {NoRow}]
    BY <1>1, <1>2
<1>4. 0 \in 0..MaxTickets /\ 0 \in 0..MaxEvents /\ 0 \in 0..MaxCrashes /\ NoOne \notin Tasks
    BY SupportAssumption
<1>5. SupportTypeOK
    BY <1>3, <1>4, IdleType DEF SupportInit, SupportTypeOK
<1>6. AllSessionsOK
    BY IdleType DEF SupportInit, AllSessionsOK, SessionOK, Unmissed
<1>7. LocksHeld
    BY <1>4 DEF SupportInit, LocksHeld
<1>8. TicketsKnown /\ AskedKnown /\ StartNeverFails /\ AnsweredWasDelivered /\ WaitingIsOpen
    BY DEF SupportInit, TicketsKnown, AskedKnown, StartNeverFails, AnsweredWasDelivered, WaitingIsOpen
<1>9. BannedIsBlocked
    BY <1>2 DEF BannedIsBlocked, Registered
<1> QED BY <1>5, <1>6, <1>7, <1>8, <1>9 DEF SupportInv
=============================================================================
