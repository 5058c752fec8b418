------------------------------ MODULE Support ------------------------------
(***************************************************************************)
(* Users and support tickets: /start (handlers/user/start.py,              *)
(* repositories/user.py), bans and roles (handlers/admin/users.py), the    *)
(* customer's messages (handlers/user/support.py) and the administrators'  *)
(* replies (handlers/admin/support.py, repositories/ticket.py).            *)
(*                                                                         *)
(* A session loads rows, takes the row locks of what it changes at its     *)
(* first flush, talks to Telegram, and commits; other sessions that write  *)
(* the same row wait.  GlobalErrorMiddleware swallows what a handler       *)
(* raises, so a handler that fails half-way commits what it has written.   *)
(* Updates that only read, load and write without waiting in between, or   *)
(* clear a dialogue, are one step or left out.                             *)
(***************************************************************************)
EXTENDS Naturals, FiniteSets

CONSTANTS
    People,          \* Telegram users
    Owner,           \* settings.owner_telegram_id
    NoRow,           \* no row of the users or tickets table
    NoOne,           \* no session
    Tasks,           \* updates the bot handles at one time; the numbers are only names
    MaxTickets,      \* bound: tickets ever created
    MaxEvents,       \* bound: updates, runs of the other mailings and restarts
    MaxCrashes       \* bound: restarts of the bot and of the worker

ASSUME SupportAssumption ==
    /\ Owner \in People /\ People \cap Nat = {}
    /\ Tasks \subseteq Nat \ {0} /\ NoOne \notin Tasks
    /\ MaxTickets \in Nat /\ MaxEvents \in Nat /\ MaxCrashes \in Nat

VARIABLES
    row,             \* users: the committed row of each person
    ticket,          \* tickets: the committed row of each
    made,            \* tickets created so far; created_at orders them like their numbers
    task,            \* the bot's sessions
    lock,            \* the session that holds each row of users and tickets
    asked,           \* the ticket an administrator's reply dialogue is for (0: none)
    startFailed,     \* history: people whose /start ended in an error
    replied,         \* history: tickets with a reply that reached the customer
    waiting,         \* history: tickets with a message no administrator has acted on since
    events, crashes

supportVars == <<row, ticket, made, task, lock, asked, startFailed, replied, waiting,
                 events, crashes>>

Tickets == 1..MaxTickets
TicketStatuses == {"open", "answered", "closed"}

User == [status : {"active", "banned"}, blocked : BOOLEAN, role : {"user", "admin", "owner"}]
NewUser(p) == [status |-> "active", blocked |-> FALSE,
               role |-> IF p = Owner THEN "owner" ELSE "user"]
Ticket == [who : People, status : TicketStatuses]

ASSUME NoRowAssumption == NoRow \notin User /\ NoRow \notin Ticket

Pcs == {"idle", "insert", "reread", "answer", "write", "confirm", "alert", "send", "save"}

\* old: the status loaded; todo, seen: the administrators left to alert, the
\* users loaded as not blocked; marks: the users to set is_bot_blocked on;
\* new: the status a reply sets; acted: an administrator acted meanwhile.
Idle == [pc |-> "idle", who |-> NoOne, ticket |-> 0, old |-> "open", new |-> "none",
         todo |-> {}, seen |-> {}, marks |-> {}, acted |-> FALSE]
Session == [pc : Pcs, who : People \cup {NoOne}, ticket : 0..MaxTickets,
            old : TicketStatuses, new : TicketStatuses \cup {"none"}, todo : SUBSET People,
            seen : SUBSET People, marks : SUBSET People, acted : BOOLEAN]

SupportInit(staff) ==
    /\ \E known \in SUBSET (People \ staff) :
           row = [p \in People |-> IF p \in staff
                                   THEN [NewUser(p) EXCEPT !.role = IF p = Owner THEN @ ELSE "admin"]
                                   ELSE IF p \in known THEN NewUser(p) ELSE NoRow]
    /\ ticket = [t \in Tickets |-> NoRow]
    /\ made = 0
    /\ task = [k \in Tasks |-> Idle]
    /\ lock = [r \in People \cup Tickets |-> NoOne]
    /\ asked = [p \in People |-> 0]
    /\ startFailed = {}
    /\ replied = {}
    /\ waiting = {}
    /\ events = 0
    /\ crashes = 0

-----------------------------------------------------------------------------
Registered(p) == row[p] # NoRow
Active(p) == Registered(p) /\ row[p].status = "active"
IsAdmin(p) == Registered(p) /\ row[p].role \in {"admin", "owner"}

Event == events < MaxEvents /\ events' = events + 1

\* The first idle task takes the next update.
Takes(k) == task[k] = Idle /\ \A j \in Tasks : j < k => task[j] # Idle

Goes(k, pc) == task' = [task EXCEPT ![k].pc = pc]

Free(x, R) == \A r \in R : lock[r] \in {NoOne, x}
Locked(x, R) == [r \in DOMAIN lock |-> IF r \in R THEN x ELSE lock[r]]
Released(x) == [r \in DOMAIN lock |-> IF lock[r] = x THEN NoOne ELSE lock[r]]

Marked(S) == [p \in People |-> IF p \in S THEN [row[p] EXCEPT !.blocked = TRUE] ELSE row[p]]

-----------------------------------------------------------------------------
(* /start of someone who has no row yet.                                   *)

StartArrives(k, p) ==
    /\ Event
    /\ Takes(k)
    /\ ~Registered(p)
    /\ task' = [task EXCEPT ![k] = [Idle EXCEPT !.pc = "insert", !.who = p]]
    /\ UNCHANGED <<row, ticket, made, lock, asked, startFailed, replied, waiting, crashes>>

\* The unique index on telegram_id makes the INSERT wait for the session
\* that has inserted the same user, with its wallet, and not yet committed.
MayInsert(k) == Free(k, {task[k].who})

\* The INSERT, in a savepoint of its own, fails if the row is there by then:
\* the IntegrityError is caught and the session rolled back.
StartInserts(k) ==
    /\ task[k].pc = "insert"
    /\ MayInsert(k)
    /\ IF Registered(task[k].who)
       THEN Goes(k, "reread") /\ UNCHANGED lock
       ELSE Goes(k, "answer") /\ lock' = Locked(k, {task[k].who})
    /\ UNCHANGED <<row, ticket, made, asked, startFailed, replied, waiting, events, crashes>>

\* Found if the handler of the IntegrityError took the result of the query
\* before the INSERT instead of asking again.
Found_Before(k) == NoRow

\* The user is read again after the rollback.
Found(k) == row[task[k].who]

StartRereads(k) ==
    /\ task[k].pc = "reread"
    /\ IF Found(k) # NoRow
       THEN Goes(k, "answer") /\ UNCHANGED startFailed
       ELSE /\ task' = [task EXCEPT ![k] = Idle]
            /\ startFailed' = startFailed \cup {task[k].who}
    /\ UNCHANGED <<row, ticket, made, lock, asked, replied, waiting, events, crashes>>

\* The welcome may fail to be sent: the session commits all the same.
StartCommits(k) ==
    /\ task[k].pc = "answer"
    /\ LET p == task[k].who
       IN  row' = IF lock[p] = k THEN [row EXCEPT ![p] = NewUser(p)] ELSE row
    /\ task' = [task EXCEPT ![k] = Idle]
    /\ lock' = Released(k)
    /\ UNCHANGED <<ticket, made, asked, startFailed, replied, waiting, events, crashes>>

-----------------------------------------------------------------------------
(* An administrator's buttons in a user's profile.  They load the row and  *)
(* write it at once; AdminOnlyMiddleware looks at the role only.           *)

\* Banned if a ban left is_bot_blocked alone.
Banned_Flag(u) == [u EXCEPT !.status = "banned"]

Banned(u) == [u EXCEPT !.status = "banned", !.blocked = TRUE]

\* Unbanned if the status were given a name of its own.
Unbanned_Named(u) == [u EXCEPT !.status = "unbanned", !.blocked = FALSE]

\* The only update that takes is_bot_blocked back.
Unbanned(u) == [u EXCEPT !.status = "active", !.blocked = FALSE]

ToggleBan(p) ==
    /\ Event
    /\ \E a \in People : IsAdmin(a)
    /\ Registered(p) /\ Free(NoOne, {p})
    /\ row' = [row EXCEPT ![p] = IF @.status = "banned" THEN Unbanned(@) ELSE Banned(@)]
    /\ UNCHANGED <<ticket, made, task, lock, asked, startFailed, replied, waiting, crashes>>

\* The owner's role cannot be changed.
ToggleAdmin(p) ==
    /\ Event
    /\ \E a \in People : IsAdmin(a)
    /\ Registered(p) /\ p # Owner /\ Free(NoOne, {p})
    /\ row' = [row EXCEPT ![p].role = IF @ = "user" THEN "admin" ELSE "user"]
    /\ UNCHANGED <<ticket, made, task, lock, asked, startFailed, replied, waiting, crashes>>

-----------------------------------------------------------------------------
(* A customer's message, in the dialogue that the support button opens.    *)

\* get_open_ticket_for_user
Continued(p) ==
    LET own == {t \in Tickets : ticket[t] # NoRow /\ ticket[t].who = p
                                /\ ticket[t].status \in {"open", "answered"}}
    IN  IF own = {} THEN 0 ELSE CHOOSE t \in own : \A s \in own : s <= t

MessageArrives(k, p) ==
    /\ Event
    /\ Takes(k)
    /\ Active(p)
    /\ LET t == Continued(p)
       IN  /\ t # 0 \/ made < MaxTickets
           /\ task' = [task EXCEPT ![k] =
                         [Idle EXCEPT !.pc = "write", !.who = p, !.ticket = t,
                                      !.old = IF t = 0 THEN "open" ELSE ticket[t].status]]
    /\ UNCHANGED <<row, ticket, made, lock, asked, startFailed, replied, waiting, crashes>>

\* Reopens if a message never touched the status.
Reopens_Never(q) == FALSE

Reopens(q) == q.old = "answered"

\* The rows a session's next step changes.
Wants(k) ==
    LET q == task[k]
    IN  CASE q.pc = "insert" -> {q.who}
          [] q.pc = "write" -> {q.who} \cup (IF Reopens(q) THEN {q.ticket} ELSE {})
          [] q.pc = "alert" /\ q.todo = {} -> q.marks
          [] q.pc = "save" ->
                q.marks \cup (IF q.new \in {"none", q.old} THEN {} ELSE {q.ticket})
          [] OTHER -> {}

\* last_seen_at, the ticket and the message are flushed together.
MessageWrites(k) ==
    /\ task[k].pc = "write"
    /\ Free(k, Wants(k))
    /\ lock' = Locked(k, Wants(k))
    /\ IF task[k].ticket = 0
       THEN /\ made < MaxTickets
            /\ made' = made + 1
            /\ task' = [task EXCEPT ![k].pc = "confirm", ![k].ticket = made + 1]
       ELSE Goes(k, "confirm") /\ UNCHANGED made
    /\ UNCHANGED <<row, ticket, asked, startFailed, replied, waiting, events, crashes>>

\* The customer is told that the message was sent on; if that fails the
\* handler ends.
MessageConfirms(k) ==
    /\ task[k].pc = "confirm"
    /\ \E alerted \in {{}, {p \in People : IsAdmin(p) /\ Active(p)}} :
           task' = [task EXCEPT ![k].pc = "alert", ![k].todo = alerted,
                                ![k].seen = {p \in alerted : ~row[p].blocked}]
    /\ UNCHANGED <<row, ticket, made, lock, asked, startFailed, replied, waiting, events, crashes>>

\* One alert: sent, refused by Telegram (the administrator is marked), or
\* failed, which ends the handler.
MessageAlerts(k) ==
    LET q == task[k]
    IN  /\ q.pc = "alert"
        /\ \E a \in q.todo :
              \/ task' = [task EXCEPT ![k].todo = q.todo \ {a}]
              \/ task' = [task EXCEPT ![k].todo = q.todo \ {a},
                                      ![k].marks = q.marks \cup ({a} \cap q.seen)]
              \/ task' = [task EXCEPT ![k].todo = {}]
        /\ UNCHANGED <<row, ticket, made, lock, asked, startFailed, replied, waiting, events,
                       crashes>>

MessageCommits(k) ==
    LET q == task[k]
        t == q.ticket
    IN  /\ q.pc = "alert" /\ q.todo = {}
        /\ Free(k, Wants(k))
        /\ row' = Marked(q.marks)
        /\ ticket' = IF ticket[t] = NoRow \/ Reopens(q)
                     THEN [ticket EXCEPT ![t] = [who |-> q.who, status |-> "open"]]
                     ELSE ticket
        /\ waiting' = IF q.acted THEN waiting ELSE waiting \cup {t}
        /\ task' = [task EXCEPT ![k] = Idle]
        /\ lock' = Released(k)
        /\ UNCHANGED <<made, asked, startFailed, replied, events, crashes>>

-----------------------------------------------------------------------------
(* The administrators.                                                     *)

\* History: an administrator has acted on t, for the messages it has and
\* for those being handled.
Acts(t, tasks) ==
    /\ waiting' = waiting \ {t}
    /\ task' = [k \in Tasks |-> IF tasks[k].ticket = t THEN [tasks[k] EXCEPT !.acted = TRUE]
                                ELSE tasks[k]]

\* The reply button, in an alert or in the list: the dialogue keeps one ticket.
ReplyAsks(a, t) ==
    /\ IsAdmin(a)
    /\ ticket[t] # NoRow
    /\ asked[a] # t
    /\ asked' = [asked EXCEPT ![a] = t]
    /\ UNCHANGED <<row, ticket, made, task, lock, startFailed, replied, waiting, events, crashes>>

\* The reply is flushed, which no other session waits for.
ReplyArrives(k, a) ==
    /\ Event
    /\ Takes(k)
    /\ IsAdmin(a) /\ asked[a] # 0
    /\ LET t == asked[a]
       IN  task' = [task EXCEPT ![k] =
                      [Idle EXCEPT !.pc = "send", !.who = a, !.ticket = t, !.old = ticket[t].status,
                                   !.seen = {p \in {ticket[t].who} : ~row[p].blocked}]]
    /\ UNCHANGED <<row, ticket, made, lock, asked, startFailed, replied, waiting, crashes>>

\* The customer gets the reply, has blocked the bot, or the call fails.
ReplySends(k) ==
    /\ task[k].pc = "send"
    /\ \/ /\ task' = [task EXCEPT ![k].pc = "save", ![k].new = "answered"]
          /\ replied' = replied \cup {task[k].ticket}
       \/ /\ task' = [task EXCEPT ![k].pc = "save", ![k].new = "closed", ![k].marks = task[k].seen]
          /\ UNCHANGED replied
       \/ /\ Goes(k, "save")
          /\ UNCHANGED replied
    /\ UNCHANGED <<row, ticket, made, lock, asked, startFailed, waiting, events, crashes>>

\* What a reply leaves in the ticket if a failed call counted as an answer.
Reply_Failed(q) == IF q.new = "none" THEN "answered" ELSE q.new

Reply(q) == q.new

\* The dialogue ends unless the call failed: then the message is kept and
\* the next text is a reply again.
ReplySaves(k) ==
    LET q == task[k]
        s == Reply(q)
    IN  /\ q.pc = "save"
        /\ Free(k, Wants(k))
        /\ row' = Marked(q.marks)
        /\ ticket' = IF s \in {"none", q.old} THEN ticket
                     ELSE [ticket EXCEPT ![q.ticket].status = s]
        /\ IF q.new = "none"
           THEN task' = [task EXCEPT ![k] = Idle] /\ UNCHANGED <<waiting, asked>>
           ELSE /\ Acts(q.ticket, [task EXCEPT ![k] = Idle])
                /\ asked' = [asked EXCEPT ![q.who] = 0]
        /\ lock' = Released(k)
        /\ UNCHANGED <<made, startFailed, replied, events, crashes>>

\* The customer's own close button is served by the same router, and denied.
Close(t) ==
    /\ Event
    /\ \E a \in People : IsAdmin(a)
    /\ ticket[t] # NoRow /\ Free(NoOne, {t})
    /\ ticket' = [ticket EXCEPT ![t].status = "closed"]
    /\ Acts(t, task)
    /\ UNCHANGED <<row, made, lock, asked, startFailed, replied, crashes>>

-----------------------------------------------------------------------------
\* The dialogues are in memory; a restart drops them and every session.
BotCrash ==
    /\ Event
    /\ crashes < MaxCrashes
    /\ \E k \in Tasks : task[k] # Idle
    /\ crashes' = crashes + 1
    /\ task' = [k \in Tasks |-> Idle]
    /\ lock' = [r \in DOMAIN lock |-> IF lock[r] \in Tasks THEN NoOne ELSE lock[r]]
    /\ asked' = [p \in People |-> 0]
    /\ UNCHANGED <<row, ticket, made, startFailed, replied, waiting>>

TaskStep(k) ==
    \/ StartInserts(k) \/ StartRereads(k) \/ StartCommits(k)
    \/ MessageWrites(k) \/ MessageConfirms(k) \/ MessageAlerts(k) \/ MessageCommits(k)
    \/ ReplySends(k) \/ ReplySaves(k)

SupportStep ==
    \/ \E k \in Tasks, p \in People : StartArrives(k, p) \/ MessageArrives(k, p) \/ ReplyArrives(k, p)
    \/ \E k \in Tasks : TaskStep(k)
    \/ \E p \in People : ToggleBan(p) \/ ToggleAdmin(p)
    \/ \E a \in People, t \in Tickets : ReplyAsks(a, t)
    \/ \E t \in Tickets : Close(t)
    \/ BotCrash

-----------------------------------------------------------------------------
SupportTypeOK ==
    /\ row \in [People -> User \cup {NoRow}]
    /\ ticket \in [Tickets -> Ticket \cup {NoRow}]
    /\ made \in 0..MaxTickets
    /\ task \in [Tasks -> Session]
    /\ asked \in [People -> 0..MaxTickets]
    /\ startFailed \subseteq People
    /\ replied \subseteq Tickets /\ waiting \subseteq Tickets
    /\ events \in 0..MaxEvents /\ crashes \in 0..MaxCrashes

(* Two /start of the same person at the same time both succeed: the one    *)
(* that loses the race for the row rolls back and finds the winner's, as   *)
(* get_or_create_user promises ("instead of failing the flow").            *)
StartNeverFails == startFailed = {}

(* A ticket is "answered" only if a reply has reached its customer.        *)
AnsweredWasDelivered ==
    \A t \in Tickets : ticket[t] # NoRow /\ ticket[t].status = "answered" => t \in replied

(* A ticket with a message that no administrator has acted on since its    *)
(* handler read the ticket is open: it is in the list of open tickets and  *)
(* shows as unanswered, whatever replies and messages overlapped, failed   *)
(* or were lost in a restart before.                                       *)
WaitingIsOpen == \A t \in waiting : ticket[t] # NoRow /\ ticket[t].status = "open"
=============================================================================
