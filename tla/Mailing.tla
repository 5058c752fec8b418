------------------------------ MODULE Mailing ------------------------------
(***************************************************************************)
(* The worker's mailings next to the bot's sessions of Support: broadcasts *)
(* (handlers/admin/broadcast.py, jobs/broadcast.py), the retargeting       *)
(* campaign (jobs/retargeting.py) and the expiry notices                   *)
(* (jobs/expiry_notifications.py).                                         *)
(*                                                                         *)
(* A run is one database session from its first SELECT to the commit of    *)
(* apps/worker/main.py at its end, and the messages it sends in between    *)
(* cannot be taken back.  One run at a time here, as each job has          *)
(* max_instances=1; the jobs differ only in whom they load and what they   *)
(* do with a refusal.                                                      *)
(***************************************************************************)
EXTENDS Support

CONSTANTS
    Worker,          \* the session of a run
    MaxJobs          \* bound: broadcasts ever queued

ASSUME MailingAssumption == Worker \notin Tasks \cup {NoOne} /\ MaxJobs \in Nat

VARIABLES
    job,             \* broadcast_jobs: committed status, in the order of creation
    run,             \* the worker's session
    got,             \* history: deliveries of each broadcast to each person
    meant,           \* history: people a broadcast was for, at all times since it was queued
    tried,           \* history: people the last run of a broadcast sent to, or tried to
    aborted          \* history: runs that were lost

mailVars == <<job, run, got, tried, aborted>>
vars == <<supportVars, mailVars, meant>>

Jobs == 1..MaxJobs
JobStatuses == {"none", "queued", "finished"}
Kinds == {"broadcast", "retarget", "expiry"}

\* queue: the jobs loaded and not begun; job: the one being sent; done: those
\* finished; todo: recipients left; loaded, seen: users loaded, and those of
\* them who were not blocked then; marks: users set to is_bot_blocked; round:
\* of the two loops of the expiry notices; off, reached (history): users who
\* were banned when they were loaded, and users delivered to.
NoRun == [pc |-> "idle", kind |-> "none", queue |-> {}, job |-> 0, done |-> {}, todo |-> {},
          loaded |-> {}, seen |-> {}, marks |-> {}, round |-> 0, failed |-> FALSE,
          off |-> {}, reached |-> {}]
Run == [pc : {"idle", "next", "send", "mark"}, kind : Kinds \cup {"none"},
        queue : SUBSET Jobs, job : 0..MaxJobs, done : SUBSET Jobs, todo : SUBSET People,
        loaded : SUBSET People, seen : SUBSET People, marks : SUBSET People, round : 0..2,
        failed : BOOLEAN, off : SUBSET People, reached : SUBSET People]

Init ==
    /\ SupportInit({Owner})
    /\ job = [j \in Jobs |-> "none"]
    /\ run = NoRun
    /\ got = [j \in Jobs |-> [p \in People |-> 0]]
    /\ meant = [j \in Jobs |-> {}]
    /\ tried = [j \in Jobs |-> {}]
    /\ aborted = 0

-----------------------------------------------------------------------------
Reachable == {p \in People : Registered(p) /\ ~row[p].blocked}

\* The session has flushed its own marks, and the query sees them.
Recipients == {p \in Reachable : Active(p)} \ run.marks
Off == {p \in People : Registered(p) /\ row[p].status = "banned"}

\* The last step of the dialogue: "confirm".
QueueBroadcast ==
    /\ Event
    /\ \E a \in People : IsAdmin(a)
    /\ \E j \in Jobs :
          /\ job[j] = "none" /\ \A i \in Jobs : i < j => job[i] # "none"
          /\ job' = [job EXCEPT ![j] = "queued"]
    /\ UNCHANGED <<row, ticket, made, task, lock, asked, startFailed, replied, waiting, crashes,
                   run, got, tried, aborted>>

\* Queued if a run committed "processing" before it sent.
Queued_Begun == {j \in Jobs : job[j] = "queued" /\ tried[j] = {}}

\* A lost run leaves its jobs queued: "processing" is never committed.
Queued == {j \in Jobs : job[j] = "queued"}

RunBroadcasts ==
    /\ run = NoRun
    /\ Queued # {}
    /\ run' = [NoRun EXCEPT !.pc = "next", !.kind = "broadcast", !.queue = Queued]
    /\ UNCHANGED <<supportVars, job, got, tried, aborted>>

JobStarts ==
    /\ run.pc = "next" /\ run.queue # {}
    /\ LET j == CHOOSE i \in run.queue : \A h \in run.queue : i <= h
       IN  /\ run' = [run EXCEPT !.pc = "send", !.queue = @ \ {j}, !.job = j, !.todo = Recipients,
                                 !.seen = @ \cup Recipients, !.off = Off, !.reached = {}]
           /\ tried' = [tried EXCEPT ![j] = {}]
    /\ UNCHANGED <<supportVars, job, got, aborted>>

\* The customers whose last order is old and who have no subscription: some
\* of the active ones.
RunRetargeting ==
    /\ run = NoRun
    /\ Event
    /\ \E S \in SUBSET {p \in People : Active(p)} :
          /\ S # {}
          /\ run' = [NoRun EXCEPT !.pc = "send", !.kind = "retarget", !.todo = S,
                                  !.seen = S \cap Reachable, !.off = Off]
    /\ UNCHANGED <<row, ticket, made, task, lock, asked, startFailed, replied, waiting, crashes,
                   job, got, tried, aborted>>

\* The owners S of the subscriptions about to end, whatever their status;
\* those who are blocked are passed over.
RunExpiry ==
    /\ run = NoRun
    /\ Event
    /\ \E S \in SUBSET {p \in People : Registered(p)} :
          /\ S # {}
          /\ run' = [NoRun EXCEPT !.pc = "send", !.kind = "expiry", !.round = 1, !.loaded = S,
                                  !.seen = S \cap Reachable, !.todo = S \cap Reachable,
                                  !.off = S \cap Off]
    /\ UNCHANGED <<row, ticket, made, task, lock, asked, startFailed, replied, waiting, crashes,
                   job, got, tried, aborted>>

-----------------------------------------------------------------------------
(* One recipient.                                                          *)

Tries(p) ==
    /\ run.pc = "send" /\ p \in run.todo
    /\ tried' = [j \in Jobs |-> IF j = run.job THEN tried[j] \cup {p} ELSE tried[j]]
    /\ UNCHANGED <<supportVars, job, aborted>>

Delivers(p) ==
    /\ Tries(p)
    /\ run' = [run EXCEPT !.todo = @ \ {p}, !.reached = @ \cup {p}]
    /\ got' = [j \in Jobs |-> IF j = run.job THEN [got[j] EXCEPT ![p] = @ + 1] ELSE got[j]]

\* A mark is written only if the user was loaded without it.  A broadcast
\* flushes it at once, the other runs when they commit.
Refuses(p) ==
    /\ Tries(p)
    /\ run' = [run EXCEPT !.todo = @ \ {p}, !.marks = @ \cup ({p} \cap run.seen),
                          !.pc = IF run.kind = "broadcast" THEN "mark" ELSE @]
    /\ UNCHANGED got

\* AfterError if a broadcast gave up at the first failure.
AfterError_Stops(p) == [run EXCEPT !.todo = {}]

\* Any other failure, a rate limit included: a broadcast goes on with the
\* next user; the gather of the retargeting campaign raises.
AfterError(p) == [run EXCEPT !.todo = @ \ {p}, !.failed = @ \/ run.kind = "retarget"]

Errs(p) ==
    /\ Tries(p)
    /\ run' = AfterError(p)
    /\ UNCHANGED got

\* PostgreSQL grants a free row to the session that waits for it; the bot's
\* go first here.
Granted ==
    /\ Free(Worker, run.marks)
    /\ \A k \in Tasks : Free(k, Wants(k)) => Wants(k) \cap run.marks = {}

Marks ==
    /\ run.pc = "mark"
    /\ Granted
    /\ lock' = Locked(Worker, run.marks)
    /\ run' = [run EXCEPT !.pc = "send"]
    /\ UNCHANGED <<row, ticket, made, task, asked, startFailed, replied, waiting, events, crashes,
                   job, got, tried, aborted>>

-----------------------------------------------------------------------------
AllSent == run.pc = "send" /\ run.todo = {}

\* Done if the job kept its status.
Done_Not(r) == r.done

Done(r) == r.done \cup {r.job}

JobEnds ==
    /\ AllSent /\ run.kind = "broadcast"
    /\ run' = [run EXCEPT !.pc = "next", !.done = Done(run), !.job = 0, !.off = {}, !.reached = {}]
    /\ UNCHANGED <<supportVars, job, got, tried, aborted>>

\* The second loop, over the volumes and their owners S.  The session keeps
\* the users it has loaded before as they were then, with its marks.
SecondLoop ==
    /\ AllSent /\ run.round = 1
    /\ \E S \in SUBSET {p \in People : Registered(p)} :
          LET fresh == (S \ run.loaded) \cap Reachable
          IN  run' = [run EXCEPT !.round = 2, !.loaded = @ \cup S, !.seen = @ \cup fresh,
                                 !.todo = ((S \cap run.seen) \ run.marks) \cup fresh,
                                 !.off = @ \cup (Off \cap (S \ run.loaded))]
    /\ UNCHANGED <<supportVars, job, got, tried, aborted>>

Ended ==
    \/ run.pc = "next" /\ run.queue = {}
    \/ AllSent /\ (run.round = 2 \/ (run.kind = "retarget" /\ ~run.failed))

RunCommits ==
    /\ Ended
    /\ Granted
    /\ row' = Marked(run.marks)
    /\ job' = [j \in Jobs |-> IF j \in run.done THEN "finished" ELSE job[j]]
    /\ lock' = Released(Worker)
    /\ run' = NoRun
    /\ UNCHANGED <<ticket, made, task, asked, startFailed, replied, waiting, events, crashes,
                   got, tried, aborted>>

\* The session rolls back; what was sent stays sent.
Aborts ==
    /\ run' = NoRun
    /\ lock' = Released(Worker)
    /\ aborted' = aborted + 1
    /\ UNCHANGED <<row, ticket, made, task, asked, startFailed, replied, waiting,
                   job, got, tried>>

\* The campaign has failed: nothing it marked is kept.
RunFails ==
    /\ AllSent /\ run.failed
    /\ Aborts
    /\ UNCHANGED <<events, crashes>>

WorkerCrash ==
    /\ Event
    /\ run # NoRun
    /\ crashes < MaxCrashes
    /\ crashes' = crashes + 1
    /\ Aborts

-----------------------------------------------------------------------------
(* Deadlocks.  A broadcast keeps the rows it marked and wants the next     *)
(* one; a customer's message keeps the customer's row and marks the        *)
(* administrators when it commits.  PostgreSQL fails one of the sessions.  *)

Sessions == Tasks \cup {Worker}

Awaits(x) ==
    IF x # Worker THEN Wants(x)
    ELSE IF run.pc = "mark" \/ Ended THEN run.marks ELSE {}

Stuck(S) == \A x \in S : \E r \in Awaits(x) : lock[r] \in S \ {x}

\* A cycle, without those who merely wait for one.
Deadlocked(S) == S # {} /\ Stuck(S) /\ \A T \in SUBSET S : T # {} /\ Stuck(T) => T = S

DeadlockFails(x) ==
    /\ \E S \in SUBSET Sessions : x \in S /\ Deadlocked(S)
    /\ IF x = Worker THEN Aborts
       ELSE /\ task' = [task EXCEPT ![x] = Idle]
            /\ lock' = Released(x)
            /\ UNCHANGED <<row, ticket, made, asked, startFailed, replied, waiting, mailVars>>
    /\ UNCHANGED <<events, crashes>>

-----------------------------------------------------------------------------
\* History: a broadcast is for the people it would reach when it is queued,
\* less those who are banned or found to have blocked the bot before it ends.
Means ==
    LET reachable == {p \in People : row'[p] # NoRow /\ row'[p].status = "active" /\ ~row'[p].blocked}
    IN  meant' = [j \in Jobs |-> IF job[j] = "none" /\ job'[j] = "queued" THEN reachable
                                 ELSE meant[j] \cap reachable]

BotStep(k) == TaskStep(k) /\ UNCHANGED mailVars /\ Means

RunStep ==
    /\ \/ RunBroadcasts \/ JobStarts
       \/ \E p \in People : Delivers(p) \/ Refuses(p) \/ Errs(p)
       \/ Marks \/ JobEnds \/ SecondLoop \/ RunCommits \/ RunFails
    /\ Means

LockStep == (\E x \in Sessions : DeadlockFails(x)) /\ Means

Next ==
    \/ SupportStep /\ UNCHANGED mailVars /\ Means
    \/ RunStep
    \/ (QueueBroadcast \/ RunRetargeting \/ RunExpiry \/ WorkerCrash) /\ Means
    \/ LockStep

\* A handler that has begun goes on, Telegram answers or times out, and the
\* scheduler starts the broadcast job every 20 seconds.
Fairness ==
    /\ \A k \in Tasks : WF_vars(BotStep(k))
    /\ WF_vars(RunStep)
    /\ WF_vars(LockStep)

Spec == Init /\ [][Next]_vars /\ Fairness

-----------------------------------------------------------------------------
TypeOK ==
    /\ SupportTypeOK
    /\ lock \in [People \cup Tickets -> Sessions \cup {NoOne}]
    /\ job \in [Jobs -> JobStatuses]
    /\ run \in Run
    /\ aborted \in Nat
    /\ got \in [Jobs -> [People -> Nat]]
    /\ meant \in [Jobs -> SUBSET People] /\ tried \in [Jobs -> SUBSET People]

(* Nobody gets a broadcast twice, unless a run was lost: then all that it  *)
(* had sent is sent again.                                                 *)
SentOncePerRun == \A j \in Jobs, p \in People : got[j][p] <= 1 + aborted

(* A finished broadcast was sent, or an attempt was made, to everybody it  *)
(* was for from the moment it was queued, however its runs were            *)
(* interrupted and whoever else was banned or marked meanwhile.            *)
FinishedTriedAll == \A j \in Jobs : job[j] = "finished" => meant[j] \subseteq tried[j]

(* Nobody gets a mailing whose run loaded him while he was banned.  The    *)
(* expiry notices do not look at the status: they rely on the ban's mark,  *)
(* next to sessions that mark, ban and unban the same row.                 *)
BannedGetsNoMail == run.off \cap run.reached = {}

(* A queued broadcast is finished in the end, whatever its recipients'     *)
(* sessions hold and want.                                                 *)
BroadcastEnds == \A j \in Jobs : job[j] = "queued" ~> job[j] = "finished"
=============================================================================
