--------------------------- MODULE MailingProofs ---------------------------
(***************************************************************************)
(* The desk of Support and the worker's mailings, for any number of        *)
(* people, sessions, tickets, broadcasts and lost runs.                    *)
(*                                                                         *)
(* A run works on what it loaded when it began.  The invariant says what   *)
(* it still owes: whom a broadcast was for has been tried or is still to   *)
(* be tried (Tracked), whoever is still to be tried has got it at most     *)
(* once in each run that was lost (Deliveries), and nobody who was banned  *)
(* when he was loaded is among them (Spared).                              *)
(***************************************************************************)
EXTENDS Mailing, SupportProofs

\* Whom a broadcast may still reach.
InReach == {p \in People : Active(p) /\ ~row[p].blocked}

MailTypeOK ==
    /\ lock \in [People \cup Tickets -> Sessions \cup {NoOne}]
    /\ job \in [Jobs -> JobStatuses]
    /\ run \in Run
    /\ aborted \in Nat
    /\ got \in [Jobs -> [People -> Nat]]
    /\ meant \in [Jobs -> SUBSET People] /\ tried \in [Jobs -> SUBSET People]

RunShape ==
    /\ run.pc = "next" => run.job = 0
    /\ run.kind # "broadcast" => run.job = 0 /\ run.queue = {} /\ run.done = {}
    /\ run.round # 0 => run.kind = "expiry"
    /\ run.kind = "broadcast" /\ run.pc \in {"send", "mark"} => run.job # 0
    /\ run.job \notin run.queue \cup run.done /\ run.queue \cap run.done = {}
    /\ \A j \in Jobs : j = run.job \/ j \in run.queue \/ j \in run.done => job[j] = "queued"

RunKnows == \A p \in run.seen \cup run.marks : Registered(p)

\* j has not been begun in the run, or p is still to be served.
Pending(j, p) ==
    \/ job[j] # "finished" /\ j \notin run.done /\ j # run.job
    \/ j = run.job /\ p \in run.todo

Deliveries ==
    \A j \in Jobs, p \in People :
        /\ got[j][p] <= 1 + aborted
        /\ Pending(j, p) => got[j][p] <= aborted

Tracked ==
    \A j \in Jobs :
        /\ meant[j] \subseteq InReach
        /\ job[j] = "finished" => meant[j] \subseteq tried[j]
        /\ j \in run.done => meant[j] \ run.marks \subseteq tried[j]
        /\ j = run.job => meant[j] \ run.marks \subseteq tried[j] \cup run.todo

Spared ==
    /\ run.off \cap (run.todo \cup run.reached) = {}
    /\ run.kind = "expiry" =>
          /\ run.todo \cup run.reached \subseteq run.seen
          /\ run.seen \cup run.off \subseteq run.loaded
          /\ run.off \cap run.seen = {}

RunInv == RunShape /\ RunKnows /\ Deliveries /\ Tracked /\ Spared

IInv == SupportInv /\ MailTypeOK /\ RunInv

-----------------------------------------------------------------------------
LEMMA NoRunType ==
    /\ NoRun \in Run /\ NoRun.pc = "idle" /\ NoRun.kind = "none" /\ NoRun.queue = {}
    /\ NoRun.job = 0 /\ NoRun.done = {} /\ NoRun.todo = {} /\ NoRun.loaded = {} /\ NoRun.seen = {}
    /\ NoRun.marks = {} /\ NoRun.round = 0 /\ NoRun.failed = FALSE /\ NoRun.off = {}
    /\ NoRun.reached = {}
<1>1. 0 \in 0..MaxJobs /\ 0 \in 0..2
    BY MailingAssumption
<1> QED BY <1>1 DEF NoRun, Run, Kinds

\* What the state is made of, for the steps below.
LEMMA RunFacts ==
    ASSUME IInv
    PROVE  /\ run \in Run /\ run.queue \subseteq Jobs /\ run.done \subseteq Jobs
           /\ run.todo \subseteq People /\ run.seen \subseteq People /\ run.marks \subseteq People
           /\ run.loaded \subseteq People /\ run.off \subseteq People /\ run.reached \subseteq People
           /\ run.job \in 0..MaxJobs /\ (run.job # 0 => run.job \in Jobs) /\ 0 \notin Jobs
           /\ aborted \in Nat
           /\ \A j \in Jobs, p \in People : got[j][p] \in Nat
           /\ \A p \in People : row[p] \in User \cup {NoRow}
<1>1. run \in Run /\ aborted \in Nat /\ got \in [Jobs -> [People -> Nat]]
    BY DEF IInv, MailTypeOK
<1>2. \A p \in People : row[p] \in User \cup {NoRow}
    BY DEF IInv, SupportInv, SupportTypeOK
<1> QED BY <1>1, <1>2, MailingAssumption DEF Run, Jobs

\* What a broadcast is meant for only shrinks, but for its queueing, and
\* stays within reach.
MeansGo ==
    /\ meant' \in [Jobs -> SUBSET People]
    /\ \A j \in Jobs : meant'[j] \subseteq InReach'
    /\ \A j \in Jobs : job[j] # "none" \/ job'[j] # "queued" => meant'[j] \subseteq meant[j]

LEMMA MeansForm == ASSUME MailTypeOK, Means PROVE MeansGo
<1> DEFINE reachable == {p \in People : row'[p] # NoRow /\ row'[p].status = "active" /\ ~row'[p].blocked}
<1>1. reachable = InReach'
    BY DEF InReach, Active, Registered
<1>2. reachable \subseteq People
    OBVIOUS
<1>3. meant' = [j \in Jobs |-> IF job[j] = "none" /\ job'[j] = "queued" THEN reachable
                               ELSE meant[j] \cap reachable]
    BY DEF Means
<1> HIDE DEF reachable
<1>4. \A j \in Jobs : meant[j] \subseteq People
    BY DEF MailTypeOK
<1> QED BY <1>1, <1>2, <1>3, <1>4 DEF MeansGo

\* The run and the broadcasts are left alone.
LEMMA RunStill ==
    ASSUME IInv, RowsGo, MeansGo, UNCHANGED mailVars
    PROVE  RunInv'
<1>1. UNCHANGED <<job, run, got, tried, aborted>>
    BY DEF mailVars
<1>2. RunShape' /\ Deliveries' /\ Spared'
    BY <1>1 DEF IInv, RunInv, RunShape, Deliveries, Pending, Spared
<1>3. RunKnows'
    BY <1>1, RunFacts DEF IInv, RunInv, RunKnows, RowsGo, Registered
<1>4. Tracked'
    BY <1>1 DEF IInv, RunInv, Tracked, MeansGo
<1> QED BY <1>2, <1>3, <1>4 DEF RunInv

-----------------------------------------------------------------------------
(* The support part under the worker's steps.                              *)

WorkerLocks ==
    lock' = lock \/ lock' = Released(Worker) \/ lock' = Locked(Worker, run.marks)

LEMMA WorkerKeeps ==
    ASSUME IInv, RowsGo, WorkerLocks,
           UNCHANGED <<ticket, made, task, asked, startFailed, replied, waiting>>,
           events' \in 0..MaxEvents, crashes' \in 0..MaxCrashes
    PROVE  SupportInv' /\ lock' \in [People \cup Tickets -> Sessions \cup {NoOne}]
<1>1. lock \in [People \cup Tickets -> Sessions \cup {NoOne}] /\ Worker \in Sessions
    BY DEF IInv, MailTypeOK, Sessions
<1>2. lock' \in [People \cup Tickets -> Sessions \cup {NoOne}]
    BY <1>1 DEF WorkerLocks, Released, Locked
<1>3. \A r \in People \cup Tickets, k \in Tasks : lock'[r] = k => lock[r] = k
    BY <1>1, SupportAssumption, MailingAssumption DEF WorkerLocks, Released, Locked
<1>4. LocksHeld' /\ task' \in [Tasks -> Session]
    BY <1>3 DEF IInv, SupportInv, SupportTypeOK, LocksHeld
<1> QED BY <1>2, <1>4, EndsKeep DEF IInv

\* A run of the worker changes nothing of the bot but the rows it marks and
\* their locks.
Aside == UNCHANGED <<ticket, made, task, asked, startFailed, replied, waiting>>

LEMMA EventsTyped ==
    ASSUME IInv
    PROVE  /\ events \in 0..MaxEvents /\ crashes \in 0..MaxCrashes
           /\ Event => events' \in 0..MaxEvents
           /\ row' = row => RowsGo
           /\ MailTypeOK /\ SupportInv
BY SessionFacts, EventType, SameRows, SupportAssumption DEF IInv, SupportInv, SupportTypeOK, Event

-----------------------------------------------------------------------------
(* A run begins.                                                           *)

LEMMA QueueKeeps ==
    ASSUME IInv, QueueBroadcast, MeansGo
    PROVE  IInv'
<1>1. /\ UNCHANGED <<row, ticket, made, task, lock, asked, startFailed, replied, waiting, crashes>>
      /\ UNCHANGED <<run, got, tried, aborted>> /\ Event
    BY DEF QueueBroadcast
<1>2. PICK i \in Jobs : job[i] = "none" /\ job' = [job EXCEPT ![i] = "queued"]
    BY DEF QueueBroadcast
<1>3. MailTypeOK'
    BY <1>1, <1>2 DEF IInv, MailTypeOK, MeansGo, JobStatuses
<1>4. \A j \in Jobs : job'[j] = IF j = i THEN "queued" ELSE job[j]
    BY <1>2 DEF IInv, MailTypeOK
<1>5. RunShape' /\ Spared'
    BY <1>1, <1>2, <1>4 DEF IInv, RunInv, RunShape, Spared
<1>6. RunKnows'
    BY <1>1, RunFacts DEF IInv, RunInv, RunKnows, Registered
<1>7. Deliveries'
    BY <1>1, <1>2, <1>4 DEF IInv, RunInv, Deliveries, Pending
<1>8. Tracked'
    BY <1>1, <1>2, <1>4 DEF IInv, RunInv, RunShape, Tracked, MeansGo
<1>9. SupportInv'
    BY <1>1, EventsTyped, WorkerKeeps DEF WorkerLocks
<1> QED BY <1>3, <1>5, <1>6, <1>7, <1>8, <1>9 DEF IInv, RunInv

LEMMA RunBroadcastsKeeps ==
    ASSUME IInv, RunBroadcasts, MeansGo
    PROVE  IInv'
<1>1. UNCHANGED supportVars /\ UNCHANGED <<job, got, tried, aborted>> /\ run = NoRun
    BY DEF RunBroadcasts
<1>2. UNCHANGED <<row, ticket, made, task, lock, asked, startFailed, replied, waiting, events, crashes>>
    BY <1>1 DEF supportVars
<1>3. Queued \subseteq Jobs /\ \A j \in Queued : job[j] = "queued"
    BY DEF Queued
<1>4. run' = [NoRun EXCEPT !.pc = "next", !.kind = "broadcast", !.queue = Queued]
    BY DEF RunBroadcasts
<1> HIDE DEF Queued
<1>5. /\ run' \in Run /\ run'.pc = "next" /\ run'.kind = "broadcast" /\ run'.queue = Queued
      /\ run'.job = 0 /\ run'.done = {} /\ run'.todo = {} /\ run'.seen = {} /\ run'.marks = {}
      /\ run'.round = 0 /\ run'.off = {} /\ run'.reached = {}
    BY <1>3, <1>4, NoRunType DEF Run, Kinds
<1>6. MailTypeOK'
    BY <1>1, <1>2, <1>5 DEF IInv, MailTypeOK, MeansGo
<1>7. RunShape' /\ Spared' /\ RunKnows'
    BY <1>1, <1>3, <1>5, RunFacts DEF RunShape, Spared, RunKnows
<1>8. Deliveries'
    BY <1>1, <1>5, NoRunType, RunFacts DEF IInv, RunInv, Deliveries, Pending
<1>9. Tracked'
    BY <1>1, <1>5, NoRunType, RunFacts DEF IInv, RunInv, Tracked, MeansGo
<1>10. SupportInv'
    BY <1>2, EventsTyped, WorkerKeeps DEF WorkerLocks
<1> QED BY <1>6, <1>7, <1>8, <1>9, <1>10 DEF IInv, RunInv

LEMMA JobStartsKeeps ==
    ASSUME IInv, JobStarts, MeansGo
    PROVE  IInv'
<1> DEFINE i == CHOOSE i \in run.queue : \A h \in run.queue : i <= h
<1>1. i \in run.queue
    <2>1. run.queue \subseteq Nat /\ run.queue # {}
        BY RunFacts, MailingAssumption DEF JobStarts, Jobs
    <2> QED BY <2>1, NatHasLeast
<1>2. PICK j \in Jobs : j = i
    BY <1>1, RunFacts
<1>3. UNCHANGED supportVars /\ UNCHANGED <<job, got, aborted>> /\ run.pc = "next"
    BY DEF JobStarts
<1>4. UNCHANGED <<row, ticket, made, task, lock, asked, startFailed, replied, waiting, events, crashes>>
    BY <1>3 DEF supportVars
<1>5. /\ run' = [run EXCEPT !.pc = "send", !.queue = run.queue \ {j}, !.job = j, !.todo = Recipients,
                            !.seen = run.seen \cup Recipients, !.off = Off, !.reached = {}]
      /\ tried' = [tried EXCEPT ![j] = {}]
    BY <1>2 DEF JobStarts
<1>6. /\ Recipients = InReach \ run.marks
      /\ Recipients \subseteq People /\ Off \subseteq People /\ Off \cap Recipients = {}
      /\ \A p \in Recipients : Registered(p)
    BY DEF Recipients, Reachable, Active, InReach, Off
<1> HIDE DEF i
<1>7. /\ run' \in Run /\ run'.pc = "send" /\ run'.kind = run.kind /\ run'.queue = run.queue \ {j}
      /\ run'.job = j /\ run'.done = run.done /\ run'.todo = Recipients
      /\ run'.seen = run.seen \cup Recipients /\ run'.marks = run.marks
      /\ run'.round = run.round /\ run'.off = Off /\ run'.reached = {}
    <2>1. j \in 0..MaxJobs
        BY MailingAssumption DEF Jobs
    <2> QED BY <1>5, <1>6, <2>1, RunFacts DEF Run
<1>8. /\ run.kind = "broadcast" /\ run.job = 0 /\ run.job # j /\ j \notin run.done /\ j # 0
      /\ job[j] = "queued"
    BY <1>1, <1>2, <1>3, RunFacts DEF IInv, RunInv, RunShape
<1>9. MailTypeOK'
    BY <1>3, <1>4, <1>5, <1>7 DEF IInv, MailTypeOK, MeansGo
<1>10. RunShape'
    BY <1>1, <1>2, <1>3, <1>7, <1>8, RunFacts DEF IInv, RunInv, RunShape
<1>11. RunKnows' /\ Spared'
    BY <1>4, <1>6, <1>7, <1>8 DEF IInv, RunInv, RunKnows, Registered, Spared
<1>12. Deliveries'
    <2>1. ASSUME NEW h \in Jobs, NEW p \in People
          PROVE  got[h][p] <= 1 + aborted /\ (Pending(h, p)' => got[h][p] <= aborted)
        <3>1. Pending(h, p)' => Pending(h, p)
            BY <1>3, <1>7, <1>8, RunFacts DEF Pending
        <3> QED BY <3>1 DEF IInv, RunInv, Deliveries
    <2> QED BY <1>3, <2>1 DEF Deliveries
<1>13. Tracked'
    <2>1. \A h \in Jobs : tried'[h] = IF h = j THEN {} ELSE tried[h]
        BY <1>5 DEF IInv, MailTypeOK
    <2>2. \A h \in Jobs : meant'[h] \subseteq meant[h] \/ job[h] # "queued"
        BY <1>3 DEF MeansGo
    <2>3. \A h \in Jobs : meant'[h] \subseteq meant[h]
        BY <1>3 DEF MeansGo
    <2>4. \A h \in Jobs : meant'[h] \subseteq InReach'
        BY DEF MeansGo
    <2> QED BY <1>3, <1>6, <1>7, <1>8, <2>1, <2>3, <2>4 DEF IInv, RunInv, Tracked
<1>14. SupportInv'
    BY <1>4, EventsTyped, WorkerKeeps DEF WorkerLocks
<1> QED BY <1>9, <1>10, <1>11, <1>12, <1>13, <1>14 DEF IInv, RunInv

\* The campaign and the expiry notices begin with users S that exist, of
\* whom B were banned, and send to those of T.
LEMMA NoticeBegins ==
    ASSUME IInv, MeansGo, run = NoRun, Event,
           UNCHANGED <<row, ticket, made, task, lock, asked, startFailed, replied, waiting, crashes>>,
           UNCHANGED <<job, got, tried, aborted>>,
           run' \in Run, run'.pc = "send", run'.kind \in {"retarget", "expiry"}, run'.queue = {},
           run'.job = 0, run'.done = {}, run'.marks = {}, run'.reached = {},
           run'.round # 0 => run'.kind = "expiry",
           \A p \in run'.seen : Registered(p), Spared'
    PROVE  IInv'
<1>1. MailTypeOK'
    BY DEF IInv, MailTypeOK, MeansGo
<1>2. RunShape' /\ RunKnows'
    BY RunFacts DEF RunShape, RunKnows, Registered
<1>3. Deliveries'
    BY NoRunType, RunFacts DEF IInv, RunInv, Deliveries, Pending
<1>4. Tracked'
    BY NoRunType, RunFacts DEF IInv, RunInv, Tracked, MeansGo
<1>5. SupportInv'
    BY EventsTyped, WorkerKeeps DEF WorkerLocks
<1> QED BY <1>1, <1>2, <1>3, <1>4, <1>5 DEF IInv, RunInv

\* Who is banned is blocked, so that he is not reachable.
LEMMA OffIsOut == ASSUME IInv PROVE Off \cap Reachable = {} /\ Off \cap {p \in People : Active(p)} = {}
BY DEF IInv, SupportInv, BannedIsBlocked, Off, Reachable, Active, Registered

LEMMA RunRetargetingKeeps ==
    ASSUME IInv, RunRetargeting, MeansGo
    PROVE  IInv'
<1>1. PICK S \in SUBSET {p \in People : Active(p)} :
          run' = [NoRun EXCEPT !.pc = "send", !.kind = "retarget", !.todo = S,
                               !.seen = S \cap Reachable, !.off = Off]
    BY DEF RunRetargeting
<1>2. S \subseteq People /\ S \cap Off = {} /\ Off \subseteq People /\ \A p \in S : Registered(p)
    BY OffIsOut DEF Off, Active
<1>3. /\ run' \in Run /\ run'.pc = "send" /\ run'.kind = "retarget" /\ run'.queue = {} /\ run'.job = 0
      /\ run'.done = {} /\ run'.todo = S /\ run'.seen = S \cap Reachable /\ run'.marks = {}
      /\ run'.round = 0 /\ run'.off = Off /\ run'.reached = {}
    BY <1>1, <1>2, NoRunType DEF Run, Kinds
<1>4. Spared'
    BY <1>2, <1>3 DEF Spared
<1> QED BY <1>2, <1>3, <1>4, NoticeBegins DEF RunRetargeting

LEMMA RunExpiryKeeps ==
    ASSUME IInv, RunExpiry, MeansGo
    PROVE  IInv'
<1>1. PICK S \in SUBSET {p \in People : Registered(p)} :
          run' = [NoRun EXCEPT !.pc = "send", !.kind = "expiry", !.round = 1, !.loaded = S,
                               !.seen = S \cap Reachable, !.todo = S \cap Reachable,
                               !.off = S \cap Off]
    BY DEF RunExpiry
<1>2. S \subseteq People /\ S \cap Off \cap (S \cap Reachable) = {} /\ 1 \in 0..2
    BY OffIsOut
<1> DEFINE seen == S \cap Reachable
           off == S \cap Off
<1>5. /\ run' = [NoRun EXCEPT !.pc = "send", !.kind = "expiry", !.round = 1, !.loaded = S,
                             !.seen = seen, !.todo = seen, !.off = off]
      /\ seen \subseteq S /\ off \subseteq S /\ off \cap seen = {}
      /\ \A p \in seen : Registered(p)
    BY <1>1, <1>2
<1> HIDE DEF seen, off
<1>3. /\ run' \in Run /\ run'.pc = "send" /\ run'.kind = "expiry" /\ run'.queue = {} /\ run'.job = 0
      /\ run'.done = {} /\ run'.todo = seen /\ run'.seen = seen /\ run'.loaded = S
      /\ run'.marks = {} /\ run'.round = 1 /\ run'.off = off /\ run'.reached = {}
    BY <1>2, <1>5, NoRunType DEF Run, Kinds
<1>4. Spared'
    BY <1>3, <1>5 DEF Spared
<1> QED BY <1>3, <1>4, <1>5, NoticeBegins DEF RunExpiry

-----------------------------------------------------------------------------
(* One recipient.                                                          *)

\* Whatever Telegram answers, p is not served again.
LEMMA ServedKeeps ==
    ASSUME IInv, MeansGo, NEW p \in People, Tries(p),
           run' \in Run, run'.pc = "send" \/ (run'.pc = "mark" /\ run.kind = "broadcast"),
           run'.kind = run.kind, run'.queue = run.queue, run'.job = run.job, run'.done = run.done,
           run'.loaded = run.loaded, run'.seen = run.seen, run'.round = run.round,
           run'.off = run.off, run'.todo = run.todo \ {p},
           run'.reached \subseteq run.reached \cup {p},
           run.marks \subseteq run'.marks, run'.marks \subseteq run.marks \cup run.seen,
           \/ got' = got
           \/ got' = [j \in Jobs |-> IF j = run.job THEN [got[j] EXCEPT ![p] = @ + 1] ELSE got[j]]
    PROVE  IInv'
<1>1. /\ run.pc = "send" /\ p \in run.todo /\ UNCHANGED <<supportVars, job, aborted>>
      /\ tried' = [j \in Jobs |-> IF j = run.job THEN tried[j] \cup {p} ELSE tried[j]]
    BY DEF Tries
<1>2. UNCHANGED <<row, ticket, made, task, lock, asked, startFailed, replied, waiting, events, crashes>>
    BY <1>1 DEF supportVars
<1>3. /\ got' \in [Jobs -> [People -> Nat]]
      /\ \A j \in Jobs, q \in People : got'[j][q] # got[j][q] =>
             j = run.job /\ q = p /\ got'[j][q] = got[j][q] + 1
    <2>1. got \in [Jobs -> [People -> Nat]]
        BY DEF IInv, MailTypeOK
    <2>2. CASE got' = got
        BY <2>1, <2>2
    <2>3. CASE got' = [j \in Jobs |-> IF j = run.job THEN [got[j] EXCEPT ![p] = @ + 1] ELSE got[j]]
        BY <2>1, <2>3
    <2> QED BY <2>2, <2>3
<1>4. tried' \in [Jobs -> SUBSET People]
    BY <1>1 DEF IInv, MailTypeOK
<1>5. MailTypeOK'
    BY <1>1, <1>2, <1>3, <1>4 DEF IInv, MailTypeOK, MeansGo
<1>6. RunShape'
    BY <1>1, RunFacts DEF IInv, RunInv, RunShape
<1>7. RunKnows'
    BY <1>2 DEF IInv, RunInv, RunKnows, Registered
<1>8. Spared'
    BY <1>1 DEF IInv, RunInv, Spared
<1>9. Deliveries'
    <2>1. ASSUME NEW j \in Jobs, NEW q \in People
          PROVE  got'[j][q] <= 1 + aborted /\ (Pending(j, q)' => got'[j][q] <= aborted)
        <3>1. /\ got[j][q] <= 1 + aborted /\ (Pending(j, q) => got[j][q] <= aborted)
              /\ got[j][q] \in Nat /\ aborted \in Nat
            BY RunFacts DEF IInv, RunInv, Deliveries
        <3>2. Pending(j, q)' => Pending(j, q)
            BY <1>1 DEF Pending
        <3>3. CASE got'[j][q] = got[j][q]
            BY <3>1, <3>2, <3>3
        <3>4. CASE got'[j][q] # got[j][q]
            <4>1. j = run.job /\ q = p /\ got'[j][q] = got[j][q] + 1
                BY <1>3, <3>4
            <4>2. Pending(j, q) /\ ~Pending(j, q)'
                BY <1>1, <4>1 DEF Pending
            <4> QED BY <3>1, <4>1, <4>2
        <3> QED BY <3>3, <3>4
    <2> QED BY <1>1, <2>1 DEF Deliveries
<1>10. Tracked'
    <2>1. \A j \in Jobs : tried'[j] = IF j = run.job THEN tried[j] \cup {p} ELSE tried[j]
        BY <1>1
    <2>2. \A j \in Jobs : meant'[j] \subseteq meant[j] /\ meant'[j] \subseteq InReach'
        BY <1>1 DEF MeansGo
    <2> QED BY <1>1, <2>1, <2>2 DEF IInv, RunInv, Tracked
<1>11. SupportInv'
    BY <1>2, EventsTyped, WorkerKeeps DEF WorkerLocks
<1> QED BY <1>5, <1>6, <1>7, <1>8, <1>9, <1>10, <1>11 DEF IInv, RunInv

LEMMA DeliversKeeps ==
    ASSUME IInv, NEW p \in People, Delivers(p), MeansGo
    PROVE  IInv'
<1>1. run \in Run /\ run.pc = "send"
    BY RunFacts DEF Delivers, Tries
<1>2. run' = [run EXCEPT !.todo = run.todo \ {p}, !.reached = run.reached \cup {p}]
    BY DEF Delivers
<1>3. /\ run' \in Run /\ run'.pc = "send" /\ run'.kind = run.kind /\ run'.queue = run.queue
      /\ run'.job = run.job /\ run'.done = run.done /\ run'.loaded = run.loaded
      /\ run'.seen = run.seen /\ run'.round = run.round /\ run'.off = run.off
      /\ run'.todo = run.todo \ {p} /\ run'.reached = run.reached \cup {p} /\ run'.marks = run.marks
    BY <1>1, <1>2 DEF Run
<1> QED BY <1>3, ServedKeeps DEF Delivers

LEMMA RefusesKeeps ==
    ASSUME IInv, NEW p \in People, Refuses(p), MeansGo
    PROVE  IInv'
<1> DEFINE marks == run.marks \cup ({p} \cap run.seen)
           pc == IF run.kind = "broadcast" THEN "mark" ELSE run.pc
<1>1. run \in Run /\ run.pc = "send"
    BY RunFacts DEF Refuses, Tries
<1>2. run' = [run EXCEPT !.todo = run.todo \ {p}, !.marks = marks, !.pc = pc]
    BY DEF Refuses
<1>3. /\ marks \subseteq People /\ run.marks \subseteq marks /\ marks \subseteq run.marks \cup run.seen
      /\ pc = "send" \/ (pc = "mark" /\ run.kind = "broadcast")
    BY <1>1, RunFacts
<1> HIDE DEF marks, pc
<1>4. /\ run' \in Run /\ run'.pc = pc /\ run'.kind = run.kind /\ run'.queue = run.queue
      /\ run'.job = run.job /\ run'.done = run.done /\ run'.loaded = run.loaded
      /\ run'.seen = run.seen /\ run'.round = run.round /\ run'.off = run.off
      /\ run'.todo = run.todo \ {p} /\ run'.reached = run.reached /\ run'.marks = marks
    BY <1>1, <1>2, <1>3 DEF Run
<1> QED BY <1>3, <1>4, ServedKeeps DEF Refuses

LEMMA ErrsKeeps ==
    ASSUME IInv, NEW p \in People, Errs(p), MeansGo
    PROVE  IInv'
<1>1. run \in Run /\ run.pc = "send"
    BY RunFacts DEF Errs, Tries
<1>2. PICK failed \in BOOLEAN : run' = [run EXCEPT !.todo = run.todo \ {p}, !.failed = failed]
    <2>1. run' = [run EXCEPT !.todo = run.todo \ {p}, !.failed = run.failed \/ run.kind = "retarget"]
        BY DEF Errs, AfterError
    <2>2. (run.failed \/ run.kind = "retarget") \in BOOLEAN
        OBVIOUS
    <2> QED BY <2>1, <2>2, Zenon
<1>3. /\ run' \in Run /\ run'.pc = "send" /\ run'.kind = run.kind /\ run'.queue = run.queue
      /\ run'.job = run.job /\ run'.done = run.done /\ run'.loaded = run.loaded
      /\ run'.seen = run.seen /\ run'.round = run.round /\ run'.off = run.off
      /\ run'.todo = run.todo \ {p} /\ run'.reached = run.reached /\ run'.marks = run.marks
    BY <1>1, <1>2 DEF Run
<1> QED BY <1>3, ServedKeeps DEF Errs

LEMMA MarksKeeps ==
    ASSUME IInv, Marks, MeansGo
    PROVE  IInv'
<1>1. /\ UNCHANGED <<row, ticket, made, task, asked, startFailed, replied, waiting, events, crashes>>
      /\ UNCHANGED <<job, got, tried, aborted>> /\ run.pc = "mark"
      /\ lock' = Locked(Worker, run.marks) /\ run' = [run EXCEPT !.pc = "send"]
    BY DEF Marks
<1>2. /\ run' \in Run /\ run'.pc = "send" /\ run'.kind = run.kind /\ run'.queue = run.queue
      /\ run'.job = run.job /\ run'.done = run.done /\ run'.todo = run.todo
      /\ run'.loaded = run.loaded /\ run'.seen = run.seen /\ run'.marks = run.marks
      /\ run'.round = run.round /\ run'.off = run.off /\ run'.reached = run.reached
    BY <1>1, RunFacts DEF Run
<1>3. SupportInv' /\ lock' \in [People \cup Tickets -> Sessions \cup {NoOne}]
    BY <1>1, EventsTyped, WorkerKeeps DEF WorkerLocks
<1>4. MailTypeOK'
    BY <1>1, <1>2, <1>3 DEF IInv, MailTypeOK, MeansGo
<1>5. RunShape' /\ Spared'
    BY <1>1, <1>2 DEF IInv, RunInv, RunShape, Spared
<1>6. RunKnows'
    BY <1>1, <1>2 DEF IInv, RunInv, RunKnows, Registered
<1>7. Deliveries'
    BY <1>1, <1>2 DEF IInv, RunInv, Deliveries, Pending
<1>8. Tracked'
    BY <1>1, <1>2 DEF IInv, RunInv, Tracked, MeansGo
<1> QED BY <1>3, <1>4, <1>5, <1>6, <1>7, <1>8 DEF IInv, RunInv

LEMMA JobEndsKeeps ==
    ASSUME IInv, JobEnds, MeansGo
    PROVE  IInv'
<1>1. /\ UNCHANGED supportVars /\ UNCHANGED <<job, got, tried, aborted>>
      /\ run.pc = "send" /\ run.todo = {} /\ run.kind = "broadcast"
      /\ run' = [run EXCEPT !.pc = "next", !.done = run.done \cup {run.job}, !.job = 0,
                            !.off = {}, !.reached = {}]
    BY DEF JobEnds, AllSent, Done
<1>2. UNCHANGED <<row, ticket, made, task, lock, asked, startFailed, replied, waiting, events, crashes>>
    BY <1>1 DEF supportVars
<1>3. run.job \in Jobs /\ run.job # 0 /\ run.job \notin run.queue
    BY <1>1, RunFacts DEF IInv, RunInv, RunShape
<1>4. /\ run' \in Run /\ run'.pc = "next" /\ run'.kind = run.kind /\ run'.queue = run.queue
      /\ run'.job = 0 /\ run'.done = run.done \cup {run.job} /\ run'.todo = run.todo
      /\ run'.loaded = run.loaded /\ run'.seen = run.seen /\ run'.marks = run.marks
      /\ run'.round = run.round /\ run'.off = {} /\ run'.reached = {}
    <2>1. 0 \in 0..MaxJobs
        BY MailingAssumption
    <2> QED BY <1>1, <1>3, <2>1, RunFacts DEF Run
<1>5. SupportInv'
    BY <1>2, EventsTyped, WorkerKeeps DEF WorkerLocks
<1>6. MailTypeOK'
    BY <1>1, <1>2, <1>4 DEF IInv, MailTypeOK, MeansGo
<1>7. RunShape' /\ Spared'
    BY <1>1, <1>3, <1>4, RunFacts DEF IInv, RunInv, RunShape, Spared
<1>8. RunKnows'
    BY <1>2, <1>4 DEF IInv, RunInv, RunKnows, Registered
<1>9. Deliveries'
    <2>1. ASSUME NEW j \in Jobs, NEW p \in People
          PROVE  got[j][p] <= 1 + aborted /\ (Pending(j, p)' => got[j][p] <= aborted)
        <3>1. Pending(j, p)' => Pending(j, p)
            BY <1>1, <1>4, RunFacts DEF Pending
        <3> QED BY <3>1 DEF IInv, RunInv, Deliveries
    <2> QED BY <1>1, <2>1 DEF Deliveries
<1>10. Tracked'
    <2>1. \A j \in Jobs : meant'[j] \subseteq meant[j] /\ meant'[j] \subseteq InReach'
        BY <1>1 DEF MeansGo
    <2> QED BY <1>1, <1>3, <1>4, <2>1, RunFacts DEF IInv, RunInv, Tracked
<1> QED BY <1>5, <1>6, <1>7, <1>8, <1>9, <1>10 DEF IInv, RunInv

\* The second loop finds nobody who was banned when he was loaded: the users
\* of the first loop are as they were, and of the others the banned are blocked.
LEMMA SecondLoopKeeps ==
    ASSUME IInv, SecondLoop, MeansGo
    PROVE  IInv'
<1>1. /\ UNCHANGED supportVars /\ UNCHANGED <<job, got, tried, aborted>>
      /\ run.pc = "send" /\ run.todo = {} /\ run.round = 1
    BY DEF SecondLoop, AllSent
<1>2. UNCHANGED <<row, ticket, made, task, lock, asked, startFailed, replied, waiting, events, crashes>>
    BY <1>1 DEF supportVars
<1>3. run.kind = "expiry" /\ run.job = 0 /\ run.queue = {} /\ run.done = {}
    BY <1>1 DEF IInv, RunInv, RunShape
<1>4. PICK S \in SUBSET {p \in People : Registered(p)} :
          run' = [run EXCEPT !.round = 2, !.loaded = run.loaded \cup S,
                             !.seen = run.seen \cup ((S \ run.loaded) \cap Reachable),
                             !.todo = ((S \cap run.seen) \ run.marks) \cup ((S \ run.loaded) \cap Reachable),
                             !.off = run.off \cup (Off \cap (S \ run.loaded))]
    BY DEF SecondLoop
<1> DEFINE fresh == (S \ run.loaded) \cap Reachable
           todo == ((S \cap run.seen) \ run.marks) \cup fresh
           off == run.off \cup (Off \cap (S \ run.loaded))
<1>5. S \subseteq People /\ fresh \subseteq S \ run.loaded /\ \A p \in fresh : Registered(p)
    OBVIOUS
<1>6. /\ run.off \cap run.seen = {} /\ run.seen \cup run.off \subseteq run.loaded
      /\ run.reached \subseteq run.seen
    BY <1>3 DEF IInv, RunInv, Spared
<1>7. /\ todo \subseteq run.seen \cup fresh /\ todo \subseteq S
      /\ run.off \subseteq off /\ off \subseteq run.loaded \cup S
      /\ off \cap (run.seen \cup fresh) = {}
    BY <1>6, OffIsOut
<1> HIDE DEF fresh, todo, off
<1>8. run' = [run EXCEPT !.round = 2, !.loaded = run.loaded \cup S, !.seen = run.seen \cup fresh,
                         !.todo = todo, !.off = off]
    BY <1>4 DEF fresh, todo, off
<1>9. /\ run' \in Run /\ run'.pc = "send" /\ run'.kind = run.kind /\ run'.queue = run.queue
      /\ run'.job = run.job /\ run'.done = run.done /\ run'.todo = todo
      /\ run'.loaded = run.loaded \cup S /\ run'.seen = run.seen \cup fresh
      /\ run'.marks = run.marks /\ run'.round = 2 /\ run'.off = off /\ run'.reached = run.reached
    <2>1. 2 \in 0..2 /\ todo \subseteq People /\ off \subseteq People
          /\ run.seen \cup fresh \subseteq People /\ run.loaded \cup S \subseteq People
        BY <1>5, <1>7, RunFacts
    <2> QED BY <1>1, <1>8, <2>1, RunFacts DEF Run
<1>10. SupportInv'
    BY <1>2, EventsTyped, WorkerKeeps DEF WorkerLocks
<1>11. MailTypeOK'
    BY <1>1, <1>2, <1>9 DEF IInv, MailTypeOK, MeansGo
<1>12. RunShape'
    BY <1>1, <1>3, <1>9 DEF IInv, RunInv, RunShape
<1>13. Spared'
    BY <1>3, <1>5, <1>6, <1>7, <1>9 DEF Spared
<1>14. RunKnows'
    BY <1>2, <1>5, <1>9 DEF IInv, RunInv, RunKnows, Registered
<1>15. Deliveries'
    BY <1>1, <1>3, <1>9, RunFacts DEF IInv, RunInv, Deliveries, Pending
<1>16. Tracked'
    BY <1>1, <1>3, <1>9, RunFacts DEF IInv, RunInv, Tracked, MeansGo
<1> QED BY <1>10, <1>11, <1>12, <1>13, <1>14, <1>15, <1>16 DEF IInv, RunInv

-----------------------------------------------------------------------------
(* A run ends.                                                             *)

\* Whoever a broadcast is still for when its run commits is not among those
\* the run marks: he has been tried.
LEMMA RunCommitsKeeps ==
    ASSUME IInv, RunCommits, MeansGo
    PROVE  IInv'
<1>1. /\ UNCHANGED <<ticket, made, task, asked, startFailed, replied, waiting, events, crashes>>
      /\ UNCHANGED <<got, tried, aborted>> /\ row' = Marked(run.marks)
      /\ lock' = Released(Worker) /\ run' = NoRun
      /\ job' = [j \in Jobs |-> IF j \in run.done THEN "finished" ELSE job[j]]
    BY DEF RunCommits
<1>2. run.job = 0
    BY DEF RunCommits, Ended, AllSent, IInv, RunInv, RunShape
<1>3. \A p \in run.marks : Registered(p)
    BY DEF IInv, RunInv, RunKnows
<1>4. RowsGo
    BY <1>1, <1>3, MarkedGo DEF IInv
<1>5. InReach' \cap run.marks = {}
    <2>1. \A p \in run.marks : p \in People => Marked(run.marks)[p].blocked = TRUE
        BY <1>3, MarkedRows DEF IInv, SupportInv
    <2> QED BY <1>1, <2>1 DEF InReach
<1>6. SupportInv' /\ lock' \in [People \cup Tickets -> Sessions \cup {NoOne}]
    <2>1. events' \in 0..MaxEvents /\ crashes' \in 0..MaxCrashes
        BY <1>1, EventsTyped
    <2> QED BY <1>1, <1>4, <2>1, WorkerKeeps DEF WorkerLocks
<1>7. \A j \in Jobs : job'[j] = IF j \in run.done THEN "finished" ELSE job[j]
    BY <1>1
<1>8. MailTypeOK'
    <2>1. job' \in [Jobs -> JobStatuses]
        BY <1>1 DEF IInv, MailTypeOK, JobStatuses
    <2> QED BY <1>1, <1>6, <2>1, NoRunType DEF IInv, MailTypeOK, MeansGo
<1>9. RunShape' /\ RunKnows' /\ Spared'
    <2>1. 0 \notin Jobs
        BY RunFacts
    <2> QED BY <1>1, <2>1, NoRunType DEF RunShape, RunKnows, Spared
<1>10. Deliveries'
    <2>1. ASSUME NEW j \in Jobs, NEW p \in People
          PROVE  got[j][p] <= 1 + aborted /\ (Pending(j, p)' => got[j][p] <= aborted)
        <3>1. Pending(j, p)' => Pending(j, p)
            BY <1>1, <1>2, <1>7, NoRunType, RunFacts DEF Pending
        <3> QED BY <3>1 DEF IInv, RunInv, Deliveries
    <2> QED BY <1>1, <2>1 DEF Deliveries
<1>11. Tracked'
    <2>1. \A j \in Jobs : meant'[j] \subseteq meant[j] /\ meant'[j] \subseteq InReach'
        BY <1>7 DEF MeansGo
    <2>2. ASSUME NEW j \in Jobs, job'[j] = "finished"
          PROVE  meant'[j] \subseteq tried[j]
        <3>1. CASE j \in run.done
            BY <1>5, <2>1, <3>1 DEF IInv, RunInv, Tracked
        <3>2. CASE j \notin run.done
            BY <1>7, <2>1, <2>2, <3>2 DEF IInv, RunInv, Tracked
        <3> QED BY <3>1, <3>2
    <2> QED BY <1>1, <2>1, <2>2, NoRunType, RunFacts DEF Tracked
<1> QED BY <1>6, <1>8, <1>9, <1>10, <1>11 DEF IInv, RunInv

\* A lost run may have served anybody: one more delivery is allowed to each.
LEMMA AbortsKeep ==
    ASSUME IInv, Aborts, MeansGo, events' \in 0..MaxEvents, crashes' \in 0..MaxCrashes
    PROVE  IInv'
<1>1. /\ UNCHANGED <<row, ticket, made, task, asked, startFailed, replied, waiting>>
      /\ UNCHANGED <<job, got, tried>> /\ aborted' = aborted + 1
      /\ lock' = Released(Worker) /\ run' = NoRun
    BY DEF Aborts
<1>2. SupportInv' /\ lock' \in [People \cup Tickets -> Sessions \cup {NoOne}]
    BY <1>1, EventsTyped, WorkerKeeps DEF WorkerLocks
<1>3. MailTypeOK'
    BY <1>1, <1>2, NoRunType DEF IInv, MailTypeOK, MeansGo
<1>4. RunShape' /\ RunKnows' /\ Spared'
    <2>1. 0 \notin Jobs
        BY RunFacts
    <2> QED BY <1>1, <2>1, NoRunType DEF RunShape, RunKnows, Spared
<1>5. Deliveries'
    <2>1. ASSUME NEW j \in Jobs, NEW p \in People
          PROVE  got[j][p] <= aborted + 1 /\ got[j][p] <= 1 + (aborted + 1)
        BY RunFacts DEF IInv, RunInv, Deliveries
    <2> QED BY <1>1, <2>1 DEF Deliveries
<1>6. Tracked'
    <2>1. \A j \in Jobs : meant'[j] \subseteq meant[j] /\ meant'[j] \subseteq InReach'
        BY <1>1 DEF MeansGo
    <2> QED BY <1>1, <2>1, NoRunType, RunFacts DEF IInv, RunInv, Tracked
<1> QED BY <1>2, <1>3, <1>4, <1>5, <1>6 DEF IInv, RunInv

LEMMA DeadlockKeeps ==
    ASSUME IInv, NEW x \in Sessions, DeadlockFails(x), MeansGo
    PROVE  IInv'
<1>1. UNCHANGED <<events, crashes>> /\ events' \in 0..MaxEvents /\ crashes' \in 0..MaxCrashes
    BY EventsTyped DEF DeadlockFails
<1>2. CASE x = Worker
    BY <1>1, <1>2, AbortsKeep DEF DeadlockFails
<1>3. CASE x # Worker
    <2>1. /\ x \in Tasks /\ task' = [task EXCEPT ![x] = Idle] /\ lock' = Released(x)
          /\ UNCHANGED <<row, ticket, made, asked, startFailed, replied, waiting>>
          /\ UNCHANGED mailVars
        BY <1>3 DEF DeadlockFails, Sessions
    <2>2. lock \in [People \cup Tickets -> Sessions \cup {NoOne}] /\ task \in [Tasks -> Session]
        BY DEF IInv, MailTypeOK, SupportInv, SupportTypeOK
    <2>3. /\ task' \in [Tasks -> Session]
          /\ \A j \in Tasks : task'[j] = task[j] \/ task'[j] = Idle
          /\ \A j \in Tasks : j # x => task'[j] = task[j]
        BY <2>1, <2>2, IdleType
    <2>4. LocksHeld'
        BY <2>1, <2>2, <2>3, ReleasedLocks DEF IInv
    <2>5. RowsGo
        BY <2>1, EventsTyped
    <2>6. SupportInv'
        BY <1>1, <2>1, <2>3, <2>4, <2>5, EndsKeep DEF IInv
    <2>7. lock' \in [People \cup Tickets -> Sessions \cup {NoOne}]
        BY <2>1, <2>2 DEF Released
    <2>8. MailTypeOK'
        BY <2>1, <2>7 DEF IInv, MailTypeOK, mailVars, MeansGo
    <2> QED BY <2>1, <2>5, <2>6, <2>8, RunStill DEF IInv
<1> QED BY <1>2, <1>3

-----------------------------------------------------------------------------
(* The whole.                                                              *)

LEMMA InitKeeps == Init => IInv
<1> SUFFICES ASSUME Init PROVE IInv
    OBVIOUS
<1>1. SupportInv
    BY SupportInitKeeps DEF Init
<1>2. /\ job = [j \in Jobs |-> "none"] /\ run = NoRun /\ aborted = 0
      /\ got = [j \in Jobs |-> [p \in People |-> 0]]
      /\ meant = [j \in Jobs |-> {}] /\ tried = [j \in Jobs |-> {}]
      /\ lock = [r \in People \cup Tickets |-> NoOne]
    BY DEF Init, SupportInit
<1>3. MailTypeOK
    BY <1>2, NoRunType DEF MailTypeOK, JobStatuses
<1>4. 0 \notin Jobs
    BY MailingAssumption DEF Jobs
<1>5. RunShape /\ RunKnows /\ Deliveries /\ Tracked /\ Spared
    BY <1>2, <1>4, NoRunType DEF RunShape, RunKnows, Deliveries, Pending, Tracked, Spared
<1> QED BY <1>1, <1>3, <1>5 DEF IInv, RunInv

LEMMA BotKeeps ==
    ASSUME IInv, SupportStep, UNCHANGED mailVars, MeansGo
    PROVE  IInv'
<1>1. /\ SupportInv /\ Tasks \cup {NoOne} \subseteq Sessions \cup {NoOne}
      /\ lock \in [People \cup Tickets -> Sessions \cup {NoOne}]
    BY DEF IInv, MailTypeOK, Sessions
<1>2. SupportInv' /\ RowsGo
    BY <1>1, SupportStepKeeps
<1>3. lock' \in [People \cup Tickets -> Sessions \cup {NoOne}]
    BY <1>1, SupportStepLocks
<1>4. MailTypeOK'
    BY <1>3 DEF IInv, MailTypeOK, mailVars, MeansGo
<1> QED BY <1>2, <1>4, RunStill DEF IInv

LEMMA NextKeeps == IInv /\ [Next]_vars => IInv'
<1> SUFFICES ASSUME IInv, [Next]_vars PROVE IInv'
    OBVIOUS
<1>1. Means => MeansGo
    BY MeansForm DEF IInv
<1>2. CASE SupportStep /\ UNCHANGED mailVars /\ Means
    BY <1>1, <1>2, BotKeeps
<1>3. CASE RunStep
    BY <1>1, <1>3, RunBroadcastsKeeps, JobStartsKeeps, DeliversKeeps, RefusesKeeps, ErrsKeeps,
       MarksKeeps, JobEndsKeeps, SecondLoopKeeps, RunCommitsKeeps, AbortsKeep, EventsTyped
    DEF RunStep, RunFails
<1>4. CASE (QueueBroadcast \/ RunRetargeting \/ RunExpiry) /\ Means
    BY <1>1, <1>4, QueueKeeps, RunRetargetingKeeps, RunExpiryKeeps
<1>5. CASE WorkerCrash /\ Means
    <2>1. events' \in 0..MaxEvents /\ crashes' \in 0..MaxCrashes
        BY <1>5, EventsTyped, SupportAssumption DEF WorkerCrash
    <2> QED BY <1>1, <1>5, <2>1, AbortsKeep DEF WorkerCrash
<1>6. CASE LockStep
    BY <1>1, <1>6, DeadlockKeeps DEF LockStep
<1>7. CASE UNCHANGED vars
    <2>1. /\ UNCHANGED <<row, ticket, made, task, lock, asked, startFailed, replied, waiting,
                         events, crashes>>
          /\ UNCHANGED mailVars /\ UNCHANGED <<job, run, got, tried, aborted>> /\ meant' = meant
        BY <1>7 DEF vars, supportVars, mailVars
    <2>2. RowsGo /\ SupportInv'
        BY <2>1, EventsTyped, WorkerKeeps DEF WorkerLocks
    <2>3. MailTypeOK'
        BY <2>1 DEF IInv, MailTypeOK
    <2>4. MeansGo
        BY <2>1 DEF IInv, RunInv, Tracked, MailTypeOK, MeansGo, InReach, Active, Registered
    <2> QED BY <2>1, <2>2, <2>3, <2>4, RunStill DEF IInv
<1> QED BY <1>2, <1>3, <1>4, <1>5, <1>6, <1>7 DEF Next

\* What the sessions and the runs have read is still good for what they will
\* do with it, in the sense of SupportInv and RunInv.
THEOREM InvariantHolds == Spec => []IInv
BY InitKeeps, NextKeeps, PTL DEF Spec

-----------------------------------------------------------------------------
\* Users, tickets, sessions, broadcasts and runs keep their types: no status
\* but the models' own is ever stored, no number passes its bound, and a row
\* is held by a session of the bot, by the worker's or by nobody.
THEOREM MailingTypeOK == Spec => []TypeOK
<1>1. IInv => TypeOK
    BY DEF IInv, SupportInv, MailTypeOK, TypeOK
<1> QED BY <1>1, InvariantHolds, PTL

\* Two /start of one person at the same time both succeed: the session whose
\* INSERT fails finds the winner's row when it reads again.
THEOREM MailingStartNeverFails == Spec => []StartNeverFails
<1>1. IInv => StartNeverFails
    BY DEF IInv, SupportInv
<1> QED BY <1>1, InvariantHolds, PTL

\* A ticket is "answered" only if a reply has reached its customer, whatever
\* sessions, restarts and deadlocks come between the reply and the commit.
THEOREM MailingAnsweredWasDelivered == Spec => []AnsweredWasDelivered
<1>1. IInv => AnsweredWasDelivered
    BY DEF IInv, SupportInv
<1> QED BY <1>1, InvariantHolds, PTL

\* A ticket with a message no administrator has acted on is open, next to
\* any number of customers, replies, restarts and deadlocks.
THEOREM MailingWaitingIsOpen == Spec => []WaitingIsOpen
<1>1. IInv => WaitingIsOpen
    BY DEF IInv, SupportInv
<1> QED BY <1>1, InvariantHolds, PTL

\* Each run that is lost, by a crash, a failure or a deadlock, sends a
\* broadcast at most once more to anybody.
THEOREM MailingSentOncePerRun == Spec => []SentOncePerRun
<1>1. IInv => SentOncePerRun
    BY DEF IInv, RunInv, Deliveries, SentOncePerRun
<1> QED BY <1>1, InvariantHolds, PTL

\* A broadcast is "finished" only when the last of its runs has tried
\* everybody whom it was for all the time.
THEOREM MailingFinishedTriedAll == Spec => []FinishedTriedAll
<1>1. IInv => FinishedTriedAll
    BY DEF IInv, RunInv, Tracked, FinishedTriedAll
<1> QED BY <1>1, InvariantHolds, PTL

\* Nobody gets a mailing whose run loaded him while he was banned: the mark
\* of the ban keeps him out of the expiry notices, and whoever was loaded in
\* the first of their loops is in the second as he was then.
THEOREM MailingBannedGetsNoMail == Spec => []BannedGetsNoMail
<1>1. IInv => BannedGetsNoMail
    BY DEF IInv, RunInv, Spared, BannedGetsNoMail
<1> QED BY <1>1, InvariantHolds, PTL
=============================================================================
