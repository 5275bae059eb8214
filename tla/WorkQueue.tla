----------------------------- MODULE WorkQueue -----------------------------
(***************************************************************************)
(* What makes a reconcile of ONE monitor happen, and when: the controller's*)
(* work queue, the watches that feed it (monitors, and Jobs through        *)
(* mapJobToMonitors; CronJobs are not watched), the requeue interval every *)
(* path returns, and the metric series a reconcile leaves behind.  The     *)
(* other modules assume that reconciles keep coming; this one shows it.    *)
(*                                                                         *)
(* Time is in ticks.  The schedule's slots are the multiples of Period; a  *)
(* slot may or may not fire.  `lag` adds up what the operator cannot       *)
(* control: ticks that pass while a notification is undelivered or a       *)
(* reconcile unfinished, and the delays of failed or conflicting writes.   *)
(***************************************************************************)
EXTENDS FiniteSets, Integers

CONSTANTS
    Period,        \* distance of the schedule's slots
    Grace,         \* spec.gracePeriodSeconds
    LeadJitter,    \* requeueLeadJitter
    ReconcileMin,  \* requeueAfterReconcileMin
    AfterError,    \* requeueAfterError
    AfterConflict, \* requeueAfterConflict
    Backoff,       \* the rate limiter's delay after an error
    ResyncPeriod,  \* the informers' resync
    Verdicts,      \* what reconciling the CronJob can come to
    MaxTime,       \* bound: the clock
    MaxLag,        \* bound: the lag
    MaxChanges     \* bound: what users do, failed calls, restarts

ASSUME IntervalsAssumption ==
    /\ Period \in Nat \ {0} /\ Grace \in Nat
    /\ {LeadJitter, ReconcileMin, AfterError, AfterConflict, Backoff,
         ResyncPeriod} \subseteq Nat \ {0}
ASSUME VerdictsAssumption ==
    /\ "ReconcileSuccess" \in Verdicts
    /\ Verdicts \subseteq {"ReconcileSuccess", "CronJobNotFound",
                           "InvalidSchedule"}
ASSUME BoundsAssumption == {MaxTime, MaxLag, MaxChanges} \subseteq Nat

VARIABLES
    now,
    store,       \* the monitor in the API server
    cached,      \* the informer's copy
    notice,      \* a change of the cached monitor the queue has not been told
    cronjob,     \* the CronJob: what reconciling it comes to, and its uid
    job,         \* the newest Job that exists: its slot (0: none) and owner
    seenCronJob, \* the informer's CronJob
    seenJob,     \* the informer's newest Job
    jobNotice,   \* a Job event mapJobToMonitors has not been called for
    up,          \* the controller is running
    dirty,       \* the key waits in the queue
    worker,      \* "idle"; "read", "sent": where the reconcile stands
    cjm,         \* the object it holds: as read, then as sent
    result,      \* the requeue it will ask for, and whether it counts misses
    timer,       \* when AddAfter will add the key (Never: not armed)
    series,      \* the registered metric vecs that hold series of this key
    changes,
    \* History:
    lag,
    measurable   \* since when the CronJob has been measurable

world == <<cronjob, job, measurable>>
views == <<seenCronJob, seenJob, jobNotice>>
queue == <<up, dirty, worker, cjm, result, timer, series>>
vars == <<now, store, cached, notice, world, views, queue, changes, lag>>

(* The vecs of metrics/reconcile.go: what the deferred handler writes, and *)
(* the burn counter.                                                       *)
Vecs == {"reconcile", "missed_runs"}

(* missed: Status.MissedRuns, as the set of slots it counts. *)
Slot(t) == t > 0 /\ t % Period = 0
Slots == {t \in 0..MaxTime : Slot(t)}
Monitor == [present: BOOLEAN, rv: Nat, created: Nat, latch: Nat,
            verdict: Verdicts \cup {"None"}, missed: SUBSET Slots]
Blank(there, rv, t) == [present |-> there, rv |-> rv, created |-> t, latch |-> 0,
                        verdict |-> "None", missed |-> {}]
Nothing == Blank(FALSE, 0, 0)
CronJob == [verdict: Verdicts, uid: Nat]
Job == [slot: {0} \cup Slots, owner: Nat]
NoJob == [slot |-> 0, owner |-> 0]
Never == -1
NoResult == [requeue |-> 0, counts |-> FALSE]

Larger(a, b) == IF a >= b THEN a ELSE b
(* lag saturates at its bound, where nothing is claimed any more. *)
Lagged(x) == IF lag + x > MaxLag THEN MaxLag ELSE lag + x

-----------------------------------------------------------------------------
(* The delaying queue: one pending entry per key, the earliest wins.  A    *)
(* result whose RequeueAfter is 0 adds none.                               *)
AddAfter(delay) ==
    timer' = IF delay > 0 /\ (timer = Never \/ now + delay < timer)
             THEN now + delay ELSE timer

(* NextSlot of the schedule. *)
NextSlot(t) == (t \div Period + 1) * Period

(* Mutant: measured to the slot before, without the floor. *)
RequeueToLastSlot == NextSlot(now) - Period - now + LeadJitter

(* The happy path's requeue: just after the next slot, but not before a    *)
(* minute is over.                                                         *)
HappyRequeue ==
    Larger(NextSlot(now) - now + LeadJitter, ReconcileMin)

(* Mutants: an early return asks for no requeue; a happy path skips a slot.*)
RequeueOnSuccess(verdict) ==
    IF verdict = "ReconcileSuccess" THEN HappyRequeue ELSE 0
RequeueSlotLate(verdict) ==
    IF verdict = "ReconcileSuccess" THEN HappyRequeue + Period ELSE AfterError

(* The interval a path that reached its status update returns. *)
Requeue(verdict) ==
    IF verdict = "ReconcileSuccess" THEN HappyRequeue ELSE AfterError

(* The status a reconcile that read m computes now.  An early return       *)
(* leaves a 0 marker; the happy path latches the newest start and counts   *)
(* the slots in (latch, now - grace].                                      *)
Evaluate(m) ==
    LET latch == IF seenJob.owner = seenCronJob.uid
                 THEN Larger(m.latch, seenJob.slot) ELSE m.latch
        floor == IF latch = 0 THEN m.created ELSE latch
    IN  IF seenCronJob.verdict # "ReconcileSuccess"
        THEN [m EXCEPT !.verdict = seenCronJob.verdict, !.missed = {}]
        ELSE [m EXCEPT !.verdict = "ReconcileSuccess", !.latch = latch,
                       !.missed = {s \in Slots : floor < s /\ s <= now - Grace}]

(* Mutant: the deferred handler does not know about the deletion. *)
SeriesAlwaysCounted(deleted) == {"reconcile"}

(* The deferred metrics handler, and what the NotFound branch deletes.     *)
SeriesAfter(deleted) == IF deleted THEN {} ELSE series \cup {"reconcile"}

-----------------------------------------------------------------------------
(* A worker takes the key and Gets the monitor from the cache.             *)
Get ==
    /\ up /\ dirty /\ worker = "idle"
    /\ cached.present
    /\ dirty' = FALSE
    /\ worker' = "read"
    /\ cjm' = cached
    /\ UNCHANGED <<now, store, cached, notice, world, views, up, result, timer,
                   series, changes, lag>>

(* NotFound: the series go, and the key is not requeued. *)
GetNotFound ==
    /\ up /\ dirty /\ worker = "idle"
    /\ ~cached.present
    /\ dirty' = FALSE
    /\ series' = SeriesAfter(TRUE)
    /\ UNCHANGED <<now, store, cached, notice, world, views, up, worker, cjm,
                   result, timer, changes, lag>>

(* The status and the requeue interval are computed, the update is sent.   *)
(* Misses beyond the ones on record are to be counted (BurnCounter has the *)
(* baseline this takes to be the count that was read).                     *)
Send ==
    /\ worker = "read"
    /\ worker' = "sent"
    /\ cjm' = Evaluate(cjm)
    /\ result' = [requeue |-> Requeue(cjm'.verdict),
                  counts |-> Cardinality(cjm'.missed) > Cardinality(cjm.missed)]
    /\ UNCHANGED <<now, store, cached, notice, world, views, up, dirty, timer,
                   series, changes, lag>>

(* The worker is done with the key: the deferred handler has run. *)
Done(counted) ==
    /\ worker' = "idle"
    /\ cjm' = Nothing
    /\ result' = NoResult
    /\ series' = SeriesAfter(FALSE) \cup counted
    /\ UNCHANGED <<now, cached, notice, world, views, up, dirty>>

(* The status update lands.  An update that changes nothing leaves the     *)
(* resourceVersion alone.  New misses create the burn counter's series.    *)
Finish ==
    /\ worker = "sent"
    /\ store.present /\ cjm.rv = store.rv
    /\ store' = IF cjm = store THEN store ELSE [cjm EXCEPT !.rv = @ + 1]
    /\ AddAfter(result.requeue)
    /\ Done({v \in {"missed_runs"} : result.counts})
    /\ UNCHANGED <<changes, lag>>

(* 409: somebody, or this process itself, wrote since the cached copy.     *)
FinishConflict ==
    /\ worker = "sent"
    /\ store.present /\ cjm.rv # store.rv
    /\ AddAfter(AfterConflict)
    /\ lag' = Lagged(AfterConflict)
    /\ Done({})
    /\ UNCHANGED <<store, changes>>

(* Any other error, 404 from the status update included: rate-limited      *)
(* retry.                                                                  *)
FinishError ==
    /\ worker # "idle"
    /\ AddAfter(Backoff)
    /\ lag' = Lagged(Backoff)
    /\ Done({})
    /\ IF worker = "sent" /\ ~store.present THEN UNCHANGED changes
       ELSE changes < MaxChanges /\ changes' = changes + 1
    /\ UNCHANGED store

-----------------------------------------------------------------------------
(* The queue and the informers.                                            *)

FireTimer ==
    /\ up /\ timer # Never /\ timer <= now
    /\ timer' = Never
    /\ dirty' = TRUE
    /\ UNCHANGED <<now, store, cached, notice, world, views, up, worker, cjm,
                   result, series, changes, lag>>

(* An informer updates its cache first and notifies the handlers after.    *)
SyncMonitor ==
    /\ up /\ cached # store
    /\ cached' = store
    /\ notice' = TRUE
    /\ UNCHANGED <<now, store, world, views, queue, changes, lag>>

(* A resync hands every cached monitor to the handlers again. *)
Resync ==
    /\ up /\ cached.present
    /\ now > 0 /\ now % ResyncPeriod = 0
    /\ notice' = TRUE
    /\ UNCHANGED <<now, store, cached, world, views, queue, changes, lag>>

EnqueueMonitor ==
    /\ up /\ notice
    /\ notice' = FALSE
    /\ dirty' = TRUE
    /\ UNCHANGED <<now, store, cached, world, views, up, worker, cjm,
                   result, timer, series, changes, lag>>

SyncCronJob ==
    /\ up /\ seenCronJob # cronjob
    /\ seenCronJob' = cronjob
    /\ UNCHANGED <<now, store, cached, notice, world, seenJob, jobNotice, queue,
                   changes, lag>>

SyncJobs ==
    /\ up /\ seenJob # job
    /\ seenJob' = job
    /\ jobNotice' = TRUE
    /\ UNCHANGED <<now, store, cached, notice, world, seenCronJob, queue,
                   changes, lag>>

(* The Job's owner is looked up by UID among the cached CronJobs, and the  *)
(* monitors that reference it are enqueued.  No such CronJob, no such      *)
(* monitor: the event is dropped.                                          *)
mapJobToMonitors ==
    /\ up /\ jobNotice
    /\ jobNotice' = FALSE
    /\ dirty' = (dirty \/ /\ seenJob.owner = seenCronJob.uid
                            /\ seenCronJob.verdict # "CronJobNotFound"
                            /\ cached.present)
    /\ UNCHANGED <<now, store, cached, notice, world, seenCronJob, seenJob, up,
                   worker, cjm, result, timer, series, changes, lag>>

(* A List fails in the mapping: the event is dropped. *)
mapJobFails ==
    /\ up /\ jobNotice
    /\ changes < MaxChanges
    /\ changes' = changes + 1
    /\ jobNotice' = FALSE
    /\ UNCHANGED <<now, store, cached, notice, world, seenCronJob, seenJob,
                   queue, lag>>

(* The process ends: queue, timer and registry go with it. *)
Stop ==
    /\ up
    /\ changes < MaxChanges
    /\ changes' = changes + 1
    /\ up' = FALSE
    /\ dirty' = FALSE /\ worker' = "idle" /\ cjm' = Nothing /\ result' = NoResult
    /\ timer' = Never /\ series' = {}
    /\ notice' = FALSE /\ jobNotice' = FALSE
    /\ UNCHANGED <<now, store, cached, world, seenCronJob, seenJob, lag>>

(* A process starts its controller: the caches are filled, and the initial *)
(* list enqueues every monitor.                                            *)
Start ==
    /\ ~up
    /\ up' = TRUE
    /\ cached' = store
    /\ seenCronJob' = cronjob
    /\ seenJob' = job
    /\ dirty' = store.present
    /\ UNCHANGED <<now, store, notice, world, jobNotice, worker, cjm, result,
                   timer, series, changes, lag>>

-----------------------------------------------------------------------------
(* Users, the CronJob controller and time.                                 *)

outside == <<cached, notice, views, queue, lag>>

Delete ==
    /\ store.present
    /\ changes < MaxChanges
    /\ changes' = changes + 1
    /\ store' = Blank(FALSE, store.rv + 1, 0)
    /\ UNCHANGED <<now, world, outside>>

Create ==
    /\ ~store.present
    /\ store' = Blank(TRUE, store.rv + 1, now)
    /\ UNCHANGED <<now, world, changes, outside>>

(* The CronJob is deleted with its Jobs, re-created, broken or repaired.   *)
ChangeCronJob(v) ==
    /\ v # cronjob.verdict
    /\ changes < MaxChanges
    /\ changes' = changes + 1
    /\ cronjob' = [verdict |-> v,
                   uid |-> IF cronjob.verdict = "CronJobNotFound"
                           THEN cronjob.uid + 1 ELSE cronjob.uid]
    /\ job' = IF v = "CronJobNotFound" THEN [job EXCEPT !.slot = 0] ELSE job
    /\ measurable' = now
    /\ UNCHANGED <<now, store, outside>>

Fire ==
    /\ now \in Slots /\ job.slot < now
    /\ cronjob.verdict # "CronJobNotFound"
    /\ job' = [slot |-> now, owner |-> cronjob.uid]
    /\ UNCHANGED <<now, store, cronjob, measurable, changes, outside>>

(* Nothing waits: every cache is current, every notification delivered.    *)
Settled ==
    /\ up /\ ~dirty /\ worker = "idle"
    /\ cached = store /\ ~notice
    /\ seenCronJob = cronjob /\ seenJob = job /\ ~jobNotice
    /\ timer = Never \/ timer > now

Tick ==
    /\ now < MaxTime
    /\ now' = now + 1
    /\ IF Settled THEN UNCHANGED lag
       ELSE lag < MaxLag /\ lag' = lag + 1
    /\ UNCHANGED <<store, cached, notice, world, views, queue, changes>>

-----------------------------------------------------------------------------
Init ==
    /\ now = 0
    /\ store = Blank(TRUE, 1, 0)
    /\ cached = store /\ notice = FALSE
    /\ cronjob = [verdict |-> "ReconcileSuccess", uid |-> 1] /\ measurable = 0
    /\ job = NoJob
    /\ seenCronJob = cronjob /\ seenJob = job /\ jobNotice = FALSE
    /\ up = TRUE /\ dirty = TRUE
    /\ worker = "idle" /\ cjm = Nothing /\ result = NoResult
    /\ timer = Never /\ series = {}
    /\ changes = 0 /\ lag = 0

Next ==
    \/ Get \/ GetNotFound \/ Send \/ Finish \/ FinishConflict \/ FinishError
    \/ FireTimer \/ SyncMonitor \/ Resync \/ EnqueueMonitor
    \/ SyncCronJob \/ SyncJobs \/ mapJobToMonitors \/ mapJobFails
    \/ Stop \/ Start
    \/ Delete \/ Create \/ Fire \/ Tick
    \/ \E v \in Verdicts : ChangeCronJob(v)

Spec == Init /\ [][Next]_vars

-----------------------------------------------------------------------------
TypeOK ==
    /\ now \in 0..MaxTime
    /\ store \in Monitor /\ cached \in Monitor /\ cjm \in Monitor
    /\ notice \in BOOLEAN /\ jobNotice \in BOOLEAN
    /\ cronjob \in CronJob /\ seenCronJob \in CronJob
    /\ job \in Job /\ seenJob \in Job
    /\ up \in BOOLEAN /\ dirty \in BOOLEAN
    /\ worker \in {"idle", "read", "sent"}
    /\ result \in [requeue: Nat, counts: BOOLEAN]
    /\ timer \in Nat \cup {Never}
    /\ series \subseteq Vecs
    /\ changes \in 0..MaxChanges
    /\ lag \in 0..MaxLag
    /\ measurable \in 0..MaxTime

(* A running controller never loses track of a monitor that exists: the    *)
(* key is queued, being worked on, on a timer, or a notification that will *)
(* queue it is on its way.  No path through Reconcile, no dropped Job      *)
(* event and no deletion, re-creation or restart breaks the chain.         *)
NeverForgotten ==
    up /\ store.present =>
        dirty \/ worker # "idle" \/ timer # Never \/ notice \/ cached # store

(* The registered series of a monitor that is gone are on their way out:   *)
(* a deletion racing a reconcile in flight does not leave the series its   *)
(* deferred handler writes behind for good.                                *)
SeriesGone ==
    up /\ ~store.present /\ series # {} =>
        dirty \/ worker # "idle" \/ notice \/ cached # store

(* When a happy path at t is followed up at the latest. *)
FollowUp(t) == Larger(NextSlot(t) + LeadJitter, t + ReconcileMin)

(* A slot that does not fire is on record in time: not at the end of its   *)
(* grace period, but at the follow-up of the last reconcile before it,     *)
(* plus what the operator lagged.  Lost Job events do not matter.          *)
MissNoticed ==
    lag < MaxLag => \A s \in Slots :
        /\ store.present /\ store.created < s
        /\ store.latch < s /\ job.slot < s
        /\ cronjob.verdict = "ReconcileSuccess"
        /\ now > FollowUp(s + Grace - 1) + lag
        /\ now > measurable + AfterError + lag
        => s \in store.missed
=============================================================================
