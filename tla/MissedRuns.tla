----------------------------- MODULE MissedRuns -----------------------------
(***************************************************************************)
(* What a reconcile measures: the happy path's missed-run count, from the  *)
(* schedule's slots, the CronJob's Jobs, the latch in the monitor's status *)
(* and the scheduler's own record (CronJob.status.lastScheduleTime, the    *)
(* witness).  The write protocol around it is BurnCounter's.               *)
(*                                                                         *)
(* Time is a tick count; the monitor is created at tick 0, so an unset     *)
(* latch and the creation time are the same floor.  A monitor whose spec   *)
(* is "pinned" sets spec.timeZone; any other follows the CronJob's own     *)
(* slot grid.                                                              *)
(***************************************************************************)
EXTENDS BurnCounter

CONSTANTS
    Slots,       \* the ticks the schedule fires at
    Grace,       \* spec.gracePeriodSeconds
    MaxTime,     \* bound: the clock
    MaxChanges   \* bound: changes of the CronJob and of the monitor's spec

ASSUME SlotsAssumption == Slots \subseteq Nat \ {0} /\ Grace \in Nat
ASSUME ClockAssumption == MaxTime \in Nat /\ 0..MaxTime \subseteq Times
(* A count is at most the number of ticks that passed.                     *)
ASSUME CountAssumption == 0..MaxTime \subseteq Counts
ASSUME ChangesAssumption == MaxChanges \in Nat /\ "ReconcileSuccess" \in Outcomes

VARIABLES
    now,         \* the clock
    cronjob,     \* the CronJob: what reconciling it comes to, witness, uid
    jobs,        \* the Jobs that exist
    seenCronJob, \* replica -> its informer's CronJob
    seenJobs,    \* replica -> its informer's Jobs
    changes,     \* changes so far
    \* History:
    charged,     \* slots some reconcile measured as missed
    burned,      \* increments of the counter, over all processes
    residual     \* misses re-granted over markers whose writer was gone

world == <<now, cronjob, jobs, changes>>
views == <<seenCronJob, seenJobs>>
mvars == <<vars, world, views, charged, burned, residual>>

Job == [owner: Nat, start: Times]
CronJob == [verdict: Outcomes, witness: Times, uid: Nat]

-----------------------------------------------------------------------------
(* listOwnedJobs: the Jobs in the cache whose controller is this CronJob.  *)
listOwnedJobs(r) == {j \in seenJobs[r] : j.owner = seenCronJob[r].uid}

(* Mutant: the latch does not follow the Jobs. *)
LatchStays(latch, owned) == latch

(* updateLastObservedTimes: the latch only moves forward, to the newest    *)
(* start among the merged records.                                         *)
updateLastObservedTimes(latch, owned) ==
    CHOOSE t \in {latch} \cup {j.start : j \in owned} :
        /\ t >= latch
        /\ \A j \in owned : t >= j.start

(* The floor of the count: the latch, raised by the witness when that is   *)
(* admissible, newer, and not ahead of the clock.                          *)
Floor(spec, latch, witness) ==
    IF spec # "pinned" /\ witness > latch /\ witness <= now
    THEN witness ELSE latch

(* MissedRunsSince: the slots in (lastStart, now - grace].                 *)
MissedSince(lastStart) == {s \in Slots : lastStart < s /\ s <= now - Grace}

(* The slots a happy-path reconcile of `monitor` counts as missed.         *)
MissedSlots(monitor, latch, cj) ==
    MissedSince(Floor(monitor.spec, latch, cj.witness))

-----------------------------------------------------------------------------
(* Reconcile from the Get of the CronJob to the status update.  On the     *)
(* suspend path the Job list only prunes history, which is not modelled    *)
(* here; the paths that merge Jobs move the latch.                         *)
Reconcile(r) ==
    LET cj == seenCronJob[r]
        latch == IF cj.verdict \in Latching
                 THEN updateLastObservedTimes(cjm[r].latch, listOwnedJobs(r))
                 ELSE cjm[r].latch
        missed == MissedSlots(cjm[r], latch, cj)
    IN  /\ IF cj.verdict = "ReconcileSuccess"
           THEN /\ Measure(r, Cardinality(missed), latch)
                /\ charged' = charged \cup missed
           ELSE /\ EarlyReturn(r, cj.verdict, latch)
                /\ UNCHANGED charged
        /\ UNCHANGED <<world, views>>

(* History: what the protocol's steps emitted, and what they were granted  *)
(* although a checkpoint hidden by a marker already covered it.            *)
Tally ==
    /\ burned' = burned + IF \E r \in Replicas : counter'[r] > counter[r]
                          THEN LET r == CHOOSE r \in Replicas :
                                            counter'[r] > counter[r]
                               IN  counter'[r] - counter[r]
                          ELSE 0
    /\ residual' = residual +
          IF \E r \in Replicas : allowed'[r] > allowed[r]
          THEN LET r == CHOOSE r \in Replicas : allowed'[r] > allowed[r]
               IN  allowed'[r] - Pos(cjm[r].missed - ckpt)
          ELSE 0

-----------------------------------------------------------------------------
(* The world around the operator.                                          *)

Tick ==
    /\ now < MaxTime
    /\ now' = now + 1
    /\ UNCHANGED <<vars, cronjob, jobs, changes, views, charged>>

(* The CronJob controller creates the Job of a slot, once.  It does so for *)
(* any CronJob that exists and is not suspended: an unusable time zone or  *)
(* schedule can be the monitor's own.                                      *)
Fire ==
    /\ now \in Slots
    /\ now > cronjob.witness
    /\ cronjob.verdict \notin {"CronJobNotFound", "CronJobSuspended"}
    /\ jobs' = jobs \cup {[owner |-> cronjob.uid, start |-> now]}
    /\ jobs' # jobs
    /\ UNCHANGED <<vars, now, cronjob, changes, views, charged>>

(* ... and records it in the CronJob's status, some time after.            *)
Stamp ==
    /\ cronjob.verdict # "CronJobNotFound"
    /\ \E j \in jobs :
          /\ j.owner = cronjob.uid
          /\ j.start > cronjob.witness
          /\ cronjob' = [cronjob EXCEPT !.witness = j.start]
    /\ UNCHANGED <<vars, now, jobs, changes, views, charged>>

(* A finished Job is garbage collected (ttlSecondsAfterFinished, history   *)
(* limits); the controller has long recorded it by then.                   *)
CollectJob(j) ==
    /\ j.start <= cronjob.witness
    /\ jobs' = jobs \ {j}
    /\ UNCHANGED <<vars, now, cronjob, changes, views, charged>>

(* Somebody deletes, re-creates, suspends, breaks or repairs the CronJob.  *)
(* Deleting it takes its Jobs and its status along.                        *)
ChangeCronJob(v) ==
    /\ v # cronjob.verdict
    /\ changes < MaxChanges
    /\ changes' = changes + 1
    /\ cronjob' = CASE v = "CronJobNotFound" ->
                         [verdict |-> v, witness |-> 0, uid |-> cronjob.uid]
                    [] cronjob.verdict = "CronJobNotFound" ->
                         [verdict |-> v, witness |-> 0, uid |-> cronjob.uid + 1]
                    [] OTHER -> [cronjob EXCEPT !.verdict = v]
    /\ jobs' = IF v = "CronJobNotFound" THEN {} ELSE jobs
    /\ UNCHANGED <<vars, now, views, charged>>

EditMonitor ==
    /\ changes < MaxChanges
    /\ changes' = changes + 1
    /\ \E s \in Specs : UserEdit(s)
    /\ UNCHANGED <<now, cronjob, jobs, views, charged>>

SyncCronJob(r) ==
    /\ seenCronJob[r] # cronjob
    /\ seenCronJob' = [seenCronJob EXCEPT ![r] = cronjob]
    /\ UNCHANGED <<vars, world, seenJobs, charged>>

SyncJobs(r) ==
    /\ seenJobs[r] # jobs
    /\ seenJobs' = [seenJobs EXCEPT ![r] = jobs]
    /\ UNCHANGED <<vars, world, seenCronJob, charged>>

-----------------------------------------------------------------------------
MInit ==
    /\ Init
    /\ now = 0
    /\ cronjob = [verdict |-> "ReconcileSuccess", witness |-> 0, uid |-> 1]
    /\ jobs = {}
    /\ seenCronJob = [r \in Replicas |-> cronjob]
    /\ seenJobs = [r \in Replicas |-> {}]
    /\ changes = 0
    /\ charged = {}
    /\ burned = 0
    /\ residual = 0

World ==
    \/ Tick \/ Fire \/ Stamp \/ EditMonitor
    \/ \E j \in jobs : CollectJob(j)
    \/ \E v \in Outcomes : ChangeCronJob(v)
    \/ \E r \in Replicas : SyncCronJob(r) \/ SyncJobs(r)

(* A step of BurnCounter in this world. *)
Step(A) == A /\ UNCHANGED <<world, views, charged>> /\ Tally

MNext ==
    \/ Step(Protocol)
    \/ \E r \in Replicas : Reconcile(r) /\ Tally
    \/ World /\ Tally

MSpec == MInit /\ [][MNext]_mvars

(* Reconciles keep being triggered (every path returns a RequeueAfter or   *)
(* an error that is retried), requests are answered, informers catch up, a *)
(* free lease is taken, a deposed process exits; reads that fail succeed   *)
(* eventually.                                                             *)
Fairness ==
    /\ \A r \in Replicas :
          /\ WF_mvars(Step(Get(r)))
          /\ SF_mvars(Reconcile(r) /\ Tally)
          /\ WF_mvars(Step(Serve(r) \/ Refuse(r)))
          /\ WF_mvars(Step(Commit(r) \/ FinishEarly(r)))
          /\ WF_mvars(Step(Elect(r) \/ Exit(r)))
          /\ WF_mvars(Step(CacheSync(r)))
          /\ WF_mvars(SyncCronJob(r) /\ Tally)
          /\ WF_mvars(SyncJobs(r) /\ Tally)
    /\ WF_mvars(Stamp /\ Tally)

LiveSpec == MSpec /\ Fairness

-----------------------------------------------------------------------------
MTypeOK ==
    /\ TypeOK
    /\ now \in 0..MaxTime
    /\ cronjob \in CronJob
    /\ jobs \subseteq Job
    /\ seenCronJob \in [Replicas -> CronJob]
    /\ seenJobs \in [Replicas -> SUBSET Job]
    /\ changes \in 0..MaxChanges
    /\ charged \subseteq Slots
    /\ burned \in Nat
    /\ residual \in Nat

(* The counter never counts one slot twice: all increments of all          *)
(* processes together are at most the number of distinct slots that were   *)
(* ever measured as missed, plus the documented residual of streaks whose  *)
(* marker outlived the process that wrote it.  "Only genuinely new misses  *)
(* observed by this process increment the counter."                        *)
EachMissOnce == burned <= Cardinality(charged) + residual

(* When nothing changes any more, the persisted status says what is the    *)
(* case: the outcome is the CronJob's, the latch covers its Jobs, and the  *)
(* count is the true one.  No lost response, conflict, stale cache or      *)
(* failover leaves a stale verdict behind for good.                        *)
StatusConverges ==
    <>[](/\ store.reason = cronjob.verdict
         /\ cronjob.verdict = "ReconcileSuccess"
              => /\ \A j \in jobs : j.owner = cronjob.uid
                                      => store.latch >= j.start
                 /\ store.missed =
                      Cardinality(MissedSlots(store, store.latch, cronjob)))
=============================================================================
