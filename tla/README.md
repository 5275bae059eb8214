# cronguard: TLA+ models, checks and proofs

cronguard is a Kubernetes operator. For every `CronJobMonitor` object it watches
one CronJob, keeps a history of its Jobs in the monitor's status, counts the
schedule's slots that did not start a Job, evaluates SLO conditions, and exports
metrics, among them the counter `cronguard_missed_runs_total`, which burn-rate
alerts are built on.

This directory holds TLA+ modules translated from the Go code, TLC
configurations that check them on small instances, and TLAPS proofs that hold
for every value of the constants. `PROJECT.json` maps each definition to the
lines it models. Source paths below are relative to the repository.

    tlc -config BurnCounter_failover.cfg MCBurnCounter      # one run
    tlapm BurnCounterProofs.tla                             # one module's proofs

## 1. The system

| part | state it keeps | operations | talks to |
|---|---|---|---|
| Reconciler, `internal/controller/cronjobmonitor_controller.go` | `lastMissed` map in memory; one counter series per monitor | `Reconcile`, `finishEarlyReturn`, `commitMissed`, `syncMissedBaseline`, `patchStatus` | API server through informer caches (reads) and status updates under optimistic concurrency (writes) |
| Missed-run measurement, same file | `Status.LastScheduleTime` (a latch), `Status.MissedRuns` | floor selection (latch, witness `CronJob.status.lastScheduleTime`), `updateLastObservedTimes` | Schedule, CronJob, Jobs |
| Schedule search, `internal/schedule/schedule.go` | none; loops over robfig/cron | `Next`, `NextSlot`, `Prev`, `MissedRunsSince`, `noSlotInRange`, `reachFrom` | robfig/cron |
| Execution history, `internal/history/ring.go`, `internal/controller/reconcile_helpers.go` | `Status.RecentExecutions` | `jobToRecord`, `Merge`, `dropOrphanedRunning` | Jobs, CronJob `status.active` |
| SLO conditions, `internal/controller/conditions.go` | conditions in status | `evaluateExecutionHealthy`, `evaluateScheduleHealthy`, `evaluateDurationHealthy`, `evaluateReady`, transition events | history, measurement |
| Work queue and watches, `SetupWithManager`, `mapJobToMonitors` | controller-runtime's queue | requeue after an interval, map a Job event to monitors | informers |
| Metrics, `internal/metrics`, `internal/controller/lister.go` | registered series | `Collect`, the deferred handler of `Reconcile`, deletion of a monitor's series | caches, Prometheus |
| Leader label, `internal/leader/labeler.go`, `cmd/main.go` | a label on the operator's pod, by which the chart's ServiceMonitor keeps the leader | `SetRole`, once as standby at start-up and once as leader when elected | lease, API server |
| CRD types, `api/v1alpha1`; process wiring, `cmd/main.go` | none | declarations, validation, start-up | |

What is hard here:

* **Concurrency with oneself.** Each reconcile reads a cached object that may be
  older than the process's own last write, and its status update may be refused
  (409), answered with an error although it landed, or land long after the
  process is gone.
* **Two ledgers.** The count in the status is durable, the counter and its
  baseline live in memory. A crash or a failover between the write and the
  commit must not make a miss count twice.
* **Markers.** Four early returns persist `missedRuns = 0` to say "not
  measuring"; the streak they hide must not be emitted again on recovery.
* **Stale views of Jobs.** A new leader may see finished Jobs as running.
* **Nobody else wakes a monitor up.** CronJobs are not watched, Job events can
  be dropped, and a slot that does not fire causes no event at all: each
  reconcile arms the next.
* **Announced before it is written.** Events are sent before the status update
  that makes the transition they announce.
* **Labels nobody takes back.** A pod that loses the lease keeps role=leader
  until its process has exited and its successor has patched standby.
* **Partial functions.** robfig's `Next` answers the zero time when nothing
  fires within five calendar years, and every search must climb past that.

What makes each part correct, in one line: the counter never counts a slot
twice; the latch never goes back; the persisted status converges to the truth;
the searches equal their set definitions and return; a finished run stays
finished and keeps its own drift; an alarm ends only through a success; every
monitor is reconciled again, in time to see a miss; events are for transitions
and none is repeated; in the end exactly the leader is scraped.

## 2. Modules

| module | models | state and actions |
|---|---|---|
| `BurnCounter` | the reconcile protocol of one monitor key, across replicas | `store` is the object in the API server, `cached[r]` each informer's copy, `cjm[r]`, `prev[r]` and `pc[r]` the locals and the position of an in-flight `Reconcile`, `lastMissed[r]` the baseline map's entry, `counter[r]` the series, `orphans` the requests nobody waits for. `Get`/`GetNotFound`/`Abort`/`Measure`/`EarlyReturn` are the handler up to the request, `Serve`/`Refuse`/`Abandon` its three answers, `Commit`/`FinishEarly` what follows a durable write |
| `MissedRuns` | what a reconcile measures; extends `BurnCounter` and composes it with slots, Jobs, the CronJob and two more informers | `Reconcile` picks the outcome, the latch and the count, then takes `Measure` or `EarlyReturn`; `Fire`, `Stamp`, `CollectJob`, `ChangeCronJob`, `EditMonitor` are the cluster |
| `Schedule` | `Prev`, `NextSlot`, `MissedRunsSince`, one loop iteration per step | `slots` is an arbitrary set of instants, the calendar (`Year`, `YearStart`) a parameter |
| `JobHistory` | the execution history, its drift annotations, the consecutive-failures alarm and the running-jobs gauge | `recent` is the ring, `latch` is LastScheduleTime, the five `Reconcile*` actions the five paths through `Reconcile` that write them; the other actions are the Job and CronJob controllers, deletion, and lagging informers |
| `WorkQueue` | what makes reconciles happen, and when | `dirty`, `worker`, `timer` are the key's place in the queue, a worker's hands and the delaying queue; `notice` and `jobNotice` are watch events not yet handled; `Get`/`Send`/`Finish*` are a reconcile, `mapJobToMonitors` the Job watch, `series` the registered metric vecs. Time is explicit |
| `Transitions` | conditions, events, gauges | `truth` is what there is to observe, `Evaluate` the status a reconcile computes on its path, `Events` what it sends before the update, `Collect` what a scrape renders; updates may be refused, lost, or land after their process gave up |
| `LeaderLabel` | the role label | `goroutine[p]` is the position of the labelling goroutine of `main` in pod `p`, `label[p]` its label, `late` the patches nobody waits for |
| `BurnLedger` | abstract specification of the burn counter | `Grant`, `Draw`, `Restart`, ...: a ledger without caches, requests, baselines or leases |
| `BurnCounterProofs`, `MissedRunsProofs`, `ScheduleProofs`, `JobHistoryProofs`, `WorkQueueProofs`, `TransitionsProofs`, `LeaderLabelProofs` | theorems about the module of that name | `NatLemmas` holds two facts about sets of naturals that `MissedRunsProofs`, `ScheduleProofs` and `JobHistoryProofs` share |
| `MCBurnCounter`, `MCMissedRuns`, `MCSchedule`, `MCJobHistory`, `MCWorkQueue`, `MCTransitions`, `MCLeaderLabel` | TLC instances | |

Abstractions worth knowing:

* `BurnCounter` leaves open what is measured (any count, any later latch); so
  everything shown of it holds for `MissedRuns`, and for any measurement.
* A monitor is a record of its version, presence, spec, missed count, latch and
  the reason of its Reconciled condition. The other conditions are in
  `Transitions`, which has the same update protocol and takes the measurement as
  given.
* The history variables `ckpt`, `keeper`, `allowed`, `charged`, `burned` and
  `residual` are never read by a modelled operation; they exist to state the
  properties. `ckpt` is the count of the last durable happy-path write, `keeper`
  the process that hid it behind a marker.
* In `JobHistory` a reconcile is one step, because a reconcile that read an
  outdated monitor writes nothing (`BurnCounter` has the protocol). The Job and
  CronJob views it combines may each be arbitrarily old, and different per
  replica.
* `BurnCounter` implements `BurnLedger`: the checkpoint is the last durable
  happy-path count, the grant what the write in answer allows its sender to add.
* A Job has the creation time that the API server stamped and the startTime that
  the Job controller set, from a clock that may be up to `Skew` behind; a Job in
  `LateStarts` may be seen before its startTime is set, and `jobToRecord` then
  falls back to the creation time. So the start on record may move either way
  between two sightings of one Job, as `ring.go` and its tests say. Which Job a
  record is of cannot be told from the record; the history field `born`, the
  Job's creation, says it for the properties. No operation reads it.
* `Failed` is also FailureTarget; "Undated" is either without a transition time,
  which leaves the record without an end.
* A drift annotation is the start it was computed for; the slot and the seconds
  are functions of that and the schedule. `Slotless` are starts that `Prev`
  finds no slot for, which lose their annotation.
* `WorkQueue` keeps one monitor, one replica and a periodic schedule. Its `lag`
  adds up the ticks in which something was undelivered or unfinished and the
  delays of conflicts and failed calls; its `Evaluate` leaves out the witness and
  the merge on the unsatisfiable path, which only matter for what is measured
  (`MissedRuns`, `JobHistory`), not for when; `MissNoticed` is stated relative to it,
  because nothing bounds how slow an informer or the API server may be. `Send`
  evaluates and computes the requeue interval together, as the code does but for
  microseconds; time passes before it, between it and the answer, and after.
* In `Transitions` a history is how many failures in a row it shows and what the
  scan of `evaluateDurationHealthy` finds; "CronJobSuspended" stands for every
  stop that leaves the history alone.
* `SetRole` without a pod identity in the environment does nothing; `LeaderLabel`
  has pods that know who they are.
* A cron expression is the set of instants it fires at. How text and time-zone
  data denote that set is not modelled; so `reachFrom` has no counterpart of the
  branch that exempts `time.Local` from the conversion of zones.
* Operators whose comment calls them mutants are deliberately wrong variants of
  the definition that follows them. No specification uses them; substituting one
  must break the property `PROJECT.json` pairs it with, which shows that the
  property depends on that piece of code.

## 3. What the runs check

| run (cfg) | properties | instance | shows |
|---|---|---|---|
| `BurnCounter_failover` | `TypeOK`, `IInv`, `MarkerRemembered`, `NoPhantomBurn`, `LatchNeverRegresses`, `LedgerSpec` | 2 replicas, 1 failure, counts 0..1, 4 object versions, spec edits, delete and re-create | no step adds more to the counter than the durable write it answers raised the persisted count by; the latch never moves back; the inductive invariant of the proofs; the protocol implements `BurnLedger` |
| `MissedRuns_converge` | `MTypeOK`, `EachMissOnce`, `StatusConverges` | fairness, 1 replica, clock 0..2, 1 failure, 2 changes: the schedule broken and repaired, or the monitor's spec edited | across a marker, a crash, a lost lease or an abandoned request no slot is counted twice, and the status becomes and stays true |
| `Schedule_search` | `TypeOK`, `LoopInvariants`, `PrevCorrect`, `NextSlotCorrect`, `MissedRunsCorrect`, `Terminates` | every schedule of up to 3 slots in 12 instants, every argument | the searches equal their definitions, and return |
| `JobHistory_paths` | `TerminalIsFinal`, `HistoryConverges`, `RunningJobsRun` | fairness, 2 replicas, one Job name reused, late starts and starts before the creation, 1 CronJob change, all five paths | no path and no stale cache drops or reopens a finished run that started after its creation; the ring and the gauge come to agree with the Jobs |
| `JobHistory_alarm` | `TypeOK`, `AnnotationFits`, `TerminalIsFinal`, `RoomyAlarmNeedsSuccess` | 3 Jobs over 2 ticks, one of them with a late start and one in status.active, ring of 2, threshold 1 | finished runs leave an overflowing ring only for newer ones; no record carries another run's drift; with room in the ring, only a newer success ends the alarm |
| `WorkQueue_attend` | `TypeOK`, `NeverForgotten`, `SeriesGone`, `MissNoticed` | a slot every 3 ticks up to 9, grace 2, 2 disturbances (deletion, CronJob change, failed call, dropped event, restart), lag up to 2 | a monitor that exists is queued, in work, on a timer or about to be notified; the series of a deleted one go; a miss is on record by the follow-up of the last reconcile before its grace ends, plus lag |
| `Transitions_told` | `TypeOK`, `StopAnnounced`, `EventsMatch`, `GaugesConverge` | fairness, 3 changes of what is observed or of the spec, 1 failed call | an accepted update has sent no event but for its own transitions, and all of those but for an axis that a stop turns False; a persisted stop has been announced; Ready and next-expected gauges become and stay true |
| `LeaderLabel_converge` | `TypeOK`, `StaleLabelPasses`, `LabelsConverge` | fairness, 2 pods, 3 lost leases or crashes, 2 failed or late patches | a pod scraped without the lease is about to lose the label; if every patch was answered, in the end the leader and nobody else is scraped |

Four further runs state what the repository says and find it violated; see
section 6.

**Bounds.** Every hazard needs few participants: a marker needs a streak of one
miss and its hiding; a phantom increment one earlier write, a failure and a
second process; an ambiguous write one request in flight while another lands.
Two replicas, one failure and four versions of the object let a request
computed from the first version meet a store that has moved three times; what
holds there is proved for every instance as well (section 4).
`MissedRuns_converge` has one slot, which passes its grace period before, between
or after the two changes; of the stops it has a marker, the one that `EachMissOnce`
needs; a suspension, which freezes the count, is in `BurnCounter_failover` and in
the theorem `OneReplicaCountsOnce`. In `Schedule` the reach is one
year and the lookback two, so a gap wider than the reach, one wider than the
lookback, a year boundary and the rail (2) all lie inside the window; years
differ in length. In `JobHistory` a ring of one or two records overflows with
two or three Jobs, and `MinAge = 1` lets a record grow older than the pruning
age within two or three ticks; `JobHistory_alarm` has Jobs of two different
starts, without which `AnnotationFits` would say nothing, and no starts before
the creation: the two action properties except such Jobs, and the theorems about
all three properties admit them. `JobHistory_paths` has one Job at a time, which
a second replica sees late, created anew under its name; it ends with success,
in one step or in two. The same instance with failures instead has fewer states
and passes too. `status.active`
can do no more than keep a running record from being pruned. In `WorkQueue`
three slots fit into the clock, the grace period ends after the follow-up of its
own slot (the hard case), and a conflict, an error and a restart each fit below
the bound on lag. In `Transitions` three changes let a stop begin, end and begin
again around a failed update, or failures come on record during a stop. In `LeaderLabel` three faults let the label wander
to the other pod and back. The `BurnCounter` runs do not check for
deadlock: when `MaxRV` is reached the API server of the model takes no further
write, so the bound, not the code, stops the system. A `Schedule` call stops
when it returns, and labelling is over when the leader is labelled. In all other runs some step is always possible, and TLC checks
that.

**Fairness.** `MissedRuns!Fairness` and `JobHistory!Fairness` assume that
reconciles keep coming: every path of `Reconcile` returns a `RequeueAfter` or an
error that controller-runtime retries with backoff. Requests are answered, with
success or refusal; informers catch up; a free lease is taken; a deposed process
exits (`mgr.Start` returns and `main` exits). Reads of CronJob and Jobs may fail
again and again but not for ever: `Reconcile` is strongly fair against `Abort`.
Nothing is assumed of users, of Jobs finishing, or of the failures, which are
bounded. `WorkQueue` is where "reconciles keep coming" is checked rather than
assumed: `NeverForgotten` says that at every moment something that will queue the
key is under way, and needs no fairness to be stated. `Transitions!Fairness`
assumes the same of reconciles, answers and the informer; `LeaderLabel!Fairness`
that calls return, a free lease is taken, a deposed process exits, and patches on
the wire arrive. `Schedule` needs only that a running loop continues.

## 4. What is proved

`BurnCounterProofs`, for any set of replicas, any counts and times and any
bounds (assumptions: counts and times are sets of naturals with 0, `Nobody` is
no replica):

* `TypeCorrect`: `Spec => []TypeOK`.
* `Invariant`: `Spec => []IInv`. `NoPhantomBurn` and the others are not
  inductive; `IInv` adds what carries them:
  `VersionsOrdered` (nothing is newer than the store) and `VersionNamesContent`
  (a copy with the store's version is the store's content, so an update that
  will be accepted was computed from it) make optimistic concurrency usable;
  `CheckpointOrZero` says that whatever lands, the persisted count is the last
  checkpoint or a marker; `BaselineCoversRead` that a reconcile in flight has a
  baseline of at least the count it read; `KeeperRemembers` that the process
  which hid a checkpoint behind a marker still covers it; `CommitCovered` that
  the increment about to happen is covered by the rise of its write; and
  `OneProcessWithoutFaults` that without failures there is one keeper, the
  leader.
* `BurnCounterSound`: `Spec => NoPhantomBurn`, by cases on `Next`: only `Commit`
  raises the counter, and `CommitCovered` bounds it.
* `ImplementsLedger`: `Spec => LedgerSpec`, the refinement. Every step of the
  protocol is a step of `BurnLedger` or leaves its variables alone. A served
  happy-path write is `Grant`: what it may add is the rise of the checkpoint,
  because a persisted count is the checkpoint or a marker (`CheckpointOrZero`)
  and without failures the marker hides nothing from its writer
  (`KeeperRemembers`, `OneProcessWithoutFaults`); after a failure the ledger
  admits the whole count. `Commit` is `Draw`, bounded by `CommitCovered`.
* `MarkerSafe`: `Spec => []MarkerRemembered`, from `OneProcessWithoutFaults` and
  `KeeperRemembers`.
* `LatchMonotone`: `Spec => LatchNeverRegresses`, from `VersionNamesContent`:
  an accepted update was computed from the stored object, and no path lowers
  the latch it read.

`ScheduleProofs`, for any calendar whose years follow each other and are at
least a day long, any reach, lookback and rail, and any finite sets of slots:

* `LoopsSound`: `Spec => []LoopInvariants`. A ladder has passed no slot; the
  bisection keeps a slot in (lo, at] and none in (hi, at]; `MissedRunsSince` has
  counted exactly what it has passed. The step that matters is the ladder's:
  when `Next` answers the zero time there is no slot up to `reachFrom`, because
  `reachFrom` is a lower bound of the library's reach.
* `PrevSound`, `NextSlotSound`, `MissedRunsSound`: the three results, from the
  loop invariants at the moment of return.
* `TypeCorrect`: `Spec => []TypeOK`.

`MissedRunsProofs`, for any replicas, schedule, grace period, clock and numbers
of changes and failures (assumptions beyond `BurnCounter`'s: slots lie after the
creation of the monitor, the sets of times and counts contain what the clock can
reach, and a reconcile may succeed):

* `MTypeCorrect`: `MSpec => []MTypeOK`, with `Past` (every Job, latch, witness
  and measured slot lies in the past), which bounds a measured count by the clock.
* `MeasuringImplementsProtocol`: `MSpec => Spec`. What slots, Jobs, latch and
  witness come to is always one of the measurements `BurnCounter` leaves open,
  so each of its theorems holds of the measuring system;
  `MeasuringImplementsLedger` states two of them: `MSpec => LedgerSpec /\
  NoPhantomBurn`.
* `OneReplicaCountsOnce`: with one replica, `MSpec => []EachMissOnce`, if the
  floor cannot move back (`FloorsAdvance`: the monitor stays pinned to a time
  zone, or it never is and the CronJob is not deleted). The inductive invariant
  `OnceInv` says of what window (floor, now - grace] the last checkpoint is the
  count, that every request which can still be accepted measured a window no
  earlier at either end, and that what was counted, or may still be, is at most
  the number of measured slots below the floor plus the checkpoint plus the
  residual. Windows only move forward, so a count that falls and rises again
  rises over other slots. The premise is not a convenience: section 6 has the
  run that violates the property without it. Crashes, lost answers and late
  requests of that replica are all allowed.

`JobHistoryProofs`, for any replicas, Jobs, limits, verdicts, skew and clock. The
inductive invariant `HInv` is `TypeOK`, `Bounded` (finitely many Jobs, of unique
names, in the API server and in every cache) and `RunsAgree`. The last speaks of
all *views*: the records, and the records that the Jobs and the informers' copies
of Jobs would give. None is of a Job born in the future, or later than the Job of
its name or than the deletion of the last one; and two views of one Job, which is
told by its name and its creation, agree on its outcome and show at most one
start besides the creation, the one that its finished views have; every start of
a Job is before the creation of the next of its name. The lemmas
say what `Truncate`, the union in `Merge` and `Annotate` return for any records.

* `TypeCorrect`: `Spec => []TypeOK`, which includes the bound of the ring and the
  uniqueness of names in it.
* `FinishedStay`: `Spec => TerminalIsFinal`, without premises on the constants:
  names may be used again, startTimes may be set late and lie before the
  creation. The property itself excepts finished runs whose startTime lies before
  their Job's creation, which section 6 shows to be necessary. If something
  replaces a finished record, `shouldReplace` and `RunsAgree` leave a later Job,
  or the same outcome with an end time; if `Truncate` cuts it off, it keeps
  HistoryLimit newer records, each of which is still on record or was before an
  orphan was pruned in the same step.
* `AnnotationsFit`: `Spec => []AnnotationFits`, if no name is used again; then
  all views of a name are of one Job (`OneJob`), and an annotation, computed for
  the newest start (`StampFits`) or carried on by `Merge`, is for a start that
  this Job has shown. Late starts and starts before the creation are admitted.
* `AlarmNeedsSuccess`: `Spec => RoomyAlarmNeedsSuccess`, if no name is used
  again. Then a failed run that did not start before its creation stays, with its
  start, or is pushed out by HistoryLimit newer records; of those at most
  HistoryLimit minus the threshold are running, and the rest are failures unless
  a success has come on record. Both premises are needed: a failed Job whose name
  is used again is replaced by its running successor, and one that started before
  its creation by a stale view of itself; either shortens the streak.

`WorkQueueProofs`, for any period, grace period, intervals and disturbances, as
long as the intervals are positive:

* `MonitorNeverForgotten`, `SeriesOfDeletedGo`, `TypeCorrect`, from `QInv`: the
  informer is never ahead; a reconcile in flight holds a monitor that existed,
  and if the informer has dropped it since then the key comes again; whatever
  reached its update asks to come back; the registry ends with its process.
* `MissNoticedInTime`: `Spec => []MissNoticed`, from `TInv`. While something
  other than the timer is pending, `now - lag` stands still; when nothing is, the
  timer is set to no later than the follow-up that the oldest unrecorded slot
  allows (`SlotsDue`, and `ErrorsDue` for a CronJob that could not be measured),
  because an update in flight carries a requeue that fits the slots it leaves out
  (`SentSlots`, `SentErrors`).

`TransitionsProofs`, for any verdicts, specs and bounds: `TypeCorrect`,
`StopsAnnounced` (`Spec => []StopAnnounced`) and `EventsOfAcceptedUpdates`
(`Spec => EventsMatch`). As in `BurnCounter`, a version names one content; so an
update that can still be accepted compared itself with what the API server holds,
has sent the events of that very transition (`EventsFit`: all of them but those
of an axis, if it records a stop) and announced any stop it records
(`AnnouncedFirst`). A comparison with a stale copy ends in a refusal.

`LeaderLabelProofs`, for any set of pods and any numbers of faults: `TypeCorrect`
and `StaleLabelsPass` (`Spec => []StaleLabelPasses`). Its invariant ties labels
to the position of the labelling goroutine, and needs that no patch is on the
wire unless one failed or outlived its process (`WireClean`).

## 5. What is only model-checked

* Liveness (`StatusConverges`, `Terminates`, `HistoryConverges`,
  `RunningJobsRun`, `GaugesConverge`, `LabelsConverge`): TLAPS does not prove
  properties under fairness.
* `EachMissOnce` beyond the premises of `OneReplicaCountsOnce`. Where the floor
  can move back (a CronJob that is deleted, a monitor that is pinned to a time
  zone later on, a new leader whose CronJob informer is behind) it is false, see
  section 6; for several replicas of a monitor that stays pinned it is neither
  checked nor proved. The instance of the passing run meets the premises.

Every other invariant and action property of the passing runs is proved.

## 6. Where the code and its documentation disagree

Each has a run that TLC finds violated.

* `BurnCounter_stale_read`, `BaselineNeverLeads`. The seeding at the top of
  `Reconcile` raises the baseline to whatever the cached monitor says. The
  comments call it a no-op for a tracked key and say the baseline never leads
  the last persisted count. If the cache still holds the object from before a
  streak ended, the baseline rises above that count again and the next streak's
  misses, up to that height, are not counted when they are measured. A later
  happy-path write of a lower count brings the baseline down again; what was
  passed over stays uncounted. The error is on the side
  of under-counting: `NoPhantomBurn` is proved in the same model. Nobody deletes
  the monitor and nothing fails in this run.
* `MissedRuns_recreate`, `EachMissOnce`. The floor of the count may be the
  CronJob's own `lastScheduleTime`, which is not latched. Re-creating the
  CronJob erases it, the floor falls back to the latch, and slots counted
  before are counted again.
  Setting `spec.timeZone` on the monitor has the same effect: the witness is no
  longer admitted. So has a change of leader to a process whose CronJob informer
  is behind.
* `JobHistory_reopened`, `RunningViewIsNewJob`. `shouldReplace` lets a Running
  view replace a finished record if it started later, and says that it is then "a
  new Job that reuses the name". It also says that the first sighting may carry
  the creation time and the terminal view "the real, earlier status.startTime".
  The two together: a Job that started before its creation finishes; a cache that
  still shows it without its startTime, as a new leader's may, gives the same Job
  the later start, and the finished run is on record as running again. It stays
  so until the cache shows the outcome (`HistoryConverges`); if the cache shows
  the Job's deletion instead, the record is pruned and the outcome is lost. A
  failure reopened in this way also ends the alarm on ExecutionHealthy. In this
  run no name is used again.
* `Transitions_stopped`, `AxisEventSent`. `docs/distribution.md` lists a Warning
  event for "An SLO axis turned False". `finishEarlyReturn` evaluates
  ExecutionHealthy and DurationHealthy and announces only the stop: an axis that
  turns False there, because failures were merged before an unsatisfiable
  schedule was noticed or a threshold was edited during a stop, is not announced;
  nor is it later, since the next happy reconcile finds it False already.

## 7. Limits the models make visible

Behaviour of the code that the properties above had to be stated around. None of
it has a run of its own.

* **A tight ring.** The ring counts running records in. With `historyLimit` equal
  to `maxConsecutiveFailures`, which validation admits, the next running Job
  pushes a failure out and ExecutionHealthy turns True, with reason
  RecentSuccess, without a success: hence the room that `RoomyAlarmNeedsSuccess`
  asks for.
* **Suspension.** The suspend path prunes but does not merge: a Job that finishes
  during a suspension and still exists is reported as running until the CronJob
  is resumed. For a suspended CronJob `RunningJobsRun` therefore asks only that a
  Job of the name exists.
* **Two starts of one Job.** Besides what section 6 has, a running Job whose
  startTime lies before its creation keeps the creation time that its first
  sighting showed, because a Running view with an earlier start replaces nothing
  (a test pins this); `HistoryConverges` admits it. If its name was used before,
  the finished record of the earlier Job may even hide it, when that one started
  no earlier.
* **Carried drift.** `Merge` hands an annotation to the record that replaces its
  own. If that is a later run of a reused name, or the start on record has
  changed, the drift is that of the other start until the record is annotated
  afresh, which happens only while it is the newest, on the happy path.
  `AnnotationFits` is checked and proved without reused names, and admits the
  starts that the Job itself has shown.
* **Detection time.** The requeue aims at the next slot plus jitter, not at the
  end of the grace period. A miss can therefore be noticed as late as the
  follow-up of a reconcile that ran just before its grace ended, nearly one
  period later; the bound in `MissNoticed` is tight.
* **One attempt at the label.** `SetRole` is not retried and its patch carries no
  resourceVersion. After a failed or late patch no pod, or the wrong one, may be
  scraped until the next election. Between a lost lease and the restart of its
  holder two pods are scraped.
* **A warning skipped.** The warning about an overriding schedule is skipped for
  good if the first reconcile of a generation stops before the schedules are
  compared, since `setReconciledFalse` marks the generation as observed; in
  `EventsMatch` it is a transition of the reconciles that get that far.
  A refused or lost update repeats its events. `StopAnnounced` is about the call
  of the recorder: a crash may still lose what the recorder has buffered.
* **Ready without a duration budget.** DurationHealthy is Unknown then, and so
  Ready is never True.

## 8. Not modelled, and the plan

Not modelled by choice: parsing of expressions and DST arithmetic inside
robfig/cron (text and time-zone data), the rendering of the gauges that show one
status field each and of messages, generated code, CRD declarations (their
validation rules appear as assumptions), flags and start-up.

Still to come:

1. `MissedRuns`: `EachMissOnce` for several replicas of a monitor that stays
   pinned, where the witness is not used and the floor is the latch alone.
2. `JobHistory`: what a reconcile that no other view contradicts leaves on
   record, the safety half of `HistoryConverges`.
3. `BurnLedger`: the bound on the sum of all increments that the ledger alone
   gives, as a theorem of the abstract specification.
