----------------------------- MODULE JobHistory -----------------------------
(***************************************************************************)
(* The execution history of one monitor: how Status.RecentExecutions       *)
(* follows the CronJob's Jobs through informer caches that lag, and what   *)
(* ExecutionHealthy and cronguard_running_jobs make of it.                 *)
(*                                                                         *)
(* One reconcile is one step here (BurnCounter has the write protocol: a   *)
(* reconcile that read an outdated monitor writes nothing).  Successive    *)
(* reconciles may be run by different replicas, whose caches are           *)
(* independent.  A drift annotation is the start it was computed for: the  *)
(* slot and the seconds are functions of that and the schedule.            *)
(*                                                                         *)
(* The API server stamps a Job's creation and the Job controller its       *)
(* startTime, which may lie before: Skew is how far.                       *)
(***************************************************************************)
EXTENDS Integers, FiniteSets

CONSTANTS
    Replicas,   \* the operator's pods
    Names,      \* Job names, ordered
    HistoryLimit,
    MaxConsecutiveFailures,
    MinAge,     \* orphanPruneMinAge
    Verdicts,   \* what reconciling the CronJob can come to
    Endings,    \* the conditions Jobs of this instance end with
    NamesReused,\* whether a deleted Job's name may be used again
    LateStarts, \* the Jobs that may be seen before their startTime is set
    Skew,       \* how far behind the clock that sets startTime may be
    ActiveShown,\* the Jobs that the CronJob controller lists in status.active
    Slotless,   \* the starts that Prev finds no slot for
    MaxTime,    \* bound: the clock
    MaxChanges  \* bound: changes of the CronJob

ASSUME NamesAssumption == Names \subseteq Nat
(* The CRD's validation: maxConsecutiveFailures <= historyLimit.           *)
ASSUME SpecAssumption ==
    /\ HistoryLimit \in Nat \ {0}
    /\ MaxConsecutiveFailures \in 1..HistoryLimit
ASSUME VerdictsAssumption ==
    Verdicts \subseteq {"ReconcileSuccess", "CronJobSuspended", "CronJobNotFound",
                        "InvalidSchedule", "UnsatisfiableSchedule"}
ASSUME TimeAssumption ==
    MinAge \in Nat /\ MaxTime \in Nat \ {0} /\ MaxChanges \in Nat
ASSUME JobsAssumption ==
    /\ Endings \subseteq {"SuccessCriteriaMet", "Complete", "Failed", "Undated"}
    /\ Skew \in Nat
    /\ NamesReused \in BOOLEAN
    /\ LateStarts \subseteq Names /\ ActiveShown \subseteq Names
    /\ Slotless \subseteq Nat

VARIABLES
    now,
    cronjob,     \* its verdict, uid and status.active
    jobs,        \* the Jobs that exist
    seenCronJob, \* replica -> its informer's CronJob
    seenJobs,    \* replica -> its informer's Jobs
    recent,      \* Status.RecentExecutions (newest first by Newer)
    latch,       \* Status.LastScheduleTime
    changes,     \* changes of the CronJob so far
    gone         \* name -> when a Job of that name was last deleted (0: never)

vars == <<now, cronjob, jobs, seenCronJob, seenJobs, recent, latch, changes, gone>>
world == <<now, cronjob, jobs, changes, gone>>

(* cond: the deciding condition, and end: the time that jobToRecord takes  *)
(* from it.  Complete comes with completionTime.  "Failed" is Failed or    *)
(* FailureTarget, whichever is first in the list, with its transition      *)
(* time; "Undated" is one of them without.                                 *)
Conditions == {"None", "SuccessCriteriaMet", "Complete", "Failed", "Undated"}
Job == [name: Names, owner: Nat, created: Nat, start: Nat, cond: Conditions,
        end: Nat]
Phases == {"Running", "Succeeded", "Failed"}
(* expected: the start that ExpectedStartTime and DriftSeconds were        *)
(* computed for, if they are set.  born is history, the creation of the    *)
(* Job that the record is of: no two Jobs of a name share it.  The code    *)
(* keeps nothing of the kind and no operation reads it.                    *)
ExecutionRecord == [name: Names, start: Nat, end: Nat, phase: Phases,
                    expected: Nat, born: Nat]
CronJob == [verdict: Verdicts, uid: Nat, active: SUBSET Names]

Unset == 0

-----------------------------------------------------------------------------
(* From Jobs to records.                                                   *)

listOwnedJobs(r) == {j \in seenJobs[r] : j.owner = seenCronJob[r].uid}

(* The conditions alone decide the phase. *)
jobOutcome(j) ==
    CASE j.cond = "None" -> "Running"
      [] j.cond \in {"Failed", "Undated"} -> "Failed"
      [] OTHER -> "Succeeded"

(* status.startTime or the creation time; an end time if there is one that *)
(* is not before the start.                                                *)
jobToRecord(j) ==
    LET start == IF j.start = Unset THEN j.created ELSE j.start
    IN  [name |-> j.name, start |-> start, phase |-> jobOutcome(j),
         end |-> IF j.end >= start THEN j.end ELSE Unset,
         expected |-> Unset, born |-> j.created]

isTerminal(phase) == phase \in {"Succeeded", "Failed"}

(* Mutants: any terminal view wins; only a later start wins.               *)
TerminalViewWins(old, new) == isTerminal(new.phase) \/ new.start > old.start
OnlyLaterStartWins(old, new) == new.start > old.start

(* Which of two views of one Job name survives. *)
shouldReplace(old, new) ==
    IF isTerminal(new.phase) # isTerminal(old.phase)
    THEN isTerminal(new.phase) \/ new.start > old.start
    ELSE \/ new.start > old.start
         \/ new.start = old.start /\ old.end = Unset /\ new.end # Unset

(* The ring's order: by start, then by name. *)
Newer(p, q) == p.start > q.start \/ (p.start = q.start /\ p.name > q.name)

(* Mutant: one record too many. *)
TruncateLate(recs, limit) ==
    {p \in recs : Cardinality({q \in recs : Newer(q, p)}) <= limit}

Truncate(recs, limit) ==
    {p \in recs : Cardinality({q \in recs : Newer(q, p)}) < limit}

(* A union keyed by name, newest first, cut off at the limit.  A record    *)
(* that replaces another takes over its annotation.                        *)
Merge(existing, incoming, limit) ==
    LET kept == {p \in existing : ~\E q \in incoming : q.name = p.name
                                                        /\ shouldReplace(p, q)}
        new == {q \in incoming : \A p \in existing : q.name # p.name}
        replacing == {[pq[2] EXCEPT !.expected = pq[1].expected] :
                        pq \in {pq \in existing \X incoming :
                                  /\ pq[2].name = pq[1].name
                                  /\ shouldReplace(pq[1], pq[2])}}
    IN  Truncate(kept \cup new \cup replacing, limit)

(* Mutant: every Job is believed to be alive. *)
NobodyGone(owned, active) == Names

(* status.active only vetoes: a name in it is not pruned. *)
liveJobNames(owned, active) == {j.name : j \in owned} \cup active

(* Mutant: terminal records are pruned too. *)
DropOrphaned(recs, live) ==
    {p \in recs : p.name \in live \/ now - p.start < MinAge}

dropOrphanedRunning(recs, live) ==
    {p \in recs : ~(/\ p.phase = "Running"
                    /\ p.name \notin live
                    /\ now - p.start >= MinAge)}

(* updateLastObservedTimes: a latch, moved by the newest start on record.  *)
updateLastObservedTimes(recs) ==
    CHOOSE t \in {latch} \cup {p.start : p \in recs} :
        t >= latch /\ \A p \in recs : t >= p.start

Newest(recs) == {p \in recs : ~\E q \in recs : Newer(q, p)}
Drift(last) == IF last \in Slotless THEN Unset ELSE last

(* Mutant: the newest record is annotated, whatever run it is of. *)
AnnotateNewest(recs, last) ==
    (recs \ Newest(recs)) \cup {[p EXCEPT !.expected = Drift(last)] :
                                  p \in Newest(recs)}

(* The newest record gets the drift of the last start, or loses its own if *)
(* that start has no slot: if it is the record of that start.              *)
Annotate(recs, last) ==
    LET annotatable == {p \in Newest(recs) : p.start = last}
    IN  (recs \ annotatable) \cup {[p EXCEPT !.expected = Drift(last)] :
                                     p \in annotatable}

-----------------------------------------------------------------------------
(* What the status says.  Every path evaluates these before it writes.     *)

Terminal(recs) == {p \in recs : isTerminal(p.phase)}

(* Mutant: a running Job ends the streak. *)
FailuresUntilRunning(recs) ==
    Cardinality({p \in recs : \A q \in recs :
                    q = p \/ Newer(q, p) => q.phase = "Failed"})

ConsecutiveFailures(recs) ==
    Cardinality({p \in Terminal(recs) :
                    \A q \in Terminal(recs) :
                        q = p \/ Newer(q, p) => q.phase = "Failed"})

evaluateExecutionHealthy(recs) ==
    IF Terminal(recs) = {} THEN "Unknown"
    ELSE IF ConsecutiveFailures(recs) >= MaxConsecutiveFailures THEN "False"
    ELSE "True"

(* cronguard_running_jobs. *)
Running(recs) == {p \in recs : p.phase = "Running"}

-----------------------------------------------------------------------------
Init ==
    /\ now = 1
    /\ cronjob \in {[verdict |-> v, uid |-> 1, active |-> {}] :
                        v \in Verdicts \ {"CronJobNotFound"}}
    /\ jobs = {}
    /\ seenCronJob = [r \in Replicas |-> cronjob]
    /\ seenJobs = [r \in Replicas |-> {}]
    /\ recent = {}
    /\ latch = Unset
    /\ changes = 0
    /\ gone = [n \in Names |-> 0]

Write(recs, last) ==
    /\ recent' = recs
    /\ latch' = last
    /\ UNCHANGED <<world, seenCronJob, seenJobs>>

Live(r) == liveJobNames(listOwnedJobs(r), seenCronJob[r].active)
Merged(r) == Merge(recent, {jobToRecord(j) : j \in listOwnedJobs(r)},
                   HistoryLimit)

(* The happy path merges, annotates, then prunes. *)
ReconcileSuccess(r) ==
    /\ seenCronJob[r].verdict = "ReconcileSuccess"
    /\ \E merged \in {Merged(r)} :
          LET last == updateLastObservedTimes(merged)
          IN  Write(dropOrphanedRunning(Annotate(merged, last), Live(r)), last)

(* An unsatisfiable schedule is noticed after the merge. *)
ReconcileUnsatisfiable(r) ==
    /\ seenCronJob[r].verdict = "UnsatisfiableSchedule"
    /\ Write(Merged(r), updateLastObservedTimes(Merged(r)))

(* The suspend path only prunes, and not even that if the List fails. *)
ReconcileSuspended(r) ==
    /\ seenCronJob[r].verdict = "CronJobSuspended"
    /\ \/ Write(dropOrphanedRunning(recent, Live(r)), latch)
       \/ Write(recent, latch)

(* No CronJob, no live Jobs. *)
ReconcileNotFound(r) ==
    /\ seenCronJob[r].verdict = "CronJobNotFound"
    /\ Write(dropOrphanedRunning(recent, {}), latch)

(* An unusable time zone or schedule is noticed before the Jobs are read.  *)
ReconcileInvalid(r) ==
    /\ seenCronJob[r].verdict = "InvalidSchedule"
    /\ Write(recent, latch)

Reconcile(r) ==
    \/ ReconcileSuccess(r) \/ ReconcileUnsatisfiable(r)
    \/ ReconcileSuspended(r) \/ ReconcileNotFound(r) \/ ReconcileInvalid(r)

-----------------------------------------------------------------------------
(* The Job and CronJob controllers, the garbage collector and users.       *)

views == <<seenCronJob, seenJobs, recent, latch>>

Tick ==
    /\ now < MaxTime
    /\ now' = now + 1
    /\ UNCHANGED <<cronjob, jobs, changes, gone, views>>

(* What the Job controller may set startTime to now. *)
StartTimes == {t \in 1..now : now - t <= Skew}

(* A Job is created by the schedule or by hand, early enough to age within *)
(* the bound on the clock.                                                 *)
CreateJob(n) ==
    /\ cronjob.verdict # "CronJobNotFound"
    /\ \A j \in jobs : j.name # n
    /\ gone[n] = 0 \/ (NamesReused /\ now > gone[n])
    /\ now + MinAge <= MaxTime
    /\ \E s \in StartTimes \cup {t \in {Unset} : n \in LateStarts} :
          jobs' = jobs \cup {[name |-> n, owner |-> cronjob.uid, created |-> now,
                              start |-> s, cond |-> "None", end |-> Unset]}
    /\ UNCHANGED <<now, cronjob, changes, gone, views>>

StartJob(j) ==
    /\ j.start = Unset /\ j.cond = "None"
    /\ now + MinAge <= MaxTime
    /\ \E s \in StartTimes : jobs' = (jobs \ {j}) \cup {[j EXCEPT !.start = s]}
    /\ UNCHANGED <<now, cronjob, changes, gone, views>>

(* The Job controller decides the outcome, once. *)
FinishJob(j) ==
    /\ \E c \in Endings :
          /\ j.cond = "None" \/ (j.cond = "SuccessCriteriaMet" /\ c = "Complete")
          /\ jobs' = (jobs \ {j}) \cup
                {[j EXCEPT !.cond = c,
                           !.end = IF c \in {"SuccessCriteriaMet", "Undated"}
                                   THEN Unset ELSE now]}
    /\ UNCHANGED <<now, cronjob, changes, gone, views>>

DeleteJob(j) ==
    /\ jobs' = jobs \ {j}
    /\ gone' = [gone EXCEPT ![j.name] = now]
    /\ UNCHANGED <<now, cronjob, changes, views>>

(* The CronJob controller publishes status.active. *)
PublishActive ==
    /\ cronjob.verdict # "CronJobNotFound"
    /\ cronjob' = [cronjob EXCEPT !.active =
                     {j.name : j \in {k \in jobs : k.cond = "None"}} \cap ActiveShown]
    /\ cronjob' # cronjob
    /\ UNCHANGED <<now, jobs, changes, gone, views>>

(* Suspend, resume, break, delete (the Jobs go along) or re-create it. *)
ChangeCronJob(v) ==
    /\ v # cronjob.verdict
    /\ changes < MaxChanges
    /\ changes' = changes + 1
    /\ cronjob' = CASE v = "CronJobNotFound" ->
                         [cronjob EXCEPT !.verdict = v, !.active = {}]
                    [] cronjob.verdict = "CronJobNotFound" ->
                         [verdict |-> v, uid |-> cronjob.uid + 1, active |-> {}]
                    [] OTHER -> [cronjob EXCEPT !.verdict = v]
    /\ jobs' = IF v = "CronJobNotFound" THEN {} ELSE jobs
    /\ gone' = [n \in Names |-> IF v = "CronJobNotFound" /\ \E j \in jobs : j.name = n
                                THEN now ELSE gone[n]]
    /\ UNCHANGED <<now, views>>

SyncCronJob(r) ==
    /\ seenCronJob[r] # cronjob
    /\ seenCronJob' = [seenCronJob EXCEPT ![r] = cronjob]
    /\ UNCHANGED <<world, seenJobs, recent, latch>>

SyncJobs(r) ==
    /\ seenJobs[r] # jobs
    /\ seenJobs' = [seenJobs EXCEPT ![r] = jobs]
    /\ UNCHANGED <<world, seenCronJob, recent, latch>>

-----------------------------------------------------------------------------
Next ==
    \/ \E r \in Replicas : Reconcile(r) \/ SyncCronJob(r) \/ SyncJobs(r)
    \/ Tick \/ PublishActive
    \/ \E n \in Names : CreateJob(n)
    \/ \E j \in jobs : StartJob(j) \/ FinishJob(j) \/ DeleteJob(j)
    \/ \E v \in Verdicts : ChangeCronJob(v)

Spec == Init /\ [][Next]_vars

(* Reconciles keep coming (every path requeues), informers catch up, time  *)
(* passes, and the CronJob controller publishes what it sees.  A List that *)
(* fails on the suspend path succeeds eventually.  Jobs need not finish.   *)
Fairness ==
    /\ \A r \in Replicas :
          /\ WF_vars(ReconcileSuccess(r) \/ ReconcileUnsatisfiable(r)
                     \/ ReconcileNotFound(r))
          /\ WF_vars(/\ seenCronJob[r].verdict = "CronJobSuspended"
                     /\ Write(dropOrphanedRunning(recent, Live(r)), latch))
          /\ WF_vars(SyncCronJob(r))
          /\ WF_vars(SyncJobs(r))
    /\ WF_vars(Tick)
    /\ WF_vars(PublishActive)

LiveSpec == Spec /\ Fairness

-----------------------------------------------------------------------------
TypeOK ==
    /\ now \in 1..MaxTime
    /\ cronjob \in CronJob
    /\ jobs \subseteq Job
    /\ seenCronJob \in [Replicas -> CronJob]
    /\ seenJobs \in [Replicas -> SUBSET Job]
    /\ recent \subseteq ExecutionRecord
    /\ latch \in Nat
    /\ Cardinality(recent) <= HistoryLimit
    /\ \A p, q \in recent : p.name = q.name => p = q
    /\ changes \in 0..MaxChanges
    /\ gone \in [Names -> 0..MaxTime]

(* The record of a Job whose startTime is not before its creation. *)
StartedAfterCreation(p) == p.start >= p.born

(* A finished run stays on record: a terminal record changes only to gain  *)
(* its end time, gives way to a later Job of the same name, or is pushed   *)
(* out by HistoryLimit newer ones.  No cache, however stale, and no change *)
(* of leader turns it back into a running one or drops it, as long as its  *)
(* Job did not start before it was created (RunningViewIsNewJob is about   *)
(* those that did).                                                        *)
TerminalIsFinal ==
    [][\A p \in {k \in Terminal(recent) : StartedAfterCreation(k)} :
          \/ p \in recent'
          \/ \E q \in recent' :
                /\ q.name = p.name
                /\ \/ q.born > p.born
                   \/ q = [p EXCEPT !.end = q.end, !.expected = q.expected]
          \/ Cardinality({q.name : q \in {k \in recent \cup recent' : Newer(k, p)}})
                >= HistoryLimit]_vars

(* "Terminal phases come from the Job's final conditions, which a Job      *)
(* never leaves, so a later Running view is a new Job that reuses the      *)
(* name": where shouldReplace lets a running record replace a finished     *)
(* one, it is of another, later Job.                                       *)
RunningViewIsNewJob ==
    [][\A p \in Terminal(recent), q \in Running(recent') :
          q.name = p.name => q.born > p.born]_vars

(* If the alarm on ExecutionHealthy ends in this step, a success newer     *)
(* than one of the failures has come on record.                            *)
ClearedBySuccess ==
    evaluateExecutionHealthy(recent) = "False"
        /\ evaluateExecutionHealthy(recent') # "False" =>
        \E p \in recent' :
            /\ p.phase = "Succeeded"
            /\ p \notin recent
            /\ \E q \in recent : q.phase = "Failed" /\ Newer(p, q)

(* "Counts terminal failures in a row; resets on success": nothing but a   *)
(* newer success ends an alarm raised by evaluateExecutionHealthy, as long *)
(* as the ring that Merge truncates has room for the threshold besides the *)
(* running records, and none of the failed Jobs started before it was      *)
(* created.  Stale caches, prunes, deletions and late failures do not.     *)
RoomyAlarmNeedsSuccess ==
    [][/\ Cardinality(Running(recent \cup recent')) + MaxConsecutiveFailures
            <= HistoryLimit
       /\ \A p \in recent : p.phase = "Failed" => StartedAfterCreation(p)
       => ClearedBySuccess]_vars

(* The drift of a record was computed for its own Job: for the start on    *)
(* record, or for the creation time that an earlier sighting showed in its *)
(* place; a record that shows the creation time may also keep what was     *)
(* computed for a start before it.  LastScheduleTime outlives the record   *)
(* it came from, and what is computed from it is not written on the newest *)
(* of the records that a prune or a truncation left, nor does Merge hand   *)
(* an annotation on to another run.                                        *)
AnnotationFits ==
    \A p \in recent :
        \/ p.expected \in {Unset, p.start, p.born}
        \/ p.start = p.born /\ p.born - p.expected \in 1..Skew

(* cronguard_running_jobs comes to count only Jobs that are running, while *)
(* the CronJob is measured or gone.  On the suspend path, which only       *)
(* prunes, a Job that finishes keeps its running record until it is        *)
(* deleted; and the paths that stop at the schedule prune nothing.         *)
RunningJobsRun ==
    <>[](\A p \in Running(recent) :
            /\ cronjob.verdict \in {"ReconcileSuccess", "CronJobNotFound"} =>
                  \E j \in jobs : j.name = p.name /\ j.cond = "None"
            /\ cronjob.verdict = "CronJobSuspended" =>
                  \E j \in jobs : j.name = p.name)

(* The CronJob's Jobs that Merge sees: the paths that merge have run, and  *)
(* the Job's name was not used before or the Job did not start before it   *)
(* was created (an earlier run of the name could hide its start).          *)
Mergeable ==
    {j \in jobs : /\ cronjob.verdict \in {"ReconcileSuccess", "UnsatisfiableSchedule"}
                  /\ j.owner = cronjob.uid
                  /\ gone[j.name] = 0 \/ StartedAfterCreation(jobToRecord(j))}

(* When the Jobs stop changing, Merge has brought every one that exists on *)
(* record as it is, unless HistoryLimit newer runs are on record.  A Job   *)
(* that started before it was created may keep, while it runs, the         *)
(* creation time that its first sighting showed: shouldReplace takes no    *)
(* earlier start for a run in the same phase.                              *)
HistoryConverges ==
    <>[](\A j \in Mergeable :
            LET p == jobToRecord(j)
                first == [p EXCEPT !.start = j.created]
            IN  \/ \E q \in recent :
                     \/ p = [q EXCEPT !.expected = Unset]
                     \/ /\ p.phase = "Running" /\ p.start < j.created
                        /\ first = [q EXCEPT !.expected = Unset]
                \/ Cardinality({q \in recent : Newer(q, p)}) >= HistoryLimit)
=============================================================================
