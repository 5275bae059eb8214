---------------------------- MODULE Transitions ----------------------------
(***************************************************************************)
(* The conditions a reconcile writes, the Kubernetes events it emits, and  *)
(* the gauges a scrape renders from the cached conditions.                 *)
(* Events are for transitions: they compare the conditions the reconcile   *)
(* read from its cache with those it computed, and are sent BEFORE the     *)
(* status update, which may be refused, fail, or land after its process    *)
(* has given it up.                                                        *)
(*                                                                         *)
(* What the operator observes is `truth`: how reconciling the CronJob      *)
(* comes out, whether enough slots were missed, and what the Jobs' history *)
(* says: how many failures in a row, and what the scan for the run that    *)
(* decides about the duration finds (a run within the budget, one that     *)
(* exceeded it, or none).  JobHistory and MissedRuns compute it.           *)
(***************************************************************************)
EXTENDS Integers

CONSTANTS
    Verdicts,   \* what reconciling the CronJob can come to
    Specs,      \* what the monitor's spec may be
    MaxFailing, \* bound: failures in a row
    MaxChanges, \* bound: changes of truth and spec
    MaxFaults   \* bound: updates given up

(* "CronJobSuspended" stands for the stops that leave the history alone,   *)
(* "UnsatisfiableSchedule" is noticed after the Jobs have been merged.     *)
Stops == {"CronJobNotFound", "CronJobSuspended", "InvalidSchedule",
          "UnsatisfiableSchedule"}
Merging == {"ReconcileSuccess", "UnsatisfiableSchedule"}
MonitorSpec == [maxFailures: Nat \ {0}, budget: BOOLEAN, override: BOOLEAN]

ASSUME VerdictsAssumption ==
    /\ "ReconcileSuccess" \in Verdicts
    /\ Verdicts \subseteq Stops \cup {"ReconcileSuccess"}
ASSUME SpecsAssumption == Specs # {} /\ Specs \subseteq MonitorSpec
ASSUME BoundsAssumption == {MaxFailing, MaxChanges, MaxFaults} \subseteq Nat

VARIABLES
    truth,   \* what there is to observe
    store,   \* the monitor in the API server
    cached,  \* the informer's copy
    pc,      \* where the reconcile stands
    cjm,     \* the object it holds: as read, then as written
    emitted, \* the events it has sent
    orphans, \* updates on the wire that no process waits for
    changes,
    faults,
    \* History:
    heard    \* the reasons of stops announced since Reconciled last changed

vars == <<truth, store, cached, pc, cjm, emitted, orphans, changes, faults, heard>>

Axes == {"ScheduleHealthy", "ExecutionHealthy", "DurationHealthy"}
Statuses == {"True", "False", "Unknown", "None"}
NoRuns == -1
History == {h \in [failing: NoRuns..MaxFailing,
                    duration: {"none", "within", "exceeded"}] :
               h.failing = NoRuns => h.duration = "none"}
NoHistory == [failing |-> NoRuns, duration |-> "none"]
Monitor == [rv: Nat, gen: Nat, spec: Specs, observed: Nat, history: History,
            reconciled: Stops \cup {"ReconcileSuccess", "None"},
            axis: [Axes -> Statuses], ready: Statuses, next: BOOLEAN]
Truth == [verdict: Verdicts, missed: BOOLEAN, history: History]

-----------------------------------------------------------------------------
(* The conditions.                                                         *)

evaluateScheduleHealthy(verdict, missed) ==
    IF verdict # "ReconcileSuccess" THEN "Unknown"
    ELSE IF missed THEN "False" ELSE "True"

evaluateExecutionHealthy(h, spec) ==
    IF h.failing = NoRuns THEN "Unknown"
    ELSE IF h.failing >= spec.maxFailures THEN "False" ELSE "True"

evaluateDurationHealthy(h, spec) ==
    IF ~spec.budget \/ h.duration = "none" THEN "Unknown"
    ELSE IF h.duration = "exceeded" THEN "False" ELSE "True"

(* Mutant: any Unknown wins. *)
ReadyUnknownFirst(reconciled, axis) ==
    LET s == <<IF reconciled = "ReconcileSuccess" THEN "True" ELSE "False",
               axis["ScheduleHealthy"], axis["ExecutionHealthy"],
               axis["DurationHealthy"]>>
    IN  IF "Unknown" \in {s[i] : i \in 1..4} THEN "Unknown"
        ELSE IF "False" \in {s[i] : i \in 1..4} THEN "False" ELSE "True"

(* Any False makes Ready False, else any Unknown makes it Unknown. *)
evaluateReady(reconciled, axis) ==
    LET s == <<IF reconciled = "ReconcileSuccess" THEN "True" ELSE "False",
               axis["ScheduleHealthy"], axis["ExecutionHealthy"],
               axis["DurationHealthy"]>>
    IN  IF "False" \in {s[i] : i \in 1..4} THEN "False"
        ELSE IF "Unknown" \in {s[i] : i \in 1..4} THEN "Unknown" ELSE "True"

(* The status a reconcile that read m writes, on whatever path.  Only the  *)
(* happy path leaves a next expected run (next: NextExpectedTime is set).  *)
Evaluate(m) ==
    LET h == IF truth.verdict \in Merging THEN truth.history ELSE m.history
        axis == [ScheduleHealthy |->
                    evaluateScheduleHealthy(truth.verdict, truth.missed),
                 ExecutionHealthy |-> evaluateExecutionHealthy(h, m.spec),
                 DurationHealthy |-> evaluateDurationHealthy(h, m.spec)]
    IN  [m EXCEPT !.history = h, !.reconciled = truth.verdict, !.axis = axis,
                  !.ready = evaluateReady(truth.verdict, axis),
                  !.next = (truth.verdict = "ReconcileSuccess"),
                  !.observed = m.gen]

-----------------------------------------------------------------------------
(* The events.                                                             *)

(* Mutants: every stopped reconcile warns; only the first stop does.       *)
EmitAlways(prior, reason) == TRUE
EmitFirst(prior, reason) == prior \notin Stops

(* A stop is announced when the reason is new. *)
shouldEmitReconciledEvent(prior, reason) == prior # reason

(* Mutant: the recovery repeats the reason it recovers from, if any. *)
EmitPriorReason(prior, curr) ==
    {a \in Axes : curr.axis[a] = "False" /\ prior.axis[a] # "False"}
        \cup {prior.reconciled}

(* An axis that is False and was not, and the recovery of Reconciled: sent *)
(* on the happy path only.                                                 *)
emitTransitionEvents(prior, curr) ==
    {a \in Axes : curr.axis[a] = "False" /\ prior.axis[a] # "False"}
        \cup {e \in {"ReconcileSuccess"} : prior.reconciled \in Stops}

(* The warning about an overriding schedule, once per observed generation. *)
emitMismatch(prior) ==
    {e \in {"ScheduleMismatch"} : /\ truth.verdict \in Merging
                                  /\ prior.spec.override
                                  /\ prior.observed # prior.gen}

Events(prior, curr) ==
    emitMismatch(prior) \cup
        IF curr.reconciled = "ReconcileSuccess"
        THEN emitTransitionEvents(prior, curr)
        ELSE {r \in {curr.reconciled} :
                 shouldEmitReconciledEvent(prior.reconciled, r)}

-----------------------------------------------------------------------------
(* The gauges.                                                             *)

conditionValue(status) ==
    CASE status = "True" -> 1 [] status = "False" -> 0 [] OTHER -> -1

(* A scrape renders the cached monitor: a sample for every condition, the  *)
(* next expected run if there is one.                                      *)
Collect ==
    LET conds == [c \in Axes \cup {"Ready"} |->
                     IF c = "Ready" THEN cached.ready ELSE cached.axis[c]]
    IN  {[metric |-> c, value |-> conditionValue(conds[c])] :
              c \in {d \in DOMAIN conds : conds[d] # "None"}}
        \cup {e \in {[metric |-> "next_expected", value |-> 1]} : cached.next}

-----------------------------------------------------------------------------
Blank(spec) ==
    [rv |-> 1, gen |-> 1, spec |-> spec, observed |-> 0,
     history |-> NoHistory, reconciled |-> "None",
     axis |-> [a \in Axes |-> "None"], ready |-> "None", next |-> FALSE]

Nothing == [Blank(CHOOSE s \in Specs : TRUE) EXCEPT !.rv = 0]

Init ==
    /\ truth = [verdict |-> "ReconcileSuccess", missed |-> FALSE,
                history |-> NoHistory]
    /\ store \in {Blank(s) : s \in Specs}
    /\ cached = store
    /\ pc = "idle" /\ cjm = Nothing /\ emitted = {}
    /\ orphans = {}
    /\ changes = 0 /\ faults = 0
    /\ heard = {}

Get ==
    /\ pc = "idle"
    /\ pc' = "read"
    /\ cjm' = cached
    /\ UNCHANGED <<truth, store, cached, emitted, orphans, changes, faults, heard>>

(* Evaluate, emit, and send the update. *)
Send ==
    /\ pc = "read"
    /\ pc' = "sent"
    /\ cjm' = Evaluate(cjm)
    /\ emitted' = Events(cjm, Evaluate(cjm))
    /\ heard' = heard \cup (emitted' \cap Stops)
    /\ UNCHANGED <<truth, store, cached, orphans, changes, faults>>

(* The reconcile is over. *)
Return ==
    /\ pc' = "idle"
    /\ cjm' = Nothing
    /\ emitted' = {}

(* A read error: what has been emitted so far (the warning about the       *)
(* schedule precedes the list of the Jobs) is emitted again next time.     *)
ReadFails ==
    /\ pc = "read"
    /\ faults < MaxFaults
    /\ faults' = faults + 1
    /\ Return
    /\ UNCHANGED <<truth, store, cached, orphans, changes, heard>>

(* The update q becomes durable. *)
Land(q) ==
    /\ q.rv = store.rv
    /\ store' = IF q = store THEN store ELSE [q EXCEPT !.rv = @ + 1]
    /\ heard' = IF q.reconciled = store.reconciled THEN heard
                ELSE heard \cap {q.reconciled}

Serve ==
    /\ pc = "sent"
    /\ Land(cjm)
    /\ Return
    /\ UNCHANGED <<truth, cached, orphans, changes, faults>>

Refuse ==
    /\ pc = "sent"
    /\ cjm.rv # store.rv
    /\ Return
    /\ UNCHANGED <<truth, store, cached, orphans, changes, faults, heard>>

(* An error other than a conflict, or the end of the process: the update   *)
(* is lost, or still on its way.                                           *)
Abandon ==
    /\ pc = "sent"
    /\ faults < MaxFaults
    /\ faults' = faults + 1
    /\ orphans' \in {orphans, orphans \cup {cjm}}
    /\ Return
    /\ UNCHANGED <<truth, store, cached, changes, heard>>

OrphanLands(q) ==
    /\ Land(q)
    /\ orphans' = orphans \ {q}
    /\ UNCHANGED <<truth, cached, pc, cjm, emitted, changes, faults>>

OrphanRefused(q) ==
    /\ q.rv # store.rv
    /\ orphans' = orphans \ {q}
    /\ UNCHANGED <<truth, store, cached, pc, cjm, emitted, changes, faults, heard>>

-----------------------------------------------------------------------------
CacheSync ==
    /\ cached # store
    /\ cached' = store
    /\ UNCHANGED <<truth, store, pc, cjm, emitted, orphans, changes, faults, heard>>

(* The world moves: the CronJob, its slots, its runs. *)
Observe ==
    /\ changes < MaxChanges
    /\ changes' = changes + 1
    /\ \/ \E v \in Verdicts : truth' = [truth EXCEPT !.verdict = v]
       \/ \E b \in BOOLEAN : truth' = [truth EXCEPT !.missed = b]
       \/ \E h \in History : /\ h.failing # NoRuns
                             /\ truth' = [truth EXCEPT !.history = h]
    /\ truth' # truth
    /\ UNCHANGED <<store, cached, pc, cjm, emitted, orphans, faults, heard>>

EditSpec(s) ==
    /\ changes < MaxChanges
    /\ changes' = changes + 1
    /\ s # store.spec
    /\ store' = [store EXCEPT !.spec = s, !.gen = @ + 1, !.rv = @ + 1]
    /\ UNCHANGED <<truth, cached, pc, cjm, emitted, orphans, faults, heard>>

Next ==
    \/ Get \/ Send \/ ReadFails \/ Serve \/ Refuse \/ Abandon
    \/ \E q \in orphans : OrphanLands(q) \/ OrphanRefused(q)
    \/ CacheSync \/ Observe
    \/ \E s \in Specs : EditSpec(s)

Spec == Init /\ [][Next]_vars

Fairness ==
    /\ WF_vars(Get) /\ WF_vars(Send \/ ReadFails)
    /\ WF_vars(Serve \/ Refuse)
    /\ WF_vars(CacheSync)
    /\ WF_vars(\E q \in orphans : OrphanLands(q) \/ OrphanRefused(q))

LiveSpec == Spec /\ Fairness

-----------------------------------------------------------------------------
TypeOK ==
    /\ truth \in Truth
    /\ store \in Monitor /\ cached \in Monitor /\ cjm \in Monitor
    /\ pc \in {"idle", "read", "sent"}
    /\ emitted \subseteq Axes \cup Stops \cup {"ReconcileSuccess", "ScheduleMismatch"}
    /\ orphans \subseteq Monitor
    /\ changes \in 0..MaxChanges /\ faults \in 0..MaxFaults
    /\ heard \subseteq Stops

(* The axes that a write from old to new turns False, whatever path wrote  *)
(* it: a stop evaluates ExecutionHealthy and DurationHealthy as well.      *)
TurnedFalse(old, new) ==
    {a \in Axes : old.axis[a] # "False" /\ new.axis[a] = "False"}

(* The transitions of that write that call for an event.  An override is   *)
(* noticed by the reconciles that get as far as the schedules.             *)
Transition(old, new) ==
    TurnedFalse(old, new)
    \cup {r \in Stops \cup {"ReconcileSuccess"} :
             /\ new.reconciled = r /\ old.reconciled # r
             /\ r = "ReconcileSuccess" => old.reconciled # "None"}
    \cup {e \in {"ScheduleMismatch"} :
             new.spec.override /\ old.observed # new.gen
                /\ new.reconciled \in Merging}

(* The reconcile's own update is about to be accepted, and the reconcile   *)
(* to return.                                                              *)
Accepted == pc = "sent" /\ pc' = "idle" /\ cjm.rv = store.rv /\ faults' = faults

(* "Only on transitions, so a monitor stuck in one state does not repeat   *)
(* them": a reconcile whose update is accepted has sent no event but for a *)
(* transition which that update makes in the API server, whatever it read  *)
(* from its cache and whatever was refused or lost before; and it has sent *)
(* one for each, save perhaps for an axis that a stop turns False.         *)
EventsMatch ==
    [][Accepted =>
          /\ emitted \subseteq Transition(store, cjm)
          /\ Transition(store, cjm) \ emitted \subseteq
                 {a \in TurnedFalse(store, cjm) : cjm.reconciled \in Stops}]_vars

(* "An SLO axis turned False" is among the occasions for an event that     *)
(* docs/distribution.md lists, with no exception.  finishEarlyReturn       *)
(* evaluates two of the axes and sends no event for either.                *)
AxisEventSent ==
    [][Accepted => TurnedFalse(store, cjm) \subseteq emitted]_vars

(* A monitor that persistently says why it is not measured has announced   *)
(* that reason since it last said something else: the event precedes the   *)
(* write, so no crash or late update leaves a stop unannounced.            *)
StopAnnounced == store.reconciled \in Stops => store.reconciled \in heard

(* What there is to observe, as the Ready gauge should show it: 0 if the   *)
(* monitor is not measured or an axis is broken, 1 only if every axis is   *)
(* known to be fine.                                                       *)
ReadyValue ==
    LET h == truth.history
        m == store.spec
    IN  CASE \/ truth.verdict # "ReconcileSuccess"
             \/ truth.missed
             \/ h.failing >= m.maxFailures
             \/ m.budget /\ h.duration = "exceeded" -> 0
          [] h.failing = NoRuns \/ ~m.budget \/ h.duration = "none" -> -1
          [] OTHER -> 1

(* When nothing changes any more, the scraped Ready comes to show what is  *)
(* the case, and a next expected run is published only for a monitor that  *)
(* is measured: refused and lost updates, events and stale caches leave no *)
(* gauge wrong for good.                                                   *)
GaugesConverge ==
    <>[](\A v \in {-1, 0, 1} :
            /\ [metric |-> "Ready", value |-> v] \in Collect <=> v = ReadyValue
            /\ [metric |-> "next_expected", value |-> 1] \in Collect
                   <=> truth.verdict = "ReconcileSuccess")
=============================================================================
