---------------------------- MODULE BurnCounter ----------------------------
(***************************************************************************)
(* The reconcile protocol of CronJobMonitorReconciler, seen through the    *)
(* burn counter cronguard_missed_runs_total of ONE monitor.                *)
(*                                                                         *)
(* Every replica of the operator keeps an informer cache of the monitor    *)
(* object and, once it leads, an in-memory baseline (lastMissed).  One     *)
(* reconcile reads the cached object, measures, writes the status back     *)
(* under optimistic concurrency (Status().Update with the resourceVersion  *)
(* that was read), and only when that write is durable moves the baseline  *)
(* and increments the counter.  A replica may crash or lose the lease at   *)
(* any point, a request may be answered with an error and land afterwards, *)
(* a cache may lag arbitrarily far behind, and users may edit, delete and  *)
(* re-create the monitor.                                                  *)
(*                                                                         *)
(* WHAT a reconcile measures is left open here: any outcome, any count.    *)
(* MissedRuns fixes it from slots, Jobs and the CronJob.                   *)
(***************************************************************************)
EXTENDS Integers, FiniteSets

CONSTANTS
    Replicas,   \* the operator's pods
    Nobody,     \* not a replica
    Counts,     \* the missed-run counts a measurement can return
    Times,      \* the values of Status.LastScheduleTime (0: nil)
    Specs,      \* the user-owned part of the monitor (spec)
    Outcomes,   \* the ways a reconcile of this instance can come out
    MaxRV,      \* bound: writes to the monitor object
    MaxFaults   \* bound: crashes, lost leases and abandoned requests

(* The counts are int32 values counted up from 0, the times are seconds;   *)
(* replicas have names, and Nobody is no replica's name.                   *)
ASSUME CountsAssumption == Counts \subseteq Nat /\ 0 \in Counts
ASSUME TimesAssumption == Times \subseteq Nat /\ 0 \in Times
ASSUME NobodyAssumption == Nobody \notin Replicas
ASSUME SpecsAssumption == Specs # {}
ASSUME BoundsAssumption == MaxRV \in Nat /\ MaxFaults \in Nat

VARIABLES
    store,      \* the monitor in the API server
    cached,     \* replica -> its informer's copy of the monitor
    leader,     \* the replica holding the lease, or Nobody
    pc,         \* replica -> where its reconcile of this key stands
    cjm,        \* replica -> the object its reconcile holds in memory
    prev,       \* replica -> the baseline its happy path read
    lastMissed, \* replica -> baseline of this key (Unseen: no map entry)
    counter,    \* replica -> its cronguard_missed_runs_total series
    orphans,    \* status updates on the wire that no process waits for
    faults,     \* crashes, lost leases and abandoned requests so far
    \* History, never read by the code:
    ckpt,       \* the count the last durable happy-path write persisted
    keeper,     \* the process that persisted the current 0 marker
    allowed     \* replica -> rise of its durable, not yet committed write

api == <<store, ckpt, keeper>>
locals == <<pc, cjm, prev, allowed>>
memory == <<lastMissed, counter>>
vars == <<store, cached, leader, pc, cjm, prev, lastMissed, counter, orphans,
          faults, ckpt, keeper, allowed>>

-----------------------------------------------------------------------------
(* The four outcomes that persist 0 as a "not measuring" marker, the one   *)
(* that freezes the count, and the happy path.                             *)
Markers == {"CronJobNotFound", "InvalidTimeZone", "InvalidSchedule",
            "UnsatisfiableSchedule"}
AllOutcomes == Markers \cup {"CronJobSuspended", "ReconcileSuccess"}

ASSUME OutcomesAssumption == Outcomes \subseteq AllOutcomes

(* The outcomes that merge the owned Jobs before they return, and so may   *)
(* move Status.LastScheduleTime.                                           *)
Latching == {"ReconcileSuccess", "UnsatisfiableSchedule"}

(* A monitor as the API server stores it: `reason` stands for the          *)
(* Reconciled condition ("Never" before the first status write).           *)
Monitor == [rv: Nat, present: BOOLEAN, spec: Specs, missed: Counts,
            latch: Times, reason: AllOutcomes \cup {"Never"}]

(* lastMissed has no entry for the key. *)
Unseen == -1

Pos(n) == IF n > 0 THEN n ELSE 0

(* Mutants: the baseline follows a persisted count downwards; it is seeded *)
(* from an implicit 0.                                                     *)
BaselineFollows(base, missed) == missed
BaselineFromZero(base, missed) ==
    IF base = Unseen THEN 0 ELSE IF missed > base THEN missed ELSE base

(* syncMissedBaseline: set when unseen, raise when larger, never lower.    *)
syncMissedBaseline(base, missed) ==
    IF base = Unseen \/ missed > base THEN missed ELSE base

(* A process that has just started: nothing in memory. *)
Fresh(r) == pc[r] = "idle" /\ lastMissed[r] = Unseen

(* A monitor that no status was ever written to. *)
Blank(rv, there, spec) ==
    [rv |-> rv, present |-> there, spec |-> spec, missed |-> 0, latch |-> 0,
     reason |-> "Never"]

(* Between reconciles the locals of Reconcile are out of scope. *)
NoObject == Blank(0, FALSE, CHOOSE s \in Specs : TRUE)

Return(r) ==
    /\ pc' = [pc EXCEPT ![r] = "idle"]
    /\ cjm' = [cjm EXCEPT ![r] = NoObject]
    /\ prev' = [prev EXCEPT ![r] = 0]
    /\ allowed' = [allowed EXCEPT ![r] = 0]

Init ==
    /\ store \in {Blank(1, TRUE, s) : s \in Specs}
    /\ cached = [r \in Replicas |-> store]
    /\ leader = Nobody
    /\ pc = [r \in Replicas |-> "idle"]
    /\ cjm = [r \in Replicas |-> NoObject]
    /\ prev = [r \in Replicas |-> 0]
    /\ lastMissed = [r \in Replicas |-> Unseen]
    /\ orphans = {}
    /\ faults = 0
    /\ ckpt = 0
    /\ keeper = Nobody
    /\ counter = [r \in Replicas |-> 0]
    /\ allowed = [r \in Replicas |-> 0]

-----------------------------------------------------------------------------
(* Reconcile, step by step.  The steps of one reconcile are separated by   *)
(* the calls other actors can interleave with: the cached Get, the         *)
(* measurement, the request's arrival at the API server, the response.     *)

(* Mutant: the read does not seed the baseline. *)
GetUnseeded(r) ==
    /\ leader = r
    /\ pc[r] = "idle"
    /\ cached[r].present
    /\ cjm' = [cjm EXCEPT ![r] = cached[r]]
    /\ pc' = [pc EXCEPT ![r] = "read"]
    /\ UNCHANGED <<api, prev, allowed, memory, cached, leader, orphans, faults>>

(* Get returns the cached monitor; the baseline is seeded from it before   *)
(* any path rewrites the count.                                            *)
Get(r) ==
    /\ leader = r
    /\ pc[r] = "idle"
    /\ cached[r].present
    /\ cjm' = [cjm EXCEPT ![r] = cached[r]]
    /\ lastMissed' = [lastMissed EXCEPT
                        ![r] = syncMissedBaseline(@, cached[r].missed)]
    /\ pc' = [pc EXCEPT ![r] = "read"]
    /\ UNCHANGED <<api, prev, allowed, counter, cached, leader, orphans,
                   faults>>

(* Get answers NotFound: the baseline and the counter series are dropped.  *)
GetNotFound(r) ==
    /\ leader = r
    /\ pc[r] = "idle"
    /\ ~cached[r].present
    /\ lastMissed' = [lastMissed EXCEPT ![r] = Unseen]
    /\ counter' = [counter EXCEPT ![r] = 0]
    /\ UNCHANGED <<api, locals, cached, leader, orphans, faults>>

(* Get CronJob or List Jobs fails: the reconcile returns the error.        *)
Abort(r) ==
    /\ pc[r] = "read"
    /\ Return(r)
    /\ UNCHANGED <<api, memory, cached, leader, orphans, faults>>

(* The happy path measured `missed` and sends the status update.  The      *)
(* baseline is read before the count is overwritten.                       *)
Measure(r, missed, latch) ==
    /\ pc[r] = "read"
    /\ latch >= cjm[r].latch
    /\ prev' = [prev EXCEPT ![r] = IF lastMissed[r] = Unseen
                                   THEN cjm[r].missed ELSE lastMissed[r]]
    /\ cjm' = [cjm EXCEPT ![r].missed = missed, ![r].latch = latch,
                          ![r].reason = "ReconcileSuccess"]
    /\ pc' = [pc EXCEPT ![r] = "sent"]
    /\ UNCHANGED <<api, memory, allowed, cached, leader, orphans, faults>>

(* An early return sends the status update: suspension keeps the count,    *)
(* every other reason persists 0.                                          *)
EarlyReturn(r, reason, latch) ==
    /\ pc[r] = "read"
    /\ reason # "ReconcileSuccess"
    /\ IF reason \in Latching THEN latch >= cjm[r].latch
                              ELSE latch = cjm[r].latch
    /\ cjm' = [cjm EXCEPT ![r].missed = IF reason \in Markers THEN 0 ELSE @,
                          ![r].latch = latch, ![r].reason = reason]
    /\ pc' = [pc EXCEPT ![r] = "sent"]
    /\ UNCHANGED <<api, memory, prev, allowed, cached, leader, orphans,
                   faults>>

-----------------------------------------------------------------------------
(* The API server (external).                                              *)

(* Mutant: an unconditional update (no resourceVersion). *)
AcceptsAny(q) == store.present

(* Optimistic concurrency: the update carries the version it was read at.  *)
Accepts(q) == store.present /\ q.rv = store.rv

(* The count in the store is a marker, not the last checkpoint.            *)
Marked == store.missed # ckpt

(* What a durable happy-path write by `by` adds to the checkpoint.  Only   *)
(* the process that persisted a marker still remembers the checkpoint it   *)
(* hides; any other one starts again from 0.                               *)
Rise(q, by) == IF Marked /\ keeper # by THEN q.missed
                                        ELSE Pos(q.missed - ckpt)

(* The status update q, sent by `by`, becomes durable.  An update that     *)
(* changes nothing does not bump the resourceVersion.                      *)
Land(q, by) ==
    /\ Accepts(q)
    /\ IF q = store THEN store' = store
       ELSE store.rv < MaxRV /\ store' = [q EXCEPT !.rv = store.rv + 1]
    /\ IF q.reason = "ReconcileSuccess"
       THEN ckpt' = q.missed /\ keeper' = Nobody
       ELSE /\ ckpt' = ckpt
            /\ keeper' = IF ~Marked /\ q.missed # ckpt THEN by ELSE keeper

(* The update is accepted and the response reaches the process.            *)
Serve(r) ==
    /\ pc[r] = "sent"
    /\ Land(cjm[r], r)
    /\ allowed' = [allowed EXCEPT
                     ![r] = IF cjm[r].reason = "ReconcileSuccess"
                            THEN Rise(cjm[r], r) ELSE 0]
    /\ pc' = [pc EXCEPT ![r] = "ok"]
    /\ UNCHANGED <<cjm, prev, memory, cached, leader, orphans, faults>>

(* 409 Conflict (or 404): patchStatus reports a backoff (or an error) and  *)
(* the reconcile returns without touching baseline or counter.             *)
Refuse(r) ==
    /\ pc[r] = "sent"
    /\ ~Accepts(cjm[r])
    /\ Return(r)
    /\ UNCHANGED <<api, memory, cached, leader, orphans, faults>>

(* Any other error (a timeout, a broken connection): the reconcile returns *)
(* it, but the update itself may still be on its way.                      *)
Abandon(r) ==
    /\ pc[r] = "sent"
    /\ faults < MaxFaults
    /\ faults' = faults + 1
    /\ orphans' = orphans \cup {cjm[r]}
    /\ Return(r)
    /\ UNCHANGED <<api, memory, cached, leader>>

(* An update nobody waits for lands, or is lost (a conflict included).     *)
OrphanLands(q) ==
    /\ Land(q, Nobody)
    /\ orphans' = orphans \ {q}
    /\ UNCHANGED <<locals, memory, cached, leader, faults>>

OrphanLost(q) ==
    /\ orphans' = orphans \ {q}
    /\ UNCHANGED <<api, locals, memory, cached, leader, faults>>

-----------------------------------------------------------------------------
(* Mutant: the difference is added whatever its sign. *)
CommitSigned(r, missed, base) ==
    /\ lastMissed' = [lastMissed EXCEPT ![r] = missed]
    /\ counter' = [counter EXCEPT ![r] = @ + (missed - base)]

(* commitMissed: the baseline moves to the persisted count, in either      *)
(* direction, and the counter grows by the positive difference.            *)
commitMissed(r, missed, base) ==
    /\ lastMissed' = [lastMissed EXCEPT ![r] = missed]
    /\ counter' = [counter EXCEPT ![r] = @ + Pos(missed - base)]

(* Mutant: the response is handled again. *)
CommitRepeats(r) ==
    /\ pc[r] = "ok"
    /\ cjm[r].reason = "ReconcileSuccess"
    /\ commitMissed(r, cjm[r].missed, prev[r])
    /\ UNCHANGED <<api, locals, cached, leader, orphans, faults>>

(* The response to a durable happy-path write. *)
Commit(r) ==
    /\ pc[r] = "ok"
    /\ cjm[r].reason = "ReconcileSuccess"
    /\ commitMissed(r, cjm[r].missed, prev[r])
    /\ Return(r)
    /\ UNCHANGED <<api, cached, leader, orphans, faults>>

(* Mutant: an early return resets the baseline to what it persisted. *)
FinishEarlyResets(r) ==
    /\ pc[r] = "ok"
    /\ cjm[r].reason # "ReconcileSuccess"
    /\ lastMissed' = [lastMissed EXCEPT ![r] = cjm[r].missed]
    /\ Return(r)
    /\ UNCHANGED <<api, counter, cached, leader, orphans, faults>>

(* The response to a durable early-return write: finishEarlyReturn raises  *)
(* the baseline to what it persisted, and emits nothing.                   *)
FinishEarly(r) ==
    /\ pc[r] = "ok"
    /\ cjm[r].reason # "ReconcileSuccess"
    /\ lastMissed' = [lastMissed EXCEPT
                        ![r] = syncMissedBaseline(@, cjm[r].missed)]
    /\ Return(r)
    /\ UNCHANGED <<api, counter, cached, leader, orphans, faults>>

-----------------------------------------------------------------------------
(* Processes, caches and users.                                            *)

(* A process ends and is restarted with empty memory.  A request it had    *)
(* sent may still land.                                                    *)
Die(r) ==
    /\ ~Fresh(r)
    /\ orphans' = IF pc[r] = "sent" THEN orphans \cup {cjm[r]} ELSE orphans
    /\ lastMissed' = [lastMissed EXCEPT ![r] = Unseen]
    /\ counter' = [counter EXCEPT ![r] = 0]
    /\ keeper' = IF keeper = r THEN Nobody ELSE keeper
    /\ Return(r)
    /\ UNCHANGED <<store, ckpt, cached>>

(* The leader crashes. *)
Crash(r) ==
    /\ leader = r
    /\ faults < MaxFaults
    /\ faults' = faults + 1
    /\ leader' = Nobody
    /\ Die(r)

(* The lease expires while its holder is still running (a paused or cut    *)
(* off process).  The holder starts no further reconcile, but the one in   *)
(* flight runs on until the process exits.                                 *)
LoseLease ==
    /\ leader # Nobody
    /\ faults < MaxFaults
    /\ faults' = faults + 1
    /\ leader' = Nobody
    /\ UNCHANGED <<api, locals, memory, cached, orphans>>

(* A process that lost the lease exits. *)
Exit(r) ==
    /\ leader # r
    /\ Die(r)
    /\ UNCHANGED <<leader, faults>>

(* Only a process that has not led in this life can be elected: losing the *)
(* lease ends the process.                                                 *)
Elect(r) ==
    /\ leader = Nobody
    /\ Fresh(r)
    /\ leader' = r
    /\ UNCHANGED <<api, locals, memory, cached, orphans, faults>>

(* The informer catches up with the API server. *)
CacheSync(r) ==
    /\ cached[r] # store
    /\ cached' = [cached EXCEPT ![r] = store]
    /\ UNCHANGED <<api, locals, memory, leader, orphans, faults>>

UserEdit(spec) ==
    /\ store.present
    /\ spec # store.spec
    /\ store.rv < MaxRV
    /\ store' = [store EXCEPT !.spec = spec, !.rv = @ + 1]
    /\ UNCHANGED <<ckpt, keeper, locals, memory, cached, leader, orphans,
                   faults>>

(* Deleting ends the streak with the object; a re-created monitor starts   *)
(* with an empty status.  resourceVersions are never reused.               *)
UserDelete ==
    /\ store.present
    /\ store.rv < MaxRV
    /\ store' = Blank(store.rv + 1, FALSE, store.spec)
    /\ ckpt' = 0
    /\ keeper' = Nobody
    /\ UNCHANGED <<locals, memory, cached, leader, orphans, faults>>

UserCreate(spec) ==
    /\ ~store.present
    /\ store.rv < MaxRV
    /\ store' = Blank(store.rv + 1, TRUE, spec)
    /\ UNCHANGED <<ckpt, keeper, locals, memory, cached, leader, orphans,
                   faults>>

-----------------------------------------------------------------------------
(* Everything but the measurement and the users, which MissedRuns fixes.   *)
Protocol ==
    \/ \E r \in Replicas :
          \/ Get(r) \/ GetNotFound(r) \/ Abort(r)
          \/ Serve(r) \/ Refuse(r) \/ Abandon(r)
          \/ Commit(r) \/ FinishEarly(r)
          \/ Crash(r) \/ Exit(r) \/ Elect(r) \/ CacheSync(r)
    \/ LoseLease
    \/ \E q \in orphans : OrphanLands(q) \/ OrphanLost(q)

Users ==
    \/ \E s \in Specs : UserEdit(s) \/ UserCreate(s)
    \/ UserDelete

Next ==
    \/ Protocol
    \/ Users
    \/ \E r \in Replicas, l \in Times :
          \/ \E m \in Counts : Measure(r, m, l)
          \/ \E o \in Outcomes : EarlyReturn(r, o, l)

Spec == Init /\ [][Next]_vars
-----------------------------------------------------------------------------
TypeOK ==
    /\ store \in Monitor
    /\ cached \in [Replicas -> Monitor]
    /\ leader \in Replicas \cup {Nobody}
    /\ pc \in [Replicas -> {"idle", "read", "sent", "ok"}]
    /\ cjm \in [Replicas -> Monitor]
    /\ prev \in [Replicas -> Counts]
    /\ lastMissed \in [Replicas -> Counts \cup {Unseen}]
    /\ counter \in [Replicas -> Nat]
    /\ orphans \subseteq Monitor
    /\ faults \in 0..MaxFaults
    /\ ckpt \in Counts
    /\ keeper \in Replicas \cup {Nobody}
    /\ allowed \in [Replicas -> Nat]

(* No step of a process adds more to cronguard_missed_runs_total than the  *)
(* durable happy-path write it is answering raised the persisted count by: *)
(* no conflict, ambiguous error, crash, failover onto a stale cache, late  *)
(* request or early return makes a miss count twice.  Only a process that  *)
(* measures over a marker another one left behind starts from 0, which is  *)
(* the residual the comment on syncMissedBaseline concedes.                *)
NoPhantomBurn ==
    [][\A r \in Replicas : counter'[r] - counter[r] <= allowed[r]]_vars

(* That residual needs a failure: as long as no process crashed, lost the  *)
(* lease or gave up on a request, the leader's baseline covers the         *)
(* checkpoint a marker hides, so however often the CronJob disappears or   *)
(* its schedule breaks, recovery re-emits nothing (finishEarlyReturn's     *)
(* "+18 for 5 real misses across a CronJob delete/recreate").              *)
MarkerRemembered ==
    Marked /\ faults = 0 => leader # Nobody /\ lastMissed[leader] >= ckpt

(* Status.LastScheduleTime is a monotone latch in the API server as well:  *)
(* no update computed from an older object or landing late moves it back.  *)
LatchNeverRegresses ==
    [][store.present /\ store'.present => store'.latch >= store.latch]_vars

(* What commitMissed documents, at the moments the process is not inside a *)
(* reconcile: the baseline never leads the value the last happy-path write *)
(* persisted.                                                              *)
BaselineNeverLeads ==
    \A r \in Replicas :
        leader = r /\ pc[r] = "idle" => lastMissed[r] <= ckpt

(* The whole protocol implements the ledger: caches, leases, conflicts,    *)
(* late requests and markers are its means, and what it does to the        *)
(* persisted count and to the counters is what BurnLedger allows.  In      *)
(* particular every rise is counted at most once, by the process whose     *)
(* write was answered.                                                     *)
Ledger == INSTANCE BurnLedger WITH
    checkpoint <- ckpt, granted <- allowed, total <- counter,
    failed <- (faults # 0)

LedgerSpec == Ledger!Spec

-----------------------------------------------------------------------------
(* The inductive invariant behind these properties, part by part.          *)

(* Nothing is newer than the store, and what a reconcile read is not newer *)
(* than its cache: informers never go back.                                *)
VersionsOrdered ==
    /\ \A r \in Replicas :
          /\ cached[r].rv <= store.rv
          /\ pc[r] \in {"read", "sent"} => cjm[r].rv <= cached[r].rv
    /\ \A q \in orphans : q.rv <= store.rv

(* An update computed from the object the store still holds. *)
UpdateOf(q) ==
    /\ q.present
    /\ q.latch >= store.latch
    /\ q.reason # "ReconcileSuccess" => q.missed \in {0, store.missed}

(* A resourceVersion names one content: a copy with the store's version is *)
(* the store's object, and an update that will be accepted was computed    *)
(* from it.                                                                *)
VersionNamesContent ==
    /\ \A r \in Replicas :
          /\ cached[r].rv = store.rv => cached[r] = store
          /\ pc[r] = "read" => cjm[r].present
          /\ pc[r] = "read" /\ cjm[r].rv = store.rv => cjm[r] = store
          /\ pc[r] = "sent" /\ cjm[r].rv = store.rv => UpdateOf(cjm[r])
    /\ \A q \in orphans : q.rv = store.rv => UpdateOf(q)

(* Whatever lands, the persisted count is the last checkpoint or 0. *)
CheckpointOrZero ==
    /\ store.missed \in {0, ckpt}
    /\ ~store.present => ckpt = 0

(* The baseline of a reconcile in flight is at least the count it read;    *)
(* a happy-path request carries exactly that baseline.                     *)
BaselineCoversRead ==
    \A r \in Replicas :
        /\ pc[r] = "read" => lastMissed[r] >= cjm[r].missed
        /\ pc[r] = "sent" /\ cjm[r].rv = store.rv
              => lastMissed[r] >= store.missed
        /\ pc[r] = "sent" /\ cjm[r].reason = "ReconcileSuccess"
              => prev[r] = lastMissed[r]

(* The process that persisted a marker over a checkpoint still has it as   *)
(* its baseline, and will not lose it: it has no happy-path write left to  *)
(* commit and does not see the monitor as deleted.                         *)
KeeperRemembers ==
    keeper # Nobody =>
        /\ store.present
        /\ cached[keeper].present
        /\ lastMissed[keeper] >= ckpt
        /\ pc[keeper] = "ok" => cjm[keeper].reason # "ReconcileSuccess"

(* The increment a durable write is about to cause is covered by its rise. *)
CommitCovered ==
    \A r \in Replicas :
        pc[r] = "ok" /\ cjm[r].reason = "ReconcileSuccess"
            => Pos(cjm[r].missed - prev[r]) <= allowed[r]

(* Without failures one process does everything and keeps every marker.    *)
OneProcessWithoutFaults ==
    faults = 0 =>
        /\ orphans = {}
        /\ \A r \in Replicas : r # leader => Fresh(r)
        /\ Marked => leader # Nobody /\ keeper = leader

IInv ==
    /\ TypeOK
    /\ VersionsOrdered
    /\ VersionNamesContent
    /\ CheckpointOrZero
    /\ BaselineCoversRead
    /\ KeeperRemembers
    /\ CommitCovered
    /\ OneProcessWithoutFaults
=============================================================================
