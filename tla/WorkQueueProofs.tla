-------------------------- MODULE WorkQueueProofs --------------------------
(***************************************************************************)
(* WorkQueue for every period, grace, interval and bound: type correctness,*)
(* a running controller never forgets a monitor, the series of a deleted   *)
(* monitor go, and a slot that does not fire is on record in time.         *)
(***************************************************************************)
EXTENDS WorkQueue, TLAPS

(* The informer's copy is never ahead of the API server. *)
Behind == cached.rv <= store.rv

(* A reconcile in flight holds a monitor that existed, in a process that   *)
(* runs; if the informer has seen the deletion since, the key comes again. *)
Working ==
    worker # "idle" =>
        up /\ cjm.present /\ (cached.present \/ notice \/ dirty)

(* What reached its status update asks to come back. *)
Retried == worker = "sent" => result.requeue > 0

(* The registry ends with its process. *)
Down == ~up => series = {}

(* The inductive invariant behind NeverForgotten and SeriesGone. *)
QInv == TypeOK /\ Behind /\ Working /\ Retried /\ Down /\ NeverForgotten /\ SeriesGone

-----------------------------------------------------------------------------
(* The argument for MissNoticed: `now - lag' stands still while something  *)
(* is pending, and when nothing is, the timer bounds the next tick.        *)

(* Something other than the timer will bring the monitor to a worker. *)
Pending == ~up \/ dirty \/ worker # "idle" \/ notice \/ cached # store

(* By x, and what the operator lagged, the monitor is attended to. *)
DueBy(x) == now <= x + lag /\ (Pending \/ (timer # Never /\ timer <= x + lag))

Errors == {"CronJobNotFound", "InvalidSchedule"}

(* The slots m might count and does not. *)
Unrecorded(m) == {s \in Slots : m.created < s /\ m.latch < s /\ s \notin m.missed}

(* Until when reconciling the CronJob may have failed for a good reason. *)
Broken == IF cronjob.verdict = "ReconcileSuccess" THEN measurable ELSE now

ClockAhead == measurable <= now

(* The informer's CronJob is out of date no longer than the operator lags. *)
ViewLag == seenCronJob # cronjob => now <= measurable + lag

(* A measured (or new) monitor is attended to when the first slot it does  *)
(* not count has outlived its grace period.                                *)
SlotsDue ==
    store.present /\ store.verdict \notin Errors =>
        \A s \in Unrecorded(store) : DueBy(FollowUp(s + Grace - 1))

(* A monitor whose CronJob could not be measured is looked at again. *)
ErrorsDue ==
    store.present /\ store.verdict \in Errors => DueBy(Broken + AfterError)

(* The requeue of an update in flight fits the slots that update leaves    *)
(* out.                                                                    *)
SentSlots ==
    worker = "sent" /\ cjm.verdict \notin Errors =>
        \A s \in Unrecorded(cjm) : now + result.requeue <= FollowUp(s + Grace - 1) + lag

SentErrors ==
    worker = "sent" /\ cjm.verdict \in Errors =>
        result.requeue = AfterError /\ now <= Broken + lag

(* The inductive invariant behind MissNoticed. *)
TInv == ClockAhead /\ (lag < MaxLag => ViewLag /\ SlotsDue /\ ErrorsDue /\ SentSlots /\ SentErrors)

-----------------------------------------------------------------------------
(* Slots are positive instants. *)
LEMMA SlotsNat == \A s \in Slots : s \in Nat /\ s > 0
  BY DEF Slots, Slot

(* A multiple of the period is an instant. *)
LEMMA NextSlotNat ==
    ASSUME NEW t \in Nat
    PROVE  NextSlot(t) \in Nat
<1>1. t \div Period \in Nat
  BY IntervalsAssumption
<1>2. \A a, b \in Nat : a * b \in Nat
  OBVIOUS
<1>. QED  BY <1>1, <1>2, IntervalsAssumption DEF NextSlot

(* NextSlot never goes back when its argument grows. *)
LEMMA NextSlotMonotone ==
    ASSUME NEW a \in Nat, NEW b \in Nat, a <= b
    PROVE  NextSlot(a) <= NextSlot(b)
<1>1. a \div Period \in Nat /\ b \div Period \in Nat /\ a \div Period <= b \div Period
  BY IntervalsAssumption
<1>2. \A x, y, z \in Nat : x <= y => (x + 1) * z <= (y + 1) * z
  OBVIOUS
<1>. QED  BY <1>1, <1>2, IntervalsAssumption DEF NextSlot

(* A follow-up is in the future, and an earlier reconcile has an earlier   *)
(* one.                                                                    *)
LEMMA FollowUpFacts ==
    ASSUME NEW a \in Nat, NEW b \in Nat, a <= b
    PROVE  /\ FollowUp(a) \in Nat /\ FollowUp(b) \in Nat
           /\ a < FollowUp(a)
           /\ FollowUp(a) <= FollowUp(b)
  BY NextSlotNat, NextSlotMonotone, IntervalsAssumption DEF FollowUp, Larger

(* The requeue of the happy path leads to its follow-up. *)
LEMMA HappyRequeueFacts ==
    ASSUME now \in Nat
    PROVE  /\ HappyRequeue \in Nat \ {0}
           /\ now + HappyRequeue = FollowUp(now)
  BY NextSlotNat, IntervalsAssumption DEF HappyRequeue, FollowUp, Larger

(* Every path that reached its status update asks for a requeue. *)
LEMMA RequeueFacts ==
    ASSUME now \in Nat, NEW v
    PROVE  Requeue(v) \in Nat \ {0}
  BY HappyRequeueFacts, IntervalsAssumption DEF Requeue

(* A monitor without status is a monitor. *)
LEMMA BlankType ==
    ASSUME NEW there \in BOOLEAN, NEW rv \in Nat, NEW t \in Nat
    PROVE  Blank(there, rv, t) \in Monitor
  BY DEF Blank, Monitor

(* An idle worker holds the empty object. *)
LEMMA NothingType == Nothing \in Monitor
  BY BlankType DEF Nothing

(* Evaluating a monitor keeps its identity. *)
LEMMA EvaluateFacts ==
    ASSUME TypeOK, NEW m \in Monitor
    PROVE  /\ Evaluate(m) \in Monitor
           /\ Evaluate(m).present = m.present
           /\ Evaluate(m).rv = m.rv
           /\ Evaluate(m).created = m.created
           /\ Evaluate(m).verdict = seenCronJob.verdict
<1>1. seenJob.slot \in Nat
  <2>1. seenJob.slot \in {0} \cup Slots
    BY DEF TypeOK, Job
  <2>. QED  BY <2>1, SlotsNat
<1>2. Larger(m.latch, seenJob.slot) \in Nat
  BY <1>1 DEF Larger, Monitor
<1>3. seenCronJob.verdict \in Verdicts
  BY DEF TypeOK, CronJob
<1>. QED  BY <1>2, <1>3 DEF Evaluate, Monitor

(* AddAfter arms the timer or leaves an earlier one. *)
LEMMA AddAfterFacts ==
    ASSUME TypeOK, NEW d \in Nat, AddAfter(d)
    PROVE  /\ timer' \in Nat \cup {Never}
           /\ d > 0 => timer' # Never /\ timer' <= now + d
  BY DEF AddAfter, TypeOK, Never

(* A failed attempt adds its delay to the lag. *)
LEMMA LaggedFacts ==
    ASSUME TypeOK, NEW d \in Nat
    PROVE  /\ Lagged(d) \in 0..MaxLag
           /\ lag <= Lagged(d)
           /\ Lagged(d) < MaxLag => Lagged(d) = lag + d
  BY BoundsAssumption DEF Lagged, TypeOK

(* One more change, failed call or restart stays within its bound. *)
LEMMA ChangesType ==
    ASSUME TypeOK, changes < MaxChanges, changes' = changes + 1
    PROVE  changes' \in 0..MaxChanges
  BY BoundsAssumption DEF TypeOK

(* What the worker leaves when it is done with the key. *)
LEMMA DoneType ==
    ASSUME TypeOK, NEW counted \in SUBSET Vecs, Done(counted)
    PROVE  /\ worker' = "idle" /\ cjm' \in Monitor
           /\ result' \in [requeue: Nat, counts: BOOLEAN]
           /\ series' \subseteq Vecs
           /\ UNCHANGED <<now, cached, notice, world, views, up, dirty>>
<1>1. result' \in [requeue: Nat, counts: BOOLEAN]
  BY DEF Done, NoResult
<1>2. series' \subseteq Vecs
  BY DEF Done, SeriesAfter, TypeOK, Vecs
<1>. QED  BY <1>1, <1>2, NothingType DEF Done

(* Every step keeps the types. *)
LEMMA TypeNext == TypeOK /\ [Next]_vars => TypeOK'
<1>. SUFFICES ASSUME TypeOK, [Next]_vars  PROVE TypeOK'
  OBVIOUS
<1>. USE DEF world, views, queue, outside
<1>0. now \in Nat /\ store.rv \in Nat
  BY BoundsAssumption DEF TypeOK, Monitor
<1>1. CASE Get
  BY <1>1 DEF Get, TypeOK
<1>2. CASE GetNotFound
  BY <1>2 DEF GetNotFound, SeriesAfter, TypeOK
<1>3. CASE Send
  <2>1. cjm' \in Monitor
    BY <1>3, EvaluateFacts DEF Send, TypeOK
  <2>2. result' \in [requeue: Nat, counts: BOOLEAN]
    BY <1>0, <1>3, RequeueFacts DEF Send
  <2>. QED  BY <1>3, <2>1, <2>2 DEF Send, TypeOK
<1>4. CASE Finish
  <2>1. store' \in Monitor
    BY <1>4 DEF Finish, TypeOK, Monitor
  <2>2. timer' \in Nat \cup {Never}
    BY <1>4, AddAfterFacts DEF Finish, TypeOK
  <2>3. {v \in {"missed_runs"} : result.counts} \in SUBSET Vecs
    BY DEF Vecs
  <2>. HIDE DEF Vecs
  <2>. QED  BY <1>4, <2>1, <2>2, <2>3, DoneType DEF Finish, TypeOK
<1>5. CASE FinishConflict
  <2>1. timer' \in Nat \cup {Never} /\ lag' \in 0..MaxLag
    BY <1>5, AddAfterFacts, LaggedFacts, IntervalsAssumption DEF FinishConflict
  <2>. QED  BY <1>5, <2>1, DoneType DEF FinishConflict, TypeOK
<1>6. CASE FinishError
  <2>1. timer' \in Nat \cup {Never} /\ lag' \in 0..MaxLag
    BY <1>6, AddAfterFacts, LaggedFacts, IntervalsAssumption DEF FinishError
  <2>2. changes' \in 0..MaxChanges
    BY <1>6, BoundsAssumption DEF FinishError, TypeOK
  <2>. QED  BY <1>6, <2>1, <2>2, DoneType DEF FinishError, TypeOK
<1>7. CASE FireTimer
  BY <1>7 DEF FireTimer, TypeOK
<1>8. CASE SyncMonitor \/ Resync \/ EnqueueMonitor \/ SyncCronJob \/ SyncJobs
  BY <1>8 DEF SyncMonitor, Resync, EnqueueMonitor, SyncCronJob, SyncJobs, TypeOK
<1>9. CASE mapJobToMonitors
  <2>1. dirty' \in BOOLEAN
    BY <1>9, Zenon DEF mapJobToMonitors, TypeOK
  <2>. QED  BY <1>9, <2>1 DEF mapJobToMonitors, TypeOK
<1>10. CASE mapJobFails
  <2>1. changes' \in 0..MaxChanges
    BY <1>10, ChangesType DEF mapJobFails
  <2>. QED  BY <1>10, <2>1 DEF mapJobFails, TypeOK
<1>11. CASE Stop
  <2>1. result' \in [requeue: Nat, counts: BOOLEAN]
    BY <1>11 DEF Stop, NoResult
  <2>2. changes' \in 0..MaxChanges
    BY <1>11, ChangesType DEF Stop
  <2>. QED  BY <1>11, <2>1, <2>2, NothingType DEF Stop, TypeOK
<1>12. CASE Start
  <2>1. dirty' \in BOOLEAN
    BY <1>12 DEF Start, TypeOK, Monitor
  <2>. QED  BY <1>12, <2>1 DEF Start, TypeOK
<1>13. CASE Delete
  <2>1. store' \in Monitor
    BY <1>0, <1>13 DEF Delete, Blank, Monitor
  <2>2. changes' \in 0..MaxChanges
    BY <1>13, ChangesType DEF Delete
  <2>. QED  BY <1>13, <2>1, <2>2 DEF Delete, TypeOK
<1>14. CASE Create
  <2>1. store' \in Monitor
    BY <1>0, <1>14 DEF Create, Blank, Monitor
  <2>. QED  BY <1>14, <2>1 DEF Create, TypeOK
<1>15. CASE Fire
  <2>1. job' \in Job
    BY <1>15 DEF Fire, TypeOK, Job, CronJob
  <2>. QED  BY <1>15, <2>1 DEF Fire, TypeOK
<1>16. CASE Tick
  BY <1>16, BoundsAssumption DEF Tick, TypeOK
<1>17. ASSUME NEW v \in Verdicts, ChangeCronJob(v)  PROVE TypeOK'
  <2>1. cronjob' \in CronJob
    BY <1>17 DEF ChangeCronJob, TypeOK, CronJob
  <2>2. job' \in Job
    BY <1>17 DEF ChangeCronJob, TypeOK, Job
  <2>. QED  BY <1>17, <2>1, <2>2, BoundsAssumption DEF ChangeCronJob, TypeOK
<1>18. CASE UNCHANGED vars
  BY <1>18 DEF vars, TypeOK
<1>. QED
  BY <1>1, <1>2, <1>3, <1>4, <1>5, <1>6, <1>7, <1>8, <1>9, <1>10, <1>11, <1>12,
     <1>13, <1>14, <1>15, <1>16, <1>17, <1>18 DEF Next

-----------------------------------------------------------------------------
(* A new monitor is queued. *)
LEMMA QInvInit == Init => QInv
<1>. SUFFICES ASSUME Init  PROVE QInv
  OBVIOUS
<1>1. store \in Monitor
  BY BlankType DEF Init
<1>2. result \in [requeue: Nat, counts: BOOLEAN]
  BY DEF Init, NoResult
<1>3. cronjob \in CronJob /\ job \in Job
  BY VerdictsAssumption DEF Init, CronJob, Job, NoJob
<1>4. 0 \in 0..MaxTime /\ 0 \in 0..MaxLag /\ 0 \in 0..MaxChanges
  BY BoundsAssumption
<1>5. TypeOK
  BY <1>1, <1>2, <1>3, <1>4, NothingType DEF Init, TypeOK
<1>6. Behind
  BY DEF Init, Behind, Blank
<1>. QED
  BY <1>5, <1>6 DEF Init, QInv, Working, Retried, Down, NeverForgotten, SeriesGone

(* Every step keeps it. *)
LEMMA QInvNext == QInv /\ [Next]_vars => QInv'
<1>. SUFFICES ASSUME QInv, [Next]_vars  PROVE QInv'
  OBVIOUS
<1>. USE DEF world, views, queue, outside, QInv
<1>0. TypeOK' /\ store.rv \in Nat /\ cached.rv \in Nat /\ now \in Nat
  BY TypeNext, BoundsAssumption DEF TypeOK, Monitor
<1>. DEFINE Parts == Behind /\ Working /\ Retried /\ Down /\ NeverForgotten /\ SeriesGone
<1>. SUFFICES Parts'
  BY <1>0
<1>. USE DEF Behind, Working, Retried, Down, NeverForgotten, SeriesGone
<1>1. CASE Get
  BY <1>1 DEF Get
<1>2. CASE GetNotFound
  BY <1>2 DEF GetNotFound, SeriesAfter
<1>3. CASE Send
  <2>1. cjm'.present = cjm.present /\ result'.requeue > 0
    BY <1>0, <1>3, EvaluateFacts, RequeueFacts DEF Send, TypeOK
  <2>. QED  BY <1>3, <2>1 DEF Send
<1>4. CASE Finish
  <2>1. timer' # Never
    BY <1>4, AddAfterFacts DEF Finish, TypeOK
  <2>2. store'.present /\ cached.rv <= store'.rv
    BY <1>0, <1>4 DEF Finish, TypeOK, Monitor
  <2>. QED  BY <1>4, <2>1, <2>2 DEF Finish, Done
<1>5. CASE FinishConflict
  <2>1. timer' # Never
    BY <1>5, AddAfterFacts, IntervalsAssumption DEF FinishConflict
  <2>. QED  BY <1>5, <2>1 DEF FinishConflict, Done
<1>6. CASE FinishError
  <2>1. timer' # Never
    BY <1>6, AddAfterFacts, IntervalsAssumption DEF FinishError
  <2>. QED  BY <1>6, <2>1 DEF FinishError, Done
<1>7. CASE FireTimer
  BY <1>7 DEF FireTimer
<1>8. CASE SyncMonitor \/ Resync \/ EnqueueMonitor \/ SyncCronJob \/ SyncJobs
  BY <1>0, <1>8 DEF SyncMonitor, Resync, EnqueueMonitor, SyncCronJob, SyncJobs
<1>9. CASE mapJobToMonitors
  BY <1>9 DEF mapJobToMonitors
<1>10. CASE mapJobFails
  BY <1>10 DEF mapJobFails
<1>11. CASE Stop
  BY <1>11 DEF Stop
<1>12. CASE Start
  BY <1>0, <1>12 DEF Start
<1>13. CASE Delete
  <2>1. store'.rv = store.rv + 1 /\ ~store'.present
    BY <1>13 DEF Delete, Blank
  <2>2. cached # store'
    BY <1>0, <2>1
  <2>3. cached' = cached
    BY <1>13 DEF Delete
  <2>4. Behind'
    BY <1>0, <2>1, <2>3
  <2>. QED  BY <1>13, <2>1, <2>2, <2>4, Zenon DEF Delete
<1>14. CASE Create
  <2>1. store'.rv = store.rv + 1 /\ store'.present
    BY <1>14 DEF Create, Blank
  <2>2. cached # store'
    BY <1>0, <2>1
  <2>3. cached' = cached
    BY <1>14 DEF Create
  <2>4. Behind'
    BY <1>0, <2>1, <2>3
  <2>. QED  BY <1>14, <2>1, <2>2, <2>4, Zenon DEF Create
<1>15. CASE Fire
  BY <1>15 DEF Fire
<1>16. CASE Tick
  BY <1>16 DEF Tick
<1>17. ASSUME NEW v \in Verdicts, ChangeCronJob(v)  PROVE Parts'
  BY <1>17 DEF ChangeCronJob
<1>18. CASE UNCHANGED vars
  BY <1>18 DEF vars
<1>. QED
  BY <1>1, <1>2, <1>3, <1>4, <1>5, <1>6, <1>7, <1>8, <1>9, <1>10, <1>11, <1>12,
     <1>13, <1>14, <1>15, <1>16, <1>17, <1>18 DEF Next

-----------------------------------------------------------------------------
(* The instants the proof computes with. *)
LEMMA Instants ==
    ASSUME TypeOK
    PROVE  /\ now \in Nat /\ lag \in Nat /\ measurable \in Nat
           /\ timer \in Int /\ result.requeue \in Nat
           /\ Broken \in Nat
           /\ AfterError \in Nat \ {0}
           /\ \A s \in Slots : FollowUp(s + Grace - 1) \in Nat
<1>1. ASSUME NEW s \in Slots  PROVE FollowUp(s + Grace - 1) \in Nat
  <2>1. s + Grace - 1 \in Nat
    BY SlotsNat, IntervalsAssumption
  <2>. QED  BY <2>1, FollowUpFacts
<1>2. now \in Nat /\ lag \in Nat /\ measurable \in Nat
  BY BoundsAssumption DEF TypeOK
<1>. QED  BY <1>1, <1>2, IntervalsAssumption DEF TypeOK, Broken, Never

(* What is due by x is due by anything later. *)
LEMMA DueLater ==
    ASSUME TypeOK, NEW x \in Int, NEW y \in Int, x <= y, DueBy(x)
    PROVE  DueBy(y)
  BY Instants DEF DueBy

(* A tick counts as lag while something is pending, and ends before the    *)
(* timer otherwise.                                                        *)
LEMMA DueTick ==
    ASSUME TypeOK, NEW x \in Int, DueBy(x), Tick
    PROVE  DueBy(x)'
<1>1. now' = now + 1 /\ timer' = timer /\ (Pending' <=> Pending)
  BY DEF Tick, Pending, queue
<1>2. CASE Settled
  <2>1. lag' = lag
    BY <1>2 DEF Tick
  <2>2. ~Pending /\ (timer = Never \/ timer > now)
    BY <1>2 DEF Settled, Pending
  <2>. QED  BY <1>1, <2>1, <2>2, Instants DEF DueBy
<1>3. CASE ~Settled
  <2>1. lag' = lag + 1
    BY <1>3 DEF Tick
  <2>. QED  BY <1>1, <2>1, Instants DEF DueBy
<1>. QED  BY <1>2, <1>3

(* A step that leaves the monitor, the CronJob and the clock alone keeps   *)
(* what is due if it keeps the attention the monitor has.                  *)
LEMMA StoreKept ==
    ASSUME TypeOK, SlotsDue, ErrorsDue,
           UNCHANGED <<now, store, cronjob, measurable>>,
           store.present => \A x \in Int : DueBy(x) => DueBy(x)'
    PROVE  SlotsDue' /\ ErrorsDue'
<1>1. Broken' = Broken
  BY DEF Broken
<1>2. ASSUME store.present, store.verdict \notin Errors, NEW s \in Unrecorded(store)
      PROVE  DueBy(FollowUp(s + Grace - 1))'
  <2>1. s \in Slots
    BY DEF Unrecorded
  <2>2. FollowUp(s + Grace - 1) \in Int /\ DueBy(FollowUp(s + Grace - 1))
    BY <1>2, <2>1, Instants DEF SlotsDue
  <2>. QED  BY <1>2, <2>2
<1>3. ASSUME store.present, store.verdict \in Errors
      PROVE  DueBy(Broken + AfterError)'
  <2>1. PICK x \in Int : x = Broken + AfterError
    BY Instants
  <2>2. DueBy(x)
    BY <1>3, <2>1 DEF ErrorsDue
  <2>3. DueBy(x)'
    BY <1>3, <2>2
  <2>. QED  BY <1>1, <2>1, <2>3 DEF DueBy
<1>. QED  BY <1>2, <1>3 DEF SlotsDue, ErrorsDue

(* A step that lets the monitor wait as before, or brings it closer to a   *)
(* worker, keeps what is due.                                              *)
LEMMA AttentionKept ==
    ASSUME TypeOK, UNCHANGED <<now, lag>>,
           Pending' \/ (UNCHANGED timer /\ (Pending => Pending')), NEW x \in Int, DueBy(x)
    PROVE  DueBy(x)'
  BY DEF DueBy

(* An update in flight is not disturbed by what others do. *)
LEMMA SentKept ==
    ASSUME SentSlots, SentErrors,
           worker' # "sent" \/ UNCHANGED <<worker, cjm, result>>,
           UNCHANGED <<now, lag, cronjob, measurable>>
    PROVE  SentSlots' /\ SentErrors'
  BY DEF SentSlots, SentErrors, Broken, Unrecorded

(* A failed attempt comes back within the delay it adds to the lag. *)
LEMMA DueRetry ==
    ASSUME TypeOK, NEW x \in Int, DueBy(x), NEW d \in Nat \ {0},
           AddAfter(d), lag' = lag + d, now' = now
    PROVE  DueBy(x)'
<1>1. timer' # Never /\ timer' <= now + d /\ timer' \in Int
  BY AddAfterFacts DEF Never
<1>. QED  BY <1>1, Instants DEF DueBy

(* What a failed attempt leaves due. *)
LEMMA RetryKeeps ==
    ASSUME QInv, TInv, NEW d \in Nat \ {0}, AddAfter(d), lag' = Lagged(d),
           Done({}), UNCHANGED store
    PROVE  TInv'
<1>. USE DEF QInv, world, views
<1>1. lag' < MaxLag => lag < MaxLag /\ lag' = lag + d
  BY LaggedFacts, Instants, BoundsAssumption DEF TypeOK
<1>2. UNCHANGED <<now, store, cronjob, measurable, seenCronJob>> /\ worker' = "idle"
  BY DEF Done
<1>3. ClockAhead'
  BY <1>2 DEF TInv, ClockAhead
<1>4. ASSUME lag' < MaxLag
      PROVE  ViewLag' /\ SlotsDue' /\ ErrorsDue' /\ SentSlots' /\ SentErrors'
  <2>1. SlotsDue /\ ErrorsDue /\ ViewLag
    BY <1>1, <1>4 DEF TInv
  <2>2. \A x \in Int : DueBy(x) => DueBy(x)'
    BY <1>1, <1>2, <1>4, DueRetry
  <2>3. SlotsDue' /\ ErrorsDue'
    BY <1>2, <2>1, <2>2, StoreKept
  <2>4. ViewLag'
    BY <1>1, <1>2, <1>4, <2>1, Instants DEF ViewLag
  <2>. QED  BY <1>2, <2>3, <2>4 DEF SentSlots, SentErrors
<1>. QED  BY <1>3, <1>4 DEF TInv

(* A step of the queue or of an informer that does not touch the monitor,  *)
(* the CronJob or the clock.                                               *)
LEMMA FrameKeeps ==
    ASSUME QInv, TInv, UNCHANGED <<now, lag, store, cronjob, measurable>>,
           seenCronJob' \in {seenCronJob, cronjob},
           worker' # "sent" \/ UNCHANGED <<worker, cjm, result>>,
           store.present =>
               Pending' \/ (UNCHANGED timer /\ (Pending => Pending'))
    PROVE  TInv'
<1>. USE DEF QInv
<1>1. ClockAhead'
  BY DEF TInv, ClockAhead
<1>2. ASSUME lag < MaxLag
      PROVE  ViewLag' /\ SlotsDue' /\ ErrorsDue' /\ SentSlots' /\ SentErrors'
  <2>1. ViewLag /\ SlotsDue /\ ErrorsDue /\ SentSlots /\ SentErrors
    BY <1>2 DEF TInv
  <2>2. store.present => \A x \in Int : DueBy(x) => DueBy(x)'
    BY AttentionKept
  <2>3. SlotsDue' /\ ErrorsDue'
    BY <2>1, <2>2, StoreKept
  <2>4. SentSlots' /\ SentErrors'
    BY <2>1, SentKept
  <2>5. ViewLag'
    BY <2>1 DEF ViewLag
  <2>. QED  BY <2>3, <2>4, <2>5
<1>. QED  BY <1>1, <1>2 DEF TInv

(* The update in flight leaves out a slot only if it was sent before the   *)
(* end of that slot's grace period, and reports an error only about a      *)
(* CronJob that is broken or was until now, but for the lag.               *)
LEMMA SendKeeps ==
    ASSUME QInv, TInv, Send
    PROVE  TInv'
<1>. USE DEF QInv, world, views
<1>1. UNCHANGED <<now, lag, store, cronjob, measurable, seenCronJob>> /\ worker' = "sent"
  BY DEF Send
<1>2. ClockAhead'
  BY <1>1 DEF TInv, ClockAhead
<1>3. ASSUME lag < MaxLag
      PROVE  ViewLag' /\ SlotsDue' /\ ErrorsDue' /\ SentSlots' /\ SentErrors'
  <2>1. ViewLag /\ SlotsDue /\ ErrorsDue
    BY <1>3 DEF TInv
  <2>2. \A x \in Int : DueBy(x) => DueBy(x)'
    BY <1>1, AttentionKept DEF Pending
  <2>3. SlotsDue' /\ ErrorsDue'
    BY <1>1, <2>1, <2>2, StoreKept
  <2>4. cjm' = Evaluate(cjm) /\ cjm \in Monitor
        /\ cjm'.created = cjm.created /\ cjm'.verdict = seenCronJob.verdict
        /\ result'.requeue = Requeue(cjm'.verdict)
    BY EvaluateFacts DEF Send, TypeOK
  <2>5. ASSUME cjm'.verdict \notin Errors, NEW s \in Unrecorded(cjm')
        PROVE  now + result'.requeue <= FollowUp(s + Grace - 1) + lag
    <3>1. cjm'.verdict = "ReconcileSuccess"
      BY <2>4, <2>5, VerdictsAssumption DEF Errors, TypeOK, CronJob
    <3>2. s \in Slots /\ cjm.created < s /\ cjm'.latch < s /\ s \notin cjm'.missed
      BY <2>4, <2>5 DEF Unrecorded
    <3>3. ~(s <= now - Grace)
      BY <2>4, <3>1, <3>2 DEF Evaluate, Monitor
    <3>4. now <= s + Grace - 1 /\ now \in Nat /\ s + Grace - 1 \in Nat
      BY <3>2, <3>3, SlotsNat, Instants, IntervalsAssumption
    <3>5. now + result'.requeue = FollowUp(now)
      BY <2>4, <3>1, <3>4, HappyRequeueFacts DEF Requeue
    <3>6. FollowUp(now) \in Nat /\ FollowUp(s + Grace - 1) \in Nat
          /\ FollowUp(now) <= FollowUp(s + Grace - 1)
      BY <3>4, FollowUpFacts
    <3>. QED  BY <3>5, <3>6, Instants
  <2>6. SentSlots'
    BY <1>1, <2>5 DEF SentSlots
  <2>7. ASSUME cjm'.verdict \in Errors
        PROVE  result'.requeue = AfterError /\ now <= Broken + lag
    <3>1. cjm'.verdict # "ReconcileSuccess"
      BY <2>7 DEF Errors
    <3>2. cronjob.verdict = "ReconcileSuccess" => now <= measurable + lag
      BY <2>1, <2>4, <3>1 DEF ViewLag
    <3>. QED  BY <2>4, <3>1, <3>2, Instants DEF Requeue, Broken
  <2>8. SentErrors'
    BY <1>1, <2>7 DEF SentErrors, Broken
  <2>9. ViewLag'
    BY <1>1, <2>1 DEF ViewLag
  <2>. QED  BY <2>3, <2>6, <2>8, <2>9
<1>. QED  BY <1>1, <1>2, <1>3 DEF TInv

(* The update lands with the requeue that fits it. *)
LEMMA FinishKeeps ==
    ASSUME QInv, TInv, Finish
    PROVE  TInv'
<1>. USE DEF QInv, world, views
<1>1. UNCHANGED <<now, lag, cronjob, measurable, seenCronJob>> /\ worker' = "idle"
  BY DEF Finish, Done
<1>2. worker = "sent" /\ result.requeue > 0
  BY DEF Finish, Retried
<1>3. timer' # Never /\ timer' <= now + result.requeue /\ timer' \in Int
  BY <1>2, AddAfterFacts, Instants DEF Finish, Never
<1>4. store'.verdict = cjm.verdict /\ store'.created = cjm.created
      /\ store'.latch = cjm.latch /\ store'.missed = cjm.missed
  BY DEF Finish, TypeOK, Monitor
<1>5. ClockAhead'
  BY <1>1 DEF TInv, ClockAhead
<1>6. ASSUME lag < MaxLag
      PROVE  ViewLag' /\ SlotsDue' /\ ErrorsDue' /\ SentSlots' /\ SentErrors'
  <2>1. ViewLag /\ SentSlots /\ SentErrors
    BY <1>6 DEF TInv
  <2>2. ASSUME store'.verdict \notin Errors, NEW s \in Unrecorded(store')
        PROVE  DueBy(FollowUp(s + Grace - 1))'
    <3>1. s \in Unrecorded(cjm) /\ s \in Slots
      BY <1>4, <2>2 DEF Unrecorded
    <3>2. now + result.requeue <= FollowUp(s + Grace - 1) + lag
      BY <1>2, <1>4, <2>1, <2>2, <3>1 DEF SentSlots
    <3>. QED  BY <1>1, <1>3, <3>1, <3>2, Instants DEF DueBy
  <2>3. ASSUME store'.verdict \in Errors
        PROVE  DueBy(Broken + AfterError)'
    <3>1. result.requeue = AfterError /\ now <= Broken + lag /\ Broken' = Broken
      BY <1>1, <1>2, <1>4, <2>1, <2>3 DEF SentErrors, Broken
    <3>. QED  BY <1>1, <1>3, <3>1, Instants DEF DueBy
  <2>4. SlotsDue' /\ ErrorsDue'
    BY <2>2, <2>3 DEF SlotsDue, ErrorsDue
  <2>. QED  BY <1>1, <2>1, <2>4 DEF ViewLag, SentSlots, SentErrors
<1>. QED  BY <1>1, <1>5, <1>6 DEF TInv

(* A new monitor has no slot behind it, and the informer has not seen it. *)
LEMMA CreateKeeps ==
    ASSUME QInv, TInv, Create
    PROVE  TInv'
<1>. USE DEF QInv, world, views, queue, outside
<1>1. UNCHANGED <<now, lag, cached, cronjob, measurable, seenCronJob, worker, cjm, result>>
  BY DEF Create
<1>2. store'.rv = store.rv + 1 /\ store'.created = now /\ store'.verdict = "None"
  BY DEF Create, Blank
<1>3. Pending'
  <2>1. store.rv \in Nat /\ cached.rv \in Nat
    BY DEF TypeOK, Monitor
  <2>2. cached # store'
    BY <1>2, <2>1 DEF Behind
  <2>. QED  BY <1>1, <2>2 DEF Pending
<1>4. ASSUME NEW s \in Unrecorded(store')
      PROVE  DueBy(FollowUp(s + Grace - 1))'
  <2>1. s \in Slots /\ now < s
    BY <1>2, <1>4 DEF Unrecorded
  <2>2. s + Grace - 1 \in Nat /\ now <= s + Grace - 1
    BY <2>1, SlotsNat, Instants, IntervalsAssumption
  <2>3. now <= FollowUp(s + Grace - 1)
    BY <2>2, FollowUpFacts, Instants
  <2>. QED  BY <1>1, <1>3, <2>1, <2>3, Instants DEF DueBy
<1>5. SlotsDue' /\ ErrorsDue'
  BY <1>2, <1>4 DEF SlotsDue, ErrorsDue, Errors
<1>6. ClockAhead' /\ (lag < MaxLag => ViewLag')
  BY <1>1 DEF TInv, ClockAhead, ViewLag
<1>7. lag < MaxLag => SentSlots' /\ SentErrors'
  BY <1>1, SentKept DEF TInv
<1>. QED  BY <1>1, <1>5, <1>6, <1>7 DEF TInv

(* A CronJob that changes starts its own deadline. *)
LEMMA ChangeKeeps ==
    ASSUME QInv, TInv, NEW v \in Verdicts, ChangeCronJob(v)
    PROVE  TInv'
<1>. USE DEF QInv, world, views, queue, outside
<1>1. UNCHANGED <<now, lag, store, worker, cjm, result, timer>>
      /\ (Pending' <=> Pending) /\ measurable' = now
  BY DEF ChangeCronJob, Pending
<1>2. Broken' = now /\ Broken <= now
  BY <1>1, Instants DEF Broken, TInv, ClockAhead
<1>3. ClockAhead' /\ ViewLag'
  BY <1>1, Instants DEF ClockAhead, ViewLag
<1>4. ASSUME lag < MaxLag
      PROVE  SlotsDue' /\ ErrorsDue' /\ SentSlots' /\ SentErrors'
  <2>1. SlotsDue /\ ErrorsDue /\ SentSlots /\ SentErrors
    BY <1>4 DEF TInv
  <2>2. SlotsDue'
    BY <1>1, <2>1 DEF SlotsDue, DueBy, Unrecorded
  <2>3. ErrorsDue'
    <3>1. store.present /\ store.verdict \in Errors => DueBy(now + AfterError)
      BY <1>2, <2>1, DueLater, Instants DEF ErrorsDue
    <3>. QED  BY <1>1, <1>2, <3>1 DEF ErrorsDue, DueBy
  <2>4. SentSlots' /\ SentErrors'
    BY <1>1, <1>2, <2>1, Instants DEF SentSlots, SentErrors, Unrecorded
  <2>. QED  BY <2>2, <2>3, <2>4
<1>. QED  BY <1>1, <1>3, <1>4 DEF TInv

(* Time passes. *)
LEMMA TickKeeps ==
    ASSUME QInv, TInv, Tick
    PROVE  TInv'
<1>. USE DEF QInv, world, views, queue
<1>1. now' = now + 1
      /\ UNCHANGED <<store, cronjob, measurable, seenCronJob, worker, cjm, result>>
  BY DEF Tick
<1>2. ~Settled => lag' = lag + 1
  BY DEF Tick
<1>3. lag' < MaxLag => lag < MaxLag
  BY <1>2, Instants, BoundsAssumption DEF Tick, TypeOK
<1>4. ClockAhead'
  BY <1>1, Instants DEF TInv, ClockAhead
<1>5. ASSUME lag' < MaxLag
      PROVE  ViewLag' /\ SlotsDue' /\ ErrorsDue' /\ SentSlots' /\ SentErrors'
  <2>1. ViewLag /\ SlotsDue /\ ErrorsDue /\ SentSlots /\ SentErrors
    BY <1>3, <1>5 DEF TInv
  <2>2. \A x \in Int : DueBy(x) => DueBy(x)'
    BY DueTick
  <2>3. SlotsDue'
    <3>1. ASSUME store.present, store.verdict \notin Errors, NEW s \in Unrecorded(store)
          PROVE  DueBy(FollowUp(s + Grace - 1))'
      <4>1. FollowUp(s + Grace - 1) \in Int /\ DueBy(FollowUp(s + Grace - 1))
        BY <2>1, <3>1, Instants DEF SlotsDue, Unrecorded
      <4>. QED  BY <2>2, <4>1
    <3>. QED  BY <1>1, <3>1 DEF SlotsDue
  <2>4. ErrorsDue'
    <3>1. ASSUME store.present, store.verdict \in Errors
          PROVE  DueBy(Broken + AfterError)'
      <4>1. PICK x \in Int : x = Broken + AfterError
        BY Instants
      <4>2. DueBy(x)'
        BY <2>1, <2>2, <3>1, <4>1 DEF ErrorsDue
      <4>3. PICK y \in Int : y = (Broken + AfterError)' /\ x <= y
        BY <1>1, <4>1, Instants DEF Broken
      <4>4. now' \in Int /\ lag' \in Int /\ timer' \in Int
        BY <1>1, <1>2, Instants DEF Tick
      <4>. QED  BY <4>1, <4>2, <4>3, <4>4 DEF DueBy
    <3>. QED  BY <1>1, <3>1 DEF ErrorsDue
  <2>5. ViewLag'
    <3>1. seenCronJob # cronjob => ~Settled
      BY DEF Settled
    <3>. QED  BY <1>1, <1>2, <2>1, <3>1, Instants DEF ViewLag
  <2>6. SentSlots' /\ SentErrors'
    <3>1. worker = "sent" => ~Settled
      BY DEF Settled
    <3>2. Broken' \in {Broken, now'} /\ Broken \in {now, measurable}
      BY <1>1 DEF Broken
    <3>3. \A s \in Unrecorded(cjm) : FollowUp(s + Grace - 1) \in Nat
      BY Instants DEF Unrecorded
    <3>4. SentSlots'
      BY <1>1, <1>2, <2>1, <3>1, <3>3, Instants DEF SentSlots
    <3>5. SentErrors'
      BY <1>1, <1>2, <2>1, <3>1, <3>2, Instants DEF SentErrors
    <3>. QED  BY <3>4, <3>5
  <2>. QED  BY <2>3, <2>4, <2>5, <2>6
<1>. QED  BY <1>4, <1>5 DEF TInv

(* Nothing is due at the start but the first reconcile. *)
LEMMA TInvInit == Init => TInv
<1>. SUFFICES ASSUME Init  PROVE TInv
  OBVIOUS
<1>0. TypeOK
  BY QInvInit DEF QInv
<1>1. ClockAhead /\ ViewLag /\ SentSlots /\ SentErrors
  BY DEF Init, ClockAhead, ViewLag, SentSlots, SentErrors
<1>2. store.verdict \notin Errors
  BY DEF Init, Blank, Errors
<1>3. ASSUME NEW s \in Unrecorded(store)  PROVE DueBy(FollowUp(s + Grace - 1))
  <2>1. FollowUp(s + Grace - 1) \in Nat
    BY <1>0, Instants DEF Unrecorded
  <2>. QED  BY <2>1 DEF Init, DueBy, Pending
<1>. QED  BY <1>1, <1>2, <1>3 DEF TInv, SlotsDue, ErrorsDue

(* Every step keeps it. *)
LEMMA TInvNext == QInv /\ TInv /\ [Next]_vars => TInv'
<1>. SUFFICES ASSUME QInv, TInv, [Next]_vars  PROVE TInv'
  OBVIOUS
<1>. USE DEF world, views, queue, outside
<1>1. CASE Get
  BY <1>1, FrameKeeps DEF Get, Pending
<1>2. CASE GetNotFound
  BY <1>2, FrameKeeps DEF GetNotFound, Pending
<1>3. CASE Send
  BY <1>3, SendKeeps
<1>4. CASE Finish
  BY <1>4, FinishKeeps
<1>5. CASE FinishConflict
  BY <1>5, RetryKeeps, IntervalsAssumption DEF FinishConflict
<1>6. CASE FinishError
  BY <1>6, RetryKeeps, IntervalsAssumption DEF FinishError
<1>7. CASE FireTimer
  BY <1>7, FrameKeeps DEF FireTimer, Pending
<1>8. CASE SyncMonitor \/ Resync \/ EnqueueMonitor
  BY <1>8, FrameKeeps DEF SyncMonitor, Resync, EnqueueMonitor, Pending
<1>9. CASE SyncCronJob \/ SyncJobs
  BY <1>9, FrameKeeps DEF SyncCronJob, SyncJobs, Pending
<1>10. CASE mapJobToMonitors \/ mapJobFails
  <2>1. dirty => dirty'
    BY <1>10, Zenon DEF mapJobToMonitors, mapJobFails
  <2>2. UNCHANGED <<now, lag, store, cached, notice, cronjob, measurable, seenCronJob,
                    up, worker, cjm, result, timer>>
    BY <1>10, Zenon DEF mapJobToMonitors, mapJobFails
  <2>3. Pending => Pending'
    BY <2>1, <2>2 DEF Pending
  <2>. QED  BY <2>2, <2>3, FrameKeeps
<1>11. CASE Stop
  BY <1>11, FrameKeeps DEF Stop, Pending
<1>12. CASE Start
  BY <1>12, FrameKeeps DEF Start, Pending
<1>13. CASE Delete
  <2>1. UNCHANGED <<now, lag, cronjob, measurable, seenCronJob, worker, cjm, result>>
    BY <1>13 DEF Delete
  <2>2. ~store'.present
    BY <1>13 DEF Delete, Blank
  <2>3. SlotsDue' /\ ErrorsDue'
    BY <2>2 DEF SlotsDue, ErrorsDue
  <2>4. lag < MaxLag => SentSlots' /\ SentErrors'
    BY <2>1, SentKept DEF TInv
  <2>. QED  BY <2>1, <2>3, <2>4 DEF TInv, ClockAhead, ViewLag
<1>14. CASE Create
  BY <1>14, CreateKeeps
<1>15. CASE Fire
  BY <1>15, FrameKeeps DEF Fire, Pending
<1>16. CASE Tick
  BY <1>16, TickKeeps
<1>17. ASSUME NEW v \in Verdicts, ChangeCronJob(v)  PROVE TInv'
  BY <1>17, ChangeKeeps
<1>18. CASE UNCHANGED vars
  BY <1>18, FrameKeeps DEF vars, Pending
<1>. QED
  BY <1>1, <1>2, <1>3, <1>4, <1>5, <1>6, <1>7, <1>8, <1>9, <1>10, <1>11, <1>12,
     <1>13, <1>14, <1>15, <1>16, <1>17, <1>18 DEF Next

-----------------------------------------------------------------------------
(* Both inductive invariants hold of every behaviour. *)
THEOREM Invariant == Spec => [](QInv /\ TInv)
  BY QInvInit, QInvNext, TInvInit, TInvNext, PTL DEF Spec

(* Clock, monitor, caches, queue, timer and series keep their types. *)
THEOREM TypeCorrect == Spec => []TypeOK
<1>1. QInv => TypeOK
  BY DEF QInv
<1>. QED  BY <1>1, Invariant, PTL

(* A running controller never loses track of a monitor that exists, along  *)
(* every path of Reconcile and through mapJobToMonitors, deletions and     *)
(* restarts, whatever the intervals are (as long as they are positive).    *)
THEOREM MonitorNeverForgotten == Spec => []NeverForgotten
<1>1. QInv => NeverForgotten
  BY DEF QInv
<1>. QED  BY <1>1, Invariant, PTL

(* The deferred metrics handler of a reconcile that races the deletion     *)
(* leaves no series behind that nothing will remove.                       *)
THEOREM SeriesOfDeletedGo == Spec => []SeriesGone
<1>1. QInv => SeriesGone
  BY DEF QInv
<1>. QED  BY <1>1, Invariant, PTL

(* A slot that does not fire is on record by the follow-up of the last     *)
(* reconcile before the end of its grace period, plus the operator's lag,  *)
(* for every period, grace and interval: the timers alone see to that.     *)
THEOREM MissNoticedInTime == Spec => []MissNoticed
<1>1. QInv /\ TInv => MissNoticed
  <2>. SUFFICES ASSUME QInv, TInv, lag < MaxLag, NEW s \in Slots,
                       store.present, store.created < s, store.latch < s,
                       cronjob.verdict = "ReconcileSuccess",
                       now > FollowUp(s + Grace - 1) + lag,
                       now > measurable + AfterError + lag,
                       s \notin store.missed
                PROVE  FALSE
    BY DEF MissNoticed
  <2>1. s \in Unrecorded(store)
    BY DEF Unrecorded
  <2>2. CASE store.verdict \notin Errors
    BY <2>1, <2>2, Instants DEF QInv, TInv, SlotsDue, DueBy
  <2>3. CASE store.verdict \in Errors
    BY <2>3, Instants DEF QInv, TInv, ErrorsDue, DueBy, Broken
  <2>. QED  BY <2>2, <2>3
<1>. QED  BY <1>1, Invariant, PTL
=============================================================================
