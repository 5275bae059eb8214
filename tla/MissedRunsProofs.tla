-------------------------- MODULE MissedRunsProofs --------------------------
(***************************************************************************)
(* MissedRuns implements BurnCounter: what a reconcile measures in this    *)
(* world is one of the outcomes and counts that BurnCounter leaves open,   *)
(* so everything proved of the write protocol holds here too.  And for one *)
(* replica the counter never counts a slot twice.                          *)
(***************************************************************************)
EXTENDS MissedRuns, BurnCounterProofs, NatLemmas

(* Nothing that exists, and nothing an informer has seen, is later than    *)
(* the clock.                                                              *)
Past ==
    /\ cronjob.witness <= now
    /\ \A j \in jobs : j.start <= now
    /\ \A r \in Replicas :
          /\ seenCronJob[r].witness <= now
          /\ \A j \in seenJobs[r] : j.start <= now
    /\ \A s \in charged : s <= now

(* What the actions of the world have to keep. *)
WorldInv ==
    /\ now \in 0..MaxTime
    /\ cronjob \in CronJob
    /\ jobs \subseteq Job
    /\ seenCronJob \in [Replicas -> CronJob]
    /\ seenJobs \in [Replicas -> SUBSET Job]
    /\ changes \in 0..MaxChanges
    /\ charged \subseteq Slots
    /\ Past

MInv == MTypeOK /\ Past

(* Times are numbers; the clock is one of the times and of the counts. *)
LEMMA ClockFacts ==
    /\ \A t \in Times : t \in Nat
    /\ \A t \in 0..MaxTime : t \in Times /\ t \in Counts /\ t \in Nat
    /\ \A s \in Slots : s \in Nat /\ s >= 1
    /\ Grace \in Nat /\ MaxTime \in Nat /\ MaxChanges \in Nat
    /\ "ReconcileSuccess" \in Outcomes
BY TimesAssumption, ClockAssumption, CountAssumption, SlotsAssumption,
   ChangesAssumption

(* A window of slots that have passed is finite and no larger than the     *)
(* clock.                                                                  *)
LEMMA WindowCount ==
    ASSUME NEW t \in Nat, NEW W, W \subseteq Slots, \A s \in W : s <= t
    PROVE  IsFiniteSet(W) /\ Cardinality(W) \in 0..t
<1>1. W \in SUBSET (1..t)
  BY ClockFacts
<1>2. IsFiniteSet(1..t) /\ Cardinality(1..t) = t
  BY FS_Interval
<1>3. IsFiniteSet(W) /\ Cardinality(W) <= t
  BY <1>1, <1>2, FS_Subset
<1>4. Cardinality(W) \in Nat
  BY <1>3, FS_CardinalityType
<1>. QED  BY <1>3, <1>4

(* updateLastObservedTimes returns a time that is neither before the latch *)
(* nor before the start of an owned Job.                                   *)
LEMMA LatchAdvances ==
    ASSUME NEW l \in Times, NEW owned, owned \subseteq Job,
           NEW t \in Nat, \A j \in owned : j.start <= t
    PROVE  /\ updateLastObservedTimes(l, owned) \in Times
           /\ updateLastObservedTimes(l, owned) >= l
           /\ \A j \in owned : updateLastObservedTimes(l, owned) >= j.start
           /\ updateLastObservedTimes(l, owned) <= t
              \/ updateLastObservedTimes(l, owned) = l
<1>. DEFINE T == {l} \cup {j.start : j \in owned}
<1>1. \A u \in T : u \in Times /\ u \in Nat
  BY ClockFacts DEF Job
<1>2. PICK b \in Nat : \A u \in T : u <= b
  <2>1. CASE l <= t
    BY <2>1, <1>1
  <2>2. CASE ~(l <= t)
    <3>0. l \in T
      OBVIOUS
    <3>1. l \in Nat
      BY <3>0, <1>1
    <3>2. ASSUME NEW j \in owned PROVE j.start \in Nat /\ j.start <= l
      <4>1. j.start \in T /\ j.start <= t
        OBVIOUS
      <4>2. j.start \in Nat
        BY <4>1, <1>1
      <4>. QED  BY <4>1, <4>2, <3>1, <2>2
    <3>. QED  BY <3>1, <3>2
  <2>. QED  BY <2>1, <2>2
<1>3. \E m \in T : \A u \in T : u <= m
  <2>1. T \subseteq Nat /\ T # {}
    BY <1>1
  <2>. HIDE DEF T
  <2>. QED  BY <2>1, <1>2, GreatestNat
<1>4. \E m \in T : m >= l /\ \A j \in owned : m >= j.start
  <2>1. PICK m \in T : \A u \in T : u <= m
    BY <1>3
  <2>2. m >= l
    BY <2>1, <1>1
  <2>3. \A j \in owned : m >= j.start
    BY <2>1, <1>1
  <2>. QED  BY <2>1, <2>2, <2>3
<1>5. /\ updateLastObservedTimes(l, owned) \in T
      /\ updateLastObservedTimes(l, owned) >= l
      /\ \A j \in owned : updateLastObservedTimes(l, owned) >= j.start
  BY <1>4, Zenon DEF updateLastObservedTimes
<1>. QED  BY <1>5, <1>1
-----------------------------------------------------------------------------
(* What a reconcile finds: an advanced latch and a count within bounds.    *)
LEMMA Measured ==
    ASSUME MInv, NEW r \in Replicas, NEW latch,
           latch = IF seenCronJob[r].verdict \in Latching
                   THEN updateLastObservedTimes(cjm[r].latch, listOwnedJobs(r))
                   ELSE cjm[r].latch
    PROVE  /\ latch \in Times
           /\ latch >= cjm[r].latch
           /\ MissedSlots(cjm[r], latch, seenCronJob[r]) \subseteq Slots
           /\ Cardinality(MissedSlots(cjm[r], latch, seenCronJob[r])) \in Counts
           /\ \A s \in MissedSlots(cjm[r], latch, seenCronJob[r]) : s <= now
<1>1. now \in Nat /\ now \in 0..MaxTime /\ cjm[r].latch \in Times
      /\ cjm[r].latch \in Nat
  BY ClockFacts DEF MInv, MTypeOK, TypeOK, Monitor
<1>2. /\ listOwnedJobs(r) \subseteq Job
      /\ \A j \in listOwnedJobs(r) : j.start <= now
  BY DEF MInv, MTypeOK, Past, listOwnedJobs
<1>3. latch \in Times /\ latch >= cjm[r].latch
  BY <1>1, <1>2, LatchAdvances
<1>4. MissedSlots(cjm[r], latch, seenCronJob[r]) \subseteq Slots
  BY DEF MissedSlots, MissedSince
<1>5. \A s \in MissedSlots(cjm[r], latch, seenCronJob[r]) : s <= now
  BY <1>1, ClockFacts DEF MissedSlots, MissedSince
<1>6. Cardinality(MissedSlots(cjm[r], latch, seenCronJob[r])) \in 0..now
  BY <1>1, <1>4, <1>5, WindowCount
<1>7. Cardinality(MissedSlots(cjm[r], latch, seenCronJob[r])) \in 0..MaxTime
  BY <1>1, <1>6, ClockFacts
<1>. QED  BY <1>3, <1>4, <1>5, <1>7, ClockFacts

(* A reconcile in this world is one that BurnCounter allows. *)
LEMMA ReconcileIsNext ==
    ASSUME MInv, NEW r \in Replicas, Reconcile(r)
    PROVE  /\ Next
           /\ charged' \subseteq Slots /\ \A s \in charged' : s <= now
           /\ UNCHANGED <<world, views>>
<1>. DEFINE cj == seenCronJob[r]
<1>1. PICK latch : latch = IF cj.verdict \in Latching
                   THEN updateLastObservedTimes(cjm[r].latch, listOwnedJobs(r))
                   ELSE cjm[r].latch
  OBVIOUS
<1>2. PICK missed : missed = MissedSlots(cjm[r], latch, cj)
  OBVIOUS
<1>3. /\ latch \in Times /\ missed \subseteq Slots /\ Cardinality(missed) \in Counts
      /\ \A s \in missed : s <= now
  BY <1>1, <1>2, Measured
<1>4. /\ IF cj.verdict = "ReconcileSuccess"
         THEN /\ Measure(r, Cardinality(missed), latch)
              /\ charged' = charged \cup missed
         ELSE /\ EarlyReturn(r, cj.verdict, latch)
              /\ UNCHANGED charged
      /\ UNCHANGED <<world, views>>
  BY <1>1, <1>2, Zenon DEF Reconcile
<1>5. /\ cj.verdict \in Outcomes /\ charged \subseteq Slots
      /\ \A s \in charged : s <= now
  BY DEF MInv, MTypeOK, CronJob, Past
<1>6. charged' \subseteq Slots /\ \A s \in charged' : s <= now
  BY <1>3, <1>4, <1>5
<1>7. CASE cj.verdict = "ReconcileSuccess"
  <2>1. Measure(r, Cardinality(missed), latch)
    BY <1>4, <1>7
  <2>. QED  BY <1>3, <1>4, <1>6, <2>1, Zenon DEF Next
<1>8. CASE cj.verdict # "ReconcileSuccess"
  <2>1. EarlyReturn(r, cj.verdict, latch)
    BY <1>4, <1>8
  <2>. QED  BY <1>3, <1>4, <1>5, <1>6, <2>1, Zenon DEF Next
<1>. QED  BY <1>7, <1>8

(* A step of the world does nothing to the protocol but edit the monitor.  *)
LEMMA WorldIsNext ==
    ASSUME World PROVE Next \/ UNCHANGED vars
<1>1. CASE EditMonitor
  BY <1>1 DEF EditMonitor, Next, Users
<1>2. CASE ~EditMonitor
  BY <1>2 DEF World, Tick, Fire, Stamp, CollectJob, ChangeCronJob, SyncCronJob,
     SyncJobs
<1>. QED  BY <1>1, <1>2

(* Every step of this world is one of the protocol's, or none. *)
LEMMA MStepIsStep ==
    ASSUME MInv, [MNext]_mvars PROVE [Next]_vars
<1>1. CASE Step(Protocol)
  BY <1>1 DEF Step, Next
<1>2. CASE \E r \in Replicas : Reconcile(r) /\ Tally
  BY <1>2, ReconcileIsNext
<1>3. CASE World /\ Tally
  BY <1>3, WorldIsNext
<1>4. CASE UNCHANGED mvars
  BY <1>4 DEF mvars
<1>. QED  BY <1>1, <1>2, <1>3, <1>4 DEF MNext

(* Only the answer to a durable write grants anything, and it grants at    *)
(* least what the write adds to the checkpoint.                            *)
LEMMA GrantCovers ==
    ASSUME TypeOK, [Next]_vars, NEW r \in Replicas, allowed'[r] > allowed[r]
    PROVE  Serve(r) /\ allowed'[r] - Pos(cjm[r].missed - ckpt) \in Nat
<1>1. allowed \in [Replicas -> Nat] /\ \A p \in Replicas : ~(0 > allowed[p])
  BY DEF TypeOK
<1>2. ASSUME NEW p \in Replicas, Return(p) PROVE FALSE
  <2>1. allowed' = [allowed EXCEPT ![p] = 0]
    BY <1>2 DEF Return
  <2>. QED  BY <1>1, <2>1
<1>3. ASSUME allowed' = allowed PROVE FALSE
  BY <1>1, <1>3
<1>4. ASSUME NEW p \in Replicas, Serve(p) PROVE p = r
  <2>1. \A q \in Replicas : q # p => allowed'[q] = allowed[q]
    BY <1>1, <1>4 DEF Serve
  <2>. QED  BY <1>1, <2>1
<1>5. Serve(r)
  BY <1>2, <1>3, <1>4 DEF Next, Protocol, Users, Get, GetNotFound, Abort, Refuse,
     Abandon, Commit, FinishEarly, Crash, Exit, Die, Elect, CacheSync, LoseLease,
     OrphanLands, OrphanLost, UserEdit, UserDelete, UserCreate, Measure,
     EarlyReturn, locals, vars
<1>6. cjm[r].missed \in Nat /\ ckpt \in Nat
  BY CountNat DEF TypeOK, Monitor
<1>7. allowed'[r] = IF cjm[r].reason = "ReconcileSuccess"
                    THEN Rise(cjm[r], r) ELSE 0
  BY <1>1, <1>5 DEF Serve
<1>8. allowed'[r] = Rise(cjm[r], r)
  BY <1>1, <1>7
<1>9. allowed'[r] - Pos(cjm[r].missed - ckpt) \in Nat
  BY <1>6, <1>8 DEF Rise, Pos
<1>. QED  BY <1>5, <1>9

(* The tallies only grow. *)
LEMMA TallyType ==
    ASSUME TypeOK, TypeOK', [Next]_vars, burned \in Nat, residual \in Nat, Tally
    PROVE  burned' \in Nat /\ residual' \in Nat
<1>1. burned' \in Nat
  <2>1. CASE \E r \in Replicas : counter'[r] > counter[r]
    <3>1. PICK r \in Replicas : /\ counter'[r] > counter[r]
                               /\ r = CHOOSE p \in Replicas : counter'[p] > counter[p]
      BY <2>1, Zenon
    <3>2. burned' = burned + (counter'[r] - counter[r])
      BY <2>1, <3>1 DEF Tally
    <3>3. counter[r] \in Nat /\ counter'[r] \in Nat
      BY <3>1 DEF TypeOK
    <3>. QED  BY <3>1, <3>2, <3>3
  <2>2. CASE ~\E r \in Replicas : counter'[r] > counter[r]
    BY <2>2 DEF Tally
  <2>. QED  BY <2>1, <2>2
<1>2. residual' \in Nat
  <2>1. CASE \E r \in Replicas : allowed'[r] > allowed[r]
    <3>1. PICK r \in Replicas : /\ allowed'[r] > allowed[r]
                               /\ r = CHOOSE p \in Replicas : allowed'[p] > allowed[p]
      BY <2>1, Zenon
    <3>2. residual' = residual + (allowed'[r] - Pos(cjm[r].missed - ckpt))
      BY <2>1, <3>1 DEF Tally
    <3>3. allowed'[r] - Pos(cjm[r].missed - ckpt) \in Nat
      BY <3>1, GrantCovers
    <3>. QED  BY <3>2, <3>3
  <2>2. CASE ~\E r \in Replicas : allowed'[r] > allowed[r]
    BY <2>2 DEF Tally
  <2>. QED  BY <2>1, <2>2
<1>. QED  BY <1>1, <1>2

-----------------------------------------------------------------------------
(* The initial world has its types. *)
LEMMA MInvInit == MInit => MInv
<1>. SUFFICES ASSUME MInit PROVE MInv
  OBVIOUS
<1>1. TypeOK
  BY TypeInit DEF MInit
<1>2. cronjob \in CronJob /\ cronjob.witness = 0
  BY ClockFacts, TimesAssumption DEF MInit, CronJob
<1>3. MTypeOK
  BY <1>1, <1>2, ClockFacts DEF MInit, MTypeOK
<1>4. Past
  BY <1>2 DEF MInit, Past
<1>. QED  BY <1>3, <1>4 DEF MInv

(* The world keeps its types and its past. *)
LEMMA MInvWorld == ASSUME MInv, World PROVE WorldInv'
<1>0. /\ now \in 0..MaxTime /\ now \in Nat /\ cronjob \in CronJob /\ jobs \subseteq Job
      /\ cronjob.uid \in Nat /\ now \in Times /\ MaxTime \in Nat
      /\ seenCronJob \in [Replicas -> CronJob]
      /\ seenJobs \in [Replicas -> SUBSET Job]
      /\ changes \in 0..MaxChanges /\ charged \subseteq Slots
      /\ MaxChanges \in Nat
  BY ClockFacts DEF MInv, MTypeOK, CronJob
<1>1. /\ cronjob.witness \in Nat
      /\ \A j \in Job : j.start \in Nat /\ j.start \in Times
      /\ \A c \in CronJob : c.witness \in Nat /\ c.witness \in Times
  BY <1>0, ClockFacts DEF CronJob, Job
<1>2. CASE Tick
  <2>1. /\ now' \in 0..MaxTime /\ now' = now + 1
        /\ UNCHANGED <<cronjob, jobs, seenCronJob, seenJobs, changes, charged>>
    BY <1>0, <1>2 DEF Tick, views
  <2>2. /\ cronjob.witness <= now'
        /\ \A j \in jobs : j.start <= now'
        /\ \A s \in charged : s <= now'
    BY <1>0, <1>1, <2>1, ClockFacts DEF MInv, Past
  <2>3. ASSUME NEW r \in Replicas
        PROVE  /\ seenCronJob[r].witness <= now'
               /\ \A j \in seenJobs[r] : j.start <= now'
    <3>1. seenCronJob[r] \in CronJob /\ seenJobs[r] \subseteq Job
      BY <1>0
    <3>. QED  BY <3>1, <1>0, <1>1, <2>1 DEF MInv, Past
  <2>. QED  BY <1>0, <2>1, <2>2, <2>3 DEF Past, WorldInv
<1>3. CASE Fire
  <2>1. /\ jobs' = jobs \cup {[owner |-> cronjob.uid, start |-> now]}
        /\ UNCHANGED <<now, cronjob, seenCronJob, seenJobs, changes, charged>>
    BY <1>3 DEF Fire, views
  <2>2. [owner |-> cronjob.uid, start |-> now] \in Job
    BY <1>0 DEF Job
  <2>. QED  BY <1>0, <2>1, <2>2 DEF MInv, Past, WorldInv
<1>4. CASE Stamp
  <2>1. PICK j \in jobs : cronjob' = [cronjob EXCEPT !.witness = j.start]
    BY <1>4 DEF Stamp
  <2>2. UNCHANGED <<now, jobs, seenCronJob, seenJobs, changes, charged>>
    BY <1>4 DEF Stamp, views
  <2>3. j.start \in Times /\ j.start <= now
    BY <1>0, <1>1, <2>1 DEF MInv, Past
  <2>4. cronjob' \in CronJob /\ cronjob'.witness = j.start
    BY <1>0, <2>1, <2>3 DEF CronJob
  <2>. QED  BY <1>0, <2>2, <2>3, <2>4 DEF MInv, Past, WorldInv
<1>5. CASE EditMonitor
  BY <1>0, <1>5 DEF EditMonitor, views, MInv, Past, WorldInv
<1>6. ASSUME NEW j \in jobs, CollectJob(j) PROVE WorldInv'
  BY <1>0, <1>6 DEF CollectJob, views, MInv, Past, WorldInv
<1>7. ASSUME NEW v \in Outcomes, ChangeCronJob(v) PROVE WorldInv'
  <2>1. /\ changes' \in 0..MaxChanges
        /\ UNCHANGED <<now, seenCronJob, seenJobs, charged>>
        /\ jobs' \subseteq jobs
    BY <1>0, <1>7 DEF ChangeCronJob, views
  <2>2. \/ cronjob' = [verdict |-> v, witness |-> 0, uid |-> cronjob.uid]
        \/ cronjob' = [verdict |-> v, witness |-> 0, uid |-> cronjob.uid + 1]
        \/ cronjob' = [cronjob EXCEPT !.verdict = v]
    BY <1>7 DEF ChangeCronJob
  <2>3. cronjob' \in CronJob /\ cronjob'.witness <= now
    BY <1>0, <1>1, <2>2, TimesAssumption DEF CronJob, MInv, Past
  <2>. QED  BY <1>0, <2>1, <2>3 DEF MInv, Past, WorldInv
<1>8. ASSUME NEW r \in Replicas, SyncCronJob(r) PROVE WorldInv'
  <2>1. /\ seenCronJob' = [seenCronJob EXCEPT ![r] = cronjob]
        /\ UNCHANGED <<now, cronjob, jobs, changes, seenJobs, charged>>
    BY <1>8 DEF SyncCronJob, world
  <2>2. \A p \in Replicas : seenCronJob'[p].witness <= now
    BY <1>0, <2>1 DEF MInv, Past
  <2>. QED  BY <1>0, <2>1, <2>2 DEF MInv, Past, WorldInv
<1>9. ASSUME NEW r \in Replicas, SyncJobs(r) PROVE WorldInv'
  <2>1. /\ seenJobs' = [seenJobs EXCEPT ![r] = jobs]
        /\ UNCHANGED <<now, cronjob, jobs, changes, seenCronJob, charged>>
    BY <1>9 DEF SyncJobs, world
  <2>2. \A p \in Replicas : \A j \in seenJobs'[p] : j.start <= now
    BY <1>0, <2>1 DEF MInv, Past
  <2>. QED  BY <1>0, <2>1, <2>2 DEF MInv, Past, WorldInv
<1>. QED
  BY <1>2, <1>3, <1>4, <1>5, <1>6, <1>7, <1>8, <1>9 DEF World

(* Types and past are inductive. *)
LEMMA MInvNext == MInv /\ [MNext]_mvars => MInv'
<1>. SUFFICES ASSUME MInv, [MNext]_mvars PROVE MInv'
  OBVIOUS
<1>1. TypeOK /\ [Next]_vars /\ burned \in Nat /\ residual \in Nat /\ WorldInv
  BY MStepIsStep DEF MInv, MTypeOK, WorldInv
<1>2. TypeOK'
  BY <1>1, TypeNext
<1>3. WorldInv'
  <2>1. CASE Step(Protocol)
    BY <1>1, <2>1 DEF Step, world, views, WorldInv, Past
  <2>2. ASSUME NEW r \in Replicas, Reconcile(r) PROVE WorldInv'
    <3>1. /\ charged' \subseteq Slots /\ \A s \in charged' : s <= now
          /\ UNCHANGED <<world, views>>
      BY <2>2, ReconcileIsNext
    <3>. QED  BY <1>1, <3>1 DEF world, views, WorldInv, Past
  <2>3. CASE World /\ Tally
    BY <2>3, MInvWorld
  <2>4. CASE UNCHANGED mvars
    BY <1>1, <2>4 DEF mvars, world, views, WorldInv, Past
  <2>. QED  BY <2>1, <2>2, <2>3, <2>4 DEF MNext
<1>4. burned' \in Nat /\ residual' \in Nat
  <2>1. CASE MNext
    <3>1. Tally
      BY <2>1 DEF MNext, Step
    <3>. QED  BY <1>1, <1>2, <3>1, TallyType
  <2>2. CASE UNCHANGED mvars
    BY <1>1, <2>2 DEF mvars
  <2>. QED  BY <2>1, <2>2
<1>. QED  BY <1>2, <1>3, <1>4 DEF MInv, MTypeOK, WorldInv

(* The inductive invariant holds of every behaviour. *)
LEMMA MInvAlways == MSpec => []MInv
BY MInvInit, MInvNext, PTL DEF MSpec

(* Clock, CronJob, Jobs, informers and tallies keep their types. *)
THEOREM MTypeCorrect == MSpec => []MTypeOK
<1>1. MInv => MTypeOK
  BY DEF MInv
<1>. QED  BY <1>1, MInvAlways, PTL

(* MissedRuns is a refinement of BurnCounter: what the happy path counts   *)
(* from slots, Jobs, latch and witness is always a measurement that the    *)
(* write protocol was proved for.                                          *)
THEOREM MeasuringImplementsProtocol == MSpec => Spec
<1>1. MInit => Init
  BY DEF MInit
<1>2. MInv /\ [MNext]_mvars => [Next]_vars
  BY MStepIsStep
<1>. QED  BY <1>1, <1>2, MInvAlways, PTL DEF MSpec, Spec

(* So the measuring operator implements the ledger: each rise of the count *)
(* that the Jobs and slots produce is counted at most once, by the process *)
(* whose write was answered, and none of its increments is a phantom.      *)
THEOREM MeasuringImplementsLedger == MSpec => LedgerSpec /\ NoPhantomBurn
BY MeasuringImplementsProtocol, ImplementsLedger, BurnCounterSound, PTL
-----------------------------------------------------------------------------
(* No slot is counted twice by one replica.  The argument: the slots a     *)
(* happy path measures are a window (floor, now - grace] of the schedule,  *)
(* and the windows of the updates that land only move forward.  What was   *)
(* counted is then covered by the measured slots below the floor of the    *)
(* last checkpoint and those of the checkpoint itself.                     *)

(* The floor never goes back: spec.timeZone stays set, so that the witness *)
(* is never used; or it stays unset and the CronJob, with its witness, is  *)
(* not replaced.                                                           *)
FloorsAdvance ==
    \/ Specs = {"pinned"}
    \/ "pinned" \notin Specs /\ "CronJobNotFound" \notin Outcomes

Window(f, u) == {s \in Slots : f < s /\ s <= u}
Below(C, f) == {s \in C : s <= f}

(* A floor that a later measurement cannot fall below. *)
Reached(f, latch, r) ==
    f <= latch \/ ("pinned" \notin Specs /\ f <= seenCronJob[r].witness)

InFlight(r) == orphans \cup {q \in {cjm[r]} : pc[r] = "sent"}

(* The count of request q is that of a window not behind (f, u]. *)
Measures(q, f, u, r) ==
    \E g \in Nat, v \in Int :
        /\ f <= g /\ u <= v /\ v <= now - Grace
        /\ Reached(g, q.latch, r)
        /\ q.missed = Cardinality(Window(g, v))
        /\ Window(g, v) \subseteq charged

(* The checkpoint is the count of the window (f, u], every update that can *)
(* still land is of a later one, and what was counted or granted is        *)
(* covered.                                                                *)
Balanced(f, u, r) ==
    /\ u <= now - Grace
    /\ Reached(f, store.latch, r)
    /\ ckpt = Cardinality(Window(f, u))
    /\ Window(f, u) \subseteq charged
    /\ burned + allowed[r] <= Cardinality(Below(charged, f)) + ckpt + residual
    /\ \A q \in InFlight(r) :
          q.rv = store.rv /\ q.reason = "ReconcileSuccess" => Measures(q, f, u, r)

OnceInv(r) ==
    /\ pc[r] # "ok" => allowed[r] = 0
    /\ store.reason = "ReconcileSuccess" => store.missed = ckpt
    /\ "CronJobNotFound" \notin Outcomes
          => seenCronJob[r].witness <= cronjob.witness
    /\ \E f \in Nat, u \in Int : Balanced(f, u, r)

(* Sets of passed slots are finite and count as they should.               *)
LEMMA WindowSums ==
    ASSUME NEW C, C \subseteq Slots, NEW t \in Nat, \A s \in C : s <= t,
           NEW f \in Nat, NEW u \in Int, Window(f, u) \subseteq C
    PROVE  /\ Cardinality(C) \in Nat
           /\ Cardinality(Below(C, f)) \in Nat
           /\ Cardinality(Window(f, u)) \in Nat
           /\ Cardinality(Below(C, f)) + Cardinality(Window(f, u))
                = Cardinality(Below(C, f) \cup Window(f, u))
           /\ Cardinality(Below(C, f) \cup Window(f, u)) <= Cardinality(C)
<1>1. IsFiniteSet(C) /\ Cardinality(C) \in Nat
  BY WindowCount
<1>2. Below(C, f) \in SUBSET C /\ Window(f, u) \in SUBSET C
      /\ (Below(C, f) \cup Window(f, u)) \in SUBSET C
  BY DEF Below
<1>3. /\ IsFiniteSet(Below(C, f)) /\ Cardinality(Below(C, f)) \in Nat
      /\ IsFiniteSet(Window(f, u)) /\ Cardinality(Window(f, u)) \in Nat
  BY <1>1, <1>2, FS_Subset, FS_CardinalityType
<1>4. Below(C, f) \cap Window(f, u) = {}
  BY ClockFacts DEF Below, Window
<1>5. Cardinality(Below(C, f) \cap Window(f, u)) = 0
  BY <1>4, FS_EmptySet
<1>6. Cardinality(Below(C, f) \cup Window(f, u)) <= Cardinality(C)
  BY <1>1, <1>2, FS_Subset
<1>7. Cardinality(Below(C, f) \cup Window(f, u))
        = Cardinality(Below(C, f)) + Cardinality(Window(f, u)) - 0
  BY <1>3, <1>5, FS_Union
<1>. QED  BY <1>1, <1>3, <1>6, <1>7

(* A window that moved forward covers, with what is below it, no less.     *)
LEMMA WindowShift ==
    ASSUME NEW C, C \subseteq Slots, NEW t \in Nat, \A s \in C : s <= t,
           NEW f \in Nat, NEW u \in Int, Window(f, u) \subseteq C,
           NEW g \in Nat, NEW v \in Int, Window(g, v) \subseteq C,
           f <= g, u <= v
    PROVE  /\ Cardinality(Below(C, f)) <= Cardinality(Below(C, g))
           /\ Cardinality(Below(C, f)) + Cardinality(Window(f, u))
                <= Cardinality(Below(C, g)) + Cardinality(Window(g, v))
<1>0. \A s \in C : s \in Nat
  BY ClockFacts
<1>1. Below(C, f) \in SUBSET Below(C, g)
  BY <1>0 DEF Below
<1>2. Below(C, f) \cup Window(f, u) \in SUBSET (Below(C, g) \cup Window(g, v))
  <2>1. ASSUME NEW s \in Window(f, u) PROVE s \in Below(C, g) \cup Window(g, v)
    <3>1. s \in C /\ s \in Slots /\ s \in Nat /\ s <= u
      BY <1>0 DEF Window
    <3>2. s <= g \/ (g < s /\ s <= v)
      BY <3>1
    <3>. QED  BY <3>1, <3>2 DEF Below, Window
  <2>. QED  BY <1>1, <2>1
<1>3. /\ Below(C, g) \in SUBSET C
      /\ (Below(C, g) \cup Window(g, v)) \in SUBSET C
  BY DEF Below
<1>4. IsFiniteSet(Below(C, g)) /\ IsFiniteSet(Below(C, g) \cup Window(g, v))
  BY <1>3, WindowCount, FS_Subset
<1>5. Cardinality(Below(C, f)) <= Cardinality(Below(C, g))
  BY <1>1, <1>4, FS_Subset
<1>6. Cardinality(Below(C, f) \cup Window(f, u))
        <= Cardinality(Below(C, g) \cup Window(g, v))
  BY <1>2, <1>4, FS_Subset
<1>7. /\ Cardinality(Below(C, f)) + Cardinality(Window(f, u))
            = Cardinality(Below(C, f) \cup Window(f, u))
      /\ Cardinality(Below(C, g)) + Cardinality(Window(g, v))
            = Cardinality(Below(C, g) \cup Window(g, v))
  BY WindowSums
<1>. QED  BY <1>5, <1>6, <1>7

(* The measured slots below a floor become more, never fewer. *)
LEMMA BelowGrows ==
    ASSUME NEW C, NEW D, C \subseteq D, D \subseteq Slots,
           NEW t \in Nat, \A s \in D : s <= t, NEW f \in Nat
    PROVE  /\ Cardinality(Below(C, f)) \in Nat
           /\ Cardinality(Below(D, f)) \in Nat
           /\ Cardinality(Below(C, f)) <= Cardinality(Below(D, f))
<1>1. Below(C, f) \in SUBSET Below(D, f) /\ Below(D, f) \in SUBSET D
  BY DEF Below
<1>2. IsFiniteSet(Below(D, f))
  BY <1>1, WindowCount, FS_Subset
<1>. QED  BY <1>1, <1>2, FS_Subset, FS_CardinalityType
(* The numbers of a typed state. *)
OnceNumbers(r) ==
    /\ now \in Nat /\ store.latch \in Nat /\ store.rv \in Nat
    /\ ckpt \in Nat /\ burned \in Nat /\ residual \in Nat
    /\ allowed[r] \in Nat /\ counter[r] \in Nat
    /\ seenCronJob[r].witness \in Nat /\ cronjob.witness \in Nat
    /\ cjm[r].rv \in Nat /\ cjm[r].missed \in Nat /\ cjm[r].latch \in Nat
    /\ charged \subseteq Slots /\ \A s \in charged : s <= now

(* A typed state has them. *)
LEMMA OnceNumbered == ASSUME MInv, NEW r \in Replicas PROVE OnceNumbers(r)
<1>1. /\ store \in Monitor /\ cjm[r] \in Monitor /\ ckpt \in Counts
      /\ allowed[r] \in Nat /\ counter[r] \in Nat
      /\ now \in 0..MaxTime /\ burned \in Nat /\ residual \in Nat
      /\ seenCronJob[r] \in CronJob /\ cronjob \in CronJob
      /\ charged \subseteq Slots /\ \A s \in charged : s <= now
  BY DEF MInv, MTypeOK, TypeOK, Past
<1>2. \A c \in CronJob : c.witness \in Nat
  BY ClockFacts DEF CronJob
<1>. QED  BY <1>1, <1>2, MonitorFields, CountNat, ClockFacts DEF OnceNumbers

(* The same in the state after a step. *)
LEMMA OnceNumberedNext ==
    ASSUME MInv', NEW r \in Replicas PROVE OnceNumbers(r)'
BY OnceNumbered, PTL

(* A request that measured a window still does when the clock, the         *)
(* informer's CronJob and the set of measured slots moved on.              *)
LEMMA MeasuresStays ==
    ASSUME MInv, MInv', NEW r \in Replicas, NEW q \in Monitor,
           NEW f \in Nat, NEW u \in Int, Measures(q, f, u, r),
           now <= now', charged \subseteq charged',
           "pinned" \notin Specs
              => seenCronJob[r].witness <= seenCronJob'[r].witness
    PROVE  Measures(q, f, u, r)'
<1>1. OnceNumbers(r) /\ OnceNumbers(r)' /\ Grace \in Nat /\ q.latch \in Nat
  BY OnceNumbered, OnceNumberedNext, ClockFacts, MonitorFields
<1>2. PICK g \in Nat, v \in Int :
          /\ f <= g /\ u <= v /\ v <= now - Grace
          /\ Reached(g, q.latch, r)
          /\ q.missed = Cardinality(Window(g, v))
          /\ Window(g, v) \subseteq charged
  BY DEF Measures
<1>3. v <= now' - Grace /\ Window(g, v) \subseteq charged'
  <2>1. now \in Nat /\ now' \in Nat
    BY <1>1 DEF OnceNumbers
  <2>2. v <= now' - Grace
    BY <1>1, <1>2, <2>1
  <2>. QED  BY <1>2, <2>2
<1>4. g <= q.latch \/ ("pinned" \notin Specs /\ g <= seenCronJob'[r].witness)
  BY <1>1, <1>2 DEF OnceNumbers, Reached
<1>. QED  BY <1>2, <1>3, <1>4 DEF Measures, Reached, Window

(* A step that lands no happy-path update keeps the balance. *)
LEMMA Carry ==
    ASSUME MInv, MInv', NEW r \in Replicas, NEW f \in Nat, NEW u \in Int,
           Balanced(f, u, r),
           now <= now', charged \subseteq charged', ckpt' = ckpt,
           "pinned" \notin Specs
              => seenCronJob[r].witness <= seenCronJob'[r].witness,
           store.latch <= store'.latch,
           burned' + allowed'[r] + residual <= burned + allowed[r] + residual',
           \A q \in InFlight(r)' :
              q.rv = store'.rv /\ q.reason = "ReconcileSuccess"
                 => \/ q \in InFlight(r) /\ q.rv = store.rv
                    \/ Measures(q, f, u, r)'
    PROVE  Balanced(f, u, r)'
<1>1. OnceNumbers(r) /\ OnceNumbers(r)' /\ Grace \in Nat
  BY OnceNumbered, OnceNumberedNext, ClockFacts
<1>2. u <= now' - Grace /\ Window(f, u) \subseteq charged'
  BY <1>1 DEF OnceNumbers, Balanced
<1>3. f <= store'.latch \/ ("pinned" \notin Specs /\ f <= seenCronJob'[r].witness)
  BY <1>1 DEF OnceNumbers, Balanced, Reached
<1>4. /\ Cardinality(Below(charged, f)) \in Nat
      /\ Cardinality(Below(charged', f)) \in Nat
      /\ Cardinality(Below(charged, f)) <= Cardinality(Below(charged', f))
  BY <1>1, BelowGrows DEF OnceNumbers
<1>5. burned' + allowed'[r] <= Cardinality(Below(charged', f)) + ckpt' + residual'
  BY <1>1, <1>4 DEF OnceNumbers, Balanced
<1>6. InFlight(r) \subseteq Monitor
  BY DEF InFlight, MInv, MTypeOK, TypeOK
<1>7. ASSUME NEW q \in InFlight(r)', q.rv = store'.rv,
             q.reason = "ReconcileSuccess"
      PROVE  Measures(q, f, u, r)'
  <2>1. CASE q \in InFlight(r) /\ q.rv = store.rv
    <3>1. Measures(q, f, u, r) /\ q \in Monitor
      BY <1>6, <1>7, <2>1 DEF Balanced
    <3>. QED  BY <3>1, MeasuresStays
  <2>. QED  BY <1>7, <2>1
<1>8. ckpt' = Cardinality(Window(f, u))
  BY DEF Balanced
<1>. QED  BY <1>2, <1>3, <1>5, <1>7, <1>8 DEF Balanced, Reached, Window, Below

(* The happy-path update q lands under a new version: its window becomes   *)
(* that of the checkpoint.                                                 *)
LEMMA Landed ==
    ASSUME MInv, MInv', NEW r \in Replicas, NEW f \in Nat, NEW u \in Int,
           Balanced(f, u, r), NEW q \in Monitor, Measures(q, f, u, r),
           UNCHANGED <<now, charged, burned, seenCronJob>>,
           ckpt' = q.missed, store'.latch = q.latch,
           allowed'[r] + residual <= allowed[r] + residual' + Pos(q.missed - ckpt),
           \A p \in InFlight(r)' : p.rv # store'.rv
    PROVE  \E g \in Nat, v \in Int : Balanced(g, v, r)'
<1>1. OnceNumbers(r) /\ OnceNumbers(r)' /\ Grace \in Nat /\ q.missed \in Nat
  BY OnceNumbered, OnceNumberedNext, ClockFacts, MonitorFields
<1>2. PICK g \in Nat, v \in Int :
          /\ f <= g /\ u <= v /\ v <= now - Grace
          /\ Reached(g, q.latch, r)
          /\ q.missed = Cardinality(Window(g, v))
          /\ Window(g, v) \subseteq charged
  BY DEF Measures
<1>3. /\ Cardinality(Below(charged, f)) \in Nat
      /\ Cardinality(Below(charged, g)) \in Nat
      /\ Cardinality(Below(charged, f)) <= Cardinality(Below(charged, g))
      /\ Cardinality(Below(charged, f)) + ckpt
            <= Cardinality(Below(charged, g)) + q.missed
  <2>1. /\ charged \subseteq Slots /\ now \in Nat /\ \A s \in charged : s <= now
        /\ Window(f, u) \subseteq charged /\ ckpt = Cardinality(Window(f, u))
    BY <1>1 DEF OnceNumbers, Balanced
  <2>2. /\ Cardinality(Below(charged, f)) \in Nat
        /\ Cardinality(Below(charged, g)) \in Nat
    BY <1>2, <2>1, WindowSums
  <2>. QED  BY <1>2, <2>1, <2>2, WindowShift
<1>4. burned + allowed'[r] <= Cardinality(Below(charged, g)) + q.missed + residual'
  <2>1. burned + allowed[r] <= Cardinality(Below(charged, f)) + ckpt + residual
    BY DEF Balanced
  <2>2. Pos(q.missed - ckpt) = IF q.missed > ckpt THEN q.missed - ckpt ELSE 0
    BY <1>1 DEF Pos, OnceNumbers
  <2>. QED  BY <1>1, <1>3, <2>1, <2>2 DEF OnceNumbers
<1>5. Balanced(g, v, r)'
  BY <1>2, <1>4 DEF Balanced, Reached, Window, Below
<1>. QED  BY <1>5
(* With one replica the tallies follow its counter and its grants. *)
LEMMA Tallied ==
    ASSUME NEW r, Replicas = {r}, Tally
    PROVE  /\ burned' = burned + IF counter'[r] > counter[r]
                                 THEN counter'[r] - counter[r] ELSE 0
           /\ residual' = residual + IF allowed'[r] > allowed[r]
                                     THEN allowed'[r] - Pos(cjm[r].missed - ckpt)
                                     ELSE 0
<1>1. \A p \in Replicas : p = r
  OBVIOUS
<1>2. burned' = burned + IF counter'[r] > counter[r]
                         THEN counter'[r] - counter[r] ELSE 0
  <2>1. CASE counter'[r] > counter[r]
    <3>1. /\ \E p \in Replicas : counter'[p] > counter[p]
          /\ (CHOOSE p \in Replicas : counter'[p] > counter[p]) = r
      BY <1>1, <2>1, Zenon
    <3>. QED  BY <2>1, <3>1 DEF Tally
  <2>2. CASE ~(counter'[r] > counter[r])
    <3>1. ~\E p \in Replicas : counter'[p] > counter[p]
      BY <1>1, <2>2
    <3>. QED  BY <2>2, <3>1 DEF Tally
  <2>. QED  BY <2>1, <2>2
<1>3. residual' = residual + IF allowed'[r] > allowed[r]
                             THEN allowed'[r] - Pos(cjm[r].missed - ckpt)
                             ELSE 0
  <2>1. CASE allowed'[r] > allowed[r]
    <3>1. /\ \E p \in Replicas : allowed'[p] > allowed[p]
          /\ (CHOOSE p \in Replicas : allowed'[p] > allowed[p]) = r
      BY <1>1, <2>1, Zenon
    <3>. QED  BY <2>1, <3>1 DEF Tally
  <2>2. CASE ~(allowed'[r] > allowed[r])
    <3>1. ~\E p \in Replicas : allowed'[p] > allowed[p]
      BY <1>1, <2>2
    <3>. QED  BY <2>2, <3>1 DEF Tally
  <2>. QED  BY <2>1, <2>2
<1>. QED  BY <1>2, <1>3

(* Only a commit counts, and no more than was granted. *)
LEMMA CommitSpends ==
    ASSUME IInv, [Next]_vars, NEW r \in Replicas, counter'[r] > counter[r]
    PROVE  /\ pc[r] = "ok"
           /\ counter'[r] - counter[r] <= allowed[r]
           /\ allowed'[r] = 0
<1>1. /\ counter \in [Replicas -> Nat] /\ allowed \in [Replicas -> Nat]
      /\ \A p \in Replicas : ~(0 > counter[p])
  BY DEF IInv, TypeOK
<1>2. ASSUME NEW p \in Replicas, counter' = [counter EXCEPT ![p] = 0] PROVE FALSE
  BY <1>1, <1>2
<1>3. ASSUME counter' = counter PROVE FALSE
  BY <1>1, <1>3
<1>4. ASSUME NEW p \in Replicas, Commit(p) PROVE p = r
  <2>1. \A q \in Replicas : q # p => counter'[q] = counter[q]
    BY <1>1, <1>4 DEF Commit, commitMissed
  <2>. QED  BY <1>1, <2>1
<1>5. Commit(r)
  BY <1>2, <1>3, <1>4 DEF Next, Protocol, Users, Get, GetNotFound, Abort, Serve,
     Refuse, Abandon, FinishEarly, Crash, Exit, Die, Elect, CacheSync, LoseLease,
     OrphanLands, OrphanLost, UserEdit, UserDelete, UserCreate, Measure,
     EarlyReturn, memory, vars
<1>6. /\ pc[r] = "ok" /\ cjm[r].reason = "ReconcileSuccess"
      /\ counter' = [counter EXCEPT ![r] = @ + Pos(cjm[r].missed - prev[r])]
      /\ allowed' = [allowed EXCEPT ![r] = 0]
  BY <1>5 DEF Commit, commitMissed, Return
<1>7. /\ Pos(cjm[r].missed - prev[r]) <= allowed[r]
      /\ Pos(cjm[r].missed - prev[r]) \in Nat
  <2>1. cjm[r].missed \in Counts /\ prev[r] \in Counts
    BY DEF IInv, TypeOK, Monitor
  <2>. QED  BY <1>6, <2>1, CountDiff, PosType DEF IInv, CommitCovered
<1>8. counter'[r] = counter[r] + Pos(cjm[r].missed - prev[r]) /\ counter[r] \in Nat
  BY <1>1, <1>6
<1>. QED  BY <1>1, <1>6, <1>7, <1>8

(* A step that is not the answer to a write adds nothing to what was       *)
(* counted or granted.                                                     *)
LEMMA NothingGranted ==
    ASSUME IInv, MInv, MInv', NEW r, Replicas = {r}, [Next]_vars, Tally,
           ~(pc[r] = "sent" /\ pc'[r] = "ok")
    PROVE  burned' + allowed'[r] + residual <= burned + allowed[r] + residual'
<1>1. r \in Replicas /\ OnceNumbers(r) /\ OnceNumbers(r)'
  BY OnceNumbered, OnceNumberedNext
<1>2. ~Serve(r)
  BY <1>1 DEF Serve, IInv, TypeOK
<1>3. ~(allowed'[r] > allowed[r])
  BY <1>1, <1>2, GrantCovers DEF IInv
<1>4. residual' = residual
  BY <1>1, <1>3, Tallied DEF OnceNumbers
<1>5. CASE counter'[r] > counter[r]
  <2>1. burned' = burned + (counter'[r] - counter[r])
    BY <1>5, Tallied
  <2>2. counter'[r] - counter[r] <= allowed[r] /\ allowed'[r] = 0
    BY <1>1, <1>5, CommitSpends
  <2>. QED  BY <1>1, <1>4, <2>1, <2>2 DEF OnceNumbers
<1>6. CASE ~(counter'[r] > counter[r])
  <2>1. burned' = burned
    BY <1>1, <1>6, Tallied DEF OnceNumbers
  <2>. QED  BY <1>1, <1>3, <1>4, <2>1 DEF OnceNumbers
<1>. QED  BY <1>5, <1>6

(* A step that lands nothing and sends nothing keeps the balance. *)
LEMMA OnceQuiet ==
    ASSUME IInv, MInv, MInv', NEW r, Replicas = {r}, [Next]_vars, Tally,
           OnceInv(r), UNCHANGED <<world, views, charged, store, ckpt>>,
           ~(pc[r] = "sent" /\ pc'[r] = "ok"),
           pc'[r] # "ok" => allowed'[r] = 0,
           InFlight(r)' \subseteq InFlight(r)
    PROVE  OnceInv(r)'
<1>1. r \in Replicas /\ OnceNumbers(r)
  BY OnceNumbered
<1>2. PICK f \in Nat, u \in Int : Balanced(f, u, r)
  BY DEF OnceInv
<1>3. Balanced(f, u, r)'
  <2>1. burned' + allowed'[r] + residual <= burned + allowed[r] + residual'
    BY NothingGranted
  <2>2. /\ now <= now' /\ charged \subseteq charged' /\ ckpt' = ckpt
        /\ seenCronJob[r].witness <= seenCronJob'[r].witness
        /\ store.latch <= store'.latch /\ store' = store
    BY <1>1 DEF world, views, OnceNumbers
  <2>. QED  BY <1>1, <1>2, <2>1, <2>2, Carry
<1>. QED  BY <1>2, <1>3 DEF OnceInv, world, views

(* The steps of a process that land nothing, and what happens to caches,   *)
(* leases and lost requests.                                               *)
LEMMA OnceProcess ==
    ASSUME IInv, MInv, MInv', NEW r, Replicas = {r}, [Next]_vars, Tally,
           OnceInv(r), UNCHANGED <<world, views, charged>>,
           \/ Get(r) \/ GetNotFound(r) \/ Abort(r) \/ Refuse(r) \/ Abandon(r)
           \/ Commit(r) \/ FinishEarly(r) \/ Crash(r) \/ Exit(r) \/ Elect(r)
           \/ CacheSync(r) \/ LoseLease
           \/ \E q \in orphans : OrphanLost(q)
    PROVE  OnceInv(r)'
<1>1. /\ r \in Replicas /\ pc \in [Replicas -> {"idle", "read", "sent", "ok"}]
      /\ allowed \in [Replicas -> Nat]
  BY DEF IInv, TypeOK
<1>2. CASE Get(r)
  <2>1. UNCHANGED <<store, ckpt, allowed, orphans>> /\ pc[r] = "idle" /\ pc'[r] = "read"
    BY <1>1, <1>2 DEF Get, api
  <2>2. InFlight(r)' \subseteq InFlight(r)
    BY <2>1 DEF InFlight
  <2>. QED  BY <2>1, <2>2, OnceQuiet DEF OnceInv
<1>3. ASSUME Return(r), UNCHANGED <<store, ckpt>>,
             orphans' \subseteq orphans \cup {q \in {cjm[r]} : pc[r] = "sent"}
      PROVE  OnceInv(r)'
  <2>1. pc'[r] = "idle" /\ allowed'[r] = 0
    BY <1>1, <1>3 DEF Return
  <2>2. InFlight(r)' \subseteq InFlight(r)
    BY <1>3, <2>1 DEF InFlight
  <2>. QED  BY <1>3, <2>1, <2>2, OnceQuiet
<1>4. ASSUME UNCHANGED <<store, ckpt, locals>>, orphans' \subseteq orphans
      PROVE  OnceInv(r)'
  <2>1. UNCHANGED <<pc, cjm, allowed>>
    BY <1>4 DEF locals
  <2>2. InFlight(r)' \subseteq InFlight(r)
    BY <1>4, <2>1 DEF InFlight
  <2>. QED  BY <1>4, <2>1, <2>2, OnceQuiet DEF OnceInv
<1>5. CASE Abort(r) \/ Refuse(r) \/ Commit(r) \/ FinishEarly(r)
  <2>1. Return(r) /\ UNCHANGED <<store, ckpt, orphans>>
    BY <1>5 DEF Abort, Refuse, Commit, FinishEarly, api
  <2>. QED  BY <2>1, <1>3
<1>6. CASE Abandon(r) \/ Crash(r) \/ Exit(r)
  <2>1. /\ Return(r) /\ UNCHANGED <<store, ckpt>>
        /\ orphans' \subseteq orphans \cup {q \in {cjm[r]} : pc[r] = "sent"}
    BY <1>6 DEF Abandon, Crash, Exit, Die, api
  <2>. QED  BY <2>1, <1>3
<1>7. CASE GetNotFound(r) \/ Elect(r) \/ CacheSync(r) \/ LoseLease
  <2>1. UNCHANGED <<store, ckpt, locals, orphans>>
    BY <1>7 DEF GetNotFound, Elect, CacheSync, LoseLease, api
  <2>. QED  BY <2>1, <1>4
<1>8. ASSUME NEW q \in orphans, OrphanLost(q) PROVE OnceInv(r)'
  <2>1. UNCHANGED <<store, ckpt, locals>> /\ orphans' \subseteq orphans
    BY <1>8 DEF OrphanLost, api
  <2>. QED  BY <2>1, <1>4
<1>. QED  BY <1>2, <1>5, <1>6, <1>7, <1>8
(* A request in flight is not newer than the store; one with the store's   *)
(* version was computed from its content.                                  *)
LEMMA InFlightFacts ==
    ASSUME IInv, NEW r \in Replicas, NEW q \in InFlight(r)
    PROVE  /\ q \in Monitor
           /\ q.rv \in Nat /\ store.rv \in Nat /\ q.rv <= store.rv
           /\ q.rv = store.rv => q.latch >= store.latch
<1>1. Numbers
  BY TypeNumbers DEF IInv
<1>2. CASE q \in orphans
  BY <1>1, <1>2 DEF IInv, TypeOK, VersionsOrdered, VersionNamesContent, UpdateOf,
     Numbers
<1>3. CASE q = cjm[r] /\ pc[r] = "sent"
  <2>1. cjm[r].rv <= cached[r].rv /\ cached[r].rv <= store.rv /\ cjm[r] \in Monitor
    BY <1>3 DEF IInv, VersionsOrdered, TypeOK
  <2>2. q.rv <= store.rv
    BY <1>1, <1>3, <2>1 DEF Numbers
  <2>3. q.rv = store.rv => q.latch >= store.latch
    BY <1>3 DEF IInv, VersionNamesContent, UpdateOf
  <2>. QED  BY <1>1, <1>3, <2>1, <2>2, <2>3 DEF Numbers
<1>. QED  BY <1>2, <1>3 DEF InFlight

(* An update lands, and what that grants is what it adds to the            *)
(* checkpoint.                                                             *)
LEMMA OnceLand ==
    ASSUME IInv, MInv, MInv', NEW r, Replicas = {r}, OnceInv(r),
           UNCHANGED <<world, views, charged, burned>>,
           NEW q \in InFlight(r), NEW by, Land(q, by),
           InFlight(r)' \subseteq InFlight(r),
           pc'[r] # "ok" => allowed'[r] = 0,
           allowed'[r] + residual <= allowed[r] + residual'
              + IF q.reason = "ReconcileSuccess" THEN Pos(q.missed - ckpt) ELSE 0
    PROVE  OnceInv(r)'
<1>1. r \in Replicas /\ OnceNumbers(r) /\ OnceNumbers(r)' /\ TypeOK
      /\ q \in Monitor /\ q.missed \in Nat /\ q.latch \in Nat
  BY OnceNumbered, OnceNumberedNext, InFlightFacts, MonitorFields DEF IInv
<1>2. PICK f \in Nat, u \in Int : Balanced(f, u, r)
  BY DEF OnceInv
<1>3. UNCHANGED <<now, seenCronJob, cronjob, charged, burned>>
  BY DEF world, views
<1>4. /\ q.rv = store.rv
      /\ \/ store' = store /\ q = store
         \/ store'.rv = store.rv + 1 /\ store'.missed = q.missed
            /\ store'.latch = q.latch
  BY <1>1, LandFields
<1>5. CASE store' = store /\ q = store
  <2>1. ckpt' = ckpt
    BY <1>5 DEF Land, OnceInv
  <2>2. allowed'[r] + residual <= allowed[r] + residual'
    <3>1. q.reason = "ReconcileSuccess" => q.missed - ckpt = 0
      BY <1>1, <1>5 DEF OnceInv, OnceNumbers
    <3>2. q.reason = "ReconcileSuccess" => Pos(q.missed - ckpt) = 0
      BY <3>1 DEF Pos
    <3>. QED  BY <1>1, <3>2 DEF OnceNumbers
  <2>3. burned' + allowed'[r] + residual <= burned + allowed[r] + residual'
    BY <1>1, <1>3, <2>2 DEF OnceNumbers
  <2>4. /\ now <= now' /\ charged \subseteq charged'
        /\ seenCronJob[r].witness <= seenCronJob'[r].witness
        /\ store.latch <= store'.latch
    BY <1>1, <1>3, <1>5 DEF OnceNumbers
  <2>5. Balanced(f, u, r)'
    BY <1>1, <1>2, <1>5, <2>1, <2>3, <2>4, Carry
  <2>. QED  BY <1>3, <1>5, <2>1, <2>5 DEF OnceInv
<1>6. CASE /\ store'.rv = store.rv + 1 /\ store'.missed = q.missed
           /\ store'.latch = q.latch /\ ~(store' = store /\ q = store)
  <2>1. \A p \in InFlight(r)' : p.rv # store'.rv
    <3>1. ASSUME NEW p \in InFlight(r) PROVE p.rv # store'.rv
      <4>1. p.rv \in Nat /\ store.rv \in Nat /\ p.rv <= store.rv
        BY <1>1, InFlightFacts
      <4>. QED  BY <4>1, <1>6
    <3>. QED  BY <3>1
  <2>2. store' = [q EXCEPT !.rv = store.rv + 1] /\ store'.reason = q.reason
    BY <1>1, <1>6 DEF Land, Monitor
  <2>3. CASE q.reason = "ReconcileSuccess"
    <3>1. ckpt' = q.missed /\ Measures(q, f, u, r)
      BY <1>2, <1>4, <2>3 DEF Land, Balanced
    <3>2. allowed'[r] + residual <= allowed[r] + residual' + Pos(q.missed - ckpt)
      BY <2>3
    <3>3. \E g \in Nat, v \in Int : Balanced(g, v, r)'
      BY <1>1, <1>2, <1>3, <1>6, <2>1, <3>1, <3>2, Landed
    <3>. QED  BY <1>3, <1>6, <3>1, <3>3 DEF OnceInv
  <2>4. CASE q.reason # "ReconcileSuccess"
    <3>1. ckpt' = ckpt
      BY <2>4 DEF Land
    <3>2. burned' + allowed'[r] + residual <= burned + allowed[r] + residual'
      BY <1>1, <1>3, <2>4 DEF OnceNumbers
    <3>3. /\ now <= now' /\ charged \subseteq charged'
          /\ seenCronJob[r].witness <= seenCronJob'[r].witness
      BY <1>1, <1>3 DEF OnceNumbers
    <3>4. store.latch <= store'.latch
      <4>1. q.latch >= store.latch
        BY <1>1, <1>4, InFlightFacts
      <4>. QED  BY <1>1, <1>6, <4>1 DEF OnceNumbers
    <3>5. Balanced(f, u, r)'
      BY <1>1, <1>2, <2>1, <3>1, <3>2, <3>3, <3>4, Carry
    <3>. QED  BY <1>3, <2>2, <2>4, <3>5 DEF OnceInv
  <2>. QED  BY <2>3, <2>4
<1>. QED  BY <1>4, <1>5, <1>6

(* The update of the process itself, and one that nobody waits for. *)
LEMMA OnceServe ==
    ASSUME IInv, MInv, MInv', NEW r, Replicas = {r}, [Next]_vars, Tally,
           OnceInv(r), UNCHANGED <<world, views, charged>>,
           Serve(r) \/ \E q \in orphans : OrphanLands(q)
    PROVE  OnceInv(r)'
<1>1. r \in Replicas /\ OnceNumbers(r) /\ OnceNumbers(r)'
  BY OnceNumbered, OnceNumberedNext
<1>2. CASE Serve(r)
  <2>1. PICK q : q = cjm[r]
    OBVIOUS
  <2>2. /\ pc[r] = "sent" /\ pc'[r] = "ok" /\ Land(q, r)
        /\ allowed'[r] = IF q.reason = "ReconcileSuccess" THEN Rise(q, r) ELSE 0
        /\ UNCHANGED <<counter, orphans, cjm>>
    BY <1>1, <1>2, <2>1 DEF Serve, memory, IInv, TypeOK
  <2>3. q \in InFlight(r) /\ InFlight(r)' \subseteq InFlight(r)
    BY <2>1, <2>2 DEF InFlight
  <2>4. burned' = burned
    BY <1>1, <2>2, Tallied DEF OnceNumbers
  <2>5. allowed[r] = 0
    BY <2>2 DEF OnceInv
  <2>6. allowed'[r] + residual <= allowed[r] + residual'
          + IF q.reason = "ReconcileSuccess" THEN Pos(q.missed - ckpt) ELSE 0
    <3>1. Pos(q.missed - ckpt) \in Nat
      BY <1>1, <2>1, PosType DEF OnceNumbers
    <3>2. CASE allowed'[r] > allowed[r]
      <4>1. residual' = residual + (allowed'[r] - Pos(q.missed - ckpt))
        BY <2>1, <3>2, Tallied
      <4>2. q.reason = "ReconcileSuccess"
        BY <1>1, <2>2, <2>5, <3>2
      <4>. QED  BY <1>1, <2>5, <3>1, <4>1, <4>2 DEF OnceNumbers
    <3>3. CASE ~(allowed'[r] > allowed[r])
      <4>1. residual' = residual /\ allowed'[r] = 0
        BY <1>1, <2>5, <3>3, Tallied DEF OnceNumbers
      <4>. QED  BY <1>1, <2>5, <3>1, <4>1 DEF OnceNumbers
    <3>. QED  BY <3>2, <3>3
  <2>. QED  BY <2>2, <2>3, <2>4, <2>6, OnceLand
<1>3. ASSUME NEW q \in orphans, OrphanLands(q) PROVE OnceInv(r)'
  <2>1. /\ Land(q, Nobody) /\ orphans' = orphans \ {q}
        /\ UNCHANGED <<pc, cjm, allowed, counter>>
    BY <1>3 DEF OrphanLands, locals, memory
  <2>2. q \in InFlight(r) /\ InFlight(r)' \subseteq InFlight(r)
    BY <2>1 DEF InFlight
  <2>3. burned' = burned /\ residual' = residual
    BY <1>1, <2>1, Tallied DEF OnceNumbers
  <2>4. Pos(q.missed - ckpt) \in Nat
    BY <1>1, <2>2, InFlightFacts, MonitorFields, PosType DEF OnceNumbers
  <2>5. allowed'[r] + residual <= allowed[r] + residual'
          + IF q.reason = "ReconcileSuccess" THEN Pos(q.missed - ckpt) ELSE 0
    BY <1>1, <2>1, <2>3, <2>4 DEF OnceNumbers
  <2>. QED  BY <2>1, <2>2, <2>3, <2>5, OnceLand DEF OnceInv
<1>. QED  BY <1>2, <1>3
(* The window of a happy path that read the current object is not behind   *)
(* that of the checkpoint.                                                 *)
LEMMA FloorAdvances ==
    ASSUME MInv, NEW r \in Replicas, FloorsAdvance, NEW f \in Nat, NEW l \in Nat,
           NEW spec \in Specs, Reached(f, store.latch, r), store.latch <= l
    PROVE  LET g == Floor(spec, l, seenCronJob[r].witness)
           IN  g \in Nat /\ f <= g /\ Reached(g, l, r)
<1>1. /\ OnceNumbers(r) /\ seenCronJob[r].witness <= now
  BY OnceNumbered DEF MInv, Past
<1>2. CASE Specs = {"pinned"}
  BY <1>1, <1>2 DEF Floor, Reached, OnceNumbers
<1>3. CASE "pinned" \notin Specs
  BY <1>1, <1>3 DEF Floor, Reached, OnceNumbers
<1>. QED  BY <1>2, <1>3 DEF FloorsAdvance

(* A reconcile sends the count of a window, or no count. *)
LEMMA OnceReconcile ==
    ASSUME IInv, MInv, MInv', NEW r, Replicas = {r}, FloorsAdvance,
           [Next]_vars, Tally, OnceInv(r), Reconcile(r)
    PROVE  OnceInv(r)'
<1>1. /\ r \in Replicas /\ OnceNumbers(r) /\ Grace \in Nat
      /\ pc \in [Replicas -> {"idle", "read", "sent", "ok"}]
      /\ cjm \in [Replicas -> Monitor]
  BY OnceNumbered, ClockFacts DEF IInv, TypeOK
<1>2. PICK cj : cj = seenCronJob[r]
  OBVIOUS
<1>3. PICK latch : latch = IF cj.verdict \in Latching
                   THEN updateLastObservedTimes(cjm[r].latch, listOwnedJobs(r))
                   ELSE cjm[r].latch
  OBVIOUS
<1>4. PICK missed : missed = MissedSlots(cjm[r], latch, cj)
  OBVIOUS
<1>5. /\ IF cj.verdict = "ReconcileSuccess"
         THEN /\ Measure(r, Cardinality(missed), latch)
              /\ charged' = charged \cup missed
         ELSE /\ EarlyReturn(r, cj.verdict, latch)
              /\ UNCHANGED charged
      /\ UNCHANGED <<world, views>>
  BY <1>2, <1>3, <1>4, Zenon DEF Reconcile
<1>6. latch \in Nat /\ latch >= cjm[r].latch
  BY <1>1, <1>2, <1>3, Measured, ClockFacts
<1>7. UNCHANGED <<now, seenCronJob, cronjob>>
  BY <1>5 DEF world, views
<1>8. /\ pc[r] = "read" /\ pc'[r] = "sent"
      /\ UNCHANGED <<store, ckpt, allowed, orphans>>
      /\ charged \subseteq charged'
  <2>1. CASE cj.verdict = "ReconcileSuccess"
    BY <1>1, <1>5, <2>1 DEF Measure, api
  <2>2. CASE cj.verdict # "ReconcileSuccess"
    BY <1>1, <1>5, <2>2 DEF EarlyReturn, api
  <2>. QED  BY <2>1, <2>2
<1>9. PICK q : q = cjm'[r]
  OBVIOUS
<1>10. InFlight(r)' = InFlight(r) \cup {q}
  BY <1>8, <1>9 DEF InFlight
<1>11. PICK f \in Nat, u \in Int : Balanced(f, u, r)
  BY DEF OnceInv
<1>12. q.rv = store.rv /\ q.reason = "ReconcileSuccess" => Measures(q, f, u, r)'
  <2>. SUFFICES ASSUME q.rv = store.rv, q.reason = "ReconcileSuccess"
                PROVE  Measures(q, f, u, r)'
    OBVIOUS
  <2>1. CASE cj.verdict = "ReconcileSuccess"
    <3>1. /\ q = [cjm[r] EXCEPT !.missed = Cardinality(missed), !.latch = latch,
                                !.reason = "ReconcileSuccess"]
      BY <1>1, <1>5, <1>9, <2>1 DEF Measure
    <3>2. /\ q.rv = cjm[r].rv /\ q.latch = latch
          /\ q.missed = Cardinality(missed) /\ cjm[r].spec \in Specs
      BY <1>1, <3>1 DEF Monitor
    <3>3. cjm[r] = store
      BY <1>1, <1>8, <3>2 DEF IInv, VersionNamesContent
    <3>4. PICK g : g = Floor(cjm[r].spec, latch, cj.witness)
      OBVIOUS
    <3>5. g \in Nat /\ f <= g /\ Reached(g, latch, r)
      BY <1>1, <1>2, <1>6, <1>11, <3>2, <3>3, <3>4, FloorAdvances DEF Balanced
    <3>6. missed = Window(g, now - Grace) /\ Window(g, now - Grace) \subseteq charged'
      BY <1>4, <1>5, <2>1, <3>4 DEF MissedSlots, MissedSince, Window
    <3>7. now - Grace \in Int /\ u <= now - Grace /\ now - Grace <= now' - Grace
      BY <1>1, <1>7, <1>11 DEF OnceNumbers, Balanced
    <3>8. g <= q.latch \/ ("pinned" \notin Specs /\ g <= seenCronJob'[r].witness)
      BY <1>7, <3>2, <3>5 DEF Reached
    <3>9. PICK v \in Int : v = now - Grace
      BY <3>7
    <3>. QED  BY <3>2, <3>5, <3>6, <3>7, <3>8, <3>9 DEF Measures, Reached, Window
  <2>2. CASE cj.verdict # "ReconcileSuccess"
    <3>1. q.reason = cj.verdict
      BY <1>1, <1>5, <1>9, <2>2 DEF EarlyReturn, Monitor
    <3>. QED  BY <2>2, <3>1
  <2>. QED  BY <2>1, <2>2
<1>13. Balanced(f, u, r)'
  <2>1. burned' + allowed'[r] + residual <= burned + allowed[r] + residual'
    BY <1>8, NothingGranted
  <2>2. /\ now <= now' /\ store.latch <= store'.latch /\ store' = store
        /\ ckpt' = ckpt
        /\ seenCronJob[r].witness <= seenCronJob'[r].witness
    BY <1>1, <1>7, <1>8 DEF OnceNumbers
  <2>3. \A p \in InFlight(r)' :
           p.rv = store'.rv /\ p.reason = "ReconcileSuccess"
              => (p \in InFlight(r) /\ p.rv = store.rv) \/ Measures(p, f, u, r)'
    BY <1>10, <1>12, <2>2, Zenon
  <2>. QED  BY <1>1, <1>8, <1>11, <2>1, <2>2, <2>3, Carry
<1>. QED  BY <1>7, <1>8, <1>11, <1>13 DEF OnceInv

(* The world moves the clock, the witness and the monitor's spec. *)
LEMMA OnceWorld ==
    ASSUME IInv, MInv, MInv', NEW r, Replicas = {r}, FloorsAdvance,
           [Next]_vars, Tally, OnceInv(r), World
    PROVE  OnceInv(r)'
<1>1. /\ r \in Replicas /\ OnceNumbers(r) /\ OnceNumbers(r)'
      /\ cronjob \in CronJob /\ store \in Monitor
  BY OnceNumbered, OnceNumberedNext DEF MInv, MTypeOK, TypeOK
<1>2. /\ UNCHANGED <<pc, cjm, allowed, orphans, ckpt, charged>>
      /\ now <= now'
      /\ store' = store \/ /\ store'.rv = store.rv + 1 /\ store'.latch = store.latch
                           /\ store'.reason = store.reason
                           /\ store'.missed = store.missed
  <2>1. CASE EditMonitor
    BY <1>1, <2>1 DEF EditMonitor, UserEdit, locals, Monitor, OnceNumbers
  <2>2. CASE Tick
    BY <1>1, <2>2 DEF Tick, vars, OnceNumbers
  <2>3. CASE ~EditMonitor /\ ~Tick
    BY <1>1, <2>3 DEF World, Fire, Stamp, CollectJob, ChangeCronJob, SyncCronJob,
       SyncJobs, vars, world, OnceNumbers
  <2>. QED  BY <2>1, <2>2, <2>3
<1>3. "CronJobNotFound" \notin Outcomes
         => /\ seenCronJob[r].witness <= seenCronJob'[r].witness
            /\ seenCronJob'[r].witness <= cronjob'.witness
  <2>. SUFFICES ASSUME "CronJobNotFound" \notin Outcomes
                PROVE  /\ seenCronJob[r].witness <= seenCronJob'[r].witness
                       /\ seenCronJob'[r].witness <= cronjob'.witness
    OBVIOUS
  <2>0. seenCronJob[r].witness <= cronjob.witness
    BY DEF OnceInv
  <2>1. ASSUME NEW p \in Replicas, SyncCronJob(p)
        PROVE  seenCronJob'[r] = cronjob /\ cronjob' = cronjob
    BY <1>1, <2>1 DEF SyncCronJob, world, MInv, MTypeOK
  <2>2. CASE Stamp
    <3>1. PICK j \in jobs : /\ j.start > cronjob.witness
                           /\ cronjob' = [cronjob EXCEPT !.witness = j.start]
      BY <2>2 DEF Stamp
    <3>2. j.start \in Nat
      BY ClockFacts DEF MInv, MTypeOK, Job
    <3>3. cronjob'.witness = j.start /\ seenCronJob' = seenCronJob
      BY <1>1, <2>2, <3>1 DEF CronJob, Stamp, views
    <3>. QED  BY <1>1, <2>0, <3>1, <3>2, <3>3 DEF OnceNumbers
  <2>3. ASSUME NEW v \in Outcomes, ChangeCronJob(v)
        PROVE  cronjob'.witness = cronjob.witness /\ seenCronJob' = seenCronJob
    <3>1. cronjob' = [cronjob EXCEPT !.verdict = v] /\ seenCronJob' = seenCronJob
      BY <1>1, <2>3 DEF ChangeCronJob, CronJob, views
    <3>. QED  BY <1>1, <3>1 DEF CronJob
  <2>4. \/ cronjob' = cronjob /\ seenCronJob' = seenCronJob
        \/ \E p \in Replicas : SyncCronJob(p)
        \/ Stamp
        \/ \E v \in Outcomes : ChangeCronJob(v)
    BY DEF World, Tick, Fire, CollectJob, EditMonitor, SyncJobs, views, world
  <2>5. seenCronJob[r].witness <= seenCronJob[r].witness
        /\ cronjob.witness <= cronjob.witness
    BY <1>1 DEF OnceNumbers
  <2>. QED  BY <2>0, <2>1, <2>2, <2>3, <2>4, <2>5
<1>4. PICK f \in Nat, u \in Int : Balanced(f, u, r)
  BY DEF OnceInv
<1>5. Balanced(f, u, r)'
  <2>1. burned' + allowed'[r] + residual <= burned + allowed[r] + residual'
    BY <1>2, NothingGranted
  <2>2. store.latch <= store'.latch
    BY <1>1, <1>2 DEF OnceNumbers
  <2>3. "pinned" \notin Specs
           => seenCronJob[r].witness <= seenCronJob'[r].witness
    BY <1>3 DEF FloorsAdvance
  <2>4. InFlight(r)' = InFlight(r)
    BY <1>2 DEF InFlight
  <2>5. ASSUME NEW q \in InFlight(r), q.rv = store'.rv PROVE q.rv = store.rv
    <3>1. q.rv \in Nat /\ store.rv \in Nat /\ q.rv <= store.rv
      BY <1>1, InFlightFacts
    <3>. QED  BY <1>2, <2>5, <3>1
  <2>6. \A q \in InFlight(r)' :
           q.rv = store'.rv /\ q.reason = "ReconcileSuccess"
              => (q \in InFlight(r) /\ q.rv = store.rv) \/ Measures(q, f, u, r)'
    BY <2>4, <2>5
  <2>. QED  BY <1>1, <1>2, <1>4, <2>1, <2>2, <2>3, <2>6, Carry
<1>. QED  BY <1>2, <1>3, <1>4, <1>5 DEF OnceInv
(* Before anything was measured nothing is counted. *)
LEMMA OnceInit ==
    ASSUME MInit, NEW r, Replicas = {r} PROVE OnceInv(r)
<1>1. r \in Replicas /\ Grace \in Nat
  BY ClockFacts
<1>2. /\ now = 0 /\ ckpt = 0 /\ burned = 0 /\ residual = 0 /\ charged = {}
      /\ allowed[r] = 0 /\ orphans = {} /\ pc[r] = "idle" /\ store.latch = 0
      /\ store.reason = "Never" /\ seenCronJob[r].witness = 0 /\ cronjob.witness = 0
  BY <1>1 DEF MInit, Init, Blank
<1>3. Window(0, 0 - Grace) = {} /\ Below({}, 0) = {}
  BY <1>1, ClockFacts DEF Window, Below
<1>4. Cardinality({}) = 0
  BY FS_EmptySet
<1>5. PICK u \in Int : u = 0 - Grace
  BY <1>1
<1>6. Balanced(0, u, r)
  <2>1. u <= now - Grace /\ Reached(0, store.latch, r) /\ InFlight(r) = {}
    BY <1>1, <1>2, <1>5 DEF Reached, InFlight
  <2>2. Window(0, u) = {} /\ Below(charged, 0) = {}
    BY <1>2, <1>3, <1>5
  <2>3. burned + allowed[r] <= Cardinality(Below(charged, 0)) + ckpt + residual
    BY <1>2, <1>4, <2>2
  <2>. QED  BY <1>2, <1>4, <2>1, <2>2, <2>3 DEF Balanced
<1>. QED  BY <1>2, <1>6 DEF OnceInv

(* The balance is inductive. *)
LEMMA OnceNext ==
    ASSUME IInv, MInv, MInv', NEW r, Replicas = {r}, FloorsAdvance, OnceInv(r),
           [MNext]_mvars
    PROVE  OnceInv(r)'
<1>1. [Next]_vars /\ \A p \in Replicas : p = r
  BY MStepIsStep
<1>2. CASE Step(Protocol)
  <2>1. Protocol /\ UNCHANGED <<world, views, charged>> /\ Tally
    BY <1>2 DEF Step
  <2>2. \/ Serve(r) \/ \E q \in orphans : OrphanLands(q)
        \/ Get(r) \/ GetNotFound(r) \/ Abort(r) \/ Refuse(r) \/ Abandon(r)
        \/ Commit(r) \/ FinishEarly(r) \/ Crash(r) \/ Exit(r) \/ Elect(r)
        \/ CacheSync(r) \/ LoseLease
        \/ \E q \in orphans : OrphanLost(q)
    BY <1>1, <2>1, Zenon DEF Protocol
  <2>. QED  BY <1>1, <2>1, <2>2, OnceServe, OnceProcess
<1>3. ASSUME NEW p \in Replicas, Reconcile(p), Tally PROVE OnceInv(r)'
  BY <1>1, <1>3, OnceReconcile
<1>4. CASE World /\ Tally
  BY <1>1, <1>4, OnceWorld
<1>5. CASE UNCHANGED mvars
  <2>1. UNCHANGED <<pc, cjm, allowed, orphans, ckpt, charged, now, store, burned,
                    residual, cronjob, seenCronJob>>
    BY <1>5 DEF mvars, vars, world, views
  <2>2. PICK f \in Nat, u \in Int : Balanced(f, u, r)
    BY DEF OnceInv
  <2>3. r \in Replicas /\ OnceNumbers(r) /\ InFlight(r)' = InFlight(r)
    BY <2>1, OnceNumbered DEF InFlight
  <2>4. /\ now <= now' /\ store.latch <= store'.latch
        /\ seenCronJob[r].witness <= seenCronJob'[r].witness
        /\ burned' + allowed'[r] + residual <= burned + allowed[r] + residual'
    BY <2>1, <2>3 DEF OnceNumbers
  <2>5. Balanced(f, u, r)'
    BY <2>1, <2>2, <2>3, <2>4, Carry
  <2>. QED  BY <2>1, <2>5 DEF OnceInv
<1>. QED  BY <1>2, <1>3, <1>4, <1>5 DEF MNext

(* A balanced state has counted no more than it measured. *)
LEMMA OnceCounted ==
    ASSUME MInv, NEW r \in Replicas, OnceInv(r) PROVE EachMissOnce
<1>1. OnceNumbers(r)
  BY OnceNumbered
<1>2. PICK f \in Nat, u \in Int : Balanced(f, u, r)
  BY DEF OnceInv
<1>3. /\ Cardinality(charged) \in Nat
      /\ Cardinality(Below(charged, f)) + ckpt <= Cardinality(charged)
      /\ Cardinality(Below(charged, f)) \in Nat
  <2>1. /\ charged \subseteq Slots /\ now \in Nat /\ \A s \in charged : s <= now
        /\ Window(f, u) \subseteq charged /\ ckpt = Cardinality(Window(f, u))
    BY <1>1, <1>2 DEF OnceNumbers, Balanced
  <2>2. /\ Cardinality(charged) \in Nat
        /\ Cardinality(Below(charged, f)) \in Nat
        /\ Cardinality(Below(charged, f)) + Cardinality(Window(f, u))
              = Cardinality(Below(charged, f) \cup Window(f, u))
        /\ Cardinality(Below(charged, f) \cup Window(f, u)) <= Cardinality(charged)
    BY <1>2, <2>1, WindowSums
  <2>. QED  BY <2>1, <2>2
<1>. QED  BY <1>1, <1>2, <1>3 DEF OnceNumbers, Balanced, EachMissOnce

(* One replica never counts a slot twice in cronguard_missed_runs_total,   *)
(* beyond the documented residual, for every schedule, grace period and    *)
(* number of crashes, lost responses, late requests, edits, suspensions    *)
(* and broken schedules, if the floor of the count cannot go back.  That   *)
(* the premise is needed is shown by TLC: with a CronJob that is deleted   *)
(* and re-created the witness starts again, and slots are counted again.   *)
THEOREM OneReplicaCountsOnce ==
    ASSUME NEW CONSTANT r, Replicas = {r}, FloorsAdvance
    PROVE  MSpec => []EachMissOnce
<1>1. MInit => OnceInv(r)
  BY OnceInit
<1>2. IInv /\ MInv /\ MInv' /\ OnceInv(r) /\ [MNext]_mvars => OnceInv(r)'
  BY OnceNext
<1>3. MInv /\ OnceInv(r) => EachMissOnce
  BY OnceCounted
<1>4. MSpec => []IInv
  BY MeasuringImplementsProtocol, Invariant, PTL
<1>. QED  BY <1>1, <1>2, <1>3, <1>4, MInvAlways, PTL DEF MSpec
=============================================================================
