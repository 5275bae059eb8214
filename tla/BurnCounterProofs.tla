------------------------- MODULE BurnCounterProofs -------------------------
(***************************************************************************)
(* Proofs about BurnCounter, for every set of replicas, every set of       *)
(* counts and times, every bound.                                          *)
(***************************************************************************)
EXTENDS BurnCounter, TLAPS

(* The assumptions on the constants, in the form the steps below use. *)
LEMMA ConstantFacts ==
    /\ Counts \subseteq Nat
    /\ 0 \in Counts
    /\ Times \subseteq Nat
    /\ 0 \in Times
    /\ Nobody \notin Replicas
    /\ Unseen \notin Counts
    /\ MaxRV \in Nat
    /\ MaxFaults \in Nat
    /\ Outcomes \subseteq AllOutcomes
BY CountsAssumption, TimesAssumption, NobodyAssumption, BoundsAssumption,
   OutcomesAssumption DEF Unseen

(* Missed-run counts are natural numbers.                                  *)
LEMMA CountNat == ASSUME NEW c \in Counts PROVE c \in Nat
BY CountsAssumption

(* The difference of two counts is an integer. *)
LEMMA CountDiff ==
    ASSUME NEW c \in Counts, NEW d \in Counts PROVE c - d \in Int
BY CountsAssumption

(* A monitor whose status was never written is a monitor. *)
LEMMA BlankType ==
    ASSUME NEW n \in Nat, NEW b \in BOOLEAN, NEW s \in Specs
    PROVE  Blank(n, b, s) \in Monitor
BY ConstantFacts DEF Blank, Monitor

(* Rewriting single fields of a monitor leaves a monitor. *)
LEMMA ExceptType ==
    ASSUME NEW q \in Monitor, NEW n \in Nat
    PROVE  /\ [q EXCEPT !.rv = n] \in Monitor
           /\ \A s \in Specs : [q EXCEPT !.spec = s, !.rv = n] \in Monitor
BY DEF Monitor

(* The increment of a commit is a natural number. *)
LEMMA PosType == ASSUME NEW i \in Int PROVE Pos(i) \in Nat
BY DEF Pos

(* What stands for the locals of a finished reconcile is a monitor.        *)
LEMMA NoObjectType == NoObject \in Monitor
<1>1. \E s \in Specs : TRUE
  BY SpecsAssumption
<1>2. (CHOOSE s \in Specs : TRUE) \in Specs
  BY <1>1, Zenon
<1>3. QED
  BY <1>2, BlankType DEF NoObject

(* Every step keeps the variables in their types. *)
LEMMA TypeInit == Init => TypeOK
<1> SUFFICES ASSUME Init PROVE TypeOK
  OBVIOUS
<1>1. store \in Monitor
  BY BlankType DEF Init
<1>2. QED
  BY <1>1, ConstantFacts, NoObjectType DEF Init, TypeOK

(* Leaving Reconcile keeps the types of its locals.                        *)
LEMMA ReturnType ==
    ASSUME TypeOK, NEW r \in Replicas, Return(r)
    PROVE  /\ pc' \in [Replicas -> {"idle", "read", "sent", "ok"}]
           /\ cjm' \in [Replicas -> Monitor]
           /\ prev' \in [Replicas -> Counts]
           /\ allowed' \in [Replicas -> Nat]
BY ConstantFacts, NoObjectType DEF TypeOK, Return

(* The count a raised baseline holds. *)
LEMMA SyncType ==
    ASSUME NEW b \in Counts \cup {Unseen}, NEW m \in Counts
    PROVE  /\ syncMissedBaseline(b, m) \in Counts
           /\ syncMissedBaseline(b, m) >= m
           /\ syncMissedBaseline(b, m) >= b
BY ConstantFacts DEF syncMissedBaseline, Unseen

(* Baselines compare as integers, whether or not the key was seen. *)
LEMMA BaseInt ==
    ASSUME NEW b \in Counts \cup {Unseen}
    PROVE  b \in Int /\ (b >= 0 => b \in Counts)
BY CountsAssumption DEF Unseen

(* A durable update leaves a monitor in the store; Rise is a number. *)
LEMMA LandType ==
    ASSUME TypeOK, NEW q \in Monitor, NEW by \in Replicas \cup {Nobody},
           Land(q, by)
    PROVE  /\ store' \in Monitor
           /\ ckpt' \in Counts
           /\ keeper' \in Replicas \cup {Nobody}
           /\ Rise(q, by) \in Nat
<1>1. q.rv \in Nat /\ store.rv \in Nat /\ q.missed \in Counts
  BY DEF TypeOK, Monitor
<1>2. [q EXCEPT !.rv = store.rv + 1] \in Monitor
  <2>1. store.rv + 1 \in Nat
    BY <1>1
  <2>2. QED
    BY <2>1, ExceptType
<1>3. store' \in Monitor
  BY <1>2 DEF Land, TypeOK
<1>4. Rise(q, by) \in Nat
  <2>1. q.missed \in Nat
    BY <1>1, CountNat
  <2>2. q.missed - ckpt \in Int
    BY <1>1, CountDiff DEF TypeOK
  <2>3. QED
    BY <2>1, <2>2, PosType DEF Rise
<1>5. QED
  BY <1>1, <1>3, <1>4 DEF Land, TypeOK

(* Every step of a replica, the API server or a user keeps the types.      *)
LEMMA TypeNext == TypeOK /\ [Next]_vars => TypeOK'
<1> SUFFICES ASSUME TypeOK, [Next]_vars PROVE TypeOK'
  OBVIOUS
<1> USE ConstantFacts
<1>1. ASSUME NEW r \in Replicas, Get(r) PROVE TypeOK'
  <2>1. cached[r] \in Monitor /\ cached[r].missed \in Counts
    BY DEF TypeOK, Monitor
  <2>2. syncMissedBaseline(lastMissed[r], cached[r].missed) \in Counts
    BY <2>1, SyncType DEF TypeOK
  <2>3. QED
    BY <1>1, <2>1, <2>2 DEF Get, TypeOK, api
<1>2. ASSUME NEW r \in Replicas, GetNotFound(r) PROVE TypeOK'
  BY <1>2 DEF GetNotFound, TypeOK, api, locals
<1>3. ASSUME NEW r \in Replicas, Abort(r) PROVE TypeOK'
  BY <1>3, ReturnType DEF Abort, TypeOK, api, memory
<1>4. ASSUME NEW r \in Replicas, NEW m \in Counts, NEW l \in Times,
             Measure(r, m, l)
      PROVE  TypeOK'
  <2>1. cjm[r] \in Monitor /\ cjm[r].missed \in Counts
    BY DEF TypeOK, Monitor
  <2>2. [cjm[r] EXCEPT !.missed = m, !.latch = l,
                       !.reason = "ReconcileSuccess"] \in Monitor
    BY <2>1 DEF Monitor, AllOutcomes
  <2>3. cjm' \in [Replicas -> Monitor]
    BY <1>4, <2>2 DEF Measure, TypeOK
  <2>4. prev' \in [Replicas -> Counts]
    BY <1>4, <2>1 DEF Measure, TypeOK
  <2>5. QED
    BY <1>4, <2>3, <2>4 DEF Measure, TypeOK, api, memory
<1>5. ASSUME NEW r \in Replicas, NEW o \in Outcomes, NEW l \in Times,
             EarlyReturn(r, o, l)
      PROVE  TypeOK'
  <2>1. cjm[r] \in Monitor
    BY DEF TypeOK
  <2>2. [cjm[r] EXCEPT !.missed = IF o \in Markers THEN 0 ELSE @,
                       !.latch = l, !.reason = o] \in Monitor
    BY <2>1 DEF Monitor
  <2>3. cjm' \in [Replicas -> Monitor]
    BY <1>5, <2>2 DEF EarlyReturn, TypeOK
  <2>4. QED
    BY <1>5, <2>3 DEF EarlyReturn, TypeOK, api, memory
<1>6. ASSUME NEW r \in Replicas, Serve(r) PROVE TypeOK'
  <2>1. cjm[r] \in Monitor
    BY DEF TypeOK
  <2>2. /\ store' \in Monitor /\ ckpt' \in Counts
        /\ keeper' \in Replicas \cup {Nobody} /\ Rise(cjm[r], r) \in Nat
    BY <1>6, <2>1, LandType DEF Serve
  <2>3. QED
    BY <1>6, <2>2 DEF Serve, TypeOK, memory
<1>7. ASSUME NEW r \in Replicas, Refuse(r) PROVE TypeOK'
  BY <1>7, ReturnType DEF Refuse, TypeOK, api, memory
<1>8. ASSUME NEW r \in Replicas, Abandon(r) PROVE TypeOK'
  BY <1>8, ReturnType DEF Abandon, TypeOK, api, memory
<1>9. ASSUME NEW q \in orphans, OrphanLands(q) PROVE TypeOK'
  <2>1. q \in Monitor
    BY DEF TypeOK
  <2>2. /\ store' \in Monitor /\ ckpt' \in Counts
        /\ keeper' \in Replicas \cup {Nobody}
    BY <1>9, <2>1, LandType DEF OrphanLands
  <2>3. QED
    BY <1>9, <2>2 DEF OrphanLands, TypeOK, locals, memory
<1>10. ASSUME NEW q \in orphans, OrphanLost(q) PROVE TypeOK'
  BY <1>10 DEF OrphanLost, TypeOK, api, locals, memory
<1>11. ASSUME NEW r \in Replicas, Commit(r) PROVE TypeOK'
  <2>1. /\ cjm[r].missed \in Counts /\ prev[r] \in Counts
        /\ counter[r] \in Nat
    BY DEF TypeOK, Monitor
  <2>2. counter[r] + Pos(cjm[r].missed - prev[r]) \in Nat
    <3>1. cjm[r].missed - prev[r] \in Int
      BY <2>1, CountDiff
    <3>2. QED
      BY <2>1, <3>1, PosType
  <2>3. lastMissed' \in [Replicas -> Counts \cup {Unseen}]
    BY <1>11, <2>1 DEF Commit, commitMissed, TypeOK
  <2>4. counter' \in [Replicas -> Nat]
    BY <1>11, <2>2 DEF Commit, commitMissed, TypeOK
  <2>5. QED
    BY <1>11, <2>3, <2>4, ReturnType DEF Commit, TypeOK, api
<1>12. ASSUME NEW r \in Replicas, FinishEarly(r) PROVE TypeOK'
  <2>1. cjm[r].missed \in Counts
    BY DEF TypeOK, Monitor
  <2>2. syncMissedBaseline(lastMissed[r], cjm[r].missed) \in Counts
    BY <2>1, SyncType DEF TypeOK
  <2>3. QED
    BY <1>12, <2>2, ReturnType DEF FinishEarly, TypeOK, api
<1>13. ASSUME NEW r \in Replicas, Crash(r) PROVE TypeOK'
  BY <1>13, ReturnType DEF Crash, Die, TypeOK
<1>14. ASSUME NEW r \in Replicas, Exit(r) PROVE TypeOK'
  BY <1>14, ReturnType DEF Exit, Die, TypeOK
<1>15. ASSUME NEW r \in Replicas, Elect(r) PROVE TypeOK'
  BY <1>15 DEF Elect, TypeOK, api, locals, memory
<1>16. ASSUME NEW r \in Replicas, CacheSync(r) PROVE TypeOK'
  BY <1>16 DEF CacheSync, TypeOK, api, locals, memory
<1>17. CASE LoseLease
  BY <1>17 DEF LoseLease, TypeOK, api, locals, memory
<1>18. ASSUME NEW s \in Specs, UserEdit(s) PROVE TypeOK'
  <2>1. store' \in Monitor
    <3>1. store \in Monitor /\ store.rv + 1 \in Nat
      BY DEF TypeOK, Monitor
    <3>2. QED
      BY <1>18, <3>1, ExceptType DEF UserEdit
  <2>2. QED
    BY <1>18, <2>1 DEF UserEdit, TypeOK, locals, memory
<1>19. ASSUME NEW s \in Specs, UserCreate(s) PROVE TypeOK'
  <2>1. store' \in Monitor
    <3>1. store.rv + 1 \in Nat
      BY DEF TypeOK, Monitor
    <3>2. QED
      BY <1>19, <3>1, BlankType DEF UserCreate
  <2>2. QED
    BY <1>19, <2>1 DEF UserCreate, TypeOK, locals, memory
<1>20. CASE UserDelete
  <2>1. store' \in Monitor
    <3>1. store.rv + 1 \in Nat /\ store.spec \in Specs
      BY DEF TypeOK, Monitor
    <3>2. QED
      BY <1>20, <3>1, BlankType DEF UserDelete
  <2>2. QED
    BY <1>20, <2>1 DEF UserDelete, TypeOK, locals, memory
<1>21. CASE UNCHANGED vars
  BY <1>21 DEF TypeOK, vars
<1>22. QED
  BY <1>1, <1>2, <1>3, <1>4, <1>5, <1>6, <1>7, <1>8, <1>9, <1>10, <1>11,
     <1>12, <1>13, <1>14, <1>15, <1>16, <1>17, <1>18, <1>19, <1>20, <1>21
     DEF Next, Protocol, Users

(* Reconciling any monitor under any of these failures never leaves the    *)
(* variables' types.                                                       *)
THEOREM TypeCorrect == Spec => []TypeOK
BY TypeInit, TypeNext, PTL DEF Spec

-----------------------------------------------------------------------------
(* The fields of a monitor, as numbers. *)
LEMMA MonitorFields ==
    ASSUME NEW q \in Monitor
    PROVE  /\ q.rv \in Nat
           /\ q.missed \in Nat
           /\ q.missed \in Counts
           /\ q.latch \in Nat
BY ConstantFacts DEF Monitor

(* What a durable update changes: nothing, or everything but the version,  *)
(* which then is a new one.                                                *)
LEMMA LandFields ==
    ASSUME TypeOK, NEW q \in Monitor, NEW by, Land(q, by)
    PROVE  /\ store.present
           /\ q.rv = store.rv
           /\ \/ store' = store /\ q = store
              \/ /\ store'.rv = store.rv + 1
                 /\ store'.present = q.present
                 /\ store'.missed = q.missed
                 /\ store'.latch = q.latch
BY DEF Land, Accepts, Monitor

(* What the types say about every number the invariant compares. *)
Numbers ==
    /\ store.rv \in Nat /\ store.missed \in Nat /\ store.latch \in Nat
    /\ ckpt \in Nat
    /\ \A r \in Replicas :
          /\ cached[r].rv \in Nat /\ cached[r].missed \in Nat
          /\ cjm[r].rv \in Nat /\ cjm[r].missed \in Nat
          /\ cjm[r].latch \in Nat
          /\ lastMissed[r] \in Int /\ prev[r] \in Nat
          /\ allowed[r] \in Nat
    /\ \A q \in orphans :
          q.rv \in Nat /\ q.missed \in Nat /\ q.latch \in Nat

(* TypeOK gives them.                                                      *)
LEMMA TypeNumbers == TypeOK => Numbers
<1> SUFFICES ASSUME TypeOK PROVE Numbers
  OBVIOUS
<1>1. store.rv \in Nat /\ store.missed \in Nat /\ store.latch \in Nat
  BY MonitorFields DEF TypeOK
<1>2. ckpt \in Nat
  BY CountNat DEF TypeOK
<1>3. ASSUME NEW r \in Replicas
      PROVE  /\ cached[r].rv \in Nat /\ cached[r].missed \in Nat
             /\ cjm[r].rv \in Nat /\ cjm[r].missed \in Nat
             /\ cjm[r].latch \in Nat
             /\ lastMissed[r] \in Int /\ prev[r] \in Nat
             /\ allowed[r] \in Nat
  <2>1. cached[r] \in Monitor /\ cjm[r] \in Monitor
    BY DEF TypeOK
  <2>2. lastMissed[r] \in Int /\ prev[r] \in Nat /\ allowed[r] \in Nat
    BY BaseInt, CountNat DEF TypeOK
  <2>3. QED
    BY <2>1, <2>2, MonitorFields
<1>4. ASSUME NEW q \in orphans
      PROVE  q.rv \in Nat /\ q.missed \in Nat /\ q.latch \in Nat
  BY MonitorFields DEF TypeOK
<1>5. QED
  BY <1>1, <1>2, <1>3, <1>4 DEF Numbers

(* The same in the next state.                                             *)
LEMMA TypeNumbersNext == TypeOK' => Numbers'
BY TypeNumbers, PTL

(* Before the first reconcile every cache equals the store and no baseline *)
(* exists, so the invariant holds.                                         *)
LEMMA InvInit == Init => IInv
<1> SUFFICES ASSUME Init PROVE IInv
  OBVIOUS
<1>1. TypeOK
  BY TypeInit
<1>2. store.missed = 0 /\ store \in Monitor
  BY <1>1 DEF Init, Blank, TypeOK
<1>3. VersionsOrdered /\ VersionNamesContent
  BY <1>1, <1>2, MonitorFields DEF Init, VersionsOrdered, VersionNamesContent
<1>4. CheckpointOrZero /\ BaselineCoversRead /\ KeeperRemembers /\ CommitCovered
  BY <1>2 DEF Init, CheckpointOrZero, BaselineCoversRead, KeeperRemembers,
              CommitCovered
<1>5. OneProcessWithoutFaults
  BY <1>2 DEF Init, OneProcessWithoutFaults, Fresh, Marked
<1>6. QED
  BY <1>1, <1>3, <1>4, <1>5 DEF IInv

(* The invariant is preserved by what a process does in memory.  Raising   *)
(* the baseline at the read is what makes BaselineCoversRead hold; dropping*)
(* it on NotFound cannot hit the keeper of a marker, and committing cannot *)
(* either.                                                                 *)
LEMMA InvGet ==
    ASSUME IInv, TypeOK', NEW r \in Replicas, Get(r) PROVE IInv'
<1>1. Numbers /\ Numbers'
  BY TypeNumbers, TypeNumbersNext DEF IInv
<1>2. /\ lastMissed'[r] >= cached[r].missed
      /\ lastMissed'[r] >= lastMissed[r]
      /\ \A p \in Replicas \ {r} : lastMissed'[p] = lastMissed[p]
  <2>1. /\ lastMissed[r] \in Counts \cup {Unseen}
        /\ cached[r].missed \in Counts
    BY MonitorFields DEF IInv, TypeOK
  <2>2. QED
    BY <2>1, SyncType DEF Get, IInv, TypeOK
<1>3. VersionsOrdered' /\ VersionNamesContent' /\ CheckpointOrZero'
  BY <1>1 DEF Get, api, IInv, TypeOK, VersionsOrdered, VersionNamesContent,
              UpdateOf, CheckpointOrZero, Numbers
<1>4. BaselineCoversRead'
  BY <1>1, <1>2 DEF Get, api, IInv, TypeOK, BaselineCoversRead
<1>5. KeeperRemembers'
  <2>1. CASE keeper = r
    BY <1>1, <1>2, <2>1 DEF IInv, KeeperRemembers, Numbers, Get, api, TypeOK
  <2>2. CASE keeper # r
    BY <1>1, <1>2, <2>2 DEF IInv, KeeperRemembers, Numbers, Get, api, TypeOK
  <2>3. QED
    BY <2>1, <2>2
<1>6. CommitCovered' /\ OneProcessWithoutFaults'
  BY <1>1 DEF Get, api, IInv, TypeOK, CommitCovered, OneProcessWithoutFaults,
              Fresh, Marked
<1>7. QED
  BY <1>3, <1>4, <1>5, <1>6 DEF IInv

(* The happy path turns the object it read into a request: the baseline it *)
(* takes as prev covers the count it read.                                 *)
LEMMA InvMeasure ==
    ASSUME IInv, TypeOK', NEW r \in Replicas, NEW m \in Counts,
           NEW l \in Times, Measure(r, m, l)
    PROVE  IInv'
<1>1. Numbers /\ Numbers'
  BY TypeNumbers, TypeNumbersNext DEF IInv
<1>2. lastMissed[r] >= cjm[r].missed /\ lastMissed[r] # Unseen
  BY <1>1 DEF Measure, IInv, BaselineCoversRead, Numbers, Unseen
<1>3. /\ pc[r] = "read"
      /\ pc' = [pc EXCEPT ![r] = "sent"]
      /\ prev' = [prev EXCEPT ![r] = lastMissed[r]]
      /\ UNCHANGED <<store, ckpt, keeper, lastMissed, allowed, cached,
                     leader, orphans, faults>>
  BY <1>2 DEF Measure, api, memory
<1>4. /\ \A p \in Replicas \ {r} : cjm'[p] = cjm[p]
      /\ cjm'[r].rv = cjm[r].rv
      /\ cjm'[r].present = cjm[r].present
      /\ cjm'[r].latch = l
      /\ l >= cjm[r].latch
      /\ cjm'[r].reason = "ReconcileSuccess"
  BY DEF Measure, IInv, TypeOK, Monitor
<1>5. /\ VersionsOrdered' /\ CheckpointOrZero'
      /\ VersionNamesContent'
  <2>1. VersionsOrdered' /\ CheckpointOrZero'
    BY <1>1, <1>3, <1>4 DEF IInv, TypeOK, VersionsOrdered, CheckpointOrZero
  <2>2. cjm[r].rv = store.rv => UpdateOf(cjm[r])'
    BY <1>1, <1>3, <1>4 DEF IInv, UpdateOf, VersionNamesContent, Numbers
  <2>3. VersionNamesContent'
    BY <1>3, <1>4, <2>2 DEF IInv, TypeOK, VersionNamesContent, UpdateOf
  <2>4. QED
    BY <2>1, <2>3
<1>6. BaselineCoversRead'
  BY <1>1, <1>2, <1>3, <1>4 DEF IInv, TypeOK, BaselineCoversRead,
              VersionNamesContent
<1>7. KeeperRemembers' /\ CommitCovered' /\ OneProcessWithoutFaults'
  BY <1>1, <1>3, <1>4 DEF IInv, TypeOK, KeeperRemembers, CommitCovered,
              OneProcessWithoutFaults, Fresh, Marked
<1>8. QED
  BY <1>5, <1>6, <1>7 DEF IInv

(* An early return sends 0 or the count it read, and an unmoved or later   *)
(* latch.                                                                  *)
LEMMA InvEarlyReturn ==
    ASSUME IInv, TypeOK', NEW r \in Replicas, NEW o \in Outcomes,
           NEW l \in Times, EarlyReturn(r, o, l)
    PROVE  IInv'
<1>1. Numbers /\ Numbers'
  BY TypeNumbers, TypeNumbersNext DEF IInv
<1>2. /\ pc[r] = "read"
      /\ pc' = [pc EXCEPT ![r] = "sent"]
      /\ UNCHANGED <<store, ckpt, keeper, prev, lastMissed, allowed, cached,
                     leader, orphans, faults>>
  BY DEF EarlyReturn, api, memory
<1>3. /\ \A p \in Replicas \ {r} : cjm'[p] = cjm[p]
      /\ cjm'[r].rv = cjm[r].rv
      /\ cjm'[r].present = cjm[r].present
      /\ cjm'[r].latch = l
      /\ cjm'[r].missed \in {0, cjm[r].missed}
      /\ cjm'[r].reason # "ReconcileSuccess"
  BY DEF EarlyReturn, IInv, TypeOK, Monitor
<1>4. l >= cjm[r].latch
  BY <1>1 DEF EarlyReturn, Numbers
<1>5. /\ VersionsOrdered' /\ CheckpointOrZero'
      /\ VersionNamesContent'
  <2>1. VersionsOrdered' /\ CheckpointOrZero'
    BY <1>1, <1>2, <1>3 DEF IInv, TypeOK, VersionsOrdered, CheckpointOrZero
  <2>2. cjm[r].rv = store.rv => UpdateOf(cjm[r])'
    BY <1>1, <1>2, <1>3, <1>4 DEF IInv, UpdateOf, VersionNamesContent, Numbers
  <2>3. VersionNamesContent'
    BY <1>2, <1>3, <2>2 DEF IInv, TypeOK, VersionNamesContent, UpdateOf
  <2>4. QED
    BY <2>1, <2>3
<1>6. BaselineCoversRead'
  BY <1>1, <1>2, <1>3 DEF IInv, TypeOK, BaselineCoversRead,
              VersionNamesContent
<1>7. KeeperRemembers' /\ CommitCovered' /\ OneProcessWithoutFaults'
  BY <1>1, <1>2, <1>3 DEF IInv, TypeOK, KeeperRemembers, CommitCovered,
              OneProcessWithoutFaults, Fresh, Marked
<1>8. QED
  BY <1>5, <1>6, <1>7 DEF IInv

(* finishEarlyReturn only raises the baseline, so a keeper still covers the *)
(* checkpoint.                                                             *)
LEMMA InvFinishEarly ==
    ASSUME IInv, TypeOK', NEW r \in Replicas, FinishEarly(r) PROVE IInv'
<1>1. Numbers /\ Numbers'
  BY TypeNumbers, TypeNumbersNext DEF IInv
<1>2. /\ lastMissed'[r] >= lastMissed[r]
      /\ \A p \in Replicas \ {r} : lastMissed'[p] = lastMissed[p]
  <2>1. /\ lastMissed[r] \in Counts \cup {Unseen}
        /\ cjm[r].missed \in Counts
    BY MonitorFields DEF IInv, TypeOK
  <2>2. QED
    BY <2>1, SyncType DEF FinishEarly, IInv, TypeOK
<1>3. VersionsOrdered' /\ VersionNamesContent' /\ CheckpointOrZero'
  BY <1>1 DEF FinishEarly, Return, api, IInv, TypeOK, VersionsOrdered,
              VersionNamesContent, UpdateOf, CheckpointOrZero
<1>4. BaselineCoversRead' /\ CommitCovered' /\ OneProcessWithoutFaults'
  BY <1>1, <1>2 DEF FinishEarly, Return, api, IInv, TypeOK, CommitCovered,
              BaselineCoversRead, OneProcessWithoutFaults, Fresh, Marked
<1>5. KeeperRemembers'
  <2>1. CASE keeper = r
    BY <1>1, <1>2, <2>1 DEF IInv, KeeperRemembers, Numbers, FinishEarly, api,
                            Return, TypeOK
  <2>2. CASE keeper # r
    BY <1>1, <1>2, <2>2 DEF IInv, KeeperRemembers, Numbers, FinishEarly, api,
                            Return, TypeOK
  <2>3. QED
    BY <2>1, <2>2
<1>6. QED
  BY <1>3, <1>4, <1>5 DEF IInv

(* Deaths, elections and cache updates: a dead process keeps no marker, and *)
(* a cache only moves to the content of the store.                         *)
LEMMA InvProcess ==
    ASSUME IInv, TypeOK', NEW r \in Replicas,
           \/ GetNotFound(r) \/ Abort(r) \/ Refuse(r) \/ Abandon(r)
           \/ Commit(r) \/ Crash(r) \/ Exit(r) \/ Elect(r) \/ CacheSync(r)
    PROVE  IInv'
<1> USE ConstantFacts, MonitorFields
    DEF IInv, TypeOK, VersionsOrdered, VersionNamesContent, UpdateOf,
        CheckpointOrZero, BaselineCoversRead, KeeperRemembers, CommitCovered,
        Pos, OneProcessWithoutFaults, Fresh, Marked
<1>1. CASE GetNotFound(r)
  BY <1>1 DEF GetNotFound, api, locals
<1>2. CASE Abort(r)
  BY <1>2 DEF Abort, Return, api, memory
<1>3. CASE Refuse(r)
  BY <1>3 DEF Refuse, Return, api, memory
<1>4. CASE Abandon(r)
  BY <1>4 DEF Abandon, Return, api, memory
<1>5. CASE Commit(r)
  BY <1>5 DEF Commit, Return, commitMissed, api
<1>6. CASE Crash(r)
  BY <1>6 DEF Crash, Die, Return
<1>7. CASE Exit(r)
  BY <1>7 DEF Exit, Die, Return
<1>8. CASE Elect(r)
  BY <1>8 DEF Elect, api, locals, memory
<1>9. CASE CacheSync(r)
  BY <1>9 DEF CacheSync, api, locals, memory
<1>10. QED
  BY <1>1, <1>2, <1>3, <1>4, <1>5, <1>6, <1>7, <1>8, <1>9

(* A user's write makes every copy and every request in flight an old one. *)
LEMMA InvUser ==
    ASSUME IInv, TypeOK',
           \/ \E s \in Specs : UserEdit(s) \/ UserCreate(s)
           \/ UserDelete
    PROVE  IInv'
<1>1. Numbers /\ Numbers'
  BY TypeNumbers, TypeNumbersNext DEF IInv
<1>2. /\ store'.rv = store.rv + 1
      /\ \/ /\ store'.missed = store.missed /\ store'.present = store.present
            /\ ckpt' = ckpt /\ keeper' = keeper
         \/ /\ ~store.present /\ store'.missed = 0 /\ store'.present
            /\ ckpt' = ckpt /\ keeper' = keeper
         \/ store'.missed = 0 /\ ckpt' = 0 /\ keeper' = Nobody
      /\ UNCHANGED <<pc, cjm, prev, allowed, lastMissed, counter, cached,
                     leader, orphans, faults>>
  <2>1. ASSUME NEW s \in Specs, UserEdit(s)
        PROVE  /\ store'.rv = store.rv + 1 /\ store'.missed = store.missed
               /\ store'.present = store.present
               /\ ckpt' = ckpt /\ keeper' = keeper
               /\ UNCHANGED <<pc, cjm, prev, allowed, lastMissed, counter,
                              cached, leader, orphans, faults>>
    BY <2>1 DEF UserEdit, IInv, TypeOK, Monitor, locals, memory
  <2>2. ASSUME NEW s \in Specs, UserCreate(s)
        PROVE  /\ store'.rv = store.rv + 1 /\ store'.missed = 0
               /\ ~store.present /\ store'.present
               /\ ckpt' = ckpt /\ keeper' = keeper
               /\ UNCHANGED <<pc, cjm, prev, allowed, lastMissed, counter,
                              cached, leader, orphans, faults>>
    BY <2>2 DEF UserCreate, Blank, locals, memory
  <2>3. ASSUME UserDelete
        PROVE  /\ store'.rv = store.rv + 1 /\ store'.missed = 0
               /\ ckpt' = 0 /\ keeper' = Nobody
               /\ UNCHANGED <<pc, cjm, prev, allowed, lastMissed, counter,
                              cached, leader, orphans, faults>>
    BY <2>3 DEF UserDelete, Blank, locals, memory
  <2>4. QED
    BY <2>1, <2>2, <2>3
<1>3. VersionsOrdered'
  BY <1>1, <1>2 DEF IInv, VersionsOrdered, Numbers
<1>4. VersionNamesContent' /\ BaselineCoversRead'
  BY <1>1, <1>2 DEF IInv, VersionsOrdered, VersionNamesContent,
              BaselineCoversRead, Numbers
<1>5. CheckpointOrZero' /\ KeeperRemembers' /\ CommitCovered'
  BY <1>1, <1>2 DEF IInv, CheckpointOrZero, KeeperRemembers, CommitCovered
<1>6. OneProcessWithoutFaults'
  BY <1>1, <1>2 DEF IInv, OneProcessWithoutFaults, Fresh, Marked, CheckpointOrZero
<1>7. QED
  BY <1>3, <1>4, <1>5, <1>6 DEF IInv


(* A durable update.  Either it changes nothing, or it takes a new version *)
(* that no copy and no request carries; the marker a live process persists *)
(* makes that process its keeper.                                          *)
LEMMA InvServe ==
    ASSUME IInv, TypeOK', NEW r \in Replicas, Serve(r) PROVE IInv'
<1>1. Numbers /\ Numbers'
  BY TypeNumbers, TypeNumbersNext DEF IInv
<1>2. /\ store.present
      /\ cjm[r].rv = store.rv
      /\ \/ store' = store /\ cjm[r] = store
         \/ /\ store'.rv = store.rv + 1
            /\ store'.present = cjm[r].present
            /\ store'.missed = cjm[r].missed
  <2>1. cjm[r] \in Monitor /\ Land(cjm[r], r) /\ TypeOK
    BY DEF Serve, IInv, TypeOK
  <2>2. QED
    BY <2>1, LandFields
<1>3. /\ UpdateOf(cjm[r])
      /\ lastMissed[r] >= store.missed
      /\ cjm[r].reason = "ReconcileSuccess" => prev[r] = lastMissed[r]
  BY <1>2 DEF Serve, IInv, VersionNamesContent, BaselineCoversRead
<1>4. /\ pc[r] = "sent"
      /\ pc' = [pc EXCEPT ![r] = "ok"]
      /\ UNCHANGED <<cjm, prev, lastMissed, cached, leader, orphans, faults>>
  BY DEF Serve, memory
<1>5. VersionsOrdered'
  BY <1>1, <1>2, <1>4 DEF IInv, TypeOK, VersionsOrdered, Numbers
<1>6. VersionNamesContent'
  BY <1>1, <1>2, <1>4 DEF IInv, TypeOK, VersionsOrdered, VersionNamesContent,
              UpdateOf, Numbers
<1>7. CheckpointOrZero'
  BY <1>2, <1>3 DEF Serve, Land, IInv, CheckpointOrZero, UpdateOf
<1>8. BaselineCoversRead'
  BY <1>1, <1>2, <1>4 DEF IInv, TypeOK, VersionsOrdered, BaselineCoversRead,
              Numbers
<1>9. KeeperRemembers'
  <2>1. cached[r] = store
    BY <1>1, <1>2, <1>4 DEF IInv, VersionsOrdered, VersionNamesContent, Numbers
  <2>2. CASE cjm[r].reason = "ReconcileSuccess"
    BY <2>2 DEF Serve, Land, KeeperRemembers
  <2>3. CASE cjm[r].reason # "ReconcileSuccess" /\ ~Marked /\ cjm[r].missed # ckpt
    BY <1>2, <1>3, <1>4, <2>1, <2>3, ConstantFacts
       DEF Serve, Land, KeeperRemembers, Marked, UpdateOf
  <2>4. CASE cjm[r].reason # "ReconcileSuccess" /\ ~(~Marked /\ cjm[r].missed # ckpt)
    <3>1. keeper' = keeper /\ ckpt' = ckpt
      BY <2>4 DEF Serve, Land
    <3>2. QED
      BY <1>2, <1>3, <1>4, <2>4, <3>1 DEF IInv, TypeOK, KeeperRemembers, UpdateOf
  <2>5. QED
    BY <2>2, <2>3, <2>4
<1>10. CommitCovered'
  <2>1. ASSUME cjm[r].reason = "ReconcileSuccess"
        PROVE  Pos(cjm[r].missed - prev[r]) <= Rise(cjm[r], r)
    <3>1. CASE Marked /\ keeper # r
      BY <1>1, <3>1 DEF Rise, Pos, Numbers
    <3>2. CASE ~(Marked /\ keeper # r)
      <4>1. prev[r] >= ckpt
        BY <1>3, <2>1, <3>2, ConstantFacts DEF Marked, IInv, KeeperRemembers
      <4>2. QED
        BY <1>1, <3>2, <4>1 DEF Rise, Pos, Numbers
    <3>3. QED
      BY <3>1, <3>2
  <2>2. QED
    BY <1>4, <2>1 DEF Serve, IInv, TypeOK, CommitCovered
<1>11. OneProcessWithoutFaults'
  <2>1. faults = 0 => leader = r
    BY <1>4 DEF IInv, OneProcessWithoutFaults, Fresh
  <2>2. faults = 0 => (Marked' => leader # Nobody /\ keeper' = leader)
    BY <1>2, <1>3, <2>1, ConstantFacts
       DEF Serve, Land, IInv, OneProcessWithoutFaults, Marked, UpdateOf
  <2>3. QED
    BY <1>4, <2>1, <2>2 DEF IInv, TypeOK, OneProcessWithoutFaults, Fresh
<1>12. QED
  BY <1>5, <1>6, <1>7, <1>8, <1>9, <1>10, <1>11 DEF IInv

(* The same for an update nobody waits for: a marker it persists has no    *)
(* keeper, and it needs a fault to exist.                                  *)
LEMMA InvOrphan ==
    ASSUME IInv, TypeOK', NEW q \in orphans, OrphanLands(q) \/ OrphanLost(q)
    PROVE  IInv'
<1>1. Numbers /\ Numbers'
  BY TypeNumbers, TypeNumbersNext DEF IInv
<1>2. CASE OrphanLost(q)
  BY <1>2 DEF OrphanLost, api, locals, memory, IInv, TypeOK, VersionsOrdered,
     VersionNamesContent, UpdateOf, CheckpointOrZero, BaselineCoversRead,
     KeeperRemembers, CommitCovered, OneProcessWithoutFaults, Fresh, Marked
<1>3. CASE OrphanLands(q)
  <2>1. /\ store.present
        /\ q.rv = store.rv
        /\ \/ store' = store /\ q = store
           \/ /\ store'.rv = store.rv + 1
              /\ store'.present = q.present
              /\ store'.missed = q.missed
    <3>1. q \in Monitor /\ Land(q, Nobody) /\ TypeOK
      BY <1>3 DEF OrphanLands, IInv, TypeOK
    <3>2. QED
      BY <3>1, LandFields
  <2>2. UpdateOf(q)
    BY <2>1 DEF IInv, VersionNamesContent
  <2>3. /\ UNCHANGED <<pc, cjm, prev, allowed, lastMissed, counter, cached,
                       leader, faults>>
        /\ orphans' \subseteq orphans
    BY <1>3 DEF OrphanLands, locals, memory
  <2>4. VersionsOrdered'
    BY <1>1, <2>1, <2>3 DEF IInv, VersionsOrdered, Numbers
  <2>5. VersionNamesContent' /\ BaselineCoversRead'
    BY <1>1, <2>1, <2>3 DEF IInv, VersionsOrdered, VersionNamesContent,
                UpdateOf, BaselineCoversRead, Numbers
  <2>6. CheckpointOrZero'
    BY <1>3, <2>1, <2>2 DEF OrphanLands, Land, IInv, CheckpointOrZero, UpdateOf
  <2>7. KeeperRemembers'
    BY <1>3, <2>1, <2>2, <2>3 DEF OrphanLands, Land, IInv, KeeperRemembers,
                UpdateOf
  <2>8. CommitCovered' /\ OneProcessWithoutFaults'
    BY <2>3 DEF IInv, CommitCovered, OneProcessWithoutFaults
  <2>9. QED
    BY <2>4, <2>5, <2>6, <2>7, <2>8 DEF IInv
<1>4. QED
  BY <1>2, <1>3

(* Every step preserves the invariant.                                     *)
LEMMA InvNext == IInv /\ [Next]_vars => IInv'
<1> SUFFICES ASSUME IInv, [Next]_vars PROVE IInv'
  OBVIOUS
<1>1. TypeOK'
  BY TypeNext DEF IInv
<1>2. CASE LoseLease
  BY <1>1, <1>2 DEF LoseLease, api, locals, memory, IInv, VersionsOrdered,
     VersionNamesContent, UpdateOf, CheckpointOrZero, BaselineCoversRead,
     KeeperRemembers, CommitCovered, OneProcessWithoutFaults, TypeOK
<1>3. CASE UNCHANGED vars
  BY <1>1, <1>3 DEF vars, IInv, VersionsOrdered, VersionNamesContent,
     UpdateOf, CheckpointOrZero, BaselineCoversRead, KeeperRemembers,
     CommitCovered, OneProcessWithoutFaults, Fresh, Marked
<1>4. QED
  BY <1>1, <1>2, <1>3, InvGet, InvMeasure, InvEarlyReturn, InvFinishEarly,
     InvProcess, InvUser, InvServe, InvOrphan DEF Next, Protocol, Users

(* The inductive invariant holds for every instance. *)
THEOREM Invariant == Spec => []IInv
BY InvInit, InvNext, PTL DEF Spec

(* However processes fail and requests race, a step of a process never     *)
(* adds more to the burn counter than its own durable write raised the     *)
(* persisted count by.                                                     *)
THEOREM BurnCounterSound == Spec => NoPhantomBurn
<1>1. ASSUME IInv, [Next]_vars
      PROVE  [\A r \in Replicas : counter'[r] - counter[r] <= allowed[r]]_vars
  <2>1. Numbers /\ counter \in [Replicas -> Nat]
    BY <1>1, TypeNumbers DEF IInv, TypeOK
  <2>2. ASSUME NEW r \in Replicas, Commit(r), NEW p \in Replicas
        PROVE  counter'[p] - counter[p] <= allowed[p]
    <3>1. CASE p = r
      <4>1. counter'[r] = counter[r] + Pos(cjm[r].missed - prev[r])
        BY <2>1, <2>2 DEF Commit, commitMissed
      <4>2. Pos(cjm[r].missed - prev[r]) <= allowed[r]
        BY <1>1, <2>2 DEF Commit, IInv, CommitCovered
      <4>3. Pos(cjm[r].missed - prev[r]) \in Nat
        BY <2>1 DEF Pos, Numbers
      <4>4. QED
        BY <2>1, <3>1, <4>1, <4>2, <4>3 DEF Numbers
    <3>2. CASE p # r
      BY <2>1, <2>2, <3>2 DEF Commit, commitMissed, Numbers
    <3>3. QED
      BY <3>1, <3>2
  <2>3. ASSUME NEW p \in Replicas, counter'[p] \in {0, counter[p]}
        PROVE  counter'[p] - counter[p] <= allowed[p]
    BY <2>1, <2>3 DEF Numbers
  <2>4. CASE \E r \in Replicas : Commit(r)
    BY <2>2, <2>4
  <2>5. CASE ~\E r \in Replicas : Commit(r)
    <3>1. \A p \in Replicas : counter'[p] \in {0, counter[p]}
      BY <1>1, <2>1, <2>5
         DEF Next, Protocol, Users, Get, GetNotFound, Abort, Measure, EarlyReturn,
             Serve, Refuse, Abandon, FinishEarly, Crash, Exit, Die, Elect,
             CacheSync, LoseLease, OrphanLands, OrphanLost, UserEdit,
             UserCreate, UserDelete, memory, vars
    <3>2. QED
      BY <2>3, <3>1
  <2>6. QED
    BY <2>4, <2>5
<1>2. QED
  BY <1>1, Invariant, PTL DEF Spec, NoPhantomBurn

(* Without a crash, a lost lease or an abandoned request, the leader's     *)
(* baseline always covers the checkpoint a marker hides.                   *)
THEOREM MarkerSafe == Spec => []MarkerRemembered
<1>1. IInv => MarkerRemembered
  BY DEF IInv, OneProcessWithoutFaults, KeeperRemembers, MarkerRemembered
<1>2. QED
  BY <1>1, Invariant, PTL

(* The latch in the API server only advances while the monitor exists.     *)
THEOREM LatchMonotone == Spec => LatchNeverRegresses
<1>1. ASSUME IInv, [Next]_vars
      PROVE  [store.present /\ store'.present
                => store'.latch >= store.latch]_vars
  <2>1. Numbers /\ store \in Monitor
    BY <1>1, TypeNumbers DEF IInv, TypeOK
  <2>2. ASSUME NEW q \in Monitor, NEW by, Land(q, by), UpdateOf(q)
        PROVE  store'.latch >= store.latch
    <3>1. store' = store \/ store'.latch = q.latch
      BY <1>1, <2>2, LandFields DEF IInv
    <3>2. QED
      BY <2>1, <2>2, <3>1 DEF UpdateOf, Numbers
  <2>3. ASSUME NEW r \in Replicas, Serve(r)
        PROVE  store'.latch >= store.latch
    <3>1. cjm[r] \in Monitor /\ UpdateOf(cjm[r])
      BY <1>1, <2>3 DEF Serve, Land, Accepts, IInv, TypeOK,
                        VersionNamesContent
    <3>2. QED
      BY <2>2, <2>3, <3>1 DEF Serve
  <2>4. ASSUME NEW q \in orphans, OrphanLands(q)
        PROVE  store'.latch >= store.latch
    <3>1. q \in Monitor /\ UpdateOf(q)
      BY <1>1, <2>4 DEF OrphanLands, Land, Accepts, IInv, TypeOK,
                        VersionNamesContent
    <3>2. QED
      BY <2>2, <2>4, <3>1 DEF OrphanLands
  <2>5. ASSUME NEW s \in Specs, UserEdit(s)
        PROVE  store'.latch >= store.latch
    <3>1. store'.latch = store.latch
      BY <2>1, <2>5 DEF UserEdit, Monitor
    <3>2. QED
      BY <2>1, <3>1 DEF Numbers
  <2>6. CASE UserDelete \/ \E s \in Specs : UserCreate(s)
    BY <2>6 DEF UserDelete, UserCreate, Blank
  <2>7. CASE store' = store
    BY <2>1, <2>7 DEF Numbers
  <2>8. QED
    BY <1>1, <2>3, <2>4, <2>5, <2>6, <2>7
       DEF Next, Protocol, Users, Get, GetNotFound, Abort, Measure, EarlyReturn,
           Refuse, Abandon, Commit, FinishEarly, Crash, Exit, Die, Elect,
           CacheSync, LoseLease, OrphanLost, api, vars
<1>2. QED
  BY <1>1, Invariant, PTL DEF Spec, LatchNeverRegresses

-----------------------------------------------------------------------------
(* A landed update moves the checkpoint to its count on the happy path and *)
(* leaves it alone on every other one.                                     *)
LEMMA LandCheckpoint ==
    ASSUME NEW q, NEW by, Land(q, by)
    PROVE  ckpt' = IF q.reason = "ReconcileSuccess" THEN q.missed ELSE ckpt
BY DEF Land

(* The positive difference, as the ledger writes it. *)
LEMMA PosValue ==
    ASSUME NEW n \in Counts, NEW c \in Counts
    PROVE  Pos(n - c) = IF n > c THEN n - c ELSE 0
<1>1. n \in Nat /\ c \in Nat
  BY CountsAssumption
<1>2. QED
  BY <1>1 DEF Pos

(* A served update is a grant, or the end of one that is empty. *)
LEMMA LedgerServe ==
    ASSUME IInv, NEW r \in Replicas, Serve(r) PROVE Ledger!Next
<1>1. /\ Numbers /\ cjm[r].missed \in Counts /\ ckpt \in Counts
      /\ allowed \in [Replicas -> Nat] /\ counter \in [Replicas -> Nat]
  BY TypeNumbers DEF IInv, TypeOK, Monitor
<1>2. UNCHANGED <<counter, faults>>
  BY DEF Serve, memory
<1>3. CASE cjm[r].reason = "ReconcileSuccess"
  <2>1. ckpt' = cjm[r].missed
    BY <1>3, LandCheckpoint DEF Serve
  <2>2. allowed' = [allowed EXCEPT ![r] = Rise(cjm[r], r)]
    BY <1>3 DEF Serve
  <2>3. Marked /\ keeper # r => faults # 0
    BY DEF IInv, OneProcessWithoutFaults, Fresh, Serve
  <2>4. \/ Rise(cjm[r], r) = cjm[r].missed /\ faults # 0
        \/ Rise(cjm[r], r) = IF cjm[r].missed > ckpt
                             THEN cjm[r].missed - ckpt ELSE 0
    <3>1. Pos(cjm[r].missed - ckpt) = IF cjm[r].missed > ckpt
                                      THEN cjm[r].missed - ckpt ELSE 0
      BY <1>1, PosValue
    <3>2. QED
      BY <2>3, <3>1 DEF Rise
  <2>5. Ledger!Grant(r, cjm[r].missed)
    BY <1>2, <2>1, <2>2, <2>4 DEF Ledger!Grant
  <2>6. QED
    BY <1>1, <2>5 DEF Ledger!Next
<1>4. CASE cjm[r].reason # "ReconcileSuccess"
  <2>1. ckpt' = ckpt /\ allowed' = [allowed EXCEPT ![r] = 0]
    BY <1>4, LandCheckpoint DEF Serve
  <2>2. 0 \in 0..allowed[r] /\ counter' = [counter EXCEPT ![r] = @ + 0]
    BY <1>1, <1>2
  <2>3. Ledger!Draw(r)
    BY <1>2, <2>1, <2>2 DEF Ledger!Draw
  <2>4. QED
    BY <2>3 DEF Ledger!Next
<1>5. QED
  BY <1>3, <1>4

(* A return draws nothing. *)
LEMMA LedgerReturn ==
    ASSUME IInv, NEW r \in Replicas, Return(r), UNCHANGED <<ckpt, counter, faults>>
    PROVE  Ledger!Next
<1>1. allowed \in [Replicas -> Nat] /\ counter \in [Replicas -> Nat]
  BY DEF IInv, TypeOK
<1>2. 0 \in 0..allowed[r] /\ counter' = [counter EXCEPT ![r] = @ + 0]
  BY <1>1
<1>3. Ledger!Draw(r)
  BY <1>2 DEF Ledger!Draw, Return
<1>4. QED
  BY <1>3 DEF Ledger!Next

(* commitMissed draws what its write was granted, or less. *)
LEMMA LedgerCommit ==
    ASSUME IInv, NEW r \in Replicas, Commit(r) PROVE Ledger!Next
<1>1. /\ Numbers /\ allowed \in [Replicas -> Nat]
      /\ counter \in [Replicas -> Nat]
  BY TypeNumbers DEF IInv, TypeOK
<1>2. Pos(cjm[r].missed - prev[r]) \in 0..allowed[r]
  <2>1. Pos(cjm[r].missed - prev[r]) <= allowed[r]
    BY DEF Commit, IInv, CommitCovered
  <2>2. Pos(cjm[r].missed - prev[r]) \in Nat
    BY <1>1 DEF Pos, Numbers
  <2>3. QED
    BY <1>1, <2>1, <2>2
<1>3. /\ counter' = [counter EXCEPT ![r] = @ + Pos(cjm[r].missed - prev[r])]
      /\ allowed' = [allowed EXCEPT ![r] = 0]
      /\ UNCHANGED <<ckpt, faults>>
  BY DEF Commit, commitMissed, Return, api
<1>4. Ledger!Draw(r)
  BY <1>2, <1>3 DEF Ledger!Draw
<1>5. QED
  BY <1>4 DEF Ledger!Next

(* The failures: a process ends, a request is given up, a lease is lost.   *)
LEMMA LedgerFailure ==
    ASSUME IInv, NEW r \in Replicas,
           Crash(r) \/ Exit(r) \/ Abandon(r) \/ LoseLease
    PROVE  Ledger!Next
<1>1. faults \in Nat
  BY BoundsAssumption DEF IInv, TypeOK
<1>2. CASE Crash(r) \/ Exit(r)
  <2>1. (faults # 0)' = TRUE
    BY <1>1, <1>2 DEF Crash, Exit, Die, IInv, OneProcessWithoutFaults
  <2>2. Ledger!Restart(r)
    BY <1>2, <2>1 DEF Crash, Exit, Die, Return, Ledger!Restart
  <2>3. QED
    BY <2>2 DEF Ledger!Next
<1>3. CASE Abandon(r)
  <2>1. (faults # 0)' = TRUE
    BY <1>1, <1>3 DEF Abandon
  <2>2. Ledger!GiveUp(r)
    BY <1>3, <2>1 DEF Abandon, Return, api, memory, Ledger!GiveUp
  <2>3. QED
    BY <2>2 DEF Ledger!Next
<1>4. CASE LoseLease
  <2>1. (faults # 0)' = TRUE
    BY <1>1, <1>4 DEF LoseLease
  <2>2. Ledger!Fail
    BY <1>4, <2>1 DEF LoseLease, api, locals, memory, Ledger!Fail
  <2>3. QED
    BY <2>2 DEF Ledger!Next
<1>5. QED
  BY <1>2, <1>3, <1>4

(* An update nobody waits for moves the checkpoint, if anything. *)
LEMMA LedgerOrphan ==
    ASSUME IInv, NEW q \in orphans, OrphanLands(q)
    PROVE  Ledger!Next \/ UNCHANGED Ledger!vars
<1>1. q.missed \in Counts /\ faults # 0
  BY DEF IInv, TypeOK, Monitor, OneProcessWithoutFaults
<1>2. UNCHANGED <<allowed, counter, faults>>
  BY DEF OrphanLands, locals, memory
<1>3. CASE q.reason = "ReconcileSuccess"
  <2>1. Ledger!Orphan(q.missed)
    BY <1>1, <1>2, <1>3, LandCheckpoint DEF OrphanLands, Ledger!Orphan
  <2>2. QED
    BY <1>1, <2>1 DEF Ledger!Next
<1>4. CASE q.reason # "ReconcileSuccess"
  BY <1>2, <1>4, LandCheckpoint DEF OrphanLands, Ledger!vars
<1>5. QED
  BY <1>3, <1>4

(* Every step of the protocol is a step of the ledger or leaves it alone.  *)
LEMMA LedgerStep ==
    ASSUME IInv, [Next]_vars PROVE Ledger!Next \/ UNCHANGED Ledger!vars
<1>1. ASSUME NEW r \in Replicas,
             Abort(r) \/ Refuse(r) \/ FinishEarly(r)
      PROVE  Ledger!Next
  BY <1>1, LedgerReturn DEF Abort, Refuse, FinishEarly, api, memory
<1>2. ASSUME NEW r \in Replicas, GetNotFound(r) PROVE Ledger!Next
  <2>1. Ledger!Drop(r)
    BY <1>2 DEF GetNotFound, api, locals, Ledger!Drop
  <2>2. QED
    BY <2>1 DEF Ledger!Next
<1>3. CASE UserDelete
  <2>1. Ledger!Delete
    BY <1>3 DEF UserDelete, locals, memory, Ledger!Delete
  <2>2. QED
    BY <2>1 DEF Ledger!Next
<1>4. CASE LoseLease
  <2>1. ASSUME Replicas = {} PROVE FALSE
    BY <1>4, <2>1 DEF LoseLease, IInv, TypeOK
  <2>2. QED
    BY <1>4, <2>1, LedgerFailure
<1>5. ASSUME NEW r \in Replicas,
             \/ Get(r) \/ Elect(r) \/ CacheSync(r)
             \/ \E l \in Times : \/ \E m \in Counts : Measure(r, m, l)
                                 \/ \E o \in Outcomes : EarlyReturn(r, o, l)
      PROVE  UNCHANGED Ledger!vars
  BY <1>5 DEF Get, Elect, CacheSync, Measure, EarlyReturn, api, locals, memory,
              Ledger!vars
<1>6. ASSUME \/ \E q \in orphans : OrphanLost(q)
             \/ \E s \in Specs : UserEdit(s) \/ UserCreate(s)
             \/ UNCHANGED vars
      PROVE  UNCHANGED Ledger!vars
  BY <1>6 DEF OrphanLost, UserEdit, UserCreate, api, locals, memory, vars,
              Ledger!vars
<1>7. QED
  BY <1>1, <1>2, <1>3, <1>4, <1>5, <1>6, LedgerServe, LedgerCommit,
     LedgerFailure, LedgerOrphan DEF Next, Protocol, Users

(* The reconcile protocol implements the ledger, whatever the number of    *)
(* replicas, the counts and the failures.                                  *)
THEOREM ImplementsLedger == Spec => LedgerSpec
<1>1. Init => Ledger!Init
  BY DEF Init, Ledger!Init
<1>2. IInv /\ [Next]_vars => [Ledger!Next]_(Ledger!vars)
  BY LedgerStep
<1>3. QED
  BY <1>1, <1>2, Invariant, PTL DEF Spec, LedgerSpec, Ledger!Spec
=============================================================================
