------------------------- MODULE LeaderLabelProofs -------------------------
(***************************************************************************)
(* Type correctness of LeaderLabel, and that a pod scraped without the     *)
(* lease is about to stop being so, for every set of pods and every number *)
(* of lost leases, crashes and failed patches.                             *)
(***************************************************************************)
EXTENDS LeaderLabel, TLAPS

(* The lease holder's process has seen its election. *)
HolderElected == holder # Nobody => holder \in elected

(* A goroutine past <-mgr.Elected() belongs to a process that was elected: *)
(* the channel never opens again and a new process starts before it.       *)
PastElection == \A p \in Pods : goroutine[p] \in {"leader", "done"} => p \in elected

(* Only a patch that failed or lost its process is left on the wire. *)
WireClean == failures = 0 => late = {}

(* Who may carry the leader label while no patch failed. *)
LabelsExplained ==
    failures = 0 =>
        \A p \in Pods : label[p] = "leader" => p \in elected \/ goroutine[p] = "standby"

(* The inductive invariant: where the goroutines stand decides who may     *)
(* carry the label, and an empty wire keeps older patches from landing.    *)
IInv == TypeOK /\ HolderElected /\ PastElection /\ WireClean /\ LabelsExplained

(* A patch that stays on the wire is one failure and one known patch more. *)
LEMMA OutlivesType ==
    ASSUME TypeOK, NEW p \in Pods, goroutine[p] \in Roles, Outlives(p)
    PROVE  /\ late' \subseteq Patch
           /\ failures' \in 1..MaxFailures
<1>1. [pod |-> p, role |-> goroutine[p]] \in Patch
  BY DEF Patch
<1>. QED  BY <1>1, BoundsAssumption DEF Outlives, TypeOK

(* A restart keeps the types of what it writes. *)
LEMMA RestartType ==
    ASSUME TypeOK, NEW p \in Pods, Restart(p)
    PROVE  /\ elected' \subseteq Pods
           /\ goroutine' \in [Pods -> Positions]
           /\ label' \in [Pods -> Roles \cup {"none"}]
           /\ late' \subseteq Patch
           /\ failures' \in 0..MaxFailures
           /\ failures' = 0 => failures = 0 /\ late' = late
<1>1. CASE UNCHANGED <<late, failures>>
  BY <1>1 DEF Restart, Start, TypeOK, Positions
<1>2. CASE goroutine[p] \in Roles /\ Outlives(p)
  BY <1>2, OutlivesType, BoundsAssumption DEF Restart, Start, TypeOK, Positions
<1>. QED  BY <1>1, <1>2 DEF Restart

(* Every step keeps the types. *)
LEMMA TypeNext == TypeOK /\ [Next]_vars => TypeOK'
<1>. SUFFICES ASSUME TypeOK, [Next]_vars  PROVE TypeOK'
  OBVIOUS
<1>1. ASSUME NEW p \in Pods, SetRole(p)  PROVE TypeOK'
  BY <1>1 DEF SetRole, TypeOK, After, Positions, Roles
<1>2. ASSUME NEW p \in Pods, SetRoleFails(p)  PROVE TypeOK'
  <2>1. goroutine' \in [Pods -> Positions]
    BY <1>2 DEF SetRoleFails, TypeOK, After, Positions
  <2>2. late' \subseteq Patch /\ failures' \in 0..MaxFailures
    <3>1. CASE Outlives(p)
      BY <1>2, <3>1, OutlivesType, BoundsAssumption DEF SetRoleFails
    <3>2. CASE failures < MaxFailures /\ failures' = failures + 1 /\ late' = late
      BY <3>2, BoundsAssumption DEF TypeOK
    <3>. QED  BY <1>2, <3>1, <3>2 DEF SetRoleFails
  <2>. QED  BY <1>2, <2>1, <2>2 DEF SetRoleFails, TypeOK
<1>3. ASSUME NEW p \in Pods, Elected(p)  PROVE TypeOK'
  BY <1>3 DEF Elected, TypeOK, Positions
<1>4. ASSUME NEW p \in Pods, Elect(p)  PROVE TypeOK'
  BY <1>4 DEF Elect, TypeOK
<1>5. ASSUME NEW p \in Pods, Exit(p)  PROVE TypeOK'
  BY <1>5, RestartType DEF Exit, TypeOK
<1>6. ASSUME NEW p \in Pods, Crash(p)  PROVE TypeOK'
  BY <1>6, RestartType, BoundsAssumption DEF Crash, TypeOK
<1>7. ASSUME NEW q \in late, PatchLands(q)  PROVE TypeOK'
  <2>1. q \in Patch
    BY DEF TypeOK
  <2>. QED  BY <1>7, <2>1 DEF PatchLands, TypeOK, Patch
<1>8. CASE LoseLease
  BY <1>8, BoundsAssumption DEF LoseLease, TypeOK
<1>9. CASE UNCHANGED vars
  BY <1>9 DEF vars, TypeOK
<1>. QED  BY <1>1, <1>2, <1>3, <1>4, <1>5, <1>6, <1>7, <1>8, <1>9 DEF Next

(* A fresh pod has neither lease nor label. *)
LEMMA InvInit == Init => IInv
<1>. SUFFICES ASSUME Init  PROVE IInv
  OBVIOUS
<1>1. TypeOK
  BY BoundsAssumption DEF Init, TypeOK, Positions, Roles
<1>. QED
  BY <1>1 DEF Init, IInv, HolderElected, PastElection, WireClean, LabelsExplained

(* A restart takes the election and the goroutine's progress away at once, *)
(* so the pod's label is explained by the standby patch in flight.         *)
LEMMA RestartKeeps ==
    ASSUME IInv, NEW p \in Pods, Restart(p), holder' # p, holder' \in {holder, Nobody}
    PROVE  HolderElected' /\ PastElection' /\ WireClean' /\ LabelsExplained'
<1>. USE DEF IInv
<1>1. HolderElected'
  BY DEF HolderElected, Restart
<1>2. goroutine'[p] = "standby" /\ \A q \in Pods \ {p} : goroutine'[q] = goroutine[q]
  BY DEF Restart, Start, TypeOK
<1>3. PastElection'
  BY <1>2 DEF PastElection, Restart
<1>4. failures' = 0 => failures = 0 /\ late' = late
  BY RestartType
<1>. QED
  BY <1>1, <1>2, <1>3, <1>4 DEF WireClean, LabelsExplained, Restart

(* Every step keeps the inductive invariant. *)
LEMMA InvNext == IInv /\ [Next]_vars => IInv'
<1>. SUFFICES ASSUME IInv, [Next]_vars  PROVE IInv'
  OBVIOUS
<1>. USE DEF IInv
<1>0. TypeOK'
  BY TypeNext
<1>1. ASSUME NEW p \in Pods, SetRole(p)  PROVE IInv'
  <2>1. goroutine'[p] = After(goroutine[p]) /\ label'[p] = goroutine[p]
        /\ \A q \in Pods \ {p} : goroutine'[q] = goroutine[q] /\ label'[q] = label[q]
    BY <1>1 DEF SetRole, TypeOK
  <2>2. PastElection'
    BY <1>1, <2>1 DEF PastElection, SetRole, After, Roles
  <2>3. LabelsExplained'
    BY <1>1, <2>1 DEF LabelsExplained, PastElection, SetRole, Roles
  <2>. QED  BY <1>0, <1>1, <2>2, <2>3 DEF SetRole, HolderElected, WireClean
<1>2. ASSUME NEW p \in Pods, SetRoleFails(p)  PROVE IInv'
  <2>1. goroutine'[p] = After(goroutine[p])
        /\ \A q \in Pods \ {p} : goroutine'[q] = goroutine[q]
    BY <1>2 DEF SetRoleFails, TypeOK
  <2>2. PastElection'
    BY <1>2, <2>1 DEF PastElection, SetRoleFails, After, Roles
  <2>3. failures' # 0
    BY <1>2, BoundsAssumption DEF SetRoleFails, Outlives, TypeOK
  <2>. QED  BY <1>0, <1>2, <2>2, <2>3 DEF SetRoleFails, HolderElected, WireClean, LabelsExplained
<1>3. ASSUME NEW p \in Pods, Elected(p)  PROVE IInv'
  <2>1. p \in elected /\ goroutine'[p] = "leader"
        /\ \A q \in Pods \ {p} : goroutine'[q] = goroutine[q]
    BY <1>3 DEF Elected, TypeOK
  <2>. QED
    BY <1>0, <1>3, <2>1 DEF Elected, HolderElected, PastElection, WireClean, LabelsExplained
<1>4. ASSUME NEW p \in Pods, Elect(p)  PROVE IInv'
  BY <1>0, <1>4 DEF Elect, HolderElected, PastElection, WireClean, LabelsExplained
<1>5. ASSUME NEW p \in Pods, Exit(p)  PROVE IInv'
  BY <1>0, <1>5, RestartKeeps DEF Exit
<1>6. ASSUME NEW p \in Pods, Crash(p)  PROVE IInv'
  BY <1>0, <1>6, RestartKeeps, NobodyAssumption DEF Crash
<1>7. ASSUME NEW q \in late, PatchLands(q)  PROVE IInv'
  <2>1. failures' # 0
    BY <1>7 DEF PatchLands, WireClean
  <2>. QED
    BY <1>0, <1>7, <2>1 DEF PatchLands, HolderElected, PastElection, WireClean, LabelsExplained
<1>8. CASE LoseLease
  BY <1>0, <1>8 DEF LoseLease, HolderElected, PastElection, WireClean, LabelsExplained
<1>9. CASE UNCHANGED vars
  BY <1>0, <1>9 DEF vars, HolderElected, PastElection, WireClean, LabelsExplained
<1>. QED  BY <1>1, <1>2, <1>3, <1>4, <1>5, <1>6, <1>7, <1>8, <1>9 DEF Next

-----------------------------------------------------------------------------
(* The inductive invariant holds of every behaviour. *)
THEOREM Invariant == Spec => []IInv
  BY InvInit, InvNext, PTL DEF Spec

(* Leases, goroutines, labels and patches on the wire keep their types. *)
THEOREM TypeCorrect == Spec => []TypeOK
<1>1. IInv => TypeOK
  BY DEF IInv
<1>. QED  BY <1>1, Invariant, PTL

(* As long as no patch failed or outlived its process, a pod that is       *)
(* scraped without the lease was elected and must exit, or its new process *)
(* has the standby patch in flight (SetRole of main's labelling goroutine, *)
(* which is never called when the lease is lost).                          *)
THEOREM StaleLabelsPass == Spec => []StaleLabelPasses
<1>1. IInv => StaleLabelPasses
  BY DEF IInv, LabelsExplained, StaleLabelPasses, Scraped
<1>. QED  BY <1>1, Invariant, PTL
=============================================================================
