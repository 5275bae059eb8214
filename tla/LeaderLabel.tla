---------------------------- MODULE LeaderLabel ----------------------------
(***************************************************************************)
(* The cronguard.io/role label of the operator's pods.  Only a pod that    *)
(* carries role=leader is scraped.  Every process patches its own pod:     *)
(* standby once at start-up, leader once when it is elected.  Nothing is   *)
(* patched when the lease is lost: the manager returns, the process exits, *)
(* and its successor in the same pod starts over with standby.             *)
(*                                                                         *)
(* A patch carries no resourceVersion.  One that its process gave up on (a *)
(* timeout, a crash) may still land, after later ones.                     *)
(***************************************************************************)
EXTENDS Naturals

CONSTANTS
    Pods,       \* the operator's pods
    Nobody,     \* not a pod
    MaxFaults,  \* bound: lost leases and crashes
    MaxFailures \* bound: patches that fail or outlive their process

ASSUME NobodyAssumption == Nobody \notin Pods
ASSUME BoundsAssumption == MaxFaults \in Nat /\ MaxFailures \in Nat

VARIABLES
    holder,    \* the pod that holds the lease, or Nobody
    elected,   \* pods whose process has been elected (mgr.Elected() closed)
    goroutine, \* pod -> where its labelling goroutine stands
    label,     \* pod -> its role label ("none": never labelled)
    late,      \* patches on the wire that no process waits for
    faults,
    failures

vars == <<holder, elected, goroutine, label, late, faults, failures>>

Roles == {"standby", "leader"}
Patch == [pod: Pods, role: Roles]

(* The goroutine's position: a SetRole call in flight, or between the two. *)
Positions == {"standby", "waiting", "leader", "done"}

(* Mutant: the goroutine returns after its first call. *)
AfterReturns(p) == "done"

(* The position after the SetRole call of position p has returned.  Both   *)
(* errors are only logged.                                                 *)
After(p) == IF p = "standby" THEN "waiting" ELSE "done"

Init ==
    /\ holder = Nobody
    /\ elected = {}
    /\ goroutine = [p \in Pods |-> "standby"]
    /\ label = [p \in Pods |-> "none"]
    /\ late = {}
    /\ faults = 0
    /\ failures = 0

-----------------------------------------------------------------------------
(* Mutant: the role is read when the goroutine has already moved on. *)
SetRoleAfterwards(p) ==
    /\ goroutine[p] \in Roles
    /\ goroutine' = [goroutine EXCEPT ![p] = After(@)]
    /\ label' = [label EXCEPT ![p] = goroutine'[p]]
    /\ UNCHANGED <<holder, elected, late, faults, failures>>

(* The patch lands and the call returns. *)
SetRole(p) ==
    /\ goroutine[p] \in Roles
    /\ label' = [label EXCEPT ![p] = goroutine[p]]
    /\ goroutine' = [goroutine EXCEPT ![p] = After(@)]
    /\ UNCHANGED <<holder, elected, late, faults, failures>>

(* The patch in flight stays on the wire without its process. *)
Outlives(p) ==
    /\ failures < MaxFailures
    /\ failures' = failures + 1
    /\ late' = late \cup {[pod |-> p, role |-> goroutine[p]]}

(* The call returns an error.  The API server refused the patch, or the    *)
(* client gave up and the patch is still on its way.                       *)
SetRoleFails(p) ==
    /\ goroutine[p] \in Roles
    /\ goroutine' = [goroutine EXCEPT ![p] = After(@)]
    /\ \/ Outlives(p)
       \/ failures < MaxFailures /\ failures' = failures + 1 /\ late' = late
    /\ UNCHANGED <<holder, elected, label, faults>>

(* <-mgr.Elected(): closed once, and it stays closed. *)
Elected(p) ==
    /\ goroutine[p] = "waiting"
    /\ p \in elected
    /\ goroutine' = [goroutine EXCEPT ![p] = "leader"]
    /\ UNCHANGED <<holder, elected, label, late, faults, failures>>

PatchLands(q) ==
    /\ label' = [label EXCEPT ![q.pod] = q.role]
    /\ late' = late \ {q}
    /\ UNCHANGED <<holder, elected, goroutine, faults, failures>>

-----------------------------------------------------------------------------
(* Leader election and processes (external).                               *)

Elect(p) ==
    /\ holder = Nobody
    /\ p \notin elected
    /\ holder' = p
    /\ elected' = elected \cup {p}
    /\ UNCHANGED <<goroutine, label, late, faults, failures>>

LoseLease ==
    /\ holder # Nobody
    /\ faults < MaxFaults
    /\ faults' = faults + 1
    /\ holder' = Nobody
    /\ UNCHANGED <<elected, goroutine, label, late, failures>>

(* Mutant: the process that starts over does not patch standby. *)
StartUnlabelled(p) == goroutine' = [goroutine EXCEPT ![p] = "waiting"]

(* main starts the goroutine, which patches standby first. *)
Start(p) == goroutine' = [goroutine EXCEPT ![p] = "standby"]

(* The process ends and the container starts a new one in the same pod.  A *)
(* patch it had in flight is lost, or has no one to wait for it any more.  *)
Restart(p) ==
    /\ elected' = elected \ {p}
    /\ Start(p)
    /\ \/ UNCHANGED <<late, failures>>
       \/ goroutine[p] \in Roles /\ Outlives(p)
    /\ UNCHANGED label

(* mgr.Start returns an error once the lease is lost; main exits. *)
Exit(p) ==
    /\ p \in elected /\ holder # p
    /\ Restart(p)
    /\ UNCHANGED <<holder, faults>>

Crash(p) ==
    /\ faults < MaxFaults
    /\ faults' = faults + 1
    /\ Restart(p)
    /\ holder' = IF holder = p THEN Nobody ELSE holder

Next ==
    \/ \E p \in Pods :
          \/ SetRole(p) \/ SetRoleFails(p) \/ Elected(p)
          \/ Elect(p) \/ Exit(p) \/ Crash(p)
    \/ \E q \in late : PatchLands(q)
    \/ LoseLease

Spec == Init /\ [][Next]_vars

(* Calls return, a free lease is taken, a deposed process exits, what is   *)
(* on the wire arrives.                                                    *)
Fairness ==
    /\ \A p \in Pods : /\ WF_vars(SetRole(p) \/ SetRoleFails(p))
                       /\ WF_vars(Elected(p))
                       /\ WF_vars(Exit(p))
    /\ WF_vars(\E p \in Pods : Elect(p))
    /\ WF_vars(\E q \in late : PatchLands(q))

LiveSpec == Spec /\ Fairness

-----------------------------------------------------------------------------
TypeOK ==
    /\ holder \in Pods \cup {Nobody}
    /\ elected \subseteq Pods
    /\ goroutine \in [Pods -> Positions]
    /\ label \in [Pods -> Roles \cup {"none"}]
    /\ late \subseteq Patch
    /\ faults \in 0..MaxFaults
    /\ failures \in 0..MaxFailures

(* The pods the chart's ServiceMonitor keeps. *)
Scraped == {p \in Pods : label[p] = "leader"}

(* A pod that is scraped without holding the lease is about to stop being  *)
(* so: its process was elected and must exit, or a new process has its     *)
(* standby patch in flight.  So two pods are scraped only between a lost   *)
(* lease and the restart of its last holder, as long as no patch failed or *)
(* outlived its process.                                                   *)
StaleLabelPasses ==
    failures = 0 =>
        \A p \in Scraped :
            holder = p \/ p \in elected \/ goroutine[p] = "standby"

(* When leases and processes are stable, the leader and nobody else is     *)
(* scraped, if every patch was answered: SetRole is not retried, and a     *)
(* failed one leaves no pod, or the wrong one, scraped until the next      *)
(* election.                                                               *)
LabelsConverge == [](failures = 0) => <>[](Scraped = {holder})
=============================================================================
