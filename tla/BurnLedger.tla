----------------------------- MODULE BurnLedger -----------------------------
(***************************************************************************)
(* What cronguard_missed_runs_total promises of one monitor, without       *)
(* caches, requests, baselines or leases: a ledger.  A durable write moves *)
(* the checkpoint and grants its writer, and nobody else, the amount the   *)
(* checkpoint rose by.  A grant is drawn once, at most in full, or is lost *)
(* with its process.  Once something has failed, a write may be granted    *)
(* its whole count: the checkpoint may have been hidden by a marker of a   *)
(* process that is gone.                                                   *)
(***************************************************************************)
EXTENDS Integers

CONSTANTS
    Replicas, \* the processes that count
    Counts    \* the values of a checkpoint

VARIABLES
    checkpoint, \* the durable count
    granted,    \* replica -> what it may still add
    total,      \* replica -> its counter series
    failed      \* a process crashed, lost its lease or gave up a request

vars == <<checkpoint, granted, total, failed>>

Init ==
    /\ checkpoint = 0
    /\ granted = [r \in Replicas |-> 0]
    /\ total = [r \in Replicas |-> 0]
    /\ failed = FALSE

(* A write of r that persists n, and will be answered. *)
Grant(r, n) ==
    /\ checkpoint' = n
    /\ \E g \in {IF n > checkpoint THEN n - checkpoint ELSE 0}
                   \cup {g \in {n} : failed} :
          granted' = [granted EXCEPT ![r] = g]
    /\ UNCHANGED <<total, failed>>

(* A write whose sender no longer waits for it grants nothing. *)
Orphan(n) ==
    /\ failed
    /\ checkpoint' = n
    /\ UNCHANGED <<granted, total, failed>>

(* The answer: some of the grant is drawn, the rest of it is gone. *)
Draw(r) ==
    /\ \E k \in 0..granted[r] : total' = [total EXCEPT ![r] = @ + k]
    /\ granted' = [granted EXCEPT ![r] = 0]
    /\ UNCHANGED <<checkpoint, failed>>

(* A process ends: its series and its grant are lost. *)
Restart(r) ==
    /\ granted' = [granted EXCEPT ![r] = 0]
    /\ total' = [total EXCEPT ![r] = 0]
    /\ failed' = TRUE
    /\ UNCHANGED checkpoint

(* A process gives up a request: nothing will be drawn for it. *)
GiveUp(r) ==
    /\ granted' = [granted EXCEPT ![r] = 0]
    /\ failed' = TRUE
    /\ UNCHANGED <<checkpoint, total>>

(* A lease is lost. *)
Fail ==
    /\ failed' = TRUE
    /\ UNCHANGED <<checkpoint, granted, total>>

(* The monitor is deleted; a process that notices drops its series. *)
Delete ==
    /\ checkpoint' = 0
    /\ UNCHANGED <<granted, total, failed>>

Drop(r) ==
    /\ total' = [total EXCEPT ![r] = 0]
    /\ UNCHANGED <<checkpoint, granted, failed>>

Next ==
    \/ \E r \in Replicas :
          \/ \E n \in Counts : Grant(r, n)
          \/ Draw(r) \/ Restart(r) \/ GiveUp(r) \/ Drop(r)
    \/ \E n \in Counts : Orphan(n)
    \/ Fail \/ Delete

Spec == Init /\ [][Next]_vars
=============================================================================
