--------------------------- MODULE MCTransitions ---------------------------
(* TLC instances of Transitions. *)
EXTENDS Transitions

MCVerdicts == {"ReconcileSuccess", "CronJobSuspended", "UnsatisfiableSchedule"}
MCSpecs == {[maxFailures |-> 1, budget |-> TRUE, override |-> TRUE],
            [maxFailures |-> 2, budget |-> FALSE, override |-> FALSE]}
=============================================================================
