--------------------------- MODULE MCBurnCounter ---------------------------
(* TLC instances of BurnCounter. *)
EXTENDS BurnCounter, TLC

CONSTANTS r1, r2, MaxCount, MaxTime

MCReplicas == {r1, r2}
MCOne == {r1}
MCCounts == 0..MaxCount
MCTimes == 0..MaxTime
MCSpecs == {"spec"}
MCTwoSpecs == {"plain", "pinned"}
MCOutcomes == {"ReconcileSuccess", "CronJobSuspended", "UnsatisfiableSchedule"}

(* The monitor starts with the plain spec; specs are interchangeable here. *)
PlainInit == Init /\ store.spec = "plain"
PlainSpec == PlainInit /\ [][Next]_vars

(* Nobody deletes the monitor. *)
SteadySpec == Init /\ [][Next /\ store'.present]_vars

MCSymmetry == Permutations(MCReplicas)
=============================================================================
