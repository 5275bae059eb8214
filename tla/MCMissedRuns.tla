---------------------------- MODULE MCMissedRuns ----------------------------
(* TLC instances of MissedRuns. *)
EXTENDS MissedRuns, TLC

CONSTANTS r1, MaxCount

MCOne == {r1}
MCCounts == 0..MaxCount
MCTimes == 0..MaxTime
MCSlots == 1..(MaxTime - Grace)
MCInherit == {"inherit"}
MCEdited == {"inherit", "edited"}

(* The CronJob is never deleted, so its witness never goes back; its       *)
(* schedule may be broken and repaired.                                    *)
MCBroken == {"ReconcileSuccess", "InvalidSchedule"}

(* It is deleted and re-created. *)
MCRecreated == {"ReconcileSuccess", "CronJobNotFound"}
=============================================================================
