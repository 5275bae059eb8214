---------------------------- MODULE MCJobHistory ----------------------------
(* TLC instances of JobHistory. *)
EXTENDS JobHistory

CONSTANTS r1, r2, MaxName

MCReplicas == {r1, r2}
MCOne == {r1}
MCNames == 1..MaxName
MCMeasured == {"ReconcileSuccess"}
MCAll == {"ReconcileSuccess", "CronJobSuspended", "CronJobNotFound",
          "InvalidSchedule", "UnsatisfiableSchedule"}
MCNone == {}
MCFirst == {1}
MCSecond == {2}
MCEndings == {"SuccessCriteriaMet", "Complete", "Failed", "Undated"}
MCFinal == {"Complete", "Failed"}
MCSucceeding == {"SuccessCriteriaMet", "Complete"}
=============================================================================
