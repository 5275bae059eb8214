---------------------------- MODULE MCWorkQueue ----------------------------
(* TLC instances of WorkQueue. *)
EXTENDS WorkQueue

MCVerdicts == {"ReconcileSuccess", "CronJobNotFound"}
=============================================================================
