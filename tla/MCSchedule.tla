----------------------------- MODULE MCSchedule -----------------------------
(* TLC instance of Schedule: a calendar of short years, every third one a  *)
(* day longer.                                                             *)
EXTENDS Schedule

CONSTANTS YearLen, MaxSlots

MCYearStart(y) == y * YearLen + y \div 3
MCYear(t) == CHOOSE y \in 0..LastYear :
                 MCYearStart(y) <= t /\ t < MCYearStart(y + 1)
MCSchedules == {s \in SUBSET (1..Horizon) : Cardinality(s) <= MaxSlots}
=============================================================================
