------------------------------ MODULE Schedule ------------------------------
(***************************************************************************)
(* The search loops of internal/schedule: Prev, NextSlot and               *)
(* MissedRunsSince, over a library (robfig/cron) whose Next sees only a    *)
(* few calendar years ahead and answers the zero time beyond that.         *)
(*                                                                         *)
(* An instant is a number of seconds, a schedule is the set of instants it *)
(* fires at.  Which sets a cron expression denotes is the parser's matter; *)
(* the loops are checked for every set.  The calendar is a parameter:      *)
(* years may differ in length.                                             *)
(***************************************************************************)
EXTENDS Integers, FiniteSets

CONSTANTS
    Year(_),        \* the calendar year of an instant
    YearStart(_),   \* the first instant of a calendar year
    DayLen,         \* the length of 31 December
    LastYear,       \* the last year of the calendar
    Horizon,        \* the last instant a caller asks about
    ReachYears,     \* robfigReachYears
    LookbackYears,  \* prevLookbackYears
    Rail,           \* MissedRunsSince's safety rail
    Schedules       \* the sets of slots under consideration

Instants == 0..Horizon

(* NextSlot's limit: from.AddDate(prevLookbackYears, 0, 0).                *)
Limit(t) == YearStart(Year(t) + LookbackYears) + t - YearStart(Year(t))

ASSUME BoundsAssumption ==
    /\ Horizon \in Nat /\ LastYear \in Nat /\ Rail \in Nat
    /\ DayLen \in Nat \ {0} /\ LastYear >= ReachYears
    /\ ReachYears \in Nat \ {0} /\ LookbackYears \in Nat \ {0}

(* Years follow each other and are at least a day long; the first one     *)
(* starts at instant 0.                                                    *)
ASSUME YearsAssumption ==
    /\ YearStart(0) = 0
    /\ \A y \in 0..(LastYear + 1) : YearStart(y) \in Nat
    /\ \A y, z \in 0..(LastYear + 1) :
          y < z => YearStart(y) + DayLen <= YearStart(z)

(* Every instant of the calendar lies in its year.                         *)
ASSUME CalendarAssumption ==
    \A t \in 0..(YearStart(LastYear + 1) - 1) :
        /\ Year(t) \in 0..LastYear
        /\ YearStart(Year(t)) <= t
        /\ t < YearStart(Year(t) + 1)

(* The calendar goes on beyond every search. *)
ASSUME HorizonAssumption ==
    \A t \in Instants :
        /\ t < YearStart(LastYear - ReachYears)
        /\ Year(t) + LookbackYears <= LastYear
        /\ Limit(t) < YearStart(LastYear - ReachYears)

ASSUME SchedulesAssumption ==
    \A s \in Schedules : s \subseteq Nat /\ IsFiniteSet(s)

VARIABLES
    slots,  \* the schedule
    op,     \* the function called
    from,   \* NextSlot: from; MissedRunsSince: lastStart
    to,     \* Prev: at; MissedRunsSince: now - grace
    pc,
    x,      \* the cursor of the ladder
    lo, hi, mid,  \* Prev's bisection
    count,  \* MissedRunsSince's count
    res     \* the slot returned

vars == <<slots, op, from, to, pc, x, lo, hi, mid, count, res>>

-----------------------------------------------------------------------------
(* The zero time.Time. *)
Zero == -1

(* How far one Next call from t sees: to the end of year(t) + 5.           *)
ReachEnd(t) == YearStart(Year(t) + ReachYears + 1) - 1

Ahead(t) == {s \in slots : t < s /\ s <= ReachEnd(t)}

(* robfig's SpecSchedule.Next: the first slot strictly after t within its  *)
(* reach, or the zero time.                                                *)
Next(t) ==
    IF Ahead(t) = {} THEN Zero
    ELSE CHOOSE s \in Ahead(t) : \A u \in Ahead(t) : s <= u

(* Mutant: a reach one year too long. *)
ReachTooFar(t) == YearStart(Year(t) + ReachYears + 2) - DayLen

(* reachFrom: the start of the last day of that year, a lower bound.       *)
reachFrom(t) == YearStart(Year(t) + ReachYears + 1) - DayLen

(* Prev's search floor: 1 January, prevLookbackYears before at's year.     *)
floor == YearStart(Year(to) - LookbackYears)

limit == Limit(from)

-----------------------------------------------------------------------------
Init ==
    /\ slots \in Schedules
    /\ op \in {"Prev", "NextSlot", "MissedRunsSince"}
    /\ from \in IF op = "Prev" THEN {0} ELSE Instants
    /\ to \in IF op = "NextSlot" THEN {0} ELSE Instants
    /\ pc = "call"
    /\ x = 0 /\ lo = 0 /\ hi = 0 /\ mid = 0
    /\ count = 0
    /\ res = Zero

Return(r) == res' = r /\ pc' = "done"

(* --- noSlotInRange(x, to), one rung of the ladder per step ------------- *)

(* The rung decides: a slot was found, or the reach covers the range.      *)
Decided == Next(x) # Zero \/ reachFrom(x) >= to
Empty == IF Next(x) # Zero THEN Next(x) > to ELSE TRUE

(* Mutant: the cursor is not advanced. *)
ClimbStays ==
    /\ pc \in {"probe", "test"}
    /\ ~Decided
    /\ UNCHANGED vars

Climb ==
    /\ pc \in {"probe", "test"}
    /\ ~Decided
    /\ x' = reachFrom(x)
    /\ UNCHANGED <<slots, op, from, to, pc, lo, hi, mid, count, res>>

(* --- Prev -------------------------------------------------------------- *)

PrevCall ==
    /\ op = "Prev" /\ pc = "call"
    /\ IF Year(to) <= LookbackYears
       THEN Return(Zero) /\ UNCHANGED x
       ELSE x' = floor /\ pc' = "probe" /\ UNCHANGED res
    /\ UNCHANGED <<slots, op, from, to, lo, hi, mid, count>>

PrevProbe ==
    /\ pc = "probe"
    /\ Decided
    /\ IF Empty THEN Return(Zero) /\ UNCHANGED <<lo, hi>>
       ELSE lo' = floor /\ hi' = to /\ pc' = "bisect" /\ UNCHANGED res
    /\ UNCHANGED <<slots, op, from, to, x, mid, count>>

(* Mutant: the bisection stops at two seconds. *)
BisectShort ==
    /\ pc = "bisect"
    /\ IF hi - lo > 2
       THEN /\ mid' = lo + (hi - lo) \div 2
            /\ x' = mid'
            /\ pc' = "test"
            /\ UNCHANGED res
       ELSE Return(Next(lo)) /\ UNCHANGED <<mid, x>>
    /\ UNCHANGED <<slots, op, from, to, lo, hi, count>>

(* The loop head: halve the interval, or stop at one second.               *)
PrevBisect ==
    /\ pc = "bisect"
    /\ IF hi - lo > 1
       THEN /\ mid' = lo + (hi - lo) \div 2
            /\ x' = mid'
            /\ pc' = "test"
            /\ UNCHANGED res
       ELSE Return(Next(lo)) /\ UNCHANGED <<mid, x>>
    /\ UNCHANGED <<slots, op, from, to, lo, hi, count>>

PrevTest ==
    /\ pc = "test"
    /\ Decided
    /\ IF Empty THEN hi' = mid /\ UNCHANGED lo
                ELSE lo' = mid /\ UNCHANGED hi
    /\ pc' = "bisect"
    /\ UNCHANGED <<slots, op, from, to, x, mid, count, res>>

(* --- NextSlot ---------------------------------------------------------- *)

NextSlotCall ==
    /\ op = "NextSlot" /\ pc = "call"
    /\ x' = from
    /\ pc' = "next"
    /\ UNCHANGED <<slots, op, from, to, lo, hi, mid, count, res>>

(* Mutant: the zero time of one Next call is read as "never". *)
NextSlotGivesUp ==
    /\ pc = "next"
    /\ Return(Next(x))
    /\ UNCHANGED <<slots, op, from, to, x, lo, hi, mid, count>>

NextSlotRung ==
    /\ pc = "next"
    /\ \/ Next(x) # Zero /\ Return(Next(x)) /\ UNCHANGED x
       \/ Next(x) = Zero /\ reachFrom(x) >= limit /\ Return(Zero) /\ UNCHANGED x
       \/ /\ Next(x) = Zero /\ reachFrom(x) < limit
          /\ x' = reachFrom(x)
          /\ UNCHANGED <<pc, res>>
    /\ UNCHANGED <<slots, op, from, to, lo, hi, mid, count>>

(* --- MissedRunsSince --------------------------------------------------- *)

MissedCall ==
    /\ op = "MissedRunsSince" /\ pc = "call"
    /\ IF to <= from THEN Return(Zero) /\ UNCHANGED x
       ELSE x' = from /\ pc' = "count" /\ UNCHANGED res
    /\ UNCHANGED <<slots, op, from, to, lo, hi, mid, count>>

(* Mutants: the count stops at the first zero time; the zero time is       *)
(* counted as a slot.                                                      *)
MissedGivesUp ==
    /\ pc = "count"
    /\ Next(x) = Zero
    /\ Return(Zero)
    /\ UNCHANGED <<slots, op, from, to, x, lo, hi, mid, count>>

CountsZero ==
    /\ pc = "count"
    /\ IF Next(x) > to THEN Return(Zero) /\ UNCHANGED <<count, x>>
       ELSE /\ count' = count + 1
            /\ x' = Next(x)
            /\ IF count' > Rail THEN Return(Zero) ELSE UNCHANGED <<pc, res>>
    /\ UNCHANGED <<slots, op, from, to, lo, hi, mid>>

(* The library saw nothing: climb, or stop when the horizon is covered.    *)
MissedClimb ==
    /\ pc = "count"
    /\ Next(x) = Zero
    /\ IF reachFrom(x) >= to THEN Return(Zero) /\ UNCHANGED x
       ELSE x' = reachFrom(x) /\ UNCHANGED <<pc, res>>
    /\ UNCHANGED <<slots, op, from, to, lo, hi, mid, count>>

MissedCount ==
    /\ pc = "count"
    /\ Next(x) # Zero
    /\ IF Next(x) > to THEN Return(Zero) /\ UNCHANGED <<count, x>>
       ELSE /\ count' = count + 1
            /\ x' = Next(x)
            /\ IF count' > Rail THEN Return(Zero) ELSE UNCHANGED <<pc, res>>
    /\ UNCHANGED <<slots, op, from, to, lo, hi, mid>>

-----------------------------------------------------------------------------
Step ==
    \/ Climb \/ PrevCall \/ PrevProbe \/ PrevBisect \/ PrevTest
    \/ NextSlotCall \/ NextSlotRung
    \/ MissedCall \/ MissedClimb \/ MissedCount

Spec == Init /\ [][Step]_vars /\ WF_vars(Step)

-----------------------------------------------------------------------------
TypeOK ==
    /\ slots \in Schedules
    /\ op \in {"Prev", "NextSlot", "MissedRunsSince"}
    /\ from \in Instants /\ to \in Instants
    /\ pc \in {"call", "probe", "test", "bisect", "next", "count", "done"}
    /\ x \in Nat /\ lo \in Nat /\ hi \in Nat /\ mid \in Nat
    /\ count \in Nat
    /\ res \in Nat \cup {Zero}

(* The slots in (a, b]. *)
Between(a, b) == {s \in slots : a < s /\ s <= b}

(* Prev returns the most recent slot at or before `at` in its lookback     *)
(* window, and reports none exactly when the window holds none, however    *)
(* far beyond one Next call's reach the slots lie.                         *)
PrevCorrect ==
    op = "Prev" /\ pc = "done" /\ Year(to) > LookbackYears =>
        IF Between(floor, to) = {} THEN res = Zero
        ELSE res \in Between(floor, to) /\ Between(res, to) = {}

(* NextSlot returns the first slot after `from`, and says "never" only if  *)
(* there is none before its nine-year limit.                               *)
NextSlotCorrect ==
    op = "NextSlot" /\ pc = "done" =>
        IF res = Zero THEN {s \in slots : from < s /\ s < limit} = {}
        ELSE res \in slots /\ res > from /\ Between(from, res) = {res}

(* MissedRunsSince counts exactly the slots in (lastStart, now - grace],   *)
(* across any number of gaps wider than the reach, up to the safety rail.  *)
MissedRunsCorrect ==
    op = "MissedRunsSince" /\ pc = "done" =>
        count = IF Cardinality(Between(from, to)) > Rail THEN Rail + 1
                ELSE Cardinality(Between(from, to))

(* Where the ladder that is being climbed started. *)
Foot == IF pc = "test" THEN mid ELSE floor

(* Between the calls: a ladder has passed no slot; the bisection keeps a   *)
(* slot in (lo, at] and none in (hi, at]; NextSlot has passed no slot; and *)
(* MissedRunsSince has counted every slot it has passed.                   *)
LadderPassesNoSlot ==
    pc \in {"probe", "test"} =>
        /\ op = "Prev" /\ Year(to) > LookbackYears
        /\ Foot <= x /\ x <= to
        /\ Between(Foot, x) = {}

BisectionBrackets ==
    pc \in {"bisect", "test"} =>
        /\ op = "Prev" /\ Year(to) > LookbackYears
        /\ floor <= lo /\ lo < hi /\ hi <= to
        /\ Between(lo, to) # {}
        /\ Between(hi, to) = {}
        /\ pc = "test" => lo < mid /\ mid < hi

NextSlotPassesNoSlot ==
    pc = "next" =>
        /\ op = "NextSlot"
        /\ from <= x /\ (x = from \/ x < limit)
        /\ Between(from, x) = {}

CountsWhatItPasses ==
    pc = "count" =>
        /\ op = "MissedRunsSince"
        /\ from <= x /\ x <= to
        /\ count <= Rail
        /\ count = Cardinality(Between(from, x))

(* The loop invariants together. *)
LoopInvariants ==
    /\ LadderPassesNoSlot
    /\ BisectionBrackets
    /\ NextSlotPassesNoSlot
    /\ CountsWhatItPasses
    /\ pc = "call" => count = 0

(* Every call returns: no ladder and no bisection loops for ever, also for *)
(* a schedule that never fires.                                            *)
Terminates == <>(pc = "done")
=============================================================================
