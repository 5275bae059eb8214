--------------------------- MODULE ScheduleProofs ---------------------------
(***************************************************************************)
(* Prev, NextSlot and MissedRunsSince return what they promise, for every  *)
(* calendar, reach, lookback, rail and schedule (partial correctness; that *)
(* they return at all is checked by TLC).                                  *)
(***************************************************************************)
EXTENDS Schedule, NatLemmas

(* The instants from which a search may call the library. *)
Searched(t) == t \in Nat /\ t < YearStart(LastYear - ReachYears)

(* One Next call from a searched instant looks at least one second ahead,  *)
(* reachFrom is after that instant and never beyond what the call saw.     *)
LEMMA ReachFacts ==
    ASSUME NEW t, Searched(t)
    PROVE  /\ Year(t) \in Nat
           /\ ReachEnd(t) \in Nat /\ reachFrom(t) \in Nat
           /\ t < ReachEnd(t)
           /\ t < reachFrom(t)
           /\ reachFrom(t) <= ReachEnd(t)
<1>1. YearStart(LastYear - ReachYears) + DayLen <= YearStart(LastYear + 1)
  BY BoundsAssumption, YearsAssumption, SMT
<1>2. t \in 0..(YearStart(LastYear + 1) - 1)
  BY <1>1, BoundsAssumption, YearsAssumption DEF Searched
<1>3. Year(t) \in 0..LastYear /\ YearStart(Year(t)) <= t /\ t < YearStart(Year(t) + 1)
  BY <1>2, CalendarAssumption
<1>4. Year(t) < LastYear - ReachYears
  BY <1>3, BoundsAssumption, YearsAssumption DEF Searched
<1>5. Year(t) + 1 < Year(t) + ReachYears + 1 /\ Year(t) + ReachYears + 1 \in 0..(LastYear + 1)
      /\ Year(t) + 1 \in 0..(LastYear + 1)
  BY <1>3, <1>4, BoundsAssumption
<1>6. YearStart(Year(t) + 1) + DayLen <= YearStart(Year(t) + ReachYears + 1)
  BY <1>5, YearsAssumption
<1>7. YearStart(Year(t) + 1) \in Nat /\ YearStart(Year(t) + ReachYears + 1) \in Nat
  BY <1>5, YearsAssumption
<1>. QED
  BY <1>3, <1>6, <1>7, BoundsAssumption DEF ReachEnd, reachFrom, Searched

(* What a Next call says: nothing ahead within the reach, or the first     *)
(* slot ahead.                                                             *)
LEMMA NextFacts ==
    ASSUME NEW t, slots \subseteq Nat, Searched(t)
    PROVE  /\ Next(t) = Zero => Between(t, reachFrom(t)) = {}
           /\ Next(t) # Zero => /\ Next(t) \in slots /\ t < Next(t)
                                /\ Between(t, Next(t)) = {Next(t)}
           /\ t + 1 \in slots => Next(t) = t + 1
<1>1. /\ ReachEnd(t) \in Nat /\ reachFrom(t) \in Nat
      /\ t < ReachEnd(t) /\ reachFrom(t) <= ReachEnd(t)
  BY ReachFacts
<1>2. Ahead(t) \subseteq Nat
  BY DEF Ahead
<1>3. CASE Ahead(t) = {}
  <2>1. Next(t) = Zero
    BY <1>3 DEF Next
  <2>2. Between(t, reachFrom(t)) = {}
    <3>1. ASSUME NEW s \in slots, t < s, s <= reachFrom(t)  PROVE FALSE
      <4>1. s \in Nat /\ s <= ReachEnd(t)
        BY <3>1, <1>1
      <4>. QED  BY <4>1, <3>1, <1>3 DEF Ahead
    <3>. QED  BY <3>1 DEF Between
  <2>3. t + 1 \notin slots
    BY <1>1, <1>3 DEF Ahead, Searched
  <2>. QED  BY <2>1, <2>2, <2>3
<1>4. CASE Ahead(t) # {}
  <2>1. Next(t) \in Ahead(t) /\ \A u \in Ahead(t) : Next(t) <= u
    <3>1. \E m \in Ahead(t) : \A u \in Ahead(t) : m <= u
      BY <1>2, <1>4, LeastNat
    <3>. QED  BY <1>4, <3>1 DEF Next
  <2>2. Next(t) \in Nat /\ Next(t) # Zero /\ Next(t) \in slots /\ t < Next(t)
        /\ Next(t) <= ReachEnd(t)
    BY <2>1, <1>2 DEF Ahead, Zero
  <2>3. Between(t, Next(t)) = {Next(t)}
    <3>1. \A u \in Between(t, Next(t)) : u \in Ahead(t) /\ u <= Next(t)
      BY <1>1, <2>2 DEF Between, Ahead, Searched
    <3>2. \A u \in Between(t, Next(t)) : u = Next(t)
      BY <3>1, <2>1, <2>2, <1>2
    <3>3. Next(t) \in Between(t, Next(t))
      BY <2>2 DEF Between
    <3>. QED  BY <3>2, <3>3
  <2>4. t + 1 \in slots => Next(t) = t + 1
    <3>1. t + 1 \in slots => t + 1 \in Ahead(t)
      BY <1>1 DEF Ahead, Searched
    <3>. QED  BY <3>1, <2>1, <2>2 DEF Searched
  <2>. QED  BY <2>2, <2>3, <2>4
<1>. QED  BY <1>3, <1>4

(* An interval with no slot before its middle and none after it is empty.  *)
LEMMA BetweenJoin ==
    ASSUME slots \subseteq Nat, NEW a \in Nat, NEW b \in Nat, NEW c \in Nat,
           a <= b, b <= c
    PROVE  Between(a, c) = Between(a, b) \cup Between(b, c)
<1>1. \A s \in slots : s \in Nat
  OBVIOUS
<1>2. \A s \in slots : (a < s /\ s <= c) <=> ((a < s /\ s <= b) \/ (b < s /\ s <= c))
  BY <1>1
<1>3. \A s : s \in Between(a, c) <=> s \in Between(a, b) \cup Between(b, c)
  BY <1>2, Zenon DEF Between
<1>. QED  BY <1>3

(* No slot lies in an empty interval. *)
LEMMA EmptyBetween ==
    ASSUME slots \subseteq Nat, NEW a \in Nat, NEW b \in Nat, b <= a
    PROVE  Between(a, b) = {}
<1>1. \A s \in slots : ~(a < s /\ s <= b)
  <2>1. \A s \in slots : s \in Nat
    OBVIOUS
  <2>. QED  BY <2>1
<1>. QED  BY <1>1 DEF Between

(* A part of an interval without slots has none either. *)
LEMMA ShorterBetween ==
    ASSUME slots \subseteq Nat, NEW a \in Nat, NEW b \in Nat, NEW c \in Nat,
           b <= c, Between(a, c) = {}
    PROVE  Between(a, b) = {}
<1>1. \A s \in slots : s \in Nat /\ ~(a < s /\ s <= c)
  BY DEF Between
<1>2. \A s \in slots : ~(a < s /\ s <= b)
  BY <1>1
<1>. QED  BY <1>2 DEF Between

-----------------------------------------------------------------------------
(* Callers ask about instants well inside the calendar, and Prev's floor   *)
(* is an instant at or before the one asked about.                         *)
LEMMA HorizonFacts ==
    ASSUME NEW t \in Instants
    PROVE  /\ t \in Nat /\ Searched(t)
           /\ Limit(t) \in Int
           /\ \A u \in Nat : u <= t \/ u < Limit(t) => Searched(u)
           /\ Year(t) > LookbackYears =>
                /\ YearStart(Year(t) - LookbackYears) \in Nat
                /\ YearStart(Year(t) - LookbackYears) <= t
<1>1. t \in Nat /\ t < YearStart(LastYear - ReachYears)
      /\ Year(t) + LookbackYears <= LastYear
      /\ Limit(t) < YearStart(LastYear - ReachYears)
  BY HorizonAssumption, BoundsAssumption DEF Instants
<1>2. Searched(t)
  BY <1>1 DEF Searched
<1>3. Year(t) \in Nat
  BY <1>2, ReachFacts
<1>4. YearStart(LastYear - ReachYears) \in Nat
  BY BoundsAssumption, YearsAssumption
<1>5. /\ Year(t) \in 0..(LastYear + 1)
      /\ Year(t) + LookbackYears \in 0..(LastYear + 1)
  BY <1>1, <1>3, BoundsAssumption
<1>6. /\ YearStart(Year(t)) \in Nat
      /\ YearStart(Year(t) + LookbackYears) \in Nat
  BY <1>5, YearsAssumption
<1>7. Limit(t) \in Int
  BY <1>1, <1>6 DEF Limit
<1>8. \A u \in Nat : u <= t \/ u < Limit(t) => Searched(u)
  BY <1>1, <1>4, <1>7 DEF Searched
<1>9. ASSUME Year(t) > LookbackYears
      PROVE  /\ YearStart(Year(t) - LookbackYears) \in Nat
             /\ YearStart(Year(t) - LookbackYears) <= t
  <2>1. Year(t) - LookbackYears \in 0..(LastYear + 1)
        /\ Year(t) - LookbackYears < Year(t)
    BY <1>3, <1>5, <1>9, BoundsAssumption
  <2>2. /\ YearStart(Year(t) - LookbackYears) \in Nat
        /\ YearStart(Year(t) - LookbackYears) + DayLen <= YearStart(Year(t))
    BY <2>1, <1>5, YearsAssumption
  <2>3. YearStart(Year(t)) <= t
    <3>1. YearStart(LastYear - ReachYears) + DayLen <= YearStart(LastYear + 1)
          /\ YearStart(LastYear + 1) \in Nat
      BY BoundsAssumption, YearsAssumption
    <3>2. t \in 0..(YearStart(LastYear + 1) - 1)
      BY <1>1, <1>4, <3>1, BoundsAssumption
    <3>. QED  BY <3>2, CalendarAssumption
  <2>. QED  BY <2>2, <2>3, <1>1, <1>6, BoundsAssumption
<1>. QED  BY <1>1, <1>2, <1>7, <1>8, <1>9

(* What is inductive. *)
SearchInv ==
    /\ TypeOK
    /\ LoopInvariants
    /\ PrevCorrect
    /\ NextSlotCorrect
    /\ MissedRunsCorrect

(* The facts every step starts from. *)
LEMMA StepFacts ==
    ASSUME TypeOK
    PROVE  /\ slots \subseteq Nat /\ IsFiniteSet(slots)
           /\ from \in Nat /\ to \in Nat /\ limit \in Int
           /\ Searched(from) /\ Searched(to)
           /\ x <= to => Searched(x)
           /\ x = from \/ x < limit => Searched(x)
           /\ Year(to) > LookbackYears => floor \in Nat /\ floor <= to
<1>1. slots \in Schedules /\ from \in Instants /\ to \in Instants /\ x \in Nat
  BY DEF TypeOK
<1>2. slots \subseteq Nat /\ IsFiniteSet(slots)
  BY <1>1, SchedulesAssumption
<1>. QED  BY <1>1, <1>2, HorizonFacts DEF limit, floor

(* Before any call, nothing is claimed. *)
LEMMA SearchInit == Init => SearchInv
<1>. SUFFICES ASSUME Init PROVE SearchInv
  OBVIOUS
<1>1. TypeOK
  BY BoundsAssumption DEF Init, TypeOK, Instants, Zero
<1>. QED
  BY <1>1 DEF Init, SearchInv, LoopInvariants, LadderPassesNoSlot, BisectionBrackets,
     NextSlotPassesNoSlot, CountsWhatItPasses, PrevCorrect, NextSlotCorrect,
     MissedRunsCorrect

(* NextSlot's steps: the ladder passes no slot, and what it stops at is    *)
(* the first slot, or nothing below the limit.                             *)
LEMMA NextSlotStep ==
    ASSUME SearchInv, NextSlotCall \/ NextSlotRung
    PROVE  SearchInv'
<1>. USE DEF SearchInv, LoopInvariants
<1>0. /\ slots \subseteq Nat /\ from \in Nat /\ limit \in Int /\ Searched(from)
      /\ x = from \/ x < limit => Searched(x)
  BY StepFacts
<1>1. CASE NextSlotCall
  <2>1. TypeOK'
    BY <1>0, <1>1 DEF NextSlotCall, TypeOK
  <2>2. Between(from, from) = {}
    BY <1>0, EmptyBetween
  <2>. QED
    BY <1>0, <1>1, <2>1, <2>2 DEF NextSlotCall, LadderPassesNoSlot, BisectionBrackets,
       NextSlotPassesNoSlot, CountsWhatItPasses, PrevCorrect, NextSlotCorrect,
       MissedRunsCorrect, Between, limit
<1>2. CASE NextSlotRung
  <2>1. /\ op = "NextSlot" /\ pc = "next" /\ x \in Nat /\ from <= x
        /\ Between(from, x) = {} /\ Searched(x)
        /\ UNCHANGED <<slots, op, from, to, lo, hi, mid, count>>
    BY <1>0, <1>2 DEF NextSlotRung, NextSlotPassesNoSlot, TypeOK
  <2>2. /\ reachFrom(x) \in Nat /\ x < reachFrom(x)
    BY <2>1, ReachFacts
  <2>3. CASE Next(x) # Zero /\ Return(Next(x)) /\ UNCHANGED x
    <3>1. /\ Next(x) \in slots /\ x < Next(x) /\ Between(x, Next(x)) = {Next(x)}
      BY <1>0, <2>1, <2>3, NextFacts
    <3>0. Next(x) \in Nat
      BY <1>0, <3>1
    <3>3. from < Next(x) /\ Next(x) \in Nat /\ x <= Next(x)
      BY <1>0, <2>1, <3>0, <3>1
    <3>2. Between(from, Next(x)) = {Next(x)}
      BY <1>0, <2>1, <3>1, <3>3, BetweenJoin
    <3>4. TypeOK'
      BY <2>1, <2>3, <3>3 DEF TypeOK, Return
    <3>. QED
      BY <2>1, <2>3, <3>1, <3>2, <3>3, <3>4 DEF Return, LadderPassesNoSlot,
         BisectionBrackets, NextSlotPassesNoSlot, CountsWhatItPasses, PrevCorrect,
         NextSlotCorrect, MissedRunsCorrect, Between, limit
  <2>4. CASE Next(x) = Zero
    <3>1. Between(x, reachFrom(x)) = {}
      BY <1>0, <2>1, <2>4, NextFacts
    <3>2. Between(from, reachFrom(x)) = {}
      BY <1>0, <2>1, <2>2, <3>1, BetweenJoin
    <3>3. CASE reachFrom(x) >= limit /\ Return(Zero) /\ UNCHANGED x
      <4>1. \A s \in slots : ~(from < s /\ s < limit)
        BY <1>0, <2>2, <3>2, <3>3 DEF Between
      <4>2. TypeOK'
        BY <2>1, <3>3 DEF TypeOK, Return
      <4>. QED
        BY <2>1, <3>3, <4>1, <4>2 DEF Return, LadderPassesNoSlot,
           BisectionBrackets, NextSlotPassesNoSlot, CountsWhatItPasses, PrevCorrect,
           NextSlotCorrect, MissedRunsCorrect, limit
    <3>4. CASE reachFrom(x) < limit /\ x' = reachFrom(x) /\ UNCHANGED <<pc, res>>
      <4>1. TypeOK'
        BY <2>1, <2>2, <3>4 DEF TypeOK
      <4>2. from <= x'
        BY <1>0, <2>1, <2>2, <3>4
      <4>. QED
        BY <2>1, <3>2, <3>4, <4>1, <4>2 DEF LadderPassesNoSlot,
           BisectionBrackets, NextSlotPassesNoSlot, CountsWhatItPasses, PrevCorrect,
           NextSlotCorrect, MissedRunsCorrect, Between, limit
    <3>. QED  BY <1>2, <2>4, <3>3, <3>4 DEF NextSlotRung
  <2>. QED  BY <1>2, <2>3, <2>4 DEF NextSlotRung
<1>. QED  BY <1>1, <1>2

(* MissedRunsSince's steps: every slot it passes is counted, once.         *)
LEMMA MissedStep ==
    ASSUME SearchInv, MissedCall \/ MissedClimb \/ MissedCount
    PROVE  SearchInv'
<1>. USE DEF SearchInv, LoopInvariants
<1>0. /\ slots \subseteq Nat /\ IsFiniteSet(slots) /\ from \in Nat /\ to \in Nat
      /\ x <= to => Searched(x)
      /\ Rail \in Nat
  BY StepFacts, BoundsAssumption
<1>1. CASE MissedCall
  <2>1. TypeOK'
    BY <1>0, <1>1 DEF MissedCall, TypeOK, Return
  <2>2. Between(from, from) = {} /\ Cardinality({}) = 0
    BY <1>0, EmptyBetween, FS_EmptySet
  <2>3. count = 0 /\ op = "MissedRunsSince"
    BY <1>1 DEF MissedCall
  <2>4. CASE to <= from
    <3>1. Between(from, to) = {}
      BY <1>0, <2>4, EmptyBetween
    <3>. QED
      BY <1>0, <1>1, <2>1, <2>2, <2>3, <2>4, <3>1 DEF MissedCall, Return,
         LadderPassesNoSlot, BisectionBrackets, NextSlotPassesNoSlot,
         CountsWhatItPasses, PrevCorrect, NextSlotCorrect, MissedRunsCorrect, Between
  <2>5. CASE ~(to <= from)
    <3>1. from <= to
      BY <1>0, <2>5
    <3>. QED
      BY <1>0, <1>1, <2>1, <2>2, <2>3, <2>5, <3>1 DEF MissedCall,
         LadderPassesNoSlot, BisectionBrackets, NextSlotPassesNoSlot,
         CountsWhatItPasses, PrevCorrect, NextSlotCorrect, MissedRunsCorrect, Between
  <2>. QED  BY <2>4, <2>5
<1>a. ASSUME pc = "count"
      PROVE  /\ op = "MissedRunsSince" /\ x \in Nat /\ from <= x /\ x <= to
             /\ Searched(x) /\ count \in Nat /\ count <= Rail
             /\ count = Cardinality(Between(from, x))
             /\ IsFiniteSet(Between(from, x))
  <2>1. Between(from, x) \subseteq slots
    BY DEF Between
  <2>. QED  BY <1>0, <1>a, <2>1, FS_Subset DEF CountsWhatItPasses, TypeOK
<1>2. CASE MissedClimb
  <2>1. /\ pc = "count" /\ Next(x) = Zero
        /\ UNCHANGED <<slots, op, from, to, lo, hi, mid, count>>
    BY <1>2 DEF MissedClimb
  <2>2. /\ reachFrom(x) \in Nat /\ x < reachFrom(x)
    BY <1>a, <2>1, ReachFacts
  <2>3. Between(x, reachFrom(x)) = {}
    BY <1>0, <1>a, <2>1, NextFacts
  <2>4. CASE reachFrom(x) >= to
    <3>1. Between(x, to) = {}
      BY <1>0, <1>a, <2>1, <2>2, <2>3, <2>4, ShorterBetween
    <3>2. Between(from, to) = Between(from, x)
      <4>1. Between(from, to) = Between(from, x) \cup Between(x, to)
        BY <1>0, <1>a, <2>1, BetweenJoin
      <4>. QED  BY <3>1, <4>1
    <3>3. TypeOK'
      BY <1>2, <2>1, <2>4 DEF TypeOK, Return, MissedClimb
    <3>4. count = Cardinality(Between(from, to)) /\ ~(Cardinality(Between(from, to)) > Rail)
      BY <1>0, <1>a, <2>1, <3>2
    <3>. QED
      BY <1>2, <1>a, <2>1, <2>4, <3>3, <3>4 DEF Return, MissedClimb,
         LadderPassesNoSlot, BisectionBrackets, NextSlotPassesNoSlot,
         CountsWhatItPasses, PrevCorrect, NextSlotCorrect, MissedRunsCorrect, Between
  <2>5. CASE ~(reachFrom(x) >= to)
    <3>1. from <= reachFrom(x) /\ reachFrom(x) <= to /\ x <= reachFrom(x)
      BY <1>0, <1>a, <2>1, <2>2, <2>5
    <3>2. Between(from, reachFrom(x)) = Between(from, x)
      <4>1. Between(from, reachFrom(x)) = Between(from, x) \cup Between(x, reachFrom(x))
        BY <1>0, <1>a, <2>1, <2>2, <3>1, BetweenJoin
      <4>. QED  BY <2>3, <4>1
    <3>3. TypeOK' /\ x' = reachFrom(x) /\ pc' = "count"
      BY <1>2, <2>1, <2>2, <2>5 DEF TypeOK, MissedClimb
    <3>. QED
      BY <1>a, <2>1, <3>1, <3>2, <3>3 DEF
         LadderPassesNoSlot, BisectionBrackets, NextSlotPassesNoSlot,
         CountsWhatItPasses, PrevCorrect, NextSlotCorrect, MissedRunsCorrect, Between
  <2>. QED  BY <2>4, <2>5
<1>3. CASE MissedCount
  <2>1. /\ pc = "count" /\ Next(x) # Zero
        /\ UNCHANGED <<slots, op, from, to, lo, hi, mid>>
    BY <1>3 DEF MissedCount
  <2>2. Next(x) \in slots /\ x < Next(x) /\ Between(x, Next(x)) = {Next(x)}
    BY <1>0, <1>a, <2>1, NextFacts
  <2>3. Next(x) \in Nat
    BY <1>0, <2>2
  <2>4. CASE Next(x) > to
    <3>1. Between(x, to) = {}
      <4>1. \A s \in Between(x, to) : s \in Between(x, Next(x)) /\ s <= to /\ s \in Nat
        BY <1>0, <2>3, <2>4 DEF Between
      <4>2. \A s \in Between(x, to) : s = Next(x) /\ s <= to
        BY <4>1, <2>2
      <4>. QED  BY <4>2, <2>3, <2>4, <1>0
    <3>2. Between(from, to) = Between(from, x)
      <4>1. Between(from, to) = Between(from, x) \cup Between(x, to)
        BY <1>0, <1>a, <2>1, BetweenJoin
      <4>. QED  BY <3>1, <4>1
    <3>3. TypeOK' /\ count' = count /\ pc' = "done"
      BY <1>3, <2>1, <2>4 DEF TypeOK, Return, MissedCount
    <3>4. count = Cardinality(Between(from, to)) /\ ~(Cardinality(Between(from, to)) > Rail)
      BY <1>0, <1>a, <2>1, <3>2
    <3>. QED
      BY <1>a, <2>1, <3>3, <3>4 DEF
         LadderPassesNoSlot, BisectionBrackets, NextSlotPassesNoSlot,
         CountsWhatItPasses, PrevCorrect, NextSlotCorrect, MissedRunsCorrect, Between
  <2>5. CASE ~(Next(x) > to)
    <3>1. /\ Next(x) <= to /\ from <= Next(x) /\ x <= Next(x)
      BY <1>0, <1>a, <2>1, <2>2, <2>3, <2>5
    <3>2. Between(from, Next(x)) = Between(from, x) \cup {Next(x)}
      BY <1>0, <1>a, <2>1, <2>2, <2>3, <3>1, BetweenJoin
    <3>3. Next(x) \notin Between(from, x)
      BY <1>0, <1>a, <2>1, <2>2, <2>3 DEF Between
    <3>4. Cardinality(Between(from, Next(x))) = count + 1
      BY <1>a, <2>1, <3>2, <3>3, FS_AddElement
    <3>5. count' = count + 1 /\ x' = Next(x)
      BY <1>3, <2>5 DEF MissedCount
    <3>6. CASE count + 1 > Rail
      <4>1. TypeOK' /\ pc' = "done"
        BY <1>3, <1>a, <2>1, <2>3, <2>5, <3>5, <3>6 DEF TypeOK, Return, MissedCount
      <4>2. Cardinality(Between(from, to)) > Rail /\ count + 1 = Rail + 1
        <5>1. Between(from, Next(x)) \subseteq Between(from, to)
          BY <1>0, <2>3, <3>1, BetweenJoin
        <5>2. IsFiniteSet(Between(from, to))
          <6>1. Between(from, to) \subseteq slots
            BY DEF Between
          <6>. QED  BY <6>1, <1>0, FS_Subset
        <5>3. /\ Cardinality(Between(from, Next(x))) <= Cardinality(Between(from, to))
              /\ Cardinality(Between(from, to)) \in Nat
          BY <5>1, <5>2, FS_Subset, FS_CardinalityType
        <5>. QED  BY <5>3, <3>4, <3>6, <1>a, <2>1, <1>0
      <4>. QED
        BY <1>a, <2>1, <3>5, <4>1, <4>2 DEF
           LadderPassesNoSlot, BisectionBrackets, NextSlotPassesNoSlot,
           CountsWhatItPasses, PrevCorrect, NextSlotCorrect, MissedRunsCorrect, Between
    <3>7. CASE ~(count + 1 > Rail)
      <4>1. TypeOK' /\ pc' = "count"
        BY <1>3, <1>a, <2>1, <2>3, <2>5, <3>5, <3>7 DEF TypeOK, MissedCount
      <4>2. count + 1 <= Rail
        BY <1>0, <1>a, <2>1, <3>7
      <4>. QED
        BY <1>a, <2>1, <3>1, <3>4, <3>5, <4>1, <4>2 DEF
           LadderPassesNoSlot, BisectionBrackets, NextSlotPassesNoSlot,
           CountsWhatItPasses, PrevCorrect, NextSlotCorrect, MissedRunsCorrect, Between
    <3>. QED  BY <3>6, <3>7
  <2>. QED  BY <2>4, <2>5
<1>. QED  BY <1>1, <1>2, <1>3

(* A rung that does not decide has passed no slot. *)
LEMMA ClimbStep ==
    ASSUME SearchInv, Climb
    PROVE  SearchInv'
<1>. USE DEF SearchInv, LoopInvariants
<1>0. /\ slots \subseteq Nat /\ to \in Nat
      /\ x <= to => Searched(x)
      /\ Year(to) > LookbackYears => floor \in Nat /\ floor <= to
  BY StepFacts
<1>1. /\ op = "Prev" /\ Year(to) > LookbackYears
      /\ Foot <= x /\ x <= to /\ Between(Foot, x) = {}
      /\ x \in Nat /\ mid \in Nat /\ pc \in {"probe", "test"}
  BY DEF Climb, LadderPassesNoSlot, TypeOK
<1>2. Foot \in Nat
  BY <1>0, <1>1 DEF Foot
<1>3. Next(x) = Zero /\ ~(reachFrom(x) >= to)
  BY DEF Climb, Decided
<1>4. reachFrom(x) \in Nat /\ x < reachFrom(x)
  BY <1>0, <1>1, ReachFacts
<1>5. Between(x, reachFrom(x)) = {}
  BY <1>0, <1>1, <1>3, NextFacts
<1>6. /\ Foot <= reachFrom(x) /\ reachFrom(x) <= to /\ x <= reachFrom(x)
  BY <1>0, <1>1, <1>2, <1>3, <1>4
<1>7. Between(Foot, reachFrom(x)) = {}
  <2>1. Between(Foot, reachFrom(x)) = Between(Foot, x) \cup Between(x, reachFrom(x))
    <3>1. /\ slots \subseteq Nat /\ x \in Nat /\ reachFrom(x) \in Nat
          /\ Foot <= x /\ x <= reachFrom(x)
      BY <1>0, <1>1, <1>4, <1>6
    <3>. QED  BY <1>2, <3>1, BetweenJoin
  <2>. QED  BY <1>1, <1>5, <2>1
<1>8. TypeOK'
  BY <1>4 DEF Climb, TypeOK
<1>9. LadderPassesNoSlot'
  BY <1>1, <1>6, <1>7 DEF Climb, LadderPassesNoSlot, Foot, floor, Between
<1>10. BisectionBrackets'
  BY DEF Climb, BisectionBrackets, floor, Between
<1>. QED
  BY <1>1, <1>8, <1>9, <1>10 DEF Climb, NextSlotPassesNoSlot, CountsWhatItPasses,
     PrevCorrect, NextSlotCorrect, MissedRunsCorrect

(* Prev's own steps: the probe decides whether there is a slot, the        *)
(* bisection keeps the last one bracketed, and Next from the lower end     *)
(* returns it.                                                             *)
LEMMA PrevStep ==
    ASSUME SearchInv, PrevCall \/ PrevProbe \/ PrevBisect \/ PrevTest
    PROVE  SearchInv'
<1>. USE DEF SearchInv, LoopInvariants
<1>0. /\ slots \subseteq Nat /\ to \in Nat
      /\ Searched(to)
      /\ x <= to => Searched(x)
      /\ Year(to) > LookbackYears => floor \in Nat /\ floor <= to
      /\ x \in Nat /\ lo \in Nat /\ hi \in Nat /\ mid \in Nat
      /\ \A s \in slots : s \in Nat
  BY StepFacts DEF TypeOK
<1>1. CASE PrevCall
  <2>1. CASE Year(to) <= LookbackYears
    <3>1. ~(Year(to) > LookbackYears)
      BY <1>0, <2>1, ReachFacts, BoundsAssumption
    <3>2. TypeOK'
      BY <1>1, <2>1 DEF PrevCall, Return, TypeOK
    <3>. QED
      BY <1>1, <2>1, <3>1, <3>2 DEF PrevCall, Return, LadderPassesNoSlot,
         BisectionBrackets, NextSlotPassesNoSlot, CountsWhatItPasses,
         PrevCorrect, NextSlotCorrect, MissedRunsCorrect
  <2>2. CASE ~(Year(to) <= LookbackYears)
    <3>1. Year(to) > LookbackYears
      BY <1>0, <2>2, ReachFacts, BoundsAssumption
    <3>2. floor \in Nat /\ floor <= to /\ Between(floor, floor) = {}
      BY <1>0, <3>1, EmptyBetween
    <3>3. TypeOK'
      BY <1>1, <2>2, <3>2 DEF PrevCall, TypeOK
    <3>4. LadderPassesNoSlot'
      BY <1>1, <2>2, <3>1, <3>2 DEF PrevCall, LadderPassesNoSlot, Foot, floor, Between
    <3>. QED
      BY <1>1, <2>2, <3>3, <3>4 DEF PrevCall,
         BisectionBrackets, NextSlotPassesNoSlot, CountsWhatItPasses,
         PrevCorrect, NextSlotCorrect, MissedRunsCorrect
  <2>. QED  BY <2>1, <2>2
<1>2. ASSUME pc \in {"probe", "test"}, Decided
      PROVE  /\ Empty => Between(Foot, to) = {}
             /\ ~Empty => Between(Foot, to) # {}
  <2>1. /\ Year(to) > LookbackYears /\ Foot <= x /\ x <= to
        /\ Between(Foot, x) = {} /\ Searched(x) /\ Foot \in Nat
    BY <1>0, <1>2 DEF LadderPassesNoSlot, Foot
  <2>2. Between(Foot, to) = Between(x, to)
    <3>1. Between(Foot, to) = Between(Foot, x) \cup Between(x, to)
      BY <1>0, <2>1, BetweenJoin
    <3>. QED  BY <2>1, <3>1
  <2>3. CASE Next(x) # Zero
    <3>1. Next(x) \in slots /\ x < Next(x) /\ Between(x, Next(x)) = {Next(x)}
      BY <1>0, <2>1, <2>3, NextFacts
    <3>2. Next(x) \in Nat
      BY <1>0, <3>1
    <3>3. Empty <=> Next(x) > to
      BY <2>3 DEF Empty
    <3>4. ASSUME Next(x) > to  PROVE Between(x, to) = {}
      <4>1. \A s \in Between(x, to) : s \in Between(x, Next(x)) /\ s <= to /\ s \in Nat
        BY <1>0, <3>2, <3>4 DEF Between
      <4>2. \A s \in Between(x, to) : s = Next(x) /\ s <= to
        BY <4>1, <3>1
      <4>. QED  BY <4>2, <3>2, <3>4, <1>0
    <3>5. ASSUME ~(Next(x) > to)  PROVE Between(x, to) # {}
      <4>1. Next(x) <= to
        BY <3>2, <3>5, <1>0
      <4>2. Next(x) \in Between(x, to)
        BY <3>1, <4>1 DEF Between
      <4>. QED  BY <4>2
    <3>. QED  BY <2>2, <3>3, <3>4, <3>5
  <2>4. CASE Next(x) = Zero
    <3>1. reachFrom(x) >= to /\ Empty
      BY <1>2, <2>4 DEF Decided, Empty
    <3>2. Between(x, reachFrom(x)) = {} /\ reachFrom(x) \in Nat
      BY <1>0, <2>1, <2>4, NextFacts, ReachFacts
    <3>3. to <= reachFrom(x)
      BY <1>0, <3>1, <3>2
    <3>4. Between(x, to) = {}
      BY <1>0, <3>2, <3>3, ShorterBetween
    <3>. QED  BY <2>2, <3>1, <3>4
  <2>. QED  BY <2>3, <2>4
<1>3. CASE PrevProbe
  <2>1. /\ pc = "probe" /\ op = "Prev" /\ Year(to) > LookbackYears /\ Foot = floor
    BY <1>3 DEF PrevProbe, LadderPassesNoSlot, Foot
  <2>2. CASE Empty
    <3>1. Between(floor, to) = {}
      BY <1>2, <1>3, <2>1, <2>2 DEF PrevProbe
    <3>2. TypeOK'
      BY <1>3, <2>2 DEF PrevProbe, Return, TypeOK
    <3>. QED
      BY <1>3, <2>1, <2>2, <3>1, <3>2 DEF PrevProbe, Return, LadderPassesNoSlot,
         BisectionBrackets, NextSlotPassesNoSlot, CountsWhatItPasses,
         PrevCorrect, NextSlotCorrect, MissedRunsCorrect, floor, Between
  <2>3. CASE ~Empty
    <3>1. Between(floor, to) # {}
      BY <1>2, <1>3, <2>1, <2>3 DEF PrevProbe
    <3>2. floor \in Nat /\ floor < to
      BY <1>0, <2>1, <3>1, EmptyBetween
    <3>3. Between(to, to) = {}
      BY <1>0, EmptyBetween
    <3>4. TypeOK'
      BY <1>0, <1>3, <2>3, <3>2 DEF PrevProbe, TypeOK
    <3>5. BisectionBrackets'
      BY <1>0, <1>3, <2>1, <2>3, <3>1, <3>2, <3>3 DEF PrevProbe, BisectionBrackets,
         floor, Between
    <3>. QED
      BY <1>3, <2>3, <3>4, <3>5 DEF PrevProbe, LadderPassesNoSlot,
         NextSlotPassesNoSlot, CountsWhatItPasses,
         PrevCorrect, NextSlotCorrect, MissedRunsCorrect
  <2>. QED  BY <2>2, <2>3
<1>4. CASE PrevBisect
  <2>1. /\ pc = "bisect" /\ op = "Prev" /\ Year(to) > LookbackYears
        /\ floor <= lo /\ lo < hi /\ hi <= to /\ floor \in Nat
        /\ Between(lo, to) # {} /\ Between(hi, to) = {}
    BY <1>0, <1>4 DEF PrevBisect, BisectionBrackets
  <2>2. CASE hi - lo > 1
    <3>1. lo + (hi - lo) \div 2 \in Nat /\ lo < lo + (hi - lo) \div 2
          /\ lo + (hi - lo) \div 2 < hi
      BY <1>0, <2>1, <2>2
    <3>2. /\ mid' = lo + (hi - lo) \div 2 /\ x' = mid' /\ pc' = "test" /\ res' = res
          /\ UNCHANGED <<slots, op, from, to, lo, hi, count>>
      BY <1>4, <2>2 DEF PrevBisect
    <3>3. mid' \in Nat /\ lo < mid' /\ mid' < hi /\ mid' <= to /\ Between(mid', mid') = {}
      BY <1>0, <2>1, <3>1, <3>2, EmptyBetween
    <3>4. TypeOK'
      BY <3>2, <3>3 DEF TypeOK
    <3>5. LadderPassesNoSlot'
      BY <2>1, <3>2, <3>3 DEF LadderPassesNoSlot, Foot, Between
    <3>6. BisectionBrackets'
      BY <2>1, <3>2, <3>3 DEF BisectionBrackets, floor, Between
    <3>. QED
      BY <3>2, <3>4, <3>5, <3>6 DEF NextSlotPassesNoSlot, CountsWhatItPasses,
         PrevCorrect, NextSlotCorrect, MissedRunsCorrect
  <2>3. CASE ~(hi - lo > 1)
    <3>1. hi = lo + 1
      BY <1>0, <2>1, <2>3
    <3>2. Searched(lo)
      <4>1. to < YearStart(LastYear - ReachYears) /\ YearStart(LastYear - ReachYears) \in Nat
        BY <1>0, BoundsAssumption, YearsAssumption DEF Searched
      <4>. QED  BY <1>0, <2>1, <4>1 DEF Searched
    <3>3. hi \in slots /\ hi \in Between(floor, to)
      <4>1. PICK s \in slots : lo < s /\ s <= to
        BY <2>1 DEF Between
      <4>2. ~(hi < s /\ s <= to)
        BY <2>1 DEF Between
      <4>3. s = hi
        BY <1>0, <3>1, <4>1, <4>2
      <4>. QED  BY <1>0, <2>1, <4>3 DEF Between
    <3>4. Next(lo) = hi
      BY <1>0, <3>1, <3>2, <3>3, NextFacts
    <3>5. TypeOK'
      BY <1>0, <1>4, <2>3, <3>4 DEF PrevBisect, Return, TypeOK
    <3>. QED
      BY <1>4, <2>1, <2>3, <3>3, <3>4, <3>5 DEF PrevBisect, Return, LadderPassesNoSlot,
         BisectionBrackets, NextSlotPassesNoSlot, CountsWhatItPasses,
         PrevCorrect, NextSlotCorrect, MissedRunsCorrect, floor, Between
  <2>. QED  BY <2>2, <2>3
<1>5. CASE PrevTest
  <2>1. /\ pc = "test" /\ op = "Prev" /\ Foot = mid
        /\ floor <= lo /\ lo < mid /\ mid < hi /\ hi <= to
        /\ Year(to) > LookbackYears /\ floor \in Nat
        /\ Between(lo, to) # {} /\ Between(hi, to) = {}
        /\ pc' = "bisect" /\ UNCHANGED <<slots, op, from, to, x, mid, count, res>>
    BY <1>0, <1>5 DEF PrevTest, BisectionBrackets, Foot
  <2>2. TypeOK'
    BY <1>0, <1>5 DEF PrevTest, TypeOK
  <2>3. BisectionBrackets'
    <3>1. CASE Empty
      <4>1. Between(mid, to) = {} /\ hi' = mid /\ lo' = lo
        BY <1>2, <1>5, <2>1, <3>1 DEF PrevTest
      <4>2. mid <= to
        BY <1>0, <2>1
      <4>. QED  BY <2>1, <4>1, <4>2 DEF BisectionBrackets, floor, Between
    <3>2. CASE ~Empty
      <4>1. Between(mid, to) # {} /\ lo' = mid /\ hi' = hi
        BY <1>2, <1>5, <2>1, <3>2 DEF PrevTest
      <4>2. floor <= mid
        BY <1>0, <2>1
      <4>. QED  BY <2>1, <4>1, <4>2 DEF BisectionBrackets, floor, Between
    <3>. QED  BY <3>1, <3>2
  <2>. QED
    BY <2>1, <2>2, <2>3 DEF LadderPassesNoSlot, NextSlotPassesNoSlot,
       CountsWhatItPasses, PrevCorrect, NextSlotCorrect, MissedRunsCorrect
<1>. QED  BY <1>1, <1>3, <1>4, <1>5

(* The invariant is inductive. *)
LEMMA SearchNext == SearchInv /\ [Step]_vars => SearchInv'
<1>. SUFFICES ASSUME SearchInv, [Step]_vars PROVE SearchInv'
  OBVIOUS
<1>1. CASE Step
  BY <1>1, ClimbStep, PrevStep, NextSlotStep, MissedStep DEF Step
<1>2. CASE UNCHANGED vars
  BY <1>2 DEF vars, SearchInv, TypeOK, LoopInvariants, LadderPassesNoSlot,
     BisectionBrackets, NextSlotPassesNoSlot, CountsWhatItPasses, PrevCorrect,
     NextSlotCorrect, MissedRunsCorrect, Foot, floor, limit, Between
<1>. QED  BY <1>1, <1>2

(* Every behaviour keeps it. *)
LEMMA SearchAlways == Spec => []SearchInv
BY SearchInit, SearchNext, PTL DEF Spec

(* Prev returns the most recent slot of its window, or reports that there  *)
(* is none, however far the slots are from each other.                     *)
THEOREM PrevSound == Spec => []PrevCorrect
<1>1. SearchInv => PrevCorrect
  BY DEF SearchInv
<1>. QED  BY <1>1, SearchAlways, PTL

(* NextSlot returns the first slot, and "never" only when no slot precedes *)
(* its limit.                                                              *)
THEOREM NextSlotSound == Spec => []NextSlotCorrect
<1>1. SearchInv => NextSlotCorrect
  BY DEF SearchInv
<1>. QED  BY <1>1, SearchAlways, PTL

(* MissedRunsSince counts the slots in (lastStart, now - grace], up to its *)
(* rail: none twice, none skipped at a rung of the ladder.                 *)
THEOREM MissedRunsSound == Spec => []MissedRunsCorrect
<1>1. SearchInv => MissedRunsCorrect
  BY DEF SearchInv
<1>. QED  BY <1>1, SearchAlways, PTL

(* The searches keep their types: no probe, bracket or counter of Next,    *)
(* Prev or MissedRunsSince leaves the calendar's domain.                   *)
THEOREM TypeCorrect == Spec => []TypeOK
<1>1. SearchInv => TypeOK
  BY DEF SearchInv
<1>. QED  BY <1>1, SearchAlways, PTL

(* The loop invariants the three results rest on. *)
THEOREM LoopsSound == Spec => [](TypeOK /\ LoopInvariants)
<1>1. SearchInv => TypeOK /\ LoopInvariants
  BY DEF SearchInv
<1>. QED  BY <1>1, SearchAlways, PTL
=============================================================================
