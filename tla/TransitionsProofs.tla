------------------------- MODULE TransitionsProofs -------------------------
(***************************************************************************)
(* Transitions for every set of verdicts and specs and every bound: type   *)
(* correctness, a stop on record has been announced, and an accepted       *)
(* update has sent events for transitions it makes and for nothing else,   *)
(* and leaves unannounced at most an axis that a stop turns False.         *)
(***************************************************************************)
EXTENDS Transitions, TLAPS

(* No copy is ahead of the API server. *)
NoneAhead ==
    /\ cached.rv <= store.rv /\ cjm.rv <= store.rv
    /\ \A q \in orphans : q.rv <= store.rv

(* A resourceVersion names one content: what was read at the current       *)
(* version is what the API server holds.                                   *)
VersionNamesContent ==
    /\ cached.rv = store.rv => cached = store
    /\ pc = "read" /\ cjm.rv = store.rv => cjm = store

(* The updates that may still land. *)
InFlight == orphans \cup {q \in {cjm} : pc = "sent"}

(* An update that would still be accepted and records a new stop has been  *)
(* announced: its events were sent before it.                              *)
AnnouncedFirst ==
    \A q \in InFlight :
        q.rv = store.rv /\ q.reconciled \in Stops /\ q.reconciled # store.reconciled
            => q.reconciled \in heard

(* The transitions of a write from old to new that the code announces: it  *)
(* sends no event for an axis on the path of a stop.                       *)
Announced(old, new) ==
    Transition(old, new) \ {a \in Axes : new.reconciled # "ReconcileSuccess"}

(* While it would be accepted, the update in flight and the events that    *)
(* were sent for it speak of the same transitions.                         *)
EventsFit == pc = "sent" /\ cjm.rv = store.rv => emitted = Announced(store, cjm)

(* A reconcile says of the monitor it writes whether it was measured. *)
Told == pc = "sent" => cjm.reconciled # "None"

(* The inductive invariant: refused updates are the ones whose comparison  *)
(* with the cached monitor was out of date.                                *)
IInv ==
    /\ TypeOK /\ NoneAhead /\ VersionNamesContent
    /\ AnnouncedFirst /\ StopAnnounced /\ EventsFit /\ Told

-----------------------------------------------------------------------------
(* The three axes evaluate to a status. *)
LEMMA AxisStatus ==
    ASSUME NEW v, NEW missed, NEW h, NEW spec
    PROVE  /\ evaluateScheduleHealthy(v, missed) \in Statuses
           /\ evaluateExecutionHealthy(h, spec) \in Statuses
           /\ evaluateDurationHealthy(h, spec) \in Statuses
  BY DEF evaluateScheduleHealthy, evaluateExecutionHealthy, evaluateDurationHealthy, Statuses

(* So does Ready. *)
LEMMA ReadyStatus ==
    ASSUME NEW r, NEW axis
    PROVE  evaluateReady(r, axis) \in Statuses
  BY DEF evaluateReady, Statuses

(* What evaluating m changes and what it leaves. *)
LEMMA EvaluateFacts ==
    ASSUME TypeOK, NEW m \in Monitor
    PROVE  /\ Evaluate(m) \in Monitor
           /\ Evaluate(m).rv = m.rv /\ Evaluate(m).gen = m.gen
           /\ Evaluate(m).spec = m.spec
           /\ Evaluate(m).reconciled = truth.verdict
<1>. DEFINE h == IF truth.verdict \in Merging THEN truth.history ELSE m.history
            axis == [ScheduleHealthy |->
                        evaluateScheduleHealthy(truth.verdict, truth.missed),
                     ExecutionHealthy |-> evaluateExecutionHealthy(h, m.spec),
                     DurationHealthy |-> evaluateDurationHealthy(h, m.spec)]
<1>1. h \in History
  BY DEF TypeOK, Truth, Monitor
<1>2. axis \in [Axes -> Statuses]
  BY AxisStatus DEF Axes
<1>3. truth.verdict \in Stops \cup {"ReconcileSuccess", "None"}
  BY VerdictsAssumption DEF TypeOK, Truth
<1>4. evaluateReady(truth.verdict, axis) \in Statuses
  BY ReadyStatus
<1>5. Evaluate(m) =
        [m EXCEPT !.history = h, !.reconciled = truth.verdict, !.axis = axis,
                  !.ready = evaluateReady(truth.verdict, axis),
                  !.next = (truth.verdict = "ReconcileSuccess"),
                  !.observed = m.gen]
  BY DEF Evaluate
<1>. HIDE DEF h, axis
<1>. QED  BY <1>1, <1>2, <1>3, <1>4, <1>5 DEF Monitor

(* A fresh monitor is a monitor. *)
LEMMA BlankType ==
    ASSUME NEW s \in Specs
    PROVE  Blank(s) \in Monitor /\ [Blank(s) EXCEPT !.rv = 0] \in Monitor
<1>1. NoHistory \in History
  BY BoundsAssumption DEF NoHistory, History, NoRuns
<1>2. [a \in Axes |-> "None"] \in [Axes -> Statuses]
  BY DEF Statuses
<1>. QED  BY <1>1, <1>2 DEF Blank, Monitor, Statuses

(* An idle worker holds the empty object. *)
LEMMA NothingType == Nothing \in Monitor /\ Nothing.rv = 0
<1>1. (CHOOSE s \in Specs : TRUE) \in Specs
  BY SpecsAssumption
<1>. QED  BY <1>1, BlankType DEF Nothing, Blank

(* The events of a reconcile are among the known reasons. *)
LEMMA EventsType ==
    ASSUME TypeOK, NEW prior \in Monitor, NEW curr \in Monitor, curr.reconciled # "None"
    PROVE  Events(prior, curr) \subseteq Axes \cup Stops \cup {"ReconcileSuccess", "ScheduleMismatch"}
  BY DEF Events, emitMismatch, emitTransitionEvents, Monitor

(* A reconcile announces the transitions from what it read to what it      *)
(* computed.                                                               *)
LEMMA EventsAreTransitions ==
    ASSUME TypeOK, NEW m \in Monitor
    PROVE  Events(m, Evaluate(m)) = Announced(m, Evaluate(m))
<1>. DEFINE new == Evaluate(m)
            axes == TurnedFalse(m, new)
            turn == {r \in Stops \cup {"ReconcileSuccess"} :
                        /\ new.reconciled = r /\ m.reconciled # r
                        /\ r = "ReconcileSuccess" => m.reconciled # "None"}
            warn == {e \in {"ScheduleMismatch"} :
                        new.spec.override /\ m.observed # new.gen
                           /\ new.reconciled \in Merging}
<1>1. new.gen = m.gen /\ new.spec = m.spec /\ new.reconciled = truth.verdict
  BY EvaluateFacts
<1>2. truth.verdict \in Stops \cup {"ReconcileSuccess"} /\ "ReconcileSuccess" \notin Stops
  BY VerdictsAssumption DEF TypeOK, Truth, Stops
<1>3. m.reconciled \in Stops \cup {"ReconcileSuccess", "None"} /\ "None" \notin Stops
  BY DEF Monitor, Stops
<1>. HIDE DEF new
<1>4. emitMismatch(m) = warn
  BY <1>1 DEF emitMismatch
<1>5. Transition(m, new) = axes \cup turn \cup warn
  BY DEF Transition
<1>6. axes \subseteq Axes /\ \A e \in turn \cup warn : e \notin Axes
  BY DEF TurnedFalse, Axes, Stops
<1>7. CASE truth.verdict = "ReconcileSuccess"
  <2>1. turn = {e \in {"ReconcileSuccess"} : m.reconciled \in Stops}
    BY <1>1, <1>2, <1>3, <1>7
  <2>2. emitTransitionEvents(m, new) = axes \cup turn
    BY <2>1 DEF emitTransitionEvents, TurnedFalse
  <2>3. Events(m, new) = emitMismatch(m) \cup emitTransitionEvents(m, new)
    BY <1>1, <1>7 DEF Events
  <2>. HIDE DEF axes, turn, warn
  <2>4. Announced(m, new) = Transition(m, new)
    BY <1>1, <1>7 DEF Announced
  <2>. QED  BY <1>4, <1>5, <2>2, <2>3, <2>4 DEF new
<1>8. CASE truth.verdict # "ReconcileSuccess"
  <2>1. turn = {r \in {new.reconciled} : m.reconciled # r}
    BY <1>1, <1>2, <1>8
  <2>2. Events(m, new) = emitMismatch(m) \cup turn
    BY <1>1, <1>8, <2>1 DEF Events, shouldEmitReconciledEvent
  <2>. HIDE DEF axes, turn, warn
  <2>3. Announced(m, new) = turn \cup warn
    BY <1>1, <1>5, <1>6, <1>8 DEF Announced
  <2>. QED  BY <1>4, <2>2, <2>3 DEF new
<1>. QED  BY <1>7, <1>8

(* The end of a reconcile leaves the worker empty-handed. *)
LEMMA ReturnType ==
    ASSUME Return
    PROVE  /\ pc' = "idle" /\ cjm' \in Monitor /\ cjm'.rv = 0 /\ emitted' = {}
  BY NothingType DEF Return

(* An update that lands leaves a monitor. *)
LEMMA LandType ==
    ASSUME TypeOK, NEW q \in Monitor, Land(q)
    PROVE  /\ store' \in Monitor
           /\ heard' \subseteq heard
           /\ store'.reconciled = q.reconciled
           /\ store' = store \/ store'.rv = store.rv + 1
           /\ store'.reconciled # store.reconciled => store'.rv = store.rv + 1
  BY DEF Land, TypeOK, Monitor

(* Every step keeps the types. *)
LEMMA TypeNext == TypeOK /\ [Next]_vars => TypeOK'
<1>. SUFFICES ASSUME TypeOK, [Next]_vars  PROVE TypeOK'
  OBVIOUS
<1>1. CASE Get
  BY <1>1 DEF Get, TypeOK
<1>2. CASE Send
  <2>1. cjm' \in Monitor /\ cjm'.reconciled = truth.verdict
    BY <1>2, EvaluateFacts DEF Send, TypeOK
  <2>2. emitted' = Events(cjm, cjm') /\ cjm \in Monitor
    BY <1>2 DEF Send, TypeOK
  <2>3. truth.verdict # "None"
    BY VerdictsAssumption DEF TypeOK, Truth, Stops
  <2>4. emitted' \subseteq Axes \cup Stops \cup {"ReconcileSuccess", "ScheduleMismatch"}
    BY <2>1, <2>2, <2>3, EventsType
  <2>. QED  BY <1>2, <2>1, <2>4 DEF Send, TypeOK
<1>3. CASE ReadFails
  BY <1>3, ReturnType, BoundsAssumption DEF ReadFails, TypeOK
<1>4. CASE Serve
  <2>1. cjm \in Monitor
    BY DEF TypeOK
  <2>. QED  BY <1>4, <2>1, LandType, ReturnType DEF Serve, TypeOK
<1>5. CASE Refuse
  BY <1>5, ReturnType DEF Refuse, TypeOK
<1>6. CASE Abandon
  BY <1>6, ReturnType, BoundsAssumption DEF Abandon, TypeOK
<1>7. ASSUME NEW q \in orphans, OrphanLands(q)  PROVE TypeOK'
  <2>1. q \in Monitor
    BY DEF TypeOK
  <2>. QED  BY <1>7, <2>1, LandType DEF OrphanLands, TypeOK
<1>8. ASSUME NEW q \in orphans, OrphanRefused(q)  PROVE TypeOK'
  BY <1>8 DEF OrphanRefused, TypeOK
<1>9. CASE CacheSync
  BY <1>9 DEF CacheSync, TypeOK
<1>10. CASE Observe
  <2>1. truth' \in Truth
    <3>1. ASSUME NEW v \in Verdicts, truth' = [truth EXCEPT !.verdict = v]  PROVE truth' \in Truth
      BY <3>1 DEF TypeOK, Truth
    <3>2. ASSUME NEW b \in BOOLEAN, truth' = [truth EXCEPT !.missed = b]  PROVE truth' \in Truth
      BY <3>2 DEF TypeOK, Truth
    <3>3. ASSUME NEW h \in History, truth' = [truth EXCEPT !.history = h]  PROVE truth' \in Truth
      BY <3>3 DEF TypeOK, Truth
    <3>. QED  BY <1>10, <3>1, <3>2, <3>3 DEF Observe
  <2>. QED  BY <1>10, <2>1, BoundsAssumption DEF Observe, TypeOK
<1>11. ASSUME NEW s \in Specs, EditSpec(s)  PROVE TypeOK'
  <2>1. store \in Monitor /\ store.gen + 1 \in Nat /\ store.rv + 1 \in Nat
    BY DEF TypeOK, Monitor
  <2>2. store' = [store EXCEPT !.spec = s, !.gen = store.gen + 1, !.rv = store.rv + 1]
    BY <1>11 DEF EditSpec
  <2>3. store' \in Monitor
    BY <2>1, <2>2 DEF Monitor
  <2>. QED  BY <1>11, <2>3, BoundsAssumption DEF EditSpec, TypeOK
<1>12. CASE UNCHANGED vars
  BY <1>12 DEF vars, TypeOK
<1>. QED
  BY <1>1, <1>2, <1>3, <1>4, <1>5, <1>6, <1>7, <1>8, <1>9, <1>10, <1>11, <1>12 DEF Next

-----------------------------------------------------------------------------
(* A fresh monitor says nothing yet. *)
LEMMA InvInit == Init => IInv
<1>. SUFFICES ASSUME Init  PROVE IInv
  OBVIOUS
<1>1. PICK s \in Specs : store = Blank(s)
  BY DEF Init
<1>2. store \in Monitor
  BY <1>1, BlankType
<1>3. NoHistory \in History
  BY BoundsAssumption DEF NoHistory, History, NoRuns
<1>4. truth \in Truth
  BY <1>3, VerdictsAssumption DEF Init, Truth
<1>5. 0 \in 0..MaxChanges /\ 0 \in 0..MaxFaults
  BY BoundsAssumption
<1>6. TypeOK
  BY <1>2, <1>4, <1>5, NothingType DEF Init, TypeOK
<1>7. NoneAhead
  BY <1>2, NothingType DEF Init, NoneAhead, Monitor
<1>8. StopAnnounced
  BY <1>1 DEF StopAnnounced, Blank, Stops
<1>. QED
  BY <1>6, <1>7, <1>8
     DEF Init, IInv, VersionNamesContent, AnnouncedFirst, InFlight, EventsFit, Told

(* What a landing update does to the monitor and to all other copies: they *)
(* keep their version and content, or fall behind.                         *)
LEMMA LandKeeps ==
    ASSUME IInv, NEW q \in InFlight, q \in Monitor, Land(q), UNCHANGED cached
    PROVE  /\ store.rv \in Nat
           /\ StopAnnounced'
           /\ cached'.rv <= store'.rv
           /\ cached'.rv = store'.rv => cached' = store'
           /\ \A p \in InFlight \cup {cjm} : p.rv <= store'.rv
           /\ (store' = store /\ heard' = heard)
                 \/ \A p \in InFlight \cup {cjm} : p.rv # store'.rv
<1>. USE DEF IInv
<1>1. store.rv \in Nat /\ cached.rv \in Nat /\ \A p \in InFlight \cup {cjm} : p.rv \in Nat
  BY DEF TypeOK, Monitor, InFlight
<1>2. \A p \in InFlight \cup {cjm} : p.rv <= store.rv
  BY DEF NoneAhead, InFlight
<1>3. (store' = store /\ heard' = heard) \/ store'.rv = store.rv + 1
  BY LandType DEF Land
<1>4. StopAnnounced'
  <2>1. CASE q.reconciled = store.reconciled
    BY <2>1, LandType DEF Land, StopAnnounced
  <2>2. CASE q.reconciled # store.reconciled
    BY <2>2, LandType DEF Land, AnnouncedFirst, StopAnnounced
  <2>. QED  BY <2>1, <2>2
<1>. QED  BY <1>1, <1>2, <1>3, <1>4 DEF NoneAhead, VersionNamesContent

(* Every step keeps the inductive invariant. *)
LEMMA InvNext == IInv /\ [Next]_vars => IInv'
<1>. SUFFICES ASSUME IInv, [Next]_vars  PROVE IInv'
  OBVIOUS
<1>. USE DEF IInv
<1>0. TypeOK' /\ store.rv \in Nat /\ cached.rv \in Nat /\ cjm.rv \in Nat
      /\ \A q \in orphans : q.rv \in Nat
  BY TypeNext DEF TypeOK, Monitor
<1>1. CASE Get
  <2>1. NoneAhead' /\ VersionNamesContent'
    BY <1>1 DEF Get, NoneAhead, VersionNamesContent
  <2>2. InFlight' = orphans
    BY <1>1 DEF Get, InFlight
  <2>3. AnnouncedFirst' /\ StopAnnounced'
    BY <1>1, <2>2 DEF Get, AnnouncedFirst, StopAnnounced, InFlight
  <2>. QED  BY <1>0, <1>1, <2>1, <2>3 DEF Get, EventsFit, Told
<1>2. CASE Send
  <2>1. cjm' = Evaluate(cjm) /\ cjm \in Monitor /\ cjm'.rv = cjm.rv
        /\ emitted' = Announced(cjm, cjm')
    BY <1>2, EvaluateFacts, EventsAreTransitions DEF Send, TypeOK
  <2>2. UNCHANGED <<store, cached, orphans>> /\ pc' = "sent" /\ pc = "read"
        /\ heard' = heard \cup (emitted' \cap Stops)
    BY <1>2 DEF Send
  <2>3. NoneAhead' /\ VersionNamesContent'
    BY <2>1, <2>2 DEF NoneAhead, VersionNamesContent
  <2>4. cjm'.rv = store.rv => cjm = store
    BY <2>1, <2>2 DEF VersionNamesContent
  <2>5. EventsFit' /\ Told'
    <3>1. cjm'.reconciled # "None"
      BY <2>1, EvaluateFacts, VerdictsAssumption DEF TypeOK, Truth, Stops
    <3>. QED  BY <2>1, <2>2, <2>4, <3>1 DEF EventsFit, Told
  <2>6. StopAnnounced'
    BY <2>2 DEF StopAnnounced
  <2>7. ASSUME cjm'.rv = store.rv, cjm'.reconciled \in Stops,
               cjm'.reconciled # store.reconciled
        PROVE  cjm'.reconciled \in heard'
    <3>1. cjm'.reconciled \in emitted'
      BY <2>1, <2>4, <2>7 DEF Announced, Transition, Stops, Axes
    <3>. QED  BY <2>2, <2>7, <3>1
  <2>8. ASSUME NEW q \in InFlight'
        PROVE  q = cjm' \/ (q \in InFlight /\ q \in orphans)
    BY <2>2 DEF InFlight
  <2>9. AnnouncedFirst'
    BY <2>2, <2>7, <2>8 DEF AnnouncedFirst
  <2>. QED  BY <1>0, <2>3, <2>5, <2>6, <2>9
<1>3. CASE ReadFails \/ Refuse
  <2>1. Return /\ UNCHANGED <<store, cached, orphans, heard>>
    BY <1>3 DEF ReadFails, Refuse
  <2>2. InFlight' \subseteq InFlight
    BY <2>1, ReturnType DEF InFlight
  <2>3. NoneAhead' /\ VersionNamesContent' /\ EventsFit' /\ Told'
    BY <1>0, <2>1, ReturnType DEF NoneAhead, VersionNamesContent, EventsFit, Told
  <2>4. AnnouncedFirst' /\ StopAnnounced'
    BY <2>1, <2>2 DEF AnnouncedFirst, StopAnnounced
  <2>. QED  BY <1>0, <2>3, <2>4
<1>4. CASE Serve
  <2>1. cjm \in InFlight /\ cjm \in Monitor /\ Land(cjm) /\ Return
        /\ UNCHANGED <<cached, orphans>>
    BY <1>4 DEF Serve, InFlight, TypeOK
  <2>2. InFlight' \subseteq InFlight /\ orphans \subseteq InFlight
    BY <2>1, ReturnType DEF InFlight
  <2>3. NoneAhead' /\ VersionNamesContent' /\ EventsFit' /\ Told'
    <3>1. cjm'.rv <= store'.rv
      BY <1>0, <2>1, ReturnType, TypeNext DEF TypeOK, Monitor
    <3>. QED
      BY <2>1, <2>2, <3>1, LandKeeps, ReturnType DEF NoneAhead, VersionNamesContent, EventsFit, Told
  <2>4. AnnouncedFirst' /\ StopAnnounced'
    BY <2>1, <2>2, LandKeeps DEF AnnouncedFirst
  <2>. QED  BY <1>0, <2>3, <2>4
<1>5. CASE Abandon
  <2>1. pc = "sent" /\ Return /\ UNCHANGED <<store, cached, heard>>
        /\ orphans' \in {orphans, orphans \cup {cjm}}
    BY <1>5 DEF Abandon
  <2>2. InFlight' \subseteq InFlight
    BY <2>1, ReturnType DEF InFlight
  <2>3. NoneAhead' /\ VersionNamesContent' /\ EventsFit' /\ Told'
    BY <1>0, <2>1, ReturnType DEF NoneAhead, VersionNamesContent, EventsFit, Told
  <2>4. AnnouncedFirst' /\ StopAnnounced'
    BY <2>1, <2>2 DEF AnnouncedFirst, StopAnnounced
  <2>. QED  BY <1>0, <2>3, <2>4
<1>6. ASSUME NEW q \in orphans, OrphanLands(q)  PROVE IInv'
  <2>1. q \in InFlight /\ q \in Monitor /\ Land(q)
        /\ UNCHANGED <<cached, pc, cjm, emitted>> /\ orphans' \subseteq orphans
    BY <1>6 DEF OrphanLands, InFlight, TypeOK
  <2>2. InFlight' \subseteq InFlight /\ orphans \subseteq InFlight
    BY <2>1 DEF InFlight
  <2>3. NoneAhead'
    BY <2>1, <2>2, LandKeeps DEF NoneAhead
  <2>4. VersionNamesContent' /\ EventsFit' /\ Told'
    BY <2>1, LandKeeps DEF VersionNamesContent, EventsFit, Told
  <2>5. AnnouncedFirst' /\ StopAnnounced'
    BY <2>1, <2>2, LandKeeps DEF AnnouncedFirst
  <2>. QED  BY <1>0, <2>3, <2>4, <2>5
<1>7. ASSUME NEW q \in orphans, OrphanRefused(q)  PROVE IInv'
  <2>1. UNCHANGED <<store, cached, pc, cjm, emitted, heard>> /\ orphans' \subseteq orphans
    BY <1>7 DEF OrphanRefused
  <2>2. InFlight' \subseteq InFlight
    BY <2>1 DEF InFlight
  <2>. QED
    BY <1>0, <2>1, <2>2 DEF NoneAhead, VersionNamesContent, AnnouncedFirst, StopAnnounced, EventsFit, Told
<1>8. CASE CacheSync
  BY <1>0, <1>8
     DEF CacheSync, NoneAhead, VersionNamesContent, AnnouncedFirst, InFlight, StopAnnounced, EventsFit, Told
<1>9. CASE Observe
  BY <1>0, <1>9
     DEF Observe, NoneAhead, VersionNamesContent, AnnouncedFirst, InFlight, StopAnnounced, EventsFit, Told
<1>10. ASSUME NEW s \in Specs, EditSpec(s)  PROVE IInv'
  <2>1. store'.rv = store.rv + 1 /\ store'.reconciled = store.reconciled
        /\ UNCHANGED <<cached, pc, cjm, emitted, orphans, heard>>
    BY <1>10 DEF EditSpec, TypeOK, Monitor
  <2>2. NoneAhead' /\ VersionNamesContent' /\ EventsFit' /\ Told'
    BY <1>0, <2>1 DEF NoneAhead, VersionNamesContent, EventsFit, Told
  <2>3. \A q \in InFlight' : q.rv # store'.rv
    BY <1>0, <2>1 DEF NoneAhead, InFlight
  <2>4. AnnouncedFirst' /\ StopAnnounced'
    BY <2>1, <2>3 DEF AnnouncedFirst, StopAnnounced
  <2>. QED  BY <1>0, <2>2, <2>4
<1>11. CASE UNCHANGED vars
  BY <1>0, <1>11
     DEF vars, NoneAhead, VersionNamesContent, AnnouncedFirst, InFlight, StopAnnounced, EventsFit, Told
<1>. QED
  BY <1>1, <1>2, <1>3, <1>4, <1>5, <1>6, <1>7, <1>8, <1>9, <1>10, <1>11 DEF Next

-----------------------------------------------------------------------------
(* The inductive invariant holds of every behaviour. *)
THEOREM Invariant == Spec => []IInv
  BY InvInit, InvNext, PTL DEF Spec

(* Conditions, copies, events and updates on the wire keep their types. *)
THEOREM TypeCorrect == Spec => []TypeOK
<1>1. IInv => TypeOK
  BY DEF IInv
<1>. QED  BY <1>1, Invariant, PTL

(* A reason the API server records as Reconciled=False was announced by    *)
(* shouldEmitReconciledEvent since the record last said something else,    *)
(* whatever was refused, given up or landed late.                          *)
THEOREM StopsAnnounced == Spec => []StopAnnounced
<1>1. IInv => StopAnnounced
  BY DEF IInv
<1>. QED  BY <1>1, Invariant, PTL

(* A reconcile whose update is accepted has sent no event but for a        *)
(* transition that update makes in the API server, and one for each of     *)
(* them, save at most for an axis that finishEarlyReturn turns False: a    *)
(* stale comparison in emitTransitionEvents or shouldEmitReconciledEvent   *)
(* is always followed by a refusal.                                        *)
THEOREM EventsOfAcceptedUpdates == Spec => EventsMatch
<1>1. ASSUME IInv, Accepted
      PROVE  /\ emitted \subseteq Transition(store, cjm)
             /\ Transition(store, cjm) \ emitted \subseteq
                    {a \in TurnedFalse(store, cjm) : cjm.reconciled \in Stops}
  <2>1. emitted = Announced(store, cjm)
    BY <1>1 DEF IInv, EventsFit, Accepted
  <2>2. emitted \subseteq Transition(store, cjm)
    BY <2>1 DEF Announced
  <2>3. ASSUME NEW a \in Transition(store, cjm), a \notin emitted
        PROVE  a \in TurnedFalse(store, cjm) /\ cjm.reconciled \in Stops
    <3>1. a \in Axes /\ cjm.reconciled # "ReconcileSuccess"
      BY <2>1, <2>3 DEF Announced
    <3>2. a \in TurnedFalse(store, cjm)
      BY <2>3, <3>1 DEF Transition, Axes, Stops
    <3>3. cjm.reconciled # "None"
      BY <1>1 DEF IInv, Told, Accepted
    <3>. QED  BY <1>1, <3>1, <3>2, <3>3 DEF IInv, TypeOK, Monitor
  <2>. QED  BY <2>2, <2>3
<1>2. IInv /\ [Next]_vars =>
        [Accepted =>
            /\ emitted \subseteq Transition(store, cjm)
            /\ Transition(store, cjm) \ emitted \subseteq
                   {a \in TurnedFalse(store, cjm) : cjm.reconciled \in Stops}]_vars
  BY <1>1
<1>. QED  BY <1>2, Invariant, PTL DEF Spec, EventsMatch
=============================================================================
