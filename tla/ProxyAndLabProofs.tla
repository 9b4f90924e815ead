------------------------- MODULE ProxyAndLabProofs -------------------------
(***************************************************************************)
(* The ceilings and the truth of the counting proxy's ledger, for any      *)
(* number of requests (handler threads) and any ceilings of the permit;    *)
(* and the evidence of the qualification lab, for any runs and runtimes.   *)
(***************************************************************************)
EXTENDS CountingProxy, QualificationLab, FiniteSetTheorems, TLAPS

USE DEF Slept, FinalState, Goto, SetRow, Deny, BudgetStates, ActiveStates,
        ForwardedStates

\* Every reachable state is well typed.
THEOREM TypeCorrect == Spec => []TypeOK
<1>1. Init => TypeOK
  BY CeilingsAssumption, ClockAssumption
     DEF Init, TypeOK, Clock, RowState, Steps
<1>2. TypeOK /\ [Next]_vars => TypeOK'
  <2> SUFFICES ASSUME TypeOK, [Next]_vars PROVE TypeOK'
    OBVIOUS
  <2> USE ClockAssumption DEF TypeOK, RowState, Steps
  <2>1. ASSUME NEW r \in Requests, Authorize(r) PROVE TypeOK'
    BY <2>1 DEF Clock, Authorize
  <2>2. ASSUME NEW r \in Requests, CheckCircuit(r) PROVE TypeOK'
    BY <2>2 DEF Clock, CheckCircuit
  <2>3. ASSUME NEW r \in Requests, Admit(r) PROVE TypeOK'
    BY <2>3 DEF Clock, Admit
  <2>4. ASSUME NEW r \in Requests, Pace(r) PROVE TypeOK'
    BY <2>4 DEF Clock, Pace
  <2>5. ASSUME NEW r \in Requests, MarkForwarding(r) PROVE TypeOK'
    BY <2>5 DEF Clock, MarkForwarding
  <2>6. ASSUME NEW r \in Requests, Stamp(r) PROVE TypeOK'
    BY <2>6 DEF Clock, Stamp
  <2>7. ASSUME NEW r \in Requests, Send(r) PROVE TypeOK'
    BY <2>7 DEF Clock, Send
  <2>8. ASSUME NEW r \in Requests, Respond(r) PROVE TypeOK'
    BY <2>8 DEF Clock, Respond
  <2>9. ASSUME NEW r \in Requests, Fail(r) PROVE TypeOK'
    BY <2>9 DEF Clock, Fail
  <2>10. ASSUME NEW r \in Requests, Finish(r) PROVE TypeOK'
    BY <2>10 DEF Clock, Finish
  <2>11. ASSUME NEW r \in Requests, Abort(r) PROVE TypeOK'
    BY <2>11 DEF Clock, Abort
  <2>12. CASE Crash
    BY <2>12 DEF Clock, Crash
  <2>13. CASE Tick
    BY <2>13 DEF Clock, Tick
  <2>14. CASE UNCHANGED vars
    BY <2>14 DEF Clock, vars
  <2> QED
    BY <2>1, <2>2, <2>3, <2>4, <2>5, <2>6, <2>7, <2>8, <2>9, <2>10, <2>11,
       <2>12, <2>13, <2>14 DEF Next, Handle
<1> QED
  BY <1>1, <1>2, PTL DEF Spec

(***************************************************************************)
(* Where a handler is says what its row says: this makes the ledger true   *)
(* and its slots owned.                                                    *)
(***************************************************************************)
Staged ==
  \A r \in Requests :
    /\ pc[r] \in {"unsent", "circuit", "admit"} => row[r] = "none"
    /\ pc[r] \in {"pace", "sleep"} => row[r] = "reserved"
    /\ pc[r] \in {"stamp", "send", "wait", "received", "failed"} =>
         row[r] = "forwarding"
    /\ pc[r] = "done" => row[r] \notin ActiveStates
    /\ pc[r] \in {"wait", "received"} => hit[r]
    /\ hit[r] => /\ row[r] \in ForwardedStates
                 /\ pc[r] \in {"wait", "received", "failed", "done", "lost"}
    /\ row[r] = "response_received" => hit[r]

\* Every reachable state is Staged.
LEMMA StagedAlways == Spec => []Staged
<1>1. Init => Staged
  BY DEF Init, Staged
<1>2. TypeOK /\ Staged /\ [Next]_vars => Staged'
  <2> SUFFICES ASSUME TypeOK, Staged, [Next]_vars PROVE Staged'
    OBVIOUS
  <2>1. ASSUME NEW r \in Requests, Authorize(r) PROVE Staged'
    BY <2>1 DEF TypeOK, Steps, RowState, Staged, Authorize
  <2>2. ASSUME NEW r \in Requests, CheckCircuit(r) PROVE Staged'
    BY <2>2 DEF TypeOK, Steps, RowState, Staged, CheckCircuit
  <2>3. ASSUME NEW r \in Requests, Admit(r) PROVE Staged'
    BY <2>3 DEF TypeOK, Steps, RowState, Staged, Admit
  <2>4. ASSUME NEW r \in Requests, Pace(r) PROVE Staged'
    BY <2>4 DEF TypeOK, Steps, RowState, Staged, Pace
  <2>5. ASSUME NEW r \in Requests, MarkForwarding(r) PROVE Staged'
    BY <2>5 DEF TypeOK, Steps, RowState, Staged, MarkForwarding
  <2>6. ASSUME NEW r \in Requests, Stamp(r) PROVE Staged'
    BY <2>6 DEF TypeOK, Steps, RowState, Staged, Stamp
  <2>7. ASSUME NEW r \in Requests, Send(r) PROVE Staged'
    BY <2>7 DEF TypeOK, Steps, RowState, Staged, Send
  <2>8. ASSUME NEW r \in Requests, Respond(r) PROVE Staged'
    BY <2>8 DEF TypeOK, Steps, RowState, Staged, Respond
  <2>9. ASSUME NEW r \in Requests, Fail(r) PROVE Staged'
    BY <2>9 DEF TypeOK, Steps, RowState, Staged, Fail
  <2>10. ASSUME NEW r \in Requests, Finish(r) PROVE Staged'
    BY <2>10 DEF TypeOK, Steps, RowState, Staged, Finish
  <2>11. ASSUME NEW r \in Requests, Abort(r) PROVE Staged'
    BY <2>11 DEF TypeOK, Steps, RowState, Staged, Abort
  <2>12. CASE Crash
    BY <2>12 DEF TypeOK, Steps, RowState, Staged, Crash
  <2>13. CASE Tick
    BY <2>13 DEF TypeOK, Steps, RowState, Staged, Tick
  <2>14. CASE UNCHANGED vars
    BY <2>14 DEF TypeOK, Steps, RowState, Staged, vars
  <2> QED
    BY <2>1, <2>2, <2>3, <2>4, <2>5, <2>6, <2>7, <2>8, <2>9, <2>10, <2>11,
       <2>12, <2>13, <2>14 DEF Next, Handle
<1> QED
  BY <1>1, <1>2, TypeCorrect, PTL DEF Spec

\* The ledger agrees with the target at every moment and after every crash,
\* and a slot is only held by a handler that is alive or was lost with it.
THEOREM LedgerIsTruthful == Spec => [](LedgerTruthful /\ SlotsOwned)
<1>1. TypeOK /\ Staged => LedgerTruthful /\ SlotsOwned
  BY DEF TypeOK, Steps, Staged, LedgerTruthful, SlotsOwned
<1> QED
  BY <1>1, TypeCorrect, StagedAlways, PTL

-----------------------------------------------------------------------------
(***************************************************************************)
(* The ceilings.  Only an admission adds to the rows that count.           *)
(***************************************************************************)
Counted ==
  /\ Cardinality(Rows(BudgetStates)) <= MaxRequests
  /\ Cardinality(Rows(ActiveStates)) <= MaxConcurrency

Shrinks ==
  \A r \in Requests :
    /\ row'[r] \in BudgetStates => row[r] \in BudgetStates
    /\ row'[r] \in ActiveStates => row[r] \in ActiveStates

\* The rows in some states are finitely many.
LEMMA RowsFinite ==
  ASSUME NEW states
  PROVE  IsFiniteSet(Rows(states)) /\ Cardinality(Rows(states)) \in Nat
<1>1. Rows(states) \in SUBSET Requests
  BY DEF Rows
<1> QED
  BY <1>1, RequestsAssumption, FS_Subset, FS_CardinalityType

\* A step adds a row to the counted ones only by an admission.
LEMMA RowStep ==
  ASSUME TypeOK, Staged, [Next]_vars
  PROVE  \/ Shrinks
         \/ /\ ~ Denied
            /\ \E r \in Requests : row' = [row EXCEPT ![r] = "reserved"]
<1> DEFINE Goal ==
             \/ Shrinks
             \/ /\ ~ Denied
                /\ \E r \in Requests : row' = [row EXCEPT ![r] = "reserved"]
<1> SUFFICES Goal
  OBVIOUS
<1> USE DEF TypeOK, Staged, Shrinks
<1>1. ASSUME NEW r \in Requests, Authorize(r) PROVE Goal
  BY <1>1 DEF Steps, Authorize
<1>2. ASSUME NEW r \in Requests, CheckCircuit(r) PROVE Goal
  BY <1>2 DEF Steps, CheckCircuit
<1>3. ASSUME NEW r \in Requests, Admit(r) PROVE Goal
  BY <1>3 DEF Steps, Admit
<1>4. ASSUME NEW r \in Requests, Pace(r) PROVE Goal
  BY <1>4 DEF Steps, Pace
<1>5. ASSUME NEW r \in Requests, MarkForwarding(r) PROVE Goal
  BY <1>5 DEF Steps, MarkForwarding
<1>6. ASSUME NEW r \in Requests, Stamp(r) PROVE Goal
  BY <1>6 DEF Steps, Stamp
<1>7. ASSUME NEW r \in Requests, Send(r) PROVE Goal
  BY <1>7 DEF Steps, Send
<1>8. ASSUME NEW r \in Requests, Respond(r) PROVE Goal
  BY <1>8 DEF Steps, Respond
<1>9. ASSUME NEW r \in Requests, Fail(r) PROVE Goal
  BY <1>9 DEF Steps, Fail
<1>10. ASSUME NEW r \in Requests, Finish(r) PROVE Goal
  BY <1>10 DEF Steps, Finish
<1>11. ASSUME NEW r \in Requests, Abort(r) PROVE Goal
  BY <1>11 DEF Steps, Abort
<1>12. CASE Crash
  BY <1>12 DEF Steps, Crash
<1>13. CASE Tick
  BY <1>13 DEF Steps, Tick
<1>14. CASE UNCHANGED vars
  BY <1>14 DEF Steps, vars
<1> QED
  BY <1>1, <1>2, <1>3, <1>4, <1>5, <1>6, <1>7, <1>8, <1>9, <1>10, <1>11,
     <1>12, <1>13, <1>14 DEF Next, Handle

\* Both ceilings hold of the ledger in every reachable state.
LEMMA CountedAlways == Spec => []Counted
<1>1. Init => Counted
  <2> SUFFICES ASSUME Init PROVE Counted
    OBVIOUS
  <2>1. Rows(BudgetStates) = {} /\ Rows(ActiveStates) = {}
    BY DEF Init, Rows
  <2> QED
    BY <2>1, FS_EmptySet, CeilingsAssumption DEF Counted
<1>2. TypeOK /\ Staged /\ Counted /\ [Next]_vars => Counted'
  <2> SUFFICES ASSUME TypeOK, Staged, Counted, [Next]_vars PROVE Counted'
    OBVIOUS
  <2> DEFINE B == Rows(BudgetStates)
             A == Rows(ActiveStates)
  <2>1. /\ IsFiniteSet(B) /\ Cardinality(B) \in Nat
        /\ IsFiniteSet(A) /\ Cardinality(A) \in Nat
    BY RowsFinite
  <2>2. CASE Shrinks
    <3>1. B' \in SUBSET B /\ A' \in SUBSET A
      BY <2>2 DEF Rows, Shrinks
    <3> HIDE DEF A, B
    <3>2. Cardinality(B') <= Cardinality(B) /\ Cardinality(B') \in Nat
      BY <2>1, <3>1, FS_Subset, FS_CardinalityType
    <3>3. Cardinality(A') <= Cardinality(A) /\ Cardinality(A') \in Nat
      BY <2>1, <3>1, FS_Subset, FS_CardinalityType
    <3>4. Cardinality(B) <= MaxRequests /\ Cardinality(A) <= MaxConcurrency
      BY DEF Counted, A, B
    <3>5. Cardinality(B') <= MaxRequests /\ Cardinality(A') <= MaxConcurrency
      BY <2>1, <3>2, <3>3, <3>4, CeilingsAssumption
    <3> QED
      BY <3>5 DEF Counted, A, B
  <2>3. ASSUME ~ Denied,
               NEW r \in Requests, row' = [row EXCEPT ![r] = "reserved"]
        PROVE  Counted'
    <3>1. B' = B \cup {r} /\ A' = A \cup {r}
      BY <2>3 DEF TypeOK, Rows
    <3>2. /\ ~ (Cardinality(B) >= MaxRequests)
          /\ ~ (Cardinality(A) >= MaxConcurrency)
      BY <2>3 DEF Denied
    <3> HIDE DEF A, B
    <3>3. /\ Cardinality(B') \in {Cardinality(B), Cardinality(B) + 1}
          /\ Cardinality(A') \in {Cardinality(A), Cardinality(A) + 1}
      BY <2>1, <3>1, FS_AddElement
    <3>4. Cardinality(B') <= MaxRequests /\ Cardinality(A') <= MaxConcurrency
      BY <2>1, <3>2, <3>3, CeilingsAssumption
    <3> QED
      BY <3>4 DEF Counted, A, B
  <2> QED
    BY <2>2, <2>3, RowStep
<1> QED
  BY <1>1, <1>2, TypeCorrect, StagedAlways, PTL DEF Spec

\* No request beyond max_requests reaches the target, and no connection
\* beyond max_concurrency is open, for any number of contending threads.
THEOREM CeilingsHold == Spec => [](BudgetCeiling /\ ConcurrencyCeiling)
<1>1. TypeOK /\ Staged /\ Counted => BudgetCeiling /\ ConcurrencyCeiling
  <2> SUFFICES ASSUME TypeOK, Staged, Counted
               PROVE  BudgetCeiling /\ ConcurrencyCeiling
    OBVIOUS
  <2> DEFINE H == {r \in Requests : hit[r]}
             F == Rows(ForwardedStates)
             B == Rows(BudgetStates)
             A == Rows(ActiveStates)
  <2>1. H \in SUBSET F /\ F \in SUBSET B /\ Upstream \in SUBSET A
    BY DEF Staged, Rows, Upstream
  <2>2. /\ IsFiniteSet(F) /\ IsFiniteSet(B) /\ IsFiniteSet(A)
        /\ Cardinality(F) \in Nat /\ Cardinality(B) \in Nat
        /\ Cardinality(A) \in Nat
    BY RowsFinite
  <2>3. Summary.forwarded = Cardinality(F)
    BY DEF Summary
  <2>4. Cardinality(B) <= MaxRequests /\ Cardinality(A) <= MaxConcurrency
    BY DEF Counted
  <2> HIDE DEF F, B, A
  <2>5. Cardinality(H) <= Cardinality(F) /\ Cardinality(F) <= Cardinality(B)
    BY <2>1, <2>2, FS_Subset
  <2>6. Cardinality(Upstream) <= Cardinality(A) /\ Cardinality(Upstream) \in Nat
    BY <2>1, <2>2, FS_Subset, FS_CardinalityType
  <2>7. BudgetCeiling
    BY <2>2, <2>3, <2>4, <2>5, CeilingsAssumption DEF BudgetCeiling
  <2>8. ConcurrencyCeiling
    BY <2>2, <2>4, <2>6, CeilingsAssumption DEF ConcurrencyCeiling
  <2> QED
    BY <2>7, <2>8
<1> QED
  BY <1>1, TypeCorrect, StagedAlways, CountedAlways, PTL

-----------------------------------------------------------------------------
(***************************************************************************)
(* Pacing.  The delay is computed and slept without holding a lock: what   *)
(* bounds a burst is that the handlers that slept on one stamp all held a  *)
(* slot when the first of them was stamped.                                *)
(***************************************************************************)
Paced ==
  /\ lastForwarded <= clock
  /\ \A r \in Requests :
       /\ startedAt[r] <= clock
       /\ row[r] \in ForwardedStates \ ActiveStates =>
            startedAt[r] <= lastForwarded
       /\ pc[r] \in {"send", "wait", "received", "failed"} =>
            startedAt[r] <= lastForwarded

\* A request that was finished or sent is not younger than the stamp.
LEMMA PacedAlways == Spec => []Paced
<1>1. Init => Paced
  BY ClockAssumption DEF Init, Paced, ForwardedStates
<1>2. TypeOK /\ Staged /\ Paced /\ [Next]_vars => Paced'
  <2> SUFFICES ASSUME TypeOK, Staged, Paced, [Next]_vars PROVE Paced'
    OBVIOUS
  <2> USE ClockAssumption DEF Clock, Paced
  <2>1. ASSUME NEW r \in Requests, Authorize(r) PROVE Paced'
    BY <2>1 DEF TypeOK, Staged, Authorize
  <2>2. ASSUME NEW r \in Requests, CheckCircuit(r) PROVE Paced'
    BY <2>2 DEF TypeOK, Staged, CheckCircuit
  <2>3. ASSUME NEW r \in Requests, Admit(r) PROVE Paced'
    BY <2>3 DEF TypeOK, Staged, Admit
  <2>4. ASSUME NEW r \in Requests, Pace(r) PROVE Paced'
    BY <2>4 DEF TypeOK, Staged, Pace
  <2>5. ASSUME NEW r \in Requests, MarkForwarding(r) PROVE Paced'
    BY <2>5 DEF TypeOK, Staged, MarkForwarding
  <2>6. ASSUME NEW r \in Requests, Stamp(r) PROVE Paced'
    BY <2>6 DEF TypeOK, Staged, Stamp
  <2>7. ASSUME NEW r \in Requests, Send(r) PROVE Paced'
    BY <2>7 DEF TypeOK, Staged, Send
  <2>8. ASSUME NEW r \in Requests, Respond(r) PROVE Paced'
    BY <2>8 DEF TypeOK, Staged, Respond
  <2>9. ASSUME NEW r \in Requests, Fail(r) PROVE Paced'
    BY <2>9 DEF TypeOK, Staged, Fail
  <2>10. ASSUME NEW r \in Requests, Finish(r) PROVE Paced'
    BY <2>10 DEF TypeOK, Staged, Finish
  <2>11. ASSUME NEW r \in Requests, Abort(r) PROVE Paced'
    BY <2>11 DEF TypeOK, Staged, Abort
  <2>12. CASE Crash
    BY <2>12 DEF TypeOK, Staged, Crash
  <2>13. CASE Tick
    BY <2>13 DEF TypeOK, Staged, Tick
  <2>14. CASE UNCHANGED vars
    BY <2>14 DEF TypeOK, Staged, vars
  <2> QED
    BY <2>1, <2>2, <2>3, <2>4, <2>5, <2>6, <2>7, <2>8, <2>9, <2>10, <2>11,
       <2>12, <2>13, <2>14 DEF Next, Handle
<1> QED
  BY <1>1, <1>2, TypeCorrect, StagedAlways, PTL DEF Spec

\* What was forwarded within an interval, and what may still be.
Window(t) ==
  Burst(t) \cup
    {r \in Requests : pc[r] = "sleep" /\ wakeAt[r] < t + Interval}

\* Only a handler that computes its delay enters a window, and none does that
\* began after a request whose stamp it could read.
LEMMA WindowStep ==
  ASSUME TypeOK, Staged, Paced, [Next]_vars, NEW t \in Clock
  PROVE  Window(t)' \subseteq Window(t) \/ Window(t)' \subseteq Rows(ActiveStates)
<1> DEFINE Goal == \/ Window(t)' \subseteq Window(t)
                   \/ Window(t)' \subseteq Rows(ActiveStates)
<1> SUFFICES Goal
  OBVIOUS
<1> USE ClockAssumption DEF Clock, Window, Burst, Rows
<1>1. ASSUME NEW r \in Requests, Authorize(r) PROVE Goal
  BY <1>1 DEF TypeOK, Staged, Authorize
<1>2. ASSUME NEW r \in Requests, CheckCircuit(r) PROVE Goal
  BY <1>2 DEF TypeOK, Staged, CheckCircuit
<1>3. ASSUME NEW r \in Requests, Admit(r) PROVE Goal
  BY <1>3 DEF TypeOK, Staged, Admit
<1>4. ASSUME NEW r \in Requests, Pace(r) PROVE Goal
  <2>1. CASE t > lastForwarded
    BY <1>4, <2>1 DEF TypeOK, Staged, Paced, Pace
  <2>2. CASE t <= lastForwarded
    BY <1>4, <2>2 DEF TypeOK, Pace
  <2> QED
    BY <2>1, <2>2 DEF TypeOK
<1>5. ASSUME NEW r \in Requests, MarkForwarding(r) PROVE Goal
  BY <1>5 DEF TypeOK, Staged, MarkForwarding
<1>6. ASSUME NEW r \in Requests, Stamp(r) PROVE Goal
  BY <1>6 DEF TypeOK, Staged, Stamp
<1>7. ASSUME NEW r \in Requests, Send(r) PROVE Goal
  BY <1>7 DEF TypeOK, Staged, Send
<1>8. ASSUME NEW r \in Requests, Respond(r) PROVE Goal
  BY <1>8 DEF TypeOK, Staged, Respond
<1>9. ASSUME NEW r \in Requests, Fail(r) PROVE Goal
  BY <1>9 DEF TypeOK, Staged, Fail
<1>10. ASSUME NEW r \in Requests, Finish(r) PROVE Goal
  BY <1>10 DEF TypeOK, Staged, Finish
<1>11. ASSUME NEW r \in Requests, Abort(r) PROVE Goal
  BY <1>11 DEF TypeOK, Staged, Abort
<1>12. CASE Crash
  BY <1>12 DEF TypeOK, Staged, Crash
<1>13. CASE Tick
  BY <1>13 DEF TypeOK, Staged, Tick
<1>14. CASE UNCHANGED vars
  BY <1>14 DEF TypeOK, Staged, vars
<1> QED
  BY <1>1, <1>2, <1>3, <1>4, <1>5, <1>6, <1>7, <1>8, <1>9, <1>10, <1>11,
     <1>12, <1>13, <1>14 DEF Next, Handle

\* Within the permit's interval no more requests are forwarded than the permit
\* allows at a time (forward computes a delay, then sleeps, then stamps).
THEOREM BurstsBounded == Spec => []BurstBounded
<1> DEFINE Windowed == \A t \in Clock : Cardinality(Window(t)) <= MaxConcurrency
<1>1. Init => Windowed
  <2> SUFFICES ASSUME Init, NEW t \in Clock
               PROVE  Cardinality(Window(t)) <= MaxConcurrency
    OBVIOUS
  <2>1. Window(t) = {}
    BY DEF Init, Window, Burst, Rows, ForwardedStates
  <2> QED
    BY <2>1, FS_EmptySet, CeilingsAssumption
<1>2. TypeOK /\ Staged /\ Counted /\ Paced /\ Windowed /\ [Next]_vars
        => Windowed'
  <2> SUFFICES ASSUME TypeOK, Staged, Counted, Paced, Windowed, [Next]_vars,
                      NEW t \in Clock
               PROVE  Cardinality(Window(t)') <= MaxConcurrency
    BY DEF Clock
  <2>1. /\ IsFiniteSet(Window(t)) /\ Cardinality(Window(t)) \in Nat
        /\ IsFiniteSet(Rows(ActiveStates))
        /\ Cardinality(Rows(ActiveStates)) \in Nat
    <3>1. Window(t) \in SUBSET Requests
      BY DEF Window, Burst, Rows
    <3> QED
      BY <3>1, RowsFinite, RequestsAssumption, FS_Subset, FS_CardinalityType
  <2>2. Cardinality(Window(t)) <= MaxConcurrency
    OBVIOUS
  <2>3. Cardinality(Rows(ActiveStates)) <= MaxConcurrency
    BY DEF Counted
  <2>4. CASE Window(t)' \subseteq Window(t)
    <3>1. /\ Cardinality(Window(t)') \in Nat
          /\ Cardinality(Window(t)') <= Cardinality(Window(t))
      BY <2>1, <2>4, FS_Subset, FS_CardinalityType
    <3> QED
      BY <3>1, <2>1, <2>2, CeilingsAssumption
  <2>5. CASE Window(t)' \subseteq Rows(ActiveStates)
    <3>1. /\ Cardinality(Window(t)') \in Nat
          /\ Cardinality(Window(t)') <= Cardinality(Rows(ActiveStates))
      BY <2>1, <2>5, FS_Subset, FS_CardinalityType
    <3> QED
      BY <3>1, <2>1, <2>3, CeilingsAssumption
  <2> QED
    BY <2>4, <2>5, WindowStep
<1>3. Windowed => BurstBounded
  <2> SUFFICES ASSUME Windowed, NEW t \in Clock
               PROVE  Cardinality(Burst(t)) <= MaxConcurrency
    BY DEF BurstBounded
  <2>1. Window(t) \in SUBSET Requests /\ Burst(t) \in SUBSET Window(t)
    BY DEF Window, Burst, Rows
  <2>2. IsFiniteSet(Window(t)) /\ Cardinality(Window(t)) \in Nat
    BY <2>1, RequestsAssumption, FS_Subset, FS_CardinalityType
  <2>3. /\ Cardinality(Burst(t)) \in Nat
        /\ Cardinality(Burst(t)) <= Cardinality(Window(t))
    BY <2>1, <2>2, FS_Subset, FS_CardinalityType
  <2> QED
    BY <2>2, <2>3, CeilingsAssumption
<1> QED
  BY <1>1, <1>2, <1>3, TypeCorrect, StagedAlways, CountedAlways, PacedAlways,
     PTL DEF Spec
-----------------------------------------------------------------------------
(* The qualification lab: what every run has done by the time it got so far. *)

\* How far a run got: past its payment, past its launch, past its answer, past
\* its receipt, and past its second probe.
Ingesting == {"ingested", "done"}
Receipted == {"probing", "probed"} \cup Ingesting
Answered == {"answered"} \cup Receipted
Launched == {"launched"} \cup Answered
Paying == {"consumed", "ready"} \cup Launched
Unstarted == {"idle", "requested"}
LabStages == Unstarted \cup Paying \cup {"failed"}

Targets == {Health} \cup {job.target : job \in LabJobs}
Bounds == {FALSE} \cup {job.bounded : job \in LabJobs}
LabRecord ==
  [at : LabStages, runtime : LabRuntimes, target : Targets, bounded : Bounds,
   image : Nat, ran : Nat, asked : Targets, truncated : BOOLEAN]

\* The runs are records, the request files name runs, and whoever was assigned
\* to the assessment is one.
Laid ==
  /\ lab \in [LabRuns -> LabRecord]
  /\ requestFile \in [LabRuntimes -> LabRuns \cup {NoLabRun}]
  /\ \A p \in probes : p.run \in LabRuns \cup {NoLabRun}
  /\ adaptive \in [at : {"idle", "observing", "verifying", "traced", "registered"},
                   observation : LabRuns \cup {NoLabRun},
                   verification : LabRuns \cup {NoLabRun}]
  /\ readiness \in [at : {"idle", "judging", "reported"}, manifest : BOOLEAN,
                    judged : SUBSET LabRuntimes, qualified : SUBSET LabRuntimes,
                    ready : BOOLEAN]
  /\ adaptive.at # "idle" => adaptive.observation # NoLabRun
  /\ adaptive.at \notin {"idle", "observing"} => adaptive.verification # NoLabRun

\* A provenance names an image that was built, and a run that was begun found one.
Provided ==
  /\ tagged \in [LabRuntimes -> Nat]
  /\ provenance \in [LabRuntimes -> Nat]
  /\ building \in [LabRuntimes -> {"idle", "built", "written"}]
  /\ \A t \in LabRuntimes :
       /\ provenance[t] # 0 => tagged[t] # 0
       /\ building[t] = "built" => tagged[t] # 0
       /\ building[t] = "written" => provenance[t] # 0
  /\ \A r \in LabRuns : lab[r].at # "idle" =>
       tagged[lab[r].runtime] # 0 /\ requestFile[lab[r].runtime] # NoLabRun

\* Who registered an entry: nobody has a registered file still to write.
RegisteredByProbe(e) == \E p \in probes : e.path = SourceFile(p) \/ e.path = RecordFile(p)
RegisteredByRun(e, r) ==
  \/ lab[r].at \notin Unstarted /\ (e.path = CommandFile(r) \/ e.path = ConsumptionFile(r))
  \/ lab[r].at \in Receipted \cup {"failed"} /\ (e.path = OutputFile(r) \/ e.path = ReceiptFile(r))
RegisteredByTrace(e) == adaptive.at = "registered" /\ e.path = TraceFile

AttributedEntry(e) ==
  RegisteredByProbe(e) \/ (\E r \in LabRuns : RegisteredByRun(e, r)) \/ RegisteredByTrace(e)
Attributed == \A e \in labManifest : AttributedEntry(e)

\* What a run has done.
Ingested(r) ==
  \E p \in probes : p.run = r /\ p.probe = "receipt-ingestion" /\ Registered(RecordFile(p))
AdvancedRun(r) ==
  /\ lab[r].at \in Unstarted => lab[r].ran = 0
  /\ lab[r].at \in Paying => r \in labSpent
  /\ lab[r].at \in Launched => lab[r].ran # 0
  /\ lab[r].at \in Answered => lab[r].asked = lab[r].target
  /\ lab[r].at \in Receipted => Registered(ReceiptFile(r)) /\ Registered(OutputFile(r))
  /\ lab[r].at \in Ingesting => Ingested(r)
Advanced == \A r \in LabRuns : AdvancedRun(r)

\* A runtime was found qualified on probes that are still there.
Judged == \A t \in readiness.qualified : FullyProbed(t)

\* What is about to be registered has been written.
Kept ==
  /\ \A r \in LabRuns : lab[r].at \in Answered => OutputFile(r) \in DOMAIN labFiles
  /\ adaptive.at = "traced" => TraceFile \in DOMAIN labFiles

\* The second run of an assessment begins when its first one is done.
Assessed == adaptive.at \notin {"idle", "observing"} => lab[adaptive.observation].at = "done"

LabInv ==
  /\ Laid /\ Provided /\ Attributed /\ Advanced /\ Assessed /\ Judged /\ Kept
  /\ LabEvidenceIntact /\ QualificationBacked

\* What no step takes back.
LabGoesOn ==
  /\ labSpent \subseteq labSpent' /\ probes \subseteq probes' /\ labManifest \subseteq labManifest'
  /\ adaptive.at = "registered" => UNCHANGED adaptive
  /\ \A q \in LabRuns :
       /\ lab[q].at \notin Unstarted =>
            lab'[q].at \notin Unstarted /\ lab'[q].runtime = lab[q].runtime
       /\ lab[q].at \in Receipted \cup {"failed"} =>
            /\ lab'[q].at \in Receipted \cup {"failed"}
            /\ lab'[q].ran = lab[q].ran /\ lab'[q].asked = lab[q].asked
            /\ lab'[q].target = lab[q].target
       /\ lab[q].at = "done" => lab'[q].at = "done"


\* An entry keeps who registered it.
LEMMA EntriesStay ==
  ASSUME LabGoesOn, NEW e, AttributedEntry(e)
  PROVE  AttributedEntry(e)'
<1>1. CASE RegisteredByProbe(e)
  BY <1>1 DEF LabGoesOn, AttributedEntry, RegisteredByProbe, SourceFile, RecordFile
<1>2. CASE \E r \in LabRuns : RegisteredByRun(e, r)
  <2> PICK r \in LabRuns : RegisteredByRun(e, r)
    BY <1>2
  <2>1. lab'[r].at \notin Unstarted /\ lab'[r].runtime = lab[r].runtime
    BY DEF LabGoesOn, RegisteredByRun, Receipted, Ingesting, Unstarted
  <2>2. RegisteredByRun(e, r)'
    BY <2>1 DEF LabGoesOn, RegisteredByRun, RunFile, CommandFile, ConsumptionFile,
       OutputFile, ReceiptFile
  <2> QED
    BY <2>2 DEF AttributedEntry
<1>3. CASE RegisteredByTrace(e)
  BY <1>3 DEF LabGoesOn, AttributedEntry, RegisteredByTrace, TraceFile
<1> QED
  BY <1>1, <1>2, <1>3 DEF AttributedEntry

\* A run whose receipt is registered is past its receipt, or failed after it.
LEMMA ReceiptIsLate ==
  ASSUME LabInv, NEW r \in LabRuns, Registered(ReceiptFile(r))
  PROVE  lab[r].at \in Receipted \cup {"failed"}
BY DEF LabInv, Attributed, AttributedEntry, RegisteredByProbe, RegisteredByRun,
   RegisteredByTrace, Registered, RunFile, CommandFile, ConsumptionFile, OutputFile,
   ReceiptFile, TraceFile, RecordFile, SourceFile

\* The probes there were stay grounded.
LEMMA ProbesStayGrounded ==
  ASSUME LabInv, LabGoesOn
  PROVE  \A p \in probes :
           /\ Registered(SourceFile(p))' /\ p.image # 0
           /\ p.run # NoLabRun =>
                /\ p.run \in labSpent' /\ lab'[p.run].ran # 0
                /\ lab'[p.run].asked = lab'[p.run].target
                /\ Registered(ReceiptFile(p.run))' /\ Registered(OutputFile(p.run))'
<1> SUFFICES ASSUME NEW p \in probes
             PROVE  /\ Registered(SourceFile(p))' /\ p.image # 0
                    /\ p.run # NoLabRun =>
                         /\ p.run \in labSpent' /\ lab'[p.run].ran # 0
                         /\ lab'[p.run].asked = lab'[p.run].target
                         /\ Registered(ReceiptFile(p.run))' /\ Registered(OutputFile(p.run))'
  OBVIOUS
<1>1. Registered(SourceFile(p))' /\ p.image # 0
  BY DEF LabInv, QualificationBacked, ProbesGrounded, LabGoesOn, Registered, SourceFile
<1>2. ASSUME p.run # NoLabRun
      PROVE  /\ p.run \in labSpent' /\ lab'[p.run].ran # 0
             /\ lab'[p.run].asked = lab'[p.run].target
             /\ Registered(ReceiptFile(p.run))' /\ Registered(OutputFile(p.run))'
  <2>1. /\ p.run \in LabRuns /\ p.run \in labSpent /\ lab[p.run].ran # 0
        /\ lab[p.run].asked = lab[p.run].target
        /\ Registered(ReceiptFile(p.run)) /\ Registered(OutputFile(p.run))
    BY <1>2 DEF LabInv, Laid, QualificationBacked, ProbesGrounded
  <2>2. lab[p.run].at \in Receipted \cup {"failed"}
    BY <2>1, ReceiptIsLate
  <2>3. /\ lab'[p.run].ran = lab[p.run].ran /\ lab'[p.run].asked = lab[p.run].asked
        /\ lab'[p.run].target = lab[p.run].target /\ lab'[p.run].runtime = lab[p.run].runtime
    BY <2>1, <2>2 DEF LabGoesOn, Receipted, Ingesting, Unstarted
  <2> QED
    BY <2>1, <2>3 DEF LabGoesOn, Registered, ReceiptFile, OutputFile, RunFile
<1> QED
  BY <1>1, <1>2

\* A run that is left alone is where it was.
LEMMA AdvancedStays ==
  ASSUME LabGoesOn, NEW q \in LabRuns, AdvancedRun(q), lab'[q] = lab[q]
  PROVE  AdvancedRun(q)'
BY DEF LabGoesOn, AdvancedRun, Ingested, Registered, OutputFile, ReceiptFile, RunFile,
   RecordFile

\* So does a trace.
LEMMA TraceStaysGrounded ==
  ASSUME LabInv, LabGoesOn, UNCHANGED adaptive
  PROVE  TraceGrounded'
BY DEF LabInv, Laid, QualificationBacked, TraceGrounded, LabGoesOn, Registered, RecordFile

\* A run moves: the other runs stay as they are.
LEMMA RunMoves ==
  ASSUME lab \in [LabRuns -> LabRecord], NEW r \in LabRuns, NEW x \in LabRecord,
         lab' = [lab EXCEPT ![r] = x]
  PROVE  /\ lab' \in [LabRuns -> LabRecord] /\ lab'[r] = x
         /\ \A q \in LabRuns \ {r} : lab'[q] = lab[q]
OBVIOUS

\* A run goes to another stage: its other fields stay as they are.
LEMMA AtMoves ==
  ASSUME lab \in [LabRuns -> LabRecord], NEW r \in LabRuns, NEW s \in LabStages,
         lab' = [lab EXCEPT ![r].at = s]
  PROVE  /\ lab' \in [LabRuns -> LabRecord]
         /\ \A q \in LabRuns \ {r} : lab'[q] = lab[q]
         /\ lab'[r].at = s
         /\ lab'[r].runtime = lab[r].runtime /\ lab'[r].target = lab[r].target
         /\ lab'[r].ran = lab[r].ran /\ lab'[r].asked = lab[r].asked
         /\ lab'[r].truncated = lab[r].truncated
<1> DEFINE x == [lab[r] EXCEPT !.at = s]
<1>1. lab[r] \in LabRecord
  OBVIOUS
<1>2. x \in LabRecord
  BY <1>1 DEF LabRecord
<1>3. lab' = [lab EXCEPT ![r] = x]
  OBVIOUS
<1>4. /\ x.at = s /\ x.runtime = lab[r].runtime /\ x.target = lab[r].target
      /\ x.ran = lab[r].ran /\ x.asked = lab[r].asked /\ x.truncated = lab[r].truncated
  BY <1>1 DEF LabRecord
<1> HIDE DEF x
<1> QED
  BY <1>2, <1>3, <1>4, RunMoves

\* A run writes the new files and registers both of a and b, or a first part of
\* them and dies.
LEMMA TwoReached ==
  ASSUME NEW r, NEW new, NEW a, NEW b, NEW to, LabEvidenceIntact,
         Reaches(r, Written(new, r), <<a, b>>, to),
         \A e \in labManifest : e.path \notin new,
         {a, b} \subseteq DOMAIN labFiles \cup new
  PROVE  /\ DOMAIN labFiles' = DOMAIN labFiles \cup new
         /\ labManifest \subseteq labManifest'
         /\ \A e \in labManifest' : e \in labManifest \/ e.path = a \/ e.path = b
         /\ \/ /\ lab' = [lab EXCEPT ![r].at = to]
               /\ \E e \in labManifest' : e.path = a
               /\ \E e \in labManifest' : e.path = b
            \/ lab' = [lab EXCEPT ![r].at = "failed"]
         /\ LabEvidenceIntact'
<1> DEFINE files == Written(new, r)
<1>1. PICK n \in 0..2 :
        /\ labFiles' = files
        /\ labManifest' = labManifest \cup {Entry(<<a, b>>[i], files) : i \in 1..n}
        /\ lab' = [lab EXCEPT ![r].at = IF n = 2 THEN to ELSE "failed"]
  BY DEF Reaches
<1>2. DOMAIN files = DOMAIN labFiles \cup new
  BY DEF Written
<1>3. \A f \in DOMAIN labFiles \ new : files[f] = labFiles[f]
  BY DEF Written
<1>4. \A e \in labManifest' : e \in labManifest \/ e = Entry(a, files) \/ e = Entry(b, files)
  BY <1>1
<1>5. n = 2 => Entry(a, files) \in labManifest' /\ Entry(b, files) \in labManifest'
  <2> SUFFICES ASSUME n = 2 PROVE Entry(a, files) \in labManifest' /\ Entry(b, files) \in labManifest'
    OBVIOUS
  <2>1. Entry(<<a, b>>[1], files) \in labManifest' /\ Entry(<<a, b>>[2], files) \in labManifest'
    BY <1>1
  <2> QED
    BY <2>1
<1>6. \A f : Entry(f, files).path = f /\ Entry(f, files).content = files[f]
  BY DEF Entry
<1>7. LabEvidenceIntact'
  BY <1>1, <1>2, <1>3, <1>4, <1>6 DEF LabEvidenceIntact, ManifestVerifies
<1> HIDE DEF files
<1> QED
  BY <1>1, <1>2, <1>4, <1>5, <1>6, <1>7

\* A probe is recorded: its source is registered, and its record unless the
\* process dies before.
LEMMA ProbeRecorded ==
  ASSUME NEW p, NEW content, NEW complete \in BOOLEAN, LabInv,
         RecordProbe(p, content, complete)
  PROVE  /\ p \notin probes /\ probes' = probes \cup {p}
         /\ DOMAIN labFiles \subseteq DOMAIN labFiles'
         /\ labManifest \subseteq labManifest'
         /\ \A e \in labManifest' :
              e \in labManifest \/ e.path = SourceFile(p) \/ e.path = RecordFile(p)
         /\ \E e \in labManifest' : e.path = SourceFile(p)
         /\ complete => \E e \in labManifest' : e.path = RecordFile(p)
         /\ LabEvidenceIntact'
<1> DEFINE files == [f \in DOMAIN labFiles \cup {SourceFile(p), RecordFile(p)} |->
                  IF f = SourceFile(p) THEN content
                  ELSE IF f = RecordFile(p) THEN p.run ELSE labFiles[f]]
<1>1. /\ p \notin probes /\ probes' = probes \cup {p} /\ labFiles' = files
      /\ labManifest' = labManifest \cup {Entry(SourceFile(p), files)}
                       \cup (IF complete THEN {Entry(RecordFile(p), files)} ELSE {})
  BY DEF RecordProbe
<1>2. \A e \in labManifest : e.path # SourceFile(p) /\ e.path # RecordFile(p)
  BY <1>1 DEF LabInv, Attributed, AttributedEntry, RegisteredByProbe, RegisteredByRun,
     RegisteredByTrace, RunFile, CommandFile, ConsumptionFile, OutputFile, ReceiptFile,
     TraceFile, RecordFile, SourceFile
<1>3. \A f : Entry(f, files).path = f /\ Entry(f, files).content = files[f]
  BY DEF Entry
<1>4. \A f \in DOMAIN labFiles \ {SourceFile(p), RecordFile(p)} : files[f] = labFiles[f]
  OBVIOUS
<1>5. DOMAIN files = DOMAIN labFiles \cup {SourceFile(p), RecordFile(p)}
  OBVIOUS
<1> HIDE DEF files
<1>6. LabEvidenceIntact'
  BY <1>1, <1>2, <1>3, <1>4, <1>5 DEF LabInv, LabEvidenceIntact, ManifestVerifies
<1> QED
  BY <1>1, <1>3, <1>5, <1>6

\* Probes are never taken back.
LEMMA ProbesStay == probes \subseteq probes' => \A t : FullyProbed(t) => FullyProbed(t)'
  BY DEF FullyProbed

\* A qualified runtime has every probe of one image.
LEMMA QualifiedIsProbed == \A t : Qualified(t) => FullyProbed(t)
<1> SUFFICES ASSUME NEW t, Qualified(t) PROVE FullyProbed(t)
  OBVIOUS
<1>1. \A name \in RequiredProbes : \E p \in Filed(t, provenance[t]) : p.probe = name
  BY DEF Qualified
<1>2. \A p \in Filed(t, provenance[t]) : p \in probes /\ p.runtime = t /\ p.image = provenance[t]
  BY DEF Filed
<1>3. provenance[t] \in {p.image : p \in probes}
  BY <1>1, <1>2 DEF RequiredProbes
<1> QED
  BY <1>1, <1>2, <1>3 DEF FullyProbed

\* Every step keeps the invariant.
LEMMA LabStepInv == LabInv /\ LabNext => LabInv'
<1> SUFFICES ASSUME LabInv PROVE LabNext => LabInv'
  OBVIOUS
<1>1. ASSUME NEW r \in LabRuns, OperatorRun(r) PROVE LabInv'
  <2>1. PICK job : /\ lab[r].at = "idle" /\ provenance[job.runtime] # 0
          /\ job.runtime \in LabRuntimes /\ job.target \in Targets /\ job.bounded \in Bounds
          /\ lab' = [lab EXCEPT ![r] = [NotStarted EXCEPT !.at = "requested",
               !.runtime = job.runtime, !.target = job.target, !.bounded = job.bounded,
               !.image = provenance[job.runtime]]]
          /\ requestFile' = [requestFile EXCEPT ![job.runtime] = r]
          /\ UNCHANGED <<tagged, provenance, building, labSpent, labFiles, labManifest, probes, adaptive, readiness>>
    BY <1>1, LabAssumption DEF OperatorRun, BeginRun, Targets, Bounds
  <2> DEFINE x == [NotStarted EXCEPT !.at = "requested", !.runtime = job.runtime,
                  !.target = job.target, !.bounded = job.bounded,
                  !.image = provenance[job.runtime]]
  <2>2. x \in LabRecord /\ x.at = "requested" /\ x.runtime = job.runtime /\ x.ran = 0
    BY <2>1, LabAssumption DEF LabInv, Provided, LabRecord, NotStarted, Targets, LabStages,
         Unstarted
  <2> HIDE DEF x
  <2>3. /\ lab' \in [LabRuns -> LabRecord] /\ lab'[r] = x
        /\ \A q \in LabRuns \ {r} : lab'[q] = lab[q]
    BY <2>1, <2>2, RunMoves DEF LabInv, Laid, x
  <2>4. LabGoesOn
    BY <2>1, <2>2, <2>3 DEF LabGoesOn, Receipted, Ingesting, Unstarted
  <2>5. Laid'
    BY <2>1, <2>3, LabAssumption DEF LabInv, Laid
  <2>6. Provided'
    BY <2>1, <2>2, <2>3, LabAssumption DEF LabInv, Laid, Provided, LabRecord
  <2>7. Attributed'
    BY <2>1, <2>2, <2>3, <2>4, EntriesStay DEF LabInv, Attributed
  <2>8. Advanced'
    <3>1. AdvancedRun(r)'
      BY <2>2, <2>3 DEF AdvancedRun, Unstarted, Paying, Launched, Answered,
         Receipted, Ingesting
    <3> QED
      BY <2>3, <2>4, <3>1, AdvancedStays DEF LabInv, Advanced
  <2>9. Assessed'
    BY <2>1, <2>2, <2>3, <2>4 DEF LabInv, Laid, Assessed, LabGoesOn
  <2>10. Judged'
    BY <2>1, <2>2, <2>3, <2>4, ProbesStay DEF LabInv, Judged
  <2>11. Kept'
    BY <2>1, <2>2, <2>3 DEF LabInv, Laid, Kept, OutputFile, RunFile, TraceFile,
       Answered, Receipted, Ingesting
  <2>12. LabEvidenceIntact'
    BY <2>1, <2>2, <2>3, <2>4 DEF LabInv, LabEvidenceIntact, ManifestVerifies
  <2>13. LaunchesPaid'
    BY <2>1, <2>2, <2>3 DEF LabInv, QualificationBacked, LaunchesPaid
  <2>14. ProbesGrounded'
    BY <2>1, <2>2, <2>3, <2>4, ProbesStayGrounded DEF ProbesGrounded
  <2>15. TraceGrounded'
    BY <2>1, <2>2, <2>3, <2>4, TraceStaysGrounded
  <2>16. ReadinessBacked'
    BY <2>1, <2>2, <2>3, <2>4, ProbesStay DEF LabInv, QualificationBacked, ReadinessBacked
  <2> QED
    BY <2>5, <2>6, <2>7, <2>8, <2>9, <2>10, <2>11, <2>12, <2>13, <2>14, <2>15, <2>16
       DEF LabInv, QualificationBacked
<1>2. ASSUME NEW r \in LabRuns, Observe(r) PROVE LabInv'
  <2> DEFINE job == Stage(Observer)
  <2>1. /\ lab[r].at = "idle" /\ provenance[job.runtime] # 0
        /\ job.runtime \in LabRuntimes /\ job.target \in Targets /\ job.bounded \in Bounds
        /\ lab' = [lab EXCEPT ![r] = [NotStarted EXCEPT !.at = "requested",
             !.runtime = job.runtime, !.target = job.target, !.bounded = job.bounded,
             !.image = provenance[job.runtime]]]
        /\ requestFile' = [requestFile EXCEPT ![job.runtime] = r]
        /\ UNCHANGED <<tagged, provenance, building, labSpent, labFiles, labManifest, probes, readiness>>
    BY <1>2, LabAssumption DEF Observe, BeginRun, Targets, Bounds, Stage
  <2> HIDE DEF job
  <2> DEFINE x == [NotStarted EXCEPT !.at = "requested", !.runtime = job.runtime,
                  !.target = job.target, !.bounded = job.bounded,
                  !.image = provenance[job.runtime]]
  <2>2. x \in LabRecord /\ x.at = "requested" /\ x.runtime = job.runtime /\ x.ran = 0
    BY <2>1, LabAssumption DEF LabInv, Provided, LabRecord, NotStarted, Targets, LabStages,
         Unstarted
  <2> HIDE DEF x
  <2>3. /\ lab' \in [LabRuns -> LabRecord] /\ lab'[r] = x
        /\ \A q \in LabRuns \ {r} : lab'[q] = lab[q]
    BY <2>1, <2>2, RunMoves DEF LabInv, Laid, x
  <2>4. adaptive.at = "idle" /\ adaptive' = [adaptive EXCEPT !.at = "observing", !.observation = r]
        /\ adaptive'.at = "observing" /\ adaptive'.observation = r
    BY <1>2 DEF Observe, LabInv, Laid
  <2>5. LabGoesOn
    BY <2>1, <2>2, <2>3, <2>4 DEF LabGoesOn, Receipted, Ingesting, Unstarted
  <2>6. Laid'
    BY <2>1, <2>3, <2>4, LabAssumption DEF LabInv, Laid
  <2>7. Provided'
    BY <2>1, <2>2, <2>3, LabAssumption DEF LabInv, Laid, Provided, LabRecord
  <2>8. Attributed'
    BY <2>1, <2>2, <2>3, <2>4, <2>5, EntriesStay DEF LabInv, Attributed
  <2>9. Advanced'
    <3>1. AdvancedRun(r)'
      BY <2>2, <2>3 DEF AdvancedRun, Unstarted, Paying, Launched, Answered,
         Receipted, Ingesting
    <3> QED
      BY <2>3, <2>5, <3>1, AdvancedStays DEF LabInv, Advanced
  <2>10. Assessed'
    BY <2>4 DEF Assessed
  <2>11. Judged'
    BY <2>1, <2>2, <2>3, <2>4, <2>5, ProbesStay DEF LabInv, Judged
  <2>12. Kept'
    BY <2>1, <2>2, <2>3, <2>4 DEF LabInv, Laid, Kept, OutputFile, RunFile,
       TraceFile, Answered, Receipted, Ingesting
  <2>13. LabEvidenceIntact'
    BY <2>1, <2>2, <2>3, <2>4, <2>5 DEF LabInv, LabEvidenceIntact, ManifestVerifies
  <2>14. LaunchesPaid'
    BY <2>1, <2>2, <2>3 DEF LabInv, QualificationBacked, LaunchesPaid
  <2>15. ProbesGrounded'
    BY <2>1, <2>2, <2>3, <2>4, <2>5, ProbesStayGrounded DEF ProbesGrounded
  <2>16. TraceGrounded'
    BY <2>4 DEF TraceGrounded
  <2>17. ReadinessBacked'
    BY <2>1, <2>4, ProbesStay DEF LabInv, QualificationBacked, ReadinessBacked
  <2> QED
    BY <2>6, <2>7, <2>8, <2>9, <2>10, <2>11, <2>12, <2>13, <2>14, <2>15, <2>16,
       <2>17 DEF LabInv, QualificationBacked
<1>3. ASSUME NEW r \in LabRuns, Verify(r) PROVE LabInv'
  <2> DEFINE job == Stage(Verifier)
  <2>1. /\ lab[r].at = "idle" /\ provenance[job.runtime] # 0
        /\ job.runtime \in LabRuntimes /\ job.target \in Targets /\ job.bounded \in Bounds
        /\ lab' = [lab EXCEPT ![r] = [NotStarted EXCEPT !.at = "requested",
             !.runtime = job.runtime, !.target = job.target, !.bounded = job.bounded,
             !.image = provenance[job.runtime]]]
        /\ requestFile' = [requestFile EXCEPT ![job.runtime] = r]
        /\ UNCHANGED <<tagged, provenance, building, labSpent, labFiles, labManifest, probes, readiness>>
    BY <1>3, LabAssumption DEF Verify, BeginRun, Targets, Bounds, Stage
  <2> HIDE DEF job
  <2> DEFINE x == [NotStarted EXCEPT !.at = "requested", !.runtime = job.runtime,
                  !.target = job.target, !.bounded = job.bounded,
                  !.image = provenance[job.runtime]]
  <2>2. x \in LabRecord /\ x.at = "requested" /\ x.runtime = job.runtime /\ x.ran = 0
    BY <2>1, LabAssumption DEF LabInv, Provided, LabRecord, NotStarted, Targets, LabStages,
         Unstarted
  <2> HIDE DEF x
  <2>3. /\ lab' \in [LabRuns -> LabRecord] /\ lab'[r] = x
        /\ \A q \in LabRuns \ {r} : lab'[q] = lab[q]
    BY <2>1, <2>2, RunMoves DEF LabInv, Laid, x
  <2>4. adaptive.at = "observing" /\ lab[adaptive.observation].at = "done"
        /\ adaptive' = [adaptive EXCEPT !.at = "verifying", !.verification = r]
        /\ adaptive'.at = "verifying" /\ adaptive'.observation = adaptive.observation
        /\ adaptive'.verification = r
    BY <1>3 DEF Verify, LabInv, Laid
  <2>5. LabGoesOn
    BY <2>1, <2>2, <2>3, <2>4 DEF LabGoesOn, Receipted, Ingesting, Unstarted
  <2>6. Laid'
    BY <2>1, <2>3, <2>4, LabAssumption DEF LabInv, Laid
  <2>7. Provided'
    BY <2>1, <2>2, <2>3, LabAssumption DEF LabInv, Laid, Provided, LabRecord
  <2>8. Attributed'
    BY <2>1, <2>2, <2>3, <2>4, <2>5, EntriesStay DEF LabInv, Attributed
  <2>9. Advanced'
    <3>1. AdvancedRun(r)'
      BY <2>2, <2>3 DEF AdvancedRun, Unstarted, Paying, Launched, Answered,
         Receipted, Ingesting
    <3> QED
      BY <2>3, <2>5, <3>1, AdvancedStays DEF LabInv, Advanced
  <2>10. Assessed'
    BY <2>1, <2>2, <2>3, <2>4, <2>5 DEF LabInv, Laid, Assessed, LabGoesOn
  <2>11. Judged'
    BY <2>1, <2>2, <2>3, <2>4, <2>5, ProbesStay DEF LabInv, Judged
  <2>12. Kept'
    BY <2>1, <2>2, <2>3, <2>4 DEF LabInv, Laid, Kept, OutputFile, RunFile,
       TraceFile, Answered, Receipted, Ingesting
  <2>13. LabEvidenceIntact'
    BY <2>1, <2>2, <2>3, <2>4, <2>5 DEF LabInv, LabEvidenceIntact, ManifestVerifies
  <2>14. LaunchesPaid'
    BY <2>1, <2>2, <2>3 DEF LabInv, QualificationBacked, LaunchesPaid
  <2>15. ProbesGrounded'
    BY <2>1, <2>2, <2>3, <2>4, <2>5, ProbesStayGrounded DEF ProbesGrounded
  <2>16. TraceGrounded'
    BY <2>4 DEF TraceGrounded
  <2>17. ReadinessBacked'
    BY <2>1, <2>4, ProbesStay DEF LabInv, QualificationBacked, ReadinessBacked
  <2> QED
    BY <2>6, <2>7, <2>8, <2>9, <2>10, <2>11, <2>12, <2>13, <2>14, <2>15, <2>16,
       <2>17 DEF LabInv, QualificationBacked
<1>4. ASSUME NEW r \in LabRuns, ConsumePermit(r) PROVE LabInv'
  <2>1. /\ lab[r].at = "requested" /\ labSpent' = labSpent \cup {r}
        /\ UNCHANGED <<tagged, provenance, building, requestFile, labFiles, labManifest, probes, adaptive, readiness>>
    BY <1>4 DEF ConsumePermit, LabStep
  <2>2. /\ lab' \in [LabRuns -> LabRecord]
        /\ \A q \in LabRuns \ {r} : lab'[q] = lab[q]
        /\ lab'[r].at = "consumed"
        /\ lab'[r].runtime = lab[r].runtime /\ lab'[r].target = lab[r].target
        /\ lab'[r].ran = lab[r].ran /\ lab'[r].asked = lab[r].asked
        /\ lab'[r].truncated = lab[r].truncated
    BY <1>4, AtMoves DEF ConsumePermit, LabStep, LabInv, Laid, LabStages, Paying,
       Launched, Answered, Receipted, Ingesting, Unstarted
  <2>3. LabGoesOn
    BY <2>1, <2>2 DEF LabGoesOn, Receipted, Ingesting, Unstarted
  <2>4. Laid'
    BY <2>1, <2>2, <2>3 DEF LabInv, Laid
  <2>5. Provided'
    BY <2>1, <2>2, <2>3 DEF LabInv, Laid, Provided, Unstarted
  <2>6. Attributed'
    BY <2>1, <2>2, <2>3, EntriesStay DEF LabInv, Attributed
  <2>7. Advanced'
    <3>1. AdvancedRun(r)'
      BY <2>1, <2>2 DEF LabInv, Advanced, AdvancedRun, Ingested, Registered,
         RunFile, OutputFile, ReceiptFile, RecordFile, Unstarted, Ingesting,
         Receipted, Answered, Launched, Paying
    <3> QED
      BY <2>2, <2>3, <3>1, AdvancedStays DEF LabInv, Advanced
  <2>8. Assessed'
    BY <2>1, <2>2, <2>3 DEF LabInv, Laid, Assessed, LabGoesOn
  <2>9. Judged'
    BY <2>1, <2>2, <2>3, ProbesStay DEF LabInv, Judged
  <2>10. Kept'
    BY <2>1, <2>2 DEF LabInv, Kept, OutputFile, RunFile, TraceFile, Answered,
       Receipted, Ingesting
  <2>11. LabEvidenceIntact'
    BY <2>1, <2>2, <2>3 DEF LabInv, LabEvidenceIntact, ManifestVerifies
  <2>12. LaunchesPaid'
    BY <2>1, <2>2, <2>3 DEF LabInv, QualificationBacked, LaunchesPaid
  <2>13. ProbesGrounded'
    BY <2>1, <2>2, <2>3, ProbesStayGrounded DEF ProbesGrounded
  <2>14. TraceGrounded'
    BY <2>1, <2>2, <2>3, TraceStaysGrounded
  <2>15. ReadinessBacked'
    BY <2>1, <2>2, <2>3, ProbesStay DEF LabInv, QualificationBacked, ReadinessBacked
  <2> QED
    BY <2>4, <2>5, <2>6, <2>7, <2>8, <2>9, <2>10, <2>11, <2>12, <2>13, <2>14, <2>15
       DEF LabInv, QualificationBacked
<1>5. ASSUME NEW r \in LabRuns, EndRun(r) PROVE LabInv'
  <2>1. /\ lab[r].at = "ingested"
        /\ UNCHANGED <<tagged, provenance, building, requestFile, labSpent, labFiles, labManifest, probes, adaptive, readiness>>
    BY <1>5 DEF EndRun, LabStep
  <2>2. /\ lab' \in [LabRuns -> LabRecord]
        /\ \A q \in LabRuns \ {r} : lab'[q] = lab[q]
        /\ lab'[r].at = "done"
        /\ lab'[r].runtime = lab[r].runtime /\ lab'[r].target = lab[r].target
        /\ lab'[r].ran = lab[r].ran /\ lab'[r].asked = lab[r].asked
        /\ lab'[r].truncated = lab[r].truncated
    BY <1>5, AtMoves DEF EndRun, LabStep, LabInv, Laid, LabStages, Paying, Launched,
       Answered, Receipted, Ingesting, Unstarted
  <2>3. LabGoesOn
    BY <2>1, <2>2 DEF LabGoesOn, Receipted, Ingesting, Unstarted
  <2>4. Laid'
    BY <2>1, <2>2, <2>3 DEF LabInv, Laid
  <2>5. Provided'
    BY <2>1, <2>2, <2>3 DEF LabInv, Laid, Provided, Unstarted
  <2>6. Attributed'
    BY <2>1, <2>2, <2>3, EntriesStay DEF LabInv, Attributed
  <2>7. Advanced'
    <3>1. AdvancedRun(r)'
      BY <2>1, <2>2 DEF LabInv, Advanced, AdvancedRun, Ingested, Registered,
         RunFile, OutputFile, ReceiptFile, RecordFile, Unstarted, Ingesting,
         Receipted, Answered, Launched, Paying
    <3> QED
      BY <2>2, <2>3, <3>1, AdvancedStays DEF LabInv, Advanced
  <2>8. Assessed'
    BY <2>1, <2>2, <2>3 DEF LabInv, Laid, Assessed, LabGoesOn
  <2>9. Judged'
    BY <2>1, <2>2, <2>3, ProbesStay DEF LabInv, Judged
  <2>10. Kept'
    BY <2>1, <2>2 DEF LabInv, Kept, OutputFile, RunFile, TraceFile, Answered,
       Receipted, Ingesting
  <2>11. LabEvidenceIntact'
    BY <2>1, <2>2, <2>3 DEF LabInv, LabEvidenceIntact, ManifestVerifies
  <2>12. LaunchesPaid'
    BY <2>1, <2>2, <2>3 DEF LabInv, QualificationBacked, LaunchesPaid
  <2>13. ProbesGrounded'
    BY <2>1, <2>2, <2>3, ProbesStayGrounded DEF ProbesGrounded
  <2>14. TraceGrounded'
    BY <2>1, <2>2, <2>3, TraceStaysGrounded
  <2>15. ReadinessBacked'
    BY <2>1, <2>2, <2>3, ProbesStay DEF LabInv, QualificationBacked, ReadinessBacked
  <2> QED
    BY <2>4, <2>5, <2>6, <2>7, <2>8, <2>9, <2>10, <2>11, <2>12, <2>13, <2>14, <2>15
       DEF LabInv, QualificationBacked
<1>6. ASSUME NEW r \in LabRuns, RunFails(r) PROVE LabInv'
  <2>1. /\ lab[r].at \notin {"idle", "done", "failed"}
        /\ UNCHANGED <<tagged, provenance, building, requestFile, labSpent, labFiles, labManifest, probes, adaptive, readiness>>
    BY <1>6 DEF RunFails
  <2>2. /\ lab' \in [LabRuns -> LabRecord]
        /\ \A q \in LabRuns \ {r} : lab'[q] = lab[q]
        /\ lab'[r].at = "failed"
        /\ lab'[r].runtime = lab[r].runtime /\ lab'[r].target = lab[r].target
        /\ lab'[r].ran = lab[r].ran /\ lab'[r].asked = lab[r].asked
        /\ lab'[r].truncated = lab[r].truncated
    BY <1>6, AtMoves DEF RunFails, LabInv, Laid, LabStages, Paying, Launched,
       Answered, Receipted, Ingesting, Unstarted
  <2>3. LabGoesOn
    BY <2>1, <2>2 DEF LabGoesOn, Receipted, Ingesting, Unstarted
  <2>4. Laid'
    BY <2>1, <2>2, <2>3 DEF LabInv, Laid
  <2>5. Provided'
    BY <2>1, <2>2, <2>3 DEF LabInv, Laid, Provided, Unstarted
  <2>6. Attributed'
    BY <2>1, <2>2, <2>3, EntriesStay DEF LabInv, Attributed
  <2>7. Advanced'
    <3>1. AdvancedRun(r)'
      BY <2>2 DEF AdvancedRun, Unstarted, Ingesting, Receipted, Answered, Launched, Paying
    <3> QED
      BY <2>2, <2>3, <3>1, AdvancedStays DEF LabInv, Advanced
  <2>8. Assessed'
    BY <2>1, <2>2, <2>3 DEF LabInv, Laid, Assessed, LabGoesOn
  <2>9. Judged'
    BY <2>1, <2>2, <2>3, ProbesStay DEF LabInv, Judged
  <2>10. Kept'
    BY <2>1, <2>2 DEF LabInv, Kept, OutputFile, RunFile, TraceFile, Answered,
       Receipted, Ingesting
  <2>11. LabEvidenceIntact'
    BY <2>1, <2>2, <2>3 DEF LabInv, LabEvidenceIntact, ManifestVerifies
  <2>12. LaunchesPaid'
    BY <2>1, <2>2, <2>3 DEF LabInv, QualificationBacked, LaunchesPaid
  <2>13. ProbesGrounded'
    BY <2>1, <2>2, <2>3, ProbesStayGrounded DEF ProbesGrounded
  <2>14. TraceGrounded'
    BY <2>1, <2>2, <2>3, TraceStaysGrounded
  <2>15. ReadinessBacked'
    BY <2>1, <2>2, <2>3, ProbesStay DEF LabInv, QualificationBacked, ReadinessBacked
  <2> QED
    BY <2>4, <2>5, <2>6, <2>7, <2>8, <2>9, <2>10, <2>11, <2>12, <2>13, <2>14, <2>15
       DEF LabInv, QualificationBacked
<1>7. ASSUME NEW r \in LabRuns, Launch(r) PROVE LabInv'
  <2>1. /\ lab[r].at = "ready"
        /\ lab' = [lab EXCEPT ![r] = [lab[r] EXCEPT !.at = "launched",
             !.ran = tagged[lab[r].runtime], !.asked = Asked(r)]]
        /\ UNCHANGED <<tagged, provenance, building, requestFile, labSpent, labFiles, labManifest, probes, adaptive, readiness>>
    BY <1>7 DEF Launch, LabInv, Laid
  <2> DEFINE x == [lab[r] EXCEPT !.at = "launched", !.ran = tagged[lab[r].runtime], !.asked = Asked(r)]
  <2>2. lab[r] \in LabRecord /\ tagged[lab[r].runtime] \in Nat \ {0} /\ Asked(r) \in Targets
    <3>1. lab[r] \in LabRecord /\ lab[r].runtime \in LabRuntimes
      BY DEF LabInv, Laid, LabRecord
    <3>2. requestFile[lab[r].runtime] \in LabRuns /\ tagged[lab[r].runtime] \in Nat \ {0}
      BY <2>1, <3>1 DEF LabInv, Laid, Provided
    <3>3. lab[requestFile[lab[r].runtime]] \in LabRecord
      BY <3>2 DEF LabInv, Laid
    <3> QED
      BY <3>1, <3>2, <3>3 DEF Asked, LabRecord
  <2>3. /\ x \in LabRecord /\ x.at = "launched" /\ x.runtime = lab[r].runtime
        /\ x.target = lab[r].target /\ x.ran # 0
    BY <2>2 DEF LabRecord, LabStages, Paying, Launched, Answered, Receipted,
       Ingesting, Unstarted
  <2> HIDE DEF x
  <2>4. /\ lab' \in [LabRuns -> LabRecord] /\ lab'[r] = x
        /\ \A q \in LabRuns \ {r} : lab'[q] = lab[q]
    BY <2>1, <2>3, RunMoves DEF LabInv, Laid, x
  <2>5. LabGoesOn
    BY <2>1, <2>2, <2>3, <2>4 DEF LabGoesOn, Receipted, Ingesting, Unstarted
  <2>6. Laid'
    BY <2>1, <2>2, <2>3, <2>4, <2>5 DEF LabInv, Laid
  <2>7. Provided'
    BY <2>1, <2>2, <2>3, <2>4, <2>5 DEF LabInv, Laid, Provided, Unstarted
  <2>8. Attributed'
    BY <2>1, <2>2, <2>3, <2>4, <2>5, EntriesStay DEF LabInv, Attributed
  <2>9. Advanced'
    <3>1. AdvancedRun(r)'
      BY <2>1, <2>3, <2>4 DEF LabInv, Advanced, AdvancedRun, Unstarted, Ingesting,
         Receipted, Answered, Launched, Paying
    <3> QED
      BY <2>4, <2>5, <3>1, AdvancedStays DEF LabInv, Advanced
  <2>10. Assessed'
    BY <2>1, <2>2, <2>3, <2>4, <2>5 DEF LabInv, Laid, Assessed, LabGoesOn
  <2>11. Judged'
    BY <2>1, <2>2, <2>3, <2>4, <2>5, ProbesStay DEF LabInv, Judged
  <2>12. Kept'
    BY <2>1, <2>3, <2>4 DEF LabInv, Kept, OutputFile, RunFile, TraceFile, Answered,
       Receipted, Ingesting
  <2>13. LabEvidenceIntact'
    BY <2>1, <2>2, <2>3, <2>4, <2>5 DEF LabInv, LabEvidenceIntact, ManifestVerifies
  <2>14. LaunchesPaid'
    BY <2>1, <2>4 DEF LabInv, QualificationBacked, LaunchesPaid, Advanced,
       AdvancedRun, Paying
  <2>15. ProbesGrounded'
    BY <2>1, <2>2, <2>3, <2>4, <2>5, ProbesStayGrounded DEF ProbesGrounded
  <2>16. TraceGrounded'
    BY <2>1, <2>2, <2>3, <2>4, <2>5, TraceStaysGrounded
  <2>17. ReadinessBacked'
    BY <2>1, <2>2, <2>3, <2>4, <2>5, ProbesStay DEF LabInv, QualificationBacked,
       ReadinessBacked
  <2> QED
    BY <2>6, <2>7, <2>8, <2>9, <2>10, <2>11, <2>12, <2>13, <2>14, <2>15, <2>16,
       <2>17 DEF LabInv, QualificationBacked
<1>8. ASSUME NEW r \in LabRuns, NEW answer \in WorkerAnswers, Answer(r, answer) PROVE LabInv'
  <2>1. /\ lab[r].at = "launched" /\ labFiles' = Written({OutputFile(r)}, r)
        /\ UNCHANGED <<tagged, provenance, building, requestFile, labSpent, labManifest, probes, adaptive, readiness>>
    BY <1>8 DEF Answer
  <2> DEFINE x == [lab[r] EXCEPT !.at = IF answer.accepted /\ Accepts(r) THEN "answered" ELSE "failed",
                              !.truncated = answer.truncated]
  <2>2. lab[r] \in LabRecord /\ lab' = [lab EXCEPT ![r] = x] /\ answer.truncated \in BOOLEAN
    BY <1>8 DEF Answer, WorkerAnswers, LabInv, Laid
  <2>3. /\ x \in LabRecord /\ x.at \in {"answered", "failed"}
        /\ x.runtime = lab[r].runtime /\ x.target = lab[r].target
        /\ x.ran = lab[r].ran /\ x.asked = lab[r].asked
        /\ x.at = "answered" => lab[r].asked = lab[r].target
    BY <2>2 DEF Accepts, LabRecord, LabStages, Paying, Launched, Answered,
       Receipted, Ingesting, Unstarted
  <2> HIDE DEF x
  <2>4. /\ lab' \in [LabRuns -> LabRecord] /\ lab'[r] = x
        /\ \A q \in LabRuns \ {r} : lab'[q] = lab[q]
    BY <2>2, <2>3, RunMoves DEF LabInv, Laid
  <2>5. DOMAIN labFiles' = DOMAIN labFiles \cup {OutputFile(r)}
    BY <2>1 DEF Written
  <2>6. LabGoesOn
    BY <2>1, <2>2, <2>3, <2>4, <2>5 DEF LabGoesOn, Receipted, Ingesting, Unstarted
  <2>7. Laid'
    BY <2>1, <2>2, <2>3, <2>4, <2>5, <2>6 DEF LabInv, Laid
  <2>8. Provided'
    BY <2>1, <2>2, <2>3, <2>4, <2>5, <2>6 DEF LabInv, Laid, Provided, Unstarted
  <2>9. Attributed'
    BY <2>1, <2>2, <2>3, <2>4, <2>5, <2>6, EntriesStay DEF LabInv, Attributed
  <2>10. Advanced'
    <3>1. AdvancedRun(r)'
      BY <2>1, <2>3, <2>4 DEF LabInv, Advanced, AdvancedRun, Unstarted, Ingesting,
         Receipted, Answered, Launched, Paying
    <3> QED
      BY <2>4, <2>6, <3>1, AdvancedStays DEF LabInv, Advanced
  <2>11. Assessed'
    BY <2>1, <2>2, <2>3, <2>4, <2>5, <2>6 DEF LabInv, Laid, Assessed, LabGoesOn
  <2>12. Judged'
    BY <2>1, <2>2, <2>3, <2>4, <2>5, <2>6, ProbesStay DEF LabInv, Judged
  <2>13. Kept'
    BY <2>1, <2>3, <2>4, <2>5 DEF LabInv, Kept, OutputFile, RunFile, TraceFile,
       Answered, Receipted, Ingesting
  <2>14. LabEvidenceIntact'
    <3>1. \A e \in labManifest : e.path # OutputFile(r)
      BY <2>1 DEF LabInv, Attributed, AttributedEntry, RegisteredByProbe, RegisteredByRun,
         RegisteredByTrace, RunFile, CommandFile, ConsumptionFile, OutputFile, ReceiptFile, TraceFile, RecordFile, SourceFile, Receipted, Ingesting
    <3> QED
      BY <2>1, <3>1 DEF Written, LabInv, LabEvidenceIntact, ManifestVerifies
  <2>15. LaunchesPaid'
    BY <2>1, <2>3, <2>4 DEF LabInv, QualificationBacked, LaunchesPaid
  <2>16. ProbesGrounded'
    BY <2>1, <2>2, <2>3, <2>4, <2>5, <2>6, ProbesStayGrounded DEF ProbesGrounded
  <2>17. TraceGrounded'
    BY <2>1, <2>2, <2>3, <2>4, <2>5, <2>6, TraceStaysGrounded
  <2>18. ReadinessBacked'
    BY <2>1, <2>2, <2>3, <2>4, <2>5, <2>6, ProbesStay DEF LabInv,
       QualificationBacked, ReadinessBacked
  <2> QED
    BY <2>7, <2>8, <2>9, <2>10, <2>11, <2>12, <2>13, <2>14, <2>15, <2>16, <2>17,
       <2>18 DEF LabInv, QualificationBacked
<1>9. ASSUME NEW r \in LabRuns, KeepCommand(r) PROVE LabInv'
  <2> DEFINE new == {CommandFile(r), ConsumptionFile(r)}
  <2>1. /\ lab[r].at = "consumed" /\ new \cap DOMAIN labFiles = {}
        /\ Reaches(r, Written(new, r), <<ConsumptionFile(r), CommandFile(r)>>, "ready")
        /\ UNCHANGED <<tagged, provenance, building, requestFile, labSpent, probes, adaptive, readiness>>
    BY <1>9 DEF KeepCommand
  <2>2. \A e \in labManifest : e.path \notin new
    BY <2>1 DEF LabInv, LabEvidenceIntact, ManifestVerifies
  <2>3. {ConsumptionFile(r), CommandFile(r)} \subseteq DOMAIN labFiles \cup new
    BY <2>1
  <2>4. /\ DOMAIN labFiles' = DOMAIN labFiles \cup new
        /\ labManifest \subseteq labManifest'
        /\ \A e \in labManifest' : e \in labManifest \/ e.path = ConsumptionFile(r) \/ e.path = CommandFile(r)
        /\ \/ /\ lab' = [lab EXCEPT ![r].at = "ready"]
              /\ \E e \in labManifest' : e.path = ConsumptionFile(r)
              /\ \E e \in labManifest' : e.path = CommandFile(r)
           \/ lab' = [lab EXCEPT ![r].at = "failed"]
        /\ LabEvidenceIntact'
    BY <2>1, <2>2, <2>3, TwoReached DEF LabInv
  <2>5. PICK s \in {"ready", "failed"} :
        /\ lab' = [lab EXCEPT ![r].at = s]
        /\ s = "ready" => /\ \E e \in labManifest' : e.path = ConsumptionFile(r)
                          /\ \E e \in labManifest' : e.path = CommandFile(r)
    BY <2>4
  <2>6. /\ lab' \in [LabRuns -> LabRecord]
        /\ \A q \in LabRuns \ {r} : lab'[q] = lab[q]
        /\ lab'[r].at = s
        /\ lab'[r].runtime = lab[r].runtime /\ lab'[r].target = lab[r].target
        /\ lab'[r].ran = lab[r].ran /\ lab'[r].asked = lab[r].asked
        /\ lab'[r].truncated = lab[r].truncated
    BY <2>5, AtMoves DEF LabInv, Laid, LabStages, Paying, Launched, Answered,
       Receipted, Ingesting, Unstarted
  <2> HIDE DEF new
  <2>7. LabGoesOn
    BY <2>1, <2>4, <2>6 DEF LabGoesOn, Receipted, Ingesting, Unstarted
  <2>8. Laid'
    BY <2>1, <2>6 DEF LabInv, Laid
  <2>9. Provided'
    BY <2>1, <2>6 DEF LabInv, Laid, Provided
  <2>10. Attributed'
    <3>1. ASSUME NEW e \in labManifest', e.path = ConsumptionFile(r) \/ e.path = CommandFile(r)
          PROVE  AttributedEntry(e)'
      <4>1. RegisteredByRun(e, r)'
        BY <2>6, <3>1 DEF RegisteredByRun, RunFile, CommandFile, ConsumptionFile,
           OutputFile, ReceiptFile, Receipted, Unstarted
      <4> QED
        BY <4>1 DEF AttributedEntry
    <3> QED
      BY <2>4, <2>7, <3>1, EntriesStay DEF LabInv, Attributed
  <2>11. Advanced'
    <3>1. AdvancedRun(r)'
      BY <2>1, <2>5, <2>6 DEF LabInv, Advanced, AdvancedRun, Ingested, Registered,
         RunFile, OutputFile, ReceiptFile, RecordFile, Unstarted, Ingesting,
         Receipted, Answered, Launched, Paying
    <3> QED
      BY <2>6, <2>7, <3>1, AdvancedStays DEF LabInv, Advanced
  <2>12. Assessed'
    BY <2>1, <2>7 DEF LabInv, Laid, Assessed, LabGoesOn
  <2>13. Judged'
    BY <2>1, ProbesStay DEF LabInv, Judged
  <2>14. Kept'
    BY <2>1, <2>4, <2>6 DEF LabInv, Kept, OutputFile, RunFile, TraceFile, Answered,
       Receipted, Ingesting
  <2>15. LabEvidenceIntact'
    BY <2>4
  <2>16. LaunchesPaid'
    BY <2>1, <2>6 DEF LabInv, QualificationBacked, LaunchesPaid
  <2>17. ProbesGrounded'
    BY <2>1, <2>7, ProbesStayGrounded DEF ProbesGrounded
  <2>18. TraceGrounded'
    BY <2>1, <2>7, TraceStaysGrounded
  <2>19. ReadinessBacked'
    BY <2>1, ProbesStay DEF LabInv, QualificationBacked, ReadinessBacked
  <2> QED
    BY <2>8, <2>9, <2>10, <2>11, <2>12, <2>13, <2>14, <2>15, <2>16, <2>17, <2>18,
       <2>19 DEF LabInv, QualificationBacked
<1>10. ASSUME NEW r \in LabRuns, KeepReceipt(r) PROVE LabInv'
  <2> DEFINE new == {ReceiptFile(r)}
  <2>1. /\ lab[r].at = "answered" /\ OutputFile(r) \in DOMAIN labFiles
        /\ Reaches(r, Written(new, r), <<ReceiptFile(r), OutputFile(r)>>, "probing")
        /\ UNCHANGED <<tagged, provenance, building, requestFile, labSpent, probes, adaptive, readiness>>
    BY <1>10 DEF KeepReceipt, LabInv, Kept, Answered
  <2>2. \A e \in labManifest : e.path \notin new
    BY <2>1 DEF LabInv, Attributed, AttributedEntry, RegisteredByProbe, RegisteredByRun,
         RegisteredByTrace, RunFile, CommandFile, ConsumptionFile, OutputFile, ReceiptFile, TraceFile, RecordFile, SourceFile, Receipted, Ingesting
  <2>3. {ReceiptFile(r), OutputFile(r)} \subseteq DOMAIN labFiles \cup new
    BY <2>1
  <2>4. /\ DOMAIN labFiles' = DOMAIN labFiles \cup new
        /\ labManifest \subseteq labManifest'
        /\ \A e \in labManifest' : e \in labManifest \/ e.path = ReceiptFile(r) \/ e.path = OutputFile(r)
        /\ \/ /\ lab' = [lab EXCEPT ![r].at = "probing"]
              /\ \E e \in labManifest' : e.path = ReceiptFile(r)
              /\ \E e \in labManifest' : e.path = OutputFile(r)
           \/ lab' = [lab EXCEPT ![r].at = "failed"]
        /\ LabEvidenceIntact'
    BY <2>1, <2>2, <2>3, TwoReached DEF LabInv
  <2>5. PICK s \in {"probing", "failed"} :
        /\ lab' = [lab EXCEPT ![r].at = s]
        /\ s = "probing" => /\ \E e \in labManifest' : e.path = ReceiptFile(r)
                          /\ \E e \in labManifest' : e.path = OutputFile(r)
    BY <2>4
  <2>6. /\ lab' \in [LabRuns -> LabRecord]
        /\ \A q \in LabRuns \ {r} : lab'[q] = lab[q]
        /\ lab'[r].at = s
        /\ lab'[r].runtime = lab[r].runtime /\ lab'[r].target = lab[r].target
        /\ lab'[r].ran = lab[r].ran /\ lab'[r].asked = lab[r].asked
        /\ lab'[r].truncated = lab[r].truncated
    BY <2>5, AtMoves DEF LabInv, Laid, LabStages, Paying, Launched, Answered,
       Receipted, Ingesting, Unstarted
  <2> HIDE DEF new
  <2>7. LabGoesOn
    BY <2>1, <2>4, <2>6 DEF LabGoesOn, Receipted, Ingesting, Unstarted
  <2>8. Laid'
    BY <2>1, <2>6 DEF LabInv, Laid
  <2>9. Provided'
    BY <2>1, <2>6 DEF LabInv, Laid, Provided
  <2>10. Attributed'
    <3>1. ASSUME NEW e \in labManifest', e.path = ReceiptFile(r) \/ e.path = OutputFile(r)
          PROVE  AttributedEntry(e)'
      <4>1. RegisteredByRun(e, r)'
        BY <2>6, <3>1 DEF RegisteredByRun, RunFile, CommandFile, ConsumptionFile,
           OutputFile, ReceiptFile, Receipted, Unstarted
      <4> QED
        BY <4>1 DEF AttributedEntry
    <3> QED
      BY <2>4, <2>7, <3>1, EntriesStay DEF LabInv, Attributed
  <2>11. Advanced'
    <3>1. AdvancedRun(r)'
      BY <2>1, <2>5, <2>6 DEF LabInv, Advanced, AdvancedRun, Ingested, Registered,
         RunFile, OutputFile, ReceiptFile, RecordFile, Unstarted, Ingesting,
         Receipted, Answered, Launched, Paying
    <3> QED
      BY <2>6, <2>7, <3>1, AdvancedStays DEF LabInv, Advanced
  <2>12. Assessed'
    BY <2>1, <2>7 DEF LabInv, Laid, Assessed, LabGoesOn
  <2>13. Judged'
    BY <2>1, ProbesStay DEF LabInv, Judged
  <2>14. Kept'
    BY <2>1, <2>4, <2>6 DEF LabInv, Kept, OutputFile, RunFile, TraceFile, Answered,
       Receipted, Ingesting
  <2>15. LabEvidenceIntact'
    BY <2>4
  <2>16. LaunchesPaid'
    BY <2>1, <2>6 DEF LabInv, QualificationBacked, LaunchesPaid
  <2>17. ProbesGrounded'
    BY <2>1, <2>7, ProbesStayGrounded DEF ProbesGrounded
  <2>18. TraceGrounded'
    BY <2>1, <2>7, TraceStaysGrounded
  <2>19. ReadinessBacked'
    BY <2>1, ProbesStay DEF LabInv, QualificationBacked, ReadinessBacked
  <2> QED
    BY <2>8, <2>9, <2>10, <2>11, <2>12, <2>13, <2>14, <2>15, <2>16, <2>17, <2>18,
       <2>19 DEF LabInv, QualificationBacked
<1>11. ASSUME NEW t \in LabRuntimes, ProbeDigest(t) PROVE LabInv'
  <2> DEFINE p == Probe(t, "image-digest", NoLabRun)
  <2>1. p.run = NoLabRun /\ p.image # 0
    BY <1>11 DEF ProbeDigest, Probe, LabInv, Provided
  <2>2. /\ p \notin probes /\ probes' = probes \cup {p}
        /\ DOMAIN labFiles \subseteq DOMAIN labFiles'
        /\ labManifest \subseteq labManifest'
        /\ \A e \in labManifest' :
             e \in labManifest \/ e.path = SourceFile(p) \/ e.path = RecordFile(p)
        /\ \E e \in labManifest' : e.path = SourceFile(p)
        /\ \E e \in labManifest' : e.path = RecordFile(p)
        /\ LabEvidenceIntact'
    BY <1>11, ProbeRecorded DEF ProbeDigest
  <2>3. /\ building' = [building EXCEPT ![t] = "idle"]
        /\ UNCHANGED <<tagged, provenance, requestFile, labSpent, lab, adaptive, readiness>>
    BY <1>11 DEF ProbeDigest
  <2> HIDE DEF p
  <2>4. LabGoesOn
    BY <2>1, <2>2, <2>3 DEF LabGoesOn, Receipted, Ingesting, Unstarted
  <2>5. Laid'
    BY <2>1, <2>2, <2>3, <2>4 DEF LabInv, Laid
  <2>6. Provided'
    BY <2>1, <2>2, <2>3, <2>4 DEF LabInv, Laid, Provided, Unstarted
  <2>7. Attributed'
    <3>1. ASSUME NEW e \in labManifest', e.path = SourceFile(p) \/ e.path = RecordFile(p)
          PROVE  AttributedEntry(e)'
      BY <2>2, <3>1 DEF AttributedEntry, RegisteredByProbe, SourceFile, RecordFile
    <3> QED
      BY <2>2, <2>4, <3>1, EntriesStay DEF LabInv, Attributed
  <2>8. Advanced'
    BY <2>1, <2>2, <2>3, <2>4, AdvancedStays DEF LabInv, Advanced
  <2>9. Assessed'
    BY <2>1, <2>2, <2>3, <2>4 DEF LabInv, Laid, Assessed, LabGoesOn
  <2>10. Judged'
    BY <2>1, <2>2, <2>3, ProbesStay DEF LabInv, Judged
  <2>11. Kept'
    BY <2>1, <2>2, <2>3, <2>4 DEF LabInv, Kept, OutputFile, RunFile, TraceFile
  <2>12. LabEvidenceIntact'
    BY <2>2
  <2>13. LaunchesPaid'
    BY <2>1, <2>2, <2>3, <2>4 DEF LabInv, QualificationBacked, LaunchesPaid
  <2>14. ProbesGrounded'
    BY <2>1, <2>2, <2>3, <2>4, ProbesStayGrounded DEF ProbesGrounded, Registered, SourceFile
  <2>15. TraceGrounded'
    BY <2>1, <2>2, <2>3, <2>4, TraceStaysGrounded
  <2>16. ReadinessBacked'
    BY <2>1, <2>2, <2>3, ProbesStay DEF LabInv, QualificationBacked, ReadinessBacked
  <2> QED
    BY <2>5, <2>6, <2>7, <2>8, <2>9, <2>10, <2>11, <2>12, <2>13, <2>14, <2>15, <2>16
       DEF LabInv, QualificationBacked
<1>12. ASSUME NEW t \in LabRuntimes, NEW probe \in OfflineProbes, ProbeOffline(t, probe) PROVE LabInv'
  <2> DEFINE p == Probe(t, probe, NoLabRun)
  <2>1. p.run = NoLabRun /\ p.image # 0
    BY <1>12 DEF ProbeOffline, Probe
  <2>2. /\ p \notin probes /\ probes' = probes \cup {p}
        /\ DOMAIN labFiles \subseteq DOMAIN labFiles'
        /\ labManifest \subseteq labManifest'
        /\ \A e \in labManifest' :
             e \in labManifest \/ e.path = SourceFile(p) \/ e.path = RecordFile(p)
        /\ \E e \in labManifest' : e.path = SourceFile(p)
        /\ \E e \in labManifest' : e.path = RecordFile(p)
        /\ LabEvidenceIntact'
    BY <1>12, ProbeRecorded DEF ProbeOffline
  <2>3. UNCHANGED <<tagged, provenance, building, requestFile, labSpent, lab, adaptive, readiness>>
    BY <1>12 DEF ProbeOffline
  <2> HIDE DEF p
  <2>4. LabGoesOn
    BY <2>1, <2>2, <2>3 DEF LabGoesOn, Receipted, Ingesting, Unstarted
  <2>5. Laid'
    BY <2>1, <2>2, <2>3, <2>4 DEF LabInv, Laid
  <2>6. Provided'
    BY <2>1, <2>2, <2>3, <2>4 DEF LabInv, Laid, Provided, Unstarted
  <2>7. Attributed'
    <3>1. ASSUME NEW e \in labManifest', e.path = SourceFile(p) \/ e.path = RecordFile(p)
          PROVE  AttributedEntry(e)'
      BY <2>2, <3>1 DEF AttributedEntry, RegisteredByProbe, SourceFile, RecordFile
    <3> QED
      BY <2>2, <2>4, <3>1, EntriesStay DEF LabInv, Attributed
  <2>8. Advanced'
    BY <2>1, <2>2, <2>3, <2>4, AdvancedStays DEF LabInv, Advanced
  <2>9. Assessed'
    BY <2>1, <2>2, <2>3, <2>4 DEF LabInv, Laid, Assessed, LabGoesOn
  <2>10. Judged'
    BY <2>1, <2>2, <2>3, ProbesStay DEF LabInv, Judged
  <2>11. Kept'
    BY <2>1, <2>2, <2>3, <2>4 DEF LabInv, Kept, OutputFile, RunFile, TraceFile
  <2>12. LabEvidenceIntact'
    BY <2>2
  <2>13. LaunchesPaid'
    BY <2>1, <2>2, <2>3, <2>4 DEF LabInv, QualificationBacked, LaunchesPaid
  <2>14. ProbesGrounded'
    BY <2>1, <2>2, <2>3, <2>4, ProbesStayGrounded DEF ProbesGrounded, Registered, SourceFile
  <2>15. TraceGrounded'
    BY <2>1, <2>2, <2>3, <2>4, TraceStaysGrounded
  <2>16. ReadinessBacked'
    BY <2>1, <2>2, <2>3, ProbesStay DEF LabInv, QualificationBacked, ReadinessBacked
  <2> QED
    BY <2>5, <2>6, <2>7, <2>8, <2>9, <2>10, <2>11, <2>12, <2>13, <2>14, <2>15, <2>16
       DEF LabInv, QualificationBacked
<1>13. ASSUME NEW r \in LabRuns, ProbeRun(r) PROVE LabInv'
  <2>1. PICK step \in RunProbe(r), complete \in BOOLEAN :
          /\ lab[r].at = step.at
          /\ RecordProbe(Probe(lab[r].runtime, step.probe, r), labFiles[step.source], complete)
          /\ lab' = [lab EXCEPT ![r].at = IF complete THEN step.to ELSE "failed"]
    BY <1>13 DEF ProbeRun
  <2> DEFINE p == Probe(lab[r].runtime, step.probe, r)
  <2> DEFINE s == IF complete THEN step.to ELSE "failed"
  <2>2. p.run = r /\ p.image # 0 /\ p.probe = step.probe
    BY <1>13 DEF ProbeRun, Probe
  <2>3. /\ p \notin probes /\ probes' = probes \cup {p}
        /\ DOMAIN labFiles \subseteq DOMAIN labFiles'
        /\ labManifest \subseteq labManifest'
        /\ \A e \in labManifest' :
             e \in labManifest \/ e.path = SourceFile(p) \/ e.path = RecordFile(p)
        /\ \E e \in labManifest' : e.path = SourceFile(p)
        /\ complete => \E e \in labManifest' : e.path = RecordFile(p)
        /\ LabEvidenceIntact'
    BY <2>1, ProbeRecorded
  <2>4. /\ lab[r].at \in {"probing", "probed", "ingested"} /\ lab[r].at # "done"
        /\ s \in {"probed", "ingested", "done", "failed"}
        /\ s # "failed" => complete
        /\ s = "ingested" => p.probe = "receipt-ingestion"
        /\ s = "done" => lab[r].at = "ingested"
    BY <2>1, <2>2 DEF RunProbe
  <2>5. UNCHANGED <<tagged, provenance, building, requestFile, labSpent, adaptive, readiness>>
    BY <1>13 DEF ProbeRun
  <2>6. s \in LabStages
    BY <2>4 DEF LabStages, Paying, Launched, Answered, Receipted, Ingesting, Unstarted
  <2>7. /\ lab' \in [LabRuns -> LabRecord]
        /\ \A q \in LabRuns \ {r} : lab'[q] = lab[q]
        /\ lab'[r].at = s
        /\ lab'[r].runtime = lab[r].runtime /\ lab'[r].target = lab[r].target
        /\ lab'[r].ran = lab[r].ran /\ lab'[r].asked = lab[r].asked
        /\ lab'[r].truncated = lab[r].truncated
    <3>1. lab \in [LabRuns -> LabRecord]
      BY DEF LabInv, Laid
    <3>2. lab' = [lab EXCEPT ![r].at = s]
      BY <2>1
    <3> HIDE DEF s
    <3> QED
      BY <2>6, <3>1, <3>2, AtMoves
  <2> HIDE DEF p
  <2> HIDE DEF s
  <2>8. LabGoesOn
    BY <2>3, <2>4, <2>5, <2>7 DEF LabGoesOn, Receipted, Ingesting, Unstarted
  <2>9. Laid'
    BY <2>2, <2>3, <2>5, <2>7 DEF LabInv, Laid
  <2>10. Provided'
    BY <2>5, <2>7, <2>4 DEF LabInv, Laid, Provided
  <2>11. Attributed'
    <3>1. ASSUME NEW e \in labManifest', e.path = SourceFile(p) \/ e.path = RecordFile(p)
          PROVE  AttributedEntry(e)'
      BY <2>3, <3>1 DEF AttributedEntry, RegisteredByProbe, SourceFile, RecordFile
    <3> QED
      BY <2>3, <2>8, <3>1, EntriesStay DEF LabInv, Attributed
  <2>12. Advanced'
    <3>1. AdvancedRun(r)'
      <4>1. lab[r].at \in Receipted
        BY <2>4 DEF Receipted, Ingesting
      <4>2. s \in Ingesting => Ingested(r)'
        BY <2>2, <2>3, <2>4 DEF LabInv, Advanced, AdvancedRun, Ingested,
           Registered, RecordFile, Ingesting
      <4> QED
        BY <2>3, <2>4, <2>5, <2>7, <4>1, <4>2 DEF LabInv, Advanced, AdvancedRun, Registered,
           RunFile, OutputFile, ReceiptFile, Unstarted, Ingesting, Receipted, Answered, Launched, Paying
    <3> QED
      BY <2>7, <2>8, <3>1, AdvancedStays DEF LabInv, Advanced
  <2>13. Assessed'
    BY <2>2, <2>3, <2>5, <2>8 DEF LabInv, Laid, Assessed, LabGoesOn
  <2>14. Judged'
    BY <2>2, <2>3, <2>5, ProbesStay DEF LabInv, Judged
  <2>15. Kept'
    BY <2>3, <2>4, <2>5, <2>7 DEF LabInv, Kept, OutputFile, RunFile, TraceFile,
       Answered, Receipted, Ingesting
  <2>16. LabEvidenceIntact'
    BY <2>3
  <2>17. LaunchesPaid'
    BY <2>5, <2>7 DEF LabInv, QualificationBacked, LaunchesPaid
  <2>18. ProbesGrounded'
    <3>1. /\ (\E e \in labManifest' : e.path = SourceFile(p)) /\ p.image # 0 /\ p.run = r
          /\ r \in labSpent' /\ lab'[r].ran # 0 /\ lab'[r].asked = lab'[r].target
          /\ Registered(ReceiptFile(r))' /\ Registered(OutputFile(r))'
      <4>1. lab[r].at \in Receipted
        BY <2>4 DEF Receipted, Ingesting
      <4>2. (\E e \in labManifest' : e.path = SourceFile(p)) /\ p.image # 0 /\ p.run = r
        BY <2>2, <2>3 DEF Registered, SourceFile
      <4>3. /\ r \in labSpent /\ lab[r].ran # 0 /\ lab[r].asked = lab[r].target
            /\ Registered(ReceiptFile(r)) /\ Registered(OutputFile(r))
        BY <4>1 DEF LabInv, Advanced, AdvancedRun, Answered, Launched, Paying
      <4> QED
        BY <2>3, <2>5, <2>7, <4>2, <4>3 DEF Registered, RunFile, OutputFile, ReceiptFile
    <3> QED
      BY <2>3, <2>8, <3>1, ProbesStayGrounded DEF ProbesGrounded, Registered, ReceiptFile,
         OutputFile, RunFile, SourceFile
  <2>19. TraceGrounded'
    BY <2>5, <2>8, TraceStaysGrounded
  <2>20. ReadinessBacked'
    BY <2>2, <2>3, <2>5, ProbesStay DEF LabInv, QualificationBacked, ReadinessBacked
  <2> QED
    BY <2>9, <2>10, <2>11, <2>12, <2>13, <2>14, <2>15, <2>16, <2>17, <2>18, <2>19,
       <2>20 DEF LabInv, QualificationBacked
<1>14. ASSUME NEW t \in LabRuntimes, BuildImage(t) PROVE LabInv'
  <2>1. /\ tagged' = [tagged EXCEPT ![t] = @ + 1] /\ building' = [building EXCEPT ![t] = "built"]
        /\ UNCHANGED <<provenance, requestFile, labSpent, lab, labFiles, labManifest, probes, adaptive, readiness>>
    BY <1>14 DEF BuildImage
  <2>2. LabGoesOn
    BY <2>1 DEF LabGoesOn, Receipted, Ingesting, Unstarted
  <2>3. Laid'
    BY <2>1, <2>2 DEF LabInv, Laid
  <2>4. Provided'
    BY <2>1 DEF LabInv, Laid, Provided, LabRecord
  <2>5. Attributed'
    BY <2>1, <2>2, EntriesStay DEF LabInv, Attributed
  <2>6. Advanced'
    BY <2>1, <2>2, AdvancedStays DEF LabInv, Advanced
  <2>7. Assessed'
    BY <2>1, <2>2 DEF LabInv, Laid, Assessed, LabGoesOn
  <2>8. Judged'
    BY <2>1, <2>2, ProbesStay DEF LabInv, Judged
  <2>9. Kept'
    BY <2>1, <2>2 DEF LabInv, Kept, OutputFile, RunFile, TraceFile
  <2>10. LabEvidenceIntact'
    BY <2>1, <2>2 DEF LabInv, LabEvidenceIntact, ManifestVerifies
  <2>11. LaunchesPaid'
    BY <2>1, <2>2 DEF LabInv, QualificationBacked, LaunchesPaid
  <2>12. ProbesGrounded'
    BY <2>1, <2>2, ProbesStayGrounded DEF ProbesGrounded
  <2>13. TraceGrounded'
    BY <2>1, <2>2, TraceStaysGrounded
  <2>14. ReadinessBacked'
    BY <2>1, <2>2, ProbesStay DEF LabInv, QualificationBacked, ReadinessBacked
  <2> QED
    BY <2>3, <2>4, <2>5, <2>6, <2>7, <2>8, <2>9, <2>10, <2>11, <2>12, <2>13, <2>14
       DEF LabInv, QualificationBacked
<1>15. ASSUME NEW t \in LabRuntimes, WriteProvenance(t) PROVE LabInv'
  <2>1. /\ building[t] = "built" /\ provenance' = [provenance EXCEPT ![t] = tagged[t]]
        /\ building' = [building EXCEPT ![t] = "written"]
        /\ UNCHANGED <<tagged, requestFile, labSpent, lab, labFiles, labManifest, probes, adaptive, readiness>>
    BY <1>15 DEF WriteProvenance
  <2>2. LabGoesOn
    BY <2>1 DEF LabGoesOn, Receipted, Ingesting, Unstarted
  <2>3. Laid'
    BY <2>1, <2>2 DEF LabInv, Laid
  <2>4. Provided'
    BY <2>1, <2>2 DEF LabInv, Laid, Provided, Unstarted
  <2>5. Attributed'
    BY <2>1, <2>2, EntriesStay DEF LabInv, Attributed
  <2>6. Advanced'
    BY <2>1, <2>2, AdvancedStays DEF LabInv, Advanced
  <2>7. Assessed'
    BY <2>1, <2>2 DEF LabInv, Laid, Assessed, LabGoesOn
  <2>8. Judged'
    BY <2>1, <2>2, ProbesStay DEF LabInv, Judged
  <2>9. Kept'
    BY <2>1, <2>2 DEF LabInv, Kept, OutputFile, RunFile, TraceFile
  <2>10. LabEvidenceIntact'
    BY <2>1, <2>2 DEF LabInv, LabEvidenceIntact, ManifestVerifies
  <2>11. LaunchesPaid'
    BY <2>1, <2>2 DEF LabInv, QualificationBacked, LaunchesPaid
  <2>12. ProbesGrounded'
    BY <2>1, <2>2, ProbesStayGrounded DEF ProbesGrounded
  <2>13. TraceGrounded'
    BY <2>1, <2>2, TraceStaysGrounded
  <2>14. ReadinessBacked'
    BY <2>1, <2>2, ProbesStay DEF LabInv, QualificationBacked, ReadinessBacked
  <2> QED
    BY <2>3, <2>4, <2>5, <2>6, <2>7, <2>8, <2>9, <2>10, <2>11, <2>12, <2>13, <2>14
       DEF LabInv, QualificationBacked
<1>16. ASSUME Trace PROVE LabInv'
  <2>1. /\ adaptive.at = "verifying" /\ lab[adaptive.verification].at = "done"
        /\ adaptive' = [adaptive EXCEPT !.at = "traced"]
        /\ labFiles' = Written({TraceFile}, adaptive.verification)
        /\ UNCHANGED <<tagged, provenance, building, requestFile, labSpent, lab, labManifest, probes, readiness>>
    BY <1>16 DEF Trace
  <2>2. /\ adaptive'.at = "traced" /\ adaptive'.observation = adaptive.observation
        /\ adaptive'.verification = adaptive.verification /\ TraceFile' = TraceFile
        /\ adaptive.observation \in LabRuns /\ adaptive.verification \in LabRuns
    BY <2>1 DEF TraceFile, LabInv, Laid
  <2>3. DOMAIN labFiles' = DOMAIN labFiles \cup {TraceFile}
    BY <2>1 DEF Written
  <2>4. LabGoesOn
    BY <2>1, <2>2 DEF LabGoesOn, Receipted, Ingesting, Unstarted
  <2>5. Laid'
    BY <2>1, <2>2, <2>3, <2>4 DEF LabInv, Laid
  <2>6. Provided'
    BY <2>1, <2>2, <2>3, <2>4 DEF LabInv, Laid, Provided, Unstarted
  <2>7. Attributed'
    BY <2>1, <2>2, <2>3, <2>4, EntriesStay DEF LabInv, Attributed
  <2>8. Advanced'
    BY <2>1, <2>2, <2>3, <2>4, AdvancedStays DEF LabInv, Advanced
  <2>9. Assessed'
    BY <2>1, <2>2, <2>3, <2>4 DEF LabInv, Laid, Assessed, LabGoesOn
  <2>10. Judged'
    BY <2>1, <2>2, <2>3, <2>4, ProbesStay DEF LabInv, Judged
  <2>11. Kept'
    BY <2>1, <2>2, <2>3 DEF LabInv, Kept, OutputFile, RunFile
  <2>12. LabEvidenceIntact'
    <3>1. \A e \in labManifest : e.path # TraceFile
      BY <2>1 DEF LabInv, Attributed, AttributedEntry, RegisteredByProbe, RegisteredByRun,
         RegisteredByTrace, RunFile, CommandFile, ConsumptionFile, OutputFile, ReceiptFile, TraceFile, RecordFile, SourceFile
    <3> QED
      BY <2>1, <3>1 DEF Written, LabInv, LabEvidenceIntact, ManifestVerifies
  <2>13. LaunchesPaid'
    BY <2>1, <2>2, <2>3, <2>4 DEF LabInv, QualificationBacked, LaunchesPaid
  <2>14. ProbesGrounded'
    BY <2>1, <2>2, <2>3, <2>4, ProbesStayGrounded DEF ProbesGrounded
  <2>15. TraceGrounded'
    <3>1. /\ adaptive.observation # adaptive.verification
          /\ lab[adaptive.observation].target = lab[adaptive.verification].target
      BY <1>16 DEF Trace, TraceAllowed, FreshStages, FreshPermit
    <3>2. lab[adaptive.observation].at = "done"
      BY <2>1 DEF LabInv, Assessed
    <3>3. \A r \in {adaptive.observation, adaptive.verification} :
            r \in labSpent /\ Ingested(r)
      BY <2>1, <2>2, <3>2 DEF LabInv, Advanced, AdvancedRun, Unstarted, Ingesting,
         Receipted, Answered, Launched, Paying
    <3> QED
      BY <2>1, <2>2, <3>1, <3>2, <3>3 DEF TraceGrounded, Ingested, Registered, RecordFile
  <2>16. ReadinessBacked'
    BY <2>1, <2>2, ProbesStay DEF LabInv, QualificationBacked, ReadinessBacked
  <2> QED
    BY <2>5, <2>6, <2>7, <2>8, <2>9, <2>10, <2>11, <2>12, <2>13, <2>14, <2>15, <2>16
       DEF LabInv, QualificationBacked
<1>17. ASSUME RegisterTrace PROVE LabInv'
  <2>1. /\ adaptive.at = "traced" /\ adaptive' = [adaptive EXCEPT !.at = "registered"]
        /\ labManifest' = labManifest \cup {Entry(TraceFile, labFiles)}
        /\ UNCHANGED <<tagged, provenance, building, requestFile, labSpent, lab, labFiles, probes, readiness>>
    BY <1>17 DEF RegisterTrace
  <2>2. /\ adaptive'.at = "registered" /\ adaptive'.observation = adaptive.observation
        /\ adaptive'.verification = adaptive.verification /\ TraceFile' = TraceFile
        /\ TraceFile \in DOMAIN labFiles
    BY <2>1 DEF TraceFile, LabInv, Laid, Kept
  <2>3. Entry(TraceFile, labFiles).path = TraceFile /\ Entry(TraceFile, labFiles).content = labFiles[TraceFile]
    BY DEF Entry
  <2>4. LabGoesOn
    BY <2>1, <2>2 DEF LabGoesOn, Receipted, Ingesting, Unstarted
  <2>5. Laid'
    BY <2>1, <2>2, <2>3, <2>4 DEF LabInv, Laid
  <2>6. Provided'
    BY <2>1, <2>2, <2>3, <2>4 DEF LabInv, Laid, Provided, Unstarted
  <2>7. Attributed'
    <3>1. RegisteredByTrace(Entry(TraceFile, labFiles))'
      BY <2>1, <2>2, <2>3 DEF RegisteredByTrace, Entry
    <3>2. \A e \in labManifest' : e \in labManifest \/ e.path = TraceFile
      BY <2>1, <2>3
    <3>3. \A e : e.path = TraceFile => RegisteredByTrace(e)'
      BY <2>2 DEF RegisteredByTrace
    <3> QED
      BY <2>4, <3>2, <3>3, EntriesStay DEF LabInv, Attributed, AttributedEntry
  <2>8. Advanced'
    BY <2>1, <2>2, <2>3, <2>4, AdvancedStays DEF LabInv, Advanced
  <2>9. Assessed'
    BY <2>1, <2>2, <2>3, <2>4 DEF LabInv, Laid, Assessed, LabGoesOn
  <2>10. Judged'
    BY <2>1, <2>2, <2>3, <2>4, ProbesStay DEF LabInv, Judged
  <2>11. Kept'
    BY <2>1, <2>2 DEF LabInv, Kept, OutputFile, RunFile
  <2>12. LabEvidenceIntact'
    BY <2>1, <2>2, <2>3 DEF LabInv, LabEvidenceIntact, ManifestVerifies
  <2>13. LaunchesPaid'
    BY <2>1, <2>2, <2>3, <2>4 DEF LabInv, QualificationBacked, LaunchesPaid
  <2>14. ProbesGrounded'
    BY <2>1, <2>2, <2>3, <2>4, ProbesStayGrounded DEF ProbesGrounded
  <2>15. TraceGrounded'
    BY <2>1, <2>2, <2>4 DEF LabInv, QualificationBacked, TraceGrounded, LabGoesOn,
       Registered, RecordFile
  <2>16. ReadinessBacked'
    BY <2>1, <2>2, ProbesStay DEF LabInv, QualificationBacked, ReadinessBacked
  <2> QED
    BY <2>5, <2>6, <2>7, <2>8, <2>9, <2>10, <2>11, <2>12, <2>13, <2>14, <2>15, <2>16
       DEF LabInv, QualificationBacked
<1>18. ASSUME BeginReadiness PROVE LabInv'
  <2>1. /\ readiness' = [readiness EXCEPT !.at = "judging", !.manifest = ManifestVerifies]
        /\ ManifestVerifies = TRUE
        /\ readiness'.qualified = readiness.qualified /\ readiness'.ready = readiness.ready
        /\ UNCHANGED <<tagged, provenance, building, requestFile, labSpent, lab, labFiles, labManifest, probes, adaptive>>
    BY <1>18 DEF BeginReadiness, LabInv, Laid, LabEvidenceIntact
  <2>2. LabGoesOn
    BY <2>1 DEF LabGoesOn, Receipted, Ingesting, Unstarted
  <2>3. Laid'
    BY <2>1, <2>2 DEF LabInv, Laid
  <2>4. Provided'
    BY <2>1, <2>2 DEF LabInv, Laid, Provided, Unstarted
  <2>5. Attributed'
    BY <2>1, <2>2, EntriesStay DEF LabInv, Attributed
  <2>6. Advanced'
    BY <2>1, <2>2, AdvancedStays DEF LabInv, Advanced
  <2>7. Assessed'
    BY <2>1, <2>2 DEF LabInv, Laid, Assessed, LabGoesOn
  <2>8. Judged'
    BY <2>1, <2>2, ProbesStay DEF LabInv, Judged
  <2>9. Kept'
    BY <2>1 DEF LabInv, Kept, OutputFile, RunFile, TraceFile
  <2>10. LabEvidenceIntact'
    BY <2>1, <2>2 DEF LabInv, LabEvidenceIntact, ManifestVerifies
  <2>11. LaunchesPaid'
    BY <2>1, <2>2 DEF LabInv, QualificationBacked, LaunchesPaid
  <2>12. ProbesGrounded'
    BY <2>1, <2>2, ProbesStayGrounded DEF ProbesGrounded
  <2>13. TraceGrounded'
    BY <2>1, <2>2, TraceStaysGrounded
  <2>14. ReadinessBacked'
    BY <2>1, <2>2, ProbesStay DEF LabInv, QualificationBacked, ReadinessBacked
  <2> QED
    BY <2>3, <2>4, <2>5, <2>6, <2>7, <2>8, <2>9, <2>10, <2>11, <2>12, <2>13, <2>14
       DEF LabInv, QualificationBacked
<1>19. ASSUME Evaluate PROVE LabInv'
  <2>1. /\ readiness'.qualified = readiness.qualified /\ readiness' \in [at : {"idle", "judging", "reported"},
             manifest : BOOLEAN, judged : SUBSET LabRuntimes, qualified : SUBSET LabRuntimes,
             ready : BOOLEAN]
        /\ readiness'.ready => adaptive.at \in {"traced", "registered"} /\ readiness.qualified = LabRuntimes
        /\ UNCHANGED <<tagged, provenance, building, requestFile, labSpent, lab, labFiles, labManifest, probes, adaptive>>
    BY <1>19 DEF Evaluate, TraceReady, LabInv, Laid
  <2>2. LabGoesOn
    BY <2>1 DEF LabGoesOn, Receipted, Ingesting, Unstarted
  <2>3. Laid'
    BY <2>1, <2>2 DEF LabInv, Laid
  <2>4. Provided'
    BY <2>1, <2>2 DEF LabInv, Laid, Provided, Unstarted
  <2>5. Attributed'
    BY <2>1, <2>2, EntriesStay DEF LabInv, Attributed
  <2>6. Advanced'
    BY <2>1, <2>2, AdvancedStays DEF LabInv, Advanced
  <2>7. Assessed'
    BY <2>1, <2>2 DEF LabInv, Laid, Assessed, LabGoesOn
  <2>8. Judged'
    BY <2>1, <2>2, ProbesStay DEF LabInv, Judged
  <2>9. Kept'
    BY <2>1, <2>2 DEF LabInv, Kept, OutputFile, RunFile, TraceFile
  <2>10. LabEvidenceIntact'
    BY <2>1, <2>2 DEF LabInv, LabEvidenceIntact, ManifestVerifies
  <2>11. LaunchesPaid'
    BY <2>1, <2>2 DEF LabInv, QualificationBacked, LaunchesPaid
  <2>12. ProbesGrounded'
    BY <2>1, <2>2, ProbesStayGrounded DEF ProbesGrounded
  <2>13. TraceGrounded'
    BY <2>1, <2>2, TraceStaysGrounded
  <2>14. ReadinessBacked'
    BY <2>1, ProbesStay DEF LabInv, Judged, ReadinessBacked
  <2> QED
    BY <2>3, <2>4, <2>5, <2>6, <2>7, <2>8, <2>9, <2>10, <2>11, <2>12, <2>13, <2>14
       DEF LabInv, QualificationBacked
<1>20. ASSUME NEW t \in LabRuntimes, JudgeRuntime(t) PROVE LabInv'
  <2>1. /\ readiness' \in [at : {"idle", "judging", "reported"}, manifest : BOOLEAN,
             judged : SUBSET LabRuntimes, qualified : SUBSET LabRuntimes, ready : BOOLEAN]
        /\ readiness'.ready = readiness.ready
        /\ \A u \in readiness'.qualified : u \in readiness.qualified \/ Qualified(u)
        /\ UNCHANGED <<tagged, provenance, building, requestFile, labSpent, lab, labFiles, labManifest, probes, adaptive>>
    BY <1>20 DEF JudgeRuntime, LabInv, Laid
  <2>2. LabGoesOn
    BY <2>1 DEF LabGoesOn, Receipted, Ingesting, Unstarted
  <2>3. Laid'
    BY <2>1, <2>2 DEF LabInv, Laid
  <2>4. Provided'
    BY <2>1, <2>2 DEF LabInv, Laid, Provided, Unstarted
  <2>5. Attributed'
    BY <2>1, <2>2, EntriesStay DEF LabInv, Attributed
  <2>6. Advanced'
    BY <2>1, <2>2, AdvancedStays DEF LabInv, Advanced
  <2>7. Assessed'
    BY <2>1, <2>2 DEF LabInv, Laid, Assessed, LabGoesOn
  <2>8. Judged'
    BY <2>1, ProbesStay, QualifiedIsProbed DEF LabInv, Judged
  <2>9. Kept'
    BY <2>1, <2>2 DEF LabInv, Kept, OutputFile, RunFile, TraceFile
  <2>10. LabEvidenceIntact'
    BY <2>1, <2>2 DEF LabInv, LabEvidenceIntact, ManifestVerifies
  <2>11. LaunchesPaid'
    BY <2>1, <2>2 DEF LabInv, QualificationBacked, LaunchesPaid
  <2>12. ProbesGrounded'
    BY <2>1, <2>2, ProbesStayGrounded DEF ProbesGrounded
  <2>13. TraceGrounded'
    BY <2>1, <2>2, TraceStaysGrounded
  <2>14. ReadinessBacked'
    BY <2>1, <2>2, ProbesStay DEF LabInv, QualificationBacked, ReadinessBacked
  <2> QED
    BY <2>3, <2>4, <2>5, <2>6, <2>7, <2>8, <2>9, <2>10, <2>11, <2>12, <2>13, <2>14
       DEF LabInv, QualificationBacked
<1> QED
  BY <1>1, <1>2, <1>3, <1>4, <1>5, <1>6, <1>7, <1>8, <1>9, <1>10, <1>11, <1>12, <1>13,
     <1>14, <1>15, <1>16, <1>17, <1>18, <1>19, <1>20 DEF LabNext, LabRun, LabScripts

LEMMA LabInitInv == LabInit => LabInv
<1> SUFFICES ASSUME LabInit PROVE LabInv
  OBVIOUS
<1>1. NotStarted \in LabRecord
  BY LabAssumption DEF NotStarted, LabRecord, Targets, Bounds, LabStages, Unstarted
<1>2. \A r \in LabRuns : lab[r] = NotStarted /\ lab[r].at = "idle" /\ lab[r].ran = 0
  BY DEF LabInit, NotStarted
<1>3. \A p \in probes : p.run = NoLabRun /\ p.image = 1
  BY DEF LabInit
<1>4. \A e \in labManifest : e.path \in DOMAIN labFiles /\ e.content = labFiles[e.path]
  BY DEF LabInit, Entry
<1>5. DOMAIN labFiles = {SourceFile(p) : p \in probes} \cup {RecordFile(p) : p \in probes}
  BY DEF LabInit
<1>6. \A p \in probes : Registered(SourceFile(p))
  <2> TAKE p \in probes
  <2>1. Entry(SourceFile(p), labFiles) \in labManifest
    BY <1>5 DEF LabInit
  <2>2. Entry(SourceFile(p), labFiles).path = SourceFile(p)
    BY DEF Entry
  <2> QED
    BY <2>1, <2>2 DEF Registered
<1>7. Laid
  BY <1>1, <1>3 DEF LabInit, Laid
<1>8. Provided
  BY <1>2, LabAssumption DEF LabInit, Provided
<1>9. Attributed
  BY <1>4, <1>5 DEF Attributed, AttributedEntry, RegisteredByProbe
<1>10. Advanced /\ Kept
  BY <1>2 DEF LabInit, Advanced, AdvancedRun, Kept, Paying, Launched, Answered, Receipted,
     Ingesting
<1>11. Assessed /\ Judged
  BY DEF LabInit, Assessed, Judged
<1>12. LabEvidenceIntact
  BY <1>4 DEF LabEvidenceIntact, ManifestVerifies
<1>13. QualificationBacked
  BY <1>2, <1>3, <1>6
     DEF LabInit, QualificationBacked, LaunchesPaid, ProbesGrounded, TraceGrounded,
         ReadinessBacked
<1> QED
  BY <1>7, <1>8, <1>9, <1>10, <1>11, <1>12, <1>13 DEF LabInv

\* So does a step of something else.
LEMMA LabStutterInv == LabInv /\ UNCHANGED labVars => LabInv'
<1> SUFFICES ASSUME LabInv, UNCHANGED labVars PROVE LabInv'
  OBVIOUS
<1>1. UNCHANGED <<tagged, provenance, building, requestFile, labSpent, lab, labFiles,
                  labManifest, probes, adaptive, readiness>>
  BY DEF labVars
<1>2. Laid' /\ Provided' /\ Assessed' /\ Kept'
  BY <1>1 DEF LabInv, Laid, Provided, Assessed, Kept, OutputFile, RunFile, TraceFile
<1>3. LabGoesOn
  BY <1>1 DEF LabGoesOn
<1>4. Attributed'
  BY <1>1, <1>3, EntriesStay DEF LabInv, Attributed
<1>5. Advanced'
  BY <1>1, <1>3, AdvancedStays DEF LabInv, Advanced
<1>6. Judged'
  BY <1>1, ProbesStay DEF LabInv, Judged
<1>7. LabEvidenceIntact'
  BY <1>1 DEF LabInv, LabEvidenceIntact, ManifestVerifies
<1>8. QualificationBacked'
  <2>1. LaunchesPaid'
    BY <1>1 DEF LabInv, QualificationBacked, LaunchesPaid
  <2>2. ProbesGrounded'
    BY <1>1, <1>3, ProbesStayGrounded DEF ProbesGrounded
  <2>3. TraceGrounded'
    BY <1>1, <1>3, TraceStaysGrounded
  <2>4. ReadinessBacked'
    BY <1>1, ProbesStay DEF LabInv, QualificationBacked, ReadinessBacked
  <2> QED
    BY <2>1, <2>2, <2>3, <2>4 DEF QualificationBacked
<1> QED
  BY <1>2, <1>4, <1>5, <1>6, <1>7, <1>8 DEF LabInv

LEMMA LabInvariance == LabSpec => []LabInv
<1>1. LabInv /\ [LabNext]_labVars => LabInv'
  BY LabStepInv, LabStutterInv
<1> QED
  BY <1>1, LabInitInv, PTL DEF LabSpec

\* However many runs of a runtime overlap, fail or are begun again, and whatever
\* the scripts build and probe meanwhile: what register_evidence put into the
\* manifest still holds what it held, so the evidence manifest verifies.
THEOREM LabEvidenceStays == LabSpec => []LabEvidenceIntact
BY LabInvariance, PTL DEF LabInv

\* A container was launched only for a consumed permit; a probe of a run rests on
\* that payment, on the run's own target and on its registered receipt and output;
\* a trace rests on two runs that ended well under two permits; and a readiness
\* report on a trace and on all probes of one image per runtime.
THEOREM QualificationsBacked == LabSpec => []QualificationBacked
BY LabInvariance, PTL DEF LabInv

=============================================================================
