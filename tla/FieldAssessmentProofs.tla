----------------------- MODULE FieldAssessmentProofs -----------------------
(***************************************************************************)
(* However many wrappers there are, and whichever of them dies, a          *)
(* directory asks its target once when its ledger allows one action.       *)
(***************************************************************************)
EXTENDS FieldAssessment, FiniteSetTheorems, TLAPS

\* Steps at which a wrapper holds a reservation it has not used up.
Holding == {"broker", "permit.issued", "append permit.issued", "observe"}
\* Steps of a session: a directory has been picked.
InSession == Holding \cup {"session.started", "append session.started", "reserve",
                           "evidence.recorded", "append evidence.recorded", "complete",
                           "session.finished", "append session.finished", "classify",
                           "classify failed", "assess", "failed", "thrown"}
Steps == InSession \cup {"idle", "prepare", "pick", "blocked"}
Counter == [reserved : Nat, completed : Nat, errors : Nat]

\* Where the wrappers are, and which directory each works in.
Placed ==
  /\ at \in [Wrappers -> Steps]
  /\ dir \in [Wrappers -> Wrappers \cup {Nowhere}]
  /\ shelf \in Seq(Wrappers)
  /\ \A w \in Wrappers : at[w] = "pick" => shelf # <<>>
  /\ \A w \in Wrappers : at[w] \in InSession => dir[w] \in Wrappers

\* What the directories count.
Counted == budget \in [Wrappers -> Counter] /\ asked \in [Wrappers -> Nat]

Spends(w, d) == dir[w] = d /\ at[w] \in Holding

\* A reservation is held by one wrapper, until the request it stands for.
PaidAt(d) ==
  /\ asked[d] <= budget[d].reserved /\ budget[d].reserved <= 1
  /\ \A w \in Wrappers : Spends(w, d) =>
       /\ asked[d] = 0 /\ budget[d].reserved = 1
       /\ \A v \in Wrappers : Spends(v, d) => v = w
Paid == \A d \in Wrappers : PaidAt(d)

-----------------------------------------------------------------------------
\* The operator leaves ledger, requests and sessions alone, and sends a wrapper
\* that is idle on its way at most.
OperatorStep ==
  \/ \E d \in Wrappers : \/ \E others \in {{}, Shared} : AssessStored(d, others)
                         \/ \E status \in statuses[d] : BindProvenance(d, status)
                         \/ \E w \in Wrappers : ContinueRedirect(w, d)
                         \/ ReadCounters(d)
  \/ SummarizeSession

\* A wrapper that goes one step further within its session, or outside one, keeps
\* everybody's place.
LEMMA Walks ==
  ASSUME Placed, NEW w \in Wrappers, NEW from, NEW to \in Steps \ {"pick"}, Moves(w, from, to),
         to \in InSession => from \in InSession, dir' = dir, shelf' = shelf
  PROVE  Placed'
<1>1. at' = [at EXCEPT ![w] = to] /\ at[w] = from /\ at \in [Wrappers -> Steps]
  BY DEF Moves, Placed
<1>2. at' \in [Wrappers -> Steps] /\ \A v \in Wrappers : at'[v] = IF v = w THEN to ELSE at[v]
  BY <1>1
<1> QED
  BY <1>1, <1>2 DEF Placed

\* A session that is killed leaves its wrapper in its directory.
LEMMA Stops ==
  ASSUME Placed, NEW w \in Wrappers, SessionDies(w)
  PROVE  Placed'
<1>1. /\ Moves(w, at[w], "classify failed")
      /\ at[w] \notin {"prepare", "pick", "idle", "blocked"}
      /\ dir' = dir /\ shelf' = shelf
  BY DEF SessionDies, Moves, Ends, wrapperFiles
<1>2. at[w] \in InSession
  BY <1>1 DEF Placed, Steps
<1> QED
  BY <1>1, <1>2, Walks DEF InSession, Steps

\* What the trace does to the place of a wrapper.
LEMMA Traces ==
  ASSUME Placed, NEW w \in Wrappers,
         ReadTrace(w) \/ \E event \in DOMAIN Resumes : AppendTrace(w, event)
  PROVE  Placed'
<1>1. ASSUME ReadTrace(w) PROVE Placed'
  <2>1. Moves(w, at[w], Appends[at[w]]) /\ at[w] \in DOMAIN Resumes /\ dir' = dir /\ shelf' = shelf
    BY <1>1 DEF ReadTrace, Moves, wrapperFiles
  <2>2. at[w] \in InSession /\ Appends[at[w]] \in InSession
    BY <2>1 DEF Resumes, Appends, InSession, Holding
  <2> QED
    BY <2>1, <2>2, Walks DEF InSession, Holding, Steps
<1>2. ASSUME NEW event \in DOMAIN Resumes, AppendTrace(w, event) PROVE Placed'
  <2>1. Moves(w, Appends[event], Resumes[event]) /\ dir' = dir /\ shelf' = shelf
    BY <1>2 DEF AppendTrace
  <2>2. Appends[event] \in InSession /\ Resumes[event] \in InSession \ {"pick"}
    BY <1>2 DEF Resumes, Appends, InSession, Holding
  <2> QED
    BY <2>1, <2>2, Walks DEF Steps
<1> QED
  BY <1>1, <1>2

\* Every step keeps the wrappers well placed (run-smartfit-bounded-assessment.ps1,
\* run_observation_session_command).
LEMMA PlacedStep == Placed /\ [AssessmentNext]_fieldAssessmentVars => Placed'
<1> SUFFICES ASSUME Placed, [AssessmentNext]_fieldAssessmentVars PROVE Placed'
  OBVIOUS
<1> USE DEF InSession, Holding, Steps
<1>1. ASSUME NEW w \in Wrappers, NEW t \in Roots, StartAssessment(w, t) PROVE Placed'
  BY <1>1, Walks DEF StartAssessment, wrapperFiles
<1>2. ASSUME NEW w \in Wrappers, Prepare(w) PROVE Placed'
  <2>1. CASE Moves(w, "prepare", "pick") /\ shelf' = Append(shelf, w)
    <3>1. shelf' \in Seq(Wrappers) /\ shelf' # <<>>
      <4>1. shelf \in Seq(Wrappers) /\ shelf' = Append(shelf, w)
        BY <2>1 DEF Placed
      <4>2. Len(shelf') = Len(shelf) + 1 /\ Len(shelf) \in Nat
        BY <4>1
      <4> QED
        BY <4>1, <4>2
    <3>4. dir' = dir
      BY <1>2 DEF Prepare, Keeps
    <3>2. \A v \in Wrappers : at'[v] = IF v = w THEN "pick" ELSE at[v]
      BY <2>1 DEF Placed, Moves
    <3>3. at' \in [Wrappers -> Steps]
      BY <2>1 DEF Placed, Moves
    <3> QED
      BY <3>1, <3>2, <3>3, <3>4 DEF Placed
  <2>2. CASE Moves(w, "prepare", "blocked") /\ UNCHANGED shelf
    BY <1>2, <2>2, Walks DEF Prepare, Keeps
  <2> QED
    BY <1>2, <2>1, <2>2 DEF Prepare
<1>3. ASSUME NEW w \in Wrappers, PickPreparation(w) PROVE Placed'
  <2>1. shelf # <<>> /\ shelf \in Seq(Wrappers) /\ shelf' = shelf
    BY <1>3 DEF PickPreparation, Moves, Placed, wrapperFiles
  <2>2. NewestPreparation \in Wrappers
    BY <2>1 DEF NewestPreparation
  <2>3. /\ dir' \in [Wrappers -> Wrappers \cup {Nowhere}]
        /\ \A v \in Wrappers : dir'[v] = IF v = w THEN NewestPreparation ELSE dir[v]
    BY <1>3, <2>2 DEF PickPreparation, Placed
  <2>4. /\ at' \in [Wrappers -> Steps]
        /\ \A v \in Wrappers : at'[v] = IF v = w THEN "session.started" ELSE at[v]
    BY <1>3 DEF PickPreparation, Moves, Placed
  <2> QED
    BY <2>1, <2>2, <2>3, <2>4 DEF Placed
<1>4. ASSUME NEW w \in Wrappers,
             ReadTrace(w) \/ \E event \in DOMAIN Resumes : AppendTrace(w, event)
      PROVE  Placed'
  BY <1>4, Traces
<1>5. ASSUME NEW w \in Wrappers, Reserve(w) PROVE Placed'
  BY <1>5, Walks DEF Reserve, Keeps
<1>6. ASSUME NEW w \in Wrappers, BrokerPermit(w) PROVE Placed'
  BY <1>6, Walks DEF BrokerPermit, Keeps
<1>7. ASSUME NEW w \in Wrappers, Observe(w) PROVE Placed'
  <2>1. \E to \in {"evidence.recorded", "session.finished"} : Moves(w, "observe", to)
    BY <1>7 DEF Observe
  <2>2. dir' = dir /\ shelf' = shelf
    BY <1>7 DEF Observe, Keeps
  <2> QED
    BY <2>1, <2>2, Walks
<1>8. ASSUME NEW w \in Wrappers, CompleteAction(w) PROVE Placed'
  BY <1>8, Walks DEF CompleteAction, Keeps
<1>9. ASSUME NEW w \in Wrappers, NEW from \in {"classify", "classify failed"}, Classify(w, from)
      PROVE  Placed'
  <2>1. \E to \in {"assess", "failed"} : Moves(w, from, to)
    BY <1>9 DEF Classify
  <2> QED
    BY <1>9, <2>1, Walks DEF Classify, Keeps
<1>10. ASSUME NEW w \in Wrappers, WrapperAssesses(w) PROVE Placed'
  BY <1>10, Walks DEF WrapperAssesses, Keeps, wrapperFiles
<1>11. ASSUME NEW w \in Wrappers, SessionDies(w) PROVE Placed'
  BY <1>11, Stops
<1>12. ASSUME NEW w \in Wrappers, NEW d \in Wrappers, ContinueRedirect(w, d) PROVE Placed'
  <2>1. Moves(w, "idle", "prepare") /\ dir' = dir /\ shelf' = shelf
    BY <1>12 DEF ContinueRedirect, wrapperFiles
  <2> QED
    BY <2>1, Walks
<1>13. CASE at' = at /\ dir' = dir /\ shelf' = shelf
  BY <1>13 DEF Placed
<1>14. OperatorStep => \/ at' = at /\ dir' = dir /\ shelf' = shelf
                       \/ \E w, d \in Wrappers : ContinueRedirect(w, d)
  BY DEF OperatorStep, AssessStored, BindProvenance, ReadCounters, SummarizeSession, wrapperFiles
<1>15. UNCHANGED fieldAssessmentVars => at' = at /\ dir' = dir /\ shelf' = shelf
  BY DEF fieldAssessmentVars
<1>16. AssessmentNext => (\E w \in Wrappers : WrapperStep(w)) \/ OperatorStep
  BY DEF AssessmentNext, OperatorStep
<1> QED
  BY <1>1, <1>2, <1>3, <1>4, <1>5, <1>6, <1>7, <1>8, <1>9, <1>10, <1>11, <1>12, <1>13, <1>14,
     <1>15, <1>16 DEF WrapperStep
-----------------------------------------------------------------------------
\* A counter to which another field is added keeps what it reserved.
Kept(b) == b \in [Wrappers -> Counter] /\ \A e \in Wrappers : b[e].reserved = budget[e].reserved

LEMMA CompletesCount ==
  ASSUME Counted, NEW d \in Wrappers
  PROVE  Kept([budget EXCEPT ![d].completed = @ + 1])
<1> DEFINE c == [budget[d] EXCEPT !.completed = @ + 1]
<1>1. budget[d] \in Counter /\ budget \in [Wrappers -> Counter]
  BY DEF Counted
<1>2. c \in Counter /\ c.reserved = budget[d].reserved
  BY <1>1 DEF Counter
<1>3. Kept([budget EXCEPT ![d] = c])
  BY <1>1, <1>2 DEF Kept
<1> QED
  BY <1>3

LEMMA FailsCount ==
  ASSUME Counted, NEW d \in Wrappers
  PROVE  Kept([budget EXCEPT ![d].completed = @ + 1, ![d].errors = @ + 1])
<1> DEFINE c == [budget[d] EXCEPT !.completed = @ + 1]
           f == [budget EXCEPT ![d] = c]
           g == [c EXCEPT !.errors = @ + 1]
<1>1. budget[d] \in Counter /\ budget \in [Wrappers -> Counter]
  BY DEF Counted
<1>2. c \in Counter /\ c.reserved = budget[d].reserved
  BY <1>1 DEF Counter
<1>7. \A k \in Counter : LET e == [k EXCEPT !.errors = @ + 1]
                         IN e \in Counter /\ e.reserved = k.reserved
  BY DEF Counter
<1>3. g \in Counter /\ g.reserved = budget[d].reserved
  BY <1>2, <1>7
<1>4. f[d] = c /\ f \in [Wrappers -> Counter]
  BY <1>1, <1>2
<1>5. Kept([f EXCEPT ![d] = g])
  BY <1>1, <1>2, <1>3, <1>4 DEF Kept
<1>6. c.errors = budget[d].errors
  BY <1>1 DEF Counter
<1> QED
  BY <1>4, <1>5, <1>6

LEMMA ReservesCount ==
  ASSUME Counted, NEW d \in Wrappers
  PROVE  LET b == [budget EXCEPT ![d].reserved = @ + 1]
         IN /\ b \in [Wrappers -> Counter] /\ b[d].reserved = budget[d].reserved + 1
            /\ \A e \in Wrappers \ {d} : b[e] = budget[e]
<1> DEFINE c == [budget[d] EXCEPT !.reserved = @ + 1]
<1>1. budget[d] \in Counter /\ budget \in [Wrappers -> Counter]
  BY DEF Counted
<1>2. c \in Counter /\ c.reserved = budget[d].reserved + 1
  BY <1>1 DEF Counter
<1>3. /\ [budget EXCEPT ![d] = c] \in [Wrappers -> Counter]
      /\ [budget EXCEPT ![d] = c][d] = c
      /\ \A e \in Wrappers \ {d} : [budget EXCEPT ![d] = c][e] = budget[e]
  BY <1>1, <1>2
<1> QED
  BY <1>2, <1>3

\* Whoever holds a reservation after a step that asks and reserves nothing held it
\* before, in the same directory.
LEMMA Rests ==
  ASSUME Counted, Paid,
         \A v \in Wrappers : at'[v] \in Holding => at[v] \in Holding /\ dir'[v] = dir[v],
         \A d \in Wrappers : asked'[d] = asked[d] /\ budget'[d].reserved = budget[d].reserved
  PROVE  Paid'
<1>1. \A v, d \in Wrappers : Spends(v, d)' => Spends(v, d)
  BY DEF Spends
<1> QED
  BY <1>1 DEF Paid, PaidAt

\* A wrapper that takes a step up to which it holds no reservation, or held one before.
LEMMA GoesOn ==
  ASSUME Placed, Counted, Paid, NEW w \in Wrappers, NEW from, NEW to, Moves(w, from, to),
         to \in Holding => from \in Holding, dir' = dir, asked' = asked,
         \A d \in Wrappers : budget'[d].reserved = budget[d].reserved
  PROVE  Paid'
<1>1. \A v \in Wrappers : at'[v] \in Holding => at[v] \in Holding
  BY DEF Moves, Placed
<1> QED
  BY <1>1, Rests

\* The reservation: nobody held one in this directory, whose ledger had none.
LEMMA ReserveOnce ==
  ASSUME MaxActions = 1, Placed, Counted, Paid, NEW w \in Wrappers, Reserve(w)
  PROVE  Counted' /\ Paid'
<1>1. dir[w] \in Wrappers /\ dir' = dir /\ asked' = asked
  BY DEF Reserve, Moves, Placed, InSession, Keeps
<1>2. CASE Moves(w, "reserve", "session.finished") /\ UNCHANGED budget
  BY <1>1, <1>2, GoesOn DEF Holding, Counted
<1>3. CASE /\ Moves(w, "reserve", "broker")
           /\ budget[dir[w]].reserved < MaxActions
           /\ budget' = [budget EXCEPT ![dir[w]].reserved = @ + 1]
  <2>1. /\ budget' \in [Wrappers -> Counter]
        /\ \A d \in Wrappers : budget'[d].reserved = IF d = dir[w] THEN budget[dir[w]].reserved + 1
                                                                   ELSE budget[d].reserved
    BY <1>1, <1>3, ReservesCount
  <2>2. budget[dir[w]].reserved = 0 /\ asked[dir[w]] = 0
    <3>1. /\ budget[dir[w]].reserved \in Nat /\ asked[dir[w]] \in Nat
          /\ asked[dir[w]] <= budget[dir[w]].reserved
      BY <1>1 DEF Counted, Counter, Paid, PaidAt
    <3> QED
      BY <1>3, <3>1
  <2>3. \A v \in Wrappers : at'[v] = IF v = w THEN "broker" ELSE at[v]
    BY <1>3 DEF Moves, Placed
  <2>4. at[w] = "reserve"
    BY <1>3 DEF Moves
  <2>5. \A v \in Wrappers : ~Spends(v, dir[w])
    BY <1>1, <2>2 DEF Paid, PaidAt
  <2>6. \A v, d \in Wrappers : Spends(v, d)' => Spends(v, d) \/ (v = w /\ d = dir[w])
    BY <1>1, <2>3 DEF Spends
  <2>7. ASSUME NEW d \in Wrappers, d # dir[w] PROVE PaidAt(d)'
    BY <1>1, <2>1, <2>6, <2>7 DEF Paid, PaidAt
  <2>8. PaidAt(dir[w])'
    BY <1>1, <2>1, <2>2, <2>5, <2>6 DEF PaidAt
  <2>9. Paid'
    BY <1>1, <2>7, <2>8 DEF Paid
  <2> QED
    BY <1>1, <2>1, <2>9 DEF Counted
<1> QED
  BY <1>2, <1>3 DEF Reserve

\* The request: its reservation is this wrapper's, and used up by it.
LEMMA ObserveOnce ==
  ASSUME Placed, Counted, Paid, NEW w \in Wrappers, Observe(w)
  PROVE  Counted' /\ Paid'
<1>1. dir[w] \in Wrappers /\ dir' = dir /\ Spends(w, dir[w])
  BY DEF Observe, Moves, Placed, InSession, Holding, Keeps, Spends
<1>2. /\ budget' \in [Wrappers -> Counter]
      /\ \A d \in Wrappers : budget'[d].reserved = budget[d].reserved
  <2>1. UNCHANGED budget \/ ActionFails(w)
    BY DEF Observe
  <2>2. Kept([budget EXCEPT ![dir[w]].completed = @ + 1, ![dir[w]].errors = @ + 1])
    BY <1>1, FailsCount
  <2>3. ActionFails(w) => Kept(budget')
    BY <2>2 DEF ActionFails
  <2> QED
    BY <2>1, <2>3 DEF Counted, Kept
<1>3. asked' = asked \/ asked' = [asked EXCEPT ![dir[w]] = @ + 1]
  BY DEF Observe
<1>4. /\ asked' \in [Wrappers -> Nat]
      /\ \A d \in Wrappers : (asked'[d] = asked[d] \/ (d = dir[w] /\ asked'[d] = asked[d] + 1))
  BY <1>1, <1>3 DEF Counted
<1>5. \A v \in Wrappers : at'[v] \in Holding => v # w /\ at'[v] = at[v]
  <2>1. \E to \in {"evidence.recorded", "session.finished"} : Moves(w, "observe", to)
    BY DEF Observe
  <2> QED
    BY <2>1 DEF Moves, Placed, Holding
<1>6. \A v, d \in Wrappers : Spends(v, d)' => Spends(v, d) /\ v # w
  BY <1>1, <1>5 DEF Spends
<1>7. asked[dir[w]] = 0 /\ budget[dir[w]].reserved = 1 /\ \A v \in Wrappers : ~Spends(v, dir[w])'
  BY <1>1, <1>6 DEF Paid, PaidAt
<1>8. ASSUME NEW d \in Wrappers, d # dir[w] PROVE PaidAt(d)'
  BY <1>2, <1>4, <1>6, <1>8 DEF Paid, PaidAt
<1>9. PaidAt(dir[w])'
  BY <1>1, <1>2, <1>4, <1>7 DEF PaidAt
<1>10. Paid'
  BY <1>1, <1>8, <1>9 DEF Paid
<1> QED
  BY <1>2, <1>4, <1>10 DEF Counted

\* While the ledger allows one action, every step keeps each reservation with one
\* wrapper (session_ledger.reserve_action).
LEMMA PaidStep ==
  ASSUME MaxActions = 1, Placed, Counted, Paid, [AssessmentNext]_fieldAssessmentVars
  PROVE  Counted' /\ Paid'
<1>1. ASSUME NEW w \in Wrappers, Reserve(w) PROVE Counted' /\ Paid'
  BY <1>1, ReserveOnce
<1>2. ASSUME NEW w \in Wrappers, Observe(w) PROVE Counted' /\ Paid'
  BY <1>2, ObserveOnce
<1>3. ASSUME NEW w \in Wrappers, BrokerPermit(w) PROVE Counted' /\ Paid'
  <2>1. dir[w] \in Wrappers /\ dir' = dir /\ asked' = asked
    BY <1>3 DEF BrokerPermit, Moves, Placed, InSession, Holding, Keeps
  <2>2. /\ \E to \in {"permit.issued", "session.finished"} : Moves(w, "broker", to)
        /\ UNCHANGED budget \/ ActionFails(w)
    BY <1>3 DEF BrokerPermit
  <2>3. /\ budget' \in [Wrappers -> Counter]
        /\ \A d \in Wrappers : budget'[d].reserved = budget[d].reserved
    <3>1. Kept([budget EXCEPT ![dir[w]].completed = @ + 1, ![dir[w]].errors = @ + 1])
      BY <2>1, FailsCount
    <3>2. ActionFails(w) => Kept(budget')
      BY <3>1 DEF ActionFails
    <3> QED
      BY <2>2, <3>2 DEF Counted, Kept
  <2> QED
    BY <2>1, <2>2, <2>3, GoesOn DEF Holding, Counted
<1>4. ASSUME NEW w \in Wrappers, CompleteAction(w) PROVE Counted' /\ Paid'
  <2>1. /\ dir[w] \in Wrappers /\ dir' = dir /\ asked' = asked
        /\ Moves(w, "complete", "session.finished")
    BY <1>4 DEF CompleteAction, Moves, Placed, InSession, Keeps
  <2>2. /\ budget' \in [Wrappers -> Counter]
        /\ \A d \in Wrappers : budget'[d].reserved = budget[d].reserved
    BY <1>4, <2>1, CompletesCount DEF CompleteAction, Kept
  <2> QED
    BY <2>1, <2>2, GoesOn DEF Holding, Counted
<1>5. ASSUME UNCHANGED <<budget, asked>>,
             \A v \in Wrappers : at'[v] \in Holding => at[v] \in Holding /\ dir'[v] = dir[v]
      PROVE  Counted' /\ Paid'
  BY <1>5, Rests DEF Counted
<1>6. ASSUME NEW w \in Wrappers, NEW from, NEW to, Moves(w, from, to),
             to \in Holding => from \in Holding, UNCHANGED <<budget, asked, dir>>
      PROVE  Counted' /\ Paid'
  <2>1. \A v \in Wrappers : at'[v] \in Holding => at[v] \in Holding
    BY <1>6 DEF Moves, Placed
  <2> QED
    BY <1>5, <1>6, <2>1
<1>7. ASSUME NEW w \in Wrappers, NEW t \in Roots, StartAssessment(w, t) PROVE Counted' /\ Paid'
  <2>1. Moves(w, "idle", "prepare") /\ UNCHANGED <<budget, asked, dir>>
    BY <1>7 DEF StartAssessment, wrapperFiles
  <2> QED
    BY <1>6, <2>1 DEF Holding
<1>8. ASSUME NEW w \in Wrappers, Prepare(w) PROVE Counted' /\ Paid'
  <2>1. /\ \E to \in {"pick", "blocked"} : Moves(w, "prepare", to)
        /\ UNCHANGED <<budget, asked, dir>>
    BY <1>8 DEF Prepare, Keeps
  <2> QED
    BY <1>6, <2>1 DEF Holding
<1>9. ASSUME NEW w \in Wrappers, PickPreparation(w) PROVE Counted' /\ Paid'
  <2>1. /\ at' = [at EXCEPT ![w] = "session.started"]
        /\ dir' = [dir EXCEPT ![w] = NewestPreparation]
        /\ UNCHANGED <<budget, asked>>
    BY <1>9 DEF PickPreparation, Moves, wrapperFiles
  <2>2. \A v \in Wrappers : at'[v] \in Holding => at[v] \in Holding /\ dir'[v] = dir[v]
    BY <2>1 DEF Placed, Holding
  <2> QED
    BY <1>5, <2>1, <2>2
<1>10. ASSUME NEW w \in Wrappers, ReadTrace(w) PROVE Counted' /\ Paid'
  <2>1. Moves(w, at[w], Appends[at[w]]) /\ at[w] \in DOMAIN Resumes /\ UNCHANGED <<budget, asked, dir>>
    BY <1>10 DEF ReadTrace, Moves, wrapperFiles
  <2>2. Appends[at[w]] \in Holding => at[w] \in Holding
    BY <2>1 DEF Resumes, Appends, Holding
  <2> QED
    BY <1>6, <2>1, <2>2
<1>11. ASSUME NEW w \in Wrappers, NEW event \in DOMAIN Resumes, AppendTrace(w, event)
       PROVE  Counted' /\ Paid'
  <2>1. Moves(w, Appends[event], Resumes[event]) /\ UNCHANGED <<budget, asked, dir>>
    BY <1>11 DEF AppendTrace
  <2>2. Resumes[event] \in Holding => Appends[event] \in Holding
    BY <1>11 DEF Resumes, Appends, Holding
  <2> QED
    BY <1>6, <2>1, <2>2
<1>12. ASSUME NEW w \in Wrappers, NEW from \in {"classify", "classify failed"}, Classify(w, from)
       PROVE  Counted' /\ Paid'
  <2>1. /\ \E to \in {"assess", "failed"} : Moves(w, from, to)
        /\ UNCHANGED <<budget, asked, dir>>
    BY <1>12 DEF Classify, Keeps
  <2> QED
    BY <1>6, <2>1 DEF Holding
<1>13. ASSUME NEW w \in Wrappers, WrapperAssesses(w) \/ SessionDies(w) PROVE Counted' /\ Paid'
  <2>1. /\ \E from, to \in {at[w], "thrown", "classify failed"} :
             Moves(w, from, to) /\ to \in {"thrown", "classify failed"}
        /\ UNCHANGED <<budget, asked, dir>>
    BY <1>13 DEF WrapperAssesses, SessionDies, Moves, Keeps, wrapperFiles
  <2> QED
    BY <1>6, <2>1 DEF Holding
<1>14. ASSUME NEW w \in Wrappers, NEW d \in Wrappers, ContinueRedirect(w, d)
       PROVE  Counted' /\ Paid'
  <2>1. Moves(w, "idle", "prepare") /\ UNCHANGED <<budget, asked, dir>>
    BY <1>14 DEF ContinueRedirect, wrapperFiles
  <2> QED
    BY <1>6, <2>1 DEF Holding
<1>15. ASSUME UNCHANGED <<at, dir, budget, asked>> PROVE Counted' /\ Paid'
  BY <1>5, <1>15
<1>16. OperatorStep => \/ UNCHANGED <<at, dir, budget, asked>>
                       \/ \E w, d \in Wrappers : ContinueRedirect(w, d)
  BY DEF OperatorStep, AssessStored, BindProvenance, ReadCounters, SummarizeSession, wrapperFiles
<1>17. UNCHANGED fieldAssessmentVars => UNCHANGED <<at, dir, budget, asked>>
  BY DEF fieldAssessmentVars
<1>18. AssessmentNext => (\E w \in Wrappers : WrapperStep(w)) \/ OperatorStep
  BY DEF AssessmentNext, OperatorStep
<1> QED
  BY <1>1, <1>2, <1>3, <1>4, <1>7, <1>8, <1>9, <1>10, <1>11, <1>12, <1>13, <1>14, <1>15, <1>16,
     <1>17, <1>18 DEF WrapperStep

\* Of a ledger that allows one action, at most one request leaves for each
\* directory, for any wrappers, targets, answers and deaths.
THEOREM AsksOnce == MaxActions = 1 => (AssessmentSpec => []OneRequest)
<1> SUFFICES ASSUME MaxActions = 1 PROVE AssessmentSpec => []OneRequest
  OBVIOUS
<1>1. AssessmentInit => Placed /\ Counted /\ Paid
  BY DEF AssessmentInit, Placed, Steps, InSession, Holding, Counted, Counter, Paid, PaidAt, Spends
<1>2. Placed /\ Counted /\ Paid /\ [AssessmentNext]_fieldAssessmentVars
        => Placed' /\ Counted' /\ Paid'
  BY PlacedStep, PaidStep
<1>3. Counted /\ Paid => OneRequest
  BY DEF Counted, Counter, Paid, PaidAt, OneRequest
<1> QED
  BY <1>1, <1>2, <1>3, PTL DEF AssessmentSpec
-----------------------------------------------------------------------------
(***************************************************************************)
(* What a report says of a session, for any number of actions and wrappers *)
(* in its directory.                                                       *)
(***************************************************************************)
Line == [event : DOMAIN Resumes, sequence : Nat]
Occupied(d, steps) == {w \in Wrappers : dir[w] = d /\ at[w] \in steps}

\* A wrapper that has recorded its evidence and not counted it yet; one that has
\* announced its permit and not recorded what it was for.
Finishing == {"complete"}
Requesting == {"observe", "evidence.recorded", "append evidence.recorded"}

Tallied ==
  /\ budget \in [Wrappers -> Counter]
  /\ trace \in [Wrappers -> Seq(Line)] /\ tail \in [Wrappers -> Nat]

\* The ledger counts what the trace has, and the trace what it announced before.
BalancedAt(d) ==
  /\ budget[d].completed + Cardinality(Occupied(d, Finishing))
       <= Events(d, "evidence.recorded") + budget[d].errors
  /\ Events(d, "evidence.recorded") + Cardinality(Occupied(d, Requesting))
       <= Events(d, "permit.issued")
Balanced == \A d \in Wrappers : BalancedAt(d)

\* Counters once read stay covered: the trace only grows.
Covered ==
  /\ summary.step = "counters" =>
       /\ summary.dir \in Wrappers
       /\ summary.counters.completed \in Nat /\ summary.counters.errors \in Nat
       /\ summary.counters.completed
            <= Events(summary.dir, "evidence.recorded") + summary.counters.errors
  /\ SummaryOrdered

LEMMA OccupiedFinite ==
  ASSUME NEW d, NEW steps
  PROVE  IsFiniteSet(Occupied(d, steps)) /\ Cardinality(Occupied(d, steps)) \in Nat
<1>1. Occupied(d, steps) \in SUBSET Wrappers
  BY DEF Occupied
<1>2. IsFiniteSet(Occupied(d, steps))
  BY <1>1, AnswerAssumption, FS_Subset
<1> QED
  BY <1>2, FS_CardinalityType

\* What the step of one wrapper does to the number of those at some steps of a session.
LEMMA Occupies ==
  ASSUME Placed, NEW w \in Wrappers, NEW from, NEW to, Moves(w, from, to), dir' = dir,
         NEW d \in Wrappers, NEW steps
  PROVE  LET n == Cardinality(Occupied(d, steps))
         IN /\ n \in Nat /\ n' \in Nat /\ n' <= n + 1
            /\ (dir[w] = d /\ to \in steps => from \in steps) => n' <= n
            /\ dir[w] = d /\ from \in steps /\ to \notin steps => n' + 1 <= n
<1> DEFINE S == Occupied(d, steps)
           T == {v \in Wrappers : dir[v] = d /\ at'[v] \in steps}
<1>1. S' = T
  BY DEF Occupied
<1>2. IsFiniteSet(S) /\ Cardinality(S) \in Nat
  BY OccupiedFinite
<1>3. T \in SUBSET (S \cup {w}) /\ (w \in S <=> dir[w] = d /\ from \in steps)
      /\ (w \in T <=> dir[w] = d /\ to \in steps)
  BY DEF Moves, Placed, Occupied
<1> HIDE DEF S, T
<1>4. /\ IsFiniteSet(S \cup {w})
      /\ Cardinality(S \cup {w}) = IF w \in S THEN Cardinality(S) ELSE Cardinality(S) + 1
  BY <1>2, FS_AddElement
<1>5. /\ IsFiniteSet(S \ {w})
      /\ Cardinality(S \ {w}) = IF w \in S THEN Cardinality(S) - 1 ELSE Cardinality(S)
  BY <1>2, FS_RemoveElement
<1>6. IsFiniteSet(T) /\ Cardinality(T) <= Cardinality(S \cup {w})
  BY <1>3, <1>4, FS_Subset
<1>7. Cardinality(T) \in Nat
  BY <1>6, FS_CardinalityType
<1>8. ASSUME w \in T => w \in S PROVE Cardinality(T) <= Cardinality(S)
  <2>1. T \in SUBSET S
    BY <1>3, <1>8
  <2> QED
    BY <1>2, <2>1, FS_Subset
<1>9. ASSUME w \in S, w \notin T PROVE Cardinality(T) + 1 <= Cardinality(S)
  <2>1. T \in SUBSET (S \ {w})
    BY <1>3, <1>9
  <2>2. Cardinality(T) <= Cardinality(S \ {w})
    BY <1>5, <2>1, FS_Subset
  <2> QED
    BY <1>2, <1>5, <1>7, <1>9, <2>2
<1>10. Cardinality(T) <= Cardinality(S) + 1
  BY <1>2, <1>4, <1>6, <1>7
<1> QED
  BY <1>1, <1>2, <1>3, <1>7, <1>8, <1>9, <1>10 DEF S

\* A line more in a file is one event more, of its kind.
LEMMA OneLineMore ==
  ASSUME NEW lines \in Seq(Line), NEW line \in Line, NEW event
  PROVE  LET Count(l) == Cardinality({i \in DOMAIN l : l[i].event = event})
         IN /\ Count(lines) \in Nat
            /\ Count(Append(lines, line)) = IF line.event = event THEN Count(lines) + 1
                                                                 ELSE Count(lines)
<1> DEFINE more == Append(lines, line)
           S == {i \in DOMAIN lines : lines[i].event = event}
           T == {i \in DOMAIN more : more[i].event = event}
           n == Len(lines)
<1>1. /\ n \in Nat /\ DOMAIN lines = 1..n /\ DOMAIN more = 1..(n + 1)
      /\ \A i \in 1..n : more[i] = lines[i]
      /\ more[n + 1] = line
  OBVIOUS
<1>2. S \in SUBSET (1..n) /\ IsFiniteSet(1..n)
  BY <1>1, FS_Interval
<1>3. IsFiniteSet(S) /\ Cardinality(S) \in Nat
  BY <1>2, FS_Subset, FS_CardinalityType
<1>4. T = IF line.event = event THEN S \cup {n + 1} ELSE S
  BY <1>1
<1>5. n + 1 \notin S
  BY <1>1, <1>2
<1> HIDE DEF S, T, n
<1>6. Cardinality(S \cup {n + 1}) = Cardinality(S) + 1
  BY <1>3, <1>5, FS_AddElement
<1>7. Cardinality(S) \in Nat /\ Cardinality(T) = IF line.event = event THEN Cardinality(S) + 1
                                                                      ELSE Cardinality(S)
  BY <1>3, <1>4, <1>6
<1> QED
  BY <1>7 DEF S, T

LEMMA EventsCounted ==
  ASSUME Tallied, NEW d \in Wrappers, NEW event
  PROVE  Events(d, event) \in Nat
<1>1. trace[d] \in Seq(Line)
  BY DEF Tallied
<1>2. [event |-> "session.started", sequence |-> 0] \in Line
  BY DEF Line, Resumes
<1> QED
  BY <1>1, <1>2, OneLineMore DEF Events
-----------------------------------------------------------------------------
\* The fields of a counter after another action ended, with or without an error.
Ended(b, d, e) ==
  /\ b \in [Wrappers -> Counter]
  /\ \A x \in Wrappers \ {d} : b[x] = budget[x]
  /\ b[d].completed = budget[d].completed + 1 /\ b[d].errors = budget[d].errors + e

LEMMA Completes ==
  ASSUME budget \in [Wrappers -> Counter], NEW d \in Wrappers
  PROVE  Ended([budget EXCEPT ![d].completed = @ + 1], d, 0)
<1> DEFINE c == [budget[d] EXCEPT !.completed = @ + 1]
<1>1. /\ c \in Counter /\ c.errors = budget[d].errors /\ budget[d].errors \in Nat
      /\ c.completed = budget[d].completed + 1
  BY DEF Counter
<1>2. Ended([budget EXCEPT ![d] = c], d, 0)
  BY <1>1 DEF Ended
<1> QED
  BY <1>2

LEMMA Fails ==
  ASSUME budget \in [Wrappers -> Counter], NEW d \in Wrappers
  PROVE  Ended([budget EXCEPT ![d].completed = @ + 1, ![d].errors = @ + 1], d, 1)
<1> DEFINE c == [budget[d] EXCEPT !.completed = @ + 1]
           f == [budget EXCEPT ![d] = c]
           g == [c EXCEPT !.errors = @ + 1]
<1>1. c \in Counter /\ c.completed = budget[d].completed + 1 /\ c.errors = budget[d].errors
  BY DEF Counter
<1>2. \A k \in Counter : LET e == [k EXCEPT !.errors = @ + 1]
                         IN e \in Counter /\ e.completed = k.completed /\ e.errors = k.errors + 1
  BY DEF Counter
<1>3. g \in Counter /\ g.completed = budget[d].completed + 1 /\ g.errors = budget[d].errors + 1
  BY <1>1, <1>2
<1>4. f[d] = c /\ f \in [Wrappers -> Counter] /\ \A x \in Wrappers \ {d} : f[x] = budget[x]
  BY <1>1
<1>5. Ended([f EXCEPT ![d] = g], d, 1)
  BY <1>3, <1>4 DEF Ended
<1> QED
  BY <1>1, <1>4, <1>5

\* A step after which nobody requests or finishes who did not before, and that counts
\* at most an error.
LEMMA Unannounced ==
  ASSUME Placed, Tallied, Balanced, NEW w \in Wrappers, NEW from, NEW to, Moves(w, from, to),
         dir' = dir, to \notin Finishing,
         to \in Requesting => from \in Requesting, trace' = trace, tail' \in [Wrappers -> Nat],
         UNCHANGED budget \/ \E d \in Wrappers : Ended(budget', d, 1)
  PROVE  Tallied' /\ Balanced'
<1>1. ASSUME NEW d \in Wrappers
      PROVE  /\ budget[d].completed \in Nat /\ budget[d].errors \in Nat
             /\ \/ budget'[d].completed = budget[d].completed /\ budget'[d].errors = budget[d].errors
                \/ /\ budget'[d].completed = budget[d].completed + 1
                   /\ budget'[d].errors = budget[d].errors + 1
  BY DEF Tallied, Counter, Ended
<1>2. ASSUME NEW d \in Wrappers PROVE BalancedAt(d)'
  <2>1. LET n == Cardinality(Occupied(d, Finishing)) IN n \in Nat /\ n' \in Nat /\ n' <= n
    BY Occupies
  <2>2. LET n == Cardinality(Occupied(d, Requesting)) IN n \in Nat /\ n' \in Nat /\ n' <= n
    BY Occupies
  <2>3. \A event : Events(d, event)' = Events(d, event) /\ Events(d, event) \in Nat
    BY EventsCounted DEF Events
  <2>4. BalancedAt(d)
    BY DEF Balanced
  <2> QED
    BY <1>1, <2>1, <2>2, <2>3, <2>4 DEF BalancedAt
<1>3. Tallied'
  BY DEF Tallied, Ended
<1> QED
  BY <1>2, <1>3 DEF Balanced

LEMMA Finishes ==
  ASSUME Placed, Tallied, Balanced, NEW w \in Wrappers, CompleteAction(w)
  PROVE  Tallied' /\ Balanced'
<1>1. /\ dir[w] \in Wrappers /\ dir' = dir /\ trace' = trace /\ tail' = tail
      /\ Moves(w, "complete", "session.finished")
      /\ budget' = [budget EXCEPT ![dir[w]].completed = @ + 1]
  BY DEF CompleteAction, Moves, Placed, InSession, Keeps
<1>2. Ended(budget', dir[w], 0)
  BY <1>1, Completes DEF Tallied
<1>3. ASSUME NEW d \in Wrappers PROVE BalancedAt(d)'
  <2>0. "complete" \in Finishing /\ "session.finished" \notin Finishing \cup Requesting
    BY DEF Finishing, Requesting
  <2>1. LET n == Cardinality(Occupied(d, Finishing))
        IN n \in Nat /\ n' \in Nat /\ n' <= n /\ (dir[w] = d => n' + 1 <= n)
    BY <1>1, <2>0, Occupies
  <2>2. LET n == Cardinality(Occupied(d, Requesting)) IN n \in Nat /\ n' \in Nat /\ n' <= n
    BY <1>1, <2>0, Occupies
  <2>3. \A event : Events(d, event)' = Events(d, event) /\ Events(d, event) \in Nat
    BY <1>1, EventsCounted DEF Events
  <2>4. /\ budget[d].completed \in Nat /\ budget[d].errors \in Nat
        /\ budget'[d].errors = budget[d].errors
        /\ budget'[d].completed = IF d = dir[w] THEN budget[d].completed + 1
                                                ELSE budget[d].completed
    <3>1. budget[d].completed \in Nat /\ budget[d].errors \in Nat
      BY DEF Tallied, Counter
    <3>2. CASE d = dir[w]
      BY <1>2, <3>1, <3>2 DEF Ended
    <3>3. CASE d # dir[w]
      BY <1>2, <3>1, <3>3 DEF Ended
    <3> QED
      BY <3>2, <3>3
  <2>5. BalancedAt(d)
    BY DEF Balanced
  <2> QED
    BY <2>1, <2>2, <2>3, <2>4, <2>5 DEF BalancedAt
<1>4. Tallied'
  BY <1>1, <1>2 DEF Tallied, Ended
<1> QED
  BY <1>3, <1>4 DEF Balanced

\* An event of the trace: counted once, for the directory it is written to.
LEMMA Announces ==
  ASSUME Placed, Tallied, NEW w \in Wrappers, NEW event \in DOMAIN Resumes, AppendTrace(w, event)
  PROVE  /\ dir[w] \in Wrappers /\ Tallied'
         /\ \A d \in Wrappers : \A e :
              Events(d, e)' = IF d = dir[w] /\ e = event THEN Events(d, e) + 1 ELSE Events(d, e)
<1>1. dir[w] \in Wrappers
  BY DEF AppendTrace, Moves, Placed, InSession, Holding, Resumes, Appends
<1> DEFINE line == [event |-> event, sequence |-> tail[w] + 1]
<1>2. line \in Line /\ line.event = event
  BY DEF Line, Tallied
<1>3. trace' = [trace EXCEPT ![dir[w]] = Append(@, line)] /\ trace[dir[w]] \in Seq(Line)
  BY <1>1 DEF AppendTrace, Tallied
<1> HIDE DEF line
<1>4. Append(trace[dir[w]], line) \in Seq(Line)
  BY <1>2, <1>3
<1>5. /\ trace' \in [Wrappers -> Seq(Line)]
      /\ trace'[dir[w]] = Append(trace[dir[w]], line)
      /\ \A d \in Wrappers \ {dir[w]} : trace'[d] = trace[d]
  BY <1>1, <1>3, <1>4 DEF Tallied
<1>6. Tallied'
  BY <1>5 DEF Tallied, AppendTrace
<1>7. ASSUME NEW d \in Wrappers, NEW e
      PROVE  Events(d, e)' = IF d = dir[w] /\ e = event THEN Events(d, e) + 1 ELSE Events(d, e)
  <2>1. CASE d = dir[w]
    <3>1. trace'[d] = Append(trace[d], line) /\ trace[d] \in Seq(Line)
      BY <1>3, <1>5, <2>1
    <3> DEFINE Count(l) == Cardinality({i \in DOMAIN l : l[i].event = e})
    <3>2. Count(Append(trace[d], line)) = IF line.event = e THEN Count(trace[d]) + 1
                                                            ELSE Count(trace[d])
      BY <1>2, <3>1, OneLineMore
    <3>3. Count(trace'[d]) = IF event = e THEN Count(trace[d]) + 1 ELSE Count(trace[d])
      BY <1>2, <3>1, <3>2
    <3> QED
      BY <2>1, <3>3 DEF Events
  <2>2. CASE d # dir[w]
    BY <1>5, <2>2 DEF Events
  <2> QED
    BY <2>1, <2>2
<1> QED
  BY <1>1, <1>6, <1>7

LEMMA AnnouncesBalanced ==
  ASSUME Placed, Tallied, Balanced, NEW w \in Wrappers, NEW event \in DOMAIN Resumes,
         AppendTrace(w, event)
  PROVE  Tallied' /\ Balanced'
<1>1. Moves(w, Appends[event], Resumes[event]) /\ dir' = dir /\ budget' = budget
  BY DEF AppendTrace
<1>2. ASSUME NEW d \in Wrappers PROVE BalancedAt(d)'
  <2>0. /\ event # "evidence.recorded" => Resumes[event] \notin Finishing
        /\ event # "permit.issued" => Resumes[event] \notin Requesting
        /\ event = "evidence.recorded" => Appends[event] \in Requesting
    BY DEF Finishing, Requesting, Resumes, Appends
  <2>1. LET n == Cardinality(Occupied(d, Finishing))
        IN /\ n \in Nat /\ n' \in Nat /\ n' <= n + 1
           /\ dir[w] # d \/ event # "evidence.recorded" => n' <= n
    BY <1>1, <2>0, Occupies
  <2>2. LET n == Cardinality(Occupied(d, Requesting))
        IN /\ n \in Nat /\ n' \in Nat /\ n' <= n + 1
           /\ dir[w] # d \/ event # "permit.issued" => n' <= n
           /\ dir[w] = d /\ event = "evidence.recorded" => n' + 1 <= n
    BY <1>1, <2>0, Occupies
  <2>3. \A e : Events(d, e) \in Nat
    BY EventsCounted
  <2>4. \A e : Events(d, e)' = IF d = dir[w] /\ e = event THEN Events(d, e) + 1 ELSE Events(d, e)
    BY Announces
  <2>5. BalancedAt(d) /\ budget[d].completed \in Nat /\ budget[d].errors \in Nat
    BY DEF Balanced, Tallied, Counter
  <2> QED
    BY <1>1, <2>1, <2>2, <2>3, <2>4, <2>5 DEF BalancedAt
<1> QED
  BY <1>2, Announces DEF Balanced
\* Ledger and trace of each directory stay balanced, whoever works in it
\* (session_ledger.py, execution_trace.py).
LEMMA BalancedStep ==
  Placed /\ Tallied /\ Balanced /\ [AssessmentNext]_fieldAssessmentVars => Tallied' /\ Balanced'
<1> SUFFICES ASSUME Placed, Tallied, Balanced, [AssessmentNext]_fieldAssessmentVars
             PROVE  Tallied' /\ Balanced'
  OBVIOUS
<1> DEFINE Elsewhere == {"idle", "prepare", "pick", "blocked", "reserve", "broker", "permit.issued",
                        "session.started", "session.finished", "classify", "classify failed",
                        "assess", "failed", "thrown"}
<1>0. \A step \in Elsewhere : step \notin Finishing /\ step \notin Requesting
  BY DEF Finishing, Requesting
<1>1. ASSUME NEW w \in Wrappers, NEW from, NEW to, Moves(w, from, to),
             to \notin Finishing, to \in Requesting => from \in Requesting,
             UNCHANGED <<dir, trace, tail, budget>>
      PROVE  Tallied' /\ Balanced'
  <2>1. tail' \in [Wrappers -> Nat]
    BY <1>1 DEF Tallied
  <2> QED
    BY <1>1, <2>1, Unannounced
<1>2. ASSUME NEW w \in Wrappers, NEW t \in Roots, StartAssessment(w, t) PROVE Tallied' /\ Balanced'
  <2>1. Moves(w, "idle", "prepare") /\ UNCHANGED <<dir, trace, tail, budget>>
    BY <1>2 DEF StartAssessment, wrapperFiles
  <2> QED
    BY <1>0, <1>1, <2>1
<1>3. ASSUME NEW w \in Wrappers, Prepare(w) PROVE Tallied' /\ Balanced'
  <2>1. UNCHANGED <<dir, trace, tail, budget>>
    BY <1>3 DEF Prepare, Keeps
  <2>2. Moves(w, "prepare", "pick") \/ Moves(w, "prepare", "blocked")
    BY <1>3 DEF Prepare
  <2> QED
    BY <1>0, <1>1, <2>1, <2>2
<1>4. ASSUME NEW w \in Wrappers, PickPreparation(w) PROVE Tallied' /\ Balanced'
  <2>1. /\ at[w] = "pick" /\ at' = [at EXCEPT ![w] = "session.started"]
        /\ dir' = [dir EXCEPT ![w] = NewestPreparation] /\ UNCHANGED <<trace, tail, budget>>
    BY <1>4 DEF PickPreparation, Moves, wrapperFiles
  <2>2. \A v \in Wrappers : /\ v # w => at'[v] = at[v] /\ dir'[v] = dir[v]
                            /\ v = w => at'[v] = "session.started"
    BY <2>1 DEF Placed
  <2>3. ASSUME NEW d \in Wrappers
        PROVE  /\ Occupied(d, Finishing)' = Occupied(d, Finishing)
               /\ Occupied(d, Requesting)' = Occupied(d, Requesting)
    BY <2>1, <2>2 DEF Occupied, Finishing, Requesting
  <2>4. ASSUME NEW d \in Wrappers PROVE BalancedAt(d)'
    <3>1. \A e : Events(d, e)' = Events(d, e)
      BY <2>1 DEF Events
    <3> QED
      BY <2>1, <2>3, <2>4, <3>1 DEF Balanced, BalancedAt
  <2>5. Tallied'
    BY <2>1 DEF Tallied
  <2> QED
    BY <2>4, <2>5 DEF Balanced
<1>5. ASSUME NEW w \in Wrappers, ReadTrace(w) PROVE Tallied' /\ Balanced'
  <2>1. /\ Moves(w, at[w], Appends[at[w]]) /\ at[w] \in DOMAIN Resumes
        /\ UNCHANGED <<dir, trace, budget>>
        /\ tail' = [tail EXCEPT ![w] = LastSequence(trace[dir[w]])]
    BY <1>5 DEF ReadTrace, Moves, wrapperFiles
  <2>2. dir[w] \in Wrappers
    BY <2>1 DEF Placed, InSession, Holding, Resumes
  <2>3. trace[dir[w]] \in Seq(Line)
    BY <2>2 DEF Tallied
  <2>4. LastSequence(trace[dir[w]]) \in Nat
    <3> DEFINE lines == trace[dir[w]]
    <3>1. lines # <<>> => lines[Len(lines)] \in Line
      BY <2>3
    <3>2. \A line \in Line : line.sequence \in Nat
      BY DEF Line
    <3> HIDE DEF lines
    <3>3. LastSequence(lines) \in Nat
      BY <3>1, <3>2 DEF LastSequence
    <3> QED
      BY <3>3 DEF lines
  <2>5. tail' \in [Wrappers -> Nat]
    BY <2>1, <2>4 DEF Tallied
  <2>6. /\ Appends[at[w]] \notin Finishing
        /\ Appends[at[w]] \in Requesting => at[w] \in Requesting
    BY <2>1 DEF Resumes, Appends, Finishing, Requesting
  <2> QED
    BY <2>1, <2>5, <2>6, Unannounced
<1>6. ASSUME NEW w \in Wrappers, NEW event \in DOMAIN Resumes, AppendTrace(w, event)
      PROVE  Tallied' /\ Balanced'
  BY <1>6, AnnouncesBalanced
<1>7. ASSUME NEW w \in Wrappers, Reserve(w) PROVE Tallied' /\ Balanced'
  <2>1. dir[w] \in Wrappers /\ UNCHANGED <<dir, trace, tail>>
    BY <1>7 DEF Reserve, Moves, Placed, InSession, Keeps
  <2>2. CASE Moves(w, "reserve", "session.finished") /\ UNCHANGED budget
    BY <1>0, <1>1, <2>1, <2>2
  <2>3. CASE Moves(w, "reserve", "broker") /\ budget' = [budget EXCEPT ![dir[w]].reserved = @ + 1]
    <3> DEFINE c == [budget[dir[w]] EXCEPT !.reserved = @ + 1]
    <3>1. budget[dir[w]] \in Counter /\ budget' = [budget EXCEPT ![dir[w]] = c]
      BY <2>1, <2>3 DEF Tallied
    <3>2. /\ c \in Counter /\ c.completed = budget[dir[w]].completed
          /\ c.errors = budget[dir[w]].errors
      BY <3>1 DEF Counter
    <3> HIDE DEF c
    <3>3. /\ budget' \in [Wrappers -> Counter]
          /\ \A d \in Wrappers : /\ budget'[d].completed = budget[d].completed
                                 /\ budget'[d].errors = budget[d].errors
      BY <2>1, <3>1, <3>2 DEF Tallied
    <3>4. ASSUME NEW d \in Wrappers PROVE BalancedAt(d)'
      <4>0. "broker" \notin Finishing \cup Requesting
        BY <1>0
      <4>1. LET n == Cardinality(Occupied(d, Finishing)) IN n \in Nat /\ n' \in Nat /\ n' <= n
        BY <2>1, <2>3, <4>0, Occupies
      <4>2. LET n == Cardinality(Occupied(d, Requesting)) IN n \in Nat /\ n' \in Nat /\ n' <= n
        BY <2>1, <2>3, <4>0, Occupies
      <4>3. \A e : Events(d, e)' = Events(d, e) /\ Events(d, e) \in Nat
        BY <2>1, EventsCounted DEF Events
      <4>4. BalancedAt(d) /\ budget[d].completed \in Nat /\ budget[d].errors \in Nat
        BY DEF Balanced, Tallied, Counter
      <4> QED
        BY <3>3, <4>1, <4>2, <4>3, <4>4 DEF BalancedAt
    <3> QED
      BY <2>1, <3>3, <3>4 DEF Balanced, Tallied
  <2> QED
    BY <1>7, <2>2, <2>3 DEF Reserve
<1>8. ASSUME NEW w \in Wrappers, BrokerPermit(w) \/ Observe(w) PROVE Tallied' /\ Balanced'
  <2>1. dir[w] \in Wrappers /\ UNCHANGED <<dir, trace, tail>>
    BY <1>8 DEF BrokerPermit, Observe, Moves, Placed, InSession, Holding, Keeps
  <2>2. /\ \/ Moves(w, "broker", "permit.issued") \/ Moves(w, "broker", "session.finished")
           \/ Moves(w, "observe", "evidence.recorded") \/ Moves(w, "observe", "session.finished")
        /\ UNCHANGED budget \/ ActionFails(w)
    BY <1>8 DEF BrokerPermit, Observe
  <2>3. UNCHANGED budget \/ \E d \in Wrappers : Ended(budget', d, 1)
    BY <2>1, <2>2, Fails DEF Tallied, ActionFails
  <2>4. tail' \in [Wrappers -> Nat]
    BY <2>1 DEF Tallied
  <2>5. \E from, to : /\ Moves(w, from, to) /\ to \notin Finishing
                      /\ to \in Requesting => from \in Requesting
    <3>1. "evidence.recorded" \notin Finishing /\ "observe" \in Requesting
      BY DEF Finishing, Requesting
    <3> QED
      BY <1>0, <2>2, <3>1
  <2> QED
    BY <2>1, <2>3, <2>4, <2>5, Unannounced
<1>9. ASSUME NEW w \in Wrappers, CompleteAction(w) PROVE Tallied' /\ Balanced'
  BY <1>9, Finishes
<1>10. ASSUME NEW w \in Wrappers, NEW from \in {"classify", "classify failed"}, Classify(w, from)
       PROVE  Tallied' /\ Balanced'
  <2>1. UNCHANGED <<dir, trace, tail, budget>>
    BY <1>10 DEF Classify, Keeps
  <2>2. Moves(w, from, "assess") \/ Moves(w, from, "failed")
    BY <1>10 DEF Classify
  <2> QED
    BY <1>0, <1>1, <2>1, <2>2
<1>11. ASSUME NEW w \in Wrappers, WrapperAssesses(w) PROVE Tallied' /\ Balanced'
  <2>1. Moves(w, "assess", "thrown") /\ UNCHANGED <<dir, trace, tail, budget>>
    BY <1>11 DEF WrapperAssesses, Keeps, wrapperFiles
  <2> QED
    BY <1>0, <1>1, <2>1
<1>12. ASSUME NEW w \in Wrappers, SessionDies(w) PROVE Tallied' /\ Balanced'
  <2>1. /\ Moves(w, at[w], "classify failed") /\ UNCHANGED <<dir, trace, budget>>
        /\ tail' = [tail EXCEPT ![w] = 0]
    BY <1>12 DEF SessionDies, Moves, wrapperFiles
  <2>2. tail' \in [Wrappers -> Nat]
    BY <2>1 DEF Tallied
  <2>3. "classify failed" \notin Finishing \cup Requesting
    BY <1>0
  <2> QED
    BY <2>1, <2>2, <2>3, Unannounced
<1>13. ASSUME NEW w \in Wrappers, NEW d \in Wrappers, ContinueRedirect(w, d)
       PROVE  Tallied' /\ Balanced'
  <2>1. Moves(w, "idle", "prepare") /\ UNCHANGED <<dir, trace, tail, budget>>
    BY <1>13 DEF ContinueRedirect, wrapperFiles
  <2> QED
    BY <1>0, <1>1, <2>1
<1>14. ASSUME UNCHANGED <<at, dir, trace, tail, budget>> PROVE Tallied' /\ Balanced'
  BY <1>14 DEF Tallied, Balanced, BalancedAt, Events, Occupied
<1>15. OperatorStep => \/ UNCHANGED <<at, dir, trace, tail, budget>>
                       \/ \E w, d \in Wrappers : ContinueRedirect(w, d)
  BY DEF OperatorStep, AssessStored, BindProvenance, ReadCounters, SummarizeSession, wrapperFiles
<1>16. UNCHANGED fieldAssessmentVars => UNCHANGED <<at, dir, trace, tail, budget>>
  BY DEF fieldAssessmentVars
<1>17. AssessmentNext => (\E w \in Wrappers : WrapperStep(w)) \/ OperatorStep
  BY DEF AssessmentNext, OperatorStep
<1> QED
  BY <1>2, <1>3, <1>4, <1>5, <1>6, <1>7, <1>8, <1>9, <1>10, <1>11, <1>12, <1>13, <1>14, <1>15,
     <1>16, <1>17 DEF WrapperStep

\* Whoever writes to a trace, no event of it is ever fewer.
LEMMA EventsRemain ==
  ASSUME Placed, Tallied, [AssessmentNext]_fieldAssessmentVars
  PROVE  \A d \in Wrappers : \A e : /\ Events(d, e) \in Nat /\ Events(d, e)' \in Nat
                                    /\ Events(d, e) <= Events(d, e)'
<1>1. ASSUME NEW w \in Wrappers, NEW event \in DOMAIN Resumes, AppendTrace(w, event),
             NEW d \in Wrappers, NEW e
      PROVE  /\ Events(d, e) \in Nat /\ Events(d, e)' \in Nat
             /\ Events(d, e) <= Events(d, e)'
  <2>1. Events(d, e)' = IF d = dir[w] /\ e = event THEN Events(d, e) + 1 ELSE Events(d, e)
    BY <1>1, Announces
  <2>2. Events(d, e) \in Nat
    BY EventsCounted
  <2> QED
    BY <2>1, <2>2
<1>2. ASSUME trace' = trace, NEW d \in Wrappers, NEW e
      PROVE  /\ Events(d, e) \in Nat /\ Events(d, e)' \in Nat
             /\ Events(d, e) <= Events(d, e)'
  <2>1. Events(d, e)' = Events(d, e)
    BY <1>2 DEF Events
  <2>2. Events(d, e) \in Nat
    BY EventsCounted
  <2> QED
    BY <2>1, <2>2
<1>3. \/ \E w \in Wrappers : \E event \in DOMAIN Resumes : AppendTrace(w, event)
      \/ trace' = trace
  BY DEF AssessmentNext, WrapperStep, StartAssessment, Prepare, PickPreparation, ReadTrace, Reserve,
         BrokerPermit, Observe, CompleteAction, Classify, WrapperAssesses, SessionDies,
         AssessStored, BindProvenance, ContinueRedirect, ReadCounters, SummarizeSession,
         wrapperFiles, fieldAssessmentVars
<1> QED
  BY <1>1, <1>2, <1>3

\* The report's two readings.
LEMMA CoveredStep ==
  ASSUME Placed, Tallied, Balanced, Covered, [AssessmentNext]_fieldAssessmentVars
  PROVE  Covered'
<1>1. CASE summary' = summary
  BY <1>1, EventsRemain DEF Covered, SummaryOrdered
<1>2. ASSUME NEW d \in Wrappers, ReadCounters(d) PROVE Covered'
  <2>1. /\ summary'.dir = d /\ summary'.step = "counters"
        /\ summary'.counters = [completed |-> budget[d].completed, errors |-> budget[d].errors]
        /\ trace' = trace
    BY <1>2 DEF ReadCounters, NoSummary, wrapperFiles
  <2>2. budget[d].completed \in Nat /\ budget[d].errors \in Nat
    BY DEF Tallied, Counter
  <2>3. /\ Events(d, "evidence.recorded") \in Nat
        /\ Events(d, "evidence.recorded")' = Events(d, "evidence.recorded")
    BY <2>1, EventsCounted DEF Events
  <2>4. budget[d].completed <= Events(d, "evidence.recorded") + budget[d].errors
    BY <2>2, <2>3, OccupiedFinite DEF Balanced, BalancedAt
  <2> QED
    BY <2>1, <2>2, <2>3, <2>4 DEF Covered, SummaryOrdered
<1>3. CASE SummarizeSession
  <2>1. PICK d \in Wrappers : d = summary.dir
    BY <1>3 DEF SummarizeSession, Covered
  <2>2. /\ summary' = [summary EXCEPT !.step = "done",
                         !.permits = Events(d, "permit.issued"),
                         !.records = Events(d, "evidence.recorded")]
        /\ summary.step = "counters"
    BY <1>3, <2>1 DEF SummarizeSession
  <2>3. Events(d, "evidence.recorded") \in Nat /\ Events(d, "permit.issued") \in Nat
    BY EventsCounted
  <2>4. Events(d, "evidence.recorded") <= Events(d, "permit.issued")
    BY <2>3, OccupiedFinite DEF Balanced, BalancedAt
  <2> QED
    BY <2>1, <2>2, <2>3, <2>4 DEF Covered, SummaryOrdered
<1>4. \/ summary' = summary \/ SummarizeSession \/ \E d \in Wrappers : ReadCounters(d)
  BY DEF AssessmentNext, WrapperStep, StartAssessment, Prepare, PickPreparation, ReadTrace, Reserve,
         AppendTrace, BrokerPermit, Observe, CompleteAction, Classify, WrapperAssesses, SessionDies,
         AssessStored, BindProvenance, ContinueRedirect, Keeps, operatorFiles, fieldAssessmentVars
<1> QED
  BY <1>1, <1>2, <1>3, <1>4

\* Whoever works in its directory while a session is reported, and however many actions
\* its ledger allows, the counters reported never run ahead of the trace.
THEOREM SummariesOrdered == AssessmentSpec => []SummaryOrdered
<1>1. AssessmentInit => Placed /\ Tallied
  BY DEF AssessmentInit, Placed, Steps, InSession, Holding, Tallied, Counter
<1>2. AssessmentInit => Balanced
  <2> SUFFICES ASSUME AssessmentInit, NEW d \in Wrappers PROVE BalancedAt(d)
    BY DEF Balanced
  <2>1. /\ Occupied(d, Finishing) = {} /\ Occupied(d, Requesting) = {}
        /\ budget[d].completed = 0 /\ budget[d].errors = 0 /\ trace[d] = <<>>
    BY DEF AssessmentInit, Occupied, Finishing, Requesting
  <2>2. \A e : {i \in DOMAIN trace[d] : trace[d][i].event = e} = {}
    BY <2>1
  <2>3. Events(d, "evidence.recorded") = 0 /\ Events(d, "permit.issued") = 0
    BY <2>2, FS_EmptySet DEF Events
  <2>4. Cardinality(Occupied(d, Finishing)) = 0 /\ Cardinality(Occupied(d, Requesting)) = 0
    BY <2>1, FS_EmptySet
  <2> QED
    BY <2>1, <2>3, <2>4 DEF BalancedAt
<1>3. AssessmentInit => Covered
  BY DEF AssessmentInit, Covered, NoSummary, SummaryOrdered
<1>4. Placed /\ Tallied /\ Balanced /\ Covered /\ [AssessmentNext]_fieldAssessmentVars
        => Placed' /\ Tallied' /\ Balanced' /\ Covered'
  BY PlacedStep, BalancedStep, CoveredStep
<1>5. Covered => SummaryOrdered
  BY DEF Covered
<1> QED
  BY <1>1, <1>2, <1>3, <1>4, <1>5, PTL DEF AssessmentSpec
-----------------------------------------------------------------------------
(***************************************************************************)
(* What is reported, and where the work goes on, rests on what was         *)
(* observed.                                                               *)
(***************************************************************************)
\* A signal that nothing confirmed, of an intact record that the target answered.
Founded(s, records) ==
  /\ s.confirmed = FALSE
  /\ \E e \in records : /\ e.id = s.evidence /\ e.intact = TRUE /\ e.source = "target"
                        /\ e.target = s.target

\* Grouping keeps each signal with the asset it was seen on (correlate_candidates).
LEMMA CorrelatedBacked ==
  ASSUME NEW signals, NEW records, \A s \in signals : Founded(s, records)
  PROVE  Backed(Correlate(BuildCandidates(signals)), records)
<1> DEFINE C == BuildCandidates(signals)
<1>1. \A c \in C : \E s \in signals : /\ c.signals = {s} /\ c.asset = s.target
                                      /\ c.proof = "suspected"
  BY DEF BuildCandidates, Founded
<1> HIDE DEF C
<1> SUFFICES ASSUME NEW f \in Correlate(C)
             PROVE  /\ f.signals # {}
                    /\ f.proof = "verified" => \E s \in f.signals : s.confirmed
                    /\ \A s \in f.signals : \E e \in records :
                         e.id = s.evidence /\ e.intact /\ e.source = "target" /\ e.target = f.asset
  BY DEF Backed, C
<1>2. PICK c \in C :
        LET group == {d \in C : d.vulnerability = c.vulnerability /\ d.asset = c.asset}
        IN f = [vulnerability |-> c.vulnerability, asset |-> c.asset,
                signals |-> UNION {d.signals : d \in group},
                proof |-> IF \E d \in group : d.proof = "verified" THEN "verified" ELSE "suspected"]
  BY DEF Correlate
<1> DEFINE G == {d \in C : d.vulnerability = c.vulnerability /\ d.asset = c.asset}
<1>3. /\ f.signals = UNION {d.signals : d \in G} /\ f.asset = c.asset
      /\ f.proof = IF \E d \in G : d.proof = "verified" THEN "verified" ELSE "suspected"
  BY <1>2
<1>4. c \in G /\ \A d \in G : d \in C /\ d.asset = c.asset
  OBVIOUS
<1> HIDE DEF G
<1>5. f.proof = "suspected"
  BY <1>1, <1>3, <1>4
<1>6. f.signals # {}
  BY <1>1, <1>3, <1>4
<1>7. \A s \in f.signals : s \in signals /\ s.target = f.asset
  BY <1>1, <1>3, <1>4
<1>8. \A s \in f.signals : \E e \in records :
         e.id = s.evidence /\ e.intact /\ e.source = "target" /\ e.target = f.asset
  BY <1>7 DEF Founded
<1> QED
  BY <1>5, <1>6, <1>8

\* What is read from a record is founded on it, if it was not altered.
LEMMA NormalizedFounded ==
  ASSUME NEW records, NEW e \in records, e.intact = TRUE,
         NEW s \in NormalizeSignals(e) \cup ExposedContent(e)
  PROVE  Founded(s, records)
<1>1. FromTarget(e)
  BY DEF NormalizeSignals, ExposedContent, Technologies, Protocol, Posture, Readable
<1>2. s.confirmed = FALSE /\ s.evidence = e.id /\ s.target = e.target
  BY DEF NormalizeSignals, ExposedContent, Signal
<1> QED
  BY <1>1, <1>2 DEF Founded, FromTarget

\* Every finding of an assessment is backed by the records it was made of
\* (assess_stored_evidence, the evidence consumers).
LEMMA FindingsRest ==
  ASSUME NEW records, \A e \in records : e.intact \in BOOLEAN
  PROVE  Backed(Findings(records) \cup SynthesizedFindings(records), records)
<1>1. \A s \in OrchestratedSignals(SoundRecords(records)) : Founded(s, records)
  <2> SUFFICES ASSUME NEW s \in OrchestratedSignals(SoundRecords(records))
               PROVE  Founded(s, records)
    OBVIOUS
  <2>1. PICK e \in SoundRecords(records) : s \in NormalizeSignals(e)
    BY DEF OrchestratedSignals
  <2>2. e \in records /\ e.intact = TRUE
    BY DEF SoundRecords, AlteredIds
  <2> QED
    BY <2>1, <2>2, NormalizedFounded
<1> DEFINE synthesized == UNION {c.signals : c \in ConsumeDirectory(records)}
<1>2. \A s \in synthesized : Founded(s, records)
  <2> SUFFICES ASSUME NEW s \in synthesized PROVE Founded(s, records)
    OBVIOUS
  <2>1. PICK e \in records :
          s \in IF e.intact THEN NormalizeSignals(e) \cup ExposedContent(e) ELSE {}
    BY DEF ConsumeDirectory, Consume
  <2>2. e.intact = TRUE /\ s \in NormalizeSignals(e) \cup ExposedContent(e)
    BY <2>1
  <2> QED
    BY <2>2, NormalizedFounded
<1> HIDE DEF synthesized
<1>3. Backed(Correlate(BuildCandidates(OrchestratedSignals(SoundRecords(records)))), records)
  BY <1>1, CorrelatedBacked
<1>4. Backed(Correlate(BuildCandidates(synthesized)), records)
  BY <1>2, CorrelatedBacked
<1> QED
  BY <1>3, <1>4 DEF Backed, Findings, SynthesizedFindings, synthesized
-----------------------------------------------------------------------------
\* The response files a directory keeps, and the results the operator made of them.
Gathered ==
  /\ \E S : evidence \in [Wrappers -> SUBSET S]
  /\ \A d \in Wrappers : \A e \in evidence[d] : e.intact = TRUE /\ e.source = "target"
Assessed ==
  /\ \E F, R, B : assessed \in [Wrappers -> [findings : F, records : R, binding : B, done : BOOLEAN]]
  /\ FindingsBacked

\* A response joins the files of one directory, or nothing does.
LEMMA Gathers ==
  ASSUME Placed, Gathered, [AssessmentNext]_fieldAssessmentVars
  PROVE  /\ Gathered'
         /\ \A d \in Wrappers : evidence[d] \subseteq evidence'[d]
         /\ \/ UNCHANGED <<evidence, broken, asked>>
            \/ \E w \in Wrappers : Observe(w)
<1>1. ASSUME UNCHANGED evidence
      PROVE  Gathered' /\ \A d \in Wrappers : evidence[d] \subseteq evidence'[d]
  BY <1>1 DEF Gathered
<1>2. ASSUME NEW w \in Wrappers, Observe(w)
      PROVE  Gathered' /\ \A d \in Wrappers : evidence[d] \subseteq evidence'[d]
  <2>1. dir[w] \in Wrappers
    BY <1>2 DEF Observe, Moves, Placed, InSession, Holding
  <2>2. CASE \E answer \in Answers[TargetOf(dir[w])] :
               evidence' = [evidence EXCEPT ![dir[w]] = @ \cup {Response(dir[w], answer)}]
    <3>1. PICK answer : evidence' = [evidence EXCEPT ![dir[w]] = @ \cup {Response(dir[w], answer)}]
      BY <2>2
    <3> DEFINE e == Response(dir[w], answer)
    <3>2. e.intact = TRUE /\ e.source = "target"
      BY DEF Response
    <3> HIDE DEF e
    <3>3. evidence' = [evidence EXCEPT ![dir[w]] = @ \cup {e}]
      BY <3>1 DEF e
    <3>4. PICK S : evidence \in [Wrappers -> SUBSET S]
      BY DEF Gathered
    <3> DEFINE T == S \cup {e}
    <3>5. /\ evidence' \in [Wrappers -> SUBSET T]
          /\ \A d \in Wrappers : evidence'[d] = IF d = dir[w] THEN evidence[d] \cup {e}
                                                              ELSE evidence[d]
      BY <2>1, <3>3, <3>4
    <3> HIDE DEF T
    <3> QED
      BY <3>2, <3>5 DEF Gathered
  <2>3. CASE UNCHANGED evidence
    BY <1>1, <2>3
  <2> QED
    BY <1>2, <2>2, <2>3 DEF Observe
<1>3. ASSUME NEW w \in Wrappers, WrapperStep(w), ~Observe(w)
      PROVE  UNCHANGED <<evidence, broken, asked>>
  BY <1>3 DEF WrapperStep, StartAssessment, Prepare, PickPreparation, ReadTrace, AppendTrace,
         Reserve, BrokerPermit, CompleteAction, Classify, WrapperAssesses, SessionDies, wrapperFiles
<1>4. UNCHANGED <<evidence, broken, asked>> \/ \E w \in Wrappers : WrapperStep(w)
  BY DEF AssessmentNext, AssessStored, BindProvenance, ContinueRedirect, ReadCounters,
         SummarizeSession, wrapperFiles, fieldAssessmentVars
<1> QED
  BY <1>1, <1>2, <1>3, <1>4

\* The results: those of an assessment, bound afterwards.
LEMMA AssessedStep ==
  ASSUME Gathered, Assessed, [AssessmentNext]_fieldAssessmentVars
  PROVE  Assessed'
<1>1. PICK F, R, B :
        assessed \in [Wrappers -> [findings : F, records : R, binding : B, done : BOOLEAN]]
  BY DEF Assessed
<1>2. ASSUME NEW d \in Wrappers, NEW result,
             \E G, S, C : result \in [findings : G, records : S, binding : C, done : BOOLEAN],
             assessed' = [assessed EXCEPT ![d] = result],
             Backed(result.findings, result.records)
      PROVE  Assessed'
  <2>1. PICK G, S, C : result \in [findings : G, records : S, binding : C, done : BOOLEAN]
    BY <1>2
  <2> DEFINE F2 == F \cup G
             R2 == R \cup S
             B2 == B \cup C
             Result == [findings : F, records : R, binding : B, done : BOOLEAN]
             Result2 == [findings : F2, records : R2, binding : B2, done : BOOLEAN]
  <2>2. result \in Result2 /\ Result \subseteq Result2
    BY <2>1
  <2>3. assessed \in [Wrappers -> Result]
    BY <1>1
  <2> HIDE DEF Result, Result2
  <2>4. /\ assessed' \in [Wrappers -> Result2]
        /\ \A x \in Wrappers : assessed'[x] = IF x = d THEN result ELSE assessed[x]
    BY <1>2, <2>2, <2>3
  <2>5. FindingsBacked'
    BY <1>2, <2>4 DEF Assessed, FindingsBacked
  <2>6. \E X, Y, Z :
          assessed' \in [Wrappers -> [findings : X, records : Y, binding : Z, done : BOOLEAN]]
    BY <2>4 DEF Result2
  <2> QED
    BY <2>5, <2>6 DEF Assessed
<1>3. ASSUME NEW d \in Wrappers, NEW others \in {{}, Shared}, AssessStored(d, others)
      PROVE  Assessed'
  <2> DEFINE records == evidence[d] \cup others
             findings == Findings(records) \cup SynthesizedFindings(records)
             result == [findings |-> findings, records |-> records, binding |-> NoTarget,
                        done |-> TRUE]
  <2>1. \A e \in records : e.intact \in BOOLEAN
    BY AnswerAssumption DEF Gathered
  <2>2. assessed' = [assessed EXCEPT ![d] = result]
    BY <1>3 DEF AssessStored
  <2> HIDE DEF records
  <2>3. Backed(findings, records)
    BY <2>1, FindingsRest
  <2> HIDE DEF findings
  <2>4. /\ result \in [findings : {findings}, records : {records}, binding : {NoTarget},
                       done : BOOLEAN]
        /\ result.findings = findings /\ result.records = records
    OBVIOUS
  <2> HIDE DEF result
  <2>5. Backed(result.findings, result.records)
    BY <2>3, <2>4
  <2> QED
    BY <1>2, <2>2, <2>4, <2>5
<1>4. ASSUME NEW d \in Wrappers, NEW status \in statuses[d], BindProvenance(d, status)
      PROVE  Assessed'
  <2> DEFINE bound == Provenance(d, status)
             result == [assessed[d] EXCEPT !.binding = bound]
  <2>1. assessed' = [assessed EXCEPT ![d] = result]
    BY <1>4 DEF BindProvenance
  <2> HIDE DEF bound
  <2>2. assessed[d] \in [findings : F, records : R, binding : B, done : BOOLEAN]
    BY <1>1
  <2>3. /\ result \in [findings : F, records : R, binding : {bound}, done : BOOLEAN]
        /\ result.findings = assessed[d].findings /\ result.records = assessed[d].records
    BY <2>2
  <2> HIDE DEF result
  <2>4. Backed(result.findings, result.records)
    BY <2>3 DEF Assessed, FindingsBacked
  <2> QED
    BY <1>2, <2>1, <2>3, <2>4
<1>5. CASE assessed' = assessed
  BY <1>5 DEF Assessed, FindingsBacked
<1>6. \/ assessed' = assessed
      \/ \E d \in Wrappers : \/ \E others \in {{}, Shared} : AssessStored(d, others)
                             \/ \E status \in statuses[d] : BindProvenance(d, status)
  BY DEF AssessmentNext, WrapperStep, StartAssessment, Prepare, PickPreparation, ReadTrace,
         AppendTrace, Reserve, BrokerPermit, Observe, CompleteAction, Classify, WrapperAssesses,
         SessionDies, ContinueRedirect, ReadCounters, SummarizeSession, Keeps, operatorFiles,
         fieldAssessmentVars
<1> QED
  BY <1>3, <1>4, <1>5, <1>6

\* Whatever shares the evidence directory, no finding rests on an altered record or on
\* one that the target did not answer, for any wrappers, targets and answers.
THEOREM FindingsAreBacked == AssessmentSpec => []FindingsBacked
<1>1. AssessmentInit => Placed
  BY DEF AssessmentInit, Placed, Steps, InSession, Holding
<1>2. AssessmentInit => Gathered
  <2> SUFFICES ASSUME AssessmentInit PROVE Gathered
    OBVIOUS
  <2>1. evidence \in [Wrappers -> SUBSET {}] /\ \A d \in Wrappers : evidence[d] = {}
    BY DEF AssessmentInit
  <2> QED
    BY <2>1 DEF Gathered
<1>3. AssessmentInit => Assessed
  <2> SUFFICES ASSUME AssessmentInit PROVE Assessed
    OBVIOUS
  <2>1. /\ assessed \in [Wrappers -> [findings : {{}}, records : {{}}, binding : {NoTarget},
                                      done : BOOLEAN]]
        /\ \A d \in Wrappers : assessed[d].findings = {}
    BY DEF AssessmentInit, NotAssessed
  <2>2. FindingsBacked
    BY <2>1 DEF FindingsBacked, Backed
  <2> QED
    BY <2>1, <2>2 DEF Assessed
<1>4. Placed /\ Gathered /\ Assessed /\ [AssessmentNext]_fieldAssessmentVars
        => Placed' /\ Gathered' /\ Assessed'
  BY PlacedStep, Gathers, AssessedStep
<1>5. Assessed => FindingsBacked
  BY DEF Assessed
<1> QED
  BY <1>1, <1>2, <1>3, <1>4, <1>5, PTL DEF AssessmentSpec
-----------------------------------------------------------------------------
\* A directory that allows one request has a response or a failure, never both; what the
\* operator binds and continues comes from a response it has.
SettledAt(d) ==
  /\ evidence[d] # {} \/ d \in broken => asked[d] # 0
  /\ evidence[d] # {} => d \notin broken
Settled == \A d \in Wrappers : SettledAt(d)

Redirects(d, t) == \E e \in evidence[d] : e.redirect = t
Grounded ==
  /\ \E S : bindings \in [Wrappers -> SUBSET S]
  /\ \E S : candidates \in [Wrappers -> SUBSET S]
  /\ \A d \in Wrappers :
       /\ \A binding \in bindings[d] : \A row \in binding.rows :
            row.redirect # NoTarget => Redirects(d, row.redirect)
       /\ \A t \in candidates[d] : t \in InScope /\ Redirects(d, t)

\* Only a wrapper that holds the directory's one reservation asks, and nothing was
\* answered there before.
LEMMA Settles ==
  ASSUME MaxActions = 1, Placed, Counted, Paid, Gathered, Settled,
         [AssessmentNext]_fieldAssessmentVars
  PROVE  Settled'
<1>1. CASE UNCHANGED <<evidence, broken, asked>>
  BY <1>1 DEF Settled, SettledAt
<1>2. ASSUME NEW w \in Wrappers, Observe(w) PROVE Settled'
  <2>1. dir[w] \in Wrappers /\ Spends(w, dir[w])
    BY <1>2 DEF Observe, Moves, Placed, InSession, Holding, Spends
  <2>2. asked[dir[w]] = 0 /\ evidence[dir[w]] = {} /\ dir[w] \notin broken
    BY <2>1 DEF Paid, PaidAt, Settled, SettledAt
  <2>3. \/ UNCHANGED <<evidence, broken, asked>>
        \/ /\ asked' = [asked EXCEPT ![dir[w]] = @ + 1]
           /\ \/ /\ broken' = broken
                 /\ \E e : evidence' = [evidence EXCEPT ![dir[w]] = @ \cup {e}]
              \/ broken' = broken \cup {dir[w]} /\ evidence' = evidence
    BY <1>2 DEF Observe
  <2>4. CASE asked' = [asked EXCEPT ![dir[w]] = @ + 1] /\ broken' = broken
             /\ \E e : evidence' = [evidence EXCEPT ![dir[w]] = @ \cup {e}]
    <3>1. \A d \in Wrappers \ {dir[w]} : evidence'[d] = evidence[d] /\ asked'[d] = asked[d]
      BY <2>4 DEF Gathered, Counted
    <3>2. asked'[dir[w]] = 1
      BY <2>1, <2>2, <2>4 DEF Counted
    <3>3. ASSUME NEW d \in Wrappers PROVE SettledAt(d)'
      BY <2>2, <2>4, <3>1, <3>2 DEF Settled, SettledAt
    <3> QED
      BY <3>3 DEF Settled
  <2>5. CASE asked' = [asked EXCEPT ![dir[w]] = @ + 1] /\ broken' = broken \cup {dir[w]}
             /\ evidence' = evidence
    <3>1. \A d \in Wrappers \ {dir[w]} : asked'[d] = asked[d]
      BY <2>5 DEF Counted
    <3>2. asked'[dir[w]] = 1
      BY <2>1, <2>2, <2>5 DEF Counted
    <3>3. ASSUME NEW d \in Wrappers PROVE SettledAt(d)'
      BY <2>2, <2>5, <3>1, <3>2 DEF Settled, SettledAt
    <3> QED
      BY <3>3 DEF Settled
  <2> QED
    BY <1>1, <2>3, <2>4, <2>5
<1> QED
  BY <1>1, <1>2, Gathers

\* Bindings and continuations read the responses, which stay (bind_network_provenance,
\* continue_redirect).
LEMMA GroundedStep ==
  ASSUME Placed, Gathered, Grounded, [AssessmentNext]_fieldAssessmentVars
  PROVE  Grounded'
<1>1. \A d \in Wrappers : \A t : Redirects(d, t) => Redirects(d, t)'
  BY Gathers DEF Redirects
<1>2. CASE UNCHANGED <<bindings, candidates>>
  BY <1>1, <1>2 DEF Grounded
<1>3. ASSUME NEW d \in Wrappers, NEW status \in statuses[d], BindProvenance(d, status)
      PROVE  Grounded'
  <2> DEFINE bound == Provenance(d, status)
  <2>1. \A row \in bound.rows : row.redirect # NoTarget => Redirects(d, row.redirect)
    BY DEF Provenance, FindResponseEvidence, Redirects
  <2>2. bindings' = [bindings EXCEPT ![d] = @ \cup {bound}] /\ candidates' = candidates
    BY <1>3 DEF BindProvenance
  <2> HIDE DEF bound
  <2>3. PICK S : bindings \in [Wrappers -> SUBSET S]
    BY DEF Grounded
  <2> DEFINE T == S \cup {bound}
  <2>4. /\ bindings' \in [Wrappers -> SUBSET T]
        /\ \A x \in Wrappers : bindings'[x] = IF x = d THEN bindings[d] \cup {bound}
                                                        ELSE bindings[x]
    BY <2>2, <2>3
  <2> HIDE DEF T
  <2>5. \A x \in Wrappers : \A binding \in bindings'[x] : \A row \in binding.rows :
          row.redirect # NoTarget => Redirects(x, row.redirect)'
    BY <1>1, <2>1, <2>4 DEF Grounded
  <2>6. \A x \in Wrappers : \A t \in candidates'[x] : t \in InScope /\ Redirects(x, t)'
    BY <1>1, <2>2 DEF Grounded
  <2>7. \E X : candidates' \in [Wrappers -> SUBSET X]
    BY <2>2 DEF Grounded
  <2> QED
    BY <2>4, <2>5, <2>6, <2>7 DEF Grounded
<1>4. ASSUME NEW w \in Wrappers, NEW d \in Wrappers, ContinueRedirect(w, d) PROVE Grounded'
  <2>1. PICK binding \in bindings[d] : \E row \in binding.rows :
          Continues(d, row) /\ candidates' = [candidates EXCEPT ![d] = @ \cup {row.redirect}]
    BY <1>4 DEF ContinueRedirect
  <2>2. PICK row \in binding.rows :
          Continues(d, row) /\ candidates' = [candidates EXCEPT ![d] = @ \cup {row.redirect}]
    BY <2>1
  <2> DEFINE t == row.redirect
  <2>3. t \in InScope /\ Redirects(d, t)
    BY <2>1, <2>2 DEF Continues, Grounded
  <2>4. candidates' = [candidates EXCEPT ![d] = @ \cup {t}] /\ bindings' = bindings
    BY <1>4, <2>2 DEF ContinueRedirect
  <2> HIDE DEF t
  <2>5. PICK S : candidates \in [Wrappers -> SUBSET S]
    BY DEF Grounded
  <2> DEFINE T == S \cup {t}
  <2>6. /\ candidates' \in [Wrappers -> SUBSET T]
        /\ \A x \in Wrappers : candidates'[x] = IF x = d THEN candidates[d] \cup {t}
                                                          ELSE candidates[x]
    BY <2>4, <2>5
  <2> HIDE DEF T
  <2>7. \A x \in Wrappers : \A u \in candidates'[x] : u \in InScope /\ Redirects(x, u)'
    BY <1>1, <2>3, <2>6 DEF Grounded
  <2>8. \A x \in Wrappers : \A b \in bindings'[x] : \A r \in b.rows :
          r.redirect # NoTarget => Redirects(x, r.redirect)'
    BY <1>1, <2>4 DEF Grounded
  <2>9. \E X : bindings' \in [Wrappers -> SUBSET X]
    BY <2>4 DEF Grounded
  <2> QED
    BY <2>6, <2>7, <2>8, <2>9 DEF Grounded
<1>5. \/ UNCHANGED <<bindings, candidates>>
      \/ \E d \in Wrappers : \/ \E status \in statuses[d] : BindProvenance(d, status)
                             \/ \E w \in Wrappers : ContinueRedirect(w, d)
  BY DEF AssessmentNext, WrapperStep, StartAssessment, Prepare, PickPreparation, ReadTrace,
         AppendTrace, Reserve, BrokerPermit, Observe, CompleteAction, Classify, WrapperAssesses,
         SessionDies, AssessStored, ReadCounters, SummarizeSession, Keeps, operatorFiles,
         fieldAssessmentVars
<1> QED
  BY <1>2, <1>3, <1>4, <1>5

\* Of a ledger that allows one action: a continuation goes to a target in scope that an
\* intact response of the directory's target redirected to, and findings are backed.
THEOREM AssessmentsGrounded == MaxActions = 1 => (AssessmentSpec => []AssessmentGrounded)
<1> SUFFICES ASSUME MaxActions = 1 PROVE AssessmentSpec => []AssessmentGrounded
  OBVIOUS
<1>1. AssessmentInit => Placed /\ Counted /\ Paid
  BY DEF AssessmentInit, Placed, Steps, InSession, Holding, Counted, Counter, Paid, PaidAt, Spends
<1>2. AssessmentInit => Gathered /\ Settled /\ Grounded
  <2> SUFFICES ASSUME AssessmentInit PROVE Gathered /\ Settled /\ Grounded
    OBVIOUS
  <2>1. /\ evidence \in [Wrappers -> SUBSET {}] /\ bindings \in [Wrappers -> SUBSET {}]
        /\ candidates \in [Wrappers -> SUBSET {}] /\ broken = {}
        /\ \A d \in Wrappers : evidence[d] = {} /\ bindings[d] = {} /\ candidates[d] = {}
    BY DEF AssessmentInit
  <2> QED
    BY <2>1 DEF Gathered, Settled, SettledAt, Grounded
<1>3. Placed /\ Counted /\ Paid /\ Gathered /\ Settled /\ Grounded /\ [AssessmentNext]_fieldAssessmentVars
        => Placed' /\ Counted' /\ Paid' /\ Gathered' /\ Settled' /\ Grounded'
  BY PlacedStep, PaidStep, Gathers, Settles, GroundedStep
<1>4. Gathered /\ Settled /\ Grounded => ContinuationGrounded
  BY DEF Gathered, Settled, SettledAt, Grounded, Redirects, ContinuationGrounded, FromTarget
<1> QED
  BY <1>1, <1>2, <1>3, <1>4, FindingsAreBacked, PTL DEF AssessmentSpec, AssessmentGrounded
=============================================================================
