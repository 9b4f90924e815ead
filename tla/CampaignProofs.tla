--------------------------- MODULE CampaignProofs ---------------------------
(***************************************************************************)
(* Commands may interleave their transitions as they like: one of them     *)
(* always carries the campaign on, unless a command dies in the middle of  *)
(* what it planned, for any number of them.  And a nightly campaign asks   *)
(* only what policy and review allow, observes no target twice and says so *)
(* in its summary, for any catalog, links and budgets.                     *)
(***************************************************************************)
EXTENDS Campaign, NightlyCampaign, SequenceTheorems, FiniteSetTheorems, WellFoundedInduction,
        TLAPS

USE DEF Goto, At, AtRest, Due

Commands == {"stop", "resume", "drain"}
Ended == {"completed", "failed", "unknown_outcome"}

\* No transition leads back to a campaign that does not exist.
LEMMA TableType == \A s \in State : Table[s] \subseteq State \ {"absent"}
  BY DEF State, Table

\* What the commands plan are sequences of states.
LEMMA PlansType ==
  /\ \A dryRun \in BOOLEAN : StartPlan(dryRun) \in Seq(State)
  /\ StopPlan \in Seq(State)
  /\ <<"preflight", "ready", "running">> \in Seq(State)
  /\ <<"draining">> \in Seq(State)
  /\ \A p \in Procs : <<Conclusion(p)>> \in Seq(State)
  /\ <<>> \in Seq(State)
<1>1. {"created", "preflight", "ready", "running", "pausing", "paused",
        "draining", "completed", "partially_completed"} \subseteq State
  BY DEF State, Table
<1>2. \A a, b, c, d \in State :
        /\ <<>> \in Seq(State) /\ <<a>> \in Seq(State)
        /\ <<a, b>> \in Seq(State) /\ <<a, b, c>> \in Seq(State)
        /\ <<a, b, c, d>> \in Seq(State)
  OBVIOUS
<1> QED
  BY <1>1, <1>2 DEF StartPlan, StopPlan, Conclusion

\* A transition that has been read is still in its plan.
Planned == \A p \in Procs : seen[p] # NoState => plan[p] # <<>>

LEMMA TypedAndPlanned == Spec => [](TypeOK /\ Planned)
<1>1. Init => TypeOK /\ Planned
  <2>1. "absent" \in State
    BY DEF State, Table
  <2>2. <<>> \in Seq(State)
    BY PlansType
  <2> SUFFICES ASSUME Init PROVE TypeOK /\ Planned
    OBVIOUS
  <2>3. state \in State /\ plan \in [Procs -> Seq(State)]
    BY <2>1, <2>2 DEF Init
  <2>4. outcome \in [Runs -> Outcome] /\ pc \in [Procs -> Step]
    BY DEF Init, Outcome, Step
  <2>5. seen \in [Procs -> State \cup {NoState}] /\ Planned
    BY DEF Init, Planned
  <2>6. partial \in [Procs -> BOOLEAN] /\ given \in Nat /\ resumed \in BOOLEAN /\ torn \in BOOLEAN
    BY DEF Init
  <2> QED
    BY <2>3, <2>4, <2>5, <2>6 DEF TypeOK
<1>2. TypeOK /\ Planned /\ [Next]_vars => (TypeOK /\ Planned)'
  <2> SUFFICES ASSUME TypeOK, Planned, [Next]_vars PROVE (TypeOK /\ Planned)'
    OBVIOUS
  <2> USE PlansType DEF TypeOK, Planned
  <2>1. ASSUME NEW p \in Procs, NEW dryRun \in BOOLEAN,
                Start(p, dryRun)
         PROVE  (TypeOK /\ Planned)'
    <3>1. "created" \in State
      BY DEF State, Table
    <3> QED
      BY <2>1, <3>1 DEF Start, Step
  <2>2. ASSUME NEW p \in Procs, NEW command \in Commands, NEW flag \in BOOLEAN,
                Give(p, command, flag)
         PROVE  (TypeOK /\ Planned)'
    BY <2>2 DEF Give, Commands, Step
  <2>3. ASSUME NEW p \in Procs, NEW r \in Runs,
                SkipRun(p, r)
         PROVE  (TypeOK /\ Planned)'
    BY <2>3 DEF SkipRun, Outcome
  <2>4. ASSUME NEW p \in Procs, NEW r \in Runs,
                BeginRun(p, r)
         PROVE  (TypeOK /\ Planned)'
    BY <2>4 DEF BeginRun, Outcome
  <2>5. ASSUME NEW p \in Procs, NEW r \in Runs, NEW how \in Ended,
                EndRun(p, r, how)
         PROVE  (TypeOK /\ Planned)'
    BY <2>5 DEF EndRun, Outcome, Ended
  <2>6. ASSUME NEW p \in Procs, Read(p) PROVE (TypeOK /\ Planned)'
    BY <2>6 DEF Step, Read
  <2>7. ASSUME NEW p \in Procs, Invalid(p) PROVE (TypeOK /\ Planned)'
    BY <2>7 DEF Step, Invalid
  <2>8. ASSUME NEW p \in Procs, Write(p) PROVE (TypeOK /\ Planned)'
    <3>1. Head(plan[p]) \in State /\ Tail(plan[p]) \in Seq(State)
      BY <2>8 DEF Write
    <3> QED
      BY <2>8, <3>1 DEF Write
  <2>9. ASSUME NEW p \in Procs, EndBatch(p) PROVE (TypeOK /\ Planned)'
    BY <2>9 DEF Step, EndBatch
  <2>10. ASSUME NEW p \in Procs, Stop(p) PROVE (TypeOK /\ Planned)'
    BY <2>10 DEF Step, Stop
  <2>11. ASSUME NEW p \in Procs, Resume(p) PROVE (TypeOK /\ Planned)'
    BY <2>11 DEF Step, Resume
  <2>12. ASSUME NEW p \in Procs, Resumed(p) PROVE (TypeOK /\ Planned)'
    BY <2>12 DEF Step, Resumed
  <2>13. ASSUME NEW p \in Procs, Drain(p) PROVE (TypeOK /\ Planned)'
    BY <2>13 DEF Step, Drain
  <2>14. ASSUME NEW p \in Procs, Conclude(p) PROVE (TypeOK /\ Planned)'
    BY <2>14 DEF Step, Conclude
  <2>15. ASSUME NEW p \in Procs, Crash(p) PROVE (TypeOK /\ Planned)'
    BY <2>15 DEF Step, Crash
  <2>16. CASE UNCHANGED vars
    BY <2>16 DEF Step, vars
  <2> QED
    BY <2>1, <2>2, <2>3, <2>4, <2>5, <2>6, <2>7, <2>8, <2>9, <2>10, <2>11,
       <2>12, <2>13, <2>14, <2>15, <2>16 DEF Next, Work, Commands, Ended
<1> QED
  BY <1>1, <1>2, PTL DEF Spec

\* Every reachable state is well typed.
THEOREM TypeCorrect == Spec => []TypeOK
  BY TypedAndPlanned, PTL

(***************************************************************************)
(* Whoever wrote the state last goes on from there: its plan is a chain of *)
(* the table that ends where a campaign may stay, or in draining, and then *)
(* the command concludes.                                                  *)
(***************************************************************************)
Chain(steps, next) ==
  steps # <<>> =>
    /\ \A i \in 1 .. Len(steps) - 1 : steps[i + 1] \in Table[steps[i]]
    /\ LET last == steps[Len(steps)]
       IN  last \in Settled \/ (last = "draining" /\ next = "conclude")
Chained == \A p \in Procs : Chain(plan[p], pc[p])

\* What a command that is at work will still write, whatever the others do.
Drives(p) ==
  \/ plan[p] # <<>> /\ (seen[p] # NoState \/ Head(plan[p]) \in Table[state])
  \/ plan[p] = <<>> /\ pc[p] = "conclude" /\ state = "draining"
Driven == state \in Settled \/ torn \/ \E p \in Procs : Drives(p)

\* Where a campaign may stay.
LEMMA States ==
  /\ \A s \in State : s # NoState
  /\ Settled = {"absent", "running", "paused", "completed", "partially_completed",
                "blocked", "failed", "cancelled"}
<1>1. State = {"absent", "created", "preflight", "ready", "running", "pausing", "paused",
               "draining", "completed", "partially_completed", "blocked", "failed", "cancelled"}
  BY DEF State, Table
<1>2. \A s \in State : s # NoState
  BY NoStateAssumption
<1>3. Settled = {"absent", "running", "paused", "completed", "partially_completed",
                 "blocked", "failed", "cancelled"}
  BY <1>1 DEF Settled, Final, Table
<1> QED BY <1>2, <1>3

\* The plans that commands begin with are chains.
LEMMA PlansAreChains ==
  ASSUME NEW next
  PROVE  /\ Chain(<<>>, next)
         /\ \A dryRun \in BOOLEAN :
              /\ Chain(StartPlan(dryRun), next)
              /\ StartPlan(dryRun) # <<>> /\ Head(StartPlan(dryRun)) \in Table["created"]
         /\ Chain(StopPlan, next)
         /\ Chain(<<"preflight", "ready", "running">>, next)
         /\ Chain(<<"draining">>, "conclude")
         /\ \A p \in Procs :
              Conclusion(p) \in Table["draining"] /\ Chain(<<Conclusion(p)>>, next)
<1>1. Chain(<<>>, next)
  BY DEF Chain
<1>2. Chain(<<"preflight", "ready", "running">>, next)
  BY States DEF Chain, Table
<1>3. Chain(<<"preflight", "ready", "running", "completed">>, next)
  BY States DEF Chain, Table
<1>4. \A dryRun \in BOOLEAN :
        /\ Chain(StartPlan(dryRun), next)
        /\ StartPlan(dryRun) # <<>> /\ Head(StartPlan(dryRun)) \in Table["created"]
  BY <1>2, <1>3 DEF StartPlan, Table
<1>5. Chain(StopPlan, next)
  BY States DEF Chain, StopPlan, Table
<1>6. Chain(<<"draining">>, "conclude")
  BY DEF Chain
<1>7. \A p \in Procs :
        Conclusion(p) \in Table["draining"] /\ Chain(<<Conclusion(p)>>, next)
  BY States DEF Chain, Conclusion, Table
<1> QED BY <1>1, <1>2, <1>4, <1>5, <1>6, <1>7

\* The rest of a sequence that is not empty.
LEMMA RestOf ==
  ASSUME NEW S, NEW s \in Seq(S), s # <<>>
  PROVE  /\ Len(s) \in Nat \ {0} /\ Head(s) = s[1] /\ Tail(s) \in Seq(S)
         /\ Len(Tail(s)) = Len(s) - 1
         /\ \A i \in 1 .. Len(s) - 1 : Tail(s)[i] = s[i + 1]
         /\ Len(s) = 1 => Tail(s) = <<>>
         /\ Len(s) > 1 => Tail(s) # <<>> /\ Head(Tail(s)) = s[2]
<1>1. /\ Len(s) \in Nat \ {0} /\ Head(s) = s[1] /\ Tail(s) \in Seq(S)
      /\ Len(Tail(s)) = Len(s) - 1
  BY EmptySeq
<1>2. \A i \in 1 .. Len(s) - 1 : Tail(s)[i] = s[i + 1]
  OBVIOUS
<1>3. Tail(s) = <<>> <=> Len(Tail(s)) = 0
  BY <1>1, EmptySeq
<1>4. Len(s) > 1 => Tail(s)[1] = s[1 + 1]
  BY <1>1, <1>2
<1>5. Tail(s) # <<>> => Head(Tail(s)) = Tail(s)[1]
  BY <1>1
<1> QED BY <1>1, <1>2, <1>3, <1>4, <1>5

\* A command that begins or ends with a chain leaves all plans chains.
LEMMA ChainedOn ==
  ASSUME Chained, pc \in [Procs -> Step], plan \in [Procs -> Seq(State)],
         NEW p \in Procs, NEW next, NEW steps, Chain(steps, next),
         pc' = [pc EXCEPT ![p] = next], plan' = [plan EXCEPT ![p] = steps]
  PROVE  Chained'
<1>1. /\ pc'[p] = next /\ plan'[p] = steps
      /\ \A q \in Procs \ {p} : pc'[q] = pc[q] /\ plan'[q] = plan[q]
  OBVIOUS
<1>2. \A q \in Procs : Chain(plan'[q], pc'[q])
  BY <1>1 DEF Chained
<1> QED BY <1>2 DEF Chained, Chain

\* A command that touches neither the state nor a plan that drives leaves it driven.
LEMMA DrivenOn ==
  ASSUME Driven, NEW p \in Procs, state' = state, torn' = torn \/ torn',
         \A q \in Procs \ {p} : /\ plan'[q] = plan[q] /\ pc'[q] = pc[q]
                                /\ seen'[q] = seen[q],
         ~ Drives(p) \/ Drives(p)'
  PROVE  Driven'
<1>1. \A q \in Procs \ {p} : Drives(q) => Drives(q)'
  BY DEF Drives
<1> QED BY <1>1 DEF Driven

\* Every reachable campaign is driven or settled, and every plan a chain.
LEMMA DrivenAlways == Spec => [](Chained /\ Driven)
<1>1. Init => Chained /\ Driven
  BY PlansAreChains, States DEF Init, Chained, Driven
<1>2. TypeOK /\ Planned /\ Chained /\ Driven /\ [Next]_vars => (Chained /\ Driven)'
  <2> SUFFICES ASSUME TypeOK, Planned, Chained, Driven, [Next]_vars
               PROVE  (Chained /\ Driven)'
    OBVIOUS
  <2> USE DEF TypeOK
  <2>1. ASSUME NEW p \in Procs, NEW dryRun \in BOOLEAN, Start(p, dryRun)
        PROVE  (Chained /\ Driven)'
    <3>1. /\ state' = "created" /\ seen' = seen /\ seen[p] = NoState
          /\ plan' = [plan EXCEPT ![p] = StartPlan(dryRun)]
          /\ \A q \in Procs \ {p} : pc'[q] = pc[q]
      BY <2>1 DEF Start, Planned
    <3>2. Chained'
      BY <2>1, PlansAreChains, ChainedOn DEF Start
    <3>3. Drives(p)'
      BY <3>1, PlansAreChains DEF Drives
    <3> QED BY <3>2, <3>3 DEF Driven
  <2>2. ASSUME NEW p \in Procs, NEW command \in Commands, NEW flag \in BOOLEAN,
               Give(p, command, flag)
        PROVE  (Chained /\ Driven)'
    <3>1. Chained'
      BY <2>2, PlansAreChains, ChainedOn DEF Give
    <3>2. ~ Drives(p)
      BY <2>2 DEF Give, Drives
    <3> QED BY <2>2, <3>1, <3>2, DrivenOn DEF Give
  <2>3. ASSUME UNCHANGED <<state, pc, plan, seen, torn>>
        PROVE  (Chained /\ Driven)'
    BY <2>3 DEF Chained, Chain, Driven, Drives
  <2>4. ASSUME NEW p \in Procs, Read(p) PROVE (Chained /\ Driven)'
    <3>1. Chained'
      BY <2>4 DEF Read, Chained, Chain
    <3>2. Drives(p)'
      <4>1. seen'[p] = state /\ plan' = plan /\ plan[p] # <<>>
        BY <2>4 DEF Read
      <4> QED BY <4>1, States DEF Drives
    <3> QED BY <2>4, <3>1, <3>2, DrivenOn DEF Read
  <2>5. ASSUME NEW p \in Procs, Invalid(p) PROVE (Chained /\ Driven)'
    <3>1. Chained'
      BY <2>5, PlansAreChains, ChainedOn DEF Invalid
    <3>2. ~ Drives(p)
      BY <2>5 DEF Invalid, Drives, Valid
    <3> QED BY <2>5, <3>1, <3>2, DrivenOn DEF Invalid
  <2>6. ASSUME NEW p \in Procs, Write(p) PROVE (Chained /\ Driven)'
    <3>1. /\ plan[p] # <<>> /\ plan[p] \in Seq(State) /\ state' = Head(plan[p])
          /\ plan' = [plan EXCEPT ![p] = Tail(plan[p])] /\ pc' = pc
          /\ seen' = [seen EXCEPT ![p] = NoState]
      BY <2>6 DEF Write, Planned
    <3>2. Chain(plan[p], pc[p])
      BY DEF Chained
    <3>3. /\ Len(plan[p]) \in Nat \ {0} /\ state' = plan[p][1] /\ Tail(plan[p]) \in Seq(State)
          /\ Len(Tail(plan[p])) = Len(plan[p]) - 1
          /\ \A i \in 1 .. Len(plan[p]) - 1 : Tail(plan[p])[i] = plan[p][i + 1]
      BY <3>1, RestOf
    <3>4. CASE Len(plan[p]) = 1
      <4>1. Tail(plan[p]) = <<>>
        BY <3>1, <3>4, RestOf
      <4>2. state' \in Settled \/ (state' = "draining" /\ pc[p] = "conclude")
        BY <3>1, <3>2, <3>3, <3>4 DEF Chain
      <4>3. plan'[p] = <<>> /\ pc'[p] = pc[p] /\ pc' = [pc EXCEPT ![p] = pc[p]]
        BY <3>1, <4>1
      <4>4. Chained'
        BY <3>1, <4>1, <4>3, PlansAreChains, ChainedOn
      <4> QED BY <4>2, <4>3, <4>4 DEF Driven, Drives
    <3>5. CASE Len(plan[p]) > 1
      <4>1. Tail(plan[p]) # <<>> /\ Head(Tail(plan[p])) = plan[p][2]
        BY <3>1, <3>5, RestOf
      <4>2. plan[p][2] \in Table[state']
        <5>1. 1 \in 1 .. Len(plan[p]) - 1
          BY <3>3, <3>5
        <5>2. plan[p][1 + 1] \in Table[plan[p][1]]
          BY <3>1, <3>2, <5>1 DEF Chain
        <5> QED BY <3>3, <5>2
      <4>3. Chain(Tail(plan[p]), pc[p])
        <5>1. Tail(plan[p])[Len(Tail(plan[p]))] = plan[p][Len(plan[p])]
          BY <3>3, <3>5
        <5>2. \A i \in 1 .. Len(Tail(plan[p])) - 1 :
                /\ i + 1 \in 1 .. Len(plan[p]) - 1 /\ i \in 1 .. Len(plan[p]) - 1
          BY <3>3
        <5>3. \A i \in 1 .. Len(Tail(plan[p])) - 1 :
                Tail(plan[p])[i] = plan[p][i + 1] /\ Tail(plan[p])[i + 1] = plan[p][i + 1 + 1]
          BY <3>3, <5>2
        <5>4. \A i \in 1 .. Len(plan[p]) - 1 : plan[p][i + 1] \in Table[plan[p][i]]
          BY <3>1, <3>2 DEF Chain
        <5>5. \A i \in 1 .. Len(Tail(plan[p])) - 1 :
                Tail(plan[p])[i + 1] \in Table[Tail(plan[p])[i]]
          BY <5>2, <5>3, <5>4
        <5> QED BY <3>1, <3>2, <5>1, <5>5 DEF Chain
      <4>4. plan'[p] = Tail(plan[p]) /\ pc' = [pc EXCEPT ![p] = pc[p]]
        BY <3>1
      <4>5. Chained'
        BY <3>1, <4>3, <4>4, ChainedOn
      <4> QED BY <4>1, <4>2, <4>4, <4>5 DEF Driven, Drives
    <3> QED BY <3>3, <3>4, <3>5
  <2>7. ASSUME NEW p \in Procs, EndBatch(p) PROVE (Chained /\ Driven)'
    <3>1. Chained'
      BY <2>7, PlansAreChains, ChainedOn DEF EndBatch
    <3>2. ~ Drives(p)
      BY <2>7 DEF EndBatch, Drives
    <3> QED BY <2>7, <3>1, <3>2, DrivenOn DEF EndBatch
  <2>8. ASSUME NEW p \in Procs, Stop(p) PROVE (Chained /\ Driven)'
    <3>1. Chained'
      BY <2>8, PlansAreChains, ChainedOn DEF Stop
    <3>2. ~ Drives(p)
      BY <2>8 DEF Stop, Drives
    <3> QED BY <2>8, <3>1, <3>2, DrivenOn DEF Stop
  <2>9. ASSUME NEW p \in Procs, Resume(p) PROVE (Chained /\ Driven)'
    <3>1. Chained'
      BY <2>9, PlansAreChains, ChainedOn DEF Resume
    <3>2. ~ Drives(p)
      BY <2>9 DEF Resume, Drives
    <3> QED BY <2>9, <3>1, <3>2, DrivenOn DEF Resume
  <2>10. ASSUME NEW p \in Procs, Resumed(p) PROVE (Chained /\ Driven)'
    <3>1. Chained'
      BY <2>10, PlansAreChains, ChainedOn DEF Resumed
    <3>2. ~ Drives(p)
      BY <2>10 DEF Resumed, Drives
    <3> QED BY <2>10, <3>1, <3>2, DrivenOn DEF Resumed
  <2>11. ASSUME NEW p \in Procs, Drain(p) PROVE (Chained /\ Driven)'
    <3>1. Chained'
      BY <2>11, PlansAreChains, ChainedOn DEF Drain
    <3>2. ~ Drives(p)
      BY <2>11 DEF Drain, Drives
    <3> QED BY <2>11, <3>1, <3>2, DrivenOn DEF Drain
  <2>12. ASSUME NEW p \in Procs, Conclude(p) PROVE (Chained /\ Driven)'
    <3>1. Chained'
      BY <2>12, PlansAreChains, ChainedOn DEF Conclude
    <3>2. ~ Drives(p) \/ Drives(p)'
      <4>1. CASE state = "draining"
        <5>1. plan' = [plan EXCEPT ![p] = <<Conclusion(p)>>] /\ state' = state
          BY <2>12, <4>1 DEF Conclude
        <5>2. plan'[p] = <<Conclusion(p)>> /\ Conclusion(p) \in Table[state']
          BY <4>1, <5>1, PlansAreChains
        <5> QED BY <5>2 DEF Drives
      <4>2. CASE state # "draining"
        BY <2>12, <4>2 DEF Conclude, Drives
      <4> QED BY <4>1, <4>2
    <3> QED BY <2>12, <3>1, <3>2, DrivenOn DEF Conclude
  <2>13. ASSUME NEW p \in Procs, Crash(p) PROVE (Chained /\ Driven)'
    <3>1. Chained'
      BY <2>13, PlansAreChains, ChainedOn DEF Crash
    <3>2. torn' \/ ~ Drives(p)
      BY <2>13 DEF Crash, Drives
    <3>3. CASE torn'
      BY <3>1, <3>3 DEF Driven
    <3>4. CASE ~ torn'
      BY <2>13, <3>1, <3>2, <3>4, DrivenOn DEF Crash
    <3> QED BY <3>3, <3>4
  <2>14. CASE UNCHANGED vars
    BY <2>3, <2>14 DEF vars
  <2>15. ASSUME NEW p \in Procs, NEW r \in Runs, NEW how \in Ended,
                SkipRun(p, r) \/ BeginRun(p, r) \/ EndRun(p, r, how)
         PROVE  (Chained /\ Driven)'
    BY <2>3, <2>15 DEF SkipRun, BeginRun, EndRun
  <2> QED
    BY <2>1, <2>2, <2>4, <2>5, <2>6, <2>7, <2>8, <2>9, <2>10, <2>11, <2>12, <2>13,
       <2>14, <2>15 DEF Next, Work, Commands, Ended
<1> QED
  BY <1>1, <1>2, TypedAndPlanned, PTL DEF Spec

\* However the start, stop, resume and report commands overwrite each other's transitions
\* (transition_campaign validates in one transaction and updates in another), when none is
\* at work the campaign runs, is paused or has ended, unless one died inside its plan.
THEOREM NeverWedged == Spec => []Unwedged
<1>1. Driven => Unwedged
  BY DEF Driven, Drives, Unwedged
<1> QED
  BY <1>1, DrivenAlways, PTL
-----------------------------------------------------------------------------
(***************************************************************************)
(* The night: what it did, and what it says it did.                        *)
(***************************************************************************)
Gates == {"blocked", "failed", "no_targets", "no_authorizable_actions", "planned"}
Accounts == [Numbers \X Targets -> Nat]
AtItem == {"item", "answer", "feedback"}
Running == {"round", "closing"} \cup AtItem
Finished == {"summary", "written", "dead"}

\* The night is at one program of its catalog; a result is of an earlier one.
Placed ==
  /\ programs \in Catalogs /\ stage \in Running \cup Finished \cup {"gates"}
  /\ current \in Nat /\ current > 0
  /\ stage \notin Finished => current <= LastProgram
  /\ \E S : results \in Seq(S)
  /\ \A i \in 1..Len(results) : results[i].program \in 1..(current - 1)

\* The accounts of the programs to come are empty, that of the current one is in its memory.
Accounted ==
  /\ sent \in Accounts /\ answered \in Accounts
  /\ \A n \in Numbers, t \in Targets :
       /\ answered[<<n, t>>] <= 1
       /\ n > current => sent[<<n, t>>] = 0 /\ answered[<<n, t>>] = 0
       /\ n = current /\ stage = "gates" => sent[<<n, t>>] = 0 /\ answered[<<n, t>>] = 0
       /\ n = current /\ stage \notin Finished => (t \in observed <=> answered[<<n, t>>] = 1)
  /\ observed \subseteq Targets
  /\ actions \in Nat /\ issued \in Nat /\ actions = Cardinality(observed)
  /\ actions <= issued
  /\ stage = "answer" => actions < issued

\* The queue names each target once, none of those observed is still to come, and each is
\* one that policy and review allow.
Rowed ==
  /\ DOMAIN registry \subseteq Targets
  /\ stage \in Running => Program.review \in {"none", "valid"}
  /\ stage \in AtItem =>
       /\ rows \in Seq(Targets) /\ position \in Nat /\ position > 0
       /\ stage # "item" => position <= Len(rows)
       /\ \A i \in 1..Len(rows) :
            /\ rows[i] \in Program.allowed
            /\ Program.guarded => rows[i] \in Program.cleared
            /\ i > position \/ (i = position /\ stage # "feedback") => rows[i] \notin observed
       /\ \A i, j \in 1..Len(rows) : i # j => rows[i] # rows[j]

NightInv == Placed /\ Accounted /\ Rowed /\ ReviewedOnly /\ ResultsTruthful

\* A cascade that has no verdict to give falls through; one that has gives one of its rows'.
LEMMA Cascades ==
  ASSUME NEW cascade, NEW n \in Nat, DOMAIN cascade = 1..n, NEW otherwise
  PROVE  /\ (\A i \in 1..n : ~cascade[i][1]) => FirstVerdict(cascade, otherwise) = otherwise
         /\ (\E i \in 1..n : cascade[i][1]) => \E i \in 1..n : FirstVerdict(cascade, otherwise) = cascade[i][2]
<1> DEFINE hits == {i \in DOMAIN cascade : cascade[i][1]}
<1>1. CASE hits = {}
  BY <1>1 DEF FirstVerdict
<1>2. CASE hits # {}
  <2>1. hits \subseteq Nat
    OBVIOUS
  <2> HIDE DEF hits
  <2>2. PICK x \in hits : \A y \in hits : ~ (<<y, x>> \in OpToRel(<, Nat))
    BY <1>2, <2>1, WFMin, NatLessThanWellFounded
  <2>3. \A y \in hits : x <= y
    <3>1. x \in hits /\ \A y \in hits : ~ (y < x)
      BY <2>1, <2>2 DEF OpToRel
    <3> QED
      BY <2>1, <3>1
  <2>4. (CHOOSE i \in hits : \A j \in hits : i <= j) \in hits
    BY <2>3
  <2> USE DEF hits
  <2>5. FirstVerdict(cascade, otherwise) = cascade[CHOOSE i \in hits : \A j \in hits : i <= j][2]
    BY <1>2 DEF FirstVerdict
  <2> QED
    BY <2>4, <2>5
<1> QED
  BY <1>1, <1>2

\* A program that passes the gates has no review that was refused.
LEMMA GateVerdict ==
  ASSUME NEW p, NEW isFresh, NEW execute
  PROVE  /\ Gate(p, isFresh, execute) \in Gates \cup {"run", "escape"}
         /\ Gate(p, isFresh, execute) = "run" => ~ReviewRefused(p)
<1> DEFINE gates ==
      << <<p.sync = "failed", "blocked">>,
         <<p.sync = "unsynced", "blocked">>,
         <<p.file = "malformed", "escape">>,
         <<p.file \in {"unreadable", "invalid"}, "failed">>,
         <<p.file = "issues", "blocked">>,
         <<p.file = "uncompilable", "blocked">>,
         <<ReviewRefused(p), "failed">>,
         <<p.seeds = {}, "no_targets">>,
         <<NotOnline(p), "blocked">>,
         <<Authorizable(p, SeedRegistry(p), isFresh) = {} /\ SemanticBlocks(p, SeedRegistry(p), isFresh),
           "blocked">>,
         <<Authorizable(p, SeedRegistry(p), isFresh) = {}, "no_authorizable_actions">>,
         <<~execute, "planned">> >>
<1>1. Gate(p, isFresh, execute) = FirstVerdict(gates, "run")
  BY DEF Gate
<1>2. DOMAIN gates = 1..12 /\ 12 \in Nat
  OBVIOUS
<1>3. gates[7][1] <=> ReviewRefused(p)
  OBVIOUS
<1>4. \A i \in 1..12 : gates[i][2] \in Gates \cup {"escape"}
  BY DEF Gates
<1> HIDE DEF gates
<1>5. "run" \notin Gates \cup {"escape"}
  BY DEF Gates
<1>6. CASE \A i \in 1..12 : ~gates[i][1]
  <2>1. FirstVerdict(gates, "run") = "run"
    BY <1>2, <1>6, Cascades
  <2>2. ~gates[7][1]
    BY <1>6
  <2> QED
    BY <1>1, <1>3, <2>1, <2>2
<1>7. CASE \E i \in 1..12 : gates[i][1]
  <2>1. \E i \in 1..12 : FirstVerdict(gates, "run") = gates[i][2]
    BY <1>2, <1>7, Cascades
  <2> QED
    BY <1>1, <1>4, <1>5, <2>1
<1> QED
  BY <1>6, <1>7

\* The sequence made of a finite set names each of its elements once.
LEMMA SetInSequence ==
  ASSUME NEW S, IsFiniteSet(S)
  PROVE  /\ Cardinality(S) \in Nat
         /\ SetToSeq(S) \in [1..Cardinality(S) -> S]
         /\ \A i, j \in 1..Cardinality(S) : i # j => SetToSeq(S)[i] # SetToSeq(S)[j]
<1>1. Cardinality(S) \in Nat /\ ExistsBijection(1..Cardinality(S), S)
  BY FS_CardinalityType
<1>2. \E f \in [1..Cardinality(S) -> S] : IsInjective(f)
  BY <1>1 DEF ExistsBijection, Bijection, Injection
<1>3. SetToSeq(S) \in [1..Cardinality(S) -> S] /\ IsInjective(SetToSeq(S))
  BY <1>2 DEF SetToSeq
<1> QED
  BY <1>1, <1>3 DEF IsInjective

LEMMA LinksAreTargets ==
  ASSUME DOMAIN registry \subseteq Targets, NEW t \in Targets
  PROVE  DOMAIN Discovered(t) \subseteq Targets
<1> DEFINE n == Least(Len(Links[t]), MaxLinks)
           s == SubSeq(Links[t], 1, n)
           Link == [form : {"http", "redacted", "unsafe_scheme", "invalid", "credentials"},
                    target : Targets]
<1>0. Links[t] \in Seq(Link) /\ MaxLinks \in Nat
  BY LinksAssumption, NightBudgetAssumption DEF Targets
<1>1. Links[t] \in Seq(Link) /\ Len(Links[t]) \in Nat /\ MaxLinks \in Nat
  <2> HIDE DEF Link
  <2> QED
    BY <1>0
<1> HIDE DEF Link
<1>2. n \in Nat /\ n <= Len(Links[t])
  BY <1>1 DEF Least
<1>3. \A i \in 1..n : Links[t][i] \in Link
  BY <1>1, <1>2
<1> HIDE DEF n
<1>4. s \in Seq(Link)
  BY <1>1, <1>2, <1>3, SubSeqProperties
<1>5. \A i \in DOMAIN s : s[i] \in Link
  BY <1>4
<1> HIDE DEF s
<1>6. \A i \in DOMAIN s : s[i].target \in Targets
  BY <1>5 DEF Link
<1>7. \A i \in DOMAIN s : CanonicalForm[s[i].target] \in Targets
  BY <1>6, CanonicalAssumption DEF Targets
<1>8. DOMAIN Merged(t, s) \subseteq Targets
  BY <1>7 DEF Merged
<1> QED
  BY <1>8 DEF Discovered, s, n

\* Where the night is.
LEMMA AtProgram ==
  ASSUME Placed, stage \notin Finished
  PROVE  /\ current \in Numbers /\ current \in Nat /\ current <= Len(programs)
         /\ Numbers = 1..Len(programs) /\ Len(programs) \in Nat /\ LastProgram <= Len(programs)
         /\ LastProgram \in Nat /\ LastProgram > 0 /\ current <= LastProgram
         /\ Program.seeds \subseteq Targets
<1>1. /\ Len(programs) \in Nat \ {0} /\ Numbers = 1..Len(programs) /\ MaxPrograms \in Nat \ {0}
      /\ \A n \in Numbers : programs[n].seeds \subseteq Targets
  BY CatalogAssumption DEF Placed, Numbers, Targets
<1>2. LastProgram \in Nat /\ LastProgram <= Len(programs) /\ LastProgram > 0
  BY <1>1 DEF LastProgram
<1>3. current \in Numbers /\ current \in Nat /\ current <= LastProgram
  <2>1. current \in Nat /\ current > 0 /\ current <= LastProgram
    BY DEF Placed
  <2>2. current <= Len(programs)
    BY <1>1, <1>2, <2>1
  <2> HIDE DEF Numbers
  <2> QED
    BY <1>1, <2>1, <2>2
<1> QED
  BY <1>1, <1>2, <1>3 DEF Program

\* The item at hand.
LEMMA AtItsItem ==
  ASSUME Placed, Rowed, stage \in AtItem, position <= Len(rows)
  PROVE  /\ Item \in Targets /\ position \in 1..Len(rows) /\ position \in Nat
         /\ Len(rows) \in Nat
         /\ Item \in Program.allowed
         /\ Program.guarded => Item \in Program.cleared
<1>1. rows \in Seq(Targets) /\ position \in Nat /\ position > 0
  BY DEF Rowed
<1>2. Len(rows) \in Nat /\ position \in 1..Len(rows)
  BY <1>1
<1> QED
  BY <1>1, <1>2, ElementOfSeq DEF Item, Rowed

\* What one step at an item does to the accounts: nothing, a request, or a request that was
\* answered.
Sends == sent' = sent \/ Left(Item)
Answers == /\ Left(Item)
           /\ answered' = [answered EXCEPT ![<<current, Item>>] = @ + 1]

\* Elsewhere the accounts stay.
LEMMA AccountsElsewhere ==
  ASSUME NightInv, stage \notin Finished, Item \in Targets,
         (Sends /\ answered' = answered) \/ Answers
  PROVE  /\ sent' \in Accounts /\ answered' \in Accounts
         /\ \A n \in Numbers, t \in Targets :
              (n # current \/ t # Item) => /\ sent'[<<n, t>>] = sent[<<n, t>>]
                                           /\ answered'[<<n, t>>] = answered[<<n, t>>]
         /\ answered' = answered
              \/ answered'[<<current, Item>>] = answered[<<current, Item>>] + 1
<1>1. current \in Numbers
  BY AtProgram DEF NightInv
<1>2. sent \in Accounts /\ answered \in Accounts
  BY DEF NightInv, Accounted
<1>3. sent' = sent \/ sent' = [sent EXCEPT ![<<current, Item>>] = sent[<<current, Item>>] + 1]
  BY DEF Sends, Answers, Left
<1>4. \/ answered' = answered
      \/ answered' = [answered EXCEPT ![<<current, Item>>] = answered[<<current, Item>>] + 1]
  BY DEF Answers
<1> HIDE DEF Numbers, Targets, Item
<1>5. /\ <<current, Item>> \in Numbers \X Targets
      /\ sent[<<current, Item>>] \in Nat /\ answered[<<current, Item>>] \in Nat
  BY <1>1, <1>2 DEF Accounts
<1>6. \A n \in Numbers, t \in Targets :
        (n # current \/ t # Item) => <<n, t>> # <<current, Item>>
  OBVIOUS
<1>7. sent' \in Accounts /\ answered' \in Accounts
  <2>1. ASSUME NEW f \in Accounts, NEW n \in Nat
        PROVE  [f EXCEPT ![<<current, Item>>] = n] \in Accounts
    BY <1>5 DEF Accounts
  <2>2. sent[<<current, Item>>] + 1 \in Nat /\ answered[<<current, Item>>] + 1 \in Nat
    BY <1>5
  <2> QED
    BY <1>2, <1>3, <1>4, <2>1, <2>2
<1>8. \A k \in Numbers \X Targets :
        k # <<current, Item>> => sent'[k] = sent[k] /\ answered'[k] = answered[k]
  BY <1>2, <1>3, <1>4 DEF Accounts
<1>9. ASSUME NEW n \in Numbers, NEW t \in Targets, n # current \/ t # Item
      PROVE  sent'[<<n, t>>] = sent[<<n, t>>] /\ answered'[<<n, t>>] = answered[<<n, t>>]
  BY <1>6, <1>8, <1>9
<1>10. answered' = answered \/ answered'[<<current, Item>>] = answered[<<current, Item>>] + 1
  BY <1>2, <1>4, <1>5 DEF Accounts
<1> QED
  BY <1>7, <1>9, <1>10

\* A request goes to the item at hand, and its result is still to come.
LEMMA RequestsStay ==
  ASSUME NightInv, stage \in AtItem, position <= Len(rows),
         UNCHANGED <<programs, current, results>>,
         (Sends /\ answered' = answered) \/ Answers
  PROVE  ReviewedOnly' /\ ResultsTruthful'
<1>1. /\ Item \in Targets /\ Item \in Program.allowed
      /\ Program.guarded => Item \in Program.cleared
  BY AtItsItem DEF NightInv
<1>2. stage \notin Finished /\ stage \in Running
  BY DEF Finished, AtItem, Running
<1>3. \A n \in Numbers, t \in Targets :
        (n # current \/ t # Item) => /\ sent'[<<n, t>>] = sent[<<n, t>>]
                                     /\ answered'[<<n, t>>] = answered[<<n, t>>]
  BY <1>1, <1>2, AccountsElsewhere
<1>4. Program.review \in {"none", "valid"} /\ Numbers' = Numbers /\ Targets' = Targets
  BY <1>2 DEF NightInv, Rowed, Numbers, Targets
<1>5. ASSUME NEW n \in Numbers, NEW t \in Targets, sent'[<<n, t>>] > 0
      PROVE  /\ t \in programs[n].allowed
             /\ programs[n].guarded => t \in programs[n].cleared
             /\ programs[n].review \in {"none", "valid"}
  <2>1. CASE n = current /\ t = Item
    BY <1>1, <1>4, <2>1 DEF Program
  <2>2. CASE n # current \/ t # Item
    <3>1. sent[<<n, t>>] > 0
      BY <1>3, <1>5, <2>2
    <3> QED
      BY <3>1 DEF NightInv, ReviewedOnly, RequestsOf
  <2> QED
    BY <2>1, <2>2
<1>6. ReviewedOnly'
  BY <1>4, <1>5 DEF ReviewedOnly, RequestsOf
<1>7. ASSUME NEW i \in DOMAIN results
      PROVE  /\ results[i].program \in Numbers /\ results[i].program # current
  <2>1. i \in 1..Len(results)
    BY DEF NightInv, Placed
  <2>2. results[i].program \in 1..(current - 1)
    BY <2>1 DEF NightInv, Placed
  <2> QED
    BY <1>2, <2>2, AtProgram DEF NightInv
<1>8. ASSUME NEW i \in DOMAIN results
      PROVE  /\ RequestsOf(results[i].program)' = RequestsOf(results[i].program)
             /\ {t \in Targets : answered'[<<results[i].program, t>>] > 0}
                  = {t \in Targets : answered[<<results[i].program, t>>] > 0}
  BY <1>3, <1>4, <1>7 DEF RequestsOf
<1>9. ResultsTruthful'
  BY <1>4, <1>8 DEF NightInv, ResultsTruthful
<1> QED
  BY <1>6, <1>9

\* A program's result is kept and the next one begins with nothing done.
LEMMA NextStays ==
  ASSUME NightInv, stage \notin Finished, NEW result, NextProgram(result), result.program = current,
         result.status \notin {"completed", "failed"} => RequestsOf(current) = {},
         result.status = "completed" =>
           /\ result.observed = {t \in Targets : answered[<<current, t>>] > 0}
           /\ result.actions = Cardinality(result.observed) /\ result.actions <= result.permits
  PROVE  NightInv'
<1>1. /\ current \in Numbers /\ current \in Nat /\ Numbers = 1..Len(programs)
      /\ Len(programs) \in Nat /\ LastProgram <= Len(programs) /\ LastProgram \in Nat
      /\ LastProgram > 0 /\ current <= LastProgram
  BY AtProgram DEF NightInv
<1>2. /\ UNCHANGED <<programs, options, sent, answered, unknown>>
      /\ results' = Append(results, result) /\ current' = current + 1
      /\ stage' = IF current = LastProgram THEN "summary" ELSE "gates"
      /\ registry' = <<>> /\ observed' = {} /\ actions' = 0 /\ issued' = 0
  BY DEF NextProgram
<1>3. PICK S : results \in Seq(S)
  BY DEF NightInv, Placed
<1> DEFINE T == S \cup {result}
<1>4. results \in Seq(T) /\ result \in T
  BY <1>3, SeqMonotonic
<1> HIDE DEF T
<1>5. /\ results' \in Seq(T) /\ Len(results') = Len(results) + 1 /\ Len(results) \in Nat
      /\ DOMAIN results = 1..Len(results) /\ DOMAIN results' = 1..(Len(results) + 1)
      /\ \A i \in 1..Len(results) : results'[i] = results[i]
      /\ results'[Len(results) + 1] = result
  BY <1>2, <1>4
<1>6. \A i \in 1..Len(results') :
        \/ i \in 1..Len(results) /\ results'[i] = results[i]
        \/ results'[i] = result
  BY <1>5
<1>7. Placed'
  <2>1. \A i \in 1..Len(results') : results'[i].program \in 1..(current' - 1)
    <3> TAKE i \in 1..Len(results')
    <3>1. CASE i \in 1..Len(results) /\ results'[i] = results[i]
      <4>1. results[i].program \in 1..(current - 1)
        BY <3>1 DEF NightInv, Placed
      <4> QED
        BY <1>1, <1>2, <3>1, <4>1
    <3>2. CASE results'[i] = result
      BY <1>1, <1>2, <3>2 DEF NightInv, Placed
    <3> QED
      BY <1>6, <3>1, <3>2
  <2>2. current' \in Nat /\ current' > 0 /\ (stage' \notin Finished => current' <= LastProgram')
    BY <1>1, <1>2 DEF Finished, LastProgram
  <2>3. stage' \in Running \cup Finished \cup {"gates"} /\ programs' \in Catalogs
    BY <1>2 DEF Finished, NightInv, Placed
  <2> QED
    BY <1>5, <2>1, <2>2, <2>3 DEF Placed
<1>8. Accounted'
  <2>1. /\ sent \in Accounts /\ answered \in Accounts
        /\ \A n \in Numbers, t \in Targets :
             /\ answered[<<n, t>>] <= 1
             /\ n > current => sent[<<n, t>>] = 0 /\ answered[<<n, t>>] = 0
    BY DEF NightInv, Accounted
  <2>2. Accounts' = Accounts /\ Numbers' = Numbers /\ Targets' = Targets
    BY <1>2 DEF Accounts, Numbers, Targets
  <2>3. \A n \in Numbers : n \in Nat /\ (n > current + 1 => n > current)
                            /\ (n = current + 1 => n > current)
    BY <1>1
  <2>4. \A n \in Numbers, t \in Targets :
          /\ answered[<<n, t>>] <= 1
          /\ n > current + 1 => sent[<<n, t>>] = 0 /\ answered[<<n, t>>] = 0
          /\ n = current + 1 => sent[<<n, t>>] = 0 /\ answered[<<n, t>>] = 0
    BY <2>1, <2>3
  <2>5. Cardinality({}) = 0
    BY FS_EmptySet
  <2>6. stage' # "answer"
    BY <1>2
  <2> HIDE DEF Numbers, Targets, Accounts
  <2> QED
    BY <1>2, <2>1, <2>2, <2>4, <2>5, <2>6 DEF Accounted
<1>9. Rowed'
  <2>1. DOMAIN registry' = {}
    BY <1>2
  <2>2. stage' \notin Running
    BY <1>2 DEF Running, AtItem
  <2> QED
    BY <2>1, <2>2 DEF Rowed, Running, AtItem
<1>10. ReviewedOnly'
  BY <1>2 DEF NightInv, ReviewedOnly, RequestsOf, Numbers, Targets
<1>11. ResultsTruthful'
  <2> DEFINE Sound(r) ==
        /\ r.status \notin {"completed", "failed"}
             => {t \in Targets : sent[<<r.program, t>>] > 0} = {}
        /\ r.status = "completed" =>
             /\ r.observed = {t \in Targets : answered[<<r.program, t>>] > 0}
             /\ r.actions = Cardinality(r.observed) /\ r.actions <= r.permits
  <2>1. \A i \in 1..Len(results) : Sound(results[i])
    BY <1>5 DEF NightInv, ResultsTruthful, RequestsOf
  <2>2. Sound(result)
    BY DEF RequestsOf
  <2> HIDE DEF Sound
  <2>3. \A i \in 1..Len(results') : Sound(results'[i])
    BY <1>6, <2>1, <2>2
  <2>4. DOMAIN results' = 1..Len(results') /\ answered' = answered /\ sent' = sent
        /\ Targets' = Targets
    BY <1>2, <1>5 DEF Targets
  <2> HIDE DEF Targets
  <2> QED
    BY <2>3, <2>4 DEF ResultsTruthful, RequestsOf, Sound
<1> QED
  BY <1>7, <1>8, <1>9, <1>10, <1>11 DEF NightInv

\* Where the accounts stand still, what is said of them stays.
LEMMA QuietStays ==
  ASSUME NightInv, stage \in Running \cup {"gates"}, stage' \in Running,
         UNCHANGED <<programs, current, results, sent, answered, observed, actions>>,
         issued' \in Nat, issued <= issued', stage' = "answer" => actions < issued'
  PROVE  Placed' /\ Accounted' /\ ReviewedOnly' /\ ResultsTruthful'
<1>1. stage \notin Finished /\ stage' \notin Finished /\ stage' # "gates"
  BY DEF Finished, Running, AtItem
<1>2. Numbers' = Numbers /\ Targets' = Targets /\ Accounts' = Accounts
      /\ LastProgram' = LastProgram
  BY DEF Numbers, Targets, Accounts, LastProgram
<1>3. Placed'
  BY <1>1, <1>2 DEF NightInv, Placed
<1>4. actions <= issued'
  BY DEF NightInv, Accounted
<1>5. Accounted'
  <2> HIDE DEF Numbers, Targets, Accounts
  <2> QED
    BY <1>1, <1>2, <1>4 DEF NightInv, Accounted
<1>6. ReviewedOnly'
  BY <1>2 DEF NightInv, ReviewedOnly, RequestsOf
<1>7. ResultsTruthful'
  BY <1>2 DEF NightInv, ResultsTruthful, RequestsOf
<1> QED
  BY <1>3, <1>5, <1>6, <1>7

\* An error that nothing catches leaves everything as it is.
LEMMA EscapeStays == NightInv /\ Escape => NightInv'
<1> SUFFICES ASSUME NightInv, Escape PROVE NightInv'
  OBVIOUS
<1>1. /\ stage' \in Finished /\ stage' \notin Running /\ stage' \notin AtItem
      /\ stage' \notin {"gates", "answer"}
      /\ UNCHANGED <<programs, current, registry, rows, position, observed, actions, issued,
                     results, sent, answered>>
  BY DEF Escape, Finished, Running, AtItem
<1>2. Placed' /\ Rowed' /\ ReviewedOnly' /\ ResultsTruthful'
  BY <1>1 DEF NightInv, Placed, Rowed, ReviewedOnly, ResultsTruthful, RequestsOf, Numbers, Targets
<1>3. Accounted'
  BY <1>1 DEF NightInv, Accounted, Accounts, Numbers, Targets
<1> QED
  BY <1>2, <1>3 DEF NightInv

\* The gates let a program with a sound review through, and make a result of every other.
LEMMA GatesStay == NightInv /\ PassGates => NightInv'
<1> SUFFICES ASSUME NightInv, PassGates PROVE NightInv'
  OBVIOUS
<1> DEFINE verdict == Gate(Program, fresh, options.execute)
<1>1. stage = "gates" /\ stage \notin Finished
  BY DEF Finished, PassGates
<1>2. verdict \in Gates \cup {"run", "escape"} /\ (verdict = "run" => ~ReviewRefused(Program))
  BY GateVerdict
<1>3. current \in Numbers /\ Program.seeds \subseteq Targets
  BY <1>1, AtProgram DEF NightInv
<1>4. CASE verdict \notin {"run", "escape"} /\ NextProgram(Result(verdict, FALSE))
  <2>1. /\ Result(verdict, FALSE).program = current
        /\ Result(verdict, FALSE).status \in Gates
    BY <1>2, <1>4 DEF Result
  <2>2. Result(verdict, FALSE).status # "completed"
    BY <2>1 DEF Gates
  <2>3. RequestsOf(current) = {}
    BY <1>1, <1>3 DEF NightInv, Accounted, RequestsOf
  <2> HIDE DEF verdict
  <2> QED
    BY <1>1, <1>4, <2>1, <2>2, <2>3, NextStays
<1>5. CASE verdict = "run" /\ stage' = "round" /\ registry' = SeedRegistry(Program)
           /\ UNCHANGED <<programs, options, current, fresh, round, rows, position, failures,
                          observed, actions, issued, results, sent, answered, unknown>>
  <2>1. Placed' /\ Accounted' /\ ReviewedOnly' /\ ResultsTruthful'
    <3>1. stage' \in Running /\ stage \in Running \cup {"gates"} /\ stage' # "answer"
      BY <1>1, <1>5 DEF Running
    <3>2. issued' \in Nat /\ issued <= issued'
      BY <1>5 DEF NightInv, Accounted
    <3> HIDE DEF verdict
    <3> QED
      BY <1>5, <3>1, <3>2, QuietStays
  <2>2. DOMAIN registry' = Program.seeds /\ Program' = Program
    BY <1>5 DEF SeedRegistry, Program
  <2>3. Program.review \in {"none", "valid"}
    BY <1>2, <1>5 DEF ReviewRefused
  <2>4. Rowed'
    BY <1>3, <1>5, <2>2, <2>3 DEF Rowed, AtItem, Targets
  <2> QED
    BY <2>1, <2>4 DEF NightInv
<1> QED
  BY <1>4, <1>5, EscapeStays DEF PassGates

\* A round's queue: targets that policy and review allow, none observed, each once.
LEMMA QueueOfRound ==
  ASSUME NightInv, stage \notin Finished
  PROVE  /\ RoundQueue \in Seq(Targets) /\ Len(RoundQueue) \in Nat
         /\ \A i \in 1..Len(RoundQueue) : /\ RoundQueue[i] \in Program.allowed
                                          /\ Program.guarded => RoundQueue[i] \in Program.cleared
                                          /\ RoundQueue[i] \notin observed
         /\ \A i, j \in 1..Len(RoundQueue) : i # j => RoundQueue[i] # RoundQueue[j]
<1> DEFINE open == Authorizable(Program, registry, fresh) \ observed
           n == Least(Cardinality(open), Remaining)
           s == SetToSeq(open)
<1>1. open \subseteq Targets
  BY DEF NightInv, Rowed, Authorizable
<1>2. IsFiniteSet(open)
  BY <1>1, LinksAssumption, FS_Subset DEF Targets
<1>3. \A t \in open : /\ t \in Targets /\ t \in Program.allowed /\ t \notin observed
                      /\ Program.guarded => t \in Program.cleared
  BY <1>1 DEF Authorizable
<1> HIDE DEF open
<1>4. /\ Cardinality(open) \in Nat /\ s \in [1..Cardinality(open) -> open]
      /\ \A i, j \in 1..Cardinality(open) : i # j => s[i] # s[j]
  BY <1>2, SetInSequence
<1>5. Remaining \in Nat
  <2>1. actions \in Nat /\ MaxActions \in Nat /\ MaxRequests \in Nat
    BY NightBudgetAssumption DEF NightInv, Accounted
  <2> QED
    BY <2>1 DEF Remaining, Least
<1>6. n \in Nat /\ n <= Cardinality(open)
  BY <1>4, <1>5 DEF Least
<1> HIDE DEF n, s
<1>7. \A i \in 1..n : s[i] \in open /\ i \in 1..Cardinality(open)
  BY <1>4, <1>6
<1>8. RoundQueue = SubSeq(s, 1, n)
  BY DEF RoundQueue, open, n, s
<1>9. /\ RoundQueue \in Seq(open) /\ Len(RoundQueue) = n
      /\ \A i \in 1..n : RoundQueue[i] = s[i]
  <2>1. 1 \in Int /\ n \in Int /\ \A i \in 1..n : s[i] \in open
    BY <1>6, <1>7
  <2>2. /\ RoundQueue \in Seq(open) /\ Len(RoundQueue) = IF 1 <= n THEN n - 1 + 1 ELSE 0
        /\ \A i \in 1..(n - 1 + 1) : RoundQueue[i] = s[1 + i - 1]
    BY <1>8, <2>1, SubSeqProperties
  <2>3. n - 1 + 1 = n /\ \A i \in 1..n : 1 + i - 1 = i
    BY <1>6
  <2>4. Len(RoundQueue) = n
    BY <1>6, <2>2, <2>3
  <2>5. \A i \in 1..n : RoundQueue[i] = s[i]
    <3> TAKE i \in 1..n
    <3>1. RoundQueue[i] = s[1 + i - 1]
      BY <2>2, <2>3
    <3>2. 1 + i - 1 = i
      BY <2>3
    <3> QED
      BY <3>1, <3>2
  <2> QED
    BY <2>2, <2>4, <2>5
<1>10. \A i \in 1..n : RoundQueue[i] \in open
  BY <1>7, <1>9
<1>11. RoundQueue \in Seq(Targets)
  <2>1. open \subseteq Targets
    BY <1>3
  <2> QED
    BY <1>9, <2>1, SeqMonotonic
<1> HIDE DEF Targets
<1>12. \A i, j \in 1..n : i # j => RoundQueue[i] # RoundQueue[j]
  BY <1>4, <1>7, <1>9
<1> QED
  BY <1>3, <1>6, <1>9, <1>10, <1>11, <1>12

LEMMA BeginStays == NightInv /\ BeginRound => NightInv'
<1> SUFFICES ASSUME NightInv, BeginRound PROVE NightInv'
  OBVIOUS
<1>1. /\ stage = "round" /\ stage \notin Finished
      /\ UNCHANGED <<programs, current, registry, observed, actions, issued, results, sent,
                     answered>>
      /\ \/ stage' = "closing"
         \/ stage' = "item" /\ rows' = RoundQueue /\ position' = 1
  BY DEF Finished, BeginRound
<1>2. Placed' /\ Accounted' /\ ReviewedOnly' /\ ResultsTruthful'
  <2>1. stage' \in Running /\ stage \in Running \cup {"gates"} /\ stage' # "answer"
    BY <1>1 DEF Running, AtItem
  <2>2. issued' \in Nat /\ issued <= issued'
    BY <1>1 DEF NightInv, Accounted
  <2> QED
    BY <1>1, <2>1, <2>2, QuietStays
<1>3. DOMAIN registry' \subseteq Targets /\ Program' = Program
      /\ Program.review \in {"none", "valid"}
  BY <1>1 DEF NightInv, Rowed, Program, Running
<1>4. CASE stage' = "closing"
  BY <1>2, <1>3, <1>4 DEF NightInv, Rowed, AtItem, Targets
<1>5. CASE stage' = "item" /\ rows' = RoundQueue /\ position' = 1
  <2>1. Rowed'
    <3>1. /\ RoundQueue \in Seq(Targets) /\ Len(RoundQueue) \in Nat
          /\ \A i \in 1..Len(RoundQueue) :
               /\ RoundQueue[i] \in Program.allowed
               /\ Program.guarded => RoundQueue[i] \in Program.cleared
               /\ RoundQueue[i] \notin observed
          /\ \A i, j \in 1..Len(RoundQueue) : i # j => RoundQueue[i] # RoundQueue[j]
      BY <1>1, QueueOfRound
    <3> HIDE DEF RoundQueue
    <3> QED
      BY <1>1, <1>3, <1>5, <3>1 DEF Rowed, Targets
  <2> QED
    BY <1>2, <2>1 DEF NightInv
<1> QED
  BY <1>1, <1>4, <1>5

\* The queue goes on behind an item that is done with.
LEMMA RowsGoOn ==
  ASSUME NightInv, stage \in AtItem, position <= Len(rows),
         UNCHANGED <<programs, current, rows>>,
         DOMAIN registry' \subseteq Targets, observed' \subseteq observed \cup {Item},
         \/ stage' \in Running \ AtItem
         \/ stage' = "item" /\ position' = position + 1
         \/ stage' = "feedback" /\ position' = position
         \/ stage' = "answer" /\ position' = position /\ observed' = observed /\ stage = "item"
  PROVE  Rowed'
<1>1. /\ position \in 1..Len(rows) /\ position \in Nat /\ Len(rows) \in Nat
      /\ rows \in Seq(Targets) /\ Item = rows[position]
  BY AtItsItem DEF NightInv, Rowed, Item
<1>2. Program' = Program /\ Targets' = Targets /\ Program.review \in {"none", "valid"}
  BY DEF NightInv, Rowed, Program, Targets, Running
<1>3. /\ \A i \in 1..Len(rows) :
           /\ rows[i] \in Program.allowed
           /\ Program.guarded => rows[i] \in Program.cleared
           /\ i > position \/ (i = position /\ stage # "feedback") => rows[i] \notin observed
      /\ \A i, j \in 1..Len(rows) : i # j => rows[i] # rows[j]
  BY DEF NightInv, Rowed
<1>4. \A i \in 1..Len(rows) : i > position => rows[i] \notin observed'
  <2> TAKE i \in 1..Len(rows)
  <2> HAVE i > position
  <2>1. rows[i] \notin observed /\ rows[i] # Item
    BY <1>1, <1>3
  <2> QED
    BY <2>1
<1> HIDE DEF Targets, Program, Item
<1>5. CASE stage' \in Running \ AtItem
  BY <1>2, <1>5 DEF Rowed
<1>6. CASE stage' = "item" /\ position' = position + 1
  BY <1>1, <1>2, <1>3, <1>4, <1>6 DEF Rowed
<1>7. CASE stage' = "feedback" /\ position' = position
  BY <1>1, <1>2, <1>3, <1>4, <1>7 DEF Rowed
<1>8. CASE stage' = "answer" /\ position' = position /\ observed' = observed /\ stage = "item"
  BY <1>1, <1>2, <1>3, <1>4, <1>8 DEF Rowed
<1> QED
  BY <1>5, <1>6, <1>7, <1>8

\* An item done with that counts as observed or not.
LEMMA DoneAccounts ==
  ASSUME NightInv, stage \in AtItem, position <= Len(rows),
         stage' \in Running, stage' # "answer", UNCHANGED <<programs, current, results>>,
         \/ /\ UNCHANGED <<answered, observed, actions, issued>>
            /\ Sends
         \/ /\ stage # "feedback" /\ Answers
            /\ observed' = observed \cup {Item} /\ actions' = actions + 1
            /\ issued' \in Nat /\ actions < issued'
  PROVE  Placed' /\ Accounted' /\ ReviewedOnly' /\ ResultsTruthful'
<1>1. Item \in Targets /\ position \in 1..Len(rows) /\ position \in Nat
  BY AtItsItem DEF NightInv
<1>2. stage \notin Finished /\ stage' \notin Finished /\ stage' # "gates"
  BY DEF Finished, Running, AtItem
<1>3. Numbers' = Numbers /\ Targets' = Targets /\ Accounts' = Accounts
      /\ LastProgram' = LastProgram
  BY DEF Numbers, Targets, Accounts, LastProgram
<1>4. ReviewedOnly' /\ ResultsTruthful'
  BY RequestsStay
<1>5. Placed'
  BY <1>2, <1>3 DEF NightInv, Placed
<1>6. /\ sent' \in Accounts /\ answered' \in Accounts
      /\ \A n \in Numbers, t \in Targets :
           (n # current \/ t # Item) => /\ sent'[<<n, t>>] = sent[<<n, t>>]
                                        /\ answered'[<<n, t>>] = answered[<<n, t>>]
      /\ answered' = answered \/ answered'[<<current, Item>>] = answered[<<current, Item>>] + 1
  BY <1>1, <1>2, AccountsElsewhere
<1>7. /\ current \in Numbers /\ current \in Nat
      /\ \A n \in Numbers, t \in Targets :
           /\ answered[<<n, t>>] \in Nat /\ answered[<<n, t>>] <= 1
           /\ n > current => sent[<<n, t>>] = 0 /\ answered[<<n, t>>] = 0
           /\ n = current => (t \in observed <=> answered[<<n, t>>] = 1)
  <2>1. current \in Numbers /\ current \in Nat
    BY <1>2, AtProgram DEF NightInv
  <2>2. \A n \in Numbers, t \in Targets : answered[<<n, t>>] \in Nat
    BY DEF NightInv, Accounted, Accounts
  <2> HIDE DEF Numbers, Targets
  <2> QED
    BY <1>2, <2>1, <2>2 DEF NightInv, Accounted
<1>8. observed \subseteq Targets /\ actions \in Nat /\ issued \in Nat
      /\ actions = Cardinality(observed) /\ actions <= issued
  BY DEF NightInv, Accounted
<1> HIDE DEF Numbers, Targets, Accounts, Item
<1>9. CASE UNCHANGED <<answered, observed, actions, issued>>
  <2>1. \A n \in Numbers, t \in Targets : n > current => sent'[<<n, t>>] = 0
    BY <1>6, <1>7
  <2> QED
    BY <1>2, <1>3, <1>6, <1>7, <1>8, <1>9, <1>4, <1>5, <2>1 DEF Accounted
<1>10. CASE /\ stage # "feedback" /\ Answers
            /\ observed' = observed \cup {Item} /\ actions' = actions + 1
            /\ issued' \in Nat /\ actions < issued'
  <2>1. Item \notin observed
    BY <1>1, <1>10 DEF NightInv, Rowed, Item
  <2>2. answered[<<current, Item>>] = 0
    <3>1. answered[<<current, Item>>] # 1
      BY <1>1, <1>7, <2>1
    <3> QED
      BY <1>1, <1>7, <3>1
  <2>3. answered'[<<current, Item>>] = 1
    <3>1. answered' = [answered EXCEPT ![<<current, Item>>] = answered[<<current, Item>>] + 1]
      BY <1>10 DEF Answers
    <3>2. answered \in Accounts /\ <<current, Item>> \in Numbers \X Targets
      BY <1>1, <1>7 DEF NightInv, Accounted
    <3> QED
      BY <2>2, <3>1, <3>2 DEF Accounts
  <2>4. \A n \in Numbers, t \in Targets :
          /\ answered'[<<n, t>>] <= 1
          /\ n > current => sent'[<<n, t>>] = 0 /\ answered'[<<n, t>>] = 0
          /\ n = current => (t \in observed' <=> answered'[<<n, t>>] = 1)
    <3> TAKE n \in Numbers, t \in Targets
    <3>1. CASE n = current /\ t = Item
      BY <1>7, <1>10, <2>3, <3>1
    <3>2. CASE n # current \/ t # Item
      BY <1>6, <1>7, <1>10, <3>2
    <3> QED
      BY <3>1, <3>2
  <2>5. observed' \subseteq Targets /\ actions' \in Nat /\ actions' = Cardinality(observed')
        /\ actions' <= issued'
    <3>1. IsFiniteSet(observed)
      BY <1>8, LinksAssumption, FS_Subset DEF Targets
    <3>2. Cardinality(observed \cup {Item}) = Cardinality(observed) + 1
      BY <2>1, <3>1, FS_AddElement
    <3> QED
      BY <1>1, <1>8, <1>10, <3>2
  <2> QED
    BY <1>2, <1>3, <1>4, <1>5, <1>6, <1>10, <2>4, <2>5 DEF Accounted
<1> QED
  BY <1>9, <1>10

LEMMA ItemStays == NightInv /\ (LeaveQueue \/ Broker \/ Observe \/ Feedback \/ Detect) => NightInv'
<1> SUFFICES ASSUME NightInv, LeaveQueue \/ Broker \/ Observe \/ Feedback \/ Detect
             PROVE  NightInv'
  OBVIOUS
<1>1. stage \in AtItem
  BY DEF LeaveQueue, Broker, Observe, Feedback, Detect, Runnable, AtItem
<1>2. UNCHANGED <<programs, current, rows, results>>
  BY DEF LeaveQueue, Broker, Observe, Feedback, Detect, EndRound
<1>3. actions \in Nat /\ issued \in Nat /\ actions <= issued /\ DOMAIN registry \subseteq Targets
  BY DEF NightInv, Accounted, Rowed
<1>4. CASE LeaveQueue
  <2>1. /\ stage' = "round"
        /\ UNCHANGED <<sent, answered, observed, actions, issued, registry>>
    BY <1>4 DEF LeaveQueue, EndRound
  <2>2. Placed' /\ Accounted' /\ ReviewedOnly' /\ ResultsTruthful'
    BY <1>1, <1>2, <1>3, <2>1, QuietStays DEF Running
  <2>3. Rowed'
    <3>1. Program' = Program /\ Targets' = Targets /\ stage' \notin AtItem
      BY <1>2, <2>1 DEF Program, Targets, AtItem
    <3>2. Program.review \in {"none", "valid"}
      BY <1>1 DEF NightInv, Rowed, Running
    <3> HIDE DEF Program, Targets
    <3> QED
      BY <1>3, <2>1, <3>1, <3>2 DEF Rowed
  <2> QED
    BY <2>2, <2>3 DEF NightInv
<1>5. CASE Broker
  <2>1. /\ stage = "item" /\ position <= Len(rows)
        /\ UNCHANGED <<sent, answered, observed, actions, registry>>
        /\ \/ stage' = "answer" /\ issued' = issued + 1 /\ position' = position
           \/ /\ stage' = "round" \/ (stage' = "item" /\ position' = position + 1)
              /\ issued' = issued
    BY <1>5 DEF Broker, Runnable, Failed
  <2>2. Placed' /\ Accounted' /\ ReviewedOnly' /\ ResultsTruthful'
    <3>1. issued' \in Nat /\ issued <= issued' /\ (stage' = "answer" => actions < issued')
      BY <1>3, <2>1
    <3>2. stage' \in Running /\ stage \in Running \cup {"gates"}
      BY <2>1 DEF Running, AtItem
    <3> QED
      BY <1>2, <2>1, <3>1, <3>2, QuietStays
  <2>3. "round" \in Running \ AtItem
    BY DEF Running, AtItem
  <2>4. Rowed'
    BY <1>1, <1>2, <1>3, <2>1, <2>3, RowsGoOn
  <2> QED
    BY <2>2, <2>4 DEF NightInv
<1>6. CASE Observe
  <2>1. /\ stage = "answer" /\ issued' = issued /\ registry' = registry
        /\ \/ /\ stage' = "round" \/ (stage' = "item" /\ position' = position + 1)
              /\ Sends /\ UNCHANGED <<answered, observed, actions>>
           \/ /\ stage' = "feedback" /\ position' = position
              /\ Answers /\ observed' = observed \cup {Item} /\ actions' = actions + 1
    BY <1>6 DEF Observe, Failed, Sends, Answers
  <2>2. position <= Len(rows) /\ actions < issued
    BY <1>1, <2>1 DEF NightInv, Rowed, Accounted
  <2>3. "round" \in Running \ AtItem /\ stage' \in Running /\ stage' # "answer"
    BY <2>1 DEF Running, AtItem
  <2>4. Placed' /\ Accounted' /\ ReviewedOnly' /\ ResultsTruthful'
    BY <1>1, <1>2, <1>3, <2>1, <2>2, <2>3, DoneAccounts
  <2>5. observed' \subseteq observed \cup {Item}
    BY <2>1
  <2>6. Rowed'
    BY <1>1, <1>2, <1>3, <2>1, <2>2, <2>3, <2>5, RowsGoOn
  <2> QED
    BY <2>4, <2>6 DEF NightInv
<1>7. CASE Feedback
  <2>1. /\ stage = "feedback" /\ UNCHANGED <<sent, answered, observed, actions, issued>>
        /\ stage' = "round" \/ (stage' = "item" /\ position' = position + 1)
        /\ registry' \in {registry, Discovered(Item)}
    BY <1>7 DEF Feedback, Failed, Succeeded
  <2>2. position <= Len(rows)
    BY <1>1, <2>1 DEF NightInv, Rowed
  <2>3. Item \in Targets
    BY <1>1, <2>2, AtItsItem DEF NightInv
  <2>4. DOMAIN registry' \subseteq Targets
    BY <1>3, <2>1, <2>3, LinksAreTargets
  <2>5. "round" \in Running \ AtItem /\ stage' \in Running /\ stage' # "answer"
    BY <2>1 DEF Running, AtItem
  <2>6. Placed' /\ Accounted' /\ ReviewedOnly' /\ ResultsTruthful'
    BY <1>1, <1>2, <2>1, <2>2, <2>5, DoneAccounts DEF Sends
  <2>7. Rowed'
    BY <1>1, <1>2, <2>1, <2>2, <2>4, <2>5, RowsGoOn
  <2> QED
    BY <2>6, <2>7 DEF NightInv
<1>8. CASE Detect
  <2>1. /\ stage = "item" /\ position <= Len(rows) /\ registry' = registry
        /\ \/ /\ stage' = "round" \/ (stage' = "item" /\ position' = position + 1)
              /\ Sends /\ UNCHANGED <<answered, observed, actions, issued>>
           \/ /\ stage' = "item" /\ position' = position + 1
              /\ Answers /\ observed' = observed \cup {Item} /\ actions' = actions + 1
              /\ issued' = issued + 1
    BY <1>8 DEF Detect, DetectorRaises, Runnable, Failed, Succeeded, Sends, Answers
  <2>2. "round" \in Running \ AtItem /\ stage' \in Running /\ stage' # "answer"
    BY <2>1 DEF Running, AtItem
  <2>3. issued + 1 \in Nat /\ actions < issued + 1
    BY <1>3
  <2>4. Placed' /\ Accounted' /\ ReviewedOnly' /\ ResultsTruthful'
    BY <1>1, <1>2, <2>1, <2>2, <2>3, DoneAccounts
  <2>5. observed' \subseteq observed \cup {Item}
    BY <2>1
  <2>6. Rowed'
    BY <1>1, <1>2, <1>3, <2>1, <2>2, <2>5, RowsGoOn
  <2> QED
    BY <2>4, <2>6 DEF NightInv
<1> QED
  BY <1>4, <1>5, <1>6, <1>7, <1>8

\* Closing a program reports what it observed; an error in between, nothing.
LEMMA CloseStays == NightInv /\ (CloseProgram \/ Raise) => NightInv'
<1> SUFFICES ASSUME NightInv, CloseProgram \/ Raise PROVE NightInv'
  OBVIOUS
<1>1. stage \notin Finished
  BY DEF Finished, CloseProgram, Raise
<1>2. CASE CloseProgram
  <2>1. PICK status \in {"completed", "failed"} : NextProgram(Result(status, TRUE))
    BY <1>2 DEF CloseProgram
  <2>2. /\ Result(status, TRUE).program = current /\ Result(status, TRUE).status = status
        /\ Result(status, TRUE).observed = observed /\ Result(status, TRUE).actions = actions
        /\ Result(status, TRUE).permits = issued
    BY DEF Result
  <2>3. current \in Numbers
    BY <1>1, AtProgram DEF NightInv
  <2>4. observed = {t \in Targets : answered[<<current, t>>] > 0}
    <3>1. \A t \in Targets : /\ answered[<<current, t>>] \in Nat /\ answered[<<current, t>>] <= 1
                             /\ t \in observed <=> answered[<<current, t>>] = 1
      <4>1. \A t \in Targets : answered[<<current, t>>] \in Nat
        BY <2>3 DEF NightInv, Accounted, Accounts
      <4> HIDE DEF Numbers, Targets
      <4> QED
        BY <1>1, <2>3, <4>1 DEF NightInv, Accounted
    <3>2. observed \subseteq Targets
      BY DEF NightInv, Accounted
    <3>3. \A t \in Targets : t \in observed <=> answered[<<current, t>>] > 0
      BY <3>1
    <3> HIDE DEF Targets
    <3> QED
      BY <3>2, <3>3
  <2>5. actions = Cardinality(observed) /\ actions <= issued
    BY DEF NightInv, Accounted
  <2> QED
    BY <1>1, <2>1, <2>2, <2>4, <2>5, NextStays
<1>3. CASE Raise
  <2>1. NextProgram(Result("failed", FALSE))
    BY <1>3 DEF Raise
  <2>2. Result("failed", FALSE).program = current /\ Result("failed", FALSE).status = "failed"
    BY DEF Result
  <2> QED
    BY <1>1, <2>1, <2>2, NextStays
<1> QED
  BY <1>2, <1>3

LEMMA NightBegins == NightInit => NightInv
<1> SUFFICES ASSUME NightInit PROVE NightInv
  OBVIOUS
<1>1. /\ programs \in Catalogs /\ current = 1 /\ stage = "gates" /\ registry = <<>>
      /\ observed = {} /\ actions = 0 /\ issued = 0 /\ results = <<>>
      /\ sent = [k \in Numbers \X Targets |-> 0] /\ answered = [k \in Numbers \X Targets |-> 0]
  BY DEF NightInit
<1>2. Len(programs) \in Nat \ {0} /\ MaxPrograms \in Nat \ {0}
  BY <1>1, CatalogAssumption
<1>3. LastProgram >= 1
  BY <1>2 DEF LastProgram
<1>4. results \in Seq({}) /\ 1..Len(results) = {} /\ DOMAIN results = {}
  BY <1>1
<1>5. Placed
  BY <1>1, <1>3, <1>4 DEF Placed
<1>6. Accounted
  <2>1. \A n \in Numbers, t \in Targets : sent[<<n, t>>] = 0 /\ answered[<<n, t>>] = 0
    BY <1>1
  <2>2. sent \in Accounts /\ answered \in Accounts
    BY <1>1 DEF Accounts
  <2>3. Cardinality({}) = 0
    BY FS_EmptySet
  <2> HIDE DEF Numbers, Targets
  <2> QED
    BY <1>1, <2>1, <2>2, <2>3 DEF Accounted
<1>7. Rowed
  BY <1>1 DEF Rowed, Running, AtItem
<1>8. ReviewedOnly /\ ResultsTruthful
  <2>1. \A n \in Numbers : RequestsOf(n) = {}
    BY <1>1 DEF RequestsOf
  <2> QED
    BY <1>4, <2>1 DEF ReviewedOnly, ResultsTruthful
<1> QED
  BY <1>5, <1>6, <1>7, <1>8 DEF NightInv

LEMMA NightGoesOn == NightInv /\ [NightNext]_nightVars => NightInv'
<1> SUFFICES ASSUME NightInv, [NightNext]_nightVars PROVE NightInv'
  OBVIOUS
<1>1. CASE GrowStale \/ Over \/ UNCHANGED nightVars
  <2>1. UNCHANGED <<programs, current, stage, registry, rows, position, observed, actions, issued,
                    results, sent, answered>>
    BY <1>1 DEF GrowStale, Over, nightVars
  <2>2. Placed' /\ Rowed' /\ ReviewedOnly' /\ ResultsTruthful'
    BY <2>1 DEF NightInv, Placed, Rowed, ReviewedOnly, ResultsTruthful, RequestsOf, LastProgram,
                Program, Numbers, Targets
  <2>3. Accounted'
    BY <2>1 DEF NightInv, Accounted, Accounts, Numbers, Targets
  <2> QED
    BY <2>2, <2>3 DEF NightInv
<1>2. CASE LedgerFails \/ WriteSummary
  <2>1. CASE Escape
    BY <2>1, EscapeStays
  <2>2. CASE /\ stage = "summary" /\ stage' = "written"
             /\ UNCHANGED <<programs, options, current, fresh, registry, round, rows, position,
                            failures, observed, actions, issued, results, sent, answered, unknown>>
    <3>1. /\ stage' \in Finished /\ stage' \notin Running /\ stage' \notin AtItem
          /\ stage' \notin {"gates", "answer"}
      BY <2>2 DEF Finished, Running, AtItem
    <3>2. Placed' /\ Rowed' /\ ReviewedOnly' /\ ResultsTruthful'
      BY <2>2, <3>1 DEF NightInv, Placed, Rowed, ReviewedOnly, ResultsTruthful, RequestsOf, Numbers,
                        Targets
    <3>3. Accounted'
      BY <2>2, <3>1 DEF NightInv, Accounted, Accounts, Numbers, Targets
    <3> QED
      BY <3>2, <3>3 DEF NightInv
  <2> QED
    BY <1>2, <2>1, <2>2 DEF LedgerFails, WriteSummary
<1> QED
  BY <1>1, <1>2, GatesStay, BeginStays, ItemStays, CloseStays DEF NightNext, NightStep

\* No spelling of a target is observed with success twice, whatever leads back to it (two
\* spellings of one URL may each be); every request went to a target that policy and its own
\* review allow, of a program whose review was not refused; and what the results say of a
\* program is what its requests were.
THEOREM NightIsHonest == NightSpec => []NightHonest
<1>1. NightInv => NightHonest
  <2> SUFFICES ASSUME NightInv PROVE ObservedOnce
    BY DEF NightInv, NightHonest
  <2>1. ASSUME NEW k \in Numbers \X Targets PROVE answered[k] <= 1
    <3>1. PICK n \in Numbers, t \in Targets : k = <<n, t>>
      OBVIOUS
    <3> HIDE DEF Numbers, Targets
    <3> QED
      BY <3>1 DEF NightInv, Accounted
  <2> QED
    BY <2>1 DEF ObservedOnce
<1> QED
  BY <1>1, NightBegins, NightGoesOn, PTL DEF NightSpec
=============================================================================
