---------------------- MODULE DetectorExecutionProofs ----------------------
(***************************************************************************)
(* A run is launched at most once, and what the three stores say of it     *)
(* agrees, for any number of processes and runs and any budget.  Then the  *)
(* chaos matrix, which recovers single runs, and the full night, which     *)
(* counts what runs left behind.                                           *)
(***************************************************************************)
EXTENDS DetectorExecution, DetectorChaos, FullNight, FiniteSetTheorems, TLAPS

USE DEF At, Goto, EndsWith, store, proxy

\* The state machine of an action moves between its states.
LEMMA TransitionsType == \A s \in ActionState : Transitions[s] \subseteq ActionState
  BY DEF ActionState, Transitions

\* The sequences of store operations are sequences of operations.
LEMMA JournalType ==
  /\ CreateAction \in Seq(Op)
  /\ AuthorizationPersisted \in Seq(Op)
  /\ WorkerStarting \in Seq(Op)
  /\ \A status \in RunStatus, state \in ActionState :
       ResultPersisted(status, state) \in Seq(Op)
  BY DEF CreateAction, AuthorizationPersisted, WorkerStarting,
         ResultPersisted, BlockedAs, RunStatus, Op, ActionState, Transitions,
         Counter

\* What the service makes of an accounting has its type.
LEMMA AccountingType ==
  ASSUME NEW ended \in End, NEW acc \in Account
  PROVE  /\ StatusOf(ended, acc) \in RunStatus
         /\ Retryable(ended, acc) \in BOOLEAN
         /\ ClosedAs(ended, acc) \in {"committed", "failed", "unknown_outcome"}
         /\ ClosedWith(ended, acc) \in Nat
  BY DEF StatusOf, RunStatus, Retryable, Uncertain, ClosedAs, ClosedWith,
         Forwarded, Account

\* No request is a ledger.
LEMMA NothingType == Nothing \in Account
  BY DEF Nothing, Account

\* The steps of the proxy keep a ledger well typed.
LEMMA LedgerType ==
  ASSUME NEW acc \in Account
  PROVE  /\ [acc EXCEPT !.reserved = @ + 1] \in Account
         /\ acc.reserved > 0 => Move(acc, "reserved", "forwarding") \in Account
         /\ acc.forwarding > 0 =>
              /\ Move(acc, "forwarding", "responses") \in Account
              /\ Move(acc, "forwarding", "failed") \in Account
<1>1. [acc EXCEPT !.reserved = @ + 1] \in Account
  BY DEF Account
<1>2. ASSUME NEW from \in {"reserved", "forwarding"},
             NEW to \in {"forwarding", "responses", "failed"},
             from # to, acc[from] > 0
      PROVE  Move(acc, from, to) \in Account
  <2> DEFINE less == acc[from] - 1
             more == acc[to] + 1
  <2>1. less \in Nat /\ more \in Nat
    BY <1>2 DEF Account
  <2>2. Move(acc, from, to) = [acc EXCEPT ![from] = less, ![to] = more]
    BY <1>2 DEF Move, Account
  <2> HIDE DEF less, more
  <2>3. [acc EXCEPT ![from] = less, ![to] = more] \in Account
    BY <1>2, <2>1 DEF Account
  <2> QED
    BY <2>2, <2>3
<1> QED
  BY <1>1, <1>2

\* Every reachable state is well typed.
THEOREM TypeCorrect == Spec => []TypeOK
<1>1. Init => TypeOK
  BY DEF Init, TypeOK, RowState, ActionState, Transitions, Account, Nothing,
         Step, End, Op
<1>2. TypeOK /\ [Next]_vars => TypeOK'
  <2> SUFFICES ASSUME TypeOK, [Next]_vars PROVE TypeOK'
    OBVIOUS
  <2> USE DEF TypeOK
  <2>1. ASSUME NEW p \in Procs, NEW r \in Runs, Begin(p, r) PROVE TypeOK'
    BY <2>1 DEF Step, Begin
  <2>2. ASSUME NEW p \in Procs, NEW ended \in EarlyEnd, FailEarly(p, ended)
         PROVE  TypeOK'
    BY <2>2, NothingType DEF FailEarly, Step, End
  <2>3. ASSUME NEW p \in Procs, NEW ended \in WorkerEnd, ReadLedger(p, ended)
         PROVE  TypeOK'
    BY <2>3 DEF ReadLedger, Step, End
  <2>4. ASSUME NEW p \in Procs, Reserve(p) PROVE TypeOK'
    BY <2>4, JournalType DEF Reserve, Step, RowState
  <2>5. ASSUME NEW p \in Procs, AlreadyReserved(p) PROVE TypeOK'
    BY <2>5 DEF Step, AlreadyReserved
  <2>6. ASSUME NEW p \in Procs, Authorize(p) PROVE TypeOK'
    BY <2>6, JournalType DEF Authorize, Step
  <2>7. ASSUME NEW p \in Procs, Confirm(p) PROVE TypeOK'
    BY <2>7, JournalType DEF Confirm, Step
  <2>8. ASSUME NEW p \in Procs, Refuse(p) PROVE TypeOK'
    BY <2>8, NothingType DEF Refuse, Step, End
  <2>9. ASSUME NEW p \in Procs, Journal(p) PROVE TypeOK'
    <3> DEFINE r == job[p]
               op == Head(todo[p])
    <3>1. r \in Runs /\ op \in Op /\ Tail(todo[p]) \in Seq(Op)
      BY <2>9 DEF Journal
    <3>2. todo' \in [Procs -> Seq(Op)]
      BY <2>9, <3>1 DEF Journal
    <3>3. action' \in [Runs -> ActionState]
      <4>1. CASE op \in Transitions[action[r]]
        <5>1. op \in ActionState
          BY <3>1, <4>1, TransitionsType
        <5> QED
          BY <2>9, <3>1, <5>1 DEF Journal
      <4> QED
        BY <2>9, <3>1, <4>1 DEF Journal
    <3>4. count' \in [Counter -> Nat]
      <4>1. CASE count' = [count EXCEPT ![op] = @ + 1] /\ op \in Counter
        BY <4>1
      <4>2. CASE op = "reconcile"
        <5>1. ClosedWith(outcome[p].end, outcome[p].acc) \in Nat
          BY AccountingType
        <5>2. \A a, b \in Nat :
                [count EXCEPT !["detector_runs_completed"] = a, !["requests_forwarded"] = b]
                  \in [Counter -> Nat]
          BY DEF TypeOK
        <5>3. count["detector_runs_completed"] \in Nat /\ count["requests_forwarded"] \in Nat
          BY DEF TypeOK, Counter
        <5>4. \/ UNCHANGED count
              \/ op \in Counter /\ count' = [count EXCEPT ![op] = @ + 1]
              \/ count' = [count EXCEPT
                   !["detector_runs_completed"] = count["detector_runs_completed"] + 1,
                   !["requests_forwarded"] =
                     count["requests_forwarded"] + ClosedWith(outcome[p].end, outcome[p].acc)]
          BY <2>9, <4>2 DEF Journal
        <5>5. CASE count' = [count EXCEPT
                   !["detector_runs_completed"] = count["detector_runs_completed"] + 1,
                   !["requests_forwarded"] =
                     count["requests_forwarded"] + ClosedWith(outcome[p].end, outcome[p].acc)]
          <6>1. /\ count["detector_runs_completed"] + 1 \in Nat
                /\ count["requests_forwarded"] + ClosedWith(outcome[p].end, outcome[p].acc) \in Nat
            BY <5>1, <5>3
          <6> QED BY <5>2, <5>5, <6>1
        <5> QED
          BY <4>1, <5>4, <5>5
      <4>3. CASE UNCHANGED count
        BY <4>3
      <4> QED
        BY <2>9, <4>1, <4>2, <4>3 DEF Journal
    <3> QED
      BY <2>9, <3>2, <3>3, <3>4 DEF Journal
  <2>10. ASSUME NEW p \in Procs, StartFails(p) PROVE TypeOK'
    BY <2>10, NothingType DEF StartFails, Step, End, EarlyEnd
  <2>11. ASSUME NEW p \in Procs, Launch(p) PROVE TypeOK'
    BY <2>11 DEF Step, Launch
  <2>12. ASSUME NEW p \in Procs, CleanUp(p) PROVE TypeOK'
    BY <2>12 DEF Step, CleanUp
  <2>13. ASSUME NEW p \in Procs, Settle(p) PROVE TypeOK'
    BY <2>13, AccountingType DEF Settle, Step, RowState
  <2>14. ASSUME NEW p \in Procs, PersistResult(p) PROVE TypeOK'
    BY <2>14, AccountingType, JournalType DEF PersistResult, Step
  <2>15. ASSUME NEW p \in Procs, Return(p) PROVE TypeOK'
    BY <2>15 DEF Step, Return
  <2>16. ASSUME NEW p \in Procs, Crash(p) PROVE TypeOK'
    BY <2>16 DEF Step, Crash
  <2>17. ASSUME NEW r \in Runs, Admit(r) PROVE TypeOK'
    BY <2>17, LedgerType DEF Admit
  <2>18. ASSUME NEW r \in Runs, Forward(r) PROVE TypeOK'
    <3>1. ledger' \in [Runs -> Account]
      BY <2>18, LedgerType DEF Forward
    <3>2. late' \in [Runs -> Nat]
      <4>1. [late EXCEPT ![r] = late[r] + 1] \in [Runs -> Nat]
        OBVIOUS
      <4> QED BY <2>18, <4>1 DEF Forward
    <3> QED BY <2>18, <3>1, <3>2 DEF Forward
  <2>19. ASSUME NEW r \in Runs, NEW how \in {"responses", "failed"}, Answer(r, how)
         PROVE  TypeOK'
    BY <2>19, LedgerType DEF Answer
  <2>20. CASE Revoke
    BY <2>20 DEF Step, Revoke
  <2>21. CASE UNCHANGED vars
    BY <2>21 DEF Step, vars, store, proxy
  <2> QED
    BY <2>1, <2>2, <2>3, <2>4, <2>5, <2>6, <2>7, <2>8, <2>9, <2>10, <2>11,
       <2>12, <2>13, <2>14, <2>15, <2>16, <2>17, <2>18, <2>19, <2>20, <2>21
       DEF Next, Execute
<1> QED
  BY <1>1, <1>2, PTL DEF Spec

(***************************************************************************)
(* The reservation row is the mutual exclusion: a process past it owns the *)
(* run, and nothing was launched while it only prepares the launch.        *)
(***************************************************************************)
Prepares(p) == pc[p] \in {"create", "permit", "starting"}
Past(p) == pc[p] \notin {"idle", "reserve"}
Owned ==
  /\ \A p \in Procs : Prepares(p) => launches[job[p]] = 0
  /\ \A p \in Procs :
       /\ Prepares(p) \/ pc[p] \in {"running", "cleanup", "settle"} =>
            row[job[p]] = "reserved"
       /\ Past(p) => row[job[p]] # "none"
  /\ \A p, q \in Procs : Past(p) /\ Past(q) /\ p # q => job[p] # job[q]
  /\ \A r \in Runs : row[r] = "none" => launches[r] = 0

\* Every reachable state is Owned.
LEMMA OwnedAlways == Spec => []Owned
<1>1. Init => Owned
  BY DEF Init, Owned, Prepares, Past
<1>2. TypeOK /\ Owned /\ [Next]_vars => Owned'
  <2> SUFFICES ASSUME TypeOK, Owned, [Next]_vars PROVE Owned'
    OBVIOUS
  <2> USE DEF TypeOK, Owned, Prepares, Past
  <2>1. ASSUME NEW p \in Procs, NEW r \in Runs, Begin(p, r) PROVE Owned'
    BY <2>1 DEF Step, Begin
  <2>2. ASSUME NEW p \in Procs, NEW ended \in EarlyEnd, FailEarly(p, ended)
         PROVE  Owned'
    BY <2>2 DEF Step, FailEarly
  <2>3. ASSUME NEW p \in Procs, NEW ended \in WorkerEnd, ReadLedger(p, ended)
         PROVE  Owned'
    BY <2>3 DEF Step, ReadLedger
  <2>4. ASSUME NEW p \in Procs, Reserve(p) PROVE Owned'
    BY <2>4 DEF Reserve, Reservable
  <2>5. ASSUME NEW p \in Procs, AlreadyReserved(p) PROVE Owned'
    BY <2>5 DEF Step, AlreadyReserved
  <2>6. ASSUME NEW p \in Procs, Authorize(p) PROVE Owned'
    BY <2>6 DEF Step, Authorize
  <2>7. ASSUME NEW p \in Procs, Confirm(p) PROVE Owned'
    BY <2>7 DEF Step, Confirm
  <2>8. ASSUME NEW p \in Procs, Refuse(p) PROVE Owned'
    BY <2>8 DEF Step, Refuse
  <2>9. ASSUME NEW p \in Procs, Journal(p) PROVE Owned'
    BY <2>9 DEF Step, Journal
  <2>10. ASSUME NEW p \in Procs, StartFails(p) PROVE Owned'
    BY <2>10 DEF Step, StartFails
  <2>11. ASSUME NEW p \in Procs, Launch(p) PROVE Owned'
    BY <2>11 DEF Step, Launch
  <2>12. ASSUME NEW p \in Procs, CleanUp(p) PROVE Owned'
    BY <2>12 DEF Step, CleanUp
  <2>13. ASSUME NEW p \in Procs, Settle(p) PROVE Owned'
    BY <2>13, AccountingType DEF Settle
  <2>14. ASSUME NEW p \in Procs, PersistResult(p) PROVE Owned'
    BY <2>14 DEF Step, PersistResult
  <2>15. ASSUME NEW p \in Procs, Return(p) PROVE Owned'
    BY <2>15 DEF Step, Return
  <2>16. ASSUME NEW p \in Procs, Crash(p) PROVE Owned'
    BY <2>16 DEF Step, Crash
  <2>17. ASSUME NEW r \in Runs, Admit(r) PROVE Owned'
    BY <2>17 DEF Step, Admit
  <2>18. ASSUME NEW r \in Runs, Forward(r) PROVE Owned'
    BY <2>18 DEF Step, Forward
  <2>19. ASSUME NEW r \in Runs, NEW how \in {"responses", "failed"}, Answer(r, how)
         PROVE  Owned'
    BY <2>19 DEF Step, Answer
  <2>20. CASE Revoke
    BY <2>20 DEF Step, Revoke
  <2>21. CASE UNCHANGED vars
    BY <2>21 DEF Step, vars, store, proxy
  <2> QED
    BY <2>1, <2>2, <2>3, <2>4, <2>5, <2>6, <2>7, <2>8, <2>9, <2>10, <2>11,
       <2>12, <2>13, <2>14, <2>15, <2>16, <2>17, <2>18, <2>19, <2>20, <2>21
       DEF Next, Execute
<1> QED
  BY <1>1, <1>2, TypeCorrect, PTL DEF Spec

\* A step that gives one run another launch status updates the abstract one.
LEMMA StatusStep ==
  ASSUME NEW j \in Runs, NEW s,
         \A r \in Runs :
           LaunchStatus'[r] = IF r = j THEN s ELSE LaunchStatus[r]
  PROVE  LaunchStatus' = [LaunchStatus EXCEPT ![j] = s]
<1>1. \A r \in Runs : LaunchStatus'[r] = [LaunchStatus EXCEPT ![j] = s][r]
  BY DEF LaunchStatus
<1>2. LaunchStatus' = [r \in Runs |-> LaunchStatus'[r]]
  BY DEF LaunchStatus
<1>3. [LaunchStatus EXCEPT ![j] = s] =
        [r \in Runs |-> [LaunchStatus EXCEPT ![j] = s][r]]
  BY DEF LaunchStatus
<1> QED
  BY <1>1, <1>2, <1>3

\* A run is launched at most once, and never after its reservation was closed
\* without a launch, whatever is executed again.
THEOREM LaunchedOnce == Spec => ImplementsOneShot
<1>1. Init => OneShot!Init
  BY DEF Init, OneShot!Init, LaunchStatus
<1>2. TypeOK /\ TypeOK' /\ Owned /\ [Next]_vars => [OneShot!Next]_(OneShot!vars)
  <2> SUFFICES ASSUME TypeOK, TypeOK', Owned, [Next]_vars
               PROVE  [OneShot!Next]_(OneShot!vars)
    OBVIOUS
  <2> USE DEF TypeOK
  <2>1. ASSUME NEW p \in Procs, NEW r \in Runs, Begin(p, r)
         PROVE  [OneShot!Next]_(OneShot!vars)
    BY <2>1 DEF LaunchStatus, OneShot!vars, Begin
  <2>2. ASSUME NEW p \in Procs, NEW ended \in EarlyEnd, FailEarly(p, ended)
         PROVE  [OneShot!Next]_(OneShot!vars)
    BY <2>2 DEF LaunchStatus, OneShot!vars, FailEarly
  <2>3. ASSUME NEW p \in Procs, NEW ended \in WorkerEnd, ReadLedger(p, ended)
         PROVE  [OneShot!Next]_(OneShot!vars)
    BY <2>3 DEF LaunchStatus, OneShot!vars, ReadLedger
  <2>4. ASSUME NEW p \in Procs, Reserve(p) PROVE [OneShot!Next]_(OneShot!vars)
    BY <2>4 DEF Reserve, Reservable, Owned, LaunchStatus, OneShot!vars
  <2>5. ASSUME NEW p \in Procs, AlreadyReserved(p)
         PROVE  [OneShot!Next]_(OneShot!vars)
    BY <2>5 DEF LaunchStatus, OneShot!vars, AlreadyReserved
  <2>6. ASSUME NEW p \in Procs, Authorize(p)
         PROVE  [OneShot!Next]_(OneShot!vars)
    BY <2>6 DEF LaunchStatus, OneShot!vars, Authorize
  <2>7. ASSUME NEW p \in Procs, Confirm(p) PROVE [OneShot!Next]_(OneShot!vars)
    BY <2>7 DEF LaunchStatus, OneShot!vars, Confirm
  <2>8. ASSUME NEW p \in Procs, Refuse(p) PROVE [OneShot!Next]_(OneShot!vars)
    BY <2>8 DEF LaunchStatus, OneShot!vars, Refuse
  <2>9. ASSUME NEW p \in Procs, Journal(p) PROVE [OneShot!Next]_(OneShot!vars)
    BY <2>9 DEF LaunchStatus, OneShot!vars, Journal
  <2>10. ASSUME NEW p \in Procs, StartFails(p)
         PROVE  [OneShot!Next]_(OneShot!vars)
    BY <2>10 DEF LaunchStatus, OneShot!vars, StartFails
  <2>11. ASSUME NEW p \in Procs, Launch(p) PROVE [OneShot!Next]_(OneShot!vars)
    <3>1. job[p] \in Runs /\ launches[job[p]] = 0 /\ row[job[p]] = "reserved"
      BY <2>11 DEF Launch, Owned, Prepares
    <3>2. LaunchStatus[job[p]] = "available"
      BY <3>1 DEF LaunchStatus
    <3>3. LaunchStatus' = [LaunchStatus EXCEPT ![job[p]] = "consumed"]
      <4>1. \A r \in Runs :
              LaunchStatus'[r] =
                IF r = job[p] THEN "consumed" ELSE LaunchStatus[r]
        BY <2>11, <3>1 DEF Launch, LaunchStatus
      <4> QED
        BY <3>1, <4>1, StatusStep
    <3>4. launches' = [launches EXCEPT ![job[p]] = @ + 1]
      BY <2>11 DEF Launch
    <3>5. OneShot!Grant(job[p])
      BY <3>2, <3>3, <3>4 DEF OneShot!Grant
    <3> QED
      BY <3>1, <3>5 DEF OneShot!Next
  <2>12. ASSUME NEW p \in Procs, CleanUp(p) PROVE [OneShot!Next]_(OneShot!vars)
    BY <2>12 DEF LaunchStatus, OneShot!vars, CleanUp
  <2>13. ASSUME NEW p \in Procs, Settle(p) PROVE [OneShot!Next]_(OneShot!vars)
    <3>1. job[p] \in Runs /\ row[job[p]] = "reserved"
      BY <2>13 DEF Settle, Owned
    <3>2. row'[job[p]] \in {"committed", "failed", "unknown_outcome"}
      BY <2>13, <3>1, AccountingType DEF Settle
    <3>3. CASE launches[job[p]] > 0
      BY <2>13, <3>1, <3>3 DEF Settle, LaunchStatus, OneShot!vars
    <3>4. CASE launches[job[p]] = 0
      <4>1. LaunchStatus[job[p]] = "available"
        BY <3>1, <3>4 DEF LaunchStatus
      <4>2. LaunchStatus' = [LaunchStatus EXCEPT ![job[p]] = "revoked"]
        <5>1. \A r \in Runs :
                LaunchStatus'[r] =
                  IF r = job[p] THEN "revoked" ELSE LaunchStatus[r]
          BY <2>13, <3>1, <3>2, <3>4 DEF Settle, LaunchStatus
        <5> QED
          BY <3>1, <5>1, StatusStep
      <4>3. OneShot!Revoke(job[p])
        BY <2>13, <4>1, <4>2 DEF Settle, OneShot!Revoke
      <4> QED
        BY <3>1, <4>3 DEF OneShot!Next
    <3> QED
      BY <3>1, <3>3, <3>4
  <2>14. ASSUME NEW p \in Procs, PersistResult(p)
         PROVE  [OneShot!Next]_(OneShot!vars)
    BY <2>14 DEF LaunchStatus, OneShot!vars, PersistResult
  <2>15. ASSUME NEW p \in Procs, Return(p) PROVE [OneShot!Next]_(OneShot!vars)
    BY <2>15 DEF LaunchStatus, OneShot!vars, Return
  <2>16. ASSUME NEW p \in Procs, Crash(p) PROVE [OneShot!Next]_(OneShot!vars)
    BY <2>16 DEF LaunchStatus, OneShot!vars, Crash
  <2>17. ASSUME NEW r \in Runs, Admit(r) PROVE [OneShot!Next]_(OneShot!vars)
    BY <2>17 DEF LaunchStatus, OneShot!vars, Admit
  <2>18. ASSUME NEW r \in Runs, Forward(r) PROVE [OneShot!Next]_(OneShot!vars)
    BY <2>18 DEF LaunchStatus, OneShot!vars, Forward
  <2>19. ASSUME NEW r \in Runs, NEW how \in {"responses", "failed"}, Answer(r, how)
         PROVE  [OneShot!Next]_(OneShot!vars)
    BY <2>19 DEF LaunchStatus, OneShot!vars, Answer
  <2>20. CASE Revoke
    BY <2>20 DEF LaunchStatus, OneShot!vars, Revoke
  <2>21. CASE UNCHANGED vars
    BY <2>21 DEF LaunchStatus, OneShot!vars, vars, store, proxy
  <2> QED
    BY <2>1, <2>2, <2>3, <2>4, <2>5, <2>6, <2>7, <2>8, <2>9, <2>10, <2>11,
       <2>12, <2>13, <2>14, <2>15, <2>16, <2>17, <2>18, <2>19, <2>20, <2>21
       DEF Next, Execute
<1> QED
  BY <1>1, <1>2, TypeCorrect, OwnedAlways, PTL
     DEF Spec, ImplementsOneShot, OneShot!Spec

(***************************************************************************)
(* The end of an action is asked of the campaign store only while the      *)
(* result that says the same is on disk.                                   *)
(***************************************************************************)
Ends == {"completed", "blocked", "failed", "unknown_outcome", "superseded"}
Agree ==
  \A r \in Runs :
    /\ result[r].status # "none" => row[r] \in Closed[result[r].status]
    /\ action[r] \in Ends =>
         /\ result[r].status # "none"
         /\ action[r] \in Concluded[result[r].status]
Unwritten ==
  \A p \in Procs :
    /\ Past(p) /\ pc[p] # "journal" => result[job[p]].status = "none"
    /\ pc[p] = "persist" =>
         row[job[p]] = ClosedAs(outcome[p].end, outcome[p].acc)
Ending ==
  \A p \in Procs : \A i \in 1 .. Len(todo[p]) :
    todo[p][i] \in Ends =>
      /\ pc[p] = "journal"
      /\ result[job[p]].status # "none"
      /\ todo[p][i] \in Concluded[result[job[p]].status]
Ordered == Agree /\ Unwritten /\ Ending

\* The states an action cannot leave.
LEMMA EndsAreFinal ==
  \A s \in ActionState : Transitions[s] = {} <=> s \in Ends
  BY DEF ActionState, Transitions, Ends

\* The journal call of a result asks for no end but the result's.
LEMMA ResultConcludes ==
  ASSUME NEW status \in RunStatus, NEW state \in ActionState,
         NEW i \in 1 .. Len(ResultPersisted(status, state)),
         ResultPersisted(status, state)[i] \in Ends
  PROVE  ResultPersisted(status, state)[i] \in Concluded[status]
  BY DEF RunStatus, ResultPersisted, BlockedAs, Ends, Concluded

\* The reservation and the result are made of the same outcome.
LEMMA ClosedMatches ==
  ASSUME NEW ended \in End, NEW acc \in Account
  PROVE  ClosedAs(ended, acc) \in Closed[StatusOf(ended, acc)]
  BY DEF ClosedAs, Closed, StatusOf

\* A reservation that is not closed matches no result.
LEMMA OpenMatchesNone ==
  \A status \in RunStatus : "none" \notin Closed[status]
                            /\ "reserved" \notin Closed[status]
  BY DEF RunStatus, Closed

\* No earlier journal call asks for an end.
LEMMA NothingConcluded ==
  /\ \A i \in 1 .. Len(CreateAction) : CreateAction[i] \notin Ends
  /\ \A i \in 1 .. Len(AuthorizationPersisted) :
       AuthorizationPersisted[i] \notin Ends
  /\ \A i \in 1 .. Len(WorkerStarting) : WorkerStarting[i] \notin Ends
  BY DEF CreateAction, AuthorizationPersisted, WorkerStarting, Ends

\* Every reachable state is Ordered.
LEMMA OrderedAlways == Spec => []Ordered
<1>1. Init => Ordered
  BY DEF Init, Ordered, Agree, Unwritten, Ending, Past, Ends
<1>2. TypeOK /\ TypeOK' /\ Owned /\ Owned' /\ Ordered /\ [Next]_vars
        => Ordered'
  <2> SUFFICES ASSUME TypeOK, TypeOK', Owned, Owned', Ordered, [Next]_vars
               PROVE  Ordered'
    OBVIOUS
  <2> USE DEF TypeOK, Ordered, Past
  <2>1. ASSUME NEW p \in Procs, NEW r \in Runs, Begin(p, r) PROVE Ordered'
    BY <2>1 DEF Agree, Unwritten, Ending, Begin
  <2>2. ASSUME NEW p \in Procs, NEW ended \in EarlyEnd, FailEarly(p, ended)
         PROVE  Ordered'
    BY <2>2 DEF Agree, Unwritten, Ending, FailEarly
  <2>3. ASSUME NEW p \in Procs, NEW ended \in WorkerEnd, ReadLedger(p, ended)
         PROVE  Ordered'
    BY <2>3 DEF Agree, Unwritten, Ending, ReadLedger
  <2>4. ASSUME NEW p \in Procs, Reserve(p) PROVE Ordered'
    <3>0. job[p] \in Runs /\ row[job[p]] = "none"
      BY <2>4 DEF Reserve, Reservable
    <3>1. job[p] \in Runs /\ result[job[p]].status = "none"
      <4>1. result[job[p]].status \in RunStatus \cup {"none"}
        BY <3>0
      <4> QED
        BY <3>0, <4>1, OpenMatchesNone DEF Agree
    <3>2. Agree'
      BY <2>4, <3>1 DEF Reserve, Agree
    <3>3. Unwritten'
      BY <2>4, <3>1 DEF Reserve, Unwritten, Owned
    <3>4. Ending'
      BY <2>4, NothingConcluded DEF Reserve, Ending
    <3> QED
      BY <3>2, <3>3, <3>4
  <2>5. ASSUME NEW p \in Procs, AlreadyReserved(p) PROVE Ordered'
    BY <2>5 DEF Agree, Unwritten, Ending, AlreadyReserved
  <2>6. ASSUME NEW p \in Procs, Authorize(p) PROVE Ordered'
    <3>1. Agree' /\ Unwritten'
      BY <2>6 DEF Authorize, Agree, Unwritten
    <3>2. Ending'
      BY <2>6, NothingConcluded DEF Authorize, Ending
    <3> QED
      BY <3>1, <3>2
  <2>7. ASSUME NEW p \in Procs, Confirm(p) PROVE Ordered'
    <3>1. Agree' /\ Unwritten'
      BY <2>7 DEF Confirm, Agree, Unwritten
    <3>2. Ending'
      BY <2>7, NothingConcluded DEF Confirm, Ending
    <3> QED
      BY <3>1, <3>2
  <2>8. ASSUME NEW p \in Procs, Refuse(p) PROVE Ordered'
    BY <2>8 DEF Agree, Unwritten, Ending, Refuse
  <2>9. ASSUME NEW p \in Procs, Journal(p) PROVE Ordered'
    <3> DEFINE op == Head(todo[p])
    <3>1. /\ job[p] \in Runs /\ todo[p] \in Seq(Op) /\ todo[p] # <<>>
          /\ row' = row /\ result' = result /\ pc' = pc /\ job' = job
          /\ outcome' = outcome /\ todo' = [todo EXCEPT ![p] = Tail(@)]
      BY <2>9 DEF Journal
    <3>2. op = todo[p][1] /\ 1 \in 1 .. Len(todo[p])
      BY <3>1
    <3>3. \/ action' = action
          \/ action' = [action EXCEPT ![job[p]] = op]
      BY <2>9 DEF Journal
    <3>4. Agree'
      <4>1. CASE action' = action
        BY <3>1, <4>1 DEF Agree
      <4>2. CASE action' = [action EXCEPT ![job[p]] = op]
        <5>1. op \in Ends =>
                /\ result[job[p]].status # "none"
                /\ op \in Concluded[result[job[p]].status]
          BY <3>2 DEF Ending
        <5> QED
          BY <3>1, <4>2, <5>1 DEF Agree
      <4> QED
        BY <3>3, <4>1, <4>2
    <3>5. Unwritten'
      BY <3>1 DEF Unwritten
    <3>6. Ending'
      <4>1. \A i \in 1 .. Len(Tail(todo[p])) :
              /\ i + 1 \in 1 .. Len(todo[p])
              /\ Tail(todo[p])[i] = todo[p][i + 1]
        BY <3>1
      <4> QED
        BY <3>1, <4>1 DEF Ending
    <3> QED
      BY <3>4, <3>5, <3>6
  <2>10. ASSUME NEW p \in Procs, StartFails(p) PROVE Ordered'
    BY <2>10 DEF Agree, Unwritten, Ending, StartFails
  <2>11. ASSUME NEW p \in Procs, Launch(p) PROVE Ordered'
    BY <2>11 DEF Agree, Unwritten, Ending, Launch
  <2>12. ASSUME NEW p \in Procs, CleanUp(p) PROVE Ordered'
    BY <2>12 DEF Agree, Unwritten, Ending, CleanUp
  <2>13. ASSUME NEW p \in Procs, Settle(p) PROVE Ordered'
    <3>1. job[p] \in Runs /\ result[job[p]].status = "none"
      BY <2>13 DEF Settle, Unwritten
    <3>2. Agree'
      BY <2>13, <3>1 DEF Settle, Agree
    <3>3. Unwritten'
      BY <2>13, <3>1 DEF Settle, Unwritten, Owned
    <3>4. Ending'
      BY <2>13 DEF Settle, Ending
    <3> QED
      BY <3>2, <3>3, <3>4
  <2>14. ASSUME NEW p \in Procs, PersistResult(p) PROVE Ordered'
    <3> DEFINE o == outcome[p]
               status == StatusOf(o.end, o.acc)
    <3>1. job[p] \in Runs /\ result[job[p]].status = "none"
      BY <2>14 DEF PersistResult, Unwritten
    <3>2. status \in RunStatus /\ row[job[p]] \in Closed[status]
      BY <2>14, AccountingType, ClosedMatches DEF PersistResult, Unwritten
    <3>3. result'[job[p]].status = status /\ status # "none"
      BY <2>14, <3>1, <3>2 DEF PersistResult, RunStatus
    <3>4. \A r \in Runs : r # job[p] => result'[r] = result[r]
      BY <2>14 DEF PersistResult
    <3>5. Agree'
      BY <2>14, <3>1, <3>2, <3>3, <3>4 DEF PersistResult, Agree
    <3>6. Unwritten'
      BY <2>14, <3>1, <3>4 DEF PersistResult, Unwritten, Owned
    <3>7. Ending'
      <4>1. ASSUME NEW q \in Procs, q # p, NEW i \in 1 .. Len(todo[q]),
                   todo[q][i] \in Ends
            PROVE  /\ pc'[q] = "journal"
                   /\ result'[job[q]] = result[job[q]]
        <5>1. pc[q] = "journal" /\ pc[p] = "persist"
          BY <2>14, <4>1 DEF PersistResult, Ending
        <5>2. job[q] \in Runs /\ job[q] # job[p]
          BY <4>1, <5>1 DEF Owned
        <5> QED
          BY <2>14, <3>4, <4>1, <5>1, <5>2 DEF PersistResult
      <4>2. todo'[p] = ResultPersisted(status, action[job[p]])
        BY <2>14 DEF PersistResult
      <4>3. action[job[p]] \in ActionState
        BY <3>1
      <4>4. \A i \in 1 .. Len(todo'[p]) :
              todo'[p][i] \in Ends => todo'[p][i] \in Concluded[status]
        BY <3>2, <4>2, <4>3, ResultConcludes
      <4>5. \A q \in Procs : q # p => todo'[q] = todo[q]
        BY <2>14 DEF PersistResult
      <4>6. pc'[p] = "journal" /\ job' = job
        BY <2>14 DEF PersistResult
      <4>7. ASSUME NEW q \in Procs, q # p, NEW i \in 1 .. Len(todo'[q]), todo'[q][i] \in Ends
            PROVE  /\ pc'[q] = "journal" /\ result'[job'[q]].status # "none"
                   /\ todo'[q][i] \in Concluded[result'[job'[q]].status]
        <5>1. i \in 1 .. Len(todo[q]) /\ todo[q][i] \in Ends /\ todo'[q][i] = todo[q][i]
          BY <4>5, <4>7
        <5>2. /\ result[job[q]].status # "none"
              /\ todo[q][i] \in Concluded[result[job[q]].status]
          BY <5>1 DEF Ending
        <5> QED
          BY <4>1, <4>6, <4>7, <5>1, <5>2
      <4> QED
        BY <3>3, <4>4, <4>6, <4>7 DEF Ending
    <3> QED
      BY <3>5, <3>6, <3>7
  <2>15. ASSUME NEW p \in Procs, Return(p) PROVE Ordered'
    BY <2>15 DEF Agree, Unwritten, Ending, Return
  <2>16. ASSUME NEW p \in Procs, Crash(p) PROVE Ordered'
    BY <2>16 DEF Agree, Unwritten, Ending, Crash
  <2>17. ASSUME NEW r \in Runs, Admit(r) PROVE Ordered'
    BY <2>17 DEF Agree, Unwritten, Ending, Admit
  <2>18. ASSUME NEW r \in Runs, Forward(r) PROVE Ordered'
    BY <2>18 DEF Agree, Unwritten, Ending, Forward
  <2>19. ASSUME NEW r \in Runs, NEW how \in {"responses", "failed"}, Answer(r, how)
         PROVE  Ordered'
    BY <2>19 DEF Agree, Unwritten, Ending, Answer
  <2>20. CASE Revoke
    BY <2>20 DEF Agree, Unwritten, Ending, Revoke
  <2>21. CASE UNCHANGED vars
    BY <2>21 DEF Agree, Unwritten, Ending, vars, store, proxy
  <2> QED
    BY <2>1, <2>2, <2>3, <2>4, <2>5, <2>6, <2>7, <2>8, <2>9, <2>10, <2>11,
       <2>12, <2>13, <2>14, <2>15, <2>16, <2>17, <2>18, <2>19, <2>20, <2>21
       DEF Next, Execute
<1> QED
  BY <1>1, <1>2, TypeCorrect, OwnedAlways, PTL DEF Spec

\* The reservation, the result and the action of a run never contradict each
\* other, wherever a process died.
THEOREM StoresNeverContradict == Spec => []StoresAgree
<1>1. TypeOK /\ Ordered => StoresAgree
  BY EndsAreFinal DEF TypeOK, Ordered, Agree, StoresAgree
<1> QED
  BY <1>1, TypeCorrect, OrderedAlways, PTL

(***************************************************************************)
(* What a closed reservation says: from the reading on the ledger moves    *)
(* requests that were forwarded before or forwards one more, which is      *)
(* late, and a run whose reservation is closed has no containers left to   *)
(* forward anything.                                                       *)
(***************************************************************************)
AllAnswered(r) == ledger[r].forwarding + ledger[r].failed <= late[r]
Brought(p) == Retryable(outcome[p].end, outcome[p].acc)

Quiet ==
  /\ \A r \in Runs : row[r] # "reserved" => ~ live[r]
  /\ \A r \in Runs : launches[r] = 0 => ~ live[r] /\ ledger[r] = Nothing /\ late[r] = 0
  /\ \A p \in Procs : pc[p] = "running" => late[job[p]] = 0
  /\ \A p \in Procs : pc[p] = "settle" => ~ live[job[p]]
Counted ==
  /\ \A p \in Procs : pc[p] \in {"cleanup", "settle"} =>
       Forwarded(outcome[p].acc) + late[job[p]] = Forwarded(ledger[job[p]])
  /\ \A r \in Runs : row[r] \in {"none", "reserved"} => consumed[r] = 0
  /\ GapAccounted
RetriesKnown ==
  /\ \A p \in Procs :
       pc[p] \in {"cleanup", "settle", "persist"} /\ Brought(p) => AllAnswered(job[p])
  /\ \A r \in Runs :
       result[r].retryable => AllAnswered(r) /\ row[r] \notin {"none", "reserved"}
Accounted == Quiet /\ Counted /\ RetriesKnown

\* What the proxy's steps do to the number of forwarded requests.
LEMMA ForwardedMoves ==
  ASSUME NEW acc \in Account
  PROVE  /\ Forwarded(acc) \in Nat
         /\ LET more == [acc EXCEPT !.reserved = @ + 1]
            IN  /\ Forwarded(more) = Forwarded(acc)
                /\ more.forwarding = acc.forwarding /\ more.failed = acc.failed
         /\ acc.reserved > 0 =>
              Forwarded(Move(acc, "reserved", "forwarding")) = Forwarded(acc) + 1
         /\ acc.forwarding > 0 => \A how \in {"responses", "failed"} :
              Forwarded(Move(acc, "forwarding", how)) = Forwarded(acc)
  BY DEF Forwarded, Account, Move

\* A worker's end that may be retried left no request open or failed.
LEMMA RetryableEnd ==
  ASSUME NEW ended \in WorkerEnd, NEW acc \in Account,
         ended = "unaccounted" => Forwarded(acc) = 0,
         Retryable(ended, acc)
  PROVE  acc.forwarding = 0 /\ acc.failed = 0
  BY DEF WorkerEnd, Retryable, Uncertain, Forwarded, Account

\* A reservation closed with a known outcome is closed with what was forwarded.
LEMMA ClosedAccounts ==
  ASSUME NEW ended \in End, NEW acc \in Account
  PROVE  /\ ClosedAs(ended, acc) \in {"committed", "failed"} =>
              ClosedWith(ended, acc) = Forwarded(acc)
         /\ ClosedWith(ended, acc) <= Forwarded(acc)
         /\ ClosedAs(ended, acc) \notin {"none", "reserved"}
         /\ ClosedWith(ended, acc) \in Nat
  BY DEF ClosedAs, ClosedWith, Uncertain, Forwarded, Account

\* Before its launch a run has no containers and an empty ledger.
LEMMA NothingForwarded ==
  Forwarded(Nothing) = 0 /\ Nothing.forwarding = 0 /\ Nothing.failed = 0
  BY DEF Forwarded, Nothing

LEMMA AccountedAlways == Spec => []Accounted
<1>1. Init => Accounted
  BY NothingForwarded DEF Init, Accounted, Quiet, Counted, RetriesKnown, GapAccounted, AllAnswered
<1>2. TypeOK /\ Owned /\ Ordered /\ Accounted /\ [Next]_vars => Accounted'
  <2> SUFFICES ASSUME TypeOK, Owned, Ordered, Accounted, [Next]_vars
               PROVE  Accounted'
    OBVIOUS
  <2>1. ASSUME NEW p \in Procs, NEW r \in Runs, Begin(p, r)
        PROVE  Accounted'
    <3>1. Quiet'
      BY <2>1 DEF TypeOK, Accounted, Quiet, Begin
    <3>2. Counted'
      BY <2>1 DEF TypeOK, Accounted, Counted, GapAccounted, Begin
    <3>3. RetriesKnown'
      BY <2>1 DEF TypeOK, Accounted, RetriesKnown, AllAnswered, Brought, Begin
    <3> QED
      BY <3>1, <3>2, <3>3 DEF Accounted
  <2>2. ASSUME NEW p \in Procs, NEW ended \in EarlyEnd, FailEarly(p, ended)
        PROVE  Accounted'
    <3>1. Quiet'
      BY <2>2, NothingForwarded DEF TypeOK, Accounted, Quiet, FailEarly, Owned, Prepares, Quiet
    <3>2. Counted'
      BY <2>2, NothingForwarded DEF TypeOK, Accounted, Counted, GapAccounted, FailEarly, Owned, Prepares, Quiet
    <3>3. RetriesKnown'
      BY <2>2, NothingForwarded DEF TypeOK, Accounted, RetriesKnown, AllAnswered, Brought, FailEarly, Owned, Prepares, Quiet
    <3> QED
      BY <3>1, <3>2, <3>3 DEF Accounted
  <2>3. ASSUME NEW p \in Procs, NEW ended \in WorkerEnd, ReadLedger(p, ended)
        PROVE  Accounted'
    <3>1. Quiet'
      BY <2>3, RetryableEnd, ForwardedMoves DEF TypeOK, Accounted, Quiet, ReadLedger, WorkerEnd, End
    <3>2. Counted'
      <4>1. /\ row' = row /\ consumed' = consumed /\ ledger' = ledger /\ late' = late /\ job' = job
            /\ pc' = [pc EXCEPT ![p] = "cleanup"] /\ pc[p] = "running"
            /\ outcome'[p].acc = ledger[job[p]]
            /\ \A q \in Procs \ {p} : outcome'[q] = outcome[q]
        BY <2>3 DEF TypeOK, ReadLedger
      <4>2. job[p] \in Runs /\ late[job[p]] = 0 /\ Forwarded(ledger[job[p]]) \in Nat
        BY <4>1, ForwardedMoves DEF TypeOK, Accounted, Quiet
      <4>3. Forwarded(outcome'[p].acc) + late[job[p]] = Forwarded(ledger[job[p]])
        BY <4>1, <4>2
      <4>4. \A q \in Procs \ {p} : pc'[q] = pc[q]
        BY <4>1 DEF TypeOK
      <4>5. \A q \in Procs : pc'[q] \in {"cleanup", "settle"} =>
              Forwarded(outcome'[q].acc) + late[job[q]] = Forwarded(ledger[job[q]])
        BY <4>1, <4>3, <4>4 DEF Accounted, Counted
      <4> QED
        BY <4>1, <4>5 DEF Accounted, Counted, GapAccounted
    <3>3. RetriesKnown'
      BY <2>3, RetryableEnd, ForwardedMoves DEF TypeOK, Accounted, RetriesKnown, AllAnswered, Brought, ReadLedger, WorkerEnd, End
    <3> QED
      BY <3>1, <3>2, <3>3 DEF Accounted
  <2>4. ASSUME NEW p \in Procs, Reserve(p)
        PROVE  Accounted'
    <3>1. Quiet'
      BY <2>4 DEF TypeOK, Accounted, Quiet, Reserve, Reservable, Owned
    <3>2. Counted'
      BY <2>4 DEF TypeOK, Accounted, Counted, GapAccounted, Reserve, Reservable, Owned
    <3>3. RetriesKnown'
      BY <2>4 DEF TypeOK, Accounted, RetriesKnown, AllAnswered, Brought, Reserve, Reservable, Owned
    <3> QED
      BY <3>1, <3>2, <3>3 DEF Accounted
  <2>5. ASSUME NEW p \in Procs, AlreadyReserved(p)
        PROVE  Accounted'
    <3>1. Quiet'
      BY <2>5 DEF TypeOK, Accounted, Quiet, AlreadyReserved
    <3>2. Counted'
      BY <2>5 DEF TypeOK, Accounted, Counted, GapAccounted, AlreadyReserved
    <3>3. RetriesKnown'
      BY <2>5 DEF TypeOK, Accounted, RetriesKnown, AllAnswered, Brought, AlreadyReserved
    <3> QED
      BY <3>1, <3>2, <3>3 DEF Accounted
  <2>6. ASSUME NEW p \in Procs, Authorize(p)
        PROVE  Accounted'
    <3>1. Quiet'
      BY <2>6 DEF TypeOK, Accounted, Quiet, Authorize
    <3>2. Counted'
      BY <2>6 DEF TypeOK, Accounted, Counted, GapAccounted, Authorize
    <3>3. RetriesKnown'
      BY <2>6 DEF TypeOK, Accounted, RetriesKnown, AllAnswered, Brought, Authorize
    <3> QED
      BY <3>1, <3>2, <3>3 DEF Accounted
  <2>7. ASSUME NEW p \in Procs, Confirm(p)
        PROVE  Accounted'
    <3>1. Quiet'
      BY <2>7 DEF TypeOK, Accounted, Quiet, Confirm
    <3>2. Counted'
      BY <2>7 DEF TypeOK, Accounted, Counted, GapAccounted, Confirm
    <3>3. RetriesKnown'
      BY <2>7 DEF TypeOK, Accounted, RetriesKnown, AllAnswered, Brought, Confirm
    <3> QED
      BY <3>1, <3>2, <3>3 DEF Accounted
  <2>8. ASSUME NEW p \in Procs, Refuse(p)
        PROVE  Accounted'
    <3>1. Quiet'
      BY <2>8, NothingForwarded DEF TypeOK, Accounted, Quiet, Refuse, Owned, Prepares, Quiet
    <3>2. Counted'
      BY <2>8, NothingForwarded DEF TypeOK, Accounted, Counted, GapAccounted, Refuse, Owned, Prepares, Quiet
    <3>3. RetriesKnown'
      BY <2>8, NothingForwarded DEF TypeOK, Accounted, RetriesKnown, AllAnswered, Brought, Refuse, Owned, Prepares, Quiet
    <3> QED
      BY <3>1, <3>2, <3>3 DEF Accounted
  <2>9. ASSUME NEW p \in Procs, Journal(p)
        PROVE  Accounted'
    <3>1. Quiet'
      BY <2>9 DEF TypeOK, Accounted, Quiet, Journal
    <3>2. Counted'
      BY <2>9 DEF TypeOK, Accounted, Counted, GapAccounted, Journal
    <3>3. RetriesKnown'
      BY <2>9 DEF TypeOK, Accounted, RetriesKnown, AllAnswered, Brought, Journal
    <3> QED
      BY <3>1, <3>2, <3>3 DEF Accounted
  <2>10. ASSUME NEW p \in Procs, StartFails(p)
        PROVE  Accounted'
    <3>1. Quiet'
      BY <2>10, NothingForwarded DEF TypeOK, Accounted, Quiet, StartFails, Owned, Prepares, Quiet
    <3>2. Counted'
      BY <2>10, NothingForwarded DEF TypeOK, Accounted, Counted, GapAccounted, StartFails, Owned, Prepares, Quiet
    <3>3. RetriesKnown'
      BY <2>10, NothingForwarded DEF TypeOK, Accounted, RetriesKnown, AllAnswered, Brought, StartFails, Owned, Prepares, Quiet
    <3> QED
      BY <3>1, <3>2, <3>3 DEF Accounted
  <2>11. ASSUME NEW p \in Procs, Launch(p)
        PROVE  Accounted'
    <3>1. Quiet'
      <4>1. job[p] \in Runs /\ row[job[p]] = "reserved" /\ launches[job[p]] = 0
        BY <2>11 DEF TypeOK, Launch, Owned, Prepares
      <4>2. row' = row /\ ledger' = ledger /\ job' = job
        BY <2>11 DEF Launch
      <4>3. \A r \in Runs : row[r] # "reserved" => ~ live'[r]
        BY <2>11, <4>1 DEF TypeOK, Accounted, Quiet, Launch
      <4>0. late' = late /\ late[job[p]] = 0
        BY <2>11, <4>1 DEF Launch, Accounted, Quiet
      <4>4. \A r \in Runs : launches'[r] = 0 => r # job[p] /\ launches[r] = 0 /\ live'[r] = live[r]
        <5>1. launches'[job[p]] = 1
          BY <2>11, <4>1 DEF TypeOK, Launch
        <5>2. \A r \in Runs \ {job[p]} : launches'[r] = launches[r] /\ live'[r] = live[r]
          BY <2>11, <4>1 DEF TypeOK, Launch
        <5> QED
          BY <5>1, <5>2
      <4>5. \A q \in Procs : pc'[q] = "settle" => q # p /\ pc[q] = "settle"
        BY <2>11 DEF TypeOK, Launch
      <4>6. \A q \in Procs : pc'[q] = "settle" => job[q] # job[p] /\ job[q] \in Runs /\ live'[job[q]] = live[job[q]]
        BY <2>11, <4>1, <4>5 DEF TypeOK, Launch, Owned, Past
      <4>7. \A q \in Procs : pc'[q] = "running" => q = p \/ pc[q] = "running"
        BY <2>11 DEF TypeOK, Launch
      <4> QED
        BY <4>0, <4>2, <4>3, <4>4, <4>5, <4>6, <4>7 DEF Accounted, Quiet
    <3>2. Counted'
      BY <2>11 DEF TypeOK, Accounted, Counted, GapAccounted, Launch, Owned, Prepares, Past
    <3>3. RetriesKnown'
      BY <2>11 DEF TypeOK, Accounted, RetriesKnown, AllAnswered, Brought, Launch, Owned, Prepares, Past
    <3> QED
      BY <3>1, <3>2, <3>3 DEF Accounted
  <2>12. ASSUME NEW p \in Procs, CleanUp(p)
        PROVE  Accounted'
    <3>1. Quiet'
      BY <2>12 DEF TypeOK, Accounted, Quiet, CleanUp
    <3>2. Counted'
      BY <2>12 DEF TypeOK, Accounted, Counted, GapAccounted, CleanUp
    <3>3. RetriesKnown'
      BY <2>12 DEF TypeOK, Accounted, RetriesKnown, AllAnswered, Brought, CleanUp
    <3> QED
      BY <3>1, <3>2, <3>3 DEF Accounted
  <2>13. ASSUME NEW p \in Procs, Settle(p)
        PROVE  Accounted'
    <3>1. Quiet'
      BY <2>13, ClosedAccounts DEF TypeOK, Accounted, Quiet, Settle, Owned, Past
    <3>2. Counted'
      <4> DEFINE o == outcome[p]
                 mine == job[p]
      <4>1. /\ mine \in Runs /\ pc[p] = "settle" /\ row[mine] = "reserved"
            /\ row' = [row EXCEPT ![mine] = ClosedAs(o.end, o.acc)]
            /\ consumed' = [consumed EXCEPT ![mine] = ClosedWith(o.end, o.acc)]
            /\ pc' = [pc EXCEPT ![p] = "persist"]
            /\ ledger' = ledger /\ late' = late /\ job' = job /\ outcome' = outcome
        BY <2>13 DEF TypeOK, Settle
      <4>2. o.end \in End /\ o.acc \in Account /\ late[mine] \in Nat
        BY <4>1 DEF TypeOK
      <4>3. /\ row'[mine] = ClosedAs(o.end, o.acc) /\ consumed'[mine] = ClosedWith(o.end, o.acc)
            /\ \A r \in Runs \ {mine} : row'[r] = row[r] /\ consumed'[r] = consumed[r]
            /\ \A q \in Procs : pc'[q] \in {"cleanup", "settle"} => pc'[q] = pc[q]
        BY <4>1 DEF TypeOK
      <4>4. Forwarded(o.acc) + late[mine] = Forwarded(ledger[mine]) /\ Forwarded(o.acc) \in Nat
        BY <4>1, <4>2, ForwardedMoves DEF Accounted, Counted
      <4>5. /\ row'[mine] \notin {"none", "reserved"} /\ consumed'[mine] <= Forwarded(o.acc)
            /\ consumed'[mine] \in Nat
            /\ row'[mine] \in {"committed", "failed"} => consumed'[mine] = Forwarded(o.acc)
        BY <4>2, <4>3, ClosedAccounts
      <4>6. /\ row'[mine] \in {"committed", "failed"} =>
                 consumed'[mine] + late[mine] = Forwarded(ledger[mine])
            /\ consumed'[mine] <= Forwarded(ledger[mine])
        BY <4>2, <4>4, <4>5
      <4> QED
        BY <4>1, <4>3, <4>5, <4>6 DEF Accounted, Counted, GapAccounted
    <3>3. RetriesKnown'
      BY <2>13, ClosedAccounts DEF TypeOK, Accounted, RetriesKnown, AllAnswered, Brought, Settle, Owned, Past
    <3> QED
      BY <3>1, <3>2, <3>3 DEF Accounted
  <2>14. ASSUME NEW p \in Procs, PersistResult(p)
        PROVE  Accounted'
    <3>1. Quiet'
      BY <2>14, ClosedAccounts DEF TypeOK, Accounted, Quiet, PersistResult, Ordered, Unwritten, Past, Owned
    <3>2. Counted'
      BY <2>14, ClosedAccounts DEF TypeOK, Accounted, Counted, GapAccounted, PersistResult, Ordered, Unwritten, Past, Owned
    <3>3. RetriesKnown'
      BY <2>14, ClosedAccounts DEF TypeOK, Accounted, RetriesKnown, AllAnswered, Brought, PersistResult, Ordered, Unwritten, Past, Owned
    <3> QED
      BY <3>1, <3>2, <3>3 DEF Accounted
  <2>15. ASSUME NEW p \in Procs, Return(p)
        PROVE  Accounted'
    <3>1. Quiet'
      BY <2>15 DEF TypeOK, Accounted, Quiet, Return
    <3>2. Counted'
      BY <2>15 DEF TypeOK, Accounted, Counted, GapAccounted, Return
    <3>3. RetriesKnown'
      BY <2>15 DEF TypeOK, Accounted, RetriesKnown, AllAnswered, Brought, Return
    <3> QED
      BY <3>1, <3>2, <3>3 DEF Accounted
  <2>16. ASSUME NEW p \in Procs, Crash(p)
        PROVE  Accounted'
    <3>1. Quiet'
      BY <2>16 DEF TypeOK, Accounted, Quiet, Crash
    <3>2. Counted'
      BY <2>16 DEF TypeOK, Accounted, Counted, GapAccounted, Crash
    <3>3. RetriesKnown'
      BY <2>16 DEF TypeOK, Accounted, RetriesKnown, AllAnswered, Brought, Crash
    <3> QED
      BY <3>1, <3>2, <3>3 DEF Accounted
  <2>17. ASSUME NEW r \in Runs, Admit(r)
        PROVE  Accounted'
    <3>1. Quiet'
      BY <2>17, ForwardedMoves DEF TypeOK, Accounted, Quiet, Admit, Quiet
    <3>2. Counted'
      BY <2>17, ForwardedMoves DEF TypeOK, Accounted, Counted, GapAccounted, Admit, Quiet
    <3>3. RetriesKnown'
      BY <2>17, ForwardedMoves DEF TypeOK, Accounted, RetriesKnown, AllAnswered, Brought, Admit, Quiet
    <3> QED
      BY <3>1, <3>2, <3>3 DEF Accounted
  <2>18. ASSUME NEW r \in Runs, Forward(r)
        PROVE  Accounted'
    <3> DEFINE seenOf == WasRead(r)
    <3>1. /\ row' = row /\ consumed' = consumed /\ pc' = pc /\ job' = job /\ outcome' = outcome
          /\ result' = result /\ live' = live /\ launches' = launches /\ live[r]
          /\ \A x \in Runs \ {r} : ledger'[x] = ledger[x] /\ late'[x] = late[x]
          /\ ledger'[r] = Move(ledger[r], "reserved", "forwarding")
          /\ late'[r] = IF seenOf THEN late[r] + 1 ELSE late[r]
      BY <2>18 DEF TypeOK, Forward
    <3>2. /\ Forwarded(ledger[r]) \in Nat /\ Forwarded(ledger'[r]) = Forwarded(ledger[r]) + 1
          /\ ledger'[r].forwarding = ledger[r].forwarding + 1 /\ ledger'[r].failed = ledger[r].failed
          /\ ledger[r].forwarding \in Nat /\ ledger[r].failed \in Nat /\ late[r] \in Nat
      <4>1. ledger[r] \in Account /\ ledger[r].reserved > 0 /\ late[r] \in Nat
        BY <2>18 DEF TypeOK, Forward
      <4>2. /\ Forwarded(ledger[r]) \in Nat
            /\ Forwarded(Move(ledger[r], "reserved", "forwarding")) = Forwarded(ledger[r]) + 1
        BY <4>1, ForwardedMoves
      <4>3. /\ Move(ledger[r], "reserved", "forwarding").forwarding = ledger[r].forwarding + 1
            /\ Move(ledger[r], "reserved", "forwarding").failed = ledger[r].failed
        BY <4>1 DEF Account, Move
      <4>4. ledger[r].forwarding \in Nat /\ ledger[r].failed \in Nat
        BY <4>1 DEF Account
      <4> QED BY <3>1, <4>1, <4>2, <4>3, <4>4
    <3>3. row[r] = "reserved" /\ consumed[r] = 0 /\ launches[r] # 0
      BY <3>1 DEF Accounted, Quiet, Counted
    <3>4. \A q \in Procs : pc[q] = "cleanup" /\ job[q] = r => seenOf
      BY DEF WasRead
    <3>5. \A q \in Procs : pc[q] = "settle" => job[q] # r
      BY <3>1 DEF Accounted, Quiet
    <3>6. \A q \in Procs : pc[q] = "persist" => job[q] # r
      <4>1. \A q \in Procs : pc[q] = "persist" =>
              /\ outcome[q].end \in End /\ outcome[q].acc \in Account
              /\ row[job[q]] = ClosedAs(outcome[q].end, outcome[q].acc)
        BY DEF TypeOK, Ordered, Unwritten
      <4>2. \A q \in Procs : pc[q] = "persist" => row[job[q]] # "reserved"
        BY <4>1, ClosedAccounts
      <4> QED BY <3>3, <4>2
    <3>7. \A q \in Procs : pc[q] = "running" /\ job[q] = r => ~ seenOf
      BY DEF WasRead, Owned, Past
    <3>8. \A q \in Procs : pc[q] \in {"running", "cleanup", "settle", "persist"} => job[q] \in Runs
      BY DEF TypeOK
    <3>9. Quiet'
      BY <3>1, <3>3, <3>7, <3>8 DEF Accounted, Quiet
    <3>10. Counted'
      <4>1. \A q \in Procs : pc[q] \in {"cleanup", "settle"} /\ job[q] = r =>
              late'[r] = late[r] + 1
        BY <3>1, <3>4, <3>5
      <4>2. ASSUME NEW q \in Procs, pc[q] \in {"cleanup", "settle"}
            PROVE  Forwarded(outcome[q].acc) + late'[job[q]] = Forwarded(ledger'[job[q]])
        <5>1. /\ Forwarded(outcome[q].acc) + late[job[q]] = Forwarded(ledger[job[q]])
              /\ Forwarded(outcome[q].acc) \in Nat /\ job[q] \in Runs
          BY <3>8, <4>2, ForwardedMoves DEF TypeOK, Accounted, Counted
        <5>2. CASE job[q] = r
          BY <3>2, <4>1, <4>2, <5>1, <5>2
        <5>3. CASE job[q] # r
          BY <3>1, <5>1, <5>3
        <5> QED BY <5>2, <5>3
      <4>3. GapAccounted'
        <5>1. \A x \in Runs \ {r} : ledger'[x] = ledger[x] /\ late'[x] = late[x]
          BY <3>1
        <5>2. consumed[r] <= Forwarded(ledger'[r])
          BY <3>2, <3>3
        <5> QED
          BY <3>1, <3>3, <5>1, <5>2 DEF Accounted, Counted, GapAccounted
      <4> QED
        BY <3>1, <4>2, <4>3 DEF Accounted, Counted
    <3>11. RetriesKnown'
      <4> DEFINE Kept(x) == ledger'[x].forwarding + ledger'[x].failed <= late'[x]
      <4>1. \A x \in Runs \ {r} : AllAnswered(x) => Kept(x)
        BY <3>1 DEF AllAnswered
      <4>2. AllAnswered(r) /\ seenOf => Kept(r)
        BY <3>1, <3>2 DEF AllAnswered
      <4> HIDE DEF Kept
      <4>3. \A q \in Procs :
              pc[q] \in {"cleanup", "settle", "persist"} /\ Brought(q) => Kept(job[q])
        BY <3>4, <3>5, <3>6, <3>8, <4>1, <4>2 DEF Accounted, RetriesKnown
      <4>4. \A x \in Runs : result[x].retryable => Kept(x) /\ row[x] \notin {"none", "reserved"}
        BY <3>3, <4>1 DEF Accounted, RetriesKnown
      <4> QED
        BY <3>1, <4>3, <4>4 DEF RetriesKnown, Brought, AllAnswered, Kept
    <3> QED
      BY <3>9, <3>10, <3>11 DEF Accounted
  <2>19. ASSUME NEW r \in Runs, NEW how \in {"responses", "failed"}, Answer(r, how)
        PROVE  Accounted'
    <3>1. /\ row' = row /\ consumed' = consumed /\ pc' = pc /\ job' = job /\ outcome' = outcome
          /\ result' = result /\ live' = live /\ launches' = launches /\ late' = late /\ live[r]
          /\ \A x \in Runs \ {r} : ledger'[x] = ledger[x]
          /\ ledger'[r] = Move(ledger[r], "forwarding", how)
      BY <2>19 DEF TypeOK, Answer
    <3>2. /\ ledger[r] \in Account /\ ledger[r].forwarding > 0
          /\ Forwarded(ledger'[r]) = Forwarded(ledger[r])
      <4>1. ledger[r] \in Account /\ ledger[r].forwarding > 0
        BY <2>19 DEF TypeOK, Answer
      <4>2. Forwarded(Move(ledger[r], "forwarding", how)) = Forwarded(ledger[r])
        BY <2>19, <4>1, ForwardedMoves
      <4> QED
        BY <3>1, <4>1, <4>2
    <3>3. ledger'[r].forwarding + ledger'[r].failed <= ledger[r].forwarding + ledger[r].failed
      BY <3>1, <3>2 DEF Account, Move
    <3>4. row[r] = "reserved" /\ launches[r] # 0
      BY <3>1 DEF Accounted, Quiet
    <3>5. \A q \in Procs : pc[q] \in {"cleanup", "settle", "persist"} => job[q] \in Runs
      BY DEF TypeOK
    <3>6. Quiet'
      BY <3>1, <3>4 DEF Accounted, Quiet
    <3>7. Counted'
      <4>1. \A x \in Runs : Forwarded(ledger'[x]) = Forwarded(ledger[x])
        BY <3>1, <3>2
      <4> QED
        BY <3>1, <3>5, <4>1 DEF Accounted, Counted, GapAccounted
    <3>8. RetriesKnown'
      <4> DEFINE Kept(x) == ledger'[x].forwarding + ledger'[x].failed <= late'[x]
      <4>1. \A x \in Runs \ {r} : AllAnswered(x) => Kept(x)
        BY <3>1 DEF AllAnswered
      <4>2. AllAnswered(r) => Kept(r)
        <5>1. /\ ledger[r].forwarding \in Nat /\ ledger[r].failed \in Nat /\ late[r] \in Nat
              /\ ledger'[r].forwarding \in Int /\ ledger'[r].failed \in Int
          BY <3>1, <3>2 DEF TypeOK, Account, Move
        <5> QED
          BY <3>1, <3>3, <5>1 DEF AllAnswered
      <4> HIDE DEF Kept
      <4>3. \A q \in Procs :
              pc[q] \in {"cleanup", "settle", "persist"} /\ Brought(q) => Kept(job[q])
        BY <3>5, <4>1, <4>2 DEF Accounted, RetriesKnown
      <4>4. \A x \in Runs : result[x].retryable => Kept(x) /\ row[x] \notin {"none", "reserved"}
        BY <4>1, <4>2 DEF Accounted, RetriesKnown
      <4> QED
        BY <3>1, <4>3, <4>4 DEF RetriesKnown, Brought, AllAnswered, Kept
    <3> QED
      BY <3>6, <3>7, <3>8 DEF Accounted
  <2>20. CASE Revoke
    <3>1. Quiet'
      BY <2>20 DEF TypeOK, Accounted, Quiet, Revoke
    <3>2. Counted'
      BY <2>20 DEF TypeOK, Accounted, Counted, GapAccounted, Revoke
    <3>3. RetriesKnown'
      BY <2>20 DEF TypeOK, Accounted, RetriesKnown, AllAnswered, Brought, Revoke
    <3> QED
      BY <3>1, <3>2, <3>3 DEF Accounted
  <2>21. CASE UNCHANGED vars
    <3>1. Quiet'
      BY <2>21 DEF TypeOK, Accounted, Quiet, vars
    <3>2. Counted'
      BY <2>21 DEF TypeOK, Accounted, Counted, GapAccounted, vars
    <3>3. RetriesKnown'
      BY <2>21 DEF TypeOK, Accounted, RetriesKnown, AllAnswered, Brought, vars
    <3> QED
      BY <3>1, <3>2, <3>3 DEF Accounted
  <2> QED
    BY <2>1, <2>2, <2>3, <2>4, <2>5, <2>6, <2>7, <2>8, <2>9, <2>10,
       <2>11, <2>12, <2>13, <2>14, <2>15, <2>16, <2>17, <2>18, <2>19, <2>20, <2>21
       DEF Next, Execute
<1> QED
  BY <1>1, <1>2, TypeCorrect, OwnedAlways, OrderedAlways, PTL DEF Spec

\* A closed reservation consumed what the proxy forwarded until its ledger was read
\* (DetectorBudgetStore.reconcile), and misses only what left before its removal.
THEOREM BudgetsAccounted == Spec => []GapAccounted
BY AccountedAlways, PTL DEF Accounted, Counted

\* A run offered for a retry has no request without an answer but those of that window.
THEOREM RetriesAreSafe == Spec => []RetrySafe
<1>1. Accounted => RetrySafe
  BY DEF Accounted, RetriesKnown, AllAnswered, RetrySafe
<1> QED
  BY <1>1, AccountedAlways, PTL

-----------------------------------------------------------------------------
(***************************************************************************)
(* The campaign's counters.  A permit is counted as issued before the run  *)
(* holds it, as consumed before the worker is launched with it, and the    *)
(* requests of a reservation are counted after it was closed with them.    *)
(***************************************************************************)
Has(ops, op) == \E i \in 1..Len(ops) : ops[i] = op
Once(ops) == \A i, j \in 1..Len(ops) : ops[i] = ops[j] => i = j

\* A process whose run holds a permit, one that has paid for its launch, and one whose
\* requests are not counted yet.
Holds(p) == \/ pc[p] = "permit" /\ ~ Has(todo[p], "permits_issued")
            \/ pc[p] = "starting" /\ Has(todo[p], "permits_consumed")
Paid(p) == pc[p] = "starting" /\ ~ Has(todo[p], "permits_consumed")
Uncounted(p) == \/ pc[p] \notin {"idle", "reserve", "journal"}
                \/ pc[p] = "journal" /\ Has(todo[p], "reconcile")

\* The counters that are compared with what happened.
Watched == {"permits_issued", "permits_consumed", "requests_forwarded"}

Holding == {r \in Runs : \E p \in Procs : job[p] = r /\ Holds(p)}
Paying == {r \in Runs : \E p \in Procs : job[p] = r /\ Paid(p)}
Booked == {r \in Runs : \A p \in Procs : job[p] = r => ~ Uncounted(p)}
BookedUnits == {u \in Units(consumed) : u[1] \in Booked}

InPlace ==
  \A p \in Procs :
    /\ Once(todo[p]) /\ ~ Has(todo[p], "requests_forwarded")
    /\ Has(todo[p], "permits_issued") => pc[p] = "permit"
    /\ Has(todo[p], "permits_consumed") => pc[p] = "starting"
    /\ Has(todo[p], "reconcile") => pc[p] = "journal"
    /\ Has(todo[p], "reconcile") \/ pc[p] = "persist" =>
         consumed[job[p]] = ClosedWith(outcome[p].end, outcome[p].acc)
Unspent == \A r \in Runs : row[r] \in {"none", "reserved"} => consumed[r] = 0
Counters ==
  /\ count["permits_consumed"] + Cardinality(Holding) <= count["permits_issued"]
  /\ Cardinality(Units(launches)) + Cardinality(Paying) <= count["permits_consumed"]
  /\ count["requests_forwarded"] <= Cardinality(BookedUnits)
Covered == InPlace /\ Unspent /\ Counters

\* What the calls of the journal count.
LEMMA CallsCount ==
  /\ \A op : ~ Has(<<>>, op)
  /\ Once(<<>>)
  /\ \A op \in Watched \cup {"reconcile"} : ~ Has(CreateAction, op)
  /\ Once(CreateAction)
  /\ \A op \in {"permits_consumed", "requests_forwarded", "reconcile"} :
       ~ Has(AuthorizationPersisted, op)
  /\ Has(AuthorizationPersisted, "permits_issued") /\ Once(AuthorizationPersisted)
  /\ \A op \in {"permits_issued", "requests_forwarded", "reconcile"} : ~ Has(WorkerStarting, op)
  /\ Has(WorkerStarting, "permits_consumed") /\ Once(WorkerStarting)
  /\ \A status \in RunStatus, state \in ActionState :
       /\ \A op \in Watched : ~ Has(ResultPersisted(status, state), op)
       /\ Once(ResultPersisted(status, state))
<1>1. (\A op : ~ Has(<<>>, op)) /\ Once(<<>>)
  BY DEF Has, Once
<1>2. /\ \A op \in Watched \cup {"reconcile"} : ~ Has(CreateAction, op)
      /\ Once(CreateAction)
  BY DEF Has, Once, Watched, CreateAction
<1>3. /\ \A op \in {"permits_consumed", "requests_forwarded", "reconcile"} :
           ~ Has(AuthorizationPersisted, op)
      /\ Has(AuthorizationPersisted, "permits_issued") /\ Once(AuthorizationPersisted)
  <2>1. AuthorizationPersisted[2] = "permits_issued" /\ 2 \in 1..Len(AuthorizationPersisted)
    BY DEF AuthorizationPersisted
  <2>2. Has(AuthorizationPersisted, "permits_issued")
    BY <2>1 DEF Has
  <2> QED BY <2>2 DEF Has, Once, AuthorizationPersisted
<1>4. /\ \A op \in {"permits_issued", "requests_forwarded", "reconcile"} : ~ Has(WorkerStarting, op)
      /\ Has(WorkerStarting, "permits_consumed") /\ Once(WorkerStarting)
  <2>1. WorkerStarting[3] = "permits_consumed" /\ 3 \in 1..Len(WorkerStarting)
    BY DEF WorkerStarting
  <2>2. Has(WorkerStarting, "permits_consumed")
    BY <2>1 DEF Has
  <2> QED BY <2>2 DEF Has, Once, WorkerStarting
<1>5. ASSUME NEW status \in RunStatus, NEW state \in ActionState
      PROVE  /\ \A op \in Watched : ~ Has(ResultPersisted(status, state), op)
             /\ Once(ResultPersisted(status, state))
  BY DEF Has, Once, Watched, ResultPersisted, BlockedAs, RunStatus
<1> QED BY <1>1, <1>2, <1>3, <1>4, <1>5

\* What is left of a call after its first operation.
LEMMA RestOfCall ==
  ASSUME NEW ops \in Seq(Op), ops # <<>>, Once(ops)
  PROVE  /\ Once(Tail(ops))
         /\ \A op : Has(Tail(ops), op) <=> Has(ops, op) /\ op # Head(ops)
         /\ Has(ops, Head(ops))
<1>1. /\ Len(ops) \in Nat /\ Len(ops) > 0 /\ Len(Tail(ops)) = Len(ops) - 1
      /\ \A i \in 1..Len(Tail(ops)) : i + 1 \in 1..Len(ops) /\ Tail(ops)[i] = ops[i + 1]
      /\ Head(ops) = ops[1]
  OBVIOUS
<1>2. \A j \in 1..Len(ops) : j # 1 => j - 1 \in 1..Len(Tail(ops)) /\ ops[j] = Tail(ops)[j - 1]
  BY <1>1
<1>3. 1 \in 1..Len(ops)
  BY <1>1
<1>4. Once(Tail(ops))
  <2> SUFFICES ASSUME NEW i \in 1..Len(Tail(ops)), NEW j \in 1..Len(Tail(ops)),
                      Tail(ops)[i] = Tail(ops)[j]
               PROVE  i = j
    BY DEF Once
  <2>1. i + 1 = j + 1
    BY <1>1 DEF Once
  <2> QED BY <1>1, <2>1
<1>5. ASSUME NEW op PROVE Has(Tail(ops), op) <=> Has(ops, op) /\ op # Head(ops)
  <2>1. ASSUME Has(Tail(ops), op) PROVE Has(ops, op) /\ op # Head(ops)
    <3>1. PICK i \in 1..Len(Tail(ops)) : Tail(ops)[i] = op
      BY <2>1 DEF Has
    <3>2. i + 1 \in 1..Len(ops) /\ ops[i + 1] = op /\ i + 1 # 1
      BY <1>1, <3>1
    <3> QED BY <1>1, <1>3, <3>2 DEF Has, Once
  <2>2. ASSUME Has(ops, op), op # Head(ops) PROVE Has(Tail(ops), op)
    <3>1. PICK j \in 1..Len(ops) : ops[j] = op
      BY <2>2 DEF Has
    <3>2. j # 1
      BY <1>1, <2>2, <3>1
    <3> QED BY <1>2, <3>1, <3>2 DEF Has
  <2> QED BY <2>1, <2>2
<1> QED BY <1>1, <1>3, <1>4, <1>5 DEF Has

-----------------------------------------------------------------------------
\* The units of a function.
LEMMA UnitsFinite ==
  ASSUME NEW of \in [Runs -> Nat]
  PROVE  /\ IsFiniteSet(Units(of))
         /\ \A u : u \in Units(of) <=> /\ u[1] \in Runs /\ u[2] \in 1..of[u[1]]
                                       /\ u = <<u[1], u[2]>>
<1> DEFINE f == [r \in Runs |-> {r} \X (1..of[r])]
           family == {{r} \X (1..of[r]) : r \in Runs}
<1>1. f \in Surjection(Runs, family)
  BY DEF Surjection
<1>2. IsFiniteSet(family)
  BY <1>1, RunsAssumption, FS_Surjection
<1>3. \A T \in family : IsFiniteSet(T)
  <2> SUFFICES ASSUME NEW r \in Runs PROVE IsFiniteSet({r} \X (1..of[r]))
    OBVIOUS
  <2>1. IsFiniteSet({r})
    BY FS_Singleton
  <2>2. IsFiniteSet(1..of[r])
    <3>1. 1 \in Int /\ of[r] \in Int
      OBVIOUS
    <3> QED BY <3>1, FS_Interval
  <2> QED BY <2>1, <2>2, FS_Product
<1>4. Units(of) = UNION family
  BY DEF Units
<1>5. IsFiniteSet(Units(of))
  BY <1>2, <1>3, <1>4, FS_UNION
<1>6. \A u : u \in Units(of) <=> /\ u[1] \in Runs /\ u[2] \in 1..of[u[1]] /\ u = <<u[1], u[2]>>
  BY DEF Units
<1> QED BY <1>5, <1>6

\* The sets the counters are compared with are finite.
LEMMA CountedFinite ==
  ASSUME TypeOK
  PROVE  /\ IsFiniteSet(Holding) /\ IsFiniteSet(Paying)
         /\ IsFiniteSet(Units(launches)) /\ IsFiniteSet(BookedUnits)
         /\ \A c \in Counter : count[c] \in Nat
         /\ Watched \subseteq Counter
<1>1. IsFiniteSet(Holding) /\ IsFiniteSet(Paying)
  <2>1. Holding \subseteq Runs /\ Paying \subseteq Runs
    BY DEF Holding, Paying
  <2> QED BY <2>1, RunsAssumption, FS_Subset
<1>2. IsFiniteSet(Units(launches)) /\ IsFiniteSet(Units(consumed))
  BY UnitsFinite DEF TypeOK
<1>3. BookedUnits \subseteq Units(consumed)
  BY DEF BookedUnits
<1>4. IsFiniteSet(BookedUnits)
  BY <1>2, <1>3, FS_Subset
<1>5. /\ \A c \in Counter : count[c] \in Nat
      /\ Watched \subseteq Counter
  BY DEF TypeOK, Counter, Watched
<1> QED BY <1>1, <1>2, <1>4, <1>5

\* ... and stay so.
LEMMA CountedStaysFinite ==
  ASSUME TypeOK'
  PROVE  IsFiniteSet(Holding') /\ IsFiniteSet(Paying') /\ IsFiniteSet(BookedUnits')
<1>1. IsFiniteSet(Holding') /\ IsFiniteSet(Paying')
  <2>1. Holding' \subseteq Runs /\ Paying' \subseteq Runs
    BY DEF Holding, Paying
  <2> QED BY <2>1, RunsAssumption, FS_Subset
<1>2. BookedUnits' \subseteq Units(consumed')
  BY DEF BookedUnits, Units
<1>3. IsFiniteSet(Units(consumed'))
  BY UnitsFinite DEF TypeOK
<1>4. IsFiniteSet(BookedUnits')
  BY <1>2, <1>3, FS_Subset
<1> QED BY <1>1, <1>4

\* A step that counts nothing, and leaves no more to count.
CountsNothing ==
  /\ (\A c \in Watched : count'[c] = count[c]) /\ launches' = launches
  /\ Holding' \subseteq Holding /\ Paying' \subseteq Paying
  /\ BookedUnits \subseteq BookedUnits'

\* A step that counts nothing keeps the counters in line.
LEMMA NothingCounted ==
  ASSUME TypeOK, TypeOK', Counters, CountsNothing
  PROVE  Counters'
<1> DEFINE H == Cardinality(Holding)
           H2 == Cardinality(Holding')
           P == Cardinality(Paying)
           P2 == Cardinality(Paying')
           B == Cardinality(BookedUnits)
           B2 == Cardinality(BookedUnits')
           L == Cardinality(Units(launches))
<1>1. IsFiniteSet(Holding) /\ IsFiniteSet(Paying) /\ IsFiniteSet(BookedUnits')
      /\ IsFiniteSet(Units(launches)) /\ IsFiniteSet(BookedUnits)
      /\ count["permits_issued"] \in Nat /\ count["permits_consumed"] \in Nat
      /\ count["requests_forwarded"] \in Nat
  BY CountedFinite, CountedStaysFinite DEF Watched
<1>2. H2 <= H /\ H \in Nat /\ H2 \in Nat
  BY <1>1, FS_Subset, FS_CardinalityType DEF CountsNothing
<1>3. P2 <= P /\ P \in Nat /\ P2 \in Nat
  BY <1>1, FS_Subset, FS_CardinalityType DEF CountsNothing
<1>4. B <= B2 /\ B \in Nat /\ B2 \in Nat
  BY <1>1, FS_Subset, FS_CardinalityType DEF CountsNothing
<1>5. L \in Nat
  BY <1>1, FS_CardinalityType
<1>6. Cardinality(Units(launches')) = L
  BY DEF CountsNothing
<1>7. /\ count["permits_consumed"] + H <= count["permits_issued"]
      /\ L + P <= count["permits_consumed"]
      /\ count["requests_forwarded"] <= B
  BY DEF Counters
<1>8. Counters' <=> /\ count'["permits_consumed"] + H2 <= count'["permits_issued"]
                    /\ Cardinality(Units(launches')) + P2 <= count'["permits_consumed"]
                    /\ count'["requests_forwarded"] <= B2
  BY DEF Counters, Units
<1> HIDE DEF H, H2, P, P2, B, B2, L
<1>9. /\ count'["permits_issued"] = count["permits_issued"]
      /\ count'["permits_consumed"] = count["permits_consumed"]
      /\ count'["requests_forwarded"] = count["requests_forwarded"]
  BY DEF CountsNothing, Watched
<1> QED BY <1>1, <1>2, <1>3, <1>4, <1>5, <1>6, <1>7, <1>8, <1>9

\* One process moves: the rest stays, and it has nothing more to be counted.
Moves(p) ==
  /\ \A q \in Procs \ {p} : pc'[q] = pc[q] /\ todo'[q] = todo[q] /\ job'[q] = job[q]
  /\ (\A c \in Watched : count'[c] = count[c]) /\ launches' = launches
  /\ \A r \in Runs : consumed[r] = 0 \/ consumed'[r] = consumed[r]
  /\ Holds(p)' => job'[p] = job[p] /\ Holds(p)
  /\ Paid(p)' => job'[p] = job[p] /\ Paid(p)
  /\ Uncounted(p)' => job'[p] = job[p] /\ (Uncounted(p) \/ consumed[job[p]] = 0)

\* Such a step counts nothing.
LEMMA MovesCountNothing ==
  ASSUME TypeOK, TypeOK', NEW p \in Procs, Moves(p)
  PROVE  CountsNothing
<1>1. ASSUME NEW q \in Procs
      PROVE  /\ Holds(q)' => job'[q] = job[q] /\ Holds(q)
             /\ Paid(q)' => job'[q] = job[q] /\ Paid(q)
             /\ Uncounted(q)' => job'[q] = job[q] /\ (Uncounted(q) \/ consumed[job[q]] = 0)
  <2>1. CASE q = p
    BY <2>1 DEF Moves
  <2>2. CASE q # p
    BY <2>2 DEF Moves, Holds, Paid, Uncounted
  <2> QED BY <2>1, <2>2
<1>2. Holding' \subseteq Holding
  BY <1>1 DEF Holding
<1>3. Paying' \subseteq Paying
  BY <1>1 DEF Paying
<1>4. ASSUME NEW u \in BookedUnits PROVE u \in BookedUnits'
  <2>1. u[1] \in Runs /\ u[2] \in 1..consumed[u[1]] /\ u = <<u[1], u[2]>>
    BY UnitsFinite DEF BookedUnits, TypeOK
  <2>2. consumed[u[1]] \in Nat /\ consumed[u[1]] # 0
    BY <2>1 DEF TypeOK
  <2>3. consumed'[u[1]] = consumed[u[1]]
    BY <2>1, <2>2 DEF Moves
  <2>4. u[1] \in Booked'
    BY <1>1, <2>1, <2>2 DEF BookedUnits, Booked
  <2>5. u \in Units(consumed')
    BY <2>1, <2>3, UnitsFinite DEF TypeOK
  <2> QED BY <2>4, <2>5 DEF BookedUnits, Units
<1> QED BY <1>2, <1>3, <1>4 DEF CountsNothing, Moves

\* At the start nothing was counted and there is nothing to count.
LEMMA CoveredInit == Init => Covered
<1> SUFFICES ASSUME Init PROVE Covered
  OBVIOUS
<1>1. InPlace
  BY CallsCount DEF Init, InPlace, Watched
<1>2. Unspent
  BY DEF Init, Unspent
<1>3. Counters
  <2>1. Holding = {} /\ Paying = {}
    BY DEF Init, Holding, Paying, Holds, Paid
  <2>2. Units(launches) = {}
    BY DEF Init, Units
  <2>3. BookedUnits = {}
    BY DEF Init, BookedUnits, Units
  <2>4. /\ count["permits_consumed"] = 0 /\ count["permits_issued"] = 0
        /\ count["requests_forwarded"] = 0
    BY DEF Init, Counter
  <2>5. Cardinality({}) = 0
    BY FS_EmptySet
  <2> QED BY <2>1, <2>2, <2>3, <2>4, <2>5 DEF Counters
<1> QED BY <1>1, <1>2, <1>3 DEF Covered

\* A call counts each thing once, where it belongs, and of what the reservation was closed with.
LEMMA InPlaceStep ==
  TypeOK /\ Owned /\ InPlace /\ [Next]_vars => InPlace'
<1> SUFFICES ASSUME TypeOK, Owned, InPlace, [Next]_vars PROVE InPlace'
  OBVIOUS
<1> USE DEF TypeOK, InPlace, Watched
<1>1. ASSUME NEW p \in Procs, NEW r \in Runs, Begin(p, r) PROVE InPlace'
  BY <1>1, CallsCount DEF Begin
<1>2. ASSUME NEW p \in Procs, NEW ended \in EarlyEnd, FailEarly(p, ended)
       PROVE  InPlace'
  BY <1>2, CallsCount DEF FailEarly
<1>3. ASSUME NEW p \in Procs, NEW ended \in WorkerEnd, ReadLedger(p, ended)
       PROVE  InPlace'
  BY <1>3, CallsCount DEF ReadLedger
<1>4. ASSUME NEW p \in Procs, Reserve(p) PROVE InPlace'
  BY <1>4, CallsCount DEF Reserve
<1>5. ASSUME NEW p \in Procs, AlreadyReserved(p) PROVE InPlace'
  BY <1>5, CallsCount DEF AlreadyReserved
<1>6. ASSUME NEW p \in Procs, Authorize(p) PROVE InPlace'
  BY <1>6, CallsCount DEF Authorize
<1>7. ASSUME NEW p \in Procs, Confirm(p) PROVE InPlace'
  BY <1>7, CallsCount DEF Confirm
<1>8. ASSUME NEW p \in Procs, Refuse(p) PROVE InPlace'
  BY <1>8, CallsCount DEF Refuse
<1>9. ASSUME NEW p \in Procs, Journal(p) PROVE InPlace'
  <2>1. todo[p] \in Seq(Op) /\ todo[p] # <<>> /\ Once(todo[p])
    BY <1>9 DEF Journal
  <2>2. /\ Once(Tail(todo[p]))
        /\ \A op : Has(Tail(todo[p]), op) => Has(todo[p], op)
    BY <2>1, RestOfCall
  <2> QED BY <1>9, <2>2 DEF Journal
<1>10. ASSUME NEW p \in Procs, StartFails(p) PROVE InPlace'
  BY <1>10, CallsCount DEF StartFails
<1>11. ASSUME NEW p \in Procs, Launch(p) PROVE InPlace'
  BY <1>11, CallsCount DEF Launch
<1>12. ASSUME NEW p \in Procs, CleanUp(p) PROVE InPlace'
  BY <1>12, CallsCount DEF CleanUp
<1>13. ASSUME NEW p \in Procs, Settle(p) PROVE InPlace'
  <2>1. \A q \in Procs : q # p /\ Past(q) => job[q] # job[p]
    BY <1>13 DEF Settle, Owned, Past
  <2> QED BY <1>13, <2>1, CallsCount DEF Settle, Past
<1>14. ASSUME NEW p \in Procs, PersistResult(p) PROVE InPlace'
  <2> DEFINE status == StatusOf(outcome[p].end, outcome[p].acc)
             ops == ResultPersisted(status, action[job[p]])
  <2>1. status \in RunStatus
    BY AccountingType
  <2>2. /\ \A op \in Watched : ~ Has(ops, op)
        /\ Once(ops)
    BY <1>14, <2>1, CallsCount DEF PersistResult
  <2>3. /\ pc' = [pc EXCEPT ![p] = "journal"]
        /\ todo' = [todo EXCEPT ![p] = ops]
        /\ UNCHANGED <<consumed, job, outcome>>
        /\ todo[p] = <<>> /\ pc[p] = "persist"
    BY <1>14 DEF PersistResult
  <2> HIDE DEF ops
  <2> QED BY <2>2, <2>3 DEF Watched
<1>15. ASSUME NEW p \in Procs, Return(p) PROVE InPlace'
  BY <1>15, CallsCount DEF Return
<1>16. ASSUME NEW p \in Procs, Crash(p) PROVE InPlace'
  BY <1>16, CallsCount DEF Crash
<1>17. ASSUME NEW r \in Runs, Admit(r) PROVE InPlace'
  BY <1>17 DEF Admit
<1>18. ASSUME NEW r \in Runs, Forward(r) PROVE InPlace'
  BY <1>18 DEF Forward
<1>19. ASSUME NEW r \in Runs, NEW how \in {"responses", "failed"}, Answer(r, how)
       PROVE  InPlace'
  BY <1>19 DEF Answer
<1>20. CASE Revoke
  BY <1>20 DEF Revoke
<1>21. CASE UNCHANGED vars
  BY <1>21 DEF vars, store, proxy
<1> QED
  BY <1>1, <1>2, <1>3, <1>4, <1>5, <1>6, <1>7, <1>8, <1>9, <1>10, <1>11,
     <1>12, <1>13, <1>14, <1>15, <1>16, <1>17, <1>18, <1>19, <1>20, <1>21
     DEF Next, Execute

\* A reservation that was not closed was closed with nothing.
LEMMA UnspentStep ==
  TypeOK /\ Unspent /\ [Next]_vars => Unspent'
<1> SUFFICES ASSUME TypeOK, Unspent, [Next]_vars PROVE Unspent'
  OBVIOUS
<1> USE DEF TypeOK, Unspent
<1>1. ASSUME NEW p \in Procs, NEW r \in Runs, Begin(p, r) PROVE Unspent'
  BY <1>1 DEF Begin
<1>2. ASSUME NEW p \in Procs, NEW ended \in EarlyEnd, FailEarly(p, ended)
       PROVE  Unspent'
  BY <1>2 DEF FailEarly
<1>3. ASSUME NEW p \in Procs, NEW ended \in WorkerEnd, ReadLedger(p, ended)
       PROVE  Unspent'
  BY <1>3 DEF ReadLedger
<1>4. ASSUME NEW p \in Procs, Reserve(p) PROVE Unspent'
  BY <1>4 DEF Reserve, Reservable
<1>5. ASSUME NEW p \in Procs, AlreadyReserved(p) PROVE Unspent'
  BY <1>5 DEF AlreadyReserved
<1>6. ASSUME NEW p \in Procs, Authorize(p) PROVE Unspent'
  BY <1>6 DEF Authorize
<1>7. ASSUME NEW p \in Procs, Confirm(p) PROVE Unspent'
  BY <1>7 DEF Confirm
<1>8. ASSUME NEW p \in Procs, Refuse(p) PROVE Unspent'
  BY <1>8 DEF Refuse
<1>9. ASSUME NEW p \in Procs, Journal(p) PROVE Unspent'
  BY <1>9 DEF Journal
<1>10. ASSUME NEW p \in Procs, StartFails(p) PROVE Unspent'
  BY <1>10 DEF StartFails
<1>11. ASSUME NEW p \in Procs, Launch(p) PROVE Unspent'
  BY <1>11 DEF Launch
<1>12. ASSUME NEW p \in Procs, CleanUp(p) PROVE Unspent'
  BY <1>12 DEF CleanUp
<1>13. ASSUME NEW p \in Procs, Settle(p) PROVE Unspent'
  <2>1. ClosedAs(outcome[p].end, outcome[p].acc) \in {"committed", "failed", "unknown_outcome"}
    BY AccountingType
  <2> QED BY <1>13, <2>1 DEF Settle
<1>14. ASSUME NEW p \in Procs, PersistResult(p) PROVE Unspent'
  BY <1>14 DEF PersistResult
<1>15. ASSUME NEW p \in Procs, Return(p) PROVE Unspent'
  BY <1>15 DEF Return
<1>16. ASSUME NEW p \in Procs, Crash(p) PROVE Unspent'
  BY <1>16 DEF Crash
<1>17. ASSUME NEW r \in Runs, Admit(r) PROVE Unspent'
  BY <1>17 DEF Admit
<1>18. ASSUME NEW r \in Runs, Forward(r) PROVE Unspent'
  BY <1>18 DEF Forward
<1>19. ASSUME NEW r \in Runs, NEW how \in {"responses", "failed"}, Answer(r, how)
       PROVE  Unspent'
  BY <1>19 DEF Answer
<1>20. CASE Revoke
  BY <1>20 DEF Revoke
<1>21. CASE UNCHANGED vars
  BY <1>21 DEF vars, store, proxy
<1> QED
  BY <1>1, <1>2, <1>3, <1>4, <1>5, <1>6, <1>7, <1>8, <1>9, <1>10, <1>11,
     <1>12, <1>13, <1>14, <1>15, <1>16, <1>17, <1>18, <1>19, <1>20, <1>21
     DEF Next, Execute

\* A process that launches was paid for.
LEMMA LaunchCounts ==
  ASSUME TypeOK, TypeOK', Owned, InPlace, Counters, NEW p \in Procs, Launch(p)
  PROVE  Counters'
<1> DEFINE r == job[p]
           u == <<r, 1>>
           H == Cardinality(Holding)
           H2 == Cardinality(Holding')
           P == Cardinality(Paying)
           P2 == Cardinality(Paying')
           B == Cardinality(BookedUnits)
           B2 == Cardinality(BookedUnits')
           L == Cardinality(Units(launches))
           L2 == Cardinality(Units(launches'))
<1>1. /\ r \in Runs /\ pc[p] = "starting" /\ todo[p] = <<>> /\ launches[r] = 0
      /\ pc' = [pc EXCEPT ![p] = "running"] /\ todo' = [todo EXCEPT ![p] = <<>>]
      /\ launches' = [launches EXCEPT ![r] = 1] /\ UNCHANGED <<job, count, consumed>>
      /\ \A q \in Procs : Past(q) /\ q # p => job[q] # r
  <2>1. /\ r \in Runs /\ pc[p] = "starting" /\ todo[p] = <<>>
        /\ pc' = [pc EXCEPT ![p] = "running"] /\ todo' = [todo EXCEPT ![p] = <<>>]
        /\ UNCHANGED <<job, count, consumed>>
    BY DEF Launch, TypeOK
  <2>2. launches[r] = 0
    BY <2>1 DEF Owned, Prepares
  <2>3. launches' = [launches EXCEPT ![r] = 1]
    BY <2>1, <2>2 DEF Launch, TypeOK
  <2>4. \A q \in Procs : Past(q) /\ q # p => job[q] # r
    BY <2>1 DEF Owned, Past
  <2> QED BY <2>1, <2>2, <2>3, <2>4
<1>2. IsFiniteSet(Holding) /\ IsFiniteSet(Paying) /\ IsFiniteSet(BookedUnits)
      /\ IsFiniteSet(Units(launches)) /\ IsFiniteSet(BookedUnits')
      /\ count["permits_issued"] \in Nat /\ count["permits_consumed"] \in Nat
      /\ count["requests_forwarded"] \in Nat
  BY CountedFinite, CountedStaysFinite DEF Watched
<1>3. H2 <= H /\ H \in Nat /\ H2 \in Nat
  <2>1. Holding' \subseteq Holding
    BY <1>1 DEF Holding, Holds, TypeOK
  <2> QED BY <1>2, <2>1, FS_Subset, FS_CardinalityType
<1>4. P2 <= P - 1 /\ P \in Nat /\ P2 \in Nat
  <2>1. Paid(p)
    BY <1>1, CallsCount DEF Paid
  <2>2. r \in Paying
    BY <1>1, <2>1 DEF Paying
  <2>3. Paying' \subseteq Paying \ {r}
    <3>1. \A q \in Procs : Paid(q)' => Paid(q) /\ job'[q] = job[q] /\ job[q] # r
      BY <1>1 DEF Paid, TypeOK, Past
    <3> QED BY <3>1 DEF Paying
  <2>4. Cardinality(Paying \ {r}) = P - 1 /\ IsFiniteSet(Paying \ {r})
    BY <1>2, <2>2, FS_RemoveElement
  <2> QED BY <1>2, <2>3, <2>4, FS_Subset, FS_CardinalityType
<1>5. B <= B2 /\ B \in Nat /\ B2 \in Nat
  <2>2. \A q \in Procs : Uncounted(q)' => Uncounted(q) /\ job'[q] = job[q]
    BY <1>1 DEF Uncounted, TypeOK
  <2>3. BookedUnits \subseteq BookedUnits'
    BY <1>1, <2>2 DEF BookedUnits, Booked
  <2> QED BY <1>2, <2>3, FS_Subset, FS_CardinalityType
<1>6. L2 = L + 1 /\ L \in Nat
  <2>1. u \notin Units(launches) /\ Units(launches') = Units(launches) \cup {u}
    <3>1. u \notin Units(launches)
      <4>1. u[1] = r /\ u[2] = 1 /\ ~ (1 \in 1..launches[r])
        BY <1>1
      <4> QED BY <4>1, UnitsFinite DEF TypeOK
    <3>2. ASSUME NEW v PROVE v \in Units(launches') <=> v \in Units(launches) \/ v = u
      <4>1. v \in Units(launches) <=> /\ v[1] \in Runs /\ v[2] \in 1..launches[v[1]]
                                      /\ v = <<v[1], v[2]>>
        BY UnitsFinite DEF TypeOK
      <4>2. v \in Units(launches') <=> /\ v[1] \in Runs /\ v[2] \in 1..launches'[v[1]]
                                       /\ v = <<v[1], v[2]>>
        BY UnitsFinite DEF TypeOK
      <4>3. \A i : i \in 1..1 <=> i = 1
        OBVIOUS
      <4>4. CASE v[1] = r
        <5>1. launches'[v[1]] = 1 /\ launches[v[1]] = 0
          BY <1>1, <4>4 DEF TypeOK
        <5> QED BY <1>1, <4>1, <4>2, <4>3, <4>4, <5>1
      <4>5. CASE v[1] # r
        <5>1. v[1] \in Runs => launches'[v[1]] = launches[v[1]]
          BY <1>1, <4>5 DEF TypeOK
        <5>2. v # u
          BY <4>5
        <5> QED BY <4>1, <4>2, <5>1, <5>2
      <4> QED BY <4>4, <4>5
    <3> QED BY <3>1, <3>2
  <2> QED BY <1>2, <2>1, FS_AddElement, FS_CardinalityType
<1>7. /\ count["permits_consumed"] + H <= count["permits_issued"]
      /\ L + P <= count["permits_consumed"]
      /\ count["requests_forwarded"] <= B
  BY DEF Counters
<1>8. Counters' <=> /\ count["permits_consumed"] + H2 <= count["permits_issued"]
                    /\ L2 + P2 <= count["permits_consumed"]
                    /\ count["requests_forwarded"] <= B2
  BY <1>1 DEF Counters, Units
<1> HIDE DEF H, H2, P, P2, B, B2, L, L2
<1> QED BY <1>2, <1>3, <1>4, <1>5, <1>6, <1>7, <1>8

\* The journal counts what it is told to.
LEMMA JournalCounts ==
  ASSUME TypeOK, TypeOK', Owned, InPlace, Counters, NEW p \in Procs, Journal(p)
  PROVE  Counters'
<1> DEFINE r == job[p]
           op == Head(todo[p])
           H == Cardinality(Holding)
           H2 == Cardinality(Holding')
           P == Cardinality(Paying)
           P2 == Cardinality(Paying')
           B == Cardinality(BookedUnits)
           B2 == Cardinality(BookedUnits')
           L == Cardinality(Units(launches))
<1>1. /\ r \in Runs /\ todo[p] # <<>> /\ todo' = [todo EXCEPT ![p] = Tail(todo[p])]
      /\ UNCHANGED <<pc, job, outcome, consumed, launches>>
  BY DEF Journal, TypeOK
<1>2. /\ \A any : Has(todo'[p], any) <=> Has(todo[p], any) /\ any # op
      /\ Has(todo[p], op)
  <2>1. todo[p] \in Seq(Op) /\ Once(todo[p]) /\ todo'[p] = Tail(todo[p])
    BY <1>1 DEF TypeOK, InPlace
  <2> QED BY <1>1, <2>1, RestOfCall
<1>3. \A q \in Procs \ {p} : pc'[q] = pc[q] /\ todo'[q] = todo[q] /\ job'[q] = job[q]
  BY <1>1 DEF TypeOK
<1>4. \A q \in Procs : Past(q) /\ q # p /\ Past(p) => job[q] # r
  BY DEF Owned, Past
<1>5. IsFiniteSet(Holding) /\ IsFiniteSet(Paying) /\ IsFiniteSet(BookedUnits)
      /\ IsFiniteSet(Units(launches)) /\ IsFiniteSet(Holding') /\ IsFiniteSet(Paying')
      /\ IsFiniteSet(BookedUnits')
      /\ count["permits_issued"] \in Nat /\ count["permits_consumed"] \in Nat
      /\ count["requests_forwarded"] \in Nat
  BY CountedFinite, CountedStaysFinite DEF Watched
<1>6. H \in Nat /\ H2 \in Nat /\ P \in Nat /\ P2 \in Nat /\ B \in Nat /\ B2 \in Nat
      /\ L \in Nat
  BY <1>5, FS_CardinalityType
<1>7. /\ count["permits_consumed"] + H <= count["permits_issued"]
      /\ L + P <= count["permits_consumed"]
      /\ count["requests_forwarded"] <= B
  BY DEF Counters
<1>8. Counters' <=> /\ count'["permits_consumed"] + H2 <= count'["permits_issued"]
                    /\ L + P2 <= count'["permits_consumed"]
                    /\ count'["requests_forwarded"] <= B2
  BY <1>1 DEF Counters, Units
<1>9. /\ Transitions[action[r]] \subseteq ActionState
       /\ (Watched \cup {"reconcile"}) \cap ActionState = {}
  BY <1>1, TransitionsType DEF TypeOK, Watched, ActionState, Transitions
<1>10. CASE op \notin Watched \cup {"reconcile"}
  <2>1. \A c \in Watched : count'[c] = count[c]
    BY <1>10 DEF Journal, TypeOK, Watched, Counter
  <2>2. /\ \A any \in Watched \cup {"reconcile"} : Has(todo'[p], any) <=> Has(todo[p], any)
    BY <1>2, <1>10
  <2>3. Moves(p)
    BY <1>1, <1>3, <2>1, <2>2 DEF Moves, Holds, Paid, Uncounted, Watched
  <2> QED BY <2>3, MovesCountNothing, NothingCounted
<1>11. CASE op = "permits_issued"
  <2>1. /\ count'["permits_issued"] = count["permits_issued"] + 1
        /\ count'["permits_consumed"] = count["permits_consumed"]
        /\ count'["requests_forwarded"] = count["requests_forwarded"]
    <3>1. op \notin Transitions[action[r]] /\ op # "reconcile"
      BY <1>1, <1>9, <1>11 DEF Watched
    <3>2. count' = [count EXCEPT ![op] = @ + 1]
      BY <3>1 DEF Journal
    <3> QED BY <1>11, <3>2 DEF TypeOK, Counter
  <2>2. H2 <= H + 1
    <3>1. Holding' \subseteq Holding \cup {r}
      <4>1. \A q \in Procs : Holds(q)' => job'[q] = job[q] /\ (Holds(q) \/ q = p)
        BY <1>1, <1>3 DEF Holds
      <4> QED BY <4>1 DEF Holding
    <3>2. IsFiniteSet(Holding \cup {r}) /\ Cardinality(Holding \cup {r}) <= H + 1
      <4>1. /\ IsFiniteSet(Holding \cup {r})
            /\ Cardinality(Holding \cup {r}) = IF r \in Holding THEN H ELSE H + 1
        BY <1>5, FS_AddElement
      <4> HIDE DEF H
      <4> QED BY <1>6, <4>1
    <3> QED BY <1>6, <3>1, <3>2, FS_Subset, FS_CardinalityType
  <2>3. P2 <= P
    <3>1. Paying' \subseteq Paying
      BY <1>1, <1>2, <1>3, <1>11 DEF Paying, Paid
    <3> QED BY <1>5, <3>1, FS_Subset
  <2>4. B <= B2
    <3>1. BookedUnits \subseteq BookedUnits'
      BY <1>1, <1>2, <1>3 DEF BookedUnits, Booked, Uncounted
    <3> QED BY <1>5, <3>1, FS_Subset
  <2> HIDE DEF H, H2, P, P2, B, B2, L
  <2> QED BY <1>5, <1>6, <1>7, <1>8, <2>1, <2>2, <2>3, <2>4
<1>12. CASE op = "permits_consumed"
  <2>1. /\ count'["permits_issued"] = count["permits_issued"]
        /\ count'["permits_consumed"] = count["permits_consumed"] + 1
        /\ count'["requests_forwarded"] = count["requests_forwarded"]
    <3>1. op \notin Transitions[action[r]] /\ op # "reconcile"
      BY <1>1, <1>9, <1>12 DEF Watched
    <3>2. count' = [count EXCEPT ![op] = @ + 1]
      BY <3>1 DEF Journal
    <3> QED BY <1>12, <3>2 DEF TypeOK, Counter
  <2>2. Holds(p) /\ pc[p] = "starting" /\ Past(p) /\ ~ Holds(p)'
    BY <1>1, <1>2, <1>12 DEF InPlace, Holds, Past
  <2>3. H2 <= H - 1
    <3>1. r \in Holding
      BY <1>1, <2>2 DEF Holding
    <3>2. \A q \in Procs : Holds(q)' => Holds(q) /\ job'[q] = job[q] /\ job[q] # r
      BY <1>1, <1>3, <1>4, <2>2 DEF Holds, Past
    <3>3. Holding' \subseteq Holding \ {r}
      BY <3>2 DEF Holding
    <3>4. IsFiniteSet(Holding \ {r}) /\ Cardinality(Holding \ {r}) = H - 1
      BY <1>5, <3>1, FS_RemoveElement
    <3> QED BY <3>3, <3>4, FS_Subset
  <2>4. P2 <= P + 1
    <3>1. Paying' \subseteq Paying \cup {r}
      <4>1. \A q \in Procs : Paid(q)' => job'[q] = job[q] /\ (Paid(q) \/ q = p)
        BY <1>1, <1>3 DEF Paid
      <4> QED BY <4>1 DEF Paying
    <3>2. IsFiniteSet(Paying \cup {r}) /\ Cardinality(Paying \cup {r}) <= P + 1
      <4>1. /\ IsFiniteSet(Paying \cup {r})
            /\ Cardinality(Paying \cup {r}) = IF r \in Paying THEN P ELSE P + 1
        BY <1>5, FS_AddElement
      <4> HIDE DEF P
      <4> QED BY <1>6, <4>1
    <3> QED BY <1>6, <3>1, <3>2, FS_Subset, FS_CardinalityType
  <2>5. B <= B2
    <3>1. BookedUnits \subseteq BookedUnits'
      BY <1>1, <1>2, <1>3 DEF BookedUnits, Booked, Uncounted
    <3> QED BY <1>5, <3>1, FS_Subset
  <2> HIDE DEF H, H2, P, P2, B, B2, L
  <2> QED BY <1>5, <1>6, <1>7, <1>8, <2>1, <2>3, <2>4, <2>5
<1>13. CASE op = "reconcile"
  <2> DEFINE spent == consumed[r]
             units == {r} \X (1..spent)
  <2>1. Uncounted(p) /\ pc[p] = "journal" /\ Past(p) /\ ~ Uncounted(p)'
        /\ spent = ClosedWith(outcome[p].end, outcome[p].acc)
    BY <1>1, <1>2, <1>13 DEF InPlace, Uncounted, Past
  <2>2. /\ count'["permits_issued"] = count["permits_issued"]
        /\ count'["permits_consumed"] = count["permits_consumed"]
        /\ count'["requests_forwarded"] = count["requests_forwarded"] + spent
    <3>1. op \notin Transitions[action[r]] /\ op \notin Counter
      BY <1>1, <1>9, <1>13 DEF Counter
    <3>2. count' = [count EXCEPT !["detector_runs_completed"] = @ + 1,
                                 !["requests_forwarded"] = @ + spent]
      BY <2>1, <3>1 DEF Journal
    <3> HIDE DEF spent
    <3> QED BY <3>2 DEF TypeOK, Counter
  <2>3. H2 <= H
    <3>1. Holding' \subseteq Holding
      BY <1>1, <1>2, <1>3, <1>13 DEF Holding, Holds
    <3> QED BY <1>5, <3>1, FS_Subset
  <2>4. P2 <= P
    <3>1. Paying' \subseteq Paying
      BY <1>1, <1>2, <1>3, <1>13 DEF Paying, Paid
    <3> QED BY <1>5, <3>1, FS_Subset
  <2>5. spent \in Nat
    BY <1>1 DEF TypeOK
  <2>6. IsFiniteSet(units) /\ Cardinality(units) = spent
    <3>1. IsFiniteSet({r}) /\ Cardinality({r}) = 1
      BY FS_Singleton
    <3>2. IsFiniteSet(1..spent) /\ Cardinality(1..spent) = spent
      <4>1. 1 \in Int /\ spent \in Int
        BY <2>5
      <4>2. IsFiniteSet(1..spent) /\ Cardinality(1..spent) = IF 1 > spent THEN 0 ELSE spent - 1 + 1
        BY <4>1, FS_Interval
      <4> HIDE DEF spent
      <4> QED BY <2>5, <4>2
    <3> HIDE DEF spent
    <3>3. Cardinality(units) = 1 * spent /\ IsFiniteSet(units)
      <4>1. ASSUME NEW R, NEW T, IsFiniteSet(R), IsFiniteSet(T)
            PROVE  Cardinality(R \X T) = Cardinality(R) * Cardinality(T) /\ IsFiniteSet(R \X T)
        BY <4>1, FS_Product
      <4>2. /\ Cardinality({r} \X (1..spent)) = Cardinality({r}) * Cardinality(1..spent)
            /\ IsFiniteSet({r} \X (1..spent))
        <5>1. IsFiniteSet({r}) /\ IsFiniteSet(1..spent)
          BY <3>1, <3>2
        <5> QED BY <4>1, <5>1, Zenon
      <4>3. units = {r} \X (1..spent)
        OBVIOUS
      <4> HIDE DEF units
      <4> QED BY <3>1, <3>2, <4>2, <4>3
    <3> HIDE DEF units
    <3> QED BY <2>5, <3>3
  <2>7. units \cap BookedUnits = {}
    <3>1. r \notin Booked
      BY <1>1, <2>1 DEF Booked
    <3> QED BY <3>1 DEF BookedUnits
  <2>8. (BookedUnits \cup units) \subseteq BookedUnits'
    <3>1. \A q \in Procs : Uncounted(q)' => Uncounted(q) /\ job'[q] = job[q] /\ job[q] # r
      BY <1>1, <1>3, <1>4, <2>1 DEF Uncounted, Past
    <3>2. r \in Booked' /\ Booked \subseteq Booked'
      BY <1>1, <3>1 DEF Booked
    <3>3. units \subseteq Units(consumed)
      BY <1>1 DEF Units, TypeOK
    <3> QED BY <1>1, <3>2, <3>3 DEF BookedUnits
  <2>9. Cardinality(BookedUnits \cup units) = B + spent
    <3>1. Cardinality(BookedUnits \cap units) = 0
      BY <2>7, FS_EmptySet
    <3>2. Cardinality(BookedUnits \cup units)
            = B + Cardinality(units) - Cardinality(BookedUnits \cap units)
      BY <1>5, <2>6, FS_Union
    <3> HIDE DEF B, units, spent
    <3> QED BY <1>6, <2>5, <2>6, <3>1, <3>2
  <2>10. B + spent <= B2
    BY <1>5, <2>8, <2>9, FS_Subset
  <2> HIDE DEF H, H2, P, P2, B, B2, L, spent
  <2> QED BY <1>5, <1>6, <1>7, <1>8, <2>2, <2>3, <2>4, <2>5, <2>10
<1>14. op # "requests_forwarded"
  BY <1>2 DEF InPlace
<1> QED BY <1>10, <1>11, <1>12, <1>13, <1>14 DEF Watched

\* What the counters speak of stays.
LEMMA StillCounted ==
  ASSUME TypeOK, UNCHANGED <<pc, todo, job, count, launches, consumed>>
  PROVE  CountsNothing
  BY DEF CountsNothing, Holding, Paying, BookedUnits, Booked, Holds, Paid, Uncounted, Units

\* Every step counts before it acts, or acts before it counts, as the counter demands.
LEMMA CountersStep ==
  TypeOK /\ TypeOK' /\ Owned /\ InPlace /\ Unspent /\ Counters /\ [Next]_vars => Counters'
<1> SUFFICES ASSUME TypeOK, TypeOK', Owned, InPlace, Unspent, Counters, [Next]_vars
             PROVE  Counters'
  OBVIOUS
<1> USE MovesCountNothing, NothingCounted
<1>1. ASSUME NEW p \in Procs, NEW r \in Runs, Begin(p, r) PROVE Counters'
  <2>1. Moves(p)
    BY <1>1, CallsCount DEF Begin, TypeOK, Moves, Holds, Paid, Uncounted, Watched
  <2> QED BY <2>1
<1>2. ASSUME NEW p \in Procs, NEW ended \in EarlyEnd, FailEarly(p, ended)
       PROVE  Counters'
  <2>1. Moves(p)
    BY <1>2, CallsCount DEF FailEarly, TypeOK, Moves, Holds, Paid, Uncounted, Watched
  <2> QED BY <2>1
<1>3. ASSUME NEW p \in Procs, NEW ended \in WorkerEnd, ReadLedger(p, ended)
       PROVE  Counters'
  <2>1. Moves(p)
    BY <1>3, CallsCount DEF ReadLedger, TypeOK, Moves, Holds, Paid, Uncounted, Watched
  <2> QED BY <2>1
<1>4. ASSUME NEW p \in Procs, Reserve(p) PROVE Counters'
  <2>1. Moves(p)
    BY <1>4, CallsCount DEF Reserve, Reservable, Unspent, TypeOK, Moves, Holds, Paid,
                          Uncounted, Watched
  <2> QED BY <2>1
<1>5. ASSUME NEW p \in Procs, AlreadyReserved(p) PROVE Counters'
  <2>1. Moves(p)
    BY <1>5, CallsCount DEF AlreadyReserved, TypeOK, Moves, Holds, Paid, Uncounted, Watched
  <2> QED BY <2>1
<1>6. ASSUME NEW p \in Procs, Authorize(p) PROVE Counters'
  <2>1. Moves(p)
    BY <1>6, CallsCount DEF Authorize, TypeOK, Moves, Holds, Paid, Uncounted, Watched
  <2> QED BY <2>1
<1>7. ASSUME NEW p \in Procs, Confirm(p) PROVE Counters'
  <2>1. Moves(p)
    BY <1>7, CallsCount DEF Confirm, TypeOK, Moves, Holds, Paid, Uncounted, Watched
  <2> QED BY <2>1
<1>8. ASSUME NEW p \in Procs, Refuse(p) PROVE Counters'
  <2>1. Moves(p)
    BY <1>8, CallsCount DEF Refuse, TypeOK, Moves, Holds, Paid, Uncounted, Watched
  <2> QED BY <2>1
<1>9. ASSUME NEW p \in Procs, Journal(p) PROVE Counters'
  BY <1>9, JournalCounts
<1>10. ASSUME NEW p \in Procs, StartFails(p) PROVE Counters'
  <2>1. Moves(p)
    BY <1>10, CallsCount DEF StartFails, TypeOK, Moves, Holds, Paid, Uncounted, Watched
  <2> QED BY <2>1
<1>11. ASSUME NEW p \in Procs, Launch(p) PROVE Counters'
  BY <1>11, LaunchCounts
<1>12. ASSUME NEW p \in Procs, CleanUp(p) PROVE Counters'
  <2>1. Moves(p)
    BY <1>12, CallsCount DEF CleanUp, TypeOK, Moves, Holds, Paid, Uncounted, Watched
  <2> QED BY <2>1
<1>13. ASSUME NEW p \in Procs, Settle(p) PROVE Counters'
  <2>1. Moves(p)
    BY <1>13, CallsCount DEF Settle, Owned, Unspent, TypeOK, Moves, Holds, Paid, Uncounted, Watched
  <2> QED BY <2>1
<1>14. ASSUME NEW p \in Procs, PersistResult(p) PROVE Counters'
  <2>1. Moves(p)
    BY <1>14, CallsCount DEF PersistResult, TypeOK, Moves, Holds, Paid, Uncounted, Watched
  <2> QED BY <2>1
<1>15. ASSUME NEW p \in Procs, Return(p) PROVE Counters'
  <2>1. Moves(p)
    BY <1>15, CallsCount DEF Return, TypeOK, Moves, Holds, Paid, Uncounted, Watched
  <2> QED BY <2>1
<1>16. ASSUME NEW p \in Procs, Crash(p) PROVE Counters'
  <2>1. Moves(p)
    BY <1>16, CallsCount DEF Crash, TypeOK, Moves, Holds, Paid, Uncounted, Watched
  <2> QED BY <2>1
<1>17. ASSUME NEW r \in Runs, Admit(r) PROVE Counters'
  BY <1>17, StillCounted DEF Admit
<1>18. ASSUME NEW r \in Runs, Forward(r) PROVE Counters'
  BY <1>18, StillCounted DEF Forward
<1>19. ASSUME NEW r \in Runs, NEW how \in {"responses", "failed"}, Answer(r, how)
       PROVE  Counters'
  BY <1>19, StillCounted DEF Answer
<1>20. CASE Revoke
  BY <1>20, StillCounted DEF Revoke
<1>21. CASE UNCHANGED vars
  BY <1>21, StillCounted DEF vars, store, proxy
<1> QED
  BY <1>1, <1>2, <1>3, <1>4, <1>5, <1>6, <1>7, <1>8, <1>9, <1>10, <1>11,
     <1>12, <1>13, <1>14, <1>15, <1>16, <1>17, <1>18, <1>19, <1>20, <1>21
     DEF Next, Execute

\* The counters cover what happened: each launch was counted before as a consumed permit, each
\* permit as issued before it was consumed, and no request is counted twice.
THEOREM CountersCover == Spec => []CampaignCovered
<1>1. Init => Covered
  BY CoveredInit
<1>2. TypeOK /\ TypeOK' /\ Owned /\ Covered /\ [Next]_vars => Covered'
  BY InPlaceStep, UnspentStep, CountersStep DEF Covered
<1>3. TypeOK /\ Covered => CampaignCovered
  <2> SUFFICES ASSUME TypeOK, Covered PROVE CampaignCovered
    OBVIOUS
  <2> DEFINE H == Cardinality(Holding)
             P == Cardinality(Paying)
             B == Cardinality(BookedUnits)
             L == Cardinality(Units(launches))
             C == Cardinality(Units(consumed))
  <2>1. /\ H \in Nat /\ P \in Nat /\ B \in Nat /\ L \in Nat
        /\ count["permits_issued"] \in Nat /\ count["permits_consumed"] \in Nat
        /\ count["requests_forwarded"] \in Nat
    BY CountedFinite, FS_CardinalityType DEF Watched
  <2>2. B <= C /\ C \in Nat
    <3>1. BookedUnits \subseteq Units(consumed) /\ IsFiniteSet(Units(consumed))
      BY UnitsFinite DEF BookedUnits, TypeOK
    <3> QED BY <3>1, FS_Subset, FS_CardinalityType
  <2>3. /\ count["permits_consumed"] + H <= count["permits_issued"]
        /\ L + P <= count["permits_consumed"]
        /\ count["requests_forwarded"] <= B
    BY DEF Covered, Counters
  <2>4. CampaignCovered <=> /\ L <= count["permits_consumed"]
                            /\ count["permits_consumed"] <= count["permits_issued"]
                            /\ count["requests_forwarded"] <= C
    BY DEF CampaignCovered
  <2> HIDE DEF H, P, B, L, C
  <2> QED BY <2>1, <2>2, <2>3, <2>4
<1> QED BY <1>1, <1>2, <1>3, TypeCorrect, OwnedAlways, PTL DEF Spec

\* What is left can be relied on up to that window: a run offered for a retry was answered
\* in all the adapter saw of it, and the campaign's counters hide no launch and no permit.
THEOREM AftermathsAreSafe == Spec => []AftermathSafe
<1>1. RetrySafe /\ CampaignCovered => AftermathSafe
  BY DEF AftermathSafe
<1> QED BY <1>1, RetriesAreSafe, CountersCover, PTL

-----------------------------------------------------------------------------
(***************************************************************************)
(* The chaos matrix.  A point's ledger is written only while the proxy is  *)
(* there, which it is only inside the run of that point: before it is      *)
(* recovered, or in a second run that has a ledger of its own.             *)
(***************************************************************************)
Ledger == [forwarding : Int, responses : Int, failed : Int, blocked : Int]
Life == {"none", "launching", "exited", "killed"}
File == {"intermediate", "evidence", "event", "proof", "finding", "detector-complete",
         "report.tmp", "report"}
Status == {"none", "unknown_outcome", "completed", "blocked_before_io", "failed"}
Class == {"FAILED_BEFORE_IO", "UNKNOWN_OUTCOME", "RECOVERABLE", "COMPLETED"}
Recovery == [class : Class, before : Int, after : Int, unknown : Int,
             retry : BOOLEAN, fresh : BOOLEAN, passed : BOOLEAN]
Directory == [life : Life, proxyRows : [1..2 -> Ledger], files : SUBSET File,
              status : [1..2 -> Status], recovery : {NoRecovery} \cup Recovery]
Box == [worker : {"none", "running"}, proxy : {"none", "running", "dead"},
        flight : BOOLEAN, sent : Int]

ChaosTypes ==
  /\ queue \in Seq(Point) /\ IsInjective(queue)
  /\ disk \in [Point -> Directory]
  /\ box \in Box
  /\ attempt \in 1..2

\* The run of a point, up to where its result is on disk.
Running == {"identity", "create", "launch", "wait", "poll", "kill", "giveup", "clean", "close"}
Up == {"create", "launch", "wait", "poll", "kill", "giveup", "clean"}

\* Nothing was recovered of the point, and it was not tried again.
Untried(p) ==
  /\ disk[p].recovery = NoRecovery
  /\ disk[p].proxyRows[2] = NoRows /\ disk[p].status[2] = "none"

\* The proxy is there only while the adapter is at work.
ProxyGone == chaosAt \notin Up => box.proxy # "running"

\* Points not taken yet have nothing to recover, nor has the one in its first run.
FirstRun ==
  \A i \in 1..Len(queue) :
    (i > 1 \/ chaosAt = "idle" \/ (attempt = 1 /\ chaosAt \in Running \cup {"recover"}))
      => Untried(queue[i])

\* A point is tried again after its recovery found nothing forwarded.
SecondRun ==
  (chaosAt \in {"retry", "retried"} \/ (attempt = 2 /\ chaosAt \in Running))
    => /\ point \in Physical
       /\ disk[point].recovery \in Recovery
       /\ ForwardedOf(disk[point].proxyRows[1]) = 0

Stages ==
  /\ chaosAt # "idle" => queue # <<>>
  /\ chaosAt \in {"inject", "resume"} => point \in Injected
  /\ chaosAt = "recover" => attempt = 1 /\ point \in Physical
  /\ chaosAt \in Running => point \notin Injected

ChaosInv ==
  /\ ChaosTypes /\ ProxyGone /\ FirstRun /\ SecondRun /\ Stages
  /\ RecoveryTruthful /\ NoBlindReplay
-----------------------------------------------------------------------------
USE DEF Injected, Physical

LEMMA PointAtWork ==
  ASSUME ChaosTypes, queue # <<>>
  PROVE  /\ point \in Point /\ point = queue[1] /\ 1 \in 1..Len(queue)
         /\ disk[point] \in Directory
         /\ Tail(queue) \in Seq(Point) /\ Len(Tail(queue)) = Len(queue) - 1
         /\ \A i \in 1..Len(Tail(queue)) :
              i + 1 \in 1..Len(queue) /\ Tail(queue)[i] = queue[i + 1]
BY DEF ChaosTypes, point

LEMMA OtherPoints ==
  ASSUME ChaosTypes, NEW i \in 1..Len(queue), i > 1
  PROVE  queue[i] \in Point /\ queue[i] # point
<1>1. queue # <<>>
  BY DEF ChaosTypes
<1>2. DOMAIN queue = 1..Len(queue) /\ 1 \in 1..Len(queue)
  BY DEF ChaosTypes
<1> QED BY <1>1, <1>2, PointAtWork DEF ChaosTypes, IsInjective

LEMMA DirectoryFields ==
  ASSUME NEW d \in Directory
  PROVE  /\ d.proxyRows \in [1..2 -> Ledger] /\ d.status \in [1..2 -> Status]
         /\ d.proxyRows[1] \in Ledger /\ d.proxyRows[2] \in Ledger
         /\ d.recovery \in {NoRecovery} \cup Recovery
         /\ \A s \in Life : [d EXCEPT !.life = s] \in Directory
         /\ \A f \in SUBSET File : [d EXCEPT !.files = f] \in Directory
         /\ \A r \in Recovery : [d EXCEPT !.recovery = r] \in Directory
         /\ \A n \in 1..2, rows \in Ledger : [d EXCEPT !.proxyRows[n] = rows] \in Directory
         /\ \A n \in 1..2, s \in Status : [d EXCEPT !.status[n] = s] \in Directory
BY DEF Directory

LEMMA ChaosBegins == ChaosInit => ChaosInv
<1> SUFFICES ASSUME ChaosInit PROVE ChaosInv
  OBVIOUS
<1>1. NoRows \in Ledger
  BY DEF NoRows, Ledger
<1>2. EmptyDir \in Directory
  <2> DEFINE none == [n \in 1..2 |-> NoRows]  blank == [n \in 1..2 |-> "none"]
  <2>1. none \in [1..2 -> Ledger] /\ blank \in [1..2 -> Status]
    BY <1>1 DEF Status
  <2> HIDE DEF none, blank
  <2>2. [life |-> "none", proxyRows |-> none, files |-> {}, status |-> blank,
         recovery |-> NoRecovery] \in Directory
    BY <2>1 DEF Directory, Life
  <2> QED BY <2>2 DEF EmptyDir, none, blank
<1>3. \A p \in Point : disk[p] = EmptyDir
  BY DEF ChaosInit
<1>4. ChaosTypes
  <2>1. queue \in Seq(Point) /\ IsInjective(queue)
    BY PlansAssumption DEF ChaosInit
  <2>2. disk \in [Point -> Directory]
    BY <1>2 DEF ChaosInit
  <2>3. box \in Box
    BY DEF ChaosInit, NoBox, Box
  <2> QED BY <2>1, <2>2, <2>3 DEF ChaosInit, ChaosTypes
<1>5. ForwardedOf(NoRows) = 0
  BY DEF ForwardedOf, NoRows
<1>6. \A p \in Point : Untried(p)
  BY <1>3 DEF Untried, EmptyDir
<1>7. ProxyGone /\ SecondRun /\ Stages
  BY DEF ChaosInit, ProxyGone, SecondRun, Stages, NoBox, Running
<1>8. FirstRun
  BY <1>4, <1>6 DEF FirstRun, ChaosTypes
<1>9. RecoveryTruthful /\ NoBlindReplay
  BY <1>3, <1>6 DEF RecoveryTruthful, NoBlindReplay, Untried, Point
<1> QED BY <1>4, <1>7, <1>8, <1>9 DEF ChaosInv

\* A step that leaves what recovery reads as it was.
Reads(p) == <<disk[p].recovery, disk[p].proxyRows, disk[p].status>>

LEMMA SoundStays ==
  ASSUME ChaosInv, \A p \in Physical : Reads(p)' = Reads(p)
  PROVE  RecoveryTruthful' /\ NoBlindReplay'
<1>1. \A p \in Physical : /\ disk'[p].recovery = disk[p].recovery
                          /\ disk'[p].proxyRows = disk[p].proxyRows
                          /\ disk'[p].status = disk[p].status
  BY DEF Reads
<1>2. RecoveryTruthful /\ NoBlindReplay
  BY DEF ChaosInv
<1> DEFINE Sound(r, rows) ==
             r # NoRecovery =>
               /\ r.before = ForwardedOf(rows) /\ r.unknown = rows.forwarding
               /\ r.passed /\ r.class = "FAILED_BEFORE_IO" => ForwardedOf(rows) = 0
               /\ r.passed /\ r.class = "UNKNOWN_OUTCOME" => rows.forwarding = 1
<1>3. RecoveryTruthful'
  <2>1. \A p \in Physical : Sound(disk[p].recovery, disk[p].proxyRows[1])
    BY <1>2 DEF RecoveryTruthful
  <2> HIDE DEF Sound
  <2>2. \A p \in Physical : Sound(disk'[p].recovery, disk'[p].proxyRows[1])
    BY <1>1, <2>1
  <2> QED BY <2>2 DEF RecoveryTruthful, Sound
<1>4. NoBlindReplay'
  BY <1>1, <1>2 DEF NoBlindReplay
<1> QED BY <1>3, <1>4

LEMMA StepsInPlace ==
  ASSUME ChaosInv, queue' = queue, attempt' = attempt,
         \A p \in Point : Reads(p)' = Reads(p),
         \/ chaosAt' = chaosAt
         \/ chaosAt \in Running /\ chaosAt' \in Running
  PROVE  FirstRun' /\ SecondRun' /\ Stages'
<1>1. \A p \in Point : Untried(p) => Untried(p)'
  BY DEF Untried, Reads
<1>2. FirstRun'
  BY <1>1 DEF FirstRun, Running, ChaosInv, ChaosTypes
<1>3. SecondRun' /\ Stages'
  BY DEF SecondRun, Stages, Running, ChaosInv, ChaosTypes, Reads, point, Point
<1> QED BY <1>2, <1>3
-----------------------------------------------------------------------------
\* Steps of the adapter and of the containers that write nothing down.
LEMMA ContainersStep ==
  ASSUME ChaosInv,
         Create \/ TimedOut \/ PollWorker \/ GiveUp \/ RemoveContainers \/ Identity
  PROVE  ChaosInv'
<1>1. UNCHANGED <<queue, disk, attempt>>
  BY DEF Create, TimedOut, PollWorker, GiveUp, RemoveContainers, Identity
<1>2. chaosAt \in Running /\ chaosAt' \in Running
  BY DEF Create, TimedOut, PollWorker, GiveUp, RemoveContainers, Identity, Running
<1>3. box' \in Box /\ ProxyGone'
  <2>1. box \in Box
    BY DEF ChaosInv, ChaosTypes
  <2>2. CASE Identity
    BY <2>2 DEF Identity, ProxyGone, Box, NoBox
  <2>3. CASE Create
    <3>1. [box EXCEPT !.proxy = "running"] \in Box
      BY <2>1 DEF Box
    <3> QED BY <2>1, <2>3, <3>1 DEF Create, ProxyGone, Up
  <2>4. CASE TimedOut \/ PollWorker \/ GiveUp
    BY <2>1, <2>4 DEF TimedOut, PollWorker, GiveUp, ProxyGone, Up
  <2>5. CASE RemoveContainers
    BY <2>1, <2>5 DEF RemoveContainers, ProxyGone, Box
  <2> QED BY <2>2, <2>3, <2>4, <2>5
<1>5. \A p \in Point : Reads(p)' = Reads(p)
  BY <1>1 DEF Reads
<1>6. FirstRun' /\ SecondRun' /\ Stages'
  BY <1>1, <1>2, <1>5, StepsInPlace
<1>7. RecoveryTruthful' /\ NoBlindReplay'
  BY <1>5, SoundStays DEF Point
<1>8. ChaosTypes'
  BY <1>1, <1>3 DEF ChaosInv, ChaosTypes
<1> QED BY <1>3, <1>6, <1>7, <1>8 DEF ChaosInv

\* A write to the directory of the point at work.
LEMMA Writing ==
  ASSUME ChaosTypes, queue # <<>>, NEW d \in Directory, disk' = [disk EXCEPT ![point] = d]
  PROVE  /\ disk' \in [Point -> Directory]
         /\ disk'[point] = d
         /\ \A p \in Point : p # point => disk'[p] = disk[p] /\ Reads(p)' = Reads(p)
BY PointAtWork DEF ChaosTypes, Reads

\* Lifecycle and files are not what a recovery is judged by.
LEMMA FilesStep ==
  ASSUME ChaosInv, LaunchWorker \/ Exited \/ Kill
  PROVE  ChaosInv'
<1>1. UNCHANGED <<queue, attempt>> /\ chaosAt \in Running /\ chaosAt' \in Running
  BY DEF LaunchWorker, Exited, Kill, Running
<1>2. box' \in Box /\ ProxyGone'
  <2>1. box \in Box
    BY DEF ChaosInv, ChaosTypes
  <2>2. box' \in Box
    BY <2>1 DEF Box, LaunchWorker, Exited, Kill
  <2>3. chaosAt' \in Up
    BY DEF Up, LaunchWorker, Exited, Kill
  <2> QED BY <2>2, <2>3 DEF ProxyGone
<1>3. queue # <<>> /\ ChaosTypes
  BY <1>1 DEF ChaosInv, Stages, Running
<1>4. PICK s \in Life, f \in SUBSET File :
        disk' = disk \/ disk' = [disk EXCEPT ![point] = [@ EXCEPT !.life = s, !.files = f]]
  <2>1. disk[point] \in Directory /\ disk[point].files \in SUBSET File
        /\ disk[point].life \in Life
    BY <1>3, PointAtWork DEF Directory
  <2>2. disk \in [Point -> Directory] /\ point \in Point
    BY <1>3, PointAtWork DEF ChaosTypes
  <2>3. CASE LaunchWorker \/ Kill
    <3>1. PICK l \in Life : disk' = disk \/ disk' = [disk EXCEPT ![point] = [@ EXCEPT !.life = l]]
      BY <2>3 DEF LaunchWorker, Kill, Life
    <3>2. [disk[point] EXCEPT !.life = l]
            = [disk[point] EXCEPT !.life = l, !.files = disk[point].files]
      BY <2>1 DEF Directory
    <3> QED BY <2>1, <2>2, <3>1, <3>2
  <2>4. CASE Exited
    <3>1. PICK f \in {disk[point].files, disk[point].files \cup {"intermediate"}} :
            disk' = [disk EXCEPT ![point] = [@ EXCEPT !.life = "exited", !.files = f]]
      BY <2>4 DEF Exited
    <3>2. f \in SUBSET File /\ "exited" \in Life
      BY <2>1, <3>1 DEF File, Life
    <3> QED BY <3>1, <3>2
  <2> QED BY <2>3, <2>4
<1>5. disk' \in [Point -> Directory] /\ \A p \in Point : Reads(p)' = Reads(p)
  <2>1. CASE disk' = disk
    BY <1>3, <2>1 DEF ChaosTypes, Reads
  <2>2. CASE disk' = [disk EXCEPT ![point] = [@ EXCEPT !.life = s, !.files = f]]
    <3> DEFINE d == [disk[point] EXCEPT !.life = s, !.files = f]
    <3>1. disk[point] \in Directory
      BY <1>3, PointAtWork
    <3>2. /\ d \in Directory /\ d.recovery = disk[point].recovery
          /\ d.proxyRows = disk[point].proxyRows /\ d.status = disk[point].status
      BY <3>1 DEF Directory
    <3>3. disk' = [disk EXCEPT ![point] = d]
      BY <2>2
    <3> HIDE DEF d
    <3>4. Reads(point)' = Reads(point)
      BY <1>1, <1>3, <3>2, <3>3, Writing DEF Reads, point
    <3>5. /\ disk' \in [Point -> Directory]
          /\ \A p \in Point : p # point => Reads(p)' = Reads(p)
      BY <1>3, <3>2, <3>3, Writing
    <3>6. \A p \in Point : Reads(p)' = Reads(p)
      <4> TAKE p \in Point
      <4>1. CASE p = point
        BY <4>1, <3>4, <1>1 DEF Reads, point
      <4> QED BY <4>1, <3>5
    <3> QED BY <3>5, <3>6
  <2> QED BY <1>4, <2>1, <2>2
<1>6. FirstRun' /\ SecondRun' /\ Stages'
  BY <1>1, <1>5, StepsInPlace
<1>7. RecoveryTruthful' /\ NoBlindReplay'
  BY <1>5, SoundStays DEF Point
<1>8. ChaosTypes'
  BY <1>1, <1>2, <1>3, <1>5 DEF ChaosTypes
<1> QED BY <1>2, <1>6, <1>7, <1>8 DEF ChaosInv
-----------------------------------------------------------------------------
\* What a recovery says of a directory, and what a second run needs.
Truthful(d) ==
  d.recovery # NoRecovery =>
    /\ d.recovery.before = ForwardedOf(d.proxyRows[1])
    /\ d.recovery.unknown = d.proxyRows[1].forwarding
    /\ d.recovery.passed /\ d.recovery.class = "FAILED_BEFORE_IO"
         => ForwardedOf(d.proxyRows[1]) = 0
    /\ d.recovery.passed /\ d.recovery.class = "UNKNOWN_OUTCOME"
         => d.proxyRows[1].forwarding = 1
NotReplayed(d) ==
  d.proxyRows[2] # NoRows \/ d.status[2] # "none" => ForwardedOf(d.proxyRows[1]) = 0
Fresh(d) == d.recovery = NoRecovery /\ d.proxyRows[2] = NoRows /\ d.status[2] = "none"

\* A step at a point writes to its directory alone, and rightly.
LEMMA StepAtPoint ==
  ASSUME ChaosInv, queue # <<>>, chaosAt # "idle", chaosAt' # "idle", queue' = queue,
         NEW d \in Directory, disk' = [disk EXCEPT ![point] = d],
         attempt' = 1 /\ chaosAt' \in Running \cup {"recover"} => Fresh(d),
         chaosAt' \in {"retry", "retried"} \/ (attempt' = 2 /\ chaosAt' \in Running)
           => /\ point \in Physical /\ d.recovery \in Recovery
              /\ ForwardedOf(d.proxyRows[1]) = 0,
         point \in Physical => Truthful(d) /\ NotReplayed(d)
  PROVE  /\ disk' \in [Point -> Directory] /\ FirstRun' /\ SecondRun'
         /\ RecoveryTruthful' /\ NoBlindReplay'
<1>1. ChaosTypes /\ point \in Point /\ point' = point
  BY PointAtWork DEF ChaosInv, point
<1>2. /\ disk' \in [Point -> Directory] /\ disk'[point] = d
      /\ \A p \in Point : p # point => disk'[p] = disk[p]
  BY <1>1, Writing
<1>3. FirstRun'
  <2> SUFFICES ASSUME NEW i \in 1..Len(queue),
                      i > 1 \/ (attempt' = 1 /\ chaosAt' \in Running \cup {"recover"})
               PROVE  Untried(queue[i])'
    BY DEF FirstRun
  <2>1. CASE i > 1
    <3>1. Untried(queue[i])
      BY <2>1 DEF FirstRun, ChaosInv
    <3>2. disk'[queue[i]] = disk[queue[i]]
      BY <1>1, <1>2, <2>1, OtherPoints
    <3> QED BY <3>1, <3>2 DEF Untried
  <2>2. CASE ~(i > 1)
    <3>1. queue[i] = point
      BY <1>1, <2>2, PointAtWork
    <3>2. Fresh(d)
      BY <2>2
    <3>3. disk'[queue'[i]] = d
      BY <1>2, <3>1
    <3> QED BY <3>2, <3>3 DEF Fresh, Untried
  <2> QED BY <2>1, <2>2
<1>4. SecondRun'
  BY <1>1, <1>2 DEF SecondRun
<1>5. RecoveryTruthful' /\ NoBlindReplay'
  <2> SUFFICES ASSUME NEW p \in Physical
               PROVE  Truthful(disk'[p]) /\ NotReplayed(disk'[p])
    BY DEF RecoveryTruthful, NoBlindReplay, Truthful, NotReplayed
  <2>1. CASE p = point
    BY <1>2, <2>1
  <2>2. CASE p # point
    <3>1. disk'[p] = disk[p]
      BY <1>2, <2>2 DEF Point
    <3> QED BY <3>1 DEF ChaosInv, RecoveryTruthful, NoBlindReplay, Truthful, NotReplayed
  <2> QED BY <2>1, <2>2
<1> QED BY <1>2, <1>3, <1>4, <1>5

LEMMA LedgerStep ==
  ASSUME ChaosInv, SendRequest \/ Answered
  PROVE  ChaosInv'
<1>1. /\ UNCHANGED <<queue, attempt, chaosAt>> /\ queue # <<>> /\ ChaosTypes
      /\ box \in Box /\ attempt \in 1..2
  BY DEF SendRequest, Answered, ChaosInv, ChaosTypes
<1>2. box' \in Box /\ (box'.proxy = "running" => box.proxy = "running")
  <2>1. CASE Answered
    BY <1>1, <2>1 DEF Answered, Box
  <2>2. CASE SendRequest
    <3> DEFINE n == box.sent + 1
    <3>1. box.sent \in Int /\ n \in Int
      BY <1>1 DEF Box
    <3>2. \/ box' = [box EXCEPT !.sent = n]
          \/ box' = [box EXCEPT !.sent = n, !.proxy = IF @ = "running" THEN "dead" ELSE @]
          \/ /\ box' = [box EXCEPT !.sent = n, !.flight = (fault # "forwarded"),
                                   !.proxy = IF fault = "forwarded" THEN "dead" ELSE @]
             /\ box.proxy = "running"
      BY <2>2 DEF SendRequest
    <3> HIDE DEF n
    <3> QED BY <1>1, <3>1, <3>2 DEF Box
  <2> QED BY <2>1, <2>2
<1>3. disk' = disk => ProxyGone' /\ ChaosTypes' /\ Stages'
  BY <1>1, <1>2 DEF ProxyGone, ChaosInv, ChaosTypes, Stages, point
<1>4. CASE disk' = disk
  <2>1. \A p \in Point : Reads(p)' = Reads(p)
    BY <1>4 DEF Reads
  <2>2. FirstRun' /\ SecondRun' /\ Stages'
    BY <1>1, <2>1, StepsInPlace
  <2>3. RecoveryTruthful' /\ NoBlindReplay'
    BY <2>1, SoundStays DEF Point
  <2> QED BY <1>3, <1>4, <2>2, <2>3 DEF ChaosInv
<1>5. CASE disk' # disk
  <2>1. disk[point] \in Directory
    BY <1>1, PointAtWork
  <2>2. proxyRows \in Ledger
    BY <1>1, <2>1, DirectoryFields DEF proxyRows
  <2>3. PICK rows \in Ledger : Logged(rows) /\ box.proxy = "running"
    <3>1. CASE SendRequest
      <4>1. /\ [proxyRows EXCEPT !.blocked = @ + 1] \in Ledger
            /\ [proxyRows EXCEPT !.forwarding = @ + 1] \in Ledger
        BY <2>2 DEF Ledger
      <4> QED BY <1>5, <3>1, <4>1 DEF SendRequest
    <3>2. CASE Answered
      <4>1. /\ [proxyRows EXCEPT !.forwarding = @ - 1, !.responses = @ + 1] \in Ledger
            /\ [proxyRows EXCEPT !.forwarding = @ - 1, !.failed = @ + 1] \in Ledger
        <5>1. /\ proxyRows.forwarding - 1 \in Int /\ proxyRows.responses + 1 \in Int
              /\ proxyRows.failed + 1 \in Int
          BY <2>2 DEF Ledger
        <5>2. \A x, y \in Int :
                /\ [proxyRows EXCEPT !.forwarding = x, !.responses = y] \in Ledger
                /\ [proxyRows EXCEPT !.forwarding = x, !.failed = y] \in Ledger
          BY <2>2 DEF Ledger
        <5> QED BY <5>1, <5>2
      <4> QED BY <3>2, <4>1 DEF Answered
    <3> QED BY <3>1, <3>2
  <2> DEFINE d == [disk[point] EXCEPT !.proxyRows[attempt] = rows]
  <2>4. d \in Directory
    BY <1>1, <2>1, DirectoryFields
  <2>5. disk' = [disk EXCEPT ![point] = d]
    BY <2>3 DEF Logged
  <2>6. /\ d.recovery = disk[point].recovery /\ d.status = disk[point].status
        /\ attempt = 1 => d.proxyRows[2] = disk[point].proxyRows[2]
        /\ attempt = 2 => d.proxyRows[1] = disk[point].proxyRows[1]
    BY <1>1, <2>1, DirectoryFields DEF Directory
  <2> HIDE DEF d
  <2>7. chaosAt \in Up /\ chaosAt \in Running /\ chaosAt # "idle"
    BY <2>3 DEF ChaosInv, ProxyGone, Up, Running
  <2>8. CASE attempt = 1
    <3>1. Untried(point)
      BY <1>1, <2>7, <2>8, PointAtWork DEF ChaosInv, FirstRun
    <3>2. Fresh(d) /\ Truthful(d) /\ NotReplayed(d)
      BY <2>6, <2>8, <3>1 DEF Untried, Fresh, Truthful, NotReplayed
    <3>3. /\ disk' \in [Point -> Directory] /\ FirstRun' /\ SecondRun'
          /\ RecoveryTruthful' /\ NoBlindReplay'
      <4>1. queue' = queue /\ chaosAt' # "idle" /\ ~ (chaosAt' \in {"retry", "retried"})
            /\ ~ (attempt' = 2)
        BY <1>1, <2>7, <2>8 DEF Up
      <4> QED BY <1>1, <2>4, <2>5, <2>7, <3>2, <4>1, StepAtPoint
    <3> QED BY <1>1, <1>2, <2>7, <3>3 DEF ChaosInv, ChaosTypes, ProxyGone, Stages, point
  <2>9. CASE attempt = 2
    <3>1. /\ point \in Physical /\ disk[point].recovery \in Recovery
          /\ ForwardedOf(disk[point].proxyRows[1]) = 0
      BY <2>7, <2>9 DEF ChaosInv, SecondRun
    <3>2. Truthful(disk[point])
      BY <3>1 DEF ChaosInv, RecoveryTruthful, Truthful
    <3>3. Truthful(d) /\ NotReplayed(d)
      BY <2>6, <2>9, <3>1, <3>2 DEF Truthful, NotReplayed
    <3>4. /\ disk' \in [Point -> Directory] /\ FirstRun' /\ SecondRun'
          /\ RecoveryTruthful' /\ NoBlindReplay'
      <4>1. queue' = queue /\ chaosAt' # "idle" /\ ~ (attempt' = 1)
        BY <1>1, <2>7, <2>9
      <4>2. d.recovery \in Recovery /\ ForwardedOf(d.proxyRows[1]) = 0
        BY <2>6, <2>9, <3>1
      <4> QED BY <1>1, <2>4, <2>5, <2>7, <3>1, <3>3, <4>1, <4>2, StepAtPoint
    <3> QED BY <1>1, <1>2, <2>7, <3>4 DEF ChaosInv, ChaosTypes, ProxyGone, Stages, point
  <2> QED BY <1>1, <2>8, <2>9
<1> QED BY <1>4, <1>5

LEMMA CloseStep ==
  ASSUME ChaosInv, Close
  PROVE  ChaosInv'
<1>1. /\ UNCHANGED <<queue, attempt, box>> /\ queue # <<>> /\ ChaosTypes /\ chaosAt = "close"
      /\ attempt \in 1..2 /\ chaosAt' \in {"retried", "reopen", "recover"}
      /\ box.proxy # "running"
  BY DEF Close, ChaosInv, ChaosTypes, Stages, ProxyGone, Up
<1>2. disk[point] \in Directory /\ StatusOfEnd \in Status /\ point \in Point
  BY <1>1, PointAtWork DEF StatusOfEnd, Status
<1> DEFINE d == [disk[point] EXCEPT !.status[attempt] = StatusOfEnd]
<1>3. d \in Directory /\ disk' = [disk EXCEPT ![point] = d]
  BY <1>1, <1>2, DirectoryFields DEF Close
<1>4. /\ d.recovery = disk[point].recovery /\ d.proxyRows = disk[point].proxyRows
      /\ attempt = 1 => d.status[2] = disk[point].status[2]
  BY <1>1, <1>2, DirectoryFields DEF Directory
<1> HIDE DEF d
<1>5. point \notin Injected
  BY <1>1 DEF ChaosInv, Stages, Running
<1>6. CASE attempt = 1
  <2>1. Untried(point)
    BY <1>1, <1>6, PointAtWork DEF ChaosInv, FirstRun, Running
  <2>2. Fresh(d) /\ Truthful(d) /\ NotReplayed(d)
    BY <1>4, <1>6, <2>1 DEF Untried, Fresh, Truthful, NotReplayed
  <2>3. chaosAt' \in {"reopen", "recover"} /\ (chaosAt' = "recover" => point # "none")
    BY <1>6 DEF Close
  <2>4. /\ queue' = queue /\ chaosAt # "idle" /\ chaosAt' # "idle"
        /\ ~ (chaosAt' \in {"retry", "retried"}) /\ ~ (attempt' = 2)
    BY <1>1, <1>6, <2>3
  <2>5. /\ disk' \in [Point -> Directory] /\ FirstRun' /\ SecondRun'
        /\ RecoveryTruthful' /\ NoBlindReplay'
    BY <1>1, <1>3, <2>2, <2>4, StepAtPoint
  <2>6. Stages'
    BY <1>1, <1>2, <1>5, <1>6, <2>3 DEF Stages, Running, point, Point
  <2> QED BY <1>1, <2>5, <2>6 DEF ChaosInv, ChaosTypes, ProxyGone
<1>7. CASE attempt = 2
  <2>1. /\ point \in Physical /\ disk[point].recovery \in Recovery
        /\ ForwardedOf(disk[point].proxyRows[1]) = 0
    BY <1>1, <1>7 DEF ChaosInv, SecondRun, Running
  <2>2. Truthful(disk[point])
    BY <2>1 DEF ChaosInv, RecoveryTruthful, Truthful
  <2>3. Truthful(d) /\ NotReplayed(d) /\ d.recovery \in Recovery
        /\ ForwardedOf(d.proxyRows[1]) = 0
    BY <1>4, <2>1, <2>2 DEF Truthful, NotReplayed
  <2>4. /\ queue' = queue /\ chaosAt # "idle" /\ chaosAt' # "idle" /\ ~ (attempt' = 1)
    BY <1>1, <1>7
  <2>5. /\ disk' \in [Point -> Directory] /\ FirstRun' /\ SecondRun'
        /\ RecoveryTruthful' /\ NoBlindReplay'
    BY <1>1, <1>3, <2>1, <2>3, <2>4, StepAtPoint
  <2>6. Stages'
    BY <1>1, <1>7 DEF Stages, Running, Close
  <2> QED BY <1>1, <2>5, <2>6 DEF ChaosInv, ChaosTypes, ProxyGone
<1> QED BY <1>1, <1>6, <1>7

LEMMA RecoverStep ==
  ASSUME ChaosInv, RecoverPhysical
  PROVE  ChaosInv'
<1>1. /\ UNCHANGED <<queue, attempt, box>> /\ queue # <<>> /\ ChaosTypes
      /\ chaosAt = "recover" /\ attempt = 1 /\ point \in Physical
      /\ chaosAt' \in {"stopped", "retry", "verdict"} /\ box.proxy # "running"
  BY DEF RecoverPhysical, ChaosInv, ChaosTypes, Stages, ProxyGone, Up
<1>2. /\ disk[point] \in Directory /\ point \in Point /\ Untried(point)
      /\ proxyRows = disk[point].proxyRows[1] /\ proxyRows \in Ledger
  BY <1>1, PointAtWork, DirectoryFields DEF ChaosInv, FirstRun, proxyRows
<1>3. Stages' /\ ProxyGone'
  BY <1>1 DEF Stages, ProxyGone, Running
<1>4. CASE chaosAt' = "stopped" /\ disk' = disk
  <2>1. Fresh(disk[point]) /\ Truthful(disk[point]) /\ NotReplayed(disk[point])
    BY <1>2 DEF Untried, Fresh, Truthful, NotReplayed
  <2>2. disk' = [disk EXCEPT ![point] = disk[point]]
    BY <1>1, <1>2, <1>4 DEF ChaosTypes
  <2>3. /\ queue' = queue /\ chaosAt # "idle" /\ chaosAt' # "idle"
        /\ ~ (attempt' = 2) /\ ~ (chaosAt' \in {"retry", "retried"})
    BY <1>1, <1>4
  <2>4. /\ disk' \in [Point -> Directory] /\ FirstRun' /\ SecondRun'
        /\ RecoveryTruthful' /\ NoBlindReplay'
    BY <1>1, <1>2, <2>1, <2>2, <2>3, StepAtPoint
  <2> QED BY <1>1, <1>3, <2>4 DEF ChaosInv, ChaosTypes
<1>5. CASE ~ (chaosAt' = "stopped")
  <2> DEFINE f == ForwardedOf(proxyRows)
             r == [class |-> Expected[point], before |-> f, after |-> f,
                   unknown |-> proxyRows.forwarding, retry |-> MayRetry, fresh |-> FALSE,
                   passed |-> RecoveryPasses]
             files == disk[point].files \cup
                        (IF "intermediate" \in disk[point].files THEN {"evidence"} ELSE {})
             d == [disk[point] EXCEPT !.files = files, !.recovery = r]
  <2>1. disk' = [disk EXCEPT ![point] = d] /\ chaosAt' = IF MayRetry THEN "retry" ELSE "verdict"
    BY <1>5 DEF RecoverPhysical
  <2>2. Expected[point] \in Class /\ f \in Int /\ proxyRows.forwarding \in Int
    BY <1>1, <1>2 DEF Expected, Class, ForwardedOf, Ledger
  <2>3. RecoveryPasses \in BOOLEAN /\ MayRetry \in BOOLEAN
    BY <1>1 DEF RecoveryPasses, MayRetry
  <2>4. r \in Recovery
    BY <2>2, <2>3 DEF Recovery
  <2>5. files \in SUBSET File
    BY <1>2 DEF Directory, File
  <2>6. /\ r.before = f /\ r.unknown = proxyRows.forwarding /\ r.class = Expected[point]
        /\ r.passed = RecoveryPasses
    OBVIOUS
  <2>7. RecoveryPasses /\ Expected[point] = "FAILED_BEFORE_IO" => f = 0
    BY <1>1 DEF RecoveryPasses, Expected
  <2>8. RecoveryPasses /\ Expected[point] = "UNKNOWN_OUTCOME" => proxyRows.forwarding = 1
    BY <1>1 DEF RecoveryPasses, Expected
  <2> HIDE DEF r, files
  <2>9. /\ d \in Directory /\ d.recovery = r /\ d.proxyRows = disk[point].proxyRows
        /\ d.status = disk[point].status
    BY <1>2, <2>4, <2>5 DEF Directory
  <2> HIDE DEF d
  <2>10. Truthful(d) /\ NotReplayed(d)
    BY <1>2, <2>6, <2>7, <2>8, <2>9 DEF Truthful, NotReplayed, Untried
  <2>11. chaosAt' = "retry" => ForwardedOf(d.proxyRows[1]) = 0
    BY <1>2, <2>1, <2>9 DEF MayRetry
  <2>12. /\ queue' = queue /\ chaosAt # "idle" /\ chaosAt' # "idle" /\ ~ (attempt' = 2)
         /\ ~ (chaosAt' \in Running \cup {"recover"}) /\ ~ (chaosAt' = "retried")
    BY <1>1, <1>5 DEF Running
  <2>13. /\ disk' \in [Point -> Directory] /\ FirstRun' /\ SecondRun'
         /\ RecoveryTruthful' /\ NoBlindReplay'
    BY <1>1, <2>1, <2>4, <2>9, <2>10, <2>11, <2>12, StepAtPoint
  <2> QED BY <1>1, <1>3, <2>13 DEF ChaosInv, ChaosTypes
<1> QED BY <1>4, <1>5 DEF RecoverPhysical

LEMMA RetriesStep ==
  ASSUME ChaosInv, Retry \/ Retried
  PROVE  ChaosInv'
<1>1. /\ UNCHANGED <<queue, box>> /\ queue # <<>> /\ ChaosTypes /\ point' = point
      /\ chaosAt \in {"retry", "retried"} /\ attempt' \in 1..2
      /\ chaosAt' \in {"identity", "verdict"} /\ box.proxy # "running"
      /\ chaosAt' = "identity" => attempt' = 2 /\ disk' = disk
  BY DEF Retry, Retried, ChaosInv, ChaosTypes, Stages, ProxyGone, Up, point
<1>2. /\ point \in Physical /\ point \in Point /\ disk[point].recovery \in Recovery
      /\ ForwardedOf(disk[point].proxyRows[1]) = 0 /\ disk[point] \in Directory
  BY <1>1, PointAtWork DEF ChaosInv, SecondRun
<1>3. Stages' /\ ProxyGone'
  BY <1>1, <1>2 DEF Stages, ProxyGone, Running
<1>4. PICK r \in Recovery :
        /\ disk' = [disk EXCEPT ![point] = [@ EXCEPT !.recovery = r]]
        /\ r.before = disk[point].recovery.before /\ r.unknown = disk[point].recovery.unknown
        /\ r.class = disk[point].recovery.class
        /\ r.passed => disk[point].recovery.passed
  <2> DEFINE old == disk[point].recovery
             no == [old EXCEPT !.passed = FALSE]
             fresh == [old EXCEPT !.fresh = TRUE]
  <2>1. \A r \in {no, fresh} :
          /\ r \in Recovery /\ r.before = old.before /\ r.unknown = old.unknown
          /\ r.class = old.class /\ (r.passed => old.passed)
    BY <1>2 DEF Recovery
  <2>2. disk = [disk EXCEPT ![point] = [@ EXCEPT !.recovery = old]]
    BY <1>1, <1>2 DEF ChaosTypes, Directory
  <2>3. PICK r \in {old, no, fresh} : disk' = [disk EXCEPT ![point] = [@ EXCEPT !.recovery = r]]
    BY <2>2 DEF Retry, Retried
  <2> HIDE DEF no, fresh
  <2> QED BY <1>2, <2>1, <2>3
<1> DEFINE d == [disk[point] EXCEPT !.recovery = r]
<1>5. /\ d \in Directory /\ d.recovery = r /\ d.proxyRows = disk[point].proxyRows
      /\ d.status = disk[point].status /\ disk' = [disk EXCEPT ![point] = d]
  BY <1>2, <1>4 DEF Directory
<1> HIDE DEF d
<1>6. Truthful(d) /\ NotReplayed(d) /\ ForwardedOf(d.proxyRows[1]) = 0
  <2>1. Truthful(disk[point])
    BY <1>2 DEF ChaosInv, RecoveryTruthful, Truthful
  <2>2. disk[point].recovery # NoRecovery
    BY <1>2 DEF NoRecovery, Recovery
  <2> QED BY <1>2, <1>4, <1>5, <2>1, <2>2 DEF Truthful, NotReplayed
<1>7. /\ queue' = queue /\ chaosAt # "idle" /\ chaosAt' # "idle"
      /\ ~ (attempt' = 1 /\ chaosAt' \in Running \cup {"recover"})
  BY <1>1 DEF Running
<1>8. /\ disk' \in [Point -> Directory] /\ FirstRun' /\ SecondRun'
      /\ RecoveryTruthful' /\ NoBlindReplay'
  BY <1>1, <1>2, <1>5, <1>6, <1>7, StepAtPoint
<1> QED BY <1>1, <1>3, <1>8 DEF ChaosInv, ChaosTypes

LEMMA BeginStep ==
  ASSUME ChaosInv, BeginPoint
  PROVE  ChaosInv'
<1>1. /\ UNCHANGED <<queue, disk, box>> /\ queue # <<>> /\ ChaosTypes /\ chaosAt = "idle"
      /\ attempt' = 1 /\ point' = point /\ point \in Point /\ box.proxy # "running"
      /\ chaosAt' = IF point \in Injected THEN "inject" ELSE "identity"
  BY PointAtWork DEF BeginPoint, ChaosInv, ProxyGone, Up, point
<1>2. \A p \in Point : Reads(p)' = Reads(p) /\ (Untried(p) => Untried(p)')
  BY <1>1 DEF Reads, Untried
<1>3. FirstRun'
  BY <1>1, <1>2 DEF FirstRun, ChaosInv, ChaosTypes
<1>4. SecondRun' /\ Stages' /\ ProxyGone'
  BY <1>1 DEF SecondRun, Stages, ProxyGone, Running
<1>5. RecoveryTruthful' /\ NoBlindReplay'
  BY <1>2, SoundStays DEF Point
<1> QED BY <1>1, <1>3, <1>4, <1>5 DEF ChaosInv, ChaosTypes

LEMMA InjectStep ==
  ASSUME ChaosInv, Inject
  PROVE  ChaosInv'
<1>1. /\ UNCHANGED <<queue, attempt, box>> /\ queue # <<>> /\ ChaosTypes
      /\ chaosAt = "inject" /\ chaosAt' = "resume" /\ point' = point /\ point \in Point
      /\ point \in Injected /\ disk[point] \in Directory /\ box.proxy # "running"
  BY PointAtWork DEF Inject, ChaosInv, ChaosTypes, Stages, ProxyGone, Up, point
<1>2. PICK f \in SUBSET File : disk' = [disk EXCEPT ![point] = [@ EXCEPT !.files = f]]
  BY <1>1 DEF Inject, File
<1> DEFINE d == [disk[point] EXCEPT !.files = f]
<1>3. d \in Directory /\ disk' = [disk EXCEPT ![point] = d]
  BY <1>1, <1>2, DirectoryFields
<1> HIDE DEF d
<1>4. /\ queue' = queue /\ chaosAt # "idle" /\ chaosAt' # "idle" /\ point \notin Physical
      /\ ~ (chaosAt' \in Running \cup {"recover"}) /\ ~ (chaosAt' \in Running)
      /\ ~ (chaosAt' \in {"retry", "retried"})
  BY <1>1 DEF Running
<1>5. /\ disk' \in [Point -> Directory] /\ FirstRun' /\ SecondRun'
      /\ RecoveryTruthful' /\ NoBlindReplay'
  BY <1>1, <1>3, <1>4, StepAtPoint
<1>6. Stages' /\ ProxyGone'
  BY <1>1 DEF Stages, ProxyGone, Running
<1> QED BY <1>1, <1>5, <1>6 DEF ChaosInv, ChaosTypes

\* The point is done with, and the driver takes the next.
LEMMA NextPoint ==
  ASSUME ChaosInv, queue # <<>>, queue' = Tail(queue), chaosAt' = "idle",
         disk' \in [Point -> Directory],
         \A p \in Point : p # point \/ p \in Physical => Reads(p)' = Reads(p)
  PROVE  /\ queue' \in Seq(Point) /\ IsInjective(queue') /\ FirstRun' /\ SecondRun' /\ Stages'
         /\ RecoveryTruthful' /\ NoBlindReplay'
<1>1. ChaosTypes
  BY DEF ChaosInv
<1>2. /\ queue' \in Seq(Point) /\ DOMAIN queue' = 1..Len(queue')
      /\ DOMAIN queue = 1..Len(queue)
      /\ \A i \in 1..Len(queue') :
           i + 1 \in 1..Len(queue) /\ i + 1 > 1 /\ queue'[i] = queue[i + 1]
  BY <1>1, PointAtWork DEF ChaosTypes
<1>3. IsInjective(queue')
  <2> SUFFICES ASSUME NEW i \in 1..Len(queue'), NEW j \in 1..Len(queue'), queue'[i] = queue'[j]
               PROVE  i = j
    BY <1>2 DEF IsInjective
  <2>1. queue[i + 1] = queue[j + 1] /\ i + 1 \in DOMAIN queue /\ j + 1 \in DOMAIN queue
    BY <1>2
  <2>2. i + 1 = j + 1
    BY <1>1, <2>1 DEF ChaosTypes, IsInjective
  <2> QED BY <2>2
<1>4. FirstRun'
  <2> SUFFICES ASSUME NEW i \in 1..Len(queue')
               PROVE  /\ disk'[queue'[i]].recovery = NoRecovery
                      /\ disk'[queue'[i]].proxyRows[2] = NoRows
                      /\ disk'[queue'[i]].status[2] = "none"
    BY DEF FirstRun, Untried
  <2>1. Untried(queue[i + 1]) /\ queue[i + 1] # point /\ queue[i + 1] \in Point
    BY <1>1, <1>2, OtherPoints DEF ChaosInv, FirstRun
  <2> DEFINE next == queue[i + 1]
  <2>2. \A p \in Point : p # point => /\ disk'[p].recovery = disk[p].recovery
                                      /\ disk'[p].proxyRows = disk[p].proxyRows
                                      /\ disk'[p].status = disk[p].status
    BY DEF Reads
  <2>3. queue'[i] = next
    BY <1>2
  <2> QED BY <2>1, <2>2, <2>3 DEF Untried
<1>5. SecondRun' /\ Stages'
  BY DEF SecondRun, Stages, Running
<1>6. RecoveryTruthful' /\ NoBlindReplay'
  BY SoundStays DEF Point
<1> QED BY <1>2, <1>3, <1>4, <1>5, <1>6

LEMMA DoneStep ==
  ASSUME ChaosInv, Verdict \/ Reopen \/ Resume
  PROVE  ChaosInv'
<1>1. /\ UNCHANGED <<box, attempt>> /\ queue # <<>> /\ ChaosTypes /\ point \in Point
      /\ box.proxy # "running" /\ disk[point] \in Directory /\ disk \in [Point -> Directory]
  BY PointAtWork DEF Verdict, Reopen, Resume, ChaosInv, ChaosTypes, Stages, ProxyGone, Up
<1>2. CASE chaosAt' = "stopped" /\ UNCHANGED <<queue, disk>>
  <2>1. \A p \in Point : Reads(p)' = Reads(p) /\ (Untried(p) => Untried(p)')
    BY <1>2 DEF Reads, Untried
  <2>2. FirstRun' /\ SecondRun' /\ Stages' /\ ProxyGone'
    BY <1>1, <1>2, <2>1 DEF FirstRun, SecondRun, Stages, ProxyGone, Running, ChaosInv, ChaosTypes
  <2>3. RecoveryTruthful' /\ NoBlindReplay'
    BY <2>1, SoundStays DEF Point
  <2> QED BY <1>1, <1>2, <2>2, <2>3 DEF ChaosInv, ChaosTypes
<1>3. CASE chaosAt' = "idle" /\ queue' = Tail(queue) /\ disk' = disk
  <2>1. \A p \in Point : Reads(p)' = Reads(p)
    BY <1>3 DEF Reads
  <2> QED BY <1>1, <1>3, <2>1, NextPoint DEF ChaosInv, ChaosTypes, ProxyGone
<1>4. CASE Resume
  <2> DEFINE r == [class |-> Expected[point], before |-> 0, after |-> 0, unknown |-> 0,
                   retry |-> FALSE, fresh |-> FALSE, passed |-> TRUE]
  <2>1. point \in Injected /\ chaosAt' = "idle" /\ queue' = Tail(queue)
    BY <1>4 DEF Resume, ChaosInv, Stages
  <2>2. r \in Recovery
    BY <2>1 DEF Recovery, Expected, Class
  <2>3. PICK f \in SUBSET File :
          disk' = [disk EXCEPT ![point] = [@ EXCEPT !.files = f, !.recovery = r]]
    <3>1. disk[point].files \in SUBSET File
      BY <1>1 DEF Directory
    <3> DEFINE f == IF point = "proved" THEN disk[point].files \cup {"finding"}
                    ELSE (disk[point].files \ {"report.tmp"}) \cup {"report"}
    <3>2. f \in SUBSET File
      BY <3>1 DEF File
    <3>3. disk' = [disk EXCEPT ![point] = [@ EXCEPT !.files = f, !.recovery = r]]
      BY <1>4 DEF Resume
    <3> HIDE DEF f
    <3> QED BY <3>2, <3>3
  <2> HIDE DEF r
  <2>4. [disk[point] EXCEPT !.files = f, !.recovery = r] \in Directory
    BY <1>1, <2>2 DEF Directory
  <2>5. /\ disk' \in [Point -> Directory]
        /\ \A p \in Point : p # point => Reads(p)' = Reads(p)
    BY <1>1, <2>3, <2>4, Writing
  <2>6. \A p \in Point : p \in Physical => p # point
    BY <2>1
  <2> QED BY <1>1, <2>1, <2>5, <2>6, NextPoint DEF ChaosInv, ChaosTypes, ProxyGone
<1> QED BY <1>2, <1>3, <1>4 DEF Verdict, Reopen

LEMMA ConsolidateStep ==
  ASSUME ChaosInv, Consolidate \/ UNCHANGED chaosVars
  PROVE  ChaosInv'
<1>1. UNCHANGED <<queue, disk, box, chaosAt, attempt>>
  BY DEF Consolidate, chaosVars
<1> QED BY <1>1 DEF ChaosInv, ChaosTypes, ProxyGone, FirstRun, SecondRun, Stages, Untried, point,
              RecoveryTruthful, NoBlindReplay

LEMMA ChaosSteps == ChaosInv /\ [ChaosNext]_chaosVars => ChaosInv'
<1> SUFFICES ASSUME ChaosInv, [ChaosNext]_chaosVars PROVE ChaosInv'
  OBVIOUS
<1>1. CASE Create \/ TimedOut \/ PollWorker \/ GiveUp \/ RemoveContainers \/ Identity
  BY <1>1, ContainersStep
<1>2. CASE LaunchWorker \/ Exited \/ Kill
  BY <1>2, FilesStep
<1>3. CASE SendRequest \/ Answered
  BY <1>3, LedgerStep
<1>4. CASE Close
  BY <1>4, CloseStep
<1>5. CASE RecoverPhysical
  BY <1>5, RecoverStep
<1>6. CASE Retry \/ Retried
  BY <1>6, RetriesStep
<1>7. CASE BeginPoint
  BY <1>7, BeginStep
<1>8. CASE Inject
  BY <1>8, InjectStep
<1>9. CASE Verdict \/ Reopen \/ Resume
  BY <1>9, DoneStep
<1>10. CASE Consolidate \/ UNCHANGED chaosVars
  BY <1>10, ConsolidateStep
<1> QED
  BY <1>1, <1>2, <1>3, <1>4, <1>5, <1>6, <1>7, <1>8, <1>9, <1>10 DEF ChaosNext

\* What a recovery says of a faulted run stays what its ledger says, and a point
\* is tried again only when its first run forwarded nothing
\* (recover_physical_detector_chaos, retry_physical_detector_chaos).
THEOREM RecoveriesAreSound == ChaosSpec => []RecoverySound
<1>1. ChaosInv => RecoverySound
  BY DEF ChaosInv, RecoverySound
<1> QED BY <1>1, ChaosBegins, ChaosSteps, PTL DEF ChaosSpec

-----------------------------------------------------------------------------
(***************************************************************************)
(* The full night.  From the report on nothing is stored of a run any      *)
(* more, so what is counted later, along another way, is the same.         *)
(***************************************************************************)
\* What is stored of a run: without an authorization it forwarded nothing.
Result(o) ==
  o.authorized \in BOOLEAN /\ o.forwarded \in Nat /\ (o.authorized \/ o.forwarded = 0)

\* The runs stored before each step.
StoredBy ==
  /\ DOMAIN results \subseteq NightRuns
  /\ \A r \in DOMAIN results : Result(results[r])
  /\ at \in {"reopen", "later"} => Scheduled \ Later \subseteq DOMAIN results
  /\ at \notin {"first", "reopen", "later", "raised", "dead"} => Scheduled \subseteq DOMAIN results
  /\ at \in {"inputs", "internal", "unlink", "docker", "report"} => External \subseteq DOMAIN results
  /\ at \in {"unlink", "docker", "report"} => Internal \subseteq DOMAIN results

\* Once there is a report, every run is stored and counted in it.
Reported ==
  at \in {"hash", "verify", "accept", "rehash", "returned"} =>
    /\ DOMAIN results = NightRuns
    /\ \E done, left : report = [is |-> "report", completed |-> done, orphans |-> left,
                                 forwarded |-> ForwardedCount(NightRuns),
                                 verify |-> IF at \in {"hash", "verify"} THEN "PENDING" ELSE "PASS"]

\* The manifest was hashed from what is still on disk.
Hashed == at \in {"verify", "returned"} => Verifies

\* The acceptance counts the authorized runs, which are those that forwarded anything.
Accepted ==
  /\ at \notin {"rehash", "returned", "dead"} => acceptance = Absent
  /\ acceptance # Absent =>
       /\ DOMAIN results = NightRuns
       /\ acceptance.forwarded = ForwardedCount(NightRuns)
       /\ report.forwarded = ForwardedCount(NightRuns)

NightDocuments == StoredBy /\ Reported /\ Hashed /\ Accepted

LEMMA SameCount ==
  ASSUME NEW R, NEW S, {r \in R : results[r].forwarded > 0} = {r \in S : results[r].forwarded > 0}
  PROVE  ForwardedCount(R) = ForwardedCount(S)
BY DEF ForwardedCount

LEMMA NightBegins == FullInit => NightDocuments
BY DEF FullInit, NightDocuments, StoredBy, Reported, Hashed, Accepted

LEMMA Storing ==
  ASSUME NEW r, NEW o, Store([x \in {r} |-> o])
  PROVE  /\ DOMAIN results' = DOMAIN results \cup {r}
         /\ results'[r] = o
         /\ \A q \in DOMAIN results : q # r => results'[q] = results[q]
BY DEF Store

LEMMA RunsStep ==
  ASSUME NightDocuments, Dispatch \/ RunExternal \/ RunInternal
  PROVE  NightDocuments'
<1>1. /\ UNCHANGED <<report, acceptance, manifest>>
      /\ at \in {"first", "later", "external", "internal"}
      /\ at' \in {"first", "later", "external", "internal", "reopen", "trace", "inputs", "unlink"}
  BY DEF Dispatch, RunExternal, RunInternal
<1>2. Reported' /\ Hashed' /\ Accepted'
  BY <1>1 DEF NightDocuments, Reported, Hashed, Accepted
<1>3. CASE results' = results
  <2>1. Dispatch
    <3>1. ASSUME NEW r, NEW o, r \notin DOMAIN results, Store([x \in {r} |-> o])
          PROVE  FALSE
      BY <1>3, <3>1, Storing
    <3> QED BY <3>1 DEF RunExternal, RunInternal
  <2>2. StoredBy'
    BY <2>1, <1>3, NightRunsAssumption DEF NightDocuments, StoredBy, Dispatch
  <2> QED BY <1>2, <2>2 DEF NightDocuments
<1>4. ASSUME NEW r \in NightRuns, NEW o, Result(o), Store([x \in {r} |-> o]),
             at' = at \/ (at = "external" /\ at' = "inputs" /\ External \ DOMAIN results = {r})
                      \/ (at = "internal" /\ at' = "unlink" /\ Internal \ DOMAIN results = {r})
      PROVE  NightDocuments'
  <2>1. /\ DOMAIN results' = DOMAIN results \cup {r} /\ results'[r] = o
        /\ \A q \in DOMAIN results : q # r => results'[q] = results[q]
    BY <1>4, Storing
  <2>2. \A q \in DOMAIN results' : Result(results'[q])
    BY <1>4, <2>1 DEF NightDocuments, StoredBy
  <2>3. StoredBy'
    BY <1>1, <1>4, <2>1, <2>2 DEF NightDocuments, StoredBy
  <2> QED BY <1>2, <2>3 DEF NightDocuments
<1>5. CASE Dispatch /\ results' # results
  <2>1. PICK r \in Scheduled, o \in Outcomes : Store([x \in {r} |-> o]) /\ at' = at
    BY <1>5, NightRunsAssumption DEF Dispatch
  <2> QED BY <1>4, <2>1, OutcomesAssumption DEF Result, NightRuns
<1>6. CASE RunExternal
  <2>1. PICK r \in External, o \in Outcomes :
          /\ Store([x \in {r} |-> o])
          /\ at' = IF External \ DOMAIN results = {r} THEN "inputs" ELSE at
    BY <1>6 DEF RunExternal
  <2> QED BY <1>4, <1>6, <2>1, OutcomesAssumption DEF Result, NightRuns, RunExternal
<1>7. CASE RunInternal
  <2>1. PICK r \in Internal, s \in {"completed", "failed"} :
          /\ Store([x \in {r} |-> [status |-> s, authorized |-> TRUE, forwarded |-> 0]])
          /\ at' = IF Internal \ DOMAIN results = {r} THEN "unlink" ELSE at
    BY <1>7 DEF RunInternal
  <2>2. Result([status |-> s, authorized |-> TRUE, forwarded |-> 0])
    BY DEF Result
  <2> QED BY <1>4, <1>7, <2>1, <2>2 DEF NightRuns, RunInternal
<1> QED BY <1>3, <1>5, <1>6, <1>7

LEMMA OrderStep ==
  ASSUME NightDocuments,
         ReopenScheduler \/ VerifyTrace \/ CheckGate \/ WriteInputs \/ UnlinkInputs
           \/ QueryDocker \/ NightDies \/ UNCHANGED fullVars
  PROVE  NightDocuments'
<1>1. UNCHANGED <<results, report, acceptance, manifest>>
  BY DEF ReopenScheduler, VerifyTrace, CheckGate, WriteInputs, UnlinkInputs, QueryDocker,
         NightDies, fullVars
<1>2. StoredBy'
  BY <1>1 DEF NightDocuments, StoredBy, ReopenScheduler, VerifyTrace, CheckGate, WriteInputs,
              UnlinkInputs, QueryDocker, NightDies, fullVars
<1>3. Reported'
  BY <1>1 DEF NightDocuments, Reported, ForwardedCount, ReopenScheduler, VerifyTrace, CheckGate,
              WriteInputs, UnlinkInputs, QueryDocker, NightDies, fullVars
<1>4. Hashed'
  BY <1>1 DEF NightDocuments, Hashed, Verifies, Disk, ReopenScheduler, VerifyTrace, CheckGate,
              WriteInputs, UnlinkInputs, QueryDocker, NightDies, fullVars
<1>5. Accepted'
  BY <1>1 DEF NightDocuments, Accepted, ForwardedCount, ReopenScheduler, VerifyTrace, CheckGate,
              WriteInputs, UnlinkInputs, QueryDocker, NightDies, fullVars
<1> QED BY <1>2, <1>3, <1>4, <1>5 DEF NightDocuments

LEMMA DocumentsStep ==
  ASSUME NightDocuments,
         WriteReport \/ HashManifest \/ RewriteReport \/ PublishManifest
  PROVE  NightDocuments'
<1>1. UNCHANGED <<results, acceptance, inputs, orphans>> /\ at \notin {"dead", "returned"}
  BY DEF WriteReport, HashManifest, RewriteReport, PublishManifest
<1>2. StoredBy'
  BY <1>1 DEF NightDocuments, StoredBy, WriteReport, HashManifest, RewriteReport, PublishManifest
<1>3. Reported'
  <2>1. CASE WriteReport
    <3>1. at = "report" => DOMAIN results = NightRuns
      BY DEF NightDocuments, StoredBy, NightRuns
    <3> QED BY <1>1, <2>1, <3>1 DEF Reported, WriteReport, ForwardedCount
  <2>2. CASE HashManifest \/ PublishManifest
    BY <1>1, <2>2 DEF NightDocuments, Reported, HashManifest, PublishManifest, ForwardedCount
  <2>3. CASE RewriteReport
    <3>1. Verifies /\ at = "verify" /\ at' = "accept" /\ Reported
      BY <2>3 DEF RewriteReport, NightDocuments, Hashed
    <3>2. PICK done, left : report = [is |-> "report", completed |-> done, orphans |-> left,
                                      forwarded |-> ForwardedCount(NightRuns),
                                      verify |-> "PENDING"]
      BY <3>1 DEF Reported
    <3>3. report' = [report EXCEPT !.verify = "PASS"]
      BY <2>3, <3>1 DEF RewriteReport
    <3>4. report' = [is |-> "report", completed |-> done, orphans |-> left,
                     forwarded |-> ForwardedCount(NightRuns), verify |-> "PASS"]
      BY <3>2, <3>3
    <3> QED BY <1>1, <3>1, <3>4 DEF Reported, ForwardedCount
  <2> QED BY <2>1, <2>2, <2>3
<1>4. Hashed'
  BY <1>1 DEF NightDocuments, Hashed, Verifies, Disk, WriteReport, HashManifest, RewriteReport,
              PublishManifest
<1>5. Accepted'
  <2>1. CASE WriteReport \/ HashManifest \/ RewriteReport
    BY <1>1, <2>1 DEF NightDocuments, Accepted, WriteReport, HashManifest, RewriteReport
  <2>2. CASE PublishManifest
    BY <1>1, <2>2 DEF NightDocuments, Accepted, PublishManifest, ForwardedCount
  <2> QED BY <2>1, <2>2
<1> QED BY <1>2, <1>3, <1>4, <1>5 DEF NightDocuments

LEMMA AcceptStep ==
  ASSUME NightDocuments, BuildAcceptance
  PROVE  NightDocuments'
<1> DEFINE counted == {r \in DurableResults : results[r].authorized}
<1>1. /\ UNCHANGED <<results, report, manifest>> /\ at = "accept" /\ at' \in {"rehash", "raised"}
      /\ DOMAIN results = NightRuns /\ acceptance = Absent
  BY DEF BuildAcceptance, NightDocuments, Reported, Accepted
<1>2. ForwardedCount(counted) = ForwardedCount(NightRuns)
  <2>1. {r \in counted : results[r].forwarded > 0} = {r \in NightRuns : results[r].forwarded > 0}
    BY <1>1 DEF NightDocuments, StoredBy, Result, DurableResults
  <2> QED BY <2>1, SameCount
<1>3. report.forwarded = ForwardedCount(NightRuns)
  BY <1>1 DEF NightDocuments, Reported
<1>4. Reported' /\ StoredBy' /\ Hashed'
  BY <1>1 DEF NightDocuments, Reported, StoredBy, Hashed, ForwardedCount
<1>5. Accepted'
  <2>1. CASE at' = "raised" /\ acceptance' = acceptance
    BY <1>1, <2>1 DEF Accepted
  <2>2. CASE at' = "rehash" /\ acceptance' = [is |-> "PASS", runs |-> counted,
                                              forwarded |-> ForwardedCount(counted)]
    <3>1. acceptance'.forwarded = ForwardedCount(counted)
      BY <2>2
    <3>2. ForwardedCount(NightRuns)' = ForwardedCount(NightRuns)
      BY <1>1 DEF ForwardedCount
    <3> QED BY <1>1, <1>2, <1>3, <2>2, <3>1, <3>2 DEF Accepted
  <2> QED BY <2>1, <2>2 DEF BuildAcceptance
<1> QED BY <1>4, <1>5 DEF NightDocuments

\* A night that returned left documents that agree with each other and with the
\* results on disk (run_full_night, build_ah_acceptance).
THEOREM NightsAreAccounted == FullSpec => []NightAccounted
<1>1. NightDocuments /\ [FullNext]_fullVars => NightDocuments'
  BY RunsStep, OrderStep, DocumentsStep, AcceptStep DEF FullNext, FullStep
<1>2. NightDocuments => NightAccounted
  <2> SUFFICES ASSUME NightDocuments PROVE NightAccounted
    OBVIOUS
  <2>1. PublishedVerifies
    BY DEF NightDocuments, Reported, Hashed, PublishedVerifies
  <2>2. CountsAgree
    BY DEF NightDocuments, Accepted, CountsAgree
  <2> QED BY <2>1, <2>2 DEF NightAccounted
<1> QED BY <1>1, <1>2, NightBegins, PTL DEF FullSpec
=============================================================================
