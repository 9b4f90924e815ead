---------------------- MODULE ObservationSessionProofs ----------------------
(***************************************************************************)
(* The safety of ObservationSession for any number of processes sharing    *)
(* the session, any queue and any budget.                                  *)
(***************************************************************************)
EXTENDS ObservationSession, FiniteSetTheorems, TLAPS

USE DEF At, Active, Goto, Current, FileOf, control, store

\* A process inside an item has taken it, and one about to append has an entry.
Inside ==
  \A p \in Procs :
    /\ pc[p] \notin {"loop", "ended"} => taken[p] \in 1..Length
    /\ pc[p] = "append" => entry[p] \in Entry

\* An entry made from the current state is a manifest entry.
LEMMA NextEntryType ==
  ASSUME TypeOK, NEW p \in Procs, taken[p] \in 1..Length
  PROVE  NextEntry(p) \in Entry
<1> DEFINE n == Len(manifest)
<1>1. n \in Nat
  BY DEF TypeOK
<1>2. FileOf(p, stage[p]) \in Path /\ files[FileOf(p, stage[p])] \in Permit \cup {NoPermit}
  BY DEF TypeOK, Path
<1>3. Current(p) \in Permit
  BY DEF Permit
<1>4. (IF n = 0 THEN NoEntry ELSE Hash(manifest[n])) \in Permit \X {"body", "record"} \cup {NoEntry}
  <2>1. CASE n = 0
    BY <2>1
  <2>2. CASE n # 0
    <3>1. manifest[n] \in Entry
      BY <1>1, <2>2 DEF TypeOK
    <3>2. manifest[n].permit \in Permit /\ manifest[n].path \in Path
      BY <3>1 DEF Entry
    <3> QED
      BY <2>2, <3>2 DEF Hash, Path
  <2> QED
    BY <2>1, <2>2
<1> QED
  BY <1>1, <1>2, <1>3, <1>4 DEF NextEntry, Entry

\* Closing an item keeps the ledger's type.
LEMMA ClosedType ==
  ASSUME TypeOK, NEW failed \in BOOLEAN
  PROVE  Closed(failed) \in [reserved : Nat, errors : Nat, completed : Nat]
BY DEF TypeOK, Closed

\* No process is inside an item it has not reserved, and none appends an
\* entry it has not prepared.
THEOREM TypeInvariant == Spec => [](TypeOK /\ Inside)
<1> DEFINE Inv == TypeOK /\ Inside
<1>1. Init => Inv
  <2> SUFFICES ASSUME Init PROVE TypeOK /\ Inside
    OBVIOUS
  <2>1. Inside
    BY DEF Init, Inside
  <2>2. stale \in BOOLEAN /\ ledger \in [reserved : Nat, errors : Nat, completed : Nat] /\ dead \subseteq Procs
    BY DEF Init
  <2>3. pc \in [Procs -> Label] /\ taken \in [Procs -> 0..Length] /\ fails \in [Procs -> Nat]
    BY LengthAssumption DEF Init, Label
  <2>4. outcomes \in [Procs -> Seq(BOOLEAN)] /\ broken \in [Procs -> BOOLEAN]
    BY DEF Init
  <2>5. stage \in [Procs -> {"body", "record"}] /\ entry \in [Procs -> Entry \cup {NoEntry}]
    BY DEF Init
  <2>6. files \in [Path -> Permit \cup {NoPermit}] /\ manifest \in Seq(Entry)
    BY DEF Init
  <2> QED
    BY <2>1, <2>2, <2>3, <2>4, <2>5, <2>6 DEF Init, TypeOK
<1>2. Inv /\ [Next]_vars => Inv'
  <2> SUFFICES ASSUME TypeOK, Inside, [Next]_vars PROVE Inv'
    OBVIOUS
  <2>1. ASSUME NEW p \in Procs, Stop(p) PROVE Inv'
    BY <2>1 DEF Stop, TypeOK, Inside, Label, Permit
  <2>2. ASSUME NEW p \in Procs, Reserve(p) PROVE Inv'
    <3>1. taken[p] + 1 \in 1..Length
      BY <2>2, LengthAssumption DEF Reserve, Stopped, TypeOK
    <3>2. ledger' \in [reserved : Nat, errors : Nat, completed : Nat]
      BY <2>2 DEF Reserve, Reserved, TypeOK
    <3>3. /\ pc' = [pc EXCEPT ![p] = "permit"] /\ taken' = [taken EXCEPT ![p] = taken[p] + 1]
          /\ UNCHANGED <<stale, dead, fails, outcomes, broken, stage, entry, store>>
      BY <2>2 DEF Reserve, Goto
    <3>4. pc' \in [Procs -> Label] /\ taken' \in [Procs -> 0..Length]
      BY <3>1, <3>3, LengthAssumption DEF TypeOK, Label
    <3>5. TypeOK'
      BY <3>2, <3>3, <3>4 DEF TypeOK, store
    <3>6. Inside'
      BY <3>1, <3>3 DEF TypeOK, Inside
    <3> QED
      BY <3>5, <3>6
  <2>3. ASSUME NEW p \in Procs, Issue(p) PROVE Inv'
    BY <2>3 DEF Issue, TypeOK, Inside, Label, Permit
  <2>4. ASSUME NEW p \in Procs, Admit(p) PROVE Inv'
    <3>1. Current(p) \in Permit
      BY <2>4 DEF Admit, Accepted, Refused, Inside, Permit
    <3>2. \A event \in Event : <<event, Current(p)>> \in Event \X Permit
      BY <3>1
    <3>3. audit' \subseteq Event \X Permit
      BY <2>4, <3>2 DEF Admit, Accepted, Refused, TypeOK, Event
    <3> QED
      BY <2>4, <3>1, <3>3 DEF Admit, Accepted, Refused, TypeOK, Inside, Label
  <2>5. ASSUME NEW p \in Procs, Started(p) PROVE Inv'
    <3>1. Current(p) \in Permit
      BY <2>5 DEF Started, Inside, Permit
    <3>2. \A event \in Event : <<event, Current(p)>> \in Event \X Permit
      BY <3>1
    <3>3. audit' \subseteq Event \X Permit
      BY <2>5, <3>2 DEF Started, TypeOK, Event
    <3> QED
      BY <2>5, <3>1, <3>3 DEF Started, TypeOK, Inside, Label
  <2>6. ASSUME NEW p \in Procs, Open(p) PROVE Inv'
    <3>1. Current(p) \in Permit
      BY <2>6 DEF Open, Inside, Permit
    <3> QED
      BY <2>6, <3>1 DEF Open, TypeOK, Inside, Label
  <2>7. ASSUME NEW p \in Procs, WriteBody(p) PROVE Inv'
    BY <2>7 DEF WriteBody, TypeOK, Inside, Label, Permit, Path
  <2>8. ASSUME NEW p \in Procs, WriteRecord(p) PROVE Inv'
    BY <2>8 DEF WriteRecord, TypeOK, Inside, Label, Permit, Path
  <2>9. ASSUME NEW p \in Procs, Lock(p) PROVE Inv'
    BY <2>9 DEF Lock, TypeOK, Inside, Label, Permit
  <2>10. ASSUME NEW p \in Procs, Sign(p) PROVE Inv'
    BY <2>10, NextEntryType DEF Sign, TypeOK, Inside, Label
  <2>11. ASSUME NEW p \in Procs, AppendEntry(p) PROVE Inv'
    BY <2>11 DEF AppendEntry, TypeOK, Inside, Label, Permit
  <2>12. ASSUME NEW p \in Procs, Unlock(p) PROVE Inv'
    BY <2>12 DEF Unlock, AfterEntry, TypeOK, Inside, Label
  <2>13. ASSUME NEW p \in Procs, Report(p) PROVE Inv'
    <3>1. Current(p) \in Permit
      BY <2>13 DEF Report, Inside, Permit
    <3>2. \A event \in Event : <<event, Current(p)>> \in Event \X Permit
      BY <3>1
    <3>3. audit' \subseteq Event \X Permit
      BY <2>13, <3>2 DEF Report, TypeOK, Event
    <3> QED
      BY <2>13, <3>1, <3>3 DEF Report, TypeOK, Inside, Label
  <2>14. ASSUME NEW p \in Procs, Raise(p) PROVE Inv'
    BY <2>14 DEF Raise, TypeOK, Inside, Label, Permit
  <2>15. ASSUME NEW p \in Procs, Complete(p) PROVE Inv'
    <3>1. outcomes' \in [Procs -> Seq(BOOLEAN)]
      <4>1. outcomes[p] \in Seq(BOOLEAN)
        BY DEF TypeOK
      <4>2. Append(outcomes[p], TRUE) \in Seq(BOOLEAN)
        BY <4>1
      <4> QED
        BY <2>15, <4>2 DEF Complete, TypeOK
    <3>2. ledger' = Closed(FALSE) /\ Closed(FALSE) \in [reserved : Nat, errors : Nat, completed : Nat]
      BY <2>15, ClosedType DEF Complete
    <3>3. Inside' /\ pc' \in [Procs -> Label] /\ fails' \in [Procs -> Nat]
      BY <2>15 DEF Complete, TypeOK, Inside, Label
    <3> QED
      BY <2>15, <3>1, <3>2, <3>3 DEF Complete, TypeOK
  <2>16. ASSUME NEW p \in Procs, Fail(p) PROVE Inv'
    <3>1. outcomes' \in [Procs -> Seq(BOOLEAN)]
      <4>1. outcomes[p] \in Seq(BOOLEAN)
        BY DEF TypeOK
      <4>2. Append(outcomes[p], FALSE) \in Seq(BOOLEAN)
        BY <4>1
      <4> QED
        BY <2>16, <4>2 DEF Fail, TypeOK
    <3>2. ledger' = Closed(TRUE) /\ Closed(TRUE) \in [reserved : Nat, errors : Nat, completed : Nat]
      BY <2>16, ClosedType DEF Fail
    <3>3. Inside' /\ pc' \in [Procs -> Label] /\ fails' \in [Procs -> Nat]
      BY <2>16 DEF Fail, TypeOK, Inside, Label
    <3> QED
      BY <2>16, <3>1, <3>2, <3>3 DEF Fail, TypeOK
  <2>17. ASSUME NEW p \in Procs, Crash(p) PROVE Inv'
    BY <2>17 DEF Crash, TypeOK, Inside, Label, Permit
  <2>18. CASE Expire
    BY <2>18 DEF Expire, TypeOK, Inside, Label, Permit
  <2>19. CASE UNCHANGED vars
    BY <2>19 DEF vars, TypeOK, Inside, Label, Permit
  <2> QED
    BY <2>1, <2>2, <2>3, <2>4, <2>5, <2>6, <2>7, <2>8, <2>9, <2>10, <2>11, <2>12, <2>13, <2>14, <2>15, <2>16, <2>17, <2>18, <2>19 DEF Next, Step
<1> QED
  BY <1>1, <1>2, PTL DEF Spec

\* Every reachable state is well typed (session_ledger, observation,
\* evidence_store).
THEOREM TypeCorrect == Spec => []TypeOK
BY TypeInvariant, PTL

-----------------------------------------------------------------------------
(* The permits of the items taken so far: as many as the ledger has        *)
(* reserved, and every request is one of them.                             *)

Begun == {m \in Permit : m[2] <= taken[m[1]]}

Budgeted ==
  /\ ledger.reserved = Cardinality(Begun)
  /\ sent \subseteq Begun
  /\ ledger.reserved <= MaxActions /\ ledger.reserved <= MaxRequests

LEMMA BegunFinite == IsFiniteSet(Begun)
<1>0. IsFiniteSet(1..Length)
  BY LengthAssumption, FS_Interval
<1>1. IsFiniteSet(Permit)
  BY <1>0, ProcsAssumption, FS_Product DEF Permit
<1> QED
  BY <1>1, FS_Subset DEF Begun

\* The ledger bounds the requests of all the processes of a session, dead ones
\* included (reserve_action).
THEOREM BudgetsHold == Spec => []BudgetHeld
<1>1. TypeOK /\ Init => Budgeted
  <2> SUFFICES ASSUME TypeOK, Init PROVE Budgeted
    OBVIOUS
  <2>1. Begun = {}
    BY LengthAssumption DEF Init, Begun, Permit
  <2> QED
    BY <2>1, FS_EmptySet, BudgetAssumption DEF Init, Budgeted
<1>2. TypeOK /\ Inside /\ Budgeted /\ [Next]_vars => Budgeted'
  <2> SUFFICES ASSUME TypeOK, Inside, Budgeted, [Next]_vars PROVE Budgeted'
    OBVIOUS
  <2>1. ASSUME NEW p \in Procs, Stop(p) PROVE Budgeted'
    BY <2>1 DEF Stop, Budgeted, Begun
  <2>2. ASSUME NEW p \in Procs, Reserve(p) PROVE Budgeted'
    <3> DEFINE m == <<p, taken[p] + 1>>
    <3>1. m \in Permit /\ m \notin Begun
      BY <2>2, LengthAssumption DEF Reserve, Stopped, TypeOK, Permit, Begun
    <3>2. Begun' = Begun \cup {m}
      <4>1. taken' = [taken EXCEPT ![p] = taken[p] + 1] /\ taken \in [Procs -> 0..Length]
        BY <2>2 DEF Reserve, TypeOK
      <4>2. ASSUME NEW k \in Permit
            PROVE  k[2] <= taken'[k[1]] <=> k[2] <= taken[k[1]] \/ k = m
        <5>1. /\ k[1] \in Procs /\ k[2] \in 1..Length /\ k = <<k[1], k[2]>>
              /\ taken[p] \in 0..Length
          BY <4>1 DEF Permit
        <5>2. CASE k[1] = p
          <6>1. taken'[k[1]] = taken[p] + 1
            BY <4>1, <5>2
          <6>2. k = m <=> k[2] = taken[p] + 1
            BY <5>1, <5>2
          <6> QED
            BY <5>1, <5>2, <6>1, <6>2, LengthAssumption
        <5>3. CASE k[1] # p
          BY <4>1, <5>1, <5>3
        <5> QED
          BY <5>2, <5>3
      <4> HIDE DEF m
      <4> QED
        BY <3>1, <4>2 DEF Begun
    <3>3. Cardinality(Begun') = Cardinality(Begun) + 1
      BY <3>1, <3>2, BegunFinite, FS_AddElement
    <3>4. ledger.reserved + 1 <= MaxActions /\ ledger.reserved + 1 <= MaxRequests
      BY <2>2, BudgetAssumption DEF Reserve, Stopped, BudgetSpent, TypeOK
    <3>5. sent' = sent /\ ledger'.reserved = ledger.reserved + 1
      BY <2>2 DEF Reserve, Reserved
    <3> QED
      BY <3>2, <3>3, <3>4, <3>5 DEF Budgeted
  <2>3. ASSUME NEW p \in Procs, Issue(p) PROVE Budgeted'
    BY <2>3 DEF Issue, Budgeted, Begun
  <2>4. ASSUME NEW p \in Procs, Admit(p) PROVE Budgeted'
    BY <2>4 DEF Admit, Accepted, Refused, Budgeted, Begun
  <2>5. ASSUME NEW p \in Procs, Started(p) PROVE Budgeted'
    BY <2>5 DEF Started, Budgeted, Begun
  <2>6. ASSUME NEW p \in Procs, Open(p) PROVE Budgeted'
    <3>0. taken[p] \in 1..Length
      BY <2>6 DEF Open, Inside
    <3>1. Current(p) \in Begun
      BY <3>0 DEF Begun, Permit
    <3> QED
      BY <2>6, <3>1 DEF Open, Budgeted, Begun
  <2>7. ASSUME NEW p \in Procs, WriteBody(p) PROVE Budgeted'
    BY <2>7 DEF WriteBody, Budgeted, Begun
  <2>8. ASSUME NEW p \in Procs, WriteRecord(p) PROVE Budgeted'
    BY <2>8 DEF WriteRecord, Budgeted, Begun
  <2>9. ASSUME NEW p \in Procs, Lock(p) PROVE Budgeted'
    BY <2>9 DEF Lock, Budgeted, Begun
  <2>10. ASSUME NEW p \in Procs, Sign(p) PROVE Budgeted'
    BY <2>10 DEF Sign, Budgeted, Begun
  <2>11. ASSUME NEW p \in Procs, AppendEntry(p) PROVE Budgeted'
    BY <2>11 DEF AppendEntry, Budgeted, Begun
  <2>12. ASSUME NEW p \in Procs, Unlock(p) PROVE Budgeted'
    BY <2>12 DEF Unlock, AfterEntry, Budgeted, Begun
  <2>13. ASSUME NEW p \in Procs, Report(p) PROVE Budgeted'
    BY <2>13 DEF Report, Budgeted, Begun
  <2>14. ASSUME NEW p \in Procs, Raise(p) PROVE Budgeted'
    BY <2>14 DEF Raise, Budgeted, Begun
  <2>15. ASSUME NEW p \in Procs, Complete(p) PROVE Budgeted'
    BY <2>15 DEF Complete, Closed, Budgeted, Begun
  <2>16. ASSUME NEW p \in Procs, Fail(p) PROVE Budgeted'
    BY <2>16 DEF Fail, Closed, Budgeted, Begun
  <2>17. ASSUME NEW p \in Procs, Crash(p) PROVE Budgeted'
    BY <2>17 DEF Crash, Budgeted, Begun
  <2>18. CASE Expire
    BY <2>18 DEF Expire, Budgeted, Begun
  <2>19. CASE UNCHANGED vars
    BY <2>19 DEF vars, Budgeted, Begun
  <2> QED
    BY <2>1, <2>2, <2>3, <2>4, <2>5, <2>6, <2>7, <2>8, <2>9, <2>10, <2>11, <2>12, <2>13, <2>14, <2>15, <2>16, <2>17, <2>18, <2>19 DEF Next, Step
<1>3. TypeOK /\ Budgeted => BudgetHeld
  <2> SUFFICES ASSUME TypeOK, Budgeted PROVE BudgetHeld
    OBVIOUS
  <2>1. Cardinality(sent) <= Cardinality(Begun)
    BY BegunFinite, FS_Subset DEF Budgeted
  <2> QED
    BY <2>1 DEF Budgeted, BudgetHeld
<1> QED
  BY <1>1, <1>2, <1>3, TypeInvariant, PTL DEF Spec

-----------------------------------------------------------------------------
\* Between its reservation and its completion an item is held by one process.
Holders == {p \in Procs : pc[p] \notin {"loop", "ended"}}

LEMMA HoldersFinite == IsFiniteSet(Holders)
BY ProcsAssumption, FS_Subset DEF Holders

\* Every reservation is resolved exactly once, or is still held, if only by a
\* process that died (run_controlled_queue, record_completion).
THEOREM LedgersAccounted == Spec => []LedgerAccounted
<1>1. Init => LedgerAccounted
  <2> SUFFICES ASSUME Init PROVE LedgerAccounted
    OBVIOUS
  <2>1. Holders = {}
    BY DEF Init, Holders
  <2>2. Cardinality(Holders) = 0
    BY <2>1, FS_EmptySet
  <2>3. ledger.reserved = 0 /\ ledger.completed = 0 /\ ledger.errors = 0
    BY DEF Init
  <2> QED
    BY <2>2, <2>3 DEF LedgerAccounted, Holders
<1>2. TypeOK /\ LedgerAccounted /\ [Next]_vars => LedgerAccounted'
  <2> SUFFICES ASSUME TypeOK, LedgerAccounted, [Next]_vars PROVE LedgerAccounted'
    OBVIOUS
  <2>0. /\ ledger.errors <= ledger.completed
        /\ ledger.reserved - ledger.completed = Cardinality(Holders)
        /\ ledger.reserved \in Nat /\ ledger.completed \in Nat /\ ledger.errors \in Nat
    BY DEF LedgerAccounted, Holders, TypeOK
  <2> DEFINE Goal == /\ ledger'.errors <= ledger'.completed
                     /\ ledger'.reserved - ledger'.completed = Cardinality(Holders')
  <2> SUFFICES Goal
    BY DEF LedgerAccounted, Holders
  <2>1. ASSUME NEW p \in Procs, Stop(p) PROVE Goal
    <3>1. Holders' = Holders /\ ledger' = ledger
      BY <2>1 DEF Stop, Holders, TypeOK
    <3> QED
      BY <2>0, <3>1
  <2>2. ASSUME NEW p \in Procs, Reserve(p) PROVE Goal
    <3>1. p \notin Holders /\ Holders' = Holders \cup {p}
      BY <2>2 DEF Reserve, Holders, TypeOK
    <3>2. Cardinality(Holders') = Cardinality(Holders) + 1
      BY <3>1, HoldersFinite, FS_AddElement
    <3>3. /\ ledger'.reserved = ledger.reserved + 1 /\ ledger'.completed = ledger.completed
          /\ ledger'.errors = ledger.errors
      BY <2>2 DEF Reserve, Reserved
    <3> QED
      BY <2>0, <3>2, <3>3, HoldersFinite, FS_CardinalityType
  <2>3. ASSUME NEW p \in Procs, Issue(p) PROVE Goal
    <3>1. Holders' = Holders /\ ledger' = ledger
      BY <2>3 DEF Issue, Holders, TypeOK
    <3> QED
      BY <2>0, <3>1
  <2>4. ASSUME NEW p \in Procs, Admit(p) PROVE Goal
    <3>1. Holders' = Holders /\ ledger' = ledger
      BY <2>4 DEF Admit, Accepted, Refused, Holders, TypeOK
    <3> QED
      BY <2>0, <3>1
  <2>5. ASSUME NEW p \in Procs, Started(p) PROVE Goal
    <3>1. Holders' = Holders /\ ledger' = ledger
      BY <2>5 DEF Started, Holders, TypeOK
    <3> QED
      BY <2>0, <3>1
  <2>6. ASSUME NEW p \in Procs, Open(p) PROVE Goal
    <3>1. Holders' = Holders /\ ledger' = ledger
      BY <2>6 DEF Open, Holders, TypeOK
    <3> QED
      BY <2>0, <3>1
  <2>7. ASSUME NEW p \in Procs, WriteBody(p) PROVE Goal
    <3>1. Holders' = Holders /\ ledger' = ledger
      BY <2>7 DEF WriteBody, Holders, TypeOK
    <3> QED
      BY <2>0, <3>1
  <2>8. ASSUME NEW p \in Procs, WriteRecord(p) PROVE Goal
    <3>1. Holders' = Holders /\ ledger' = ledger
      BY <2>8 DEF WriteRecord, Holders, TypeOK
    <3> QED
      BY <2>0, <3>1
  <2>9. ASSUME NEW p \in Procs, Lock(p) PROVE Goal
    <3>1. Holders' = Holders /\ ledger' = ledger
      BY <2>9 DEF Lock, Holders, TypeOK
    <3> QED
      BY <2>0, <3>1
  <2>10. ASSUME NEW p \in Procs, Sign(p) PROVE Goal
    <3>1. Holders' = Holders /\ ledger' = ledger
      BY <2>10 DEF Sign, Holders, TypeOK
    <3> QED
      BY <2>0, <3>1
  <2>11. ASSUME NEW p \in Procs, AppendEntry(p) PROVE Goal
    <3>1. Holders' = Holders /\ ledger' = ledger
      BY <2>11 DEF AppendEntry, Holders, TypeOK
    <3> QED
      BY <2>0, <3>1
  <2>12. ASSUME NEW p \in Procs, Unlock(p) PROVE Goal
    <3>1. Holders' = Holders /\ ledger' = ledger
      BY <2>12 DEF Unlock, AfterEntry, Holders, TypeOK
    <3> QED
      BY <2>0, <3>1
  <2>13. ASSUME NEW p \in Procs, Report(p) PROVE Goal
    <3>1. Holders' = Holders /\ ledger' = ledger
      BY <2>13 DEF Report, Holders, TypeOK
    <3> QED
      BY <2>0, <3>1
  <2>14. ASSUME NEW p \in Procs, Raise(p) PROVE Goal
    <3>1. Holders' = Holders /\ ledger' = ledger
      BY <2>14 DEF Raise, Holders, TypeOK
    <3> QED
      BY <2>0, <3>1
  <2>15. ASSUME NEW p \in Procs, Complete(p) PROVE Goal
    <3>1. p \in Holders /\ Holders' = Holders \ {p}
      BY <2>15 DEF Complete, Holders, TypeOK
    <3>2. Cardinality(Holders') = Cardinality(Holders) - 1
      BY <3>1, HoldersFinite, FS_RemoveElement
    <3>3. /\ ledger'.reserved = ledger.reserved /\ ledger'.completed = ledger.completed + 1
          /\ ledger'.errors \in {ledger.errors, ledger.errors + 1}
      BY <2>0, <2>15 DEF Complete, Closed
    <3> QED
      BY <2>0, <3>1, <3>2, <3>3, HoldersFinite, FS_CardinalityType
  <2>16. ASSUME NEW p \in Procs, Fail(p) PROVE Goal
    <3>1. p \in Holders /\ Holders' = Holders \ {p}
      BY <2>16 DEF Fail, Holders, TypeOK
    <3>2. Cardinality(Holders') = Cardinality(Holders) - 1
      BY <3>1, HoldersFinite, FS_RemoveElement
    <3>3. /\ ledger'.reserved = ledger.reserved /\ ledger'.completed = ledger.completed + 1
          /\ ledger'.errors \in {ledger.errors, ledger.errors + 1}
      BY <2>0, <2>16 DEF Fail, Closed
    <3> QED
      BY <2>0, <3>1, <3>2, <3>3, HoldersFinite, FS_CardinalityType
  <2>17. ASSUME NEW p \in Procs, Crash(p) PROVE Goal
    <3>1. Holders' = Holders /\ ledger' = ledger
      BY <2>17 DEF Crash, Holders, TypeOK
    <3> QED
      BY <2>0, <3>1
  <2>18. CASE Expire
    BY <2>0, <2>18 DEF Expire, Holders
  <2>19. CASE UNCHANGED vars
    BY <2>0, <2>19 DEF vars, Holders
  <2> QED
    BY <2>1, <2>2, <2>3, <2>4, <2>5, <2>6, <2>7, <2>8, <2>9, <2>10, <2>11, <2>12, <2>13, <2>14, <2>15, <2>16, <2>17, <2>18, <2>19 DEF Next, Step
<1> QED
  BY <1>1, <1>2, TypeCorrect, PTL DEF Spec

-----------------------------------------------------------------------------
\* What is true of a permit between its admission and its request.
Announced ==
  /\ NoBlindRequest
  /\ \A p \in Procs :
       /\ pc[p] \in {"start", "open"} => Current(p) \in consumed
       /\ pc[p] = "open" => <<"started", Current(p)>> \in audit

\* No request leaves before its permit is consumed and its start is audited
\* (observe_http).
THEOREM RequestsAnnounced == Spec => []NoBlindRequest
<1>1. Init => Announced
  BY DEF Init, Announced, NoBlindRequest
<1>2. TypeOK /\ Announced /\ [Next]_vars => Announced'
  <2> SUFFICES ASSUME TypeOK, Announced, [Next]_vars PROVE Announced'
    OBVIOUS
  <2>1. ASSUME NEW p \in Procs, Stop(p) PROVE Announced'
    BY <2>1 DEF Stop, Announced, NoBlindRequest, TypeOK
  <2>2. ASSUME NEW p \in Procs, Reserve(p) PROVE Announced'
    BY <2>2 DEF Reserve, Announced, NoBlindRequest, TypeOK
  <2>3. ASSUME NEW p \in Procs, Issue(p) PROVE Announced'
    BY <2>3 DEF Issue, Announced, NoBlindRequest, TypeOK
  <2>4. ASSUME NEW p \in Procs, Admit(p) PROVE Announced'
    BY <2>4 DEF Admit, Accepted, Refused, Announced, NoBlindRequest, TypeOK
  <2>5. ASSUME NEW p \in Procs, Started(p) PROVE Announced'
    BY <2>5 DEF Started, Announced, NoBlindRequest, TypeOK
  <2>6. ASSUME NEW p \in Procs, Open(p) PROVE Announced'
    BY <2>6 DEF Open, Announced, NoBlindRequest, TypeOK
  <2>7. ASSUME NEW p \in Procs, WriteBody(p) PROVE Announced'
    BY <2>7 DEF WriteBody, Announced, NoBlindRequest, TypeOK
  <2>8. ASSUME NEW p \in Procs, WriteRecord(p) PROVE Announced'
    BY <2>8 DEF WriteRecord, Announced, NoBlindRequest, TypeOK
  <2>9. ASSUME NEW p \in Procs, Lock(p) PROVE Announced'
    BY <2>9 DEF Lock, Announced, NoBlindRequest, TypeOK
  <2>10. ASSUME NEW p \in Procs, Sign(p) PROVE Announced'
    BY <2>10 DEF Sign, Announced, NoBlindRequest, TypeOK
  <2>11. ASSUME NEW p \in Procs, AppendEntry(p) PROVE Announced'
    BY <2>11 DEF AppendEntry, Announced, NoBlindRequest, TypeOK
  <2>12. ASSUME NEW p \in Procs, Unlock(p) PROVE Announced'
    BY <2>12 DEF Unlock, AfterEntry, Announced, NoBlindRequest, TypeOK
  <2>13. ASSUME NEW p \in Procs, Report(p) PROVE Announced'
    BY <2>13 DEF Report, Announced, NoBlindRequest, TypeOK
  <2>14. ASSUME NEW p \in Procs, Raise(p) PROVE Announced'
    BY <2>14 DEF Raise, Announced, NoBlindRequest, TypeOK
  <2>15. ASSUME NEW p \in Procs, Complete(p) PROVE Announced'
    BY <2>15 DEF Complete, Closed, Announced, NoBlindRequest, TypeOK
  <2>16. ASSUME NEW p \in Procs, Fail(p) PROVE Announced'
    BY <2>16 DEF Fail, Closed, Announced, NoBlindRequest, TypeOK
  <2>17. ASSUME NEW p \in Procs, Crash(p) PROVE Announced'
    BY <2>17 DEF Crash, Announced, NoBlindRequest, TypeOK
  <2>18. CASE Expire
    BY <2>18 DEF Expire, Announced, NoBlindRequest, TypeOK
  <2>19. CASE UNCHANGED vars
    BY <2>19 DEF vars, Announced, NoBlindRequest, TypeOK
  <2> QED
    BY <2>1, <2>2, <2>3, <2>4, <2>5, <2>6, <2>7, <2>8, <2>9, <2>10, <2>11, <2>12, <2>13, <2>14, <2>15, <2>16, <2>17, <2>18, <2>19 DEF Next, Step
<1> QED
  BY <1>1, <1>2, TypeCorrect, PTL DEF Spec, Announced

-----------------------------------------------------------------------------
\* The entry that continues the manifest.
Link == IF Len(manifest) = 0 THEN NoEntry ELSE Hash(manifest[Len(manifest)])

\* A process that works on the manifest owns its lock file, and what it signed
\* still continues the manifest.
Locked ==
  /\ ManifestChained
  /\ \A p \in Procs :
       /\ pc[p] \in {"sign", "append", "unlock"} => lock = p
       /\ pc[p] = "append" => entry[p].sequence = Len(manifest) + 1 /\ entry[p].previous = Link

\* The manifest is a chain whichever processes register and wherever they die
\* (register_evidence under its lock).
THEOREM ManifestsChained == Spec => []ManifestChained
<1>1. Init => Locked
  BY DEF Init, Locked, ManifestChained
<1>2. TypeOK /\ Inside /\ Locked /\ [Next]_vars => Locked'
  <2> SUFFICES ASSUME TypeOK, Inside, Locked, [Next]_vars PROVE Locked'
    OBVIOUS
  <2>0. Len(manifest) \in Nat
    BY DEF TypeOK
  <2>1. ASSUME NEW p \in Procs, Stop(p) PROVE Locked'
    BY <2>1 DEF Stop, Locked, ManifestChained, Link, TypeOK
  <2>2. ASSUME NEW p \in Procs, Reserve(p) PROVE Locked'
    BY <2>2 DEF Reserve, Locked, ManifestChained, Link, TypeOK
  <2>3. ASSUME NEW p \in Procs, Issue(p) PROVE Locked'
    BY <2>3 DEF Issue, Locked, ManifestChained, Link, TypeOK
  <2>4. ASSUME NEW p \in Procs, Admit(p) PROVE Locked'
    BY <2>4 DEF Admit, Accepted, Refused, Locked, ManifestChained, Link, TypeOK
  <2>5. ASSUME NEW p \in Procs, Started(p) PROVE Locked'
    BY <2>5 DEF Started, Locked, ManifestChained, Link, TypeOK
  <2>6. ASSUME NEW p \in Procs, Open(p) PROVE Locked'
    BY <2>6 DEF Open, Locked, ManifestChained, Link, TypeOK
  <2>7. ASSUME NEW p \in Procs, WriteBody(p) PROVE Locked'
    BY <2>7 DEF WriteBody, Locked, ManifestChained, Link, TypeOK
  <2>8. ASSUME NEW p \in Procs, WriteRecord(p) PROVE Locked'
    BY <2>8 DEF WriteRecord, Locked, ManifestChained, Link, TypeOK
  <2>9. ASSUME NEW p \in Procs, Lock(p) PROVE Locked'
    BY <2>9, ProcsAssumption DEF Lock, LockFree, TimesOut, Locked, ManifestChained, Link, TypeOK
  <2>10. ASSUME NEW p \in Procs, Sign(p) PROVE Locked'
    <3>1. NextEntry(p).sequence = Len(manifest) + 1 /\ NextEntry(p).previous = Link
      BY DEF NextEntry, Link
    <3>2. Link' = Link /\ ManifestChained'
      BY <2>10 DEF Sign, Link, Locked, ManifestChained
    <3> QED
      BY <2>10, <3>1, <3>2 DEF Sign, Locked, TypeOK
  <2>11. ASSUME NEW p \in Procs, AppendEntry(p) PROVE Locked'
    <3> DEFINE n == Len(manifest)
    <3>1. lock = p /\ entry[p] \in Entry /\ entry[p].sequence = n + 1 /\ entry[p].previous = Link
      BY <2>11 DEF AppendEntry, Locked, Inside
    <3>2. Len(manifest') = n + 1 /\ manifest'[n + 1] = entry[p]
      BY <2>11, <2>0, <3>1 DEF AppendEntry, TypeOK
    <3>3. \A i \in 1..n : manifest'[i] = manifest[i]
      BY <2>11, <2>0, <3>1 DEF AppendEntry, TypeOK
    <3>4. ManifestChained'
      <4> SUFFICES ASSUME NEW i \in 1..Len(manifest')
                   PROVE  /\ manifest'[i].sequence = i
                          /\ manifest'[i].previous = IF i = 1 THEN NoEntry ELSE Hash(manifest'[i - 1])
        BY DEF ManifestChained, Hash
      <4>1. CASE i = n + 1
        BY <2>0, <3>1, <3>2, <3>3, <4>1 DEF Link, Hash
      <4>2. CASE i \in 1..n
        <5>1. manifest'[i] = manifest[i] /\ (i # 1 => manifest'[i - 1] = manifest[i - 1])
          BY <2>0, <3>3, <4>2
        <5> QED
          BY <2>0, <4>2, <5>1 DEF Locked, ManifestChained, Hash
      <4> QED
        BY <2>0, <3>2, <4>1, <4>2
    <3>5. \A q \in Procs : pc'[q] # "append" /\ (pc'[q] \in {"sign", "append", "unlock"} => lock' = q)
      BY <2>11, <3>1 DEF AppendEntry, Locked, TypeOK
    <3> QED
      BY <3>4, <3>5 DEF Locked
  <2>12. ASSUME NEW p \in Procs, Unlock(p) PROVE Locked'
    BY <2>12 DEF Unlock, AfterEntry, Locked, ManifestChained, Link, TypeOK
  <2>13. ASSUME NEW p \in Procs, Report(p) PROVE Locked'
    BY <2>13 DEF Report, Locked, ManifestChained, Link, TypeOK
  <2>14. ASSUME NEW p \in Procs, Raise(p) PROVE Locked'
    BY <2>14 DEF Raise, Locked, ManifestChained, Link, TypeOK
  <2>15. ASSUME NEW p \in Procs, Complete(p) PROVE Locked'
    BY <2>15 DEF Complete, Closed, Locked, ManifestChained, Link, TypeOK
  <2>16. ASSUME NEW p \in Procs, Fail(p) PROVE Locked'
    BY <2>16 DEF Fail, Closed, Locked, ManifestChained, Link, TypeOK
  <2>17. ASSUME NEW p \in Procs, Crash(p) PROVE Locked'
    BY <2>17 DEF Crash, Locked, ManifestChained, Link, TypeOK
  <2>18. CASE Expire
    BY <2>18 DEF Expire, Locked, ManifestChained, Link, TypeOK
  <2>19. CASE UNCHANGED vars
    BY <2>19 DEF vars, Locked, ManifestChained, Link, TypeOK
  <2> QED
    BY <2>1, <2>2, <2>3, <2>4, <2>5, <2>6, <2>7, <2>8, <2>9, <2>10, <2>11, <2>12, <2>13, <2>14, <2>15, <2>16, <2>17, <2>18, <2>19 DEF Next, Step
<1> QED
  BY <1>1, <1>2, TypeInvariant, PTL DEF Spec, Locked

-----------------------------------------------------------------------------
Registered(m, kind) == \E i \in 1..Len(manifest) : Hash(manifest[i]) = <<m, kind>>

\* What the manifest holds of the item a process is registering.
Filed ==
  \A p \in Procs :
    /\ pc[p] = "append" => Hash(entry[p]) = <<Current(p), stage[p]>>
    /\ pc[p] = "unlock" => Registered(Current(p), stage[p])
    /\ /\ pc[p] \in {"lock", "sign", "append", "unlock"}
       /\ stage[p] = "record" /\ p \in Keepers /\ ~broken[p]
       => Registered(Current(p), "body")
    /\ pc[p] = "report" /\ ~broken[p] =>
       /\ Registered(Current(p), "record")
       /\ p \in Keepers => Registered(Current(p), "body")

\* The manifest only grows.
LEMMA RegisteredStays ==
  ASSUME TypeOK, TypeOK', NEW e \in Entry, manifest' = manifest \/ manifest' = Append(manifest, e),
         NEW m, NEW kind, Registered(m, kind)
  PROVE  Registered(m, kind)'
<1>1. PICK i \in 1..Len(manifest) : Hash(manifest[i]) = <<m, kind>>
  BY DEF Registered
<1>0. manifest \in Seq(Entry)
  BY DEF TypeOK
<1>2. i \in 1..Len(manifest') /\ manifest'[i] = manifest[i]
  <2>1. CASE manifest' = manifest
    BY <1>1, <2>1
  <2>2. CASE manifest' = Append(manifest, e)
    BY <1>0, <1>1, <2>2
  <2> QED
    BY <2>1, <2>2
<1> QED
  BY <1>1, <1>2 DEF Registered, Hash

\* A request the audit log calls completed has its evidence in the manifest
\* (observe_http registers before it reports).
THEOREM CompletedAreRegistered == Spec => []CompletedIsRegistered
<1> DEFINE Inv == Filed /\ CompletedIsRegistered
<1>1. Init => Inv
  BY DEF Init, Filed, CompletedIsRegistered
<1>2. TypeOK /\ TypeOK' /\ Inside /\ Inv /\ [Next]_vars => Inv'
  <2> SUFFICES ASSUME TypeOK, TypeOK', Inside, Filed, CompletedIsRegistered, [Next]_vars
               PROVE  Inv'
    OBVIOUS
  <2> DEFINE Grows == manifest' = manifest \/ \E e \in Entry : manifest' = Append(manifest, e)
  <2>a. ASSUME Grows, NEW m, NEW kind, Registered(m, kind) PROVE Registered(m, kind)'
    <3>1. CASE manifest' = manifest
      BY <2>a, <3>1 DEF Registered, Hash
    <3>2. CASE \E e \in Entry : manifest' = Append(manifest, e)
      <4>1. PICK e \in Entry : manifest' = Append(manifest, e)
        BY <3>2
      <4> QED
        BY <2>a, <4>1, RegisteredStays
    <3> QED
      BY <2>a, <3>1, <3>2
  <2>b. CompletedIsRegistered <=>
          \A m \in Permit : <<"completed", m>> \in audit =>
            \A kind \in {"record"} \cup (IF m[1] \in Keepers THEN {"body"} ELSE {}) :
              Registered(m, kind)
    BY DEF CompletedIsRegistered, Registered
  <2>c. CompletedIsRegistered' <=>
          \A m \in Permit : <<"completed", m>> \in audit' =>
            \A kind \in {"record"} \cup (IF m[1] \in Keepers THEN {"body"} ELSE {}) :
              Registered(m, kind)'
    BY DEF CompletedIsRegistered, Registered
  <2>d. ASSUME Grows, \A m \in Permit : <<"completed", m>> \in audit' => <<"completed", m>> \in audit
        PROVE  CompletedIsRegistered'
    BY <2>a, <2>b, <2>c, <2>d
  <2>1. ASSUME NEW p \in Procs, Stop(p) PROVE Inv'
    <3>1. manifest' = manifest /\ \A m \in Permit : <<"completed", m>> \in audit' => <<"completed", m>> \in audit
      BY <2>1 DEF Stop
    <3>2. Filed'
      BY <2>1, <2>a, <3>1 DEF Stop, Filed, TypeOK
    <3> QED
      BY <2>d, <3>1, <3>2
  <2>2. ASSUME NEW p \in Procs, Reserve(p) PROVE Inv'
    <3>1. manifest' = manifest /\ \A m \in Permit : <<"completed", m>> \in audit' => <<"completed", m>> \in audit
      BY <2>2 DEF Reserve
    <3>2. Filed'
      BY <2>2, <2>a, <3>1 DEF Reserve, Filed, TypeOK
    <3> QED
      BY <2>d, <3>1, <3>2
  <2>3. ASSUME NEW p \in Procs, Issue(p) PROVE Inv'
    <3>1. manifest' = manifest /\ \A m \in Permit : <<"completed", m>> \in audit' => <<"completed", m>> \in audit
      BY <2>3 DEF Issue
    <3>2. Filed'
      BY <2>3, <2>a, <3>1 DEF Issue, Filed, TypeOK
    <3> QED
      BY <2>d, <3>1, <3>2
  <2>4. ASSUME NEW p \in Procs, Admit(p) PROVE Inv'
    <3>1. manifest' = manifest /\ \A m \in Permit : <<"completed", m>> \in audit' => <<"completed", m>> \in audit
      BY <2>4 DEF Admit, Accepted, Refused
    <3>2. Filed'
      BY <2>4, <2>a, <3>1 DEF Admit, Accepted, Refused, Filed, TypeOK
    <3> QED
      BY <2>d, <3>1, <3>2
  <2>5. ASSUME NEW p \in Procs, Started(p) PROVE Inv'
    <3>1. manifest' = manifest /\ \A m \in Permit : <<"completed", m>> \in audit' => <<"completed", m>> \in audit
      BY <2>5 DEF Started
    <3>2. Filed'
      BY <2>5, <2>a, <3>1 DEF Started, Filed, TypeOK
    <3> QED
      BY <2>d, <3>1, <3>2
  <2>6. ASSUME NEW p \in Procs, Open(p) PROVE Inv'
    <3>1. manifest' = manifest /\ \A m \in Permit : <<"completed", m>> \in audit' => <<"completed", m>> \in audit
      BY <2>6 DEF Open
    <3>2. Filed'
      BY <2>6, <2>a, <3>1 DEF Open, Filed, TypeOK
    <3> QED
      BY <2>d, <3>1, <3>2
  <2>7. ASSUME NEW p \in Procs, WriteBody(p) PROVE Inv'
    <3>1. manifest' = manifest /\ \A m \in Permit : <<"completed", m>> \in audit' => <<"completed", m>> \in audit
      BY <2>7 DEF WriteBody
    <3>2. Filed'
      BY <2>7, <2>a, <3>1 DEF WriteBody, Filed, TypeOK
    <3> QED
      BY <2>d, <3>1, <3>2
  <2>8. ASSUME NEW p \in Procs, WriteRecord(p) PROVE Inv'
    <3>1. manifest' = manifest /\ \A m \in Permit : <<"completed", m>> \in audit' => <<"completed", m>> \in audit
      BY <2>8 DEF WriteRecord
    <3>2. Filed'
      BY <2>8, <2>a, <3>1 DEF WriteRecord, Filed, TypeOK
    <3> QED
      BY <2>d, <3>1, <3>2
  <2>9. ASSUME NEW p \in Procs, Lock(p) PROVE Inv'
    <3>1. manifest' = manifest /\ \A m \in Permit : <<"completed", m>> \in audit' => <<"completed", m>> \in audit
      BY <2>9 DEF Lock
    <3>2. Filed'
      BY <2>9, <2>a, <3>1 DEF Lock, Filed, TypeOK
    <3> QED
      BY <2>d, <3>1, <3>2
  <2>10. ASSUME NEW p \in Procs, Sign(p) PROVE Inv'
    <3>1. manifest' = manifest /\ \A m \in Permit : <<"completed", m>> \in audit' => <<"completed", m>> \in audit
      BY <2>10 DEF Sign
    <3>a. Hash(NextEntry(p)) = <<Current(p), stage[p]>>
      BY DEF NextEntry, Hash
    <3>b. entry'[p] = NextEntry(p) /\ \A q \in Procs \ {p} : entry'[q] = entry[q]
      BY <2>10 DEF Sign, TypeOK
    <3>c. Hash(entry[p])' = <<Current(p), stage[p]>>
      BY <3>a, <3>b DEF Hash
    <3>d. \A q \in Procs \ {p} : Hash(entry[q])' = Hash(entry[q])
      BY <3>b DEF Hash
    <3>e. \A q \in Procs, kind \in {"record", "body"} :
             Registered(Current(q), kind)' <=> Registered(Current(q), kind)
      BY <2>10, <3>1 DEF Sign, Registered, Hash
    <3>2. Filed'
      BY <2>10, <3>c, <3>d, <3>e DEF Sign, Filed, TypeOK
    <3> QED
      BY <2>d, <3>1, <3>2
  <2>11. ASSUME NEW p \in Procs, AppendEntry(p) PROVE Inv'
    <3>1. Grows /\ audit' = audit
      BY <2>11 DEF AppendEntry, Inside
    <3>2. Registered(Current(p), stage[p])'
      <4>1. manifest'[Len(manifest) + 1] = entry[p] /\ Len(manifest) + 1 \in 1..Len(manifest')
        BY <2>11 DEF AppendEntry, TypeOK, Inside
      <4>2. Hash(entry[p]) = <<Current(p), stage[p]>> /\ UNCHANGED <<taken, stage>>
        BY <2>11 DEF AppendEntry, Filed
      <4>3. Hash(manifest'[Len(manifest) + 1]) = <<Current(p), stage[p]>>
        BY <4>1, <4>2
      <4> QED
        BY <4>1, <4>2, <4>3 DEF Registered, Hash
    <3>3. \A q \in Procs, kind \in {"record", "body"} :
             Registered(Current(q), kind) => Registered(Current(q), kind)'
      BY <2>11, <2>a, <3>1 DEF AppendEntry
    <3>4. \A q \in Procs : Hash(entry[q])' = Hash(entry[q])
      BY <2>11 DEF AppendEntry, Hash
    <3>5. Filed'
      <4>1. pc' = [pc EXCEPT ![p] = "unlock"] /\ UNCHANGED <<taken, stage, broken>> /\ pc[p] = "append"
        BY <2>11 DEF AppendEntry
      <4>2. pc \in [Procs -> Label] /\ stage \in [Procs -> {"record", "body"}]
        BY DEF TypeOK
      <4>3. p \in Keepers /\ ~broken[p] /\ stage[p] = "record" => Registered(Current(p), "body")'
        BY <3>3, <4>1, <4>2 DEF Filed
      <4>4. \A q \in Procs \ {p} :
              /\ pc[q] = "unlock" => Registered(Current(q), stage[q])'
              /\ /\ pc[q] \in {"lock", "sign", "append", "unlock"}
                 /\ stage[q] = "record" /\ q \in Keepers /\ ~broken[q]
                 => Registered(Current(q), "body")'
              /\ pc[q] = "report" /\ ~broken[q] =>
                 /\ Registered(Current(q), "record")'
                 /\ q \in Keepers => Registered(Current(q), "body")'
        BY <3>3, <4>1, <4>2 DEF Filed
      <4>5. \A q \in Procs : pc[q] = "append" => Hash(entry[q])' = <<Current(q), stage[q]>>
        BY <3>4 DEF Filed
      <4> QED
        BY <3>2, <4>1, <4>2, <4>3, <4>4, <4>5 DEF Filed
    <3> QED
      BY <2>d, <3>1, <3>5
  <2>12. ASSUME NEW p \in Procs, Unlock(p) PROVE Inv'
    <3>1. manifest' = manifest /\ \A m \in Permit : <<"completed", m>> \in audit' => <<"completed", m>> \in audit
      BY <2>12 DEF Unlock, AfterEntry
    <3>2. Filed'
      BY <2>12, <2>a, <3>1 DEF Unlock, AfterEntry, Filed, TypeOK
    <3> QED
      BY <2>d, <3>1, <3>2
  <2>13. ASSUME NEW p \in Procs, Report(p) PROVE Inv'
    <3>1. manifest' = manifest /\ Filed'
      BY <2>13, <2>a DEF Report, Filed, TypeOK
    <3>2. ASSUME NEW m \in Permit, <<"completed", m>> \in audit', <<"completed", m>> \notin audit
          PROVE  m = Current(p) /\ ~broken[p]
      BY <2>13, <3>2 DEF Report
    <3>3. ASSUME NEW m \in Permit, <<"completed", m>> \in audit',
                 NEW kind \in {"record"} \cup (IF m[1] \in Keepers THEN {"body"} ELSE {})
          PROVE  Registered(m, kind)
      <4>1. CASE <<"completed", m>> \in audit
        BY <2>b, <3>3, <4>1
      <4>2. CASE <<"completed", m>> \notin audit
        BY <2>13, <3>2, <3>3, <4>2 DEF Report, Filed
      <4> QED
        BY <4>1, <4>2
    <3> QED
      BY <2>a, <2>c, <3>1, <3>3
  <2>14. ASSUME NEW p \in Procs, Raise(p) PROVE Inv'
    <3>1. manifest' = manifest /\ \A m \in Permit : <<"completed", m>> \in audit' => <<"completed", m>> \in audit
      BY <2>14 DEF Raise
    <3>2. Filed'
      BY <2>14, <2>a, <3>1 DEF Raise, Filed, TypeOK
    <3> QED
      BY <2>d, <3>1, <3>2
  <2>15. ASSUME NEW p \in Procs, Complete(p) PROVE Inv'
    <3>1. manifest' = manifest /\ \A m \in Permit : <<"completed", m>> \in audit' => <<"completed", m>> \in audit
      BY <2>15 DEF Complete, Closed
    <3>2. Filed'
      BY <2>15, <2>a, <3>1 DEF Complete, Closed, Filed, TypeOK
    <3> QED
      BY <2>d, <3>1, <3>2
  <2>16. ASSUME NEW p \in Procs, Fail(p) PROVE Inv'
    <3>1. manifest' = manifest /\ \A m \in Permit : <<"completed", m>> \in audit' => <<"completed", m>> \in audit
      BY <2>16 DEF Fail, Closed
    <3>2. Filed'
      BY <2>16, <2>a, <3>1 DEF Fail, Closed, Filed, TypeOK
    <3> QED
      BY <2>d, <3>1, <3>2
  <2>17. ASSUME NEW p \in Procs, Crash(p) PROVE Inv'
    <3>1. manifest' = manifest /\ \A m \in Permit : <<"completed", m>> \in audit' => <<"completed", m>> \in audit
      BY <2>17 DEF Crash
    <3>2. Filed'
      BY <2>17, <2>a, <3>1 DEF Crash, Filed, TypeOK
    <3> QED
      BY <2>d, <3>1, <3>2
  <2>18. CASE Expire
    <3>1. manifest' = manifest /\ audit' = audit /\ Filed'
      BY <2>18 DEF Expire, Filed, Registered, Hash
    <3> QED
      BY <2>d, <3>1
  <2>19. CASE UNCHANGED vars
    <3>1. manifest' = manifest /\ audit' = audit /\ Filed'
      BY <2>19 DEF vars, Filed, Registered, Hash
    <3> QED
      BY <2>d, <3>1
  <2> QED
    BY <2>1, <2>2, <2>3, <2>4, <2>5, <2>6, <2>7, <2>8, <2>9, <2>10, <2>11, <2>12, <2>13, <2>14, <2>15, <2>16, <2>17, <2>18, <2>19 DEF Next, Step
<1> QED
  BY <1>1, <1>2, TypeInvariant, PTL DEF Spec

-----------------------------------------------------------------------------
Middle == Label \ {"loop", "ended"}

\* The breaker of a process counts the failures since its last completed item,
\* all its items are resolved but the one it is in, and a full count ends it.
CountsFailures(p) ==
  LET n == Len(outcomes[p]) IN
  /\ fails[p] <= n
  /\ \A k \in (n - fails[p] + 1)..n : ~outcomes[p][k]
  /\ fails[p] < n => outcomes[p][n - fails[p]]

Resolved(p) ==
  /\ pc[p] \in Middle => taken[p] = Len(outcomes[p]) + 1
  /\ pc[p] \notin Middle => taken[p] = Len(outcomes[p])

BreakerInv ==
  \A p \in Procs :
    /\ CountsFailures(p)
    /\ Resolved(p)
    /\ fails[p] >= Threshold => pc[p] = "ended"

LEMMA ThresholdPositive == Threshold \in Nat \ {0}
BY ErrorsAssumption DEF Threshold

LEMMA BreakerHolds ==
  ASSUME TypeOK, BreakerInv
  PROVE  CircuitHolds
<1> SUFFICES ASSUME NEW p \in Procs, Len(outcomes[p]) >= Threshold,
                    \A k \in (Len(outcomes[p]) - Threshold + 1)..Len(outcomes[p]) : ~outcomes[p][k]
             PROVE  pc[p] = "ended" /\ taken[p] = Len(outcomes[p])
  BY DEF CircuitHolds
<1> DEFINE n == Len(outcomes[p])
<1>1. n \in Nat /\ fails[p] \in Nat /\ Threshold \in Nat \ {0}
  BY ThresholdPositive DEF TypeOK
<1>2. fails[p] >= Threshold
  <2> SUFFICES ASSUME fails[p] < Threshold PROVE FALSE
    BY <1>1
  <2>1. fails[p] < n /\ n - fails[p] \in (n - Threshold + 1)..n
    BY <1>1
  <2>2. outcomes[p][n - fails[p]]
    BY <2>1 DEF BreakerInv, CountsFailures
  <2> QED
    BY <2>1, <2>2
<1>3. pc[p] = "ended"
  BY <1>2 DEF BreakerInv
<1> QED
  BY <1>1, <1>3 DEF BreakerInv, Resolved, Middle

\* A step inside an item, or one of no process, leaves the breaker as it is.
LEMMA BreakerRests ==
  ASSUME TypeOK, BreakerInv, UNCHANGED <<taken, fails, outcomes>>,
         \A q \in Procs : pc'[q] = pc[q] \/ (pc[q] \in Middle /\ pc'[q] \in Middle)
  PROVE  BreakerInv'
<1> SUFFICES ASSUME NEW q \in Procs
             PROVE  /\ CountsFailures(q)'
                    /\ Resolved(q)'
                    /\ fails'[q] >= Threshold => pc'[q] = "ended"
  BY DEF BreakerInv
<1>1. CountsFailures(q)'
  BY DEF BreakerInv, CountsFailures
<1>2. (pc'[q] \in Middle) = (pc[q] \in Middle)
  BY DEF Middle
<1>3. Resolved(q)'
  BY <1>2 DEF BreakerInv, Resolved
<1>4. fails[q] >= Threshold => pc[q] = "ended"
  BY DEF BreakerInv
<1>5. fails'[q] >= Threshold => pc'[q] = "ended"
  BY <1>4 DEF Middle
<1> QED
  BY <1>1, <1>3, <1>5

\* An appended outcome keeps the earlier ones.
LEMMA Appended ==
  ASSUME NEW s \in Seq(BOOLEAN), NEW b \in BOOLEAN
  PROVE  /\ Len(Append(s, b)) = Len(s) + 1
         /\ \A k \in 1..Len(s) : Append(s, b)[k] = s[k]
         /\ b <=> Append(s, b)[Len(s) + 1]
OBVIOUS

\* A failure more at the end of a sequence that ends with f failures.
LEMMA OneMoreFailure ==
  ASSUME NEW s \in Seq(BOOLEAN), NEW f \in Nat,
         f <= Len(s),
         \A k \in (Len(s) - f + 1)..Len(s) : ~s[k],
         f < Len(s) => s[Len(s) - f]
  PROVE  LET t == Append(s, FALSE) IN
         /\ f + 1 <= Len(t)
         /\ \A k \in (Len(t) - (f + 1) + 1)..Len(t) : ~t[k]
         /\ f + 1 < Len(t) => t[Len(t) - (f + 1)]
<1> DEFINE n == Len(s)  t == Append(s, FALSE)
<1>1. n \in Nat
  OBVIOUS
<1>2. Len(t) = n + 1 /\ (\A k \in 1..n : t[k] = s[k]) /\ ~t[n + 1]
  BY Appended
<1>3. f <= n /\ (\A k \in (n - f + 1)..n : ~s[k]) /\ (f < n => s[n - f])
  OBVIOUS
<1> HIDE DEF n, t
<1>4. ASSUME NEW k \in (n + 1 - (f + 1) + 1)..(n + 1) PROVE ~t[k]
  <2>1. k = n + 1 \/ (k \in 1..n /\ k \in (n - f + 1)..n)
    BY <1>1, <1>3
  <2> QED
    BY <1>2, <1>3, <2>1
<1>5. ASSUME f < n PROVE t[n - f]
  <2>1. n - f \in 1..n
    BY <1>1, <1>5
  <2> QED
    BY <1>2, <1>3, <1>5, <2>1
<1>6. n + 1 - (f + 1) = n - f /\ (f + 1 < n + 1 => f < n) /\ f + 1 <= n + 1
  BY <1>1, <1>3
<1>7. /\ f + 1 <= Len(t)
      /\ \A k \in (Len(t) - (f + 1) + 1)..Len(t) : ~t[k]
      /\ f + 1 < Len(t) => t[Len(t) - (f + 1)]
  <2>1. Len(t) = n + 1
    BY <1>2
  <2>2. \A k \in (Len(t) - (f + 1) + 1)..Len(t) : ~t[k]
    <3> SUFFICES ASSUME NEW k \in (Len(t) - (f + 1) + 1)..Len(t) PROVE ~t[k]
      OBVIOUS
    <3>1. k \in (n + 1 - (f + 1) + 1)..(n + 1)
      BY <1>1, <2>1
    <3> QED
      BY <1>4, <3>1, Zenon
  <2>3. f + 1 < Len(t) => t[Len(t) - (f + 1)]
    <3> HAVE f + 1 < Len(t)
    <3>1. f < n /\ Len(t) - (f + 1) = n - f
      BY <1>1, <1>6, <2>1
    <3> QED
      BY <1>5, <3>1, Zenon
  <2> QED
    BY <1>6, <2>1, <2>2, <2>3
<1> QED
  BY <1>7 DEF t

\* After as many failed items in a row as the breaker allows, a process takes
\* no further one (run_controlled_queue, record_circuit_result).
THEOREM CircuitsHold == Spec => []CircuitHolds
<1>1. Init => BreakerInv
  BY ThresholdPositive DEF Init, BreakerInv, CountsFailures, Resolved, Middle
<1>2. TypeOK /\ BreakerInv /\ [Next]_vars => BreakerInv'
  <2> SUFFICES ASSUME TypeOK, BreakerInv, [Next]_vars PROVE BreakerInv'
    OBVIOUS
  <2>1. ASSUME NEW p \in Procs, Stop(p) PROVE BreakerInv'
    <3> SUFFICES ASSUME NEW q \in Procs
                 PROVE  /\ CountsFailures(q)'
                        /\ Resolved(q)'
                        /\ fails'[q] >= Threshold => pc'[q] = "ended"
      BY DEF BreakerInv
    <3>1. CountsFailures(q)'
      BY <2>1 DEF Stop, BreakerInv, CountsFailures
    <3>2. Resolved(q)'
      BY <2>1 DEF Stop, BreakerInv, Resolved, Middle, TypeOK
    <3>3. fails'[q] >= Threshold => pc'[q] = "ended"
      BY <2>1 DEF Stop, BreakerInv, TypeOK
    <3> QED
      BY <3>1, <3>2, <3>3
  <2>2. ASSUME NEW p \in Procs, Reserve(p) PROVE BreakerInv'
    <3> SUFFICES ASSUME NEW q \in Procs
                 PROVE  /\ CountsFailures(q)'
                        /\ Resolved(q)'
                        /\ fails'[q] >= Threshold => pc'[q] = "ended"
      BY DEF BreakerInv
    <3>1. CountsFailures(q)'
      BY <2>2 DEF Reserve, BreakerInv, CountsFailures
    <3>2. Resolved(q)'
      BY <2>2 DEF Reserve, BreakerInv, Resolved, Middle, Label, TypeOK
    <3>3. fails'[q] >= Threshold => pc'[q] = "ended"
      BY <2>2 DEF Reserve, BreakerInv, TypeOK
    <3> QED
      BY <3>1, <3>2, <3>3
  <2>3. ASSUME NEW p \in Procs, Issue(p) PROVE BreakerInv'
    BY <2>3, BreakerRests DEF Issue, Middle, Label, TypeOK
  <2>4. ASSUME NEW p \in Procs, Admit(p) PROVE BreakerInv'
    BY <2>4, BreakerRests DEF Admit, Accepted, Refused, Middle, Label, TypeOK
  <2>5. ASSUME NEW p \in Procs, Started(p) PROVE BreakerInv'
    BY <2>5, BreakerRests DEF Started, Middle, Label, TypeOK
  <2>6. ASSUME NEW p \in Procs, Open(p) PROVE BreakerInv'
    BY <2>6, BreakerRests DEF Open, Middle, Label, TypeOK
  <2>7. ASSUME NEW p \in Procs, WriteBody(p) PROVE BreakerInv'
    BY <2>7, BreakerRests DEF WriteBody, Middle, Label, TypeOK
  <2>8. ASSUME NEW p \in Procs, WriteRecord(p) PROVE BreakerInv'
    BY <2>8, BreakerRests DEF WriteRecord, Middle, Label, TypeOK
  <2>9. ASSUME NEW p \in Procs, Lock(p) PROVE BreakerInv'
    BY <2>9, BreakerRests DEF Lock, Middle, Label, TypeOK
  <2>10. ASSUME NEW p \in Procs, Sign(p) PROVE BreakerInv'
    BY <2>10, BreakerRests DEF Sign, Middle, Label, TypeOK
  <2>11. ASSUME NEW p \in Procs, AppendEntry(p) PROVE BreakerInv'
    BY <2>11, BreakerRests DEF AppendEntry, Middle, Label, TypeOK
  <2>12. ASSUME NEW p \in Procs, Unlock(p) PROVE BreakerInv'
    BY <2>12, BreakerRests DEF Unlock, AfterEntry, Middle, Label, TypeOK
  <2>13. ASSUME NEW p \in Procs, Report(p) PROVE BreakerInv'
    BY <2>13, BreakerRests DEF Report, Middle, Label, TypeOK
  <2>14. ASSUME NEW p \in Procs, Raise(p) PROVE BreakerInv'
    BY <2>14, BreakerRests DEF Raise, Middle, Label, TypeOK
  <2>15. ASSUME NEW p \in Procs, Complete(p) PROVE BreakerInv'
    <3> SUFFICES ASSUME NEW q \in Procs
                 PROVE  /\ CountsFailures(q)'
                        /\ Resolved(q)'
                        /\ fails'[q] >= Threshold => pc'[q] = "ended"
      BY DEF BreakerInv
    <3> DEFINE n == Len(outcomes[p])
    <3>1. outcomes[p] \in Seq(BOOLEAN) /\ n \in Nat /\ fails[p] \in Nat /\ pc[p] \in Middle
      BY <2>15 DEF Complete, TypeOK, Middle, Label
    <3>2. CASE q = p
      <4>1. /\ outcomes'[p] = Append(outcomes[p], TRUE)
            /\ fails'[p] = 0
            /\ taken'[p] = taken[p]
            /\ pc'[p] = "loop"
        BY <2>15 DEF Complete, TypeOK
      <4>2. /\ Len(outcomes'[p]) = n + 1
            /\ \A i \in 1..n : outcomes'[p][i] = outcomes[p][i]
            /\ outcomes'[p][n + 1]
        <5> DEFINE longer == Append(outcomes[p], TRUE)
        <5>1. /\ Len(longer) = n + 1
              /\ \A i \in 1..n : longer[i] = outcomes[p][i]
          BY <3>1, Appended
        <5>2. longer[n + 1]
          BY <3>1, Appended, Zenon
        <5>3. outcomes'[p] = longer
          BY <4>1
        <5> HIDE DEF longer
        <5> QED
          BY <5>1, <5>2, <5>3
      <4>3. /\ fails[p] <= n
            /\ \A i \in (n - fails[p] + 1)..n : ~outcomes[p][i]
            /\ fails[p] < n => outcomes[p][n - fails[p]]
        BY DEF BreakerInv, CountsFailures
      <4>4. CountsFailures(p)'
        BY <3>1, <4>1, <4>2, <4>3 DEF CountsFailures
      <4>5. Resolved(p)'
        BY <3>1, <4>1, <4>2 DEF BreakerInv, Resolved, Middle
      <4>6. fails'[p] >= Threshold => pc'[p] = "ended"
        BY <3>1, <4>1, ThresholdPositive DEF Opens
      <4> QED
        BY <3>2, <4>4, <4>5, <4>6
    <3>3. CASE q # p
      <4>1. /\ outcomes'[q] = outcomes[q] /\ fails'[q] = fails[q]
            /\ taken'[q] = taken[q] /\ pc'[q] = pc[q]
        BY <2>15, <3>3 DEF Complete, TypeOK
      <4> QED
        BY <4>1 DEF BreakerInv, CountsFailures, Resolved
    <3> QED
      BY <3>2, <3>3
  <2>16. ASSUME NEW p \in Procs, Fail(p) PROVE BreakerInv'
    <3> SUFFICES ASSUME NEW q \in Procs
                 PROVE  /\ CountsFailures(q)'
                        /\ Resolved(q)'
                        /\ fails'[q] >= Threshold => pc'[q] = "ended"
      BY DEF BreakerInv
    <3> DEFINE n == Len(outcomes[p])
    <3>1. outcomes[p] \in Seq(BOOLEAN) /\ n \in Nat /\ fails[p] \in Nat /\ pc[p] \in Middle
      BY <2>16 DEF Fail, TypeOK, Middle, Label
    <3>2. CASE q = p
      <4>1. /\ outcomes'[p] = Append(outcomes[p], FALSE)
            /\ fails'[p] = fails[p] + 1
            /\ taken'[p] = taken[p]
            /\ pc'[p] = IF Opens(p) THEN "ended" ELSE "loop"
        BY <2>16 DEF Fail, TypeOK
      <4>2. /\ Len(outcomes'[p]) = n + 1
            /\ \A i \in 1..n : outcomes'[p][i] = outcomes[p][i]
            /\ ~outcomes'[p][n + 1]
        <5>1. /\ Len(Append(outcomes[p], FALSE)) = n + 1
              /\ \A i \in 1..n : Append(outcomes[p], FALSE)[i] = outcomes[p][i]
              /\ ~Append(outcomes[p], FALSE)[n + 1]
          BY <3>1, Appended
        <5> QED
          BY <4>1, <5>1
      <4>3. /\ fails[p] <= n
            /\ \A i \in (n - fails[p] + 1)..n : ~outcomes[p][i]
            /\ fails[p] < n => outcomes[p][n - fails[p]]
        BY DEF BreakerInv, CountsFailures
      <4>4. CountsFailures(p)'
        <5> DEFINE longer == Append(outcomes[p], FALSE)
        <5>1. outcomes'[p] = longer /\ fails'[p] = fails[p] + 1
          BY <4>1
        <5>2. /\ fails[p] + 1 <= Len(longer)
              /\ \A k \in (Len(longer) - (fails[p] + 1) + 1)..Len(longer) : ~longer[k]
              /\ fails[p] + 1 < Len(longer) => longer[Len(longer) - (fails[p] + 1)]
          BY <3>1, <4>3, OneMoreFailure
        <5> HIDE DEF longer
        <5> QED
          BY <5>1, <5>2, Zenon DEF CountsFailures
      <4>5. Resolved(p)'
        BY <3>1, <4>1, <4>2 DEF BreakerInv, Resolved, Middle
      <4>6. fails'[p] >= Threshold => pc'[p] = "ended"
        BY <3>1, <4>1, ThresholdPositive DEF Opens
      <4> QED
        BY <3>2, <4>4, <4>5, <4>6
    <3>3. CASE q # p
      <4>1. /\ outcomes'[q] = outcomes[q] /\ fails'[q] = fails[q]
            /\ taken'[q] = taken[q] /\ pc'[q] = pc[q]
        BY <2>16, <3>3 DEF Fail, TypeOK
      <4> QED
        BY <4>1 DEF BreakerInv, CountsFailures, Resolved
    <3> QED
      BY <3>2, <3>3
  <2>17. ASSUME NEW p \in Procs, Crash(p) PROVE BreakerInv'
    BY <2>17, BreakerRests DEF Crash
  <2>18. CASE Expire
    BY <2>18, BreakerRests DEF Expire
  <2>19. CASE UNCHANGED vars
    BY <2>19, BreakerRests DEF vars
  <2> QED
    BY <2>1, <2>2, <2>3, <2>4, <2>5, <2>6, <2>7, <2>8, <2>9, <2>10, <2>11, <2>12, <2>13, <2>14, <2>15, <2>16, <2>17, <2>18, <2>19 DEF Next, Step
<1>3. TypeOK /\ BreakerInv => CircuitHolds
  BY BreakerHolds
<1> QED
  BY <1>1, <1>2, <1>3, TypeCorrect, PTL DEF Spec

\* What refuses a request stops it, for any number of processes and items.
THEOREM RefusalsAreBinding == Spec => []RefusalsBind
BY RequestsAnnounced, CircuitsHold, PTL DEF RefusalsBind

=============================================================================
