----------------------- MODULE PermitLifecycleProofs -----------------------
(***************************************************************************)
(* The safety of PermitLifecycle for any number of processes and permits.  *)
(***************************************************************************)
EXTENDS PermitLifecycle, TLAPS

USE DEF Free, MayClaim, MayRevoke, Refuse, LatestStatus

\* Somebody's command exists, so the default one is a command.
LEMMA NoCommandType == NoCommand \in Commands
<1>1. PICK p \in Permits : TRUE
  BY PermitsAssumption
<1>2. [permit |-> p, bound |-> TRUE] \in Commands
  BY DEF Commands
<1> QED
  BY <1>2 DEF NoCommand

\* The tail of a log of records is a sequence number and a hash.
LEMMA LastOfType ==
  ASSUME NEW records \in Seq(AuditRecord)
  PROVE  LastOf(records) \in [sequence : Nat, hash : Hash]
<1>1. CASE records = << >>
  BY <1>1 DEF LastOf, Hash, GENESIS_HASH
<1>2. CASE records # << >>
  <2>1. records[Len(records)] \in AuditRecord
    BY <1>2
  <2>2. RecordHash(records[Len(records)]) \in Hash
    BY <2>1 DEF AuditRecord, Hash, RecordHash
  <2> QED
    BY <1>2, <2>1, <2>2 DEF LastOf, AuditRecord, Content
<1> QED
  BY <1>1, <1>2

\* Exiting leaves the process with well-typed locals.
LEMMA ExitType ==
  ASSUME TypeOK, NEW i \in Procs, Exit(i)
  PROVE  /\ pc' \in [Procs -> Steps]
         /\ cmd' \in [Procs -> Commands]
         /\ snapshot' \in [Procs -> PermitState]
         /\ tail' \in [Procs -> [sequence : Nat, hash : Hash]]
         /\ outcome' \in [Procs -> Outcomes]
BY NoCommandType DEF TypeOK, Exit, Steps, NewStore, PermitState,
   PermitLifecycleStatus, NoTail, Hash, GENESIS_HASH, NoOutcome, Outcomes, Events

\* Concluding a command leaves its step and its outcome well typed.
LEMMA ConcludeType ==
  ASSUME TypeOK, NEW i \in Procs, NEW event \in Events,
         NEW status \in PermitLifecycleStatus,
         NEW by \in {"peek", "verify", "claim"},
         Conclude(i, event, status, by)
  PROVE  pc' \in [Procs -> Steps] /\ outcome' \in [Procs -> Outcomes]
<1>1. [event |-> event, status |-> status, by |-> by] \in Outcomes
  BY DEF Outcomes
<1> QED
  BY <1>1 DEF TypeOK, Conclude, Steps

\* The status of one permit is a status.
LEMMA StatusType ==
  ASSUME TypeOK, NEW i \in Procs
  PROVE  store[MyPermit(i)] \in PermitLifecycleStatus
BY DEF TypeOK, MyPermit, PermitState, Commands

\* Every reachable state is well typed.
THEOREM TypeCorrect == Spec => []TypeOK
<1>1. Init => TypeOK
  BY NoCommandType DEF Init, TypeOK, Steps, NewStore, PermitState,
     PermitLifecycleStatus, NoTail, Hash, GENESIS_HASH, NoOutcome, Outcomes,
     Events, AuditRecord
<1>2. TypeOK /\ [Next]_vars => TypeOK'
  <2> SUFFICES ASSUME TypeOK, [Next]_vars PROVE TypeOK'
    OBVIOUS
  <2>1. CASE Tick
    BY <2>1 DEF TypeOK, Tick
  <2>2. ASSUME NEW i \in Procs, Start(i) PROVE TypeOK'
    BY <2>2 DEF TypeOK, Start, Goto, Steps
  <2>3. ASSUME NEW i \in Procs, Peek(i) PROVE TypeOK'
    <3>1. CASE store[MyPermit(i)] = "available"
      BY <2>3, <3>1 DEF TypeOK, Peek, Goto, Steps
    <3>2. CASE store[MyPermit(i)] # "available"
      <4>1. Conclude(i, "permit.consume_rejected", store[MyPermit(i)], "peek")
        BY <2>3, <3>2 DEF Peek
      <4> QED
        BY <2>3, <4>1, ConcludeType, StatusType DEF TypeOK, Peek, Events
    <3> QED
      BY <3>1, <3>2
  <2>4. ASSUME NEW i \in Procs, Verify(i) PROVE TypeOK'
    <3>1. CASE cmd[i].bound /\ clock < Expiry[MyPermit(i)]
      BY <2>4, <3>1 DEF TypeOK, Verify, Goto, Steps
    <3>2. CASE ~ (cmd[i].bound /\ clock < Expiry[MyPermit(i)])
      <4>1. Conclude(i, "permit.consume_rejected", "available", "verify")
        BY <2>4, <3>2 DEF Verify
      <4> QED
        BY <2>4, <4>1, ConcludeType
           DEF TypeOK, Verify, Events, PermitLifecycleStatus
    <3> QED
      BY <3>1, <3>2
  <2>5. ASSUME NEW i \in Procs, LockState(i) PROVE TypeOK'
    BY <2>5 DEF TypeOK, LockState, Goto, Steps
  <2>6. ASSUME NEW i \in Procs, Claim(i) PROVE TypeOK'
    BY <2>6 DEF TypeOK, Claim, Conclude, MyPermit, Steps, Outcomes, Events,
       PermitState, PermitLifecycleStatus, Commands
  <2>7. ASSUME NEW i \in Procs, ClaimRefused(i) PROVE TypeOK'
    BY <2>7 DEF TypeOK, ClaimRefused, Goto, Steps
  <2>8. ASSUME NEW i \in Procs, ReadLatest(i) PROVE TypeOK'
    BY <2>8 DEF TypeOK, ReadLatest, Conclude, MyPermit, Steps, Outcomes, Events,
       PermitState, Commands
  <2>9. ASSUME NEW i \in Procs, Revoke(i) PROVE TypeOK'
    BY <2>9 DEF TypeOK, Revoke, Conclude, MyPermit, Steps, Outcomes, Events,
       PermitState, PermitLifecycleStatus, Commands
  <2>10. ASSUME NEW i \in Procs, RevokeRefused(i) PROVE TypeOK'
    BY <2>10, ExitType DEF TypeOK, RevokeRefused
  <2>11. ASSUME NEW i \in Procs, LockAudit(i) PROVE TypeOK'
    <3>1. LastOf(audit) \in [sequence : Nat, hash : Hash]
      BY LastOfType DEF TypeOK
    <3> QED
      BY <2>11, <3>1 DEF TypeOK, LockAudit, Goto, Steps
  <2>12. ASSUME NEW i \in Procs, AppendAudit(i) PROVE TypeOK'
    <3>1. NewRecord(i) \in AuditRecord
      BY DEF TypeOK, NewRecord, AuditRecord, Content, MyPermit, Commands
    <3> QED
      BY <2>12, <3>1, ExitType DEF TypeOK, AppendAudit
  <2>13. ASSUME NEW i \in Procs, Crash(i) PROVE TypeOK'
    BY <2>13, ExitType DEF TypeOK, Crash
  <2>14. CASE UNCHANGED vars
    BY <2>14 DEF TypeOK, vars
  <2> QED
    BY <2>1, <2>2, <2>3, <2>4, <2>5, <2>6, <2>7, <2>8, <2>9, <2>10, <2>11,
       <2>12, <2>13, <2>14 DEF Next, Step
<1> QED
  BY <1>1, <1>2, PTL DEF Spec

-----------------------------------------------------------------------------
(***************************************************************************)
(* The locks work: whoever is about to write a file holds its lock, and    *)
(* what it loaded is still what the file says.                             *)
(***************************************************************************)
Guarded ==
  \A i \in Procs :
    /\ pc[i] \in {"claim", "revoke"} => stateLock = i /\ snapshot[i] = store
    /\ pc[i] = "append" => auditLock = i /\ tail[i] = LastOf(audit)

\* A step writes the state file in a claim or a revocation only.
LEMMA StoreStep ==
  ASSUME [Next]_vars
  PROVE  \/ UNCHANGED <<store, grants>>
         \/ \E i \in Procs : Claim(i) \/ Revoke(i)
BY DEF Next, vars, Step, Tick, Start, Peek, Verify, LockState, ClaimRefused,
   ReadLatest, RevokeRefused, LockAudit, AppendAudit, Crash

\* A step writes the audit file in an append only.
LEMMA AuditStep ==
  ASSUME [Next]_vars
  PROVE  UNCHANGED audit \/ \E i \in Procs : AppendAudit(i)
BY DEF Next, vars, Step, Tick, Start, Peek, Verify, LockState, Claim,
   ClaimRefused, ReadLatest, Revoke, RevokeRefused, LockAudit, Crash

\* The locks exclude: every reachable state is Guarded.
THEOREM LocksExclude == Spec => []Guarded
<1>1. Init => Guarded
  BY DEF Init, Guarded
<1>2. TypeOK /\ Guarded /\ [Next]_vars => Guarded'
  <2> SUFFICES ASSUME TypeOK, Guarded, [Next]_vars PROVE Guarded'
    OBVIOUS
  <2> USE NoProcAssumption
  <2>1. CASE Tick
    BY <2>1 DEF Guarded, Tick
  <2>2. ASSUME NEW i \in Procs, Start(i) PROVE Guarded'
    BY <2>2 DEF TypeOK, Guarded, Start, Goto
  <2>3. ASSUME NEW i \in Procs, Peek(i) PROVE Guarded'
    BY <2>3 DEF TypeOK, Guarded, Peek, Goto, Conclude
  <2>4. ASSUME NEW i \in Procs, Verify(i) PROVE Guarded'
    BY <2>4 DEF TypeOK, Guarded, Verify, Goto, Conclude
  <2>5. ASSUME NEW i \in Procs, LockState(i) PROVE Guarded'
    BY <2>5 DEF TypeOK, Guarded, LockState, Goto
  <2>6. ASSUME NEW i \in Procs, Claim(i) PROVE Guarded'
    BY <2>6 DEF TypeOK, Guarded, Claim, Conclude
  <2>7. ASSUME NEW i \in Procs, ClaimRefused(i) PROVE Guarded'
    BY <2>7 DEF TypeOK, Guarded, ClaimRefused, Goto
  <2>8. ASSUME NEW i \in Procs, ReadLatest(i) PROVE Guarded'
    BY <2>8 DEF TypeOK, Guarded, ReadLatest, Conclude
  <2>9. ASSUME NEW i \in Procs, Revoke(i) PROVE Guarded'
    BY <2>9 DEF TypeOK, Guarded, Revoke, Conclude
  <2>10. ASSUME NEW i \in Procs, RevokeRefused(i) PROVE Guarded'
    BY <2>10 DEF TypeOK, Guarded, RevokeRefused, Exit
  <2>11. ASSUME NEW i \in Procs, LockAudit(i) PROVE Guarded'
    BY <2>11 DEF TypeOK, Guarded, LockAudit, Goto
  <2>12. ASSUME NEW i \in Procs, AppendAudit(i) PROVE Guarded'
    BY <2>12 DEF TypeOK, Guarded, AppendAudit, Exit
  <2>13. ASSUME NEW i \in Procs, Crash(i) PROVE Guarded'
    BY <2>13 DEF TypeOK, Guarded, Crash, Exit
  <2>14. CASE UNCHANGED vars
    BY <2>14 DEF Guarded, vars
  <2> QED
    BY <2>1, <2>2, <2>3, <2>4, <2>5, <2>6, <2>7, <2>8, <2>9, <2>10, <2>11,
       <2>12, <2>13, <2>14 DEF Next, Step
<1> QED
  BY <1>1, <1>2, TypeCorrect, PTL DEF Spec

\* A permit is granted to at most one caller, and to none once revoked
\* (consume_execution_permit against revoke_permit).
THEOREM OneGrant == Spec => []GrantedOnce
<1>1. Init => GrantedOnce
  BY DEF Init, GrantedOnce, NewStore
<1>2. TypeOK /\ Guarded /\ GrantedOnce /\ [Next]_vars => GrantedOnce'
  <2> SUFFICES ASSUME TypeOK, Guarded, GrantedOnce, [Next]_vars
               PROVE  GrantedOnce'
    OBVIOUS
  <2>1. CASE UNCHANGED <<store, grants>>
    BY <2>1 DEF GrantedOnce
  <2>2. ASSUME NEW i \in Procs, Claim(i) PROVE GrantedOnce'
    BY <2>2 DEF TypeOK, Guarded, GrantedOnce, Claim, PermitState
  <2>3. ASSUME NEW i \in Procs, Revoke(i) PROVE GrantedOnce'
    BY <2>3 DEF TypeOK, Guarded, GrantedOnce, Revoke, PermitState
  <2> QED
    BY <2>1, <2>2, <2>3, StoreStep
<1> QED
  BY <1>1, <1>2, TypeCorrect, LocksExclude, PTL DEF Spec

\* The store behaves as the one-shot permit, whatever the processes do.
THEOREM RefinesOneShot == Spec => ImplementsOneShot
<1>1. Init => OneShot!Init
  BY DEF Init, OneShot!Init, NewStore
<1>2. TypeOK /\ Guarded /\ [Next]_vars => [OneShot!Next]_OneShot!vars
  <2> SUFFICES ASSUME TypeOK, Guarded, [Next]_vars
               PROVE  [OneShot!Next]_OneShot!vars
    OBVIOUS
  <2>1. CASE UNCHANGED <<store, grants>>
    BY <2>1 DEF OneShot!vars
  <2>2. ASSUME NEW i \in Procs, Claim(i) PROVE OneShot!Grant(MyPermit(i))
    BY <2>2 DEF TypeOK, Guarded, Claim, OneShot!Grant
  <2>3. ASSUME NEW i \in Procs, Revoke(i) PROVE OneShot!Revoke(MyPermit(i))
    BY <2>3 DEF TypeOK, Guarded, Revoke, OneShot!Revoke
  <2>4. \A i \in Procs : MyPermit(i) \in Permits
    BY DEF TypeOK, MyPermit, Commands
  <2> QED
    BY <2>1, <2>2, <2>3, <2>4, StoreStep DEF OneShot!Next
<1> QED
  BY <1>1, <1>2, TypeCorrect, LocksExclude, PTL
     DEF Spec, ImplementsOneShot, OneShot!Spec

\* verify-audit accepts every reachable log: concurrent appenders and crashes
\* between load and append never fork the chain (append_audit_event).
THEOREM AuditChain == Spec => []AuditChainValid
<1>1. Init => AuditChainValid
  BY DEF Init, AuditChainValid, VerifyAuditChain
<1>2. TypeOK /\ Guarded /\ AuditChainValid /\ [Next]_vars => AuditChainValid'
  <2> SUFFICES ASSUME TypeOK, Guarded, AuditChainValid, [Next]_vars
               PROVE  AuditChainValid'
    OBVIOUS
  <2>1. CASE UNCHANGED audit
    BY <2>1 DEF AuditChainValid, VerifyAuditChain
  <2>2. ASSUME NEW i \in Procs, AppendAudit(i) PROVE AuditChainValid'
    <3> DEFINE n == Len(audit)
    <3>1. n \in Nat /\ audit \in Seq(AuditRecord)
      BY DEF TypeOK
    <3>2. audit' = Append(audit, NewRecord(i))
      BY <2>2 DEF AppendAudit
    <3>3. tail[i] = LastOf(audit)
      BY <2>2 DEF Guarded, AppendAudit
    <3>4. n = 0 <=> audit = << >>
      BY <3>1
    <3>5. n > 0 => audit[n].content.sequence = n
      BY <3>1 DEF AuditChainValid, VerifyAuditChain
    <3>6. /\ NewRecord(i).content.sequence = n + 1
          /\ NewRecord(i).previous =
               IF n = 0 THEN GENESIS_HASH ELSE RecordHash(audit[n])
      BY <3>1, <3>3, <3>4, <3>5 DEF NewRecord, LastOf
    <3> HIDE DEF n
    <3>7. /\ Len(audit') = n + 1
          /\ \A k \in 1 .. n : audit'[k] = audit[k]
          /\ audit'[n + 1] = NewRecord(i)
      BY <3>1, <3>2 DEF n
    <3>8. ASSUME NEW k \in 1 .. (n + 1)
          PROVE  /\ audit'[k].content.sequence = k
                 /\ audit'[k].previous =
                      IF k = 1 THEN GENESIS_HASH ELSE RecordHash(audit'[k - 1])
      <4>1. CASE k = n + 1
        BY <3>1, <3>6, <3>7, <4>1 DEF n
      <4>2. CASE k \in 1 .. n
        <5>1. k # 1 => k - 1 \in 1 .. n
          BY <3>1, <4>2
        <5> QED
          BY <3>7, <4>2, <5>1 DEF AuditChainValid, VerifyAuditChain, n
      <4> QED
        BY <3>1, <4>1, <4>2
    <3> QED
      BY <3>7, <3>8 DEF AuditChainValid, VerifyAuditChain
  <2> QED
    BY <2>1, <2>2, AuditStep
<1> QED
  BY <1>1, <1>2, TypeCorrect, LocksExclude, PTL DEF Spec

-----------------------------------------------------------------------------
(***************************************************************************)
(* The log against the store.  The record of a command is written later    *)
(* than its effect: until then the command is known to report something    *)
(* that is true, stays true, and that no other record or command reports.  *)
(***************************************************************************)
Reports(i, p, event) ==
  pc[i] \in {"audit", "append"} /\ cmd[i].permit = p /\ outcome[i].event = event

Truthful ==
  \A i \in Procs, p \in Permits :
    /\ Reports(i, p, "permit.consumed") =>
         /\ store[p] = "consumed"
         /\ Recorded(p, "permit.consumed") = {}
         /\ \A j \in Procs : Reports(j, p, "permit.consumed") => j = i
    /\ Reports(i, p, "permit.revoked") => store[p] = "revoked"
    /\ Reports(i, p, "permit.consume_rejected") /\ outcome[i].by = "claim"
         => outcome[i].status # "available"
    /\ pc[i] = "latest" => store[MyPermit(i)] # "available"

LogInv == Truthful /\ AuditConsistent /\ LostRaceExplained

\* The log never contradicts the store or itself, and a lost race is always
\* explained by the status that won it.
THEOREM LogIsTruthful == Spec => [](AuditConsistent /\ LostRaceExplained)
<1>1. Init => LogInv
  BY DEF Init, LogInv, Truthful, AuditConsistent, LostRaceExplained, Recorded,
     Reports
<1>2. TypeOK /\ Guarded /\ LogInv /\ [Next]_vars => LogInv'
  <2> SUFFICES ASSUME TypeOK, Guarded, LogInv, [Next]_vars
               PROVE  LogInv'
    OBVIOUS
  <2>1. CASE Tick
    BY <2>1 DEF LogInv, Truthful, AuditConsistent, LostRaceExplained, Recorded,
       Reports, MyPermit, Tick
  <2>2. ASSUME NEW i \in Procs, Start(i) PROVE LogInv'
    BY <2>2 DEF TypeOK, Guarded, GrantedOnce, LogInv, Truthful, AuditConsistent,
       LostRaceExplained, Recorded, Reports, MyPermit, Start, Goto
  <2>3. ASSUME NEW i \in Procs, Peek(i) PROVE LogInv'
    <3>1. AuditConsistent' /\ LostRaceExplained'
      BY <2>3 DEF LogInv, AuditConsistent, LostRaceExplained, Recorded, Peek
    <3>2. Truthful'
      <4>1. /\ UNCHANGED <<store, audit, cmd>>
            /\ \A j \in Procs : j # i => pc'[j] = pc[j] /\ outcome'[j] = outcome[j]
        BY <2>3 DEF TypeOK, Peek, Goto, Conclude
      <4>2. \/ pc'[i] = "verify"
            \/ /\ pc'[i] = "audit"
               /\ outcome'[i].event = "permit.consume_rejected" /\ outcome'[i].by = "peek"
        BY <2>3 DEF TypeOK, Peek, Goto, Conclude
      <4> QED
        BY <4>1, <4>2 DEF LogInv, Truthful, Recorded, Reports, MyPermit
    <3> QED
      BY <3>1, <3>2 DEF LogInv
  <2>4. ASSUME NEW i \in Procs, Verify(i) PROVE LogInv'
    BY <2>4 DEF TypeOK, Guarded, GrantedOnce, LogInv, Truthful, AuditConsistent,
       LostRaceExplained, Recorded, Reports, MyPermit, Verify, Goto, Conclude
  <2>5. ASSUME NEW i \in Procs, LockState(i) PROVE LogInv'
    BY <2>5 DEF TypeOK, Guarded, GrantedOnce, LogInv, Truthful, AuditConsistent,
       LostRaceExplained, Recorded, Reports, MyPermit, LockState, Goto
  <2>6. ASSUME NEW i \in Procs, Claim(i) PROVE LogInv'
    BY <2>6 DEF TypeOK, Guarded, GrantedOnce, LogInv, Truthful, AuditConsistent,
       LostRaceExplained, Recorded, Reports, MyPermit, Claim, Conclude, PermitState
  <2>7. ASSUME NEW i \in Procs, ClaimRefused(i) PROVE LogInv'
    BY <2>7 DEF TypeOK, Guarded, GrantedOnce, LogInv, Truthful, AuditConsistent,
       LostRaceExplained, Recorded, Reports, MyPermit, ClaimRefused, Goto
  <2>8. ASSUME NEW i \in Procs, ReadLatest(i) PROVE LogInv'
    BY <2>8 DEF TypeOK, Guarded, GrantedOnce, LogInv, Truthful, AuditConsistent,
       LostRaceExplained, Recorded, Reports, MyPermit, ReadLatest, Conclude
  <2>9. ASSUME NEW i \in Procs, Revoke(i) PROVE LogInv'
    BY <2>9 DEF TypeOK, Guarded, GrantedOnce, LogInv, Truthful, AuditConsistent,
       LostRaceExplained, Recorded, Reports, MyPermit, Revoke, Conclude, PermitState
  <2>10. ASSUME NEW i \in Procs, RevokeRefused(i) PROVE LogInv'
    BY <2>10 DEF TypeOK, Guarded, GrantedOnce, LogInv, Truthful, AuditConsistent,
       LostRaceExplained, Recorded, Reports, MyPermit, RevokeRefused, Exit, NoOutcome
  <2>11. ASSUME NEW i \in Procs, LockAudit(i) PROVE LogInv'
    BY <2>11 DEF TypeOK, Guarded, GrantedOnce, LogInv, Truthful, AuditConsistent,
       LostRaceExplained, Recorded, Reports, MyPermit, LockAudit, Goto
  <2>12. ASSUME NEW i \in Procs, AppendAudit(i) PROVE LogInv'
    <3> DEFINE n == Len(audit)
               new == NewRecord(i).content
    <3>1. /\ n \in Nat
          /\ Len(audit') = n + 1
          /\ \A k \in 1 .. n : audit'[k] = audit[k]
          /\ audit'[n + 1].content = new
      BY <2>12 DEF TypeOK, AppendAudit
    <3>2. new.permit = cmd[i].permit /\ new.outcome = outcome[i]
      BY DEF NewRecord, MyPermit
    <3> HIDE DEF new, n
    <3>3. ASSUME NEW p \in Permits, NEW event
          PROVE  Recorded(p, event)' =
                   Recorded(p, event) \cup
                     (IF Reports(i, p, event) THEN {n + 1} ELSE {})
      BY <2>12, <3>1, <3>2 DEF Recorded, Reports, AppendAudit, n
    <3>4. \A j \in Procs, p \in Permits, event \in Events :
             Reports(j, p, event)' => j # i /\ Reports(j, p, event)
      BY <2>12 DEF TypeOK, Reports, AppendAudit, Exit
    <3>5. Truthful'
      BY <2>12, <3>3, <3>4
         DEF TypeOK, LogInv, Truthful, Reports, MyPermit, AppendAudit, Exit, Events
    <3>6. AuditConsistent'
      BY <2>12, <3>3 DEF LogInv, Truthful, AuditConsistent, AppendAudit, Events
    <3>7. LostRaceExplained'
      BY <2>12, <3>1, <3>2
         DEF TypeOK, LogInv, Truthful, LostRaceExplained, Reports, Commands,
             AppendAudit, n
    <3> QED
      BY <3>5, <3>6, <3>7 DEF LogInv
  <2>13. ASSUME NEW i \in Procs, Crash(i) PROVE LogInv'
    BY <2>13 DEF TypeOK, Guarded, GrantedOnce, LogInv, Truthful, AuditConsistent,
       LostRaceExplained, Recorded, Reports, MyPermit, Crash, Exit
  <2>14. CASE UNCHANGED vars
    BY <2>14 DEF LogInv, Truthful, AuditConsistent, LostRaceExplained, Recorded,
       Reports, MyPermit, vars
  <2> QED
    BY <2>1, <2>2, <2>3, <2>4, <2>5, <2>6, <2>7, <2>8, <2>9, <2>10, <2>11,
       <2>12, <2>13, <2>14 DEF Next, Step
<1> QED
  BY <1>1, <1>2, TypeCorrect, LocksExclude, PTL DEF Spec, LogInv

\* A command that lost the race for a permit reports a status that explains it
\* (consume_execution_permit reads it again after the refused claim).
THEOREM LosersAreTold == Spec => []LostRaceExplained
BY LogIsTruthful, PTL

\* The audit log verifies, and never contradicts the store, in every reachable
\* state (append_audit_event, consume_permit_command).
THEOREM AuditTrailHolds == Spec => []AuditTrail
<1>1. AuditChainValid /\ AuditConsistent => AuditTrail
  BY DEF AuditTrail
<1> QED
  BY <1>1, AuditChain, LogIsTruthful, PTL

=============================================================================
