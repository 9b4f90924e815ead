-------------------------- MODULE PermitLifecycle --------------------------
(***************************************************************************)
(* The JSON permit store and the hash-linked audit log (lifecycle.py), as  *)
(* the CLI commands consume-permit and revoke-permit (cli.py) drive them.  *)
(* Each process runs one command after another; a command is a sequence of *)
(* steps between which other processes run, the clock moves, and the       *)
(* process may die.  A whole-file read or an os.replace is one step.       *)
(*                                                                         *)
(* Both files have a lock file held with flock: it blocks, and the kernel  *)
(* drops it when the holder dies.                                          *)
(***************************************************************************)
EXTENDS Naturals, Sequences

CONSTANTS
  Permits, Procs,
  NoProc,       \* the holder of a free lock
  Expiry,       \* [Permits -> Nat]: payload.expires_at
  MaxClock,     \* bound on the clock
  MaxAudit      \* bound on the audit records, hence on the commands run

ASSUME NoProcAssumption == NoProc \notin Procs
ASSUME PermitsAssumption == Permits # {} /\ Expiry \in [Permits -> Nat]
ASSUME BoundsAssumption == MaxClock \in Nat /\ MaxAudit \in Nat

VARIABLES
  clock,
  store,       \* the permit-state file: the status of every permit
  stateLock,   \* the process that holds the flock of the state file
  auditLock,   \* the process that holds the flock of the audit file
  audit,       \* the audit file
  pc,
  cmd,         \* the command a process runs: its permit, and whether the
               \* request matches what the permit was signed for
  snapshot,    \* the state file as the lock holder loaded it
  tail,        \* sequence and record_hash of the last record, as loaded
  outcome,     \* what the command is about to audit
  grants       \* history: successful consumptions of a permit

vars == <<clock, store, stateLock, auditLock, audit, pc, cmd, snapshot,
          tail, outcome, grants>>

-----------------------------------------------------------------------------

PermitLifecycleStatus == {"available", "consumed", "revoked"}
Events == {"permit.consumed", "permit.consume_rejected", "permit.revoked"}

PermitState == [Permits -> PermitLifecycleStatus]
Commands == [permit : Permits, bound : BOOLEAN]

\* What is audited of a command: the event, the lifecycle status, and the
\* step that decided (the message).
Outcomes == [event : Events, status : PermitLifecycleStatus,
             by : {"peek", "verify", "claim"}]

(***************************************************************************)
(* The hash of a record is determined by, and (collisions aside)           *)
(* determines, the content of the record and its previous_hash, hence the  *)
(* contents of all records up to it: it is modelled by that sequence.      *)
(***************************************************************************)
Content == [sequence : Nat, permit : Permits, outcome : Outcomes]
Hash == Seq(Content)
AuditRecord == [content : Content, previous : Hash]
GENESIS_HASH == << >>

RecordHash(record) == Append(record.previous, record.content)

LastOf(records) ==
  IF records = << >>
    THEN [sequence |-> 0, hash |-> GENESIS_HASH]
    ELSE [sequence |-> records[Len(records)].content.sequence,
          hash |-> RecordHash(records[Len(records)])]

VerifyAuditChain(records) ==
  \A i \in 1 .. Len(records) :
    /\ records[i].content.sequence = i
    /\ records[i].previous =
         IF i = 1 THEN GENESIS_HASH ELSE RecordHash(records[i - 1])

-----------------------------------------------------------------------------

NoCommand == CHOOSE c \in Commands : TRUE
NoOutcome == [event |-> "permit.revoked", status |-> "available", by |-> "peek"]
NoTail == [sequence |-> 0, hash |-> GENESIS_HASH]
NewStore == [p \in Permits |-> "available"]

Init ==
  /\ clock = 0
  /\ store = NewStore
  /\ stateLock = NoProc
  /\ auditLock = NoProc
  /\ audit = << >>
  /\ pc = [i \in Procs |-> "idle"]
  /\ cmd = [i \in Procs |-> NoCommand]
  /\ snapshot = [i \in Procs |-> NewStore]
  /\ tail = [i \in Procs |-> NoTail]
  /\ outcome = [i \in Procs |-> NoOutcome]
  /\ grants = [p \in Permits |-> 0]

\* The process exits, or is killed: nothing of it is left but the files.
Exit(i) ==
  /\ pc' = [pc EXCEPT ![i] = "idle"]
  /\ cmd' = [cmd EXCEPT ![i] = NoCommand]
  /\ snapshot' = [snapshot EXCEPT ![i] = NewStore]
  /\ tail' = [tail EXCEPT ![i] = NoTail]
  /\ outcome' = [outcome EXCEPT ![i] = NoOutcome]

\* The command goes on to its audit record.
Conclude(i, event, status, by) ==
  /\ outcome' = [outcome EXCEPT ![i] =
                   [event |-> event, status |-> status, by |-> by]]
  /\ pc' = [pc EXCEPT ![i] = "audit"]

Goto(i, step) == pc' = [pc EXCEPT ![i] = step]

MyPermit(i) == cmd[i].permit

\* flock grants a lock that nobody holds.
Free_Always(lock) == TRUE
Free(lock) == lock = NoProc

\* What _consume_state and revoke_permit check of the state they loaded.
MayClaim_Unchecked(i) == TRUE
MayClaim(i) == snapshot[i][MyPermit(i)] = "available"

MayRevoke_Unchecked(i) == TRUE
MayRevoke(i) == snapshot[i][MyPermit(i)] # "consumed"

\* Leaving the lock's context manager by an exception.
Refuse_KeepsLock(i) == UNCHANGED stateLock
Refuse(i) == stateLock' = NoProc

Start(i) ==
  /\ pc[i] = "idle"
  /\ Len(audit) < MaxAudit
  /\ \E c \in Commands, step \in {"peek", "lock_revoke"} :
       cmd' = [cmd EXCEPT ![i] = c] /\ Goto(i, step)
  /\ UNCHANGED <<clock, store, stateLock, auditLock, audit, snapshot, tail,
                 outcome, grants>>

\* consume_execution_permit: the status is first read without the lock ...
Peek(i) ==
  /\ pc[i] = "peek"
  /\ IF store[MyPermit(i)] = "available"
       THEN Goto(i, "verify") /\ UNCHANGED outcome
       ELSE Conclude(i, "permit.consume_rejected", store[MyPermit(i)], "peek")
  /\ UNCHANGED <<clock, store, stateLock, auditLock, audit, cmd, snapshot,
                 tail, grants>>

\* ... the permit is verified against the request and the clock ...
Verify(i) ==
  /\ pc[i] = "verify"
  /\ IF cmd[i].bound /\ clock < Expiry[MyPermit(i)]
       THEN Goto(i, "lock_claim") /\ UNCHANGED outcome
       ELSE Conclude(i, "permit.consume_rejected", "available", "verify")
  /\ UNCHANGED <<clock, store, stateLock, auditLock, audit, cmd, snapshot,
                 tail, grants>>

\* ... and _consume_state decides again on what it loads under the lock.
LockState(i) ==
  /\ pc[i] \in {"lock_claim", "lock_revoke"}
  /\ Free(stateLock)
  /\ stateLock' = i
  /\ snapshot' = [snapshot EXCEPT ![i] = store]
  /\ Goto(i, IF pc[i] = "lock_claim" THEN "claim" ELSE "revoke")
  /\ UNCHANGED <<clock, store, auditLock, audit, cmd, tail, outcome, grants>>

Claim(i) ==
  /\ pc[i] = "claim"
  /\ MayClaim(i)
  /\ store' = [snapshot[i] EXCEPT ![MyPermit(i)] = "consumed"]
  /\ grants' = [grants EXCEPT ![MyPermit(i)] = @ + 1]
  /\ stateLock' = NoProc
  /\ Conclude(i, "permit.consumed", "consumed", "claim")
  /\ UNCHANGED <<clock, auditLock, audit, cmd, snapshot, tail>>

ClaimRefused(i) ==
  /\ pc[i] = "claim"
  /\ ~ MayClaim(i)
  /\ Refuse(i)
  /\ Goto(i, "latest")
  /\ UNCHANGED <<clock, store, auditLock, audit, cmd, snapshot, tail, outcome,
                 grants>>

\* The status reported after a refused claim is read again, without the lock.
LatestStatus_Default(i) == "available"
LatestStatus(i) == store[MyPermit(i)]

ReadLatest(i) ==
  /\ pc[i] = "latest"
  /\ Conclude(i, "permit.consume_rejected", LatestStatus(i), "claim")
  /\ UNCHANGED <<clock, store, stateLock, auditLock, audit, cmd, snapshot,
                 tail, grants>>

Revoke(i) ==
  /\ pc[i] = "revoke"
  /\ MayRevoke(i)
  /\ store' = [snapshot[i] EXCEPT ![MyPermit(i)] = "revoked"]
  /\ stateLock' = NoProc
  /\ Conclude(i, "permit.revoked", "revoked", "claim")
  /\ UNCHANGED <<clock, auditLock, audit, cmd, snapshot, tail, grants>>

\* A refused revocation ends the command: it leaves no audit record.
RevokeRefused(i) ==
  /\ pc[i] = "revoke"
  /\ ~ MayRevoke(i)
  /\ Refuse(i)
  /\ Exit(i)
  /\ UNCHANGED <<clock, store, auditLock, audit, grants>>

\* append_audit_event: the last record is read, the new one linked to it.
LockAudit(i) ==
  /\ pc[i] = "audit"
  /\ Free(auditLock)
  /\ auditLock' = i
  /\ tail' = [tail EXCEPT ![i] = LastOf(audit)]
  /\ Goto(i, "append")
  /\ UNCHANGED <<clock, store, stateLock, audit, cmd, snapshot, outcome, grants>>

NewRecord(i) ==
  [content  |-> [sequence |-> tail[i].sequence + 1, permit |-> MyPermit(i),
                 outcome |-> outcome[i]],
   previous |-> tail[i].hash]

AppendAudit(i) ==
  /\ pc[i] = "append"
  /\ audit' = Append(audit, NewRecord(i))
  /\ auditLock' = NoProc
  /\ Exit(i)
  /\ UNCHANGED <<clock, store, stateLock, grants>>

Crash(i) ==
  /\ pc[i] # "idle"
  /\ stateLock' = IF stateLock = i THEN NoProc ELSE stateLock
  /\ auditLock' = IF auditLock = i THEN NoProc ELSE auditLock
  /\ Exit(i)
  /\ UNCHANGED <<clock, store, audit, grants>>

Tick ==
  /\ clock < MaxClock
  /\ clock' = clock + 1
  /\ UNCHANGED <<store, stateLock, auditLock, audit, pc, cmd, snapshot, tail,
                 outcome, grants>>

Step(i) ==
  \/ Peek(i) \/ Verify(i) \/ LockState(i) \/ Claim(i) \/ ClaimRefused(i)
  \/ ReadLatest(i) \/ Revoke(i) \/ RevokeRefused(i)
  \/ LockAudit(i) \/ AppendAudit(i)

Next == Tick \/ \E i \in Procs : Start(i) \/ Step(i) \/ Crash(i)

\* A running process is scheduled for ever; nothing is assumed of who wins a
\* contended lock, of commands being started, or of the clock.
Spec == Init /\ [][Next]_vars /\ \A i \in Procs : WF_vars(Step(i))

-----------------------------------------------------------------------------
(***************************************************************************)
(* Properties                                                              *)
(***************************************************************************)

Steps == {"idle", "peek", "verify", "lock_claim", "claim", "latest",
          "lock_revoke", "revoke", "audit", "append"}

\* Every variable keeps its type.
TypeOK ==
  /\ clock \in Nat
  /\ store \in PermitState
  /\ stateLock \in Procs \cup {NoProc}
  /\ auditLock \in Procs \cup {NoProc}
  /\ audit \in Seq(AuditRecord)
  /\ pc \in [Procs -> Steps]
  /\ cmd \in [Procs -> Commands]
  /\ snapshot \in [Procs -> PermitState]
  /\ tail \in [Procs -> [sequence : Nat, hash : Hash]]
  /\ outcome \in [Procs -> Outcomes]
  /\ grants \in [Permits -> Nat]

\* However consumers and revokers interleave and die, a permit is granted to
\* at most one caller, and never to one when the file says it is revoked or
\* available (consume_execution_permit against revoke_permit).
GrantedOnce ==
  \A p \in Permits : grants[p] = IF store[p] = "consumed" THEN 1 ELSE 0

\* verify-audit accepts the log at every moment: two commands that append at
\* the same time, or one that dies between load and append, never fork or
\* skip the chain.
AuditChainValid == VerifyAuditChain(audit)

Recorded(p, event) ==
  {n \in 1 .. Len(audit) : /\ audit[n].content.permit = p
                           /\ audit[n].content.outcome.event = event}

\* The log never says of one permit both that it was consumed and that it was
\* revoked, nor that it was consumed twice, although the record is written in
\* another critical section than the change it reports.
AuditConsistent ==
  \A p \in Permits :
    /\ \A m, n \in Recorded(p, "permit.consumed") : m = n
    /\ Recorded(p, "permit.consumed") # {} => store[p] = "consumed"
    /\ Recorded(p, "permit.revoked") # {} => store[p] = "revoked"

\* The audit trail can be believed: whoever appends at the same time or dies
\* between a claim and its record, the chain verifies and what it says happened.
AuditTrail == AuditChainValid /\ AuditConsistent

\* A consumer that lost the race for a permit it had seen available reports
\* the status that beat it, although it reads it after leaving the lock.
LostRaceExplained ==
  \A n \in 1 .. Len(audit) :
    LET said == audit[n].content.outcome IN
    said.event = "permit.consume_rejected" /\ said.by = "claim"
      => said.status # "available"

\* The steps of every interleaving are those of the one-shot permit.
OneShot == INSTANCE OneShotPermit WITH status <- store
ImplementsOneShot == OneShot!Spec

\* A lock is never held for ever: its holder releases it, or dies and the
\* kernel does (flock); no command waits for one lock holding the other.
LocksReleased ==
  /\ stateLock # NoProc ~> stateLock = NoProc
  /\ auditLock # NoProc ~> auditLock = NoProc
=============================================================================
