------------------------- MODULE ObservationSession -------------------------
(***************************************************************************)
(* run-observation-session: processes that share one session id run the    *)
(* same queue under a common budget.  Each walks its queue item by item    *)
(* (run_controlled_queue), obtains a fresh permit, and makes one           *)
(* permit-gated request (observe_http) whose evidence goes to files, to    *)
(* the hash-linked manifest and to the audit log.  A process may die       *)
(* between any two steps, and a file operation may fail.                   *)
(*                                                                         *)
(* A permit is named by the process and the queue position it was issued   *)
(* for, and stands for the evidence of its request.  The evidence path is  *)
(* built from the session id and the queue id, so processes share it.      *)
(***************************************************************************)
EXTENDS Integers, Sequences, FiniteSets

CONSTANTS Procs,        \* the processes that run the session
          Length,       \* items in the queue
          OriginOf,     \* the origin of the target at each position
          MaxActions, MaxRequests, MaxErrors, MaxPerOrigin,
          Keepers,      \* the processes that keep the response body as an artifact
          NoProc, NoPermit, NoEntry

ASSUME ProcsAssumption == IsFiniteSet(Procs) /\ NoProc \notin Procs
ASSUME LengthAssumption == Length \in Nat
ASSUME OriginAssumption == DOMAIN OriginOf = 1..Length
ASSUME BudgetAssumption == MaxActions \in Nat \ {0} /\ MaxRequests \in Nat \ {0}
ASSUME ErrorsAssumption == MaxErrors \in Nat /\ MaxPerOrigin \in Nat \ {0}
ASSUME KeepersAssumption == Keepers \subseteq Procs
ASSUME SentinelAssumption == NoPermit \notin Procs \X (1..Length)

VARIABLES
  stale,      \* has the attestation of the program expired?
  ledger,     \* the session's row: [reserved, errors, completed]
  dead,       \* processes that died
  pc,         \* where each process is
  taken,      \* items each process has taken from its queue
  fails,      \* consecutive failures in its circuit breaker
  outcomes,   \* outcomes of its items: was it completed?
  broken,     \* did the transport of its current item fail?
  stage,      \* the artifact it is about to register
  entry,      \* the manifest entry it has prepared
  consumed,   \* permits the runtime database has consumed
  sent,       \* permits whose request was handed to the transport
  files,      \* what each evidence file holds
  lock,       \* who created the manifest's lock file
  manifest,   \* the evidence manifest
  audit       \* audit events: <<event, permit>>

control == <<dead, pc, taken, fails, outcomes, broken, stage, entry>>
store == <<consumed, sent, files, lock, manifest, audit>>
vars == <<stale, ledger, control, store>>
-----------------------------------------------------------------------------
Permit == Procs \X (1..Length)

Path == (1..Length) \X {"body", "record"}

Entry == [path : Path, holds : Permit \cup {NoPermit}, permit : Permit,
          sequence : Nat \ {0}, previous : Permit \X {"body", "record"} \cup {NoEntry}]

\* The permit of the item the process is at, and the file of one of its artifacts.
Current(p) == <<p, taken[p]>>

FileOf(p, kind) == <<taken[p], kind>>

\* What the hash of an entry stands for.
Hash(e) == <<e.permit, e.path[2]>>

Active(p) == p \notin dead

At(p, label) == Active(p) /\ pc[p] = label

Goto(p, label) == pc' = [pc EXCEPT ![p] = label]

Init ==
  /\ stale = FALSE
  /\ ledger = [reserved |-> 0, errors |-> 0, completed |-> 0]
  /\ dead = {}
  /\ pc = [p \in Procs |-> "loop"]
  /\ taken = [p \in Procs |-> 0]
  /\ fails = [p \in Procs |-> 0]
  /\ outcomes = [p \in Procs |-> <<>>]
  /\ broken = [p \in Procs |-> FALSE]
  /\ stage = [p \in Procs |-> "record"]
  /\ entry = [p \in Procs |-> NoEntry]
  /\ consumed = {} /\ sent = {}
  /\ files = [f \in Path |-> NoPermit]
  /\ lock = NoProc
  /\ manifest = <<>>
  /\ audit = {}
-----------------------------------------------------------------------------
(* run_controlled_queue: what an item must pass before it is executed.     *)

\* check_and_record_origin counts the items of its own run only.
OriginSpent(p, i) ==
  i <= Length /\ Cardinality({j \in 1..taken[p] : OriginOf[j] = OriginOf[i]}) >= MaxPerOrigin

BudgetSpent_Late == ledger.reserved > MaxActions \/ ledger.reserved > MaxRequests
BudgetSpent == ledger.reserved >= MaxActions \/ ledger.reserved >= MaxRequests

\* The guard, the origin budget or the ledger stops the session.
Stopped(p) ==
  LET i == taken[p] + 1 IN
  \/ i > Length
  \/ stale
  \/ OriginSpent(p, i)
  \/ BudgetSpent

Stop(p) ==
  /\ At(p, "loop") /\ Stopped(p)
  /\ Goto(p, "ended")
  /\ UNCHANGED <<stale, ledger, dead, taken, fails, outcomes, broken, stage, entry, store>>

\* reserve_action
Reserved ==
  [reserved |-> ledger.reserved + 1, errors |-> ledger.errors, completed |-> ledger.completed]

Reserve(p) ==
  /\ At(p, "loop") /\ ~Stopped(p)
  /\ ledger' = Reserved
  /\ taken' = [taken EXCEPT ![p] = @ + 1]
  /\ Goto(p, "permit")
  /\ UNCHANGED <<stale, dead, fails, outcomes, broken, stage, entry, store>>

\* The broker authorizes the item again: a stale attestation, or any other
\* change of context, makes it refuse.
Issue(p) ==
  /\ At(p, "permit")
  /\ \/ ~stale /\ Goto(p, "admit")
     \/ Goto(p, "fail")
  /\ UNCHANGED <<stale, ledger, dead, taken, fails, outcomes, broken, stage, entry, store>>
-----------------------------------------------------------------------------
(* observe_http                                                            *)

Accepted(p) ==
  /\ consumed' = consumed \cup {Current(p)}
  /\ Goto(p, "start")
  /\ UNCHANGED audit

Refused_GoesOn(p) == Goto(p, "start") /\ UNCHANGED <<audit, consumed>>
Refused(p) ==
  /\ audit' = audit \cup {<<"rejected", Current(p)>>}
  /\ Goto(p, "fail")
  /\ UNCHANGED consumed

\* One transaction consumes the permit and takes the rate slot; a refusal
\* (rate, expiry, mismatch) is audited and raised.
Admit(p) ==
  /\ At(p, "admit")
  /\ Accepted(p) \/ Refused(p)
  /\ UNCHANGED <<stale, ledger, dead, taken, fails, outcomes, broken, stage, entry,
                 sent, files, lock, manifest>>

Started(p) ==
  /\ At(p, "start")
  /\ audit' = audit \cup {<<"started", Current(p)>>}
  /\ Goto(p, "open")
  /\ UNCHANGED <<stale, ledger, dead, taken, fails, outcomes, broken, stage, entry,
                 consumed, sent, files, lock, manifest>>

\* The transport answers, fails with its own error, or raises another one
\* (reading the body), which nothing in observe_http catches.
Open(p) ==
  /\ At(p, "open")
  /\ sent' = sent \cup {Current(p)}
  /\ \/ /\ broken' = [broken EXCEPT ![p] = FALSE]
        /\ Goto(p, IF p \in Keepers THEN "body" ELSE "record")
     \/ /\ broken' = [broken EXCEPT ![p] = TRUE]
        /\ Goto(p, "record")
     \/ Goto(p, "fail") /\ UNCHANGED broken
  /\ UNCHANGED <<stale, ledger, dead, taken, fails, outcomes, stage, entry,
                 consumed, files, lock, manifest, audit>>

\* os.replace: the file is whole, whatever it held before.
WriteBody(p) ==
  /\ At(p, "body")
  /\ files' = [files EXCEPT ![FileOf(p, "body")] = Current(p)]
  /\ Goto(p, "record")
  /\ UNCHANGED <<stale, ledger, dead, taken, fails, outcomes, broken, stage, entry,
                 consumed, sent, lock, manifest, audit>>

\* The evidence, or the failure evidence; the body is registered first.
WriteRecord(p) ==
  /\ At(p, "record")
  /\ files' = [files EXCEPT ![FileOf(p, "record")] = Current(p)]
  /\ stage' = [stage EXCEPT ![p] = IF p \in Keepers /\ ~broken[p] THEN "body" ELSE "record"]
  /\ Goto(p, "lock")
  /\ UNCHANGED <<stale, ledger, dead, taken, fails, outcomes, broken, entry,
                 consumed, sent, lock, manifest, audit>>
-----------------------------------------------------------------------------
(* register_evidence                                                       *)

LockFree_Unchecked == TRUE
LockFree == lock = NoProc

TimesOut_Never == FALSE
TimesOut == lock # NoProc

\* O_CREAT | O_EXCL; the other outcome is the timeout of ten seconds, which
\* can only pass while somebody's lock file is there.
Lock(p) ==
  /\ At(p, "lock")
  /\ \/ LockFree /\ lock' = p /\ Goto(p, "sign")
     \/ TimesOut /\ Goto(p, "fail") /\ UNCHANGED lock
  /\ UNCHANGED <<stale, ledger, dead, taken, fails, outcomes, broken, stage, entry,
                 consumed, sent, files, manifest, audit>>

\* The manifest is read, and the artifact hashed as it is now.
NextEntry(p) ==
  LET n == Len(manifest) IN
  [path |-> FileOf(p, stage[p]), holds |-> files[FileOf(p, stage[p])], permit |-> Current(p),
   sequence |-> n + 1, previous |-> IF n = 0 THEN NoEntry ELSE Hash(manifest[n])]

Sign(p) ==
  /\ At(p, "sign")
  /\ entry' = [entry EXCEPT ![p] = NextEntry(p)]
  /\ Goto(p, "append")
  /\ UNCHANGED <<stale, ledger, dead, taken, fails, outcomes, broken, stage, store>>

AppendEntry(p) ==
  /\ At(p, "append")
  /\ manifest' = Append(manifest, entry[p])
  /\ Goto(p, "unlock")
  /\ UNCHANGED <<stale, ledger, dead, taken, fails, outcomes, broken, stage, entry,
                 consumed, sent, files, lock, audit>>

AfterEntry_First(p) == "report"
AfterEntry(p) == IF stage[p] = "body" THEN "lock" ELSE "report"

Unlock(p) ==
  /\ At(p, "unlock")
  /\ lock' = NoProc
  /\ entry' = [entry EXCEPT ![p] = NoEntry]
  /\ stage' = [stage EXCEPT ![p] = "record"]
  /\ Goto(p, AfterEntry(p))
  /\ UNCHANGED <<stale, ledger, dead, taken, fails, outcomes, broken,
                 consumed, sent, files, manifest, audit>>

\* The last audit event of the request.
Report(p) ==
  /\ At(p, "report")
  /\ audit' = audit \cup {<<IF broken[p] THEN "failed" ELSE "completed", Current(p)>>}
  /\ Goto(p, IF broken[p] THEN "fail" ELSE "done")
  /\ UNCHANGED <<stale, ledger, dead, taken, fails, outcomes, broken, stage, entry,
                 consumed, sent, files, lock, manifest>>

\* A file operation raises: the lock, if held, is released on the way out.
Raise(p) ==
  /\ Active(p) /\ pc[p] \in {"start", "body", "record", "sign", "append", "report"}
  /\ Goto(p, "fail")
  /\ lock' = IF lock = p THEN NoProc ELSE lock
  /\ UNCHANGED <<stale, ledger, dead, taken, fails, outcomes, broken, stage, entry,
                 consumed, sent, files, manifest, audit>>
-----------------------------------------------------------------------------
(* run_controlled_queue: what becomes of the item.                         *)

\* record_circuit_result: the circuit opens at this many consecutive failures.
Threshold == IF MaxErrors < 1 THEN 1 ELSE MaxErrors

Opens(p) == fails[p] + 1 >= Threshold

\* record_completion
Closed_Uncounted(failed) == IF failed THEN [ledger EXCEPT !.errors = @ + 1] ELSE [ledger EXCEPT !.completed = @ + 1]
Closed(failed) ==
  [reserved |-> ledger.reserved,
   errors |-> ledger.errors + (IF failed THEN 1 ELSE 0),
   completed |-> ledger.completed + 1]

Complete(p) ==
  /\ At(p, "done")
  /\ ledger' = Closed(FALSE)
  /\ fails' = [fails EXCEPT ![p] = 0]
  /\ outcomes' = [outcomes EXCEPT ![p] = Append(@, TRUE)]
  /\ Goto(p, "loop")
  /\ UNCHANGED <<stale, dead, taken, broken, stage, entry, store>>

Fail(p) ==
  /\ At(p, "fail")
  /\ ledger' = Closed(TRUE)
  /\ fails' = [fails EXCEPT ![p] = @ + 1]
  /\ outcomes' = [outcomes EXCEPT ![p] = Append(@, FALSE)]
  /\ Goto(p, IF Opens(p) THEN "ended" ELSE "loop")
  /\ UNCHANGED <<stale, dead, taken, broken, stage, entry, store>>

\* The attestation outlives its age limit; a process dies where it stands.
Expire == ~stale /\ stale' = TRUE /\ UNCHANGED <<ledger, control, store>>

Crash(p) ==
  /\ Active(p) /\ pc[p] # "ended"
  /\ dead' = dead \cup {p}
  /\ UNCHANGED <<stale, ledger, pc, taken, fails, outcomes, broken, stage, entry, store>>

Step(p) ==
  \/ Stop(p) \/ Reserve(p) \/ Issue(p) \/ Admit(p) \/ Started(p) \/ Open(p)
  \/ WriteBody(p) \/ WriteRecord(p)
  \/ Lock(p) \/ Sign(p) \/ AppendEntry(p) \/ Unlock(p)
  \/ Report(p) \/ Raise(p) \/ Complete(p) \/ Fail(p)

Next == Expire \/ \E p \in Procs : Step(p) \/ Crash(p)

Spec == Init /\ [][Next]_vars

\* A process that does not die goes on: it blocks on nothing but the lock
\* file, and there a timeout is a step.
FairSpec == Spec /\ \A p \in Procs : WF_vars(Step(p))
-----------------------------------------------------------------------------
Label == {"loop", "permit", "admit", "start", "open", "body", "record", "lock", "sign",
          "append", "unlock", "report", "done", "fail", "ended"}

Event == {"rejected", "started", "completed", "failed"}

\* Every variable keeps its type.
TypeOK ==
  /\ stale \in BOOLEAN
  /\ ledger \in [reserved : Nat, errors : Nat, completed : Nat]
  /\ dead \subseteq Procs
  /\ pc \in [Procs -> Label]
  /\ taken \in [Procs -> 0..Length]
  /\ fails \in [Procs -> Nat]
  /\ outcomes \in [Procs -> Seq(BOOLEAN)]
  /\ broken \in [Procs -> BOOLEAN]
  /\ stage \in [Procs -> {"body", "record"}]
  /\ entry \in [Procs -> Entry \cup {NoEntry}]
  /\ consumed \subseteq Permit /\ sent \subseteq Permit
  /\ files \in [Path -> Permit \cup {NoPermit}]
  /\ lock \in Procs \cup {NoProc}
  /\ manifest \in Seq(Entry)
  /\ audit \subseteq Event \X Permit

\* Whatever processes share the session and wherever they die, the requests
\* made never outnumber the budget the ledger reserves from (reserve_action).
BudgetHeld ==
  /\ Cardinality(sent) <= ledger.reserved
  /\ ledger.reserved <= MaxActions /\ ledger.reserved <= MaxRequests

\* A request leaves only after its permit is consumed and its start is in the
\* audit log (observe_http's order): a crash hides no request from the log.
NoBlindRequest == \A m \in sent : m \in consumed /\ <<"started", m>> \in audit

\* The manifest is a chain: no two registrations, of any two processes, take
\* the same place, and each entry is linked to the one before it
\* (verify_evidence_manifest without the artifacts).
ManifestChained ==
  \A i \in 1..Len(manifest) :
    /\ manifest[i].sequence = i
    /\ manifest[i].previous = IF i = 1 THEN NoEntry ELSE Hash(manifest[i - 1])

\* The audit log calls a request completed only when its evidence is in the
\* manifest, the body too if it is kept.
CompletedIsRegistered ==
  \A m \in Permit : <<"completed", m>> \in audit =>
    \A kind \in {"record"} \cup (IF m[1] \in Keepers THEN {"body"} ELSE {}) :
      \E i \in 1..Len(manifest) : Hash(manifest[i]) = <<m, kind>>

\* Each reservation is resolved once: those left open belong to the items that
\* processes, dead ones included, are in (run_controlled_queue's catch-all).
LedgerAccounted ==
  /\ ledger.errors <= ledger.completed
  /\ ledger.reserved - ledger.completed
       = Cardinality({p \in Procs : pc[p] \notin {"loop", "ended"}})

\* Once as many items in a row failed as the breaker allows, the process takes
\* no further item (run_controlled_queue, record_circuit_result).
CircuitHolds ==
  \A p \in Procs :
    LET n == Len(outcomes[p]) IN
    /\ n >= Threshold
    /\ \A k \in (n - Threshold + 1)..n : ~outcomes[p][k]
    => pc[p] = "ended" /\ taken[p] = n

\* What refuses a request stops it: the permit, the log, the breaker.
RefusalsBind == NoBlindRequest /\ CircuitHolds

\* Every process ends its run or dies: a lock file that a dead process left
\* behind delays the others, it does not hold them.
SessionsEnd == \A p \in Procs : <>(pc[p] = "ended" \/ p \in dead)

\* Each completed request has its own evidence object
\* (docs/M5_6_BOUNDED_SESSION_RUNNER.md).
EvidencePerRequest ==
  \A m \in Permit : <<"completed", m>> \in audit => files[<<m[2], "record">>] = m
=============================================================================
