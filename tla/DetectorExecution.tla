------------------------- MODULE DetectorExecution -------------------------
(***************************************************************************)
(* DetectorExecutionService.execute (detector_execution.py) with its       *)
(* budget store, the orchestrator's journal (orchestrator.py) and what the *)
(* Docker adapter brings back (docker_detector_adapter.py).                *)
(*                                                                         *)
(* A run is a request with its attempt number: its run, action and permit  *)
(* ids are digests of it, so executing a run again meets the rows of the   *)
(* first time.  Processes execute runs, die at any step and start over;    *)
(* the containers of a run outlive the process that started them.  Every   *)
(* durable write is a step of its own, in the order of the code.           *)
(***************************************************************************)
EXTENDS Integers, Sequences, FiniteSets, Functions

CONSTANTS
  Procs, Runs,
  DetectorMaximum,   \* detector.maximum_default_requests
  Remaining,         \* the least of the remaining budgets a request names
  NoRun

ASSUME RunsAssumption == IsFiniteSet(Runs) /\ NoRun \notin Runs
ASSUME BudgetAssumption ==
  DetectorMaximum \in Nat \ {0} /\ Remaining \in Nat \ {0}

VARIABLES
  lease,      \* the operational lease is active in its store
  row,        \* detector-budgets.db: the state of the run's reservation
  consumed,   \* detector-budgets.db: what the reservation was closed with
  action,     \* campaign.db: the state of the run's action
  count,      \* campaign.db: the campaign's counters
  result,     \* result.json of the run
  ledger,     \* the counting proxy's ledger of the run
  live,       \* the containers of the run exist
  pc, job,    \* where a process is, and the run it executes
  todo,       \* the store operations of the journal call it is in
  outcome,    \* how the adapter ended for it
  launches,   \* history: how often the adapter was executed for the run
  late        \* history: its requests forwarded after the ledger was read

store == <<row, consumed, action, count, result>>
proxy == <<ledger, live>>
vars == <<lease, store, proxy, pc, job, todo, outcome, launches, late>>

-----------------------------------------------------------------------------
(***************************************************************************)
(* Accounting: the rows of a run's ledger by state, and what the service   *)
(* makes of them.  Requests the proxy refuses change nothing here.         *)
(***************************************************************************)
Least(a, b) == IF a <= b THEN a ELSE b
Ceiling == Least(DetectorMaximum, Remaining)

Account == [reserved: Nat, forwarding: Nat, responses: Nat, failed: Nat]
Nothing == [reserved |-> 0, forwarding |-> 0, responses |-> 0, failed |-> 0]

Forwarded(acc) == acc.forwarding + acc.responses + acc.failed

\* How the adapter can end: the worker's exit, the errors it raises with an
\* accounting, those it raises before any worker runs, the lease refused in
\* its place, and any other exception.
WorkerEnd == {"accepted", "worker_failure", "unaccounted", "timeout",
              "exception"}
EarlyEnd == {"drift", "docker_control", "exception"}
End == WorkerEnd \cup EarlyEnd \cup {"lease"}

\* Nothing is known of the outcome of at least one request.
Uncertain_Unfinished(end, acc) == acc.forwarding > 0
Uncertain(end, acc) ==
  \/ end = "exception"
  \/ end = "accepted" /\ acc.forwarding > 0
  \/ /\ end \in {"worker_failure", "timeout"}
     /\ Forwarded(acc) > acc.responses

RunStatus == {"completed", "blocked_before_io", "failed", "unknown_outcome"}
StatusOf(end, acc) ==
  IF Uncertain(end, acc) THEN "unknown_outcome"
  ELSE IF end = "accepted" THEN "completed"
  ELSE IF end \in {"lease", "drift", "unaccounted"} THEN "blocked_before_io"
  ELSE "failed"

Retryable(end, acc) ==
  /\ \/ end \in {"timeout", "docker_control", "unaccounted"}
     \/ end = "worker_failure" /\ Forwarded(acc) = 0
  /\ ~ Uncertain(end, acc)

\* What the reservation is closed as, and with.
ClosedAs_Failed(end, acc) == IF end = "accepted" THEN "committed" ELSE "failed"
ClosedAs(end, acc) ==
  IF Uncertain(end, acc) THEN "unknown_outcome"
  ELSE IF end = "accepted" THEN "committed" ELSE "failed"
ClosedWith_Responses(end, acc) == acc.responses
ClosedWith(end, acc) == IF end = "exception" THEN 0 ELSE Forwarded(acc)

-----------------------------------------------------------------------------
(***************************************************************************)
(* The journal: the state machine of an action, and the store operations   *)
(* of each call.  An operation is a transition to the state it names, an   *)
(* increment of the counter it names, or the reconciliation.               *)
(***************************************************************************)
Transitions ==
  [none |-> {"discovered"},
   discovered |-> {"unplanned", "blocked"},
   unplanned |-> {"planned", "blocked"},
   planned |-> {"authorized", "blocked", "superseded"},
   authorized |-> {"permit_issued", "blocked"},
   permit_issued |-> {"starting", "blocked", "unknown_outcome"},
   starting |-> {"executing", "failed", "unknown_outcome"},
   executing |-> {"evidence_recorded", "failed", "unknown_outcome"},
   evidence_recorded |-> {"verified", "failed"},
   verified |-> {"completed", "blocked"},
   completed |-> {}, blocked |-> {}, failed |-> {},
   unknown_outcome |-> {}, superseded |-> {}]
ActionState == DOMAIN Transitions

Counter == {"permits_issued", "permits_consumed", "permits_revoked",
            "detector_runs_started", "detector_runs_completed",
            "requests_forwarded"}

CreateAction == <<"discovered", "unplanned", "planned", "authorized">>
AuthorizationPersisted == <<"permit_issued", "permits_issued">>
WorkerStarting ==
  <<"starting", "executing", "permits_consumed", "detector_runs_started">>

BlockedAs(state) ==
  IF state \in {"starting", "executing"} THEN "failed" ELSE "blocked"

ResultPersisted(status, state) ==
  IF status = "blocked_before_io" THEN <<BlockedAs(state), "permits_revoked">>
  ELSE IF status = "completed"
    THEN <<"evidence_recorded", "verified", "completed", "reconcile">>
  ELSE <<status, "reconcile">>

Op == ActionState \cup Counter \cup {"reconcile"}
Step == {"idle", "reserve", "create", "permit", "starting", "running",
         "cleanup", "settle", "persist", "journal"}

Init ==
  /\ lease = TRUE
  /\ row = [r \in Runs |-> "none"]
  /\ consumed = [r \in Runs |-> 0]
  /\ action = [r \in Runs |-> "none"]
  /\ count = [c \in Counter |-> 0]
  /\ result = [r \in Runs |-> [status |-> "none", retryable |-> FALSE]]
  /\ ledger = [r \in Runs |-> Nothing]
  /\ live = [r \in Runs |-> FALSE]
  /\ pc = [p \in Procs |-> "idle"]
  /\ job = [p \in Procs |-> NoRun]
  /\ todo = [p \in Procs |-> <<>>]
  /\ outcome = [p \in Procs |-> [end |-> "lease", acc |-> Nothing]]
  /\ launches = [r \in Runs |-> 0]
  /\ late = [r \in Runs |-> 0]

-----------------------------------------------------------------------------
(***************************************************************************)
(* execute.                                                                *)
(***************************************************************************)
At(p, step) == pc[p] = step /\ todo[p] = <<>>
Goto(p, step, ops) ==
  /\ pc' = [pc EXCEPT ![p] = step]
  /\ todo' = [todo EXCEPT ![p] = ops]
EndsWith(p, end, acc) ==
  outcome' = [outcome EXCEPT ![p] = [end |-> end, acc |-> acc]]

\* The gates hold; when one does not, the call returns having written nothing.
Begin(p, r) ==
  /\ pc[p] = "idle"
  /\ lease
  /\ job' = [job EXCEPT ![p] = r]
  /\ Goto(p, "reserve", <<>>)
  /\ UNCHANGED <<lease, store, proxy, outcome, launches, late>>

\* The run id is the primary key of the reservations.
Reservable_Failed(r) == row[r] \in {"none", "failed"}
Reservable(r) == row[r] = "none"

Reserve(p) ==
  /\ At(p, "reserve")
  /\ Reservable(job[p])
  /\ row' = [row EXCEPT ![job[p]] = "reserved"]
  /\ Goto(p, "create", CreateAction)
  /\ UNCHANGED <<lease, consumed, action, count, result, proxy, job, outcome,
                 launches, late>>

\* The insert fails and the error leaves execute.
AlreadyReserved(p) ==
  /\ At(p, "reserve")
  /\ ~ Reservable(job[p])
  /\ job' = [job EXCEPT ![p] = NoRun]
  /\ Goto(p, "idle", <<>>)
  /\ UNCHANGED <<lease, store, proxy, outcome, launches, late>>

\* The permit is signed and written to the run's new directory.
Authorize(p) ==
  /\ At(p, "create")
  /\ Goto(p, "permit", AuthorizationPersisted)
  /\ UNCHANGED <<lease, store, proxy, job, outcome, launches, late>>

\* The lease and the upstream permit are checked once more.
Confirm(p) ==
  /\ At(p, "permit")
  /\ lease
  /\ Goto(p, "starting", WorkerStarting)
  /\ UNCHANGED <<lease, store, proxy, job, outcome, launches, late>>

Refuse(p) ==
  /\ At(p, "permit")
  /\ ~ lease
  /\ EndsWith(p, "lease", Nothing)
  /\ Goto(p, "settle", <<>>)
  /\ UNCHANGED <<lease, store, proxy, job, launches, late>>

\* One store operation of a journal call, in a transaction of its own.
Journal(p) ==
  /\ todo[p] # <<>>
  /\ LET op == Head(todo[p])
         r == job[p]
     IN  \/ /\ op \in Transitions[action[r]]
            /\ action' = [action EXCEPT ![r] = op]
            /\ UNCHANGED count
         \/ /\ op \in Counter
            /\ count' = [count EXCEPT ![op] = @ + 1]
            /\ UNCHANGED action
         \/ /\ op = "reconcile"
            /\ count' = [count EXCEPT
                 !["detector_runs_completed"] = @ + 1,
                 !["requests_forwarded"] =
                   @ + ClosedWith(outcome[p].end, outcome[p].acc)]
            /\ UNCHANGED action
  /\ todo' = [todo EXCEPT ![p] = Tail(@)]
  /\ UNCHANGED <<lease, row, consumed, result, proxy, pc, job, outcome,
                 launches, late>>

\* A store operation of worker_starting fails: the adapter is never called.
StartFails(p) ==
  /\ pc[p] = "starting"
  /\ todo[p] # <<>>
  /\ EndsWith(p, "exception", Nothing)
  /\ Goto(p, "settle", <<>>)
  /\ UNCHANGED <<lease, store, proxy, job, launches, late>>

\* The adapter refuses to start a worker, or Docker does.
FailEarly(p, end) ==
  /\ At(p, "starting")
  /\ EndsWith(p, end, Nothing)
  /\ Goto(p, "settle", <<>>)
  /\ UNCHANGED <<lease, store, proxy, job, launches, late>>

Launch(p) ==
  /\ At(p, "starting")
  /\ live' = [live EXCEPT ![job[p]] = TRUE]
  /\ launches' = [launches EXCEPT ![job[p]] = @ + 1]
  /\ Goto(p, "running", <<>>)
  /\ UNCHANGED <<lease, store, ledger, job, outcome, late>>

\* The worker has ended or has timed out, and the adapter reads the ledger
\* of the proxy, which is still running and goes on until it is removed.
ReadLedger(p, end) ==
  /\ At(p, "running")
  /\ LET acc == ledger[job[p]]
     IN  /\ end = "unaccounted" => Forwarded(acc) = 0
         /\ EndsWith(p, end, acc)
  /\ Goto(p, "cleanup", <<>>)
  /\ UNCHANGED <<lease, store, proxy, job, launches, late>>

\* finally: docker rm --force of the run's containers.
CleanUp(p) ==
  /\ At(p, "cleanup")
  /\ live' = [live EXCEPT ![job[p]] = FALSE]
  /\ Goto(p, "settle", <<>>)
  /\ UNCHANGED <<lease, store, ledger, job, outcome, launches, late>>

\* reconcile or close_failed: the reservation is closed.
Settle(p) ==
  /\ At(p, "settle")
  /\ row[job[p]] = "reserved"
  /\ LET o == outcome[p]
     IN  /\ row' = [row EXCEPT ![job[p]] = ClosedAs(o.end, o.acc)]
         /\ consumed' = [consumed EXCEPT ![job[p]] = ClosedWith(o.end, o.acc)]
  /\ Goto(p, "persist", <<>>)
  /\ UNCHANGED <<lease, action, count, result, proxy, job, outcome, launches, late>>

\* _persist_result, and into the journal.
PersistResult(p) ==
  /\ At(p, "persist")
  /\ LET r == job[p]
         o == outcome[p]
         status == StatusOf(o.end, o.acc)
     IN  /\ result' = [result EXCEPT ![r] =
              [status |-> status, retryable |-> Retryable(o.end, o.acc)]]
         /\ Goto(p, "journal", ResultPersisted(status, action[r]))
  /\ UNCHANGED <<lease, row, consumed, action, count, proxy, job, outcome,
                 launches, late>>

Return(p) ==
  /\ At(p, "journal")
  /\ job' = [job EXCEPT ![p] = NoRun]
  /\ Goto(p, "idle", <<>>)
  /\ UNCHANGED <<lease, store, proxy, outcome, launches, late>>

\* The process dies, or a store operation raises out of execute: nothing is
\* undone, and containers that run go on running.
Crash(p) ==
  /\ pc[p] # "idle"
  /\ job' = [job EXCEPT ![p] = NoRun]
  /\ Goto(p, "idle", <<>>)
  /\ UNCHANGED <<lease, store, proxy, outcome, launches, late>>

-----------------------------------------------------------------------------
(***************************************************************************)
(* The worker and its proxy (counting_proxy.py, see CountingProxy): what   *)
(* they do to the ledger while the containers exist.                       *)
(***************************************************************************)
WasRead(r) == \E p \in Procs : job[p] = r /\ pc[p] = "cleanup"
\* One request goes from one state to another.
Move(acc, from, to) == [acc EXCEPT ![from] = @ - 1, ![to] = @ + 1]

Admit(r) ==
  /\ live[r]
  /\ ledger[r].reserved + Forwarded(ledger[r]) < Ceiling
  /\ ledger' = [ledger EXCEPT ![r].reserved = @ + 1]
  /\ UNCHANGED <<lease, store, live, pc, job, todo, outcome, launches, late>>

Forward(r) ==
  /\ live[r]
  /\ ledger[r].reserved > 0
  /\ ledger' = [ledger EXCEPT ![r] = Move(@, "reserved", "forwarding")]
  /\ late' = IF WasRead(r) THEN [late EXCEPT ![r] = @ + 1] ELSE late
  /\ UNCHANGED <<lease, store, live, pc, job, todo, outcome, launches>>

Answer(r, how) ==
  /\ live[r]
  /\ ledger[r].forwarding > 0
  /\ ledger' = [ledger EXCEPT ![r] = Move(@, "forwarding", how)]
  /\ UNCHANGED <<lease, store, live, pc, job, todo, outcome, launches, late>>

\* The operator revokes the lease, or the program goes offline.
Revoke ==
  /\ lease
  /\ lease' = FALSE
  /\ UNCHANGED <<store, proxy, pc, job, todo, outcome, launches, late>>

Execute(p) ==
  \/ Reserve(p) \/ AlreadyReserved(p) \/ Authorize(p) \/ Confirm(p)
  \/ Refuse(p) \/ Journal(p) \/ StartFails(p) \/ Launch(p) \/ CleanUp(p)
  \/ Settle(p) \/ PersistResult(p) \/ Return(p) \/ Crash(p)

Next ==
  \/ \E p \in Procs :
       \/ \E r \in Runs : Begin(p, r)
       \/ \E end \in EarlyEnd : FailEarly(p, end)
       \/ \E end \in WorkerEnd : ReadLedger(p, end)
       \/ Execute(p)
  \/ \E r \in Runs :
       \/ Admit(r)
       \/ Forward(r)
       \/ \E how \in {"responses", "failed"} : Answer(r, how)
  \/ Revoke

Spec == Init /\ [][Next]_vars

-----------------------------------------------------------------------------
(***************************************************************************)
(* Properties                                                              *)
(***************************************************************************)
RowState == {"none", "reserved", "committed", "failed", "unknown_outcome"}

\* Every variable keeps its type, and a process at work has a run.
TypeOK ==
  /\ lease \in BOOLEAN
  /\ row \in [Runs -> RowState]
  /\ consumed \in [Runs -> Nat]
  /\ action \in [Runs -> ActionState]
  /\ count \in [Counter -> Nat]
  /\ result \in [Runs -> [status: RunStatus \cup {"none"},
                          retryable: BOOLEAN]]
  /\ ledger \in [Runs -> Account]
  /\ live \in [Runs -> BOOLEAN]
  /\ pc \in [Procs -> Step]
  /\ job \in [Procs -> Runs \cup {NoRun}]
  /\ \A p \in Procs : pc[p] # "idle" \/ todo[p] # <<>> => job[p] \in Runs
  /\ todo \in [Procs -> Seq(Op)]
  /\ outcome \in [Procs -> [end: End, acc: Account]]
  /\ launches \in [Runs -> Nat]
  /\ late \in [Runs -> Nat]

\* A run is a one-shot permit: its worker is launched at most once, whatever
\* is executed again after a crash or by a second process, and never once its
\* reservation was closed without a launch.
LaunchStatus ==
  [r \in Runs |->
     IF launches[r] > 0 THEN "consumed"
     ELSE IF row[r] \in {"none", "reserved"} THEN "available" ELSE "revoked"]
OneShot ==
  INSTANCE OneShotPermit
    WITH Permits <- Runs, status <- LaunchStatus, grants <- launches
ImplementsOneShot == OneShot!Spec

\* The journal never asks the campaign store for an impossible transition of
\* an action (which would raise, and leave the action where it is).
JournalLegal ==
  \A p \in Procs :
    todo[p] # <<>> /\ Head(todo[p]) \in ActionState =>
      Head(todo[p]) \in Transitions[action[job[p]]]

\* What the budget store, result.json and the campaign say of a run agree:
\* a result is written only of a closed reservation and says the same, and
\* an action reaches its end only with such a result.
Closed == [completed |-> {"committed"}, unknown_outcome |-> {"unknown_outcome"},
           failed |-> {"failed"}, blocked_before_io |-> {"failed"}]
Concluded == [completed |-> {"completed"}, unknown_outcome |-> {"unknown_outcome"},
              failed |-> {"failed"}, blocked_before_io |-> {"blocked", "failed"}]
StoresAgree ==
  \A r \in Runs :
    LET status == result[r].status
    IN  /\ status # "none" => row[r] \in Closed[status]
        /\ Transitions[action[r]] = {} =>
             status # "none" /\ action[r] \in Concluded[status]

\* A closed reservation consumed what the proxy forwarded; of an unknown
\* outcome it says at most that.
LedgerAccounted ==
  \A r \in Runs :
    /\ row[r] \in {"committed", "failed"} =>
         consumed[r] = Forwarded(ledger[r])
    /\ consumed[r] <= Forwarded(ledger[r])

\* What the code keeps of it: a closed reservation misses the requests that left
\* between the reading of the ledger and the removal of the proxy, and no other
\* one; it never consumes what was not forwarded.
GapAccounted ==
  \A r \in Runs :
    /\ row[r] \in {"committed", "failed"} =>
         consumed[r] + late[r] = Forwarded(ledger[r])
    /\ consumed[r] <= Forwarded(ledger[r])

\* A run that may be tried again has no request of unknown or failed fate but
\* those the same window let through.
RetrySafe ==
  \A r \in Runs :
    result[r].retryable => ledger[r].forwarding + ledger[r].failed <= late[r]

\* What a function counts for each run, one by one; as many as its values add up to.
Units(of) == UNION {{r} \X (1..of[r]) : r \in DOMAIN of}

\* The campaign's counters survive crashes on the safe side: each launch was
\* counted as a consumed permit before it happened, each permit as issued
\* before it was consumed, and no forwarded request is counted twice.
CampaignCovered ==
  /\ Cardinality(Units(launches)) <= count["permits_consumed"]
  /\ count["permits_consumed"] <= count["permits_issued"]
  /\ count["requests_forwarded"] <= Cardinality(Units(consumed))

\* What the operator may rely on afterwards: of a run offered for a retry the adapter saw
\* every request answered, and the campaign's counters hide nothing.
AftermathSafe == RetrySafe /\ CampaignCovered

\* The runs of one program stay within the budget that remained of it.
ProgramBudget ==
  SumFunction([r \in Runs |-> Forwarded(ledger[r])]) <= Remaining
=============================================================================
