--------------------------- MODULE CountingProxy ---------------------------
(***************************************************************************)
(* The counting proxy (counting_proxy.py): the only way from a detector    *)
(* worker to its target.  Every request is handled by a thread of its own  *)
(* (ThreadingHTTPServer, one request per connection), so a request stands  *)
(* for its thread.  The ledger row of a request is durable; the pacing     *)
(* stamp and the circuit counter live in the process, which may be killed  *)
(* at any moment and is not restarted for the same run.                    *)
(*                                                                         *)
(* A step is one critical section or one transaction: threads interleave   *)
(* between checking the circuit, being admitted, pacing and forwarding.    *)
(***************************************************************************)
EXTENDS Integers, FiniteSets

CONSTANTS
  Requests,
  MaxRequests, MaxConcurrency,   \* the ceilings of the signed permit
  Interval,                      \* ticks between requests: 1 / max_rps
  Expiry,                        \* the permit's expires_at
  CircuitLimit,                  \* failures in a row that open the circuit
  MaxClock                       \* bound on the clock

ASSUME RequestsAssumption == IsFiniteSet(Requests)
ASSUME CeilingsAssumption ==
  /\ MaxRequests \in Nat \ {0}
  /\ MaxConcurrency \in Nat \ {0}
  /\ CircuitLimit \in Nat \ {0}
ASSUME ClockAssumption ==
  /\ Interval \in Nat \ {0}
  /\ Expiry \in Nat
  /\ MaxClock \in Nat

VARIABLES
  clock,
  up,            \* the proxy process is alive
  row,           \* ledger: the state of the request's row
  startedAt,     \* ledger: when the row became forwarding
  pc,            \* where the request's handler thread is
  wakeAt,        \* when the handler has slept its delay
  lastForwarded, \* self.last_forwarded
  failures,      \* self.circuit_failures
  hit            \* history: the target received the request

vars == <<clock, up, row, startedAt, pc, wakeAt, lastForwarded, failures, hit>>

Clock == 0 .. MaxClock
RowState == {"none", "reserved", "forwarding", "response_received",
             "failed_after_io", "blocked_before_io"}

-----------------------------------------------------------------------------
(***************************************************************************)
(* The ledger's counts: budget_used and active of admit, and what summary  *)
(* reports.                                                                *)
(***************************************************************************)

Rows(states) == {r \in Requests : row[r] \in states}

BudgetStates_FinishedFree == {"reserved", "forwarding", "response_received"}
BudgetStates ==
  {"reserved", "forwarding", "response_received", "failed_after_io"}

ActiveStates == {"reserved", "forwarding"}

ForwardedStates == {"forwarding", "response_received", "failed_after_io"}

Denied ==
  \/ Cardinality(Rows(BudgetStates)) >= MaxRequests
  \/ Cardinality(Rows(ActiveStates)) >= MaxConcurrency

Summary ==
  [attempted |-> Cardinality(Rows(RowState \ {"none"})),
   forwarded |-> Cardinality(Rows(ForwardedStates)),
   responses |-> Cardinality(Rows({"response_received"})),
   blocked   |-> Cardinality(Rows({"blocked_before_io", "reserved"})),
   failed    |-> Cardinality(Rows({"failed_after_io"})),
   unknown   |-> Cardinality(Rows({"forwarding"}))]

-----------------------------------------------------------------------------

Init ==
  /\ clock = 0
  /\ up = TRUE
  /\ row = [r \in Requests |-> "none"]
  /\ startedAt = [r \in Requests |-> 0]
  /\ pc = [r \in Requests |-> "unsent"]
  /\ wakeAt = [r \in Requests |-> 0]
  /\ lastForwarded = - Interval
  /\ failures = 0
  /\ hit = [r \in Requests |-> FALSE]

Goto(r, step) == pc' = [pc EXCEPT ![r] = step]
SetRow(r, state) == row' = [row EXCEPT ![r] = state]

\* deny: the row is written as blocked before I/O, and the handler answers.
Deny(r) == SetRow(r, "blocked_before_io") /\ Goto(r, "done")

\* The request passes or fails signature, expiry, origin, path and method.
Authorize(r) ==
  /\ pc[r] = "unsent"
  /\ up
  /\ \E inScope \in BOOLEAN :
       IF inScope /\ clock < Expiry
         THEN Goto(r, "circuit") /\ UNCHANGED row
         ELSE Deny(r)
  /\ UNCHANGED <<clock, up, startedAt, wakeAt, lastForwarded, failures, hit>>

CheckCircuit(r) ==
  /\ pc[r] = "circuit"
  /\ IF failures >= CircuitLimit
       THEN Deny(r)
       ELSE Goto(r, "admit") /\ UNCHANGED row
  /\ UNCHANGED <<clock, up, startedAt, wakeAt, lastForwarded, failures, hit>>

\* accounting.admit: counts and inserts in one transaction.
Admit(r) ==
  /\ pc[r] = "admit"
  /\ IF Denied
       THEN Deny(r)
       ELSE SetRow(r, "reserved") /\ Goto(r, "pace")
  /\ UNCHANGED <<clock, up, startedAt, wakeAt, lastForwarded, failures, hit>>

\* The delay is computed under the lock and slept outside of it.
Pace(r) ==
  /\ pc[r] = "pace"
  /\ wakeAt' = [wakeAt EXCEPT ![r] =
                  IF lastForwarded + Interval > clock
                    THEN lastForwarded + Interval ELSE clock]
  /\ Goto(r, "sleep")
  /\ UNCHANGED <<clock, up, row, startedAt, lastForwarded, failures, hit>>

Slept_NoDelay(r) == TRUE
Slept(r) == clock >= wakeAt[r]

MarkForwarding(r) ==
  /\ pc[r] = "sleep"
  /\ Slept(r)
  /\ row[r] = "reserved"
  /\ SetRow(r, "forwarding")
  /\ startedAt' = [startedAt EXCEPT ![r] = clock]
  /\ Goto(r, "stamp")
  /\ UNCHANGED <<clock, up, wakeAt, lastForwarded, failures, hit>>

Stamp(r) ==
  /\ pc[r] = "stamp"
  /\ lastForwarded' = clock
  /\ Goto(r, "send")
  /\ UNCHANGED <<clock, up, row, startedAt, wakeAt, failures, hit>>

\* connection.request: the request reaches the target.
Send(r) ==
  /\ pc[r] = "send"
  /\ hit' = [hit EXCEPT ![r] = TRUE]
  /\ Goto(r, "wait")
  /\ UNCHANGED <<clock, up, row, startedAt, wakeAt, lastForwarded, failures>>

\* A response closes the circuit, then the row is finished.
Respond(r) ==
  /\ pc[r] = "wait"
  /\ failures' = 0
  /\ Goto(r, "received")
  /\ UNCHANGED <<clock, up, row, startedAt, wakeAt, lastForwarded, hit>>

\* An OSError while connecting, sending or reading.
Fail(r) ==
  /\ pc[r] \in {"send", "wait"}
  /\ failures' = failures + 1
  /\ Goto(r, "failed")
  /\ UNCHANGED <<clock, up, row, startedAt, wakeAt, lastForwarded, hit>>

FinalState_Blocked(r) ==
  IF pc[r] = "received" THEN "response_received" ELSE "blocked_before_io"
FinalState(r) ==
  IF pc[r] = "received" THEN "response_received" ELSE "failed_after_io"

Finish(r) ==
  /\ pc[r] \in {"received", "failed"}
  /\ SetRow(r, FinalState(r))
  /\ Goto(r, "done")
  /\ UNCHANGED <<clock, up, startedAt, wakeAt, lastForwarded, failures, hit>>

\* Any other exception (http.client's, for a malformed response) ends the
\* handler thread and leaves the row as it is.
Abort(r) ==
  /\ pc[r] = "wait"
  /\ Goto(r, "lost")
  /\ UNCHANGED <<clock, up, row, startedAt, wakeAt, lastForwarded, failures, hit>>

\* The process is killed, or a fault is injected: the ledger stays.
Crash ==
  /\ up
  /\ up' = FALSE
  /\ pc' = [r \in Requests |->
              IF pc[r] \in {"unsent", "done"} THEN pc[r] ELSE "lost"]
  /\ UNCHANGED <<clock, row, startedAt, wakeAt, lastForwarded, failures, hit>>

Tick ==
  /\ clock < MaxClock
  /\ clock' = clock + 1
  /\ UNCHANGED <<up, row, startedAt, pc, wakeAt, lastForwarded, failures, hit>>

Handle(r) ==
  \/ Authorize(r) \/ CheckCircuit(r) \/ Admit(r) \/ Pace(r)
  \/ MarkForwarding(r) \/ Stamp(r) \/ Send(r) \/ Respond(r) \/ Fail(r)
  \/ Finish(r) \/ Abort(r)

Next == (\E r \in Requests : Handle(r)) \/ Crash \/ Tick

Spec == Init /\ [][Next]_vars

-----------------------------------------------------------------------------
(***************************************************************************)
(* Properties                                                              *)
(***************************************************************************)

Steps == {"unsent", "circuit", "admit", "pace", "sleep", "stamp", "send",
          "wait", "received", "failed", "done", "lost"}

\* Every variable keeps its type.
TypeOK ==
  /\ clock \in Clock
  /\ up \in BOOLEAN
  /\ row \in [Requests -> RowState]
  /\ startedAt \in [Requests -> Clock]
  /\ pc \in [Requests -> Steps]
  /\ wakeAt \in [Requests -> Int]
  /\ lastForwarded \in Clock \cup {- Interval}
  /\ failures \in Nat
  /\ hit \in [Requests -> BOOLEAN]

\* The target never receives request max_requests + 1, whatever the threads
\* that contend for the last slot do and however the proxy ends.
BudgetCeiling ==
  /\ Cardinality({r \in Requests : hit[r]}) <= Summary.forwarded
  /\ Summary.forwarded <= MaxRequests

\* Never more upstream connections at a time than the permit allows.
Upstream == {r \in Requests : pc[r] \in {"stamp", "send", "wait"}}
ConcurrencyCeiling == Cardinality(Upstream) <= MaxConcurrency

\* The ledger is what the target would say, at every moment and after every
\* crash: a request that reached the target counts as forwarded, and what
\* counts as blocked or only reserved never did.
LedgerTruthful ==
  \A r \in Requests :
    /\ hit[r] => row[r] \in ForwardedStates
    /\ row[r] = "response_received" => hit[r]

\* A slot is held by a live handler, or by one that died with it: a finished
\* request gives its slot back, and only a lost handler keeps one.
SlotsOwned ==
  \A r \in Requests :
    row[r] \in ActiveStates =>
      pc[r] \in {"pace", "sleep", "stamp", "send", "wait", "received",
                 "failed", "lost"}

\* Within the interval of the permit's rate the ledger shows no more requests
\* forwarded than the permit allows at a time: handlers that slept on the same
\* stamp may be forwarded together, a permit of concurrency one is spaced.
Burst(t) ==
  {r \in Rows(ForwardedStates) :
     t <= startedAt[r] /\ startedAt[r] < t + Interval}
BurstBounded == \A t \in Clock : Cardinality(Burst(t)) <= MaxConcurrency
=============================================================================
