------------------------- MODULE RuntimeAdmission -------------------------
(***************************************************************************)
(* Worker admission through the SQLite runtime database (runtime_state.py).*)
(* A worker verifies its permit and reads the clock, waits for the write   *)
(* lock of BEGIN IMMEDIATE for as long as it takes, and then checks the    *)
(* permit, checks and records the target's rate, and consumes the permit   *)
(* in one transaction: one step here, which commits as a whole or is       *)
(* rolled back.  revoke_runtime_permit is another such transaction.        *)
(***************************************************************************)
EXTENDS Integers, FiniteSets

CONSTANTS
  Permits, Workers, Keys,
  NoRequest,   \* a worker that waits for nothing
  Key,         \* [Permits -> Keys]: the target's rate key (http_target_rate_key)
  Expiry,      \* [Permits -> Nat]: payload.expires_at
  Interval,    \* ticks between two requests: 1 / max_requests_per_second
  Window,      \* ticks in the second for which rate events are kept
  MaxClock     \* bound on the clock

ASSUME KeyAssumption == Key \in [Permits -> Keys]
ASSUME TimeAssumption ==
  /\ Expiry \in [Permits -> Nat]
  /\ Interval \in Nat \ {0}
  /\ Window \in Nat \ {0}
  /\ MaxClock \in Nat

VARIABLES
  clock,
  permitState,  \* table permit_state; a permit without a row is available
  rateEvents,   \* table rate_events
  request,      \* the admission a worker has verified and is waiting for
  grants,       \* history: accepted admissions of a permit
  admitted      \* history: the accepted admissions, with their instants

admissionVars == <<clock, permitState, rateEvents, request, grants, admitted>>

Status == {"available", "consumed", "revoked"}
Instants == 0 .. MaxClock
RateEvent == [key : Keys, at : Instants]
Request == [permit : Permits, at : Instants]

ASSUME NoRequestAssumption == NoRequest \notin Request

-----------------------------------------------------------------------------

AdmissionInit ==
  /\ clock = 0
  /\ permitState = [p \in Permits |-> "available"]
  /\ rateEvents = {}
  /\ request = [w \in Workers |-> NoRequest]
  /\ grants = [p \in Permits |-> 0]
  /\ admitted = {}

\* verify_execution_permit accepts; `instant` is fixed before the transaction.
Verify(w) ==
  /\ request[w] = NoRequest
  /\ \E p \in Permits :
       /\ clock < Expiry[p]
       /\ request' = [request EXCEPT ![w] = [permit |-> p, at |-> clock]]
  /\ UNCHANGED <<clock, permitState, rateEvents, grants, admitted>>

\* DELETE FROM rate_events ... observed_at <= window_start, for this key.
Expired_Everything(key, instant) == rateEvents
Expired(key, instant) ==
  {e \in rateEvents : e.key = key /\ e.at <= instant - Window}

\* The latest event left is at least minimum_interval old.  An event later
\* than the instant, recorded while this worker waited, is not.
RateAllows(key, instant) ==
  \A e \in rateEvents \ Expired(key, instant) :
    e.key = key => instant - e.at >= Interval

NotUsed_Unchecked(p) == TRUE
NotUsed(p) == permitState[p] = "available"

Admit(w) ==
  /\ request[w] # NoRequest
  /\ LET p == request[w].permit
         instant == request[w].at
     IN  /\ NotUsed(p)
         /\ RateAllows(Key[p], instant)
         /\ rateEvents' = (rateEvents \ Expired(Key[p], instant))
                            \cup {[key |-> Key[p], at |-> instant]}
         /\ permitState' = [permitState EXCEPT ![p] = "consumed"]
         /\ grants' = [grants EXCEPT ![p] = @ + 1]
         /\ admitted' = admitted \cup {request[w]}
  /\ request' = [request EXCEPT ![w] = NoRequest]
  /\ UNCHANGED clock

\* What a rollback leaves of a rejected admission: the permit as it was.
RolledBack_Consumes(p) == permitState' = [permitState EXCEPT ![p] = "consumed"]
RolledBack(p) == UNCHANGED permitState

Reject(w) ==
  /\ request[w] # NoRequest
  /\ LET p == request[w].permit
     IN  /\ ~ (NotUsed(p) /\ RateAllows(Key[p], request[w].at))
         /\ RolledBack(p)
  /\ request' = [request EXCEPT ![w] = NoRequest]
  /\ UNCHANGED <<clock, rateEvents, grants, admitted>>

\* The worker dies while it waits, or gives up on the busy database.
Lose(w) ==
  /\ request[w] # NoRequest
  /\ request' = [request EXCEPT ![w] = NoRequest]
  /\ UNCHANGED <<clock, permitState, rateEvents, grants, admitted>>

MayRevoke(p) == permitState[p] # "consumed"

Revoke(p) ==
  /\ MayRevoke(p)
  /\ permitState' = [permitState EXCEPT ![p] = "revoked"]
  /\ UNCHANGED <<clock, rateEvents, request, grants, admitted>>

Tick ==
  /\ clock < MaxClock
  /\ clock' = clock + 1
  /\ UNCHANGED <<permitState, rateEvents, request, grants, admitted>>

AdmissionNext ==
  \/ \E w \in Workers : Verify(w) \/ Admit(w) \/ Reject(w) \/ Lose(w)
  \/ \E p \in Permits : Revoke(p)
  \/ Tick

AdmissionSpec == AdmissionInit /\ [][AdmissionNext]_admissionVars

-----------------------------------------------------------------------------
(***************************************************************************)
(* Properties                                                              *)
(***************************************************************************)

\* Every variable keeps its type, and instants come from the clock.
AdmissionTypeOK ==
  /\ clock \in Instants
  /\ permitState \in [Permits -> Status]
  /\ rateEvents \subseteq RateEvent
  /\ request \in [Workers -> Request \cup {NoRequest}]
  /\ grants \in [Permits -> Nat]
  /\ admitted \subseteq Request

\* The database and the workers behave as the one-shot permit.
OneShot == INSTANCE OneShotPermit WITH status <- permitState
ImplementsOneShot == OneShot!Spec

\* Replay state, rate table and consumption never disagree: a permit is
\* consumed exactly if one admission of it was accepted, and a rate event is
\* there exactly if an accepted admission put it there (a rejected admission
\* burns neither the permit nor the rate slot).
AdmissionAtomic ==
  /\ \A p \in Permits :
       (permitState[p] = "consumed") <=> (\E a \in admitted : a.permit = p)
  /\ \A e \in rateEvents :
       \E a \in admitted : Key[a.permit] = e.key /\ a.at = e.at

\* Two admitted requests to one target are apart, in whatever order the workers
\* that waited for the database get it: by the minimum interval of their rate, or
\* by the second for which events are kept where the interval is longer.
Enforced == IF Interval <= Window THEN Interval ELSE Window
Apart(s, t, ticks) == s - t >= ticks \/ t - s >= ticks
Spaced(ticks) ==
  \A a, b \in admitted :
    a # b /\ Key[a.permit] = Key[b.permit] => Apart(a.at, b.at, ticks)
RateSpacing == Spaced(Enforced)

\* The rate that was reviewed holds, also below one request per second.
RateHonoured == Spaced(Interval)

\* An admission is both: all of its writes or none of them, and its target not
\* asked too soon.
AdmissionSound == AdmissionAtomic /\ RateSpacing
=============================================================================
