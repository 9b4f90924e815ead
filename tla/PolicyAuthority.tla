-------------------------- MODULE PolicyAuthority --------------------------
(***************************************************************************)
(* The authority behind a permit, over time: the engagement may be         *)
(* replaced, the program attested again, operational leases issued,        *)
(* renewed and revoked by processes that share one store file, a plan made *)
(* and queued, and permits issued from the queue (broker-permit) or        *)
(* directly (issue-permit).  Permits are verified wherever they are used.  *)
(*                                                                         *)
(* Every operation of the lease store reads the whole file, changes its    *)
(* copy and replaces the file; nothing locks it in between.                *)
(***************************************************************************)
EXTENDS Authorization, FiniteSets

CONSTANTS Clients,      \* the processes that use the lease store
          Policies,     \* the contents the engagement may have
          Tests,        \* test definitions
          Ready,        \* targets of the registry that are ready for policy
          DirectRequests, \* what issue-permit may be asked for
          Revisions,    \* revisions of the program a status may be attested for
          Statuses,     \* operational statuses attested
          ClockErrors,  \* by how much an attestation may be ahead of the clock
          Rates, Ttls,  \* rates and durations asked for
          SigningKeys, ActiveKey,
          MaxTime, MaxAttested, MaxLeases, MaxPermits  \* bounds

ASSUME ClientsAssumption == None \notin Clients
ASSUME KeysAssumption == ActiveKey \in SigningKeys
ASSUME AuthorityTimeAssumption == MaxTime \in Nat /\ Ttls \subseteq Nat
ASSUME PoliciesAssumption ==
  \A e \in Policies :
    /\ e.online \in BOOLEAN
    /\ e.rate \in Nat
    /\ \A c \in ToSet(e.assets) : c.rate \in Nat \cup {None}
ASSUME AskedAssumption == ClockErrors \subseteq Int /\ Rates \subseteq Nat \cup {None}
ASSUME RequestsAssumption ==
  \A r \in DirectRequests :
    /\ DOMAIN r = {"target", "context", "approvals", "method", "identity", "rate", "clears",
                   "matches", "attestation", "lease", "store", "now"}
    /\ r.rate \in Nat \cup {None}
    /\ \A a \in r.approvals : a.rate \in Nat \cup {None}
    /\ r.lease # None => r.lease.from \in Int /\ r.lease.until \in Int

VARIABLES
  now,
  engagement,   \* the current engagement
  attested,     \* the attestations made of the program's status, kept as files
  store,        \* the lease store file
  pending,      \* the copy each client is about to replace the file with, or None
  leases,       \* leases issue and renew have returned to their callers
  queue,        \* items of the work queue
  permits       \* signed permits

authorityVars == <<now, engagement, attested, store, pending, leases, queue, permits>>
-----------------------------------------------------------------------------
AuthorityInit ==
  /\ now = 0
  /\ engagement \in Policies
  /\ attested = {}
  /\ store = <<>>
  /\ pending = [c \in Clients |-> None]
  /\ leases = {}
  /\ queue = {}
  /\ permits = {}

\* Time passes.
Pass ==
  /\ now < MaxTime
  /\ now' = now + 1
  /\ UNCHANGED <<engagement, attested, store, pending, leases, queue, permits>>

\* The engagement is compiled again, or edited.
ReplaceEngagement(e) ==
  /\ engagement # e
  /\ engagement' = e
  /\ UNCHANGED <<now, attested, store, pending, leases, queue, permits>>

\* create_operational_attestation.
Attest(status, revision, observed) ==
  /\ Cardinality(attested) < MaxAttested
  /\ attested' = attested \cup
       {[observed |-> observed, status |-> status, revision |-> revision]}
  /\ UNCHANGED <<now, engagement, store, pending, leases, queue, permits>>

-----------------------------------------------------------------------------
Record(status, renewed) == [status |-> status, renewed |-> renewed]

With(data, l, record) ==
  [k \in DOMAIN data \cup {l} |-> IF k = l THEN record ELSE data[k]]

Idle(c) == pending[c] = None

\* issue: the lease is built, the file is read, and an equal lease is an error unless
\* its record is the one about to be written.
IssueLease(c, a, ttl) ==
  /\ Idle(c)
  /\ Cardinality(leases) < MaxLeases
  /\ MayBuildLease(engagement, a, now, ttl)
  /\ LET l == NewLease(a, now, ttl)
     IN /\ l \in DOMAIN store => store[l] = Record("active", FALSE)
        /\ pending' = [pending EXCEPT ![c] = With(store, l, Record("active", FALSE))]
        /\ leases' = leases \cup {l}
  /\ UNCHANGED <<now, engagement, attested, store, queue, permits>>

\* renew: the lease is recovered and required to be valid, another one is built, and
\* the file is read again.
RenewLease(c, l, a, ttl) ==
  /\ Idle(c)
  /\ Cardinality(leases) < MaxLeases
  /\ RequireValid(store, l, engagement, a, now)
  /\ MayBuildLease(engagement, a, now, ttl)
  /\ LET renewed == NewLease(a, now, ttl)
         superseded == With(store, l, Record("superseded", store[l].renewed))
     IN /\ pending' = [pending EXCEPT ![c] = With(superseded, renewed, Record("active", TRUE))]
        /\ leases' = leases \cup {renewed}
  /\ UNCHANGED <<now, engagement, attested, store, queue, permits>>

\* revoke.
RevokeLease(c, l) ==
  /\ Idle(c)
  /\ l \in DOMAIN store
  /\ pending' = [pending EXCEPT ![c] = With(store, l, Record("revoked", store[l].renewed))]
  /\ UNCHANGED <<now, engagement, attested, store, leases, queue, permits>>

\* _write: the file is replaced by the copy, whatever it holds by now.
WriteStore(c) ==
  /\ ~Idle(c)
  /\ store' = pending[c]
  /\ pending' = [pending EXCEPT ![c] = None]
  /\ UNCHANGED <<now, engagement, attested, leases, queue, permits>>
-----------------------------------------------------------------------------
\* The request planning and the broker make for a target: no context, no approval.
TargetRequest(target, clears, matches, a, l, file, rate) ==
  [target |-> target, context |-> {}, approvals |-> {}, method |-> "GET",
   identity |-> None, rate |-> rate, clears |-> clears, matches |-> matches,
   attestation |-> a, lease |-> l, store |-> file, now |-> now]

PlanStatus(decision) ==
  CASE decision = "allow" -> "authorizable"
    [] decision \in {"insufficient_context", "approval_required"} -> "blocked_context"
    [] decision = "deny" -> "blocked_policy"

\* build_observation_plan: one item per target of the registry.
BuildObservationPlan(test, review, a, l, file, rate) ==
  {[target |-> target, test |-> test.id, engagement |-> engagement.id,
    clears |-> review[target].clears, matches |-> review[target].matches,
    status |-> PlanStatus(AuthorizeTest(engagement, test,
                 TargetRequest(target, review[target].clears, review[target].matches,
                               a, l, file, rate)))] : target \in Ready}

\* build_fair_work_queue keeps the authorizable items, bound to their review.
QueueItems(plan) == {i \in plan : i.status = "authorizable"}

\* A plan is made and queued.  Attestations and leases are files the caller keeps; only
\* the derivation of detector requests names the lease store as well.
PlanAndQueue(test, review, a, l, file, rate) ==
  /\ \A target \in Ready : /\ review[target].clears \cap review[target].matches = {}
                           /\ review[target].clears \cup review[target].matches
                                \subseteq engagement.exclusions
  /\ queue' = QueueItems(BuildObservationPlan(test, review, a, l, file, rate))
  /\ UNCHANGED <<now, engagement, attested, store, pending, leases, permits>>

\* broker-permit: the item is authorized again, with the clearances bound to it.
BrokerQueuePermit(item, test, a, l, file, rate, ttl) ==
  LET r == TargetRequest(item.target, item.clears, {}, a, l, file, rate)
  IN /\ Cardinality(permits) < MaxPermits
     /\ item.engagement = engagement.id
     /\ item.test = test.id
     /\ MayIssuePermit(engagement, test, r, ttl)
     /\ permits' = permits \cup {[payload |-> NewPermit(engagement, test, r, ttl, ActiveKey),
                                  request |-> r, item |-> item]}
     /\ UNCHANGED <<now, engagement, attested, store, pending, leases, queue>>

\* issue-permit: context, approvals and semantic decisions come from the operator.
IssuePermit(test, asked, a, ttl) ==
  LET r == [asked EXCEPT !.attestation = a, !.now = now]
  IN /\ Cardinality(permits) < MaxPermits
     /\ MayIssuePermit(engagement, test, r, ttl)
     /\ permits' = permits \cup {[payload |-> NewPermit(engagement, test, r, ttl, ActiveKey),
                                  request |-> r, item |-> None]}
     /\ UNCHANGED <<now, engagement, attested, store, pending, leases, queue>>

Reviews == [Ready -> [clears : SUBSET engagement.exclusions,
                      matches : SUBSET engagement.exclusions]]

AuthorityNext ==
  \/ Pass
  \/ \E e \in Policies : ReplaceEngagement(e)
  \/ \E status \in Statuses, revision \in Revisions, error \in ClockErrors :
       Attest(status, revision, now + error)
  \/ \E c \in Clients :
       \/ \E a \in attested, ttl \in Ttls : IssueLease(c, a, ttl)
       \/ \E l \in DOMAIN store, a \in attested, ttl \in Ttls : RenewLease(c, l, a, ttl)
       \/ \E l \in DOMAIN store : RevokeLease(c, l)
       \/ WriteStore(c)
  \/ \E test \in Tests, review \in Reviews, a \in attested \cup {None}, l \in leases \cup {None},
        file \in {None, store}, rate \in Rates :
       PlanAndQueue(test, review, a, l, file, rate)
  \/ \E item \in queue, test \in Tests, a \in attested \cup {None}, l \in leases \cup {None},
        file \in {None, store}, rate \in Rates, ttl \in Ttls :
       BrokerQueuePermit(item, test, a, l, file, rate, ttl)
  \/ \E test \in Tests, asked \in DirectRequests, a \in attested \cup {None}, ttl \in Ttls :
       IssuePermit(test, asked, a, ttl)

AuthoritySpec == AuthorityInit /\ [][AuthorityNext]_authorityVars
-----------------------------------------------------------------------------
\* What is asked of a permit when it is used as it was issued.
AsIssued(p) == [target |-> p.payload.target, method |-> p.payload.method,
                identity |-> p.payload.identity, rate |-> p.request.rate, now |-> now]

Verifies(p) == \E test \in Tests : VerifyPermit(p.payload, engagement, test, AsIssued(p), SigningKeys)

\* A permit under a program that must be online never outlives the attestation it rests
\* on by more than a lease: renewing a lease does not chain beyond the first window.
OnlineHorizon ==
  \A p \in permits : p.payload.digest[1].online =>
    /\ p.payload.attestation # None
    /\ p.payload.expires < FreshUntil(p.payload.attestation) + MaxLease

\* While a permit that needed no approval verifies, the policy still allows its request:
\* at no moment does the permit let through what authorize_test would refuse then, with
\* the lease store as it was when the permit was issued.
GroundsStillHold ==
  \A p \in permits : Verifies(p) /\ p.payload.approvals = {} =>
    \E test \in Tests : /\ test.id = p.payload.test
                        /\ AuthorizeTest(engagement, test, [p.request EXCEPT !.now = now])
                             = "allow"

\* A permit of the queue rests on a review of that very target which cleared all
\* exclusions of the policy it was issued under, and matched none of them.
ReviewBound ==
  \A p \in permits : p.item # None =>
    /\ p.item.target = p.payload.target
    /\ p.payload.digest[1].exclusions \subseteq p.item.clears
    /\ p.payload.digest[1].exclusions \cap p.item.matches = {}
    /\ p.payload.target \notin p.payload.digest[1].denied

\* A permit rests on its grounds: the attestation and lease, the decision of the policy,
\* the review of the target, each for as long as it verifies.
PermitsGrounded == OnlineHorizon /\ GroundsStillHold /\ ReviewBound
=============================================================================
