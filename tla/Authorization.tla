--------------------------- MODULE Authorization ---------------------------
(***************************************************************************)
(* The policy decision: authorize_test and what it calls, the operational  *)
(* lease rules, and the issuing and verification of signed permits.  Pure  *)
(* operators; PolicyAuthority is the state machine that uses them.         *)
(*                                                                         *)
(* A scope rule stands for the set of targets it matches, a path prefix    *)
(* for the paths under it, a digest for the content it is computed from,   *)
(* a signature for the key it was made with.  A target is a record of its  *)
(* path and port; times are natural numbers.                               *)
(***************************************************************************)
EXTENDS Integers, Sequences, SequencesExt, Cascade

CONSTANTS MaxAge,           \* age at which an attestation is stale
          MinLease, MaxLease, \* bounds of a lease's duration
          Skew,             \* tolerated clock difference
          MaxPermitTtl,
          None              \* Python's None

ASSUME AgeAssumption == MaxAge \in Nat \ {0} /\ Skew \in Nat
ASSUME LeaseAssumption == MinLease \in Nat \ {0} /\ MaxLease \in Nat /\ MinLease <= MaxLease
ASSUME TtlAssumption == MaxPermitTtl \in Nat \ {0}

Decisions == {"allow", "deny", "approval_required", "insufficient_context"}
ASSUME NoneAssumption == None \notin Int \cup Decisions
-----------------------------------------------------------------------------
ApprovalMatches(a, e, t, r) ==
  /\ a.engagement = e.id
  /\ a.issued <= r.now /\ r.now < a.expires
  /\ r.target \in a.targets
  /\ a.tests = {} \/ t.id \in a.tests
  /\ a.risks = {} \/ t.risk \in a.risks
  /\ a.identities = {} \/ r.identity \in a.identities
  /\ a.rate = None \/ r.rate = None \/ r.rate <= a.rate

ValidApprovals(e, t, r) == {a \in r.approvals : ApprovalMatches(a, e, t, r)}

\* The checks of one asset constraint, in the order of the code.
AssetRows(c, r) ==
  << <<r.target.path \in c.deniedPaths, "deny">>,
     <<c.allowedPaths # {} /\ r.target.path \notin c.allowedPaths, "deny">>,
     <<c.allowedPorts # {} /\ r.target.port \notin c.allowedPorts, "deny">>,
     <<c.methods # {} /\ r.method = None, "insufficient_context">>,
     <<c.methods # {} /\ r.method \notin c.methods, "deny">>,
     <<c.identities # {} /\ r.identity = None, "insufficient_context">>,
     <<c.identities # {} /\ r.identity \notin c.identities, "deny">> >>

MatchingAssets(e, target) == SelectSeq(e.assets, LAMBDA c : target \in c.selector)

CheckAssetConstraints(e, r) ==
  LET matching == MatchingAssets(e, r.target)
  IN FirstVerdict(FlattenSeq([i \in DOMAIN matching |-> AssetRows(matching[i], r)]), None)

CheckSemanticExclusions(e, r) ==
  IF e.exclusions = {} THEN None
  ELSE FirstVerdict(
    << <<r.clears \cap r.matches # {}, "insufficient_context">>,
       <<~ (r.clears \cup r.matches) \subseteq e.exclusions, "insufficient_context">>,
       <<e.exclusions \cap r.matches # {}, "deny">>,
       <<~ e.exclusions \subseteq r.clears, "insufficient_context">> >>, None)

EffectiveRateLimit(e, r, approvals) ==
  LET matching == {c \in ToSet(e.assets) : r.target \in c.selector}
      limits == {e.rate} \cup {c.rate : c \in matching} \cup {a.rate : a \in approvals}
  IN CHOOSE n \in limits \ {None} : \A m \in limits \ {None} : n <= m
-----------------------------------------------------------------------------
\* A lease is named by the hash of its content.
NewLease(a, from, ttl) == [attestation |-> a, from |-> from, until |-> from + ttl]

FreshUntil(a) == a.observed + MaxAge

\* build_operational_lease raises unless:
MayBuildLease(e, a, from, ttl) ==
  /\ e.online
  /\ MinLease <= ttl /\ ttl <= MaxLease
  /\ a.status = "online"
  /\ a.revision = e.revision
  /\ a.observed - Skew <= from /\ from < FreshUntil(a)

LeaseIsValid(l, e, a, now) ==
  /\ e.online
  /\ a.status = "online"
  /\ l.attestation = a
  /\ a.revision = e.revision
  /\ MinLease <= l.until - l.from /\ l.until - l.from <= MaxLease
  /\ a.observed - Skew <= l.from /\ l.from < FreshUntil(a)
  /\ l.from <= now /\ now < l.until

\* The durable store is a function from the leases it knows to their records.
RequireValid(store, l, e, a, now) ==
  /\ l \in DOMAIN store
  /\ store[l].status = "active"
  /\ LeaseIsValid(l, e, a, now)
-----------------------------------------------------------------------------
Stale(r) == r.attestation # None /\ FreshUntil(r.attestation) <= r.now

Leased(e, r) ==
  /\ r.attestation # None /\ r.lease # None /\ r.store # None
  /\ RequireValid(r.store, r.lease, e, r.attestation, r.now)

CheckProgramOperationalGate(e, r) ==
  LET a == r.attestation
      known == a # None
  IN IF ~e.online THEN None ELSE FirstVerdict(
    << <<~known, "insufficient_context">>,
       <<known /\ a.revision # e.revision, "insufficient_context">>,
       <<known /\ a.observed > r.now + Skew, "insufficient_context">>,
       <<Stale(r) /\ ~Leased(e, r), "insufficient_context">>,
       <<known /\ ~Stale(r) /\ a.status = "offline", "deny">>,
       <<known /\ ~Stale(r) /\ a.status # "online", "insufficient_context">> >>, None)

\* Until when a request that passes the gate is backed by its status.
GateValidUntil(e, r) ==
  IF ~e.online THEN None
  ELSE IF Stale(r) THEN r.lease.until ELSE FreshUntil(r.attestation)

AuthorizeTest(e, t, r) ==
  LET approvals == ValidApprovals(e, t, r)
      allowed == r.target \in e.allowed
      conditional == r.target \in e.conditional
      gate == CheckProgramOperationalGate(e, r)
      semantic == CheckSemanticExclusions(e, r)
      asset == CheckAssetConstraints(e, r)
      rate == EffectiveRateLimit(e, r, approvals)
  IN FirstVerdict(
    << <<r.target \in e.denied, "deny">>,
       <<conditional /\ ~allowed /\ approvals = {}, "approval_required">>,
       <<~conditional /\ ~allowed, "deny">>,
       <<gate # None, gate>>,
       <<semantic # None, semantic>>,
       <<asset # None, asset>>,
       <<~ t.context \subseteq r.context, "insufficient_context">>,
       <<e.risk[t.risk] = "deny", "deny">>,
       <<e.risk[t.risk] = "approval_required" /\ approvals = {}, "approval_required">>,
       <<r.rate # None /\ r.rate > rate, "deny">> >>, "allow")

\* The evaluator of the first milestones: it knows neither the gate nor the exclusions.
EvaluateTest(e, t, target, context, approved) ==
  LET verdict == e.risk[t.risk]
  IN FirstVerdict(
    << <<target \in e.denied \/ target \notin e.allowed, "deny">>,
       <<~ t.context \subseteq context, "insufficient_context">>,
       <<verdict = "approval_required" /\ approved, "allow">> >>, verdict)
-----------------------------------------------------------------------------
\* Mutant: the permit lives for its TTL.
PermitExpiry_Ttl(e, r, ttl) == r.now + ttl

PermitExpiry(e, r, ttl) ==
  LET until == GateValidUntil(e, r)
  IN IF until = None \/ r.now + ttl <= until THEN r.now + ttl ELSE until

MayIssuePermit(e, t, r, ttl) ==
  /\ AuthorizeTest(e, t, r) = "allow"
  /\ 1 <= ttl /\ ttl <= MaxPermitTtl
  /\ r.now < PermitExpiry(e, r, ttl)

NewPermit(e, t, r, ttl, key) ==
  LET approvals == ValidApprovals(e, t, r)
  IN [key |-> key, engagement |-> e.id, test |-> t.id, risk |-> t.risk,
      digest |-> <<e, t>>, target |-> r.target, method |-> r.method,
      identity |-> r.identity, rate |-> EffectiveRateLimit(e, r, approvals),
      approvals |-> approvals, attestation |-> r.attestation,
      issued |-> r.now, expires |-> PermitExpiry(e, r, ttl)]

\* q: what is about to be done, and when.
VerifyPermit(p, e, t, q, keys) ==
  /\ p.key \in keys
  /\ p.issued <= q.now /\ q.now < p.expires
  /\ p.engagement = e.id /\ p.test = t.id
  /\ p.risk = t.risk
  /\ p.digest = <<e, t>>
  /\ p.target = q.target /\ p.method = q.method /\ p.identity = q.identity
  /\ q.rate = None \/ q.rate <= p.rate
=============================================================================
