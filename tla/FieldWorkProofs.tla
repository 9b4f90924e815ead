--------------------------- MODULE FieldWorkProofs ---------------------------
(***************************************************************************)
(* The safety of the admission database for any workers, permits, targets  *)
(* and clock, and the rates for which it spaces requests; and the grounds  *)
(* of a permit, for any policies, tests, requests and leases; what the     *)
(* runner of local development claims to have validated; and the fairness  *)
(* of the queue over the plans of several programs.                        *)
(***************************************************************************)
EXTENDS RuntimeAdmission, PolicyAuthority, AutonomousRunner, PlannerQueue, FiniteSetTheorems,
        WellFoundedInduction, TLAPS

USE DEF RateAllows, NotUsed, MayRevoke, RolledBack

\* Every reachable state is well typed.
THEOREM TypeCorrect == AdmissionSpec => []AdmissionTypeOK
<1>1. AdmissionInit => AdmissionTypeOK
  BY TimeAssumption DEF AdmissionInit, AdmissionTypeOK, Instants, Status
<1>2. AdmissionTypeOK /\ [AdmissionNext]_admissionVars => AdmissionTypeOK'
  <2> SUFFICES ASSUME AdmissionTypeOK, [AdmissionNext]_admissionVars PROVE AdmissionTypeOK'
    OBVIOUS
  <2>1. ASSUME NEW w \in Workers, Verify(w) PROVE AdmissionTypeOK'
    <3>1. PICK p \in Permits :
            request' = [request EXCEPT ![w] = [permit |-> p, at |-> clock]]
      BY <2>1 DEF Verify
    <3>2. [permit |-> p, at |-> clock] \in Request
      BY DEF AdmissionTypeOK, Request
    <3> QED
      BY <2>1, <3>1, <3>2 DEF AdmissionTypeOK, Verify
  <2>2. ASSUME NEW w \in Workers, Admit(w) PROVE AdmissionTypeOK'
    <3>1. request[w] \in Request
      BY <2>2 DEF AdmissionTypeOK, Admit
    <3>2. [key |-> Key[request[w].permit], at |-> request[w].at] \in RateEvent
      BY <3>1, KeyAssumption DEF Request, RateEvent
    <3> QED
      BY <2>2, <3>1, <3>2 DEF AdmissionTypeOK, Admit, Request, Status
  <2>3. ASSUME NEW w \in Workers, Reject(w) PROVE AdmissionTypeOK'
    BY <2>3 DEF AdmissionTypeOK, Reject
  <2>4. ASSUME NEW w \in Workers, Lose(w) PROVE AdmissionTypeOK'
    BY <2>4 DEF AdmissionTypeOK, Lose
  <2>5. ASSUME NEW p \in Permits, Revoke(p) PROVE AdmissionTypeOK'
    BY <2>5 DEF AdmissionTypeOK, Revoke, Status
  <2>6. CASE Tick
    BY <2>6, TimeAssumption DEF AdmissionTypeOK, Tick, Instants
  <2>7. CASE UNCHANGED admissionVars
    BY <2>7 DEF AdmissionTypeOK, admissionVars
  <2> QED
    BY <2>1, <2>2, <2>3, <2>4, <2>5, <2>6, <2>7 DEF AdmissionNext
<1> QED
  BY <1>1, <1>2, PTL DEF AdmissionSpec

\* A worker that waits has an admission request.
LEMMA RequestType ==
  ASSUME AdmissionTypeOK, NEW w \in Workers, request[w] # NoRequest
  PROVE  /\ request[w] \in Request
         /\ request[w].permit \in Permits
         /\ request[w].at \in Int
         /\ Key[request[w].permit] \in Keys
BY KeyAssumption DEF AdmissionTypeOK, Request, Instants

\* Only admissions and revocations touch the tables and the history.
LEMMA TableStep ==
  ASSUME [AdmissionNext]_admissionVars
  PROVE  \/ UNCHANGED <<permitState, rateEvents, grants, admitted>>
         \/ \E w \in Workers : Admit(w)
         \/ \E p \in Permits : Revoke(p)
BY DEF AdmissionNext, admissionVars, Verify, Reject, Lose, Tick

\* The runtime database behaves as the one-shot permit (admit_worker_action
\* against itself and against revoke_runtime_permit).
THEOREM RefinesOneShot == AdmissionSpec => ImplementsOneShot
<1>1. AdmissionInit => OneShot!Init
  BY DEF AdmissionInit, OneShot!Init
<1>2. AdmissionTypeOK /\ [AdmissionNext]_admissionVars => [OneShot!Next]_OneShot!vars
  <2> SUFFICES ASSUME AdmissionTypeOK, [AdmissionNext]_admissionVars
               PROVE  [OneShot!Next]_OneShot!vars
    OBVIOUS
  <2>1. CASE UNCHANGED <<permitState, rateEvents, grants, admitted>>
    BY <2>1 DEF OneShot!vars
  <2>2. ASSUME NEW w \in Workers, Admit(w) PROVE OneShot!Next
    <3>1. OneShot!Grant(request[w].permit)
      BY <2>2 DEF Admit, OneShot!Grant
    <3> QED
      BY <2>2, <3>1, RequestType DEF Admit, OneShot!Next
  <2>3. ASSUME NEW p \in Permits, Revoke(p) PROVE OneShot!Next
    BY <2>3 DEF Revoke, OneShot!Revoke, OneShot!Next
  <2> QED
    BY <2>1, <2>2, <2>3, TableStep
<1> QED
  BY <1>1, <1>2, TypeCorrect, PTL DEF AdmissionSpec, ImplementsOneShot, OneShot!Spec

\* A consumed permit has an accepted admission and conversely, and every rate
\* event was put there by one.
THEOREM AdmissionIsAtomic == AdmissionSpec => []AdmissionAtomic
<1>1. AdmissionInit => AdmissionAtomic
  BY DEF AdmissionInit, AdmissionAtomic
<1>2. AdmissionTypeOK /\ AdmissionAtomic /\ [AdmissionNext]_admissionVars => AdmissionAtomic'
  <2> SUFFICES ASSUME AdmissionTypeOK, AdmissionAtomic, [AdmissionNext]_admissionVars
               PROVE  AdmissionAtomic'
    OBVIOUS
  <2>1. CASE UNCHANGED <<permitState, rateEvents, grants, admitted>>
    BY <2>1 DEF AdmissionAtomic
  <2>2. ASSUME NEW w \in Workers, Admit(w) PROVE AdmissionAtomic'
    BY <2>2, RequestType DEF AdmissionTypeOK, AdmissionAtomic, Admit, Request
  <2>3. ASSUME NEW p \in Permits, Revoke(p) PROVE AdmissionAtomic'
    BY <2>3 DEF AdmissionTypeOK, AdmissionAtomic, Revoke
  <2> QED
    BY <2>1, <2>2, <2>3, TableStep
<1> QED
  BY <1>1, <1>2, TypeCorrect, PTL DEF AdmissionSpec

(***************************************************************************)
(* Rate spacing.  A rate event may be deleted, but only by an admission to *)
(* the same target at least a Window later, which leaves its own event:    *)
(* every admission is remembered by an event of its own instant or by one  *)
(* a Window younger.                                                       *)
(***************************************************************************)
Remembered ==
  \A a \in admitted : \E e \in rateEvents :
    e.key = Key[a.permit] /\ (e.at = a.at \/ e.at - a.at >= Window)

\* At any rate, two admissions to a target are never closer than the minimum interval
\* or the second for which events are kept, whichever is shorter (admit_worker_action).
THEOREM RequestsAreSpaced == AdmissionSpec => []RateSpacing
<1> USE TimeAssumption
<1> DEFINE SInv == Remembered /\ RateSpacing
<1>1. AdmissionInit => SInv
  BY DEF AdmissionInit, Remembered, RateSpacing, Spaced
<1>2. AdmissionTypeOK /\ SInv /\ [AdmissionNext]_admissionVars => SInv'
  <2> SUFFICES ASSUME AdmissionTypeOK, SInv, [AdmissionNext]_admissionVars
               PROVE  SInv'
    OBVIOUS
  <2>1. CASE UNCHANGED <<permitState, rateEvents, grants, admitted>>
    BY <2>1 DEF Remembered, RateSpacing, Spaced
  <2>2. ASSUME NEW w \in Workers, Admit(w) PROVE SInv'
    <3> DEFINE new == request[w]
               k == Key[new.permit]
               entry == [key |-> k, at |-> new.at]
    <3>1. new \in Request /\ new.at \in Int
      BY <2>2, RequestType DEF Admit
    <3>2. /\ admitted' = admitted \cup {new}
          /\ rateEvents' = (rateEvents \ Expired(k, new.at)) \cup {entry}
          /\ \A e \in rateEvents \ Expired(k, new.at) :
               e.key = k => new.at - e.at >= Interval
      BY <2>2 DEF Admit
    <3>3. \A a \in admitted : a.at \in Int
      BY DEF AdmissionTypeOK, Request, Instants
    <3>4. \A e \in rateEvents : e.at \in Int
      BY DEF AdmissionTypeOK, RateEvent, Instants
    <3>5. entry \in rateEvents' /\ entry.key = k /\ entry.at = new.at
      BY <3>2
    <3> HIDE DEF new, entry, k
    <3>6. ASSUME NEW a \in admitted, Key[a.permit] = k
          PROVE  new.at - a.at >= Enforced
      <4>1. PICK e \in rateEvents :
              e.key = k /\ (e.at = a.at \/ e.at - a.at >= Window)
        BY <3>6 DEF Remembered
      <4>2. CASE e \in Expired(k, new.at)
        BY <3>1, <3>3, <3>4, <4>1, <4>2 DEF Expired, Enforced
      <4>3. CASE e \notin Expired(k, new.at)
        BY <3>1, <3>2, <3>3, <3>4, <4>1, <4>3 DEF Enforced
      <4> QED
        BY <4>2, <4>3
    <3>7. Remembered'
      <4> SUFFICES ASSUME NEW a \in admitted'
                   PROVE  \E e \in rateEvents' :
                            /\ e.key = Key[a.permit]
                            /\ e.at = a.at \/ e.at - a.at >= Window
        BY DEF Remembered
      <4>1. CASE a = new
        BY <3>5, <4>1 DEF k
      <4>2. CASE a \in admitted
        <5>1. PICK e \in rateEvents :
                e.key = Key[a.permit] /\ (e.at = a.at \/ e.at - a.at >= Window)
          BY <4>2 DEF Remembered
        <5>2. CASE e \in Expired(k, new.at)
          <6>1. e.key = k /\ e.at <= new.at - Window
            BY <5>2 DEF Expired
          <6>2. new.at - a.at >= Window
            BY <3>1, <3>3, <3>4, <4>2, <5>1, <6>1
          <6> QED
            BY <3>5, <5>1, <6>1, <6>2
        <5>3. CASE e \notin Expired(k, new.at)
          BY <3>2, <5>1, <5>3
        <5> QED
          BY <5>2, <5>3
      <4> QED
        BY <3>2, <4>1, <4>2
    <3>8. RateSpacing'
      <4>1. Enforced \in Int
        BY DEF Enforced
      <4> QED BY <3>1, <3>2, <3>3, <3>6, <4>1 DEF RateSpacing, Spaced, Apart, k, Enforced
    <3> QED
      BY <3>7, <3>8
  <2>3. ASSUME NEW p \in Permits, Revoke(p) PROVE SInv'
    BY <2>3 DEF Remembered, RateSpacing, Spaced, Revoke
  <2> QED
    BY <2>1, <2>2, <2>3, TableStep
<1> QED
  BY <1>1, <1>2, TypeCorrect, PTL DEF AdmissionSpec

\* An admission writes all or nothing and keeps its distance, in whatever order
\* stale instants commit (admit_worker_action).
THEOREM AdmissionsAreSound == AdmissionSpec => []AdmissionSound
<1>1. AdmissionAtomic /\ RateSpacing => AdmissionSound
  BY DEF AdmissionSound
<1> QED
  BY <1>1, RequestsAreSpaced, AdmissionIsAtomic, PTL
-----------------------------------------------------------------------------
(* Policy and permits.                                                       *)

\* A cascade returns the verdict of its first row that applies.
LEMMA FirstHit ==
  ASSUME NEW cascade, NEW n \in Nat, DOMAIN cascade = 1..n, NEW otherwise, NEW k \in 1..n,
         cascade[k][1], \A j \in 1..n : j < k => ~cascade[j][1]
  PROVE  FirstVerdict(cascade, otherwise) = cascade[k][2]
<1> DEFINE hits == {i \in DOMAIN cascade : cascade[i][1]}
<1>1. k \in hits /\ \A j \in hits : k <= j
  OBVIOUS
<1>2. \A i \in hits : (\A j \in hits : i <= j) => i = k
  OBVIOUS
<1>3. (CHOOSE i \in hits : \A j \in hits : i <= j) = k
  BY <1>1, <1>2
<1> QED
  BY <1>1, <1>3 DEF FirstVerdict

LEMMA NoHit ==
  ASSUME NEW cascade, NEW otherwise, \A j \in DOMAIN cascade : ~cascade[j][1]
  PROVE  FirstVerdict(cascade, otherwise) = otherwise
BY DEF FirstVerdict

LEMMA NatLeast ==
  ASSUME NEW T, T \subseteq Nat, T # {}
  PROVE  \E x \in T : \A y \in T : x <= y
<1>1. PICK x \in T : \A y \in T : ~ (<<y, x>> \in OpToRel(<, Nat))
  BY WFMin, NatLessThanWellFounded
<1>2. x \in T /\ \A y \in T : ~ (y < x)
  BY <1>1 DEF OpToRel
<1> QED
  BY <1>2

\* A cascade one of whose rows applies stops at the first that does.
FirstRow(cascade) ==
  CHOOSE k \in DOMAIN cascade : cascade[k][1] /\ \A i \in DOMAIN cascade : i < k => ~cascade[i][1]

LEMMA Cascades ==
  ASSUME NEW cascade, NEW n \in Nat, DOMAIN cascade = 1..n, NEW otherwise,
         NEW m \in 1..n, cascade[m][1]
  PROVE  /\ FirstRow(cascade) \in 1..n /\ cascade[FirstRow(cascade)][1]
         /\ \A i \in 1..n : i < FirstRow(cascade) => ~cascade[i][1]
         /\ FirstVerdict(cascade, otherwise) = cascade[FirstRow(cascade)][2]
<1> DEFINE hits == {i \in DOMAIN cascade : cascade[i][1]}
<1>1. hits \subseteq Nat /\ hits # {}
  OBVIOUS
<1> HIDE DEF hits
<1>2. PICK k \in hits : \A i \in hits : k <= i
  BY <1>1, NatLeast
<1> USE DEF hits
<1>3. k \in 1..n /\ cascade[k][1] /\ \A i \in 1..n : i < k => ~cascade[i][1]
  BY <1>2
<1>4. /\ FirstRow(cascade) \in 1..n /\ cascade[FirstRow(cascade)][1]
      /\ \A i \in 1..n : i < FirstRow(cascade) => ~cascade[i][1]
  BY <1>3 DEF FirstRow
<1>5. FirstVerdict(cascade, otherwise) = cascade[FirstRow(cascade)][2]
  BY <1>4, FirstHit
<1> QED
  BY <1>4, <1>5

\* What passes the gate of a program that must be online.
GatePasses(e, r) ==
  e.online =>
    /\ r.attestation # None
    /\ r.attestation.revision = e.revision
    /\ ~ (r.attestation.observed > r.now + Skew)
    /\ Stale(r) => Leased(e, r)
    /\ ~Stale(r) => r.attestation.status = "online"

LEMMA GateIsPassed ==
  ASSUME NEW e, NEW r, e.online \in BOOLEAN
  PROVE  /\ CheckProgramOperationalGate(e, r) \in {None, "insufficient_context", "deny"}
         /\ CheckProgramOperationalGate(e, r) = None <=> GatePasses(e, r)
<1>1. CASE ~e.online
  BY <1>1 DEF CheckProgramOperationalGate, GatePasses
<1>2. CASE e.online
  <2> DEFINE a == r.attestation
             known == a # None
             cascade == << <<~known, "insufficient_context">>,
                        <<known /\ a.revision # e.revision, "insufficient_context">>,
                        <<known /\ a.observed > r.now + Skew, "insufficient_context">>,
                        <<Stale(r) /\ ~Leased(e, r), "insufficient_context">>,
                        <<known /\ ~Stale(r) /\ a.status = "offline", "deny">>,
                        <<known /\ ~Stale(r) /\ a.status # "online", "insufficient_context">> >>
  <2>1. CheckProgramOperationalGate(e, r) = FirstVerdict(cascade, None)
    BY <1>2 DEF CheckProgramOperationalGate
  <2>2. DOMAIN cascade = 1..6 /\ 6 \in Nat
    OBVIOUS
  <2>3. /\ cascade[1][1] <=> ~known
        /\ cascade[2][1] <=> (known /\ a.revision # e.revision)
        /\ cascade[3][1] <=> (known /\ a.observed > r.now + Skew)
        /\ cascade[4][1] <=> (Stale(r) /\ ~Leased(e, r))
        /\ cascade[5][1] <=> (known /\ ~Stale(r) /\ a.status = "offline")
        /\ cascade[6][1] <=> (known /\ ~Stale(r) /\ a.status # "online")
    OBVIOUS
  <2>4. \A j \in 1..6 : cascade[j][2] \in {"insufficient_context", "deny"}
    OBVIOUS
  <2> HIDE DEF cascade
  <2>5. (\A j \in 1..6 : ~cascade[j][1]) <=> GatePasses(e, r)
    <3>1. (\A j \in 1..6 : ~cascade[j][1]) <=>
            /\ ~cascade[1][1] /\ ~cascade[2][1] /\ ~cascade[3][1] /\ ~cascade[4][1] /\ ~cascade[5][1]
            /\ ~cascade[6][1]
      OBVIOUS
    <3> HIDE DEF a
    <3>2. (\A j \in 1..6 : ~cascade[j][1]) <=>
            /\ a # None /\ a.revision = e.revision /\ ~ (a.observed > r.now + Skew)
            /\ Stale(r) => Leased(e, r)
            /\ ~Stale(r) => a.status = "online"
      BY <3>1, <2>3
    <3> QED
      BY <1>2, <3>2 DEF GatePasses, a
  <2>6. None \notin {"insufficient_context", "deny"}
    BY NoneAssumption DEF Decisions
  <2>7. CASE \A j \in 1..6 : ~cascade[j][1]
    BY <2>1, <2>2, <2>5, <2>7, NoHit
  <2>8. CASE \E j \in 1..6 : cascade[j][1]
    <3> PICK m \in 1..6 : cascade[m][1]
      BY <2>8
    <3>1. FirstRow(cascade) \in 1..6 /\ FirstVerdict(cascade, None) = cascade[FirstRow(cascade)][2]
      BY <2>1, <2>2, Cascades
    <3> QED
      BY <2>1, <2>4, <2>5, <2>6, <2>8, <3>1
  <2> QED
    BY <2>7, <2>8
<1> QED
  BY <1>1, <1>2

\* What a request was cleared of.
LEMMA SemanticsArePassed ==
  ASSUME NEW e, NEW r
  PROVE  /\ CheckSemanticExclusions(e, r) \in {None, "insufficient_context", "deny"}
         /\ CheckSemanticExclusions(e, r) = None => e.exclusions \subseteq r.clears
<1>1. CASE e.exclusions = {}
  BY <1>1 DEF CheckSemanticExclusions
<1>2. CASE e.exclusions # {}
  <2> DEFINE cascade ==
    << <<r.clears \cap r.matches # {}, "insufficient_context">>,
       <<~ (r.clears \cup r.matches) \subseteq e.exclusions, "insufficient_context">>,
       <<e.exclusions \cap r.matches # {}, "deny">>,
       <<~ e.exclusions \subseteq r.clears, "insufficient_context">> >>
  <2>1. CheckSemanticExclusions(e, r) = FirstVerdict(cascade, None)
    BY <1>2 DEF CheckSemanticExclusions
  <2>2. DOMAIN cascade = 1..4 /\ 4 \in Nat /\ cascade[4][1] = ~ (e.exclusions \subseteq r.clears)
    OBVIOUS
  <2>3. \A j \in 1..4 : cascade[j][2] \in {"insufficient_context", "deny"}
    OBVIOUS
  <2> HIDE DEF cascade
  <2>4. None \notin {"insufficient_context", "deny"}
    BY NoneAssumption DEF Decisions
  <2>5. CASE \A j \in 1..4 : ~cascade[j][1]
    <3>1. e.exclusions \subseteq r.clears
      <4>1. ~cascade[4][1]
        BY <2>5
      <4> QED
        BY <2>2, <4>1, Zenon
    <3>2. FirstVerdict(cascade, None) = None
      BY <2>2, <2>5, NoHit
    <3> QED
      BY <2>1, <3>1, <3>2
  <2>6. CASE \E j \in 1..4 : cascade[j][1]
    <3> PICK m \in 1..4 : cascade[m][1]
      BY <2>6
    <3>1. FirstRow(cascade) \in 1..4 /\ FirstVerdict(cascade, None) = cascade[FirstRow(cascade)][2]
      BY <2>1, <2>2, Cascades
    <3> QED
      BY <2>1, <2>3, <2>4, <3>1
  <2> QED
    BY <2>5, <2>6
<1> QED
  BY <1>1, <1>2

\* What a request that is allowed has passed.  Only the check of the asset
\* constraints is taken as it is.
Passed(e, t, r) ==
  LET approvals == ValidApprovals(e, t, r)
      asset == CheckAssetConstraints(e, r)
  IN /\ r.target \notin e.denied
     /\ r.target \in e.allowed \/ (r.target \in e.conditional /\ approvals # {})
     /\ CheckProgramOperationalGate(e, r) = None
     /\ CheckSemanticExclusions(e, r) = None
     /\ asset # None => asset = "allow"
     /\ asset = None =>
          /\ t.context \subseteq r.context
          /\ e.risk[t.risk] # "deny"
          /\ ~ (e.risk[t.risk] = "approval_required" /\ approvals = {})
          /\ ~ (r.rate # None /\ r.rate > EffectiveRateLimit(e, r, approvals))

LEMMA AllowedHasPassed ==
  ASSUME NEW e, NEW t, NEW r, e.online \in BOOLEAN
  PROVE  AuthorizeTest(e, t, r) = "allow" <=> Passed(e, t, r)
<1> DEFINE approvals == ValidApprovals(e, t, r)
           allowed == r.target \in e.allowed
           conditional == r.target \in e.conditional
           gate == CheckProgramOperationalGate(e, r)
           semantic == CheckSemanticExclusions(e, r)
           asset == CheckAssetConstraints(e, r)
           rate == EffectiveRateLimit(e, r, approvals)
           cascade == << <<r.target \in e.denied, "deny">>,
                      <<conditional /\ ~allowed /\ approvals = {}, "approval_required">>,
                      <<~conditional /\ ~allowed, "deny">>,
                      <<gate # None, gate>>,
                      <<semantic # None, semantic>>,
                      <<asset # None, asset>>,
                      <<~ t.context \subseteq r.context, "insufficient_context">>,
                      <<e.risk[t.risk] = "deny", "deny">>,
                      <<e.risk[t.risk] = "approval_required" /\ approvals = {}, "approval_required">>,
                      <<r.rate # None /\ r.rate > rate, "deny">> >>
<1>1. AuthorizeTest(e, t, r) = FirstVerdict(cascade, "allow")
  BY DEF AuthorizeTest
<1>2. DOMAIN cascade = 1..10 /\ 10 \in Nat /\ 6 \in 1..10
  OBVIOUS
<1> HIDE DEF approvals, gate, semantic, asset, rate, allowed, conditional
<1>3. /\ cascade[1][1] <=> (r.target \in e.denied)
      /\ cascade[2][1] <=> (conditional /\ ~allowed /\ approvals = {})
      /\ cascade[3][1] <=> (~conditional /\ ~allowed)
      /\ cascade[4][1] <=> (gate # None)
      /\ cascade[5][1] <=> (semantic # None)
      /\ cascade[6][1] <=> (asset # None)
      /\ cascade[7][1] <=> (~ t.context \subseteq r.context)
      /\ cascade[8][1] <=> (e.risk[t.risk] = "deny")
      /\ cascade[9][1] <=> (e.risk[t.risk] = "approval_required" /\ approvals = {})
      /\ cascade[10][1] <=> (r.rate # None /\ r.rate > rate)
  OBVIOUS
<1>4. /\ cascade[1][2] = "deny" /\ cascade[2][2] = "approval_required" /\ cascade[3][2] = "deny"
      /\ cascade[4][2] = gate /\ cascade[5][2] = semantic /\ cascade[6][2] = asset
      /\ \A j \in 7..10 : cascade[j][2] # "allow"
  OBVIOUS
<1> HIDE DEF cascade
<1>5. /\ gate \in {None, "insufficient_context", "deny"}
      /\ semantic \in {None, "insufficient_context", "deny"}
      /\ None # "allow"
  BY GateIsPassed, SemanticsArePassed, NoneAssumption DEF gate, semantic, Decisions
<1>6. AuthorizeTest(e, t, r) = "allow" <=>
        \/ \A j \in 1..10 : ~cascade[j][1]
        \/ asset = "allow" /\ cascade[6][1] /\ \A j \in 1..5 : ~cascade[j][1]
  <2>1. ASSUME AuthorizeTest(e, t, r) = "allow", NEW k \in 1..10, cascade[k][1],
               \A j \in 1..10 : j < k => ~cascade[j][1], FirstVerdict(cascade, "allow") = cascade[k][2]
        PROVE  k = 6
    BY <1>1, <1>3, <1>4, <1>5, <2>1
  <2>2. ASSUME asset = "allow", cascade[6][1], \A j \in 1..5 : ~cascade[j][1]
        PROVE  AuthorizeTest(e, t, r) = "allow"
    <3>1. \A j \in 1..10 : j < 6 => ~cascade[j][1]
      BY <2>2
    <3>2. FirstVerdict(cascade, "allow") = cascade[6][2]
      BY <1>2, <2>2, <3>1, FirstHit
    <3> QED
      BY <1>1, <1>4, <2>2, <3>2
  <2>3. ASSUME \A j \in 1..10 : ~cascade[j][1] PROVE AuthorizeTest(e, t, r) = "allow"
    BY <1>1, <1>2, <2>3, NoHit
  <2>4. ASSUME AuthorizeTest(e, t, r) = "allow", \E j \in 1..10 : cascade[j][1]
        PROVE  asset = "allow" /\ cascade[6][1] /\ \A j \in 1..5 : ~cascade[j][1]
    <3> DEFINE k == FirstRow(cascade)
    <3> PICK m \in 1..10 : cascade[m][1]
      BY <2>4
    <3>1. /\ k \in 1..10 /\ cascade[k][1] /\ \A j \in 1..10 : j < k => ~cascade[j][1]
          /\ FirstVerdict(cascade, "allow") = cascade[k][2]
      BY <1>1, <1>2, Cascades
    <3> HIDE DEF k
    <3>2. k = 6
      BY <2>1, <2>4, <3>1
    <3>3. cascade[6][1] /\ (\A j \in 1..10 : j < 6 => ~cascade[j][1])
          /\ FirstVerdict(cascade, "allow") = cascade[6][2]
      BY <3>1, <3>2
    <3> QED
      BY <1>1, <1>4, <2>4, <3>3
  <2> QED
    BY <1>1, <2>2, <2>3, <2>4
<1>7. (\A j \in 1..10 : ~cascade[j][1]) <=>
        /\ ~cascade[1][1] /\ ~cascade[2][1] /\ ~cascade[3][1] /\ ~cascade[4][1] /\ ~cascade[5][1]
        /\ ~cascade[6][1] /\ ~cascade[7][1] /\ ~cascade[8][1] /\ ~cascade[9][1] /\ ~cascade[10][1]
  OBVIOUS
<1>8. (\A j \in 1..5 : ~cascade[j][1]) <=>
        ~cascade[1][1] /\ ~cascade[2][1] /\ ~cascade[3][1] /\ ~cascade[4][1] /\ ~cascade[5][1]
  OBVIOUS
<1>9. AuthorizeTest(e, t, r) = "allow" <=>
        /\ r.target \notin e.denied
        /\ allowed \/ (conditional /\ approvals # {})
        /\ gate = None /\ semantic = None
        /\ asset # None => asset = "allow"
        /\ asset = None =>
             /\ t.context \subseteq r.context
             /\ e.risk[t.risk] # "deny"
             /\ ~ (e.risk[t.risk] = "approval_required" /\ approvals = {})
             /\ ~ (r.rate # None /\ r.rate > rate)
  BY <1>3, <1>5, <1>6, <1>7, <1>8
<1> QED
  BY <1>9 DEF Passed, approvals, gate, semantic, asset, rate, allowed, conditional

\* A set of rates has a least one, which a rate keeps to when it keeps to all.
LEMMA LeastLimit ==
  ASSUME NEW limits, limits \subseteq Nat \cup {None}, limits \ {None} # {},
         NEW least, least = CHOOSE n \in limits \ {None} : \A m \in limits \ {None} : n <= m
  PROVE  least \in limits \ {None} /\ \A m \in limits \ {None} : least <= m
BY NatLeast

\* The rates that limit a request.
Limits(e, r, approvals) ==
  {e.rate} \cup {c.rate : c \in {c \in ToSet(e.assets) : r.target \in c.selector}}
           \cup {a.rate : a \in approvals}

WellFormed(r) ==
  /\ DOMAIN r = {"target", "context", "approvals", "method", "identity", "rate", "clears",
                 "matches", "attestation", "lease", "store", "now"}
  /\ r.now \in Nat
  /\ r.rate \in Nat \cup {None}
  /\ \A a \in r.approvals : a.rate \in Nat \cup {None}
  /\ r.attestation # None => r.attestation.observed \in Int
  /\ r.lease # None => r.lease.from \in Int /\ r.lease.until \in Int

LEMMA RateIsLeast ==
  ASSUME NEW e \in Policies, NEW r, WellFormed(r), NEW approvals \in SUBSET r.approvals
  PROVE  /\ EffectiveRateLimit(e, r, approvals) \in Limits(e, r, approvals) \ {None}
         /\ EffectiveRateLimit(e, r, approvals) \in Nat
         /\ \A m \in Limits(e, r, approvals) \ {None} :
              EffectiveRateLimit(e, r, approvals) <= m
<1>1. Limits(e, r, approvals) \subseteq Nat \cup {None}
  BY PoliciesAssumption DEF Limits, WellFormed
<1>2. e.rate \in Limits(e, r, approvals) \ {None}
  BY PoliciesAssumption, NoneAssumption DEF Limits
<1>3. EffectiveRateLimit(e, r, approvals) =
        CHOOSE n \in Limits(e, r, approvals) \ {None} :
          \A m \in Limits(e, r, approvals) \ {None} : n <= m
  BY DEF EffectiveRateLimit, Limits
<1> QED
  BY <1>1, <1>2, <1>3, LeastLimit

\* What was allowed without an approval is allowed as long as a permit for it
\* would last: nothing else a decision depends on changes with the time.
LEMMA StillAllowed ==
  ASSUME NEW e \in Policies, NEW t, NEW r, WellFormed(r), AuthorizeTest(e, t, r) = "allow",
         ValidApprovals(e, t, r) = {}, NEW time \in Nat, r.now <= time,
         GateValidUntil(e, r) # None => time < GateValidUntil(e, r)
  PROVE  AuthorizeTest(e, t, [r EXCEPT !.now = time]) = "allow"
<1> DEFINE later == [r EXCEPT !.now = time]
<1>1. /\ later.now = time
      /\ later.target = r.target /\ later.context = r.context /\ later.method = r.method
      /\ later.identity = r.identity /\ later.rate = r.rate /\ later.clears = r.clears
      /\ later.matches = r.matches /\ later.attestation = r.attestation
      /\ later.lease = r.lease /\ later.store = r.store /\ later.approvals = r.approvals
      /\ DOMAIN later = DOMAIN r
  BY DEF WellFormed
<1> HIDE DEF later
<1>2. e.online \in BOOLEAN
  BY PoliciesAssumption
<1>3. Passed(e, t, r)
  BY <1>2, AllowedHasPassed
<1>4. CheckSemanticExclusions(e, later) = CheckSemanticExclusions(e, r)
  BY <1>1 DEF CheckSemanticExclusions
<1>5. CheckAssetConstraints(e, later) = CheckAssetConstraints(e, r)
  <2>1. \A c : AssetRows(c, later) = AssetRows(c, r)
    BY <1>1 DEF AssetRows
  <2> QED
    BY <1>1, <2>1 DEF CheckAssetConstraints
<1>6. GatePasses(e, later)
  <2>1. GatePasses(e, r)
    BY <1>2, <1>3, GateIsPassed DEF Passed
  <2>2. CASE ~e.online
    BY <2>2 DEF GatePasses
  <2>3. CASE e.online /\ Stale(r)
    <3>1. Leased(e, r) /\ GateValidUntil(e, r) = r.lease.until
      BY <2>1, <2>3 DEF GatePasses, GateValidUntil
    <3>2. r.lease.until \in Int /\ time < r.lease.until /\ r.lease.from <= r.now
      BY <3>1, NoneAssumption DEF WellFormed, Leased, RequireValid, LeaseIsValid
    <3>3. Leased(e, later)
      BY <1>1, <3>1, <3>2 DEF Leased, RequireValid, LeaseIsValid, WellFormed
    <3>4. Stale(later)
      BY <1>1, <2>3, AgeAssumption DEF Stale, FreshUntil, WellFormed
    <3> QED
      BY <1>1, <2>1, <2>3, <3>3, <3>4, AgeAssumption DEF GatePasses, WellFormed
  <2>4. CASE e.online /\ ~Stale(r)
    <3>1. r.attestation # None /\ r.attestation.observed \in Int
      BY <2>1, <2>4 DEF GatePasses, WellFormed
    <3>2. time < FreshUntil(r.attestation) /\ FreshUntil(r.attestation) \in Int
      BY <2>4, <3>1, NoneAssumption, AgeAssumption DEF GateValidUntil, FreshUntil
    <3>3. ~Stale(later)
      BY <1>1, <3>2 DEF Stale
    <3> QED
      BY <1>1, <2>1, <2>4, <3>1, <3>3, AgeAssumption DEF GatePasses, WellFormed
  <2> QED
    BY <1>2, <2>2, <2>3, <2>4
<1>7. CheckProgramOperationalGate(e, later) = None
  BY <1>2, <1>6, GateIsPassed
<1>8. ASSUME r.rate # None, ~ (r.rate > EffectiveRateLimit(e, r, {}))
      PROVE  ~ (later.rate > EffectiveRateLimit(e, later, ValidApprovals(e, t, later)))
  <2> DEFINE approvals == ValidApprovals(e, t, later)
  <2>1. \A a \in approvals : a \in r.approvals /\ (a.rate # None => r.rate <= a.rate)
    BY <1>1, <1>8 DEF ValidApprovals, ApprovalMatches
  <2>2. WellFormed(later)
    BY <1>1 DEF WellFormed
  <2> HIDE DEF approvals
  <2>3. \A m \in Limits(e, r, {}) \ {None} : r.rate <= m
    <3>1. /\ EffectiveRateLimit(e, r, {}) \in Nat
          /\ \A m \in Limits(e, r, {}) \ {None} : EffectiveRateLimit(e, r, {}) <= m
      BY RateIsLeast
    <3>2. Limits(e, r, {}) \subseteq Nat \cup {None}
      BY PoliciesAssumption DEF Limits
    <3> QED
      BY <1>8, <3>1, <3>2 DEF WellFormed
  <2>4. \A m \in Limits(e, later, approvals) \ {None} : r.rate <= m
    BY <1>1, <2>1, <2>3 DEF Limits
  <2>5. EffectiveRateLimit(e, later, approvals) \in Limits(e, later, approvals) \ {None}
        /\ EffectiveRateLimit(e, later, approvals) \in Nat
    BY <1>1, <2>1, <2>2, RateIsLeast
  <2> QED
    BY <1>1, <1>8, <2>4, <2>5 DEF approvals, WellFormed
<1>9. Passed(e, t, later)
  BY <1>1, <1>3, <1>4, <1>5, <1>7, <1>8 DEF Passed
<1> QED
  BY <1>2, <1>9, AllowedHasPassed DEF later

\* A permit was issued, under a policy and a test, for a request that was
\* allowed then; and when it was taken from the queue, for the item's target
\* and with the item's clearances.
Issued(p) ==
  /\ \E e \in Policies, test \in Tests, ttl \in Ttls :
       /\ MayIssuePermit(e, test, p.request, ttl)
       /\ p.payload = NewPermit(e, test, p.request, ttl, ActiveKey)
  /\ WellFormed(p.request)
  /\ p.item # None =>
       /\ p.item.target = p.request.target /\ p.item.clears = p.request.clears
       /\ p.item.clears \cap p.item.matches = {}

AuthorityInv ==
  /\ now \in Nat /\ engagement \in Policies
  /\ \A a \in attested : a.observed \in Int
  /\ \A l \in leases : l.from \in Int /\ l.until \in Int
  /\ \A i \in queue : i.clears \cap i.matches = {}
  /\ \A p \in permits : Issued(p)

\* A request made for a target is well formed.
LEMMA TargetsAreWellFormed ==
  ASSUME AuthorityInv, NEW target, NEW clears, NEW matches, NEW a \in attested \cup {None},
         NEW l \in leases \cup {None}, NEW file, NEW rate \in Rates
  PROVE  WellFormed(TargetRequest(target, clears, matches, a, l, file, rate))
BY AskedAssumption DEF AuthorityInv, TargetRequest, WellFormed

LEMMA AuthorityStepInv == AuthorityInv /\ [AuthorityNext]_authorityVars => AuthorityInv'
<1> SUFFICES ASSUME AuthorityInv, [AuthorityNext]_authorityVars PROVE AuthorityInv'
  OBVIOUS
<1> USE DEF AuthorityInv
<1>1. CASE Pass
  BY <1>1 DEF Pass, Issued
<1>2. ASSUME NEW e \in Policies, ReplaceEngagement(e) PROVE AuthorityInv'
  BY <1>2 DEF ReplaceEngagement, Issued
<1>3. ASSUME NEW status, NEW revision, NEW error \in ClockErrors,
             Attest(status, revision, now + error)
      PROVE  AuthorityInv'
  BY <1>3, AskedAssumption DEF Attest, Issued
<1>4. ASSUME NEW c \in Clients, NEW a \in attested, NEW ttl \in Ttls, IssueLease(c, a, ttl)
      PROVE  AuthorityInv'
  BY <1>4, AuthorityTimeAssumption DEF IssueLease, NewLease, Issued
<1>5. ASSUME NEW c \in Clients, NEW l \in DOMAIN store, NEW a \in attested, NEW ttl \in Ttls,
             RenewLease(c, l, a, ttl)
      PROVE  AuthorityInv'
  BY <1>5, AuthorityTimeAssumption DEF RenewLease, NewLease, Issued
<1>6. ASSUME NEW c \in Clients, NEW l \in DOMAIN store, RevokeLease(c, l)
      PROVE  AuthorityInv'
  BY <1>6 DEF RevokeLease, Issued
<1>7. ASSUME NEW c \in Clients, WriteStore(c) PROVE AuthorityInv'
  BY <1>7 DEF WriteStore, Issued
<1>8. ASSUME NEW test \in Tests, NEW review \in Reviews, NEW a, NEW l, NEW file, NEW rate,
             PlanAndQueue(test, review, a, l, file, rate)
      PROVE  AuthorityInv'
  <2>1. \A i \in queue' : \E target \in Ready :
          i.clears = review[target].clears /\ i.matches = review[target].matches
    BY <1>8 DEF PlanAndQueue, QueueItems, BuildObservationPlan
  <2>2. \A i \in queue' : i.clears \cap i.matches = {}
    BY <1>8, <2>1 DEF PlanAndQueue
  <2> QED
    BY <1>8, <2>2 DEF PlanAndQueue, Issued
<1>9. ASSUME NEW item \in queue, NEW test \in Tests, NEW a \in attested \cup {None},
             NEW l \in leases \cup {None}, NEW file, NEW rate \in Rates, NEW ttl \in Ttls,
             BrokerQueuePermit(item, test, a, l, file, rate, ttl)
      PROVE  AuthorityInv'
  <2> DEFINE r == TargetRequest(item.target, item.clears, {}, a, l, file, rate)
             p == [payload |-> NewPermit(engagement, test, r, ttl, ActiveKey),
                   request |-> r, item |-> item]
  <2>1. MayIssuePermit(engagement, test, r, ttl) /\ permits' = permits \cup {p}
    BY <1>9 DEF BrokerQueuePermit
  <2>2. WellFormed(r) /\ r.target = item.target /\ r.clears = item.clears
    BY TargetsAreWellFormed DEF TargetRequest
  <2> HIDE DEF r
  <2>3. Issued(p)
    BY <2>1, <2>2 DEF Issued
  <2> HIDE DEF p
  <2>4. \A q \in permits' : Issued(q)
    BY <2>1, <2>3
  <2> QED
    BY <1>9, <2>4 DEF BrokerQueuePermit, Issued
<1>10. ASSUME NEW test \in Tests, NEW asked \in DirectRequests, NEW a \in attested \cup {None},
              NEW ttl \in Ttls, IssuePermit(test, asked, a, ttl)
       PROVE  AuthorityInv'
  <2> DEFINE r == [asked EXCEPT !.attestation = a, !.now = now]
             p == [payload |-> NewPermit(engagement, test, r, ttl, ActiveKey),
                   request |-> r, item |-> None]
  <2>1. MayIssuePermit(engagement, test, r, ttl) /\ permits' = permits \cup {p}
    BY <1>10 DEF IssuePermit
  <2>2. WellFormed(r)
    BY RequestsAssumption DEF WellFormed
  <2> HIDE DEF r
  <2>3. Issued(p)
    BY <2>1, <2>2 DEF Issued
  <2> HIDE DEF p
  <2>4. \A q \in permits' : Issued(q)
    BY <2>1, <2>3
  <2> QED
    BY <1>10, <2>4 DEF IssuePermit, Issued
<1>11. CASE UNCHANGED authorityVars
  BY <1>11 DEF authorityVars, Issued
<1> QED
  BY <1>1, <1>2, <1>3, <1>4, <1>5, <1>6, <1>7, <1>8, <1>9, <1>10, <1>11 DEF AuthorityNext

\* How long a permit lasts: never past what backs it.
LEMMA ExpiryIsBacked ==
  ASSUME NEW e \in Policies, NEW test, NEW r, WellFormed(r), NEW ttl \in Ttls,
         MayIssuePermit(e, test, r, ttl), NEW until, until = GateValidUntil(e, r), until # None
  PROVE  /\ until \in Int /\ PermitExpiry(e, r, ttl) \in Int /\ PermitExpiry(e, r, ttl) <= until
         /\ r.attestation # None /\ until < FreshUntil(r.attestation) + MaxLease
<1>1. e.online /\ GatePasses(e, r)
  BY PoliciesAssumption, AllowedHasPassed, GateIsPassed
     DEF MayIssuePermit, Passed, GateValidUntil
<1>2. r.attestation # None /\ r.attestation.observed \in Int
  BY <1>1 DEF GatePasses, WellFormed
<1>3. CASE Stale(r)
  <2>1. Leased(e, r) /\ until = r.lease.until
    BY <1>1, <1>3 DEF GatePasses, GateValidUntil
  <2>2. /\ r.lease.until \in Int /\ r.lease.from \in Int
        /\ r.lease.until - r.lease.from <= MaxLease
        /\ r.lease.from < FreshUntil(r.attestation)
    BY <2>1 DEF WellFormed, Leased, RequireValid, LeaseIsValid
  <2>3. until \in Int /\ until < FreshUntil(r.attestation) + MaxLease
    BY <1>2, <2>1, <2>2, AgeAssumption, LeaseAssumption DEF FreshUntil
  <2> QED
    BY <1>2, <2>3, AuthorityTimeAssumption DEF PermitExpiry, WellFormed
<1>4. CASE ~Stale(r)
  <2>1. until = FreshUntil(r.attestation)
    BY <1>1, <1>4 DEF GateValidUntil
  <2>2. until \in Int /\ until < FreshUntil(r.attestation) + MaxLease
    BY <1>2, <2>1, AgeAssumption, LeaseAssumption DEF FreshUntil
  <2> QED
    BY <1>2, <2>2, AuthorityTimeAssumption DEF PermitExpiry, WellFormed
<1> QED
  BY <1>3, <1>4

LEMMA GroundsOfThePermit == AuthorityInv => PermitsGrounded
<1> SUFFICES ASSUME AuthorityInv, NEW p \in permits
             PROVE  /\ p.payload.digest[1].online =>
                        /\ p.payload.attestation # None
                        /\ p.payload.expires < FreshUntil(p.payload.attestation) + MaxLease
                    /\ Verifies(p) /\ p.payload.approvals = {} =>
                        \E test \in Tests :
                          /\ test.id = p.payload.test
                          /\ AuthorizeTest(engagement, test, [p.request EXCEPT !.now = now])
                               = "allow"
                    /\ p.item # None =>
                        /\ p.item.target = p.payload.target
                        /\ p.payload.digest[1].exclusions \subseteq p.item.clears
                        /\ p.payload.digest[1].exclusions \cap p.item.matches = {}
                        /\ p.payload.target \notin p.payload.digest[1].denied
  BY DEF PermitsGrounded, OnlineHorizon, GroundsStillHold, ReviewBound
<1>1. Issued(p) /\ WellFormed(p.request) /\ now \in Nat
  BY DEF AuthorityInv, Issued
<1> DEFINE r == p.request
<1>2. PICK e \in Policies, test \in Tests, ttl \in Ttls :
        /\ MayIssuePermit(e, test, r, ttl)
        /\ p.payload = NewPermit(e, test, r, ttl, ActiveKey)
  BY <1>1 DEF Issued
<1>3. /\ p.payload.digest = <<e, test>> /\ p.payload.test = test.id
      /\ p.payload.target = r.target /\ p.payload.attestation = r.attestation
      /\ p.payload.approvals = ValidApprovals(e, test, r)
      /\ p.payload.issued = r.now /\ p.payload.expires = PermitExpiry(e, r, ttl)
  BY <1>2 DEF NewPermit
<1>4. AuthorizeTest(e, test, r) = "allow" /\ Passed(e, test, r)
  BY <1>2, PoliciesAssumption, AllowedHasPassed DEF MayIssuePermit
<1> HIDE DEF r
<1>5. ASSUME e.online
      PROVE  r.attestation # None /\ p.payload.expires < FreshUntil(r.attestation) + MaxLease
  <2>1. GatePasses(e, r)
    BY <1>4, PoliciesAssumption, GateIsPassed DEF Passed
  <2>2. /\ r.attestation # None /\ r.attestation.observed \in Int
        /\ Stale(r) => Leased(e, r)
    BY <1>1, <1>5, <2>1 DEF GatePasses, WellFormed, r
  <2>3. GateValidUntil(e, r) \in Int
    BY <1>1, <1>5, <2>2, AgeAssumption
       DEF GateValidUntil, WellFormed, FreshUntil, Leased, r
  <2>4. GateValidUntil(e, r) # None
    BY <2>3, NoneAssumption
  <2>5. /\ PermitExpiry(e, r, ttl) \in Int /\ PermitExpiry(e, r, ttl) <= GateValidUntil(e, r)
        /\ GateValidUntil(e, r) < FreshUntil(r.attestation) + MaxLease
    BY <1>1, <1>2, <2>4, ExpiryIsBacked DEF r
  <2>6. FreshUntil(r.attestation) + MaxLease \in Int
    BY <2>2, AgeAssumption, LeaseAssumption DEF FreshUntil
  <2> QED
    BY <1>3, <2>2, <2>3, <2>5, <2>6
<1>6. ASSUME Verifies(p), p.payload.approvals = {}
      PROVE  AuthorizeTest(engagement, test, [r EXCEPT !.now = now]) = "allow"
  <2>1. /\ p.payload.digest[1] = engagement
        /\ p.payload.issued <= now /\ now < p.payload.expires
    BY <1>6 DEF Verifies, VerifyPermit, AsIssued
  <2>2. engagement = e /\ r.now <= now /\ now < PermitExpiry(e, r, ttl)
    BY <1>3, <2>1
  <2>3. GateValidUntil(e, r) # None => now < GateValidUntil(e, r)
    BY <1>1, <1>2, <2>2, ExpiryIsBacked DEF r
  <2>4. WellFormed(r) /\ now \in Nat /\ ValidApprovals(e, test, r) = {}
    BY <1>1, <1>3, <1>6 DEF r
  <2>5. AuthorizeTest(e, test, [r EXCEPT !.now = now]) = "allow"
    BY <1>4, <2>2, <2>3, <2>4, StillAllowed
  <2> QED
    BY <2>2, <2>5
<1>7. ASSUME p.item # None
      PROVE  /\ p.item.target = r.target /\ e.exclusions \subseteq p.item.clears
             /\ e.exclusions \cap p.item.matches = {} /\ r.target \notin e.denied
  <2>1. e.exclusions \subseteq r.clears /\ r.target \notin e.denied
    BY <1>4, SemanticsArePassed DEF Passed
  <2> QED
    BY <1>1, <1>7, <2>1 DEF Issued, r
<1> QED
  BY <1>3, <1>5, <1>6, <1>7 DEF r

\* Whatever is replaced, attested, leased, renewed and revoked in between, and
\* whichever of the lease store's writes are lost: a permit is never backed
\* longer than the attestation and one lease; while it verifies and needed no
\* approval, authorize_test would allow its request again; and one of the queue
\* rests on a review that cleared every exclusion of its policy.
THEOREM PermitsAreGrounded == AuthoritySpec => []PermitsGrounded
<1>1. AuthorityInit => AuthorityInv
  BY DEF AuthorityInit, AuthorityInv
<1> QED
  BY <1>1, AuthorityStepInv, GroundsOfThePermit, PTL DEF AuthoritySpec

-----------------------------------------------------------------------------
(***************************************************************************)
(* The runner of local development.  While at most one process is past the *)
(* session lock, the state file is what that process last loaded or saved, *)
(* so what it found validated is still what the file claims.               *)
(***************************************************************************)
Outside == {"off", "take session", "own session", "steal session"}
Loaded == {"recover", "verify", "invoke", "report", "settle", "validate", "record", "advance",
           "finish", "account"}
Place == Outside \cup Loaded \cup
         {"loop", "take runner", "own runner", "steal runner", "load", "drop runner",
          "fail runner", "drop session"}
InSession(p) == proc[p].at \notin Outside

\* At most one process is past the session lock.
OneSession == \A p, q \in Runners : InSession(p) /\ InSession(q) => p = q

Works == [by : SUBSET {"agent", "somebody"}, version : Nat]
States == [status : DOMAIN Transitions, milestone : Nat, head : Nat]
Marks == {<<>>} \cup (Nat \X Nat \X Works)
Process == [at : Place, start : Nat, state : SUBSET States, tries : Nat, turn : Nat, idle : Nat,
            mark : Marks, result : Results \cup {"none"}]

RunnerTypes ==
  /\ saved \in States
  /\ head \in Nat /\ milestoneWork \in Works
  /\ proc \in [Runners -> Process]
  /\ starts \in Nat /\ edits \in Nat /\ foreign \in Nat

\* A process that loaded the state file has it in memory.
Current == \A p \in Runners : proc[p].at \in Loaded \cup {"drop runner"} => proc[p].state = {saved}

\* What is about to be recorded, advanced or declared complete was validated.
Claims ==
  /\ \A p \in Runners :
       /\ proc[p].at \in {"validate", "record", "advance"} => saved.status = "VALIDATING"
       /\ proc[p].at \in {"record", "advance"} => saved.milestone \in validated
       /\ proc[p].at = "finish" /\ saved.milestone = 0 => 0 \in validated
  /\ saved.status = "COMPLETE" => saved.milestone \in validated

\* The start of the runner.
LEMMA RunnerInit == DevInit => RunnerTypes /\ Current /\ Claims
<1> SUFFICES ASSUME DevInit PROVE RunnerTypes /\ Current /\ Claims
  OBVIOUS
<1>1. Off \in Process /\ Off.at = "off"
  BY DEF Off, Process, Place, Outside, Marks
<1>2. RunnerTypes
  BY <1>1, RunnerAssumption DEF DevInit, RunnerTypes, States, Transitions, Works, Clean
<1>3. Current /\ Claims
  BY <1>1 DEF DevInit, Current, Claims, Loaded
<1> QED BY <1>2, <1>3

\* The memory of a process that loaded the state file.
LEMMA MemoryIsCurrent ==
  ASSUME RunnerTypes, Current, NEW p \in Runners, proc[p].at \in Loaded
  PROVE  Memory(p) = saved
<1>1. proc[p].state = {saved}
  BY DEF Current
<1>2. \E s : s \in {saved} /\ TRUE
  OBVIOUS
<1>3. (CHOOSE s : s \in {saved} /\ TRUE) \in {saved}
  BY <1>2, Zenon
<1>4. (CHOOSE s \in {saved} : TRUE) \in {saved}
  BY <1>3
<1> QED BY <1>1, <1>4 DEF Memory

\* A process that moves, and one that saves, keeps the type of its memory.
LEMMA MemoryTypes ==
  ASSUME RunnerTypes, NEW p \in Runners
  PROVE  /\ proc[p] \in Process
         /\ \A to \in Place : [proc[p] EXCEPT !.at = to] \in Process
         /\ \A to \in Place, s \in States : [proc[p] EXCEPT !.at = to, !.state = {s}] \in Process
         /\ \A m : Becomes(p, m) /\ m \in Process => proc' \in [Runners -> Process]
<1>1. proc[p] \in Process
  BY DEF RunnerTypes
<1>2. \A to \in Place : [proc[p] EXCEPT !.at = to] \in Process
  BY <1>1 DEF Process
<1>3. ASSUME NEW to \in Place, NEW s \in States
      PROVE  [proc[p] EXCEPT !.at = to, !.state = {s}] \in Process
  BY <1>1 DEF Process
<1>4. \A m : Becomes(p, m) /\ m \in Process => proc' \in [Runners -> Process]
  BY DEF Becomes, RunnerTypes
<1> QED BY <1>1, <1>2, <1>3, <1>4

\* The locks' steps are steps, and a process at none is off.
LEMMA StepTypes ==
  /\ Off \in Process /\ Off.at = "off"
  /\ \A at : LockOf(at) \in {"session", "runner"}
  /\ \A l \in {"session", "runner"} : {OwnStep[l], StealStep[l], TakeStep[l]} \subseteq Place
BY DEF Off, Process, Place, Outside, Marks, LockOf, OwnStep, StealStep, TakeStep

\* The state file, and what the repository looks like, keep their types.
LEMMA StatesTypes ==
  ASSUME NEW s \in States
  PROVE  /\ s.status \in DOMAIN Transitions /\ s.milestone \in Nat /\ s.head \in Nat
         /\ \A status \in DOMAIN Transitions : [s EXCEPT !.status = status] \in States
         /\ [s EXCEPT !.milestone = @ + 1] \in States
         /\ \A h \in Nat : [s EXCEPT !.head = h] \in States
BY DEF States

\* What a step of one process may do to the others, to the state file and to its claims.
Keeps(p) ==
  /\ RunnerTypes'
  /\ \A q \in Runners \ {p} : proc'[q] = proc[q]
  /\ saved' = saved \/ InSession(p)
  /\ proc'[p].at \in Loaded \cup {"drop runner"} => proc'[p].state = {saved'}
  /\ validated \subseteq validated'
Claimed(p) ==
  /\ proc'[p].at \in {"validate", "record", "advance"} => saved'.status = "VALIDATING"
  /\ proc'[p].at \in {"record", "advance"} => saved'.milestone \in validated'
  /\ proc'[p].at = "finish" /\ saved'.milestone = 0 => 0 \in validated'
  /\ saved'.status = "COMPLETE" => saved'.milestone \in validated
  /\ saved'.milestone # saved.milestone =>
       saved'.milestone = saved.milestone + 1 /\ saved.milestone \in validated
World ==
  /\ head' \in Nat /\ milestoneWork' \in Works
  /\ starts' \in Nat /\ edits' \in Nat /\ foreign' \in Nat

\* A step that leaves the state file alone and does not claim to know it.
LEMMA StepAside ==
  ASSUME RunnerTypes, Claims, NEW p \in Runners, NEW m \in Process, Becomes(p, m), World,
         UNCHANGED <<saved, validated>>,
         m.at \notin Loaded \cup {"drop runner"} \/
           (m.state = {saved} /\ m.at \notin {"validate", "record", "advance", "finish"})
  PROVE  Keeps(p) /\ Claimed(p)
<1>1. proc'[p] = m /\ \A q \in Runners \ {p} : proc'[q] = proc[q]
  BY DEF Becomes, RunnerTypes
<1>2. RunnerTypes'
  BY MemoryTypes DEF RunnerTypes, World
<1>3. Keeps(p)
  BY <1>1, <1>2 DEF Keeps
<1>4. Claimed(p)
  BY <1>1 DEF Claimed, Claims, Loaded
<1> QED BY <1>3, <1>4

\* A step that saves the state file.
LEMMA StepSaves ==
  ASSUME RunnerTypes, NEW p \in Runners, NEW s \in States, NEW to \in Place,
         Saves(p, s, to), World, InSession(p), validated' = validated
  PROVE  /\ Keeps(p)
         /\ saved' = s /\ proc'[p].at = to
<1> DEFINE m == [proc[p] EXCEPT !.at = to, !.state = {s}]
<1>1. m \in Process /\ Becomes(p, m) /\ saved' = s
  BY MemoryTypes DEF Saves
<1>2. m.at = to /\ m.state = {s}
  BY MemoryTypes DEF Process
<1> HIDE DEF m
<1>3. proc'[p] = m /\ \A q \in Runners \ {p} : proc'[q] = proc[q]
  BY <1>1 DEF Becomes, RunnerTypes
<1>4. RunnerTypes'
  BY <1>1, MemoryTypes DEF RunnerTypes, World
<1> QED BY <1>1, <1>2, <1>3, <1>4 DEF Keeps

\* Waking up, the locks and the head of the loop leave the state file alone.
LEMMA LocksKeep ==
  ASSUME RunnerTypes, Current, Claims, NEW p \in Runners,
         \/ Wake(p) \/ RunnerCrash(p) \/ Take(p) \/ Own(p) \/ Steal(p) \/ Drop(p) \/ Loop(p)
  PROVE  Keeps(p) /\ Claimed(p)
<1> DEFINE l == LockOf(proc[p].at)
<1>0. /\ l \in {"session", "runner"}
      /\ {OwnStep[l], StealStep[l], TakeStep[l]} \subseteq Place \ (Loaded \cup {"drop runner"})
  BY DEF Place, Outside, Loaded, LockOf, OwnStep, StealStep, TakeStep
<1>1. CASE Wake(p)
  <2> DEFINE m == [Off EXCEPT !.at = "take session", !.start = starts + 1]
  <2>1. m \in Process /\ m.at = "take session"
    <3>1. starts + 1 \in Nat /\ "take session" \in Place
      BY DEF RunnerTypes, Place, Outside
    <3> QED BY <3>1, StepTypes DEF Process
  <2>2. Becomes(p, m) /\ World /\ UNCHANGED <<saved, validated>>
    BY <1>1 DEF Wake, World, RunnerTypes, disk
  <2> HIDE DEF m
  <2> QED BY <2>1, <2>2, StepAside DEF Loaded
<1>2. CASE RunnerCrash(p)
  <2>1. Becomes(p, Off) /\ World /\ UNCHANGED <<saved, validated>>
    BY <1>2 DEF RunnerCrash, World, RunnerTypes, disk
  <2> QED BY <2>1, StepTypes, StepAside DEF Loaded
<1>3. CASE Take(p)
  <2>1. World /\ UNCHANGED <<saved, validated>>
    BY <1>3 DEF Take, World, RunnerTypes, disk, counts
  <2>2. PICK m : /\ Becomes(p, m)
                 /\ m \in {Off, [proc[p] EXCEPT !.at = "drop session"],
                           [proc[p] EXCEPT !.at = OwnStep[l]],
                           [proc[p] EXCEPT !.at = StealStep[l]]}
    BY <1>3 DEF Take, RunnerMoves
  <2>3. m \in Process /\ m.at \notin Loaded \cup {"drop runner"}
    <3>1. ASSUME NEW to \in Place, m = [proc[p] EXCEPT !.at = to]
          PROVE  m \in Process /\ m.at = to
      BY <3>1, MemoryTypes DEF Process
    <3>2. "drop session" \in Place \ (Loaded \cup {"drop runner"})
      BY DEF Place, Loaded
    <3>3. m = Off => m \in Process /\ m.at \notin Loaded \cup {"drop runner"}
      BY StepTypes DEF Loaded
    <3> QED BY <1>0, <2>2, <3>1, <3>2, <3>3
  <2> QED BY <2>1, <2>2, <2>3, StepAside
<1>4. CASE Own(p)
  <2> DEFINE m == [proc[p] EXCEPT !.at = IF l = "session" THEN "loop" ELSE "load", !.tries = 0]
  <2>1. Becomes(p, m) /\ World /\ UNCHANGED <<saved, validated>>
    BY <1>4 DEF Own, World, RunnerTypes, disk, counts
  <2>2. m \in Process /\ m.at \in {"loop", "load"}
    <3>1. proc[p] \in Process
      BY MemoryTypes
    <3>2. "loop" \in Place /\ "load" \in Place
      BY DEF Place
    <3> QED BY <3>1, <3>2 DEF Process
  <2> HIDE DEF m
  <2> QED BY <2>1, <2>2, StepAside DEF Loaded
<1>5. CASE Steal(p)
  <2>1. World /\ UNCHANGED <<saved, validated>>
    BY <1>5 DEF Steal, World, RunnerTypes, disk, counts
  <2>2. PICK m : /\ Becomes(p, m)
                 /\ m \in {Off, [proc[p] EXCEPT !.at = "drop session"],
                           [proc[p] EXCEPT !.at = TakeStep[l], !.tries = @ + 1]}
    BY <1>5 DEF Steal, RunnerMoves
  <2>3. m \in Process /\ m.at \notin Loaded \cup {"drop runner"}
    <3>1. CASE m = Off
      BY <3>1, StepTypes DEF Loaded
    <3>2. CASE m = [proc[p] EXCEPT !.at = "drop session"]
      <4>1. "drop session" \in Place \ (Loaded \cup {"drop runner"}) /\ proc[p] \in Process
        BY MemoryTypes DEF Place, Loaded
      <4>2. m \in Process /\ m.at = "drop session"
        BY <3>2, <4>1 DEF Process
      <4> QED BY <4>1, <4>2
    <3>3. CASE m = [proc[p] EXCEPT !.at = TakeStep[l], !.tries = @ + 1]
      <4>1. proc[p].tries + 1 \in Nat
        <5>1. proc[p] \in Process
          BY MemoryTypes
        <5> QED BY <5>1 DEF Process
      <4>2. m \in Process /\ m.at = TakeStep[l]
        BY <1>0, <3>3, <4>1, MemoryTypes DEF Process
      <4> QED BY <1>0, <4>2
    <3> QED BY <2>2, <3>1, <3>2, <3>3
  <2> QED BY <2>1, <2>2, <2>3, StepAside
<1>6. CASE Drop(p)
  <2>1. World /\ UNCHANGED <<saved, validated>>
    BY <1>6 DEF Drop, World, RunnerTypes, disk, counts
  <2>2. PICK m : /\ Becomes(p, m)
                 /\ \/ m = Off \/ m = [proc[p] EXCEPT !.at = "drop session"]
                    \/ m = [proc[p] EXCEPT !.at = "account"] /\ proc[p].at = "drop runner"
    BY <1>6 DEF Drop, RunnerMoves
  <2>3. m \in Process
    <3>1. "drop session" \in Place /\ "account" \in Place
      BY DEF Place, Loaded
    <3>2. /\ [proc[p] EXCEPT !.at = "drop session"] \in Process
          /\ [proc[p] EXCEPT !.at = "account"] \in Process
      BY <3>1, MemoryTypes
    <3>3. m \in {Off, [proc[p] EXCEPT !.at = "drop session"], [proc[p] EXCEPT !.at = "account"]}
      BY <2>2
    <3> QED BY <3>2, <3>3, StepTypes
  <2>4. CASE m = [proc[p] EXCEPT !.at = "account"] /\ proc[p].at = "drop runner"
    <3>1. m.at = "account" /\ m.state = {saved}
      BY <2>4, MemoryTypes DEF Process, Current
    <3> QED BY <2>1, <2>2, <2>3, <3>1, StepAside
  <2>5. CASE m = Off \/ m = [proc[p] EXCEPT !.at = "drop session"]
    <3>1. m.at \in {"off", "drop session"}
      BY <2>5, StepTypes, MemoryTypes DEF Process
    <3> QED BY <2>1, <2>2, <2>3, <3>1, StepAside DEF Loaded
  <2> QED BY <2>2, <2>4, <2>5
<1>7. CASE Loop(p)
  <2>1. World /\ UNCHANGED <<saved, validated>>
    BY <1>7 DEF Loop, World, RunnerTypes, disk, counts
  <2>2. PICK m : /\ Becomes(p, m)
                 /\ m \in {[proc[p] EXCEPT !.at = "drop session"],
                           [proc[p] EXCEPT !.at = "take runner", !.tries = 0, !.turn = @ + 1,
                                           !.mark = Fingerprint(saved)]}
    BY <1>7 DEF Loop, RunnerMoves
  <2>3. Fingerprint(saved) \in Marks
    BY DEF Fingerprint, Marks, RunnerTypes, States
  <2>4. m \in Process /\ m.at \in {"drop session", "take runner"}
    <3>1. CASE m = [proc[p] EXCEPT !.at = "drop session"]
      <4>1. proc[p] \in Process /\ "drop session" \in Place
        BY MemoryTypes DEF Place
      <4> QED BY <3>1, <4>1 DEF Process
    <3>2. CASE m = [proc[p] EXCEPT !.at = "take runner", !.tries = 0, !.turn = @ + 1,
                                   !.mark = Fingerprint(saved)]
      <4>1. proc[p].turn + 1 \in Nat
        <5>1. proc[p] \in Process
          BY MemoryTypes
        <5> QED BY <5>1 DEF Process
      <4>2. "take runner" \in Place
        BY DEF Place
      <4> QED BY <2>3, <3>2, <4>1, <4>2, MemoryTypes DEF Process
    <3> QED BY <2>2, <3>1, <3>2
  <2> QED BY <2>1, <2>2, <2>4, StepAside DEF Loaded
<1> QED BY <1>1, <1>2, <1>3, <1>4, <1>5, <1>6, <1>7

\* The steps of an iteration that save the state they had loaded, and no milestone.
LEMMA IterationKeeps ==
  ASSUME RunnerTypes, Current, Claims, NEW p \in Runners,
         Load(p) \/ Recover(p) \/ VerifyRepository(p) \/ Settle(p)
  PROVE  Keeps(p) /\ Claimed(p)
<1>1. World /\ InSession(p) /\ validated' = validated
  BY DEF Load, Recover, VerifyRepository, Settle, World, RunnerTypes, counts, InSession, Outside
<1>2. saved \in States
  BY DEF RunnerTypes
<1>3. ASSUME NEW status \in DOMAIN Transitions \ {"COMPLETE"},
             NEW to \in {"drop runner", "recover", "verify", "invoke"},
             Saves(p, [saved EXCEPT !.status = status], to)
      PROVE  Keeps(p) /\ Claimed(p)
  <2> DEFINE s == [saved EXCEPT !.status = status]
  <2>1. s \in States /\ s.status = status /\ s.milestone = saved.milestone
    BY <1>2 DEF States
  <2>2. to \in Place
    BY DEF Place, Loaded
  <2>3. Saves(p, s, to)
    BY <1>3
  <2> HIDE DEF s
  <2>4. Keeps(p) /\ saved' = s /\ proc'[p].at = to
    BY <1>1, <2>1, <2>2, <2>3, StepSaves
  <2> QED BY <2>1, <2>4 DEF Claimed
<1>4. {"BLOCKED", "RECOVERING", "READY", "RUNNING", "WAITING_FOR_RESET", "HUMAN_GATE"}
        \subseteq DOMAIN Transitions \ {"COMPLETE"}
  BY DEF Transitions
<1>5. CASE Load(p)
  <2>1. CASE Saves(p, saved, "drop runner") /\ saved.status = "BLOCKED"
    <3>1. saved = [saved EXCEPT !.status = "BLOCKED"]
      BY <1>2, <2>1 DEF States
    <3> QED BY <1>3, <1>4, <2>1, <3>1
  <2>2. CASE Saves(p, saved, "verify") /\ saved.status \in {"READY", "WAITING_FOR_RESET"}
    <3>1. saved = [saved EXCEPT !.status = saved.status]
      BY <1>2 DEF States
    <3> QED BY <1>3, <1>4, <2>2, <3>1
  <2>3. CASE saved' = saved /\ RunnerMoves(p, "fail runner")
    <3> DEFINE m == [proc[p] EXCEPT !.at = "fail runner"]
    <3>1. m \in Process /\ m.at = "fail runner"
      <4>1. proc[p] \in Process /\ "fail runner" \in Place
        BY MemoryTypes DEF Place
      <4> QED BY <4>1 DEF Process
    <3>2. Becomes(p, m)
      BY <2>3 DEF RunnerMoves
    <3> HIDE DEF m
    <3> QED BY <1>1, <2>3, <3>1, <3>2, StepAside DEF Loaded
  <2>4. CASE Saves(p, [saved EXCEPT !.status = "BLOCKED"], "drop runner")
    BY <1>3, <1>4, <2>4
  <2>5. CASE Saves(p, [saved EXCEPT !.status = "RECOVERING"], "recover")
    BY <1>3, <1>4, <2>5
  <2> QED BY <1>5, <2>1, <2>2, <2>3, <2>4, <2>5 DEF Load
<1>6. CASE Recover(p)
  <2>1. Memory(p) = saved
    BY <1>6, MemoryIsCurrent DEF Recover, Loaded
  <2> QED BY <1>3, <1>4, <1>6, <2>1 DEF Recover
<1>7. CASE VerifyRepository(p)
  <2>1. Memory(p) = saved
    BY <1>7, MemoryIsCurrent DEF VerifyRepository, Loaded
  <2> QED BY <1>3, <1>4, <1>7, <2>1 DEF VerifyRepository
<1>8. CASE Settle(p)
  <2>1. Memory(p) = saved
    BY <1>8, MemoryIsCurrent DEF Settle, Loaded
  <2>2. PICK status \in {"WAITING_FOR_RESET", "HUMAN_GATE", "READY"} :
          Saves(p, [saved EXCEPT !.status = status], "drop runner")
    BY <1>8, <2>1 DEF Settle
  <2> QED BY <1>3, <1>4, <2>2
<1> QED BY <1>5, <1>6, <1>7, <1>8

\* The agent and its report leave the milestone alone.
LEMMA InvocationKeeps ==
  ASSUME RunnerTypes, Current, Claims, NEW p \in Runners,
         Invoke(p) \/ \E result \in Results : Report(p, result)
  PROVE  Keeps(p) /\ Claimed(p)
<1>1. CASE Invoke(p)
  <2> DEFINE m == [proc[p] EXCEPT !.at = "report"]
  <2>1. Becomes(p, m) /\ UNCHANGED <<saved, validated>> /\ proc[p].at = "invoke"
    BY <1>1 DEF Invoke, RunnerMoves
  <2>2. World
    <3>1. head + 1 \in Nat /\ edits + 1 \in Nat /\ Clean \in Works
          /\ [by |-> milestoneWork.by \cup {"agent"}, version |-> edits + 1] \in Works
      BY DEF RunnerTypes, Works, Clean
    <3> QED BY <1>1, <3>1 DEF Invoke, World, RunnerTypes
  <2>3. m \in Process /\ m.at = "report" /\ m.state = {saved}
    <3>1. "report" \in Place /\ proc[p] \in Process /\ proc[p].state = {saved}
      BY <2>1, MemoryTypes DEF Place, Loaded, Current
    <3> QED BY <3>1 DEF Process
  <2> HIDE DEF m
  <2> QED BY <2>1, <2>2, <2>3, StepAside
<1>2. ASSUME NEW result \in Results, Report(p, result)
      PROVE  Keeps(p) /\ Claimed(p)
  <2> DEFINE to == CASE result = "MILESTONE_COMPLETE" -> "validate"
                     [] result = "BLOCKED" -> "drop runner" [] OTHER -> "settle"
             m == [proc[p] EXCEPT !.state = {saved'}, !.result = result, !.at = to]
  <2>1. /\ Memory(p) = saved /\ saved \in States /\ proc[p].at = "report"
        /\ World /\ InSession(p) /\ validated' = validated
    BY <1>2, MemoryIsCurrent DEF Report, Loaded, RunnerTypes, World, counts, InSession, Outside
  <2>2. Becomes(p, m)
    BY <1>2 DEF Report
  <2>3. /\ saved' \in States /\ saved'.milestone = saved.milestone
        /\ saved'.status = saved.status \/ saved'.status # "COMPLETE"
    <3>1. \/ saved' = [saved EXCEPT !.status = "VALIDATING"]
          \/ saved' = [saved EXCEPT !.status = "BLOCKED"]
          \/ saved' = saved
      BY <1>2, <2>1 DEF Report
    <3>2. {"VALIDATING", "BLOCKED"} \subseteq DOMAIN Transitions
      BY DEF Transitions
    <3> QED BY <2>1, <3>1, <3>2 DEF States
  <2>4. to \in {"validate", "drop runner", "settle"} /\ to \in Place
    BY DEF Place, Loaded
  <2> HIDE DEF to
  <2>5. m \in Process /\ m.at = to /\ m.state = {saved'}
    BY <2>3, <2>4, MemoryTypes DEF Process
  <2> HIDE DEF m
  <2>6. proc'[p] = m /\ \A q \in Runners \ {p} : proc'[q] = proc[q]
    BY <2>2 DEF Becomes, RunnerTypes
  <2>7. RunnerTypes'
    BY <2>1, <2>2, <2>3, <2>5, MemoryTypes DEF RunnerTypes, World
  <2>8. Keeps(p)
    BY <2>1, <2>5, <2>6, <2>7 DEF Keeps
  <2>9. m.at = "validate" => saved'.status = "VALIDATING"
    <3>1. to = "validate" => result = "MILESTONE_COMPLETE"
      BY DEF to
    <3> QED BY <1>2, <2>1, <2>5, <3>1 DEF Report, States
  <2>10. Claimed(p)
    BY <2>1, <2>3, <2>4, <2>5, <2>6, <2>9 DEF Claimed, Claims
  <2> QED BY <2>8, <2>10
<1> QED BY <1>1, <1>2

\* A validation that passes is what the next steps claim.
LEMMA ValidationKeeps ==
  ASSUME RunnerTypes, Current, Claims, NEW p \in Runners, Validate(p)
  PROVE  Keeps(p) /\ Claimed(p)
<1>1. PICK to \in {"settle", "record"} :
        /\ Becomes(p, [proc[p] EXCEPT !.at = to])
        /\ to = "record" => validated' = validated \cup {Memory(p).milestone}
        /\ to = "settle" => validated' = validated
  BY DEF Validate, RunnerMoves
<1>9. saved.status = "VALIDATING"
  BY DEF Validate, Claims
<1> DEFINE m == [proc[p] EXCEPT !.at = to]
<1>2. /\ Memory(p) = saved /\ saved' = saved /\ proc[p].state = {saved} /\ World
  BY MemoryIsCurrent DEF Validate, Current, Loaded, World, RunnerTypes, counts
<1>3. m \in Process /\ m.at = to /\ m.state = {saved}
  <2>1. to \in Place /\ proc[p] \in Process
    BY MemoryTypes DEF Place, Loaded
  <2> QED BY <1>2, <2>1 DEF Process
<1>4. Becomes(p, m)
  BY <1>1
<1> HIDE DEF m
<1>5. proc'[p] = m /\ \A q \in Runners \ {p} : proc'[q] = proc[q]
  BY <1>4 DEF Becomes, RunnerTypes
<1>6. RunnerTypes'
  BY <1>2, <1>3, <1>4, MemoryTypes DEF RunnerTypes, World
<1>7. Keeps(p)
  BY <1>1, <1>2, <1>3, <1>5, <1>6 DEF Keeps
<1>8. Claimed(p)
  BY <1>1, <1>2, <1>3, <1>5, <1>9 DEF Claimed, Claims
<1> QED BY <1>7, <1>8

\* What follows a validation claims only what it found.
LEMMA CompletionKeeps ==
  ASSUME RunnerTypes, Current, Claims, NEW p \in Runners,
         RecordHead(p) \/ Advance(p) \/ Finish(p)
  PROVE  Keeps(p) /\ Claimed(p)
<1>1. /\ World /\ InSession(p) /\ validated' = validated /\ saved \in States
      /\ Memory(p) = saved
  BY MemoryIsCurrent
     DEF RecordHead, Advance, Finish, World, RunnerTypes, counts, InSession, Outside, Loaded
<1>2. CASE RecordHead(p)
  <2> DEFINE s == [saved EXCEPT !.head = head]
             to == IF saved.milestone \in 1..LastMilestone THEN "advance" ELSE "finish"
  <2>1. s \in States /\ s.status = saved.status /\ s.milestone = saved.milestone
    BY <1>1 DEF States, RunnerTypes
  <2>2. Saves(p, s, to) /\ saved.milestone \in validated
    BY <1>1, <1>2 DEF RecordHead, Claims
  <2>5. saved.status = "VALIDATING"
    BY <1>2 DEF RecordHead, Claims
  <2>3. to \in Place /\ to \in {"advance", "finish"}
    BY DEF Place, Loaded
  <2> HIDE DEF s, to
  <2>4. Keeps(p) /\ saved' = s /\ proc'[p].at = to
    BY <1>1, <2>1, <2>2, <2>3, StepSaves
  <2> QED BY <1>1, <2>1, <2>2, <2>4, <2>5 DEF Claimed
<1>3. CASE Advance(p)
  <2> DEFINE s == [saved EXCEPT !.milestone = @ + 1]
  <2>1. s \in States /\ s.status = saved.status /\ s.milestone = saved.milestone + 1
        /\ s.milestone # 0
    BY <1>1 DEF States
  <2>2. Saves(p, s, "finish") /\ saved.milestone \in validated /\ "finish" \in Place
    BY <1>1, <1>3 DEF Advance, Claims, Place, Loaded
  <2>3. saved.status = "VALIDATING"
    BY <1>3 DEF Advance, Claims
  <2> HIDE DEF s
  <2>4. Keeps(p) /\ saved' = s /\ proc'[p].at = "finish"
    BY <1>1, <2>1, <2>2, StepSaves
  <2> QED BY <1>1, <2>1, <2>2, <2>3, <2>4 DEF Claimed
<1>4. CASE Finish(p)
  <2> DEFINE status == IF saved.milestone = 0 THEN "COMPLETE"
                       ELSE IF saved.milestone > LastMilestone THEN "HUMAN_GATE" ELSE "READY"
             s == [saved EXCEPT !.status = status]
  <2>1. status \in DOMAIN Transitions /\ (status = "COMPLETE" => saved.milestone = 0)
    BY DEF Transitions
  <2>2. Saves(p, s, "drop runner")
    BY <1>1, <1>4 DEF Finish
  <2> HIDE DEF status
  <2>3. s \in States /\ s.status = status /\ s.milestone = saved.milestone
    BY <1>1, <2>1 DEF States
  <2>4. saved.milestone = 0 => saved.milestone \in validated
    BY <1>4 DEF Finish, Claims
  <2> HIDE DEF s
  <2>5. Keeps(p) /\ saved' = s /\ proc'[p].at = "drop runner"
    BY <1>1, <2>2, <2>3, StepSaves DEF Place
  <2> QED BY <1>1, <2>1, <2>3, <2>4, <2>5 DEF Claimed
<1> QED BY <1>2, <1>3, <1>4

\* The tail of the loop saves what was returned, or that it is blocked.
LEMMA AccountKeeps ==
  ASSUME RunnerTypes, Current, Claims, NEW p \in Runners, Account(p)
  PROVE  Keeps(p) /\ Claimed(p)
<1> DEFINE m == proc[p]
           idle == IF Fingerprint(saved) # m.mark THEN 0 ELSE m.idle + 1
           stop == saved.status # "READY"
           over == ~stop /\ idle >= MaxIdle
           next == IF over THEN [saved EXCEPT !.status = "BLOCKED"] ELSE saved
           to == IF stop \/ over \/ m.result \in {"BLOCKED", "RESUMABLE"}
                 THEN "drop session" ELSE "loop"
           m2 == [m EXCEPT !.idle = idle, !.state = {next}, !.at = to]
<1>1. /\ World /\ InSession(p) /\ validated' = validated /\ saved \in States
      /\ Memory(p) = saved /\ m \in Process
  BY MemoryIsCurrent, MemoryTypes
     DEF Account, World, RunnerTypes, counts, InSession, Outside, Loaded
<1>2. saved' = next /\ Becomes(p, m2)
  BY <1>1 DEF Account
<1>3. idle \in Nat
  <2>1. m.idle \in Nat
    BY <1>1 DEF Process
  <2> HIDE DEF m
  <2> QED BY <2>1
<1>4. /\ next \in States /\ next.milestone = saved.milestone
      /\ next.status = saved.status \/ next.status = "BLOCKED"
  <2>1. "BLOCKED" \in DOMAIN Transitions
    BY DEF Transitions
  <2> HIDE DEF over
  <2> QED BY <1>1, <2>1 DEF States
<1>5. to \in {"drop session", "loop"} /\ to \in Place
  BY DEF Place
<1> HIDE DEF m, idle, next, to
<1>6. m2 \in Process /\ m2.at = to
  BY <1>1, <1>3, <1>4, <1>5 DEF Process
<1> HIDE DEF m2
<1>7. proc'[p] = m2 /\ \A q \in Runners \ {p} : proc'[q] = proc[q]
  BY <1>2 DEF Becomes, RunnerTypes
<1>8. RunnerTypes'
  BY <1>1, <1>2, <1>4, <1>6, MemoryTypes DEF RunnerTypes, World
<1>9. Keeps(p)
  BY <1>1, <1>5, <1>6, <1>7, <1>8 DEF Keeps, Loaded
<1>10. Claimed(p)
  BY <1>1, <1>2, <1>4, <1>5, <1>6, <1>7 DEF Claimed, Claims
<1> QED BY <1>9, <1>10

\* Every step keeps what the state file claims, while one process at most is in a session.
LEMMA RunnerKeeps ==
  ASSUME RunnerTypes, Current, Claims, OneSession, [DevNext]_runnerVars
  PROVE  /\ RunnerTypes' /\ Current' /\ Claims'
         /\ saved'.milestone # saved.milestone =>
              saved'.milestone = saved.milestone + 1 /\ saved.milestone \in validated
         /\ saved'.status = "COMPLETE" => saved'.milestone \in validated
<1>1. ASSUME NEW p \in Runners, Keeps(p), Claimed(p)
      PROVE  /\ RunnerTypes' /\ Current' /\ Claims'
             /\ saved'.milestone # saved.milestone =>
                  saved'.milestone = saved.milestone + 1 /\ saved.milestone \in validated
             /\ saved'.status = "COMPLETE" => saved'.milestone \in validated
  <2>1. ASSUME NEW q \in Runners \ {p}, proc[q].at \in Loaded \cup {"drop runner"}
        PROVE  saved' = saved /\ proc'[q] = proc[q]
    <3>1. InSession(q)
      BY <2>1 DEF InSession, Outside, Loaded
    <3> QED BY <1>1, <2>1, <3>1 DEF Keeps, OneSession
  <2>2. Current'
    BY <1>1, <2>1 DEF Current, Keeps
  <2>3. Claims'
    <3>1. ASSUME NEW q \in Runners
          PROVE  /\ proc'[q].at \in {"validate", "record", "advance"} => saved'.status = "VALIDATING"
                 /\ proc'[q].at \in {"record", "advance"} => saved'.milestone \in validated'
                 /\ proc'[q].at = "finish" /\ saved'.milestone = 0 => 0 \in validated'
      <4>1. CASE q = p
        BY <1>1, <4>1 DEF Claimed
      <4>2. CASE q # p
        <5>1. proc'[q] = proc[q] /\ validated \subseteq validated'
          BY <1>1, <4>2 DEF Keeps
        <5>2. proc[q].at \in {"validate", "record", "advance", "finish"} => saved' = saved
          <6>1. proc[q].at \in {"validate", "record", "advance", "finish"} => proc[q].at \in Loaded
            BY DEF Loaded
          <6>2. proc[q].at \in Loaded => saved' = saved
            BY <2>1, <4>2
          <6> QED BY <6>1, <6>2
        <5>3. /\ proc[q].at \in {"validate", "record", "advance"} => saved.status = "VALIDATING"
              /\ proc[q].at \in {"record", "advance"} => saved.milestone \in validated
              /\ proc[q].at = "finish" /\ saved.milestone = 0 => 0 \in validated
          BY DEF Claims
        <5> HIDE DEF Claims
        <5> QED BY <5>1, <5>2, <5>3
      <4> QED BY <4>1, <4>2
    <3>2. saved'.status = "COMPLETE" => saved'.milestone \in validated'
      BY <1>1 DEF Claimed, Keeps
    <3> QED BY <3>1, <3>2 DEF Claims
  <2> QED BY <1>1, <2>2, <2>3 DEF Keeps, Claimed
<1>2. CASE \E p \in Runners : Wake(p) \/ RunnerCrash(p) \/ RunnerStep(p)
  <2>1. PICK p \in Runners : Wake(p) \/ RunnerCrash(p) \/ RunnerStep(p)
    BY <1>2
  <2>2. Keeps(p) /\ Claimed(p)
    BY <2>1, LocksKeep, IterationKeeps, InvocationKeeps, ValidationKeeps, CompletionKeeps,
       AccountKeeps DEF RunnerStep
  <2> QED BY <1>1, <2>2
<1>3. CASE Foreign
  <2>1. saved' = saved /\ proc' = proc /\ validated' = validated
    BY <1>3 DEF Foreign
  <2>2. RunnerTypes'
    <3>1. /\ [by |-> milestoneWork.by \cup {"somebody"}, version |-> 100 + foreign] \in Works
          /\ Clean \in Works /\ head + 1 \in Nat /\ foreign + 1 \in Nat
      BY DEF RunnerTypes, Works, Clean
    <3> QED BY <1>3, <3>1 DEF Foreign, RunnerTypes
  <2> QED BY <2>1, <2>2 DEF Current, Claims
<1>4. CASE UNCHANGED runnerVars
  BY <1>4 DEF runnerVars, disk, counts, RunnerTypes, Current, Claims
<1> QED BY <1>2, <1>3, <1>4 DEF DevNext

\* While at most one process is past the session lock (the lock can fail to hold it: OneRunner),
\* the milestone moves, and completion is claimed, only over what was validated.
THEOREM ClaimsAreValidated == DevSpec /\ []OneSession => ClaimsValidated
<1> DEFINE Moved == /\ saved'.milestone # saved.milestone =>
                         saved'.milestone = saved.milestone + 1 /\ saved.milestone \in validated
                    /\ saved'.status = "COMPLETE" => saved'.milestone \in validated
           Inv == RunnerTypes /\ Current /\ Claims
<1>1. DevInit => Inv
  BY RunnerInit
<1>2. Inv /\ OneSession /\ [DevNext]_runnerVars => Inv'
  BY RunnerKeeps
<1>3. Inv /\ OneSession /\ [DevNext]_runnerVars => [Moved]_runnerVars
  <2> SUFFICES ASSUME Inv, OneSession, [DevNext]_runnerVars PROVE Moved
    OBVIOUS
  <2> QED BY RunnerKeeps
<1> QED BY <1>1, <1>2, <1>3, PTL DEF DevSpec, ClaimsValidated

\* One process alone is such a process, whatever it meets and however often it dies.
THEOREM LoneRunnerClaims == (\A p, q \in Runners : p = q) => (DevSpec => ClaimsValidated)
<1> SUFFICES ASSUME \A p, q \in Runners : p = q
             PROVE  DevSpec => ClaimsValidated
  OBVIOUS
<1>1. OneSession
  BY DEF OneSession
<1> QED BY <1>1, ClaimsAreValidated, PTL
-----------------------------------------------------------------------------
(***************************************************************************)
(* The fair queue.                                                         *)
(***************************************************************************)
\* Plans are finite: their rows, and those that may be authorized, are numbered.
LEMMA PlansNumbered ==
  ASSUME NEW ps \in PlanSets
  PROVE  /\ DOMAIN ps \subseteq Nat /\ OpenPlans(ps) \subseteq DOMAIN ps
         /\ IsFiniteSet(OpenPlans(ps))
         /\ \A p \in DOMAIN ps : OpenRows(ps[p]) \subseteq Nat /\ IsFiniteSet(OpenRows(ps[p]))
<1> DEFINE R == [target : PlanTargets, authorizable : BOOLEAN]
<1>1. ps \in Seq(Seq(R))
  BY PlanAssumption
<1> HIDE DEF R
<1>2. /\ DOMAIN ps = 1..Len(ps) /\ Len(ps) \in Nat
      /\ \A p \in DOMAIN ps : ps[p] \in Seq(R)
  BY <1>1
<1>3. IsFiniteSet(DOMAIN ps) /\ OpenPlans(ps) \subseteq DOMAIN ps
  BY <1>2, FS_Interval DEF OpenPlans
<1>4. ASSUME NEW p \in DOMAIN ps
      PROVE  OpenRows(ps[p]) \subseteq Nat /\ IsFiniteSet(OpenRows(ps[p]))
  <2>1. DOMAIN ps[p] = 1..Len(ps[p]) /\ Len(ps[p]) \in Nat
    BY <1>2
  <2>2. IsFiniteSet(DOMAIN ps[p]) /\ OpenRows(ps[p]) \subseteq DOMAIN ps[p]
    BY <2>1, FS_Interval DEF OpenRows
  <2> QED
    BY <2>1, <2>2, FS_Subset
<1> QED
  BY <1>2, <1>3, <1>4, FS_Subset

\* A later position has more of the set ahead of it.
LEMMA AheadGrows ==
  ASSUME NEW S, S \subseteq Nat, IsFiniteSet(S), NEW i \in S
  PROVE  /\ Ahead(S, i) \in Nat
         /\ \A j \in S : i < j => Ahead(S, i) < Ahead(S, j)
<1> DEFINE Before(k) == {j \in S : j < k}
<1>1. \A k : IsFiniteSet(Before(k)) /\ Cardinality(Before(k)) \in Nat
  BY FS_Subset, FS_CardinalityType
<1>2. ASSUME NEW j \in S, i < j PROVE Cardinality(Before(i)) < Cardinality(Before(j))
  <2>1. Before(i) \cup {i} \subseteq Before(j) /\ i \notin Before(i)
    <3>1. \A k \in S : k \in Nat
      OBVIOUS
    <3>2. \A k \in Before(i) : k \in S /\ k < j
      BY <1>2, <3>1
    <3>3. i \notin Before(i)
      BY <3>1
    <3> QED
      BY <1>2, <3>2, <3>3
  <2> HIDE DEF Before
  <2>2. Cardinality(Before(i) \cup {i}) = Cardinality(Before(i)) + 1
    BY <1>1, <2>1, FS_AddElement
  <2>3. Cardinality(Before(i) \cup {i}) <= Cardinality(Before(j))
    BY <1>1, <2>1, FS_Subset
  <2> QED
    BY <1>1, <2>2, <2>3
<1> QED
  BY <1>1, <1>2 DEF Ahead

\* The active plans are as many as there may be, or all that have work.
LEMMA PlacesAreUsed ==
  ASSUME NEW ps \in PlanSets
  PROVE  /\ ActivePlans(ps) \subseteq OpenPlans(ps) /\ IsFiniteSet(ActivePlans(ps))
         /\ OpenPlans(ps) # ActivePlans(ps) => Cardinality(ActivePlans(ps)) = MaxActive
<1> DEFINE O == OpenPlans(ps)
           A == ActivePlans(ps)
<1>1. /\ O \subseteq Nat /\ IsFiniteSet(O) /\ A \subseteq O /\ IsFiniteSet(A)
      /\ \A p : p \in A <=> p \in O /\ Ahead(O, p) < MaxActive
      /\ MaxActive \in Nat \ {0}
  <2>1. A \subseteq O /\ \A p : p \in A <=> p \in O /\ Ahead(O, p) < MaxActive
    BY DEF ActivePlans
  <2> QED
    BY <2>1, PlansNumbered, QueueAssumption, FS_Subset
<1> HIDE DEF O, A
<1>2. Cardinality(A) \in Nat
  BY <1>1, FS_CardinalityType
<1>3. Cardinality(A) <= MaxActive
  <2> DEFINE f == [p \in A |-> Ahead(O, p)]
  <2>1. \A p \in A : Ahead(O, p) \in 0..(MaxActive - 1)
    <3>1. \A p \in A : Ahead(O, p) \in Nat /\ Ahead(O, p) < MaxActive
      BY <1>1, AheadGrows
    <3> QED
      BY <1>1, <3>1
  <2>2. \A p, r \in A : f[p] = f[r] => p = r
    <3> SUFFICES ASSUME NEW p \in A, NEW r \in A, p < r PROVE Ahead(O, p) < Ahead(O, r)
      <4>1. \A p \in A : p \in Nat /\ Ahead(O, p) \in Nat
        BY <1>1, <2>1
      <4> QED
        BY <4>1
    <3> QED
      BY <1>1, AheadGrows
  <2>3. f \in Injection(A, 0..(MaxActive - 1))
    BY <2>1, <2>2 DEF Injection, IsInjective
  <2>4. IsFiniteSet(0..(MaxActive - 1)) /\ Cardinality(0..(MaxActive - 1)) = MaxActive
    <3>1. /\ 0 \in Int /\ MaxActive - 1 \in Int
          /\ ~(0 > MaxActive - 1) /\ MaxActive - 1 - 0 + 1 = MaxActive
      BY <1>1
    <3> QED
      BY <3>1, FS_Interval
  <2> HIDE DEF f
  <2>5. Cardinality(A) <= Cardinality(0..(MaxActive - 1))
    BY <2>3, <2>4, FS_Injection
  <2> QED
    BY <2>4, <2>5
<1>4. ASSUME O # A PROVE Cardinality(A) >= MaxActive
  <2>1. PICK p \in O \ A : \A r \in O \ A : p <= r
    <3>1. O \ A \subseteq Nat /\ O \ A # {}
      BY <1>1, <1>4
    <3> QED
      BY <3>1, NatLeast
  <2> DEFINE B == {r \in O : r < p}
  <2>2. B \subseteq A
    <3>1. \A r \in O : r \in Nat
      BY <1>1
    <3>2. \A r \in B : r \in O /\ ~(p <= r)
      BY <2>1, <3>1
    <3> HIDE DEF B
    <3> QED
      BY <2>1, <3>2
  <2>3. Cardinality(B) = Ahead(O, p)
    BY DEF Ahead
  <2>4. Ahead(O, p) \in Nat /\ ~(Ahead(O, p) < MaxActive)
    BY <1>1, <2>1, AheadGrows
  <2> HIDE DEF B
  <2>5. Cardinality(B) <= Cardinality(A)
    BY <1>1, <2>2, FS_Subset
  <2> QED
    BY <1>1, <1>2, <2>3, <2>4, <2>5
<1> QED
  BY <1>1, <1>2, <1>3, <1>4 DEF O, A

\* Items of some plans are those plans' open rows, and finitely many.
LEMMA ItemsOfPlans ==
  ASSUME NEW ps \in PlanSets, NEW chosen \in SUBSET DOMAIN ps, IsFiniteSet(chosen)
  PROVE  /\ IsFiniteSet(Items(ps, chosen))
         /\ \A x \in Items(ps, chosen) :
              x = [plan |-> x.plan, row |-> x.row] /\ x.plan \in chosen
              /\ x.row \in OpenRows(ps[x.plan])
         /\ \A p \in chosen : \A i \in OpenRows(ps[p]) : [plan |-> p, row |-> i] \in Items(ps, chosen)
<1> DEFINE Of(p) == {[plan |-> p, row |-> i] : i \in OpenRows(ps[p])}
           groups == {Of(p) : p \in chosen}
<1>1. Items(ps, chosen) = UNION groups
  BY DEF Items
<1>2. ASSUME NEW p \in chosen PROVE IsFiniteSet(Of(p))
  <2> DEFINE f == [i \in OpenRows(ps[p]) |-> [plan |-> p, row |-> i]]
  <2>1. f \in Surjection(OpenRows(ps[p]), Of(p))
    BY DEF Surjection
  <2>2. IsFiniteSet(OpenRows(ps[p]))
    BY PlansNumbered
  <2> QED
    BY <2>1, <2>2, FS_Surjection
<1>3. IsFiniteSet(groups)
  <2> DEFINE f == [p \in chosen |-> Of(p)]
  <2> HIDE DEF Of
  <2>1. f \in Surjection(chosen, groups)
    BY DEF Surjection
  <2> QED
    BY <2>1, FS_Surjection
<1>4. IsFiniteSet(UNION groups)
  <2>1. \A T \in groups : IsFiniteSet(T)
    BY <1>2
  <2> HIDE DEF groups
  <2> QED
    BY <1>3, <2>1, FS_UNION
<1>5. \A x \in UNION groups :
        \E p \in chosen : \E i \in OpenRows(ps[p]) : x = [plan |-> p, row |-> i]
  OBVIOUS
<1>6. \A p \in chosen : \A i \in OpenRows(ps[p]) : [plan |-> p, row |-> i] \in UNION groups
  OBVIOUS
<1> HIDE DEF groups
<1> QED
  BY <1>1, <1>4, <1>5, <1>6

\* A fair queue holds items of active plans, each once, and with one all whose turn is sooner.
LEMMA TurnsAreKept ==
  ASSUME NEW ps \in PlanSets, NEW q \in FairQueues(ps)
  PROVE  LET all == Items(ps, ActivePlans(ps))
         IN /\ IsFiniteSet(DOMAIN q) /\ q \in [DOMAIN q -> all]
            /\ \A m, n \in DOMAIN q : q[m] = q[n] => m = n
            /\ \A n \in DOMAIN q : \A x \in all :
                 (Turn(ps, x) < Turn(ps, q[n])
                    \/ (Turn(ps, x) = Turn(ps, q[n]) /\ x.plan < q[n].plan))
                   => \E m \in DOMAIN q : q[m] = x
<1> DEFINE all == Items(ps, ActivePlans(ps))
           length == IF Cardinality(all) < MaxItems THEN Cardinality(all) ELSE MaxItems
<1>1. /\ q \in Injection(1..length, all)
      /\ \A n \in DOMAIN q : \A x \in all :
           (Turn(ps, x) < Turn(ps, q[n])
              \/ (Turn(ps, x) = Turn(ps, q[n]) /\ x.plan < q[n].plan))
             => \E m \in 1..(n - 1) : q[m] = x
  <2>1. /\ q \in Injection(1..length, all)
        /\ \A n \in DOMAIN q : \A x \in [y \in all |-> Sooner(ps, y)][q[n]] :
             \E m \in 1..(n - 1) : q[m] = x
    BY DEF FairQueues, Queues
  <2>2. \A n \in DOMAIN q : q[n] \in all
    BY <2>1 DEF Injection, IsInjective
  <2>3. \A n \in DOMAIN q : \A x \in Sooner(ps, q[n]) : \E m \in 1..(n - 1) : q[m] = x
    BY <2>1, <2>2
  <2>4. ASSUME NEW n \in DOMAIN q, NEW x \in all,
               Turn(ps, x) < Turn(ps, q[n])
                 \/ (Turn(ps, x) = Turn(ps, q[n]) /\ x.plan < q[n].plan)
        PROVE  \E m \in 1..(n - 1) : q[m] = x
    <3>1. x \in Sooner(ps, q[n])
      BY <2>4 DEF Sooner
    <3> QED
      BY <2>3, <3>1
  <2> QED
    BY <2>1, <2>4
<1>2. length \in Nat
  <2>1. ActivePlans(ps) \subseteq DOMAIN ps /\ IsFiniteSet(ActivePlans(ps))
    BY PlansNumbered, PlacesAreUsed
  <2>2. IsFiniteSet(all)
    BY <2>1, ItemsOfPlans
  <2>3. Cardinality(all) \in Nat
    BY <2>2, FS_CardinalityType
  <2> HIDE DEF all
  <2> QED
    BY <2>3, QueueAssumption
<1> HIDE DEF length, all
<1>3. /\ q \in [1..length -> all] /\ DOMAIN q = 1..length
      /\ \A m, n \in 1..length : q[m] = q[n] => m = n
  BY <1>1 DEF Injection, IsInjective
<1>4. IsFiniteSet(DOMAIN q)
  BY <1>2, <1>3, FS_Interval
<1>5. \A n \in DOMAIN q : \A m \in 1..(n - 1) : m \in DOMAIN q
  BY <1>2, <1>3
<1> QED
  BY <1>1, <1>3, <1>4, <1>5 DEF all

\* What a queue holds of a plan.
Got(q, p) == {n \in DOMAIN q : q[n].plan = p}

\* An active plan that has work left got as many items as any other, or one less.
LEMMA ActiveShares ==
  ASSUME NEW ps \in PlanSets, NEW q \in FairQueues(ps), NEW p \in ActivePlans(ps),
         Cardinality(OpenRows(ps[p])) > Cardinality(Got(q, p)), NEW z
  PROVE  Cardinality(Got(q, z)) <= Cardinality(Got(q, p)) + 1
<1> DEFINE all == Items(ps, ActivePlans(ps))
           Rows(y) == OpenRows(ps[y])
           Left == {i \in Rows(p) : \A n \in DOMAIN q : q[n] # [plan |-> p, row |-> i]}
<1>1. /\ IsFiniteSet(DOMAIN q) /\ q \in [DOMAIN q -> all]
      /\ \A m, n \in DOMAIN q : q[m] = q[n] => m = n
      /\ \A n \in DOMAIN q : \A x \in all :
           (Turn(ps, x) < Turn(ps, q[n])
              \/ (Turn(ps, x) = Turn(ps, q[n]) /\ x.plan < q[n].plan))
             => \E m \in DOMAIN q : q[m] = x
  BY TurnsAreKept
<1>2. ActivePlans(ps) \subseteq DOMAIN ps /\ IsFiniteSet(ActivePlans(ps))
  BY PlansNumbered, PlacesAreUsed
<1>3. /\ \A x \in all : x = [plan |-> x.plan, row |-> x.row] /\ x.plan \in ActivePlans(ps)
                        /\ x.row \in Rows(x.plan)
      /\ \A y \in ActivePlans(ps) : \A i \in Rows(y) : [plan |-> y, row |-> i] \in all
  BY <1>2, ItemsOfPlans
<1>4. \A y \in ActivePlans(ps) : Rows(y) \subseteq Nat /\ IsFiniteSet(Rows(y))
  BY <1>2, PlansNumbered
<1>5. \A y : IsFiniteSet(Got(q, y)) /\ Cardinality(Got(q, y)) \in Nat
  BY <1>1, FS_Subset, FS_CardinalityType DEF Got
<1> HIDE DEF all
<1>6. Left # {}
  <2> SUFFICES ASSUME Left = {} PROVE FALSE
    OBVIOUS
  <2> DEFINE f == [n \in Got(q, p) |-> q[n].row]
  <2>1. \A n \in Got(q, p) : q[n].row \in Rows(p)
    BY <1>1, <1>3 DEF Got
  <2>2. \A i \in Rows(p) : \E n \in Got(q, p) : q[n].row = i
    BY DEF Got
  <2>3. f \in Surjection(Got(q, p), Rows(p))
    BY <2>1, <2>2 DEF Surjection
  <2>4. Cardinality(Rows(p)) <= Cardinality(Got(q, p)) /\ IsFiniteSet(Rows(p))
    BY <1>5, <2>3, FS_Surjection
  <2>5. Cardinality(Rows(p)) \in Nat
    BY <2>4, FS_CardinalityType
  <2> QED
    BY <1>5, <2>4, <2>5
<1>7. PICK r \in Left : \A i \in Left : r <= i
  <2>1. Left \subseteq Nat
    BY <1>4
  <2> HIDE DEF Left
  <2> QED
    BY <1>6, <2>1, NatLeast
<1> DEFINE turn == Ahead(Rows(p), r)
           item == [plan |-> p, row |-> r]
<1>8. /\ r \in Rows(p) /\ item \in all /\ \A n \in DOMAIN q : q[n] # item
      /\ Turn(ps, item) = turn /\ turn \in Nat
  <2>1. r \in Rows(p) /\ \A n \in DOMAIN q : q[n] # item
    BY <1>7
  <2>2. Turn(ps, item) = turn
    BY DEF Turn
  <2>3. turn \in Nat
    BY <1>4, <2>1, AheadGrows
  <2> QED
    BY <1>3, <2>1, <2>2, <2>3
<1>9. turn <= Cardinality(Got(q, p))
  <2> DEFINE B == {i \in Rows(p) : i < r}
             G == {n \in Got(q, p) : q[n].row \in B}
             f == [n \in G |-> q[n].row]
  <2>1. \A i \in B : \E n \in G : q[n].row = i
    <3> TAKE i \in B
    <3>1. i \notin Left
      <4>1. i \in Nat /\ r \in Nat /\ i < r
        BY <1>4, <1>8
      <4> QED
        BY <1>7, <4>1
    <3>2. PICK n \in DOMAIN q : q[n] = [plan |-> p, row |-> i]
      BY <3>1
    <3> QED
      BY <3>2 DEF Got
  <2>2. f \in Surjection(G, B)
    BY <2>1 DEF Surjection
  <2>3. IsFiniteSet(G) /\ Cardinality(G) <= Cardinality(Got(q, p)) /\ Cardinality(G) \in Nat
    <3>1. G \subseteq Got(q, p)
      OBVIOUS
    <3> HIDE DEF G
    <3> QED
      BY <1>5, <3>1, FS_Subset, FS_CardinalityType
  <2>4. turn = Cardinality(B)
    BY DEF Ahead
  <2> HIDE DEF B, G, f
  <2>5. Cardinality(B) <= Cardinality(G)
    BY <2>2, <2>3, FS_Surjection
  <2> QED
    BY <1>5, <1>8, <2>3, <2>4, <2>5
<1>10. Cardinality(Got(q, z)) <= turn + 1
  <2> DEFINE f == [n \in Got(q, z) |-> Ahead(Rows(z), q[n].row)]
  <2>1. ASSUME NEW n \in Got(q, z)
        PROVE  /\ n \in DOMAIN q /\ q[n] = [plan |-> z, row |-> q[n].row]
               /\ z \in ActivePlans(ps) /\ q[n].row \in Rows(z)
               /\ Ahead(Rows(z), q[n].row) \in 0..turn
    <3>1. /\ n \in DOMAIN q /\ q[n] = [plan |-> z, row |-> q[n].row]
          /\ z \in ActivePlans(ps) /\ q[n].row \in Rows(z)
      BY <1>1, <1>3 DEF Got
    <3>2. Turn(ps, q[n]) = Ahead(Rows(z), q[n].row)
      BY <3>1 DEF Turn
    <3>3. Ahead(Rows(z), q[n].row) \in Nat
      BY <1>4, <3>1, AheadGrows
    <3>4. ~(turn < Ahead(Rows(z), q[n].row))
      <4> HIDE DEF turn, item
      <4> QED
        BY <1>1, <1>8, <3>1, <3>2
    <3> HIDE DEF turn
    <3> QED
      BY <1>8, <3>1, <3>3, <3>4
  <2>2. \A m, n \in Got(q, z) : f[m] = f[n] => m = n
    <3> SUFFICES ASSUME NEW m \in Got(q, z), NEW n \in Got(q, z),
                        Ahead(Rows(z), q[m].row) = Ahead(Rows(z), q[n].row)
                 PROVE  m = n
      OBVIOUS
    <3>1. \A i, j \in Rows(z) : i < j => Ahead(Rows(z), i) < Ahead(Rows(z), j)
      BY <1>4, <2>1, AheadGrows
    <3>2. q[m].row \in Rows(z) /\ q[n].row \in Rows(z)
          /\ q[m].row \in Nat /\ q[n].row \in Nat
          /\ Ahead(Rows(z), q[m].row) \in Nat /\ Ahead(Rows(z), q[n].row) \in Nat
      BY <1>4, <2>1, AheadGrows
    <3>3. q[m].row = q[n].row
      <4> HIDE DEF Rows
      <4> QED
        BY <3>1, <3>2
    <3>4. q[m] = q[n]
      BY <2>1, <3>3
    <3> QED
      BY <1>1, <2>1, <3>4
  <2>3. f \in Injection(Got(q, z), 0..turn)
    <3>1. f \in [Got(q, z) -> 0..turn]
      <4> HIDE DEF turn, Rows
      <4> QED
        BY <2>1
    <3> HIDE DEF turn
    <3> QED
      BY <2>2, <3>1 DEF Injection, IsInjective
  <2>4. IsFiniteSet(0..turn) /\ Cardinality(0..turn) = turn + 1
    <3>1. 0 \in Int /\ turn \in Int /\ ~(0 > turn) /\ turn - 0 + 1 = turn + 1
      BY <1>8
    <3> HIDE DEF turn
    <3> QED
      BY <3>1, FS_Interval
  <2> HIDE DEF f, turn
  <2>5. Cardinality(Got(q, z)) <= Cardinality(0..turn)
    BY <2>3, <2>4, FS_Injection
  <2> QED
    BY <2>4, <2>5
<1> HIDE DEF turn
<1> QED
  BY <1>5, <1>8, <1>9, <1>10

\* The queue's invariant: while a queue is the fair one, it is that of the plans.
QueueInv == plans \in PlanSets /\ (order = "fair" => work \in FairQueues(plans))

\* The fair queue gives no program two items more than another that has work left, unless
\* the places of active programs are all taken by others; whatever plans and limits are.
THEOREM SharesAreFair == PlannerSpec => []FairShare
<1>1. PlannerInit => QueueInv
  BY DEF PlannerInit, QueueInv
<1>2. QueueInv /\ [PlannerNext]_plannerVars => QueueInv'
  <2> SUFFICES ASSUME QueueInv, [PlannerNext]_plannerVars PROVE QueueInv'
    OBVIOUS
  <2>1. CASE ReplanPrograms
    BY <2>1 DEF ReplanPrograms, QueueInv
  <2>2. CASE BuildFairQueue
    BY <2>2 DEF BuildFairQueue, QueueInv
  <2>3. CASE BuildPriorityQueue
    BY <2>3 DEF BuildPriorityQueue, QueueInv
  <2>4. CASE UNCHANGED <<plans, work, order>>
    BY <2>4 DEF QueueInv
  <2> QED
    BY <2>1, <2>2, <2>3, <2>4 DEF PlannerNext, InitializePlannerState, ReadRow, UpdateRow,
                                  plannerVars
<1>3. QueueInv => FairShare
  <2> SUFFICES ASSUME plans \in PlanSets, work \in FairQueues(plans),
                      NEW p \in DOMAIN plans, Open(p) > Queued(p)
               PROVE  \/ \A q \in DOMAIN plans : Queued(q) <= Queued(p) + 1
                      \/ /\ Queued(p) = 0
                         /\ Cardinality({q \in DOMAIN plans : Queued(q) > 0}) = MaxActive
    BY DEF QueueInv, FairShare
  <2> DEFINE A == ActivePlans(plans)
  <2>1. \A q : Queued(q) = Cardinality(Got(work, q))
    BY DEF Queued, Got
  <2>2. /\ A \subseteq OpenPlans(plans) /\ OpenPlans(plans) \subseteq DOMAIN plans
        /\ OpenPlans(plans) # A => Cardinality(A) = MaxActive
    BY PlansNumbered, PlacesAreUsed
  <2>3. \A q : /\ IsFiniteSet(Got(work, q)) /\ Queued(q) \in Nat
               /\ Queued(q) = 0 <=> Got(work, q) = {}
    <3>1. IsFiniteSet(DOMAIN work)
      BY TurnsAreKept
    <3>2. \A q : IsFiniteSet(Got(work, q))
      BY <3>1, FS_Subset DEF Got
    <3> QED
      BY <2>1, <3>2, FS_CardinalityType, FS_EmptySet
  <2>4. \A q : q \notin A => Got(work, q) = {}
    <3>1. \A n \in DOMAIN work : work[n].plan \in A
      <4>1. IsFiniteSet(A) /\ A \subseteq DOMAIN plans
        BY <2>2, PlacesAreUsed
      <4>2. \A x \in Items(plans, A) : x.plan \in A
        BY <4>1, ItemsOfPlans
      <4>3. work \in [DOMAIN work -> Items(plans, A)]
        BY TurnsAreKept
      <4> QED
        BY <4>2, <4>3
    <3> QED
      BY <3>1 DEF Got
  <2>5. p \in OpenPlans(plans) /\ IsFiniteSet(OpenRows(plans[p]))
    <3>1. IsFiniteSet(OpenRows(plans[p]))
      BY PlansNumbered
    <3>2. OpenRows(plans[p]) # {}
      BY <2>3, FS_EmptySet DEF Open
    <3> QED
      BY <3>1, <3>2 DEF OpenPlans
  <2>6. CASE p \in A
    <3>1. Cardinality(OpenRows(plans[p])) > Cardinality(Got(work, p))
      BY <2>1 DEF Open
    <3> QED
      BY <2>1, <2>6, <3>1, ActiveShares
  <2>7. CASE p \notin A /\ \E z \in A : Queued(z) = 0
    <3>1. PICK z \in A : Queued(z) = 0
      BY <2>7
    <3>2. Cardinality(OpenRows(plans[z])) > Cardinality(Got(work, z))
      <4>1. OpenRows(plans[z]) # {} /\ IsFiniteSet(OpenRows(plans[z]))
        BY <2>2, PlansNumbered DEF OpenPlans
      <4>2. Cardinality(OpenRows(plans[z])) \in Nat /\ Cardinality(OpenRows(plans[z])) # 0
        BY <4>1, FS_CardinalityType, FS_EmptySet
      <4> QED
        BY <2>1, <3>1, <4>2
    <3>3. \A q : Queued(q) <= Queued(z) + 1
      BY <2>1, <3>2, ActiveShares
    <3>4. Queued(p) = 0
      BY <2>3, <2>4, <2>7
    <3> QED
      BY <3>1, <3>3, <3>4
  <2>8. CASE p \notin A /\ \A z \in A : Queued(z) # 0
    <3>1. {q \in DOMAIN plans : Queued(q) > 0} = A
      <4>1. \A q \in A : q \in DOMAIN plans /\ Queued(q) > 0
        BY <2>2, <2>3, <2>8
      <4>2. \A q : Queued(q) > 0 => q \in A
        BY <2>3, <2>4
      <4> HIDE DEF A
      <4> QED
        BY <4>1, <4>2
    <3>2. Cardinality(A) = MaxActive
      BY <2>2, <2>5, <2>8
    <3>3. Queued(p) = 0
      BY <2>3, <2>4, <2>8
    <3> QED
      BY <3>1, <3>2, <3>3
  <2> QED
    BY <2>6, <2>7, <2>8
<1> QED
  BY <1>1, <1>2, <1>3, PTL DEF PlannerSpec
=============================================================================
