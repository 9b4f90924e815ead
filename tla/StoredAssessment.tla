------------------------- MODULE StoredAssessment -------------------------
(***************************************************************************)
(* What stored evidence is made to say, offline: records that fail their   *)
(* hash are put aside, the others give signals, signals give candidates,   *)
(* and candidates of the same vulnerability and asset one finding.         *)
(*                                                                         *)
(* A record is [id, engagement, intact, source, target, redirect, shows,   *)
(* body, names]: who produced the response, what its headers show, what    *)
(* its body artifact holds and the targets that body names.  A body that   *)
(* is "lost" or "altered" is not read.                                     *)
(***************************************************************************)
EXTENDS FiniteSets

CONSTANTS
  NoTarget, \* no redirect
  Excluded  \* keys of the signals suppressed by an excluded term

Technology == {"server", "framework", "cdn"}
Observed == {"header_absent", "cookie", "cors"}
PostureKeys == {"header_absent", "server"}
Secret == {"key", "entropy"}

FromTarget_Status(e) == e.target # NoTarget
\* Who produced a response is what its provenance says, never inferred.
FromTarget(e) == e.source = "target"

Technologies(e) == IF FromTarget(e) THEN e.shows \cap Technology ELSE {}
Protocol(e) == IF FromTarget(e) THEN e.shows \cap Observed ELSE {}
Posture(e) == IF FromTarget(e) THEN e.shows \cap PostureKeys ELSE {}

Signal(e, family, key, eligible) ==
  [key |-> <<family, key>>, target |-> e.target, evidence |-> e.id, eligible |-> eligible,
   confirmed |-> FALSE]

\* Only the wildcard with credentials is more than information.
NormalizeSignals(e) ==
  {Signal(e, "fingerprint", k, FALSE) : k \in Technologies(e)}
    \cup {Signal(e, "protocol", k, k = "cors") : k \in Protocol(e)}
    \cup {Signal(e, "posture", k, FALSE) : k \in Posture(e)}

Readable(e) == e.body.state = "kept" /\ FromTarget(e)

\* Patterns are sure enough to be candidates, entropy alone is not.
ExposedContent(e) ==
  IF Readable(e) THEN {Signal(e, "secret", k, k # "entropy") : k \in e.body.holds \cap Secret}
  ELSE {}

RedirectCandidates(e) ==
  IF FromTarget(e) /\ e.redirect # NoTarget THEN {e.redirect} ELSE {}

\* Scripts, pages and JSON documents name targets; other bodies do not.
NamedCandidates(e) ==
  IF Readable(e) /\ e.body.kind \in {"javascript", "html", "json"} THEN e.names ELSE {}

\* One record, for review: nothing is derived from a record that was altered.
Consume(e) ==
  [id |-> e.id, valid |-> e.intact,
   signals |-> IF e.intact THEN NormalizeSignals(e) \cup ExposedContent(e) ELSE {},
   discovered |-> IF e.intact THEN RedirectCandidates(e) \cup NamedCandidates(e) ELSE {}]

ConsumeDirectory(records) == {Consume(e) : e \in records}

BuildCandidates(signals) ==
  {[vulnerability |-> s.key, asset |-> s.target, signals |-> {s},
    proof |-> IF s.confirmed THEN "verified" ELSE "suspected"]
     : s \in {t \in signals : t.eligible /\ t.key[2] \notin Excluded}}

\* The strongest proof of the group, and the signals of all its members.
Correlate(candidates) ==
  {LET group == {d \in candidates : d.vulnerability = c.vulnerability /\ d.asset = c.asset}
   IN [vulnerability |-> c.vulnerability, asset |-> c.asset,
       signals |-> UNION {d.signals : d \in group},
       proof |-> IF \E d \in group : d.proof = "verified" THEN "verified" ELSE "suspected"]
   : c \in candidates}

AlteredIds(records) == {e.id : e \in {r \in records : ~r.intact}}
SoundRecords(records) == {e \in records : e.id \notin AlteredIds(records)}

\* A record of another engagement stops the whole assessment.
Assessable(records, engagement) == \A e \in SoundRecords(records) : e.engagement = engagement

\* One cycle of each record, in any order: the targets it adds and the plans made
\* of them are not kept by the assessment.
OrchestratedSignals(records) == UNION {NormalizeSignals(e) : e \in records}

Findings(records) == Correlate(BuildCandidates(OrchestratedSignals(SoundRecords(records))))

\* The consumers' findings, which take the secrets of the bodies as well.
SynthesizedFindings(records) ==
  Correlate(BuildCandidates(UNION {c.signals : c \in ConsumeDirectory(records)}))

\* "Only evidence-backed proof states are reported": each finding rests on
\* signals of intact records whose response the target itself produced.
Backed(findings, records) ==
  \A f \in findings :
    /\ f.signals # {}
    /\ f.proof = "verified" => \E s \in f.signals : s.confirmed
    /\ \A s \in f.signals : \E e \in records :
         e.id = s.evidence /\ e.intact /\ e.source = "target" /\ e.target = f.asset
=============================================================================
