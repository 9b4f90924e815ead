--------------------------- MODULE ProgramIntake ---------------------------
(***************************************************************************)
(* The text of a program page, turned into a policy: scope entries,        *)
(* constraints and the issues an operator has to review; the reviews; and  *)
(* the engagement compiled from a reviewed policy.  All operators are pure.*)
(*                                                                         *)
(* A page is a sequence of lines.  Of a line the model keeps its text (a   *)
(* name), the section it opens, whether its wording denies, the assets it  *)
(* names, the constraints it states and the issue codes it raises.         *)
(***************************************************************************)
EXTENDS Naturals, Sequences, FiniteSets, SequencesExt

IssueOrder == <<"broad_asset_exclusion", "physical_or_totem_asset_exclusion",
                "qualitative_rate_limit">>
NoText == "no source text"
NoRate == 0
DefaultRate == 2

\* The section a line belongs to.  "heading" is a '#' line that opens none of the known
\* sections, "heading_deny" one that also mentions an exclusion.
SectionAfter(section, line) ==
  CASE line.opens = "none"         -> section
    [] line.opens = "heading"      -> "other"
    [] line.opens = "heading_deny" -> IF section = "deny" THEN "deny" ELSE "other"
    [] OTHER                       -> line.opens

SectionsOf(lines) ==
  LET section[n \in 0..Len(lines)] ==
        IF n = 0 THEN "other" ELSE SectionAfter(section[n - 1], lines[n])
  IN section

ScopeOfLine(section, line) ==
  IF section = "deny" \/ line.denies THEN {[effect |-> "deny", asset |-> a] : a \in line.assets}
  ELSE IF section = "scope" THEN {[effect |-> "allow", asset |-> a] : a \in line.assets}
  ELSE {}

\* Where a page raises issues: the line, and the place of the issue in the order in which
\* a line is tested for them.
Marks(lines) ==
  {m \in (DOMAIN lines) \X (DOMAIN IssueOrder) : IssueOrder[m[2]] \in lines[m[1]].issues}
Before(m, o) == m[1] < o[1] \/ (m[1] = o[1] /\ m[2] < o[2])

\* The issues of a page, by line and by order.
Raised(lines) ==
  LET nth(i) == CHOOSE m \in Marks(lines) :
                  Cardinality({o \in Marks(lines) : Before(o, m)}) = i - 1
  IN [i \in 1..Cardinality(Marks(lines)) |->
        [code |-> IssueOrder[nth(i)[2]], text |-> lines[nth(i)[1]].text, resolution |-> {}]]

\* import_program_text
ImportText(url, lines) ==
  LET section == SectionsOf(lines)
      scope   == UNION {ScopeOfLine(section[n], lines[n]) : n \in DOMAIN lines}
      missing == [code |-> "no_allowed_scope_extracted", text |-> NoText, resolution |-> {}]
  IN [scope      |-> scope,
      rules      |-> UNION {lines[n].rules : n \in DOMAIN lines},
      issues     |-> IF \E e \in scope : e.effect = "allow" THEN Raised(lines)
                     ELSE Append(Raised(lines), missing),
      rate       |-> NoRate,
      exclusions |-> {},
      source     |-> lines,
      url        |-> url]
-----------------------------------------------------------------------------
Unresolved(program) == {i \in DOMAIN program.issues : program.issues[i].resolution = {}}
Ready(program) == Unresolved(program) = {}
Allowed(program) == {e \in program.scope : e.effect = "allow"}

RateIssues(program) ==
  {i \in Unresolved(program) : program.issues[i].code = "qualitative_rate_limit"}

\* An issue holds no resolution or one: the rate an operator chose or <<kind, value>>.
ByRate == {<<"rate", "operator">>}
ResolvedAt(issues, which, resolution) ==
  [i \in DOMAIN issues |->
     IF i \in which THEN [issues[i] EXCEPT !.resolution = resolution] ELSE issues[i]]

\* resolve_rate_issue, where RateIssues(program) is not empty
ResolveRate(program, rps) ==
  [program EXCEPT !.rate = rps, !.issues = ResolvedAt(@, RateIssues(program), ByRate)]

GuardrailKinds(code) ==
  CASE code = "broad_asset_exclusion" ->
         {"product_family", "organization_family", "asset_family"}
    [] code = "physical_or_totem_asset_exclusion" -> {"asset_family"}
    [] OTHER -> {}

CanGuard(program, index, kind) ==
  /\ index \in Unresolved(program)
  /\ kind \in GuardrailKinds(program.issues[index].code)

\* resolve_issue_with_semantic_exclusion: the identifier of a rule hashes the program, the
\* position of the issue, the kind and the value; the text of the issue is not in it.
ResolveGuardrail(program, index, kind, value) ==
  LET id   == <<index, kind, value>>
      rule == [id |-> id, text |-> program.issues[index].text, guards |-> <<kind, value>>]
  IN [program EXCEPT
        !.exclusions = IF \E r \in @ : r.id = id THEN @ ELSE @ \cup {rule},
        !.issues     = ResolvedAt(@, {index}, {<<kind, value>>})]

\* compile_program: the reasons it refuses, with the rate given on the command line (or NoRate).
Compiles(program, rps) ==
  /\ \A i \in Unresolved(program) :
       rps # NoRate /\ program.issues[i].code = "qualitative_rate_limit"
  /\ Allowed(program) # {}

Engagement(program, rps) ==
  [allowed    |-> Allowed(program),
   denied     |-> program.scope \ Allowed(program),
   rate       |-> IF rps # NoRate THEN rps
                  ELSE IF program.rate # NoRate THEN program.rate ELSE DefaultRate,
   exclusions |-> program.exclusions,
   online     |-> "program_must_be_online" \in program.rules]
-----------------------------------------------------------------------------
\* What program_security_fingerprint hashes: not the reviews, not the rate, not the exclusions.
Fingerprint(program) ==
  LET keys == {<<program.issues[i].code, program.issues[i].text>> : i \in DOMAIN program.issues}
  IN [scope  |-> program.scope,
      rules  |-> program.rules,
      issues |-> [k \in keys |->
                    Cardinality({i \in DOMAIN program.issues :
                                   <<program.issues[i].code, program.issues[i].text>> = k})]]

\* classify_policy_drift of a current program from the previous one, if any
Drift(previous, current) ==
  IF previous = {} THEN "none"
  ELSE IF \A p \in previous : Fingerprint(p) # Fingerprint(current) THEN "security_relevant"
  ELSE IF \A p \in previous : p.source # current.source THEN "non_security_text_only"
  ELSE "none"

Key(issue) == <<issue.code, issue.text>>

\* The issues of a program that a review of the previous one covers, and its resolution.
Reviewed(previous, issue) ==
  {i \in DOMAIN previous.issues \ Unresolved(previous) : Key(previous.issues[i]) = Key(issue)}
Carried(previous, issues) == {i \in DOMAIN issues : Reviewed(previous, issues[i]) # {}}
WithReviews(previous, issues) ==
  [i \in DOMAIN issues |->
     IF i \in Carried(previous, issues)
     THEN [issues[i] EXCEPT
             !.resolution = previous.issues[Max(Reviewed(previous, issues[i]))].resolution]
     ELSE issues[i]]

\* Mutant: the reviewed rate stays with the policy it was entered for.
CarryForward_NoRate(previous, current) ==
  [current EXCEPT
     !.issues     = WithReviews(previous, @),
     !.exclusions = {r \in previous.exclusions :
                       \E i \in Carried(previous, current.issues) : r.text = current.issues[i].text}]

\* _carry_forward_matching_reviews: the reviews of the issues whose code and text are
\* unchanged, the reviewed rate, and the guardrails of the carried texts.  (No operation
\* writes a deny entry of an operator, so none is carried.)
CarryForward(previous, current) ==
  LET carried == Carried(previous, current.issues)
  IN [current EXCEPT
        !.issues     = WithReviews(previous, @),
        !.rate       = IF \E i \in carried : current.issues[i].code = "qualitative_rate_limit"
                       THEN previous.rate ELSE @,
        !.exclusions = {r \in previous.exclusions :
                          \E i \in carried : r.text = current.issues[i].text}]
=============================================================================
